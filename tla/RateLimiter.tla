---------------------------- MODULE RateLimiter ----------------------------
(***************************************************************************)
(* The attempt counter of POST /auth/login (AuthService.login) and         *)
(* GET /auth/discover (AuthController.discover): INCR, EXPIRE on the first *)
(* attempt, compare.  One key is modelled; the keys of other e-mail and    *)
(* address pairs do not interact with it.                                  *)
(*                                                                         *)
(* Each Redis command is atomic and the handlers of several attempts       *)
(* interleave between them.  The code tells apart only the values 1, up to *)
(* the limit, and above it, so the counter saturates at Limit + 1.         *)
(***************************************************************************)
EXTENDS Naturals

CONSTANTS
  Limit,      \* attempts allowed per window: 5 for login, 20 for discover
  Window,     \* life of the counter, in ticks: 15 min, or 1 min
  Attempts,   \* attempts that can be in flight together
  Forever     \* the TTL of a key without one

ASSUME LimitAssumption == Limit \in Nat \ {0} /\ Window \in Nat \ {0}
ASSUME ForeverAssumption == Forever \notin Nat

VARIABLES
  count,      \* value of the key, 0 when there is none
  ttl,        \* ticks until the key goes away, or Forever
  pc,         \* pc[a]   : the next step of attempt a
  seen,       \* seen[a] : what INCR returned to a
  recent      \* recent[i] : attempts let in since i ticks ago (history)

vars == <<count, ttl, pc, seen, recent>>

Saturate(n) == IF n > Limit THEN Limit + 1 ELSE n

TypeOK ==
  /\ count \in 0 .. Limit + 1
  /\ ttl \in 1 .. Window \cup {Forever}
  /\ count = 0 => ttl = Forever
  /\ pc \in [Attempts -> {"idle", "expire", "compare", "verify"}]
  /\ seen \in [Attempts -> 0 .. Limit + 1]
  /\ recent \in [0 .. Window - 1 -> Nat]

Init ==
  /\ count = 0 /\ ttl = Forever
  /\ pc = [a \in Attempts |-> "idle"]
  /\ seen = [a \in Attempts |-> 0]
  /\ recent = [i \in 0 .. Window - 1 |-> 0]

(***************************************************************************)
(* The handler                                                             *)
(***************************************************************************)

\* A mutant: one attempt too many.
AllowedOffByOne(n) == n <= Limit + 1

Allowed(n) == n <= Limit

\* The attempt that INCR answered with n is one more of every stretch that
\* reaches to this tick, if it is let in.
Record(n) == IF Allowed(n) THEN [i \in 0 .. Window - 1 |-> recent[i] + 1] ELSE recent

\* A mutant: every attempt renews the TTL.
IncrRenewing(a) ==
  /\ pc[a] = "idle"
  /\ count' = Saturate(count + 1)
  /\ seen' = [seen EXCEPT ![a] = count']
  /\ pc' = [pc EXCEPT ![a] = "expire"]
  /\ recent' = Record(count')
  /\ UNCHANGED ttl

\* redis.incr: creates a key without TTL, or adds one and leaves the TTL.
Incr(a) ==
  /\ pc[a] = "idle"
  /\ count' = Saturate(count + 1)
  /\ seen' = [seen EXCEPT ![a] = count']
  /\ pc' = [pc EXCEPT ![a] = IF count' = 1 THEN "expire" ELSE "compare"]
  /\ recent' = Record(count')
  /\ UNCHANGED ttl

\* A mutant: the TTL is given in milliseconds.
ExpireInMillis(a) ==
  /\ pc[a] = "expire"
  /\ ttl' = IF count = 0 THEN ttl ELSE Window * 1000
  /\ pc' = [pc EXCEPT ![a] = "compare"]
  /\ UNCHANGED <<count, seen, recent>>

\* redis.expire, a command of its own; without a key it does nothing.
Expire(a) ==
  /\ pc[a] = "expire"
  /\ ttl' = IF count = 0 THEN ttl ELSE Window
  /\ pc' = [pc EXCEPT ![a] = "compare"]
  /\ UNCHANGED <<count, seen, recent>>

\* Over the limit: 401 from login, 400 from discover.
Compare(a) ==
  /\ pc[a] = "compare"
  /\ pc' = [pc EXCEPT ![a] = IF Allowed(seen[a]) THEN "verify" ELSE "idle"]
  /\ UNCHANGED <<count, ttl, seen, recent>>

\* What the endpoint does once the attempt is let in.  A success does not take
\* the attempt off the counter.
Verify(a) ==
  /\ pc[a] = "verify"
  /\ pc' = [pc EXCEPT ![a] = "idle"]
  /\ UNCHANGED <<count, ttl, seen, recent>>

(***************************************************************************)
(* The environment                                                         *)
(***************************************************************************)

\* The process stops, or the connection to Redis drops.
Fail(a) == /\ pc[a] # "idle"
           /\ pc' = [pc EXCEPT ![a] = "idle"]
           /\ UNCHANGED <<count, ttl, seen, recent>>

\* A tick passes; Redis removes a key whose TTL is over.
Tick ==
  /\ IF ttl = 1 THEN count' = 0 /\ ttl' = Forever
     ELSE /\ ttl' = IF ttl = Forever THEN ttl ELSE ttl - 1
          /\ UNCHANGED count
  /\ recent' = [i \in 0 .. Window - 1 |-> IF i = 0 THEN 0 ELSE recent[i - 1]]
  /\ UNCHANGED <<pc, seen>>

Handle(a) == Incr(a) \/ Expire(a) \/ Compare(a) \/ Verify(a)

Next == \/ \E a \in Attempts : Handle(a) \/ Fail(a)
        \/ Tick

Spec == Init /\ [][Next]_vars

\* The event loop runs a handler whose answer from Redis is there, and time
\* passes; nobody has to send an attempt, and a handler may stop at any time.
FairSpec == /\ Spec
            /\ WF_vars(Tick)
            /\ \A a \in Attempts : WF_vars(Expire(a) \/ Compare(a) \/ Verify(a))

(***************************************************************************)
(* Properties                                                              *)
(***************************************************************************)
LetInRecently == recent[Window - 1]

\* What the fixed window does guarantee: no stretch of Window ticks lets in
\* more than twice the limit, and INCR numbers the attempts of one key apart,
\* however the handlers interleave (auth.service.ts 234-244).
TwoWindowsBoundAnyWindow == LetInRecently <= 2 * Limit

\* A counter over the limit that has a TTL goes away, however many attempts
\* keep coming or stop: a locked-out user can try again (auth.service.ts
\* 238-241).
LockoutEnds == count > Limit /\ ttl # Forever ~> count = 0

\* auth.service.ts 234: "Rate limit: 5 attempts per 15 min per (email+IP)."
\* So a counter lasts 15 minutes: a key without a TTL belongs to an attempt that
\* is about to set it.
CounterIsTemporary ==
  count > 0 /\ ttl = Forever => \E a \in Attempts : pc[a] = "expire"
=============================================================================
