------------------------- MODULE RateLimiterProofs -------------------------
(***************************************************************************)
(* For every limit and every window, no stretch of a window's length lets  *)
(* in more than twice the limit.                                           *)
(*                                                                         *)
(* The argument: a key lives at least one window from its first EXPIRE, so *)
(* a stretch of that length meets at most two keys, and INCR numbers the   *)
(* attempts of a key apart.                                                *)
(***************************************************************************)
EXTENDS RateLimiter, TLAPS

USE LimitAssumption, ForeverAssumption

\* The attempts of the key that is there now, as far as they were let in.
LetIn == IF count > Limit THEN Limit ELSE count

\* The attempts of this tick all counted on the key that is there: a key goes
\* away only when a tick passes.
CountedInTick == recent[0] <= LetIn

\* With ttl ticks left, the key was there for the last Window - ttl ticks.
CountedOnKey ==
  ttl # Forever => \A i \in 0 .. Window - ttl : recent[i] <= LetIn

\* Any stretch up to a window saw at most one key before this one.
OneKeyBefore == \A i \in 0 .. Window - 1 : recent[i] <= Limit + LetIn

IInv == TypeOK /\ CountedInTick /\ CountedOnKey /\ OneKeyBefore

LEMMA LetInBounds == TypeOK => LetIn \in 0 .. Limit
BY DEF TypeOK, LetIn

LEMMA InitIInv == Init => IInv
BY DEF Init, IInv, TypeOK, CountedInTick, CountedOnKey, OneKeyBefore, LetIn

LEMMA IncrKeepsIInv ==
  ASSUME IInv, NEW a \in Attempts, Incr(a)
  PROVE  IInv'
<1> USE DEF Incr, IInv
<1>1. /\ count' \in 1 .. Limit + 1
      /\ LetIn \in Nat /\ LetIn' \in Nat /\ LetIn' >= LetIn
      /\ Allowed(count') => LetIn' = LetIn + 1
  BY DEF TypeOK, Saturate, Allowed, LetIn
<1>2. /\ recent' \in [0 .. Window - 1 -> Nat]
      /\ \A i \in 0 .. Window - 1 :
           \/ recent'[i] = recent[i]
           \/ recent'[i] = recent[i] + 1 /\ LetIn' = LetIn + 1
  <2>1. CASE Allowed(count')
    BY <1>1, <2>1 DEF Record, TypeOK
  <2>2. CASE ~Allowed(count')
    BY <2>2 DEF Record, TypeOK
  <2> QED
    BY <2>1, <2>2
<1>3. TypeOK'
  <2>1. seen' \in [Attempts -> 0 .. Limit + 1]
    BY <1>1 DEF TypeOK
  <2> QED
    BY <1>1, <1>2, <2>1 DEF TypeOK
<1>4. \A i \in 0 .. Window - 1, k \in Nat :
        recent[i] <= LetIn + k => recent'[i] <= LetIn' + k
  <2> TAKE i \in 0 .. Window - 1, k \in Nat
  <2>1. recent[i] \in Nat
    BY DEF TypeOK
  <2>2. CASE recent'[i] = recent[i]
    BY <1>1, <2>1, <2>2
  <2>3. CASE recent'[i] = recent[i] + 1 /\ LetIn' = LetIn + 1
    BY <1>1, <2>1, <2>3
  <2> QED
    BY <1>2, <2>2, <2>3
<1>5. CountedInTick' /\ OneKeyBefore'
  BY <1>1, <1>2, <1>4 DEF CountedInTick, OneKeyBefore, TypeOK
<1>6. CountedOnKey'
  <2> SUFFICES ASSUME ttl # Forever, NEW i \in 0 .. Window - ttl
               PROVE  recent'[i] <= LetIn'
    BY DEF CountedOnKey
  <2>1. i \in 0 .. Window - 1 /\ recent[i] <= LetIn
    BY DEF TypeOK, CountedOnKey
  <2> QED
    BY <1>1, <1>2, <2>1 DEF TypeOK
<1> QED
  BY <1>3, <1>5, <1>6

LEMMA ExpireKeepsIInv ==
  ASSUME IInv, NEW a \in Attempts, Expire(a)
  PROVE  IInv'
<1> USE DEF Expire, IInv
<1>1. TypeOK'
  BY DEF TypeOK
<1>2. LetIn' = LetIn
  BY DEF LetIn
<1>3. CountedInTick' /\ OneKeyBefore'
  BY <1>2 DEF CountedInTick, OneKeyBefore
<1>4. CountedOnKey'
  BY <1>2 DEF CountedOnKey, CountedInTick, TypeOK
<1> QED
  BY <1>1, <1>3, <1>4

LEMMA OthersKeepIInv ==
  ASSUME IInv, NEW a \in Attempts, Compare(a) \/ Verify(a) \/ Fail(a)
  PROVE  IInv'
BY DEF Compare, Verify, Fail, IInv, TypeOK, CountedInTick, CountedOnKey,
       OneKeyBefore, LetIn

\* The step that matters: when a key goes away, what is left of the stretch was
\* all let in on it.
LEMMA TickKeepsIInv ==
  ASSUME IInv, Tick
  PROVE  IInv'
<1> USE DEF Tick, IInv
<1>1. /\ recent' \in [0 .. Window - 1 -> Nat]
      /\ recent'[0] = 0
      /\ \A i \in 1 .. Window - 1 :
           i - 1 \in 0 .. Window - 1 /\ recent'[i] = recent[i - 1]
  BY DEF TypeOK
<1>2. TypeOK'
  BY <1>1 DEF TypeOK
<1>3. LetIn \in 0 .. Limit /\ LetIn' \in 0 .. Limit
  BY <1>2, LetInBounds DEF TypeOK, LetIn
<1>4. CASE ttl = 1
  <2>1. \A i \in 0 .. Window - 1 : recent[i] <= Limit
    BY <1>3, <1>4 DEF CountedOnKey, TypeOK
  <2>2. \A i \in 0 .. Window - 1 : recent'[i] <= Limit
    BY <1>1, <2>1 DEF TypeOK
  <2>3. OneKeyBefore'
    BY <1>1, <1>3, <2>2 DEF OneKeyBefore
  <2> QED
    BY <1>1, <1>2, <1>3, <1>4, <2>3 DEF CountedInTick, CountedOnKey
<1>5. CASE ttl # 1
  <2>1. LetIn' = LetIn
    BY <1>5 DEF LetIn
  <2>2. CountedInTick' /\ OneKeyBefore'
    BY <1>1, <1>3, <2>1 DEF CountedInTick, OneKeyBefore, TypeOK
  <2>3. CountedOnKey'
    <3> SUFFICES ASSUME ttl' # Forever, NEW i \in 0 .. Window - ttl'
                 PROVE  recent'[i] <= LetIn'
      BY DEF CountedOnKey
    <3>1. ttl # Forever /\ ttl' = ttl - 1 /\ ttl \in 2 .. Window
      BY <1>5 DEF TypeOK
    <3>2. CASE i = 0
      BY <1>1, <1>3, <3>2
    <3>3. CASE i # 0
      <4>1. i \in 1 .. Window - 1 /\ i - 1 \in 0 .. Window - ttl
        BY <3>1, <3>3
      <4>2. recent[i - 1] <= LetIn
        BY <3>1, <4>1 DEF CountedOnKey
      <4> QED
        BY <1>1, <2>1, <4>1, <4>2
    <3> QED
      BY <3>2, <3>3
  <2> QED
    BY <1>2, <2>2, <2>3
<1> QED
  BY <1>4, <1>5

LEMMA Invariance == Spec => []IInv
<1>1. IInv /\ [Next]_vars => IInv'
  <2> SUFFICES ASSUME IInv, [Next]_vars PROVE IInv'
    OBVIOUS
  <2>1. ASSUME NEW a \in Attempts, Handle(a) \/ Fail(a) PROVE IInv'
    BY <2>1, IncrKeepsIInv, ExpireKeepsIInv, OthersKeepIInv DEF Handle
  <2>2. CASE UNCHANGED vars
    BY <2>2 DEF vars, IInv, TypeOK, CountedInTick, CountedOnKey, OneKeyBefore,
                LetIn
  <2> QED
    BY <2>1, <2>2, TickKeepsIInv DEF Next
<1> QED
  BY <1>1, InitIInv, PTL DEF Spec

\* The counter, its TTL and the history keep their types, and a key that is
\* gone has no TTL.
THEOREM TypeCorrect == Spec => []TypeOK
BY Invariance, PTL DEF IInv

\* No stretch of a window's length lets in more than twice the limit, however
\* handlers interleave, stop between INCR and EXPIRE, or set the TTL late.
THEOREM AnyWindowIsBounded == Spec => []TwoWindowsBoundAnyWindow
<1>1. IInv => TwoWindowsBoundAnyWindow
  <2> SUFFICES ASSUME IInv PROVE recent[Window - 1] <= 2 * Limit
    BY DEF TwoWindowsBoundAnyWindow, LetInRecently
  <2>1. LetIn \in 0 .. Limit /\ recent[Window - 1] \in Nat
    BY LetInBounds DEF IInv, TypeOK
  <2>2. recent[Window - 1] <= Limit + LetIn
    BY DEF IInv, OneKeyBefore
  <2> QED
    BY <2>1, <2>2
<1> QED
  BY <1>1, Invariance, PTL
(***************************************************************************)
(* The life of the counter: who gives it a TTL, and what is left when      *)
(* nobody does.                                                            *)
(***************************************************************************)

\* One attempt, the one that created the key, is to set its TTL, and until it
\* has done so the key is there and has none.
OneSetsTTL ==
  \A a \in Attempts : pc[a] = "expire" =>
    /\ count > 0 /\ ttl = Forever
    /\ \A b \in Attempts : pc[b] = "expire" => b = a

LEMMA OneSetsTTLStep == TypeOK /\ OneSetsTTL /\ [Next]_vars => OneSetsTTL'
<1> SUFFICES ASSUME TypeOK, OneSetsTTL, [Next]_vars PROVE OneSetsTTL'
  OBVIOUS
<1> USE DEF TypeOK, OneSetsTTL
<1>1. ASSUME NEW a \in Attempts, Incr(a) PROVE OneSetsTTL'
  <2>1. count' > 0 /\ UNCHANGED ttl /\ (count' = 1 => count = 0)
    BY <1>1 DEF Incr, Saturate
  <2>2. CASE count' = 1
    <3>1. pc' = [pc EXCEPT ![a] = "expire"]
      BY <1>1, <2>2 DEF Incr
    <3>2. ttl = Forever /\ \A b \in Attempts : pc[b] # "expire"
      BY <2>1, <2>2
    <3> QED
      BY <2>1, <3>1, <3>2
  <2>3. CASE count' # 1
    <3>1. pc' = [pc EXCEPT ![a] = "compare"]
      BY <1>1, <2>3 DEF Incr
    <3> QED
      BY <2>1, <3>1
  <2> QED
    BY <2>2, <2>3
<1>2. ASSUME NEW a \in Attempts, Expire(a) PROVE OneSetsTTL'
  BY <1>2 DEF Expire
<1>3. ASSUME NEW a \in Attempts, Compare(a) \/ Verify(a) \/ Fail(a) PROVE OneSetsTTL'
  BY <1>3 DEF Compare, Verify, Fail
<1>4. CASE Tick
  BY <1>4 DEF Tick
<1>5. CASE UNCHANGED vars
  BY <1>5 DEF vars
<1> QED
  BY <1>1, <1>2, <1>3, <1>4, <1>5 DEF Next, Handle

\* EXPIRE always finds the key that its attempt has created, without a TTL: no
\* attempt prolongs a window, however late its EXPIRE comes (auth.service.ts
\* 238-241).
THEOREM WindowsAreSetOnce == Spec => []OneSetsTTL
<1>1. Init => OneSetsTTL
  BY DEF Init, OneSetsTTL
<1> QED
  BY <1>1, OneSetsTTLStep, TypeCorrect, PTL DEF Spec

\* An attempt stops between INCR and EXPIRE (auth.service.ts 238-241).
StopsBetween == \E a \in Attempts : pc[a] = "expire" /\ Fail(a)

\* The run on CounterIsTemporary shows a counter that stays.  This stop is the
\* only way to one: without it a key that has no TTL is about to get it, however
\* attempts overlap and wherever else they stop.
THEOREM OnlyStopsBetweenLeaveCounters ==
  Init /\ [][Next /\ ~StopsBetween]_vars => []CounterIsTemporary
<1>1. Init => TypeOK /\ CounterIsTemporary
  BY InitIInv DEF Init, IInv, CounterIsTemporary
<1>2. TypeOK /\ CounterIsTemporary /\ [Next /\ ~StopsBetween]_vars => CounterIsTemporary'
  <2> SUFFICES ASSUME TypeOK, CounterIsTemporary, [Next /\ ~StopsBetween]_vars,
                      count' > 0, ttl' = Forever
               PROVE  \E a \in Attempts : pc'[a] = "expire"
    BY DEF CounterIsTemporary
  <2> USE DEF TypeOK
  <2>1. ASSUME NEW a \in Attempts, Incr(a) PROVE \E b \in Attempts : pc'[b] = "expire"
    <3>1. CASE count = 0
      BY <2>1, <3>1 DEF Incr, Saturate
    <3>2. CASE count # 0
      <4>1. PICK b \in Attempts : pc[b] = "expire"
        BY <2>1, <3>2 DEF Incr, CounterIsTemporary
      <4> QED
        BY <2>1, <4>1 DEF Incr
    <3> QED
      BY <3>1, <3>2
  <2>2. ASSUME NEW a \in Attempts, Expire(a) PROVE FALSE
    BY <2>2 DEF Expire
  <2>3. ASSUME NEW a \in Attempts, Compare(a) \/ Verify(a) \/ Fail(a), pc[a] # "expire"
        PROVE  \E b \in Attempts : pc'[b] = "expire"
    <3>1. PICK b \in Attempts : pc[b] = "expire"
      BY <2>3 DEF Compare, Verify, Fail, CounterIsTemporary
    <3> QED
      BY <2>3, <3>1 DEF Compare, Verify, Fail
  <2>4. ASSUME Tick \/ UNCHANGED vars PROVE \E b \in Attempts : pc'[b] = "expire"
    BY <2>4 DEF Tick, vars, CounterIsTemporary
  <2> QED
    BY <2>1, <2>2, <2>3, <2>4 DEF Next, Handle, StopsBetween, Compare, Verify
<1>3. Init /\ [][Next /\ ~StopsBetween]_vars => Spec
  BY PTL DEF Spec
<1> QED
  BY <1>1, <1>2, <1>3, TypeCorrect, PTL

\* A key without a TTL that nobody is about to give one.
Abandoned == count > 0 /\ ttl = Forever /\ \A a \in Attempts : pc[a] # "expire"

LockedOut == count > Limit

\* What that stop leaves behind is never repaired: the counter stays, and once
\* it is over the limit its user is locked out for good (auth.service.ts
\* 238-247).
THEOREM AbandonedCountersStay ==
  Spec => /\ [](Abandoned => []Abandoned)
          /\ [](Abandoned /\ LockedOut => []LockedOut)
<1>1. TypeOK /\ Abandoned /\ [Next]_vars => Abandoned' /\ (LockedOut => LockedOut')
  <2> SUFFICES ASSUME TypeOK, Abandoned, [Next]_vars
               PROVE  Abandoned' /\ (LockedOut => LockedOut')
    OBVIOUS
  <2> USE DEF TypeOK, Abandoned, LockedOut
  <2>1. ASSUME NEW a \in Attempts, Incr(a) PROVE Abandoned' /\ (LockedOut => LockedOut')
    <3>1. count' \in Nat /\ count' > 1 /\ count' >= count
      BY <2>1 DEF Incr, Saturate
    <3>2. count' # 1
      BY <3>1
    <3>3. UNCHANGED ttl /\ pc' = [pc EXCEPT ![a] = "compare"]
      BY <2>1, <3>2 DEF Incr
    <3> QED
      BY <3>1, <3>3
  <2>2. ASSUME NEW a \in Attempts, Expire(a) \/ Compare(a) \/ Verify(a) \/ Fail(a)
        PROVE  Abandoned' /\ (LockedOut => LockedOut')
    BY <2>2 DEF Expire, Compare, Verify, Fail
  <2>3. CASE Tick \/ UNCHANGED vars
    BY <2>3 DEF Tick, vars
  <2> QED
    BY <2>1, <2>2, <2>3 DEF Next, Handle
<1> QED
  BY <1>1, TypeCorrect, PTL DEF Spec
=============================================================================
