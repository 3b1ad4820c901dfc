---------------------------- MODULE AccessTokens ----------------------------
(***************************************************************************)
(* Access tokens: their 15-minute life, JwtAuthGuard, and the denylist     *)
(* that AuthService.logout writes.  A guarded request verifies the token,  *)
(* asks Redis for its jti and then runs its handler; a logout is such a    *)
(* request, and its handler revokes the refresh token of the cookie and    *)
(* then writes the denylist entry.  The cookie is looked up by its hash    *)
(* alone: it need not belong to the session, or even to the user, of the   *)
(* access token.                                                           *)
(*                                                                         *)
(* Time is in milliseconds (or any division of a second): a JWT carries    *)
(* whole seconds, rounded down, and Redis counts from the moment of SET.   *)
(***************************************************************************)
EXTENDS Integers

CONSTANTS
  Tokens,     \* access tokens (jti) that can ever be signed
  Cookies,    \* refresh tokens that have a row
  Requests,   \* guarded requests that can be in flight together
  PerSecond,  \* clock steps in a second
  AccessTTL,  \* life of an access token, in seconds: 900
  DenyTTL,    \* life of a denylist entry, in seconds: 900
  MaxTime,    \* bound on the clock in the runs
  None

ASSUME TimeAssumption == /\ PerSecond \in Nat \ {0}
                         /\ AccessTTL \in Nat /\ DenyTTL \in Nat
                         /\ MaxTime \in Nat
ASSUME DenyOutlivesAccess == DenyTTL >= AccessTTL
ASSUME NoneAssumption == None \notin Tokens \cup Cookies

VARIABLES
  now,        \* the clock
  iat,        \* iat[j]  : the second j was signed in, -1 before
  gone,       \* gone[j] : when j's denylist entry goes away, 0 without one
  pc,         \* pc[r]   : the next step of request r
  tok,        \* tok[r]  : the access token r carries
  cookie,     \* cookie[r] : the refresh token whose row logout r found, or None
  revoked,    \* refresh tokens whose row a logout has revoked
  out,        \* out[r]  : how r was answered
  loggedOut,  \* tokens whose logout was answered with 204 (history)
  late,       \* late[r] : r arrived after that (history)
  passed,     \* passed[r] : when r passed the guard (history)
  denied      \* <<j, c>> if a logout with cookie c has denied j (history)

session == <<cookie, revoked, denied>>
vars == <<now, iat, gone, pc, tok, out, loggedOut, late, passed, session>>

Steps == {"idle", "verify", "denylist", "handler", "revoke", "deny", "done"}

TypeOK ==
  /\ now \in 0 .. MaxTime
  /\ iat \in [Tokens -> -1 .. MaxTime]
  /\ gone \in [Tokens -> Nat]
  /\ pc \in [Requests -> Steps]
  /\ tok \in [Requests -> Tokens \cup {None}]
  /\ cookie \in [Requests -> Cookies \cup {None}]
  /\ revoked \subseteq Cookies
  /\ denied \subseteq Tokens \X Cookies
  /\ out \in [Requests -> {"none", "401", "2xx"}]
  /\ loggedOut \subseteq Tokens
  /\ late \in [Requests -> BOOLEAN]
  /\ passed \in [Requests -> 0 .. MaxTime]

Init ==
  /\ now = 0
  /\ iat = [j \in Tokens |-> -1]
  /\ gone = [j \in Tokens |-> 0]
  /\ pc = [r \in Requests |-> "idle"]
  /\ tok = [r \in Requests |-> None]
  /\ cookie = [r \in Requests |-> None]
  /\ revoked = {} /\ denied = {}
  /\ out = [r \in Requests |-> "none"]
  /\ loggedOut = {}
  /\ late = [r \in Requests |-> FALSE]
  /\ passed = [r \in Requests |-> 0]

Second(t) == t \div PerSecond

\* jsonwebtoken: the second of now against exp = iat + expiresIn.
Expired(j, t) == Second(t) >= iat[j] + AccessTTL

Denied(j, t) == t < gone[j]

Answer(r, status) == /\ pc' = [pc EXCEPT ![r] = "done"]
                     /\ out' = [out EXCEPT ![r] = status]

(***************************************************************************)
(* Signing and arrival                                                     *)
(***************************************************************************)

\* A mutant: iat in clock steps instead of seconds.
SignInSteps(j) ==
  /\ iat[j] = -1
  /\ iat' = [iat EXCEPT ![j] = now * PerSecond]
  /\ UNCHANGED <<now, gone, pc, tok, out, loggedOut, late, passed, session>>

\* buildLoginResponse or refresh signs j; iat is the current second.
Sign(j) ==
  /\ iat[j] = -1
  /\ iat' = [iat EXCEPT ![j] = Second(now)]
  /\ UNCHANGED <<now, gone, pc, tok, out, loggedOut, late, passed, session>>

Arrive(r) ==
  /\ pc[r] = "idle"
  /\ \E j \in Tokens :
       /\ iat[j] # -1
       /\ tok' = [tok EXCEPT ![r] = j]
       /\ late' = [late EXCEPT ![r] = j \in loggedOut]
  /\ pc' = [pc EXCEPT ![r] = "verify"]
  /\ UNCHANGED <<now, iat, gone, out, loggedOut, passed, session>>

(***************************************************************************)
(* JwtAuthGuard.canActivate                                                *)
(***************************************************************************)
Verify(r) ==
  /\ pc[r] = "verify"
  /\ \/ Expired(tok[r], now) /\ Answer(r, "401")
     \/ ~Expired(tok[r], now) /\ pc' = [pc EXCEPT ![r] = "denylist"] /\ UNCHANGED out
  /\ UNCHANGED <<now, iat, gone, tok, loggedOut, late, passed, session>>

\* redis.exists: answered at one moment, which is later than the verification.
\* What follows is the handler of some endpoint, or that of logout.
Exists(r) ==
  /\ pc[r] = "denylist"
  /\ \/ /\ Denied(tok[r], now) /\ Answer(r, "401") /\ UNCHANGED passed
     \/ /\ ~Denied(tok[r], now) /\ UNCHANGED out
        /\ \E step \in {"handler", "revoke"} : pc' = [pc EXCEPT ![r] = step]
        /\ passed' = [passed EXCEPT ![r] = now]
  /\ UNCHANGED <<now, iat, gone, tok, loggedOut, late, session>>

Handler(r) ==
  /\ pc[r] = "handler"
  /\ Answer(r, "2xx")
  /\ UNCHANGED <<now, iat, gone, tok, loggedOut, late, passed, session>>

(***************************************************************************)
(* AuthService.logout                                                      *)
(***************************************************************************)

\* findUnique by hash and update by id, in one transaction: RefreshTokens!RevokeOne.
\* None stands for no cookie and for one without a row.
Revoke(r) ==
  /\ pc[r] = "revoke"
  /\ pc' = [pc EXCEPT ![r] = "deny"]
  /\ \E c \in Cookies \cup {None} :
       /\ cookie' = [cookie EXCEPT ![r] = c]
       /\ revoked' = revoked \cup ({c} \ {None})
  /\ UNCHANGED <<now, iat, gone, tok, out, loggedOut, late, passed, denied>>

Deadline(seconds) == now + seconds * PerSecond

\* redis.set with EX by a logout that found c: a new entry, or the old one with
\* its time renewed.
WriteEntry(j, c, seconds) ==
  /\ gone' = [gone EXCEPT ![j] = Deadline(seconds)]
  /\ denied' = denied \cup ({<<j, c>>} \cap (Tokens \X Cookies))

\* A mutant: the entry lives a second less than the token.
DenyTooShort(r) ==
  /\ pc[r] = "deny"
  /\ WriteEntry(tok[r], cookie[r], DenyTTL - 1)
  /\ loggedOut' = loggedOut \cup {tok[r]}
  /\ cookie' = [cookie EXCEPT ![r] = None]
  /\ Answer(r, "2xx")
  /\ UNCHANGED <<now, iat, tok, late, passed, revoked>>

Deny(r) ==
  /\ pc[r] = "deny"
  /\ WriteEntry(tok[r], cookie[r], DenyTTL)
  /\ loggedOut' = loggedOut \cup {tok[r]}
  /\ cookie' = [cookie EXCEPT ![r] = None]
  /\ Answer(r, "2xx")
  /\ UNCHANGED <<now, iat, tok, late, passed, revoked>>

(***************************************************************************)
(* The environment                                                         *)
(***************************************************************************)

\* The answered request leaves, or the handler stops where it is.
Leave(r) ==
  /\ pc[r] # "idle"
  /\ pc' = [pc EXCEPT ![r] = "idle"]
  /\ tok' = [tok EXCEPT ![r] = None]
  /\ out' = [out EXCEPT ![r] = "none"]
  /\ late' = [late EXCEPT ![r] = FALSE]
  /\ passed' = [passed EXCEPT ![r] = 0]
  /\ cookie' = [cookie EXCEPT ![r] = None]
  /\ UNCHANGED <<now, iat, gone, loggedOut, revoked, denied>>

Tick == /\ now < MaxTime
        /\ now' = now + 1
        /\ UNCHANGED <<iat, gone, pc, tok, out, loggedOut, late, passed, session>>

Guard(r) == Verify(r) \/ Exists(r)

\* A mutant: the denylist entry is written before the row is revoked.
LogoutDenyFirst(r) ==
  \/ /\ pc[r] = "revoke"
     /\ \E c \in Cookies \cup {None} :
          /\ cookie' = [cookie EXCEPT ![r] = c]
          /\ WriteEntry(tok[r], c, DenyTTL)
     /\ pc' = [pc EXCEPT ![r] = "deny"]
     /\ UNCHANGED <<now, iat, tok, out, loggedOut, late, passed, revoked>>
  \/ /\ pc[r] = "deny"
     /\ revoked' = revoked \cup ({cookie[r]} \ {None})
     /\ loggedOut' = loggedOut \cup {tok[r]}
     /\ cookie' = [cookie EXCEPT ![r] = None]
     /\ Answer(r, "2xx")
     /\ UNCHANGED <<now, iat, gone, tok, late, passed, denied>>

Logout(r) == Revoke(r) \/ Deny(r)

Next == \/ \E j \in Tokens : Sign(j)
        \/ \E r \in Requests :
             Arrive(r) \/ Guard(r) \/ Handler(r) \/ Logout(r) \/ Leave(r)
        \/ Tick

Spec == Init /\ [][Next]_vars

(***************************************************************************)
(* Properties                                                              *)
(***************************************************************************)

\* Once its logout has been answered, an access token gets no later request
\* past the guard while it lives: the denylist entry outlasts the token,
\* however long the logout and the guards of other requests take between
\* their steps, and whatever seconds are rounded to (auth.service.ts 567-571,
\* jwt-auth.guard.ts 53-64).
LoggedOutTokenIsDead ==
  \A r \in Requests :
    late[r] /\ pc[r] \in {"handler", "revoke", "deny"} => Expired(tok[r], passed[r])

\* A logout that stops half-way stops on the safe side: whenever it has shut an
\* access token out, the refresh token it came with is revoked, wherever it or
\* another logout of the same token or the same cookie stops (auth.service.ts
\* 552-571).  This is about the cookie, and not about the token's own session:
\* a cookie of another session, an old one, or a refresh under way leaves the
\* denied token's session a refresh token that works.
DeniedAfterRevoked == \A p \in denied : p[2] \in revoked
=============================================================================
