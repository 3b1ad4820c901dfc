------------------------- MODULE AccessTokensProofs -------------------------
(***************************************************************************)
(* Logout is final, for every division of the second and every pair of     *)
(* lifetimes in which the denylist entry is not the shorter one.           *)
(***************************************************************************)
EXTENDS AccessTokens, TLAPS

USE TimeAssumption, DenyOutlivesAccess, NoneAssumption

(***************************************************************************)
(* Arithmetic of whole seconds.                                            *)
(***************************************************************************)
LEMMA SecondHasBegun ==
  ASSUME NEW t \in Nat
  PROVE  Second(t) \in Nat /\ Second(t) * PerSecond <= t
BY DEF Second

LEMMA SecondReached ==
  ASSUME NEW t \in Nat, NEW k \in Int, k * PerSecond <= t
  PROVE  k <= Second(t)
BY DEF Second

(***************************************************************************)
(* The inductive invariant.                                                *)
(***************************************************************************)

\* A token was signed in a second that has begun.
SignedInThePast == \A j \in Tokens : iat[j] = -1 \/ iat[j] * PerSecond <= now

\* The denylist entry of a logged-out token outlasts the token.
DenialOutlasts ==
  \A j \in loggedOut : iat[j] # -1 /\ (iat[j] + AccessTTL) * PerSecond <= gone[j]

RequestsCarryTokens ==
  \A r \in Requests :
    /\ pc[r] # "idle" => tok[r] \in Tokens /\ iat[tok[r]] # -1
    /\ late[r] => pc[r] # "idle" /\ tok[r] \in loggedOut

\* A logout that found a row has revoked it by the time it writes the entry.
FoundMeansRevoked ==
  \A r \in Requests : pc[r] = "deny" /\ cookie[r] # None => cookie[r] \in revoked

IInv == /\ TypeOK /\ SignedInThePast /\ DenialOutlasts /\ RequestsCarryTokens
        /\ LoggedOutTokenIsDead /\ FoundMeansRevoked /\ DeniedAfterRevoked

USE DEF Steps, session

LEMMA InitIInv == Init => IInv
BY DEF Init, IInv, TypeOK, SignedInThePast, DenialOutlasts,
       RequestsCarryTokens, LoggedOutTokenIsDead,
       FoundMeansRevoked, DeniedAfterRevoked

LEMMA SignKeepsIInv ==
  ASSUME IInv, NEW j \in Tokens, Sign(j)
  PROVE  IInv'
<1> USE DEF Sign, IInv, TypeOK
<1>1. Second(now) \in 0 .. now /\ Second(now) * PerSecond <= now
  BY SecondHasBegun DEF Second
<1>2. TypeOK'
  BY <1>1
<1>3. SignedInThePast'
  BY <1>1 DEF SignedInThePast
<1>4. DenialOutlasts' /\ RequestsCarryTokens'
  BY <1>1 DEF DenialOutlasts, RequestsCarryTokens
<1>5. LoggedOutTokenIsDead'
  BY DEF LoggedOutTokenIsDead, RequestsCarryTokens, Expired
<1>6. FoundMeansRevoked' /\ DeniedAfterRevoked'
  BY DEF FoundMeansRevoked, DeniedAfterRevoked
<1> QED
  BY <1>2, <1>3, <1>4, <1>5, <1>6

LEMMA ArriveKeepsIInv ==
  ASSUME IInv, NEW r \in Requests, Arrive(r)
  PROVE  IInv'
BY DEF Arrive, IInv, TypeOK, SignedInThePast, DenialOutlasts,
       RequestsCarryTokens, LoggedOutTokenIsDead, Expired,
       FoundMeansRevoked, DeniedAfterRevoked

LEMMA VerifyKeepsIInv ==
  ASSUME IInv, NEW r \in Requests, Verify(r)
  PROVE  IInv'
BY DEF Verify, Answer, IInv, TypeOK, SignedInThePast, DenialOutlasts,
       RequestsCarryTokens, LoggedOutTokenIsDead, Expired,
       FoundMeansRevoked, DeniedAfterRevoked

\* An entry that is gone is the entry of a token that has expired.
LEMMA DeniedToTheEnd ==
  ASSUME IInv, NEW j \in loggedOut, ~Denied(j, now)
  PROVE  Expired(j, now)
<1> USE DEF IInv, TypeOK
<1>1. (iat[j] + AccessTTL) * PerSecond <= now
  BY DEF DenialOutlasts, Denied
<1> QED
  BY <1>1, SecondReached DEF Expired

\* The step that matters: a request that came after the logout and is not
\* denied is one whose token has expired by now.
LEMMA ExistsKeepsIInv ==
  ASSUME IInv, NEW r \in Requests, Exists(r)
  PROVE  IInv'
<1> USE DEF Exists, Answer, IInv, TypeOK
<1>1. TypeOK' /\ SignedInThePast' /\ DenialOutlasts' /\ RequestsCarryTokens'
  BY DEF SignedInThePast, DenialOutlasts, RequestsCarryTokens
<1>2. late[r] /\ ~Denied(tok[r], now) => Expired(tok[r], now)
  BY DeniedToTheEnd DEF RequestsCarryTokens
<1>3. LoggedOutTokenIsDead'
  BY <1>2 DEF LoggedOutTokenIsDead, Expired
<1>4. FoundMeansRevoked' /\ DeniedAfterRevoked'
  BY DEF FoundMeansRevoked, DeniedAfterRevoked
<1> QED
  BY <1>1, <1>3, <1>4

LEMMA HandlerKeepsIInv ==
  ASSUME IInv, NEW r \in Requests, Handler(r)
  PROVE  IInv'
BY DEF Handler, Answer, IInv, TypeOK, SignedInThePast, DenialOutlasts,
       RequestsCarryTokens, LoggedOutTokenIsDead, Expired,
       FoundMeansRevoked, DeniedAfterRevoked

LEMMA RevokeKeepsIInv ==
  ASSUME IInv, NEW r \in Requests, Revoke(r)
  PROVE  IInv'
<1> USE DEF Revoke, IInv, TypeOK
<1>0. PICK c \in Cookies \cup {None} : /\ cookie' = [cookie EXCEPT ![r] = c]
                                       /\ revoked' = revoked \cup ({c} \ {None})
  OBVIOUS
<1>1. tok[r] \in Tokens
  BY DEF RequestsCarryTokens
<1>2. TypeOK'
  BY <1>0, <1>1
<1>3. /\ SignedInThePast' /\ DenialOutlasts' /\ RequestsCarryTokens'
      /\ LoggedOutTokenIsDead'
  BY DEF SignedInThePast, DenialOutlasts, RequestsCarryTokens,
         LoggedOutTokenIsDead, Expired
<1>4. FoundMeansRevoked' /\ DeniedAfterRevoked'
  BY <1>0 DEF FoundMeansRevoked, DeniedAfterRevoked
<1> QED
  BY <1>2, <1>3, <1>4

LEMMA DenyKeepsIInv ==
  ASSUME IInv, NEW r \in Requests, Deny(r)
  PROVE  IInv'
<1> USE DEF Deny, WriteEntry, Answer, Deadline, IInv, TypeOK
<1>1. tok[r] \in Tokens /\ iat[tok[r]] # -1
  BY DEF RequestsCarryTokens
<1>2. /\ iat[tok[r]] * PerSecond <= now
      /\ AccessTTL * PerSecond <= DenyTTL * PerSecond
      /\ (iat[tok[r]] + AccessTTL) * PerSecond
           = iat[tok[r]] * PerSecond + AccessTTL * PerSecond
  BY <1>1 DEF SignedInThePast
<1>3. now + DenyTTL * PerSecond \in Nat
  OBVIOUS
<1>4. TypeOK'
  BY <1>1, <1>3
<1>5. SignedInThePast' /\ RequestsCarryTokens'
  BY DEF SignedInThePast, RequestsCarryTokens
<1>6. DenialOutlasts'
  BY <1>1, <1>2, <1>3 DEF DenialOutlasts
<1>7. LoggedOutTokenIsDead'
  BY DEF LoggedOutTokenIsDead, Expired
<1>8. FoundMeansRevoked' /\ DeniedAfterRevoked'
  BY <1>1 DEF FoundMeansRevoked, DeniedAfterRevoked
<1> QED
  BY <1>4, <1>5, <1>6, <1>7, <1>8

LEMMA LeaveKeepsIInv ==
  ASSUME IInv, NEW r \in Requests, Leave(r)
  PROVE  IInv'
BY DEF Leave, IInv, TypeOK, SignedInThePast, DenialOutlasts,
       RequestsCarryTokens, LoggedOutTokenIsDead, Expired,
       FoundMeansRevoked, DeniedAfterRevoked

LEMMA TickKeepsIInv ==
  ASSUME IInv, Tick
  PROVE  IInv'
<1>1. \A j \in Tokens : iat[j] * PerSecond \in Int
  BY DEF IInv, TypeOK
<1> QED
  BY <1>1 DEF Tick, IInv, TypeOK, SignedInThePast, DenialOutlasts,
              RequestsCarryTokens, LoggedOutTokenIsDead, Expired,
       FoundMeansRevoked, DeniedAfterRevoked

LEMMA StutterKeepsIInv == IInv /\ UNCHANGED vars => IInv'
BY DEF vars, IInv, TypeOK, SignedInThePast, DenialOutlasts,
       RequestsCarryTokens, LoggedOutTokenIsDead, Expired,
       FoundMeansRevoked, DeniedAfterRevoked

LEMMA Invariance == Spec => []IInv
<1>1. IInv /\ [Next]_vars => IInv'
  BY SignKeepsIInv, ArriveKeepsIInv, VerifyKeepsIInv, ExistsKeepsIInv,
     HandlerKeepsIInv, RevokeKeepsIInv, DenyKeepsIInv, LeaveKeepsIInv, TickKeepsIInv,
     StutterKeepsIInv DEF Next, Guard, Logout
<1> QED
  BY <1>1, InitIInv, PTL DEF Spec

\* The clock, the tokens and the denylist keep their types.
THEOREM TypeCorrect == Spec => []TypeOK
BY Invariance, PTL DEF IInv

\* A logged-out access token gets no later request past the guard while it
\* lives.
THEOREM LogoutIsFinal == Spec => []LoggedOutTokenIsDead
BY Invariance, PTL DEF IInv

\* Wherever logouts stop or overlap, an access token is denied by a logout only
\* after the refresh token that logout presented is revoked.
THEOREM DenialFollowsRevocation == Spec => []DeniedAfterRevoked
BY Invariance, PTL DEF IInv

\* The guard lets nobody through with a token that is logged out and alive.
NoPassAfterLogout ==
  \A r \in Requests :
    pc[r] = "denylist" /\ pc'[r] \in {"handler", "revoke"} /\ tok[r] \in loggedOut
      => Expired(tok[r], now)

\* The moment of logout is the last one: a request that was already on its way,
\* with its signature and expiry verified, is stopped as well unless the guard
\* has asked Redis by then (jwt-auth.guard.ts 53-64).
THEOREM LogoutStopsRequestsUnderWay == Spec => [][NoPassAfterLogout]_vars
<1>1. IInv /\ [Next]_vars => [NoPassAfterLogout]_vars
  <2> SUFFICES ASSUME IInv, Next, NEW r \in Requests,
                      pc[r] = "denylist", pc'[r] \in {"handler", "revoke"},
                      tok[r] \in loggedOut
               PROVE  Expired(tok[r], now)
    BY DEF NoPassAfterLogout
  <2> USE DEF IInv, TypeOK
  <2>1. Exists(r)
    <3>1. ASSUME NEW q \in Requests, Arrive(q) \/ Verify(q) \/ Handler(q) \/ Logout(q)
                                       \/ Leave(q)
          PROVE  FALSE
      BY <3>1 DEF Arrive, Verify, Answer, Handler, Logout, Revoke, Deny, Leave
    <3>2. ASSUME NEW q \in Requests, Exists(q) PROVE q = r
      BY <3>2 DEF Exists, Answer
    <3>3. ASSUME NEW j \in Tokens, Sign(j) PROVE FALSE
      BY <3>3 DEF Sign
    <3>4. ~Tick
      BY DEF Tick
    <3> QED
      BY <3>1, <3>2, <3>3, <3>4 DEF Next, Guard
  <2>2. ~Denied(tok[r], now)
    BY <2>1 DEF Exists, Answer
  <2> QED
    BY <2>2, DeniedToTheEnd
<1> QED
  BY <1>1, Invariance, PTL DEF Spec
=============================================================================
