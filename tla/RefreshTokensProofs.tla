------------------------ MODULE RefreshTokensProofs ------------------------
(***************************************************************************)
(* Proofs about RefreshTokens, for every set of tokens, users and request  *)
(* slots.                                                                  *)
(***************************************************************************)
EXTENDS RefreshTokens, TLAPS

(***************************************************************************)
(* The inductive invariant.  The properties talk about answered requests,  *)
(* so each needs a fact about the requests still on their way: what a      *)
(* handler has already established when it reaches a step.                 *)
(***************************************************************************)

\* A handler past Lookup holds a token with a row and that row's owner; one
\* that is about to answer has created its token.
HandlersKnowTheirRow ==
  \A r \in Requests :
    /\ pc[r] \in {"revokeAll", "revokeOld", "create", "members"}
         => tok[r] \in rows /\ who[r] = owner[tok[r]]
    /\ pc[r] \in {"members", "reply"} => fresh[r] \in rows

\* The old token is revoked by the time the new one is created.
RevokedBeforeCreate ==
  \A r \in Requests : pc[r] = "create" => tok[r] \in revoked

\* A refresh that arrived with a revoked token can only reach Lookup and
\* RevokeAll.
StaleHandlersStop ==
  \A r \in Requests :
    stale[r] => /\ fresh[r] = None /\ tok[r] \in revoked
                /\ pc[r] \in {"lookup", "revokeAll", "done"}

\* What was in the table on arrival still is, only an answered request has an
\* answer, and a free slot no token.
HistoryIsPast ==
  \A r \in Requests :
    /\ rowsAt[r] \subseteq rows
    /\ pc[r] # "done" => out[r] = "none"
    /\ pc[r] = "idle" => fresh[r] = None

IInv ==
  /\ TypeOK
  /\ HandlersKnowTheirRow
  /\ RevokedBeforeCreate
  /\ StaleHandlersStop
  /\ HistoryIsPast
  /\ RotationRetiresParent
  /\ ReuseRevokesOlderTokens

USE DEF Steps, Endpoints, Answers
USE NoneAssumption

LEMMA InitIInv == Init => IInv
BY DEF Init, IInv, TypeOK, HandlersKnowTheirRow, RevokedBeforeCreate,
       StaleHandlersStop, HistoryIsPast, RotationRetiresParent,
       ReuseRevokesOlderTokens

(***************************************************************************)
(* One lemma per handler step: it keeps the invariant.                     *)
(***************************************************************************)
LEMMA ArriveKeepsIInv ==
  ASSUME IInv, NEW r \in Requests, NEW endpoint \in Endpoints,
         NEW step \in {"lookup", "load", "revokeOne"},
         NEW t \in Tokens \cup {None}, NEW u \in Users \cup {None},
         endpoint = "refresh" => step = "lookup",
         Arrive(r, endpoint, step, t, u)
  PROVE  IInv'
<1> USE DEF Arrive, Goto, IInv, TypeOK, table
<1>1. TypeOK'
  OBVIOUS
<1>2. HandlersKnowTheirRow' /\ RevokedBeforeCreate' /\ HistoryIsPast'
  BY DEF HandlersKnowTheirRow, RevokedBeforeCreate, HistoryIsPast
<1>3. StaleHandlersStop'
  <2> SUFFICES ASSUME NEW q \in Requests, stale'[q]
               PROVE  /\ fresh'[q] = None /\ tok'[q] \in revoked'
                      /\ pc'[q] \in {"lookup", "revokeAll", "done"}
    BY DEF StaleHandlersStop
  <2>1. CASE q = r
    BY <2>1 DEF HistoryIsPast
  <2>2. CASE q # r
    BY <2>2 DEF StaleHandlersStop
  <2> QED
    BY <2>1, <2>2
<1>4. RotationRetiresParent'
  BY DEF RotationRetiresParent
<1>5. ReuseRevokesOlderTokens'
  BY DEF ReuseRevokesOlderTokens, HistoryIsPast
<1> QED
  BY <1>1, <1>2, <1>3, <1>4, <1>5

LEMMA BeginKeepsIInv ==
  ASSUME IInv, NEW r \in Requests, Begin(r)
  PROVE  IInv'
<1>1. CASE BeginLogin(r)
  BY <1>1, ArriveKeepsIInv DEF BeginLogin
<1>2. CASE BeginMe(r)
  BY <1>2, ArriveKeepsIInv DEF BeginMe, IInv, TypeOK
<1>3. CASE BeginRefresh(r)
  BY <1>3, ArriveKeepsIInv DEF BeginRefresh, IInv, TypeOK
<1>4. CASE BeginLogout(r)
  BY <1>4, ArriveKeepsIInv DEF BeginLogout, IInv, TypeOK
<1> QED
  BY <1>1, <1>2, <1>3, <1>4 DEF Begin

LEMMA LookupKeepsIInv ==
  ASSUME IInv, NEW r \in Requests, Lookup(r)
  PROVE  IInv'
<1> USE DEF Lookup, Answer, Live, Goto, IInv, TypeOK, table
<1>1. TypeOK'
  BY DEF HandlersKnowTheirRow
<1>2. HandlersKnowTheirRow'
  BY DEF HandlersKnowTheirRow
<1>3. RevokedBeforeCreate'
  BY DEF RevokedBeforeCreate, HandlersKnowTheirRow
<1>4. StaleHandlersStop'
  BY DEF StaleHandlersStop
<1>5. HistoryIsPast'
  BY DEF HistoryIsPast
<1>6. RotationRetiresParent'
  BY DEF RotationRetiresParent, RevokedBeforeCreate
<1>7. ReuseRevokesOlderTokens'
  BY DEF ReuseRevokesOlderTokens, HistoryIsPast
<1> QED
  BY <1>1, <1>2, <1>3, <1>4, <1>5, <1>6, <1>7

LEMMA RevokeAllKeepsIInv ==
  ASSUME IInv, NEW r \in Requests, RevokeAll(r)
  PROVE  IInv'
<1> USE DEF RevokeAll, RevokeRows, Answer, Goto, IInv, TypeOK, table
<1>1. TypeOK'
  BY DEF HandlersKnowTheirRow
<1>2. HandlersKnowTheirRow'
  BY DEF HandlersKnowTheirRow
<1>3. RevokedBeforeCreate'
  BY DEF RevokedBeforeCreate, HandlersKnowTheirRow
<1>4. StaleHandlersStop'
  BY DEF StaleHandlersStop
<1>5. HistoryIsPast'
  BY DEF HistoryIsPast
<1>6. RotationRetiresParent'
  BY DEF RotationRetiresParent, RevokedBeforeCreate
<1>7. ReuseRevokesOlderTokens'
  BY DEF ReuseRevokesOlderTokens, HistoryIsPast
<1> QED
  BY <1>1, <1>2, <1>3, <1>4, <1>5, <1>6, <1>7

LEMMA RevokeOldKeepsIInv ==
  ASSUME IInv, NEW r \in Requests, RevokeOld(r)
  PROVE  IInv'
<1> USE DEF RevokeOld, RevokePresented, Goto, IInv, TypeOK, table
<1>1. TypeOK'
  BY DEF HandlersKnowTheirRow
<1>2. HandlersKnowTheirRow'
  BY DEF HandlersKnowTheirRow
<1>3. RevokedBeforeCreate'
  BY DEF RevokedBeforeCreate, HandlersKnowTheirRow
<1>4. StaleHandlersStop'
  BY DEF StaleHandlersStop
<1>5. HistoryIsPast'
  BY DEF HistoryIsPast
<1>6. RotationRetiresParent'
  BY DEF RotationRetiresParent, RevokedBeforeCreate
<1>7. ReuseRevokesOlderTokens'
  BY DEF ReuseRevokesOlderTokens, HistoryIsPast
<1> QED
  BY <1>1, <1>2, <1>3, <1>4, <1>5, <1>6, <1>7

LEMMA CreateKeepsIInv ==
  ASSUME IInv, NEW r \in Requests, Create(r)
  PROVE  IInv'
<1> USE DEF Create, Insert, Goto, IInv, TypeOK, table
<1>1. TypeOK'
  BY DEF HandlersKnowTheirRow
<1>2. HandlersKnowTheirRow'
  BY DEF HandlersKnowTheirRow
<1>3. RevokedBeforeCreate'
  BY DEF RevokedBeforeCreate, HandlersKnowTheirRow
<1>4. StaleHandlersStop'
  BY DEF StaleHandlersStop
<1>5. HistoryIsPast'
  BY DEF HistoryIsPast
<1>6. RotationRetiresParent'
  BY DEF RotationRetiresParent, RevokedBeforeCreate
<1>7. ReuseRevokesOlderTokens'
  BY DEF ReuseRevokesOlderTokens, HistoryIsPast
<1> QED
  BY <1>1, <1>2, <1>3, <1>4, <1>5, <1>6, <1>7

LEMMA MembersKeepsIInv ==
  ASSUME IInv, NEW r \in Requests, Members(r)
  PROVE  IInv'
<1> USE DEF Members, Answer, Goto, IInv, TypeOK, table
<1>1. TypeOK'
  BY DEF HandlersKnowTheirRow
<1>2. HandlersKnowTheirRow'
  BY DEF HandlersKnowTheirRow
<1>3. RevokedBeforeCreate'
  BY DEF RevokedBeforeCreate, HandlersKnowTheirRow
<1>4. StaleHandlersStop'
  BY DEF StaleHandlersStop
<1>5. HistoryIsPast'
  BY DEF HistoryIsPast
<1>6. RotationRetiresParent'
  BY DEF RotationRetiresParent, RevokedBeforeCreate
<1>7. ReuseRevokesOlderTokens'
  BY DEF ReuseRevokesOlderTokens, HistoryIsPast
<1> QED
  BY <1>1, <1>2, <1>3, <1>4, <1>5, <1>6, <1>7

LEMMA RevokeOneKeepsIInv ==
  ASSUME IInv, NEW r \in Requests, RevokeOne(r)
  PROVE  IInv'
<1> USE DEF RevokeOne, RevokeRows, Answer, Goto, IInv, TypeOK, table
<1>1. TypeOK'
  BY DEF HandlersKnowTheirRow
<1>2. HandlersKnowTheirRow'
  BY DEF HandlersKnowTheirRow
<1>3. RevokedBeforeCreate'
  BY DEF RevokedBeforeCreate, HandlersKnowTheirRow
<1>4. StaleHandlersStop'
  BY DEF StaleHandlersStop
<1>5. HistoryIsPast'
  BY DEF HistoryIsPast
<1>6. RotationRetiresParent'
  BY DEF RotationRetiresParent, RevokedBeforeCreate
<1>7. ReuseRevokesOlderTokens'
  BY DEF ReuseRevokesOlderTokens, HistoryIsPast
<1> QED
  BY <1>1, <1>2, <1>3, <1>4, <1>5, <1>6, <1>7

LEMMA LoadKeepsIInv ==
  ASSUME IInv, NEW r \in Requests, Load(r)
  PROVE  IInv'
<1> USE DEF Load, Answer, Goto, IInv, TypeOK, table
<1>1. TypeOK'
  BY DEF HandlersKnowTheirRow
<1>2. HandlersKnowTheirRow'
  BY DEF HandlersKnowTheirRow
<1>3. RevokedBeforeCreate'
  BY DEF RevokedBeforeCreate, HandlersKnowTheirRow
<1>4. StaleHandlersStop'
  BY DEF StaleHandlersStop
<1>5. HistoryIsPast'
  BY DEF HistoryIsPast
<1>6. RotationRetiresParent'
  BY DEF RotationRetiresParent, RevokedBeforeCreate
<1>7. ReuseRevokesOlderTokens'
  BY DEF ReuseRevokesOlderTokens, HistoryIsPast
<1> QED
  BY <1>1, <1>2, <1>3, <1>4, <1>5, <1>6, <1>7

LEMMA MintKeepsIInv ==
  ASSUME IInv, NEW r \in Requests, Mint(r)
  PROVE  IInv'
<1> USE DEF Mint, Insert, Goto, IInv, TypeOK, table
<1>1. TypeOK'
  BY DEF HandlersKnowTheirRow
<1>2. HandlersKnowTheirRow'
  BY DEF HandlersKnowTheirRow
<1>3. RevokedBeforeCreate'
  BY DEF RevokedBeforeCreate, HandlersKnowTheirRow
<1>4. StaleHandlersStop'
  BY DEF StaleHandlersStop
<1>5. HistoryIsPast'
  BY DEF HistoryIsPast
<1>6. RotationRetiresParent'
  BY DEF RotationRetiresParent, RevokedBeforeCreate
<1>7. ReuseRevokesOlderTokens'
  BY DEF ReuseRevokesOlderTokens, HistoryIsPast
<1> QED
  BY <1>1, <1>2, <1>3, <1>4, <1>5, <1>6, <1>7

LEMMA ReplyKeepsIInv ==
  ASSUME IInv, NEW r \in Requests, Reply(r)
  PROVE  IInv'
<1> USE DEF Reply, Answer, Goto, IInv, TypeOK, table
<1>1. TypeOK'
  BY DEF HandlersKnowTheirRow
<1>2. HandlersKnowTheirRow'
  BY DEF HandlersKnowTheirRow
<1>3. RevokedBeforeCreate'
  BY DEF RevokedBeforeCreate, HandlersKnowTheirRow
<1>4. StaleHandlersStop'
  BY DEF StaleHandlersStop
<1>5. HistoryIsPast'
  BY DEF HistoryIsPast
<1>6. RotationRetiresParent'
  BY DEF RotationRetiresParent, RevokedBeforeCreate
<1>7. ReuseRevokesOlderTokens'
  BY DEF ReuseRevokesOlderTokens, HistoryIsPast
<1> QED
  BY <1>1, <1>2, <1>3, <1>4, <1>5, <1>6, <1>7

LEMMA StopKeepsIInv ==
  ASSUME IInv, NEW r \in Requests, Fail(r) \/ Leave(r)
  PROVE  IInv'
<1> USE DEF Fail, Leave, Clear, Goto, IInv, TypeOK, table
<1>1. TypeOK'
  OBVIOUS
<1>2. HandlersKnowTheirRow' /\ RevokedBeforeCreate' /\ HistoryIsPast'
  BY DEF HandlersKnowTheirRow, RevokedBeforeCreate, HistoryIsPast
<1>3. StaleHandlersStop' /\ RotationRetiresParent' /\ ReuseRevokesOlderTokens'
  BY DEF StaleHandlersStop, RotationRetiresParent, ReuseRevokesOlderTokens
<1> QED
  BY <1>1, <1>2, <1>3

LEMMA EnvironmentKeepsIInv ==
  ASSUME IInv, Lapse \/ LoseOrgs \/ UNCHANGED vars
  PROVE  IInv'
BY DEF Lapse, LoseOrgs, vars, table, request, IInv, TypeOK,
       HandlersKnowTheirRow, RevokedBeforeCreate, StaleHandlersStop,
       HistoryIsPast, RotationRetiresParent, ReuseRevokesOlderTokens

LEMMA NextKeepsIInv == IInv /\ [Next]_vars => IInv'
BY BeginKeepsIInv, LookupKeepsIInv, RevokeAllKeepsIInv, RevokeOldKeepsIInv,
   CreateKeepsIInv, MembersKeepsIInv, RevokeOneKeepsIInv, LoadKeepsIInv,
   MintKeepsIInv, ReplyKeepsIInv, StopKeepsIInv, EnvironmentKeepsIInv
   DEF Next, Handle

\* The inductive invariant holds in every reachable state.
THEOREM Invariance == Spec => []IInv
BY InitIInv, NextKeepsIInv, PTL DEF Spec

(***************************************************************************)
(* The properties of RefreshTokens.                                        *)
(***************************************************************************)

\* Every table and every handler variable keeps its type; in particular only
\* stored tokens are revoked, lapsed or held by clients.
THEOREM TypeCorrect == Spec => []TypeOK
BY Invariance, PTL DEF IInv

\* AuthService.refresh never leaves a token and its successor both usable,
\* wherever it stops and whatever runs beside it.
THEOREM ParentsAreRetired == Spec => []RotationRetiresParent
BY Invariance, PTL DEF IInv

\* A refresh that arrives with a revoked token never creates a token.
THEOREM RevokedNeverRotates == Spec => []RevokedTokenNeverRotates
<1>1. IInv => RevokedTokenNeverRotates
  BY DEF IInv, StaleHandlersStop, RevokedTokenNeverRotates
<1> QED
  BY <1>1, Invariance, PTL

\* The reuse answer is given only once all older tokens of the user are
\* revoked.
THEOREM ReuseRevokes == Spec => []ReuseRevokesOlderTokens
BY Invariance, PTL DEF IInv

\* No step revokes a token of a user none of whose tokens was presented.
THEOREM RevocationIsPerUser == Spec => RevocationStaysWithUser
<1>1. IInv /\ [Next]_vars => [RevokesForOwner]_vars
  <2> SUFFICES ASSUME IInv, Next PROVE RevokesForOwner
    OBVIOUS
  <2> USE DEF IInv, TypeOK, RevokesForOwner, table
  <2>1. ASSUME NEW r \in Requests, RevokeAll(r) PROVE RevokesForOwner
    BY <2>1 DEF RevokeAll, RevokeRows, HandlersKnowTheirRow
  <2>2. ASSUME NEW r \in Requests, RevokeOld(r) PROVE RevokesForOwner
    BY <2>2 DEF RevokeOld, RevokePresented, HandlersKnowTheirRow
  <2>3. ASSUME NEW r \in Requests, RevokeOne(r) PROVE RevokesForOwner
    BY <2>3 DEF RevokeOne, RevokeRows
  <2>4. ASSUME NEW r \in Requests,
               Begin(r) \/ Lookup(r) \/ Create(r) \/ Members(r)
                 \/ Load(r) \/ Mint(r) \/ Reply(r)
        PROVE  revoked' = revoked
    BY <2>4 DEF Begin, BeginLogin, BeginMe, BeginRefresh, BeginLogout, Arrive,
                Lookup, Create, Members, Load, Mint, Reply, Insert
  <2>5. ASSUME NEW r \in Requests, Fail(r) \/ Leave(r)
        PROVE  revoked' = revoked
    BY <2>5 DEF Fail, Leave, Clear
  <2>6. ASSUME Lapse \/ LoseOrgs PROVE revoked' = revoked
    BY <2>6 DEF Lapse, LoseOrgs
  <2> QED
    BY <2>1, <2>2, <2>3, <2>4, <2>5, <2>6 DEF Next, Handle
<1> QED
  BY <1>1, Invariance, PTL DEF Spec, RevocationStaysWithUser

(***************************************************************************)
(* Refinement: refresh_tokens implements SessionLifecycle.                 *)
(***************************************************************************)

\* Every stored token belongs to a session that is named by a stored token.
FamiliesAreRooted ==
  \A t \in Tokens :
    IF t \in rows
      THEN family[t] \in rows /\ family[family[t]] = family[t]
      ELSE family[t] = None

\* Only Create and Mint touch the families: one extends a session, the other
\* starts one.
LEMMA FamilyStep ==
  ASSUME IInv, Next
  PROVE  \/ UNCHANGED <<rows, family>>
         \/ \E r \in Requests : Create(r) \/ Mint(r)
BY DEF Next, Handle, Begin, BeginLogin, BeginMe, BeginRefresh, BeginLogout,
       Arrive, Lookup, RevokeAll, RevokeRows, RevokeOld, RevokePresented,
       Members, RevokeOne, Load, Reply, Fail, Leave, Clear, Lapse, LoseOrgs,
       table

LEMMA NextKeepsRoots ==
  ASSUME IInv, FamiliesAreRooted, [Next]_vars
  PROVE  FamiliesAreRooted'
<1> USE DEF FamiliesAreRooted, IInv, TypeOK
<1>1. ASSUME NEW r \in Requests, Create(r) PROVE FamiliesAreRooted'
  <2>1. tok[r] \in rows
    BY <1>1 DEF Create, HandlersKnowTheirRow
  <2> QED
    BY <1>1, <2>1 DEF Create, Insert
<1>2. ASSUME NEW r \in Requests, Mint(r) PROVE FamiliesAreRooted'
  BY <1>2 DEF Mint, Insert
<1>3. CASE UNCHANGED <<rows, family>>
  BY <1>3
<1>4. CASE UNCHANGED vars
  BY <1>4 DEF vars, table
<1> QED
  BY <1>1, <1>2, <1>3, <1>4, FamilyStep

LEMMA Rooted == Spec => []FamiliesAreRooted
<1>1. Init => FamiliesAreRooted
  BY DEF Init, FamiliesAreRooted
<1> QED
  BY <1>1, NextKeepsRoots, Invariance, PTL DEF Spec

Active(s) == \E t \in rows : Live(t) /\ family[t] = s

\* A session that has started stays started.
LEMMA StartedStays ==
  ASSUME IInv, FamiliesAreRooted, [Next]_vars,
         NEW s \in Tokens, family[s] = s
  PROVE  family'[s] = s
<1>1. s \in rows
  BY DEF FamiliesAreRooted
<1>2. ASSUME NEW r \in Requests, Create(r) \/ Mint(r) PROVE family'[s] = s
  BY <1>1, <1>2 DEF Create, Mint, Insert, IInv, TypeOK
<1> QED
  BY <1>2, FamilyStep DEF vars, table

\* A session that is neither active nor being rotated is not revived.
LEMMA EndedStays ==
  ASSUME IInv, FamiliesAreRooted, [Next]_vars,
         NEW s \in Tokens, family[s] = s, ~Rotating(s), ~Active(s)
  PROVE  ~Rotating(s)' /\ ~Active(s)'
<1> USE DEF IInv, TypeOK, Rotating, Active, Live, table
<1>0. s \in rows
  BY DEF FamiliesAreRooted
<1>1. ASSUME NEW r \in Requests, Begin(r) PROVE ~Rotating(s)' /\ ~Active(s)'
  BY <1>1 DEF Begin, BeginLogin, BeginMe, BeginRefresh, BeginLogout, Arrive, Goto
<1>2. ASSUME NEW r \in Requests, Lookup(r) PROVE ~Rotating(s)' /\ ~Active(s)'
  BY <1>2 DEF Lookup, Goto, Answer
<1>3. ASSUME NEW r \in Requests, RevokeAll(r) \/ RevokeOne(r)
      PROVE  ~Rotating(s)' /\ ~Active(s)'
  BY <1>3 DEF RevokeAll, RevokeOne, RevokeRows, Goto, Answer
<1>4. ASSUME NEW r \in Requests, RevokeOld(r) PROVE ~Rotating(s)' /\ ~Active(s)'
  BY <1>4 DEF RevokeOld, RevokePresented, Goto
<1>5. ASSUME NEW r \in Requests, Create(r) PROVE ~Rotating(s)' /\ ~Active(s)'
  <2>1. family[tok[r]] # s /\ tok[r] \in rows
    BY <1>5 DEF Create, HandlersKnowTheirRow
  <2>2. PICK t \in Tokens \ rows : Insert(r, t, who[r], family[tok[r]], tok[r])
    BY <1>5 DEF Create
  <2>3. pc' = [pc EXCEPT ![r] = "members"]
    BY <1>5 DEF Create, Goto
  <2>4. ~Rotating(s)'
    BY <2>2, <2>3 DEF Insert, HandlersKnowTheirRow
  <2>5. ~Active(s)'
    BY <2>1, <2>2 DEF Insert
  <2> QED
    BY <2>4, <2>5
<1>6. ASSUME NEW r \in Requests, Mint(r) PROVE ~Rotating(s)' /\ ~Active(s)'
  <2>1. PICK t \in Tokens \ rows : Insert(r, t, who[r], t, None)
    BY <1>6 DEF Mint
  <2>2. pc' = [pc EXCEPT ![r] = "reply"]
    BY <1>6 DEF Mint, Goto
  <2>3. ~Rotating(s)'
    BY <2>1, <2>2 DEF Insert, HandlersKnowTheirRow
  <2>4. ~Active(s)'
    BY <1>0, <2>1 DEF Insert
  <2> QED
    BY <2>3, <2>4
<1>7. ASSUME NEW r \in Requests, Members(r) \/ Load(r) \/ Reply(r)
      PROVE  ~Rotating(s)' /\ ~Active(s)'
  BY <1>7 DEF Members, Load, Reply, Goto, Answer
<1>8. ASSUME NEW r \in Requests, Fail(r) \/ Leave(r)
      PROVE  ~Rotating(s)' /\ ~Active(s)'
  BY <1>8 DEF Fail, Leave, Clear, Goto
<1>9. CASE Lapse \/ LoseOrgs
  BY <1>9 DEF Lapse, LoseOrgs, request
<1>10. CASE UNCHANGED vars
  BY <1>10 DEF vars, request
<1> QED
  BY <1>1, <1>2, <1>3, <1>4, <1>5, <1>6, <1>7, <1>8, <1>9, <1>10
     DEF Next, Handle

\* A session starts with a usable token.
LEMMA StartsActive ==
  ASSUME IInv, FamiliesAreRooted, [Next]_vars,
         NEW s \in Tokens, family[s] # s, family'[s] = s
  PROVE  ~Rotating(s)' /\ Active(s)'
<1> USE DEF IInv, TypeOK, FamiliesAreRooted
<1>1. ASSUME NEW r \in Requests, Create(r) PROVE FALSE
  BY <1>1 DEF Create, Insert, HandlersKnowTheirRow
<1>2. ~ UNCHANGED <<rows, family>>
  OBVIOUS
<1>3. PICK r \in Requests : Mint(r)
  BY <1>1, <1>2, FamilyStep DEF vars, table
<1>4. PICK t \in Tokens \ rows : Insert(r, t, who[r], t, None)
  BY <1>3 DEF Mint
<1>5. s = t
  BY <1>4 DEF Insert
<1>6. Active(s)'
  BY <1>4, <1>5 DEF Insert, Active, Live
<1>7. ~Rotating(s)'
  <2> SUFFICES ASSUME NEW q \in Requests, pc'[q] \in {"revokeOld", "create"},
                      family'[tok'[q]] = s
               PROVE  FALSE
    BY DEF Rotating
  <2>1. pc[q] = pc'[q] /\ tok' = tok
    BY <1>3, <1>4 DEF Mint, Insert, Goto
  <2>2. tok[q] \in rows /\ tok[q] # t
    BY <2>1 DEF HandlersKnowTheirRow
  <2> QED
    BY <1>4, <1>5, <2>1, <2>2 DEF Insert
<1> QED
  BY <1>6, <1>7

LEMMA SessionsStep ==
  ASSUME IInv, FamiliesAreRooted, [Next]_vars
  PROVE  [Lifecycle!Move]_SessionState
<1> USE DEF SessionState
<1>1. SessionState' \in [Tokens -> Lifecycle!Stage]
  BY DEF Lifecycle!Stage
<1>2. ASSUME NEW s \in Tokens
      PROVE  SessionState'[s] \in Lifecycle!Successors[SessionState[s]]
  <2>1. CASE SessionState[s] = "none"
    <3>1. family[s] # s
      BY <2>1
    <3>2. SessionState'[s] \in {"none", "active"}
      BY <3>1, StartsActive DEF Active
    <3> QED
      BY <2>1, <3>2 DEF Lifecycle!Successors
  <2>2. CASE SessionState[s] = "ended"
    <3>1. family[s] = s /\ ~Rotating(s) /\ ~Active(s)
      BY <2>2 DEF Active
    <3>2. SessionState'[s] = "ended"
      BY <3>1, EndedStays, StartedStays DEF Active
    <3> QED
      BY <2>2, <3>2 DEF Lifecycle!Successors
  <2>3. CASE SessionState[s] \in {"active", "rotating"}
    <3>1. family'[s] = s
      BY <2>3, StartedStays
    <3>2. SessionState'[s] \in {"active", "rotating", "ended"}
      BY <3>1
    <3> QED
      BY <2>3, <3>2 DEF Lifecycle!Successors
  <2> QED
    BY <2>1, <2>2, <2>3
<1> QED
  BY <1>1, <1>2 DEF Lifecycle!Move

\* The table and its handlers implement the life of a session: no request, in
\* any interleaving, revives a session that has ended.
THEOREM Refinement == Spec => SessionsFollowLifecycle
<1>1. Init => Lifecycle!Init
  BY NoneAssumption DEF Init, Lifecycle!Init, SessionState
<1> QED
  BY <1>1, SessionsStep, Invariance, Rooted, PTL
     DEF Spec, SessionsFollowLifecycle, Lifecycle!Spec

(***************************************************************************)
(* What a session is worth to its user                                     *)
(***************************************************************************)

Ended(s) == SessionState[s] = "ended"

\* An ended session stays ended for good: whatever arrives later, however the
\* handlers overlap, its user has to log in again (auth.service.ts 430-515).
THEOREM EndedForever ==
  ASSUME NEW s \in Tokens
  PROVE  Spec => [](Ended(s) => []Ended(s))
<1>1. IInv /\ FamiliesAreRooted /\ Ended(s) /\ [Next]_vars => Ended(s)'
  <2> SUFFICES ASSUME IInv, FamiliesAreRooted, [Next]_vars, SessionState[s] = "ended"
               PROVE  SessionState'[s] = "ended"
    BY DEF Ended
  <2>1. family[s] = s /\ ~Rotating(s) /\ ~Active(s)
    BY DEF SessionState, Active
  <2> QED BY <2>1, EndedStays, StartedStays DEF SessionState, Active
<1> QED BY <1>1, Invariance, Rooted, PTL DEF Spec

\* A session belongs to one user, and a token to the session of the token it
\* was rotated from.
SessionsHaveOneUser ==
  \A t \in rows :
    /\ owner[family[t]] = owner[t]
    /\ parent[t] # None => parent[t] \in rows /\ family[parent[t]] = family[t]

\* Rotation never hands a session to another user (auth.service.ts 489-506):
\* what a handler has read of the old row still holds when it writes the new.
THEOREM SessionsStayWithUser == Spec => []SessionsHaveOneUser
<1>1. Init => SessionsHaveOneUser
  BY DEF Init, SessionsHaveOneUser
<1>2. IInv /\ FamiliesAreRooted /\ SessionsHaveOneUser /\ [Next]_vars => SessionsHaveOneUser'
  <2> SUFFICES ASSUME IInv, FamiliesAreRooted, SessionsHaveOneUser, [Next]_vars
               PROVE  SessionsHaveOneUser'
    OBVIOUS
  <2> USE DEF IInv, TypeOK, FamiliesAreRooted, SessionsHaveOneUser
  <2>1. ASSUME NEW r \in Requests, Create(r) PROVE SessionsHaveOneUser'
    <3>1. tok[r] \in rows /\ who[r] = owner[tok[r]]
      BY <2>1 DEF Create, HandlersKnowTheirRow
    <3>2. PICK t \in Tokens \ rows : Insert(r, t, who[r], family[tok[r]], tok[r])
      BY <2>1 DEF Create
    <3> QED BY <3>1, <3>2 DEF Insert
  <2>2. ASSUME NEW r \in Requests, Mint(r) PROVE SessionsHaveOneUser'
    <3>1. PICK t \in Tokens \ rows : Insert(r, t, who[r], t, None)
      BY <2>2 DEF Mint
    <3> QED BY <3>1 DEF Insert
  <2>3. CASE UNCHANGED <<rows, owner, family, parent>>
    BY <2>3
  <2>4. Next => \/ UNCHANGED <<rows, owner, family, parent>>
                \/ \E r \in Requests : Create(r) \/ Mint(r)
    BY DEF Next, Handle, Begin, BeginLogin, BeginMe, BeginRefresh, BeginLogout, Arrive, Lookup,
       RevokeAll, RevokeRows, RevokeOld, RevokePresented, Members, RevokeOne, Load, Reply,
       Fail, Leave, Clear, Lapse, LoseOrgs, table
  <2> QED BY <2>1, <2>2, <2>3, <2>4 DEF vars, table
<1> QED BY <1>1, <1>2, Invariance, Rooted, PTL DEF Spec

\* The answer to reuse logs its user out everywhere (auth.service.ts 457-478),
\* with the one exception its two transactions leave room for: a refresh that
\* is past its own look at the row goes on and revives that session.
THEOREM ReuseEndsSessions == Spec => ReuseLogsOut
<1>1. IInv /\ FamiliesAreRooted /\ SessionsHaveOneUser /\ [Next]_vars => [ReuseEnds]_vars
  <2> SUFFICES ASSUME IInv, FamiliesAreRooted, SessionsHaveOneUser, Next,
                      NEW r \in Requests, out[r] # "reuse", out'[r] = "reuse",
                      NEW s \in rows, family[s] = s, owner[s] = who[r]
               PROVE  SessionState'[s] = IF Rotating(s) THEN "rotating" ELSE "ended"
    BY DEF ReuseEnds
  <2> USE DEF IInv, TypeOK
  <2>1. RevokeAll(r)
    <3>1. ASSUME NEW q \in Requests, Begin(q) \/ Fail(q) \/ Leave(q) PROVE FALSE
      BY <3>1 DEF Begin, BeginLogin, BeginMe, BeginRefresh, BeginLogout, Arrive, Fail, Leave, Clear
    <3>2. ASSUME NEW q \in Requests, Lookup(q) \/ RevokeOld(q) \/ Create(q) \/ Members(q)
                                      \/ RevokeOne(q) \/ Load(q) \/ Mint(q) \/ Reply(q)
          PROVE  FALSE
      BY <3>2 DEF Lookup, RevokeOld, RevokePresented, Create, Insert, Members, RevokeOne, RevokeRows,
           Load, Mint, Reply, Answer
    <3>3. ASSUME NEW q \in Requests, RevokeAll(q) PROVE q = r
      BY <3>3 DEF RevokeAll, RevokeRows, Answer
    <3>4. ~Lapse /\ ~LoseOrgs
      BY DEF Lapse, LoseOrgs, request
    <3> QED BY <3>1, <3>2, <3>3, <3>4 DEF Next, Handle
  <2>2. /\ revoked' = revoked \cup {t \in rows : owner[t] = who[r]}
        /\ pc[r] = "revokeAll" /\ pc' = [pc EXCEPT ![r] = "done"]
        /\ UNCHANGED <<rows, owner, family, tok, lapsed>>
    BY <2>1 DEF RevokeAll, RevokeRows, Answer, Goto
  <2>3. ~Active(s)'
    BY <2>2 DEF Active, Live, SessionsHaveOneUser
  <2>4. Rotating(s)' <=> Rotating(s)
    BY <2>2 DEF Rotating
  <2>5. s \in Tokens /\ family'[s] = s
    BY <2>2
  <2> QED BY <2>3, <2>4, <2>5 DEF SessionState, Active
<1> QED BY <1>1, Invariance, Rooted, SessionsStayWithUser, PTL DEF Spec, ReuseLogsOut

(***************************************************************************)
(* Two presentations of one token: the run on PresentedTwiceIsReuse shows  *)
(* that both can be answered with a new one, and this is when.             *)
(***************************************************************************)

\* A refresh that arrives after a successor of its token was stored is one that
\* arrives with a revoked token, and the answer to a refresh is a successor.
PresentationsFit ==
  \A r \in Requests :
    /\ tok[r] # None => \A t \in rowsAt[r] : parent[t] = tok[r] => stale[r]
    /\ pc[r] \in {"load", "mint", "reply", "revokeOne"} => op[r] # "refresh"
    /\ op[r] = "refresh" /\ (pc[r] = "members" \/ out[r] = "ok") =>
         tok[r] # None /\ fresh[r] \in rows /\ parent[fresh[r]] = tok[r]

\* Both handlers of such a pair arrived before the other had stored the
\* successor it answers with.
AnsweredTwiceOverlap ==
  \A q, r \in Requests :
    /\ q # r /\ tok[q] = tok[r] /\ op[q] = "refresh" /\ op[r] = "refresh"
    /\ out[q] = "ok" /\ out[r] = "ok"
    => fresh[q] \notin rowsAt[r] /\ fresh[r] \notin rowsAt[q]

LEMMA PresentationsStep == IInv /\ PresentationsFit /\ [Next]_vars => PresentationsFit'
<1> SUFFICES ASSUME IInv, PresentationsFit, [Next]_vars PROVE PresentationsFit'
  OBVIOUS
<1> USE DEF IInv, TypeOK, PresentationsFit, Goto, Answer, table
<1>1. ASSUME NEW r \in Requests, Begin(r) PROVE PresentationsFit'
  <2>1. PICK endpoint \in Endpoints \ {"none"}, step \in Steps, t \in Tokens \cup {None},
             u \in Users \cup {None} :
          /\ Arrive(r, endpoint, step, t, u)
          /\ step \notin {"members", "done"}
          /\ endpoint = "refresh" => step = "lookup"
    <3>1. BeginLogin(r) => \E u \in Users : Arrive(r, "login", "load", None, u)
      BY DEF BeginLogin
    <3>2. BeginMe(r) => \E t \in held : Arrive(r, "me", "load", None, owner[t])
      BY DEF BeginMe
    <3>3. BeginRefresh(r) => \E t \in held \cup {None} : Arrive(r, "refresh", "lookup", t, None)
      BY DEF BeginRefresh
    <3>4. BeginLogout(r) => \E t \in held \cup {None} : Arrive(r, "logout", "revokeOne", t, None)
      BY DEF BeginLogout
    <3>5. \A t \in held : t \in Tokens /\ owner[t] \in Users \cup {None}
      OBVIOUS
    <3> QED
      BY <1>1, <3>1, <3>2, <3>3, <3>4, <3>5 DEF Begin
  <2>2. pc[r] = "idle" /\ out[r] = "none"
    BY <2>1 DEF Arrive, HistoryIsPast
  <2>3. \A s \in rows : parent[s] # None => parent[s] \in revoked
    BY DEF RotationRetiresParent
  <2>4. /\ pc'[r] = step /\ op'[r] = endpoint /\ tok'[r] = t /\ out'[r] = "none"
        /\ rowsAt'[r] = IF endpoint = "refresh" THEN rows ELSE {}
        /\ stale'[r] = (endpoint = "refresh" /\ t \in revoked)
        /\ UNCHANGED <<rows, parent, fresh, out>>
    BY <2>1, <2>2 DEF Arrive
  <2>5. \A q \in Requests \ {r} :
          /\ pc'[q] = pc[q] /\ op'[q] = op[q] /\ tok'[q] = tok[q]
          /\ rowsAt'[q] = rowsAt[q] /\ stale'[q] = stale[q]
    BY <2>1 DEF Arrive
  <2>6. tok'[r] # None => \A s \in rowsAt'[r] : parent[s] = tok'[r] => stale'[r]
    BY <2>3, <2>4
  <2> QED
    BY <2>1, <2>4, <2>5, <2>6
<1>2. ASSUME NEW r \in Requests, Create(r) PROVE PresentationsFit'
  <2>1. PICK t \in Tokens \ rows : Insert(r, t, who[r], family[tok[r]], tok[r])
    BY <1>2 DEF Create
  <2>2. /\ tok[r] # None
        /\ pc[r] = "create" /\ pc' = [pc EXCEPT ![r] = "members"]
        /\ out[r] = "none"
    BY <1>2 DEF Create, HandlersKnowTheirRow, HistoryIsPast
  <2>3. \A s \in rows : parent'[s] = parent[s]
    BY <2>1 DEF Insert
  <2>4. \A q \in Requests : rowsAt[q] \subseteq rows
    BY DEF HistoryIsPast
  <2> QED
    BY <2>1, <2>2, <2>3, <2>4 DEF Insert
<1>3. ASSUME NEW r \in Requests, Mint(r) PROVE PresentationsFit'
  <2>1. PICK t \in Tokens \ rows : Insert(r, t, who[r], t, None)
    BY <1>3 DEF Mint
  <2>2. pc[r] = "mint" /\ pc' = [pc EXCEPT ![r] = "reply"]
    BY <1>3 DEF Mint
  <2>3. \A s \in rows : parent'[s] = parent[s]
    BY <2>1 DEF Insert
  <2>4. \A q \in Requests : rowsAt[q] \subseteq rows
    BY DEF HistoryIsPast
  <2> QED
    BY <2>1, <2>2, <2>3, <2>4 DEF Insert
<1>4. ASSUME NEW r \in Requests, Lookup(r) \/ RevokeAll(r) \/ RevokeOld(r) \/ RevokeOne(r)
      PROVE  PresentationsFit'
  BY <1>4 DEF Lookup, RevokeAll, RevokeRows, RevokeOld, RevokePresented, RevokeOne, HistoryIsPast
<1>5. ASSUME NEW r \in Requests, Members(r) \/ Load(r) \/ Reply(r) PROVE PresentationsFit'
  BY <1>5 DEF Members, Load, Reply
<1>6. ASSUME NEW r \in Requests, Fail(r) \/ Leave(r) PROVE PresentationsFit'
  BY <1>6 DEF Fail, Leave, Clear
<1>7. CASE Lapse \/ LoseOrgs \/ UNCHANGED vars
  BY <1>7 DEF Lapse, LoseOrgs, vars, request
<1> QED
  BY <1>1, <1>2, <1>3, <1>4, <1>5, <1>6, <1>7 DEF Next, Handle

\* A token presented again after its rotation is never answered with a new one:
\* what WEEK2_AUTH_SETUP.md says of a token presented twice fails for
\* overlapping refreshes only (auth.service.ts 441-506).
THEOREM OnlyOverlapAnswersTwice == Spec => []AnsweredTwiceOverlap
<1>1. Init => PresentationsFit
  BY DEF Init, PresentationsFit
<1>2. IInv /\ PresentationsFit => AnsweredTwiceOverlap
  <2> SUFFICES ASSUME IInv, PresentationsFit, NEW q \in Requests, NEW r \in Requests,
                      tok[q] = tok[r], op[q] = "refresh", op[r] = "refresh",
                      out[q] = "ok", out[r] = "ok", fresh[q] \in rowsAt[r]
               PROVE  FALSE
    BY DEF AnsweredTwiceOverlap
  <2>1. stale[r]
    BY DEF PresentationsFit
  <2>2. fresh[r] = None
    BY <2>1 DEF IInv, StaleHandlersStop
  <2>3. fresh[r] \in Tokens
    BY DEF PresentationsFit, IInv, TypeOK
  <2> QED
    BY <2>2, <2>3
<1> QED
  BY <1>1, <1>2, PresentationsStep, Invariance, PTL DEF Spec

(***************************************************************************)
(* A client that has one refresh at a time under way, whatever else it     *)
(* asks for: what WebSessionProofs needs of the handlers.                  *)
(***************************************************************************)

OneRefreshAtATime ==
  \A q, r \in Requests : op[q] = "refresh" /\ op[r] = "refresh" => q = r

\* While a rotation is under way its session has no usable token but the one
\* being retired.
RotationIsExclusive ==
  \A r \in Requests :
    /\ pc[r] = "revokeOld" =>
         \A t \in rows : Live(t) /\ family[t] = family[tok[r]] => t = tok[r]
    /\ pc[r] = "create" => ~Active(family[tok[r]])

RotatorsRefresh ==
  \A r \in Requests : pc[r] \in {"revokeOld", "create"} => op[r] = "refresh"

SInv == RotationIsExclusive /\ OneLiveTokenPerSession

LEMMA OneRefreshStep ==
  ASSUME IInv, FamiliesAreRooted, SInv, RotatorsRefresh, OneRefreshAtATime, Next
  PROVE  SInv'
<1> USE DEF IInv, TypeOK, SInv, table
<1>1. ASSUME NEW r \in Requests, Begin(r) PROVE SInv'
  <2>1. PICK step \in {"lookup", "load", "revokeOne"} :
          /\ pc[r] = "idle" /\ pc' = [pc EXCEPT ![r] = step]
          /\ UNCHANGED <<table, lapsed>>
          /\ \A q \in Requests \ {r} : tok'[q] = tok[q]
    BY <1>1 DEF Begin, BeginLogin, BeginMe, BeginRefresh, BeginLogout, Arrive, Goto
  <2>3. RotationIsExclusive'
    BY <2>1 DEF RotationIsExclusive, Active, Live
  <2>4. OneLiveTokenPerSession'
    BY <2>1 DEF OneLiveTokenPerSession, Live
  <2> QED
    BY <2>3, <2>4
<1>2. ASSUME NEW r \in Requests, Lookup(r) PROVE SInv'
  <2> USE <1>2 DEF Lookup, Goto, Answer
  <2>2. RotationIsExclusive'
    BY DEF RotationIsExclusive, Active, Live, OneLiveTokenPerSession
  <2>3. OneLiveTokenPerSession'
    BY DEF OneLiveTokenPerSession, Live
  <2> QED
    BY <2>2, <2>3
<1>3. ASSUME NEW r \in Requests, RevokeAll(r) \/ RevokeOne(r) PROVE SInv'
  <2> USE <1>3 DEF RevokeAll, RevokeOne, RevokeRows, Goto, Answer
  <2>2. RotationIsExclusive' /\ OneLiveTokenPerSession'
    BY DEF RotationIsExclusive, OneLiveTokenPerSession, Active, Live
  <2> QED
    BY <2>2
<1>4. ASSUME NEW r \in Requests, RevokeOld(r) PROVE SInv'
  <2> USE <1>4 DEF RevokeOld, RevokePresented, Goto
  <2>2. RotationIsExclusive'
    BY DEF RotationIsExclusive, Active, Live
  <2>3. OneLiveTokenPerSession'
    BY DEF OneLiveTokenPerSession, Live
  <2> QED
    BY <2>2, <2>3
<1>5. ASSUME NEW r \in Requests, Create(r) PROVE SInv'
  <2>1. PICK t \in Tokens \ rows : Insert(r, t, who[r], family[tok[r]], tok[r])
    BY <1>5 DEF Create
  <2>2. pc[r] = "create" /\ pc' = [pc EXCEPT ![r] = "members"]
    BY <1>5 DEF Create, Goto
  <2>3. \A q \in Requests : q # r => pc'[q] \notin {"revokeOld", "create"}
    BY <2>2 DEF RotatorsRefresh, OneRefreshAtATime
  <2>4. RotationIsExclusive'
    BY <2>2, <2>3 DEF RotationIsExclusive
  <2>5. OneLiveTokenPerSession'
    BY <2>1, <2>2 DEF Insert, OneLiveTokenPerSession, RotationIsExclusive,
                      Active, Live
  <2> QED
    BY <2>4, <2>5
<1>6. ASSUME NEW r \in Requests, Mint(r) PROVE SInv'
  <2>1. PICK t \in Tokens \ rows : Insert(r, t, who[r], t, None)
    BY <1>6 DEF Mint
  <2>2. pc[r] = "mint" /\ pc' = [pc EXCEPT ![r] = "reply"]
    BY <1>6 DEF Mint, Goto
  <2>3. \A q \in Requests : pc'[q] \in {"revokeOld", "create"} =>
          /\ q # r /\ pc'[q] = pc[q] /\ tok'[q] = tok[q]
          /\ tok[q] \in rows /\ family[tok[q]] \in rows
    BY <2>1, <2>2 DEF Insert, HandlersKnowTheirRow, FamiliesAreRooted
  <2>4. RotationIsExclusive'
    BY <2>1, <2>3 DEF RotationIsExclusive, Insert, Active, Live
  <2>5. OneLiveTokenPerSession'
    BY <2>1 DEF Insert, OneLiveTokenPerSession, FamiliesAreRooted, Live
  <2> QED
    BY <2>4, <2>5
<1>7. ASSUME NEW r \in Requests, Members(r) \/ Load(r) \/ Reply(r) PROVE SInv'
  <2> USE <1>7 DEF Members, Load, Reply, Goto, Answer
  <2>2. RotationIsExclusive' /\ OneLiveTokenPerSession'
    BY DEF RotationIsExclusive, OneLiveTokenPerSession, Active, Live
  <2> QED
    BY <2>2
<1>8. ASSUME NEW r \in Requests, Fail(r) \/ Leave(r) PROVE SInv'
  <2> USE <1>8 DEF Fail, Leave, Clear, Goto
  <2>2. RotationIsExclusive' /\ OneLiveTokenPerSession'
    BY DEF RotationIsExclusive, OneLiveTokenPerSession, Active, Live
  <2> QED
    BY <2>2
<1>9. CASE Lapse \/ LoseOrgs
  BY <1>9 DEF Lapse, LoseOrgs, request, RotationIsExclusive,
              OneLiveTokenPerSession, Active, Live
<1> QED
  BY <1>1, <1>2, <1>3, <1>4, <1>5, <1>6, <1>7, <1>8, <1>9 DEF Next, Handle
=============================================================================
