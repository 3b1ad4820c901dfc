-------------------------- MODULE WebSessionProofs --------------------------
(***************************************************************************)
(* The tab of WebSession and the server of RefreshTokens together: the     *)
(* composition is a behaviour of the server, so the theorems about the     *)
(* server hold of it, and the store never mixes two users.                 *)
(***************************************************************************)
EXTENDS WebSession, RefreshTokensProofs

(***************************************************************************)
(* The inductive invariant.                                                *)
(***************************************************************************)

\* A handler gives the token it has created to the user it acts for, and an
\* answer that sets a cookie carries a token of that user.
FreshIsOwn ==
  \A r \in Requests :
    pc[r] \in {"members", "reply"} => owner[fresh[r]] = who[r]

AnswersAreHeld ==
  \A r \in Requests :
    pc[r] = "done" /\ out[r] = "ok" /\ op[r] \in {"login", "refresh"}
      => fresh[r] \in held /\ owner[fresh[r]] = who[r]

\* The tab never logs out through RefreshTokens, and what it waits for in a
\* slot is what the server does there.
SlotsFit ==
  \A r \in Requests :
    /\ pc[r] # "revokeOne"
    /\ stage[r] = "refreshing" => op[r] = "refresh"
    /\ stage[r] \in Forms => op[r] = "login"
    /\ stage[r] = "asking" => /\ who[r] = carry[r]
                              /\ pc[r] \notin {"idle", "lookup"}

\* The cookie and the access token of an effect came in an answer.
CookieIsHeld == cookie \in held \cup {None}

AccessIsHeld ==
  \A r \in Requests :
    stage[r] = "me" => \E t \in held : owner[t] = carry[r]

TabIInv ==
  /\ IInv
  /\ TabTypeOK
  /\ FreshIsOwn
  /\ AnswersAreHeld
  /\ SlotsFit
  /\ CookieIsHeld
  /\ AccessIsHeld
  /\ StoreIsOneUser

USE DEF Forms

LEMMA InitTabIInv == TabInit => TabIInv
<1> SUFFICES ASSUME TabInit PROVE TabIInv
  OBVIOUS
<1>1. IInv
  BY InitIInv DEF TabInit
<1>2. TabTypeOK
  <2>1. TypeOK
    BY <1>1 DEF IInv
  <2>2. mounted \in Requests \cup {None} /\ stage \in [Requests -> Stages]
    BY DEF TabInit, Stages
  <2>3. moves \in 0 .. MaxMoves
    BY MovesAreCounted DEF TabInit
  <2>4. page \in Pages /\ next \in Pages \cup {None}
    BY DEF TabInit
  <2>5. /\ cookie \in Tokens \cup {None}
        /\ store \in [token : Users \cup {None}, user : Users \cup {None}]
        /\ shown \in BOOLEAN /\ alone \in BOOLEAN
        /\ carry \in [Requests -> Users \cup {None}]
    BY DEF TabInit, SignedOut
  <2> QED
    BY <2>1, <2>2, <2>3, <2>4, <2>5 DEF TabTypeOK
<1>3. FreshIsOwn /\ AnswersAreHeld /\ SlotsFit /\ CookieIsHeld
  BY DEF TabInit, Init, FreshIsOwn, AnswersAreHeld, SlotsFit, CookieIsHeld
<1>4. AccessIsHeld /\ StoreIsOneUser
  BY DEF TabInit, AccessIsHeld, StoreIsOneUser, SignedOut
<1> QED
  BY <1>1, <1>2, <1>3, <1>4 DEF TabIInv

(***************************************************************************)
(* What a step of the server leaves of the facts about its side.           *)
(***************************************************************************)

\* Received tokens stay received and no row changes its user.
TokensStay == held \subseteq held' /\ \A t \in rows : owner'[t] = owner[t]

LEMMA ArriveFacts ==
  ASSUME TabIInv, NEW r \in Requests, NEW endpoint \in {"login", "me", "refresh"},
         NEW step \in {"lookup", "load"}, NEW t, NEW u,
         Arrive(r, endpoint, step, t, u)
  PROVE  /\ FreshIsOwn' /\ AnswersAreHeld' /\ TokensStay
         /\ pc'[r] = step /\ op'[r] = endpoint /\ who'[r] = u
         /\ \A q \in Requests \ {r} :
              pc'[q] = pc[q] /\ op'[q] = op[q] /\ who'[q] = who[q]
<1> USE DEF TabIInv, IInv, TypeOK, Arrive, Goto, table
<1>1. FreshIsOwn'
  BY DEF FreshIsOwn
<1>2. AnswersAreHeld'
  BY DEF AnswersAreHeld
<1>3. TokensStay
  BY DEF TokensStay
<1> QED
  BY <1>1, <1>2, <1>3

LEMMA ClearFacts ==
  ASSUME TabIInv, NEW r \in Requests, Clear(r)
  PROVE  /\ FreshIsOwn' /\ AnswersAreHeld' /\ TokensStay
         /\ pc'[r] = "idle"
         /\ \A q \in Requests \ {r} :
              pc'[q] = pc[q] /\ op'[q] = op[q] /\ who'[q] = who[q]
<1> USE DEF TabIInv, IInv, TypeOK, Clear, Goto, table
<1>1. FreshIsOwn'
  BY DEF FreshIsOwn
<1>2. AnswersAreHeld'
  BY DEF AnswersAreHeld
<1>3. TokensStay
  BY DEF TokensStay
<1> QED
  BY <1>1, <1>2, <1>3

LEMMA HandleFacts ==
  ASSUME TabIInv, NEW r \in Requests, Handle(r)
  PROVE  /\ FreshIsOwn' /\ AnswersAreHeld' /\ TokensStay
         /\ pc'[r] \notin {"idle", "lookup", "revokeOne"}
         /\ op' = op
         /\ pc[r] # "lookup" => who'[r] = who[r]
         /\ \A q \in Requests \ {r} : pc'[q] = pc[q] /\ who'[q] = who[q]
<1> USE DEF TabIInv, IInv, TypeOK, Goto, Answer, table, TokensStay
<1>1. CASE Lookup(r) \/ RevokeAll(r) \/ RevokeOld(r) \/ Load(r)
  BY <1>1 DEF Lookup, RevokeAll, RevokeOld, RevokeRows, RevokePresented, Load,
              FreshIsOwn, AnswersAreHeld, HandlersKnowTheirRow, HistoryIsPast
<1>2. CASE RevokeOne(r)
  BY <1>2 DEF RevokeOne, SlotsFit
<1>3. CASE Members(r) \/ Reply(r)
  BY <1>3 DEF Members, Reply, FreshIsOwn, AnswersAreHeld
<1>4. CASE Create(r) \/ Mint(r)
  <2>1. PICK t \in Tokens \ rows : \E f, p : Insert(r, t, who[r], f, p)
    BY <1>4 DEF Create, Mint
  <2>2. /\ pc[r] \in {"create", "mint"} /\ pc'[r] \in {"members", "reply"}
        /\ \A q \in Requests \ {r} : pc'[q] = pc[q]
    BY <1>4 DEF Create, Mint
  <2>3. /\ owner' = [owner EXCEPT ![t] = who[r]] /\ fresh' = [fresh EXCEPT ![r] = t]
        /\ UNCHANGED <<held, op, who, out>>
    BY <2>1 DEF Insert
  <2>4. TokensStay
    BY <2>3
  <2>5. FreshIsOwn'
    <3> SUFFICES ASSUME NEW q \in Requests, pc'[q] \in {"members", "reply"}
                 PROVE  owner'[fresh'[q]] = who'[q]
      BY DEF FreshIsOwn
    <3>1. CASE q = r
      BY <3>1, <2>3
    <3>2. CASE q # r
      BY <3>2, <2>2, <2>3 DEF FreshIsOwn, HandlersKnowTheirRow
    <3> QED
      BY <3>1, <3>2
  <2>6. AnswersAreHeld'
    <3> SUFFICES ASSUME NEW q \in Requests, pc'[q] = "done", out'[q] = "ok",
                        op'[q] \in {"login", "refresh"}
                 PROVE  fresh'[q] \in held' /\ owner'[fresh'[q]] = who'[q]
      BY DEF AnswersAreHeld
    <3>1. q # r
      BY <2>2
    <3> QED
      BY <3>1, <2>2, <2>3 DEF AnswersAreHeld
  <2> QED
    BY <2>2, <2>3, <2>4, <2>5, <2>6
<1> QED
  BY <1>1, <1>2, <1>3, <1>4 DEF Handle

(***************************************************************************)
(* Every step of the tab is a step of the server, or none.                 *)
(***************************************************************************)
LEMMA TabStepIsServerStep ==
  ASSUME TabIInv, TabNext
  PROVE  [Next]_vars
<1>1. CASE Visit \/ Reload \/ NavigateNowhere \/ RedirectVerified \/ RedirectSignedOut
  BY <1>1 DEF Visit, Reload, NavigateNowhere, RedirectVerified, RedirectSignedOut, Push
<1>2. ASSUME NEW r \in Requests,
             SubmitForm(r) \/ SubmitLink(r) \/ Navigate(r) \/ Send(r) \/ Exchange(r)
      PROVE  [Next]_vars
  <2>1. CASE SubmitForm(r) \/ SubmitLink(r)
    BY <2>1 DEF SubmitForm, SubmitLink, Submit, BeginLogin, Begin, Next
  <2>2. CASE Navigate(r) \/ Disconnect(r)
    BY <2>2 DEF Navigate, Disconnect
  <2>3. CASE SendRefresh(r)
    BY <2>3 DEF SendRefresh, BeginRefresh, Begin, Next, TabIInv, CookieIsHeld
  <2>4. CASE SendMe(r)
    <3>1. PICK t \in held : owner[t] = carry[r]
      BY <2>4 DEF SendMe, TabIInv, AccessIsHeld
    <3>2. BeginMe(r)
      BY <2>4, <3>1 DEF SendMe, BeginMe
    <3> QED
      BY <3>2 DEF Begin, Next
  <2>5. CASE Serve(r) \/ RefreshOk(r) \/ MeOk(r) \/ LoginOk(r) \/ Rejected(r)
               \/ Orphan(r)
    BY <2>5 DEF Serve, RefreshOk, MeOk, LoginOk, Rejected, Orphan, Next
  <2> QED
    BY <1>2, <2>1, <2>2, <2>3, <2>4, <2>5 DEF Send, Exchange
<1> QED
  BY <1>1, <1>2 DEF TabNext

LEMMA ServerKeepsIInv ==
  ASSUME TabIInv, [Next]_vars
  PROVE  IInv'
BY NextKeepsIInv DEF TabIInv

(***************************************************************************)
(* One lemma per kind of step: it keeps the tab's part of the invariant.   *)
(***************************************************************************)
TabPart ==
  /\ TabTypeOK
  /\ FreshIsOwn
  /\ AnswersAreHeld
  /\ SlotsFit
  /\ CookieIsHeld
  /\ AccessIsHeld
  /\ StoreIsOneUser

LEMMA BrowserStepKeepsTabPart ==
  ASSUME TabIInv, IInv',
         \/ Visit \/ Reload \/ NavigateNowhere \/ RedirectVerified \/ RedirectSignedOut
         \/ \E r \in Requests : Navigate(r) \/ Disconnect(r)
  PROVE  TabPart'
<1> USE DEF Visit, Reload, NavigateNowhere, RedirectVerified, RedirectSignedOut, Push,
            Navigate, Disconnect,
            Error, Caught, Over, Move, Answered, Waiting, TabIInv
<1>0. UNCHANGED vars
  OBVIOUS
<1>1. TabTypeOK'
  <2>1. TypeOK'
    BY DEF IInv
  <2>2. cookie' \in Tokens \cup {None}
    BY DEF TabTypeOK, IInv, TypeOK
  <2>3. /\ store' \in [token : Users \cup {None}, user : Users \cup {None}]
        /\ shown' \in BOOLEAN /\ alone' \in BOOLEAN
        /\ page' \in Pages /\ next' \in Pages \cup {None}
        /\ mounted' \in Requests \cup {None}
    <3> USE DEF TabTypeOK, SignedOut, Pages, AuthPages
    <3>1. CASE Visit \/ NavigateNowhere \/ RedirectVerified \/ RedirectSignedOut
      BY <3>1
    <3>2. CASE Reload
      BY <3>2
    <3>3. CASE \E r \in Requests : Navigate(r)
      BY <3>3
    <3>4. ASSUME NEW r \in Requests, Disconnect(r)
          PROVE  /\ store' \in [token : Users \cup {None}, user : Users \cup {None}]
                 /\ shown' \in BOOLEAN /\ alone' \in BOOLEAN
                 /\ page' \in Pages /\ next' \in Pages \cup {None}
                 /\ mounted' \in Requests \cup {None}
      <4>1. CASE Caught(r)
        BY <3>4, <4>1
      <4>2. CASE UNCHANGED <<store, shown, next, mounted>>
        BY <3>4, <4>2
      <4> QED
        BY <3>4, <4>1, <4>2
    <3> QED
      BY <3>1, <3>2, <3>3, <3>4
  <2>4. /\ stage' \in [Requests -> Stages]
        /\ carry' \in [Requests -> Users \cup {None}]
    BY DEF TabTypeOK, Stages
  <2>5. moves' \in 0 .. MaxMoves
    BY MovesAreCounted DEF TabTypeOK
  <2> QED
    BY <2>1, <2>2, <2>3, <2>4, <2>5 DEF TabTypeOK
<1>2. FreshIsOwn' /\ AnswersAreHeld'
  BY <1>0 DEF FreshIsOwn, AnswersAreHeld, vars, table, request
<1>3. SlotsFit'
  BY <1>0 DEF SlotsFit, TabTypeOK, vars, table, request
<1>4. CookieIsHeld'
  BY <1>0 DEF CookieIsHeld, AnswersAreHeld, SlotsFit, vars, table, request
<1>5. AccessIsHeld'
  BY <1>0 DEF AccessIsHeld, TabTypeOK, Sent, vars, table, request
<1>6. StoreIsOneUser'
  BY DEF StoreIsOneUser, SignedOut
<1> QED
  BY <1>1, <1>2, <1>3, <1>4, <1>5, <1>6 DEF TabPart

LEMMA ArriveKeepsTabPart ==
  ASSUME TabIInv, IInv', NEW r \in Requests,
         NEW endpoint \in {"login", "me", "refresh"},
         NEW step \in {"lookup", "load"}, NEW t, NEW u,
         NEW s \in {"asking", "refreshing"} \cup Forms,
         Arrive(r, endpoint, step, t, u), stage' = [stage EXCEPT ![r] = s],
         s \in Forms => endpoint = "login",
         s = "refreshing" => endpoint = "refresh",
         s = "asking" => step = "load" /\ u = carry[r],
         UNCHANGED <<cookie, view, carry, mounted>>,
         alone' \in BOOLEAN, moves' \in 0 .. MaxMoves
  PROVE  TabPart'
<1> USE DEF TabIInv
<1>1. TabTypeOK'
  BY DEF TabTypeOK, IInv, Stages, view
<1>2. /\ FreshIsOwn' /\ AnswersAreHeld' /\ TokensStay
      /\ pc'[r] = step /\ op'[r] = endpoint /\ who'[r] = u
      /\ \A q \in Requests \ {r} :
           pc'[q] = pc[q] /\ op'[q] = op[q] /\ who'[q] = who[q]
  BY ArriveFacts
<1>3. /\ stage'[r] = s /\ carry' = carry
      /\ \A q \in Requests \ {r} : stage'[q] = stage[q]
  BY DEF TabTypeOK
<1>4. SlotsFit'
  <2> SUFFICES ASSUME NEW q \in Requests
               PROVE  /\ pc'[q] # "revokeOne"
                      /\ stage'[q] = "refreshing" => op'[q] = "refresh"
                      /\ stage'[q] \in Forms => op'[q] = "login"
                      /\ stage'[q] = "asking" => /\ who'[q] = carry'[q]
                                    /\ pc'[q] \notin {"idle", "lookup"}
    BY DEF SlotsFit
  <2>1. CASE q = r
    BY <2>1, <1>2, <1>3
  <2>2. CASE q # r
    BY <2>2, <1>2, <1>3 DEF SlotsFit
  <2> QED
    BY <2>1, <2>2
<1>5. CookieIsHeld'
  BY <1>2 DEF CookieIsHeld, TokensStay
<1>6. AccessIsHeld'
  BY <1>2, <1>3 DEF AccessIsHeld, TokensStay, IInv, TypeOK
<1>7. StoreIsOneUser'
  BY DEF StoreIsOneUser, view
<1> QED
  BY <1>1, <1>2, <1>4, <1>5, <1>6, <1>7 DEF TabPart

LEMMA RequestKeepsTabPart ==
  ASSUME TabIInv, IInv', NEW r \in Requests,
         SubmitForm(r) \/ SubmitLink(r) \/ Send(r)
  PROVE  TabPart'
<1>1. CASE SubmitForm(r) \/ SubmitLink(r)
  <2>1. moves' \in 0 .. MaxMoves /\ alone' \in BOOLEAN
    <3>1. PICK form : Submit(r, form)
      BY <1>1 DEF SubmitForm, SubmitLink
    <3> QED
      BY <3>1, MovesAreCounted DEF Submit, Move, UseCookie, TabTypeOK, TabIInv
  <2> QED
    BY <1>1, <2>1, ArriveKeepsTabPart DEF SubmitForm, SubmitLink, Submit
<1>2. CASE SendRefresh(r)
  <2>1. moves' \in 0 .. MaxMoves /\ alone' \in BOOLEAN
    BY <1>2 DEF SendRefresh, UseCookie, TabTypeOK, TabIInv
  <2> QED
    BY <1>2, <2>1, ArriveKeepsTabPart DEF SendRefresh
<1>3. CASE SendMe(r)
  <2>1. moves' \in 0 .. MaxMoves /\ alone' \in BOOLEAN
    BY <1>3 DEF SendMe, TabTypeOK, TabIInv
  <2> QED
    BY <1>3, <2>1, ArriveKeepsTabPart DEF SendMe
<1> QED
  BY <1>1, <1>2, <1>3 DEF Send

LEMMA ServeKeepsTabPart ==
  ASSUME TabIInv, IInv', NEW r \in Requests, Serve(r)
  PROVE  TabPart'
<1> USE DEF TabIInv, Serve
<1>1. TabTypeOK'
  BY DEF TabTypeOK, IInv, view
<1>2. /\ FreshIsOwn' /\ AnswersAreHeld' /\ TokensStay
      /\ pc'[r] \notin {"idle", "lookup", "revokeOne"}
      /\ op' = op
      /\ pc[r] # "lookup" => who'[r] = who[r]
      /\ \A q \in Requests \ {r} : pc'[q] = pc[q] /\ who'[q] = who[q]
  BY HandleFacts
<1>3. SlotsFit'
  <2> SUFFICES ASSUME NEW q \in Requests
               PROVE  /\ pc'[q] # "revokeOne"
                      /\ stage'[q] = "refreshing" => op'[q] = "refresh"
                      /\ stage'[q] \in Forms => op'[q] = "login"
                      /\ stage'[q] = "asking" => /\ who'[q] = carry'[q]
                                    /\ pc'[q] \notin {"idle", "lookup"}
    BY DEF SlotsFit
  <2>1. UNCHANGED <<stage, carry>>
    OBVIOUS
  <2>2. CASE q = r
    BY <2>1, <2>2, <1>2 DEF SlotsFit
  <2>3. CASE q # r
    BY <2>1, <2>3, <1>2 DEF SlotsFit
  <2> QED
    BY <2>2, <2>3
<1>4. CookieIsHeld'
  BY <1>2 DEF CookieIsHeld, TokensStay
<1>5. AccessIsHeld'
  BY <1>2 DEF AccessIsHeld, TokensStay, IInv, TypeOK
<1>6. StoreIsOneUser'
  BY DEF StoreIsOneUser, view
<1> QED
  BY <1>1, <1>2, <1>3, <1>4, <1>5, <1>6 DEF TabPart

LEMMA AnswerKeepsTabPart ==
  ASSUME TabIInv, IInv', NEW r \in Requests,
         RefreshOk(r) \/ MeOk(r) \/ LoginOk(r) \/ Rejected(r) \/ Orphan(r)
  PROVE  TabPart'
<1> USE DEF TabIInv, RefreshOk, MeOk, LoginOk, Rejected, Orphan, Answered,
            Leave, Fail, Over, Error, Caught
<1>1. Clear(r)
  OBVIOUS
<1>2. /\ FreshIsOwn' /\ AnswersAreHeld' /\ TokensStay
      /\ pc'[r] = "idle" /\ held' = held /\ owner' = owner
      /\ \A q \in Requests \ {r} :
           pc'[q] = pc[q] /\ op'[q] = op[q] /\ who'[q] = who[q]
  BY <1>1, ClearFacts DEF Clear, table
<1>3. /\ stage'[r] \in {"none", "me"} /\ stage' \in [Requests -> Stages]
      /\ \A q \in Requests \ {r} : stage'[q] = stage[q] /\ carry'[q] = carry[q]
  BY DEF TabTypeOK, Stages
<1>4. carry' \in [Requests -> Users \cup {None}]
  BY DEF TabTypeOK, IInv, TypeOK
<1>5. cookie' = cookie \/ cookie' \in held
  BY DEF AnswersAreHeld, SlotsFit
<1>6. TabTypeOK'
  <2>1. TypeOK'
    BY DEF IInv
  <2>2. cookie' \in Tokens \cup {None}
    BY <1>5 DEF TabTypeOK, IInv, TypeOK
  <2>3. store' \in [token : Users \cup {None}, user : Users \cup {None}]
    BY DEF TabTypeOK, TypeOK, SignedOut, view
  <2>4. /\ shown' \in BOOLEAN /\ alone' \in BOOLEAN
        /\ page' \in Pages /\ next' \in Pages \cup {None}
        /\ mounted' \in Requests \cup {None} /\ moves' \in 0 .. MaxMoves
    BY DEF TabTypeOK, Pages, PushedBy, view
  <2> QED
    BY <1>3, <1>4, <2>1, <2>2, <2>3, <2>4 DEF TabTypeOK
<1>7. SlotsFit'
  BY <1>2, <1>3 DEF SlotsFit
<1>8. CookieIsHeld'
  BY <1>2, <1>5 DEF CookieIsHeld
<1>9. AccessIsHeld'
  <2> SUFFICES ASSUME NEW q \in Requests, stage'[q] = "me"
               PROVE  \E t \in held : owner[t] = carry'[q]
    BY <1>2 DEF AccessIsHeld
  <2>1. CASE q # r
    BY <2>1, <1>3 DEF AccessIsHeld
  <2>2. CASE q = r /\ RefreshOk(r)
    BY <2>2 DEF AccessIsHeld, AnswersAreHeld, SlotsFit, TabTypeOK, Stages
  <2>3. CASE q = r /\ ~RefreshOk(r)
    BY <2>3 DEF TabTypeOK, Stages
  <2> QED
    BY <2>1, <2>2, <2>3
<1>10. StoreIsOneUser'
  BY DEF StoreIsOneUser, SlotsFit, SignedOut, view
<1> QED
  BY <1>2, <1>6, <1>7, <1>8, <1>9, <1>10 DEF TabPart

LEMMA TabNextKeepsTabIInv == TabIInv /\ [TabNext]_tabVars => TabIInv'
<1> SUFFICES ASSUME TabIInv, [TabNext]_tabVars
             PROVE  TabIInv'
  OBVIOUS
<1>1. CASE TabNext
  <2>1. IInv'
    BY <1>1, TabStepIsServerStep, ServerKeepsIInv
  <2>2. TabPart'
    BY <1>1, <2>1, BrowserStepKeepsTabPart, RequestKeepsTabPart,
       ServeKeepsTabPart, AnswerKeepsTabPart DEF TabNext, Exchange
  <2> QED
    BY <2>1, <2>2 DEF TabIInv, TabPart
<1>2. CASE UNCHANGED tabVars
  <2>1. IInv'
    BY <1>2, ServerKeepsIInv DEF tabVars
  <2>2. TabPart'
    BY <1>2, <2>1 DEF tabVars, view, vars, table, request, TabIInv, IInv, TabPart,
       TabTypeOK, FreshIsOwn, AnswersAreHeld, SlotsFit, CookieIsHeld,
       AccessIsHeld, StoreIsOneUser
  <2> QED
    BY <2>1, <2>2 DEF TabIInv, TabPart
<1> QED
  BY <1>1, <1>2

\* The inductive invariant of the tab and the server holds in every state.
THEOREM TabInvariance == TabSpec => []TabIInv
BY InitTabIInv, TabNextKeepsTabIInv, PTL DEF TabSpec

(***************************************************************************)
(* The properties of WebSession.                                           *)
(***************************************************************************)

\* Every variable of the tab and the server keeps its type; in particular the
\* cookie is a refresh token and the store holds users (session-store.ts 13-36).
THEOREM TabTypeCorrect == TabSpec => []TabTypeOK
<1>1. TabIInv => TabTypeOK
  BY DEF TabIInv
<1> QED
  BY <1>1, TabInvariance, PTL

\* Whatever the user does and whichever exchanges break, the access token in
\* the store was signed for the user in the store (use-bootstrap-session.ts
\* 32-48, hooks.ts 34-46).
THEOREM StoreOfOneUser == TabSpec => []StoreIsOneUser
<1>1. TabIInv => StoreIsOneUser
  BY DEF TabIInv
<1> QED
  BY <1>1, TabInvariance, PTL

\* The tab in front of the server implements the server's specification, so
\* the theorems of RefreshTokensProofs hold of the two together (client.ts
\* 208-224 sends what RefreshTokens expects).
THEOREM TabImplementsServer == TabSpec => ServerRuns
<1>1. TabInit => Init
  BY DEF TabInit
<1>2. TabIInv /\ [TabNext]_tabVars => [Next]_vars
  BY TabStepIsServerStep DEF tabVars
<1> QED
  BY <1>1, <1>2, TabInvariance, PTL DEF TabSpec, ServerRuns, Spec

(***************************************************************************)
(* A tab whose uses of the cookie do not overlap                           *)
(***************************************************************************)
UsesCookie(r) == op[r] \in {"refresh", "login"}

OneUseAtATime ==
  alone => \A q, r \in Requests : UsesCookie(q) /\ UsesCookie(r) => q = r

StepsFit ==
  \A r \in Requests :
    pc[r] \in {"lookup", "revokeAll", "revokeOld", "create", "members"} => op[r] = "refresh"

\* The mounted effect is on its way; one that has not sent its refresh is the
\* mounted one.
MountedRuns ==
  /\ mounted # None => stage[mounted] \in {"refresh", "refreshing", "me", "asking"}
  /\ \A r \in Requests : stage[r] = "refresh" => mounted = r

\* The effect whose refresh the server is handling is still there to take the
\* answer, or another one is about to refresh, or nobody is signed in.
RefreshIsWatched ==
  alone => \A r \in Requests : op[r] = "refresh" =>
    \/ mounted = r /\ stage[r] = "refreshing"
    \/ mounted # None /\ stage[mounted] = "refresh"
    \/ mounted = None /\ store = SignedOut

Pending == mounted # None /\ stage[mounted] \in {"refresh", "refreshing"}

CookieIsLive ==
  alone /\ ~Pending /\ (store # SignedOut \/ mounted # None) => Live(cookie)

FreshIsLive ==
  alone => \A r \in Requests :
    /\ UsesCookie(r)
    /\ pc[r] \in {"members", "reply"} \/ (pc[r] = "done" /\ out[r] = "ok")
    => Live(fresh[r])

AloneInv ==
  /\ OneUseAtATime /\ StepsFit /\ MountedRuns
  /\ RefreshIsWatched /\ CookieIsLive /\ FreshIsLive

\* A server step that only begins, ends or forgets handlers.
LEMMA BrowserStepKeepsAlone ==
  ASSUME TabIInv, AloneInv,
         \/ Visit \/ Reload \/ NavigateNowhere \/ RedirectVerified \/ RedirectSignedOut
         \/ \E r \in Requests : Navigate(r)
  PROVE  AloneInv' /\ (alone' => alone)
<1> USE DEF Visit, Reload, NavigateNowhere, RedirectVerified, RedirectSignedOut, Push,
            Navigate, Move, TabIInv, AloneInv, TabTypeOK, UsesCookie
<1>1. UNCHANGED <<op, pc, out, fresh, rows, revoked, lapsed, cookie, alone>>
  BY DEF vars, table, request
<1>2. OneUseAtATime' /\ StepsFit' /\ FreshIsLive'
  BY <1>1 DEF OneUseAtATime, StepsFit, FreshIsLive, Live
<1>3. CASE Visit \/ NavigateNowhere \/ RedirectVerified \/ RedirectSignedOut
  BY <1>1, <1>2, <1>3 DEF MountedRuns, RefreshIsWatched, CookieIsLive, Pending, Live
<1>4. CASE Reload \/ \E r \in Requests : Navigate(r)
  <2>1. mounted' # None /\ stage'[mounted'] = "refresh"
    BY <1>4, SlotAssumption
  <2>2. MountedRuns'
    BY <1>4, <2>1 DEF MountedRuns, Sent
  <2>3. RefreshIsWatched' /\ CookieIsLive'
    BY <2>1 DEF RefreshIsWatched, CookieIsLive, Pending
  <2> QED BY <1>1, <1>2, <2>2, <2>3
<1> QED BY <1>3, <1>4

LEMMA ArriveKeepsAlone ==
  ASSUME TabIInv, AloneInv, NEW r \in Requests,
         NEW endpoint \in {"login", "me", "refresh"}, NEW step \in {"lookup", "load"},
         NEW t, NEW u, NEW s \in {"asking", "refreshing"} \cup Forms,
         Arrive(r, endpoint, step, t, u), stage' = [stage EXCEPT ![r] = s],
         UNCHANGED <<cookie, store, mounted>>,
         endpoint = "me" => UNCHANGED alone /\ s = "asking" /\ step = "load" /\ stage[r] = "me",
         endpoint # "me" => UseCookie,
         endpoint = "refresh" => stage[r] = "refresh" /\ s = "refreshing" /\ step = "lookup",
         endpoint = "login" => stage[r] = "none" /\ s \in Forms /\ step = "load"
  PROVE  AloneInv' /\ (alone' => alone)
<1> USE DEF TabIInv, AloneInv, TabTypeOK, IInv, TypeOK, UsesCookie
<1>1. /\ Arrive(r, endpoint, step, t, u)
      /\ stage' = [stage EXCEPT ![r] = s]
      /\ UNCHANGED <<cookie, store, mounted>>
      /\ endpoint = "me" => UNCHANGED alone /\ s = "asking" /\ step = "load" /\ stage[r] = "me"
      /\ endpoint # "me" => UseCookie
      /\ endpoint = "refresh" => stage[r] = "refresh" /\ s = "refreshing" /\ step = "lookup"
      /\ endpoint = "login" => stage[r] = "none" /\ s \in Forms /\ step = "load"
  OBVIOUS
<1>2. /\ op' = [op EXCEPT ![r] = endpoint] /\ pc' = [pc EXCEPT ![r] = step]
      /\ UNCHANGED <<rows, revoked, lapsed, fresh, out>>
  BY <1>1 DEF Arrive, Goto, table
<1>3. /\ alone' => alone
      /\ alone' /\ endpoint # "me" => \A q \in Requests : ~UsesCookie(q)
  <2>1. CASE endpoint = "me"
    BY <1>1, <2>1
  <2>2. CASE endpoint # "me"
    <3>1. alone' = (alone /\ \A q \in Requests : op[q] \notin {"refresh", "login"})
      BY <1>1, <2>2 DEF UseCookie
    <3> QED BY <3>1, Zenon
  <2> QED BY <2>1, <2>2
<1>4. OneUseAtATime'
  BY <1>1, <1>2, <1>3 DEF OneUseAtATime
<1>5. StepsFit'
  BY <1>1, <1>2 DEF StepsFit
<1>6. MountedRuns'
  BY <1>1 DEF MountedRuns
<1>7. RefreshIsWatched'
  <2> SUFFICES ASSUME alone', NEW q \in Requests, op'[q] = "refresh"
               PROVE  \/ mounted' = q /\ stage'[q] = "refreshing"
                      \/ mounted' # None /\ stage'[mounted'] = "refresh"
                      \/ mounted' = None /\ store' = SignedOut
    BY DEF RefreshIsWatched
  <2>1. CASE endpoint = "refresh"
    <3>1. q = r
      BY <1>2, <1>3, <2>1
    <3>2. mounted = r
      BY <1>1, <2>1 DEF MountedRuns
    <3> QED BY <1>1, <2>1, <3>1, <3>2
  <2>2. CASE endpoint = "login"
    BY <1>2, <1>3, <2>2
  <2>3. CASE endpoint = "me"
    <3>1. q # r /\ op[q] = "refresh"
      BY <1>2, <2>3
    <3>2. stage'[q] = stage[q] /\ (mounted # r => (mounted # None => stage'[mounted] = stage[mounted]))
      BY <1>1, <3>1
    <3> QED BY <1>1, <1>3, <2>3, <3>1, <3>2 DEF RefreshIsWatched
  <2> QED BY <2>1, <2>2, <2>3
<1>8. CookieIsLive'
  <2>1. ~Pending' => ~Pending
    BY <1>1 DEF Pending, MountedRuns
  <2> QED BY <1>1, <1>2, <1>3, <2>1 DEF CookieIsLive, Live
<1>9. FreshIsLive'
  BY <1>1, <1>2, <1>3 DEF FreshIsLive, Live
<1> QED BY <1>3, <1>4, <1>5, <1>6, <1>7, <1>8, <1>9

LEMMA RequestKeepsAlone ==
  ASSUME TabIInv, AloneInv, NEW r \in Requests,
         SubmitForm(r) \/ SubmitLink(r) \/ Send(r)
  PROVE  AloneInv' /\ (alone' => alone)
<1>1. CASE SubmitForm(r) \/ SubmitLink(r)
  <2>1. PICK form \in Forms : Submit(r, form)
    BY <1>1 DEF SubmitForm, SubmitLink
  <2>2. PICK u \in Users : Arrive(r, "login", "load", None, u)
    BY <2>1 DEF Submit
  <2>3. /\ stage' = [stage EXCEPT ![r] = form] /\ UNCHANGED <<cookie, store, mounted>>
        /\ UseCookie /\ stage[r] = "none"
    BY <2>1 DEF Submit, Free, view
  <2> QED BY <2>2, <2>3, ArriveKeepsAlone
<1>2. CASE SendRefresh(r)
  <2>1. Arrive(r, "refresh", "lookup", cookie, None)
    BY <1>2 DEF SendRefresh
  <2>2. /\ stage' = [stage EXCEPT ![r] = "refreshing"] /\ UNCHANGED <<cookie, store, mounted>>
        /\ UseCookie /\ stage[r] = "refresh"
    BY <1>2 DEF SendRefresh, view
  <2> QED BY <2>1, <2>2, ArriveKeepsAlone
<1>3. CASE SendMe(r)
  <2>1. Arrive(r, "me", "load", None, carry[r])
    BY <1>3 DEF SendMe
  <2>2. /\ stage' = [stage EXCEPT ![r] = "asking"] /\ UNCHANGED <<cookie, store, mounted, alone>>
        /\ stage[r] = "me"
    BY <1>3 DEF SendMe, view
  <2> QED BY <2>1, <2>2, ArriveKeepsAlone
<1> QED BY <1>1, <1>2, <1>3 DEF Send

LEMMA ServeKeepsAlone ==
  ASSUME TabIInv, AloneInv, NEW r \in Requests, Serve(r)
  PROVE  AloneInv' /\ (alone' => alone)
<1> USE DEF TabIInv, AloneInv, TabTypeOK, IInv, TypeOK, UsesCookie
<1>1. UNCHANGED <<op, lapsed, cookie, store, mounted, stage, alone>> /\ Handle(r)
  BY HandleFacts DEF Serve, view, Handle, Lookup, RevokeAll, RevokeOld, RevokePresented, Create, Members,
            RevokeOne, RevokeRows, Load, Mint, Insert, Reply, table
<1>2. OneUseAtATime' /\ MountedRuns' /\ RefreshIsWatched'
  BY <1>1 DEF OneUseAtATime, MountedRuns, RefreshIsWatched
<1>3. CASE RevokeAll(r) \/ RevokeOld(r)
  <2>1. /\ pc' = [pc EXCEPT ![r] = IF RevokeAll(r) THEN "done" ELSE "create"]
        /\ UNCHANGED fresh /\ op[r] = "refresh"
        /\ \A q \in Requests : q # r => out'[q] = out[q]
        /\ RevokeAll(r) => out'[r] = "reuse"
    BY <1>3 DEF RevokeAll, RevokeOld, RevokeRows, RevokePresented, Answer, Goto, StepsFit
  <2>2. StepsFit'
    BY <1>1, <2>1 DEF StepsFit
  <2>3. CookieIsLive'
    <3>1. alone => Pending \/ (mounted = None /\ store = SignedOut)
      BY <2>1, SlotAssumption DEF RefreshIsWatched, Pending
    <3> QED BY <1>1, <3>1 DEF CookieIsLive, Pending
  <2>4. FreshIsLive'
    BY <1>1, <2>1 DEF FreshIsLive, OneUseAtATime
  <2> QED BY <1>1, <1>2, <2>2, <2>3, <2>4
<1>4. CASE Create(r) \/ Mint(r)
  <2>1. PICK t \in Tokens \ rows : \E u, f, p : Insert(r, t, u, f, p)
    BY <1>4 DEF Create, Mint
  <2>2. /\ rows' = rows \cup {t} /\ revoked' = revoked /\ fresh' = [fresh EXCEPT ![r] = t]
        /\ out' = out
        /\ pc' = [pc EXCEPT ![r] = IF Create(r) THEN "members" ELSE "reply"]
        /\ Create(r) => op[r] = "refresh"
    BY <1>4, <2>1 DEF Insert, Create, Mint, Goto, StepsFit
  <2>3. t \notin revoked /\ t \notin lapsed
    BY <2>1
  <2>4. StepsFit'
    BY <1>1, <1>4, <2>2 DEF StepsFit
  <2>5. CookieIsLive'
    BY <1>1, <2>2 DEF CookieIsLive, Live, Pending
  <2>6. FreshIsLive'
    BY <1>1, <2>2, <2>3 DEF FreshIsLive, Live
  <2> QED BY <1>1, <1>2, <2>4, <2>5, <2>6
<1>5. CASE Lookup(r) \/ Members(r) \/ Load(r) \/ Reply(r)
  <2>1. UNCHANGED <<rows, revoked, fresh>>
    BY <1>5 DEF Lookup, Members, Load, Reply, table
  <2>2. StepsFit'
    BY <1>1, <1>5 DEF StepsFit, Lookup, Members, Load, Reply, Goto, Answer
  <2>3. CookieIsLive'
    BY <1>1, <2>1 DEF CookieIsLive, Live, Pending
  <2>4. FreshIsLive'
    BY <1>1, <1>5, <2>1 DEF FreshIsLive, Live, Lookup, Members, Load, Reply, Goto, Answer
  <2> QED BY <1>1, <1>2, <2>2, <2>3, <2>4
<1>6. ~RevokeOne(r)
  BY DEF RevokeOne, SlotsFit
<1> QED BY <1>1, <1>3, <1>4, <1>5, <1>6 DEF Handle

LEMMA AnswerKeepsAlone ==
  ASSUME TabIInv, AloneInv, NEW r \in Requests,
         RefreshOk(r) \/ MeOk(r) \/ LoginOk(r) \/ Rejected(r) \/ Disconnect(r) \/ Orphan(r)
  PROVE  AloneInv' /\ (alone' => alone)
<1> USE DEF TabIInv, AloneInv, TabTypeOK, IInv, TypeOK, UsesCookie
<1>1. /\ UNCHANGED <<rows, revoked, lapsed, alone>>
      /\ \A q \in Requests : q # r =>
           /\ op'[q] = op[q] /\ pc'[q] = pc[q] /\ out'[q] = out[q]
           /\ fresh'[q] = fresh[q] /\ stage'[q] = stage[q]
      /\ Disconnect(r) => UNCHANGED <<op, pc, out, fresh>>
      /\ ~Disconnect(r) => op'[r] = "none" /\ pc'[r] = "idle"
  BY DEF RefreshOk, MeOk, LoginOk, Rejected, Disconnect, Orphan, Leave, Fail, Clear, Goto,
         Over, Error, vars, table, request
<1>2. OneUseAtATime' /\ StepsFit' /\ FreshIsLive'
  BY <1>1 DEF OneUseAtATime, StepsFit, FreshIsLive, Live
<1>3. CASE RefreshOk(r)
  <2>1. /\ op[r] = "refresh" /\ cookie' = fresh[r] /\ UNCHANGED <<store, mounted>>
        /\ mounted = r => stage'[r] = "me"
        /\ mounted # r => stage'[r] = "none"
        /\ alone => Live(fresh[r])
    BY <1>3 DEF RefreshOk, Answered, SlotsFit, Over, FreshIsLive, view
  <2>2. MountedRuns'
    BY <1>1, <2>1 DEF MountedRuns
  <2>3. RefreshIsWatched'
    BY <1>1, <1>3, <2>1 DEF RefreshIsWatched, OneUseAtATime, RefreshOk, Leave, Clear
  <2>4. CookieIsLive'
    BY <1>1, <2>1 DEF CookieIsLive, Live
  <2> QED BY <1>1, <1>2, <2>2, <2>3, <2>4
<1>4. CASE MeOk(r)
  <2>1. /\ stage[r] = "asking" /\ stage'[r] = "none" /\ cookie' = cookie /\ op'[r] = "none"
        /\ mounted = r => mounted' = None
        /\ mounted # r => UNCHANGED <<store, mounted>>
    BY <1>4 DEF MeOk, Answered, Over, Leave, Clear
  <2>2. MountedRuns'
    BY <1>1, <2>1 DEF MountedRuns
  <2>3. RefreshIsWatched'
    BY <1>1, <2>1, SlotAssumption DEF RefreshIsWatched, MountedRuns
  <2>4. CookieIsLive'
    BY <1>1, <2>1, SlotAssumption DEF CookieIsLive, Live, Pending, MountedRuns
  <2> QED BY <1>1, <1>2, <2>2, <2>3, <2>4
<1>5. CASE LoginOk(r)
  <2>1. /\ op[r] = "login" /\ cookie' = fresh[r] /\ UNCHANGED mounted
        /\ stage[r] \in Forms /\ stage'[r] = "none" /\ op'[r] = "none"
        /\ alone => Live(fresh[r])
    BY <1>5 DEF LoginOk, Answered, SlotsFit, Over, FreshIsLive, Leave, Clear
  <2>2. MountedRuns'
    BY <1>1, <2>1 DEF MountedRuns
  <2>3. RefreshIsWatched'
    BY <1>1, <2>1 DEF RefreshIsWatched, OneUseAtATime
  <2>4. CookieIsLive'
    BY <1>1, <2>1 DEF CookieIsLive, Live
  <2> QED BY <1>1, <1>2, <2>2, <2>3, <2>4
<1>6. CASE Rejected(r) \/ Disconnect(r)
  <2>1. /\ stage'[r] = "none" /\ Waiting(r)
        /\ \/ mounted = r /\ mounted' = None /\ store' = SignedOut
           \/ mounted # r /\ UNCHANGED <<store, mounted>>
        /\ \/ cookie' = cookie
           \/ cookie' = fresh[r] /\ (alone => Live(fresh[r]))
    BY <1>6 DEF Rejected, Disconnect, Error, Caught, Over, Waiting, Answered, SlotsFit, FreshIsLive
  <2>2. MountedRuns'
    BY <1>1, <2>1 DEF MountedRuns
  <2>3. RefreshIsWatched'
    BY <1>1, <2>1 DEF RefreshIsWatched
  <2>4. CookieIsLive'
    BY <1>1, <2>1 DEF CookieIsLive, Live, Pending
  <2> QED BY <1>1, <1>2, <2>2, <2>3, <2>4
<1>7. CASE Orphan(r)
  <2>1. UNCHANGED <<cookie, store, mounted, stage>> /\ op'[r] = "none"
    BY <1>7 DEF Orphan, Leave, Fail, Clear, view
  <2>2. MountedRuns' /\ RefreshIsWatched' /\ CookieIsLive'
    BY <1>1, <2>1 DEF MountedRuns, RefreshIsWatched, CookieIsLive, Live, Pending
  <2> QED BY <1>1, <1>2, <2>2
<1> QED BY <1>3, <1>4, <1>5, <1>6, <1>7

LEMMA TabNextKeepsAlone ==
  TabIInv /\ AloneInv /\ [TabNext]_tabVars => AloneInv' /\ (alone' => alone)
<1> SUFFICES ASSUME TabIInv, AloneInv, [TabNext]_tabVars
             PROVE  AloneInv' /\ (alone' => alone)
  OBVIOUS
<1>1. CASE TabNext
  BY <1>1, BrowserStepKeepsAlone, RequestKeepsAlone, ServeKeepsAlone, AnswerKeepsAlone
     DEF TabNext, Exchange
<1>2. CASE UNCHANGED tabVars
  BY <1>2 DEF tabVars, view, vars, table, request, AloneInv, OneUseAtATime, StepsFit,
       MountedRuns, RefreshIsWatched, CookieIsLive, FreshIsLive, Pending, Live, UsesCookie
<1> QED BY <1>1, <1>2

THEOREM AloneInvariance == TabSpec => []AloneInv
<1>1. TabInit => AloneInv
  BY SlotAssumption DEF TabInit, Init, AloneInv, OneUseAtATime, StepsFit, MountedRuns, RefreshIsWatched,
         CookieIsLive, FreshIsLive, Pending, UsesCookie
<1> QED BY <1>1, TabNextKeepsAlone, TabInvariance, PTL DEF TabSpec

\* A tab that has never overlapped two uses of its cookie shows somebody as
\* signed in, once it is at rest, only with a cookie the next refresh accepts
\* (use-bootstrap-session.ts 26-75), wherever exchanges and handlers broke off.
THEOREM SignedInTabsCanRefresh == TabSpec => []SignedInCanRefresh
<1>1. TabIInv /\ AloneInv => SignedInCanRefresh
  BY NoneAssumption DEF SignedInCanRefresh, AloneInv, TabIInv, TabTypeOK, IInv, TypeOK, CookieIsLive,
     MountedRuns, Rest, Free, Pending, Live
<1> QED BY <1>1, TabInvariance, AloneInvariance, PTL

\* For such a tab rotation does what it is for: a session never has two usable
\* tokens (auth.service.ts 430-541).
THEOREM AloneTabKeepsOneToken == TabSpec => []AloneKeepsOneToken
<1>1. TabInit => SInv
  BY DEF TabInit, Init, SInv, RotationIsExclusive, OneLiveTokenPerSession
<1>2. TabIInv /\ AloneInv /\ AloneInv' /\ FamiliesAreRooted /\ (alone => SInv) /\ [TabNext]_tabVars
        => (alone' => SInv')
  <2> SUFFICES ASSUME TabIInv, AloneInv, FamiliesAreRooted, alone => SInv, [TabNext]_tabVars, alone'
               PROVE  SInv'
    OBVIOUS
  <2>1. alone
    BY TabNextKeepsAlone
  <2>2. OneRefreshAtATime /\ RotatorsRefresh
    BY <2>1 DEF AloneInv, OneUseAtATime, UsesCookie, StepsFit, OneRefreshAtATime, RotatorsRefresh
  <2>3. [Next]_vars
    BY TabStepIsServerStep DEF tabVars
  <2>4. CASE Next
    BY <2>1, <2>2, <2>4, OneRefreshStep DEF TabIInv
  <2>5. CASE UNCHANGED vars
    BY <2>1, <2>5 DEF vars, table, request, SInv, RotationIsExclusive, OneLiveTokenPerSession, Active, Live
  <2> QED BY <2>3, <2>4, <2>5
<1>3. TabSpec => []FamiliesAreRooted
  BY TabImplementsServer, Rooted, PTL DEF ServerRuns
<1>4. (alone => SInv) => AloneKeepsOneToken
  BY DEF AloneKeepsOneToken, SInv
<1> QED BY <1>1, <1>2, <1>3, <1>4, TabInvariance, AloneInvariance, PTL DEF TabSpec

\* Through the tab, too, no token is revoked but on account of a token of the
\* same user that was presented (auth.service.ts 463-473).
THEOREM TabRevokesPerUser == TabSpec => RevocationStaysWithUser
BY TabImplementsServer, RevocationIsPerUser, PTL DEF ServerRuns

\* Behind the tab a rotated token is never usable next to its successor, a
\* revoked one never yields another, and the answer to reuse comes after the
\* revocation, also when fetches break and their handlers go on alone.
THEOREM TabKeepsRotation ==
  TabSpec => [](RotationRetiresParent /\ RevokedTokenNeverRotates /\ ReuseRevokesOlderTokens)
BY TabImplementsServer, ParentsAreRetired, RevokedNeverRotates, ReuseRevokes, PTL DEF ServerRuns

\* The sessions of a tab follow the life of a session: the implementation by
\* the tokens carries over to the composition with the browser.
THEOREM TabSessionsFollowLifecycle == TabSpec => SessionsFollowLifecycle
BY TabImplementsServer, Refinement, PTL DEF ServerRuns

\* An ended session is over for the tab as well: no exchange that is repeated,
\* broken off or late brings it back.
THEOREM TabSessionsStayEnded ==
  ASSUME NEW s \in Tokens
  PROVE  TabSpec => [](Ended(s) => []Ended(s))
BY TabImplementsServer, EndedForever, PTL DEF ServerRuns

\* The handlers behind the tab rotate within a session of one user, end the
\* sessions of a user whose token is reused, and answer two presentations of a
\* cookie with new ones only if they overlap.
THEOREM TabPresentsToServer ==
  TabSpec => [](SessionsHaveOneUser /\ AnsweredTwiceOverlap) /\ ReuseLogsOut
BY TabImplementsServer, SessionsStayWithUser, OnlyOverlapAnswersTwice, ReuseEndsSessions,
   PTL DEF ServerRuns
=============================================================================
