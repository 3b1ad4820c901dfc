----------------------------- MODULE WebSession -----------------------------
(***************************************************************************)
(* One browser tab of apps/web in front of the handlers of RefreshTokens:  *)
(* the session store, the refresh cookie, the pages, the login forms and   *)
(* the effect useBootstrapSession, which runs POST /auth/refresh and then  *)
(* GET /auth/me on a reload and again whenever the pathname changes.       *)
(*                                                                         *)
(* The server's part of every step is an action of RefreshTokens.  A fetch *)
(* can end in an error while its handler goes on.  An access token is      *)
(* represented by the user it was signed for.                              *)
(***************************************************************************)
EXTENDS RefreshTokens, Naturals

CONSTANT MaxMoves   \* bound on what the user does in the runs

ASSUME MovesAreCounted == MaxMoves \in Nat
ASSUME SlotAssumption == None \notin Requests

VARIABLES
  cookie,     \* the refresh_token cookie, None without one
  store,      \* the session store: accessToken and user
  shown,      \* isBootstrapped: SessionBootstrap renders its children
  page,       \* the pathname
  next,       \* where router.push, a link or the back button leads, or None
  stage,      \* stage[r]  : what the tab waits for, or will send, in slot r
  carry,      \* carry[r]  : the access token the effect in slot r has got
  mounted,    \* the slot of the effect that is mounted and not over, or None
  moves,      \* what the user has done so far
  alone       \* no two uses of the cookie have overlapped (history)

view == <<store, shown, page, next>>
tabVars == <<vars, cookie, view, stage, carry, mounted, moves, alone>>

\* A form of the login, signup or invite page, or the one of the verify page.
Forms == {"login", "verify"}
Stages == {"none", "refresh", "refreshing", "me", "asking"} \cup Forms

\* "/login" stands for "/signup" and "/invite" too.
Pages == {"/", "/login", "/verify", "/orgs/new"}
AuthPages == {"/login", "/verify"}

SignedOut == [token |-> None, user |-> None]

TabTypeOK ==
  /\ TypeOK
  /\ cookie \in Tokens \cup {None}
  /\ store \in [token : Users \cup {None}, user : Users \cup {None}]
  /\ shown \in BOOLEAN
  /\ page \in Pages /\ next \in Pages \cup {None}
  /\ stage \in [Requests -> Stages]
  /\ carry \in [Requests -> Users \cup {None}]
  /\ mounted \in Requests \cup {None}
  /\ moves \in 0 .. MaxMoves /\ alone \in BOOLEAN

\* The first load of the page: the effect is mounted and will refresh.
TabInit ==
  /\ Init
  /\ cookie = None /\ store = SignedOut /\ shown = FALSE
  /\ page \in Pages /\ next = None
  /\ mounted \in Requests
  /\ stage = [r \in Requests |-> IF r = mounted THEN "refresh" ELSE "none"]
  /\ carry = [r \in Requests |-> None]
  /\ moves = 0 /\ alone = TRUE

Free(r) == stage[r] = "none" /\ pc[r] = "idle"
Waiting(r) == stage[r] \in {"refreshing", "asking"} \cup Forms

\* JavaScript runs to completion: what a slot is about to send goes out before
\* anything else happens in the tab.
Sent == \A r \in Requests : stage[r] \notin {"refresh", "me"}

\* A refresh or a login is sent; another one may not have ended yet.
UseCookie ==
  alone' = (alone /\ \A r \in Requests : op[r] \notin {"refresh", "login"})

\* Nothing is in flight, here or in the server, and the page stands.
Rest ==
  /\ shown /\ next = None
  /\ \A r \in Requests : Free(r)

(***************************************************************************)
(* The user                                                                *)
(***************************************************************************)
Move == Sent /\ moves < MaxMoves /\ moves' = moves + 1

\* A link, or the back button.
Visit ==
  /\ Move
  /\ \E p \in Pages \ {page} : next' = p
  /\ UNCHANGED <<vars, cookie, store, shown, page, stage, carry, mounted,
                 alone>>

\* A hard reload drops the store and aborts every fetch; their handlers go on.
Reload ==
  /\ Move
  /\ \E r \in Requests :
       /\ pc[r] = "idle"
       /\ mounted' = r
       /\ stage' = [q \in Requests |-> IF q = r THEN "refresh" ELSE "none"]
  /\ store' = SignedOut /\ shown' = FALSE /\ next' = None
  /\ carry' = [r \in Requests |-> None]
  /\ UNCHANGED <<vars, cookie, page, alone>>

\* Credentials or a link of some user are submitted.
Submit(r, form) ==
  /\ Move
  /\ shown
  /\ Free(r)
  /\ \E u \in Users : Arrive(r, "login", "load", None, u)
  /\ UseCookie
  /\ stage' = [stage EXCEPT ![r] = form]
  /\ UNCHANGED <<cookie, view, carry, mounted>>

\* useLogin and useAcceptInvite; the button is disabled while a submission runs.
SubmitForm(r) ==
  /\ page = "/login" /\ \A q \in Requests : stage[q] # "login"
  /\ Submit(r, "login")

\* The effect of the verify page submits the token of its link while nobody is
\* signed in.  It depends on the mutation object, which every render renews, so
\* it submits again, also while a submission runs and after one that failed.
\* How often is bounded with the moves of the user.
SubmitLink(r) == page = "/verify" /\ store = SignedOut /\ Submit(r, "verify")

(***************************************************************************)
(* The pages                                                               *)
(***************************************************************************)

\* The pathname changes: the old effect is unmounted and another one starts.
Navigate(r) ==
  /\ Sent /\ next \notin {None, page} /\ Free(r)
  /\ page' = next /\ next' = None
  /\ mounted' = r
  /\ stage' = [stage EXCEPT ![r] = "refresh"]
  /\ UNCHANGED <<vars, cookie, store, shown, carry, moves, alone>>

\* A push to the page one is on changes nothing.
NavigateNowhere ==
  /\ Sent /\ next = page /\ next' = None
  /\ UNCHANGED <<vars, cookie, store, shown, page, stage, carry, mounted, moves, alone>>

\* An effect of a page pushes another one.
Push(p) ==
  /\ Sent /\ shown /\ next = None
  /\ next' = p
  /\ UNCHANGED <<vars, cookie, store, shown, page, stage, carry, mounted, moves, alone>>

\* The verify page sends the signed-in home, the new-organization page the
\* signed-out to the login page.
RedirectVerified  == page = "/verify" /\ store # SignedOut /\ Push("/")
RedirectSignedOut == page = "/orgs/new" /\ store = SignedOut /\ Push("/login")

(***************************************************************************)
(* The effect sends its two requests                                       *)
(***************************************************************************)
SendRefresh(r) ==
  /\ stage[r] = "refresh"
  /\ Arrive(r, "refresh", "lookup", cookie, None)
  /\ UseCookie
  /\ stage' = [stage EXCEPT ![r] = "refreshing"]
  /\ UNCHANGED <<cookie, view, carry, mounted, moves>>

\* A mutant: GET /auth/me takes the access token of the store when it has one.
SendMeFromStore(r) ==
  /\ stage[r] = "me"
  /\ Arrive(r, "me", "load", None,
                   IF store.token # None THEN store.token ELSE carry[r])
  /\ stage' = [stage EXCEPT ![r] = "asking"]
  /\ UNCHANGED <<cookie, view, carry, mounted, moves, alone>>

SendMe(r) ==
  /\ stage[r] = "me"
  /\ Arrive(r, "me", "load", None, carry[r])
  /\ stage' = [stage EXCEPT ![r] = "asking"]
  /\ UNCHANGED <<cookie, view, carry, mounted, moves, alone>>

\* Random tokens are interchangeable: a new row takes the next unused one.
InOrder == \A t \in rows' \ rows : t = CHOOSE x \in Tokens : x \notin rows

Serve(r) ==
  /\ Handle(r) /\ InOrder
  /\ UNCHANGED <<cookie, view, stage, carry, mounted, moves, alone>>

(***************************************************************************)
(* Answers                                                                 *)
(***************************************************************************)
Answered(r, step) ==
  Sent /\ stage[r] = step /\ pc[r] = "done" /\ out[r] = "ok"

Over(r) ==
  /\ stage' = [stage EXCEPT ![r] = "none"]
  /\ carry' = [carry EXCEPT ![r] = None]

\* A mutant: the wrong field of the answer is taken for the access token.
RefreshOkWrongField(r) ==
  /\ Answered(r, "refreshing")
  /\ Leave(r)
  /\ cookie' = fresh[r]
  /\ stage' = [stage EXCEPT ![r] = "me"]
  /\ carry' = [carry EXCEPT ![r] = fresh[r]]
  /\ UNCHANGED <<view, mounted, moves, alone>>

RefreshOk(r) ==
  /\ Answered(r, "refreshing")
  /\ Leave(r)
  /\ cookie' = fresh[r]
  /\ IF mounted = r
       THEN /\ stage' = [stage EXCEPT ![r] = "me"]
            /\ carry' = [carry EXCEPT ![r] = who[r]]
       ELSE Over(r)
  /\ UNCHANGED <<view, mounted, moves, alone>>

\* A mutant: the cookie of the token that getMe mints is sent too.
MeOkWithCookie(r) ==
  /\ Answered(r, "asking")
  /\ Leave(r) /\ Over(r)
  /\ cookie' = fresh[r]
  /\ UNCHANGED <<view, mounted, moves, alone>>

MeOk(r) ==
  /\ Answered(r, "asking")
  /\ Leave(r) /\ Over(r)
  /\ IF mounted = r
       THEN /\ store' = [token |-> carry[r], user |-> who[r]]
            /\ shown' = TRUE /\ mounted' = None
       ELSE UNCHANGED <<store, shown, mounted>>
  /\ UNCHANGED <<cookie, page, next, moves, alone>>

\* The other forms push when their mutation has succeeded, the verify page
\* leaves that to its effect, if it is still there.
PushedBy(form) == IF form = "verify" THEN next ELSE "/"

\* The mutation outlives its page.
LoginOk(r) ==
  /\ stage[r] \in Forms /\ Answered(r, stage[r])
  /\ Leave(r) /\ Over(r)
  /\ cookie' = fresh[r]
  /\ store' = [token |-> who[r], user |-> who[r]]
  /\ next' = PushedBy(stage[r])
  /\ UNCHANGED <<shown, page, mounted, moves, alone>>

\* A mutant: the failed effect leaves the store alone.
CaughtWithoutClear(r) ==
  /\ mounted = r /\ mounted' = None /\ shown' = TRUE
  /\ next' = IF page \in AuthPages THEN next ELSE "/login"
  /\ UNCHANGED store

\* A mutant: the failed effect of a page that is not guarded stays dark.
CaughtWithoutShowing(r) ==
  /\ mounted = r /\ mounted' = None /\ store' = SignedOut
  /\ next' = IF page \in AuthPages THEN next ELSE "/login"
  /\ UNCHANGED shown

\* The catch branch of the mounted effect.
Caught(r) ==
  /\ mounted = r /\ mounted' = None
  /\ store' = SignedOut /\ shown' = TRUE
  /\ next' = IF page \in AuthPages THEN next ELSE "/login"

\* An error reaches the code that waits in slot r.  A form shows it, an effect
\* that is no longer mounted ignores it.
Error(r) ==
  /\ Over(r)
  /\ \/ Caught(r)
     \/ mounted # r /\ UNCHANGED <<store, shown, next, mounted>>
  /\ UNCHANGED <<page, moves, alone>>

Rejected(r) ==
  /\ Sent /\ Waiting(r) /\ pc[r] = "done" /\ out[r] # "ok"
  /\ Leave(r) /\ Error(r)
  /\ UNCHANGED cookie

\* The connection breaks, before or after the headers of an answer have come;
\* the handler goes on.
Disconnect(r) ==
  /\ Sent /\ Waiting(r) /\ Error(r)
  /\ \/ UNCHANGED cookie
     \/ /\ stage[r] # "asking" /\ Answered(r, stage[r])
        /\ cookie' = fresh[r]
  /\ UNCHANGED vars

\* A handler nobody waits for ends or stops.
Orphan(r) ==
  /\ stage[r] = "none"
  /\ Leave(r) \/ Fail(r)
  /\ UNCHANGED <<cookie, view, stage, carry, mounted, moves, alone>>

(***************************************************************************)
(* The specification                                                       *)
(***************************************************************************)
Send(r) == SendRefresh(r) \/ SendMe(r)

Exchange(r) ==
  \/ Serve(r) \/ RefreshOk(r) \/ MeOk(r) \/ LoginOk(r)
  \/ Rejected(r) \/ Disconnect(r) \/ Orphan(r)

TabNext ==
  \/ Visit \/ Reload \/ NavigateNowhere \/ RedirectVerified \/ RedirectSignedOut
  \/ \E r \in Requests :
       SubmitForm(r) \/ SubmitLink(r) \/ Navigate(r) \/ Send(r) \/ Exchange(r)

TabSpec == TabInit /\ [][TabNext]_tabVars

\* The browser's event loop runs, and every fetch is answered or breaks.
FairTabSpec ==
  /\ TabSpec
  /\ WF_tabVars(NavigateNowhere \/ RedirectVerified \/ RedirectSignedOut
                  \/ \E r \in Requests : Navigate(r))
  /\ \A r \in Requests : WF_tabVars(Send(r)) /\ WF_tabVars(Exchange(r))

(***************************************************************************)
(* Properties                                                              *)
(***************************************************************************)

\* The access token in the store was signed for the user in the store, also
\* when a login as somebody else overtakes the effect between its two requests
\* (use-bootstrap-session.ts 32-48, hooks.ts 34-46).
StoreIsOneUser == store.token = store.user

\* As long as no refresh or login is sent before the handler of the one before
\* has ended, a tab at rest shows somebody as signed in only with a cookie that
\* the next refresh will accept, however many exchanges break and handlers stop
\* half-way (use-bootstrap-session.ts 26-75).
SignedInCanRefresh ==
  alone /\ Rest /\ store # SignedOut => cookie # None /\ Live(cookie)

\* As long as no two uses of the cookie overlap, a session has at most one
\* usable refresh token, although the tab also asks for GET /auth/me meanwhile
\* and a user may sign in twice (auth.service.ts 430-541).
AloneKeepsOneToken == alone => OneLiveTokenPerSession

\* Once the user stops, the tab shows a page and stays there: failed effects
\* and redirects do not chase each other.
Settles == <>[](shown /\ next = None /\ mounted = None)

\* The tab gives the server nothing to do that RefreshTokens has not: every
\* cookie it presents was sent to it.
ServerRuns == Spec
=============================================================================
