--------------------------- MODULE RefreshTokens ---------------------------
(***************************************************************************)
(* The refresh_tokens table and the handlers of apps/api that read and     *)
(* write it: AuthService.refresh, .logout and .buildLoginResponse (reached *)
(* from login, verify-email, accept-invitation and GET /auth/me).          *)
(*                                                                         *)
(* Node runs the handlers concurrently: each awaited withPlatform call is  *)
(* one database transaction and one action here, and the handlers of other *)
(* requests may run between two of them.  A handler can stop between any   *)
(* two of its steps (the process dies, the connection drops).              *)
(*                                                                         *)
(* Tokens stands for both the plaintext and its hash: sha256 is taken to   *)
(* be injective and 32 random bytes to be fresh.  Passing time is lapse:   *)
(* expiresAt < now, once true of a row, stays true.                        *)
(***************************************************************************)
EXTENDS FiniteSets

CONSTANTS
  Tokens,     \* refresh tokens that can ever be generated (bounds the runs)
  Users,
  Requests,   \* handler executions that can be in flight together
  None        \* "no token" and "no user"

ASSUME NoneAssumption == None \notin Tokens /\ None \notin Users

VARIABLES
  rows,       \* tokens with a row in refresh_tokens
  owner,      \* owner[t]   : RefreshToken.userId
  revoked,    \* tokens whose row has revokedAt set
  lapsed,     \* tokens whose expiresAt is in the past
  members,    \* users that have at least one membership
  held,       \* tokens some client has received in a Set-Cookie
  family,     \* family[t]  : the first token of t's session
  parent,     \* parent[t]  : the token t was rotated from, None after a login
  pc,         \* pc[r]      : the next step of request r
  op,         \* op[r]      : the endpoint r calls
  tok,        \* tok[r]     : the refresh_token cookie r presented
  who,        \* who[r]     : the user r acts for, once known
  fresh,      \* fresh[r]   : the token r has created
  out,        \* out[r]     : how r was answered
  rowsAt,     \* rowsAt[r]  : rows when refresh r arrived (history)
  stale       \* stale[r]   : r arrived with a revoked token (history)

table == <<rows, owner, revoked, family, parent>>
request == <<pc, op, tok, who, fresh, out, rowsAt, stale>>
vars == <<table, lapsed, members, held, request>>

Steps == {"idle", "lookup", "revokeAll", "revokeOld", "create", "members",
          "revokeOne", "load", "mint", "reply", "done"}
Endpoints == {"none", "login", "me", "refresh", "logout"}
Answers == {"none", "ok", "unauthorized", "reuse", "noOrg"}

TypeOK ==
  /\ rows \subseteq Tokens
  /\ owner \in [Tokens -> Users \cup {None}]
  /\ revoked \subseteq rows
  /\ lapsed \subseteq rows
  /\ members \subseteq Users
  /\ held \subseteq rows
  /\ family \in [Tokens -> Tokens \cup {None}]
  /\ parent \in [Tokens -> Tokens \cup {None}]
  /\ pc \in [Requests -> Steps]
  /\ op \in [Requests -> Endpoints]
  /\ tok \in [Requests -> Tokens \cup {None}]
  /\ who \in [Requests -> Users \cup {None}]
  /\ fresh \in [Requests -> Tokens \cup {None}]
  /\ out \in [Requests -> Answers]
  /\ rowsAt \in [Requests -> SUBSET Tokens]
  /\ stale \in [Requests -> BOOLEAN]

Init ==
  /\ rows = {} /\ revoked = {} /\ lapsed = {} /\ held = {}
  /\ owner = [t \in Tokens |-> None]
  /\ members = Users
  /\ family = [t \in Tokens |-> None]
  /\ parent = [t \in Tokens |-> None]
  /\ pc = [r \in Requests |-> "idle"]
  /\ op = [r \in Requests |-> "none"]
  /\ tok = [r \in Requests |-> None]
  /\ who = [r \in Requests |-> None]
  /\ fresh = [r \in Requests |-> None]
  /\ out = [r \in Requests |-> "none"]
  /\ rowsAt = [r \in Requests |-> {}]
  /\ stale = [r \in Requests |-> FALSE]

\* A token the server would accept now.
Live(t) == t \in rows /\ t \notin revoked /\ t \notin lapsed

(***************************************************************************)
(* Requests arrive, are answered and leave.                                *)
(***************************************************************************)
Goto(r, step) == pc' = [pc EXCEPT ![r] = step]

Answer(r, answer) == /\ Goto(r, "done")
                     /\ out' = [out EXCEPT ![r] = answer]

Arrive(r, endpoint, step, t, u) ==
  /\ pc[r] = "idle"
  /\ Goto(r, step)
  /\ op' = [op EXCEPT ![r] = endpoint]
  /\ tok' = [tok EXCEPT ![r] = t]
  /\ who' = [who EXCEPT ![r] = u]
  /\ rowsAt' = [rowsAt EXCEPT ![r] = IF endpoint = "refresh" THEN rows ELSE {}]
  /\ stale' = [stale EXCEPT ![r] = endpoint = "refresh" /\ t \in revoked]
  /\ UNCHANGED <<table, lapsed, members, held, fresh, out>>

\* Credentials were checked (AuthService.login), or a verification link or
\* an invitation was: all three continue in buildLoginResponse.
BeginLogin(r) == \E u \in Users : Arrive(r, "login", "load", None, u)

\* GET /auth/me with an access token, which came with some refresh token.
BeginMe(r) == \E t \in held : Arrive(r, "me", "load", None, owner[t])

\* POST /auth/refresh: whatever cookie the browser still has is presented;
\* None stands for one the server never issued.
BeginRefresh(r) ==
  \E t \in held \cup {None} : Arrive(r, "refresh", "lookup", t, None)

\* POST /auth/logout behind JwtAuthGuard, so somebody is logged in; the cookie
\* may be missing, and nothing ties it to the user of the access token.
BeginLogout(r) ==
  /\ held # {}
  /\ \E t \in held \cup {None} : Arrive(r, "logout", "revokeOne", t, None)

Clear(r) ==
  /\ Goto(r, "idle")
  /\ op' = [op EXCEPT ![r] = "none"]
  /\ tok' = [tok EXCEPT ![r] = None]
  /\ who' = [who EXCEPT ![r] = None]
  /\ fresh' = [fresh EXCEPT ![r] = None]
  /\ out' = [out EXCEPT ![r] = "none"]
  /\ rowsAt' = [rowsAt EXCEPT ![r] = {}]
  /\ stale' = [stale EXCEPT ![r] = FALSE]
  /\ UNCHANGED <<table, lapsed, members, held>>

\* The answered request leaves and its slot serves another one.
Leave(r) == pc[r] = "done" /\ Clear(r)

\* The handler stops where it is and answers nothing; committed transactions
\* stay.
Fail(r) == pc[r] \notin {"idle", "done"} /\ Clear(r)

(***************************************************************************)
(* AuthService.refresh                                                     *)
(***************************************************************************)

\* A mutant: the reuse branch is missing.
LookupWithoutReuse(r) ==
  /\ pc[r] = "lookup"
  /\ who' = [who EXCEPT ![r] = IF tok[r] \in rows THEN owner[tok[r]] ELSE None]
  /\ IF tok[r] \in rows \ lapsed
       THEN Goto(r, "revokeOld") /\ UNCHANGED out
       ELSE Answer(r, "unauthorized")
  /\ UNCHANGED <<table, lapsed, members, held, op, tok, fresh, rowsAt, stale>>

\* findUnique by hash, then the three early exits in the order of the code.
Lookup(r) ==
  /\ pc[r] = "lookup"
  /\ who' = [who EXCEPT ![r] = IF tok[r] \in rows THEN owner[tok[r]] ELSE None]
  /\ \/ /\ tok[r] \notin rows \/ tok[r] \in lapsed
        /\ Answer(r, "unauthorized")
     \/ /\ tok[r] \in rows /\ tok[r] \notin lapsed /\ tok[r] \in revoked
        /\ Goto(r, "revokeAll") /\ UNCHANGED out
     \/ /\ Live(tok[r])
        /\ Goto(r, "revokeOld") /\ UNCHANGED out
  /\ UNCHANGED <<table, lapsed, members, held, op, tok, fresh, rowsAt, stale>>

RevokeRows(r, some, answer) ==
  /\ revoked' = revoked \cup some
  /\ Answer(r, answer)
  /\ UNCHANGED <<rows, owner, family, parent, lapsed, members, held,
                 op, tok, who, fresh, rowsAt, stale>>

\* Mutants: update by id instead of by userId; no userId filter at all.
RevokeAllById(r) == pc[r] = "revokeAll" /\ RevokeRows(r, {tok[r]}, "reuse")
RevokeAllUsers(r) == pc[r] = "revokeAll" /\ RevokeRows(r, rows, "reuse")

\* updateMany over the user's rows with revokedAt null, then the 401.
RevokeAll(r) ==
  /\ pc[r] = "revokeAll"
  /\ RevokeRows(r, {t \in rows : owner[t] = who[r]}, "reuse")

RevokePresented(r, some) ==
  /\ pc[r] = "revokeOld"
  /\ revoked' = revoked \cup some
  /\ Goto(r, "create")
  /\ UNCHANGED <<rows, owner, family, parent, lapsed, members, held,
                 op, tok, who, fresh, out, rowsAt, stale>>

\* A mutant: the presented token stays usable.
RevokeOldForgotten(r) == RevokePresented(r, {})

\* update by id: it does not ask whether revokedAt is still null.
RevokeOld(r) == RevokePresented(r, {tok[r]})

\* refreshToken.create: a new row for user u, continuing session f.
Insert(r, t, u, f, p) ==
  /\ rows' = rows \cup {t}
  /\ owner' = [owner EXCEPT ![t] = u]
  /\ family' = [family EXCEPT ![t] = f]
  /\ parent' = [parent EXCEPT ![t] = p]
  /\ fresh' = [fresh EXCEPT ![r] = t]
  /\ UNCHANGED <<revoked, lapsed, members, held,
                 op, tok, who, out, rowsAt, stale>>

Create(r) ==
  /\ pc[r] = "create"
  /\ \E t \in Tokens \ rows : Insert(r, t, who[r], family[tok[r]], tok[r])
  /\ Goto(r, "members")

\* The membership read comes last, after the row exists: a user without
\* memberships gets a 422 and never sees the new token.
Members(r) ==
  /\ pc[r] = "members"
  /\ \/ /\ who[r] \in members /\ Answer(r, "ok")
        /\ held' = held \cup {fresh[r]}
     \/ /\ who[r] \notin members /\ Answer(r, "noOrg")
        /\ UNCHANGED held
  /\ UNCHANGED <<table, lapsed, members, op, tok, who, fresh, rowsAt, stale>>

(***************************************************************************)
(* AuthService.logout: find and update in one transaction.  The denylist   *)
(* write that follows is in AccessTokens.                                  *)
(***************************************************************************)
\* A mutant: update without looking whether the row exists.
RevokeOneUnchecked(r) == pc[r] = "revokeOne" /\ RevokeRows(r, {tok[r]}, "ok")

RevokeOne(r) == pc[r] = "revokeOne" /\ RevokeRows(r, {tok[r]} \cap rows, "ok")

(***************************************************************************)
(* AuthService.buildLoginResponse                                          *)
(***************************************************************************)
Load(r) ==
  /\ pc[r] = "load"
  /\ \/ who[r] \in members /\ Goto(r, "mint") /\ UNCHANGED out
     \/ who[r] \notin members /\ Answer(r, "noOrg")
  /\ UNCHANGED <<table, lapsed, members, held, op, tok, who, fresh,
                 rowsAt, stale>>

Mint(r) ==
  /\ pc[r] = "mint"
  /\ \E t \in Tokens \ rows : Insert(r, t, who[r], t, None)
  /\ Goto(r, "reply")

\* login & co. set the cookie; getMe keeps only user and orgs of the result.
Reply(r) ==
  /\ pc[r] = "reply"
  /\ held' = IF op[r] = "me" THEN held ELSE held \cup {fresh[r]}
  /\ Answer(r, "ok")
  /\ UNCHANGED <<table, lapsed, members, op, tok, who, fresh, rowsAt, stale>>

(***************************************************************************)
(* The environment                                                         *)
(***************************************************************************)

\* Thirty days pass for a row.
Lapse == /\ \E t \in rows \ lapsed : lapsed' = lapsed \cup {t}
         /\ UNCHANGED <<table, members, held, request>>

\* A user's last organization is deleted (memberships cascade).
LoseOrgs == /\ \E u \in members : members' = members \ {u}
            /\ UNCHANGED <<table, lapsed, held, request>>

Begin(r) == BeginLogin(r) \/ BeginMe(r) \/ BeginRefresh(r) \/ BeginLogout(r)

Handle(r) ==
  \/ Lookup(r) \/ RevokeAll(r) \/ RevokeOld(r) \/ Create(r) \/ Members(r)
  \/ RevokeOne(r) \/ Load(r) \/ Mint(r) \/ Reply(r)

Next ==
  \/ \E r \in Requests : Begin(r) \/ Handle(r) \/ Fail(r) \/ Leave(r)
  \/ Lapse
  \/ LoseOrgs

Spec == Init /\ [][Next]_vars

(***************************************************************************)
(* Properties                                                              *)
(***************************************************************************)

\* Rotation retires the old token before the new one exists (auth.service.ts
\* 480-506), so wherever a handler stops, a token and the one it was rotated
\* into are never both usable.
RotationRetiresParent ==
  \A t \in rows : parent[t] # None => parent[t] \in revoked

\* A refresh that arrives with an already revoked token creates no token,
\* whatever the other handlers do meanwhile (auth.service.ts 457-478).
RevokedTokenNeverRotates ==
  \A r \in Requests :
    stale[r] => fresh[r] = None

\* When reuse has been answered, every token its user had when the request
\* arrived is revoked (updateMany, auth.service.ts 463-473).
ReuseRevokesOlderTokens ==
  \A r \in Requests :
    out[r] = "reuse" => {t \in rowsAt[r] : owner[t] = who[r]} \subseteq revoked

\* A token becomes revoked only on account of a token of the same user that
\* some request presented (updateMany filters by userId, auth.service.ts 464).
RevokesForOwner ==
  \A t \in revoked' \ revoked :
    \E r \in Requests : /\ pc[r] # "done" /\ tok[r] \in rows
                        /\ owner[tok[r]] = owner[t]

RevocationStaysWithUser == [][RevokesForOwner]_vars

\* A session has at most one usable refresh token; it is what rotation is for.
\* Overlapping refreshes break it, and WebSession says for which clients it
\* holds.
OneLiveTokenPerSession ==
  \A s, t \in rows : Live(s) /\ Live(t) /\ family[s] = family[t] => s = t

\* WEEK2_AUTH_SETUP.md 199: "If a token is presented twice, revokes ALL
\* active tokens for that user and returns 401."  So two refreshes of one
\* token are never both answered with a new one.
PresentedTwiceIsReuse ==
  \A q, r \in Requests :
    /\ q # r /\ tok[q] = tok[r] /\ op[q] = "refresh" /\ op[r] = "refresh"
    => ~(out[q] = "ok" /\ out[r] = "ok")

(***************************************************************************)
(* The table implements the life of a session: a session is named by its   *)
(* first token.                                                            *)
(***************************************************************************)
Rotating(s) ==
  \E r \in Requests : pc[r] \in {"revokeOld", "create"} /\ family[tok[r]] = s

SessionState ==
  [s \in Tokens |->
     IF family[s] # s THEN "none"
     ELSE IF Rotating(s) THEN "rotating"
     ELSE IF \E t \in rows : Live(t) /\ family[t] = s THEN "active"
     ELSE "ended"]

Lifecycle == INSTANCE SessionLifecycle WITH Sessions <- Tokens,
                                            state <- SessionState

\* A session that has ended stays ended, and none is resumed out of nothing.
SessionsFollowLifecycle == Lifecycle!Spec

\* The answer to reuse logs its user out everywhere: every session of the user is
\* over, with the one exception its two transactions leave room for, a session
\* whose refresh is past its own look at the row and goes on to store a new token
\* (auth.service.ts 457-506).
ReuseEnds ==
  \A r \in Requests : out[r] # "reuse" /\ out'[r] = "reuse" =>
    \A s \in rows : family[s] = s /\ owner[s] = who[r] =>
      SessionState'[s] = IF Rotating(s) THEN "rotating" ELSE "ended"

ReuseLogsOut == [][ReuseEnds]_vars
=============================================================================
