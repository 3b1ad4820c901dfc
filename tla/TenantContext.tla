---------------------------- MODULE TenantContext ----------------------------
(***************************************************************************)
(* packages/db: withTenant and withPlatform, the two doors into the        *)
(* database, the pool of connections behind them and the row-level         *)
(* security policy every tenant table carries.                             *)
(*                                                                         *)
(* A caller runs one transaction on a connection of the pool; inside a     *)
(* withTenant it may open a second one, withPlatform, as the signup and    *)
(* EntitlementService.resolve do, and then it needs two connections.  The  *)
(* organization is a setting of the connection, and the connection goes    *)
(* from caller to caller.                                                  *)
(*                                                                         *)
(* A row is represented by the organization that owns it.                  *)
(***************************************************************************)
CONSTANTS
  Orgs,     \* organizations
  Callers,  \* calls of the two doors that can be in flight together
  Conns,    \* connections in Prisma's pool
  None

ASSUME OrgAssumption == Orgs \cap {"platform", "unset", "empty"} = {}
ASSUME ConnAssumption == None \notin Conns

VARIABLES
  pc,       \* pc[c]      : where caller c is
  door,     \* door[c]    : an organization (withTenant) or "platform"
  conn,     \* conn[s]    : the connection of transaction s, None without one
  setting,  \* setting[x] : app.current_org_id on connection x
  saw,      \* saw[c]     : owners of the rows withTenant gave c (history)
  peeked,   \* peeked[c]  : owners of the rows withPlatform gave c (history)
  answer    \* answer[c]  : how c's last platform lookup of a tenant's row ended

vars == <<pc, door, conn, setting, saw, peeked, answer>>

\* The transactions a caller can have open: withPlatform inside withTenant.
Outer(c) == <<c, "outer">>
Inner(c) == <<c, "inner">>
Transactions == Callers \X {"outer", "inner"}

Phases == {"idle", "queued", "begun", "open", "nestQueued", "nested", "closing"}

TypeOK ==
  /\ pc \in [Callers -> Phases]
  /\ door \in [Callers -> Orgs \cup {"platform"}]
  /\ conn \in [Transactions -> Conns \cup {None}]
  /\ setting \in [Conns -> Orgs \cup {"unset", "empty"}]
  /\ saw \in [Callers -> SUBSET Orgs]
  /\ peeked \in [Callers -> SUBSET Orgs]
  /\ answer \in [Callers -> {"none yet", "row", "no row", "22P02"}]

Init ==
  /\ pc = [c \in Callers |-> "idle"]
  /\ door = [c \in Callers |-> "platform"]
  /\ conn = [s \in Transactions |-> None]
  /\ setting = [x \in Conns |-> "unset"]
  /\ saw = [c \in Callers |-> {}]
  /\ peeked = [c \in Callers |-> {}]
  /\ answer = [c \in Callers |-> "none yet"]

Free == Conns \ {conn[s] : s \in Transactions}

Goto(c, phase) == pc' = [pc EXCEPT ![c] = phase]

(***************************************************************************)
(* PostgreSQL.                                                             *)
(***************************************************************************)

\* A mutant: the policy asks for a tenant, not for the owner.
ShowsToAnyTenant(g, o) == g \in Orgs

\* The policy tenant_isolation: the row of owner o under the setting g.
Shows(g, o) == g = o

\* What a statement on the row of owner o gets: an unset parameter is NULL and
\* hides every row, an empty one cannot be cast to uuid.
Lookup(g, o) == CASE g = "empty" -> "22P02"
                  [] Shows(g, o) -> "row"
                  [] OTHER       -> "no row"

\* A mutant: set_config with is_local = false.
ForgottenWithSession(g) == g

\* A local setting ends with its transaction and leaves the empty string.
Forgotten(g) == IF g = "unset" THEN "unset" ELSE "empty"

\* COMMIT or ROLLBACK of transaction s: the connection goes back to the pool.
Release(s) ==
  /\ conn' = [conn EXCEPT ![s] = None]
  /\ setting' = IF conn[s] = None THEN setting
                ELSE [setting EXCEPT ![conn[s]] = Forgotten(@)]

Begin(s) == \E x \in Free : conn' = [conn EXCEPT ![s] = x]

(***************************************************************************)
(* withTenant and withPlatform.                                            *)
(***************************************************************************)

\* A mutant: no test of the UUID.
CallUnchecked(c) ==
  /\ pc[c] = "idle"
  /\ \E d \in Orgs \cup {"platform", "no uuid"} : door' = [door EXCEPT ![c] = d]
  /\ Goto(c, "queued")
  /\ UNCHANGED <<conn, setting, saw, peeked, answer>>

\* withTenant rejects what is not a UUID before it does anything else.
Call(c) ==
  /\ pc[c] = "idle"
  /\ \E d \in Orgs \cup {"platform"} : door' = [door EXCEPT ![c] = d]
  /\ saw' = [saw EXCEPT ![c] = {}]
  /\ peeked' = [peeked EXCEPT ![c] = {}]
  /\ answer' = [answer EXCEPT ![c] = "none yet"]
  /\ Goto(c, "queued")
  /\ UNCHANGED <<conn, setting>>

Acquire(c) ==
  /\ pc[c] = "queued"
  /\ Begin(Outer(c))
  /\ Goto(c, IF door[c] = "platform" THEN "open" ELSE "begun")
  /\ UNCHANGED <<door, setting, saw, peeked, answer>>

\* A mutant: set_config through the client, on any connection of the pool.
SetConfigAnywhere(c) ==
  /\ pc[c] = "begun"
  /\ conn[Outer(c)] # None
  /\ \E x \in Conns : setting' = [setting EXCEPT ![x] = door[c]]
  /\ Goto(c, "open")
  /\ UNCHANGED <<door, conn, saw, peeked, answer>>

SetConfig(c) ==
  /\ pc[c] = "begun"
  /\ conn[Outer(c)] # None
  /\ setting' = [setting EXCEPT ![conn[Outer(c)]] = door[c]]
  /\ Goto(c, "open")
  /\ UNCHANGED <<door, conn, saw, peeked, answer>>

\* A statement of withTenant's callback on a row of owner o; a row it does not
\* find changes nothing.
TenantQuery(c) ==
  /\ pc[c] = "open"
  /\ door[c] \in Orgs
  /\ conn[Outer(c)] # None
  /\ \E o \in Orgs : /\ Lookup(setting[conn[Outer(c)]], o) = "row"
                     /\ saw' = [saw EXCEPT ![c] = @ \cup {o}]
  /\ UNCHANGED <<pc, door, conn, setting, peeked, answer>>

\* A statement of withPlatform's callback, in transaction s, that reaches a row
\* of owner o: a delegate of the allow-list with a policy (user, refreshToken,
\* domainClaim, invitation), a relation included from one, or raw SQL.
PlatformQuery(c, s) ==
  /\ conn[s] # None
  /\ \E o \in Orgs :
       LET found == Lookup(setting[conn[s]], o) IN
       /\ answer' = [answer EXCEPT ![c] = found]
       /\ peeked' = IF found = "row" THEN [peeked EXCEPT ![c] = @ \cup {o}]
                    ELSE peeked
       /\ Goto(c, IF found = "22P02" THEN "closing" ELSE pc[c])
  /\ UNCHANGED <<door, conn, setting, saw>>

\* The callback of a withTenant calls withPlatform, and waits for it.
Nest(c) ==
  /\ pc[c] = "open"
  /\ door[c] \in Orgs
  /\ Goto(c, "nestQueued")
  /\ UNCHANGED <<door, conn, setting, saw, peeked, answer>>

AcquireNested(c) ==
  /\ pc[c] = "nestQueued"
  /\ Begin(Inner(c))
  /\ Goto(c, "nested")
  /\ UNCHANGED <<door, setting, saw, peeked, answer>>

\* The inner callback returns, or it throws and takes the outer one with it.
EndNested(c) ==
  /\ pc[c] = "nested"
  /\ Release(Inner(c))
  /\ Goto(c, "open") \/ Goto(c, "closing")
  /\ UNCHANGED <<door, saw, peeked, answer>>

\* The callback throws: a delegate that is not on the allow-list, a row that
\* WITH CHECK refuses, a transaction that has timed out, its own exception.
Throw(c) ==
  /\ pc[c] \in {"begun", "open"}
  /\ Goto(c, "closing")
  /\ UNCHANGED <<door, conn, setting, saw, peeked, answer>>

\* COMMIT, or ROLLBACK after an exception; an inner transaction whose lookup
\* failed is rolled back first.
End(c) ==
  /\ pc[c] \in {"open", "closing"}
  /\ conn[Inner(c)] = None
  /\ Release(Outer(c))
  /\ Goto(c, "idle")
  /\ UNCHANGED <<door, saw, peeked, answer>>

RollbackNested(c) ==
  /\ pc[c] = "closing"
  /\ conn[Inner(c)] # None
  /\ Release(Inner(c))
  /\ UNCHANGED <<pc, door, saw, peeked, answer>>

\* A mutant: only the outer transaction has a maxWait.
GiveUpOuter(c) ==
  /\ pc[c] = "queued"
  /\ Goto(c, "idle")
  /\ UNCHANGED <<door, conn, setting, saw, peeked, answer>>

\* maxWait: no connection came free in time, and the call rejects.
GiveUp(c) ==
  /\ \/ pc[c] = "queued" /\ Goto(c, "idle")
     \/ pc[c] = "nestQueued" /\ Goto(c, "closing")
  /\ UNCHANGED <<door, conn, setting, saw, peeked, answer>>

\* timeout: Prisma rolls s back under its callback, which goes on until it
\* next uses s.
TimeOut(s) ==
  /\ conn[s] # None
  /\ Release(s)
  /\ UNCHANGED <<pc, door, saw, peeked, answer>>

(***************************************************************************)
(* The specification.                                                      *)
(***************************************************************************)
Platform(c) ==
  \/ pc[c] = "open" /\ door[c] = "platform" /\ PlatformQuery(c, Outer(c))
  \/ pc[c] = "nested" /\ PlatformQuery(c, Inner(c))

\* What takes a call to its end.
Progress(c) ==
  \/ Acquire(c) \/ SetConfig(c) \/ AcquireNested(c) \/ EndNested(c)
  \/ Throw(c) \/ RollbackNested(c) \/ End(c)

Next ==
  \/ \E c \in Callers : \/ Call(c) \/ Progress(c) \/ GiveUp(c)
                        \/ TenantQuery(c) \/ Platform(c) \/ Nest(c)
  \/ \E s \in Transactions : TimeOut(s)

Spec == Init /\ [][Next]_vars

\* A callback goes on, and has finitely many statements and nested calls; the
\* timer of maxWait fires.  Timeout need not.
FairSpec ==
  Spec /\ \A c \in Callers : /\ WF_vars(Progress(c))
                             /\ SF_vars(End(c))
                             /\ WF_vars(GiveUp(c))

(***************************************************************************)
(* Properties.                                                             *)
(***************************************************************************)

\* The rows a withTenant callback gets are rows of its own organization,
\* whatever the other callers do with the connections of the pool.
TenantIsolation == \A c \in Callers : saw[c] \subseteq {door[c]}

\* A platform transaction gets no tenant's rows: nothing that an earlier user
\* of its connection, or the withTenant around it, has set is left to it.
PlatformSeesNoTenant == \A c \in Callers : peeked[c] = {}

\* Every call of a door comes back, also when the callers of nested doors hold
\* all the connections and each wants a second one.
CallsReturn == \A c \in Callers : pc[c] = "queued" ~> pc[c] = "idle"

\* What the comments of tenant-context.ts say of a lookup through the platform
\* door ("accepting an invite means looking it up by tokenHash before the org
\* is known"): the row that is there is found.
PlatformLookupFinds ==
  \A c \in Callers : answer[c] \in {"none yet", "row"}
=============================================================================
