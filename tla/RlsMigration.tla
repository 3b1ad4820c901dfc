---------------------------- MODULE RlsMigration ----------------------------
(***************************************************************************)
(* database/scripts and database/sql: how the row-level security of the    *)
(* tenant tables reaches a database.  gen-rls.ts checks its two maps and   *)
(* writes 011_rls_enable.sql and 012_rls_policies.sql; build-migration.ts  *)
(* appends the files of ORDER to a fresh migration; prisma migrate deploy  *)
(* runs it, and the last of the files modelled here opens the tables to    *)
(* the roles qa_app and qa_agent.                                          *)
(*                                                                         *)
(* A predicate is the sequence of its EXISTS hops, the outermost first.  A *)
(* name of the row a hop starts from is <<"row", t>> in the policy of t    *)
(* and the alias <<"p", t>> or <<"p2", t>> inside it.                      *)
(***************************************************************************)
EXTENDS Naturals, Sequences, FiniteSets

CONSTANTS
  Tables,   \* names that can stand in the maps
  None,
  MaxHops   \* the hops assertAcyclic follows before it calls a chain too deep

ASSUME TableAssumption == None \notin Tables
ASSUME HopsAssumption == MaxHops \in Nat

VARIABLES
  direct,   \* DIRECT_TABLES
  parent,   \* parent[t]: the table CHILD_TABLES gives for t, None without entry
  pc,       \* what is running
  todo,     \* children assertAcyclic has still to start from
  walk,     \* its while loop, None between two children
  drafts,   \* drafts[t]: the hops buildExistsPredicate has written for t
  file011,  \* tables named in 011_rls_enable.sql, {} without the file
  file012,  \* tables named in 012_rls_policies.sql, and their predicates
  at,       \* the file of ORDER the deployment is in
  enabled,  \* tables with RLS enabled and forced
  made,     \* CREATE POLICY statements that have run
  policy,   \* policy[t]: predicates of tenant_isolation on t, {} without the policy
  granted,  \* statements of 013_grants.sql that have run
  can       \* can[<<r, k>>]: what role r may do with the tables of kind k

maps  == <<direct, parent>>
files == <<file011, file012>>
db    == <<at, enabled, made, policy, granted, can>>
vars  == <<maps, pc, todo, walk, drafts, files, db>>

Child  == {t \in Tables : parent[t] # None}
Listed == direct \cup Child

(***************************************************************************)
(* The kinds of tables 013_grants.sql tells apart                          *)
(***************************************************************************)
Kinds ==
  {"control",      \* system_agent_versions, agent_rollouts, agent_tool_catalog
   "plans",        \* plans, a control table that is closed to the agent
   "audit",        \* audit_logs
   "runs",         \* agent_runs
   "output",       \* agent_actions, ai_proposals, embeddings, ...
   "repository",   \* tests, issues, executions, agents, org_entitlements, ...
   "tenancy",      \* organizations, users, memberships, invitations, ...
   "secrets",      \* refresh_tokens, identity_providers
   "credentials",  \* app_credentials
   "other"}

Roles      == {"qa_app", "qa_agent"}
Rewrites   == {"UPDATE", "DELETE"}
Writes     == Rewrites \cup {"INSERT"}
Operations == Writes \cup {"SELECT", "UPDATE_columns"}

Grant(ops, kinds, role) ==
  [op |-> "GRANT", ops |-> ops, kinds |-> kinds, roles |-> {role}]
Revoke(ops, kinds, roles) ==
  [op |-> "REVOKE", ops |-> ops, kinds |-> kinds, roles |-> roles]

\* A mutant: the log is closed before the tables are opened.
GrantsAppAuditFirst ==
  << Revoke(Rewrites, {"audit"}, {"qa_app", "qa_agent"}),
     Grant(Writes \cup {"SELECT"}, Kinds, "qa_app"),
     Revoke(Writes, {"control", "plans"}, {"qa_app"}),
     Grant({"SELECT"}, {"control", "plans"}, "qa_app") >>

GrantsApp ==
  << Grant(Writes \cup {"SELECT"}, Kinds, "qa_app"),
     Revoke(Writes, {"control", "plans"}, {"qa_app"}),
     Grant({"SELECT"}, {"control", "plans"}, "qa_app"),
     Revoke(Rewrites, {"audit"}, {"qa_app", "qa_agent"}) >>

GrantsAgent ==
  << Grant({"SELECT"}, Kinds, "qa_agent"),
     Grant({"INSERT"}, {"runs", "output"}, "qa_agent"),
     Grant({"UPDATE_columns"}, {"runs"}, "qa_agent"),
     Revoke(Operations, {"repository", "tenancy", "plans", "secrets"}, {"qa_agent"}),
     Grant({"SELECT"}, {"repository"}, "qa_agent"),
     Revoke(Operations, {"credentials", "secrets"}, {"qa_agent"}) >>

Grants == GrantsApp \o GrantsAgent

\* A mutant: the grants are appended before the policies.
ORDERGrantsFirst ==
  <<"010_roles", "011_rls_enable", "013_grants", "012_rls_policies">>

\* The files of ORDER that decide who sees which row.
ORDER == <<"010_roles", "011_rls_enable", "012_rls_policies", "013_grants">>

Aliases == {"row", "p", "p2"} \X Tables
Hops == [table : Tables, alias : Aliases, from : Aliases]

TypeOK ==
  /\ direct \subseteq Tables
  /\ parent \in [Tables -> Tables \cup {None}]
  /\ pc \in {"edit", "check", "emit", "deploy", "deployed", "failed"}
  /\ todo \subseteq Child
  /\ walk = None \/ walk \in [start : todo, cur : Tables, seen : SUBSET Tables, hops : 0..MaxHops]
  /\ drafts \in [Tables -> Seq(Hops)]
  /\ file011 \subseteq Tables
  /\ file012 \in [direct : SUBSET Tables, child : SUBSET Tables, hops : [Tables -> Seq(Hops)]]
  /\ at \in 1..Len(ORDER) + 1
  /\ enabled \subseteq Tables
  /\ made \subseteq {"direct", "child"} \X Tables
  /\ policy \in [Tables -> SUBSET Seq(Hops)]
  /\ granted \in 0..Len(Grants)
  /\ can \in [Roles \X Kinds -> SUBSET Operations]

Init ==
  /\ direct \in SUBSET Tables
  /\ parent \in [Tables -> Tables \cup {None}]
  /\ pc = "edit" /\ todo = {} /\ walk = None
  /\ drafts = [t \in Tables |-> <<>>]
  /\ file011 = {} /\ file012 = [direct |-> {}, child |-> {}, hops |-> drafts]
  /\ at = 1 /\ enabled = {} /\ made = {} /\ granted = 0
  /\ policy = [t \in Tables |-> {}]
  /\ can = [x \in Roles \X Kinds |-> {}]

(***************************************************************************)
(* The maps are edited by hand: one more table is listed.                  *)
(***************************************************************************)
ListTable ==
  /\ pc = "edit"
  /\ \E t \in Tables \ Listed :
       \/ direct' = direct \cup {t} /\ UNCHANGED parent
       \/ \E p \in Tables : parent' = [parent EXCEPT ![t] = p] /\ UNCHANGED direct
  /\ UNCHANGED <<pc, todo, walk, drafts, files, db>>

(***************************************************************************)
(* gen-rls.ts: assertAcyclic                                               *)
(***************************************************************************)
\* A mutant: the loop starts from the direct tables as well.
StartGeneratorAllTables ==
  /\ pc = "edit"
  /\ pc' = "check"
  /\ todo' = Listed
  /\ drafts' = [t \in Tables |-> <<>>]
  /\ UNCHANGED <<maps, walk, files, db>>

StartGenerator ==
  /\ pc = "edit"
  /\ pc' = "check"
  /\ todo' = Child
  /\ drafts' = [t \in Tables |-> <<>>]
  /\ UNCHANGED <<maps, walk, files, db>>

StartWalk ==
  /\ pc = "check" /\ walk = None
  /\ \E t \in todo : walk' = [start |-> t, cur |-> t, seen |-> {t}, hops |-> 0]
  /\ UNCHANGED <<maps, pc, todo, drafts, files, db>>

\* One round of the while loop that does not throw.
Hop ==
  /\ pc = "check" /\ walk # None
  /\ walk.cur \in Child
  /\ parent[walk.cur] \notin walk.seen
  /\ walk.hops < MaxHops
  /\ walk' = [walk EXCEPT !.cur = parent[walk.cur],
                          !.seen = @ \cup {parent[walk.cur]},
                          !.hops = @ + 1]
  /\ UNCHANGED <<maps, pc, todo, drafts, files, db>>

\* A mutant: any end of a chain is taken for a direct table.
EndWalkAnywhere ==
  /\ pc = "check" /\ walk # None
  /\ walk.cur \notin Child
  /\ walk' = None
  /\ todo' = todo \ {walk.start}
  /\ UNCHANGED <<maps, pc, drafts, files, db>>

EndWalk ==
  /\ pc = "check" /\ walk # None
  /\ walk.cur \notin Child
  /\ walk.cur \in direct
  /\ walk' = None
  /\ todo' = todo \ {walk.start}
  /\ UNCHANGED <<maps, pc, drafts, files, db>>

\* assertAcyclic throws, or the script is stopped: what is written stays.
StopGenerator ==
  /\ pc \in {"check", "emit"}
  /\ pc' = "edit" /\ walk' = None /\ todo' = {}
  /\ UNCHANGED <<maps, drafts, files, db>>

(***************************************************************************)
(* gen-rls.ts: main.  Each file is computed and then written.              *)
(***************************************************************************)
WriteEnable ==
  /\ pc = "check" /\ walk = None /\ todo = {}
  /\ pc' = "emit"
  /\ file011' = Listed
  /\ UNCHANGED <<maps, todo, walk, drafts, file012, db>>

\* The row the next hop of the predicate of t starts from, and its table.
From(t) ==
  IF drafts[t] = <<>> THEN <<"row", t>> ELSE drafts[t][Len(drafts[t])].alias
Reached(t) == From(t)[2]
AliasOf(t, p) == IF drafts[t] = <<>> THEN <<"p", p>> ELSE <<"p2", p>>

Unfinished(t) == t \in Child /\ (drafts[t] = <<>> \/ Reached(t) \notin direct)

\* A mutant: buildExistsPredicate calls itself, so that an inner hop names
\* the outer table where its alias is meant.
NestExistsUnaliased ==
  /\ pc = "emit"
  /\ \E t \in Tables :
       /\ Unfinished(t) /\ Reached(t) \in Child
       /\ LET p == parent[Reached(t)] IN
            drafts' = [drafts EXCEPT ![t] =
              Append(@, [table |-> p, alias |-> AliasOf(t, p), from |-> <<"row", Reached(t)>>])]
  /\ UNCHANGED <<maps, pc, todo, walk, files, db>>

\* buildExistsPredicate and buildExistsPredicateFor: one hop to the parent.
NestExists ==
  /\ pc = "emit"
  /\ \E t \in Tables :
       /\ Unfinished(t) /\ Reached(t) \in Child
       /\ LET p == parent[Reached(t)] IN
            drafts' = [drafts EXCEPT ![t] =
              Append(@, [table |-> p, alias |-> AliasOf(t, p), from |-> From(t)])]
  /\ UNCHANGED <<maps, pc, todo, walk, files, db>>

WritePolicies ==
  /\ pc = "emit"
  /\ \A t \in Tables : ~Unfinished(t)
  /\ pc' = "edit"
  /\ file012' = [direct |-> direct, child |-> Child, hops |-> drafts]
  /\ UNCHANGED <<maps, todo, walk, drafts, file011, db>>

(***************************************************************************)
(* build-migration.ts and the deployment of what it built.  A missing file *)
(* is skipped, with a warning: it is a file without statements.            *)
(***************************************************************************)
BuildMigration ==
  /\ pc = "edit"
  /\ pc' = "deploy"
  /\ UNCHANGED <<maps, todo, walk, drafts, files, db>>

In(file) == pc = "deploy" /\ at <= Len(ORDER) /\ ORDER[at] = file

\* The statements of a file have all run.
NextFile ==
  /\ at' = at + 1
  /\ pc' = IF at = Len(ORDER) THEN "deployed" ELSE pc

CreateRoles ==
  /\ In("010_roles")
  /\ NextFile
  /\ UNCHANGED <<maps, todo, walk, drafts, files, enabled, made, policy, granted, can>>

EnableRls ==
  /\ In("011_rls_enable")
  /\ enabled' = enabled \cup file011
  /\ NextFile
  /\ UNCHANGED <<maps, todo, walk, drafts, files, made, policy, granted, can>>

Statements == ({"direct"} \X file012.direct) \cup ({"child"} \X file012.child)

\* A second policy of one name on one table is refused.
CreatePolicy ==
  /\ In("012_rls_policies")
  /\ \E s \in Statements \ made :
       /\ s[1] = "child" => ({"direct"} \X file012.direct) \subseteq made
       /\ policy[s[2]] = {}
       /\ policy' = [policy EXCEPT ![s[2]] =
                       {IF s[1] = "direct" THEN <<>> ELSE file012.hops[s[2]]}]
       /\ made' = made \cup {s}
  /\ UNCHANGED <<maps, pc, todo, walk, drafts, files, at, enabled, granted, can>>

PoliciesDone ==
  /\ In("012_rls_policies")
  /\ Statements \subseteq made
  /\ NextFile
  /\ UNCHANGED <<maps, todo, walk, drafts, files, enabled, made, policy, granted, can>>

RunGrant ==
  /\ In("013_grants")
  /\ granted < Len(Grants)
  /\ LET g == Grants[granted + 1] IN
       can' = [x \in Roles \X Kinds |->
                 IF x[1] \notin g.roles \/ x[2] \notin g.kinds THEN can[x]
                 ELSE IF g.op = "GRANT" THEN can[x] \cup g.ops
                 ELSE can[x] \ g.ops]
  /\ granted' = granted + 1
  /\ UNCHANGED <<maps, pc, todo, walk, drafts, files, at, enabled, made, policy>>

GrantsDone ==
  /\ In("013_grants")
  /\ granted = Len(Grants)
  /\ NextFile
  /\ UNCHANGED <<maps, todo, walk, drafts, files, enabled, made, policy, granted, can>>

\* A statement names what the schema does not have, or the connection is
\* lost.  What has run stays, or is rolled back if it was one transaction.
FailDeployment ==
  /\ pc = "deploy"
  /\ pc' = "failed"
  /\ \/ UNCHANGED <<at, enabled, made, policy, granted, can>>
     \/ /\ at' = 1 /\ enabled' = {} /\ made' = {} /\ granted' = 0
        /\ policy' = [t \in Tables |-> {}]
        /\ can' = [x \in Roles \X Kinds |-> {}]
  /\ UNCHANGED <<maps, todo, walk, drafts, files>>

Next ==
  \/ ListTable \/ StartGenerator \/ StartWalk \/ Hop \/ EndWalk \/ StopGenerator
  \/ WriteEnable \/ NestExists \/ WritePolicies
  \/ BuildMigration \/ CreateRoles \/ EnableRls \/ CreatePolicy \/ PoliciesDone
  \/ RunGrant \/ GrantsDone \/ FailDeployment

Spec == Init /\ [][Next]_vars

(***************************************************************************)
(* Properties                                                              *)
(***************************************************************************)

\* From no table of S do the parents lead to a direct table: they run in
\* circles within S or end at a table that is in neither map.
Stuck(S) ==
  \A t \in S : IF t \in Child THEN parent[t] \in S ELSE t \notin direct

\* Once assertAcyclic has let the maps pass, no child table is part of a
\* cycle, and none leads to a table the maps do not know (gen-rls.ts:72-88),
\* although the loop looks at one chain at a time and gives up at a depth.
AcceptedMapsAreGrounded ==
  pc = "emit" => \A S \in SUBSET Tables : Stuck(S) => S \cap Child = {}

\* The predicate of a child table walks from its own row to its parent and on
\* to the first table that carries org_id, each hop joined to the row of the
\* hop before it and no two rows under one alias (gen-rls.ts:110-151).
PoliciesFollowParents ==
  \A t \in Tables : \A p \in policy[t] \ {<<>>} :
    LET before(i) == IF i = 1 THEN <<"row", t>> ELSE p[i - 1].alias IN
    /\ \A i \in 1..Len(p) :
         /\ p[i].from = before(i)
         /\ p[i].table = parent[before(i)[2]]
         /\ p[i].alias[2] = p[i].table
         /\ p[i].table \in direct <=> i = Len(p)
    /\ \A i, j \in 1..Len(p) : p[i].alias = p[j].alias => i = j

\* A grant is never live before the policy that constrains it
\* (013_grants.sql:2-4), wherever the generator or the deployment stopped:
\* once a role may do anything, every policy the migration holds is there,
\* and on a table where row-level security is enabled and forced.
GrantedIsConstrained ==
  (\E x \in Roles \X Kinds : can[x] # {}) =>
    /\ file011 \subseteq enabled
    /\ \A s \in Statements : policy[s[2]] # {} /\ s[2] \in enabled

\* What 013_grants.sql says of the roles (10, 18, 33-34, 52): at no moment of
\* its run may the agent write anything but its own runs and their output, and
\* once it has run neither role rewrites the audit log, qa_app does not write
\* the control tables, and tenancy and secrets are closed to the agent.
RolesAsDocumented ==
  /\ \A k \in Kinds :
       /\ can[<<"qa_agent", k>>] \cap Writes # {} => k \in {"runs", "output"}
       /\ "UPDATE_columns" \in can[<<"qa_agent", k>>] => k = "runs"
  /\ pc = "deployed" =>
       /\ \A r \in Roles : can[<<r, "audit">>] \cap Rewrites = {}
       /\ \A k \in {"control", "plans"} : can[<<"qa_app", k>>] = {"SELECT"}
       /\ \A k \in {"tenancy", "plans", "secrets", "credentials"} : can[<<"qa_agent", k>>] = {}
       /\ can[<<"qa_agent", "repository">>] = {"SELECT"}
=============================================================================
