------------------------- MODULE RlsMigrationProofs -------------------------
(***************************************************************************)
(* What the generator, the migration and its deployment guarantee for any  *)
(* number of tables, any maps over them and any depth of the chains.       *)
(***************************************************************************)
EXTENDS RlsMigration, SequenceTheorems, FiniteSetTheorems, TLAPS

(***************************************************************************)
(* The statements of 013_grants.sql speak of known operations.             *)
(***************************************************************************)
StatementType ==
  [op : {"GRANT", "REVOKE"}, ops : SUBSET Operations, kinds : SUBSET Kinds, roles : SUBSET Roles]

LEMMA GrantIsStatement ==
  ASSUME NEW ops \in SUBSET Operations, NEW kinds \in SUBSET Kinds, NEW role \in Roles
  PROVE  Grant(ops, kinds, role) \in StatementType
BY DEF Grant, StatementType

LEMMA RevokeIsStatement ==
  ASSUME NEW ops \in SUBSET Operations, NEW kinds \in SUBSET Kinds, NEW roles \in SUBSET Roles
  PROVE  Revoke(ops, kinds, roles) \in StatementType
BY DEF Revoke, StatementType

LEMMA SixInSeq ==
  ASSUME NEW S, NEW a \in S, NEW b \in S, NEW c \in S, NEW d \in S, NEW e \in S, NEW f \in S
  PROVE  <<a, b, c, d, e, f>> \in Seq(S)
OBVIOUS

\* The operations, roles and kinds the statements name.
LEMMA GrantArguments ==
  /\ Writes \in SUBSET Operations
  /\ Rewrites \in SUBSET Operations
  /\ Writes \cup {"SELECT"} \in SUBSET Operations
  /\ {"SELECT"} \in SUBSET Operations
  /\ {"INSERT"} \in SUBSET Operations
  /\ {"UPDATE_columns"} \in SUBSET Operations
  /\ "qa_app" \in Roles
  /\ "qa_agent" \in Roles
  /\ {"qa_app"} \in SUBSET Roles
  /\ {"qa_agent"} \in SUBSET Roles
  /\ {"qa_app", "qa_agent"} \in SUBSET Roles
  /\ Kinds \in SUBSET Kinds
  /\ {"control", "plans"} \in SUBSET Kinds
  /\ {"audit"} \in SUBSET Kinds
  /\ {"runs", "output"} \in SUBSET Kinds
  /\ {"runs"} \in SUBSET Kinds
  /\ {"repository"} \in SUBSET Kinds
  /\ {"repository", "tenancy", "plans", "secrets"} \in SUBSET Kinds
  /\ {"credentials", "secrets"} \in SUBSET Kinds
BY DEF Operations, Writes, Rewrites, Roles, Kinds

LEMMA AppGrantsAreStatements == GrantsApp \in Seq(StatementType)
<1>1. Grant(Writes \cup {"SELECT"}, Kinds, "qa_app") \in StatementType
  BY GrantArguments, GrantIsStatement
<1>2. Revoke(Writes, {"control", "plans"}, {"qa_app"}) \in StatementType
  BY GrantArguments, RevokeIsStatement
<1>3. Grant({"SELECT"}, {"control", "plans"}, "qa_app") \in StatementType
  BY GrantArguments, GrantIsStatement
<1>4. Revoke(Rewrites, {"audit"}, {"qa_app", "qa_agent"}) \in StatementType
  BY GrantArguments, RevokeIsStatement
<1> QED BY <1>1, <1>2, <1>3, <1>4 DEF GrantsApp

LEMMA AgentGrantsAreStatements == GrantsAgent \in Seq(StatementType)
<1>1. Grant({"SELECT"}, Kinds, "qa_agent") \in StatementType
  BY GrantArguments, GrantIsStatement
<1>2. Grant({"INSERT"}, {"runs", "output"}, "qa_agent") \in StatementType
  BY GrantArguments, GrantIsStatement
<1>3. Grant({"UPDATE_columns"}, {"runs"}, "qa_agent") \in StatementType
  BY GrantArguments, GrantIsStatement
<1>4. Revoke(Operations, {"repository", "tenancy", "plans", "secrets"}, {"qa_agent"}) \in StatementType
  BY GrantArguments, RevokeIsStatement
<1>5. Grant({"SELECT"}, {"repository"}, "qa_agent") \in StatementType
  BY GrantArguments, GrantIsStatement
<1>6. Revoke(Operations, {"credentials", "secrets"}, {"qa_agent"}) \in StatementType
  BY GrantArguments, RevokeIsStatement
<1> QED BY <1>1, <1>2, <1>3, <1>4, <1>5, <1>6, SixInSeq DEF GrantsAgent

LEMMA GrantsAreStatements == Grants \in Seq(StatementType)
BY AppGrantsAreStatements, AgentGrantsAreStatements DEF Grants

LEMMA OrderFacts ==
  /\ Len(ORDER) = 4
  /\ ORDER[1] = "010_roles" /\ ORDER[2] = "011_rls_enable"
  /\ ORDER[3] = "012_rls_policies" /\ ORDER[4] = "013_grants"
BY DEF ORDER

\* Where a deployment is when a file runs.
LEMMA Position ==
  ASSUME TypeOK
  PROVE  /\ In("010_roles") => at = 1 /\ pc = "deploy"
         /\ In("011_rls_enable") => at = 2 /\ pc = "deploy"
         /\ In("012_rls_policies") => at = 3 /\ pc = "deploy"
         /\ In("013_grants") => at = 4 /\ pc = "deploy"
BY OrderFacts DEF In, TypeOK

(***************************************************************************)
(* Type correctness                                                        *)
(***************************************************************************)
LEMMA FromIsAlias ==
  ASSUME TypeOK, NEW t \in Tables
  PROVE  From(t) \in Aliases
<1>1. CASE drafts[t] = <<>>
  BY <1>1 DEF From, Aliases
<1>2. CASE drafts[t] # <<>>
  <2>1. drafts[t] \in Seq(Hops) /\ Len(drafts[t]) \in 1..Len(drafts[t])
    BY <1>2 DEF TypeOK
  <2>2. drafts[t][Len(drafts[t])] \in Hops
    BY <2>1
  <2> QED BY <1>2, <2>2 DEF From, Hops
<1> QED BY <1>1, <1>2

LEMMA TypeInit == Init => TypeOK
BY OrderFacts, GrantsAreStatements DEF Init, TypeOK

LEMMA TypeStep == TypeOK /\ [Next]_vars => TypeOK'
<1> SUFFICES ASSUME TypeOK, [Next]_vars PROVE TypeOK'
  OBVIOUS
<1> USE OrderFacts, TableAssumption, HopsAssumption
<1>1. CASE ListTable
  <2>1. direct' \subseteq Tables /\ parent' \in [Tables -> Tables \cup {None}] /\ Child \subseteq Child'
    <3>1. PICK t \in Tables \ Listed :
            \/ direct' = direct \cup {t} /\ UNCHANGED parent
            \/ \E p \in Tables : parent' = [parent EXCEPT ![t] = p] /\ UNCHANGED direct
      BY <1>1 DEF ListTable
    <3>2. CASE direct' = direct \cup {t} /\ UNCHANGED parent
      BY <3>1, <3>2 DEF TypeOK, Child
    <3>3. ASSUME NEW p \in Tables, parent' = [parent EXCEPT ![t] = p], UNCHANGED direct
          PROVE  direct' \subseteq Tables /\ parent' \in [Tables -> Tables \cup {None}]
      BY <3>3 DEF TypeOK
    <3>4. ASSUME NEW p \in Tables, parent' = [parent EXCEPT ![t] = p]
          PROVE  Child \subseteq Child'
      BY <3>4 DEF TypeOK, Child
    <3> QED BY <3>1, <3>2, <3>3, <3>4
  <2>2. UNCHANGED <<pc, todo, walk, drafts, files, db>>
    BY <1>1 DEF ListTable
  <2> QED BY <2>1, <2>2 DEF TypeOK, files, db
<1>2. CASE StartGenerator
  BY <1>2 DEF StartGenerator, TypeOK, Child, maps, files, db
<1>3. CASE StartWalk
  BY <1>3 DEF StartWalk, TypeOK, Child, maps, files, db
<1>4. CASE Hop
  <2>1. /\ walk \in [start : todo, cur : Tables, seen : SUBSET Tables, hops : 0..MaxHops]
        /\ parent[walk.cur] \in Tables
    BY <1>4 DEF Hop, TypeOK, Child
  <2>2. walk' \in [start : todo, cur : Tables, seen : SUBSET Tables, hops : 0..MaxHops]
    <3>1. walk' = [start |-> walk.start, cur |-> parent[walk.cur],
                   seen |-> walk.seen \cup {parent[walk.cur]}, hops |-> walk.hops + 1]
      BY <1>4, <2>1 DEF Hop
    <3>2. walk.hops + 1 \in 0..MaxHops
      BY <1>4, <2>1 DEF Hop
    <3> QED BY <2>1, <3>1, <3>2
  <2> QED BY <1>4, <2>2 DEF Hop, TypeOK, Child, maps, files, db
<1>5. CASE EndWalk
  BY <1>5 DEF EndWalk, TypeOK, Child, maps, files, db
<1>6. CASE StopGenerator
  BY <1>6 DEF StopGenerator, TypeOK, Child, maps, files, db
<1>7. CASE WriteEnable
  BY <1>7 DEF WriteEnable, TypeOK, Child, Listed, maps, db
<1>8. CASE NestExists
  <2>1. PICK t \in Tables :
          /\ Unfinished(t) /\ Reached(t) \in Child
          /\ drafts' = [drafts EXCEPT ![t] =
               Append(@, [table |-> parent[Reached(t)],
                          alias |-> AliasOf(t, parent[Reached(t)]), from |-> From(t)])]
    BY <1>8 DEF NestExists
  <2>2. From(t) \in Aliases
    BY <2>1, FromIsAlias
  <2>3. parent[Reached(t)] \in Tables
    BY <2>1 DEF TypeOK, Child
  <2>4. AliasOf(t, parent[Reached(t)]) \in Aliases
    BY <2>3 DEF AliasOf, Aliases
  <2>5. [table |-> parent[Reached(t)], alias |-> AliasOf(t, parent[Reached(t)]),
         from |-> From(t)] \in Hops
    BY <2>2, <2>3, <2>4 DEF Hops
  <2>6. drafts' \in [Tables -> Seq(Hops)]
    BY <2>1, <2>5 DEF TypeOK
  <2> QED BY <1>8, <2>6 DEF NestExists, TypeOK, Child, maps, files, db
<1>9. CASE WritePolicies
  BY <1>9 DEF WritePolicies, TypeOK, Child, maps, db
<1>10. CASE BuildMigration
  BY <1>10 DEF BuildMigration, TypeOK, Child, maps, files, db
<1>11. CASE CreateRoles
  BY <1>11, Position DEF CreateRoles, NextFile, TypeOK, Child, maps, files
<1>12. CASE EnableRls
  BY <1>12, Position DEF EnableRls, NextFile, TypeOK, Child, maps, files
<1>13. CASE CreatePolicy
  BY <1>13 DEF CreatePolicy, Statements, TypeOK, Child, maps, files
<1>14. CASE PoliciesDone
  BY <1>14, Position DEF PoliciesDone, NextFile, TypeOK, Child, maps, files
<1>15. CASE RunGrant
  <2> DEFINE g == Grants[granted + 1]
  <2>1. g \in StatementType /\ granted + 1 \in 0..Len(Grants)
    BY <1>15, GrantsAreStatements DEF RunGrant, TypeOK
  <2>2. can' = [x \in Roles \X Kinds |->
                  IF x[1] \notin g.roles \/ x[2] \notin g.kinds THEN can[x]
                  ELSE IF g.op = "GRANT" THEN can[x] \cup g.ops
                  ELSE can[x] \ g.ops]
    BY <1>15 DEF RunGrant
  <2> HIDE DEF g
  <2>3. can' \in [Roles \X Kinds -> SUBSET Operations]
    BY <2>1, <2>2 DEF StatementType, TypeOK
  <2> QED BY <1>15, <2>1, <2>3 DEF RunGrant, TypeOK, Child, maps, files
<1>16. CASE GrantsDone
  BY <1>16, Position DEF GrantsDone, NextFile, TypeOK, Child, maps, files
<1>17. CASE FailDeployment
  <2>1. /\ at' \in 1..Len(ORDER) + 1 /\ enabled' \subseteq Tables
        /\ made' \subseteq {"direct", "child"} \X Tables
        /\ policy' \in [Tables -> SUBSET Seq(Hops)]
        /\ granted' \in 0..Len(Grants)
        /\ can' \in [Roles \X Kinds -> SUBSET Operations]
    BY <1>17, GrantsAreStatements DEF FailDeployment, TypeOK
  <2> QED BY <1>17, <2>1 DEF FailDeployment, TypeOK, Child, maps, files
<1>18. CASE UNCHANGED vars
  BY <1>18 DEF vars, TypeOK, Child, maps, files, db
<1> QED
  BY <1>1, <1>2, <1>3, <1>4, <1>5, <1>6, <1>7, <1>8, <1>9, <1>10, <1>11, <1>12,
     <1>13, <1>14, <1>15, <1>16, <1>17, <1>18 DEF Next

\* Every reachable state is well-formed; above all, the while loop of
\* assertAcyclic goes round at most MaxHops times (gen-rls.ts:77-83).
THEOREM TypeCorrect == Spec => []TypeOK
BY TypeInit, TypeStep, PTL DEF Spec

(***************************************************************************)
(* The check of the maps                                                   *)
(***************************************************************************)

\* A walk never leaves a set it can leave only towards a direct table, so the
\* children assertAcyclic is done with are in none.
WalkInv ==
  /\ pc # "check" => walk = None
  /\ pc = "check" => \A S \in SUBSET Tables : Stuck(S) =>
       /\ S \cap Child \subseteq todo
       /\ walk # None => (walk.start \in S => walk.cur \in S)
  /\ AcceptedMapsAreGrounded

LEMMA WalkStep == TypeOK /\ WalkInv /\ [Next]_vars => WalkInv'
<1> SUFFICES ASSUME TypeOK, WalkInv, [Next]_vars PROVE WalkInv'
  OBVIOUS
<1> USE DEF WalkInv, AcceptedMapsAreGrounded
<1>1. CASE StartGenerator
  BY <1>1 DEF StartGenerator, Stuck, Child, maps, TypeOK
<1>2. CASE StartWalk
  BY <1>2, TableAssumption DEF StartWalk, Stuck, Child, maps
<1>3. CASE Hop
  <2>1. /\ walk.cur \in Child /\ pc = "check" /\ pc' = pc
        /\ walk'.start = walk.start /\ walk'.cur = parent[walk.cur]
        /\ UNCHANGED <<direct, parent, todo>>
    BY <1>3 DEF Hop, TypeOK, maps
  <2>2. ASSUME NEW S \in SUBSET Tables, Stuck(S)', walk.start \in S
        PROVE  parent[walk.cur] \in S
    BY <1>3, <2>1, <2>2 DEF Hop, Stuck, Child
  <2>3. walk # None
    BY <1>3 DEF Hop
  <2> QED BY <2>1, <2>2, <2>3 DEF Stuck, Child
<1>4. CASE EndWalk
  <2>1. /\ walk.cur \notin Child /\ walk.cur \in direct /\ pc = "check" /\ pc' = pc
        /\ walk # None /\ walk' = None /\ todo' = todo \ {walk.start}
        /\ UNCHANGED <<direct, parent>>
    BY <1>4 DEF EndWalk, maps
  <2>2. ASSUME NEW S \in SUBSET Tables, Stuck(S)
        PROVE  walk.start \notin S
    BY <2>1, <2>2 DEF Stuck
  <2> QED BY <2>1, <2>2 DEF Stuck, Child
<1>5. CASE WriteEnable
  BY <1>5 DEF WriteEnable, Stuck, Child, maps
<1>6. CASE NestExists
  BY <1>6 DEF NestExists, Stuck, Child, maps
<1>7. CASE UNCHANGED vars
  BY <1>7 DEF vars, maps, Stuck, Child
<1>8. CASE ListTable \/ StopGenerator \/ WritePolicies \/ BuildMigration
  BY <1>8 DEF ListTable, StopGenerator, WritePolicies, BuildMigration
<1>9. CASE \/ CreateRoles \/ EnableRls \/ CreatePolicy \/ PoliciesDone
           \/ RunGrant \/ GrantsDone \/ FailDeployment
  BY <1>9 DEF CreateRoles, EnableRls, CreatePolicy, PoliciesDone, RunGrant, GrantsDone,
              FailDeployment, NextFile, In
<1> QED
  BY <1>1, <1>2, <1>3, <1>4, <1>5, <1>6, <1>7, <1>8, <1>9 DEF Next

\* No map that assertAcyclic lets pass has a cycle or an unknown end
\* (gen-rls.ts:72-88), for any number of tables and any limit of hops.
THEOREM AcceptedMapsAreSound == Spec => []AcceptedMapsAreGrounded
<1>1. Init => WalkInv
  BY DEF Init, WalkInv, AcceptedMapsAreGrounded
<1>2. WalkInv => AcceptedMapsAreGrounded
  BY DEF WalkInv
<1> QED BY <1>1, <1>2, TypeInit, TypeStep, WalkStep, PTL DEF Spec

(***************************************************************************)
(* The order of the deployment                                             *)
(***************************************************************************)

\* What the files hold, and what has run once the deployment has come to a
\* place.  The first file is written before the second, so the policies are
\* always of tables the first one enables.
OrderInv ==
  /\ pc \in {"edit", "check", "emit"} => at = 1 /\ file011 \subseteq Listed
  /\ pc = "emit" => file011 = Listed
  /\ file012.direct \cup file012.child \subseteq file011
  /\ at = 1 => made = {} /\ enabled = {}
  /\ at > 2 => file011 \subseteq enabled
  /\ \A s \in made : policy[s[2]] # {}
  /\ at > 3 => Statements \subseteq made
  /\ at < 4 => \A x \in Roles \X Kinds : can[x] = {}

LEMMA OrderInit == Init => OrderInv
BY DEF Init, OrderInv

LEMMA OrderStep == TypeOK /\ OrderInv /\ [Next]_vars => OrderInv'
<1> SUFFICES ASSUME TypeOK, OrderInv, [Next]_vars PROVE OrderInv'
  OBVIOUS
<1> USE TableAssumption, OrderFacts DEF OrderInv
<1>1. CASE ListTable
  BY <1>1 DEF ListTable, Listed, Child, Statements, files, db, TypeOK
<1>2. CASE StartGenerator \/ StartWalk \/ Hop \/ EndWalk \/ StopGenerator \/ NestExists
  BY <1>2 DEF StartGenerator, StartWalk, Hop, EndWalk, StopGenerator, NestExists,
              Listed, Child, Statements, maps, files, db
<1>3. CASE WriteEnable
  BY <1>3 DEF WriteEnable, Listed, Child, Statements, maps, db
<1>4. CASE WritePolicies
  <2>1. /\ file012'.direct = direct /\ file012'.child = Child
        /\ file011 = Listed /\ pc = "emit" /\ pc' = "edit" /\ at = 1
        /\ UNCHANGED <<direct, parent, file011, at, enabled, made, policy, granted, can>>
    BY <1>4 DEF WritePolicies, maps, db
  <2> QED BY <2>1 DEF Listed, Child, Statements
<1>5. CASE BuildMigration
  BY <1>5 DEF BuildMigration, Statements, maps, files, db
<1>6. CASE CreateRoles
  BY <1>6, Position DEF CreateRoles, NextFile, Statements, maps, files, TypeOK
<1>7. CASE EnableRls
  BY <1>7, Position DEF EnableRls, NextFile, Statements, maps, files, TypeOK
<1>8. CASE CreatePolicy
  <2>1. PICK s \in Statements \ made :
          /\ policy' = [policy EXCEPT ![s[2]] =
                          {IF s[1] = "direct" THEN <<>> ELSE file012.hops[s[2]]}]
          /\ made' = made \cup {s}
    BY <1>8 DEF CreatePolicy
  <2>2. s[2] \in Tables /\ at = 3 /\ at' = 3 /\ pc = "deploy"
    BY <1>8, Position DEF CreatePolicy, Statements, TypeOK
  <2>3. \A t \in Tables : policy[t] # {} \/ t = s[2] => policy'[t] # {}
    BY <2>1, <2>2 DEF TypeOK
  <2>4. \A m \in made' : policy'[m[2]] # {}
    <3> TAKE m \in made'
    <3>1. m[2] \in Tables
      BY <2>1, <2>2 DEF TypeOK
    <3> QED BY <2>1, <2>3, <3>1
  <2> QED BY <1>8, <2>2, <2>4 DEF CreatePolicy, Statements, maps, files
<1>9. CASE PoliciesDone
  BY <1>9, Position DEF PoliciesDone, NextFile, Statements, maps, files, TypeOK
<1>10. CASE RunGrant
  BY <1>10, Position DEF RunGrant, Statements, maps, files, TypeOK
<1>11. CASE GrantsDone
  BY <1>11, Position DEF GrantsDone, NextFile, Statements, maps, files, TypeOK
<1>12. CASE FailDeployment
  BY <1>12 DEF FailDeployment, Statements, maps, files, TypeOK
<1>13. CASE UNCHANGED vars
  BY <1>13 DEF vars, Listed, Child, Statements, maps, files, db
<1> QED
  BY <1>1, <1>2, <1>3, <1>4, <1>5, <1>6, <1>7, <1>8, <1>9, <1>10, <1>11, <1>12, <1>13 DEF Next

\* A grant is never live before the policy that constrains it
\* (013_grants.sql:2-4), wherever the generator or the deployment stopped.
THEOREM GrantsComeLast == Spec => []GrantedIsConstrained
<1>1. TypeOK /\ OrderInv => GrantedIsConstrained
  <2> SUFFICES ASSUME TypeOK, OrderInv, \E x \in Roles \X Kinds : can[x] # {}
               PROVE  /\ file011 \subseteq enabled
                      /\ \A s \in Statements : policy[s[2]] # {} /\ s[2] \in enabled
    BY DEF GrantedIsConstrained
  <2>1. at > 3
    BY DEF OrderInv, TypeOK, ORDER
  <2> QED BY <2>1 DEF OrderInv, Statements, TypeOK
<1> QED BY <1>1, OrderInit, OrderStep, TypeInit, TypeStep, PTL DEF Spec

(***************************************************************************)
(* The predicates                                                          *)
(***************************************************************************)

\* The row hop i of p starts from, in the policy of t.
RowOf(t, p, i) == IF i = 1 THEN <<"row", t>> ELSE p[i - 1].alias

\* p is a predicate of t, perhaps unfinished, for these two maps.
Chain(dir, par, t, p) ==
  /\ p \in Seq(Hops)
  /\ \A i \in 1..Len(p) :
       /\ p[i].from = RowOf(t, p, i)
       /\ RowOf(t, p, i)[2] \in Tables /\ par[RowOf(t, p, i)[2]] # None
       /\ p[i].table = par[RowOf(t, p, i)[2]]
       /\ p[i].alias[2] = p[i].table
       /\ i < Len(p) => p[i].table \notin dir
  /\ \A i, j \in 1..Len(p) : p[i].alias = p[j].alias => i = j

Complete(dir, par, t, p) ==
  Chain(dir, par, t, p) /\ p # <<>> /\ p[Len(p)].table \in dir

ChainInv ==
  /\ \A t \in Tables : Chain(direct, parent, t, drafts[t])
  /\ \A t \in file012.child : Complete(direct, parent, t, file012.hops[t])
  /\ \A t \in Tables : \A p \in policy[t] \ {<<>>} : Complete(direct, parent, t, p)

\* A chain stays one when a table is listed that was in neither map: its
\* tables are children, except the last of a complete one.
LEMMA ChainKept ==
  ASSUME NEW dir \in SUBSET Tables, NEW par \in [Tables -> Tables \cup {None}],
         NEW dir2 \in SUBSET Tables, NEW par2 \in [Tables -> Tables \cup {None}],
         dir \subseteq dir2,
         \A t \in Tables : par[t] # None => par2[t] = par[t] /\ (t \in dir2 => t \in dir),
         NEW t \in Tables, NEW p, Chain(dir, par, t, p)
  PROVE  /\ Chain(dir2, par2, t, p)
         /\ Complete(dir, par, t, p) => Complete(dir2, par2, t, p)
<1>1. ASSUME NEW i \in 1..Len(p), i < Len(p) PROVE p[i].table \notin dir2
  <2>1. i + 1 \in 1..Len(p) /\ RowOf(t, p, i + 1) = p[i].alias
    BY <1>1 DEF Chain, RowOf
  <2>2. p[i].table \in Tables /\ par[p[i].table] # None /\ p[i].table \notin dir
    BY <1>1, <2>1 DEF Chain
  <2> QED BY <2>2
<1>2. Chain(dir2, par2, t, p)
  BY <1>1 DEF Chain
<1> QED BY <1>2 DEF Complete, Chain

LEMMA NestStep ==
  ASSUME TypeOK, WalkInv, ChainInv, NestExists
  PROVE  \A t \in Tables : Chain(direct, parent, t, drafts'[t])
<1>1. PICK t \in Tables :
        /\ Unfinished(t) /\ Reached(t) \in Child
        /\ drafts' = [drafts EXCEPT ![t] =
             Append(@, [table |-> parent[Reached(t)],
                        alias |-> AliasOf(t, parent[Reached(t)]), from |-> From(t)])]
  BY DEF NestExists
<1> DEFINE p == drafts[t]
           h == [table |-> parent[Reached(t)],
                 alias |-> AliasOf(t, parent[Reached(t)]), from |-> From(t)]
           n == Len(p)
<1>2. /\ p \in Seq(Hops) /\ n \in Nat /\ Chain(direct, parent, t, p)
      /\ p # <<>> => n \in 1..n
  BY DEF TypeOK, ChainInv
<1>3. parent[Reached(t)] \in Tables /\ Reached(t) \in Tables /\ parent[Reached(t)] # None
  BY <1>1 DEF Child, TypeOK
<1>4. h \in Hops
  <2>1. From(t) \in Aliases
    BY FromIsAlias
  <2>2. AliasOf(t, parent[Reached(t)]) \in Aliases
    BY <1>3 DEF AliasOf, Aliases
  <2> QED BY <1>3, <2>1, <2>2 DEF Hops
<1>5. From(t) = RowOf(t, p, n + 1) /\ Reached(t) = RowOf(t, p, n + 1)[2]
  BY <1>2 DEF From, Reached, RowOf
<1>6. h.alias[2] = h.table
  BY DEF AliasOf
<1>7. p # <<>> => p[n].table \notin direct
  <2> SUFFICES ASSUME p # <<>> PROVE p[n].table \notin direct
    OBVIOUS
  <2>1. Reached(t) \notin direct
    BY <1>1 DEF Unfinished
  <2>2. Reached(t) = p[n].alias[2]
    BY DEF Reached, From
  <2> QED BY <1>2, <2>1, <2>2 DEF Chain
<1>8. ASSUME NEW i \in 1..n PROVE p[i].alias # h.alias
  <2>1. p # <<>>
    BY <1>2
  <2> SUFFICES ASSUME p[i].alias = h.alias PROVE FALSE
    OBVIOUS
  <2>2. p[i].table = h.table
    BY <1>2, <1>6 DEF Chain
  <2> DEFINE S == {p[k].table : k \in i..n}
  <2>3. ASSUME NEW k \in i..n PROVE /\ p[k].table \in Tables
                                    /\ p[k].table \in Child /\ parent[p[k].table] \in S
    <3>1. CASE k = n
      <4>1. Reached(t) = p[k].table
        BY <1>2, <2>1, <3>1 DEF Reached, From, Chain
      <4>2. parent[p[k].table] = p[i].table
        BY <2>2, <4>1
      <4> QED BY <1>1, <1>3, <4>1, <4>2
    <3>2. CASE k < n
      <4>1. k \in 1..n /\ k + 1 \in i..n /\ k + 1 \in 1..n
        BY <1>2, <3>2
      <4>2. RowOf(t, p, k + 1) = p[k].alias
        BY <4>1 DEF RowOf
      <4>3. p[k].alias[2] = p[k].table
        BY <1>2, <4>1 DEF Chain
      <4>4. p[k].table \in Tables /\ parent[p[k].table] # None /\ p[k + 1].table = parent[p[k].table]
        BY <1>2, <4>1, <4>2, <4>3 DEF Chain
      <4> QED BY <4>1, <4>4 DEF Child
    <3> QED BY <1>2, <3>1, <3>2
  <2>4. S \in SUBSET Tables /\ Stuck(S)
    BY <2>3 DEF Stuck
  <2>5. p[i].table \in S \cap Child
    BY <1>2, <2>3
  <2>6. pc = "emit"
    BY DEF NestExists
  <2> QED BY <2>4, <2>5, <2>6 DEF WalkInv, AcceptedMapsAreGrounded
<1>9. Chain(direct, parent, t, Append(p, h))
  <2> DEFINE q == Append(p, h)
  <2>1. q \in Seq(Hops) /\ Len(q) = n + 1 /\ q[n + 1] = h /\ \A i \in 1..n : q[i] = p[i]
    BY <1>2, <1>4
  <2>2. \A i \in 1..n + 1 : RowOf(t, q, i) = RowOf(t, p, i)
    BY <1>2, <2>1 DEF RowOf
  <2> HIDE DEF q, h, p, n
  <2>3. ASSUME NEW i \in 1..n + 1
        PROVE  /\ q[i].from = RowOf(t, q, i)
               /\ RowOf(t, q, i)[2] \in Tables /\ parent[RowOf(t, q, i)[2]] # None
               /\ q[i].table = parent[RowOf(t, q, i)[2]]
               /\ q[i].alias[2] = q[i].table
               /\ i < n + 1 => q[i].table \notin direct
    <3>1. CASE i \in 1..n
      <4>1. q[i] = p[i] /\ RowOf(t, q, i) = RowOf(t, p, i)
        BY <2>1, <2>2, <3>1
      <4>2. q[i].table \notin direct
        <5>1. CASE i = n
          BY <1>2, <1>7, <3>1, <4>1, <5>1 DEF p, n
        <5>2. CASE i < n
          BY <1>2, <3>1, <4>1, <5>2 DEF Chain, n
        <5> QED BY <1>2, <3>1, <5>1, <5>2
      <4> QED BY <1>2, <3>1, <4>1, <4>2 DEF Chain, n
    <3>2. CASE i = n + 1
      <4>1. q[i] = h /\ RowOf(t, q, i) = From(t)
        BY <1>2, <1>5, <2>1, <2>2, <3>2
      <4>2. /\ h.from = From(t) /\ h.table = parent[Reached(t)] /\ h.alias[2] = h.table
        BY <1>6 DEF h
      <4> QED BY <1>2, <1>3, <1>5, <2>2, <3>2, <4>1, <4>2
    <3> QED BY <1>2, <3>1, <3>2
  <2>4. ASSUME NEW i \in 1..n + 1, NEW j \in 1..n + 1, q[i].alias = q[j].alias PROVE i = j
    <3>1. CASE i \in 1..n /\ j \in 1..n
      BY <1>2, <2>1, <2>4, <3>1 DEF Chain, n
    <3>2. CASE i \in 1..n /\ j = n + 1
      BY <1>8, <2>1, <2>4, <3>2
    <3>3. CASE j \in 1..n /\ i = n + 1
      BY <1>8, <2>1, <2>4, <3>3
    <3> QED BY <1>2, <3>1, <3>2, <3>3
  <2>5. Chain(direct, parent, t, q)
    <3>1. q \in Seq(Hops) /\ Len(q) = n + 1
      BY <2>1
    <3>2. \A i, j \in 1..n + 1 : q[i].alias = q[j].alias => i = j
      BY <2>4
    <3> QED BY <2>3, <3>1, <3>2 DEF Chain
  <2> QED BY <2>5 DEF q
<1> QED BY <1>1, <1>2, <1>9 DEF TypeOK, ChainInv

LEMMA ChainStep == TypeOK /\ WalkInv /\ ChainInv /\ [Next]_vars => ChainInv'
<1> SUFFICES ASSUME TypeOK, WalkInv, ChainInv, [Next]_vars PROVE ChainInv'
  OBVIOUS
<1>1. CASE ListTable
  <2>1. /\ direct \in SUBSET Tables /\ parent \in [Tables -> Tables \cup {None}]
        /\ direct' \in SUBSET Tables /\ parent' \in [Tables -> Tables \cup {None}]
    BY TypeStep DEF TypeOK
  <2>2. /\ direct \subseteq direct'
        /\ \A t \in Tables : parent[t] # None =>
             parent'[t] = parent[t] /\ (t \in direct' => t \in direct)
    BY <1>1 DEF ListTable, Listed, Child, TypeOK
  <2>3. UNCHANGED <<drafts, file012, policy>>
    BY <1>1 DEF ListTable, files, db
  <2>4. \A t \in Tables : \A p : Chain(direct, parent, t, p) =>
          /\ Chain(direct', parent', t, p)
          /\ Complete(direct, parent, t, p) => Complete(direct', parent', t, p)
    BY <2>1, <2>2, ChainKept
  <2>5. file012.child \subseteq Tables
    BY DEF TypeOK
  <2> QED BY <2>3, <2>4, <2>5 DEF ChainInv, Complete
<1>2. CASE StartGenerator
  <2>1. ASSUME NEW t \in Tables PROVE Chain(direct, parent, t, <<>>)
    BY DEF Chain
  <2> QED BY <1>2, <2>1 DEF StartGenerator, ChainInv, maps, files, db
<1>3. CASE NestExists
  <2>1. UNCHANGED <<direct, parent, file012, policy>>
    BY <1>3 DEF NestExists, maps, files, db
  <2> QED BY <1>3, <2>1, NestStep DEF ChainInv
<1>4. CASE WritePolicies
  <2>1. ASSUME NEW t \in Child PROVE Complete(direct, parent, t, drafts[t])
    <3>1. t \in Tables /\ drafts[t] # <<>> /\ Reached(t) \in direct
      BY <1>4 DEF WritePolicies, Unfinished, Child
    <3>2. drafts[t] \in Seq(Hops) /\ Len(drafts[t]) \in 1..Len(drafts[t])
      BY <3>1 DEF TypeOK
    <3>3. Reached(t) = drafts[t][Len(drafts[t])].alias[2]
      BY <3>1 DEF Reached, From
    <3> QED BY <3>1, <3>2, <3>3 DEF ChainInv, Complete, Chain
  <2>2. /\ file012'.child = Child /\ file012'.hops = drafts
        /\ UNCHANGED <<direct, parent, drafts, policy>>
    BY <1>4 DEF WritePolicies, maps, db
  <2> QED BY <2>1, <2>2 DEF ChainInv
<1>5. CASE CreatePolicy
  <2>1. PICK s \in Statements \ made :
          policy' = [policy EXCEPT ![s[2]] =
                      {IF s[1] = "direct" THEN <<>> ELSE file012.hops[s[2]]}]
    BY <1>5 DEF CreatePolicy
  <2>2. s[2] \in Tables /\ (s[1] # "direct" => s[2] \in file012.child)
    BY DEF Statements, TypeOK
  <2>3. UNCHANGED <<direct, parent, drafts, file012>>
    BY <1>5 DEF CreatePolicy, maps, files
  <2>4. ASSUME NEW t \in Tables, NEW p \in policy'[t] \ {<<>>}
        PROVE  Complete(direct, parent, t, p)
    <3>1. CASE t = s[2]
      BY <2>1, <2>2, <2>4, <3>1 DEF ChainInv, TypeOK
    <3>2. CASE t # s[2]
      BY <2>1, <2>2, <2>4, <3>2 DEF ChainInv, TypeOK
    <3> QED BY <3>1, <3>2
  <2> QED BY <2>3, <2>4 DEF ChainInv
<1>6. CASE FailDeployment
  <2>1. UNCHANGED <<direct, parent, drafts, file012>>
    BY <1>6 DEF FailDeployment, maps, files
  <2>2. \A t \in Tables : policy'[t] \subseteq policy[t]
    BY <1>6 DEF FailDeployment, TypeOK
  <2> QED BY <2>1, <2>2 DEF ChainInv
<1>7. CASE \/ StartWalk \/ Hop \/ EndWalk \/ StopGenerator \/ WriteEnable \/ BuildMigration
           \/ CreateRoles \/ EnableRls \/ PoliciesDone \/ RunGrant \/ GrantsDone
           \/ UNCHANGED vars
  <2>1. UNCHANGED <<direct, parent, drafts, file012, policy>>
    BY <1>7 DEF StartWalk, Hop, EndWalk, StopGenerator, WriteEnable, BuildMigration,
                CreateRoles, EnableRls, PoliciesDone, RunGrant, GrantsDone, vars, maps, files, db
  <2> QED BY <2>1 DEF ChainInv
<1> QED
  BY <1>1, <1>2, <1>3, <1>4, <1>5, <1>6, <1>7 DEF Next

\* The predicate of a child table goes from its own row by its parents to the
\* first table with org_id, every hop joined to the one before it and under an
\* alias of its own (gen-rls.ts:110-151), for any maps that were accepted.
THEOREM PredicatesAreChains == Spec => []PoliciesFollowParents
<1>1. Init => ChainInv /\ WalkInv
  BY DEF Init, ChainInv, Chain, WalkInv, AcceptedMapsAreGrounded
<1>2. ChainInv => PoliciesFollowParents
  <2> SUFFICES ASSUME ChainInv, NEW t \in Tables, NEW p \in policy[t] \ {<<>>}
               PROVE  /\ \A i \in 1..Len(p) :
                           /\ p[i].from = RowOf(t, p, i)
                           /\ p[i].table = parent[RowOf(t, p, i)[2]]
                           /\ p[i].alias[2] = p[i].table
                           /\ p[i].table \in direct <=> i = Len(p)
                      /\ \A i, j \in 1..Len(p) : p[i].alias = p[j].alias => i = j
    BY DEF PoliciesFollowParents, RowOf
  <2>1. Chain(direct, parent, t, p) /\ p[Len(p)].table \in direct
    BY DEF ChainInv, Complete
  <2>2. ASSUME NEW i \in 1..Len(p), i # Len(p) PROVE i < Len(p)
    BY <2>1, <2>2 DEF Chain
  <2> QED BY <2>1, <2>2 DEF Chain
<1> QED BY <1>1, <1>2, TypeInit, TypeStep, WalkStep, ChainStep, PTL DEF Spec

(***************************************************************************)
(* The privileges                                                          *)
(***************************************************************************)

\* The statements of 013_grants.sql one by one.
LEMMA GrantList ==
  /\ Len(Grants) = 10
  /\ Grants[1] = Grant(Writes \cup {"SELECT"}, Kinds, "qa_app")
  /\ Grants[2] = Revoke(Writes, {"control", "plans"}, {"qa_app"})
  /\ Grants[3] = Grant({"SELECT"}, {"control", "plans"}, "qa_app")
  /\ Grants[4] = Revoke(Rewrites, {"audit"}, {"qa_app", "qa_agent"})
  /\ Grants[5] = Grant({"SELECT"}, Kinds, "qa_agent")
  /\ Grants[6] = Grant({"INSERT"}, {"runs", "output"}, "qa_agent")
  /\ Grants[7] = Grant({"UPDATE_columns"}, {"runs"}, "qa_agent")
  /\ Grants[8] = Revoke(Operations, {"repository", "tenancy", "plans", "secrets"}, {"qa_agent"})
  /\ Grants[9] = Grant({"SELECT"}, {"repository"}, "qa_agent")
  /\ Grants[10] = Revoke(Operations, {"credentials", "secrets"}, {"qa_agent"})
<1>1. GrantsApp \in Seq(StatementType) /\ GrantsAgent \in Seq(StatementType)
  BY AppGrantsAreStatements, AgentGrantsAreStatements
<1>2. /\ Len(GrantsApp) = 4
      /\ GrantsApp[1] = Grant(Writes \cup {"SELECT"}, Kinds, "qa_app")
      /\ GrantsApp[2] = Revoke(Writes, {"control", "plans"}, {"qa_app"})
      /\ GrantsApp[3] = Grant({"SELECT"}, {"control", "plans"}, "qa_app")
      /\ GrantsApp[4] = Revoke(Rewrites, {"audit"}, {"qa_app", "qa_agent"})
  BY DEF GrantsApp
<1>3. /\ Len(GrantsAgent) = 6
      /\ GrantsAgent[1] = Grant({"SELECT"}, Kinds, "qa_agent")
      /\ GrantsAgent[2] = Grant({"INSERT"}, {"runs", "output"}, "qa_agent")
      /\ GrantsAgent[3] = Grant({"UPDATE_columns"}, {"runs"}, "qa_agent")
      /\ GrantsAgent[4] = Revoke(Operations, {"repository", "tenancy", "plans", "secrets"}, {"qa_agent"})
      /\ GrantsAgent[5] = Grant({"SELECT"}, {"repository"}, "qa_agent")
      /\ GrantsAgent[6] = Revoke(Operations, {"credentials", "secrets"}, {"qa_agent"})
  BY DEF GrantsAgent
<1>4. /\ Len(Grants) = 10
      /\ \A i \in 1..4 : Grants[i] = GrantsApp[i]
      /\ \A i \in 5..10 : Grants[i] = GrantsAgent[i - 4]
  <2>1. /\ Len(Grants) = Len(GrantsApp) + Len(GrantsAgent)
        /\ \A i \in 1..Len(GrantsApp) + Len(GrantsAgent) :
             Grants[i] = IF i <= Len(GrantsApp) THEN GrantsApp[i] ELSE GrantsAgent[i - Len(GrantsApp)]
    BY <1>1, ConcatProperties, Zenon DEF Grants
  <2> QED BY <1>2, <1>3, <2>1
<1>5. /\ Grants[1] = GrantsApp[1] /\ Grants[2] = GrantsApp[2]
      /\ Grants[3] = GrantsApp[3] /\ Grants[4] = GrantsApp[4]
      /\ Grants[5] = GrantsAgent[1] /\ Grants[6] = GrantsAgent[2]
      /\ Grants[7] = GrantsAgent[3] /\ Grants[8] = GrantsAgent[4]
      /\ Grants[9] = GrantsAgent[5] /\ Grants[10] = GrantsAgent[6]
  BY <1>4
<1> QED BY <1>2, <1>3, <1>4, <1>5, Zenon

\* A statement gives or takes away the operation o on tables of the kind k.
Gives(g, r, k, o) == g.op = "GRANT" /\ r \in g.roles /\ k \in g.kinds /\ o \in g.ops
Takes(g, r, k, o) == g.op = "REVOKE" /\ r \in g.roles /\ k \in g.kinds /\ o \in g.ops

\* One of the first n statements gives it and none after that takes it away.
Held(n, r, k, o) ==
  \E i \in 1..n : /\ Gives(Grants[i], r, k, o)
                  /\ \A j \in i + 1..n : ~Takes(Grants[j], r, k, o)

LEMMA HeldNext ==
  ASSUME NEW n \in 0..Len(Grants) - 1, NEW r, NEW k, NEW o
  PROVE  Held(n + 1, r, k, o) <=>
           \/ Gives(Grants[n + 1], r, k, o)
           \/ Held(n, r, k, o) /\ ~Takes(Grants[n + 1], r, k, o)
<1>1. ASSUME Held(n + 1, r, k, o), ~Gives(Grants[n + 1], r, k, o)
      PROVE  Held(n, r, k, o) /\ ~Takes(Grants[n + 1], r, k, o)
  <2>1. PICK i \in 1..n + 1 : /\ Gives(Grants[i], r, k, o)
                              /\ \A j \in i + 1..n + 1 : ~Takes(Grants[j], r, k, o)
    BY <1>1 DEF Held
  <2>2. i # n + 1
    BY <1>1, <2>1
  <2>3. i \in 1..n /\ n + 1 \in i + 1..n + 1 /\ i + 1..n \subseteq i + 1..n + 1
    BY <2>2
  <2> QED BY <2>1, <2>3 DEF Held
<1>2. ASSUME Gives(Grants[n + 1], r, k, o) PROVE Held(n + 1, r, k, o)
  <2>1. n + 1 \in 1..n + 1 /\ (n + 1) + 1..n + 1 = {}
    OBVIOUS
  <2> QED BY <1>2, <2>1 DEF Held
<1>3. ASSUME Held(n, r, k, o), ~Takes(Grants[n + 1], r, k, o) PROVE Held(n + 1, r, k, o)
  <2>1. PICK i \in 1..n : /\ Gives(Grants[i], r, k, o)
                          /\ \A j \in i + 1..n : ~Takes(Grants[j], r, k, o)
    BY <1>3 DEF Held
  <2>2. i \in 1..n + 1 /\ \A j \in i + 1..n + 1 : j = n + 1 \/ j \in i + 1..n
    OBVIOUS
  <2>3. \A j \in i + 1..n + 1 : ~Takes(Grants[j], r, k, o)
    BY <1>3, <2>1, <2>2
  <2> QED BY <2>1, <2>2, <2>3 DEF Held
<1> QED BY <1>1, <1>2, <1>3

\* A role holds a privilege exactly if the last of the statements so far that
\* speaks of it gave it, and all statements have run in a finished deployment.
GrantInv ==
  /\ \A r \in Roles, k \in Kinds, o \in Operations :
       o \in can[<<r, k>>] <=> Held(granted, r, k, o)
  /\ pc = "deployed" => granted = Len(Grants)

LEMMA HeldNone == \A r, k, o : ~Held(0, r, k, o)
BY DEF Held

LEMMA GrantInit == Init => GrantInv
BY HeldNone DEF Init, GrantInv

LEMMA GrantStep == TypeOK /\ GrantInv /\ [Next]_vars => GrantInv'
<1> SUFFICES ASSUME TypeOK, GrantInv, [Next]_vars PROVE GrantInv'
  OBVIOUS
<1> USE DEF GrantInv
<1>1. CASE \/ ListTable \/ StartGenerator \/ StartWalk \/ Hop \/ EndWalk \/ StopGenerator
           \/ WriteEnable \/ NestExists \/ WritePolicies \/ BuildMigration \/ UNCHANGED vars
  <2>1. UNCHANGED <<granted, can>> /\ (pc' = "deployed" => pc = "deployed")
    BY <1>1 DEF ListTable, StartGenerator, StartWalk, Hop, EndWalk, StopGenerator,
         WriteEnable, NestExists, WritePolicies, BuildMigration, vars, db
  <2> QED BY <2>1
<1>2. CASE CreateRoles \/ EnableRls \/ CreatePolicy \/ PoliciesDone
  <2>1. UNCHANGED <<granted, can>> /\ pc' # "deployed"
    BY <1>2, Position, OrderFacts DEF CreateRoles, EnableRls, CreatePolicy, PoliciesDone, NextFile
  <2> QED BY <2>1
<1>3. CASE RunGrant
  <2>1. /\ granted \in 0..Len(Grants) - 1 /\ granted' = granted + 1 /\ pc' = "deploy"
        /\ Grants[granted + 1] \in StatementType
    BY <1>3, Position, GrantsAreStatements DEF RunGrant, TypeOK
  <2> SUFFICES ASSUME NEW r \in Roles, NEW k \in Kinds, NEW o \in Operations
               PROVE  o \in can'[<<r, k>>] <=> Held(granted + 1, r, k, o)
    BY <2>1
  <2> DEFINE g == Grants[granted + 1]
  <2>2. can'[<<r, k>>] = IF r \notin g.roles \/ k \notin g.kinds THEN can[<<r, k>>]
                         ELSE IF g.op = "GRANT" THEN can[<<r, k>>] \cup g.ops
                         ELSE can[<<r, k>>] \ g.ops
    BY <1>3 DEF RunGrant
  <2> HIDE DEF g
  <2>3. g.op = "GRANT" \/ g.op = "REVOKE"
    BY <2>1 DEF StatementType, g
  <2>4. o \in can'[<<r, k>>] <=>
          \/ Gives(g, r, k, o)
          \/ o \in can[<<r, k>>] /\ ~Takes(g, r, k, o)
    BY <2>2, <2>3 DEF Gives, Takes
  <2> QED BY <2>1, <2>4, HeldNext DEF g
<1>4. CASE GrantsDone
  BY <1>4 DEF GrantsDone
<1>5. CASE FailDeployment
  <2>1. CASE UNCHANGED <<granted, can>>
    BY <1>5, <2>1 DEF FailDeployment
  <2>2. CASE granted' = 0 /\ can' = [x \in Roles \X Kinds |-> {}]
    BY <1>5, <2>2, HeldNone DEF FailDeployment
  <2> QED BY <1>5, <2>1, <2>2 DEF FailDeployment
<1> QED BY <1>1, <1>2, <1>3, <1>4, <1>5 DEF Next

\* At every moment a role holds exactly the privileges that the last statement
\* to speak of them gave it: those are all the overlaps 013_grants.sql has.
THEOREM PrivilegesAreHeld == Spec => []GrantInv
BY GrantInit, GrantStep, TypeInit, TypeStep, PTL DEF Spec

\* 013_grants.sql does what it says of the two roles (10, 18, 33-34, 52), at
\* every moment of its run and wherever a deployment stops, for any maps: the
\* statements overlap, and the proof fixes which of them had to come last.
THEOREM RolesEndAsDocumented == Spec => []RolesAsDocumented
<1>1. TypeOK /\ GrantInv => RolesAsDocumented
  <2> SUFFICES ASSUME TypeOK, GrantInv PROVE RolesAsDocumented
    OBVIOUS
  <2>1. ASSUME NEW k \in Kinds, NEW o \in can[<<"qa_agent", k>>]
        PROVE  /\ o \in {"SELECT", "INSERT", "UPDATE_columns"}
               /\ o = "INSERT" => k \in {"runs", "output"}
               /\ o = "UPDATE_columns" => k = "runs"
    <3>1. o \in Operations /\ granted \in 0..10
      BY <2>1, GrantList DEF TypeOK, Roles
    <3>2. PICK i \in 1..10 : Gives(Grants[i], "qa_agent", k, o)
      BY <2>1, <3>1 DEF GrantInv, Held, Roles
    <3> QED BY <3>2, GrantList DEF Gives, Grant, Revoke
  <2>2. \A k \in Kinds :
          /\ can[<<"qa_agent", k>>] \cap Writes # {} => k \in {"runs", "output"}
          /\ "UPDATE_columns" \in can[<<"qa_agent", k>>] => k = "runs"
    BY <2>1 DEF Writes, Rewrites
  <2> SUFFICES ASSUME pc = "deployed"
               PROVE  /\ \A r \in Roles : can[<<r, "audit">>] \cap Rewrites = {}
                      /\ \A k \in {"control", "plans"} : can[<<"qa_app", k>>] = {"SELECT"}
                      /\ \A k \in {"tenancy", "plans", "secrets", "credentials"} : can[<<"qa_agent", k>>] = {}
                      /\ can[<<"qa_agent", "repository">>] = {"SELECT"}
    BY <2>2 DEF RolesAsDocumented
  <2>3. /\ \A r \in Roles, k \in Kinds, o \in Operations : o \in can[<<r, k>>] <=> Held(10, r, k, o)
        /\ \A r \in Roles, k \in Kinds : can[<<r, k>>] \subseteq Operations
    BY GrantList DEF GrantInv, TypeOK
  <2>4. \A r \in Roles : can[<<r, "audit">>] \cap Rewrites = {}
    <3>1. ASSUME NEW r \in Roles, NEW o \in Rewrites, Held(10, r, "audit", o) PROVE FALSE
      <4>1. PICK i \in 1..10 : /\ Gives(Grants[i], r, "audit", o)
                               /\ \A j \in i + 1..10 : ~Takes(Grants[j], r, "audit", o)
        BY <3>1 DEF Held
      <4>2. i = 1
        BY <3>1, <4>1, GrantList DEF Gives, Grant, Revoke, Rewrites
      <4>3. Takes(Grants[4], r, "audit", o)
        BY <3>1, GrantList DEF Takes, Revoke, Roles
      <4> QED BY <4>1, <4>2, <4>3
    <3> QED BY <2>3, <3>1 DEF Rewrites, Writes, Operations, Kinds
  <2>5. ASSUME NEW k \in {"control", "plans"} PROVE can[<<"qa_app", k>>] = {"SELECT"}
    <3>1. ASSUME NEW o \in Operations, Held(10, "qa_app", k, o) PROVE o = "SELECT"
      <4>1. PICK i \in 1..10 : /\ Gives(Grants[i], "qa_app", k, o)
                               /\ \A j \in i + 1..10 : ~Takes(Grants[j], "qa_app", k, o)
        BY <3>1 DEF Held
      <4>2. i = 1 \/ i = 3
        BY <4>1, GrantList DEF Gives, Grant, Revoke
      <4>3. o \in Writes => Takes(Grants[2], "qa_app", k, o)
        BY <2>5, GrantList DEF Takes, Revoke
      <4>4. o \in Writes \/ o = "SELECT"
        BY <4>1, <4>2, GrantList DEF Gives, Grant
      <4>5. i = 3 => o = "SELECT"
        BY <4>1, GrantList DEF Gives, Grant
      <4> QED BY <4>1, <4>2, <4>3, <4>4, <4>5
    <3>2. Held(10, "qa_app", k, "SELECT")
      <4>1. Gives(Grants[3], "qa_app", k, "SELECT")
        BY <2>5, GrantList DEF Gives, Grant
      <4>2. \A j \in 4..10 : ~Takes(Grants[j], "qa_app", k, "SELECT")
        BY GrantList DEF Takes, Grant, Revoke, Rewrites
      <4> QED BY <4>1, <4>2 DEF Held
    <3> QED BY <2>3, <2>5, <3>1, <3>2 DEF Operations, Roles, Kinds
  <2>6. ASSUME NEW k \in {"tenancy", "plans", "secrets", "credentials"}
        PROVE  can[<<"qa_agent", k>>] = {}
    <3>1. ASSUME NEW o \in Operations, Held(10, "qa_agent", k, o) PROVE FALSE
      <4>1. PICK i \in 1..10 : /\ Gives(Grants[i], "qa_agent", k, o)
                               /\ \A j \in i + 1..10 : ~Takes(Grants[j], "qa_agent", k, o)
        BY <3>1 DEF Held
      <4>2. i = 5
        BY <2>6, <4>1, GrantList DEF Gives, Grant, Revoke
      <4>3. Takes(Grants[8], "qa_agent", k, o) \/ Takes(Grants[10], "qa_agent", k, o)
        BY <2>6, <3>1, GrantList DEF Takes, Revoke
      <4> QED BY <4>1, <4>2, <4>3
    <3> QED BY <2>3, <2>6, <3>1 DEF Roles, Kinds
  <2>7. can[<<"qa_agent", "repository">>] = {"SELECT"}
    <3>1. ASSUME NEW o \in Operations, Held(10, "qa_agent", "repository", o) PROVE o = "SELECT"
      <4>1. PICK i \in 1..10 : Gives(Grants[i], "qa_agent", "repository", o)
        BY <3>1 DEF Held
      <4> QED BY <4>1, GrantList DEF Gives, Grant, Revoke
    <3>2. Held(10, "qa_agent", "repository", "SELECT")
      <4>1. Gives(Grants[9], "qa_agent", "repository", "SELECT")
        BY GrantList DEF Gives, Grant
      <4>2. ~Takes(Grants[10], "qa_agent", "repository", "SELECT")
        BY GrantList DEF Takes, Revoke
      <4> QED BY <4>1, <4>2 DEF Held
    <3> QED BY <2>3, <3>1, <3>2 DEF Operations, Roles, Kinds
  <2> QED BY <2>4, <2>5, <2>6, <2>7
<1> QED BY <1>1, GrantInit, GrantStep, TypeInit, TypeStep, PTL DEF Spec

(***************************************************************************)
(* Why assertAcyclic throws                                                *)
(***************************************************************************)

\* The three ends of its loop other than EndWalk (gen-rls.ts:79, 82, 85-86).
MeetsItself == walk.cur \in Child /\ parent[walk.cur] \in walk.seen
TooDeep     == walk.cur \in Child /\ parent[walk.cur] \notin walk.seen /\ walk.hops = MaxHops
Unresolved  == walk.cur \notin Child /\ walk.cur \notin direct
Throws      == pc = "check" /\ walk # None /\ (MeetsItself \/ TooDeep \/ Unresolved)

\* The tables seen are the chain from the start to the current one, one more
\* than the hops.
SeenInv ==
  walk # None =>
    /\ walk.start \in walk.seen /\ walk.start \in Child /\ walk.cur \in walk.seen
    /\ \A s \in walk.seen \ {walk.cur} : s \in Child /\ parent[s] \in walk.seen
    /\ IsFiniteSet(walk.seen) /\ Cardinality(walk.seen) = walk.hops + 1

LEMMA SeenStep == TypeOK /\ WalkInv /\ SeenInv /\ [Next]_vars => SeenInv'
<1> SUFFICES ASSUME TypeOK, WalkInv, SeenInv, [Next]_vars PROVE SeenInv'
  OBVIOUS
<1> USE DEF SeenInv
<1>1. CASE StartWalk
  <2>1. PICK t \in todo : walk' = [start |-> t, cur |-> t, seen |-> {t}, hops |-> 0]
    BY <1>1 DEF StartWalk
  <2>2. t \in Child /\ Child' = Child
    BY <1>1, <2>1 DEF StartWalk, TypeOK, maps, Child
  <2>3. IsFiniteSet({t}) /\ Cardinality({t}) = 1
    BY FS_Singleton
  <2> QED BY <2>1, <2>2, <2>3
<1>2. CASE Hop
  <2> DEFINE p == parent[walk.cur]
  <2>1. /\ walk # None
        /\ walk \in [start : todo, cur : Tables, seen : SUBSET Tables, hops : 0..MaxHops]
        /\ walk.cur \in Child /\ p \notin walk.seen /\ UNCHANGED <<direct, parent>>
    BY <1>2 DEF Hop, TypeOK, maps
  <2>2. walk' = [start |-> walk.start, cur |-> p, seen |-> walk.seen \cup {p}, hops |-> walk.hops + 1]
    BY <1>2, <2>1 DEF Hop
  <2>3. /\ IsFiniteSet(walk.seen \cup {p})
        /\ Cardinality(walk.seen \cup {p}) = walk.hops + 1 + 1
    BY <2>1, FS_AddElement
  <2>4. Child' = Child
    BY <2>1 DEF Child
  <2>5. \A s \in walk.seen : s \in Child /\ parent[s] \in walk.seen \cup {p}
    BY <2>1
  <2> HIDE DEF p
  <2> QED BY <2>1, <2>2, <2>3, <2>4, <2>5
<1>3. CASE ListTable
  <2>1. pc # "check" /\ UNCHANGED walk
    BY <1>3 DEF ListTable
  <2> QED BY <2>1 DEF WalkInv
<1>4. CASE EndWalk \/ StopGenerator
  BY <1>4 DEF EndWalk, StopGenerator
<1>5. CASE \/ StartGenerator \/ WriteEnable \/ NestExists \/ WritePolicies \/ BuildMigration
           \/ CreateRoles \/ EnableRls \/ CreatePolicy \/ PoliciesDone
           \/ RunGrant \/ GrantsDone \/ FailDeployment \/ UNCHANGED vars
  <2>1. UNCHANGED <<walk, parent>>
    BY <1>5 DEF StartGenerator, WriteEnable, NestExists, WritePolicies, BuildMigration, CreateRoles,
         EnableRls, CreatePolicy, PoliciesDone, RunGrant, GrantsDone, FailDeployment, vars, maps
  <2> QED BY <2>1 DEF Child
<1> QED BY <1>1, <1>2, <1>3, <1>4, <1>5 DEF Next

\* Maps that are refused are flawed: from some child table the parents lead to
\* no direct table, or there are more child tables than the loop makes hops.
RefusedMapsAreFlawed ==
  Throws =>
    \/ \E S \in SUBSET Tables : Stuck(S) /\ S \cap Child # {}
    \/ \E S \in SUBSET Child : IsFiniteSet(S) /\ Cardinality(S) > MaxHops

\* assertAcyclic refuses no good maps (gen-rls.ts:72-88): with at most MaxHops
\* child tables its limit on the hops decides nothing, and what it refuses has
\* a cycle or an unknown end.  With AcceptedMapsAreSound it decides exactly.
THEOREM OnlyFlawedMapsAreRefused == Spec => []RefusedMapsAreFlawed
<1>1. Init => WalkInv /\ SeenInv
  BY DEF Init, WalkInv, AcceptedMapsAreGrounded, SeenInv
<1>2. TypeOK /\ SeenInv => RefusedMapsAreFlawed
  <2> SUFFICES ASSUME TypeOK, SeenInv, Throws
               PROVE  \/ \E S \in SUBSET Tables : Stuck(S) /\ S \cap Child # {}
                      \/ \E S \in SUBSET Child : IsFiniteSet(S) /\ Cardinality(S) > MaxHops
    BY DEF RefusedMapsAreFlawed
  <2>1. /\ walk # None /\ walk.seen \in SUBSET Tables
        /\ walk.start \in walk.seen /\ walk.start \in Child /\ walk.cur \in walk.seen
        /\ \A s \in walk.seen \ {walk.cur} : s \in Child /\ parent[s] \in walk.seen
        /\ IsFiniteSet(walk.seen) /\ Cardinality(walk.seen) = walk.hops + 1
    BY DEF Throws, TypeOK, SeenInv
  <2>2. CASE MeetsItself \/ Unresolved
    <3>1. Stuck(walk.seen)
      BY <2>1, <2>2 DEF MeetsItself, Unresolved, Stuck
    <3> QED BY <2>1, <3>1
  <2>3. CASE TooDeep
    <3>1. walk.seen \subseteq Child
      BY <2>1, <2>3 DEF TooDeep
    <3>2. Cardinality(walk.seen) > MaxHops
      BY <2>1, <2>3, HopsAssumption DEF TooDeep
    <3> QED BY <2>1, <3>1, <3>2
  <2> QED BY <2>2, <2>3 DEF Throws
<1> QED BY <1>1, <1>2, TypeInit, TypeStep, WalkStep, SeenStep, PTL DEF Spec

(***************************************************************************)
(* What a finished deployment leaves on the tables                         *)
(***************************************************************************)
PredicateOf(s) == IF s[1] = "direct" THEN <<>> ELSE file012.hops[s[2]]

\* A policy is there for one statement that has run, with its predicate.
ExactInv ==
  /\ pc = "deployed" => at = Len(ORDER) + 1
  /\ made \subseteq Statements
  /\ \A s \in made : policy[s[2]] = {PredicateOf(s)}
  /\ \A s, u \in made : s[2] = u[2] => s = u
  /\ \A t \in Tables : policy[t] # {} => \E s \in made : s[2] = t

LEMMA ExactStep == TypeOK /\ OrderInv /\ ExactInv /\ [Next]_vars => ExactInv'
<1> SUFFICES ASSUME TypeOK, OrderInv, ExactInv, [Next]_vars PROVE ExactInv'
  OBVIOUS
<1> USE DEF ExactInv
<1>1. CASE \/ ListTable \/ StartGenerator \/ StartWalk \/ Hop \/ EndWalk \/ StopGenerator
           \/ WriteEnable \/ NestExists \/ BuildMigration \/ UNCHANGED vars
  <2>1. UNCHANGED <<file012, at, made, policy>> /\ (pc' = "deployed" => pc = "deployed")
    BY <1>1 DEF ListTable, StartGenerator, StartWalk, Hop, EndWalk, StopGenerator, WriteEnable,
         NestExists, BuildMigration, vars, files, db
  <2> QED BY <2>1 DEF Statements, PredicateOf
<1>2. CASE WritePolicies
  <2>1. made = {} /\ pc' = "edit" /\ UNCHANGED <<at, made, policy>>
    BY <1>2 DEF WritePolicies, OrderInv, db
  <2> QED BY <2>1
<1>3. CASE CreateRoles \/ EnableRls \/ PoliciesDone \/ GrantsDone
  <2>1. /\ UNCHANGED <<file012, made, policy>>
        /\ at' = at + 1 /\ (pc' = "deployed" => pc = "deployed" \/ at = Len(ORDER))
    BY <1>3 DEF CreateRoles, EnableRls, PoliciesDone, GrantsDone, NextFile, files
  <2>2. pc = "deploy"
    BY <1>3 DEF CreateRoles, EnableRls, PoliciesDone, GrantsDone, In
  <2> QED BY <2>1, <2>2 DEF Statements, PredicateOf
<1>4. CASE RunGrant
  <2>1. UNCHANGED <<pc, file012, at, made, policy>>
    BY <1>4 DEF RunGrant, files
  <2> QED BY <2>1 DEF Statements, PredicateOf
<1>5. CASE CreatePolicy
  <2>1. PICK s \in Statements \ made :
          /\ policy[s[2]] = {}
          /\ policy' = [policy EXCEPT ![s[2]] = {PredicateOf(s)}]
          /\ made' = made \cup {s}
    BY <1>5 DEF CreatePolicy, PredicateOf
  <2>2. s[2] \in Tables /\ pc' # "deployed" /\ UNCHANGED file012
    BY <1>5 DEF CreatePolicy, Statements, TypeOK, In, files
  <2>3. \A u \in made : u[2] # s[2] /\ u[2] \in Tables
    BY <2>1 DEF TypeOK
  <2>4. \A t \in Tables : policy'[t] = IF t = s[2] THEN {PredicateOf(s)} ELSE policy[t]
    BY <2>1, <2>2 DEF TypeOK
  <2>5. \A u : PredicateOf(u)' = PredicateOf(u)
    BY <2>2 DEF PredicateOf
  <2>6. Statements' = Statements
    BY <2>2 DEF Statements
  <2>7. \A u \in made' : policy'[u[2]] = {PredicateOf(u)'}
    BY <2>1, <2>2, <2>3, <2>4, <2>5
  <2>8. \A t \in Tables : policy'[t] # {} => \E u \in made' : u[2] = t
    BY <2>1, <2>4
  <2>9. \A u, v \in made' : u[2] = v[2] => u = v
    BY <2>1, <2>3
  <2> QED BY <2>1, <2>2, <2>6, <2>7, <2>8, <2>9
<1>6. CASE FailDeployment
  <2>1. UNCHANGED file012 /\ pc' # "deployed"
    BY <1>6 DEF FailDeployment, files
  <2>2. CASE UNCHANGED <<made, policy>>
    BY <2>1, <2>2 DEF Statements, PredicateOf
  <2>3. CASE made' = {} /\ policy' = [t \in Tables |-> {}]
    BY <2>1, <2>3
  <2> QED BY <1>6, <2>2, <2>3 DEF FailDeployment
<1> QED BY <1>1, <1>2, <1>3, <1>4, <1>5, <1>6 DEF Next

\* After a deployment that ended, a table has the policy of the file and no
\* other, and no table is in both of its parts.
DeployedAsWritten ==
  pc = "deployed" =>
    /\ file012.direct \cap file012.child = {}
    /\ file012.direct \cup file012.child \subseteq enabled
    /\ \A t \in Tables : policy[t] = IF t \in file012.direct THEN {<<>>}
                                     ELSE IF t \in file012.child THEN {file012.hops[t]}
                                     ELSE {}

\* A table that both maps list is never deployed: its second CREATE POLICY is
\* refused (gen-rls.ts:153-186).  Every other listed table has row-level
\* security on and exactly the predicate the generator wrote for it.
THEOREM DeployedPoliciesAreTheFiles == Spec => []DeployedAsWritten
<1>1. Init => ExactInv
  BY DEF Init, ExactInv
<1>2. TypeOK /\ OrderInv /\ ExactInv => DeployedAsWritten
  <2> SUFFICES ASSUME TypeOK, OrderInv, ExactInv, pc = "deployed"
               PROVE  /\ file012.direct \cap file012.child = {}
                      /\ file012.direct \cup file012.child \subseteq enabled
                      /\ \A t \in Tables : policy[t] = IF t \in file012.direct THEN {<<>>}
                                                       ELSE IF t \in file012.child THEN {file012.hops[t]}
                                                       ELSE {}
    BY DEF DeployedAsWritten
  <2>1. Statements = made /\ file011 \subseteq enabled
    BY OrderFacts DEF OrderInv, ExactInv
  <2>2. file012.direct \cup file012.child \subseteq enabled
    BY <2>1 DEF OrderInv
  <2>3. /\ \A t \in file012.direct : <<"direct", t>> \in made
        /\ \A t \in file012.child : <<"child", t>> \in made
    BY <2>1 DEF Statements
  <2>4. file012.direct \cap file012.child = {}
    <3> SUFFICES ASSUME NEW t \in file012.direct \cap file012.child PROVE FALSE
      OBVIOUS
    <3>1. <<"direct", t>> = <<"child", t>>
      BY <2>3 DEF ExactInv
    <3> QED BY <3>1
  <2>5. ASSUME NEW t \in file012.direct PROVE policy[t] = {<<>>}
    <3>1. policy[<<"direct", t>>[2]] = {PredicateOf(<<"direct", t>>)}
      BY <2>3, Zenon DEF ExactInv
    <3> QED BY <3>1 DEF PredicateOf
  <2>6. ASSUME NEW t \in file012.child PROVE policy[t] = {file012.hops[t]}
    <3>1. policy[<<"child", t>>[2]] = {PredicateOf(<<"child", t>>)}
      BY <2>3, Zenon DEF ExactInv
    <3> QED BY <3>1 DEF PredicateOf
  <2>7. ASSUME NEW t \in Tables, t \notin file012.direct, t \notin file012.child PROVE policy[t] = {}
    BY <2>1, <2>7 DEF ExactInv, Statements
  <2> QED BY <2>2, <2>4, <2>5, <2>6, <2>7
<1> QED BY <1>1, <1>2, OrderInit, OrderStep, ExactStep, TypeInit, TypeStep, PTL DEF Spec
=============================================================================
