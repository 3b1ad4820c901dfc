----------------------- MODULE ReadThroughCacheProofs -----------------------
(***************************************************************************)
(* How stale a cached role or entitlement can be, for every TTL, latency,  *)
(* set of values and number of concurrent lookups, and what the guards let *)
(* through because of it, for every set of routes.                         *)
(***************************************************************************)
EXTENDS PermissionGuard, TLAPS

USE AbsentAssumption, TimeAssumption

(***************************************************************************)
(* What the key holds, and what a lookup holds, was true not too long ago. *)
(* The age of the key's value and the life it has left add up to a         *)
(* constant, so an old value is a value about to go.                       *)
(***************************************************************************)
TruthIsNow == since[truth] = 0

KeyAges == entry # Absent => ttl >= 1 /\ since[entry] + ttl <= TTL + Latency

HeldAges ==
  \A g \in Readers :
    /\ pc[g] = "fill" => got[g] # Absent /\ since[got[g]] <= waited[g]
    /\ pc[g] = "use" => since[got[g]] <= TTL - 1 + Latency + waited[g]

IInv == TypeOK /\ TruthIsNow /\ KeyAges /\ HeldAges /\ UsedValueIsRecent

LEMMA InitIInv == Init => IInv
BY DEF Init, IInv, TypeOK, TruthIsNow, KeyAges, HeldAges, UsedValueIsRecent,
       Known, MaxAge

LEMMA LookupKeepsIInv ==
  ASSUME IInv, NEW g \in Readers, Lookup(g)
  PROVE  IInv'
<1> USE DEF IInv, TypeOK, Known, MaxAge
<1>1. CASE Get(g)
  <2> USE <1>1 DEF Get, Read
  <2>1. TypeOK' /\ TruthIsNow' /\ KeyAges'
    BY DEF TruthIsNow, KeyAges
  <2>2. HeldAges'
    BY DEF HeldAges, KeyAges
  <2>3. UsedValueIsRecent'
    BY DEF UsedValueIsRecent
  <2> QED
    BY <2>1, <2>2, <2>3
<1>2. CASE Load(g)
  <2> USE <1>2 DEF Load, Read
  <2>1. TypeOK' /\ TruthIsNow' /\ KeyAges'
    BY DEF TruthIsNow, KeyAges
  <2>2. HeldAges'
    BY DEF HeldAges, TruthIsNow
  <2>3. UsedValueIsRecent'
    BY DEF UsedValueIsRecent
  <2> QED
    BY <2>1, <2>2, <2>3
<1>3. CASE Fill(g)
  <2> USE <1>3 DEF Fill
  <2>1. TypeOK' /\ TruthIsNow'
    BY DEF TruthIsNow
  <2>2. KeyAges' /\ HeldAges'
    BY DEF HeldAges, KeyAges
  <2>3. UsedValueIsRecent'
    BY DEF UsedValueIsRecent
  <2> QED
    BY <2>1, <2>2, <2>3
<1>4. CASE Use(g)
  <2> USE <1>4 DEF Use
  <2>1. TypeOK' /\ TruthIsNow' /\ KeyAges'
    BY DEF TruthIsNow, KeyAges
  <2>2. HeldAges'
    BY DEF HeldAges
  <2>3. UsedValueIsRecent'
    BY DEF UsedValueIsRecent, HeldAges
  <2> QED
    BY <2>1, <2>2, <2>3
<1> QED
  BY <1>1, <1>2, <1>3, <1>4 DEF Lookup

LEMMA LeaveKeepsIInv ==
  ASSUME IInv, NEW g \in Readers, Leave(g)
  PROVE  IInv'
BY DEF Leave, IInv, TypeOK, TruthIsNow, KeyAges, HeldAges, UsedValueIsRecent,
       Known, MaxAge

LEMMA ChangeKeepsIInv == IInv /\ Change => IInv'
BY DEF Change, IInv, TypeOK, TruthIsNow, KeyAges, HeldAges, UsedValueIsRecent,
       Known, MaxAge

\* Time adds a tick to every age and takes one off the key.
LEMMA TickKeepsIInv ==
  ASSUME IInv, Tick
  PROVE  IInv'
<1> USE DEF IInv, TypeOK, Known, MaxAge, Tick, Holding
<1>1. TypeOK' /\ TruthIsNow'
  BY DEF TruthIsNow
<1>2. KeyAges'
  BY DEF KeyAges
<1>3. HeldAges'
  BY DEF HeldAges
<1>4. UsedValueIsRecent'
  BY DEF UsedValueIsRecent
<1> QED
  BY <1>1, <1>2, <1>3, <1>4

LEMMA StutterKeepsIInv == IInv /\ UNCHANGED vars => IInv'
BY DEF vars, IInv, TypeOK, TruthIsNow, KeyAges, HeldAges, UsedValueIsRecent

\* The cache by itself, whoever uses it.
LEMMA CacheInvariance == Spec => []IInv
<1>1. IInv /\ [Next]_vars => IInv'
  BY LookupKeepsIInv, LeaveKeepsIInv, ChangeKeepsIInv, TickKeepsIInv,
     StutterKeepsIInv DEF Next
<1> QED
  BY InitIInv, <1>1, PTL DEF Spec

(***************************************************************************)
(* The guards: each of their steps is a step of the cache or leaves it     *)
(* alone, so what holds of the cache holds behind the guards.              *)
(***************************************************************************)
LEMMA GuardStepIsCacheStep ==
  ASSUME [GuardNext]_guardVars
  PROVE  [Next]_vars
<1>1. CASE \E g \in Readers : CanActivate(g) \/ Depart(g) \/ Resolve(g)
  <2>1. PICK g \in Readers : CanActivate(g) \/ Depart(g) \/ Resolve(g)
    BY <1>1
  <2>2. CASE Authenticate(g) \/ ReadDecorators(g)
    BY <2>2 DEF Authenticate, ReadDecorators
  <2>3. CASE ResolveRole(g)
    BY <2>3 DEF ResolveRole, Next, Lookup
  <2>4. CASE Decide(g)
    BY <2>4 DEF Decide, Next, Lookup
  <2>5. CASE Depart(g)
    BY <2>5 DEF Depart, Next
  <2>6. CASE Resolve(g)
    BY <2>6 DEF Resolve, Next
  <2> QED
    BY <2>1, <2>2, <2>3, <2>4, <2>5, <2>6 DEF CanActivate
<1>2. CASE Change \/ Tick
  BY <1>2 DEF Next
<1>3. CASE UNCHANGED guardVars
  BY <1>3 DEF guardVars
<1> QED
  BY <1>1, <1>2, <1>3 DEF GuardNext

\* The guards use the cache only in the ways ReadThroughCache has.
THEOREM GuardsUseTheCache == GuardSpec => Spec
<1>1. GuardInit => Init
  BY DEF GuardInit
<1> QED
  BY <1>1, GuardStepIsCacheStep, PTL DEF GuardSpec, Spec

\* No interleaving of lookups prolongs the life of a value that is gone from
\* the database: less than TTL + 2 * Latency ticks later nobody uses it.
THEOREM Freshness == GuardSpec => []UsedValueIsRecent
<1>1. IInv => UsedValueIsRecent
  BY DEF IInv
<1> QED
  BY <1>1, GuardsUseTheCache, CacheInvariance, PTL

(***************************************************************************)
(* A request waits for its role only if it has a user, and it has got to a *)
(* handler without one only as the decorators allow.                       *)
(***************************************************************************)
RoleHasUser == \A g \in Readers : stage[g] = "role" => user[g]

GuardIInv == IInv /\ GuardTypeOK /\ RoleHasUser /\ NoUserOnlyOnPublic

LEMMA InitGuardIInv == GuardInit => GuardIInv
BY InitIInv DEF GuardInit, GuardIInv, GuardTypeOK, RoleHasUser,
                NoUserOnlyOnPublic, Stages, IInv

LEMMA CanActivateKeepsGuardIInv ==
  ASSUME GuardIInv, IInv', NEW g \in Readers, CanActivate(g)
  PROVE  GuardIInv'
<1> USE RoutesAssumption
<1>1. TypeOK'
  BY DEF IInv
<1>2. CASE Authenticate(g)
  <2>1. PICK d \in Routes, valid \in BOOLEAN :
          /\ route' = [route EXCEPT ![g] = d]
          /\ user' = [user EXCEPT ![g] = valid /\ ~IsPublic(d)]
          /\ stage' = [stage EXCEPT ![g] = IF IsPublic(d) \/ valid
                                             THEN "permissions" ELSE "401"]
    BY <1>2 DEF Authenticate
  <2>2. GuardTypeOK'
    BY <1>1, <2>1 DEF GuardIInv, GuardTypeOK, Stages, IsPublic
  <2>3. RoleHasUser' /\ NoUserOnlyOnPublic'
    BY <2>1 DEF GuardIInv, GuardTypeOK, RoleHasUser, NoUserOnlyOnPublic, Stages
  <2> QED
    BY <2>2, <2>3 DEF GuardIInv
<1>3. CASE ReadDecorators(g)
  <2> USE <1>3 DEF ReadDecorators, Goto, GuardIInv, GuardTypeOK, Stages
  <2>1. GuardTypeOK'
    BY <1>1
  <2>2. RoleHasUser' /\ NoUserOnlyOnPublic'
    BY DEF RoleHasUser, NoUserOnlyOnPublic
  <2> QED
    BY <2>1, <2>2
<1>4. CASE ResolveRole(g)
  BY <1>1, <1>4 DEF ResolveRole, guard, GuardIInv, GuardTypeOK, RoleHasUser,
                    NoUserOnlyOnPublic
<1>5. CASE Decide(g)
  <2> USE <1>5 DEF Decide, Goto, GuardIInv, GuardTypeOK, Stages
  <2>1. GuardTypeOK'
    BY <1>1
  <2>2. RoleHasUser' /\ NoUserOnlyOnPublic'
    BY DEF RoleHasUser, NoUserOnlyOnPublic
  <2> QED
    BY <2>1, <2>2
<1> QED
  BY <1>2, <1>3, <1>4, <1>5 DEF CanActivate

LEMMA GuardNextKeepsGuardIInv == GuardIInv /\ IInv' /\ [GuardNext]_guardVars => GuardIInv'
<1> SUFFICES ASSUME GuardIInv, IInv', [GuardNext]_guardVars
             PROVE  GuardIInv'
  OBVIOUS
<1>1. TypeOK'
  BY DEF IInv
<1>2. ASSUME NEW g \in Readers, Depart(g)
      PROVE  GuardIInv'
  BY <1>1, <1>2 DEF Depart, GuardIInv, GuardTypeOK, RoleHasUser,
                    NoUserOnlyOnPublic, Stages
<1>3. CASE UNCHANGED guard
  BY <1>1, <1>3 DEF guard, GuardIInv, GuardTypeOK, RoleHasUser, NoUserOnlyOnPublic
<1> QED
  BY <1>2, <1>3, CanActivateKeepsGuardIInv DEF GuardNext, Resolve, guardVars

LEMMA GuardInvariance == GuardSpec => []GuardIInv
BY InitGuardIInv, GuardNextKeepsGuardIInv, GuardsUseTheCache, CacheInvariance,
   PTL DEF GuardSpec

\* Type correctness of the guards and of the cache under them.
THEOREM TypeCorrect == GuardSpec => []GuardTypeOK
<1>1. GuardIInv => GuardTypeOK
  BY DEF GuardIInv
<1> QED
  BY <1>1, GuardInvariance, PTL

\* A handler runs without a user only on a public route without permissions.
THEOREM GuardsFailClosed == GuardSpec => []NoUserOnlyOnPublic
<1>1. GuardIInv => NoUserOnlyOnPublic
  BY DEF GuardIInv
<1> QED
  BY <1>1, GuardInvariance, PTL

\* Whoever reaches a handler had its permissions at most MaxAge ticks ago.
THEOREM HandlersHadPermission == GuardSpec => HandlerHadPermission
<1> DEFINE Had(g) == stage[g] # "handler" /\ stage'[g] = "handler"
                        /\ Required(route'[g]) # Undefined
                     => \E v \in Values : /\ since[v] <= MaxAge
                                          /\ Required(route'[g]) \subseteq PERMISSIONS[v]
<1>1. ASSUME GuardIInv, [GuardNext]_guardVars, NEW g \in Readers, ~Had(g)
      PROVE  FALSE
  <2>1. /\ stage \in [Readers -> Stages] /\ route \in [Readers -> Routes \cup {Undefined}]
        /\ stage[g] # "handler" /\ stage'[g] = "handler"
        /\ Required(route'[g]) # Undefined
    BY <1>1 DEF GuardIInv, GuardTypeOK
  <2>2. PICK r \in Readers : CanActivate(r) \/ Depart(r)
    BY <1>1, <2>1 DEF GuardNext, Resolve, guard, guardVars
  <2>3. ~Depart(r) /\ ~Authenticate(r) /\ ~ResolveRole(r)
    BY <2>1 DEF Depart, Authenticate, ResolveRole, guard
  <2>4. ~ReadDecorators(r)
    BY <2>1 DEF ReadDecorators, Goto
  <2>5. Decide(r) /\ r = g
    BY <2>1, <2>2, <2>3, <2>4 DEF CanActivate, Decide, Goto
  <2>6. /\ got[g] # Absent
        /\ Required(route'[g]) \subseteq PERMISSIONS[got[g]]
    BY <2>1, <2>5 DEF Decide, Goto
  <2>7. got[g] \in Values /\ since[got[g]] <= MaxAge
    BY <1>1, <2>5, <2>6 DEF GuardIInv, IInv, TypeOK, HeldAges, Decide, Use, Known, MaxAge
  <2> QED
    BY <1>1, <2>6, <2>7
<1>2. GuardIInv /\ [GuardNext]_guardVars => \A g \in Readers : Had(g)
  BY <1>1
<1>3. GuardSpec => [][\A g \in Readers : Had(g)]_guardVars
  BY <1>2, GuardInvariance, PTL DEF GuardSpec
<1> QED
  BY <1>3 DEF HandlerHadPermission

(***************************************************************************)
(* The other direction: a user who is turned away lacked what was asked    *)
(* for.  That there is no membership is never stored, so a lookup that     *)
(* says so has read it from the database.                                  *)
(***************************************************************************)
AbsenceIsFresh ==
  \A g \in Readers :
    pc[g] = "use" /\ got[g] = Absent => since[Absent] <= waited[g]

LEMMA LookupKeepsAbsence ==
  ASSUME IInv, AbsenceIsFresh, NEW g \in Readers, Lookup(g)
  PROVE  AbsenceIsFresh'
<1> USE DEF IInv, TypeOK, Known, AbsenceIsFresh
<1>1. CASE Get(g)
  BY <1>1 DEF Get, Read
<1>2. CASE Load(g)
  BY <1>2 DEF Load, Read, TruthIsNow
<1>3. CASE Fill(g)
  BY <1>3 DEF Fill, HeldAges
<1>4. CASE Use(g)
  BY <1>4 DEF Use
<1> QED
  BY <1>1, <1>2, <1>3, <1>4 DEF Lookup

LEMMA NextKeepsAbsence == IInv /\ AbsenceIsFresh /\ [Next]_vars => AbsenceIsFresh'
<1> SUFFICES ASSUME IInv, AbsenceIsFresh, [Next]_vars
             PROVE  AbsenceIsFresh'
  OBVIOUS
<1>1. ASSUME NEW g \in Readers, Leave(g)
      PROVE  AbsenceIsFresh'
  BY <1>1 DEF Leave, IInv, TypeOK, AbsenceIsFresh
<1>2. CASE Change
  BY <1>2 DEF Change, IInv, TypeOK, Known, AbsenceIsFresh
<1>3. CASE Tick
  BY <1>3 DEF Tick, Holding, IInv, TypeOK, Known, MaxAge, AbsenceIsFresh
<1>4. CASE UNCHANGED vars
  BY <1>4 DEF vars, AbsenceIsFresh
<1> QED
  BY <1>1, <1>2, <1>3, <1>4, LookupKeepsAbsence DEF Next

LEMMA AbsenceInvariance == GuardSpec => []AbsenceIsFresh
<1>1. Init => AbsenceIsFresh
  BY DEF Init, AbsenceIsFresh
<1> QED
  BY <1>1, NextKeepsAbsence, CacheInvariance, GuardsUseTheCache, PTL DEF Spec

\* A 403 after the role was looked up, and a 404.
RefusedWithReason(g) ==
  stage[g] = "role" =>
    /\ stage'[g] = "403" => \E v \in Values :
                               /\ since[v] <= MaxAge
                               /\ ~(Required(route[g]) \subseteq PERMISSIONS[v])
    /\ stage'[g] = "404" => since[Absent] <= Latency

\* Nobody is turned away without a reason: behind a 403 is a role without one
\* of the permissions, which the user had at most MaxAge ticks ago, and behind
\* a 404 that the user was no member at most Latency ticks ago, so that the
\* cache keeps out nobody who has joined (permission.guard.ts 60-114).
THEOREM RefusalsHadReason == GuardSpec => [][\A g \in Readers : RefusedWithReason(g)]_guardVars
<1>1. ASSUME GuardIInv, AbsenceIsFresh, [GuardNext]_guardVars, NEW g \in Readers,
             stage[g] = "role", stage'[g] \in {"403", "404"}
      PROVE  /\ Decide(g)
             /\ got[g] # Absent => got[g] \in Values /\ since[got[g]] <= MaxAge
             /\ got[g] = Absent => since[Absent] <= Latency
  <2>1. stage \in [Readers -> Stages] /\ stage'[g] # stage[g]
    BY <1>1 DEF GuardIInv, GuardTypeOK
  <2>2. PICK r \in Readers : CanActivate(r) \/ Depart(r)
    BY <1>1, <2>1 DEF GuardNext, Resolve, guard, guardVars
  <2>3. ~Depart(r) /\ ~Authenticate(r) /\ ~ResolveRole(r)
    BY <1>1, <2>1 DEF Depart, Authenticate, ResolveRole, guard
  <2>4. ~ReadDecorators(r)
    BY <1>1, <2>1 DEF ReadDecorators, Goto
  <2>5. Decide(r) /\ r = g
    BY <2>1, <2>2, <2>3, <2>4 DEF CanActivate, Decide, Goto
  <2>6. pc[g] = "use" /\ got[g] \in Known /\ waited[g] \in 0 .. Latency
    BY <1>1, <2>5 DEF GuardIInv, IInv, TypeOK, Decide, Use
  <2>7. since \in [Known -> 0 .. MaxAge + 1]
    BY <1>1 DEF GuardIInv, IInv, TypeOK
  <2>8. since[got[g]] <= MaxAge
    BY <1>1, <2>6, <2>7 DEF GuardIInv, IInv, HeldAges, MaxAge
  <2>9. got[g] = Absent => since[Absent] <= Latency
    BY <1>1, <2>6, <2>7 DEF AbsenceIsFresh, Known
  <2> QED
    BY <2>5, <2>6, <2>8, <2>9 DEF Known
<1>2. ASSUME GuardIInv, AbsenceIsFresh, [GuardNext]_guardVars, NEW g \in Readers
      PROVE  RefusedWithReason(g)
  <2>1. GuardTypeOK
    BY <1>2 DEF GuardIInv
  <2>2. CASE stage[g] = "role" /\ stage'[g] = "403"
    <3>1. Decide(g) /\ stage'[g] = "403"
      BY <1>1, <1>2, <2>2
    <3>2. got[g] # Absent /\ ~(Required(route[g]) \subseteq PERMISSIONS[got[g]])
      BY <2>1, <3>1 DEF Decide, Goto, GuardTypeOK
    <3> QED
      BY <1>1, <1>2, <2>2, <3>2 DEF RefusedWithReason
  <2>3. CASE stage[g] = "role" /\ stage'[g] = "404"
    <3>1. Decide(g) /\ stage'[g] = "404"
      BY <1>1, <1>2, <2>3
    <3>2. got[g] = Absent
      BY <2>1, <3>1 DEF Decide, Goto, GuardTypeOK
    <3> QED
      BY <1>1, <1>2, <2>3, <3>2 DEF RefusedWithReason
  <2> QED
    BY <2>2, <2>3 DEF RefusedWithReason
<1>3. GuardIInv /\ AbsenceIsFresh /\ [GuardNext]_guardVars
        => \A g \in Readers : RefusedWithReason(g)
  BY <1>2
<1> QED
  BY <1>3, GuardInvariance, AbsenceInvariance, PTL DEF GuardSpec

\* VIEWER < EDITOR < ADMIN < OWNER: who is let through with a role is let
\* through with every stronger one (permissions.ts 28-29).
THEOREM RolesAreCumulative ==
  /\ PERMISSIONS["VIEWER"] \subseteq PERMISSIONS["EDITOR"]
  /\ PERMISSIONS["EDITOR"] \subseteq PERMISSIONS["ADMIN"]
  /\ PERMISSIONS["ADMIN"] \subseteq PERMISSIONS["OWNER"]
BY DEF PERMISSIONS, OwnerPermissions, AdminPermissions, EditorPermissions
=============================================================================
