------------------------- MODULE TenantContextProofs -------------------------
(***************************************************************************)
(* Isolation of the two doors, for any number of organizations, callers    *)
(* and connections.                                                        *)
(***************************************************************************)
EXTENDS TenantContext, TLAPS

USE OrgAssumption, ConnAssumption

(***************************************************************************)
(* The inductive invariant.                                                *)
(***************************************************************************)

\* A connection serves one transaction.
ConnsServeOne ==
  \A s, t \in Transactions : conn[s] # None /\ conn[s] = conn[t] => s = t

\* A call that has not begun holds nothing.
WaitersHoldNothing ==
  \A c \in Callers : pc[c] \in {"idle", "queued"} => conn[Outer(c)] = None

\* Past set_config the connection carries the organization of its caller ...
SettingIsOwn ==
  \A c \in Callers :
    pc[c] \in {"open", "nestQueued", "nested"} /\ door[c] \in Orgs
        /\ conn[Outer(c)] # None
      => setting[conn[Outer(c)]] = door[c]

\* ... and no other connection carries an organization.
SettingHasCaller ==
  \A x \in Conns :
    setting[x] \in Orgs
      => \E c \in Callers : conn[Outer(c)] = x /\ door[c] \in Orgs

\* Only a withTenant comes to set_config.
BegunIsTenant == \A c \in Callers : pc[c] = "begun" => door[c] \in Orgs

IInv == /\ TypeOK /\ ConnsServeOne /\ WaitersHoldNothing /\ BegunIsTenant
        /\ SettingIsOwn /\ SettingHasCaller
        /\ TenantIsolation /\ PlatformSeesNoTenant

USE DEF Phases

\* A caller's transactions are two, and its own.
LEMMA OwnTransactions ==
  \A c \in Callers :
    /\ Outer(c) \in Transactions /\ Inner(c) \in Transactions
    /\ \A d \in Callers : Outer(c) # Inner(d) /\ (Outer(c) = Outer(d) => c = d)
BY DEF Outer, Inner, Transactions

USE OwnTransactions

LEMMA InitIInv == Init => IInv
<1> SUFFICES ASSUME Init PROVE IInv
  OBVIOUS
<1> USE DEF Init
<1>1. TypeOK /\ ConnsServeOne /\ WaitersHoldNothing /\ BegunIsTenant
  BY DEF TypeOK, ConnsServeOne, WaitersHoldNothing, BegunIsTenant
<1>2. SettingIsOwn /\ SettingHasCaller
  BY DEF SettingIsOwn, SettingHasCaller
<1>3. TenantIsolation /\ PlatformSeesNoTenant
  BY DEF TenantIsolation, PlatformSeesNoTenant
<1> QED
  BY <1>1, <1>2, <1>3 DEF IInv

(***************************************************************************)
(* The pool: what Begin and Release do to the invariant.                   *)
(***************************************************************************)
LEMMA BeginTakesFreeConnection ==
  ASSUME TypeOK, ConnsServeOne, NEW s \in Transactions, Begin(s)
  PROVE  /\ conn' \in [Transactions -> Conns \cup {None}]
         /\ \A t \in Transactions \ {s} : conn'[t] = conn[t]
         /\ ConnsServeOne'
<1>1. PICK x \in Free : conn' = [conn EXCEPT ![s] = x]
  BY DEF Begin
<1>2. x \in Conns /\ \A t \in Transactions : conn[t] # x
  BY <1>1 DEF Free
<1> QED
  BY <1>1, <1>2 DEF TypeOK, ConnsServeOne

LEMMA ForgottenIsNoOrg ==
  ASSUME NEW g
  PROVE  Forgotten(g) \in {"unset", "empty"} /\ Forgotten(g) \notin Orgs
BY DEF Forgotten

LEMMA ReleaseKeepsPool ==
  ASSUME TypeOK, ConnsServeOne, SettingIsOwn, SettingHasCaller,
         NEW s \in Transactions, Release(s), UNCHANGED door,
         \A c \in Callers : pc'[c] \in {"open", "nestQueued", "nested"}
                             => pc[c] \in {"open", "nestQueued", "nested"}
  PROVE  /\ conn' \in [Transactions -> Conns \cup {None}]
         /\ setting' \in [Conns -> Orgs \cup {"unset", "empty"}]
         /\ conn'[s] = None
         /\ \A t \in Transactions \ {s} : conn'[t] = conn[t]
         /\ ConnsServeOne' /\ SettingIsOwn' /\ SettingHasCaller'
<1>1. /\ conn' = [conn EXCEPT ![s] = None]
      /\ conn' \in [Transactions -> Conns \cup {None}]
      /\ conn'[s] = None
      /\ \A t \in Transactions \ {s} : conn'[t] = conn[t]
  BY DEF Release, TypeOK
<1>2. ConnsServeOne'
  BY <1>1 DEF ConnsServeOne
<1>3. /\ setting' \in [Conns -> Orgs \cup {"unset", "empty"}]
      /\ \A x \in Conns \ {conn[s]} : setting'[x] = setting[x]
      /\ conn[s] # None => setting'[conn[s]] \notin Orgs
  BY ForgottenIsNoOrg DEF Release, TypeOK
<1>4. SettingIsOwn'
  <2> SUFFICES ASSUME NEW c \in Callers,
                      pc'[c] \in {"open", "nestQueued", "nested"},
                      door[c] \in Orgs, conn'[Outer(c)] # None
               PROVE  setting'[conn'[Outer(c)]] = door[c]
    BY DEF SettingIsOwn
  <2>1. Outer(c) # s /\ conn'[Outer(c)] = conn[Outer(c)]
    BY <1>1
  <2>2. conn[Outer(c)] # conn[s] /\ conn[Outer(c)] \in Conns
    BY <2>1 DEF ConnsServeOne, TypeOK
  <2> QED
    BY <1>3, <2>1, <2>2 DEF SettingIsOwn
<1>5. SettingHasCaller'
  <2> SUFFICES ASSUME NEW x \in Conns, setting'[x] \in Orgs
               PROVE  \E c \in Callers : conn'[Outer(c)] = x /\ door[c] \in Orgs
    BY DEF SettingHasCaller
  <2>1. x # conn[s] /\ setting[x] \in Orgs
    BY <1>3
  <2>2. PICK c \in Callers : conn[Outer(c)] = x /\ door[c] \in Orgs
    BY <2>1 DEF SettingHasCaller
  <2> QED
    BY <1>1, <2>1, <2>2
<1> QED
  BY <1>1, <1>2, <1>3, <1>4, <1>5

(***************************************************************************)
(* One lemma for each action.                                              *)
(***************************************************************************)
LEMMA CallKeepsIInv ==
  ASSUME IInv, NEW c \in Callers, Call(c)
  PROVE  IInv'
<1> USE DEF IInv, Call, Goto
<1>1. TypeOK' /\ BegunIsTenant' /\ WaitersHoldNothing'
  BY DEF TypeOK, BegunIsTenant, WaitersHoldNothing
<1>2. ConnsServeOne'
  BY DEF ConnsServeOne
<1>3. SettingIsOwn'
  BY DEF SettingIsOwn, TypeOK
<1>4. SettingHasCaller'
  <2> SUFFICES ASSUME NEW x \in Conns, setting[x] \in Orgs
               PROVE  \E d \in Callers : conn[Outer(d)] = x /\ door'[d] \in Orgs
    BY DEF SettingHasCaller
  <2>1. PICK d \in Callers : conn[Outer(d)] = x /\ door[d] \in Orgs
    BY DEF SettingHasCaller
  <2>2. d # c
    BY <2>1 DEF WaitersHoldNothing
  <2> QED
    BY <2>1, <2>2 DEF TypeOK
<1>5. TenantIsolation' /\ PlatformSeesNoTenant'
  BY DEF TenantIsolation, PlatformSeesNoTenant, TypeOK
<1> QED
  BY <1>1, <1>2, <1>3, <1>4, <1>5

LEMMA AcquireKeepsIInv ==
  ASSUME IInv, NEW c \in Callers, Acquire(c)
  PROVE  IInv'
<1> USE DEF IInv, Acquire, Goto
<1>1. /\ conn' \in [Transactions -> Conns \cup {None}]
      /\ \A t \in Transactions \ {Outer(c)} : conn'[t] = conn[t]
      /\ ConnsServeOne'
  BY BeginTakesFreeConnection
<1>2. conn[Outer(c)] = None
  BY DEF WaitersHoldNothing
<1>3. TypeOK' /\ BegunIsTenant' /\ WaitersHoldNothing'
  BY <1>1 DEF TypeOK, BegunIsTenant, WaitersHoldNothing
<1>4. SettingIsOwn'
  BY <1>1 DEF SettingIsOwn, TypeOK
<1>5. SettingHasCaller'
  BY <1>1, <1>2 DEF SettingHasCaller
<1>6. TenantIsolation' /\ PlatformSeesNoTenant'
  BY DEF TenantIsolation, PlatformSeesNoTenant
<1> QED
  BY <1>1, <1>3, <1>4, <1>5, <1>6

LEMMA SetConfigKeepsIInv ==
  ASSUME IInv, NEW c \in Callers, SetConfig(c)
  PROVE  IInv'
<1> USE DEF IInv, SetConfig, Goto
<1>1. TypeOK' /\ BegunIsTenant' /\ WaitersHoldNothing' /\ ConnsServeOne'
  BY DEF TypeOK, BegunIsTenant, WaitersHoldNothing, ConnsServeOne
<1>2. /\ conn[Outer(c)] \in Conns /\ door[c] \in Orgs
      /\ setting'[conn[Outer(c)]] = door[c]
      /\ \A x \in Conns \ {conn[Outer(c)]} : setting'[x] = setting[x]
  BY DEF TypeOK, BegunIsTenant
<1>3. SettingIsOwn'
  <2> SUFFICES ASSUME NEW d \in Callers,
                      pc'[d] \in {"open", "nestQueued", "nested"},
                      door[d] \in Orgs, conn[Outer(d)] # None
               PROVE  setting'[conn[Outer(d)]] = door[d]
    BY DEF SettingIsOwn
  <2>1. CASE d = c
    BY <1>2, <2>1
  <2>2. CASE d # c
    <3>1. pc[d] = pc'[d] /\ conn[Outer(d)] \in Conns /\ conn[Outer(d)] # conn[Outer(c)]
      BY <2>2 DEF TypeOK, ConnsServeOne
    <3> QED
      BY <1>2, <3>1 DEF SettingIsOwn
  <2> QED
    BY <2>1, <2>2
<1>4. SettingHasCaller'
  BY <1>2 DEF SettingHasCaller
<1>5. TenantIsolation' /\ PlatformSeesNoTenant'
  BY DEF TenantIsolation, PlatformSeesNoTenant
<1> QED
  BY <1>1, <1>3, <1>4, <1>5

\* A statement changes no connection.
LEMMA QueryKeepsPool ==
  ASSUME IInv, UNCHANGED <<door, conn, setting>>,
         \A c \in Callers : \/ pc'[c] = pc[c]
                            \/ pc[c] = "open" /\ pc'[c] = "nestQueued"
                            \/ pc'[c] = "closing"
  PROVE  ConnsServeOne' /\ WaitersHoldNothing' /\ SettingIsOwn' /\ SettingHasCaller'
<1> USE DEF IInv
<1>1. ConnsServeOne' /\ SettingHasCaller'
  BY DEF ConnsServeOne, SettingHasCaller
<1>2. WaitersHoldNothing'
  BY DEF WaitersHoldNothing
<1>3. SettingIsOwn'
  BY DEF SettingIsOwn
<1> QED
  BY <1>1, <1>2, <1>3

LEMMA TenantQueryKeepsIInv ==
  ASSUME IInv, NEW c \in Callers, TenantQuery(c)
  PROVE  IInv'
<1> USE DEF IInv, TenantQuery
<1>1. ConnsServeOne' /\ WaitersHoldNothing' /\ SettingIsOwn' /\ SettingHasCaller'
  BY QueryKeepsPool
<1>2. setting[conn[Outer(c)]] = door[c]
  BY DEF SettingIsOwn
<1>3. saw' = [saw EXCEPT ![c] = @ \cup {door[c]}]
  BY <1>2 DEF Lookup, Shows
<1>4. TypeOK' /\ BegunIsTenant' /\ TenantIsolation' /\ PlatformSeesNoTenant'
  BY <1>3 DEF TypeOK, BegunIsTenant, TenantIsolation, PlatformSeesNoTenant
<1> QED
  BY <1>1, <1>4

\* The connection of a platform transaction carries no organization.
LEMMA PlatformConnectionIsBlank ==
  ASSUME IInv, NEW c \in Callers, NEW s \in Transactions, conn[s] # None,
         s = Inner(c) \/ (s = Outer(c) /\ door[c] = "platform")
  PROVE  setting[conn[s]] \in {"unset", "empty"}
<1> USE DEF IInv
<1> SUFFICES ASSUME setting[conn[s]] \in Orgs PROVE FALSE
  BY DEF TypeOK
<1>1. conn[s] \in Conns
  BY DEF TypeOK
<1>2. PICK d \in Callers : conn[Outer(d)] = conn[s] /\ door[d] \in Orgs
  BY <1>1 DEF SettingHasCaller
<1>3. Outer(d) = s
  BY <1>1, <1>2 DEF ConnsServeOne
<1> QED
  BY <1>2, <1>3

LEMMA PlatformQueryKeepsIInv ==
  ASSUME IInv, NEW c \in Callers, Platform(c)
  PROVE  IInv'
<1> USE DEF IInv, Goto
<1>1. PICK s \in Transactions :
        /\ s = Inner(c) \/ (s = Outer(c) /\ door[c] = "platform")
        /\ pc[c] \in {"open", "nested"}
        /\ PlatformQuery(c, s)
  BY DEF Platform
<1>2. setting[conn[s]] \in {"unset", "empty"}
  BY <1>1, PlatformConnectionIsBlank DEF PlatformQuery
<1>3. PICK found \in {"no row", "22P02"} :
        /\ answer' = [answer EXCEPT ![c] = found]
        /\ pc' = [pc EXCEPT ![c] = IF found = "22P02" THEN "closing" ELSE pc[c]]
        /\ UNCHANGED <<door, conn, setting, saw, peeked>>
  BY <1>1, <1>2 DEF PlatformQuery, Lookup, Shows
<1>4. pc' = [pc EXCEPT ![c] = pc'[c]] /\ pc'[c] \in {"closing", pc[c]}
  BY <1>3 DEF TypeOK
<1>5. TypeOK' /\ BegunIsTenant'
  BY <1>3, <1>4 DEF TypeOK, BegunIsTenant
<1>6. TenantIsolation' /\ PlatformSeesNoTenant'
  BY <1>3 DEF TenantIsolation, PlatformSeesNoTenant
<1>7. ConnsServeOne' /\ WaitersHoldNothing' /\ SettingIsOwn' /\ SettingHasCaller'
  <2>1. \A d \in Callers : pc'[d] = pc[d] \/ pc'[d] = "closing"
    BY <1>3 DEF TypeOK
  <2> QED
    BY <1>3, <2>1, QueryKeepsPool
<1> QED
  BY <1>5, <1>6, <1>7

\* A step of the callback that touches neither the database nor the pool.
LEMMA CallbackKeepsIInv ==
  ASSUME IInv, NEW c \in Callers, Nest(c) \/ Throw(c)
  PROVE  IInv'
<1> USE DEF IInv, Goto, Nest, Throw
<1>1. TypeOK' /\ BegunIsTenant' /\ TenantIsolation' /\ PlatformSeesNoTenant'
  BY DEF TypeOK, BegunIsTenant, TenantIsolation, PlatformSeesNoTenant
<1>2. ConnsServeOne' /\ WaitersHoldNothing' /\ SettingIsOwn' /\ SettingHasCaller'
  BY QueryKeepsPool DEF TypeOK
<1> QED
  BY <1>1, <1>2

LEMMA AcquireNestedKeepsIInv ==
  ASSUME IInv, NEW c \in Callers, AcquireNested(c)
  PROVE  IInv'
<1> USE DEF IInv, AcquireNested, Goto
<1>1. /\ conn' \in [Transactions -> Conns \cup {None}]
      /\ \A t \in Transactions \ {Inner(c)} : conn'[t] = conn[t]
      /\ ConnsServeOne'
  BY BeginTakesFreeConnection
<1>2. \A d \in Callers : conn'[Outer(d)] = conn[Outer(d)]
  BY <1>1
<1>3. TypeOK' /\ BegunIsTenant' /\ WaitersHoldNothing'
  BY <1>1, <1>2 DEF TypeOK, BegunIsTenant, WaitersHoldNothing
<1>4. SettingIsOwn' /\ SettingHasCaller'
  BY <1>2 DEF SettingIsOwn, SettingHasCaller, TypeOK
<1>5. TenantIsolation' /\ PlatformSeesNoTenant'
  BY DEF TenantIsolation, PlatformSeesNoTenant
<1> QED
  BY <1>1, <1>3, <1>4, <1>5

LEMMA GiveUpKeepsIInv ==
  ASSUME IInv, NEW c \in Callers, GiveUp(c)
  PROVE  IInv'
<1> USE DEF IInv, GiveUp, Goto
<1>1. TypeOK' /\ BegunIsTenant' /\ WaitersHoldNothing' /\ ConnsServeOne'
  BY DEF TypeOK, BegunIsTenant, WaitersHoldNothing, ConnsServeOne
<1>2. SettingIsOwn' /\ SettingHasCaller'
  <2>1. \A d \in Callers : pc'[d] \in {pc[d], "idle", "closing"}
    BY DEF TypeOK
  <2> QED
    BY <2>1 DEF SettingIsOwn, SettingHasCaller
<1>3. TenantIsolation' /\ PlatformSeesNoTenant'
  BY DEF TenantIsolation, PlatformSeesNoTenant
<1> QED
  BY <1>1, <1>2, <1>3

\* Every end of a transaction: End, EndNested, RollbackNested and TimeOut.
LEMMA ReleaseKeepsIInv ==
  ASSUME IInv, NEW s \in Transactions, Release(s),
         UNCHANGED <<door, saw, peeked, answer>>,
         pc' \in [Callers -> Phases],
         \A c \in Callers : pc'[c] = "begun" => pc[c] = "begun",
         \A c \in Callers : pc'[c] \in {"open", "nestQueued", "nested"}
                             => pc[c] \in {"open", "nestQueued", "nested"},
         \A c \in Callers : pc'[c] \in {"idle", "queued"}
                             => s = Outer(c) \/ pc[c] \in {"idle", "queued"}
  PROVE  IInv'
<1> USE DEF IInv
<1>1. /\ conn' \in [Transactions -> Conns \cup {None}]
      /\ setting' \in [Conns -> Orgs \cup {"unset", "empty"}]
      /\ conn'[s] = None
      /\ \A t \in Transactions \ {s} : conn'[t] = conn[t]
      /\ ConnsServeOne' /\ SettingIsOwn' /\ SettingHasCaller'
  BY ReleaseKeepsPool
<1>2. TypeOK' /\ BegunIsTenant' /\ TenantIsolation' /\ PlatformSeesNoTenant'
  BY <1>1 DEF TypeOK, BegunIsTenant, TenantIsolation, PlatformSeesNoTenant
<1>3. WaitersHoldNothing'
  BY <1>1 DEF WaitersHoldNothing
<1> QED
  BY <1>1, <1>2, <1>3

LEMMA EndKeepsIInv ==
  ASSUME IInv, NEW c \in Callers, EndNested(c) \/ End(c) \/ RollbackNested(c)
  PROVE  IInv'
<1> USE DEF Goto
<1> pc \in [Callers -> Phases]
  BY DEF IInv, TypeOK
<1>1. CASE EndNested(c)
  BY <1>1, ReleaseKeepsIInv DEF EndNested
<1>2. CASE End(c)
  BY <1>2, ReleaseKeepsIInv DEF End
<1>3. CASE RollbackNested(c)
  BY <1>3, ReleaseKeepsIInv DEF RollbackNested
<1> QED
  BY <1>1, <1>2, <1>3

LEMMA TimeOutKeepsIInv ==
  ASSUME IInv, NEW s \in Transactions, TimeOut(s)
  PROVE  IInv'
BY ReleaseKeepsIInv DEF TimeOut, IInv, TypeOK

LEMMA StutterKeepsIInv ==
  ASSUME IInv, UNCHANGED vars
  PROVE  IInv'
BY DEF IInv, vars, TypeOK, ConnsServeOne, WaitersHoldNothing, BegunIsTenant,
       SettingIsOwn, SettingHasCaller, TenantIsolation, PlatformSeesNoTenant

LEMMA NextKeepsIInv == IInv /\ [Next]_vars => IInv'
<1> SUFFICES ASSUME IInv, [Next]_vars PROVE IInv'
  OBVIOUS
<1>1. ASSUME NEW c \in Callers, Call(c) \/ Acquire(c) \/ SetConfig(c) PROVE IInv'
  BY <1>1, CallKeepsIInv, AcquireKeepsIInv, SetConfigKeepsIInv
<1>2. ASSUME NEW c \in Callers, TenantQuery(c) \/ Platform(c) PROVE IInv'
  BY <1>2, TenantQueryKeepsIInv, PlatformQueryKeepsIInv
<1>3. ASSUME NEW c \in Callers, Nest(c) \/ Throw(c) \/ AcquireNested(c) PROVE IInv'
  BY <1>3, CallbackKeepsIInv, AcquireNestedKeepsIInv
<1>4. ASSUME NEW c \in Callers, GiveUp(c) PROVE IInv'
  BY <1>4, GiveUpKeepsIInv
<1>5. ASSUME NEW c \in Callers, EndNested(c) \/ End(c) \/ RollbackNested(c) PROVE IInv'
  BY <1>5, EndKeepsIInv
<1>6. ASSUME NEW s \in Transactions, TimeOut(s) PROVE IInv'
  BY <1>6, TimeOutKeepsIInv
<1>7. CASE UNCHANGED vars
  BY <1>7, StutterKeepsIInv
<1> QED
  BY <1>1, <1>2, <1>3, <1>4, <1>5, <1>6, <1>7 DEF Next, Progress

LEMMA Invariance == Spec => []IInv
<1>1. Init => IInv
  BY InitIInv
<1>2. IInv /\ [Next]_vars => IInv'
  BY NextKeepsIInv
<1> QED
  BY <1>1, <1>2, PTL DEF Spec

(***************************************************************************)
(* The theorems.                                                           *)
(***************************************************************************)

\* Every state has the declared types, whatever organizations call.
THEOREM TypeCorrect == Spec => []TypeOK
<1>1. IInv => TypeOK
  BY DEF IInv
<1> QED
  BY <1>1, Invariance, PTL

\* No withTenant callback is ever given a row of another organization, although
\* connections go from tenant to tenant and time out under their callbacks.
THEOREM TenantsAreIsolated == Spec => []TenantIsolation
<1>1. IInv => TenantIsolation
  BY DEF IInv
<1> QED
  BY <1>1, Invariance, PTL

\* No platform transaction is ever given a tenant's row, nested or not.
THEOREM PlatformIsBlind == Spec => []PlatformSeesNoTenant
<1>1. IInv => PlatformSeesNoTenant
  BY DEF IInv
<1> QED
  BY <1>1, Invariance, PTL
(***************************************************************************)
(* What the calls leave behind, and what the platform door never gives.    *)
(***************************************************************************)

\* A caller has its second connection only while its withPlatform runs or is
\* being rolled back.
InnerWithinOuter ==
  \A c \in Callers : conn[Inner(c)] # None => pc[c] \in {"nested", "closing"}

\* Of a call that has not begun or has returned nothing is left in the pool: it
\* holds neither of its two connections, and no connection that carries an
\* organization is without a withTenant of that organization that is under way.
NothingIsLeft ==
  /\ \A c \in Callers : pc[c] \in {"idle", "queued"} =>
       conn[Outer(c)] = None /\ conn[Inner(c)] = None
  /\ \A x \in Conns : setting[x] \in Orgs =>
       \E c \in Callers : /\ conn[Outer(c)] = x /\ door[c] = setting[x]
                          /\ pc[c] \notin {"idle", "queued", "begun"}

\* The second transaction comes and goes inside the first.
LEMMA InnerStep == TypeOK /\ InnerWithinOuter /\ [Next]_vars => InnerWithinOuter'
<1> SUFFICES ASSUME TypeOK, InnerWithinOuter, [Next]_vars PROVE InnerWithinOuter'
  OBVIOUS
<1> USE DEF TypeOK, InnerWithinOuter, Goto
<1>1. ASSUME NEW c \in Callers, Call(c) \/ SetConfig(c) \/ TenantQuery(c) \/ Nest(c)
                                  \/ Throw(c) \/ GiveUp(c)
      PROVE  InnerWithinOuter'
  BY <1>1 DEF Call, SetConfig, TenantQuery, Nest, Throw, GiveUp
<1>2. ASSUME NEW c \in Callers, Platform(c) PROVE InnerWithinOuter'
  <2>1. UNCHANGED conn /\ \E phase \in {"closing", pc[c]} : pc' = [pc EXCEPT ![c] = phase]
    BY <1>2 DEF Platform, PlatformQuery
  <2> QED
    BY <2>1
<1>3. ASSUME NEW c \in Callers, Acquire(c) PROVE InnerWithinOuter'
  <2>1. \A d \in Callers : conn'[Inner(d)] = conn[Inner(d)]
    BY <1>3 DEF Acquire, Begin
  <2> QED
    BY <1>3, <2>1 DEF Acquire
<1>4. ASSUME NEW c \in Callers, AcquireNested(c) PROVE InnerWithinOuter'
  <2>1. \A d \in Callers \ {c} : Inner(d) # Inner(c) /\ conn'[Inner(d)] = conn[Inner(d)]
    BY <1>4 DEF AcquireNested, Begin, Inner, Transactions
  <2> QED
    BY <1>4, <2>1 DEF AcquireNested
<1>5. ASSUME NEW c \in Callers, EndNested(c) \/ RollbackNested(c) PROVE InnerWithinOuter'
  <2>1. conn' = [conn EXCEPT ![Inner(c)] = None]
    BY <1>5 DEF EndNested, RollbackNested, Release
  <2>2. \A d \in Callers \ {c} : pc'[d] = pc[d]
    BY <1>5 DEF EndNested, RollbackNested
  <2> QED
    BY <2>1, <2>2
<1>6. ASSUME NEW c \in Callers, End(c) PROVE InnerWithinOuter'
  BY <1>6 DEF End, Release
<1>7. ASSUME NEW s \in Transactions, TimeOut(s) PROVE InnerWithinOuter'
  BY <1>7 DEF TimeOut, Release
<1>8. CASE UNCHANGED vars
  BY <1>8 DEF vars
<1> QED
  BY <1>1, <1>2, <1>3, <1>4, <1>5, <1>6, <1>7, <1>8 DEF Next, Progress

\* An organization on a connection is that of the caller that holds it, and was
\* set by this call.
OwnSetting ==
  \A c \in Callers : conn[Outer(c)] # None /\ setting[conn[Outer(c)]] \in Orgs =>
    setting[conn[Outer(c)]] = door[c] /\ pc[c] \notin {"idle", "queued", "begun"}

LEMMA OwnSettingStep == IInv /\ OwnSetting /\ [Next]_vars => OwnSetting'
<1> SUFFICES ASSUME IInv, OwnSetting, [Next]_vars PROVE OwnSetting'
  OBVIOUS
<1> USE DEF IInv, TypeOK, OwnSetting, Goto
<1>1. ASSUME NEW c \in Callers, Call(c) PROVE OwnSetting'
  BY <1>1 DEF Call, WaitersHoldNothing
<1>2. ASSUME NEW c \in Callers, Acquire(c) PROVE OwnSetting'
  <2>1. PICK x \in Free : conn' = [conn EXCEPT ![Outer(c)] = x]
    BY <1>2 DEF Acquire, Begin
  <2>2. x \in Conns /\ setting[x] \notin Orgs
    <3>1. x \in Conns /\ \A t \in Transactions : conn[t] # x
      BY <2>1 DEF Free
    <3> QED
      BY <3>1 DEF SettingHasCaller
  <2> QED
    BY <1>2, <2>1, <2>2 DEF Acquire
<1>3. ASSUME NEW c \in Callers, SetConfig(c) PROVE OwnSetting'
  <2>1. \A d \in Callers \ {c} :
          conn[Outer(d)] # None => setting'[conn[Outer(d)]] = setting[conn[Outer(d)]]
    BY <1>3 DEF SetConfig, ConnsServeOne
  <2> QED
    BY <1>3, <2>1 DEF SetConfig
<1>4. ASSUME NEW c \in Callers, TenantQuery(c) \/ Nest(c) \/ Throw(c) PROVE OwnSetting'
  BY <1>4 DEF TenantQuery, Nest, Throw
<1>5. ASSUME NEW c \in Callers, Platform(c) PROVE OwnSetting'
  <2>1. /\ UNCHANGED <<conn, setting, door>> /\ pc[c] \in {"open", "nested"}
        /\ \E phase \in {"closing", pc[c]} : pc' = [pc EXCEPT ![c] = phase]
    BY <1>5 DEF Platform, PlatformQuery
  <2> QED
    BY <2>1
<1>6. ASSUME NEW c \in Callers, AcquireNested(c) PROVE OwnSetting'
  <2>1. \A d \in Callers : conn'[Outer(d)] = conn[Outer(d)]
    BY <1>6 DEF AcquireNested, Begin
  <2> QED
    BY <1>6, <2>1 DEF AcquireNested
<1>7. ASSUME NEW c \in Callers, GiveUp(c) PROVE OwnSetting'
  BY <1>7 DEF GiveUp, WaitersHoldNothing
<1>8. ASSUME NEW s \in Transactions, Release(s), UNCHANGED door,
             \A c \in Callers : pc'[c] \in {"idle", "queued", "begun"} =>
               s = Outer(c) \/ pc[c] \in {"idle", "queued", "begun"}
      PROVE  OwnSetting'
  <2>1. \A x \in Conns : setting'[x] \in Orgs => setting'[x] = setting[x]
    BY <1>8, ForgottenIsNoOrg DEF Release
  <2>2. conn'[s] = None /\ \A t \in Transactions \ {s} : conn'[t] = conn[t]
    BY <1>8 DEF Release
  <2> SUFFICES ASSUME NEW c \in Callers, conn'[Outer(c)] # None,
                      setting'[conn'[Outer(c)]] \in Orgs
               PROVE  /\ setting'[conn'[Outer(c)]] = door[c]
                      /\ pc'[c] \notin {"idle", "queued", "begun"}
    BY <1>8
  <2>3. Outer(c) # s /\ conn'[Outer(c)] = conn[Outer(c)] /\ conn[Outer(c)] \in Conns
    BY <2>2
  <2> QED
    BY <1>8, <2>1, <2>3
<1>9. ASSUME NEW c \in Callers, EndNested(c) \/ RollbackNested(c) \/ End(c)
      PROVE  OwnSetting'
  BY <1>8, <1>9 DEF EndNested, RollbackNested, End
<1>10. ASSUME NEW s \in Transactions, TimeOut(s) PROVE OwnSetting'
  BY <1>8, <1>10 DEF TimeOut
<1>11. CASE UNCHANGED vars
  BY <1>11 DEF vars
<1> QED
  BY <1>1, <1>2, <1>3, <1>4, <1>5, <1>6, <1>7, <1>9, <1>10, <1>11 DEF Next, Progress

\* The connections go back to the pool as they came out of it, although calls
\* time out, give up and throw anywhere (tenant-context.ts withTenant,
\* withPlatform).
THEOREM CallsLeaveNothing == Spec => []NothingIsLeft
<1>1. Init => InnerWithinOuter /\ OwnSetting
  BY DEF Init, InnerWithinOuter, OwnSetting
<1>2. Spec => []InnerWithinOuter
  BY <1>1, InnerStep, TypeCorrect, PTL DEF Spec
<1>3. Spec => []OwnSetting
  BY <1>1, OwnSettingStep, Invariance, PTL DEF Spec
<1>4. IInv /\ InnerWithinOuter /\ OwnSetting => NothingIsLeft
  <2> SUFFICES ASSUME IInv, InnerWithinOuter, OwnSetting PROVE NothingIsLeft
    OBVIOUS
  <2>1. \A c \in Callers : pc[c] \in {"idle", "queued"} =>
          conn[Outer(c)] = None /\ conn[Inner(c)] = None
    BY DEF IInv, WaitersHoldNothing, InnerWithinOuter
  <2>2. ASSUME NEW x \in Conns, setting[x] \in Orgs
        PROVE  \E c \in Callers : /\ conn[Outer(c)] = x /\ door[c] = setting[x]
                                  /\ pc[c] \notin {"idle", "queued", "begun"}
    <3>1. PICK c \in Callers : conn[Outer(c)] = x
      BY <2>2 DEF IInv, SettingHasCaller
    <3> QED
      BY <2>2, <3>1 DEF OwnSetting
  <2> QED
    BY <2>1, <2>2 DEF NothingIsLeft
<1> QED
  BY <1>2, <1>3, <1>4, Invariance, PTL

\* A lookup through the platform door never finds the row of a tenant.
NeverFound == \A c \in Callers : answer[c] # "row"

\* The run on PlatformLookupFinds shows one lookup that misses; all of them do,
\* on every connection and in every nesting: the code behind the comment of
\* withPlatform gets "no row" or an error.
THEOREM PlatformLookupsMiss == Spec => []NeverFound
<1>1. Init => NeverFound
  BY DEF Init, NeverFound
<1>2. IInv /\ NeverFound /\ [Next]_vars => NeverFound'
  <2> SUFFICES ASSUME IInv, NeverFound, [Next]_vars PROVE NeverFound'
    OBVIOUS
  <2> USE DEF NeverFound
  <2>1. ASSUME NEW c \in Callers, Platform(c) PROVE NeverFound'
    <3>1. PICK s \in Transactions :
            /\ s = Inner(c) \/ (s = Outer(c) /\ door[c] = "platform")
            /\ PlatformQuery(c, s)
      BY <2>1 DEF Platform
    <3>2. setting[conn[s]] \in {"unset", "empty"}
      BY <3>1, PlatformConnectionIsBlank DEF PlatformQuery
    <3>3. PICK o \in Orgs : answer' = [answer EXCEPT ![c] = Lookup(setting[conn[s]], o)]
      BY <3>1 DEF PlatformQuery
    <3>4. Lookup(setting[conn[s]], o) # "row"
      BY <3>2 DEF Lookup, Shows
    <3> QED
      BY <3>3, <3>4 DEF IInv, TypeOK
  <2>2. ASSUME NEW c \in Callers, Call(c) PROVE NeverFound'
    BY <2>2 DEF Call, IInv, TypeOK
  <2>3. ASSUME NEW c \in Callers, Progress(c) \/ GiveUp(c) \/ TenantQuery(c) \/ Nest(c)
        PROVE  UNCHANGED answer
    BY <2>3 DEF Progress, Acquire, SetConfig, AcquireNested, EndNested, Throw,
                RollbackNested, End, GiveUp, TenantQuery, Nest
  <2>4. ASSUME NEW s \in Transactions, TimeOut(s) PROVE UNCHANGED answer
    BY <2>4 DEF TimeOut
  <2> QED
    BY <2>1, <2>2, <2>3, <2>4 DEF Next, vars
<1> QED
  BY <1>1, <1>2, Invariance, PTL DEF Spec
=============================================================================
