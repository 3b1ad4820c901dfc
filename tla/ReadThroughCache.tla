-------------------------- MODULE ReadThroughCache --------------------------
(***************************************************************************)
(* The Redis caches in front of PostgreSQL: the role of a user in an       *)
(* organization (PermissionGuard and IdentityService, which share the key  *)
(* role:<user>:<org>, 30 s) and the entitlements of an organization        *)
(* (EntitlementService, 300 s).  All three run the same steps: GET, on a   *)
(* miss read the database, SET with EX, use the value.                     *)
(*                                                                         *)
(* Nothing invalidates a key.  The database value changes when a membership*)
(* or an override is written or removed, and when an override expires.     *)
(* One key is modelled.                                                    *)
(***************************************************************************)
EXTENDS Naturals

CONSTANTS
  Values,     \* roles, or entitlement sets
  Absent,     \* no membership in the database; no key in Redis
  TTL,        \* life of a key, in ticks
  Latency,    \* ticks a reader may take from a read to the use of what it read
  Readers     \* lookups that can be in flight together

ASSUME AbsentAssumption == Absent \notin Values
ASSUME TimeAssumption == TTL \in Nat \ {0} /\ Latency \in Nat

VARIABLES
  truth,      \* the value in the database
  since,      \* since[v]  : ticks since v was last the database value
  entry, ttl, \* the key: its value and the ticks it has left
  pc,         \* pc[g]     : the next step of lookup g
  got,        \* got[g]    : the value g read
  waited,     \* waited[g] : ticks since g read it
  age         \* age[g]    : since[got[g]] when g used its value (history)

vars == <<truth, since, entry, ttl, pc, got, waited, age>>

Known == Values \cup {Absent}

\* The age no value in use may exceed: it was read up to Latency before it was
\* written to the key, read back before the key was TTL ticks old, and used up
\* to Latency after that.
MaxAge == TTL - 1 + 2 * Latency

TypeOK ==
  /\ truth \in Known
  /\ since \in [Known -> 0 .. MaxAge + 1]
  /\ entry \in Known
  /\ ttl \in 0 .. TTL
  /\ pc \in [Readers -> {"idle", "load", "fill", "use", "done"}]
  /\ got \in [Readers -> Known]
  /\ waited \in [Readers -> 0 .. Latency]
  /\ age \in [Readers -> 0 .. MaxAge + 1]

Init ==
  /\ truth \in Known
  /\ since = [v \in Known |-> IF v = truth THEN 0 ELSE MaxAge + 1]
  /\ entry = Absent /\ ttl = 0
  /\ pc = [g \in Readers |-> "idle"]
  /\ got = [g \in Readers |-> Absent]
  /\ waited = [g \in Readers |-> 0]
  /\ age = [g \in Readers |-> 0]

(***************************************************************************)
(* A lookup                                                                *)
(***************************************************************************)
Read(g, value, next) ==
  /\ got' = [got EXCEPT ![g] = value]
  /\ waited' = [waited EXCEPT ![g] = 0]
  /\ pc' = [pc EXCEPT ![g] = next]

\* A mutant: a hit renews the key (GETEX).
GetRenewing(g) ==
  /\ pc[g] = "idle"
  /\ Read(g, entry, IF entry = Absent THEN "load" ELSE "use")
  /\ ttl' = IF entry = Absent THEN ttl ELSE TTL
  /\ UNCHANGED <<truth, since, entry, age>>

\* redis.get
Get(g) ==
  /\ pc[g] = "idle"
  /\ Read(g, entry, IF entry = Absent THEN "load" ELSE "use")
  /\ UNCHANGED <<truth, since, entry, ttl, age>>

\* The transaction that reads the database.  No membership is an answer (404,
\* null) and is not cached.
Load(g) ==
  /\ pc[g] = "load"
  /\ Read(g, truth, IF truth = Absent THEN "use" ELSE "fill")
  /\ UNCHANGED <<truth, since, entry, ttl, age>>

\* A mutant: EX is given milliseconds.
FillInMillis(g) ==
  /\ pc[g] = "fill"
  /\ entry' = got[g] /\ ttl' = TTL * 1000
  /\ pc' = [pc EXCEPT ![g] = "use"]
  /\ UNCHANGED <<truth, since, got, waited, age>>

\* redis.set with EX; it overwrites what another lookup stored meanwhile.
Fill(g) ==
  /\ pc[g] = "fill"
  /\ entry' = got[g] /\ ttl' = TTL
  /\ pc' = [pc EXCEPT ![g] = "use"]
  /\ UNCHANGED <<truth, since, got, waited, age>>

\* The permission check, or the caller of resolve.
Use(g) ==
  /\ pc[g] = "use"
  /\ age' = [age EXCEPT ![g] = since[got[g]]]
  /\ pc' = [pc EXCEPT ![g] = "done"]
  /\ UNCHANGED <<truth, since, entry, ttl, got, waited>>

\* The lookup is over, or stops half-way.
Leave(g) ==
  /\ pc[g] # "idle"
  /\ pc' = [pc EXCEPT ![g] = "idle"]
  /\ got' = [got EXCEPT ![g] = Absent]
  /\ waited' = [waited EXCEPT ![g] = 0]
  /\ age' = [age EXCEPT ![g] = 0]
  /\ UNCHANGED <<truth, since, entry, ttl>>

(***************************************************************************)
(* The database and the clock                                              *)
(***************************************************************************)
Change ==
  /\ \E v \in Known \ {truth} :
       truth' = v /\ since' = [since EXCEPT ![v] = 0]
  /\ UNCHANGED <<entry, ttl, pc, got, waited, age>>

Holding(g) == pc[g] \in {"fill", "use"}

\* A tick passes.  No reader holds a value for more than Latency ticks; the
\* code has no timeout that says so.
Tick ==
  /\ \A g \in Readers : Holding(g) => waited[g] < Latency
  /\ waited' = [g \in Readers |-> IF Holding(g) THEN waited[g] + 1 ELSE waited[g]]
  /\ since' = [v \in Known |-> IF v = truth \/ since[v] > MaxAge
                                 THEN since[v] ELSE since[v] + 1]
  /\ IF ttl <= 1 THEN entry' = Absent /\ ttl' = 0
                 ELSE ttl' = ttl - 1 /\ UNCHANGED entry
  /\ UNCHANGED <<truth, pc, got, age>>

Lookup(g) == Get(g) \/ Load(g) \/ Fill(g) \/ Use(g)

Next == \/ \E g \in Readers : Lookup(g) \/ Leave(g)
        \/ Change
        \/ Tick

Spec == Init /\ [][Next]_vars

(***************************************************************************)
(* Properties                                                              *)
(***************************************************************************)

\* A value taken away stops working in less than TTL + 2 * Latency ticks,
\* although slow lookups may store an old value over a newer one and hits
\* follow each other without end (permission.guard.ts 60-90,
\* identity.service.ts 18-44, entitlements.service.ts 16-66).
UsedValueIsRecent == \A g \in Readers : pc[g] = "done" => age[g] <= MaxAge
=============================================================================
