-------------------------- MODULE SessionLifecycle --------------------------
(***************************************************************************)
(* What refresh-token rotation promises about one login session, seen from *)
(* outside.  A session is the line of refresh tokens that starts at one    *)
(* login and continues through POST /auth/refresh.  It is active while it  *)
(* has a usable token, rotating while a refresh of it is being answered,   *)
(* and ended when neither holds.  An ended session never comes back: the   *)
(* user has to log in again, which starts another session.                 *)
(***************************************************************************)
CONSTANT Sessions

VARIABLE state     \* state[s] : where session s stands

Stage == {"none", "active", "rotating", "ended"}

TypeOK == state \in [Sessions -> Stage]

Init == state = [s \in Sessions |-> "none"]

(***************************************************************************)
(* The stages a session may move to.  "ended" has no successor but itself. *)
(***************************************************************************)
Successors == [none     |-> {"none", "active"},
               active   |-> {"active", "rotating", "ended"},
               rotating |-> {"rotating", "active", "ended"},
               ended    |-> {"ended"}]

\* One step may move several sessions: detected reuse ends all of a user's.
Move == /\ state' \in [Sessions -> Stage]
        /\ \A s \in Sessions : state'[s] \in Successors[state[s]]

Spec == Init /\ [][Move]_state
=============================================================================
