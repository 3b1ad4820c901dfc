------------------------- MODULE MCPermissionGuard -------------------------
(***************************************************************************)
(* PermissionGuard for TLC: two roles, so that a role can be replaced by   *)
(* another one as well as removed, and two lookups, of which a slow one    *)
(* can store its old value after the other has read the new one.  Routes   *)
(* of every kind: public, authenticated only, with permissions, without    *)
(* any decorator, and with decorators that disagree.                       *)
(***************************************************************************)
EXTENDS PermissionGuard, TLC

None == [public |-> Undefined, permissions |-> Undefined]
Open == [None EXCEPT !.public = TRUE]
Needs(some) == [None EXCEPT !.permissions = some]

MCRoutes == {[handler |-> Open, class |-> None],
             [handler |-> None, class |-> None],
             [handler |-> Needs({}), class |-> Open],
             [handler |-> Needs({"test:read", "org:manage"}), class |-> Needs({})]}

Symmetry == Permutations(Readers)
=============================================================================
