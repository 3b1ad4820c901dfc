--------------------------- MODULE MCRlsMigration ---------------------------
(***************************************************************************)
(* RlsMigration for TLC: every pair of maps over four tables, so that a    *)
(* chain can have three hops, the depth of app_credentials, and two hops   *)
(* below an alias.                                                         *)
(***************************************************************************)
EXTENDS RlsMigration, TLC

Symmetry == Permutations(Tables)
=============================================================================
