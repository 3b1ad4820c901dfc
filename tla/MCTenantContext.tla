--------------------------- MODULE MCTenantContext ---------------------------
(***************************************************************************)
(* TenantContext for TLC: no more connections than callers, so that every  *)
(* caller of a nested door can hold one and want another; two              *)
(* organizations, no symmetry because of the liveness property.            *)
(***************************************************************************)
EXTENDS TenantContext, Naturals, FiniteSets

ASSUME Starves == Cardinality(Conns) <= Cardinality(Callers)
=============================================================================
