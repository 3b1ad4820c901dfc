-------------------------- MODULE MCRefreshTokens --------------------------
(***************************************************************************)
(* RefreshTokens for TLC: model values, and the symmetry of tokens and     *)
(* request slots, which is sound for the safety properties checked here.   *)
(***************************************************************************)
EXTENDS RefreshTokens, TLC

Symmetry ==
  Permutations(Tokens) \cup Permutations(Requests) \cup Permutations(Users)
=============================================================================
