--------------------------- MODULE MCAccessTokens ---------------------------
(***************************************************************************)
(* AccessTokens for TLC: a token lives two seconds of two clock steps, so  *)
(* that it can be signed and logged out in the middle of a second; three   *)
(* requests are two overlapping logouts, with one cookie or two, and one   *)
(* that comes too late.                                                    *)
(***************************************************************************)
EXTENDS AccessTokens, TLC

Symmetry == Permutations(Requests) \cup Permutations(Cookies)
=============================================================================
