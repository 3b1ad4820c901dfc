--------------------------- MODULE MCRateLimiter ---------------------------
(***************************************************************************)
(* RateLimiter for TLC.  A limit of 2 has a first, a middle and a refused  *)
(* attempt; the window is longer than one tick so that a second window can *)
(* start inside it.                                                        *)
(***************************************************************************)
EXTENDS RateLimiter

=============================================================================
