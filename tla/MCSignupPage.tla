---------------------------- MODULE MCSignupPage ----------------------------
(***************************************************************************)
(* SignupPage for TLC: two addresses, so that a corrected one can be sent  *)
(* under the key of the first, two slugs, the key of the page and one that *)
(* is not, and two handlers, so that a submission overlaps with the one    *)
(* that was cut off before it or with somebody else's.                     *)
(***************************************************************************)
EXTENDS SignupPage

MCOffer == [i \in Invites |-> "VIEWER"]
=============================================================================
