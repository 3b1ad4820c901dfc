----------------------------- MODULE MCAccounts -----------------------------
(***************************************************************************)
(* Accounts for TLC.  Two requests overlap in every way; two slugs tell an *)
(* organization from its rival; the verification link and the invitation   *)
(* are reachable because an organization can exist before both.  The       *)
(* invitation offers a role that is not a founder's; no handler looks at   *)
(* which one, and the proofs are for any.                                  *)
(***************************************************************************)
EXTENDS Accounts, TLC

MCOffer == [i \in Invites |-> "ADMIN"]

Symmetry == Permutations(Emails) \cup Permutations(Slugs)
              \cup Permutations(Keys) \cup Permutations(Requests)
=============================================================================
