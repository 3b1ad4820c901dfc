----------------------------- MODULE Directory -----------------------------
(***************************************************************************)
(* What signup, createOrg and accept-invitation promise about membership,  *)
(* seen from outside: every membership comes from founding an organization *)
(* or from redeeming one invitation, each in one step, and none changes    *)
(* afterwards.  No step shows an organization nobody owns, a membership    *)
(* without the invitation being used up, or the reverse.                   *)
(***************************************************************************)
CONSTANTS
  Emails, Slugs, Invites,
  Offer,      \* Offer[i] : the role invitation i offers
  None

VARIABLES
  orgs,       \* organizations that exist
  role,       \* role[<<e, s>>] : what e is in organization s
  invite,     \* invite[i]      : the <<address, organization>> invited, or None
  used        \* redeemed invitations

Init == /\ orgs = {}
        /\ role = [p \in Emails \X Slugs |-> "none"]
        /\ invite = [i \in Invites |-> None]
        /\ used = {}

\* An organization appears together with its owner.
Found(e, s) ==
  /\ s \notin orgs
  /\ orgs' = orgs \cup {s}
  /\ role' = [role EXCEPT ![<<e, s>>] = "OWNER"]
  /\ UNCHANGED <<invite, used>>

\* An organization invites an address.
Issue(i, e, s) ==
  /\ invite[i] = None /\ s \in orgs
  /\ invite' = [invite EXCEPT ![i] = <<e, s>>]
  /\ UNCHANGED <<orgs, role, used>>

\* An open invitation is used up, and its addressee has the role it offers from
\* then on; a member keeps the role it has.
Redeem(i) ==
  /\ invite[i] # None /\ i \notin used
  /\ used' = used \cup {i}
  /\ role' = [role EXCEPT ![invite[i]] = IF @ = "none" THEN Offer[i] ELSE @]
  /\ UNCHANGED <<orgs, invite>>

Next == \/ \E e \in Emails, s \in Slugs : Found(e, s)
        \/ \E i \in Invites, e \in Emails, s \in Slugs : Issue(i, e, s)
        \/ \E i \in Invites : Redeem(i)

Spec == Init /\ [][Next]_<<orgs, role, invite, used>>
=============================================================================
