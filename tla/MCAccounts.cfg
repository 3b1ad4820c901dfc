SPECIFICATION Spec
CONSTANTS
  Emails = {e1, e2}
  Slugs = {s1, s2}
  Keys = {k1}
  Invites = {i1}
  Offer <- MCOffer
  Requests = {r1, r2}
  None = None
SYMMETRY Symmetry
INVARIANTS
  TypeOK
PROPERTIES
  AcceptedSignupHasAccount
  SuspensionLiftedByLink
  MembershipsAreGranted
