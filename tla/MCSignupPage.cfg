SPECIFICATION FairPageSpec
CONSTANTS
  Emails = {e1, e2}
  Slugs = {s1, s2}
  Keys = {k1, k2}
  PageKey = k1
  Invites = {}
  Offer <- MCOffer
  Requests = {r1, r2}
  None = None
INVARIANTS
  PageTypeOK
  SignupFoundsOneOrg
  PromptMeansAccount
PROPERTIES
  SubmissionEnds
  PersistencePays
