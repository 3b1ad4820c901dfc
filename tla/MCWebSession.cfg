SPECIFICATION FairTabSpec
CONSTANTS
  Tokens = {t1, t2, t3, t4}
  Users = {u1, u2}
  Requests = {r1, r2}
  MaxMoves = 2
  None = None
INVARIANTS
  TabTypeOK
  StoreIsOneUser
  SignedInCanRefresh
  AloneKeepsOneToken
PROPERTIES
  Settles
  ServerRuns
  RevocationStaysWithUser
CHECK_DEADLOCK FALSE
