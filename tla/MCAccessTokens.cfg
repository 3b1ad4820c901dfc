SPECIFICATION Spec
CONSTANTS
  Tokens = {j1}
  Cookies = {c1, c2}
  Requests = {r1, r2, r3}
  PerSecond = 2
  AccessTTL = 2
  DenyTTL = 2
  MaxTime = 8
  None = None
SYMMETRY Symmetry
INVARIANTS
  TypeOK
  LoggedOutTokenIsDead
  DeniedAfterRevoked
