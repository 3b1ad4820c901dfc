SPECIFICATION GuardSpec
CONSTANTS
  Values = {"ADMIN", "VIEWER"}
  Absent = Absent
  Undefined = Undefined
  TTL = 3
  Latency = 1
  Readers = {g1, g2}
  Routes <- MCRoutes
SYMMETRY Symmetry
INVARIANTS
  GuardTypeOK
  UsedValueIsRecent
  NoUserOnlyOnPublic
PROPERTY
  HandlerHadPermission
