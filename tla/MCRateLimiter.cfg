SPECIFICATION FairSpec
CONSTANTS
  Limit = 2
  Window = 3
  Attempts = {a1, a2, a3}
  Forever = Forever
INVARIANTS
  TypeOK
  TwoWindowsBoundAnyWindow
PROPERTY LockoutEnds
