SPECIFICATION Spec
CONSTANTS
  Tables = {t1, t2, t3, t4}
  None = None
  MaxHops = 3
SYMMETRY Symmetry
INVARIANTS
  TypeOK
  AcceptedMapsAreGrounded
  PoliciesFollowParents
  GrantedIsConstrained
  RolesAsDocumented
CHECK_DEADLOCK FALSE
