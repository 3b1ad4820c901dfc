SPECIFICATION Spec
CONSTANTS
  Orgs = {o1}
  Callers = {c1}
  Conns = {x1}
  None = None
INVARIANT PlatformLookupFinds
