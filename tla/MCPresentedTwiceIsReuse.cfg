SPECIFICATION Spec
CONSTANTS
  Tokens = {t1, t2, t3}
  Users = {u1}
  Requests = {r1, r2}
  None = None
INVARIANT PresentedTwiceIsReuse
