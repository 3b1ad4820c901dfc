SPECIFICATION Spec
CONSTANTS
  Limit = 2
  Window = 3
  Attempts = {a1, a2}
  Forever = Forever
INVARIANT CounterIsTemporary
