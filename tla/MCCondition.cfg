SPECIFICATION Spec
CONSTANTS
  Threads = {a, b, c}
  MaxCalls = 2
INVARIANTS
  MutualExclusion
CHECK_DEADLOCK FALSE
