SPECIFICATION Spec
CONSTANTS
  top = top
  looping = looping
  vector = vector
  Funcs = {top, looping, vector}
  Callees <- Chain
  Places <- TwoLoops
  Resumable = {looping}
  Simd = {vector}
  Llvm = TRUE
  MaxExecs = 1
INVARIANT
  VectorCodeRuns
CHECK_DEADLOCK FALSE
