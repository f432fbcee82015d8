SPECIFICATION Spec
CONSTANTS
  top = top
  looping = looping
  vector = vector
  Funcs = {top, looping, vector}
  Callees <- Chain
  Places <- TwoLoops
  Resumable = {looping}
  Simd = {vector}
  Llvm = TRUE
  MaxExecs = 1
INVARIANTS
  TypeOK
  TierHasCode
  CalleesServed
  PublishedEverywhere
  RequestSettled
PROPERTIES
  NoDowngrade
CHECK_DEADLOCK FALSE
