SPECIFICATION Spec
CONSTANTS
  Threads = {t1, t2}
  Classes = {1, 2}
  Base = 10
  Chunks = 2
  Span = 3
  MaxMisses = 1
SYMMETRY SameThreads
INVARIANTS
  ChunkOwned
  EveryBlockOnce
CHECK_DEADLOCK FALSE
