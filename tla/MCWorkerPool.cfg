SPECIFICATION FairSpec
CONSTANTS
  Callers = {c1}
  NWorkers = 2
  RowCounts = {1, 20}
  Threads = {2}
  MaxCalls = 2
  USize = 8
  None = None
INVARIANTS
  ClosureAlive
PROPERTIES
  ImplementsForkJoin
  JoinReturns
  DropReturns
CHECK_DEADLOCK FALSE
