SPECIFICATION FairSpec
CONSTANTS
  Tids = {t1, t2, t3, t4, t5}
  Main = Main
  None = None
  Tasks = {x1, x2}
  Kinds = {"throws", "tries"}
  NWorkers = 2
  Permits = 1
  Stop = Stop
INVARIANTS
  TypeOK
  CountExact
  NoJitAfterWait
  PoolWakeup
  PermitWakeup
  AllTasksDone
PROPERTIES
  ProgramEnds
CHECK_DEADLOCK FALSE
