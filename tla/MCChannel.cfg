SPECIFICATION FairSpec
CONSTANTS
  Threads = {t1, t2, t3, t4}
  Messages = {m1}
  Null = Null
  Capacity = 2
  MaxLength = 2
INVARIANTS
  TypeOK
  CapacityRespected
  ReceiverWakeup
  SenderWakeup
PROPERTIES
  ClosedIsFinal
  CloseReleases
  NobodyStranded
CHECK_DEADLOCK FALSE
