SPECIFICATION FairSpec
CONSTANTS
  Awaiters = {a1, a2}
  TimedAwaiters = {}
  Thens = {}
  Pollers = {}
  Cancellers = {}
  Settlers = {}
  Alls = {}
  Races = {}
  Outcomes = {"ok", "exception"}
  None = None
PROPERTIES
  AwaitReturns
CHECK_DEADLOCK FALSE
