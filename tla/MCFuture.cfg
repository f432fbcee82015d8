SPECIFICATION Spec
CONSTANTS
  Awaiters = {a1}
  TimedAwaiters = {w1}
  Thens = {h1}
  Pollers = {q1}
  Cancellers = {c1}
  Settlers = {s1, s2}
  Alls = {k1}
  Races = {r1}
  Outcomes = {"ok", "exception", "panic"}
  None = None
INVARIANTS
  CompletedOnce
  ActiveExact
  ReturnedResult
  CallbackMade
PROPERTIES
  StateForward
  ResultStable
CHECK_DEADLOCK FALSE
