SPECIFICATION MCSpec
CONSTANTS
  NFiles = 4
  NNames = 4
  MaxImports = 4
INVARIANTS
  CyclesFound
  DependenciesFirst
  EveryFileOnce
PROPERTIES
  AnalysisEnds
CHECK_DEADLOCK FALSE
