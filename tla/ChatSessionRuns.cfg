SPECIFICATION FairSpec
CONSTANTS
  a = a
  b = b
  Callers = {a, b}
  MaxTurns = 2
  Budgets = {0, 1}
  Costs = {1}
  MaxRuns = 2
  MaxFaults = 1
  MaxCrashes = 1
INVARIANTS
  TypeOK
  OneRun
  OwnToken
  PauseReaches
  AnsweredStops
  UsageExact
  TurnsBounded
PROPERTIES
  BusyEnds
  Lifecycle
