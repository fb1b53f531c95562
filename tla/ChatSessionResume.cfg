SPECIFICATION Spec
CONSTANTS
  a = a
  b = b
  Callers = {a, b}
  MaxTurns = 2
  Budgets = {0, 1}
  Costs = {1}
  MaxRuns = 2
  MaxFaults = 0
  MaxCrashes = 0
INVARIANT TurnsPrompted
