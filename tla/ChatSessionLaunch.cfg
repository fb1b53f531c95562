SPECIFICATION Spec
CONSTANTS
  a = a
  Callers = {a}
  MaxTurns = 2
  Budgets = {0, 1}
  Costs = {1}
  MaxRuns = 1
  MaxFaults = 0
  MaxCrashes = 1
INVARIANT LaunchPauses
