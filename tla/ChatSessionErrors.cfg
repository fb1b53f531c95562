SPECIFICATION FairSpec
CONSTANTS
  a = a
  Callers = {a}
  MaxTurns = 2
  Budgets = {0, 1}
  Costs = {1}
  MaxRuns = 1
  MaxFaults = 1
  MaxCrashes = 0
PROPERTY GoalStops
