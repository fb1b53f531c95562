SPECIFICATION Spec
CONSTANTS
  Ids = {s1, s2}
  Lefts <- LeftNothing
  Handles = {h1}
  Gens = {1, 2, 3, 4}
  MaxFaults = 0
  MaxCrashes = 0
  MaxMishaps = 0
  MaxLate = 1
  CrashKinds = {}
INVARIANT DetachedGoal
SYMMETRY Symmetry
CHECK_DEADLOCK FALSE
