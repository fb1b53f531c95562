SPECIFICATION FairSpec
CONSTANTS
  Ids = {s1, s2}
  Lefts <- LeftNothing
  Handles = {h1}
  Gens = {1, 2, 3, 4}
  MaxFaults = 1
  MaxCrashes = 1
  MaxMishaps = 1
  MaxLate = 0
  CrashKinds = {"process"}
INVARIANTS TypeOK ShownWhole
PROPERTY Heals
CHECK_DEADLOCK FALSE
