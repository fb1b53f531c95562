SPECIFICATION FairSpec
CONSTANTS
  Ids = {s1}
  Lefts <- LeftAnything
  Handles = {h1, h2}
  Gens = {1, 2, 3, 4, 5}
  MaxFaults = 1
  MaxCrashes = 2
  MaxMishaps = 3
  MaxLate = 1
  CrashKinds = {"process", "power"}
PROPERTIES
  HandleKept
  Heals
CHECK_DEADLOCK FALSE
