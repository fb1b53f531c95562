SPECIFICATION Spec
CONSTANTS
  Ids = {s1, s2}
  Lefts <- LeftNothing
  Handles = {h1}
  Gens = {1, 2, 3, 4}
  MaxFaults = 2
  MaxCrashes = 0
  MaxMishaps = 2
  MaxLate = 0
  CrashKinds = {}
INVARIANT QuarantineMarked
SYMMETRY Symmetry
CHECK_DEADLOCK FALSE
