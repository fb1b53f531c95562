SPECIFICATION PocketSpec
CONSTANTS
  MaxSignIns = 1
  MaxAuthCrashes = 0
  MaxAuthFaults = 0
  Addresses = {h1, h2}
  NoPairing = NoPairing
  Kinds = {"v1", "old"}
  MaxGates = 3
  MaxConfirms = 1
  MaxChanges = 1
  MaxLostSaves = 0
  MaxEvents = 1
  PageLimit = 2
  MaxViews = 1
  MaxInputs = 0
  MaxLost = 0
  Names <- MCNames
  Folded <- MCFolded
  RosterLimit = 2
  MaxRows = 1
  Branches = {m, d}
  Main = m
  NoBranch = NoBranch
  Trees = {t1, t2}
  MaxCommits = 1
  MaxCallers = 1
  MaxCalls = 1
  MaxGitFaults = 0
  Tools = {"Write", "Edit"}
  MaxOps = 1
  MaxAsks = 1
  MaxModes = 0
  MaxInodes = 6
  MaxOpeners = 0
  MaxStorageFaults = 0
  MaxTasks = 1
  MaxStored = 2
  MaxEngineFaults = 2
  MaxStorageCrashes = 0
PROPERTY RestartsExpected
CHECK_DEADLOCK FALSE
