SPECIFICATION FairSpec
CONSTANTS
  MaxSignIns = 3
  MaxAuthCrashes = 1
  MaxAuthFaults = 2
  Addresses = {h1, h2}
  NoPairing = NoPairing
  Kinds = {"v1", "old"}
  MaxGates = 2
  MaxConfirms = 2
  MaxChanges = 1
  MaxLostSaves = 1
  MaxEvents = 3
  PageLimit = 2
  MaxViews = 2
  MaxInputs = 1
  MaxLost = 1
  Names <- MCNames
  Folded <- MCFolded
  RosterLimit = 2
  MaxRows = 3
  Branches = {m, d}
  Main = m
  NoBranch = NoBranch
  Trees = {t1, t2}
  MaxCommits = 3
  MaxCallers = 2
  MaxCalls = 3
  MaxGitFaults = 1
  Tools = {"Write", "Edit"}
  MaxOps = 2
  MaxAsks = 2
  MaxModes = 1
  MaxInodes = 8
  MaxOpeners = 2
  MaxStorageFaults = 1
  MaxTasks = 3
  MaxStored = 2
  MaxEngineFaults = 2
  MaxStorageCrashes = 1
INVARIANTS
  PocketTypeOK
  SignOutHolds
  EventsInOrder
  RosterExact
  CommittedStays
  AsksReachable
  WritesAllowed
  StoredSurvives
  ListShown
PROPERTIES
  GateCurrent
  Settles
CHECK_DEADLOCK FALSE
