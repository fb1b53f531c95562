SPECIFICATION Spec
CONSTANTS
  MaxMessages = 1
  MaxUuid = 2
  MaxFaults = 0
  MaxCrashes = 1
  MaxLosses = 0
  CrashKinds = {"process"}
INVARIANT PublishedIsSynced
