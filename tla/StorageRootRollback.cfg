SPECIFICATION StorageSpec
CONSTANTS
  MaxInodes = 9
  MaxOpeners = 2
  MaxStorageFaults = 1
  MaxStorageCrashes = 0
INVARIANT StoredAlways
CHECK_DEADLOCK FALSE
