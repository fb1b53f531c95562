SPECIFICATION Spec
CONSTANTS
  MaxMessages = 3
  MaxUuid = 4
  MaxFaults = 3
  MaxCrashes = 2
  MaxLosses = 1
  CrashKinds = {"process", "power"}
INVARIANTS
  TypeOK
  OneIntent
  SlotFreeOrStray
  TranscriptFaithful
  CleanAppend
