SPECIFICATION FairSpec
CONSTANTS
  MaxMessages = 3
  MaxUuid = 4
  MaxFaults = 1
  MaxCrashes = 2
  MaxLosses = 1
  CrashKinds = {"power"}
INVARIANTS
  AckedDurable
  PublishedIsSynced
  IndexSound
  BaselineCovers
  ExpungesUnacked
PROPERTIES
  AckedStays
  Heals
