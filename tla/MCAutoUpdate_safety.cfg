SPECIFICATION Spec
CONSTANTS
  MaxVersion = 3
  NoVersion = NoVersion
  Latest = Latest
  Custom = Custom
  InitialTags = {Latest, Custom}
  UserTags = {1, Latest}
  BadVersions = {}
  maxRollbackCount = 2
  BackupBeforeUpdate = TRUE
  RollbackModes = {TRUE}
  BucketLen = 1
  CacheLags = TRUE
  PodsMayBeSlow = TRUE
  UserMay = {"suspend", "tag", "enable", "other", "deleteSts"}
  MaxEdits = 1
  MaxFaults = 1
INVARIANTS
  TypeOK
  RollbackTargetKnown
  AvailableIffPending
  BreakerHolds
PROPERTIES
  UpdatesGoForward
  RollbackCountedOnce
