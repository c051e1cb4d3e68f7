SPECIFICATION Spec
CONSTANTS
  MaxVersion = 2
  NoVersion = NoVersion
  Latest = Latest
  Custom = Custom
  InitialTags = {1}
  UserTags = {1}
  BadVersions = {}
  maxRollbackCount = 3
  BackupBeforeUpdate = TRUE
  RollbackModes = {TRUE}
  BucketLen = 1
  CacheLags = FALSE
  PodsMayBeSlow = TRUE
  UserMay = {}
  MaxEdits = 0
  MaxFaults = 0
INVARIANTS
  RollbackCanRestore
