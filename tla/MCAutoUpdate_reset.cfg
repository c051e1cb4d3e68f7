SPECIFICATION FairSpec
CONSTANTS
  MaxVersion = 5
  NoVersion = NoVersion
  Latest = Latest
  Custom = Custom
  InitialTags = {1}
  UserTags = {5}
  BadVersions = {}
  maxRollbackCount = 3
  BackupBeforeUpdate = FALSE
  RollbackModes = {TRUE}
  BucketLen = 1
  CacheLags = FALSE
  PodsMayBeSlow = TRUE
  UserMay = {"tag"}
  MaxEdits = 1
  MaxFaults = 0
PROPERTIES
  TagEditResetsCount
