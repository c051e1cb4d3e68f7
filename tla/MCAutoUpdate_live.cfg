SPECIFICATION FairSpec
CONSTANTS
  MaxVersion = 3
  NoVersion = NoVersion
  Latest = Latest
  Custom = Custom
  InitialTags = {1}
  UserTags = {1}
  BadVersions = {2}
  maxRollbackCount = 3
  BackupBeforeUpdate = TRUE
  RollbackModes = {TRUE, FALSE}
  BucketLen = 1
  CacheLags = FALSE
  PodsMayBeSlow = FALSE
  UserMay = {"suspend", "rollback", "creds"}
  MaxEdits = 1
  MaxFaults = 1
PROPERTIES
  UpdateEnds
  WorkloadComesBack
  ImageConverges
  ReachesNewestVersion
