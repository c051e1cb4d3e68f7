SPECIFICATION FairSpec
CONSTANTS
  Paths = {p1, p2}
  NoPath = NoPath
  Persistence = TRUE
  ExistingClaim = FALSE
  Orphan = TRUE
  CredsStates = {"ok", "missing", "broken"}
  ClusterMayHang = FALSE
  UserMay = {"restore", "delete", "skip", "other", "deleteSts", "creds"}
  MaxEdits = 3
  MaxFaults = 2
  MaxDisturbances = 4
INVARIANTS
  TypeOK
  JobPathRecorded
  NoPodDuringBackup
PROPERTIES
  BackupBeforeRemoval
  NeverRestoredTwice
  RestoreBeforeStart
  DeletionEnds
  RestoreEnds
