SPECIFICATION Spec
CONSTANTS
  Paths = {p1}
  NoPath = NoPath
  Persistence = TRUE
  ExistingClaim = FALSE
  Orphan = TRUE
  CredsStates = {"ok"}
  ClusterMayHang = FALSE
  UserMay = {"delete"}
  MaxEdits = 1
  MaxFaults = 1
  MaxDisturbances = 2
PROPERTIES
  ClaimRetained
