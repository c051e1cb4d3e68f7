SPECIFICATION LiveSpec
CONSTANTS
    Requests = {r1, r2}
    r1 = r1
    r2 = r2
    v1 = v1
    v2 = v2
    Values = {v1, v2}
    Present = v1
    None = None
    RequestSpecs <- MCRequestSpecs
    Manifests <- MCManifests
    Fields <- MCFields
    Protected <- MCProtected
    Lagging = {"requests"}
    MaxEdits = 1
    MaxFaults = 1
CHECK_DEADLOCK FALSE
INVARIANTS
    ProtectedValuesAreUsers
PROPERTIES
    OthersKeepTheirItems
    WarnedRemovalsAreSkipped
    VerdictsAreTrueAndFinal
    EveryRequestEnds
