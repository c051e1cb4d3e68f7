SPECIFICATION Spec
CONSTANTS
    Profiles <- MCProfiles
    EditedFields <- AllFields
    ClusterDefaults <- MCClusterDefaults
    MaxEdits = 2
    MaxFaults = 1
INVARIANT ConfigChangesRollOut
CHECK_DEADLOCK FALSE
