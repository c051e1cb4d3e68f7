SPECIFICATION Spec
CONSTANTS
    Profiles <- MCProfiles
    EditedFields <- AllFields
    ClusterDefaults <- MCClusterDefaults
    MaxEdits = 2
    MaxFaults = 1
CHECK_DEADLOCK FALSE
INVARIANTS
    EveryMountHasAVolume
    ContainerUsersFit
    ServicePortsAreServed
    MetricsReachTheirPeers
    APIUsersAreEquipped
    InlineConfigReachesThePod
