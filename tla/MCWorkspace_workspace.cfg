SPECIFICATION Spec
CONSTANTS
    Main = "main"
    Declarations <- MCDeclarations
    InitialDeclarations <- MCInitial
    ExternalMaps <- MCExternalMaps
    Missing = Missing
    Revisions <- MCRevisions
    SkillMD <- MCSkillMD
    Injected = "op"
    EnvironmentMD <- MCEnvironment
    BootstrapMD <- MCBootstrap
    Own = "own"
    Link = "link"
    Edited <- MCEdited
    MaxEdits = 2
    MaxFaults = 1
CHECK_DEADLOCK FALSE
INVARIANTS
    ReplaceFilesAreCurrent
    LeftoversAreUntracked
PROPERTIES
    EditsSurvive
    OnlyPackPathsAreRemoved
    OutageKeepsPacks
