SPECIFICATION FairSpec
CONSTANTS
  Families <- AllFamilies
  Generated = {1, 2, 3, 4}
  Theirs = {8, 9}
  DriftKinds = {"CDPService", "HTTPRoute"}
  FaultSteps = {"RoleBinding", "ConfigMap", "StatefulSet", "Ingress", "status"}
  MaxDisturbances = 2
PROPERTIES
    LevelTriggeredSpec
    NeedsComeFirst
    TokenIsStable
    Converges
