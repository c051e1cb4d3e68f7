---------------------------- MODULE InstanceSpec ----------------------------
(***************************************************************************)
(* The spec of an OpenClawInstance as the admission webhook and the        *)
(* manifest builders read it, and the cluster-wide defaults.               *)
(*                                                                         *)
(* A spec is a record of the fields below.  A field keeps only the values  *)
(* that some guard of the code tells apart; "unset" and Unset stand for a  *)
(* nil pointer or an empty string.  A field the code defaults when it is   *)
(* nil, and never tells nil from the default, has no "unset".              *)
(***************************************************************************)
EXTENDS Integers, FiniteSets

(* No number: a nil pointer to one, or a duration that is not given. *)
Unset == -1

(* Ports that the operator gives to its own containers. *)
GatewayPort == 18789
GatewayProxyPort == 18790
CanvasPort == 18793
CanvasProxyPort == 18794
ChromiumPort == 9222
OllamaPort == 11434
WebTerminalPort == 7681
DefaultMetricsPort == 9090
APIServerPort == 6443

(* User IDs the code writes down itself. *)
Root == 0
DefaultUser == 1000
NginxUser == 101
NobodyUser == 65534

Minute == 1
Hour == 60 * Minute

\* The settings of f, and those of g that f does not make.
f ++ g == [x \in DOMAIN f \cup DOMAIN g |-> IF x \in DOMAIN f THEN f[x] ELSE g[x]]

(***************************************************************************)
(* An openclaw.json is a function from the settings it makes to their      *)
(* values.  Of the settings, those the operator reads or injects.          *)
(***************************************************************************)
Empty == [k \in {} |-> ""]
UserConfigs ==
    {Empty, [bind |-> "loopback"], [authMode |-> "trusted-proxy"], [otelEnabled |-> "false"],
     [allowedOrigins |-> "user"]}

StorageFields == [
    persistence   |-> BOOLEAN,
    existingClaim |-> BOOLEAN,
    storageClass  |-> {"unset", "fast", "slow"},
    size          |-> {"unset", "10Gi", "bad"},
    fixOwnership  |-> BOOLEAN]

SecurityFields == [
    podRunAsUser          |-> {Unset, Root, DefaultUser, 2000},
    podRunAsNonRoot       |-> {"unset", "true", "false"},
    containerRunAsUser    |-> {Unset, Root, 3000},
    containerRunAsNonRoot |-> {"unset", "true", "false"},
    caBundle              |-> {"none", "empty", "configMap", "secret", "both"},
    allowSameNamespace    |-> BOOLEAN]

SidecarFields == [
    gatewayProxy   |-> BOOLEAN,
    chromium       |-> {"off", "on", "persistent"},
    tailscale      |-> {"off", "on", "sso"},
    netbird        |-> BOOLEAN,
    ollama         |-> {"off", "on", "models"},
    webTerminal    |-> {"off", "on", "readOnly"},
    metrics        |-> BOOLEAN,
    metricsPort    |-> {Unset, 9464, ChromiumPort},
    serviceMonitor |-> BOOLEAN]

\* Custom ports of the Service: none, one of the user's own, or one that takes
\* the place of the metrics port.
NetworkingFields == [
    servicePorts   |-> {"none", "own", "metrics"},
    ingress        |-> {"off", "http", "tls"},
    ingressPort    |-> {Unset, WebTerminalPort},
    httpRoute      |-> BOOLEAN,
    metricsIngress |-> {"unset", "SameNamespace", "AllowedPeers", "None"},
    metricsPeers   |-> BOOLEAN]

ConfigFields == [
    raw              |-> UserConfigs,
    configMapRef     |-> BOOLEAN,
    mergeMode        |-> {"unset", "overwrite", "merge"},
    format           |-> {"unset", "json", "json5"},
    forcePaths       |-> {"none", "good", "bad"},
    controlUiOrigins |-> 0 .. 1]

WorkloadFields == [
    autoScaling           |-> BOOLEAN,
    suspended             |-> BOOLEAN,
    selfConfigure         |-> BOOLEAN,
    pnpm                  |-> BOOLEAN,
    python                |-> BOOLEAN,
    skills                |-> {{}, {"clawhub"}, {"npm", "pack"}, {"pack"}, {"bad name"}},
    plugins               |-> SUBSET {"plain", "verified"} \cup {{"bad name"}},
    pluginInstallReadOnly |-> BOOLEAN,
    initContainers        |-> {{}, {"fetch"}, {"init-config"}, {""}},
    workspace             |-> {"none", "good", "badPath", "duplicate"},
    limits                |-> {"unset", "4Gi", "bad"}]

ImageFields == [
    imageTag           |-> {"unset", "latest", "pinned"},
    imageDigest        |-> {"unset", "pinned"},
    registry           |-> {"unset", "mirror"},
    checkInterval      |-> {Unset, Hour - 1, 24 * Hour, 168 * Hour + 1},
    healthCheckTimeout |-> {Unset, 1, 10, 31}]

(* Every field of the spec with the values it may be given. *)
Fields == StorageFields ++ SecurityFields ++ SidecarFields ++ NetworkingFields
            ++ ConfigFields ++ WorkloadFields ++ ImageFields

IsSpec(s) == DOMAIN s = DOMAIN Fields /\ \A f \in DOMAIN Fields : s[f] \in Fields[f]

-----------------------------------------------------------------------------
(* What the builders ask of a spec. *)

IsGatewayProxyEnabled(s) == s.gatewayProxy
IsMetricsEnabled(s) == s.metrics
MetricsPort(s) == IF s.metricsPort # Unset THEN s.metricsPort ELSE DefaultMetricsPort
IsPersistenceEnabled(s) == s.persistence
IsHPAEnabled(s) == s.autoScaling
IsDataOwnershipFixEnabled(s) == s.fixOwnership
hasPlugins(s) == s.plugins # {}
pluginInstallReadOnly(s) == s.pluginInstallReadOnly

(* Mesh providers, in the order of the table that the builders consult. *)
EnabledMeshProviders(s) ==
    (IF s.tailscale # "off" THEN {"tailscale"} ELSE {}) \cup (IF s.netbird THEN {"netbird"} ELSE {})
ActiveMeshProvider(s) ==
    CASE "tailscale" \in EnabledMeshProviders(s) -> "tailscale"
      [] EnabledMeshProviders(s) = {"netbird"} -> "netbird"
      [] OTHER -> "none"
MeshNeedsServiceAccountToken(s) == ActiveMeshProvider(s) = "tailscale"

(* The image of the main container; a digest takes the place of the tag. *)
GetImage(s) ==
    [ref |-> IF s.imageDigest # "unset" THEN s.imageDigest
             ELSE IF s.imageTag # "unset" THEN s.imageTag ELSE "latest",
     registry |-> s.registry]

-----------------------------------------------------------------------------
(* OpenClawClusterDefaults: values for fields that an instance leaves unset. *)

NoClusterDefaults == [registry |-> "unset", imageTag |-> "unset", imageDigest |-> "unset",
                      pnpm |-> FALSE, python |-> FALSE]

ApplyClusterDefaults(s, d) ==
    [s EXCEPT
        !.registry = IF @ = "unset" THEN d.registry ELSE @,
        !.imageTag = IF @ = "unset" /\ s.imageDigest = "unset" THEN d.imageTag ELSE @,
        !.imageDigest = IF @ = "unset" THEN d.imageDigest ELSE @,
        !.pnpm = @ \/ d.pnpm,
        !.python = @ \/ d.python]
=============================================================================
