----------------------------- MODULE Manifests -----------------------------
(***************************************************************************)
(* From a user's edit to the running pod: the API server admits an edit    *)
(* through the webhook, the reconciler merges the cluster defaults and     *)
(* writes first the ConfigMap and then the StatefulSet, the StatefulSet    *)
(* controller replaces the pod when its template changed, and the kubelet  *)
(* restarts containers, whose postStart hook reads the ConfigMap again.    *)
(* What the reconciler writes is kept as the spec it was built from.       *)
(***************************************************************************)
EXTENDS Admission, Networking

CONSTANTS
    Profiles,         \* the specs that the instance may be created with
    EditedFields,     \* the fields that users edit afterwards
    ClusterDefaults,  \* what the cluster administrator may set
    MaxEdits,         \* bound on edits of the spec, the external config, the defaults
    MaxFaults         \* bound on failed passes, evictions and container restarts

ASSUME ManifestsAssumption ==
    /\ \A s \in Profiles : IsSpec(s)
    /\ EditedFields \subseteq DOMAIN Fields
    /\ NoClusterDefaults \in ClusterDefaults
    /\ \A d \in ClusterDefaults :
          /\ d.registry \in ImageFields.registry
          /\ d.imageTag \in ImageFields.imageTag /\ d.imageDigest \in ImageFields.imageDigest
    /\ MaxEdits \in Nat /\ MaxFaults \in Nat

VARIABLES
    spec,      \* the stored spec
    ext,       \* the content of the user's external ConfigMap (config.configMapRef)
    defaults,  \* the OpenClawClusterDefaults singleton
    pass,      \* the merged spec of a pass between its two writes, or None
    cm,        \* the operator's ConfigMap: its data, and the spec it was built from
    sts,       \* the spec the StatefulSet was built from, or None
    pod,       \* the pod: the spec of its template, the config it read, early
    edits, faults

vars == <<spec, ext, defaults, pass, cm, sts, pod, edits, faults>>

None == Empty

baseConfig(s) == IF s.configMapRef THEN ext ELSE s.raw

\* A JSON5 document is no JSON object; every enrichment leaves it as it is.
reconcileConfigMap(s) ==
    LET data == BuildConfigMapFromBytes(s, baseConfig(s), TRUE)
    IN  [of |-> s,
         data |-> IF s.configMapRef /\ s.format = "json5" THEN [data EXCEPT !.json = ext] ELSE data]

Merged == ApplyClusterDefaults(spec, defaults)

Init ==
    /\ spec \in {Default(s) : s \in {t \in Profiles : ValidateCreate(Default(t))}}
    /\ ext = Empty /\ defaults = NoClusterDefaults
    /\ pass = None /\ cm = None /\ sts = None /\ pod = None
    /\ edits = 0 /\ faults = 0

-----------------------------------------------------------------------------
(* Users and administrators. *)

UserEdits ==
    /\ edits < MaxEdits
    /\ \E f \in EditedFields : \E v \in Fields[f] \ {spec[f]} :
          LET new == Default([spec EXCEPT ![f] = v])
          IN  new # spec /\ ValidateUpdate(spec, new) /\ spec' = new
    /\ edits' = edits + 1
    /\ UNCHANGED <<ext, defaults, pass, cm, sts, pod, faults>>

ExternalConfigChanges ==
    /\ edits < MaxEdits
    /\ spec.configMapRef
    /\ ext' \in UserConfigs \ {ext}
    /\ edits' = edits + 1
    /\ UNCHANGED <<spec, defaults, pass, cm, sts, pod, faults>>

ClusterDefaultsChange ==
    /\ edits < MaxEdits
    /\ defaults' \in ClusterDefaults \ {defaults}
    /\ edits' = edits + 1
    /\ UNCHANGED <<spec, ext, pass, cm, sts, pod, faults>>

-----------------------------------------------------------------------------
(* The reconciler. *)

UpToDate == sts = Merged /\ cm = reconcileConfigMap(Merged)

ReconcileConfigMap ==
    /\ pass = None
    /\ ~UpToDate
    /\ pass' = Merged
    /\ cm' = reconcileConfigMap(Merged)
    /\ UNCHANGED <<spec, ext, defaults, sts, pod, edits, faults>>

ReconcileStatefulSet ==
    /\ pass # None
    /\ sts' = pass
    /\ pass' = None
    /\ UNCHANGED <<spec, ext, defaults, cm, pod, edits, faults>>

\* A failed call, or the operator stops.
PassFails ==
    /\ pass # None
    /\ faults < MaxFaults
    /\ pass' = None
    /\ faults' = faults + 1
    /\ UNCHANGED <<spec, ext, defaults, cm, sts, pod, edits>>

-----------------------------------------------------------------------------
(* The cluster. *)

\* The pod reads the mounted ConfigMap; early when that is of another revision
\* of the spec than the pod's template.
ReadsConfig(s) == [spec |-> s, config |-> cm.data, early |-> cm.of # s]

RolloutPending ==
    /\ sts # None /\ statefulSetReplicas(sts) # 0
    /\ pod # None => pod.spec # sts /\ BuildStatefulSet(pod.spec) # BuildStatefulSet(sts)

Rollout ==
    /\ RolloutPending
    /\ pod' = ReadsConfig(sts)
    /\ UNCHANGED <<spec, ext, defaults, pass, cm, sts, edits, faults>>

ScaleDown ==
    /\ sts # None /\ pod # None
    /\ statefulSetReplicas(sts) = 0
    /\ pod' = None
    /\ UNCHANGED <<spec, ext, defaults, pass, cm, sts, edits, faults>>

\* buildConfigRestoreCommand: the hook has nothing to restore for JSON5.
RestartContainer ==
    /\ pod # None
    /\ faults < MaxFaults
    /\ pod.spec.format # "json5"
    /\ pod' = ReadsConfig(pod.spec)
    /\ pod' # pod
    /\ faults' = faults + 1
    /\ UNCHANGED <<spec, ext, defaults, pass, cm, sts, edits>>

Next ==
    \/ UserEdits \/ ExternalConfigChanges \/ ClusterDefaultsChange
    \/ ReconcileConfigMap \/ ReconcileStatefulSet \/ PassFails
    \/ Rollout \/ ScaleDown \/ RestartContainer

Spec == Init /\ [][Next]_vars

-----------------------------------------------------------------------------
(* Properties of the manifests that a complete pass has written. *)

PassComplete == sts # None /\ pass = None /\ sts = Merged

Effective(c, pod_) ==
    [user |-> IF c.user # Unset THEN c.user ELSE pod_.user,
     nonRoot |-> IF c.nonRoot # "unset" THEN c.nonRoot ELSE pod_.nonRoot]

(* Every volume that a container of the operator mounts is declared, and no volume
   twice, by buildVolumes or as a claim template (statefulset.go): the guards of the
   mounts and those of the volumes are written in two places, and the API server
   refuses a pod in which they disagree. *)
EveryMountHasAVolume ==
    PassComplete =>
        LET volumes == buildVolumes(sts)
            names == {v[1] : v \in volumes}
            claims == volumeClaimTemplates(sts)
        IN  /\ \A v, w \in volumes : v[1] = w[1] => v = w
            /\ names \cap claims = {}
            /\ \A c \in AllContainers(sts) : c.mounts \subseteq names \cup claims

(* The users of the containers fit.  No container is built that the kubelet would
   refuse to start: runAsNonRoot in force together with user 0, whatever of both is
   set at the pod, at the container or copied to a helper; for a container user
   other than 0, which the webhook lets through.  And the main container and every
   init container that writes the data volume run as the user to whom
   init-data-owner gives the volume's root, so that none is shut out once OpenClaw
   sets mode 0700 (statefulset.go, "Data writers must share the gateway UID"). *)
ContainerUsersFit ==
    PassComplete =>
        LET UserOf(c) == Effective(c, buildPodSecurityContext(sts))
        IN  \A c \in AllContainers(sts) :
              /\ sts.containerRunAsUser # Root =>
                    ~(UserOf(c).nonRoot = "true" /\ UserOf(c).user = Root)
              /\ "data" \in c.mounts \ c.readOnly /\ c.name \notin {"init-data-owner", "web-terminal"} =>
                    UserOf(c).user = dataOwner(sts)

(* Every default port of the Service, and the probes, reach a container that listens
   there on the pod's address, or the reconciler reports the bind conflict; and
   when there is a policy it lets the application's peers in. *)
ServicePortsAreServed ==
    PassComplete /\ cm # None /\ cm.of = sts /\ ~sts.configMapRef
      /\ customPorts(sts) = {} /\ ~HasGatewayBindConflict(sts) =>
        /\ \A p \in buildServicePorts(sts) : ListensOn(sts, cm.data.json, p[3])
        /\ ListensOn(sts, cm.data.json, probeTargetPort(sts))
        /\ \A b \in ingressBackends(sts) \cup httpRouteBackends(sts) :
              (b = WebTerminalPort => sts.webTerminal # "off") => \E p \in buildServicePorts(sts) : p[2] = b
        /\ \A p \in buildServicePorts(sts) :
              p[1] # "metrics" => \E r \in buildIngressRules(sts) : r[2] = p[3]

Collides(s) == s.chromium # "off" /\ MetricsPort(s) = ChromiumPort

(* The unauthenticated metrics endpoint is open to the peers that metricsIngress names
   and to nobody else, unless the user himself makes it a port of the Service; and
   with a ServiceMonitor, Prometheus finds a Service port of that name which leads
   there, whether or not the user gives the Service ports of his own (service.go,
   appendMetricsPort).  The collector's port must be free. *)
MetricsReachTheirPeers ==
    PassComplete /\ ~Collides(sts) =>
        /\ sts.servicePorts # "metrics" =>
              {r[1] : r \in {x \in buildIngressRules(sts) : x[2] = MetricsPort(sts)}} = metricsPeers(sts)
        /\ \A n \in serviceMonitorPorts(sts) :
              \E p \in buildServicePorts(sts) : p[1] = n /\ p[3] = MetricsPort(sts)

(* A pod whose agent or mesh sidecar calls the API server has the token, the rule in
   the Role and the way out through the policy (statefulset.go, rbac.go and
   networkpolicy.go decide this apart). *)
APIUsersAreEquipped ==
    PassComplete =>
        /\ sts.selfConfigure =>
              automountServiceAccountToken(sts) /\ "create self-config" \in BuildRole(sts)
        /\ (\E c \in AllContainers(sts) : c.name = "tailscale") =>
              automountServiceAccountToken(sts) /\ "write mesh state" \in BuildRole(sts)
        /\ automountServiceAccountToken(sts) => APIServerPort \in buildEgressRules(sts)

\* Nothing is left to do for the reconciler and the StatefulSet controller.
Settled == pass = None /\ UpToDate /\ ~RolloutPending /\ statefulSetReplicas(sts) # 0

(* Once a pass is complete and no rollout is pending, the pod runs with the config that
   the spec renders to (calculateConfigHash, "Hashing only hand-picked spec fields
   previously let the ConfigMap re-render while the StatefulSet never rolled"): for
   inline config, and unless the pod read the ConfigMap before the StatefulSet
   of the same revision was written. *)
InlineConfigReachesThePod ==
    pod # None /\ pod.config # cm.data => pod.early \/ sts.configMapRef \/ ~Settled

(* README, "Config changes are detected via SHA-256 hashing and automatically trigger a
   rolling update": as above for every source of the config. *)
ConfigChangesRollOut ==
    pod # None /\ pod.config # cm.data => pod.early \/ ~Settled
=============================================================================
