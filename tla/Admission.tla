----------------------------- MODULE Admission -----------------------------
(***************************************************************************)
(* The admission webhook of OpenClawInstance: what it fills in, and what   *)
(* it refuses.  Its warnings change nothing and are left out.              *)
(***************************************************************************)
EXTENDS InstanceSpec

(* A security context is nil when nothing of it is set. *)
Default(s) ==
    LET noPodContext == s.podRunAsUser = Unset /\ s.podRunAsNonRoot = "unset"
    IN  [s EXCEPT
            !.imageTag = IF @ = "unset" /\ s.imageDigest = "unset" THEN "latest" ELSE @,
            !.mergeMode = IF @ = "unset" THEN "overwrite" ELSE @,
            !.format = IF @ = "unset" THEN "json" ELSE @,
            !.podRunAsUser = IF noPodContext THEN DefaultUser ELSE @,
            !.podRunAsNonRoot = IF noPodContext THEN "true" ELSE @,
            !.limits = IF @ = "unset" THEN "4Gi" ELSE @,
            !.size = IF @ = "unset" THEN "10Gi" ELSE @,
            !.checkInterval = IF @ = Unset THEN 24 * Hour ELSE @,
            !.healthCheckTimeout = IF @ = Unset THEN 10 ELSE @]

reservedInitContainerNames ==
    {"init-data-owner", "init-config", "init-pnpm", "init-python", "init-skills", "init-plugins",
     "init-plugin-scratch", "init-ollama", "init-plugin-runtime-deps"}

validateInitContainers(s) ==
    "" \notin s.initContainers /\ s.initContainers \cap reservedInitContainerNames = {}

\* A path that would leave the workspace, or two entries for one path.
validateWorkspaceSpec(s) == s.workspace \notin {"badPath", "duplicate"}

validateResourceQuantities(s) == s.size # "bad" /\ s.limits # "bad"

validateSkillName(s) == "bad name" \notin s.skills
validatePluginName(s) == "bad name" \notin s.plugins
validateVerifiedPlugins(s) == ~({"plain", "verified"} \subseteq s.plugins)

\* Peers are for AllowedPeers only.
validateMetricsIngress(s) ==
    s.metricsIngress # "AllowedPeers" => ~s.metricsPeers

validateMesh(s) == Cardinality(EnabledMeshProviders(s)) <= 1

validatePodUser(s) == s.podRunAsUser # Root

\* A CA bundle that is given names exactly one source.
validateCABundle(s) == s.caBundle \notin {"empty", "both"}

validateConfigFormat(s) ==
    s.format = "json5" => s.raw = Empty /\ s.mergeMode # "merge"

validateForcePaths(s) ==
    s.forcePaths # "none" => s.mergeMode = "merge" /\ s.forcePaths = "good"

validateCheckInterval(s) ==
    s.checkInterval # Unset => s.checkInterval \in Hour .. 168 * Hour
validateHealthCheckTimeout(s) ==
    s.healthCheckTimeout # Unset => s.healthCheckTimeout \in 2 * Minute .. 30 * Minute

validateSuspended(s) == ~(s.suspended /\ IsHPAEnabled(s))

validate(s) ==
    /\ validatePodUser(s)
    /\ validateMetricsIngress(s)
    /\ validateMesh(s)
    /\ s.limits # "unset"
    /\ validateWorkspaceSpec(s)
    /\ validateResourceQuantities(s)
    /\ validateSkillName(s) /\ validatePluginName(s) /\ validateVerifiedPlugins(s)
    /\ validateCABundle(s)
    /\ validateInitContainers(s)
    /\ validateConfigFormat(s) /\ validateForcePaths(s)
    /\ validateCheckInterval(s) /\ validateHealthCheckTimeout(s)
    /\ validateSuspended(s)

ValidateCreate(s) == validate(s)

ValidateUpdate(old, s) ==
    /\ "unset" \in {old.storageClass, s.storageClass} \/ old.storageClass = s.storageClass
    /\ validate(s)
=============================================================================
