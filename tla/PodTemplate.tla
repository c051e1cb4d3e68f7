---------------------------- MODULE PodTemplate ----------------------------
(***************************************************************************)
(* The pod template that BuildStatefulSet derives from a spec.  A          *)
(* container is the record of what the pod needs to start and to share     *)
(* its volumes: the volumes it mounts, those of them read-only, its user   *)
(* and runAsNonRoot where its own security context sets them (Unset and    *)
(* "unset": it takes the pod's), its image and its ports.                  *)
(***************************************************************************)
EXTENDS InstanceSpec, Sequences, SequencesExt

Container(name, mounts, user, nonRoot) ==
    [name |-> name, mounts |-> mounts, readOnly |-> {}, user |-> user, nonRoot |-> nonRoot,
     image |-> [ref |-> name, registry |-> "unset"], ports |-> {}]

When(b, x) == IF b THEN x ELSE {}

-----------------------------------------------------------------------------
(* Security contexts. *)

buildPodSecurityContext(s) ==
    [user |-> IF s.podRunAsUser # Unset THEN s.podRunAsUser ELSE DefaultUser,
     nonRoot |-> IF s.podRunAsNonRoot # "unset" THEN s.podRunAsNonRoot ELSE "true"]

podRunAsNonRoot(s) == IF s.podRunAsNonRoot # "unset" THEN s.podRunAsNonRoot ELSE "true"

buildContainerSecurityContext(s) ==
    [user |-> s.containerRunAsUser,
     nonRoot |-> IF s.containerRunAsNonRoot # "unset" THEN s.containerRunAsNonRoot
                 ELSE podRunAsNonRoot(s)]

-----------------------------------------------------------------------------
(* Containers. *)

caMount(s) == When(s.caBundle # "none", {"ca-bundle"})

FilterNonPackSkills(s) == s.skills \ {"pack"}

MeshMainContainerMounts(s) ==
    When(ActiveMeshProvider(s) = "tailscale", {"tailscale-socket", "tailscale-bin"})

buildMainContainer(s) ==
    LET sc == buildContainerSecurityContext(s)
    IN  [Container("openclaw",
                   {"data", "tmp", "config"} \cup caMount(s) \cup MeshMainContainerMounts(s),
                   sc.user, sc.nonRoot)
            EXCEPT !.image = GetImage(s), !.ports = {GatewayPort, CanvasPort}]

buildGatewayProxyContainer(s) ==
    [Container("gateway-proxy", {"config", "gateway-proxy-tmp"}, NginxUser, "true")
        EXCEPT !.ports = {GatewayProxyPort, CanvasProxyPort}, !.image.registry = s.registry]

buildTailscaleContainer(s) ==
    [Container("tailscale", {"tailscale-socket", "config", "tailscale-tmp"}, Unset, podRunAsNonRoot(s))
        EXCEPT !.image.registry = s.registry]

\* The image is not moved to the spec's registry.
buildNetBirdContainer(s) == Container("netbird", {"netbird-state"}, Unset, podRunAsNonRoot(s))

MeshSidecarContainers(s) ==
    CASE ActiveMeshProvider(s) = "tailscale" -> {buildTailscaleContainer(s)}
      [] ActiveMeshProvider(s) = "netbird" -> {buildNetBirdContainer(s)}
      [] OTHER -> {}

buildOllamaContainer(s) ==
    [Container("ollama", {"ollama-models"}, Root, "false")
        EXCEPT !.ports = {OllamaPort}, !.image.registry = s.registry]

buildWebTerminalContainer(s) ==
    [Container("web-terminal", {"data", "web-terminal-tmp"}, DefaultUser, podRunAsNonRoot(s))
        EXCEPT !.ports = {WebTerminalPort}, !.image.registry = s.registry,
               !.readOnly = When(s.webTerminal = "readOnly", {"data"})]

buildOTelCollectorContainer(s) ==
    [Container("otel-collector", {"otel-collector-config"}, Unset, "true")
        EXCEPT !.ports = {MetricsPort(s)}, !.image.registry = s.registry]

buildContainers(s) ==
    {buildMainContainer(s)}
      \cup When(IsGatewayProxyEnabled(s), {buildGatewayProxyContainer(s)})
      \cup MeshSidecarContainers(s)
      \cup When(s.ollama # "off", {buildOllamaContainer(s)})
      \cup When(s.webTerminal # "off", {buildWebTerminalContainer(s)})
      \cup When(IsMetricsEnabled(s), {buildOTelCollectorContainer(s)})

-----------------------------------------------------------------------------
(* Init containers, in the order in which they run. *)

\* The script chowns the root of the data volume to this user.
dataOwner(s) ==
    IF buildContainerSecurityContext(s).user # Unset
    THEN buildContainerSecurityContext(s).user ELSE buildPodSecurityContext(s).user

buildDataOwnerInitContainer(s) ==
    [Container("init-data-owner", {"data"}, Root, "false") EXCEPT !.image.registry = s.registry]

usesOpenClawImage(s) == s.mergeMode = "merge" \/ s.format = "json5"

buildConfigInitContainer(s) ==
    [Container("init-config",
               {"data", "config", "workspace-init"} \cup When(usesOpenClawImage(s), {"init-tmp"}),
               Unset, podRunAsNonRoot(s))
        EXCEPT !.readOnly = {"workspace-init"},
               !.image = IF usesOpenClawImage(s) THEN GetImage(s) ELSE [@ EXCEPT !.registry = s.registry]]

buildTailscaleBinInitContainer(s) ==
    [Container("init-tailscale-bin", {"tailscale-bin"}, Unset, podRunAsNonRoot(s))
        EXCEPT !.image.registry = s.registry]

buildUvInitContainer(s) ==
    [Container("init-uv", {"data"}, Unset, "true") EXCEPT !.image.registry = s.registry]
buildPipInitContainer(s) ==
    [Container("init-pip", {"data", "tmp"}, Unset, "true") EXCEPT !.image = GetImage(s)]
buildPluginRuntimeDepsInitContainer(s) ==
    [Container("init-plugin-runtime-deps", {"data"}, Unset, podRunAsNonRoot(s)) EXCEPT !.image = GetImage(s)]

buildPnpmInitContainer(s) ==
    [Container("init-pnpm", {"data", "pnpm-tmp"} \cup caMount(s), Unset, podRunAsNonRoot(s))
        EXCEPT !.image = GetImage(s)]
buildPythonInitContainer(s) ==
    [Container("init-python", {"data", "python-tmp"} \cup caMount(s), Unset, podRunAsNonRoot(s))
        EXCEPT !.image.registry = s.registry]

buildSkillsInitContainer(s) ==
    [Container("init-skills", {"data", "skills-tmp"} \cup caMount(s), Unset, podRunAsNonRoot(s))
        EXCEPT !.image = GetImage(s)]

\* The user is the main container's, runAsNonRoot the pod's.
buildPluginsInitContainer(s) ==
    [Container("init-plugins",
               {"data"} \cup caMount(s) \cup When(pluginInstallReadOnly(s), {"plugin-scratch"}),
               buildContainerSecurityContext(s).user, podRunAsNonRoot(s))
        EXCEPT !.image = GetImage(s)]

buildPluginScratchInitContainer(installer) ==
    [installer EXCEPT !.name = "init-plugin-scratch", !.mounts = {"plugin-scratch"}]

\* A bug: the helpers keep the pod's user.
keepOwnIdentity(s, c) == c

\* Helpers that write the data volume and choose no user take the gateway's.
shareGatewayIdentity(s, c) ==
    LET sc == buildContainerSecurityContext(s)
    IN  IF sc.user # Unset /\ c.user = Unset /\ "data" \in c.mounts \ c.readOnly
        THEN [c EXCEPT !.user = sc.user, !.nonRoot = sc.nonRoot]
        ELSE c

buildOllamaModelPullInitContainer(s) ==
    [Container("init-ollama", {"ollama-models"}, Root, "false") EXCEPT !.image.registry = s.registry]

\* A native sidecar: an init container that stays up.
buildChromiumContainer(s) ==
    [Container("chromium", {"chromium-tmp", "chromium-shm", "chromium-data"} \cup caMount(s),
               NobodyUser, "true")
        EXCEPT !.ports = {ChromiumPort}, !.image.registry = s.registry]

Opt(b, c) == IF b THEN <<c>> ELSE <<>>

OwnInitContainers(s) ==
    Opt(IsDataOwnershipFixEnabled(s), buildDataOwnerInitContainer(s))
      \o <<buildConfigInitContainer(s)>>
      \o Opt(ActiveMeshProvider(s) = "tailscale", buildTailscaleBinInitContainer(s))
      \o <<buildUvInitContainer(s), buildPipInitContainer(s), buildPluginRuntimeDepsInitContainer(s)>>
      \o Opt(s.pnpm, buildPnpmInitContainer(s))
      \o Opt(s.python, buildPythonInitContainer(s))
      \o Opt(FilterNonPackSkills(s) # {}, buildSkillsInitContainer(s))
      \o Opt(hasPlugins(s) /\ pluginInstallReadOnly(s),
             buildPluginScratchInitContainer(buildPluginsInitContainer(s)))
      \o Opt(hasPlugins(s), buildPluginsInitContainer(s))

\* The user's own init containers run last; their mounts are the user's concern.
buildInitContainers(s) ==
    LET own == OwnInitContainers(s)
    IN  [i \in DOMAIN own |-> shareGatewayIdentity(s, own[i])]
          \o Opt(s.ollama = "models", buildOllamaModelPullInitContainer(s))
          \o Opt(s.chromium # "off", buildChromiumContainer(s))
          \o SetToSeq({Container(n, {}, Unset, "unset") : n \in s.initContainers})

-----------------------------------------------------------------------------
(* Volumes, by name, with what backs each. *)

buildDataVolume(s) ==
    CASE ~IsPersistenceEnabled(s) -> {<<"data", "emptyDir">>}
      [] IsPersistenceEnabled(s) /\ ~IsHPAEnabled(s) ->
            {<<"data", IF s.existingClaim THEN "existingClaim" ELSE "pvc">>}
      [] OTHER -> {}

buildMeshVolumes(s) ==
    CASE ActiveMeshProvider(s) = "tailscale" ->
            {"tailscale-socket", "tailscale-bin", "tailscale-tmp"} \X {"emptyDir"}
      [] ActiveMeshProvider(s) = "netbird" -> {<<"netbird-state", "emptyDir">>}
      [] OTHER -> {}

buildChromiumVolumes(s) ==
    {"chromium-tmp", "chromium-shm"} \X {"emptyDir"}
      \cup {<<"chromium-data", IF s.chromium = "persistent" THEN "pvc" ELSE "emptyDir">>}

\* A bug: the scratch volume of JSON5 mode is forgotten.
initTmpForMergeOnly(s) == s.mergeMode = "merge"

needsInitTmp(s) == s.mergeMode = "merge" \/ s.format = "json5"

buildVolumes(s) ==
    buildDataVolume(s)
      \cup ({"config", "workspace-init"} \X {"configMap"})
      \cup When(IsMetricsEnabled(s), {<<"otel-collector-config", "configMap">>})
      \cup ({v \in {"skills-tmp", "plugin-scratch", "pnpm-tmp", "python-tmp", "init-tmp", "tmp",
                    "gateway-proxy-tmp", "ollama-models", "web-terminal-tmp"} :
                CASE v = "skills-tmp" -> s.skills # {}
                  [] v = "plugin-scratch" -> hasPlugins(s) /\ pluginInstallReadOnly(s)
                  [] v = "pnpm-tmp" -> s.pnpm
                  [] v = "python-tmp" -> s.python
                  [] v = "init-tmp" -> needsInitTmp(s)
                  [] v = "tmp" -> TRUE
                  [] v = "gateway-proxy-tmp" -> IsGatewayProxyEnabled(s)
                  [] v = "ollama-models" -> s.ollama # "off"
                  [] v = "web-terminal-tmp" -> s.webTerminal # "off"} \X {"emptyDir"})
      \cup buildMeshVolumes(s)
      \cup When(s.chromium # "off", buildChromiumVolumes(s))
      \cup When(s.caBundle \in {"configMap", "both"}, {<<"ca-bundle", "configMap">>})
      \cup When(s.caBundle = "secret", {<<"ca-bundle", "secret">>})

\* With auto-scaling every replica claims a data volume of its own.
volumeClaimTemplates(s) == When(IsPersistenceEnabled(s) /\ IsHPAEnabled(s), {"data"})

-----------------------------------------------------------------------------
(* The openclaw.json that the pod reads: the user's settings, and what the *)
(* operator adds for its sidecars where the user sets nothing.             *)

Add(c, k, v) == c ++ [x \in {k} |-> v]
If(b, c, d) == IF b THEN c ELSE d

enrichConfigWithGatewayMode(c) == Add(c, "mode", "local")

enrichConfigWithOTelMetrics(c) ==
    If("otelEnabled" \in DOMAIN c /\ c["otelEnabled"] = "false", c,
       Add(Add(c, "otelEnabled", "true"), "otelEndpoint", "sidecar"))

enrichConfigWithGatewayAuth(c) ==
    If("authToken" \in DOMAIN c \/ ("authMode" \in DOMAIN c /\ c["authMode"] = "trusted-proxy"), c,
       Add(Add(c, "authMode", "token"), "authToken", "generated"))

enrichConfigWithTailscale(c, s) == If(s.tailscale = "sso", Add(c, "allowTailscale", "true"), c)

enrichConfigWithBrowser(c) == Add(c, "cdpUrl", "sidecar")

\* A bug: loopback also where no proxy forwards to it.
enrichConfigWithLoopbackBind(c, s) == Add(c, "bind", "loopback")

enrichConfigWithGatewayBind(c, s) ==
    Add(c, "bind", IF IsGatewayProxyEnabled(s) THEN "loopback" ELSE "0.0.0.0")

enrichConfigWithTrustedProxies(c) == Add(c, "trustedProxies", "loopback")

\* localhost is always among the origins, so there is always something to add.
deriveControlUIOrigins(s) == <<"localhost", s.ingress, s.controlUiOrigins>>
enrichConfigWithControlUIOrigins(c, s) ==
    Add(c, "allowedOrigins", "derived")

BuildConfigMapFromBytes(s, base, token) ==
    LET c1 == enrichConfigWithGatewayMode(base)
        c2 == If(IsMetricsEnabled(s), enrichConfigWithOTelMetrics(c1), c1)
        c3 == If(token, enrichConfigWithGatewayAuth(c2), c2)
        c4 == enrichConfigWithTailscale(c3, s)
        c5 == If(s.chromium # "off", enrichConfigWithBrowser(c4), c4)
        c6 == enrichConfigWithTrustedProxies(enrichConfigWithGatewayBind(c5, s))
    IN  [json |-> enrichConfigWithControlUIOrigins(c6, s),
         origins |-> If("allowedOrigins" \in DOMAIN base, <<>>, deriveControlUIOrigins(s)),
         nginx |-> IsGatewayProxyEnabled(s),
         tailscaleServe |-> ActiveMeshProvider(s) = "tailscale",
         otelPort |-> If(IsMetricsEnabled(s), MetricsPort(s), Unset)]

BuildConfigMap(s, token) == BuildConfigMapFromBytes(s, s.raw, token)

HasGatewayBindConflict(s) ==
    ~IsGatewayProxyEnabled(s) /\ "bind" \in DOMAIN s.raw /\ s.raw["bind"] = "loopback"

-----------------------------------------------------------------------------
(* The template as a whole. *)

\* A bug the code once had: hand-picked fields instead of the rendered config.
hashOfConfigFields(s) == <<s.raw, s.configMapRef, s.mergeMode, s.format, s.skills, s.plugins>>

calculateConfigHash(s) ==
    <<s.raw, s.configMapRef, s.mergeMode, s.format, s.forcePaths, BuildConfigMap(s, FALSE),
      s.skills, s.plugins, s.initContainers, s.pnpm, s.python, s.tailscale, s.netbird>>

\* -1: the field is left to the HorizontalPodAutoscaler.
statefulSetReplicas(s) == IF s.suspended THEN 0 ELSE IF IsHPAEnabled(s) THEN Unset ELSE 1

automountServiceAccountToken(s) == s.selfConfigure \/ MeshNeedsServiceAccountToken(s)

BuildStatefulSet(s) ==
    [containers |-> buildContainers(s), init |-> buildInitContainers(s), volumes |-> buildVolumes(s),
     pod |-> buildPodSecurityContext(s), token |-> automountServiceAccountToken(s),
     owner |-> dataOwner(s), configHash |-> calculateConfigHash(s)]
=============================================================================
