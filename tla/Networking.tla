----------------------------- MODULE Networking -----------------------------
(***************************************************************************)
(* What the operator builds around the pod: the Service and the objects    *)
(* that route to it, the NetworkPolicy and the Role of its ServiceAccount. *)
(* A Service port is <<name, port, target>>; a NetworkPolicy rule is       *)
(* <<peer, port>>.                                                         *)
(***************************************************************************)
EXTENDS PodTemplate

CustomPort == 8443

\* spec.networking.service.ports; a port without a target is its own target.
customPorts(s) ==
    CASE s.servicePorts = "none" -> {}
      [] s.servicePorts = "own" -> {<<"own", CustomPort, GatewayProxyPort>>}
      [] s.servicePorts = "metrics" -> {<<"metrics", MetricsPort(s), MetricsPort(s)>>}

GatewayTarget(s) == IF IsGatewayProxyEnabled(s) THEN GatewayProxyPort ELSE GatewayPort
CanvasTarget(s) == IF IsGatewayProxyEnabled(s) THEN CanvasProxyPort ELSE CanvasPort

defaultServicePorts(s) ==
    {<<"gateway", GatewayPort, GatewayTarget(s)>>, <<"canvas", CanvasPort, CanvasTarget(s)>>}
      \cup When(s.chromium # "off", {<<"chromium", ChromiumPort, ChromiumPort>>})
      \cup When(s.webTerminal # "off", {<<"web-terminal", WebTerminalPort, WebTerminalPort>>})

\* A bug the code once had: only the default ports get the metrics port.
appendMetricsPortToDefaults(s, ports) ==
    IF IsMetricsEnabled(s) /\ s.servicePorts = "none"
    THEN ports \cup {<<"metrics", MetricsPort(s), MetricsPort(s)>>} ELSE ports

appendMetricsPort(s, ports) ==
    IF IsMetricsEnabled(s) /\ \A p \in ports : p[1] # "metrics" /\ p[2] # MetricsPort(s)
    THEN ports \cup {<<"metrics", MetricsPort(s), MetricsPort(s)>>} ELSE ports

buildServicePorts(s) ==
    appendMetricsPort(s, IF customPorts(s) # {} THEN customPorts(s) ELSE defaultServicePorts(s))

\* The readiness and liveness probes of the main container.
probeTargetPort(s) == IF IsGatewayProxyEnabled(s) THEN GatewayProxyPort ELSE GatewayPort

\* Service ports that the Ingress and the HTTPRoute send requests to.
ingressBackends(s) ==
    When(s.ingress # "off", {IF s.ingressPort # Unset THEN s.ingressPort ELSE GatewayPort})
httpRouteBackends(s) == When(s.httpRoute, {GatewayPort})

\* The name of the Service port that the ServiceMonitor scrapes.
serviceMonitorPorts(s) == When(s.serviceMonitor /\ IsMetricsEnabled(s), {"metrics"})

-----------------------------------------------------------------------------
(* NetworkPolicy. *)

networkPolicyIngressPorts(s) ==
    IF customPorts(s) # {} THEN {p[3] : p \in customPorts(s)}
    ELSE {GatewayTarget(s), CanvasTarget(s)}
           \cup When(s.webTerminal # "off", {WebTerminalPort})
           \cup When(s.chromium # "off", {ChromiumPort})

\* Namespaces and CIDRs that the user allows besides.
otherPeers == {"allowed"}

metricsPeers(s) ==
    CASE ~IsMetricsEnabled(s) -> {}
      [] IsMetricsEnabled(s) /\ s.metricsIngress = "None" -> {}
      [] IsMetricsEnabled(s) /\ s.metricsIngress = "AllowedPeers" -> When(s.metricsPeers, {"scraper"})
      [] OTHER -> {"sameNamespace"}

buildIngressRules(s) ==
    ((When(s.allowSameNamespace, {"sameNamespace"}) \cup otherPeers) \X networkPolicyIngressPorts(s))
      \cup (metricsPeers(s) \X {MetricsPort(s)})

\* A bug: the mesh sidecar's use of the API server is forgotten.
egressForSelfConfigOnly(s) == When(s.selfConfigure, {APIServerPort})

\* Of the egress rules, the one for the API server.
buildEgressRules(s) ==
    When(s.selfConfigure \/ MeshNeedsServiceAccountToken(s), {APIServerPort})

-----------------------------------------------------------------------------
(* Role: what the pod's ServiceAccount may do. *)

BuildRole(s) ==
    {"read config"} \cup When(s.selfConfigure, {"create self-config", "read secrets"})
      \cup When(ActiveMeshProvider(s) = "tailscale", {"write mesh state"})

-----------------------------------------------------------------------------
(* The ports on which the pod listens, with the interface. *)

AllContainers(s) == buildContainers(s) \cup ToSet(buildInitContainers(s))

\* The gateway's listeners follow the bind of its config.
Listeners(s, config) ==
    {<<p, IF p \in {GatewayPort, CanvasPort} THEN config["bind"] ELSE "0.0.0.0">> :
        p \in UNION {c.ports : c \in AllContainers(s)}}

ListensOn(s, config, p) == \E l \in Listeners(s, config) : l[1] = p /\ l[2] # "loopback"
=============================================================================
