---------------------------- MODULE MCManifests ----------------------------
EXTENDS Manifests

\* The smallest spec a user can write.
Plain ==
    [f \in DOMAIN Fields |->
        CASE f \in {"persistence", "fixOwnership", "allowSameNamespace",
                    "gatewayProxy", "metrics"} -> TRUE
          [] f \in {"chromium", "tailscale", "ollama", "webTerminal", "ingress"} -> "off"
          [] f \in {"servicePorts", "forcePaths", "caBundle", "workspace"} -> "none"
          [] f \in {"skills", "plugins", "initContainers"} -> {}
          [] f = "raw" -> Empty
          [] f = "controlUiOrigins" -> 0
          [] f \in {"podRunAsUser", "containerRunAsUser", "metricsPort", "ingressPort",
                    "checkInterval", "healthCheckTimeout"} -> Unset
          [] f \in {"storageClass", "size", "podRunAsNonRoot", "containerRunAsNonRoot",
                    "metricsIngress", "mergeMode", "format", "limits", "imageTag", "imageDigest",
                    "registry"} -> "unset"
          [] OTHER -> FALSE]

\* Every feature is on.
Full ==
    [Plain EXCEPT
        !.containerRunAsUser = 3000, !.caBundle = "configMap", !.chromium = "persistent",
        !.tailscale = "sso", !.ollama = "models", !.webTerminal = "on", !.serviceMonitor = TRUE,
        !.ingress = "tls", !.httpRoute = TRUE, !.mergeMode = "merge", !.forcePaths = "good",
        !.autoScaling = TRUE, !.selfConfigure = TRUE, !.pnpm = TRUE, !.python = TRUE,
        !.skills = {"npm", "pack"}, !.plugins = {"plain"}, !.pluginInstallReadOnly = TRUE]

MCProfiles == {Plain, Full}

MCClusterDefaults == {NoClusterDefaults,
                      [NoClusterDefaults EXCEPT !.registry = "mirror", !.imageDigest = "pinned", !.pnpm = TRUE]}

AllFields == DOMAIN Fields
=============================================================================
