----------------------------- MODULE Resources -----------------------------
(***************************************************************************)
(* One pass of the instance reconciler over everything the instance owns   *)
(* (reconcileResources): a fixed sequence of handlers, each of which       *)
(* creates, updates or deletes one object, from one copy of the spec that  *)
(* the pass read when it began.  Any handler may fail and any pass may be  *)
(* cut short by a crash; the user edits the spec, and the objects that the *)
(* instance only refers to come, change and go, in the middle of a pass.   *)
(*                                                                         *)
(* An object is the set of its contents, {} when it does not exist; the    *)
(* content of most kinds is the spec it was rendered from (the rendering   *)
(* itself is in PodTemplate and Networking).  Skill packs and workspace    *)
(* files are in Workspace, restores in BackupRestore, updates in           *)
(* AutoUpdate.                                                             *)
(***************************************************************************)
EXTENDS Integers, Sequences, FiniteSets

CONSTANTS
    Families,     \* sets of specs: the user edits within one
    Generated,    \* gateway tokens the operator may generate (numbers)
    Theirs,       \* gateway tokens of the user's own Secret (numbers)
    DriftKinds,   \* kinds that somebody deletes by hand
    FaultSteps,   \* steps at which a pass may be cut short
    MaxDisturbances  \* bound on edits, other changes by users, and faults

\* A generated token is random: there is always one that is not in use (at
\* most the Secret, the ConfigMap and the StatefulSet hold one).
ASSUME FamiliesAssumption ==
    /\ Generated \cap Theirs = {}
    /\ Generated # {} /\ \A a, b, c \in Generated : Generated # {a, b, c}
    /\ \A F, G \in Families : F # G => F \cap G = {}
    /\ MaxDisturbances \in Nat

VARIABLES
    spec,        \* the instance's spec
    status,      \* its status: managedResources, observed generation, Failed
    ext,         \* objects that belong to the user or to the platform
    objs,        \* kind -> {} or {content}
    deployment,  \* the Deployment of an older release, or of somebody else
    pass,        \* the pass in progress: its step and what it holds in memory
    queue,       \* a request for the instance is in the work queue
    cached,      \* the operator's cache shows the gateway token Secret
    disturbed    \* number of edits, other changes and faults so far

vars == <<spec, status, ext, objs, deployment, pass, queue, cached, disturbed>>

-----------------------------------------------------------------------------
(* The spec, what the instance refers to, and what it owns                 *)

SpecSet == [account : BOOLEAN, policy : BOOLEAN, token : {"generated", "theirs"},
            config : {"inline", "ref"}, mesh : BOOLEAN, data : {"own", "claim", "off"},
            browser : {"off", "plain", "own", "claim"}, pdb : BOOLEAN, hpa : BOOLEAN,
            suspended : BOOLEAN, schedule : BOOLEAN,
            ingress : {"off", "open", "auth", "traefik"}, route : BOOLEAN,
            metrics : BOOLEAN, monitor : BOOLEAN, rule : BOOLEAN, dashboards : BOOLEAN]

\* What the webhook admits, as far as it matters here.
validate(s) == s \in SpecSet /\ ~(s.suspended /\ s.hpa)

Family == UNION {F \in Families : spec \in F}

\* The handlers in the order in which reconcileResources calls them.
Steps == <<"ServiceAccount", "Role", "RoleBinding", "NetworkPolicy", "lookup", "GatewayToken",
           "MeshState", "ConfigMap", "WorkspaceConfigMap", "PVC", "ChromiumPVC", "PDB", "HPA",
           "migrate", "StatefulSet", "S3Mirror", "CronJob", "Service", "CDPService",
           "BasicAuth", "Middleware", "Ingress", "HTTPRoute", "ServiceMonitor",
           "PrometheusRule", "DashboardOperator", "DashboardInstance", "status">>

Kinds == {Steps[i] : i \in DOMAIN Steps} \ {"lookup", "migrate", "status"}

\* Kinds without a field in status.managedResources.
Unnamed == {"CDPService", "Ingress", "Middleware", "S3Mirror", "WorkspaceConfigMap"}

\* Kinds whose change or deletion enqueues the instance (Owns).
Watched == Kinds \ ({"HTTPRoute", "PrometheusRule", "Middleware"}
                    \cup IF "prometheus" \in ext.crds THEN {} ELSE {"ServiceMonitor"})

\* A persistent instance that scales has one volume per replica.
VolumeClaimTemplates(s) == s.hpa /\ s.data # "off"

\* Secrets whose data go into the pod's secret-hash annotation: the gateway
\* token's and the mesh credential's; 0 stands for a missing one.
computeSecretHash(s) ==
    [gateway |-> IF s.token = "theirs" THEN ext.secret
                 ELSE IF objs["GatewayToken"] = {} THEN 0
                 ELSE CHOOSE t \in objs["GatewayToken"] : TRUE,
     mesh    |-> IF s.mesh THEN ext.credential ELSE 0]

\* A bug: the user's own gateway Secret is not matched.
findInstancesForCredentialOnly(which) == which = "credential" /\ spec.mesh

\* Which instances a change of a Secret of the user enqueues.
findInstancesForSecret(which) ==
    \/ which = "secret" /\ spec.token = "theirs"
    \/ which = "credential" /\ spec.mesh

findInstancesForConfigMap == spec.config = "ref"

-----------------------------------------------------------------------------
(* The frame of a pass                                                     *)

Idle == [step |-> 0, spec |-> spec, managed |-> {}, token |-> 0, creds |-> "missing", stale |-> FALSE]

At(k) == pass.step > 0 /\ Steps[pass.step] = k

\* The user's write to the instance makes the copy of a pass outdated.
Overtaken(s) ==
    IF pass.step = 0 THEN [pass EXCEPT !.spec = s] ELSE [pass EXCEPT !.stale = TRUE]

\* A request is taken from the queue and the instance read from the cache.
BeginPass ==
    /\ pass.step = 0
    /\ queue' = FALSE
    /\ pass' = [step |-> 1, spec |-> spec, managed |-> status.managed, token |-> 0,
                creds |-> "missing", stale |-> FALSE]
    /\ UNCHANGED <<spec, status, ext, objs, deployment, cached, disturbed>>

\* The handler of kind k leaves it with this content and (not) named in the
\* status; a write that changes a watched object enqueues the instance.
Reconciled(k, content, named) ==
    /\ objs' = [objs EXCEPT ![k] = content]
    /\ queue' = (queue \/ (k \in Watched /\ content # objs[k]))
    /\ pass' = [pass EXCEPT !.step = @ + 1,
                            !.managed = IF named /\ k \notin Unnamed THEN @ \cup {k} ELSE @ \ {k}]
    /\ UNCHANGED <<spec, status, ext, deployment, cached, disturbed>>

\* The kind is kept up to date while it is enabled, and deleted otherwise.
createOrDelete(k, enabled) ==
    At(k) /\ Reconciled(k, IF enabled THEN {pass.spec} ELSE {}, enabled)

\* The kind is kept up to date while it is enabled, and then left alone.
createOrKeep(k, enabled) ==
    At(k) /\ Reconciled(k, IF enabled THEN {pass.spec} ELSE objs[k], enabled \/ k \in pass.managed)

\* The kind is created once and then left alone.
createOnce(k, enabled) ==
    At(k) /\ Reconciled(k, IF enabled /\ objs[k] = {} THEN {pass.spec} ELSE objs[k],
                        enabled \/ k \in pass.managed)

\* Kinds whose CustomResourceDefinition may be missing: then nothing is done.
createOrSkip(k, crd, enabled) ==
    IF crd \in ext.crds THEN createOrDelete(k, enabled)
    ELSE At(k) /\ Reconciled(k, objs[k], enabled /\ k \in pass.managed)

\* The handler returns an error: the pass ends, the status says Failed if it
\* can be written, and the request is queued again.
Fails(written) ==
    /\ status' = IF written /\ ~pass.stale
                 THEN [status EXCEPT !.managed = pass.managed, !.failed = TRUE] ELSE status
    /\ pass' = Idle
    /\ queue' = TRUE
    /\ UNCHANGED <<spec, ext, deployment, cached>>

Refused == Fails(TRUE) /\ UNCHANGED <<objs, disturbed>>

-----------------------------------------------------------------------------
(* The handlers                                                            *)

reconcileRBAC ==
    \E k \in {"ServiceAccount", "Role", "RoleBinding"} : createOrKeep(k, pass.spec.account)

reconcileNetworkPolicy == createOrDelete("NetworkPolicy", pass.spec.policy)

\* The first half of the token's handler looks the Secret up.
lookupGatewayToken ==
    /\ At("lookup")
    /\ LET found == IF pass.spec.token = "theirs" THEN {ext.secret} \ {0}
                    ELSE IF cached THEN objs["GatewayToken"] ELSE {}
       IN IF pass.spec.token = "theirs" /\ found = {} THEN Refused
          ELSE /\ pass' = IF found = {} THEN [pass EXCEPT !.step = @ + 1]
                          ELSE [pass EXCEPT !.step = @ + 2, !.token = CHOOSE t \in found : TRUE,
                                            !.managed = @ \cup {"GatewayToken"}]
               /\ UNCHANGED <<spec, status, ext, objs, deployment, queue, cached, disturbed>>

FreshToken ==
    CHOOSE t \in Generated : t \notin objs["GatewayToken"] \cup {c.token : c \in objs["ConfigMap"]}
                                    \cup UNION {{h.gateway : h \in c.hash} : c \in objs["StatefulSet"]}

\* A bug: the data of a Secret that exists are written again.
tokenOverwritten(t) == {t}

\* The data of a Secret that exists are left alone.
tokenStored(t) == IF objs["GatewayToken"] = {} THEN {t} ELSE objs["GatewayToken"]

\* The second half generates a token.  A Secret that the cache does not show
\* yet makes the creation fail; one that it shows by now keeps its data, and
\* the pass goes on with the token that it has just generated.
reconcileGatewayTokenSecret ==
    /\ At("GatewayToken")
    /\ IF objs["GatewayToken"] # {} /\ ~cached THEN Refused
       ELSE /\ objs' = [objs EXCEPT !["GatewayToken"] = tokenStored(FreshToken)]
            /\ queue' = (queue \/ objs["GatewayToken"] = {})
            /\ cached' = (objs["GatewayToken"] # {})
            /\ pass' = [pass EXCEPT !.step = @ + 1, !.token = FreshToken,
                                    !.managed = @ \cup {"GatewayToken"}]
            /\ UNCHANGED <<spec, status, ext, deployment, disturbed>>

reconcileMeshStateSecret == createOrKeep("MeshState", pass.spec.mesh)

reconcileConfigMap ==
    /\ At("ConfigMap")
    /\ IF pass.spec.config = "ref" /\ ext.config = 0 THEN Refused
       ELSE Reconciled("ConfigMap",
                {[from |-> pass.spec, token |-> pass.token,
                  config |-> IF pass.spec.config = "ref" THEN ext.config ELSE 0]}, TRUE)

reconcileWorkspaceConfigMap == createOrDelete("WorkspaceConfigMap", TRUE)

\* The data volume's claim is created once and never changed or deleted.
reconcilePVC ==
    /\ At("PVC")
    /\ CASE pass.spec.data = "off" \/ pass.spec.hpa -> Reconciled("PVC", objs["PVC"], FALSE)
         [] pass.spec.data = "claim" /\ ~pass.spec.hpa ->
              IF ext.claim THEN Reconciled("PVC", objs["PVC"], TRUE) ELSE Refused
         [] OTHER -> Reconciled("PVC", IF objs["PVC"] = {} THEN {pass.spec} ELSE objs["PVC"], TRUE)

\* A bug: a claim that the status names is taken to exist.
reconcileChromiumPVCByStatus ==
    /\ At("ChromiumPVC")
    /\ LET wanted == pass.spec.browser = "own" /\ "ChromiumPVC" \notin pass.managed
       IN Reconciled("ChromiumPVC", IF wanted THEN {pass.spec} ELSE objs["ChromiumPVC"],
                     pass.spec.browser \in {"own", "claim"})

\* The browser profile's claim is deleted only if the status names one.
reconcileChromiumPVC ==
    /\ At("ChromiumPVC")
    /\ LET claim == objs["ChromiumPVC"]
       IN CASE pass.spec.browser \in {"off", "plain"} ->
                 Reconciled("ChromiumPVC", IF "ChromiumPVC" \in pass.managed THEN {} ELSE claim, FALSE)
            [] pass.spec.browser = "claim" -> Reconciled("ChromiumPVC", claim, TRUE)
            [] OTHER -> Reconciled("ChromiumPVC", IF claim = {} THEN {pass.spec} ELSE claim, TRUE)

reconcilePDB == createOrDelete("PDB", pass.spec.pdb)

reconcileHPA == createOrDelete("HPA", pass.spec.hpa)

\* Only a Deployment that the instance owns is deleted.
Migrated == IF deployment = "owned" THEN "none" ELSE deployment

migrateDeploymentToStatefulSet ==
    /\ At("migrate")
    /\ deployment' = Migrated
    /\ pass' = [pass EXCEPT !.step = @ + 1]
    /\ UNCHANGED <<spec, status, ext, objs, queue, cached, disturbed>>

\* Replicas: none while suspended, the autoscaler's count if there is one,
\* and otherwise one (the API server's default as well).
statefulSetReplicas(s, old) ==
    CASE s.suspended -> 0
      [] s.hpa /\ old # {} -> (CHOOSE o \in old : TRUE).replicas
      [] OTHER -> 1

\* A bug: the claim templates of the StatefulSet in place are not compared.
templatesNotCompared(s, old) == TRUE

VolumeClaimTemplatesEqual(s, old) == \A o \in old : o.templates = VolumeClaimTemplates(s)

\* The API server refuses to change the claim templates in place.
Acceptable(s, old) == \A o \in old : o.templates = VolumeClaimTemplates(s)

\* The hash is empty if a Secret could not be read.
reconcileStatefulSet(hash) ==
    /\ At("StatefulSet")
    /\ LET old == objs["StatefulSet"]
           s == pass.spec
       IN IF ~VolumeClaimTemplatesEqual(s, old)
          THEN Fails(TRUE) /\ objs' = [objs EXCEPT !["StatefulSet"] = {}]
          ELSE IF ~Acceptable(s, old) THEN Fails(TRUE) /\ UNCHANGED objs
          ELSE /\ objs' = [objs EXCEPT !["StatefulSet"] =
                             {[from |-> s, templates |-> VolumeClaimTemplates(s),
                               replicas |-> statefulSetReplicas(s, old), hash |-> hash]}]
               /\ queue' = (queue \/ objs' # objs)
               /\ pass' = [pass EXCEPT !.step = @ + 1, !.managed = @ \cup {"StatefulSet"}]
               /\ UNCHANGED <<spec, status, ext, deployment, cached>>

StatefulSetReconciled == reconcileStatefulSet({computeSecretHash(pass.spec)}) /\ UNCHANGED disturbed

\* The periodic backup: its credentials are read and, unless the platform
\* provides them, mirrored.
BackedUp(s) == s.schedule /\ s.data # "off"

reconcileS3MirrorSecret ==
    /\ At("S3Mirror")
    /\ LET mirrored == BackedUp(pass.spec) /\ ext.s3 = "static"
       IN /\ objs' = IF mirrored THEN [objs EXCEPT !["S3Mirror"] = {pass.spec}] ELSE objs
          /\ queue' = (queue \/ objs' # objs)
          /\ pass' = [pass EXCEPT !.step = @ + 1, !.creds = ext.s3]
          /\ UNCHANGED <<spec, status, ext, deployment, cached, disturbed>>

reconcileBackupCronJob ==
    /\ At("CronJob")
    /\ IF BackedUp(pass.spec) /\ pass.creds = "missing"
       THEN Reconciled("CronJob", objs["CronJob"], "CronJob" \in pass.managed)
       ELSE Reconciled("CronJob",
              IF BackedUp(pass.spec) THEN {[from |-> pass.spec, creds |-> pass.creds]} ELSE {},
              BackedUp(pass.spec))

reconcileService == createOrDelete("Service", TRUE)

reconcileChromiumCDPService == createOrDelete("CDPService", pass.spec.browser # "off")

reconcileBasicAuthSecret == createOnce("BasicAuth", pass.spec.ingress \in {"auth", "traefik"})

reconcileTraefikBasicAuthMiddleware ==
    IF "traefik" \in ext.crds THEN createOrKeep("Middleware", pass.spec.ingress = "traefik")
    ELSE At("Middleware") /\ Reconciled("Middleware", objs["Middleware"], FALSE)

reconcileIngress == createOrDelete("Ingress", pass.spec.ingress # "off")

reconcileHTTPRoute == createOrSkip("HTTPRoute", "gateway", pass.spec.route)

\* A monitor without metrics would scrape nothing.
reconcileServiceMonitor ==
    createOrSkip("ServiceMonitor", "prometheus", pass.spec.monitor /\ pass.spec.metrics)

reconcilePrometheusRule == createOrSkip("PrometheusRule", "prometheus", pass.spec.rule)

reconcileGrafanaDashboards ==
    \E k \in {"DashboardOperator", "DashboardInstance"} : createOrDelete(k, pass.spec.dashboards)

\* The status is written if it changed, and refused if the instance did.
updateStatus ==
    /\ At("status")
    /\ LET written == [managed |-> pass.managed, observed |-> {pass.spec}, failed |-> FALSE]
       IN /\ status' = IF pass.stale THEN status ELSE written
          /\ queue' = (queue \/ written # status)
    /\ pass' = Idle
    /\ UNCHANGED <<spec, ext, objs, deployment, cached, disturbed>>

Handler ==
    \/ reconcileRBAC \/ reconcileNetworkPolicy
    \/ lookupGatewayToken \/ reconcileGatewayTokenSecret \/ reconcileMeshStateSecret
    \/ reconcileConfigMap \/ reconcileWorkspaceConfigMap
    \/ reconcilePVC \/ reconcileChromiumPVC \/ reconcilePDB \/ reconcileHPA
    \/ migrateDeploymentToStatefulSet \/ StatefulSetReconciled
    \/ reconcileS3MirrorSecret \/ reconcileBackupCronJob
    \/ reconcileService \/ reconcileChromiumCDPService
    \/ reconcileBasicAuthSecret \/ reconcileTraefikBasicAuthMiddleware \/ reconcileIngress
    \/ reconcileHTTPRoute \/ reconcileServiceMonitor \/ reconcilePrometheusRule
    \/ reconcileGrafanaDashboards \/ updateStatus

-----------------------------------------------------------------------------
(* Faults and the world                                                    *)

Disturbance == disturbed < MaxDisturbances /\ disturbed' = disturbed + 1

\* An API call fails before the step's write; a conflict is not written to
\* the status.
CallFails ==
    /\ Disturbance /\ \E k \in FaultSteps : At(k)
    /\ \E written \in BOOLEAN : Fails(written)
    /\ UNCHANGED objs

\* The hash of the Secrets cannot be computed: the pass goes on without.
HashFails == Disturbance /\ reconcileStatefulSet({})

\* The operator is gone; when it is back every instance is listed.
OperatorRestarts ==
    /\ Disturbance /\ \E k \in FaultSteps : At(k)
    /\ pass' = Idle /\ queue' = TRUE /\ cached' = TRUE
    /\ UNCHANGED <<spec, status, ext, objs, deployment>>

CacheSyncs ==
    /\ ~cached /\ cached' = TRUE
    /\ UNCHANGED <<spec, status, ext, objs, deployment, pass, queue, disturbed>>

\* Between its first step and its end a pass does not look at the stored
\* instance: where in the pass the user edits it makes no difference.
UserEdits ==
    /\ Disturbance /\ pass.step \in {0, 1}
    /\ \E s \in Family \ {spec} : validate(s) /\ spec' = s /\ pass' = Overtaken(s)
    /\ queue' = TRUE
    /\ UNCHANGED <<status, ext, objs, deployment, cached>>

\* Likewise, an object of the user matters when a step reads it.
Read(ks) == pass.step = 0 \/ \E k \in ks : At(k)

Changed(field, value, wakes) ==
    /\ ext[field] # value
    /\ ext' = [ext EXCEPT ![field] = value]
    /\ queue' = (queue \/ wakes)
    /\ UNCHANGED <<spec, status, objs, deployment, pass, cached>>

SecretChanges ==
    /\ Disturbance /\ Read({"lookup", "StatefulSet"})
    /\ \E s \in Family : s.token = "theirs"
    /\ \E v \in Theirs \cup {0} : Changed("secret", v, findInstancesForSecret("secret"))

CredentialChanges ==
    /\ Disturbance /\ Read({"StatefulSet"})
    /\ \E s \in Family : s.mesh
    /\ \E v \in 0 .. 1 : Changed("credential", v, findInstancesForSecret("credential"))

ConfigChanges ==
    /\ Disturbance /\ Read({"ConfigMap"})
    /\ \E s \in Family : s.config = "ref"
    /\ \E v \in 0 .. 2 : Changed("config", v, findInstancesForConfigMap)

ClaimChanges ==
    /\ Disturbance /\ Read({"PVC"})
    /\ \E s \in Family : s.data = "claim"
    /\ Changed("claim", ~ext.claim, FALSE)

S3CredentialsChange ==
    /\ Disturbance /\ Read({"S3Mirror"})
    /\ \E s \in Family : s.schedule
    /\ \E v \in {"missing", "static", "env"} : Changed("s3", v, FALSE)

\* Somebody deletes an owned object by hand.
Drift ==
    /\ Disturbance
    /\ \E k \in DriftKinds :
         /\ objs[k] # {} /\ Read({k})
         /\ objs' = [objs EXCEPT ![k] = {}]
         /\ queue' = (queue \/ k \in Watched)
    /\ UNCHANGED <<spec, status, ext, deployment, pass, cached>>

\* The autoscaler is inactive while the workload is scaled to zero.
HPAScales ==
    /\ Disturbance /\ objs["HPA"] # {} /\ Read({"StatefulSet"})
    /\ \E o \in objs["StatefulSet"], n \in 1 .. 2 :
         /\ o.replicas > 0 /\ n # o.replicas
         /\ objs' = [objs EXCEPT !["StatefulSet"] = {[o EXCEPT !.replicas = n]}]
    /\ queue' = TRUE
    /\ UNCHANGED <<spec, status, ext, deployment, pass, cached>>

-----------------------------------------------------------------------------
Init ==
    /\ spec \in UNION Families /\ validate(spec)
    /\ status = [managed |-> {}, observed |-> {}, failed |-> FALSE]
    /\ ext \in [secret : {0} \cup Theirs, credential : {1}, config : {1}, claim : {TRUE},
                s3 : {"static"}, crds : {{}, {"gateway", "prometheus", "traefik"}}]
    /\ ext.secret = IF \E s \in Family : s.token = "theirs" THEN CHOOSE t \in Theirs : TRUE ELSE 0
    /\ ext.crds = {} => \E s \in Family : s.monitor
    /\ objs = [k \in Kinds |-> {}]
    /\ deployment \in {"none", "owned", "foreign"}
    /\ deployment # "none" => spec.data = "own" /\ ~spec.hpa /\ \E s \in Family : s.hpa
    /\ pass = Idle
    /\ queue = TRUE /\ cached = TRUE
    /\ disturbed = 0

Next ==
    \/ BeginPass \/ Handler
    \/ CallFails \/ HashFails \/ OperatorRestarts \/ CacheSyncs
    \/ UserEdits \/ SecretChanges \/ CredentialChanges \/ ConfigChanges
    \/ ClaimChanges \/ S3CredentialsChange \/ Drift \/ HPAScales

Spec == Init /\ [][Next]_vars

\* Every way out of Reconcile asks for another pass, after an error or after
\* the periodic interval, and a pass that has begun goes on; caches catch up.
FairSpec == Spec /\ WF_vars(BeginPass \/ Handler) /\ WF_vars(CacheSyncs)

-----------------------------------------------------------------------------
(* Properties                                                              *)

\* Type invariant.  Every spec, also the copy of a pass, is one that the
\* webhook admits; the status names kinds that it has a field for.
TypeOK ==
    /\ validate(spec) /\ validate(pass.spec)
    /\ status \in [managed : SUBSET (Kinds \ Unnamed), observed : SUBSET SpecSet, failed : BOOLEAN]
    /\ ext \in [secret : {0} \cup Theirs, credential : 0 .. 1, config : 0 .. 2, claim : BOOLEAN,
                s3 : {"missing", "static", "env"}, crds : SUBSET {"gateway", "prometheus", "traefik"}]
    /\ objs = [k \in Kinds |-> objs[k]]
    /\ deployment \in {"none", "owned", "foreign"}
    /\ pass = [step |-> pass.step, spec |-> pass.spec, managed |-> pass.managed, token |-> pass.token,
               creds |-> pass.creds, stale |-> pass.stale]
    /\ pass.step \in 0 .. Len(Steps) /\ pass.managed \subseteq Kinds \ Unnamed
    /\ pass.creds \in {"missing", "static", "env"} /\ pass.stale \in BOOLEAN
    /\ queue \in BOOLEAN /\ cached \in BOOLEAN
    /\ disturbed \in 0 .. MaxDisturbances

\* Kinds that are there exactly while the spec asks for them.
Toggled ==
    [NetworkPolicy |-> spec.policy, PDB |-> spec.pdb, HPA |-> spec.hpa,
     WorkspaceConfigMap |-> TRUE, Service |-> TRUE, CDPService |-> spec.browser # "off",
     Ingress |-> spec.ingress # "off",
     HTTPRoute |-> spec.route /\ "gateway" \in ext.crds,
     ServiceMonitor |-> spec.monitor /\ spec.metrics /\ "prometheus" \in ext.crds,
     PrometheusRule |-> spec.rule /\ "prometheus" \in ext.crds,
     DashboardOperator |-> spec.dashboards, DashboardInstance |-> spec.dashboards]

\* Kinds that stay when the spec stops asking for them.
Required ==
    [ServiceAccount |-> spec.account, Role |-> spec.account, RoleBinding |-> spec.account,
     MeshState |-> spec.mesh]

\* The kind agrees with the spec.
Agrees(k) ==
    CASE k \in DOMAIN Toggled -> objs[k] = IF Toggled[k] THEN {spec} ELSE {}
      [] k \in DOMAIN Required -> Required[k] => objs[k] = {spec}
      [] k = "GatewayToken" -> spec.token = "generated" => objs[k] # {}
      [] k = "ConfigMap" ->
           objs[k] = {[from |-> spec, token |-> computeSecretHash(spec).gateway,
                       config |-> IF spec.config = "ref" THEN ext.config ELSE 0]}
      [] k = "PVC" -> spec.data = "own" /\ ~spec.hpa => objs[k] # {}
      [] k = "ChromiumPVC" -> spec.browser = "own" => objs[k] # {}
      [] k = "StatefulSet" ->
           \E c \in objs[k] : /\ c.from = spec /\ c.hash \subseteq {computeSecretHash(spec)}
                              /\ c.templates = VolumeClaimTemplates(spec)
      [] k = "BasicAuth" -> spec.ingress \in {"auth", "traefik"} => objs[k] # {}
      [] k = "S3Mirror" -> BackedUp(spec) /\ ext.s3 = "static" => objs[k] = {spec}
      [] k = "CronJob" ->
           IF ~BackedUp(spec) THEN objs[k] = {}
           ELSE ext.s3 # "missing" => objs[k] = {[from |-> spec, creds |-> ext.s3]}
      [] k = "Middleware" -> spec.ingress = "traefik" /\ "traefik" \in ext.crds => objs[k] = {spec}

\* The status names the toggled objects that exist, and no other.
StatusAgrees ==
    /\ status.observed = {spec} /\ ~status.failed
    /\ \A k \in DOMAIN Toggled \ Unnamed : k \in status.managed <=> Toggled[k]

\* Neither a queued request nor a pass: only a timer will wake the operator.
Asleep == pass.step = 0 /\ ~queue

\* Nothing that the operator watches is out of date: what it owns, the specs
\* and the Secrets and ConfigMaps that instances name.  It does not watch
\* HTTPRoutes, PrometheusRules, Middlewares, claims and S3 credentials.
Settled ==
    /\ StatusAgrees /\ deployment # "owned"
    /\ \A k \in Watched \ {"S3Mirror", "CronJob"} : Agrees(k)

Level == INSTANCE LevelTriggered WITH debt <- ~Settled, asleep <- Asleep

\* Refinement: the reconciler is level-triggered.  Whatever an edit, a
\* rotated Secret, a deleted object, a failed handler or a token that lost a
\* race leaves undone, the operator does not go to sleep before it is done
\* (SetupWithManager, the mapping functions, every return of Reconcile).
LevelTriggeredSpec == Level!Spec

\* What an object relies on from the moment it is written.
Needs(k) ==
    CASE k = "StatefulSet" ->
           {"ConfigMap", "WorkspaceConfigMap"}
             \cup (IF pass.spec.account THEN {"ServiceAccount", "Role", "RoleBinding"} ELSE {})
             \cup (IF pass.spec.policy THEN {"NetworkPolicy"} ELSE {})
             \cup (IF pass.spec.token = "generated" THEN {"GatewayToken"} ELSE {})
             \cup (IF pass.spec.mesh THEN {"MeshState"} ELSE {})
             \cup (IF pass.spec.data = "own" /\ ~pass.spec.hpa THEN {"PVC"} ELSE {})
             \cup (IF pass.spec.browser = "own" THEN {"ChromiumPVC"} ELSE {})
      [] k = "CronJob" -> IF pass.creds = "static" THEN {"S3Mirror"} ELSE {}
      [] k = "Ingress" -> {"Service"} \cup IF pass.spec.ingress = "open" THEN {} ELSE {"BasicAuth"}
      [] k = "ServiceMonitor" -> {"Service"}

\* Action property: the operator writes a workload, a backup schedule, a
\* public route or a scrape target only when everything it mounts, runs as,
\* is guarded by or points at is there, and no StatefulSet beside the
\* Deployment of an older release, whatever the user toggles meanwhile and
\* wherever earlier passes were cut short (the order of reconcileResources:
\* "must precede ConfigMap + StatefulSet", "before Ingress so the annotation
\* reference is valid", migrateDeploymentToStatefulSet).
NeedsComeFirst ==
    [][\A k \in {"StatefulSet", "CronJob", "Ingress", "ServiceMonitor"} \ DriftKinds :
          At(k) /\ objs'[k] \notin {objs[k], {}} =>
              /\ \A n \in Needs(k) \ DriftKinds : objs[n] # {}
              /\ k = "StatefulSet" => deployment # "owned"]_vars

\* Action property: a generated token is never replaced while its Secret
\* exists, also when a pass that does not see it yet generates another one.
TokenIsStable ==
    [][objs["GatewayToken"] # {} /\ objs'["GatewayToken"] # {} =>
          objs'["GatewayToken"] = objs["GatewayToken"]]_vars

\* An object that the spec refers to is missing.
Blocked ==
    \/ spec.token = "theirs" /\ ext.secret = 0
    \/ spec.config = "ref" /\ ext.config = 0
    \/ spec.data = "claim" /\ ~spec.hpa /\ ~ext.claim

\* Liveness: once the edits and the faults are over, everything comes to
\* agree with the spec for good, also what is not watched, unless the spec
\* refers to something that does not exist (the periodic requeue).
Converges == <>[](Blocked \/ (StatusAgrees /\ deployment # "owned" /\ \A k \in Kinds : Agrees(k)))
=============================================================================
