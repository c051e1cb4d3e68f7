-------------------------- MODULE Resources_proofs --------------------------
(***************************************************************************)
(* Proofs about Resources, for every set of specs, every kind that may be  *)
(* deleted by hand and every step at which a pass may be cut short.        *)
(*                                                                         *)
(* That an object is written only after what it needs (NeedsComeFirst) is  *)
(* a property of the order of the handlers, but of more than that order:   *)
(* what an earlier handler of the pass wrote must still be there, from the *)
(* copy of the spec that the pass holds.  Done says so of every step that  *)
(* is behind the pass.                                                     *)
(***************************************************************************)
EXTENDS Resources, TLAPS

\* The kinds that a handler leaves in place once it is through with the spec
\* of the pass, and that other objects may rely on.
Wanted(k) ==
    \/ k \in {"ConfigMap", "WorkspaceConfigMap", "Service"}
    \/ k \in {"ServiceAccount", "Role", "RoleBinding"} /\ pass.spec.account
    \/ k = "NetworkPolicy" /\ pass.spec.policy
    \/ k = "GatewayToken" /\ pass.spec.token = "generated"
    \/ k = "MeshState" /\ pass.spec.mesh
    \/ k = "PVC" /\ pass.spec.data = "own" /\ ~pass.spec.hpa
    \/ k = "ChromiumPVC" /\ pass.spec.browser = "own"
    \/ k = "S3Mirror" /\ pass.creds = "static" /\ BackedUp(pass.spec)
    \/ k = "BasicAuth" /\ pass.spec.ingress \in {"auth", "traefik"}

Done ==
    \A i \in 1 .. pass.step - 1 :
        /\ Steps[i] \notin DriftKinds /\ Wanted(Steps[i]) => objs[Steps[i]] # {}
        /\ Steps[i] = "migrate" => deployment # "owned"

IInv == TypeOK /\ Done

-----------------------------------------------------------------------------
(* The steps *)

LEMMA StepsAre ==
    /\ Len(Steps) = 28 /\ DOMAIN Steps = 1 .. 28
    /\ Steps[1] = "ServiceAccount" /\ Steps[2] = "Role" /\ Steps[3] = "RoleBinding"
    /\ Steps[4] = "NetworkPolicy" /\ Steps[5] = "lookup" /\ Steps[6] = "GatewayToken"
    /\ Steps[7] = "MeshState" /\ Steps[8] = "ConfigMap" /\ Steps[9] = "WorkspaceConfigMap"
    /\ Steps[10] = "PVC" /\ Steps[11] = "ChromiumPVC" /\ Steps[12] = "PDB" /\ Steps[13] = "HPA"
    /\ Steps[14] = "migrate" /\ Steps[15] = "StatefulSet" /\ Steps[16] = "S3Mirror"
    /\ Steps[17] = "CronJob" /\ Steps[18] = "Service" /\ Steps[19] = "CDPService"
    /\ Steps[20] = "BasicAuth" /\ Steps[21] = "Middleware" /\ Steps[22] = "Ingress"
    /\ Steps[23] = "HTTPRoute" /\ Steps[24] = "ServiceMonitor" /\ Steps[25] = "PrometheusRule"
    /\ Steps[26] = "DashboardOperator" /\ Steps[27] = "DashboardInstance" /\ Steps[28] = "status"
BY DEF Steps

\* Where a step is that is asked for by name.
LEMMA Positions ==
    ASSUME NEW i \in 1 .. 28
    PROVE  /\ Steps[i] = "status" => i = 28
           /\ Steps[i] = "lookup" => i = 5
           /\ Steps[i] = "StatefulSet" => i = 15
           /\ Steps[i] = "CronJob" => i = 17
           /\ Steps[i] = "Ingress" => i = 22
           /\ Steps[i] = "ServiceMonitor" => i = 24
           /\ Steps[i] \notin {"lookup", "migrate", "status"} => Steps[i] \in Kinds
<1>1. \/ i = 1 \/ i = 2 \/ i = 3 \/ i = 4 \/ i = 5 \/ i = 6 \/ i = 7 \/ i = 8 \/ i = 9 \/ i = 10
      \/ i = 11 \/ i = 12 \/ i = 13 \/ i = 14 \/ i = 15 \/ i = 16 \/ i = 17 \/ i = 18 \/ i = 19
      \/ i = 20 \/ i = 21 \/ i = 22 \/ i = 23 \/ i = 24 \/ i = 25 \/ i = 26 \/ i = 27 \/ i = 28
  OBVIOUS
<1>2. Steps[i] \notin {"lookup", "migrate", "status"} => Steps[i] \in Kinds
  BY StepsAre DEF Kinds
<1> QED
  BY <1>1, <1>2, StepsAre

\* A pass at step k is at one of the steps, and not at the end unless k is
\* the last one.
LEMMA AtStep ==
    ASSUME TypeOK, NEW k, At(k)
    PROVE  /\ pass.step \in 1 .. 28 /\ Steps[pass.step] = k
           /\ k # "status" => pass.step + 1 \in 1 .. 28
           /\ k = "lookup" => pass.step + 2 \in 1 .. 28 /\ pass.step = 5
           /\ k \notin {"lookup", "migrate", "status"} => k \in Kinds
<1>1. pass.step \in 1 .. 28 /\ Steps[pass.step] = k
  BY StepsAre DEF TypeOK, At
<1>2. (pass.step = 28 => k = "status") /\ (k = "lookup" => pass.step = 5)
      /\ (k \notin {"lookup", "migrate", "status"} => k \in Kinds)
  BY <1>1, StepsAre, Positions
<1> QED
  BY <1>1, <1>2

-----------------------------------------------------------------------------
(* What a handler does *)

\* A pass that ends leaves nothing behind that Done speaks of.
LEMMA EndsIInv ==
    ASSUME TypeOK, pass' = Idle, UNCHANGED spec,
           status' \in [managed : SUBSET (Kinds \ Unnamed), observed : SUBSET SpecSet, failed : BOOLEAN],
           UNCHANGED ext, objs' = [k \in Kinds |-> objs'[k]], UNCHANGED deployment,
           queue' \in BOOLEAN, cached' \in BOOLEAN, disturbed' \in 0 .. MaxDisturbances
    PROVE  IInv'
<1>1. /\ pass' = [step |-> pass'.step, spec |-> pass'.spec, managed |-> pass'.managed,
                  token |-> pass'.token, creds |-> pass'.creds, stale |-> pass'.stale]
      /\ pass'.step = 0 /\ pass'.spec = spec' /\ pass'.managed = {} /\ pass'.creds = "missing"
      /\ pass'.stale = FALSE
  BY DEF Idle
<1>2. TypeOK'
  <2>1. validate(spec') /\ validate(pass'.spec)
    BY <1>1 DEF TypeOK
  <2>2. pass'.step \in 0 .. Len(Steps) /\ pass'.managed \subseteq Kinds \ Unnamed
    BY <1>1, StepsAre
  <2> QED BY <1>1, <2>1, <2>2 DEF TypeOK
<1>3. Done'
  BY <1>1 DEF Done
<1> QED BY <1>2, <1>3 DEF IInv

LEMMA FailsIInv ==
    ASSUME TypeOK, NEW written \in BOOLEAN, Fails(written),
           objs' = [k \in Kinds |-> objs'[k]], disturbed' \in 0 .. MaxDisturbances
    PROVE  IInv'
<1>1. /\ pass' = Idle /\ UNCHANGED <<spec, ext, deployment>> /\ queue' = TRUE /\ cached' = cached
      /\ status' \in {status, [status EXCEPT !.managed = pass.managed, !.failed = TRUE]}
  BY DEF Fails
<1>2. status' \in [managed : SUBSET (Kinds \ Unnamed), observed : SUBSET SpecSet, failed : BOOLEAN]
  BY <1>1 DEF TypeOK
<1>3. cached' \in BOOLEAN
  BY <1>1 DEF TypeOK
<1> QED BY <1>1, <1>2, <1>3, EndsIInv

LEMMA RefusedIInv == ASSUME TypeOK, Refused PROVE IInv'
<1>1. Fails(TRUE) /\ objs' = objs /\ disturbed' = disturbed
  BY DEF Refused
<1>2. objs' = [k \in Kinds |-> objs'[k]] /\ disturbed' \in 0 .. MaxDisturbances
  BY <1>1 DEF TypeOK
<1> QED BY <1>1, <1>2, FailsIInv

\* A pass goes on from step k: what it leaves of the objects, of its memory and
\* of the Deployment suffices, if the step has done its part of Done.
LEMMA AdvanceIInv ==
    ASSUME IInv, NEW k, At(k), k # "status",
           UNCHANGED <<spec, status, ext>>, disturbed' \in 0 .. MaxDisturbances,
           objs' = [h \in Kinds |-> objs'[h]],
           \A h \in Kinds : h # k /\ objs[h] # {} => objs'[h] # {},
           deployment' \in {"none", "owned", "foreign"},
           deployment # "owned" \/ k = "migrate" => deployment' # "owned",
           k \in Kinds \ DriftKinds /\ Wanted(k)' => objs'[k] # {},
           pass' = [step |-> pass.step + 1, spec |-> pass.spec, managed |-> pass'.managed,
                    token |-> pass'.token, creds |-> pass'.creds, stale |-> pass.stale],
           pass'.managed \subseteq Kinds \ Unnamed,
           k = "S3Mirror" \/ pass'.creds = pass.creds,
           pass'.creds \in {"missing", "static", "env"},
           queue' \in BOOLEAN, cached' \in BOOLEAN
    PROVE  IInv'
<1> USE DEF IInv
<1>1. /\ pass.step \in 1 .. 28 /\ Steps[pass.step] = k /\ pass.step + 1 \in 1 .. 28
      /\ (k \notin {"lookup", "migrate", "status"} => k \in Kinds)
  BY AtStep
<1>2. /\ pass'.step = pass.step + 1 /\ pass'.spec = pass.spec /\ pass'.stale = pass.stale
      /\ pass' = [step |-> pass'.step, spec |-> pass'.spec, managed |-> pass'.managed,
                  token |-> pass'.token, creds |-> pass'.creds, stale |-> pass'.stale]
  OBVIOUS
<1>3. TypeOK'
  BY <1>1, <1>2, StepsAre DEF TypeOK, validate
<1>4. Done'
  <2> SUFFICES ASSUME NEW i \in 1 .. pass.step
               PROVE  /\ Steps[i] \notin DriftKinds /\ Wanted(Steps[i])' => objs'[Steps[i]] # {}
                      /\ Steps[i] = "migrate" => deployment' # "owned"
    BY <1>1, <1>2 DEF Done
  <2>1. CASE Steps[i] = k
    <3>1. Wanted(k)' => k \in Kinds
      BY <1>1 DEF Wanted
    <3>2. Wanted(Steps[i])' = Wanted(k)'
      BY <2>1 DEF Wanted
    <3> QED BY <2>1, <3>1, <3>2
  <2>2. CASE Steps[i] # k
    <3>1. i \in 1 .. pass.step - 1
      BY <1>1, <2>2
    <3>2. Wanted(Steps[i])' => Wanted(Steps[i]) /\ Steps[i] \in Kinds
      <4>1. i \in 1 .. 28
        BY <1>1, <3>1
      <4>2. Wanted(Steps[i])' => Steps[i] \in Kinds
        BY <4>1, Positions DEF Wanted
      <4>3. Wanted(Steps[i])' => Wanted(Steps[i])
        BY <1>2, <2>2 DEF Wanted
      <4> QED BY <4>2, <4>3
    <3> QED BY <2>2, <3>1, <3>2 DEF Done
  <2> QED BY <2>1, <2>2
<1> QED BY <1>3, <1>4

\* The common frame of most handlers.
LEMMA ReconciledIInv ==
    ASSUME IInv, NEW k, NEW content, NEW named, At(k), k \in Kinds \ {"S3Mirror"},
           Reconciled(k, content, named),
           Wanted(k) => content # {}
    PROVE  IInv'
<1>1. TypeOK
  BY DEF IInv
<1>2. k \notin {"lookup", "migrate", "status"}
  BY DEF Kinds
<1>3. /\ objs' = [objs EXCEPT ![k] = content]
      /\ queue' = (queue \/ (k \in Watched /\ content # objs[k]))
      /\ pass' = [pass EXCEPT !.step = @ + 1,
                              !.managed = IF named /\ k \notin Unnamed THEN @ \cup {k} ELSE @ \ {k}]
      /\ UNCHANGED <<spec, status, ext, deployment, cached, disturbed>>
  BY DEF Reconciled
<1>4. /\ objs' = [h \in Kinds |-> objs'[h]] /\ objs'[k] = content
      /\ \A h \in Kinds : h # k => objs'[h] = objs[h]
  BY <1>1, <1>3 DEF TypeOK
<1>5. /\ pass' = [step |-> pass.step + 1, spec |-> pass.spec, managed |-> pass'.managed,
                  token |-> pass'.token, creds |-> pass'.creds, stale |-> pass.stale]
      /\ pass'.creds = pass.creds /\ pass'.spec = pass.spec
      /\ pass'.managed \subseteq Kinds \ Unnamed
  BY <1>1, <1>3 DEF TypeOK
<1>6. Wanted(k)' = Wanted(k)
  BY <1>5 DEF Wanted
<1>7. queue' \in BOOLEAN
  BY <1>1, <1>3 DEF TypeOK
<1>8. cached' \in BOOLEAN /\ disturbed' \in 0 .. MaxDisturbances
      /\ deployment' \in {"none", "owned", "foreign"} /\ pass'.creds \in {"missing", "static", "env"}
      /\ deployment' = deployment /\ UNCHANGED <<spec, status, ext>>
  BY <1>1, <1>3, <1>5 DEF TypeOK
<1> QED
  BY <1>2, <1>4, <1>5, <1>6, <1>7, <1>8, AdvanceIInv

-----------------------------------------------------------------------------
(* The handlers that only write their kind *)

LEMMA CreateIInv ==
    ASSUME IInv, NEW k \in Kinds \ {"S3Mirror"}, NEW enabled, Wanted(k) => enabled,
           \/ createOrDelete(k, enabled)
           \/ createOrKeep(k, enabled)
           \/ createOnce(k, enabled)
    PROVE  IInv'
<1>1. PICK content, named : At(k) /\ Reconciled(k, content, named) /\ (enabled => content # {})
  BY DEF createOrDelete, createOrKeep, createOnce
<1> QED BY <1>1, ReconciledIInv

LEMMA SkipIInv ==
    ASSUME IInv, NEW k \in Kinds \ {"S3Mirror"}, ~Wanted(k), NEW crd, NEW enabled,
           createOrSkip(k, crd, enabled)
    PROVE  IInv'
<1>1. PICK content, named : At(k) /\ Reconciled(k, content, named)
  BY DEF createOrDelete, createOrSkip
<1> QED BY <1>1, ReconciledIInv

Plain ==
    \/ reconcileRBAC \/ reconcileNetworkPolicy \/ reconcileMeshStateSecret
    \/ reconcileWorkspaceConfigMap \/ reconcilePDB \/ reconcileHPA
    \/ reconcileService \/ reconcileChromiumCDPService
    \/ reconcileBasicAuthSecret \/ reconcileIngress \/ reconcileGrafanaDashboards

LEMMA LiteralKinds ==
    {"ServiceAccount", "Role", "RoleBinding", "NetworkPolicy", "GatewayToken", "MeshState", "ConfigMap",
     "WorkspaceConfigMap", "PVC", "ChromiumPVC", "PDB", "HPA", "StatefulSet", "S3Mirror", "CronJob",
     "Service", "CDPService", "BasicAuth", "Middleware", "Ingress", "HTTPRoute", "ServiceMonitor",
     "PrometheusRule", "DashboardOperator", "DashboardInstance"} \subseteq Kinds
BY StepsAre DEF Kinds

LEMMA PlainIInv == ASSUME IInv, Plain PROVE IInv'
<1>1. ASSUME NEW k \in {"ServiceAccount", "Role", "RoleBinding"}, createOrKeep(k, pass.spec.account)
      PROVE  IInv'
  <2>1. k \in Kinds \ {"S3Mirror"} /\ (Wanted(k) => pass.spec.account)
    BY LiteralKinds DEF Wanted
  <2> QED BY <1>1, <2>1, CreateIInv
<1>2. ASSUME reconcileNetworkPolicy PROVE IInv'
  <2>1. Wanted("NetworkPolicy") => pass.spec.policy
    BY DEF Wanted
  <2> QED BY <1>2, <2>1, LiteralKinds, CreateIInv DEF reconcileNetworkPolicy
<1>3. ASSUME reconcileMeshStateSecret PROVE IInv'
  <2>1. Wanted("MeshState") => pass.spec.mesh
    BY DEF Wanted
  <2> QED BY <1>3, <2>1, LiteralKinds, CreateIInv DEF reconcileMeshStateSecret
<1>4. ASSUME reconcileWorkspaceConfigMap PROVE IInv'
  BY <1>4, LiteralKinds, CreateIInv DEF reconcileWorkspaceConfigMap
<1>5. ASSUME reconcilePDB PROVE IInv'
  <2>1. ~Wanted("PDB")
    BY DEF Wanted
  <2> QED BY <1>5, <2>1, LiteralKinds, CreateIInv DEF reconcilePDB
<1>6. ASSUME reconcileHPA PROVE IInv'
  <2>1. ~Wanted("HPA")
    BY DEF Wanted
  <2> QED BY <1>6, <2>1, LiteralKinds, CreateIInv DEF reconcileHPA
<1>7. ASSUME reconcileService PROVE IInv'
  BY <1>7, LiteralKinds, CreateIInv DEF reconcileService
<1>8. ASSUME reconcileChromiumCDPService PROVE IInv'
  <2>1. ~Wanted("CDPService")
    BY DEF Wanted
  <2> QED BY <1>8, <2>1, LiteralKinds, CreateIInv DEF reconcileChromiumCDPService
<1>9. ASSUME reconcileBasicAuthSecret PROVE IInv'
  <2>1. Wanted("BasicAuth") => pass.spec.ingress \in {"auth", "traefik"}
    BY DEF Wanted
  <2> QED BY <1>9, <2>1, LiteralKinds, CreateIInv DEF reconcileBasicAuthSecret
<1>10. ASSUME reconcileIngress PROVE IInv'
  <2>1. ~Wanted("Ingress")
    BY DEF Wanted
  <2> QED BY <1>10, <2>1, LiteralKinds, CreateIInv DEF reconcileIngress
<1>11. ASSUME NEW k \in {"DashboardOperator", "DashboardInstance"}, createOrDelete(k, pass.spec.dashboards)
       PROVE  IInv'
  <2>1. k \in Kinds \ {"S3Mirror"} /\ ~Wanted(k)
    BY LiteralKinds DEF Wanted
  <2> QED BY <1>11, <2>1, CreateIInv
<1> QED
  BY <1>1, <1>2, <1>3, <1>4, <1>5, <1>6, <1>7, <1>8, <1>9, <1>10, <1>11
     DEF Plain, reconcileRBAC, reconcileGrafanaDashboards

\* Kinds that need a CustomResourceDefinition; nothing relies on them.
LEMMA OptionalIInv ==
    ASSUME IInv, \/ reconcileHTTPRoute \/ reconcileServiceMonitor \/ reconcilePrometheusRule
                 \/ reconcileTraefikBasicAuthMiddleware
    PROVE  IInv'
<1>1. /\ ~Wanted("HTTPRoute") /\ ~Wanted("ServiceMonitor") /\ ~Wanted("PrometheusRule")
      /\ ~Wanted("Middleware")
  BY DEF Wanted
<1>2. ASSUME reconcileHTTPRoute PROVE IInv'
  BY <1>1, <1>2, LiteralKinds, SkipIInv DEF reconcileHTTPRoute
<1>3. ASSUME reconcileServiceMonitor PROVE IInv'
  BY <1>1, <1>3, LiteralKinds, SkipIInv DEF reconcileServiceMonitor
<1>4. ASSUME reconcilePrometheusRule PROVE IInv'
  BY <1>1, <1>4, LiteralKinds, SkipIInv DEF reconcilePrometheusRule
<1>5. ASSUME reconcileTraefikBasicAuthMiddleware PROVE IInv'
  <2>1. PICK content, named : At("Middleware") /\ Reconciled("Middleware", content, named)
    BY <1>5 DEF reconcileTraefikBasicAuthMiddleware, createOrKeep
  <2> QED BY <1>1, <2>1, LiteralKinds, ReconciledIInv
<1> QED BY <1>2, <1>3, <1>4, <1>5

\* The ConfigMap, the claims and the CronJob.
LEMMA ConfigMapIInv == ASSUME IInv, reconcileConfigMap PROVE IInv'
<1>1. TypeOK
  BY DEF IInv
<1>2. \/ Refused
      \/ \E content : At("ConfigMap") /\ Reconciled("ConfigMap", content, TRUE) /\ content # {}
  BY DEF reconcileConfigMap
<1> QED BY <1>1, <1>2, LiteralKinds, RefusedIInv, ReconciledIInv

LEMMA PVCIInv == ASSUME IInv, reconcilePVC PROVE IInv'
<1>1. TypeOK
  BY DEF IInv
<1>2. \/ Refused
      \/ \E content, named : /\ At("PVC") /\ Reconciled("PVC", content, named)
                             /\ Wanted("PVC") => content # {}
  BY DEF reconcilePVC, Wanted
<1> QED BY <1>1, <1>2, LiteralKinds, RefusedIInv, ReconciledIInv

LEMMA ChromiumPVCIInv == ASSUME IInv, reconcileChromiumPVC PROVE IInv'
<1>1. \E content, named : /\ At("ChromiumPVC") /\ Reconciled("ChromiumPVC", content, named)
                          /\ Wanted("ChromiumPVC") => content # {}
  BY DEF reconcileChromiumPVC, Wanted
<1> QED BY <1>1, LiteralKinds, ReconciledIInv

LEMMA CronJobIInv == ASSUME IInv, reconcileBackupCronJob PROVE IInv'
<1>1. \E content, named : At("CronJob") /\ Reconciled("CronJob", content, named)
  BY DEF reconcileBackupCronJob
<1>2. ~Wanted("CronJob")
  BY DEF Wanted
<1> QED BY <1>1, <1>2, LiteralKinds, ReconciledIInv

-----------------------------------------------------------------------------
(* The other handlers *)

\* A step forward that leaves objects and Deployment alone.
LEMMA LookupIInv == ASSUME IInv, lookupGatewayToken PROVE IInv'
<1> DEFINE found == IF pass.spec.token = "theirs" THEN {ext.secret} \ {0}
                    ELSE IF cached THEN objs["GatewayToken"] ELSE {}
<1>1. TypeOK /\ Done
  BY DEF IInv
<1>2. At("lookup")
  BY DEF lookupGatewayToken
<1>3. CASE Refused
  BY <1>1, <1>3, RefusedIInv
<1>4. CASE pass' = [pass EXCEPT !.step = @ + 1]
           /\ UNCHANGED <<spec, status, ext, objs, deployment, queue, cached, disturbed>>
  <2>1. /\ pass' = [step |-> pass.step + 1, spec |-> pass.spec, managed |-> pass'.managed,
                    token |-> pass'.token, creds |-> pass'.creds, stale |-> pass.stale]
        /\ pass'.creds = pass.creds /\ pass'.managed = pass.managed
    BY <1>1, <1>4 DEF TypeOK
  <2>2. "lookup" \notin Kinds
    BY DEF Kinds
  <2> QED BY <1>1, <1>2, <1>4, <2>1, <2>2, AdvanceIInv DEF TypeOK
<1>5. CASE /\ found # {}
           /\ pass' = [pass EXCEPT !.step = @ + 2, !.token = CHOOSE t \in found : TRUE,
                                   !.managed = @ \cup {"GatewayToken"}]
           /\ UNCHANGED <<spec, status, ext, objs, deployment, queue, cached, disturbed>>
  <2>1. pass.step = 5
    BY <1>1, <1>2, AtStep
  <2>2. /\ pass'.step = 7 /\ pass'.spec = pass.spec /\ pass'.creds = pass.creds
        /\ pass'.stale = pass.stale /\ pass'.managed = pass.managed \cup {"GatewayToken"}
        /\ pass' = [step |-> pass'.step, spec |-> pass'.spec, managed |-> pass'.managed,
                    token |-> pass'.token, creds |-> pass'.creds, stale |-> pass'.stale]
    <3>1. PICK t : pass' = [pass EXCEPT !.step = @ + 2, !.token = t, !.managed = @ \cup {"GatewayToken"}]
      BY <1>5
    <3>2. pass = [step |-> pass.step, spec |-> pass.spec, managed |-> pass.managed, token |-> pass.token,
                  creds |-> pass.creds, stale |-> pass.stale]
      BY <1>1 DEF TypeOK
    <3> HIDE DEF found
    <3>3. pass' = [step |-> pass.step + 2, spec |-> pass.spec,
                   managed |-> pass.managed \cup {"GatewayToken"}, token |-> t,
                   creds |-> pass.creds, stale |-> pass.stale]
      BY <3>1, <3>2
    <3> QED BY <2>1, <3>3
  <2>3. "GatewayToken" \in Kinds \ Unnamed
    BY LiteralKinds DEF Unnamed
  <2>4. TypeOK'
    <3>1. validate(spec') /\ validate(pass'.spec) /\ pass'.step \in 0 .. Len(Steps)
          /\ pass'.managed \subseteq Kinds \ Unnamed
      BY <1>1, <1>5, <2>2, <2>3, StepsAre DEF TypeOK
    <3> HIDE DEF found
    <3> QED BY <1>1, <1>5, <2>2, <3>1 DEF TypeOK
  <2>5. Done'
    <3> SUFFICES ASSUME NEW i \in 1 .. 6
                 PROVE  /\ Steps[i] \notin DriftKinds /\ Wanted(Steps[i])' => objs'[Steps[i]] # {}
                        /\ Steps[i] = "migrate" => deployment' # "owned"
      BY <2>2 DEF Done
    <3>1. CASE i = 5
      BY <3>1, StepsAre DEF Wanted
    <3>2. CASE i = 6
      <4>1. pass.spec.token = "generated" => objs["GatewayToken"] # {}
        BY <1>5
      <4> QED BY <1>5, <2>2, <3>2, <4>1, StepsAre DEF Wanted
    <3>3. CASE i \in 1 .. 4
      <4>1. Wanted(Steps[i])' => Wanted(Steps[i])
        BY <2>2 DEF Wanted
      <4> QED BY <1>1, <1>5, <2>1, <3>3, <4>1 DEF Done
    <3> QED BY <3>1, <3>2, <3>3
  <2> QED BY <2>4, <2>5 DEF IInv
<1> QED
  BY <1>3, <1>4, <1>5 DEF lookupGatewayToken

LEMMA GatewayTokenIInv == ASSUME IInv, reconcileGatewayTokenSecret PROVE IInv'
<1>1. TypeOK
  BY DEF IInv
<1>2. CASE Refused
  BY <1>1, <1>2, RefusedIInv
<1>3. CASE ~Refused
  <2>1. /\ At("GatewayToken")
        /\ objs' = [objs EXCEPT !["GatewayToken"] = tokenStored(FreshToken)]
        /\ queue' = (queue \/ objs["GatewayToken"] = {})
        /\ cached' = (objs["GatewayToken"] # {})
        /\ pass' = [pass EXCEPT !.step = @ + 1, !.token = FreshToken,
                                !.managed = @ \cup {"GatewayToken"}]
        /\ UNCHANGED <<spec, status, ext, deployment, disturbed>>
    BY <1>3 DEF reconcileGatewayTokenSecret
  <2>2. tokenStored(FreshToken) # {}
    BY DEF tokenStored
  <2>3. "GatewayToken" \in Kinds \ Unnamed
    BY LiteralKinds DEF Unnamed
  <2>4. /\ objs' = [h \in Kinds |-> objs'[h]]
        /\ \A h \in Kinds : objs[h] # {} => objs'[h] # {}
        /\ objs'["GatewayToken"] # {}
    BY <1>1, <2>1, <2>2, <2>3 DEF TypeOK
  <2>5. /\ pass' = [step |-> pass.step + 1, spec |-> pass.spec, managed |-> pass'.managed,
                    token |-> pass'.token, creds |-> pass'.creds, stale |-> pass.stale]
        /\ pass'.creds = pass.creds /\ pass'.managed = pass.managed \cup {"GatewayToken"}
    BY <1>1, <2>1 DEF TypeOK
  <2>6. queue' \in BOOLEAN /\ cached' \in BOOLEAN
    BY <2>1
  <2>7. /\ pass'.managed \subseteq Kinds \ Unnamed /\ pass'.creds \in {"missing", "static", "env"}
        /\ deployment' \in {"none", "owned", "foreign"} /\ disturbed' \in 0 .. MaxDisturbances
    BY <1>1, <2>1, <2>3, <2>5 DEF TypeOK
  <2> QED BY <2>1, <2>4, <2>5, <2>6, <2>7, AdvanceIInv
<1> QED BY <1>2, <1>3

LEMMA MigrateIInv == ASSUME IInv, migrateDeploymentToStatefulSet PROVE IInv'
<1>1. TypeOK
  BY DEF IInv
<1>2. /\ At("migrate") /\ deployment' = Migrated /\ pass' = [pass EXCEPT !.step = @ + 1]
      /\ UNCHANGED <<spec, status, ext, objs, queue, cached, disturbed>>
  BY DEF migrateDeploymentToStatefulSet
<1>3. /\ pass' = [step |-> pass.step + 1, spec |-> pass.spec, managed |-> pass'.managed,
                  token |-> pass'.token, creds |-> pass'.creds, stale |-> pass.stale]
      /\ pass'.creds = pass.creds /\ pass'.managed = pass.managed
  BY <1>1, <1>2 DEF TypeOK
<1>4. deployment' \in {"none", "owned", "foreign"} /\ deployment' # "owned"
  BY <1>1, <1>2 DEF TypeOK, Migrated
<1>5. "migrate" \notin Kinds
  BY DEF Kinds
<1> QED BY <1>1, <1>2, <1>3, <1>4, <1>5, AdvanceIInv DEF TypeOK

LEMMA StatefulSetIInv ==
    ASSUME IInv, NEW hash, reconcileStatefulSet(hash), disturbed' \in 0 .. MaxDisturbances
    PROVE  IInv'
<1>1. TypeOK
  BY DEF IInv
<1>2. "StatefulSet" \in Kinds \ Unnamed
  BY LiteralKinds DEF Unnamed
<1>3. CASE Fails(TRUE) /\ objs' \in {objs, [objs EXCEPT !["StatefulSet"] = {}]}
  <2>1. objs' = [k \in Kinds |-> objs'[k]]
    BY <1>1, <1>3 DEF TypeOK
  <2> QED BY <1>1, <1>3, <2>1, FailsIInv
<1>4. CASE /\ At("StatefulSet")
           /\ \E content : objs' = [objs EXCEPT !["StatefulSet"] = content]
           /\ queue' = (queue \/ objs' # objs)
           /\ pass' = [pass EXCEPT !.step = @ + 1, !.managed = @ \cup {"StatefulSet"}]
           /\ UNCHANGED <<spec, status, ext, deployment, cached>>
  <2>1. /\ pass' = [step |-> pass.step + 1, spec |-> pass.spec, managed |-> pass'.managed,
                    token |-> pass'.token, creds |-> pass'.creds, stale |-> pass.stale]
        /\ pass'.creds = pass.creds /\ pass'.managed = pass.managed \cup {"StatefulSet"}
    BY <1>1, <1>4 DEF TypeOK
  <2>2. /\ objs' = [k \in Kinds |-> objs'[k]]
        /\ \A h \in Kinds : h # "StatefulSet" => objs'[h] = objs[h]
    BY <1>1, <1>2, <1>4 DEF TypeOK
  <2>3. ~(Wanted("StatefulSet")')
    BY DEF Wanted
  <2>4. queue' \in BOOLEAN
    BY <1>4
  <2>5. /\ pass'.managed \subseteq Kinds \ Unnamed /\ pass'.creds \in {"missing", "static", "env"}
        /\ deployment' \in {"none", "owned", "foreign"} /\ cached' \in BOOLEAN
    BY <1>1, <1>2, <1>4, <2>1 DEF TypeOK
  <2> QED BY <1>4, <2>1, <2>2, <2>3, <2>4, <2>5, AdvanceIInv
<1> QED
  BY <1>3, <1>4 DEF reconcileStatefulSet

LEMMA S3MirrorIInv == ASSUME IInv, reconcileS3MirrorSecret PROVE IInv'
<1>1. TypeOK
  BY DEF IInv
<1> DEFINE mirrored == BackedUp(pass.spec) /\ ext.s3 = "static"
<1>2. /\ At("S3Mirror")
      /\ objs' = IF mirrored THEN [objs EXCEPT !["S3Mirror"] = {pass.spec}] ELSE objs
      /\ queue' = (queue \/ objs' # objs)
      /\ pass' = [pass EXCEPT !.step = @ + 1, !.creds = ext.s3]
      /\ UNCHANGED <<spec, status, ext, deployment, cached, disturbed>>
  BY DEF reconcileS3MirrorSecret
<1>3. /\ pass' = [step |-> pass.step + 1, spec |-> pass.spec, managed |-> pass'.managed,
                  token |-> pass'.token, creds |-> pass'.creds, stale |-> pass.stale]
      /\ pass'.creds = ext.s3 /\ pass'.managed = pass.managed /\ pass'.spec = pass.spec
  BY <1>1, <1>2 DEF TypeOK
<1>4. /\ objs' = [h \in Kinds |-> objs'[h]]
      /\ \A h \in Kinds : h # "S3Mirror" => objs'[h] = objs[h]
      /\ mirrored => objs'["S3Mirror"] # {}
  BY <1>1, <1>2, LiteralKinds DEF TypeOK
<1>5. Wanted("S3Mirror")' => mirrored
  BY <1>3 DEF Wanted
<1>6. queue' \in BOOLEAN
  BY <1>2
<1> HIDE DEF mirrored
<1> QED BY <1>1, <1>2, <1>3, <1>4, <1>5, <1>6, AdvanceIInv DEF TypeOK

LEMMA StatusIInv == ASSUME IInv, updateStatus PROVE IInv'
<1>1. TypeOK
  BY DEF IInv
<1> DEFINE written == [managed |-> pass.managed, observed |-> {pass.spec}, failed |-> FALSE]
<1>2. /\ status' \in {status, written} /\ queue' = (queue \/ written # status)
      /\ pass' = Idle
      /\ UNCHANGED <<spec, ext, objs, deployment, cached, disturbed>>
  BY DEF updateStatus
<1>3. status' \in [managed : SUBSET (Kinds \ Unnamed), observed : SUBSET SpecSet, failed : BOOLEAN]
  <2>1. /\ status \in [managed : SUBSET (Kinds \ Unnamed), observed : SUBSET SpecSet, failed : BOOLEAN]
        /\ pass.managed \in SUBSET (Kinds \ Unnamed) /\ {pass.spec} \in SUBSET SpecSet
    BY <1>1 DEF TypeOK, validate
  <2>2. written \in [managed : SUBSET (Kinds \ Unnamed), observed : SUBSET SpecSet, failed : BOOLEAN]
    BY <2>1
  <2> HIDE DEF written
  <2> QED BY <1>2, <2>1, <2>2
<1>4. queue' \in BOOLEAN
  BY <1>2
<1> HIDE DEF written
<1> QED BY <1>1, <1>2, <1>3, <1>4, EndsIInv DEF TypeOK

LEMMA HandlerIInv == ASSUME IInv, Handler PROVE IInv'
<1>1. ASSUME StatefulSetReconciled PROVE IInv'
  <2>1. disturbed' \in 0 .. MaxDisturbances
    BY <1>1 DEF StatefulSetReconciled, IInv, TypeOK
  <2> QED BY <1>1, <2>1, StatefulSetIInv DEF StatefulSetReconciled
<1>2. \/ Plain \/ reconcileHTTPRoute \/ reconcileServiceMonitor \/ reconcilePrometheusRule
      \/ reconcileTraefikBasicAuthMiddleware \/ reconcileConfigMap \/ reconcilePVC
      \/ reconcileChromiumPVC \/ reconcileBackupCronJob \/ lookupGatewayToken
      \/ reconcileGatewayTokenSecret \/ migrateDeploymentToStatefulSet \/ StatefulSetReconciled
      \/ reconcileS3MirrorSecret \/ updateStatus
  BY DEF Handler, Plain
<1> QED
  BY <1>1, <1>2, PlainIInv, OptionalIInv, ConfigMapIInv, PVCIInv, ChromiumPVCIInv, CronJobIInv,
     LookupIInv, GatewayTokenIInv, MigrateIInv, S3MirrorIInv, StatusIInv

-----------------------------------------------------------------------------
(* The queue, faults and the world *)

ExtType == [secret : {0} \cup Theirs, credential : 0 .. 1, config : 0 .. 2, claim : BOOLEAN,
            s3 : {"missing", "static", "env"}, crds : SUBSET {"gateway", "prometheus", "traefik"}]

\* Changes around a pass, none of which takes away what is not in DriftKinds.
LEMMA AroundIInv ==
    ASSUME IInv, UNCHANGED <<spec, status, deployment, pass>>, ext' \in ExtType,
           objs' = [h \in Kinds |-> objs'[h]],
           \A h \in Kinds \ DriftKinds : objs[h] # {} => objs'[h] # {},
           queue' \in BOOLEAN, cached' \in BOOLEAN, disturbed' \in 0 .. MaxDisturbances
    PROVE  IInv'
<1>1. TypeOK /\ Done
  BY DEF IInv
<1>2. TypeOK'
  <2>1. validate(spec') /\ validate(pass'.spec)
    BY <1>1 DEF TypeOK
  <2> QED BY <1>1, <2>1 DEF TypeOK, ExtType
<1>3. Done'
  <2> SUFFICES ASSUME NEW i \in 1 .. pass.step - 1, Steps[i] \notin DriftKinds, Wanted(Steps[i])'
               PROVE  objs'[Steps[i]] # {}
    BY <1>1 DEF Done
  <2>1. i \in 1 .. 28
    BY <1>1, StepsAre DEF TypeOK
  <2>2. Steps[i] \in Kinds
    BY <2>1, Positions DEF Wanted
  <2>3. Wanted(Steps[i])
    BY DEF Wanted
  <2> QED BY <1>1, <2>2, <2>3 DEF Done
<1> QED BY <1>2, <1>3 DEF IInv

LEMMA BeginPassIInv == ASSUME IInv, BeginPass PROVE IInv'
<1>1. TypeOK
  BY DEF IInv
<1>2. /\ pass' = [step |-> 1, spec |-> spec, managed |-> status.managed, token |-> 0,
                  creds |-> "missing", stale |-> FALSE]
      /\ queue' = FALSE
      /\ UNCHANGED <<spec, status, ext, objs, deployment, cached, disturbed>>
  BY DEF BeginPass
<1>3. /\ pass'.step = 1 /\ pass'.spec = spec /\ pass'.managed = status.managed
      /\ pass'.creds = "missing" /\ pass'.stale = FALSE
      /\ pass' = [step |-> pass'.step, spec |-> pass'.spec, managed |-> pass'.managed,
                  token |-> pass'.token, creds |-> pass'.creds, stale |-> pass'.stale]
  BY <1>2
<1>4. /\ validate(spec') /\ validate(pass'.spec) /\ pass'.step \in 0 .. Len(Steps)
      /\ pass'.managed \subseteq Kinds \ Unnamed
  BY <1>1, <1>2, <1>3, StepsAre DEF TypeOK
<1>5. TypeOK'
  BY <1>1, <1>2, <1>3, <1>4 DEF TypeOK
<1>6. Done'
  BY <1>3 DEF Done
<1> QED BY <1>5, <1>6 DEF IInv

LEMMA DisturbanceType == ASSUME TypeOK, Disturbance PROVE disturbed' \in 0 .. MaxDisturbances
BY FamiliesAssumption DEF TypeOK, Disturbance

LEMMA UserEditsIInv == ASSUME IInv, UserEdits PROVE IInv'
<1>1. TypeOK
  BY DEF IInv
<1>2. PICK s : /\ pass.step \in {0, 1} /\ validate(s) /\ spec' = s /\ pass' = Overtaken(s)
               /\ queue' = TRUE /\ UNCHANGED <<status, ext, objs, deployment, cached>>
  BY DEF UserEdits
<1>3. disturbed' \in 0 .. MaxDisturbances
  BY <1>1, DisturbanceType DEF UserEdits
<1>4. pass = [step |-> pass.step, spec |-> pass.spec, managed |-> pass.managed, token |-> pass.token,
              creds |-> pass.creds, stale |-> pass.stale]
  BY <1>1 DEF TypeOK
<1>5. /\ pass' = [step |-> pass'.step, spec |-> pass'.spec, managed |-> pass'.managed,
                  token |-> pass'.token, creds |-> pass'.creds, stale |-> pass'.stale]
      /\ pass'.step = pass.step /\ pass'.spec \in {s, pass.spec} /\ pass'.managed = pass.managed
      /\ pass'.creds = pass.creds /\ pass'.stale \in {pass.stale, TRUE}
  BY <1>2, <1>4 DEF Overtaken
<1>6. validate(spec') /\ validate(pass'.spec)
  BY <1>1, <1>2, <1>5 DEF TypeOK
<1>7. TypeOK'
  BY <1>1, <1>2, <1>3, <1>5, <1>6 DEF TypeOK
<1>8. Done'
  BY <1>2, <1>5 DEF Done
<1> QED BY <1>7, <1>8 DEF IInv

LEMMA ChangedIInv ==
    ASSUME IInv, Disturbance, NEW wakes, NEW field, NEW v, Changed(field, v, wakes),
           \/ field = "secret" /\ v \in Theirs \cup {0}
           \/ field = "credential" /\ v \in 0 .. 1
           \/ field = "config" /\ v \in 0 .. 2
           \/ field = "claim" /\ v \in BOOLEAN
           \/ field = "s3" /\ v \in {"missing", "static", "env"}
    PROVE  IInv'
<1>1. TypeOK
  BY DEF IInv
<1>2. /\ ext' = [ext EXCEPT ![field] = v] /\ queue' = (queue \/ wakes)
      /\ UNCHANGED <<spec, status, objs, deployment, pass, cached>>
  BY DEF Changed
<1>3. ext \in ExtType
  BY <1>1 DEF TypeOK, ExtType
<1>4. ext' \in ExtType
  BY <1>2, <1>3 DEF ExtType
<1>5. queue' \in BOOLEAN /\ disturbed' \in 0 .. MaxDisturbances
  BY <1>1, <1>2, DisturbanceType
<1> QED BY <1>1, <1>2, <1>4, <1>5, AroundIInv DEF TypeOK

LEMMA WorldIInv ==
    ASSUME IInv, \/ SecretChanges \/ CredentialChanges \/ ConfigChanges
                 \/ ClaimChanges \/ S3CredentialsChange
    PROVE  IInv'
<1>1. ASSUME ClaimChanges PROVE IInv'
  <2>1. (~ext.claim) \in BOOLEAN
    OBVIOUS
  <2> QED BY <1>1, <2>1, ChangedIInv DEF ClaimChanges
<1> QED
  BY <1>1, ChangedIInv DEF SecretChanges, CredentialChanges, ConfigChanges, S3CredentialsChange

LEMMA DriftIInv == ASSUME IInv, Drift PROVE IInv'
<1>1. TypeOK
  BY DEF IInv
<1>2. PICK k \in DriftKinds : /\ objs' = [objs EXCEPT ![k] = {}]
                              /\ queue' = (queue \/ k \in Watched)
  BY DEF Drift
<1>3. UNCHANGED <<spec, status, ext, deployment, pass, cached>>
  BY DEF Drift
<1>4. /\ objs' = [h \in Kinds |-> objs'[h]]
      /\ \A h \in Kinds \ DriftKinds : objs'[h] = objs[h]
  BY <1>1, <1>2 DEF TypeOK
<1>5. queue' \in BOOLEAN /\ disturbed' \in 0 .. MaxDisturbances
  BY <1>1, <1>2, DisturbanceType DEF Drift
<1> QED BY <1>1, <1>3, <1>4, <1>5, AroundIInv DEF TypeOK, ExtType

LEMMA HPAScalesIInv == ASSUME IInv, HPAScales PROVE IInv'
<1>1. TypeOK
  BY DEF IInv
<1>2. PICK c : objs' = [objs EXCEPT !["StatefulSet"] = {c}]
  BY DEF HPAScales
<1>3. queue' = TRUE /\ UNCHANGED <<spec, status, ext, deployment, pass, cached>>
  BY DEF HPAScales
<1>4. /\ objs' = [h \in Kinds |-> objs'[h]]
      /\ \A h \in Kinds \ DriftKinds : objs[h] # {} => objs'[h] # {}
  BY <1>1, <1>2 DEF TypeOK
<1>5. disturbed' \in 0 .. MaxDisturbances
  BY <1>1, DisturbanceType DEF HPAScales
<1> QED BY <1>1, <1>3, <1>4, <1>5, AroundIInv DEF TypeOK, ExtType

LEMMA FaultsIInv ==
    ASSUME IInv, CallFails \/ HashFails \/ OperatorRestarts \/ CacheSyncs
    PROVE  IInv'
<1>1. TypeOK
  BY DEF IInv
<1>2. ASSUME CallFails PROVE IInv'
  <2>1. PICK written \in BOOLEAN : Fails(written)
    BY <1>2 DEF CallFails
  <2>2. objs' = [h \in Kinds |-> objs'[h]] /\ disturbed' \in 0 .. MaxDisturbances
    BY <1>1, <1>2, DisturbanceType DEF CallFails, TypeOK
  <2> QED BY <1>1, <2>1, <2>2, FailsIInv
<1>3. ASSUME HashFails PROVE IInv'
  <2>1. disturbed' \in 0 .. MaxDisturbances
    BY <1>1, <1>3, DisturbanceType DEF HashFails
  <2> QED BY <1>3, <2>1, StatefulSetIInv DEF HashFails
<1>4. ASSUME OperatorRestarts PROVE IInv'
  <2>1. disturbed' \in 0 .. MaxDisturbances
    BY <1>1, <1>4, DisturbanceType DEF OperatorRestarts
  <2>2. pass' = Idle /\ queue' = TRUE /\ cached' = TRUE /\ UNCHANGED <<spec, status, ext, objs, deployment>>
    BY <1>4 DEF OperatorRestarts
  <2> QED BY <1>1, <2>1, <2>2, EndsIInv DEF TypeOK
<1>5. ASSUME CacheSyncs PROVE IInv'
  <2>1. cached' = TRUE /\ UNCHANGED <<spec, status, ext, objs, deployment, pass, queue, disturbed>>
    BY <1>5 DEF CacheSyncs
  <2> QED BY <1>1, <2>1, AroundIInv DEF TypeOK, ExtType
<1> QED BY <1>2, <1>3, <1>4, <1>5

LEMMA StutterIInv == ASSUME IInv, UNCHANGED vars PROVE IInv'
<1>1. TypeOK /\ UNCHANGED <<spec, status, ext, objs, deployment, pass, queue, cached, disturbed>>
  BY DEF IInv, vars
<1> QED BY <1>1, AroundIInv DEF TypeOK, ExtType

LEMMA InitIInv == ASSUME Init PROVE IInv
<1>1. /\ pass = [step |-> pass.step, spec |-> pass.spec, managed |-> pass.managed, token |-> pass.token,
                 creds |-> pass.creds, stale |-> pass.stale]
      /\ pass.step = 0 /\ pass.spec = spec /\ pass.managed = {} /\ pass.creds = "missing"
      /\ pass.stale = FALSE
  BY DEF Init, Idle
<1>2. ext \in ExtType
  <2>1. ext \in [secret : {0} \cup Theirs, credential : {1}, config : {1}, claim : {TRUE},
                 s3 : {"static"}, crds : {{}, {"gateway", "prometheus", "traefik"}}]
    BY DEF Init
  <2>2. {{}, {"gateway", "prometheus", "traefik"}} \subseteq SUBSET {"gateway", "prometheus", "traefik"}
    OBVIOUS
  <2>3. {1} \subseteq 0 .. 1 /\ {1} \subseteq 0 .. 2
    OBVIOUS
  <2>4. {TRUE} \subseteq BOOLEAN /\ {"static"} \subseteq {"missing", "static", "env"}
    OBVIOUS
  <2> QED BY <2>1, <2>2, <2>3, <2>4, Zenon DEF ExtType
<1>3. /\ validate(spec) /\ validate(pass.spec) /\ pass.step \in 0 .. Len(Steps)
      /\ status \in [managed : SUBSET (Kinds \ Unnamed), observed : SUBSET SpecSet, failed : BOOLEAN]
  BY <1>1, StepsAre DEF Init
<1>4. objs = [k \in Kinds |-> objs[k]]
  BY DEF Init
<1>5. TypeOK
  <2>1. /\ deployment \in {"none", "owned", "foreign"} /\ queue = TRUE /\ cached = TRUE
        /\ disturbed \in 0 .. MaxDisturbances
    BY FamiliesAssumption DEF Init
  <2> QED BY <1>1, <1>2, <1>3, <1>4, <2>1 DEF TypeOK, ExtType
<1>6. Done
  BY <1>1 DEF Done
<1> QED BY <1>5, <1>6 DEF IInv

\* The invariant holds in every state.
THEOREM Invariance == Spec => []IInv
<1>1. Init => IInv
  BY InitIInv
<1>2. IInv /\ [Next]_vars => IInv'
  BY StutterIInv, BeginPassIInv, HandlerIInv, FaultsIInv, UserEditsIInv, WorldIInv, DriftIInv,
     HPAScalesIInv DEF Next
<1> QED
  BY <1>1, <1>2, PTL DEF Spec

\* Types: in particular no pass ever runs past its last step, and every spec
\* that a pass renders is one that the webhook admitted.
THEOREM TypeCorrect == Spec => []TypeOK
<1>1. IInv => TypeOK
  BY DEF IInv
<1> QED
  BY <1>1, Invariance, PTL

-----------------------------------------------------------------------------
(* Who writes what *)

\* What a handler may write: no token over a token, a schedule only of what is
\* backed up, a public route only if one is asked for.
Rule(k, content) ==
    /\ k = "GatewayToken" /\ objs[k] # {} => content = objs[k]
    /\ k = "CronJob" => content \in {objs[k], {}} \/ BackedUp(pass.spec)
    /\ k = "Ingress" => content = {} \/ pass.spec.ingress # "off"

\* A step writes the kind that the pass is at, by that rule.
Write == \E k \in Kinds : \E content : At(k) /\ objs' = [objs EXCEPT ![k] = content] /\ Rule(k, content)

LEMMA PlainWrites == ASSUME Plain PROVE Write
<1>1. ASSUME NEW k \in Kinds \ {"GatewayToken", "CronJob", "Ingress"}, NEW enabled,
             \/ createOrDelete(k, enabled) \/ createOrKeep(k, enabled) \/ createOnce(k, enabled)
      PROVE  Write
  <2>1. PICK content, named : At(k) /\ Reconciled(k, content, named)
    BY <1>1 DEF createOrDelete, createOrKeep, createOnce
  <2>2. objs' = [objs EXCEPT ![k] = content] /\ Rule(k, content)
    BY <2>1 DEF Reconciled, Rule
  <2> QED BY <2>1, <2>2 DEF Write
<1>2. ASSUME reconcileIngress PROVE Write
  <2>1. PICK content, named : /\ At("Ingress") /\ Reconciled("Ingress", content, named)
                              /\ content = {} \/ pass.spec.ingress # "off"
    BY <1>2 DEF reconcileIngress, createOrDelete
  <2>2. objs' = [objs EXCEPT !["Ingress"] = content] /\ Rule("Ingress", content)
    BY <2>1 DEF Reconciled, Rule
  <2> QED BY <2>1, <2>2, LiteralKinds DEF Write
<1>3. \A k \in {"ServiceAccount", "Role", "RoleBinding", "NetworkPolicy", "MeshState",
                "WorkspaceConfigMap", "PDB", "HPA", "Service", "CDPService", "BasicAuth",
                "DashboardOperator", "DashboardInstance"} :
         k \in Kinds \ {"GatewayToken", "CronJob", "Ingress"}
  BY LiteralKinds
<1> QED
  BY <1>1, <1>2, <1>3
     DEF Plain, reconcileRBAC, reconcileNetworkPolicy, reconcileMeshStateSecret,
         reconcileWorkspaceConfigMap, reconcilePDB, reconcileHPA, reconcileService,
         reconcileChromiumCDPService, reconcileBasicAuthSecret, reconcileGrafanaDashboards

LEMMA HandlerWrites ==
    ASSUME TypeOK, \/ Handler \/ \E hash : reconcileStatefulSet(hash)
    PROVE  objs' = objs \/ Write
<1>1. ASSUME NEW k \in Kinds \ {"GatewayToken", "CronJob", "Ingress"}, NEW content, NEW named,
             At(k), Reconciled(k, content, named)
      PROVE  Write
  <2>1. objs' = [objs EXCEPT ![k] = content] /\ Rule(k, content)
    BY <1>1 DEF Reconciled, Rule
  <2> QED BY <1>1, <2>1 DEF Write
<1>2. \A k \in {"ConfigMap", "PVC", "ChromiumPVC", "Middleware", "HTTPRoute", "ServiceMonitor",
                "PrometheusRule", "StatefulSet", "S3Mirror"} :
         k \in Kinds \ {"GatewayToken", "CronJob", "Ingress"}
  BY LiteralKinds
<1>3. ASSUME reconcileConfigMap \/ reconcilePVC \/ reconcileChromiumPVC PROVE objs' = objs \/ Write
  BY <1>1, <1>2, <1>3 DEF reconcileConfigMap, reconcilePVC, reconcileChromiumPVC, Refused
<1>4. ASSUME \/ reconcileHTTPRoute \/ reconcileServiceMonitor \/ reconcilePrometheusRule
             \/ reconcileTraefikBasicAuthMiddleware
      PROVE  Write
  BY <1>1, <1>2, <1>4 DEF reconcileHTTPRoute, reconcileServiceMonitor, reconcilePrometheusRule,
     reconcileTraefikBasicAuthMiddleware, createOrSkip, createOrDelete, createOrKeep
<1>5. ASSUME reconcileBackupCronJob PROVE Write
  <2>1. PICK content, named : /\ At("CronJob") /\ Reconciled("CronJob", content, named)
                              /\ content \in {objs["CronJob"], {}} \/ BackedUp(pass.spec)
    BY <1>5 DEF reconcileBackupCronJob
  <2>2. objs' = [objs EXCEPT !["CronJob"] = content] /\ Rule("CronJob", content)
    BY <2>1 DEF Reconciled, Rule
  <2> QED BY <2>1, <2>2, LiteralKinds DEF Write
<1>6. ASSUME reconcileGatewayTokenSecret PROVE objs' = objs \/ Write
  <2>1. CASE Refused
    BY <2>1 DEF Refused
  <2>2. CASE ~Refused
    <3>1. At("GatewayToken") /\ objs' = [objs EXCEPT !["GatewayToken"] = tokenStored(FreshToken)]
      BY <1>6, <2>2 DEF reconcileGatewayTokenSecret
    <3>2. Rule("GatewayToken", tokenStored(FreshToken))
      BY DEF Rule, tokenStored
    <3> QED BY <3>1, <3>2, LiteralKinds DEF Write
  <2> QED BY <2>1, <2>2
<1>7. ASSUME NEW hash, reconcileStatefulSet(hash) PROVE objs' = objs \/ Write
  <2>1. At("StatefulSet") /\ (objs' = objs \/ \E c : objs' = [objs EXCEPT !["StatefulSet"] = c])
    BY <1>7 DEF reconcileStatefulSet
  <2>2. \A c : Rule("StatefulSet", c)
    BY DEF Rule
  <2> QED BY <1>2, <2>1, <2>2 DEF Write
<1>8. ASSUME reconcileS3MirrorSecret PROVE objs' = objs \/ Write
  <2>1. At("S3Mirror") /\ (objs' = objs \/ objs' = [objs EXCEPT !["S3Mirror"] = {pass.spec}])
    BY <1>8 DEF reconcileS3MirrorSecret
  <2>2. Rule("S3Mirror", {pass.spec})
    BY DEF Rule
  <2> QED BY <1>2, <2>1, <2>2 DEF Write
<1>9. ASSUME lookupGatewayToken \/ migrateDeploymentToStatefulSet \/ updateStatus PROVE objs' = objs
  BY <1>9 DEF lookupGatewayToken, migrateDeploymentToStatefulSet, updateStatus, Refused
<1>10. \/ Plain \/ reconcileHTTPRoute \/ reconcileServiceMonitor \/ reconcilePrometheusRule
       \/ reconcileTraefikBasicAuthMiddleware \/ reconcileConfigMap \/ reconcilePVC
       \/ reconcileChromiumPVC \/ reconcileBackupCronJob \/ lookupGatewayToken
       \/ reconcileGatewayTokenSecret \/ migrateDeploymentToStatefulSet
       \/ (\E hash : reconcileStatefulSet(hash)) \/ reconcileS3MirrorSecret \/ updateStatus
  BY DEF Handler, Plain, StatefulSetReconciled
<1> QED
  BY <1>3, <1>4, <1>5, <1>6, <1>7, <1>8, <1>9, <1>10, PlainWrites

LEMMA NextWrites ==
    ASSUME TypeOK, [Next]_vars
    PROVE  \/ objs' = objs \/ Write
           \/ \E k \in DriftKinds : objs' = [objs EXCEPT ![k] = {}]
           \/ \E c : objs' = [objs EXCEPT !["StatefulSet"] = c]
<1>1. CASE Handler \/ HashFails
  BY <1>1, HandlerWrites DEF HashFails
<1>2. CASE Drift
  BY <1>2 DEF Drift
<1>3. CASE HPAScales
  BY <1>3 DEF HPAScales
<1>4. CASE \/ BeginPass \/ CallFails \/ OperatorRestarts \/ CacheSyncs \/ UserEdits \/ SecretChanges
           \/ CredentialChanges \/ ConfigChanges \/ ClaimChanges \/ S3CredentialsChange \/ UNCHANGED vars
  BY <1>4 DEF BeginPass, CallFails, OperatorRestarts, CacheSyncs, UserEdits, SecretChanges,
     CredentialChanges, ConfigChanges, ClaimChanges, S3CredentialsChange, Changed, vars
<1> QED
  BY <1>1, <1>2, <1>3, <1>4 DEF Next

\* A generated token is never replaced while its Secret exists, for any set
\* of tokens, specs and faults.
THEOREM TokenStability == Spec => TokenIsStable
<1>1. TypeOK /\ [Next]_vars =>
        [objs["GatewayToken"] # {} /\ objs'["GatewayToken"] # {} =>
            objs'["GatewayToken"] = objs["GatewayToken"]]_vars
  <2> SUFFICES ASSUME TypeOK, [Next]_vars, objs["GatewayToken"] # {}, objs'["GatewayToken"] # {}
               PROVE  objs'["GatewayToken"] = objs["GatewayToken"]
    OBVIOUS
  <2>1. objs = [k \in Kinds |-> objs[k]]
    BY DEF TypeOK
  <2>2. CASE Write
    <3>1. PICK k \in Kinds : \E c : objs' = [objs EXCEPT ![k] = c] /\ Rule(k, c)
      BY <2>2 DEF Write
    <3> QED BY <2>1, <3>1 DEF Rule
  <2>3. CASE \E k \in DriftKinds : objs' = [objs EXCEPT ![k] = {}]
    BY <2>1, <2>3
  <2>4. CASE \E c : objs' = [objs EXCEPT !["StatefulSet"] = c]
    BY <2>1, <2>4
  <2> QED BY <2>2, <2>3, <2>4, NextWrites
<1> QED
  BY <1>1, TypeCorrect, PTL DEF Spec, TokenIsStable

-----------------------------------------------------------------------------
(* Needs come first *)

\* What is wanted and behind the pass is there.
LEMMA Behind ==
    ASSUME IInv, NEW i \in 1 .. pass.step - 1, Wanted(Steps[i]), Steps[i] \notin DriftKinds
    PROVE  objs[Steps[i]] # {}
BY DEF IInv, Done

LEMMA StatefulSetNeeds ==
    ASSUME IInv, At("StatefulSet")
    PROVE  /\ \A n \in Needs("StatefulSet") \ DriftKinds : objs[n] # {}
           /\ deployment # "owned"
<1>1. pass.step = 15
  <2>1. pass.step \in 1 .. 28 /\ Steps[pass.step] = "StatefulSet"
    BY AtStep DEF IInv
  <2> QED BY <2>1, Positions
<1>2. deployment # "owned"
  BY <1>1, StepsAre DEF IInv, Done
<1>3. SUFFICES ASSUME NEW n \in Needs("StatefulSet"), n \notin DriftKinds PROVE objs[n] # {}
  BY <1>2
<1>4. Wanted(n)
  BY <1>3 DEF Needs, Wanted
<1>5. n \in {"ConfigMap", "WorkspaceConfigMap", "ServiceAccount", "Role", "RoleBinding", "NetworkPolicy",
             "GatewayToken", "MeshState", "PVC", "ChromiumPVC"}
  BY <1>3 DEF Needs
<1>6. PICK i \in 1 .. 14 : Steps[i] = n
  <2>1. /\ 1 \in 1 .. 14 /\ 2 \in 1 .. 14 /\ 3 \in 1 .. 14 /\ 4 \in 1 .. 14 /\ 6 \in 1 .. 14
        /\ 7 \in 1 .. 14 /\ 8 \in 1 .. 14 /\ 9 \in 1 .. 14 /\ 10 \in 1 .. 14 /\ 11 \in 1 .. 14
    OBVIOUS
  <2> QED BY <1>5, <2>1, StepsAre
<1> QED
  BY <1>1, <1>3, <1>4, <1>6, Behind

LEMMA CronJobNeeds ==
    ASSUME IInv, At("CronJob"), BackedUp(pass.spec)
    PROVE  \A n \in Needs("CronJob") \ DriftKinds : objs[n] # {}
<1>1. pass.step = 17
  <2>1. pass.step \in 1 .. 28 /\ Steps[pass.step] = "CronJob"
    BY AtStep DEF IInv
  <2> QED BY <2>1, Positions
<1> SUFFICES ASSUME NEW n \in Needs("CronJob"), n \notin DriftKinds PROVE objs[n] # {}
  OBVIOUS
<1>2. n = Steps[16] /\ 16 \in 1 .. pass.step - 1 /\ Wanted(n)
  BY <1>1, StepsAre DEF Needs, Wanted
<1> QED
  BY <1>2, Behind

LEMMA IngressNeeds ==
    ASSUME IInv, At("Ingress"), pass.spec.ingress # "off"
    PROVE  \A n \in Needs("Ingress") \ DriftKinds : objs[n] # {}
<1>1. pass.step = 22
  <2>1. pass.step \in 1 .. 28 /\ Steps[pass.step] = "Ingress"
    BY AtStep DEF IInv
  <2> QED BY <2>1, Positions
<1>2. pass.spec.ingress \in {"off", "open", "auth", "traefik"}
  BY DEF IInv, TypeOK, validate, SpecSet
<1> SUFFICES ASSUME NEW n \in Needs("Ingress"), n \notin DriftKinds PROVE objs[n] # {}
  OBVIOUS
<1>3. n \in {"Service", "BasicAuth"} /\ Wanted(n)
  BY <1>2 DEF Needs, Wanted
<1>4. /\ 18 \in 1 .. pass.step - 1 /\ 20 \in 1 .. pass.step - 1
      /\ Steps[18] = "Service" /\ Steps[20] = "BasicAuth"
  BY <1>1, StepsAre
<1> QED
  BY <1>3, <1>4, Behind

LEMMA ServiceMonitorNeeds ==
    ASSUME IInv, At("ServiceMonitor")
    PROVE  \A n \in Needs("ServiceMonitor") \ DriftKinds : objs[n] # {}
<1>1. pass.step = 24
  <2>1. pass.step \in 1 .. 28 /\ Steps[pass.step] = "ServiceMonitor"
    BY AtStep DEF IInv
  <2> QED BY <2>1, Positions
<1> SUFFICES ASSUME NEW n \in Needs("ServiceMonitor"), n \notin DriftKinds PROVE objs[n] # {}
  OBVIOUS
<1>2. n = Steps[18] /\ 18 \in 1 .. pass.step - 1 /\ Wanted(n)
  BY <1>1, StepsAre DEF Needs, Wanted
<1> QED
  BY <1>2, Behind

\* A schedule or a public route that is written is one that is asked for.
LEMMA WrittenIsAskedFor ==
    ASSUME TypeOK, [Next]_vars, NEW k \in {"CronJob", "Ingress"}, k \notin DriftKinds,
           objs'[k] \notin {objs[k], {}}
    PROVE  /\ k = "CronJob" => BackedUp(pass.spec)
           /\ k = "Ingress" => pass.spec.ingress # "off"
<1>1. objs = [h \in Kinds |-> objs[h]] /\ k \in Kinds
  BY LiteralKinds DEF TypeOK
<1>2. CASE Write
  <2>3. PICK h \in Kinds : \E c : objs' = [objs EXCEPT ![h] = c] /\ Rule(h, c)
    BY <1>2 DEF Write
  <2>1. PICK c : objs' = [objs EXCEPT ![h] = c] /\ Rule(h, c)
    BY <2>3
  <2>2. h = k /\ objs'[k] = c
    BY <1>1, <2>1
  <2> QED BY <2>1, <2>2 DEF Rule
<1>3. CASE \E h \in DriftKinds : objs' = [objs EXCEPT ![h] = {}]
  BY <1>1, <1>3
<1>4. CASE \E c : objs' = [objs EXCEPT !["StatefulSet"] = c]
  BY <1>1, <1>4
<1> QED
  BY <1>2, <1>3, <1>4, NextWrites

\* Whatever the user toggles and wherever passes are cut short, a workload, a
\* backup schedule, a public route and a scrape target are written only after
\* everything they rely on, and no StatefulSet beside an owned Deployment.
THEOREM OrderIsSafe == Spec => NeedsComeFirst
<1> DEFINE First ==
        \A k \in {"StatefulSet", "CronJob", "Ingress", "ServiceMonitor"} \ DriftKinds :
          At(k) /\ objs'[k] \notin {objs[k], {}} =>
              /\ \A n \in Needs(k) \ DriftKinds : objs[n] # {}
              /\ k = "StatefulSet" => deployment # "owned"
<1>1. IInv /\ [Next]_vars => [First]_vars
  <2> SUFFICES ASSUME IInv, [Next]_vars,
                      NEW k \in {"StatefulSet", "CronJob", "Ingress", "ServiceMonitor"} \ DriftKinds,
                      At(k), objs'[k] \notin {objs[k], {}}
               PROVE  /\ \A n \in Needs(k) \ DriftKinds : objs[n] # {}
                      /\ k = "StatefulSet" => deployment # "owned"
    OBVIOUS
  <2>1. TypeOK
    BY DEF IInv
  <2>2. CASE k = "StatefulSet"
    BY <2>2, StatefulSetNeeds
  <2>3. CASE k = "CronJob"
    BY <2>1, <2>3, WrittenIsAskedFor, CronJobNeeds
  <2>4. CASE k = "Ingress"
    BY <2>1, <2>4, WrittenIsAskedFor, IngressNeeds
  <2>5. CASE k = "ServiceMonitor"
    BY <2>5, ServiceMonitorNeeds
  <2> QED BY <2>2, <2>3, <2>4, <2>5
<1>2. Spec => [][First]_vars
  <2> HIDE DEF First
  <2> QED BY <1>1, Invariance, PTL DEF Spec
<1> QED
  BY <1>2 DEF NeedsComeFirst

=============================================================================
