----------------------- MODULE LevelTriggered_proofs -----------------------
(***************************************************************************)
(* Proof that the reconciler of Resources implements LevelTriggered, for   *)
(* every set of specs, every kind that may be deleted by hand and every    *)
(* step at which a pass may be cut short.                                  *)
(*                                                                         *)
(* The operator earns its sleep by a pass that runs with an empty queue    *)
(* from its first step to its last.  The inductive invariant LInv says     *)
(* what such a pass has achieved so far: since any change that matters     *)
(* fills the queue, the pass still holds the current spec, every handler   *)
(* behind it has found its object as it should be, and what it will write  *)
(* to the status is right (CleanPass).  The delicate part is the gateway   *)
(* token that the pass carries from the Secret to the ConfigMap: when the  *)
(* cache lags it may be one that no Secret holds, and then the ConfigMap   *)
(* must differ, so that writing it wakes the operator again (CleanToken).  *)
(***************************************************************************)
EXTENDS Resources_proofs

\* The kind, or the step, is as the instance wants it, in the cluster as far
\* as it is watched and in what the pass will write to the status.
Kept(k) ==
    /\ k \in Watched \ {"S3Mirror", "CronJob"} => Agrees(k)
    /\ k \in DOMAIN Toggled \ Unnamed => (k \in pass.managed <=> Toggled[k])
    /\ k = "migrate" => deployment # "owned"

\* A pass that nothing has overtaken holds the current spec, and all that is
\* behind it is done.
CleanPass ==
    pass.step > 0 /\ ~queue =>
        /\ pass.spec = spec /\ ~pass.stale
        /\ \A i \in 1 .. pass.step - 1 : Kept(Steps[i])

\* The token that a pass carries to the ConfigMap is the Secret's, or one that
\* is new: then writing it wakes the operator again.
TokenFits ==
    \/ pass.token = computeSecretHash(spec).gateway
    \/ \A c \in objs["ConfigMap"] : c.token # pass.token

CleanToken == pass.step \in {7, 8} /\ ~queue => TokenFits

\* The operator sleeps only while nothing is left to do.
Rests == Asleep => Settled

\* A kind that the cluster does not know is not named in the status.
CRDsKnown ==
    \A k \in status.managed \cup pass.managed :
        /\ k = "HTTPRoute" => "gateway" \in ext.crds
        /\ k \in {"ServiceMonitor", "PrometheusRule"} => "prometheus" \in ext.crds

\* At most three tokens are in use, so that a generated one is new.
Shapes ==
    /\ \E t : objs["GatewayToken"] \subseteq {t}
    /\ \E t : {c.token : c \in objs["ConfigMap"]} \subseteq {t}
    /\ \E t : UNION {{h.gateway : h \in c.hash} : c \in objs["StatefulSet"]} \subseteq {t}
    /\ \A o \in objs["StatefulSet"] :
          o = [from |-> o.from, templates |-> o.templates, replicas |-> o.replicas, hash |-> o.hash]

\* The inductive invariant, together with IInv of Resources_proofs.
LInv == CleanPass /\ CleanToken /\ Rests /\ CRDsKnown /\ Shapes

\* What every step does: it keeps the invariant, and the operator sleeps
\* after it only if everything was settled before it.
LStep == LInv' /\ (Asleep' => Settled)

-----------------------------------------------------------------------------
(* What the invariant depends on *)

\* A step that leaves the queue empty has changed nothing that is watched.
Undisturbed ==
    /\ ~queue /\ spec' = spec /\ ext'.crds = ext.crds
    /\ spec.token = "theirs" => ext'.secret = ext.secret
    /\ spec.mesh => ext'.credential = ext.credential
    /\ spec.config = "ref" => ext'.config = ext.config
    /\ \A h \in Watched : objs'[h] = objs[h]

\* No handler runs twice in a pass.
LEMMA StepsDiffer == ASSUME NEW j \in 1 .. 28, NEW i \in 1 .. j - 1 PROVE Steps[i] # Steps[j]
<1> DEFINE Num(n) == \/ n = 1 \/ n = 2 \/ n = 3 \/ n = 4 \/ n = 5 \/ n = 6 \/ n = 7 \/ n = 8 \/ n = 9
                     \/ n = 10 \/ n = 11 \/ n = 12 \/ n = 13 \/ n = 14 \/ n = 15 \/ n = 16 \/ n = 17
                     \/ n = 18 \/ n = 19 \/ n = 20 \/ n = 21 \/ n = 22 \/ n = 23 \/ n = 24 \/ n = 25
                     \/ n = 26 \/ n = 27 \/ n = 28
<1>1. i \in 1 .. 28 /\ i # j
  OBVIOUS
<1>2. Num(i) /\ Num(j)
  BY <1>1
<1> QED BY <1>1, <1>2, StepsAre

\* A generated token is not the one in the ConfigMap.
LEMMA FreshIsFresh == ASSUME Shapes PROVE \A c \in objs["ConfigMap"] : c.token # FreshToken
<1>1. PICK a : objs["GatewayToken"] \subseteq {a}
  BY DEF Shapes
<1>2. PICK b : {c.token : c \in objs["ConfigMap"]} \subseteq {b}
  BY DEF Shapes
<1>3. PICK d : UNION {{h.gateway : h \in c.hash} : c \in objs["StatefulSet"]} \subseteq {d}
  BY DEF Shapes
<1> DEFINE Used == objs["GatewayToken"] \cup {c.token : c \in objs["ConfigMap"]}
                   \cup UNION {{h.gateway : h \in c.hash} : c \in objs["StatefulSet"]}
<1>4. Used \subseteq {a, b, d}
  BY <1>1, <1>2, <1>3
<1>5. \E t \in Generated : t \notin {a, b, d}
  <2>1. PICK g \in Generated : TRUE
    BY FamiliesAssumption
  <2>2. PICK x \in Generated : a \in Generated => x = a
    BY <2>1
  <2>3. PICK y \in Generated : b \in Generated => y = b
    BY <2>1
  <2>4. PICK z \in Generated : d \in Generated => z = d
    BY <2>1
  <2>5. Generated # {x, y, z}
    BY FamiliesAssumption
  <2> QED BY <2>2, <2>3, <2>4, <2>5
<1>6. {c.token : c \in objs["ConfigMap"]} \subseteq Used
  OBVIOUS
<1>7. FreshToken = CHOOSE t \in Generated : t \notin Used
  BY DEF FreshToken
<1> HIDE DEF Used
<1>8. FreshToken \notin Used
  BY <1>4, <1>5, <1>7
<1> QED BY <1>6, <1>8

\* Nor has such a step changed what the spec asks for.
LEMMA SameGateway ==
    ASSUME TypeOK, Undisturbed
    PROVE  /\ computeSecretHash(spec)' = computeSecretHash(spec)
           /\ Watched' = Watched /\ Toggled' = Toggled
           /\ "GatewayToken" \in Watched /\ "ConfigMap" \in Watched /\ "StatefulSet" \in Watched
<1>1. Watched' = Watched
  BY DEF Undisturbed, Watched
<1>2. "GatewayToken" \in Watched /\ "ConfigMap" \in Watched /\ "StatefulSet" \in Watched
  BY LiteralKinds DEF Watched
<1>3. objs'["GatewayToken"] = objs["GatewayToken"]
  BY <1>2 DEF Undisturbed
<1>4. computeSecretHash(spec)' = computeSecretHash(spec)
  BY <1>3 DEF computeSecretHash, Undisturbed
<1>5. Toggled' = Toggled
  BY DEF Undisturbed, Toggled
<1> QED BY <1>1, <1>2, <1>4, <1>5

\* Whether a watched kind agrees with the spec is not changed either.
LEMMA SameAgrees ==
    ASSUME TypeOK, Undisturbed, NEW k \in Watched \ {"S3Mirror", "CronJob"}
    PROVE  Agrees(k)' <=> Agrees(k)
<1>1. /\ computeSecretHash(spec)' = computeSecretHash(spec)
      /\ Watched' = Watched /\ Toggled' = Toggled
  BY SameGateway
<1>2. objs'[k] = objs[k] /\ spec' = spec
  BY DEF Undisturbed
<1>3. CASE k \in DOMAIN Toggled
  BY <1>1, <1>2, <1>3 DEF Agrees
<1>4. CASE k \notin DOMAIN Toggled
  <2>1. Required' = Required
    BY <1>2 DEF Required
  <2>2. CASE k \in DOMAIN Required
    BY <1>1, <1>2, <1>4, <2>1, <2>2 DEF Agrees
  <2>3. CASE k \notin DOMAIN Required /\ k = "ConfigMap"
    BY <1>1, <1>2, <1>4, <2>1, <2>3 DEF Agrees, Undisturbed
  <2>4. CASE k \notin DOMAIN Required /\ k = "StatefulSet"
    BY <1>1, <1>2, <1>4, <2>1, <2>4 DEF Agrees, VolumeClaimTemplates
  <2>5. CASE k \notin DOMAIN Required /\ k \in {"GatewayToken", "PVC", "ChromiumPVC", "BasicAuth"}
    BY <1>1, <1>2, <1>4, <2>1, <2>5 DEF Agrees
  <2>6. \/ k \in DOMAIN Toggled \/ k \in DOMAIN Required
        \/ k \in {"ConfigMap", "StatefulSet", "GatewayToken", "PVC", "ChromiumPVC", "BasicAuth"}
    <3>1. /\ DOMAIN Required = {"ServiceAccount", "Role", "RoleBinding", "MeshState"}
          /\ DOMAIN Toggled = {"NetworkPolicy", "PDB", "HPA", "WorkspaceConfigMap", "Service", "CDPService",
               "Ingress", "HTTPRoute", "ServiceMonitor", "PrometheusRule", "DashboardOperator",
               "DashboardInstance"}
      BY DEF Required, Toggled
    <3>2. PICK i \in 1 .. 28 : k = Steps[i]
      BY StepsAre DEF Watched, Kinds
    <3>3. k \notin {"lookup", "migrate", "status", "S3Mirror", "CronJob", "Middleware"}
      BY DEF Watched, Kinds
    <3>4. \/ i = 1 \/ i = 2 \/ i = 3 \/ i = 4 \/ i = 5 \/ i = 6 \/ i = 7 \/ i = 8 \/ i = 9 \/ i = 10
      \/ i = 11 \/ i = 12 \/ i = 13 \/ i = 14 \/ i = 15 \/ i = 16 \/ i = 17 \/ i = 18 \/ i = 19
      \/ i = 20 \/ i = 21 \/ i = 22 \/ i = 23 \/ i = 24 \/ i = 25 \/ i = 26 \/ i = 27 \/ i = 28
      OBVIOUS
    <3> QED BY <3>1, <3>2, <3>3, <3>4, StepsAre
  <2> QED BY <1>4, <2>2, <2>3, <2>4, <2>5, <2>6
<1> QED BY <1>3, <1>4

\* A step of a pass, or around one, that leaves the request as it is: what is
\* behind the pass stays done, and what it passes must be done.
LEMMA GoesOn ==
    ASSUME IInv, IInv', LInv, status' = status,
           pass'.step >= pass.step, pass.step = 0 => pass'.step = 0,
           pass.step > 0 => pass'.spec = pass.spec /\ pass'.stale = pass.stale,
           ~queue' => Undisturbed,
           deployment # "owned" => deployment' # "owned",
           \A i \in 1 .. pass.step - 1 :
               Steps[i] \in Kinds => (Steps[i] \in pass'.managed <=> Steps[i] \in pass.managed),
           ~queue' => \A i \in 1 .. pass'.step - 1 : i >= pass.step => Kept(Steps[i])',
           ~queue' /\ pass'.step \in {7, 8} => TokenFits',
           CRDsKnown', Shapes'
    PROVE  LStep
<1>1. TypeOK /\ TypeOK'
  BY DEF IInv
<1>2. CASE queue'
  BY <1>2 DEF LStep, LInv, CleanPass, CleanToken, Rests, Asleep
<1>3. CASE ~queue'
  <2>1. Undisturbed /\ ~queue
    BY <1>3 DEF Undisturbed
  <2>2. /\ Watched' = Watched /\ Toggled' = Toggled /\ spec' = spec
        /\ \A k \in Watched \ {"S3Mirror", "CronJob"} : Agrees(k)' <=> Agrees(k)
    BY <1>1, <2>1, SameGateway, SameAgrees DEF Undisturbed
  <2>3. Rests' /\ (Asleep' => Settled)
    <3> SUFFICES ASSUME Asleep' PROVE Settled' /\ Settled
      BY DEF Rests
    <3>1. pass.step = 0 /\ Asleep
      BY <1>1, <2>1, StepsAre DEF Asleep, TypeOK
    <3>2. Settled
      BY <3>1 DEF LInv, Rests
    <3>3. StatusAgrees'
      BY <2>2, <3>2 DEF Settled, StatusAgrees
    <3> QED BY <2>2, <3>2, <3>3 DEF Settled
  <2>4. CleanToken'
    BY <1>3 DEF CleanToken
  <2>5. CleanPass'
    <3> SUFFICES ASSUME pass'.step > 0
                 PROVE  /\ pass'.spec = spec' /\ ~pass'.stale
                        /\ \A i \in 1 .. pass'.step - 1 : Kept(Steps[i])'
      BY DEF CleanPass
    <3>1. pass.step > 0
      BY <1>1, StepsAre DEF TypeOK
    <3>2. /\ pass.spec = spec /\ ~pass.stale
          /\ \A i \in 1 .. pass.step - 1 : Kept(Steps[i])
      BY <2>1, <3>1 DEF LInv, CleanPass
    <3>3. ASSUME NEW i \in 1 .. pass'.step - 1, i < pass.step PROVE Kept(Steps[i])'
      <4>1. i \in 1 .. pass.step - 1 /\ i \in 1 .. 28
        BY <1>1, <3>3, StepsAre DEF TypeOK
      <4>2. Kept(Steps[i])
        BY <3>2, <4>1
      <4>3. Steps[i] \in DOMAIN Toggled => Steps[i] \in Kinds
        BY <4>1, Positions DEF Toggled
      <4>4. Steps[i] \in DOMAIN Toggled \ Unnamed =>
              (Steps[i] \in pass'.managed <=> Steps[i] \in pass.managed)
        BY <4>1, <4>3
      <4> QED BY <2>2, <4>2, <4>4 DEF Kept
    <3> QED BY <1>1, <1>3, <2>2, <3>1, <3>2, <3>3, StepsAre DEF TypeOK
  <2> QED BY <2>3, <2>4, <2>5 DEF LStep, LInv
<1> QED BY <1>2, <1>3

-----------------------------------------------------------------------------
(* The handlers that write one kind *)

\* A step that leaves the tokens in use alone.
LEMMA SameShapes ==
    ASSUME Shapes, objs'["GatewayToken"] = objs["GatewayToken"],
           objs'["StatefulSet"] = objs["StatefulSet"],
           objs'["ConfigMap"] = objs["ConfigMap"] \/ \E c : objs'["ConfigMap"] = {c}
    PROVE  Shapes'
<1>1. \E t : {c.token : c \in objs'["ConfigMap"]} \subseteq {t}
  <2>1. CASE objs'["ConfigMap"] = objs["ConfigMap"]
    BY <2>1 DEF Shapes
  <2>2. ASSUME NEW c, objs'["ConfigMap"] = {c} PROVE {d.token : d \in objs'["ConfigMap"]} \subseteq {c.token}
    BY <2>2
  <2> QED BY <2>1, <2>2
<1> QED BY <1>1 DEF Shapes

\* A pass that fails leaves a request behind.
LEMMA FailsLInv ==
    ASSUME IInv, LInv, NEW written, Fails(written), Shapes'
    PROVE  LStep
<1>1. /\ queue' = TRUE /\ ext' = ext /\ pass' = Idle
      /\ status' \in {status, [status EXCEPT !.managed = pass.managed, !.failed = TRUE]}
  BY DEF Fails
<1>2. pass'.managed = {} /\ status'.managed \subseteq status.managed \cup pass.managed
  BY <1>1 DEF Idle, IInv, TypeOK
<1>3. CRDsKnown'
  BY <1>1, <1>2 DEF LInv, CRDsKnown
<1> QED BY <1>1, <1>3 DEF LStep, LInv, CleanPass, CleanToken, Rests, Asleep

LEMMA RefusedLInv == ASSUME IInv, LInv, Refused PROVE LStep
<1>1. Shapes'
  BY SameShapes DEF LInv, Refused
<1> QED BY <1>1, FailsLInv DEF Refused

\* A step that deletes.
LEMMA FewerShapes ==
    ASSUME Shapes, \A h \in {"GatewayToken", "ConfigMap", "StatefulSet"} : objs'[h] \subseteq objs[h]
    PROVE  Shapes'
<1>1. \E t : objs'["GatewayToken"] \subseteq {t}
  BY DEF Shapes
<1>2. \E t : {c.token : c \in objs'["ConfigMap"]} \subseteq {t}
  <2>1. PICK t : {c.token : c \in objs["ConfigMap"]} \subseteq {t}
    BY DEF Shapes
  <2>2. {c.token : c \in objs'["ConfigMap"]} \subseteq {c.token : c \in objs["ConfigMap"]}
    OBVIOUS
  <2> QED BY <2>1, <2>2
<1>3. \E t : UNION {{h.gateway : h \in c.hash} : c \in objs'["StatefulSet"]} \subseteq {t}
  <2>1. PICK t : UNION {{h.gateway : h \in c.hash} : c \in objs["StatefulSet"]} \subseteq {t}
    BY DEF Shapes
  <2>2. objs'["StatefulSet"] \subseteq objs["StatefulSet"]
    OBVIOUS
  <2> QED BY <2>1, <2>2
<1>4. \A o \in objs'["StatefulSet"] :
         o = [from |-> o.from, templates |-> o.templates, replicas |-> o.replicas, hash |-> o.hash]
  BY DEF Shapes
<1> QED BY <1>1, <1>2, <1>3, <1>4 DEF Shapes

\* The token that fits goes on fitting.
LEMMA SameToken ==
    ASSUME TypeOK, Undisturbed, TokenFits, pass'.token = pass.token
    PROVE  TokenFits'
<1>1. computeSecretHash(spec)' = computeSecretHash(spec) /\ objs'["ConfigMap"] = objs["ConfigMap"]
  BY SameGateway DEF Undisturbed
<1> QED BY <1>1 DEF TokenFits

\* What the handler of kind k must do: if the object is already what it writes
\* then the object is right, and the status will name it rightly.
LEMMA ReconciledLInv ==
    ASSUME IInv, IInv', LInv, NEW k \in Kinds \ {"GatewayToken", "StatefulSet"}, NEW content, NEW named,
           At(k), Reconciled(k, content, named),
           k = "ConfigMap" => \E c : content = {c},
           named /\ k = "HTTPRoute" => "gateway" \in ext.crds,
           named /\ k \in {"ServiceMonitor", "PrometheusRule"} => "prometheus" \in ext.crds,
           ~queue /\ pass.spec = spec /\ k \in Watched \ {"S3Mirror", "CronJob"} /\ objs[k] = content
              => Agrees(k),
           ~queue /\ pass.spec = spec /\ k \in DOMAIN Toggled \ Unnamed => (named <=> Toggled[k])
    PROVE  LStep
<1>1. TypeOK /\ TypeOK' /\ CleanPass /\ CleanToken /\ CRDsKnown /\ Shapes
  BY DEF IInv, LInv
<1>2. /\ objs' = [objs EXCEPT ![k] = content]
      /\ queue' = (queue \/ (k \in Watched /\ content # objs[k]))
      /\ pass' = [pass EXCEPT !.step = @ + 1,
                              !.managed = IF named /\ k \notin Unnamed THEN @ \cup {k} ELSE @ \ {k}]
      /\ UNCHANGED <<spec, status, ext, deployment, cached, disturbed>>
  BY DEF Reconciled
<1>3. objs'[k] = content /\ \A h \in Kinds : h # k => objs'[h] = objs[h]
  BY <1>1, <1>2 DEF TypeOK
<1>4. /\ pass'.step = pass.step + 1 /\ pass'.spec = pass.spec /\ pass'.stale = pass.stale
      /\ pass'.token = pass.token
      /\ pass'.managed = IF named /\ k \notin Unnamed THEN pass.managed \cup {k} ELSE pass.managed \ {k}
  BY <1>1, <1>2 DEF TypeOK
<1>5. pass.step \in 1 .. 28 /\ Steps[pass.step] = k /\ pass.step + 1 \in 1 .. 28
  <2>1. k # "status"
    BY DEF Kinds
  <2> QED BY <1>1, <2>1, AtStep
<1>6. Watched \subseteq Kinds
  BY DEF Watched
<1>7. ASSUME ~queue'
      PROVE  Undisturbed /\ pass.spec = spec /\ (k \in Watched => content = objs[k])
  <2>1. ~queue /\ (k \in Watched => content = objs[k])
    BY <1>2, <1>7
  <2>2. pass.spec = spec
    BY <1>1, <1>5, <2>1 DEF CleanPass
  <2>3. \A h \in Watched : objs'[h] = objs[h]
    BY <1>3, <1>6, <2>1
  <2> QED BY <1>2, <2>1, <2>2, <2>3 DEF Undisturbed
<1>8. CRDsKnown'
  BY <1>1, <1>2, <1>4 DEF CRDsKnown
<1>9. Shapes'
  <2>1. "GatewayToken" \in Kinds /\ "StatefulSet" \in Kinds /\ "ConfigMap" \in Kinds
    BY LiteralKinds
  <2> QED BY <1>1, <1>3, <2>1, SameShapes
<1>10. ASSUME ~queue' PROVE Kept(k)'
  <2>1. Undisturbed /\ pass.spec = spec /\ (k \in Watched => content = objs[k]) /\ ~queue
    BY <1>7, <1>10 DEF Undisturbed
  <2>2. Watched' = Watched /\ Toggled' = Toggled
    BY <1>1, <2>1, SameGateway
  <2>3. k \in Watched' \ {"S3Mirror", "CronJob"} => Agrees(k)'
    BY <1>1, <2>1, <2>2, SameAgrees
  <2>4. k \in DOMAIN Toggled' \ Unnamed => (k \in pass'.managed <=> Toggled'[k])
    BY <1>4, <2>1, <2>2
  <2>5. k # "migrate"
    BY DEF Kinds
  <2> QED BY <2>3, <2>4, <2>5 DEF Kept
<1>11. ASSUME ~queue', pass'.step \in {7, 8} PROVE TokenFits'
  <2>1. pass.step = 7
    BY <1>4, <1>5, <1>11, StepsAre
  <2>2. TokenFits
    BY <1>1, <1>7, <1>11, <2>1 DEF CleanToken, Undisturbed
  <2> QED BY <1>1, <1>4, <1>7, <1>11, <2>2, SameToken
<1>12. ASSUME NEW i \in 1 .. pass.step - 1, Steps[i] \in Kinds
       PROVE  Steps[i] \in pass'.managed <=> Steps[i] \in pass.managed
  <2>1. Steps[i] # k
    BY <1>5, StepsDiffer
  <2> QED BY <1>4, <2>1
<1>13. ASSUME ~queue', NEW i \in 1 .. pass'.step - 1, i >= pass.step PROVE Kept(Steps[i])'
  <2>1. i = pass.step /\ Steps[i] = k
    BY <1>4, <1>5, <1>13
  <2> QED BY <1>10, <1>13, <2>1
<1>14. /\ status' = status /\ pass'.step >= pass.step /\ pass.step # 0
       /\ (deployment # "owned" => deployment' # "owned")
  BY <1>2, <1>4, <1>5
<1> QED
  BY <1>4, <1>7, <1>8, <1>9, <1>11, <1>12, <1>13, <1>14, GoesOn

LEMMA Domains ==
    /\ {"NetworkPolicy", "PDB", "HPA", "WorkspaceConfigMap", "Service", "CDPService", "Ingress",
        "HTTPRoute", "ServiceMonitor", "PrometheusRule", "DashboardOperator", "DashboardInstance"}
       = DOMAIN Toggled
    /\ {"ServiceAccount", "Role", "RoleBinding", "MeshState"} = DOMAIN Required
BY DEF Toggled, Required

\* When the kinds of either sort agree with the spec.
LEMMA ToggledAgrees ==
    ASSUME NEW k \in DOMAIN Toggled, objs[k] = IF Toggled[k] THEN {spec} ELSE {}
    PROVE  Agrees(k)
BY Domains DEF Agrees

LEMMA RequiredAgrees ==
    ASSUME NEW k \in DOMAIN Required, Required[k] => objs[k] = {spec}
    PROVE  Agrees(k)
BY DEF Agrees, Required, Toggled

\* The handler of a kind that is there exactly while the spec asks for it.
LEMMA ToggledLInv ==
    ASSUME IInv, IInv', LInv, NEW k \in Kinds, NEW enabled, createOrDelete(k, enabled),
           k \in DOMAIN Toggled, pass.spec = spec => (enabled <=> Toggled[k]),
           enabled /\ k = "HTTPRoute" => "gateway" \in ext.crds,
           enabled /\ k \in {"ServiceMonitor", "PrometheusRule"} => "prometheus" \in ext.crds
    PROVE  LStep
<1> DEFINE content == IF enabled THEN {pass.spec} ELSE {}
<1>1. At(k) /\ Reconciled(k, content, enabled)
  BY DEF createOrDelete
<1>2. k \notin {"GatewayToken", "StatefulSet", "ConfigMap"}
  BY DEF Toggled
<1>3. pass.spec = spec /\ objs[k] = content => Agrees(k)
  BY ToggledAgrees
<1> HIDE DEF content
<1> QED BY <1>1, <1>2, <1>3, ReconciledLInv

\* The handler of a kind that stays when the spec stops asking for it.
LEMMA RequiredLInv ==
    ASSUME IInv, IInv', LInv, NEW k \in Kinds, NEW enabled, createOrKeep(k, enabled),
           k \in DOMAIN Required, pass.spec = spec => (enabled <=> Required[k])
    PROVE  LStep
<1>1. PICK content, named : /\ At(k) /\ Reconciled(k, content, named)
                            /\ enabled => content = {pass.spec}
  BY DEF createOrKeep
<1>2. k \notin {"GatewayToken", "StatefulSet", "ConfigMap", "HTTPRoute", "ServiceMonitor", "PrometheusRule"}
      /\ k \notin DOMAIN Toggled
  BY DEF Required, Toggled
<1>3. pass.spec = spec /\ objs[k] = content => Agrees(k)
  BY <1>1, RequiredAgrees
<1> QED BY <1>1, <1>2, <1>3, ReconciledLInv

\* The fields of the two functions, for a pass that holds the current spec.
LEMMA Asked ==
    ASSUME TypeOK, pass.spec = spec
    PROVE  /\ Toggled["NetworkPolicy"] <=> pass.spec.policy
           /\ Toggled["PDB"] <=> pass.spec.pdb
           /\ Toggled["HPA"] <=> pass.spec.hpa
           /\ Toggled["WorkspaceConfigMap"] /\ Toggled["Service"]
           /\ Toggled["CDPService"] <=> pass.spec.browser # "off"
           /\ Toggled["Ingress"] <=> pass.spec.ingress # "off"
           /\ Toggled["HTTPRoute"] <=> pass.spec.route /\ "gateway" \in ext.crds
           /\ Toggled["ServiceMonitor"]
                <=> pass.spec.monitor /\ pass.spec.metrics /\ "prometheus" \in ext.crds
           /\ Toggled["PrometheusRule"] <=> pass.spec.rule /\ "prometheus" \in ext.crds
           /\ Toggled["DashboardOperator"] <=> pass.spec.dashboards
           /\ Toggled["DashboardInstance"] <=> pass.spec.dashboards
           /\ \A k \in {"ServiceAccount", "Role", "RoleBinding"} : Required[k] <=> pass.spec.account
           /\ Required["MeshState"] <=> pass.spec.mesh
<1>1. /\ spec.policy \in BOOLEAN /\ spec.pdb \in BOOLEAN /\ spec.hpa \in BOOLEAN /\ spec.route \in BOOLEAN
      /\ spec.monitor \in BOOLEAN /\ spec.metrics \in BOOLEAN /\ spec.rule \in BOOLEAN
      /\ spec.dashboards \in BOOLEAN /\ spec.account \in BOOLEAN /\ spec.mesh \in BOOLEAN
  BY DEF TypeOK, validate, SpecSet
<1>2. /\ Toggled["NetworkPolicy"] <=> spec.policy
      /\ Toggled["PDB"] <=> spec.pdb
      /\ Toggled["HPA"] <=> spec.hpa
      /\ Toggled["WorkspaceConfigMap"] /\ Toggled["Service"]
      /\ Toggled["DashboardOperator"] <=> spec.dashboards
      /\ Toggled["DashboardInstance"] <=> spec.dashboards
  BY <1>1 DEF Toggled
<1>3. (Toggled["CDPService"] <=> spec.browser # "off") /\ (Toggled["Ingress"] <=> spec.ingress # "off")
  BY DEF Toggled
<1>4. Toggled["HTTPRoute"] <=> spec.route /\ "gateway" \in ext.crds
  BY <1>1 DEF Toggled
<1>5. Toggled["ServiceMonitor"] <=> spec.monitor /\ spec.metrics /\ "prometheus" \in ext.crds
  BY <1>1 DEF Toggled
<1>6. Toggled["PrometheusRule"] <=> spec.rule /\ "prometheus" \in ext.crds
  BY <1>1 DEF Toggled
<1>7. /\ \A k \in {"ServiceAccount", "Role", "RoleBinding"} : Required[k] <=> spec.account
      /\ Required["MeshState"] <=> spec.mesh
  BY <1>1 DEF Required
<1> QED BY <1>2, <1>3, <1>4, <1>5, <1>6, <1>7

LEMMA PlainLInv == ASSUME IInv, IInv', LInv, Plain PROVE LStep
<1>0. TypeOK
  BY DEF IInv
<1>1. ASSUME NEW k \in {"ServiceAccount", "Role", "RoleBinding"}, createOrKeep(k, pass.spec.account)
      PROVE  LStep
  <2>1. k \in Kinds /\ k \in DOMAIN Required /\ (pass.spec = spec => (pass.spec.account <=> Required[k]))
    BY <1>0, LiteralKinds, Asked, Domains
  <2> QED BY <1>1, <2>1, RequiredLInv
<1>2. ASSUME reconcileNetworkPolicy PROVE LStep
  BY <1>0, <1>2, LiteralKinds, Asked, Domains, ToggledLInv DEF reconcileNetworkPolicy
<1>3. ASSUME reconcileMeshStateSecret PROVE LStep
  BY <1>0, <1>3, LiteralKinds, Asked, Domains, RequiredLInv DEF reconcileMeshStateSecret
<1>4. ASSUME reconcileWorkspaceConfigMap PROVE LStep
  BY <1>0, <1>4, LiteralKinds, Asked, Domains, ToggledLInv DEF reconcileWorkspaceConfigMap
<1>5. ASSUME reconcilePDB PROVE LStep
  BY <1>0, <1>5, LiteralKinds, Asked, Domains, ToggledLInv DEF reconcilePDB
<1>6. ASSUME reconcileHPA PROVE LStep
  BY <1>0, <1>6, LiteralKinds, Asked, Domains, ToggledLInv DEF reconcileHPA
<1>7. ASSUME reconcileService PROVE LStep
  BY <1>0, <1>7, LiteralKinds, Asked, Domains, ToggledLInv DEF reconcileService
<1>8. ASSUME reconcileChromiumCDPService PROVE LStep
  <2>1. "CDPService" \in Kinds /\ "CDPService" \in DOMAIN Toggled
        /\ (pass.spec = spec => ((pass.spec.browser # "off") <=> Toggled["CDPService"]))
    BY <1>0, LiteralKinds, Asked, Domains
  <2> QED BY <1>8, <2>1, ToggledLInv DEF reconcileChromiumCDPService
<1>9. ASSUME reconcileBasicAuthSecret PROVE LStep
  <2>1. PICK content, named : /\ At("BasicAuth") /\ Reconciled("BasicAuth", content, named)
                              /\ pass.spec.ingress \in {"auth", "traefik"} => content # {}
    BY <1>9 DEF reconcileBasicAuthSecret, createOnce
  <2>2. pass.spec = spec /\ objs["BasicAuth"] = content => Agrees("BasicAuth")
    BY <2>1, Domains DEF Agrees
  <2> QED BY <2>1, <2>2, LiteralKinds, Domains, ReconciledLInv
<1>10. ASSUME reconcileIngress PROVE LStep
  <2>1. "Ingress" \in Kinds /\ "Ingress" \in DOMAIN Toggled
        /\ (pass.spec = spec => ((pass.spec.ingress # "off") <=> Toggled["Ingress"]))
    BY <1>0, LiteralKinds, Asked, Domains
  <2> QED BY <1>10, <2>1, ToggledLInv DEF reconcileIngress
<1>11. ASSUME NEW k \in {"DashboardOperator", "DashboardInstance"}, createOrDelete(k, pass.spec.dashboards)
       PROVE  LStep
  <2>1. k \in Kinds /\ k \in DOMAIN Toggled /\ (pass.spec = spec => (pass.spec.dashboards <=> Toggled[k]))
    BY <1>0, LiteralKinds, Asked, Domains
  <2> QED BY <1>11, <2>1, ToggledLInv
<1> QED
  BY <1>1, <1>2, <1>3, <1>4, <1>5, <1>6, <1>7, <1>8, <1>9, <1>10, <1>11
     DEF Plain, reconcileRBAC, reconcileGrafanaDashboards

\* Without the CustomResourceDefinition nothing is written or named.
LEMMA SkipLInv ==
    ASSUME IInv, IInv', LInv, NEW k \in {"HTTPRoute", "ServiceMonitor", "PrometheusRule"},
           NEW crd, crd = IF k = "HTTPRoute" THEN "gateway" ELSE "prometheus",
           NEW enabled, createOrSkip(k, crd, enabled),
           pass.spec = spec => (Toggled[k] <=> enabled /\ crd \in ext.crds)
    PROVE  LStep
<1>1. k \in Kinds /\ k \in DOMAIN Toggled
  BY LiteralKinds, Domains
<1>2. CASE crd \in ext.crds
  BY <1>1, <1>2, ToggledLInv DEF createOrSkip
<1>3. CASE crd \notin ext.crds
  <2>1. k \notin pass.managed
    BY <1>3 DEF LInv, CRDsKnown
  <2>2. PICK named : At(k) /\ Reconciled(k, objs[k], named) /\ ~named
    BY <1>3, <2>1 DEF createOrSkip
  <2>3. k \notin Watched
    BY <1>3 DEF Watched
  <2> QED BY <1>1, <1>3, <2>2, <2>3, ReconciledLInv
<1> QED BY <1>2, <1>3

LEMMA OptionalLInv ==
    ASSUME IInv, IInv', LInv,
           \/ reconcileHTTPRoute \/ reconcileServiceMonitor \/ reconcilePrometheusRule
           \/ reconcileTraefikBasicAuthMiddleware
    PROVE  LStep
<1>0. TypeOK
  BY DEF IInv
<1>1. ASSUME reconcileHTTPRoute PROVE LStep
  BY <1>0, <1>1, Asked, SkipLInv DEF reconcileHTTPRoute
<1>2. ASSUME reconcileServiceMonitor PROVE LStep
  <2>1. pass.spec = spec =>
          (Toggled["ServiceMonitor"]
             <=> (pass.spec.monitor /\ pass.spec.metrics) /\ "prometheus" \in ext.crds)
    BY <1>0, Asked
  <2> QED BY <1>2, <2>1, SkipLInv DEF reconcileServiceMonitor
<1>3. ASSUME reconcilePrometheusRule PROVE LStep
  BY <1>0, <1>3, Asked, SkipLInv DEF reconcilePrometheusRule
<1>4. ASSUME reconcileTraefikBasicAuthMiddleware PROVE LStep
  <2>1. PICK content, named : At("Middleware") /\ Reconciled("Middleware", content, named)
    BY <1>4 DEF reconcileTraefikBasicAuthMiddleware, createOrKeep
  <2>2. "Middleware" \notin Watched /\ "Middleware" \notin DOMAIN Toggled
    BY Domains DEF Watched
  <2> QED BY <2>1, <2>2, LiteralKinds, ReconciledLInv
<1> QED BY <1>1, <1>2, <1>3, <1>4

\* The ConfigMap that is already there carries the right token: a new token
\* would have differed.
LEMMA ConfigMapLInv == ASSUME IInv, IInv', LInv, reconcileConfigMap PROVE LStep
<1>1. TypeOK /\ At("ConfigMap") /\ CleanToken
  BY DEF IInv, LInv, reconcileConfigMap
<1>2. CASE Refused
  BY <1>2, RefusedLInv
<1>3. CASE ~Refused
  <2> DEFINE c == [from |-> pass.spec, token |-> pass.token,
                   config |-> IF pass.spec.config = "ref" THEN ext.config ELSE 0]
  <2>1. Reconciled("ConfigMap", {c}, TRUE)
    BY <1>3 DEF reconcileConfigMap
  <2>2. pass.step = 8
    BY <1>1, AtStep, StepsDiffer, StepsAre
  <2>3. ASSUME ~queue, pass.spec = spec, objs["ConfigMap"] = {c} PROVE Agrees("ConfigMap")
    <3>1. TokenFits /\ c.token = pass.token
      BY <1>1, <2>2, <2>3 DEF CleanToken
    <3>2. pass.token = computeSecretHash(spec).gateway
      BY <2>3, <3>1 DEF TokenFits
    <3> QED BY <2>3, <3>2, Domains DEF Agrees
  <2>4. "ConfigMap" \notin DOMAIN Toggled /\ "ConfigMap" \in Kinds \ {"GatewayToken", "StatefulSet"}
    BY Domains, LiteralKinds
  <2> HIDE DEF c
  <2>5. ~queue /\ pass.spec = spec /\ objs["ConfigMap"] = {c} => Agrees("ConfigMap")
    BY <2>3
  <2> QED BY <1>1, <2>1, <2>4, <2>5, ReconciledLInv
<1> QED BY <1>2, <1>3

LEMMA PVCLInv == ASSUME IInv, IInv', LInv, reconcilePVC PROVE LStep
<1>1. \/ Refused
      \/ \E content, named : /\ At("PVC") /\ Reconciled("PVC", content, named)
                             /\ pass.spec.data = "own" /\ ~pass.spec.hpa => content # {}
  BY DEF reconcilePVC
<1>2. CASE Refused
  BY <1>2, RefusedLInv
<1>3. CASE \E content, named : /\ At("PVC") /\ Reconciled("PVC", content, named)
                               /\ pass.spec.data = "own" /\ ~pass.spec.hpa => content # {}
  <2>1. PICK content, named : /\ At("PVC") /\ Reconciled("PVC", content, named)
                              /\ pass.spec.data = "own" /\ ~pass.spec.hpa => content # {}
    BY <1>3
  <2>2. pass.spec = spec /\ objs["PVC"] = content => Agrees("PVC")
    BY <2>1, Domains DEF Agrees
  <2> QED BY <2>1, <2>2, LiteralKinds, Domains, ReconciledLInv
<1> QED BY <1>1, <1>2, <1>3

LEMMA ChromiumPVCLInv == ASSUME IInv, IInv', LInv, reconcileChromiumPVC PROVE LStep
<1>1. PICK content, named : /\ At("ChromiumPVC") /\ Reconciled("ChromiumPVC", content, named)
                            /\ pass.spec.browser = "own" => content # {}
  BY DEF reconcileChromiumPVC
<1>2. pass.spec = spec /\ objs["ChromiumPVC"] = content => Agrees("ChromiumPVC")
  BY <1>1, Domains DEF Agrees
<1> QED BY <1>1, <1>2, LiteralKinds, Domains, ReconciledLInv

LEMMA CronJobLInv == ASSUME IInv, IInv', LInv, reconcileBackupCronJob PROVE LStep
<1>1. PICK content, named : At("CronJob") /\ Reconciled("CronJob", content, named)
  BY DEF reconcileBackupCronJob
<1> QED BY <1>1, LiteralKinds, Domains, ReconciledLInv

-----------------------------------------------------------------------------
(* The other handlers *)

\* The token's Secret is found: two steps at once.
LEMMA LookupLInv == ASSUME IInv, IInv', LInv, lookupGatewayToken PROVE LStep
<1> DEFINE found == IF pass.spec.token = "theirs" THEN {ext.secret} \ {0}
                    ELSE IF cached THEN objs["GatewayToken"] ELSE {}
<1>1. TypeOK /\ CleanPass /\ CRDsKnown /\ Shapes /\ At("lookup")
  BY DEF IInv, LInv, lookupGatewayToken
<1>2. pass.step = 5 /\ Steps[5] = "lookup" /\ Steps[6] = "GatewayToken"
  BY <1>1, AtStep, StepsAre
<1>3. CASE Refused
  BY <1>3, RefusedLInv
<1>4. ASSUME UNCHANGED <<spec, status, ext, objs, deployment, queue, cached, disturbed>>
      PROVE  /\ ~queue' => Undisturbed /\ pass.spec = spec
             /\ status' = status /\ (deployment # "owned" => deployment' # "owned") /\ Shapes'
             /\ ~queue' => Watched' = Watched /\ Toggled' = Toggled
  <2>1. Shapes'
    BY <1>1, <1>4, SameShapes
  <2>2. ~queue' => Undisturbed /\ pass.spec = spec
    BY <1>1, <1>2, <1>4 DEF Undisturbed, CleanPass
  <2> QED BY <1>1, <1>4, <2>1, <2>2, SameGateway
<1>5. ASSUME NEW k \in {"lookup", "GatewayToken"}
      PROVE  /\ k \notin DOMAIN Toggled /\ k # "migrate"
             /\ k = "lookup" => k \notin Watched
  BY Domains DEF Watched, Kinds
<1>6. CASE pass' = [pass EXCEPT !.step = @ + 1]
           /\ UNCHANGED <<spec, status, ext, objs, deployment, queue, cached, disturbed>>
  <2>1. /\ pass'.step = 6 /\ pass'.spec = pass.spec /\ pass'.stale = pass.stale
        /\ pass'.managed = pass.managed
    BY <1>1, <1>2, <1>6 DEF TypeOK
  <2>2. CRDsKnown'
    BY <1>1, <1>6, <2>1 DEF CRDsKnown
  <2>3. ASSUME ~queue' PROVE Kept("lookup")'
    BY <1>4, <1>5, <1>6, <2>3 DEF Kept
  <2>4. ASSUME ~queue', NEW i \in 1 .. pass'.step - 1, i >= pass.step PROVE Kept(Steps[i])'
    <3>1. i = 5
      BY <1>2, <2>1, <2>4
    <3> QED BY <1>2, <2>3, <2>4, <3>1
  <2>5. /\ pass'.step >= pass.step /\ pass.step # 0 /\ pass'.step \notin {7, 8}
    BY <1>2, <2>1
  <2> QED BY <1>4, <1>6, <2>1, <2>2, <2>4, <2>5, GoesOn
<1>7. CASE /\ found # {}
           /\ pass' = [pass EXCEPT !.step = @ + 2, !.token = CHOOSE t \in found : TRUE,
                                   !.managed = @ \cup {"GatewayToken"}]
           /\ UNCHANGED <<spec, status, ext, objs, deployment, queue, cached, disturbed>>
  <2>1. /\ pass'.step = 7 /\ pass'.spec = pass.spec /\ pass'.stale = pass.stale
        /\ pass'.token \in found /\ pass'.managed = pass.managed \cup {"GatewayToken"}
    <3>1. PICK t : t = CHOOSE x \in found : TRUE
      OBVIOUS
    <3>2. pass' = [pass EXCEPT !.step = @ + 2, !.token = t, !.managed = @ \cup {"GatewayToken"}]
          /\ found # {}
      BY <1>7, <3>1
    <3> HIDE DEF found
    <3>3. t \in found
      BY <3>1, <3>2
    <3> QED BY <1>1, <1>2, <3>2, <3>3 DEF TypeOK
  <2>2. CRDsKnown'
    BY <1>1, <1>7, <2>1 DEF CRDsKnown
  <2>3. ASSUME ~queue' PROVE Kept("lookup")'
    BY <1>4, <1>5, <1>7, <2>3 DEF Kept
  <2>4. ASSUME ~queue' PROVE Kept("GatewayToken")'
    <3>1. spec.token = "generated" => objs["GatewayToken"] # {}
      BY <1>4, <1>7, <2>4
    <3>2. Agrees("GatewayToken")'
      BY <1>7, <3>1, Domains, <1>4, <2>4 DEF Agrees, Toggled, Required
    <3> QED BY <1>4, <1>5, <1>7, <2>4, <3>2 DEF Kept
  <2>5. ASSUME ~queue', NEW i \in 1 .. pass'.step - 1, i >= pass.step PROVE Kept(Steps[i])'
    <3>1. i = 5 \/ i = 6
      BY <1>2, <2>1, <2>5
    <3> QED BY <1>2, <2>3, <2>4, <2>5, <3>1
  <2>6. ASSUME ~queue' PROVE TokenFits'
    <3>1. Undisturbed /\ pass.spec = spec
      BY <1>4, <1>7, <2>6
    <3>2. pass'.token = computeSecretHash(spec).gateway
      <4>1. CASE pass.spec.token = "theirs"
        BY <2>1, <3>1, <4>1 DEF computeSecretHash
      <4>2. CASE pass.spec.token # "theirs"
        <5>1. found = objs["GatewayToken"] /\ objs["GatewayToken"] # {}
          BY <1>7, <4>2
        <5>2. PICK t : objs["GatewayToken"] = {t}
          <6>1. PICK t : objs["GatewayToken"] \subseteq {t}
            BY <1>1 DEF Shapes
          <6>2. objs["GatewayToken"] = {t}
            BY <5>1, <6>1
          <6> QED BY <6>2
        <5>3. computeSecretHash(spec).gateway = t
          BY <3>1, <4>2, <5>2 DEF computeSecretHash
        <5> QED BY <2>1, <5>1, <5>2, <5>3
      <4> QED BY <4>1, <4>2
    <3>3. computeSecretHash(spec)' = computeSecretHash(spec)
      BY <1>1, <3>1, SameGateway
    <3> QED BY <3>2, <3>3 DEF TokenFits
  <2>7. ASSUME NEW i \in 1 .. pass.step - 1, Steps[i] \in Kinds
        PROVE  Steps[i] \in pass'.managed <=> Steps[i] \in pass.managed
    <3>1. Steps[i] # "GatewayToken"
      BY <1>2, StepsDiffer
    <3> QED BY <2>1, <3>1
  <2>8. pass'.step >= pass.step /\ pass.step # 0
    BY <1>2, <2>1
  <2> QED BY <1>4, <1>7, <2>1, <2>2, <2>5, <2>6, <2>7, <2>8, GoesOn
<1> QED
  BY <1>3, <1>6, <1>7 DEF lookupGatewayToken

LEMMA GatewayTokenLInv == ASSUME IInv, IInv', LInv, reconcileGatewayTokenSecret PROVE LStep
<1>1. TypeOK /\ CleanPass /\ CRDsKnown /\ Shapes /\ At("GatewayToken")
  BY DEF IInv, LInv, reconcileGatewayTokenSecret
<1>2. CASE Refused
  BY <1>2, RefusedLInv
<1>3. CASE ~Refused
  <2>1. /\ objs' = [objs EXCEPT !["GatewayToken"] = tokenStored(FreshToken)]
        /\ queue' = (queue \/ objs["GatewayToken"] = {})
        /\ pass' = [pass EXCEPT !.step = @ + 1, !.token = FreshToken,
                                !.managed = @ \cup {"GatewayToken"}]
        /\ UNCHANGED <<spec, status, ext, deployment, disturbed>>
    BY <1>3 DEF reconcileGatewayTokenSecret
  <2>2. pass.step = 6 /\ Steps[6] = "GatewayToken"
    BY <1>1, AtStep, StepsDiffer, StepsAre
  <2>3. /\ pass'.step = 7 /\ pass'.spec = pass.spec /\ pass'.stale = pass.stale
        /\ pass'.token = FreshToken /\ pass'.managed = pass.managed \cup {"GatewayToken"}
    BY <1>1, <2>1, <2>2 DEF TypeOK
  <2>4. /\ objs'["GatewayToken"] = tokenStored(FreshToken)
        /\ \A h \in Kinds : h # "GatewayToken" => objs'[h] = objs[h]
    BY <1>1, <2>1, LiteralKinds DEF TypeOK
  <2>5. Shapes'
    <3>1. \E t : objs'["GatewayToken"] \subseteq {t}
      BY <1>1, <2>4 DEF Shapes, tokenStored
    <3>2. objs'["ConfigMap"] = objs["ConfigMap"] /\ objs'["StatefulSet"] = objs["StatefulSet"]
      BY <2>4, LiteralKinds
    <3> QED BY <1>1, <3>1, <3>2 DEF Shapes
  <2>6. CRDsKnown'
    BY <1>1, <2>1, <2>3 DEF CRDsKnown
  <2>7. ASSUME ~queue' PROVE Undisturbed /\ objs' = objs
    <3>1. ~queue /\ tokenStored(FreshToken) = objs["GatewayToken"]
      BY <2>1, <2>7 DEF tokenStored
    <3>2. objs' = objs
      BY <1>1, <2>1, <3>1 DEF TypeOK
    <3> QED BY <2>1, <3>1, <3>2 DEF Undisturbed
  <2>8. ASSUME ~queue', NEW i \in 1 .. pass'.step - 1, i >= pass.step PROVE Kept(Steps[i])'
    <3>1. i = 6 /\ Steps[i] = "GatewayToken"
      <4>1. i = 6
        BY <2>2, <2>3, <2>8
      <4> QED BY <2>2, <4>1
    <3>2. objs'["GatewayToken"] # {}
      BY <2>1, <2>7, <2>8
    <3>3. Agrees("GatewayToken")'
      BY <3>2 DEF Agrees, Toggled, Required
    <3>4. "GatewayToken" \notin DOMAIN Toggled /\ Toggled' = Toggled
      BY <1>1, <2>7, <2>8, SameGateway, Domains
    <3> QED BY <3>1, <3>3, <3>4 DEF Kept
  <2>9. TokenFits'
    <3>1. objs'["ConfigMap"] = objs["ConfigMap"]
      BY <2>4, LiteralKinds
    <3> QED BY <1>1, <2>3, <3>1, FreshIsFresh DEF TokenFits
  <2>10. ASSUME NEW i \in 1 .. pass.step - 1, Steps[i] \in Kinds
         PROVE  Steps[i] \in pass'.managed <=> Steps[i] \in pass.managed
    <3>1. Steps[i] # "GatewayToken"
      BY <2>2, StepsDiffer
    <3> QED BY <2>3, <3>1
  <2>11. pass'.step >= pass.step /\ pass.step # 0
    BY <2>2, <2>3
  <2> QED BY <2>1, <2>3, <2>5, <2>6, <2>7, <2>8, <2>9, <2>10, <2>11, GoesOn
<1> QED BY <1>2, <1>3

LEMMA MigrateLInv == ASSUME IInv, IInv', LInv, migrateDeploymentToStatefulSet PROVE LStep
<1>1. TypeOK /\ CleanPass /\ CRDsKnown /\ Shapes
  BY DEF IInv, LInv
<1>2. /\ At("migrate") /\ deployment' = Migrated /\ pass' = [pass EXCEPT !.step = @ + 1]
      /\ UNCHANGED <<spec, status, ext, objs, queue, cached, disturbed>>
  BY DEF migrateDeploymentToStatefulSet
<1>3. /\ pass'.step = pass.step + 1 /\ pass'.spec = pass.spec /\ pass'.stale = pass.stale
      /\ pass'.managed = pass.managed /\ deployment' # "owned"
  BY <1>1, <1>2 DEF TypeOK, Migrated
<1>4. pass.step = 14 /\ Steps[14] = "migrate"
  BY <1>1, <1>2, AtStep, StepsDiffer, StepsAre
<1>5. Shapes' /\ CRDsKnown'
  BY <1>1, <1>2, <1>3, SameShapes DEF CRDsKnown
<1>6. ~queue' => Undisturbed
  BY <1>2 DEF Undisturbed
<1>7. ASSUME ~queue', NEW i \in 1 .. pass'.step - 1, i >= pass.step PROVE Kept(Steps[i])'
  <2>1. Steps[i] = "migrate"
    BY <1>3, <1>4, <1>7
  <2>2. "migrate" \notin Watched' /\ "migrate" \notin DOMAIN Toggled'
    BY <1>1, <1>6, <1>7, SameGateway, Domains DEF Watched, Kinds
  <2> QED BY <1>3, <2>1, <2>2 DEF Kept
<1>8. pass'.step >= pass.step /\ pass.step # 0 /\ pass'.step \notin {7, 8}
  BY <1>3, <1>4
<1> QED BY <1>2, <1>3, <1>5, <1>6, <1>7, <1>8, GoesOn

LEMMA S3MirrorLInv == ASSUME IInv, IInv', LInv, reconcileS3MirrorSecret PROVE LStep
<1>1. TypeOK /\ CleanPass /\ CRDsKnown /\ Shapes
  BY DEF IInv, LInv
<1>2. /\ At("S3Mirror")
      /\ objs' = objs \/ objs' = [objs EXCEPT !["S3Mirror"] = {pass.spec}]
      /\ queue' = (queue \/ objs' # objs)
      /\ pass' = [pass EXCEPT !.step = @ + 1, !.creds = ext.s3]
      /\ UNCHANGED <<spec, status, ext, deployment, cached, disturbed>>
  BY DEF reconcileS3MirrorSecret
<1>3. /\ pass'.step = pass.step + 1 /\ pass'.spec = pass.spec /\ pass'.stale = pass.stale
      /\ pass'.managed = pass.managed
  BY <1>1, <1>2 DEF TypeOK
<1>4. pass.step = 16 /\ Steps[16] = "S3Mirror"
  BY <1>1, <1>2, AtStep, StepsDiffer, StepsAre
<1>5. \A h \in Kinds : h # "S3Mirror" => objs'[h] = objs[h]
  BY <1>1, <1>2 DEF TypeOK
<1>6. Shapes' /\ CRDsKnown'
  BY <1>1, <1>2, <1>3, <1>5, LiteralKinds, SameShapes DEF CRDsKnown
<1>7. ~queue' => Undisturbed
  BY <1>2 DEF Undisturbed
<1>8. ASSUME ~queue', NEW i \in 1 .. pass'.step - 1, i >= pass.step PROVE Kept(Steps[i])'
  <2>1. Steps[i] = "S3Mirror"
    BY <1>3, <1>4, <1>8
  <2>2. "S3Mirror" \notin DOMAIN Toggled'
    BY <1>1, <1>7, <1>8, SameGateway, Domains
  <2> QED BY <2>1, <2>2 DEF Kept
<1>9. pass'.step >= pass.step /\ pass.step # 0 /\ pass'.step \notin {7, 8}
  BY <1>3, <1>4
<1>10. deployment' = deployment /\ status' = status
  BY <1>2
<1> QED BY <1>3, <1>6, <1>7, <1>8, <1>9, <1>10, GoesOn

\* The StatefulSet that is written is the one wanted, also without the hash.
LEMMA StatefulSetLInv ==
    ASSUME IInv, IInv', LInv, NEW hash, hash \in {{}, {computeSecretHash(pass.spec)}},
           reconcileStatefulSet(hash)
    PROVE  LStep
<1>1. TypeOK /\ CleanPass /\ CRDsKnown /\ Shapes /\ At("StatefulSet")
  BY DEF IInv, LInv, reconcileStatefulSet
<1>2. CASE Fails(TRUE) /\ objs' \in {objs, [objs EXCEPT !["StatefulSet"] = {}]}
  <2>1. \A h \in {"GatewayToken", "ConfigMap", "StatefulSet"} : objs'[h] \subseteq objs[h]
    BY <1>1, <1>2, LiteralKinds DEF TypeOK
  <2> QED BY <1>1, <1>2, <2>1, FewerShapes, FailsLInv
<1>3. CASE ~(Fails(TRUE) /\ objs' \in {objs, [objs EXCEPT !["StatefulSet"] = {}]})
  <2>1. PICK c :
          /\ c = [from |-> pass.spec, templates |-> VolumeClaimTemplates(pass.spec),
                  replicas |-> statefulSetReplicas(pass.spec, objs["StatefulSet"]), hash |-> hash]
          /\ objs' = [objs EXCEPT !["StatefulSet"] = {c}]
          /\ queue' = (queue \/ objs' # objs)
          /\ pass' = [pass EXCEPT !.step = @ + 1, !.managed = @ \cup {"StatefulSet"}]
          /\ UNCHANGED <<spec, status, ext, deployment, cached>>
    BY <1>3 DEF reconcileStatefulSet
  <2>2. c.from = pass.spec /\ c.templates = VolumeClaimTemplates(pass.spec) /\ c.hash = hash
        /\ c = [from |-> c.from, templates |-> c.templates, replicas |-> c.replicas, hash |-> c.hash]
    BY <2>1
  <2>3. /\ pass'.step = pass.step + 1 /\ pass'.spec = pass.spec /\ pass'.stale = pass.stale
        /\ pass'.managed = pass.managed \cup {"StatefulSet"}
    BY <1>1, <2>1 DEF TypeOK
  <2>4. pass.step = 15 /\ Steps[15] = "StatefulSet"
    BY <1>1, AtStep, StepsDiffer, StepsAre
  <2>5. /\ objs'["StatefulSet"] = {c}
        /\ \A h \in Kinds : h # "StatefulSet" => objs'[h] = objs[h]
    BY <1>1, <2>1, LiteralKinds DEF TypeOK
  <2>6. Shapes'
    <3>1. objs'["GatewayToken"] = objs["GatewayToken"] /\ objs'["ConfigMap"] = objs["ConfigMap"]
      BY <2>5, LiteralKinds
    <3>2. UNION {{h.gateway : h \in d.hash} : d \in objs'["StatefulSet"]}
            \subseteq {computeSecretHash(pass.spec).gateway}
      BY <2>2, <2>5
    <3>3. \A o \in objs'["StatefulSet"] :
             o = [from |-> o.from, templates |-> o.templates, replicas |-> o.replicas, hash |-> o.hash]
      BY <2>2, <2>5
    <3>4. \E t : UNION {{h.gateway : h \in d.hash} : d \in objs'["StatefulSet"]} \subseteq {t}
      BY <3>2
    <3> QED BY <1>1, <3>1, <3>3, <3>4 DEF Shapes
  <2>7. CRDsKnown'
    BY <1>1, <2>1, <2>3 DEF CRDsKnown
  <2>8. ASSUME ~queue' PROVE Undisturbed /\ objs' = objs /\ pass.spec = spec
    <3>1. ~queue /\ objs' = objs
      BY <2>1, <2>8
    <3> QED BY <1>1, <2>1, <2>4, <3>1 DEF Undisturbed, CleanPass
  <2>9. ASSUME ~queue' PROVE Kept("StatefulSet")'
    <3>1. objs["StatefulSet"] = {c} /\ pass.spec = spec
      BY <2>5, <2>8, <2>9
    <3>2. Agrees("StatefulSet")
      BY <2>2, <3>1, Domains DEF Agrees
    <3>3. Agrees("StatefulSet")'
      <4>1. "StatefulSet" \in Watched \ {"S3Mirror", "CronJob"}
        BY <1>1, <2>8, <2>9, SameGateway
      <4> QED BY <1>1, <2>8, <2>9, <3>2, <4>1, SameAgrees
    <3>4. "StatefulSet" \notin DOMAIN Toggled'
      BY <1>1, <2>8, <2>9, SameGateway, Domains
    <3> QED BY <3>3, <3>4 DEF Kept
  <2>10. ASSUME ~queue', NEW i \in 1 .. pass'.step - 1, i >= pass.step PROVE Kept(Steps[i])'
    <3>1. i = 15
      BY <2>3, <2>4, <2>10
    <3> QED BY <2>4, <2>9, <2>10, <3>1
  <2>11. ASSUME NEW i \in 1 .. pass.step - 1, Steps[i] \in Kinds
         PROVE  Steps[i] \in pass'.managed <=> Steps[i] \in pass.managed
    <3>1. Steps[i] # "StatefulSet"
      BY <2>4, StepsDiffer
    <3> QED BY <2>3, <3>1
  <2>12. /\ pass'.step >= pass.step /\ pass.step # 0 /\ pass'.step \notin {7, 8}
         /\ status' = status /\ (deployment # "owned" => deployment' # "owned")
    BY <2>1, <2>3, <2>4
  <2> QED BY <2>3, <2>6, <2>7, <2>8, <2>10, <2>11, <2>12, GoesOn
<1> QED BY <1>2, <1>3

\* All is done, and the status says so: only then does the pass end quietly.
LEMMA StatusLInv == ASSUME IInv, IInv', LInv, updateStatus PROVE LStep
<1>1. TypeOK /\ CleanPass /\ CRDsKnown /\ Shapes /\ At("status")
  BY DEF IInv, LInv, updateStatus
<1> DEFINE written == [managed |-> pass.managed, observed |-> {pass.spec}, failed |-> FALSE]
<1>2. /\ status' = (IF pass.stale THEN status ELSE written) /\ queue' = (queue \/ written # status)
      /\ pass' = Idle
      /\ UNCHANGED <<spec, ext, objs, deployment, cached, disturbed>>
  BY DEF updateStatus
<1>3. pass.step = 28
  BY <1>1, AtStep, Positions
<1>4. pass'.step = 0 /\ pass'.managed = {}
  BY <1>2 DEF Idle
<1>5. Shapes' /\ CRDsKnown'
  BY <1>1, <1>2, <1>4, SameShapes DEF CRDsKnown
<1>6. ASSUME ~queue' PROVE Settled /\ Settled'
  <2>1. ~queue /\ written = status
    BY <1>2, <1>6
  <2>2. pass.spec = spec /\ \A i \in 1 .. 27 : Kept(Steps[i])
    BY <1>1, <1>3, <2>1 DEF CleanPass
  <2>3. /\ status.managed = pass.managed /\ status.observed = {spec} /\ ~status.failed
        /\ status' = status
    BY <1>2, <2>1, <2>2
  <2>4. \A k \in Kinds : \E i \in 1 .. 27 : k = Steps[i]
    <3> SUFFICES ASSUME NEW k \in Kinds PROVE \E i \in 1 .. 27 : k = Steps[i]
      OBVIOUS
    <3>1. PICK i \in 1 .. 28 : k = Steps[i]
      BY StepsAre DEF Kinds
    <3>2. i # 28
      BY <3>1, StepsAre DEF Kinds
    <3> QED BY <3>1, <3>2
  <2>5. StatusAgrees
    <3>1. \A k \in DOMAIN Toggled : k \in Kinds
      BY Domains, LiteralKinds
    <3> QED BY <2>2, <2>3, <2>4, <3>1 DEF StatusAgrees, Kept
  <2>6. deployment # "owned"
    BY <2>2, StepsAre DEF Kept
  <2>7. \A k \in Watched \ {"S3Mirror", "CronJob"} : Agrees(k)
    BY <2>2, <2>4 DEF Kept, Watched
  <2>8. Undisturbed
    BY <1>2, <2>1 DEF Undisturbed
  <2>9. StatusAgrees'
    BY <1>1, <1>2, <2>3, <2>5, <2>8, SameGateway DEF StatusAgrees
  <2>10. \A k \in (Watched \ {"S3Mirror", "CronJob"})' : Agrees(k)'
    BY <1>1, <2>7, <2>8, SameGateway, SameAgrees
  <2> QED BY <1>2, <2>5, <2>6, <2>7, <2>9, <2>10 DEF Settled
<1>7. (Asleep' => Settled) /\ Rests'
  BY <1>6 DEF Asleep, Rests
<1> QED BY <1>4, <1>5, <1>7 DEF LStep, LInv, CleanPass, CleanToken

LEMMA HandlerLInv == ASSUME IInv, IInv', LInv, Handler PROVE LStep
<1>1. ASSUME StatefulSetReconciled PROVE LStep
  <2>1. reconcileStatefulSet({computeSecretHash(pass.spec)})
    BY <1>1 DEF StatefulSetReconciled
  <2>2. {computeSecretHash(pass.spec)} \in {{}, {computeSecretHash(pass.spec)}}
    OBVIOUS
  <2> QED BY <2>1, <2>2, StatefulSetLInv
<1>2. \/ Plain \/ reconcileHTTPRoute \/ reconcileServiceMonitor \/ reconcilePrometheusRule
      \/ reconcileTraefikBasicAuthMiddleware \/ reconcileConfigMap \/ reconcilePVC
      \/ reconcileChromiumPVC \/ reconcileBackupCronJob \/ lookupGatewayToken
      \/ reconcileGatewayTokenSecret \/ migrateDeploymentToStatefulSet \/ StatefulSetReconciled
      \/ reconcileS3MirrorSecret \/ updateStatus
  BY DEF Handler, Plain
<1> QED
  BY <1>1, <1>2, PlainLInv, OptionalLInv, ConfigMapLInv, PVCLInv, ChromiumPVCLInv, CronJobLInv,
     LookupLInv, GatewayTokenLInv, MigrateLInv, S3MirrorLInv, StatusLInv

-----------------------------------------------------------------------------
(* The queue, faults and the world *)

\* Changes around a pass.
LEMMA AroundLInv ==
    ASSUME IInv, IInv', LInv, UNCHANGED <<spec, status, deployment, pass>>, ext'.crds = ext.crds,
           ~queue' => Undisturbed, Shapes'
    PROVE  LStep
<1>1. TypeOK /\ CleanToken /\ CRDsKnown
  BY DEF IInv, LInv
<1>2. CRDsKnown'
  BY <1>1 DEF CRDsKnown
<1>3. ~queue' /\ pass'.step \in {7, 8} => TokenFits'
  BY <1>1, SameToken DEF CleanToken, Undisturbed
<1>4. pass.step \in 0 .. 28
  BY <1>1, StepsAre DEF TypeOK
<1>5. pass'.step >= pass.step /\ \A i \in 1 .. pass'.step - 1 : ~(i >= pass.step)
  BY <1>4
<1>6. /\ status' = status /\ (deployment # "owned" => deployment' # "owned")
      /\ pass'.spec = pass.spec /\ pass'.stale = pass.stale /\ pass'.managed = pass.managed
      /\ (pass.step = 0 => pass'.step = 0)
  OBVIOUS
<1> QED BY <1>2, <1>3, <1>5, <1>6, GoesOn

LEMMA BeginPassLInv == ASSUME IInv, IInv', LInv, BeginPass PROVE LStep
<1>1. /\ pass'.step = 1 /\ pass'.spec = spec' /\ pass'.stale = FALSE /\ pass'.managed = status.managed
      /\ UNCHANGED <<spec, status, ext, objs>>
  BY DEF BeginPass
<1>2. CRDsKnown' /\ Shapes'
  BY <1>1, SameShapes DEF LInv, CRDsKnown
<1> QED BY <1>1, <1>2 DEF LStep, LInv, CleanPass, CleanToken, Rests, Asleep

LEMMA UserEditsLInv == ASSUME IInv, IInv', LInv, UserEdits PROVE LStep
<1>1. queue' = TRUE /\ UNCHANGED <<status, ext, objs>> /\ \E s : pass' = Overtaken(s)
  BY DEF UserEdits
<1>2. pass'.managed = pass.managed
  BY <1>1 DEF Overtaken, IInv, TypeOK
<1>3. CRDsKnown' /\ Shapes'
  BY <1>1, <1>2, SameShapes DEF LInv, CRDsKnown
<1> QED BY <1>1, <1>3 DEF LStep, LInv, CleanPass, CleanToken, Rests, Asleep

\* A change of an object of the user wakes the operator if the spec names it.
LEMMA ChangedLInv ==
    ASSUME IInv, IInv', LInv, NEW field, NEW v, NEW wakes, Changed(field, v, wakes),
           field \in {"secret", "credential", "config", "claim", "s3"},
           field = "secret" /\ spec.token = "theirs" => wakes,
           field = "credential" /\ spec.mesh => wakes,
           field = "config" /\ spec.config = "ref" => wakes
    PROVE  LStep
<1>1. /\ ext' = [ext EXCEPT ![field] = v] /\ queue' = (queue \/ wakes)
      /\ UNCHANGED <<spec, status, objs, deployment, pass, cached>>
  BY DEF Changed
<1>2. /\ ext'.crds = ext.crds
      /\ field # "secret" => ext'.secret = ext.secret
      /\ field # "credential" => ext'.credential = ext.credential
      /\ field # "config" => ext'.config = ext.config
  BY <1>1 DEF IInv, TypeOK
<1>3. Shapes'
  BY <1>1, SameShapes DEF LInv
<1>4. ~queue' => Undisturbed
  BY <1>1, <1>2 DEF Undisturbed
<1> QED BY <1>1, <1>2, <1>3, <1>4, AroundLInv

LEMMA WorldLInv ==
    ASSUME IInv, IInv', LInv, \/ SecretChanges \/ CredentialChanges \/ ConfigChanges
                              \/ ClaimChanges \/ S3CredentialsChange
    PROVE  LStep
<1>1. ASSUME SecretChanges PROVE LStep
  <2>1. PICK v : Changed("secret", v, findInstancesForSecret("secret"))
    BY <1>1 DEF SecretChanges
  <2>2. spec.token = "theirs" => findInstancesForSecret("secret")
    BY DEF findInstancesForSecret
  <2> QED BY <2>1, <2>2, ChangedLInv
<1>2. ASSUME CredentialChanges PROVE LStep
  <2>1. PICK v : Changed("credential", v, findInstancesForSecret("credential"))
    BY <1>2 DEF CredentialChanges
  <2>2. spec.mesh => findInstancesForSecret("credential")
    BY DEF findInstancesForSecret
  <2> QED BY <2>1, <2>2, ChangedLInv
<1>3. ASSUME ConfigChanges PROVE LStep
  <2>1. PICK v : Changed("config", v, findInstancesForConfigMap)
    BY <1>3 DEF ConfigChanges
  <2>2. spec.config = "ref" => findInstancesForConfigMap
    BY DEF findInstancesForConfigMap
  <2> QED BY <2>1, <2>2, ChangedLInv
<1>4. ASSUME ClaimChanges PROVE LStep
  BY <1>4, ChangedLInv DEF ClaimChanges
<1>5. ASSUME S3CredentialsChange PROVE LStep
  BY <1>5, ChangedLInv DEF S3CredentialsChange
<1> QED BY <1>1, <1>2, <1>3, <1>4, <1>5

LEMMA DriftLInv == ASSUME IInv, IInv', LInv, Drift PROVE LStep
<1>1. PICK k \in DriftKinds : /\ objs' = [objs EXCEPT ![k] = {}]
                              /\ queue' = (queue \/ k \in Watched)
  BY DEF Drift
<1>2. UNCHANGED <<spec, status, ext, deployment, pass, cached>>
  BY DEF Drift
<1>3. \A h \in Kinds : objs'[h] = objs[h] \/ (h = k /\ objs'[h] = {})
  BY <1>1 DEF IInv, TypeOK
<1>4. Shapes'
  <2>1. \A h \in {"GatewayToken", "ConfigMap", "StatefulSet"} : objs'[h] \subseteq objs[h]
    BY <1>3, LiteralKinds
  <2> QED BY <2>1, FewerShapes DEF LInv
<1>5. ~queue' => Undisturbed
  <2>1. Watched \subseteq Kinds
    BY DEF Watched
  <2> QED BY <1>1, <1>2, <1>3, <2>1 DEF Undisturbed
<1> QED BY <1>2, <1>4, <1>5, AroundLInv

LEMMA HPAScalesLInv == ASSUME IInv, IInv', LInv, HPAScales PROVE LStep
<1>1. PICK o \in objs["StatefulSet"] :
         \E n \in 1 .. 2 : objs' = [objs EXCEPT !["StatefulSet"] = {[o EXCEPT !.replicas = n]}]
  BY DEF HPAScales
<1>2. PICK n \in 1 .. 2 : objs' = [objs EXCEPT !["StatefulSet"] = {[o EXCEPT !.replicas = n]}]
  BY <1>1
<1>3. queue' = TRUE /\ UNCHANGED <<spec, status, ext, deployment, pass, cached>>
  BY DEF HPAScales
<1>4. o = [from |-> o.from, templates |-> o.templates, replicas |-> o.replicas, hash |-> o.hash]
  BY DEF LInv, Shapes
<1>5. PICK c : c = [o EXCEPT !.replicas = n]
  OBVIOUS
<1>6. c.hash = o.hash
      /\ c = [from |-> c.from, templates |-> c.templates, replicas |-> c.replicas, hash |-> c.hash]
  BY <1>4, <1>5
<1>7. /\ objs'["StatefulSet"] = {c} /\ objs'["GatewayToken"] = objs["GatewayToken"]
      /\ objs'["ConfigMap"] = objs["ConfigMap"]
  BY <1>2, <1>5, LiteralKinds DEF IInv, TypeOK
<1>8. Shapes'
  <2>1. PICK t : UNION {{h.gateway : h \in d.hash} : d \in objs["StatefulSet"]} \subseteq {t}
    BY DEF LInv, Shapes
  <2>2. UNION {{h.gateway : h \in d.hash} : d \in objs'["StatefulSet"]} \subseteq {t}
    BY <1>6, <1>7, <2>1
  <2>3. \A d \in objs'["StatefulSet"] :
           d = [from |-> d.from, templates |-> d.templates, replicas |-> d.replicas, hash |-> d.hash]
    BY <1>6, <1>7
  <2>4. \E x : UNION {{h.gateway : h \in d.hash} : d \in objs'["StatefulSet"]} \subseteq {x}
    BY <2>2
  <2> QED BY <1>7, <2>3, <2>4 DEF LInv, Shapes
<1> QED BY <1>3, <1>8, AroundLInv

LEMMA FaultsLInv ==
    ASSUME IInv, IInv', LInv, CallFails \/ HashFails \/ OperatorRestarts \/ CacheSyncs
    PROVE  LStep
<1>1. ASSUME UNCHANGED objs PROVE Shapes'
  BY <1>1, SameShapes DEF LInv
<1>2. ASSUME CallFails PROVE LStep
  BY <1>1, <1>2, FailsLInv DEF CallFails
<1>3. ASSUME HashFails PROVE LStep
  BY <1>3, StatefulSetLInv DEF HashFails
<1>4. ASSUME OperatorRestarts PROVE LStep
  <2>1. queue' = TRUE /\ UNCHANGED <<status, ext, objs>> /\ pass'.managed = {}
    BY <1>4 DEF OperatorRestarts, Idle
  <2>2. CRDsKnown'
    BY <2>1 DEF LInv, CRDsKnown
  <2> QED BY <1>1, <2>1, <2>2 DEF LStep, LInv, CleanPass, CleanToken, Rests, Asleep
<1>5. ASSUME CacheSyncs PROVE LStep
  <2>1. UNCHANGED <<spec, status, ext, objs, deployment, pass, queue, disturbed>>
    BY <1>5 DEF CacheSyncs
  <2> QED BY <1>1, <2>1, AroundLInv DEF Undisturbed
<1> QED BY <1>2, <1>3, <1>4, <1>5

LEMMA StutterLInv == ASSUME IInv, IInv', LInv, UNCHANGED vars PROVE LStep
<1>1. UNCHANGED <<spec, status, ext, objs, deployment, pass, queue, cached, disturbed>>
  BY DEF vars
<1>2. Shapes'
  BY <1>1, SameShapes DEF LInv
<1> QED BY <1>1, <1>2, AroundLInv DEF Undisturbed

LEMMA NextLInv == ASSUME IInv, IInv', LInv, [Next]_vars PROVE LStep
BY StutterLInv, BeginPassLInv, HandlerLInv, FaultsLInv, UserEditsLInv, WorldLInv, DriftLInv,
   HPAScalesLInv DEF Next

LEMMA InitLInv == ASSUME Init PROVE LInv
<1>1. /\ pass.step = 0 /\ pass.managed = {} /\ status.managed = {} /\ queue = TRUE
      /\ objs = [k \in Kinds |-> {}]
  BY DEF Init, Idle
<1>2. objs["GatewayToken"] = {} /\ objs["ConfigMap"] = {} /\ objs["StatefulSet"] = {}
  BY <1>1, LiteralKinds
<1>3. Shapes
  BY <1>2 DEF Shapes
<1> QED BY <1>1, <1>3 DEF LInv, CleanPass, CleanToken, Rests, Asleep, CRDsKnown

-----------------------------------------------------------------------------
(* The theorems *)

\* The invariant holds in every state.
THEOREM LevelInvariance == Spec => []LInv
<1>1. Init => LInv
  BY InitLInv
<1>2. IInv /\ IInv' /\ LInv /\ [Next]_vars => LInv'
  BY NextLInv DEF LStep
<1> QED BY <1>1, <1>2, Invariance, PTL DEF Spec

\* Refinement: whatever the user edits, rotates or deletes, and wherever a
\* pass fails or is cut short, the operator goes to sleep only when nothing
\* that it watches differs from the spec, and whatever makes it differ wakes
\* the operator.
THEOREM SleepIsEarned == Spec => LevelTriggeredSpec
<1>1. Init => Level!Init
  BY DEF Init, Level!Init, Asleep
<1>2. IInv /\ IInv' /\ LInv /\ [Next]_vars => [Level!Next]_<<~Settled, Asleep>>
  <2> SUFFICES ASSUME IInv, IInv', LInv, [Next]_vars
               PROVE  [Level!Next]_<<~Settled, Asleep>>
    OBVIOUS
  <2>1. (Asleep => Settled) /\ (Asleep' => Settled') /\ (Asleep' => Settled)
    BY NextLInv DEF LStep, LInv, Rests
  <2>2. CASE ~Asleep /\ ~Asleep'
    BY <2>2 DEF Level!Next, Level!Work
  <2>3. CASE ~Asleep /\ Asleep'
    BY <2>1, <2>3 DEF Level!Next, Level!Sleep
  <2>4. CASE Asleep /\ Asleep'
    BY <2>1, <2>4
  <2>5. CASE Asleep /\ ~Asleep'
    <3>1. CASE Settled'
      <4>1. Level!Wake
        BY <2>1, <2>5, <3>1 DEF Level!Wake
      <4> QED BY <4>1 DEF Level!Next
    <3>2. CASE ~Settled'
      <4>1. Level!Disturb
        BY <2>5, <3>2 DEF Level!Disturb
      <4> QED BY <4>1 DEF Level!Next
    <3> QED BY <3>1, <3>2
  <2> QED BY <2>2, <2>3, <2>4, <2>5
<1> QED
  BY <1>1, <1>2, Invariance, LevelInvariance, PTL DEF Spec, LevelTriggeredSpec, Level!Spec
=============================================================================
