------------------------- MODULE Manifests_proofs -------------------------
(***************************************************************************)
(* What the manifests promise, for every spec the webhook admits.          *)
(***************************************************************************)
EXTENDS Manifests, SequenceTheorems, FiniteSetTheorems, TLAPS

-----------------------------------------------------------------------------
(* The fields of a spec. *)

\* The groups of fields have no field in common.
LEMMA FieldsOf ==
    ASSUME NEW x
    PROVE  /\ x \in DOMAIN StorageFields => x \in DOMAIN Fields /\ Fields[x] = StorageFields[x]
           /\ x \in DOMAIN SecurityFields => x \in DOMAIN Fields /\ Fields[x] = SecurityFields[x]
           /\ x \in DOMAIN SidecarFields => x \in DOMAIN Fields /\ Fields[x] = SidecarFields[x]
           /\ x \in DOMAIN NetworkingFields => x \in DOMAIN Fields /\ Fields[x] = NetworkingFields[x]
           /\ x \in DOMAIN ConfigFields => x \in DOMAIN Fields /\ Fields[x] = ConfigFields[x]
           /\ x \in DOMAIN WorkloadFields => x \in DOMAIN Fields /\ Fields[x] = WorkloadFields[x]
           /\ x \in DOMAIN ImageFields => x \in DOMAIN Fields /\ Fields[x] = ImageFields[x]
<1> DEFINE F2 == StorageFields ++ SecurityFields
           F3 == F2 ++ SidecarFields
           F4 == F3 ++ NetworkingFields
           F5 == F4 ++ ConfigFields
           F6 == F5 ++ WorkloadFields
<1>1. x \in DOMAIN SecurityFields => x \notin DOMAIN StorageFields
  BY DEF StorageFields, SecurityFields
<1>2. x \in DOMAIN SidecarFields => x \notin DOMAIN StorageFields /\ x \notin DOMAIN SecurityFields
  BY DEF StorageFields, SecurityFields, SidecarFields
<1>3. x \in DOMAIN NetworkingFields =>
        x \notin DOMAIN StorageFields /\ x \notin DOMAIN SecurityFields /\ x \notin DOMAIN SidecarFields
  BY DEF StorageFields, SecurityFields, SidecarFields, NetworkingFields
<1>4. x \in DOMAIN ConfigFields =>
        /\ x \notin DOMAIN StorageFields /\ x \notin DOMAIN SecurityFields
        /\ x \notin DOMAIN SidecarFields /\ x \notin DOMAIN NetworkingFields
  BY DEF StorageFields, SecurityFields, SidecarFields, NetworkingFields, ConfigFields
<1>5. x \in DOMAIN WorkloadFields =>
        /\ x \notin DOMAIN StorageFields /\ x \notin DOMAIN SecurityFields
        /\ x \notin DOMAIN SidecarFields /\ x \notin DOMAIN NetworkingFields
        /\ x \notin DOMAIN ConfigFields
  BY DEF StorageFields, SecurityFields, SidecarFields, NetworkingFields, ConfigFields, WorkloadFields
<1>6. x \in DOMAIN ImageFields =>
        /\ x \notin DOMAIN StorageFields /\ x \notin DOMAIN SecurityFields
        /\ x \notin DOMAIN SidecarFields /\ x \notin DOMAIN NetworkingFields
        /\ x \notin DOMAIN ConfigFields /\ x \notin DOMAIN WorkloadFields
  BY DEF StorageFields, SecurityFields, SidecarFields, NetworkingFields, ConfigFields, WorkloadFields, ImageFields
<1> HIDE DEF F6
<1>a1. /\ x \in DOMAIN F6 => x \in DOMAIN Fields /\ Fields[x] = F6[x]
       /\ x \in DOMAIN ImageFields /\ x \notin DOMAIN F6 => x \in DOMAIN Fields /\ Fields[x] = ImageFields[x]
  BY DEF Fields, F6, ++
<1> HIDE DEF F5
<1>b1. /\ x \in DOMAIN F5 => x \in DOMAIN F6 /\ F6[x] = F5[x]
       /\ x \in DOMAIN WorkloadFields /\ x \notin DOMAIN F5 => x \in DOMAIN F6 /\ F6[x] = WorkloadFields[x]
       /\ x \in DOMAIN F6 => x \in DOMAIN F5 \/ x \in DOMAIN WorkloadFields
  BY DEF F6, ++
<1> HIDE DEF F4
<1>c1. /\ x \in DOMAIN F4 => x \in DOMAIN F5 /\ F5[x] = F4[x]
       /\ x \in DOMAIN ConfigFields /\ x \notin DOMAIN F4 => x \in DOMAIN F5 /\ F5[x] = ConfigFields[x]
       /\ x \in DOMAIN F5 => x \in DOMAIN F4 \/ x \in DOMAIN ConfigFields
  BY DEF F5, ++
<1> HIDE DEF F3
<1>d1. /\ x \in DOMAIN F3 => x \in DOMAIN F4 /\ F4[x] = F3[x]
       /\ x \in DOMAIN NetworkingFields /\ x \notin DOMAIN F3 => x \in DOMAIN F4 /\ F4[x] = NetworkingFields[x]
       /\ x \in DOMAIN F4 => x \in DOMAIN F3 \/ x \in DOMAIN NetworkingFields
  BY DEF F4, ++
<1> HIDE DEF F2
<1>e1. /\ x \in DOMAIN F2 => x \in DOMAIN F3 /\ F3[x] = F2[x]
       /\ x \in DOMAIN SidecarFields /\ x \notin DOMAIN F2 => x \in DOMAIN F3 /\ F3[x] = SidecarFields[x]
       /\ x \in DOMAIN F3 => x \in DOMAIN F2 \/ x \in DOMAIN SidecarFields
  BY DEF F3, ++
<1>f1. /\ x \in DOMAIN StorageFields => x \in DOMAIN F2 /\ F2[x] = StorageFields[x]
       /\ x \in DOMAIN SecurityFields /\ x \notin DOMAIN StorageFields => x \in DOMAIN F2 /\ F2[x] = SecurityFields[x]
       /\ x \in DOMAIN F2 => x \in DOMAIN StorageFields \/ x \in DOMAIN SecurityFields
  BY DEF F2, ++
<1> QED
  BY <1>1, <1>2, <1>3, <1>4, <1>5, <1>6, <1>a1, <1>b1, <1>c1, <1>d1, <1>e1, <1>f1

\* What the builders read, with the values it may have.
LEMMA SpecValues ==
    ASSUME NEW s, IsSpec(s)
    PROVE  /\ s.persistence \in BOOLEAN /\ s.existingClaim \in BOOLEAN /\ s.fixOwnership \in BOOLEAN
           /\ s.podRunAsUser \in {Unset, Root, DefaultUser, 2000}
           /\ s.podRunAsNonRoot \in {"unset", "true", "false"}
           /\ s.containerRunAsUser \in {Unset, Root, 3000}
           /\ s.containerRunAsNonRoot \in {"unset", "true", "false"}
           /\ s.caBundle \in {"none", "empty", "configMap", "secret", "both"}
           /\ s.gatewayProxy \in BOOLEAN /\ s.netbird \in BOOLEAN /\ s.metrics \in BOOLEAN
           /\ s.chromium \in {"off", "on", "persistent"}
           /\ s.tailscale \in {"off", "on", "sso"}
           /\ s.ollama \in {"off", "on", "models"}
           /\ s.webTerminal \in {"off", "on", "readOnly"}
           /\ s.metricsPort \in {Unset, 9464, ChromiumPort}
           /\ s.servicePorts \in {"none", "own", "metrics"}
           /\ s.ingressPort \in {Unset, WebTerminalPort}
           /\ s.raw \in UserConfigs
           /\ s.configMapRef \in BOOLEAN
           /\ s.autoScaling \in BOOLEAN /\ s.selfConfigure \in BOOLEAN
<1>1. /\ s.persistence \in BOOLEAN /\ s.existingClaim \in BOOLEAN /\ s.fixOwnership \in BOOLEAN
  BY FieldsOf DEF IsSpec, StorageFields
<1>2. /\ s.podRunAsUser \in {Unset, Root, DefaultUser, 2000}
      /\ s.podRunAsNonRoot \in {"unset", "true", "false"}
      /\ s.containerRunAsUser \in {Unset, Root, 3000}
      /\ s.containerRunAsNonRoot \in {"unset", "true", "false"}
      /\ s.caBundle \in {"none", "empty", "configMap", "secret", "both"}
  BY FieldsOf DEF IsSpec, SecurityFields
<1>3. /\ s.gatewayProxy \in BOOLEAN /\ s.netbird \in BOOLEAN /\ s.metrics \in BOOLEAN
      /\ s.chromium \in {"off", "on", "persistent"}
      /\ s.tailscale \in {"off", "on", "sso"}
      /\ s.ollama \in {"off", "on", "models"}
      /\ s.webTerminal \in {"off", "on", "readOnly"}
      /\ s.metricsPort \in {Unset, 9464, ChromiumPort}
  BY FieldsOf DEF IsSpec, SidecarFields
<1>4. /\ s.servicePorts \in {"none", "own", "metrics"}
      /\ s.ingressPort \in {Unset, WebTerminalPort}
  BY FieldsOf DEF IsSpec, NetworkingFields
<1>5. /\ s.raw \in UserConfigs
      /\ s.configMapRef \in BOOLEAN
  BY FieldsOf DEF IsSpec, ConfigFields
<1>6. s.autoScaling \in BOOLEAN /\ s.selfConfigure \in BOOLEAN
  BY FieldsOf DEF IsSpec, WorkloadFields
<1> QED
  BY <1>1, <1>2, <1>3, <1>4, <1>5, <1>6

LEMMA InitContainerNames ==
    ASSUME NEW s, IsSpec(s)
    PROVE  IsFiniteSet(s.initContainers) /\ s.initContainers \subseteq {"fetch", "init-config", ""}
<1> DEFINE names == WorkloadFields.initContainers
<1>1. "initContainers" \in DOMAIN WorkloadFields /\ names = {{}, {"fetch"}, {"init-config"}, {""}}
  BY DEF WorkloadFields
<1>2. s.initContainers \in names
  BY <1>1, FieldsOf DEF IsSpec
<1> HIDE DEF names
<1>3. \/ s.initContainers = {} \/ s.initContainers = {"fetch"}
      \/ s.initContainers = {"init-config"} \/ s.initContainers = {""}
  BY <1>1, <1>2
<1> QED
  BY ZenonT(60), <1>3, FS_EmptySet, FS_Singleton

-----------------------------------------------------------------------------
(* The init containers as a set. *)

LEMMA ElementsOfConcat ==
    ASSUME NEW S, NEW p \in Seq(S), NEW q \in Seq(S)
    PROVE  /\ p \o q \in Seq(S)
           /\ ToSet(p \o q) = ToSet(p) \cup ToSet(q)
<1>1. /\ p \o q \in Seq(S)
      /\ Len(p \o q) = Len(p) + Len(q)
      /\ \A i \in 1 .. Len(p) : (p \o q)[i] = p[i]
      /\ \A i \in 1 .. Len(q) : (p \o q)[Len(p) + i] = q[i]
  BY ConcatProperties
<1>2. /\ DOMAIN p = 1 .. Len(p) /\ DOMAIN q = 1 .. Len(q)
      /\ DOMAIN (p \o q) = 1 .. Len(p) + Len(q)
      /\ Len(p) \in Nat /\ Len(q) \in Nat
  BY <1>1
<1>3. ASSUME NEW x \in ToSet(p \o q) PROVE x \in ToSet(p) \cup ToSet(q)
  <2>1. PICK i \in DOMAIN (p \o q) : x = (p \o q)[i]
    BY DEF ToSet
  <2>2. CASE i <= Len(p)
    BY <1>1, <1>2, <2>1, <2>2 DEF ToSet
  <2>3. CASE i > Len(p)
    <3>1. i - Len(p) \in 1 .. Len(q) /\ i = Len(p) + (i - Len(p))
      BY <1>2, <2>1, <2>3
    <3> QED
      BY <1>1, <1>2, <2>1, <3>1 DEF ToSet
  <2> QED
    BY <1>2, <2>1, <2>2, <2>3
<1>4. ASSUME NEW x \in ToSet(p) PROVE x \in ToSet(p \o q)
  BY <1>1, <1>2 DEF ToSet
<1>5. ASSUME NEW x \in ToSet(q) PROVE x \in ToSet(p \o q)
  <2>1. PICK i \in 1 .. Len(q) : x = q[i]
    BY <1>2 DEF ToSet
  <2>2. Len(p) + i \in 1 .. Len(p) + Len(q)
    BY <1>2
  <2> QED
    BY <1>1, <1>2, <2>1, <2>2 DEF ToSet
<1> QED
  BY <1>1, <1>3, <1>4, <1>5

LEMMA ElementsOfSetToSeq ==
    ASSUME NEW T, IsFiniteSet(T)
    PROVE  /\ SetToSeq(T) \in Seq(T)
           /\ ToSet(SetToSeq(T)) = T
<1> DEFINE n == Cardinality(T)
           Numbering(f) == f \in [1 .. n -> T] /\ IsInjective(f)
<1>1. n \in Nat /\ \E f \in [1 .. n -> T] : IsInjective(f)
  BY FS_CardinalityType DEF ExistsBijection, Bijection, Injection
<1>2. SetToSeq(T) \in [1 .. n -> T] /\ IsInjective(SetToSeq(T))
  BY <1>1 DEF SetToSeq
<1>3. SetToSeq(T) \in Surjection(1 .. n, T)
  <2>1. Cardinality(1 .. n) = n
    BY <1>1, FS_Interval
  <2>2. SetToSeq(T) \in Injection(1 .. n, T)
    BY <1>2 DEF Injection
  <2> QED
    BY <2>1, <2>2, FS_Injection
<1>4. ToSet(SetToSeq(T)) = T
  BY <1>2, <1>3 DEF ToSet, Surjection
<1> QED
  BY <1>1, <1>2, <1>4

(* The operator's own init containers, before the helpers take the gateway's user. *)
OwnInit(s) ==
    When(IsDataOwnershipFixEnabled(s), {buildDataOwnerInitContainer(s)})
      \cup {buildConfigInitContainer(s), buildUvInitContainer(s), buildPipInitContainer(s),
            buildPluginRuntimeDepsInitContainer(s)}
      \cup When(ActiveMeshProvider(s) = "tailscale", {buildTailscaleBinInitContainer(s)})
      \cup When(s.pnpm, {buildPnpmInitContainer(s)})
      \cup When(s.python, {buildPythonInitContainer(s)})
      \cup When(FilterNonPackSkills(s) # {}, {buildSkillsInitContainer(s)})
      \cup When(hasPlugins(s) /\ pluginInstallReadOnly(s),
                {buildPluginScratchInitContainer(buildPluginsInitContainer(s))})
      \cup When(hasPlugins(s), {buildPluginsInitContainer(s)})

LEMMA OwnInitContainersAre ==
    ASSUME NEW s
    PROVE  \E S : OwnInitContainers(s) \in Seq(S) /\ ToSet(OwnInitContainers(s)) = OwnInit(s)
<1> DEFINE c1 == buildDataOwnerInitContainer(s)
           c2 == buildConfigInitContainer(s)
           c3 == buildTailscaleBinInitContainer(s)
           c4 == buildUvInitContainer(s)
           c5 == buildPipInitContainer(s)
           c6 == buildPluginRuntimeDepsInitContainer(s)
           c7 == buildPnpmInitContainer(s)
           c8 == buildPythonInitContainer(s)
           c9 == buildSkillsInitContainer(s)
           c10 == buildPluginScratchInitContainer(buildPluginsInitContainer(s))
           c11 == buildPluginsInitContainer(s)
           S == {c1, c2, c3, c4, c5, c6, c7, c8, c9, c10, c11}
           q1 == Opt(IsDataOwnershipFixEnabled(s), c1)
           q2 == <<c2>>
           q3 == Opt(ActiveMeshProvider(s) = "tailscale", c3)
           q4 == <<c4, c5, c6>>
           q5 == Opt(s.pnpm, c7)
           q6 == Opt(s.python, c8)
           q7 == Opt(FilterNonPackSkills(s) # {}, c9)
           q8 == Opt(hasPlugins(s) /\ pluginInstallReadOnly(s), c10)
           q9 == Opt(hasPlugins(s), c11)
           p2 == q1 \o q2
           p3 == p2 \o q3
           p4 == p3 \o q4
           p5 == p4 \o q5
           p6 == p5 \o q6
           p7 == p6 \o q7
           p8 == p7 \o q8
           p9 == p8 \o q9
<1>0. OwnInitContainers(s) = p9
  BY DEF OwnInitContainers
<1> HIDE DEF c1, c2, c3, c4, c5, c6, c7, c8, c9, c10, c11
<1>a. /\ c1 \in S /\ c2 \in S /\ c3 \in S /\ c4 \in S /\ c5 \in S /\ c6 \in S /\ c7 \in S
      /\ c8 \in S /\ c9 \in S /\ c10 \in S /\ c11 \in S
  OBVIOUS
<1> HIDE DEF S
<1>q1. q1 \in Seq(S) /\ ToSet(q1) = When(IsDataOwnershipFixEnabled(s), {c1})
  BY <1>a DEF Opt, When, ToSet
<1>q2. q2 \in Seq(S) /\ ToSet(q2) = {c2}
  BY <1>a DEF ToSet
<1>q3. q3 \in Seq(S) /\ ToSet(q3) = When(ActiveMeshProvider(s) = "tailscale", {c3})
  BY <1>a DEF Opt, When, ToSet
<1>q4. q4 \in Seq(S) /\ ToSet(q4) = {c4, c5, c6}
  BY <1>a DEF ToSet
<1>q5. q5 \in Seq(S) /\ ToSet(q5) = When(s.pnpm, {c7})
  BY <1>a DEF Opt, When, ToSet
<1>q6. q6 \in Seq(S) /\ ToSet(q6) = When(s.python, {c8})
  BY <1>a DEF Opt, When, ToSet
<1>q7. q7 \in Seq(S) /\ ToSet(q7) = When(FilterNonPackSkills(s) # {}, {c9})
  BY <1>a DEF Opt, When, ToSet
<1>q8. q8 \in Seq(S) /\ ToSet(q8) = When(hasPlugins(s) /\ pluginInstallReadOnly(s), {c10})
  BY <1>a DEF Opt, When, ToSet
<1>q9. q9 \in Seq(S) /\ ToSet(q9) = When(hasPlugins(s), {c11})
  BY <1>a DEF Opt, When, ToSet
<1> HIDE DEF q1, q2, q3, q4, q5, q6, q7, q8, q9
<1>2. p2 \in Seq(S) /\ ToSet(p2) = ToSet(q1) \cup ToSet(q2)
  BY <1>q1, <1>q2, ElementsOfConcat
<1> HIDE DEF p2
<1>3. p3 \in Seq(S) /\ ToSet(p3) = ToSet(p2) \cup ToSet(q3)
  BY <1>2, <1>q3, ElementsOfConcat
<1> HIDE DEF p3
<1>4. p4 \in Seq(S) /\ ToSet(p4) = ToSet(p3) \cup ToSet(q4)
  BY <1>3, <1>q4, ElementsOfConcat
<1> HIDE DEF p4
<1>5. p5 \in Seq(S) /\ ToSet(p5) = ToSet(p4) \cup ToSet(q5)
  BY <1>4, <1>q5, ElementsOfConcat
<1> HIDE DEF p5
<1>6. p6 \in Seq(S) /\ ToSet(p6) = ToSet(p5) \cup ToSet(q6)
  BY <1>5, <1>q6, ElementsOfConcat
<1> HIDE DEF p6
<1>7. p7 \in Seq(S) /\ ToSet(p7) = ToSet(p6) \cup ToSet(q7)
  BY <1>6, <1>q7, ElementsOfConcat
<1> HIDE DEF p7
<1>8. p8 \in Seq(S) /\ ToSet(p8) = ToSet(p7) \cup ToSet(q8)
  BY <1>7, <1>q8, ElementsOfConcat
<1> HIDE DEF p8
<1>9. p9 \in Seq(S) /\ ToSet(p9) = ToSet(p8) \cup ToSet(q9)
  BY <1>8, <1>q9, ElementsOfConcat
<1> HIDE DEF p9
<1>10. ToSet(p9) = OwnInit(s)
  BY <1>q1, <1>q2, <1>q3, <1>q4, <1>q5, <1>q6, <1>q7, <1>q8, <1>q9,
     <1>2, <1>3, <1>4, <1>5, <1>6, <1>7, <1>8, <1>9
     DEF OwnInit, c1, c2, c3, c4, c5, c6, c7, c8, c9, c10, c11
<1> QED
  BY <1>0, <1>9, <1>10

LEMMA InitContainersAre ==
    ASSUME NEW s, IsSpec(s)
    PROVE  ToSet(buildInitContainers(s)) =
             {shareGatewayIdentity(s, c) : c \in OwnInit(s)}
               \cup When(s.ollama = "models", {buildOllamaModelPullInitContainer(s)})
               \cup When(s.chromium # "off", {buildChromiumContainer(s)})
               \cup {Container(n, {}, Unset, "unset") : n \in s.initContainers}
<1> DEFINE own == OwnInitContainers(s)
           U == {Container(n, {}, Unset, "unset") : n \in s.initContainers}
           c2 == buildOllamaModelPullInitContainer(s)
           c3 == buildChromiumContainer(s)
           q1 == [i \in DOMAIN own |-> shareGatewayIdentity(s, own[i])]
           q2 == Opt(s.ollama = "models", c2)
           q3 == Opt(s.chromium # "off", c3)
           q4 == SetToSeq(U)
           p2 == q1 \o q2
           p3 == p2 \o q3
           p4 == p3 \o q4
<1>0. buildInitContainers(s) = p4
  BY DEF buildInitContainers
<1>1. PICK S : own \in Seq(S) /\ ToSet(own) = OwnInit(s)
  BY OwnInitContainersAre
<1> DEFINE R == {shareGatewayIdentity(s, c) : c \in S}
           A == R \cup {c2, c3} \cup U
<1> HIDE DEF own
<1>2. q1 \in Seq(R) /\ ToSet(q1) = {shareGatewayIdentity(s, c) : c \in OwnInit(s)}
  <2>1. DOMAIN own = 1 .. Len(own) /\ Len(own) \in Nat /\ \A i \in DOMAIN own : own[i] \in S
    BY <1>1
  <2>2. q1 \in [1 .. Len(own) -> R]
    BY <2>1
  <2>3. q1 \in Seq(R)
    BY <2>1, <2>2
  <2>4. ToSet(q1) = {shareGatewayIdentity(s, c) : c \in ToSet(own)}
    BY DEF ToSet
  <2> QED
    BY <1>1, <2>3, <2>4
<1>3. IsFiniteSet(U)
  <2> DEFINE f == [n \in s.initContainers |-> Container(n, {}, Unset, "unset")]
  <2>1. f \in Surjection(s.initContainers, U)
    BY DEF Surjection
  <2> HIDE DEF f, U
  <2> QED
    BY <2>1, InitContainerNames, FS_Surjection
<1> HIDE DEF c2, c3, U, q1, R
<1>4. q4 \in Seq(U) /\ ToSet(q4) = U
  BY <1>3, ElementsOfSetToSeq
<1>5. c2 \in A /\ c3 \in A /\ R \subseteq A /\ U \subseteq A
  OBVIOUS
<1> HIDE DEF A
<1>6. q1 \in Seq(A)
  BY <1>2, <1>5, SeqMonotonic
<1>7. q4 \in Seq(A)
  BY <1>4, <1>5, SeqMonotonic
<1>8. q2 \in Seq(A) /\ ToSet(q2) = When(s.ollama = "models", {c2})
  BY <1>5 DEF Opt, When, ToSet
<1>9. q3 \in Seq(A) /\ ToSet(q3) = When(s.chromium # "off", {c3})
  BY <1>5 DEF Opt, When, ToSet
<1> HIDE DEF q2, q3, q4
<1>10. p2 \in Seq(A) /\ ToSet(p2) = ToSet(q1) \cup ToSet(q2)
  BY <1>6, <1>8, ElementsOfConcat
<1> HIDE DEF p2
<1>11. p3 \in Seq(A) /\ ToSet(p3) = ToSet(p2) \cup ToSet(q3)
  BY <1>9, <1>10, ElementsOfConcat
<1> HIDE DEF p3
<1>12. ToSet(p4) = ToSet(p3) \cup ToSet(q4)
  BY <1>7, <1>11, ElementsOfConcat
<1> HIDE DEF p4
<1> QED
  BY <1>0, <1>2, <1>4, <1>8, <1>9, <1>10, <1>11, <1>12 DEF U, c2, c3

-----------------------------------------------------------------------------
(* The containers, without their images. *)

IsContainer(c) == {"name", "mounts", "readOnly", "user", "nonRoot", "ports"} \subseteq DOMAIN c

(* c has this name, these mounts and ports, and runs so. *)
Looks(c, name, mounts, readOnly, user, nonRoot, ports) ==
    /\ IsContainer(c)
    /\ c.name = name /\ c.mounts = mounts /\ c.readOnly = readOnly
    /\ c.user = user /\ c.nonRoot = nonRoot /\ c.ports = ports

LEMMA MainLooks ==
    ASSUME NEW s
    PROVE  Looks(buildMainContainer(s), "openclaw",
                 {"data", "tmp", "config"} \cup caMount(s) \cup MeshMainContainerMounts(s),
                 {}, s.containerRunAsUser, buildContainerSecurityContext(s).nonRoot, {GatewayPort, CanvasPort})
  BY DEF Looks, IsContainer, Container, buildMainContainer, buildContainerSecurityContext

LEMMA GatewayProxyLooks ==
    ASSUME NEW s
    PROVE  Looks(buildGatewayProxyContainer(s), "gateway-proxy", {"config", "gateway-proxy-tmp"},
                 {}, NginxUser, "true", {GatewayProxyPort, CanvasProxyPort})
  BY DEF Looks, IsContainer, Container, buildGatewayProxyContainer

LEMMA TailscaleLooks ==
    ASSUME NEW s
    PROVE  Looks(buildTailscaleContainer(s), "tailscale",
                 {"tailscale-socket", "config", "tailscale-tmp"},
                 {}, Unset, podRunAsNonRoot(s), {})
  BY DEF Looks, IsContainer, Container, buildTailscaleContainer

LEMMA NetBirdLooks ==
    ASSUME NEW s
    PROVE  Looks(buildNetBirdContainer(s), "netbird", {"netbird-state"},
                 {}, Unset, podRunAsNonRoot(s), {})
  BY DEF Looks, IsContainer, Container, buildNetBirdContainer

LEMMA OllamaLooks ==
    ASSUME NEW s
    PROVE  Looks(buildOllamaContainer(s), "ollama", {"ollama-models"},
                 {}, Root, "false", {OllamaPort})
  BY DEF Looks, IsContainer, Container, buildOllamaContainer

LEMMA WebTerminalLooks ==
    ASSUME NEW s
    PROVE  Looks(buildWebTerminalContainer(s), "web-terminal", {"data", "web-terminal-tmp"},
                 When(s.webTerminal = "readOnly", {"data"}), DefaultUser, podRunAsNonRoot(s), {WebTerminalPort})
  BY DEF Looks, IsContainer, Container, buildWebTerminalContainer

LEMMA OTelCollectorLooks ==
    ASSUME NEW s
    PROVE  Looks(buildOTelCollectorContainer(s), "otel-collector", {"otel-collector-config"},
                 {}, Unset, "true", {MetricsPort(s)})
  BY DEF Looks, IsContainer, Container, buildOTelCollectorContainer

LEMMA DataOwnerInitLooks ==
    ASSUME NEW s
    PROVE  Looks(buildDataOwnerInitContainer(s), "init-data-owner", {"data"},
                 {}, Root, "false", {})
  BY DEF Looks, IsContainer, Container, buildDataOwnerInitContainer

LEMMA ConfigInitLooks ==
    ASSUME NEW s
    PROVE  Looks(buildConfigInitContainer(s), "init-config",
                 {"data", "config", "workspace-init"} \cup When(usesOpenClawImage(s), {"init-tmp"}),
                 {"workspace-init"}, Unset, podRunAsNonRoot(s), {})
  BY DEF Looks, IsContainer, Container, buildConfigInitContainer

LEMMA TailscaleBinInitLooks ==
    ASSUME NEW s
    PROVE  Looks(buildTailscaleBinInitContainer(s), "init-tailscale-bin", {"tailscale-bin"},
                 {}, Unset, podRunAsNonRoot(s), {})
  BY DEF Looks, IsContainer, Container, buildTailscaleBinInitContainer

LEMMA UvInitLooks ==
    ASSUME NEW s
    PROVE  Looks(buildUvInitContainer(s), "init-uv", {"data"},
                 {}, Unset, "true", {})
  BY DEF Looks, IsContainer, Container, buildUvInitContainer

LEMMA PipInitLooks ==
    ASSUME NEW s
    PROVE  Looks(buildPipInitContainer(s), "init-pip", {"data", "tmp"},
                 {}, Unset, "true", {})
  BY DEF Looks, IsContainer, Container, buildPipInitContainer

LEMMA PluginRuntimeDepsInitLooks ==
    ASSUME NEW s
    PROVE  Looks(buildPluginRuntimeDepsInitContainer(s), "init-plugin-runtime-deps", {"data"},
                 {}, Unset, podRunAsNonRoot(s), {})
  BY DEF Looks, IsContainer, Container, buildPluginRuntimeDepsInitContainer

LEMMA PnpmInitLooks ==
    ASSUME NEW s
    PROVE  Looks(buildPnpmInitContainer(s), "init-pnpm", {"data", "pnpm-tmp"} \cup caMount(s),
                 {}, Unset, podRunAsNonRoot(s), {})
  BY DEF Looks, IsContainer, Container, buildPnpmInitContainer

LEMMA PythonInitLooks ==
    ASSUME NEW s
    PROVE  Looks(buildPythonInitContainer(s), "init-python", {"data", "python-tmp"} \cup caMount(s),
                 {}, Unset, podRunAsNonRoot(s), {})
  BY DEF Looks, IsContainer, Container, buildPythonInitContainer

LEMMA SkillsInitLooks ==
    ASSUME NEW s
    PROVE  Looks(buildSkillsInitContainer(s), "init-skills", {"data", "skills-tmp"} \cup caMount(s),
                 {}, Unset, podRunAsNonRoot(s), {})
  BY DEF Looks, IsContainer, Container, buildSkillsInitContainer

LEMMA PluginsInitLooks ==
    ASSUME NEW s
    PROVE  Looks(buildPluginsInitContainer(s), "init-plugins",
                 {"data"} \cup caMount(s) \cup When(pluginInstallReadOnly(s), {"plugin-scratch"}),
                 {}, s.containerRunAsUser, podRunAsNonRoot(s), {})
  BY DEF Looks, IsContainer, Container, buildPluginsInitContainer, buildContainerSecurityContext

LEMMA PluginScratchInitLooks ==
    ASSUME NEW s
    PROVE  Looks(buildPluginScratchInitContainer(buildPluginsInitContainer(s)), "init-plugin-scratch",
                 {"plugin-scratch"},
                 {}, s.containerRunAsUser, podRunAsNonRoot(s), {})
  BY DEF Looks, IsContainer, Container, buildPluginScratchInitContainer, buildPluginsInitContainer,
         buildContainerSecurityContext

LEMMA OllamaModelPullInitLooks ==
    ASSUME NEW s
    PROVE  Looks(buildOllamaModelPullInitContainer(s), "init-ollama", {"ollama-models"},
                 {}, Root, "false", {})
  BY DEF Looks, IsContainer, Container, buildOllamaModelPullInitContainer

LEMMA ChromiumLooks ==
    ASSUME NEW s
    PROVE  Looks(buildChromiumContainer(s), "chromium",
                 {"chromium-tmp", "chromium-shm", "chromium-data"} \cup caMount(s),
                 {}, NobodyUser, "true", {ChromiumPort})
  BY DEF Looks, IsContainer, Container, buildChromiumContainer

LEMMA UsersInitLooks ==
    ASSUME NEW n
    PROVE  Looks(Container(n, {}, Unset, "unset"), n, {}, {}, Unset, "unset", {})
  BY DEF Looks, IsContainer, Container

(* Of a helper, shareGatewayIdentity changes the user and runAsNonRoot only. *)
LEMMA SharedLooks ==
    ASSUME NEW s, NEW c, IsContainer(c)
    PROVE  LET d == shareGatewayIdentity(s, c)
               writer == c.user = Unset /\ "data" \in c.mounts \ c.readOnly
           IN  /\ d.name = c.name /\ d.mounts = c.mounts /\ d.readOnly = c.readOnly /\ d.ports = c.ports
               /\ d.user = IF writer THEN s.containerRunAsUser ELSE c.user
               /\ d.nonRoot = IF s.containerRunAsUser # Unset /\ writer
                              THEN buildContainerSecurityContext(s).nonRoot ELSE c.nonRoot
  BY DEF IsContainer, shareGatewayIdentity, buildContainerSecurityContext

LEMMA OwnInitAreContainers ==
    ASSUME NEW s, NEW o \in OwnInit(s)
    PROVE  IsContainer(o)
<1>1. /\ IsContainer(buildDataOwnerInitContainer(s)) /\ IsContainer(buildConfigInitContainer(s))
      /\ IsContainer(buildTailscaleBinInitContainer(s)) /\ IsContainer(buildUvInitContainer(s))
      /\ IsContainer(buildPipInitContainer(s)) /\ IsContainer(buildPluginRuntimeDepsInitContainer(s))
  BY DataOwnerInitLooks, ConfigInitLooks, TailscaleBinInitLooks, UvInitLooks, PipInitLooks,
     PluginRuntimeDepsInitLooks DEF Looks
<1>2. /\ IsContainer(buildPnpmInitContainer(s)) /\ IsContainer(buildPythonInitContainer(s))
      /\ IsContainer(buildSkillsInitContainer(s)) /\ IsContainer(buildPluginsInitContainer(s))
      /\ IsContainer(buildPluginScratchInitContainer(buildPluginsInitContainer(s)))
  BY PnpmInitLooks, PythonInitLooks, SkillsInitLooks, PluginsInitLooks, PluginScratchInitLooks DEF Looks
<1> QED
  BY <1>1, <1>2 DEF OwnInit, When

-----------------------------------------------------------------------------
(* Volumes. *)

Declared(s) == {v[1] : v \in buildVolumes(s)} \cup volumeClaimTemplates(s)

(* What backs the volume of this name, if there is one. *)
Backing(s, n) ==
    CASE n = "data" -> IF ~IsPersistenceEnabled(s) THEN "emptyDir"
                       ELSE IF s.existingClaim THEN "existingClaim" ELSE "pvc"
      [] n \in {"config", "workspace-init", "otel-collector-config"} -> "configMap"
      [] n = "chromium-data" -> IF s.chromium = "persistent" THEN "pvc" ELSE "emptyDir"
      [] n = "ca-bundle" -> IF s.caBundle = "secret" THEN "secret" ELSE "configMap"
      [] OTHER -> "emptyDir"

LEMMA VolumesAreBacked ==
    ASSUME NEW s, IsSpec(s), NEW v \in buildVolumes(s)
    PROVE  /\ v = <<v[1], Backing(s, v[1])>>
           /\ v[1] = "data" => ~(IsPersistenceEnabled(s) /\ IsHPAEnabled(s))
<1> DEFINE tmps == {"skills-tmp", "plugin-scratch", "pnpm-tmp", "python-tmp", "init-tmp", "tmp",
                    "gateway-proxy-tmp", "ollama-models", "web-terminal-tmp"}
<1>1. \/ v \in buildDataVolume(s)
      \/ v \in {"config", "workspace-init"} \X {"configMap"}
      \/ v \in When(IsMetricsEnabled(s), {<<"otel-collector-config", "configMap">>})
      \/ v \in tmps \X {"emptyDir"}
      \/ v \in buildMeshVolumes(s)
      \/ v \in buildChromiumVolumes(s)
      \/ v \in When(s.caBundle \in {"configMap", "both"}, {<<"ca-bundle", "configMap">>})
      \/ v \in When(s.caBundle = "secret", {<<"ca-bundle", "secret">>})
  BY DEF buildVolumes, When
<1>2. CASE v \in buildDataVolume(s)
  BY <1>2 DEF buildDataVolume, Backing
<1>3. CASE v \in {"config", "workspace-init"} \X {"configMap"}
  BY <1>3 DEF Backing
<1>4. CASE v \in When(IsMetricsEnabled(s), {<<"otel-collector-config", "configMap">>})
  BY <1>4 DEF When, Backing
<1>5. CASE v \in tmps \X {"emptyDir"}
  BY <1>5 DEF Backing
<1>6. CASE v \in buildMeshVolumes(s)
  BY <1>6 DEF buildMeshVolumes, Backing
<1>7. CASE v \in buildChromiumVolumes(s)
  BY <1>7 DEF buildChromiumVolumes, Backing
<1>8. CASE v \in When(s.caBundle \in {"configMap", "both"}, {<<"ca-bundle", "configMap">>})
  BY <1>8 DEF When, Backing
<1>9. CASE v \in When(s.caBundle = "secret", {<<"ca-bundle", "secret">>})
  BY <1>9 DEF When, Backing
<1> QED
  BY <1>1, <1>2, <1>3, <1>4, <1>5, <1>6, <1>7, <1>8, <1>9

(* Each feature of the spec has the volumes it needs. *)
Supplied(s) ==
    /\ {"data", "config", "workspace-init", "tmp"} \subseteq Declared(s)
    /\ caMount(s) \subseteq Declared(s)
    /\ IsMetricsEnabled(s) => "otel-collector-config" \in Declared(s)
    /\ FilterNonPackSkills(s) # {} => "skills-tmp" \in Declared(s)
    /\ hasPlugins(s) /\ pluginInstallReadOnly(s) => "plugin-scratch" \in Declared(s)
    /\ s.pnpm => "pnpm-tmp" \in Declared(s)
    /\ s.python => "python-tmp" \in Declared(s)
    /\ usesOpenClawImage(s) => "init-tmp" \in Declared(s)
    /\ IsGatewayProxyEnabled(s) => "gateway-proxy-tmp" \in Declared(s)
    /\ s.ollama # "off" => "ollama-models" \in Declared(s)
    /\ s.webTerminal # "off" => "web-terminal-tmp" \in Declared(s)
    /\ ActiveMeshProvider(s) = "tailscale" =>
         {"tailscale-socket", "tailscale-bin", "tailscale-tmp"} \subseteq Declared(s)
    /\ ActiveMeshProvider(s) = "netbird" => "netbird-state" \in Declared(s)
    /\ s.chromium # "off" => {"chromium-tmp", "chromium-shm", "chromium-data"} \subseteq Declared(s)

LEMMA VolumesDeclared ==
    ASSUME NEW s, IsSpec(s), validateCABundle(s)
    PROVE  Supplied(s)
<1>0. ASSUME NEW n, NEW k, <<n, k>> \in buildVolumes(s) PROVE n \in Declared(s)
  BY <1>0 DEF Declared
<1>1. "data" \in Declared(s)
  <2>1. CASE IsPersistenceEnabled(s) /\ IsHPAEnabled(s)
    BY <2>1 DEF Declared, volumeClaimTemplates, When
  <2>2. CASE ~(IsPersistenceEnabled(s) /\ IsHPAEnabled(s))
    <3>1. \E k : <<"data", k>> \in buildDataVolume(s)
      BY <2>2 DEF buildDataVolume
    <3> QED
      BY <1>0, <3>1 DEF buildVolumes
  <2> QED
    BY <2>1, <2>2
<1>2. {"config", "workspace-init"} \subseteq Declared(s)
  <2>1. <<"config", "configMap">> \in buildVolumes(s) /\ <<"workspace-init", "configMap">> \in buildVolumes(s)
    BY DEF buildVolumes
  <2> QED
    BY <1>0, <2>1
<1>3. IsMetricsEnabled(s) => "otel-collector-config" \in Declared(s)
  <2>1. IsMetricsEnabled(s) => <<"otel-collector-config", "configMap">> \in buildVolumes(s)
    BY DEF buildVolumes, When
  <2> QED
    BY <1>0, <2>1
<1>4. /\ "tmp" \in Declared(s)
      /\ FilterNonPackSkills(s) # {} => "skills-tmp" \in Declared(s)
      /\ hasPlugins(s) /\ pluginInstallReadOnly(s) => "plugin-scratch" \in Declared(s)
      /\ s.pnpm => "pnpm-tmp" \in Declared(s)
      /\ s.python => "python-tmp" \in Declared(s)
      /\ usesOpenClawImage(s) => "init-tmp" \in Declared(s)
      /\ IsGatewayProxyEnabled(s) => "gateway-proxy-tmp" \in Declared(s)
      /\ s.ollama # "off" => "ollama-models" \in Declared(s)
      /\ s.webTerminal # "off" => "web-terminal-tmp" \in Declared(s)
  <2>1. /\ <<"tmp", "emptyDir">> \in buildVolumes(s)
        /\ FilterNonPackSkills(s) # {} => <<"skills-tmp", "emptyDir">> \in buildVolumes(s)
        /\ hasPlugins(s) /\ pluginInstallReadOnly(s) => <<"plugin-scratch", "emptyDir">> \in buildVolumes(s)
        /\ s.pnpm => <<"pnpm-tmp", "emptyDir">> \in buildVolumes(s)
        /\ s.python => <<"python-tmp", "emptyDir">> \in buildVolumes(s)
        /\ usesOpenClawImage(s) => <<"init-tmp", "emptyDir">> \in buildVolumes(s)
        /\ IsGatewayProxyEnabled(s) => <<"gateway-proxy-tmp", "emptyDir">> \in buildVolumes(s)
        /\ s.ollama # "off" => <<"ollama-models", "emptyDir">> \in buildVolumes(s)
        /\ s.webTerminal # "off" => <<"web-terminal-tmp", "emptyDir">> \in buildVolumes(s)
    BY DEF buildVolumes, FilterNonPackSkills, usesOpenClawImage, needsInitTmp
  <2> QED
    BY <1>0, <2>1
<1>5. /\ ActiveMeshProvider(s) = "tailscale" =>
           {"tailscale-socket", "tailscale-bin", "tailscale-tmp"} \subseteq Declared(s)
      /\ ActiveMeshProvider(s) = "netbird" => "netbird-state" \in Declared(s)
  <2>1. \A v \in buildMeshVolumes(s) : v \in buildVolumes(s)
    BY DEF buildVolumes
  <2>2. CASE ActiveMeshProvider(s) = "tailscale"
    <3>1. \A n \in {"tailscale-socket", "tailscale-bin", "tailscale-tmp"} :
             <<n, "emptyDir">> \in buildMeshVolumes(s)
      BY <2>2 DEF buildMeshVolumes
    <3> QED
      BY <1>0, <2>1, <2>2, <3>1
  <2>3. CASE ActiveMeshProvider(s) = "netbird"
    <3>1. <<"netbird-state", "emptyDir">> \in buildMeshVolumes(s)
      BY <2>3 DEF buildMeshVolumes
    <3> QED
      BY <1>0, <2>1, <2>3, <3>1
  <2> QED
    BY <2>2, <2>3
<1>6. s.chromium # "off" => {"chromium-tmp", "chromium-shm", "chromium-data"} \subseteq Declared(s)
  <2>1. s.chromium # "off" => \A v \in buildChromiumVolumes(s) : v \in buildVolumes(s)
    BY DEF buildVolumes, When
  <2>2. \A n \in {"chromium-tmp", "chromium-shm", "chromium-data"} :
           \E k : <<n, k>> \in buildChromiumVolumes(s)
    BY DEF buildChromiumVolumes
  <2> QED
    BY <1>0, <2>1, <2>2
<1>7. caMount(s) \subseteq Declared(s)
  <2>1. s.caBundle \in {"none", "configMap", "secret"}
    BY SpecValues DEF validateCABundle
  <2>2. s.caBundle # "none" => \E k : <<"ca-bundle", k>> \in buildVolumes(s)
    BY <2>1 DEF buildVolumes, When
  <2> QED
    BY <1>0, <2>2 DEF caMount, When
<1> QED
  BY <1>1, <1>2, <1>3, <1>4, <1>5, <1>6, <1>7 DEF Supplied

LEMMA MountsHaveVolumes ==
    ASSUME NEW s, IsSpec(s), validateCABundle(s), NEW c \in AllContainers(s)
    PROVE  c.mounts \subseteq Declared(s)
<1>0. Supplied(s)
  BY VolumesDeclared
<1>1. CASE c \in buildContainers(s)
  <2>1. CASE c = buildMainContainer(s)
    BY <2>1, MainLooks, <1>0 DEF Looks, Supplied, MeshMainContainerMounts, When
  <2>2. CASE IsGatewayProxyEnabled(s) /\ c = buildGatewayProxyContainer(s)
    BY <2>2, GatewayProxyLooks, <1>0 DEF Looks, Supplied
  <2>3. CASE ActiveMeshProvider(s) = "tailscale" /\ c = buildTailscaleContainer(s)
    BY <2>3, TailscaleLooks, <1>0 DEF Looks, Supplied
  <2>4. CASE ActiveMeshProvider(s) = "netbird" /\ c = buildNetBirdContainer(s)
    BY <2>4, NetBirdLooks, <1>0 DEF Looks, Supplied
  <2>5. CASE s.ollama # "off" /\ c = buildOllamaContainer(s)
    BY <2>5, OllamaLooks, <1>0 DEF Looks, Supplied
  <2>6. CASE s.webTerminal # "off" /\ c = buildWebTerminalContainer(s)
    BY <2>6, WebTerminalLooks, <1>0 DEF Looks, Supplied
  <2>7. CASE IsMetricsEnabled(s) /\ c = buildOTelCollectorContainer(s)
    BY <2>7, OTelCollectorLooks, <1>0 DEF Looks, Supplied
  <2> QED
    BY <1>1, <2>1, <2>2, <2>3, <2>4, <2>5, <2>6, <2>7 DEF buildContainers, MeshSidecarContainers, When
<1>2. CASE c \in {shareGatewayIdentity(s, o) : o \in OwnInit(s)}
  <2>0. PICK o \in OwnInit(s) : c = shareGatewayIdentity(s, o)
    BY <1>2
  <2>a. c.mounts = o.mounts
    BY <2>0, OwnInitAreContainers, SharedLooks
  <2>1. CASE IsDataOwnershipFixEnabled(s) /\ o = buildDataOwnerInitContainer(s)
    BY <2>1, <2>a, DataOwnerInitLooks, <1>0 DEF Looks, Supplied
  <2>2. CASE o = buildConfigInitContainer(s)
    BY <2>2, <2>a, ConfigInitLooks, <1>0 DEF Looks, Supplied, When
  <2>3. CASE o = buildUvInitContainer(s)
    BY <2>3, <2>a, UvInitLooks, <1>0 DEF Looks, Supplied
  <2>4. CASE o = buildPipInitContainer(s)
    BY <2>4, <2>a, PipInitLooks, <1>0 DEF Looks, Supplied
  <2>5. CASE o = buildPluginRuntimeDepsInitContainer(s)
    BY <2>5, <2>a, PluginRuntimeDepsInitLooks, <1>0 DEF Looks, Supplied
  <2>6. CASE ActiveMeshProvider(s) = "tailscale" /\ o = buildTailscaleBinInitContainer(s)
    BY <2>6, <2>a, TailscaleBinInitLooks, <1>0 DEF Looks, Supplied
  <2>7. CASE s.pnpm /\ o = buildPnpmInitContainer(s)
    BY <2>7, <2>a, PnpmInitLooks, <1>0 DEF Looks, Supplied
  <2>8. CASE s.python /\ o = buildPythonInitContainer(s)
    BY <2>8, <2>a, PythonInitLooks, <1>0 DEF Looks, Supplied
  <2>9. CASE FilterNonPackSkills(s) # {} /\ o = buildSkillsInitContainer(s)
    BY <2>9, <2>a, SkillsInitLooks, <1>0 DEF Looks, Supplied
  <2>10. CASE hasPlugins(s) /\ pluginInstallReadOnly(s) /\ o = buildPluginScratchInitContainer(buildPluginsInitContainer(s))
    BY <2>10, <2>a, PluginScratchInitLooks, <1>0 DEF Looks, Supplied
  <2>11. CASE hasPlugins(s) /\ o = buildPluginsInitContainer(s)
    BY <2>11, <2>a, PluginsInitLooks, <1>0 DEF Looks, Supplied, When
  <2> QED
    BY <2>1, <2>2, <2>3, <2>4, <2>5, <2>6, <2>7, <2>8, <2>9, <2>10, <2>11 DEF OwnInit, When
<1>3. CASE c = buildOllamaModelPullInitContainer(s) /\ s.ollama = "models"
  BY <1>3, OllamaModelPullInitLooks, <1>0 DEF Looks, Supplied
<1>4. CASE c = buildChromiumContainer(s) /\ s.chromium # "off"
  BY <1>4, ChromiumLooks, <1>0 DEF Looks, Supplied
<1>5. CASE c \in {Container(n, {}, Unset, "unset") : n \in s.initContainers}
  BY <1>5, UsersInitLooks DEF Looks
<1> QED
  BY <1>1, <1>2, <1>3, <1>4, <1>5, InitContainersAre DEF AllContainers, When

-----------------------------------------------------------------------------
(* Users. *)

\* The conditions of ContainerUsersFit on one container.
UserFits(s, c) ==
    LET e == Effective(c, buildPodSecurityContext(s))
    IN  /\ s.containerRunAsUser # Root => ~(e.nonRoot = "true" /\ e.user = Root)
        /\ "data" \in c.mounts \ c.readOnly /\ c.name \notin {"init-data-owner", "web-terminal"} =>
              e.user = dataOwner(s)

\* What makes a container fit: Root only with runAsNonRoot off, and writers of the
\* data volume with the gateway's own choice of a user.
Fits(s, c) ==
    /\ c.user = Root => c.nonRoot = "false" \/ s.containerRunAsUser = Root
    /\ "data" \in c.mounts \ c.readOnly /\ c.name \notin {"init-data-owner", "web-terminal"} =>
          c.user = s.containerRunAsUser

LEMMA FitsIsEnough ==
    ASSUME NEW s, IsSpec(s), validatePodUser(s), NEW c, Fits(s, c)
    PROVE  UserFits(s, c)
<1>1. buildPodSecurityContext(s).user # Root /\ buildPodSecurityContext(s).user # Unset
  BY DEF validatePodUser, buildPodSecurityContext, Root, Unset, DefaultUser
<1>2. dataOwner(s) = IF s.containerRunAsUser # Unset THEN s.containerRunAsUser
                     ELSE buildPodSecurityContext(s).user
  BY DEF dataOwner, buildContainerSecurityContext
<1>3. Effective(c, buildPodSecurityContext(s)).user =
         IF c.user # Unset THEN c.user ELSE buildPodSecurityContext(s).user
  BY DEF Effective
<1>4. c.nonRoot = "false" => Effective(c, buildPodSecurityContext(s)).nonRoot = "false"
  BY DEF Effective
<1> QED
  BY <1>1, <1>2, <1>3, <1>4 DEF UserFits, Fits, Root, Unset

LEMMA ContainersFit ==
    ASSUME NEW s, IsSpec(s), NEW c \in AllContainers(s)
    PROVE  Fits(s, c)
<1> USE DEF Root, Unset, DefaultUser, NginxUser, NobodyUser
<1>1. CASE c \in buildContainers(s)
  <2>1. CASE c = buildMainContainer(s)
    BY <2>1, MainLooks DEF Looks, Fits
  <2>2. CASE IsGatewayProxyEnabled(s) /\ c = buildGatewayProxyContainer(s)
    BY <2>2, GatewayProxyLooks DEF Looks, Fits
  <2>3. CASE ActiveMeshProvider(s) = "tailscale" /\ c = buildTailscaleContainer(s)
    BY <2>3, TailscaleLooks DEF Looks, Fits
  <2>4. CASE ActiveMeshProvider(s) = "netbird" /\ c = buildNetBirdContainer(s)
    BY <2>4, NetBirdLooks DEF Looks, Fits
  <2>5. CASE s.ollama # "off" /\ c = buildOllamaContainer(s)
    BY <2>5, OllamaLooks DEF Looks, Fits
  <2>6. CASE s.webTerminal # "off" /\ c = buildWebTerminalContainer(s)
    BY <2>6, WebTerminalLooks DEF Looks, Fits
  <2>7. CASE IsMetricsEnabled(s) /\ c = buildOTelCollectorContainer(s)
    BY <2>7, OTelCollectorLooks DEF Looks, Fits
  <2> QED
    BY <1>1, <2>1, <2>2, <2>3, <2>4, <2>5, <2>6, <2>7 DEF buildContainers, MeshSidecarContainers, When
<1>2. CASE c \in {shareGatewayIdentity(s, o) : o \in OwnInit(s)}
  <2>0. PICK o \in OwnInit(s) : c = shareGatewayIdentity(s, o)
    BY <1>2
  <2>a. /\ c.name = o.name /\ c.mounts = o.mounts /\ c.readOnly = o.readOnly
        /\ c.user = IF o.user = Unset /\ "data" \in o.mounts \ o.readOnly THEN s.containerRunAsUser
                    ELSE o.user
        /\ o.user # Unset => c.nonRoot = o.nonRoot
    BY <2>0, OwnInitAreContainers, SharedLooks
  <2>1. CASE o = buildDataOwnerInitContainer(s)
    BY <2>1, <2>a, DataOwnerInitLooks DEF Looks, Fits
  <2>2. CASE o = buildConfigInitContainer(s)
    BY <2>2, <2>a, ConfigInitLooks DEF Looks, Fits
  <2>3. CASE o = buildUvInitContainer(s)
    BY <2>3, <2>a, UvInitLooks DEF Looks, Fits
  <2>4. CASE o = buildPipInitContainer(s)
    BY <2>4, <2>a, PipInitLooks DEF Looks, Fits
  <2>5. CASE o = buildPluginRuntimeDepsInitContainer(s)
    BY <2>5, <2>a, PluginRuntimeDepsInitLooks DEF Looks, Fits
  <2>6. CASE o = buildTailscaleBinInitContainer(s)
    BY <2>6, <2>a, TailscaleBinInitLooks DEF Looks, Fits
  <2>7. CASE o = buildPnpmInitContainer(s)
    BY <2>7, <2>a, PnpmInitLooks DEF Looks, Fits
  <2>8. CASE o = buildPythonInitContainer(s)
    BY <2>8, <2>a, PythonInitLooks DEF Looks, Fits
  <2>9. CASE o = buildSkillsInitContainer(s)
    BY <2>9, <2>a, SkillsInitLooks DEF Looks, Fits
  <2>10. CASE o = buildPluginScratchInitContainer(buildPluginsInitContainer(s))
    BY <2>10, <2>a, PluginScratchInitLooks DEF Looks, Fits
  <2>11. CASE o = buildPluginsInitContainer(s)
    BY <2>11, <2>a, PluginsInitLooks DEF Looks, Fits
  <2> QED
    BY <2>1, <2>2, <2>3, <2>4, <2>5, <2>6, <2>7, <2>8, <2>9, <2>10, <2>11 DEF OwnInit, When
<1>3. CASE c = buildOllamaModelPullInitContainer(s)
  BY <1>3, OllamaModelPullInitLooks DEF Looks, Fits
<1>4. CASE c = buildChromiumContainer(s)
  BY <1>4, ChromiumLooks DEF Looks, Fits, caMount, When
<1>5. CASE c \in {Container(n, {}, Unset, "unset") : n \in s.initContainers}
  BY <1>5, UsersInitLooks DEF Looks, Fits
<1> QED
  BY <1>1, <1>2, <1>3, <1>4, <1>5, InitContainersAre DEF AllContainers, When

-----------------------------------------------------------------------------
(* The rendered config. *)

\* d is c with settings of K added, where c makes none of them.
Extends(c, d, K) ==
    /\ DOMAIN c \subseteq DOMAIN d /\ DOMAIN d \subseteq DOMAIN c \cup K
    /\ \A x \in DOMAIN c : d[x] = c[x]

LEMMA AddExtends ==
    ASSUME NEW c, NEW k, NEW v
    PROVE  /\ Extends(c, Add(c, k, v), {k})
           /\ k \in DOMAIN Add(c, k, v)
           /\ k \notin DOMAIN c => Add(c, k, v)[k] = v
  BY DEF Extends, Add, ++

LEMMA SameExtends ==
    ASSUME NEW c, NEW K
    PROVE  Extends(c, c, K)
  BY DEF Extends

LEMMA ExtendsTwice ==
    ASSUME NEW b, NEW c, NEW d, NEW K, NEW L, Extends(b, c, K), Extends(c, d, L)
    PROVE  Extends(b, d, K \cup L)
  BY DEF Extends

\* The settings made before the browser and the bind.
Early == {"mode", "otelEnabled", "otelEndpoint", "authMode", "authToken", "allowTailscale"}

\* The config as it is before enrichConfigWithBrowser.
BeforeBrowser(s, base, token) ==
    LET c1 == enrichConfigWithGatewayMode(base)
        c2 == If(IsMetricsEnabled(s), enrichConfigWithOTelMetrics(c1), c1)
        c3 == If(token, enrichConfigWithGatewayAuth(c2), c2)
    IN  enrichConfigWithTailscale(c3, s)

BeforeBind(s, base, token) ==
    LET c == BeforeBrowser(s, base, token)
    IN  If(s.chromium # "off", enrichConfigWithBrowser(c), c)

LEMMA EarlySettings ==
    ASSUME NEW s, NEW base, NEW token
    PROVE  Extends(base, BeforeBrowser(s, base, token), Early)
<1> DEFINE c1 == enrichConfigWithGatewayMode(base)
           c2 == If(IsMetricsEnabled(s), enrichConfigWithOTelMetrics(c1), c1)
           c3 == If(token, enrichConfigWithGatewayAuth(c2), c2)
           c4 == enrichConfigWithTailscale(c3, s)
<1>1. Extends(base, c1, {"mode"})
  BY AddExtends DEF enrichConfigWithGatewayMode
<1> HIDE DEF c1
<1>2. Extends(c1, c2, {"otelEnabled"} \cup {"otelEndpoint"})
  BY AddExtends, SameExtends, ExtendsTwice DEF enrichConfigWithOTelMetrics, If
<1> HIDE DEF c2
<1>3. Extends(c2, c3, {"authMode"} \cup {"authToken"})
  BY AddExtends, SameExtends, ExtendsTwice DEF enrichConfigWithGatewayAuth, If
<1> HIDE DEF c3
<1>4. Extends(c3, c4, {"allowTailscale"})
  BY AddExtends, SameExtends DEF enrichConfigWithTailscale, If
<1>5. BeforeBrowser(s, base, token) = c4
  BY DEF BeforeBrowser, c1, c2, c3
<1> HIDE DEF c4
<1> QED
  BY <1>1, <1>2, <1>3, <1>4, <1>5 DEF Extends, Early

\* What bind the gateway has, and that the browser's setting shows whether there is one.
LEMMA RenderedSettings ==
    ASSUME NEW s, NEW base, NEW token, "cdpUrl" \notin DOMAIN base
    PROVE  LET json == BuildConfigMapFromBytes(s, base, token).json
           IN  /\ json["bind"] = "loopback" => "bind" \in DOMAIN base \/ IsGatewayProxyEnabled(s)
               /\ "cdpUrl" \in DOMAIN json <=> s.chromium # "off"
<1> DEFINE b == IF IsGatewayProxyEnabled(s) THEN "loopback" ELSE "0.0.0.0"
           c4 == BeforeBrowser(s, base, token)
           c5 == BeforeBind(s, base, token)
           c6 == Add(c5, "bind", b)
           c7 == Add(c6, "trustedProxies", "loopback")
           c8 == Add(c7, "allowedOrigins", "derived")
<1>1. BuildConfigMapFromBytes(s, base, token).json = c8
  BY DEF BuildConfigMapFromBytes, BeforeBind, BeforeBrowser, enrichConfigWithGatewayBind,
         enrichConfigWithTrustedProxies, enrichConfigWithControlUIOrigins
<1>2. Extends(base, c4, Early)
  BY EarlySettings
<1>3. /\ Extends(c4, c5, {"cdpUrl"})
      /\ s.chromium # "off" => "cdpUrl" \in DOMAIN c5
      /\ s.chromium = "off" => c5 = c4
  BY AddExtends, SameExtends DEF BeforeBind, If, enrichConfigWithBrowser
<1> HIDE DEF c4, c5, b
<1>4. Extends(c5, c6, {"bind"}) /\ "bind" \in DOMAIN c6 /\ ("bind" \notin DOMAIN c5 => c6["bind"] = b)
  BY AddExtends
<1> HIDE DEF c6
<1>5. Extends(c6, c7, {"trustedProxies"})
  BY AddExtends
<1> HIDE DEF c7
<1>6. Extends(c7, c8, {"allowedOrigins"})
  BY AddExtends
<1> HIDE DEF c8
<1>7. c8["bind"] = IF "bind" \in DOMAIN base THEN base["bind"] ELSE b
  BY <1>2, <1>3, <1>4, <1>5, <1>6 DEF Extends, Early
<1>8. "cdpUrl" \in DOMAIN c8 <=> s.chromium # "off"
  BY <1>2, <1>3, <1>4, <1>5, <1>6 DEF Extends, Early
<1> QED
  BY <1>1, <1>7, <1>8 DEF b

LEMMA UserConfigSettings ==
    ASSUME NEW c \in UserConfigs
    PROVE  /\ "cdpUrl" \notin DOMAIN c
           /\ "bind" \in DOMAIN c => c["bind"] = "loopback"
  BY DEF UserConfigs, Empty

\* Two specs with the same config hash render to the same ConfigMap, though the hash is
\* taken without the gateway token and lists some of the fields only.
LEMMA HashCoversTheConfig ==
    ASSUME NEW s, IsSpec(s), NEW t, IsSpec(t), calculateConfigHash(s) = calculateConfigHash(t)
    PROVE  /\ s.raw = t.raw /\ s.configMapRef = t.configMapRef
           /\ BuildConfigMapFromBytes(s, s.raw, TRUE) = BuildConfigMapFromBytes(t, t.raw, TRUE)
<1> DEFINE r(x) == BuildConfigMap(x, FALSE)
<1>1. /\ s.raw = t.raw /\ s.configMapRef = t.configMapRef /\ s.tailscale = t.tailscale
      /\ r(s) = r(t)
  BY DEF calculateConfigHash
<1>2. /\ r(s).nginx = r(t).nginx /\ r(s).tailscaleServe = r(t).tailscaleServe
      /\ r(s).otelPort = r(t).otelPort /\ r(s).origins = r(t).origins /\ r(s).json = r(t).json
  BY <1>1
<1>3. IsGatewayProxyEnabled(s) <=> IsGatewayProxyEnabled(t)
  BY <1>2 DEF BuildConfigMap, BuildConfigMapFromBytes
<1>4. (ActiveMeshProvider(s) = "tailscale") <=> (ActiveMeshProvider(t) = "tailscale")
  BY <1>2 DEF BuildConfigMap, BuildConfigMapFromBytes
<1>5. If(IsMetricsEnabled(s), MetricsPort(s), Unset) = If(IsMetricsEnabled(t), MetricsPort(t), Unset)
  BY <1>2 DEF BuildConfigMap, BuildConfigMapFromBytes
<1>6. IsMetricsEnabled(s) <=> IsMetricsEnabled(t)
  BY <1>5, SpecValues DEF If, MetricsPort, Unset, ChromiumPort, DefaultMetricsPort
<1>7. /\ r(s).origins = If("allowedOrigins" \in DOMAIN s.raw, <<>>, deriveControlUIOrigins(s))
      /\ r(t).origins = If("allowedOrigins" \in DOMAIN t.raw, <<>>, deriveControlUIOrigins(t))
  BY DEF BuildConfigMap, BuildConfigMapFromBytes
<1>8. (s.chromium # "off") <=> (t.chromium # "off")
  <2>1. s.raw \in UserConfigs /\ "cdpUrl" \notin DOMAIN s.raw /\ "cdpUrl" \notin DOMAIN t.raw
    BY <1>1, SpecValues, UserConfigSettings
  <2>2. /\ "cdpUrl" \in DOMAIN r(s).json <=> s.chromium # "off"
        /\ "cdpUrl" \in DOMAIN r(t).json <=> t.chromium # "off"
    BY <2>1, RenderedSettings DEF BuildConfigMap
  <2> QED
    BY <1>2, <2>2
<1> DEFINE d1 == enrichConfigWithGatewayMode(s.raw)
           s2 == If(IsMetricsEnabled(s), enrichConfigWithOTelMetrics(d1), d1)
           t2 == If(IsMetricsEnabled(t), enrichConfigWithOTelMetrics(d1), d1)
           s3 == If(TRUE, enrichConfigWithGatewayAuth(s2), s2)
           t3 == If(TRUE, enrichConfigWithGatewayAuth(t2), t2)
           s4 == enrichConfigWithTailscale(s3, s)
           t4 == enrichConfigWithTailscale(t3, t)
           s5 == If(s.chromium # "off", enrichConfigWithBrowser(s4), s4)
           t5 == If(t.chromium # "off", enrichConfigWithBrowser(t4), t4)
           s6 == enrichConfigWithTrustedProxies(enrichConfigWithGatewayBind(s5, s))
           t6 == enrichConfigWithTrustedProxies(enrichConfigWithGatewayBind(t5, t))
           s7 == enrichConfigWithControlUIOrigins(s6, s)
           t7 == enrichConfigWithControlUIOrigins(t6, t)
<1>9. /\ BuildConfigMapFromBytes(s, s.raw, TRUE) =
           [json |-> s7, origins |-> r(s).origins, nginx |-> IsGatewayProxyEnabled(s),
            tailscaleServe |-> ActiveMeshProvider(s) = "tailscale", otelPort |-> r(s).otelPort]
      /\ BuildConfigMapFromBytes(t, t.raw, TRUE) =
           [json |-> t7, origins |-> r(t).origins, nginx |-> IsGatewayProxyEnabled(t),
            tailscaleServe |-> ActiveMeshProvider(t) = "tailscale", otelPort |-> r(t).otelPort]
  BY <1>1 DEF BuildConfigMap, BuildConfigMapFromBytes
<1>10. s2 = t2
  BY <1>6 DEF If
<1> HIDE DEF d1, s2, t2
<1>11. s3 = t3
  BY <1>10
<1> HIDE DEF s3, t3
<1>12. s4 = t4
  BY <1>1, <1>11 DEF enrichConfigWithTailscale
<1> HIDE DEF s4, t4
<1>13. s5 = t5
  BY <1>8, <1>12 DEF If
<1> HIDE DEF s5, t5
<1>14. s6 = t6
  BY <1>3, <1>13 DEF enrichConfigWithGatewayBind
<1> HIDE DEF s6, t6
<1>15. s7 = t7
  BY <1>14 DEF enrichConfigWithControlUIOrigins
<1> HIDE DEF s7, t7, r
<1>16. IsGatewayProxyEnabled(s) = IsGatewayProxyEnabled(t)
  BY <1>3, SpecValues DEF IsGatewayProxyEnabled
<1>17. (ActiveMeshProvider(s) = "tailscale") = (ActiveMeshProvider(t) = "tailscale")
  BY <1>4
<1>18. BuildConfigMapFromBytes(s, s.raw, TRUE) = BuildConfigMapFromBytes(t, t.raw, TRUE)
  BY <1>2, <1>16, <1>17, <1>9, <1>15, Zenon
<1> QED
  BY <1>1, <1>18

-----------------------------------------------------------------------------
(* Ports, peers and the API server. *)

LEMMA Listens ==
    ASSUME NEW s, NEW config, NEW c \in AllContainers(s), NEW p \in c.ports,
           p \in {GatewayPort, CanvasPort} => config["bind"] # "loopback"
    PROVE  ListensOn(s, config, p)
<1> DEFINE l == <<p, IF p \in {GatewayPort, CanvasPort} THEN config["bind"] ELSE "0.0.0.0">>
<1>1. l \in Listeners(s, config)
  BY DEF Listeners
<1>2. l[1] = p /\ l[2] # "loopback"
  OBVIOUS
<1> QED
  BY <1>1, <1>2 DEF ListensOn

\* The ports of the Service when the user gives none, and of the proxy.
LEMMA PortsAreListenedOn ==
    ASSUME NEW s, IsSpec(s), NEW config,
           config["bind"] = "loopback" => IsGatewayProxyEnabled(s)
    PROVE  /\ ListensOn(s, config, GatewayTarget(s)) /\ ListensOn(s, config, CanvasTarget(s))
           /\ s.chromium # "off" => ListensOn(s, config, ChromiumPort)
           /\ s.webTerminal # "off" => ListensOn(s, config, WebTerminalPort)
           /\ IsMetricsEnabled(s) => ListensOn(s, config, MetricsPort(s))
<1>0. buildMainContainer(s).ports = {GatewayPort, CanvasPort}
  BY MainLooks DEF Looks
<1> USE DEF GatewayPort, CanvasPort, GatewayProxyPort, CanvasProxyPort, ChromiumPort, WebTerminalPort,
            DefaultMetricsPort
<1>1. ListensOn(s, config, GatewayTarget(s)) /\ ListensOn(s, config, CanvasTarget(s))
  <2>1. CASE IsGatewayProxyEnabled(s)
    <3>1. buildGatewayProxyContainer(s) \in AllContainers(s)
      BY <2>1 DEF AllContainers, buildContainers, When
    <3>2. buildGatewayProxyContainer(s).ports = {GatewayProxyPort, CanvasProxyPort}
      BY GatewayProxyLooks DEF Looks
    <3>3. ListensOn(s, config, GatewayProxyPort)
      BY <3>1, <3>2, Listens
    <3>4. ListensOn(s, config, CanvasProxyPort)
      BY <3>1, <3>2, Listens
    <3> QED
      BY <2>1, <3>3, <3>4 DEF GatewayTarget, CanvasTarget
  <2>2. CASE ~IsGatewayProxyEnabled(s)
    <3>1. buildMainContainer(s) \in AllContainers(s)
      BY DEF AllContainers, buildContainers
    <3>3. ListensOn(s, config, GatewayPort)
      BY <1>0, <2>2, <3>1, Listens
    <3>4. ListensOn(s, config, CanvasPort)
      BY <1>0, <2>2, <3>1, Listens
    <3> QED
      BY <2>2, <3>3, <3>4 DEF GatewayTarget, CanvasTarget
  <2> QED
    BY <2>1, <2>2
<1>2. s.chromium # "off" => ListensOn(s, config, ChromiumPort)
  <2>1. s.chromium # "off" => buildChromiumContainer(s) \in AllContainers(s)
    BY InitContainersAre DEF AllContainers, When
  <2>2. buildChromiumContainer(s).ports = {ChromiumPort}
    BY ChromiumLooks DEF Looks
  <2> QED
    BY <2>1, <2>2, Listens
<1>3. s.webTerminal # "off" => ListensOn(s, config, WebTerminalPort)
  <2>1. s.webTerminal # "off" => buildWebTerminalContainer(s) \in AllContainers(s)
    BY DEF AllContainers, buildContainers, When
  <2>2. buildWebTerminalContainer(s).ports = {WebTerminalPort}
    BY WebTerminalLooks DEF Looks
  <2> QED
    BY <2>1, <2>2, Listens
<1>4. IsMetricsEnabled(s) => ListensOn(s, config, MetricsPort(s))
  <2>1. IsMetricsEnabled(s) => buildOTelCollectorContainer(s) \in AllContainers(s)
    BY DEF AllContainers, buildContainers, When
  <2>2. buildOTelCollectorContainer(s).ports = {MetricsPort(s)}
    BY OTelCollectorLooks DEF Looks
  <2>3. MetricsPort(s) \notin {GatewayPort, CanvasPort}
    BY SpecValues DEF MetricsPort, Unset
  <2> QED
    BY <2>1, <2>2, <2>3, Listens
<1> QED
  BY <1>1, <1>2, <1>3, <1>4

\* ServicePortsAreServed for one spec and the config it renders to.
LEMMA PortsAreServed ==
    ASSUME NEW s, IsSpec(s), NEW config, customPorts(s) = {},
           config["bind"] = "loopback" => IsGatewayProxyEnabled(s)
    PROVE  /\ \A p \in buildServicePorts(s) : ListensOn(s, config, p[3])
           /\ ListensOn(s, config, probeTargetPort(s))
           /\ \A b \in ingressBackends(s) \cup httpRouteBackends(s) :
                 (b = WebTerminalPort => s.webTerminal # "off") => \E p \in buildServicePorts(s) : p[2] = b
           /\ \A p \in buildServicePorts(s) :
                 p[1] # "metrics" => \E r \in buildIngressRules(s) : r[2] = p[3]
<1> DEFINE gateway == <<"gateway", GatewayPort, GatewayTarget(s)>>
           canvas == <<"canvas", CanvasPort, CanvasTarget(s)>>
           chromium == <<"chromium", ChromiumPort, ChromiumPort>>
           terminal == <<"web-terminal", WebTerminalPort, WebTerminalPort>>
           metrics == <<"metrics", MetricsPort(s), MetricsPort(s)>>
<1>1. ASSUME NEW p \in buildServicePorts(s)
      PROVE  \/ p = gateway \/ p = canvas
             \/ s.chromium # "off" /\ p = chromium
             \/ s.webTerminal # "off" /\ p = terminal
             \/ IsMetricsEnabled(s) /\ p = metrics
  BY DEF buildServicePorts, appendMetricsPort, defaultServicePorts, When
<1>2. /\ gateway \in buildServicePorts(s)
      /\ s.webTerminal # "off" => terminal \in buildServicePorts(s)
  BY DEF buildServicePorts, appendMetricsPort, defaultServicePorts, When
<1>3. \A p \in buildServicePorts(s) : ListensOn(s, config, p[3])
  BY <1>1, PortsAreListenedOn
<1>4. ListensOn(s, config, probeTargetPort(s))
  BY PortsAreListenedOn DEF probeTargetPort, GatewayTarget
<1>5. ASSUME NEW b \in ingressBackends(s) \cup httpRouteBackends(s),
             b = WebTerminalPort => s.webTerminal # "off"
      PROVE  \E p \in buildServicePorts(s) : p[2] = b
  <2>1. b = GatewayPort \/ b = WebTerminalPort
    BY SpecValues DEF ingressBackends, httpRouteBackends, When
  <2> QED
    BY <1>2, <1>5, <2>1
<1>6. ASSUME NEW p \in buildServicePorts(s), p[1] # "metrics"
      PROVE  \E r \in buildIngressRules(s) : r[2] = p[3]
  <2>1. p[3] \in networkPolicyIngressPorts(s)
    BY <1>1, <1>6 DEF networkPolicyIngressPorts, When
  <2>2. <<"allowed", p[3]>> \in buildIngressRules(s)
    BY <2>1 DEF buildIngressRules, otherPeers
  <2> QED
    BY <2>2
<1> QED
  BY <1>3, <1>4, <1>5, <1>6

\* MetricsReachTheirPeers for one spec.
LEMMA MetricsPeersAreRight ==
    ASSUME NEW s, IsSpec(s), ~Collides(s)
    PROVE  /\ s.servicePorts # "metrics" =>
                {r[1] : r \in {x \in buildIngressRules(s) : x[2] = MetricsPort(s)}} = metricsPeers(s)
           /\ \A n \in serviceMonitorPorts(s) :
                \E p \in buildServicePorts(s) : p[1] = n /\ p[3] = MetricsPort(s)
<1> USE DEF GatewayPort, CanvasPort, GatewayProxyPort, CanvasProxyPort, ChromiumPort, WebTerminalPort,
            DefaultMetricsPort, CustomPort
<1>0. MetricsPort(s) \in {9464, ChromiumPort, DefaultMetricsPort}
  BY SpecValues DEF MetricsPort, Unset
<1>1. ASSUME s.servicePorts # "metrics"
      PROVE  {r[1] : r \in {x \in buildIngressRules(s) : x[2] = MetricsPort(s)}} = metricsPeers(s)
  <2>1. MetricsPort(s) \notin networkPolicyIngressPorts(s)
    <3>1. CASE s.servicePorts = "own"
      BY <1>0, <3>1 DEF networkPolicyIngressPorts, customPorts
    <3>2. CASE s.servicePorts = "none"
      BY <1>0, <3>2 DEF networkPolicyIngressPorts, customPorts, GatewayTarget, CanvasTarget, When, Collides
    <3> QED
      BY <1>1, <3>1, <3>2, SpecValues
  <2> DEFINE peers == When(s.allowSameNamespace, {"sameNamespace"}) \cup otherPeers
  <2>2. buildIngressRules(s) =
          (peers \X networkPolicyIngressPorts(s)) \cup (metricsPeers(s) \X {MetricsPort(s)})
    BY DEF buildIngressRules
  <2> HIDE DEF peers
  <2>3. ASSUME NEW m \in metricsPeers(s) PROVE <<m, MetricsPort(s)>> \in buildIngressRules(s)
    BY <2>2
  <2>4. ASSUME NEW x \in buildIngressRules(s), x[2] = MetricsPort(s) PROVE x[1] \in metricsPeers(s)
    BY <2>1, <2>2, <2>4
  <2> DEFINE R == {x \in buildIngressRules(s) : x[2] = MetricsPort(s)}
  <2>5. {r[1] : r \in R} \subseteq metricsPeers(s)
    BY <2>4
  <2>6. ASSUME NEW m \in metricsPeers(s) PROVE m \in {r[1] : r \in R}
    <3>1. <<m, MetricsPort(s)>> \in R /\ <<m, MetricsPort(s)>>[1] = m
      BY <2>3
    <3> QED
      BY <3>1
  <2> QED
    BY <2>5, <2>6
<1>2. ASSUME NEW n \in serviceMonitorPorts(s)
      PROVE  \E p \in buildServicePorts(s) : p[1] = n /\ p[3] = MetricsPort(s)
  <2>1. n = "metrics" /\ IsMetricsEnabled(s)
    BY <1>2 DEF serviceMonitorPorts, When
  <2> DEFINE m == <<"metrics", MetricsPort(s), MetricsPort(s)>>
  <2>2. m \in buildServicePorts(s)
    <3>1. CASE s.servicePorts = "none"
      BY <1>0, <2>1, <3>1 DEF buildServicePorts, appendMetricsPort, customPorts, defaultServicePorts, When,
                              Collides
    <3>2. CASE s.servicePorts = "own"
      <4>1. customPorts(s) = {<<"own", CustomPort, GatewayProxyPort>>}
        BY <3>2 DEF customPorts
      <4>2. \A p \in customPorts(s) : p[1] # "metrics" /\ p[2] # MetricsPort(s)
        BY <1>0, <4>1
      <4>3. buildServicePorts(s) = appendMetricsPort(s, customPorts(s))
        BY <4>1 DEF buildServicePorts
      <4> HIDE DEF m
      <4> QED
        BY <2>1, <4>2, <4>3 DEF appendMetricsPort, m
    <3>3. CASE s.servicePorts = "metrics"
      BY <3>3 DEF buildServicePorts, appendMetricsPort, customPorts
    <3> QED
      BY <3>1, <3>2, <3>3, SpecValues
  <2> QED
    BY <2>1, <2>2
<1> QED
  BY <1>1, <1>2

\* No other container has the name of the mesh sidecar.
LEMMA OnlyTheMeshIsTailscale ==
    ASSUME NEW s, IsSpec(s), NEW c \in AllContainers(s), c.name = "tailscale"
    PROVE  ActiveMeshProvider(s) = "tailscale"
<1>1. CASE c \in buildContainers(s)
  BY ZenonT(60), <1>1, MainLooks, GatewayProxyLooks, NetBirdLooks, OllamaLooks, WebTerminalLooks, OTelCollectorLooks
     DEF Looks, buildContainers, MeshSidecarContainers, When
<1>2. CASE c \in {shareGatewayIdentity(s, o) : o \in OwnInit(s)}
  <2>0. PICK o \in OwnInit(s) : c = shareGatewayIdentity(s, o)
    BY <1>2
  <2>1. c.name = o.name
    BY <2>0, OwnInitAreContainers, SharedLooks
  <2>2. o.name # "tailscale"
    <3> DEFINE Other(d) == d.name # "tailscale"
    <3>1. /\ Other(buildDataOwnerInitContainer(s)) /\ Other(buildConfigInitContainer(s))
          /\ Other(buildTailscaleBinInitContainer(s)) /\ Other(buildUvInitContainer(s))
          /\ Other(buildPipInitContainer(s)) /\ Other(buildPluginRuntimeDepsInitContainer(s))
      BY DataOwnerInitLooks, ConfigInitLooks, TailscaleBinInitLooks, UvInitLooks, PipInitLooks,
         PluginRuntimeDepsInitLooks DEF Looks
    <3>2. /\ Other(buildPnpmInitContainer(s)) /\ Other(buildPythonInitContainer(s))
          /\ Other(buildSkillsInitContainer(s)) /\ Other(buildPluginsInitContainer(s))
          /\ Other(buildPluginScratchInitContainer(buildPluginsInitContainer(s)))
      BY PnpmInitLooks, PythonInitLooks, SkillsInitLooks, PluginsInitLooks, PluginScratchInitLooks DEF Looks
    <3> QED
      BY <3>1, <3>2 DEF OwnInit, When
  <2> QED
    BY <2>1, <2>2
<1>3. CASE c = buildOllamaModelPullInitContainer(s)
  BY <1>3, OllamaModelPullInitLooks DEF Looks
<1>4. CASE c = buildChromiumContainer(s)
  BY <1>4, ChromiumLooks DEF Looks
<1>5. CASE c \in {Container(n, {}, Unset, "unset") : n \in s.initContainers}
  <2>1. PICK n \in s.initContainers : c = Container(n, {}, Unset, "unset")
    BY <1>5
  <2>2. c.name = n
    BY <2>1, UsersInitLooks DEF Looks
  <2> QED
    BY <2>2, InitContainerNames
<1> QED
  BY <1>1, <1>2, <1>3, <1>4, <1>5, InitContainersAre DEF AllContainers, When

-----------------------------------------------------------------------------
(* Specs on their way through the webhook and the reconciler. *)

LEMMA EditedIsSpec ==
    ASSUME NEW s, IsSpec(s), NEW f \in DOMAIN Fields, NEW v \in Fields[f]
    PROVE  IsSpec([s EXCEPT ![f] = v])
  BY DEF IsSpec

LEMMA DefaultIsSpec ==
    ASSUME NEW s, IsSpec(s)
    PROVE  IsSpec(Default(s))
<1>1. /\ "latest" \in Fields["imageTag"] /\ "overwrite" \in Fields["mergeMode"]
      /\ "json" \in Fields["format"] /\ DefaultUser \in Fields["podRunAsUser"]
      /\ "true" \in Fields["podRunAsNonRoot"] /\ "10Gi" \in Fields["size"]
      /\ 24 * Hour \in Fields["checkInterval"] /\ 10 \in Fields["healthCheckTimeout"]
  BY FieldsOf DEF StorageFields, SecurityFields, ConfigFields, ImageFields
<1>2. "4Gi" \in Fields["limits"]
  BY FieldsOf DEF WorkloadFields
<1>3. DOMAIN Default(s) = DOMAIN Fields
  BY DEF Default, IsSpec
<1>4. ASSUME NEW f \in DOMAIN Fields PROVE Default(s)[f] \in Fields[f]
  BY <1>1, <1>2 DEF Default, IsSpec
<1> QED
  BY <1>3, <1>4 DEF IsSpec

LEMMA MergedIsSpec ==
    ASSUME NEW s, IsSpec(s), NEW d \in ClusterDefaults
    PROVE  IsSpec(ApplyClusterDefaults(s, d))
<1>1. /\ d.registry \in Fields["registry"] /\ d.imageTag \in Fields["imageTag"]
      /\ d.imageDigest \in Fields["imageDigest"]
  BY ManifestsAssumption, FieldsOf DEF ImageFields
<1>2. Fields["pnpm"] = BOOLEAN /\ Fields["python"] = BOOLEAN
  BY FieldsOf DEF WorkloadFields
<1>3. DOMAIN ApplyClusterDefaults(s, d) = DOMAIN Fields
  BY DEF ApplyClusterDefaults, IsSpec
<1>4. ASSUME NEW f \in DOMAIN Fields PROVE ApplyClusterDefaults(s, d)[f] \in Fields[f]
  BY <1>1, <1>2 DEF ApplyClusterDefaults, IsSpec
<1> QED
  BY <1>3, <1>4 DEF IsSpec

\* What the builders need of a spec.
Buildable(s) == IsSpec(s) /\ validatePodUser(s) /\ validateCABundle(s)

LEMMA MergedIsBuildable ==
    ASSUME NEW s, Buildable(s), NEW d \in ClusterDefaults
    PROVE  Buildable(ApplyClusterDefaults(s, d))
<1>1. {"podRunAsUser", "caBundle"} \subseteq DOMAIN s
  BY FieldsOf DEF Buildable, IsSpec, SecurityFields
<1> QED
  BY <1>1, MergedIsSpec DEF Buildable, ApplyClusterDefaults, validatePodUser, validateCABundle

-----------------------------------------------------------------------------
(* The inductive invariant. *)

\* What inline config renders to.
Rendered(s) == BuildConfigMapFromBytes(s, s.raw, TRUE)

IInv ==
    /\ Buildable(spec)
    /\ defaults \in ClusterDefaults
    /\ pass # None => Buildable(pass) /\ cm # None
    /\ sts # None => Buildable(sts) /\ cm # None
    /\ cm # None /\ ~cm.of.configMapRef => cm.data = Rendered(cm.of)
    /\ pod # None => /\ Buildable(pod.spec) /\ cm # None
                     /\ ~pod.early /\ ~pod.spec.configMapRef => pod.config = Rendered(pod.spec)

LEMMA ConfigMapIsRendered ==
    ASSUME NEW s
    PROVE  /\ reconcileConfigMap(s) # None /\ reconcileConfigMap(s).of = s
           /\ ~s.configMapRef => reconcileConfigMap(s).data = Rendered(s)
<1>1. "of" \in DOMAIN reconcileConfigMap(s) /\ "of" \notin DOMAIN None
  BY DEF reconcileConfigMap, None, Empty
<1>2. reconcileConfigMap(s).of = s
  BY DEF reconcileConfigMap
<1>3. ~s.configMapRef => reconcileConfigMap(s).data = Rendered(s)
  BY DEF reconcileConfigMap, baseConfig, Rendered
<1> QED
  BY <1>1, <1>2, <1>3

LEMMA PodReads ==
    ASSUME IInv, cm # None, NEW s, Buildable(s), pod' = ReadsConfig(s)
    PROVE  /\ Buildable(pod'.spec)
           /\ ~pod'.early /\ ~pod'.spec.configMapRef => pod'.config = Rendered(pod'.spec)
<1>1. pod'.spec = s /\ pod'.config = cm.data /\ (~pod'.early => cm.of = s)
  BY DEF ReadsConfig
<1> QED
  BY <1>1 DEF IInv

LEMMA InitIInv ==
    Init => IInv
<1> SUFFICES ASSUME Init PROVE IInv
  OBVIOUS
<1>1. PICK s \in Profiles : spec = Default(s) /\ ValidateCreate(Default(s))
  BY DEF Init
<1>2. IsSpec(spec)
  BY <1>1, DefaultIsSpec, ManifestsAssumption
<1>3. Buildable(spec)
  BY <1>1, <1>2 DEF Buildable, ValidateCreate, validate
<1> QED
  BY <1>3, ManifestsAssumption DEF Init, IInv

LEMMA NextIInv ==
    IInv /\ [Next]_vars => IInv'
<1> SUFFICES ASSUME IInv, [Next]_vars PROVE IInv'
  OBVIOUS
<1>1. CASE UserEdits
  <2>0. PICK f \in EditedFields : \E v \in Fields[f] :
           LET new == Default([spec EXCEPT ![f] = v]) IN ValidateUpdate(spec, new) /\ spec' = new
    BY <1>1 DEF UserEdits
  <2>1. PICK v \in Fields[f] :
           LET new == Default([spec EXCEPT ![f] = v]) IN ValidateUpdate(spec, new) /\ spec' = new
    BY <2>0
  <2>2. IsSpec(spec')
    BY <2>1, EditedIsSpec, DefaultIsSpec, ManifestsAssumption DEF IInv, Buildable
  <2>3. Buildable(spec')
    BY <2>1, <2>2 DEF Buildable, ValidateUpdate, validate
  <2> QED
    BY <1>1, <2>3 DEF UserEdits, IInv
<1>2. CASE ExternalConfigChanges
  BY <1>2 DEF ExternalConfigChanges, IInv
<1>3. CASE ClusterDefaultsChange
  BY <1>3 DEF ClusterDefaultsChange, IInv
<1>4. CASE ReconcileConfigMap
  <2>1. Buildable(Merged)
    BY MergedIsBuildable DEF IInv, Merged
  <2>2. pass' = Merged /\ cm' = reconcileConfigMap(Merged)
    BY <1>4 DEF ReconcileConfigMap
  <2>3. cm' # None /\ (~cm'.of.configMapRef => cm'.data = Rendered(cm'.of))
    BY <2>2, ConfigMapIsRendered
  <2> QED
    BY <1>4, <2>1, <2>2, <2>3 DEF ReconcileConfigMap, IInv
<1>5. CASE ReconcileStatefulSet
  BY <1>5 DEF ReconcileStatefulSet, IInv
<1>6. CASE PassFails
  BY <1>6 DEF PassFails, IInv
<1>7. CASE Rollout
  <2>1. sts # None /\ pod' = ReadsConfig(sts)
    BY <1>7 DEF Rollout, RolloutPending
  <2>2. cm # None /\ Buildable(sts)
    BY <2>1 DEF IInv
  <2> QED
    BY <1>7, <2>1, <2>2, PodReads DEF Rollout, IInv
<1>8. CASE ScaleDown
  BY <1>8 DEF ScaleDown, IInv
<1>9. CASE RestartContainer
  <2>1. pod # None /\ pod' = ReadsConfig(pod.spec)
    BY <1>9 DEF RestartContainer
  <2>2. cm # None /\ Buildable(pod.spec)
    BY <2>1 DEF IInv
  <2> QED
    BY <1>9, <2>1, <2>2, PodReads DEF RestartContainer, IInv
<1>10. CASE UNCHANGED vars
  BY <1>10 DEF vars, IInv
<1> QED
  BY <1>1, <1>2, <1>3, <1>4, <1>5, <1>6, <1>7, <1>8, <1>9, <1>10 DEF Next

(* The inductive invariant holds in every reachable state. *)
THEOREM Inductive == Spec => []IInv
  BY InitIInv, NextIInv, PTL DEF Spec

-----------------------------------------------------------------------------
(* The properties. *)

LEMMA BuiltSpecs ==
    ASSUME IInv, PassComplete
    PROVE  Buildable(sts)
  BY DEF IInv, PassComplete

(* In the manifests of a complete pass every mount of every container has its one volume
   (buildVolumes, buildContainers, buildInitContainers), whatever the webhook admits and
   whatever the cluster defaults add. *)
THEOREM EveryMountIsDeclared == Spec => []EveryMountHasAVolume
<1>1. IInv => EveryMountHasAVolume
  <2> SUFFICES ASSUME IInv, PassComplete
               PROVE  LET volumes == buildVolumes(sts)
                          names == {v[1] : v \in volumes}
                          claims == volumeClaimTemplates(sts)
                      IN  /\ \A v, w \in volumes : v[1] = w[1] => v = w
                          /\ names \cap claims = {}
                          /\ \A c \in AllContainers(sts) : c.mounts \subseteq names \cup claims
    BY DEF EveryMountHasAVolume
  <2>1. IsSpec(sts) /\ validateCABundle(sts)
    BY BuiltSpecs DEF Buildable
  <2>2. ASSUME NEW v \in buildVolumes(sts), NEW w \in buildVolumes(sts), v[1] = w[1] PROVE v = w
    BY <2>1, <2>2, VolumesAreBacked
  <2>3. {v[1] : v \in buildVolumes(sts)} \cap volumeClaimTemplates(sts) = {}
    BY <2>1, VolumesAreBacked DEF volumeClaimTemplates, When
  <2>4. \A c \in AllContainers(sts) : c.mounts \subseteq Declared(sts)
    BY <2>1, MountsHaveVolumes
  <2> QED
    BY <2>2, <2>3, <2>4 DEF Declared
<1> QED
  BY <1>1, Inductive, PTL

(* The users of the containers fit together: the kubelet starts each of them, and the
   writers of the data volume share its owner (shareGatewayIdentity). *)
THEOREM UsersFit == Spec => []ContainerUsersFit
<1>1. IInv => ContainerUsersFit
  <2> SUFFICES ASSUME IInv, PassComplete, NEW c \in AllContainers(sts) PROVE UserFits(sts, c)
    BY DEF ContainerUsersFit, UserFits
  <2>1. IsSpec(sts) /\ validatePodUser(sts)
    BY BuiltSpecs DEF Buildable
  <2> QED
    BY <2>1, ContainersFit, FitsIsEnough
<1> QED
  BY <1>1, Inductive, PTL

(* Every default port of the Service, and the probes, reach a listener, and the policy
   lets them through (buildServicePorts, buildIngressRules, enrichConfigWithGatewayBind). *)
THEOREM PortsAreReached == Spec => []ServicePortsAreServed
<1>1. IInv => ServicePortsAreServed
  <2> SUFFICES ASSUME IInv, PassComplete, cm # None, cm.of = sts, ~sts.configMapRef,
                      customPorts(sts) = {}, ~HasGatewayBindConflict(sts)
               PROVE  /\ \A p \in buildServicePorts(sts) : ListensOn(sts, cm.data.json, p[3])
                      /\ ListensOn(sts, cm.data.json, probeTargetPort(sts))
                      /\ \A b \in ingressBackends(sts) \cup httpRouteBackends(sts) :
                            (b = WebTerminalPort => sts.webTerminal # "off") =>
                                \E p \in buildServicePorts(sts) : p[2] = b
                      /\ \A p \in buildServicePorts(sts) :
                            p[1] # "metrics" => \E r \in buildIngressRules(sts) : r[2] = p[3]
    BY DEF ServicePortsAreServed
  <2>1. IsSpec(sts)
    BY BuiltSpecs DEF Buildable
  <2>2. cm.data.json = BuildConfigMapFromBytes(sts, sts.raw, TRUE).json
    BY DEF IInv, Rendered
  <2>3. "cdpUrl" \notin DOMAIN sts.raw /\ ("bind" \in DOMAIN sts.raw => sts.raw["bind"] = "loopback")
    BY <2>1, SpecValues, UserConfigSettings
  <2>4. cm.data.json["bind"] = "loopback" => IsGatewayProxyEnabled(sts)
    <3>1. cm.data.json["bind"] = "loopback" => "bind" \in DOMAIN sts.raw \/ IsGatewayProxyEnabled(sts)
      BY <2>2, <2>3, RenderedSettings
    <3> QED
      BY <2>3, <3>1 DEF HasGatewayBindConflict
  <2> QED
    BY <2>1, <2>4, PortsAreServed
<1> QED
  BY <1>1, Inductive, PTL

(* The metrics endpoint is open to the peers that metricsIngress names and to no other,
   and a ServiceMonitor finds its port (appendMetricsPort, buildIngressRules). *)
THEOREM MetricsArePrivate == Spec => []MetricsReachTheirPeers
<1>1. IInv => MetricsReachTheirPeers
  <2> SUFFICES ASSUME IInv, PassComplete, ~Collides(sts)
               PROVE  /\ sts.servicePorts # "metrics" =>
                            {r[1] : r \in {x \in buildIngressRules(sts) : x[2] = MetricsPort(sts)}}
                              = metricsPeers(sts)
                      /\ \A n \in serviceMonitorPorts(sts) :
                            \E p \in buildServicePorts(sts) : p[1] = n /\ p[3] = MetricsPort(sts)
    BY DEF MetricsReachTheirPeers
  <2> QED
    BY BuiltSpecs, MetricsPeersAreRight DEF Buildable
<1> QED
  BY <1>1, Inductive, PTL

(* A pod that calls the API server has the token, the Role and the egress rule for it
   (automountServiceAccountToken, BuildRole, buildEgressRules). *)
THEOREM APIUsersHaveAccess == Spec => []APIUsersAreEquipped
<1>1. IInv => APIUsersAreEquipped
  <2> SUFFICES ASSUME IInv, PassComplete PROVE APIUsersAreEquipped
    BY DEF APIUsersAreEquipped
  <2>1. (\E c \in AllContainers(sts) : c.name = "tailscale") => ActiveMeshProvider(sts) = "tailscale"
    BY BuiltSpecs, OnlyTheMeshIsTailscale DEF Buildable
  <2> QED
    BY <2>1 DEF APIUsersAreEquipped, automountServiceAccountToken, MeshNeedsServiceAccountToken,
                BuildRole, buildEgressRules, When
<1> QED
  BY <1>1, Inductive, PTL

(* A settled pod runs with the config its spec renders to: calculateConfigHash, taken
   without the gateway token and without some of the fields, still tells apart any two
   specs that render to different ConfigMaps. *)
THEOREM InlineConfigArrives == Spec => []InlineConfigReachesThePod
<1>1. IInv => InlineConfigReachesThePod
  <2> SUFFICES ASSUME IInv, pod # None, ~pod.early, ~sts.configMapRef, Settled
               PROVE  pod.config = cm.data
    BY DEF InlineConfigReachesThePod
  <2>1. cm # None /\ IsSpec(pod.spec)
    BY DEF IInv, Buildable
  <2>2. sts = Merged /\ cm = reconcileConfigMap(sts)
    BY DEF Settled, UpToDate
  <2>3. Buildable(sts)
    BY <2>2, MergedIsBuildable DEF IInv, Merged
  <2>4. cm.data = Rendered(sts)
    BY <2>2, ConfigMapIsRendered
  <2>5. sts # None
    <3>1. "raw" \in DOMAIN sts
      BY <2>3, FieldsOf DEF Buildable, IsSpec, ConfigFields
    <3> QED
      BY <3>1 DEF None, Empty
  <2>6. pod.spec = sts \/ BuildStatefulSet(pod.spec) = BuildStatefulSet(sts)
    BY <2>5 DEF Settled, RolloutPending
  <2>7. calculateConfigHash(pod.spec) = calculateConfigHash(sts)
    BY <2>6 DEF BuildStatefulSet
  <2>8. /\ ~pod.spec.configMapRef
        /\ BuildConfigMapFromBytes(pod.spec, pod.spec.raw, TRUE) = BuildConfigMapFromBytes(sts, sts.raw, TRUE)
    BY <2>1, <2>3, <2>7, HashCoversTheConfig DEF Buildable
  <2> QED
    BY <2>4, <2>8 DEF IInv, Rendered
<1> QED
  BY <1>1, Inductive, PTL
=============================================================================
