------------------------- MODULE SelfConfig_proofs -------------------------
(***************************************************************************)
(* Proofs about SelfConfig, for every set of requests, fields, values and  *)
(* protected names, any lag of the caches and any number of edits and      *)
(* faults.                                                                 *)
(*                                                                         *)
(* A pass and the two caches hold copies of what was stored earlier, so no *)
(* property of the stored objects is inductive by itself: the copies of    *)
(* the instance must have the property too (Given), the cached requests be *)
(* older revisions of the stored ones (Behind), and a pass between two of  *)
(* its writes must satisfy what its next write relies on (PassOK).         *)
(***************************************************************************)
EXTENDS SelfConfig, TLAPS

\* Every protected value in v was given by the user or by GitOps.
Given(v) == \A f \in Protected : v[f] # None => v[f] \in everSet[f]

Expired(x) == x.phase \in Terminal /\ x.done = "expired"

\* a is the revision x of a request, or an earlier one.
Behind(a, x) ==
    /\ a.spec = x.spec
    /\ a.phase = "gone" => x.phase = "gone"
    /\ a.phase \in Terminal => x.phase \in {a.phase, "gone"}
    /\ Expired(a) /\ x.phase # "gone" => Expired(x)

PassOK ==
    /\ pc # "idle" => cur \in Requests
    /\ pc = "apply" => ~buildError(req[cur].spec)
    /\ pc \in {"apply", "owner", "status"} /\ mcur => req[cur].phase \notin Terminal
    /\ pc = "delete" => req[cur].phase = "gone" \/ Expired(req[cur])
    /\ pc = "owner" \/ (pc = "status" /\ verdict = "Applied") => cur \in applied

IInv ==
    /\ TypeOK
    /\ Given(inst.val) /\ Given(seenInst.val) /\ Given(copy)
    /\ \A r \in Requests : Behind(seenReq[r], req[r])
    /\ \A r \in Requests : req[r].phase = "Applied" => r \in applied
    /\ PassOK

\* The part of IInv that says nothing of the caches.
StoredInv ==
    /\ inst \in InstanceType /\ req \in [Requests -> RequestType]
    /\ pc \in {"idle", "apply", "owner", "status", "delete"}
    /\ cur \in Requests \cup {None}
    /\ copy \in [Fields -> Values \cup {None}]
    /\ mcur \in BOOLEAN /\ warned \subseteq Fields /\ unseen \subseteq Fields
    /\ verdict \in Terminal
    /\ edits \in 0..MaxEdits /\ faults \in 0..MaxFaults
    /\ applied \subseteq Requests
    /\ everSet \in [Protected -> SUBSET Values]
    /\ Given(inst.val) /\ Given(copy)
    /\ \A r \in Requests : req[r].phase = "Applied" => r \in applied
    /\ PassOK

SeenInv ==
    /\ seenInst \in InstanceType /\ seenReq \in [Requests -> RequestType]
    /\ Given(seenInst.val)
    /\ \A r \in Requests : Behind(seenReq[r], req[r])

LEMMA IInvParts == IInv <=> StoredInv /\ SeenInv
BY DEF IInv, StoredInv, SeenInv, TypeOK

-----------------------------------------------------------------------------
(* Lemmas on the operators *)

\* A request's spec sets fields to values and removes fields.
LEMMA SpecOfRequest ==
    ASSUME NEW x \in RequestType
    PROVE  /\ DOMAIN x.spec.add \subseteq Fields
           /\ \A f \in DOMAIN x.spec.add : x.spec.add[f] \in Values
           /\ x.spec.remove \subseteq Fields
<1>1. PICK r \in Requests : x.spec \in RequestSpecs[r]
  BY DEF RequestType
<1> QED
  BY <1>1, ConstantsAssumption

\* What is applied: values of the request where it adds them, and of the copy.
LEMMA WhatIsApplied ==
    ASSUME NEW v \in [Fields -> Values \cup {None}], NEW x \in RequestType,
           NEW f \in DOMAIN buildApplySpec(v, x.spec)
    PROVE  /\ f \in Fields
           /\ buildApplySpec(v, x.spec)[f] =
                 IF f \in DOMAIN x.spec.add THEN x.spec.add[f] ELSE v[f]
           /\ buildApplySpec(v, x.spec)[f] \in Values
<1> DEFINE q == x.spec
           Part(c) == CASE c = "skills" -> buildSkillsApply(v, q)
                        [] c = "config" -> buildConfigApply(v, q)
                        [] c = "workspaceFiles" -> buildWorkspaceFilesApply(v, q)
                        [] c = "envVars" -> buildEnvApply(v, q)
           chosen == UNION {Part(c) : c \in determineActions(q)}
<1>1. buildApplySpec(v, q) = [g \in chosen |-> IF g \in DOMAIN q.add THEN q.add[g] ELSE v[g]]
  BY DEF buildApplySpec
<1>2. \A c \in determineActions(q) : Part(c) \subseteq Fields \cap (Set(v) \cup DOMAIN q.add)
  BY DEF determineActions, Categories, buildSkillsApply, buildConfigApply,
         buildWorkspaceFilesApply, buildEnvApply, Of
<1>3. chosen \subseteq Fields \cap (Set(v) \cup DOMAIN q.add)
  <2> HIDE DEF Part
  <2> QED BY <1>2
<1>4. f \in chosen
  <2> HIDE DEF chosen
  <2> QED BY <1>1
<1> HIDE DEF chosen
<1> QED
  BY <1>1, <1>3, <1>4, SpecOfRequest DEF Set

\* Nothing that is applied is empty.
LEMMA AppliedIsThere ==
    ASSUME NEW v \in [Fields -> Values \cup {None}], NEW x \in RequestType,
           NEW a, a = buildApplySpec(v, x.spec)
    PROVE  \A f \in DOMAIN a : a[f] # None
<1> SUFFICES ASSUME NEW f \in DOMAIN a PROVE a[f] # None
  OBVIOUS
<1>1. buildApplySpec(v, x.spec)[f] \in Values
  BY WhatIsApplied
<1> QED
  BY <1>1, ConstantsAssumption

\* Server-side apply keeps the type of an instance.
LEMMA ApplyType ==
    ASSUME NEW x \in InstanceType, NEW m \in Managers, NEW a,
           DOMAIN a \subseteq Fields, \A f \in DOMAIN a : a[f] \in Values \cup {None}
    PROVE  ServerSideApply(x, m, a) \in InstanceType
<1> DEFINE val == [f \in Fields |-> IF f \in DOMAIN a THEN a[f]
                                    ELSE IF x.own[f] = {m} THEN None ELSE x.val[f]]
           own == [f \in Fields |-> IF f \in DOMAIN a
                                    THEN IF a[f] = x.val[f] THEN x.own[f] \cup {m} ELSE {m}
                                    ELSE x.own[f] \ {m}]
<1>1. val \in [Fields -> Values \cup {None}]
  BY DEF InstanceType
<1>2. own \in [Fields -> SUBSET Managers]
  BY DEF InstanceType
<1>3. ServerSideApply(x, m, a) = [x EXCEPT !.val = val, !.own = own]
  BY DEF ServerSideApply
<1> HIDE DEF val, own
<1> QED
  BY <1>1, <1>2, <1>3 DEF InstanceType

LEMMA GoneType == Gone \in InstanceType
BY DEF Gone, InstanceType, NoFields, NoOwners

\* Where a value comes from after a server-side apply.
LEMMA ApplyValues ==
    ASSUME NEW x \in InstanceType, NEW m, NEW a, NEW f \in Fields
    PROVE  ServerSideApply(x, m, a).val[f] \in
              IF f \in DOMAIN a THEN {a[f]} ELSE {None, x.val[f]}
BY DEF ServerSideApply, InstanceType

\* The patch of a pass: a well-formed instance ...
LEMMA PatchedType ==
    ASSUME inst \in InstanceType, NEW v \in [Fields -> Values \cup {None}], NEW x \in RequestType
    PROVE  Patched(v, x.spec) \in InstanceType
<1> DEFINE base == IF inst.exists THEN inst ELSE [Gone EXCEPT !.exists = TRUE]
           a == buildApplySpec(v, x.spec)
<1>1. base \in InstanceType
  BY GoneType DEF InstanceType
<1>2. DOMAIN a \subseteq Fields /\ \A f \in DOMAIN a : a[f] \in Values \cup {None}
  BY WhatIsApplied
<1>3. SelfConfigFieldManager \in Managers
  BY DEF Managers
<1> HIDE DEF base, a
<1>4. ServerSideApply(base, SelfConfigFieldManager, a) \in InstanceType
  BY <1>1, <1>2, <1>3, ApplyType
<1> QED
  BY <1>4 DEF Patched, base, a

\* ... whose protected values are those of the copy or those stored.
LEMMA PatchedGiven ==
    ASSUME inst \in InstanceType, NEW v \in [Fields -> Values \cup {None}], NEW x \in RequestType,
           Given(inst.val), Given(v), ~buildError(x.spec)
    PROVE  Given(Patched(v, x.spec).val)
<1> DEFINE base == IF inst.exists THEN inst ELSE [Gone EXCEPT !.exists = TRUE]
           a == buildApplySpec(v, x.spec)
<1> SUFFICES ASSUME NEW f \in Protected, Patched(v, x.spec).val[f] # None
             PROVE  Patched(v, x.spec).val[f] \in everSet[f]
  BY DEF Given
<1>1. base \in InstanceType
  BY GoneType DEF InstanceType
<1>2. f \in Fields /\ f \notin DOMAIN x.spec.add
  BY ConstantsAssumption DEF buildError
<1>3. f \in DOMAIN a => a[f] = v[f]
  BY <1>2, WhatIsApplied
<1>4. base.val[f] \in {None, inst.val[f]}
  BY <1>2 DEF Gone, NoFields
<1> HIDE DEF base, a
<1>5. Patched(v, x.spec).val[f] \in IF f \in DOMAIN a THEN {a[f]} ELSE {None, base.val[f]}
  BY <1>1, <1>2, ApplyValues DEF Patched, base, a
<1> QED
  BY <1>3, <1>4, <1>5 DEF Given

\* Behind is a preorder.
LEMMA BehindOrder ==
    /\ \A a : Behind(a, a)
    /\ \A a, b, c : Behind(a, b) /\ Behind(b, c) => Behind(a, c)
BY DEF Behind, Expired, Terminal

-----------------------------------------------------------------------------
(* The steps *)

\* What every step does to the history and to the stored requests.
Forward ==
    /\ \A f \in Protected : everSet[f] \subseteq everSet'[f]
    /\ \A r \in Requests : Behind(req[r], req'[r])

\* The caches keep what they show or show what is stored.
LEMMA CachesFollow ==
    ASSUME IInv, StoredInv', Forward, Observed
    PROVE  IInv'
<1>1. seenInst' \in {seenInst, inst'} /\ seenReq' \in {seenReq, req'}
  BY DEF Observed
<1>2. StoredInv /\ SeenInv
  BY IInvParts
<1>3. seenInst' \in InstanceType /\ seenReq' \in [Requests -> RequestType]
  BY <1>1, <1>2 DEF StoredInv, SeenInv
<1>4. Given(seenInst.val)'
  <2>1. CASE seenInst' = inst'
    BY <2>1 DEF StoredInv, Given
  <2>2. CASE seenInst' = seenInst
    BY <2>2, <1>2 DEF SeenInv, Given, Forward
  <2> QED BY <1>1, <2>1, <2>2
<1>5. ASSUME NEW r \in Requests PROVE Behind(seenReq'[r], req'[r])
  BY <1>1, <1>2, BehindOrder DEF SeenInv, Forward
<1>6. SeenInv'
  BY <1>3, <1>4, <1>5 DEF SeenInv
<1>7. (IInv <=> StoredInv /\ SeenInv)'
  BY IInvParts, PTL
<1> QED
  BY <1>6, <1>7

\* Steps that write neither to the instance nor to a request.
LEMMA ReconcileStep ==
    ASSUME IInv, NEW r \in Requests, Reconcile(r)
    PROVE  StoredInv' /\ Forward
<1> DEFINE sc == seenReq[r]
<1>1. StoredInv /\ SeenInv
  BY IInvParts
<1>2. UNCHANGED <<inst, req, edits, faults, applied, everSet>> /\ cur' = r
  BY DEF Reconcile
<1>3. Behind(sc, req[r]) /\ sc \in RequestType /\ mcur' = (sc = req[r])
  BY <1>1 DEF SeenInv, Reconcile
<1>4. \/ sc.phase \in Terminal /\ sc.done = "expired" /\ pc' = "delete" /\ verdict' = verdict
      \/ sc.phase \notin Terminal /\ pc' = "status" /\ verdict' \in {"Failed", "Denied"}
      \/ sc.phase \notin Terminal /\ pc' = "apply" /\ ~buildError(sc.spec) /\ verdict' = verdict
  BY DEF Reconcile, Settle
<1>5. \/ /\ copy' = seenInst.val /\ warned' = checkRemovalOwnership(sc.spec, seenInst.own)
         /\ unseen' \subseteq Fields
      \/ UNCHANGED <<copy, warned, unseen>>
  BY DEF Reconcile
<1>6. /\ copy' \in [Fields -> Values \cup {None}]
      /\ warned' \subseteq Fields /\ unseen' \subseteq Fields
  BY <1>1, <1>3, <1>5, SpecOfRequest
     DEF StoredInv, SeenInv, InstanceType, checkRemovalOwnership
<1>7. Given(copy)'
  BY <1>1, <1>2, <1>5 DEF StoredInv, SeenInv, Given
<1>8. PassOK'
  <2> HIDE DEF sc
  <2> QED BY <1>2, <1>3, <1>4 DEF PassOK, Behind, Expired, Terminal
<1>9. mcur' \in BOOLEAN /\ verdict' \in Terminal
      /\ pc' \in {"idle", "apply", "owner", "status", "delete"}
  BY <1>1, <1>3, <1>4 DEF StoredInv, Terminal
<1>10. StoredInv'
  BY <1>1, <1>2, <1>6, <1>7, <1>8, <1>9 DEF StoredInv, Given
<1> QED
  BY <1>2, <1>10, BehindOrder DEF Forward

\* The end of a pass, after which nothing is held in memory.
LEMMA EndsOK ==
    ASSUME Ends
    PROVE  /\ PassOK' /\ Given(copy)'
           /\ pc' = "idle" /\ cur' = None /\ mcur' = TRUE /\ warned' = {} /\ unseen' = {}
           /\ verdict' \in Terminal
           /\ copy' \in [Fields -> Values \cup {None}]
BY ConstantsAssumption DEF Ends, PassOK, Given, NoFields, Terminal

LEMMA ApplyStep ==
    ASSUME IInv, Apply
    PROVE  StoredInv' /\ Forward
<1>1. StoredInv
  BY IInvParts
<1>2. cur \in Requests /\ req[cur] \in RequestType /\ ~buildError(req[cur].spec)
  BY <1>1 DEF StoredInv, PassOK, Apply
<1>3. inst' = Patched(copy, req[cur].spec)
  BY DEF Apply
<1>4. inst' \in InstanceType
  BY <1>1, <1>2, <1>3, PatchedType DEF StoredInv
<1>5. Given(inst.val)'
  <2>1. Given(Patched(copy, req[cur].spec).val)
    BY <1>1, <1>2, PatchedGiven DEF StoredInv
  <2> QED BY <1>3, <2>1 DEF Given, Apply
<1>6. /\ applied' = applied \cup {cur} /\ pc' = "owner" /\ copy' = NoFields
      /\ UNCHANGED <<cur, mcur, verdict, warned, unseen, req, edits, faults, everSet>>
  BY DEF Apply
<1>7. Given(copy)' /\ copy' \in [Fields -> Values \cup {None}]
  BY <1>6, ConstantsAssumption DEF NoFields, Given
<1>8. PassOK'
  BY <1>1, <1>2, <1>6 DEF StoredInv, PassOK, Apply
<1>9. StoredInv'
  BY <1>1, <1>2, <1>4, <1>5, <1>6, <1>7, <1>8 DEF StoredInv
<1> QED
  BY <1>6, <1>9, BehindOrder DEF Forward

LEMMA ApplyFailsStep ==
    ASSUME IInv, ApplyFails
    PROVE  StoredInv' /\ Forward
<1>1. StoredInv
  BY IInvParts
<1>2. cur \in Requests /\ req[cur] \in RequestType /\ ~buildError(req[cur].spec)
  BY <1>1 DEF StoredInv, PassOK, ApplyFails
<1>3. /\ pc = "apply" /\ pc' = "status" /\ verdict' = "Failed" /\ faults' = faults + 1
      /\ faults < MaxFaults
      /\ UNCHANGED <<cur, copy, mcur, warned, unseen, req, edits, everSet>>
  BY DEF ApplyFails, Settle
<1>4. \/ inst' = inst /\ applied' = applied
      \/ inst' = Patched(copy, req[cur].spec) /\ applied' = applied \cup {cur}
  BY DEF ApplyFails
<1>5. inst' \in InstanceType
  BY <1>1, <1>2, <1>4, PatchedType DEF StoredInv
<1>6. Given(inst.val)'
  <2>1. Given(Patched(copy, req[cur].spec).val)
    BY <1>1, <1>2, PatchedGiven DEF StoredInv
  <2> QED BY <1>1, <1>3, <1>4, <2>1 DEF Given, StoredInv
<1>7. PassOK'
  BY <1>1, <1>2, <1>3 DEF StoredInv, PassOK
<1>8. faults' \in 0 .. MaxFaults
  BY <1>1, <1>3, ConstantsAssumption DEF StoredInv
<1>9. StoredInv'
  BY <1>1, <1>2, <1>3, <1>4, <1>5, <1>6, <1>7, <1>8 DEF StoredInv, Given, Terminal
<1> QED
  BY <1>3, <1>9, BehindOrder DEF Forward

LEMMA SetOwnerReferenceStep ==
    ASSUME IInv, SetOwnerReference
    PROVE  StoredInv' /\ Forward
<1>1. StoredInv
  BY IInvParts
<1>2. /\ pc = "owner" /\ pc' = "status" /\ verdict' = "Applied" /\ mcur' = mcur
      /\ UNCHANGED <<cur, copy, warned, unseen, inst, edits, applied, everSet>>
  BY DEF SetOwnerReference, Settle
<1>3. cur \in Requests /\ cur \in applied
  BY <1>1, <1>2 DEF StoredInv, PassOK
<1>4. req' = req \/ req' = [req EXCEPT ![cur].owned = TRUE]
  BY DEF SetOwnerReference
<1>5. faults' \in 0 .. MaxFaults
  BY <1>1, ConstantsAssumption DEF StoredInv, SetOwnerReference
<1>6. /\ req' \in [Requests -> RequestType]
      /\ \A r \in Requests : /\ req'[r].phase = req[r].phase /\ req'[r].spec = req[r].spec
                             /\ req'[r].done = req[r].done
  <2> DEFINE x == [req[cur] EXCEPT !.owned = TRUE]
  <2>1. /\ x \in RequestType /\ x.phase = req[cur].phase /\ x.spec = req[cur].spec
        /\ x.done = req[cur].done
    BY <1>1, <1>3 DEF StoredInv, RequestType
  <2>2. req' = req \/ req' = [req EXCEPT ![cur] = x]
    BY <1>4
  <2> HIDE DEF x
  <2> QED BY <1>1, <1>3, <2>1, <2>2 DEF StoredInv
<1>7. PassOK'
  BY <1>1, <1>2, <1>3, <1>6 DEF StoredInv, PassOK
<1>8. StoredInv'
  BY <1>1, <1>2, <1>5, <1>6, <1>7 DEF StoredInv, Given, Terminal
<1> QED
  BY <1>2, <1>6, <1>8 DEF Forward, Behind, Expired, Terminal

\* The status is written over the revision that the pass has read: over one
\* that is not settled.
LEMMA SetTerminalStatusStep ==
    ASSUME IInv, setTerminalStatus
    PROVE  StoredInv' /\ Forward
<1>1. StoredInv
  BY IInvParts
<1>2. pc = "status" /\ Ends /\ UNCHANGED <<inst, edits, applied, everSet>>
  BY DEF setTerminalStatus
<1>3. cur \in Requests /\ verdict \in Terminal /\ (verdict = "Applied" => cur \in applied)
  BY <1>1, <1>2 DEF StoredInv, PassOK
<1>4. faults' \in 0 .. MaxFaults
  BY <1>1, ConstantsAssumption DEF StoredInv, setTerminalStatus
<1>5. \/ req' = req
      \/ /\ req' = [req EXCEPT ![cur].phase = verdict, ![cur].done = "set"]
         /\ req[cur].phase \notin Terminal \cup {"gone"}
  BY <1>1, <1>2 DEF setTerminalStatus, Accepted, Settled, StoredInv, PassOK
<1>6. /\ req' \in [Requests -> RequestType]
      /\ \A r \in Requests :
            \/ req'[r] = req[r]
            \/ /\ r = cur /\ req'[r].phase = verdict /\ req'[r].spec = req[r].spec
               /\ req[cur].phase \notin Terminal \cup {"gone"}
  <2> DEFINE x == [req[cur] EXCEPT !.phase = verdict, !.done = "set"]
  <2>1. x \in RequestType /\ x.phase = verdict /\ x.spec = req[cur].spec
    BY <1>1, <1>3 DEF StoredInv, RequestType, Phases
  <2>2. req' = req \/ req' = [req EXCEPT ![cur] = x]
    BY <1>5
  <2> HIDE DEF x
  <2> QED BY <1>1, <1>3, <1>5, <2>1, <2>2 DEF StoredInv
<1>7. \A r \in Requests : Behind(req[r], req'[r])
  BY <1>3, <1>6, BehindOrder DEF Behind, Expired
<1>8. \A r \in Requests : req'[r].phase = "Applied" => r \in applied'
  BY <1>1, <1>2, <1>3, <1>6 DEF StoredInv
<1>9. StoredInv'
  BY <1>1, <1>2, <1>4, <1>6, <1>8, EndsOK DEF StoredInv, Given
<1> QED
  BY <1>2, <1>7, <1>9 DEF Forward

LEMMA DeleteStep ==
    ASSUME IInv, Delete
    PROVE  StoredInv' /\ Forward
<1>1. StoredInv
  BY IInvParts
<1>2. pc = "delete" /\ Ends /\ UNCHANGED <<inst, edits, applied, everSet>>
  BY DEF Delete
<1>3. cur \in Requests
  BY <1>1, <1>2 DEF StoredInv, PassOK
<1>4. faults' \in 0 .. MaxFaults
  BY <1>1, ConstantsAssumption DEF StoredInv, Delete
<1>5. req' = req \/ req' = [req EXCEPT ![cur].phase = "gone"]
  BY DEF Delete
<1>6. /\ req' \in [Requests -> RequestType]
      /\ \A r \in Requests : \/ req'[r] = req[r]
                             \/ req'[r].phase = "gone" /\ req'[r].spec = req[r].spec
  <2> DEFINE x == [req[cur] EXCEPT !.phase = "gone"]
  <2>1. x \in RequestType /\ x.phase = "gone" /\ x.spec = req[cur].spec
    BY <1>1, <1>3 DEF StoredInv, RequestType, Phases
  <2>2. req' = req \/ req' = [req EXCEPT ![cur] = x]
    BY <1>5
  <2> HIDE DEF x
  <2> QED BY <1>1, <1>3, <2>1, <2>2 DEF StoredInv
<1>7. \A r \in Requests : Behind(req[r], req'[r])
  BY <1>6, BehindOrder DEF Behind, Expired, Terminal
<1>8. \A r \in Requests : req'[r].phase = "Applied" => r \in applied'
  BY <1>1, <1>2, <1>6 DEF StoredInv
<1>9. StoredInv'
  BY <1>1, <1>2, <1>4, <1>6, <1>8, EndsOK DEF StoredInv, Given
<1> QED
  BY <1>2, <1>7, <1>9 DEF Forward

LEMMA CrashStep ==
    ASSUME IInv, Crash
    PROVE  StoredInv' /\ Forward
<1>1. StoredInv
  BY IInvParts
<1>2. Ends /\ UNCHANGED <<inst, req, edits, applied, everSet>>
  BY DEF Crash
<1>3. faults' \in 0 .. MaxFaults
  BY <1>1, ConstantsAssumption DEF StoredInv, Crash
<1>4. StoredInv'
  BY <1>1, <1>2, <1>3, EndsOK DEF StoredInv, Given
<1> QED
  BY <1>2, <1>4, BehindOrder DEF Forward

\* The garbage collector takes a request whose instance is gone.
LEMMA CollectStep ==
    ASSUME IInv, NEW r \in Requests, CollectRequest(r)
    PROVE  StoredInv' /\ Forward
<1>1. StoredInv
  BY IInvParts
<1>2. /\ req' = [req EXCEPT ![r].phase = "gone"]
      /\ UNCHANGED <<inst, passVars, edits, faults, applied, everSet>>
  BY DEF CollectRequest
<1>3. /\ req' \in [Requests -> RequestType]
      /\ \A q \in Requests : /\ req'[q].spec = req[q].spec
                             /\ req'[q] = req[q] \/ req'[q].phase = "gone"
  BY ZenonT(60), <1>1, <1>2 DEF StoredInv, RequestType, Phases
<1>4. \A q \in Requests : Behind(req[q], req'[q])
  BY <1>3, BehindOrder DEF Behind, Expired, Terminal
<1>5. PassOK'
  BY <1>1, <1>2, <1>3 DEF StoredInv, PassOK, passVars, Expired, Terminal
<1>6. \A q \in Requests : req'[q].phase = "Applied" => q \in applied'
  BY <1>1, <1>2, <1>3 DEF StoredInv
<1>7. StoredInv'
  BY <1>1, <1>2, <1>3, <1>5, <1>6 DEF StoredInv, Given, passVars
<1> QED
  BY <1>2, <1>4, <1>7 DEF Forward

\* A write to the instance by somebody else.
LEMMA OutsideStep ==
    ASSUME IInv, Edit, inst' \in InstanceType, Given(inst.val)',
           everSet' \in [Protected -> SUBSET Values],
           \A f \in Protected : everSet[f] \subseteq everSet'[f],
           UNCHANGED <<req, passVars, faults, applied>>
    PROVE  StoredInv' /\ Forward
<1>1. StoredInv
  BY IInvParts
<1>2. edits' \in 0 .. MaxEdits
  BY <1>1, ConstantsAssumption DEF StoredInv, Edit
<1>3. Given(copy)'
  BY <1>1 DEF StoredInv, Given, passVars
<1>4. PassOK'
  BY <1>1 DEF StoredInv, PassOK, passVars
<1>5. StoredInv'
  BY <1>1, <1>2, <1>3, <1>4 DEF StoredInv, passVars
<1> QED
  BY <1>5, BehindOrder DEF Forward

LEMMA UserSetsPolicyStep ==
    ASSUME IInv, UserSetsPolicy
    PROVE  StoredInv' /\ Forward
<1>1. StoredInv
  BY IInvParts
<1>2. inst' \in InstanceType /\ inst'.val = inst.val
  BY <1>1 DEF StoredInv, InstanceType, UserSetsPolicy
<1>3. Edit /\ UNCHANGED <<req, passVars, faults, applied, everSet>>
  BY DEF UserSetsPolicy
<1>4. Given(inst.val)'
  BY <1>1, <1>2, <1>3 DEF StoredInv, Given
<1> QED
  BY <1>1, <1>2, <1>3, <1>4, OutsideStep DEF StoredInv

LEMMA UserSetsStep ==
    ASSUME IInv, UserSets
    PROVE  StoredInv' /\ Forward
<1>1. StoredInv
  BY IInvParts
<1>2. Edit /\ UNCHANGED <<req, passVars, faults, applied>>
  BY DEF UserSets
<1>3. PICK f \in Fields, v \in Values :
         /\ inst' = Written(f, v)
         /\ everSet' = [g \in Protected |-> IF g = f \/ (f[1] = "envValue" /\ g = Element(f))
                                          THEN everSet[g] \cup {inst'.val[g]} ELSE everSet[g]]
  BY DEF UserSets
<1> DEFINE val == [g \in Fields |-> IF g = f THEN v
                                    ELSE IF f[1] = "envValue" /\ g = Element(f) THEN Present
                                    ELSE inst.val[g]]
           own == [g \in Fields |-> IF g = f THEN {"user"}
                                    ELSE IF f[1] = "envValue" /\ g = Element(f)
                                    THEN inst.own[g] \cup {"user"} ELSE inst.own[g]]
<1>4. inst' = [inst EXCEPT !.val = val, !.own = own]
  BY <1>1, <1>3 DEF Written, StoredInv, InstanceType
<1>5. val \in [Fields -> Values \cup {None}] /\ own \in [Fields -> SUBSET Managers]
  BY <1>1, ConstantsAssumption DEF StoredInv, InstanceType, Managers
<1>6. inst' \in InstanceType /\ inst'.val = val
  <2> HIDE DEF val, own
  <2> QED BY <1>1, <1>4, <1>5 DEF StoredInv, InstanceType
<1>7. \A g \in Protected : (g = f \/ (f[1] = "envValue" /\ g = Element(f))) => inst'.val[g] \in Values
  BY <1>6, ConstantsAssumption
<1>8. everSet' \in [Protected -> SUBSET Values]
  <2> HIDE DEF val
  <2> QED BY <1>1, <1>3, <1>7 DEF StoredInv
<1>9. \A g \in Protected : everSet[g] \subseteq everSet'[g]
  <2> HIDE DEF val
  <2> QED BY <1>3
<1>10. Given(inst.val)'
  <2> SUFFICES ASSUME NEW g \in Protected, inst'.val[g] # None
               PROVE  inst'.val[g] \in everSet'[g]
    BY DEF Given
  <2>1. CASE g = f \/ (f[1] = "envValue" /\ g = Element(f))
    <3> HIDE DEF val
    <3> QED BY <1>3, <2>1
  <2>2. CASE ~(g = f \/ (f[1] = "envValue" /\ g = Element(f)))
    <3>1. inst'.val[g] = inst.val[g]
      BY <1>6, <2>2, ConstantsAssumption
    <3> QED BY <1>1, <1>9, <3>1 DEF StoredInv, Given
  <2> QED BY <2>1, <2>2
<1> QED
  BY <1>2, <1>6, <1>8, <1>9, <1>10, OutsideStep

LEMMA UserRemovesStep ==
    ASSUME IInv, UserRemoves
    PROVE  StoredInv' /\ Forward
<1>1. StoredInv
  BY IInvParts
<1>2. Edit /\ UNCHANGED <<req, passVars, faults, applied, everSet>>
  BY DEF UserRemoves
<1>3. PICK hit \in SUBSET Fields :
         inst' = [inst EXCEPT !.val = [g \in Fields |-> IF g \in hit THEN None ELSE @[g]],
                              !.own = [g \in Fields |-> IF g \in hit THEN {} ELSE @[g]]]
  BY DEF UserRemoves
<1> DEFINE val == [g \in Fields |-> IF g \in hit THEN None ELSE inst.val[g]]
           own == [g \in Fields |-> IF g \in hit THEN {} ELSE inst.own[g]]
<1>4. inst' = [inst EXCEPT !.val = val, !.own = own]
  BY <1>1, <1>3 DEF StoredInv, InstanceType
<1>5. val \in [Fields -> Values \cup {None}] /\ own \in [Fields -> SUBSET Managers]
  BY <1>1 DEF StoredInv, InstanceType
<1>6. inst' \in InstanceType /\ inst'.val = val
  <2> HIDE DEF val, own
  <2> QED BY <1>1, <1>4, <1>5 DEF StoredInv, InstanceType
<1>7. Given(inst.val)'
  BY <1>1, <1>2, <1>6, ConstantsAssumption DEF StoredInv, Given
<1> QED
  BY <1>1, <1>2, <1>6, <1>7, OutsideStep DEF StoredInv

LEMMA GitOpsAppliesStep ==
    ASSUME IInv, GitOpsApplies
    PROVE  StoredInv' /\ Forward
<1>1. StoredInv
  BY IInvParts
<1>2. Edit /\ UNCHANGED <<req, passVars, faults, applied>>
  BY DEF GitOpsApplies
<1>3. PICK m \in Manifests :
         /\ inst' = ServerSideApply(inst, "gitops", m)
         /\ everSet' = [f \in Protected |-> IF f \in DOMAIN m THEN everSet[f] \cup {m[f]} ELSE everSet[f]]
  BY DEF GitOpsApplies
<1>4. DOMAIN m \subseteq Fields /\ \A f \in DOMAIN m : m[f] \in Values
  BY ConstantsAssumption
<1>5. inst' \in InstanceType
  BY <1>1, <1>3, <1>4, ApplyType DEF StoredInv, Managers
<1>6. everSet' \in [Protected -> SUBSET Values]
  BY <1>1, <1>3, <1>4 DEF StoredInv
<1>7. \A f \in Protected : everSet[f] \subseteq everSet'[f]
  BY <1>3
<1>8. Given(inst.val)'
  <2> SUFFICES ASSUME NEW f \in Protected, inst'.val[f] # None
               PROVE  inst'.val[f] \in everSet'[f]
    BY DEF Given
  <2>1. f \in Fields
    BY ConstantsAssumption
  <2>2. inst'.val[f] \in IF f \in DOMAIN m THEN {m[f]} ELSE {None, inst.val[f]}
    BY <1>1, <1>3, <2>1, ApplyValues DEF StoredInv
  <2> QED BY <1>1, <1>3, <2>2 DEF StoredInv, Given
<1> QED
  BY <1>2, <1>5, <1>6, <1>7, <1>8, OutsideStep

LEMMA UserDeletesInstanceStep ==
    ASSUME IInv, UserDeletesInstance
    PROVE  StoredInv' /\ Forward
<1>1. StoredInv
  BY IInvParts
<1>2. Edit /\ inst' = Gone /\ UNCHANGED <<req, passVars, faults, applied, everSet>>
  BY DEF UserDeletesInstance
<1>3. Given(inst.val)'
  BY <1>2, ConstantsAssumption DEF Given, Gone, NoFields
<1> QED
  BY <1>1, <1>2, <1>3, GoneType, OutsideStep DEF StoredInv

\* An hour passes for a settled request and for the cached copy of it.
LEMMA TTLStep ==
    ASSUME IInv, NEW r \in Requests, SelfConfigTTLPasses(r)
    PROVE  IInv'
<1>1. StoredInv /\ SeenInv
  BY IInvParts
<1>2. /\ req[r].phase \in Terminal
      /\ req' = [req EXCEPT ![r] = Aged(req[r])]
      /\ seenReq' = [seenReq EXCEPT ![r] = Aged(seenReq[r])]
      /\ UNCHANGED <<inst, seenInst, passVars, edits, faults, applied, everSet>>
  BY DEF SelfConfigTTLPasses
<1>3. \A x \in RequestType : /\ Aged(x) \in RequestType /\ Aged(x).phase = x.phase
                             /\ Aged(x).spec = x.spec /\ (x.done = "expired" => Aged(x).done = "expired")
                             /\ (x.done = "set" /\ x.phase \in Terminal => Aged(x).done = "expired")
  BY DEF Aged, RequestType
<1>4. /\ req' \in [Requests -> RequestType] /\ seenReq' \in [Requests -> RequestType]
      /\ \A q \in Requests : /\ req'[q].phase = req[q].phase /\ req'[q].spec = req[q].spec
                             /\ (req[q].done = "expired" => req'[q].done = "expired")
  BY <1>1, <1>2, <1>3 DEF StoredInv, SeenInv
<1>5. req[r].done = "set" /\ req'[r] = Aged(req[r]) /\ req'[r].done = "expired"
  BY <1>1, <1>2, <1>3 DEF StoredInv, SelfConfigTTLPasses
<1>6. \A q \in Requests : Behind(seenReq'[q], req'[q])
  <2> SUFFICES ASSUME NEW q \in Requests PROVE Behind(seenReq'[q], req'[q])
    OBVIOUS
  <2>1. CASE q # r
    BY <1>1, <1>2, <2>1 DEF StoredInv, SeenInv
  <2>2. CASE q = r
    <3>1. seenReq'[r].phase = seenReq[r].phase /\ seenReq'[r].spec = seenReq[r].spec
      BY <1>1, <1>2, <1>3 DEF SeenInv
    <3> QED BY <1>1, <1>2, <1>4, <1>5, <2>2, <3>1 DEF SeenInv, Behind, Expired
  <2> QED BY <2>1, <2>2
<1>7. PassOK'
  BY <1>1, <1>2, <1>4 DEF StoredInv, PassOK, passVars, Expired
<1>8. StoredInv'
  BY <1>1, <1>2, <1>4, <1>7 DEF StoredInv, Given, passVars
<1>9. SeenInv'
  BY <1>1, <1>2, <1>4, <1>6 DEF SeenInv, Given
<1>10. (IInv <=> StoredInv /\ SeenInv)'
  BY IInvParts, PTL
<1> QED
  BY <1>8, <1>9, <1>10

LEMMA CacheSyncStep ==
    ASSUME IInv, CacheSync
    PROVE  IInv'
<1>1. StoredInv /\ SeenInv
  BY IInvParts
<1>2. /\ seenInst' \in {seenInst, inst} /\ seenReq' \in {seenReq, req}
      /\ UNCHANGED <<inst, req, passVars, edits, faults, applied, everSet>>
  BY DEF CacheSync, InstancesSync, RequestsSync
<1>3. PassOK' /\ Given(inst.val)' /\ Given(copy)'
  BY <1>1, <1>2 DEF StoredInv, PassOK, passVars, Given
<1>4. StoredInv'
  BY <1>1, <1>2, <1>3 DEF StoredInv, passVars
<1>5. Given(seenInst.val)'
  BY <1>1, <1>2 DEF StoredInv, SeenInv, Given
<1>6. SeenInv'
  BY <1>1, <1>2, <1>5, BehindOrder DEF StoredInv, SeenInv
<1>7. (IInv <=> StoredInv /\ SeenInv)'
  BY IInvParts, PTL
<1> QED
  BY <1>4, <1>6, <1>7

-----------------------------------------------------------------------------
(* The theorems *)

LEMMA InitIInv == Init => IInv
<1> SUFFICES ASSUME Init PROVE IInv
  OBVIOUS
<1> DEFINE new == [Gone EXCEPT !.exists = TRUE, !.enabled = TRUE, !.allowed = Categories]
<1>1. PICK m \in Manifests :
         /\ inst = ServerSideApply(new, "user", m)
         /\ everSet = [f \in Protected |-> IF f \in DOMAIN m THEN {m[f]} ELSE {}]
  BY DEF Init
<1>2. DOMAIN m \subseteq Fields /\ \A f \in DOMAIN m : m[f] \in Values
  BY ConstantsAssumption
<1>3. new \in InstanceType /\ new.val = NoFields
  BY GoneType DEF InstanceType, Gone
<1> HIDE DEF new
<1>4. inst \in InstanceType
  BY <1>1, <1>2, <1>3, ApplyType DEF Managers
<1>5. everSet \in [Protected -> SUBSET Values]
  BY <1>1, <1>2
<1>6. Given(inst.val)
  <2> SUFFICES ASSUME NEW f \in Protected, inst.val[f] # None
               PROVE  inst.val[f] \in everSet[f]
    BY DEF Given
  <2>1. f \in Fields
    BY ConstantsAssumption
  <2>2. inst.val[f] \in IF f \in DOMAIN m THEN {m[f]} ELSE {None, new.val[f]}
    BY <1>1, <1>3, <2>1, ApplyValues
  <2> QED BY <1>1, <1>3, <2>1, <2>2 DEF NoFields
<1>7. /\ req \in [Requests -> RequestType]
      /\ \A r \in Requests : req[r].phase = "Pending"
  BY DEF Init, RequestType, Phases
<1>8. /\ seenInst = inst /\ seenReq = req /\ pc = "idle" /\ cur = None /\ copy = NoFields
      /\ mcur = TRUE /\ warned = {} /\ unseen = {} /\ verdict = "Failed"
      /\ edits = 0 /\ faults = 0 /\ applied = {}
  BY DEF Init
<1>9. copy \in [Fields -> Values \cup {None}] /\ Given(copy)
  BY <1>8, ConstantsAssumption DEF NoFields, Given
<1>10. StoredInv
  BY <1>4, <1>5, <1>6, <1>7, <1>8, <1>9, ConstantsAssumption DEF StoredInv, PassOK, Terminal
<1>11. SeenInv
  BY <1>4, <1>6, <1>7, <1>8, BehindOrder DEF SeenInv
<1> QED
  BY <1>10, <1>11, IInvParts

LEMMA NextIInv == IInv /\ [Next]_vars => IInv'
<1> SUFFICES ASSUME IInv, [Next]_vars PROVE IInv'
  OBVIOUS
<1>1. ASSUME Operator, Observed PROVE IInv'
  <2>1. ASSUME NEW r \in Requests, Reconcile(r) PROVE StoredInv' /\ Forward
    BY <2>1, ReconcileStep
  <2> QED
    BY <1>1, <2>1, ApplyStep, SetOwnerReferenceStep, SetTerminalStatusStep, DeleteStep, CachesFollow
       DEF Operator
<1>2. ASSUME Faults, Observed PROVE IInv'
  BY <1>2, ApplyFailsStep, CrashStep, CachesFollow DEF Faults
<1>3. ASSUME Others, Observed PROVE IInv'
  <2>1. ASSUME NEW r \in Requests, CollectRequest(r) PROVE StoredInv' /\ Forward
    BY <2>1, CollectStep
  <2> QED
    BY <1>3, <2>1, UserSetsPolicyStep, UserSetsStep, UserRemovesStep, GitOpsAppliesStep,
       UserDeletesInstanceStep, CachesFollow
       DEF Others
<1>4. ASSUME NEW r \in Requests, SelfConfigTTLPasses(r) PROVE IInv'
  BY <1>4, TTLStep
<1>5. CASE CacheSync
  BY <1>5, CacheSyncStep
<1>6. CASE UNCHANGED vars
  BY <1>6 DEF vars, passVars, IInv, TypeOK, Given, Behind, Expired, PassOK
<1> QED
  BY <1>1, <1>2, <1>3, <1>4, <1>5, <1>6 DEF Next

\* The inductive invariant, from which the other theorems follow.
THEOREM Invariance == Spec => []IInv
BY InitIInv, NextIInv, PTL DEF Spec

\* Type correctness: a request that ends does so in a phase of the API, and the
\* instance's spec stays well formed, whatever is applied to it.
THEOREM TypeCorrect == Spec => []TypeOK
<1>1. IInv => TypeOK
  BY DEF IInv
<1> QED
  BY <1>1, Invariance, PTL

\* No request puts a value of its own into a protected field, for any set of
\* protected names and however stale the caches are (buildConfigApply,
\* buildEnvApply).
THEOREM ProtectedFieldsAreSafe == Spec => []ProtectedValuesAreUsers
<1>1. IInv => ProtectedValuesAreUsers
  BY DEF IInv, Given, ProtectedValuesAreUsers
<1> QED
  BY <1>1, Invariance, PTL

\* What a step may do to a settled request.
Verdict(r) ==
    /\ req'[r].phase = "Applied" => r \in applied
    /\ req[r].phase \in Terminal =>
         \/ req'[r].phase = req[r].phase
         \/ req'[r].phase = "gone" /\ (req[r].done = "expired" \/ ~inst.exists)

LEMMA NextVerdict ==
    ASSUME IInv, [Next]_vars, NEW r \in Requests
    PROVE  Verdict(r)
<1>1. StoredInv
  BY IInvParts
<1>2. CASE req'[r].phase = req[r].phase
  BY <1>1, <1>2 DEF Verdict, StoredInv
<1>3. CASE req'[r].phase = "gone" /\ ~inst.exists
  BY <1>3 DEF Verdict
<1>4. CASE SetOwnerReference
  <2>1. cur \in Requests /\ (req' = req \/ req' = [req EXCEPT ![cur].owned = TRUE])
    BY <1>1, <1>4 DEF SetOwnerReference, StoredInv, PassOK
  <2> QED BY SMTT(30), <1>1, <1>2, <2>1 DEF StoredInv, RequestType
<1>5. CASE setTerminalStatus
  <2>1. /\ cur \in Requests /\ (verdict = "Applied" => cur \in applied)
        /\ \/ req' = req
           \/ /\ req' = [req EXCEPT ![cur].phase = verdict, ![cur].done = "set"]
              /\ req[cur].phase \notin Terminal
    BY <1>1, <1>5 DEF setTerminalStatus, Accepted, Settled, StoredInv, PassOK
  <2>2. CASE r # cur \/ req' = req
    BY <1>1, <1>2, <2>1, <2>2 DEF StoredInv
  <2>3. CASE r = cur /\ req' = [req EXCEPT ![cur].phase = verdict, ![cur].done = "set"]
    <3>1. req'[r].phase = verdict
      BY <1>1, <2>1, <2>3 DEF StoredInv, RequestType
    <3> QED BY <2>1, <2>3, <3>1, <1>2 DEF Verdict
  <2> QED BY <2>1, <2>2, <2>3
<1>6. CASE Delete
  <2>1. /\ cur \in Requests /\ (req[cur].phase = "gone" \/ Expired(req[cur]))
        /\ req' = req \/ req' = [req EXCEPT ![cur].phase = "gone"]
    BY <1>1, <1>6 DEF Delete, StoredInv, PassOK
  <2>2. CASE r # cur \/ req' = req
    BY <1>1, <1>2, <2>1, <2>2 DEF StoredInv
  <2>3. CASE r = cur /\ req' = [req EXCEPT ![cur].phase = "gone"]
    <3>1. req'[r].phase = "gone"
      BY <1>1, <2>1, <2>3 DEF StoredInv, RequestType
    <3> QED BY <2>1, <2>3, <3>1, <1>2 DEF Verdict, Expired, Terminal
  <2> QED BY <2>1, <2>2, <2>3
<1>7. ASSUME NEW q \in Requests, CollectRequest(q) PROVE Verdict(r)
  <2>1. ~inst.exists /\ req' = [req EXCEPT ![q].phase = "gone"]
    BY <1>7 DEF CollectRequest
  <2>2. req'[r].phase \in {req[r].phase, "gone"}
    BY <1>1, <2>1 DEF StoredInv, RequestType
  <2> QED BY <1>2, <1>3, <2>1, <2>2
<1>8. ASSUME NEW q \in Requests, SelfConfigTTLPasses(q) PROVE Verdict(r)
  <2>1. req' = [req EXCEPT ![q] = Aged(req[q])]
    BY <1>8 DEF SelfConfigTTLPasses
  <2>2. Aged(req[q]).phase = req[q].phase
    BY <1>1 DEF StoredInv, RequestType, Aged
  <2> QED BY <1>1, <1>2, <2>1, <2>2 DEF StoredInv
<1>9. CASE req' = req
  BY <1>2, <1>9
<1>10. \/ req' = req \/ SetOwnerReference \/ setTerminalStatus \/ Delete
       \/ \E q \in Requests : CollectRequest(q) \/ SelfConfigTTLPasses(q)
  BY DEF Next, Operator, Faults, Others, Reconcile, Apply, ApplyFails, Crash, CacheSync,
         InstancesSync, RequestsSync, UserSetsPolicy,
         UserSets, UserRemoves, GitOpsApplies, UserDeletesInstance, vars
<1> QED
  BY <1>4, <1>5, <1>6, <1>7, <1>8, <1>9, <1>10

\* Verdicts are true and final for any number of requests and of failed calls.
THEOREM VerdictsHold == Spec => VerdictsAreTrueAndFinal
<1>1. IInv /\ [Next]_vars => [\A r \in Requests : Verdict(r)]_vars
  BY NextVerdict
<1>2. [\A r \in Requests : Verdict(r)]_vars <=>
      [\A r \in Requests :
         /\ req'[r].phase = "Applied" => r \in applied
         /\ req[r].phase \in Terminal =>
              \/ req'[r].phase = req[r].phase
              \/ req'[r].phase = "gone" /\ (req[r].done = "expired" \/ ~inst.exists)]_vars
  BY DEF Verdict
<1> QED
  BY <1>1, <1>2, Invariance, PTL DEF Spec, VerdictsAreTrueAndFinal

-----------------------------------------------------------------------------
(* Removal safety *)

\* Only fields that are there, of an instance that is there, have owners.
Owned(x) == \A f \in Fields : x.own[f] # {} => x.exists /\ x.val[f] # None

LEMMA ApplyOwned ==
    ASSUME NEW x \in InstanceType, NEW m, NEW a, Owned(x), x.exists, \A f \in DOMAIN a : a[f] # None
    PROVE  Owned(ServerSideApply(x, m, a))
BY DEF ServerSideApply, InstanceType, Owned

LEMMA PatchedOwned ==
    ASSUME StoredInv, Owned(inst), NEW x \in RequestType
    PROVE  Owned(Patched(copy, x.spec))
<1> DEFINE base == IF inst.exists THEN inst ELSE [Gone EXCEPT !.exists = TRUE]
           a == buildApplySpec(copy, x.spec)
<1>1. base \in InstanceType /\ Owned(base) /\ base.exists
  BY GoneType DEF InstanceType, StoredInv, Owned, Gone, NoOwners
<1>2. copy \in [Fields -> Values \cup {None}] /\ a = buildApplySpec(copy, x.spec)
  BY DEF StoredInv
<1> HIDE DEF base, a
<1>4. \A f \in DOMAIN a : a[f] # None
  BY <1>2, AppliedIsThere
<1>3. Owned(ServerSideApply(base, SelfConfigFieldManager, a))
  BY <1>1, <1>4, ApplyOwned
<1> QED
  BY <1>3 DEF Patched, base, a

LEMMA NextOwned == IInv /\ Owned(inst) /\ [Next]_vars => Owned(inst)'
<1> SUFFICES ASSUME IInv, Owned(inst), [Next]_vars PROVE Owned(inst')
  BY DEF Owned
<1>1. StoredInv
  BY IInvParts
<1>2. CASE inst' = inst
  BY <1>2
<1>3. CASE pc = "apply" /\ inst' = Patched(copy, req[cur].spec)
  <2>1. req[cur] \in RequestType
    BY <1>1, <1>3 DEF StoredInv, PassOK
  <2> QED BY <1>1, <1>3, <2>1, PatchedOwned
<1>4. CASE UserSetsPolicy
  BY <1>1, <1>4 DEF StoredInv, InstanceType, UserSetsPolicy, Owned
<1>5. CASE UserSets
  <2>1. PICK f \in Fields, v \in Values : inst.exists /\ inst' = Written(f, v)
    BY <1>5 DEF UserSets
  <2> QED BY <1>1, <2>1, ConstantsAssumption DEF StoredInv, InstanceType, Written, Owned
<1>6. CASE UserRemoves
  <2>1. PICK hit \in SUBSET Fields :
           inst' = [inst EXCEPT !.val = [g \in Fields |-> IF g \in hit THEN None ELSE @[g]],
                                !.own = [g \in Fields |-> IF g \in hit THEN {} ELSE @[g]]]
    BY <1>6 DEF UserRemoves
  <2> QED BY <1>1, <2>1 DEF StoredInv, InstanceType, Owned
<1>7. CASE GitOpsApplies
  <2>1. PICK m \in Manifests : inst.exists /\ inst' = ServerSideApply(inst, "gitops", m)
    BY <1>7 DEF GitOpsApplies
  <2>2. \A f \in DOMAIN m : m[f] # None
    BY ConstantsAssumption
  <2> QED BY <1>1, <2>1, <2>2, ApplyOwned DEF StoredInv
<1>8. CASE UserDeletesInstance
  BY <1>8 DEF UserDeletesInstance, Owned, Gone, NoOwners
<1>9. \/ inst' = inst \/ (pc = "apply" /\ inst' = Patched(copy, req[cur].spec))
      \/ UserSetsPolicy \/ UserSets \/ UserRemoves \/ GitOpsApplies \/ UserDeletesInstance
  BY DEF Next, Operator, Faults, Others, Reconcile, Apply, ApplyFails, Crash, CacheSync,
         InstancesSync, RequestsSync, Delete,
         SetOwnerReference, setTerminalStatus, CollectRequest, SelfConfigTTLPasses, vars
<1> QED
  BY <1>2, <1>3, <1>4, <1>5, <1>6, <1>7, <1>8, <1>9

LEMMA InitOwned == Init => Owned(inst)
<1> SUFFICES ASSUME Init PROVE Owned(inst)
  OBVIOUS
<1> DEFINE new == [Gone EXCEPT !.exists = TRUE, !.enabled = TRUE, !.allowed = Categories]
<1>1. PICK m \in Manifests : inst = ServerSideApply(new, "user", m)
  BY DEF Init
<1>2. \A f \in DOMAIN m : m[f] # None
  BY ConstantsAssumption
<1>3. new \in InstanceType /\ Owned(new) /\ new.exists
  BY GoneType DEF InstanceType, Gone, Owned, NoOwners
<1> HIDE DEF new
<1> QED
  BY <1>1, <1>2, <1>3, ApplyOwned

\* An apply keeps what others own.
LEMMA ApplyKeeps ==
    ASSUME NEW x \in InstanceType, NEW m, NEW a, Owned(x), \A f \in DOMAIN a : a[f] # None,
           NEW f \in Fields, x.own[f] \ {m} # {}
    PROVE  ServerSideApply(x, m, a).val[f] # None
BY DEF ServerSideApply, InstanceType, Owned

LEMMA NextKeeps ==
    ASSUME IInv, Owned(inst), [Next]_vars, NEW f \in Fields,
           pc = "apply", pc' \in {"owner", "status"},
           inst.own[f] \ {SelfConfigFieldManager} # {}
    PROVE  inst'.val[f] # None
<1>1. StoredInv
  BY IInvParts
<1>2. inst' = inst \/ inst' = Patched(copy, req[cur].spec)
  BY DEF Next, Operator, Faults, Others, Reconcile, Apply, ApplyFails, Crash, Ends, CacheSync,
         InstancesSync, RequestsSync, Delete,
         SetOwnerReference, setTerminalStatus, CollectRequest, SelfConfigTTLPasses, vars, passVars,
         UserSetsPolicy, UserSets, UserRemoves, GitOpsApplies, UserDeletesInstance
<1>3. inst.exists /\ inst.val[f] # None
  BY DEF Owned
<1>4. CASE inst' = Patched(copy, req[cur].spec)
  <2> DEFINE a == buildApplySpec(copy, req[cur].spec)
  <2>1. req[cur] \in RequestType /\ inst \in InstanceType
    BY <1>1 DEF StoredInv, PassOK
  <2>4. copy \in [Fields -> Values \cup {None}] /\ a = buildApplySpec(copy, req[cur].spec)
    BY <1>1 DEF StoredInv
  <2> HIDE DEF a
  <2>2. \A g \in DOMAIN a : a[g] # None
    BY <2>1, <2>4, AppliedIsThere
  <2>3. inst' = ServerSideApply(inst, SelfConfigFieldManager, a)
    BY <1>3, <1>4 DEF Patched, a
  <2> QED BY <2>1, <2>2, <2>3, ApplyKeeps
<1> QED
  BY <1>2, <1>3, <1>4

\* Removal safety for every set of fields and managers' manifests: an apply of
\* the self-config manager drops nothing that somebody else owns.
THEOREM RemovalSafety == Spec => OthersKeepTheirItems
<1> DEFINE Keeps == \A f \in Fields :
             (pc = "apply" /\ pc' \in {"owner", "status"} /\ inst.own[f] \ {SelfConfigFieldManager} # {})
                => inst'.val[f] # None
           HasOwners == Owned(inst)
<1>1. IInv /\ HasOwners /\ [Next]_vars => [Keeps]_vars
  BY NextKeeps
<1>2. Init => HasOwners
  BY InitOwned
<1>3. IInv /\ HasOwners /\ [Next]_vars => HasOwners'
  BY NextOwned
<1>4. Spec => [][Keeps]_vars
  <2> HIDE DEF Keeps, HasOwners
  <2> QED BY <1>1, <1>2, <1>3, Invariance, PTL DEF Spec
<1> QED
  BY <1>4 DEF OthersKeepTheirItems

-----------------------------------------------------------------------------
(* Warnings *)

\* An instance that is gone has no values, and from the moment a pass looks the
\* ownership up until it applies, nobody makes the self-config manager an owner of a
\* field that it warns about, and that was not the manager's at the look-up.
WarnInv ==
    /\ ~inst.exists => inst.val = NoFields
    /\ pc = "apply" => \A f \in warned \ unseen :
                         f[1] # "skills" => SelfConfigFieldManager \notin inst.own[f]

\* The manager does not gain a field by what the user or GitOps does.
LEMMA OthersTakeOwnership ==
    ASSUME StoredInv, NEW f \in Fields, SelfConfigFieldManager \notin inst.own[f],
           UserSetsPolicy \/ UserSets \/ UserRemoves \/ GitOpsApplies \/ UserDeletesInstance
    PROVE  SelfConfigFieldManager \notin inst'.own[f]
<1>1. inst \in InstanceType /\ SelfConfigFieldManager \notin {"user", "gitops"}
  BY DEF StoredInv, SelfConfigFieldManager
<1>2. CASE UserSetsPolicy
  BY <1>1, <1>2 DEF InstanceType, UserSetsPolicy
<1>3. CASE UserSets
  <2>1. PICK g \in Fields, v \in Values : inst' = Written(g, v)
    BY <1>3 DEF UserSets
  <2> QED BY <1>1, <2>1 DEF InstanceType, Written
<1>4. CASE UserRemoves
  <2>1. PICK hit \in SUBSET Fields :
           inst' = [inst EXCEPT !.val = [g \in Fields |-> IF g \in hit THEN None ELSE @[g]],
                                !.own = [g \in Fields |-> IF g \in hit THEN {} ELSE @[g]]]
    BY <1>4 DEF UserRemoves
  <2> QED BY <1>1, <2>1 DEF InstanceType
<1>5. CASE GitOpsApplies
  <2>1. PICK m \in Manifests : inst' = ServerSideApply(inst, "gitops", m)
    BY <1>5 DEF GitOpsApplies
  <2> QED BY <1>1, <2>1 DEF InstanceType, ServerSideApply
<1>6. CASE UserDeletesInstance
  BY <1>6 DEF UserDeletesInstance, Gone, NoOwners
<1> QED
  BY <1>2, <1>3, <1>4, <1>5, <1>6

\* Everything but a deletion leaves an instance that exists.
LEMMA ExistsAfter ==
    ASSUME StoredInv,
           \/ inst' = Patched(copy, req[cur].spec)
           \/ UserSetsPolicy \/ UserSets \/ UserRemoves \/ GitOpsApplies
    PROVE  inst'.exists
<1>1. inst \in InstanceType /\ Gone \in InstanceType
  BY GoneType DEF StoredInv
<1>2. CASE inst' = Patched(copy, req[cur].spec)
  BY <1>1, <1>2 DEF Patched, ServerSideApply, InstanceType
<1>3. CASE UserSetsPolicy \/ UserRemoves
  BY <1>1, <1>3 DEF InstanceType, UserSetsPolicy, UserRemoves
<1>4. CASE UserSets
  BY <1>1, <1>4 DEF InstanceType, UserSets, Written
<1>5. CASE GitOpsApplies
  BY <1>1, <1>5 DEF InstanceType, GitOpsApplies, ServerSideApply
<1> QED
  BY <1>2, <1>3, <1>4, <1>5

LEMMA NextWarnInv ==
    ASSUME IInv, WarnInv, [Next]_vars
    PROVE  WarnInv'
<1>1. StoredInv
  BY IInvParts
<1>3. \/ inst' = inst \/ (pc = "apply" /\ pc' # "apply" /\ inst' = Patched(copy, req[cur].spec))
      \/ /\ UserSetsPolicy \/ UserSets \/ UserRemoves \/ GitOpsApplies \/ UserDeletesInstance
         /\ pc' = pc /\ warned' = warned /\ unseen' = unseen
  BY DEF Next, Operator, Faults, Others, Reconcile, Apply, ApplyFails, Settle, Crash, Ends, CacheSync,
         InstancesSync, RequestsSync,
         Delete, SetOwnerReference, setTerminalStatus, CollectRequest, SelfConfigTTLPasses, vars,
         UserSetsPolicy, UserSets, UserRemoves, GitOpsApplies, UserDeletesInstance, passVars
<1>4. ~inst'.exists => inst'.val = NoFields
  <2>1. CASE UserDeletesInstance
    BY <2>1 DEF UserDeletesInstance, Gone
  <2> QED
    BY <1>1, <1>3, <2>1, ExistsAfter DEF WarnInv
<1>5. ASSUME pc' = "apply", NEW f \in warned' \ unseen', f[1] # "skills"
      PROVE  SelfConfigFieldManager \notin inst'.own[f]
  <2>1. CASE inst' = inst
    <3>1. CASE \E r \in Requests : Reconcile(r)
      <4>1. warned' \subseteq Fields
        BY NextIInv DEF IInv, TypeOK
      <4>2. PICK r \in Requests :
               /\ warned' = checkRemovalOwnership(seenReq[r].spec, seenInst.own)
               /\ unseen' = {g \in Fields : /\ SelfConfigFieldManager \in inst.own[g]
                                           /\ SelfConfigFieldManager \notin seenInst.own[g]}
        BY <3>1, <1>5 DEF Reconcile
      <4> QED
        BY <1>5, <2>1, <4>1, <4>2 DEF checkRemovalOwnership, extractOwned
    <3>2. CASE pc' = pc /\ warned' = warned /\ unseen' = unseen
      BY <1>5, <2>1, <3>2 DEF WarnInv
    <3>3. \/ \E r \in Requests : Reconcile(r)
          \/ pc' = pc /\ warned' = warned /\ unseen' = unseen
          \/ pc' # "apply"
      BY DEF Next, Operator, Faults, Others, Apply, ApplyFails, Settle, Crash, Ends, CacheSync,
             InstancesSync, RequestsSync,
             Delete, SetOwnerReference, setTerminalStatus, CollectRequest, SelfConfigTTLPasses, vars,
             UserSetsPolicy, UserSets, UserRemoves, GitOpsApplies, UserDeletesInstance, passVars
    <3> QED
      BY <1>5, <3>1, <3>2, <3>3
  <2>2. CASE /\ UserSetsPolicy \/ UserSets \/ UserRemoves \/ GitOpsApplies \/ UserDeletesInstance
             /\ pc' = pc /\ warned' = warned /\ unseen' = unseen
    <3>1. f \in Fields
      BY <1>1, <1>5, <2>2 DEF StoredInv
    <3> QED
      BY <1>1, <1>5, <2>2, <3>1, OthersTakeOwnership DEF WarnInv
  <2> QED
    BY <1>3, <1>5, <2>1, <2>2
<1> QED
  BY <1>4, <1>5 DEF WarnInv

\* What the step after the warning does to a field that is warned about.
LEMMA WarnedKept ==
    ASSUME IInv, WarnInv, [Next]_vars, NEW f \in warned \ unseen, pc = "apply", pc' = "owner",
           f[1] # "skills", inst.val[f] # None
    PROVE  inst'.val[f] # None
<1>1. StoredInv
  BY IInvParts
<1>2. f \in Fields /\ inst \in InstanceType /\ copy \in [Fields -> Values \cup {None}]
      /\ req[cur] \in RequestType
  BY <1>1 DEF StoredInv, PassOK
<1>3. inst' = Patched(copy, req[cur].spec)
  BY DEF Next, Operator, Faults, Others, Reconcile, Apply, ApplyFails, Settle, Crash, Ends, CacheSync,
         InstancesSync, RequestsSync,
         Delete, SetOwnerReference, setTerminalStatus, CollectRequest, SelfConfigTTLPasses, vars,
         passVars, UserSetsPolicy, UserSets, UserRemoves, GitOpsApplies, UserDeletesInstance
<1>4. inst.exists /\ SelfConfigFieldManager \notin inst.own[f]
  BY <1>2 DEF WarnInv, NoFields
<1> DEFINE a == buildApplySpec(copy, req[cur].spec)
<1>5. \A g \in DOMAIN a : a[g] # None
  BY <1>2, AppliedIsThere
<1>6. inst' = ServerSideApply(inst, SelfConfigFieldManager, a)
  BY <1>3, <1>4 DEF Patched
<1> HIDE DEF a
<1> QED
  BY <1>2, <1>4, <1>5, <1>6 DEF ServerSideApply, InstanceType

\* A removal that the message warns about has no effect, for any requests, fields and
\* edits between the look-up of the ownership and the apply, and however old the copy
\* of the instance that it was looked up in, but for the items that the manager had
\* taken over and the copy did not show.
THEOREM WarningsAreTrue == Spec => WarnedRemovalsAreSkipped
<1> DEFINE Kept == \A f \in warned \ unseen :
             (pc = "apply" /\ pc' = "owner" /\ f[1] # "skills" /\ inst.val[f] # None)
                => inst'.val[f] # None
<1>1. IInv /\ WarnInv /\ [Next]_vars => [Kept]_vars
  BY WarnedKept
<1>2. Init => WarnInv
  <2> SUFFICES ASSUME Init PROVE WarnInv
    OBVIOUS
  <2>1. pc = "idle"
    BY DEF Init
  <2>2. inst.exists
    BY GoneType DEF Init, ServerSideApply, InstanceType
  <2> QED
    BY <2>1, <2>2 DEF WarnInv
<1>3. IInv /\ WarnInv /\ [Next]_vars => WarnInv'
  BY NextWarnInv
<1>4. Spec => [][Kept]_vars
  <2> HIDE DEF Kept
  <2> QED BY <1>1, <1>2, <1>3, Invariance, PTL DEF Spec
<1> QED
  BY <1>4 DEF WarnedRemovalsAreSkipped

=============================================================================
