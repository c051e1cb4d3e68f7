------------------------------ MODULE SelfConfig ------------------------------
(***************************************************************************)
(* The self-config controller: an agent creates OpenClawSelfConfig         *)
(* requests, the operator checks each against the instance's policy and    *)
(* applies it to the instance's spec with server-side apply (SSA), under   *)
(* the field manager "openclaw-selfconfig" and with ForceOwnership.        *)
(*                                                                         *)
(* The part of the spec a request can reach is a function from Fields to   *)
(* values, with the set of field managers that own each field.  A field is *)
(* what SSA tracks: a skill (a set item), a key of config.raw, a workspace *)
(* file, the element of an environment variable, or its value.             *)
(*                                                                         *)
(* One worker serves all requests.  A pass is split at its API writes; it  *)
(* reads the request and the instance from an informer cache that may lag  *)
(* (Lagging), and the apply carries no resource version.                 *)
(***************************************************************************)
EXTENDS Naturals, FiniteSets

CONSTANTS
    Requests,        \* names of OpenClawSelfConfig objects
    RequestSpecs,    \* what each request may ask for
    Manifests,       \* partial specs that the user applies: functions on sets of fields
    Fields,          \* <<kind, name>>, the kinds are below
    Values,          \* what a field may hold
    Present,         \* the value of a field that is only there or not (skill, env element)
    Protected,       \* protectedConfigKeys and protectedEnvVars, as fields
    None,            \* no value
    Lagging,         \* of "instances" and "requests": the caches that may be behind
    MaxEdits,        \* bound on user edits
    MaxFaults        \* bound on failed calls and crashes

Categories == {"skills", "config", "workspaceFiles", "envVars"}

Category(f) == IF f[1] = "envValue" THEN "envVars" ELSE f[1]

\* The env var element to which a value belongs.
Element(f) == <<"envVars", f[2]>>

\* A request's add: the fields it sets, with their values; remove: the fields it
\* drops; config: whether it has a configPatch, which may be empty.
ASSUME ConstantsAssumption ==
    /\ \A f \in Fields : f = <<f[1], f[2]>> /\ f[1] \in Categories \cup {"envValue"}
    /\ \A f \in Fields : f[1] = "envValue" => Element(f) \in Fields
    /\ None \notin Values /\ Present \in Values
    /\ Protected \subseteq Fields
    /\ \A r \in Requests : \A q \in RequestSpecs[r] :
          /\ DOMAIN q.add \subseteq Fields /\ \A f \in DOMAIN q.add : q.add[f] \in Values
          /\ q.remove \subseteq Fields /\ q.config \in BOOLEAN
    /\ \A m \in Manifests : DOMAIN m \subseteq Fields /\ \A f \in DOMAIN m : m[f] \in Values
    /\ Lagging \subseteq {"instances", "requests"}
    /\ MaxEdits \in Nat /\ MaxFaults \in Nat

SelfConfigFieldManager == "openclaw-selfconfig"
Managers == {SelfConfigFieldManager, "user", "gitops"}

Terminal == {"Applied", "Failed", "Denied"}
Phases == {"Pending", "gone"} \cup Terminal

VARIABLES
    inst,      \* the stored instance: exists, enabled, allowed, val, own
    req,       \* the stored requests: phase, done (completionTime), spec, owned
    seenInst,  \* the informer cache's copies
    seenReq,
    pc,        \* the pass's next write: idle, apply, owner, status, delete
    cur,       \* the request it serves
    copy,      \* the values it read from the instance
    mcur,      \* is its copy of the request the stored revision?
    verdict,   \* the phase setTerminalStatus will write
    warned,    \* the removals that its message warns about
    unseen,    \* history: the manager's items that the copy it looked up did not show
    edits, faults,
    applied,   \* history: requests whose changes reached the instance
    everSet    \* history: the values others gave to a protected field

passVars == <<pc, cur, copy, mcur, verdict, warned, unseen>>
vars == <<inst, req, seenInst, seenReq, passVars, edits, faults, applied, everSet>>

NoFields == [f \in Fields |-> None]
NoOwners == [f \in Fields |-> {}]
Gone == [exists |-> FALSE, enabled |-> FALSE, allowed |-> {}, val |-> NoFields, own |-> NoOwners]

(***************************************************************************)
(* Server-side apply by manager m of the fields in DOMAIN a: applied       *)
(* fields are owned by m, by m alone where the value changes; fields that  *)
(* m owned and no longer applies are given up, and dropped when nobody     *)
(* else owns them.                                                         *)
(***************************************************************************)
ServerSideApply(x, m, a) ==
    [x EXCEPT
        !.val = [f \in Fields |-> IF f \in DOMAIN a THEN a[f]
                                  ELSE IF x.own[f] = {m} THEN None ELSE x.val[f]],
        !.own = [f \in Fields |-> IF f \in DOMAIN a
                                  THEN IF a[f] = x.val[f] THEN x.own[f] \cup {m} ELSE {m}
                                  ELSE x.own[f] \ {m}]]

-----------------------------------------------------------------------------
(* The request: which actions it uses, and what is applied for each.       *)

Touches(q, c) == \E f \in DOMAIN q.add \cup q.remove : Category(f) = c

determineActions(q) ==
    {c \in Categories : Touches(q, c) \/ (c = "config" /\ q.config)}

checkAllowedActions(requested, allowed) == requested \ allowed

Of(c) == {f \in Fields : Category(f) = c}
Set(v) == {f \in Fields : v[f] # None}

\* A removal wins over an addition of the same skill.
buildSkillsApply(v, q) == ((Set(v) \cup DOMAIN q.add) \ q.remove) \cap Of("skills")

\* The patch is merged into what is there; nothing is removed.
buildConfigApply(v, q) == (Set(v) \cup DOMAIN q.add) \cap Of("config")

\* An addition wins over a removal of the same file.
buildWorkspaceFilesApply(v, q) ==
    ((Set(v) \ q.remove) \cup DOMAIN q.add) \cap Of("workspaceFiles")

\* An added variable replaces a present one together with its value.
buildEnvApply(v, q) ==
    {f \in Of("envVars") :
        \/ f \in DOMAIN q.add
        \/ /\ f \in Set(v) \ q.remove
           /\ f[1] = "envValue" => Element(f) \notin DOMAIN q.add}

\* Mutated: config.raw is left out of the protected names.
buildErrorUnchecked(q) ==
    \E f \in (DOMAIN q.add \cup q.remove) \cap Protected : f[1] # "config"

buildError(q) == (DOMAIN q.add \cup q.remove) \cap Protected # {}

buildApplySpec(v, q) ==
    LET chosen == UNION {CASE c = "skills" -> buildSkillsApply(v, q)
                           [] c = "config" -> buildConfigApply(v, q)
                           [] c = "workspaceFiles" -> buildWorkspaceFilesApply(v, q)
                           [] c = "envVars" -> buildEnvApply(v, q) : c \in determineActions(q)}
    IN  [f \in chosen |-> IF f \in DOMAIN q.add THEN q.add[f] ELSE v[f]]

(***************************************************************************)
(* extractOwned...: the names that managedFields attribute to the          *)
(* self-config manager.  A set item's key is v:"name" with its quotes,     *)
(* which extractOwnedSkills keeps, so no skill is ever found.              *)
(***************************************************************************)
\* Mutated: the keys of environment variables are not parsed either.
extractOwnedFiles(own) ==
    {f \in Fields : SelfConfigFieldManager \in own[f] /\ f[1] \notin {"skills", "envVars"}}

extractOwned(own) ==
    {f \in Fields : SelfConfigFieldManager \in own[f] /\ f[1] # "skills"}

checkRemovalOwnership(q, own) ==
    {f \in q.remove : f[1] # "envValue"} \ extractOwned(own)

-----------------------------------------------------------------------------
InstanceType == [exists : BOOLEAN, enabled : BOOLEAN, allowed : SUBSET Categories,
                 val : [Fields -> Values \cup {None}], own : [Fields -> SUBSET Managers]]

RequestType == [phase : Phases, done : {"nil", "set", "expired"},
                spec : UNION {RequestSpecs[r] : r \in Requests}, owned : BOOLEAN]

\* Types; a request that ends does so in a phase of the API and with a time
\* (setTerminalStatus).
TypeOK ==
    /\ inst \in InstanceType /\ seenInst \in InstanceType
    /\ req \in [Requests -> RequestType] /\ seenReq \in [Requests -> RequestType]
    /\ pc \in {"idle", "apply", "owner", "status", "delete"}
    /\ cur \in Requests \cup {None}
    /\ copy \in [Fields -> Values \cup {None}]
    /\ mcur \in BOOLEAN /\ warned \subseteq Fields /\ unseen \subseteq Fields
    /\ verdict \in Terminal
    /\ edits \in 0..MaxEdits /\ faults \in 0..MaxFaults
    /\ applied \subseteq Requests
    /\ everSet \in [Protected -> SUBSET Values]

Init ==
    /\ \E m \in Manifests :
          /\ inst = ServerSideApply([Gone EXCEPT !.exists = TRUE, !.enabled = TRUE, !.allowed = Categories],
                                    "user", m)
          /\ everSet = [f \in Protected |-> IF f \in DOMAIN m THEN {m[f]} ELSE {}]
    /\ \E q \in [Requests -> UNION {RequestSpecs[r] : r \in Requests}] :
          /\ \A r \in Requests : q[r] \in RequestSpecs[r]
          /\ req = [r \in Requests |-> [phase |-> "Pending", done |-> "nil", spec |-> q[r], owned |-> FALSE]]
    /\ seenInst = inst /\ seenReq = req
    /\ pc = "idle" /\ cur = None /\ copy = NoFields
    /\ mcur = TRUE /\ warned = {} /\ unseen = {} /\ verdict = "Failed"
    /\ edits = 0 /\ faults = 0
    /\ applied = {}

-----------------------------------------------------------------------------
(* The pass.                                                               *)

Ends ==
    /\ pc' = "idle" /\ cur' = None /\ copy' = NoFields
    /\ mcur' = TRUE /\ warned' = {} /\ unseen' = {} /\ verdict' = "Failed"

Settle(phase) == pc' = "status" /\ verdict' = phase

\* Reads: the request, and when it is not settled the instance; everything up
\* to the first write.  A settled request that is not old enough is left alone.
Reconcile(r) ==
    /\ pc = "idle"
    /\ LET sc == seenReq[r]
           actions == determineActions(sc.spec)
           denied == checkAllowedActions(actions, seenInst.allowed)
       IN
       /\ sc.phase # "gone"
       /\ sc.phase \in Terminal => sc.done = "expired"
       /\ cur' = r /\ mcur' = (sc = req[r])
       /\ \/ sc.phase \in Terminal /\ pc' = "delete" /\ UNCHANGED verdict
          \/ sc.phase \notin Terminal /\ ~seenInst.exists /\ Settle("Failed")
          \/ sc.phase \notin Terminal /\ seenInst.exists /\ ~seenInst.enabled /\ Settle("Denied")
          \/ /\ sc.phase \notin Terminal /\ seenInst.exists /\ seenInst.enabled
             /\ \/ actions = {} /\ Settle("Failed")
                \/ actions # {} /\ denied # {} /\ Settle("Denied")
                \/ actions # {} /\ denied = {} /\ buildError(sc.spec) /\ Settle("Failed")
                \/ /\ actions # {} /\ denied = {} /\ ~buildError(sc.spec)
                   /\ pc' = "apply" /\ UNCHANGED verdict
       /\ IF pc' = "apply"
          THEN /\ copy' = seenInst.val /\ warned' = checkRemovalOwnership(sc.spec, seenInst.own)
               /\ unseen' = {f \in Fields : /\ SelfConfigFieldManager \in inst.own[f]
                                           /\ SelfConfigFieldManager \notin seenInst.own[f]}
          ELSE UNCHANGED <<copy, warned, unseen>>
    /\ UNCHANGED <<inst, req, edits, faults, applied, everSet>>

\* The instance after the patch.  An apply to an object that is gone creates it.
\* Mutated: the merged spec replaces what the instance has, whoever owns it.
PatchedByUpdate(v, q) ==
    LET a == buildApplySpec(v, q)
    IN  [inst EXCEPT !.val = [f \in Fields |->
                                IF f \in DOMAIN a THEN a[f]
                                ELSE IF Category(f) \in determineActions(q) THEN None ELSE inst.val[f]]]

Patched(v, q) ==
    LET base == IF inst.exists THEN inst ELSE [Gone EXCEPT !.exists = TRUE]
    IN  ServerSideApply(base, SelfConfigFieldManager, buildApplySpec(v, q))

Apply ==
    /\ pc = "apply"
    /\ inst' = Patched(copy, req[cur].spec)
    /\ applied' = applied \cup {cur}
    /\ pc' = "owner" /\ copy' = NoFields
    /\ UNCHANGED <<cur, mcur, verdict, warned, unseen, req, edits, faults, everSet>>

\* The patch is refused, or its answer is lost.
ApplyFails ==
    /\ pc = "apply" /\ faults < MaxFaults
    /\ \/ UNCHANGED <<inst, applied>>
       \/ inst' = Patched(copy, req[cur].spec) /\ applied' = applied \cup {cur}
    /\ Settle("Failed")
    /\ faults' = faults + 1
    /\ UNCHANGED <<cur, copy, mcur, warned, unseen, req, edits, everSet>>

\* Update of the request with its owner reference; an error is logged.
SetOwnerReference ==
    /\ pc = "owner"
    /\ \/ /\ mcur /\ req[cur].phase # "gone"
          /\ req' = [req EXCEPT ![cur].owned = TRUE]
          /\ UNCHANGED <<mcur, faults>>
       \/ /\ ~mcur \/ req[cur].phase = "gone"
          /\ UNCHANGED <<req, mcur, faults>>
       \/ /\ faults < MaxFaults /\ faults' = faults + 1
          /\ UNCHANGED <<req, mcur>>
    /\ Settle("Applied")
    /\ UNCHANGED <<cur, copy, warned, unseen, inst, edits, applied, everSet>>

\* Mutated: the completion time is not set.
SettledWithoutTime(r, phase) == [req EXCEPT ![r].phase = phase]

Settled(r, phase) == [req EXCEPT ![r].phase = phase, ![r].done = "set"]

\* Mutated: the status is written without its resource version.
statusAccepted == req[cur].phase # "gone"

Accepted == mcur /\ req[cur].phase # "gone"

setTerminalStatus ==
    /\ pc = "status"
    /\ \/ Accepted /\ req' = Settled(cur, verdict) /\ UNCHANGED faults
       \/ ~Accepted /\ UNCHANGED <<req, faults>>
       \/ faults < MaxFaults /\ faults' = faults + 1 /\ UNCHANGED req
    /\ Ends
    /\ UNCHANGED <<inst, edits, applied, everSet>>

Delete ==
    /\ pc = "delete"
    /\ \/ req' = [req EXCEPT ![cur].phase = "gone"] /\ UNCHANGED faults
       \/ faults < MaxFaults /\ faults' = faults + 1 /\ UNCHANGED req
    /\ Ends
    /\ UNCHANGED <<inst, edits, applied, everSet>>

Crash ==
    /\ pc # "idle" /\ faults < MaxFaults
    /\ faults' = faults + 1
    /\ Ends
    /\ UNCHANGED <<inst, req, edits, applied, everSet>>

-----------------------------------------------------------------------------
(* The user, GitOps, the clock and the garbage collector.       *)

Edit == edits < MaxEdits /\ edits' = edits + 1

UserSetsPolicy ==
    /\ Edit /\ inst.exists
    /\ \/ inst' = [inst EXCEPT !.enabled = FALSE]
       \/ inst' = [inst EXCEPT !.allowed = {}]
    /\ UNCHANGED <<req, passVars, faults, applied, everSet>>

\* kubectl edit: what changes is the user's, and other managers lose it.
Written(f, v) ==
    [inst EXCEPT
        !.val = [g \in Fields |-> IF g = f THEN v
                                  ELSE IF f[1] = "envValue" /\ g = Element(f) THEN Present ELSE @[g]],
        !.own = [g \in Fields |-> IF g = f THEN {"user"}
                                  ELSE IF f[1] = "envValue" /\ g = Element(f) THEN @[g] \cup {"user"}
                                  ELSE @[g]]]

UserSets ==
    /\ Edit /\ inst.exists
    /\ \E f \in Fields, v \in Values :
          /\ f[1] # "envVars"
          /\ f[1] = "skills" => v = Present
          /\ inst.val[f] # v
          /\ inst' = Written(f, v)
          /\ everSet' = [g \in Protected |-> IF g = f \/ (f[1] = "envValue" /\ g = Element(f))
                                          THEN everSet[g] \cup {inst'.val[g]} ELSE everSet[g]]
    /\ UNCHANGED <<req, passVars, faults, applied>>

UserRemoves ==
    /\ Edit /\ inst.exists
    /\ \E f \in Fields :
          LET hit == {g \in Fields : g = f \/ (g[1] = "envValue" /\ f = Element(g))}
          IN  /\ inst.val[f] # None
              /\ inst' = [inst EXCEPT !.val = [g \in Fields |-> IF g \in hit THEN None ELSE @[g]],
                                      !.own = [g \in Fields |-> IF g \in hit THEN {} ELSE @[g]]]
    /\ UNCHANGED <<req, passVars, faults, applied, everSet>>

GitOpsApplies ==
    /\ Edit /\ inst.exists
    /\ \E m \in Manifests :
          /\ inst' = ServerSideApply(inst, "gitops", m)
          /\ everSet' = [f \in Protected |-> IF f \in DOMAIN m THEN everSet[f] \cup {m[f]} ELSE everSet[f]]
    /\ UNCHANGED <<req, passVars, faults, applied>>

UserDeletesInstance ==
    /\ Edit /\ inst.exists
    /\ inst' = Gone
    /\ UNCHANGED <<req, passVars, faults, applied, everSet>>

CollectRequest(r) ==
    /\ ~inst.exists /\ req[r].owned /\ req[r].phase # "gone"
    /\ req' = [req EXCEPT ![r].phase = "gone"]
    /\ UNCHANGED <<inst, passVars, edits, faults, applied, everSet>>

\* An hour passes, for the stored request and for the cached copy of it.
Aged(x) == IF x.phase \in Terminal /\ x.done = "set" THEN [x EXCEPT !.done = "expired"] ELSE x

SelfConfigTTLPasses(r) ==
    /\ req[r].phase \in Terminal /\ req[r].done = "set"
    /\ req' = [req EXCEPT ![r] = Aged(@)]
    /\ seenReq' = [seenReq EXCEPT ![r] = Aged(@)]
    /\ UNCHANGED <<inst, seenInst, passVars, edits, faults, applied, everSet>>

\* Each of the two informers catches up by itself.
InstancesSync == seenInst # inst /\ seenInst' = inst /\ UNCHANGED seenReq
RequestsSync == seenReq # req /\ seenReq' = req /\ UNCHANGED seenInst

CacheSync ==
    /\ InstancesSync \/ RequestsSync
    /\ UNCHANGED <<inst, req, passVars, edits, faults, applied, everSet>>

\* Without lag the cache follows every write at once.
Observed ==
    /\ seenInst' = IF "instances" \in Lagging THEN seenInst ELSE inst'
    /\ seenReq' = IF "requests" \in Lagging THEN seenReq ELSE req'

Operator ==
    \/ \E r \in Requests : Reconcile(r)
    \/ Apply \/ SetOwnerReference \/ setTerminalStatus \/ Delete

Faults == ApplyFails \/ Crash

Others ==
    \/ \E r \in Requests : CollectRequest(r)
    \/ UserSetsPolicy \/ UserSets \/ UserRemoves \/ GitOpsApplies \/ UserDeletesInstance

Next ==
    \/ (Operator \/ Faults \/ Others) /\ Observed
    \/ CacheSync \/ \E r \in Requests : SelfConfigTTLPasses(r)

Spec == Init /\ [][Next]_vars

\* A failed pass is requeued with backoff and a settled one with RequeueAfter;
\* a watch event reaches its cache; time passes.
Fairness ==
    /\ WF_vars(Operator /\ Observed)
    /\ WF_vars(CacheSync /\ InstancesSync) /\ WF_vars(CacheSync /\ RequestsSync)
    /\ WF_vars(\E r \in Requests : SelfConfigTTLPasses(r))

LiveSpec == Spec /\ Fairness

-----------------------------------------------------------------------------
(* Properties.                                                             *)

(***************************************************************************)
(* No request puts a value of its own into a protected field.  A pass      *)
(* copies protected fields from the revision it read and may write an old  *)
(* value back, but one that the user or GitOps gave the field.             *)
(***************************************************************************)
ProtectedValuesAreUsers ==
    \A f \in Protected : inst.val[f] # None => inst.val[f] \in everSet[f]

(***************************************************************************)
(* "Removal safety": an apply drops no field that another manager owns,    *)
(* whatever was read, removed and taken over before.                       *)
(***************************************************************************)
OthersKeepTheirItems ==
    [][\A f \in Fields :
         (pc = "apply" /\ pc' \in {"owner", "status"} /\ inst.own[f] \ {SelfConfigFieldManager} # {})
            => inst'.val[f] # None]_vars

(***************************************************************************)
(* What a warning says of a file or a variable is so: the removal it names *)
(* has no effect, whatever the user did after the ownership was looked up, *)
(* and however old the copy was that it was looked up in, unless the       *)
(* manager took the item over in between and the copy does not show it.    *)
(* (Of a skill it is not: every removal of a skill is warned about.  And a *)
(* removal that has no effect because somebody else owns the item too is   *)
(* not warned about.)                                                      *)
(***************************************************************************)
WarnedRemovalsAreSkipped ==
    [][\A f \in warned \ unseen :
         (pc = "apply" /\ pc' = "owner" /\ f[1] # "skills" /\ inst.val[f] # None)
            => inst'.val[f] # None]_vars

(***************************************************************************)
(* Verdicts are true and final.  A request becomes Applied only when its   *)
(* changes reached the instance, although the mark is written two calls    *)
(* later and either may fail (the converse is false: an answer that is     *)
(* lost marks it Failed, and a crash between the two lets the next pass    *)
(* mark it Denied).  A settled request keeps its verdict, and leaves only  *)
(* when it is old or its instance is gone, although passes that read it    *)
(* before it was settled may still be under way (setTerminalStatus).       *)
(***************************************************************************)
VerdictsAreTrueAndFinal ==
    [][\A r \in Requests :
         /\ req'[r].phase = "Applied" => r \in applied
         /\ req[r].phase \in Terminal =>
              \/ req'[r].phase = req[r].phase
              \/ req'[r].phase = "gone" /\ (req[r].done = "expired" \/ ~inst.exists)]_vars

(***************************************************************************)
(* Every request gets a verdict and, an hour later, is deleted.            *)
(***************************************************************************)
EveryRequestEnds ==
    \A r \in Requests : (req[r].phase = "Pending") ~> (req[r].phase = "gone")

==============================================================================
