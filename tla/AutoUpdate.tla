----------------------------- MODULE AutoUpdate -----------------------------
(***************************************************************************)
(* The auto-update state machine of the OpenClaw operator                  *)
(* (internal/controller/autoupdate.go) together with the slice of          *)
(* Reconcile (internal/controller/openclawinstance_controller.go) that     *)
(* drives it, for one OpenClawInstance.                                    *)
(*                                                                         *)
(* One reconcile pass is split at its API writes: every value of pc names  *)
(* the next write of the pass (or the next branch that has no write), so   *)
(* user edits, the StatefulSet and Job controllers, the clock and operator *)
(* crashes interleave with a pass exactly where they can in the cluster.   *)
(*                                                                         *)
(* A pass works on the in-memory copy (mspec, mstatus) of the instance.    *)
(* Status().Update is refused when that copy is not the stored revision    *)
(* (mcur = FALSE); Patch(MergeFrom) is never refused, and its response is  *)
(* decoded over the copy, which becomes current again.                     *)
(***************************************************************************)
EXTENDS Integers

CONSTANTS
  MaxVersion,           \* the registry publishes the versions 1..MaxVersion
  NoVersion,            \* an empty version string in the status
  Latest,               \* the floating image tag "latest"
  Custom,               \* an image tag that is not a semantic version
  InitialTags,          \* the tags an instance may be created with
  UserTags,             \* the tags a user may write later
  BadVersions,          \* the versions whose pod never becomes ready
  maxRollbackCount,     \* the circuit breaker's threshold (3 in the code)
  BackupBeforeUpdate,   \* spec.autoUpdate.backupBeforeUpdate and persistence
  RollbackModes,        \* the values of rollbackOnFailure the user chooses from
  BucketLen,            \* the length of the S3 bucket's name
  CacheLags,            \* may the informer's cache be behind the API server?
  PodsMayBeSlow,        \* may the health check time out while a pod still starts?
  UserMay,              \* the kinds of edit the user makes
  MaxEdits,             \* bound on user edits
  MaxFaults             \* bound on failed API calls, stale reads, pod failures, crashes

Versions == 1 .. MaxVersion
Tags == Versions \cup {Latest, Custom}
MaybeVersions == Versions \cup {NoVersion}
EditKinds == {"suspend", "tag", "enable", "rollback", "other", "deleteSts", "creds"}

ASSUME ConstantsAssumption ==
  /\ MaxVersion \in Nat \ {0}
  /\ Latest \notin Int /\ Custom \notin Int /\ NoVersion \notin Int
  /\ Latest # Custom /\ Latest # NoVersion /\ Custom # NoVersion
  /\ InitialTags \subseteq Tags /\ UserTags \subseteq Tags
  /\ BadVersions \subseteq Versions
  /\ maxRollbackCount \in Nat \ {0}
  /\ BackupBeforeUpdate \in BOOLEAN /\ RollbackModes \subseteq BOOLEAN
  /\ BucketLen \in Nat \ {0}
  /\ CacheLags \in BOOLEAN /\ PodsMayBeSlow \in BOOLEAN
  /\ UserMay \subseteq EditKinds
  /\ MaxEdits \in Nat /\ MaxFaults \in Nat

VARIABLES
  spec, status,          \* the instance as the API server stores it
  cspec, cstatus, ccur,  \* the informer's copy; is it the stored revision?
  mspec, mstatus, mcur,  \* the pass's in-memory copy; is it the stored revision?
  pc,                    \* where the reconcile pass is
  site,                  \* which of Reconcile's two calls of reconcileAutoUpdate
  target,                \* driveRollback's local previousVersion
  stale,                 \* history: did the pass begin with an old revision?
  sts,                   \* the StatefulSet's spec
  pod,                   \* the StatefulSet's pod
  job,                   \* the pre-update backup Job
  latest,                \* the newest version in the registry
  creds,                 \* is the S3 credentials Secret usable?
  faults, edits          \* how much of the two budgets is spent

apiVars   == <<spec, status>>
cacheVars == <<cspec, cstatus, ccur>>
memVars   == <<mspec, mstatus, mcur>>
workVars  == <<sts, pod, job>>
envVars   == <<latest, creds, edits>>
passVars  == <<site, target, stale>>
vars == <<apiVars, cacheVars, memVars, pc, passVars, workVars, envVars, faults>>

-----------------------------------------------------------------------------
(* Types *)

Ages == {"nil", "fresh", "old"}
Phases == {"Pending", "Provisioning", "Running", "Updating", "Failed", "Suspended"}
JobStates == {"none", "running", "complete", "failed"}
UpdatePhases == {"", "BackingUp", "ApplyingUpdate", "HealthCheck", "RollingBack"}

\* OpenClawInstanceSpec, as far as updates read it.  "enabled" stands for
\* isAutoUpdateEnabled: autoUpdate.enabled is set and no digest is pinned.
\* "rollback" is spec.autoUpdate.rollbackOnFailure.
SpecType == [tag : Tags, suspended : BOOLEAN, enabled : BOOLEAN, rollback : BOOLEAN]

\* OpenClawInstanceStatus and AutoUpdateStatus.  A timestamp is abstracted to
\* its age relative to the interval it is compared with; "available" is the
\* AutoUpdateAvailable condition.
StatusType ==
  [phase : Phases, pending : MaybeVersions, updatePhase : UpdatePhases,
   previous : Tags \cup {NoVersion}, failed : MaybeVersions,
   current : Tags \cup {NoVersion}, rollbacks : Nat, backupPath : {"", "path"},
   lastCheck : Ages, lastUpdate : Ages, available : BOOLEAN]

PCs == {"idle", "provision", "resolve", "resolved", "drive", "backingUp", "apply",
        "patchTag", "scaleUp", "enterHealthCheck", "abort", "abortScale",
        "rolledBack", "resources", "failed", "check", "final"}

NoSpec == [tag |-> Latest, suspended |-> FALSE, enabled |-> FALSE, rollback |-> FALSE]
NoStatus ==
  [phase |-> "Pending", pending |-> NoVersion, updatePhase |-> "",
   previous |-> NoVersion, failed |-> NoVersion, current |-> NoVersion,
   rollbacks |-> 0, backupPath |-> "", lastCheck |-> "nil", lastUpdate |-> "nil",
   available |-> FALSE]

\* Every variable has its type: the type invariant of the module.
TypeOK ==
  /\ spec \in SpecType /\ cspec \in SpecType /\ mspec \in SpecType
  /\ status \in StatusType /\ cstatus \in StatusType /\ mstatus \in StatusType
  /\ ccur \in BOOLEAN /\ mcur \in BOOLEAN
  /\ pc \in PCs /\ site \in {1, 2} /\ target \in Tags \cup {NoVersion} /\ stale \in BOOLEAN
  /\ sts \in [exists : BOOLEAN, replicas : {0, 1}, image : Tags]
  /\ pod \in [image : Tags \cup {NoVersion}, ready : BOOLEAN]
  /\ job \in JobStates
  /\ latest \in Versions /\ creds \in BOOLEAN
  /\ faults \in 0 .. MaxFaults /\ edits \in 0 .. MaxEdits

-----------------------------------------------------------------------------
(* The API server, as the operator's client uses it *)

\* One more API call of the pass fails, or another fault happens.
Fault == faults < MaxFaults /\ faults' = faults + 1

\* Where a failed call of reconcileAutoUpdate leaves Reconcile: the first call
\* falls through to reconcileResources, the second to the final status update.
OnError == IF site = 1 THEN "resources" ELSE "final"

\* The pass's copy after a step; a pass that is over keeps nothing.
Keep(sp, st, cur) ==
  /\ mspec' = IF pc' = "idle" THEN NoSpec ELSE sp
  /\ mstatus' = IF pc' = "idle" THEN NoStatus ELSE st
  /\ mcur' = (pc' # "idle" /\ cur)

\* A response of the API server is decoded over the object the call passed:
\* a field the response omits because it is empty keeps its old value.
DecodeSpec(old, new) == [new EXCEPT !.suspended = new.suspended \/ old.suspended]

DecodeStatus(old, new) ==
  LET Field(f, empty) == IF new[f] = empty THEN old[f] ELSE new[f]
  IN  [phase |-> new.phase, available |-> new.available,
       pending     |-> Field("pending", NoVersion),
       updatePhase |-> Field("updatePhase", ""),
       previous    |-> Field("previous", NoVersion),
       failed      |-> Field("failed", NoVersion),
       current     |-> Field("current", NoVersion),
       rollbacks   |-> Field("rollbacks", 0),
       backupPath  |-> Field("backupPath", ""),
       lastCheck   |-> Field("lastCheck", "nil"),
       lastUpdate  |-> Field("lastUpdate", "nil")]

\* r.Status().Update(instance) with the status st: stored when the copy is
\* current (the pass goes on at "ok"), otherwise refused as a conflict (the
\* pass goes on at "err"); it may also fail for another reason.
StoreStatus(st, ok) ==
  /\ mcur
  /\ status' = st
  /\ ccur' = (ccur /\ (st = status \/ ~CacheLags))
  /\ pc' = ok
  /\ Keep(DecodeSpec(mspec, spec), st, TRUE)
  /\ UNCHANGED <<spec, cspec, cstatus, faults>>

RefuseStatus(st, err) ==
  /\ \/ ~mcur /\ UNCHANGED faults
     \/ Fault
  /\ pc' = err
  /\ Keep(mspec, st, mcur)
  /\ UNCHANGED <<apiVars, cacheVars>>

StatusUpdate(st, ok, err) ==
  /\ StoreStatus(st, ok) \/ RefuseStatus(st, err)
  /\ UNCHANGED <<passVars, workVars, envVars>>

\* r.Patch(instance, MergeFrom(original)) of the image tag: sends the tag only
\* if it differs from the copy's, checks no revision, and refreshes the copy.
PatchTag(t, st, ok) ==
  /\ spec' = IF mspec.tag = t THEN spec ELSE [spec EXCEPT !.tag = t]
  /\ ccur' = (ccur /\ (spec' = spec \/ ~CacheLags))
  /\ pc' = ok
  /\ Keep(DecodeSpec(mspec, spec'), DecodeStatus(st, status), TRUE)
  /\ UNCHANGED <<status, cspec, cstatus, faults, site, stale, workVars, envVars>>

\* The same call failing: the copy already holds the new tag.
PatchTagFails(t, st, err) ==
  /\ Fault
  /\ pc' = err
  /\ Keep([mspec EXCEPT !.tag = t], st, mcur)
  /\ UNCHANGED <<apiVars, cacheVars, site, stale, workVars, envVars>>

\* A branch of the pass that writes nothing to the API server.
Local(st, next) ==
  /\ pc' = next
  /\ Keep(mspec, st, mcur)
  /\ UNCHANGED <<apiVars, cacheVars, passVars, workVars, envVars, faults>>

-----------------------------------------------------------------------------
(* Reconcile *)

\* Reconcile drives an update in progress before it touches any resource,
\* unless the instance is suspended.
Dispatch(sp, st) ==
  IF st.pending # NoVersion /\ ~sp.suspended THEN "drive" ELSE "resources"

\* r.Get of the instance from the informer's cache, and the first branch.  A
\* pass that starts before its predecessor's writes are cached is a fault.
Begin ==
  LET sp  == IF CacheLags THEN cspec ELSE spec
      st  == IF CacheLags THEN cstatus ELSE status
      cur == IF CacheLags THEN ccur ELSE TRUE
  IN  /\ pc = "idle"
      /\ pc' = IF st.phase = "Pending" THEN "provision" ELSE Dispatch(sp, st)
      /\ site' = 1 /\ target' = NoVersion /\ stale' = ~cur
      /\ Keep(sp, st, cur)
      /\ IF cur THEN UNCHANGED faults ELSE Fault
      /\ UNCHANGED <<apiVars, cacheVars, workVars, envVars>>

\* Pending -> Provisioning.
Provision ==
  /\ pc = "provision"
  /\ StatusUpdate([mstatus EXCEPT !.phase = "Provisioning"], "resolve", "idle")

\* resolveInitialTag: "latest" becomes a concrete version on the first pass.
ResolveInitialTag ==
  /\ pc = "resolve"
  /\ IF mspec.enabled /\ mspec.tag = Latest
     THEN /\ \/ PatchTag(latest, mstatus, "resolved")
             \/ PatchTagFails(latest, mstatus, "idle")
          /\ UNCHANGED target
     ELSE Local(mstatus, Dispatch(mspec, mstatus))

\* The registry cannot be read: the pass continues with "latest".
ResolveInitialTagFails ==
  /\ pc = "resolve" /\ mspec.enabled /\ mspec.tag = Latest
  /\ Fault
  /\ pc' = Dispatch(mspec, mstatus)
  /\ UNCHANGED <<apiVars, cacheVars, memVars, passVars, workVars, envVars>>

\* The pass pinned "latest", here or in CheckPinsLatest, and records it.
TagResolved ==
  /\ pc = "resolved"
  /\ StatusUpdate([mstatus EXCEPT !.current = mspec.tag], "idle", "idle")

\* reconcileResources, as far as updates can see it: the StatefulSet gets the
\* copy's tag and the replica count suspension asks for; then the phase.
\* Mutated: an existing replica count is preserved, as it is under an HPA.
DesiredStsKeepsReplicas ==
  [exists |-> TRUE, image |-> mspec.tag,
   replicas |-> IF sts.exists THEN sts.replicas ELSE IF mspec.suspended THEN 0 ELSE 1]

\* Mutated: the image of an existing StatefulSet is not updated.
DesiredStsKeepsImage ==
  [exists |-> TRUE, replicas |-> IF mspec.suspended THEN 0 ELSE 1,
   image |-> IF sts.exists THEN sts.image ELSE mspec.tag]

DesiredSts ==
  [exists |-> TRUE, replicas |-> IF mspec.suspended THEN 0 ELSE 1, image |-> mspec.tag]

ReconcileResources ==
  /\ pc = "resources"
  /\ sts' = DesiredSts
  /\ pc' = IF mspec.suspended THEN "final"
           ELSE IF mstatus.pending # NoVersion THEN "drive" ELSE "check"
  /\ site' = 2 /\ UNCHANGED <<target, stale>>
  /\ Keep(mspec,
          [mstatus EXCEPT !.phase = IF mspec.suspended THEN "Suspended"
                                    ELSE IF pod.ready THEN "Running" ELSE "Provisioning"],
          mcur)
  /\ UNCHANGED <<apiVars, cacheVars, pod, job, envVars, faults>>

\* One of the resources fails, before or after the StatefulSet is written.  An
\* optimistic-lock conflict ends the pass without a trace.
ResourcesConflict ==
  /\ pc = "resources"
  /\ Fault
  /\ sts' \in {sts, DesiredSts}
  /\ pc' = "idle"
  /\ Keep(mspec, mstatus, mcur)
  /\ UNCHANGED <<apiVars, cacheVars, passVars, pod, job, envVars>>

\* Any other error marks the instance Failed.
ResourcesFail ==
  /\ pc = "resources"
  /\ Fault
  /\ sts' \in {sts, DesiredSts}
  /\ pc' = "failed"
  /\ Keep(mspec, [mstatus EXCEPT !.phase = "Failed"], mcur)
  /\ UNCHANGED <<apiVars, cacheVars, passVars, pod, job, envVars>>

\* The status update that ends a pass; a refused one is retried by a new pass.
FinalStatus ==
  /\ pc \in {"final", "failed"}
  /\ StatusUpdate(mstatus, "idle", "idle")

-----------------------------------------------------------------------------
(* reconcileAutoUpdate: the periodic version check *)

\* Mutated: no circuit breaker.
CheckDueWithoutBreaker == mspec.enabled /\ mstatus.lastCheck # "fresh"

\* isAutoUpdateEnabled, the circuit breaker and shouldCheckForUpdate.
CheckDue ==
  /\ mspec.enabled
  /\ mstatus.rollbacks < maxRollbackCount
  /\ mstatus.lastCheck # "fresh"

CheckSkipped == pc = "check" /\ ~CheckDue /\ Local(mstatus, "final")

Checked == [mstatus EXCEPT !.lastCheck = "fresh"]

\* The registry cannot be read: only the time of the check is recorded.
CheckFails ==
  /\ pc = "check" /\ CheckDue
  /\ Fault
  /\ pc' = "final"
  /\ Keep(mspec, Checked, mcur)
  /\ UNCHANGED <<apiVars, cacheVars, passVars, workVars, envVars>>

\* The instance is still on "latest": pin it to the version found.
CheckPinsLatest ==
  /\ pc = "check" /\ CheckDue /\ mspec.tag = Latest
  /\ \/ PatchTag(latest, Checked, "resolved")
     \/ PatchTagFails(latest, Checked, "final")
  /\ UNCHANGED target

\* A tag that is not a semantic version is left alone.
CheckSkipsCustomTag ==
  /\ pc = "check" /\ CheckDue /\ mspec.tag = Custom
  /\ Local(Checked, "final")

\* Mutated: any check clears the record of the failed version.
FailedAfterCheckForgotten == NoVersion

\* A newer version clears the record of the one that failed before it.
FailedAfterCheck ==
  IF mstatus.failed # NoVersion /\ latest > mstatus.failed THEN NoVersion ELSE mstatus.failed

\* Mutated: off by one in the version comparison.
CheckVersionOffByOne ==
  LET seen == [Checked EXCEPT !.current = mspec.tag]
  IN  /\ pc = "check" /\ CheckDue /\ mspec.tag \in Versions
      /\ Local(IF latest <= mspec.tag + 1 THEN [seen EXCEPT !.available = FALSE]
               ELSE [seen EXCEPT !.pending = latest, !.updatePhase = "", !.available = TRUE],
               "final")

\* No newer version, a newer version that already failed, or a new update.
CheckVersion ==
  LET seen == [Checked EXCEPT !.current = mspec.tag]
  IN  /\ pc = "check" /\ CheckDue /\ mspec.tag \in Versions
      /\ Local(IF latest <= mspec.tag THEN [seen EXCEPT !.available = FALSE]
               ELSE IF FailedAfterCheck = latest THEN seen
               ELSE [seen EXCEPT !.failed = FailedAfterCheck, !.pending = latest,
                                 !.updatePhase = "", !.available = TRUE],
               "final")

-----------------------------------------------------------------------------
(* driveUpdateStateMachine *)

\* The pass is at the state machine with an update that is still to be applied.
Driving == pc = "drive" /\ mstatus.updatePhase \notin {"HealthCheck", "RollingBack"}

\* Step 1: phase Updating.
SetUpdating ==
  /\ Driving /\ mstatus.phase # "Updating"
  /\ StatusUpdate([mstatus EXCEPT !.phase = "Updating"], "final", OnError)

\* Step 2: is there still a backup to take?
BackupNeeded == BackupBeforeUpdate /\ mstatus.updatePhase \in {"", "BackingUp"}

SkipBackup ==
  /\ Driving /\ mstatus.phase = "Updating" /\ ~BackupNeeded
  /\ Local(mstatus, "apply")

\* The pass is in drivePreUpdateBackup.
BackingUp == Driving /\ mstatus.phase = "Updating" /\ BackupNeeded

\* The step leaves the instance, its copies and the environment alone.
WorkStep(next) ==
  /\ pc' = next
  /\ UNCHANGED <<apiVars, cacheVars, memVars, passVars, envVars>>

\* drivePreUpdateBackup: no StatefulSet, so nothing to stop and no backup.
BackupWithoutSts == BackingUp /\ ~sts.exists /\ Local(mstatus, "apply")

\* Any of its calls fails: the update is aborted.
BackupCallFails ==
  /\ BackingUp /\ Fault
  /\ WorkStep("abort")
  /\ UNCHANGED workVars

\* Scale the StatefulSet to zero ...
BackupScaleDown ==
  /\ BackingUp /\ sts.exists /\ sts.replicas > 0
  /\ sts' = [sts EXCEPT !.replicas = 0]
  /\ WorkStep("backingUp")
  /\ UNCHANGED <<pod, job, faults>>

\* ... wait for its pod to terminate ...
Stopped == BackingUp /\ sts.exists /\ sts.replicas = 0

BackupWaitForPod ==
  /\ Stopped /\ pod.image # NoVersion
  /\ Local(mstatus, "backingUp")

Drained == Stopped /\ pod.image = NoVersion

\* ... get the credentials, without which the update is aborted ...
BackupWithoutCreds == Drained /\ ~creds /\ Local(mstatus, "abort")

\* ... and create the Job, or look at the one that has its name.
BackupCreateJob ==
  /\ Drained /\ creds /\ job = "none"
  /\ job' = "running"
  /\ WorkStep("backingUp")
  /\ UNCHANGED <<sts, pod, faults>>

BackupWaitForJob == Drained /\ creds /\ job = "running" /\ Local(mstatus, "backingUp")

BackupJobFailed == Drained /\ creds /\ job = "failed" /\ Local(mstatus, "abort")

\* lastPreUpdateBackupPath reads Args[1] of the Job, which for a backup is the
\* local directory "/data/", and strips the prefix ":s3:<bucket>/" from it.
LocalDirLen == 6

lastPreUpdateBackupPath == IF LocalDirLen > 5 + BucketLen THEN "path" ELSE ""

BackupDone ==
  /\ Drained /\ creds /\ job = "complete"
  /\ Local([mstatus EXCEPT !.backupPath = lastPreUpdateBackupPath], "apply")

\* The backup is not finished: remember the phase and come back.
SaveBackingUp ==
  /\ pc = "backingUp"
  /\ StatusUpdate([mstatus EXCEPT !.updatePhase = "BackingUp"], "final", OnError)

\* Mutated: the previous version is not saved.
ApplyWithoutPrevious ==
  /\ pc = "apply"
  /\ StatusUpdate([mstatus EXCEPT !.updatePhase = "ApplyingUpdate"], "patchTag", OnError)

\* Steps 3 and 4: save the previous version and the phase ...
Apply ==
  /\ pc = "apply"
  /\ StatusUpdate([mstatus EXCEPT !.previous = mspec.tag, !.updatePhase = "ApplyingUpdate"],
                  "patchTag", OnError)

\* ... and patch the image tag.
ApplyPatch ==
  /\ pc = "patchTag"
  /\ \/ PatchTag(mstatus.pending, mstatus, "scaleUp")
     \/ PatchTagFails(mstatus.pending, mstatus, "abort")
  /\ UNCHANGED target

\* Mutated: scales up without looking at the replica count.
ApplyScaleUpUnguarded ==
  /\ pc = "scaleUp"
  /\ sts' = IF BackupBeforeUpdate /\ sts.exists
            THEN [sts EXCEPT !.replicas = @ + 1] ELSE sts
  /\ WorkStep("enterHealthCheck")
  /\ UNCHANGED <<pod, job, faults>>

\* Step 4b: undo the scale-down of the backup.
ApplyScaleUp ==
  /\ pc = "scaleUp"
  /\ sts' = IF BackupBeforeUpdate /\ sts.exists /\ sts.replicas = 0
            THEN [sts EXCEPT !.replicas = 1] ELSE sts
  /\ WorkStep("enterHealthCheck")
  /\ UNCHANGED <<pod, job, faults>>

\* A failed Patch aborts the update; a failed Get is ignored.
ApplyScaleUpFails ==
  /\ pc = "scaleUp" /\ BackupBeforeUpdate /\ Fault
  /\ \E next \in {"abort", "enterHealthCheck"} : WorkStep(next)
  /\ UNCHANGED workVars

\* The status fields an update that is over leaves behind.
Cleared(st) ==
  [st EXCEPT !.pending = NoVersion, !.updatePhase = "", !.previous = NoVersion,
             !.backupPath = "", !.available = FALSE]

\* Step 5: start the health check, or confirm at once when rollback is off.
EnterHealthCheck ==
  /\ pc = "enterHealthCheck"
  /\ StatusUpdate(
       IF mspec.rollback
       THEN [mstatus EXCEPT !.updatePhase = "HealthCheck", !.lastUpdate = "fresh",
                            !.phase = "Provisioning"]
       ELSE [Cleared(mstatus) EXCEPT !.current = mstatus.pending, !.lastUpdate = "fresh",
                                     !.rollbacks = 0, !.phase = "Provisioning"],
       "final", OnError)

\* Mutated: the AutoUpdateAvailable condition is not removed.
AbortKeepsCondition ==
  /\ pc = "abort"
  /\ StatusUpdate([mstatus EXCEPT !.pending = NoVersion, !.updatePhase = "",
                                  !.phase = "Running"],
                  "abortScale", OnError)

\* abortUpdate: clear the update, then scale the StatefulSet up again.
Abort ==
  /\ pc = "abort"
  /\ StatusUpdate([mstatus EXCEPT !.pending = NoVersion, !.updatePhase = "",
                                  !.phase = "Running", !.available = FALSE],
                  "abortScale", OnError)

AbortScaleUp ==
  /\ pc = "abortScale"
  /\ sts' = IF sts.exists /\ sts.replicas = 0 THEN [sts EXCEPT !.replicas = 1] ELSE sts
  /\ WorkStep("final")
  /\ UNCHANGED <<pod, job, faults>>

\* A failure to scale up is only logged.
AbortScaleUpFails ==
  /\ pc = "abortScale" /\ Fault
  /\ WorkStep("final")
  /\ UNCHANGED workVars

-----------------------------------------------------------------------------
(* driveHealthCheck and driveRollback *)

Checking == pc = "drive" /\ mstatus.updatePhase = "HealthCheck"

\* sts.Status.ReadyReplicas > 0 && sts.Status.UpdatedReplicas > 0
Healthy == pod.ready /\ pod.image = sts.image

HealthCheckWithoutSts == Checking /\ ~sts.exists /\ Local(mstatus, "final")

HealthCheckReadFails ==
  /\ Checking /\ Fault
  /\ WorkStep(OnError)
  /\ UNCHANGED workVars

HealthCheckPasses ==
  /\ Checking /\ sts.exists /\ Healthy
  /\ StatusUpdate([Cleared(mstatus) EXCEPT !.current = mstatus.pending, !.rollbacks = 0,
                                           !.phase = "Running"],
                  "final", OnError)

HealthCheckWaits ==
  /\ Checking /\ sts.exists /\ ~Healthy /\ mstatus.lastUpdate # "old"
  /\ Local([mstatus EXCEPT !.lastUpdate = "fresh"], "final")

\* Mutated: the timeout is logged, but no rollback is triggered.
HealthCheckTimeoutIgnored ==
  /\ Checking /\ sts.exists /\ ~Healthy /\ mstatus.lastUpdate = "old"
  /\ Local(mstatus, "final")

HealthCheckTimesOut ==
  /\ Checking /\ sts.exists /\ ~Healthy /\ mstatus.lastUpdate = "old"
  /\ StatusUpdate([mstatus EXCEPT !.updatePhase = "RollingBack", !.phase = "Updating"],
                  "final", OnError)

RollingBack == pc = "drive" /\ mstatus.updatePhase = "RollingBack"

\* driveRollback: revert the tag ...  (driveRollbackRestore is called only with
\* a backup path, which lastPreUpdateBackupPath never finds.)
RollbackPatch ==
  /\ RollingBack /\ mstatus.previous # NoVersion /\ mstatus.backupPath = ""
  /\ \/ PatchTag(mstatus.previous, mstatus, "rolledBack")
     \/ PatchTagFails(mstatus.previous, mstatus, OnError)
  /\ target' = mstatus.previous

\* Mutated: the failed update stays pending.
RollbackStatusKeepsPending ==
  /\ pc = "rolledBack"
  /\ StatusUpdate([mstatus EXCEPT !.failed = mstatus.pending,
                                  !.rollbacks = mstatus.rollbacks + 1,
                                  !.current = target],
                  "final", OnError)

\* ... and record the failure.
RollbackStatus ==
  /\ pc = "rolledBack"
  /\ StatusUpdate([Cleared(mstatus) EXCEPT !.failed = mstatus.pending,
                                           !.rollbacks = mstatus.rollbacks + 1,
                                           !.current = target,
                                           !.phase = "Provisioning"],
                  "final", OnError)

-----------------------------------------------------------------------------
(* The rest of the cluster *)

\* The operator's process dies in the middle of a pass, or loses its lease.
Crash ==
  /\ pc # "idle" /\ Fault
  /\ pc' = "idle"
  /\ Keep(NoSpec, NoStatus, FALSE)
  /\ UNCHANGED <<apiVars, cacheVars, passVars, workVars, envVars>>

\* The informer catches up with the API server.
CacheSync ==
  /\ CacheLags /\ ~ccur
  /\ cspec' = spec /\ cstatus' = status /\ ccur' = TRUE
  /\ UNCHANGED <<apiVars, memVars, pc, passVars, workVars, envVars, faults>>

\* A user, or the self-config controller, writes the instance's spec.
Edit(kind) == kind \in UserMay /\ edits < MaxEdits /\ edits' = edits + 1

EditSpec(new) ==
  /\ spec' = new
  /\ mcur' = FALSE
  /\ ccur' = ~CacheLags
  /\ UNCHANGED <<status, cspec, cstatus, mspec, mstatus, pc, passVars, workVars,
                 latest, creds, faults>>

UserSuspends == Edit("suspend") /\ EditSpec([spec EXCEPT !.suspended = ~@])
UserTogglesAutoUpdate == Edit("enable") /\ EditSpec([spec EXCEPT !.enabled = ~@])
UserTogglesRollback ==
  /\ Edit("rollback") /\ RollbackModes = BOOLEAN
  /\ EditSpec([spec EXCEPT !.rollback = ~@])
UserEditsTag ==
  /\ Edit("tag")
  /\ \E t \in UserTags \ {spec.tag} : EditSpec([spec EXCEPT !.tag = t])
UserEditsOtherField == Edit("other") /\ EditSpec(spec)

UserDeletesSts ==
  /\ Edit("deleteSts") /\ sts.exists
  /\ sts' = [sts EXCEPT !.exists = FALSE]
  /\ UNCHANGED <<apiVars, cacheVars, memVars, pc, passVars, pod, job, latest, creds, faults>>

UserChangesCreds ==
  /\ Edit("creds")
  /\ creds' = ~creds
  /\ UNCHANGED <<apiVars, cacheVars, memVars, pc, passVars, workVars, latest, faults>>

\* A version is published.
Publish ==
  /\ latest < MaxVersion
  /\ latest' = latest + 1
  /\ UNCHANGED <<apiVars, cacheVars, memVars, pc, passVars, workVars, creds, edits, faults>>

\* The check interval, or the health check's timeout, passes.
Aged(st, check, update) ==
  [st EXCEPT !.lastCheck  = IF check /\ @ = "fresh" THEN "old" ELSE @,
             !.lastUpdate = IF update /\ @ = "fresh" THEN "old" ELSE @]

Age(check, update) ==
  /\ status' = Aged(status, check, update)
  /\ cstatus' = Aged(cstatus, check, update)
  /\ mstatus' = Aged(mstatus, check, update)
  /\ UNCHANGED <<spec, cspec, ccur, mspec, mcur, pc, passVars, workVars, envVars, faults>>

CheckIntervalPasses == status.lastCheck = "fresh" /\ Age(TRUE, FALSE)

\* The pod has got as far as the StatefulSet's spec lets it.
PodSettled ==
  IF sts.exists /\ sts.replicas = 1
  THEN pod.image = sts.image /\ (pod.ready \/ pod.image \in BadVersions)
  ELSE pod.image = NoVersion

\* Only a health check looks at the time of the last update.
HealthCheckTimeoutPasses ==
  /\ PodsMayBeSlow \/ PodSettled
  /\ "HealthCheck" \in {status.updatePhase, cstatus.updatePhase, mstatus.updatePhase}
  /\ status.lastUpdate = "fresh"
  /\ Age(FALSE, TRUE)

\* The StatefulSet controller and the kubelet.
ClusterStep ==
  UNCHANGED <<apiVars, cacheVars, memVars, pc, passVars, sts, envVars>>

PodStarts ==
  /\ sts.exists /\ sts.replicas = 1 /\ pod.image = NoVersion
  /\ pod' = [image |-> sts.image, ready |-> FALSE]
  /\ ClusterStep /\ UNCHANGED <<job, faults>>

PodBecomesReady ==
  /\ pod.image \notin BadVersions \cup {NoVersion} /\ ~pod.ready
  /\ pod' = [pod EXCEPT !.ready = TRUE]
  /\ ClusterStep /\ UNCHANGED <<job, faults>>

PodStops ==
  /\ pod.image # NoVersion
  /\ ~sts.exists \/ sts.replicas = 0 \/ pod.image # sts.image
  /\ pod' = [image |-> NoVersion, ready |-> FALSE]
  /\ ClusterStep /\ UNCHANGED <<job, faults>>

PodFails ==
  /\ pod.ready /\ Fault
  /\ pod' = [pod EXCEPT !.ready = FALSE]
  /\ ClusterStep /\ UNCHANGED job

\* The Job controller: the Job ends, and is deleted ttlSecondsAfterFinished (24h)
\* later.  That it is gone before a waiting operator looks again is a fault.
JobEnds ==
  /\ job = "running"
  /\ \/ job' = "complete" /\ UNCHANGED faults
     \/ Fault /\ job' = "failed"
  /\ ClusterStep /\ UNCHANGED pod

JobExpires ==
  /\ job \in {"complete", "failed"}
  /\ IF status.updatePhase = "BackingUp" THEN Fault ELSE UNCHANGED faults
  /\ job' = "none"
  /\ ClusterStep /\ UNCHANGED pod

-----------------------------------------------------------------------------
(* The specification *)

Init ==
  /\ \E t \in InitialTags, rb \in RollbackModes :
       spec = [tag |-> t, suspended |-> FALSE, enabled |-> TRUE, rollback |-> rb]
  /\ status = NoStatus
  /\ cspec = spec /\ cstatus = status /\ ccur = TRUE
  /\ mspec = NoSpec /\ mstatus = NoStatus /\ mcur = FALSE
  /\ pc = "idle" /\ site = 1 /\ target = NoVersion /\ stale = FALSE
  /\ sts = [exists |-> FALSE, replicas |-> 0, image |-> Latest]
  /\ pod = [image |-> NoVersion, ready |-> FALSE]
  /\ job = "none"
  /\ latest = 1 /\ creds = TRUE
  /\ faults = 0 /\ edits = 0

\* One step of a reconcile pass.
Reconcile ==
  \/ Begin \/ Provision \/ ResolveInitialTag \/ ResolveInitialTagFails \/ TagResolved
  \/ ReconcileResources \/ ResourcesConflict \/ ResourcesFail \/ FinalStatus

VersionCheck ==
  \/ CheckSkipped \/ CheckFails \/ CheckPinsLatest \/ CheckSkipsCustomTag \/ CheckVersion

DriveUpdate ==
  \/ SetUpdating \/ SkipBackup
  \/ BackupWithoutSts \/ BackupCallFails \/ BackupScaleDown \/ BackupWaitForPod
  \/ BackupWithoutCreds
  \/ BackupCreateJob \/ BackupWaitForJob \/ BackupJobFailed \/ BackupDone
  \/ SaveBackingUp \/ Apply \/ ApplyPatch \/ ApplyScaleUp \/ ApplyScaleUpFails
  \/ EnterHealthCheck
  \/ Abort \/ AbortScaleUp \/ AbortScaleUpFails

DriveHealthCheck ==
  \/ HealthCheckWithoutSts \/ HealthCheckReadFails \/ HealthCheckPasses \/ HealthCheckWaits
  \/ HealthCheckTimesOut
  \/ RollbackPatch \/ RollbackStatus

Operator == Reconcile \/ VersionCheck \/ DriveUpdate \/ DriveHealthCheck

User ==
  \/ UserSuspends \/ UserTogglesAutoUpdate \/ UserTogglesRollback \/ UserEditsTag
  \/ UserEditsOtherField
  \/ UserDeletesSts \/ UserChangesCreds

Cluster ==
  \/ CacheSync \/ Publish \/ CheckIntervalPasses \/ HealthCheckTimeoutPasses
  \/ PodStarts \/ PodBecomesReady \/ PodStops \/ PodFails \/ JobEnds \/ JobExpires

Next == Operator \/ Crash \/ User \/ Cluster

Spec == Init /\ [][Next]_vars

\* The operator's work queue always holds a retry of the last pass, every
\* controller of the cluster eventually acts, and time passes; a finished Job
\* expires at a fixed time, whatever phases the update goes through until then.
\* Nothing is assumed of the user, the registry or the faults.
Fairness ==
  /\ WF_vars(Operator)
  /\ WF_vars(CacheSync)
  /\ WF_vars(PodStarts) /\ WF_vars(PodBecomesReady) /\ WF_vars(PodStops)
  /\ WF_vars(JobEnds) /\ SF_vars(JobExpires)
  /\ WF_vars(CheckIntervalPasses) /\ WF_vars(HealthCheckTimeoutPasses)

FairSpec == Spec /\ Fairness

-----------------------------------------------------------------------------
(* Properties the code has *)

InProgress(st) == st.pending # NoVersion

\* An update is in progress only while the circuit breaker is closed:
\* reconcileAutoUpdate pauses "after this many consecutive rollbacks", whatever
\* was cached, retried or lost on the way.
BreakerHolds == InProgress(status) => status.rollbacks < maxRollbackCount

\* The AutoUpdateAvailable condition is set exactly while an update is in
\* progress: every way an update ends removes it in the same write.
AvailableIffPending == status.available <=> InProgress(status)

\* From ApplyingUpdate on the version to go back to is recorded, so
\* driveRollback never meets its "no previous version recorded" error, and an
\* update phase is never left behind by an update that is over.
RollbackTargetKnown ==
  /\ status.updatePhase \in {"ApplyingUpdate", "HealthCheck", "RollingBack"}
       => status.previous # NoVersion
  /\ status.updatePhase # "" => InProgress(status)

\* A pass decides to update on its copy of the instance, which may be stale or
\* hold what a refused write left in it.  The stored update is still never to a
\* version older than the stored tag, nor to the version that is stored as failed.
\* (Several stale reads in a row break it, and so does a tag that the registry
\* has not published, when a patch and the abort after it both fail.)
UpdatesGoForward ==
  [][ status'.pending \notin {status.pending, NoVersion} =>
        /\ status'.pending # status.failed
        /\ spec.tag \in Versions => status'.pending >= spec.tag ]_vars

\* The same through any number of stale reads: no pass starts an update to a version
\* older than the stored tag, and none that began with the stored revision starts
\* one to the version that is stored as failed, whatever the others stored.
UpdatesGoForwardWhenStale ==
  [][ status'.pending \notin {status.pending, NoVersion} =>
        /\ ~stale => status'.pending # status.failed
        /\ spec.tag \in Versions => status'.pending >= spec.tag ]_vars

\* A rollback is counted once, by the write that ends the update it ends, even
\* if the pass that reverts the tag crashes or is refused and runs again, and
\* whatever passes that began with an old revision stored before.
\* (Such a pass may count a rollback that is over once more.  And so does a tag
\* set back to "latest" during the update: CheckPinsLatest in the pass whose
\* write was refused decodes the stored update over the count, and TagResolved
\* stores both.)
RollbackCountedOnce ==
  [][ status'.rollbacks > status.rollbacks /\ ~stale /\ pc # "resolved" =>
        /\ status'.rollbacks = status.rollbacks + 1
        /\ InProgress(status) /\ status'.pending # status.pending ]_vars

\* An update that is not suspended ends: confirmed, rolled back or aborted.
UpdateEnds == InProgress(status) ~> (~InProgress(status) \/ spec.suspended)

\* An instance that was scaled to zero for a backup and is not suspended runs
\* again, whichever step of the update failed.
WorkloadComesBack ==
  (sts.exists /\ sts.replicas = 0) ~> (sts.replicas = 1 \/ spec.suspended)

\* When edits and faults are over, the StatefulSet runs the image tag of the
\* spec, again and again, or the instance is suspended.
ImageConverges == []<>(spec.suspended \/ (sts.exists /\ sts.image = spec.tag))

\* An instance that nobody edits gets to the newest version and stays there, or
\* that version is on record as failed, whichever call fails, Job fails or
\* process crashes on the way: an aborted update is tried again, and a check
\* that failed is made again.
ReachesNewestVersion ==
  <>[](spec.tag = latest \/ status.failed = latest \/ edits > 0)

-----------------------------------------------------------------------------
(* Statements of the documentation and of comments that the code breaks *)

\* "Update to %s confirmed - pod is healthy": the pod that is healthy when an
\* update is confirmed by the health check runs the confirmed version.
ConfirmedVersionRuns ==
  [][ (status.updatePhase = "HealthCheck" /\ InProgress(status) /\ ~InProgress(status')
         /\ status'.current = status.pending)
      => (pod.ready /\ pod.image = status.pending) ]_vars

\* "Backup complete - save the backup path for potential rollback restore": a
\* rollback of an update whose backup Job completed has a path to restore from,
\* so that the rollback is a "full data restore".
RollbackCanRestore ==
  status.updatePhase = "RollingBack" /\ job = "complete" => status.backupPath # ""

\* "After 3 consecutive rollbacks, auto-update pauses. Fix the issue, then manually
\* update spec.image.tag to reset": the edit of the tag closes the breaker.  The
\* last rollback recorded the tag it went back to as the current version.
TagEditResetsCount ==
  (status.rollbacks >= maxRollbackCount /\ spec.tag # status.current)
    ~> (status.rollbacks < maxRollbackCount)
=============================================================================
