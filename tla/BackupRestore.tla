---------------------------- MODULE BackupRestore ----------------------------
(***************************************************************************)
(* The life of one OpenClawInstance's volume: creation with an optional    *)
(* restore (internal/controller/restore.go), running, and deletion with a  *)
(* backup (internal/controller/backup.go), with the slice of Reconcile     *)
(* that calls them.                                                        *)
(*                                                                         *)
(* A reconcile pass is split at its API writes, as in AutoUpdate; the      *)
(* reads between two writes are one step.  Every pass starts from the      *)
(* stored instance.  One that started from an older revision would be      *)
(* refused at its first status write, and the writes it makes before that  *)
(* (the claim, the scale-down) are idempotent.                             *)
(***************************************************************************)
EXTENDS Integers

CONSTANTS
  Paths,           \* the backups in S3 a user may restore from
  NoPath,          \* an empty path
  Persistence,     \* spec.storage.persistence.enabled
  ExistingClaim,   \* spec.storage.persistence.existingClaim is set
  Orphan,          \* spec.storage.persistence.orphan
  CredsStates,     \* what the admin makes of the S3 credentials Secret
  ClusterMayHang,  \* may a Job run, or a pod terminate, for ever?
  UserMay,         \* the kinds of edit the user makes
  MaxEdits,        \* bound on user edits
  MaxFaults,       \* bound on failed API calls, failed Jobs and crashes
  MaxDisturbances  \* bound on both together

MaybePaths == Paths \cup {NoPath}
EditKinds == {"restore", "delete", "skip", "other", "deleteSts", "creds"}

ASSUME ConstantsAssumption ==
  /\ NoPath \notin Paths
  /\ Persistence \in BOOLEAN /\ ExistingClaim \in BOOLEAN /\ Orphan \in BOOLEAN
  /\ CredsStates \subseteq {"ok", "missing", "broken"}
  /\ ClusterMayHang \in BOOLEAN
  /\ UserMay \subseteq EditKinds
  /\ MaxEdits \in Nat /\ MaxFaults \in Nat /\ MaxDisturbances \in Nat

VARIABLES
  inst, status,            \* the instance as the API server stores it
  minst, mstatus, mcur,    \* the pass's in-memory copy; is it the stored revision?
  pc,                      \* where the reconcile pass is
  sts, pod,                \* the StatefulSet's spec; does its pod exist?
  backupJob, restoreJob,   \* the two Jobs
  pvc,                     \* the volume claim
  s3,                      \* has the pre-delete backup been completed?
  creds, credsWereMissing, \* the credentials Secret; was it ever missing?
  faults, edits            \* how much of the two budgets is spent

memVars == <<minst, mstatus, mcur>>
workVars == <<sts, pod, backupJob, restoreJob, pvc, s3>>
envVars == <<creds, credsWereMissing, edits>>
vars == <<inst, status, memVars, pc, workVars, envVars, faults>>

-----------------------------------------------------------------------------
(* Types *)

Phases == {"", "Pending", "Provisioning", "Running", "Failed", "Restoring",
           "BackingUp", "Terminating"}

\* Metadata and spec: the finalizer, the deletion timestamp, the skip-backup
\* annotation and spec.restoreFrom.
InstType == [exists : BOOLEAN, finalizer : BOOLEAN, deleting : BOOLEAN, skip : BOOLEAN,
             restoreFrom : MaybePaths]

\* "since" is the age of BackingUpSince relative to spec.backup.timeout and
\* "backup" the reason of the BackupComplete condition.
StatusType == [phase : Phases, since : {"nil", "fresh", "old"}, lastBackupPath : BOOLEAN,
               restoredFrom : MaybePaths,
               backup : {"", "BackupFailed", "BackupTimedOut", "BackupSucceeded"}]

JobType == [state : {"none", "running", "complete", "failed"}, from : MaybePaths]

PCs == {"idle", "reconcile", "volume", "restore", "restoring", "createRestore", "clear",
        "resources", "failed", "final",
        "delete", "backup", "createBackup", "orphan", "finalize"}

NoInst == [exists |-> FALSE, finalizer |-> FALSE, deleting |-> FALSE, skip |-> FALSE,
           restoreFrom |-> NoPath]
NoStatus == [phase |-> "", since |-> "nil", lastBackupPath |-> FALSE,
             restoredFrom |-> NoPath, backup |-> ""]
NoJob == [state |-> "none", from |-> NoPath]
NoSts == [exists |-> FALSE, replicas |-> 0]
NoPvc == [exists |-> FALSE, owned |-> FALSE]

\* Every variable has its type: the type invariant of the module.
TypeOK ==
  /\ inst \in InstType /\ minst \in InstType
  /\ status \in StatusType /\ mstatus \in StatusType
  /\ mcur \in BOOLEAN /\ pc \in PCs
  /\ sts \in [exists : BOOLEAN, replicas : {0, 1}] /\ pod \in BOOLEAN
  /\ backupJob \in JobType /\ restoreJob \in JobType
  /\ pvc \in [exists : BOOLEAN, owned : BOOLEAN] /\ s3 \in BOOLEAN
  /\ creds \in {"ok", "missing", "broken"} /\ credsWereMissing \in BOOLEAN
  /\ faults \in 0 .. MaxFaults /\ edits \in 0 .. MaxEdits

-----------------------------------------------------------------------------
(* The API server, as the operator's client uses it *)

Undisturbed == faults + edits < MaxDisturbances

Fault == faults < MaxFaults /\ Undisturbed /\ faults' = faults + 1

\* The pass's copy after a step; a pass that is over keeps nothing.
Keep(in, st, cur) ==
  /\ minst' = IF pc' = "idle" THEN NoInst ELSE in
  /\ mstatus' = IF pc' = "idle" THEN NoStatus ELSE st
  /\ mcur' = (pc' # "idle" /\ cur)

\* Status().Update: refused as a conflict when the copy is not current, which
\* ends the pass; any other failure takes it to "err".
StatusUpdate(st, ok, err) ==
  /\ \/ /\ mcur
        /\ status' = st /\ pc' = ok
        /\ Keep(minst, st, TRUE)
        /\ UNCHANGED faults
     \/ /\ ~mcur
        /\ pc' = "idle"
        /\ Keep(minst, st, FALSE)
        /\ UNCHANGED <<status, faults>>
     \/ /\ Fault
        /\ pc' = err
        /\ Keep(minst, st, mcur)
        /\ UNCHANGED status
  /\ UNCHANGED <<inst, workVars, envVars>>

\* A branch that writes nothing.
Local(next) ==
  /\ pc' = next
  /\ Keep(minst, mstatus, mcur)
  /\ UNCHANGED <<inst, status, workVars, envVars, faults>>

\* A write of a child resource, which leaves the instance and its copy alone.
ChildStep(next) ==
  /\ pc' = next
  /\ Keep(minst, mstatus, mcur)
  /\ UNCHANGED <<inst, status, envVars>>

\* A call on a child resource fails.
ChildCallFails(next) == Fault /\ ChildStep(next) /\ UNCHANGED workVars

-----------------------------------------------------------------------------
(* Reconcile of an instance that is not being deleted *)

Begin ==
  /\ pc = "idle" /\ inst.exists
  /\ pc' = IF inst.deleting THEN "delete" ELSE "reconcile"
  /\ Keep(inst, status, TRUE)
  /\ UNCHANGED <<inst, status, workVars, envVars, faults>>

\* r.Update(instance) with the finalizer added.
AddFinalizer ==
  /\ pc = "reconcile" /\ ~minst.finalizer
  /\ inst' = IF mcur THEN [inst EXCEPT !.finalizer = TRUE] ELSE inst
  /\ pc' = "idle" /\ Keep(minst, mstatus, mcur)
  /\ UNCHANGED <<status, workVars, envVars, faults>>

InitPhase ==
  /\ pc = "reconcile" /\ minst.finalizer /\ mstatus.phase = ""
  /\ StatusUpdate([mstatus EXCEPT !.phase = "Pending"], "idle", "idle")

Provision ==
  /\ pc = "reconcile" /\ minst.finalizer /\ mstatus.phase = "Pending"
  /\ StatusUpdate([mstatus EXCEPT !.phase = "Provisioning"], "volume", "idle")

AtVolume ==
  \/ pc = "volume"
  \/ pc = "reconcile" /\ minst.finalizer /\ mstatus.phase \notin {"", "Pending"}

\* reconcilePVC: created once, owned by the instance, never adopted later.
ReconcilePVC ==
  /\ AtVolume
  /\ pvc' = IF Persistence /\ ~ExistingClaim /\ ~pvc.exists
            THEN [exists |-> TRUE, owned |-> TRUE] ELSE pvc
  /\ ChildStep("restore")
  /\ UNCHANGED <<sts, pod, backupJob, restoreJob, s3, faults>>

ReconcilePVCFails == AtVolume /\ ChildCallFails("failed")

\* reconcileRestore: not requested, or done before.
\* Mutated: what was restored before is restored again.
RestoreNeededAgain == minst.restoreFrom # NoPath

RestoreNeeded == minst.restoreFrom # NoPath /\ mstatus.restoredFrom = NoPath

RestoreSkipped == pc = "restore" /\ ~RestoreNeeded /\ Local("resources")

SetRestoring ==
  /\ pc = "restore" /\ RestoreNeeded /\ mstatus.phase # "Restoring"
  /\ StatusUpdate([mstatus EXCEPT !.phase = "Restoring"], "restoring", "failed")

Restoring ==
  \/ pc = "restoring"
  \/ pc = "restore" /\ RestoreNeeded /\ mstatus.phase = "Restoring"

RestoreWithoutCreds == Restoring /\ creds # "ok" /\ Local("idle")

\* Reading the Secret, its mirror or the Job fails.
RestoreCallFails == Restoring /\ creds = "ok" /\ ChildCallFails("failed")

\* Mutated: the pass returns once the name is recorded.
RecordRestoreJobReturns ==
  /\ Restoring /\ creds = "ok" /\ restoreJob.state = "none"
  /\ StatusUpdate(mstatus, "idle", "failed")

\* No Job yet: record its name, then create it.
RecordRestoreJob ==
  /\ Restoring /\ creds = "ok" /\ restoreJob.state = "none"
  /\ StatusUpdate(mstatus, "createRestore", "failed")

CreateRestoreJob ==
  /\ pc = "createRestore"
  /\ restoreJob' = [state |-> "running", from |-> minst.restoreFrom]
  /\ ChildStep("idle")
  /\ UNCHANGED <<sts, pod, backupJob, pvc, s3, faults>>

CreateRestoreJobFails == pc = "createRestore" /\ ChildCallFails("failed")

\* Mutated: a running Job is not waited for.
WaitForRestoreNot ==
  Restoring /\ creds = "ok" /\ restoreJob.state = "running" /\ Local("resources")

WaitForRestore ==
  Restoring /\ creds = "ok" /\ restoreJob.state = "running" /\ Local("idle")

RestoreFailed ==
  /\ Restoring /\ creds = "ok" /\ restoreJob.state = "failed"
  /\ StatusUpdate(mstatus, "idle", "failed")

\* The Job is complete: record it in the status ...
RestoreSucceeded ==
  /\ Restoring /\ creds = "ok" /\ restoreJob.state = "complete"
  /\ StatusUpdate([mstatus EXCEPT !.restoredFrom = minst.restoreFrom,
                                  !.phase = "Provisioning"], "clear", "failed")

\* ... and clear spec.restoreFrom with an unconditional Patch.
ClearRestoreFrom ==
  /\ pc = "clear"
  /\ inst' = [inst EXCEPT !.restoreFrom = NoPath]
  /\ pc' = "resources"
  /\ Keep(inst', mstatus, TRUE)
  /\ UNCHANGED <<status, workVars, envVars, faults>>

ClearRestoreFromFails == pc = "clear" /\ ChildCallFails("failed")

\* Mutated: every pass adds a replica.
ReconcileResourcesAddsReplica ==
  /\ pc = "resources"
  /\ sts' = [exists |-> TRUE, replicas |-> sts.replicas + 1]
  /\ ChildStep("final")
  /\ UNCHANGED <<pod, backupJob, restoreJob, pvc, s3, faults>>

\* The resources after the restore, the StatefulSet among them.
ReconcileResources ==
  /\ pc = "resources"
  /\ sts' = [exists |-> TRUE, replicas |-> 1]
  /\ ChildStep("final")
  /\ UNCHANGED <<pod, backupJob, restoreJob, pvc, s3, faults>>

\* One of them fails, before or after the StatefulSet.
ReconcileResourcesFails ==
  /\ pc = "resources" /\ Fault
  /\ sts' \in {sts, [exists |-> TRUE, replicas |-> 1]}
  /\ ChildStep("failed")
  /\ UNCHANGED <<pod, backupJob, restoreJob, pvc, s3>>

\* The status update that ends a pass; a refused one is retried by a new pass.
FinalStatus ==
  \/ /\ pc = "final"
     /\ StatusUpdate([mstatus EXCEPT !.phase = IF pod THEN "Running" ELSE "Provisioning"],
                     "idle", "idle")
  \/ /\ pc = "failed"
     /\ StatusUpdate([mstatus EXCEPT !.phase = "Failed"], "idle", "idle")

-----------------------------------------------------------------------------
(* reconcileDeleteWithBackup *)

NoBackupWanted == minst.skip \/ ~Persistence

\* Step 0: the skip-backup annotation, or no volume.
DeleteWithoutBackup ==
  /\ pc = "delete" /\ NoBackupWanted
  /\ StatusUpdate([mstatus EXCEPT !.phase = "Terminating"], "orphan", "idle")

\* Step 1: phase BackingUp and its start time.
StartBackup ==
  /\ pc = "delete" /\ ~NoBackupWanted /\ mstatus.phase \notin {"BackingUp", "Terminating"}
  /\ StatusUpdate([mstatus EXCEPT !.phase = "BackingUp", !.since = "fresh"], "backup", "idle")

InBackup ==
  \/ pc = "backup"
  \/ pc = "delete" /\ ~NoBackupWanted /\ mstatus.phase \in {"BackingUp", "Terminating"}

\* Step 2: the timeout.
BackupTimesOut ==
  /\ InBackup /\ mstatus.since = "old"
  /\ StatusUpdate([mstatus EXCEPT !.phase = "Terminating", !.since = "nil",
                                  !.backup = "BackupTimedOut"], "orphan", "idle")

InTime == InBackup /\ mstatus.since # "old"

BackupCallFails == InTime /\ ChildCallFails("idle")

\* Step 3: scale the StatefulSet to zero.
ScaleDown ==
  /\ InTime /\ sts.exists /\ sts.replicas > 0
  /\ sts' = [sts EXCEPT !.replicas = 0]
  /\ ChildStep("idle")
  /\ UNCHANGED <<pod, backupJob, restoreJob, pvc, s3, faults>>

\* Mutated: the pods are not waited for.
QuiescedTooSoon == InTime /\ (sts.exists => sts.replicas = 0)

\* Step 4: wait for the pods; with no StatefulSet none are looked for.
Quiesced == InTime /\ (sts.exists => sts.replicas = 0 /\ ~pod)

WaitForPods == InTime /\ sts.exists /\ sts.replicas = 0 /\ pod /\ Local("idle")

\* Step 5: without the Secret the backup is skipped; a Secret that cannot be
\* used is waited for.
BackupWithoutCreds ==
  /\ Quiesced /\ creds = "missing"
  /\ StatusUpdate([mstatus EXCEPT !.phase = "Terminating"], "orphan", "idle")

BackupWithBrokenCreds == Quiesced /\ creds = "broken" /\ Local("idle")

ReadyForJob == Quiesced /\ creds = "ok"

\* Mutated: the Job is created before its path is recorded.
RecordBackupPathLater ==
  /\ ReadyForJob /\ backupJob.state = "none" /\ ~mstatus.lastBackupPath
  /\ Local("createBackup")

\* The path is recorded once, before the Job that writes to it exists.
RecordBackupPath ==
  /\ ReadyForJob /\ backupJob.state = "none" /\ ~mstatus.lastBackupPath
  /\ StatusUpdate([mstatus EXCEPT !.lastBackupPath = TRUE], "createBackup", "idle")

CreatingBackup ==
  \/ pc = "createBackup"
  \/ ReadyForJob /\ backupJob.state = "none" /\ mstatus.lastBackupPath

CreateBackupJob ==
  /\ CreatingBackup
  /\ backupJob' = [NoJob EXCEPT !.state = "running"]
  /\ ChildStep("idle")
  /\ UNCHANGED <<sts, pod, restoreJob, pvc, s3, faults>>

CreateBackupJobFails == pc = "createBackup" /\ ChildCallFails("idle")

WaitForBackup == ReadyForJob /\ backupJob.state = "running" /\ Local("idle")

\* A failed Job keeps its name until its TTL is over, so it is not run again.
BackupFailed ==
  /\ ReadyForJob /\ backupJob.state = "failed"
  /\ StatusUpdate([mstatus EXCEPT !.backup = "BackupFailed"], "idle", "idle")

\* Mutated: a Job that finished, in whatever way, is a backup.
BackupFinished ==
  /\ ReadyForJob /\ backupJob.state \in {"complete", "failed"}
  /\ StatusUpdate([mstatus EXCEPT !.phase = "Terminating", !.since = "nil",
                                  !.backup = "BackupSucceeded"], "orphan", "idle")

\* Mutated: the finalizer is left to a later pass.
BackupSucceededReturns ==
  /\ ReadyForJob /\ backupJob.state = "complete"
  /\ StatusUpdate([mstatus EXCEPT !.phase = "Terminating", !.since = "nil",
                                  !.backup = "BackupSucceeded"], "idle", "idle")

\* Step 6: the backup is done.
BackupSucceeded ==
  /\ ReadyForJob /\ backupJob.state = "complete"
  /\ StatusUpdate([mstatus EXCEPT !.phase = "Terminating", !.since = "nil",
                                  !.backup = "BackupSucceeded"], "orphan", "idle")

\* removeFinalizer: drop the claim's owner reference ...
OrphanPVC ==
  /\ pc = "orphan"
  /\ pvc' = IF Orphan /\ Persistence /\ ~ExistingClaim
            THEN [pvc EXCEPT !.owned = FALSE] ELSE pvc
  /\ ChildStep("finalize")
  /\ UNCHANGED <<sts, pod, backupJob, restoreJob, s3, faults>>

\* ... a failure of which is only logged ...
OrphanPVCFails ==
  pc = "orphan" /\ Orphan /\ Persistence /\ ~ExistingClaim /\ ChildCallFails("finalize")

\* ... and r.Update(instance) without the finalizer, which ends the instance,
\* or is refused because the copy is not current.
RemoveFinalizer ==
  /\ pc = "finalize"
  /\ inst' = IF mcur THEN NoInst ELSE inst
  /\ pc' = "idle" /\ Keep(minst, mstatus, mcur)
  /\ UNCHANGED <<status, workVars, envVars, faults>>

RemoveFinalizerFails == pc = "finalize" /\ ChildCallFails("idle")

-----------------------------------------------------------------------------
(* The rest of the cluster *)

\* The operator's process dies in the middle of a pass, or loses its lease.
Crash == pc # "idle" /\ ChildCallFails("idle")

\* The user edits metadata or spec.
Edit(kind) == kind \in UserMay /\ edits < MaxEdits /\ Undisturbed /\ edits' = edits + 1

EditInst(new) ==
  /\ inst.exists
  /\ inst' = new
  /\ mcur' = FALSE
  /\ UNCHANGED <<status, minst, mstatus, pc, workVars, creds, credsWereMissing, faults>>

UserRequestsRestore ==
  /\ Edit("restore") /\ Persistence
  /\ \E p \in MaybePaths \ {inst.restoreFrom} : EditInst([inst EXCEPT !.restoreFrom = p])

UserDeletes ==
  /\ Edit("delete") /\ ~inst.deleting
  /\ EditInst(IF inst.finalizer THEN [inst EXCEPT !.deleting = TRUE] ELSE NoInst)

UserTogglesSkip == Edit("skip") /\ EditInst([inst EXCEPT !.skip = ~@])

UserEditsOtherField == Edit("other") /\ EditInst(inst)

UserDeletesSts ==
  /\ Edit("deleteSts") /\ sts.exists
  /\ sts' = NoSts
  /\ UNCHANGED <<inst, status, memVars, pc, pod, backupJob, restoreJob, pvc, s3, creds,
                 credsWereMissing, faults>>

AdminChangesCreds ==
  /\ Edit("creds")
  /\ creds' \in CredsStates \ {creds}
  /\ credsWereMissing' = (credsWereMissing \/ creds' = "missing")
  /\ UNCHANGED <<inst, status, memVars, pc, workVars, faults>>

\* spec.backup.timeout passes.
BackupTimeoutPasses ==
  /\ status.since = "fresh"
  /\ status' = [status EXCEPT !.since = "old"]
  /\ mstatus' = [mstatus EXCEPT !.since = IF @ = "fresh" THEN "old" ELSE @]
  /\ UNCHANGED <<inst, minst, mcur, pc, workVars, envVars, faults>>

ClusterStep == UNCHANGED <<inst, status, memVars, pc, envVars>>

PodStarts ==
  /\ sts.exists /\ sts.replicas = 1 /\ ~pod
  /\ pod' = TRUE
  /\ ClusterStep /\ UNCHANGED <<sts, backupJob, restoreJob, pvc, s3, faults>>

PodStops ==
  /\ pod /\ (sts.exists => sts.replicas = 0)
  /\ pod' = FALSE
  /\ ClusterStep /\ UNCHANGED <<sts, backupJob, restoreJob, pvc, s3, faults>>

BackupJobEnds ==
  /\ backupJob.state = "running"
  /\ \/ /\ backupJob' = [backupJob EXCEPT !.state = "complete"]
        /\ s3' = TRUE /\ UNCHANGED faults
     \/ Fault /\ backupJob' = [backupJob EXCEPT !.state = "failed"] /\ UNCHANGED s3
  /\ ClusterStep /\ UNCHANGED <<sts, pod, restoreJob, pvc>>

RestoreJobEnds ==
  /\ restoreJob.state = "running"
  /\ \/ restoreJob' = [restoreJob EXCEPT !.state = "complete"] /\ UNCHANGED faults
     \/ Fault /\ restoreJob' = [restoreJob EXCEPT !.state = "failed"]
  /\ ClusterStep /\ UNCHANGED <<sts, pod, backupJob, pvc, s3>>

\* ttlSecondsAfterFinished is 24h, the longest spec.backup.timeout: a backup
\* Job does not expire before the timeout of the backup it belongs to.  For a
\* complete Job to expire before a pass has seen it the operator must have been
\* down all that time, which is a fault.
BackupJobExpires ==
  /\ backupJob.state \in {"complete", "failed"} /\ status.since # "fresh"
  /\ IF backupJob.state = "complete" THEN Fault ELSE UNCHANGED faults
  /\ backupJob' = NoJob
  /\ ClusterStep /\ UNCHANGED <<sts, pod, restoreJob, pvc, s3>>

RestoreJobExpires ==
  /\ restoreJob.state \in {"complete", "failed"}
  /\ IF restoreJob.state = "complete" /\ status.restoredFrom = NoPath
     THEN Fault ELSE UNCHANGED faults
  /\ restoreJob' = NoJob
  /\ ClusterStep /\ UNCHANGED <<sts, pod, backupJob, pvc, s3>>

\* The garbage collector deletes what a deleted instance owns.
GarbageCollect ==
  /\ ~inst.exists
  /\ sts.exists \/ backupJob # NoJob \/ restoreJob # NoJob \/ (pvc.exists /\ pvc.owned)
  /\ sts' = NoSts /\ backupJob' = NoJob /\ restoreJob' = NoJob
  /\ pvc' = IF pvc.owned THEN NoPvc ELSE pvc
  /\ ClusterStep /\ UNCHANGED <<pod, s3, faults>>

-----------------------------------------------------------------------------
(* The specification *)

Init ==
  /\ \E p \in IF Persistence THEN MaybePaths ELSE {NoPath} :
       inst = [NoInst EXCEPT !.exists = TRUE, !.restoreFrom = p]
  /\ status = NoStatus
  /\ minst = NoInst /\ mstatus = NoStatus /\ mcur = FALSE
  /\ pc = "idle"
  /\ sts = NoSts /\ pod = FALSE
  /\ backupJob = NoJob /\ restoreJob = NoJob
  /\ pvc = [exists |-> ExistingClaim, owned |-> FALSE] /\ s3 = FALSE
  /\ creds \in CredsStates /\ credsWereMissing = (creds = "missing")
  /\ faults = 0 /\ edits = 0

Reconcile ==
  \/ Begin \/ AddFinalizer \/ InitPhase \/ Provision \/ ReconcilePVC \/ ReconcilePVCFails
  \/ ReconcileResources \/ ReconcileResourcesFails \/ FinalStatus

Restore ==
  \/ RestoreSkipped \/ SetRestoring \/ RestoreWithoutCreds \/ RestoreCallFails
  \/ RecordRestoreJob \/ CreateRestoreJob \/ CreateRestoreJobFails \/ WaitForRestore
  \/ RestoreFailed \/ RestoreSucceeded \/ ClearRestoreFrom \/ ClearRestoreFromFails

Delete ==
  \/ DeleteWithoutBackup \/ StartBackup \/ BackupTimesOut \/ BackupCallFails \/ ScaleDown
  \/ WaitForPods \/ BackupWithoutCreds \/ BackupWithBrokenCreds \/ RecordBackupPath
  \/ CreateBackupJob \/ CreateBackupJobFails \/ WaitForBackup \/ BackupFailed
  \/ BackupSucceeded \/ OrphanPVC \/ OrphanPVCFails \/ RemoveFinalizer
  \/ RemoveFinalizerFails

Operator == Reconcile \/ Restore \/ Delete

User ==
  \/ UserRequestsRestore \/ UserDeletes \/ UserTogglesSkip \/ UserEditsOtherField
  \/ UserDeletesSts \/ AdminChangesCreds

Cluster ==
  \/ BackupTimeoutPasses \/ PodStarts \/ PodStops \/ BackupJobEnds \/ RestoreJobEnds
  \/ BackupJobExpires \/ RestoreJobExpires \/ GarbageCollect

\* An instance that is gone, with everything it owned, leaves nothing to do.
Gone ==
  /\ ~inst.exists /\ pc = "idle" /\ ~pod
  /\ UNCHANGED vars

Next == Operator \/ Crash \/ User \/ Cluster \/ Gone

Spec == Init /\ [][Next]_vars

\* The work queue always holds a retry of the last pass, time passes, and the
\* cluster's controllers act.  When the cluster may hang, a Job need not end
\* and a pod need not terminate.
Fairness ==
  /\ WF_vars(Operator)
  /\ WF_vars(BackupTimeoutPasses)
  /\ WF_vars(PodStarts) /\ WF_vars(GarbageCollect)
  /\ WF_vars(BackupJobExpires /\ backupJob.state = "failed")
  /\ WF_vars(RestoreJobExpires /\ restoreJob.state = "failed")
  /\ ~ClusterMayHang =>
       WF_vars(PodStops) /\ WF_vars(BackupJobEnds) /\ WF_vars(RestoreJobEnds)

FairSpec == Spec /\ Fairness

-----------------------------------------------------------------------------
(* Properties *)

\* The path of a backup is on record as long as its Job exists, wherever the
\* pass that created it crashed or was refused.
JobPathRecorded ==
  inst.exists /\ backupJob.state # "none" => status.lastBackupPath

\* No pod of the StatefulSet runs while the pre-delete backup copies its
\* volume.  (With the StatefulSet gone the code looks for no pods at all.)
NoPodDuringBackup == backupJob.state = "running" /\ sts.exists => ~pod

\* An instance with a volume is let go only with a complete backup, or for one
\* of the documented reasons: the annotation is set at that moment, the backup
\* timed out, or there were no credentials.
BackupBeforeRemoval ==
  [][ inst.exists /\ inst.finalizer /\ ~inst'.exists =>
        \/ s3 \/ inst.skip \/ ~Persistence \/ credsWereMissing
        \/ status.backup = "BackupTimedOut" ]_vars

\* Once an instance has been restored no restore Job is created again: what the
\* workload wrote since is never overwritten, even if clearing spec.restoreFrom
\* failed or the request is made again.
NeverRestoredTwice ==
  [][ restoreJob.state = "none" /\ restoreJob'.state = "running"
        => status.restoredFrom = NoPath ]_vars

\* The StatefulSet is created while a restore Job writes the volume only by a
\* pass for which the user has withdrawn the request.
RestoreBeforeStart ==
  [][ ~sts.exists /\ sts'.exists /\ restoreJob.state = "running"
        => minst.restoreFrom = NoPath ]_vars

\* "When true (the default), the operator removes the owner reference from the
\* PVC before deleting the CR": a claim that exists is kept.
ClaimRetained == [][Orphan /\ pvc.exists => pvc'.exists]_vars

\* A deleted instance goes away, unless its credentials Secret is there but of no use.
DeletionEnds == inst.deleting ~> (~inst.exists \/ creds = "broken")

\* A requested restore is done, unless it is withdrawn, the instance is deleted
\* or the credentials are not there.
RestoreEnds ==
  (inst.exists /\ inst.restoreFrom # NoPath)
    ~> (status.restoredFrom # NoPath \/ inst.restoreFrom = NoPath \/ inst.deleting
          \/ ~inst.exists \/ creds # "ok")
=============================================================================
