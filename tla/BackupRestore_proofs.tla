------------------------ MODULE BackupRestore_proofs ------------------------
(***************************************************************************)
(* Proofs about BackupRestore, for every value of its constants.           *)
(*                                                                         *)
(* The safety properties relate what one write stores to what an earlier   *)
(* read found, so the inductive invariant says what a pass between two of  *)
(* its writes still knows: the operator alone writes the status, so its    *)
(* copy is the stored one (CopyOK); a pass that deletes and one that does  *)
(* not exclude each other, so nothing starts the workload once a backup    *)
(* Job exists (DeletionOK, QuietOK).                                       *)
(***************************************************************************)
EXTENDS BackupRestore, TLAPS

DeletePCs == {"delete", "backup", "createBackup", "orphan", "finalize"}

\* The copy of a pass.  After a failed write the copy is ahead of the store.
CopyOK ==
  /\ pc \notin {"idle", "failed"} => mstatus = status
  /\ pc # "idle" => mstatus.lastBackupPath = status.lastBackupPath
  /\ mcur => minst = inst

\* Once the deletion is under way it stays so, and no other pass is left.
DeletionOK ==
  /\ pc \in DeletePCs \/ backupJob.state # "none" => inst.deleting \/ ~inst.exists
  /\ backupJob.state # "none" => pc \in DeletePCs \cup {"idle"}

\* The path is saved before the Job is created, and stays.
PathOK == pc = "createBackup" \/ backupJob.state # "none" => status.lastBackupPath

\* The workload is stopped before the Job is created, and stays stopped.
QuietOK ==
  (pc = "createBackup" \/ backupJob.state = "running") /\ sts.exists
    => sts.replicas = 0 /\ ~pod

\* Why a pass may remove the finalizer.
MayGo ==
  s3 \/ minst.skip \/ ~Persistence \/ credsWereMissing \/ mstatus.backup = "BackupTimedOut"

LetGoOK ==
  /\ backupJob.state = "complete" => s3
  /\ creds = "missing" => credsWereMissing
  /\ pc \in {"orphan", "finalize"} => MayGo

\* A restore Job runs only for an instance that has not been restored.
RestoreOK ==
  /\ pc \in {"restoring", "createRestore"} => mstatus.restoredFrom = NoPath
  /\ restoreJob.state = "running" => status.restoredFrom = NoPath /\ mstatus.restoredFrom = NoPath
  /\ pc = "resources" /\ restoreJob.state = "running" => minst.restoreFrom = NoPath

IInv == TypeOK /\ CopyOK /\ DeletionOK /\ PathOK /\ QuietOK /\ LetGoOK /\ RestoreOK

-----------------------------------------------------------------------------
(* Type correctness *)

\* The empty copies have their types.
LEMMA EmptyCopy ==
  NoInst \in InstType /\ NoStatus \in StatusType /\ NoJob \in JobType
BY DEF NoInst, InstType, NoStatus, StatusType, NoJob, JobType, MaybePaths, Phases

\* What a pass keeps has its type.
LEMMA KeepType ==
  ASSUME NEW in \in InstType, NEW st \in StatusType, NEW cur \in BOOLEAN, Keep(in, st, cur)
  PROVE  minst' \in InstType /\ mstatus' \in StatusType /\ mcur' \in BOOLEAN
<1>1. mcur' \in BOOLEAN
  BY Zenon DEF Keep
<1>2. QED
  BY <1>1, EmptyCopy DEF Keep

\* A failed call stays within the budget of faults.
LEMMA FaultType == faults \in 0 .. MaxFaults /\ Fault => faults' \in 0 .. MaxFaults
BY ConstantsAssumption DEF Fault

\* A status update of a well-formed status keeps the types,
LEMMA StatusUpdateType ==
  ASSUME TypeOK, NEW st \in StatusType, NEW ok \in PCs, NEW err \in PCs,
         StatusUpdate(st, ok, err)
  PROVE  TypeOK'
<1>1. minst' \in InstType /\ mstatus' \in StatusType /\ mcur' \in BOOLEAN
  BY KeepType DEF StatusUpdate, TypeOK
<1>2. status' \in StatusType /\ pc' \in PCs /\ faults' \in 0 .. MaxFaults
  BY FaultType DEF StatusUpdate, TypeOK, PCs
<1>3. QED
  BY <1>1, <1>2 DEF StatusUpdate, TypeOK, workVars, envVars

\* and so does a branch without a write.
LEMMA LocalType == ASSUME TypeOK, NEW next \in PCs, Local(next) PROVE TypeOK'
<1>1. minst' \in InstType /\ mstatus' \in StatusType /\ mcur' \in BOOLEAN
  BY KeepType DEF Local, TypeOK
<1>2. QED
  BY <1>1 DEF Local, TypeOK, workVars, envVars

\* A step on the child resources keeps the types if it keeps the resources'.
LEMMA ChildStepType ==
  ASSUME TypeOK, NEW next \in PCs, ChildStep(next),
         sts' \in [exists : BOOLEAN, replicas : {0, 1}], pod' \in BOOLEAN,
         backupJob' \in JobType, restoreJob' \in JobType,
         pvc' \in [exists : BOOLEAN, owned : BOOLEAN], s3' \in BOOLEAN,
         faults' \in 0 .. MaxFaults
  PROVE  TypeOK'
<1>1. minst' \in InstType /\ mstatus' \in StatusType /\ mcur' \in BOOLEAN
  BY KeepType DEF ChildStep, TypeOK
<1>2. QED
  BY <1>1 DEF ChildStep, TypeOK, envVars

\* A failed call changes no resource.
LEMMA ChildCallFailsType == ASSUME TypeOK, NEW next \in PCs, ChildCallFails(next) PROVE TypeOK'
BY ChildStepType, FaultType DEF ChildCallFails, TypeOK, workVars

\* A user's edit keeps the types if it keeps the instance's.
LEMMA EditInstType ==
  ASSUME TypeOK, NEW new \in InstType, NEW k, Edit(k), EditInst(new)
  PROVE  TypeOK'
<1>1. edits' \in 0 .. MaxEdits
  BY ConstantsAssumption DEF TypeOK, Edit
<1>2. QED
  BY <1>1 DEF TypeOK, EditInst, workVars

\* Every step of Reconcile's frame keeps the types.
LEMMA ReconcileType == TypeOK /\ Reconcile => TypeOK'
<1> SUFFICES ASSUME TypeOK, Reconcile PROVE TypeOK'
  OBVIOUS
<1>1. CASE Begin
  BY <1>1, KeepType DEF Begin, TypeOK, PCs, workVars, envVars
<1>2. CASE AddFinalizer
  <2>1. minst' \in InstType /\ mstatus' \in StatusType /\ mcur' \in BOOLEAN
    BY <1>2, KeepType DEF AddFinalizer, TypeOK
  <2>2. inst' \in InstType /\ pc' \in PCs
    BY <1>2 DEF AddFinalizer, TypeOK, InstType, PCs
  <2>3. QED
    BY <1>2, <2>1, <2>2 DEF AddFinalizer, TypeOK, workVars, envVars
<1>3. CASE InitPhase
  BY <1>3, StatusUpdateType DEF InitPhase, TypeOK, StatusType, Phases, PCs
<1>4. CASE Provision
  BY <1>4, StatusUpdateType DEF Provision, TypeOK, StatusType, Phases, PCs
<1>5. CASE ReconcilePVC
  BY <1>5, ChildStepType DEF ReconcilePVC, TypeOK, PCs
<1>6. CASE ReconcilePVCFails
  BY <1>6, ChildCallFailsType DEF ReconcilePVCFails, PCs
<1>7. CASE ReconcileResources
  BY <1>7, ChildStepType DEF ReconcileResources, TypeOK, PCs
<1>8. CASE ReconcileResourcesFails
  <2>1. sts' \in [exists : BOOLEAN, replicas : {0, 1}]
    <3>1. CASE sts' = sts
      BY <3>1 DEF TypeOK
    <3>2. CASE sts' = [exists |-> TRUE, replicas |-> 1]
      BY <3>2
    <3>3. QED
      BY <1>8, <3>1, <3>2 DEF ReconcileResourcesFails
  <2>2. faults' \in 0 .. MaxFaults
    BY <1>8, FaultType DEF ReconcileResourcesFails, TypeOK
  <2>3. QED
    BY <1>8, <2>1, <2>2, ChildStepType DEF ReconcileResourcesFails, TypeOK, PCs
<1>9. CASE FinalStatus
  BY <1>9, StatusUpdateType DEF FinalStatus, TypeOK, StatusType, Phases, PCs
<1>10. QED
  BY <1>1, <1>2, <1>3, <1>4, <1>5, <1>6, <1>7, <1>8, <1>9 DEF Reconcile

\* So does every step of reconcileRestore,
LEMMA RestoreType == TypeOK /\ Restore => TypeOK'
<1> SUFFICES ASSUME TypeOK, Restore PROVE TypeOK'
  OBVIOUS
<1>1. CASE RestoreSkipped
  BY <1>1, LocalType DEF RestoreSkipped, PCs
<1>2. CASE SetRestoring
  BY <1>2, StatusUpdateType DEF SetRestoring, TypeOK, StatusType, Phases, PCs
<1>3. CASE RestoreWithoutCreds
  BY <1>3, LocalType DEF RestoreWithoutCreds, PCs
<1>4. CASE RestoreCallFails
  BY <1>4, ChildCallFailsType DEF RestoreCallFails, PCs
<1>5. CASE RecordRestoreJob
  BY <1>5, StatusUpdateType DEF RecordRestoreJob, TypeOK, StatusType, Phases, PCs
<1>6. CASE CreateRestoreJob
  BY <1>6, ChildStepType DEF CreateRestoreJob, TypeOK, PCs, JobType, InstType
<1>7. CASE CreateRestoreJobFails
  BY <1>7, ChildCallFailsType DEF CreateRestoreJobFails, PCs
<1>8. CASE WaitForRestore
  BY <1>8, LocalType DEF WaitForRestore, PCs
<1>9. CASE RestoreFailed
  BY <1>9, StatusUpdateType DEF RestoreFailed, TypeOK, StatusType, Phases, PCs
<1>10. CASE RestoreSucceeded
  BY <1>10, StatusUpdateType DEF RestoreSucceeded, TypeOK, InstType, StatusType, Phases, PCs
<1>11. CASE ClearRestoreFrom
  BY ZenonT(60), <1>11, KeepType
     DEF ClearRestoreFrom, TypeOK, InstType, MaybePaths, PCs, workVars, envVars
<1>12. CASE ClearRestoreFromFails
  BY <1>12, ChildCallFailsType DEF ClearRestoreFromFails, PCs
<1>13. QED
  BY <1>1, <1>2, <1>3, <1>4, <1>5, <1>6, <1>7, <1>8, <1>9, <1>10, <1>11, <1>12 DEF
     Restore

\* of reconcileDeleteWithBackup,
LEMMA DeleteType == TypeOK /\ Delete => TypeOK'
<1> SUFFICES ASSUME TypeOK, Delete PROVE TypeOK'
  OBVIOUS
<1>1. CASE DeleteWithoutBackup
  BY <1>1, StatusUpdateType DEF DeleteWithoutBackup, TypeOK, StatusType, Phases, PCs
<1>2. CASE StartBackup
  BY <1>2, StatusUpdateType DEF StartBackup, TypeOK, StatusType, Phases, PCs
<1>3. CASE BackupTimesOut
  BY <1>3, StatusUpdateType DEF BackupTimesOut, TypeOK, StatusType, Phases, PCs
<1>4. CASE BackupCallFails
  BY <1>4, ChildCallFailsType DEF BackupCallFails, PCs
<1>5. CASE ScaleDown
  BY <1>5, ChildStepType DEF ScaleDown, TypeOK, PCs
<1>6. CASE WaitForPods
  BY <1>6, LocalType DEF WaitForPods, PCs
<1>7. CASE BackupWithoutCreds
  BY <1>7, StatusUpdateType DEF BackupWithoutCreds, TypeOK, StatusType, Phases, PCs
<1>8. CASE BackupWithBrokenCreds
  BY <1>8, LocalType DEF BackupWithBrokenCreds, PCs
<1>9. CASE RecordBackupPath
  BY <1>9, StatusUpdateType DEF RecordBackupPath, TypeOK, StatusType, Phases, PCs
<1>10. CASE CreateBackupJob
  BY <1>10, ChildStepType, EmptyCopy DEF CreateBackupJob, TypeOK, JobType, PCs
<1>11. CASE CreateBackupJobFails
  BY <1>11, ChildCallFailsType DEF CreateBackupJobFails, PCs
<1>12. CASE WaitForBackup
  BY <1>12, LocalType DEF WaitForBackup, PCs
<1>13. CASE BackupFailed
  BY <1>13, StatusUpdateType DEF BackupFailed, TypeOK, StatusType, Phases, PCs
<1>14. CASE BackupSucceeded
  BY <1>14, StatusUpdateType DEF BackupSucceeded, TypeOK, StatusType, Phases, PCs
<1>15. CASE OrphanPVC
  BY <1>15, ChildStepType DEF OrphanPVC, TypeOK, PCs
<1>16. CASE OrphanPVCFails
  BY <1>16, ChildCallFailsType DEF OrphanPVCFails, PCs
<1>17. CASE RemoveFinalizer
  BY <1>17, KeepType, EmptyCopy DEF RemoveFinalizer, TypeOK, PCs, workVars, envVars
<1>18. CASE RemoveFinalizerFails
  BY <1>18, ChildCallFailsType DEF RemoveFinalizerFails, PCs
<1>19. QED
  BY <1>1, <1>2, <1>3, <1>4, <1>5, <1>6, <1>7, <1>8, <1>9, <1>10, <1>11, <1>12, <1>13,
     <1>14, <1>15, <1>16, <1>17, <1>18 DEF Delete

\* of the user
LEMMA UserType == TypeOK /\ User => TypeOK'
<1> SUFFICES ASSUME TypeOK, User PROVE TypeOK'
  OBVIOUS
<1>1. CASE UserRequestsRestore
  BY <1>1, EditInstType DEF UserRequestsRestore, TypeOK, InstType
<1>2. CASE UserDeletes
  BY <1>2, EditInstType, EmptyCopy DEF UserDeletes, TypeOK, InstType
<1>3. CASE UserTogglesSkip
  BY <1>3, EditInstType DEF UserTogglesSkip, TypeOK, InstType
<1>4. CASE UserEditsOtherField
  BY <1>4, EditInstType DEF UserEditsOtherField, TypeOK
<1>5. CASE UserDeletesSts
  BY <1>5, ConstantsAssumption DEF UserDeletesSts, Edit, NoSts, TypeOK, memVars
<1>6. CASE AdminChangesCreds
  BY <1>6, ConstantsAssumption DEF AdminChangesCreds, Edit, TypeOK, memVars, workVars
<1>7. QED
  BY <1>1, <1>2, <1>3, <1>4, <1>5, <1>6 DEF User

\* and of the cluster.
LEMMA ClusterType == TypeOK /\ Cluster => TypeOK'
<1> SUFFICES ASSUME TypeOK, Cluster PROVE TypeOK'
  OBVIOUS
<1>1. CASE BackupTimeoutPasses
  <2>1. status' \in StatusType /\ mstatus' \in StatusType
    BY <1>1 DEF BackupTimeoutPasses, TypeOK, StatusType
  <2>2. QED
    BY <1>1, <2>1 DEF BackupTimeoutPasses, TypeOK, workVars, envVars
<1>2. CASE PodStarts
  BY <1>2, FaultType, EmptyCopy DEF PodStarts, ClusterStep, TypeOK, memVars, envVars
<1>3. CASE PodStops
  BY <1>3, FaultType, EmptyCopy DEF PodStops, ClusterStep, TypeOK, memVars, envVars
<1>4. CASE BackupJobEnds
  <2>1. backupJob' \in JobType /\ s3' \in BOOLEAN /\ faults' \in 0 .. MaxFaults
    BY <1>4, FaultType DEF BackupJobEnds, TypeOK, JobType
  <2>2. QED
    BY <1>4, <2>1 DEF BackupJobEnds, ClusterStep, TypeOK, memVars, envVars
<1>5. CASE RestoreJobEnds
  BY <1>5, FaultType, EmptyCopy
     DEF RestoreJobEnds, ClusterStep, TypeOK, memVars, envVars, JobType
<1>6. CASE BackupJobExpires
  BY <1>6, FaultType, EmptyCopy DEF BackupJobExpires, ClusterStep, TypeOK, memVars, envVars
<1>7. CASE RestoreJobExpires
  BY <1>7, FaultType, EmptyCopy DEF RestoreJobExpires, ClusterStep, TypeOK, memVars, envVars
<1>8. CASE GarbageCollect
  BY <1>8, FaultType, EmptyCopy
     DEF GarbageCollect, ClusterStep, TypeOK, memVars, envVars, NoSts, NoPvc
<1>9. QED
  BY <1>1, <1>2, <1>3, <1>4, <1>5, <1>6, <1>7, <1>8 DEF Cluster

\* Type correctness is inductive by itself.
LEMMA NextType == TypeOK /\ [Next]_vars => TypeOK'
<1> SUFFICES ASSUME TypeOK, [Next]_vars PROVE TypeOK'
  OBVIOUS
<1>1. CASE Crash
  BY <1>1, ChildCallFailsType DEF Crash, PCs
<1>2. CASE Gone \/ UNCHANGED vars
  BY <1>2 DEF Gone, TypeOK, vars, memVars, workVars, envVars
<1>3. QED
  BY <1>1, <1>2, ReconcileType, RestoreType, DeleteType, UserType, ClusterType
     DEF Next, Operator

-----------------------------------------------------------------------------
(* The parts of the inductive invariant *)

\* The timeout only ages the start time.
LEMMA TimeoutKeeps ==
  ASSUME TypeOK, BackupTimeoutPasses
  PROVE  /\ inst' = inst /\ minst' = minst /\ mcur' = mcur /\ pc' = pc
         /\ backupJob' = backupJob /\ restoreJob' = restoreJob /\ s3' = s3
         /\ creds' = creds /\ credsWereMissing' = credsWereMissing
         /\ mstatus = status => mstatus' = status'
         /\ mstatus'.lastBackupPath = mstatus.lastBackupPath
         /\ status'.lastBackupPath = status.lastBackupPath
         /\ mstatus'.restoredFrom = mstatus.restoredFrom
         /\ status'.restoredFrom = status.restoredFrom
         /\ mstatus'.backup = mstatus.backup
BY DEF BackupTimeoutPasses, TypeOK, StatusType, workVars, envVars

\* A status write leaves the copy equal to what is stored, or ends the pass.
LEMMA StatusUpdateCopy ==
  ASSUME CopyOK, pc \notin {"idle", "failed"},
         NEW st, NEW ok, NEW err, StatusUpdate(st, ok, err),
         err \in {"idle", "failed"},
         err = "failed" => st.lastBackupPath = mstatus.lastBackupPath
  PROVE  CopyOK'
BY DEF StatusUpdate, Keep, CopyOK, workVars, envVars

\* A step on a child touches neither the status nor its copy.
LEMMA ChildStepCopy ==
  ASSUME CopyOK, pc \notin {"idle", "failed"}, NEW next, ChildStep(next)
  PROVE  CopyOK'
BY DEF ChildStep, Keep, CopyOK, envVars

\* A step that only moves on is such a step ...
LEMMA LocalCopy ==
  ASSUME CopyOK, pc \notin {"idle", "failed"}, NEW next, Local(next)
  PROVE  CopyOK'
BY DEF Local, Keep, CopyOK, envVars

\* ... and so is a call that fails.
LEMMA ChildCallFailsCopy ==
  ASSUME CopyOK, pc \notin {"idle", "failed"}, NEW next, ChildCallFails(next)
  PROVE  CopyOK'
BY ChildStepCopy DEF ChildCallFails

\* Only the operator writes the status, so a pass's copy stays the stored one.
LEMMA NextCopy == TypeOK /\ CopyOK /\ [Next]_vars => CopyOK'
<1> SUFFICES ASSUME TypeOK, CopyOK, [Next]_vars PROVE CopyOK'
  OBVIOUS
<1>1. CASE Reconcile
  BY <1>1 DEF TypeOK, CopyOK, StatusType, InstType, NoInst, NoStatus, memVars,
     workVars, envVars, Reconcile, Begin, AddFinalizer, InitPhase, Provision,
     AtVolume, ReconcilePVC, ReconcilePVCFails, ReconcileResources,
     ReconcileResourcesFails, FinalStatus, StatusUpdate, Local, ChildStep,
     ChildCallFails, Keep
<1>2. CASE Restore
  <2>1. CASE RestoreSkipped \/ RestoreWithoutCreds \/ RestoreCallFails
    BY <2>1, LocalCopy, StatusUpdateCopy, ChildCallFailsCopy
       DEF RestoreSkipped, RestoreWithoutCreds, RestoreCallFails, RestoreNeeded, Restoring
  <2>2. CASE SetRestoring
    BY <2>2, StatusUpdateCopy DEF SetRestoring, RestoreNeeded, TypeOK, StatusType
  <2>3. CASE RecordRestoreJob \/ CreateRestoreJob \/ CreateRestoreJobFails
    BY <2>3, StatusUpdateCopy, ChildStepCopy, ChildCallFailsCopy
       DEF RecordRestoreJob, CreateRestoreJob, CreateRestoreJobFails, Restoring
  <2>4. CASE WaitForRestore \/ RestoreFailed
    BY <2>4, LocalCopy, StatusUpdateCopy DEF WaitForRestore, RestoreFailed, Restoring
  <2>5. CASE RestoreSucceeded
    BY <2>5, StatusUpdateCopy DEF RestoreSucceeded, Restoring, TypeOK, StatusType
  <2>6. CASE ClearRestoreFrom \/ ClearRestoreFromFails
    BY <2>6, ChildCallFailsCopy
       DEF TypeOK, InstType, CopyOK, workVars, envVars, ClearRestoreFrom,
           ClearRestoreFromFails, Keep
  <2>7. QED
    BY <1>2, <2>1, <2>2, <2>3, <2>4, <2>5, <2>6 DEF Restore
<1>3. CASE Delete
  <2>1. CASE DeleteWithoutBackup \/ StartBackup \/ BackupTimesOut \/ BackupCallFails
    BY <2>1, StatusUpdateCopy, ChildCallFailsCopy
       DEF DeleteWithoutBackup, StartBackup, BackupTimesOut, BackupCallFails, InBackup,
           InTime
  <2>2. CASE ScaleDown \/ WaitForPods
    BY <2>2, LocalCopy, ChildStepCopy DEF ScaleDown, WaitForPods, InBackup, InTime
  <2>3. CASE BackupWithoutCreds \/ BackupWithBrokenCreds \/ RecordBackupPath
    BY <2>3, LocalCopy, StatusUpdateCopy
       DEF BackupWithoutCreds, BackupWithBrokenCreds, RecordBackupPath, ReadyForJob,
           Quiesced, InTime, InBackup
  <2>4. CASE CreateBackupJob \/ CreateBackupJobFails
    BY <2>4, ChildStepCopy, ChildCallFailsCopy
       DEF CreateBackupJob, CreateBackupJobFails, CreatingBackup, ReadyForJob,
           Quiesced, InTime, InBackup
  <2>5. CASE WaitForBackup \/ BackupFailed \/ BackupSucceeded
    BY <2>5, LocalCopy, StatusUpdateCopy
       DEF WaitForBackup, BackupFailed, BackupSucceeded, ReadyForJob, Quiesced, InTime,
           InBackup
  <2>6. CASE OrphanPVC \/ OrphanPVCFails \/ RemoveFinalizer \/ RemoveFinalizerFails
    BY <2>6, ChildStepCopy, ChildCallFailsCopy
       DEF TypeOK, InstType, CopyOK, workVars, envVars, OrphanPVC, OrphanPVCFails,
           RemoveFinalizer, RemoveFinalizerFails, Keep
  <2>7. QED
    BY <1>3, <2>1, <2>2, <2>3, <2>4, <2>5, <2>6 DEF Delete
<1>4. CASE Crash
  BY <1>4 DEF TypeOK, CopyOK, StatusType, InstType, NoInst, NoStatus, memVars,
     workVars, envVars, Crash, ChildStep, ChildCallFails, Keep
<1> DEFINE Frame == UNCHANGED <<inst, status, memVars, pc>>
<1>5. CASE Frame
  BY <1>5, Zenon DEF CopyOK, memVars
<1>6. CASE User
  <2>1. ASSUME NEW new, EditInst(new) PROVE CopyOK'
    BY <2>1 DEF CopyOK, EditInst
  <2>2. QED
    BY <1>5, <1>6, <2>1
       DEF User, UserRequestsRestore, UserDeletes, UserTogglesSkip, UserEditsOtherField,
           UserDeletesSts, AdminChangesCreds
<1>7. CASE Cluster
  <2>1. CASE BackupTimeoutPasses
    <3>1. minst' = minst /\ inst' = inst /\ mcur' = mcur /\ pc' = pc
      BY <2>1, TimeoutKeeps
    <3>2. /\ mstatus = status => mstatus' = status'
          /\ mstatus'.lastBackupPath = mstatus.lastBackupPath
          /\ status'.lastBackupPath = status.lastBackupPath
      BY <2>1, TimeoutKeeps
    <3>3. QED
      BY <3>1, <3>2, Zenon DEF CopyOK
  <2>2. QED
    BY <1>5, <1>7, <2>1
       DEF Cluster, ClusterStep, PodStarts, PodStops, BackupJobEnds, RestoreJobEnds,
           BackupJobExpires, RestoreJobExpires, GarbageCollect
<1>8. CASE Gone \/ UNCHANGED vars
  BY <1>5, <1>8 DEF Gone, vars
<1>9. QED
  BY <1>1, <1>2, <1>3, <1>4, <1>6, <1>7, <1>8 DEF Next, Operator

\* A pass of the deletion starts only once the instance is deleted.
LEMMA NextDeletion == TypeOK /\ DeletionOK /\ [Next]_vars => DeletionOK'
<1> SUFFICES ASSUME TypeOK, DeletionOK, [Next]_vars PROVE DeletionOK'
  OBVIOUS
<1>1. CASE Reconcile
  BY <1>1 DEF TypeOK, DeletionOK, DeletePCs, InstType, JobType, NoJob, NoInst,
     memVars, workVars, envVars, Reconcile, Begin, AddFinalizer, InitPhase, Provision,
     AtVolume, ReconcilePVC, ReconcilePVCFails, ReconcileResources,
     ReconcileResourcesFails, FinalStatus, StatusUpdate, Local, ChildStep,
     ChildCallFails, Keep
<1>2. CASE Restore
  BY <1>2 DEF TypeOK, DeletionOK, DeletePCs, InstType, JobType, NoJob, NoInst,
     memVars, workVars, envVars, Restore, RestoreNeeded, RestoreSkipped, SetRestoring,
     Restoring, RestoreWithoutCreds, RestoreCallFails, RecordRestoreJob,
     CreateRestoreJob, CreateRestoreJobFails, WaitForRestore, RestoreFailed,
     RestoreSucceeded, ClearRestoreFrom, ClearRestoreFromFails, StatusUpdate, Local,
     ChildStep, ChildCallFails, Keep
<1>3. CASE Delete
  BY <1>3 DEF TypeOK, DeletionOK, DeletePCs, InstType, JobType, NoJob, NoInst,
     memVars, workVars, envVars, Delete, NoBackupWanted, DeleteWithoutBackup,
     StartBackup, InBackup, BackupTimesOut, InTime, BackupCallFails, ScaleDown,
     Quiesced, WaitForPods, BackupWithoutCreds, BackupWithBrokenCreds, ReadyForJob,
     RecordBackupPath, CreatingBackup, CreateBackupJob, CreateBackupJobFails,
     WaitForBackup, BackupFailed, BackupSucceeded, OrphanPVC, OrphanPVCFails,
     RemoveFinalizer, RemoveFinalizerFails, StatusUpdate, Local, ChildStep,
     ChildCallFails, Keep
<1>4. CASE Crash
  BY <1>4 DEF TypeOK, DeletionOK, DeletePCs, InstType, JobType, NoJob, NoInst,
     memVars, workVars, envVars, Crash, ChildStep, ChildCallFails, Keep
<1>5. CASE User
  BY <1>5 DEF TypeOK, DeletionOK, DeletePCs, InstType, JobType, NoJob, NoInst,
     memVars, workVars, envVars, User, Edit, EditInst, UserRequestsRestore,
     UserDeletes, UserTogglesSkip, UserEditsOtherField, UserDeletesSts,
     AdminChangesCreds
<1>6. CASE Cluster
  BY <1>6 DEF TypeOK, DeletionOK, DeletePCs, InstType, JobType, NoJob, NoInst,
     memVars, workVars, envVars, Cluster, ClusterStep, BackupTimeoutPasses, PodStarts,
     PodStops, BackupJobEnds, RestoreJobEnds, BackupJobExpires, RestoreJobExpires,
     GarbageCollect
<1>7. CASE Gone \/ UNCHANGED vars
  BY <1>7 DEF TypeOK, DeletionOK, DeletePCs, InstType, JobType, NoJob, NoInst,
     memVars, workVars, envVars, Gone, vars
<1>8. QED
  BY <1>1, <1>2, <1>3, <1>4, <1>5, <1>6, <1>7 DEF Next, Operator

\* The path is saved before the Job exists.
LEMMA NextPath == TypeOK /\ CopyOK /\ PathOK /\ [Next]_vars => PathOK'
<1> SUFFICES ASSUME TypeOK, CopyOK, PathOK, [Next]_vars PROVE PathOK'
  OBVIOUS
<1>1. CASE Reconcile
  BY <1>1 DEF TypeOK, CopyOK, PathOK, StatusType, JobType, NoJob, memVars, workVars,
     envVars, Reconcile, Begin, AddFinalizer, InitPhase, Provision, AtVolume,
     ReconcilePVC, ReconcilePVCFails, ReconcileResources, ReconcileResourcesFails,
     FinalStatus, StatusUpdate, Local, ChildStep, ChildCallFails, Keep
<1>2. CASE Restore
  <2>1. CASE RestoreSkipped \/ SetRestoring \/ RestoreWithoutCreds \/ RestoreCallFails
    BY <2>1 DEF TypeOK, CopyOK, PathOK, StatusType, JobType, NoJob, memVars, workVars,
       envVars, RestoreSkipped, SetRestoring, RestoreWithoutCreds, RestoreCallFails,
       RestoreNeeded, Restoring, StatusUpdate, Local, ChildStep, ChildCallFails, Keep
  <2>2. CASE RecordRestoreJob \/ CreateRestoreJob \/ CreateRestoreJobFails
    BY <2>2 DEF TypeOK, CopyOK, PathOK, StatusType, JobType, NoJob, memVars, workVars,
       envVars, RecordRestoreJob, CreateRestoreJob, CreateRestoreJobFails, Restoring,
       StatusUpdate, Local, ChildStep, ChildCallFails, Keep
  <2>3. CASE WaitForRestore \/ RestoreFailed \/ RestoreSucceeded
    BY <2>3 DEF TypeOK, CopyOK, PathOK, StatusType, JobType, NoJob, memVars, workVars,
       envVars, WaitForRestore, RestoreFailed, RestoreSucceeded, Restoring,
       StatusUpdate, Local, ChildStep, ChildCallFails, Keep
  <2>4. CASE ClearRestoreFrom \/ ClearRestoreFromFails
    BY <2>4 DEF TypeOK, CopyOK, PathOK, StatusType, JobType, NoJob, memVars, workVars,
       envVars, ClearRestoreFrom, ClearRestoreFromFails, StatusUpdate, Local, ChildStep,
       ChildCallFails, Keep
  <2>5. QED
    BY <1>2, <2>1, <2>2, <2>3, <2>4 DEF Restore
<1>3. CASE Delete
  <2>1. CASE DeleteWithoutBackup \/ StartBackup
    BY <2>1 DEF TypeOK, CopyOK, PathOK, StatusType, memVars, workVars, envVars,
       DeleteWithoutBackup, StartBackup, StatusUpdate, Keep
  <2>2. CASE BackupTimesOut
    BY <2>2 DEF TypeOK, CopyOK, PathOK, StatusType, memVars, workVars, envVars,
       BackupTimesOut, InBackup, StatusUpdate, Keep
  <2>3. CASE BackupCallFails
    BY <2>3 DEF TypeOK, CopyOK, PathOK, memVars, workVars, envVars, BackupCallFails,
       InTime, InBackup, ChildStep, ChildCallFails, Keep
  <2>4. CASE ScaleDown \/ WaitForPods \/ BackupWithoutCreds \/ BackupWithBrokenCreds
    BY <2>4 DEF TypeOK, CopyOK, PathOK, StatusType, JobType, NoJob, memVars, workVars,
       envVars, ScaleDown, WaitForPods, BackupWithoutCreds, BackupWithBrokenCreds,
       InBackup, InTime, Quiesced, ReadyForJob, StatusUpdate, Local, ChildStep,
       ChildCallFails, Keep
  <2>5. CASE RecordBackupPath \/ CreateBackupJob \/ CreateBackupJobFails
    BY <2>5 DEF TypeOK, CopyOK, PathOK, StatusType, JobType, NoJob, memVars, workVars,
       envVars, RecordBackupPath, CreateBackupJob, CreateBackupJobFails, InBackup,
       InTime, Quiesced, ReadyForJob, CreatingBackup, StatusUpdate, Local, ChildStep,
       ChildCallFails, Keep
  <2>6. CASE WaitForBackup \/ BackupFailed
    BY <2>6 DEF TypeOK, CopyOK, PathOK, StatusType, JobType, NoJob, memVars, workVars,
       envVars, WaitForBackup, BackupFailed, InBackup, InTime, Quiesced, ReadyForJob,
       StatusUpdate, Local, ChildStep, ChildCallFails, Keep
  <2>7. CASE BackupSucceeded
    BY <2>7 DEF TypeOK, CopyOK, PathOK, StatusType, JobType, NoJob, memVars, workVars,
       envVars, BackupSucceeded, InBackup, InTime, Quiesced, ReadyForJob, StatusUpdate,
       Local, ChildStep, ChildCallFails, Keep
  <2>8. CASE OrphanPVC \/ OrphanPVCFails \/ RemoveFinalizer \/ RemoveFinalizerFails
    BY <2>8 DEF TypeOK, CopyOK, PathOK, StatusType, JobType, NoJob, memVars, workVars,
       envVars, OrphanPVC, OrphanPVCFails, RemoveFinalizer, RemoveFinalizerFails,
       StatusUpdate, Local, ChildStep, ChildCallFails, Keep
  <2>9. QED
    BY <1>3, <2>1, <2>2, <2>3, <2>4, <2>5, <2>6, <2>7, <2>8 DEF Delete
<1>4. CASE Crash
  BY <1>4 DEF TypeOK, CopyOK, PathOK, StatusType, JobType, NoJob, memVars, workVars,
     envVars, Crash, ChildStep, ChildCallFails, Keep
<1>5. CASE User
  BY <1>5 DEF TypeOK, CopyOK, PathOK, StatusType, JobType, NoJob, memVars, workVars,
     envVars, User, Edit, EditInst, UserRequestsRestore, UserDeletes, UserTogglesSkip,
     UserEditsOtherField, UserDeletesSts, AdminChangesCreds
<1>6. CASE Cluster
  <2>1. CASE BackupTimeoutPasses
    BY <2>1, TimeoutKeeps DEF PathOK
  <2>2. CASE PodStarts \/ PodStops
    BY <2>2
       DEF TypeOK, PathOK, JobType, NoJob, memVars, envVars, ClusterStep, PodStarts,
           PodStops
  <2>3. CASE BackupJobEnds
    BY <2>3 DEF TypeOK, PathOK, JobType, NoJob, memVars, envVars, ClusterStep, BackupJobEnds
  <2>4. CASE RestoreJobEnds
    BY <2>4
       DEF TypeOK, PathOK, JobType, NoJob, memVars, envVars, ClusterStep, RestoreJobEnds
  <2>5. CASE BackupJobExpires \/ RestoreJobExpires
    BY <2>5
       DEF TypeOK, PathOK, JobType, NoJob, memVars, envVars, ClusterStep,
           BackupJobExpires, RestoreJobExpires
  <2>6. CASE GarbageCollect
    BY <2>6
       DEF TypeOK, PathOK, JobType, NoJob, memVars, envVars, ClusterStep, GarbageCollect
  <2>7. QED
    BY <1>6, <2>1, <2>2, <2>3, <2>4, <2>5, <2>6 DEF Cluster
<1>7. CASE Gone \/ UNCHANGED vars
  BY <1>7 DEF TypeOK, CopyOK, PathOK, StatusType, JobType, NoJob, memVars, workVars,
     envVars, Gone, vars
<1>8. QED
  BY <1>1, <1>2, <1>3, <1>4, <1>5, <1>6, <1>7 DEF Next, Operator

\* Nothing restarts the workload of a deleted instance.
LEMMA NextQuiet == TypeOK /\ DeletionOK /\ QuietOK /\ [Next]_vars => QuietOK'
<1> SUFFICES ASSUME TypeOK, DeletionOK, QuietOK, [Next]_vars PROVE QuietOK'
  OBVIOUS
<1>1. CASE Reconcile
  BY <1>1 DEF TypeOK, DeletionOK, DeletePCs, QuietOK, JobType, NoJob, NoSts, memVars,
     workVars, envVars, Reconcile, Begin, AddFinalizer, InitPhase, Provision,
     AtVolume, ReconcilePVC, ReconcilePVCFails, ReconcileResources,
     ReconcileResourcesFails, FinalStatus, StatusUpdate, Local, ChildStep,
     ChildCallFails, Keep
<1>2. CASE Restore
  BY <1>2 DEF TypeOK, DeletionOK, DeletePCs, QuietOK, JobType, NoJob, NoSts, memVars,
     workVars, envVars, Restore, RestoreNeeded, RestoreSkipped, SetRestoring,
     Restoring, RestoreWithoutCreds, RestoreCallFails, RecordRestoreJob,
     CreateRestoreJob, CreateRestoreJobFails, WaitForRestore, RestoreFailed,
     RestoreSucceeded, ClearRestoreFrom, ClearRestoreFromFails, StatusUpdate, Local,
     ChildStep, ChildCallFails, Keep
<1>3. CASE Delete
  BY <1>3 DEF TypeOK, DeletionOK, DeletePCs, QuietOK, JobType, NoJob, NoSts, memVars,
     workVars, envVars, Delete, NoBackupWanted, DeleteWithoutBackup, StartBackup,
     InBackup, BackupTimesOut, InTime, BackupCallFails, ScaleDown, Quiesced,
     WaitForPods, BackupWithoutCreds, BackupWithBrokenCreds, ReadyForJob,
     RecordBackupPath, CreatingBackup, CreateBackupJob, CreateBackupJobFails,
     WaitForBackup, BackupFailed, BackupSucceeded, OrphanPVC, OrphanPVCFails,
     RemoveFinalizer, RemoveFinalizerFails, StatusUpdate, Local, ChildStep,
     ChildCallFails, Keep
<1>4. CASE Crash
  BY <1>4 DEF TypeOK, DeletionOK, DeletePCs, QuietOK, JobType, NoJob, NoSts, memVars,
     workVars, envVars, Crash, ChildStep, ChildCallFails, Keep
<1>5. CASE User
  BY <1>5 DEF TypeOK, DeletionOK, DeletePCs, QuietOK, JobType, NoJob, NoSts, memVars,
     workVars, envVars, User, Edit, EditInst, UserRequestsRestore, UserDeletes,
     UserTogglesSkip, UserEditsOtherField, UserDeletesSts, AdminChangesCreds
<1>6. CASE Cluster
  BY <1>6 DEF TypeOK, DeletionOK, DeletePCs, QuietOK, JobType, NoJob, NoSts, memVars,
     workVars, envVars, Cluster, ClusterStep, BackupTimeoutPasses, PodStarts,
     PodStops, BackupJobEnds, RestoreJobEnds, BackupJobExpires, RestoreJobExpires,
     GarbageCollect
<1>7. CASE Gone \/ UNCHANGED vars
  BY <1>7 DEF TypeOK, DeletionOK, DeletePCs, QuietOK, JobType, NoJob, NoSts, memVars,
     workVars, envVars, Gone, vars
<1>8. QED
  BY <1>1, <1>2, <1>3, <1>4, <1>5, <1>6, <1>7 DEF Next, Operator

\* The reason to let go stays valid until the finalizer is removed.
LEMMA NextLetGo == TypeOK /\ CopyOK /\ LetGoOK /\ [Next]_vars => LetGoOK'
<1> SUFFICES ASSUME TypeOK, CopyOK, LetGoOK, [Next]_vars PROVE LetGoOK'
  OBVIOUS
<1>1. CASE Reconcile
  BY <1>1 DEF TypeOK, CopyOK, LetGoOK, MayGo, InstType, StatusType, JobType, NoJob,
     memVars, workVars, envVars, Reconcile, Begin, AddFinalizer, InitPhase, Provision,
     AtVolume, ReconcilePVC, ReconcilePVCFails, ReconcileResources,
     ReconcileResourcesFails, FinalStatus, StatusUpdate, Local, ChildStep,
     ChildCallFails, Keep
<1>2. CASE Restore
  <2>1. CASE RestoreSkipped \/ SetRestoring \/ RestoreWithoutCreds \/ RestoreCallFails
    BY <2>1 DEF TypeOK, CopyOK, LetGoOK, MayGo, InstType, StatusType, JobType, NoJob,
       memVars, workVars, envVars, RestoreSkipped, SetRestoring, RestoreWithoutCreds,
       RestoreCallFails, RestoreNeeded, Restoring, StatusUpdate, Local, ChildStep,
       ChildCallFails, Keep
  <2>2. CASE RecordRestoreJob \/ CreateRestoreJob \/ CreateRestoreJobFails
    BY <2>2 DEF TypeOK, CopyOK, LetGoOK, MayGo, InstType, StatusType, JobType, NoJob,
       memVars, workVars, envVars, RecordRestoreJob, CreateRestoreJob,
       CreateRestoreJobFails, Restoring, StatusUpdate, Local, ChildStep, ChildCallFails,
       Keep
  <2>3. CASE WaitForRestore \/ RestoreFailed \/ RestoreSucceeded
    BY <2>3 DEF TypeOK, CopyOK, LetGoOK, MayGo, InstType, StatusType, JobType, NoJob,
       memVars, workVars, envVars, WaitForRestore, RestoreFailed, RestoreSucceeded,
       Restoring, StatusUpdate, Local, ChildStep, ChildCallFails, Keep
  <2>4. CASE ClearRestoreFrom \/ ClearRestoreFromFails
    BY <2>4 DEF TypeOK, CopyOK, LetGoOK, MayGo, InstType, StatusType, JobType, NoJob,
       memVars, workVars, envVars, ClearRestoreFrom, ClearRestoreFromFails,
       StatusUpdate, Local, ChildStep, ChildCallFails, Keep
  <2>5. QED
    BY <1>2, <2>1, <2>2, <2>3, <2>4 DEF Restore
<1>3. CASE Delete
  <2>1. CASE DeleteWithoutBackup \/ StartBackup \/ BackupTimesOut \/ BackupCallFails
    BY <2>1 DEF TypeOK, CopyOK, LetGoOK, MayGo, InstType, StatusType, JobType, NoJob,
       memVars, workVars, envVars, DeleteWithoutBackup, StartBackup, BackupTimesOut,
       BackupCallFails, NoBackupWanted, InBackup, InTime, StatusUpdate, Local,
       ChildStep, ChildCallFails, Keep
  <2>2. CASE ScaleDown \/ WaitForPods \/ BackupWithoutCreds \/ BackupWithBrokenCreds
    BY <2>2 DEF TypeOK, CopyOK, LetGoOK, MayGo, InstType, StatusType, JobType, NoJob,
       memVars, workVars, envVars, ScaleDown, WaitForPods, BackupWithoutCreds,
       BackupWithBrokenCreds, InBackup, InTime, Quiesced, ReadyForJob, StatusUpdate,
       Local, ChildStep, ChildCallFails, Keep
  <2>3. CASE RecordBackupPath \/ CreateBackupJob \/ CreateBackupJobFails
    BY <2>3 DEF TypeOK, CopyOK, LetGoOK, MayGo, InstType, StatusType, JobType, NoJob,
       memVars, workVars, envVars, RecordBackupPath, CreateBackupJob,
       CreateBackupJobFails, InBackup, InTime, Quiesced, ReadyForJob, CreatingBackup,
       StatusUpdate, Local, ChildStep, ChildCallFails, Keep
  <2>4. CASE WaitForBackup \/ BackupFailed
    BY <2>4 DEF TypeOK, CopyOK, LetGoOK, MayGo, InstType, StatusType, JobType, NoJob,
       memVars, workVars, envVars, WaitForBackup, BackupFailed, InBackup, InTime,
       Quiesced, ReadyForJob, StatusUpdate, Local, ChildStep, ChildCallFails, Keep
  <2>5. CASE BackupSucceeded
    BY <2>5 DEF TypeOK, CopyOK, LetGoOK, MayGo, InstType, StatusType, JobType, NoJob,
       memVars, workVars, envVars, BackupSucceeded, InBackup, InTime, Quiesced,
       ReadyForJob, StatusUpdate, Local, ChildStep, ChildCallFails, Keep
  <2>6. CASE OrphanPVC \/ OrphanPVCFails \/ RemoveFinalizer \/ RemoveFinalizerFails
    BY <2>6 DEF TypeOK, CopyOK, LetGoOK, MayGo, InstType, StatusType, JobType, NoJob,
       memVars, workVars, envVars, OrphanPVC, OrphanPVCFails, RemoveFinalizer,
       RemoveFinalizerFails, StatusUpdate, Local, ChildStep, ChildCallFails, Keep
  <2>7. QED
    BY <1>3, <2>1, <2>2, <2>3, <2>4, <2>5, <2>6 DEF Delete
<1>4. CASE Crash
  BY <1>4 DEF TypeOK, CopyOK, LetGoOK, MayGo, InstType, StatusType, JobType, NoJob,
     memVars, workVars, envVars, Crash, ChildStep, ChildCallFails, Keep
<1>5. CASE User
  BY <1>5 DEF TypeOK, CopyOK, LetGoOK, MayGo, InstType, StatusType, JobType, NoJob,
     memVars, workVars, envVars, User, Edit, EditInst, UserRequestsRestore,
     UserDeletes, UserTogglesSkip, UserEditsOtherField, UserDeletesSts,
     AdminChangesCreds
<1>6. CASE Cluster
  <2>1. CASE BackupTimeoutPasses
    BY <2>1, TimeoutKeeps DEF LetGoOK, MayGo
  <2>2. CASE PodStarts \/ PodStops
    BY <2>2
       DEF TypeOK, LetGoOK, MayGo, JobType, NoJob, memVars, envVars, ClusterStep,
           PodStarts, PodStops
  <2>3. CASE BackupJobEnds
    BY <2>3
       DEF TypeOK, LetGoOK, MayGo, JobType, NoJob, memVars, envVars, ClusterStep,
           BackupJobEnds
  <2>4. CASE RestoreJobEnds
    BY <2>4
       DEF TypeOK, LetGoOK, MayGo, JobType, NoJob, memVars, envVars, ClusterStep,
           RestoreJobEnds
  <2>5. CASE BackupJobExpires \/ RestoreJobExpires
    BY <2>5
       DEF TypeOK, LetGoOK, MayGo, JobType, NoJob, memVars, envVars, ClusterStep,
           BackupJobExpires, RestoreJobExpires
  <2>6. CASE GarbageCollect
    BY <2>6
       DEF TypeOK, LetGoOK, MayGo, JobType, NoJob, memVars, envVars, ClusterStep,
           GarbageCollect
  <2>7. QED
    BY <1>6, <2>1, <2>2, <2>3, <2>4, <2>5, <2>6 DEF Cluster
<1>7. CASE Gone \/ UNCHANGED vars
  BY <1>7 DEF TypeOK, CopyOK, LetGoOK, MayGo, InstType, StatusType, JobType, NoJob,
     memVars, workVars, envVars, Gone, vars
<1>8. QED
  BY <1>1, <1>2, <1>3, <1>4, <1>5, <1>6, <1>7 DEF Next, Operator

\* A status update may record a restore only once its Job has ended.
LEMMA StatusUpdateRestore ==
  ASSUME RestoreOK, NEW st, NEW ok, NEW err, StatusUpdate(st, ok, err),
         restoreJob.state = "running" \/ ok \in {"restoring", "createRestore"}
           => st.restoredFrom = NoPath,
         ok # "resources", err \notin {"restoring", "createRestore", "resources"}
  PROVE  RestoreOK'
<1>1. restoreJob' = restoreJob
  BY DEF StatusUpdate, workVars
<1>2. mstatus' = st \/ mstatus' = NoStatus
  BY DEF StatusUpdate, Keep
<1>3. status' = st \/ status' = status
  BY DEF StatusUpdate
<1>4. pc' # "resources" /\ (pc' \in {"restoring", "createRestore"} => pc' = ok /\ mstatus' = st)
  BY DEF StatusUpdate, Keep
<1>5. NoStatus.restoredFrom = NoPath
  BY DEF NoStatus
<1>6. QED
  BY <1>1, <1>2, <1>3, <1>4, <1>5 DEF RestoreOK

\* A step that writes neither the status nor the restore Job keeps what holds of
\* them, provided it suits the next write.
LEMMA OtherStepRestore ==
  ASSUME RestoreOK, NEW in, NEW cur, Keep(in, mstatus, cur), status' = status,
         restoreJob' = restoreJob,
         pc' \in {"restoring", "createRestore"} => mstatus.restoredFrom = NoPath,
         pc' = "resources" /\ restoreJob.state = "running" => in.restoreFrom = NoPath
  PROVE  RestoreOK'
BY DEF RestoreOK, Keep, NoStatus, NoInst

\* No restore Job runs once the instance has been restored.
LEMMA NextRestore == TypeOK /\ CopyOK /\ RestoreOK /\ [Next]_vars => RestoreOK'
<1> SUFFICES ASSUME TypeOK, CopyOK, RestoreOK, [Next]_vars PROVE RestoreOK'
  OBVIOUS
<1>1. CASE Reconcile
  <2>1. CASE Begin
    BY <2>1 DEF RestoreOK, Begin, Keep, workVars
  <2>2. CASE AddFinalizer
    BY <2>2, OtherStepRestore DEF RestoreOK, AddFinalizer, Local, ChildStep,
       ChildCallFails, TypeOK, workVars
  <2>3. CASE InitPhase
    <3> DEFINE st == [mstatus EXCEPT !.phase = "Pending"]
    <3>1. st.restoredFrom = mstatus.restoredFrom
      BY DEF TypeOK, StatusType
    <3>2. StatusUpdate(st, "idle", "idle")
      BY <2>3 DEF InitPhase
    <3> HIDE DEF st
    <3>3. QED
      BY <3>1, <3>2, StatusUpdateRestore DEF RestoreOK
  <2>4. CASE Provision
    <3> DEFINE st == [mstatus EXCEPT !.phase = "Provisioning"]
    <3>1. st.restoredFrom = mstatus.restoredFrom
      BY DEF TypeOK, StatusType
    <3>2. StatusUpdate(st, "volume", "idle")
      BY <2>4 DEF Provision
    <3> HIDE DEF st
    <3>3. QED
      BY <3>1, <3>2, StatusUpdateRestore DEF RestoreOK
  <2>5. CASE ReconcilePVC
    BY <2>5, OtherStepRestore DEF RestoreOK, ReconcilePVC, Local, ChildStep,
       ChildCallFails, TypeOK, workVars
  <2>6. CASE ReconcilePVCFails
    BY <2>6, OtherStepRestore DEF RestoreOK, ReconcilePVCFails, Local, ChildStep,
       ChildCallFails, TypeOK, workVars
  <2>7. CASE ReconcileResources
    BY <2>7, OtherStepRestore DEF RestoreOK, ReconcileResources, Local, ChildStep,
       ChildCallFails, TypeOK, workVars
  <2>8. CASE ReconcileResourcesFails
    BY <2>8, OtherStepRestore DEF RestoreOK, ReconcileResourcesFails, Local,
       ChildStep, ChildCallFails, TypeOK, workVars
  <2>9. CASE FinalStatus
    <3> DEFINE st(ph) == [mstatus EXCEPT !.phase = ph]
    <3>1. \A ph : st(ph).restoredFrom = mstatus.restoredFrom
      BY DEF TypeOK, StatusType
    <3>2. PICK ph : StatusUpdate(st(ph), "idle", "idle")
      BY <2>9 DEF FinalStatus
    <3> HIDE DEF st
    <3>3. QED
      BY <3>1, <3>2, StatusUpdateRestore DEF RestoreOK
  <2>10. QED
    BY <1>1, <2>1, <2>2, <2>3, <2>4, <2>5, <2>6, <2>7, <2>8, <2>9 DEF Reconcile
<1>2. CASE Restore
  <2>1. CASE RestoreSkipped
    BY <2>1, OtherStepRestore DEF RestoreOK, RestoreSkipped, Local, ChildStep,
       ChildCallFails, TypeOK, workVars, RestoreNeeded, CopyOK
  <2>2. CASE SetRestoring
    <3> DEFINE st == [mstatus EXCEPT !.phase = "Restoring"]
    <3>1. st.restoredFrom = mstatus.restoredFrom
      BY DEF TypeOK, StatusType
    <3>2. StatusUpdate(st, "restoring", "failed") /\ mstatus.restoredFrom = NoPath
      BY <2>2 DEF SetRestoring, RestoreNeeded
    <3> HIDE DEF st
    <3>3. QED
      BY <3>1, <3>2, StatusUpdateRestore DEF RestoreOK
  <2>3. CASE RestoreWithoutCreds
    BY <2>3, OtherStepRestore DEF RestoreOK, RestoreWithoutCreds, Local, ChildStep,
       ChildCallFails, TypeOK, workVars
  <2>4. CASE RestoreCallFails
    BY <2>4, OtherStepRestore DEF RestoreOK, RestoreCallFails, Local, ChildStep,
       ChildCallFails, TypeOK, workVars
  <2>5. CASE RecordRestoreJob
    BY <2>5, StatusUpdateRestore DEF RestoreOK, TypeOK, StatusType, RecordRestoreJob,
       Restoring, RestoreNeeded
  <2>6. CASE CreateRestoreJob
    BY <2>6 DEF TypeOK, CopyOK, RestoreOK, CreateRestoreJob, ChildStep, Keep, NoStatus
  <2>7. CASE CreateRestoreJobFails
    BY <2>7, OtherStepRestore DEF RestoreOK, CreateRestoreJobFails, Local, ChildStep,
       ChildCallFails, TypeOK, workVars
  <2>8. CASE WaitForRestore
    BY <2>8, OtherStepRestore DEF RestoreOK, WaitForRestore, Local, ChildStep,
       ChildCallFails, TypeOK, workVars
  <2>9. CASE RestoreFailed
    BY <2>9, StatusUpdateRestore DEF RestoreOK, TypeOK, StatusType, RestoreFailed
  <2>10. CASE RestoreSucceeded
    BY <2>10
       DEF RestoreOK, TypeOK, StatusType, StatusUpdate, Keep, NoStatus, workVars,
           RestoreSucceeded
  <2>11. CASE ClearRestoreFrom
    BY <2>11, OtherStepRestore DEF RestoreOK, ClearRestoreFrom, Local, ChildStep,
       ChildCallFails, TypeOK, workVars, InstType
  <2>12. CASE ClearRestoreFromFails
    BY <2>12, OtherStepRestore DEF RestoreOK, ClearRestoreFromFails, Local, ChildStep,
       ChildCallFails, TypeOK, workVars
  <2>13. QED
    BY <1>2, <2>1, <2>2, <2>3, <2>4, <2>5, <2>6, <2>7, <2>8, <2>9, <2>10, <2>11, <2>12
       DEF Restore
<1>3. CASE Delete
  <2>1. CASE DeleteWithoutBackup
    <3> DEFINE st == [mstatus EXCEPT !.phase = "Terminating"]
    <3>1. st.restoredFrom = mstatus.restoredFrom
      BY DEF TypeOK, StatusType
    <3>2. StatusUpdate(st, "orphan", "idle")
      BY <2>1 DEF DeleteWithoutBackup
    <3> HIDE DEF st
    <3>3. QED
      BY <3>1, <3>2, StatusUpdateRestore DEF RestoreOK
  <2>2. CASE StartBackup
    <3> DEFINE st == [mstatus EXCEPT !.phase = "BackingUp", !.since = "fresh"]
    <3>1. st.restoredFrom = mstatus.restoredFrom
      BY DEF TypeOK, StatusType
    <3>2. StatusUpdate(st, "backup", "idle")
      BY <2>2 DEF StartBackup
    <3> HIDE DEF st
    <3>3. QED
      BY <3>1, <3>2, StatusUpdateRestore DEF RestoreOK
  <2>3. CASE BackupTimesOut
    <3> DEFINE st == [mstatus EXCEPT !.phase = "Terminating", !.since = "nil",
                                         !.backup = "BackupTimedOut"]
    <3>1. st.restoredFrom = mstatus.restoredFrom
      BY DEF TypeOK, StatusType
    <3>2. StatusUpdate(st, "orphan", "idle")
      BY <2>3 DEF BackupTimesOut
    <3> HIDE DEF st
    <3>3. QED
      BY <3>1, <3>2, StatusUpdateRestore DEF RestoreOK
  <2>4. CASE BackupCallFails
    BY <2>4, OtherStepRestore DEF RestoreOK, BackupCallFails, Local, ChildStep,
       ChildCallFails, TypeOK, workVars
  <2>5. CASE ScaleDown
    BY <2>5, OtherStepRestore DEF RestoreOK, ScaleDown, Local, ChildStep,
       ChildCallFails, TypeOK, workVars
  <2>6. CASE WaitForPods
    BY <2>6, OtherStepRestore DEF RestoreOK, WaitForPods, Local, ChildStep,
       ChildCallFails, TypeOK, workVars
  <2>7. CASE BackupWithoutCreds
    <3> DEFINE st == [mstatus EXCEPT !.phase = "Terminating"]
    <3>1. st.restoredFrom = mstatus.restoredFrom
      BY DEF TypeOK, StatusType
    <3>2. StatusUpdate(st, "orphan", "idle")
      BY <2>7 DEF BackupWithoutCreds
    <3> HIDE DEF st
    <3>3. QED
      BY <3>1, <3>2, StatusUpdateRestore DEF RestoreOK
  <2>8. CASE BackupWithBrokenCreds
    BY <2>8, OtherStepRestore DEF RestoreOK, BackupWithBrokenCreds, Local, ChildStep,
       ChildCallFails, TypeOK, workVars
  <2>9. CASE RecordBackupPath
    <3> DEFINE st == [mstatus EXCEPT !.lastBackupPath = TRUE]
    <3>1. st.restoredFrom = mstatus.restoredFrom
      BY DEF TypeOK, StatusType
    <3>2. StatusUpdate(st, "createBackup", "idle")
      BY <2>9 DEF RecordBackupPath
    <3> HIDE DEF st
    <3>3. QED
      BY <3>1, <3>2, StatusUpdateRestore DEF RestoreOK
  <2>10. CASE CreateBackupJob
    BY <2>10, OtherStepRestore DEF RestoreOK, CreateBackupJob, Local, ChildStep,
       ChildCallFails, TypeOK, workVars
  <2>11. CASE CreateBackupJobFails
    BY <2>11, OtherStepRestore DEF RestoreOK, CreateBackupJobFails, Local, ChildStep,
       ChildCallFails, TypeOK, workVars
  <2>12. CASE WaitForBackup
    BY <2>12, OtherStepRestore DEF RestoreOK, WaitForBackup, Local, ChildStep,
       ChildCallFails, TypeOK, workVars
  <2>13. CASE BackupFailed
    <3> DEFINE st == [mstatus EXCEPT !.backup = "BackupFailed"]
    <3>1. st.restoredFrom = mstatus.restoredFrom
      BY DEF TypeOK, StatusType
    <3>2. StatusUpdate(st, "idle", "idle")
      BY <2>13 DEF BackupFailed
    <3> HIDE DEF st
    <3>3. QED
      BY <3>1, <3>2, StatusUpdateRestore DEF RestoreOK
  <2>14. CASE BackupSucceeded
    <3> DEFINE st == [mstatus EXCEPT !.phase = "Terminating", !.since = "nil",
                                         !.backup = "BackupSucceeded"]
    <3>1. st.restoredFrom = mstatus.restoredFrom
      BY DEF TypeOK, StatusType
    <3>2. StatusUpdate(st, "orphan", "idle")
      BY <2>14 DEF BackupSucceeded
    <3> HIDE DEF st
    <3>3. QED
      BY <3>1, <3>2, StatusUpdateRestore DEF RestoreOK
  <2>15. CASE OrphanPVC
    BY <2>15, OtherStepRestore DEF RestoreOK, OrphanPVC, Local, ChildStep,
       ChildCallFails, TypeOK, workVars
  <2>16. CASE OrphanPVCFails
    BY <2>16, OtherStepRestore DEF RestoreOK, OrphanPVCFails, Local, ChildStep,
       ChildCallFails, TypeOK, workVars
  <2>17. CASE RemoveFinalizer
    BY <2>17, OtherStepRestore DEF RestoreOK, RemoveFinalizer, Local, ChildStep,
       ChildCallFails, TypeOK, workVars
  <2>18. CASE RemoveFinalizerFails
    BY <2>18, OtherStepRestore DEF RestoreOK, RemoveFinalizerFails, Local, ChildStep,
       ChildCallFails, TypeOK, workVars
  <2>19. QED
    BY <1>3, <2>1, <2>2, <2>3, <2>4, <2>5, <2>6, <2>7, <2>8, <2>9, <2>10, <2>11,
       <2>12, <2>13, <2>14, <2>15, <2>16, <2>17, <2>18 DEF Delete
<1>4. CASE Crash
  BY <1>4 DEF TypeOK, CopyOK, RestoreOK, InstType, StatusType, JobType, NoJob,
     NoStatus, memVars, workVars, envVars, Crash, ChildStep, ChildCallFails, Keep
<1>5. CASE User
  BY <1>5 DEF TypeOK, CopyOK, RestoreOK, InstType, StatusType, JobType, NoJob,
     NoStatus, memVars, workVars, envVars, User, Edit, EditInst, UserRequestsRestore,
     UserDeletes, UserTogglesSkip, UserEditsOtherField, UserDeletesSts,
     AdminChangesCreds
<1>6. CASE Cluster
  <2>1. CASE BackupTimeoutPasses
    BY <2>1, TimeoutKeeps DEF RestoreOK
  <2>2. CASE PodStarts \/ PodStops
    BY <2>2
       DEF TypeOK, RestoreOK, JobType, NoJob, memVars, envVars, ClusterStep, PodStarts,
           PodStops
  <2>3. CASE BackupJobEnds
    BY <2>3
       DEF TypeOK, RestoreOK, JobType, NoJob, memVars, envVars, ClusterStep, BackupJobEnds
  <2>4. CASE RestoreJobEnds
    BY <2>4
       DEF TypeOK, RestoreOK, JobType, NoJob, memVars, envVars, ClusterStep,
           RestoreJobEnds
  <2>5. CASE BackupJobExpires \/ RestoreJobExpires
    BY <2>5
       DEF TypeOK, RestoreOK, JobType, NoJob, memVars, envVars, ClusterStep,
           BackupJobExpires, RestoreJobExpires
  <2>6. CASE GarbageCollect
    BY <2>6
       DEF TypeOK, RestoreOK, JobType, NoJob, memVars, envVars, ClusterStep,
           GarbageCollect
  <2>7. QED
    BY <1>6, <2>1, <2>2, <2>3, <2>4, <2>5, <2>6 DEF Cluster
<1>7. CASE Gone \/ UNCHANGED vars
  BY <1>7 DEF TypeOK, CopyOK, RestoreOK, InstType, StatusType, JobType, NoJob,
     NoStatus, memVars, workVars, envVars, Gone, vars
<1>8. QED
  BY <1>1, <1>2, <1>3, <1>4, <1>5, <1>6, <1>7 DEF Next, Operator

-----------------------------------------------------------------------------
(* The theorems *)

\* The invariant holds initially ...
LEMMA InitIInv == Init => IInv
<1> SUFFICES ASSUME Init PROVE IInv
  OBVIOUS
<1>1. inst \in InstType
  BY DEF Init, NoInst, InstType, MaybePaths
<1>2. creds \in {"ok", "missing", "broken"} /\ credsWereMissing \in BOOLEAN
  BY ConstantsAssumption DEF Init
<1>3. pvc \in [exists : BOOLEAN, owned : BOOLEAN]
  BY ConstantsAssumption DEF Init
<1>4. faults \in 0 .. MaxFaults /\ edits \in 0 .. MaxEdits
  BY ConstantsAssumption DEF Init
<1>5. TypeOK
  BY <1>1, <1>2, <1>3, <1>4, EmptyCopy DEF Init, TypeOK, NoSts, PCs
<1>6. CopyOK /\ DeletionOK /\ PathOK /\ QuietOK /\ LetGoOK /\ RestoreOK
  BY DEF Init, CopyOK, DeletionOK, DeletePCs, PathOK, QuietOK, LetGoOK, RestoreOK, NoJob,
         NoSts
<1>7. QED
  BY <1>5, <1>6 DEF IInv

\* ... and is preserved by every step.
LEMMA NextIInv == IInv /\ [Next]_vars => IInv'
BY NextType, NextCopy, NextDeletion, NextPath, NextQuiet, NextLetGo, NextRestore DEF IInv

\* The inductive invariant is an invariant of the specification.
THEOREM Invariance == Spec => []IInv
BY InitIInv, NextIInv, PTL DEF Spec

\* Every variable keeps its type, whatever the bounds are.
THEOREM TypeCorrect == Spec => []TypeOK
<1>1. IInv => TypeOK
  BY DEF IInv
<1>2. QED
  BY <1>1, Invariance, PTL

\* The path a backup Job writes to is on record as long as the Job exists,
\* wherever the pass that created it was interrupted.
THEOREM BackupPathOnRecord == Spec => []JobPathRecorded
<1>1. IInv => JobPathRecorded
  BY DEF IInv, PathOK, JobPathRecorded
<1>2. QED
  BY <1>1, Invariance, PTL

\* No pod of an existing StatefulSet runs beside the backup of its volume.
THEOREM QuietBackup == Spec => []NoPodDuringBackup
<1>1. IInv => NoPodDuringBackup
  BY DEF IInv, QuietOK, NoPodDuringBackup
<1>2. QED
  BY <1>1, Invariance, PTL

\* The instance goes only with its backup, or for a documented reason that
\* holds at that moment.
THEOREM BackupFirst == Spec => BackupBeforeRemoval
<1> DEFINE Removed == inst.exists /\ inst.finalizer /\ ~inst'.exists
           Excused == \/ s3 \/ inst.skip \/ ~Persistence \/ credsWereMissing
                      \/ status.backup = "BackupTimedOut"
<1>1. ASSUME IInv, Next, Removed PROVE RemoveFinalizer /\ mcur
  <2>1. CASE Operator
    BY <1>1, <2>1
       DEF IInv, TypeOK, InstType, Operator, Reconcile, Restore, Delete, Begin, AddFinalizer,
           InitPhase, Provision, ReconcilePVC, ReconcilePVCFails, ReconcileResources,
           ReconcileResourcesFails, FinalStatus, RestoreSkipped, SetRestoring,
           RestoreWithoutCreds, RestoreCallFails, RecordRestoreJob, CreateRestoreJob,
           CreateRestoreJobFails, WaitForRestore, RestoreFailed, RestoreSucceeded,
           ClearRestoreFrom, ClearRestoreFromFails, DeleteWithoutBackup, StartBackup,
           BackupTimesOut, BackupCallFails, ScaleDown, WaitForPods, BackupWithoutCreds,
           BackupWithBrokenCreds, RecordBackupPath, CreateBackupJob, CreateBackupJobFails,
           WaitForBackup, BackupFailed, BackupSucceeded, OrphanPVC, OrphanPVCFails,
           RemoveFinalizer, RemoveFinalizerFails, StatusUpdate, Local, ChildStep,
           ChildCallFails
  <2>2. CASE User
    BY <1>1, <2>2
       DEF IInv, TypeOK, InstType, User, EditInst, UserRequestsRestore, UserDeletes,
           UserTogglesSkip, UserEditsOtherField, UserDeletesSts, AdminChangesCreds
  <2>3. CASE Crash \/ Cluster \/ Gone
    BY <1>1, <2>3
       DEF Crash, ChildCallFails, ChildStep, Cluster, ClusterStep, BackupTimeoutPasses,
           PodStarts, PodStops, BackupJobEnds, RestoreJobEnds, BackupJobExpires,
           RestoreJobExpires, GarbageCollect, Gone, vars
  <2>4. QED
    BY <1>1, <2>1, <2>2, <2>3 DEF Next
<1>2. ASSUME IInv, RemoveFinalizer, mcur PROVE Excused
  BY <1>2 DEF IInv, CopyOK, LetGoOK, MayGo, RemoveFinalizer
<1>3. IInv /\ [Next]_vars => [Removed => Excused]_vars
  BY <1>1, <1>2
<1>4. QED
  BY <1>3, Invariance, PTL DEF Spec, BackupBeforeRemoval

\* A volume that has been restored is never overwritten by another restore.
THEOREM RestoredOnce == Spec => NeverRestoredTwice
<1> DEFINE Created == restoreJob.state = "none" /\ restoreJob'.state = "running"
<1>1. ASSUME IInv, Next, Created PROVE status.restoredFrom = NoPath
  <2>1. CASE CreateRestoreJob
    BY <1>1, <2>1 DEF IInv, CopyOK, RestoreOK, CreateRestoreJob
  <2>2. CASE Reconcile
    BY <1>1, <2>2
       DEF Reconcile, Begin, AddFinalizer, InitPhase, Provision, ReconcilePVC,
           ReconcilePVCFails, ReconcileResources, ReconcileResourcesFails, FinalStatus,
           StatusUpdate, ChildCallFails, workVars
  <2>3. CASE Restore
    BY <1>1, <2>1, <2>3
       DEF Restore, RestoreSkipped, SetRestoring, RestoreWithoutCreds, RestoreCallFails,
           RecordRestoreJob, CreateRestoreJobFails, WaitForRestore, RestoreFailed,
           RestoreSucceeded, ClearRestoreFrom, ClearRestoreFromFails, StatusUpdate, Local,
           ChildCallFails, workVars
  <2>4. CASE Delete
    BY <1>1, <2>4
       DEF Delete, DeleteWithoutBackup, StartBackup, BackupTimesOut, BackupCallFails,
           ScaleDown, WaitForPods, BackupWithoutCreds, BackupWithBrokenCreds,
           RecordBackupPath, CreateBackupJob, CreateBackupJobFails, WaitForBackup,
           BackupFailed, BackupSucceeded, OrphanPVC, OrphanPVCFails, RemoveFinalizer,
           RemoveFinalizerFails, StatusUpdate, Local, ChildCallFails, workVars
  <2>5. CASE Crash \/ User \/ Gone
    BY <1>1, <2>5
       DEF Crash, ChildCallFails, User, EditInst, UserRequestsRestore, UserDeletes,
           UserTogglesSkip, UserEditsOtherField, UserDeletesSts, AdminChangesCreds, Gone,
           vars, workVars
  <2>6. CASE Cluster
    BY <1>1, <2>6
       DEF IInv, TypeOK, JobType, NoJob, Cluster, BackupTimeoutPasses, PodStarts, PodStops,
           BackupJobEnds, RestoreJobEnds, BackupJobExpires, RestoreJobExpires,
           GarbageCollect, workVars
  <2>7. QED
    BY <1>1, <2>2, <2>3, <2>4, <2>5, <2>6 DEF Next, Operator
<1>2. IInv /\ [Next]_vars => [Created => status.restoredFrom = NoPath]_vars
  BY <1>1
<1>3. QED
  BY <1>2, Invariance, PTL DEF Spec, NeverRestoredTwice

\* The workload starts beside a running restore Job only when the user has
\* withdrawn the request.
THEOREM RestoredFirst == Spec => RestoreBeforeStart
<1> DEFINE Started == ~sts.exists /\ sts'.exists /\ restoreJob.state = "running"
<1>1. ASSUME IInv, Next, Started PROVE pc = "resources"
  <2>1. CASE Reconcile
    BY <1>1, <2>1
       DEF Reconcile, Begin, AddFinalizer, InitPhase, Provision, ReconcilePVC,
           ReconcilePVCFails, ReconcileResources, ReconcileResourcesFails, FinalStatus,
           StatusUpdate, ChildCallFails, workVars
  <2>2. CASE Restore
    BY <1>1, <2>2
       DEF Restore, RestoreSkipped, SetRestoring, RestoreWithoutCreds, RestoreCallFails,
           RecordRestoreJob, CreateRestoreJob, CreateRestoreJobFails, WaitForRestore,
           RestoreFailed, RestoreSucceeded, ClearRestoreFrom, ClearRestoreFromFails,
           StatusUpdate, Local, ChildCallFails, workVars
  <2>3. CASE Delete
    BY <1>1, <2>3
       DEF IInv, TypeOK, Delete, DeleteWithoutBackup, StartBackup, BackupTimesOut,
           BackupCallFails, ScaleDown, WaitForPods, BackupWithoutCreds,
           BackupWithBrokenCreds, RecordBackupPath, CreateBackupJob, CreateBackupJobFails,
           WaitForBackup, BackupFailed, BackupSucceeded, OrphanPVC, OrphanPVCFails,
           RemoveFinalizer, RemoveFinalizerFails, StatusUpdate, Local, ChildCallFails,
           workVars
  <2>4. CASE Crash \/ User \/ Gone
    BY <1>1, <2>4
       DEF Crash, ChildCallFails, User, EditInst, UserRequestsRestore, UserDeletes,
           UserTogglesSkip, UserEditsOtherField, UserDeletesSts, AdminChangesCreds, Gone,
           NoSts, vars, workVars
  <2>5. CASE Cluster
    BY <1>1, <2>5
       DEF Cluster, BackupTimeoutPasses, PodStarts, PodStops, BackupJobEnds,
           RestoreJobEnds, BackupJobExpires, RestoreJobExpires, GarbageCollect, NoSts,
           workVars
  <2>6. QED
    BY <1>1, <2>1, <2>2, <2>3, <2>4, <2>5 DEF Next, Operator
<1>2. ASSUME IInv, Next, Started PROVE minst.restoreFrom = NoPath
  BY <1>1, <1>2 DEF IInv, RestoreOK
<1>3. IInv /\ [Next]_vars => [Started => minst.restoreFrom = NoPath]_vars
  BY <1>2
<1>4. QED
  BY <1>3, Invariance, PTL DEF Spec, RestoreBeforeStart
=============================================================================
