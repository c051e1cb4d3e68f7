-------------------------- MODULE AutoUpdate_proofs --------------------------
(***************************************************************************)
(* Proofs about AutoUpdate, for every value of its constants.              *)
(*                                                                         *)
(* A pass may hold a copy of the status that no write has stored yet, so    *)
(* the invariants of the stored status are not inductive: the copies must  *)
(* be coherent too, and a pass between two of its writes must satisfy what *)
(* its next write relies on (PcOK).                                        *)
(***************************************************************************)
EXTENDS AutoUpdate, TLAPS

\* What holds of a status that is stored or may be stored next.
Coherent(st) ==
  /\ st.available <=> st.pending # NoVersion
  /\ st.pending # NoVersion => st.rollbacks < maxRollbackCount
  /\ st.updatePhase \in {"ApplyingUpdate", "HealthCheck", "RollingBack"}
       => st.previous # NoVersion
  /\ st.updatePhase # "" => st.pending # NoVersion
  /\ st.backupPath = ""

Working == {"drive", "backingUp", "apply", "patchTag", "scaleUp", "enterHealthCheck",
            "abort"}

\* What a pass at p knows of its copy m and of the stored status s.  A copy that
\* driveRollback's patch decoded over a stale one need not be coherent.
PcOK(p, m, s) ==
  /\ p # "rolledBack" => Coherent(m)
  /\ p \in Working => m.pending # NoVersion
  /\ p \in {"patchTag", "scaleUp", "enterHealthCheck"} => m.previous # NoVersion
  /\ p \in {"resolve", "patchTag"} => m = s
  /\ p = "check" => m.pending = NoVersion

IInv ==
  /\ TypeOK
  /\ Coherent(status)
  /\ Coherent(cstatus)
  /\ PcOK(pc, mstatus, status)

-----------------------------------------------------------------------------
(* Lemmas on the operators *)

\* The empty spec and status have their types; the empty status is coherent.
LEMMA EmptyCopy == NoSpec \in SpecType /\ NoStatus \in StatusType /\ Coherent(NoStatus)
BY ConstantsAssumption
   DEF NoSpec, SpecType, NoStatus, StatusType, Coherent, Tags, MaybeVersions, Phases,
       UpdatePhases, Ages

\* Decoding a response over a copy gives a spec ...
LEMMA DecodeSpecType == \A a, b \in SpecType : DecodeSpec(a, b) \in SpecType
<1> SUFFICES ASSUME NEW a \in SpecType, NEW b \in SpecType
             PROVE  DecodeSpec(a, b) \in SpecType
  OBVIOUS
<1>1. (b.suspended \/ a.suspended) \in BOOLEAN
  OBVIOUS
<1> DEFINE v == b.suspended \/ a.suspended
<1>2. v \in BOOLEAN => [b EXCEPT !.suspended = v] \in SpecType
  <2> HIDE DEF v
  <2> QED BY DEF SpecType
<1> QED
  BY <1>1, <1>2 DEF DecodeSpec

\* ... or a status.
LEMMA DecodeStatusType == \A a, b \in StatusType : DecodeStatus(a, b) \in StatusType
<1> SUFFICES ASSUME NEW a \in StatusType, NEW b \in StatusType
             PROVE  DecodeStatus(a, b) \in StatusType
  OBVIOUS
<1> QED
  BY DEF DecodeStatus, StatusType

\* Decoding a status over itself changes nothing.
LEMMA DecodeSame == \A s \in StatusType : DecodeStatus(s, s) = s
<1> SUFFICES ASSUME NEW s \in StatusType
             PROVE  DecodeStatus(s, s) = s
  OBVIOUS
<1> QED
  BY DEF DecodeStatus, StatusType

\* lastPreUpdateBackupPath finds nothing, whatever the bucket is called.
LEMMA PathNeverFound == lastPreUpdateBackupPath = ""
BY ConstantsAssumption DEF lastPreUpdateBackupPath, LocalDirLen

\* Aging a status keeps its type and everything but its two ages.
LEMMA AgedKeeps ==
  ASSUME NEW st \in StatusType, NEW c \in BOOLEAN, NEW u \in BOOLEAN
  PROVE  /\ Aged(st, c, u) \in StatusType
         /\ Aged(st, c, u).pending = st.pending
         /\ Aged(st, c, u).previous = st.previous
         /\ Coherent(st) => Coherent(Aged(st, c, u))
BY DEF Aged, StatusType, Coherent, Ages

\* A pass that is over knows nothing, which is coherent.
LEMMA IdleOK == \A s \in StatusType : PcOK("idle", NoStatus, s)
BY EmptyCopy DEF PcOK, Working

-----------------------------------------------------------------------------
(* Lemmas on the API calls: what a call needs to preserve the invariant *)

\* Status().Update of a coherent status preserves the invariant.
LEMMA StatusUpdateKeeps ==
  ASSUME IInv, NEW st \in StatusType, NEW ok \in PCs, NEW err \in PCs,
         Coherent(st), PcOK(ok, st, st), PcOK(err, st, status),
         StatusUpdate(st, ok, err)
  PROVE  IInv'
<1>1. CASE StoreStatus(st, ok)
  <2>1. TypeOK'
    BY <1>1, EmptyCopy, DecodeSpecType, DecodeStatusType
       DEF IInv, TypeOK, StatusUpdate, StoreStatus, Keep, workVars, envVars, passVars
  <2>2. PcOK(pc', mstatus', status')
    BY <1>1, IdleOK DEF StoreStatus, Keep
  <2>3. QED
    BY <1>1, <2>1, <2>2 DEF IInv, StoreStatus
<1>2. CASE RefuseStatus(st, err)
  <2>1. TypeOK'
    BY <1>2, EmptyCopy, ConstantsAssumption
       DEF IInv, TypeOK, StatusUpdate, RefuseStatus, Fault, Keep, apiVars, cacheVars,
           workVars, envVars, passVars
  <2>2. PcOK(pc', mstatus', status')
    BY <1>2, IdleOK DEF IInv, TypeOK, RefuseStatus, Keep, apiVars
  <2>3. QED
    BY <1>2, <2>1, <2>2 DEF IInv, RefuseStatus, apiVars, cacheVars
<1>3. QED
  BY <1>1, <1>2 DEF StatusUpdate

\* A branch without a write preserves it.
LEMMA LocalKeeps ==
  ASSUME IInv, NEW st \in StatusType, NEW next \in PCs, PcOK(next, st, status),
         Local(st, next)
  PROVE  IInv'
<1>1. TypeOK'
  BY EmptyCopy
     DEF IInv, TypeOK, Local, Keep, apiVars, cacheVars, workVars, envVars, passVars
<1>2. PcOK(pc', mstatus', status')
  BY IdleOK DEF IInv, TypeOK, Local, Keep, apiVars
<1>3. QED
  BY <1>1, <1>2 DEF IInv, Local, apiVars, cacheVars

\* A patch of the tag preserves it if the decoded copy suits the next write.
LEMMA PatchTagKeeps ==
  ASSUME IInv, NEW t \in Tags, NEW st \in StatusType, NEW ok \in PCs,
         PcOK(ok, DecodeStatus(st, status), status),
         target' \in Tags \cup {NoVersion},
         PatchTag(t, st, ok)
  PROVE  IInv'
<1>1. spec' \in SpecType
  BY DEF IInv, TypeOK, PatchTag, SpecType
<1>2. TypeOK'
  BY <1>1, EmptyCopy, DecodeSpecType, DecodeStatusType
     DEF IInv, TypeOK, PatchTag, Keep, workVars, envVars
<1>3. PcOK(pc', mstatus', status')
  BY IdleOK DEF IInv, TypeOK, PatchTag, Keep
<1>4. QED
  BY <1>2, <1>3 DEF IInv, PatchTag

\* A failed patch of the tag preserves it.
LEMMA PatchTagFailsKeeps ==
  ASSUME IInv, NEW t \in Tags, NEW st \in StatusType, NEW err \in PCs,
         PcOK(err, st, status),
         target' \in Tags \cup {NoVersion},
         PatchTagFails(t, st, err)
  PROVE  IInv'
<1>1. [mspec EXCEPT !.tag = t] \in SpecType
  BY DEF IInv, TypeOK, SpecType
<1>2. TypeOK'
  BY <1>1, EmptyCopy, ConstantsAssumption
     DEF IInv, TypeOK, PatchTagFails, Fault, Keep, apiVars, cacheVars, workVars, envVars
<1>3. PcOK(pc', mstatus', status')
  BY IdleOK DEF IInv, TypeOK, PatchTagFails, Keep, apiVars
<1>4. QED
  BY <1>2, <1>3 DEF IInv, PatchTagFails, apiVars, cacheVars

\* A step of the pass on the StatefulSet or the Job preserves it.
LEMMA WorkStepKeeps ==
  ASSUME IInv, NEW next \in PCs, next # "idle", PcOK(next, mstatus, status),
         WorkStep(next),
         sts' \in [exists : BOOLEAN, replicas : {0, 1}, image : Tags],
         job' \in JobStates,
         pod' = pod, faults' \in 0 .. MaxFaults
  PROVE  IInv'
BY DEF IInv, TypeOK, WorkStep, apiVars, cacheVars, memVars, envVars, passVars

\* One more fault stays within the bound.
LEMMA FaultBounded == ASSUME TypeOK, Fault PROVE faults' \in 0 .. MaxFaults
BY ConstantsAssumption DEF TypeOK, Fault

\* Where a pass goes after an error, and after Dispatch.
LEMMA NextPCs ==
  ASSUME TypeOK, NEW st, NEW s, Coherent(st)
  PROVE  /\ OnError \in PCs /\ OnError # "idle" /\ PcOK(OnError, st, s)
         /\ \A sp : Dispatch(sp, st) \in PCs /\ Dispatch(sp, st) # "idle"
                      /\ PcOK(Dispatch(sp, st), st, s)
         /\ PcOK("final", st, s) /\ PcOK("idle", st, s)
BY DEF TypeOK, OnError, Dispatch, PCs, PcOK, Working

-----------------------------------------------------------------------------
(* Every action preserves the invariant *)

\* The steps of Reconcile around the two calls of reconcileAutoUpdate.
LEMMA ReconcileKeeps == ASSUME IInv, Reconcile PROVE IInv'
<1> USE DEF IInv
<1>1. CASE Begin
  <2> DEFINE sp == IF CacheLags THEN cspec ELSE spec
             st == IF CacheLags THEN cstatus ELSE status
             cur == IF CacheLags THEN ccur ELSE TRUE
             next == IF st.phase = "Pending" THEN "provision" ELSE Dispatch(sp, st)
  <2>1. sp \in SpecType /\ st \in StatusType /\ cur \in BOOLEAN /\ Coherent(st)
    BY DEF TypeOK
  <2>2. next \in PCs /\ next # "idle" /\ PcOK(next, st, status)
    BY <2>1, NextPCs DEF PCs, PcOK, Working
  <2>3. /\ pc' = next /\ mspec' = sp /\ mstatus' = st /\ mcur' = cur
        /\ site' = 1 /\ target' = NoVersion /\ stale' = ~cur
        /\ UNCHANGED <<apiVars, cacheVars, workVars, envVars>>
    BY <1>1, <2>1, <2>2 DEF Begin, Keep
  <2>4. faults' \in 0 .. MaxFaults
    BY <1>1, FaultBounded DEF Begin, TypeOK
  <2> HIDE DEF sp, st, cur, next
  <2>5. QED
    BY <2>1, <2>2, <2>3, <2>4
       DEF TypeOK, apiVars, cacheVars, workVars, envVars
<1>2. CASE Provision
  <2> DEFINE st == [mstatus EXCEPT !.phase = "Provisioning"]
  <2>1. st \in StatusType /\ Coherent(st)
    BY <1>2 DEF Provision, TypeOK, StatusType, Phases, PcOK, Coherent
  <2>2. PcOK("resolve", st, st) /\ "resolve" \in PCs /\ "idle" \in PCs
    BY <2>1 DEF PcOK, Working, PCs
  <2> HIDE DEF st
  <2>3. QED
    BY <1>2, <2>1, <2>2, NextPCs, StatusUpdateKeeps DEF Provision, st
<1>3. CASE ResolveInitialTag
  <2>1. mstatus = status /\ Coherent(mstatus) /\ mstatus \in StatusType
    BY <1>3 DEF ResolveInitialTag, PcOK, TypeOK
  <2>2. CASE PatchTag(latest, mstatus, "resolved") /\ UNCHANGED target
    <3>1. DecodeStatus(mstatus, status) = status
      BY <2>1, DecodeSame
    <3>2. PcOK("resolved", DecodeStatus(mstatus, status), status) /\ "resolved" \in PCs
      BY <3>1, <2>1 DEF PcOK, Working, PCs
    <3>3. latest \in Tags /\ target' \in Tags \cup {NoVersion}
      BY <2>2 DEF TypeOK, Tags
    <3>4. QED
      BY <2>1, <2>2, <3>2, <3>3, PatchTagKeeps
  <2>3. CASE PatchTagFails(latest, mstatus, "idle") /\ UNCHANGED target
    <3>1. latest \in Tags /\ target' \in Tags \cup {NoVersion} /\ "idle" \in PCs
      BY <2>3 DEF TypeOK, Tags, PCs
    <3>2. QED
      BY <2>1, <2>3, <3>1, NextPCs, PatchTagFailsKeeps
  <2>4. CASE Local(mstatus, Dispatch(mspec, mstatus))
    BY <2>1, <2>4, NextPCs, LocalKeeps
  <2>5. QED
    BY <1>3, <2>2, <2>3, <2>4 DEF ResolveInitialTag
<1>4. CASE ResolveInitialTagFails
  <2>1. Coherent(mstatus)
    BY <1>4 DEF ResolveInitialTagFails, PcOK
  <2>2. pc' \in PCs /\ PcOK(pc', mstatus, status)
    BY <1>4, <2>1, NextPCs DEF ResolveInitialTagFails
  <2>3. QED
    BY <1>4, <2>2, FaultBounded
       DEF ResolveInitialTagFails, TypeOK, apiVars, cacheVars, memVars, workVars, envVars,
           passVars
<1>5. CASE TagResolved
  <2> DEFINE st == [mstatus EXCEPT !.current = mspec.tag]
  <2>1. st \in StatusType /\ Coherent(st)
    BY <1>5 DEF TagResolved, TypeOK, StatusType, SpecType, PcOK, Coherent
  <2>2. "idle" \in PCs
    BY DEF PCs
  <2> HIDE DEF st
  <2>3. QED
    BY <1>5, <2>1, <2>2, NextPCs, StatusUpdateKeeps DEF TagResolved, st
<1>6. DesiredSts \in [exists : BOOLEAN, replicas : {0, 1}, image : Tags]
  BY DEF DesiredSts, TypeOK, SpecType
<1>7. CASE ReconcileResources
  <2> DEFINE ph == IF mspec.suspended THEN "Suspended"
                   ELSE IF pod.ready THEN "Running" ELSE "Provisioning"
             st == [mstatus EXCEPT !.phase = ph]
  <2>0. ph \in Phases /\ mstatus \in StatusType /\ Coherent(mstatus)
    BY <1>7 DEF ReconcileResources, TypeOK, Phases, PcOK
  <2> HIDE DEF ph
  <2>1. st \in StatusType /\ Coherent(st) /\ st.pending = mstatus.pending
    BY <2>0 DEF StatusType, Coherent
  <2>2. pc' \in PCs /\ pc' # "idle" /\ PcOK(pc', st, status)
    BY <1>7, <2>1 DEF ReconcileResources, PCs, PcOK, Working
  <2> HIDE DEF st
  <2>3. mstatus' = st /\ mspec' = mspec /\ mcur' = mcur
    BY <1>7, <2>2 DEF ReconcileResources, Keep, st, ph, TypeOK
  <2>4. QED
    BY <1>6, <1>7, <2>1, <2>2, <2>3
       DEF ReconcileResources, TypeOK, apiVars, cacheVars, envVars
<1>8. CASE ResourcesConflict
  BY <1>6, <1>8, EmptyCopy, IdleOK, FaultBounded
     DEF ResourcesConflict, TypeOK, Keep, PCs, apiVars, cacheVars, envVars, passVars
<1>9. CASE ResourcesFail
  <2> DEFINE st == [mstatus EXCEPT !.phase = "Failed"]
  <2>1. st \in StatusType /\ Coherent(st)
    BY <1>9 DEF ResourcesFail, TypeOK, StatusType, Phases, PcOK, Coherent
  <2>2. "failed" \in PCs /\ PcOK("failed", st, status)
    BY <2>1 DEF PCs, PcOK, Working
  <2> HIDE DEF st
  <2>3. pc' = "failed" /\ mstatus' = st /\ mspec' = mspec /\ mcur' = mcur
    BY <1>9 DEF ResourcesFail, Keep, st, TypeOK
  <2>4. QED
    BY <1>6, <1>9, <2>1, <2>2, <2>3, FaultBounded
       DEF ResourcesFail, TypeOK, apiVars, cacheVars, envVars, passVars
<1>10. CASE FinalStatus
  <2>1. Coherent(mstatus) /\ mstatus \in StatusType /\ "idle" \in PCs
    BY <1>10 DEF FinalStatus, PcOK, TypeOK, PCs
  <2>2. QED
    BY <1>10, <2>1, NextPCs, StatusUpdateKeeps DEF FinalStatus
<1>11. QED
  BY <1>1, <1>2, <1>3, <1>4, <1>5, <1>7, <1>8, <1>9, <1>10 DEF Reconcile
\* The version check of reconcileAutoUpdate.
LEMMA VersionCheckKeeps == ASSUME IInv, VersionCheck PROVE IInv'
<1> USE DEF IInv
<1>1. pc = "check"
  BY DEF VersionCheck, CheckSkipped, CheckFails, CheckPinsLatest, CheckSkipsCustomTag,
         CheckVersion
<1>2. mstatus \in StatusType /\ Coherent(mstatus) /\ mstatus.pending = NoVersion
  BY <1>1 DEF TypeOK, PcOK
<1>3. /\ Checked \in StatusType /\ Coherent(Checked) /\ Checked.pending = NoVersion
      /\ Checked.rollbacks = mstatus.rollbacks /\ Checked.updatePhase = mstatus.updatePhase
      /\ Checked.backupPath = ""
  BY <1>2 DEF Checked, StatusType, Ages, Coherent
<1>4. "final" \in PCs /\ "resolved" \in PCs /\ "final" # "idle"
  BY DEF PCs
<1>5. latest \in Tags /\ latest \in Versions
  BY DEF TypeOK, Tags
<1>6. CASE CheckSkipped
  BY <1>2, <1>4, <1>6, NextPCs, LocalKeeps DEF CheckSkipped
<1>7. CASE CheckFails
  <2>1. pc' = "final" /\ mspec' = mspec /\ mstatus' = Checked /\ mcur' = mcur
    BY <1>7 DEF CheckFails, Keep, TypeOK
  <2>2. PcOK("final", Checked, status)
    BY <1>3, NextPCs
  <2>3. faults' \in 0 .. MaxFaults
    BY <1>7, FaultBounded DEF CheckFails
  <2>4. UNCHANGED <<apiVars, cacheVars, passVars, workVars, envVars>>
    BY <1>7 DEF CheckFails
  <2>5. TypeOK'
    BY <1>3, <1>4, <2>1, <2>3, <2>4
       DEF TypeOK, apiVars, cacheVars, workVars, envVars, passVars
  <2>6. QED
    BY <2>1, <2>2, <2>4, <2>5 DEF apiVars, cacheVars
<1>8. CASE CheckPinsLatest
  <2>1. target' \in Tags \cup {NoVersion}
    BY <1>8 DEF CheckPinsLatest, TypeOK
  <2>2. CASE PatchTag(latest, Checked, "resolved")
    <3>1. mstatus.rollbacks < maxRollbackCount
      BY <1>8 DEF CheckPinsLatest, CheckDue
    <3>2. Checked.updatePhase = ""
      BY <1>2, <1>3 DEF Coherent
    <3>3. status \in StatusType
      BY DEF TypeOK
    <3> DEFINE d == DecodeStatus(Checked, status)
    <3>4. /\ d.available = status.available /\ d.pending = status.pending
          /\ d.updatePhase = status.updatePhase /\ d.backupPath = ""
          /\ d.rollbacks \in {status.rollbacks, mstatus.rollbacks}
          /\ status.previous # NoVersion => d.previous = status.previous
          /\ status.rollbacks # 0 => d.rollbacks = status.rollbacks
      BY <1>3, <3>2, <3>3 DEF DecodeStatus, Coherent
    <3>5. Coherent(d)
      BY <3>1, <3>3, <3>4 DEF Coherent
    <3>6. PcOK("resolved", d, status)
      BY <3>5 DEF PcOK, Working
    <3>7. QED
      BY <1>3, <1>4, <1>5, <2>1, <2>2, <3>6, PatchTagKeeps
  <2>3. CASE PatchTagFails(latest, Checked, "final")
    BY <1>3, <1>4, <1>5, <2>1, <2>3, NextPCs, PatchTagFailsKeeps
  <2>4. QED
    BY <1>8, <2>2, <2>3 DEF CheckPinsLatest
<1>9. CASE CheckSkipsCustomTag
  BY <1>3, <1>4, <1>9, NextPCs, LocalKeeps DEF CheckSkipsCustomTag
<1>10. CASE CheckVersion
  <2> DEFINE seen == [Checked EXCEPT !.current = mspec.tag]
             none == [seen EXCEPT !.available = FALSE]
             start == [seen EXCEPT !.failed = FailedAfterCheck, !.pending = latest,
                                   !.updatePhase = "", !.available = TRUE]
  <2>1. /\ seen \in StatusType /\ Coherent(seen) /\ seen.pending = NoVersion
        /\ seen.rollbacks = mstatus.rollbacks
    BY <1>3 DEF StatusType, TypeOK, SpecType, Coherent
  <2>2. none \in StatusType /\ Coherent(none)
    BY <2>1 DEF StatusType, Coherent
  <2>3. mstatus.rollbacks < maxRollbackCount
    BY <1>10 DEF CheckVersion, CheckDue
  <2>4. FailedAfterCheck \in MaybeVersions
    BY <1>2 DEF FailedAfterCheck, StatusType, MaybeVersions
  <2>5. start \in StatusType
    BY ZenonT(60), <1>5, <2>1, <2>4 DEF StatusType, MaybeVersions, UpdatePhases
  <2>6. Coherent(start)
    <3>1. latest # NoVersion
      BY <1>5, ConstantsAssumption DEF Versions
    <3>2. /\ start.pending = latest /\ start.updatePhase = "" /\ start.available = TRUE
          /\ start.rollbacks = seen.rollbacks /\ start.backupPath = seen.backupPath
      BY <2>1 DEF StatusType
    <3> HIDE DEF start
    <3>3. QED
      BY <2>1, <2>3, <3>1, <3>2 DEF Coherent
  <2>7. \E st \in {none, seen, start} : Local(st, "final")
    BY <1>10 DEF CheckVersion
  <2> HIDE DEF seen, none, start
  <2>8. QED
    BY <1>4, <2>1, <2>2, <2>5, <2>6, <2>7, NextPCs, LocalKeeps
<1>11. QED
  BY <1>6, <1>7, <1>8, <1>9, <1>10 DEF VersionCheck

\* The health check and the rollback.
LEMMA DriveHealthCheckKeeps == ASSUME IInv, DriveHealthCheck PROVE IInv'
<1> USE DEF IInv
<1>1. mstatus \in StatusType /\ OnError \in PCs /\ "final" \in PCs /\ "rolledBack" \in PCs
  BY DEF TypeOK, OnError, PCs
<1>2. ASSUME pc = "drive"
      PROVE  Coherent(mstatus) /\ mstatus.pending # NoVersion
  BY <1>2 DEF PcOK, Working
<1>3. CASE HealthCheckWithoutSts
  BY <1>1, <1>2, <1>3, NextPCs, LocalKeeps DEF HealthCheckWithoutSts, Checking
<1>4. CASE HealthCheckReadFails
  BY <1>1, <1>2, <1>4, NextPCs, FaultBounded, WorkStepKeeps
     DEF HealthCheckReadFails, Checking, TypeOK, workVars
<1>5. ASSUME NEW st \in StatusType, Coherent(st), StatusUpdate(st, "final", OnError)
      PROVE  IInv'
  BY <1>1, <1>5, NextPCs, StatusUpdateKeeps
<1>6. CASE HealthCheckPasses
  <2> DEFINE st == [Cleared(mstatus) EXCEPT !.current = mstatus.pending, !.rollbacks = 0,
                                            !.phase = "Running"]
  <2>1. st \in StatusType /\ Coherent(st)
    BY ZenonT(60), <1>1 DEF Cleared, StatusType, Coherent, Phases, UpdatePhases, MaybeVersions, Tags
  <2> HIDE DEF st
  <2>2. QED
    BY <1>5, <1>6, <2>1 DEF HealthCheckPasses, st
<1>7. CASE HealthCheckWaits
  <2> DEFINE st == [mstatus EXCEPT !.lastUpdate = "fresh"]
  <2>1. st \in StatusType /\ Coherent(st)
    BY <1>1, <1>2, <1>7 DEF HealthCheckWaits, Checking, StatusType, Coherent, Ages
  <2> HIDE DEF st
  <2>2. QED
    BY <1>1, <1>7, <2>1, NextPCs, LocalKeeps DEF HealthCheckWaits, st
<1>8. CASE HealthCheckTimesOut
  <2> DEFINE st == [mstatus EXCEPT !.updatePhase = "RollingBack", !.phase = "Updating"]
  <2>1. st \in StatusType /\ Coherent(st)
    BY <1>1, <1>2, <1>8
       DEF HealthCheckTimesOut, Checking, StatusType, Coherent, Phases, UpdatePhases
  <2> HIDE DEF st
  <2>2. QED
    BY <1>5, <1>8, <2>1 DEF HealthCheckTimesOut, st
<1>9. CASE RollbackPatch
  <2>1. /\ mstatus.previous \in Tags /\ Coherent(mstatus)
        /\ target' \in Tags \cup {NoVersion}
    BY <1>1, <1>2, <1>9 DEF RollbackPatch, RollingBack, StatusType
  <2>2. \A d : PcOK("rolledBack", d, status)
    BY DEF PcOK, Working
  <2>3. CASE PatchTag(mstatus.previous, mstatus, "rolledBack")
    BY <1>1, <2>1, <2>2, <2>3, PatchTagKeeps
  <2>4. CASE PatchTagFails(mstatus.previous, mstatus, OnError)
    BY <1>1, <2>1, <2>4, NextPCs, PatchTagFailsKeeps
  <2>5. QED
    BY <1>9, <2>3, <2>4 DEF RollbackPatch
<1>10. CASE RollbackStatus
  <2> DEFINE st == [Cleared(mstatus) EXCEPT !.failed = mstatus.pending,
                                            !.rollbacks = mstatus.rollbacks + 1,
                                            !.current = target, !.phase = "Provisioning"]
  <2>1. target \in Tags \cup {NoVersion} /\ mstatus.rollbacks + 1 \in Nat
    <3>1. target \in Tags \cup {NoVersion}
      BY DEF TypeOK
    <3>2. mstatus.rollbacks \in Nat
      BY <1>1 DEF StatusType
    <3>3. QED
      BY <3>1, <3>2
  <2>2. Cleared(mstatus) \in StatusType
    BY <1>1 DEF Cleared, StatusType, UpdatePhases, MaybeVersions
  <2>3. st \in StatusType
    <3>1. \A c \in StatusType, f \in MaybeVersions, n \in Nat,
             t \in Tags \cup {NoVersion} :
            [c EXCEPT !.failed = f, !.rollbacks = n, !.current = t, !.phase = "Provisioning"]
              \in StatusType
      BY ZenonT(60) DEF StatusType, Phases
    <3>2. mstatus.pending \in MaybeVersions
      BY <1>1 DEF StatusType
    <3>3. QED
      BY <2>1, <2>2, <3>1, <3>2
  <2>4. Coherent(st)
    BY <1>1 DEF Cleared, StatusType, Coherent
  <2> HIDE DEF st
  <2>5. QED
    BY <1>5, <1>10, <2>3, <2>4 DEF RollbackStatus, st
<1>11. QED
  BY <1>3, <1>4, <1>6, <1>7, <1>8, <1>9, <1>10 DEF DriveHealthCheck
\* The update state machine up to the health check.
LEMMA DriveUpdateKeeps == ASSUME IInv, DriveUpdate PROVE IInv'
<1> USE DEF IInv
<1>1. mstatus \in StatusType /\ OnError \in PCs
  BY DEF TypeOK, OnError, PCs
<1>2. {"final", "apply", "backingUp", "abort", "patchTag", "scaleUp", "enterHealthCheck",
       "abortScale"} \subseteq PCs \ {"idle"}
  BY DEF PCs
<1>3. ASSUME pc = "drive" \/ pc = "backingUp" \/ pc = "apply" \/ pc = "abort"
                \/ pc = "patchTag" \/ pc = "scaleUp" \/ pc = "enterHealthCheck"
      PROVE  /\ Coherent(mstatus) /\ mstatus.pending # NoVersion
             /\ \A p \in {"final", "apply", "backingUp", "abort", "abortScale"} :
                   PcOK(p, mstatus, status)
  BY <1>3 DEF PcOK, Working
<1>4. ASSUME NEW st \in StatusType, Coherent(st), StatusUpdate(st, "final", OnError)
      PROVE  IInv'
  BY <1>1, <1>2, <1>4, NextPCs, StatusUpdateKeeps
<1>5. ASSUME NEW next \in {"final", "apply", "backingUp", "abort"}, pc = "drive",
             Local(mstatus, next)
      PROVE  IInv'
  BY <1>1, <1>2, <1>3, <1>5, LocalKeeps
<1>6. CASE SetUpdating
  <2> DEFINE st == [mstatus EXCEPT !.phase = "Updating"]
  <2>1. st \in StatusType /\ Coherent(st)
    BY <1>1, <1>3, <1>6 DEF SetUpdating, Driving, StatusType, Phases, Coherent
  <2> HIDE DEF st
  <2>2. QED
    BY <1>4, <1>6, <2>1 DEF SetUpdating, st
<1>7. CASE SkipBackup \/ BackupWithoutSts \/ BackupWaitForPod \/ BackupWithoutCreds
             \/ BackupWaitForJob \/ BackupJobFailed
  BY <1>5, <1>7
     DEF SkipBackup, BackupWithoutSts, BackupWaitForPod, BackupWithoutCreds,
         BackupWaitForJob, BackupJobFailed, Drained, Stopped, BackingUp, Driving
<1>8. CASE BackupCallFails
  BY <1>2, <1>3, <1>8, FaultBounded, WorkStepKeeps
     DEF BackupCallFails, BackingUp, Driving, TypeOK, workVars
<1>9. CASE BackupScaleDown
  <2>1. sts' \in [exists : BOOLEAN, replicas : {0, 1}, image : Tags]
    BY <1>9 DEF BackupScaleDown, TypeOK
  <2>2. QED
    BY <1>2, <1>3, <1>9, <2>1, WorkStepKeeps
       DEF BackupScaleDown, BackingUp, Driving, TypeOK
<1>10. CASE BackupCreateJob
  <2>1. job' \in JobStates
    BY <1>10 DEF BackupCreateJob, JobStates
  <2>2. QED
    BY <1>2, <1>3, <1>10, <2>1, WorkStepKeeps
       DEF BackupCreateJob, Drained, Stopped, BackingUp, Driving, TypeOK
<1>11. CASE BackupDone
  <2> DEFINE st == [mstatus EXCEPT !.backupPath = lastPreUpdateBackupPath]
  <2>1. pc = "drive" /\ Local(st, "apply")
    BY <1>11 DEF BackupDone, Drained, Stopped, BackingUp, Driving
  <2>2. st \in StatusType /\ Coherent(st) /\ st.pending # NoVersion
    BY <1>1, <1>3, <2>1, PathNeverFound DEF StatusType, Coherent
  <2> HIDE DEF st
  <2>3. PcOK("apply", st, status)
    BY <2>2 DEF PcOK, Working
  <2>4. QED
    BY <1>2, <2>1, <2>2, <2>3, LocalKeeps
<1>12. CASE SaveBackingUp
  <2> DEFINE st == [mstatus EXCEPT !.updatePhase = "BackingUp"]
  <2>1. st \in StatusType /\ Coherent(st)
    BY <1>1, <1>3, <1>12 DEF SaveBackingUp, StatusType, UpdatePhases, Coherent
  <2> HIDE DEF st
  <2>2. QED
    BY <1>4, <1>12, <2>1 DEF SaveBackingUp, st
<1>13. CASE Apply
  <2> DEFINE st == [mstatus EXCEPT !.previous = mspec.tag, !.updatePhase = "ApplyingUpdate"]
  <2>1. mspec.tag \in Tags /\ mspec.tag # NoVersion
    BY ConstantsAssumption DEF TypeOK, SpecType, Tags, Versions
  <2>2. st \in StatusType /\ Coherent(st) /\ st.pending # NoVersion /\ st.previous # NoVersion
    BY <1>1, <1>3, <1>13, <2>1 DEF Apply, StatusType, UpdatePhases, Coherent
  <2> HIDE DEF st
  <2>3. PcOK("patchTag", st, st)
    BY <2>2 DEF PcOK
  <2>4. QED
    BY <1>1, <1>2, <1>13, <2>2, <2>3, NextPCs, StatusUpdateKeeps DEF Apply, st
<1>14. CASE ApplyPatch
  <2>1. mstatus = status /\ mstatus.previous # NoVersion /\ mstatus.pending # NoVersion
    BY <1>14 DEF ApplyPatch, PcOK, Working
  <2>2. mstatus.pending \in Tags /\ target' \in Tags \cup {NoVersion}
    BY <1>1, <1>14, <2>1 DEF ApplyPatch, TypeOK, StatusType, MaybeVersions, Tags
  <2>3. CASE PatchTag(mstatus.pending, mstatus, "scaleUp")
    <3>1. DecodeStatus(mstatus, status) = mstatus
      BY <1>1, <2>1, DecodeSame
    <3>2. PcOK("scaleUp", mstatus, status)
      BY <1>3, <1>14, <2>1 DEF ApplyPatch, PcOK
    <3>3. QED
      BY <1>1, <1>2, <2>2, <2>3, <3>1, <3>2, PatchTagKeeps
  <2>4. CASE PatchTagFails(mstatus.pending, mstatus, "abort")
    BY <1>1, <1>2, <1>3, <1>14, <2>2, <2>4, PatchTagFailsKeeps DEF ApplyPatch
  <2>5. QED
    BY <1>14, <2>3, <2>4 DEF ApplyPatch
<1>15. ASSUME pc = "scaleUp"
       PROVE  PcOK("enterHealthCheck", mstatus, status) /\ PcOK("abort", mstatus, status)
  BY <1>15 DEF PcOK, Working
<1>16. CASE ApplyScaleUp
  <2>1. sts' \in [exists : BOOLEAN, replicas : {0, 1}, image : Tags]
    BY <1>16 DEF ApplyScaleUp, TypeOK
  <2>2. QED
    BY <1>2, <1>15, <1>16, <2>1, WorkStepKeeps DEF ApplyScaleUp, TypeOK
<1>17. CASE ApplyScaleUpFails
  BY <1>2, <1>15, <1>17, FaultBounded, WorkStepKeeps DEF ApplyScaleUpFails, TypeOK, workVars
<1>18. CASE EnterHealthCheck
  <2> DEFINE st == [mstatus EXCEPT !.updatePhase = "HealthCheck", !.lastUpdate = "fresh",
                                   !.phase = "Provisioning"]
             done == [Cleared(mstatus) EXCEPT !.current = mstatus.pending,
                        !.lastUpdate = "fresh", !.rollbacks = 0, !.phase = "Provisioning"]
  <2>1. Coherent(mstatus) /\ mstatus.pending # NoVersion /\ mstatus.previous # NoVersion
    BY <1>18 DEF EnterHealthCheck, PcOK, Working
  <2>2. st \in StatusType /\ Coherent(st)
    BY <1>1, <2>1 DEF StatusType, UpdatePhases, Phases, Ages, Coherent
  <2>3. done \in StatusType /\ Coherent(done)
    <3>1. Cleared(mstatus) \in StatusType
      BY <1>1 DEF Cleared, StatusType, UpdatePhases, MaybeVersions
    <3>2. mstatus.pending \in Tags \cup {NoVersion}
      BY <1>1 DEF StatusType, MaybeVersions, Tags
    <3>3. done \in StatusType
      BY <3>1, <3>2 DEF StatusType, Phases, Ages
    <3>4. Coherent(done)
      BY <1>1 DEF Cleared, StatusType, Coherent
    <3>5. QED
      BY <3>3, <3>4
  <2>4. StatusUpdate(st, "final", OnError) \/ StatusUpdate(done, "final", OnError)
    BY <1>18 DEF EnterHealthCheck
  <2> HIDE DEF st, done
  <2>5. QED
    BY <1>4, <2>2, <2>3, <2>4
<1>19. CASE Abort
  <2> DEFINE st == [mstatus EXCEPT !.pending = NoVersion, !.updatePhase = "",
                                   !.phase = "Running", !.available = FALSE]
  <2>1. st \in StatusType /\ Coherent(st)
    BY <1>1, <1>3, <1>19
       DEF Abort, StatusType, UpdatePhases, Phases, MaybeVersions, Coherent
  <2> HIDE DEF st
  <2>2. PcOK("abortScale", st, st)
    BY <2>1 DEF PcOK, Working
  <2>3. QED
    BY <1>1, <1>2, <1>19, <2>1, <2>2, NextPCs, StatusUpdateKeeps DEF Abort, st
<1>20. ASSUME pc = "abortScale" PROVE PcOK("final", mstatus, status)
  BY <1>20 DEF PcOK, Working
<1>21. CASE AbortScaleUp
  <2>1. sts' \in [exists : BOOLEAN, replicas : {0, 1}, image : Tags]
    BY <1>21 DEF AbortScaleUp, TypeOK
  <2>2. QED
    BY <1>2, <1>20, <1>21, <2>1, WorkStepKeeps DEF AbortScaleUp, TypeOK
<1>22. CASE AbortScaleUpFails
  BY <1>2, <1>20, <1>22, FaultBounded, WorkStepKeeps DEF AbortScaleUpFails, TypeOK, workVars
<1>23. QED
  BY <1>6, <1>7, <1>8, <1>9, <1>10, <1>11, <1>12, <1>13, <1>14, <1>16, <1>17, <1>18, <1>19,
     <1>21, <1>22 DEF DriveUpdate

\* The user, the cluster's controllers, the clock and crashes.
LEMMA EnvironmentKeeps == ASSUME IInv, Crash \/ User \/ Cluster PROVE IInv'
<1> USE DEF IInv
<1>1. CASE Crash
  BY <1>1, EmptyCopy, IdleOK, FaultBounded
     DEF Crash, Keep, TypeOK, PCs, apiVars, cacheVars, passVars, workVars, envVars
<1>2. CASE CacheSync
  BY <1>2 DEF CacheSync, TypeOK, apiVars, memVars, passVars, workVars, envVars
<1>3. ASSUME NEW k \in EditKinds, Edit(k) PROVE edits' \in 0 .. MaxEdits
  BY <1>3, ConstantsAssumption DEF Edit, TypeOK
<1>4. ASSUME NEW new \in SpecType, EditSpec(new), edits' \in 0 .. MaxEdits PROVE IInv'
  BY <1>4, ConstantsAssumption DEF EditSpec, TypeOK, passVars, workVars
<1>5. CASE UserSuspends
  BY <1>3, <1>4, <1>5 DEF UserSuspends, EditKinds, TypeOK, SpecType
<1>6. CASE UserTogglesAutoUpdate
  BY <1>3, <1>4, <1>6 DEF UserTogglesAutoUpdate, EditKinds, TypeOK, SpecType
<1>7. CASE UserEditsTag
  <2>1. PICK t \in UserTags : EditSpec([spec EXCEPT !.tag = t])
    BY <1>7 DEF UserEditsTag
  <2>2. [spec EXCEPT !.tag = t] \in SpecType
    BY ConstantsAssumption DEF TypeOK, SpecType
  <2>3. QED
    BY <1>3, <1>4, <1>7, <2>1, <2>2 DEF UserEditsTag, EditKinds
<1>8. CASE UserEditsOtherField
  BY <1>3, <1>4, <1>8 DEF UserEditsOtherField, EditKinds, TypeOK
<1>9. CASE UserDeletesSts
  BY <1>3, <1>9
     DEF UserDeletesSts, EditKinds, TypeOK, apiVars, cacheVars, memVars, passVars
<1>10. CASE UserChangesCreds
  BY <1>3, <1>10
     DEF UserChangesCreds, EditKinds, TypeOK, apiVars, cacheVars, memVars, passVars, workVars
<1>11. CASE Publish
  BY <1>11, ConstantsAssumption
     DEF Publish, TypeOK, Versions, apiVars, cacheVars, memVars, passVars, workVars
<1>12. ASSUME NEW c \in BOOLEAN, NEW u \in BOOLEAN, Age(c, u) PROVE IInv'
  <2>1. TypeOK'
    BY <1>12, AgedKeeps DEF Age, TypeOK, passVars, workVars, envVars
  <2>2. Coherent(status') /\ Coherent(cstatus')
    BY <1>12, AgedKeeps DEF Age, TypeOK
  <2>3. PcOK(pc', mstatus', status')
    <3>1. pc' = pc /\ mstatus' = Aged(mstatus, c, u) /\ status' = Aged(status, c, u)
      BY <1>12 DEF Age
    <3>2. /\ mstatus'.pending = mstatus.pending /\ mstatus'.previous = mstatus.previous
          /\ Coherent(mstatus) => Coherent(mstatus')
      BY <3>1, AgedKeeps DEF TypeOK
    <3>3. mstatus = status => mstatus' = status'
      BY <3>1
    <3>4. PcOK(pc, mstatus, status)
      BY DEF IInv
    <3> QED
      BY <3>1, <3>2, <3>3, <3>4 DEF PcOK
  <2>4. QED
    BY <2>1, <2>2, <2>3
<1>13. CASE CheckIntervalPasses \/ HealthCheckTimeoutPasses
  BY <1>12, <1>13 DEF CheckIntervalPasses, HealthCheckTimeoutPasses
<1>14. ASSUME ClusterStep, faults' \in 0 .. MaxFaults,
              pod' \in [image : Tags \cup {NoVersion}, ready : BOOLEAN],
              job' \in JobStates
       PROVE  IInv'
  BY <1>14 DEF ClusterStep, TypeOK, apiVars, cacheVars, memVars, passVars, envVars
<1>15. CASE PodStarts \/ PodBecomesReady \/ PodStops \/ PodFails
  <2>1. pod' \in [image : Tags \cup {NoVersion}, ready : BOOLEAN]
    <3>1. CASE PodStarts
      BY <3>1 DEF PodStarts, TypeOK
    <3>2. CASE PodBecomesReady
      BY <3>2 DEF PodBecomesReady, TypeOK
    <3>3. CASE PodStops
      BY <3>3 DEF PodStops
    <3>4. CASE PodFails
      BY <3>4 DEF PodFails, TypeOK
    <3>5. QED
      BY <1>15, <3>1, <3>2, <3>3, <3>4
  <2>2. faults' \in 0 .. MaxFaults
    BY <1>15, FaultBounded DEF PodStarts, PodBecomesReady, PodStops, PodFails, TypeOK
  <2>3. ClusterStep /\ job' = job
    BY <1>15 DEF PodStarts, PodBecomesReady, PodStops, PodFails
  <2>4. QED
    BY <1>14, <2>1, <2>2, <2>3 DEF TypeOK
<1>16. CASE JobEnds \/ JobExpires
  BY <1>14, <1>16, FaultBounded DEF JobEnds, JobExpires, TypeOK, JobStates
<1>17. CASE UserTogglesRollback
  BY <1>3, <1>4, <1>17 DEF UserTogglesRollback, EditKinds, TypeOK, SpecType
<1>18. QED
  BY <1>1, <1>2, <1>5, <1>6, <1>7, <1>8, <1>17, <1>9, <1>10, <1>11, <1>13, <1>15, <1>16
     DEF User, Cluster

-----------------------------------------------------------------------------
(* The theorems *)

\* The invariant holds initially ...
LEMMA InitIInv == Init => IInv
<1> SUFFICES ASSUME Init PROVE IInv
  OBVIOUS
<1>1. spec \in SpecType
  BY ConstantsAssumption DEF Init, SpecType
<1>2. TypeOK
  <2>1. /\ Latest \in Tags /\ NoVersion \in Tags \cup {NoVersion}
        /\ NoVersion \in MaybeVersions /\ 1 \in Versions /\ "idle" \in PCs
        /\ 0 \in 0 .. MaxFaults /\ 0 \in 0 .. MaxEdits
    BY ConstantsAssumption DEF Tags, MaybeVersions, Versions, PCs
  <2>2. QED
    BY <1>1, <2>1, EmptyCopy DEF Init, TypeOK, JobStates
<1>3. PcOK(pc, mstatus, status)
  BY <1>2, IdleOK DEF Init, TypeOK
<1>4. QED
  BY <1>2, <1>3, EmptyCopy DEF Init, IInv

\* ... and is preserved by every step.
LEMMA NextIInv == IInv /\ [Next]_vars => IInv'
<1> SUFFICES ASSUME IInv, [Next]_vars PROVE IInv'
  OBVIOUS
<1>1. CASE Next
  BY <1>1, ReconcileKeeps, VersionCheckKeeps, DriveUpdateKeeps, DriveHealthCheckKeeps,
     EnvironmentKeeps DEF Next, Operator
<1>2. CASE UNCHANGED vars
  BY <1>2 DEF IInv, TypeOK, vars, apiVars, cacheVars, memVars, passVars, workVars, envVars
<1>3. QED
  BY <1>1, <1>2

\* The inductive invariant is an invariant of the specification.
THEOREM Invariance == Spec => []IInv
BY InitIInv, NextIInv, PTL DEF Spec

\* Type correctness: every variable keeps its type, whatever the bounds are.
THEOREM TypeCorrect == Spec => []TypeOK
<1>1. IInv => TypeOK
  BY DEF IInv
<1>2. QED
  BY <1>1, Invariance, PTL

\* The circuit breaker: for every threshold, any number of crashes, conflicts,
\* stale reads and edits, no update is in progress once it is open.
THEOREM CircuitBreaker == Spec => []BreakerHolds
<1>1. IInv => BreakerHolds
  BY DEF IInv, Coherent, BreakerHolds, InProgress
<1>2. QED
  BY <1>1, Invariance, PTL

\* The AutoUpdateAvailable condition and the pending version never disagree.
THEOREM ConditionMatchesUpdate == Spec => []AvailableIffPending
<1>1. IInv => AvailableIffPending
  BY DEF IInv, Coherent, AvailableIffPending, InProgress
<1>2. QED
  BY <1>1, Invariance, PTL

\* A rollback always has a recorded version to revert to, so the error branch
\* of driveRollback is unreachable.
THEOREM RollbackHasTarget == Spec => []RollbackTargetKnown
<1>1. IInv => RollbackTargetKnown
  BY DEF IInv, Coherent, RollbackTargetKnown, InProgress
<1>2. QED
  BY <1>1, Invariance, PTL

-----------------------------------------------------------------------------
(* What a step may do to the update's record *)

\* The part of a status that says which update is in progress, which version
\* failed, and how many rollbacks there were.
SameUpdate(a, b) ==
  a.pending = b.pending /\ a.failed = b.failed /\ a.rollbacks = b.rollbacks

\* Where a pass is from reconcileResources on.
Late == {"resources", "check", "final", "failed"}

\* The status st that Status().Update sends from a pass at p with the copy m:
\* the same update, or the end of it by an abort, a confirmation or a rollback.
Sends(p, m, st) ==
  \/ p # "rolledBack" /\ SameUpdate(st, m)
  \/ /\ p = "abort"
     /\ st.pending = NoVersion /\ st.failed = m.failed /\ st.rollbacks = m.rollbacks
  \/ /\ p \in Working
     /\ st.pending = NoVersion /\ st.failed = m.failed /\ st.rollbacks = 0
  \/ /\ p = "rolledBack"
     /\ st.pending = NoVersion /\ st.failed = m.pending /\ st.rollbacks = m.rollbacks + 1

\* A step that writes the status, or tries to.
PassWrites ==
  \E st \in StatusType :
    /\ pc \notin {"idle", "resources", "check"} /\ Sends(pc, mstatus, st)
    /\ StoreStatus(st, pc') \/ RefuseStatus(st, pc')
    /\ pc' \notin {"rolledBack", "resolved"}
    /\ pc \in {"final", "failed", "resolved"} => pc' = "idle"
    /\ pc = "rolledBack" => pc' \in {"resources", "final"}
    /\ latest' = latest

\* A step that patches the tag.
PassPatches ==
  \E st \in StatusType, t \in Tags :
    /\ SameUpdate(st, mstatus) /\ PatchTag(t, st, pc')
    /\ <<pc, pc'>> \in {<<"resolve", "resolved">>, <<"check", "resolved">>,
                        <<"patchTag", "scaleUp">>, <<"drive", "rolledBack">>}

\* A step that stores nothing and keeps the update of the copy, or ends the pass.
PassKeeps ==
  /\ pc # "idle" /\ spec' = spec /\ status' = status /\ latest' = latest
  /\ UNCHANGED cacheVars
  /\ \/ pc' = "idle" /\ ~mcur'
     \/ /\ SameUpdate(mstatus', mstatus) /\ mcur' = mcur
        /\ pc' \notin {"rolledBack", "resolved"}
        /\ pc \notin {"final", "rolledBack", "resolved"}
        /\ pc \in Late /\ mstatus.pending = NoVersion => pc' \in Late

\* The step that starts an update.
PassStarts ==
  /\ pc = "check" /\ pc' = "final"
  /\ mstatus'.pending = latest /\ mstatus'.failed = FailedAfterCheck
  /\ mstatus'.rollbacks = mstatus.rollbacks
  /\ FailedAfterCheck # latest
  /\ UNCHANGED <<apiVars, cacheVars, mspec, mcur, latest>>

\* The cached status is the stored one when the cache is current.
CacheInv == CacheLags /\ ccur => cstatus = status

\* A step of the user or the cluster.
EnvironmentSteps ==
  /\ pc' = pc
  /\ SameUpdate(status', status) /\ SameUpdate(mstatus', mstatus)
  /\ SameUpdate(cstatus', cstatus) \/ SameUpdate(cstatus', status)
  /\ mcur' => mcur /\ spec' = spec
  /\ latest' >= latest
  /\ CacheInv => CacheInv'

StepShape ==
  Begin \/ PassWrites \/ PassPatches \/ PassKeeps \/ PassStarts \/ EnvironmentSteps

\* The versions on record in st are not newer than v.
AtMost(st, v) ==
  /\ st.pending # NoVersion => st.pending <= v
  /\ st.failed # NoVersion => st.failed <= v

\* Of every pass, however old the revision it began with.  No version on record, in
\* the cache or in a pass is newer than the registry's, than the stored update, or
\* than the update that a current copy is about to store; and up to the version
\* check a current copy has the stored update or none.
VersionInv ==
  /\ AtMost(status, latest) /\ AtMost(cstatus, latest)
  /\ pc # "idle" => AtMost(mstatus, latest)
  /\ status.pending # NoVersion =>
       /\ AtMost(status, status.pending) /\ AtMost(cstatus, status.pending)
       /\ pc \notin {"idle", "final"} => AtMost(mstatus, status.pending)
  /\ pc = "final" /\ mcur /\ mstatus.pending # NoVersion =>
       /\ AtMost(status, mstatus.pending) /\ AtMost(cstatus, mstatus.pending)
       /\ AtMost(mstatus, mstatus.pending)
  /\ pc \notin {"idle", "final", "rolledBack"} /\ mcur =>
       mstatus.pending \in {status.pending, NoVersion}
  /\ pc = "rolledBack" => mstatus.pending # NoVersion

\* Of a pass that began with the stored revision.  Up to the version check the copy
\* has the stored update or has ended it in memory, by a write that was refused;
\* after the check it may have started another one, which is not the one that is
\* stored as failed.
CopyInv ==
  ~stale =>
    /\ pc \notin {"idle", "final"} =>
         /\ mstatus.pending \in {status.pending, NoVersion}
         /\ \/ mstatus.failed = status.failed
            \/ status.pending # NoVersion /\ mstatus.failed = status.pending
    /\ pc = "final" /\ mstatus.pending \notin {status.pending, NoVersion} =>
         mstatus.pending # status.failed

\* An update that a current copy is about to store is not older than the stored tag.
ForwardInv ==
  pc = "final" /\ mcur /\ mstatus.pending \notin {status.pending, NoVersion}
    => (spec.tag \in Versions => mstatus.pending >= spec.tag)

\* Of a pass that began with the stored revision.  The copy counts one rollback more
\* than the stored status only after the write that ends the update failed, until
\* the pass ends.
CountInv ==
  pc \notin {"idle", "resolved"} /\ ~stale =>
    \/ mstatus.rollbacks <= status.rollbacks
    \/ /\ mstatus.rollbacks = status.rollbacks + 1 /\ pc \in Late
       /\ status.pending # NoVersion /\ mstatus.pending # status.pending
       /\ pc # "final" => mstatus.pending = NoVersion /\ mstatus.failed = status.pending

\* The stored tag is one that the registry has published.
TagPublished == spec.tag \in Versions => spec.tag <= latest

-----------------------------------------------------------------------------
(* Every step has one of these shapes *)

\* Status().Update is a write of the pass.
LEMMA WriteShape ==
  ASSUME NEW st \in StatusType, NEW ok, NEW err, StatusUpdate(st, ok, err),
         pc \notin {"idle", "resources", "check"}, Sends(pc, mstatus, st),
         ok \notin {"rolledBack", "resolved"}, err \notin {"rolledBack", "resolved"},
         pc \in {"final", "failed", "resolved"} => ok = "idle" /\ err = "idle",
         pc = "rolledBack" => ok \in {"resources", "final"} /\ err \in {"resources", "final"}
  PROVE  PassWrites
<1>1. pc' \in {ok, err} /\ latest' = latest
  BY DEF StatusUpdate, StoreStatus, RefuseStatus, envVars
<1>2. StoreStatus(st, pc') \/ RefuseStatus(st, pc')
  BY DEF StatusUpdate, StoreStatus, RefuseStatus
<1> QED
  BY <1>1, <1>2 DEF PassWrites

\* A branch without a write keeps the update.
LEMMA LocalShape ==
  ASSUME TypeOK, NEW st, NEW next, Local(st, next), SameUpdate(st, mstatus),
         pc \notin {"idle", "final", "rolledBack", "resolved"},
         next \notin {"idle", "rolledBack", "resolved"},
         pc \in Late /\ mstatus.pending = NoVersion => next \in Late
  PROVE  PassKeeps
<1>1. pc' = next /\ mspec' = mspec /\ mstatus' = st /\ mcur' = mcur
  BY DEF Local, Keep, TypeOK
<1> QED
  BY <1>1 DEF PassKeeps, Local, apiVars, envVars

\* So does a step on the StatefulSet or the Job.
LEMMA WorkShape ==
  ASSUME NEW next, WorkStep(next),
         pc \notin {"idle", "final", "rolledBack", "resolved"}, pc \notin Late,
         next \notin {"rolledBack", "resolved"}
  PROVE  PassKeeps
<1>1. SameUpdate(mstatus, mstatus)
  BY DEF SameUpdate
<1> QED
  BY <1>1 DEF PassKeeps, WorkStep, apiVars, memVars, envVars

\* So does a failed patch of the tag.
LEMMA PatchFailsShape ==
  ASSUME TypeOK, NEW t, NEW st, NEW err, PatchTagFails(t, st, err), SameUpdate(st, mstatus),
         pc \notin {"idle", "final", "rolledBack", "resolved"},
         err \notin {"rolledBack", "resolved"},
         pc \in Late => err \in Late
  PROVE  PassKeeps
<1>1. CASE err = "idle"
  BY <1>1 DEF PassKeeps, PatchTagFails, Keep, apiVars, envVars
<1>2. CASE err # "idle"
  <2>1. pc' = err /\ mstatus' = st /\ mcur' = mcur
    BY <1>2 DEF PatchTagFails, Keep, TypeOK
  <2> QED
    BY <2>1 DEF PassKeeps, PatchTagFails, apiVars, envVars
<1> QED
  BY <1>1, <1>2

\* Reconcile's own steps.
LEMMA ReconcileShape == ASSUME IInv, Reconcile PROVE StepShape
<1> USE DEF IInv
<1>1. mstatus \in StatusType /\ TypeOK
  BY DEF TypeOK
<1>2. CASE Begin
  BY <1>2 DEF StepShape
<1>3. CASE Provision
  <2> DEFINE st == [mstatus EXCEPT !.phase = "Provisioning"]
  <2>1. st \in StatusType /\ SameUpdate(st, mstatus)
    BY <1>1 DEF StatusType, Phases, SameUpdate
  <2>2. pc = "provision" /\ StatusUpdate(st, "resolve", "idle")
    BY <1>3 DEF Provision
  <2> HIDE DEF st
  <2> QED
    BY <2>1, <2>2, WriteShape DEF Sends, StepShape
<1>4. CASE ResolveInitialTag
  <2>1. SameUpdate(mstatus, mstatus) /\ pc = "resolve"
    BY <1>4 DEF SameUpdate, ResolveInitialTag
  <2>2. CASE PatchTag(latest, mstatus, "resolved")
    <3>1. latest \in Tags /\ pc' = "resolved"
      BY <2>2 DEF TypeOK, Tags, PatchTag
    <3> QED
      BY <1>1, <2>1, <2>2, <3>1 DEF PassPatches, StepShape
  <2>3. CASE PatchTagFails(latest, mstatus, "idle")
    BY <1>1, <2>1, <2>3, PatchFailsShape DEF Late, StepShape
  <2>4. CASE Local(mstatus, Dispatch(mspec, mstatus))
    <3>1. Dispatch(mspec, mstatus) \in {"drive", "resources"}
      BY DEF Dispatch
    <3> QED
      BY <1>1, <2>1, <2>4, <3>1, LocalShape DEF Late, StepShape
  <2> QED
    BY <1>4, <2>2, <2>3, <2>4 DEF ResolveInitialTag
<1>5. CASE ResolveInitialTagFails
  <2>1. SameUpdate(mstatus, mstatus) /\ pc = "resolve" /\ pc' \in {"drive", "resources"}
    BY <1>5 DEF SameUpdate, ResolveInitialTagFails, Dispatch
  <2> QED
    BY <1>5, <2>1
       DEF ResolveInitialTagFails, PassKeeps, StepShape, Late, apiVars, memVars, envVars
<1>6. CASE TagResolved
  <2> DEFINE st == [mstatus EXCEPT !.current = mspec.tag]
  <2>1. st \in StatusType /\ SameUpdate(st, mstatus)
    BY <1>1 DEF TypeOK, SpecType, StatusType, SameUpdate
  <2>2. pc = "resolved" /\ StatusUpdate(st, "idle", "idle")
    BY <1>6 DEF TagResolved
  <2> HIDE DEF st
  <2> QED
    BY <2>1, <2>2, WriteShape DEF Sends, StepShape
<1>7. CASE ReconcileResources
  <2> DEFINE ph == IF mspec.suspended THEN "Suspended"
                   ELSE IF pod.ready THEN "Running" ELSE "Provisioning"
             st == [mstatus EXCEPT !.phase = ph]
  <2>1. SameUpdate(st, mstatus)
    BY <1>1 DEF StatusType, SameUpdate
  <2>2. pc = "resources" /\ pc' \in {"final", "drive", "check"}
        /\ (mstatus.pending = NoVersion => pc' # "drive")
    BY <1>7 DEF ReconcileResources
  <2> HIDE DEF ph
  <2>3. mspec' = mspec /\ mcur' = mcur /\ mstatus' = st
    BY <1>1, <1>7, <2>2 DEF ReconcileResources, Keep, TypeOK, ph
  <2> HIDE DEF st
  <2>4. spec' = spec /\ status' = status /\ latest' = latest /\ UNCHANGED cacheVars
    BY <1>7 DEF ReconcileResources, apiVars, envVars
  <2> QED
    BY <2>1, <2>2, <2>3, <2>4 DEF PassKeeps, StepShape, Late
<1>8. CASE ResourcesConflict
  BY <1>8 DEF ResourcesConflict, PassKeeps, StepShape, Keep, apiVars, envVars
<1>9. CASE ResourcesFail
  <2> DEFINE st == [mstatus EXCEPT !.phase = "Failed"]
  <2>1. SameUpdate(st, mstatus)
    BY <1>1 DEF StatusType, SameUpdate
  <2>2. pc = "resources" /\ pc' = "failed" /\ mspec' = mspec /\ mcur' = mcur /\ mstatus' = st
    BY <1>1, <1>9 DEF ResourcesFail, Keep, TypeOK
  <2> HIDE DEF st
  <2> QED
    BY <1>9, <2>1, <2>2 DEF ResourcesFail, PassKeeps, StepShape, Late, apiVars, envVars
<1>10. CASE FinalStatus
  <2>1. SameUpdate(mstatus, mstatus)
    BY DEF SameUpdate
  <2> QED
    BY <1>1, <1>10, <2>1, WriteShape DEF FinalStatus, Sends, StepShape
<1> QED
  BY <1>2, <1>3, <1>4, <1>5, <1>6, <1>7, <1>8, <1>9, <1>10 DEF Reconcile

\* The version check.
LEMMA VersionCheckShape == ASSUME IInv, VersionCheck PROVE StepShape
<1> USE DEF IInv
<1>1. mstatus \in StatusType /\ TypeOK /\ SameUpdate(mstatus, mstatus)
  BY DEF TypeOK, SameUpdate
<1>2. pc = "check"
  BY DEF VersionCheck, CheckSkipped, CheckFails, CheckPinsLatest, CheckSkipsCustomTag,
         CheckVersion
<1>3. Checked \in StatusType /\ SameUpdate(Checked, mstatus)
  BY <1>1 DEF Checked, StatusType, Ages, SameUpdate
<1>4. CASE CheckSkipped
  BY <1>1, <1>2, <1>4, LocalShape DEF CheckSkipped, Late, StepShape
<1>5. CASE CheckFails
  <2>1. pc' = "final" /\ mspec' = mspec /\ mcur' = mcur /\ mstatus' = Checked
    BY <1>1, <1>5 DEF CheckFails, Keep, TypeOK
  <2> QED
    BY <1>2, <1>3, <1>5, <2>1 DEF CheckFails, PassKeeps, StepShape, Late, apiVars, envVars
<1>6. CASE CheckPinsLatest
  <2>1. latest \in Tags /\ mspec.tag = Latest
    BY <1>6 DEF CheckPinsLatest, TypeOK, Tags
  <2>2. CASE PatchTag(latest, Checked, "resolved")
    <3>1. pc' = "resolved"
      BY <2>2 DEF PatchTag
    <3> QED
      BY <1>2, <1>3, <2>1, <2>2, <3>1 DEF PassPatches, StepShape
  <2>3. CASE PatchTagFails(latest, Checked, "final")
    BY <1>1, <1>2, <1>3, <2>1, <2>3, PatchFailsShape DEF Late, StepShape
  <2> QED
    BY <1>6, <2>2, <2>3 DEF CheckPinsLatest
<1>7. CASE CheckSkipsCustomTag
  BY <1>1, <1>2, <1>3, <1>7, LocalShape DEF CheckSkipsCustomTag, Late, StepShape
<1>8. CASE CheckVersion
  <2> DEFINE seen == [Checked EXCEPT !.current = mspec.tag]
             none == [seen EXCEPT !.available = FALSE]
             new == [seen EXCEPT !.failed = FailedAfterCheck, !.pending = latest,
                                 !.updatePhase = "", !.available = TRUE]
  <2>1. SameUpdate(seen, mstatus) /\ SameUpdate(none, mstatus)
    BY <1>3 DEF StatusType, SameUpdate
  <2>2. /\ new.pending = latest /\ new.failed = FailedAfterCheck
        /\ new.rollbacks = mstatus.rollbacks
    BY <1>3 DEF StatusType, SameUpdate
  <2>3. \/ Local(none, "final") \/ Local(seen, "final")
        \/ Local(new, "final") /\ FailedAfterCheck # latest /\ CheckDue
    BY <1>8 DEF CheckVersion
  <2> HIDE DEF seen, none, new
  <2>4. CASE Local(none, "final") \/ Local(seen, "final")
    BY <1>1, <1>2, <2>1, <2>4, LocalShape DEF Late, StepShape
  <2>5. CASE Local(new, "final") /\ FailedAfterCheck # latest /\ CheckDue
    <3>1. pc' = "final" /\ mstatus' = new /\ mspec' = mspec /\ mcur' = mcur
      BY <1>1, <2>5 DEF Local, Keep, TypeOK
    <3> QED
      BY <1>2, <2>2, <2>5, <3>1 DEF PassStarts, StepShape, Local, envVars
  <2> QED
    BY <2>3, <2>4, <2>5
<1> QED
  BY <1>4, <1>5, <1>6, <1>7, <1>8 DEF VersionCheck

\* The update state machine up to the health check.
LEMMA DriveUpdateShape == ASSUME IInv, DriveUpdate PROVE StepShape
<1> USE DEF IInv
<1>1. mstatus \in StatusType /\ TypeOK /\ SameUpdate(mstatus, mstatus)
  BY DEF TypeOK, SameUpdate
<1>2. OnError \in {"resources", "final"}
  BY DEF OnError
<1>3. ASSUME pc \in Working PROVE Coherent(mstatus) /\ mstatus.pending # NoVersion
  BY <1>3 DEF PcOK, Working
<1>4. ASSUME NEW st \in StatusType, pc \in Working, Sends(pc, mstatus, st),
             NEW ok \in {"final", "patchTag", "abortScale"}, StatusUpdate(st, ok, OnError)
      PROVE  StepShape
  BY <1>2, <1>4, WriteShape DEF Working, StepShape
<1>5. ASSUME NEW st, SameUpdate(st, mstatus), pc = "drive",
             NEW next \in {"apply", "backingUp", "abort"}, Local(st, next)
      PROVE  StepShape
  BY <1>1, <1>5, LocalShape DEF Late, StepShape
<1>6. ASSUME pc \in Working \cup {"abortScale"},
             NEW next \in {"abort", "backingUp", "enterHealthCheck", "final"}, WorkStep(next)
      PROVE  StepShape
  BY <1>6, WorkShape DEF Working, Late, StepShape
<1>7. CASE SetUpdating
  <2> DEFINE st == [mstatus EXCEPT !.phase = "Updating"]
  <2>1. st \in StatusType /\ SameUpdate(st, mstatus)
    BY <1>1 DEF StatusType, Phases, SameUpdate
  <2>2. pc \in Working /\ StatusUpdate(st, "final", OnError)
    BY <1>7 DEF SetUpdating, Driving, Working
  <2> HIDE DEF st
  <2> QED
    BY <1>4, <2>1, <2>2 DEF Sends, Working
<1>8. CASE SkipBackup \/ BackupWithoutSts \/ BackupWaitForPod \/ BackupWithoutCreds
             \/ BackupWaitForJob \/ BackupJobFailed
  BY <1>1, <1>5, <1>8
     DEF SkipBackup, BackupWithoutSts, BackupWaitForPod, BackupWithoutCreds,
         BackupWaitForJob, BackupJobFailed, Drained, Stopped, BackingUp, Driving
<1>9. CASE BackupCallFails \/ BackupScaleDown \/ BackupCreateJob
  BY <1>6, <1>9
     DEF BackupCallFails, BackupScaleDown, BackupCreateJob, Drained, Stopped, BackingUp,
         Driving, Working
<1>10. CASE BackupDone
  <2> DEFINE st == [mstatus EXCEPT !.backupPath = lastPreUpdateBackupPath]
  <2>1. SameUpdate(st, mstatus)
    BY <1>1 DEF StatusType, SameUpdate
  <2>2. pc = "drive" /\ Local(st, "apply")
    BY <1>10 DEF BackupDone, Drained, Stopped, BackingUp, Driving
  <2> HIDE DEF st
  <2> QED
    BY <1>5, <2>1, <2>2
<1>11. CASE SaveBackingUp
  <2> DEFINE st == [mstatus EXCEPT !.updatePhase = "BackingUp"]
  <2>1. st \in StatusType /\ SameUpdate(st, mstatus)
    BY <1>1 DEF StatusType, UpdatePhases, SameUpdate
  <2>2. pc \in Working /\ StatusUpdate(st, "final", OnError)
    BY <1>11 DEF SaveBackingUp, Working
  <2> HIDE DEF st
  <2> QED
    BY <1>4, <2>1, <2>2 DEF Sends, Working
<1>12. CASE Apply
  <2> DEFINE st == [mstatus EXCEPT !.previous = mspec.tag, !.updatePhase = "ApplyingUpdate"]
  <2>1. mspec.tag \in Tags \cup {NoVersion}
    BY DEF TypeOK, SpecType
  <2>2. st \in StatusType /\ SameUpdate(st, mstatus)
    BY <1>1, <2>1 DEF StatusType, UpdatePhases, SameUpdate
  <2>3. pc \in Working /\ StatusUpdate(st, "patchTag", OnError)
    BY <1>12 DEF Apply, Working
  <2> HIDE DEF st
  <2> QED
    BY <1>4, <2>2, <2>3 DEF Sends, Working
<1>13. CASE ApplyPatch
  <2>1. pc = "patchTag"
    BY <1>13 DEF ApplyPatch
  <2>2. mstatus.pending \in Tags
    BY <1>1, <1>3, <2>1 DEF StatusType, MaybeVersions, Tags, Working
  <2>3. CASE PatchTag(mstatus.pending, mstatus, "scaleUp")
    <3>1. pc' = "scaleUp"
      BY <2>3 DEF PatchTag
    <3> QED
      BY <1>1, <2>1, <2>2, <2>3, <3>1 DEF PassPatches, StepShape
  <2>4. CASE PatchTagFails(mstatus.pending, mstatus, "abort")
    BY <1>1, <2>1, <2>4, PatchFailsShape DEF Late, StepShape
  <2> QED
    BY <1>13, <2>3, <2>4 DEF ApplyPatch
<1>14. CASE ApplyScaleUp \/ ApplyScaleUpFails
  BY <1>6, <1>14 DEF ApplyScaleUp, ApplyScaleUpFails, Working
<1>15. CASE EnterHealthCheck
  <2> DEFINE st == [mstatus EXCEPT !.updatePhase = "HealthCheck", !.lastUpdate = "fresh",
                                   !.phase = "Provisioning"]
             done == [Cleared(mstatus) EXCEPT !.current = mstatus.pending,
                        !.lastUpdate = "fresh", !.rollbacks = 0, !.phase = "Provisioning"]
  <2>1. pc \in Working
    BY <1>15 DEF EnterHealthCheck, Working
  <2>2. st \in StatusType /\ SameUpdate(st, mstatus)
    BY ZenonT(60), <1>1 DEF StatusType, UpdatePhases, Phases, Ages, SameUpdate
  <2>3. Cleared(mstatus) \in StatusType
    BY <1>1 DEF Cleared, StatusType, UpdatePhases, MaybeVersions
  <2>4. mstatus.pending \in Tags \cup {NoVersion}
    BY <1>1 DEF StatusType, MaybeVersions, Tags
  <2>5. done \in StatusType
    BY <2>3, <2>4 DEF StatusType, Phases, Ages
  <2>6. /\ done.pending = NoVersion /\ done.failed = mstatus.failed /\ done.rollbacks = 0
    BY <1>1 DEF Cleared, StatusType
  <2>7. StatusUpdate(st, "final", OnError) \/ StatusUpdate(done, "final", OnError)
    BY <1>15 DEF EnterHealthCheck
  <2> HIDE DEF st, done
  <2>8. Sends(pc, mstatus, st) /\ Sends(pc, mstatus, done)
    BY <1>3, <2>1, <2>2, <2>6 DEF Sends, Working
  <2> QED
    BY <1>4, <2>1, <2>2, <2>5, <2>7, <2>8
<1>16. CASE Abort
  <2> DEFINE st == [mstatus EXCEPT !.pending = NoVersion, !.updatePhase = "",
                                   !.phase = "Running", !.available = FALSE]
  <2>1. /\ st \in StatusType
        /\ st.pending = NoVersion /\ st.failed = mstatus.failed
        /\ st.rollbacks = mstatus.rollbacks
    BY <1>1 DEF StatusType, UpdatePhases, Phases, MaybeVersions
  <2>2. pc = "abort" /\ StatusUpdate(st, "abortScale", OnError)
    BY <1>16 DEF Abort
  <2> HIDE DEF st
  <2> QED
    BY <1>4, <2>1, <2>2 DEF Sends, Working
<1>17. CASE AbortScaleUp \/ AbortScaleUpFails
  BY <1>6, <1>17 DEF AbortScaleUp, AbortScaleUpFails
<1> QED
  BY <1>7, <1>8, <1>9, <1>10, <1>11, <1>12, <1>13, <1>14, <1>15, <1>16, <1>17 DEF DriveUpdate

\* The health check and the rollback.
LEMMA DriveHealthCheckShape == ASSUME IInv, DriveHealthCheck PROVE StepShape
<1> USE DEF IInv
<1>1. mstatus \in StatusType /\ TypeOK /\ SameUpdate(mstatus, mstatus)
  BY DEF TypeOK, SameUpdate
<1>2. OnError \in {"resources", "final"}
  BY DEF OnError
<1>3. ASSUME pc = "drive" PROVE Coherent(mstatus) /\ mstatus.pending # NoVersion
  BY <1>3 DEF PcOK, Working
<1>4. ASSUME NEW st \in StatusType, pc \in {"drive", "rolledBack"}, Sends(pc, mstatus, st),
             StatusUpdate(st, "final", OnError)
      PROVE  StepShape
  BY <1>2, <1>4, WriteShape DEF StepShape
<1>5. CASE HealthCheckWithoutSts
  BY <1>1, <1>5, LocalShape DEF HealthCheckWithoutSts, Checking, Late, StepShape
<1>6. CASE HealthCheckReadFails
  BY <1>2, <1>6, WorkShape DEF HealthCheckReadFails, Checking, Late, StepShape
<1>7. CASE HealthCheckPasses
  <2> DEFINE done == [Cleared(mstatus) EXCEPT !.current = mstatus.pending, !.rollbacks = 0,
                                              !.phase = "Running"]
  <2>1. Cleared(mstatus) \in StatusType
    BY <1>1 DEF Cleared, StatusType, UpdatePhases, MaybeVersions
  <2>2. mstatus.pending \in Tags \cup {NoVersion}
    BY <1>1 DEF StatusType, MaybeVersions, Tags
  <2>3. done \in StatusType
    BY <2>1, <2>2 DEF StatusType, Phases
  <2>4. done.pending = NoVersion /\ done.failed = mstatus.failed /\ done.rollbacks = 0
    BY <1>1 DEF Cleared, StatusType
  <2>5. pc = "drive" /\ StatusUpdate(done, "final", OnError)
    BY <1>7 DEF HealthCheckPasses, Checking
  <2> HIDE DEF done
  <2>6. Sends(pc, mstatus, done)
    BY <1>3, <2>4, <2>5 DEF Sends, Working, Coherent
  <2> QED
    BY <1>4, <2>3, <2>5, <2>6
<1>8. CASE HealthCheckWaits
  <2> DEFINE st == [mstatus EXCEPT !.lastUpdate = "fresh"]
  <2>1. SameUpdate(st, mstatus)
    BY <1>1 DEF StatusType, SameUpdate
  <2>2. pc = "drive" /\ Local(st, "final")
    BY <1>8 DEF HealthCheckWaits, Checking
  <2> HIDE DEF st
  <2> QED
    BY <1>1, <2>1, <2>2, LocalShape DEF Late, StepShape
<1>9. CASE HealthCheckTimesOut
  <2> DEFINE st == [mstatus EXCEPT !.updatePhase = "RollingBack", !.phase = "Updating"]
  <2>1. st \in StatusType /\ SameUpdate(st, mstatus)
    BY <1>1 DEF StatusType, UpdatePhases, Phases, SameUpdate
  <2>2. pc = "drive" /\ StatusUpdate(st, "final", OnError)
    BY <1>9 DEF HealthCheckTimesOut, Checking
  <2> HIDE DEF st
  <2> QED
    BY <1>4, <2>1, <2>2 DEF Sends
<1>10. CASE RollbackPatch
  <2>1. pc = "drive" /\ mstatus.previous \in Tags
    BY <1>1, <1>10 DEF RollbackPatch, RollingBack, StatusType
  <2>2. CASE PatchTag(mstatus.previous, mstatus, "rolledBack")
    <3>1. pc' = "rolledBack"
      BY <2>2 DEF PatchTag
    <3> QED
      BY <1>1, <2>1, <2>2, <3>1 DEF PassPatches, StepShape
  <2>3. CASE PatchTagFails(mstatus.previous, mstatus, OnError)
    BY <1>1, <1>2, <2>1, <2>3, PatchFailsShape DEF Late, StepShape
  <2> QED
    BY <1>10, <2>2, <2>3 DEF RollbackPatch
<1>11. CASE RollbackStatus
  <2> DEFINE n == mstatus.rollbacks + 1
             st == [Cleared(mstatus) EXCEPT !.failed = mstatus.pending, !.rollbacks = n,
                                            !.current = target, !.phase = "Provisioning"]
  <2>1. target \in Tags \cup {NoVersion} /\ mstatus.pending \in MaybeVersions
    BY <1>1 DEF TypeOK, StatusType
  <2>2. n \in Nat
    <3>1. mstatus.rollbacks \in Nat
      BY <1>1 DEF StatusType
    <3> QED
      BY <3>1
  <2>3. Cleared(mstatus) \in StatusType
    BY <1>1 DEF Cleared, StatusType, UpdatePhases, MaybeVersions
  <2>4. pc = "rolledBack" /\ StatusUpdate(st, "final", OnError)
    BY <1>11 DEF RollbackStatus
  <2> HIDE DEF n
  <2>5. st \in StatusType
    BY <2>1, <2>2, <2>3 DEF StatusType, Phases
  <2>6. st.pending = NoVersion /\ st.failed = mstatus.pending /\ st.rollbacks = n
    BY <1>1 DEF Cleared, StatusType
  <2> HIDE DEF st
  <2>7. Sends(pc, mstatus, st)
    BY <2>4, <2>6 DEF Sends, n
  <2> QED
    BY <1>4, <2>4, <2>5, <2>7
<1> QED
  BY <1>5, <1>6, <1>7, <1>8, <1>9, <1>10, <1>11 DEF DriveHealthCheck

\* The rest of the cluster.
LEMMA EnvironmentShape == ASSUME IInv, Crash \/ User \/ Cluster PROVE StepShape
<1> USE DEF IInv
<1>1. TypeOK /\ latest \in Int
  BY DEF TypeOK, Versions
<1>2. /\ SameUpdate(status, status) /\ SameUpdate(mstatus, mstatus)
      /\ SameUpdate(cstatus, cstatus)
  BY DEF SameUpdate
<1>3. CASE Crash
  BY <1>3 DEF Crash, PassKeeps, StepShape, Keep, apiVars, envVars
<1>4. ASSUME UNCHANGED <<apiVars, cacheVars, memVars, pc>>, latest' \in Int, latest' >= latest
      PROVE  StepShape
  BY <1>2, <1>4 DEF EnvironmentSteps, StepShape, CacheInv, apiVars, cacheVars, memVars
<1>5. CASE CacheSync
  BY <1>1, <1>2, <1>5
     DEF CacheSync, EnvironmentSteps, StepShape, CacheInv, apiVars, memVars, envVars
<1>6. ASSUME NEW new, EditSpec(new) PROVE StepShape
  <2>1. ~(CacheLags /\ ccur') /\ ~mcur'
    BY <1>6 DEF EditSpec
  <2>2. /\ latest' >= latest /\ pc' = pc
        /\ SameUpdate(status', status) /\ SameUpdate(mstatus', mstatus)
        /\ SameUpdate(cstatus', cstatus)
    BY <1>1, <1>2, <1>6 DEF EditSpec
  <2> QED
    BY <2>1, <2>2, Zenon DEF EnvironmentSteps, StepShape, CacheInv
<1>7. CASE UserSuspends \/ UserTogglesAutoUpdate \/ UserTogglesRollback \/ UserEditsTag
             \/ UserEditsOtherField
  BY <1>6, <1>7
     DEF UserSuspends, UserTogglesAutoUpdate, UserTogglesRollback, UserEditsTag,
         UserEditsOtherField
<1>8. CASE UserDeletesSts \/ UserChangesCreds
  BY <1>1, <1>4, <1>8 DEF UserDeletesSts, UserChangesCreds
<1>9. CASE Publish
  BY <1>1, <1>4, <1>9 DEF Publish
<1>10. ASSUME NEW c \in BOOLEAN, NEW u \in BOOLEAN, Age(c, u) PROVE StepShape
  <2>1. /\ SameUpdate(status', status) /\ SameUpdate(mstatus', mstatus)
        /\ SameUpdate(cstatus', cstatus)
    BY <1>1, <1>10 DEF Age, Aged, TypeOK, StatusType, SameUpdate
  <2>2. cstatus = status => cstatus' = status'
    BY <1>10 DEF Age
  <2> QED
    BY <1>1, <1>10, <2>1, <2>2 DEF Age, EnvironmentSteps, StepShape, CacheInv, envVars
<1>11. CASE CheckIntervalPasses \/ HealthCheckTimeoutPasses
  BY <1>10, <1>11 DEF CheckIntervalPasses, HealthCheckTimeoutPasses
<1>12. CASE PodStarts \/ PodBecomesReady \/ PodStops \/ PodFails \/ JobEnds \/ JobExpires
  BY <1>1, <1>4, <1>12
     DEF PodStarts, PodBecomesReady, PodStops, PodFails, JobEnds, JobExpires, ClusterStep,
         envVars
<1> QED
  BY <1>3, <1>5, <1>7, <1>8, <1>9, <1>11, <1>12 DEF User, Cluster

\* Every step of the specification has one of the shapes.
LEMMA NextShape == ASSUME IInv, Next PROVE StepShape
BY ReconcileShape, VersionCheckShape, DriveUpdateShape, DriveHealthCheckShape,
   EnvironmentShape DEF Next, Operator

-----------------------------------------------------------------------------
(* The action properties *)

\* What the steps of a pass do to the stored record: a step stores nothing, or
\* stores what Sends allows of a current copy.
LEMMA StoredRecord ==
  ASSUME IInv, Next
  PROVE  \/ SameUpdate(status', status)
         \/ /\ mcur /\ status' \in StatusType /\ Sends(pc, mstatus, status')
            /\ pc \notin {"idle", "resources", "check"}
            /\ spec' = spec
<1>1. SameUpdate(status, status)
  BY DEF SameUpdate
<1>2. CASE Begin \/ PassPatches \/ PassKeeps \/ PassStarts \/ EnvironmentSteps
  BY <1>1, <1>2
     DEF Begin, PassPatches, PatchTag, PassKeeps, PassStarts, EnvironmentSteps, apiVars
<1>3. CASE PassWrites
  BY <1>1, <1>3 DEF PassWrites, StoreStatus, RefuseStatus, apiVars
<1> QED
  BY <1>2, <1>3, NextShape DEF StepShape

\* Only the beginning of a pass sets what the history says of it.
LEMMA StaleKept == Next => Begin \/ stale' = stale
<1>1. Reconcile => Begin \/ stale' = stale
  BY DEF Reconcile, Provision, ResolveInitialTag, ResolveInitialTagFails, TagResolved,
         ReconcileResources, ResourcesConflict, ResourcesFail, FinalStatus, StatusUpdate,
         PatchTag, PatchTagFails, Local, passVars
<1>2. VersionCheck => stale' = stale
  BY DEF VersionCheck, CheckSkipped, CheckFails, CheckPinsLatest, CheckSkipsCustomTag,
         CheckVersion, PatchTag, PatchTagFails, Local, passVars
<1>3. DriveUpdate => stale' = stale
  BY DEF DriveUpdate, SetUpdating, SkipBackup, BackupWithoutSts, BackupCallFails,
         BackupScaleDown, BackupWaitForPod, BackupWithoutCreds, BackupCreateJob,
         BackupWaitForJob, BackupJobFailed, BackupDone, SaveBackingUp, Apply, ApplyPatch,
         ApplyScaleUp, ApplyScaleUpFails, EnterHealthCheck, Abort, AbortScaleUp,
         AbortScaleUpFails, StatusUpdate, PatchTag, PatchTagFails, Local, WorkStep, passVars
<1>4. DriveHealthCheck => stale' = stale
  BY DEF DriveHealthCheck, HealthCheckWithoutSts, HealthCheckReadFails, HealthCheckPasses,
         HealthCheckWaits, HealthCheckTimesOut, RollbackPatch, RollbackStatus, StatusUpdate,
         PatchTag, PatchTagFails, Local, WorkStep, passVars
<1>5. Crash \/ User \/ Cluster => stale' = stale
  BY DEF Crash, User, UserSuspends, UserTogglesAutoUpdate, UserTogglesRollback,
         UserEditsTag, UserEditsOtherField, UserDeletesSts, UserChangesCreds, EditSpec,
         Cluster, CacheSync, Publish, CheckIntervalPasses, HealthCheckTimeoutPasses, Age,
         PodStarts, PodBecomesReady, PodStops, PodFails, JobEnds, JobExpires, ClusterStep,
         passVars
<1> QED
  BY <1>1, <1>2, <1>3, <1>4, <1>5 DEF Next, Operator

\* The pass begins with the stored status or the cached one, and knows which.
LEMMA BeginCopies ==
  ASSUME CacheInv, Begin
  PROVE  /\ pc' \notin {"idle", "final", "rolledBack"}
         /\ status' = status /\ cstatus' = cstatus /\ latest' = latest
         /\ mstatus' \in {status, cstatus}
         /\ mcur' \/ ~stale' => mstatus' = status
<1>1. CacheLags \in BOOLEAN
  BY ConstantsAssumption
<1>2. /\ pc' \notin {"idle", "final", "rolledBack"}
      /\ status' = status /\ cstatus' = cstatus /\ latest' = latest
  BY DEF Begin, Dispatch, apiVars, cacheVars, envVars
<1>3. /\ mstatus' = IF CacheLags THEN cstatus ELSE status
      /\ mcur' => IF CacheLags THEN ccur ELSE TRUE
      /\ stale' = ~(IF CacheLags THEN ccur ELSE TRUE)
  BY <1>2 DEF Begin, Keep
<1> QED
  BY <1>1, <1>2, <1>3 DEF CacheInv

\* What decoding the stored status over a copy leaves of the two records.
LEMMA DecodedRecord ==
  ASSUME NEW a, NEW b
  PROVE  /\ DecodeStatus(a, b).pending = IF b.pending = NoVersion THEN a.pending ELSE b.pending
         /\ DecodeStatus(a, b).failed = IF b.failed = NoVersion THEN a.failed ELSE b.failed
         /\ DecodeStatus(a, b).rollbacks = IF b.rollbacks = 0 THEN a.rollbacks ELSE b.rollbacks
BY DEF DecodeStatus

\* A pass has not begun, and no version is pending or failed.
LEMMA InitCopies == Init => CacheInv /\ VersionInv /\ CopyInv /\ ForwardInv /\ CountInv
<1>1. Init => status = NoStatus /\ cstatus = NoStatus /\ pc = "idle"
  BY DEF Init
<1>2. NoStatus.pending = NoVersion /\ NoStatus.failed = NoVersion
  BY DEF NoStatus
<1> QED
  BY <1>1, <1>2 DEF CacheInv, VersionInv, AtMost, CopyInv, ForwardInv, CountInv

\* The informer's copy is the stored one when it is said to be.
LEMMA CacheInvNext == ASSUME IInv, CacheInv, [Next]_vars PROVE CacheInv'
<1>1. CASE Begin
  BY <1>1 DEF Begin, CacheInv, apiVars, cacheVars
<1>2. CASE PassWrites
  BY <1>2 DEF PassWrites, StoreStatus, RefuseStatus, CacheInv, apiVars, cacheVars
<1>3. CASE PassPatches
  BY <1>3 DEF PassPatches, PatchTag, CacheInv
<1>4. CASE PassKeeps
  BY <1>4 DEF PassKeeps, CacheInv, cacheVars
<1>5. CASE PassStarts
  BY <1>5 DEF PassStarts, CacheInv, apiVars, cacheVars
<1>6. CASE EnvironmentSteps
  BY <1>6 DEF EnvironmentSteps
<1>7. CASE UNCHANGED vars
  BY <1>7 DEF vars, apiVars, cacheVars, CacheInv
<1> QED
  BY <1>1, <1>2, <1>3, <1>4, <1>5, <1>6, <1>7, NextShape DEF StepShape

\* What starting an update says of the version that failed before.
LEMMA FailedIsOlder ==
  ASSUME IInv, FailedAfterCheck # latest
  PROVE  /\ mstatus.failed # latest
         /\ mstatus.failed # NoVersion /\ mstatus.failed <= latest
              => FailedAfterCheck = NoVersion
<1>1. latest \in Int /\ NoVersion \notin Int
  BY ConstantsAssumption DEF IInv, TypeOK, Versions
<1>2. mstatus.failed \in MaybeVersions
  BY DEF IInv, TypeOK, StatusType
<1>3. mstatus.failed # NoVersion => mstatus.failed \in Int
  BY <1>2, ConstantsAssumption DEF MaybeVersions, Versions
<1> QED
  BY <1>1, <1>3 DEF FailedAfterCheck

\* The versions on record stay in order, through any number of stale passes.
LEMMA VersionInvNext == ASSUME IInv, CacheInv, VersionInv, [Next]_vars PROVE VersionInv'
<1>1. /\ status \in StatusType /\ mstatus \in StatusType /\ cstatus \in StatusType
      /\ latest \in Versions /\ Versions \subseteq Int /\ NoVersion \notin Versions
  BY ConstantsAssumption DEF IInv, TypeOK, Versions
<1>2. \A st \in StatusType : /\ st.pending \in Versions \cup {NoVersion}
                             /\ st.failed \in Versions \cup {NoVersion}
  BY DEF StatusType, MaybeVersions
<1>3. CASE Begin
  <2>1. /\ pc' \notin {"idle", "final", "rolledBack"}
        /\ status' = status /\ cstatus' = cstatus /\ latest' = latest
        /\ mstatus' \in {status, cstatus} /\ (mcur' => mstatus' = status)
    BY <1>3, BeginCopies
  <2> QED
    BY <2>1 DEF VersionInv, AtMost
<1>4. CASE PassWrites
  <2>1. PICK st \in StatusType :
          /\ Sends(pc, mstatus, st) /\ (StoreStatus(st, pc') \/ RefuseStatus(st, pc'))
          /\ pc \notin {"idle", "resources", "check"} /\ pc' \notin {"rolledBack", "resolved"}
          /\ pc \in {"final", "failed", "resolved"} => pc' = "idle"
          /\ latest' = latest
    BY <1>4 DEF PassWrites
  <2>2. AtMost(st, latest)
    BY <2>1 DEF VersionInv, AtMost, Sends, SameUpdate
  <2>3. CASE StoreStatus(st, pc')
    <3>1. /\ mcur /\ status' = st /\ cstatus' = cstatus
          /\ pc' # "idle" => mstatus' = st
      BY <2>3 DEF StoreStatus, Keep
    <3>2. ASSUME st.pending # NoVersion
          PROVE  AtMost(st, st.pending) /\ AtMost(cstatus, st.pending)
      <4>1. pc # "rolledBack" /\ SameUpdate(st, mstatus)
        BY <2>1, <3>2 DEF Sends
      <4>2. CASE pc = "final"
        BY <3>1, <3>2, <4>1, <4>2 DEF VersionInv, AtMost, SameUpdate
      <4>3. CASE pc # "final"
        <5>1. st.pending = status.pending
          BY <2>1, <3>1, <3>2, <4>1, <4>3 DEF VersionInv, SameUpdate
        <5> QED
          BY <2>1, <3>2, <4>1, <4>3, <5>1 DEF VersionInv, AtMost, SameUpdate
      <4> QED
        BY <4>2, <4>3
    <3> QED
      BY <2>1, <2>2, <3>1, <3>2 DEF VersionInv
  <2>4. CASE RefuseStatus(st, pc')
    <3>1. /\ status' = status /\ cstatus' = cstatus
          /\ pc' # "idle" => mstatus' = st
          /\ mcur' => mcur
      BY <2>4 DEF RefuseStatus, Keep, apiVars, cacheVars
    <3>2. ASSUME pc' # "idle"
          PROVE  /\ status.pending # NoVersion => AtMost(st, status.pending)
                 /\ mcur => st.pending \in {status.pending, NoVersion}
      <4>1. pc \notin {"idle", "final"}
        BY <2>1, <3>2
      <4> QED
        BY <2>1, <4>1 DEF VersionInv, AtMost, Sends, SameUpdate
    <3> QED
      BY <2>1, <2>2, <3>1, <3>2 DEF VersionInv
  <2> QED
    BY <2>1, <2>3, <2>4
<1>5. CASE PassPatches
  <2>1. PICK st \in StatusType, t \in Tags :
          /\ SameUpdate(st, mstatus) /\ PatchTag(t, st, pc')
          /\ <<pc, pc'>> \in {<<"resolve", "resolved">>, <<"check", "resolved">>,
                              <<"patchTag", "scaleUp">>, <<"drive", "rolledBack">>}
    BY <1>5 DEF PassPatches
  <2>2. /\ status' = status /\ cstatus' = cstatus /\ latest' = latest
        /\ mstatus' = DecodeStatus(st, status)
    BY <2>1 DEF PatchTag, Keep, envVars
  <2>3. /\ mstatus'.pending
             = IF status.pending = NoVersion THEN mstatus.pending ELSE status.pending
        /\ mstatus'.failed
             = IF status.failed = NoVersion THEN mstatus.failed ELSE status.failed
    BY <2>1, <2>2, DecodedRecord DEF SameUpdate
  <2>4. /\ pc = "drive" => mstatus.pending # NoVersion
        /\ pc = "check" => mstatus.pending = NoVersion
        /\ pc \in {"resolve", "patchTag"} => mstatus = status
    BY DEF IInv, PcOK, Working
  <2> QED
    BY <2>1, <2>2, <2>3, <2>4 DEF VersionInv, AtMost
<1>6. CASE PassKeeps
  <2>1. /\ pc # "idle" /\ status' = status /\ latest' = latest /\ cstatus' = cstatus
        /\ \/ pc' = "idle"
           \/ /\ SameUpdate(mstatus', mstatus) /\ mcur' = mcur
              /\ pc' # "rolledBack" /\ pc \notin {"final", "rolledBack"}
    BY <1>6 DEF PassKeeps, cacheVars
  <2> QED
    BY <2>1 DEF SameUpdate, VersionInv, AtMost
<1>7. CASE PassStarts
  <2>1. /\ pc = "check" /\ pc' = "final" /\ mstatus'.pending = latest
        /\ mstatus'.failed = FailedAfterCheck
        /\ status' = status /\ cstatus' = cstatus /\ latest' = latest
    BY <1>7 DEF PassStarts, apiVars, cacheVars
  <2>2. FailedAfterCheck \in {NoVersion, mstatus.failed}
    BY DEF FailedAfterCheck
  <2> QED
    BY <1>1, <2>1, <2>2 DEF VersionInv, AtMost
<1>8. CASE EnvironmentSteps
  <2>1. latest' \in Int
    BY <1>8, NextIInv, <1>1 DEF IInv, TypeOK, Versions
  <2>2. ASSUME NEW a \in StatusType, AtMost(a, latest) PROVE AtMost(a, latest')
    <3>1. \A v \in Versions : v <= latest => v <= latest'
      BY <1>1, <1>8, <2>1 DEF EnvironmentSteps
    <3> QED
      BY <1>2, <2>2, <3>1 DEF AtMost
  <2>3. /\ AtMost(status, latest') /\ AtMost(cstatus, latest')
        /\ pc # "idle" => AtMost(mstatus, latest')
    BY <1>1, <2>2 DEF VersionInv
  <2> HIDE DEF AtMost
  <2>4. \A a, b, v : SameUpdate(a, b) /\ AtMost(b, v) => AtMost(a, v)
    BY DEF SameUpdate, AtMost
  <2>5. /\ status'.pending = status.pending /\ mstatus'.pending = mstatus.pending
        /\ pc' = pc /\ (mcur' => mcur)
    BY <1>8 DEF EnvironmentSteps, SameUpdate
  <2>6. \A v : /\ AtMost(status, v) => AtMost(status', v)
               /\ AtMost(mstatus, v) => AtMost(mstatus', v)
               /\ AtMost(status, v) /\ AtMost(cstatus, v) => AtMost(cstatus', v)
    BY <1>8, <2>4 DEF EnvironmentSteps
  <2> QED
    BY <2>3, <2>5, <2>6 DEF VersionInv
<1>9. CASE UNCHANGED vars
  BY <1>9 DEF vars, apiVars, cacheVars, memVars, envVars, VersionInv, AtMost
<1> QED
  BY <1>3, <1>4, <1>5, <1>6, <1>7, <1>8, <1>9, NextShape DEF StepShape

\* The copy of a pass that began with the stored revision follows the stored record.
LEMMA CopyInvNext ==
  ASSUME IInv, CacheInv, VersionInv, CopyInv, [Next]_vars
  PROVE  CopyInv'
<1>1. /\ status \in StatusType /\ mstatus \in StatusType
      /\ latest \in Versions /\ Versions \subseteq Int /\ NoVersion \notin Versions
  BY ConstantsAssumption DEF IInv, TypeOK, Versions
<1>2. /\ status.pending \in Versions \cup {NoVersion}
      /\ status.failed \in Versions \cup {NoVersion}
      /\ mstatus.failed \in Versions \cup {NoVersion}
  BY <1>1 DEF StatusType, MaybeVersions
<1>3. CASE Begin
  BY <1>3, BeginCopies DEF CopyInv
<1>4. ASSUME ~Begin, Next, ~stale' PROVE ~stale
  BY <1>4, StaleKept
<1>5. CASE PassWrites /\ ~stale
  <2>1. PICK st \in StatusType :
          /\ Sends(pc, mstatus, st) /\ (StoreStatus(st, pc') \/ RefuseStatus(st, pc'))
          /\ pc \notin {"idle", "resources", "check"}
          /\ pc \in {"final", "failed", "resolved"} => pc' = "idle"
    BY <1>5 DEF PassWrites
  <2>2. CASE StoreStatus(st, pc')
    BY <2>2 DEF StoreStatus, Keep, CopyInv
  <2>3. CASE RefuseStatus(st, pc')
    <3>1. status' = status /\ (pc' # "idle" => mstatus' = st)
      BY <2>3 DEF RefuseStatus, Keep, apiVars
    <3>2. ASSUME pc' # "idle"
          PROVE  /\ st.pending \in {status.pending, NoVersion}
                 /\ \/ st.failed = status.failed
                    \/ status.pending # NoVersion /\ st.failed = status.pending
      BY <1>5, <2>1, <3>2 DEF CopyInv, VersionInv, Sends, SameUpdate
    <3> QED
      BY <3>1, <3>2 DEF CopyInv
  <2> QED
    BY <2>1, <2>2, <2>3
<1>6. CASE PassPatches /\ ~stale
  <2>1. PICK st \in StatusType, t \in Tags :
          /\ SameUpdate(st, mstatus) /\ PatchTag(t, st, pc')
          /\ <<pc, pc'>> \in {<<"resolve", "resolved">>, <<"check", "resolved">>,
                              <<"patchTag", "scaleUp">>, <<"drive", "rolledBack">>}
    BY <1>6 DEF PassPatches
  <2>2. status' = status /\ mstatus' = DecodeStatus(st, status)
    BY <2>1 DEF PatchTag, Keep
  <2>3. /\ mstatus'.pending
             = IF status.pending = NoVersion THEN mstatus.pending ELSE status.pending
        /\ mstatus'.failed
             = IF status.failed = NoVersion THEN mstatus.failed ELSE status.failed
    BY <2>1, <2>2, DecodedRecord DEF SameUpdate
  <2>4. /\ mstatus.pending \in {status.pending, NoVersion}
        /\ \/ mstatus.failed = status.failed
           \/ status.pending # NoVersion /\ mstatus.failed = status.pending
    BY <1>6, <2>1 DEF CopyInv
  <2> QED
    BY <2>1, <2>2, <2>3, <2>4 DEF CopyInv
<1>7. CASE PassKeeps /\ ~stale
  BY <1>7 DEF PassKeeps, SameUpdate, CopyInv
<1>8. CASE PassStarts /\ ~stale
  <2>1. /\ pc = "check" /\ pc' = "final" /\ mstatus'.pending = latest
        /\ FailedAfterCheck # latest /\ status' = status
    BY <1>8 DEF PassStarts, apiVars
  <2>2. mstatus.failed # latest
    BY <2>1, FailedIsOlder
  <2>3. status.failed # latest
    <3>1. CASE mstatus.failed = status.failed
      BY <2>2, <3>1
    <3>2. CASE status.pending # NoVersion /\ mstatus.failed = status.pending
      <4>1. /\ status.pending <= latest
            /\ status.failed # NoVersion => status.failed <= status.pending
        BY <3>2 DEF VersionInv, AtMost
      <4>2. status.pending \in Int /\ status.failed \in Int \cup {NoVersion} /\ latest \in Int
        BY <1>1, <1>2, <3>2
      <4>3. status.pending # latest /\ NoVersion # latest
        BY <1>1, <2>2, <3>2
      <4> QED
        BY <4>1, <4>2, <4>3
    <3> QED
      BY <1>8, <2>1, <3>1, <3>2 DEF CopyInv
  <2> QED
    BY <2>1, <2>3 DEF CopyInv
<1>9. CASE EnvironmentSteps /\ ~stale
  BY <1>9 DEF EnvironmentSteps, SameUpdate, CopyInv
<1>10. CASE UNCHANGED vars
  BY <1>10 DEF vars, apiVars, memVars, passVars, CopyInv
<1>11. CASE Next /\ ~Begin
  <2>1. SUFFICES ASSUME ~stale' PROVE CopyInv'
    BY DEF CopyInv
  <2> QED
    BY <1>4, <1>5, <1>6, <1>7, <1>8, <1>9, <1>11, <2>1, NextShape DEF StepShape
<1> QED
  BY <1>3, <1>10, <1>11

\* An update that is about to be stored is not older than the stored tag, when
\* that tag has been published.
LEMMA ForwardInvNext ==
  ASSUME IInv, CacheInv, VersionInv, ForwardInv, TagPublished, [Next]_vars
  PROVE  ForwardInv'
<1>1. CASE Begin
  BY <1>1, BeginCopies DEF ForwardInv
<1>2. CASE PassWrites
  <2>1. PICK st \in StatusType :
          /\ Sends(pc, mstatus, st) /\ (StoreStatus(st, pc') \/ RefuseStatus(st, pc'))
          /\ pc \notin {"idle", "resources", "check"}
          /\ pc = "final" => pc' = "idle"
    BY <1>2 DEF PassWrites
  <2>2. CASE StoreStatus(st, pc')
    BY <2>2 DEF StoreStatus, Keep, ForwardInv
  <2>3. CASE RefuseStatus(st, pc')
    <3>1. /\ status' = status /\ (pc' # "idle" => mstatus' = st)
          /\ mcur' => mcur
      BY <2>3 DEF RefuseStatus, Keep, apiVars
    <3>2. pc' # "idle" /\ mcur => st.pending \in {status.pending, NoVersion}
      BY <2>1 DEF VersionInv, Sends, SameUpdate
    <3> QED
      BY <3>1, <3>2 DEF ForwardInv
  <2> QED
    BY <2>1, <2>2, <2>3
<1>3. CASE PassPatches
  BY <1>3 DEF PassPatches, ForwardInv
<1>4. CASE PassKeeps
  BY <1>4 DEF PassKeeps, SameUpdate, VersionInv, ForwardInv
<1>5. CASE PassStarts
  <2>1. mstatus'.pending = latest /\ spec' = spec
    BY <1>5 DEF PassStarts, apiVars
  <2>2. latest \in Int /\ (spec.tag \in Versions => spec.tag \in Int)
    BY DEF IInv, TypeOK, Versions
  <2> QED
    BY <2>1, <2>2 DEF ForwardInv, TagPublished
<1>6. CASE EnvironmentSteps
  BY <1>6 DEF EnvironmentSteps, SameUpdate, ForwardInv
<1>7. CASE UNCHANGED vars
  BY <1>7 DEF vars, apiVars, memVars, ForwardInv
<1> QED
  BY <1>1, <1>2, <1>3, <1>4, <1>5, <1>6, <1>7, NextShape DEF StepShape

\* Updates go forward, whatever fails, however often, and however old the
\* revisions are that passes begin with, when users set tags that are published:
\* what a new update is compared with is the copy's and not what is stored.
THEOREM UpdatesAreForward == Spec /\ []TagPublished => UpdatesGoForwardWhenStale
<1>1. Init => CacheInv /\ VersionInv /\ CopyInv /\ ForwardInv
  BY InitCopies
<1>2. IInv /\ CacheInv /\ [Next]_vars => CacheInv'
  BY CacheInvNext
<1>3. IInv /\ CacheInv /\ VersionInv /\ [Next]_vars => VersionInv'
  BY VersionInvNext
<1>4. IInv /\ CacheInv /\ VersionInv /\ CopyInv /\ [Next]_vars => CopyInv'
  BY CopyInvNext
<1>5. IInv /\ CacheInv /\ VersionInv /\ ForwardInv /\ TagPublished /\ [Next]_vars
        => ForwardInv'
  BY ForwardInvNext
<1>6. IInv /\ VersionInv /\ CopyInv /\ ForwardInv /\ [Next]_vars
        => [status'.pending \notin {status.pending, NoVersion} =>
              /\ ~stale => status'.pending # status.failed
              /\ spec.tag \in Versions => status'.pending >= spec.tag]_vars
  <2> SUFFICES ASSUME IInv, VersionInv, CopyInv, ForwardInv, Next,
                      status'.pending \notin {status.pending, NoVersion}
               PROVE  /\ ~stale => status'.pending # status.failed
                      /\ spec.tag \in Versions => status'.pending >= spec.tag
    OBVIOUS
  <2>1. /\ mcur /\ Sends(pc, mstatus, status') /\ pc \notin {"idle", "resources", "check"}
    BY StoredRecord DEF SameUpdate
  <2>2. pc # "rolledBack" /\ status'.pending = mstatus.pending
    BY <2>1 DEF Sends, SameUpdate
  <2>3. pc = "final"
    BY <2>1, <2>2 DEF VersionInv
  <2> QED
    BY <2>1, <2>2, <2>3 DEF CopyInv, ForwardInv
<1>7. QED
  BY <1>1, <1>2, <1>3, <1>4, <1>5, <1>6, Invariance, PTL
     DEF Spec, UpdatesGoForwardWhenStale

\* The count in the copy of a pass that began with the stored revision.
LEMMA CountInvNext ==
  ASSUME IInv, CacheInv, VersionInv, CopyInv, CountInv, [Next]_vars
  PROVE  CountInv'
<1>1. /\ status \in StatusType /\ mstatus \in StatusType
      /\ status.rollbacks \in Nat /\ mstatus.rollbacks \in Nat
  BY DEF IInv, TypeOK, StatusType
<1>2. CASE Begin
  BY <1>1, <1>2, BeginCopies DEF CountInv
<1>3. ASSUME ~Begin, Next, ~stale' PROVE ~stale
  BY <1>3, StaleKept
<1>4. CASE PassWrites /\ ~stale
  <2>1. PICK st \in StatusType :
          /\ Sends(pc, mstatus, st) /\ (StoreStatus(st, pc') \/ RefuseStatus(st, pc'))
          /\ pc \notin {"idle", "resources", "check"}
          /\ pc \in {"final", "failed", "resolved"} => pc' = "idle"
          /\ pc = "rolledBack" => pc' \in {"resources", "final"}
    BY <1>4 DEF PassWrites
  <2>2. st.rollbacks \in Nat
    BY DEF StatusType
  <2>3. CASE StoreStatus(st, pc')
    <3>1. status' = st /\ (pc' # "idle" => mstatus' = st)
      BY <2>3 DEF StoreStatus, Keep
    <3> QED
      BY <2>2, <3>1 DEF CountInv
  <2>4. CASE RefuseStatus(st, pc')
    <3>1. status' = status /\ (pc' # "idle" => mstatus' = st)
      BY <2>4 DEF RefuseStatus, Keep, apiVars
    <3>2. CASE pc' = "idle"
      BY <3>2 DEF CountInv
    <3>3. CASE pc' # "idle" /\ pc = "rolledBack"
      <4>1. /\ mstatus.rollbacks <= status.rollbacks
            /\ status.pending # NoVersion /\ mstatus.pending = status.pending
        BY <1>4, <3>3 DEF CountInv, CopyInv, VersionInv, Late
      <4>2. st.rollbacks = mstatus.rollbacks + 1 /\ st.pending = NoVersion
            /\ st.failed = status.pending
        BY <2>1, <3>3, <4>1 DEF Sends, Working
      <4>3. \/ st.rollbacks <= status.rollbacks
            \/ st.rollbacks = status.rollbacks + 1
        BY <1>1, <4>1, <4>2
      <4> QED
        BY <2>1, <3>1, <3>3, <4>1, <4>2, <4>3 DEF CountInv, Late
    <3>4. CASE pc' # "idle" /\ pc # "rolledBack"
      <4>1. mstatus.rollbacks <= status.rollbacks
        BY <1>4, <2>1, <3>4 DEF CountInv, Late
      <4>2. st.rollbacks <= status.rollbacks
        BY <1>1, <2>1, <3>4, <4>1 DEF Sends, SameUpdate
      <4> QED
        BY <3>1, <4>2 DEF CountInv
    <3> QED
      BY <3>2, <3>3, <3>4
  <2> QED
    BY <2>1, <2>3, <2>4
<1>5. CASE PassPatches /\ ~stale
  <2>1. PICK st \in StatusType, t \in Tags :
          /\ SameUpdate(st, mstatus) /\ PatchTag(t, st, pc')
          /\ <<pc, pc'>> \in {<<"resolve", "resolved">>, <<"check", "resolved">>,
                              <<"patchTag", "scaleUp">>, <<"drive", "rolledBack">>}
    BY <1>5 DEF PassPatches
  <2>2. status' = status /\ mstatus' = DecodeStatus(st, status)
    BY <2>1 DEF PatchTag, Keep
  <2>3. mstatus'.rollbacks
          = IF status.rollbacks = 0 THEN mstatus.rollbacks ELSE status.rollbacks
    BY <2>1, <2>2, DecodedRecord DEF SameUpdate
  <2>4. CASE pc' = "resolved"
    BY <2>4 DEF CountInv
  <2>5. CASE pc' # "resolved"
    <3>1. mstatus.rollbacks <= status.rollbacks
      BY <1>5, <2>1, <2>5 DEF CountInv, Late
    <3>2. mstatus'.rollbacks <= status'.rollbacks
      BY <1>1, <2>2, <2>3, <3>1
    <3> QED
      BY <3>2 DEF CountInv
  <2> QED
    BY <2>4, <2>5
<1>6. CASE PassKeeps /\ ~stale
  <2>1. CASE pc' = "idle"
    BY <2>1 DEF CountInv
  <2>2. CASE pc' # "idle"
    <3>1. /\ pc # "idle" /\ status' = status /\ SameUpdate(mstatus', mstatus)
          /\ pc # "final" /\ pc' # "resolved"
          /\ pc \in Late /\ mstatus.pending = NoVersion => pc' \in Late
      BY <1>6, <2>2 DEF PassKeeps
    <3>2. pc # "resolved"
      BY <1>6, <2>2 DEF PassKeeps
    <3> QED
      BY <1>6, <3>1, <3>2 DEF CountInv, SameUpdate
  <2> QED
    BY <2>1, <2>2
<1>7. CASE PassStarts /\ ~stale
  <2>1. /\ pc = "check" /\ pc' = "final" /\ mstatus'.pending = latest
        /\ mstatus'.rollbacks = mstatus.rollbacks /\ FailedAfterCheck # latest
        /\ status' = status
    BY <1>7 DEF PassStarts, apiVars
  <2>2. mstatus.failed # latest
    BY <2>1, FailedIsOlder
  <2> QED
    BY <1>7, <2>1, <2>2 DEF CountInv, Late
<1>8. CASE EnvironmentSteps /\ ~stale
  BY <1>8 DEF EnvironmentSteps, SameUpdate, CountInv
<1>9. CASE UNCHANGED vars
  BY <1>9 DEF vars, apiVars, memVars, passVars, CountInv
<1>10. CASE Next /\ ~Begin
  <2>1. SUFFICES ASSUME ~stale' PROVE CountInv'
    BY DEF CountInv
  <2> QED
    BY <1>3, <1>4, <1>5, <1>6, <1>7, <1>8, <1>10, <2>1, NextShape DEF StepShape
<1> QED
  BY <1>2, <1>9, <1>10

\* A rollback is counted once, by the write that ends the update, through any
\* number of crashes, refused writes and edits, and after any number of passes that
\* began with an old revision and stored what they made of it.
THEOREM RollbacksCountOnce == Spec => RollbackCountedOnce
<1>1. Init => CacheInv /\ VersionInv /\ CopyInv /\ CountInv
  BY InitCopies
<1>2. IInv /\ CacheInv /\ [Next]_vars => CacheInv'
  BY CacheInvNext
<1>3. IInv /\ CacheInv /\ VersionInv /\ [Next]_vars => VersionInv'
  BY VersionInvNext
<1>4. IInv /\ CacheInv /\ VersionInv /\ CopyInv /\ [Next]_vars => CopyInv'
  BY CopyInvNext
<1>5. IInv /\ CacheInv /\ VersionInv /\ CopyInv /\ CountInv /\ [Next]_vars => CountInv'
  BY CountInvNext
<1>6. IInv /\ VersionInv /\ CopyInv /\ CountInv /\ [Next]_vars
        => [status'.rollbacks > status.rollbacks /\ ~stale /\ pc # "resolved" =>
              /\ status'.rollbacks = status.rollbacks + 1
              /\ InProgress(status) /\ status'.pending # status.pending]_vars
  <2> SUFFICES ASSUME IInv, VersionInv, CopyInv, CountInv, Next,
                      status'.rollbacks > status.rollbacks, ~stale, pc # "resolved"
               PROVE  /\ status'.rollbacks = status.rollbacks + 1
                      /\ InProgress(status) /\ status'.pending # status.pending
    OBVIOUS
  <2>1. status.rollbacks \in Nat /\ mstatus.rollbacks \in Nat
    BY DEF IInv, TypeOK, StatusType
  <2>2. Sends(pc, mstatus, status') /\ pc \notin {"idle", "resources", "check"}
    BY <2>1, StoredRecord DEF SameUpdate
  <2>3. CASE pc = "rolledBack"
    <3>1. /\ mstatus.rollbacks <= status.rollbacks
          /\ status.pending # NoVersion /\ mstatus.pending = status.pending
      BY <2>3 DEF CountInv, CopyInv, VersionInv, Late
    <3>2. status'.pending = NoVersion /\ status'.rollbacks = mstatus.rollbacks + 1
      BY <2>2, <2>3 DEF Sends, Working
    <3> QED
      BY <2>1, <3>1, <3>2 DEF InProgress
  <2>4. CASE pc # "rolledBack"
    <3>1. mstatus.rollbacks > status.rollbacks /\ SameUpdate(status', mstatus)
      BY <2>1, <2>2, <2>4 DEF Sends, SameUpdate, CountInv, Late, Working
    <3> QED
      BY <2>1, <2>2, <3>1 DEF CountInv, SameUpdate, InProgress
  <2> QED
    BY <2>3, <2>4
<1>7. QED
  BY <1>1, <1>2, <1>3, <1>4, <1>5, <1>6, Invariance, PTL DEF Spec, RollbackCountedOnce
=============================================================================
