# A TLA+ model of the OpenClaw operator

The OpenClaw operator (`src/`) is a Kubernetes controller written in Go. It turns
an `OpenClawInstance` into a StatefulSet with a volume, Services, policies and
monitoring, keeps it up to date with the container registry, backs its volume up to S3
before an update and before deletion, seeds the agent's workspace, and lets the agent
change its own configuration within limits. This directory models the parts of it whose
correctness depends on the order of writes, on crashes between them, on what other actors
do meanwhile, or on several builders agreeing with each other; checks them with TLC on
small instances; and proves the safety properties of all six models, and the refinement of
the abstract reconciler, with TLAPS for every value of the constants.

1. [The system](#the-system)
2. [The modules and how they follow the code](#the-modules)
3. [Runs](#runs)
4. [Fairness](#fairness)
5. [Refinement](#refinement)
6. [Proofs](#proofs)
7. [Where the code and its documentation disagree](#disagreements)
8. [What is not modelled](#not-modelled)
9. [Plan](#plan)

## The system

| component | state it keeps | operations | hard behaviour | what makes it correct |
|---|---|---|---|---|
| instance reconciler (`openclawinstance_controller.go`) | phase, conditions, finalizer, `managedResources`; the child objects | one pass per event or requeue, some thirty handlers | passes are cut at any API call, work on a copy that may be stale, and race with edits | it does not sleep while something is left to do, writes nothing before what it relies on, and converges |
| auto-update (`autoupdate.go`) | `status.autoUpdate`: pending, previous and failed version, update phase, rollback count; `spec.image.tag` | version check, backup, apply, health check, rollback, abort | a multi-pass state machine that patches the spec unconditionally and the status optimistically | updates go forward and end, a rollback knows its target and is counted once, the breaker holds, the workload comes back |
| pre-delete backup (`backup.go`) | finalizer, `backingUpSince`, `lastBackupPath`, phase | scale down, wait, run the Job, orphan the claim, remove the finalizer | timeouts, crashes between status and finalizer, the skip annotation | no removal without backup or reason; no pod beside the Job; deletion ends |
| restore (`restore.go`) | `spec.restoreFrom`, `status.restoredFrom` | run the Job before the StatefulSet exists | the request is edited or withdrawn meanwhile; clearing it fails | restored at most once, before the workload starts |
| S3 Jobs, periodic backup (`s3.go`) | Jobs with fixed names and a TTL of 24 h; a CronJob; mirrored Secrets | build, look up, interpret | a finished Job outlives the flow it belongs to | a Job is taken for the flow that made it; the schedule follows the credentials |
| self-config controller (`openclawselfconfig_controller.go`, `selfconfig_*.go`) | `OpenClawSelfConfig` requests; field ownership on the instance | check the policy, apply server side, settle, expire | a second writer of the instance's spec: forced, without a resource version, from a cached copy | protected fields keep the user's values, nobody else's items are dropped, verdicts are true and final, every request ends |
| admission webhook, cluster defaults (`internal/webhook`, `cluster_defaults.go`) | none; a cluster-wide singleton | default, validate create and update, merge | a state reached by edits that are each admitted, and changed after admission by the merge | what the builders rely on holds of every stored spec |
| builders (`internal/resources`) | none | spec to manifest | the same decision is taken in several builders | mounts have volumes, users fit, ports are served, policies and roles match |
| config and workspace (`configmap.go`, `workspace_*.go`, the init script) | ConfigMaps, a hash on the pod template, markers and manifests on the volume | render, seed, apply, sync packs, clean up | two writes and a script that dies on any line | the pod gets what the spec renders to; managed files converge, edits survive |
| skill-pack resolver (`internal/skillpacks`) | a cache with a TTL | fetch a manifest and files, fall back | outages, two fetches of one pack | an outage costs no pack |
| version resolver (`internal/registry`) | a mutex-guarded cache with a TTL | list tags, choose the newest stable | pagination, token expiry | the newest stable version is chosen |

The components meet in four places: the instance object (the reconciler's flows, the
user, GitOps and the self-config controller all write it), the StatefulSet's replica
count (scaled by the update, the deletion, suspension, the autoscaler and
`reconcileResources`), the volume (mounted by the pod and by three kinds of Job, written
by the init script and the agent), and the pod template, whose hashes decide when a
change reaches the pod. The informer cache decides which revision a pass reads;
optimistic concurrency decides which of its writes are refused. `PROJECT.json` lists the
hazards that follow, each at its line.

## The modules

| module | models | run through |
|---|---|---|
| `AutoUpdate` | `autoupdate.go`, and the slice of `Reconcile` that drives it | `MCAutoUpdate` |
| `BackupRestore` | `backup.go`, `restore.go`, `reconcilePVC`, and the slice of `Reconcile` that calls them | `MCBackupRestore` |
| `SelfConfig` | the self-config controller, its apply, the managed fields it reads; the API server's server-side apply (external) | `MCSelfConfig` |
| `InstanceSpec` | the fields of the spec that some guard tells apart; the cluster defaults and their merge | extended by the next three |
| `Admission` | the webhook: what it fills in and what it refuses | |
| `PodTemplate` | `BuildStatefulSet`: containers, volumes, users, ports, the config's enrichment and the hash | |
| `Networking` | Service, Ingress, HTTPRoute, NetworkPolicy, ServiceMonitor, Role | |
| `Manifests` | composes the four: an edit is admitted, merged, rendered, written in two steps, rolled out and read by the pod | `MCManifests` |
| `Workspace` | `workspace_files.go`, `workspace_configmap.go`, the workspace lines of `BuildInitScript`, `internal/skillpacks` | `MCWorkspace` |
| `Resources` | `reconcileResources`: every handler in order, the watches, the queue, the status | `MCResources` |
| `LevelTriggered` | abstract: what a level-triggered reconciler promises | refined by `Resources` |
| `AutoUpdate_proofs`, `BackupRestore_proofs`, `SelfConfig_proofs`, `Manifests_proofs`, `Workspace_proofs`, `Resources_proofs` | inductive invariants and proofs | |
| `LevelTriggered_proofs` | the proof that `Resources` implements `LevelTriggered` | |

### How a reconcile pass is modelled

There is one worker per instance, so there is one `pc` (or `pass`). A pass is split at its
API writes: a value of `pc` names the next write (or the next branch without one). The
reads between two writes belong to the step of the write after them. Between two
steps anything else may happen: a user edit, a crash, the clock, the StatefulSet, Job, TTL
and garbage-collection controllers.

A pass holds a copy of the instance. `mcur` says whether the copy is the stored
revision. `Status().Update` and `Update` are refused when it is not; a merge `Patch`
is not guarded by a revision, goes through, and makes the copy current again. In
`AutoUpdate` the response of a `Patch` is decoded *over* the copy
(`DecodeStatus`), because a field that the response omits for being empty keeps its
old value in the Go struct; and with `CacheLags` a pass may start from a revision
older than its own last write. `BackupRestore` needs neither: its passes are refused at
their first status write when they start from an old revision, and what they do before
that is idempotent. `SelfConfig` keeps whole cached copies of the instance and the requests,
either of which may lag (`Lagging`).

A call that fails takes the pass to where the code's error path goes. The two call
sites of `reconcileAutoUpdate` differ there (`OnError`): an error of the first falls
through to `reconcileResources`, one of the second to the final status update.
Conflicts end a pass silently (`retryableConflictResult`), other errors of
`reconcileResources` mark the instance Failed.

### State

`AutoUpdate`: `spec` (tag, suspended, autoUpdate.enabled without digest, rollbackOnFailure),
`status` (the phase and `AutoUpdateStatus`), both also as cached and as held by the pass;
`site` and `target` for two Go locals; `sts`, `pod`, `job`; `latest` for the registry; and, as history,
whether the pass began with an old revision (`stale`).
Versions are the numbers 1..MaxVersion, `Latest` the floating tag and `Custom` any tag
that is not a semantic version. Timestamps are reduced to their age (`nil`, `fresh`,
`old`) relative to the interval they are compared with.

`BackupRestore`: `inst` (finalizer, deletion timestamp, skip annotation, restoreFrom),
`status`, the pass's copies, `sts`, `pod`, the two Jobs, `pvc` with its owner reference,
`s3` (is the backup complete?), the credentials Secret (usable, missing, or there but
broken, which the code treats in three ways). S3 paths are model values.

`SelfConfig`: the part of the spec that a request can reach is a function from fields to
values, with the managers that own each field; a field is what server-side apply tracks (a
skill, a key of `config.raw`, a file, the element or the value of a variable). Reading and
everything up to the first write is one action (`Reconcile`), then come the apply, the owner
reference, the status and, an hour later, the deletion. `ServerSideApply` is the API
server's rule, marked external. `unseen` is history: the items that self-config owned at the look-up
and that the copy it looked at did not show as its own.

`Manifests`: the stored spec, the external ConfigMap, the cluster defaults, and what the two
writes of a pass leave, kept as the spec each was rendered from; the renderings are the
operators of `PodTemplate` and `Networking`, evaluated by the properties. A container is the
record of what it needs to start: mounts, user, `runAsNonRoot`, image, ports. A rollout
happens when the rendered templates differ, so what is left out of the hash is visible.

`Workspace`: the declaration, GitHub, the resolver's cache, the ConfigMap, the init script as
one block of lines for each workspace, the pod with its current line, and the volume with its
markers and manifests. Three sets are history, for the properties: `torn`, the files that were given
something that their marker does not record; `untracked`, those given something that no manifest lists;
`listed`, the paths that some sync declared. The script has no `set -e`, so a failing line is skipped, and a pod
that dies starts at the top. A path is a sequence of segments of words, because the keys
join them with `--`, which is not injective. A content is its own hash.

`Resources`: one handler per step of `Steps`, in the order of `reconcileResources`; an object is
the set of its contents, and most contents are the spec that they were rendered from. `createOrDelete`,
`createOrKeep`, `createOnce` and `createOrSkip` are the four ways in which the handlers treat a
feature that is switched off. The pass also holds the status it will write, the token it
found, the S3 credentials it read. `queue` is the work queue; a write to a watched object,
an edit and the mapping functions set it.

`PROJECT.json` maps every definition to its lines. Definitions marked "Mutated" or "A bug" are
plausible errors of the definition after them; substituting one must break the
property that `mutants` names.

## Runs

Bounds are constants: `MaxEdits` limits edits by users, `MaxFaults` the sum of failed calls,
failed pods or Jobs, crashes and, in `AutoUpdate`, passes that begin with an old revision; `MaxDisturbances`
both together, `MaxVersion` the registry. Everything else is unbounded: the number of passes, retries and waits is not
limited.

| run | expects | shows |
|---|---|---|
| `safety` | pass | three versions, a threshold of two, updates with their backups from `latest` or a custom tag, one edit of any of five kinds and one fault, which may be a stale read: the state is well formed (`TypeOK`), a rollback knows its target (`RollbackTargetKnown`), the condition matches the pending update (`AvailableIffPending`), no update is in progress while the breaker is open (`BreakerHolds`), updates never go back or retry the failed version (`UpdatesGoForward`), a rollback is counted once (`RollbackCountedOnce`) |
| `live` | pass | three versions of which one never becomes ready, rollback on or off, one edit, one fault, a current cache: `UpdateEnds`, `WorkloadComesBack`, `ImageConverges`, `ReachesNewestVersion` |
| `volume` | pass | one instance from creation to removal in a cluster whose Jobs and pods end, up to three edits of six kinds and two faults, four of both, two restore paths: `TypeOK`, `JobPathRecorded`, `NoPodDuringBackup`, `BackupBeforeRemoval`, `NeverRestoredTwice`, `RestoreBeforeStart`, `DeletionEnds`, `RestoreEnds` |
| `selfconfig` | pass | two requests that between them add to and remove from every category, touch a protected key and are empty; a lagging cache of requests, one edit by the user or GitOps, one fault: `ProtectedValuesAreUsers`, `OthersKeepTheirItems`, `WarnedRemovalsAreSkipped`, `VerdictsAreTrueAndFinal`, `EveryRequestEnds` |
| `manifests` | pass | a minimal and a full spec, two edits of any field, of the external ConfigMap or of the cluster defaults, one fault: `EveryMountHasAVolume`, `ContainerUsersFit`, `ServicePortsAreServed`, `MetricsReachTheirPeers`, `APIUsersAreEquipped`, `InlineConfigReachesThePod` |
| `workspace` | pass | four declarations with inline and external files, two workspaces, manifest and raw packs and a pack that does not exist; two edits by the user, the agent or upstream, one outage, crash or restart: `ReplaceFilesAreCurrent`, `EditsSurvive`, `OnlyPackPathsAreRemoved`, `LeftoversAreUntracked`, `OutageKeepsPacks` |
| `resources` | pass | seven families of specs and two disturbances (edits, rotated Secrets, deleted objects, failing handlers, restarts): the reconciler implements `LevelTriggered` (`LevelTriggeredSpec`), `NeedsComeFirst`, `TokenIsStable`, `Converges` |
| `confirm`, `restore`, `reset`, `orphan`, `rollout` | violation | see [below](#disagreements) |

Why these bounds are enough. A property of the update can be broken by the worst
placement of one fault together with one edit, since each flow has one unguarded window per
pass and a second fault repeats a pass that the first already interrupted. `safety` also needs
two failed updates to reach the breaker's threshold, hence three versions (a pod may be slow without being a
fault); a rollback that a stale pass counts again opens the breaker while there is a version left to update to, and
the code's threshold of 3 changes nothing but the depth. `volume` has three edits because the shortest
interesting sequence for a restore is request, withdraw, request again, and two faults so
that a crash can follow a failed Job; the fifth disturbance is left to the proofs. `selfconfig` needs two requests, since what one leaves behind
(ownership, a value) is what the other meets, and every category in one of them; in the run the instance's
cache is current, and the proofs remove this restriction for the safety properties. In `manifests` every guard of the
builders is a field, and two edits of any fields from a spec with everything off and one with
everything on meet every pair of guards; the renderings do not depend on the path to the
spec. In `workspace` two edits make a source change and change back, which is how a marker can
lie. In `resources` the handlers read disjoint parts of the spec except within a family
(storage, scaling, browser, secrets, exposure, monitoring, backups), so that the user edits
within a family; faults hit a step of each stretch (`FaultSteps`), and two kinds, one watched and one
not, are deleted by hand (`DriftKinds`). An edit that falls between the first step and the end of
a pass, and a change of an object that no step is about to read, are not tried: the pass
does not look. Nothing depends on how many values a set has beyond equality, or order
for versions. The theorems below remove the bounds for the safety properties that they state.

`CHECK_DEADLOCK FALSE` appears where the system rests when it is settled and the bounds are
used up (`selfconfig`, `manifests`, `rollout`, `workspace`); in the other runs a periodic
pass never ends.

Two properties leave out what the code does not give, and say so in their comments. A
pass that itself began with an old revision may count a rollback again that is over, so `RollbackCountedOnce` speaks of the
passes that did not (`~stale`), in a system in which the others run too; the one write it excepts is
described [below](#disagreements). `DeletionEnds` allows for a Secret that is there but of no use: one that breaks,
with an operator that crashes after the timeout is recorded, waits for an administrator. `live`
leaves out the deletion of the StatefulSet, which during a health check is waited for and never repaired.

## Fairness

- `WF(Operator)` (`AutoUpdate`, `BackupRestore`, `SelfConfig`), `WF(BeginPass \/ Handler)`
  (`Resources`): a pass that was started goes on, and a new one starts; controller-runtime
  requeues every failed pass, and every wait and every success in the code returns a
  `RequeueAfter`.
- `WF` of the clock (`CheckIntervalPasses`, `HealthCheckTimeoutPasses`, `BackupTimeoutPasses`,
  `SelfConfigTTLPasses`), of the cache's synchronisation (in `SelfConfig` of each informer by itself) and of
  the cluster's controllers.
- `SF(JobExpires)` in `AutoUpdate`: a finished Job is deleted at a fixed time, whatever the
  update does until then. In `BackupRestore` weak fairness of the expiry of failed Jobs is
  enough.
- Jobs and terminating pods end (`~ClusterMayHang`) in `volume`; with a cluster that may hang the safety
  properties are proved.

No fairness is assumed of users, the registry, GitHub, faults or crashes. `Converges` is of
the form "eventually always", which the bound on disturbances makes meaningful: it says that
once they stop everything agrees with the spec, unless the spec names something that does
not exist.

## Refinement

`LevelTriggered` has two variables: something differs from what is wanted (`debt`), and no
request is queued or in progress (`asleep`). It may do anything while awake, whatever causes
debt wakes it, and it goes to sleep only without debt. `Resources` implements it with
`debt <- ~Settled` and `asleep <- Asleep`: the owned objects that are watched, the status and
the old Deployment agree with the spec whenever the queue is empty. So no change of a
watched thing is lost, in whatever step of a pass it falls; a mapping function that misses a
reference, an early return without requeue or a handler that reports success too early
breaks it. Objects that are not watched are outside `Settled`; `Converges` says that the
periodic requeue repairs them too. The run checks this on the instance; `SleepIsEarned` in
`LevelTriggered_proofs` proves it.

## Proofs

TLAPS proves the safety properties from the modules' named assumptions (the types
of the constants; the threshold and the number of versions are positive, the bucket's name
is not empty; a request sets fields to values; a token that is generated is not one in use),
so for any number of versions, paths, requests, fields, specs, edits and faults. Where a
theorem has a hypothesis of its own, it is named below together with the behaviour that breaks the
property without it.

**AutoUpdate** (`Invariance`, then `TypeCorrect`, `CircuitBreaker`, `ConditionMatchesUpdate`,
`RollbackHasTarget`, and the action properties `UpdatesAreForward`, `RollbacksCountOnce`). What the stored status satisfies is not
inductive, because a pass stores what it computed from a copy that other writes may have
overtaken. The invariant therefore says that the stored, the cached and the held status are
each `Coherent`, and for each `pc` what the next write relies on (`PcOK`). The exception is the
copy that `driveRollback`'s patch decodes over a stale one: it may mix two revisions, and the
proof shows that the write that follows puts it right. Lemmas on `StatusUpdate`, `Local`, `PatchTag` and
the steps on the workload reduce each action to what it changes.

The action properties compare two stored states, between which a copy travels through a whole
pass. `NextShape` classifies every step once (it begins a pass, writes the status, patches the tag, keeps
the status, starts an update, or is the environment's), and small invariants say what
a copy may differ in. Both theorems hold with a lagging cache. `VersionInv` orders the versions on record: however
old the revision that a pass began with, none in the store, the cache or the copy is newer than the
stored update, or than the one that a current copy is about to store. So a pass that works on an old copy, and
becomes current by a patch, still compares with what does not exceed the stored tag (`ForwardInv`), and
`UpdatesAreForward` says of every pass that no update goes back. That the version stored as failed is not
retried it says of passes that began with the stored revision (`CopyInv`): an old copy may not
know of the failure. It assumes that the tag names a published version at all times
(`TagPublished`): with another one, a failed patch followed by a failed abort can store an update to an
older version. `RollbacksCountOnce` has no assumption; the property it proves is about passes that began with
the stored revision, of which `CountInv` says that their copy is ahead of the stored count only after the write
that ends the update failed, and then by one, without an update, until the pass ends. The write it excepts is
that of a pass that pins `latest` again: its patch's response puts the stored update beside the copy's count, and
the status update after it stores both.

**BackupRestore** (`Invariance`, then `TypeCorrect`, `BackupPathOnRecord`, `QuietBackup`, and
the action properties `BackupFirst`, `RestoredOnce`, `RestoredFirst`). The invariant has five
parts beyond types. `CopyOK`: the operator alone writes the status, so a pass's copy is the stored
one except after a failed write. `DeletionOK`: once a deletion pass runs or a backup Job exists,
the instance is deleted for good and no other pass is under way. `PathOK` and `QuietOK`: the path
is saved and the workload is down before the Job is created, and nobody undoes either; the second
rests on `DeletionOK`, which excludes `reconcileResources`. `LetGoOK`: the reason for
which a pass removes the finalizer still holds then, because a changed annotation makes the copy
stale and the removal is refused. `RestoreOK`: a restore Job runs only while nothing is recorded as restored,
in the store or in a copy that failed to be stored. Each part is preserved given the types
and at most one other part.

**SelfConfig** (`Invariance`, then `TypeCorrect`, `ProtectedFieldsAreSafe`, and the action properties
`VerdictsHold`, `RemovalSafety`). A pass and the two caches hold copies of what was stored
earlier, so nothing about the stored objects is inductive alone. The invariant says that the
protected values in the stored instance, in the cached one and in the pass's copy were all
given by the user or GitOps (`Given`); that a cached request is an earlier revision of the
stored one (`Behind`), so that a pass that starts from an old "Pending" is refused at its status
write; and what a pass between two of its writes relies on (`PassOK`). It covers both caches
lagging. `RemovalSafety` needs one more fact, that only fields that are there have owners (`Owned`),
preserved by every apply because nothing that is applied is empty. `WarningsAreTrue` holds however old
the copy is in which the ownership is looked up: from then on nobody but the pass itself makes the self-config manager an
owner, so what was not the manager's at the look-up is not the manager's at the apply (`WarnInv`). What was, and the
copy did not show, is `unseen`; of such an item the warning is wrong, and no property claims that it is not.

**Manifests** (`Inductive`, then `EveryMountIsDeclared`, `UsersFit`, `PortsAreReached`, `MetricsArePrivate`,
`APIUsersHaveAccess`, `InlineConfigArrives`). The properties are about what the builders
make of any spec that the webhook admits and the cluster defaults complete, so the invariant is short: every
spec that is stored, rendered or run is `Buildable` (well formed, and past
the two validations that the builders rely on), and what a ConfigMap and a pod hold of inline config is the rendering
of their spec. The work is in lemmas about the builders, one per container, volume and port: which mounts
a container has and which volume declares each, for every combination of the guards. `InlineConfigArrives` rests on
`HashCoversTheConfig`: the hash leaves out the gateway token and fields that the enrichment reads,
and still two specs with one template have one ConfigMap.

**Workspace** (`Invariance`, then `CachedPacksAreKept`, `CleanupIsConfined`, `AgentEditsSurvive`, `ManagedFilesAreCurrent`,
`SyncsLeaveNothingTracked`). The properties speak of what scripts leave that were rendered from different declarations and cut
at any line, so the proof begins with what every rendered script has in common: `ScriptIsGood` shows that
`BuildInitScript` gives one block for each workspace, whose sync stages exactly what it copies, cleans before it copies and
promotes or drops last (`GoodBlock`), and which applies every managed file. The invariant then says, of the line that
the pod has reached, what the lines behind it have done: a marker records what the last apply copied unless the
file is torn (`MarkerInv`), the applies behind have left their content or the agent's (`AppliedInv`), and the staged and the promoted
manifests list what the sync copies (`SyncInv`, `SyncedInv`). `TrackedInv` ties the two runs of a sync together: every
file that was copied is in a manifest or in `untracked`, and a promotion loses none because the cleanup before it left nothing of the
old manifest that the new one lacks. `PassInv` says that a workspace whose packs were all cached is resolved or still to be
resolved, since a pack that fails has no entry to fall back to. `WorkspaceAssumption` asks that declarations, ConfigMaps and packs are
finite, that every declared pack is one of `Packs` (one that does not exist has no revision), and that no pack contains the agent's own content.

**Resources** (`Invariance`, then `TypeCorrect`, and the action properties `TokenStability`, `OrderIsSafe`).
The order of the handlers alone does not give `NeedsComeFirst`: what an earlier handler wrote must
still be there, according to the copy of the spec that this pass holds and whatever happened
since. `Done` says so of every step behind the pass; one lemma (`AdvanceIInv`) shows what
a step must do to preserve it, and each handler is reduced to that. It is proved for any families of specs, any
kinds that are deleted by hand (of which the property then does not speak) and any steps
at which passes are cut.

**LevelTriggered** (`LevelInvariance`, then `SleepIsEarned`). A step of `Resources` refines a step of `LevelTriggered` if no
pass that ends asleep leaves a difference, so the invariant has to follow a pass whose request is not yet
queued again: as long as nothing happened that wakes the operator, the pass holds the current spec and what is
behind it agrees with it (`CleanPass`). The token is the hard part: the pass carries one from the
Secret to the ConfigMap, and the Secret may be deleted or read late in between. `CleanToken` says that the one
carried is the Secret's or new, and a new one changes the ConfigMap, which is watched; it needs
that a generated token is not in use, which `FamiliesAssumption` says of a set of at least four. `CRDsKnown` lets a
handler skip a kind that the cluster lacks without leaving a name in the status, and `Shapes` bounds the
tokens in use. For each handler one lemma shows that what is behind the pass still
agrees, or the operator is awake; the environment's steps are reduced to whether they change something that is watched.

Out of the prover's reach and only model-checked: the liveness properties (`UpdateEnds`, `WorkloadComesBack`,
`ImageConverges`, `ReachesNewestVersion`, `DeletionEnds`, `RestoreEnds`, `EveryRequestEnds`, `Converges`).

<a name="disagreements"></a>
## Where the code and its documentation disagree

Each violation run checks one statement of a doc or a comment and ends in a
counterexample:

- `confirm`: `driveHealthCheck` confirms an update by a pod that still runs the old version;
  while an update is pending `Reconcile` returns before `reconcileResources`, so the
  StatefulSet gets the new image only after the update is confirmed.
- `restore`: the path of an update's backup is never recorded, because `lastPreUpdateBackupPath` takes the local directory
  for the remote path (`autoupdate.go:623`); a rollback has nothing to restore from (`README.md:1219`, "full data
  restore"; `autoupdate.go:275`).
- `reset`: after the breaker has opened the user edits `spec.image.tag`, as the runbook says
  (`docs/runbooks/OpenClawAutoUpdateRollback.md:36`); the count is not reset, and no version is checked any more.
- `orphan`: a failure to drop the claim's owner reference is only logged, and the claim that was
  to be retained is garbage collected.
- `rollout`: the content of `spec.config.configMapRef` is not in the hash on the pod template, so a
  change of it never reaches a running pod.

Further ones were met while modelling. Those of the first list are behaviours of the models;
the properties are stated so as not to claim the contrary.

Updates:

- A crash after the tag is patched (`autoupdate.go:293`) and before the status is saved lets the
  next pass save the new tag as the previous version; a rollback then goes to the version it
  leaves.
- An error inside the update's drive falls through to `reconcileResources`
  (`openclawinstance_controller.go:189`), which starts the pod beside the running backup Job
  (`autoupdate.go:297-299` says that it is not reached). `WorkloadComesBack` says that a workload is scaled
  up again, not that it stays down until then.
- The pre-update Job's name is fixed: a second update within 24 hours takes the first one's
  Job for its own backup (`docs/backup-restore.md:44`, "before each auto-update").
- A missing credentials Secret aborts every update (`docs/backup-restore.md:47` says it proceeds).
- A health check's clock runs on while the instance is suspended, so a resumed instance may be
  rolled back at once. A StatefulSet deleted during the health check is waited for and never recreated.
- A pass that begins with an old revision may count a rollback again that is over, and
  several of them may retry a failed version. Without any, a tag set back to `latest` during a rollback
  whose final write is refused lets the rollback be counted while its update goes on, and so again later.
- A tag that the registry does not have is compared like any other: when the patch to a newer version fails and the
  write that aborts the update fails too, an update to an older version can be started.

Deletion and restore:

- The timeout clears `backingUpSince` and saves phase Terminating before the finalizer is
  removed; a crash in between leaves a deletion without a timeout (`docs/backup-restore.md:66`).
- `status.restoredFrom` records the current `spec.restoreFrom`, not the path the Job was given
  (`restore.go:143`).
- `restoreFrom` set on a running instance restores under the live pod; a second request is
  ignored and never cleared (`docs/backup-restore.md:98-99`).
- `lastBackupPath` is written before the backup succeeds ("last successful backup", types.go:1951);
  `backingUpSince` is not cleared on the way without credentials (types.go:1938).
- A failed backup Job is not run again before the timeout, although the log says it is retried
  (`backup.go:226`).
- With the StatefulSet gone, the deletion looks for no pods (`backup.go:117`), which is why
  `NoPodDuringBackup` speaks of an existing StatefulSet.

Self-config:

- `buildApplySpec` applies the categories of one request under the one field manager, so the fields
  that earlier requests of other categories set are given up and dropped (`selfconfig_apply.go:266`).
- A forced apply from a stale copy may write an old value of the user's back, protected fields
  included (`docs/openclaw-self-config.md:35`); `ProtectedValuesAreUsers` says that the value is the user's, not that
  it is the last. A warning from a stale copy may be about a removal that takes effect (`unseen`).
- A crash or a lost answer after the apply lets a request be applied again, or be marked Denied or
  Failed although it was applied. An apply to an instance deleted meanwhile creates it again.
- Every removal of a skill is warned about, because the keys of set items keep their quotes; a removal
  without effect because somebody else owns the item too is not (`docs/openclaw-self-config.md:31`).

Manifests:

- A pod that starts between the write of the ConfigMap and of the StatefulSet, followed by a
  revert, keeps the other revision's config (`early` in `Manifests`).
- `HasGatewayBindConflict` reads only `config.raw`; a JSON5 external config is never enriched.
- Custom Service ports: a port of theirs at the metrics port's number leaves the ServiceMonitor without
  its port; Ingress and HTTPRoute keep a backend that does not exist; the policy lacks 9222.
- Not refused: `metricsPort` 9222 with Chromium, container user 0, and user init containers
  with the names of some of the operator's. The storage class can be changed through unset.
- A default image digest overrides a pinned tag, and defaults for the tag, the repository and the pull
  policy never apply, because the webhook fills those fields in first ("Per-instance fields always win").

Workspace:

- `_ocw_apply` records the script's hash whatever it copied (`workspace_files.go:167`): after a pod
  that started between two writes, or died between rename and record, and a source that is set
  back, the file is never corrected (types.go:382). `ReplaceFilesAreCurrent` does not speak of such files (`torn`).
- The keys of `docs/x` and `docs--x` are the same. A pack file copied by a sync that dies before its
  promotion is never removed; neither are the files of a removed additional workspace.
- One pack that cannot be resolved takes all packs of its workspace with it, and a Replace sync then
  deletes their files; so does an outage after a restart of the operator, whose cache is cold.
- A change of a pack's content alone does not roll the pod; a pack may mix two upstream revisions.

Resources:

- With auto-scaling `reconcileStatefulSet` keeps the replica count it finds
  (`openclawinstance_controller.go:1428`), so an instance resumed and auto-scaled in one edit stays at
  zero replicas (`README.md:1529`).
- The Chromium claim is deleted only if the status names it, so it leaks when that status update is
  lost; it is deleted before the StatefulSet stops using it.
- RBAC objects, the mesh state, basic-auth, middleware and mirror Secrets are never removed.
- Missing S3 credentials leave an outdated CronJob; with an HPA the CronJob mounts the standalone claim
  (`s3.go:352`).
- A transient error of the secret hash drops the annotation and restarts the pod.
- S3 credentials, claims, HTTPRoutes, PrometheusRules and Middlewares are not watched.

<a name="not-modelled"></a>
## What is not modelled

- `driveRollbackRestore`: unreachable as long as no backup path is recorded, see the run `restore`.
- The version resolver: HTTP, pagination and a cache under a mutex. `AutoUpdate` takes its
  answer as the variable `latest`.
- The text of events, log lines, messages, probes, commands, environment variables and dashboards; metrics;
  the command line. The webhook's warnings. Parsing of names, quantities and paths is reduced to good
  and bad values.
- Environment variables with `valueFrom` in `SelfConfig`, and concurrent workers for
  different instances, which share nothing but the resolvers' caches.
- Updates, deletion, restores, the workspace and the pass over the objects are separate models; they
  share the StatefulSet and the volume. What one assumes of another is an action of its
  environment (`Resources` has edits of `suspended`, `BackupRestore` has the start of the
  workload). The HPA variant of updates and deletions (replica counts above 1) is left out.
- Child objects are read as stored, not through a lagging cache, except the gateway token's
  Secret; a cache that catches up jumps to the current revision. Published versions only grow.
- `Persistence`, `ExistingClaim`, `Orphan` and `BackupBeforeUpdate` are constants: editing
  them between passes is not modelled.
- Generated code and declarations of the API without a guard that reads them.

## Plan

1. *Done*: `AutoUpdate`, `BackupRestore`, `SelfConfig`, `Manifests` with its parts, `Workspace`, `Resources` and
   its refinement, their runs, and the proofs above.
2. `Volume`: the composition of update, deletion, restore and the periodic CronJob over one claim, with at
   most one writer of the volume as its abstract specification.
