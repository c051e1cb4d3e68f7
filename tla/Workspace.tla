----------------------------- MODULE Workspace -----------------------------
(***************************************************************************)
(* The files of the agent's workspaces, from their declaration to the      *)
(* data volume.  A reconcile pass resolves the declared skill packs        *)
(* through a cache in front of GitHub, writes the workspace ConfigMap and  *)
(* then the StatefulSet with the init script; the init container of each   *)
(* pod runs that script line by line over the volume and the ConfigMap of  *)
(* the moment, and starts again from the top when it dies.  There is no    *)
(* "set -e": a line that fails is skipped.  Once the script is through,    *)
(* the agent owns the files until the next pod.                            *)
(*                                                                         *)
(* A path is a sequence of segments, a segment a sequence of words joined  *)
(* by "--".  A content is a model value and is its own hash.               *)
(***************************************************************************)
EXTENDS Naturals, Sequences, FiniteSets, SequencesExt, Functions

CONSTANTS
    Main,          \* the default workspace
    Declarations,  \* what spec.workspace, spec.skills and the policies may say
    InitialDeclarations, \* what they say first
    ExternalMaps,  \* contents of the ConfigMap that configMapRef names
    Missing,       \* ... when it does not exist or has an invalid filename
    Revisions,     \* for each pack, the sequence of its upstream revisions
    SkillMD,       \* the content-independent name of SKILL.md in a raw pack
    Injected,      \* the content of the operator's own files
    EnvironmentMD, BootstrapMD, \* their paths
    Own, Link,     \* a file that the agent wrote, a symbolic link it made
    Edited,        \* the slots that the agent writes to
    MaxEdits,      \* bound on edits by users and by the agent, and on releases
    MaxFaults      \* bound on outages, crashes and restarts

Packs == DOMAIN Revisions
PackContents == UNION {UNION {Range(Revisions[p][i].files) : i \in DOMAIN Revisions[p]} : p \in Packs}

IsDeclaration(d) ==
    /\ Main \in DOMAIN d.workspaces /\ IsFiniteSet(DOMAIN d.workspaces)
    /\ \A w \in DOMAIN d.workspaces :
          /\ IsFiniteSet(DOMAIN d.workspaces[w].inline)
          /\ IsFiniteSet(d.workspaces[w].packs) /\ d.workspaces[w].packs \subseteq Packs

ASSUME WorkspaceAssumption ==
    /\ InitialDeclarations \subseteq Declarations /\ \A d \in Declarations : IsDeclaration(d)
    /\ \E e \in ExternalMaps : e # Missing
    /\ \A e \in ExternalMaps \ {Missing} : IsFiniteSet(DOMAIN e)
    /\ \A p \in Packs :
          /\ Len(Revisions[p]) \in Nat /\ Revisions[p] = [i \in 1 .. Len(Revisions[p]) |-> Revisions[p][i]]
          /\ \A i \in DOMAIN Revisions[p] : IsFiniteSet(DOMAIN Revisions[p][i].files)
    /\ Own \notin PackContents /\ Link \notin PackContents
    /\ \A s \in Edited : s = <<s[1], s[2]>>

VARIABLES
    decl,      \* the stored declaration
    ext,       \* the external ConfigMap
    upstream,  \* the revision of each pack that GitHub serves
    reachable, \* GitHub answers
    cache,     \* the resolver's cache: pack -> its files, and whether the TTL has passed
    pass,      \* the reconcile pass
    cm,        \* the workspace ConfigMap: key -> content
    sts,       \* the pod template: the init script and what the config hash covers
    pod,       \* the pod: its template, its place in the script, whether a marker is due
    vol,       \* the files on the data volume: <<workspace, path>> -> content
    markers,   \* /data/.workspace-managed: key -> hash
    manifest,  \* /data/.skillpack-manifest*: workspace -> paths
    staging,   \* ... .new
    applied,   \* history: the last content that a Replace file was given
    torn,      \* history: slots that were given something that their marker does not record
    listed,    \* history: slots that some pack sync declared
    untracked, \* history: slots that were given something that no manifest lists
    edits, faults

operatorVars == <<cache, pass>>
clusterVars == <<cm, sts>>
history == <<applied, torn, listed, untracked>>
volumeVars == <<vol, markers, manifest, staging>>
vars == <<decl, ext, upstream, reachable, operatorVars, clusterVars, pod, volumeVars, history, edits, faults>>

None == <<>>
Idle == [step |-> "idle"]

Without(f, S) == Restrict(f, DOMAIN f \ S)

\* f, and g where f says nothing.
f ++ g == [x \in DOMAIN f \cup DOMAIN g |-> IF x \in DOMAIN f THEN f[x] ELSE g[x]]

Put(f, x, v) == [y \in DOMAIN f \cup {x} |-> IF y = x THEN v ELSE f[y]]

-----------------------------------------------------------------------------
(* Update policies. *)

Additional(d) == DOMAIN d.workspaces \ {Main}

defaultedPolicy(p) == IF p = "Replace" THEN "Replace" ELSE "CreateOnly"

\* An entry without a policy means Replace.
managedFilePolicy(entry) == IF entry = "" THEN "Replace" ELSE entry

WorkspaceFilePolicy(d, p) ==
    LET ws == d.workspaces[Main]
    IN  IF p \in DOMAIN ws.managed THEN managedFilePolicy(ws.managed[p]) ELSE defaultedPolicy(ws.policy)

AdditionalWorkspaceFilePolicy(d, w, p) ==
    LET aw == d.workspaces[w]
    IN  CASE p \in DOMAIN aw.managed -> managedFilePolicy(aw.managed[p])
          [] p \notin DOMAIN aw.managed /\ aw.policy # "" -> defaultedPolicy(aw.policy)
          [] OTHER -> defaultedPolicy(d.workspaces[Main].policy)

FilePolicy(d, w, p) ==
    IF w = Main THEN WorkspaceFilePolicy(d, p) ELSE AdditionalWorkspaceFilePolicy(d, w, p)

\* Inline files win over those of configMapRef; e is None when that is missing.
WorkspaceSources(d, w, e) ==
    LET ws == d.workspaces[w]
    IN  IF ws.ref THEN ws.inline ++ e ELSE ws.inline

ReplaceSources(d, w, e) ==
    LET sources == WorkspaceSources(d, w, e)
    IN  Restrict(sources, {p \in DOMAIN sources : FilePolicy(d, w, p) = "Replace"})

InjectedPaths(d, w) ==
    {EnvironmentMD} \cup (IF w = Main /\ d.bootstrap THEN {BootstrapMD} ELSE {})

-----------------------------------------------------------------------------
(* Keys of the ConfigMap and of the markers: "/" becomes "--". *)

SkillPackCMKey(p) == FlattenSeq(p)

AdditionalWorkspaceCMKey(w, key) == <<"", "ws", w>> \o key

CMKey(w, p) == IF w = Main THEN SkillPackCMKey(p) ELSE AdditionalWorkspaceCMKey(w, SkillPackCMKey(p))

managedMarkerPath(w, p) ==
    IF w = Main THEN SkillPackCMKey(p) ELSE <<"ws-" \o w>> \o SkillPackCMKey(p)

\* The packs resolved for a workspace; None when they are not, or there are none.
PackFiles(packs, w) == IF w \in DOMAIN packs THEN packs[w] ELSE None

\* Operator files over inline files over configMapRef over packs.
WorkspaceFiles(d, w, e, packs) ==
    [p \in InjectedPaths(d, w) |-> Injected] ++ (WorkspaceSources(d, w, e) ++ PackFiles(packs, w))

BuildWorkspaceConfigMap(d, e, packs) ==
    LET files == [w \in DOMAIN d.workspaces |-> WorkspaceFiles(d, w, e, packs)]
        slots == UNION {{w} \X DOMAIN files[w] : w \in DOMAIN files}
    IN  [k \in {CMKey(s[1], s[2]) : s \in slots} |->
           LET s == CHOOSE s \in slots : CMKey(s[1], s[2]) = k IN files[s[1]][s[2]]]

-----------------------------------------------------------------------------
(* The init script: for each workspace, a sequence of lines. *)

Line(op, w) == [op |-> op, ws |-> w, path |-> None, hash |-> "", paths |-> {}]
ForPath(op, w, p) == [Line(op, w) EXCEPT !.path = p]
Stage(w, paths) == [Line("stage", w) EXCEPT !.paths = paths]
ForEach(op, w, paths) == LET order == SetToSeq(paths) IN [i \in DOMAIN order |-> ForPath(op, w, order[i])]

HasSkillPackFiles(packs, w) == DOMAIN PackFiles(packs, w) # {}

\* A bug: the files of dropped packs are left in place.
SyncWithoutCleanup(packs, w) ==
    LET paths == DOMAIN PackFiles(packs, w)
    IN  <<Stage(w, paths)>> \o ForEach("copy", w, paths) \o <<Line("promote", w)>>

buildSkillPackSyncLinesAt(packs, w) ==
    LET paths == DOMAIN PackFiles(packs, w)
    IN  IF ~HasSkillPackFiles(packs, w)
        THEN <<Line("stageEmpty", w), Line("clean", w), Line("drop", w)>>
        ELSE <<Stage(w, paths), Line("clean", w)>> \o ForEach("copy", w, paths) \o <<Line("promote", w)>>

SkillPackLines(d, packs, w) ==
    IF d.packPolicy = "CreateOnly" THEN ForEach("seedPack", w, DOMAIN PackFiles(packs, w))
                                   ELSE buildSkillPackSyncLinesAt(packs, w)

WorkspaceLines(d, w, e, packs) ==
    LET hashes == ReplaceSources(d, w, e)
        order == SetToSeq(DOMAIN WorkspaceSources(d, w, e) \cup InjectedPaths(d, w))
    IN  [i \in DOMAIN order |->
           IF order[i] \in DOMAIN hashes
           THEN [ForPath("apply", w, order[i]) EXCEPT !.hash = hashes[order[i]]]
           ELSE ForPath("seed", w, order[i])]
        \o SkillPackLines(d, packs, w)

BuildInitScript(d, e, packs) ==
    LET others == SetToSeq(Additional(d))
    IN  <<WorkspaceLines(d, Main, e, packs)>>
        \o [i \in DOMAIN others |-> WorkspaceLines(d, others[i], e, packs)]

\* The template: a change of any part of it replaces the pod.
Template(d, e, packs) ==
    [script |-> BuildInitScript(d, e, packs), files |-> e,
     skills |-> [w \in DOMAIN d.workspaces |-> d.workspaces[w].packs]]

-----------------------------------------------------------------------------
(* The skill-pack resolver. *)

\* What the pass has to resolve: the packs of each workspace.
Wanted(d) == UNION {{w} \X d.workspaces[w].packs : w \in DOMAIN d.workspaces}

\* One workspace after the other, the default one first.
FirstPack(todo) ==
    LET open == {x[1] : x \in todo}
        w == IF Main \in open THEN Main ELSE CHOOSE v \in open : TRUE
    IN  CHOOSE x \in todo : x[1] = w

NextPack == FirstPack(pass.todo)

Revision(p) == Revisions[p][upstream[p]]

\* Without a skillpack.json the tree must be complete and hold a SKILL.md at its root.
Installable(rev) ==
    rev.manifest \/ (~rev.truncated /\ \E f \in DOMAIN rev.files : Len(f) = 3 /\ Last(f) = SkillMD)

CacheHit(p) == p \in DOMAIN cache /\ cache[p].fresh

\* The next pack is resolved to files.
Resolved(files) ==
    LET w == NextPack[1]
    IN  pass' = [pass EXCEPT !.todo = @ \ {NextPack}, !.rev = 0, !.packs = Put(@, w, files ++ PackFiles(@, w))]

\* The workspace goes without packs.
Abandoned(w) ==
    pass' = [pass EXCEPT !.todo = {x \in @ : x[1] # w}, !.rev = 0, !.packs = Without(@, {w})]

\* A bug: an expired entry is not used when GitHub does not answer.
resolvePackWithoutFallback(p) == Abandoned(NextPack[1])

\* A failed fetch: the expired entry serves; without one, the whole workspace
\* goes without packs.
resolvePackFailed(p) ==
    IF p \in DOMAIN cache THEN Resolved(cache[p].files) ELSE Abandoned(NextPack[1])

Resolving == pass.step = "resolve" /\ pass.todo # {}

\* What a pass would resolve, all entries being fresh.
CachedPacks(d) ==
    [w \in {v \in DOMAIN d.workspaces : d.workspaces[v].packs # {} /\ d.workspaces[v].packs \subseteq DOMAIN cache} |->
       LET packs == d.workspaces[w].packs
       IN  [f \in UNION {DOMAIN cache[p].files : p \in packs} |->
              cache[CHOOSE p \in packs : f \in DOMAIN cache[p].files].files[f]]]

\* The files of the ConfigMap that the declaration refers to, if it is there.
External(d, e) == IF e # Missing /\ \E w \in DOMAIN d.workspaces : d.workspaces[w].ref THEN e ELSE None

\* Passes that would change nothing are left out.
WorkToDo ==
    \/ \E x \in Wanted(decl) : ~CacheHit(x[2])
    \/ cm # BuildWorkspaceConfigMap(decl, External(decl, ext), CachedPacks(decl))
    \/ sts # Template(decl, External(decl, ext), CachedPacks(decl))

\* known: history, the packs of which the pass found an entry.
BeginPass ==
    /\ pass = Idle
    /\ WorkToDo
    /\ pass' = [step |-> "resolve", decl |-> decl, todo |-> Wanted(decl), rev |-> 0, packs |-> None,
                known |-> DOMAIN cache]
    /\ UNCHANGED <<decl, ext, upstream, reachable, cache, clusterVars, pod, volumeVars, history, edits, faults>>

resolvePack ==
    /\ Resolving /\ pass.rev = 0
    /\ CacheHit(NextPack[2])
    /\ Resolved(cache[NextPack[2]].files)
    /\ UNCHANGED <<decl, ext, upstream, reachable, cache, clusterVars, pod, volumeVars, history, edits, faults>>

\* fetchPack, first request: the manifest or, when there is none, the tree.
fetchManifest ==
    /\ Resolving /\ pass.rev = 0
    /\ LET p == NextPack[2]
       IN  /\ ~CacheHit(p)
           /\ IF reachable /\ upstream[p] # 0 /\ Installable(Revision(p))
              THEN pass' = [pass EXCEPT !.rev = upstream[p]]
              ELSE resolvePackFailed(p)
    /\ UNCHANGED <<decl, ext, upstream, reachable, cache, clusterVars, pod, volumeVars, history, edits, faults>>

\* The files that it names are fetched at the revision of the moment.
fetchFiles ==
    /\ Resolving /\ pass.rev # 0
    /\ LET p == NextPack[2]
           names == DOMAIN Revisions[p][pass.rev].files
       IN  IF reachable /\ names \subseteq DOMAIN Revision(p).files
           THEN /\ Resolved(Restrict(Revision(p).files, names))
                /\ cache' = Put(cache, p, [files |-> Restrict(Revision(p).files, names), fresh |-> TRUE])
           ELSE resolvePackFailed(p) /\ UNCHANGED cache
    /\ UNCHANGED <<decl, ext, upstream, reachable, clusterVars, pod, volumeVars, history, edits, faults>>

\* An expiry after which the same files would be fetched again is left out.
cacheTTLPasses(p) ==
    /\ CacheHit(p) /\ pass = Idle
    /\ reachable => cache[p].files # Revision(p).files
    /\ cache' = [cache EXCEPT ![p].fresh = FALSE]
    /\ UNCHANGED <<decl, ext, upstream, reachable, pass, clusterVars, pod, volumeVars, history, edits, faults>>

-----------------------------------------------------------------------------
(* The rest of the pass. *)

reconcileWorkspaceConfigMap ==
    /\ pass.step = "resolve" /\ pass.todo = {}
    /\ cm' = BuildWorkspaceConfigMap(pass.decl, External(pass.decl, ext), pass.packs)
    /\ pass' = [step |-> "write", decl |-> pass.decl, files |-> External(pass.decl, ext), packs |-> pass.packs,
                known |-> pass.known]
    /\ UNCHANGED <<decl, ext, upstream, reachable, cache, sts, pod, volumeVars, history, edits, faults>>

reconcileStatefulSet ==
    /\ pass.step = "write"
    /\ sts' = Template(pass.decl, pass.files, pass.packs)
    /\ pass' = Idle
    /\ UNCHANGED <<decl, ext, upstream, reachable, cache, cm, pod, volumeVars, history, edits, faults>>

-----------------------------------------------------------------------------
(* The pod and its init script. *)

Script == pod.tpl.script
Running == pod # None /\ pod.block > Len(Script)
InScript == pod # None /\ pod.block <= Len(Script)
Block == Script[pod.block]
CurrentLine == Block[pod.line]
Slot(l) == <<l.ws, l.path>>
Source(l) == CMKey(l.ws, l.path)
Marker(s) == managedMarkerPath(s[1], s[2])
Tracked(s) == s[1] \in DOMAIN manifest /\ s[2] \in manifest[s[1]]

Advanced ==
    pod' = IF pod.line < Len(Block) THEN [pod EXCEPT !.line = @ + 1, !.due = FALSE]
                                    ELSE [pod EXCEPT !.block = @ + 1, !.line = 1, !.due = FALSE]

\* cp follows a link, and fails when the ConfigMap has no such key.
Copies(l) == Source(l) \in DOMAIN cm /\ (Slot(l) \in DOMAIN vol => vol[Slot(l)] # Link)

Copied(l) ==
    IF ~Copies(l) THEN UNCHANGED <<vol, untracked>>
    ELSE /\ vol' = Put(vol, Slot(l), cm[Source(l)])
         /\ untracked' = IF Tracked(Slot(l)) THEN untracked ELSE untracked \cup {Slot(l)}

\* Whether a copy gives an existing file what its last apply gave it.
Repeats(l) ==
    Slot(l) \in DOMAIN vol /\ Slot(l) \in DOMAIN applied /\ applied[Slot(l)] = cm[Source(l)]

\* A copy that _ocw_apply does not make.
CopiedAside(l) ==
    /\ Copied(l)
    /\ torn' = IF Copies(l) /\ ~Repeats(l) THEN torn \cup {Slot(l)} ELSE torn

\* [ -f dst ] || cp src dst
SeedFile ==
    /\ InScript /\ CurrentLine.op \in {"seed", "seedPack"}
    /\ IF Slot(CurrentLine) \in DOMAIN vol THEN UNCHANGED <<vol, torn, untracked>> ELSE CopiedAside(CurrentLine)
    /\ Advanced
    /\ UNCHANGED <<decl, ext, upstream, reachable, operatorVars, clusterVars, markers, manifest, staging,
                   applied, listed, edits, faults>>

\* A bug: any marker will do.
UpToDateByPresence(l) == Slot(l) \in DOMAIN vol /\ managedMarkerPath(l.ws, l.path) \in DOMAIN markers

\* Whether _ocw_apply leaves the destination alone.
UpToDate(l) ==
    LET k == managedMarkerPath(l.ws, l.path)
    IN  Slot(l) \in DOMAIN vol /\ k \in DOMAIN markers /\ markers[k] = l.hash

Refused(l) == Slot(l) \in DOMAIN vol /\ vol[Slot(l)] = Link

\* The copy of _ocw_apply, which counts as torn until the marker is written.
Applied(l) ==
    /\ Copied(l)
    /\ pod' = [pod EXCEPT !.due = TRUE]
    /\ applied' = IF Copies(l) THEN Put(applied, Slot(l), cm[Source(l)]) ELSE applied
    /\ torn' = torn \cup {Slot(l)}

\* A bug: the destination is rewritten by every pod.
applyAlways ==
    /\ InScript /\ CurrentLine.op = "apply" /\ ~pod.due
    /\ Applied(CurrentLine)
    /\ UNCHANGED <<decl, ext, upstream, reachable, operatorVars, clusterVars, markers, manifest, staging,
                   listed, edits, faults>>

\* _ocw_apply up to the rename; the marker is written next.
applyManagedFile ==
    /\ InScript /\ CurrentLine.op = "apply" /\ ~pod.due
    /\ IF Refused(CurrentLine) \/ UpToDate(CurrentLine)
       THEN Advanced /\ UNCHANGED <<vol, applied, torn, untracked>>
       ELSE Applied(CurrentLine)
    /\ UNCHANGED <<decl, ext, upstream, reachable, operatorVars, clusterVars, markers, manifest, staging,
                   listed, edits, faults>>

\* The marker is written whether or not the copy succeeded.  Slots whose paths
\* differ in "/" and "--" only share it.
writeMarker ==
    /\ InScript /\ pod.due
    /\ LET l == CurrentLine
           s == Slot(l)
           Given(f) == s \in DOMAIN f /\ f[s] = l.hash
       IN  /\ markers' = Put(markers, Marker(s), l.hash)
           /\ torn' = (torn \cup {t \in DOMAIN applied : Marker(t) = Marker(s)})
                      \ (IF Given(vol) /\ Given(applied) THEN {s} ELSE {})
    /\ Advanced
    /\ UNCHANGED <<decl, ext, upstream, reachable, operatorVars, clusterVars, vol, manifest, staging,
                   applied, listed, untracked, edits, faults>>

StageManifest ==
    /\ InScript /\ CurrentLine.op \in {"stage", "stageEmpty"}
    /\ LET w == CurrentLine.ws
       IN  /\ staging' = IF CurrentLine.op = "stageEmpty" /\ w \notin DOMAIN manifest THEN staging
                         ELSE Put(staging, w, CurrentLine.paths)
           /\ listed' = listed \cup ({w} \X CurrentLine.paths)
    /\ Advanced
    /\ UNCHANGED <<decl, ext, upstream, reachable, operatorVars, clusterVars, vol, markers, manifest,
                   applied, torn, untracked, edits, faults>>

\* A bug: every file of the workspace that is not declared is removed.
CleansWorkspace(w) == {s \in DOMAIN vol : s[1] = w /\ s[2] \notin staging[w]}

Stale(w) == {s \in DOMAIN vol : s[1] = w /\ s[2] \in manifest[w] \ staging[w]}

skillPackCleanupLoop ==
    /\ InScript /\ CurrentLine.op = "clean"
    /\ LET w == CurrentLine.ws
       IN  IF w \in DOMAIN manifest /\ Stale(w) # {}
           THEN /\ \E s \in Stale(w) : vol' = Without(vol, {s})
                /\ UNCHANGED pod
           ELSE Advanced /\ UNCHANGED vol
    /\ UNCHANGED <<decl, ext, upstream, reachable, operatorVars, clusterVars, markers, manifest, staging,
                   history, edits, faults>>

CopyPackFile ==
    /\ InScript /\ CurrentLine.op = "copy"
    /\ CopiedAside(CurrentLine)
    /\ Advanced
    /\ UNCHANGED <<decl, ext, upstream, reachable, operatorVars, clusterVars, markers, manifest, staging,
                   applied, listed, edits, faults>>

PromoteManifest ==
    /\ InScript /\ CurrentLine.op = "promote"
    /\ LET w == CurrentLine.ws
       IN  /\ manifest' = Put(manifest, w, staging[w])
           /\ staging' = Without(staging, {w})
           /\ untracked' = untracked \ ({w} \X staging[w])
    /\ Advanced
    /\ UNCHANGED <<decl, ext, upstream, reachable, operatorVars, clusterVars, vol, markers,
                   applied, torn, listed, edits, faults>>

DropManifest ==
    /\ InScript /\ CurrentLine.op = "drop"
    /\ IF CurrentLine.ws \in DOMAIN manifest
       THEN /\ manifest' = Without(manifest, {CurrentLine.ws})
            /\ staging' = Without(staging, {CurrentLine.ws})
       ELSE UNCHANGED <<manifest, staging>>
    /\ Advanced
    /\ UNCHANGED <<decl, ext, upstream, reachable, operatorVars, clusterVars, vol, markers, history, edits, faults>>

StartPod ==
    /\ sts # None
    /\ pod # None => pod.tpl # sts
    /\ pod' = [tpl |-> sts, block |-> 1, line |-> 1, due |-> FALSE]
    /\ UNCHANGED <<decl, ext, upstream, reachable, operatorVars, clusterVars, volumeVars, history, edits, faults>>

-----------------------------------------------------------------------------
(* The environment. *)

Edit == edits < MaxEdits /\ edits' = edits + 1 /\ UNCHANGED faults
Fault == faults < MaxFaults /\ faults' = faults + 1 /\ UNCHANGED edits

UserEdits ==
    /\ Edit
    /\ decl' \in Declarations \ {decl}
    /\ UNCHANGED <<ext, upstream, reachable, operatorVars, clusterVars, pod, volumeVars, history>>

ExternalMapChanges ==
    /\ Edit
    /\ \E w \in DOMAIN decl.workspaces : decl.workspaces[w].ref
    /\ ext' \in ExternalMaps \ {ext}
    /\ UNCHANGED <<decl, upstream, reachable, operatorVars, clusterVars, pod, volumeVars, history>>

PackIsReleased(p) ==
    /\ Edit
    /\ upstream[p] < Len(Revisions[p])
    /\ upstream' = [upstream EXCEPT ![p] = @ + 1]
    /\ UNCHANGED <<decl, ext, reachable, operatorVars, clusterVars, pod, volumeVars, history>>

GitHubGoes ==
    /\ Fault
    /\ reachable /\ reachable' = FALSE
    /\ UNCHANGED <<decl, ext, upstream, operatorVars, clusterVars, pod, volumeVars, history>>

GitHubReturns ==
    /\ ~reachable /\ reachable' = TRUE
    /\ UNCHANGED <<decl, ext, upstream, operatorVars, clusterVars, pod, volumeVars, history, edits, faults>>

OperatorRestarts ==
    /\ Fault
    /\ pass' = Idle /\ cache' = None
    /\ UNCHANGED <<decl, ext, upstream, reachable, clusterVars, pod, volumeVars, history>>

\* The init container dies, or the pod is evicted or restarted.
PodRestarts ==
    /\ Fault
    /\ pod # None
    /\ pod' = [pod EXCEPT !.block = 1, !.line = 1, !.due = FALSE]
    /\ UNCHANGED <<decl, ext, upstream, reachable, operatorVars, clusterVars, volumeVars, history>>

AgentWrites(s, content) ==
    /\ Edit
    /\ Running
    /\ vol' = Put(vol, s, content)
    /\ UNCHANGED <<decl, ext, upstream, reachable, operatorVars, clusterVars, pod, markers, manifest, staging, history>>

AgentDeletes(s) ==
    /\ Edit
    /\ Running /\ s \in DOMAIN vol
    /\ vol' = Without(vol, {s})
    /\ UNCHANGED <<decl, ext, upstream, reachable, operatorVars, clusterVars, pod, markers, manifest, staging, history>>

-----------------------------------------------------------------------------
Init ==
    /\ decl \in InitialDeclarations /\ ext = CHOOSE e \in ExternalMaps : e # Missing
    /\ upstream = [p \in Packs |-> IF Revisions[p] = <<>> THEN 0 ELSE 1]
    /\ reachable = TRUE
    /\ cache = None /\ pass = Idle
    /\ cm = None /\ sts = None /\ pod = None
    /\ vol = None /\ markers = None /\ manifest = None /\ staging = None
    /\ applied = None /\ torn = {} /\ listed = {} /\ untracked = {}
    /\ edits = 0 /\ faults = 0

Operator ==
    \/ BeginPass \/ resolvePack \/ fetchManifest \/ fetchFiles
    \/ reconcileWorkspaceConfigMap \/ reconcileStatefulSet

InitScript ==
    \/ SeedFile \/ applyManagedFile \/ writeMarker \/ StageManifest
    \/ skillPackCleanupLoop \/ CopyPackFile \/ PromoteManifest \/ DropManifest

Environment ==
    \/ UserEdits \/ ExternalMapChanges \/ GitHubGoes \/ OperatorRestarts \/ PodRestarts
    \/ \E p \in Packs : PackIsReleased(p)
    \/ \E s \in Edited : AgentWrites(s, Own) \/ AgentWrites(s, Link) \/ AgentDeletes(s)

Next ==
    \/ Operator \/ InitScript \/ StartPod \/ Environment \/ GitHubReturns
    \/ \E p \in Packs : cacheTTLPasses(p)

Spec == Init /\ [][Next]_vars

-----------------------------------------------------------------------------
(* Properties. *)

Lines == UNION {Range(Script[b]) : b \in DOMAIN Script}
ApplyLines == {l \in Lines : l.op = "apply"}

\* Everything has been rendered and the pod runs it.
Settled == Running /\ pod.tpl = sts /\ pass = Idle /\ ~WorkToDo

(* Replace makes a file converge to its source (BuildInitScript,            *)
(* managedFileApplyFunc): once the init script is through, a managed file   *)
(* has the content that the script was built for or one the agent gave it,  *)
(* unless the marker does not tell what was copied: the pod ran between the *)
(* write of the ConfigMap and that of the StatefulSet, or died between the  *)
(* rename and the marker, or two paths share the marker.  And which files   *)
(* are managed does not depend on where the policy is written: once         *)
(* everything is rendered, the files of an additional workspace that        *)
(* inherits Replace from the default workspace                              *)
(* (AdditionalWorkspaceFilePolicy) are as current.                          *)
ReplaceFilesAreCurrent ==
    /\ Running => \A l \in ApplyLines :
         Slot(l) \in DOMAIN vol \ torn => vol[Slot(l)] \in {l.hash, Own, Link}
    /\ Settled => \A w \in Additional(decl) :
         LET sources == WorkspaceSources(decl, w, External(decl, ext))
         IN  decl.workspaces[w].policy = "" /\ decl.workspaces[Main].policy = "Replace" =>
             \A p \in DOMAIN sources \ DOMAIN decl.workspaces[w].managed :
                 <<w, p>> \in DOMAIN vol \ torn => vol[<<w, p>>] \in {sources[p], Own, Link}

(* An edit of the agent in a Replace file survives every pod until its      *)
(* source really changes: the init script never overwrites it with the      *)
(* content that it was last given (managedFileApplyFunc), whatever else was *)
(* declared, copied or recorded in between.                                 *)
EditsSurvive ==
    [][\A s \in DOMAIN vol :
         /\ InScript /\ CurrentLine.op = "apply" /\ Slot(CurrentLine) = s
         /\ vol[s] = Own /\ s \in DOMAIN applied \ torn
         /\ applied[s] = CurrentLine.hash
         => vol'[s] = Own]_vars

(* The cleanup of a skill-pack sync, interrupted or not, of one workspace   *)
(* or another, never removes a file at a path that no pack ever declared    *)
(* for that workspace (skillPackCleanupLoop).                               *)
OnlyPackPathsAreRemoved ==
    [][\A s \in DOMAIN vol : InScript /\ s \notin DOMAIN vol' => s \in listed]_vars

CopyPaths(w) == {l.path : l \in {m \in Lines : m.op = "copy" /\ m.ws = w}}
SyncedWorkspaces == {l.ws : l \in {m \in Lines : m.op \in {"stage", "stageEmpty"}}}
Leftovers == {s \in DOMAIN vol : s[1] \in SyncedWorkspaces /\ vol[s] \in PackContents /\ s[2] \notin CopyPaths(s[1])}

(* Once a Replace sync is through, the pack files that are no longer        *)
(* declared are gone, those seeded under CreateOnly or in place of a user's *)
(* file and those copied by a sync that never got to its promotion excepted *)
(* (buildSkillPackSyncLinesAt).                                             *)
LeftoversAreUntracked ==
    Running => Leftovers \subseteq untracked

(* While the operator runs, an outage of GitHub takes no pack from a        *)
(* workspace whose packs were all resolved before the pass (resolvePack     *)
(* falls back to the expired entry): the template that a pass writes still  *)
(* installs them.                                                           *)
OutageKeepsPacks ==
    [][pass.step = "write" /\ sts' # sts =>
         \A w \in DOMAIN pass.decl.workspaces :
            LET packs == pass.decl.workspaces[w].packs
            IN  packs # {} /\ packs \subseteq pass.known => w \in DOMAIN pass.packs]_vars
=============================================================================
