-------------------------- MODULE Workspace_proofs --------------------------
(***************************************************************************)
(* Proofs about Workspace: what the init script leaves on the volume, for  *)
(* any declarations, paths, packs and revisions, and wherever the script   *)
(* is cut, the source changes or GitHub does not answer.                   *)
(***************************************************************************)
EXTENDS Workspace, TLAPS, FiniteSetTheorems, SequenceTheorems

Staging == {"stage", "stageEmpty"}

-----------------------------------------------------------------------------
(* Scripts. *)

\* The lines of one workspace: seeds and applies, or seeds of packs, and then a
\* sync, which stages, cleans, copies what it staged, and promotes or drops.
GoodBlock(B) ==
    /\ Len(B) \in Nat \ {0} /\ DOMAIN B = 1 .. Len(B)
    /\ \A i \in DOMAIN B : B[i].ws = B[1].ws
    /\ \A i, j \in DOMAIN B : B[i].op = "apply" /\ B[j].op = "apply" /\ B[i].path = B[j].path => B[i].hash = B[j].hash
    /\ \A i, j \in DOMAIN B : i < j /\ B[i].op \in Staging => B[j].op \in {"clean", "copy", "promote", "drop"}
    /\ \A j \in DOMAIN B : B[j].op \in {"clean", "copy", "promote", "drop"} => \E i \in DOMAIN B : i < j /\ B[i].op \in Staging
    /\ \A j \in DOMAIN B : B[j].op \in {"copy", "promote", "drop"} => \E i \in DOMAIN B : i < j /\ B[i].op = "clean"
    /\ \A j \in DOMAIN B : B[j].op \in {"promote", "drop"} => j = Len(B)
    /\ \A i \in DOMAIN B : B[i].op = "stage" =>
          /\ B[i].paths = {B[j].path : j \in {k \in DOMAIN B : B[k].op = "copy"}}
          /\ B[Len(B)].op = "promote"
    /\ \A i \in DOMAIN B : B[i].op = "stageEmpty" =>
          B[i].paths = {} /\ B[Len(B)].op = "drop" /\ \A j \in DOMAIN B : B[j].op # "copy"

\* One block for each workspace.
GoodScript(S) ==
    /\ Len(S) \in Nat /\ DOMAIN S = 1 .. Len(S)
    /\ \A b \in DOMAIN S : GoodBlock(S[b])
    /\ \A b, c \in DOMAIN S : S[b][1].ws = S[c][1].ws => b = c

-----------------------------------------------------------------------------
(* The invariants. *)

FiniteFiles(files) == IsFiniteSet(DOMAIN files)
FinitePacks(packs) == \A w \in DOMAIN packs : FiniteFiles(packs[w])

PackTypes ==
    /\ decl \in Declarations /\ ext \in ExternalMaps
    /\ upstream \in [Packs -> Nat]
    /\ \A p \in Packs : upstream[p] <= Len(Revisions[p])
    /\ \A p \in DOMAIN cache :
          cache[p] = [files |-> cache[p].files, fresh |-> cache[p].fresh] /\ FiniteFiles(cache[p].files)

\* A workspace all of whose packs were known is resolved, or will be.
Resolvable(w) == pass.decl.workspaces[w].packs # {} /\ pass.decl.workspaces[w].packs \subseteq pass.known

PassInv ==
    \/ pass = Idle
    \/ /\ pass.step = "resolve"
       /\ pass = [step |-> "resolve", decl |-> pass.decl, todo |-> pass.todo, rev |-> pass.rev,
                  packs |-> pass.packs, known |-> pass.known]
       /\ pass.decl \in Declarations /\ pass.todo \subseteq Wanted(pass.decl)
       /\ pass.todo # {} /\ pass.rev # 0 => pass.rev \in DOMAIN Revisions[NextPack[2]]
       /\ pass.known \subseteq DOMAIN cache
       /\ FinitePacks(pass.packs)
       /\ \A w \in DOMAIN pass.decl.workspaces :
             Resolvable(w) => w \in DOMAIN pass.packs \/ \E x \in pass.todo : x[1] = w
    \/ /\ pass.step = "write"
       /\ pass = [step |-> "write", decl |-> pass.decl, files |-> pass.files,
                  packs |-> pass.packs, known |-> pass.known]
       /\ pass.decl \in Declarations /\ FiniteFiles(pass.files)
       /\ FinitePacks(pass.packs)
       /\ \A w \in DOMAIN pass.decl.workspaces : Resolvable(w) => w \in DOMAIN pass.packs

PodInv ==
    /\ sts # None => GoodScript(sts.script)
    /\ pod # None =>
          /\ pod = [tpl |-> pod.tpl, block |-> pod.block, line |-> pod.line, due |-> pod.due]
          /\ GoodScript(Script)
          /\ pod.block \in 1 .. Len(Script) + 1 /\ pod.due \in BOOLEAN
          /\ pod.block <= Len(Script) => pod.line \in DOMAIN Block
          /\ pod.due => InScript /\ CurrentLine.op = "apply" /\ Slot(CurrentLine) \in torn

SlotInv == \A s \in DOMAIN vol : s = <<s[1], s[2]>>

\* What is on the volume was put there by the agent or is what the last apply gave
\* it, and the marker says so.
MarkerInv ==
    /\ \A s \in DOMAIN vol \ torn : vol[s] \in {Own, Link} \/ (s \in DOMAIN applied /\ applied[s] = vol[s])
    /\ \A s \in DOMAIN applied \ torn : Marker(s) \in DOMAIN markers /\ markers[Marker(s)] = applied[s]

Passed(b, i) == b < pod.block \/ (b = pod.block /\ i < pod.line)

\* The applies that the script has passed have done their work.
AppliedInv ==
    pod # None => \A b \in DOMAIN Script : \A i \in DOMAIN Script[b] :
        LET l == Script[b][i]
        IN  Passed(b, i) /\ l.op = "apply" /\ Slot(l) \in DOMAIN vol \ torn =>
              /\ vol[Slot(l)] \in {l.hash, Own, Link}
              /\ InScript /\ vol[Slot(l)] # Link /\ Slot(l) \in DOMAIN applied => applied[Slot(l)] = l.hash

\* A manifest lists what syncs have declared.
ListedInv ==
    /\ \A w \in DOMAIN manifest : {w} \X manifest[w] \subseteq listed
    /\ \A w \in DOMAIN staging : {w} \X staging[w] \subseteq listed

\* Every copied file is tracked, or known not to be.
TrackedInv == \A s \in DOMAIN vol : vol[s] \in {Own, Link} \/ s \in untracked \/ Tracked(s)

\* During a sync: what is staged, and that the cleanup left nothing else of the manifest.
SyncInv ==
    InScript => \A j \in DOMAIN Block : j < pod.line /\ Block[j].op \in Staging =>
        LET w == Block[j].ws
        IN  /\ Block[j].op = "stage" \/ w \in DOMAIN manifest =>
                 w \in DOMAIN staging /\ staging[w] = Block[j].paths
            /\ w \in DOMAIN manifest /\ (\E i \in DOMAIN Block : i < pod.line /\ Block[i].op = "clean") =>
                 \A s \in DOMAIN vol : s[1] = w /\ s[2] \in manifest[w] => s[2] \in Block[j].paths

\* After a sync: the manifest lists what the script copied.
SyncedInv ==
    pod # None => \A b \in DOMAIN Script : \A j \in DOMAIN Script[b] :
        LET l == Script[b][j]
        IN  b < pod.block =>
              /\ l.op = "stage" => l.ws \in DOMAIN manifest /\ manifest[l.ws] = l.paths
              /\ l.op = "stageEmpty" => l.ws \notin DOMAIN manifest

IInv == PackTypes /\ PassInv /\ PodInv /\ SlotInv /\ MarkerInv /\ AppliedInv /\ ListedInv /\ TrackedInv /\ SyncInv /\ SyncedInv

-----------------------------------------------------------------------------
(* Sequences. *)

\* s is a sequence of n elements.
Tuple(s, n) == n \in Nat /\ s = [i \in 1 .. n |-> s[i]]

LEMMA TupleLen ==
    ASSUME NEW s, NEW n, Tuple(s, n)
    PROVE  Len(s) = n /\ DOMAIN s = 1 .. n /\ s \in Seq({s[i] : i \in 1 .. n})
BY DEF Tuple

\* u is s, of m elements, followed by t, of n elements.
Joined(u, s, m, t, n) ==
    /\ Tuple(u, m + n)
    /\ \A i \in 1 .. m : u[i] = s[i]
    /\ \A i \in 1 .. n : u[m + i] = t[i]

LEMMA Concat ==
    ASSUME NEW m \in Nat, NEW n \in Nat, NEW s, NEW t, Tuple(s, m), Tuple(t, n), NEW u, u = s \o t
    PROVE  Joined(u, s, m, t, n)
<1> DEFINE S == {s[i] : i \in 1 .. m} \cup {t[i] : i \in 1 .. n}
<1>1. /\ s \in Seq({s[i] : i \in 1 .. m}) /\ t \in Seq({t[i] : i \in 1 .. n})
      /\ Len(s) = m /\ Len(t) = n /\ m \in Nat /\ n \in Nat
  BY TupleLen DEF Tuple
<1>2. s \in Seq(S) /\ t \in Seq(S)
  BY <1>1, SeqMonotonic
<1> HIDE DEF S
<1>3. u \in Seq(S) /\ Len(u) = m + n
  BY <1>1, <1>2, ConcatProperties
<1>4. \A i \in 1 .. m + n : u[i] = IF i <= m THEN s[i] ELSE t[i - m]
  BY <1>1, <1>2, ConcatProperties
<1>5. u \in [1 .. m + n -> S]
  BY <1>3, LenProperties
<1>6. \A i \in 1 .. n : m + i \in 1 .. m + n /\ ~(m + i <= m) /\ (m + i) - m = i
  BY <1>1
<1>7. \A i \in 1 .. m : i \in 1 .. m + n /\ i <= m
  BY <1>1
<1>8. \A i \in 1 .. n : u[m + i] = t[i]
  BY <1>4, <1>6
<1>9. \A i \in 1 .. m : u[i] = s[i]
  BY <1>4, <1>7
<1>10. u = [i \in 1 .. m + n |-> u[i]]
  BY <1>5
<1>11. m + n \in Nat
  OBVIOUS
<1> QED
  BY <1>8, <1>9, <1>10, <1>11 DEF Tuple, Joined

LEMMA ShortTuples ==
    ASSUME NEW a, NEW b
    PROVE  /\ Tuple(<<a>>, 1) /\ <<a>>[1] = a
           /\ Tuple(<<a, b>>, 2) /\ <<a, b>>[1] = a /\ <<a, b>>[2] = b
BY DEF Tuple

\* SetToSeq lists the elements of a finite set, each once.
LEMMA Listing ==
    ASSUME NEW S, IsFiniteSet(S)
    PROVE  \E n \in Nat :
             /\ Tuple(SetToSeq(S), n) /\ DOMAIN SetToSeq(S) = 1 .. n
             /\ \A i \in 1 .. n : SetToSeq(S)[i] \in S
             /\ \A x \in S : \E i \in 1 .. n : SetToSeq(S)[i] = x
             /\ \A i, j \in 1 .. n : SetToSeq(S)[i] = SetToSeq(S)[j] => i = j
<1> DEFINE n == Cardinality(S)
           f == SetToSeq(S)
<1>1. n \in Nat /\ ExistsBijection(1 .. n, S)
  BY FS_CardinalityType
<1>2. PICK g \in [1 .. n -> S] : IsInjective(g)
  BY <1>1 DEF ExistsBijection, Bijection, Injection
<1>3. f \in [1 .. n -> S] /\ IsInjective(f)
  BY <1>2 DEF SetToSeq
<1> HIDE DEF f, n
<1>4. IsFiniteSet(1 .. n) /\ Cardinality(1 .. n) = n
  BY <1>1, FS_Interval
<1>5. f \in Injection(1 .. n, S)
  BY <1>3 DEF Injection
<1>6. f \in Surjection(1 .. n, S)
  BY <1>4, <1>5, FS_Injection DEF n
<1>7. \A x \in S : \E i \in 1 .. n : f[i] = x
  BY <1>6 DEF Surjection
<1>8. Tuple(f, n) /\ DOMAIN f = 1 .. n
  BY <1>1, <1>3 DEF Tuple
<1>9. \A i, j \in 1 .. n : f[i] = f[j] => i = j
  BY <1>3 DEF IsInjective
<1> QED
  BY <1>1, <1>3, <1>7, <1>8, <1>9 DEF f

-----------------------------------------------------------------------------
(* The lines of the init script. *)

LEMMA LineFields ==
    ASSUME NEW op, NEW w
    PROVE  Line(op, w).op = op /\ Line(op, w).ws = w /\ Line(op, w).paths = {}
BY DEF Line

LEMMA ForPathFields ==
    ASSUME NEW op, NEW w, NEW p
    PROVE  ForPath(op, w, p).op = op /\ ForPath(op, w, p).ws = w /\ ForPath(op, w, p).path = p
BY DEF ForPath, Line

LEMMA StageFields ==
    ASSUME NEW w, NEW paths
    PROVE  Stage(w, paths).op = "stage" /\ Stage(w, paths).ws = w /\ Stage(w, paths).paths = paths
BY DEF Stage, Line

\* Lines for a set of paths: one for each.
LEMMA LinesForPaths ==
    ASSUME NEW op, NEW w, NEW paths, IsFiniteSet(paths)
    PROVE  \E n \in Nat :
             /\ Tuple(ForEach(op, w, paths), n)
             /\ \A i \in 1 .. n : LET l == ForEach(op, w, paths)[i]
                                  IN  l.op = op /\ l.ws = w /\ l.path \in paths
             /\ \A p \in paths : \E i \in 1 .. n : ForEach(op, w, paths)[i].path = p
<1>1. PICK n \in Nat :
        /\ DOMAIN SetToSeq(paths) = 1 .. n
        /\ \A i \in 1 .. n : SetToSeq(paths)[i] \in paths
        /\ \A x \in paths : \E i \in 1 .. n : SetToSeq(paths)[i] = x
  BY Listing
<1>2. ForEach(op, w, paths) = [i \in 1 .. n |-> ForPath(op, w, SetToSeq(paths)[i])]
  BY <1>1 DEF ForEach
<1>3. \A p : ForPath(op, w, p).op = op /\ ForPath(op, w, p).ws = w /\ ForPath(op, w, p).path = p
  BY ForPathFields
<1>4. Tuple(ForEach(op, w, paths), n)
  BY <1>2 DEF Tuple
<1> QED
  BY <1>1, <1>2, <1>3, <1>4

\* A sync stages what it copies, after the cleanup, and ends in the promotion; or
\* drops a manifest that nothing replaces.
LEMMA SyncLines ==
    ASSUME NEW packs, NEW w, IsFiniteSet(DOMAIN PackFiles(packs, w))
    PROVE  LET L == buildSkillPackSyncLinesAt(packs, w)
           IN  \E n \in Nat :
             /\ Tuple(L, n + 3)
             /\ \A i \in 1 .. n + 3 : L[i].ws = w
             /\ L[2].op = "clean"
             /\ \/ n = 0 /\ L[1].op = "stageEmpty" /\ L[1].paths = {} /\ L[3].op = "drop"
                \/ /\ L[1].op = "stage" /\ L[n + 3].op = "promote"
                   /\ \A i \in 3 .. n + 2 : L[i].op = "copy" /\ L[i].path \in L[1].paths
                   /\ \A p \in L[1].paths : \E i \in 3 .. n + 2 : L[i].path = p
<1> DEFINE L == buildSkillPackSyncLinesAt(packs, w)
           paths == DOMAIN PackFiles(packs, w)
           C == ForEach("copy", w, paths)
           A == <<Stage(w, paths), Line("clean", w)>>
           Z == <<Line("promote", w)>>
<1>1. CASE ~HasSkillPackFiles(packs, w)
  <2>1. L = <<Line("stageEmpty", w), Line("clean", w), Line("drop", w)>>
    BY <1>1 DEF buildSkillPackSyncLinesAt
  <2> HIDE DEF L
  <2>2. Tuple(L, 3) /\ L[1] = Line("stageEmpty", w) /\ L[2] = Line("clean", w) /\ L[3] = Line("drop", w)
    BY <2>1 DEF Tuple
  <2>3. \A op : Line(op, w).op = op /\ Line(op, w).ws = w /\ Line(op, w).paths = {}
    BY LineFields
  <2>4. \A i \in 1 .. 3 : i = 1 \/ i = 2 \/ i = 3
    OBVIOUS
  <2>5. \A i \in 1 .. 0 + 3 : L[i].ws = w
    BY <2>2, <2>3, <2>4
  <2>6. Tuple(L, 0 + 3) /\ 0 \in Nat
    BY <2>2
  <2>7. \/ 0 = 0 /\ L[1].op = "stageEmpty" /\ L[1].paths = {} /\ L[3].op = "drop"
    BY <2>2, <2>3
  <2>8. L[2].op = "clean"
    BY <2>2, <2>3
  <2> QED
    BY <2>5, <2>6, <2>7, <2>8 DEF L
<1>2. CASE HasSkillPackFiles(packs, w)
  <2>1. L = (A \o C) \o Z
    BY <1>2 DEF buildSkillPackSyncLinesAt
  <2>2. PICK n \in Nat :
          /\ Tuple(C, n)
          /\ \A i \in 1 .. n : C[i].op = "copy" /\ C[i].ws = w /\ C[i].path \in paths
          /\ \A p \in paths : \E i \in 1 .. n : C[i].path = p
    BY LinesForPaths
  <2>3. /\ Tuple(A, 2) /\ A[1].op = "stage" /\ A[1].paths = paths /\ A[1].ws = w
        /\ A[2].op = "clean" /\ A[2].ws = w
    <3>1. Tuple(A, 2) /\ A[1] = Stage(w, paths) /\ A[2] = Line("clean", w)
      BY ShortTuples
    <3> HIDE DEF A, paths
    <3> QED
      BY <3>1, LineFields, StageFields
  <2>4. Tuple(Z, 1) /\ Z[1].op = "promote" /\ Z[1].ws = w
    <3>1. Tuple(Z, 1) /\ Z[1] = Line("promote", w)
      BY ShortTuples
    <3> HIDE DEF Z
    <3> QED
      BY <3>1, LineFields
  <2> HIDE DEF L, A, C, Z, paths
  <2> DEFINE AC == A \o C
  <2>5. /\ Tuple(AC, 2 + n) /\ AC[1] = A[1] /\ AC[2] = A[2] /\ \A i \in 1 .. n : AC[2 + i] = C[i]
    <3>1. 1 \in 1 .. 2 /\ 2 \in 1 .. 2 /\ 2 \in Nat
      OBVIOUS
    <3>2. Joined(AC, A, 2, C, n)
      BY <2>2, <2>3, <3>1, Concat
    <3> HIDE DEF AC
    <3> QED
      BY <3>1, <3>2 DEF Joined
  <2> HIDE DEF AC
  <2>6. /\ Tuple(L, (2 + n) + 1) /\ \A i \in 1 .. 2 + n : L[i] = AC[i]
        /\ L[(2 + n) + 1] = Z[1]
    <3>1. L = AC \o Z
      BY <2>1 DEF AC
    <3>2. 1 \in 1 .. 1 /\ 1 \in Nat /\ 2 + n \in Nat
      OBVIOUS
    <3>3. Joined(L, AC, 2 + n, Z, 1)
      BY <2>4, <2>5, <3>1, <3>2, Concat
    <3> QED
      BY <3>2, <3>3 DEF Joined
  <2>7. /\ (2 + n) + 1 = n + 3 /\ 1 \in 1 .. 2 + n /\ 2 \in 1 .. 2 + n
        /\ \A i \in 3 .. n + 2 : i - 2 \in 1 .. n /\ 2 + (i - 2) = i /\ i \in 1 .. 2 + n
        /\ \A i \in 1 .. n : 2 + i \in 3 .. n + 2 /\ 2 + i \in 1 .. 2 + n
        /\ \A i \in 1 .. n + 3 : i = 1 \/ i = 2 \/ i \in 3 .. n + 2 \/ i = n + 3
    BY <2>2
  <2>8. L[1] = A[1] /\ L[2] = A[2] /\ L[n + 3] = Z[1] /\ Tuple(L, n + 3)
    BY <2>5, <2>6, <2>7
  <2>9. \A i \in 3 .. n + 2 : L[i] = C[i - 2]
    BY <2>5, <2>6, <2>7
  <2>10. \A i \in 3 .. n + 2 : L[i].op = "copy" /\ L[i].ws = w /\ L[i].path \in L[1].paths
    BY <2>2, <2>3, <2>7, <2>8, <2>9
  <2>11. ASSUME NEW p \in L[1].paths PROVE \E i \in 3 .. n + 2 : L[i].path = p
    <3>1. PICK i \in 1 .. n : C[i].path = p
      BY <2>2, <2>3, <2>8
    <3>2. L[2 + i] = C[i]
      BY <2>5, <2>6, <2>7
    <3> QED
      BY <2>7, <3>1, <3>2
  <2>12. \A i \in 1 .. n + 3 : L[i].ws = w
    BY <2>3, <2>4, <2>7, <2>8, <2>10
  <2> QED
    BY <2>2, <2>3, <2>4, <2>8, <2>10, <2>11, <2>12 DEF L
<1> QED
  BY <1>1, <1>2

LEMMA FiniteUnion ==
    ASSUME NEW f, NEW g, FiniteFiles(f), FiniteFiles(g)
    PROVE  FiniteFiles(f ++ g)
<1>1. DOMAIN (f ++ g) = DOMAIN f \cup DOMAIN g
  BY DEF ++
<1> QED
  BY <1>1, FS_Union DEF FiniteFiles

\* The lines for the files of a workspace: an apply for each that is managed.
FileBlock(F, m, w, hashes) ==
    /\ Tuple(F, m) /\ m # 0
    /\ \A i \in 1 .. m :
          /\ F[i].ws = w /\ F[i].op \in {"apply", "seed"}
          /\ F[i].op = "apply" => F[i].hash = hashes[F[i].path]
    /\ \A p \in DOMAIN hashes : \E i \in 1 .. m : F[i].op = "apply" /\ F[i].path = p

LEMMA FileLines ==
    ASSUME NEW d, IsDeclaration(d), NEW w \in DOMAIN d.workspaces, NEW e, FiniteFiles(e), NEW packs
    PROVE  \E m \in Nat \ {0} : \E F :
             /\ WorkspaceLines(d, w, e, packs) = F \o SkillPackLines(d, packs, w)
             /\ FileBlock(F, m, w, ReplaceSources(d, w, e))
<1> DEFINE files == DOMAIN WorkspaceSources(d, w, e) \cup InjectedPaths(d, w)
           hashes == ReplaceSources(d, w, e)
           order == SetToSeq(files)
           At(p) == IF p \in DOMAIN hashes THEN [ForPath("apply", w, p) EXCEPT !.hash = hashes[p]]
                                           ELSE ForPath("seed", w, p)
           F == [i \in DOMAIN order |-> At(order[i])]
<1>1. FiniteFiles(WorkspaceSources(d, w, e))
  BY FiniteUnion DEF IsDeclaration, WorkspaceSources, FiniteFiles
<1>2. IsFiniteSet(InjectedPaths(d, w)) /\ EnvironmentMD \in InjectedPaths(d, w)
  BY FS_Singleton, FS_EmptySet, FS_Union DEF InjectedPaths
<1>3. IsFiniteSet(files) /\ EnvironmentMD \in files
  BY <1>1, <1>2, FS_Union DEF FiniteFiles
<1>4. DOMAIN hashes \subseteq files
  BY DEF ReplaceSources, Restrict
<1>5. WorkspaceLines(d, w, e, packs) = F \o SkillPackLines(d, packs, w)
  BY DEF WorkspaceLines
<1> HIDE DEF hashes, files
<1>6. PICK m \in Nat :
        /\ DOMAIN order = 1 .. m
        /\ \A i \in 1 .. m : order[i] \in files
        /\ \A p \in files : \E i \in 1 .. m : order[i] = p
  BY <1>3, Listing
<1>7. m # 0
  BY <1>3, <1>6
<1>8. \A p : At(p).ws = w /\ At(p).path = p
  BY DEF ForPath, Line
<1>9. \A p : p \in DOMAIN hashes => At(p).op = "apply" /\ At(p).hash = hashes[p]
  BY DEF ForPath, Line
<1>10. \A p : p \notin DOMAIN hashes => At(p).op = "seed"
  BY DEF ForPath, Line
<1> HIDE DEF At, order
<1>11. Tuple(F, m) /\ \A i \in 1 .. m : F[i] = At(order[i])
  BY <1>6 DEF Tuple
<1> HIDE DEF F
<1>12. \A i \in 1 .. m :
          /\ F[i].ws = w /\ F[i].op \in {"apply", "seed"}
          /\ F[i].op = "apply" => F[i].hash = hashes[F[i].path]
  BY <1>8, <1>9, <1>10, <1>11
<1>13. \A p \in DOMAIN hashes : \E i \in 1 .. m : F[i].op = "apply" /\ F[i].path = p
  BY <1>4, <1>6, <1>8, <1>9, <1>11
<1>14. FileBlock(F, m, w, hashes)
  BY <1>7, <1>11, <1>12, <1>13 DEF FileBlock
<1>15. m \in Nat \ {0}
  BY <1>7
<1> QED
  BY <1>5, <1>14, <1>15 DEF hashes

\* The lines for the packs: seeds, or a sync.
Seeds(T, k) == \A i \in 1 .. k : T[i].op = "seedPack"

Syncs(T, k) ==
    /\ k >= 3 /\ T[2].op = "clean"
    /\ \/ k = 3 /\ T[1].op = "stageEmpty" /\ T[1].paths = {} /\ T[3].op = "drop"
       \/ /\ T[1].op = "stage" /\ T[k].op = "promote"
          /\ \A i \in 3 .. k - 1 : T[i].op = "copy" /\ T[i].path \in T[1].paths
          /\ \A p \in T[1].paths : \E i \in 3 .. k - 1 : T[i].path = p

LEMMA PackLines ==
    ASSUME NEW d, NEW packs, NEW w, IsFiniteSet(DOMAIN PackFiles(packs, w))
    PROVE  LET T == SkillPackLines(d, packs, w)
           IN  \E k \in Nat : Tuple(T, k) /\ (\A i \in 1 .. k : T[i].ws = w) /\ (Seeds(T, k) \/ Syncs(T, k))
<1> DEFINE T == SkillPackLines(d, packs, w)
<1>1. CASE d.packPolicy = "CreateOnly"
  <2> DEFINE S == ForEach("seedPack", w, DOMAIN PackFiles(packs, w))
  <2>1. T = S
    BY <1>1 DEF SkillPackLines
  <2>2. PICK k \in Nat : Tuple(S, k) /\ \A i \in 1 .. k : S[i].op = "seedPack" /\ S[i].ws = w
    BY LinesForPaths
  <2> HIDE DEF S, T
  <2>3. Tuple(T, k) /\ (\A i \in 1 .. k : T[i].ws = w) /\ Seeds(T, k)
    BY <2>1, <2>2 DEF Seeds
  <2> QED
    BY <2>3 DEF T
<1>2. CASE d.packPolicy # "CreateOnly"
  <2> DEFINE L == buildSkillPackSyncLinesAt(packs, w)
  <2>1. T = L
    BY <1>2 DEF SkillPackLines
  <2>2. PICK n \in Nat :
             /\ Tuple(L, n + 3)
             /\ \A i \in 1 .. n + 3 : L[i].ws = w
             /\ L[2].op = "clean"
             /\ \/ n = 0 /\ L[1].op = "stageEmpty" /\ L[1].paths = {} /\ L[3].op = "drop"
                \/ /\ L[1].op = "stage" /\ L[n + 3].op = "promote"
                   /\ \A i \in 3 .. n + 2 : L[i].op = "copy" /\ L[i].path \in L[1].paths
                   /\ \A p \in L[1].paths : \E i \in 3 .. n + 2 : L[i].path = p
    BY SyncLines
  <2> HIDE DEF L, T
  <2> DEFINE k == n + 3
  <2>3. k \in Nat /\ k >= 3 /\ k - 1 = n + 2 /\ (n = 0 => k = 3)
    OBVIOUS
  <2>4. Tuple(L, k) /\ (\A i \in 1 .. k : L[i].ws = w) /\ L[k] = L[n + 3]
    BY <2>2
  <2> HIDE DEF k
  <2>5. Syncs(L, k)
    BY <2>2, <2>3, <2>4 DEF Syncs
  <2>6. Tuple(T, k) /\ (\A i \in 1 .. k : T[i].ws = w) /\ Syncs(T, k)
    BY <2>1, <2>4, <2>5
  <2> QED
    BY <2>3, <2>6 DEF T
<1> QED
  BY <1>1, <1>2


\* The block of a workspace is well formed, and applies every managed file.
AppliesAll(B, hashes) ==
    \A p \in DOMAIN hashes : \E i \in DOMAIN B : B[i].op = "apply" /\ B[i].path = p /\ B[i].hash = hashes[p]

LEMMA BlockIsGood ==
    ASSUME NEW d, IsDeclaration(d), NEW w \in DOMAIN d.workspaces, NEW e, FiniteFiles(e),
           NEW packs, IsFiniteSet(DOMAIN PackFiles(packs, w))
    PROVE  LET B == WorkspaceLines(d, w, e, packs)
           IN  GoodBlock(B) /\ B[1].ws = w /\ AppliesAll(B, ReplaceSources(d, w, e))
<1> DEFINE B == WorkspaceLines(d, w, e, packs)
           T == SkillPackLines(d, packs, w)
           H == ReplaceSources(d, w, e)
<1> PICK m \in Nat \ {0} : \E F : B = F \o T /\ FileBlock(F, m, w, H)
  BY FileLines
<1>1. PICK F : B = F \o T /\ FileBlock(F, m, w, H)
  OBVIOUS
<1>2. /\ Tuple(F, m)
      /\ \A i \in 1 .. m :
            /\ F[i].ws = w /\ F[i].op \in {"apply", "seed"}
            /\ F[i].op = "apply" => F[i].hash = H[F[i].path]
      /\ \A p \in DOMAIN H : \E i \in 1 .. m : F[i].op = "apply" /\ F[i].path = p
  BY <1>1 DEF FileBlock, Tuple
<1>3. PICK k \in Nat : Tuple(T, k) /\ (\A i \in 1 .. k : T[i].ws = w) /\ (Seeds(T, k) \/ Syncs(T, k))
  BY PackLines
<1> HIDE DEF B, T, H
<1>4. Joined(B, F, m, T, k)
  BY <1>1, <1>2, <1>3, Concat
<1>5. Len(B) = m + k /\ DOMAIN B = 1 .. m + k /\ 1 \in 1 .. m /\ Len(B) \in Nat \ {0}
  <2>1. Tuple(B, m + k)
    BY <1>4 DEF Joined
  <2>2. Len(B) = m + k /\ DOMAIN B = 1 .. m + k
    BY <2>1, TupleLen
  <2> QED
    BY <1>2, <2>2
<1>6. \A i \in 1 .. m : i \in DOMAIN B /\ B[i] = F[i]
  BY <1>4, <1>5 DEF Joined
<1>7. \A i \in 1 .. k : m + i \in DOMAIN B /\ B[m + i] = T[i]
  BY <1>4, <1>5 DEF Joined
<1>8. ASSUME NEW i \in DOMAIN B, i > m
      PROVE  i - m \in 1 .. k /\ B[i] = T[i - m]
  <2>1. i - m \in 1 .. k /\ m + (i - m) = i
    BY <1>5, <1>8
  <2> QED
    BY <1>7, <2>1
<1>9. \A i \in DOMAIN B : i \in 1 .. m \/ i > m
  BY <1>5
<1>10. \A i \in DOMAIN B : B[i].ws = w
  BY <1>2, <1>3, <1>6, <1>8, <1>9
<1>11. B[1].ws = w /\ \A i \in DOMAIN B : B[i].ws = B[1].ws
  BY <1>5, <1>6, <1>10
<1>12. AppliesAll(B, H)
  <2> SUFFICES ASSUME NEW p \in DOMAIN H
               PROVE  \E i \in DOMAIN B : B[i].op = "apply" /\ B[i].path = p /\ B[i].hash = H[p]
    BY DEF AppliesAll
  <2>1. PICK i \in 1 .. m : F[i].op = "apply" /\ F[i].path = p
    BY <1>2
  <2>2. F[i].hash = H[p]
    BY <1>2, <2>1
  <2>3. i \in DOMAIN B /\ B[i] = F[i]
    BY <1>6
  <2> QED
    BY <2>1, <2>2, <2>3
<1>13. \A i \in 1 .. m : /\ B[i].op \in {"apply", "seed"}
                         /\ B[i].op = "apply" => B[i].hash = H[B[i].path]
  BY <1>2, <1>6
<1>14. CASE Seeds(T, k)
  <2>1. \A i \in DOMAIN B : i > m => B[i].op = "seedPack"
    BY <1>8, <1>14 DEF Seeds
  <2>2. \A i \in DOMAIN B : B[i].op \in {"apply", "seed", "seedPack"}
    BY <1>9, <1>13, <2>1
  <2>3. \A i \in DOMAIN B : B[i].op = "apply" => B[i].hash = H[B[i].path]
    BY <1>9, <1>13, <2>1
  <2>4. \A i, j \in DOMAIN B : B[i].op = "apply" /\ B[j].op = "apply" /\ B[i].path = B[j].path => B[i].hash = B[j].hash
    BY <2>3
  <2>5. \A i \in DOMAIN B : B[i].op \notin Staging \cup {"clean", "copy", "promote", "drop"}
    BY <2>2 DEF Staging
  <2>6. \A i \in DOMAIN B : B[i].op # "stage" /\ B[i].op # "stageEmpty"
    BY <2>5 DEF Staging
  <2>7. GoodBlock(B)
    BY <1>5, <1>11, <2>4, <2>5, <2>6 DEF GoodBlock
  <2> QED
    BY <1>11, <1>12, <2>7 DEF B, H
<1>15. CASE Syncs(T, k)
  <2>1. k >= 3 /\ 1 \in 1 .. k /\ 2 \in 1 .. k /\ k \in 1 .. k
    BY <1>15 DEF Syncs
  <2>2. /\ m + 1 \in DOMAIN B /\ m + 2 \in DOMAIN B /\ m + k \in DOMAIN B
        /\ B[m + 1] = T[1] /\ B[m + 2] = T[2] /\ B[m + k] = T[k]
    BY <1>7, <2>1
  <2>3. B[m + 1].op \in Staging /\ B[m + 2].op = "clean" /\ B[m + k].op \in {"promote", "drop"}
    BY <1>15, <2>1, <2>2 DEF Syncs, Staging
  <2>4. ASSUME NEW i \in 3 .. k - 1
        PROVE  /\ m + i \in DOMAIN B /\ B[m + i].op = "copy" /\ B[m + i].path \in B[m + 1].paths
               /\ B[m + 1].op = "stage"
    <3>1. i \in 1 .. k /\ k # 3
      OBVIOUS
    <3>2. T[i].op = "copy" /\ T[i].path \in T[1].paths /\ T[1].op = "stage"
      BY <1>15, <3>1 DEF Syncs
    <3>3. m + i \in DOMAIN B /\ B[m + i] = T[i]
      BY <1>7, <3>1
    <3> QED
      BY <2>2, <3>2, <3>3
  <2>5. ASSUME NEW i \in DOMAIN B
        PROVE  i \in 1 .. m \/ i = m + 1 \/ i = m + 2 \/ (i - m \in 3 .. k - 1 /\ m + (i - m) = i) \/ i = m + k
    BY <1>5, <2>1
  <2>6. \A i \in DOMAIN B :
           \/ i \in 1 .. m /\ B[i].op \in {"apply", "seed"}
           \/ i = m + 1 /\ B[i].op \in Staging
           \/ i = m + 2 /\ B[i].op = "clean"
           \/ i > m + 2 /\ i < m + k /\ B[i].op = "copy" /\ B[m + 1].op = "stage" /\ B[i].path \in B[m + 1].paths
           \/ i = m + k /\ B[i].op \in {"promote", "drop"}
    <3> SUFFICES ASSUME NEW i \in DOMAIN B
                 PROVE  \/ i \in 1 .. m /\ B[i].op \in {"apply", "seed"}
                        \/ i = m + 1 /\ B[i].op \in Staging
                        \/ i = m + 2 /\ B[i].op = "clean"
                        \/ i > m + 2 /\ i < m + k /\ B[i].op = "copy" /\ B[m + 1].op = "stage" /\ B[i].path \in B[m + 1].paths
                        \/ i = m + k /\ B[i].op \in {"promote", "drop"}
      OBVIOUS
    <3>1. CASE i \in 1 .. m
      BY <1>13, <3>1
    <3>2. CASE i - m \in 3 .. k - 1 /\ m + (i - m) = i
      <4>1. B[i].op = "copy" /\ B[m + 1].op = "stage" /\ B[i].path \in B[m + 1].paths
        BY <2>4, <3>2
      <4>2. i > m + 2 /\ i < m + k
        BY <1>5, <3>2
      <4> QED
        BY <4>1, <4>2
    <3> QED
      BY <2>3, <2>5, <3>1, <3>2
  <2>7. \A i \in DOMAIN B : B[i].op = "apply" => i \in 1 .. m
    BY <2>6 DEF Staging
  <2>8. \A i, j \in DOMAIN B : B[i].op = "apply" /\ B[j].op = "apply" /\ B[i].path = B[j].path => B[i].hash = B[j].hash
    BY <1>13, <2>7
  <2>9. \A i, j \in DOMAIN B : i < j /\ B[i].op \in Staging => B[j].op \in {"clean", "copy", "promote", "drop"}
    <3> SUFFICES ASSUME NEW i \in DOMAIN B, NEW j \in DOMAIN B, i < j, B[i].op \in Staging
                 PROVE  B[j].op \in {"clean", "copy", "promote", "drop"}
      OBVIOUS
    <3>1. i = m + 1
      BY <2>6 DEF Staging
    <3>2. j \notin 1 .. m /\ j # m + 1
      BY <1>5, <3>1
    <3> QED
      BY <2>6, <3>2
  <2>10. \A j \in DOMAIN B : B[j].op \in {"clean", "copy", "promote", "drop"} => j > m + 1
    <3>1. \A j \in DOMAIN B : B[j].op \in {"clean", "copy", "promote", "drop"} => j \notin 1 .. m /\ j # m + 1
      BY <2>1, <2>6 DEF Staging
    <3> QED
      BY <1>5, <3>1
  <2>11. \A j \in DOMAIN B : B[j].op \in {"copy", "promote", "drop"} => j > m + 2
    <3>1. \A j \in DOMAIN B : B[j].op \in {"copy", "promote", "drop"} => j \notin 1 .. m /\ j # m + 1 /\ j # m + 2
      BY <2>1, <2>6 DEF Staging
    <3> QED
      BY <1>5, <3>1
  <2>12. \A j \in DOMAIN B : B[j].op \in {"promote", "drop"} => j = Len(B)
    BY <1>5, <2>6 DEF Staging
  <2>13. \A i \in DOMAIN B : B[i].op \in Staging => i = m + 1
    BY <2>6 DEF Staging
  <2>14. ASSUME B[m + 1].op = "stage"
         PROVE  /\ B[m + 1].paths = {B[j].path : j \in {c \in DOMAIN B : B[c].op = "copy"}}
                /\ B[m + k].op = "promote"
    <3>1. /\ T[k].op = "promote"
          /\ \A p \in T[1].paths : \E i \in 3 .. k - 1 : T[i].path = p
      BY <1>15, <2>2, <2>14 DEF Syncs
    <3>2. \A i \in 3 .. k - 1 : i \in 1 .. k /\ B[m + i] = T[i]
      BY <1>7
    <3>3. ASSUME NEW p \in B[m + 1].paths PROVE \E j \in DOMAIN B : B[j].op = "copy" /\ B[j].path = p
      <4>1. PICK i \in 3 .. k - 1 : T[i].path = p
        BY <2>2, <3>1
      <4> QED
        BY <2>4, <3>2, <4>1
    <3>4. \A j \in DOMAIN B : B[j].op = "copy" => B[j].path \in B[m + 1].paths
      BY <2>6 DEF Staging
    <3> DEFINE P == B[m + 1].paths
               C == {c \in DOMAIN B : B[c].op = "copy"}
    <3>5. \A p : p \in P <=> \E j \in C : B[j].path = p
      BY <3>3, <3>4
    <3> HIDE DEF P, C
    <3>6. P = {B[j].path : j \in C}
      BY <3>5
    <3> QED
      BY <2>2, <3>1, <3>6 DEF P, C
  <2>15. ASSUME B[m + 1].op = "stageEmpty"
         PROVE  B[m + 1].paths = {} /\ B[m + k].op = "drop" /\ \A j \in DOMAIN B : B[j].op # "copy"
    <3>1. k = 3 /\ T[1].paths = {} /\ T[3].op = "drop"
      BY <1>15, <2>2, <2>15 DEF Syncs
    <3>2. \A j \in DOMAIN B : B[j].op # "copy"
      BY <2>6, <2>15 DEF Staging
    <3> QED
      BY <2>2, <3>1, <3>2
  <2>16. \A j \in DOMAIN B : B[j].op \in {"clean", "copy", "promote", "drop"} => \E i \in DOMAIN B : i < j /\ B[i].op \in Staging
    BY <2>2, <2>3, <2>10
  <2>17. \A j \in DOMAIN B : B[j].op \in {"copy", "promote", "drop"} => \E i \in DOMAIN B : i < j /\ B[i].op = "clean"
    BY <2>2, <2>3, <2>11
  <2>18. /\ \A i \in DOMAIN B : B[i].op = "stage" =>
               /\ B[i].paths = {B[j].path : j \in {c \in DOMAIN B : B[c].op = "copy"}}
               /\ B[Len(B)].op = "promote"
         /\ \A i \in DOMAIN B : B[i].op = "stageEmpty" =>
               B[i].paths = {} /\ B[Len(B)].op = "drop" /\ \A j \in DOMAIN B : B[j].op # "copy"
    BY <1>5, <2>13, <2>14, <2>15 DEF Staging
  <2>19. GoodBlock(B)
    BY <1>5, <1>11, <2>8, <2>9, <2>12, <2>16, <2>17, <2>18 DEF GoodBlock
  <2> QED
    BY <1>11, <1>12, <2>19 DEF B, H
<1> QED
  BY <1>3, <1>14, <1>15

LEMMA FinitePackFiles ==
    ASSUME NEW packs, FinitePacks(packs), NEW w
    PROVE  IsFiniteSet(DOMAIN PackFiles(packs, w))
<1>1. DOMAIN None = {}
  BY DEF None
<1> QED
  BY <1>1, FS_EmptySet DEF FinitePacks, FiniteFiles, PackFiles

\* The script has a block for each workspace.
HasBlock(S, d, w, e) == \E b \in DOMAIN S : S[b][1].ws = w /\ GoodBlock(S[b]) /\ AppliesAll(S[b], ReplaceSources(d, w, e))

LEMMA ScriptIsGood ==
    ASSUME NEW d, IsDeclaration(d), NEW e, FiniteFiles(e), NEW packs, FinitePacks(packs)
    PROVE  LET S == BuildInitScript(d, e, packs)
           IN  GoodScript(S) /\ \A w \in Additional(d) : HasBlock(S, d, w, e)
<1> DEFINE S == BuildInitScript(d, e, packs)
           order == SetToSeq(Additional(d))
           B(w) == WorkspaceLines(d, w, e, packs)
           M == <<B(Main)>>
           O == [i \in DOMAIN order |-> B(order[i])]
<1>1. S = M \o O
  BY DEF BuildInitScript
<1>2. \A w \in DOMAIN d.workspaces : GoodBlock(B(w)) /\ B(w)[1].ws = w /\ AppliesAll(B(w), ReplaceSources(d, w, e))
  BY BlockIsGood, FinitePackFiles
<1>3. IsFiniteSet(Additional(d)) /\ Main \in DOMAIN d.workspaces
  BY FS_Subset DEF IsDeclaration, Additional
<1>4. PICK n \in Nat :
        /\ DOMAIN order = 1 .. n
        /\ \A i \in 1 .. n : order[i] \in Additional(d)
        /\ \A x \in Additional(d) : \E i \in 1 .. n : order[i] = x
        /\ \A i, j \in 1 .. n : order[i] = order[j] => i = j
  BY <1>3, Listing
<1> HIDE DEF B, order
<1>5. Tuple(O, n) /\ \A i \in 1 .. n : O[i] = B(order[i])
  BY <1>4 DEF Tuple
<1>6. Tuple(M, 1) /\ M[1] = B(Main)
  BY ShortTuples
<1> HIDE DEF S, M, O
<1>7. Joined(S, M, 1, O, n)
  BY <1>1, <1>5, <1>6, Concat
<1>8. Len(S) = 1 + n /\ DOMAIN S = 1 .. 1 + n
  BY <1>7, TupleLen DEF Joined
<1>9. S[1] = B(Main) /\ \A i \in 1 .. n : S[1 + i] = B(order[i])
  BY <1>5, <1>6, <1>7 DEF Joined
<1>10. \A b \in DOMAIN S : b = 1 \/ (b - 1 \in 1 .. n /\ 1 + (b - 1) = b)
  BY <1>8
<1>11. \A i \in 1 .. n : order[i] # Main /\ order[i] \in DOMAIN d.workspaces
  BY <1>4 DEF Additional
<1>12. \A b \in DOMAIN S : GoodBlock(S[b])
  BY <1>2, <1>3, <1>9, <1>10, <1>11
<1>13. S[1][1].ws = Main /\ \A i \in 1 .. n : S[1 + i][1].ws = order[i]
  BY <1>2, <1>3, <1>9, <1>11
<1>14. ASSUME NEW b \in DOMAIN S, NEW c \in DOMAIN S, S[b][1].ws = S[c][1].ws PROVE b = c
  <2>1. CASE b = 1
    BY <1>10, <1>11, <1>13, <1>14, <2>1
  <2>2. CASE c = 1
    BY <1>10, <1>11, <1>13, <1>14, <2>2
  <2>3. CASE b # 1 /\ c # 1
    <3>1. b - 1 = c - 1
      BY <1>4, <1>10, <1>13, <1>14, <2>3
    <3> QED
      BY <1>8, <3>1
  <2> QED
    BY <2>1, <2>2, <2>3
<1>15. GoodScript(S)
  BY <1>8, <1>12, <1>14 DEF GoodScript
<1>16. ASSUME NEW w \in Additional(d) PROVE HasBlock(S, d, w, e)
  <2>1. PICK i \in 1 .. n : order[i] = w
    BY <1>4
  <2>2. 1 + i \in DOMAIN S /\ S[1 + i] = B(w) /\ w \in DOMAIN d.workspaces
    BY <1>8, <1>9, <1>11, <2>1
  <2> QED
    BY <1>2, <2>2 DEF HasBlock
<1> QED
  BY <1>15, <1>16 DEF S

-----------------------------------------------------------------------------
(* Steps of the init script. *)

LEMMA PodIsThere ==
    ASSUME NEW t, NEW b, NEW n, NEW u
    PROVE  [tpl |-> t, block |-> b, line |-> n, due |-> u] # None
<1>1. DOMAIN [tpl |-> t, block |-> b, line |-> n, due |-> u] = {"tpl", "block", "line", "due"}
  OBVIOUS
<1>2. DOMAIN None = {}
  BY DEF None
<1> QED
  BY <1>1, <1>2

\* Where the script is.
LEMMA Here ==
    ASSUME PodInv, InScript
    PROVE  /\ pod = [tpl |-> pod.tpl, block |-> pod.block, line |-> pod.line, due |-> pod.due]
           /\ Len(Script) \in Nat /\ DOMAIN Script = 1 .. Len(Script) /\ pod.block \in DOMAIN Script
           /\ \A b, c \in DOMAIN Script : Script[b][1].ws = Script[c][1].ws => b = c
           /\ \A b \in DOMAIN Script : GoodBlock(Script[b])
           /\ GoodBlock(Block) /\ Len(Block) \in Nat /\ DOMAIN Block = 1 .. Len(Block) /\ pod.line \in DOMAIN Block
<1>1. /\ pod = [tpl |-> pod.tpl, block |-> pod.block, line |-> pod.line, due |-> pod.due]
      /\ GoodScript(Script) /\ pod.block \in 1 .. Len(Script) + 1 /\ pod.block <= Len(Script) /\ pod.line \in DOMAIN Block
  BY DEF PodInv, InScript
<1>2. /\ Len(Script) \in Nat /\ DOMAIN Script = 1 .. Len(Script)
      /\ \A b \in DOMAIN Script : GoodBlock(Script[b])
      /\ \A b, c \in DOMAIN Script : Script[b][1].ws = Script[c][1].ws => b = c
  BY <1>1 DEF GoodScript
<1>3. pod.block \in DOMAIN Script
  BY <1>1, <1>2
<1>4. GoodBlock(Block)
  BY <1>2, <1>3 DEF Block
<1> QED
  BY <1>1, <1>2, <1>3, <1>4 DEF GoodBlock

LEMMA BlockHasOneWorkspace ==
    ASSUME PodInv, InScript, NEW b \in DOMAIN Script, NEW i \in DOMAIN Script[b]
    PROVE  /\ Script[b][i].ws = Script[b][1].ws
           /\ Script[b][i].ws = CurrentLine.ws => b = pod.block
<1>1. /\ GoodBlock(Script[b]) /\ GoodBlock(Block) /\ pod.line \in DOMAIN Block /\ pod.block \in DOMAIN Script
      /\ \A c \in DOMAIN Script : Script[b][1].ws = Script[c][1].ws => b = c
  BY Here
<1>2. Script[b][i].ws = Script[b][1].ws
  BY <1>1 DEF GoodBlock
<1>3. CurrentLine.ws = Block[1].ws
  BY <1>1 DEF GoodBlock, CurrentLine
<1> QED
  BY <1>1, <1>2, <1>3 DEF Block

LEMMA Move ==
    ASSUME PodInv, InScript, Advanced
    PROVE  /\ pod' # None /\ pod'.due = FALSE /\ pod'.tpl = pod.tpl /\ Script' = Script
           /\ pod' = [tpl |-> pod'.tpl, block |-> pod'.block, line |-> pod'.line, due |-> pod'.due]
           /\ \/ pod.line < Len(Block) /\ pod'.block = pod.block /\ pod'.line = pod.line + 1
              \/ pod.line = Len(Block) /\ pod'.block = pod.block + 1 /\ pod'.line = 1
<1>1. /\ pod = [tpl |-> pod.tpl, block |-> pod.block, line |-> pod.line, due |-> pod.due]
      /\ Len(Block) \in Nat /\ pod.line \in 1 .. Len(Block)
  BY Here
<1>2. \/ /\ pod.line < Len(Block)
         /\ pod' = [tpl |-> pod.tpl, block |-> pod.block, line |-> pod.line + 1, due |-> FALSE]
      \/ /\ pod.line = Len(Block)
         /\ pod' = [tpl |-> pod.tpl, block |-> pod.block + 1, line |-> 1, due |-> FALSE]
  <2>1. CASE pod.line < Len(Block)
    <3>1. pod' = [pod EXCEPT !.line = @ + 1, !.due = FALSE]
      BY <2>1 DEF Advanced
    <3> QED
      BY <1>1, <2>1, <3>1
  <2>2. CASE ~(pod.line < Len(Block))
    <3>1. pod' = [pod EXCEPT !.block = @ + 1, !.line = 1, !.due = FALSE]
      BY <2>2 DEF Advanced
    <3>2. pod.line = Len(Block)
      BY <1>1, <2>2
    <3> QED
      BY <1>1, <3>1, <3>2
  <2> QED
    BY <2>1, <2>2
<1>3. pod' # None
  BY <1>2, PodIsThere
<1>4. /\ pod'.due = FALSE /\ pod'.tpl = pod.tpl
      /\ pod' = [tpl |-> pod'.tpl, block |-> pod'.block, line |-> pod'.line, due |-> pod'.due]
      /\ \/ pod.line < Len(Block) /\ pod'.block = pod.block /\ pod'.line = pod.line + 1
         \/ pod.line = Len(Block) /\ pod'.block = pod.block + 1 /\ pod'.line = 1
  BY <1>2
<1> QED
  BY <1>3, <1>4 DEF Script

LEMMA PodAdvances ==
    ASSUME PodInv, InScript, Advanced, UNCHANGED sts
    PROVE  PodInv'
<1>1. /\ Len(Script) \in Nat /\ DOMAIN Script = 1 .. Len(Script) /\ pod.block \in DOMAIN Script
      /\ \A b \in DOMAIN Script : GoodBlock(Script[b])
      /\ Len(Block) \in Nat /\ DOMAIN Block = 1 .. Len(Block) /\ pod.line \in DOMAIN Block
  BY Here
<1>2. GoodScript(Script)
  BY DEF PodInv, InScript
<1>3. /\ pod'.due = FALSE /\ Script' = Script
      /\ pod' = [tpl |-> pod'.tpl, block |-> pod'.block, line |-> pod'.line, due |-> pod'.due]
      /\ \/ pod.line < Len(Block) /\ pod'.block = pod.block /\ pod'.line = pod.line + 1
         \/ pod.line = Len(Block) /\ pod'.block = pod.block + 1 /\ pod'.line = 1
  BY Move
<1>4. GoodScript(Script')
  BY <1>2, <1>3
<1>5. pod'.block \in 1 .. Len(Script') + 1
  BY <1>1, <1>3
<1>6. pod'.block <= Len(Script') => pod'.line \in DOMAIN Script'[pod'.block]
  <2>1. CASE pod'.block = pod.block /\ pod'.line = pod.line + 1 /\ pod.line < Len(Block)
    <3>1. Script'[pod'.block] = Block
      BY <1>3, <2>1 DEF Block
    <3> QED
      BY <1>1, <2>1, <3>1
  <2>2. CASE pod'.block = pod.block + 1 /\ pod'.line = 1
    <3> SUFFICES ASSUME pod'.block <= Len(Script') PROVE 1 \in DOMAIN Script'[pod'.block]
      BY <2>2
    <3>1. pod'.block \in DOMAIN Script
      BY <1>1, <1>3, <2>2
    <3>2. GoodBlock(Script'[pod'.block])
      BY <1>1, <1>3, <3>1
    <3> QED
      BY <3>2 DEF GoodBlock
  <2> QED
    BY <1>3, <2>1, <2>2
<1>7. sts' # None => GoodScript(sts'.script)
  BY DEF PodInv
<1>8. pod'.block <= Len(Script') => pod'.line \in DOMAIN Block'
  BY <1>6 DEF Block
<1> QED
  BY <1>3, <1>4, <1>5, <1>7, <1>8 DEF PodInv

LEMMA PassedNext ==
    ASSUME PodInv, InScript, Advanced, NEW b \in DOMAIN Script, NEW i \in DOMAIN Script[b], Passed(b, i)'
    PROVE  Passed(b, i) \/ (b = pod.block /\ i = pod.line)
<1>1. /\ DOMAIN Script = 1 .. Len(Script) /\ Len(Script) \in Nat /\ pod.block \in DOMAIN Script
      /\ GoodBlock(Script[b]) /\ Len(Block) \in Nat /\ DOMAIN Block = 1 .. Len(Block) /\ pod.line \in DOMAIN Block
  BY Here
<1>2. DOMAIN Script[b] = 1 .. Len(Script[b]) /\ Len(Script[b]) \in Nat
  BY <1>1 DEF GoodBlock
<1>3. \/ pod.line < Len(Block) /\ pod'.block = pod.block /\ pod'.line = pod.line + 1
      \/ pod.line = Len(Block) /\ pod'.block = pod.block + 1 /\ pod'.line = 1
  BY Move
<1>4. b < pod'.block \/ (b = pod'.block /\ i < pod'.line)
  BY DEF Passed
<1>5. CASE pod.line < Len(Block) /\ pod'.block = pod.block /\ pod'.line = pod.line + 1
  BY <1>1, <1>2, <1>4, <1>5 DEF Passed
<1>6. CASE pod.line = Len(Block) /\ pod'.block = pod.block + 1 /\ pod'.line = 1
  <2>1. b <= pod.block
    BY <1>1, <1>2, <1>4, <1>6
  <2>2. b = pod.block => i <= pod.line
    BY <1>1, <1>2, <1>6 DEF Block
  <2> QED
    BY <1>1, <1>2, <2>1, <2>2 DEF Passed
<1> QED
  BY <1>3, <1>5, <1>6

\* A block that ends without a promotion or a drop has no sync.
LEMMA SyncedAdvances ==
    ASSUME PodInv, SyncedInv, InScript, Advanced, UNCHANGED manifest, CurrentLine.op \notin {"promote", "drop"}
    PROVE  SyncedInv'
<1>1. /\ DOMAIN Script = 1 .. Len(Script) /\ Len(Script) \in Nat /\ pod.block \in DOMAIN Script
      /\ GoodBlock(Block)
  BY Here
<1>2. /\ Script' = Script /\ pod # None
      /\ \/ pod.line < Len(Block) /\ pod'.block = pod.block /\ pod'.line = pod.line + 1
         \/ pod.line = Len(Block) /\ pod'.block = pod.block + 1 /\ pod'.line = 1
  BY Move DEF InScript
<1> SUFFICES ASSUME NEW b \in DOMAIN Script, NEW j \in DOMAIN Script[b], b < pod'.block
             PROVE  LET l == Script[b][j]
                    IN  /\ l.op = "stage" => l.ws \in DOMAIN manifest /\ manifest[l.ws] = l.paths
                        /\ l.op = "stageEmpty" => l.ws \notin DOMAIN manifest
  BY <1>2 DEF SyncedInv
<1>3. CASE b < pod.block
  BY <1>2, <1>3 DEF SyncedInv
<1>4. CASE b = pod.block /\ pod.line = Len(Block)
  <2>1. Script[b] = Block /\ Block[Len(Block)].op \notin {"promote", "drop"}
    BY <1>4 DEF Block, CurrentLine
  <2>2. Script[b][j].op # "stage" /\ Script[b][j].op # "stageEmpty"
    BY <1>1, <2>1 DEF GoodBlock
  <2> QED
    BY <2>2
<1> QED
  BY <1>1, <1>2, <1>3, <1>4

\* Before its sync a block has staged nothing.
LEMMA NothingStaged ==
    ASSUME PodInv, InScript, CurrentLine.op \in {"seed", "seedPack", "apply"},
           NEW j \in DOMAIN Block, j <= pod.line
    PROVE  Block[j].op \notin Staging
<1>1. GoodBlock(Block) /\ Len(Block) \in Nat /\ DOMAIN Block = 1 .. Len(Block) /\ pod.line \in DOMAIN Block
  BY Here
<1>2. CASE j = pod.line
  BY <1>2 DEF CurrentLine, Staging
<1>3. CASE j < pod.line
  <2>1. Block[j].op \in Staging => Block[pod.line].op \in {"clean", "copy", "promote", "drop"}
    BY <1>1, <1>3 DEF GoodBlock
  <2> QED
    BY <2>1 DEF CurrentLine
<1> QED
  BY <1>1, <1>2, <1>3

LEMMA SyncNotBegun ==
    ASSUME PodInv, InScript, CurrentLine.op \in {"seed", "seedPack", "apply"}, Advanced, UNCHANGED sts
    PROVE  SyncInv'
<1>1. PodInv'
  BY PodAdvances
<1> SUFFICES ASSUME InScript', NEW j \in DOMAIN Block', j < pod'.line PROVE Block'[j].op \notin Staging
  BY DEF SyncInv
<1>2. pod'.line \in DOMAIN Block' /\ DOMAIN Block' = 1 .. Len(Block') /\ Len(Block') \in Nat
  <2>1. pod'.line \in DOMAIN Block' /\ GoodScript(Script') /\ pod'.block \in 1 .. Len(Script') + 1 /\ pod'.block <= Len(Script')
    BY <1>1 DEF PodInv, InScript
  <2>2. GoodBlock(Script'[pod'.block])
    BY <2>1 DEF GoodScript
  <2> QED
    BY <2>1, <2>2 DEF GoodBlock, Block
<1>3. /\ Script' = Script
      /\ \/ pod.line < Len(Block) /\ pod'.block = pod.block /\ pod'.line = pod.line + 1
         \/ pod.line = Len(Block) /\ pod'.block = pod.block + 1 /\ pod'.line = 1
  BY Move
<1>4. CASE pod'.block = pod.block /\ pod'.line = pod.line + 1
  <2>1. Block' = Block
    BY <1>3, <1>4 DEF Block
  <2>2. j \in DOMAIN Block /\ j <= pod.line
    BY <1>2, <1>4, <2>1, Here
  <2> QED
    BY <2>1, <2>2, NothingStaged
<1>5. CASE pod'.line = 1
  BY <1>2, <1>5
<1> QED
  BY <1>3, <1>4, <1>5

LEMMA OperatorFrame ==
    ASSUME PackTypes, PassInv, UNCHANGED <<decl, ext, upstream, reachable, operatorVars>>
    PROVE  PackTypes' /\ PassInv'
<1>1. decl' = decl /\ ext' = ext /\ upstream' = upstream /\ cache' = cache /\ pass' = pass
  BY DEF operatorVars
<1>2. PackTypes'
  BY <1>1 DEF PackTypes
<1>3. PassInv'
  BY <1>1 DEF PassInv, Resolvable, NextPack
<1> QED
  BY <1>2, <1>3

\* A line that is no apply passes no apply.
LEMMA AppliedFrame ==
    ASSUME PodInv, AppliedInv, InScript, Advanced, CurrentLine.op # "apply", UNCHANGED <<vol, torn, applied>>
    PROVE  AppliedInv'
<1>1. Script' = Script /\ pod # None
  BY Move DEF InScript
<1> SUFFICES ASSUME NEW b \in DOMAIN Script, NEW i \in DOMAIN Script[b],
                    Passed(b, i)', Script[b][i].op = "apply", Slot(Script[b][i]) \in DOMAIN vol \ torn
             PROVE  LET l == Script[b][i]
                    IN  /\ vol[Slot(l)] \in {l.hash, Own, Link}
                        /\ vol[Slot(l)] # Link /\ Slot(l) \in DOMAIN applied => applied[Slot(l)] = l.hash
  BY <1>1 DEF AppliedInv
<1>2. Passed(b, i)
  <2>1. ~(b = pod.block /\ i = pod.line)
    BY DEF CurrentLine, Block
  <2> QED
    BY <2>1, PassedNext
<1> QED
  BY <1>1, <1>2 DEF AppliedInv

\* A copy that is no apply leaves what it changes torn.
LEMMA CopyAside ==
    ASSUME PodInv, SlotInv, MarkerInv, AppliedInv, TrackedInv,
           InScript, Advanced, CurrentLine.op # "apply", CopiedAside(CurrentLine), UNCHANGED <<applied, markers, manifest>>
    PROVE  SlotInv' /\ MarkerInv' /\ AppliedInv' /\ TrackedInv'
<1> DEFINE s == Slot(CurrentLine)
           c == cm[Source(CurrentLine)]
<1>1. CASE ~Copies(CurrentLine)
  <2>1. UNCHANGED <<vol, untracked, torn>>
    BY <1>1 DEF CopiedAside, Copied
  <2>2. AppliedInv'
    BY <2>1, AppliedFrame
  <2> QED
    BY <2>1, <2>2 DEF SlotInv, MarkerInv, TrackedInv, Tracked
<1>2. CASE Copies(CurrentLine)
  <2>1. /\ vol' = Put(vol, s, c)
        /\ untracked' = IF Tracked(s) THEN untracked ELSE untracked \cup {s}
    BY <1>2 DEF CopiedAside, Copied
  <2>2. /\ torn \subseteq torn' /\ \A t : t # s /\ t \notin torn => t \notin torn'
        /\ s \notin torn' => s \in DOMAIN vol /\ s \in DOMAIN applied /\ applied[s] = c
    BY <1>2 DEF CopiedAside, Repeats
  <2>3. s \in DOMAIN vol => vol[s] # Link
    BY <1>2 DEF Copies
  <2>4. s = <<s[1], s[2]>>
    BY DEF Slot
  <2> HIDE DEF s, c
  <2>5. /\ DOMAIN vol' = DOMAIN vol \cup {s} /\ vol'[s] = c
        /\ \A t \in DOMAIN vol : t # s => vol'[t] = vol[t]
    BY <2>1 DEF Put
  <2>6. SlotInv'
    BY <2>4, <2>5 DEF SlotInv
  <2>7. MarkerInv'
    <3>1. ASSUME NEW t \in DOMAIN vol' \ torn'
          PROVE  vol'[t] \in {Own, Link} \/ (t \in DOMAIN applied' /\ applied'[t] = vol'[t])
      BY <2>2, <2>5 DEF MarkerInv
    <3>2. ASSUME NEW t \in DOMAIN applied' \ torn'
          PROVE  Marker(t) \in DOMAIN markers' /\ markers'[Marker(t)] = applied'[t]
      BY <2>2 DEF MarkerInv
    <3> QED
      BY <3>1, <3>2 DEF MarkerInv
  <2>8. AppliedInv'
    <3>1. Script' = Script /\ pod # None
      BY Move DEF InScript
    <3> SUFFICES ASSUME NEW b \in DOMAIN Script, NEW i \in DOMAIN Script[b],
                        Passed(b, i)', Script[b][i].op = "apply", Slot(Script[b][i]) \in DOMAIN vol' \ torn'
                 PROVE  LET l == Script[b][i]
                        IN  /\ vol'[Slot(l)] \in {l.hash, Own, Link}
                            /\ vol'[Slot(l)] # Link /\ Slot(l) \in DOMAIN applied => applied[Slot(l)] = l.hash
      BY <3>1 DEF AppliedInv
    <3> DEFINE l == Script[b][i]
               t == Slot(l)
    <3>2. Passed(b, i)
      <4>1. ~(b = pod.block /\ i = pod.line)
        BY DEF CurrentLine, Block
      <4> QED
        BY <4>1, PassedNext
    <3>3. t \in DOMAIN vol \ torn
      BY <2>2, <2>5
    <3>4. /\ vol[t] \in {l.hash, Own, Link}
          /\ vol[t] # Link /\ t \in DOMAIN applied => applied[t] = l.hash
      BY <3>1, <3>2, <3>3 DEF AppliedInv
    <3> HIDE DEF t, l
    <3>5. CASE t = s
      <4>1. applied[t] = l.hash /\ vol'[t] = l.hash
        BY <2>2, <2>3, <2>5, <3>3, <3>4, <3>5 DEF t, l
      <4> QED
        BY <4>1 DEF t, l
    <3>6. CASE t # s
      <4>1. vol'[t] = vol[t]
        BY <2>5, <3>3, <3>6
      <4> QED
        BY <3>4, <4>1 DEF t, l
    <3> QED
      BY <3>5, <3>6
  <2>9. TrackedInv'
    <3> SUFFICES ASSUME NEW t \in DOMAIN vol' PROVE vol'[t] \in {Own, Link} \/ t \in untracked' \/ Tracked(t)
      BY DEF TrackedInv, Tracked
    <3>1. CASE t = s
      BY <2>1, <3>1
    <3>2. CASE t # s
      <4>1. t \in DOMAIN vol /\ vol'[t] = vol[t] /\ (t \in untracked => t \in untracked')
        BY <2>1, <2>5, <3>2
      <4> QED
        BY <4>1 DEF TrackedInv
    <3> QED
      BY <3>1, <3>2
  <2> QED
    BY <2>6, <2>7, <2>8, <2>9
<1> QED
  BY <1>1, <1>2

LEMMA SeedStep ==
    ASSUME IInv, SeedFile
    PROVE  IInv'
<1> USE DEF IInv
<1>1. /\ InScript /\ CurrentLine.op \in {"seed", "seedPack"} /\ Advanced
      /\ UNCHANGED <<decl, ext, upstream, reachable, operatorVars>>
      /\ UNCHANGED <<sts, markers, manifest, staging, applied, listed>>
  BY DEF SeedFile, clusterVars
<1>2. PackTypes' /\ PassInv'
  BY <1>1, OperatorFrame
<1>3. PodInv'
  BY <1>1, PodAdvances
<1>4. SlotInv' /\ MarkerInv' /\ AppliedInv' /\ TrackedInv'
  <2>1. CASE CopiedAside(CurrentLine)
    BY <1>1, <2>1, CopyAside
  <2>2. CASE UNCHANGED <<vol, torn, untracked>>
    <3>1. AppliedInv'
      BY <1>1, <2>2, AppliedFrame
    <3> QED
      BY <1>1, <2>2, <3>1 DEF SlotInv, MarkerInv, TrackedInv, Tracked
  <2> QED
    BY <2>1, <2>2 DEF SeedFile
<1>5. ListedInv'
  BY <1>1 DEF ListedInv
<1>6. SyncInv'
  BY <1>1, SyncNotBegun
<1>7. SyncedInv'
  BY <1>1, SyncedAdvances
<1> QED
  BY <1>2, <1>3, <1>4, <1>5, <1>6, <1>7

LEMMA ApplyStep ==
    ASSUME IInv, applyManagedFile
    PROVE  IInv'
<1> USE DEF IInv
<1> DEFINE l == CurrentLine
           s == Slot(CurrentLine)
<1>1. /\ InScript /\ l.op = "apply"
      /\ UNCHANGED <<decl, ext, upstream, reachable, operatorVars>>
      /\ UNCHANGED <<sts, markers, manifest, staging, listed>>
  BY DEF applyManagedFile, clusterVars
<1>2. PackTypes' /\ PassInv'
  BY <1>1, OperatorFrame
<1>3. ListedInv'
  BY <1>1 DEF ListedInv
<1>4. /\ pod = [tpl |-> pod.tpl, block |-> pod.block, line |-> pod.line, due |-> pod.due]
      /\ pod.block \in DOMAIN Script /\ pod.line \in DOMAIN Block
  BY <1>1, Here
<1>5. CASE Refused(l) \/ UpToDate(l)
  <2>1. Advanced /\ UNCHANGED <<vol, applied, torn, untracked>>
    BY <1>5 DEF applyManagedFile
  <2>2. PodInv'
    BY <1>1, <2>1, PodAdvances
  <2>3. SlotInv' /\ MarkerInv' /\ TrackedInv'
    BY <1>1, <2>1 DEF SlotInv, MarkerInv, TrackedInv, Tracked
  <2>4. AppliedInv'
    <3>1. Script' = Script /\ pod # None
      BY <1>1, <2>1, Move DEF InScript
    <3> SUFFICES ASSUME NEW b \in DOMAIN Script, NEW i \in DOMAIN Script[b],
                        Passed(b, i)', Script[b][i].op = "apply", Slot(Script[b][i]) \in DOMAIN vol \ torn
                 PROVE  LET k == Script[b][i]
                        IN  /\ vol[Slot(k)] \in {k.hash, Own, Link}
                            /\ vol[Slot(k)] # Link /\ Slot(k) \in DOMAIN applied => applied[Slot(k)] = k.hash
      BY <2>1, <3>1 DEF AppliedInv
    <3>2. CASE Passed(b, i)
      BY <1>1, <3>1, <3>2 DEF AppliedInv
    <3>3. CASE b = pod.block /\ i = pod.line
      <4>1. Script[b][i] = l
        BY <3>3 DEF CurrentLine, Block
      <4>2. CASE Refused(l)
        BY <4>1, <4>2 DEF Refused
      <4>3. CASE UpToDate(l)
        <5>1. Marker(s) \in DOMAIN markers /\ markers[Marker(s)] = l.hash
          BY <4>3 DEF UpToDate, Marker, Slot
        <5>2. s \in DOMAIN applied => applied[s] = l.hash
          BY <4>1, <5>1 DEF MarkerInv
        <5>3. vol[s] \in {Own, Link} \/ (s \in DOMAIN applied /\ applied[s] = vol[s])
          BY <4>1 DEF MarkerInv
        <5> QED
          BY <4>1, <5>2, <5>3
      <4> QED
        BY <1>5, <4>2, <4>3
    <3> QED
      BY <1>1, <2>1, <3>2, <3>3, PassedNext
  <2>5. SyncInv' /\ SyncedInv'
    BY <1>1, <2>1, SyncNotBegun, SyncedAdvances
  <2> QED
    BY <1>2, <1>3, <2>2, <2>3, <2>4, <2>5
<1>6. CASE Applied(l)
  <2>1. /\ pod' = [pod EXCEPT !.due = TRUE]
        /\ torn' = torn \cup {s}
        /\ Copied(l)
        /\ \A t : t # s => /\ t \in DOMAIN applied' <=> t \in DOMAIN applied
                           /\ t \in DOMAIN applied => applied'[t] = applied[t]
    BY <1>6 DEF Applied, Put
  <2>2. pod' = [tpl |-> pod.tpl, block |-> pod.block, line |-> pod.line, due |-> TRUE]
    BY <1>4, <2>1
  <2>3. pod' # None
    BY <2>2, PodIsThere
  <2>4. Script' = Script /\ pod # None
    BY <1>1, <2>2 DEF Script, InScript
  <2>5. Block' = Block /\ CurrentLine' = CurrentLine /\ InScript'
    BY <1>1, <2>2, <2>3, <2>4 DEF Block, CurrentLine, InScript
  <2>6. PodInv'
    <3>1. sts' # None => GoodScript(sts'.script)
      BY <1>1 DEF PodInv
    <3>2. GoodScript(Script') /\ pod'.block \in 1 .. Len(Script') + 1 /\ pod'.line \in DOMAIN Block'
      BY <1>4, <2>2, <2>4, <2>5 DEF PodInv
    <3>3. CurrentLine'.op = "apply" /\ Slot(CurrentLine') \in torn'
      BY <1>1, <2>1, <2>5
    <3> QED
      BY <2>2, <2>5, <3>1, <3>2, <3>3 DEF PodInv
  <2>7. /\ s \in DOMAIN vol' => vol'[s] \in {Own, Link} \/ s \in untracked' \/ Tracked(s)
        /\ \A t : t # s => /\ t \in DOMAIN vol' <=> t \in DOMAIN vol
                           /\ t \in DOMAIN vol => vol'[t] = vol[t]
        /\ untracked \subseteq untracked'
    <3>1. CASE ~Copies(l)
      BY <2>1, <3>1 DEF Copied, TrackedInv
    <3>2. CASE Copies(l)
      <4>1. vol' = Put(vol, s, cm[Source(l)]) /\ untracked' = IF Tracked(s) THEN untracked ELSE untracked \cup {s}
        BY <2>1, <3>2 DEF Copied
      <4> HIDE DEF s
      <4> QED
        BY <4>1 DEF Put
    <3> QED
      BY <3>1, <3>2
  <2>8. s = <<s[1], s[2]>>
    BY DEF Slot
  <2> HIDE DEF s
  <2>9. SlotInv'
    BY <2>7, <2>8 DEF SlotInv
  <2>10. MarkerInv'
    BY <1>1, <2>1, <2>7 DEF MarkerInv
  <2>11. TrackedInv'
    <3> SUFFICES ASSUME NEW t \in DOMAIN vol' PROVE vol'[t] \in {Own, Link} \/ t \in untracked' \/ Tracked(t)
      BY <1>1 DEF TrackedInv, Tracked
    <3> QED
      BY <2>7 DEF TrackedInv
  <2>12. AppliedInv'
    <3> SUFFICES ASSUME NEW b \in DOMAIN Script, NEW i \in DOMAIN Script[b],
                        Passed(b, i)', Script[b][i].op = "apply", Slot(Script[b][i]) \in DOMAIN vol' \ torn'
                 PROVE  LET k == Script[b][i]
                        IN  /\ vol'[Slot(k)] \in {k.hash, Own, Link}
                            /\ vol'[Slot(k)] # Link /\ Slot(k) \in DOMAIN applied' => applied'[Slot(k)] = k.hash
      BY <2>4 DEF AppliedInv
    <3> DEFINE k == Script[b][i]
               t == Slot(k)
    <3>1. Passed(b, i)
      BY <2>2 DEF Passed
    <3>2. t # s /\ t \in DOMAIN vol \ torn
      BY <2>1, <2>7
    <3>3. /\ vol[t] \in {k.hash, Own, Link}
          /\ vol[t] # Link /\ t \in DOMAIN applied => applied[t] = k.hash
      BY <1>1, <2>4, <3>1, <3>2 DEF AppliedInv
    <3> HIDE DEF t
    <3>4. vol'[t] = vol[t] /\ (t \in DOMAIN applied' => t \in DOMAIN applied /\ applied'[t] = applied[t])
      BY <2>1, <2>7, <3>2
    <3> QED
      BY <3>3, <3>4 DEF t
  <2>13. SyncInv'
    <3> SUFFICES ASSUME NEW j \in DOMAIN Block, j < pod.line PROVE Block[j].op \notin Staging
      BY <2>2, <2>5 DEF SyncInv
    <3>1. j <= pod.line
      BY <1>1, Here
    <3> QED
      BY <1>1, <3>1, NothingStaged
  <2>14. SyncedInv'
    <3>1. pod'.block = pod.block
      BY <2>2
    <3> QED
      BY <1>1, <2>4, <3>1 DEF SyncedInv
  <2> QED
    BY <1>2, <1>3, <2>6, <2>9, <2>10, <2>11, <2>12, <2>13, <2>14
<1> QED
  BY <1>5, <1>6 DEF applyManagedFile

LEMMA MarkerStep ==
    ASSUME IInv, writeMarker
    PROVE  IInv'
<1> USE DEF IInv
<1> DEFINE l == CurrentLine
           s == Slot(CurrentLine)
<1>1. /\ InScript /\ pod.due /\ Advanced
      /\ UNCHANGED <<decl, ext, upstream, reachable, operatorVars>>
      /\ UNCHANGED <<sts, vol, manifest, staging, applied, listed, untracked>>
  BY DEF writeMarker, clusterVars
<1>2. l.op = "apply" /\ s \in torn
  BY <1>1 DEF PodInv, InScript
<1>3. markers' = Put(markers, Marker(s), l.hash)
  BY DEF writeMarker
<1>4. /\ s \notin torn' => s \in DOMAIN vol /\ vol[s] = l.hash /\ s \in DOMAIN applied /\ applied[s] = l.hash
      /\ \A t : t # s /\ t \notin torn' => t \notin torn /\ ~(t \in DOMAIN applied /\ Marker(t) = Marker(s))
  BY <1>2 DEF writeMarker
<1>5. PackTypes' /\ PassInv'
  BY <1>1, OperatorFrame
<1>6. PodInv'
  BY <1>1, PodAdvances
<1>7. SlotInv' /\ ListedInv' /\ TrackedInv'
  BY <1>1 DEF SlotInv, ListedInv, TrackedInv, Tracked
<1>8. SyncInv' /\ SyncedInv'
  BY <1>1, <1>2, SyncNotBegun, SyncedAdvances
<1>9. MarkerInv'
  <2> HIDE DEF s, l
  <2>1. ASSUME NEW t \in DOMAIN vol \ torn'
        PROVE  vol[t] \in {Own, Link} \/ (t \in DOMAIN applied /\ applied[t] = vol[t])
    BY <1>4 DEF MarkerInv
  <2>2. ASSUME NEW t \in DOMAIN applied \ torn'
        PROVE  Marker(t) \in DOMAIN markers' /\ markers'[Marker(t)] = applied[t]
    <3>1. CASE t = s
      BY <1>3, <1>4, <3>1 DEF Put
    <3>2. CASE t # s
      <4>1. t \notin torn /\ Marker(t) # Marker(s)
        BY <1>4, <3>2
      <4>2. Marker(t) \in DOMAIN markers /\ markers[Marker(t)] = applied[t]
        BY <4>1 DEF MarkerInv
      <4> QED
        BY <1>3, <4>1, <4>2 DEF Put
    <3> QED
      BY <3>1, <3>2
  <2> QED
    BY <1>1, <2>1, <2>2 DEF MarkerInv
<1>10. AppliedInv'
  <2>1. Script' = Script /\ pod # None
    BY <1>1, Move DEF InScript
  <2> SUFFICES ASSUME NEW b \in DOMAIN Script, NEW i \in DOMAIN Script[b],
                      Passed(b, i)', Script[b][i].op = "apply", Slot(Script[b][i]) \in DOMAIN vol \ torn'
               PROVE  LET k == Script[b][i]
                      IN  /\ vol[Slot(k)] \in {k.hash, Own, Link}
                          /\ vol[Slot(k)] # Link /\ Slot(k) \in DOMAIN applied => applied[Slot(k)] = k.hash
    BY <1>1, <2>1 DEF AppliedInv
  <2> DEFINE k == Script[b][i]
             t == Slot(k)
  <2>2. CASE t = s
    <3>1. k.ws = l.ws /\ k.path = l.path
      BY <2>2 DEF Slot
    <3>2. b = pod.block
      BY <1>1, <3>1, BlockHasOneWorkspace
    <3>3. GoodBlock(Block) /\ pod.line \in DOMAIN Block
      BY <1>1, Here
    <3>4. k = Block[i] /\ i \in DOMAIN Block /\ l = Block[pod.line]
      BY <3>2 DEF Block, CurrentLine
    <3>5. k.hash = l.hash
      BY <1>2, <3>1, <3>3, <3>4 DEF GoodBlock
    <3> HIDE DEF l, s
    <3>6. vol[t] = k.hash /\ applied[t] = k.hash
      BY <1>4, <2>2, <3>5
    <3> QED
      BY <3>6
  <2>3. CASE t # s
    <3>1. t \in DOMAIN vol \ torn
      BY <1>4, <2>3
    <3>2. ~(b = pod.block /\ i = pod.line)
      BY <2>3 DEF CurrentLine, Block
    <3>3. Passed(b, i)
      BY <1>1, <3>2, PassedNext
    <3> QED
      BY <1>1, <2>1, <3>1, <3>3 DEF AppliedInv
  <2> QED
    BY <2>2, <2>3
<1> QED
  BY <1>5, <1>6, <1>7, <1>8, <1>9, <1>10

\* What SyncInv says of the next state, when the block goes on and when it ends.
LEMMA SyncAdvances ==
    ASSUME PodInv, InScript, Advanced, UNCHANGED sts,
           ASSUME NEW j \in DOMAIN Block, j <= pod.line, pod.line # Len(Block), Block[j].op \in Staging
           PROVE  LET w == Block[j].ws
                  IN  /\ Block[j].op = "stage" \/ w \in DOMAIN manifest' =>
                           w \in DOMAIN staging' /\ staging'[w] = Block[j].paths
                      /\ w \in DOMAIN manifest' /\ (\E i \in DOMAIN Block : i <= pod.line /\ Block[i].op = "clean") =>
                           \A s \in DOMAIN vol' : s[1] = w /\ s[2] \in manifest'[w] => s[2] \in Block[j].paths
    PROVE  SyncInv'
<1>1. PodInv'
  BY PodAdvances
<1> SUFFICES ASSUME InScript', NEW j \in DOMAIN Block', j < pod'.line, Block'[j].op \in Staging
             PROVE  LET w == Block'[j].ws
                    IN  /\ Block'[j].op = "stage" \/ w \in DOMAIN manifest' =>
                             w \in DOMAIN staging' /\ staging'[w] = Block'[j].paths
                        /\ w \in DOMAIN manifest' /\ (\E i \in DOMAIN Block' : i < pod'.line /\ Block'[i].op = "clean") =>
                             \A s \in DOMAIN vol' : s[1] = w /\ s[2] \in manifest'[w] => s[2] \in Block'[j].paths
  BY DEF SyncInv
<1>2. pod'.line \in DOMAIN Block' /\ DOMAIN Block' = 1 .. Len(Block') /\ Len(Block') \in Nat
  <2>1. pod'.line \in DOMAIN Block' /\ GoodScript(Script') /\ pod'.block \in 1 .. Len(Script') + 1 /\ pod'.block <= Len(Script')
    BY <1>1 DEF PodInv, InScript
  <2>2. GoodBlock(Script'[pod'.block])
    BY <2>1 DEF GoodScript
  <2> QED
    BY <2>1, <2>2 DEF GoodBlock, Block
<1>3. /\ Script' = Script
      /\ \/ pod.line < Len(Block) /\ pod'.block = pod.block /\ pod'.line = pod.line + 1
         \/ pod.line = Len(Block) /\ pod'.block = pod.block + 1 /\ pod'.line = 1
  BY Move
<1>4. CASE pod.line < Len(Block) /\ pod'.block = pod.block /\ pod'.line = pod.line + 1
  <2>1. Block' = Block
    BY <1>3, <1>4 DEF Block
  <2>2. /\ pod.line # Len(Block) /\ \A i \in DOMAIN Block : i < pod'.line <=> i <= pod.line
    BY <1>2, <1>4, <2>1, Here
  <2> QED
    BY <2>1, <2>2
<1>5. CASE pod'.line = 1
  BY <1>2, <1>5
<1> QED
  BY <1>3, <1>4, <1>5

LEMMA StageStep ==
    ASSUME IInv, StageManifest
    PROVE  IInv'
<1> USE DEF IInv
<1> DEFINE w == CurrentLine.ws
           paths == CurrentLine.paths
<1>1. /\ InScript /\ CurrentLine.op \in Staging /\ Advanced
      /\ UNCHANGED <<decl, ext, upstream, reachable, operatorVars>>
      /\ UNCHANGED <<sts, vol, markers, manifest, applied, torn, untracked>>
  BY DEF StageManifest, clusterVars, Staging
<1>2. /\ staging' = IF CurrentLine.op = "stageEmpty" /\ w \notin DOMAIN manifest THEN staging ELSE Put(staging, w, paths)
      /\ listed' = listed \cup ({w} \X paths)
  BY DEF StageManifest
<1>3. CurrentLine.op # "apply" /\ CurrentLine.op \notin {"clean", "copy", "promote", "drop"}
  BY <1>1 DEF Staging
<1>4. PackTypes' /\ PassInv'
  BY <1>1, OperatorFrame
<1>5. PodInv'
  BY <1>1, PodAdvances
<1>6. SlotInv' /\ MarkerInv' /\ TrackedInv'
  BY <1>1 DEF SlotInv, MarkerInv, TrackedInv, Tracked
<1>7. AppliedInv' /\ SyncedInv'
  BY <1>1, <1>3, AppliedFrame, SyncedAdvances
<1>8. ListedInv'
  <2> HIDE DEF w, paths
  <2>1. ASSUME NEW v \in DOMAIN manifest' PROVE {v} \X manifest'[v] \subseteq listed'
    BY <1>1, <1>2 DEF ListedInv
  <2>2. ASSUME NEW v \in DOMAIN staging' PROVE {v} \X staging'[v] \subseteq listed'
    <3>1. CASE v \in DOMAIN staging /\ staging'[v] = staging[v]
      BY <1>2, <3>1 DEF ListedInv
    <3>2. CASE v = w /\ staging'[v] = paths
      BY <1>2, <3>2
    <3> QED
      BY <1>2, <3>1, <3>2 DEF Put
  <2> QED
    BY <2>1, <2>2 DEF ListedInv
<1>9. SyncInv'
  <2>1. GoodBlock(Block) /\ pod.line \in DOMAIN Block /\ DOMAIN Block = 1 .. Len(Block) /\ Len(Block) \in Nat
    BY <1>1, Here
  <2>2. ASSUME NEW i \in DOMAIN Block, i <= pod.line, Block[i].op \in Staging PROVE i = pod.line
    <3>1. i < pod.line => Block[pod.line].op \in {"clean", "copy", "promote", "drop"}
      BY <2>1, <2>2 DEF GoodBlock
    <3> QED
      BY <1>3, <2>1, <2>2, <3>1 DEF CurrentLine
  <2>3. ASSUME NEW i \in DOMAIN Block, i <= pod.line PROVE Block[i].op # "clean"
    <3> SUFFICES ASSUME Block[i].op = "clean" PROVE FALSE
      OBVIOUS
    <3>1. PICK j \in DOMAIN Block : j < i /\ Block[j].op \in Staging
      BY <2>1 DEF GoodBlock
    <3>2. j < pod.line /\ j <= pod.line
      BY <2>1, <2>3, <3>1
    <3> QED
      BY <2>1, <2>2, <3>1, <3>2
  <2>4. /\ CurrentLine.op = "stage" \/ w \in DOMAIN manifest => w \in DOMAIN staging' /\ staging'[w] = paths
    <3> HIDE DEF w, paths
    <3> QED
      BY <1>2 DEF Put
  <2> QED
    BY <1>1, <2>2, <2>3, <2>4, SyncAdvances DEF CurrentLine
<1> QED
  BY <1>4, <1>5, <1>6, <1>7, <1>8, <1>9

LEMMA CleanStep ==
    ASSUME IInv, skillPackCleanupLoop
    PROVE  IInv'
<1> USE DEF IInv
<1> DEFINE w == CurrentLine.ws
<1>1. /\ InScript /\ CurrentLine.op = "clean"
      /\ UNCHANGED <<decl, ext, upstream, reachable, operatorVars>>
      /\ UNCHANGED <<sts, markers, manifest, staging, applied, torn, listed, untracked>>
  BY DEF skillPackCleanupLoop, clusterVars, history
<1>2. PackTypes' /\ PassInv'
  BY <1>1, OperatorFrame
<1>3. ListedInv'
  BY <1>1 DEF ListedInv
<1>4. CASE w \in DOMAIN manifest /\ Stale(w) # {}
  <2>1. pod' = pod /\ DOMAIN vol' \subseteq DOMAIN vol /\ \A s \in DOMAIN vol' : vol'[s] = vol[s]
    BY <1>4 DEF skillPackCleanupLoop, Without, Restrict
  <2>2. PodInv'
    BY <1>1, <2>1 DEF PodInv, Script, Block, CurrentLine, InScript
  <2>3. SlotInv' /\ MarkerInv' /\ TrackedInv'
    BY <1>1, <2>1 DEF SlotInv, MarkerInv, TrackedInv, Tracked
  <2>4. AppliedInv'
    BY <1>1, <2>1 DEF AppliedInv, Script, InScript, Passed
  <2>5. SyncInv'
    <3>1. Block' = Block /\ (InScript' <=> InScript)
      BY <2>1 DEF Script, Block, InScript
    <3> QED
      BY <1>1, <2>1, <3>1 DEF SyncInv
  <2>6. SyncedInv'
    BY <1>1, <2>1 DEF SyncedInv, Script
  <2> QED
    BY <1>2, <1>3, <2>2, <2>3, <2>4, <2>5, <2>6
<1>5. CASE ~(w \in DOMAIN manifest /\ Stale(w) # {})
  <2>1. Advanced /\ vol' = vol
    BY <1>5 DEF skillPackCleanupLoop
  <2>2. PodInv'
    BY <1>1, <2>1, PodAdvances
  <2>3. SlotInv' /\ MarkerInv' /\ TrackedInv'
    BY <1>1, <2>1 DEF SlotInv, MarkerInv, TrackedInv, Tracked
  <2>4. AppliedInv' /\ SyncedInv'
    BY <1>1, <2>1, AppliedFrame, SyncedAdvances
  <2>5. SyncInv'
    <3>1. GoodBlock(Block) /\ pod.line \in DOMAIN Block /\ DOMAIN Block = 1 .. Len(Block) /\ Len(Block) \in Nat
      BY <1>1, Here
    <3>2. ASSUME NEW j \in DOMAIN Block, j <= pod.line, Block[j].op \in Staging
          PROVE  /\ Block[j].op = "stage" \/ Block[j].ws \in DOMAIN manifest =>
                      Block[j].ws \in DOMAIN staging /\ staging[Block[j].ws] = Block[j].paths
                 /\ Block[j].ws \in DOMAIN manifest =>
                      \A s \in DOMAIN vol : s[1] = Block[j].ws /\ s[2] \in manifest[Block[j].ws] => s[2] \in Block[j].paths
      <4>1. j # pod.line
        BY <1>1, <3>2 DEF CurrentLine, Staging
      <4>2. j < pod.line
        BY <3>1, <3>2, <4>1
      <4>3. Block[j].ws = w
        BY <3>1 DEF GoodBlock, CurrentLine
      <4>4. Block[j].op = "stage" \/ w \in DOMAIN manifest => w \in DOMAIN staging /\ staging[w] = Block[j].paths
        BY <1>1, <3>2, <4>2, <4>3 DEF SyncInv
      <4> HIDE DEF w
      <4>5. ASSUME w \in DOMAIN manifest, NEW s \in DOMAIN vol, s[1] = w, s[2] \in manifest[w] PROVE s[2] \in Block[j].paths
        <5>1. s \notin Stale(w)
          BY <1>5, <4>5
        <5> QED
          BY <4>4, <4>5, <5>1 DEF Stale
      <4> QED
        BY <4>3, <4>4, <4>5
    <3> QED
      BY <1>1, <2>1, <3>2, SyncAdvances
  <2> QED
    BY <1>2, <1>3, <2>2, <2>3, <2>4, <2>5
<1> QED
  BY <1>4, <1>5

LEMMA CopyStep ==
    ASSUME IInv, CopyPackFile
    PROVE  IInv'
<1> USE DEF IInv
<1> DEFINE s == Slot(CurrentLine)
<1>1. /\ InScript /\ CurrentLine.op = "copy" /\ CopiedAside(CurrentLine) /\ Advanced
      /\ UNCHANGED <<decl, ext, upstream, reachable, operatorVars>>
      /\ UNCHANGED <<sts, markers, manifest, staging, applied, listed>>
  BY DEF CopyPackFile, clusterVars
<1>2. PackTypes' /\ PassInv'
  BY <1>1, OperatorFrame
<1>3. PodInv'
  BY <1>1, PodAdvances
<1>4. SlotInv' /\ MarkerInv' /\ AppliedInv' /\ TrackedInv'
  BY <1>1, CopyAside
<1>5. ListedInv'
  BY <1>1 DEF ListedInv
<1>6. SyncedInv'
  BY <1>1, SyncedAdvances
<1>7. SyncInv'
  <2>1. GoodBlock(Block) /\ pod.line \in DOMAIN Block /\ DOMAIN Block = 1 .. Len(Block) /\ Len(Block) \in Nat
    BY <1>1, Here
  <2>2. DOMAIN vol' \subseteq DOMAIN vol \cup {s}
    BY <1>1 DEF CopiedAside, Copied, Put
  <2>3. ASSUME NEW j \in DOMAIN Block, j <= pod.line, Block[j].op \in Staging
        PROVE  /\ Block[j].op = "stage" \/ Block[j].ws \in DOMAIN manifest =>
                    Block[j].ws \in DOMAIN staging /\ staging[Block[j].ws] = Block[j].paths
               /\ Block[j].ws \in DOMAIN manifest =>
                    \A t \in DOMAIN vol' : t[1] = Block[j].ws /\ t[2] \in manifest[Block[j].ws] => t[2] \in Block[j].paths
    <3>1. j # pod.line
      BY <1>1, <2>3 DEF CurrentLine, Staging
    <3>2. j < pod.line
      BY <2>1, <2>3, <3>1
    <3>3. \E i \in DOMAIN Block : i < pod.line /\ Block[i].op = "clean"
      BY <1>1, <2>1 DEF GoodBlock, CurrentLine
    <3>4. /\ Block[j].op = "stage" \/ Block[j].ws \in DOMAIN manifest =>
                Block[j].ws \in DOMAIN staging /\ staging[Block[j].ws] = Block[j].paths
          /\ Block[j].ws \in DOMAIN manifest =>
               \A t \in DOMAIN vol : t[1] = Block[j].ws /\ t[2] \in manifest[Block[j].ws] => t[2] \in Block[j].paths
      BY <1>1, <2>3, <3>2, <3>3 DEF SyncInv
    <3>5. s[2] \in Block[j].paths
      <4>1. Block[j].op = "stage"
        BY <1>1, <2>1, <2>3 DEF GoodBlock, CurrentLine, Staging
      <4>2. Block[j].paths = {Block[k].path : k \in {c \in DOMAIN Block : Block[c].op = "copy"}}
        BY <2>1, <4>1 DEF GoodBlock
      <4>3. Block[pod.line].op = "copy" /\ s[2] = Block[pod.line].path
        BY <1>1 DEF Slot, CurrentLine
      <4> QED
        BY <2>1, <4>2, <4>3
    <3> HIDE DEF s
    <3> QED
      BY <2>2, <3>4, <3>5
  <2> QED
    BY <1>1, <2>3, SyncAdvances
<1> QED
  BY <1>2, <1>3, <1>4, <1>5, <1>6, <1>7

\* The last line of a sync: what was staged before, and that the cleanup is done.
LEMMA SyncEnds ==
    ASSUME PodInv, SyncInv, InScript, CurrentLine.op \in {"promote", "drop"}
    PROVE  LET w == CurrentLine.ws
           IN  /\ pod.line = Len(Block)
               /\ \A j \in DOMAIN Block : Block[j].op \in Staging =>
                     /\ Block[j].ws = w
                     /\ Block[j].op = "stage" \/ w \in DOMAIN manifest =>
                           w \in DOMAIN staging /\ staging[w] = Block[j].paths
                     /\ w \in DOMAIN manifest =>
                           \A s \in DOMAIN vol : s[1] = w /\ s[2] \in manifest[w] => s[2] \in Block[j].paths
                     /\ CurrentLine.op = "promote" => Block[j].op = "stage"
                     /\ CurrentLine.op = "drop" => Block[j].op = "stageEmpty" /\ Block[j].paths = {}
               /\ \E j \in DOMAIN Block : Block[j].op \in Staging
<1>1. GoodBlock(Block) /\ pod.line \in DOMAIN Block /\ DOMAIN Block = 1 .. Len(Block) /\ Len(Block) \in Nat
  BY Here
<1>2. pod.line = Len(Block)
  BY <1>1 DEF GoodBlock, CurrentLine
<1>3. \E j \in DOMAIN Block : Block[j].op \in Staging
  BY <1>1 DEF GoodBlock, CurrentLine
<1>4. \E i \in DOMAIN Block : i < pod.line /\ Block[i].op = "clean"
  BY <1>1 DEF GoodBlock, CurrentLine
<1>5. ASSUME NEW j \in DOMAIN Block, Block[j].op \in Staging
      PROVE  /\ Block[j].ws = CurrentLine.ws
             /\ Block[j].op = "stage" \/ Block[j].ws \in DOMAIN manifest =>
                   Block[j].ws \in DOMAIN staging /\ staging[Block[j].ws] = Block[j].paths
             /\ Block[j].ws \in DOMAIN manifest =>
                   \A s \in DOMAIN vol : s[1] = Block[j].ws /\ s[2] \in manifest[Block[j].ws] => s[2] \in Block[j].paths
             /\ CurrentLine.op = "promote" => Block[j].op = "stage"
             /\ CurrentLine.op = "drop" => Block[j].op = "stageEmpty" /\ Block[j].paths = {}
  <2>1. j # pod.line
    BY <1>5 DEF CurrentLine, Staging
  <2>2. j < pod.line
    BY <1>1, <1>2, <2>1
  <2>3. Block[j].ws = CurrentLine.ws
    BY <1>1 DEF GoodBlock, CurrentLine
  <2>4. /\ CurrentLine.op = "promote" => Block[j].op = "stage"
        /\ CurrentLine.op = "drop" => Block[j].op = "stageEmpty" /\ Block[j].paths = {}
    <3>1. CASE Block[j].op = "stage"
      <4>1. Block[Len(Block)].op = "promote"
        BY <1>1, <3>1 DEF GoodBlock
      <4> QED
        BY <1>2, <3>1, <4>1 DEF CurrentLine
    <3>2. CASE Block[j].op = "stageEmpty"
      <4>1. Block[Len(Block)].op = "drop" /\ Block[j].paths = {}
        BY <1>1, <3>2 DEF GoodBlock
      <4> QED
        BY <1>2, <3>2, <4>1 DEF CurrentLine
    <3> QED
      BY <1>5, <3>1, <3>2 DEF Staging
  <2> QED
    BY <1>4, <1>5, <2>2, <2>3, <2>4 DEF SyncInv
<1> QED
  BY <1>2, <1>3, <1>5

\* After the last line of a sync, for the workspaces whose manifest it leaves alone.
LEMMA OtherSyncs ==
    ASSUME PodInv, SyncedInv, InScript, Advanced,
           \A v : v # CurrentLine.ws => /\ v \in DOMAIN manifest' <=> v \in DOMAIN manifest
                                        /\ v \in DOMAIN manifest => manifest'[v] = manifest[v],
           \A j \in DOMAIN Block : /\ Block[j].op = "stage" => Block[j].ws \in DOMAIN manifest' /\ manifest'[Block[j].ws] = Block[j].paths
                                   /\ Block[j].op = "stageEmpty" => Block[j].ws \notin DOMAIN manifest'
    PROVE  SyncedInv'
<1>1. /\ Script' = Script /\ pod # None
      /\ \/ pod'.block = pod.block
         \/ pod'.block = pod.block + 1
  BY Move DEF InScript
<1>2. DOMAIN Script = 1 .. Len(Script) /\ Len(Script) \in Nat /\ pod.block \in DOMAIN Script
  BY Here
<1> SUFFICES ASSUME NEW b \in DOMAIN Script, NEW j \in DOMAIN Script[b], b < pod'.block
             PROVE  LET l == Script[b][j]
                    IN  /\ l.op = "stage" => l.ws \in DOMAIN manifest' /\ manifest'[l.ws] = l.paths
                        /\ l.op = "stageEmpty" => l.ws \notin DOMAIN manifest'
  BY <1>1 DEF SyncedInv
<1>3. CASE b = pod.block
  BY <1>3 DEF Block
<1>4. CASE b # pod.block
  <2>1. b < pod.block
    BY <1>1, <1>2, <1>4
  <2>2. Script[b][j].ws # CurrentLine.ws
    BY <1>4, BlockHasOneWorkspace
  <2>3. LET l == Script[b][j]
        IN  /\ l.op = "stage" => l.ws \in DOMAIN manifest /\ manifest[l.ws] = l.paths
            /\ l.op = "stageEmpty" => l.ws \notin DOMAIN manifest
    BY <1>1, <2>1 DEF SyncedInv
  <2> QED
    BY <2>2, <2>3
<1> QED
  BY <1>3, <1>4

LEMMA PromoteStep ==
    ASSUME IInv, PromoteManifest
    PROVE  IInv'
<1> USE DEF IInv
<1> DEFINE w == CurrentLine.ws
<1>1. /\ InScript /\ CurrentLine.op = "promote" /\ Advanced
      /\ UNCHANGED <<decl, ext, upstream, reachable, operatorVars>>
      /\ UNCHANGED <<sts, vol, markers, applied, torn, listed>>
  BY DEF PromoteManifest, clusterVars
<1>2. manifest' = Put(manifest, w, staging[w]) /\ staging' = Without(staging, {w}) /\ untracked' = untracked \ ({w} \X staging[w])
  BY DEF PromoteManifest
<1>3. /\ pod.line = Len(Block)
      /\ \A j \in DOMAIN Block : Block[j].op \in Staging =>
            /\ Block[j].ws = w /\ Block[j].op = "stage"
            /\ w \in DOMAIN staging /\ staging[w] = Block[j].paths
            /\ w \in DOMAIN manifest => \A s \in DOMAIN vol : s[1] = w /\ s[2] \in manifest[w] => s[2] \in Block[j].paths
      /\ \E j \in DOMAIN Block : Block[j].op \in Staging
  BY <1>1, SyncEnds
<1>4. /\ w \in DOMAIN staging
      /\ w \in DOMAIN manifest => \A s \in DOMAIN vol : s[1] = w /\ s[2] \in manifest[w] => s[2] \in staging[w]
  BY <1>3
<1>5. PackTypes' /\ PassInv'
  BY <1>1, OperatorFrame
<1>6. PodInv'
  BY <1>1, PodAdvances
<1>7. SlotInv' /\ MarkerInv' /\ AppliedInv'
  BY <1>1, AppliedFrame DEF SlotInv, MarkerInv
<1>8. SyncInv'
  BY <1>1, <1>3, SyncAdvances
<1>9. /\ w \in DOMAIN manifest' /\ manifest'[w] = staging[w]
      /\ \A v : v # w => /\ v \in DOMAIN manifest' <=> v \in DOMAIN manifest
                         /\ v \in DOMAIN manifest => manifest'[v] = manifest[v]
  <2> HIDE DEF w
  <2> QED
    BY <1>2 DEF Put
<1>10. SyncedInv'
  <2>1. \A j \in DOMAIN Block : /\ Block[j].op = "stage" => Block[j].ws \in DOMAIN manifest' /\ manifest'[Block[j].ws] = Block[j].paths
                                /\ Block[j].op = "stageEmpty" => Block[j].ws \notin DOMAIN manifest'
    BY <1>3, <1>9 DEF Staging
  <2> QED
    BY <1>1, <1>9, <2>1, OtherSyncs
<1>11. ListedInv'
  <2> HIDE DEF w
  <2>1. ASSUME NEW v \in DOMAIN manifest' PROVE {v} \X manifest'[v] \subseteq listed'
    <3>1. CASE v = w
      BY <1>1, <1>4, <1>9, <3>1 DEF ListedInv
    <3>2. CASE v # w
      BY <1>1, <1>9, <3>2 DEF ListedInv
    <3> QED
      BY <3>1, <3>2
  <2>2. ASSUME NEW v \in DOMAIN staging' PROVE {v} \X staging'[v] \subseteq listed'
    <3>1. v \in DOMAIN staging /\ staging'[v] = staging[v]
      BY <1>2 DEF Without, Restrict
    <3> QED
      BY <1>1, <3>1 DEF ListedInv
  <2> QED
    BY <2>1, <2>2 DEF ListedInv
<1>12. TrackedInv'
  <2> SUFFICES ASSUME NEW t \in DOMAIN vol, vol[t] \notin {Own, Link}, t \notin untracked' PROVE Tracked(t)'
    BY <1>1 DEF TrackedInv
  <2> HIDE DEF w
  <2>1. CASE t[1] = w
    <3>1. t[2] \in staging[w]
      <4>1. CASE t \in untracked
        BY <1>2, <4>1
      <4>2. CASE Tracked(t)
        BY <1>4, <2>1, <4>2 DEF Tracked
      <4> QED
        BY <4>1, <4>2 DEF TrackedInv
    <3> QED
      BY <1>9, <2>1, <3>1 DEF Tracked
  <2>2. CASE t[1] # w
    <3>1. t \notin untracked
      BY <1>2, <2>2
    <3>2. Tracked(t)
      BY <3>1 DEF TrackedInv
    <3> QED
      BY <1>9, <2>2, <3>2 DEF Tracked
  <2> QED
    BY <2>1, <2>2
<1> QED
  BY <1>5, <1>6, <1>7, <1>8, <1>10, <1>11, <1>12

LEMMA DropStep ==
    ASSUME IInv, DropManifest
    PROVE  IInv'
<1> USE DEF IInv
<1> DEFINE w == CurrentLine.ws
<1>1. /\ InScript /\ CurrentLine.op = "drop" /\ Advanced
      /\ UNCHANGED <<decl, ext, upstream, reachable, operatorVars>>
      /\ UNCHANGED <<sts, vol, markers, applied, torn, listed, untracked>>
  BY DEF DropManifest, clusterVars, history
<1>2. /\ pod.line = Len(Block)
      /\ \A j \in DOMAIN Block : Block[j].op \in Staging =>
            /\ Block[j].ws = w /\ Block[j].op = "stageEmpty" /\ Block[j].paths = {}
            /\ w \in DOMAIN manifest => \A s \in DOMAIN vol : s[1] = w /\ s[2] \in manifest[w] => s[2] \in Block[j].paths
      /\ \E j \in DOMAIN Block : Block[j].op \in Staging
  BY <1>1, SyncEnds
<1>3. w \in DOMAIN manifest => \A s \in DOMAIN vol : s[1] = w => s[2] \notin manifest[w]
  BY <1>2
<1>4. /\ w \notin DOMAIN manifest'
      /\ \A v : v # w => /\ v \in DOMAIN manifest' <=> v \in DOMAIN manifest
                         /\ v \in DOMAIN manifest => manifest'[v] = manifest[v]
      /\ \A v \in DOMAIN staging' : v \in DOMAIN staging /\ staging'[v] = staging[v]
  <2>1. CASE w \in DOMAIN manifest
    <3>1. manifest' = Without(manifest, {w}) /\ staging' = Without(staging, {w})
      BY <2>1 DEF DropManifest
    <3> HIDE DEF w
    <3> QED
      BY <3>1 DEF Without, Restrict
  <2>2. CASE w \notin DOMAIN manifest
    BY <2>2 DEF DropManifest
  <2> QED
    BY <2>1, <2>2
<1>5. PackTypes' /\ PassInv'
  BY <1>1, OperatorFrame
<1>6. PodInv'
  BY <1>1, PodAdvances
<1>7. SlotInv' /\ MarkerInv' /\ AppliedInv'
  BY <1>1, AppliedFrame DEF SlotInv, MarkerInv
<1>8. SyncInv'
  BY <1>1, <1>2, SyncAdvances
<1>9. SyncedInv'
  <2>1. \A j \in DOMAIN Block : /\ Block[j].op = "stage" => Block[j].ws \in DOMAIN manifest' /\ manifest'[Block[j].ws] = Block[j].paths
                                /\ Block[j].op = "stageEmpty" => Block[j].ws \notin DOMAIN manifest'
    BY <1>2, <1>4 DEF Staging
  <2> QED
    BY <1>1, <1>4, <2>1, OtherSyncs
<1>10. ListedInv'
  <2> HIDE DEF w
  <2>1. \A v \in DOMAIN manifest' : v \in DOMAIN manifest /\ manifest'[v] = manifest[v]
    BY <1>4
  <2> QED
    BY <1>1, <1>4, <2>1 DEF ListedInv
<1>11. TrackedInv'
  <2> SUFFICES ASSUME NEW t \in DOMAIN vol, Tracked(t) PROVE Tracked(t)'
    BY <1>1 DEF TrackedInv
  <2>1. t[1] # w
    BY <1>3 DEF Tracked
  <2> QED
    BY <1>4, <2>1 DEF Tracked
<1> QED
  BY <1>5, <1>6, <1>7, <1>8, <1>9, <1>10, <1>11

-----------------------------------------------------------------------------
(* The other steps. *)

\* A pod that starts from the top has passed nothing.
LEMMA PodBegins ==
    ASSUME IInv, NEW t, GoodScript(t.script),
           pod' = [tpl |-> t, block |-> 1, line |-> 1, due |-> FALSE],
           UNCHANGED <<decl, ext, upstream, reachable, operatorVars, clusterVars, volumeVars, history>>
    PROVE  IInv'
<1> USE DEF IInv
<1>1. UNCHANGED <<sts, vol, markers, manifest, staging, applied, torn, listed, untracked>>
  BY DEF clusterVars, volumeVars, history
<1>2. PackTypes' /\ PassInv'
  BY OperatorFrame
<1>3. Script' = t.script /\ pod'.tpl = t /\ pod'.block = 1 /\ pod'.line = 1 /\ pod'.due = FALSE
  BY DEF Script
<1>4. /\ Len(Script') \in Nat /\ DOMAIN Script' = 1 .. Len(Script')
      /\ \A b \in DOMAIN Script' : GoodBlock(Script'[b])
  BY <1>3 DEF GoodScript
<1>5. PodInv'
  <2>1. sts' # None => GoodScript(sts'.script)
    BY <1>1 DEF PodInv
  <2>2. 1 <= Len(Script') => 1 \in DOMAIN Block'
    <3> SUFFICES ASSUME 1 <= Len(Script') PROVE 1 \in DOMAIN Block'
      OBVIOUS
    <3>1. 1 \in DOMAIN Script'
      BY <1>4
    <3>2. GoodBlock(Script'[1]) /\ Block' = Script'[1]
      BY <1>3, <1>4, <3>1 DEF Block
    <3> QED
      BY <3>2 DEF GoodBlock
  <2>3. GoodScript(Script') /\ 1 \in 1 .. Len(Script') + 1
    BY <1>3, <1>4
  <2>4. pod' = [tpl |-> pod'.tpl, block |-> pod'.block, line |-> pod'.line, due |-> pod'.due]
    OBVIOUS
  <2> QED
    BY <1>3, <2>1, <2>2, <2>3, <2>4 DEF PodInv
<1>6. SlotInv' /\ MarkerInv' /\ ListedInv' /\ TrackedInv'
  BY <1>1 DEF SlotInv, MarkerInv, ListedInv, TrackedInv, Tracked
<1>7. ASSUME NEW b \in DOMAIN Script' PROVE ~(b < 1) /\ DOMAIN Script'[b] = 1 .. Len(Script'[b]) /\ Len(Script'[b]) \in Nat
  BY <1>4 DEF GoodBlock
<1>8. AppliedInv'
  <2>1. ASSUME NEW b \in DOMAIN Script', NEW i \in DOMAIN Script'[b] PROVE ~Passed(b, i)'
    BY <1>3, <1>7 DEF Passed
  <2> QED
    BY <2>1 DEF AppliedInv
<1>9. SyncInv'
  <2> SUFFICES ASSUME InScript', NEW j \in DOMAIN Block', j < pod'.line PROVE FALSE
    BY DEF SyncInv
  <2>1. 1 \in DOMAIN Script' /\ Block' = Script'[1]
    BY <1>3, <1>4 DEF InScript, Block
  <2>2. DOMAIN Block' = 1 .. Len(Block') /\ Len(Block') \in Nat
    BY <1>7, <2>1
  <2> QED
    BY <1>3, <2>2
<1>10. SyncedInv'
  BY <1>3, <1>7 DEF SyncedInv
<1> QED
  BY <1>2, <1>5, <1>6, <1>8, <1>9, <1>10

LEMMA StartStep ==
    ASSUME IInv, StartPod
    PROVE  IInv'
<1>1. /\ GoodScript(sts.script) /\ pod' = [tpl |-> sts, block |-> 1, line |-> 1, due |-> FALSE]
      /\ UNCHANGED <<decl, ext, upstream, reachable, operatorVars, clusterVars, volumeVars, history>>
  BY DEF IInv, PodInv, StartPod
<1> QED
  BY <1>1, PodBegins

LEMMA RestartStep ==
    ASSUME IInv, PodRestarts
    PROVE  IInv'
<1>1. /\ pod = [tpl |-> pod.tpl, block |-> pod.block, line |-> pod.line, due |-> pod.due]
      /\ GoodScript(pod.tpl.script)
  BY DEF IInv, PodInv, PodRestarts, Script
<1>2. pod' = [pod EXCEPT !.block = 1, !.line = 1, !.due = FALSE]
  BY DEF PodRestarts
<1>3. pod' = [tpl |-> pod.tpl, block |-> 1, line |-> 1, due |-> FALSE]
  BY <1>1, <1>2
<1>4. UNCHANGED <<decl, ext, upstream, reachable, operatorVars, clusterVars, volumeVars, history>>
  BY DEF PodRestarts
<1> QED
  BY <1>1, <1>3, <1>4, PodBegins

\* The agent's files are its own.
LEMMA AgentStep ==
    ASSUME IInv, Running, DOMAIN vol' \subseteq DOMAIN vol \cup Edited,
           \A s \in DOMAIN vol' : vol'[s] \in {Own, Link} \/ (s \in DOMAIN vol /\ vol'[s] = vol[s]),
           UNCHANGED <<decl, ext, upstream, reachable, operatorVars, clusterVars, pod, markers, manifest, staging, history>>
    PROVE  IInv'
<1> USE DEF IInv
<1>1. UNCHANGED <<sts, pod, markers, manifest, staging, applied, torn, listed, untracked>>
  BY DEF clusterVars, history
<1>2. PackTypes' /\ PassInv'
  BY OperatorFrame
<1>3. PodInv'
  BY <1>1 DEF PodInv, Script, Block, CurrentLine, InScript
<1>4. SlotInv'
  BY WorkspaceAssumption DEF SlotInv
<1>5. MarkerInv'
  BY <1>1 DEF MarkerInv
<1>6. ListedInv' /\ TrackedInv'
  BY <1>1 DEF ListedInv, TrackedInv, Tracked
<1>7. ~InScript'
  <2>1. Len(Script) \in Nat /\ pod.block \in 1 .. Len(Script) + 1 /\ pod.block > Len(Script)
    BY DEF Running, PodInv, GoodScript
  <2>2. ~(pod.block <= Len(Script))
    BY <2>1
  <2> QED
    BY <1>1, <2>2 DEF InScript, Script
<1>8. AppliedInv'
  <2> SUFFICES ASSUME pod # None, NEW b \in DOMAIN Script, NEW i \in DOMAIN Script[b],
                      Passed(b, i), Script[b][i].op = "apply", Slot(Script[b][i]) \in DOMAIN vol' \ torn
               PROVE  vol'[Slot(Script[b][i])] \in {Script[b][i].hash, Own, Link}
    BY <1>1, <1>7 DEF AppliedInv, Script, Passed
  <2> QED
    BY DEF AppliedInv
<1>9. SyncInv'
  BY <1>7 DEF SyncInv
<1>10. SyncedInv'
  BY <1>1 DEF SyncedInv, Script
<1> QED
  BY <1>2, <1>3, <1>4, <1>5, <1>6, <1>8, <1>9, <1>10

LEMMA AgentWritesStep ==
    ASSUME IInv, NEW s \in Edited, NEW content \in {Own, Link}, AgentWrites(s, content)
    PROVE  IInv'
<1>1. /\ Running /\ vol' = Put(vol, s, content)
      /\ UNCHANGED <<decl, ext, upstream, reachable, operatorVars, clusterVars, pod, markers, manifest, staging, history>>
  BY DEF AgentWrites
<1>2. DOMAIN vol' \subseteq DOMAIN vol \cup Edited
  BY <1>1 DEF Put
<1>3. \A t \in DOMAIN vol' : vol'[t] \in {Own, Link} \/ (t \in DOMAIN vol /\ vol'[t] = vol[t])
  BY <1>1 DEF Put
<1> QED
  BY <1>1, <1>2, <1>3, AgentStep

LEMMA AgentDeletesStep ==
    ASSUME IInv, NEW s \in Edited, AgentDeletes(s)
    PROVE  IInv'
<1>1. /\ Running /\ vol' = Without(vol, {s})
      /\ UNCHANGED <<decl, ext, upstream, reachable, operatorVars, clusterVars, pod, markers, manifest, staging, history>>
  BY DEF AgentDeletes
<1>2. DOMAIN vol' \subseteq DOMAIN vol \cup Edited
  BY <1>1 DEF Without, Restrict
<1>3. \A t \in DOMAIN vol' : vol'[t] \in {Own, Link} \/ (t \in DOMAIN vol /\ vol'[t] = vol[t])
  BY <1>1 DEF Without, Restrict
<1> QED
  BY <1>1, <1>2, <1>3, AgentStep

\* The operator writes nothing to the volume.
LEMMA VolumeFrame ==
    ASSUME IInv, UNCHANGED <<pod, volumeVars, history>>
    PROVE  /\ SlotInv' /\ MarkerInv' /\ AppliedInv' /\ ListedInv' /\ TrackedInv' /\ SyncInv' /\ SyncedInv'
           /\ (sts' # None => GoodScript(sts'.script)) => PodInv'
           /\ sts' = sts => PodInv'
<1> USE DEF IInv
<1>1. UNCHANGED <<pod, vol, markers, manifest, staging, applied, torn, listed, untracked>>
  BY DEF volumeVars, history
<1>2. SlotInv' /\ MarkerInv' /\ ListedInv' /\ TrackedInv'
  BY <1>1 DEF SlotInv, MarkerInv, ListedInv, TrackedInv, Tracked
<1>3. AppliedInv'
  BY <1>1 DEF AppliedInv, Script, Passed, InScript
<1>4. SyncInv' /\ SyncedInv'
  <2>1. Script' = Script /\ Block' = Block /\ (InScript' <=> InScript)
    BY <1>1 DEF Script, Block, InScript
  <2>2. SyncInv'
    BY <1>1, <2>1 DEF SyncInv
  <2>3. SyncedInv'
    BY <1>1, <2>1 DEF SyncedInv
  <2> QED
    BY <2>2, <2>3
<1>5. (sts' # None => GoodScript(sts'.script)) => PodInv'
  BY <1>1 DEF PodInv, Script, Block, CurrentLine, InScript
<1>6. sts' = sts => PodInv'
  BY <1>5 DEF PodInv
<1> QED
  BY <1>2, <1>3, <1>4, <1>5, <1>6

LEMMA FirstPackIsOpen ==
    ASSUME NEW todo, todo # {}
    PROVE  FirstPack(todo) \in todo
<1> DEFINE open == {x[1] : x \in todo}
           w == IF Main \in open THEN Main ELSE CHOOSE v \in open : TRUE
<1>1. open # {}
  OBVIOUS
<1>2. (CHOOSE v \in open : TRUE) \in open
  BY <1>1
<1>3. w \in open
  BY <1>2
<1> HIDE DEF w
<1>4. \E x \in todo : x[1] = w
  BY <1>3
<1>5. (CHOOSE x \in todo : x[1] = w) \in todo
  BY <1>4
<1> QED
  BY <1>5 DEF FirstPack, w

\* A pass that resolves: its record, its next pack and what that stands for.
LEMMA Resolution ==
    ASSUME PassInv, pass.step = "resolve"
    PROVE  /\ pass = [step |-> "resolve", decl |-> pass.decl, todo |-> pass.todo, rev |-> pass.rev,
                      packs |-> pass.packs, known |-> pass.known]
           /\ pass.decl \in Declarations /\ pass.todo \subseteq Wanted(pass.decl)
           /\ pass.todo # {} /\ pass.rev # 0 => pass.rev \in DOMAIN Revisions[NextPack[2]]
           /\ pass.known \subseteq DOMAIN cache
           /\ FinitePacks(pass.packs)
           /\ \A w \in DOMAIN pass.decl.workspaces :
                 Resolvable(w) => w \in DOMAIN pass.packs \/ \E x \in pass.todo : x[1] = w
           /\ pass.todo # {} => /\ NextPack \in pass.todo
                                /\ NextPack[1] \in DOMAIN pass.decl.workspaces
                                /\ NextPack[2] \in pass.decl.workspaces[NextPack[1]].packs
                                /\ NextPack[2] \in Packs
<1>1. pass # Idle
  BY DEF Idle
<1>2. /\ pass = [step |-> "resolve", decl |-> pass.decl, todo |-> pass.todo, rev |-> pass.rev,
                 packs |-> pass.packs, known |-> pass.known]
      /\ pass.decl \in Declarations /\ pass.todo \subseteq Wanted(pass.decl)
      /\ pass.todo # {} /\ pass.rev # 0 => pass.rev \in DOMAIN Revisions[NextPack[2]]
      /\ pass.known \subseteq DOMAIN cache
      /\ FinitePacks(pass.packs)
      /\ \A w \in DOMAIN pass.decl.workspaces :
            Resolvable(w) => w \in DOMAIN pass.packs \/ \E x \in pass.todo : x[1] = w
  BY <1>1 DEF PassInv
<1>3. ASSUME pass.todo # {}
      PROVE  /\ NextPack \in pass.todo
             /\ NextPack[1] \in DOMAIN pass.decl.workspaces
             /\ NextPack[2] \in pass.decl.workspaces[NextPack[1]].packs
             /\ NextPack[2] \in Packs
  <2>1. NextPack \in pass.todo
    BY <1>3, FirstPackIsOpen DEF NextPack
  <2>2. PICK w \in DOMAIN pass.decl.workspaces : NextPack \in {w} \X pass.decl.workspaces[w].packs
    BY <1>2, <2>1 DEF Wanted
  <2>3. NextPack[1] = w /\ NextPack[2] \in pass.decl.workspaces[w].packs
    BY <2>2
  <2>4. pass.decl.workspaces[w].packs \subseteq Packs
    BY <1>2, WorkspaceAssumption DEF IsDeclaration
  <2> QED
    BY <2>1, <2>2, <2>3, <2>4
<1> QED
  BY <1>2, <1>3

\* A step of a resolving pass, as a record.
LEMMA PassStep ==
    ASSUME pass = [step |-> "resolve", decl |-> pass.decl, todo |-> pass.todo, rev |-> pass.rev,
                   packs |-> pass.packs, known |-> pass.known],
           NEW u, NEW m, NEW q, pass' = [pass EXCEPT !.todo = u, !.rev = m, !.packs = q]
    PROVE  pass' = [step |-> "resolve", decl |-> pass.decl, todo |-> u, rev |-> m, packs |-> q, known |-> pass.known]
<1> DEFINE v == pass'
           r == pass
<1>1. DOMAIN r = {"step", "decl", "todo", "rev", "packs", "known"}
  OBVIOUS
<1>2. r.step = "resolve"
  OBVIOUS
<1>3. v = [r EXCEPT !.todo = u, !.rev = m, !.packs = q]
  OBVIOUS
<1> HIDE DEF v, r
<1>4. DOMAIN v = DOMAIN r /\ v = [x \in DOMAIN v |-> v[x]]
  BY <1>3
<1>5. v.step = "resolve" /\ v.decl = r.decl /\ v.todo = u /\ v.rev = m /\ v.packs = q /\ v.known = r.known
  BY <1>1, <1>2, <1>3
<1>6. v = [step |-> "resolve", decl |-> r.decl, todo |-> u, rev |-> m, packs |-> q, known |-> r.known]
  BY <1>1, <1>4, <1>5
<1> QED
  BY <1>6 DEF v, r

LEMMA ResolvedPass ==
    ASSUME PassInv, Resolving, NEW files, FiniteFiles(files), Resolved(files),
           pass.known \subseteq DOMAIN cache'
    PROVE  PassInv'
<1> DEFINE w == NextPack[1]
           got == Put(pass.packs, w, files ++ PackFiles(pass.packs, w))
           rest == pass.todo \ {NextPack}
<1>1. pass.step = "resolve" /\ pass.todo # {}
  BY DEF Resolving
<1>2. pass' = [pass EXCEPT !.todo = rest, !.rev = 0, !.packs = got]
  BY DEF Resolved
<1>3. /\ pass = [step |-> "resolve", decl |-> pass.decl, todo |-> pass.todo, rev |-> pass.rev,
                 packs |-> pass.packs, known |-> pass.known]
      /\ pass.decl \in Declarations /\ pass.todo \subseteq Wanted(pass.decl)
      /\ FinitePacks(pass.packs)
      /\ \A v \in DOMAIN pass.decl.workspaces :
            Resolvable(v) => v \in DOMAIN pass.packs \/ \E x \in pass.todo : x[1] = v
  BY <1>1, Resolution
<1>4. FiniteFiles(files ++ PackFiles(pass.packs, w))
  BY <1>3, FiniteUnion, FinitePackFiles DEF FiniteFiles
<1>5. FinitePacks(got) /\ DOMAIN got = DOMAIN pass.packs \cup {w}
  <2> HIDE DEF w
  <2> QED
    BY <1>3, <1>4 DEF FinitePacks, Put
<1> HIDE DEF got, rest
<1>6. pass' = [step |-> "resolve", decl |-> pass.decl, todo |-> rest, rev |-> 0, packs |-> got, known |-> pass.known]
  <2>1. pass = [step |-> "resolve", decl |-> pass.decl, todo |-> pass.todo, rev |-> pass.rev,
                packs |-> pass.packs, known |-> pass.known]
    BY <1>3
  <2> QED
    BY <1>2, <2>1, PassStep
<1>7. ASSUME NEW v \in DOMAIN pass.decl.workspaces, Resolvable(v)
      PROVE  v \in DOMAIN got \/ \E x \in rest : x[1] = v
  BY <1>3, <1>5, <1>7 DEF rest
<1>8. rest \subseteq Wanted(pass.decl)
  BY <1>3 DEF rest
<1>9. /\ pass'.step = "resolve" /\ pass'.decl = pass.decl /\ pass'.todo = rest /\ pass'.rev = 0
      /\ pass'.packs = got /\ pass'.known = pass.known
  BY <1>6
<1>10. \A v : Resolvable(v)' <=> Resolvable(v)
  BY <1>9 DEF Resolvable
<1> QED
  BY <1>3, <1>5, <1>6, <1>7, <1>8, <1>9, <1>10 DEF PassInv

\* A workspace is abandoned for a pack that the cache does not hold.
LEMMA AbandonedPass ==
    ASSUME PassInv, Resolving, NextPack[2] \notin DOMAIN cache, Abandoned(NextPack[1]), UNCHANGED cache
    PROVE  PassInv'
<1> DEFINE w == NextPack[1]
           got == Without(pass.packs, {w})
           rest == {x \in pass.todo : x[1] # w}
<1>1. pass.step = "resolve" /\ pass.todo # {}
  BY DEF Resolving
<1>2. pass' = [pass EXCEPT !.todo = rest, !.rev = 0, !.packs = got]
  BY DEF Abandoned
<1>3. /\ pass = [step |-> "resolve", decl |-> pass.decl, todo |-> pass.todo, rev |-> pass.rev,
                 packs |-> pass.packs, known |-> pass.known]
      /\ pass.decl \in Declarations /\ pass.todo \subseteq Wanted(pass.decl)
      /\ pass.known \subseteq DOMAIN cache
      /\ FinitePacks(pass.packs)
      /\ \A v \in DOMAIN pass.decl.workspaces :
            Resolvable(v) => v \in DOMAIN pass.packs \/ \E x \in pass.todo : x[1] = v
      /\ NextPack[2] \in pass.decl.workspaces[w].packs
  BY <1>1, Resolution
<1>4. ~Resolvable(w)
  BY <1>3 DEF Resolvable
<1> HIDE DEF w
<1>5. FinitePacks(got) /\ DOMAIN got = DOMAIN pass.packs \ {w}
  BY <1>3 DEF FinitePacks, Without, Restrict
<1> HIDE DEF got, rest
<1>6. pass' = [step |-> "resolve", decl |-> pass.decl, todo |-> rest, rev |-> 0, packs |-> got, known |-> pass.known]
  <2>1. pass = [step |-> "resolve", decl |-> pass.decl, todo |-> pass.todo, rev |-> pass.rev,
                packs |-> pass.packs, known |-> pass.known]
    BY <1>3
  <2> QED
    BY <1>2, <2>1, PassStep
<1>7. ASSUME NEW v \in DOMAIN pass.decl.workspaces, Resolvable(v)
      PROVE  v \in DOMAIN got \/ \E x \in rest : x[1] = v
  <2>1. v # w
    BY <1>4, <1>7
  <2> QED
    BY <1>3, <1>5, <1>7, <2>1 DEF rest
<1>8. rest \subseteq Wanted(pass.decl)
  BY <1>3 DEF rest
<1>9. /\ pass'.step = "resolve" /\ pass'.decl = pass.decl /\ pass'.todo = rest /\ pass'.rev = 0
      /\ pass'.packs = got /\ pass'.known = pass.known
  BY <1>6
<1>10. \A v : Resolvable(v)' <=> Resolvable(v)
  BY <1>9 DEF Resolvable
<1> QED
  BY <1>3, <1>5, <1>6, <1>7, <1>8, <1>9, <1>10 DEF PassInv

LEMMA FailedPass ==
    ASSUME PackTypes, PassInv, Resolving, resolvePackFailed(NextPack[2]), UNCHANGED cache
    PROVE  PassInv'
<1> DEFINE p == NextPack[2]
<1>0. pass.known \subseteq DOMAIN cache
  BY Resolution DEF Resolving
<1>1. CASE p \in DOMAIN cache
  <2>1. FiniteFiles(cache[p].files) /\ Resolved(cache[p].files)
    BY <1>1 DEF PackTypes, resolvePackFailed
  <2> QED
    BY <1>0, <2>1, ResolvedPass
<1>2. CASE p \notin DOMAIN cache
  <2>1. Abandoned(NextPack[1])
    BY <1>2 DEF resolvePackFailed
  <2> QED
    BY <1>2, <2>1, AbandonedPass
<1> QED
  BY <1>1, <1>2

LEMMA RestFrame ==
    ASSUME UNCHANGED <<decl, ext, upstream, reachable, cache, clusterVars, pod, volumeVars, history, edits, faults>>
    PROVE  UNCHANGED <<pod, volumeVars, history>> /\ UNCHANGED <<decl, ext, upstream, reachable, cache, sts>>
BY DEF clusterVars, volumeVars, history

LEMMA BeginStep ==
    ASSUME IInv, BeginPass
    PROVE  IInv'
<1> USE DEF IInv
<1>1. UNCHANGED <<pod, volumeVars, history>> /\ UNCHANGED <<decl, ext, upstream, reachable, cache, sts>>
  BY RestFrame DEF BeginPass
<1>2. PackTypes'
  BY <1>1 DEF PackTypes
<1>3. pass' = [step |-> "resolve", decl |-> decl, todo |-> Wanted(decl), rev |-> 0, packs |-> None, known |-> DOMAIN cache]
  BY DEF BeginPass
<1>4. /\ pass'.step = "resolve" /\ pass'.decl = decl /\ pass'.todo = Wanted(decl) /\ pass'.rev = 0
      /\ pass'.packs = None /\ pass'.known = DOMAIN cache
  BY <1>3
<1>5. FinitePacks(None)
  <2>1. DOMAIN None = {}
    BY DEF None
  <2> QED
    BY <2>1 DEF FinitePacks
<1>6. ASSUME NEW w \in DOMAIN decl.workspaces, decl.workspaces[w].packs # {}
      PROVE  \E x \in Wanted(decl) : x[1] = w
  <2>1. PICK p : p \in decl.workspaces[w].packs
    BY <1>6
  <2>2. <<w, p>> \in Wanted(decl) /\ <<w, p>>[1] = w
    BY <2>1 DEF Wanted
  <2> QED
    BY <2>2
<1>7. decl \in Declarations
  BY DEF PackTypes
<1>8. PassInv'
  BY <1>1, <1>3, <1>4, <1>5, <1>6, <1>7 DEF PassInv, Resolvable
<1> QED
  BY <1>1, <1>2, <1>8, VolumeFrame

LEMMA CacheHitStep ==
    ASSUME IInv, resolvePack
    PROVE  IInv'
<1> USE DEF IInv
<1>1. UNCHANGED <<pod, volumeVars, history>> /\ UNCHANGED <<decl, ext, upstream, reachable, cache, sts>>
  BY RestFrame DEF resolvePack
<1>2. PackTypes'
  BY <1>1 DEF PackTypes
<1>3. FiniteFiles(cache[NextPack[2]].files) /\ Resolved(cache[NextPack[2]].files) /\ Resolving
  BY DEF resolvePack, CacheHit, PackTypes
<1>4. pass.known \subseteq DOMAIN cache'
  BY <1>1, <1>3, Resolution DEF Resolving
<1>5. PassInv'
  BY <1>3, <1>4, ResolvedPass
<1> QED
  BY <1>1, <1>2, <1>5, VolumeFrame

LEMMA ManifestStep ==
    ASSUME IInv, fetchManifest
    PROVE  IInv'
<1> USE DEF IInv
<1> DEFINE p == NextPack[2]
<1>1. UNCHANGED <<pod, volumeVars, history>> /\ UNCHANGED <<decl, ext, upstream, reachable, cache, sts>>
  BY RestFrame DEF fetchManifest
<1>2. PackTypes'
  BY <1>1 DEF PackTypes
<1>3. Resolving /\ pass.step = "resolve" /\ pass.todo # {}
  BY DEF fetchManifest, Resolving
<1>4. CASE resolvePackFailed(p)
  <2>1. PassInv'
    BY <1>1, <1>3, <1>4, FailedPass
  <2> QED
    BY <1>1, <1>2, <2>1, VolumeFrame
<1>5. CASE upstream[p] # 0 /\ pass' = [pass EXCEPT !.rev = upstream[p]]
  <2>1. /\ pass = [step |-> "resolve", decl |-> pass.decl, todo |-> pass.todo, rev |-> pass.rev,
                   packs |-> pass.packs, known |-> pass.known]
        /\ pass.decl \in Declarations /\ pass.todo \subseteq Wanted(pass.decl)
        /\ pass.known \subseteq DOMAIN cache
        /\ FinitePacks(pass.packs)
        /\ \A w \in DOMAIN pass.decl.workspaces :
              Resolvable(w) => w \in DOMAIN pass.packs \/ \E x \in pass.todo : x[1] = w
        /\ p \in Packs
    BY <1>3, Resolution
  <2>2. upstream[p] \in DOMAIN Revisions[p]
    BY <1>5, <2>1, WorkspaceAssumption DEF PackTypes
  <2>3. pass' = [step |-> "resolve", decl |-> pass.decl, todo |-> pass.todo, rev |-> upstream[p],
                 packs |-> pass.packs, known |-> pass.known]
    <3> HIDE DEF p
    <3>1. pass = [step |-> "resolve", decl |-> pass.decl, todo |-> pass.todo, rev |-> pass.rev,
                  packs |-> pass.packs, known |-> pass.known]
      BY <2>1
    <3>2. [pass EXCEPT !.rev = upstream[p]] = [pass EXCEPT !.todo = pass.todo, !.rev = upstream[p], !.packs = pass.packs]
      BY <3>1
    <3>3. pass' = [pass EXCEPT !.todo = pass.todo, !.rev = upstream[p], !.packs = pass.packs]
      BY <1>5, <3>2
    <3> QED
      BY <3>1, <3>3, PassStep
  <2>4. /\ pass'.step = "resolve" /\ pass'.decl = pass.decl /\ pass'.todo = pass.todo /\ pass'.rev = upstream[p]
        /\ pass'.packs = pass.packs /\ pass'.known = pass.known
    BY <2>3
  <2>5. NextPack' = NextPack /\ \A v : Resolvable(v)' <=> Resolvable(v)
    BY <2>4 DEF NextPack, Resolvable
  <2>6. pass'.rev \in DOMAIN Revisions[NextPack'[2]]
    BY <2>2, <2>4, <2>5
  <2>7. PassInv'
    BY <1>1, <2>1, <2>3, <2>4, <2>5, <2>6 DEF PassInv
  <2> QED
    BY <1>1, <1>2, <2>7, VolumeFrame
<1> QED
  BY <1>4, <1>5 DEF fetchManifest

LEMMA FilesStep ==
    ASSUME IInv, fetchFiles
    PROVE  IInv'
<1> USE DEF IInv
<1> DEFINE p == NextPack[2]
           names == DOMAIN Revisions[p][pass.rev].files
           files == Restrict(Revision(p).files, names)
<1>1. UNCHANGED <<pod, volumeVars, history>> /\ UNCHANGED <<decl, ext, upstream, reachable, sts>>
  BY DEF fetchFiles, clusterVars
<1>2. Resolving /\ pass.step = "resolve" /\ pass.todo # {} /\ pass.rev # 0
  BY DEF fetchFiles, Resolving
<1>3. pass.rev \in DOMAIN Revisions[p] /\ p \in Packs /\ pass.known \subseteq DOMAIN cache
  BY <1>2, Resolution
<1>4. CASE resolvePackFailed(p) /\ UNCHANGED cache
  <2>1. PassInv'
    BY <1>2, <1>4, FailedPass
  <2>2. PackTypes'
    BY <1>1, <1>4 DEF PackTypes
  <2> QED
    BY <1>1, <2>1, <2>2, VolumeFrame
<1>5. CASE Resolved(files) /\ cache' = Put(cache, p, [files |-> files, fresh |-> TRUE])
  <2>1. FiniteFiles(files)
    <3>1. IsFiniteSet(names)
      BY <1>3, WorkspaceAssumption
    <3>2. DOMAIN files = names
      BY DEF Restrict
    <3> QED
      BY <3>1, <3>2 DEF FiniteFiles
  <2> HIDE DEF files, p
  <2>2. /\ DOMAIN cache' = DOMAIN cache \cup {p}
        /\ \A q \in DOMAIN cache' : IF q = p THEN cache'[q] = [files |-> files, fresh |-> TRUE] ELSE cache'[q] = cache[q]
    BY <1>5 DEF Put
  <2>3. PackTypes'
    <3>1. ASSUME NEW q \in DOMAIN cache'
          PROVE  cache'[q] = [files |-> cache'[q].files, fresh |-> cache'[q].fresh] /\ FiniteFiles(cache'[q].files)
      <4>1. CASE q = p
        <5>1. cache'[q] = [files |-> files, fresh |-> TRUE]
          BY <2>2, <4>1
        <5>2. cache'[q].files = files /\ cache'[q].fresh = TRUE
          BY <5>1
        <5> QED
          BY <2>1, <5>1, <5>2
      <4>2. CASE q # p
        <5>1. q \in DOMAIN cache /\ cache'[q] = cache[q]
          BY <2>2, <4>2
        <5> QED
          BY <5>1 DEF PackTypes
      <4> QED
        BY <4>1, <4>2
    <3> QED
      BY <1>1, <3>1 DEF PackTypes
  <2>4. PassInv'
    BY <1>2, <1>3, <1>5, <2>1, <2>2, ResolvedPass
  <2> QED
    BY <1>1, <2>3, <2>4, VolumeFrame
<1> QED
  BY <1>4, <1>5 DEF fetchFiles

LEMMA ExpiryStep ==
    ASSUME IInv, NEW p \in Packs, cacheTTLPasses(p)
    PROVE  IInv'
<1> USE DEF IInv
<1>1. UNCHANGED <<pod, volumeVars, history>> /\ UNCHANGED <<decl, ext, upstream, reachable, pass, sts>>
  BY DEF cacheTTLPasses, clusterVars
<1>2. cache' = [cache EXCEPT ![p].fresh = FALSE] /\ pass = Idle
  BY DEF cacheTTLPasses
<1>3. PassInv'
  BY <1>1, <1>2 DEF PassInv
<1>4. PackTypes'
  <2>1. ASSUME NEW q \in DOMAIN cache'
        PROVE  cache'[q] = [files |-> cache'[q].files, fresh |-> cache'[q].fresh] /\ FiniteFiles(cache'[q].files)
    <3>1. q \in DOMAIN cache
      BY <1>2
    <3>2. cache[q] = [files |-> cache[q].files, fresh |-> cache[q].fresh] /\ FiniteFiles(cache[q].files)
      BY <3>1 DEF PackTypes
    <3>3. CASE q = p
      <4>1. cache'[q] = [cache[q] EXCEPT !.fresh = FALSE]
        BY <1>2, <3>1, <3>3
      <4>2. cache'[q] = [files |-> cache[q].files, fresh |-> FALSE]
        BY <3>2, <4>1
      <4>3. cache'[q].files = cache[q].files /\ cache'[q].fresh = FALSE
        BY <4>2
      <4> QED
        BY <3>2, <4>2, <4>3
    <3>4. CASE q # p
      <4>1. cache'[q] = cache[q]
        BY <1>2, <3>1, <3>4
      <4> QED
        BY <3>2, <4>1
    <3> QED
      BY <3>3, <3>4
  <2> QED
    BY <1>1, <2>1 DEF PackTypes
<1> QED
  BY <1>1, <1>3, <1>4, VolumeFrame

LEMMA FiniteExternal ==
    ASSUME PackTypes, NEW d
    PROVE  FiniteFiles(External(d, ext))
<1>1. FiniteFiles(None)
  <2>1. DOMAIN None = {}
    BY DEF None
  <2> QED
    BY <2>1, FS_EmptySet DEF FiniteFiles
<1>2. ext # Missing => FiniteFiles(ext)
  BY WorkspaceAssumption DEF PackTypes, FiniteFiles
<1> QED
  BY <1>1, <1>2 DEF External

LEMMA ConfigMapStep ==
    ASSUME IInv, reconcileWorkspaceConfigMap
    PROVE  IInv'
<1> USE DEF IInv
<1> DEFINE e == External(pass.decl, ext)
<1>1. UNCHANGED <<pod, volumeVars, history>> /\ UNCHANGED <<decl, ext, upstream, reachable, cache, sts>>
  BY DEF reconcileWorkspaceConfigMap
<1>2. PackTypes'
  BY <1>1 DEF PackTypes
<1>3. /\ pass.step = "resolve" /\ pass.todo = {}
      /\ pass' = [step |-> "write", decl |-> pass.decl, files |-> e, packs |-> pass.packs, known |-> pass.known]
  BY DEF reconcileWorkspaceConfigMap
<1>4. /\ pass.decl \in Declarations /\ FinitePacks(pass.packs)
      /\ \A w \in DOMAIN pass.decl.workspaces : Resolvable(w) => w \in DOMAIN pass.packs
  BY <1>3, Resolution
<1>5. FiniteFiles(e)
  BY FiniteExternal
<1> HIDE DEF e
<1>6. pass'.step = "write" /\ pass'.decl = pass.decl /\ pass'.files = e /\ pass'.packs = pass.packs /\ pass'.known = pass.known
  BY <1>3
<1>7. \A v : Resolvable(v)' <=> Resolvable(v)
  BY <1>6 DEF Resolvable
<1>8. PassInv'
  BY <1>3, <1>4, <1>5, <1>6, <1>7 DEF PassInv
<1> QED
  BY <1>1, <1>2, <1>8, VolumeFrame

LEMMA StatefulSetStep ==
    ASSUME IInv, reconcileStatefulSet
    PROVE  IInv'
<1> USE DEF IInv
<1>1. UNCHANGED <<pod, volumeVars, history>> /\ UNCHANGED <<decl, ext, upstream, reachable, cache>>
  BY DEF reconcileStatefulSet
<1>2. PackTypes'
  BY <1>1 DEF PackTypes
<1>3. pass.step = "write" /\ pass' = Idle /\ sts' = Template(pass.decl, pass.files, pass.packs)
  BY DEF reconcileStatefulSet
<1>4. PassInv'
  BY <1>3 DEF PassInv
<1>5. pass.decl \in Declarations /\ FiniteFiles(pass.files) /\ FinitePacks(pass.packs)
  BY <1>3 DEF PassInv, Idle
<1>6. IsDeclaration(pass.decl)
  BY <1>5, WorkspaceAssumption
<1>7. GoodScript(BuildInitScript(pass.decl, pass.files, pass.packs))
  BY <1>5, <1>6, ScriptIsGood
<1>8. GoodScript(sts'.script)
  BY <1>3, <1>7 DEF Template
<1> QED
  BY <1>1, <1>2, <1>4, <1>8, VolumeFrame

\* Users, GitHub and restarts of the operator.
LEMMA OutsideStep ==
    ASSUME IInv, UserEdits \/ ExternalMapChanges \/ GitHubGoes \/ GitHubReturns \/ OperatorRestarts
                 \/ \E p \in Packs : PackIsReleased(p)
    PROVE  IInv'
<1> USE DEF IInv
<1>1. CASE UserEdits
  <2>1. UNCHANGED <<ext, upstream, cache, pass, sts, pod, volumeVars, history>> /\ decl' \in Declarations
    BY <1>1 DEF UserEdits, operatorVars, clusterVars
  <2>2. PackTypes' /\ PassInv'
    BY <2>1 DEF PackTypes, PassInv, Resolvable, NextPack
  <2> QED
    BY <2>1, <2>2, VolumeFrame
<1>2. CASE ExternalMapChanges
  <2>1. UNCHANGED <<decl, upstream, cache, pass, sts, pod, volumeVars, history>> /\ ext' \in ExternalMaps
    BY <1>2 DEF ExternalMapChanges, operatorVars, clusterVars
  <2>2. PackTypes' /\ PassInv'
    BY <2>1 DEF PackTypes, PassInv, Resolvable, NextPack
  <2> QED
    BY <2>1, <2>2, VolumeFrame
<1>3. CASE GitHubGoes \/ GitHubReturns
  <2>1. UNCHANGED <<decl, ext, upstream, cache, pass, sts, pod, volumeVars, history>>
    BY <1>3 DEF GitHubGoes, GitHubReturns, operatorVars, clusterVars
  <2>2. PackTypes' /\ PassInv'
    BY <2>1 DEF PackTypes, PassInv, Resolvable, NextPack
  <2> QED
    BY <2>1, <2>2, VolumeFrame
<1>4. CASE OperatorRestarts
  <2>1. UNCHANGED <<decl, ext, upstream, sts, pod, volumeVars, history>> /\ pass' = Idle /\ cache' = None
    BY <1>4 DEF OperatorRestarts, clusterVars
  <2>2. DOMAIN None = {}
    BY DEF None
  <2>3. PackTypes' /\ PassInv'
    BY <2>1, <2>2 DEF PackTypes, PassInv
  <2> QED
    BY <2>1, <2>3, VolumeFrame
<1>5. ASSUME NEW p \in Packs, PackIsReleased(p) PROVE IInv'
  <2>1. /\ UNCHANGED <<decl, ext, cache, pass, sts, pod, volumeVars, history>>
        /\ upstream[p] < Len(Revisions[p]) /\ upstream' = [upstream EXCEPT ![p] = @ + 1]
    BY <1>5 DEF PackIsReleased, operatorVars, clusterVars
  <2>2. PassInv'
    BY <2>1 DEF PassInv, Resolvable, NextPack
  <2>3. \A q \in Packs : upstream[q] \in Nat /\ upstream[q] <= Len(Revisions[q]) /\ Len(Revisions[q]) \in Nat
    BY WorkspaceAssumption DEF PackTypes
  <2>4. upstream' \in [Packs -> Nat] /\ \A q \in Packs : upstream'[q] <= Len(Revisions[q])
    BY <2>1, <2>3 DEF PackTypes
  <2>5. PackTypes'
    BY <2>1, <2>4 DEF PackTypes
  <2> QED
    BY <2>1, <2>2, <2>5, VolumeFrame
<1> QED
  BY <1>1, <1>2, <1>3, <1>4, <1>5

-----------------------------------------------------------------------------
(* The theorems. *)

LEMMA InitIInv == Init => IInv
<1> SUFFICES ASSUME Init PROVE IInv
  OBVIOUS
<1>1. DOMAIN None = {}
  BY DEF None
<1>2. ext \in ExternalMaps
  BY WorkspaceAssumption DEF Init
<1>3. ASSUME NEW p \in Packs PROVE upstream[p] \in Nat /\ upstream[p] <= Len(Revisions[p])
  <2>1. upstream[p] = IF Revisions[p] = <<>> THEN 0 ELSE 1
    BY DEF Init
  <2>2. Len(Revisions[p]) \in Nat /\ DOMAIN Revisions[p] = 1 .. Len(Revisions[p])
    BY WorkspaceAssumption
  <2>3. Revisions[p] # <<>> => Len(Revisions[p]) # 0
    <3> SUFFICES ASSUME Len(Revisions[p]) = 0 PROVE Revisions[p] = <<>>
      OBVIOUS
    <3>1. Revisions[p] = [i \in 1 .. 0 |-> Revisions[p][i]]
      BY WorkspaceAssumption
    <3> QED
      BY <3>1
  <2> QED
    BY <2>1, <2>2, <2>3
<1>4. upstream \in [Packs -> Nat]
  BY <1>3 DEF Init
<1>5. PackTypes
  BY <1>1, <1>2, <1>3, <1>4, WorkspaceAssumption DEF Init, PackTypes
<1>6. PassInv /\ PodInv
  BY DEF Init, PassInv, PodInv
<1>7. SlotInv /\ MarkerInv /\ ListedInv /\ TrackedInv
  BY <1>1 DEF Init, SlotInv, MarkerInv, ListedInv, TrackedInv
<1>8. AppliedInv /\ SyncInv /\ SyncedInv
  BY DEF Init, AppliedInv, SyncInv, SyncedInv, InScript
<1> QED
  BY <1>5, <1>6, <1>7, <1>8 DEF IInv

LEMMA NextIInv == IInv /\ [Next]_vars => IInv'
<1> SUFFICES ASSUME IInv, [Next]_vars PROVE IInv'
  OBVIOUS
<1>1. CASE Operator
  BY <1>1, BeginStep, CacheHitStep, ManifestStep, FilesStep, ConfigMapStep, StatefulSetStep DEF Operator
<1>2. CASE InitScript
  BY <1>2, SeedStep, ApplyStep, MarkerStep, StageStep, CleanStep, CopyStep, PromoteStep, DropStep DEF InitScript
<1>3. CASE StartPod
  BY <1>3, StartStep
<1>4. CASE Environment
  <2>1. CASE UserEdits \/ ExternalMapChanges \/ GitHubGoes \/ OperatorRestarts \/ \E p \in Packs : PackIsReleased(p)
    BY <2>1, OutsideStep
  <2>2. CASE PodRestarts
    BY <2>2, RestartStep
  <2>3. ASSUME NEW s \in Edited, AgentWrites(s, Own) \/ AgentWrites(s, Link) \/ AgentDeletes(s) PROVE IInv'
    <3>1. Own \in {Own, Link} /\ Link \in {Own, Link}
      OBVIOUS
    <3> QED
      BY <2>3, <3>1, AgentWritesStep, AgentDeletesStep
  <2> QED
    BY <1>4, <2>1, <2>2, <2>3 DEF Environment
<1>5. CASE GitHubReturns
  BY <1>5, OutsideStep
<1>6. CASE \E p \in Packs : cacheTTLPasses(p)
  BY <1>6, ExpiryStep
<1>7. CASE UNCHANGED vars
  <2>1. /\ UNCHANGED <<decl, ext, upstream, reachable, operatorVars>>
        /\ UNCHANGED <<pod, volumeVars, history>> /\ sts' = sts
    BY <1>7 DEF vars, clusterVars
  <2>2. PackTypes' /\ PassInv'
    BY <2>1, OperatorFrame DEF IInv
  <2> QED
    BY <2>1, <2>2, VolumeFrame DEF IInv
<1> QED
  BY <1>1, <1>2, <1>3, <1>4, <1>5, <1>6, <1>7 DEF Next

(* The invariant from which the rest follows: every script that a pod runs  *)
(* has one block for each workspace, in which a sync stages, cleans, copies *)
(* and then promotes or drops; markers and applied contents agree but where *)
(* the copy was torn; and every copied file is in its manifest or known not *)
(* to be.                                                                   *)
THEOREM Invariance == Spec => []IInv
BY InitIInv, NextIInv, PTL DEF Spec

(* OutageKeepsPacks: a pass leaves no workspace without packs all of which  *)
(* were in the cache when it began, whatever GitHub answered and whichever  *)
(* pack failed first (resolvePack's fallback to the expired entry).         *)
THEOREM CachedPacksAreKept == Spec => OutageKeepsPacks
<1>1. IInv /\ [Next]_vars =>
        [pass.step = "write" /\ sts' # sts =>
           \A w \in DOMAIN pass.decl.workspaces :
              LET packs == pass.decl.workspaces[w].packs
              IN  packs # {} /\ packs \subseteq pass.known => w \in DOMAIN pass.packs]_vars
  BY DEF IInv, PassInv, Idle, Resolvable
<1> QED
  BY <1>1, Invariance, PTL DEF Spec, OutageKeepsPacks

\* Who changes the volume while the init script runs.
LEMMA ScriptWrites ==
    ASSUME IInv, Next, InScript
    PROVE  vol' = vol \/ SeedFile \/ applyManagedFile \/ skillPackCleanupLoop \/ CopyPackFile
<1>1. ~Running
  <2>1. Len(Script) \in Nat /\ pod.block \in 1 .. Len(Script) + 1 /\ pod.block <= Len(Script)
    BY DEF IInv, PodInv, InScript, GoodScript
  <2> QED
    BY <2>1 DEF Running
<1>2. CASE Operator
  BY <1>2 DEF Operator, BeginPass, resolvePack, fetchManifest, fetchFiles, reconcileWorkspaceConfigMap,
              reconcileStatefulSet, volumeVars
<1>3. CASE InitScript
  BY <1>3 DEF InitScript, writeMarker, StageManifest, PromoteManifest, DropManifest
<1>4. CASE StartPod \/ GitHubReturns \/ \E p \in Packs : cacheTTLPasses(p)
  BY <1>4 DEF StartPod, GitHubReturns, cacheTTLPasses, volumeVars
<1>5. CASE Environment
  BY <1>1, <1>5 DEF Environment, UserEdits, ExternalMapChanges, GitHubGoes, OperatorRestarts, PodRestarts,
                    PackIsReleased, AgentWrites, AgentDeletes, volumeVars
<1> QED
  BY <1>2, <1>3, <1>4, <1>5 DEF Next

\* A copy removes nothing.
LEMMA CopiesRemoveNothing ==
    ASSUME NEW l, Copied(l)
    PROVE  DOMAIN vol \subseteq DOMAIN vol'
BY DEF Copied, Put

(* OnlyPackPathsAreRemoved: whatever the manifests of interrupted or        *)
(* repeated syncs hold, the cleanup removes only files at paths that a sync *)
(* of that workspace once declared (skillPackCleanupLoop).                  *)
THEOREM CleanupIsConfined == Spec => OnlyPackPathsAreRemoved
<1>1. IInv /\ [Next]_vars => [\A s \in DOMAIN vol : InScript /\ s \notin DOMAIN vol' => s \in listed]_vars
  <2> SUFFICES ASSUME IInv, Next, InScript, NEW s \in DOMAIN vol, s \notin DOMAIN vol' PROVE s \in listed
    BY DEF vars, volumeVars
  <2>1. CASE SeedFile \/ applyManagedFile \/ CopyPackFile
    <3>1. vol' = vol \/ Copied(CurrentLine)
      BY <2>1 DEF SeedFile, applyManagedFile, CopyPackFile, CopiedAside, Applied
    <3> QED
      BY <3>1, CopiesRemoveNothing
  <2>2. CASE skillPackCleanupLoop
    <3> DEFINE w == CurrentLine.ws
    <3>1. PICK t \in Stale(w) : w \in DOMAIN manifest /\ vol' = Without(vol, {t})
      BY <2>2 DEF skillPackCleanupLoop
    <3>2. s = t
      BY <3>1 DEF Without, Restrict
    <3>3. s[1] = w /\ s[2] \in manifest[w]
      BY <3>1, <3>2 DEF Stale
    <3>4. s = <<s[1], s[2]>>
      BY DEF IInv, SlotInv
    <3> HIDE DEF w
    <3>5. s \in {w} \X manifest[w]
      BY <3>3, <3>4
    <3> QED
      BY <3>1, <3>5 DEF IInv, ListedInv
  <2> QED
    BY <2>1, <2>2, ScriptWrites
<1> QED
  BY <1>1, Invariance, PTL DEF Spec, OnlyPackPathsAreRemoved

(* EditsSurvive: no pod overwrites what the agent made of a Replace file    *)
(* while its source is the content that the file was last given, however    *)
(* many declarations, syncs and restarts lie in between                     *)
(* (managedFileApplyFunc).                                                  *)
THEOREM AgentEditsSurvive == Spec => EditsSurvive
<1>1. IInv /\ [Next]_vars =>
        [\A s \in DOMAIN vol :
           /\ InScript /\ CurrentLine.op = "apply" /\ Slot(CurrentLine) = s
           /\ vol[s] = Own /\ s \in DOMAIN applied \ torn
           /\ applied[s] = CurrentLine.hash
           => vol'[s] = Own]_vars
  <2> SUFFICES ASSUME IInv, Next, NEW s \in DOMAIN vol, InScript, CurrentLine.op = "apply", Slot(CurrentLine) = s,
                      vol[s] = Own, s \in DOMAIN applied \ torn, applied[s] = CurrentLine.hash
               PROVE  vol' = vol
    BY DEF vars, volumeVars
  <2>1. ~SeedFile /\ ~skillPackCleanupLoop /\ ~CopyPackFile
    BY DEF SeedFile, skillPackCleanupLoop, CopyPackFile
  <2>2. CASE applyManagedFile
    <3>1. Marker(s) \in DOMAIN markers /\ markers[Marker(s)] = CurrentLine.hash
      BY DEF IInv, MarkerInv
    <3>2. Marker(s) = managedMarkerPath(CurrentLine.ws, CurrentLine.path)
      BY DEF Marker, Slot
    <3>3. UpToDate(CurrentLine)
      BY <3>1, <3>2 DEF UpToDate
    <3> QED
      BY <2>2, <3>3 DEF applyManagedFile
  <2> QED
    BY <2>1, <2>2, ScriptWrites
<1> QED
  BY <1>1, Invariance, PTL DEF Spec, EditsSurvive

\* The lines of the script of a running pod are all passed.
LEMMA AllPassed ==
    ASSUME IInv, Running, NEW l \in Lines
    PROVE  \E b \in DOMAIN Script : \E i \in DOMAIN Script[b] :
              l = Script[b][i] /\ b < pod.block /\ Passed(b, i) /\ GoodBlock(Script[b])
<1>1. PICK b \in DOMAIN Script : \E i \in DOMAIN Script[b] : l = Script[b][i]
  BY DEF Lines, Range
<1>2. Len(Script) \in Nat /\ DOMAIN Script = 1 .. Len(Script) /\ pod.block \in 1 .. Len(Script) + 1
      /\ pod.block > Len(Script) /\ GoodBlock(Script[b])
  BY DEF IInv, PodInv, Running, GoodScript
<1>3. b < pod.block
  BY <1>2
<1> QED
  BY <1>1, <1>2, <1>3 DEF Passed

\* The packs in the cache can be listed.
LEMMA FiniteCachedPacks ==
    ASSUME PackTypes
    PROVE  FinitePacks(CachedPacks(decl))
<1> DEFINE C == CachedPacks(decl)
<1> SUFFICES ASSUME NEW w \in DOMAIN C PROVE IsFiniteSet(DOMAIN C[w])
  BY DEF FinitePacks, FiniteFiles
<1> DEFINE packs == decl.workspaces[w].packs
           f == [p \in packs |-> DOMAIN cache[p].files]
           D == {DOMAIN cache[p].files : p \in packs}
<1>1. w \in DOMAIN decl.workspaces /\ packs \subseteq DOMAIN cache /\ DOMAIN C[w] = UNION D
  BY DEF CachedPacks
<1>2. IsFiniteSet(packs)
  BY <1>1, WorkspaceAssumption DEF PackTypes, IsDeclaration
<1>3. f \in Surjection(packs, D)
  BY DEF Surjection
<1>4. IsFiniteSet(D)
  BY <1>2, <1>3, FS_Surjection
<1>5. \A T \in D : IsFiniteSet(T)
  BY <1>1 DEF PackTypes, FiniteFiles
<1> HIDE DEF D
<1>6. IsFiniteSet(UNION D)
  BY <1>4, <1>5, FS_UNION
<1> QED
  BY <1>1, <1>6

(* ReplaceFilesAreCurrent: once an init script is through, every managed    *)
(* file holds what the script was built for or what the agent made of it,   *)
(* unless its last copy was torn, and that is so for the files whose policy *)
(* an additional workspace inherits (BuildInitScript,                       *)
(* managedFileApplyFunc, AdditionalWorkspaceFilePolicy).                    *)
THEOREM ManagedFilesAreCurrent == Spec => []ReplaceFilesAreCurrent
<1>1. IInv => ReplaceFilesAreCurrent
  <2> SUFFICES ASSUME IInv PROVE ReplaceFilesAreCurrent
    OBVIOUS
  <2>1. ASSUME Running, NEW l \in Lines, l.op = "apply", Slot(l) \in DOMAIN vol \ torn
        PROVE  vol[Slot(l)] \in {l.hash, Own, Link}
    <3> PICK b \in DOMAIN Script : \E i \in DOMAIN Script[b] : l = Script[b][i] /\ Passed(b, i)
      BY <2>1, AllPassed
    <3>1. PICK i \in DOMAIN Script[b] : l = Script[b][i] /\ Passed(b, i)
      OBVIOUS
    <3>2. pod # None
      BY <2>1 DEF Running
    <3> QED
      BY <2>1, <3>1, <3>2 DEF IInv, AppliedInv
  <2>2. ASSUME Settled, NEW w \in Additional(decl),
               decl.workspaces[w].policy = "", decl.workspaces[Main].policy = "Replace",
               NEW p \in DOMAIN WorkspaceSources(decl, w, External(decl, ext)), p \notin DOMAIN decl.workspaces[w].managed,
               <<w, p>> \in DOMAIN vol \ torn
        PROVE  vol[<<w, p>>] \in {WorkspaceSources(decl, w, External(decl, ext))[p], Own, Link}
    <3> DEFINE e == External(decl, ext)
               sources == WorkspaceSources(decl, w, e)
               packs == CachedPacks(decl)
    <3>1. Running /\ Script = BuildInitScript(decl, e, packs)
      <4>1. Running /\ pod.tpl = sts /\ sts = Template(decl, e, packs)
        BY <2>2 DEF Settled, WorkToDo
      <4> HIDE DEF e, packs
      <4>2. Template(decl, e, packs).script = BuildInitScript(decl, e, packs)
        BY DEF Template
      <4> QED
        BY <4>1, <4>2 DEF Script
    <3>2. PackTypes /\ IsDeclaration(decl) /\ FiniteFiles(e) /\ FinitePacks(packs)
      BY WorkspaceAssumption, FiniteExternal, FiniteCachedPacks DEF IInv, PackTypes
    <3>3. HasBlock(Script, decl, w, e)
      BY <3>1, <3>2, ScriptIsGood
    <3>4. FilePolicy(decl, w, p) = "Replace"
      <4>1. w # Main
        BY DEF Additional
      <4>2. AdditionalWorkspaceFilePolicy(decl, w, p) = defaultedPolicy("Replace")
        BY <2>2 DEF AdditionalWorkspaceFilePolicy
      <4> QED
        BY <4>1, <4>2 DEF FilePolicy, defaultedPolicy
    <3>5. p \in DOMAIN ReplaceSources(decl, w, e) /\ ReplaceSources(decl, w, e)[p] = sources[p]
      BY <3>4 DEF ReplaceSources, Restrict
    <3> HIDE DEF e, packs, sources
    <3>6. PICK b \in DOMAIN Script : Script[b][1].ws = w /\ GoodBlock(Script[b]) /\ AppliesAll(Script[b], ReplaceSources(decl, w, e))
      BY <3>3 DEF HasBlock
    <3>7. PICK i \in DOMAIN Script[b] : Script[b][i].op = "apply" /\ Script[b][i].path = p /\ Script[b][i].hash = sources[p]
      BY <3>5, <3>6 DEF AppliesAll
    <3> DEFINE l == Script[b][i]
    <3>8. l.ws = w
      BY <3>6 DEF GoodBlock
    <3>9. l \in Lines
      BY DEF Lines, Range
    <3>10. Slot(l) = <<w, p>>
      BY <3>7, <3>8 DEF Slot
    <3>11. vol[Slot(l)] \in {l.hash, Own, Link}
      BY <2>1, <2>2, <3>1, <3>7, <3>9, <3>10
    <3> QED
      BY <3>7, <3>10, <3>11 DEF sources, e
  <2>3. Running => \A l \in ApplyLines : Slot(l) \in DOMAIN vol \ torn => vol[Slot(l)] \in {l.hash, Own, Link}
    BY <2>1 DEF ApplyLines
  <2> QED
    BY <2>2, <2>3 DEF ReplaceFilesAreCurrent
<1> QED
  BY <1>1, Invariance, PTL

(* LeftoversAreUntracked: once the syncs of an init script are through, no  *)
(* pack file is left that a manifest ever listed and the script does not    *)
(* copy, however the syncs before it were cut (buildSkillPackSyncLinesAt).  *)
THEOREM SyncsLeaveNothingTracked == Spec => []LeftoversAreUntracked
<1>1. IInv => LeftoversAreUntracked
  <2> SUFFICES ASSUME IInv, Running, NEW s \in Leftovers PROVE s \in untracked
    BY DEF LeftoversAreUntracked
  <2>1. s \in DOMAIN vol /\ s[1] \in SyncedWorkspaces /\ vol[s] \in PackContents /\ s[2] \notin CopyPaths(s[1])
    BY DEF Leftovers
  <2>2. vol[s] \notin {Own, Link}
    BY <2>1, WorkspaceAssumption
  <2>3. PICK l \in Lines : l.op \in Staging /\ l.ws = s[1]
    BY <2>1 DEF SyncedWorkspaces, Staging
  <2> PICK b \in DOMAIN Script : \E j \in DOMAIN Script[b] : l = Script[b][j] /\ b < pod.block /\ GoodBlock(Script[b])
    BY AllPassed
  <2>4. PICK j \in DOMAIN Script[b] : l = Script[b][j] /\ b < pod.block /\ GoodBlock(Script[b])
    OBVIOUS
  <2>5. /\ l.op = "stage" => l.ws \in DOMAIN manifest /\ manifest[l.ws] = l.paths
        /\ l.op = "stageEmpty" => l.ws \notin DOMAIN manifest
    BY <2>4 DEF IInv, SyncedInv, Running
  <2>6. ~Tracked(s)
    <3> SUFFICES ASSUME Tracked(s) PROVE FALSE
      OBVIOUS
    <3>1. l.op = "stage" /\ s[2] \in l.paths
      BY <2>3, <2>5 DEF Tracked, Staging
    <3>2. l.paths = {Script[b][k].path : k \in {c \in DOMAIN Script[b] : Script[b][c].op = "copy"}}
      BY <2>4, <3>1 DEF GoodBlock
    <3>3. PICK k \in DOMAIN Script[b] : Script[b][k].op = "copy" /\ Script[b][k].path = s[2]
      BY <3>1, <3>2
    <3>4. Script[b][k].ws = s[1]
      BY <2>3, <2>4 DEF GoodBlock
    <3>5. Script[b][k] \in Lines
      BY DEF Lines, Range
    <3> QED
      BY <2>1, <3>3, <3>4, <3>5 DEF CopyPaths
  <2> QED
    BY <2>1, <2>2, <2>6 DEF IInv, TrackedInv
<1> QED
  BY <1>1, Invariance, PTL
=============================================================================
