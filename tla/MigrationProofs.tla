-------------------------- MODULE MigrationProofs ---------------------------
(***************************************************************************)
(* For any trees, any number of legacy roots and any bounds: the state of a *)
(* migration keeps its types, what a migration records is true, its deletes  *)
(* take no last copy, and a run that succeeds hands the mirror over.         *)
(***************************************************************************)
EXTENDS Migration, MirrorPlanProofs, FiniteSetTheorems

-----------------------------------------------------------------------------
(* What the choices of the loops return.                                     *)

\* Numbers that are listed have a bound.
LEMMA ListedNumbersAreBounded ==
    ASSUME NEW n \in Nat, NEW f \in [1..n -> Nat]
    PROVE  \E bound \in Nat : \A i \in 1..n : f[i] <= bound
<1> DEFINE Bounded(k) == \E bound \in Nat : \A i \in 1..k : f[i] <= bound
           unbounded == { k \in 0..n : ~Bounded(k) }
<1>1. CASE unbounded = {}
  <2>1. n \in 0..n
    OBVIOUS
  <2>2. Bounded(n)
    <3> HIDE DEF Bounded
    <3> QED
      BY <1>1, <2>1
  <2> QED
    BY <2>2
<1>2. CASE unbounded # {}
  <2>1. PICK k \in unbounded : \A m \in unbounded : k <= m
    <3> HIDE DEF unbounded
    <3>1. unbounded \subseteq Nat
      BY DEF unbounded
    <3> QED
      BY <1>2, <3>1, LeastNumber
  <2>2. k \in 0..n /\ ~Bounded(k)
    OBVIOUS
  <2>3. k # 0
    <3>1. \A i \in 1..0 : f[i] <= 0
      OBVIOUS
    <3> QED
      BY <2>2, <3>1
  <2>4. k - 1 \in 0..n /\ k - 1 \notin unbounded
    <3>1. k - 1 \in 0..n /\ ~(k <= k - 1)
      BY <2>2, <2>3
    <3> HIDE DEF unbounded
    <3> QED
      BY <2>1, <3>1
  <2>5. Bounded(k - 1)
    <3> HIDE DEF Bounded
    <3> QED
      BY <2>4
  <2>6. PICK bound \in Nat : \A i \in 1..k - 1 : f[i] <= bound
    BY <2>5
  <2>7. PICK greater \in Nat : bound <= greater /\ f[k] <= greater
    <3>1. f[k] \in Nat
      BY <2>2, <2>3
    <3>2. bound <= bound + f[k] /\ f[k] <= bound + f[k] /\ bound + f[k] \in Nat
      BY <3>1
    <3> QED
      BY <3>2
  <2>8. \A i \in 1..k : f[i] <= greater
    <3> SUFFICES ASSUME NEW i \in 1..k PROVE f[i] <= greater
      OBVIOUS
    <3>1. f[i] \in Nat
      BY <2>2
    <3>2. CASE i = k
      BY <2>7, <3>2
    <3>3. CASE i # k
      <4>1. i \in 1..k - 1
        BY <2>2, <3>3
      <4> QED
        BY <2>6, <2>7, <3>1, <4>1
    <3> QED
      BY <3>2, <3>3
  <2> QED
    BY <2>2, <2>8
<1> QED
  BY <1>1, <1>2

\* A tree has a depth.
LEMMA TreeHasDepth == \E depth \in Nat : \A path \in Paths : Len(path) <= depth
<1>1. IsFiniteSet(Paths) /\ \A path \in Paths : path \in Seq(STRING)
  BY TreesAssumption
<1>2. PICK n \in Nat : ExistsBijection(1..n, Paths)
  BY <1>1, FS_CardinalityType
<1>3. PICK f \in [1..n -> Paths] : \A path \in Paths : \E i \in 1..n : f[i] = path
  BY <1>2 DEF ExistsBijection, Bijection, Injection, Surjection
<1>4. \A i \in 1..n : Len(f[i]) \in Nat
  BY <1>1
<1>5. PICK lengths : lengths = [i \in 1..n |-> Len(f[i])]
  OBVIOUS
<1>6. PICK bound \in Nat : \A i \in 1..n : lengths[i] <= bound
  BY <1>4, <1>5, ListedNumbersAreBounded
<1>7. \A path \in Paths : Len(path) <= bound
  BY <1>3, <1>5, <1>6
<1> QED
  BY <1>7

\* NextDelete is one of the deletes.
LEMMA NextDeleteType ==
    ASSUME deletes \subseteq Roots \X Paths, deletes # {}
    PROVE  NextDelete \in deletes
<1>1. PICK depth \in Nat : \A path \in Paths : Len(path) <= depth
  BY TreeHasDepth
<1>2. \A d \in deletes : d[2] \in Paths /\ Len(d[2]) \in Nat
  BY TreesAssumption
<1> DEFINE heights == { depth - Len(d[2]) : d \in deletes }
<1>3. heights \subseteq Nat /\ heights # {}
  BY <1>1, <1>2
<1>4. PICK h \in heights : \A other \in heights : h <= other
  <2> HIDE DEF heights
  <2> QED
    BY <1>3, LeastNumber
<1>5. PICK d \in deletes : h = depth - Len(d[2])
  OBVIOUS
<1>6. ASSUME NEW other \in deletes PROVE Len(other[2]) <= Len(d[2])
  <2>1. depth - Len(d[2]) <= depth - Len(other[2])
    BY <1>4, <1>5
  <2> QED
    BY <1>2, <2>1
<1> QED
  BY <1>6 DEF NextDelete

\* The first of some legacy roots is one of them.
LEMMA FirstType ==
    ASSUME NEW roots, roots \subseteq Legacies, roots # {}
    PROVE  First(roots) \in roots
<1>1. roots \subseteq Nat
  BY TreesAssumption DEF Legacies
<1> QED
  BY <1>1, LeastNumber DEF First

\* The first of some files is one of them.
LEMMA FirstFileType ==
    ASSUME NEW files, files \subseteq Files, files # {}
    PROVE  FirstFile(files) \in files
<1> DEFINE places == { n \in 1..Len(Order) : Order[n] \in files }
<1>0. Len(Order) \in Nat /\ places \subseteq Nat
  BY TreesAssumption
<1>1. places # {}
  <2>1. PICK file \in files : file \in Files
    OBVIOUS
  <2>2. PICK n \in 1..Len(Order) : Order[n] = file
    BY <2>1, TreesAssumption
  <2> QED
    BY <2>1, <2>2
<1>2. PICK n \in places : \A m \in places : n <= m
  <2> HIDE DEF places
  <2> QED
    BY <1>0, <1>1, LeastNumber
<1>3. \A m \in 1..n - 1 : Order[m] \notin files
  BY <1>0, <1>2
<1> QED
  BY <1>2, <1>3 DEF FirstFile

\* The next directory to create is the highest.
LEMMA NextDirType ==
    ASSUME todo \subseteq Dirs, todo # {}
    PROVE  NextDir \in todo
<1>1. todo \subseteq Seq(STRING)
  BY TreesAssumption DEF Paths
<1> QED
  BY <1>1, ShortestIsLeast DEF NextDir, Shortest

-----------------------------------------------------------------------------
(* Trees.                                                                    *)

\* The numbers of the model.
LEMMA NumberFacts ==
    /\ 0 \in Versions /\ 1 \in Versions /\ Versions \subseteq Contents /\ Contents \subseteq Nat
    /\ Foreign \in Contents \ Versions /\ 0 \in Roots /\ Legacies \subseteq Roots \ {0}
    /\ Roots \subseteq Nat
  BY LimitsAssumption, TreesAssumption DEF Versions, Contents, Foreign, Roots, Legacies

\* Paths are sequences; the root is a directory, and files are other paths.
LEMMA PathFacts ==
    /\ <<>> \in Dirs /\ Dirs \subseteq Paths /\ Files \subseteq Paths \ {<<>>}
    /\ Paths \subseteq Seq(STRING) /\ Dirs \cap Files = {}
  BY TreesAssumption DEF Paths

\* What is above a path is a directory, and so is its parent.
LEMMA AboveIsDirectory ==
    ASSUME NEW path \in Paths \ {<<>>}
    PROVE  Ancestors(path) \subseteq Dirs /\ Parent(path) \in Dirs
<1>1. Ancestors(path) \subseteq Dirs /\ path \in Seq(STRING) /\ Len(path) \in Nat \ {0}
  BY TreesAssumption
<1>2. PICK n \in Nat \ {0} : n = Len(path)
  BY <1>1
<1>3. CASE n = 1
  <2>1. SubSeq(path, 1, 0) = <<>>
    BY <1>1
  <2>2. Parent(path) = SubSeq(path, 1, 0)
    BY <1>2, <1>3 DEF Parent
  <2> QED
    BY <1>1, <2>1, <2>2, PathFacts
<1>4. CASE n # 1
  <2>1. n - 1 \in 1..(n - 1)
    BY <1>4
  <2> QED
    BY <1>1, <1>2, <2>1 DEF Parent, Ancestors
<1> QED
  BY <1>3, <1>4

\* The trees the requests and the listings make of trees are trees.
LEMMA TreeTypes ==
    /\ Empty \in Trees
    /\ \A tree \in Trees, path \in Paths : Without(tree, path) \in Trees
    /\ \A tree \in Trees : Listed(tree) \in Trees /\ OnlyRoot(tree) \in Trees
  BY NumberFacts DEF Empty, Without, Listed, OnlyRoot, Trees

\* What a reader sees at a path is a version.
LEMMA VisibleType ==
    ASSUME local \in [Paths -> Versions], NEW path \in Paths
    PROVE  Visible(path) \in Versions
  BY NumberFacts DEF Visible

\* The effect of a move.
LEMMA MovedType ==
    ASSUME remote \in [Roots -> Trees], NEW root \in Legacies, NEW path \in Paths
    PROVE  /\ Moved(root, path) \in [Roots -> Trees]
           /\ Moved(root, path)[root] = Without(remote[root], path)
           /\ \A p \in Paths : Moved(root, path)[0][p] =
                  (IF Covers(path, p) THEN remote[root][p] ELSE remote[0][p])
           /\ \A other \in Roots : other \notin {0, root} => Moved(root, path)[other] = remote[other]
<1>1. 0 \in Roots /\ root \in Roots /\ root # 0
  BY NumberFacts
<1>2. remote[0] \in Trees /\ remote[root] \in Trees /\ Without(remote[root], path) \in Trees
  BY <1>1, TreeTypes
<1>3. PICK tree : tree = [p \in Paths |-> IF Covers(path, p) THEN remote[root][p] ELSE remote[0][p]]
  OBVIOUS
<1>4. tree \in Trees
  BY <1>2, <1>3 DEF Trees
<1>5. Moved(root, path) = [remote EXCEPT ![0] = tree, ![root] = Without(remote[root], path)]
  BY <1>1, <1>3 DEF Moved
<1> QED
  BY <1>1, <1>2, <1>3, <1>4, <1>5

\* The effect of an upload or of a new directory.
LEMMA UploadedType ==
    ASSUME remote \in [Roots -> Trees], NEW path \in Paths, NEW content \in Contents
    PROVE  /\ [remote EXCEPT ![0][path] = content] \in [Roots -> Trees]
           /\ \A p \in Paths : [remote EXCEPT ![0][path] = content][0][p] =
                  (IF p = path THEN content ELSE remote[0][p])
           /\ \A other \in Roots \ {0} : [remote EXCEPT ![0][path] = content][other] = remote[other]
  BY NumberFacts DEF Trees

\* The effect of a removal.
LEMMA RemovedType ==
    ASSUME remote \in [Roots -> Trees], NEW root \in Roots, NEW path \in Paths
    PROVE  /\ [remote EXCEPT ![root] = Without(@, path)] \in [Roots -> Trees]
           /\ \A p \in Paths : [remote EXCEPT ![root] = Without(@, path)][root][p] =
                  (IF Covers(path, p) THEN 0 ELSE remote[root][p])
           /\ \A other \in Roots \ {root} : [remote EXCEPT ![root] = Without(@, path)][other] = remote[other]
<1>1. Without(remote[root], path) \in Trees
  BY TreeTypes
<1> QED
  BY <1>1 DEF Without

\* The effect of dropped uploads.
LEMMA DroppedType ==
    ASSUME remote \in [Roots -> Trees], local \in [Paths -> Versions], Dropped
    PROVE  /\ remote' \in [Roots -> Trees]
           /\ \A other \in Roots \ {0} : remote'[other] = remote[other]
           /\ \A path \in Paths :
                 \/ remote'[0][path] = remote[0][path]
                 \/ /\ path \in Files /\ task[path] = "queued" /\ remote[0][Parent(path)] # 0
                    /\ Visible(path) # 0 /\ remote'[0][path] = Visible(path)
<1>1. PICK done \in SUBSET { file \in Files : task[file] = "queued" /\ Visible(file) # 0
                                               /\ remote[0][Parent(file)] # 0 } :
        remote' = [remote EXCEPT ![0] = [path \in Paths |->
                      IF path \in done THEN Visible(path) ELSE remote[0][path]]]
  BY DEF Dropped
<1>2. PICK tree : tree = [path \in Paths |-> IF path \in done THEN Visible(path) ELSE remote[0][path]]
  OBVIOUS
<1>3. \A path \in Paths : Visible(path) \in Contents
  BY VisibleType, NumberFacts
<1>4. 0 \in Roots /\ remote[0] \in Trees
  BY NumberFacts
<1>5. tree \in Trees
  BY <1>2, <1>3, <1>4 DEF Trees
<1>6. remote' = [remote EXCEPT ![0] = tree]
  BY <1>1, <1>2
<1>7. remote'[0] = tree /\ remote' \in [Roots -> Trees]
      /\ \A other \in Roots \ {0} : remote'[other] = remote[other]
  BY <1>4, <1>5, <1>6
<1> QED
  BY <1>2, <1>7

\* The tombstones stay directories.
LEMMA TombsType ==
    ASSUME tombs \subseteq Dirs, NEW files \in SUBSET Files, \A file \in files : NewlyGone(file)
    PROVE  TombsWith(files) \subseteq Dirs
<1>1. ASSUME NEW file \in files PROVE Shortest(MissingAncestors(file, LocalDirs)) \in Dirs
  <2>1. file \in Paths \ {<<>>} /\ MissingAncestors(file, LocalDirs) # {}
    BY PathFacts DEF NewlyGone
  <2>2. Ancestors(file) \subseteq Dirs
    BY <2>1, AboveIsDirectory
  <2>3. MissingAncestors(file, LocalDirs) \subseteq Dirs /\ Dirs \subseteq Seq(STRING)
    BY <2>2, PathFacts DEF MissingAncestors
  <2> QED
    BY <2>1, <2>3, ShortestIsLeast
<1> QED
  BY <1>1 DEF TombsWith, AddDeletedSubtrees

\* Deletes are of paths below the roots.
LEMMA DeleteCandidatesType ==
    ASSUME sets \in [Roots -> Trees]
    PROVE  DeleteCandidates \subseteq Roots \X (Paths \ {<<>>})
<1>1. ASSUME NEW known, NEW path \in CoalescedDeletes(known, In(sets[0]))
      PROVE  path \in Paths \ {<<>>}
  <2>1. PICK p \in In(sets[0]) : /\ DeleteCandidate(p)
                                /\ path = (IF DeadAncestors(p, known) = {} THEN p
                                           ELSE Shortest(DeadAncestors(p, known)))
    BY <1>1 DEF CoalescedDeletes
  <2>2. p \in Paths \ {<<>>}
    BY <2>1 DEF In, DeleteCandidate
  <2>3. CASE DeadAncestors(p, known) = {}
    BY <2>1, <2>2, <2>3
  <2>4. CASE DeadAncestors(p, known) # {}
    <3>1. Ancestors(p) \subseteq Dirs /\ p \in Seq(STRING)
      BY <2>2, AboveIsDirectory, PathFacts
    <3>2. Ancestors(p) \subseteq Seq(STRING) \ {<<>>}
      BY <3>1, AncestorsAreSeqs
    <3>3. Shortest(DeadAncestors(p, known)) \in Ancestors(p)
      BY <2>4, <3>2, ShortestIsLeast DEF DeadAncestors
    <3> QED
      BY <2>1, <2>4, <3>1, <3>2, <3>3, PathFacts
  <2> QED
    BY <2>3, <2>4
<1>2. \A root \in Legacies : LegacyDeletes(root) \subseteq Paths \ {<<>>}
  BY DEF LegacyDeletes, In
<1> QED
  BY <1>1, <1>2, NumberFacts DEF DeleteCandidates

-----------------------------------------------------------------------------
(* The inductive invariants.                                                 *)

\* The types of the variables, in parts that the steps change separately.
TreesType ==
    local \in [Paths -> Versions] /\ last \in [Files -> Versions] /\ remote \in [Roots -> Trees]
RecordType == record \in [Files -> [version : Versions, status : RecordStatuses, md5 : BOOLEAN]]
RowsType == cache \in [Roots -> Trees] /\ noMd5 \subseteq Roots \X Files /\ complete \in BOOLEAN
PlanType ==
    live \subseteq Paths /\ scanned \in [Files -> Versions] /\ hashed \subseteq Files /\ fromCache \in BOOLEAN
SetsType == sets \in [Roots -> Trees] /\ bare \subseteq Roots \X Files
QueuesType ==
    /\ todo \subseteq Paths /\ adopting \subseteq Files
    /\ batch \subseteq Files /\ IsFiniteSet(batch) /\ Cardinality(batch) <= Concurrency
    /\ pc = "adopt" => Cardinality(batch) < Concurrency
    /\ deletes \subseteq Roots \X (Paths \ {<<>>})
AnswersType == answer \in {"none", "ok", "fail", "stop"} /\ task \in [Files -> Answers]
FlagsType ==
    /\ failed \in BOOLEAN /\ hard \in BOOLEAN /\ stopping \in BOOLEAN
    /\ cancelled \in BOOLEAN /\ settled \in BOOLEAN
RunType ==
    /\ pc \in PCs /\ tombs \subseteq Dirs /\ outcome \in Outcomes
    /\ reported \subseteq Paths /\ touched \subseteq Paths /\ faults \in 0..MaxFaults
TypeInv ==
    /\ TreesType /\ RecordType /\ RowsType /\ PlanType /\ SetsType
    /\ QueuesType /\ AnswersType /\ FlagsType /\ RunType

\* Which queues a phase has, and which request it waits for.
PhaseInv ==
    /\ pc = "dirs" => todo \subseteq Dirs
    /\ pc \in {"merge", "adopt", "upload"} => todo \subseteq live \cap Files
    /\ adopting # {} => pc = "adopt"
    /\ batch # {} => pc \in {"adopt", "upload"}
    /\ deletes # {} => pc = "delete"
    /\ adopting \cup batch \subseteq live
    /\ \A file \in Files : task[file] # "none" => pc = "upload" /\ file \in live
    /\ answer # "none" => \/ pc = "top" /\ PresentLegacies # {}
                          \/ pc = "dirs" /\ todo # {}
                          \/ pc = "merge" /\ todo # {} /\ Merges(NextFile)
                          \/ pc = "delete" /\ deletes # {}
    /\ pc = "relist" => PresentLegacies # {}

\* The phases before the first upload.
Early == {"live", "sets", "rows", "status", "top", "relist", "dirs", "merge"}

\* Versions: a local file has its last version, a content that the disk or a row has is
\* one of the past, and what a run has from before its scan is not newer than the scan.
Known(content, newest) == content \in {1, Foreign} \/ content <= newest
Old(content, seen) == seen # 0 => content = Foreign \/ content <= seen

FileInv(file) ==
    /\ local[file] \in {0, last[file]} /\ scanned[file] <= last[file]
    /\ file \in live => scanned[file] # 0
    /\ record[file].version <= last[file] /\ Old(record[file].version, scanned[file])
CopyInv(file, root) ==
    /\ Known(remote[root][file], last[file])
    /\ Known(cache[root][file], last[file]) /\ Old(cache[root][file], scanned[file])
    /\ Known(sets[root][file], last[file]) /\ Old(sets[root][file], scanned[file])
    /\ pc \in Early => Old(remote[root][file], scanned[file])
VersionInv == \A file \in Files : FileInv(file) /\ \A root \in Roots : CopyInv(file, root)

\* A legacy tree only shrinks: what a row has of it is there, or nothing is.
LegacyInv ==
    \A root \in Legacies, file \in Files : \A content \in {sets[root][file], cache[root][file]} :
        content # 0 /\ remote[root][file] # 0 => remote[root][file] = content

\* If a content is not outdated, the canonical copy has it, or there is none.
True(content, newest, copy) ==
    content \notin {0, Foreign} /\ newest <= content /\ copy # 0 => copy = content

\* What the rows, the records, the adoptions and the answers say of files up to full_hash_max_bytes
\* is true.
RowTrue(file) ==
    /\ True(cache[0][file], last[file], remote[0][file])
    /\ True(sets[0][file], last[file], remote[0][file])
RecordTrue(file) ==
    record[file].status \in {"synced", "changed"} =>
        True(record[file].version, last[file], remote[0][file])
WorkTrue(file) ==
    /\ file \in adopting \/ task[file] = "ok" => True(scanned[file], last[file], remote[0][file])
    /\ pc = "merge" /\ answer = "ok" /\ file = NextFile =>
          True(sets[First(LegacyWith(file))][file], last[file], remote[0][file])
TrueInv == \A file \in Files \ SizeOnly : RowTrue(file) /\ RecordTrue(file) /\ WorkTrue(file)

\* The trees on the disk have their roots, and as long as there is no canonical root,
\* nothing is known to be in it.
Rooted == \A root \in Roots, path \in Paths : remote[root][path] # 0 => remote[root][<<>>] # 0
NothingKnown ==
    /\ sets[0] = Empty /\ cache[0] = Empty /\ adopting = {}
    /\ \A file \in Files : record[file].status \notin {"synced", "changed"} /\ task[file] # "ok"
    /\ answer = "ok" => pc \notin {"top", "dirs", "merge"}
RootInv == Rooted /\ (remote[0][<<>>] = 0 => NothingKnown)

-----------------------------------------------------------------------------
(* Type correctness.                                                         *)

\* The parts together are the type invariant.
LEMMA TypeParts == TypeInv => TypeOK
  BY DEF TypeInv, TypeOK, TreesType, RecordType, RowsType, PlanType, SetsType, QueuesType,
         AnswersType, FlagsType, RunType, Answers

\* What a step leaves alone keeps its type.
LEMMA Unchanged ==
    ASSUME TypeInv
    PROVE  /\ UNCHANGED <<local, last, remote>> => TreesType'
           /\ UNCHANGED record => RecordType'
           /\ UNCHANGED <<cache, noMd5, complete>> => RowsType'
           /\ UNCHANGED <<live, scanned, hashed, fromCache>> => PlanType'
           /\ UNCHANGED <<sets, bare>> => SetsType'
           /\ UNCHANGED <<answer, task>> => AnswersType'
           /\ UNCHANGED <<failed, hard, stopping, cancelled, settled>> => FlagsType'
<1>1. UNCHANGED <<local, last, remote>> => TreesType'
  BY DEF TypeInv, TreesType
<1>2. UNCHANGED record => RecordType'
  BY DEF TypeInv, RecordType
<1>3. UNCHANGED <<cache, noMd5, complete>> => RowsType'
  BY DEF TypeInv, RowsType
<1>4. UNCHANGED <<live, scanned, hashed, fromCache>> => PlanType'
  BY DEF TypeInv, PlanType
<1>5. UNCHANGED <<sets, bare>> => SetsType'
  BY DEF TypeInv, SetsType
<1>6. UNCHANGED <<answer, task>> => AnswersType'
  BY DEF TypeInv, AnswersType
<1>7. UNCHANGED <<failed, hard, stopping, cancelled, settled>> => FlagsType'
  BY DEF TypeInv, FlagsType
<1> QED
  BY <1>1, <1>2, <1>3, <1>4, <1>5, <1>6, <1>7

\* A fault is counted.
LEMMA FaultType ==
    ASSUME TypeInv, NEW kind, Fault(kind)
    PROVE  kind \in Faults /\ faults' \in 0..MaxFaults /\ settled' = FALSE
  BY LimitsAssumption DEF TypeInv, RunType, Fault

\* The end of a root and the end of a run empty the queues.
LEMMA EndTypes ==
    ASSUME TypeInv
    PROVE  /\ Finish => QueuesType' /\ pc' = "finish"
           /\ EndRun => /\ PlanType' /\ SetsType' /\ QueuesType' /\ AnswersType'
                        /\ pc' = "idle" /\ tombs' = {} /\ reported' = {}
                        /\ UNCHANGED settled => FlagsType'
                        /\ settled' \in BOOLEAN => FlagsType'
<1>1. ASSUME todo' = {}, adopting' = {}, batch' = {}, deletes' = {}
      PROVE  QueuesType'
  BY <1>1, FS_EmptySet, LimitsAssumption DEF QueuesType
<1>2. ASSUME EndRun PROVE PlanType'
  BY <1>2, NumberFacts DEF EndRun, PlanType, TypeInv
<1>3. ASSUME EndRun PROVE SetsType'
  BY <1>3, TreeTypes DEF EndRun, SetsType
<1>4. ASSUME EndRun PROVE AnswersType'
  BY <1>4 DEF EndRun, AnswersType, NoTasks, Answers
<1>5. ASSUME EndRun, settled' \in BOOLEAN PROVE FlagsType'
  BY <1>5 DEF EndRun, FlagsType
<1>6. settled \in BOOLEAN
  BY DEF TypeInv, FlagsType
<1> QED
  BY <1>1, <1>2, <1>3, <1>4, <1>5, <1>6 DEF Finish, EndRun

\* The next file of a loop over files.
LEMMA NextFileType ==
    ASSUME PhaseInv, pc \in {"merge", "adopt"}, todo # {}
    PROVE  NextFile \in todo /\ NextFile \in live /\ NextFile \in Files /\ NextFile \in Paths \ {<<>>}
<1>1. todo \subseteq Files /\ todo \subseteq live
  BY DEF PhaseInv
<1> QED
  BY <1>1, FirstFileType, PathFacts DEF NextFile

\* Records.
Records == [Files -> [version : Versions, status : RecordStatuses, md5 : BOOLEAN]]

\* The records that the statements of the run write are records.
LEMMA RecordTypes ==
    ASSUME TypeInv
    PROVE  /\ record \in Records
           /\ \A states \in Records, file \in Files, status \in RecordStatuses, md5 \in BOOLEAN :
                 FileState(states, file, status, md5) \in Records
           /\ \A states \in Records, file \in Files :
                 /\ FileState(states, file, "skipped", FALSE) \in Records
                 /\ FileState(states, file, "failed", FALSE) \in Records
                 /\ FileState(states, file, StatusAfterUpload(file), file \in hashed) \in Records
           /\ FlushedRecords \in Records
           /\ \A path : MarkDeleted(path) \in Records
<1>1. record \in Records
  BY DEF TypeInv, RecordType, Records
<1>2. ASSUME NEW file \in Files, NEW status \in RecordStatuses, NEW md5 \in BOOLEAN
      PROVE  FileStateRecord(file, status, md5)
                \in [version : Versions, status : RecordStatuses, md5 : BOOLEAN]
  BY DEF FileStateRecord, TypeInv, PlanType
<1>3. \A states \in Records, file \in Files, status \in RecordStatuses, md5 \in BOOLEAN :
         FileState(states, file, status, md5) \in Records
  BY <1>2 DEF FileState, Records
<1>4. ASSUME NEW states \in Records, NEW file \in Files
      PROVE  /\ FileState(states, file, "skipped", FALSE) \in Records
             /\ FileState(states, file, "failed", FALSE) \in Records
             /\ FileState(states, file, StatusAfterUpload(file), file \in hashed) \in Records
  <2>1. /\ "skipped" \in RecordStatuses /\ "failed" \in RecordStatuses
        /\ StatusAfterUpload(file) \in RecordStatuses
    BY DEF RecordStatuses, StatusAfterUpload
  <2>2. FALSE \in BOOLEAN /\ (file \in hashed) \in BOOLEAN
    OBVIOUS
  <2> QED
    BY <1>3, <2>1, <2>2, Zenon
<1>5. FlushedRecords \in Records
  <2>1. \A file \in Files : FileStateRecord(file, "synced", <<0, file>> \notin bare)
                                \in [version : Versions, status : RecordStatuses, md5 : BOOLEAN]
    BY <1>2 DEF RecordStatuses
  <2> QED
    BY <1>1, <2>1 DEF FlushedRecords, Records
<1>6. \A path : MarkDeleted(path) \in Records
  BY <1>1 DEF MarkDeleted, Records, RecordStatuses
<1> QED
  BY <1>1, <1>3, <1>4, <1>5, <1>6

\* The rows of some files, from the inventory.
LEMMA UpsertType ==
    ASSUME TypeInv, SetsType', NEW files, UpsertRows(files), UNCHANGED complete
    PROVE  RowsType'
<1>1. sets'[0] \in Trees /\ cache[0] \in Trees /\ 0 \in Roots /\ cache \in [Roots -> Trees]
  BY NumberFacts DEF SetsType, TypeInv, RowsType
<1>2. PICK tree : tree = [path \in Paths |-> IF path \in files THEN sets'[0][path] ELSE cache[0][path]]
  OBVIOUS
<1>3. tree \in Trees
  BY <1>1, <1>2 DEF Trees
<1>4. cache' = [cache EXCEPT ![0] = tree]
  BY <1>1, <1>2 DEF UpsertRows
<1>5. cache' \in [Roots -> Trees]
  BY <1>1, <1>3, <1>4
<1>6. noMd5' \subseteq Roots \X Files
  BY DEF UpsertRows, TypeInv, RowsType, SetsType
<1> QED
  BY <1>5, <1>6 DEF RowsType, TypeInv

\* Flush in particular.
LEMMA FlushType ==
    ASSUME TypeInv, Flush, UNCHANGED complete
    PROVE  RowsType' /\ SetsType' /\ adopting' = {}
<1>1. UNCHANGED <<sets, bare>>
  BY DEF Flush, inventory
<1>2. SetsType'
  BY <1>1, Unchanged
<1> QED
  BY <1>2, UpsertType DEF Flush

\* The rows of a deleted subtree go.
LEMMA RowsWithoutType ==
    ASSUME TypeInv, NEW root \in Roots, NEW path \in Paths, RowsWithout(root, path), UNCHANGED complete
    PROVE  RowsType'
<1>1. Without(cache[root], path) \in Trees /\ cache \in [Roots -> Trees]
  BY TreeTypes DEF TypeInv, RowsType
<1>2. cache' = [cache EXCEPT ![root] = Without(cache[root], path)]
  BY DEF RowsWithout
<1>3. cache' \in [Roots -> Trees]
  BY <1>1, <1>2
<1> QED
  BY <1>3 DEF RowsWithout, RowsType, TypeInv

\* What the last step of the uploads queues for the deletes.
LEMMA EnterDeletesType ==
    ASSUME TypeInv, EnterDeletes, adopting' \subseteq Files
    PROVE  QueuesType' /\ pc' \in {"finish", "delete"}
<1>1. CASE Finish
  BY <1>1, EndTypes
<1>2. CASE pc' = "delete" /\ deletes' = DeleteCandidates /\ UNCHANGED <<todo, batch>>
  BY <1>2, DeleteCandidatesType DEF TypeInv, QueuesType, SetsType
<1> QED
  BY <1>1, <1>2 DEF EnterDeletes

\* The next delete is of a path below a root.
LEMMA NextDeleteFacts ==
    ASSUME TypeInv, deletes # {}
    PROVE  NextDelete \in deletes /\ NextDelete[1] \in Roots /\ NextDelete[2] \in Paths \ {<<>>}
<1>1. deletes \subseteq Roots \X (Paths \ {<<>>})
  BY DEF TypeInv, QueuesType
<1>2. deletes \subseteq Roots \X Paths
  BY <1>1
<1>3. NextDelete \in deletes
  BY <1>2, NextDeleteType
<1> QED
  BY <1>1, <1>3

\* A request keeps the types if its effect does.
LEMMA RequestType ==
    ASSUME TypeInv, NEW possible, NEW effect \in [Roots -> Trees], Request(possible, effect)
    PROVE  TypeInv'
<1> USE DEF trees, database, rows, plan, inventory, queues, summary, budgets
<1>1. RecordType' /\ RowsType' /\ PlanType' /\ SetsType'
  BY Unchanged DEF Request
<1>2. TreesType'
  BY DEF Request, TypeInv, TreesType
<1>3. QueuesType'
  BY DEF Request, TypeInv, QueuesType
<1>4. AnswersType'
  BY DEF Request, TypeInv, AnswersType
<1>5. FlagsType'
  BY FaultType DEF Request, TypeInv, FlagsType
<1>6. RunType'
  BY FaultType DEF Request, TypeInv, RunType
<1> QED
  BY <1>1, <1>2, <1>3, <1>4, <1>5, <1>6 DEF TypeInv

\* The scan, the inventory, and the ends of a run keep the types.
LEMMA ScanType ==
    ASSUME TypeInv, PhaseInv, StartRun \/ RecordMissingRoot \/ FinishRun \/ ScanSteps
    PROVE  TypeInv'
<1> USE DEF trees, database, rows, plan, inventory, queues, summary, budgets
<1>1. ASSUME StartRun
      PROVE  TypeInv'
  <2>1. TreesType' /\ RecordType' /\ SetsType' /\ RowsType' /\ PlanType' /\ AnswersType' /\ FlagsType'
    BY <1>1, Unchanged DEF StartRun
  <2>2. QueuesType'
    BY <1>1 DEF StartRun, TypeInv, QueuesType
  <2>3. RunType'
    BY <1>1 DEF StartRun, TypeInv, RunType, PCs, Outcomes
  <2> QED
    BY <2>1, <2>2, <2>3 DEF TypeInv
<1>2. ASSUME RecordMissingRoot
      PROVE  TypeInv'
  <2>1. TreesType' /\ RecordType' /\ SetsType' /\ RowsType' /\ PlanType' /\ AnswersType'
    BY <1>2, Unchanged DEF RecordMissingRoot
  <2>2. QueuesType'
    BY <1>2 DEF RecordMissingRoot, TypeInv, QueuesType
  <2>3. FlagsType'
    BY <1>2 DEF RecordMissingRoot, TypeInv, FlagsType
  <2>4. RunType'
    BY <1>2 DEF RecordMissingRoot, TypeInv, RunType, Outcomes
  <2> QED
    BY <2>1, <2>2, <2>3, <2>4 DEF TypeInv
<1>3. ASSUME FinishRun
      PROVE  TypeInv'
  <2>1. TreesType' /\ RecordType' /\ RowsType'
    BY <1>3, Unchanged DEF FinishRun
  <2>2. SetsType'
    BY <1>3, EndTypes DEF FinishRun, TypeInv, SetsType
  <2>3. PlanType'
    BY <1>3, EndTypes DEF FinishRun, TypeInv, PlanType
  <2>4. QueuesType'
    BY <1>3, EndTypes DEF FinishRun, TypeInv, QueuesType
  <2>5. AnswersType'
    BY <1>3, EndTypes DEF FinishRun, TypeInv, AnswersType
  <2>6. FlagsType'
    BY <1>3, EndTypes DEF FinishRun, TypeInv, FlagsType
  <2>7. RunType'
    BY <1>3, EndTypes DEF FinishRun, TypeInv, RunType, PCs, Outcomes, StatusFromSummary
  <2> QED
    BY <2>1, <2>2, <2>3, <2>4, <2>5, <2>6, <2>7 DEF TypeInv
<1>4. ASSUME NEW unreadable \in SUBSET LocalDirs, NEW busy \in SUBSET Files, Scan(unreadable, busy)
      PROVE  TypeInv'
  <2>1. TreesType' /\ RecordType' /\ SetsType' /\ RowsType' /\ AnswersType'
    BY <1>4, Unchanged DEF Scan
  <2>2. PlanType'
    BY <1>4, NumberFacts, PathFacts DEF Scan, TypeInv, PlanType, TreesType, Walked
  <2>3. QueuesType'
    BY <1>4 DEF Scan, TypeInv, QueuesType
  <2>4. FlagsType'
    BY <1>4, FaultType DEF Scan, TypeInv, FlagsType
  <2>5. RunType'
    BY <1>4, FaultType DEF Scan, TypeInv, RunType, PCs, In
  <2> QED
    BY <2>1, <2>2, <2>3, <2>4, <2>5 DEF TypeInv
<1>5. ASSUME BuildLivePlan
      PROVE  TypeInv'
  <2>1. TreesType' /\ RecordType' /\ SetsType' /\ RowsType' /\ AnswersType' /\ FlagsType'
    BY <1>5, Unchanged DEF BuildLivePlan
  <2>2. PlanType'
    BY <1>5 DEF BuildLivePlan, TypeInv, PlanType
  <2>3. QueuesType'
    BY <1>5 DEF BuildLivePlan, TypeInv, QueuesType
  <2>4. RunType'
    BY <1>5, PathFacts DEF BuildLivePlan, TypeInv, RunType, PCs, AddDeletedSubtrees
  <2> QED
    BY <2>1, <2>2, <2>3, <2>4 DEF TypeInv
<1>6. ASSUME LoadCached
      PROVE  TypeInv'
  <2>1. TreesType' /\ RecordType' /\ RowsType' /\ AnswersType' /\ FlagsType'
    BY <1>6, Unchanged DEF LoadCached
  <2>2. SetsType'
    BY <1>6 DEF LoadCached, TypeInv, SetsType, RowsType
  <2>3. PlanType'
    BY <1>6 DEF LoadCached, TypeInv, PlanType
  <2>4. QueuesType'
    BY <1>6 DEF LoadCached, TypeInv, QueuesType
  <2>5. RunType'
    BY <1>6 DEF LoadCached, TypeInv, RunType, PCs
  <2> QED
    BY <2>1, <2>2, <2>3, <2>4, <2>5 DEF TypeInv
<1>7. ASSUME LoadFresh
      PROVE  TypeInv'
  <2>1. TreesType' /\ RecordType' /\ RowsType' /\ AnswersType'
    BY <1>7, Unchanged DEF LoadFresh
  <2>2. SetsType'
    BY <1>7, TreeTypes DEF LoadFresh, TypeInv, SetsType, TreesType, FilesIn
  <2>3. PlanType'
    BY <1>7 DEF LoadFresh, TypeInv, PlanType
  <2>4. QueuesType'
    BY <1>7 DEF LoadFresh, TypeInv, QueuesType
  <2>5. FlagsType'
    BY <1>7 DEF LoadFresh, TypeInv, FlagsType
  <2>6. RunType'
    BY <1>7 DEF LoadFresh, TypeInv, RunType, PCs
  <2> QED
    BY <2>1, <2>2, <2>3, <2>4, <2>5, <2>6 DEF TypeInv
<1>8. ASSUME RecordRows
      PROVE  TypeInv'
  <2>1. TreesType' /\ RecordType' /\ SetsType' /\ PlanType' /\ AnswersType' /\ FlagsType'
    BY <1>8, Unchanged DEF RecordRows
  <2>2. RowsType'
    BY <1>8 DEF RecordRows, TypeInv, RowsType, SetsType
  <2>3. QueuesType'
    BY <1>8 DEF RecordRows, TypeInv, QueuesType
  <2>4. RunType'
    BY <1>8 DEF RecordRows, TypeInv, RunType, PCs
  <2> QED
    BY <2>1, <2>2, <2>3, <2>4 DEF TypeInv
<1>9. ASSUME RecordStatus
      PROVE  TypeInv'
  <2>1. TreesType' /\ RecordType' /\ SetsType' /\ PlanType' /\ AnswersType' /\ FlagsType'
    BY <1>9, Unchanged DEF RecordStatus
  <2>2. RowsType'
    BY <1>9 DEF RecordStatus, TypeInv, RowsType
  <2>3. QueuesType'
    BY <1>9 DEF RecordStatus, TypeInv, QueuesType
  <2>4. RunType'
    BY <1>9 DEF RecordStatus, TypeInv, RunType, PCs
  <2> QED
    BY <2>1, <2>2, <2>3, <2>4 DEF TypeInv
<1> QED
  BY <1>1, <1>2, <1>3, <1>4, <1>5, <1>6, <1>7, <1>8, <1>9 DEF ScanSteps

\* The moves and the directories keep the types.
LEMMA MoveType ==
    ASSUME TypeInv, PhaseInv, MoveSteps
    PROVE  TypeInv'
<1> USE DEF trees, database, rows, plan, inventory, queues, summary, budgets
<1>1. ASSUME NoTopMove
      PROVE  TypeInv'
  <2>1. TreesType' /\ RecordType' /\ SetsType' /\ RowsType' /\ PlanType' /\ AnswersType' /\ FlagsType'
    BY <1>1, Unchanged DEF NoTopMove
  <2>2. QueuesType'
    BY <1>1, EndTypes, PathFacts DEF NoTopMove, TypeInv, QueuesType, EnterDirs, PlanType
  <2>3. RunType'
    BY <1>1, EndTypes DEF NoTopMove, TypeInv, RunType, EnterDirs, PCs
  <2> QED
    BY <2>1, <2>2, <2>3 DEF TypeInv
<1>2. ASSUME JoinTopMove
      PROVE  TypeInv'
  <2>1. TreesType' /\ RecordType' /\ SetsType' /\ RowsType' /\ PlanType'
    BY <1>2, Unchanged DEF JoinTopMove
  <2>2. QueuesType'
    BY <1>2, EndTypes, PathFacts DEF JoinTopMove, TypeInv, QueuesType, EnterDirs, PlanType, AnswersType
  <2>3. AnswersType'
    BY <1>2 DEF JoinTopMove, TypeInv, AnswersType
  <2>4. FlagsType'
    BY <1>2 DEF JoinTopMove, TypeInv, FlagsType, MigrationFailure, AnswersType
  <2>5. RunType'
    BY <1>2, EndTypes DEF JoinTopMove, TypeInv, RunType, EnterDirs, PCs, AnswersType
  <2> QED
    BY <2>1, <2>2, <2>3, <2>4, <2>5 DEF TypeInv
<1>3. ASSUME Relist
      PROVE  TypeInv'
  <2>1. TreesType' /\ RecordType' /\ RowsType' /\ PlanType' /\ AnswersType' /\ FlagsType'
    BY <1>3, Unchanged DEF Relist
  <2>2. SetsType'
    BY <1>3, TreeTypes, NumberFacts DEF Relist, TypeInv, SetsType, TreesType
  <2>3. QueuesType'
    BY <1>3, EndTypes, PathFacts DEF Relist, TypeInv, QueuesType, EnterDirs, PlanType
  <2>4. RunType'
    BY <1>3, EndTypes DEF Relist, TypeInv, RunType, EnterDirs, PCs
  <2> QED
    BY <2>1, <2>2, <2>3, <2>4 DEF TypeInv
<1>4. ASSUME JoinCreate
      PROVE  TypeInv'
  <2>1. TreesType' /\ RecordType' /\ RowsType' /\ PlanType' /\ FlagsType'
    BY <1>4, Unchanged DEF JoinCreate
  <2>2. SetsType'
    <3>1. todo \subseteq Dirs /\ todo # {} /\ 0 \in Roots /\ 1 \in Contents
      BY <1>4, NumberFacts DEF JoinCreate, PhaseInv
    <3>2. NextDir \in Paths
      BY <3>1, NextDirType, PathFacts
    <3> QED
      BY <1>4, <3>1, <3>2 DEF JoinCreate, TypeInv, SetsType, Trees
  <2>3. QueuesType'
    BY <1>4 DEF JoinCreate, TypeInv, QueuesType
  <2>4. AnswersType'
    BY <1>4 DEF JoinCreate, TypeInv, AnswersType
  <2>5. RunType'
    BY <1>4 DEF JoinCreate, TypeInv, RunType
  <2> QED
    BY <2>1, <2>2, <2>3, <2>4, <2>5 DEF TypeInv
<1>5. ASSUME CreateFails
      PROVE  TypeInv'
  <2>1. RecordType' /\ RowsType'
    BY <1>5, Unchanged DEF CreateFails
  <2>2. TreesType'
    BY <1>5, DroppedType DEF CreateFails, TypeInv, TreesType, RunFails
  <2>3. SetsType'
    BY <1>5, EndTypes DEF CreateFails, TypeInv, SetsType, RunFails
  <2>4. PlanType'
    BY <1>5, EndTypes DEF CreateFails, TypeInv, PlanType, RunFails
  <2>5. QueuesType'
    BY <1>5, EndTypes DEF CreateFails, TypeInv, QueuesType, RunFails
  <2>6. AnswersType'
    BY <1>5, EndTypes DEF CreateFails, TypeInv, AnswersType, RunFails
  <2>7. FlagsType'
    BY <1>5, EndTypes, FaultType DEF CreateFails, TypeInv, FlagsType, RunFails
  <2>8. RunType'
    BY <1>5, EndTypes, FaultType DEF CreateFails, TypeInv, RunType, RunFails, PCs, Outcomes
  <2> QED
    BY <2>1, <2>2, <2>3, <2>4, <2>5, <2>6, <2>7, <2>8 DEF TypeInv
<1>6. ASSUME EndDirs
      PROVE  TypeInv'
  <2>1. TreesType' /\ RecordType' /\ SetsType' /\ RowsType' /\ PlanType' /\ AnswersType' /\ FlagsType'
    BY <1>6, Unchanged DEF EndDirs
  <2>2. QueuesType'
    BY <1>6, EndTypes DEF EndDirs, TypeInv, QueuesType, PlanType
  <2>3. RunType'
    BY <1>6, EndTypes DEF EndDirs, TypeInv, RunType, PCs
  <2> QED
    BY <2>1, <2>2, <2>3 DEF TypeInv
<1>7. ASSUME MergeSkips
      PROVE  TypeInv'
  <2>1. TreesType' /\ RecordType' /\ SetsType' /\ RowsType' /\ PlanType' /\ AnswersType' /\ FlagsType'
    BY <1>7, Unchanged DEF MergeSkips
  <2>2. QueuesType'
    BY <1>7 DEF MergeSkips, TypeInv, QueuesType
  <2>3. RunType'
    BY <1>7 DEF MergeSkips, TypeInv, RunType
  <2> QED
    BY <2>1, <2>2, <2>3 DEF TypeInv
<1>8. ASSUME MergeComparisonFails
      PROVE  TypeInv'
  <2>1. TreesType' /\ SetsType' /\ RowsType' /\ PlanType' /\ AnswersType'
    BY <1>8, Unchanged DEF MergeComparisonFails
  <2>2. RecordType'
    <3>1. NextFile \in Files
      BY <1>8, NextFileType DEF MergeComparisonFails, MergeReady
    <3>2. \E status \in {"skipped", "failed"} : record' = FileState(record, NextFile, status, FALSE)
      BY <1>8 DEF MergeComparisonFails, ProcessingFailure
    <3>3. record' \in Records
      BY <3>1, <3>2, RecordTypes
    <3> QED
      BY <3>3 DEF RecordType, Records
  <2>3. QueuesType'
    BY <1>8 DEF MergeComparisonFails, TypeInv, QueuesType
  <2>4. FlagsType'
    BY <1>8, FaultType DEF MergeComparisonFails, TypeInv, FlagsType, ProcessingFailure
  <2>5. RunType'
    <3>1. NextFile \in Paths
      BY <1>8, NextFileType DEF MergeComparisonFails, MergeReady
    <3> QED
      BY <1>8, <3>1, FaultType
      DEF MergeComparisonFails, ProcessingFailure, MarkSkipped, MarkFailed, TypeInv, RunType
  <2> QED
    BY <2>1, <2>2, <2>3, <2>4, <2>5 DEF TypeInv
<1>9. ASSUME JoinMergeMove
      PROVE  TypeInv'
  <2>1. TreesType' /\ RecordType' /\ RowsType' /\ PlanType'
    BY <1>9, Unchanged DEF JoinMergeMove
  <2>2. SetsType'
    <3>1. NextFile \in Files /\ NextFile \in Paths /\ Merges(NextFile)
      BY <1>9, NextFileType DEF JoinMergeMove, PhaseInv
    <3>2. PICK root : root = First(LegacyWith(NextFile)) /\ root \in Legacies
      BY <3>1, FirstType DEF Merges, LegacyWith
    <3>3. root \in Roots /\ 0 \in Roots /\ 0 \in Contents
      BY <3>2, NumberFacts
    <3>4. CASE answer = "ok"
      <4>1. /\ sets' = [sets EXCEPT ![0][NextFile] = sets[root][NextFile], ![root][NextFile] = 0]
            /\ bare' = { IF entry = <<root, NextFile>> THEN <<0, NextFile>> ELSE entry : entry \in bare }
        BY <1>9, <3>2, <3>4 DEF JoinMergeMove
      <4>2. bare' \subseteq Roots \X Files
        BY <3>1, <3>3, <4>1 DEF TypeInv, SetsType
      <4>3. sets[root][NextFile] \in Contents
        BY <3>1, <3>3 DEF TypeInv, SetsType, Trees
      <4> QED
        BY <3>1, <3>3, <4>1, <4>2, <4>3 DEF TypeInv, SetsType, Trees
    <3>5. CASE answer # "ok"
      BY <1>9, <3>5, Unchanged DEF JoinMergeMove, TypeInv, AnswersType
    <3> QED
      BY <3>4, <3>5
  <2>3. QueuesType'
    BY <1>9, EndTypes DEF JoinMergeMove, TypeInv, QueuesType, AnswersType
  <2>4. AnswersType'
    BY <1>9 DEF JoinMergeMove, TypeInv, AnswersType
  <2>5. FlagsType'
    BY <1>9 DEF JoinMergeMove, TypeInv, FlagsType, MigrationFailure, AnswersType
  <2>6. RunType'
    BY <1>9, EndTypes DEF JoinMergeMove, TypeInv, RunType, PCs, AnswersType
  <2> QED
    BY <2>1, <2>2, <2>3, <2>4, <2>5, <2>6 DEF TypeInv
<1>10. ASSUME EndMerge
      PROVE  TypeInv'
  <2>1. TreesType' /\ RecordType' /\ SetsType' /\ RowsType' /\ PlanType' /\ AnswersType' /\ FlagsType'
    BY <1>10, Unchanged DEF EndMerge
  <2>2. QueuesType'
    <3>1. pc' = "adopt" => batch' = {} /\ Cardinality(batch') < Concurrency
      BY <1>10, FS_EmptySet, LimitsAssumption DEF EndMerge, Finish, PhaseInv
    <3>2. live \cap Files \subseteq Paths
      BY DEF TypeInv, PlanType
    <3> QED
      BY <1>10, <3>1, <3>2, EndTypes DEF EndMerge, TypeInv, QueuesType
  <2>3. RunType'
    BY <1>10, EndTypes DEF EndMerge, TypeInv, RunType, PCs
  <2> QED
    BY <2>1, <2>2, <2>3 DEF TypeInv
<1>11. ASSUME SendTopMove
      PROVE  TypeInv'
  <2>1. PICK root : root = First(PresentLegacies) /\ root \in Legacies
    BY <1>11, FirstType DEF SendTopMove, TopMovePossible, PresentLegacies
  <2>2. Moved(root, <<>>) \in [Roots -> Trees]
    BY <2>1, MovedType, PathFacts DEF TypeInv, TreesType
  <2> QED
    BY <1>11, <2>1, <2>2, RequestType DEF SendTopMove
<1>12. ASSUME SendCreate
      PROVE  TypeInv'
  <2>1. NextDir \in Paths
    BY <1>12, NextDirType, PathFacts DEF SendCreate, PhaseInv
  <2>2. [remote EXCEPT ![0][NextDir] = 1] \in [Roots -> Trees]
    BY <2>1, UploadedType, NumberFacts DEF TypeInv, TreesType
  <2> QED
    BY <1>12, <2>2, RequestType DEF SendCreate
<1>13. ASSUME SendMergeMove
      PROVE  TypeInv'
  <2>1. NextFile \in Paths /\ Merges(NextFile)
    BY <1>13, NextFileType DEF SendMergeMove, MergeReady
  <2>2. PICK root : root = First(LegacyWith(NextFile)) /\ root \in Legacies
    BY <2>1, FirstType DEF Merges, LegacyWith
  <2>3. Moved(root, NextFile) \in [Roots -> Trees]
    BY <2>1, <2>2, MovedType DEF TypeInv, TreesType
  <2> QED
    BY <1>13, <2>2, <2>3, RequestType DEF SendMergeMove
<1> QED
  BY <1>1, <1>2, <1>3, <1>4, <1>5, <1>6, <1>7, <1>8, <1>9, <1>10, <1>11, <1>12, <1>13 DEF MoveSteps

\* Adoptions and uploads keep the types.
LEMMA UploadType ==
    ASSUME TypeInv, PhaseInv, UploadSteps
    PROVE  TypeInv'
<1> USE DEF trees, database, rows, plan, inventory, queues, summary, budgets
<1>1. ASSUME AdoptSkips
      PROVE  TypeInv'
  <2>1. TreesType' /\ RecordType' /\ SetsType' /\ RowsType' /\ PlanType' /\ AnswersType' /\ FlagsType'
    BY <1>1, Unchanged DEF AdoptSkips
  <2>2. QueuesType'
    BY <1>1 DEF AdoptSkips, TypeInv, QueuesType
  <2>3. RunType'
    BY <1>1 DEF AdoptSkips, TypeInv, RunType
  <2> QED
    BY <2>1, <2>2, <2>3 DEF TypeInv
<1>2. ASSUME AdoptFindsGone
      PROVE  TypeInv'
  <2>1. TreesType' /\ PlanType' /\ AnswersType'
    BY <1>2, Unchanged DEF AdoptFindsGone
  <2>2. RecordType'
    <3>1. NextFile \in Files
      BY <1>2, NextFileType DEF AdoptFindsGone, AdoptReady
    <3>2. \/ record' = FlushedRecords
          \/ record' = FileState(FlushedRecords, NextFile, "skipped", FALSE)
      BY <1>2 DEF AdoptFindsGone, ProcessingFailure
    <3>3. record' \in Records
      BY <3>1, <3>2, RecordTypes
    <3> QED
      BY <3>3 DEF RecordType, Records
  <2>3. SetsType'
    BY <1>2, FlushType DEF AdoptFindsGone, TypeInv, SetsType
  <2>4. RowsType'
    BY <1>2, FlushType DEF AdoptFindsGone, TypeInv, RowsType
  <2>5. QueuesType'
    BY <1>2 DEF AdoptFindsGone, TypeInv, QueuesType, Flush
  <2>6. FlagsType'
    BY <1>2 DEF AdoptFindsGone, TypeInv, FlagsType, ProcessingFailure
  <2>7. RunType'
    <3>1. NextFile \in Files /\ NextFile \in Paths
      BY <1>2, NextFileType DEF AdoptFindsGone, AdoptReady
    <3>2. NewlyGone(NextFile) => TombsWith({NextFile}) \subseteq Dirs
      BY <3>1, TombsType DEF TypeInv, RunType
    <3> QED
      BY <1>2, <3>1, <3>2 DEF AdoptFindsGone, ProcessingFailure, MarkSkipped, TypeInv, RunType
  <2> QED
    BY <2>1, <2>2, <2>3, <2>4, <2>5, <2>6, <2>7 DEF TypeInv
<1>3. ASSUME Adopt
      PROVE  TypeInv'
  <2>1. TreesType' /\ RecordType' /\ SetsType' /\ RowsType' /\ PlanType' /\ AnswersType' /\ FlagsType'
    BY <1>3, Unchanged DEF Adopt
  <2>2. QueuesType'
    <3>1. NextFile \in Files
      BY <1>3, NextFileType DEF Adopt, AdoptReady
    <3> QED
      BY <1>3, <3>1 DEF Adopt, TypeInv, QueuesType
  <2>3. RunType'
    BY <1>3 DEF Adopt, TypeInv, RunType
  <2> QED
    BY <2>1, <2>2, <2>3 DEF TypeInv
<1>4. ASSUME AdoptComparisonFails
      PROVE  TypeInv'
  <2>1. TreesType' /\ PlanType' /\ AnswersType'
    BY <1>4, Unchanged DEF AdoptComparisonFails
  <2>2. RecordType'
    <3>1. NextFile \in Files
      BY <1>4, NextFileType DEF AdoptComparisonFails, AdoptReady
    <3>2. record' = FileState(FlushedRecords, NextFile, "failed", FALSE)
      BY <1>4 DEF AdoptComparisonFails, ProcessingFailure
    <3>3. record' \in Records
      BY <3>1, <3>2, RecordTypes
    <3> QED
      BY <3>3 DEF RecordType, Records
  <2>3. SetsType'
    BY <1>4, FlushType DEF AdoptComparisonFails, TypeInv, SetsType
  <2>4. RowsType'
    BY <1>4, FlushType DEF AdoptComparisonFails, TypeInv, RowsType
  <2>5. QueuesType'
    BY <1>4 DEF AdoptComparisonFails, TypeInv, QueuesType, Flush
  <2>6. FlagsType'
    BY <1>4, FaultType DEF AdoptComparisonFails, TypeInv, FlagsType, ProcessingFailure
  <2>7. RunType'
    <3>1. NextFile \in Paths
      BY <1>4, NextFileType DEF AdoptComparisonFails, AdoptReady
    <3> QED
      BY <1>4, <3>1, FaultType DEF AdoptComparisonFails, ProcessingFailure, MarkFailed, TypeInv, RunType
  <2> QED
    BY <2>1, <2>2, <2>3, <2>4, <2>5, <2>6, <2>7 DEF TypeInv
<1>5. ASSUME QueueUpload
      PROVE  TypeInv'
  <2>1. TreesType' /\ PlanType' /\ AnswersType' /\ FlagsType'
    BY <1>5, Unchanged DEF QueueUpload
  <2>2. RecordType'
    BY <1>5, RecordTypes DEF QueueUpload, TypeInv, RecordType, Records
  <2>3. SetsType'
    BY <1>5, FlushType DEF QueueUpload, TypeInv, SetsType
  <2>4. RowsType'
    BY <1>5, FlushType DEF QueueUpload, TypeInv, RowsType
  <2>5. QueuesType'
    <3>1. NextFile \in Files
      BY <1>5, NextFileType DEF QueueUpload, AdoptReady, MustUpload
    <3>2. /\ batch \subseteq Files /\ IsFiniteSet(batch) /\ Cardinality(batch) < Concurrency
          /\ todo \subseteq Paths /\ deletes \subseteq Roots \X (Paths \ {<<>>})
      BY <1>5 DEF QueueUpload, AdoptReady, TypeInv, QueuesType
    <3>3. /\ batch' = batch \cup {NextFile} /\ adopting' = {} /\ todo' = todo \ {NextFile}
          /\ UNCHANGED deletes /\ (pc' = "adopt" => ~(Cardinality(batch') >= Concurrency))
      BY <1>5 DEF QueueUpload, Flush
    <3>4. IsFiniteSet(batch') /\ Cardinality(batch') \in Nat /\ Cardinality(batch') <= Cardinality(batch) + 1
          /\ Cardinality(batch) \in Nat
      BY <3>2, <3>3, FS_AddElement, FS_CardinalityType
    <3> QED
      BY <3>1, <3>2, <3>3, <3>4, LimitsAssumption DEF QueuesType
  <2>6. RunType'
    BY <1>5 DEF QueueUpload, TypeInv, RunType, PCs
  <2> QED
    BY <2>1, <2>2, <2>3, <2>4, <2>5, <2>6 DEF TypeInv
<1>6. ASSUME EndAdopt
      PROVE  TypeInv'
  <2>1. TreesType' /\ PlanType' /\ AnswersType' /\ FlagsType'
    BY <1>6, Unchanged DEF EndAdopt
  <2>2. RecordType'
    BY <1>6, RecordTypes DEF EndAdopt, TypeInv, RecordType, Records
  <2>3. SetsType'
    BY <1>6, FlushType DEF EndAdopt, TypeInv, SetsType
  <2>4. RowsType'
    BY <1>6, FlushType DEF EndAdopt, TypeInv, RowsType
  <2>5. QueuesType'
    <3>1. CASE pc' = "upload" /\ UNCHANGED <<todo, batch, deletes>>
      BY <1>6, <3>1 DEF EndAdopt, Flush, TypeInv, QueuesType
    <3>2. CASE EnterDeletes
      BY <1>6, <3>2, EnterDeletesType, FlushType DEF EndAdopt
    <3> QED
      BY <1>6, <3>1, <3>2 DEF EndAdopt
  <2>6. RunType'
    <3>1. pc' \in {"upload", "finish", "delete"}
      BY <1>6, EnterDeletesType, FlushType DEF EndAdopt
    <3> QED
      BY <1>6, <3>1 DEF EndAdopt, TypeInv, RunType, PCs
  <2> QED
    BY <2>1, <2>2, <2>3, <2>4, <2>5, <2>6 DEF TypeInv
<1>7. ASSUME StartUploads
      PROVE  TypeInv'
  <2>1. TreesType' /\ RecordType' /\ SetsType' /\ RowsType' /\ PlanType' /\ FlagsType'
    BY <1>7, Unchanged DEF StartUploads
  <2>2. QueuesType'
    <3>1. IsFiniteSet(batch) /\ batch' = batch \ Scheduled
      BY <1>7 DEF StartUploads, TypeInv, QueuesType
    <3>2. IsFiniteSet(batch') /\ Cardinality(batch') <= Cardinality(batch)
          /\ Cardinality(batch) \in Nat /\ Cardinality(batch') \in Nat
      BY <3>1, FS_Subset, FS_CardinalityType
    <3> QED
      BY <1>7, <3>1, <3>2, LimitsAssumption DEF StartUploads, TypeInv, QueuesType
  <2>3. AnswersType'
    BY <1>7 DEF StartUploads, TypeInv, AnswersType, Answers
  <2>4. RunType'
    <3>1. Scheduled \subseteq Files
      <4>1. batch \subseteq Files /\ batch \cap Large \subseteq Files
        BY DEF TypeInv, QueuesType
      <4>2. batch \cap Large # {} => FirstFile(batch \cap Large) \in Files
        BY <4>1, FirstFileType
      <4> QED
        BY <4>1, <4>2 DEF Scheduled
    <3>2. PICK gone \in SUBSET Files : tombs' = TombsWith(gone) /\ \A file \in gone : NewlyGone(file)
      BY <1>7, <3>1 DEF StartUploads
    <3>3. tombs' \subseteq Dirs
      BY <3>2, TombsType DEF TypeInv, RunType
    <3> QED
      BY <1>7, <3>3 DEF StartUploads, TypeInv, RunType
  <2> QED
    BY <2>1, <2>2, <2>3, <2>4 DEF TypeInv
<1>8. ASSUME EndUploads
      PROVE  TypeInv'
  <2>1. TreesType' /\ RecordType' /\ SetsType' /\ RowsType' /\ PlanType' /\ AnswersType' /\ FlagsType'
    BY <1>8, Unchanged DEF EndUploads
  <2>2. QueuesType'
    <3>1. adopting \subseteq Files
      BY DEF TypeInv, QueuesType
    <3>2. CASE Finish
      BY <3>2, EndTypes
    <3>3. CASE pc' = "adopt" /\ UNCHANGED <<todo, adopting, batch, deletes>>
      BY <1>8, <3>3, FS_EmptySet, LimitsAssumption DEF EndUploads, TypeInv, QueuesType
    <3>4. CASE EnterDeletes /\ UNCHANGED adopting
      BY <3>1, <3>4, EnterDeletesType
    <3> QED
      BY <1>8, <3>2, <3>3, <3>4 DEF EndUploads
  <2>3. RunType'
    <3>1. adopting \subseteq Files
      BY DEF TypeInv, QueuesType
    <3>2. pc' \in {"adopt", "finish", "delete"}
      BY <1>8, <3>1, EnterDeletesType, EndTypes DEF EndUploads
    <3> QED
      BY <1>8, <3>2 DEF EndUploads, TypeInv, RunType, PCs
  <2> QED
    BY <2>1, <2>2, <2>3 DEF TypeInv
<1>9. ASSUME NEW file \in Files, Upload(file)
      PROVE  TypeInv'
  <2>1. RecordType' /\ SetsType' /\ RowsType' /\ PlanType'
    BY <1>9, Unchanged DEF Upload
  <2>2. TreesType'
    <3>1. file \in Paths /\ Visible(file) \in Contents
      BY VisibleType, NumberFacts, PathFacts DEF TypeInv, TreesType
    <3>2. Uploaded(file) \in [Roots -> Trees]
      BY <3>1, UploadedType DEF Uploaded, TypeInv, TreesType
    <3>3. remote' \in {remote, Uploaded(file)}
      BY <1>9 DEF Upload
    <3> QED
      BY <1>9, <3>2, <3>3 DEF Upload, TypeInv, TreesType
  <2>3. QueuesType'
    BY <1>9 DEF Upload, TypeInv, QueuesType
  <2>4. AnswersType'
    BY <1>9 DEF Upload, TypeInv, AnswersType, Answered, Answers
  <2>5. FlagsType'
    BY <1>9, FaultType DEF Upload, TypeInv, FlagsType
  <2>6. RunType'
    BY <1>9, FaultType DEF Upload, TypeInv, RunType
  <2> QED
    BY <2>1, <2>2, <2>3, <2>4, <2>5, <2>6 DEF TypeInv
<1>10. ASSUME NEW file \in Files, JoinUpload(file)
      PROVE  TypeInv'
  <2>1. TreesType' /\ PlanType'
    BY <1>10, Unchanged DEF JoinUpload
  <2>2. RecordType'
    <3>1. \/ UNCHANGED record
          \/ record' = FileState(record, file, StatusAfterUpload(file), file \in hashed)
          \/ record' = FileState(record, file, "skipped", FALSE)
      BY <1>10 DEF JoinUpload, TypeInv, AnswersType, Answers
    <3>2. record' \in Records
      BY <3>1, RecordTypes
    <3> QED
      BY <3>2 DEF RecordType, Records
  <2>3. SetsType'
    <3>1. CASE task[file] = "ok"
      <4>1. /\ sets' = [sets EXCEPT ![0][file] = scanned[file]]
            /\ bare' = (bare \ {<<0, file>>}) \cup (IF file \in hashed THEN {} ELSE {<<0, file>>})
        BY <1>10, <3>1 DEF JoinUpload
      <4>2. scanned[file] \in Contents /\ file \in Paths /\ 0 \in Roots
        BY NumberFacts, PathFacts DEF TypeInv, PlanType
      <4> QED
        BY <4>1, <4>2 DEF TypeInv, SetsType, Trees
    <3>2. CASE task[file] # "ok"
      BY <1>10, <3>2, Unchanged DEF JoinUpload, TypeInv, AnswersType, Answers
    <3> QED
      BY <3>1, <3>2
  <2>4. RowsType'
    <3>1. CASE task[file] = "ok"
      BY <1>10, <2>3, <3>1, UpsertType DEF JoinUpload
    <3>2. CASE task[file] # "ok"
      BY <1>10, <3>2, Unchanged DEF JoinUpload, TypeInv, AnswersType, Answers
    <3> QED
      BY <3>1, <3>2
  <2>5. QueuesType'
    BY <1>10 DEF JoinUpload, TypeInv, QueuesType
  <2>6. AnswersType'
    BY <1>10 DEF JoinUpload, TypeInv, AnswersType, Answered, Answers
  <2>7. FlagsType'
    BY <1>10 DEF JoinUpload, TypeInv, FlagsType, AnswersType, Answers
  <2>8. RunType'
    <3>1. NewlyGone(file) => TombsWith({file}) \subseteq Dirs
      BY TombsType DEF TypeInv, RunType
    <3>2. file \in Paths
      BY PathFacts
    <3> QED
      BY <1>10, <3>1, <3>2 DEF JoinUpload, MarkSkipped, MarkFailed, TypeInv, AnswersType, Answers, RunType
  <2> QED
    BY <2>1, <2>2, <2>3, <2>4, <2>5, <2>6, <2>7, <2>8 DEF TypeInv
<1> QED
  BY <1>1, <1>2, <1>3, <1>4, <1>5, <1>6, <1>7, <1>8, <1>9, <1>10 DEF UploadSteps

\* Deletes keep the types.
LEMMA DeleteType ==
    ASSUME TypeInv, PhaseInv, DeleteSteps
    PROVE  TypeInv'
<1> USE DEF trees, database, rows, plan, inventory, queues, summary, budgets
<1>1. ASSUME CheckDelete
      PROVE  TypeInv'
  <2>1. TreesType' /\ RecordType' /\ SetsType' /\ PlanType' /\ AnswersType'
    BY <1>1, Unchanged DEF CheckDelete
  <2>2. RowsType'
    <3>1. NextDelete[1] \in Roots /\ NextDelete[2] \in Paths
      BY <1>1, NextDeleteFacts DEF CheckDelete, DeleteReady
    <3> QED
      BY <1>1, <3>1, RowsWithoutType, Unchanged DEF CheckDelete
  <2>3. QueuesType'
    BY <1>1, EndTypes DEF CheckDelete, TypeInv, QueuesType
  <2>4. FlagsType'
    BY <1>1, FaultType DEF CheckDelete, TypeInv, FlagsType
  <2>5. RunType'
    BY <1>1, FaultType, EndTypes DEF CheckDelete, TypeInv, RunType, PCs
  <2> QED
    BY <2>1, <2>2, <2>3, <2>4, <2>5 DEF TypeInv
<1>2. ASSUME JoinDelete
      PROVE  TypeInv'
  <2>1. TreesType' /\ SetsType' /\ PlanType'
    BY <1>2, Unchanged DEF JoinDelete
  <2>2. RecordType'
    <3>1. record' = MarkDeleted(NextDelete[2]) \/ record' = record
      BY <1>2 DEF JoinDelete, TypeInv, AnswersType
    <3> QED
      BY <3>1, RecordTypes DEF RecordType, Records
  <2>3. RowsType'
    <3>1. NextDelete[1] \in Roots /\ NextDelete[2] \in Paths
      BY <1>2, NextDeleteFacts DEF JoinDelete, PhaseInv
    <3> QED
      BY <1>2, <3>1, RowsWithoutType, Unchanged DEF JoinDelete, TypeInv, AnswersType
  <2>4. QueuesType'
    BY <1>2, EndTypes DEF JoinDelete, TypeInv, QueuesType, AnswersType
  <2>5. AnswersType'
    BY <1>2 DEF JoinDelete, TypeInv, AnswersType
  <2>6. FlagsType'
    BY <1>2 DEF JoinDelete, TypeInv, FlagsType, AnswersType
  <2>7. RunType'
    BY <1>2, EndTypes DEF JoinDelete, TypeInv, RunType, PCs, AnswersType
  <2> QED
    BY <2>1, <2>2, <2>3, <2>4, <2>5, <2>6, <2>7 DEF TypeInv
<1>3. ASSUME EndDeletes
      PROVE  TypeInv'
  <2>1. TreesType' /\ RecordType' /\ SetsType' /\ RowsType' /\ PlanType' /\ AnswersType' /\ FlagsType'
    BY <1>3, Unchanged DEF EndDeletes
  <2>2. QueuesType'
    BY <1>3, EndTypes DEF EndDeletes, TypeInv, QueuesType
  <2>3. RunType'
    BY <1>3, EndTypes DEF EndDeletes, TypeInv, RunType, PCs
  <2> QED
    BY <2>1, <2>2, <2>3 DEF TypeInv
<1>4. ASSUME SendDelete
      PROVE  TypeInv'
  <2>1. NextDelete[1] \in Roots /\ NextDelete[2] \in Paths
    BY <1>4, NextDeleteFacts DEF SendDelete, DeleteReady
  <2>2. [remote EXCEPT ![NextDelete[1]] = Without(@, NextDelete[2])] \in [Roots -> Trees]
    BY <2>1, RemovedType DEF TypeInv, TreesType
  <2> QED
    BY <1>4, <2>2, RequestType DEF SendDelete
<1> QED
  BY <1>1, <1>2, <1>3, <1>4 DEF DeleteSteps

\* Faults keep the types.
LEMMA FaultStepsType ==
    ASSUME TypeInv, PhaseInv, FaultSteps
    PROVE  TypeInv'
<1> USE DEF trees, database, rows, plan, inventory, queues, summary, budgets
<1>1. ASSUME CollisionFails
      PROVE  TypeInv'
  <2>1. TreesType' /\ RecordType' /\ SetsType' /\ RowsType' /\ PlanType' /\ AnswersType'
    BY <1>1, Unchanged DEF CollisionFails
  <2>2. QueuesType'
    BY <1>1, EndTypes DEF CollisionFails, TypeInv, QueuesType, FailRoot
  <2>3. FlagsType'
    BY <1>1, FaultType DEF CollisionFails, TypeInv, FlagsType, FailRoot
  <2>4. RunType'
    BY <1>1, EndTypes, FaultType DEF CollisionFails, TypeInv, RunType, FailRoot, PCs
  <2> QED
    BY <2>1, <2>2, <2>3, <2>4 DEF TypeInv
<1>2. ASSUME QuotaExceeded
      PROVE  TypeInv'
  <2>1. TreesType' /\ PlanType' /\ AnswersType'
    BY <1>2, Unchanged DEF QuotaExceeded
  <2>2. RecordType'
    BY <1>2, RecordTypes DEF QuotaExceeded, TypeInv, RecordType, Records
  <2>3. SetsType'
    BY <1>2, FlushType DEF QuotaExceeded, TypeInv, SetsType
  <2>4. RowsType'
    BY <1>2, FlushType DEF QuotaExceeded, TypeInv, RowsType
  <2>5. QueuesType'
    BY <1>2, EndTypes DEF QuotaExceeded, TypeInv, QueuesType, FailRoot
  <2>6. FlagsType'
    BY <1>2, FaultType DEF QuotaExceeded, TypeInv, FlagsType, FailRoot
  <2>7. RunType'
    BY <1>2, FaultType, EndTypes DEF QuotaExceeded, TypeInv, RunType, FailRoot, PCs
  <2> QED
    BY <2>1, <2>2, <2>3, <2>4, <2>5, <2>6, <2>7 DEF TypeInv
<1>3. ASSUME Cancel
      PROVE  TypeInv'
  <2>1. TreesType' /\ RecordType' /\ SetsType' /\ RowsType' /\ PlanType' /\ AnswersType'
    BY <1>3, Unchanged DEF Cancel
  <2>2. QueuesType'
    BY <1>3 DEF Cancel, TypeInv, QueuesType
  <2>3. FlagsType'
    BY <1>3, FaultType DEF Cancel, TypeInv, FlagsType
  <2>4. RunType'
    BY <1>3, FaultType DEF Cancel, TypeInv, RunType
  <2> QED
    BY <2>1, <2>2, <2>3, <2>4 DEF TypeInv
<1>4. ASSUME Unmount
      PROVE  TypeInv'
  <2>1. RecordType' /\ SetsType' /\ RowsType' /\ PlanType' /\ AnswersType'
    BY <1>4, Unchanged DEF Unmount
  <2>2. TreesType'
    BY <1>4, NumberFacts DEF Unmount, TypeInv, TreesType
  <2>3. QueuesType'
    BY <1>4 DEF Unmount, TypeInv, QueuesType
  <2>4. FlagsType'
    BY <1>4, FaultType DEF Unmount, TypeInv, FlagsType
  <2>5. RunType'
    BY <1>4, FaultType DEF Unmount, TypeInv, RunType
  <2> QED
    BY <2>1, <2>2, <2>3, <2>4, <2>5 DEF TypeInv
<1>5. ASSUME Mount
      PROVE  TypeInv'
  <2>1. RecordType' /\ SetsType' /\ RowsType' /\ PlanType' /\ AnswersType' /\ FlagsType'
    BY <1>5, Unchanged DEF Mount
  <2>2. TreesType'
    BY <1>5, NumberFacts DEF Mount, TypeInv, TreesType
  <2>3. QueuesType'
    BY <1>5 DEF Mount, TypeInv, QueuesType
  <2>4. RunType'
    BY <1>5 DEF Mount, TypeInv, RunType
  <2> QED
    BY <2>1, <2>2, <2>3, <2>4 DEF TypeInv
<1>6. ASSUME NEW kind \in FaultKinds, LoadFails(kind)
      PROVE  TypeInv'
  <2>1. TreesType' /\ RecordType' /\ SetsType' /\ PlanType' /\ AnswersType'
    BY <1>6, Unchanged DEF LoadFails
  <2>2. RowsType'
    BY <1>6 DEF LoadFails, TypeInv, RowsType
  <2>3. QueuesType'
    BY <1>6, EndTypes DEF LoadFails, TypeInv, QueuesType, FailRoot, PartialFailRoot
  <2>4. FlagsType'
    BY <1>6, FaultType DEF LoadFails, TypeInv, FlagsType, FailRoot, PartialFailRoot
  <2>5. RunType'
    BY <1>6, EndTypes, FaultType DEF LoadFails, TypeInv, RunType, FailRoot, PartialFailRoot, PCs
  <2> QED
    BY <2>1, <2>2, <2>3, <2>4, <2>5 DEF TypeInv
<1>7. ASSUME NEW kind \in FaultKinds, ParentOrListingFails(kind)
      PROVE  TypeInv'
  <2>1. RecordType' /\ RowsType'
    BY <1>7, Unchanged DEF ParentOrListingFails
  <2>2. TreesType'
    BY <1>7, DroppedType DEF ParentOrListingFails, TypeInv, TreesType, RunFails
  <2>3. SetsType'
    BY <1>7, EndTypes DEF ParentOrListingFails, TypeInv, SetsType, RunFails
  <2>4. PlanType'
    BY <1>7, EndTypes DEF ParentOrListingFails, TypeInv, PlanType, RunFails
  <2>5. QueuesType'
    BY <1>7, EndTypes DEF ParentOrListingFails, TypeInv, QueuesType, RunFails
  <2>6. AnswersType'
    BY <1>7, EndTypes DEF ParentOrListingFails, TypeInv, AnswersType, RunFails
  <2>7. FlagsType'
    BY <1>7, EndTypes, FaultType DEF ParentOrListingFails, TypeInv, FlagsType, RunFails
  <2>8. RunType'
    BY <1>7, EndTypes, FaultType DEF ParentOrListingFails, TypeInv, RunType, RunFails, PCs, Outcomes
  <2> QED
    BY <2>1, <2>2, <2>3, <2>4, <2>5, <2>6, <2>7, <2>8 DEF TypeInv
<1>8. ASSUME NEW kind \in FaultKinds, Interrupted(kind)
      PROVE  TypeInv'
  <2>1. RowsType'
    BY <1>8, Unchanged DEF Interrupted
  <2>2. TreesType'
    BY <1>8, DroppedType DEF Interrupted, TypeInv, TreesType, RunFails
  <2>3. RecordType'
    <3>1. CASE UNCHANGED record
      BY <3>1, Unchanged
    <3>2. CASE record' = FlushedRecords
      BY <3>2, RecordTypes DEF RecordType, Records
    <3>3. ASSUME NEW file \in Files,
                 record' = FileState(record, file, StatusAfterUpload(file), file \in hashed)
          PROVE  RecordType'
      <4>1. record' \in Records
        BY <3>3, RecordTypes
      <4> QED
        BY <4>1 DEF RecordType, Records
    <3> QED
      BY <1>8, <3>1, <3>2, <3>3 DEF Interrupted
  <2>4. SetsType'
    BY <1>8, EndTypes DEF Interrupted, TypeInv, SetsType, RunFails
  <2>5. PlanType'
    BY <1>8, EndTypes DEF Interrupted, TypeInv, PlanType, RunFails
  <2>6. QueuesType'
    BY <1>8, EndTypes DEF Interrupted, TypeInv, QueuesType, RunFails
  <2>7. AnswersType'
    BY <1>8, EndTypes DEF Interrupted, TypeInv, AnswersType, RunFails
  <2>8. FlagsType'
    BY <1>8, EndTypes, FaultType DEF Interrupted, TypeInv, FlagsType, RunFails
  <2>9. RunType'
    BY <1>8, EndTypes, FaultType DEF Interrupted, TypeInv, RunType, RunFails, PCs, Outcomes
  <2> QED
    BY <2>1, <2>2, <2>3, <2>4, <2>5, <2>6, <2>7, <2>8, <2>9 DEF TypeInv
<1>9. ASSUME NEW root \in Roots, NEW dir \in Dirs, ListingNotFound(root, dir)
      PROVE  TypeInv'
  <2>1. RecordType' /\ RowsType' /\ AnswersType'
    BY <1>9, Unchanged DEF ListingNotFound
  <2>2. TreesType'
    BY <1>9, RemovedType, PathFacts DEF ListingNotFound, TypeInv, TreesType
  <2>3. SetsType'
    BY <1>9, TreeTypes DEF ListingNotFound, TypeInv, SetsType, TreesType
  <2>4. PlanType'
    BY <1>9 DEF ListingNotFound, TypeInv, PlanType
  <2>5. QueuesType'
    BY <1>9 DEF ListingNotFound, TypeInv, QueuesType
  <2>6. FlagsType'
    BY <1>9, FaultType DEF ListingNotFound, TypeInv, FlagsType
  <2>7. RunType'
    BY <1>9, FaultType DEF ListingNotFound, TypeInv, RunType, PCs
  <2> QED
    BY <2>1, <2>2, <2>3, <2>4, <2>5, <2>6, <2>7 DEF TypeInv
<1>10. ASSUME NEW root \in Roots, NEW path \in Paths, RemoveRemote(root, path)
      PROVE  TypeInv'
  <2>1. RecordType' /\ SetsType' /\ RowsType' /\ PlanType' /\ AnswersType'
    BY <1>10, Unchanged DEF RemoveRemote
  <2>2. TreesType'
    BY <1>10, RemovedType DEF RemoveRemote, TypeInv, TreesType
  <2>3. QueuesType'
    BY <1>10 DEF RemoveRemote, TypeInv, QueuesType
  <2>4. FlagsType'
    BY <1>10, FaultType DEF RemoveRemote, TypeInv, FlagsType
  <2>5. RunType'
    BY <1>10, FaultType DEF RemoveRemote, TypeInv, RunType
  <2> QED
    BY <2>1, <2>2, <2>3, <2>4, <2>5 DEF TypeInv
<1> QED
  BY <1>1, <1>2, <1>3, <1>4, <1>5, <1>6, <1>7, <1>8, <1>9, <1>10 DEF FaultSteps

\* Edits keep the types.
LEMMA EditType ==
    ASSUME TypeInv, PhaseInv, EditSteps
    PROVE  TypeInv'
<1> USE DEF trees, database, rows, plan, inventory, queues, summary, budgets
<1>1. ASSUME NEW file \in Files, WriteLocal(file)
      PROVE  TypeInv'
  <2>1. RecordType' /\ SetsType' /\ RowsType' /\ PlanType' /\ AnswersType'
    BY <1>1, Unchanged DEF WriteLocal, Edit
  <2>2. TreesType'
    BY <1>1, LimitsAssumption, PathFacts DEF WriteLocal, TypeInv, TreesType, Edit, Versions
  <2>3. QueuesType'
    BY <1>1 DEF WriteLocal, TypeInv, QueuesType, Edit
  <2>4. FlagsType'
    BY <1>1, FaultType DEF WriteLocal, TypeInv, FlagsType, Edit
  <2>5. RunType'
    BY <1>1, FaultType, PathFacts DEF WriteLocal, TypeInv, RunType, Edit
  <2> QED
    BY <2>1, <2>2, <2>3, <2>4, <2>5 DEF TypeInv
<1>2. ASSUME NEW path \in Paths, RemoveLocal(path)
      PROVE  TypeInv'
  <2>1. RecordType' /\ SetsType' /\ RowsType' /\ PlanType' /\ AnswersType'
    BY <1>2, Unchanged DEF RemoveLocal, Edit
  <2>2. TreesType'
    BY <1>2, NumberFacts DEF RemoveLocal, TypeInv, TreesType, Edit, Without
  <2>3. QueuesType'
    BY <1>2 DEF RemoveLocal, TypeInv, QueuesType, Edit
  <2>4. FlagsType'
    BY <1>2, FaultType DEF RemoveLocal, TypeInv, FlagsType, Edit
  <2>5. RunType'
    BY <1>2, FaultType, PathFacts DEF RemoveLocal, TypeInv, RunType, Edit
  <2> QED
    BY <2>1, <2>2, <2>3, <2>4, <2>5 DEF TypeInv
<1> QED
  BY <1>1, <1>2 DEF EditSteps

\* Every step keeps the types, if it finds the phase in order.
LEMMA NextType == TypeInv /\ PhaseInv /\ [Next]_vars => TypeInv'
<1>1. TypeInv /\ UNCHANGED vars => TypeInv'
  <2> SUFFICES ASSUME TypeInv, UNCHANGED vars PROVE TypeInv'
    OBVIOUS
  <2> USE DEF vars, trees, database, rows, plan, inventory, queues, summary, budgets
  <2>1. QueuesType' /\ RunType'
    BY DEF TypeInv, QueuesType, RunType
  <2> QED
    BY <2>1, Unchanged DEF TypeInv
<1> QED
  BY <1>1, ScanType, MoveType, UploadType, DeleteType, FaultStepsType, EditType DEF Next, EngineSteps

\* Init has the types.
LEMMA InitType == Init => TypeInv
<1> SUFFICES ASSUME Init PROVE TypeInv
  OBVIOUS
<1>1. TreesType
  <2>1. local \in [Paths -> Versions]
    BY NumberFacts DEF Init
  <2>2. last \in [Files -> Versions]
    BY <2>1, PathFacts DEF Init
  <2>3. remote \in [Roots -> Trees]
    <3>1. \A root \in Roots : Starts[root] \subseteq Trees
      BY TreesAssumption
    <3>2. remote \in [Roots -> UNION { Starts[root] : root \in Roots }]
      BY DEF Init
    <3> QED
      BY <3>1, <3>2
  <2> QED
    BY <2>1, <2>2, <2>3 DEF TreesType
<1>2. RecordType /\ RowsType
  BY NumberFacts, TreeTypes DEF Init, RecordType, RowsType, RecordStatuses
<1>3. PlanType /\ SetsType
  BY NumberFacts, TreeTypes DEF Init, PlanType, SetsType
<1>4. QueuesType
  BY FS_EmptySet, LimitsAssumption DEF Init, QueuesType
<1>5. AnswersType /\ FlagsType
  BY DEF Init, AnswersType, FlagsType, NoTasks, Answers
<1>6. RunType
  BY LimitsAssumption DEF Init, RunType, PCs, Outcomes
<1> QED
  BY <1>1, <1>2, <1>3, <1>4, <1>5, <1>6 DEF TypeInv

-----------------------------------------------------------------------------
(* The phases.                                                               *)

\* A step that leaves the queues alone keeps the phase in order.
LEMMA SamePhase ==
    ASSUME PhaseInv, UNCHANGED <<pc, live, todo, adopting, batch, deletes, task, answer, sets>>
    PROVE  PhaseInv'
<1>1. PresentLegacies' = PresentLegacies /\ NextFile' = NextFile /\ Merges(NextFile)' = Merges(NextFile)
  BY DEF PresentLegacies, NextFile, FirstFile, Merges, LegacyWith
<1> QED
  BY <1>1 DEF PhaseInv

\* In the phases without uploads there are no tasks.
NoTask == \A file \in Files : task[file] = "none"

\* The ends of a root and of a run leave nothing in the queues.
LEMMA EndPhase ==
    ASSUME PhaseInv
    PROVE  /\ Finish /\ answer' = "none" /\ UNCHANGED task /\ NoTask => PhaseInv'
           /\ EndRun => PhaseInv'
  BY DEF PhaseInv, Finish, EndRun, NoTask, NoTasks

\* Every step leaves the phase in order.
LEMMA NextPhase == TypeInv /\ PhaseInv /\ [Next]_vars => PhaseInv'
<1> SUFFICES ASSUME TypeInv, PhaseInv, [Next]_vars
             PROVE  PhaseInv'
  OBVIOUS
<1> USE DEF trees, database, rows, plan, inventory, queues, summary, budgets
<1>1. ASSUME StartRun
      PROVE  PhaseInv'
  BY <1>1, EndPhase DEF StartRun, PhaseInv, NoTask
<1>2. ASSUME RecordMissingRoot
      PROVE  PhaseInv'
  BY <1>2, SamePhase DEF RecordMissingRoot
<1>3. ASSUME FinishRun
      PROVE  PhaseInv'
  BY <1>3, EndPhase DEF FinishRun, PhaseInv, NoTask
<1>4. ASSUME NEW unreadable \in SUBSET LocalDirs, NEW busy \in SUBSET Files, Scan(unreadable, busy)
      PROVE  PhaseInv'
  BY <1>4, EndPhase DEF Scan, PhaseInv, NoTask
<1>5. ASSUME BuildLivePlan
      PROVE  PhaseInv'
  BY <1>5, EndPhase DEF BuildLivePlan, PhaseInv, NoTask
<1>6. ASSUME LoadCached
      PROVE  PhaseInv'
  BY <1>6, EndPhase DEF LoadCached, PhaseInv, NoTask
<1>7. ASSUME LoadFresh
      PROVE  PhaseInv'
  BY <1>7, EndPhase DEF LoadFresh, PhaseInv, NoTask
<1>8. ASSUME RecordRows
      PROVE  PhaseInv'
  BY <1>8, EndPhase DEF RecordRows, PhaseInv, NoTask
<1>9. ASSUME RecordStatus
      PROVE  PhaseInv'
  BY <1>9, EndPhase DEF RecordStatus, PhaseInv, NoTask
<1>10. ASSUME NoTopMove
      PROVE  PhaseInv'
  BY <1>10, EndPhase, PathFacts DEF NoTopMove, EnterDirs, Finish, TypeInv, PlanType, PhaseInv, NoTask
<1>11. ASSUME JoinTopMove
      PROVE  PhaseInv'
  BY <1>11, EndPhase, PathFacts DEF JoinTopMove, EnterDirs, Finish, TypeInv, AnswersType, MigrationFailure, PresentLegacies, PhaseInv, NoTask
<1>12. ASSUME Relist
      PROVE  PhaseInv'
  BY <1>12, EndPhase, PathFacts DEF Relist, EnterDirs, Finish, PhaseInv, NoTask
<1>13. ASSUME JoinCreate
      PROVE  PhaseInv'
  BY <1>13, EndPhase DEF JoinCreate, PhaseInv, NoTask
<1>14. ASSUME CreateFails
      PROVE  PhaseInv'
  BY <1>14, EndPhase DEF CreateFails, RunFails, PhaseInv, NoTask
<1>15. ASSUME EndDirs
      PROVE  PhaseInv'
  BY <1>15, EndPhase DEF EndDirs, PhaseInv, NoTask
<1>16. ASSUME MergeSkips
      PROVE  PhaseInv'
  BY <1>16, EndPhase DEF MergeSkips, MergeReady, PhaseInv, NoTask
<1>17. ASSUME MergeComparisonFails
      PROVE  PhaseInv'
  BY <1>17, EndPhase DEF MergeComparisonFails, MergeReady, PhaseInv, NoTask
<1>18. ASSUME JoinMergeMove
      PROVE  PhaseInv'
  BY <1>18, EndPhase DEF JoinMergeMove, TypeInv, AnswersType, Finish, PhaseInv, NoTask
<1>19. ASSUME EndMerge
      PROVE  PhaseInv'
  BY <1>19, EndPhase DEF EndMerge, PhaseInv, NoTask
<1>20. ASSUME SendTopMove
      PROVE  PhaseInv'
  BY <1>20, EndPhase DEF SendTopMove, TopMovePossible, PresentLegacies, Request, PhaseInv, NoTask
<1>21. ASSUME SendCreate
      PROVE  PhaseInv'
  BY <1>21, EndPhase DEF SendCreate, Request, PhaseInv, NoTask
<1>22. ASSUME SendMergeMove
      PROVE  PhaseInv'
  BY <1>22, EndPhase DEF SendMergeMove, MergeReady, Merges, LegacyWith, NextFile, FirstFile, Request, PhaseInv, NoTask
<1>23. ASSUME AdoptSkips
      PROVE  PhaseInv'
  BY <1>23, EndPhase DEF AdoptSkips, AdoptReady, PhaseInv, NoTask
<1>24. ASSUME AdoptFindsGone
      PROVE  PhaseInv'
  BY <1>24, EndPhase DEF AdoptFindsGone, AdoptReady, Flush, PhaseInv, NoTask
<1>25. ASSUME Adopt
      PROVE  PhaseInv'
  BY <1>25, EndPhase, NextFileType DEF Adopt, AdoptReady, PhaseInv, NoTask
<1>26. ASSUME AdoptComparisonFails
      PROVE  PhaseInv'
  BY <1>26, EndPhase DEF AdoptComparisonFails, AdoptReady, Flush, PhaseInv, NoTask
<1>27. ASSUME QueueUpload
      PROVE  PhaseInv'
  BY <1>27, EndPhase, NextFileType DEF QueueUpload, AdoptReady, Flush, PhaseInv, NoTask
<1>28. ASSUME EndAdopt
      PROVE  PhaseInv'
  BY <1>28, EndPhase DEF EndAdopt, Flush, EnterDeletes, Finish, PhaseInv, NoTask
<1>29. ASSUME StartUploads
      PROVE  PhaseInv'
  <2>1. Scheduled \subseteq batch
    <3>1. batch \subseteq Files /\ batch \cap Large \subseteq Files
      BY DEF TypeInv, QueuesType
    <3>2. batch \cap Large # {} => FirstFile(batch \cap Large) \in batch
      BY <3>1, FirstFileType
    <3> QED
      BY <3>2 DEF Scheduled
  <2>2. \A file \in Files : task'[file] # "none" => file \in Scheduled
    BY <1>29 DEF StartUploads
  <2>3. UNCHANGED <<pc, live, todo, adopting, deletes, answer, sets>> /\ batch' \subseteq batch /\ pc = "upload" /\ batch # {}
    BY <1>29 DEF StartUploads
  <2>4. PresentLegacies' = PresentLegacies
    BY <2>3 DEF PresentLegacies
  <2> QED
    BY <2>1, <2>2, <2>3, <2>4 DEF PhaseInv
<1>30. ASSUME EndUploads
      PROVE  PhaseInv'
  BY <1>30, EndPhase DEF EndUploads, Uploading, NoTasks, EnterDeletes, Finish, PhaseInv, NoTask
<1>31. ASSUME NEW file \in Files, Upload(file)
      PROVE  PhaseInv'
  BY <1>31, EndPhase DEF Upload, Answered, TypeInv, AnswersType, PhaseInv, NoTask
<1>32. ASSUME NEW file \in Files, JoinUpload(file)
      PROVE  PhaseInv'
  BY <1>32, EndPhase DEF JoinUpload, Answered, TypeInv, AnswersType, PhaseInv, NoTask
<1>33. ASSUME CheckDelete
      PROVE  PhaseInv'
  BY <1>33, EndPhase DEF CheckDelete, DeleteReady, Finish, PhaseInv, NoTask
<1>34. ASSUME JoinDelete
      PROVE  PhaseInv'
  BY <1>34, EndPhase DEF JoinDelete, TypeInv, AnswersType, Finish, PhaseInv, NoTask
<1>35. ASSUME EndDeletes
      PROVE  PhaseInv'
  BY <1>35, EndPhase DEF EndDeletes, PhaseInv, NoTask
<1>36. ASSUME SendDelete
      PROVE  PhaseInv'
  BY <1>36, EndPhase DEF SendDelete, DeleteReady, Request, PhaseInv, NoTask
<1>37. ASSUME CollisionFails
      PROVE  PhaseInv'
  BY <1>37, EndPhase DEF CollisionFails, FailRoot, PhaseInv, NoTask
<1>38. ASSUME QuotaExceeded
      PROVE  PhaseInv'
  BY <1>38, EndPhase DEF QuotaExceeded, AdoptReady, FailRoot, PhaseInv, NoTask
<1>39. ASSUME Cancel
      PROVE  PhaseInv'
  BY <1>39, SamePhase DEF Cancel
<1>40. ASSUME Unmount
      PROVE  PhaseInv'
  BY <1>40, SamePhase DEF Unmount
<1>41. ASSUME Mount
      PROVE  PhaseInv'
  BY <1>41, SamePhase DEF Mount
<1>42. ASSUME NEW kind \in FaultKinds, LoadFails(kind)
      PROVE  PhaseInv'
  BY <1>42, EndPhase DEF LoadFails, FailRoot, PartialFailRoot, PhaseInv, NoTask
<1>43. ASSUME NEW kind \in FaultKinds, ParentOrListingFails(kind)
      PROVE  PhaseInv'
  BY <1>43, EndPhase DEF ParentOrListingFails, RunFails, PhaseInv, NoTask
<1>44. ASSUME NEW kind \in FaultKinds, Interrupted(kind)
      PROVE  PhaseInv'
  BY <1>44, EndPhase DEF Interrupted, PhaseInv, NoTask
<1>45. ASSUME NEW root \in Roots, NEW dir \in Dirs, ListingNotFound(root, dir)
      PROVE  PhaseInv'
  BY <1>45, EndPhase DEF ListingNotFound, PhaseInv, NoTask
<1>46. ASSUME NEW root \in Roots, NEW path \in Paths, RemoveRemote(root, path)
      PROVE  PhaseInv'
  BY <1>46, SamePhase DEF RemoveRemote
<1>47. ASSUME NEW file \in Files, WriteLocal(file)
      PROVE  PhaseInv'
  BY <1>47, SamePhase DEF WriteLocal, Edit
<1>48. ASSUME NEW path \in Paths, RemoveLocal(path)
      PROVE  PhaseInv'
  BY <1>48, SamePhase DEF RemoveLocal, Edit
<1>49. CASE UNCHANGED vars
  BY <1>49, SamePhase DEF vars
<1>50. CASE StartRun \/ RecordMissingRoot \/ FinishRun \/ ScanSteps
  BY <1>50, <1>1, <1>2, <1>3, <1>4, <1>5, <1>6, <1>7, <1>8, <1>9 DEF ScanSteps
<1>51. CASE MoveSteps
  BY <1>51, <1>10, <1>11, <1>12, <1>13, <1>14, <1>15, <1>16, <1>17, <1>18, <1>19, <1>20, <1>21, <1>22 DEF MoveSteps
<1>52. CASE UploadSteps
  BY <1>52, <1>23, <1>24, <1>25, <1>26, <1>27, <1>28, <1>29, <1>30, <1>31, <1>32 DEF UploadSteps
<1>53. CASE DeleteSteps
  BY <1>53, <1>33, <1>34, <1>35, <1>36 DEF DeleteSteps
<1>54. CASE FaultSteps
  BY <1>54, <1>37, <1>38, <1>39, <1>40, <1>41, <1>42, <1>43, <1>44, <1>45, <1>46 DEF FaultSteps
<1>55. CASE EditSteps
  BY <1>55, <1>47, <1>48 DEF EditSteps
<1> QED
  BY <1>49, <1>50, <1>51, <1>52, <1>53, <1>54, <1>55 DEF Next, EngineSteps

\* In the beginning no phase has begun.
LEMMA InitPhase == Init => PhaseInv
  BY DEF Init, PhaseInv, NoTasks

\* Every variable of the migration keeps its type: versions stay below MaxVersion, a
\* batch never exceeds upload_concurrency, and NextFile, NextDir, First and NextDelete
\* are only asked of queues that have a next element.
THEOREM TypeCorrect == Spec => []TypeOK
<1>1. Init => TypeInv /\ PhaseInv
  BY InitType, InitPhase
<1>2. TypeInv /\ PhaseInv /\ [Next]_vars => (TypeInv /\ PhaseInv)'
  BY NextType, NextPhase
<1> QED
  BY <1>1, <1>2, TypeParts, PTL DEF Spec

-----------------------------------------------------------------------------
(* The canonical root.                                                       *)

\* Without a root there is no tree.
LEMMA NoRootNoTree ==
    ASSUME TypeInv, Rooted, remote[0][<<>>] = 0
    PROVE  remote[0] = Empty /\ Listed(remote[0]) = Empty
<1>1. remote[0] \in Trees
  BY NumberFacts DEF TypeInv, TreesType
<1>2. \A path \in Paths : remote[0][path] = 0
  BY NumberFacts DEF Rooted
<1>3. remote[0] = Empty
  BY <1>1, <1>2 DEF Trees, Empty
<1> QED
  BY <1>2, <1>3 DEF Listed, Empty

\* A step that leaves the disk alone and learns nothing of a canonical tree keeps the
\* invariant.
LEMMA RootKept ==
    ASSUME RootInv, UNCHANGED remote,
           remote[0][<<>>] = 0 /\ NothingKnown => NothingKnown'
    PROVE  RootInv'
  BY DEF RootInv, Rooted

\* A flush without adoptions does nothing.
LEMMA FlushNothing ==
    ASSUME TypeInv, Flush, adopting = {}
    PROVE  FlushedRecords = record /\ cache' = cache
<1>1. FlushedRecords = record
  BY DEF FlushedRecords, TypeInv, RecordType
<1>2. cache \in [Roots -> Trees] /\ cache[0] \in Trees
  BY NumberFacts DEF TypeInv, RowsType
<1>3. [path \in Paths |-> IF path \in adopting THEN sets'[0][path] ELSE cache[0][path]] = cache[0]
  BY <1>2 DEF Trees
<1>4. cache' = [cache EXCEPT ![0] = cache[0]]
  BY <1>2, <1>3 DEF Flush, UpsertRows
<1> QED
  BY <1>1, <1>2, <1>4

\* Nothing can be taken from the rows of an empty tree.
LEMMA EmptyStaysEmpty ==
    ASSUME cache \in [Roots -> Trees], NEW root \in Roots, NEW path \in Paths,
           RowsWithout(root, path), cache[0] = Empty
    PROVE  cache'[0] = Empty
<1>1. Without(Empty, path) = Empty
  BY DEF Without, Empty
<1> QED
  BY <1>1, NumberFacts DEF RowsWithout

\* Without uploads nothing is dropped.
LEMMA NothingDropped ==
    ASSUME TypeInv, Dropped, \A file \in Files : task[file] = "none"
    PROVE  UNCHANGED remote
<1>1. /\ remote' \in [Roots -> Trees] /\ \A other \in Roots \ {0} : remote'[other] = remote[other]
      /\ \A path \in Paths : remote'[0][path] = remote[0][path]
  BY DroppedType DEF TypeInv, TreesType
<1>2. remote'[0] \in Trees /\ remote[0] \in Trees /\ 0 \in Roots /\ remote \in [Roots -> Trees]
  BY <1>1, NumberFacts DEF TypeInv, TreesType
<1>3. remote'[0] = remote[0]
  BY <1>1, <1>2 DEF Trees
<1> QED
  BY <1>1, <1>2, <1>3

\* The root is above every path.
LEMMA RootCovers == \A path \in Paths : Covers(<<>>, path)
  BY PathFacts, CoversPointwise

\* A directory in the canonical tree has the root above it.
LEMMA RootOfParent ==
    ASSUME RootInv, NEW path \in Paths \ {<<>>}, remote[0][Parent(path)] # 0
    PROVE  remote[0][<<>>] # 0
<1>1. Parent(path) \in Paths /\ 0 \in Roots
  BY AboveIsDirectory, PathFacts, NumberFacts
<1> QED
  BY <1>1 DEF RootInv, Rooted

\* Nobody removes the canonical root: the run itself never does, somebody else may.
CanonicalRootStays == remote[0][<<>>] # 0 => remote'[0][<<>>] # 0

\* As long as it stays, every step keeps the invariant.
LEMMA NextRoot ==
    ASSUME TypeInv, PhaseInv, RootInv, [CanonicalRootStays]_vars, [Next]_vars
    PROVE  RootInv'
<1> USE DEF trees, database, rows, plan, inventory, queues, summary, budgets
<1>1. ASSUME StartRun
      PROVE  RootInv'
  BY <1>1, RootKept DEF StartRun, NothingKnown, PhaseInv
<1>2. ASSUME RecordMissingRoot
      PROVE  RootInv'
  BY <1>2, RootKept DEF RecordMissingRoot, NothingKnown, PhaseInv
<1>3. ASSUME FinishRun
      PROVE  RootInv'
  BY <1>3, RootKept, NumberFacts DEF FinishRun, EndRun, NoTasks, NothingKnown, PhaseInv
<1>4. ASSUME NEW unreadable \in SUBSET LocalDirs, NEW busy \in SUBSET Files, Scan(unreadable, busy)
      PROVE  RootInv'
  BY <1>4, RootKept DEF Scan, NothingKnown, PhaseInv
<1>5. ASSUME BuildLivePlan
      PROVE  RootInv'
  BY <1>5, RootKept DEF BuildLivePlan, NothingKnown, PhaseInv
<1>6. ASSUME LoadCached
      PROVE  RootInv'
  BY <1>6, RootKept DEF LoadCached, NothingKnown, PhaseInv
<1>7. ASSUME LoadFresh
      PROVE  RootInv'
  <2>1. sets'[0] = Listed(remote[0])
    BY <1>7, NumberFacts DEF LoadFresh
  <2>2. remote[0][<<>>] = 0 => sets'[0] = Empty
    BY <2>1, NoRootNoTree DEF RootInv
  <2> QED
    BY <1>7, <2>2, RootKept DEF LoadFresh, NothingKnown, PhaseInv
<1>8. ASSUME RecordRows
      PROVE  RootInv'
  BY <1>8, RootKept DEF RecordRows, NothingKnown, PhaseInv
<1>9. ASSUME RecordStatus
      PROVE  RootInv'
  BY <1>9, RootKept DEF RecordStatus, NothingKnown, PhaseInv
<1>10. ASSUME NoTopMove
      PROVE  RootInv'
  BY <1>10, RootKept DEF NoTopMove, EnterDirs, Finish, NothingKnown, PhaseInv
<1>11. ASSUME JoinTopMove
      PROVE  RootInv'
  BY <1>11, RootKept DEF JoinTopMove, EnterDirs, Finish, MigrationFailure, TypeInv, AnswersType, NothingKnown, PhaseInv
<1>12. ASSUME Relist
      PROVE  RootInv'
  <2>1. First(PresentLegacies) \in Roots \ {0}
    BY <1>12, FirstType, NumberFacts DEF Relist, PhaseInv, PresentLegacies
  <2>2. sets'[0] = remote[0]
    BY <1>12, <2>1, NumberFacts DEF Relist, TypeInv, SetsType
  <2>3. remote[0][<<>>] = 0 => sets'[0] = Empty
    BY <2>2, NoRootNoTree DEF RootInv
  <2> QED
    BY <1>12, <2>3, RootKept DEF Relist, NothingKnown, EnterDirs, Finish, PhaseInv
<1>13. ASSUME JoinCreate
      PROVE  RootInv'
  BY <1>13, RootKept DEF JoinCreate, NothingKnown, PhaseInv
<1>14. ASSUME CreateFails
      PROVE  RootInv'
  <2>1. UNCHANGED remote
    BY <1>14, NothingDropped DEF CreateFails, RunFails, PhaseInv
  <2> QED
    BY <1>14, <2>1, RootKept, NumberFacts DEF CreateFails, RunFails, EndRun, NoTasks, NothingKnown
<1>15. ASSUME EndDirs
      PROVE  RootInv'
  BY <1>15, RootKept DEF EndDirs, Finish, NothingKnown, PhaseInv
<1>16. ASSUME MergeSkips
      PROVE  RootInv'
  BY <1>16, RootKept DEF MergeSkips, NothingKnown, PhaseInv
<1>17. ASSUME MergeComparisonFails
      PROVE  RootInv'
  BY <1>17, RootKept DEF MergeComparisonFails, MergeReady, ProcessingFailure, FileState, FileStateRecord, TypeInv, RecordType, NothingKnown, PhaseInv
<1>18. ASSUME JoinMergeMove
      PROVE  RootInv'
  <2>1. CASE answer = "ok"
    BY <1>18, <2>1, RootKept DEF JoinMergeMove, NothingKnown
  <2>2. CASE answer # "ok"
    BY <1>18, <2>2, RootKept DEF JoinMergeMove, NothingKnown, Finish, TypeInv, AnswersType
  <2> QED
    BY <2>1, <2>2
<1>19. ASSUME EndMerge
      PROVE  RootInv'
  BY <1>19, RootKept DEF EndMerge, Finish, NothingKnown, PhaseInv
<1>20. ASSUME SendTopMove
      PROVE  RootInv'
  <2>1. PICK root : root = First(PresentLegacies) /\ root \in Legacies
    BY <1>20, FirstType DEF SendTopMove, TopMovePossible, PresentLegacies
  <2>2. PICK effect : effect = Moved(root, <<>>)
    OBVIOUS
  <2>3. /\ effect[root] = Without(remote[root], <<>>)
        /\ \A path \in Paths : effect[0][path] = (IF Covers(<<>>, path) THEN remote[root][path] ELSE remote[0][path])
        /\ \A other \in Roots : other \notin {0, root} => effect[other] = remote[other]
    BY <2>1, <2>2, MovedType, PathFacts DEF TypeInv, TreesType
  <2>4. \A path \in Paths : Covers(<<>>, path)
    BY RootCovers
  <2>5. CanMove(root, <<>>) => effect[0][<<>>] # 0
    BY <2>3, <2>4, PathFacts DEF CanMove
  <2>6. Rooted /\ \A path \in Paths : effect[root][path] = 0 /\ effect[0][path] = remote[root][path]
    BY <2>3, <2>4 DEF Without, RootInv
  <2>7. root \in Roots \ {0} /\ 0 \in Roots
    BY <2>1, NumberFacts
  <2>8. ASSUME NEW other \in Roots, NEW path \in Paths, effect[other][path] # 0
        PROVE  effect[other][<<>>] # 0
    BY <2>3, <2>6, <2>7, <2>8, PathFacts DEF Rooted
  <2>9. /\ \/ remote' = effect /\ CanMove(root, <<>>)
           \/ UNCHANGED remote /\ answer' # "ok"
        /\ UNCHANGED <<pc, sets, cache, adopting, record, task>>
    BY <1>20, <2>1, <2>2 DEF SendTopMove, Request
  <2>10. CASE UNCHANGED remote /\ answer' # "ok"
    BY <2>9, <2>10, RootKept DEF NothingKnown
  <2> QED
    BY <2>5, <2>8, <2>9, <2>10 DEF RootInv, Rooted
<1>21. ASSUME SendCreate
      PROVE  RootInv'
  <2>1. PICK path \in Paths : path = NextDir
    BY <1>21, NextDirType, PathFacts DEF SendCreate, PhaseInv
  <2>2. PICK effect : effect = [remote EXCEPT ![0][path] = 1]
    OBVIOUS
  <2>3. /\ \A p \in Paths : effect[0][p] = (IF p = path THEN 1 ELSE remote[0][p])
        /\ \A other \in Roots \ {0} : effect[other] = remote[other]
    BY <2>2, UploadedType, NumberFacts DEF TypeInv, TreesType
  <2>4. /\ \/ remote' = effect /\ (path = <<>> \/ remote[0][Parent(path)] # 0)
           \/ UNCHANGED remote /\ answer' # "ok"
        /\ UNCHANGED <<pc, sets, cache, adopting, record, task>>
    BY <1>21, <2>1, <2>2 DEF SendCreate, Request
  <2>5. CASE UNCHANGED remote /\ answer' # "ok"
    BY <2>4, <2>5, RootKept DEF NothingKnown
  <2>6. CASE remote' = effect /\ (path = <<>> \/ remote[0][Parent(path)] # 0)
    <3>1. effect[0][<<>>] # 0
      BY <2>3, <2>6, RootOfParent, PathFacts
    <3> QED
      BY <2>3, <2>6, <3>1, PathFacts DEF RootInv, Rooted
  <2> QED
    BY <2>4, <2>5, <2>6
<1>22. ASSUME SendMergeMove
      PROVE  RootInv'
  <2>1. NextFile \in Files /\ NextFile \in Paths \ {<<>>} /\ Merges(NextFile)
    BY <1>22, NextFileType DEF SendMergeMove, MergeReady
  <2>2. PICK root : root = First(LegacyWith(NextFile)) /\ root \in Legacies
    BY <2>1, FirstType DEF Merges, LegacyWith
  <2>3. PICK file \in Files : file = NextFile
    BY <2>1
  <2>4. PICK effect : effect = Moved(root, file)
    OBVIOUS
  <2>5. ~Covers(file, <<>>) /\ root \in Roots \ {0} /\ 0 \in Roots /\ <<>> \in Paths /\ file \in Paths
    BY <2>2, NumberFacts, PathFacts DEF Covers
  <2>6. /\ effect[root] = Without(remote[root], file)
        /\ \A path \in Paths : effect[0][path] = (IF Covers(file, path) THEN remote[root][path] ELSE remote[0][path])
        /\ \A other \in Roots : other \notin {0, root} => effect[other] = remote[other]
    BY <2>2, <2>4, <2>5, MovedType DEF TypeInv, TreesType
  <2>7. \A other \in Roots : effect[other][<<>>] = remote[other][<<>>]
    BY <2>5, <2>6 DEF Without
  <2>8. CanMove(root, file) => remote[0][<<>>] # 0
    <3>1. Parent(file) \in Paths /\ file # <<>>
      BY <2>1, <2>3, AboveIsDirectory, PathFacts
    <3> QED
      BY <2>5, <3>1 DEF CanMove, RootInv, Rooted
  <2>9. ASSUME NEW other \in Roots, NEW path \in Paths, CanMove(root, file), effect[other][path] # 0
        PROVE  effect[other][<<>>] # 0
    BY <2>5, <2>6, <2>7, <2>8, <2>9 DEF RootInv, Rooted, Without
  <2>10. /\ \/ remote' = effect /\ CanMove(root, file)
            \/ UNCHANGED remote /\ answer' # "ok"
         /\ UNCHANGED <<pc, sets, cache, adopting, record, task>>
    BY <1>22, <2>2, <2>3, <2>4 DEF SendMergeMove, Request
  <2>11. CASE UNCHANGED remote /\ answer' # "ok"
    BY <2>10, <2>11, RootKept DEF NothingKnown
  <2> QED
    BY <2>5, <2>7, <2>8, <2>9, <2>10, <2>11 DEF RootInv, Rooted
<1>23. ASSUME AdoptSkips
      PROVE  RootInv'
  BY <1>23, RootKept DEF AdoptSkips, NothingKnown, PhaseInv
<1>24. ASSUME AdoptFindsGone
      PROVE  RootInv'
  <2>1. adopting = {} => FlushedRecords = record /\ cache' = cache
    BY <1>24, FlushNothing DEF AdoptFindsGone
  <2>2. adopting = {} /\ (\A file \in Files : record[file].status \notin {"synced", "changed"}) =>
          \A file \in Files : record'[file].status \notin {"synced", "changed"}
    BY <1>24, <2>1 DEF AdoptFindsGone, ProcessingFailure, FileState, FileStateRecord, TypeInv, RecordType
  <2> QED
    BY <1>24, <2>1, <2>2, RootKept DEF AdoptFindsGone, Flush, NothingKnown, PhaseInv, AdoptReady
<1>25. ASSUME Adopt
      PROVE  RootInv'
  <2>1. sets[0] # Empty
    BY <1>25, NextFileType DEF Adopt, AdoptReady, Adopts, Empty
  <2> QED
    BY <1>25, <2>1, RootKept DEF Adopt, NothingKnown
<1>26. ASSUME AdoptComparisonFails
      PROVE  RootInv'
  <2>1. adopting = {} => FlushedRecords = record /\ cache' = cache
    BY <1>26, FlushNothing DEF AdoptComparisonFails
  <2>2. adopting = {} /\ (\A file \in Files : record[file].status \notin {"synced", "changed"}) =>
          \A file \in Files : record'[file].status \notin {"synced", "changed"}
    BY <1>26, <2>1 DEF AdoptComparisonFails, ProcessingFailure, FileState, FileStateRecord, TypeInv, RecordType
  <2> QED
    BY <1>26, <2>1, <2>2, RootKept DEF AdoptComparisonFails, Flush, NothingKnown, PhaseInv
<1>27. ASSUME QueueUpload
      PROVE  RootInv'
  <2>1. adopting = {} => FlushedRecords = record /\ cache' = cache
    BY <1>27, FlushNothing DEF QueueUpload
  <2>2. adopting = {} /\ (\A file \in Files : record[file].status \notin {"synced", "changed"}) =>
          \A file \in Files : record'[file].status \notin {"synced", "changed"}
    BY <1>27, <2>1 DEF QueueUpload, TypeInv, RecordType
  <2> QED
    BY <1>27, <2>1, <2>2, RootKept DEF QueueUpload, Flush, NothingKnown, PhaseInv
<1>28. ASSUME EndAdopt
      PROVE  RootInv'
  <2>1. adopting = {} => FlushedRecords = record /\ cache' = cache
    BY <1>28, FlushNothing DEF EndAdopt
  <2>2. adopting = {} /\ (\A file \in Files : record[file].status \notin {"synced", "changed"}) =>
          \A file \in Files : record'[file].status \notin {"synced", "changed"}
    BY <1>28, <2>1 DEF EndAdopt, TypeInv, RecordType
  <2> QED
    BY <1>28, <2>1, <2>2, RootKept DEF EndAdopt, Flush, EnterDeletes, Finish, NothingKnown, PhaseInv
<1>29. ASSUME StartUploads
      PROVE  RootInv'
  BY <1>29, RootKept DEF StartUploads, NothingKnown, PhaseInv
<1>30. ASSUME EndUploads
      PROVE  RootInv'
  BY <1>30, RootKept DEF EndUploads, EnterDeletes, Finish, NothingKnown, PhaseInv
<1>31. ASSUME NEW file \in Files, Upload(file)
      PROVE  RootInv'
  <2>1. PICK effect : effect = Uploaded(file)
    OBVIOUS
  <2>2. file \in Paths \ {<<>>}
    BY PathFacts
  <2>3. /\ \A p \in Paths \ {file} : effect[0][p] = remote[0][p]
        /\ \A other \in Roots \ {0} : effect[other] = remote[other]
    <3>1. PICK content \in Contents : content = Visible(file)
      BY <2>2, VisibleType, NumberFacts DEF TypeInv, TreesType
    <3> QED
      BY <2>1, <2>2, <3>1, UploadedType DEF TypeInv, TreesType, Uploaded
  <2>4. /\ \/ remote' = effect /\ remote[0][Parent(file)] # 0
           \/ UNCHANGED remote /\ \A other \in Files : task'[other] = "ok" => task[other] = "ok"
        /\ UNCHANGED <<pc, sets, cache, adopting, record, answer>>
    BY <1>31, <2>1 DEF Upload, Answered, TypeInv, AnswersType
  <2>5. CASE UNCHANGED remote /\ \A other \in Files : task'[other] = "ok" => task[other] = "ok"
    BY <2>4, <2>5, RootKept DEF NothingKnown
  <2>6. CASE remote' = effect /\ remote[0][Parent(file)] # 0
    <3>1. remote[0][<<>>] # 0 /\ effect[0][<<>>] # 0
      BY <2>2, <2>3, <2>6, RootOfParent, PathFacts
    <3> QED
      BY <2>3, <2>6, <3>1, PathFacts DEF RootInv, Rooted
  <2> QED
    BY <2>4, <2>5, <2>6
<1>32. ASSUME NEW file \in Files, JoinUpload(file)
      PROVE  RootInv'
  <2>1. CASE task[file] = "ok"
    BY <1>32, <2>1, RootKept DEF JoinUpload, NothingKnown
  <2>2. CASE task[file] # "ok"
    <3>1. /\ UNCHANGED <<remote, sets, cache, adopting, answer, pc>>
          /\ \A other \in Files : task'[other] = "ok" => task[other] = "ok"
      BY <1>32, <2>2 DEF JoinUpload, Answered, TypeInv, AnswersType, Answers
    <3>2. UNCHANGED record \/ record' = FileState(record, file, "skipped", FALSE)
      BY <1>32, <2>2 DEF JoinUpload, TypeInv, AnswersType, Answers
    <3>3. \A other \in Files : record'[other].status \in {record[other].status, "skipped"}
      BY <3>2 DEF FileState, FileStateRecord, TypeInv, RecordType
    <3> QED
      BY <3>1, <3>3, RootKept DEF NothingKnown
  <2> QED
    BY <2>1, <2>2
<1>33. ASSUME CheckDelete
      PROVE  RootInv'
  <2>1. NextDelete[1] \in Roots /\ NextDelete[2] \in Paths
    BY <1>33, NextDeleteFacts DEF CheckDelete, DeleteReady, PhaseInv
  <2>2. RowsWithout(NextDelete[1], NextDelete[2]) /\ cache[0] = Empty => cache'[0] = Empty
    BY <2>1, EmptyStaysEmpty DEF TypeInv, RowsType
  <2> QED
    BY <1>33, <2>2, RootKept DEF CheckDelete, NothingKnown, Finish, DeleteReady
<1>34. ASSUME JoinDelete
      PROVE  RootInv'
  <2>1. NextDelete[1] \in Roots /\ NextDelete[2] \in Paths
    BY <1>34, NextDeleteFacts DEF JoinDelete, DeleteReady, PhaseInv
  <2>2. RowsWithout(NextDelete[1], NextDelete[2]) /\ cache[0] = Empty => cache'[0] = Empty
    BY <2>1, EmptyStaysEmpty DEF TypeInv, RowsType
  <2>3. \A file \in Files : record'[file].status \in {record[file].status, "deleted"}
    BY <1>34, ZenonT(30) DEF JoinDelete, MarkDeleted, TypeInv, RecordType, AnswersType
  <2>4. UNCHANGED cache \/ RowsWithout(NextDelete[1], NextDelete[2])
    BY <1>34 DEF JoinDelete, TypeInv, AnswersType
  <2>5. UNCHANGED <<remote, sets, task>> /\ answer' = "none" /\ (adopting = {} => adopting' = {})
    BY <1>34 DEF JoinDelete, TypeInv, AnswersType, Finish
  <2> QED
    BY <2>2, <2>3, <2>4, <2>5, RootKept DEF NothingKnown
<1>35. ASSUME EndDeletes
      PROVE  RootInv'
  BY <1>35, RootKept DEF EndDeletes, Finish, NothingKnown, PhaseInv
<1>36. ASSUME SendDelete
      PROVE  RootInv'
  <2>1. NextDelete[1] \in Roots /\ NextDelete[2] \in Paths \ {<<>>}
    BY <1>36, NextDeleteFacts DEF SendDelete, DeleteReady
  <2>2. ~Covers(NextDelete[2], <<>>)
    BY <2>1, PathFacts DEF Covers
  <2>3. PICK effect : effect = [remote EXCEPT ![NextDelete[1]] = Without(@, NextDelete[2])]
    OBVIOUS
  <2>4. \A root \in Roots : /\ effect[root][<<>>] = remote[root][<<>>]
                            /\ \A path \in Paths : effect[root][path] \in {0, remote[root][path]}
    BY <2>1, <2>2, <2>3, RemovedType, PathFacts DEF TypeInv, TreesType
  <2>5. Request(TRUE, effect) /\ pc = "delete"
    BY <1>36, <2>3 DEF SendDelete, DeleteReady
  <2>6. remote' \in {remote, effect} /\ UNCHANGED <<pc, sets, cache, adopting, record, task>>
    BY <2>5 DEF Request
  <2> QED
    BY <2>4, <2>5, <2>6, NumberFacts DEF RootInv, Rooted, NothingKnown
<1>37. ASSUME CollisionFails
      PROVE  RootInv'
  BY <1>37, RootKept DEF CollisionFails, FailRoot, Finish, NothingKnown, PhaseInv
<1>38. ASSUME QuotaExceeded
      PROVE  RootInv'
  <2>1. adopting = {} => FlushedRecords = record /\ cache' = cache
    BY <1>38, FlushNothing DEF QuotaExceeded
  <2>2. adopting = {} /\ (\A file \in Files : record[file].status \notin {"synced", "changed"}) =>
          \A file \in Files : record'[file].status \notin {"synced", "changed"}
    BY <1>38, <2>1 DEF QuotaExceeded, TypeInv, RecordType
  <2> QED
    BY <1>38, <2>1, <2>2, RootKept DEF QuotaExceeded, Flush, FailRoot, Finish, NothingKnown, PhaseInv
<1>39. ASSUME Cancel
      PROVE  RootInv'
  BY <1>39, RootKept DEF Cancel, NothingKnown, PhaseInv
<1>40. ASSUME Unmount
      PROVE  RootInv'
  BY <1>40, RootKept DEF Unmount, NothingKnown, PhaseInv
<1>41. ASSUME Mount
      PROVE  RootInv'
  BY <1>41, RootKept DEF Mount, NothingKnown, PhaseInv
<1>42. ASSUME NEW kind \in FaultKinds, LoadFails(kind)
      PROVE  RootInv'
  BY <1>42, RootKept DEF LoadFails, FailRoot, PartialFailRoot, Finish, NothingKnown, PhaseInv
<1>43. ASSUME NEW kind \in FaultKinds, ParentOrListingFails(kind)
      PROVE  RootInv'
  <2>1. UNCHANGED remote
    BY <1>43, NothingDropped DEF ParentOrListingFails, RunFails, PhaseInv
  <2> QED
    BY <1>43, <2>1, RootKept, NumberFacts DEF ParentOrListingFails, RunFails, EndRun, NoTasks, NothingKnown
<1>44. ASSUME NEW kind \in FaultKinds, Interrupted(kind)
      PROVE  RootInv'
  <2>1. /\ \A other \in Roots \ {0} : remote'[other] = remote[other]
        /\ \A path \in Paths :
              \/ remote'[0][path] = remote[0][path]
              \/ path \in Files /\ remote[0][Parent(path)] # 0
    BY <1>44, DroppedType DEF Interrupted, TypeInv, TreesType
  <2>2. \A path \in Paths : \/ remote'[0][path] = remote[0][path]
                            \/ path \in Files /\ remote[0][<<>>] # 0
    BY <2>1, RootOfParent, PathFacts
  <2>3. remote'[0][<<>>] = remote[0][<<>>] /\ Rooted'
    BY <2>1, <2>2, PathFacts DEF Rooted, RootInv
  <2>4. remote[0][<<>>] = 0 => \A file \in Files : record'[file].status \notin {"synced", "changed"}
    BY <1>44 DEF Interrupted, RootInv, NothingKnown
  <2> QED
    BY <1>44, <2>3, <2>4, NumberFacts DEF Interrupted, EndRun, NoTasks, RootInv, NothingKnown
<1>45. ASSUME NEW root \in Roots, NEW dir \in Dirs, ListingNotFound(root, dir)
      PROVE  RootInv'
  <2>1. remote' = [remote EXCEPT ![root] = Without(@, dir)] /\ dir \in Paths
    BY <1>45, PathFacts DEF ListingNotFound
  <2>2. \A r \in Roots, p \in Paths :
          remote'[r][p] = IF r = root /\ Covers(dir, p) THEN 0 ELSE remote[r][p]
    BY <2>1, RemovedType DEF TypeInv, TreesType
  <2>3. Rooted'
    <3>1. Covers(dir, <<>>) => dir = <<>>
      BY <2>1, PathFacts DEF Covers
    <3> QED
      BY <2>2, <3>1, RootCovers, PathFacts DEF RootInv, Rooted
  <2>4. remote[0][<<>>] = 0 => sets'[0] = Empty
    <3>1. sets'[0] = (IF 0 = root THEN OnlyRoot(remote[0]) ELSE Listed(remote[0]))
      BY <1>45, NumberFacts DEF ListingNotFound
    <3>2. remote[0] = Empty => OnlyRoot(remote[0]) = Empty
      BY DEF OnlyRoot, Empty
    <3> QED
      BY <3>1, <3>2, NoRootNoTree DEF RootInv
  <2>5. UNCHANGED <<cache, adopting, record, task, answer>> /\ pc = "sets" /\ pc' = "rows"
    BY <1>45 DEF ListingNotFound
  <2>6. remote'[0][<<>>] = 0 => remote[0][<<>>] = 0
    BY <1>45 DEF ListingNotFound, CanonicalRootStays, vars
  <2> QED
    BY <2>3, <2>4, <2>5, <2>6 DEF RootInv, NothingKnown
<1>46. ASSUME NEW root \in Roots, NEW path \in Paths, RemoveRemote(root, path)
      PROVE  RootInv'
  <2>1. /\ remote' = [remote EXCEPT ![root] = Without(@, path)]
        /\ UNCHANGED <<sets, cache, adopting, record, task, answer, pc>>
    BY <1>46 DEF RemoveRemote
  <2>2. \A r \in Roots, p \in Paths :
          remote'[r][p] = IF r = root /\ Covers(path, p) THEN 0 ELSE remote[r][p]
    BY <2>1, RemovedType DEF TypeInv, TreesType
  <2>3. Covers(path, <<>>) => path = <<>>
    BY PathFacts DEF Covers
  <2>4. Rooted'
    BY <2>2, <2>3, RootCovers, PathFacts DEF RootInv, Rooted
  <2>5. remote'[0][<<>>] = 0 => remote[0][<<>>] = 0
    BY <1>46 DEF RemoveRemote, CanonicalRootStays, vars
  <2> QED
    BY <2>1, <2>4, <2>5 DEF RootInv, NothingKnown
<1>47. ASSUME NEW file \in Files, WriteLocal(file)
      PROVE  RootInv'
  BY <1>47, RootKept DEF WriteLocal, Edit, NothingKnown, PhaseInv
<1>48. ASSUME NEW path \in Paths, RemoveLocal(path)
      PROVE  RootInv'
  BY <1>48, RootKept DEF RemoveLocal, Edit, NothingKnown, PhaseInv
<1>49. CASE UNCHANGED vars
  BY <1>49, RootKept DEF vars, NothingKnown
<1>50. CASE StartRun \/ RecordMissingRoot \/ FinishRun \/ ScanSteps
  BY <1>50, <1>1, <1>2, <1>3, <1>4, <1>5, <1>6, <1>7, <1>8, <1>9 DEF ScanSteps
<1>51. CASE MoveSteps
  BY <1>51, <1>10, <1>11, <1>12, <1>13, <1>14, <1>15, <1>16, <1>17, <1>18, <1>19, <1>20, <1>21, <1>22 DEF MoveSteps
<1>52. CASE UploadSteps
  BY <1>52, <1>23, <1>24, <1>25, <1>26, <1>27, <1>28, <1>29, <1>30, <1>31, <1>32 DEF UploadSteps
<1>53. CASE DeleteSteps
  BY <1>53, <1>33, <1>34, <1>35, <1>36 DEF DeleteSteps
<1>54. CASE FaultSteps
  BY <1>54, <1>37, <1>38, <1>39, <1>40, <1>41, <1>42, <1>43, <1>44, <1>45, <1>46 DEF FaultSteps
<1>55. CASE EditSteps
  BY <1>55, <1>47, <1>48 DEF EditSteps
<1> QED
  BY <1>49, <1>50, <1>51, <1>52, <1>53, <1>54, <1>55 DEF Next, EngineSteps

-----------------------------------------------------------------------------
(* The truth of the records.                                                 *)

\* A content as the rows may have it of the canonical copy of a file.
Good(content, file) ==
    /\ Known(content, last[file]) /\ Old(content, scanned[file])
    /\ file \notin SizeOnly => True(content, last[file], remote[0][file])

\* Nothing is truer than the newest version.
LEMMA NewestIsTrue ==
    ASSUME NEW content \in Contents, NEW newest \in Versions, Known(content, newest)
    PROVE  True(content, newest, newest)
  BY LimitsAssumption DEF Known, True, Contents, Versions, Foreign

\* All that a step may do to the records and the rows of a file, its copies and the
\* work on it, unless it scans, writes or moves the file.
FileKept(file) ==
    /\ last'[file] = last[file] /\ local'[file] \in {0, local[file]}
    /\ scanned'[file] \in {0, scanned[file]} /\ (file \in live' => scanned'[file] # 0)
    /\ record'[file].version \in {record[file].version, scanned[file]}
    /\ file \notin SizeOnly /\ record'[file].status \in {"synced", "changed"} =>
           True(record'[file].version, last[file], remote[0][file])
    /\ file \notin SizeOnly /\ (file \in adopting' \/ task'[file] = "ok") =>
           \/ True(scanned'[file], last[file], remote[0][file])
           \/ remote'[0][file] = last[file]
CopiesKept(file) ==
    /\ Good(sets'[0][file], file) /\ Good(cache'[0][file], file)
    /\ remote'[0][file] \in {0, remote[0][file]} \/ (pc' \notin Early /\ remote'[0][file] = last[file])
    /\ \A root \in Legacies :
          /\ remote'[root][file] \in {0, remote[root][file]}
          /\ \A content \in {sets'[root][file], cache'[root][file]} :
                \/ content \in {0, sets[root][file], cache[root][file]}
                \/ pc \in Early /\ content = remote[root][file]
PhaseKept ==
    /\ pc' \in Early => pc \in Early
    /\ pc' = "merge" /\ answer' = "ok" => UNCHANGED <<pc, answer, todo, sets>>

\* Such a step keeps the invariants.
LEMMA Kept ==
    ASSUME TypeInv, TypeInv', PhaseInv, VersionInv, LegacyInv, TrueInv,
           PhaseKept, \A file \in Files : FileKept(file) /\ CopiesKept(file)
    PROVE  VersionInv' /\ LegacyInv' /\ TrueInv'
<1>0. Legacies \subseteq Roots /\ 0 \in Roots /\ Files \subseteq Paths
      /\ \A root \in Roots : root = 0 \/ root \in Legacies
  BY NumberFacts, PathFacts, TreesAssumption DEF Roots, Legacies
<1>1. ASSUME NEW file \in Files, NEW root \in Roots
      PROVE  /\ remote[root][file] \in Contents /\ cache[root][file] \in Contents
             /\ sets[root][file] \in Contents
             /\ last[file] \in Versions /\ scanned[file] \in Versions /\ local[file] \in Versions
             /\ record[file].version \in Versions
  BY <1>0 DEF TypeInv, TreesType, RowsType, SetsType, PlanType, RecordType, Trees
<1>2. ASSUME NEW file \in Files, NEW root \in Roots
      PROVE  /\ remote'[root][file] \in Contents /\ cache'[root][file] \in Contents
             /\ sets'[root][file] \in Contents
             /\ last'[file] \in Versions /\ scanned'[file] \in Versions /\ local'[file] \in Versions
             /\ record'[file].version \in Versions
  BY <1>0 DEF TypeInv, TreesType, RowsType, SetsType, PlanType, RecordType, Trees
<1>3. VersionInv'
  <2> SUFFICES ASSUME NEW file \in Files
               PROVE  FileInv(file)' /\ \A root \in Roots : CopyInv(file, root)'
    BY DEF VersionInv
  <2>1. FileInv(file) /\ FileKept(file) /\ CopiesKept(file)
    BY DEF VersionInv
  <2>2. FileInv(file)'
    BY <1>0, <1>1, <2>1, NumberFacts DEF FileInv, FileKept, Old, Versions
  <2>3. ASSUME NEW root \in Roots PROVE CopyInv(file, root)'
    <3>1. CopyInv(file, root)
      BY DEF VersionInv
    <3>2. scanned'[file] \in {0, scanned[file]} /\ last'[file] = last[file]
      BY <2>1 DEF FileKept
    <3>3. last[file] \in Nat /\ scanned[file] \in Nat
      BY <1>1, NumberFacts
    <3>4. ASSUME NEW content, Known(content, last[file]), Old(content, scanned[file])
          PROVE  Known(content, last'[file]) /\ Old(content, scanned'[file])
      BY <3>2, <3>4 DEF Old
    <3>5. Known(0, last'[file]) /\ Old(0, scanned'[file])
      BY <3>2, <3>3 DEF Known, Old
    <3>6. Known(last[file], last'[file])
      BY <3>2, <3>3 DEF Known
    <3>7. CASE root = 0
      BY <2>1, <3>1, <3>2, <3>4, <3>5, <3>6, <3>7 DEF CopyInv, CopiesKept, PhaseKept, Good
    <3>8. CASE root \in Legacies
      <4>1. \A content \in {sets'[root][file], cache'[root][file]} :
              Known(content, last'[file]) /\ Old(content, scanned'[file])
        BY <2>1, <3>1, <3>4, <3>5, <3>8 DEF CopyInv, CopiesKept
      <4>2. Known(remote'[root][file], last'[file])
        BY <2>1, <3>1, <3>2, <3>5, <3>8 DEF CopyInv, CopiesKept
      <4>3. pc' \in Early => Old(remote'[root][file], scanned'[file])
        BY <2>1, <3>1, <3>4, <3>5, <3>8 DEF CopyInv, CopiesKept, PhaseKept
      <4> QED
        BY <4>1, <4>2, <4>3 DEF CopyInv
    <3> QED
      BY <1>0, <3>7, <3>8
  <2> QED
    BY <2>2, <2>3
<1>4. LegacyInv'
  <2> SUFFICES ASSUME NEW root \in Legacies, NEW file \in Files
               PROVE  \A content \in {sets'[root][file], cache'[root][file]} :
                         content # 0 /\ remote'[root][file] # 0 => remote'[root][file] = content
    BY DEF LegacyInv
  <2> QED
    BY DEF LegacyInv, CopiesKept
<1>5. TrueInv'
  <2> SUFFICES ASSUME NEW file \in Files \ SizeOnly
               PROVE  RowTrue(file)' /\ RecordTrue(file)' /\ WorkTrue(file)'
    BY DEF TrueInv
  <2>1. /\ RowTrue(file) /\ RecordTrue(file) /\ WorkTrue(file) /\ FileKept(file) /\ CopiesKept(file)
        /\ FileInv(file)
    BY DEF TrueInv, VersionInv
  <2>2. /\ last'[file] = last[file] /\ scanned'[file] \in {0, scanned[file]}
        /\ \/ remote'[0][file] \in {0, remote[0][file]}
           \/ remote'[0][file] = last[file]
    BY <2>1 DEF FileKept, CopiesKept
  <2>3. ASSUME NEW content \in Contents, Known(content, last[file]),
               \/ True(content, last[file], remote[0][file])
               \/ remote'[0][file] = last[file]
        PROVE  True(content, last'[file], remote'[0][file])
    <3>1. CASE remote'[0][file] = last[file]
      BY <1>1, <2>2, <2>3, <3>1, NewestIsTrue, <1>0
    <3>2. CASE remote'[0][file] \in {0, remote[0][file]}
      BY <2>2, <2>3, <3>2, <3>1 DEF True
    <3> QED
      BY <2>2, <3>1, <3>2
  <2>4. RowTrue(file)'
    BY <1>0, <1>2, <2>1, <2>3 DEF RowTrue, CopiesKept, Good
  <2>5. RecordTrue(file)'
    <3>1. Known(record'[file].version, last[file]) /\ record'[file].version \in Contents
      BY <1>0, <1>1, <1>2, <2>1, NumberFacts DEF FileKept, FileInv, Known
    <3> QED
      BY <2>1, <2>3, <3>1 DEF RecordTrue, FileKept
  <2>6. WorkTrue(file)'
    <3>1. file \in adopting' \/ task'[file] = "ok" => True(scanned'[file], last'[file], remote'[0][file])
      <4>1. scanned[file] \in Nat /\ last[file] \in Nat /\ scanned'[file] \in Contents
        BY <1>0, <1>1, <1>2, NumberFacts
      <4>2. Known(scanned'[file], last[file])
        BY <2>1, <2>2, <4>1 DEF FileInv, Known
      <4> QED
        BY <2>1, <2>3, <4>1, <4>2 DEF FileKept
    <3>2. ASSUME pc' = "merge", answer' = "ok", file = NextFile'
          PROVE  True(sets'[First(LegacyWith(file)')][file], last'[file], remote'[0][file])
      <4>1. UNCHANGED <<pc, answer, todo, sets>>
        BY <3>2 DEF PhaseKept
      <4>2. NextFile' = NextFile /\ LegacyWith(file)' = LegacyWith(file)
        BY <4>1 DEF NextFile, FirstFile, LegacyWith
      <4>3. PICK root : root = First(LegacyWith(file))
        OBVIOUS
      <4>4. root \in Roots
        BY <1>0, <3>2, <4>1, <4>2, <4>3, FirstType DEF PhaseInv, Merges, LegacyWith
      <4>5. Known(sets[root][file], last[file]) /\ sets[root][file] \in Contents
        BY <1>1, <4>4 DEF VersionInv, CopyInv
      <4>6. True(sets[root][file], last[file], remote[0][file])
        BY <2>1, <3>2, <4>1, <4>2, <4>3 DEF WorkTrue
      <4> QED
        BY <2>3, <4>1, <4>2, <4>3, <4>5, <4>6
    <3> QED
      BY <3>1, <3>2 DEF WorkTrue
  <2> QED
    BY <2>4, <2>5, <2>6
<1> QED
  BY <1>3, <1>4, <1>5

\* The invariants of the section together.
TruthInv == VersionInv /\ LegacyInv /\ TrueInv

\* What they say of a file.
LEMMA FileFacts ==
    ASSUME TypeInv, TruthInv, NEW file \in Files
    PROVE  /\ FileInv(file) /\ Good(0, file) /\ Good(sets[0][file], file) /\ Good(cache[0][file], file)
           /\ pc \in Early => Good(remote[0][file], file)
           /\ file \notin SizeOnly => RecordTrue(file) /\ WorkTrue(file)
           /\ file \in adopting \/ task[file] = "ok" => Good(scanned[file], file)
           /\ last[file] \in Nat /\ scanned[file] \in Nat
<1>1. last[file] \in Nat /\ scanned[file] \in Nat /\ 0 \in Roots
  BY NumberFacts DEF TypeInv, TreesType, PlanType
<1>2. FileInv(file) /\ CopyInv(file, 0)
  BY <1>1 DEF TruthInv, VersionInv
<1>3. file \notin SizeOnly => RowTrue(file) /\ RecordTrue(file) /\ WorkTrue(file)
  BY DEF TruthInv, TrueInv
<1>4. Good(0, file)
  BY <1>1 DEF Good, Known, Old, True
<1>5. Good(sets[0][file], file) /\ Good(cache[0][file], file)
  BY <1>2, <1>3 DEF CopyInv, RowTrue, Good
<1>6. pc \in Early => Good(remote[0][file], file)
  BY <1>2 DEF CopyInv, Good, True
<1>7. file \in adopting \/ task[file] = "ok" => Good(scanned[file], file)
  BY <1>1, <1>2, <1>3 DEF FileInv, WorkTrue, Good, Known, Old
<1> QED
  BY <1>1, <1>2, <1>3, <1>4, <1>5, <1>6, <1>7

\* A record stays, or says that the scanned version was skipped, has failed or is gone,
\* or that an adoption or an upload is done.
RecordKept(file) ==
    /\ record'[file].version \in {record[file].version, scanned[file]}
    /\ record'[file].status \in {"synced", "changed"} =>
          \/ record'[file] = record[file]
          \/ record'[file].version = scanned[file] /\ (file \in adopting \/ task[file] = "ok")

\* Rows and inventory are only taken from each other, or from a listing.
RowsKept(root, file) ==
    \A content \in {sets'[root][file], cache'[root][file]} :
        \/ content \in {0, sets[root][file], cache[root][file]}
        \/ pc \in Early /\ content = remote[root][file]

\* A step of a run that takes up no new work.
LEMMA StepKept ==
    ASSUME TypeInv, TypeInv', PhaseInv, TruthInv, PhaseKept,
           UNCHANGED <<last, scanned>>, live' \subseteq live, adopting' \subseteq adopting,
           \A file \in Files : /\ local'[file] \in {0, local[file]} /\ RecordKept(file)
                               /\ task'[file] = "ok" => task[file] = "ok",
           \A root \in Roots, file \in Files : /\ remote'[root][file] \in {0, remote[root][file]}
                                               /\ RowsKept(root, file)
    PROVE  TruthInv'
<1>1. ASSUME NEW file \in Files PROVE FileKept(file)
  <2>1. FileInv(file) /\ (file \notin SizeOnly => RecordTrue(file) /\ WorkTrue(file))
    BY FileFacts
  <2>2. file \notin SizeOnly /\ (file \in adopting' \/ task'[file] = "ok") =>
          True(scanned'[file], last[file], remote[0][file])
    BY <2>1 DEF WorkTrue
  <2>3. file \notin SizeOnly /\ record'[file].status \in {"synced", "changed"} =>
          True(record'[file].version, last[file], remote[0][file])
    BY <2>1 DEF RecordTrue, WorkTrue, RecordKept
  <2> QED
    BY <2>1, <2>2, <2>3 DEF FileKept, FileInv, RecordKept
<1>2. ASSUME NEW file \in Files PROVE CopiesKept(file)
  <2>1. 0 \in Roots /\ Legacies \subseteq Roots
    BY NumberFacts
  <2>2. Good(sets'[0][file], file) /\ Good(cache'[0][file], file)
    BY <2>1, FileFacts DEF RowsKept
  <2> QED
    BY <2>1, <2>2 DEF CopiesKept, RowsKept
<1> QED
  BY <1>1, <1>2, Kept DEF TruthInv

\* The end of a run, with the uploads that its end may drop.
LEMMA EndKept ==
    ASSUME TypeInv, TypeInv', PhaseInv, TruthInv, EndRun, UNCHANGED <<local, last, cache>>,
           \A file \in Files : RecordKept(file),
           UNCHANGED remote \/ Dropped
    PROVE  TruthInv'
<1>1. ASSUME NEW file \in Files PROVE FileKept(file)
  <2>1. FileInv(file) /\ (file \notin SizeOnly => RecordTrue(file) /\ WorkTrue(file))
    BY FileFacts
  <2>2. /\ scanned'[file] = 0 /\ live' = {} /\ adopting' = {} /\ task'[file] = "none"
        /\ last'[file] = last[file] /\ local'[file] = local[file]
    BY DEF EndRun, NoTasks
  <2>3. file \notin SizeOnly /\ record'[file].status \in {"synced", "changed"} =>
          True(record'[file].version, last[file], remote[0][file])
    BY <2>1 DEF RecordTrue, WorkTrue, RecordKept
  <2> QED
    BY <2>1, <2>2, <2>3 DEF FileKept, FileInv, RecordKept
<1>2. ASSUME NEW file \in Files PROVE CopiesKept(file)
  <2>1. 0 \in Roots /\ Legacies \subseteq Roots \ {0} /\ file \in Paths
    BY NumberFacts, PathFacts
  <2>2. \A root \in Roots : sets'[root][file] = 0
    BY <2>1 DEF EndRun, Empty
  <2>3. Good(sets'[0][file], file) /\ Good(cache'[0][file], file)
    BY <2>1, <2>2, FileFacts
  <2>4. \/ remote'[0][file] = remote[0][file]
        \/ Visible(file) # 0 /\ remote'[0][file] = Visible(file)
    BY <2>1, DroppedType DEF TypeInv, TreesType
  <2>5. Visible(file) \in {0, last[file]}
    BY FileFacts DEF Visible, FileInv
  <2>6. \A root \in Legacies : remote'[root] = remote[root]
    BY <2>1, DroppedType DEF TypeInv, TreesType
  <2>7. pc' \notin Early
    BY DEF EndRun, Early
  <2> QED
    BY <2>1, <2>2, <2>3, <2>4, <2>5, <2>6, <2>7 DEF CopiesKept
<1>3. PhaseKept
  BY DEF PhaseKept, EndRun, Early
<1> QED
  BY <1>1, <1>2, <1>3, Kept DEF TruthInv

\* The ways in which a step writes records.
LEMMA RecordsKept ==
    ASSUME TypeInv, NEW file \in Files
    PROVE  /\ UNCHANGED record => RecordKept(file)
           /\ record' = FlushedRecords => RecordKept(file)
           /\ \A path : record' = MarkDeleted(path) => RecordKept(file)
           /\ \A states \in {record, FlushedRecords}, other \in Files : \A status, md5 :
                 /\ record' = FileState(states, other, status, md5)
                 /\ status \in {"synced", "changed"} => task[other] = "ok"
                 => RecordKept(file)
<1>1. DOMAIN record = Files /\ DOMAIN FlushedRecords = Files
  BY DEF TypeInv, RecordType, FlushedRecords
<1>2. UNCHANGED record => RecordKept(file)
  BY DEF RecordKept
<1>3. /\ FlushedRecords[file].version \in {record[file].version, scanned[file]}
      /\ \/ FlushedRecords[file] = record[file]
         \/ FlushedRecords[file].version = scanned[file] /\ file \in adopting
  BY DEF FlushedRecords, FileStateRecord
<1>4. record' = FlushedRecords => RecordKept(file)
  BY <1>3 DEF RecordKept
<1>5. ASSUME NEW path, record' = MarkDeleted(path) PROVE RecordKept(file)
  <2>1. CASE file = path
    <3>1. record'[file] = [record[file] EXCEPT !.status = "deleted"]
      BY <1>5, <2>1 DEF MarkDeleted
    <3>2. record'[file].version = record[file].version /\ record'[file].status = "deleted"
      BY <3>1 DEF TypeInv, RecordType
    <3> QED
      BY <3>2 DEF RecordKept
  <2>2. CASE file # path
    BY <1>5, <2>2 DEF MarkDeleted, RecordKept
  <2> QED
    BY <2>1, <2>2
<1>6. ASSUME NEW states \in {record, FlushedRecords}, NEW other \in Files, NEW status, NEW md5,
             record' = FileState(states, other, status, md5),
             status \in {"synced", "changed"} => task[other] = "ok"
      PROVE  RecordKept(file)
  <2>1. CASE file = other
    <3>1. record'[file].version = scanned[file] /\ record'[file].status = status
      BY <1>1, <1>6, <2>1 DEF FileState, FileStateRecord
    <3> QED
      BY <1>6, <2>1, <3>1 DEF RecordKept
  <2>2. CASE file # other
    <3>1. record'[file] = states[file]
      BY <1>1, <1>6, <2>2 DEF FileState
    <3> QED
      BY <1>3, <1>6, <3>1 DEF RecordKept
  <2> QED
    BY <2>1, <2>2
<1> QED
  BY <1>2, <1>4, <1>5, <1>6

\* What remote_matches_local establishes of a file up to full_hash_max_bytes.
LEMMA Compared ==
    ASSUME TypeInv, TruthInv, NEW root \in Roots, NEW file \in Files \ SizeOnly,
           Comparison(root, file) = "matches"
    PROVE  sets[root][file] = scanned[file] \/ remote[root][file] = last[file]
<1>1. Visible(file) \in {0, last[file]}
  BY FileFacts DEF Visible, FileInv
<1>2. CASE <<root, file>> \notin bare
  BY <1>2 DEF Comparison
<1>3. CASE <<root, file>> \in bare
  <2>1. ProcessingError(file) # "matches"
    BY DEF ProcessingError
  <2>2. ~Unreadable(root, file) /\ remote[root][file] = Visible(file)
    BY <1>3, <2>1 DEF Comparison
  <2> QED
    BY <1>1, <2>2 DEF Unreadable
<1> QED
  BY <1>2, <1>3

\* A move brings the disk no content that it did not have.
LEMMA MovedVersions ==
    ASSUME TypeInv, VersionInv, pc \in Early,
           UNCHANGED <<local, last, record, cache, sets, scanned, live, pc>>,
           \A root \in Roots, file \in Files :
               remote'[root][file] = 0 \/ \E other \in Roots : remote'[root][file] = remote[other][file]
    PROVE  VersionInv'
<1> SUFFICES ASSUME NEW file \in Files, NEW root \in Roots
             PROVE  FileInv(file)' /\ CopyInv(file, root)'
  BY NumberFacts DEF VersionInv
<1>1. FileInv(file)'
  BY DEF VersionInv, FileInv
<1>2. last[file] \in Nat /\ scanned[file] \in Nat
  BY NumberFacts DEF TypeInv, TreesType, PlanType
<1>3. Known(remote'[root][file], last[file]) /\ Old(remote'[root][file], scanned[file])
  <2>1. CASE remote'[root][file] = 0
    BY <1>2, <2>1 DEF Known, Old
  <2>2. ASSUME NEW other \in Roots, remote'[root][file] = remote[other][file]
        PROVE  Known(remote'[root][file], last[file]) /\ Old(remote'[root][file], scanned[file])
    BY <2>2 DEF VersionInv, CopyInv
  <2> QED
    BY <2>1, <2>2
<1> QED
  BY <1>1, <1>3 DEF VersionInv, CopyInv

\* A file has nothing below it.
LEMMA FileCoversItself ==
    ASSUME NEW file \in Files, NEW path \in Paths, Covers(file, path)
    PROVE  path = file
<1>1. file \in Seq(STRING) /\ path \in Seq(STRING) /\ file # <<>>
  BY PathFacts
<1>2. CASE path # file
  <2>1. file \in Ancestors(path)
    BY <1>1, <1>2, CoversIsAncestor
  <2>2. path # <<>>
    BY <1>1 DEF Covers
  <2> QED
    BY <2>1, <2>2, AboveIsDirectory, PathFacts
<1> QED
  BY <1>2

\* A path covers itself.
LEMMA CoversItself == \A path \in Paths : Covers(path, path)
  BY PathFacts, CoversPointwise

\* Every step keeps the truth of the records, if the canonical root is safe.
LEMMA NextTruth ==
    ASSUME TypeInv, TypeInv', PhaseInv, RootInv, TruthInv, [Next]_vars
    PROVE  TruthInv'
<1> USE DEF trees, database, rows, plan, inventory, queues, summary, budgets
<1>1. ASSUME StartRun
      PROVE  TruthInv'
  BY <1>1, StepKept DEF StartRun, PhaseKept, Early, RecordKept, RowsKept
<1>2. ASSUME RecordMissingRoot
      PROVE  TruthInv'
  BY <1>2, StepKept DEF RecordMissingRoot, PhaseKept, Early, RecordKept, RowsKept
<1>3. ASSUME FinishRun
      PROVE  TruthInv'
  BY <1>3, EndKept DEF FinishRun, RecordKept
<1>4. ASSUME NEW unreadable \in SUBSET LocalDirs, NEW busy \in SUBSET Files, Scan(unreadable, busy)
      PROVE  TruthInv'
  <2>1. /\ UNCHANGED <<local, last, remote, record, cache, sets, adopting, task, answer>>
        /\ pc = "scan" /\ pc' = "live"
        /\ \A file \in Files : /\ file \in live' => Visible(file) # 0
                               /\ scanned'[file] = IF file \in live' THEN local[file] ELSE 0
    BY <1>4 DEF Scan, Walked
  <2>2. LegacyInv'
    BY <2>1 DEF TruthInv, LegacyInv
  <2>3. adopting = {} /\ \A file \in Files : task[file] # "ok"
    BY <2>1 DEF PhaseInv
  <2>4. TrueInv'
    BY <2>1, <2>3 DEF TruthInv, TrueInv, RowTrue, RecordTrue, WorkTrue
  <2>5. VersionInv'
    <3> SUFFICES ASSUME NEW file \in Files
                 PROVE  FileInv(file)' /\ \A root \in Roots : CopyInv(file, root)'
      BY DEF VersionInv
    <3>1. FileInv(file) /\ last[file] \in Nat /\ \A root \in Roots : CopyInv(file, root)
      BY FileFacts DEF TruthInv, VersionInv
    <3>2. \/ file \in live' /\ scanned'[file] = last[file] /\ last[file] # 0
          \/ file \notin live' /\ scanned'[file] = 0
      BY <2>1, <3>1 DEF FileInv, Visible
    <3>3. ASSUME NEW content, Known(content, last[file]) PROVE Old(content, scanned'[file])
      BY <3>1, <3>2, <3>3 DEF Known, Old
    <3>4. FileInv(file)'
      BY <2>1, <3>1, <3>2 DEF FileInv, Old
    <3>5. ASSUME NEW root \in Roots PROVE CopyInv(file, root)'
      BY <2>1, <3>1, <3>3 DEF CopyInv
    <3> QED
      BY <3>4, <3>5
  <2> QED
    BY <2>2, <2>4, <2>5 DEF TruthInv
<1>5. ASSUME BuildLivePlan
      PROVE  TruthInv'
  BY <1>5, StepKept DEF BuildLivePlan, PhaseKept, Early, RecordKept, RowsKept
<1>6. ASSUME LoadCached
      PROVE  TruthInv'
  BY <1>6, StepKept DEF LoadCached, PhaseKept, Early, RecordKept, RowsKept
<1>7. ASSUME LoadFresh
      PROVE  TruthInv'
  <2>1. \A root \in Roots, file \in Files : sets'[root][file] \in {0, remote[root][file]}
    BY <1>7, PathFacts DEF LoadFresh, Listed
  <2> QED
    BY <1>7, <2>1, StepKept DEF LoadFresh, PhaseKept, Early, RecordKept, RowsKept
<1>8. ASSUME RecordRows
      PROVE  TruthInv'
  BY <1>8, StepKept DEF RecordRows, PhaseKept, Early, RecordKept, RowsKept
<1>9. ASSUME RecordStatus
      PROVE  TruthInv'
  BY <1>9, StepKept DEF RecordStatus, PhaseKept, Early, RecordKept, RowsKept
<1>10. ASSUME NoTopMove
      PROVE  TruthInv'
  BY <1>10, StepKept DEF NoTopMove, EnterDirs, Finish, PhaseKept, Early, RecordKept, RowsKept
<1>11. ASSUME JoinTopMove
      PROVE  TruthInv'
  BY <1>11, StepKept DEF JoinTopMove, EnterDirs, Finish, MigrationFailure, TypeInv, AnswersType, PhaseKept, Early, RecordKept, RowsKept
<1>12. ASSUME Relist
      PROVE  TruthInv'
  <2>1. First(PresentLegacies) \in Roots \ {0}
    BY <1>12, FirstType, NumberFacts DEF Relist, PhaseInv, PresentLegacies
  <2>2. \A root \in Roots, file \in Files : sets'[root][file] \in {0, sets[root][file], remote[root][file]}
    BY <1>12, <2>1, PathFacts DEF Relist, TypeInv, SetsType, Empty
  <2> QED
    BY <1>12, <2>2, StepKept DEF Relist, EnterDirs, Finish, PhaseKept, Early, RecordKept, RowsKept
<1>13. ASSUME JoinCreate
      PROVE  TruthInv'
  <2>1. PICK dir \in Dirs : dir = NextDir
    BY <1>13, NextDirType DEF JoinCreate, PhaseInv
  <2>2. \A root \in Roots, file \in Files : sets'[root][file] = sets[root][file]
    BY <1>13, <2>1, PathFacts DEF JoinCreate, TypeInv, SetsType, Trees
  <2> QED
    BY <1>13, <2>2, StepKept DEF JoinCreate, PhaseKept, Early, RecordKept, RowsKept
<1>14. ASSUME CreateFails
      PROVE  TruthInv'
  BY <1>14, EndKept DEF CreateFails, RunFails, RecordKept
<1>15. ASSUME EndDirs
      PROVE  TruthInv'
  BY <1>15, StepKept DEF EndDirs, Finish, PhaseKept, Early, RecordKept, RowsKept
<1>16. ASSUME MergeSkips
      PROVE  TruthInv'
  BY <1>16, StepKept DEF MergeSkips, MergeReady, PhaseKept, Early, RecordKept, RowsKept
<1>17. ASSUME MergeComparisonFails
      PROVE  TruthInv'
  BY <1>17, StepKept DEF MergeComparisonFails, MergeReady, ProcessingFailure, FileState, FileStateRecord, TypeInv, RecordType, PhaseKept, Early, RecordKept, RowsKept
<1>18. ASSUME JoinMergeMove
      PROVE  TruthInv'
  <2>1. CASE answer = "ok"
    <3>1. PICK file \in Files : file = NextFile /\ LegacyWith(file) # {}
      BY <1>18, NextFileType DEF JoinMergeMove, PhaseInv, Merges
    <3>2. PICK root \in Legacies : root = First(LegacyWith(file))
      BY <3>1, FirstType DEF LegacyWith
    <3>3. /\ sets' = [sets EXCEPT ![0][file] = sets[root][file], ![root][file] = 0]
          /\ UNCHANGED <<local, last, remote, record, cache, scanned, live, adopting, task, pc>>
          /\ pc = "merge" /\ answer' = "none"
      BY <1>18, <2>1, <3>1, <3>2 DEF JoinMergeMove
    <3>4. root \in Roots \ {0} /\ 0 \in Roots /\ Legacies \subseteq Roots \ {0} /\ file \in Paths
      BY <3>2, NumberFacts, PathFacts
    <3>5. /\ \A other \in Files : sets'[0][other] = (IF other = file THEN sets[root][file] ELSE sets[0][other])
          /\ \A r \in Legacies, other \in Files : sets'[r][other] \in {0, sets[r][other]}
      BY <3>3, <3>4, PathFacts DEF TypeInv, SetsType, Trees
    <3>6. Good(sets[root][file], file)
      <4>1. CopyInv(file, root)
        BY <3>4 DEF TruthInv, VersionInv
      <4>2. file \notin SizeOnly => True(sets[root][file], last[file], remote[0][file])
        BY <2>1, <3>1, <3>2, <3>3, FileFacts DEF WorkTrue
      <4> QED
        BY <4>1, <4>2 DEF CopyInv, Good
    <3>7. ASSUME NEW other \in Files PROVE FileKept(other) /\ CopiesKept(other)
      <4>1. FileKept(other)
        BY <3>3, FileFacts DEF FileKept, FileInv, RecordTrue, WorkTrue
      <4>2. CopiesKept(other)
        BY <3>3, <3>5, <3>6, FileFacts DEF CopiesKept
      <4> QED
        BY <4>1, <4>2
    <3>8. PhaseKept
      BY <3>3 DEF PhaseKept
    <3> QED
      BY <3>7, <3>8, Kept DEF TruthInv
  <2>2. CASE answer # "ok"
    BY <1>18, <2>2, StepKept DEF JoinMergeMove, Finish, TypeInv, AnswersType, PhaseKept, Early, RecordKept, RowsKept
  <2> QED
    BY <2>1, <2>2
<1>19. ASSUME EndMerge
      PROVE  TruthInv'
  BY <1>19, StepKept DEF EndMerge, Finish, PhaseKept, Early, RecordKept, RowsKept
<1>20. ASSUME SendTopMove
      PROVE  TruthInv'
  <2>1. PICK root : root = First(PresentLegacies) /\ root \in Legacies
    BY <1>20, FirstType DEF SendTopMove, TopMovePossible, PresentLegacies
  <2>2. PICK effect : effect = Moved(root, <<>>)
    OBVIOUS
  <2>3. /\ \/ remote' = effect /\ CanMove(root, <<>>)
           \/ UNCHANGED remote /\ answer' # "ok"
        /\ UNCHANGED <<local, last, record, cache, sets, scanned, live, adopting, task, pc, todo>>
        /\ pc = "top"
    BY <1>20, <2>1, <2>2 DEF SendTopMove, Request
  <2>4. CASE UNCHANGED remote /\ answer' # "ok"
    BY <2>3, <2>4, StepKept DEF PhaseKept, Early, RecordKept, RowsKept
  <2>5. CASE remote' = effect /\ CanMove(root, <<>>)
    <3>1. root \in Roots \ {0} /\ 0 \in Roots /\ Legacies \subseteq Roots \ {0} /\ Files \subseteq Paths
      BY <2>1, NumberFacts, PathFacts
    <3>2. \A path \in Paths : effect[root][path] = 0 /\ effect[0][path] = remote[root][path]
      <4>1. /\ effect[root] = Without(remote[root], <<>>)
            /\ \A path \in Paths : effect[0][path] = (IF Covers(<<>>, path) THEN remote[root][path] ELSE remote[0][path])
        BY <2>1, <2>2, MovedType, PathFacts DEF TypeInv, TreesType
      <4> QED
        BY <4>1, RootCovers DEF Without
    <3>3. \A other \in Roots : other \notin {0, root} => effect[other] = remote[other]
      BY <2>1, <2>2, MovedType, PathFacts DEF TypeInv, TreesType
    <3>4. VersionInv'
      <4>1. \A r \in Roots, file \in Files :
              remote'[r][file] = 0 \/ \E other \in Roots : remote'[r][file] = remote[other][file]
        BY <2>5, <3>1, <3>2, <3>3
      <4> QED
        BY <2>3, <4>1, MovedVersions DEF TruthInv, Early
    <3>5. LegacyInv'
      BY <2>3, <2>5, <3>1, <3>2, <3>3 DEF TruthInv, LegacyInv
    <3>6. TrueInv'
      <4>1. NothingKnown
        BY <2>5 DEF CanMove, RootInv
      <4>2. \A file \in Files : cache[0][file] = 0 /\ sets[0][file] = 0
        BY <3>1, <4>1 DEF NothingKnown, Empty
      <4> QED
        BY <2>3, <4>1, <4>2 DEF NothingKnown, TrueInv, RowTrue, RecordTrue, WorkTrue, True
    <3> QED
      BY <3>4, <3>5, <3>6 DEF TruthInv
  <2> QED
    BY <2>3, <2>4, <2>5
<1>21. ASSUME SendCreate
      PROVE  TruthInv'
  <2>1. PICK dir \in Dirs : dir = NextDir
    BY <1>21, NextDirType DEF SendCreate, PhaseInv
  <2>2. PICK effect : effect = [remote EXCEPT ![0][dir] = 1]
    OBVIOUS
  <2>3. \A root \in Roots, file \in Files : effect[root][file] = remote[root][file]
    BY <2>2, UploadedType, NumberFacts, PathFacts DEF TypeInv, TreesType
  <2>4. /\ remote' \in {remote, effect} /\ pc = "dirs"
        /\ UNCHANGED <<local, last, record, cache, sets, scanned, live, adopting, task, pc, todo>>
    BY <1>21, <2>1, <2>2 DEF SendCreate, Request
  <2> QED
    BY <2>3, <2>4, StepKept DEF PhaseKept, Early, RecordKept, RowsKept
<1>22. ASSUME SendMergeMove
      PROVE  TruthInv'
  <2>1. PICK file \in Files : file = NextFile /\ Merges(file) /\ file \in live
    BY <1>22, NextFileType DEF SendMergeMove, MergeReady
  <2>2. PICK root \in Legacies : root = First(LegacyWith(file))
    BY <2>1, FirstType DEF Merges, LegacyWith
  <2>3. PICK effect : effect = Moved(root, file)
    OBVIOUS
  <2>4. /\ \/ remote' = effect /\ CanMove(root, file)
           \/ UNCHANGED remote /\ answer' # "ok"
        /\ UNCHANGED <<local, last, record, cache, sets, scanned, live, adopting, task, pc, todo>>
        /\ pc = "merge" /\ Comparison(root, file) = "matches"
    BY <1>22, <2>1, <2>2, <2>3 DEF SendMergeMove, Request, MergeReady
  <2>5. CASE UNCHANGED remote /\ answer' # "ok"
    BY <2>4, <2>5, StepKept DEF PhaseKept, Early, RecordKept, RowsKept
  <2>6. CASE remote' = effect /\ CanMove(root, file)
    <3>1. root \in Roots \ {0} /\ 0 \in Roots /\ Legacies \subseteq Roots \ {0} /\ Files \subseteq Paths
      BY NumberFacts, PathFacts
    <3>2. \A other \in Files : Covers(file, other) => other = file
      BY <3>1, FileCoversItself
    <3>3. /\ \A other \in Files : /\ effect[0][other] \in {remote[0][other], remote[root][other]}
                                  /\ other # file => effect[0][other] = remote[0][other]
                                  /\ effect[root][other] \in {0, remote[root][other]}
          /\ \A r \in Roots : r \notin {0, root} => effect[r] = remote[r]
      <4>1. /\ effect[root] = Without(remote[root], file)
            /\ \A path \in Paths : effect[0][path] = (IF Covers(file, path) THEN remote[root][path] ELSE remote[0][path])
            /\ \A r \in Roots : r \notin {0, root} => effect[r] = remote[r]
        BY <2>3, <3>1, MovedType DEF TypeInv, TreesType
      <4> QED
        BY <3>1, <3>2, <4>1 DEF Without
    <3>4. VersionInv'
      <4>1. \A r \in Roots, other \in Files :
              remote'[r][other] = 0 \/ \E s \in Roots : remote'[r][other] = remote[s][other]
        BY <2>6, <3>1, <3>3
      <4> QED
        BY <2>4, <4>1, MovedVersions DEF TruthInv, Early
    <3>5. LegacyInv'
      BY <2>4, <2>6, <3>1, <3>3 DEF TruthInv, LegacyInv
    <3>6. ASSUME file \notin SizeOnly PROVE RowTrue(file)' /\ RecordTrue(file)' /\ WorkTrue(file)'
      <4>1. effect[0][file] = remote[root][file]
        BY <2>3, <3>1, MovedType, CoversItself DEF TypeInv, TreesType
      <4>2. remote[root][file] # 0
        BY <2>6 DEF CanMove
      <4>3. scanned[file] # 0 /\ scanned[file] <= last[file] /\ last[file] \in Nat /\ scanned[file] \in Nat
        BY <2>1, FileFacts DEF FileInv
      <4>4. remote[root][file] = scanned[file] \/ remote[root][file] = last[file]
        <5>1. sets[root][file] = scanned[file] \/ remote[root][file] = last[file]
          BY <2>4, <3>1, <3>6, Compared
        <5>2. sets[root][file] # 0 => remote[root][file] = sets[root][file]
          BY <4>2 DEF TruthInv, LegacyInv
        <5> QED
          BY <4>3, <5>1, <5>2
      <4>5. ASSUME NEW content \in Contents, Old(content, scanned[file])
            PROVE  True(content, last[file], remote[root][file])
        BY <4>3, <4>4, <4>5, NumberFacts DEF Old, True
      <4>6. /\ Old(cache[0][file], scanned[file]) /\ Old(sets[0][file], scanned[file])
            /\ Old(sets[root][file], scanned[file]) /\ Old(record[file].version, scanned[file])
        BY <3>1 DEF TruthInv, VersionInv, CopyInv, FileInv
      <4>7. /\ cache[0][file] \in Contents /\ sets[0][file] \in Contents
            /\ sets[root][file] \in Contents /\ record[file].version \in Contents
        <5>1. cache[0][file] \in Contents /\ sets[0][file] \in Contents /\ sets[root][file] \in Contents
          BY <3>1 DEF TypeInv, RowsType, SetsType, Trees
        <5>2. record[file].version \in Contents
          BY NumberFacts DEF TypeInv, RecordType
        <5> QED
          BY <5>1, <5>2
      <4>8. file \notin adopting /\ task[file] # "ok"
        BY <2>4 DEF PhaseInv
      <4>9. LegacyWith(file)' = LegacyWith(file)
        BY <2>4 DEF LegacyWith
      <4> QED
        BY <2>2, <2>4, <2>6, <4>1, <4>5, <4>6, <4>7, <4>8, <4>9 DEF RowTrue, RecordTrue, WorkTrue
    <3>7. ASSUME NEW other \in Files \ SizeOnly, other # file
          PROVE  RowTrue(other)' /\ RecordTrue(other)' /\ WorkTrue(other)'
      <4>1. RowTrue(other) /\ RecordTrue(other) /\ WorkTrue(other)
        BY DEF TruthInv, TrueInv
      <4>2. NextFile' = file
        BY <2>1, <2>4 DEF NextFile, FirstFile
      <4> QED
        BY <2>4, <2>6, <3>3, <3>7, <4>1, <4>2 DEF RowTrue, RecordTrue, WorkTrue
    <3> QED
      BY <3>4, <3>5, <3>6, <3>7 DEF TruthInv, TrueInv
  <2> QED
    BY <2>4, <2>5, <2>6
<1>23. ASSUME AdoptSkips
      PROVE  TruthInv'
  BY <1>23, StepKept DEF AdoptSkips, AdoptReady, PhaseKept, Early, RecordKept, RowsKept
<1>24. ASSUME AdoptFindsGone
      PROVE  TruthInv'
  <2>1. \A root \in Roots, file \in Files :
          UNCHANGED sets /\ cache'[root][file] \in {cache[root][file], sets[root][file]}
    BY <1>24, PathFacts, NumberFacts DEF AdoptFindsGone, Flush, UpsertRows, TypeInv, RowsType
  <2>2. \A file \in Files : RecordKept(file)
    BY <1>24, RecordsKept, NextFileType DEF AdoptFindsGone, ProcessingFailure, AdoptReady
  <2> QED
    BY <1>24, <2>1, <2>2, StepKept DEF AdoptFindsGone, Flush, AdoptReady, PhaseKept, Early, RowsKept
<1>25. ASSUME Adopt
      PROVE  TruthInv'
  <2>1. PICK file \in Files : file = NextFile
    BY <1>25, NextFileType DEF Adopt, AdoptReady
  <2>2. file \notin SizeOnly => True(scanned[file], last[file], remote[0][file])
    <3>1. CASE sets[0][file] = scanned[file]
      BY <3>1, FileFacts DEF Good
    <3>2. CASE remote[0][file] = last[file]
      <4>1. Known(scanned[file], last[file]) /\ scanned[file] \in Contents /\ last[file] \in Versions
        BY FileFacts, NumberFacts DEF Known, FileInv, TypeInv, TreesType, PlanType
      <4> QED
        BY <3>2, <4>1, NewestIsTrue
    <3> QED
      BY <1>25, <2>1, <3>1, <3>2, Compared, NumberFacts DEF Adopt
  <2>3. ASSUME NEW other \in Files PROVE FileKept(other) /\ CopiesKept(other)
    <3>1. /\ UNCHANGED <<local, last, remote, record, cache, sets, scanned, live, task>>
          /\ other \in adopting' => other = file \/ other \in adopting
      BY <1>25, <2>1 DEF Adopt
    <3> QED
      BY <2>2, <3>1, FileFacts DEF FileKept, CopiesKept, FileInv, RecordTrue, WorkTrue
  <2>4. PhaseKept
    BY <1>25 DEF Adopt, AdoptReady, PhaseKept, Early
  <2> QED
    BY <2>3, <2>4, Kept DEF TruthInv
<1>26. ASSUME AdoptComparisonFails
      PROVE  TruthInv'
  <2>1. \A root \in Roots, file \in Files :
          UNCHANGED sets /\ cache'[root][file] \in {cache[root][file], sets[root][file]}
    BY <1>26, PathFacts, NumberFacts DEF AdoptComparisonFails, Flush, UpsertRows, TypeInv, RowsType
  <2>2. \A file \in Files : RecordKept(file)
    BY <1>26, RecordsKept, NextFileType DEF AdoptComparisonFails, ProcessingFailure, AdoptReady
  <2> QED
    BY <1>26, <2>1, <2>2, StepKept DEF AdoptComparisonFails, Flush, AdoptReady, PhaseKept, Early, RowsKept
<1>27. ASSUME QueueUpload
      PROVE  TruthInv'
  <2>1. \A root \in Roots, file \in Files :
          UNCHANGED sets /\ cache'[root][file] \in {cache[root][file], sets[root][file]}
    BY <1>27, PathFacts, NumberFacts DEF QueueUpload, Flush, UpsertRows, TypeInv, RowsType
  <2>2. \A file \in Files : RecordKept(file)
    BY <1>27, RecordsKept DEF QueueUpload
  <2> QED
    BY <1>27, <2>1, <2>2, StepKept DEF QueueUpload, Flush, AdoptReady, PhaseKept, Early, RowsKept
<1>28. ASSUME EndAdopt
      PROVE  TruthInv'
  <2>1. \A root \in Roots, file \in Files :
          UNCHANGED sets /\ cache'[root][file] \in {cache[root][file], sets[root][file]}
    BY <1>28, PathFacts, NumberFacts DEF EndAdopt, Flush, UpsertRows, TypeInv, RowsType
  <2>2. \A file \in Files : RecordKept(file)
    BY <1>28, RecordsKept DEF EndAdopt
  <2> QED
    BY <1>28, <2>1, <2>2, StepKept DEF EndAdopt, Flush, EnterDeletes, Finish, PhaseKept, Early, RowsKept
<1>29. ASSUME StartUploads
      PROVE  TruthInv'
  BY <1>29, StepKept DEF StartUploads, PhaseKept, Early, RecordKept, RowsKept
<1>30. ASSUME EndUploads
      PROVE  TruthInv'
  BY <1>30, StepKept DEF EndUploads, EnterDeletes, Finish, PhaseKept, Early, RecordKept, RowsKept
<1>31. ASSUME NEW file \in Files, Upload(file)
      PROVE  TruthInv'
  <2>1. PICK effect : effect = Uploaded(file)
    OBVIOUS
  <2>2. PICK content \in Contents : content = Visible(file) /\ file \in Paths
    BY PathFacts, VisibleType, NumberFacts DEF TypeInv, TreesType
  <2>3. /\ \A p \in Paths : effect[0][p] = (IF p = file THEN content ELSE remote[0][p])
        /\ \A other \in Roots \ {0} : effect[other] = remote[other]
    <3>1. effect = [remote EXCEPT ![0][file] = content]
      BY <2>1, <2>2 DEF Uploaded
    <3>2. remote \in [Roots -> Trees] /\ file \in Paths /\ content \in Contents
      BY <2>2 DEF TypeInv, TreesType
    <3> QED
      BY <3>1, <3>2, NumberFacts DEF Trees
  <2>4. content \in {0, last[file]}
    BY <2>2, FileFacts DEF Visible, FileInv
  <2>5. /\ \/ remote' = effect /\ content # 0 /\ \A other \in Files : other # file => task'[other] = task[other]
           \/ UNCHANGED remote /\ \A other \in Files : task'[other] = "ok" => task[other] = "ok"
        /\ UNCHANGED <<local, last, record, cache, sets, scanned, live, adopting, pc, answer, todo>>
    BY <1>31, <2>1, <2>2 DEF Upload, Answered, TypeInv, AnswersType
  <2>6. pc = "upload"
    BY <1>31 DEF Upload, PhaseInv
  <2>7. CASE UNCHANGED remote /\ \A other \in Files : task'[other] = "ok" => task[other] = "ok"
    BY <2>5, <2>6, <2>7, StepKept DEF PhaseKept, Early, RecordKept, RowsKept
  <2>8. CASE remote' = effect /\ content # 0 /\ \A other \in Files : other # file => task'[other] = task[other]
    <3>1. ASSUME NEW other \in Files PROVE FileKept(other)
      BY <2>3, <2>4, <2>5, <2>8, FileFacts, PathFacts DEF FileKept, FileInv, RecordTrue, WorkTrue
    <3>2. ASSUME NEW other \in Files PROVE CopiesKept(other)
      BY <2>3, <2>4, <2>5, <2>6, <2>8, FileFacts, PathFacts, NumberFacts DEF CopiesKept, Early
    <3>3. PhaseKept
      BY <2>5, <2>6 DEF PhaseKept, Early
    <3> QED
      BY <3>1, <3>2, <3>3, Kept DEF TruthInv
  <2> QED
    BY <2>5, <2>7, <2>8
<1>32. ASSUME NEW file \in Files, JoinUpload(file)
      PROVE  TruthInv'
  <2>1. /\ UNCHANGED <<local, last, remote, scanned, live, adopting, pc, answer, todo>> /\ pc = "upload"
        /\ \A other \in Files : task'[other] = "ok" => task[other] = "ok"
    BY <1>32 DEF JoinUpload, PhaseInv, Answered, TypeInv, AnswersType
  <2>2. PhaseKept
    BY <2>1 DEF PhaseKept, Early
  <2>3. ASSUME NEW other \in Files PROVE RecordKept(other)
    <3>1. \/ UNCHANGED record
          \/ record' = FileState(record, file, "skipped", FALSE)
          \/ task[file] = "ok" /\ record' = FileState(record, file, StatusAfterUpload(file), file \in hashed)
      BY <1>32 DEF JoinUpload, TypeInv, AnswersType, Answers
    <3> QED
      BY <3>1, RecordsKept
  <2>4. CASE task[file] = "ok"
    <3>1. /\ sets' = [sets EXCEPT ![0][file] = scanned[file]]
          /\ cache' = [cache EXCEPT ![0] = [path \in Paths |->
                          IF path \in {file} THEN sets'[0][path] ELSE @[path]]]
      BY <1>32, <2>4 DEF JoinUpload, UpsertRows
    <3>2. 0 \in Roots /\ Legacies \subseteq Roots \ {0} /\ Files \subseteq Paths
      BY NumberFacts, PathFacts
    <3>3. /\ \A other \in Files : sets'[0][other] = (IF other = file THEN scanned[file] ELSE sets[0][other])
          /\ \A root \in Legacies : sets'[root] = sets[root]
      BY <3>1, <3>2 DEF TypeInv, SetsType, Trees
    <3>4. /\ \A other \in Files : cache'[0][other] = (IF other = file THEN scanned[file] ELSE cache[0][other])
          /\ \A root \in Legacies : cache'[root] = cache[root]
      BY <3>1, <3>2, <3>3 DEF TypeInv, RowsType, Trees
    <3>5. Good(scanned[file], file)
      BY <2>4, FileFacts
    <3>6. ASSUME NEW other \in Files PROVE FileKept(other)
      BY <2>1, <2>3, FileFacts DEF FileKept, FileInv, RecordTrue, WorkTrue, RecordKept
    <3>7. ASSUME NEW other \in Files PROVE CopiesKept(other)
      BY <2>1, <3>3, <3>4, <3>5, FileFacts DEF CopiesKept
    <3> QED
      BY <2>2, <3>6, <3>7, Kept DEF TruthInv
  <2>5. CASE task[file] # "ok"
    <3>1. UNCHANGED <<cache, sets>>
      BY <1>32, <2>5 DEF JoinUpload, TypeInv, AnswersType, Answers
    <3> QED
      BY <2>1, <2>2, <2>3, <3>1, StepKept DEF RowsKept
  <2> QED
    BY <2>4, <2>5
<1>33. ASSUME CheckDelete
      PROVE  TruthInv'
  <2>1. NextDelete[1] \in Roots /\ NextDelete[2] \in Paths
    BY <1>33, NextDeleteFacts DEF CheckDelete, DeleteReady, PhaseInv
  <2>2. RowsWithout(NextDelete[1], NextDelete[2]) =>
          \A root \in Roots, file \in Files : cache'[root][file] \in {0, cache[root][file]}
    BY <2>1, PathFacts DEF RowsWithout, Without, TypeInv, RowsType
  <2> QED
    BY <1>33, <2>2, StepKept DEF CheckDelete, DeleteReady, Finish, PhaseKept, Early, RecordKept, RowsKept
<1>34. ASSUME JoinDelete
      PROVE  TruthInv'
  <2>1. NextDelete[1] \in Roots /\ NextDelete[2] \in Paths
    BY <1>34, NextDeleteFacts DEF JoinDelete, DeleteReady, PhaseInv
  <2>2. RowsWithout(NextDelete[1], NextDelete[2]) =>
          \A root \in Roots, file \in Files : cache'[root][file] \in {0, cache[root][file]}
    BY <2>1, PathFacts DEF RowsWithout, Without, TypeInv, RowsType
  <2>3. \A file \in Files : RecordKept(file)
    BY <1>34, RecordsKept DEF JoinDelete, TypeInv, AnswersType
  <2>4. UNCHANGED cache \/ RowsWithout(NextDelete[1], NextDelete[2])
    BY <1>34 DEF JoinDelete, TypeInv, AnswersType
  <2>5. /\ UNCHANGED <<local, last, remote, sets, scanned, live, task>> /\ adopting' \subseteq adopting
        /\ pc = "delete" /\ pc' \in {"delete", "finish"}
    BY <1>34 DEF JoinDelete, TypeInv, AnswersType, Finish
  <2> QED
    BY <2>2, <2>3, <2>4, <2>5, StepKept DEF PhaseKept, Early, RowsKept
<1>35. ASSUME EndDeletes
      PROVE  TruthInv'
  BY <1>35, StepKept DEF EndDeletes, Finish, PhaseKept, Early, RecordKept, RowsKept
<1>36. ASSUME SendDelete
      PROVE  TruthInv'
  <2>1. NextDelete[1] \in Roots /\ NextDelete[2] \in Paths
    BY <1>36, NextDeleteFacts DEF SendDelete, DeleteReady
  <2>2. PICK effect : effect = [remote EXCEPT ![NextDelete[1]] = Without(@, NextDelete[2])]
    OBVIOUS
  <2>3. \A root \in Roots, file \in Files : effect[root][file] \in {0, remote[root][file]}
    BY <2>1, <2>2, RemovedType, PathFacts DEF TypeInv, TreesType
  <2>4. Request(TRUE, effect) /\ pc = "delete"
    BY <1>36, <2>2 DEF SendDelete, DeleteReady
  <2> QED
    BY <2>3, <2>4, StepKept DEF Request, PhaseKept, Early, RecordKept, RowsKept
<1>37. ASSUME CollisionFails
      PROVE  TruthInv'
  BY <1>37, StepKept DEF CollisionFails, FailRoot, Finish, PhaseKept, Early, RecordKept, RowsKept
<1>38. ASSUME QuotaExceeded
      PROVE  TruthInv'
  <2>1. \A root \in Roots, file \in Files :
          UNCHANGED sets /\ cache'[root][file] \in {cache[root][file], sets[root][file]}
    BY <1>38, PathFacts, NumberFacts DEF QuotaExceeded, Flush, UpsertRows, TypeInv, RowsType
  <2>2. \A file \in Files : RecordKept(file)
    BY <1>38, RecordsKept DEF QuotaExceeded
  <2> QED
    BY <1>38, <2>1, <2>2, StepKept DEF QuotaExceeded, Flush, FailRoot, Finish, PhaseKept, Early, RowsKept
<1>39. ASSUME Cancel
      PROVE  TruthInv'
  BY <1>39, StepKept DEF Cancel, PhaseKept, Early, RecordKept, RowsKept
<1>40. ASSUME Unmount
      PROVE  TruthInv'
  BY <1>40, StepKept DEF Unmount, PhaseKept, Early, RecordKept, RowsKept
<1>41. ASSUME Mount
      PROVE  TruthInv'
  BY <1>41, StepKept, PathFacts DEF Mount, TypeInv, TreesType, PhaseKept, Early, RecordKept, RowsKept
<1>42. ASSUME NEW kind \in FaultKinds, LoadFails(kind)
      PROVE  TruthInv'
  BY <1>42, StepKept DEF LoadFails, FailRoot, PartialFailRoot, Finish, PhaseKept, Early, RecordKept, RowsKept
<1>43. ASSUME NEW kind \in FaultKinds, ParentOrListingFails(kind)
      PROVE  TruthInv'
  BY <1>43, EndKept DEF ParentOrListingFails, RunFails, RecordKept
<1>44. ASSUME NEW kind \in FaultKinds, Interrupted(kind)
      PROVE  TruthInv'
  <2>1. \A file \in Files : RecordKept(file)
    BY <1>44, RecordsKept DEF Interrupted
  <2> QED
    BY <1>44, <2>1, EndKept DEF Interrupted
<1>45. ASSUME NEW root \in Roots, NEW dir \in Dirs, ListingNotFound(root, dir)
      PROVE  TruthInv'
  <2>1. \A r \in Roots, file \in Files : remote'[r][file] \in {0, remote[r][file]}
    BY <1>45, RemovedType, PathFacts DEF ListingNotFound, TypeInv, TreesType
  <2>2. \A r \in Roots, file \in Files : sets'[r][file] \in {0, remote[r][file]}
    BY <1>45, PathFacts DEF ListingNotFound, Listed, OnlyRoot
  <2> QED
    BY <1>45, <2>1, <2>2, StepKept DEF ListingNotFound, PhaseKept, Early, RecordKept, RowsKept
<1>46. ASSUME NEW root \in Roots, NEW path \in Paths, RemoveRemote(root, path)
      PROVE  TruthInv'
  <2>1. \A r \in Roots, file \in Files : remote'[r][file] \in {0, remote[r][file]}
    BY <1>46, RemovedType, PathFacts DEF RemoveRemote, TypeInv, TreesType
  <2> QED
    BY <1>46, <2>1, StepKept DEF RemoveRemote, PhaseKept, RecordKept, RowsKept
<1>47. ASSUME NEW file \in Files, WriteLocal(file)
      PROVE  TruthInv'
  <2>1. /\ UNCHANGED <<remote, record, cache, sets, scanned, live, adopting, task, answer, pc, todo>>
        /\ local' = [local EXCEPT ![file] = last[file] + 1] /\ last' = [last EXCEPT ![file] = last[file] + 1]
    BY <1>47 DEF WriteLocal, Edit
  <2>2. LegacyInv'
    BY <2>1 DEF TruthInv, LegacyInv
  <2>3. ASSUME NEW other \in Files
        PROVE  /\ last[other] \in Nat /\ last'[other] \in Nat /\ last[other] <= last'[other]
               /\ local'[other] \in {local[other], last'[other]}
               /\ last'[other] # last[other] => local'[other] = last'[other]
    BY <2>1, FileFacts, PathFacts DEF TypeInv, TreesType
  <2>4. VersionInv'
    <3> SUFFICES ASSUME NEW other \in Files
                 PROVE  FileInv(other)' /\ \A root \in Roots : CopyInv(other, root)'
      BY DEF VersionInv
    <3>1. FileInv(other) /\ scanned[other] \in Nat /\ \A root \in Roots : CopyInv(other, root)
      BY FileFacts DEF TruthInv, VersionInv
    <3>2. record[other].version \in Nat
      BY NumberFacts DEF TypeInv, RecordType
    <3>3. FileInv(other)'
      BY <2>1, <2>3, <3>1, <3>2 DEF FileInv
    <3>4. ASSUME NEW content \in Contents, Known(content, last[other]) PROVE Known(content, last'[other])
      BY <2>3, <3>4, NumberFacts DEF Known
    <3>5. ASSUME NEW root \in Roots PROVE CopyInv(other, root)'
      <4>1. remote[root][other] \in Contents /\ cache[root][other] \in Contents /\ sets[root][other] \in Contents
        BY PathFacts DEF TypeInv, TreesType, RowsType, SetsType, Trees
      <4> QED
        BY <2>1, <3>1, <3>4, <4>1 DEF CopyInv
    <3> QED
      BY <3>3, <3>5
  <2>5. TrueInv'
    <3> SUFFICES ASSUME NEW other \in Files \ SizeOnly
                 PROVE  RowTrue(other)' /\ RecordTrue(other)' /\ WorkTrue(other)'
      BY DEF TrueInv
    <3>1. RowTrue(other) /\ RecordTrue(other) /\ WorkTrue(other)
      BY DEF TruthInv, TrueInv
    <3>2. ASSUME NEW content \in Nat, True(content, last[other], remote[0][other])
          PROVE  True(content, last'[other], remote[0][other])
      BY <2>3, <3>2 DEF True
    <3>3. 0 \in Roots /\ other \in Paths /\ Contents \subseteq Nat /\ Versions \subseteq Nat
      BY NumberFacts, PathFacts
    <3>4. /\ cache[0][other] \in Nat /\ sets[0][other] \in Nat /\ scanned[other] \in Nat
          /\ record[other].version \in Nat
      <4>1. cache[0][other] \in Nat /\ sets[0][other] \in Nat
        BY <3>3 DEF TypeInv, RowsType, SetsType, Trees
      <4>2. record[other].version \in Nat
        BY <3>3 DEF TypeInv, RecordType
      <4> QED
        BY <4>1, <4>2, FileFacts
    <3>5. RowTrue(other)' /\ RecordTrue(other)'
      BY <2>1, <3>1, <3>2, <3>4 DEF RowTrue, RecordTrue
    <3>6. WorkTrue(other)'
      <4>1. NextFile' = NextFile /\ LegacyWith(other)' = LegacyWith(other)
        BY <2>1 DEF NextFile, FirstFile, LegacyWith
      <4>2. ASSUME pc = "merge", answer = "ok", other = NextFile
            PROVE  sets[First(LegacyWith(other))][other] \in Nat
        <5>1. PICK root \in Legacies : root = First(LegacyWith(other))
          BY <4>2, FirstType DEF PhaseInv, Merges, LegacyWith
        <5> QED
          BY <3>3, <5>1, NumberFacts DEF TypeInv, SetsType, Trees
      <4> QED
        BY <2>1, <3>1, <3>2, <3>4, <4>1, <4>2 DEF WorkTrue
    <3> QED
      BY <3>5, <3>6
  <2> QED
    BY <2>2, <2>4, <2>5 DEF TruthInv
<1>48. ASSUME NEW path \in Paths, RemoveLocal(path)
      PROVE  TruthInv'
  BY <1>48, StepKept, PathFacts DEF RemoveLocal, Edit, Without, PhaseKept, Early, RecordKept, RowsKept
<1>49. CASE UNCHANGED vars
  BY <1>49, StepKept DEF vars, PhaseKept, RecordKept, RowsKept
<1>50. CASE StartRun \/ RecordMissingRoot \/ FinishRun \/ ScanSteps
  BY <1>50, <1>1, <1>2, <1>3, <1>4, <1>5, <1>6, <1>7, <1>8, <1>9 DEF ScanSteps
<1>51. CASE MoveSteps
  BY <1>51, <1>10, <1>11, <1>12, <1>13, <1>14, <1>15, <1>16, <1>17, <1>18, <1>19, <1>20, <1>21, <1>22 DEF MoveSteps
<1>52. CASE UploadSteps
  BY <1>52, <1>23, <1>24, <1>25, <1>26, <1>27, <1>28, <1>29, <1>30, <1>31, <1>32 DEF UploadSteps
<1>53. CASE DeleteSteps
  BY <1>53, <1>33, <1>34, <1>35, <1>36 DEF DeleteSteps
<1>54. CASE FaultSteps
  BY <1>54, <1>37, <1>38, <1>39, <1>40, <1>41, <1>42, <1>43, <1>44, <1>45, <1>46 DEF FaultSteps
<1>55. CASE EditSteps
  BY <1>55, <1>47, <1>48 DEF EditSteps
<1> QED
  BY <1>49, <1>50, <1>51, <1>52, <1>53, <1>54, <1>55 DEF Next, EngineSteps

\* An empty database says nothing false.
LEMMA InitTruth == Init => RootInv /\ TruthInv
<1> SUFFICES ASSUME Init PROVE RootInv /\ TruthInv
  OBVIOUS
<1>1. 0 \in Roots /\ Legacies \subseteq Roots /\ Files \subseteq Paths /\ <<>> \in Paths
  BY NumberFacts, PathFacts
<1>2. TypeInv
  BY InitType
<1>3. \A root \in Roots : remote[root] \in Starts[root]
  BY DEF Init
<1>4. RootInv
  <2>1. Rooted
    BY <1>3, TreesAssumption DEF Rooted
  <2>2. NothingKnown
    BY <1>1 DEF Init, NothingKnown, NoTasks
  <2> QED
    BY <2>1, <2>2 DEF RootInv
<1>5. \A root \in Roots, file \in Files : sets[root][file] = 0 /\ cache[root][file] = 0
  BY <1>1 DEF Init, Empty
<1>6. VersionInv
  <2> SUFFICES ASSUME NEW file \in Files
               PROVE  FileInv(file) /\ \A root \in Roots : CopyInv(file, root)
    BY DEF VersionInv
  <2>1. last[file] \in Nat
    BY <1>2, NumberFacts DEF TypeInv, TreesType
  <2>2. FileInv(file)
    BY <2>1 DEF Init, FileInv, Old
  <2>3. scanned[file] = 0
    BY DEF Init
  <2>4. ASSUME NEW root \in Roots PROVE Known(remote[root][file], last[file])
    <3>1. remote[root][file] \in {0, 1, Foreign}
      BY <1>3, TreesAssumption
    <3> QED
      BY <2>1, <3>1 DEF Known
  <2> QED
    BY <1>5, <2>1, <2>2, <2>3, <2>4 DEF CopyInv, Known, Old
<1>7. LegacyInv
  BY <1>1, <1>5 DEF LegacyInv
<1>8. TrueInv
  BY <1>1, <1>5 DEF Init, NoTasks, TrueInv, RowTrue, RecordTrue, WorkTrue, True
<1> QED
  BY <1>4, <1>6, <1>7, <1>8 DEF TruthInv

\* What adoption or upload recorded is true, after any number of runs, crashes, edits,
\* timeouts and failed statements, for any trees, files and legacy roots: a record with
\* the size and mtime of a local file up to full_hash_max_bytes has that file in its
\* canonical place, unless nothing is there.  Of larger files size is all that the code
\* compares, and nothing is said of their content.  Others may remove what they like from the disk except the
\* canonical root: once that is gone, the next top-level move brings an old legacy tree
\* under records that still say synced.
THEOREM AdoptionsAreTrue == Spec /\ [][CanonicalRootStays]_vars => []AdoptedMeansEqual
<1> DEFINE Inv == TypeInv /\ PhaseInv /\ RootInv /\ TruthInv
<1>1. Init => Inv
  BY InitType, InitPhase, InitTruth
<1>2. Inv /\ [Next]_vars /\ [CanonicalRootStays]_vars => Inv'
  BY NextType, NextPhase, NextRoot, NextTruth
<1>3. Inv => AdoptedMeansEqual
  <2> SUFFICES ASSUME Inv, NEW file \in Files \ SizeOnly,
                      record[file].status \in {"synced", "changed"},
                      local[file] # 0, record[file].version = local[file], remote[0][file] # 0
               PROVE  remote[0][file] = local[file]
    BY DEF AdoptedMeansEqual
  <2>1. local[file] = last[file] /\ last[file] \in Nat /\ RecordTrue(file)
    BY FileFacts DEF FileInv
  <2>2. local[file] # Foreign
    BY PathFacts, NumberFacts DEF TypeInv, TreesType
  <2> QED
    BY <2>1, <2>2 DEF RecordTrue, True
<1> QED
  BY <1>1, <1>2, <1>3, PTL DEF Spec

-----------------------------------------------------------------------------
(* What apply_deletes removes from the disk.                                 *)

\* Nothing has to be kept at a path: it has gone, somebody has changed it since the
\* scan, or the run has reported it.
Excused(path) == Visible(path) = 0 \/ path \in touched \cup reported

\* What is there locally, the root aside, has its directories.
LocalClosed == \A path \in Paths : local[path] # 0 => \A dir \in Ancestors(path) : local[dir] # 0

\* What is in a deleted subtree is excused.
TombsExcused ==
    /\ \A prefix \in tombs, path \in Paths : Covers(prefix, path) => Excused(path)
    /\ pc \in {"idle", "scan", "live"} => tombs = {}

\* So is a path that the plan lacks.
PlanComplete ==
    /\ AncestorClosed(live)
    /\ pc \notin {"idle", "scan"} => \A path \in Paths \ {<<>>} : path \in live \/ Excused(path)

\* A file of the plan is as the scan saw it, or excused.
ScanCurrent == \A file \in live \cap Files : Excused(file) \/ scanned[file] = Visible(file)

\* What a delete of the canonical root covers is excused.
DeletesExcused ==
    \A d \in deletes, path \in Paths : d[1] = 0 /\ Covers(d[2], path) => Excused(path)

\* The plan of a run spares whatever somebody could still want.
PlanInv == LocalClosed /\ TombsExcused /\ PlanComplete /\ ScanCurrent /\ DeletesExcused

\* What the sets of a fresh listing have of the canonical tree is there, a file with its
\* content.
CanonicalListed ==
    \A path \in Paths : sets[0][path] # 0 =>
        \/ Excused(path)
        \/ path \in Files /\ task[path] # "none"
        \/ IF path \in Files THEN remote[0][path] = sets[0][path] ELSE remote[0][path] # 0

\* What they have of a legacy file is there, or nothing is.
LegacyListed ==
    \A root \in Legacies, file \in Files :
        sets[root][file] # 0 => remote[root][file] \in {0, sets[root][file]}

\* The directories that need no request any more, and the answer for the next one.
DirsMade ==
    /\ pc \in {"dirs", "merge", "adopt", "upload", "delete"} =>
          \A dir \in live \cap Dirs :
              (pc = "dirs" /\ dir \in todo) \/ Excused(dir) \/ remote[0][dir] # 0
    /\ pc = "dirs" /\ answer = "ok" => Excused(NextDir) \/ remote[0][NextDir] # 0

\* A merge move that has been answered has brought the listed file.
MergeMoved ==
    pc = "merge" /\ answer = "ok" =>
        Excused(NextFile) \/ remote[0][NextFile] = sets[First(LegacyWith(NextFile))][NextFile]

\* The files that are neither waiting nor in flight are in the canonical place.
FilesPlaced ==
    /\ pc \in {"adopt", "upload", "delete"} =>
          \A file \in live \cap Files :
              \/ pc # "delete" /\ file \in todo \cup batch
              \/ task[file] # "none" \/ Excused(file) \/ Mirrored(file)
    /\ \A file \in Files : task[file] = "ok" => Excused(file) \/ remote[0][file] = Visible(file)

\* Before the inventory is loaded there are no sets.
SetsInTime ==
    pc \in {"idle", "scan", "live", "sets"} => \A root \in Roots, path \in Paths : sets[root][path] = 0

\* Over fresh listings, whatever the run has dealt with is in the canonical place.
PlacedInv ==
    /\ SetsInTime
    /\ ~fromCache => CanonicalListed /\ LegacyListed /\ DirsMade /\ MergeMoved /\ FilesPlaced

\* What is excused stays so while the run goes on, and what is not looks as it did.
LEMMA ExcusedStays ==
    ASSUME NEW path \in Paths, touched \subseteq touched', reported \subseteq reported',
           Visible(path)' = Visible(path) \/ path \in touched'
    PROVE  /\ Excused(path) => Excused(path)'
           /\ Excused(path)' \/ (~Excused(path) /\ Visible(path)' = Visible(path))
  BY DEF Excused

\* A step of a run that goes on keeps the plan, if what it adds to the deleted subtrees
\* and to the deletes is excused.
LEMMA PlanKept ==
    ASSUME TypeInv, PlanInv, LocalClosed', UNCHANGED <<live, scanned>>,
           touched \subseteq touched', reported \subseteq reported',
           \A path \in Paths : Visible(path)' = Visible(path) \/ path \in touched',
           \A prefix \in tombs' \ tombs, path \in Paths : Covers(prefix, path) => Excused(path),
           \A d \in deletes' \ deletes, path \in Paths :
               d[1] = 0 /\ Covers(d[2], path) => Excused(path),
           pc' \in {"idle", "scan", "live"} => pc \in {"idle", "scan", "live"} /\ UNCHANGED tombs,
           pc \in {"idle", "scan"} => pc' \in {"idle", "scan"}
    PROVE  PlanInv'
<1>1. \A path \in Paths : Excused(path) => Excused(path)'
  BY ExcusedStays
<1>2. TombsExcused'
  BY <1>1 DEF PlanInv, TombsExcused
<1>3. PlanComplete'
  BY <1>1 DEF PlanInv, PlanComplete, AncestorClosed
<1>4. ScanCurrent'
  <2> SUFFICES ASSUME NEW file \in live \cap Files
               PROVE  Excused(file)' \/ scanned[file] = Visible(file)'
    BY DEF ScanCurrent
  <2>1. file \in Paths
    BY PathFacts
  <2> QED
    BY <2>1, ExcusedStays DEF PlanInv, ScanCurrent
<1>5. DeletesExcused'
  BY <1>1 DEF PlanInv, DeletesExcused
<1> QED
  BY <1>2, <1>3, <1>4, <1>5 DEF PlanInv

\* In particular if it leaves the local tree alone and adds nothing.
LEMMA PlanQuiet ==
    ASSUME TypeInv, PlanInv, UNCHANGED <<local, live, scanned, tombs>>,
           touched \subseteq touched', reported \subseteq reported', deletes' \subseteq deletes,
           pc' \in {"idle", "scan", "live"} => pc \in {"idle", "scan", "live"},
           pc \in {"idle", "scan"} => pc' \in {"idle", "scan"}
    PROVE  PlanInv'
<1>1. LocalClosed'
  BY DEF PlanInv, LocalClosed
<1>2. \A path \in Paths : Visible(path)' = Visible(path)
  BY DEF Visible
<1> QED
  BY <1>1, <1>2, PlanKept

\* The end of a run leaves no plan.
LEMMA PlanEnds ==
    ASSUME PlanInv, UNCHANGED local, EndRun
    PROVE  PlanInv'
  BY DEF PlanInv, EndRun, LocalClosed, TombsExcused, PlanComplete, ScanCurrent, DeletesExcused,
         AncestorClosed

\* Below a directory that is not there nothing is.
LEMMA BelowMissing ==
    ASSUME LocalClosed, NEW dir \in Paths, dir # <<>>, Visible(dir) = 0,
           NEW path \in Paths, Covers(dir, path)
    PROVE  Visible(path) = 0
<1>1. CASE local[<<>>] = 0 \/ dir = path
  BY <1>1 DEF Visible
<1>2. CASE local[<<>>] # 0 /\ dir # path
  <2>1. dir \in Ancestors(path)
    BY <1>2, CoversIsAncestor, PathFacts
  <2>2. local[dir] = 0
    BY <1>2 DEF Visible
  <2> QED
    BY <2>1, <2>2 DEF LocalClosed, Visible
<1> QED
  BY <1>1, <1>2

\* The topmost missing directory above a path is not there, nor is what is below it.
LEMMA MissingIsGone ==
    ASSUME LocalClosed, NEW file \in Files, MissingAncestors(file, LocalDirs) # {},
           NEW path \in Paths, Covers(Shortest(MissingAncestors(file, LocalDirs)), path)
    PROVE  Visible(path) = 0
<1> DEFINE missing == MissingAncestors(file, LocalDirs)
<1>1. file \in Paths \ {<<>>} /\ file \in Seq(STRING)
  BY PathFacts
<1>2. missing \subseteq Dirs \ LocalDirs
  BY <1>1, AboveIsDirectory DEF MissingAncestors
<1>3. missing \subseteq Seq(STRING) \ {<<>>}
  BY <1>1, AncestorsAreSeqs DEF MissingAncestors
<1>4. Shortest(missing) \in missing
  BY <1>3, ShortestIsLeast
<1>5. Shortest(missing) \in Paths /\ Shortest(missing) # <<>> /\ Visible(Shortest(missing)) = 0
  BY <1>2, <1>3, <1>4, PathFacts DEF LocalDirs
<1> QED
  BY <1>5, BelowMissing

\* A file that is newly found gone is not there.
LEMMA NewlyGoneIsGone ==
    ASSUME LocalClosed, NEW file \in Files, NewlyGone(file)
    PROVE  Visible(file) = 0
<1>1. file \in Paths \ {<<>>} /\ file \in Seq(STRING)
  BY PathFacts
<1>2. PICK dir \in Ancestors(file) : dir \notin LocalDirs
  BY DEF NewlyGone, MissingAncestors
<1>3. dir \in Dirs /\ dir \in Paths /\ dir # <<>> /\ Covers(dir, file)
  BY <1>1, <1>2, AboveIsDirectory, AncestorCovers, PathFacts
<1>4. Visible(dir) = 0
  BY <1>2, <1>3 DEF LocalDirs
<1> QED
  BY <1>1, <1>3, <1>4, BelowMissing

\* The tombstones that are added for such files excuse what they cover.
LEMMA NewTombsExcuse ==
    ASSUME LocalClosed, NEW files \in SUBSET Files, \A file \in files : NewlyGone(file),
           NEW prefix \in TombsWith(files) \ tombs, NEW path \in Paths, Covers(prefix, path)
    PROVE  Excused(path)
<1>1. PICK file \in files : prefix = Shortest(MissingAncestors(file, LocalDirs))
  BY DEF TombsWith, AddDeletedSubtrees
<1>2. MissingAncestors(file, LocalDirs) # {}
  BY DEF NewlyGone
<1> QED
  BY <1>1, <1>2, MissingIsGone DEF Excused

\* A file in a deleted subtree is excused.
LEMMA CoveredIsExcused ==
    ASSUME PlanInv, NEW path \in Paths, CoveredBySome(tombs, path)
    PROVE  Excused(path)
  BY DEF PlanInv, TombsExcused, CoveredBySome

\* What a delete of the canonical root covers is excused.
LEMMA CanonicalDeletesExcused ==
    ASSUME TypeInv, PlanInv, pc \notin {"idle", "scan"},
           NEW d \in DeleteCandidates, d[1] = 0, NEW path \in Paths, Covers(d[2], path)
    PROVE  Excused(path)
<1> DEFINE known == KnownLive(live \cap Dirs, live \cap Files, tombs)
           target == d[2]
<1>1. target \in CoalescedDeletes(known, In(sets[0]))
  BY NumberFacts DEF DeleteCandidates
<1>2. PICK p \in In(sets[0]) : /\ DeleteCandidate(p) /\ p \notin known
                               /\ target = (IF DeadAncestors(p, known) = {} THEN p
                                            ELSE Shortest(DeadAncestors(p, known)))
  BY <1>1 DEF CoalescedDeletes
<1>3. p \in Paths \ {<<>>} /\ p \in Seq(STRING)
  BY <1>2, PathFacts DEF In, DeleteCandidate
<1>4. target \in Paths \ {<<>>} /\ target \notin known
  <2>1. CASE DeadAncestors(p, known) = {}
    BY <1>2, <1>3, <2>1
  <2>2. CASE DeadAncestors(p, known) # {}
    <3>1. DeadAncestors(p, known) \subseteq Seq(STRING) \ {<<>>}
      BY <1>3, AncestorsAreSeqs DEF DeadAncestors
    <3>2. target \in DeadAncestors(p, known)
      BY <1>2, <2>2, <3>1, ShortestIsLeast
    <3> QED
      BY <1>3, <3>1, <3>2, AboveIsDirectory, PathFacts DEF DeadAncestors, Dead
  <2> QED
    BY <2>1, <2>2
<1>5. target \in Seq(STRING) /\ path \in Seq(STRING) /\ path # <<>>
  <2>1. target \in Seq(STRING) /\ path \in Seq(STRING) /\ target # <<>>
    BY <1>4, PathFacts
  <2> QED
    BY <2>1 DEF Covers
<1>6. CASE path \notin live
  BY <1>5, <1>6 DEF PlanInv, PlanComplete
<1>7. CASE CoveredBySome(tombs, path)
  BY <1>7, CoveredIsExcused
<1>8. CASE path \in live /\ ~CoveredBySome(tombs, path)
  <2>1. target \in live
    BY <1>4, <1>5, <1>8, CoversIsAncestor DEF PlanInv, PlanComplete, AncestorClosed
  <2>2. CoveredBySome(tombs, target)
    BY <1>4, <2>1 DEF KnownLive, Paths
  <2>3. PICK prefix \in tombs : Covers(prefix, target)
    BY <2>2 DEF CoveredBySome
  <2>4. prefix \in Seq(STRING)
    BY <2>3, PathFacts DEF TypeInv, RunType
  <2>5. Covers(prefix, path)
    BY <1>5, <2>3, <2>4, CoversTransitive
  <2> QED
    BY <1>8, <2>3, <2>5 DEF CoveredBySome
<1> QED
  BY <1>6, <1>7, <1>8

\* The local tree stays closed, and a step changes only what it marks as touched.
LEMMA LocalSteps ==
    ASSUME TypeInv, PlanInv,
           \/ Unmount \/ Mount
           \/ \E file \in Files : WriteLocal(file)
           \/ \E path \in Paths : RemoveLocal(path)
    PROVE  /\ LocalClosed' /\ touched \subseteq touched'
           /\ \A path \in Paths : Visible(path)' = Visible(path) \/ path \in touched'
           /\ UNCHANGED <<remote, pc, plan, tombs, inventory, queues, answer, task, reported>>
<1>1. /\ local \in [Paths -> Versions] /\ touched \subseteq Paths /\ <<>> \in Paths /\ LocalClosed
      /\ \A path \in Paths : path \in Seq(STRING) /\ Ancestors(path) \subseteq Paths \ {<<>>}
  <2>1. \A path \in Paths : path \in Seq(STRING) /\ Ancestors(path) \subseteq Paths
    BY TreesAssumption DEF Paths
  <2> QED
    BY <2>1, PathFacts, AncestorsAreSeqs DEF TypeInv, TreesType, RunType, PlanInv
<1>2. UNCHANGED <<remote, pc, plan, tombs, inventory, queues, answer, task, reported>>
  BY DEF Unmount, Mount, WriteLocal, RemoveLocal, Edit, plan, inventory, queues
<1>3. CASE Unmount
  <2>1. local' = [local EXCEPT ![<<>>] = 0] /\ touched' = Paths
    BY <1>3 DEF Unmount
  <2> QED
    BY <1>1, <1>2, <2>1 DEF LocalClosed
<1>4. CASE Mount
  <2>1. local' = [local EXCEPT ![<<>>] = 1] /\ touched' = Paths
    BY <1>4 DEF Mount
  <2>2. Ancestors(<<>>) = {}
    BY DEF Ancestors
  <2> QED
    BY <1>1, <1>2, <2>1, <2>2 DEF LocalClosed
<1>5. ASSUME NEW file \in Files, WriteLocal(file)
      PROVE  /\ LocalClosed' /\ touched \subseteq touched'
             /\ \A path \in Paths : Visible(path)' = Visible(path) \/ path \in touched'
  <2>1. /\ file \in Paths \ {<<>>} /\ local' = [local EXCEPT ![file] = last[file] + 1]
        /\ touched' = touched \cup {file} /\ Ancestors(file) \subseteq LocalDirs
    BY <1>5, PathFacts DEF WriteLocal, Edit
  <2>2. \A dir \in Ancestors(file) : local[dir] # 0
    BY <2>1 DEF LocalDirs, Visible
  <2>3. \A path \in Paths : path # file => local'[path] = local[path]
    BY <1>1, <2>1
  <2>4. last[file] + 1 # 0
    <3>1. last[file] \in Nat
      BY NumberFacts DEF TypeInv, TreesType
    <3> QED
      BY <3>1
  <2>5. \A path \in Paths : local[path] # 0 => local'[path] # 0
    BY <1>1, <2>1, <2>4
  <2>6. LocalClosed'
    BY <1>1, <2>2, <2>3, <2>5 DEF LocalClosed
  <2> QED
    BY <1>1, <2>1, <2>3, <2>6 DEF Visible
<1>6. ASSUME NEW path \in Paths, RemoveLocal(path)
      PROVE  /\ LocalClosed' /\ touched \subseteq touched'
             /\ \A p \in Paths : Visible(p)' = Visible(p) \/ p \in touched'
  <2>1. /\ path # <<>> /\ local' = Without(local, path)
        /\ touched' = touched \cup { p \in Paths : Covers(path, p) }
    BY <1>6 DEF RemoveLocal, Edit
  <2>2. \A p \in Paths : local'[p] = IF Covers(path, p) THEN 0 ELSE local[p]
    BY <2>1 DEF Without
  <2>3. ~Covers(path, <<>>)
    BY <1>1, <2>1 DEF Covers
  <2>4. ASSUME NEW p \in Paths, local'[p] # 0, NEW dir \in Ancestors(p)
        PROVE  local'[dir] # 0
    <3>1. local[p] # 0 /\ ~Covers(path, p) /\ local[dir] # 0 /\ dir \in Paths
      BY <1>1, <2>2, <2>4 DEF LocalClosed
    <3>2. Covers(dir, p)
      BY <1>1, <2>4, AncestorCovers
    <3>3. ~Covers(path, dir)
      BY <1>1, <3>1, <3>2, CoversTransitive
    <3> QED
      BY <2>2, <3>1, <3>3
  <2>5. LocalClosed'
    BY <2>4 DEF LocalClosed
  <2> QED
    BY <1>1, <2>1, <2>2, <2>3, <2>5 DEF Visible
<1> QED
  BY <1>3, <1>4, <1>5, <1>6, <1>2

\* The scan makes a complete plan.
LEMMA ScanPlans ==
    ASSUME TypeInv, PlanInv, PhaseInv,
           NEW unreadable \in SUBSET LocalDirs, NEW busy \in SUBSET Files, Scan(unreadable, busy)
    PROVE  PlanInv'
<1>1. /\ pc = "scan" /\ pc' = "live" /\ UNCHANGED <<local, tombs, deletes>>
      /\ live' = Walked(unreadable) \ busy
      /\ scanned' = [file \in Files |-> IF file \in live' THEN local[file] ELSE 0]
      /\ reported' = In(local) \ (live' \cup {<<>>})
  BY DEF Scan, trees, queues
<1>2. LocalClosed'
  BY <1>1 DEF PlanInv, LocalClosed
<1>3. tombs' = {} /\ deletes' = {}
  BY <1>1 DEF PlanInv, TombsExcused, PhaseInv
<1>4. ASSUME NEW path \in Paths \ {<<>>}, path \notin live'
      PROVE  Excused(path)'
  BY <1>1, <1>4 DEF Excused, Visible, In
<1>5. ASSUME NEW file \in live' \cap Files
      PROVE  scanned'[file] = Visible(file)'
  BY <1>1, <1>5 DEF Walked, Visible
<1>6. AncestorClosed(live')
  <2> SUFFICES ASSUME NEW path \in live', NEW dir \in Ancestors(path)
               PROVE  dir \in live'
    BY DEF AncestorClosed
  <2>1. /\ path \in Paths \ {<<>>} /\ Visible(path) # 0 /\ path \in Seq(STRING)
        /\ ~\E top \in unreadable : Below(path, top)
    BY <1>1, PathFacts DEF Walked
  <2>2. /\ dir \in Dirs /\ dir \in Paths \ {<<>>} /\ dir \in Seq(STRING)
        /\ Covers(dir, path) /\ Len(dir) < Len(path)
    BY <2>1, AboveIsDirectory, AncestorCovers, PathFacts
  <2>3. Visible(dir) # 0
    BY <2>1, <2>2, BelowMissing DEF PlanInv
  <2>4. ASSUME NEW top \in unreadable, Below(dir, top) PROVE FALSE
    <3>1. top \in Seq(STRING) /\ Covers(top, dir) /\ Len(top) \in Nat
      BY <2>4, PathFacts DEF LocalDirs, Below
    <3>2. Covers(top, path)
      BY <2>1, <2>2, <3>1, CoversTransitive
    <3>3. Len(top) <= Len(dir) /\ Len(dir) \in Nat /\ Len(path) \in Nat
      BY <2>1, <2>2, <3>1 DEF Covers
    <3>4. top # path
      BY <2>2, <3>1, <3>3
    <3> QED
      BY <2>1, <3>2, <3>4 DEF Below
  <2>5. dir \notin busy
    BY <2>2, PathFacts
  <2> QED
    BY <1>1, <2>2, <2>3, <2>4, <2>5 DEF Walked
<1> QED
  BY <1>1, <1>2, <1>3, <1>4, <1>5, <1>6
  DEF PlanInv, TombsExcused, PlanComplete, ScanCurrent, DeletesExcused

\* The plan of the directories that are still there is complete as well.
LEMMA LivePlanPlans ==
    ASSUME TypeInv, PlanInv, BuildLivePlan
    PROVE  PlanInv'
<1>1. /\ pc = "live" /\ pc' = "sets" /\ UNCHANGED <<local, scanned, deletes, reported, touched>>
      /\ tombs' = AddDeletedSubtrees({}, (live \cap Dirs) \ LocalDirs)
      /\ live' = { path \in live : ~CoveredBySome(tombs', path) }
  BY DEF BuildLivePlan, trees, queues
<1>2. LocalClosed /\ LocalClosed'
  BY <1>1 DEF PlanInv, LocalClosed
<1>3. \A path \in Paths : Visible(path)' = Visible(path) /\ Excused(path)' = Excused(path)
  BY <1>1 DEF Excused, Visible
<1>4. ASSUME NEW prefix \in tombs', NEW path \in Paths, Covers(prefix, path)
      PROVE  Excused(path)
  <2>1. prefix \in Dirs /\ Visible(prefix) = 0
    BY <1>1 DEF AddDeletedSubtrees, LocalDirs
  <2>2. CASE prefix = <<>>
    BY <2>1, <2>2 DEF Excused, Visible
  <2>3. CASE prefix # <<>>
    BY <1>2, <1>4, <2>1, <2>3, BelowMissing, PathFacts DEF Excused
  <2> QED
    BY <2>2, <2>3
<1>5. \A path \in Paths \ {<<>>} : path \in live' \/ Excused(path)
  BY <1>1, <1>4 DEF PlanInv, PlanComplete, CoveredBySome
<1>6. AncestorClosed(live')
  <2> SUFFICES ASSUME NEW path \in live', NEW dir \in Ancestors(path)
               PROVE  dir \in live'
    BY DEF AncestorClosed
  <2>1. path \in live /\ path \in Seq(STRING) /\ ~CoveredBySome(tombs', path)
    BY <1>1, PathFacts DEF TypeInv, PlanType
  <2>2. dir \in live /\ dir \in Seq(STRING) /\ Covers(dir, path)
    BY <2>1, AncestorCovers DEF PlanInv, PlanComplete, AncestorClosed
  <2>3. tombs' \subseteq Seq(STRING)
    BY <1>1, PathFacts DEF AddDeletedSubtrees
  <2>4. ~CoveredBySome(tombs', dir)
    BY <2>1, <2>2, <2>3, CoversTransitive DEF CoveredBySome
  <2> QED
    BY <1>1, <2>2, <2>4
<1>7. ScanCurrent'
  <2> SUFFICES ASSUME NEW file \in live' \cap Files
               PROVE  Excused(file)' \/ scanned'[file] = Visible(file)'
    BY DEF ScanCurrent
  <2>1. file \in live \cap Files /\ file \in Paths
    BY <1>1, PathFacts
  <2> QED
    BY <1>1, <1>3, <2>1 DEF PlanInv, ScanCurrent
<1>8. TombsExcused' /\ PlanComplete' /\ DeletesExcused'
  <2>1. TombsExcused'
    BY <1>1, <1>3, <1>4 DEF TombsExcused
  <2>2. PlanComplete'
    BY <1>3, <1>5, <1>6 DEF PlanComplete
  <2>3. DeletesExcused'
    BY <1>1, <1>3 DEF PlanInv, DeletesExcused
  <2> QED
    BY <2>1, <2>2, <2>3
<1> QED
  BY <1>2, <1>7, <1>8 DEF PlanInv

\* What is scheduled is a part of the batch.
LEMMA ScheduledType ==
    ASSUME TypeInv
    PROVE  Scheduled \subseteq batch /\ Scheduled \subseteq Files
<1>1. batch \subseteq Files /\ batch \cap Large \subseteq Files
  BY DEF TypeInv, QueuesType
<1>2. batch \cap Large # {} => FirstFile(batch \cap Large) \in batch
  BY <1>1, FirstFileType
<1> QED
  BY <1>1, <1>2 DEF Scheduled

\* Every step keeps the plan.
LEMMA NextPlan ==
    ASSUME TypeInv, PhaseInv, PlanInv, [Next]_vars
    PROVE  PlanInv'
<1> USE DEF trees, database, rows, plan, inventory, queues, summary, budgets
<1>1. ASSUME StartRun
      PROVE  PlanInv'
  BY <1>1, PlanQuiet DEF StartRun
<1>2. ASSUME RecordMissingRoot
      PROVE  PlanInv'
  BY <1>2, PlanQuiet DEF RecordMissingRoot
<1>3. ASSUME LoadCached
      PROVE  PlanInv'
  BY <1>3, PlanQuiet DEF LoadCached
<1>4. ASSUME LoadFresh
      PROVE  PlanInv'
  BY <1>4, PlanQuiet DEF LoadFresh
<1>5. ASSUME RecordRows
      PROVE  PlanInv'
  BY <1>5, PlanQuiet DEF RecordRows
<1>6. ASSUME RecordStatus
      PROVE  PlanInv'
  BY <1>6, PlanQuiet DEF RecordStatus
<1>7. ASSUME NoTopMove
      PROVE  PlanInv'
  BY <1>7, PlanQuiet DEF NoTopMove, EnterDirs, Finish
<1>8. ASSUME SendTopMove
      PROVE  PlanInv'
  BY <1>8, PlanQuiet DEF SendTopMove, Request
<1>9. ASSUME JoinTopMove
      PROVE  PlanInv'
  BY <1>9, PlanQuiet DEF JoinTopMove, EnterDirs, Finish, TypeInv, AnswersType
<1>10. ASSUME Relist
      PROVE  PlanInv'
  BY <1>10, PlanQuiet DEF Relist, EnterDirs, Finish
<1>11. ASSUME SendCreate
      PROVE  PlanInv'
  BY <1>11, PlanQuiet DEF SendCreate, Request
<1>12. ASSUME JoinCreate
      PROVE  PlanInv'
  BY <1>12, PlanQuiet DEF JoinCreate
<1>13. ASSUME EndDirs
      PROVE  PlanInv'
  BY <1>13, PlanQuiet DEF EndDirs, Finish
<1>14. ASSUME MergeSkips
      PROVE  PlanInv'
  BY <1>14, PlanQuiet DEF MergeSkips
<1>15. ASSUME MergeComparisonFails
      PROVE  PlanInv'
  BY <1>15, PlanQuiet DEF MergeComparisonFails, ProcessingFailure, MarkSkipped, MarkFailed
<1>16. ASSUME SendMergeMove
      PROVE  PlanInv'
  BY <1>16, PlanQuiet DEF SendMergeMove, MergeReady, Request
<1>17. ASSUME JoinMergeMove
      PROVE  PlanInv'
  BY <1>17, PlanQuiet DEF JoinMergeMove, Finish, TypeInv, AnswersType
<1>18. ASSUME EndMerge
      PROVE  PlanInv'
  BY <1>18, PlanQuiet DEF EndMerge, Finish
<1>19. ASSUME AdoptSkips
      PROVE  PlanInv'
  BY <1>19, PlanQuiet DEF AdoptSkips
<1>20. ASSUME Adopt
      PROVE  PlanInv'
  BY <1>20, PlanQuiet DEF Adopt
<1>21. ASSUME AdoptComparisonFails
      PROVE  PlanInv'
  BY <1>21, PlanQuiet DEF AdoptComparisonFails, Flush, ProcessingFailure, MarkSkipped, MarkFailed
<1>22. ASSUME QueueUpload
      PROVE  PlanInv'
  BY <1>22, PlanQuiet DEF QueueUpload, Flush, AdoptReady
<1>23. ASSUME CheckDelete
      PROVE  PlanInv'
  BY <1>23, PlanQuiet DEF CheckDelete, Finish, DeleteReady
<1>24. ASSUME SendDelete
      PROVE  PlanInv'
  BY <1>24, PlanQuiet DEF SendDelete, Request
<1>25. ASSUME JoinDelete
      PROVE  PlanInv'
  BY <1>25, PlanQuiet DEF JoinDelete, Finish, TypeInv, AnswersType
<1>26. ASSUME EndDeletes
      PROVE  PlanInv'
  BY <1>26, PlanQuiet DEF EndDeletes, Finish
<1>27. ASSUME CollisionFails
      PROVE  PlanInv'
  BY <1>27, PlanQuiet DEF CollisionFails, FailRoot, Finish
<1>28. ASSUME QuotaExceeded
      PROVE  PlanInv'
  BY <1>28, PlanQuiet DEF QuotaExceeded, AdoptReady, FailRoot, Finish
<1>29. ASSUME Cancel
      PROVE  PlanInv'
  BY <1>29, PlanQuiet DEF Cancel
<1>30. ASSUME FinishRun
      PROVE  PlanInv'
  BY <1>30, PlanEnds DEF FinishRun
<1>31. ASSUME CreateFails
      PROVE  PlanInv'
  BY <1>31, PlanEnds DEF CreateFails, RunFails
<1>32. ASSUME NEW unreadable \in SUBSET LocalDirs, NEW busy \in SUBSET Files, Scan(unreadable, busy)
      PROVE  PlanInv'
  BY <1>32, ScanPlans
<1>33. ASSUME BuildLivePlan
      PROVE  PlanInv'
  BY <1>33, LivePlanPlans
<1>34. ASSUME AdoptFindsGone
      PROVE  PlanInv'
  <2>1. /\ AdoptReady /\ UNCHANGED <<local, live, scanned, touched, deletes, pc>>
        /\ tombs' = tombs \/ (NewlyGone(NextFile) /\ tombs' = TombsWith({NextFile}))
        /\ reported \subseteq reported'
    BY <1>34 DEF AdoptFindsGone, Flush, ProcessingFailure, MarkSkipped
  <2>2. NextFile \in Files /\ pc = "adopt" /\ LocalClosed
    BY <2>1, NextFileType DEF AdoptReady, PlanInv
  <2>3. \A prefix \in tombs' \ tombs, path \in Paths : Covers(prefix, path) => Excused(path)
    BY <2>1, <2>2, NewTombsExcuse
  <2> QED
    BY <2>1, <2>2, <2>3, PlanKept DEF LocalClosed, Visible
<1>35. ASSUME StartUploads
      PROVE  PlanInv'
  <2>1. PICK gone : /\ gone \subseteq Scheduled /\ \A file \in gone : NewlyGone(file)
                    /\ tombs' = TombsWith(gone)
    BY <1>35 DEF StartUploads
  <2>2. /\ pc = "upload" /\ UNCHANGED <<local, live, scanned, touched, reported, deletes, pc>>
        /\ LocalClosed
    BY <1>35 DEF StartUploads, PlanInv
  <2>3. Scheduled \subseteq Files
    BY ScheduledType
  <2>4. \A prefix \in tombs' \ tombs, path \in Paths : Covers(prefix, path) => Excused(path)
    BY <2>1, <2>2, <2>3, NewTombsExcuse
  <2> QED
    BY <2>2, <2>4, PlanKept DEF LocalClosed, Visible
<1>36. ASSUME NEW file \in Files, JoinUpload(file)
      PROVE  PlanInv'
  <2>1. /\ UNCHANGED <<local, live, scanned, touched, deletes, pc>>
        /\ tombs' = tombs \/ (NewlyGone(file) /\ tombs' = TombsWith({file}))
        /\ reported \subseteq reported' /\ pc = "upload" /\ LocalClosed
    BY <1>36 DEF JoinUpload, MarkSkipped, MarkFailed, TypeInv, AnswersType, Answers, PhaseInv, PlanInv
  <2>2. \A prefix \in tombs' \ tombs, path \in Paths : Covers(prefix, path) => Excused(path)
    BY <2>1, NewTombsExcuse
  <2> QED
    BY <2>1, <2>2, PlanKept DEF LocalClosed, Visible
<1>37. ASSUME NEW file \in Files, Upload(file)
      PROVE  PlanInv'
  BY <1>37, PlanQuiet DEF Upload
<1>38. ASSUME EndAdopt
      PROVE  PlanInv'
  <2>1. /\ UNCHANGED <<local, live, scanned, touched, reported, tombs>> /\ pc \in {"adopt", "upload"}
        /\ pc' \in {"adopt", "upload", "delete", "finish"} /\ LocalClosed
        /\ deletes' \subseteq deletes \cup DeleteCandidates
    BY <1>38 DEF EndAdopt, EnterDeletes, Finish, Flush, PlanInv
  <2>2. \A d \in deletes' \ deletes, path \in Paths : d[1] = 0 /\ Covers(d[2], path) => Excused(path)
    BY <2>1, CanonicalDeletesExcused
  <2> QED
    BY <2>1, <2>2, PlanKept DEF LocalClosed, Visible
<1>39. ASSUME EndUploads
      PROVE  PlanInv'
  <2>1. /\ UNCHANGED <<local, live, scanned, touched, reported, tombs>> /\ pc \in {"adopt", "upload"}
        /\ pc' \in {"adopt", "upload", "delete", "finish"} /\ LocalClosed
        /\ deletes' \subseteq deletes \cup DeleteCandidates
    BY <1>39 DEF EndUploads, EnterDeletes, Finish, Flush, PlanInv
  <2>2. \A d \in deletes' \ deletes, path \in Paths : d[1] = 0 /\ Covers(d[2], path) => Excused(path)
    BY <2>1, CanonicalDeletesExcused
  <2> QED
    BY <2>1, <2>2, PlanKept DEF LocalClosed, Visible
<1>40. ASSUME NEW kind \in FaultKinds, LoadFails(kind)
      PROVE  PlanInv'
  BY <1>40, PlanQuiet DEF LoadFails, FailRoot, PartialFailRoot, Finish
<1>41. ASSUME NEW kind \in FaultKinds, ParentOrListingFails(kind)
      PROVE  PlanInv'
  BY <1>41, PlanEnds DEF ParentOrListingFails, RunFails
<1>42. ASSUME NEW kind \in FaultKinds, Interrupted(kind)
      PROVE  PlanInv'
  BY <1>42, PlanEnds DEF Interrupted
<1>43. ASSUME NEW root \in Roots, NEW dir \in Dirs, ListingNotFound(root, dir)
      PROVE  PlanInv'
  BY <1>43, PlanQuiet DEF ListingNotFound
<1>44. ASSUME NEW root \in Roots, NEW path \in Paths, RemoveRemote(root, path)
      PROVE  PlanInv'
  BY <1>44, PlanQuiet DEF RemoveRemote
<1>45. ASSUME Unmount \/ Mount \/ EditSteps
      PROVE  PlanInv'
  <2>1. /\ LocalClosed' /\ touched \subseteq touched'
        /\ \A path \in Paths : Visible(path)' = Visible(path) \/ path \in touched'
        /\ UNCHANGED <<remote, pc, plan, tombs, inventory, queues, answer, task, reported>>
    BY <1>45, LocalSteps DEF EditSteps
  <2> QED
    BY <2>1, PlanKept
<1>46. ASSUME UNCHANGED vars
      PROVE  PlanInv'
  BY <1>46, PlanQuiet DEF vars
<1>47. CASE StartRun \/ RecordMissingRoot \/ FinishRun \/ ScanSteps
  BY <1>47, <1>1, <1>2, <1>30, <1>32, <1>33, <1>3, <1>4, <1>5, <1>6 DEF ScanSteps
<1>48. CASE MoveSteps
  BY <1>48, <1>7, <1>8, <1>9, <1>10, <1>11, <1>12, <1>31, <1>13, <1>14, <1>15, <1>16, <1>17, <1>18 DEF MoveSteps
<1>49. CASE UploadSteps
  BY <1>49, <1>19, <1>34, <1>20, <1>21, <1>22, <1>38, <1>35, <1>39, <1>37, <1>36 DEF UploadSteps
<1>50. CASE DeleteSteps
  BY <1>50, <1>23, <1>24, <1>25, <1>26 DEF DeleteSteps
<1>51. CASE FaultSteps
  BY <1>51, <1>27, <1>28, <1>29, <1>45, <1>40, <1>41, <1>42, <1>43, <1>44 DEF FaultSteps
<1> QED
  BY <1>46, <1>45, <1>47, <1>48, <1>49, <1>50, <1>51 DEF Next, EngineSteps

\* A step leaves a path alone: it is excused, or it looks as it did here and in the
\* canonical place, where a directory may have been made.
Same(path) ==
    \/ Excused(path)'
    \/ /\ ~Excused(path) /\ Visible(path)' = Visible(path)
       /\ remote'[0][path] = remote[0][path] \/ (path \in Dirs /\ remote'[0][path] # 0)

\* A step that changes neither tree leaves every path alone.
LEMMA SameTrees ==
    ASSUME UNCHANGED <<local, remote>>, touched \subseteq touched', reported \subseteq reported'
    PROVE  /\ \A path \in Paths : Same(path)
           /\ \A root \in Legacies, file \in Files : remote'[root][file] \in {0, remote[root][file]}
  BY DEF Same, Excused, Visible

\* What the sets have of the canonical tree stays there.
LEMMA CanonicalKept ==
    ASSUME CanonicalListed,
           \A path \in Paths : sets'[0][path] # 0 =>
               \/ path \in Files /\ task'[path] # "none"
               \/ Excused(path)'
               \/ IF path \in Files THEN remote'[0][path] = sets'[0][path] ELSE remote'[0][path] # 0
               \/ /\ sets'[0][path] = sets[0][path] /\ Same(path)
                  /\ path \in Files => task'[path] = task[path]
    PROVE  CanonicalListed'
<1> SUFFICES ASSUME NEW path \in Paths, sets'[0][path] # 0, ~Excused(path)',
                    ~(path \in Files /\ task'[path] # "none")
             PROVE  IF path \in Files THEN remote'[0][path] = sets'[0][path] ELSE remote'[0][path] # 0
  BY DEF CanonicalListed
<1>1. CASE sets'[0][path] = sets[0][path] /\ Same(path) /\ (path \in Files => task'[path] = task[path])
  <2>1. ~Excused(path) /\ (remote'[0][path] = remote[0][path] \/ (path \in Dirs /\ remote'[0][path] # 0))
    BY <1>1 DEF Same
  <2>2. IF path \in Files THEN remote[0][path] = sets[0][path] ELSE remote[0][path] # 0
    BY <1>1, <2>1 DEF CanonicalListed
  <2> QED
    BY <1>1, <2>1, <2>2, PathFacts
<1> QED
  BY <1>1

\* What they have of a legacy file stays true while both shrink.
LEMMA LegacyKept ==
    ASSUME LegacyListed,
           \A root \in Legacies, file \in Files :
               /\ sets'[root][file] \in {0, sets[root][file]}
               /\ remote'[root][file] \in {0, remote[root][file]}
    PROVE  LegacyListed'
  BY DEF LegacyListed

\* The phases that need the directories.
Making == {"dirs", "merge", "adopt", "upload", "delete"}

\* The phases that place the files.
Placing == {"adopt", "upload", "delete"}

\* The directories that have been made stay.
LEMMA DirsKept ==
    ASSUME DirsMade, UNCHANGED live, \A dir \in Dirs : Same(dir),
           pc' \in Making =>
               /\ pc \in Making
               /\ pc = "dirs" => \A dir \in live \cap Dirs : dir \in todo => pc' = "dirs" /\ dir \in todo',
           pc' = "dirs" /\ answer' = "ok" =>
               pc = "dirs" /\ answer = "ok" /\ todo' = todo /\ NextDir \in Dirs
    PROVE  DirsMade'
<1>1. ASSUME NEW dir \in Dirs, Excused(dir) \/ remote[0][dir] # 0
      PROVE  Excused(dir)' \/ remote'[0][dir] # 0
  BY <1>1 DEF Same
<1>2. ASSUME pc' \in Making, NEW dir \in live \cap Dirs
      PROVE  (pc' = "dirs" /\ dir \in todo') \/ Excused(dir)' \/ remote'[0][dir] # 0
  BY <1>1, <1>2 DEF DirsMade, Making
<1>3. ASSUME pc' = "dirs", answer' = "ok"
      PROVE  (Excused(NextDir) \/ remote[0][NextDir] # 0)'
  <2>1. PICK dir \in Dirs : dir = NextDir
    BY <1>3
  <2>2. dir = NextDir'
    BY <1>3, <2>1 DEF NextDir
  <2>3. Excused(dir) \/ remote[0][dir] # 0
    BY <1>3, <2>1 DEF DirsMade
  <2>4. Excused(dir)' \/ remote'[0][dir] # 0
    BY <1>1, <2>3
  <2> QED
    BY <2>2, <2>4 DEF Excused, Visible
<1> QED
  BY <1>2, <1>3 DEF DirsMade, Making

\* A merge move that has been answered stays so.
LEMMA MergeKept ==
    ASSUME MergeMoved,
           pc' = "merge" /\ answer' = "ok" =>
               /\ pc = "merge" /\ answer = "ok" /\ todo' = todo /\ sets' = sets
               /\ NextFile \in Files /\ Same(NextFile)
    PROVE  MergeMoved'
<1> SUFFICES ASSUME pc' = "merge", answer' = "ok"
             PROVE  (Excused(NextFile) \/ remote[0][NextFile] = sets[First(LegacyWith(NextFile))][NextFile])'
  BY DEF MergeMoved
<1>1. PICK file \in Files : file = NextFile /\ Same(file)
  OBVIOUS
<1>2. file = NextFile'
  BY <1>1 DEF NextFile, FirstFile
<1>3. Excused(file) \/ remote[0][file] = sets[First(LegacyWith(file))][file]
  BY <1>1 DEF MergeMoved
<1>4. PICK root : root = First(LegacyWith(file)) /\ root = First(LegacyWith(file)')
  BY DEF First, LegacyWith
<1>5. Excused(file)' \/ remote'[0][file] = sets'[root][file]
  BY <1>1, <1>3, <1>4, PathFacts DEF Same
<1> QED
  BY <1>2, <1>4, <1>5 DEF Excused, Visible, LegacyWith, First

\* What has been placed stays placed.
LEMMA SameMirrored ==
    ASSUME NEW file \in Files, Same(file), Excused(file) \/ Mirrored(file)
    PROVE  Excused(file)' \/ Mirrored(file)'
  BY PathFacts DEF Same, Mirrored

\* So do the files, as long as those that stop waiting are in flight, and those that
\* land are in place.
LEMMA FilesKept ==
    ASSUME FilesPlaced, UNCHANGED live,
           \A file \in Files : Same(file) \/ task'[file] # "none",
           pc' \in Placing =>
               /\ pc \in Placing
               /\ \A file \in live \cap Files :
                     \/ task'[file] # "none" \/ Excused(file)' \/ Mirrored(file)'
                     \/ pc' # "delete" /\ file \in todo' \cup batch'
                     \/ task[file] = "none" /\ ~(pc # "delete" /\ file \in todo \cup batch),
           \A file \in Files : task'[file] = "ok" =>
               \/ task[file] = "ok" /\ Same(file)
               \/ Excused(file)' \/ remote'[0][file] = Visible(file)'
    PROVE  FilesPlaced'
<1>1. ASSUME pc' \in Placing, NEW file \in live \cap Files
      PROVE  \/ pc' # "delete" /\ file \in todo' \cup batch'
             \/ task'[file] # "none" \/ Excused(file)' \/ Mirrored(file)'
  <2>1. CASE task[file] = "none" /\ ~(pc # "delete" /\ file \in todo \cup batch)
    <3>1. Excused(file) \/ Mirrored(file)
      BY <1>1, <2>1 DEF FilesPlaced, Placing
    <3> QED
      BY <3>1, SameMirrored
  <2> QED
    BY <1>1, <2>1
<1>2. ASSUME NEW file \in Files, task'[file] = "ok"
      PROVE  Excused(file)' \/ remote'[0][file] = Visible(file)'
  BY <1>2, PathFacts DEF FilesPlaced, Same
<1> QED
  BY <1>1, <1>2 DEF FilesPlaced, Placing

\* The phases before the inventory is loaded.
Before == {"idle", "scan", "live", "sets"}

\* A step that leaves the paths, the sets and the uploads alone keeps the invariant, if
\* it asks no more of the directories and files than the phase before.
LEMMA PlacedKept ==
    ASSUME PlacedInv, UNCHANGED <<fromCache, live, sets, task>>,
           \A path \in Paths : Same(path),
           \A root \in Legacies, file \in Files : remote'[root][file] \in {0, remote[root][file]},
           pc' \in Before => pc \in Before,
           pc' \in Making =>
               /\ pc \in Making
               /\ pc = "dirs" => \A dir \in live \cap Dirs : dir \in todo => pc' = "dirs" /\ dir \in todo',
           pc' = "dirs" /\ answer' = "ok" =>
               pc = "dirs" /\ answer = "ok" /\ todo' = todo /\ NextDir \in Dirs,
           pc' = "merge" /\ answer' = "ok" =>
               pc = "merge" /\ answer = "ok" /\ todo' = todo /\ NextFile \in Files,
           pc' \in Placing =>
               /\ pc \in Placing
               /\ \A file \in live \cap Files : pc # "delete" /\ file \in todo \cup batch =>
                     \/ pc' # "delete" /\ file \in todo' \cup batch'
                     \/ Excused(file)' \/ Mirrored(file)'
    PROVE  PlacedInv'
<1>1. SetsInTime'
  BY DEF PlacedInv, SetsInTime, Before
<1> SUFFICES ASSUME ~fromCache
             PROVE  (CanonicalListed /\ LegacyListed /\ DirsMade /\ MergeMoved /\ FilesPlaced)'
  BY <1>1 DEF PlacedInv
<1>2. CanonicalListed /\ LegacyListed /\ DirsMade /\ MergeMoved /\ FilesPlaced
  BY DEF PlacedInv
<1>3. CanonicalListed'
  BY <1>2, CanonicalKept
<1>4. LegacyListed'
  BY <1>2, LegacyKept
<1>5. DirsMade'
  BY <1>2, DirsKept, PathFacts
<1>6. MergeMoved'
  BY <1>2, MergeKept, PathFacts
<1>7. FilesPlaced'
  <2>1. \A file \in Files : Same(file)
    BY PathFacts
  <2> QED
    BY <1>2, <2>1, FilesKept
<1> QED
  BY <1>3, <1>4, <1>5, <1>6, <1>7

\* A phase that waits for an answer has the directory or the file it asked for.
LEMMA AskedFor ==
    ASSUME PhaseInv, answer # "none"
    PROVE  /\ pc = "dirs" => NextDir \in Dirs /\ NextDir \in todo
           /\ pc = "merge" => NextFile \in Files /\ NextFile \in todo
<1>1. CASE pc = "dirs"
  <2>1. todo \subseteq Dirs /\ todo # {}
    BY <1>1 DEF PhaseInv
  <2> QED
    BY <1>1, <2>1, NextDirType
<1>2. CASE pc = "merge"
  <2>1. todo # {}
    BY <1>2 DEF PhaseInv
  <2> QED
    BY <1>2, <2>1, NextFileType
<1> QED
  BY <1>1, <1>2

\* In particular if the phase, its queues and its answer stay as they are.
LEMMA PlacedQuiet ==
    ASSUME PhaseInv, PlacedInv, UNCHANGED <<fromCache, live, sets, task, pc, todo, batch>>,
           UNCHANGED answer \/ pc \notin {"dirs", "merge"},
           \A path \in Paths : Same(path),
           \A root \in Legacies, file \in Files : remote'[root][file] \in {0, remote[root][file]}
    PROVE  PlacedInv'
<1>1. pc' = "dirs" /\ answer' = "ok" => NextDir \in Dirs
  BY AskedFor
<1>2. pc' = "merge" /\ answer' = "ok" => NextFile \in Files
  BY AskedFor
<1> QED
  BY <1>1, <1>2, PlacedKept

\* Or if the run leaves the phases that place anything, or is not there yet.
LEMMA PlacedOut ==
    ASSUME PlacedInv, UNCHANGED <<fromCache, live, sets, task, local, remote>>,
           touched \subseteq touched', reported \subseteq reported',
           pc' \notin Making, pc' \in Before => pc \in Before
    PROVE  PlacedInv'
<1>1. pc' \notin {"dirs", "merge"} /\ pc' \notin Placing
  BY DEF Making, Placing
<1> QED
  BY <1>1, SameTrees, PlacedKept

\* Without sets and without uploads nothing has to be in place.
LEMMA PlacedNothing ==
    ASSUME \A root \in Roots, path \in Paths : sets'[root][path] = 0,
           \A file \in Files : task'[file] = "none", pc' \notin Making
    PROVE  PlacedInv'
<1>1. CanonicalListed' /\ LegacyListed'
  BY NumberFacts, PathFacts DEF CanonicalListed, LegacyListed
<1>2. DirsMade' /\ MergeMoved' /\ FilesPlaced'
  BY DEF DirsMade, MergeMoved, FilesPlaced, Making
<1> QED
  BY <1>1, <1>2 DEF PlacedInv, SetsInTime

\* The end of a run leaves nothing that has to be in place.
LEMMA PlacedEnds == EndRun => PlacedInv'
  BY PlacedNothing DEF EndRun, Empty, NoTasks, Making

\* The scan and the inventory.
LEMMA InventoryPlaced ==
    ASSUME TypeInv, PhaseInv, PlacedInv,
           \/ \E unreadable \in SUBSET LocalDirs, busy \in SUBSET Files : Scan(unreadable, busy)
           \/ BuildLivePlan \/ LoadCached \/ LoadFresh
           \/ \E root \in Roots, dir \in Dirs : ListingNotFound(root, dir)
    PROVE  PlacedInv'
<1> USE DEF trees, database, rows, plan, inventory, queues, summary, budgets
<1>0. 0 \in Roots /\ Legacies \subseteq Roots /\ Files \subseteq Paths
  BY NumberFacts, PathFacts
<1>1. pc \in Before /\ \A file \in Files : task'[file] = "none"
  <2>1. pc \in Before /\ UNCHANGED task
    BY DEF Scan, BuildLivePlan, LoadCached, LoadFresh, ListingNotFound, Before
  <2> QED
    BY <2>1 DEF PhaseInv, Before
<1>2. \A root \in Roots, path \in Paths : sets[root][path] = 0
  BY <1>1 DEF PlacedInv, SetsInTime, Before
<1>3. ASSUME pc' = "rows" PROVE SetsInTime' /\ DirsMade' /\ MergeMoved' /\ FilesPlaced'
  BY <1>1, <1>3 DEF SetsInTime, DirsMade, MergeMoved, FilesPlaced
<1>4. CASE \/ \E unreadable \in SUBSET LocalDirs, busy \in SUBSET Files : Scan(unreadable, busy)
           \/ BuildLivePlan
  <2>1. UNCHANGED sets /\ pc' \notin Making
    BY <1>4 DEF Scan, BuildLivePlan, Making
  <2> QED
    BY <1>1, <1>2, <2>1, PlacedNothing
<1>5. CASE LoadCached
  BY <1>3, <1>5 DEF LoadCached, PlacedInv
<1>6. CASE LoadFresh
  <2>1. /\ sets' = [root \in Roots |-> Listed(remote[root])] /\ UNCHANGED remote /\ pc' = "rows"
    BY <1>6 DEF LoadFresh
  <2>2. \A root \in Roots, path \in Paths : sets'[root][path] \in {0, remote'[root][path]}
    BY <2>1 DEF Listed
  <2>3. CanonicalListed' /\ LegacyListed'
    BY <1>0, <2>2 DEF CanonicalListed, LegacyListed
  <2> QED
    BY <1>3, <2>1, <2>3 DEF PlacedInv
<1>7. ASSUME NEW root \in Roots, NEW dir \in Dirs, ListingNotFound(root, dir) PROVE PlacedInv'
  <2>1. /\ sets' = [r \in Roots |-> IF r = root THEN OnlyRoot(remote[r]) ELSE Listed(remote[r])]
        /\ remote' = [remote EXCEPT ![root] = Without(@, dir)] /\ pc' = "rows"
        /\ touched' = touched \cup { path \in Paths : Covers(dir, path) }
    BY <1>7 DEF ListingNotFound
  <2>2. \A r \in Roots, path \in Paths : sets'[r][path] \in {0, remote[r][path]}
    BY <2>1 DEF Listed, OnlyRoot
  <2>3. \A file \in Files : sets'[root][file] = 0
    BY <2>1, PathFacts DEF OnlyRoot
  <2>4. /\ \A r \in Roots : r # root => remote'[r] = remote[r]
        /\ \A path \in Paths : Covers(dir, path) \/ remote'[root][path] = remote[root][path]
    BY <2>1, PathFacts, RemovedType DEF TypeInv, TreesType
  <2>5. LegacyListed'
    BY <1>0, <2>2, <2>3, <2>4 DEF LegacyListed
  <2>6. CanonicalListed'
    <3> SUFFICES ASSUME NEW path \in Paths, sets'[0][path] # 0
                 PROVE  Excused(path)' \/ remote'[0][path] = sets'[0][path]
      BY DEF CanonicalListed
    <3>1. CASE path \in touched'
      BY <3>1 DEF Excused
    <3>2. CASE path \notin touched'
      BY <1>0, <2>1, <2>2, <2>4, <3>2
    <3> QED
      BY <3>1, <3>2
  <2> QED
    BY <1>3, <2>1, <2>5, <2>6 DEF PlacedInv
<1> QED
  BY <1>4, <1>5, <1>6, <1>7

\* The phase of the directories begins with those that the canonical tree lacks.
LEMMA EnterDirsPlaced ==
    ASSUME PhaseInv, UNCHANGED <<live, task>>, answer' = "none", pc # "upload",
           CanonicalListed', LegacyListed', EnterDirs(sets'[0])
    PROVE  PlacedInv'
<1>1. \A file \in Files : task'[file] = "none"
  BY DEF PhaseInv
<1>2. CASE Finish
  <2>1. pc' = "finish"
    BY <1>2 DEF Finish
  <2> QED
    BY <1>1, <2>1 DEF PlacedInv, SetsInTime, DirsMade, MergeMoved, FilesPlaced
<1>3. CASE ~Finish
  <2>1. pc' = "dirs" /\ todo' = ({<<>>} \cup (live \cap Dirs)) \ In(sets'[0])
    BY <1>3 DEF EnterDirs
  <2>2. ASSUME NEW dir \in live \cap Dirs, dir \notin todo'
        PROVE  Excused(dir)' \/ remote'[0][dir] # 0
    <3>1. dir \in Paths /\ dir \notin Files /\ sets'[0][dir] # 0
      BY <2>1, <2>2, PathFacts DEF In
    <3> QED
      BY <3>1 DEF CanonicalListed
  <2>3. DirsMade'
    BY <2>1, <2>2 DEF DirsMade
  <2> QED
    BY <1>1, <2>1, <2>3 DEF PlacedInv, SetsInTime, MergeMoved, FilesPlaced
<1> QED
  BY <1>2, <1>3

\* The top-level move.
LEMMA TopPlaced ==
    ASSUME TypeInv, PhaseInv, PlacedInv, NoTopMove \/ SendTopMove \/ JoinTopMove \/ Relist
    PROVE  PlacedInv'
<1> USE DEF trees, database, rows, plan, inventory, queues, summary, budgets
<1>0. 0 \in Roots /\ Legacies \subseteq Roots \ {0} /\ Files \subseteq Paths
  BY NumberFacts, PathFacts
<1>1. CASE fromCache
  <2>1. UNCHANGED fromCache /\ pc' \notin Before
    BY DEF NoTopMove, SendTopMove, JoinTopMove, Relist, Request, EnterDirs, Finish, TypeInv, AnswersType, Before
  <2> QED
    BY <1>1, <2>1 DEF PlacedInv, SetsInTime, Before
<1>2. ASSUME ~fromCache, UNCHANGED <<local, remote, live, task, sets>>, answer' = "none", pc = "top",
             touched' = touched, reported' = reported, EnterDirs(sets[0])
      PROVE  PlacedInv'
  <2>1. CanonicalListed /\ LegacyListed
    BY <1>2 DEF PlacedInv
  <2>2. CanonicalListed'
    BY <1>2, <2>1, SameTrees, CanonicalKept
  <2>3. LegacyListed'
    BY <1>2, <2>1 DEF LegacyListed
  <2> QED
    BY <1>2, <2>2, <2>3, EnterDirsPlaced
<1>3. CASE ~fromCache /\ NoTopMove
  BY <1>2, <1>3 DEF NoTopMove
<1>4. CASE ~fromCache /\ JoinTopMove
  <2>1. CASE answer = "ok"
    BY <1>4, <2>1, PlacedOut DEF JoinTopMove, Making, Before
  <2>2. CASE answer = "fail"
    BY <1>2, <1>4, <2>2 DEF JoinTopMove
  <2>3. CASE answer = "stop"
    BY <1>4, <2>3, PlacedOut DEF JoinTopMove, Finish, Making, Before
  <2> QED
    BY <1>4, <2>1, <2>2, <2>3 DEF JoinTopMove, TypeInv, AnswersType
<1>5. CASE ~fromCache /\ SendTopMove
  <2>1. PICK root : root = First(PresentLegacies)
    OBVIOUS
  <2>2. /\ pc = "top" /\ UNCHANGED <<pc, sets, task, live>> /\ sets[0] = Empty
        /\ remote' = remote \/ remote' = Moved(root, <<>>)
        /\ PresentLegacies # {}
    BY <1>5, <2>1 DEF SendTopMove, Request, TopMovePossible
  <2>3. root \in Legacies
    BY <2>1, <2>2, FirstType DEF PresentLegacies
  <2>4. \A r \in Legacies, file \in Files : remote'[r][file] \in {0, remote[r][file]}
    <3>1. CASE remote' = remote
      BY <3>1
    <3>2. CASE remote' = Moved(root, <<>>)
      <4>1. /\ remote'[root] = Without(remote[root], <<>>)
            /\ \A r \in Legacies : r # root => remote'[r] = remote[r]
        BY <1>0, <2>3, <3>2, MovedType, PathFacts DEF TypeInv, TreesType
      <4> QED
        BY <1>0, <4>1 DEF Without
    <3> QED
      BY <2>2, <3>1, <3>2
  <2>5. CanonicalListed'
    BY <2>2 DEF CanonicalListed, Empty
  <2>6. LegacyListed'
    BY <1>5, <2>2, <2>4, LegacyKept DEF PlacedInv
  <2>7. \A file \in Files : task'[file] = "none"
    BY <2>2 DEF PhaseInv
  <2> QED
    BY <2>2, <2>5, <2>6, <2>7 DEF PlacedInv, SetsInTime, DirsMade, MergeMoved, FilesPlaced
<1>6. CASE ~fromCache /\ Relist
  <2>1. PICK root : root = First(PresentLegacies)
    OBVIOUS
  <2>2. /\ pc = "relist" /\ UNCHANGED <<remote, task, live, answer>>
        /\ sets' = [sets EXCEPT ![0] = remote[0], ![root] = Empty] /\ EnterDirs(remote[0])
    BY <1>6, <2>1 DEF Relist
  <2>3. root \in Legacies
    BY <2>1, <2>2, FirstType DEF PresentLegacies, PhaseInv
  <2>4. /\ sets'[0] = remote'[0]
        /\ \A r \in Legacies, file \in Files : sets'[r][file] \in {0, sets[r][file]}
    BY <1>0, <2>2, <2>3 DEF TypeInv, SetsType, Empty
  <2>5. CanonicalListed'
    BY <2>4 DEF CanonicalListed
  <2>6. LegacyListed'
    BY <1>6, <2>2, <2>4, LegacyKept DEF PlacedInv
  <2>7. answer' = "none"
    BY <2>2 DEF PhaseInv
  <2> QED
    BY <2>2, <2>4, <2>5, <2>6, <2>7, EnterDirsPlaced
<1> QED
  BY <1>1, <1>3, <1>4, <1>5, <1>6

\* The directories.
LEMMA DirsPlaced ==
    ASSUME TypeInv, PhaseInv, PlacedInv, SendCreate \/ JoinCreate \/ EndDirs
    PROVE  PlacedInv'
<1> USE DEF trees, database, rows, plan, inventory, queues, summary, budgets
<1>0. 0 \in Roots /\ Legacies \subseteq Roots \ {0} /\ Files \subseteq Paths /\ Dirs \subseteq Paths
  BY NumberFacts, PathFacts
<1>1. /\ pc = "dirs" /\ UNCHANGED <<fromCache, live, task, local, touched, reported>> /\ pc' \notin Before
      /\ \A file \in Files : task'[file] = "none"
  <2>1. /\ pc = "dirs" /\ UNCHANGED <<fromCache, live, task, local, touched, reported>>
        /\ pc' \notin Before
    BY DEF SendCreate, JoinCreate, EndDirs, Request, Finish, Before
  <2> QED
    BY <2>1 DEF PhaseInv
<1>2. CASE fromCache
  BY <1>1, <1>2 DEF PlacedInv, SetsInTime, Before
<1>3. CASE ~fromCache /\ EndDirs
  <2>1. UNCHANGED <<remote, sets>> /\ pc' \in {"merge", "finish"} /\ answer' = "none"
        /\ (pc' = "merge" => todo = {})
    BY <1>3 DEF EndDirs, Finish
  <2>2. pc' \notin Placing /\ pc' # "dirs" /\ pc \in Making
    BY <1>1, <2>1 DEF Placing, Making
  <2>3. pc' \in Making => todo = {}
    BY <2>1 DEF Making
  <2> QED
    BY <1>1, <2>1, <2>2, <2>3, SameTrees, PlacedKept
<1>4. CASE ~fromCache /\ SendCreate
  <2>1. PICK dir : dir = NextDir
    OBVIOUS
  <2>2. /\ UNCHANGED <<sets, todo, pc>> /\ todo # {}
        /\ answer' = "ok" => remote'[0][dir] # 0
        /\ remote' = remote \/ remote' = [remote EXCEPT ![0][dir] = 1]
    <3>1. /\ UNCHANGED <<sets, todo, pc>> /\ todo # {}
          /\ remote' = remote \/ remote' = [remote EXCEPT ![0][dir] = 1]
          /\ answer' = "ok" => remote' = [remote EXCEPT ![0][dir] = 1]
      BY <1>4, <2>1 DEF SendCreate, Request
    <3>2. dir \in Dirs
      BY <1>1, <2>1, <3>1, NextDirType DEF PhaseInv
    <3>3. remote' = [remote EXCEPT ![0][dir] = 1] => remote'[0][dir] = 1
      BY <1>0, <3>2, UploadedType, NumberFacts DEF TypeInv, TreesType
    <3> QED
      BY <3>1, <3>3
  <2>3. dir \in Dirs
    BY <1>1, <2>1, <2>2, NextDirType DEF PhaseInv
  <2>4. /\ \A path \in Paths : remote'[0][path] = remote[0][path] \/ (path = dir /\ remote'[0][path] # 0)
        /\ \A root \in Legacies : remote'[root] = remote[root]
    <3>1. CASE remote' = remote
      BY <3>1
    <3>2. CASE remote' = [remote EXCEPT ![0][dir] = 1]
      BY <1>0, <2>3, <3>2, UploadedType, NumberFacts DEF TypeInv, TreesType
    <3> QED
      BY <2>2, <3>1, <3>2
  <2>5. \A path \in Paths : Same(path)
    BY <1>1, <2>3, <2>4 DEF Same, Excused, Visible
  <2>6. CanonicalListed' /\ LegacyListed'
    <3>1. CanonicalListed'
      BY <1>1, <1>4, <2>2, <2>5, CanonicalKept DEF PlacedInv
    <3> QED
      BY <1>4, <2>2, <2>4, <3>1, LegacyKept DEF PlacedInv
  <2>7. DirsMade'
    <3>1. ASSUME NEW d \in live \cap Dirs, d \notin todo
          PROVE  Excused(d)' \/ remote'[0][d] # 0
      <4>1. Excused(d) \/ remote[0][d] # 0
        BY <1>1, <1>4, <3>1 DEF PlacedInv, DirsMade
      <4> QED
        BY <1>0, <2>5, <4>1 DEF Same
    <3>2. dir = NextDir'
      BY <2>1, <2>2 DEF NextDir
    <3> QED
      BY <1>1, <2>2, <3>1, <3>2 DEF DirsMade
  <2> QED
    BY <1>1, <2>2, <2>6, <2>7 DEF PlacedInv, SetsInTime, MergeMoved, FilesPlaced, Before
<1>5. CASE ~fromCache /\ JoinCreate
  <2>1. PICK dir : dir = NextDir
    OBVIOUS
  <2>2. /\ sets' = [sets EXCEPT ![0][dir] = 1] /\ todo' = todo \ {dir} /\ answer = "ok"
        /\ answer' = "none" /\ UNCHANGED <<remote, pc>>
    BY <1>5, <2>1 DEF JoinCreate
  <2>3. dir \in Dirs
    BY <1>1, <2>1, <2>2, AskedFor
  <2>4. Excused(dir) \/ remote[0][dir] # 0
    BY <1>1, <1>5, <2>1, <2>2 DEF PlacedInv, DirsMade
  <2>5. \A path \in Paths : Excused(path)' = Excused(path)
    BY <1>1 DEF Excused, Visible
  <2>6. /\ \A path \in Paths : path # dir => sets'[0][path] = sets[0][path]
        /\ \A root \in Legacies : sets'[root] = sets[root]
    BY <1>0, <2>2, <2>3 DEF TypeInv, SetsType, Trees
  <2>7. CanonicalListed'
    <3>1. \A path \in Paths : Same(path)
      BY <1>1, <2>2, SameTrees
    <3>2. dir \notin Files
      BY <2>3, PathFacts
    <3> QED
      BY <1>1, <1>5, <2>2, <2>4, <2>5, <2>6, <3>1, <3>2, CanonicalKept DEF PlacedInv
  <2>8. LegacyListed'
    BY <1>5, <2>2, <2>6 DEF PlacedInv, LegacyListed
  <2>9. DirsMade'
    BY <1>0, <1>1, <1>5, <2>2, <2>4, <2>5 DEF PlacedInv, DirsMade
  <2> QED
    BY <1>1, <2>2, <2>7, <2>8, <2>9 DEF PlacedInv, SetsInTime, MergeMoved, FilesPlaced, Before
<1> QED
  BY <1>2, <1>3, <1>4, <1>5

\* The merge moves.
LEMMA MergePlaced ==
    ASSUME TypeInv, PhaseInv, PlacedInv,
           MergeSkips \/ MergeComparisonFails \/ SendMergeMove \/ JoinMergeMove \/ EndMerge
    PROVE  PlacedInv'
<1> USE DEF trees, database, rows, plan, inventory, queues, summary, budgets
<1>0. 0 \in Roots /\ Legacies \subseteq Roots \ {0} /\ Files \subseteq Paths /\ Dirs \subseteq Paths
  BY NumberFacts, PathFacts
<1>1. /\ pc = "merge" /\ UNCHANGED <<fromCache, live, task, local, touched>> /\ pc' \notin Before
      /\ reported \subseteq reported' /\ \A file \in Files : task'[file] = "none"
  <2>1. pc = "merge" /\ UNCHANGED <<fromCache, live, task, local, touched>>
    BY DEF MergeSkips, MergeComparisonFails, SendMergeMove, JoinMergeMove, EndMerge, MergeReady, Request
  <2>2. pc' \notin Before
    BY <2>1 DEF MergeSkips, MergeComparisonFails, SendMergeMove, JoinMergeMove, EndMerge, Request, Finish,
       TypeInv, AnswersType, Before
  <2>3. reported \subseteq reported'
    BY DEF MergeSkips, MergeComparisonFails, SendMergeMove, JoinMergeMove, EndMerge, Request,
       ProcessingFailure, MarkSkipped, MarkFailed
  <2> QED
    BY <2>1, <2>2, <2>3 DEF PhaseInv
<1>2. CASE fromCache
  BY <1>1, <1>2 DEF PlacedInv, SetsInTime, Before
<1>3. ASSUME UNCHANGED <<remote, sets>>, answer' = "none", pc' \in {"merge", "finish"}
      PROVE  PlacedInv'
  <2>1. pc' \notin Placing /\ pc' # "dirs" /\ pc \in Making /\ pc # "dirs"
    BY <1>1, <1>3 DEF Placing, Making
  <2> QED
    BY <1>1, <1>3, <2>1, SameTrees, PlacedKept
<1>4. CASE MergeSkips
  BY <1>3, <1>4 DEF MergeSkips, MergeReady
<1>5. CASE MergeComparisonFails
  BY <1>3, <1>5 DEF MergeComparisonFails, MergeReady
<1>6. CASE ~fromCache /\ EndMerge
  <2>1. UNCHANGED <<remote, sets>> /\ answer' = "none"
    BY <1>6 DEF EndMerge
  <2>2. CASE pc' = "finish"
    BY <1>3, <2>1, <2>2
  <2>3. CASE pc' = "adopt" /\ todo' = live \cap Files
    <3>1. CanonicalListed' /\ LegacyListed'
      <4>1. CanonicalListed'
        BY <1>1, <1>6, <2>1, SameTrees, CanonicalKept DEF PlacedInv
      <4> QED
        BY <1>6, <2>1, <4>1 DEF PlacedInv, LegacyListed
    <3>2. DirsMade'
      <4>1. DirsMade /\ pc \in Making /\ \A dir \in Dirs : Same(dir)
        BY <1>0, <1>1, <1>6, <2>1, SameTrees DEF PlacedInv, Making
      <4> QED
        BY <1>1, <2>1, <2>3, <4>1, DirsKept
    <3> QED
      BY <1>1, <2>3, <3>1, <3>2 DEF PlacedInv, SetsInTime, MergeMoved, FilesPlaced, Before
  <2> QED
    BY <1>6, <2>2, <2>3 DEF EndMerge, Finish
<1>7. CASE ~fromCache /\ SendMergeMove
  <2>1. PICK file : file = NextFile
    OBVIOUS
  <2>2. PICK root : root = First(LegacyWith(file))
    OBVIOUS
  <2>3. /\ MergeReady /\ Merges(file) /\ UNCHANGED <<sets, todo, pc, reported>>
        /\ remote' = remote \/ remote' = Moved(root, file)
        /\ answer' = "ok" => CanMove(root, file) /\ remote' = Moved(root, file)
    BY <1>7, <2>1, <2>2 DEF SendMergeMove, Request
  <2>4. file \in Files /\ file \in Paths /\ root \in Legacies /\ sets[root][file] # 0 /\ sets[0][file] = 0
    <3>1. file \in Files
      BY <2>1, <2>3, NextFileType DEF MergeReady
    <3>2. root \in LegacyWith(file)
      BY <2>2, <2>3, FirstType DEF Merges, LegacyWith
    <3> QED
      BY <1>0, <2>3, <3>1, <3>2 DEF LegacyWith, Merges
  <2>5. ASSUME remote' = Moved(root, file)
        PROVE  /\ remote'[0][file] = remote[root][file]
               /\ \A path \in Paths : path # file => remote'[0][path] = remote[0][path]
               /\ \A r \in Legacies, p \in Paths : remote'[r][p] \in {0, remote[r][p]}
    <3>1. /\ remote'[root] = Without(remote[root], file)
          /\ \A p \in Paths : remote'[0][p] = IF Covers(file, p) THEN remote[root][p] ELSE remote[0][p]
          /\ \A r \in Legacies : r # root => remote'[r] = remote[r]
      BY <1>0, <2>4, <2>5, MovedType DEF TypeInv, TreesType
    <3> QED
      BY <1>0, <2>4, <3>1, FileCoversItself, CoversItself DEF Without
  <2>6. /\ \A path \in Paths : path # file => Same(path)
        /\ \A r \in Legacies, f \in Files : remote'[r][f] \in {0, remote[r][f]}
    <3>1. \A path \in Paths : path # file => remote'[0][path] = remote[0][path]
      BY <2>3, <2>5
    <3> QED
      BY <1>0, <1>1, <2>3, <2>5, <3>1 DEF Same, Excused, Visible
  <2>7. CanonicalListed'
    BY <1>1, <1>7, <2>3, <2>4, <2>6, CanonicalKept DEF PlacedInv
  <2>8. LegacyListed'
    BY <1>7, <2>3, <2>6, LegacyKept DEF PlacedInv
  <2>9. DirsMade'
    <3>1. DirsMade /\ pc \in Making /\ \A dir \in Dirs : Same(dir)
      BY <1>1, <1>7, <2>4, <2>6, PathFacts DEF PlacedInv, Making
    <3> QED
      BY <1>1, <2>3, <3>1, DirsKept
  <2>10. MergeMoved'
    <3>1. file = NextFile' /\ LegacyWith(file)' = LegacyWith(file)
      BY <2>1, <2>3 DEF NextFile, FirstFile, LegacyWith
    <3>2. answer' = "ok" => remote'[0][file] = sets'[root][file]
      <4>1. remote[root][file] \in {0, sets[root][file]}
        BY <1>7, <2>4 DEF PlacedInv, LegacyListed
      <4> QED
        BY <2>3, <2>5, <4>1 DEF CanMove
    <3>3. root = First(LegacyWith(file)')
      BY <2>2, <3>1
    <3> QED
      BY <3>1, <3>2, <3>3 DEF MergeMoved, First, LegacyWith
  <2> QED
    BY <1>1, <2>3, <2>7, <2>8, <2>9, <2>10 DEF PlacedInv, SetsInTime, FilesPlaced, Before
<1>8. CASE ~fromCache /\ JoinMergeMove
  <2>1. PICK file : file = NextFile
    OBVIOUS
  <2>2. PICK root : root = First(LegacyWith(file))
    OBVIOUS
  <2>3. UNCHANGED <<remote, reported>> /\ answer' = "none" /\ answer \in {"ok", "fail", "stop"}
    BY <1>8 DEF JoinMergeMove, TypeInv, AnswersType
  <2>4. CASE answer # "ok"
    <3>1. UNCHANGED sets /\ pc' \in {"merge", "finish"}
      BY <1>1, <1>8, <2>3, <2>4 DEF JoinMergeMove, Finish
    <3> QED
      BY <1>3, <2>3, <3>1
  <2>5. CASE answer = "ok"
    <3>1. /\ sets' = [sets EXCEPT ![0][file] = sets[root][file], ![root][file] = 0] /\ UNCHANGED pc
      BY <1>8, <2>1, <2>2, <2>5 DEF JoinMergeMove
    <3>2. file \in Files /\ file \in Paths /\ root \in Legacies
      <4>1. file \in Files
        BY <1>1, <2>1, <2>5, AskedFor
      <4>2. Merges(file)
        BY <1>1, <2>1, <2>5 DEF PhaseInv
      <4>3. root \in LegacyWith(file)
        BY <2>2, <4>2, FirstType DEF Merges, LegacyWith
      <4> QED
        BY <1>0, <4>1, <4>3 DEF LegacyWith
    <3>3. /\ sets'[0][file] = sets[root][file]
          /\ \A path \in Paths : path # file => sets'[0][path] = sets[0][path]
          /\ \A r \in Legacies, f \in Files : sets'[r][f] \in {0, sets[r][f]}
      BY <1>0, <3>1, <3>2 DEF TypeInv, SetsType, Trees
    <3>4. Excused(file)' \/ remote'[0][file] = sets'[0][file]
      <4>1. Excused(file) \/ remote[0][file] = sets[root][file]
        BY <1>1, <1>8, <2>1, <2>2, <2>5 DEF PlacedInv, MergeMoved
      <4> QED
        BY <1>1, <2>3, <3>3, <4>1 DEF Excused, Visible
    <3>5. \A path \in Paths : Same(path)
      BY <1>1, <2>3, SameTrees
    <3>6. CanonicalListed'
      BY <1>1, <1>8, <3>2, <3>3, <3>4, <3>5, CanonicalKept DEF PlacedInv
    <3>7. LegacyListed'
      BY <1>8, <2>3, <3>3, LegacyKept DEF PlacedInv
    <3>8. DirsMade'
      <4>1. DirsMade /\ pc \in Making /\ \A dir \in Dirs : Same(dir)
        BY <1>0, <1>1, <1>8, <3>5 DEF PlacedInv, Making
      <4> QED
        BY <1>1, <3>1, <4>1, DirsKept
    <3> QED
      BY <1>1, <2>3, <3>1, <3>6, <3>7, <3>8 DEF PlacedInv, SetsInTime, MergeMoved, FilesPlaced, Before
  <2> QED
    BY <2>4, <2>5
<1> QED
  BY <1>2, <1>4, <1>5, <1>6, <1>7, <1>8

\* A file that the canonical listing has, as the scan saw it, is in place.
LEMMA ListedIsMirrored ==
    ASSUME TypeInv, PhaseInv, PlanInv, PlacedInv, ~fromCache, pc = "adopt",
           NEW file \in live \cap Files, sets[0][file] # 0, Visible(file) # 0,
           file \in SizeOnly \/ sets[0][file] = scanned[file]
    PROVE  Excused(file) \/ Mirrored(file)
<1>1. file \in Paths /\ task[file] = "none"
  BY PathFacts DEF PhaseInv
<1>2. Excused(file) \/ remote[0][file] = sets[0][file]
  BY <1>1 DEF PlacedInv, CanonicalListed
<1>3. Excused(file) \/ scanned[file] = Visible(file)
  BY DEF PlanInv, ScanCurrent
<1>4. file \in SizeOnly \/ file \in Files \ SizeOnly
  OBVIOUS
<1> QED
  BY <1>2, <1>3, <1>4 DEF Mirrored

\* Adoption: a file leaves the loop when it is in place, excused, or waits to be uploaded.
LEMMA AdoptPlaced ==
    ASSUME TypeInv, PhaseInv, PlanInv, PlacedInv,
           \/ AdoptSkips \/ AdoptFindsGone \/ Adopt \/ AdoptComparisonFails \/ QueueUpload
           \/ QuotaExceeded \/ EndAdopt \/ EndUploads
    PROVE  PlacedInv'
<1> USE DEF trees, database, rows, plan, inventory, queues, summary, budgets
<1>0. 0 \in Roots /\ Files \subseteq Paths
  BY NumberFacts, PathFacts
<1>1. /\ UNCHANGED <<fromCache, live, sets, task, local, remote, touched>> /\ pc \in {"adopt", "upload"}
      /\ reported \subseteq reported' /\ pc' \in {"adopt", "upload", "delete", "finish"}
  BY DEF AdoptSkips, AdoptFindsGone, Adopt, AdoptComparisonFails, QueueUpload, QuotaExceeded,
     EndAdopt, EndUploads, EnterDeletes, AdoptReady, Flush, ProcessingFailure, MarkSkipped, MarkFailed,
     FailRoot, Finish
<1>2. CASE fromCache
  BY <1>1, <1>2 DEF PlacedInv, SetsInTime
<1>3. \A path \in Paths : Same(path)
  BY <1>1, SameTrees
<1>4. ASSUME ~fromCache,
             pc' \in Placing => \A file \in live \cap Files : file \in todo \cup batch =>
                 \/ pc' # "delete" /\ file \in todo' \cup batch'
                 \/ Excused(file) \/ Mirrored(file) \/ file \in reported'
      PROVE  PlacedInv'
  <2>1. pc' \notin Before /\ pc' # "dirs" /\ pc' # "merge" /\ pc \in Making /\ pc # "dirs" /\ pc \in Placing
    BY <1>1 DEF Before, Making, Placing
  <2>2. \A file \in live \cap Files :
            Excused(file) \/ Mirrored(file) \/ file \in reported' => Excused(file)' \/ Mirrored(file)'
    BY <1>0, <1>3, SameMirrored DEF Excused
  <2>3. \A root \in Legacies, file \in Files : remote'[root][file] \in {0, remote[root][file]}
    BY <1>1
  <2> QED
    BY <1>1, <1>3, <1>4, <2>1, <2>2, <2>3, PlacedKept
<1>5. ASSUME AdoptReady PROVE NextFile \in live \cap Files
  BY <1>5, NextFileType DEF AdoptReady
<1>6. CASE ~fromCache /\ AdoptSkips
  <2>1. AdoptReady /\ todo' = todo \ {NextFile} /\ UNCHANGED <<pc, batch>> /\ pc = "adopt"
    BY <1>6 DEF AdoptSkips, AdoptReady
  <2>2. Excused(NextFile) \/ Mirrored(NextFile)
    <3>1. CASE CoveredBySome(tombs, NextFile)
      BY <1>0, <1>5, <2>1, <3>1, CoveredIsExcused
    <3>2. CASE Adopts(NextFile) /\ CanResume(NextFile)
      BY <1>5, <1>6, <2>1, <3>2, ListedIsMirrored DEF Adopts, Present, CanResume
    <3> QED
      BY <1>6, <3>1, <3>2 DEF AdoptSkips
  <2> QED
    BY <1>4, <1>6, <2>1, <2>2
<1>7. CASE ~fromCache /\ AdoptFindsGone
  <2>1. todo' = todo \ {NextFile} /\ UNCHANGED <<pc, batch>> /\ pc = "adopt" /\ Visible(NextFile) = 0
    BY <1>7 DEF AdoptFindsGone, AdoptReady, Flush
  <2> QED
    BY <1>4, <1>7, <2>1 DEF Excused
<1>8. CASE ~fromCache /\ Adopt
  <2>1. /\ AdoptReady /\ todo' = todo \ {NextFile} /\ UNCHANGED <<pc, batch>> /\ pc = "adopt"
        /\ Visible(NextFile) # 0 /\ sets[0][NextFile] # 0 /\ Comparison(0, NextFile) = "matches"
    BY <1>8 DEF Adopt, AdoptReady, Adopts, Present
  <2>2. \/ NextFile \in SizeOnly \/ sets[0][NextFile] = scanned[NextFile]
        \/ remote[0][NextFile] = Visible(NextFile)
    BY <2>1 DEF Comparison, ProcessingError
  <2>3. Excused(NextFile) \/ Mirrored(NextFile)
    <3>1. CASE NextFile \in SizeOnly \/ sets[0][NextFile] = scanned[NextFile]
      BY <1>5, <1>8, <2>1, <3>1, ListedIsMirrored
    <3>2. CASE remote[0][NextFile] = Visible(NextFile)
      BY <3>2 DEF Mirrored
    <3> QED
      BY <2>2, <3>1, <3>2
  <2> QED
    BY <1>4, <1>8, <2>1, <2>3
<1>9. CASE ~fromCache /\ AdoptComparisonFails
  <2>1. todo' = todo \ {NextFile} /\ UNCHANGED <<pc, batch>> /\ pc = "adopt" /\ NextFile \in reported'
    BY <1>9 DEF AdoptComparisonFails, AdoptReady, Flush, ProcessingFailure, MarkFailed
  <2> QED
    BY <1>4, <1>9, <2>1
<1>10. CASE ~fromCache /\ QueueUpload
  <2>1. todo' = todo \ {NextFile} /\ batch' = batch \cup {NextFile} /\ pc' \in {"adopt", "upload"}
    BY <1>10 DEF QueueUpload
  <2> QED
    BY <1>4, <1>10, <2>1
<1>11. CASE ~fromCache /\ (QuotaExceeded \/ EndAdopt \/ EndUploads)
  <2>1. \/ pc' = "finish"
        \/ pc' \in {"adopt", "upload"} /\ UNCHANGED <<todo, batch>>
        \/ todo = {} /\ batch = {}
    BY <1>11 DEF QuotaExceeded, FailRoot, EndAdopt, EndUploads, EnterDeletes, Finish
  <2>2. pc' = "finish" => pc' \notin Placing
    BY DEF Placing
  <2> QED
    BY <1>4, <1>11, <2>1, <2>2
<1> QED
  BY <1>2, <1>6, <1>7, <1>8, <1>9, <1>10, <1>11

\* The uploads: what is scheduled is in flight or excused, what lands is in place.
LEMMA UploadPlaced ==
    ASSUME TypeInv, PhaseInv, PlanInv, PlacedInv,
           StartUploads \/ \E file \in Files : Upload(file) \/ JoinUpload(file)
    PROVE  PlacedInv'
<1> USE DEF trees, database, rows, plan, inventory, queues, summary, budgets
<1>0. /\ 0 \in Roots /\ Legacies \subseteq Roots \ {0} /\ Files \subseteq Paths /\ Dirs \subseteq Paths
      /\ Dirs \cap Files = {}
  BY NumberFacts, PathFacts
<1>1. /\ pc = "upload" /\ UNCHANGED <<fromCache, live, local, touched, pc, todo>>
      /\ reported \subseteq reported'
  <2>1. pc = "upload"
    BY DEF StartUploads, Upload, JoinUpload, PhaseInv
  <2> QED
    BY <2>1 DEF StartUploads, Upload, JoinUpload, MarkSkipped, MarkFailed, TypeInv, AnswersType, Answers
<1>2. CASE fromCache
  BY <1>1, <1>2 DEF PlacedInv, SetsInTime
<1>3. ASSUME ~fromCache PROVE CanonicalListed /\ LegacyListed /\ DirsMade /\ MergeMoved /\ FilesPlaced
  BY <1>3 DEF PlacedInv
<1>4. ASSUME ~fromCache, \A dir \in Dirs : Same(dir), CanonicalListed', FilesPlaced',
             \A root \in Legacies : UNCHANGED <<sets[root], remote[root]>>
      PROVE  PlacedInv'
  <2>1. LegacyListed'
    BY <1>3, <1>4 DEF LegacyListed
  <2>2. DirsMade'
    BY <1>1, <1>3, <1>4, DirsKept DEF Making
  <2> QED
    BY <1>1, <1>4, <2>1, <2>2 DEF PlacedInv, SetsInTime, MergeMoved
<1>5. CASE ~fromCache /\ StartUploads
  <2>1. UNCHANGED <<remote, sets, reported>> /\ batch' = batch \ Scheduled /\ task = NoTasks
    BY <1>5 DEF StartUploads, Uploading
  <2>2. \A path \in Paths : Same(path)
    BY <1>1, <2>1, SameTrees
  <2>3. \A file \in Files : task[file] = "none" /\ task'[file] \in {"none", "queued"}
    BY <1>5, <2>1 DEF StartUploads, NoTasks
  <2>4. ASSUME NEW file \in Scheduled, task'[file] = "none" PROVE Excused(file)
    <3>1. file \in Files /\ file \in Paths
      BY <1>0, ScheduledType
    <3>2. CoveredBySome(tombs, file) \/ NewlyGone(file)
      BY <1>5, <2>4, <3>1 DEF StartUploads
    <3>3. CASE CoveredBySome(tombs, file)
      BY <3>1, <3>3, CoveredIsExcused
    <3>4. CASE NewlyGone(file)
      BY <3>1, <3>4, NewlyGoneIsGone DEF PlanInv, Excused
    <3> QED
      BY <3>2, <3>3, <3>4
  <2>5. CanonicalListed'
    <3>1. \A path \in Paths : path \in Files => task'[path] # "none" \/ task'[path] = task[path]
      BY <2>3
    <3> QED
      BY <1>3, <1>5, <2>1, <2>2, <3>1, CanonicalKept
  <2>6. FilesPlaced'
    <3>1. \A file \in live \cap Files : file \in Scheduled => task'[file] # "none" \/ Excused(file)'
      BY <1>0, <1>1, <2>1, <2>4 DEF Excused, Visible
    <3>2. \A file \in live \cap Files :
             \/ task'[file] # "none" \/ Excused(file)'
             \/ file \in todo' \cup batch'
             \/ task[file] = "none" /\ ~(file \in todo \cup batch)
      BY <1>1, <2>1, <2>3, <3>1
    <3> QED
      BY <1>0, <1>1, <1>3, <1>5, <2>2, <2>3, <3>2, FilesKept DEF Placing
  <2> QED
    BY <1>0, <1>4, <1>5, <2>1, <2>2, <2>5, <2>6
<1>6. ASSUME ~fromCache, NEW file \in Files, Upload(file) PROVE PlacedInv'
  <2>1. /\ UNCHANGED <<sets, batch, reported>> /\ task[file] = "queued"
        /\ task'[file] # "none" /\ \A f \in Files : f # file => task'[f] = task[f]
        /\ remote' = remote \/ remote' = Uploaded(file)
        /\ task'[file] = "ok" => remote' = Uploaded(file)
    BY <1>6 DEF Upload, Answered, TypeInv, AnswersType
  <2>2. /\ \A path \in Paths : path # file => remote'[0][path] = remote[0][path]
        /\ \A root \in Legacies : remote'[root] = remote[root]
        /\ task'[file] = "ok" => remote'[0][file] = Visible(file)
    <3>1. Visible(file) \in Contents
      BY <1>0, VisibleType, NumberFacts DEF TypeInv, TreesType
    <3>2. CASE remote' = Uploaded(file)
      BY <1>0, <3>1, <3>2, UploadedType DEF Uploaded, TypeInv, TreesType
    <3> QED
      BY <2>1, <3>2
  <2>3. \A path \in Paths : path # file => Same(path)
    BY <1>1, <2>1, <2>2 DEF Same, Excused, Visible
  <2>4. CanonicalListed'
    BY <1>0, <1>3, <1>6, <2>1, <2>3, CanonicalKept
  <2>5. FilesPlaced'
    <3>1. \A f \in Files : Same(f) \/ task'[f] # "none"
      BY <1>0, <2>1, <2>3
    <3>2. \A f \in Files : task'[f] = "ok" =>
             (task[f] = "ok" /\ Same(f)) \/ remote'[0][f] = Visible(f)'
      BY <1>0, <1>1, <2>1, <2>2, <2>3 DEF Visible
    <3>3. \A f \in live \cap Files :
             \/ task'[f] # "none" \/ f \in todo' \cup batch'
             \/ task[f] = "none" /\ ~(f \in todo \cup batch)
      BY <1>1, <2>1
    <3> QED
      BY <1>1, <1>3, <1>6, <3>1, <3>2, <3>3, FilesKept DEF Placing
  <2>6. \A dir \in Dirs : Same(dir)
    BY <1>0, <2>3
  <2> QED
    BY <1>4, <1>6, <2>1, <2>2, <2>4, <2>5, <2>6
<1>7. ASSUME ~fromCache, NEW file \in Files, JoinUpload(file) PROVE PlacedInv'
  <2>1. /\ UNCHANGED <<remote, batch>> /\ task'[file] = "none"
        /\ \A f \in Files : f # file => task'[f] = task[f]
        /\ task[file] \in {"ok", "skip", "fail", "stop"}
    BY <1>7 DEF JoinUpload, Answered, TypeInv, AnswersType, Answers
  <2>2. \A path \in Paths : Same(path)
    BY <1>1, <2>1, SameTrees
  <2>3. Excused(file) \/ scanned[file] = Visible(file)
    BY <1>7, <2>1 DEF PhaseInv, PlanInv, ScanCurrent
  <2>4. /\ \A path \in Paths : path # file => sets'[0][path] = sets[0][path]
        /\ \A root \in Legacies : sets'[root] = sets[root]
        /\ task[file] = "ok" => sets'[0][file] = scanned[file]
    <3>1. CASE task[file] = "ok"
      <4>1. sets' = [sets EXCEPT ![0][file] = scanned[file]]
        BY <1>7, <3>1 DEF JoinUpload
      <4> QED
        BY <1>0, <4>1 DEF TypeInv, SetsType, Trees
    <3>2. CASE task[file] # "ok"
      <4>1. UNCHANGED sets
        BY <1>7, <2>1, <3>2 DEF JoinUpload
      <4> QED
        BY <3>2, <4>1
    <3> QED
      BY <3>1, <3>2
  <2>5. Excused(file)' \/ (task[file] = "ok" /\ remote'[0][file] = Visible(file)')
    <3>1. CASE task[file] = "ok"
      <4>1. Excused(file) \/ remote[0][file] = Visible(file)
        BY <1>3, <1>7, <3>1 DEF FilesPlaced
      <4> QED
        BY <1>1, <2>1, <3>1, <4>1 DEF Excused, Visible
    <3>2. CASE task[file] # "ok" /\ NewlyGone(file)
      BY <1>1, <3>2, NewlyGoneIsGone DEF PlanInv, Excused, Visible
    <3>3. CASE task[file] # "ok" /\ ~NewlyGone(file)
      <4>1. file \in reported'
        BY <1>7, <2>1, <3>3 DEF JoinUpload, MarkSkipped, MarkFailed
      <4> QED
        BY <4>1 DEF Excused
    <3> QED
      BY <3>1, <3>2, <3>3
  <2>6. CanonicalListed'
    <3>1. Excused(file)' \/ remote'[0][file] = sets'[0][file]
      <4>1. Excused(file) => Excused(file)'
        BY <1>1 DEF Excused, Visible
      <4>2. Visible(file)' = Visible(file)
        BY <1>1 DEF Visible
      <4> QED
        BY <2>3, <2>4, <2>5, <4>1, <4>2
    <3> QED
      BY <1>3, <1>7, <2>1, <2>2, <2>4, <3>1, CanonicalKept
  <2>7. FilesPlaced'
    <3>1. Excused(file)' \/ Mirrored(file)'
      BY <2>5 DEF Mirrored
    <3>2. \A f \in Files : task'[f] = "ok" => task[f] = "ok" /\ Same(f)
      BY <1>0, <2>1, <2>2
    <3>3. \A f \in live \cap Files :
             \/ task'[f] # "none" \/ Excused(f)' \/ Mirrored(f)' \/ f \in todo' \cup batch'
             \/ task[f] = "none" /\ ~(f \in todo \cup batch)
      BY <1>1, <2>1, <3>1
    <3> QED
      BY <1>0, <1>1, <1>3, <1>7, <2>2, <3>2, <3>3, FilesKept DEF Placing
  <2> QED
    BY <1>0, <1>4, <1>7, <2>1, <2>2, <2>4, <2>6, <2>7
<1> QED
  BY <1>2, <1>5, <1>6, <1>7

\* The deletes and what others do to the trees.
LEMMA QuietPlaced ==
    ASSUME TypeInv, PhaseInv, PlanInv, PlacedInv,
           \/ DeleteSteps \/ Unmount \/ Mount \/ EditSteps \/ RecordMissingRoot \/ Cancel
           \/ \E root \in Roots, path \in Paths : RemoveRemote(root, path)
    PROVE  PlacedInv'
<1> USE DEF trees, database, rows, plan, inventory, queues, summary, budgets
<1>0. 0 \in Roots /\ Legacies \subseteq Roots \ {0} /\ Files \subseteq Paths
  BY NumberFacts, PathFacts
<1>1. CASE RecordMissingRoot \/ Cancel
  BY <1>1, SameTrees, PlacedQuiet DEF RecordMissingRoot, Cancel
<1>2. CASE Unmount \/ Mount \/ EditSteps
  <2>1. /\ touched \subseteq touched'
        /\ \A path \in Paths : Visible(path)' = Visible(path) \/ path \in touched'
        /\ UNCHANGED <<remote, pc, plan, tombs, inventory, queues, answer, task, reported>>
    BY <1>2, LocalSteps DEF EditSteps
  <2>2. \A path \in Paths : Same(path)
    BY <2>1, ExcusedStays DEF Same
  <2> QED
    BY <2>1, <2>2, PlacedQuiet
<1>3. ASSUME NEW root \in Roots, NEW path \in Paths, RemoveRemote(root, path)
      PROVE  PlacedInv'
  <2>1. /\ remote' = [remote EXCEPT ![root] = Without(@, path)]
        /\ touched' = touched \cup { p \in Paths : Covers(path, p) }
        /\ UNCHANGED <<local, pc, plan, tombs, inventory, queues, answer, task, reported>>
    BY <1>3 DEF RemoveRemote
  <2>2. /\ \A p \in Paths : remote'[root][p] = IF Covers(path, p) THEN 0 ELSE remote[root][p]
        /\ \A other \in Roots \ {root} : remote'[other] = remote[other]
    BY <2>1, RemovedType DEF TypeInv, TreesType
  <2>3. \A p \in Paths : remote'[0][p] = remote[0][p] \/ p \in touched'
    BY <1>0, <2>1, <2>2
  <2>4. \A p \in Paths : Same(p)
    BY <2>1, <2>3 DEF Same, Excused, Visible
  <2>5. \A r \in Legacies, file \in Files : remote'[r][file] \in {0, remote[r][file]}
    BY <1>0, <2>2
  <2> QED
    BY <2>1, <2>4, <2>5, PlacedQuiet
<1>4. CASE SendDelete
  <2>1. PICK d : d = NextDelete
    OBVIOUS
  <2>2. /\ DeleteReady /\ UNCHANGED <<local, touched, reported, pc, plan, inventory, queues, task>>
        /\ remote' = remote \/ remote' = [remote EXCEPT ![d[1]] = Without(@, d[2])]
    BY <1>4, <2>1 DEF SendDelete, Request
  <2>3. d \in deletes /\ d[1] \in Roots /\ d[2] \in Paths /\ pc = "delete"
    BY <2>1, <2>2, NextDeleteFacts DEF DeleteReady
  <2>4. /\ \A p \in Paths : remote'[0][p] = remote[0][p] \/ (d[1] = 0 /\ Covers(d[2], p))
        /\ \A r \in Legacies, file \in Files : remote'[r][file] \in {0, remote[r][file]}
    <3>1. CASE remote' = remote
      BY <3>1
    <3>2. CASE remote' = [remote EXCEPT ![d[1]] = Without(@, d[2])]
      <4>1. /\ \A p \in Paths : remote'[d[1]][p] = IF Covers(d[2], p) THEN 0 ELSE remote[d[1]][p]
            /\ \A other \in Roots \ {d[1]} : remote'[other] = remote[other]
        BY <2>3, <3>2, RemovedType DEF TypeInv, TreesType
      <4> QED
        BY <1>0, <4>1
    <3> QED
      BY <2>2, <3>1, <3>2
  <2>5. \A p \in Paths : remote'[0][p] = remote[0][p] \/ Excused(p)
    BY <2>3, <2>4 DEF PlanInv, DeletesExcused
  <2>6. \A p \in Paths : Same(p)
    BY <2>2, <2>5 DEF Same, Excused, Visible
  <2> QED
    BY <2>2, <2>3, <2>4, <2>6, PlacedQuiet
<1>5. CASE CheckDelete \/ JoinDelete \/ EndDeletes
  <2>1. /\ pc = "delete" /\ UNCHANGED <<local, remote, touched, reported, plan, inventory, task>>
        /\ pc' = "finish" \/ UNCHANGED <<pc, todo, batch>>
    BY <1>5 DEF CheckDelete, JoinDelete, EndDeletes, DeleteReady, Finish, TypeInv, AnswersType
  <2>2. CASE pc' = "finish"
    BY <2>1, <2>2, PlacedOut DEF Making, Before
  <2>3. CASE UNCHANGED <<pc, todo, batch>>
    BY <2>1, <2>3, SameTrees, PlacedQuiet
  <2> QED
    BY <2>1, <2>2, <2>3
<1> QED
  BY <1>1, <1>2, <1>3, <1>4, <1>5 DEF DeleteSteps

\* Every step keeps what is in place.
LEMMA NextPlaced ==
    ASSUME TypeInv, PhaseInv, PlanInv, PlacedInv, [Next]_vars
    PROVE  PlacedInv'
<1> USE DEF trees, database, rows, plan, inventory, queues, summary, budgets
<1>1. CASE StartRun \/ RecordRows \/ RecordStatus \/ CollisionFails
  BY <1>1, PlacedOut DEF StartRun, RecordRows, RecordStatus, CollisionFails, FailRoot, Finish, Making, Before
<1>2. ASSUME NEW kind \in FaultKinds, LoadFails(kind) PROVE PlacedInv'
  BY <1>2, PlacedOut DEF LoadFails, FailRoot, PartialFailRoot, Finish, Making, Before
<1>3. CASE \/ FinishRun \/ CreateFails
           \/ \E kind \in FaultKinds : ParentOrListingFails(kind) \/ Interrupted(kind)
  <2>1. EndRun
    BY <1>3 DEF FinishRun, CreateFails, ParentOrListingFails, Interrupted, RunFails
  <2> QED
    BY <2>1, PlacedEnds
<1>4. CASE UNCHANGED vars
  BY <1>4, SameTrees, PlacedQuiet DEF vars
<1>5. CASE ScanSteps
  BY <1>1, <1>5, InventoryPlaced DEF ScanSteps
<1>6. CASE MoveSteps
  BY <1>3, <1>6, TopPlaced, DirsPlaced, MergePlaced DEF MoveSteps
<1>7. CASE UploadSteps
  BY <1>7, AdoptPlaced, UploadPlaced DEF UploadSteps
<1>8. CASE FaultSteps
  BY <1>1, <1>2, <1>3, <1>8, InventoryPlaced, AdoptPlaced, QuietPlaced DEF FaultSteps
<1>9. CASE DeleteSteps \/ EditSteps \/ RecordMissingRoot
  BY <1>9, QuietPlaced
<1> QED
  BY <1>1, <1>3, <1>4, <1>5, <1>6, <1>7, <1>8, <1>9 DEF Next, EngineSteps

\* In the beginning there is a closed local tree, and no plan.
LEMMA InitPlaced == Init => PlanInv /\ PlacedInv
<1> SUFFICES ASSUME Init PROVE PlanInv /\ PlacedInv
  OBVIOUS
<1>1. PICK present \in { s \in SUBSET Paths : <<>> \in s /\ AncestorClosed(s) } :
          local = [path \in Paths |-> IF path \in present THEN 1 ELSE 0]
  BY DEF Init
<1>2. LocalClosed
  BY <1>1 DEF LocalClosed, AncestorClosed
<1>3. PlanInv
  BY <1>2 DEF Init, PlanInv, TombsExcused, PlanComplete, ScanCurrent, DeletesExcused, AncestorClosed
<1>4. \A root \in Roots, path \in Paths : sets[root][path] = 0
  BY DEF Init, Empty
<1>5. CanonicalListed /\ LegacyListed
  BY <1>4, NumberFacts, PathFacts DEF CanonicalListed, LegacyListed
<1>6. DirsMade /\ MergeMoved /\ FilesPlaced
  BY DEF Init, DirsMade, MergeMoved, FilesPlaced, NoTasks
<1> QED
  BY <1>3, <1>4, <1>5, <1>6 DEF PlacedInv, SetsInTime

\* When a run deletes after a fresh listing, what is not excused is in its place.
LEMMA DeletesFindEverything ==
    ASSUME PhaseInv, PlanInv, PlacedInv, pc = "delete", ~fromCache,
           NEW path \in Paths \ {<<>>}, ~Excused(path)
    PROVE  Mirrored(path)
<1>1. path \in live /\ Visible(path) # 0
  BY DEF PlanInv, PlanComplete, Excused
<1>2. CASE path \in Files
  BY <1>1, <1>2 DEF PlacedInv, FilesPlaced, PhaseInv
<1>3. CASE path \in Dirs
  <2>1. path \notin Files
    BY <1>3, PathFacts
  <2> QED
    BY <1>1, <1>3, <2>1 DEF PlacedInv, DirsMade, Mirrored
<1> QED
  BY <1>2, <1>3 DEF Paths

\* apply_deletes of a migration never takes the last copy, for any trees, files, legacy
\* roots, concurrency, and any number of faults, edits and runs: after a fresh listing it
\* deletes nothing from the canonical place that has been there locally since the scan,
\* and a legacy copy only when its file is in the canonical place, with its content if
\* it is not above full_hash_max_bytes, or when the run has reported the file as skipped
\* or failed.
THEOREM NoLastCopyDeleted == Spec => DeletesOnlyReplaced
<1> DEFINE Inv == TypeInv /\ PhaseInv /\ PlanInv /\ PlacedInv
           Replaced == \A root \in Roots, path \in Paths :
                          /\ pc = "delete" /\ ~fromCache
                          /\ remote[root][path] # 0 /\ remote'[root][path] = 0
                          /\ Visible(path) # 0 /\ path \notin touched' \cup reported
                          => root # 0 /\ Mirrored(path)
<1>1. Init => Inv
  BY InitType, InitPhase, InitPlaced
<1>2. Inv /\ [Next]_vars => Inv'
  BY NextType, NextPhase, NextPlan, NextPlaced
<1>3. Inv /\ [Next]_vars => [Replaced]_vars
  <2> SUFFICES ASSUME Inv, [Next]_vars, NEW root \in Roots, NEW path \in Paths,
                      pc = "delete", ~fromCache, remote[root][path] # 0, remote'[root][path] = 0,
                      Visible(path) # 0, path \notin touched' \cup reported
               PROVE  root # 0 /\ Mirrored(path)
    OBVIOUS
  <2>1. PICK d \in deletes : d[1] = root /\ Covers(d[2], path) /\ touched' = touched
    <3>1. ASSUME SendDelete PROVE \E d \in deletes : d[1] = root /\ Covers(d[2], path) /\ touched' = touched
      <4>1. PICK d : d = NextDelete
        OBVIOUS
      <4>2. /\ DeleteReady /\ touched' = touched
            /\ remote' = remote \/ remote' = [remote EXCEPT ![d[1]] = Without(@, d[2])]
        BY <3>1, <4>1 DEF SendDelete, Request
      <4>3. d \in deletes /\ d[1] \in Roots /\ d[2] \in Paths
        BY <4>1, <4>2, NextDeleteFacts DEF DeleteReady
      <4>4. remote' = [remote EXCEPT ![d[1]] = Without(@, d[2])]
        BY <4>2
      <4>5. /\ \A p \in Paths : remote'[d[1]][p] = IF Covers(d[2], p) THEN 0 ELSE remote[d[1]][p]
            /\ \A other \in Roots \ {d[1]} : remote'[other] = remote[other]
        BY <4>3, <4>4, RemovedType DEF TypeInv, TreesType
      <4> QED
        BY <4>2, <4>3, <4>5
    <3>2. ASSUME UNCHANGED remote PROVE FALSE
      BY <3>2
    <3>3. ASSUME Dropped PROVE FALSE
      <4>1. \A file \in Files : task[file] = "none"
        BY DEF PhaseInv
      <4> QED
        BY <3>2, <3>3, <4>1, NothingDropped
    <3>4. ASSUME NEW r \in Roots, NEW p \in Paths, RemoveRemote(r, p) PROVE FALSE
      <4>1. /\ remote' = [remote EXCEPT ![r] = Without(@, p)]
            /\ touched' = touched \cup { q \in Paths : Covers(p, q) }
        BY <3>4 DEF RemoveRemote
      <4>2. /\ \A q \in Paths : remote'[r][q] = IF Covers(p, q) THEN 0 ELSE remote[r][q]
            /\ \A other \in Roots \ {r} : remote'[other] = remote[other]
        BY <4>1, RemovedType DEF TypeInv, TreesType
      <4> QED
        BY <4>1, <4>2
    <3>5. CASE UNCHANGED vars
      BY <3>2, <3>5 DEF vars, trees
    <3>6. CASE StartRun \/ RecordMissingRoot \/ FinishRun \/ ScanSteps
      BY <3>6 DEF StartRun, RecordMissingRoot, FinishRun, ScanSteps, Scan, BuildLivePlan, LoadCached,
         LoadFresh, RecordRows, RecordStatus
    <3>7. CASE MoveSteps
      BY <3>7 DEF MoveSteps, NoTopMove, SendTopMove, JoinTopMove, Relist, SendCreate, JoinCreate,
         CreateFails, EndDirs, MergeSkips, MergeComparisonFails, SendMergeMove, JoinMergeMove, EndMerge,
         MergeReady
    <3>8. CASE UploadSteps
      <4>1. \A file \in Files : task[file] = "none"
        BY DEF PhaseInv
      <4> QED
        BY <3>8, <4>1 DEF UploadSteps, AdoptSkips, AdoptFindsGone, Adopt, AdoptComparisonFails,
           QueueUpload, EndAdopt, StartUploads, EndUploads, Upload, JoinUpload, AdoptReady
    <3>9. CASE DeleteSteps
      BY <3>1, <3>2, <3>9 DEF DeleteSteps, CheckDelete, JoinDelete, EndDeletes, trees
    <3>10. CASE FaultSteps
      BY <3>2, <3>3, <3>4, <3>10 DEF FaultSteps, CollisionFails, QuotaExceeded, AdoptReady, Cancel,
         Unmount, Mount, LoadFails, ParentOrListingFails, Interrupted, ListingNotFound, trees
    <3>11. CASE EditSteps
      BY <3>2, <3>11 DEF EditSteps, WriteLocal, RemoveLocal, Edit
    <3> QED
      BY <3>5, <3>6, <3>7, <3>8, <3>9, <3>10, <3>11 DEF Next, EngineSteps
  <2>2. ~Excused(path)
    BY <2>1 DEF Excused
  <2>3. root # 0
    BY <2>1, <2>2 DEF PlanInv, DeletesExcused
  <2>4. path # <<>>
    <3>1. d[2] \in Paths \ {<<>>} /\ d[2] \in Seq(STRING)
      BY PathFacts DEF TypeInv, QueuesType
    <3> QED
      BY <2>1, <3>1 DEF Covers
  <2> QED
    BY <2>2, <2>3, <2>4, DeletesFindEverything
<1> QED
  BY <1>1, <1>2, <1>3, PTL DEF Spec, DeletesOnlyReplaced

-----------------------------------------------------------------------------
(* What a migration that succeeds hands over.                                *)

\* A run over a fresh listing in which nothing has failed and nobody has interfered.
Smooth ==
    /\ ~fromCache /\ touched = {} /\ ~failed /\ ~cancelled
    /\ answer \notin {"fail", "stop"} /\ \A file \in Files : task[file] \notin {"fail", "stop"}

\* As long as nobody interferes and no directory was unreadable, the plan is what is there.
CalmInv ==
    /\ stopping => failed /\ pc \notin {"idle", "scan"}
    /\ pc \notin {"idle", "scan"} /\ touched = {} /\ ~failed =>
          /\ Visible(<<>>) # 0 /\ tombs = {} /\ <<>> \notin live
          /\ \A path \in live : Visible(path) # 0
          /\ \A file \in live \cap Files : scanned[file] = local[file]

\* What the canonical place is to have.
Wanted == {<<>>} \cup live

\* The phases that have the sets and delete nothing yet.
Collecting == {"rows", "status", "top", "relist", "dirs", "merge", "adopt", "upload"}
TopMoved == pc = "relist" \/ (pc = "top" /\ answer = "ok")

\* The sets have what is on the disk, apart from what is wanted there in any case, and
\* what a top-level move has brought.
CanonicalThere ==
    \A path \in Paths : sets[0][path] # 0 => remote[0][path] # 0
CanonicalSeen ==
    ~TopMoved => \A path \in Paths : remote[0][path] # 0 => sets[0][path] # 0 \/ path \in Wanted
LegacySeen ==
    \A root \in Legacies, path \in Paths : remote[root][path] # 0 => sets[root][path] # 0
TopTaken ==
    TopMoved => \A path \in Paths : sets[0][path] = 0 /\ remote[First(PresentLegacies)][path] = 0
SetsSee == pc \in Collecting => CanonicalThere /\ CanonicalSeen /\ LegacySeen /\ TopTaken

\* What a request that has been answered has done.
RootMade == pc \in Making => (pc = "dirs" /\ <<>> \in todo) \/ remote[0][<<>>] # 0
DirsWanted ==
    pc = "dirs" => todo \subseteq Wanted /\ (answer = "ok" => remote[0][NextDir] # 0)
MergeTaken ==
    pc = "merge" /\ answer = "ok" =>
        remote[0][NextFile] # 0 /\ remote[First(LegacyWith(NextFile))][NextFile] = 0
UploadDone == \A file \in Files : task[file] = "ok" => remote[0][file] # 0
WorkDone == RootMade /\ DirsWanted /\ MergeTaken /\ UploadDone

\* The rows name what is on the disk, apart from what the last delete took; the files
\* that are done have their records.
Recorded == {"status", "top", "relist", "dirs", "merge", "adopt", "upload", "delete", "finish"}
StatusComplete == pc \in Recorded \ {"status"} => complete
Deleted(path) == pc = "delete" /\ answer = "ok" /\ NextDelete[1] = 0 /\ Covers(NextDelete[2], path)
RowsTrue ==
    pc \in Recorded => \A path \in Paths :
        cache[0][path] # 0 => remote[0][path] # 0 \/ Deleted(path)
RowsListed ==
    pc \in {"status", "top", "relist"} => \A path \in Paths : cache[0][path] # 0 => sets[0][path] # 0
Waiting(file) == file \in adopting \cup batch \/ task[file] # "none" \/ (pc \in {"adopt", "upload"} /\ file \in todo)
RecordsMade ==
    pc \in Placing \cup {"finish"} => \A file \in live \cap Files :
        Waiting(file) \/ record[file].version = scanned[file]
DatabaseTrue == StatusComplete /\ RowsTrue /\ RowsListed /\ RecordsMade

\* What has to go is covered by a delete that has not had its effect; at the end all
\* is in place.
Extra(root, path) == path \notin (IF root = 0 THEN Wanted ELSE {<<>>})
DeletesCover ==
    pc \in {"delete", "finish"} => \A root \in Roots, path \in Paths :
        remote[root][path] # 0 /\ Extra(root, path) =>
            \E d \in deletes : /\ d[1] = root /\ Covers(d[2], path)
                               /\ answer = "ok" => d # NextDelete
AllPlaced ==
    pc = "finish" => \A path \in Paths \ reported : Visible(path) # 0 => Mirrored(path)
EndsWell == DeletesCover /\ AllPlaced

HandInv == Smooth => SetsSee /\ WorkDone /\ DatabaseTrue /\ EndsWell

\* When a run has listed the disk, a file whose record is current and says "synced" has
\* its canonical copy, or it has no legacy copy either: nobody has removed the one and
\* left the other.
NoCopyComesBack ==
    pc = "rows" => \A file \in live \cap Files :
        record[file].status = "synced" /\ record[file].version = scanned[file] /\ remote[0][file] = 0
            => \A root \in Legacies : remote[root][file] = 0

\* A file that a run may resume has its row, or there is nothing to resume it by.
RowKnown(file) ==
    cache[0][file] # 0 \/ ~(record[file].status = "synced" /\ record[file].version = scanned[file])
RowIfResumed(file) == RowKnown(file) \/ sets[0][file] = 0
Nowhere(file) == \A root \in Roots : sets[root][file] = 0 /\ remote[root][file] = 0
Arranging == {"status", "top", "relist", "dirs", "merge"}
RowsMade ==
    /\ \A file \in adopting : sets[0][file] # 0
    /\ pc = "rows" => \A root \in Roots, path \in Paths : sets[root][path] = remote[root][path]
    /\ pc \in Arranging => \A file \in (live \cap Files) \ reported : RowKnown(file) \/ Nowhere(file)
    /\ pc \in {"adopt", "upload"} => \A file \in (live \cap Files) \ reported :
          file \in adopting \/ RowIfResumed(file)
    /\ pc \in Placing \cup {"finish"} => \A file \in (live \cap Files) \ reported :
          Waiting(file) \/ cache[0][file] # 0
RowsInv == Smooth => RowsMade

\* A file of the plan is there, and in no deleted subtree.
LEMMA CalmFile ==
    ASSUME PlanInv, CalmInv, pc \notin {"idle", "scan"}, touched = {}, ~failed, NEW file \in live \cap Files
    PROVE  Visible(file) # 0 /\ ~NewlyGone(file) /\ ~CoveredBySome(tombs, file)
<1>1. Visible(file) # 0 /\ tombs = {}
  BY DEF CalmInv
<1>2. ~NewlyGone(file)
  BY <1>1, NewlyGoneIsGone DEF PlanInv
<1> QED
  BY <1>1, <1>2 DEF CoveredBySome

\* A step that changes nothing of the plan keeps it so.
LEMMA CalmKept ==
    ASSUME CalmInv, UNCHANGED <<local, live, scanned, tombs>>, touched \subseteq touched',
           failed => failed', stopping' => stopping \/ (failed' /\ pc' \notin {"idle", "scan"}),
           pc \in {"idle", "scan"} <=> pc' \in {"idle", "scan"}
    PROVE  CalmInv'
<1>1. \A path : Visible(path)' = Visible(path)
  BY DEF Visible
<1> QED
  BY <1>1 DEF CalmInv

\* So does one that makes it uncalm, and the end of a run.
LEMMA CalmOver ==
    ASSUME CalmInv
    PROVE  /\ UNCHANGED <<failed, stopping, pc>> /\ touched' # {} => CalmInv'
           /\ EndRun => CalmInv'
  BY DEF CalmInv, EndRun

\* A scan that read every directory of a root that is there.
LEMMA ScanCalm ==
    ASSUME PhaseInv, PlanInv, CalmInv,
           NEW unreadable \in SUBSET LocalDirs, NEW busy \in SUBSET Files, Scan(unreadable, busy)
    PROVE  CalmInv'
<1>1. /\ pc = "scan" /\ UNCHANGED <<local, tombs, stopping>> /\ live' = Walked(unreadable) \ busy
      /\ scanned' = [file \in Files |-> IF file \in live' THEN local[file] ELSE 0]
      /\ ~failed' => Visible(<<>>) # 0
  BY DEF Scan, trees
<1>2. pc' = "live" /\ tombs = {} /\ <<>> \notin live' /\ \A path \in live' : Visible(path) # 0
  BY <1>1 DEF Scan, PlanInv, TombsExcused, Walked
<1> QED
  BY <1>1, <1>2 DEF CalmInv, Visible

\* The plan has no directory that is not there.
LEMMA LivePlanCalm ==
    ASSUME PlanInv, CalmInv, BuildLivePlan
    PROVE  CalmInv'
<1>1. /\ pc = "live" /\ pc' = "sets" /\ UNCHANGED <<local, scanned, touched, failed, stopping>>
      /\ tombs' = AddDeletedSubtrees({}, (live \cap Dirs) \ LocalDirs)
      /\ live' = { path \in live : ~CoveredBySome(tombs', path) }
  BY DEF BuildLivePlan, trees, summary
<1>2. CASE touched = {} /\ ~failed
  <2>1. live \cap Dirs \subseteq LocalDirs
    BY <1>1, <1>2 DEF CalmInv, LocalDirs
  <2>2. tombs' = {}
    BY <1>1, <2>1 DEF AddDeletedSubtrees
  <2>3. \A path : Visible(path)' = Visible(path)
    BY <1>1 DEF Visible
  <2> QED
    BY <1>1, <1>2, <2>2, <2>3 DEF CalmInv
<1> QED
  BY <1>1, <1>2 DEF CalmInv

\* Every step keeps a calm plan what it is.
LEMMA NextCalm == TypeInv /\ PhaseInv /\ PlanInv /\ CalmInv /\ [Next]_vars => CalmInv'
<1> SUFFICES ASSUME TypeInv, PhaseInv, PlanInv, CalmInv, [Next]_vars
             PROVE  CalmInv'
  OBVIOUS
<1> USE DEF trees, database, rows, plan, inventory, queues, summary, budgets
<1>1. ASSUME /\ UNCHANGED <<local, live, scanned, tombs>> /\ touched \subseteq touched'
             /\ failed => failed'
             /\ stopping' => stopping \/ failed'
             /\ pc \notin {"idle", "scan"} /\ pc' \notin {"idle", "scan"}
      PROVE  CalmInv'
  BY <1>1, CalmKept
<1>2. ASSUME touched' # {}, UNCHANGED <<failed, stopping, pc>> PROVE CalmInv'
  BY <1>2, CalmOver
<1>3. CASE UNCHANGED vars
  BY <1>3, CalmKept DEF vars
<1>4. CASE StartRun \/ RecordMissingRoot \/ FinishRun
  <2>1. CASE StartRun
    BY <2>1, CalmKept DEF StartRun
  <2>2. CASE RecordMissingRoot
    BY <2>2, CalmKept DEF RecordMissingRoot
  <2> QED
    BY <1>4, <2>1, <2>2, CalmOver DEF FinishRun
<1>5. CASE ScanSteps
  <2>1. CASE LoadCached \/ LoadFresh \/ RecordRows \/ RecordStatus
    BY <1>1, <2>1 DEF LoadCached, LoadFresh, RecordRows, RecordStatus
  <2> QED
    BY <1>5, <2>1, ScanCalm, LivePlanCalm DEF ScanSteps
<1>6. CASE MoveSteps
  <2>1. CASE NoTopMove \/ SendTopMove \/ JoinTopMove \/ Relist \/ SendCreate \/ JoinCreate \/ EndDirs
    BY <1>1, <2>1 DEF NoTopMove, SendTopMove, JoinTopMove, Relist, SendCreate, JoinCreate, EndDirs, Request,
       EnterDirs, Finish, MigrationFailure, TypeInv, AnswersType
  <2>2. CASE CreateFails
    BY <2>2, CalmOver DEF CreateFails, RunFails
  <2>3. CASE MergeSkips \/ MergeComparisonFails \/ SendMergeMove \/ JoinMergeMove \/ EndMerge
    BY <1>1, <2>3 DEF MergeSkips, MergeComparisonFails, SendMergeMove, JoinMergeMove, EndMerge, MergeReady,
       Request, Finish, ProcessingFailure, MigrationFailure, TypeInv, AnswersType
  <2> QED
    BY <1>6, <2>1, <2>2, <2>3 DEF MoveSteps
<1>7. CASE UploadSteps
  <2>1. CASE AdoptSkips \/ Adopt \/ AdoptComparisonFails \/ QueueUpload
    BY <1>1, <2>1 DEF AdoptSkips, Adopt, AdoptComparisonFails, QueueUpload, AdoptReady, ProcessingFailure
  <2>2. CASE EndAdopt \/ EndUploads
    BY <1>1, <2>2 DEF EndAdopt, EndUploads, EnterDeletes, Finish
  <2>3. CASE AdoptFindsGone
    <3>1. /\ AdoptReady /\ Visible(NextFile) = 0 /\ UNCHANGED <<local, live, scanned, touched, pc, stopping>>
          /\ failed => failed'
      BY <2>3 DEF AdoptFindsGone, ProcessingFailure
    <3>2. NextFile \in live \cap Files /\ pc = "adopt"
      BY <3>1, NextFileType DEF AdoptReady, PhaseInv
    <3>3. touched # {} \/ failed
      BY <3>1, <3>2, CalmFile
    <3> QED
      BY <3>1, <3>2, <3>3 DEF CalmInv
  <2>4. CASE StartUploads
    <3>1. PICK gone : gone \subseteq Scheduled /\ (\A file \in gone : NewlyGone(file)) /\ tombs' = TombsWith(gone)
      BY <2>4 DEF StartUploads
    <3>2. pc = "upload" /\ UNCHANGED <<local, live, scanned, touched, pc, failed, stopping>>
      BY <2>4 DEF StartUploads
    <3>3. Scheduled \subseteq live \cap Files
      BY ScheduledType DEF PhaseInv
    <3>4. CASE touched = {} /\ ~failed
      <4>1. gone = {}
        BY <3>1, <3>2, <3>3, <3>4, CalmFile
      <4>2. tombs = {}
        BY <3>2, <3>4 DEF CalmInv
      <4>3. tombs' = tombs
        BY <3>1, <4>1, <4>2 DEF TombsWith, AddDeletedSubtrees
      <4> QED
        BY <1>1, <3>2, <4>3
    <3> QED
      BY <3>2, <3>4 DEF CalmInv
  <2>5. ASSUME NEW file \in Files, Upload(file) PROVE CalmInv'
    <3>1. pc = "upload"
      BY <2>5 DEF Upload, PhaseInv
    <3> QED
      BY <1>1, <2>5, <3>1 DEF Upload
  <2>6. ASSUME NEW file \in Files, JoinUpload(file) PROVE CalmInv'
    <3>1. pc = "upload" /\ file \in live
      BY <2>6 DEF JoinUpload, PhaseInv
    <3>2. /\ UNCHANGED <<local, live, scanned, touched, pc>> /\ (failed => failed')
          /\ stopping' => stopping \/ failed'
          /\ tombs' = tombs \/ NewlyGone(file)
      BY <2>6 DEF JoinUpload, TypeInv, AnswersType, Answers
    <3>3. CASE touched = {} /\ ~failed
      BY <1>1, <3>1, <3>2, <3>3, CalmFile
    <3> QED
      BY <3>1, <3>2, <3>3 DEF CalmInv
  <2> QED
    BY <1>7, <2>1, <2>2, <2>3, <2>4, <2>5, <2>6 DEF UploadSteps
<1>8. CASE DeleteSteps
  BY <1>1, <1>8 DEF DeleteSteps, CheckDelete, SendDelete, JoinDelete, EndDeletes, DeleteReady, Request, Finish,
     TypeInv, AnswersType
<1>9. CASE FaultSteps
  <2>1. CASE CollisionFails \/ QuotaExceeded \/ \E kind \in FaultKinds : LoadFails(kind)
    BY <1>1, <2>1 DEF CollisionFails, QuotaExceeded, AdoptReady, LoadFails, FailRoot, PartialFailRoot, Finish
  <2>2. CASE Cancel
    BY <2>2, CalmKept DEF Cancel
  <2>3. CASE \E kind \in FaultKinds : ParentOrListingFails(kind) \/ Interrupted(kind)
    BY <2>3, CalmOver DEF ParentOrListingFails, Interrupted, RunFails
  <2>4. CASE Unmount \/ Mount
    BY <1>2, <2>4, PathFacts DEF Unmount, Mount
  <2>5. CASE \E root \in Roots, dir \in Dirs : ListingNotFound(root, dir)
    BY <1>1, <2>5 DEF ListingNotFound
  <2>6. CASE \E root \in Roots, path \in Paths : RemoveRemote(root, path)
    BY <2>6, CalmKept DEF RemoveRemote
  <2> QED
    BY <1>9, <2>1, <2>2, <2>3, <2>4, <2>5, <2>6 DEF FaultSteps
<1>10. CASE EditSteps
  <2>1. ASSUME NEW file \in Files, WriteLocal(file) PROVE CalmInv'
    BY <1>2, <2>1 DEF WriteLocal, Edit
  <2>2. ASSUME NEW path \in Paths, RemoveLocal(path) PROVE CalmInv'
    BY <1>2, <2>2, CoversItself DEF RemoveLocal, Edit
  <2> QED
    BY <1>10, <2>1, <2>2 DEF EditSteps
<1> QED
  BY <1>3, <1>4, <1>5, <1>6, <1>7, <1>8, <1>9, <1>10 DEF Next, EngineSteps

\* What has to hold in a smooth run.
HandFacts == SetsSee /\ WorkDone /\ DatabaseTrue /\ EndsWell

\* Before the inventory nothing has to hold.
LEMMA HandEarly ==
    ASSUME PhaseInv', pc' \in Before
    PROVE  HandInv'
<1>1. \A file \in Files : task'[file] = "none"
  BY DEF PhaseInv, Before
<1>2. SetsSee' /\ WorkDone'
  BY <1>1 DEF Before, SetsSee, Collecting, WorkDone, RootMade, DirsWanted, MergeTaken, UploadDone, Making
<1>3. DatabaseTrue' /\ EndsWell'
  BY DEF Before, DatabaseTrue, StatusComplete, RowsTrue, RowsListed, RecordsMade, Recorded, Placing, EndsWell,
     DeletesCover, AllPlaced
<1> QED
  BY <1>2, <1>3 DEF HandInv, HandFacts

\* Nothing has to hold when the run is not smooth.
LEMMA HandRough ==
    ASSUME ~Smooth'
    PROVE  HandInv'
  BY DEF HandInv

\* The inventory.
LEMMA LoadHand ==
    ASSUME TypeInv, PhaseInv', CalmInv, LoadFresh
    PROVE  HandInv'
<1>1. /\ pc = "sets" /\ pc' = "rows" /\ UNCHANGED <<remote, live, answer, touched, failed, tombs>>
      /\ sets' = [root \in Roots |-> Listed(remote[root])]
  BY DEF LoadFresh, trees, summary
<1> SUFFICES ASSUME Smooth' PROVE HandFacts'
  BY DEF HandInv, HandFacts
<1>2. tombs = {}
  BY <1>1 DEF CalmInv, Smooth
<1>3. \A root \in Roots, path \in Paths : sets'[root][path] = remote'[root][path]
  BY <1>1, <1>2 DEF Listed
<1>4. SetsSee'
  BY <1>1, <1>3, NumberFacts DEF SetsSee, CanonicalThere, CanonicalSeen, LegacySeen, TopTaken, TopMoved
<1>5. \A file \in Files : task'[file] = "none"
  BY <1>1 DEF PhaseInv
<1> QED
  BY <1>1, <1>4, <1>5 DEF HandFacts, WorkDone, RootMade, DirsWanted, MergeTaken, UploadDone, Making,
     DatabaseTrue, StatusComplete, RowsTrue, RowsListed, RecordsMade, Recorded, Placing, EndsWell, DeletesCover, AllPlaced

\* Its rows and its status.
LEMMA StatusHand ==
    ASSUME PhaseInv, PhaseInv', HandInv, RecordRows \/ RecordStatus
    PROVE  HandInv'
<1> USE DEF trees, database, rows, plan, inventory, queues, summary, budgets
<1>1. /\ UNCHANGED <<remote, live, sets, answer, touched, failed, cancelled, task, fromCache>>
      /\ \/ pc = "rows" /\ pc' = "status" /\ cache' = sets
         \/ pc = "status" /\ pc' = "top" /\ complete' /\ UNCHANGED cache
  BY DEF RecordRows, RecordStatus
<1> SUFFICES ASSUME Smooth' PROVE HandFacts'
  BY DEF HandInv, HandFacts
<1>2. SetsSee /\ DatabaseTrue /\ pc \in Collecting
  BY <1>1 DEF HandInv, Smooth, Collecting
<1>3. answer = "none" /\ \A file \in Files : task'[file] = "none"
  BY <1>1 DEF PhaseInv
<1>4. SetsSee'
  <2>1. ~TopMoved /\ ~TopMoved'
    BY <1>1, <1>3 DEF TopMoved
  <2> QED
    BY <1>1, <1>2, <2>1 DEF SetsSee, CanonicalThere, CanonicalSeen, LegacySeen, TopTaken, Wanted
<1>5. RowsTrue' /\ RowsListed'
  BY <1>1, <1>2 DEF SetsSee, CanonicalThere, DatabaseTrue, RowsTrue, RowsListed, Recorded, Deleted
<1> QED
  BY <1>1, <1>3, <1>4, <1>5 DEF HandFacts, WorkDone, RootMade, DirsWanted, MergeTaken, UploadDone, Making,
     DatabaseTrue, StatusComplete, RecordsMade, Recorded, Placing, EndsWell, DeletesCover, AllPlaced

\* The directories that the inventory lacks.
LEMMA EnterDirsHand ==
    ASSUME PhaseInv', Smooth', EnterDirs(sets'[0]), UNCHANGED live, ~cancelled, answer' = "none", complete',
           CanonicalThere', LegacySeen', \A path \in Paths : remote'[0][path] # 0 => sets'[0][path] # 0 \/ path \in Wanted,
           \A path \in Paths : cache'[0][path] # 0 => remote'[0][path] # 0
    PROVE  HandFacts'
<1>1. pc' = "dirs" /\ todo' = ({<<>>} \cup (live \cap Dirs)) \ In(sets'[0])
  BY DEF EnterDirs
<1>2. SetsSee'
  BY <1>1 DEF SetsSee, CanonicalSeen, TopTaken, TopMoved, Wanted
<1>3. \A file \in Files : task'[file] = "none"
  BY <1>1 DEF PhaseInv
<1>4. RootMade'
  <2>1. <<>> \in Paths
    BY PathFacts
  <2> QED
    BY <1>1, <2>1 DEF RootMade, CanonicalThere, In
<1>5. WorkDone'
  BY <1>1, <1>3, <1>4 DEF WorkDone, DirsWanted, MergeTaken, UploadDone, Wanted
<1> QED
  BY <1>1, <1>2, <1>5 DEF HandFacts, DatabaseTrue, StatusComplete, RowsTrue, RowsListed, RecordsMade, Placing,
     EndsWell, DeletesCover, AllPlaced

\* The top-level move.
LEMMA TopHand ==
    ASSUME TypeInv, PhaseInv, PhaseInv', HandInv, NoTopMove \/ SendTopMove \/ JoinTopMove \/ Relist
    PROVE  HandInv'
<1> USE DEF trees, database, rows, plan, inventory, queues, summary, budgets
<1> SUFFICES ASSUME Smooth' PROVE HandFacts'
  BY DEF HandInv, HandFacts
<1>0. 0 \in Roots /\ Legacies \subseteq Roots \ {0} /\ <<>> \in Paths
  BY NumberFacts, PathFacts
<1>1. pc \in {"top", "relist"} /\ UNCHANGED <<live, touched, cancelled, task, fromCache, cache, complete>>
  BY DEF NoTopMove, SendTopMove, JoinTopMove, Relist, Request
<1>2. ~failed /\ answer \notin {"fail", "stop"}
  <2>1. CASE JoinTopMove
    BY <2>1 DEF JoinTopMove, MigrationFailure, TypeInv, AnswersType, Smooth
  <2>2. CASE NoTopMove \/ SendTopMove \/ Relist
    BY <2>2 DEF NoTopMove, SendTopMove, Relist, Request, PhaseInv, Smooth
  <2> QED
    BY <2>1, <2>2
<1>3. Smooth
  BY <1>1, <1>2 DEF Smooth
<1>4. /\ SetsSee /\ CanonicalThere /\ CanonicalSeen /\ LegacySeen /\ TopTaken /\ complete
      /\ \A path \in Paths : cache[0][path] # 0 => sets[0][path] # 0
  BY <1>1, <1>3 DEF HandInv, SetsSee, Collecting, DatabaseTrue, StatusComplete, RowsListed, Recorded
<1>5. CASE NoTopMove
  <2>1. /\ UNCHANGED <<remote, sets, answer>> /\ answer = "none" /\ EnterDirs(sets'[0]) /\ pc = "top"
    BY <1>5 DEF NoTopMove
  <2>2. ~cancelled
    BY <1>3 DEF Smooth
  <2>3. CanonicalThere' /\ LegacySeen'
    BY <1>4, <2>1 DEF CanonicalThere, LegacySeen
  <2>4. \A path \in Paths : remote[0][path] # 0 => sets[0][path] # 0 \/ path \in Wanted
    BY <1>4, <2>1 DEF CanonicalSeen, TopMoved
  <2>5. \A path \in Paths : cache[0][path] # 0 => remote[0][path] # 0
    BY <1>4 DEF CanonicalThere
  <2> QED
    BY <1>1, <1>4, <2>1, <2>2, <2>3, <2>4, <2>5, EnterDirsHand
<1>6. CASE SendTopMove
  <2>1. PICK root : root = First(PresentLegacies)
    OBVIOUS
  <2>2. /\ pc = "top" /\ UNCHANGED <<pc, sets>> /\ sets[0] = Empty /\ answer' = "ok"
        /\ remote' = Moved(root, <<>>) /\ PresentLegacies # {}
    BY <1>6, <2>1 DEF SendTopMove, Request, TopMovePossible, Smooth
  <2>3. root \in Legacies
    BY <2>1, <2>2, FirstType DEF PresentLegacies
  <2>4. /\ remote'[root] = Without(remote[root], <<>>)
        /\ \A r \in Legacies : r # root => remote'[r] = remote[r]
    BY <1>0, <2>2, <2>3, MovedType DEF TypeInv, TreesType
  <2>5. \A path \in Paths : remote'[root][path] = 0
    BY <2>4, RootCovers DEF Without
  <2>6. root = First(PresentLegacies')
    BY <2>1, <2>2 DEF PresentLegacies
  <2>7. \A path \in Paths : sets'[0][path] = 0 /\ cache'[0][path] = 0
    BY <1>1, <1>4, <2>2 DEF Empty
  <2>8. TopTaken'
    BY <2>5, <2>6, <2>7 DEF TopTaken
  <2>9. LegacySeen'
    BY <1>0, <1>4, <2>2, <2>4, <2>5 DEF LegacySeen
  <2>10. SetsSee'
    BY <2>2, <2>7, <2>8, <2>9 DEF SetsSee, CanonicalThere, CanonicalSeen, TopMoved
  <2>11. \A file \in Files : task'[file] = "none"
    BY <2>2 DEF PhaseInv
  <2> QED
    BY <1>1, <1>4, <2>2, <2>7, <2>10, <2>11 DEF HandFacts, WorkDone, RootMade, DirsWanted, MergeTaken, UploadDone,
       Making, DatabaseTrue, StatusComplete, RowsTrue, RowsListed, RecordsMade, Placing, EndsWell, DeletesCover,
       AllPlaced
<1>7. CASE JoinTopMove
  <2>1. /\ pc = "top" /\ pc' = "relist" /\ answer = "ok" /\ answer' = "none" /\ UNCHANGED <<remote, sets>>
    BY <1>2, <1>7 DEF JoinTopMove, TypeInv, AnswersType
  <2>2. TopMoved /\ TopMoved' /\ PresentLegacies' = PresentLegacies
    BY <2>1 DEF TopMoved, PresentLegacies
  <2>3. \A path \in Paths : sets[0][path] = 0 /\ remote[First(PresentLegacies)][path] = 0
    BY <1>4, <2>2 DEF TopTaken
  <2>4. SetsSee'
    <3>1. PICK root : root = First(PresentLegacies)
      OBVIOUS
    <3>2. root = First(PresentLegacies')
      BY <2>2, <3>1
    <3>3. TopTaken'
      BY <2>1, <2>3, <3>1, <3>2 DEF TopTaken
    <3> QED
      BY <1>4, <2>1, <2>2, <3>3 DEF SetsSee, CanonicalThere, CanonicalSeen, LegacySeen
  <2>5. \A file \in Files : task'[file] = "none"
    BY <2>1 DEF PhaseInv
  <2>6. \A path \in Paths : cache'[0][path] = 0
    BY <1>1, <1>4, <2>3
  <2> QED
    BY <1>1, <1>4, <2>1, <2>4, <2>5, <2>6 DEF HandFacts, WorkDone, RootMade, DirsWanted, MergeTaken, UploadDone,
       Making, DatabaseTrue, StatusComplete, RowsTrue, RowsListed, RecordsMade, Placing, EndsWell, DeletesCover,
       AllPlaced
<1>8. CASE Relist
  <2>1. PICK root : root = First(PresentLegacies)
    OBVIOUS
  <2>2. /\ pc = "relist" /\ UNCHANGED <<remote, answer>> /\ answer = "none"
        /\ sets' = [sets EXCEPT ![0] = remote[0], ![root] = Empty] /\ EnterDirs(remote[0])
    BY <1>8, <2>1 DEF Relist, PhaseInv
  <2>3. root \in Legacies
    BY <2>1, <2>2, FirstType DEF PresentLegacies, PhaseInv
  <2>4. sets'[0] = remote'[0] /\ sets'[root] = Empty /\ \A r \in Legacies : r # root => sets'[r] = sets[r]
    BY <1>0, <2>2, <2>3 DEF TypeInv, SetsType
  <2>5. \A path \in Paths : remote[root][path] = 0 /\ sets[0][path] = 0
    BY <1>4, <2>1, <2>2 DEF TopTaken, TopMoved
  <2>6. CanonicalThere' /\ LegacySeen'
    <3>1. \A r \in Legacies, path \in Paths : remote[r][path] # 0 => r # root /\ sets[r][path] # 0
      BY <1>4, <2>5 DEF LegacySeen
    <3>2. LegacySeen'
      BY <2>2, <2>4, <3>1 DEF LegacySeen
    <3> QED
      BY <2>4, <3>2 DEF CanonicalThere
  <2>7. \A path \in Paths : cache'[0][path] = 0
    BY <1>1, <1>4, <2>5
  <2>8. ~cancelled
    BY <1>3 DEF Smooth
  <2> QED
    BY <1>1, <1>4, <2>2, <2>4, <2>6, <2>7, <2>8, EnterDirsHand
<1> QED
  BY <1>5, <1>6, <1>7, <1>8

\* The directories.
LEMMA DirsHand ==
    ASSUME TypeInv, PhaseInv, PhaseInv', HandInv, SendCreate \/ JoinCreate \/ EndDirs
    PROVE  HandInv'
<1> USE DEF trees, database, rows, plan, inventory, queues, summary, budgets
<1> SUFFICES ASSUME Smooth' PROVE HandFacts'
  BY DEF HandInv, HandFacts
<1>0. 0 \in Roots /\ Legacies \subseteq Roots \ {0} /\ Files \subseteq Paths /\ Dirs \subseteq Paths /\ <<>> \in Dirs
  BY NumberFacts, PathFacts
<1>1. /\ pc = "dirs" /\ UNCHANGED <<live, touched, cancelled, task, fromCache, cache, complete, failed>>
      /\ answer \notin {"fail", "stop"}
  BY DEF SendCreate, JoinCreate, EndDirs, Request
<1>2. Smooth
  BY <1>1 DEF Smooth
<1>3. /\ CanonicalThere /\ CanonicalSeen /\ LegacySeen /\ RootMade /\ DirsWanted /\ complete /\ ~cancelled
      /\ \A path \in Paths : cache[0][path] # 0 => remote[0][path] # 0
  BY <1>1, <1>2 DEF HandInv, SetsSee, Collecting, WorkDone, DatabaseTrue, StatusComplete, RowsTrue, Recorded,
     Deleted, Smooth
<1>4. \A path \in Paths : remote[0][path] # 0 => sets[0][path] # 0 \/ path \in Wanted
  BY <1>1, <1>3 DEF CanonicalSeen, TopMoved
<1>5. ASSUME pc' \in {"dirs", "merge"}, RootMade', DirsWanted', CanonicalThere', LegacySeen',
             answer' = "ok" => pc' = "dirs",
             \A path \in Paths : remote'[0][path] # 0 => sets'[0][path] # 0 \/ path \in Wanted,
             \A path \in Paths : cache[0][path] # 0 => remote'[0][path] # 0
      PROVE  HandFacts'
  <2>1. \A file \in Files : task'[file] = "none"
    BY <1>5 DEF PhaseInv
  <2>2. SetsSee'
    BY <1>1, <1>5 DEF SetsSee, CanonicalSeen, TopTaken, TopMoved, Wanted
  <2>3. WorkDone'
    BY <1>5, <2>1 DEF WorkDone, MergeTaken, UploadDone
  <2> QED
    BY <1>1, <1>3, <1>5, <2>2, <2>3 DEF HandFacts, DatabaseTrue, StatusComplete, RowsTrue, RowsListed, RecordsMade,
       Placing, EndsWell, DeletesCover, AllPlaced
<1>6. CASE EndDirs
  <2>1. pc' = "merge" /\ todo = {} /\ UNCHANGED <<remote, sets, answer>> /\ answer = "none"
    BY <1>3, <1>6 DEF EndDirs
  <2>2. RootMade'
    BY <1>1, <1>3, <2>1 DEF RootMade, Making
  <2>3. DirsWanted' /\ CanonicalThere' /\ LegacySeen'
    BY <1>3, <2>1 DEF DirsWanted, CanonicalThere, LegacySeen
  <2> QED
    BY <1>3, <1>4, <1>5, <2>1, <2>2, <2>3
<1>7. CASE SendCreate
  <2>1. PICK dir : dir = NextDir
    OBVIOUS
  <2>2. /\ UNCHANGED <<sets, todo, pc>> /\ todo # {} /\ answer' = "ok"
        /\ remote' = [remote EXCEPT ![0][dir] = 1]
    BY <1>7, <2>1 DEF SendCreate, Request, Smooth
  <2>3. dir \in Dirs /\ dir \in todo
    BY <1>1, <2>1, <2>2, NextDirType DEF PhaseInv
  <2>4. /\ \A path \in Paths : remote'[0][path] = IF path = dir THEN 1 ELSE remote[0][path]
        /\ \A root \in Legacies : remote'[root] = remote[root]
    BY <1>0, <2>2, <2>3, UploadedType, NumberFacts DEF TypeInv, TreesType
  <2>5. dir = NextDir'
    BY <2>1, <2>2 DEF NextDir
  <2>6. dir \in Wanted /\ todo \subseteq Wanted /\ Wanted' = Wanted
    BY <1>1, <1>3, <2>3 DEF DirsWanted, Wanted
  <2>7. RootMade'
    BY <1>0, <1>1, <1>3, <2>2, <2>4 DEF RootMade
  <2>8. DirsWanted'
    BY <1>0, <2>2, <2>3, <2>4, <2>5, <2>6 DEF DirsWanted
  <2>9. CanonicalThere' /\ LegacySeen'
    BY <1>3, <2>2, <2>4 DEF CanonicalThere, LegacySeen
  <2> QED
    BY <1>1, <1>3, <1>4, <1>5, <2>2, <2>4, <2>6, <2>7, <2>8, <2>9
<1>8. CASE JoinCreate
  <2>1. PICK dir : dir = NextDir
    OBVIOUS
  <2>2. /\ sets' = [sets EXCEPT ![0][dir] = 1] /\ todo' = todo \ {dir} /\ answer = "ok"
        /\ answer' = "none" /\ UNCHANGED <<remote, pc>>
    BY <1>8, <2>1 DEF JoinCreate
  <2>3. dir \in Dirs
    BY <1>1, <2>1, <2>2, AskedFor
  <2>4. remote[0][dir] # 0 /\ todo \subseteq Wanted /\ Wanted' = Wanted
    BY <1>1, <1>3, <2>1, <2>2 DEF DirsWanted, Wanted
  <2>5. /\ \A path \in Paths : sets'[0][path] = IF path = dir THEN 1 ELSE sets[0][path]
        /\ \A root \in Legacies : sets'[root] = sets[root]
    BY <1>0, <2>2, <2>3 DEF TypeInv, SetsType, Trees
  <2>6. CanonicalThere' /\ LegacySeen'
    BY <1>3, <2>2, <2>4, <2>5 DEF CanonicalThere, LegacySeen
  <2>7. RootMade' /\ DirsWanted'
    BY <1>1, <1>3, <2>2, <2>4 DEF RootMade, DirsWanted
  <2> QED
    BY <1>1, <1>3, <1>4, <1>5, <2>2, <2>5, <2>6, <2>7
<1> QED
  BY <1>6, <1>7, <1>8

\* The merge moves.
LEMMA MergeHand ==
    ASSUME TypeInv, PhaseInv, PlanInv, CalmInv, PhaseInv', HandInv,
           MergeSkips \/ MergeComparisonFails \/ SendMergeMove \/ JoinMergeMove \/ EndMerge
    PROVE  HandInv'
<1> USE DEF trees, database, rows, plan, inventory, queues, summary, budgets
<1> SUFFICES ASSUME Smooth' PROVE HandFacts'
  BY DEF HandInv, HandFacts
<1>0. 0 \in Roots /\ Legacies \subseteq Roots \ {0} /\ Files \subseteq Paths /\ <<>> \in Paths \ Files
  BY NumberFacts, PathFacts
<1>1. pc = "merge" /\ UNCHANGED <<live, touched, cancelled, task, fromCache, cache, complete>>
  BY DEF MergeSkips, MergeComparisonFails, SendMergeMove, JoinMergeMove, EndMerge, MergeReady, Request
<1>2. ~failed /\ answer \notin {"fail", "stop"}
  <2>1. CASE JoinMergeMove
    BY <2>1 DEF JoinMergeMove, MigrationFailure, TypeInv, AnswersType, Smooth
  <2>2. CASE MergeSkips \/ MergeComparisonFails \/ SendMergeMove \/ EndMerge
    BY <2>2 DEF MergeSkips, MergeComparisonFails, SendMergeMove, EndMerge, MergeReady, Request, ProcessingFailure,
       Smooth, TypeInv, FlagsType
  <2> QED
    BY <2>1, <2>2
<1>3. Smooth /\ touched = {} /\ ~cancelled
  BY <1>1, <1>2 DEF Smooth
<1>4. /\ CanonicalThere /\ CanonicalSeen /\ LegacySeen /\ MergeTaken /\ complete /\ remote[0][<<>>] # 0
      /\ \A path \in Paths : cache[0][path] # 0 => remote[0][path] # 0
  BY <1>1, <1>3 DEF HandInv, SetsSee, Collecting, WorkDone, RootMade, Making, DatabaseTrue, StatusComplete, RowsTrue,
     Recorded, Deleted
<1>5. \A path \in Paths : remote[0][path] # 0 => sets[0][path] # 0 \/ path \in Wanted
  BY <1>1, <1>4 DEF CanonicalSeen, TopMoved
<1>6. ASSUME pc' \in {"merge", "adopt"}, MergeTaken', CanonicalThere', LegacySeen', remote'[0][<<>>] # 0,
             pc' = "adopt" => todo' = live \cap Files,
             \A path \in Paths : remote'[0][path] # 0 => sets'[0][path] # 0 \/ path \in Wanted,
             \A path \in Paths : cache[0][path] # 0 => remote'[0][path] # 0
      PROVE  HandFacts'
  <2>1. \A file \in Files : task'[file] = "none"
    BY <1>6 DEF PhaseInv
  <2>2. SetsSee'
    BY <1>1, <1>6 DEF SetsSee, CanonicalSeen, TopTaken, TopMoved, Wanted
  <2>3. WorkDone'
    BY <1>6, <2>1 DEF WorkDone, RootMade, DirsWanted, UploadDone
  <2>4. RecordsMade'
    BY <1>1, <1>6 DEF RecordsMade, Placing, Waiting
  <2> QED
    BY <1>1, <1>4, <1>6, <2>2, <2>3, <2>4 DEF HandFacts, DatabaseTrue, StatusComplete, RowsTrue, RowsListed,
       EndsWell, DeletesCover, AllPlaced
<1>7. ASSUME UNCHANGED <<remote, sets>>, answer' = "none", pc' \in {"merge", "adopt"},
             pc' = "adopt" => todo' = live \cap Files
      PROVE  HandFacts'
  <2>1. CanonicalThere' /\ LegacySeen' /\ MergeTaken'
    BY <1>4, <1>7 DEF CanonicalThere, LegacySeen, MergeTaken
  <2> QED
    BY <1>4, <1>5, <1>6, <1>7, <2>1
<1>8. CASE MergeSkips
  BY <1>1, <1>7, <1>8 DEF MergeSkips, MergeReady
<1>9. CASE MergeComparisonFails
  <2>1. MergeReady /\ (Comparison(First(LegacyWith(NextFile)), NextFile) = "skipped" \/ failed')
    BY <1>9 DEF MergeComparisonFails, ProcessingFailure
  <2>2. NextFile \in live \cap Files
    BY <2>1, NextFileType DEF MergeReady, PhaseInv
  <2>3. Visible(NextFile) # 0
    BY <1>1, <1>2, <1>3, <2>2, CalmFile
  <2>4. Comparison(First(LegacyWith(NextFile)), NextFile) # "skipped"
    BY <2>3 DEF Comparison, ProcessingError
  <2> QED
    BY <2>1, <2>4 DEF Smooth
<1>10. CASE EndMerge
  BY <1>3, <1>7, <1>10 DEF EndMerge
<1>11. CASE SendMergeMove
  <2>1. PICK file : file = NextFile
    OBVIOUS
  <2>2. PICK root : root = First(LegacyWith(file))
    OBVIOUS
  <2>3. /\ MergeReady /\ Merges(file) /\ UNCHANGED <<sets, todo, pc>>
        /\ answer' = "ok" /\ CanMove(root, file) /\ remote' = Moved(root, file)
    BY <1>11, <2>1, <2>2 DEF SendMergeMove, Request, Smooth
  <2>4. file \in Files /\ file \in live /\ root \in Legacies
    <3>1. file \in Files /\ file \in live
      BY <2>1, <2>3, NextFileType DEF MergeReady, PhaseInv
    <3>2. root \in LegacyWith(file)
      BY <2>2, <2>3, FirstType DEF Merges, LegacyWith
    <3> QED
      BY <3>1, <3>2 DEF LegacyWith
  <2>5. /\ remote'[0][file] = remote[root][file] /\ remote'[root][file] = 0
        /\ \A path \in Paths : path # file => remote'[0][path] = remote[0][path]
        /\ \A r \in Legacies, p \in Paths : remote'[r][p] \in {0, remote[r][p]}
    <3>1. /\ remote'[root] = Without(remote[root], file)
          /\ \A p \in Paths : remote'[0][p] = IF Covers(file, p) THEN remote[root][p] ELSE remote[0][p]
          /\ \A r \in Legacies : r # root => remote'[r] = remote[r]
      BY <1>0, <2>3, <2>4, MovedType DEF TypeInv, TreesType
    <3> QED
      BY <1>0, <2>4, <3>1, FileCoversItself, CoversItself DEF Without
  <2>6. remote'[0][file] # 0
    BY <2>3, <2>5 DEF CanMove
  <2>7. file = NextFile' /\ LegacyWith(file)' = LegacyWith(file)
    BY <2>1, <2>3 DEF NextFile, FirstFile, LegacyWith
  <2>8. root = First(LegacyWith(file)')
    BY <2>2, <2>7
  <2>9. MergeTaken'
    BY <2>5, <2>6, <2>7, <2>8 DEF MergeTaken, LegacyWith
  <2>10. CanonicalThere' /\ LegacySeen'
    <3>1. CanonicalThere'
      BY <1>4, <2>3, <2>5, <2>6 DEF CanonicalThere
    <3> QED
      BY <1>4, <2>3, <2>5, <3>1 DEF LegacySeen
  <2>11. \A path \in Paths : remote'[0][path] # 0 => sets'[0][path] # 0 \/ path \in Wanted
    BY <1>5, <2>3, <2>4, <2>5 DEF Wanted
  <2> QED
    BY <1>0, <1>1, <1>4, <1>6, <2>3, <2>4, <2>5, <2>6, <2>9, <2>10, <2>11
<1>12. CASE JoinMergeMove
  <2>1. PICK file : file = NextFile
    OBVIOUS
  <2>2. PICK root : root = First(LegacyWith(file))
    OBVIOUS
  <2>3. answer = "ok"
    BY <1>2, <1>12 DEF JoinMergeMove, TypeInv, AnswersType
  <2>4. /\ sets' = [sets EXCEPT ![0][file] = sets[root][file], ![root][file] = 0]
        /\ UNCHANGED <<remote, pc>> /\ answer' = "none"
    BY <1>12, <2>1, <2>2, <2>3 DEF JoinMergeMove
  <2>5. file \in Files /\ root \in Legacies /\ sets[root][file] # 0
    <3>1. file \in Files
      BY <1>1, <2>1, <2>3, AskedFor
    <3>2. Merges(file)
      BY <1>1, <2>1, <2>3 DEF PhaseInv
    <3>3. root \in LegacyWith(file)
      BY <2>2, <3>2, FirstType DEF Merges, LegacyWith
    <3> QED
      BY <3>1, <3>3 DEF LegacyWith
  <2>6. remote[0][file] # 0 /\ remote[root][file] = 0
    BY <1>1, <1>4, <2>1, <2>2, <2>3 DEF MergeTaken
  <2>7. /\ sets'[0][file] = sets[root][file]
        /\ \A path \in Paths : path # file => sets'[0][path] = sets[0][path]
        /\ \A r \in Legacies, p \in Paths : sets'[r][p] = IF r = root /\ p = file THEN 0 ELSE sets[r][p]
    BY <1>0, <2>4, <2>5 DEF TypeInv, SetsType, Trees
  <2>8. CanonicalThere' /\ LegacySeen' /\ MergeTaken'
    <3>1. CanonicalThere'
      BY <1>4, <2>4, <2>6, <2>7 DEF CanonicalThere
    <3>2. \A r \in Legacies, p \in Paths : remote[r][p] # 0 => sets[r][p] # 0 /\ ~(r = root /\ p = file)
      BY <1>4, <2>6 DEF LegacySeen
    <3>3. \A r \in Legacies, p \in Paths : remote'[r][p] # 0 => sets'[r][p] # 0
      <4> SUFFICES ASSUME NEW r \in Legacies, NEW p \in Paths, remote'[r][p] # 0 PROVE sets'[r][p] # 0
        OBVIOUS
      <4>1. sets[r][p] # 0 /\ ~(r = root /\ p = file)
        BY <2>4, <3>2
      <4>2. sets'[r][p] = sets[r][p]
        BY <2>7, <4>1
      <4> QED
        BY <4>1, <4>2
    <3>4. LegacySeen'
      BY <3>3 DEF LegacySeen
    <3> QED
      BY <2>4, <3>1, <3>4 DEF MergeTaken
  <2>9. \A path \in Paths : remote'[0][path] # 0 => sets'[0][path] # 0 \/ path \in Wanted
    BY <1>5, <2>4, <2>5, <2>7
  <2> QED
    BY <1>1, <1>4, <1>6, <2>4, <2>8, <2>9
<1> QED
  BY <1>8, <1>9, <1>10, <1>11, <1>12

\* What the phases that place the files have to keep.
LEMMA PlacingHand ==
    ASSUME PhaseInv', pc' \in {"adopt", "upload"}, CanonicalThere', LegacySeen', UploadDone', RecordsMade', complete',
           remote'[0][<<>>] # 0,
           \A path \in Paths : remote'[0][path] # 0 => sets'[0][path] # 0 \/ path \in Wanted',
           \A path \in Paths : cache'[0][path] # 0 => remote'[0][path] # 0
    PROVE  HandFacts'
<1>1. SetsSee'
  BY DEF SetsSee, CanonicalSeen, TopTaken, TopMoved
<1>2. WorkDone'
  BY DEF WorkDone, RootMade, DirsWanted, MergeTaken
<1> QED
  BY <1>1, <1>2 DEF HandFacts, DatabaseTrue, StatusComplete, RowsTrue, RowsListed, EndsWell, DeletesCover, AllPlaced

\* What they have.
LEMMA PlacingFacts ==
    ASSUME HandInv, Smooth, pc \in {"adopt", "upload"}
    PROVE  /\ CanonicalThere /\ LegacySeen /\ UploadDone /\ RecordsMade /\ complete
           /\ remote[0][<<>>] # 0
           /\ \A path \in Paths : remote[0][path] # 0 => sets[0][path] # 0 \/ path \in Wanted
           /\ \A path \in Paths : cache[0][path] # 0 => remote[0][path] # 0
  BY DEF HandInv, SetsSee, CanonicalSeen, TopMoved, Collecting, WorkDone, RootMade, Making, DatabaseTrue,
     StatusComplete, RowsTrue, Recorded, Deleted

\* The rows that a flush or an upload writes are those of the sets.
LEMMA UpsertFacts ==
    ASSUME TypeInv, NEW files \in SUBSET Files, UpsertRows(files)
    PROVE  /\ \A path \in Paths : cache'[0][path] = IF path \in files THEN sets'[0][path] ELSE cache[0][path]
           /\ \A root \in Legacies : cache'[root] = cache[root]
<1>1. cache \in [Roots -> Trees] /\ 0 \in Roots /\ Legacies \subseteq Roots \ {0}
  BY NumberFacts DEF TypeInv, RowsType
<1> QED
  BY <1>1 DEF UpsertRows

\* A delete covers whatever the canonical place has beyond the plan.
LEMMA CanonicalCovered ==
    ASSUME TypeInv, \A path \in Paths \ {<<>>} : DeleteCandidate(path),
           NEW path \in Paths, path \notin Wanted, sets[0][path] # 0
    PROVE  \E d \in DeleteCandidates : d[1] = 0 /\ Covers(d[2], path)
<1> DEFINE known == KnownLive(live \cap Dirs, live \cap Files, tombs)
           targets == CoalescedDeletes(known, In(sets[0]))
<1>1. path \in Seq(STRING) /\ path # <<>> /\ path \in In(sets[0]) /\ path \notin known
  BY PathFacts DEF Wanted, In, KnownLive
<1>2. \E target \in targets : Covers(target, path)
  <2> HIDE DEF known
  <2>1. CASE DeadAncestors(path, known) = {}
    <3>1. path \in targets
      BY <1>1, <2>1 DEF CoalescedDeletes
    <3> QED
      BY <3>1, CoversItself
  <2>2. CASE DeadAncestors(path, known) # {}
    <3>1. Shortest(DeadAncestors(path, known)) \in targets
      BY <1>1, <2>2 DEF CoalescedDeletes
    <3>2. DeadAncestors(path, known) \subseteq Ancestors(path)
      BY DEF DeadAncestors
    <3>3. Shortest(DeadAncestors(path, known)) \in Ancestors(path)
      BY <1>1, <2>2, <3>2, AncestorsAreSeqs, ShortestIsLeast
    <3>4. Covers(Shortest(DeadAncestors(path, known)), path)
      BY <1>1, <3>3, AncestorCovers
    <3> QED
      BY <3>1, <3>4
  <2> QED
    BY <2>1, <2>2
<1>3. PICK target \in targets : Covers(target, path)
  BY <1>2
<1>4. <<0, target>> \in DeleteCandidates
  BY <1>3 DEF DeleteCandidates
<1> QED
  BY <1>3, <1>4

\* A delete covers whatever a legacy root has below it.
LEMMA LegacyCovered ==
    ASSUME TypeInv, NEW root \in Legacies, NEW path \in Paths \ {<<>>}, sets[root][path] # 0
    PROVE  \E d \in DeleteCandidates : d[1] = root /\ Covers(d[2], path)
<1> DEFINE above == { dir \in (In(sets[root]) \cap Dirs) \ {<<>>} : Below(path, dir) }
<1>1. path \in In(sets[root]) \ {<<>>} /\ path \in Seq(STRING)
  BY PathFacts DEF In
<1>2. \E target \in LegacyDeletes(root) : Covers(target, path)
  <2>1. CASE above = {}
    BY <1>1, <2>1, CoversItself DEF LegacyDeletes
  <2>2. CASE above # {}
    <3>1. above \subseteq Seq(STRING)
      BY PathFacts
    <3>2. PICK top \in above : \A other \in above : Len(top) <= Len(other)
      BY <2>2, <3>1, ShortestIsLeast
    <3>3. ASSUME NEW dir \in (In(sets[root]) \cap Dirs) \ {<<>>}, Below(top, dir) PROVE FALSE
      <4>1. dir \in Seq(STRING) /\ top \in Seq(STRING) /\ Covers(dir, top) /\ dir # top /\ Covers(top, path)
        BY <3>1, <3>2, <3>3, PathFacts DEF Below
      <4>2. Covers(dir, path)
        BY <1>1, <4>1, CoversTransitive
      <4>3. Len(dir) < Len(top) /\ Len(top) <= Len(path)
        BY <1>1, <4>1 DEF Covers
      <4>4. dir \in above
        BY <3>3, <4>2, <4>3 DEF Below
      <4> QED
        BY <3>2, <4>1, <4>3, <4>4
    <3>4. top \in LegacyDeletes(root)
      BY <3>2, <3>3, PathFacts DEF LegacyDeletes
    <3> QED
      BY <3>2, <3>4 DEF Below
  <2> QED
    BY <2>1, <2>2
<1>3. PICK target \in LegacyDeletes(root) : Covers(target, path)
  BY <1>2
<1>4. <<root, target>> \in DeleteCandidates
  BY <1>3 DEF DeleteCandidates
<1> QED
  BY <1>3, <1>4

\* The deletes that a smooth run plans cover whatever has to go.
LEMMA EnterDeletesHand ==
    ASSUME TypeInv, \A path \in Paths \ {<<>>} : DeleteCandidate(path),
           HandInv, Smooth, PhaseInv', pc \in {"adopt", "upload"}, pc' = "delete", deletes' = DeleteCandidates,
           UNCHANGED <<remote, live, sets, complete>>, answer' = "none", UploadDone', RecordsMade',
           \A path \in Paths : cache'[0][path] # 0 => remote'[0][path] # 0
    PROVE  HandFacts'
<1>1. /\ LegacySeen /\ remote[0][<<>>] # 0 /\ complete
      /\ \A path \in Paths : remote[0][path] # 0 => sets[0][path] # 0 \/ path \in Wanted
  BY PlacingFacts
<1>2. ASSUME NEW root \in Roots, NEW path \in Paths, remote[root][path] # 0, Extra(root, path)
      PROVE  \E d \in DeleteCandidates : d[1] = root /\ Covers(d[2], path)
  <2>1. CASE root = 0
    BY <1>1, <1>2, <2>1, CanonicalCovered DEF Extra
  <2>2. CASE root # 0
    <3>1. root \in Legacies /\ path \in Paths \ {<<>>}
      BY <1>2, <2>2 DEF Roots, Legacies, Extra
    <3> QED
      BY <1>1, <1>2, <3>1, LegacyCovered DEF LegacySeen
  <2> QED
    BY <2>1, <2>2
<1>3. DeletesCover'
  BY <1>2 DEF DeletesCover, Extra, Wanted
<1>4. WorkDone'
  BY <1>1 DEF WorkDone, RootMade, DirsWanted, MergeTaken
<1> QED
  BY <1>1, <1>3, <1>4 DEF HandFacts, SetsSee, Collecting, DatabaseTrue, StatusComplete, RowsTrue, RowsListed, EndsWell,
     AllPlaced

\* What a flush leaves of the rows and the records in a smooth run.
LEMMA FlushHand ==
    ASSUME TypeInv, Smooth, HandInv, pc = "adopt", Flush, record' = FlushedRecords, UNCHANGED <<remote, live, scanned>>
    PROVE  /\ UNCHANGED sets /\ adopting' = {}
           /\ \A path \in Paths : cache'[0][path] # 0 => remote'[0][path] # 0
           /\ \A file \in live \cap Files :
                 record[file].version = scanned[file] \/ file \in adopting => record'[file].version = scanned'[file]
<1>1. UNCHANGED sets /\ adopting' = {} /\ UpsertRows(adopting) /\ adopting \in SUBSET Files
  BY DEF Flush, inventory, TypeInv, QueuesType
<1>2. \A path \in Paths : cache'[0][path] \in {cache[0][path], sets[0][path]}
  BY <1>1, UpsertFacts
<1>3. \A path \in Paths : cache'[0][path] # 0 => remote'[0][path] # 0
  BY <1>2, PlacingFacts DEF CanonicalThere
<1> QED
  BY <1>1, <1>3 DEF FlushedRecords, FileStateRecord

\* Adoption.
LEMMA AdoptHand ==
    ASSUME TypeInv, PhaseInv, PlanInv, CalmInv, PhaseInv', HandInv,
           \A path \in Paths \ {<<>>} : DeleteCandidate(path),
           AdoptSkips \/ AdoptFindsGone \/ Adopt \/ AdoptComparisonFails \/ QueueUpload \/ EndAdopt
    PROVE  HandInv'
<1> USE DEF trees, database, rows, plan, inventory, queues, summary, budgets
<1> SUFFICES ASSUME Smooth' PROVE HandFacts'
  BY DEF HandInv, HandFacts
<1>1. /\ pc = "adopt"
      /\ UNCHANGED <<live, scanned, touched, cancelled, task, fromCache, complete, answer, remote, sets>>
  BY DEF AdoptSkips, AdoptFindsGone, Adopt, AdoptComparisonFails, QueueUpload, EndAdopt, AdoptReady, Flush
<1>2. ~failed
  BY DEF AdoptSkips, AdoptFindsGone, Adopt, AdoptComparisonFails, QueueUpload, EndAdopt, ProcessingFailure, Smooth,
     TypeInv, FlagsType
<1>3. Smooth /\ touched = {} /\ ~cancelled /\ ~failed'
  BY <1>1, <1>2 DEF Smooth
<1>4. /\ CanonicalThere /\ LegacySeen /\ UploadDone /\ RecordsMade /\ complete
      /\ remote[0][<<>>] # 0
      /\ \A path \in Paths : remote[0][path] # 0 => sets[0][path] # 0 \/ path \in Wanted
      /\ \A path \in Paths : cache[0][path] # 0 => remote[0][path] # 0
  BY <1>1, <1>3, PlacingFacts
<1>5. \A file \in live \cap Files : file \in adopting \cup batch \cup todo \/ record[file].version = scanned[file]
  BY <1>1, <1>4 DEF RecordsMade, Placing, Waiting, PhaseInv
<1>6. ASSUME pc' \in {"adopt", "upload"}, \A path \in Paths : cache'[0][path] # 0 => remote'[0][path] # 0,
             \A file \in live \cap Files :
                 file \in adopting' \cup batch' \cup todo' \/ record'[file].version = scanned'[file]
      PROVE  HandFacts'
  <2>1. CanonicalThere' /\ LegacySeen' /\ UploadDone' /\ Wanted' = Wanted
    BY <1>1, <1>4 DEF CanonicalThere, LegacySeen, UploadDone, Wanted
  <2>2. RecordsMade'
    BY <1>1, <1>6 DEF RecordsMade, Waiting
  <2> QED
    BY <1>1, <1>4, <1>6, <2>1, <2>2, PlacingHand
<1>7. ASSUME AdoptReady PROVE NextFile \in live \cap Files /\ NextFile \in todo
  BY <1>7, NextFileType DEF AdoptReady, PhaseInv
<1>8. CASE AdoptSkips
  <2>1. /\ AdoptReady /\ (CoveredBySome(tombs, NextFile) \/ CanResume(NextFile)) /\ todo' = todo \ {NextFile}
        /\ UNCHANGED <<cache, record, adopting, batch, pc>>
    BY <1>8 DEF AdoptSkips
  <2>2. CanResume(NextFile)
    BY <1>1, <1>2, <1>3, <1>7, <2>1, CalmFile
  <2>3. record[NextFile].version = scanned[NextFile]
    BY <2>2 DEF CanResume
  <2> QED
    BY <1>1, <1>4, <1>5, <1>6, <2>1, <2>3
<1>9. CASE AdoptFindsGone
  <2>1. AdoptReady /\ Visible(NextFile) = 0
    BY <1>9 DEF AdoptFindsGone
  <2> QED
    BY <1>1, <1>2, <1>3, <1>7, <2>1, CalmFile
<1>10. CASE Adopt
  <2>1. /\ adopting' = adopting \cup {NextFile} /\ todo' = todo \ {NextFile}
        /\ UNCHANGED <<cache, record, batch, pc>>
    BY <1>10 DEF Adopt
  <2> QED
    BY <1>1, <1>4, <1>5, <1>6, <2>1
<1>11. CASE AdoptComparisonFails
  BY <1>3, <1>11 DEF AdoptComparisonFails, ProcessingFailure
<1>12. CASE QueueUpload
  <2>1. /\ Flush /\ record' = FlushedRecords /\ batch' = batch \cup {NextFile} /\ todo' = todo \ {NextFile}
        /\ pc' \in {"adopt", "upload"}
    BY <1>12 DEF QueueUpload
  <2>2. /\ \A path \in Paths : cache'[0][path] # 0 => remote'[0][path] # 0
        /\ \A file \in live \cap Files :
              record[file].version = scanned[file] \/ file \in adopting => record'[file].version = scanned'[file]
    BY <1>1, <1>3, <2>1, FlushHand
  <2> QED
    BY <1>5, <1>6, <2>1, <2>2
<1>13. CASE EndAdopt
  <2>1. /\ Flush /\ record' = FlushedRecords /\ todo = {}
        /\ IF batch # {} THEN pc' = "upload" /\ UNCHANGED <<todo, batch, deletes>> ELSE EnterDeletes
    BY <1>3, <1>13 DEF EndAdopt
  <2>2. /\ \A path \in Paths : cache'[0][path] # 0 => remote'[0][path] # 0
        /\ \A file \in live \cap Files :
              record[file].version = scanned[file] \/ file \in adopting => record'[file].version = scanned'[file]
    BY <1>1, <1>3, <2>1, FlushHand
  <2>3. CASE batch # {}
    BY <1>5, <1>6, <2>1, <2>2, <2>3
  <2>4. CASE batch = {}
    <3>1. pc' = "delete" /\ deletes' = DeleteCandidates
      BY <1>3, <2>1, <2>4 DEF EnterDeletes
    <3>2. RecordsMade'
      BY <1>1, <1>5, <2>1, <2>2, <2>4 DEF RecordsMade
    <3>3. UploadDone' /\ answer' = "none"
      BY <1>1, <1>4 DEF UploadDone, PhaseInv
    <3> QED
      BY <1>1, <1>3, <2>2, <3>1, <3>2, <3>3, EnterDeletesHand
  <2> QED
    BY <2>3, <2>4
<1> QED
  BY <1>8, <1>9, <1>10, <1>11, <1>12, <1>13

\* The uploads.
LEMMA UploadHand ==
    ASSUME TypeInv, PhaseInv, PlanInv, CalmInv, PhaseInv', HandInv,
           \A path \in Paths \ {<<>>} : DeleteCandidate(path),
           \/ StartUploads \/ EndUploads
           \/ \E file \in Files : Upload(file) \/ JoinUpload(file)
    PROVE  HandInv'
<1> USE DEF trees, database, rows, plan, inventory, queues, summary, budgets
<1> SUFFICES ASSUME Smooth' PROVE HandFacts'
  BY DEF HandInv, HandFacts
<1>0. 0 \in Roots /\ Legacies \subseteq Roots \ {0} /\ Files \subseteq Paths \ {<<>>} /\ <<>> \in Paths
  BY NumberFacts, PathFacts
<1>1. /\ pc = "upload"
      /\ UNCHANGED <<live, scanned, touched, cancelled, fromCache, complete, answer, local, adopting>>
  <2>1. pc = "upload"
    BY DEF StartUploads, EndUploads, Upload, JoinUpload, PhaseInv
  <2>2. adopting = {}
    BY <2>1 DEF PhaseInv
  <2> QED
    BY <2>1, <2>2 DEF StartUploads, EndUploads, Upload, JoinUpload, EnterDeletes, Finish
<1>2. ASSUME ~failed, \A file \in Files : task[file] \notin {"fail", "stop"}
      PROVE  /\ Smooth /\ touched = {} /\ ~cancelled /\ CanonicalThere /\ LegacySeen /\ UploadDone /\ RecordsMade
             /\ complete /\ remote[0][<<>>] # 0
             /\ \A path \in Paths : remote[0][path] # 0 => sets[0][path] # 0 \/ path \in Wanted
             /\ \A path \in Paths : cache[0][path] # 0 => remote[0][path] # 0
             /\ \A file \in live \cap Files :
                   file \in batch \cup todo \/ task[file] # "none" \/ record[file].version = scanned[file]
  <2>1. Smooth
    BY <1>1, <1>2 DEF Smooth
  <2>2. adopting = {} /\ touched = {} /\ ~cancelled
    BY <1>1, <2>1 DEF PhaseInv, Smooth
  <2> QED
    BY <1>1, <2>1, <2>2, PlacingFacts DEF RecordsMade, Placing, Waiting
<1>3. ASSUME pc' \in {"adopt", "upload"}, ~failed, \A file \in Files : task[file] \notin {"fail", "stop"},
             CanonicalThere', LegacySeen', UploadDone', remote'[0][<<>>] # 0,
             \A path \in Paths : remote'[0][path] # 0 => sets'[0][path] # 0 \/ path \in Wanted,
             \A path \in Paths : cache'[0][path] # 0 => remote'[0][path] # 0,
             \A file \in live \cap Files :
                 file \in batch' \cup todo' \/ task'[file] # "none" \/ record'[file].version = scanned'[file]
      PROVE  HandFacts'
  <2>1. RecordsMade'
    BY <1>1, <1>3 DEF RecordsMade, Waiting
  <2>2. complete' /\ Wanted' = Wanted
    BY <1>1, <1>2, <1>3 DEF Wanted
  <2> QED
    BY <1>3, <2>1, <2>2, PlacingHand
<1>4. CASE StartUploads
  <2>1. PICK known, gone :
            /\ known = { file \in Scheduled : ~CoveredBySome(tombs, file) }
            /\ gone = { file \in known : NewlyGone(file) }
            /\ task' = [file \in Files |-> IF file \in known \ gone THEN "queued" ELSE "none"]
    BY <1>4 DEF StartUploads
  <2>2. /\ batch' = batch \ Scheduled /\ UNCHANGED <<pc, todo, cache, record, sets, remote, failed>> /\ ~Uploading
    BY <1>4 DEF StartUploads
  <2>3. ~failed /\ \A file \in Files : task[file] = "none"
    BY <2>2 DEF Smooth, Uploading, NoTasks
  <2>4. Scheduled \subseteq live \cap Files
    BY ScheduledType DEF PhaseInv
  <2>5. \A file \in Scheduled : task'[file] = "queued"
    BY <1>1, <1>2, <2>1, <2>3, <2>4, CalmFile
  <2>6. CanonicalThere' /\ LegacySeen' /\ UploadDone'
    BY <1>2, <2>1, <2>2, <2>3 DEF CanonicalThere, LegacySeen, UploadDone
  <2> QED
    BY <1>1, <1>2, <1>3, <2>2, <2>3, <2>5, <2>6
<1>5. CASE EndUploads
  <2>1. /\ batch = {} /\ ~Uploading /\ UNCHANGED <<task, cache, record, sets, remote, failed, stopping>>
        /\ batch' = {}
    BY <1>5 DEF EndUploads, EnterDeletes, Finish
  <2>2. ~failed /\ \A file \in Files : task[file] = "none"
    BY <2>1 DEF Smooth, Uploading, NoTasks
  <2>3. ~stopping
    BY <2>2 DEF CalmInv
  <2>4. CanonicalThere' /\ LegacySeen' /\ UploadDone'
    BY <1>2, <2>1, <2>2 DEF CanonicalThere, LegacySeen, UploadDone
  <2>5. CASE todo # {}
    <3>1. pc' = "adopt" /\ UNCHANGED todo
      BY <1>5, <2>3, <2>5 DEF EndUploads
    <3> QED
      BY <1>1, <1>2, <1>3, <2>1, <2>2, <2>4, <3>1
  <2>6. CASE todo = {}
    <3>1. pc' = "delete" /\ deletes' = DeleteCandidates
      BY <1>2, <1>5, <2>2, <2>3, <2>6 DEF EndUploads, EnterDeletes
    <3>2. RecordsMade'
      BY <1>1, <1>2, <2>1, <2>2, <2>6, <3>1 DEF RecordsMade
    <3>3. answer' = "none"
      BY <1>1 DEF PhaseInv
    <3> QED
      BY <1>1, <1>2, <2>1, <2>2, <2>4, <3>1, <3>2, <3>3, EnterDeletesHand
  <2> QED
    BY <2>5, <2>6
<1>6. ASSUME NEW file \in Files, Upload(file) PROVE HandFacts'
  <2>1. /\ task[file] = "queued" /\ UNCHANGED <<pc, todo, batch, cache, record, sets, failed>>
        /\ file \in live /\ file \in Paths
    BY <1>0, <1>6 DEF Upload, PhaseInv
  <2>2. PICK result : task' = [task EXCEPT ![file] = result]
    BY <1>6 DEF Upload, Answered
  <2>3. /\ task'[file] = result /\ \A other \in Files : other # file => task'[other] = task[other]
    BY <2>2 DEF TypeInv, AnswersType
  <2>4. ~failed /\ result \notin {"fail", "stop"} /\ \A other \in Files : task[other] \notin {"fail", "stop"}
    BY <2>1, <2>3 DEF Smooth
  <2>5. /\ Visible(file) # 0 /\ ~cancelled
    BY <1>1, <1>2, <2>1, <2>4, CalmFile
  <2>6. \/ result = "ok" /\ remote' = Uploaded(file)
        \/ result = "skip" /\ remote' \in {remote, Uploaded(file)}
    BY <1>6, <2>3, <2>4, <2>5 DEF Upload, Answered, TypeInv, AnswersType
  <2>7. /\ \A path \in Paths : remote'[0][path] = remote[0][path] \/ (path = file /\ remote'[0][path] # 0)
        /\ \A root \in Legacies : remote'[root] = remote[root]
        /\ result = "ok" => remote'[0][file] # 0
    <3>1. CASE result = "skip" /\ UNCHANGED remote
      BY <3>1
    <3>2. CASE remote' = Uploaded(file)
      <4>1. Visible(file) \in Contents /\ remote \in [Roots -> Trees]
        BY <2>1, VisibleType, NumberFacts DEF TypeInv, TreesType
      <4>2. PICK content \in Contents : content = Visible(file)
        BY <4>1
      <4>3. remote' = [remote EXCEPT ![0][file] = content]
        BY <3>2, <4>2 DEF Uploaded
      <4>4. /\ \A p \in Paths : remote'[0][p] = IF p = file THEN content ELSE remote[0][p]
            /\ \A other \in Roots \ {0} : remote'[other] = remote[other]
        BY <1>0, <4>1, <4>3, UploadedType
      <4> QED
        BY <1>0, <2>1, <2>5, <4>2, <4>4
    <3> QED
      BY <2>6, <3>1, <3>2
  <2>8. CanonicalThere' /\ LegacySeen'
    BY <1>2, <2>1, <2>4, <2>7 DEF CanonicalThere, LegacySeen
  <2>9. UploadDone'
    <3>1. UploadDone
      BY <1>2, <2>4
    <3> QED
      BY <1>0, <2>3, <2>7, <3>1 DEF UploadDone
  <2>10. \A path \in Paths : remote'[0][path] # 0 => sets'[0][path] # 0 \/ path \in Wanted
    BY <1>2, <2>1, <2>4, <2>7 DEF Wanted
  <2>11. \A f \in live \cap Files :
             f \in batch' \cup todo' \/ task'[f] # "none" \/ record'[f].version = scanned'[f]
    BY <1>1, <1>2, <2>1, <2>3, <2>4, <2>6
  <2>12. remote'[0][<<>>] # 0 /\ \A path \in Paths : cache'[0][path] # 0 => remote'[0][path] # 0
    BY <1>0, <1>2, <2>1, <2>4, <2>7
  <2> QED
    BY <1>1, <1>3, <2>1, <2>4, <2>8, <2>9, <2>10, <2>11, <2>12
<1>7. ASSUME NEW file \in Files, JoinUpload(file) PROVE HandFacts'
  <2>1. /\ task[file] \notin {"none", "queued"} /\ task' = [task EXCEPT ![file] = "none"]
        /\ UNCHANGED <<pc, todo, batch, remote>> /\ (failed => failed') /\ file \in live /\ file \in Paths
    BY <1>0, <1>7 DEF JoinUpload, Answered, PhaseInv, TypeInv, AnswersType, Answers
  <2>2. task'[file] = "none" /\ \A other \in Files : other # file => task'[other] = task[other]
    BY <2>1 DEF TypeInv, AnswersType
  <2>3. ~failed /\ \A other \in Files : other # file => task[other] \notin {"fail", "stop"}
    BY <2>1, <2>2 DEF Smooth
  <2>4. ~NewlyGone(file)
    BY <1>1, <2>1, <2>3, CalmFile DEF Smooth
  <2>5. task[file] \in {"ok", "skip"}
    BY <1>7, <2>1, <2>4 DEF JoinUpload, Smooth, TypeInv, AnswersType, Answers
  <2>6. \A other \in Files : task[other] \notin {"fail", "stop"}
    BY <2>3, <2>5
  <2>7. /\ record'[file].version = scanned[file]
        /\ \A other \in Files : other # file => record'[other] = record[other]
    <3>1. \E status, md5 : record' = FileState(record, file, status, md5)
      BY <1>7, <2>4, <2>5 DEF JoinUpload
    <3> QED
      BY <3>1 DEF FileState, FileStateRecord, TypeInv, RecordType
  <2>8. \A f \in live \cap Files :
            f \in batch' \cup todo' \/ task'[f] # "none" \/ record'[f].version = scanned'[f]
    <3> SUFFICES ASSUME NEW f \in live \cap Files, f # file
                 PROVE  f \in batch' \cup todo' \/ task'[f] # "none" \/ record'[f].version = scanned'[f]
      BY <1>1, <2>7
    <3> QED
      BY <1>1, <1>2, <2>1, <2>2, <2>3, <2>6, <2>7
  <2>9. /\ \A path \in Paths : sets'[0][path] = sets[0][path] \/ (path = file /\ remote[0][path] # 0 /\ sets'[0][path] # 0)
        /\ \A root \in Legacies : sets'[root] = sets[root]
        /\ \A path \in Paths : cache'[0][path] \in {cache[0][path], sets'[0][path]}
    <3>1. CASE task[file] = "skip"
      <4>1. UNCHANGED <<sets, cache>>
        BY <1>7, <2>4, <3>1 DEF JoinUpload
      <4> QED
        BY <4>1
    <3>2. CASE task[file] = "ok"
      <4>1. sets' = [sets EXCEPT ![0][file] = scanned[file]] /\ UpsertRows({file})
        BY <1>7, <3>2 DEF JoinUpload
      <4>2. \A path \in Paths : cache'[0][path] \in {cache[0][path], sets'[0][path]}
        BY <4>1, UpsertFacts
      <4>3. remote[0][file] # 0
        BY <1>2, <2>3, <2>6, <3>2 DEF UploadDone
      <4>4. scanned[file] # 0
        BY <1>1, <1>2, <2>1, <2>3, <2>6 DEF CalmInv, Visible
      <4>5. /\ \A path \in Paths : sets'[0][path] = IF path = file THEN scanned[file] ELSE sets[0][path]
            /\ \A root \in Legacies : sets'[root] = sets[root]
        BY <1>0, <2>1, <4>1 DEF TypeInv, SetsType, Trees
      <4> QED
        BY <4>2, <4>3, <4>4, <4>5
    <3> QED
      BY <2>5, <3>1, <3>2
  <2>10. CanonicalThere' /\ LegacySeen' /\ UploadDone'
    <3>1. CanonicalThere /\ LegacySeen /\ UploadDone
      BY <1>2, <2>3, <2>6
    <3>2. CanonicalThere' /\ LegacySeen'
      BY <2>1, <2>9, <3>1 DEF CanonicalThere, LegacySeen
    <3> QED
      BY <2>1, <2>2, <3>1, <3>2 DEF UploadDone
  <2>11. \A path \in Paths : cache'[0][path] # 0 => remote'[0][path] # 0
    BY <1>2, <2>1, <2>3, <2>6, <2>9, <2>10 DEF CanonicalThere
  <2>12. \A path \in Paths : remote'[0][path] # 0 => sets'[0][path] # 0 \/ path \in Wanted
    BY <1>2, <2>1, <2>3, <2>6, <2>9
  <2>13. remote'[0][<<>>] # 0
    BY <1>2, <2>1, <2>3, <2>6
  <2> QED
    BY <1>1, <1>3, <2>1, <2>3, <2>6, <2>8, <2>10, <2>11, <2>12, <2>13
<1> QED
  BY <1>4, <1>5, <1>6, <1>7

\* The deletes.
LEMMA DeleteHand ==
    ASSUME TypeInv, PhaseInv, PlanInv, PlacedInv, CalmInv, PhaseInv', HandInv,
           CheckDelete \/ SendDelete \/ JoinDelete \/ EndDeletes
    PROVE  HandInv'
<1> USE DEF trees, database, rows, plan, inventory, queues, summary, budgets
<1> SUFFICES ASSUME Smooth' PROVE HandFacts'
  BY DEF HandInv, HandFacts
<1>0. 0 \in Roots /\ Legacies \subseteq Roots \ {0} /\ Files \subseteq Paths \ {<<>>} /\ <<>> \in Paths
  BY NumberFacts, PathFacts
<1>1. /\ pc = "delete" /\ UNCHANGED <<live, scanned, touched, cancelled, fromCache, complete, local, reported, task>>
  BY DEF CheckDelete, SendDelete, JoinDelete, EndDeletes, DeleteReady, Request
<1>2. ~failed /\ answer \notin {"fail", "stop"}
  <2>1. CASE JoinDelete
    BY <2>1 DEF JoinDelete, TypeInv, AnswersType, Smooth
  <2>2. CASE CheckDelete \/ SendDelete \/ EndDeletes
    BY <2>2 DEF CheckDelete, SendDelete, EndDeletes, DeleteReady, Request, Smooth
  <2> QED
    BY <2>1, <2>2
<1>3. Smooth /\ touched = {} /\ ~cancelled /\ ~fromCache
  BY <1>1, <1>2 DEF Smooth
<1>4. /\ complete /\ remote[0][<<>>] # 0 /\ RowsTrue /\ RecordsMade /\ DeletesCover
      /\ \A file \in Files : task'[file] = "none"
  BY <1>1, <1>3 DEF HandInv, WorkDone, RootMade, Making, DatabaseTrue, StatusComplete, Recorded, EndsWell, PhaseInv
<1>5. \A file \in live \cap Files : record[file].version = scanned[file]
  BY <1>1, <1>4 DEF RecordsMade, Placing, Waiting, PhaseInv
<1>6. ASSUME pc' = "delete", remote'[0][<<>>] # 0, RowsTrue', DeletesCover',
             \A file \in live \cap Files : record'[file].version = record[file].version
      PROVE  HandFacts'
  <2>1. WorkDone'
    BY <1>4, <1>6 DEF WorkDone, RootMade, DirsWanted, MergeTaken, UploadDone
  <2>2. RecordsMade'
    BY <1>1, <1>5, <1>6 DEF RecordsMade
  <2> QED
    BY <1>1, <1>4, <1>6, <2>1, <2>2 DEF HandFacts, SetsSee, Collecting, DatabaseTrue, StatusComplete, RowsListed,
       EndsWell, AllPlaced
<1>7. CASE CheckDelete
  BY <1>3, <1>7 DEF CheckDelete
<1>8. CASE SendDelete
  <2>1. PICK d : d = NextDelete
    OBVIOUS
  <2>2. /\ DeleteReady /\ UNCHANGED <<pc, deletes, record, cache>> /\ answer' = "ok" /\ answer = "none"
        /\ remote' = [remote EXCEPT ![d[1]] = Without(@, d[2])]
    BY <1>8, <2>1 DEF SendDelete, Request, Smooth
  <2>3. d \in deletes /\ d[1] \in Roots /\ d[2] \in Paths \ {<<>>} /\ d = NextDelete'
    BY <2>1, <2>2, NextDeleteFacts DEF DeleteReady, NextDelete
  <2>4. /\ \A p \in Paths : remote'[d[1]][p] = IF Covers(d[2], p) THEN 0 ELSE remote[d[1]][p]
        /\ \A other \in Roots \ {d[1]} : remote'[other] = remote[other]
    BY <2>2, <2>3, RemovedType DEF TypeInv, TreesType
  <2>5. ~Covers(d[2], <<>>)
    BY <2>3, PathFacts DEF Covers
  <2>6. remote'[0][<<>>] # 0
    BY <1>0, <1>4, <2>4, <2>5
  <2>7. RowsTrue'
    <3>1. \A path \in Paths : cache[0][path] # 0 => remote[0][path] # 0
      BY <1>1, <1>4, <2>2 DEF RowsTrue, Recorded, Deleted
    <3>2. ASSUME NEW path \in Paths, cache[0][path] # 0, remote'[0][path] = 0
          PROVE  d[1] = 0 /\ Covers(d[2], path)
      BY <1>0, <2>4, <3>1, <3>2
    <3> QED
      BY <1>1, <2>2, <2>3, <3>2 DEF RowsTrue, Deleted
  <2>8. DeletesCover'
    <3> SUFFICES ASSUME NEW root \in Roots, NEW path \in Paths, remote'[root][path] # 0, Extra(root, path)'
                 PROVE  \E e \in deletes : e[1] = root /\ Covers(e[2], path) /\ e # d
      BY <2>2, <2>3 DEF DeletesCover
    <3>1. remote[root][path] # 0 /\ Extra(root, path) /\ ~(root = d[1] /\ Covers(d[2], path))
      BY <1>1, <2>4 DEF Extra, Wanted
    <3>2. PICK e \in deletes : e[1] = root /\ Covers(e[2], path)
      BY <1>1, <1>4, <3>1 DEF DeletesCover
    <3> QED
      BY <3>1, <3>2
  <2> QED
    BY <1>1, <1>6, <2>2, <2>6, <2>7, <2>8
<1>9. CASE JoinDelete
  <2>1. PICK d : d = NextDelete
    OBVIOUS
  <2>2. answer = "ok"
    BY <1>2, <1>9 DEF JoinDelete, TypeInv, AnswersType
  <2>3. /\ record' = MarkDeleted(d[2]) /\ RowsWithout(d[1], d[2]) /\ deletes' = deletes \ {d}
        /\ answer' = "none" /\ UNCHANGED <<pc, remote>>
    BY <1>9, <2>1, <2>2 DEF JoinDelete
  <2>4. d \in deletes /\ d[1] \in Roots /\ d[2] \in Paths \ {<<>>}
    BY <1>1, <2>1, <2>2, NextDeleteFacts DEF PhaseInv
  <2>5. \A path \in Paths : cache'[0][path] = IF d[1] = 0 /\ Covers(d[2], path) THEN 0 ELSE cache[0][path]
    BY <1>0, <2>3, <2>4 DEF RowsWithout, Without, TypeInv, RowsType
  <2>6. RowsTrue'
    <3>1. \A path \in Paths : cache[0][path] # 0 => remote[0][path] # 0 \/ (d[1] = 0 /\ Covers(d[2], path))
      BY <1>1, <1>4, <2>1 DEF RowsTrue, Recorded, Deleted
    <3> QED
      BY <2>3, <2>5, <3>1 DEF RowsTrue
  <2>7. DeletesCover'
    <3> SUFFICES ASSUME NEW root \in Roots, NEW path \in Paths, remote'[root][path] # 0, Extra(root, path)'
                 PROVE  \E e \in deletes' : e[1] = root /\ Covers(e[2], path)
      BY <2>3 DEF DeletesCover
    <3>1. remote[root][path] # 0 /\ Extra(root, path)
      BY <1>1, <2>3 DEF Extra, Wanted
    <3>2. PICK e \in deletes : e[1] = root /\ Covers(e[2], path) /\ e # d
      BY <1>1, <1>4, <2>1, <2>2, <3>1 DEF DeletesCover
    <3> QED
      BY <2>3, <3>2
  <2>8. \A file \in live \cap Files : record'[file].version = record[file].version
    BY <2>3 DEF MarkDeleted, TypeInv, RecordType
  <2> QED
    BY <1>1, <1>4, <1>6, <2>3, <2>6, <2>7, <2>8
<1>10. CASE EndDeletes
  <2>1. /\ pc' = "finish" /\ answer = "none" /\ answer' = "none" /\ deletes = {} /\ deletes' = {}
        /\ UNCHANGED <<remote, record, cache>>
    BY <1>3, <1>10 DEF EndDeletes, Finish
  <2>2. AllPlaced'
    <3> SUFFICES ASSUME NEW path \in Paths \ reported, Visible(path) # 0
                 PROVE  Mirrored(path)
      BY <1>1, <2>1 DEF AllPlaced, Mirrored, Visible
    <3>1. CASE path = <<>>
      BY <1>0, <1>4, <3>1 DEF Mirrored
    <3>2. CASE path # <<>>
      <4>1. ~Excused(path)
        BY <1>3 DEF Excused
      <4> QED
        BY <1>1, <1>3, <3>2, <4>1, DeletesFindEverything
    <3> QED
      BY <3>1, <3>2
  <2>3. DeletesCover'
    BY <1>1, <1>4, <2>1 DEF DeletesCover, Extra, Wanted
  <2>4. RowsTrue'
    BY <1>1, <1>4, <2>1 DEF RowsTrue, Recorded, Deleted
  <2>5. RecordsMade'
    BY <1>1, <1>5, <2>1 DEF RecordsMade
  <2> QED
    BY <1>1, <1>4, <2>1, <2>2, <2>3, <2>4, <2>5 DEF HandFacts, SetsSee, Collecting, WorkDone, RootMade, Making,
       DirsWanted, MergeTaken, UploadDone, DatabaseTrue, StatusComplete, RowsListed, EndsWell
<1> QED
  BY <1>7, <1>8, <1>9, <1>10

\* Every step keeps what a smooth run has done.
LEMMA NextHand ==
    ASSUME \A path \in Paths \ {<<>>} : DeleteCandidate(path),
           TypeInv, PhaseInv, PlanInv, PlacedInv, CalmInv, HandInv, PhaseInv', [Next]_vars
    PROVE  HandInv'
<1> USE DEF trees, database, rows, plan, inventory, queues, summary, budgets
<1>1. CASE UNCHANGED vars
  <2>1. Smooth' = Smooth
    BY <1>1 DEF vars, Smooth
  <2>2. SetsSee' = SetsSee
    BY <1>1 DEF vars, SetsSee, CanonicalThere, CanonicalSeen, LegacySeen, TopTaken, TopMoved, Wanted, First,
       PresentLegacies
  <2>3. WorkDone' = WorkDone
    BY <1>1 DEF vars, WorkDone, RootMade, DirsWanted, MergeTaken, UploadDone, Wanted, NextDir, NextFile, FirstFile,
       First, LegacyWith
  <2>4. DatabaseTrue' = DatabaseTrue
    BY <1>1 DEF vars, DatabaseTrue, StatusComplete, RowsTrue, RowsListed, RecordsMade, Waiting, Deleted, NextDelete
  <2>5. EndsWell' = EndsWell
    BY <1>1 DEF vars, EndsWell, DeletesCover, AllPlaced, Extra, Wanted, NextDelete, Mirrored, Visible
  <2> QED
    BY <2>1, <2>2, <2>3, <2>4, <2>5 DEF HandInv
<1>2. CASE pc' \in Before
  BY <1>2, HandEarly
<1>3. CASE StartRun \/ RecordMissingRoot \/ FinishRun
  BY <1>2, <1>3 DEF StartRun, RecordMissingRoot, FinishRun, EndRun, Before
<1>4. CASE ScanSteps
  <2>1. CASE LoadCached
    BY <2>1, HandRough DEF LoadCached, Smooth
  <2>2. CASE BuildLivePlan \/ \E unreadable \in SUBSET LocalDirs, busy \in SUBSET Files : Scan(unreadable, busy)
    BY <1>2, <2>2 DEF BuildLivePlan, Scan, Before
  <2> QED
    BY <1>4, <2>1, <2>2, LoadHand, StatusHand DEF ScanSteps
<1>5. CASE MoveSteps
  <2>1. CASE CreateFails
    BY <1>2, <2>1 DEF CreateFails, RunFails, EndRun, Before
  <2> QED
    BY <1>5, <2>1, TopHand, DirsHand, MergeHand DEF MoveSteps
<1>6. CASE UploadSteps
  BY <1>6, AdoptHand, UploadHand DEF UploadSteps
<1>7. CASE DeleteSteps
  BY <1>7, DeleteHand DEF DeleteSteps
<1>8. CASE FaultSteps
  <2>1. CASE CollisionFails \/ QuotaExceeded \/ Cancel \/ \E kind \in FaultKinds : LoadFails(kind)
    BY <2>1, HandRough DEF CollisionFails, QuotaExceeded, LoadFails, FailRoot, PartialFailRoot, Cancel, Smooth
  <2>2. CASE Unmount \/ Mount
    BY <2>2, HandRough, PathFacts DEF Unmount, Mount, Smooth
  <2>3. CASE \E kind \in FaultKinds : ParentOrListingFails(kind) \/ Interrupted(kind)
    BY <1>2, <2>3 DEF ParentOrListingFails, Interrupted, RunFails, EndRun, Before
  <2>4. CASE \E root \in Roots, dir \in Dirs : ListingNotFound(root, dir)
    BY <2>4, HandRough, CoversItself, PathFacts DEF ListingNotFound, Smooth
  <2>5. CASE \E root \in Roots, path \in Paths : RemoveRemote(root, path)
    BY <2>5, HandRough, CoversItself DEF RemoveRemote, Smooth
  <2> QED
    BY <1>8, <2>1, <2>2, <2>3, <2>4, <2>5 DEF FaultSteps
<1>9. CASE EditSteps
  <2>1. ASSUME NEW file \in Files, WriteLocal(file) PROVE HandInv'
    BY <2>1, HandRough DEF WriteLocal, Edit, Smooth
  <2>2. ASSUME NEW path \in Paths, RemoveLocal(path) PROVE HandInv'
    BY <2>2, HandRough, CoversItself DEF RemoveLocal, Edit, Smooth
  <2> QED
    BY <1>9, <2>1, <2>2 DEF EditSteps
<1> QED
  BY <1>1, <1>3, <1>4, <1>5, <1>6, <1>7, <1>8, <1>9 DEF Next, EngineSteps

\* A run that is smooth after a step that it goes on with was so before.
LEMMA SmoothBefore ==
    ASSUME TypeInv, PhaseInv, PlanInv, CalmInv, MoveSteps \/ UploadSteps \/ DeleteSteps, pc' # "idle", Smooth'
    PROVE  Smooth
<1> USE DEF trees, database, rows, plan, inventory, queues, summary, budgets
<1>1. UNCHANGED <<touched, cancelled, fromCache>> /\ pc # "idle"
  BY DEF MoveSteps, NoTopMove, SendTopMove, JoinTopMove, Relist, SendCreate, JoinCreate, CreateFails, RunFails, EndRun,
     EndDirs, MergeSkips, MergeComparisonFails, SendMergeMove, JoinMergeMove, EndMerge, Request, MergeReady,
     UploadSteps, AdoptSkips, AdoptFindsGone, Adopt, AdoptComparisonFails, QueueUpload, EndAdopt, AdoptReady,
     StartUploads, EndUploads, Upload, JoinUpload, DeleteSteps, CheckDelete, SendDelete, JoinDelete, EndDeletes,
     DeleteReady, PhaseInv
<1>2. /\ failed => failed'
      /\ answer \in {"fail", "stop"} => failed'
  <2>1. CASE MoveSteps
    <3>1. CASE JoinTopMove
      BY <3>1 DEF JoinTopMove, MigrationFailure, TypeInv, AnswersType
    <3>2. CASE JoinMergeMove
      BY <3>2 DEF JoinMergeMove, MigrationFailure, TypeInv, AnswersType
    <3>3. CASE JoinCreate \/ CreateFails \/ Relist
      BY <3>3 DEF JoinCreate, CreateFails, RunFails, EndRun, Relist, PhaseInv
    <3>4. CASE SendTopMove \/ SendCreate \/ SendMergeMove
      BY <3>4 DEF SendTopMove, SendCreate, SendMergeMove, Request
    <3>5. CASE NoTopMove \/ EndDirs \/ MergeSkips \/ MergeComparisonFails \/ EndMerge
      BY <3>5 DEF NoTopMove, EndDirs, MergeSkips, MergeComparisonFails, EndMerge, MergeReady, ProcessingFailure,
         TypeInv, FlagsType
    <3> QED
      BY <2>1, <3>1, <3>2, <3>3, <3>4, <3>5 DEF MoveSteps
  <2>2. CASE UploadSteps
    <3>1. pc \in {"adopt", "upload"}
      BY <2>2 DEF UploadSteps, AdoptSkips, AdoptFindsGone, Adopt, AdoptComparisonFails, QueueUpload, EndAdopt,
         AdoptReady, StartUploads, EndUploads, Upload, JoinUpload, PhaseInv
    <3>2. answer = "none"
      BY <3>1 DEF PhaseInv
    <3>3. failed => failed'
      BY <2>2 DEF UploadSteps, AdoptSkips, AdoptFindsGone, Adopt, AdoptComparisonFails, QueueUpload, EndAdopt,
         StartUploads, EndUploads, Upload, JoinUpload, ProcessingFailure, TypeInv, AnswersType, Answers
    <3> QED
      BY <3>2, <3>3
  <2>3. CASE DeleteSteps
    <3>1. CASE JoinDelete
      BY <3>1 DEF JoinDelete, TypeInv, AnswersType
    <3>2. CASE CheckDelete \/ SendDelete \/ EndDeletes
      BY <3>2 DEF CheckDelete, SendDelete, EndDeletes, DeleteReady, Request
    <3> QED
      BY <2>3, <3>1, <3>2 DEF DeleteSteps
  <2> QED
    BY <2>1, <2>2, <2>3
<1>3. ASSUME NEW file \in Files, task[file] \in {"fail", "stop"} PROVE FALSE
  <2>1. pc = "upload" /\ file \in live /\ task # NoTasks
    BY <1>3 DEF PhaseInv, NoTasks
  <2>2. task'[file] = task[file] \/ JoinUpload(file)
    <3>1. \A other \in Files : Upload(other) \/ JoinUpload(other) => other = file \/ task'[file] = task[file]
      BY DEF Upload, JoinUpload, Answered, TypeInv, AnswersType
    <3>2. ~Upload(file)
      BY <1>3 DEF Upload
    <3> QED
      BY <2>1, <3>1, <3>2 DEF MoveSteps, NoTopMove, SendTopMove, JoinTopMove, Relist, SendCreate, JoinCreate,
         CreateFails, EndDirs, MergeSkips, MergeComparisonFails, SendMergeMove, JoinMergeMove, EndMerge, Request,
         MergeReady, UploadSteps, AdoptSkips, AdoptFindsGone, Adopt, AdoptComparisonFails, QueueUpload, EndAdopt,
         AdoptReady, StartUploads, Uploading, EndUploads, DeleteSteps, CheckDelete, SendDelete, JoinDelete, EndDeletes,
         DeleteReady
  <2>3. JoinUpload(file)
    BY <1>3, <2>2 DEF Smooth
  <2>4. ~NewlyGone(file)
    BY <1>1, <1>2, <2>1, CalmFile DEF Smooth
  <2> QED
    BY <1>3, <2>3, <2>4 DEF JoinUpload, Smooth
<1> QED
  BY <1>1, <1>2, <1>3 DEF Smooth

\* Before the inventory is recorded no row is needed, and none when the run is not smooth.
LEMMA RowsEarly ==
    ASSUME PhaseInv', pc' \in Before \/ ~Smooth'
    PROVE  RowsInv'
<1>1. pc' \in Before => adopting' = {}
  BY DEF PhaseInv, Before
<1> QED
  BY <1>1 DEF RowsInv, RowsMade, Before, Arranging, Placing

\* The rows of a fresh inventory are those of the copies that are there.
LEMMA InventoryRows ==
    ASSUME TypeInv, PhaseInv', CalmInv, RowsInv, NoCopyComesBack, LoadFresh \/ RecordRows \/ RecordStatus
    PROVE  RowsInv'
<1> USE DEF trees, database, rows, plan, inventory, queues, summary, budgets
<1> SUFFICES ASSUME Smooth' PROVE RowsMade'
  BY DEF RowsInv
<1>1. /\ pc' \in {"rows", "status", "top"} /\ adopting' = {}
      /\ UNCHANGED <<remote, record, live, scanned, reported, touched, failed, cancelled, answer, task>>
  BY DEF LoadFresh, RecordRows, RecordStatus, PhaseInv
<1>2. CASE LoadFresh
  <2>1. pc = "sets" /\ pc' = "rows" /\ sets' = [root \in Roots |-> Listed(remote[root])]
    BY <1>2 DEF LoadFresh
  <2>2. tombs = {}
    BY <1>1, <2>1 DEF CalmInv, Smooth
  <2>3. \A root \in Roots, path \in Paths : sets'[root][path] = remote'[root][path]
    BY <1>1, <2>1, <2>2 DEF Listed
  <2> QED
    BY <1>1, <2>1, <2>3 DEF RowsMade, Arranging, Placing
<1>3. ASSUME UNCHANGED fromCache PROVE RowsMade
  BY <1>1, <1>3 DEF RowsInv, Smooth
<1>4. CASE RecordRows
  <2>1. pc = "rows" /\ pc' = "status" /\ cache' = sets /\ UNCHANGED sets /\ RowsMade
    BY <1>3, <1>4 DEF RecordRows
  <2>2. \A file \in live \cap Files : RowKnown(file)' \/ Nowhere(file)'
    <3> SUFFICES ASSUME NEW file \in live \cap Files, record[file].status = "synced",
                        record[file].version = scanned[file], sets[0][file] = 0, NEW root \in Roots
                 PROVE  sets[root][file] = 0 /\ remote[root][file] = 0
      BY <1>1, <2>1 DEF RowKnown, Nowhere
    <3>1. file \in Paths /\ 0 \in Roots /\ (root = 0 \/ root \in Legacies)
      BY PathFacts, TreesAssumption DEF Roots, Legacies
    <3>2. \A r \in Roots : sets[r][file] = remote[r][file]
      BY <2>1, <3>1 DEF RowsMade
    <3>3. root \in Legacies => remote[root][file] = 0
      BY <2>1, <3>1, <3>2 DEF NoCopyComesBack
    <3> QED
      BY <3>1, <3>2, <3>3
  <2> QED
    BY <1>1, <2>1, <2>2 DEF RowsMade, Placing
<1>5. CASE RecordStatus
  <2>1. pc = "status" /\ pc' = "top" /\ UNCHANGED <<cache, sets>> /\ RowsMade
    BY <1>3, <1>5 DEF RecordStatus
  <2>2. \A file \in (live \cap Files) \ reported : RowKnown(file)' \/ Nowhere(file)'
    BY <1>1, <2>1 DEF RowsMade, RowKnown, Nowhere, Arranging
  <2> QED
    BY <1>1, <2>1, <2>2 DEF RowsMade, Placing
<1> QED
  BY <1>2, <1>4, <1>5

\* The moves bring no file that is in none of the trees.
LEMMA NowhereKept ==
    ASSUME TypeInv, PhaseInv, Smooth', MoveSteps, pc' # "idle", NEW file \in Files, Nowhere(file)
    PROVE  Nowhere(file)'
<1> USE DEF trees, database, rows, plan, inventory, queues, summary, budgets
<1>0. /\ 0 \in Roots /\ Legacies \subseteq Roots \ {0} /\ file \in Paths \ Dirs /\ <<>> \in Paths /\ Dirs \subseteq Paths
      /\ remote \in [Roots -> Trees] /\ sets \in [Roots -> Trees]
  BY NumberFacts, PathFacts DEF TypeInv, TreesType, SetsType
<1>1. ASSUME UNCHANGED <<remote, sets>> PROVE Nowhere(file)'
  BY <1>1 DEF Nowhere
<1>2. ASSUME NEW root \in Legacies, NEW path \in Paths, remote' = Moved(root, path), UNCHANGED sets
      PROVE  Nowhere(file)'
  <2>1. /\ remote'[0][file] \in {remote[root][file], remote[0][file]}
        /\ remote'[root] = Without(remote[root], path)
        /\ \A other \in Roots : other \notin {0, root} => remote'[other] = remote[other]
    BY <1>0, <1>2, MovedType
  <2> QED
    BY <1>0, <1>2, <2>1 DEF Nowhere, Without
<1>3. CASE CreateFails
  BY <1>3 DEF CreateFails, RunFails, EndRun
<1>4. CASE NoTopMove \/ EndDirs \/ MergeSkips \/ MergeComparisonFails \/ EndMerge \/ JoinTopMove
  BY <1>1, <1>4 DEF NoTopMove, EndDirs, MergeSkips, MergeComparisonFails, EndMerge, JoinTopMove
<1>5. CASE SendTopMove
  <2>1. PICK root : root = First(PresentLegacies)
    OBVIOUS
  <2>2. /\ remote' = Moved(root, <<>>) /\ UNCHANGED sets /\ PresentLegacies # {}
    BY <1>5, <2>1 DEF SendTopMove, Request, TopMovePossible, Smooth
  <2>3. root \in Legacies
    BY <2>1, <2>2, FirstType DEF PresentLegacies
  <2> QED
    BY <1>0, <1>2, <2>2, <2>3
<1>6. CASE Relist
  <2>1. PICK root : root = First(PresentLegacies)
    OBVIOUS
  <2>2. /\ sets' = [sets EXCEPT ![0] = remote[0], ![root] = Empty] /\ UNCHANGED remote
    BY <1>6, <2>1 DEF Relist
  <2>3. \A r \in Roots : sets'[r] \in {sets[r], remote[0], Empty}
    BY <1>0, <2>2
  <2> QED
    BY <1>0, <2>2, <2>3 DEF Nowhere, Empty
<1>7. CASE SendCreate
  <2>1. PICK dir : dir = NextDir
    OBVIOUS
  <2>2. /\ todo # {} /\ pc = "dirs" /\ remote' = [remote EXCEPT ![0][dir] = 1] /\ UNCHANGED sets
    BY <1>7, <2>1 DEF SendCreate, Request, Smooth
  <2>3. dir \in Dirs
    BY <2>1, <2>2, NextDirType DEF PhaseInv
  <2>4. \A r \in Roots : remote'[r][file] = remote[r][file]
    BY <1>0, <2>2, <2>3, UploadedType, NumberFacts
  <2> QED
    BY <2>2, <2>4 DEF Nowhere
<1>8. CASE JoinCreate
  <2>1. PICK dir : dir = NextDir
    OBVIOUS
  <2>2. /\ sets' = [sets EXCEPT ![0][dir] = 1] /\ answer = "ok" /\ pc = "dirs" /\ UNCHANGED remote
    BY <1>8, <2>1 DEF JoinCreate
  <2>3. dir \in Dirs
    BY <2>1, <2>2, NextDirType DEF PhaseInv
  <2>4. \A r \in Roots : sets'[r][file] = sets[r][file]
    BY <1>0, <2>2, <2>3 DEF Trees
  <2> QED
    BY <2>2, <2>4 DEF Nowhere
<1>9. CASE SendMergeMove
  <2>1. PICK other : other = NextFile
    OBVIOUS
  <2>2. PICK root : root = First(LegacyWith(other))
    OBVIOUS
  <2>3. MergeReady /\ Merges(other) /\ UNCHANGED sets /\ remote' = Moved(root, other)
    BY <1>9, <2>1, <2>2 DEF SendMergeMove, Request, Smooth
  <2>4. other \in Paths
    BY <2>1, <2>3, NextFileType DEF MergeReady
  <2>5. root \in Legacies
    BY <2>2, <2>3, FirstType DEF Merges, LegacyWith
  <2> QED
    BY <1>2, <2>3, <2>4, <2>5
<1>10. CASE JoinMergeMove
  <2>1. PICK other : other = NextFile
    OBVIOUS
  <2>2. PICK root : root = First(LegacyWith(other))
    OBVIOUS
  <2>3. pc = "merge" /\ answer # "none" /\ UNCHANGED remote
    BY <1>10 DEF JoinMergeMove
  <2>4. Merges(other) /\ todo # {}
    BY <2>1, <2>3 DEF PhaseInv
  <2>5. root \in Legacies /\ sets[root][other] # 0 /\ other \in Files
    <3>1. root \in LegacyWith(other)
      BY <2>2, <2>4, FirstType DEF Merges, LegacyWith
    <3> QED
      BY <2>1, <2>3, <2>4, <3>1, NextFileType DEF LegacyWith
  <2>6. other # file
    BY <1>0, <2>5 DEF Nowhere
  <2>7. CASE answer = "ok"
    <3>1. sets' = [sets EXCEPT ![0][other] = sets[root][other], ![root][other] = 0]
      BY <1>10, <2>1, <2>2, <2>7 DEF JoinMergeMove
    <3>2. \A r \in Roots : sets'[r][file] = sets[r][file]
      BY <1>0, <2>5, <2>6, <3>1 DEF Trees
    <3> QED
      BY <2>3, <3>2 DEF Nowhere
  <2>8. CASE answer # "ok"
    <3>1. UNCHANGED sets
      BY <1>10, <2>3, <2>8 DEF JoinMergeMove, TypeInv, AnswersType
    <3> QED
      BY <1>1, <2>3, <3>1
  <2> QED
    BY <2>7, <2>8
<1> QED
  BY <1>3, <1>4, <1>5, <1>6, <1>7, <1>8, <1>9, <1>10 DEF MoveSteps

\* The moves leave them as they are.
LEMMA MoveRows ==
    ASSUME TypeInv, PhaseInv, PlanInv, CalmInv, PhaseInv', RowsInv, MoveSteps
    PROVE  RowsInv'
<1> USE DEF trees, database, rows, plan, inventory, queues, summary, budgets
<1>1. CASE CreateFails
  BY <1>1, RowsEarly DEF CreateFails, RunFails, EndRun, Before
<1>2. CASE MergeComparisonFails
  <2>1. CASE failed'
    BY <2>1, RowsEarly DEF Smooth
  <2>2. CASE ~failed'
    <3>1. /\ MergeReady /\ Comparison(First(LegacyWith(NextFile)), NextFile) = "skipped" /\ ~failed
          /\ UNCHANGED touched
      BY <1>2, <2>2 DEF MergeComparisonFails, ProcessingFailure, TypeInv, FlagsType
    <3>2. NextFile \in live \cap Files /\ pc = "merge"
      BY <3>1, NextFileType DEF MergeReady, PhaseInv
    <3>3. Visible(NextFile) = 0
      BY <3>1 DEF Comparison, ProcessingError
    <3>4. touched # {}
      BY <3>1, <3>2, <3>3, CalmFile
    <3> QED
      BY <3>1, <3>4, RowsEarly DEF Smooth
  <2> QED
    BY <2>1, <2>2
<1>3. CASE ~CreateFails /\ ~MergeComparisonFails
  <2> SUFFICES ASSUME Smooth' PROVE RowsMade'
    BY DEF RowsInv
  <2>1. /\ pc \in {"top", "relist", "dirs", "merge"} /\ UNCHANGED <<cache, record, live, scanned, reported, cancelled>>
    BY <1>3 DEF MoveSteps, NoTopMove, SendTopMove, JoinTopMove, Relist, SendCreate, JoinCreate,
       EndDirs, MergeSkips, SendMergeMove, JoinMergeMove, EndMerge, Request, MergeReady
  <2>2. ~cancelled'
    BY DEF Smooth
  <2>3. pc' \in {"top", "relist", "dirs", "merge"} \/ (pc' = "adopt" /\ todo' = live \cap Files)
    BY <1>3, <2>1, <2>2 DEF MoveSteps, NoTopMove, SendTopMove, JoinTopMove, Relist, SendCreate, JoinCreate,
       EndDirs, MergeSkips, SendMergeMove, JoinMergeMove, EndMerge, Request, MergeReady, EnterDirs, MigrationFailure,
       Smooth, TypeInv, AnswersType
  <2>4. RowsMade
    BY <2>3, SmoothBefore DEF RowsInv
  <2>5. adopting = {} /\ adopting' = {}
    <3>1. adopting = {}
      BY <2>1 DEF PhaseInv
    <3>2. CASE pc' # "adopt"
      BY <3>1, <3>2 DEF PhaseInv
    <3>3. CASE pc' = "adopt"
      <4>1. EndMerge
        BY <1>3, <2>1, <2>2, <3>3 DEF MoveSteps, NoTopMove, SendTopMove, JoinTopMove, Relist, SendCreate, JoinCreate,
           EndDirs, MergeSkips, SendMergeMove, JoinMergeMove, Request, MergeReady, EnterDirs, Finish, TypeInv, AnswersType
      <4> QED
        BY <2>1, <2>2, <3>1, <4>1 DEF EndMerge
    <3> QED
      BY <3>2, <3>3
  <2>6. \A file \in (live \cap Files) \ reported : RowKnown(file)' \/ Nowhere(file)'
    <3>1. \A file \in (live \cap Files) \ reported : RowKnown(file) \/ Nowhere(file)
      BY <2>1, <2>4 DEF RowsMade, Arranging
    <3>2. \A file \in Files : Nowhere(file) => Nowhere(file)'
      BY <2>3, NowhereKept
    <3> QED
      BY <2>1, <3>1, <3>2 DEF RowKnown
  <2>7. 0 \in Roots
    BY NumberFacts
  <2> QED
    BY <2>1, <2>3, <2>5, <2>6, <2>7 DEF RowsMade, RowIfResumed, Placing, Waiting, Nowhere
<1> QED
  BY <1>1, <1>2, <1>3

\* A flush writes the rows of what was adopted.
LEMMA FlushRows ==
    ASSUME TypeInv, RowsMade, pc = "adopt", Flush, record' = FlushedRecords, UNCHANGED <<live, scanned, reported>>
    PROVE  /\ adopting' = {}
           /\ \A file \in (live \cap Files) \ reported :
                 RowIfResumed(file)' /\ (cache[0][file] # 0 \/ file \in adopting => cache'[0][file] # 0)
<1>1. UNCHANGED sets /\ adopting' = {} /\ UpsertRows(adopting) /\ adopting \in SUBSET Files
  BY DEF Flush, inventory, TypeInv, QueuesType
<1> SUFFICES ASSUME NEW file \in (live \cap Files) \ reported
             PROVE  RowIfResumed(file)' /\ (cache[0][file] # 0 \/ file \in adopting => cache'[0][file] # 0)
  BY <1>1
<1>2. cache'[0][file] = IF file \in adopting THEN sets'[0][file] ELSE cache[0][file]
  <2>1. file \in Paths
    BY PathFacts
  <2> QED
    BY <1>1, <2>1, UpsertFacts
<1>3. CASE file \in adopting
  BY <1>1, <1>2, <1>3 DEF RowsMade, RowKnown, RowIfResumed
<1>4. CASE file \notin adopting
  <2>1. RowIfResumed(file) /\ record'[file] = record[file]
    BY <1>4 DEF RowsMade, FlushedRecords
  <2> QED
    BY <1>1, <1>2, <1>4, <2>1 DEF RowKnown, RowIfResumed
<1> QED
  BY <1>3, <1>4

\* Adoption leaves no file without its row: what is resumed has it.
LEMMA AdoptRows ==
    ASSUME TypeInv, PhaseInv, PlanInv, CalmInv, PhaseInv', RowsInv,
           AdoptSkips \/ AdoptFindsGone \/ Adopt \/ AdoptComparisonFails \/ QueueUpload \/ EndAdopt
    PROVE  RowsInv'
<1> USE DEF trees, database, rows, plan, inventory, queues, summary, budgets
<1> SUFFICES ASSUME Smooth' PROVE RowsMade'
  BY DEF RowsInv
<1>1. /\ pc = "adopt"
      /\ UNCHANGED <<live, scanned, touched, cancelled, task, fromCache, answer, remote, sets>>
  BY DEF AdoptSkips, AdoptFindsGone, Adopt, AdoptComparisonFails, QueueUpload, EndAdopt, AdoptReady, Flush
<1>2. ~failed
  BY DEF AdoptSkips, AdoptFindsGone, Adopt, AdoptComparisonFails, QueueUpload, EndAdopt, ProcessingFailure, Smooth,
     TypeInv, FlagsType
<1>3. Smooth /\ touched = {} /\ ~cancelled /\ ~failed' /\ RowsMade
  BY <1>1, <1>2 DEF Smooth, RowsInv
<1>4. \A file \in (live \cap Files) \ reported :
          /\ file \in adopting \/ RowIfResumed(file)
          /\ file \in adopting \cup batch \cup todo \/ cache[0][file] # 0
  BY <1>1, <1>3 DEF RowsMade, Placing, Waiting, PhaseInv
<1>5. ASSUME pc' \in {"adopt", "upload", "delete"}, UNCHANGED reported, pc' = "delete" => todo' = {} /\ batch' = {},
             \A file \in adopting' : sets'[0][file] # 0,
             \A file \in (live \cap Files) \ reported :
                 /\ file \in adopting' \/ RowIfResumed(file)'
                 /\ file \in adopting' \cup batch' \cup todo' \/ cache'[0][file] # 0
      PROVE  RowsMade'
  BY <1>1, <1>5 DEF RowsMade, Arranging, Waiting
<1>6. ASSUME AdoptReady PROVE NextFile \in live \cap Files /\ NextFile \in todo
  BY <1>6, NextFileType DEF AdoptReady, PhaseInv
<1>7. \A file \in adopting : sets'[0][file] # 0
  BY <1>1, <1>3 DEF RowsMade
<1>8. CASE AdoptSkips
  <2>1. /\ AdoptReady /\ (CoveredBySome(tombs, NextFile) \/ (sets[0][NextFile] # 0 /\ CanResume(NextFile)))
        /\ todo' = todo \ {NextFile} /\ UNCHANGED <<cache, record, adopting, batch, pc, reported>>
    BY <1>8 DEF AdoptSkips, Adopts
  <2>2. CanResume(NextFile) /\ sets[0][NextFile] # 0
    BY <1>1, <1>2, <1>3, <1>6, <2>1, CalmFile
  <2>3. ASSUME NextFile \notin reported, NextFile \notin adopting PROVE cache[0][NextFile] # 0
    BY <1>4, <1>6, <2>1, <2>2, <2>3 DEF CanResume, RowKnown, RowIfResumed
  <2>4. \A file \in (live \cap Files) \ reported : RowIfResumed(file)' = RowIfResumed(file)
    BY <1>1, <2>1 DEF RowKnown, RowIfResumed
  <2> QED
    BY <1>1, <1>4, <1>5, <1>7, <2>1, <2>3, <2>4
<1>9. CASE AdoptFindsGone
  <2>1. AdoptReady /\ Visible(NextFile) = 0
    BY <1>9 DEF AdoptFindsGone
  <2> QED
    BY <1>1, <1>2, <1>3, <1>6, <2>1, CalmFile
<1>10. CASE Adopt
  <2>1. /\ adopting' = adopting \cup {NextFile} /\ todo' = todo \ {NextFile} /\ sets[0][NextFile] # 0
        /\ UNCHANGED <<cache, record, batch, pc, reported>>
    BY <1>10 DEF Adopt, Adopts
  <2>2. \A file \in (live \cap Files) \ reported : RowIfResumed(file)' = RowIfResumed(file)
    BY <1>1, <2>1 DEF RowKnown, RowIfResumed
  <2>3. \A file \in adopting' : sets'[0][file] # 0
    BY <1>1, <1>7, <2>1
  <2> QED
    BY <1>1, <1>4, <1>5, <2>1, <2>2, <2>3
<1>11. CASE AdoptComparisonFails
  BY <1>3, <1>11 DEF AdoptComparisonFails, ProcessingFailure
<1>12. CASE QueueUpload
  <2>1. /\ Flush /\ record' = FlushedRecords /\ batch' = batch \cup {NextFile} /\ todo' = todo \ {NextFile}
        /\ pc' \in {"adopt", "upload"} /\ UNCHANGED reported
    BY <1>12 DEF QueueUpload
  <2>2. /\ adopting' = {}
        /\ \A file \in (live \cap Files) \ reported :
              RowIfResumed(file)' /\ (cache[0][file] # 0 \/ file \in adopting => cache'[0][file] # 0)
    BY <1>1, <1>3, <2>1, FlushRows
  <2> QED
    BY <1>4, <1>5, <2>1, <2>2
<1>13. CASE EndAdopt
  <2>1. /\ Flush /\ record' = FlushedRecords /\ todo = {} /\ UNCHANGED reported
        /\ IF batch # {} THEN pc' = "upload" /\ UNCHANGED <<todo, batch, deletes>> ELSE EnterDeletes
    BY <1>3, <1>13 DEF EndAdopt
  <2>2. UNCHANGED <<todo, batch>> /\ pc' \in {"upload", "delete"} /\ (pc' = "delete" => batch = {})
    BY <1>3, <2>1 DEF EnterDeletes
  <2>3. /\ adopting' = {}
        /\ \A file \in (live \cap Files) \ reported :
              RowIfResumed(file)' /\ (cache[0][file] # 0 \/ file \in adopting => cache'[0][file] # 0)
    BY <1>1, <1>3, <2>1, FlushRows
  <2> QED
    BY <1>4, <1>5, <2>1, <2>2, <2>3
<1> QED
  BY <1>8, <1>9, <1>10, <1>11, <1>12, <1>13

\* An upload that is done has its row, one that is rejected is reported.
LEMMA UploadRows ==
    ASSUME TypeInv, PhaseInv, PlanInv, CalmInv, PhaseInv', RowsInv,
           \/ StartUploads \/ EndUploads
           \/ \E file \in Files : Upload(file) \/ JoinUpload(file)
    PROVE  RowsInv'
<1> USE DEF trees, database, rows, plan, inventory, queues, summary, budgets
<1> SUFFICES ASSUME Smooth' PROVE RowsMade'
  BY DEF RowsInv
<1>1. /\ pc = "upload" /\ adopting = {} /\ adopting' = {}
      /\ UNCHANGED <<live, scanned, touched, cancelled, fromCache>>
  <2>1. pc = "upload"
    BY DEF StartUploads, EndUploads, Upload, JoinUpload, PhaseInv
  <2>2. adopting = {}
    BY <2>1 DEF PhaseInv
  <2> QED
    BY <2>1, <2>2 DEF StartUploads, EndUploads, Upload, JoinUpload, EnterDeletes, Finish
<1>2. pc' # "idle"
  BY <1>1 DEF StartUploads, EndUploads, Upload, JoinUpload, EnterDeletes, Finish
<1>3. Smooth /\ touched = {} /\ ~cancelled /\ ~failed /\ ~failed' /\ RowsMade
  <2>1. Smooth
    BY <1>2, SmoothBefore DEF UploadSteps
  <2> QED
    BY <2>1 DEF Smooth, RowsInv
<1>4. \A file \in (live \cap Files) \ reported :
          RowIfResumed(file) /\ (file \in batch \cup todo \/ task[file] # "none" \/ cache[0][file] # 0)
  BY <1>1, <1>3 DEF RowsMade, Placing, Waiting
<1>5. ASSUME pc' \in {"adopt", "upload", "delete"}, pc' = "delete" => todo' = {},
             \A file \in (live \cap Files) \ reported' :
                 RowIfResumed(file)' /\ (file \in batch' \cup todo' \/ task'[file] # "none" \/ cache'[0][file] # 0)
      PROVE  RowsMade'
  BY <1>1, <1>5 DEF RowsMade, Arranging, Waiting
<1>6. CASE StartUploads
  <2>1. PICK known, gone :
            /\ known = { file \in Scheduled : ~CoveredBySome(tombs, file) }
            /\ gone = { file \in known : NewlyGone(file) }
            /\ task' = [file \in Files |-> IF file \in known \ gone THEN "queued" ELSE "none"]
    BY <1>6 DEF StartUploads
  <2>2. /\ batch' = batch \ Scheduled /\ UNCHANGED <<pc, todo, cache, record, reported, sets>> /\ ~Uploading
    BY <1>6 DEF StartUploads
  <2>3. \A file \in Files : task[file] = "none"
    BY <2>2 DEF Uploading, NoTasks
  <2>4. Scheduled \subseteq live \cap Files
    BY ScheduledType DEF PhaseInv
  <2>5. \A file \in Scheduled : task'[file] = "queued"
    BY <1>1, <1>3, <2>1, <2>4, CalmFile
  <2>6. \A file \in live \cap Files : RowIfResumed(file)' = RowIfResumed(file)
    BY <1>1, <2>2 DEF RowKnown, RowIfResumed
  <2> QED
    BY <1>1, <1>4, <1>5, <2>2, <2>3, <2>5, <2>6
<1>7. CASE EndUploads
  <2>1. /\ batch = {} /\ ~Uploading /\ UNCHANGED <<task, cache, record, failed, stopping, reported, sets>>
        /\ batch' = {}
    BY <1>7 DEF EndUploads, EnterDeletes, Finish
  <2>2. ~stopping
    BY <1>3 DEF CalmInv
  <2>3. /\ UNCHANGED todo /\ pc' \in {"adopt", "delete"} /\ (pc' = "delete" => todo = {})
    BY <1>3, <1>7, <2>2 DEF EndUploads, EnterDeletes
  <2>4. \A file \in live \cap Files : RowIfResumed(file)' = RowIfResumed(file)
    BY <1>1, <2>1 DEF RowKnown, RowIfResumed
  <2> QED
    BY <1>4, <1>5, <2>1, <2>3, <2>4
<1>8. ASSUME NEW file \in Files, Upload(file) PROVE RowsMade'
  <2>1. /\ task[file] = "queued" /\ UNCHANGED <<pc, todo, batch, cache, record, reported, sets>> /\ file \in live
    BY <1>8 DEF Upload, PhaseInv
  <2>2. PICK result \in {"ok", "skip", "fail", "stop"} : task' = [task EXCEPT ![file] = result]
    BY <1>8 DEF Upload, Answered
  <2>3. task'[file] # "none" /\ \A other \in Files : other # file => task'[other] = task[other]
    BY <2>2 DEF TypeInv, AnswersType
  <2>4. \A other \in live \cap Files : RowIfResumed(other)' = RowIfResumed(other)
    BY <1>1, <2>1 DEF RowKnown, RowIfResumed
  <2> QED
    BY <1>1, <1>4, <1>5, <2>1, <2>3, <2>4
<1>9. ASSUME NEW file \in Files, JoinUpload(file) PROVE RowsMade'
  <2>1. /\ task[file] \notin {"none", "queued"} /\ task' = [task EXCEPT ![file] = "none"]
        /\ UNCHANGED <<pc, todo, batch>> /\ file \in live /\ file \in Paths
    BY <1>9, PathFacts DEF JoinUpload, Answered, PhaseInv
  <2>2. \A other \in Files : other # file => task'[other] = task[other]
    BY <2>1 DEF TypeInv, AnswersType
  <2>3. ~NewlyGone(file)
    BY <1>1, <1>3, <2>1, CalmFile
  <2>4. task[file] \in {"ok", "skip"}
    BY <1>3, <2>1 DEF Smooth, TypeInv, AnswersType, Answers
  <2>5. \A other \in Files : other # file => record'[other] = record[other]
    <3>1. \E status, md5 : record' = FileState(record, file, status, md5)
      BY <1>9, <2>3, <2>4 DEF JoinUpload
    <3> QED
      BY <3>1 DEF FileState, FileStateRecord, TypeInv, RecordType
  <2>6. /\ \A other \in Files : other # file => cache'[0][other] = cache[0][other] /\ sets'[0][other] = sets[0][other]
        /\ cache'[0][file] # 0 \/ file \in reported'
        /\ reported \subseteq reported'
    <3>1. CASE task[file] = "skip"
      BY <1>9, <2>3, <3>1 DEF JoinUpload, MarkSkipped
    <3>2. CASE task[file] = "ok"
      <4>1. sets' = [sets EXCEPT ![0][file] = scanned[file]] /\ UpsertRows({file}) /\ UNCHANGED reported
        BY <1>9, <3>2 DEF JoinUpload
      <4>2. \A path \in Paths : cache'[0][path] = IF path = file THEN sets'[0][path] ELSE cache[0][path]
        BY <4>1, UpsertFacts
      <4>3. scanned[file] # 0
        BY <1>1, <1>3, <2>1 DEF CalmInv, Visible
      <4>4. \A path \in Paths : sets'[0][path] = IF path = file THEN scanned[file] ELSE sets[0][path]
        BY <2>1, <4>1, NumberFacts DEF TypeInv, SetsType, Trees
      <4> QED
        BY <2>1, <4>1, <4>2, <4>3, <4>4, PathFacts
    <3> QED
      BY <2>4, <3>1, <3>2
  <2>7. \A other \in (live \cap Files) \ reported' : RowIfResumed(other)'
    BY <1>1, <1>4, <2>5, <2>6 DEF RowKnown, RowIfResumed
  <2> QED
    BY <1>1, <1>4, <1>5, <2>1, <2>2, <2>6, <2>7
<1> QED
  BY <1>6, <1>7, <1>8, <1>9

\* The deletes take no row of a file that is to stay.
LEMMA DeleteRows ==
    ASSUME TypeInv, PhaseInv, PlanInv, CalmInv, PhaseInv', RowsInv, DeleteSteps
    PROVE  RowsInv'
<1> USE DEF trees, database, rows, plan, inventory, queues, summary, budgets
<1> SUFFICES ASSUME Smooth' PROVE RowsMade'
  BY DEF RowsInv
<1>1. /\ pc = "delete" /\ pc' \in {"delete", "finish"} /\ UNCHANGED <<live, reported, touched, failed, fromCache, cancelled>>
  <2>1. CASE JoinDelete
    BY <2>1 DEF JoinDelete, Finish, TypeInv, AnswersType, Smooth
  <2>2. CASE CheckDelete \/ SendDelete \/ EndDeletes
    BY <2>2 DEF CheckDelete, SendDelete, EndDeletes, DeleteReady, Request, Finish, Smooth
  <2> QED
    BY <2>1, <2>2 DEF DeleteSteps
<1>2. Smooth /\ ~fromCache /\ touched = {} /\ ~failed /\ RowsMade
  <2>1. Smooth
    BY <1>1, SmoothBefore
  <2> QED
    BY <2>1 DEF Smooth, RowsInv
<1>3. \A file \in (live \cap Files) \ reported : cache[0][file] # 0
  BY <1>1, <1>2 DEF RowsMade, Placing, Waiting, PhaseInv
<1>4. adopting' = {}
  BY <1>1 DEF PhaseInv
<1>5. ASSUME \A file \in (live \cap Files) \ reported : cache'[0][file] # 0 PROVE RowsMade'
  BY <1>1, <1>4, <1>5 DEF RowsMade, Arranging
<1>6. CASE CheckDelete
  BY <1>2, <1>6 DEF CheckDelete
<1>7. CASE SendDelete \/ EndDeletes
  <2>1. UNCHANGED cache
    BY <1>7 DEF SendDelete, EndDeletes, Request
  <2> QED
    BY <1>3, <1>5, <2>1
<1>8. CASE JoinDelete
  <2>1. PICK d : d = NextDelete
    OBVIOUS
  <2>2. answer = "ok"
    BY <1>2, <1>8 DEF JoinDelete, TypeInv, AnswersType, Smooth
  <2>3. RowsWithout(d[1], d[2])
    BY <1>8, <2>1, <2>2 DEF JoinDelete
  <2>4. d \in deletes /\ d[1] \in Roots /\ d[2] \in Paths \ {<<>>}
    BY <1>1, <2>1, <2>2, NextDeleteFacts DEF PhaseInv
  <2>5. \A path \in Paths : cache'[0][path] = IF d[1] = 0 /\ Covers(d[2], path) THEN 0 ELSE cache[0][path]
    BY <2>3, <2>4, NumberFacts DEF RowsWithout, Without, TypeInv, RowsType
  <2>6. ASSUME NEW file \in (live \cap Files) \ reported PROVE cache'[0][file] # 0
    <3>1. Visible(file) # 0 /\ file \in Paths
      BY <1>1, <1>2, CalmFile, PathFacts
    <3>2. ~(d[1] = 0 /\ Covers(d[2], file))
      BY <1>2, <2>4, <3>1 DEF PlanInv, DeletesExcused, Excused
    <3> QED
      BY <1>3, <2>5, <3>1, <3>2
  <2> QED
    BY <1>5, <2>6
<1> QED
  BY <1>6, <1>7, <1>8 DEF DeleteSteps

\* Every step keeps the rows of a smooth run.
LEMMA NextRows ==
    ASSUME TypeInv, PhaseInv, PlanInv, CalmInv, RowsInv, NoCopyComesBack, PhaseInv', [Next]_vars
    PROVE  RowsInv'
<1> USE DEF trees, database, rows, plan, inventory, queues, summary, budgets
<1>1. CASE UNCHANGED vars
  <2>1. Smooth' = Smooth
    BY <1>1 DEF vars, Smooth
  <2>2. RowsMade' = RowsMade
    BY <1>1 DEF vars, RowsMade, RowIfResumed, RowKnown, Nowhere, Waiting
  <2> QED
    BY <2>1, <2>2 DEF RowsInv
<1>2. CASE pc' \in Before
  BY <1>2, RowsEarly
<1>3. CASE ~Smooth'
  BY <1>3, RowsEarly
<1>4. CASE StartRun \/ RecordMissingRoot \/ FinishRun
  BY <1>2, <1>4 DEF StartRun, RecordMissingRoot, FinishRun, EndRun, Before
<1>5. CASE ScanSteps
  <2>1. CASE LoadCached
    BY <1>3, <2>1 DEF LoadCached, Smooth
  <2>2. CASE BuildLivePlan \/ \E unreadable \in SUBSET LocalDirs, busy \in SUBSET Files : Scan(unreadable, busy)
    BY <1>2, <2>2 DEF BuildLivePlan, Scan, Before
  <2> QED
    BY <1>5, <2>1, <2>2, InventoryRows DEF ScanSteps
<1>6. CASE MoveSteps
  BY <1>6, MoveRows
<1>7. CASE UploadSteps
  BY <1>7, AdoptRows, UploadRows DEF UploadSteps
<1>8. CASE DeleteSteps
  BY <1>8, DeleteRows
<1>9. CASE FaultSteps
  <2>1. CASE CollisionFails \/ QuotaExceeded \/ Cancel \/ \E kind \in FaultKinds : LoadFails(kind)
    BY <1>3, <2>1 DEF CollisionFails, QuotaExceeded, LoadFails, FailRoot, PartialFailRoot, Cancel, Smooth
  <2>2. CASE Unmount \/ Mount
    BY <1>3, <2>2, PathFacts DEF Unmount, Mount, Smooth
  <2>3. CASE \E kind \in FaultKinds : ParentOrListingFails(kind) \/ Interrupted(kind)
    BY <1>2, <2>3 DEF ParentOrListingFails, Interrupted, RunFails, EndRun, Before
  <2>4. CASE \E root \in Roots, dir \in Dirs : ListingNotFound(root, dir)
    BY <1>3, <2>4, CoversItself, PathFacts DEF ListingNotFound, Smooth
  <2>5. CASE \E root \in Roots, path \in Paths : RemoveRemote(root, path)
    BY <1>3, <2>5, CoversItself DEF RemoveRemote, Smooth
  <2> QED
    BY <1>9, <2>1, <2>2, <2>3, <2>4, <2>5 DEF FaultSteps
<1>10. CASE EditSteps
  <2>1. ASSUME NEW file \in Files, WriteLocal(file) PROVE RowsInv'
    BY <1>3, <2>1 DEF WriteLocal, Edit, Smooth
  <2>2. ASSUME NEW path \in Paths, RemoveLocal(path) PROVE RowsInv'
    BY <1>3, <2>2, CoversItself DEF RemoveLocal, Edit, Smooth
  <2> QED
    BY <1>10, <2>1, <2>2 DEF EditSteps
<1> QED
  BY <1>1, <1>4, <1>5, <1>6, <1>7, <1>8, <1>9, <1>10 DEF Next, EngineSteps

\* A run has its outcome when it is over.
Undecided == pc # "idle" => outcome = "none"

\* No run is a success before its end.
LEMMA NextUndecided ==
    ASSUME TypeInv, PhaseInv, Undecided, [Next]_vars
    PROVE  Undecided' /\ (pc = "finish" /\ outcome' = "succeeded" => FinishRun)
<1> USE DEF trees, database, rows, plan, inventory, queues, summary, budgets
<1>1. ASSUME UNCHANGED outcome, pc' # "idle" => pc # "idle"
      PROVE  Undecided' /\ (pc = "finish" => outcome' # "succeeded")
  BY <1>1 DEF Undecided
<1>2. ASSUME EndRun
      PROVE  Undecided'
  BY <1>2 DEF EndRun, Undecided
<1>3. CASE UNCHANGED vars
  BY <1>1, <1>3 DEF vars
<1>4. CASE StartRun \/ RecordMissingRoot \/ FinishRun
  BY <1>2, <1>4 DEF StartRun, RecordMissingRoot, FinishRun, Undecided
<1>5. CASE ScanSteps
  BY <1>1, <1>5 DEF ScanSteps, Scan, BuildLivePlan, LoadCached, LoadFresh, RecordRows, RecordStatus
<1>6. CASE MoveSteps
  <2>1. CASE CreateFails
    BY <1>2, <2>1 DEF CreateFails, RunFails
  <2>2. CASE ~CreateFails
    BY <1>1, <1>6, <2>2 DEF MoveSteps, NoTopMove, SendTopMove, JoinTopMove, Relist, SendCreate, JoinCreate,
       EndDirs, MergeSkips, MergeComparisonFails, SendMergeMove, JoinMergeMove, EndMerge, Request, MergeReady
  <2> QED
    BY <2>1, <2>2
<1>7. CASE UploadSteps
  <2>1. \A file \in Files : task[file] # "none" => pc # "idle"
    BY DEF PhaseInv
  <2> QED
    BY <1>1, <1>7, <2>1 DEF UploadSteps, AdoptSkips, AdoptFindsGone, Adopt, AdoptComparisonFails, QueueUpload,
       EndAdopt, StartUploads, EndUploads, Upload, JoinUpload, AdoptReady
<1>8. CASE DeleteSteps
  BY <1>1, <1>8 DEF DeleteSteps, CheckDelete, SendDelete, JoinDelete, EndDeletes, DeleteReady, Request
<1>9. CASE FaultSteps
  <2>1. CASE \E kind \in FaultKinds : ParentOrListingFails(kind) \/ Interrupted(kind)
    BY <1>2, <2>1 DEF ParentOrListingFails, Interrupted, RunFails
  <2> QED
    BY <1>1, <1>9, <2>1 DEF FaultSteps, CollisionFails, QuotaExceeded, AdoptReady, Cancel, Unmount, Mount, LoadFails,
       ListingNotFound, RemoveRemote
<1>10. CASE EditSteps
  BY <1>1, <1>10 DEF EditSteps, WriteLocal, RemoveLocal, Edit
<1> QED
  BY <1>3, <1>4, <1>5, <1>6, <1>7, <1>8, <1>9, <1>10 DEF Next, EngineSteps

\* The first run begins with nothing to account for.
LEMMA InitHand == Init => CalmInv /\ HandInv /\ RowsInv /\ Undecided
<1> SUFFICES ASSUME Init PROVE CalmInv /\ HandInv /\ RowsInv /\ Undecided
  OBVIOUS
<1>1. pc = "idle" /\ ~stopping /\ outcome = "none" /\ adopting = {} /\ \A file \in Files : task[file] = "none"
  BY DEF Init, NoTasks
<1>2. CalmInv /\ Undecided
  BY <1>1 DEF CalmInv, Undecided
<1>3. HandInv
  BY <1>1 DEF HandInv, SetsSee, Collecting, WorkDone, RootMade, DirsWanted, MergeTaken, UploadDone, Making,
     DatabaseTrue, StatusComplete, RowsTrue, RowsListed, RecordsMade, Recorded, Placing, EndsWell, DeletesCover, AllPlaced
<1>4. RowsInv
  BY <1>1 DEF RowsInv, RowsMade, Arranging, Placing
<1> QED
  BY <1>2, <1>3, <1>4

\* What a run that ends in success has handed over, the rows of the files aside.
Handed ==
    /\ \A path \in Paths \ reported : Mirrored(path)
    /\ \A root \in Legacies : In(remote[root]) \subseteq {<<>>}
    /\ complete /\ In(cache[0]) \subseteq In(remote[0])
    /\ \A file \in Files \ reported : Visible(file) # 0 => record[file].version = local[file]

\* A run over fresh listings that succeeds with nothing changed under it leaves the
\* mirror in the canonical place, nothing in the legacy ones, an inventory marked
\* complete without a row for what is not there, and a current record for each file.
\* This is SuccessHandsOver without the row of each file.
SuccessMirrors ==
    [][pc = "finish" /\ outcome' = "succeeded" /\ ~fromCache /\ touched = {} => Handed]_vars

\* The end of a smooth run.
LEMMA FinishHand ==
    ASSUME TypeInv, PhaseInv, PlanInv, CalmInv, HandInv, FinishRun, outcome' = "succeeded", ~fromCache, touched = {}
    PROVE  /\ Smooth /\ Handed
           /\ \A file \in Files \ reported : Visible(file) # 0 => file \in live \cap Files /\ ~Waiting(file)
<1>1. pc = "finish" /\ ~cancelled /\ ~failed
  BY DEF FinishRun, StatusFromSummary, TypeInv, FlagsType
<1>2. /\ answer = "none" /\ deletes = {} /\ adopting = {} /\ batch = {}
      /\ \A file \in Files : task[file] = "none"
  BY <1>1 DEF PhaseInv
<1>3. Smooth
  BY <1>1, <1>2 DEF Smooth
<1>4. DatabaseTrue /\ EndsWell
  BY <1>3 DEF HandInv
<1>5. /\ Visible(<<>>) # 0 /\ \A path \in live : Visible(path) # 0
      /\ \A file \in live \cap Files : scanned[file] = local[file]
  BY <1>1 DEF CalmInv
<1>6. \A root \in Roots, path \in Paths : remote[root][path] # 0 => ~Extra(root, path)
  BY <1>1, <1>2, <1>4 DEF EndsWell, DeletesCover
<1>7. 0 \in Roots /\ Legacies \subseteq Roots \ {0} /\ Files \subseteq Paths \ {<<>>}
  BY NumberFacts, PathFacts
<1>8. \A path \in Paths \ reported : Mirrored(path)
  <2> SUFFICES ASSUME NEW path \in Paths \ reported, Visible(path) = 0 PROVE Mirrored(path)
    BY <1>1, <1>4 DEF EndsWell, AllPlaced
  <2>1. remote[0][path] = 0
    BY <1>5, <1>6, <1>7 DEF Extra, Wanted
  <2> QED
    BY <2>1 DEF Mirrored
<1>9. \A root \in Legacies : In(remote[root]) \subseteq {<<>>}
  BY <1>6, <1>7 DEF In, Extra
<1>10. complete /\ In(cache[0]) \subseteq In(remote[0])
  BY <1>1, <1>4 DEF DatabaseTrue, StatusComplete, RowsTrue, Recorded, Deleted, In
<1>11. ASSUME NEW file \in Files \ reported, Visible(file) # 0
       PROVE  file \in live \cap Files /\ ~Waiting(file) /\ record[file].version = local[file]
  <2>1. file \in live \cap Files
    BY <1>1, <1>7, <1>11 DEF PlanInv, PlanComplete, Excused
  <2>2. ~Waiting(file)
    BY <1>1, <1>2 DEF Waiting
  <2> QED
    BY <1>1, <1>4, <1>5, <2>1, <2>2 DEF DatabaseTrue, RecordsMade
<1> QED
  BY <1>3, <1>8, <1>9, <1>10, <1>11 DEF Handed

\* A migration that succeeds over fresh listings, with nothing changed under it, has
\* made the canonical place the mirror, whatever crashes, failed requests and outside
\* changes the runs before have met.  The hypothesis is about names only:
\* collect_coalesced_delete_operations passes over a path with a segment "disk:".
THEOREM SuccessLeavesTheMirror ==
    ASSUME \A path \in Paths \ {<<>>} : DeleteCandidate(path)
    PROVE  Spec => SuccessMirrors
<1> DEFINE Inv == TypeInv /\ PhaseInv /\ PlanInv /\ PlacedInv /\ CalmInv /\ HandInv /\ Undecided
           Hands == pc = "finish" /\ outcome' = "succeeded" /\ ~fromCache /\ touched = {} => Handed
<1>1. Init => Inv
  BY InitType, InitPhase, InitPlaced, InitHand
<1>2. Inv /\ [Next]_vars => Inv'
  BY NextType, NextPhase, NextPlan, NextPlaced, NextCalm, NextHand, NextUndecided
<1>3. Inv /\ [Next]_vars => [Hands]_vars
  BY NextUndecided, FinishHand
<1> QED
  BY <1>1, <1>2, <1>3, PTL DEF Spec, SuccessMirrors

\* It has also handed the sync engine a row for each file, if no run finds a legacy copy
\* of a file whose canonical copy was removed after its record said "synced":
\* can_resume_synced_file would take such a copy, once it has been moved, for the one
\* that was recorded, and write no row.
THEOREM SuccessIsAHandOver ==
    ASSUME \A path \in Paths \ {<<>>} : DeleteCandidate(path)
    PROVE  Spec /\ []NoCopyComesBack => SuccessHandsOver
<1> DEFINE Inv == /\ TypeInv /\ PhaseInv /\ PlanInv /\ PlacedInv /\ CalmInv /\ HandInv /\ Undecided
                  /\ RowsInv
           Hands == pc = "finish" /\ outcome' = "succeeded" /\ ~fromCache /\ touched = {} =>
                       /\ \A path \in Paths \ reported : Mirrored(path)
                       /\ \A root \in Legacies : In(remote[root]) \subseteq {<<>>}
                       /\ complete /\ In(cache[0]) \subseteq In(remote[0])
                       /\ \A file \in Files \ reported :
                             Visible(file) # 0 => record[file].version = local[file] /\ cache[0][file] # 0
<1>1. Init => Inv
  BY InitType, InitPhase, InitPlaced, InitHand
<1>2. Inv /\ NoCopyComesBack /\ [Next]_vars => Inv'
  BY NextType, NextPhase, NextPlan, NextPlaced, NextCalm, NextHand, NextRows, NextUndecided
<1>3. Inv /\ [Next]_vars => [Hands]_vars
  <2> SUFFICES ASSUME Inv, [Next]_vars, pc = "finish", outcome' = "succeeded", ~fromCache, touched = {}
               PROVE  Hands
    OBVIOUS
  <2>1. FinishRun
    BY NextUndecided
  <2>2. /\ Smooth /\ Handed
        /\ \A file \in Files \ reported : Visible(file) # 0 => file \in live \cap Files /\ ~Waiting(file)
    BY <2>1, FinishHand
  <2>3. \A file \in Files \ reported : Visible(file) # 0 => cache[0][file] # 0
    BY <2>2 DEF RowsInv, RowsMade
  <2> QED
    BY <2>2, <2>3 DEF Handed
<1> QED
  BY <1>1, <1>2, <1>3, PTL DEF Spec, SuccessHandsOver

-----------------------------------------------------------------------------
(* The run after a migration that succeeded.                                 *)

\* A directory has no content.
DirsPlain == \A root \in Roots, dir \in Dirs : remote[root][dir] \in {0, 1}

\* A row of the canonical place is that of the inventory, and a whole tree is moved into
\* an empty place only.
Following == pc \in Recorded /\ ~failed /\ ~cancelled
TopAsked == pc = "relist" \/ (pc = "top" /\ answer # "none")
RowsFollow ==
    /\ Following => \A file \in Files : cache[0][file] \in {0, sets[0][file]}
    /\ TopAsked => \A path \in Paths : sets[0][path] = 0

\* What a run that settled has left, and nobody has changed since.
NoFile == \A file \in Files : Visible(file) = 0
Current(tree, file) == IF file \in SizeOnly THEN tree[file] # 0 ELSE tree[file] = local[file]
SettledDisk ==
    /\ Visible(<<>>) # 0 /\ \A path \in Paths : Mirrored(path)
    /\ \A root \in Legacies, path \in Paths \ {<<>>} : remote[root][path] = 0
SettledRows ==
    /\ \A path \in Paths : cache[0][path] # 0 => Visible(path) # 0
    /\ \A file \in Files : Visible(file) # 0 => record[file].version = local[file] /\ Current(cache[0], file)

\* The plan and the inventory that the next run makes of it.  The rows of the legacy
\* roots may be from before the moves, and those of the canonical one lack directories.
RerunFlags == ~cancelled /\ ~hard /\ ~stopping /\ (failed => NoFile)
RerunPlan ==
    pc \notin {"idle", "scan"} =>
        /\ tombs = {} /\ reported = {} /\ live = { path \in Paths \ {<<>>} : Visible(path) # 0 }
        /\ \A file \in live \cap Files :
              scanned[file] = local[file] /\ (file \in SizeOnly \cup hashed \/ ~record[file].md5)
RerunSets ==
    pc \notin Before =>
        /\ \A path \in Paths : sets[0][path] # 0 => Visible(path) # 0
        /\ \A file \in live \cap Files : Current(sets[0], file)
        /\ ~fromCache => \A root \in Legacies, path \in Paths \ {<<>>} : sets[root][path] = 0

\* What it still asks for: to move a tree without files into the place that is taken,
\* directories that are there, files whose md5 nobody knows, and the metadata of
\* legacy paths that have gone.
RerunAnswer ==
    answer # "none" => (pc = "top" /\ answer = "fail" /\ NoFile) \/ (pc = "dirs" /\ answer = "ok")
RerunFiles ==
    /\ \A file \in adopting : file \in SizeOnly \cup hashed \/ <<0, file>> \in bare
    /\ \A file \in batch : file \notin SizeOnly \cup hashed
    /\ \A file \in Files : /\ task[file] \in {"none", "queued", "ok"}
                           /\ task[file] # "none" => file \notin SizeOnly \cup hashed
RerunWork ==
    /\ pc # "relist" /\ RerunAnswer /\ RerunFiles
    /\ pc = "dirs" => todo \subseteq Wanted
    /\ \A d \in deletes : d[1] # 0 /\ fromCache
RerunFacts == SettledDisk /\ SettledRows /\ RerunFlags /\ RerunPlan /\ RerunSets /\ RerunWork
RerunInv == settled => RerunFacts

\* The disk keeps contents in files only.
LEMMA NextPlain ==
    ASSUME TypeInv, PhaseInv, DirsPlain, [Next]_vars
    PROVE  DirsPlain'
<1> USE DEF trees, database, rows, plan, inventory, queues, summary, budgets
<1>1. TreesType /\ Dirs \subseteq Paths /\ Dirs \cap Files = {} /\ Files \subseteq Paths /\ 0 \in Roots
      /\ Legacies \subseteq Roots \ {0} /\ 1 \in Contents
  BY PathFacts, NumberFacts DEF TypeInv
<1>2. ASSUME UNCHANGED remote
      PROVE  DirsPlain'
  BY <1>2 DEF DirsPlain
<1>3. ASSUME NEW root \in Roots, NEW path \in Paths, remote' = [remote EXCEPT ![root] = Without(@, path)]
      PROVE  DirsPlain'
  BY <1>1, <1>3, RemovedType DEF DirsPlain, TreesType
<1>4. ASSUME Dropped
      PROVE  DirsPlain'
  BY <1>1, <1>4, DroppedType DEF DirsPlain, TreesType
<1>5. ASSUME NEW root \in Legacies, NEW path \in Paths, remote' = Moved(root, path)
      PROVE  DirsPlain'
  <2>1. \A p \in Paths : Without(remote[root], path)[p] \in {0, remote[root][p]}
    BY DEF Without
  <2> QED
    BY <1>1, <1>5, <2>1, MovedType DEF DirsPlain, TreesType
<1>6. ASSUME NEW file \in Files, remote' = Uploaded(file)
      PROVE  DirsPlain'
  <2>1. Visible(file) \in Contents
    BY <1>1, VisibleType, NumberFacts DEF TreesType
  <2> QED
    BY <1>1, <1>6, <2>1, UploadedType DEF DirsPlain, TreesType, Uploaded
<1>7. ASSUME NEW dir \in Dirs, remote' = [remote EXCEPT ![0][dir] = 1]
      PROVE  DirsPlain'
  BY <1>1, <1>7, UploadedType DEF DirsPlain, TreesType
<1>8. ASSUME NEW possible, NEW effect, Request(possible, effect)
      PROVE  remote' \in {remote, effect}
  BY <1>8 DEF Request
<1>9. CASE StartRun \/ RecordMissingRoot \/ FinishRun \/ ScanSteps \/ UNCHANGED vars
  BY <1>2, <1>9 DEF StartRun, RecordMissingRoot, FinishRun, ScanSteps, Scan, BuildLivePlan, LoadCached, LoadFresh,
     RecordRows, RecordStatus, vars
<1>10. CASE MoveSteps
  <2>1. CASE SendTopMove
    <3>1. First(PresentLegacies) \in Legacies /\ <<>> \in Paths
      BY <2>1, FirstType, PathFacts DEF SendTopMove, TopMovePossible, PresentLegacies
    <3> QED
      BY <1>2, <1>5, <1>8, <2>1, <3>1 DEF SendTopMove
  <2>2. CASE SendCreate
    <3>1. NextDir \in Dirs
      BY <2>2, NextDirType DEF SendCreate, PhaseInv
    <3> QED
      BY <1>2, <1>7, <1>8, <2>2, <3>1 DEF SendCreate
  <2>3. CASE SendMergeMove
    <3>1. First(LegacyWith(NextFile)) \in Legacies /\ NextFile \in Paths
      BY <2>3, FirstType, NextFileType DEF SendMergeMove, MergeReady, Merges, LegacyWith
    <3> QED
      BY <1>2, <1>5, <1>8, <2>3, <3>1 DEF SendMergeMove
  <2>4. CASE CreateFails
    BY <1>4, <2>4 DEF CreateFails, RunFails
  <2> QED
    BY <1>2, <1>10, <2>1, <2>2, <2>3, <2>4 DEF MoveSteps, NoTopMove, JoinTopMove, Relist, JoinCreate, EndDirs,
       MergeSkips, MergeComparisonFails, JoinMergeMove, EndMerge
<1>11. CASE UploadSteps
  <2>1. ASSUME NEW file \in Files, Upload(file)
        PROVE  DirsPlain'
    <3>1. remote' \in {remote, Uploaded(file)}
      BY <2>1 DEF Upload
    <3> QED
      BY <1>2, <1>6, <3>1
  <2> QED
    BY <1>2, <1>11, <2>1 DEF UploadSteps, AdoptSkips, AdoptFindsGone, Adopt, AdoptComparisonFails, QueueUpload,
       EndAdopt, StartUploads, EndUploads, JoinUpload
<1>12. CASE DeleteSteps
  <2>1. CASE SendDelete
    <3>1. NextDelete[1] \in Roots /\ NextDelete[2] \in Paths
      BY <2>1, NextDeleteFacts DEF SendDelete, DeleteReady
    <3> QED
      BY <1>2, <1>3, <1>8, <2>1, <3>1 DEF SendDelete
  <2> QED
    BY <1>2, <1>12, <2>1 DEF DeleteSteps, CheckDelete, JoinDelete, EndDeletes
<1>13. CASE FaultSteps
  <2>1. CASE \E kind \in FaultKinds : ParentOrListingFails(kind) \/ Interrupted(kind)
    BY <1>4, <2>1 DEF ParentOrListingFails, Interrupted, RunFails
  <2>2. CASE \E root \in Roots, path \in Paths : RemoveRemote(root, path)
    BY <1>3, <2>2 DEF RemoveRemote
  <2>3. CASE \E root \in Roots, dir \in Dirs : ListingNotFound(root, dir)
    BY <1>1, <1>3, <2>3 DEF ListingNotFound
  <2> QED
    BY <1>2, <1>13, <2>1, <2>2, <2>3 DEF FaultSteps, CollisionFails, QuotaExceeded, Cancel, Unmount, Mount, LoadFails
<1>14. CASE EditSteps
  BY <1>2, <1>14 DEF EditSteps, WriteLocal, RemoveLocal, Edit
<1> QED
  BY <1>9, <1>10, <1>11, <1>12, <1>13, <1>14 DEF Next, EngineSteps

\* A step that changes neither the rows nor the sets of the canonical place.
LEMMA FollowKept ==
    ASSUME RowsFollow, UNCHANGED <<cache, sets>>, Following' => Following, TopAsked' => TopAsked
    PROVE  RowsFollow'
  BY DEF RowsFollow

\* The rows of files follow the inventory as long as nothing fails.
LEMMA NextFollow ==
    ASSUME TypeInv, PhaseInv, RowsFollow, [Next]_vars
    PROVE  RowsFollow'
<1> USE DEF trees, database, rows, plan, inventory, queues, summary, budgets
<1>1. 0 \in Roots /\ Files \subseteq Paths /\ Dirs \subseteq Paths /\ Dirs \cap Files = {}
      /\ Legacies \subseteq Roots \ {0} /\ cache \in [Roots -> Trees] /\ sets \in [Roots -> Trees]
  BY PathFacts, NumberFacts DEF TypeInv, RowsType, SetsType
<1>2. ASSUME UNCHANGED <<cache, sets>>, pc' \in Recorded => pc \in Recorded,
             failed => failed', cancelled => cancelled', TopAsked' => TopAsked
      PROVE  RowsFollow'
  BY <1>2, FollowKept DEF Following
<1>3. ASSUME EndRun
      PROVE  RowsFollow'
  BY <1>3 DEF EndRun, RowsFollow, Following, TopAsked, Recorded
<1>4. ASSUME Flush, pc \in {"adopt", "upload"}, pc' \notin {"top", "relist"},
             failed => failed', cancelled => cancelled'
      PROVE  RowsFollow'
  <2>1. \A path \in Paths : cache'[0][path] = IF path \in adopting THEN sets[0][path] ELSE cache[0][path]
    BY <1>4, UpsertFacts DEF Flush, TypeInv, QueuesType
  <2>2. UNCHANGED sets
    BY <1>4 DEF Flush
  <2> QED
    BY <1>1, <1>4, <2>1, <2>2 DEF RowsFollow, Following, TopAsked, Recorded
<1>5. ASSUME NEW root \in Roots, NEW path \in Paths, RowsWithout(root, path), UNCHANGED sets, pc = "delete",
             pc' \notin {"top", "relist"}, failed => failed', cancelled => cancelled'
      PROVE  RowsFollow'
  <2>1. \A file \in Files : cache'[0][file] \in {0, cache[0][file]}
    BY <1>1, <1>5 DEF RowsWithout, Without, Trees
  <2> QED
    BY <1>5, <2>1 DEF RowsFollow, Following, TopAsked, Recorded
<1>6. CASE StartRun \/ RecordMissingRoot \/ UNCHANGED vars
  BY <1>2, <1>6 DEF StartRun, RecordMissingRoot, TopAsked, Recorded, vars
<1>7. CASE FinishRun
  BY <1>3, <1>7 DEF FinishRun
<1>8. CASE ScanSteps
  <2>1. CASE RecordRows
    BY <1>1, <2>1 DEF RecordRows, RowsFollow, TopAsked
  <2>2. CASE RecordStatus
    <3>1. answer = "none"
      BY <2>2 DEF RecordStatus, PhaseInv
    <3> QED
      BY <1>2, <2>2, <3>1 DEF RecordStatus, Recorded, TopAsked
  <2> QED
    BY <1>8, <2>1, <2>2 DEF ScanSteps, Scan, BuildLivePlan, LoadCached, LoadFresh, RowsFollow, Following, TopAsked, Recorded
<1>9. CASE MoveSteps
  <2>1. CASE SendTopMove
    <3>1. \A path \in Paths : sets[0][path] = 0
      BY <2>1 DEF SendTopMove, TopMovePossible, Empty
    <3> QED
      BY <2>1, <3>1 DEF SendTopMove, Request, RowsFollow, Following
  <2>2. CASE NoTopMove
    BY <1>2, <2>2 DEF NoTopMove, EnterDirs, Finish, Recorded, TopAsked
  <2>7. CASE JoinTopMove
    BY <1>2, <2>7 DEF JoinTopMove, EnterDirs, Finish, MigrationFailure, Recorded, TopAsked, TypeInv, AnswersType
  <2>3. CASE Relist
    <3>1. \A file \in Files : Following => cache[0][file] = 0
      BY <1>1, <2>3 DEF Relist, RowsFollow, TopAsked
    <3> QED
      BY <2>3, <3>1 DEF Relist, EnterDirs, Finish, RowsFollow, Following, TopAsked, Recorded
  <2>4. CASE JoinCreate
    <3>1. NextDir \in Dirs
      BY <2>4, AskedFor DEF JoinCreate
    <3>2. \A file \in Files : sets'[0][file] = sets[0][file]
      BY <1>1, <2>4, <3>1 DEF JoinCreate, Trees
    <3> QED
      BY <2>4, <3>2 DEF JoinCreate, RowsFollow, Following, TopAsked
  <2>5. CASE CreateFails
    BY <1>3, <2>5 DEF CreateFails, RunFails
  <2>6. CASE JoinMergeMove
    <3>1. NextFile \in Files /\ Merges(NextFile)
      BY <2>6, AskedFor DEF JoinMergeMove, PhaseInv
    <3>2. First(LegacyWith(NextFile)) \in Roots \ {0}
      BY <1>1, <3>1, FirstType DEF Merges, LegacyWith
    <3>3. \A file \in Files \ {NextFile} : sets'[0][file] = sets[0][file]
      <4>1. CASE answer = "ok"
        BY <1>1, <2>6, <3>1, <3>2, <4>1 DEF JoinMergeMove, Trees
      <4>2. CASE answer # "ok"
        BY <2>6, <4>2 DEF JoinMergeMove, TypeInv, AnswersType
      <4> QED
        BY <4>1, <4>2
    <3>4. Following => cache[0][NextFile] = 0
      BY <3>1 DEF RowsFollow, Merges
    <3>5. /\ UNCHANGED <<cache, cancelled>> /\ pc = "merge" /\ pc' \in {"merge", "finish"}
          /\ failed => failed'
      BY <2>6 DEF JoinMergeMove, Finish, MigrationFailure, TypeInv, AnswersType
    <3> QED
      BY <3>3, <3>4, <3>5 DEF RowsFollow, Following, TopAsked, Recorded
  <2> QED
    BY <1>2, <1>9, <2>1, <2>2, <2>3, <2>4, <2>5, <2>6, <2>7 DEF MoveSteps, SendCreate, EndDirs, MergeSkips,
       MergeComparisonFails, MergeReady, ProcessingFailure, SendMergeMove, EndMerge, Request, Finish, Recorded, TopAsked
<1>10. CASE UploadSteps
  <2>1. ASSUME NEW file \in Files, JoinUpload(file)
        PROVE  RowsFollow'
    <3>1. pc = "upload" /\ pc' = "upload" /\ UNCHANGED cancelled /\ (failed => failed')
      <4>1. task[file] \in {"ok", "skip", "fail", "stop"}
        BY <2>1 DEF JoinUpload, TypeInv, AnswersType, Answers
      <4> QED
        BY <2>1, <4>1 DEF JoinUpload, PhaseInv
    <3>2. CASE task[file] = "ok"
      <4>1. sets' = [sets EXCEPT ![0][file] = scanned[file]] /\ UpsertRows({file})
        BY <2>1, <3>2 DEF JoinUpload
      <4>2. \A path \in Paths : cache'[0][path] = IF path = file THEN sets'[0][path] ELSE cache[0][path]
        BY <4>1, UpsertFacts
      <4>3. \A other \in Files \ {file} : sets'[0][other] = sets[0][other]
        BY <1>1, <4>1 DEF Trees
      <4> QED
        BY <1>1, <3>1, <4>2, <4>3 DEF RowsFollow, Following, TopAsked
    <3>3. CASE task[file] # "ok"
      <4>1. task[file] \in {"skip", "fail", "stop"}
        BY <2>1, <3>3 DEF JoinUpload, TypeInv, AnswersType, Answers
      <4>2. UNCHANGED <<cache, sets>>
        BY <2>1, <4>1 DEF JoinUpload
      <4> QED
        BY <1>2, <3>1, <4>2 DEF TopAsked
    <3> QED
      BY <3>2, <3>3
  <2>2. ASSUME NEW file \in Files, Upload(file)
        PROVE  RowsFollow'
    BY <1>2, <2>2 DEF Upload, TopAsked
  <2>3. CASE AdoptSkips \/ Adopt \/ StartUploads \/ EndUploads
    BY <1>2, <2>3 DEF AdoptSkips, Adopt, AdoptReady, StartUploads, EndUploads, EnterDeletes, Finish, TopAsked, Recorded
  <2>4. CASE AdoptFindsGone \/ AdoptComparisonFails \/ QueueUpload \/ EndAdopt
    BY <1>4, <2>4 DEF AdoptFindsGone, AdoptComparisonFails, AdoptReady, ProcessingFailure, QueueUpload, EndAdopt,
       EnterDeletes, Finish
  <2> QED
    BY <1>10, <2>1, <2>2, <2>3, <2>4 DEF UploadSteps
<1>11. CASE DeleteSteps
  <2>1. ASSUME deletes # {}
        PROVE  NextDelete[1] \in Roots /\ NextDelete[2] \in Paths
    BY <2>1, NextDeleteFacts
  <2>2. CASE SendDelete \/ EndDeletes
    BY <1>2, <2>2 DEF SendDelete, EndDeletes, DeleteReady, Request, Finish, TopAsked, Recorded
  <2>3. CASE CheckDelete
    BY <1>2, <1>5, <2>1, <2>3 DEF CheckDelete, DeleteReady, Finish, TopAsked, Recorded
  <2>4. CASE JoinDelete
    <3>1. deletes # {}
      BY <2>4 DEF JoinDelete, PhaseInv
    <3> QED
      BY <1>2, <1>5, <2>1, <2>4, <3>1 DEF JoinDelete, Finish, TopAsked, Recorded, TypeInv, AnswersType
  <2> QED
    BY <1>11, <2>2, <2>3, <2>4 DEF DeleteSteps
<1>12. CASE FaultSteps
  <2>1. CASE \E kind \in FaultKinds : ParentOrListingFails(kind) \/ Interrupted(kind)
    BY <1>3, <2>1 DEF ParentOrListingFails, Interrupted, RunFails
  <2>2. CASE QuotaExceeded
    BY <1>4, <2>2 DEF QuotaExceeded, AdoptReady, FailRoot, Finish
  <2>3. CASE CollisionFails \/ \E kind \in FaultKinds : LoadFails(kind)
    BY <2>3 DEF CollisionFails, LoadFails, FailRoot, PartialFailRoot, Finish, RowsFollow, Following, TopAsked
  <2>4. CASE \E root \in Roots, dir \in Dirs : ListingNotFound(root, dir)
    BY <2>4 DEF ListingNotFound, RowsFollow, Following, TopAsked, Recorded
  <2> QED
    BY <1>2, <1>12, <2>1, <2>2, <2>3, <2>4 DEF FaultSteps, Cancel, Unmount, Mount, RemoveRemote, TopAsked
<1>13. CASE EditSteps
  BY <1>2, <1>13 DEF EditSteps, WriteLocal, RemoveLocal, Edit, TopAsked
<1> QED
  BY <1>6, <1>7, <1>8, <1>9, <1>10, <1>11, <1>12, <1>13 DEF Next, EngineSteps

\* A step that counts no fault meets none.
LEMMA NoFaultMet ==
    ASSUME TypeInv, faults' = faults
    PROVE  \A kind : ~Fault(kind)
<1>1. faults \in Int
  BY LimitsAssumption DEF TypeInv, RunType
<1> QED
  BY <1>1 DEF Fault

\* While everything is settled, a path is visible if it is there.
LEMMA SettledVisible ==
    ASSUME SettledDisk
    PROVE  \A path \in Paths : Visible(path) = local[path]
  BY DEF SettledDisk, Visible

\* The parent of what is visible is on the disk.
LEMMA ParentThere ==
    ASSUME LocalClosed, SettledDisk, NEW path \in Paths \ {<<>>}, Visible(path) # 0
    PROVE  remote[0][Parent(path)] # 0
<1>1. path \in Seq(STRING) /\ Len(path) \in Nat \ {0} /\ Parent(path) \in Paths /\ <<>> \in Paths
  BY AboveIsDirectory, PathFacts
<1>2. PICK n \in Nat \ {0} : n = Len(path)
  BY <1>1
<1>3. Parent(path) = <<>> \/ Parent(path) \in Ancestors(path)
  <2>1. CASE n = 1
    <3>1. SubSeq(path, 1, 0) = <<>>
      BY <1>1
    <3> QED
      BY <1>2, <2>1, <3>1 DEF Parent
  <2>2. CASE n # 1
    <3>1. n - 1 \in 1..(n - 1)
      BY <2>2
    <3> QED
      BY <1>2, <3>1 DEF Parent, Ancestors
  <2> QED
    BY <2>1, <2>2
<1>4. Visible(Parent(path)) # 0
  <2>1. local[<<>>] # 0 /\ local[path] # 0
    BY <1>1, SettledVisible DEF SettledDisk
  <2> QED
    BY <1>1, <1>3, <2>1, SettledVisible DEF LocalClosed
<1>5. Parent(path) \notin Files
  BY AboveIsDirectory, PathFacts
<1> QED
  BY <1>1, <1>4, <1>5 DEF SettledDisk, Mirrored

\* A file of the plan is where it has to be, and the inventory says so.
LEMMA RerunFile ==
    ASSUME TypeInv, PlanInv, RerunFacts, pc \notin {"idle", "scan"}, NEW file \in live \cap Files
    PROVE  /\ Visible(file) # 0 /\ Visible(file) = local[file] /\ scanned[file] = local[file]
           /\ ~NewlyGone(file) /\ ~CoveredBySome(tombs, file)
           /\ remote[0][file] # 0 /\ remote[0][Parent(file)] # 0
           /\ file \notin SizeOnly => remote[0][file] = local[file]
           /\ pc \notin Before => Current(sets[0], file) /\ sets[0][file] # 0
<1>1. file \in Paths \ {<<>>} /\ Visible(file) # 0 /\ scanned[file] = local[file] /\ tombs = {} /\ Mirrored(file)
  BY PathFacts DEF RerunFacts, RerunPlan, SettledDisk
<1>2. Visible(file) = local[file]
  BY <1>1, SettledVisible DEF RerunFacts
<1>3. ~NewlyGone(file) /\ ~CoveredBySome(tombs, file)
  BY <1>1, NewlyGoneIsGone DEF PlanInv, CoveredBySome
<1>4. remote[0][file] # 0 /\ (file \notin SizeOnly => remote[0][file] = local[file])
  BY <1>1, <1>2 DEF Mirrored
<1>5. remote[0][Parent(file)] # 0
  BY <1>1, ParentThere DEF RerunFacts, PlanInv
<1>6. pc \notin Before => Current(sets[0], file) /\ sets[0][file] # 0
  BY <1>1, <1>2 DEF RerunFacts, RerunSets, Current
<1> QED
  BY <1>1, <1>2, <1>3, <1>4, <1>5, <1>6

\* The plan, the inventory and the tables stay what they are when they are not touched.
LEMMA RerunKept ==
    ASSUME RerunFacts, UNCHANGED <<local, remote, cache, record, live, scanned, hashed, tombs, reported>>,
           UNCHANGED <<sets, fromCache, cancelled, hard, stopping, failed>>,
           pc' \notin {"idle", "scan"} => pc \notin {"idle", "scan"}, pc' \notin Before => pc \notin Before,
           RerunWork'
    PROVE  RerunFacts'
<1>1. \A path : Visible(path)' = Visible(path)
  BY DEF Visible
<1>2. \A path : Mirrored(path)' = Mirrored(path)
  BY <1>1 DEF Mirrored
<1>3. SettledDisk' /\ SettledRows'
  BY <1>1, <1>2 DEF RerunFacts, SettledDisk, SettledRows, Current
<1>4. RerunFlags'
  BY <1>1 DEF RerunFacts, RerunFlags, NoFile
<1>5. RerunPlan'
  BY <1>1 DEF RerunFacts, RerunPlan
<1>6. RerunSets'
  BY <1>1 DEF RerunFacts, RerunSets, Current
<1> QED
  BY <1>3, <1>4, <1>5, <1>6 DEF RerunFacts

\* So does what the run has queued.
LEMMA RerunWorkKept ==
    ASSUME RerunWork, UNCHANGED <<answer, adopting, batch, task, deletes, hashed, bare, fromCache>>,
           answer = "none", pc' \notin {"relist", "dirs"}
    PROVE  RerunWork'
  BY DEF RerunWork, RerunAnswer, RerunFiles

\* The scan finds what is there, and reuses every record.
LEMMA RerunScan ==
    ASSUME TypeInv, PhaseInv, PlanInv, RerunFacts, \A kind : ~Fault(kind),
           NEW unreadable \in SUBSET LocalDirs, NEW busy \in SUBSET Files, Scan(unreadable, busy)
    PROVE  RerunFacts'
<1> USE DEF trees, database, rows, plan, inventory, queues, summary, budgets
<1>1. unreadable = {} /\ busy = {}
  BY DEF Scan
<1>2. /\ pc = "scan" /\ pc' = "live" /\ tombs = {}
      /\ UNCHANGED <<local, remote, record, cache, tombs, hard, stopping, cancelled>>
      /\ UNCHANGED <<answer, adopting, batch, task, deletes, bare, fromCache>>
  BY DEF Scan, PlanInv, TombsExcused
<1>3. live' = { path \in Paths \ {<<>>} : Visible(path) # 0 }
  BY <1>1 DEF Scan, Walked
<1>4. \A path : Visible(path)' = Visible(path)
  BY <1>2 DEF Visible
<1>5. ~failed'
  BY <1>1 DEF Scan, RerunFacts, SettledDisk
<1>6. reported' = {}
  <2>1. In(local) \subseteq {<<>>} \cup live'
    BY <1>3, SettledVisible DEF In, RerunFacts
  <2> QED
    BY <2>1 DEF Scan
<1>7. ASSUME NEW file \in live' \cap Files
      PROVE  scanned'[file] = local[file] /\ (file \in hashed' \/ ~record[file].md5)
  <2>1. Visible(file) # 0 /\ Reusable(file)
    BY <1>3, <1>7 DEF RerunFacts, SettledRows, Reusable
  <2> QED
    BY <1>7, <2>1 DEF Scan, HasMd5
<1>8. /\ answer = "none" /\ adopting = {} /\ batch = {} /\ deletes = {}
      /\ \A file \in Files : task[file] = "none"
  BY <1>2 DEF PhaseInv
<1>9. \A path : Mirrored(path)' = Mirrored(path)
  BY <1>2, <1>4 DEF Mirrored
<1>10. SettledDisk' /\ SettledRows'
  BY <1>2, <1>4, <1>9 DEF RerunFacts, SettledDisk, SettledRows, Current
<1>11. RerunFlags' /\ RerunSets'
  BY <1>2, <1>5 DEF RerunFacts, RerunFlags, RerunSets, Before
<1>12. RerunPlan'
  BY <1>2, <1>3, <1>4, <1>6, <1>7 DEF RerunPlan
<1>13. RerunWork'
  BY <1>2, <1>8 DEF RerunWork, RerunAnswer, RerunFiles
<1> QED
  BY <1>10, <1>11, <1>12, <1>13 DEF RerunFacts

\* From the plan to the inventory, fresh or from the rows.
LEMMA RerunInventory ==
    ASSUME TypeInv, PhaseInv, PlanInv, RerunFacts, \A kind : ~Fault(kind),
           StartRun \/ BuildLivePlan \/ LoadCached \/ LoadFresh \/ RecordRows \/ RecordStatus
    PROVE  RerunFacts'
<1> USE DEF trees, database, rows, plan, inventory, queues, summary, budgets
<1>1. /\ UNCHANGED <<local, remote, record, reported, summary, cancelled, scanned, hashed>>
      /\ UNCHANGED <<answer, adopting, batch, task, deletes>>
  BY DEF StartRun, BuildLivePlan, LoadCached, LoadFresh, RecordRows, RecordStatus
<1>2. /\ answer = "none" /\ adopting = {} /\ batch = {} /\ deletes = {}
      /\ \A file \in Files : task[file] = "none"
  BY DEF StartRun, BuildLivePlan, LoadCached, LoadFresh, RecordRows, RecordStatus, PhaseInv
<1>3. \A path : Visible(path)' = Visible(path)
  BY <1>1 DEF Visible
<1>4. \A path : Mirrored(path)' = Mirrored(path)
  BY <1>1, <1>3 DEF Mirrored
<1>5. RerunWork' /\ RerunFlags' /\ SettledDisk'
  <2>1. pc' \notin {"relist", "dirs"}
    BY DEF StartRun, BuildLivePlan, LoadCached, LoadFresh, RecordRows, RecordStatus
  <2> QED
    BY <1>1, <1>2, <1>3, <1>4, <2>1 DEF RerunWork, RerunAnswer, RerunFiles, RerunFacts, RerunFlags, NoFile, SettledDisk
<1>6. ASSUME UNCHANGED cache
      PROVE  SettledRows'
  BY <1>1, <1>3, <1>6 DEF RerunFacts, SettledRows, Current
<1>7. ASSUME UNCHANGED <<live, tombs>>, pc' \notin {"idle", "scan"} => pc \notin {"idle", "scan"}
      PROVE  RerunPlan'
  BY <1>1, <1>3, <1>7 DEF RerunFacts, RerunPlan
<1>8. CASE StartRun
  <2>1. UNCHANGED cache /\ pc' = "scan"
    BY <1>8 DEF StartRun
  <2> QED
    BY <1>5, <1>6, <2>1 DEF RerunFacts, RerunPlan, RerunSets, Before
<1>9. CASE BuildLivePlan
  <2>1. /\ pc = "live" /\ pc' = "sets" /\ UNCHANGED cache
        /\ tombs' = AddDeletedSubtrees({}, (live \cap Dirs) \ LocalDirs)
        /\ live' = { path \in live : ~CoveredBySome(tombs', path) }
    BY <1>9 DEF BuildLivePlan
  <2>2. live \cap Dirs \subseteq LocalDirs
    BY <2>1 DEF RerunFacts, RerunPlan, LocalDirs
  <2>3. tombs' = {}
    BY <2>1, <2>2 DEF AddDeletedSubtrees
  <2>4. live' = live /\ tombs = {}
    BY <2>1, <2>3 DEF CoveredBySome, RerunFacts, RerunPlan
  <2> QED
    BY <1>5, <1>6, <1>7, <2>1, <2>3, <2>4 DEF RerunFacts, RerunSets, Before
<1>10. CASE LoadCached
  <2>1. /\ pc = "sets" /\ pc' = "rows" /\ UNCHANGED <<cache, live, tombs>> /\ sets' = cache /\ fromCache'
    BY <1>10 DEF LoadCached
  <2>2. RerunSets'
    BY <1>1, <1>3, <2>1 DEF RerunFacts, RerunSets, SettledRows, RerunPlan, Current
  <2> QED
    BY <1>5, <1>6, <1>7, <2>1, <2>2 DEF RerunFacts
<1>11. CASE LoadFresh
  <2>1. /\ pc = "sets" /\ pc' = "rows" /\ UNCHANGED <<cache, live, tombs>>
        /\ sets' = [root \in Roots |-> Listed(remote[root])]
    BY <1>11 DEF LoadFresh
  <2>2. tombs = {} /\ live = { path \in Paths \ {<<>>} : Visible(path) # 0 }
    BY <2>1 DEF RerunFacts, RerunPlan
  <2>3. \A root \in Roots, path \in Paths : sets'[root][path] = remote[root][path]
    BY <2>1, <2>2 DEF Listed
  <2>4. 0 \in Roots /\ Legacies \subseteq Roots /\ Files \subseteq Paths
    BY NumberFacts, PathFacts
  <2>5. \A path \in Paths : sets'[0][path] # 0 => Visible(path) # 0
    BY <2>3, <2>4 DEF RerunFacts, SettledDisk, Mirrored
  <2>6. \A file \in live \cap Files : IF file \in SizeOnly THEN sets'[0][file] # 0 ELSE sets'[0][file] = local[file]
    BY <2>2, <2>3, <2>4, SettledVisible DEF RerunFacts, SettledDisk, Mirrored
  <2>7. \A root \in Legacies, path \in Paths \ {<<>>} : sets'[root][path] = 0
    BY <2>3, <2>4 DEF RerunFacts, SettledDisk
  <2>8. RerunSets'
    BY <1>1, <1>3, <2>1, <2>5, <2>6, <2>7 DEF RerunSets, Current
  <2> QED
    BY <1>5, <1>6, <1>7, <2>1, <2>8 DEF RerunFacts
<1>12. CASE RecordRows
  <2>1. /\ pc = "rows" /\ pc' = "status" /\ UNCHANGED <<live, tombs, sets, fromCache>> /\ cache' = sets
    BY <1>12 DEF RecordRows
  <2>2. RerunSets /\ pc \notin Before /\ live = { path \in Paths \ {<<>>} : Visible(path) # 0 }
    BY <2>1 DEF RerunFacts, RerunPlan, Before
  <2>3. RerunSets'
    BY <1>1, <1>3, <2>1, <2>2 DEF RerunSets, Current
  <2>4. Files \subseteq Paths \ {<<>>}
    BY PathFacts
  <2>5. SettledRows'
    BY <1>1, <1>3, <2>1, <2>2, <2>4 DEF RerunFacts, RerunSets, SettledRows, Current
  <2> QED
    BY <1>5, <1>7, <2>1, <2>3, <2>5 DEF RerunFacts
<1>13. CASE RecordStatus
  <2>1. /\ pc = "status" /\ pc' = "top" /\ UNCHANGED <<live, tombs, sets, fromCache, cache>>
    BY <1>13 DEF RecordStatus
  <2>2. RerunSets'
    BY <1>1, <1>3, <2>1 DEF RerunFacts, RerunSets, Current, Before
  <2> QED
    BY <1>5, <1>6, <1>7, <2>1, <2>2 DEF RerunFacts
<1> QED
  BY <1>8, <1>9, <1>10, <1>11, <1>12, <1>13

\* What a settled run leaves is what its end keeps: the run's own variables are reset.
LEMMA IdleFacts ==
    ASSUME SettledDisk, SettledRows, UNCHANGED <<local, remote, record, cache>>, EndRun
    PROVE  RerunFacts'
<1>1. /\ pc' = "idle" /\ answer' = "none" /\ adopting' = {} /\ batch' = {} /\ deletes' = {} /\ task' = NoTasks
      /\ ~failed' /\ ~hard' /\ ~stopping' /\ ~cancelled'
  BY DEF EndRun
<1>2. \A path : Visible(path)' = Visible(path)
  BY DEF Visible
<1>3. \A path : Mirrored(path)' = Mirrored(path)
  BY <1>2 DEF Mirrored
<1>4. SettledDisk' /\ SettledRows'
  BY <1>2, <1>3 DEF SettledDisk, SettledRows, Current
<1>5. RerunFlags' /\ RerunPlan' /\ RerunSets'
  BY <1>1 DEF RerunFlags, RerunPlan, RerunSets, Before
<1>6. RerunWork'
  BY <1>1 DEF RerunWork, RerunAnswer, RerunFiles, NoTasks
<1> QED
  BY <1>4, <1>5, <1>6 DEF RerunFacts

\* The canonical place is taken, so no tree is moved into it; the directories are there;
\* no file is merged.
LEMMA RerunMoves ==
    ASSUME TypeInv, PhaseInv, PlanInv, DirsPlain, RerunFacts, \A kind : ~Fault(kind), MoveSteps
    PROVE  RerunFacts' /\ UNCHANGED <<local, remote>>
<1> USE DEF trees, database, rows, plan, inventory, queues, summary, budgets
<1>1. /\ ~cancelled /\ RerunWork /\ RerunAnswer /\ RerunFiles /\ 0 \in Roots /\ Dirs \subseteq Paths
      /\ Files \subseteq Paths \ {<<>>} /\ <<>> \in Paths /\ Dirs \cap Files = {}
      /\ sets \in [Roots -> Trees] /\ remote \in [Roots -> Trees]
  BY PathFacts, NumberFacts DEF RerunFacts, RerunFlags, RerunWork, TypeInv, SetsType, TreesType
<1>2. ASSUME NEW file \in live \cap Files, pc = "merge"
      PROVE  ~Merges(file)
  BY <1>2, RerunFile DEF Merges, Before
<1>3. ASSUME MergeReady
      PROVE  NextFile \in live \cap Files /\ pc = "merge"
  BY <1>3, NextFileType DEF MergeReady
<1>4. ASSUME pc = "dirs", todo # {}
      PROVE  /\ NextDir \in todo /\ NextDir \in Dirs /\ NextDir \in Wanted /\ Visible(NextDir) # 0
             /\ remote[0][NextDir] = 1 /\ (NextDir = <<>> \/ remote[0][Parent(NextDir)] # 0)
  <2>1. NextDir \in todo /\ NextDir \in Dirs /\ NextDir \in Wanted
    BY <1>1, <1>4, NextDirType DEF PhaseInv, RerunWork
  <2>2. Visible(NextDir) # 0
    BY <1>4, <2>1 DEF RerunFacts, RerunPlan, SettledDisk, Wanted
  <2>3. remote[0][NextDir] # 0
    BY <1>1, <2>1, <2>2 DEF RerunFacts, SettledDisk, Mirrored
  <2>4. remote[0][NextDir] = 1
    BY <1>1, <2>1, <2>3 DEF DirsPlain
  <2>5. NextDir = <<>> \/ remote[0][Parent(NextDir)] # 0
    BY <1>1, <2>1, <2>2, ParentThere DEF RerunFacts, PlanInv
  <2> QED
    BY <2>1, <2>2, <2>4, <2>5
<1>5. ASSUME UNCHANGED <<local, remote, cache, record, live, scanned, hashed, tombs, reported>>,
             UNCHANGED <<sets, fromCache, cancelled, hard, stopping, failed>>,
             pc \notin Before, RerunWork'
      PROVE  RerunFacts' /\ UNCHANGED <<local, remote>>
  BY <1>5, RerunKept DEF Before
<1>6. CASE NoTopMove
  <2>1. /\ pc = "top" /\ pc' = "dirs" /\ todo' \subseteq Wanted /\ answer = "none"
        /\ UNCHANGED <<live, adopting, batch, deletes, task, answer, hashed, bare, fromCache>>
    BY <1>1, <1>6 DEF NoTopMove, EnterDirs, Wanted
  <2>2. RerunWork'
    BY <1>1, <2>1 DEF RerunWork, RerunAnswer, RerunFiles, Wanted
  <2> QED
    BY <1>5, <1>6, <2>1, <2>2 DEF NoTopMove, Before
<1>7. CASE SendTopMove
  <2>1. pc = "top" /\ sets[0] = Empty /\ Request(CanMove(First(PresentLegacies), <<>>), Moved(First(PresentLegacies), <<>>))
    BY <1>7 DEF SendTopMove, TopMovePossible
  <2>2. NoFile
    <3> SUFFICES ASSUME NEW file \in Files, Visible(file) # 0 PROVE FALSE
      BY DEF NoFile
    <3>1. file \in live \cap Files
      BY <1>1, <2>1 DEF RerunFacts, RerunPlan
    <3>2. sets[0][file] # 0
      BY <2>1, <3>1, RerunFile DEF Before
    <3> QED
      BY <1>1, <2>1, <3>2 DEF Empty
  <2>3. remote[0][<<>>] # 0
    BY <1>1 DEF RerunFacts, SettledDisk, Mirrored
  <2>4. /\ answer' = "fail" /\ UNCHANGED remote
        /\ UNCHANGED <<local, database, pc, plan, tombs, inventory, queues, task, summary, cancelled, reported>>
    BY <2>1, <2>3 DEF Request, CanMove
  <2>5. NoFile'
    BY <2>2, <2>4 DEF NoFile, Visible
  <2>6. RerunWork'
    BY <1>1, <2>1, <2>4, <2>5 DEF RerunWork, RerunAnswer, RerunFiles
  <2> QED
    BY <1>5, <2>1, <2>4, <2>6 DEF Before
<1>8. CASE JoinTopMove
  <2>1. /\ pc = "top" /\ answer = "fail" /\ NoFile /\ answer' = "none" /\ EnterDirs(sets[0]) /\ MigrationFailure
        /\ UNCHANGED <<trees, database, plan, tombs, inventory, task, cancelled, reported>>
    BY <1>1, <1>8 DEF JoinTopMove, RerunAnswer
  <2>2. /\ pc' = "dirs" /\ todo' \subseteq Wanted /\ UNCHANGED <<adopting, batch, deletes>>
    BY <1>1, <2>1 DEF EnterDirs, Wanted
  <2>3. RerunWork'
    BY <1>1, <2>1, <2>2 DEF RerunWork, RerunAnswer, RerunFiles, Wanted
  <2>4. \A path : Visible(path)' = Visible(path)
    BY <2>1 DEF Visible
  <2>5. \A path : Mirrored(path)' = Mirrored(path)
    BY <2>1, <2>4 DEF Mirrored
  <2>6. RerunFlags'
    BY <2>1, <2>4 DEF RerunFacts, RerunFlags, NoFile, MigrationFailure
  <2>7. SettledDisk' /\ SettledRows'
    BY <2>1, <2>4, <2>5 DEF RerunFacts, SettledDisk, SettledRows, Current
  <2>8. RerunPlan' /\ RerunSets'
    BY <2>1, <2>2, <2>4 DEF RerunFacts, RerunPlan, RerunSets, Current, Before
  <2> QED
    BY <2>1, <2>3, <2>6, <2>7, <2>8 DEF RerunFacts
<1>9. CASE Relist
  BY <1>1, <1>9 DEF Relist, RerunWork
<1>10. CASE SendCreate
  <2>1. /\ pc = "dirs" /\ todo # {}
        /\ Request(NextDir = <<>> \/ remote[0][Parent(NextDir)] # 0, [remote EXCEPT ![0][NextDir] = 1])
    BY <1>10 DEF SendCreate
  <2>2. /\ answer' = "ok" /\ remote' = [remote EXCEPT ![0][NextDir] = 1]
        /\ UNCHANGED <<local, database, pc, plan, tombs, inventory, queues, task, summary, cancelled, reported>>
    BY <1>4, <2>1 DEF Request
  <2>3. remote' = remote
    BY <1>1, <1>4, <2>1, <2>2 DEF Trees
  <2>4. RerunWork'
    BY <1>1, <2>1, <2>2 DEF RerunWork, RerunAnswer, RerunFiles, Wanted
  <2> QED
    BY <1>5, <2>1, <2>2, <2>3, <2>4 DEF Before
<1>11. CASE JoinCreate
  <2>1. /\ pc = "dirs" /\ pc' = "dirs" /\ answer = "ok" /\ answer' = "none"
        /\ sets' = [sets EXCEPT ![0][NextDir] = 1] /\ todo' \subseteq todo
        /\ UNCHANGED <<trees, database, plan, tombs, bare, adopting, batch, deletes, task, summary, cancelled, reported>>
    BY <1>11 DEF JoinCreate
  <2>2. todo # {}
    BY <2>1 DEF PhaseInv
  <2>3. /\ \A path \in Paths : sets'[0][path] = IF path = NextDir THEN 1 ELSE sets[0][path]
        /\ \A root \in Roots \ {0} : sets'[root] = sets[root]
    BY <1>1, <1>4, <2>1, <2>2 DEF Trees
  <2>4. \A path : Visible(path)' = Visible(path)
    BY <2>1 DEF Visible
  <2>5. \A path : Mirrored(path)' = Mirrored(path)
    BY <2>1, <2>4 DEF Mirrored
  <2>6. RerunSets'
    <3>1. \A path \in Paths : sets'[0][path] # 0 => Visible(path) # 0
      BY <1>4, <2>1, <2>2, <2>3 DEF RerunFacts, RerunSets, Before
    <3>2. \A file \in live \cap Files : sets'[0][file] = sets[0][file]
      BY <1>1, <1>4, <2>1, <2>2, <2>3
    <3>3. \A root \in Legacies : sets'[root] = sets[root]
      BY <2>3, NumberFacts
    <3> QED
      BY <2>1, <2>4, <3>1, <3>2, <3>3 DEF RerunFacts, RerunSets, Current, Before
  <2>7. SettledDisk' /\ SettledRows' /\ RerunFlags' /\ RerunPlan'
    BY <2>1, <2>4, <2>5 DEF RerunFacts, SettledDisk, SettledRows, RerunFlags, NoFile, RerunPlan, Current
  <2>8. RerunWork'
    BY <1>1, <2>1 DEF RerunWork, RerunAnswer, RerunFiles, Wanted
  <2> QED
    BY <2>1, <2>6, <2>7, <2>8 DEF RerunFacts
<1>12. CASE CreateFails
  BY <1>1, <1>12 DEF CreateFails, RerunAnswer
<1>13. CASE MergeComparisonFails \/ SendMergeMove \/ JoinMergeMove
  BY <1>1, <1>2, <1>3, <1>13 DEF MergeComparisonFails, SendMergeMove, JoinMergeMove, RerunAnswer
<1>14. CASE EndDirs \/ MergeSkips \/ EndMerge
  <2>1. /\ answer = "none" /\ pc \in {"dirs", "merge"} /\ pc' \in {"merge", "adopt"}
        /\ UNCHANGED <<trees, database, plan, tombs, inventory, answer, adopting, batch, deletes, task>>
        /\ UNCHANGED <<summary, cancelled, reported>>
    BY <1>1, <1>14 DEF EndDirs, MergeSkips, EndMerge, MergeReady
  <2>2. RerunWork'
    BY <1>1, <2>1, RerunWorkKept
  <2> QED
    BY <1>5, <2>1, <2>2 DEF Before
<1> QED
  BY <1>6, <1>7, <1>8, <1>9, <1>10, <1>11, <1>12, <1>13, <1>14 DEF MoveSteps

\* Nothing of the canonical place is to be deleted, and of the legacy roots only what
\* old rows name.
LEMMA RerunDeletes ==
    ASSUME TypeInv, RerunFacts, pc \notin Before
    PROVE  \A d \in DeleteCandidates : d[1] # 0 /\ fromCache
<1>1. /\ tombs = {} /\ live = { path \in Paths \ {<<>>} : Visible(path) # 0 }
      /\ \A path \in Paths : sets[0][path] # 0 => Visible(path) # 0
  BY DEF RerunFacts, RerunPlan, RerunSets, Before
<1>2. live \subseteq KnownLive(live \cap Dirs, live \cap Files, tombs)
  BY <1>1 DEF KnownLive, CoveredBySome, Paths
<1>3. CoalescedDeletes(KnownLive(live \cap Dirs, live \cap Files, tombs), In(sets[0])) = {}
  BY <1>1, <1>2 DEF CoalescedDeletes, In, DeleteCandidate
<1>4. ~fromCache => \A root \in Legacies : LegacyDeletes(root) = {}
  BY DEF RerunFacts, RerunSets, LegacyDeletes, In
<1>5. 0 \notin Legacies
  BY NumberFacts
<1> QED
  BY <1>3, <1>4, <1>5 DEF DeleteCandidates

\* What old rows name has gone, and only the rows are removed.
LEMMA RerunDeleteSteps ==
    ASSUME TypeInv, PhaseInv, RerunFacts, \A kind : ~Fault(kind), DeleteSteps
    PROVE  RerunFacts' /\ UNCHANGED <<local, remote>>
<1> USE DEF trees, database, rows, plan, inventory, queues, summary, budgets
<1>1. /\ ~cancelled /\ RerunWork /\ RerunAnswer /\ RerunFiles /\ 0 \in Roots /\ cache \in [Roots -> Trees]
  BY NumberFacts DEF RerunFacts, RerunFlags, RerunWork, TypeInv, RowsType
<1>2. pc = "delete" /\ answer = "none"
  BY <1>1 DEF DeleteSteps, CheckDelete, SendDelete, JoinDelete, EndDeletes, DeleteReady, RerunAnswer
<1>3. ASSUME deletes # {}
      PROVE  /\ NextDelete[1] \in Legacies /\ NextDelete[2] \in Paths \ {<<>>} /\ fromCache
             /\ remote[NextDelete[1]][NextDelete[2]] = 0
  <2>1. /\ NextDelete \in deletes /\ NextDelete[1] \in Roots /\ NextDelete[2] \in Paths \ {<<>>}
    BY <1>3, NextDeleteFacts
  <2>2. NextDelete[1] # 0 /\ fromCache
    BY <1>1, <2>1 DEF RerunWork
  <2>3. NextDelete[1] \in Legacies
    BY <2>1, <2>2, TreesAssumption DEF Roots, Legacies
  <2> QED
    BY <2>1, <2>2, <2>3 DEF RerunFacts, SettledDisk
<1>4. CASE CheckDelete
  <2>1. /\ RowsWithout(NextDelete[1], NextDelete[2]) /\ deletes' \subseteq deletes /\ pc' = "delete" /\ deletes # {}
        /\ UNCHANGED <<trees, record, plan, tombs, inventory, adopting, batch, answer, task, summary, cancelled, reported>>
    BY <1>2, <1>4 DEF CheckDelete, DeleteReady
  <2>2. cache'[0] = cache[0]
    BY <1>1, <1>3, <2>1, NumberFacts DEF RowsWithout
  <2>3. \A path : Visible(path)' = Visible(path)
    BY <2>1 DEF Visible
  <2>4. \A path : Mirrored(path)' = Mirrored(path)
    BY <2>1, <2>3 DEF Mirrored
  <2>5. SettledDisk' /\ SettledRows' /\ RerunFlags'
    BY <2>1, <2>2, <2>3, <2>4 DEF RerunFacts, SettledDisk, SettledRows, RerunFlags, NoFile, Current
  <2>6. RerunPlan' /\ RerunSets'
    BY <1>2, <2>1, <2>3 DEF RerunFacts, RerunPlan, RerunSets, Current, Before
  <2>7. RerunWork'
    BY <1>1, <1>2, <2>1 DEF RerunWork, RerunAnswer, RerunFiles
  <2> QED
    BY <2>1, <2>5, <2>6, <2>7 DEF RerunFacts
<1>5. CASE SendDelete
  BY <1>3, <1>5 DEF SendDelete, DeleteReady
<1>6. CASE JoinDelete
  BY <1>2, <1>6 DEF JoinDelete
<1>7. CASE EndDeletes
  <2>1. /\ pc' = "finish" /\ adopting' = {} /\ batch' = {} /\ deletes' = {}
        /\ UNCHANGED <<trees, database, plan, tombs, inventory, answer, task, summary, cancelled, reported>>
    BY <1>7 DEF EndDeletes, Finish
  <2>2. RerunWork'
    BY <1>1, <1>2, <2>1 DEF RerunWork, RerunAnswer, RerunFiles
  <2> QED
    BY <1>2, <2>1, <2>2, RerunKept DEF Before
<1> QED
  BY <1>4, <1>5, <1>6, <1>7 DEF DeleteSteps

\* A file of the plan differs from what the inventory says only if it has no md5.
LEMMA RerunComparison ==
    ASSUME TypeInv, PlanInv, RerunFacts, pc \notin Before, NEW file \in live \cap Files
    PROVE  \/ Comparison(0, file) = "matches" /\ (file \in SizeOnly \cup hashed \/ <<0, file>> \in bare)
           \/ Comparison(0, file) = "differs" /\ file \notin SizeOnly \cup hashed
<1>1. /\ Visible(file) # 0 /\ Visible(file) = local[file] /\ scanned[file] = local[file]
      /\ remote[0][file] # 0 /\ (file \notin SizeOnly => remote[0][file] = local[file])
      /\ Current(sets[0], file)
  BY RerunFile DEF Before
<1>2. CASE file \in SizeOnly
  BY <1>2 DEF Comparison
<1>3. CASE file \notin SizeOnly
  <2>1. SameSize(0, file) /\ sets[0][file] = scanned[file]
    BY <1>1, <1>3 DEF SameSize, Current
  <2>2. ~Unreadable(0, file) /\ remote[0][file] = Visible(file)
    BY <1>1, <1>3 DEF Unreadable
  <2> QED
    BY <1>3, <2>1, <2>2 DEF Comparison
<1> QED
  BY <1>2, <1>3

\* Writing the adoptions down keeps the tables what they are.
LEMMA RerunFlush ==
    ASSUME TypeInv, PhaseInv, PlanInv, RerunFacts, pc = "adopt", Flush, record' = FlushedRecords,
           UNCHANGED <<trees, plan, tombs, summary, cancelled, reported>>
    PROVE  SettledDisk' /\ SettledRows' /\ RerunFlags' /\ RerunPlan' /\ RerunSets'
<1> USE DEF trees, plan, inventory, summary
<1>1. adopting \subseteq live \cap Files /\ Files \subseteq Paths
  BY PathFacts DEF PhaseInv, TypeInv, QueuesType
<1>2. /\ \A path \in Paths : cache'[0][path] = IF path \in adopting THEN sets[0][path] ELSE cache[0][path]
      /\ UNCHANGED <<sets, bare>>
  BY <1>1, UpsertFacts DEF Flush
<1>3. \A path : Visible(path)' = Visible(path)
  BY DEF Visible
<1>4. \A path : Mirrored(path)' = Mirrored(path)
  BY <1>3 DEF Mirrored
<1>5. /\ \A path \in Paths : sets[0][path] # 0 => Visible(path) # 0
      /\ \A file \in live \cap Files : Current(sets[0], file) /\ scanned[file] = local[file]
  BY DEF RerunFacts, RerunSets, RerunPlan, Before
<1>6. \A file \in Files : /\ file \in adopting => record'[file].version = scanned[file]
                          /\ file \notin adopting => record'[file] = record[file]
  BY DEF FlushedRecords, FileStateRecord
<1>11. ASSUME NEW file \in adopting, <<0, file>> \in bare
       PROVE  ~record'[file].md5
  <2>1. record'[file] = FileStateRecord(file, "synced", FALSE)
    BY <1>1, <1>11 DEF FlushedRecords
  <2> QED
    BY <2>1 DEF FileStateRecord
<1>7. SettledDisk' /\ RerunFlags'
  BY <1>3, <1>4 DEF RerunFacts, SettledDisk, RerunFlags, NoFile
<1>8. SettledRows'
  <2>1. \A path \in Paths : cache'[0][path] # 0 => Visible(path) # 0
    BY <1>2, <1>5 DEF RerunFacts, SettledRows
  <2>2. ASSUME NEW file \in Files, Visible(file) # 0
        PROVE  /\ record'[file].version = local[file]
               /\ IF file \in SizeOnly THEN cache'[0][file] # 0 ELSE cache'[0][file] = local[file]
    <3>1. CASE file \in adopting
      <4>1. Current(sets[0], file) /\ scanned[file] = local[file]
        BY <1>1, <1>5, <3>1, Zenon
      <4>3. record'[file].version = scanned[file]
        BY <1>6, <2>2, <3>1
      <4>2. cache'[0][file] = sets[0][file]
        BY <1>1, <1>2, <3>1
      <4> QED
        BY <4>1, <4>2, <4>3 DEF Current
    <3>2. CASE file \notin adopting
      BY <1>1, <1>2, <1>6, <2>2, <3>2 DEF RerunFacts, SettledRows, Current
    <3> QED
      BY <3>1, <3>2
  <2> QED
    BY <1>3, <2>1, <2>2 DEF SettledRows, Current
<1>9. RerunPlan'
  <2>1. \A file \in adopting : file \in SizeOnly \cup hashed \/ <<0, file>> \in bare
    BY DEF RerunFacts, RerunWork, RerunFiles
  <2>2. \A file \in live \cap Files : file \in SizeOnly \cup hashed \/ ~record'[file].md5
    <3> SUFFICES ASSUME NEW file \in live \cap Files, file \notin SizeOnly \cup hashed PROVE ~record'[file].md5
      OBVIOUS
    <3>1. CASE file \in adopting
      BY <1>11, <2>1, <3>1
    <3>2. CASE file \notin adopting
      BY <1>6, <3>2 DEF RerunFacts, RerunPlan
    <3> QED
      BY <3>1, <3>2
  <2> QED
    BY <1>3, <2>2 DEF RerunFacts, RerunPlan
<1>10. RerunSets'
  BY <1>2, <1>3 DEF RerunFacts, RerunSets, Current, Before
<1> QED
  BY <1>7, <1>8, <1>9, <1>10

\* The files match, or they are uploaded as they are.
LEMMA RerunUploads ==
    ASSUME TypeInv, PhaseInv, PlanInv, RerunFacts, \A kind : ~Fault(kind), UploadSteps
    PROVE  RerunFacts' /\ UNCHANGED <<local, remote>>
<1> USE DEF trees, database, rows, plan, inventory, queues, summary, budgets
<1>1. /\ ~cancelled /\ ~stopping /\ RerunWork /\ RerunAnswer /\ RerunFiles /\ 0 \in Roots /\ Files \subseteq Paths \ {<<>>}
      /\ sets \in [Roots -> Trees] /\ remote \in [Roots -> Trees]
  BY PathFacts, NumberFacts DEF RerunFacts, RerunFlags, RerunWork, TypeInv, SetsType, TreesType
<1>2. ASSUME pc \in {"adopt", "upload"}
      PROVE  answer = "none" /\ pc \notin Before
  BY <1>1, <1>2 DEF RerunAnswer, Before
<1>3. ASSUME AdoptReady
      PROVE  NextFile \in live \cap Files /\ pc = "adopt"
  BY <1>3, NextFileType DEF AdoptReady
<1>4. ASSUME UNCHANGED <<local, remote, cache, record, live, scanned, hashed, tombs, reported>>,
             UNCHANGED <<sets, fromCache, cancelled, hard, stopping, failed>>,
             pc \notin Before, RerunWork'
      PROVE  RerunFacts' /\ UNCHANGED <<local, remote>>
  BY <1>4, RerunKept DEF Before
<1>5. ASSUME EnterDeletes, pc \notin Before, UNCHANGED <<answer, task, bare, hashed, live, fromCache>>, answer = "none",
             adopting' = {}, \A file \in batch' : file \in batch
      PROVE  RerunWork'
  <2>1. pc' = "delete" /\ deletes' = DeleteCandidates
    BY <1>1, <1>5 DEF EnterDeletes
  <2>2. \A d \in DeleteCandidates : d[1] # 0 /\ fromCache
    BY <1>5, RerunDeletes
  <2> QED
    BY <1>1, <1>5, <2>1, <2>2 DEF RerunWork, RerunAnswer, RerunFiles
<1>6. CASE AdoptSkips
  <2>1. /\ pc = "adopt" /\ pc' = "adopt"
        /\ UNCHANGED <<trees, database, plan, tombs, inventory, answer, adopting, batch, deletes, task>>
        /\ UNCHANGED <<summary, cancelled, reported>>
    BY <1>6 DEF AdoptSkips, AdoptReady
  <2>2. RerunWork'
    BY <1>1, <1>2, <2>1, RerunWorkKept
  <2> QED
    BY <1>2, <1>4, <2>1, <2>2
<1>7. CASE AdoptFindsGone \/ AdoptComparisonFails
  <2>1. NextFile \in live \cap Files /\ pc = "adopt"
    BY <1>3, <1>7 DEF AdoptFindsGone, AdoptComparisonFails
  <2>2. Visible(NextFile) # 0 /\ Comparison(0, NextFile) # "failed"
    BY <1>2, <2>1, RerunFile, RerunComparison
  <2> QED
    BY <1>7, <2>2 DEF AdoptFindsGone, AdoptComparisonFails
<1>8. CASE Adopt
  <2>1. NextFile \in live \cap Files /\ pc = "adopt"
    BY <1>3, <1>8 DEF Adopt
  <2>2. NextFile \in SizeOnly \cup hashed \/ <<0, NextFile>> \in bare
    BY <1>2, <1>8, <2>1, RerunComparison DEF Adopt
  <2>3. /\ pc' = "adopt" /\ adopting' = adopting \cup {NextFile}
        /\ UNCHANGED <<trees, database, plan, tombs, inventory, answer, batch, deletes, task, summary, cancelled, reported>>
    BY <2>1, <1>8 DEF Adopt
  <2>4. RerunWork'
    BY <1>1, <1>2, <2>1, <2>2, <2>3 DEF RerunWork, RerunAnswer, RerunFiles
  <2> QED
    BY <1>2, <1>4, <2>1, <2>3, <2>4
<1>9. CASE QueueUpload
  <2>1. NextFile \in live \cap Files /\ pc = "adopt"
    BY <1>3, <1>9 DEF QueueUpload
  <2>2. NextFile \notin SizeOnly \cup hashed
    <3>1. sets[0][NextFile] # 0
      BY <1>2, <2>1, RerunFile
    <3>2. Comparison(0, NextFile) = "differs"
      BY <1>9, <3>1 DEF QueueUpload, MustUpload
    <3> QED
      BY <1>2, <2>1, <3>2, RerunComparison
  <2>3. /\ Flush /\ record' = FlushedRecords /\ batch' = batch \cup {NextFile} /\ pc' \in {"adopt", "upload"}
        /\ UNCHANGED <<trees, plan, tombs, inventory, answer, deletes, task, summary, cancelled, reported>>
    BY <1>9 DEF QueueUpload
  <2>4. RerunWork'
    BY <1>1, <1>2, <2>1, <2>2, <2>3 DEF RerunWork, RerunAnswer, RerunFiles, Flush
  <2> QED
    BY <2>1, <2>3, <2>4, RerunFlush DEF RerunFacts
<1>10. CASE EndAdopt
  <2>1. /\ pc = "adopt" /\ Flush /\ record' = FlushedRecords /\ adopting' = {}
        /\ UNCHANGED <<trees, plan, tombs, inventory, answer, task, summary, cancelled, reported>>
    BY <1>10 DEF EndAdopt, Flush
  <2>2. RerunWork'
    <3>1. CASE pc' = "upload" /\ UNCHANGED <<todo, batch, deletes>>
      BY <1>1, <1>2, <2>1, <3>1 DEF RerunWork, RerunAnswer, RerunFiles
    <3>2. CASE EnterDeletes
      <4>1. \A file \in batch' : file \in batch
        BY <1>1, <3>2 DEF EnterDeletes
      <4> QED
        BY <1>2, <1>5, <2>1, <3>2, <4>1
    <3> QED
      BY <1>10, <3>1, <3>2 DEF EndAdopt
  <2> QED
    BY <2>1, <2>2, RerunFlush DEF RerunFacts
<1>11. CASE StartUploads
  <2>1. /\ pc = "upload" /\ pc' = "upload" /\ batch' \subseteq batch
        /\ UNCHANGED <<trees, database, plan, inventory, todo, adopting, deletes, answer, summary, cancelled, reported>>
    BY <1>11 DEF StartUploads
  <2>2. Scheduled \subseteq batch /\ batch \subseteq live \cap Files
    BY ScheduledType DEF PhaseInv, TypeInv, QueuesType
  <2>3. \A file \in Scheduled : ~NewlyGone(file)
    BY <2>1, <2>2, RerunFile
  <2>4. /\ tombs' = TombsWith({})
        /\ \A file \in Files : task'[file] \in {"none", "queued"} /\ (task'[file] # "none" => file \in Scheduled)
    BY <1>11, <2>3 DEF StartUploads
  <2>5. tombs = {} /\ tombs' = {}
    <3>1. tombs = {}
      BY <2>1 DEF RerunFacts, RerunPlan
    <3> QED
      BY <2>4, <3>1 DEF TombsWith, AddDeletedSubtrees
  <2>6. RerunWork'
    BY <1>1, <1>2, <2>1, <2>2, <2>4 DEF RerunWork, RerunAnswer, RerunFiles
  <2> QED
    BY <1>2, <1>4, <2>1, <2>5, <2>6
<1>12. CASE EndUploads
  <2>1. /\ pc = "upload" /\ batch = {} /\ adopting = {}
        /\ UNCHANGED <<trees, database, plan, tombs, inventory, answer, task, summary, cancelled, reported>>
        /\ \/ pc' = "adopt" /\ UNCHANGED <<adopting, batch, deletes>>
           \/ EnterDeletes /\ UNCHANGED adopting
    BY <1>1, <1>12 DEF EndUploads, PhaseInv
  <2>2. RerunWork'
    <3>1. CASE pc' = "adopt" /\ UNCHANGED <<adopting, batch, deletes>>
      BY <1>1, <1>2, <2>1, <3>1, RerunWorkKept
    <3>2. CASE EnterDeletes /\ UNCHANGED adopting
      <4>1. \A file \in batch' : file \in batch
        BY <1>1, <3>2 DEF EnterDeletes
      <4> QED
        BY <1>2, <1>5, <2>1, <3>2, <4>1
    <3> QED
      BY <2>1, <3>1, <3>2
  <2> QED
    BY <1>2, <1>4, <2>1, <2>2
<1>13. ASSUME NEW file \in Files, Upload(file)
       PROVE  RerunFacts' /\ UNCHANGED <<local, remote>>
  <2>1. task[file] = "queued" /\ pc = "upload" /\ file \in live \cap Files /\ file \notin SizeOnly
    BY <1>1, <1>13 DEF Upload, PhaseInv, RerunFiles
  <2>2. Visible(file) # 0 /\ remote[0][Parent(file)] # 0 /\ remote[0][file] = Visible(file)
    BY <2>1, RerunFile
  <2>3. /\ task' = [task EXCEPT ![file] = "ok"] /\ remote' = Uploaded(file)
        /\ UNCHANGED <<local, database, pc, plan, tombs, inventory, queues, answer, summary, cancelled, reported>>
    BY <1>1, <1>13, <2>2 DEF Upload, Answered
  <2>4. remote' = remote
    BY <1>1, <2>2, <2>3 DEF Uploaded, Trees
  <2>5. RerunWork'
    BY <1>1, <1>2, <2>1, <2>3 DEF RerunWork, RerunAnswer, RerunFiles, TypeInv, AnswersType
  <2> QED
    BY <1>2, <1>4, <2>1, <2>3, <2>4, <2>5
<1>14. ASSUME NEW file \in Files, JoinUpload(file)
       PROVE  RerunFacts' /\ UNCHANGED <<local, remote>>
  <2>1. task[file] = "ok" /\ pc = "upload" /\ file \in live \cap Files /\ file \notin SizeOnly \cup hashed
    BY <1>1, <1>14 DEF JoinUpload, PhaseInv, RerunFiles
  <2>2. /\ task' = [task EXCEPT ![file] = "none"] /\ sets' = [sets EXCEPT ![0][file] = scanned[file]]
        /\ record' = FileState(record, file, StatusAfterUpload(file), file \in hashed)
        /\ bare' = bare \cup {<<0, file>>} /\ UpsertRows({file})
        /\ UNCHANGED <<trees, pc, plan, tombs, queues, answer, summary, cancelled, reported>>
    BY <1>14, <2>1 DEF JoinUpload, Answered
  <2>3. Visible(file) # 0 /\ scanned[file] = local[file]
    BY <2>1, RerunFile
  <2>4. \A path : Visible(path)' = Visible(path)
    BY <2>2 DEF Visible
  <2>5. \A path : Mirrored(path)' = Mirrored(path)
    BY <2>2, <2>4 DEF Mirrored
  <2>6. /\ \A path \in Paths : sets'[0][path] = IF path = file THEN scanned[file] ELSE sets[0][path]
        /\ \A root \in Legacies : sets'[root] = sets[root]
    BY <1>1, <2>1, <2>2, NumberFacts DEF Trees
  <2>7. \A path \in Paths : cache'[0][path] = IF path = file THEN scanned[file] ELSE cache[0][path]
    BY <2>2, <2>6, UpsertFacts
  <2>8. /\ record'[file].version = scanned[file] /\ ~record'[file].md5
        /\ \A other \in Files \ {file} : record'[other] = record[other]
    <3>1. record' = [record EXCEPT ![file] = FileStateRecord(file, StatusAfterUpload(file), FALSE)]
      <4>1. (file \in hashed) = FALSE
        BY <2>1
      <4> QED
        BY <2>2, <4>1, Zenon DEF FileState
    <3>2. record'[file] = FileStateRecord(file, StatusAfterUpload(file), FALSE)
      BY <3>1 DEF TypeInv, RecordType
    <3>3. \A other \in Files \ {file} : record'[other] = record[other]
      BY <3>1 DEF TypeInv, RecordType
    <3> QED
      BY <3>2, <3>3 DEF FileStateRecord
  <2>9. SettledDisk' /\ RerunFlags'
    BY <2>2, <2>4, <2>5 DEF RerunFacts, SettledDisk, RerunFlags, NoFile
  <2>10. SettledRows'
    <3>1. \A path \in Paths : cache'[0][path] # 0 => Visible(path) # 0
      BY <2>3, <2>7 DEF RerunFacts, SettledRows
    <3>2. ASSUME NEW other \in Files, Visible(other) # 0
          PROVE  /\ record'[other].version = local[other]
                 /\ IF other \in SizeOnly THEN cache'[0][other] # 0 ELSE cache'[0][other] = local[other]
      <4>1. CASE other = file
        BY <1>1, <2>1, <2>3, <2>7, <2>8, <4>1
      <4>2. CASE other # file
        BY <1>1, <2>7, <2>8, <3>2, <4>2 DEF RerunFacts, SettledRows, Current
      <4> QED
        BY <4>1, <4>2
    <3> QED
      BY <2>2, <2>4, <3>1, <3>2 DEF SettledRows, Current
  <2>11. RerunPlan'
    BY <2>2, <2>4, <2>8 DEF RerunFacts, RerunPlan
  <2>12. RerunSets'
    BY <1>1, <2>1, <2>2, <2>3, <2>4, <2>6 DEF RerunFacts, RerunSets, Current, Before
  <2>13. RerunWork'
    BY <1>1, <1>2, <2>1, <2>2 DEF RerunWork, RerunAnswer, RerunFiles, TypeInv, AnswersType
  <2> QED
    BY <2>2, <2>9, <2>10, <2>11, <2>12, <2>13 DEF RerunFacts
<1> QED
  BY <1>6, <1>7, <1>8, <1>9, <1>10, <1>11, <1>12, <1>13, <1>14 DEF UploadSteps

\* Nothing becomes settled but by the end of a run, nor stays so when a fault is counted.
LEMMA SettledCounts ==
    ASSUME [Next]_vars, settled'
    PROVE  faults' = faults /\ (settled \/ FinishRun)
<1> USE DEF trees, database, rows, plan, inventory, queues, summary, budgets
<1>1. \A kind : ~Fault(kind)
  BY DEF Fault
<1>2. ASSUME UNCHANGED <<settled, faults>>
      PROVE  faults' = faults /\ (settled \/ FinishRun)
  BY <1>2
<1>3. ASSUME NEW possible, NEW effect, Request(possible, effect)
      PROVE  UNCHANGED <<settled, faults>>
  BY <1>1, <1>3 DEF Request
<1>4. CASE StartRun \/ RecordMissingRoot \/ FinishRun \/ ScanSteps \/ UNCHANGED vars
  BY <1>1, <1>4 DEF StartRun, RecordMissingRoot, FinishRun, ScanSteps, Scan, BuildLivePlan, LoadCached, LoadFresh,
     RecordRows, RecordStatus, vars
<1>5. CASE MoveSteps
  BY <1>1, <1>2, <1>3, <1>5 DEF MoveSteps, NoTopMove, SendTopMove, JoinTopMove, Relist, SendCreate, JoinCreate,
     CreateFails, EndDirs, MergeSkips, MergeComparisonFails, SendMergeMove, JoinMergeMove, EndMerge
<1>6. CASE UploadSteps
  BY <1>1, <1>2, <1>6 DEF UploadSteps, AdoptSkips, AdoptFindsGone, Adopt, AdoptComparisonFails, QueueUpload, EndAdopt,
     StartUploads, EndUploads, Upload, JoinUpload
<1>7. CASE DeleteSteps
  BY <1>1, <1>2, <1>3, <1>7 DEF DeleteSteps, CheckDelete, SendDelete, JoinDelete, EndDeletes
<1>8. CASE FaultSteps \/ EditSteps
  BY <1>1, <1>2, <1>8 DEF FaultSteps, EditSteps, CollisionFails, QuotaExceeded, Cancel, Unmount, Mount, LoadFails,
     ParentOrListingFails, Interrupted, ListingNotFound, RemoveRemote, WriteLocal, RemoveLocal, Edit
<1> QED
  BY <1>4, <1>5, <1>6, <1>7, <1>8 DEF Next, EngineSteps

\* A run that is at its end ends, unless something interferes.
LEMMA OnlyTheEnd ==
    ASSUME PhaseInv, Next, pc = "finish", \A kind : ~Fault(kind), local[<<>>] # 0
    PROVE  FinishRun
<1> USE DEF trees, database, rows, plan, inventory, queues, summary, budgets
<1>1. \A file \in Files : task[file] = "none"
  BY DEF PhaseInv
<1>2. ~StartRun /\ ~RecordMissingRoot /\ ~ScanSteps
  BY DEF StartRun, RecordMissingRoot, ScanSteps, Scan, BuildLivePlan, LoadCached, LoadFresh, RecordRows, RecordStatus
<1>3. ~MoveSteps /\ ~DeleteSteps
  BY DEF MoveSteps, NoTopMove, SendTopMove, JoinTopMove, Relist, SendCreate, JoinCreate, CreateFails, EndDirs, MergeSkips,
     MergeComparisonFails, SendMergeMove, JoinMergeMove, EndMerge, MergeReady, DeleteSteps, CheckDelete, SendDelete,
     JoinDelete, EndDeletes, DeleteReady
<1>4. ~UploadSteps
  BY <1>1 DEF UploadSteps, AdoptSkips, AdoptFindsGone, Adopt, AdoptComparisonFails, QueueUpload, EndAdopt, AdoptReady,
     StartUploads, EndUploads, Upload, JoinUpload
<1>5. ~FaultSteps /\ ~EditSteps
  BY DEF FaultSteps, EditSteps, CollisionFails, QuotaExceeded, Cancel, Unmount, Mount, LoadFails,
     ParentOrListingFails, Interrupted, ListingNotFound, RemoveRemote, WriteLocal, RemoveLocal, Edit
<1> QED
  BY <1>2, <1>3, <1>4, <1>5 DEF Next, EngineSteps

\* Only what has waited in the batch is uploaded.
LEMMA QueuedFromBatch ==
    ASSUME TypeInv, Next, NEW file \in Files, task'[file] = "queued"
    PROVE  task[file] = "queued" \/ file \in batch
<1> USE DEF trees, database, rows, plan, inventory, queues, summary, budgets
<1>1. CASE UNCHANGED task
  BY <1>1
<1>2. ~EndRun
  BY DEF EndRun, NoTasks
<1>3. CASE StartUploads
  BY <1>3, ScheduledType DEF StartUploads
<1>4. ASSUME NEW other \in Files, NEW result \in Answers \ {"queued"}, Answered(other, result)
      PROVE  task[file] = "queued"
  BY <1>4 DEF Answered, TypeInv, AnswersType
<1>5. ASSUME NEW other \in Files, Upload(other) \/ JoinUpload(other)
      PROVE  task[file] = "queued"
  BY <1>4, <1>5 DEF Upload, JoinUpload, Answers
<1>6. CASE StartRun \/ RecordMissingRoot \/ FinishRun \/ ScanSteps
  BY <1>1, <1>2, <1>6 DEF StartRun, RecordMissingRoot, FinishRun, ScanSteps, Scan, BuildLivePlan, LoadCached, LoadFresh,
     RecordRows, RecordStatus
<1>7. CASE MoveSteps
  BY <1>1, <1>2, <1>7 DEF MoveSteps, NoTopMove, SendTopMove, JoinTopMove, Relist, SendCreate, JoinCreate, Request,
     CreateFails, RunFails, EndDirs, MergeSkips, MergeComparisonFails, SendMergeMove, JoinMergeMove, EndMerge
<1>8. CASE UploadSteps
  BY <1>1, <1>3, <1>5, <1>8 DEF UploadSteps, AdoptSkips, AdoptFindsGone, Adopt, AdoptComparisonFails, QueueUpload, EndAdopt,
     EndUploads
<1>9. CASE DeleteSteps
  BY <1>1, <1>9 DEF DeleteSteps, CheckDelete, SendDelete, JoinDelete, EndDeletes, Request
<1>10. CASE FaultSteps \/ EditSteps
  BY <1>1, <1>2, <1>10 DEF FaultSteps, EditSteps, CollisionFails, QuotaExceeded, Cancel, Unmount, Mount, LoadFails,
     ParentOrListingFails, RunFails, Interrupted, ListingNotFound, RemoveRemote, WriteLocal, RemoveLocal, Edit
<1> QED
  BY <1>6, <1>7, <1>8, <1>9, <1>10 DEF Next, EngineSteps

\* Nothing is settled at first.
LEMMA InitRerun == Init => DirsPlain /\ RowsFollow /\ RerunInv
<1> SUFFICES ASSUME Init PROVE DirsPlain /\ RowsFollow /\ RerunInv
  OBVIOUS
<1>1. pc = "idle" /\ ~settled /\ \A root \in Roots : remote[root] \in Starts[root]
  BY DEF Init
<1>2. DirsPlain
  BY <1>1, TreesAssumption DEF DirsPlain
<1> QED
  BY <1>1, <1>2 DEF RowsFollow, Following, TopAsked, Recorded, RerunInv

\* Whatever a rerun does without meeting a fault, it keeps what it found.
LEMMA RerunStep ==
    ASSUME TypeInv, PhaseInv, PlanInv, DirsPlain, RerunFacts, [Next]_vars, faults' = faults
    PROVE  RerunFacts' /\ UNCHANGED <<local, remote>>
<1> USE DEF trees, database, rows, plan, inventory, queues, summary, budgets
<1>1. \A kind : ~Fault(kind)
  BY NoFaultMet
<1>2. Visible(<<>>) # 0 /\ local[<<>>] # 0
  BY SettledVisible, PathFacts DEF RerunFacts, SettledDisk
<1>3. CASE UNCHANGED vars
  <2>1. RerunWork'
    <3>1. \A path : Visible(path)' = Visible(path)
      BY <1>3 DEF vars, Visible
    <3> QED
      BY <1>3, <3>1 DEF vars, RerunFacts, RerunWork, RerunAnswer, RerunFiles, NoFile, Wanted
  <2> QED
    BY <1>3, <2>1, RerunKept DEF vars
<1>4. CASE StartRun \/ BuildLivePlan \/ LoadCached \/ LoadFresh \/ RecordRows \/ RecordStatus
  <2>1. UNCHANGED <<local, remote>>
    BY <1>4 DEF StartRun, BuildLivePlan, LoadCached, LoadFresh, RecordRows, RecordStatus
  <2> QED
    BY <1>1, <1>4, <2>1, RerunInventory
<1>5. ASSUME NEW unreadable \in SUBSET LocalDirs, NEW busy \in SUBSET Files, Scan(unreadable, busy)
      PROVE  RerunFacts' /\ UNCHANGED <<local, remote>>
  <2>1. UNCHANGED <<local, remote>>
    BY <1>5 DEF Scan
  <2> QED
    BY <1>1, <1>5, <2>1, RerunScan
<1>6. CASE FinishRun
  <2>1. EndRun /\ UNCHANGED <<local, remote, record, cache>>
    BY <1>6 DEF FinishRun
  <2> QED
    BY <2>1, IdleFacts DEF RerunFacts
<1>7. CASE MoveSteps
  BY <1>1, <1>7, RerunMoves
<1>8. CASE UploadSteps
  BY <1>1, <1>8, RerunUploads
<1>9. CASE DeleteSteps
  BY <1>1, <1>9, RerunDeleteSteps
<1>10. ~RecordMissingRoot /\ ~Mount
  BY <1>2 DEF RecordMissingRoot, Mount
<1>11. ~FaultSteps /\ ~EditSteps
  BY <1>1, <1>10 DEF FaultSteps, EditSteps, CollisionFails, QuotaExceeded, Cancel, Unmount, LoadFails,
     ParentOrListingFails, Interrupted, ListingNotFound, RemoveRemote, WriteLocal, RemoveLocal, Edit
<1> QED
  BY <1>3, <1>4, <1>5, <1>6, <1>7, <1>8, <1>9, <1>10, <1>11 DEF Next, EngineSteps, ScanSteps

\* A run that settles leaves what the next one needs.
LEMMA RunSettles ==
    ASSUME TypeInv, PhaseInv, PlanInv, PlacedInv, CalmInv, HandInv, RowsInv, RowsFollow, FinishRun,
           ~settled, settled'
    PROVE  RerunFacts'
<1>1. outcome' = "succeeded" /\ reported = {} /\ ~fromCache /\ touched = {}
  BY DEF FinishRun
<1>2. /\ Smooth /\ Handed /\ pc = "finish"
      /\ \A file \in Files : Visible(file) # 0 => file \in live \cap Files /\ ~Waiting(file)
  BY <1>1, FinishHand DEF FinishRun
<1>3. ~failed /\ ~cancelled
  BY <1>2 DEF Smooth
<1>4. SettledDisk
  <2>1. Visible(<<>>) # 0
    BY <1>1, <1>2, <1>3 DEF CalmInv
  <2> QED
    BY <1>1, <1>2, <2>1 DEF Handed, In, SettledDisk
<1>5. SettledRows
  <2>1. \A path \in Paths : cache[0][path] # 0 => Visible(path) # 0
    BY <1>2, <1>4 DEF Handed, In, SettledDisk, Mirrored
  <2>2. ASSUME NEW file \in Files, Visible(file) # 0
        PROVE  record[file].version = local[file] /\ Current(cache[0], file)
    <3>1. record[file].version = local[file] /\ cache[0][file] # 0
      BY <1>1, <1>2, <2>2 DEF Handed, RowsInv, RowsMade
    <3>2. sets[0][file] = cache[0][file]
      BY <1>2, <1>3, <2>2, <3>1 DEF RowsFollow, Following, Recorded
    <3>3. file \in Paths /\ Visible(file) = local[file] /\ ~Excused(file) /\ task[file] = "none"
      BY <1>1, <1>2, <1>4, <2>2, SettledVisible, PathFacts DEF Excused, PhaseInv
    <3>4. remote[0][file] = sets[0][file]
      BY <1>1, <2>2, <3>1, <3>2, <3>3 DEF PlacedInv, CanonicalListed
    <3>5. file \notin SizeOnly => remote[0][file] = local[file]
      BY <1>4, <2>2, <3>3 DEF SettledDisk, Mirrored
    <3> QED
      BY <3>1, <3>2, <3>4, <3>5 DEF Current
  <2> QED
    BY <2>1, <2>2 DEF SettledRows
<1>6. EndRun /\ UNCHANGED <<local, remote, record, cache>>
  BY DEF FinishRun, trees, database, rows
<1> QED
  BY <1>4, <1>5, <1>6, IdleFacts

\* The invariant of the reruns.
LEMMA NextRerun ==
    ASSUME TypeInv, PhaseInv, PlanInv, PlacedInv, CalmInv, HandInv, RowsInv, DirsPlain, RowsFollow, RerunInv, [Next]_vars
    PROVE  RerunInv'
<1> SUFFICES ASSUME settled' PROVE RerunFacts'
  BY DEF RerunInv
<1> USE DEF trees, database, rows, plan, inventory, queues, summary, budgets
<1>1. \A kind : ~Fault(kind)
  BY DEF Fault
<1>2. CASE settled
  <2>1. faults' = faults
    BY <1>1, SettledCounts
  <2> QED
    BY <1>2, <2>1, RerunStep DEF RerunInv
<1>3. CASE ~settled
  <2>1. FinishRun
    BY <1>1, <1>3, SettledCounts
  <2> QED
    BY <1>3, <2>1, RunSettles
<1> QED
  BY <1>2, <1>3

\* docs/migration.md: the run after a migration that succeeded is a no-op.  As long as
\* nobody interferes and nothing fails, it changes nothing on the disk, although it may
\* go by rows from before the moves; it succeeds if there is a file; and it uploads no
\* file of whose copy the md5 is known.  The hypotheses are those of SuccessIsAHandOver:
\* without the row of a file, the next run would upload it again.
THEOREM RerunChangesNothing ==
    ASSUME \A path \in Paths \ {<<>>} : DeleteCandidate(path)
    PROVE  Spec /\ []NoCopyComesBack => RerunIsNoOp
<1> DEFINE Inv == /\ TypeInv /\ PhaseInv /\ PlanInv /\ PlacedInv /\ CalmInv /\ HandInv /\ RowsInv
                  /\ DirsPlain /\ RowsFollow /\ RerunInv
           NoOp == settled /\ faults' = faults =>
                       /\ remote' = remote
                       /\ pc = "finish" /\ (\E file \in Files : Visible(file) # 0) => outcome' = "succeeded"
                       /\ \A file \in Files : task'[file] = "queued" => ~record[file].md5
<1>1. Init => Inv
  BY InitType, InitPhase, InitPlaced, InitHand, InitRerun
<1>2. Inv /\ NoCopyComesBack /\ [Next]_vars => Inv'
  BY NextType, NextPhase, NextPlan, NextPlaced, NextCalm, NextHand, NextRows, NextPlain, NextFollow, NextRerun
<1>3. Inv /\ [Next]_vars => [NoOp]_vars
  <2> SUFFICES ASSUME Inv, Next, settled, faults' = faults
               PROVE  /\ remote' = remote
                      /\ pc = "finish" /\ (\E file \in Files : Visible(file) # 0) => outcome' = "succeeded"
                      /\ \A file \in Files : task'[file] = "queued" => ~record[file].md5
    OBVIOUS
  <2>1. RerunFacts /\ \A kind : ~Fault(kind)
    BY NoFaultMet DEF RerunInv
  <2>2. remote' = remote
    BY <2>1, RerunStep
  <2>3. ASSUME pc = "finish", NEW file \in Files, Visible(file) # 0
        PROVE  outcome' = "succeeded"
    <3>1. local[<<>>] # 0
      BY <2>1, SettledVisible, PathFacts DEF RerunFacts, SettledDisk
    <3>2. FinishRun
      BY <2>1, <2>3, <3>1, OnlyTheEnd
    <3>3. ~cancelled /\ ~hard /\ ~failed
      BY <2>1, <2>3 DEF RerunFacts, RerunFlags, NoFile
    <3> QED
      BY <3>2, <3>3 DEF FinishRun, StatusFromSummary
  <2>4. ASSUME NEW file \in Files, task'[file] = "queued"
        PROVE  ~record[file].md5
    <3>1. task[file] = "queued" \/ file \in batch
      BY <2>4, QueuedFromBatch
    <3>2. file \in live \cap Files /\ pc \notin {"idle", "scan"}
      BY <2>4, <3>1 DEF PhaseInv
    <3>3. file \notin SizeOnly \cup hashed
      BY <2>1, <2>4, <3>1 DEF RerunFacts, RerunWork, RerunFiles
    <3> QED
      BY <2>1, <3>2, <3>3 DEF RerunFacts, RerunPlan
  <2> QED
    BY <2>2, <2>3, <2>4
<1> QED
  BY <1>1, <1>2, <1>3, PTL DEF Spec, RerunIsNoOp

=============================================================================
