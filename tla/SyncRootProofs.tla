--------------------------- MODULE SyncRootProofs ----------------------------
(***************************************************************************)
(* For every tree, every bound and every set of faults: the variables of    *)
(* SyncRoot keep their types, and a record that came from an upload never   *)
(* claims content the disk does not have.                                   *)
(* If the scan can read what is there: deletes remove only what has gone;   *)
(* a success over a fresh listing leaves the mirror exact; and the runs     *)
(* implement module Mirror.                                                 *)
(* If every answer of the disk reaches the database: a complete snapshot in *)
(* the cache names nothing the disk does not have.                          *)
(***************************************************************************)
EXTENDS SyncRoot, MirrorPlanProofs

-----------------------------------------------------------------------------
(* What the operators return.                                                *)

\* Zero and one are versions, and versions are natural numbers.
LEMMA VersionFacts ==
    0 \in Versions /\ 1 \in Versions /\ Versions \subseteq Nat
  BY BoundsAssumption DEF Versions

\* What a process sees at a path is a version.
LEMMA VisibleType ==
    ASSUME TypeOK, NEW path \in Paths
    PROVE  Visible(path) \in Versions
  BY VersionFacts, PathsAssumption DEF Visible, TypeOK, Paths

\* The effect of requests is a tree.
LEMMA AppliedType ==
    ASSUME TypeOK, NEW paths
    PROVE  Applied(paths) \in [Paths -> Versions]
<1>1. \A path \in Paths : Visible(path) \in Versions
  BY VisibleType
<1> QED
  BY <1>1, VersionFacts DEF Applied, TypeOK

\* A tree stays a tree when a subtree is removed from it.
LEMMA WithoutType ==
    ASSUME NEW tree \in [Paths -> Versions], NEW path
    PROVE  Without(tree, path) \in [Paths -> Versions]
  BY VersionFacts DEF Without

\* No task is a value of task.
LEMMA NoTasksType == NoTasks \in [Paths -> TaskStates]
  BY DEF NoTasks, TaskStates

\* Dropping tasks leaves a tree and no task.
LEMMA DroppedType ==
    ASSUME TypeOK, NEW except, Dropped(except)
    PROVE  remote' \in [Paths -> Versions] /\ task' \in [Paths -> TaskStates]
  BY AppliedType, NoTasksType DEF Dropped

\* The answer to a request is a value of task.
LEMMA AnswerType ==
    ASSUME TypeOK, NEW path \in Paths, NEW answer \in TaskStates, Answer(path, answer)
    PROVE  task' \in [Paths -> TaskStates]
  BY DEF Answer, TypeOK

\* The deleted subtree a missing path starts is a directory.
LEMMA MissingIsDirectory ==
    ASSUME NEW path \in Paths, NEW present, MissingAncestors(path, present) # {}
    PROVE  Shortest(MissingAncestors(path, present)) \in Dirs
<1>1. MissingAncestors(path, present) \subseteq Dirs
  BY PathsAssumption DEF MissingAncestors
<1>2. MissingAncestors(path, present) \subseteq Seq(STRING)
  BY <1>1, PathsAssumption DEF Paths
<1> QED
  BY <1>1, <1>2, ShortestIsLeast

\* Deleted subtrees are directories.
LEMMA SubtreesType ==
    ASSUME NEW old \in SUBSET Dirs, NEW new \in SUBSET Dirs
    PROVE  AddDeletedSubtrees(old, new) \subseteq Dirs
  BY DEF AddDeletedSubtrees

\* A coalesced delete names a path of the tree.
LEMMA DeletesType ==
    ASSUME NEW known, NEW resources \in SUBSET Paths
    PROVE  CoalescedDeletes(known, resources) \subseteq Paths
<1> SUFFICES ASSUME NEW path \in resources, DeadAncestors(path, known) # {}
             PROVE  Shortest(DeadAncestors(path, known)) \in Paths
  BY DEF CoalescedDeletes
<1>1. DeadAncestors(path, known) \subseteq Dirs
  BY PathsAssumption DEF DeadAncestors
<1>2. DeadAncestors(path, known) \subseteq Seq(STRING)
  BY <1>1, PathsAssumption DEF Paths
<1> QED
  BY <1>1, <1>2, ShortestIsLeast DEF Paths

\* A new state record is a value of record.
LEMMA FileStateType ==
    ASSUME TypeOK, NEW path, NEW status \in RecordStatuses
    PROVE  FileState(path, status) \in [Files -> [version : Versions, status : RecordStatuses]]
  BY DEF FileState, TypeOK

-----------------------------------------------------------------------------
(* Type correctness.                                                         *)

\* The initial values have their types.
LEMMA InitType == Init => TypeOK
<1> SUFFICES ASSUME Init PROVE TypeOK
  OBVIOUS
<1>1. local \in [Paths -> Versions] /\ cache \subseteq Paths
  BY VersionFacts DEF Init
<1>2. task \in [Paths -> TaskStates]
  BY NoTasksType DEF Init
<1>3. record \in [Files -> [version : Versions, status : RecordStatuses]]
  BY <1>1 DEF Init, Paths, RecordStatuses
<1>4. last \in [Files -> Versions] /\ scanned \in [Files -> Versions]
  BY <1>1, VersionFacts DEF Init, Paths
<1>5. edits \in 0..MaxEdits /\ faults \in 0..MaxFaults
  BY BoundsAssumption DEF Init
<1> QED
  BY <1>1, <1>2, <1>3, <1>4, <1>5 DEF Init, TypeOK, PCs, Outcomes

\* A fault stays within its bound.
LEMMA FaultType ==
    ASSUME TypeOK, NEW kind, Fault(kind)
    PROVE  faults' \in 0..MaxFaults
  BY BoundsAssumption DEF Fault, TypeOK

\* The steps up to the plan preserve types.
LEMMA ScanType == TypeOK /\ (StartRun \/ ScanSteps) => TypeOK'
<1> SUFFICES ASSUME TypeOK, StartRun \/ ScanSteps PROVE TypeOK'
  OBVIOUS
<1> USE DEF trees, database, plan, summary, budgets
<1>1. CASE StartRun
  BY <1>1 DEF StartRun, TypeOK, PCs, Outcomes
<1>2. ASSUME NEW unreadable, NEW busy, Scan(unreadable, busy) PROVE TypeOK'
  <2>1. live' \subseteq Paths
    BY <1>2 DEF Scan, Walked
  <2>2. scanned' \in [Files -> Versions]
    BY <1>2, VersionFacts DEF Scan, TypeOK, Paths
  <2>3. faults' \in 0..MaxFaults
    BY <1>2, FaultType DEF Scan, TypeOK
  <2>4. reused' \subseteq Files
    BY <1>2 DEF Scan
  <2> QED
    BY <1>2, <2>1, <2>2, <2>3, <2>4 DEF Scan, TypeOK, PCs
<1>3. CASE BuildLivePlan
  <2>1. tombs' \subseteq Dirs
    BY <1>3, SubtreesType DEF BuildLivePlan
  <2> QED
    BY <1>3, <2>1 DEF BuildLivePlan, TypeOK, PCs
<1>4. CASE CollisionFails
  BY <1>4 DEF CollisionFails, FailRoot, TypeOK, PCs
<1>5. CASE UseCache
  BY <1>5 DEF UseCache, TypeOK, PCs
<1>6. CASE RemoteRootNotFound
  BY <1>6 DEF RemoteRootNotFound, TypeOK, PCs
<1>7. CASE ListRemote
  <2>1. Listing \subseteq Paths
    BY DEF Listing, OnDisk
  <2> QED
    BY <1>7, <2>1 DEF ListRemote, TypeOK, PCs
<1>8. CASE PersistInventory
  BY <1>8 DEF PersistInventory, TypeOK, PCs
<1> QED
  BY <1>1, <1>2, <1>3, <1>4, <1>5, <1>6, <1>7, <1>8 DEF ScanSteps

\* The steps between and at the start of operations preserve types.
LEMMA PhaseType == TypeOK /\ PhaseSteps => TypeOK'
<1> SUFFICES ASSUME TypeOK, PhaseSteps PROVE TypeOK'
  OBVIOUS
<1> USE DEF trees, database, plan, summary, budgets
<1>1. CASE StartCreates
  <2>1. PlannedCreates(live \cap Dirs, inventory) \subseteq Paths
    BY PathsAssumption DEF PlannedCreates, Paths
  <2> QED
    BY <1>1, <2>1 DEF StartCreates, TypeOK, PCs
<1>2. CASE StartUploads
  <2>1. Uploads \subseteq Paths
    BY DEF Uploads, PlannedUploads, LiveFiles, Paths
  <2> QED
    BY <1>2, <2>1 DEF StartUploads, TypeOK, PCs
<1>3. CASE StartDeletes
  <2>1. todo' \subseteq Paths
    BY <1>3, DeletesType DEF StartDeletes, TypeOK
  <2> QED
    BY <1>3, <2>1 DEF StartDeletes, TypeOK, PCs
<1>4. CASE EndDeletes
  BY <1>4 DEF EndDeletes, TypeOK, PCs
<1>5. CASE FinishRun
  BY <1>5, VersionFacts DEF FinishRun, RunStatus, EndRun, TypeOK, PCs, Outcomes
<1>6. ASSUME NEW batch \in SUBSET Paths, StartBatch(batch) PROVE TypeOK'
  <2> DEFINE known == { path \in batch : ~CoveredBySome(tombs, path) }
             gone == { path \in known : MissingAncestors(path, LocalDirs) # {} }
             new == { Shortest(MissingAncestors(path, LocalDirs)) : path \in gone }
  <2>1. new \subseteq Dirs
    BY MissingIsDirectory
  <2>2. tombs' = AddDeletedSubtrees(tombs, new)
    BY <1>6 DEF StartBatch
  <2>3. tombs' \subseteq Dirs
    BY <2>1, <2>2, SubtreesType DEF TypeOK
  <2>4. task' \in [Paths -> TaskStates]
    BY <1>6 DEF StartBatch, TypeOK, TaskStates
  <2> QED
    BY <1>6, <2>3, <2>4 DEF StartBatch, TypeOK
<1>7. ASSUME NEW path \in Paths, StartDelete(path) PROVE TypeOK'
  <2>1. task' \in [Paths -> TaskStates]
    BY <1>7, AnswerType DEF StartDelete, TaskStates
  <2> QED
    BY <1>7, <2>1 DEF StartDelete, TypeOK
<1>8. ASSUME NEW path \in Paths, CheckDelete(path) PROVE TypeOK'
  <2>1. task' \in [Paths -> TaskStates]
    BY <1>8, AnswerType DEF CheckDelete, TaskStates
  <2>2. faults' \in 0..MaxFaults
    BY <1>8, FaultType DEF CheckDelete, TypeOK
  <2>3. cache' \subseteq Paths
    BY <1>8 DEF CheckDelete, CacheWithout, TypeOK
  <2> QED
    BY <1>8, <2>1, <2>2, <2>3 DEF CheckDelete, TypeOK
<1> QED
  BY <1>1, <1>2, <1>3, <1>4, <1>5, <1>6, <1>7, <1>8 DEF PhaseSteps

\* Requests, their answers and their joins preserve types.
LEMMA TaskType == TypeOK /\ TaskSteps => TypeOK'
<1> SUFFICES ASSUME TypeOK, TaskSteps PROVE TypeOK'
  OBVIOUS
<1> USE DEF trees, database, plan, summary, budgets
<1> PICK path \in Paths :
        \/ TaskSucceeds(path) \/ TaskRejected(path) \/ TaskCancelled(path)
        \/ JoinCreate(path) \/ JoinUpload(path) \/ JoinDelete(path)
  BY DEF TaskSteps
<1>1. CASE TaskSucceeds(path)
  <2>1. remote' \in [Paths -> Versions] /\ task' \in [Paths -> TaskStates]
    BY <1>1, AppliedType, AnswerType DEF TaskSucceeds, TaskStates
  <2> QED
    BY <1>1, <2>1 DEF TaskSucceeds, TypeOK
<1>2. CASE TaskRejected(path)
  <2>1. task' \in [Paths -> TaskStates]
    BY <1>2, AnswerType DEF TaskRejected, TaskStates
  <2> QED
    BY <1>2, <2>1 DEF TaskRejected, TypeOK
<1>3. CASE TaskCancelled(path)
  <2>1. task' \in [Paths -> TaskStates]
    BY <1>3, AnswerType DEF TaskCancelled, TaskStates
  <2> QED
    BY <1>3, <2>1 DEF TaskCancelled, TypeOK
<1>4. ASSUME Answer(path, "none") \/ JoinStop(path)
      PROVE  task' \in [Paths -> TaskStates]
  BY <1>4, AnswerType, DroppedType DEF JoinStop, TaskStates
<1>5. ASSUME UNCHANGED remote \/ JoinStop(path)
      PROVE  remote' \in [Paths -> Versions]
  BY <1>5, DroppedType DEF JoinStop, TypeOK
<1>6. CASE JoinCreate(path)
  <2>1. task' \in [Paths -> TaskStates] /\ remote' \in [Paths -> Versions]
    BY <1>4, <1>5, <1>6 DEF JoinCreate
  <2> QED
    BY <1>6, <2>1 DEF JoinCreate, JoinStop, TypeOK, PCs
<1>7. CASE JoinUpload(path)
  <2>1. task' \in [Paths -> TaskStates] /\ remote' \in [Paths -> Versions]
    BY <1>4, <1>5, <1>7 DEF JoinUpload
  <2>2. tombs' \subseteq Dirs
    <3>1. CASE NewlyGone(path)
                /\ tombs' = AddDeletedSubtrees(
                                tombs, {Shortest(MissingAncestors(path, LocalDirs))})
      BY <3>1, MissingIsDirectory, SubtreesType DEF NewlyGone, TypeOK
    <3>2. CASE UNCHANGED tombs
      BY <3>2 DEF TypeOK
    <3> QED
      BY <1>7, <3>1, <3>2 DEF JoinUpload
  <2>3. record' \in [Files -> [version : Versions, status : RecordStatuses]]
    <3>1. StatusAfterUpload(path) \in RecordStatuses /\ "skipped" \in RecordStatuses
      BY DEF StatusAfterUpload, RecordStatuses
    <3>2. \/ record' = FileState(path, StatusAfterUpload(path))
          \/ record' = FileState(path, "skipped")
          \/ record' = record
      BY <1>7 DEF JoinUpload, JoinStop
    <3> QED
      BY <3>1, <3>2, FileStateType DEF TypeOK
  <2> QED
    BY <1>7, <2>1, <2>2, <2>3 DEF JoinUpload, JoinStop, TypeOK, PCs
<1>8. CASE JoinDelete(path)
  <2>1. task' \in [Paths -> TaskStates] /\ remote' \in [Paths -> Versions]
    BY <1>4, <1>5, <1>8 DEF JoinDelete
  <2>2. record' \in [Files -> [version : Versions, status : RecordStatuses]]
    BY <1>8 DEF JoinDelete, JoinStop, MarkDeleted, RecordStatuses, TypeOK
  <2>3. cache' \subseteq Paths
    BY <1>8 DEF JoinDelete, JoinStop, CacheWithout, TypeOK
  <2> QED
    BY <1>8, <2>1, <2>2, <2>3 DEF JoinDelete, JoinStop, TypeOK, PCs
<1> QED
  BY <1>1, <1>2, <1>3, <1>6, <1>7, <1>8

\* Faults preserve types.
LEMMA FaultStepsType == TypeOK /\ FaultSteps => TypeOK'
<1> SUFFICES ASSUME TypeOK, FaultSteps PROVE TypeOK'
  OBVIOUS
<1> USE DEF trees, database, plan, summary, budgets
<1>1. CASE QuotaExceeded
  BY <1>1, FaultType DEF QuotaExceeded, FailRoot, TypeOK, PCs
<1>2. CASE Cancel
  BY <1>2, FaultType DEF Cancel, TypeOK
<1>3. CASE Crash
  <2>1. remote' \in [Paths -> Versions] /\ task' \in [Paths -> TaskStates]
    BY <1>3, DroppedType DEF Crash
  <2>2. faults' \in 0..MaxFaults
    BY <1>3, FaultType DEF Crash
  <2> QED
    BY <1>3, <2>1, <2>2, VersionFacts DEF Crash, EndRun, TypeOK, PCs, Outcomes
<1>4. CASE DatabaseFails
  <2>1. remote' \in [Paths -> Versions] /\ task' \in [Paths -> TaskStates]
    BY <1>4, DroppedType DEF DatabaseFails
  <2>2. faults' \in 0..MaxFaults
    BY <1>4, FaultType DEF DatabaseFails
  <2> QED
    BY <1>4, <2>1, <2>2, VersionFacts DEF DatabaseFails, EndRun, TypeOK, PCs, Outcomes
<1>5. CASE Unmount
  <2>1. faults' \in 0..MaxFaults
    BY <1>5, FaultType DEF Unmount
  <2> QED
    BY <1>5, <2>1, VersionFacts DEF Unmount, TypeOK
<1>6. CASE Mount
  BY <1>6, VersionFacts DEF Mount, TypeOK
<1>7. ASSUME NEW kind, InventoryFails(kind) PROVE TypeOK'
  <2>1. faults' \in 0..MaxFaults
    BY <1>7, FaultType DEF InventoryFails, FailRoot, PartialFailRoot
  <2> QED
    BY <1>7, <2>1 DEF InventoryFails, FailRoot, PartialFailRoot, TypeOK, PCs
<1>8. ASSUME NEW dir \in Dirs, ListingNotFound(dir) PROVE TypeOK'
  <2>1. faults' \in 0..MaxFaults /\ remote' \in [Paths -> Versions]
    BY <1>8, FaultType, WithoutType DEF ListingNotFound, TypeOK
  <2> QED
    BY <1>8, <2>1, PathsAssumption DEF ListingNotFound, TypeOK, PCs, Paths
<1>9. ASSUME NEW path \in Paths, TaskFails(path) PROVE TypeOK'
  <2>1. faults' \in 0..MaxFaults
    BY <1>9, FaultType DEF TaskFails
  <2>2. task' \in [Paths -> TaskStates]
    BY <1>9, AnswerType DEF TaskFails, TaskStates
  <2>3. remote' \in [Paths -> Versions]
    BY <1>9, AppliedType DEF TaskFails, TypeOK
  <2> QED
    BY <1>9, <2>1, <2>2, <2>3 DEF TaskFails, TypeOK
<1>10. ASSUME NEW path \in Paths, RemoveRemote(path) PROVE TypeOK'
  <2>1. faults' \in 0..MaxFaults /\ remote' \in [Paths -> Versions]
    BY <1>10, FaultType, WithoutType DEF RemoveRemote, TypeOK
  <2> QED
    BY <1>10, <2>1 DEF RemoveRemote, TypeOK
<1>11. ASSUME NEW path \in Paths, NEW kind, JoinInterrupted(path, kind) PROVE TypeOK'
  <2>1. remote' \in [Paths -> Versions] /\ task' \in [Paths -> TaskStates]
    BY <1>11, DroppedType DEF JoinInterrupted
  <2>2. faults' \in 0..MaxFaults
    BY <1>11, FaultType DEF JoinInterrupted
  <2>3. record' \in [Files -> [version : Versions, status : RecordStatuses]]
    <3>1. StatusAfterUpload(path) \in RecordStatuses
      BY DEF StatusAfterUpload, RecordStatuses
    <3>2. CASE record' = FileState(path, StatusAfterUpload(path))
      BY <3>1, <3>2, FileStateType
    <3>3. CASE record' = MarkDeleted(path)
      BY <3>3 DEF MarkDeleted, RecordStatuses, TypeOK
    <3> QED
      BY <1>11, <3>2, <3>3 DEF JoinInterrupted
  <2> QED
    BY <1>11, <2>1, <2>2, <2>3, VersionFacts
    DEF JoinInterrupted, EndRun, TypeOK, PCs, Outcomes
<1>12. ASSUME NEW path \in Paths, NEW missed \in SUBSET Paths, ListingShifted(path, missed)
       PROVE  TypeOK'
  <2>1. faults' \in 0..MaxFaults /\ remote' \in [Paths -> Versions]
    BY <1>12, FaultType, WithoutType DEF ListingShifted, TypeOK
  <2> QED
    BY <1>12, <2>1 DEF ListingShifted, Listing, OnDisk, TypeOK, PCs
<1> QED
  BY <1>1, <1>2, <1>3, <1>4, <1>5, <1>6, <1>7, <1>8, <1>9, <1>10, <1>11, <1>12 DEF FaultSteps

\* Changes of the local tree preserve types.
LEMMA EditType == TypeOK /\ EditSteps => TypeOK'
<1> SUFFICES ASSUME TypeOK, EditSteps PROVE TypeOK'
  OBVIOUS
<1> USE DEF trees, database, plan, summary, budgets
<1>1. ASSUME NEW changed \in SUBSET Paths, Edit(changed),
             local' \in [Paths -> Versions], last' \in [Files -> Versions]
      PROVE  TypeOK'
  <2>1. edits' \in 0..MaxEdits
    BY <1>1, BoundsAssumption DEF Edit, TypeOK
  <2> QED
    BY <1>1, <2>1 DEF Edit, TypeOK
<1>2. ASSUME NEW file \in Files, WriteLocal(file) PROVE TypeOK'
  <2>1. last[file] + 1 \in Versions
    BY <1>2, BoundsAssumption DEF WriteLocal, TypeOK, Versions
  <2>2. local' \in [Paths -> Versions] /\ last' \in [Files -> Versions]
    BY <1>2, <2>1 DEF WriteLocal, TypeOK
  <2>3. Edit({file}) /\ {file} \subseteq Paths
    BY <1>2 DEF WriteLocal, Paths
  <2> QED
    BY <1>1, <2>2, <2>3
<1>3. ASSUME NEW path \in Paths, RestoreLocal(path) PROVE TypeOK'
  <2>1. local' \in [Paths -> Versions] /\ last' \in [Files -> Versions]
    BY <1>3, VersionFacts DEF RestoreLocal, TypeOK
  <2>2. Edit({path}) /\ {path} \subseteq Paths
    BY <1>3 DEF RestoreLocal
  <2> QED
    BY <1>1, <2>1, <2>2
<1>4. ASSUME NEW path \in Paths, RemoveLocal(path) PROVE TypeOK'
  <2>1. local' \in [Paths -> Versions] /\ last' \in [Files -> Versions]
    BY <1>4, WithoutType DEF RemoveLocal, TypeOK
  <2>2. Edit({ p \in Paths : Covers(path, p) })
    BY <1>4 DEF RemoveLocal
  <2> QED
    BY <1>1, <2>1, <2>2
<1> QED
  BY <1>2, <1>3, <1>4 DEF EditSteps

\* Every step preserves types.
LEMMA NextType == TypeOK /\ [Next]_vars => TypeOK'
<1>1. TypeOK /\ UNCHANGED vars => TypeOK'
  BY DEF vars, trees, database, plan, summary, budgets, TypeOK
<1> QED
  BY <1>1, ScanType, PhaseType, TaskType, FaultStepsType, EditType DEF Next

\* Every variable keeps its type, whatever the tree, the faults and the bounds.
THEOREM TypeCorrect == Spec => []TypeOK
  BY InitType, NextType, PTL DEF Spec

-----------------------------------------------------------------------------
(* What a record claims.                                                     *)

\* A file that is there has its last version, and nothing is ahead of it.
LastIsNewest ==
    \A file \in Files :
        /\ local[file] \in {0, last[file]}
        /\ remote[file] <= last[file]
        /\ scanned[file] <= last[file]
        /\ record[file].version <= last[file]

\* The disk is not older than a record that came from an upload.
RecordNotAhead ==
    \A file \in Files :
        record[file].status \in {"synced", "changed"} /\ remote[file] # 0
        => record[file].version <= remote[file]

\* The disk is not older than the scan once an upload has been answered.
AnswerNotAhead ==
    \A file \in Files :
        pc = "upload" /\ task[file] = "ok" /\ remote[file] # 0
        => scanned[file] <= remote[file]

UploadInv == TypeOK /\ LastIsNewest /\ RecordNotAhead /\ AnswerNotAhead

\* The invariant gives the property: all the inequalities meet at the last version.
LEMMA UploadInvSuffices == UploadInv => RecordedMeansUploaded
<1> SUFFICES ASSUME UploadInv, NEW file \in Files,
                    record[file].status \in {"synced", "changed"},
                    local[file] # 0, record[file].version = local[file], remote[file] # 0
             PROVE  remote[file] = local[file]
  BY DEF RecordedMeansUploaded
<1>1. local[file] = last[file] /\ remote[file] <= last[file] /\ local[file] <= remote[file]
  BY DEF UploadInv, LastIsNewest, RecordNotAhead
<1>2. remote[file] \in Nat /\ local[file] \in Nat
  BY VersionFacts DEF UploadInv, TypeOK, Paths
<1> QED
  BY <1>1, <1>2

\* The values compared are natural numbers.
LEMMA NaturalVersions ==
    ASSUME TypeOK, NEW file \in Files
    PROVE  /\ file \in Paths
           /\ local[file] \in Nat /\ last[file] \in Nat /\ remote[file] \in Nat
           /\ scanned[file] \in Nat /\ record[file].version \in Nat
  BY VersionFacts DEF TypeOK, Paths

\* A file that is sent is sent in its last version.
LEMMA AppliedFile ==
    ASSUME TypeOK, LastIsNewest, NEW file \in Files, NEW paths,
           file \in paths => Acceptable(file)
    PROVE  /\ Applied(paths)[file] \in {0, remote[file], last[file]}
           /\ pc # "delete" /\ file \in paths => Applied(paths)[file] = last[file]
<1>1. file \in Paths
  BY DEF Paths
<1>2. CASE pc = "delete"
  BY <1>1, <1>2 DEF Applied
<1>3. CASE pc # "delete"
  <2>1. file \in paths => Visible(file) # 0
    BY <1>3 DEF Acceptable
  <2>2. file \in paths => Visible(file) = last[file]
    BY <2>1 DEF Visible, LastIsNewest
  <2> QED
    BY <1>1, <1>3, <2>2 DEF Applied
<1> QED
  BY <1>2, <1>3

\* Dropped requests are no different.
LEMMA DroppedFile ==
    ASSUME TypeOK, LastIsNewest, NEW file \in Files, NEW except, Dropped(except)
    PROVE  remote'[file] \in {0, remote[file], last[file]} /\ task'[file] = "none"
<1>1. PICK done \in SUBSET { path \in Paths \ except : task[path] = "queued" /\ Acceptable(path) } :
          remote' = Applied(done)
  BY DEF Dropped
<1>2. remote'[file] \in {0, remote[file], last[file]}
  BY <1>1, AppliedFile
<1> QED
  BY <1>2 DEF Dropped, NoTasks, Paths

\* A step that records nothing keeps the invariant as long as the disk gets no other
\* content than the last version and no upload is answered without it.
LEMMA QuietStep ==
    ASSUME UploadInv, TypeOK', UNCHANGED <<local, last, record>>,
           \A file \in Files : scanned'[file] \in {0, scanned[file]},
           \A file \in Files : remote'[file] \in {0, remote[file], last[file]},
           \A file \in Files : pc' = "upload" /\ task'[file] = "ok" =>
               (pc = "upload" /\ task[file] = "ok") \/ remote'[file] = last[file]
    PROVE  UploadInv'
<1> USE DEF UploadInv
<1>1. ASSUME NEW file \in Files
      PROVE  /\ file \in Paths
             /\ local[file] \in Nat /\ last[file] \in Nat /\ remote[file] \in Nat
             /\ scanned[file] \in Nat /\ record[file].version \in Nat
  BY <1>1, NaturalVersions
<1>2. LastIsNewest'
  BY <1>1 DEF LastIsNewest
<1>3. RecordNotAhead'
  BY <1>1 DEF LastIsNewest, RecordNotAhead
<1>4. AnswerNotAhead'
  BY <1>1 DEF LastIsNewest, AnswerNotAhead
<1> QED
  BY <1>2, <1>3, <1>4

\* An edit leaves the disk, the record and the scan behind the last version.
LEMMA EditStep ==
    ASSUME UploadInv, TypeOK', UNCHANGED <<remote, record, scanned, task>>, pc' = pc,
           \A file \in Files : last'[file] >= last[file] /\ local'[file] \in {0, last'[file]}
    PROVE  UploadInv'
<1> USE DEF UploadInv
<1>1. ASSUME NEW file \in Files
      PROVE  /\ last[file] \in Nat /\ last'[file] \in Nat /\ remote[file] \in Nat
             /\ scanned[file] \in Nat /\ record[file].version \in Nat
  BY <1>1, NaturalVersions, VersionFacts DEF TypeOK
<1>2. LastIsNewest'
  BY <1>1 DEF LastIsNewest
<1>3. RecordNotAhead' /\ AnswerNotAhead'
  BY DEF RecordNotAhead, AnswerNotAhead
<1> QED
  BY <1>2, <1>3

\* A step that records the scanned version keeps the invariant when the disk is not
\* older, or when the record does not claim an upload.
LEMMA RecordStep ==
    ASSUME UploadInv, TypeOK', UNCHANGED <<local, last, remote, scanned>>, pc' = pc,
           NEW path \in Paths, Answer(path, "none"), NEW status \in RecordStatuses,
           record' = FileState(path, status),
           status \in {"synced", "changed"} => pc = "upload" /\ task[path] = "ok"
    PROVE  UploadInv'
<1> USE DEF UploadInv
<1>1. \A file \in Files : file # path => record'[file] = record[file]
  BY DEF FileState, TypeOK
<1>2. path \in Files => record'[path] = [version |-> scanned[path], status |-> status]
  BY DEF FileState, TypeOK
<1>3. LastIsNewest'
  BY <1>1, <1>2 DEF LastIsNewest
<1>4. RecordNotAhead'
  BY <1>1, <1>2 DEF RecordNotAhead, AnswerNotAhead
<1>5. AnswerNotAhead'
  BY DEF AnswerNotAhead, Answer, TypeOK
<1> QED
  BY <1>3, <1>4, <1>5

\* The root starts mirrored.
LEMMA InitUploadInv == Init => UploadInv
<1> SUFFICES ASSUME Init PROVE UploadInv
  OBVIOUS
<1>1. TypeOK
  BY InitType
<1>2. ASSUME NEW file \in Files
      PROVE  /\ local[file] = last[file] /\ remote[file] = last[file]
             /\ scanned[file] = 0 /\ record[file].version = last[file]
             /\ last[file] \in Nat
  BY <1>1, <1>2, NaturalVersions DEF Init
<1>3. LastIsNewest /\ RecordNotAhead
  BY <1>2 DEF LastIsNewest, RecordNotAhead
<1>4. AnswerNotAhead
  BY DEF Init, AnswerNotAhead
<1> QED
  BY <1>1, <1>3, <1>4 DEF UploadInv

\* The steps up to the plan: only the scan touches what the invariant is about.
LEMMA ScanUpload == UploadInv /\ TypeOK' /\ (StartRun \/ ScanSteps) => UploadInv'
<1> SUFFICES ASSUME UploadInv, TypeOK', StartRun \/ ScanSteps PROVE UploadInv'
  OBVIOUS
<1> USE DEF trees, database, plan, summary, budgets
<1>1. ASSUME UNCHANGED <<local, last, remote, record, scanned>>, pc' # "upload"
      PROVE  UploadInv'
  BY <1>1, QuietStep
<1>2. CASE StartRun
  BY <1>1, <1>2 DEF StartRun
<1>3. ASSUME NEW unreadable, NEW busy, Scan(unreadable, busy) PROVE UploadInv'
  <2>1. \A file \in Files : scanned'[file] \in {0, local[file]}
    BY <1>3 DEF Scan
  <2>2. UNCHANGED <<local, last, remote, record>> /\ pc' = "live"
    BY <1>3 DEF Scan
  <2>3. \A file \in Files : scanned'[file] <= last[file]
    BY <2>1, NaturalVersions DEF UploadInv, LastIsNewest
  <2> QED
    BY <2>2, <2>3 DEF UploadInv, LastIsNewest, RecordNotAhead, AnswerNotAhead
<1>4. CASE BuildLivePlan
  BY <1>1, <1>4 DEF BuildLivePlan
<1>5. CASE CollisionFails
  BY <1>1, <1>5 DEF CollisionFails, FailRoot
<1>6. CASE UseCache
  BY <1>1, <1>6 DEF UseCache
<1>7. CASE RemoteRootNotFound
  BY <1>1, <1>7 DEF RemoteRootNotFound
<1>8. CASE ListRemote
  BY <1>1, <1>8 DEF ListRemote
<1>9. CASE PersistInventory
  BY <1>1, <1>9 DEF PersistInventory
<1> QED
  BY <1>2, <1>3, <1>4, <1>5, <1>6, <1>7, <1>8, <1>9 DEF ScanSteps

\* An answer other than "ok" answers no upload.
LEMMA AnswerIsNotOk ==
    ASSUME TypeOK, NEW path \in Paths, NEW answer \in TaskStates \ {"ok"},
           Answer(path, answer), NEW file \in Paths, task'[file] = "ok"
    PROVE  task[file] = "ok"
  BY DEF Answer, TypeOK

\* The steps between and at the start of operations answer no upload.
LEMMA PhaseUpload == UploadInv /\ TypeOK' /\ PhaseSteps => UploadInv'
<1> SUFFICES ASSUME UploadInv, TypeOK', PhaseSteps PROVE UploadInv'
  OBVIOUS
<1> USE DEF trees, database, plan, summary, budgets
<1>1. ASSUME UNCHANGED <<local, last, remote, record>>,
             \A file \in Files : scanned'[file] \in {0, scanned[file]},
             \A file \in Files : pc' = "upload" /\ task'[file] = "ok" =>
                 pc = "upload" /\ task[file] = "ok"
      PROVE  UploadInv'
  BY <1>1, QuietStep
<1>2. CASE StartCreates
  BY <1>1, <1>2 DEF StartCreates
<1>3. CASE StartUploads
  <2>1. \A file \in Files : task'[file] = "none"
    BY <1>3 DEF StartUploads, PhaseOver, Idle, NoTasks, Paths
  <2> QED
    BY <1>1, <1>3, <2>1 DEF StartUploads
<1>4. CASE StartDeletes
  BY <1>1, <1>4 DEF StartDeletes
<1>5. CASE EndDeletes
  BY <1>1, <1>5 DEF EndDeletes
<1>6. CASE FinishRun
  BY <1>1, <1>6 DEF FinishRun, EndRun
<1>7. ASSUME NEW batch \in SUBSET Paths, StartBatch(batch) PROVE UploadInv'
  <2>1. \A file \in Files : task'[file] = "ok" => task[file] = "ok"
    BY <1>7 DEF StartBatch, Paths
  <2> QED
    BY <1>1, <1>7, <2>1 DEF StartBatch
<1>8. ASSUME NEW path \in Paths, StartDelete(path) PROVE UploadInv'
  BY <1>1, <1>8 DEF StartDelete
<1>9. ASSUME NEW path \in Paths, CheckDelete(path) PROVE UploadInv'
  <2>1. \A file \in Files : task'[file] = "ok" => task[file] = "ok"
    BY <1>9, AnswerIsNotOk DEF CheckDelete, UploadInv, TaskStates, Paths
  <2> QED
    BY <1>1, <1>9, <2>1 DEF CheckDelete
<1> QED
  BY <1>2, <1>3, <1>4, <1>5, <1>6, <1>7, <1>8, <1>9 DEF PhaseSteps

\* Requests send the last version, and only an answered upload is recorded.
LEMMA TaskUpload == UploadInv /\ TypeOK' /\ TaskSteps => UploadInv'
<1> SUFFICES ASSUME UploadInv, TypeOK', TaskSteps PROVE UploadInv'
  OBVIOUS
<1> USE DEF trees, database, plan, summary, budgets
<1> PICK path \in Paths :
        \/ TaskSucceeds(path) \/ TaskRejected(path) \/ TaskCancelled(path)
        \/ JoinCreate(path) \/ JoinUpload(path) \/ JoinDelete(path)
  BY DEF TaskSteps
<1>1. TypeOK /\ LastIsNewest
  BY DEF UploadInv
<1>2. ASSUME UNCHANGED <<local, last, remote, record, scanned, pc>>,
             NEW answer \in TaskStates \ {"ok"}, Answer(path, answer)
      PROVE  UploadInv'
  <2>1. \A file \in Files : task'[file] = "ok" => task[file] = "ok"
    BY <1>1, <1>2, AnswerIsNotOk DEF Paths
  <2> QED
    BY <1>2, <2>1, QuietStep
<1>3. ASSUME JoinStop(path), UNCHANGED scanned PROVE UploadInv'
  <2>1. \A file \in Files : remote'[file] \in {0, remote[file], last[file]}
    BY <1>1, <1>3, DroppedFile DEF JoinStop
  <2> QED
    BY <1>3, <2>1, QuietStep DEF JoinStop
<1>4. CASE TaskSucceeds(path)
  <2>1. \A file \in Files :
            /\ remote'[file] \in {0, remote[file], last[file]}
            /\ pc # "delete" /\ file = path => remote'[file] = last[file]
    BY <1>1, <1>4, AppliedFile DEF TaskSucceeds
  <2>2. \A file \in Files : file # path => task'[file] = task[file]
    BY <1>1, <1>4 DEF TaskSucceeds, Answer, TypeOK, Paths
  <2> QED
    BY <1>4, <2>1, <2>2, QuietStep DEF TaskSucceeds
<1>5. CASE TaskRejected(path)
  BY <1>2, <1>5 DEF TaskRejected, TaskStates
<1>6. CASE TaskCancelled(path)
  BY <1>2, <1>6 DEF TaskCancelled, TaskStates
<1>7. CASE JoinCreate(path)
  BY <1>2, <1>3, <1>7 DEF JoinCreate, TaskStates
<1>8. CASE JoinUpload(path)
  <2>1. "skipped" \in RecordStatuses /\ StatusAfterUpload(path) \in {"synced", "changed"}
    BY DEF RecordStatuses, StatusAfterUpload
  <2>2. CASE /\ task[path] = "ok" /\ record' = FileState(path, StatusAfterUpload(path))
             /\ Answer(path, "none") /\ UNCHANGED <<trees, pc>>
    BY <1>8, <2>1, <2>2, RecordStep DEF JoinUpload, RecordStatuses
  <2>3. CASE /\ record' = FileState(path, "skipped")
             /\ Answer(path, "none") /\ UNCHANGED <<trees, pc>>
    BY <1>8, <2>1, <2>3, RecordStep DEF JoinUpload
  <2>4. CASE Answer(path, "none") /\ UNCHANGED <<trees, record, pc>>
    BY <1>2, <1>8, <2>4 DEF JoinUpload, TaskStates
  <2>5. CASE JoinStop(path)
    BY <1>3, <1>8, <2>5 DEF JoinUpload
  <2> QED
    BY <1>8, <2>2, <2>3, <2>4, <2>5 DEF JoinUpload
<1>9. CASE JoinDelete(path)
  <2>1. CASE Answer(path, "none") /\ UNCHANGED <<trees, record, pc>>
    BY <1>2, <1>9, <2>1 DEF JoinDelete, TaskStates
  <2>2. CASE JoinStop(path)
    BY <1>3, <1>9, <2>2 DEF JoinDelete
  <2>3. CASE /\ path \in Files /\ record' = MarkDeleted(path)
             /\ UNCHANGED <<trees, pc>>
    <3>1. \A file \in Files :
              /\ record'[file].version = record[file].version
              /\ record'[file].status \in {"deleted", record[file].status}
      BY <1>1, <2>3 DEF MarkDeleted, TypeOK
    <3>2. pc' # "upload" /\ UNCHANGED scanned
      BY <1>9, <2>3 DEF JoinDelete
    <3> QED
      BY <2>3, <3>1, <3>2 DEF UploadInv, LastIsNewest, RecordNotAhead, AnswerNotAhead
  <2> QED
    BY <1>9, <2>1, <2>2, <2>3 DEF JoinDelete
<1> QED
  BY <1>4, <1>5, <1>6, <1>7, <1>8, <1>9

\* Faults record nothing; what takes effect late is the last version or nothing.
LEMMA FaultUpload == UploadInv /\ TypeOK' /\ FaultSteps => UploadInv'
<1> SUFFICES ASSUME UploadInv, TypeOK', FaultSteps PROVE UploadInv'
  OBVIOUS
<1> USE DEF trees, database, plan, summary, budgets
<1>1. TypeOK /\ LastIsNewest
  BY DEF UploadInv
<1>2. ASSUME UNCHANGED <<local, last, record>>,
             \A file \in Files : scanned'[file] \in {0, scanned[file]},
             \A file \in Files : remote'[file] \in {0, remote[file], last[file]},
             pc' # "upload" \/ (pc' = pc /\ \A file \in Files : task'[file] = "ok" => task[file] = "ok")
      PROVE  UploadInv'
  BY <1>2, QuietStep
<1>3. ASSUME NEW path \in Paths, NEW file \in Files
      PROVE  Without(remote, path)[file] \in {0, remote[file]}
  BY DEF Without, Paths
<1>4. CASE QuotaExceeded
  BY <1>2, <1>4 DEF QuotaExceeded, FailRoot
<1>5. CASE Cancel
  BY <1>2, <1>5 DEF Cancel
<1>6. CASE Crash
  <2>1. \A file \in Files : remote'[file] \in {0, remote[file], last[file]}
    BY <1>1, <1>6, DroppedFile DEF Crash
  <2> QED
    BY <1>2, <1>6, <2>1 DEF Crash, EndRun
<1>7. CASE DatabaseFails
  <2>1. \A file \in Files : remote'[file] \in {0, remote[file], last[file]}
    BY <1>1, <1>7, DroppedFile DEF DatabaseFails
  <2> QED
    BY <1>2, <1>7, <2>1 DEF DatabaseFails, EndRun
<1>8. CASE Unmount \/ Mount
  <2>1. \A file \in Files : local'[file] = local[file]
    BY <1>1, <1>8, PathsAssumption DEF Unmount, Mount, TypeOK, Paths
  <2>2. UNCHANGED <<last, remote, record, scanned, task, pc>>
    BY <1>8 DEF Unmount, Mount
  <2>3. \A file \in Files : last'[file] >= last[file] /\ local'[file] \in {0, last'[file]}
    BY <1>1, <2>1, <2>2, NaturalVersions DEF LastIsNewest
  <2> QED
    BY <2>2, <2>3, EditStep
<1>9. ASSUME NEW kind, InventoryFails(kind) PROVE UploadInv'
  BY <1>2, <1>9 DEF InventoryFails, FailRoot, PartialFailRoot
<1>10. ASSUME NEW dir \in Dirs, ListingNotFound(dir) PROVE UploadInv'
  BY <1>2, <1>3, <1>10 DEF ListingNotFound, Paths
<1>11. ASSUME NEW path \in Paths, TaskFails(path) PROVE UploadInv'
  <2>1. \A file \in Files : task'[file] = "ok" => task[file] = "ok"
    BY <1>1, <1>11, AnswerIsNotOk DEF TaskFails, TaskStates, Paths
  <2>2. \A file \in Files : remote'[file] \in {0, remote[file], last[file]}
    <3>1. remote' = remote \/ (Acceptable(path) /\ remote' = Applied({path}))
      BY <1>11 DEF TaskFails
    <3> QED
      BY <1>1, <3>1, AppliedFile
  <2> QED
    BY <1>2, <1>11, <2>1, <2>2 DEF TaskFails
<1>12. ASSUME NEW path \in Paths, RemoveRemote(path) PROVE UploadInv'
  BY <1>2, <1>3, <1>12 DEF RemoveRemote
<1>13. ASSUME NEW path \in Paths, NEW kind, JoinInterrupted(path, kind) PROVE UploadInv'
  <2>1. UNCHANGED <<local, last>> /\ pc' = "idle"
        /\ \A file \in Files : scanned'[file] = 0
    BY <1>13 DEF JoinInterrupted, EndRun
  <2>2. \A file \in Files : remote'[file] \in {0, remote[file], last[file]}
    BY <1>1, <1>13, DroppedFile DEF JoinInterrupted
  <2>3. \A file \in Files :
            \/ /\ record'[file].version = record[file].version
               /\ record'[file].status \in {"deleted", record[file].status}
            \/ /\ pc = "upload" /\ task[file] = "ok"
               /\ record'[file].version = scanned[file]
    BY <1>1, <1>13 DEF JoinInterrupted, FileState, MarkDeleted, TypeOK
  <2>4. ASSUME NEW file \in Files
        PROVE  /\ last[file] \in Nat /\ remote[file] \in Nat /\ scanned[file] \in Nat
               /\ record[file].version \in Nat
    BY <1>1, <2>4, NaturalVersions
  <2>5. LastIsNewest'
    BY <1>1, <2>1, <2>2, <2>3, <2>4 DEF LastIsNewest
  <2>6. RecordNotAhead'
    BY <1>1, <2>1, <2>2, <2>3, <2>4
    DEF UploadInv, LastIsNewest, RecordNotAhead, AnswerNotAhead
  <2>7. AnswerNotAhead'
    BY <2>1 DEF AnswerNotAhead
  <2> QED
    BY <2>5, <2>6, <2>7 DEF UploadInv
<1>14. ASSUME NEW path \in Paths, NEW missed \in SUBSET Paths, ListingShifted(path, missed)
       PROVE  UploadInv'
  BY <1>2, <1>3, <1>14 DEF ListingShifted
<1> QED
  BY <1>4, <1>5, <1>6, <1>7, <1>8, <1>9, <1>10, <1>11, <1>12, <1>13, <1>14 DEF FaultSteps

\* Changes of the local tree only move the last version on.
LEMMA EditUpload == UploadInv /\ TypeOK' /\ EditSteps => UploadInv'
<1> SUFFICES ASSUME UploadInv, TypeOK', EditSteps PROVE UploadInv'
  OBVIOUS
<1> USE DEF trees, database, plan, summary, budgets
<1>1. TypeOK /\ LastIsNewest
  BY DEF UploadInv
<1>2. ASSUME NEW changed, Edit(changed),
             \A file \in Files : last'[file] >= last[file] /\ local'[file] \in {0, last'[file]}
      PROVE  UploadInv'
  BY <1>2, EditStep DEF Edit
<1>3. \A file \in Files : file \in Paths /\ last[file] \in Nat
  BY <1>1, NaturalVersions
<1>4. ASSUME NEW file \in Files, WriteLocal(file) PROVE UploadInv'
  <2>1. \A f \in Files : last'[f] >= last[f] /\ local'[f] \in {0, last'[f]}
    BY <1>1, <1>3, <1>4 DEF WriteLocal, LastIsNewest, TypeOK
  <2> QED
    BY <1>2, <1>4, <2>1 DEF WriteLocal
<1>5. ASSUME NEW path \in Paths, RestoreLocal(path) PROVE UploadInv'
  <2>1. \A f \in Files : last'[f] >= last[f] /\ local'[f] \in {0, last'[f]}
    BY <1>1, <1>3, <1>5 DEF RestoreLocal, LastIsNewest, TypeOK
  <2> QED
    BY <1>2, <1>5, <2>1 DEF RestoreLocal
<1>6. ASSUME NEW path \in Paths, RemoveLocal(path) PROVE UploadInv'
  <2>1. \A f \in Files : last'[f] >= last[f] /\ local'[f] \in {0, last'[f]}
    BY <1>1, <1>3, <1>6 DEF RemoveLocal, Without, LastIsNewest
  <2> QED
    BY <1>2, <1>6, <2>1 DEF RemoveLocal
<1> QED
  BY <1>4, <1>5, <1>6 DEF EditSteps

\* Every step preserves the invariant.
LEMMA NextUploadInv == UploadInv /\ [Next]_vars => UploadInv'
<1> SUFFICES ASSUME UploadInv, [Next]_vars PROVE UploadInv'
  OBVIOUS
<1>1. TypeOK'
  BY NextType DEF UploadInv
<1>2. CASE UNCHANGED vars
  BY <1>1, <1>2, QuietStep DEF vars, trees, database, plan
<1>3. CASE Next
  BY <1>1, <1>3, ScanUpload, PhaseUpload, TaskUpload, FaultUpload, EditUpload DEF Next
<1> QED
  BY <1>2, <1>3

\* A file that is not uploaded again because its record matches is on the disk with
\* the content it has now, unless it is not there at all: whatever crashes, lost
\* answers and edits fell between the upload and the record.
THEOREM RecordsAreTrue == Spec => []RecordedMeansUploaded
  BY InitUploadInv, NextUploadInv, UploadInvSuffices, PTL DEF Spec

-----------------------------------------------------------------------------
(* What apply_deletes removes.                                               *)

\* What is on the local disk is in directories that are there.
LocalClosed ==
    \A path \in Paths : local[path] # 0 => \A dir \in Ancestors(path) : local[dir] # 0

\* Not there, or not the same as during the scan.
Gone(path) == path \in touched \/ Visible(path) = 0

\* The operations of the delete phase that have not been joined yet.
Target(path) == path \in todo \/ task[path] # "none"

\* A deleted subtree has nothing left of what the scan saw.
SubtreesGone ==
    \A prefix \in tombs, path \in Paths : Covers(prefix, path) => Gone(path)

\* Subtrees are only found while the plan is made and carried out.
SubtreesInTime == pc \in {"idle", "scan", "live"} => tombs = {}

\* The live plan has all that is there, with the directories above it.
PlanIsComplete ==
    pc \notin {"idle", "scan"} =>
        /\ AncestorClosed(live)
        /\ \A path \in Paths \ {<<>>} : path \notin live => Gone(path)

\* What is below a path that is to be deleted has gone.
TargetsGone ==
    pc = "delete" =>
        \A target, path \in Paths : Target(target) /\ Covers(target, path) => Gone(path)

GoneInv ==
    /\ TypeOK
    /\ LocalClosed /\ SubtreesGone /\ SubtreesInTime /\ PlanIsComplete /\ TargetsGone

\* Below a directory that is not there nothing is.
LEMMA BelowMissing ==
    ASSUME TypeOK, LocalClosed, NEW dir \in Paths, dir # <<>>, Visible(dir) = 0,
           NEW path \in Paths, Covers(dir, path)
    PROVE  Visible(path) = 0
<1>1. CASE local[<<>>] = 0 \/ dir = path
  BY <1>1 DEF Visible
<1>2. CASE local[<<>>] # 0 /\ dir # path
  <2>1. dir \in Ancestors(path)
    BY <1>2, CoversIsAncestor, PathsAssumption
  <2>2. local[dir] = 0
    BY <1>2 DEF Visible
  <2> QED
    BY <2>1, <2>2 DEF LocalClosed, Visible
<1> QED
  BY <1>1, <1>2

\* The topmost missing directory above a path is not there, nor is what is below it.
LEMMA MissingIsGone ==
    ASSUME TypeOK, LocalClosed, NEW path \in Paths, MissingAncestors(path, LocalDirs) # {},
           NEW other \in Paths, Covers(Shortest(MissingAncestors(path, LocalDirs)), other)
    PROVE  Visible(other) = 0
<1> DEFINE missing == MissingAncestors(path, LocalDirs)
<1>1. missing \subseteq Dirs \ LocalDirs
  BY PathsAssumption DEF MissingAncestors
<1>2. missing \subseteq Seq(STRING) \ {<<>>}
  BY AncestorsAreSeqs, PathsAssumption DEF MissingAncestors
<1>3. Shortest(missing) \in missing
  BY <1>2, ShortestIsLeast
<1>4. Shortest(missing) \in Paths /\ Shortest(missing) # <<>> /\ Visible(Shortest(missing)) = 0
  BY <1>1, <1>2, <1>3 DEF LocalDirs, Paths
<1> QED
  BY <1>4, BelowMissing

\* A delete target is outside the plan.
LEMMA TargetIsNotLive ==
    ASSUME NEW known, NEW resources \in SUBSET Paths,
           NEW target \in CoalescedDeletes(known, resources)
    PROVE  target \in Paths \ {<<>>} /\ target \notin known
<1>1. PICK path \in resources :
          /\ DeleteCandidate(path) /\ path \notin known
          /\ target = IF DeadAncestors(path, known) = {} THEN path
                      ELSE Shortest(DeadAncestors(path, known))
  BY DEF CoalescedDeletes
<1>2. CASE DeadAncestors(path, known) = {}
  BY <1>1, <1>2 DEF DeleteCandidate
<1>3. CASE DeadAncestors(path, known) # {}
  <2>1. DeadAncestors(path, known) \subseteq Seq(STRING) \ {<<>>}
    BY AncestorsAreSeqs, PathsAssumption DEF DeadAncestors
  <2>2. target \in DeadAncestors(path, known)
    BY <1>1, <1>3, <2>1, ShortestIsLeast
  <2> QED
    BY <2>1, <2>2, PathsAssumption DEF DeadAncestors, Dead, Paths
<1> QED
  BY <1>2, <1>3

\* The plan outside its deleted subtrees has a directory with all that is in it: what
\* is below a path outside of it is outside, too.
LEMMA NothingLiveBelow ==
    ASSUME GoneInv, pc \notin {"idle", "scan"}, NEW target \in Paths \ {<<>>},
           target \notin KnownLive(live \cap Dirs, LiveFiles, tombs),
           NEW path \in Paths, Covers(target, path)
    PROVE  Gone(path)
<1>1. AncestorClosed(live) /\ \A p \in Paths \ {<<>>} : p \notin live => Gone(p)
  BY DEF GoneInv, PlanIsComplete
<1>2. path \in Seq(STRING) /\ target \in Seq(STRING)
  BY PathsAssumption
<1>3. path # <<>>
  BY <1>2 DEF Covers
<1>4. CASE path \notin live
  BY <1>1, <1>3, <1>4
<1>5. CASE CoveredBySome(tombs, path)
  BY <1>5 DEF CoveredBySome, GoneInv, SubtreesGone
<1>6. CASE path \in live /\ ~CoveredBySome(tombs, path)
  <2>1. target \in live
    BY <1>1, <1>2, <1>6, CoversIsAncestor DEF AncestorClosed
  <2>2. CoveredBySome(tombs, target)
    BY <2>1 DEF KnownLive, LiveFiles, Paths
  <2>3. PICK prefix \in tombs : Covers(prefix, target)
    BY <2>2 DEF CoveredBySome
  <2>4. Covers(prefix, path)
    BY <1>2, <2>3, CoversTransitive, PathsAssumption DEF GoneInv, TypeOK, Paths
  <2> QED
    BY <1>6, <2>4 DEF CoveredBySome
<1> QED
  BY <1>4, <1>5, <1>6

\* What has gone stays so while nothing but the history of changes grows.
LEMMA GoneStays ==
    ASSUME UNCHANGED local, touched \subseteq touched', NEW path, Gone(path)
    PROVE  Gone(path)'
  BY DEF Gone, Visible

\* A step within the run keeps the invariant if what has gone stays so and the delete
\* phase gets no new target.
LEMMA GoneStep ==
    ASSUME GoneInv, TypeOK', LocalClosed',
           \A path \in Paths : Gone(path) => Gone(path)',
           SubtreesGone', live' = live,
           pc' \in {"idle", "scan", "live"} => tombs' = {},
           pc' \in {"idle", "scan"} \/ pc \notin {"idle", "scan"},
           pc' = "delete" => pc = "delete" /\ \A path \in Paths : Target(path)' => Target(path)
    PROVE  GoneInv'
<1>1. PlanIsComplete'
  BY DEF GoneInv, PlanIsComplete, AncestorClosed
<1>2. TargetsGone'
  BY DEF GoneInv, TargetsGone
<1> QED
  BY <1>1, <1>2 DEF GoneInv, SubtreesInTime

\* So does a step that leaves the deleted subtrees and the local tree alone.
LEMMA GoneQuiet ==
    ASSUME GoneInv, TypeOK', UNCHANGED <<local, live, tombs>>, touched \subseteq touched',
           pc' \in {"idle", "scan", "live"} => pc \in {"idle", "scan", "live"},
           pc' \in {"idle", "scan"} \/ pc \notin {"idle", "scan"},
           pc' = "delete" => pc = "delete" /\ \A path \in Paths : Target(path)' => Target(path)
    PROVE  GoneInv'
<1>1. \A path \in Paths : Gone(path) => Gone(path)'
  BY GoneStays
<1>2. LocalClosed'
  BY DEF GoneInv, LocalClosed
<1>3. SubtreesGone'
  BY <1>1 DEF GoneInv, SubtreesGone, TypeOK
<1>4. pc' \in {"idle", "scan", "live"} => tombs' = {}
  BY DEF GoneInv, SubtreesInTime
<1> QED
  BY <1>1, <1>2, <1>3, <1>4, GoneStep

\* The end of a run leaves nothing to delete.
LEMMA GoneEnd ==
    ASSUME GoneInv, TypeOK', UNCHANGED local, pc' = "idle", tombs' = {}
    PROVE  GoneInv'
  BY DEF GoneInv, LocalClosed, SubtreesGone, SubtreesInTime, PlanIsComplete, TargetsGone

\* The answer to a request makes no new target.
LEMMA AnswerIsNoTarget ==
    ASSUME TypeOK, NEW path \in Paths, NEW answer, Answer(path, answer), todo' = todo,
           answer # "none" => Target(path),
           NEW other \in Paths, Target(other)'
    PROVE  Target(other)
  BY DEF Answer, Target, TypeOK

\* The root starts as a tree.
LEMMA InitGone == Init => GoneInv
<1> SUFFICES ASSUME Init PROVE GoneInv
  OBVIOUS
<1>1. TypeOK
  BY InitType
<1>2. LocalClosed
  BY PathsAssumption DEF Init, LocalClosed, AncestorClosed, Paths
<1> QED
  BY <1>1, <1>2 DEF Init, GoneInv, SubtreesGone, SubtreesInTime, PlanIsComplete, TargetsGone

\* Without busy files the walk reports all that is there.
LEMMA ScanIsComplete ==
    ASSUME GoneInv, TypeOK', "busy" \notin Faults, NEW unreadable, NEW busy,
           Scan(unreadable, busy)
    PROVE  GoneInv'
<1> USE DEF trees, database, plan, summary, budgets
<1>1. unreadable = {} /\ busy = {}
  BY DEF Scan, Fault
<1>2. live' = { path \in Paths \ {<<>>} : Visible(path) # 0 }
  BY <1>1 DEF Scan, Walked
<1>3. UNCHANGED <<local, tombs>> /\ pc = "scan" /\ pc' = "live"
  BY DEF Scan
<1>4. tombs = {}
  BY <1>3 DEF GoneInv, SubtreesInTime
<1>5. LocalClosed'
  BY <1>3 DEF GoneInv, LocalClosed
<1>6. AncestorClosed(live')
  <2> SUFFICES ASSUME NEW path \in live', NEW dir \in Ancestors(path) PROVE dir \in live'
    BY DEF AncestorClosed
  <2>1. path \in Paths /\ local[<<>>] # 0 /\ local[path] # 0
    BY <1>2 DEF Visible
  <2>2. dir \in Paths /\ dir # <<>>
    BY <2>1, PathsAssumption, AncestorsAreSeqs DEF Paths
  <2>3. Visible(dir) # 0
    BY <2>1 DEF GoneInv, LocalClosed, Visible
  <2> QED
    BY <1>2, <2>2, <2>3
<1>7. \A path \in Paths \ {<<>>} : path \notin live' => Gone(path)'
  BY <1>2, <1>3 DEF Gone, Visible
<1> QED
  BY <1>3, <1>4, <1>5, <1>6, <1>7
  DEF GoneInv, SubtreesGone, SubtreesInTime, PlanIsComplete, TargetsGone

\* The steps up to the plan.
LEMMA ScanGone ==
    ASSUME "busy" \notin Faults
    PROVE  GoneInv /\ TypeOK' /\ (StartRun \/ ScanSteps) => GoneInv'
<1> SUFFICES ASSUME GoneInv, TypeOK', StartRun \/ ScanSteps PROVE GoneInv'
  OBVIOUS
<1> USE DEF trees, database, plan, summary, budgets
<1>1. CASE StartRun
  BY <1>1, GoneQuiet DEF StartRun
<1>2. ASSUME NEW unreadable, NEW busy, Scan(unreadable, busy) PROVE GoneInv'
  BY <1>2, ScanIsComplete
<1>3. CASE BuildLivePlan
  <2>1. /\ tombs' = AddDeletedSubtrees({}, (live \cap Dirs) \ LocalDirs)
        /\ live' = { path \in live : ~CoveredBySome(tombs', path) }
        /\ pc = "live" /\ pc' = "inventory" /\ UNCHANGED <<local, touched>>
    BY <1>3 DEF BuildLivePlan
  <2>2. \A path \in Paths : Gone(path) => Gone(path)'
    BY <2>1, GoneStays
  <2>3. LocalClosed'
    BY <2>1 DEF GoneInv, LocalClosed
  <2>4. AncestorClosed(live) /\ \A path \in Paths \ {<<>>} : path \notin live => Gone(path)
    BY <2>1 DEF GoneInv, PlanIsComplete
  <2>5. \A prefix \in tombs' : prefix \in live /\ prefix \in Paths /\ Visible(prefix) = 0
    BY <2>1 DEF AddDeletedSubtrees, LocalDirs, Paths
  <2>6. ASSUME NEW prefix \in tombs', NEW path \in Paths, Covers(prefix, path)
        PROVE  Gone(path)
    <3>1. CASE prefix # <<>>
      BY <2>5, <2>6, <3>1, BelowMissing DEF GoneInv, Gone
    <3>2. CASE prefix = <<>>
      BY <2>5, <3>2 DEF Gone, Visible
    <3> QED
      BY <3>1, <3>2
  <2>7. SubtreesGone'
    BY <2>2, <2>6 DEF SubtreesGone
  <2>8. AncestorClosed(live')
    <3> SUFFICES ASSUME NEW path \in live', NEW dir \in Ancestors(path) PROVE dir \in live'
      BY DEF AncestorClosed
    <3>1. path \in live /\ ~CoveredBySome(tombs', path) /\ dir \in live
      BY <2>1, <2>4 DEF AncestorClosed
    <3>2. path \in Seq(STRING) /\ tombs' \subseteq Seq(STRING)
      BY <2>5, <3>1, PathsAssumption DEF GoneInv, TypeOK
    <3>3. dir \in Seq(STRING) /\ Covers(dir, path)
      BY <3>2, AncestorCovers
    <3>4. \A prefix \in tombs' : Covers(prefix, dir) => Covers(prefix, path)
      BY <3>2, <3>3, CoversTransitive
    <3>5. ~CoveredBySome(tombs', dir)
      BY <3>1, <3>4 DEF CoveredBySome
    <3> QED
      BY <2>1, <3>1, <3>5
  <2>9. \A path \in Paths \ {<<>>} : path \notin live' => Gone(path)
    BY <2>1, <2>4, <2>6 DEF CoveredBySome
  <2> QED
    BY <2>1, <2>2, <2>3, <2>7, <2>8, <2>9
    DEF GoneInv, SubtreesInTime, PlanIsComplete, TargetsGone
<1>4. CASE CollisionFails
  BY <1>4, GoneQuiet DEF CollisionFails, FailRoot
<1>5. CASE UseCache
  BY <1>5, GoneQuiet DEF UseCache
<1>6. CASE RemoteRootNotFound
  BY <1>6, GoneQuiet DEF RemoteRootNotFound
<1>7. CASE ListRemote
  BY <1>7, GoneQuiet DEF ListRemote
<1>8. CASE PersistInventory
  BY <1>8, GoneQuiet DEF PersistInventory
<1> QED
  BY <1>1, <1>2, <1>3, <1>4, <1>5, <1>6, <1>7, <1>8 DEF ScanSteps

\* New deleted subtrees keep the invariant when they have gone.
LEMMA GoneSubtrees ==
    ASSUME GoneInv, TypeOK', UNCHANGED <<local, live, touched, pc>>,
           pc \notin {"idle", "scan", "live", "delete"},
           NEW new, tombs' = AddDeletedSubtrees(tombs, new),
           \A prefix \in new, path \in Paths : Covers(prefix, path) => Visible(path) = 0
    PROVE  GoneInv'
<1>1. \A path \in Paths : Gone(path) => Gone(path)'
  BY GoneStays
<1>2. LocalClosed'
  BY DEF GoneInv, LocalClosed
<1>3. tombs' \subseteq tombs \cup new
  BY DEF AddDeletedSubtrees
<1>4. \A prefix \in tombs \cup new, path \in Paths : Covers(prefix, path) => Gone(path)
  BY DEF GoneInv, SubtreesGone, Gone
<1>5. SubtreesGone'
  BY <1>1, <1>3, <1>4 DEF SubtreesGone
<1> QED
  BY <1>1, <1>2, <1>5, GoneStep

\* The steps between and at the start of operations: the targets of the delete phase
\* are outside the plan.
LEMMA PhaseGone == GoneInv /\ TypeOK' /\ PhaseSteps => GoneInv'
<1> SUFFICES ASSUME GoneInv, TypeOK', PhaseSteps PROVE GoneInv'
  OBVIOUS
<1> USE DEF trees, database, plan, summary, budgets
<1>1. TypeOK /\ LocalClosed
  BY DEF GoneInv
<1>2. CASE StartCreates
  BY <1>2, GoneQuiet DEF StartCreates
<1>3. CASE StartUploads
  BY <1>3, GoneQuiet DEF StartUploads
<1>4. CASE StartDeletes
  <2>1. CASE pc' = "finish"
    BY <1>4, <2>1, GoneQuiet DEF StartDeletes
  <2>2. CASE pc' # "finish"
    <3>1. /\ todo' = CoalescedDeletes(KnownLive(live \cap Dirs, LiveFiles, tombs), inventory)
          /\ UNCHANGED <<local, live, tombs, touched, task>> /\ task = NoTasks
          /\ pc = "upload" /\ pc' = "delete"
      BY <1>4, <2>2 DEF StartDeletes, PhaseOver, Idle
    <3>2. \A path \in Paths : Gone(path) => Gone(path)'
      BY <3>1, GoneStays
    <3>3. LocalClosed' /\ SubtreesGone' /\ SubtreesInTime' /\ PlanIsComplete'
      BY <3>1, <3>2
      DEF GoneInv, LocalClosed, SubtreesGone, SubtreesInTime, PlanIsComplete, AncestorClosed
    <3>4. ASSUME NEW target \in Paths, NEW path \in Paths, Target(target)', Covers(target, path)
          PROVE  Gone(path)
      <4>1. target \in todo'
        BY <3>1, <3>4 DEF Target, NoTasks
      <4>2. target # <<>> /\ target \notin KnownLive(live \cap Dirs, LiveFiles, tombs)
        BY <1>1, <3>1, <4>1, TargetIsNotLive DEF TypeOK
      <4> QED
        BY <3>1, <3>4, <4>2, NothingLiveBelow
    <3>5. TargetsGone'
      BY <3>2, <3>4 DEF TargetsGone
    <3> QED
      BY <3>3, <3>5 DEF GoneInv
  <2> QED
    BY <2>1, <2>2
<1>5. CASE EndDeletes
  BY <1>5, GoneQuiet DEF EndDeletes
<1>6. CASE FinishRun
  BY <1>6, GoneEnd DEF FinishRun, EndRun
<1>7. ASSUME NEW batch \in SUBSET Paths, StartBatch(batch) PROVE GoneInv'
  <2> DEFINE known == { path \in batch : ~CoveredBySome(tombs, path) }
             gone == { path \in known : MissingAncestors(path, LocalDirs) # {} }
             new == { Shortest(MissingAncestors(path, LocalDirs)) : path \in gone }
  <2>1. \A prefix \in new, path \in Paths : Covers(prefix, path) => Visible(path) = 0
    BY <1>1, MissingIsGone
  <2>2. tombs' = AddDeletedSubtrees(tombs, new)
    BY <1>7 DEF StartBatch
  <2>3. UNCHANGED <<local, live, touched, pc>> /\ pc \in {"create", "upload"}
    BY <1>7 DEF StartBatch
  <2> HIDE DEF new
  <2> QED
    BY <2>1, <2>2, <2>3, GoneSubtrees
<1>8. ASSUME NEW path \in Paths, StartDelete(path) PROVE GoneInv'
  <2>1. \A other \in Paths : Target(other)' => Target(other)
    BY <1>1, <1>8 DEF StartDelete, Target, Answer, TypeOK
  <2> QED
    BY <1>8, <2>1, GoneQuiet DEF StartDelete
<1>9. ASSUME NEW path \in Paths, CheckDelete(path) PROVE GoneInv'
  <2>1. Target(path) /\ todo' = todo /\ \E answer : Answer(path, answer)
    BY <1>9 DEF CheckDelete, Target
  <2>2. \A other \in Paths : Target(other)' => Target(other)
    BY <1>1, <2>1, AnswerIsNoTarget
  <2> QED
    BY <1>9, <2>2, GoneQuiet DEF CheckDelete
<1> QED
  BY <1>2, <1>3, <1>4, <1>5, <1>6, <1>7, <1>8, <1>9 DEF PhaseSteps

\* Requests, their answers and their joins.
LEMMA TaskGone == GoneInv /\ TypeOK' /\ TaskSteps => GoneInv'
<1> SUFFICES ASSUME GoneInv, TypeOK', TaskSteps PROVE GoneInv'
  OBVIOUS
<1> USE DEF trees, database, plan, summary, budgets
<1>1. TypeOK /\ LocalClosed
  BY DEF GoneInv
<1>2. PICK path \in Paths :
        \/ TaskSucceeds(path) \/ TaskRejected(path) \/ TaskCancelled(path)
        \/ JoinCreate(path) \/ JoinUpload(path) \/ JoinDelete(path)
  BY DEF TaskSteps
<1>3. ASSUME UNCHANGED <<local, live, tombs, todo, touched, pc>>,
             NEW answer, Answer(path, answer), task[path] # "none",
             pc \notin {"idle", "scan"} \/ pc' \in {"idle", "scan"}
      PROVE  GoneInv'
  <2>1. Target(path)
    BY <1>3 DEF Target
  <2>2. \A other \in Paths : Target(other)' => Target(other)
    BY <1>1, <1>3, <2>1, AnswerIsNoTarget
  <2> QED
    BY <1>3, <2>2, GoneQuiet
<1>4. ASSUME JoinStop(path), UNCHANGED <<live, tombs, touched>>, pc \notin {"idle", "scan"}
      PROVE  GoneInv'
  BY <1>4, GoneQuiet DEF JoinStop
<1>5. CASE TaskSucceeds(path)
  BY <1>3, <1>5 DEF TaskSucceeds
<1>6. CASE TaskRejected(path)
  BY <1>3, <1>6 DEF TaskRejected
<1>7. CASE TaskCancelled(path)
  BY <1>3, <1>7 DEF TaskCancelled
<1>8. CASE JoinCreate(path)
  BY <1>3, <1>4, <1>8 DEF JoinCreate
<1>9. CASE JoinUpload(path)
  <2>1. CASE NewlyGone(path)
             /\ tombs' = AddDeletedSubtrees(tombs, {Shortest(MissingAncestors(path, LocalDirs))})
             /\ UNCHANGED <<trees, pc>>
    <3>1. \A other \in Paths :
              Covers(Shortest(MissingAncestors(path, LocalDirs)), other) => Visible(other) = 0
      BY <1>1, <2>1, MissingIsGone DEF NewlyGone
    <3>2. UNCHANGED <<local, live, touched, pc>> /\ pc = "upload"
      BY <1>9, <2>1 DEF JoinUpload
    <3> QED
      BY <2>1, <3>1, <3>2, GoneSubtrees
  <2>2. CASE Answer(path, "none") /\ UNCHANGED <<trees, pc, tombs>>
    BY <1>3, <1>9, <2>2 DEF JoinUpload
  <2>3. CASE JoinStop(path) /\ UNCHANGED tombs
    BY <1>4, <1>9, <2>3 DEF JoinUpload
  <2> QED
    BY <1>9, <2>1, <2>2, <2>3 DEF JoinUpload
<1>10. CASE JoinDelete(path)
  BY <1>3, <1>4, <1>10 DEF JoinDelete
<1> QED
  BY <1>2, <1>5, <1>6, <1>7, <1>8, <1>9, <1>10

\* Faults: what somebody else changes counts as gone.
LEMMA FaultGone == GoneInv /\ TypeOK' /\ FaultSteps => GoneInv'
<1> SUFFICES ASSUME GoneInv, TypeOK', FaultSteps PROVE GoneInv'
  OBVIOUS
<1> USE DEF trees, database, plan, summary, budgets
<1>1. TypeOK /\ LocalClosed
  BY DEF GoneInv
<1>2. ASSUME UNCHANGED <<local, live, tombs, todo, task, pc>>, touched \subseteq touched'
      PROVE  GoneInv'
  BY <1>2, GoneQuiet DEF Target
<1>3. CASE QuotaExceeded
  BY <1>3, GoneQuiet DEF QuotaExceeded, FailRoot
<1>4. CASE Cancel
  BY <1>2, <1>4 DEF Cancel
<1>5. CASE Crash
  BY <1>5, GoneEnd DEF Crash, EndRun
<1>6. CASE DatabaseFails
  BY <1>6, GoneEnd DEF DatabaseFails, EndRun
<1>7. CASE Unmount \/ Mount
  <2>1. /\ touched' = Paths /\ UNCHANGED <<live, tombs, todo, task, pc>>
        /\ \A path \in Paths : path # <<>> => local'[path] = local[path]
    BY <1>1, <1>7 DEF Unmount, Mount, TypeOK
  <2>2. \A path \in Paths : Gone(path)'
    BY <2>1 DEF Gone
  <2>3. LocalClosed'
    <3> SUFFICES ASSUME NEW path \in Paths, local'[path] # 0, NEW dir \in Ancestors(path)
                 PROVE  local'[dir] # 0
      BY DEF LocalClosed
    <3>1. path \in Seq(STRING) /\ dir \in Paths
      BY PathsAssumption DEF Paths
    <3>2. dir # <<>> /\ Len(dir) < Len(path) /\ dir \in Seq(STRING)
      BY <3>1, AncestorCovers
    <3>3. path # <<>>
      BY <3>1, <3>2
    <3> QED
      BY <1>1, <2>1, <3>1, <3>2, <3>3 DEF LocalClosed
  <2>4. SubtreesGone' /\ SubtreesInTime' /\ PlanIsComplete' /\ TargetsGone'
    BY <2>1, <2>2
    DEF GoneInv, SubtreesGone, SubtreesInTime, PlanIsComplete, TargetsGone, AncestorClosed
  <2> QED
    BY <2>3, <2>4 DEF GoneInv
<1>8. ASSUME NEW kind, InventoryFails(kind) PROVE GoneInv'
  BY <1>8, GoneQuiet DEF InventoryFails, FailRoot, PartialFailRoot
<1>9. ASSUME NEW dir \in Dirs, ListingNotFound(dir) PROVE GoneInv'
  BY <1>9, GoneQuiet DEF ListingNotFound
<1>10. ASSUME NEW path \in Paths, NEW missed \in SUBSET Paths, ListingShifted(path, missed)
       PROVE  GoneInv'
  BY <1>10, GoneQuiet DEF ListingShifted
<1>11. ASSUME NEW path \in Paths, TaskFails(path) PROVE GoneInv'
  <2>1. UNCHANGED <<local, live, tombs, todo, touched, pc>>
    BY <1>11 DEF TaskFails
  <2>2. PICK answer \in {"fail", "stop", "skip"} : Answer(path, answer)
    BY <1>11 DEF TaskFails
  <2>3. Target(path)
    BY <1>11 DEF TaskFails, Target
  <2>4. \A other \in Paths : Target(other)' => Target(other)
    BY <1>1, <2>1, <2>2, <2>3, AnswerIsNoTarget
  <2> QED
    BY <2>1, <2>4, GoneQuiet
<1>12. ASSUME NEW path \in Paths, RemoveRemote(path) PROVE GoneInv'
  BY <1>2, <1>12 DEF RemoveRemote
<1>13. ASSUME NEW path \in Paths, NEW kind, JoinInterrupted(path, kind) PROVE GoneInv'
  BY <1>13, GoneEnd DEF JoinInterrupted, EndRun
<1> QED
  BY <1>3, <1>4, <1>5, <1>6, <1>7, <1>8, <1>9, <1>10, <1>11, <1>12, <1>13 DEF FaultSteps

\* A change of the local tree keeps it a tree, and what it brings back is touched.
LEMMA EditGone == GoneInv /\ TypeOK' /\ EditSteps => GoneInv'
<1> SUFFICES ASSUME GoneInv, TypeOK', EditSteps PROVE GoneInv'
  OBVIOUS
<1> USE DEF trees, database, plan, summary, budgets
<1>1. TypeOK /\ LocalClosed
  BY DEF GoneInv
<1>2. ASSUME NEW changed, Edit(changed), LocalClosed', local'[<<>>] = local[<<>>],
             \A path \in Paths \ changed : local'[path] \in {0, local[path]}
      PROVE  GoneInv'
  <2>1. touched' = touched \cup changed /\ UNCHANGED <<live, tombs, todo, task, pc>>
    BY <1>2 DEF Edit
  <2>2. \A path \in Paths : Gone(path) => Gone(path)'
    BY <1>2, <2>1 DEF Gone, Visible
  <2>3. SubtreesGone'
    BY <2>1, <2>2 DEF GoneInv, SubtreesGone
  <2>4. pc' \in {"idle", "scan", "live"} => tombs' = {}
    BY <2>1 DEF GoneInv, SubtreesInTime
  <2>5. \A path \in Paths : Target(path)' => Target(path)
    BY <2>1 DEF Target
  <2> QED
    BY <1>2, <2>1, <2>2, <2>3, <2>4, <2>5, GoneStep
<1>3. \A path \in Paths : Ancestors(path) \subseteq Paths
  BY PathsAssumption DEF Paths
<1>4. ASSUME NEW path \in Paths, NEW version, version # 0, path # <<>>,
             Ancestors(path) \subseteq LocalDirs, local[<<>>] # 0,
             local' = [local EXCEPT ![path] = version], Edit({path})
      PROVE  GoneInv'
  <2>1. \A other \in Paths : local'[other] = IF other = path THEN version ELSE local[other]
    BY <1>1, <1>4 DEF TypeOK
  <2>2. \A dir \in LocalDirs : dir \in Paths /\ local[dir] # 0
    BY <1>4 DEF LocalDirs, Visible, Paths
  <2>3. LocalClosed'
    BY <1>1, <1>3, <1>4, <2>1, <2>2 DEF LocalClosed
  <2>4. local'[<<>>] = local[<<>>]
    BY <1>4, <2>1, PathsAssumption DEF Paths
  <2> QED
    BY <1>2, <1>4, <2>1, <2>3, <2>4
<1>5. ASSUME NEW file \in Files, WriteLocal(file) PROVE GoneInv'
  <2>1. file \in Paths /\ file # <<>>
    BY PathsAssumption DEF Paths
  <2>2. last[file] + 1 # 0
    BY <1>1, NaturalVersions
  <2>3. local[<<>>] # 0
    BY <1>5 DEF WriteLocal, Visible
  <2> QED
    BY <1>4, <1>5, <2>1, <2>2, <2>3 DEF WriteLocal
<1>6. ASSUME NEW path \in Paths, RestoreLocal(path) PROVE GoneInv'
  <2>1. path # <<>> /\ local[<<>>] # 0
    BY <1>6 DEF RestoreLocal, Visible
  <2> DEFINE version == IF path \in Files THEN last[path] ELSE 1
  <2>2. version # 0 /\ local' = [local EXCEPT ![path] = version]
    BY <1>6 DEF RestoreLocal
  <2> HIDE DEF version
  <2> QED
    BY <1>4, <1>6, <2>1, <2>2 DEF RestoreLocal
<1>7. ASSUME NEW path \in Paths, RemoveLocal(path) PROVE GoneInv'
  <2>1. \A other \in Paths : local'[other] = IF Covers(path, other) THEN 0 ELSE local[other]
    BY <1>7 DEF RemoveLocal, Without
  <2>2. \A other \in Paths : other \in Seq(STRING)
    BY PathsAssumption
  <2>3. ASSUME NEW other \in Paths, local'[other] # 0, NEW dir \in Ancestors(other)
        PROVE  local'[dir] # 0
    <3>1. local[other] # 0 /\ ~Covers(path, other) /\ dir \in Paths
      BY <1>3, <2>1, <2>3
    <3>2. Covers(dir, other)
      BY <2>2, AncestorCovers
    <3>3. ~Covers(path, dir)
      BY <2>2, <3>1, <3>2, CoversTransitive
    <3> QED
      BY <1>1, <2>1, <3>1, <3>3 DEF LocalClosed
  <2>4. LocalClosed'
    BY <2>3 DEF LocalClosed
  <2>5. <<>> \in Paths /\ ~Covers(path, <<>>)
    BY <1>7, <2>2, PathsAssumption DEF RemoveLocal, Covers, Paths
  <2>6. local'[<<>>] = local[<<>>]
    BY <2>1, <2>5
  <2>7. Edit({ p \in Paths : Covers(path, p) })
    BY <1>7 DEF RemoveLocal
  <2> QED
    BY <1>2, <2>1, <2>4, <2>6, <2>7
<1> QED
  BY <1>5, <1>6, <1>7 DEF EditSteps

\* Every step preserves the invariant.
LEMMA NextGone ==
    ASSUME "busy" \notin Faults
    PROVE  GoneInv /\ [Next]_vars => GoneInv'
<1> SUFFICES ASSUME GoneInv, [Next]_vars PROVE GoneInv'
  OBVIOUS
<1>1. TypeOK'
  BY NextType DEF GoneInv
<1>2. CASE UNCHANGED vars
  BY <1>1, <1>2, GoneQuiet DEF vars, trees, database, plan, budgets, Target
<1>3. CASE Next
  BY <1>1, <1>3, ScanGone, PhaseGone, TaskGone, FaultGone, EditGone DEF Next
<1> QED
  BY <1>2, <1>3

\* What a request of the delete phase removes is below its path.
LEMMA RemovedIsGone ==
    ASSUME GoneInv, pc = "delete", NEW paths \in SUBSET Paths,
           \A target \in paths : task[target] = "queued",
           NEW path \in Paths, remote[path] # 0, Applied(paths)[path] = 0
    PROVE  Gone(path)
<1>1. CoveredBySome(paths, path)
  BY DEF Applied
<1> QED
  BY <1>1 DEF CoveredBySome, GoneInv, TargetsGone, Target

\* A step of the delete phase removes only what has gone.
LEMMA DeleteStep ==
    ASSUME GoneInv, Next, NEW path \in Paths,
           pc = "delete", remote[path] # 0, remote'[path] = 0
    PROVE  path \in touched' \/ Visible(path) = 0
<1> USE DEF trees, database, plan, summary, budgets
<1>1. ASSUME touched' = touched, NEW paths \in SUBSET Paths,
             \A target \in paths : task[target] = "queued", remote' = Applied(paths)
      PROVE  path \in touched' \/ Visible(path) = 0
  BY <1>1, RemovedIsGone DEF Gone
<1>2. ASSUME touched' = touched, NEW except, Dropped(except)
      PROVE  path \in touched' \/ Visible(path) = 0
  <2>1. PICK done \in SUBSET { p \in Paths \ except : task[p] = "queued" /\ Acceptable(p) } :
            remote' = Applied(done)
    BY <1>2 DEF Dropped
  <2> QED
    BY <1>1, <1>2, <2>1
<1>3. ~UNCHANGED remote
  OBVIOUS
<1>4. CASE StartRun \/ ScanSteps
  BY <1>3, <1>4
  DEF StartRun, ScanSteps, Scan, BuildLivePlan, CollisionFails, UseCache, RemoteRootNotFound,
      ListRemote, PersistInventory
<1>5. CASE PhaseSteps
  BY <1>3, <1>5
  DEF PhaseSteps, StartCreates, StartUploads, StartDeletes, EndDeletes, FinishRun, StartBatch,
      StartDelete, CheckDelete
<1>6. CASE TaskSteps
  <2>1. PICK target \in Paths : TaskSucceeds(target) \/ JoinStop(target)
    BY <1>3, <1>6 DEF TaskSteps, TaskRejected, TaskCancelled, JoinCreate, JoinUpload, JoinDelete
  <2>2. touched' = touched
    BY <1>6 DEF TaskSteps, TaskSucceeds, TaskRejected, TaskCancelled, JoinCreate, JoinUpload,
                JoinDelete
  <2>3. CASE TaskSucceeds(target)
    BY <1>1, <2>2, <2>3 DEF TaskSucceeds
  <2>4. CASE JoinStop(target)
    BY <1>2, <2>2, <2>4 DEF JoinStop
  <2> QED
    BY <2>1, <2>3, <2>4
<1>7. CASE FaultSteps
  <2>1. CASE Crash \/ DatabaseFails
    BY <1>2, <2>1 DEF Crash, DatabaseFails
  <2>2. ASSUME NEW target \in Paths, NEW kind, JoinInterrupted(target, kind)
        PROVE  path \in touched' \/ Visible(path) = 0
    BY <1>2, <2>2 DEF JoinInterrupted
  <2>3. ASSUME NEW target \in Paths, TaskFails(target)
        PROVE  path \in touched' \/ Visible(path) = 0
    <3>1. touched' = touched /\ task[target] = "queued" /\ remote' = Applied({target})
      BY <1>3, <2>3 DEF TaskFails
    <3> QED
      BY <1>1, <3>1
  <2>4. ASSUME NEW target \in Paths, RemoveRemote(target)
        PROVE  path \in touched' \/ Visible(path) = 0
    BY <2>4 DEF RemoveRemote, Without
  <2>5. ~(\E dir \in Dirs : ListingNotFound(dir))
        /\ ~(\E p \in Paths, missed \in SUBSET Paths : ListingShifted(p, missed))
    BY DEF ListingNotFound, ListingShifted
  <2>6. ~QuotaExceeded /\ ~Cancel /\ ~Unmount /\ ~Mount
        /\ ~\E kind \in FaultKinds : InventoryFails(kind)
    BY <1>3 DEF QuotaExceeded, Cancel, Unmount, Mount, InventoryFails
  <2> QED
    BY <1>7, <2>1, <2>2, <2>3, <2>4, <2>5, <2>6 DEF FaultSteps
<1>8. CASE EditSteps
  BY <1>3, <1>8 DEF EditSteps, WriteLocal, RestoreLocal, RemoveLocal, Edit
<1> QED
  BY <1>4, <1>5, <1>6, <1>7, <1>8 DEF Next

\* apply_deletes removes nothing that has been on the local disk, unchanged, since the
\* scan: through every order of edits, requests, lost answers, crashes and removals by
\* others, as long as the scan can read what is there.
THEOREM DeletesAreJustified ==
    ASSUME "busy" \notin Faults
    PROVE  Spec => DeletesOnlyWhatWasGone
<1>1. GoneInv /\ [Next]_vars =>
          [\A path \in Paths :
              pc = "delete" /\ remote[path] # 0 /\ remote'[path] = 0
              => path \in touched' \/ Visible(path) = 0]_vars
  BY DeleteStep
<1>2. GoneInv /\ [Next]_vars => GoneInv'
  BY NextGone
<1> QED
  BY <1>1, <1>2, InitGone, PTL DEF Spec, DeletesOnlyWhatWasGone

-----------------------------------------------------------------------------
(* What is in progress, and what it has done on the disk.                    *)

\* Requests are under way only in the three phases that join them.
TasksInTime == pc \notin {"create", "upload", "delete"} => task = NoTasks

\* The first two phases work on the live plan.
WorkIsPlanned ==
    \A path \in Paths : path \in todo \/ task[path] # "none" =>
        /\ pc = "create" => path = <<>> \/ path \in live \cap Dirs
        /\ pc = "upload" => path \in live \cap Files

\* The deletes run one at a time.
OneDelete ==
    pc = "delete" =>
        \A one, other \in Paths : task[one] # "none" /\ task[other] # "none" => one = other

\* An answer "ok" is true until somebody else removes what was made.
AnswersAreEffects ==
    \A path \in Paths : task[path] = "ok" =>
        /\ pc \in {"create", "upload"} =>
              remote[path] # 0 \/ (path \in touched /\ "external" \in Faults)
        /\ pc = "delete" => \A other \in Paths : Covers(path, other) => remote[other] = 0

\* What is on Yandex Disk is in directories that are there.
RemoteClosed ==
    \A dir, path \in Paths : Covers(dir, path) /\ remote[path] # 0 => remote[dir] # 0

\* Directories have no versions.
PlainDirectories == \A dir \in Dirs : local[dir] \in {0, 1} /\ remote[dir] \in {0, 1}

WorkInv ==
    /\ TypeOK
    /\ TasksInTime /\ WorkIsPlanned /\ OneDelete /\ AnswersAreEffects
    /\ RemoteClosed /\ PlainDirectories

\* The directory a path is in is next above it.
LEMMA ParentIsNext ==
    ASSUME NEW path \in Paths, path # <<>>
    PROVE  /\ Parent(path) \in Paths
           /\ \A dir \in Paths : Covers(dir, path) /\ dir # path => Covers(dir, Parent(path))
<1>1. path \in Seq(STRING) /\ Len(path) \in Nat \ {0}
  BY PathsAssumption
<1>2. Parent(path) \in Seq(STRING) /\ Len(Parent(path)) = Len(path) - 1
  <2>1. ASSUME NEW n \in 0..Len(path)
        PROVE  SubSeq(path, 1, n) \in Seq(STRING) /\ Len(SubSeq(path, 1, n)) = n
    BY <1>1, <2>1
  <2>2. Len(path) - 1 \in 0..Len(path)
    BY <1>1
  <2> QED
    BY <2>1, <2>2 DEF Parent
<1>3. Covers(Parent(path), path)
  BY <1>1, <1>2 DEF Parent, Covers
<1>4. Parent(path) \in Paths
  <2>1. CASE Parent(path) = <<>>
    BY <2>1, PathsAssumption DEF Paths
  <2>2. CASE Parent(path) # <<>>
    BY <1>1, <1>2, <1>3, <2>2, CoversIsAncestor, PathsAssumption DEF Paths
  <2> QED
    BY <2>1, <2>2
<1>5. ASSUME NEW dir \in Paths, Covers(dir, path), dir # path PROVE Covers(dir, Parent(path))
  <2>1. dir \in Seq(STRING)
    BY PathsAssumption
  <2>2. Len(dir) < Len(path)
    <3>1. CASE dir = <<>>
      BY <1>1, <3>1
    <3>2. CASE dir # <<>>
      BY <1>1, <1>5, <2>1, <3>2, CoversIsAncestor, AncestorCovers
    <3> QED
      BY <3>1, <3>2
  <2> QED
    BY <1>1, <1>2, <1>3, <1>5, <2>1, <2>2, CoversLinear
<1> QED
  BY <1>4, <1>5

\* Requests of the first two phases add to the disk.
LEMMA AppliedAdds ==
    ASSUME pc # "delete", NEW paths, \A path \in paths : Acceptable(path), NEW path \in Paths
    PROVE  /\ path \in paths => Applied(paths)[path] # 0
           /\ path \notin paths => Applied(paths)[path] = remote[path]
  BY DEF Applied, Acceptable

\* Requests leave a tree of plain directories on the disk.
LEMMA AppliedTree ==
    ASSUME WorkInv, NEW paths \in SUBSET Paths, \A path \in paths : Acceptable(path)
    PROVE  /\ \A dir, path \in Paths :
                 Covers(dir, path) /\ Applied(paths)[path] # 0 => Applied(paths)[dir] # 0
           /\ \A dir \in Dirs : Applied(paths)[dir] \in {0, 1}
<1>1. ASSUME NEW dir \in Paths, NEW path \in Paths,
             Covers(dir, path), Applied(paths)[path] # 0, pc = "delete"
      PROVE  Applied(paths)[dir] # 0
  <2>1. ~CoveredBySome(paths, path) /\ remote[path] # 0
    BY <1>1 DEF Applied
  <2>2. ~CoveredBySome(paths, dir)
    BY <1>1, <2>1, CoversTransitive, PathsAssumption DEF CoveredBySome
  <2>3. remote[dir] # 0
    BY <1>1, <2>1 DEF WorkInv, RemoteClosed
  <2> QED
    BY <1>1, <2>2, <2>3 DEF Applied
<1>2. ASSUME NEW dir \in Paths, NEW path \in Paths,
             Covers(dir, path), Applied(paths)[path] # 0, pc # "delete"
      PROVE  Applied(paths)[dir] # 0
  <2>1. CASE remote[path] # 0
    BY <1>2, <2>1, AppliedAdds DEF WorkInv, RemoteClosed
  <2>2. CASE remote[path] = 0
    <3>1. path \in paths
      BY <1>2, <2>2, AppliedAdds
    <3>2. path = <<>> \/ remote[Parent(path)] # 0
      BY <1>2, <3>1 DEF Acceptable
    <3>3. CASE dir = path
      BY <1>2, <3>3
    <3>4. CASE dir # path
      <4>1. path # <<>>
        BY <1>2, <3>4, PathsAssumption DEF Covers
      <4>2. remote[dir] # 0
        BY <1>2, <3>2, <3>4, <4>1, ParentIsNext DEF WorkInv, RemoteClosed
      <4> QED
        BY <1>2, <4>2, AppliedAdds
    <3> QED
      BY <3>3, <3>4
  <2> QED
    BY <2>1, <2>2
<1>3. \A dir \in Dirs : Applied(paths)[dir] \in {0, 1}
  <2>1. \A dir \in Dirs : dir \in Paths /\ dir \notin Files /\ remote[dir] \in {0, 1}
    BY PathsAssumption DEF WorkInv, PlainDirectories, Paths
  <2> QED
    BY <2>1 DEF Applied
<1> QED
  BY <1>1, <1>2, <1>3

\* A removal leaves a tree of plain directories.
LEMMA WithoutTree ==
    ASSUME WorkInv, NEW gone \in Paths
    PROVE  /\ \A dir, path \in Paths :
                 Covers(dir, path) /\ Without(remote, gone)[path] # 0 => Without(remote, gone)[dir] # 0
           /\ \A dir \in Dirs : Without(remote, gone)[dir] \in {0, 1}
           /\ \A path \in Paths : Without(remote, gone)[path] = 0 \/ ~Covers(gone, path)
<1>1. ASSUME NEW dir \in Paths, NEW path \in Paths,
             Covers(dir, path), Without(remote, gone)[path] # 0
      PROVE  Without(remote, gone)[dir] # 0
  <2>1. ~Covers(gone, path) /\ remote[path] # 0
    BY <1>1 DEF Without
  <2>2. ~Covers(gone, dir)
    BY <1>1, <2>1, CoversTransitive, PathsAssumption
  <2>3. remote[dir] # 0
    BY <1>1, <2>1 DEF WorkInv, RemoteClosed
  <2> QED
    BY <2>2, <2>3 DEF Without
<1>2. \A dir \in Dirs : dir \in Paths /\ remote[dir] \in {0, 1}
  BY DEF WorkInv, PlainDirectories, Paths
<1> QED
  BY <1>1, <1>2 DEF Without

\* Dropped requests, too.
LEMMA DroppedTree ==
    ASSUME WorkInv, NEW except, Dropped(except)
    PROVE  /\ RemoteClosed' /\ \A dir \in Dirs : remote'[dir] \in {0, 1}
           /\ task' = NoTasks
<1>1. PICK done \in SUBSET { path \in Paths \ except : task[path] = "queued" /\ Acceptable(path) } :
          remote' = Applied(done)
  BY DEF Dropped
<1>2. done \in SUBSET Paths /\ \A path \in done : Acceptable(path)
  BY <1>1
<1>3. task' = NoTasks
  BY DEF Dropped
<1> QED
  BY <1>1, <1>2, <1>3, AppliedTree DEF RemoteClosed

\* A step that leaves requests alone.
LEMMA WorkQuiet ==
    ASSUME WorkInv, TypeOK', UNCHANGED <<remote, task, todo, live, pc>>, touched \subseteq touched',
           \A dir \in Dirs : local'[dir] \in {0, 1}
    PROVE  WorkInv'
<1>1. TasksInTime' /\ WorkIsPlanned' /\ OneDelete'
  BY DEF WorkInv, TasksInTime, WorkIsPlanned, OneDelete, NoTasks
<1>2. AnswersAreEffects'
  BY DEF WorkInv, AnswersAreEffects
<1>3. RemoteClosed' /\ PlainDirectories'
  BY DEF WorkInv, RemoteClosed, PlainDirectories
<1> QED
  BY <1>1, <1>2, <1>3 DEF WorkInv

\* A step that ends with no request under way.
LEMMA WorkIdle ==
    ASSUME WorkInv, TypeOK', UNCHANGED local, task' = NoTasks, RemoteClosed',
           \A dir \in Dirs : remote'[dir] \in {0, 1},
           \A path \in todo' :
               /\ pc' = "create" => path = <<>> \/ path \in live' \cap Dirs
               /\ pc' = "upload" => path \in live' \cap Files
    PROVE  WorkInv'
<1>1. \A path \in Paths : task'[path] = "none"
  BY DEF NoTasks
<1>2. TasksInTime'
  BY DEF TasksInTime, NoTasks
<1>3. WorkIsPlanned' /\ OneDelete' /\ AnswersAreEffects'
  BY <1>1 DEF WorkIsPlanned, OneDelete, AnswersAreEffects
<1>4. PlainDirectories'
  BY DEF WorkInv, PlainDirectories
<1> QED
  BY <1>2, <1>3, <1>4 DEF WorkInv

\* The answer to one request, or its join.
LEMMA WorkAnswer ==
    ASSUME WorkInv, TypeOK', UNCHANGED <<local, todo, live, pc>>, touched' = touched,
           NEW path \in Paths, task[path] # "none", NEW answer, Answer(path, answer),
           \/ remote' = remote /\ answer # "ok"
           \/ remote' = Applied({path}) /\ Acceptable(path)
    PROVE  WorkInv'
<1>1. \A other \in Paths : task'[other] = IF other = path THEN answer ELSE task[other]
  BY DEF WorkInv, TypeOK, Answer
<1>2. TasksInTime'
  BY DEF WorkInv, TasksInTime, NoTasks
<1>3. WorkIsPlanned'
  BY <1>1 DEF WorkInv, WorkIsPlanned
<1>4. OneDelete'
  BY <1>1 DEF WorkInv, OneDelete
<1>5. RemoteClosed' /\ \A dir \in Dirs : remote'[dir] \in {0, 1}
  BY AppliedTree DEF WorkInv, RemoteClosed, PlainDirectories
<1>6. PlainDirectories'
  BY <1>5 DEF WorkInv, PlainDirectories
<1>7. AnswersAreEffects'
  <2> SUFFICES ASSUME NEW other \in Paths, task'[other] = "ok"
               PROVE  /\ pc \in {"create", "upload"} =>
                            remote'[other] # 0 \/ (other \in touched /\ "external" \in Faults)
                      /\ pc = "delete" => \A p \in Paths : Covers(other, p) => remote'[p] = 0
    BY DEF AnswersAreEffects
  <2>1. CASE remote' = remote /\ answer # "ok"
    BY <1>1, <2>1 DEF WorkInv, AnswersAreEffects
  <2>2. CASE remote' = Applied({path}) /\ Acceptable(path)
    <3>1. CASE pc \in {"create", "upload"}
      <4>1. remote'[path] # 0 /\ (other # path => remote'[other] = remote[other])
        BY <2>2, <3>1, AppliedAdds
      <4> QED
        BY <1>1, <3>1, <4>1 DEF WorkInv, AnswersAreEffects
    <3>2. CASE pc = "delete"
      <4>1. \A p \in Paths : remote'[p] = IF Covers(path, p) THEN 0 ELSE remote[p]
        BY <2>2, <3>2 DEF Applied, CoveredBySome
      <4> QED
        BY <1>1, <3>2, <4>1 DEF WorkInv, AnswersAreEffects
    <3> QED
      BY <3>1, <3>2
  <2> QED
    BY <2>1, <2>2
<1> QED
  BY <1>2, <1>3, <1>4, <1>5, <1>6, <1>7 DEF WorkInv

\* The root starts as a tree, and nothing is under way.
LEMMA InitWork == Init => WorkInv
<1> SUFFICES ASSUME Init PROVE WorkInv
  OBVIOUS
<1>1. TypeOK
  BY InitType
<1>2. TasksInTime /\ WorkIsPlanned /\ OneDelete /\ AnswersAreEffects
  BY DEF Init, TasksInTime, WorkIsPlanned, OneDelete, AnswersAreEffects, NoTasks
<1>3. PlainDirectories
  BY DEF Init, PlainDirectories, Paths
<1>4. RemoteClosed
  <2>1. PICK present \in SUBSET Paths :
            /\ <<>> \in present /\ AncestorClosed(present)
            /\ local = [path \in Paths |-> IF path \in present THEN 1 ELSE 0]
    BY DEF Init
  <2>2. \A path \in Paths : remote[path] # 0 <=> path \in present
    BY <2>1 DEF Init
  <2>3. ASSUME NEW dir \in Paths, NEW path \in present, Covers(dir, path) PROVE dir \in present
    BY <2>1, <2>3, CoversIsAncestor, PathsAssumption DEF AncestorClosed
  <2> QED
    BY <2>2, <2>3 DEF RemoteClosed
<1> QED
  BY <1>1, <1>2, <1>3, <1>4 DEF WorkInv

\* The steps up to the plan and between the phases.
LEMMA ScanWork == WorkInv /\ TypeOK' /\ (StartRun \/ ScanSteps) => WorkInv'
<1> SUFFICES ASSUME WorkInv, TypeOK', StartRun \/ ScanSteps PROVE WorkInv'
  OBVIOUS
<1> USE DEF trees, database, plan, summary, budgets
<1>1. ASSUME UNCHANGED <<local, remote, task>>, pc \notin {"create", "upload", "delete"},
             pc' \notin {"create", "upload", "delete"}
      PROVE  WorkInv'
  <2>1. task' = NoTasks
    BY <1>1 DEF WorkInv, TasksInTime
  <2>2. RemoteClosed' /\ \A dir \in Dirs : remote'[dir] \in {0, 1}
    BY <1>1 DEF WorkInv, RemoteClosed, PlainDirectories
  <2> QED
    BY <1>1, <2>1, <2>2, WorkIdle
<1> QED
  BY <1>1
  DEF ScanSteps, StartRun, Scan, BuildLivePlan, CollisionFails, FailRoot, UseCache,
      RemoteRootNotFound, ListRemote, PersistInventory

\* So do the steps that start operations and phases.
LEMMA PhaseWork == WorkInv /\ TypeOK' /\ PhaseSteps => WorkInv'
<1> SUFFICES ASSUME WorkInv, TypeOK', PhaseSteps PROVE WorkInv'
  OBVIOUS
<1> USE DEF trees, database, plan, summary, budgets
<1>1. TypeOK
  BY DEF WorkInv
<1>2. ASSUME UNCHANGED <<local, remote>>, task' = NoTasks,
             \A path \in todo' :
               /\ pc' = "create" => path = <<>> \/ path \in live' \cap Dirs
               /\ pc' = "upload" => path \in live' \cap Files
      PROVE  WorkInv'
  <2>1. RemoteClosed' /\ \A dir \in Dirs : remote'[dir] \in {0, 1}
    BY <1>2 DEF WorkInv, RemoteClosed, PlainDirectories
  <2> QED
    BY <1>2, <2>1, WorkIdle
<1>3. CASE StartCreates
  BY <1>2, <1>3 DEF StartCreates, PlannedCreates, WorkInv, TasksInTime
<1>4. CASE StartUploads
  BY <1>2, <1>4 DEF StartUploads, PhaseOver, Idle, Uploads, PlannedUploads, LiveFiles
<1>5. CASE StartDeletes
  BY <1>2, <1>5 DEF StartDeletes, PhaseOver, Idle
<1>6. CASE EndDeletes
  BY <1>2, <1>6 DEF EndDeletes, PhaseOver, Idle
<1>7. CASE FinishRun
  BY <1>2, <1>7 DEF FinishRun, EndRun, WorkInv, TasksInTime
<1>8. ASSUME NEW batch \in SUBSET Paths, StartBatch(batch) PROVE WorkInv'
  <2>1. /\ task = NoTasks /\ pc \in {"create", "upload"} /\ batch \subseteq todo
        /\ todo' = todo \ batch /\ UNCHANGED <<local, remote, live, pc>>
    BY <1>8 DEF StartBatch, Idle
  <2>2. \A path \in Paths : task'[path] \in {"none", "queued"}
                            /\ (task'[path] = "queued" => path \in batch)
    BY <1>8, <2>1 DEF StartBatch, NoTasks
  <2>3. TasksInTime' /\ OneDelete'
    BY <2>1 DEF TasksInTime, OneDelete
  <2>4. WorkIsPlanned'
    BY <2>1, <2>2 DEF WorkInv, WorkIsPlanned
  <2>5. AnswersAreEffects'
    BY <2>2 DEF AnswersAreEffects
  <2>6. RemoteClosed' /\ PlainDirectories'
    BY <2>1 DEF WorkInv, RemoteClosed, PlainDirectories
  <2> QED
    BY <2>3, <2>4, <2>5, <2>6 DEF WorkInv
<1>9. ASSUME NEW path \in Paths, StartDelete(path) PROVE WorkInv'
  <2>1. /\ task = NoTasks /\ pc = "delete" /\ UNCHANGED <<local, remote, live, pc>>
    BY <1>9 DEF StartDelete, Idle
  <2>2. \A other \in Paths : other # path => task'[other] = "none"
    BY <1>1, <1>9, <2>1 DEF StartDelete, Answer, TypeOK, NoTasks
  <2>3. task'[path] # "ok"
    BY <1>1, <1>9 DEF StartDelete, Answer, TypeOK
  <2>4. TasksInTime' /\ OneDelete' /\ WorkIsPlanned'
    BY <2>1, <2>2 DEF TasksInTime, OneDelete, WorkIsPlanned
  <2>5. AnswersAreEffects'
    BY <2>2, <2>3 DEF AnswersAreEffects
  <2>6. RemoteClosed' /\ PlainDirectories'
    BY <2>1 DEF WorkInv, RemoteClosed, PlainDirectories
  <2> QED
    BY <2>4, <2>5, <2>6 DEF WorkInv
<1>10. ASSUME NEW path \in Paths, CheckDelete(path) PROVE WorkInv'
  <2>1. PICK answer \in {"queued", "none", "fail", "stop"} : Answer(path, answer)
    BY <1>10 DEF CheckDelete
  <2> QED
    BY <1>10, <2>1, WorkAnswer DEF CheckDelete
<1> QED
  BY <1>3, <1>4, <1>5, <1>6, <1>7, <1>8, <1>9, <1>10 DEF PhaseSteps

\* Requests, their answers and their joins.
LEMMA TaskWork == WorkInv /\ TypeOK' /\ TaskSteps => WorkInv'
<1> SUFFICES ASSUME WorkInv, TypeOK', TaskSteps PROVE WorkInv'
  OBVIOUS
<1> USE DEF trees, database, plan, summary, budgets
<1>1. PICK path \in Paths :
        \/ TaskSucceeds(path) \/ TaskRejected(path) \/ TaskCancelled(path)
        \/ JoinCreate(path) \/ JoinUpload(path) \/ JoinDelete(path)
  BY DEF TaskSteps
<1>2. ASSUME UNCHANGED <<local, remote, todo, live, pc, touched>>, task[path] # "none",
             NEW answer, Answer(path, answer), answer # "ok"
      PROVE  WorkInv'
  BY <1>2, WorkAnswer
<1>3. ASSUME JoinStop(path) PROVE WorkInv'
  <2>1. /\ RemoteClosed' /\ \A dir \in Dirs : remote'[dir] \in {0, 1}
        /\ task' = NoTasks
    BY <1>3, DroppedTree DEF JoinStop
  <2> QED
    BY <1>3, <2>1, WorkIdle DEF JoinStop
<1>4. CASE TaskSucceeds(path)
  BY <1>4, WorkAnswer DEF TaskSucceeds
<1>5. CASE TaskRejected(path)
  BY <1>2, <1>5 DEF TaskRejected
<1>6. CASE TaskCancelled(path)
  BY <1>2, <1>6 DEF TaskCancelled
<1>7. CASE JoinCreate(path)
  BY <1>2, <1>3, <1>7 DEF JoinCreate
<1>8. CASE JoinUpload(path)
  BY <1>2, <1>3, <1>8 DEF JoinUpload
<1>9. CASE JoinDelete(path)
  BY <1>2, <1>3, <1>9 DEF JoinDelete
<1> QED
  BY <1>1, <1>4, <1>5, <1>6, <1>7, <1>8, <1>9

\* Faults.
LEMMA FaultWork == WorkInv /\ TypeOK' /\ FaultSteps => WorkInv'
<1> SUFFICES ASSUME WorkInv, TypeOK', FaultSteps PROVE WorkInv'
  OBVIOUS
<1> USE DEF trees, database, plan, summary, budgets
<1>1. TypeOK /\ \A dir \in Dirs : dir \in Paths /\ local[dir] \in {0, 1} /\ remote[dir] \in {0, 1}
  BY DEF WorkInv, PlainDirectories, Paths
<1>2. ASSUME UNCHANGED <<local, task>>, pc \notin {"create", "upload", "delete"},
             pc' \notin {"create", "upload", "delete"}, RemoteClosed',
             \A dir \in Dirs : remote'[dir] \in {0, 1}
      PROVE  WorkInv'
  <2>1. task' = NoTasks
    BY <1>2 DEF WorkInv, TasksInTime
  <2> QED
    BY <1>2, <2>1, WorkIdle
<1>3. ASSUME UNCHANGED remote
      PROVE  RemoteClosed' /\ \A dir \in Dirs : remote'[dir] \in {0, 1}
  BY <1>1, <1>3 DEF WorkInv, RemoteClosed
<1>4. ASSUME NEW gone \in Paths, remote' = Without(remote, gone)
      PROVE  RemoteClosed' /\ \A dir \in Dirs : remote'[dir] \in {0, 1}
  BY <1>4, WithoutTree DEF RemoteClosed
<1>5. ASSUME NEW except, Dropped(except), UNCHANGED local, pc' = "idle" PROVE WorkInv'
  BY <1>5, DroppedTree, WorkIdle
<1>6. CASE QuotaExceeded
  BY <1>2, <1>3, <1>6 DEF QuotaExceeded, FailRoot
<1>7. CASE Cancel
  BY <1>1, <1>7, WorkQuiet DEF Cancel
<1>8. CASE Crash \/ DatabaseFails
  BY <1>5, <1>8 DEF Crash, DatabaseFails, EndRun
<1>9. CASE Unmount \/ Mount
  <2>1. \A dir \in Dirs : local'[dir] \in {0, 1}
    BY <1>1, <1>9 DEF Unmount, Mount, TypeOK
  <2> QED
    BY <1>1, <1>9, <2>1, WorkQuiet DEF Unmount, Mount, TypeOK
<1>10. ASSUME NEW kind, InventoryFails(kind) PROVE WorkInv'
  BY <1>2, <1>3, <1>10 DEF InventoryFails, FailRoot, PartialFailRoot
<1>11. ASSUME NEW dir \in Dirs, ListingNotFound(dir) PROVE WorkInv'
  BY <1>1, <1>2, <1>4, <1>11 DEF ListingNotFound
<1>12. ASSUME NEW path \in Paths, NEW missed \in SUBSET Paths, ListingShifted(path, missed)
       PROVE  WorkInv'
  BY <1>2, <1>4, <1>12 DEF ListingShifted
<1>13. ASSUME NEW path \in Paths, TaskFails(path) PROVE WorkInv'
  <2>1. PICK answer \in {"fail", "stop", "skip"} : Answer(path, answer)
    BY <1>13 DEF TaskFails
  <2>2. remote' = remote \/ (remote' = Applied({path}) /\ Acceptable(path))
    BY <1>13 DEF TaskFails
  <2> QED
    BY <1>13, <2>1, <2>2, WorkAnswer DEF TaskFails
<1>14. ASSUME NEW path \in Paths, RemoveRemote(path) PROVE WorkInv'
  <2>1. /\ remote' = Without(remote, path) /\ UNCHANGED <<local, task, todo, live, pc>>
        /\ touched' = touched \cup { p \in Paths : Covers(path, p) } /\ "external" \in Faults
    BY <1>14 DEF RemoveRemote, Fault
  <2>2. RemoteClosed' /\ \A dir \in Dirs : remote'[dir] \in {0, 1}
    BY <1>4, <2>1
  <2>3. \A p \in Paths : remote'[p] = IF Covers(path, p) THEN 0 ELSE remote[p]
    BY <2>1 DEF Without
  <2>4. AnswersAreEffects'
    BY <2>1, <2>3 DEF WorkInv, AnswersAreEffects
  <2>5. TasksInTime' /\ WorkIsPlanned' /\ OneDelete' /\ PlainDirectories'
    BY <1>1, <2>1, <2>2 DEF WorkInv, TasksInTime, WorkIsPlanned, OneDelete, PlainDirectories, NoTasks
  <2> QED
    BY <2>2, <2>4, <2>5 DEF WorkInv
<1>15. ASSUME NEW path \in Paths, NEW kind, JoinInterrupted(path, kind) PROVE WorkInv'
  BY <1>5, <1>15 DEF JoinInterrupted, EndRun
<1> QED
  BY <1>6, <1>7, <1>8, <1>9, <1>10, <1>11, <1>12, <1>13, <1>14, <1>15 DEF FaultSteps

\* Changes of the local tree: a directory is there or not.
LEMMA EditWork == WorkInv /\ TypeOK' /\ EditSteps => WorkInv'
<1> SUFFICES ASSUME WorkInv, TypeOK', EditSteps PROVE WorkInv'
  OBVIOUS
<1> USE DEF trees, database, plan, summary, budgets
<1>1. TypeOK /\ \A dir \in Dirs : dir \in Paths /\ dir \notin Files /\ local[dir] \in {0, 1}
  BY PathsAssumption DEF WorkInv, PlainDirectories, Paths
<1>2. ASSUME NEW changed, Edit(changed), \A dir \in Dirs : local'[dir] \in {0, 1} PROVE WorkInv'
  BY <1>2, WorkQuiet DEF Edit
<1>3. ASSUME NEW file \in Files, WriteLocal(file) PROVE WorkInv'
  <2>1. \A dir \in Dirs : local'[dir] \in {0, 1}
    BY <1>1, <1>3 DEF WriteLocal, TypeOK
  <2> QED
    BY <1>2, <1>3, <2>1 DEF WriteLocal
<1>4. ASSUME NEW path \in Paths, RestoreLocal(path) PROVE WorkInv'
  <2>1. \A dir \in Dirs : local'[dir] \in {0, 1}
    BY <1>1, <1>4 DEF RestoreLocal, TypeOK
  <2> QED
    BY <1>2, <1>4, <2>1 DEF RestoreLocal
<1>5. ASSUME NEW path \in Paths, RemoveLocal(path) PROVE WorkInv'
  <2>1. \A dir \in Dirs : local'[dir] \in {0, 1}
    BY <1>1, <1>5 DEF RemoveLocal, Without
  <2> QED
    BY <1>2, <1>5, <2>1 DEF RemoveLocal
<1> QED
  BY <1>3, <1>4, <1>5 DEF EditSteps

\* Every step preserves the invariant.
LEMMA NextWork == WorkInv /\ [Next]_vars => WorkInv'
<1> SUFFICES ASSUME WorkInv, [Next]_vars PROVE WorkInv'
  OBVIOUS
<1>1. TypeOK'
  BY NextType DEF WorkInv
<1>2. CASE UNCHANGED vars
  <2>1. \A dir \in Dirs : local'[dir] \in {0, 1}
    BY <1>2 DEF vars, trees, WorkInv, PlainDirectories
  <2> QED
    BY <1>1, <1>2, <2>1, WorkQuiet DEF vars, trees, database, plan, budgets
<1>3. CASE Next
  BY <1>1, <1>3, ScanWork, PhaseWork, TaskWork, FaultWork, EditWork DEF Next
<1> QED
  BY <1>2, <1>3

-----------------------------------------------------------------------------
(* What the cached inventory names.                                          *)

\* A row names what is on the disk, or what a delete has removed whose answer is
\* about to be processed.
CacheTrue ==
    \A row \in cache :
        \/ remote[row] # 0
        \/ pc = "delete" /\ \E path \in Paths : task[path] = "ok" /\ Covers(path, row)

\* The faults that separate the disk from what the database says of it.
Separating == {"crash", "database", "transient", "external"}

\* A step that adds no row, takes nothing from the disk and forgets no answer.
LEMMA CacheQuiet ==
    ASSUME TypeOK, CacheTrue, cache' \subseteq cache,
           \A path \in Paths : remote[path] # 0 => remote'[path] # 0,
           pc # "delete" \/ (pc' = pc /\ \A path \in Paths : task[path] = "ok" => task'[path] = "ok")
    PROVE  CacheTrue'
  BY DEF CacheTrue, TypeOK

\* Without an unprocessed answer every row names what is there.
LEMMA CacheAtRest ==
    ASSUME TypeOK, CacheTrue, \A path \in Paths : task[path] # "ok", NEW row \in cache
    PROVE  row \in Paths /\ remote[row] # 0
  BY DEF CacheTrue, TypeOK

\* A stop in the delete phase drops no other request.
LEMMA StopKeepsCache ==
    ASSUME WorkInv, CacheTrue, NEW path \in Paths, JoinStop(path), task[path] = "stop",
           pc \in {"create", "upload", "delete"}
    PROVE  CacheTrue'
<1>1. TypeOK /\ UNCHANGED cache /\ pc' = "finish"
  BY DEF WorkInv, JoinStop, database
<1>2. PICK done \in SUBSET { p \in Paths \ {path} : task[p] = "queued" /\ Acceptable(p) } :
          remote' = Applied(done)
  BY DEF JoinStop, Dropped
<1>3. CASE pc # "delete"
  <2>1. \A p \in Paths : remote[p] # 0 => remote'[p] # 0
    BY <1>2, <1>3, AppliedAdds
  <2> QED
    BY <1>1, <1>3, <2>1, CacheQuiet
<1>4. CASE pc = "delete"
  <2>1. \A p \in Paths : p # path => task[p] = "none"
    BY <1>4 DEF WorkInv, OneDelete
  <2>2. done = {}
    BY <1>2, <2>1
  <2>3. \A p \in Paths : remote'[p] = remote[p]
    BY <1>2, <1>4, <2>2 DEF Applied, CoveredBySome
  <2>4. \A row \in cache : row \in Paths /\ remote[row] # 0
    BY <1>1, <2>1, CacheAtRest
  <2> QED
    BY <1>1, <2>3, <2>4 DEF CacheTrue
<1> QED
  BY <1>3, <1>4

\* The joins: a row is written for what the answer says.
LEMMA JoinKeepsCache ==
    ASSUME WorkInv, CacheTrue, "external" \notin Faults, NEW path \in Paths,
           JoinCreate(path) \/ JoinUpload(path) \/ JoinDelete(path)
    PROVE  CacheTrue'
<1> USE DEF trees, database, plan, summary, budgets
<1>1. TypeOK
  BY DEF WorkInv
<1>2. CASE JoinStop(path) /\ task[path] = "stop"
  BY <1>2, StopKeepsCache DEF JoinCreate, JoinUpload, JoinDelete
<1>3. CASE /\ pc \in {"create", "upload"} /\ UNCHANGED <<remote, pc>>
           /\ cache' \subseteq cache \cup (IF task[path] = "ok" THEN {path} ELSE {})
  <2>1. task[path] = "ok" => remote[path] # 0
    BY <1>3 DEF WorkInv, AnswersAreEffects
  <2> QED
    BY <1>3, <2>1 DEF CacheTrue
<1>4. CASE pc = "delete" /\ UNCHANGED <<remote, pc>>
  <2>1. \A other \in Paths : other # path => task[other] = "none"
    BY <1>4 DEF WorkInv, OneDelete, JoinCreate, JoinUpload, JoinDelete
  <2>2. CASE task[path] = "ok"
    <3>1. cache' = CacheWithout(path)
      BY <1>4, <2>2 DEF JoinCreate, JoinUpload, JoinDelete, JoinStop
    <3> QED
      BY <1>4, <2>1, <3>1 DEF CacheWithout, CacheTrue
  <2>3. CASE task[path] # "ok"
    <3>1. \A row \in cache : remote[row] # 0
      BY <1>1, <2>1, <2>3, CacheAtRest
    <3>2. cache' = cache
      BY <1>4, <2>3 DEF JoinCreate, JoinUpload, JoinDelete, JoinStop
    <3> QED
      BY <1>4, <3>1, <3>2 DEF CacheTrue
  <2> QED
    BY <2>2, <2>3
<1> QED
  BY <1>2, <1>3, <1>4 DEF JoinCreate, JoinUpload, JoinDelete

\* Every step keeps the rows true when no fault separates the disk from the database.
LEMMA NextCache ==
    ASSUME Faults \cap Separating = {}, WorkInv, CacheTrue, [Next]_vars
    PROVE  CacheTrue'
<1> USE DEF trees, database, plan, summary, budgets
<1>1. TypeOK
  BY DEF WorkInv
<1>2. \A kind \in Separating : ~Fault(kind)
  BY DEF Fault
<1>3. ASSUME UNCHANGED <<remote, cache>>, pc # "delete" \/ (pc' = pc /\ UNCHANGED task)
      PROVE  CacheTrue'
  BY <1>1, <1>3, CacheQuiet
<1>4. ASSUME UNCHANGED remote, cache' \subseteq cache, NEW path \in Paths, task[path] # "ok",
             NEW answer, Answer(path, answer), pc' = pc
      PROVE  CacheTrue'
  <2>1. \A other \in Paths : task[other] = "ok" => task'[other] = "ok"
    BY <1>1, <1>4 DEF Answer, TypeOK
  <2> QED
    BY <1>1, <1>4, <2>1, CacheQuiet
<1>5. ASSUME UNCHANGED <<remote, cache>>, task = NoTasks PROVE CacheTrue'
  <2>1. \A row \in cache : row \in Paths /\ remote[row] # 0
    BY <1>1, <1>5, CacheAtRest DEF NoTasks
  <2> QED
    BY <1>5, <2>1 DEF CacheTrue
<1>6. CASE UNCHANGED vars
  BY <1>3, <1>6 DEF vars
<1>7. CASE StartRun \/ ScanSteps
  <2>1. CASE ListRemote
    BY <2>1 DEF ListRemote, Listing, OnDisk, CacheTrue
  <2>2. CASE ~ListRemote
    BY <1>3, <1>7, <2>2
    DEF StartRun, ScanSteps, Scan, BuildLivePlan, CollisionFails, UseCache, RemoteRootNotFound,
        PersistInventory
  <2> QED
    BY <2>1, <2>2
<1>8. CASE PhaseSteps
  <2>1. CASE StartCreates \/ StartUploads \/ StartDeletes \/ EndDeletes \/ FinishRun
    BY <1>3, <1>5, <2>1
    DEF StartCreates, StartUploads, StartDeletes, EndDeletes, FinishRun, PhaseOver, Idle
  <2>2. ASSUME NEW batch \in SUBSET Paths, StartBatch(batch) PROVE CacheTrue'
    BY <1>3, <2>2 DEF StartBatch
  <2>3. ASSUME NEW path \in Paths, StartDelete(path) PROVE CacheTrue'
    BY <1>5, <2>3 DEF StartDelete, Idle
  <2>4. ASSUME NEW path \in Paths, CheckDelete(path) PROVE CacheTrue'
    <3>1. PICK answer : Answer(path, answer)
      BY <2>4 DEF CheckDelete
    <3>2. cache' \subseteq cache
      BY <2>4 DEF CheckDelete, CacheWithout
    <3> QED
      BY <1>4, <2>4, <3>1, <3>2 DEF CheckDelete
  <2> QED
    BY <1>8, <2>1, <2>2, <2>3, <2>4 DEF PhaseSteps
<1>9. CASE TaskSteps
  <2>1. PICK path \in Paths :
          \/ TaskSucceeds(path) \/ TaskRejected(path) \/ TaskCancelled(path)
          \/ JoinCreate(path) \/ JoinUpload(path) \/ JoinDelete(path)
    BY <1>9 DEF TaskSteps
  <2>2. CASE TaskSucceeds(path)
    <3>1. /\ task[path] = "queued" /\ Acceptable(path) /\ remote' = Applied({path})
          /\ Answer(path, "ok") /\ UNCHANGED <<cache, pc>>
      BY <2>2 DEF TaskSucceeds
    <3>2. \A other \in Paths : task'[other] = IF other = path THEN "ok" ELSE task[other]
      BY <1>1, <3>1 DEF Answer, TypeOK
    <3>3. CASE pc = "delete"
      <4>1. \A p \in Paths : remote'[p] = IF Covers(path, p) THEN 0 ELSE remote[p]
        BY <3>1, <3>3 DEF Applied, CoveredBySome
      <4> QED
        BY <1>1, <3>1, <3>2, <3>3, <4>1 DEF CacheTrue, TypeOK
    <3>4. CASE pc # "delete"
      <4>1. \A p \in Paths : remote[p] # 0 => remote'[p] # 0
        BY <3>1, <3>4, AppliedAdds
      <4> QED
        BY <1>1, <3>1, <3>4, <4>1, CacheQuiet
    <3> QED
      BY <3>3, <3>4
  <2>3. CASE TaskRejected(path) \/ TaskCancelled(path)
    BY <1>4, <2>3 DEF TaskRejected, TaskCancelled
  <2>4. CASE JoinCreate(path) \/ JoinUpload(path) \/ JoinDelete(path)
    BY <2>4, JoinKeepsCache DEF Separating
  <2> QED
    BY <2>1, <2>2, <2>3, <2>4
<1>10. CASE FaultSteps
  <2>1. CASE QuotaExceeded \/ Cancel \/ Unmount \/ Mount
    BY <1>3, <2>1 DEF QuotaExceeded, Cancel, Unmount, Mount
  <2>2. ~Crash /\ ~DatabaseFails
    BY <1>2 DEF Crash, DatabaseFails, Separating
  <2>3. ASSUME NEW kind \in FaultKinds, InventoryFails(kind) PROVE CacheTrue'
    BY <1>3, <2>3 DEF InventoryFails
  <2>4. ASSUME NEW path \in Paths, TaskFails(path) PROVE CacheTrue'
    <3>1. /\ UNCHANGED <<remote, cache, pc>> /\ task[path] = "queued"
          /\ \E answer : Answer(path, answer)
      BY <1>2, <2>4 DEF TaskFails, Separating
    <3> QED
      BY <1>4, <3>1
  <2>5. \A dir \in Dirs : ~ListingNotFound(dir)
    BY <1>2 DEF ListingNotFound, Separating
  <2>6. \A path \in Paths, missed \in SUBSET Paths : ~ListingShifted(path, missed)
    BY <1>2 DEF ListingShifted, Separating
  <2>7. \A path \in Paths : ~RemoveRemote(path)
    BY <1>2 DEF RemoveRemote, Separating
  <2>8. \A path \in Paths, kind \in FaultKinds : ~JoinInterrupted(path, kind)
    BY <1>2 DEF JoinInterrupted, Separating
  <2> QED
    BY <1>10, <2>1, <2>2, <2>3, <2>4, <2>5, <2>6, <2>7, <2>8 DEF FaultSteps
<1>11. CASE EditSteps
  BY <1>3, <1>11 DEF EditSteps, WriteLocal, RestoreLocal, RemoveLocal, Edit
<1> QED
  BY <1>6, <1>7, <1>8, <1>9, <1>10, <1>11 DEF Next

\* When every answer of the disk reaches the database and nobody else removes anything, a
\* row of the cached inventory between runs names what the disk has, so that no file is
\* left out of the uploads and no directory out of the creates for a row that is wrong.
THEOREM CachedRowsExist ==
    ASSUME Faults \cap Separating = {}
    PROVE  Spec => []CacheNamesWhatExists
<1>1. Init => CacheTrue
  BY DEF Init, CacheTrue
<1>2. WorkInv /\ CacheTrue /\ [Next]_vars => CacheTrue'
  BY NextCache
<1>3. WorkInv /\ CacheTrue => CacheNamesWhatExists
  BY DEF WorkInv, TypeOK, CacheTrue, CacheNamesWhatExists, OnDisk
<1> QED
  BY <1>1, <1>2, <1>3, InitWork, NextWork, PTL DEF Spec

-----------------------------------------------------------------------------
(* What a success over a fresh listing means.                                *)

\* A record that is not from an upload claims nothing wrong either: mark_deleted keeps
\* the version of a file that has gone, and a file without a record has no version.
ClaimsNotAhead ==
    \A file \in Files :
        /\ record[file].status = "deleted" /\ remote[file] # 0 =>
              record[file].version <= remote[file]
        /\ record[file].status = "none" => record[file].version = 0

\* What the scan saw is as it was, or somebody has touched it.
ScanHolds ==
    pc \notin {"idle", "scan"} =>
        /\ \A path \in live : path \in touched \/ Visible(path) # 0
        /\ \A file \in LiveFiles : file \in touched \/ scanned[file] = Visible(file)
        /\ failed \/ <<>> \in touched \/ Visible(<<>>) # 0

\* Until the plan is made the records are those of the scan, and a subtree is missing
\* only when somebody removed it.
NotPlannedYet ==
    /\ pc \in {"live", "inventory"} =>
          \A file \in reused : file \in touched \/ record[file].version = Visible(file)
    /\ pc = "inventory" /\ touched = {} => tombs = {}

\* A root that failed as a whole has failed items.
HardIsFailed == (hard => failed) /\ (pc \in {"idle", "scan"} => ~hard)

\* A run that may still report a success over a fresh listing.
Fresh == touched = {} /\ ~failed /\ ~cancelled /\ ~fromCache

\* The directories the mirror needs.
Wanted == {<<>>} \cup (live \cap Dirs)

Settled(path) == remote[path] = Visible(path) \/ SkippedAsIs(path)

\* From the listing to the deletes the inventory has what was there, all of it, and
\* what is extra on the disk.
ListedInv ==
    Fresh /\ pc \in {"persist", "plan", "create", "upload"} =>
        /\ \A path \in Paths : remote[path] # 0 => path \in inventory \/ Visible(path) # 0
        /\ \A path \in inventory : remote[path] # 0

\* A file that is not planned for upload needs none.
PlannedInv ==
    Fresh /\ pc \in {"persist", "plan", "create"} =>
        \A file \in LiveFiles : file \in Uploads \/ Settled(file)

\* A directory is there, is to be created, or its failure is about to be noted.
CreateInv ==
    Fresh /\ pc = "create" =>
        \A dir \in Wanted :
            remote[dir] # 0 \/ dir \in todo \/ task[dir] \in {"queued", "fail", "stop"}

\* So with the files.
SendInv ==
    Fresh /\ pc = "upload" =>
        /\ \A dir \in Wanted : remote[dir] # 0
        /\ \A file \in LiveFiles :
              \/ Settled(file) \/ file \in todo
              \/ task[file] \in {"queued", "skip", "fail", "stop"}
        /\ \A file \in LiveFiles : task[file] = "ok" => remote[file] = Visible(file)

\* What is extra is below something that is to be deleted.
ExtraInv ==
    Fresh /\ pc = "delete" =>
        /\ \A dir \in Wanted : remote[dir] # 0
        /\ \A file \in LiveFiles : Settled(file)
        /\ \A path \in Paths : remote[path] # 0 /\ Visible(path) = 0 =>
              \E target \in Paths :
                  /\ Covers(target, path)
                  /\ target \in todo \/ task[target] \in {"check", "queued", "fail", "stop"}

\* The mirror is exact.
ExactInv == Fresh /\ pc = "finish" => \A path \in Paths : Settled(path)

MirrorInv ==
    /\ ListedInv /\ PlannedInv /\ CreateInv /\ SendInv /\ ExtraInv /\ ExactInv
    /\ FreshSuccessMirrors


\* A step changes what is seen at a path only if it touches the path, and only a scan
\* forgets what was touched.
LEMMA StepVisible ==
    ASSUME TypeOK, [Next]_vars
    PROVE  /\ \A path \in Paths \ touched' : Visible(path)' = Visible(path)
           /\ (pc = "scan" /\ pc' = "live") \/ touched \subseteq touched'
<1> USE DEF trees, database, plan, summary, budgets
<1> DEFINE Goal == /\ \A path \in Paths \ touched' : Visible(path)' = Visible(path)
                   /\ (pc = "scan" /\ pc' = "live") \/ touched \subseteq touched'
<1>1. ASSUME UNCHANGED local, touched \subseteq touched' PROVE Goal
  BY <1>1 DEF Visible
<1>2. CASE UNCHANGED vars
  BY <1>1, <1>2 DEF vars
<1>3. CASE StartRun \/ ScanSteps
  <2>1. ASSUME NEW unreadable, NEW busy, Scan(unreadable, busy) PROVE Goal
    BY <2>1 DEF Scan, Visible
  <2> QED
    BY <1>1, <1>3, <2>1
    DEF StartRun, ScanSteps, BuildLivePlan, CollisionFails, UseCache, RemoteRootNotFound,
        ListRemote, PersistInventory
<1>4. CASE PhaseSteps
  BY <1>1, <1>4
  DEF PhaseSteps, StartCreates, StartUploads, StartDeletes, EndDeletes, FinishRun, StartBatch,
      StartDelete, CheckDelete
<1>5. CASE TaskSteps
  BY <1>1, <1>5
  DEF TaskSteps, TaskSucceeds, TaskRejected, TaskCancelled, JoinCreate, JoinUpload, JoinDelete,
      JoinStop
<1>6. CASE FaultSteps
  <2>1. CASE Unmount \/ Mount
    BY <2>1 DEF Unmount, Mount, TypeOK
  <2>2. CASE QuotaExceeded \/ Cancel \/ Crash \/ DatabaseFails
    BY <1>1, <2>2 DEF QuotaExceeded, Cancel, Crash, DatabaseFails
  <2>3. ASSUME NEW kind, InventoryFails(kind) PROVE Goal
    BY <1>1, <2>3 DEF InventoryFails
  <2>4. ASSUME NEW dir, ListingNotFound(dir) PROVE Goal
    BY <1>1, <2>4 DEF ListingNotFound
  <2>5. ASSUME NEW path, NEW missed, ListingShifted(path, missed) PROVE Goal
    BY <1>1, <2>5 DEF ListingShifted
  <2>6. ASSUME NEW path, TaskFails(path) \/ RemoveRemote(path) PROVE Goal
    BY <1>1, <2>6 DEF TaskFails, RemoveRemote
  <2>7. ASSUME NEW path, NEW kind, JoinInterrupted(path, kind) PROVE Goal
    BY <1>1, <2>7 DEF JoinInterrupted
  <2> QED
    BY <1>6, <2>1, <2>2, <2>3, <2>4, <2>5, <2>6, <2>7 DEF FaultSteps
<1>7. CASE EditSteps
  <2>1. <<>> \in Paths /\ \A path \in Paths : path \in Seq(STRING)
    BY PathsAssumption DEF Paths
  <2>2. ASSUME NEW changed, Edit(changed), local'[<<>>] = local[<<>>],
               \A path \in Paths \ changed : local'[path] = local[path]
        PROVE  Goal
    BY <2>2 DEF Edit, Visible
  <2>3. ASSUME NEW file \in Files, WriteLocal(file) PROVE Goal
    <3>1. file # <<>> /\ file \in Paths
      BY PathsAssumption DEF Paths
    <3>2. \A path \in Paths \ {file} : local'[path] = local[path]
      BY <2>3 DEF WriteLocal, TypeOK
    <3> QED
      BY <2>1, <2>2, <2>3, <3>1, <3>2 DEF WriteLocal
  <2>4. ASSUME NEW path \in Paths, RestoreLocal(path) PROVE Goal
    <3>1. path # <<>>
      BY <2>4 DEF RestoreLocal, Visible
    <3>2. \A other \in Paths \ {path} : local'[other] = local[other]
      BY <2>4 DEF RestoreLocal, TypeOK
    <3> QED
      BY <2>1, <2>2, <2>4, <3>1, <3>2 DEF RestoreLocal
  <2>5. ASSUME NEW path \in Paths, RemoveLocal(path) PROVE Goal
    <3>1. ~Covers(path, <<>>)
      BY <2>1, <2>5 DEF RemoveLocal, Covers
    <3>2. \A other \in Paths : ~Covers(path, other) => local'[other] = local[other]
      BY <2>5 DEF RemoveLocal, Without
    <3>3. Edit({ p \in Paths : Covers(path, p) })
      BY <2>5 DEF RemoveLocal
    <3> QED
      BY <2>1, <2>2, <3>1, <3>2, <3>3
  <2> QED
    BY <1>7, <2>3, <2>4, <2>5 DEF EditSteps
<1> QED
  BY <1>2, <1>3, <1>4, <1>5, <1>6, <1>7 DEF Next

\* A step gives the disk nothing of a file but its last version.
LEMMA StepRemote ==
    ASSUME TypeOK, LastIsNewest, [Next]_vars, NEW file \in Files
    PROVE  remote'[file] \in {0, remote[file], last[file]}
<1> USE DEF trees, database, plan, summary, budgets
<1> DEFINE Goal == remote'[file] \in {0, remote[file], last[file]}
<1>1. ASSUME NEW gone, remote' = Without(remote, gone) PROVE Goal
  BY <1>1 DEF Without, Paths
<1>2. ASSUME NEW except, Dropped(except) PROVE Goal
  BY <1>2, DroppedFile
<1>3. ASSUME NEW path, Acceptable(path), remote' = Applied({path}) PROVE Goal
  BY <1>3, AppliedFile
<1>4. CASE UNCHANGED remote
  BY <1>4
<1>5. CASE StartRun \/ ScanSteps \/ PhaseSteps \/ EditSteps \/ UNCHANGED vars
  BY <1>4, <1>5
  DEF StartRun, ScanSteps, Scan, BuildLivePlan, CollisionFails, UseCache, RemoteRootNotFound,
      ListRemote, PersistInventory, PhaseSteps, StartCreates, StartUploads, StartDeletes,
      EndDeletes, FinishRun, StartBatch, StartDelete, CheckDelete, EditSteps, WriteLocal,
      RestoreLocal, RemoveLocal, Edit, vars
<1>6. CASE TaskSteps
  BY <1>2, <1>3, <1>4, <1>6
  DEF TaskSteps, TaskSucceeds, TaskRejected, TaskCancelled, JoinCreate, JoinUpload, JoinDelete,
      JoinStop
<1>7. CASE FaultSteps
  <2>1. CASE Unmount \/ Mount \/ QuotaExceeded \/ Cancel
    BY <1>4, <2>1 DEF Unmount, Mount, QuotaExceeded, Cancel
  <2>2. CASE Crash \/ DatabaseFails
    BY <1>2, <2>2 DEF Crash, DatabaseFails
  <2>3. ASSUME NEW kind, InventoryFails(kind) PROVE Goal
    BY <1>4, <2>3 DEF InventoryFails
  <2>4. ASSUME NEW dir, ListingNotFound(dir) PROVE Goal
    BY <1>1, <2>4 DEF ListingNotFound
  <2>5. ASSUME NEW path, NEW missed, ListingShifted(path, missed) PROVE Goal
    BY <1>1, <2>5 DEF ListingShifted
  <2>6. ASSUME NEW path, TaskFails(path) \/ RemoveRemote(path) PROVE Goal
    BY <1>1, <1>3, <1>4, <2>6 DEF TaskFails, RemoveRemote
  <2>7. ASSUME NEW path, NEW kind, JoinInterrupted(path, kind) PROVE Goal
    BY <1>2, <2>7 DEF JoinInterrupted
  <2> QED
    BY <1>7, <2>1, <2>2, <2>3, <2>4, <2>5, <2>6, <2>7 DEF FaultSteps
<1> QED
  BY <1>5, <1>6, <1>7 DEF Next

\* What a step does to the record of a file.
LEMMA StepRecord ==
    ASSUME WorkInv, [Next]_vars, NEW file \in Files
    PROVE  \/ record'[file] = record[file]
           \/ /\ pc = "upload" /\ task[file] = "ok"
              /\ record'[file] \in [version : {scanned[file]}, status : {"synced", "changed"}]
           \/ /\ pc = "upload" /\ task[file] = "skip"
              /\ record'[file] = [version |-> scanned[file], status |-> "skipped"]
           \/ /\ pc = "delete" /\ task[file] = "ok"
              /\ record'[file] = [version |-> record[file].version, status |-> "deleted"]
              /\ remote[file] = 0 /\ remote'[file] = 0
<1> USE DEF trees, database, plan, summary, budgets
<1>1. TypeOK /\ file \in Paths
  BY DEF WorkInv, Paths
<1>2. ASSUME NEW path, NEW status, record' = FileState(path, status)
      PROVE  /\ file # path => record'[file] = record[file]
             /\ file = path => record'[file] = [version |-> scanned[file], status |-> status]
  BY <1>1, <1>2 DEF FileState, TypeOK
<1>3. ASSUME NEW path, record' = MarkDeleted(path)
      PROVE  /\ file # path => record'[file] = record[file]
             /\ file = path =>
                   record'[file] = [version |-> record[file].version, status |-> "deleted"]
  BY <1>1, <1>3 DEF MarkDeleted, TypeOK
<1>4. \A path : StatusAfterUpload(path) \in {"synced", "changed"}
  BY DEF StatusAfterUpload
<1>5. ASSUME NEW path, pc = "upload", task[path] = "ok",
              record' = FileState(path, StatusAfterUpload(path))
       PROVE  \/ record'[file] = record[file]
              \/ /\ pc = "upload" /\ task[file] = "ok"
                 /\ record'[file] \in [version : {scanned[file]}, status : {"synced", "changed"}]
  <2>1. CASE file = path
    <3>1. record'[file] = [version |-> scanned[file], status |-> StatusAfterUpload(file)]
      BY <1>2, <1>5, <2>1
    <3> QED
      BY <1>4, <1>5, <2>1, <3>1
  <2>2. CASE file # path
    BY <1>2, <1>5, <2>2
  <2> QED
    BY <2>1, <2>2
<1>6. pc = "delete" /\ task[file] = "ok" => remote[file] = 0
  <2>1. Covers(file, file)
    BY <1>1, PathsAssumption DEF Covers
  <2> QED
    BY <1>1, <2>1 DEF WorkInv, AnswersAreEffects
<1>7. CASE UNCHANGED record
  BY <1>7
<1>8. CASE StartRun \/ ScanSteps \/ PhaseSteps \/ EditSteps \/ UNCHANGED vars
  BY <1>7, <1>8
  DEF StartRun, ScanSteps, Scan, BuildLivePlan, CollisionFails, UseCache, RemoteRootNotFound,
      ListRemote, PersistInventory, PhaseSteps, StartCreates, StartUploads, StartDeletes,
      EndDeletes, FinishRun, StartBatch, StartDelete, CheckDelete, EditSteps, WriteLocal,
      RestoreLocal, RemoveLocal, Edit, vars
<1>9. CASE TaskSteps
  <2>1. PICK path \in Paths :
          \/ TaskSucceeds(path) \/ TaskRejected(path) \/ TaskCancelled(path)
          \/ JoinCreate(path) \/ JoinUpload(path) \/ JoinDelete(path)
    BY <1>9 DEF TaskSteps
  <2>2. CASE TaskSucceeds(path) \/ TaskRejected(path) \/ TaskCancelled(path) \/ JoinCreate(path)
    BY <1>7, <2>2 DEF TaskSucceeds, TaskRejected, TaskCancelled, JoinCreate, JoinStop
  <2>3. CASE JoinUpload(path)
    <3>1. \/ UNCHANGED record
          \/ /\ pc = "upload" /\ task[path] = "ok"
             /\ record' = FileState(path, StatusAfterUpload(path))
          \/ pc = "upload" /\ task[path] = "skip" /\ record' = FileState(path, "skipped")
      BY <2>3 DEF JoinUpload, JoinStop
    <3>2. CASE /\ pc = "upload" /\ task[path] = "ok"
               /\ record' = FileState(path, StatusAfterUpload(path))
      BY <3>2, <1>5
    <3>3. CASE pc = "upload" /\ task[path] = "skip" /\ record' = FileState(path, "skipped")
      <4>1. CASE file = path
        BY <1>2, <3>3, <4>1
      <4>2. CASE file # path
        BY <1>2, <3>3, <4>2
      <4> QED
        BY <4>1, <4>2
    <3> QED
      BY <1>7, <3>1, <3>2, <3>3
  <2>4. CASE JoinDelete(path)
    <3>1. \/ UNCHANGED record
          \/ pc = "delete" /\ task[path] = "ok" /\ record' = MarkDeleted(path) /\ UNCHANGED remote
      BY <2>4 DEF JoinDelete, JoinStop
    <3> QED
      BY <1>3, <1>6, <1>7, <3>1
  <2> QED
    BY <2>1, <2>2, <2>3, <2>4
<1>10. CASE FaultSteps
  <2>1. ASSUME NEW path \in Paths, NEW kind, JoinInterrupted(path, kind), ~UNCHANGED record
        PROVE  \/ /\ pc = "upload" /\ task[path] = "ok"
                  /\ record' = FileState(path, StatusAfterUpload(path))
               \/ /\ pc = "delete" /\ task[path] = "ok" /\ record' = MarkDeleted(path)
                  /\ remote[file] = 0 => remote'[file] = 0
    <3>1. PICK done : remote' = Applied(done)
      BY <2>1 DEF JoinInterrupted, Dropped
    <3>2. pc = "delete" /\ remote[file] = 0 => remote'[file] = 0
      BY <1>1, <3>1 DEF Applied
    <3> QED
      BY <2>1, <3>2 DEF JoinInterrupted
  <2>2. CASE UNCHANGED record
    BY <2>2
  <2>3. UNCHANGED record \/ \E path \in Paths, kind \in FaultKinds : JoinInterrupted(path, kind)
    BY <1>10
    DEF FaultSteps, QuotaExceeded, Cancel, Crash, DatabaseFails, Unmount, Mount, InventoryFails,
        ListingNotFound, ListingShifted, TaskFails, RemoveRemote
  <2>4. ASSUME NEW path \in Paths, NEW kind, JoinInterrupted(path, kind), ~UNCHANGED record,
               pc = "delete"
        PROVE  \/ record'[file] = record[file]
               \/ /\ task[file] = "ok"
                  /\ record'[file] = [version |-> record[file].version, status |-> "deleted"]
                  /\ remote[file] = 0 /\ remote'[file] = 0
    <3>1. task[path] = "ok" /\ record' = MarkDeleted(path) /\ (remote[file] = 0 => remote'[file] = 0)
      BY <2>1, <2>4
    <3>2. CASE file = path
      BY <1>3, <1>6, <2>4, <3>1, <3>2
    <3>3. CASE file # path
      BY <1>3, <3>1, <3>3
    <3> QED
      BY <3>2, <3>3
  <2> QED
    BY <1>5, <2>1, <2>2, <2>3, <2>4
<1> QED
  BY <1>8, <1>9, <1>10 DEF Next

\* Deleted files and files without a record claim nothing.
LEMMA NextClaims ==
    ASSUME UploadInv, WorkInv, ClaimsNotAhead, [Next]_vars
    PROVE  ClaimsNotAhead'
<1> SUFFICES ASSUME NEW file \in Files
             PROVE  /\ record'[file].status = "deleted" /\ remote'[file] # 0 =>
                          record'[file].version <= remote'[file]
                    /\ record'[file].status = "none" => record'[file].version = 0
  BY DEF ClaimsNotAhead
<1>1. /\ last[file] \in Nat /\ remote[file] \in Nat /\ record[file].version \in Nat
      /\ record[file].version <= last[file]
  BY NaturalVersions DEF UploadInv, LastIsNewest
<1>2. remote'[file] \in {0, remote[file], last[file]}
  BY StepRemote DEF UploadInv
<1>3. CASE record'[file] = record[file]
  BY <1>1, <1>2, <1>3 DEF ClaimsNotAhead
<1>4. CASE record'[file] \in [version : {scanned[file]}, status : {"synced", "changed"}]
  BY <1>4
<1>5. CASE record'[file] = [version |-> scanned[file], status |-> "skipped"]
  BY <1>5
<1>6. CASE /\ record'[file] = [version |-> record[file].version, status |-> "deleted"]
           /\ remote'[file] = 0
  BY <1>6
<1> QED
  BY <1>3, <1>4, <1>5, <1>6, StepRecord

\* Only the scan and the live plan change what a run knows of the local tree, and
\* nothing is recorded before the plan.
LEMMA StepPlan ==
    ASSUME [Next]_vars
    PROVE  \/ \E unreadable, busy : Scan(unreadable, busy)
           \/ BuildLivePlan
           \/ pc' \in {"idle", "scan"}
           \/ /\ pc \notin {"idle", "scan"} /\ UNCHANGED <<live, scanned, reused>>
              /\ failed => failed'
              /\ pc' \in {"live", "inventory"} => pc' = pc /\ UNCHANGED <<tombs, record>>
<1> USE DEF trees, database, plan, summary, budgets
<1> DEFINE Keeps == /\ UNCHANGED <<live, scanned, reused>> /\ (failed => failed')
                    /\ pc' \in {"live", "inventory"} => pc' = pc /\ UNCHANGED <<tombs, record>>
<1>1. CASE (pc \in {"idle", "scan"} => pc' \in {"idle", "scan"}) /\ (pc' = "idle" \/ Keeps)
  BY <1>1
<1>2. CASE UNCHANGED vars
  BY <1>1, <1>2 DEF vars
<1>3. CASE StartRun \/ ScanSteps
  BY <1>1, <1>3
  DEF StartRun, ScanSteps, CollisionFails, FailRoot, UseCache, RemoteRootNotFound, ListRemote,
      PersistInventory
<1>4. CASE PhaseSteps
  BY <1>1, <1>4
  DEF PhaseSteps, StartCreates, StartUploads, StartDeletes, EndDeletes, FinishRun, EndRun,
      StartBatch, StartDelete, CheckDelete
<1>5. CASE TaskSteps
  BY <1>1, <1>5
  DEF TaskSteps, TaskSucceeds, TaskRejected, TaskCancelled, JoinCreate, JoinUpload, JoinDelete,
      JoinStop
<1>6. CASE FaultSteps
  <2>1. CASE QuotaExceeded \/ Cancel \/ Unmount \/ Mount
    BY <1>1, <2>1 DEF QuotaExceeded, Cancel, Unmount, Mount, FailRoot
  <2>2. CASE Crash \/ DatabaseFails
    BY <1>1, <2>2 DEF Crash, DatabaseFails, EndRun
  <2>3. CASE \E kind \in FaultKinds : InventoryFails(kind)
    BY <1>1, <2>3 DEF InventoryFails, FailRoot, PartialFailRoot
  <2>4. CASE \E dir \in Dirs : ListingNotFound(dir)
    BY <1>1, <2>4 DEF ListingNotFound
  <2>5. CASE \E path \in Paths, missed \in SUBSET Paths : ListingShifted(path, missed)
    BY <1>1, <2>5 DEF ListingShifted
  <2>6. CASE \E path \in Paths : TaskFails(path) \/ RemoveRemote(path)
    BY <1>1, <2>6 DEF TaskFails, RemoveRemote
  <2>7. CASE \E path \in Paths, kind \in FaultKinds : JoinInterrupted(path, kind)
    BY <1>1, <2>7 DEF JoinInterrupted, EndRun
  <2> QED
    BY <1>6, <2>1, <2>2, <2>3, <2>4, <2>5, <2>6, <2>7 DEF FaultSteps
<1>7. CASE EditSteps
  BY <1>1, <1>7 DEF EditSteps, WriteLocal, RestoreLocal, RemoveLocal, Edit
<1> QED
  BY <1>2, <1>3, <1>4, <1>5, <1>6, <1>7 DEF Next

\* What the scan saw stays true of what nobody touches.
LEMMA NextScanHolds ==
    ASSUME TypeOK, ScanHolds, [Next]_vars
    PROVE  ScanHolds'
<1> USE DEF trees, database, plan, summary, budgets
<1>1. \A path \in Paths \ touched' : Visible(path)' = Visible(path)
  BY StepVisible
<1>2. <<>> \in Paths /\ Files \subseteq Paths
  BY PathsAssumption DEF Paths
<1>3. ASSUME NEW unreadable, NEW busy, Scan(unreadable, busy) PROVE ScanHolds'
  <2>1. /\ \A path \in live' : path \in Paths /\ Visible(path) # 0
        /\ \A file \in Files : file \in live' => scanned'[file] = local[file]
        /\ UNCHANGED local /\ (Visible(<<>>) = 0 => failed') /\ pc' = "live"
    BY <1>3 DEF Scan, Walked
  <2>2. \A path \in Paths : Visible(path)' = Visible(path)
    BY <2>1 DEF Visible
  <2>3. \A path \in Paths : Visible(path) # 0 => Visible(path) = local[path]
    BY DEF Visible
  <2> QED
    BY <1>2, <2>1, <2>2, <2>3 DEF ScanHolds, LiveFiles
<1>4. ASSUME BuildLivePlan \/ (pc \notin {"idle", "scan"} /\ UNCHANGED <<live, scanned, reused>>
                               /\ (failed => failed')),
             pc' \notin {"idle", "scan"}
      PROVE  ScanHolds'
  <2>1. /\ live' \subseteq live /\ scanned' = scanned /\ (failed => failed')
        /\ pc \notin {"idle", "scan"}
    BY <1>4 DEF BuildLivePlan
  <2>2. touched \subseteq touched'
    BY <1>4, <2>1, StepVisible
  <2>3. /\ \A path \in live : path \in touched \/ Visible(path) # 0
        /\ \A file \in LiveFiles : file \in touched \/ scanned[file] = Visible(file)
        /\ failed \/ <<>> \in touched \/ Visible(<<>>) # 0
    BY <2>1 DEF ScanHolds
  <2>4. \A path \in live' : path \in Paths /\ (path \in touched' \/ Visible(path)' # 0)
    BY <1>1, <2>1, <2>2, <2>3 DEF TypeOK
  <2>5. \A file \in LiveFiles' : file \in touched' \/ scanned'[file] = Visible(file)'
    BY <1>1, <1>2, <2>1, <2>2, <2>3 DEF LiveFiles
  <2>6. failed' \/ <<>> \in touched' \/ Visible(<<>>)' # 0
    BY <1>1, <1>2, <2>1, <2>2, <2>3
  <2> QED
    BY <2>4, <2>5, <2>6 DEF ScanHolds
<1>5. CASE pc' \in {"idle", "scan"}
  BY <1>5 DEF ScanHolds
<1> QED
  BY <1>3, <1>4, <1>5, StepPlan

\* So do the records it compared with, until the plan is made.
LEMMA NextNotPlanned ==
    ASSUME TypeOK, ScanHolds, NotPlannedYet, [Next]_vars
    PROVE  NotPlannedYet'
<1> USE DEF trees, database, plan, summary, budgets
<1>1. \A path \in Paths \ touched' : Visible(path)' = Visible(path)
  BY StepVisible
<1>2. Files \subseteq Paths /\ reused \subseteq Files
  BY DEF Paths, TypeOK
<1>3. ASSUME NEW unreadable, NEW busy, Scan(unreadable, busy) PROVE NotPlannedYet'
  <2>1. /\ \A file \in reused' : file \in Paths /\ Visible(file) # 0 /\ record[file].version = local[file]
        /\ UNCHANGED <<local, record>> /\ pc' = "live"
    BY <1>3 DEF Scan, Walked, Reusable
  <2>2. \A file \in reused' : Visible(file)' = local[file]
    BY <2>1 DEF Visible
  <2> QED
    BY <2>1, <2>2 DEF NotPlannedYet
<1>4. CASE BuildLivePlan
  <2>1. /\ tombs' = AddDeletedSubtrees({}, (live \cap Dirs) \ LocalDirs)
        /\ pc = "live" /\ pc' = "inventory" /\ UNCHANGED <<local, record, reused, touched>>
    BY <1>4 DEF BuildLivePlan
  <2>2. \A file \in reused' : file \in touched' \/ record'[file].version = Visible(file)'
    BY <1>1, <1>2, <2>1 DEF NotPlannedYet
  <2>3. touched = {} => (live \cap Dirs) \ LocalDirs = {}
    BY <2>1 DEF ScanHolds, LocalDirs
  <2>4. AddDeletedSubtrees({}, {}) = {}
    BY DEF AddDeletedSubtrees
  <2>5. touched' = {} => tombs' = {}
    BY <2>1, <2>3, <2>4
  <2> QED
    BY <2>1, <2>2, <2>5 DEF NotPlannedYet
<1>5. ASSUME pc \notin {"idle", "scan"}, UNCHANGED reused,
             pc' \in {"live", "inventory"} => pc' = pc /\ UNCHANGED <<tombs, record>>
      PROVE  NotPlannedYet'
  <2>1. pc' \in {"live", "inventory"} => touched \subseteq touched'
    BY <1>5, StepVisible
  <2>2. pc' \in {"live", "inventory"} =>
            \A file \in reused' : file \in touched' \/ record'[file].version = Visible(file)'
    BY <1>1, <1>2, <1>5, <2>1 DEF NotPlannedYet
  <2>3. pc' = "inventory" /\ touched' = {} => tombs' = {}
    BY <1>5, <2>1 DEF NotPlannedYet
  <2> QED
    BY <2>2, <2>3 DEF NotPlannedYet
<1>6. CASE pc' \in {"idle", "scan"}
  BY <1>6 DEF NotPlannedYet
<1> QED
  BY <1>3, <1>4, <1>5, <1>6, StepPlan

\* Whatever fails a root as a whole counts as a failed item.
LEMMA NextHard ==
    ASSUME HardIsFailed, [Next]_vars
    PROVE  HardIsFailed'
<1> USE DEF trees, database, plan, summary, budgets
<1>1. CASE hard' = hard /\ failed' = failed /\ (pc' \in {"idle", "scan"} => pc \in {"idle", "scan"})
  BY <1>1 DEF HardIsFailed
<1>2. CASE (failed' /\ pc' = "finish") \/ (failed' /\ pc' = pc /\ hard' = hard) \/ ~hard'
  BY <1>2 DEF HardIsFailed
<1>3. CASE UNCHANGED vars
  BY <1>1, <1>3 DEF vars
<1>4. CASE StartRun \/ ScanSteps
  <2>1. ASSUME NEW unreadable, NEW busy, Scan(unreadable, busy) PROVE ~hard'
    BY <2>1 DEF Scan, HardIsFailed
  <2> QED
    BY <1>1, <1>2, <1>4, <2>1
    DEF StartRun, ScanSteps, BuildLivePlan, CollisionFails, FailRoot, UseCache,
        RemoteRootNotFound, ListRemote, PersistInventory
<1>5. CASE PhaseSteps
  BY <1>1, <1>2, <1>5
  DEF PhaseSteps, StartCreates, StartUploads, StartDeletes, EndDeletes, FinishRun, EndRun,
      StartBatch, StartDelete, CheckDelete
<1>6. CASE TaskSteps
  BY <1>1, <1>2, <1>6
  DEF TaskSteps, TaskSucceeds, TaskRejected, TaskCancelled, JoinCreate, JoinUpload, JoinDelete,
      JoinStop
<1>7. CASE FaultSteps
  <2>1. CASE QuotaExceeded \/ Cancel \/ Unmount \/ Mount
    BY <1>1, <1>2, <2>1 DEF QuotaExceeded, Cancel, Unmount, Mount, FailRoot
  <2>2. CASE Crash \/ DatabaseFails
    BY <1>2, <2>2 DEF Crash, DatabaseFails, EndRun
  <2>3. CASE \E kind \in FaultKinds : InventoryFails(kind)
    BY <1>2, <2>3 DEF InventoryFails, FailRoot, PartialFailRoot
  <2>4. CASE \E dir \in Dirs : ListingNotFound(dir)
    BY <1>1, <2>4 DEF ListingNotFound
  <2>5. CASE \E path \in Paths, missed \in SUBSET Paths : ListingShifted(path, missed)
    BY <1>1, <2>5 DEF ListingShifted
  <2>6. CASE \E path \in Paths : TaskFails(path) \/ RemoveRemote(path)
    BY <1>1, <2>6 DEF TaskFails, RemoveRemote
  <2>7. CASE \E path \in Paths, kind \in FaultKinds : JoinInterrupted(path, kind)
    BY <1>2, <2>7 DEF JoinInterrupted, EndRun
  <2> QED
    BY <1>7, <2>1, <2>2, <2>3, <2>4, <2>5, <2>6, <2>7 DEF FaultSteps
<1>8. CASE EditSteps
  BY <1>1, <1>8 DEF EditSteps, WriteLocal, RestoreLocal, RemoveLocal, Edit
<1> QED
  BY <1>3, <1>4, <1>5, <1>6, <1>7, <1>8 DEF Next

\* What the mirror's invariant rests on.
BaseInv ==
    /\ UploadInv /\ GoneInv /\ WorkInv
    /\ ClaimsNotAhead /\ ScanHolds /\ NotPlannedYet /\ HardIsFailed

\* In a run under which nothing changed, the live plan is what is there.
LEMMA FreshFacts ==
    ASSUME BaseInv, pc \notin {"idle", "scan"}, touched = {}, ~failed
    PROVE  /\ <<>> \in Paths /\ Visible(<<>>) # 0
           /\ \A path \in Paths : Visible(path) # 0 <=> path = <<>> \/ path \in live
           /\ \A file \in LiveFiles :
                 /\ file \in Files /\ file \in Paths /\ local[file] # 0
                 /\ Visible(file) = local[file] /\ scanned[file] = local[file]
<1>1. <<>> \in Paths /\ Files \subseteq Paths
  BY PathsAssumption DEF Paths
<1>2. /\ \A path \in live : Visible(path) # 0
      /\ \A file \in LiveFiles : scanned[file] = Visible(file)
      /\ Visible(<<>>) # 0
  BY DEF BaseInv, ScanHolds
<1>3. \A path \in Paths \ {<<>>} : path \notin live => Visible(path) = 0
  BY DEF BaseInv, GoneInv, PlanIsComplete, Gone
<1>4. \A path : Visible(path) # 0 => Visible(path) = local[path]
  BY DEF Visible
<1>5. \A path \in Paths : Visible(path) # 0 <=> path = <<>> \/ path \in live
  BY <1>2, <1>3
<1> QED
  BY <1>1, <1>2, <1>4, <1>5 DEF LiveFiles

\* What is there is in no deleted subtree, and no directory above it is missing.
LEMMA VisibleIsReachable ==
    ASSUME GoneInv, touched = {}, NEW path \in Paths, Visible(path) # 0
    PROVE  ~CoveredBySome(tombs, path) /\ MissingAncestors(path, LocalDirs) = {}
<1>1. ~CoveredBySome(tombs, path)
  BY DEF GoneInv, SubtreesGone, CoveredBySome, Gone
<1>2. \A dir \in Ancestors(path) : dir \in LocalDirs
  BY PathsAssumption DEF GoneInv, LocalClosed, LocalDirs, Visible
<1> QED
  BY <1>1, <1>2 DEF MissingAncestors

\* A file that is on the disk and whose record matches needs no upload.
LEMMA RecordedIsSettled ==
    ASSUME UploadInv, ClaimsNotAhead, NEW file \in Files, local[file] # 0,
           Visible(file) = local[file], record[file].version = local[file], remote[file] # 0
    PROVE  Settled(file)
<1>1. /\ local[file] \in Nat /\ remote[file] \in Nat /\ last[file] \in Nat
      /\ local[file] = last[file] /\ remote[file] <= last[file]
  BY NaturalVersions DEF UploadInv, LastIsNewest
<1>2. CASE record[file].status \in {"synced", "changed", "deleted"}
  <2>1. record[file].version <= remote[file]
    BY <1>2 DEF UploadInv, RecordNotAhead, ClaimsNotAhead
  <2> QED
    BY <1>1, <2>1 DEF Settled
<1>3. CASE record[file].status = "skipped"
  <2>1. record[file] \in [version : Versions, status : RecordStatuses]
    BY DEF UploadInv, TypeOK
  <2>2. record[file] = [version |-> local[file], status |-> "skipped"]
    BY <1>3, <2>1
  <2> QED
    BY <2>2 DEF Settled, SkippedAsIs
<1>4. record[file].status # "none"
  BY DEF ClaimsNotAhead
<1>5. record[file].status \in RecordStatuses
  BY DEF UploadInv, TypeOK
<1> QED
  BY <1>2, <1>3, <1>4, <1>5 DEF RecordStatuses

\* Nothing is claimed of a run that is not fresh, or has no listing yet.
LEMMA MirrorVacuous ==
    ASSUME ~Fresh' \/ pc' \in {"idle", "scan", "live", "inventory"},
           pc' # "idle" \/ outcome' # "succeeded" \/ touched' # {}
    PROVE  MirrorInv'
<1>1. FreshSuccessMirrors'
  BY DEF FreshSuccessMirrors
<1> QED
  BY <1>1 DEF MirrorInv, ListedInv, PlannedInv, CreateInv, SendInv, ExtraInv, ExactInv

\* Settled files stay so while their records do.
LEMMA SettledStays ==
    ASSUME UNCHANGED local, NEW path, Settled(path),
           remote'[path] = remote[path] \/ remote'[path] = Visible(path),
           path \in Files => record'[path] = record[path]
    PROVE  Settled(path)'
  BY DEF Settled, SkippedAsIs, Visible

\* The listing is what is on the disk, and what it has of unchanged files is settled.
LEMMA ListMirror ==
    ASSUME BaseInv, ListRemote \/ RemoteRootNotFound
    PROVE  MirrorInv'
<1> USE DEF trees, database, plan, summary, budgets
<1>1. /\ pc = "inventory" /\ pc' \in {"persist", "plan"} /\ fromCache' = FALSE
      /\ UNCHANGED <<local, remote, record, live, reused, tombs, touched, failed, cancelled>>
  BY DEF ListRemote, RemoteRootNotFound
<1>2. CASE ~Fresh'
  BY <1>1, <1>2, MirrorVacuous
<1>3. CASE Fresh'
  <2>1. touched = {} /\ ~failed
    BY <1>1, <1>3 DEF Fresh
  <2>2. tombs = {}
    BY <1>1, <2>1 DEF BaseInv, NotPlannedYet
  <2>3. /\ \A path \in Paths : remote[path] # 0 => path \in inventory'
        /\ \A path \in inventory' : path \in Paths /\ remote[path] # 0
    <3>1. CASE ListRemote
      BY <2>2, <3>1 DEF ListRemote, Listing, OnDisk
    <3>2. CASE RemoteRootNotFound
      <4>1. <<>> \in Paths /\ \A path \in Paths : Covers(<<>>, path)
        BY PathsAssumption DEF Paths, Covers
      <4>2. remote[<<>>] = 0 /\ inventory' = {}
        BY <3>2, <4>1 DEF RemoteRootNotFound, OnDisk
      <4>3. \A path \in Paths : remote[path] = 0
        BY <4>1, <4>2 DEF BaseInv, WorkInv, RemoteClosed
      <4> QED
        BY <4>2, <4>3
    <3> QED
      BY <3>1, <3>2
  <2>4. ListedInv'
    BY <1>1, <2>3 DEF ListedInv
  <2>5. ASSUME NEW file \in LiveFiles', file \notin Uploads' PROVE Settled(file)'
    <3>1. file \in LiveFiles /\ file \in reused /\ file \in inventory'
      BY <1>1, <2>5 DEF Uploads, PlannedUploads, LiveFiles
    <3>2. /\ file \in Files /\ file \in Paths /\ local[file] # 0 /\ Visible(file) = local[file]
      BY <1>1, <2>1, <3>1, FreshFacts
    <3>3. record[file].version = local[file]
      BY <1>1, <2>1, <3>1, <3>2 DEF BaseInv, NotPlannedYet
    <3>4. Settled(file)
      BY <2>3, <3>1, <3>2, <3>3, RecordedIsSettled DEF BaseInv
    <3> QED
      BY <1>1, <3>4, SettledStays
  <2>6. PlannedInv'
    BY <2>5 DEF PlannedInv
  <2>7. CreateInv' /\ SendInv' /\ ExtraInv' /\ ExactInv' /\ FreshSuccessMirrors'
    BY <1>1 DEF CreateInv, SendInv, ExtraInv, ExactInv, FreshSuccessMirrors
  <2> QED
    BY <2>4, <2>6, <2>7 DEF MirrorInv
<1> QED
  BY <1>2, <1>3

\* The other steps up to the plan.
LEMMA ScanMirror ==
    ASSUME BaseInv, MirrorInv, StartRun \/ ScanSteps
    PROVE  MirrorInv'
<1> USE DEF trees, database, plan, summary, budgets
<1>1. CASE StartRun
  BY <1>1, MirrorVacuous DEF StartRun
<1>2. ASSUME NEW unreadable, NEW busy, Scan(unreadable, busy) PROVE MirrorInv'
  BY <1>2, MirrorVacuous DEF Scan
<1>3. CASE BuildLivePlan
  BY <1>3, MirrorVacuous DEF BuildLivePlan
<1>4. CASE CollisionFails
  BY <1>4, MirrorVacuous DEF CollisionFails, FailRoot, Fresh
<1>5. CASE UseCache
  BY <1>5, MirrorVacuous DEF UseCache, Fresh
<1>6. CASE ListRemote \/ RemoteRootNotFound
  BY <1>6, ListMirror
<1>7. CASE PersistInventory
  <2>1. /\ pc = "persist" /\ pc' = "plan"
        /\ UNCHANGED <<local, remote, record, live, reused, inventory, touched, failed,
                       cancelled, fromCache>>
    BY <1>7 DEF PersistInventory
  <2>2. Fresh' => Fresh
    BY <2>1 DEF Fresh
  <2>3. ListedInv'
    BY <2>1, <2>2 DEF MirrorInv, ListedInv, Visible
  <2>4. PlannedInv'
    BY <2>1, <2>2
    DEF MirrorInv, PlannedInv, LiveFiles, Uploads, Settled, SkippedAsIs, Visible
  <2>5. CreateInv' /\ SendInv' /\ ExtraInv' /\ ExactInv' /\ FreshSuccessMirrors'
    BY <2>1 DEF CreateInv, SendInv, ExtraInv, ExactInv, FreshSuccessMirrors
  <2> QED
    BY <2>3, <2>4, <2>5 DEF MirrorInv
<1> QED
  BY <1>1, <1>2, <1>3, <1>4, <1>5, <1>6, <1>7 DEF ScanSteps

\* The create and the upload phase begin with what the plan has.
LEMMA StartMirror ==
    ASSUME BaseInv, MirrorInv, StartCreates \/ StartUploads
    PROVE  MirrorInv'
<1> USE DEF trees, database, plan, summary, budgets
<1>1. /\ pc \in {"plan", "create"} /\ pc' \in {"create", "upload", "finish"}
      /\ pc' = "finish" => cancelled
      /\ UNCHANGED <<local, remote, record, live, reused, inventory, touched, failed, cancelled,
                     fromCache, task>>
  BY DEF StartCreates, StartUploads
<1>2. CASE ~Fresh'
  BY <1>1, <1>2, MirrorVacuous
<1>3. CASE Fresh'
  <2>1. Fresh
    BY <1>1, <1>3 DEF Fresh
  <2>2. /\ \A path \in Paths : remote[path] # 0 => path \in inventory \/ Visible(path) # 0
        /\ \A path \in inventory : remote[path] # 0
        /\ \A file \in LiveFiles : file \in Uploads \/ Settled(file)
    BY <1>1, <2>1 DEF MirrorInv, ListedInv, PlannedInv
  <2>3. ListedInv'
    BY <1>1, <2>2 DEF ListedInv, Visible
  <2>4. UNCHANGED <<LiveFiles, Uploads, Wanted>> /\ \A file : Settled(file)' = Settled(file)
    BY <1>1 DEF LiveFiles, Uploads, Wanted, Settled, SkippedAsIs, Visible
  <2>5. ExtraInv' /\ ExactInv' /\ FreshSuccessMirrors'
    BY <1>1, <1>3 DEF ExtraInv, ExactInv, FreshSuccessMirrors, Fresh
  <2>6. CASE StartCreates
    <3>1. /\ pc' = "create" /\ todo' = PlannedCreates(live \cap Dirs, inventory)
      BY <2>6 DEF StartCreates
    <3>2. CreateInv'
      BY <1>1, <2>2, <3>1 DEF CreateInv, Wanted, PlannedCreates
    <3>3. PlannedInv' /\ SendInv'
      BY <2>2, <2>4, <3>1 DEF PlannedInv, SendInv
    <3> QED
      BY <2>3, <2>5, <3>2, <3>3 DEF MirrorInv
  <2>7. CASE StartUploads
    <3>1. /\ pc = "create" /\ pc' = "upload" /\ todo' = Uploads /\ task = NoTasks /\ todo = {}
      BY <2>1, <2>7 DEF StartUploads, PhaseOver, Idle, Fresh
    <3>2. Wanted \subseteq Paths /\ LiveFiles \subseteq Paths
      BY PathsAssumption DEF Wanted, LiveFiles, Paths
    <3>3. \A path \in Paths : task[path] = "none"
      BY <3>1 DEF NoTasks
    <3>4. \A dir \in Wanted : remote[dir] # 0
      BY <2>1, <3>1, <3>2, <3>3 DEF MirrorInv, CreateInv
    <3>5. SendInv'
      BY <1>1, <2>2, <2>4, <3>1, <3>2, <3>3, <3>4 DEF SendInv
    <3>6. PlannedInv' /\ CreateInv'
      BY <3>1 DEF PlannedInv, CreateInv
    <3> QED
      BY <2>3, <2>5, <3>5, <3>6 DEF MirrorInv
  <2> QED
    BY <2>6, <2>7
<1> QED
  BY <1>2, <1>3

\* A batch drops nothing while nothing has gone.
LEMMA BatchMirror ==
    ASSUME BaseInv, MirrorInv, NEW batch \in SUBSET Paths, StartBatch(batch)
    PROVE  MirrorInv'
<1> USE DEF trees, database, plan, summary, budgets
<1>1. /\ pc \in {"create", "upload"} /\ task = NoTasks /\ batch \subseteq todo
      /\ todo' = todo \ batch
      /\ UNCHANGED <<local, remote, record, live, reused, inventory, touched, failed, cancelled,
                     fromCache, pc>>
  BY DEF StartBatch, Idle
<1>2. CASE ~Fresh'
  BY <1>1, <1>2, MirrorVacuous
<1>3. CASE Fresh'
  <2>1. Fresh
    BY <1>1, <1>3 DEF Fresh
  <2>2. UNCHANGED <<LiveFiles, Uploads, Wanted>> /\ \A file : Settled(file)' = Settled(file)
    BY <1>1 DEF LiveFiles, Uploads, Wanted, Settled, SkippedAsIs, Visible
  <2>3. \A path \in Paths : path = <<>> \/ path \in live => Visible(path) # 0
    BY <1>1, <2>1, FreshFacts DEF Fresh
  <2>4. \A path \in batch : path = <<>> \/ path \in live
    BY <1>1 DEF BaseInv, WorkInv, WorkIsPlanned
  <2>5. \A path \in batch : ~CoveredBySome(tombs, path) /\ MissingAncestors(path, LocalDirs) = {}
    BY <2>1, <2>3, <2>4, VisibleIsReachable DEF BaseInv, Fresh
  <2>6. \A path \in Paths : task'[path] = IF path \in batch THEN "queued" ELSE "none"
    BY <1>1, <2>5 DEF StartBatch, NoTasks
  <2>7. \A path \in Paths : task[path] = "none"
    BY <1>1 DEF NoTasks
  <2>8. Wanted \subseteq Paths /\ LiveFiles \subseteq Paths
    BY PathsAssumption DEF Wanted, LiveFiles, Paths
  <2>9. ListedInv'
    BY <1>1, <2>1 DEF MirrorInv, ListedInv, Visible
  <2>10. PlannedInv'
    BY <1>1, <2>1, <2>2 DEF MirrorInv, PlannedInv
  <2>11. CreateInv'
    BY <1>1, <2>1, <2>2, <2>6, <2>7, <2>8 DEF MirrorInv, CreateInv
  <2>12. SendInv'
    BY <1>1, <2>1, <2>2, <2>6, <2>7, <2>8 DEF MirrorInv, SendInv
  <2>13. ExtraInv' /\ ExactInv' /\ FreshSuccessMirrors'
    BY <1>1 DEF ExtraInv, ExactInv, FreshSuccessMirrors
  <2> QED
    BY <2>9, <2>10, <2>11, <2>12, <2>13 DEF MirrorInv
<1> QED
  BY <1>2, <1>3

\* A request of the first two phases makes what the local tree has.
LEMMA SendEffect ==
    ASSUME BaseInv, Fresh, pc \in {"create", "upload"}, NEW path \in Paths, task[path] # "none",
           Acceptable(path), remote' = Applied({path})
    PROVE  /\ \A other \in Paths : other # path => remote'[other] = remote[other]
           /\ remote'[path] # 0 /\ Visible(path) # 0
           /\ path \in Files => remote'[path] = Visible(path)
<1>1. path = <<>> \/ path \in live
  BY DEF BaseInv, WorkInv, WorkIsPlanned
<1>2. Visible(path) # 0
  BY <1>1, FreshFacts DEF Fresh
<1> QED
  BY <1>2, AppliedAdds DEF Applied

\* A request of the delete phase removes what is not there.
LEMMA DropEffect ==
    ASSUME BaseInv, Fresh, pc = "delete", NEW path \in Paths, task[path] # "none",
           NEW other \in Paths, Covers(path, other)
    PROVE  Visible(other) = 0
  BY DEF BaseInv, GoneInv, TargetsGone, Target, Gone, Fresh

\* The answer to a request, with its effect on the disk or without.
LEMMA AnswerMirror ==
    ASSUME BaseInv, MirrorInv, NEW path \in Paths, task[path] = "queued",
           UNCHANGED <<local, record, live, reused, inventory, touched, failed, cancelled,
                       fromCache, pc, todo>>,
           NEW answer \in {"ok", "fail", "stop", "skip"}, Answer(path, answer),
           answer = "skip" => path \in Files /\ pc # "delete",
           \/ remote' = remote /\ answer # "ok"
           \/ remote' = Applied({path}) /\ Acceptable(path)
    PROVE  MirrorInv'
<1>1. pc \in {"create", "upload", "delete"}
  BY DEF BaseInv, WorkInv, TasksInTime, NoTasks
<1>2. CASE ~Fresh'
  BY <1>1, <1>2, MirrorVacuous
<1>3. CASE Fresh'
  <2>1. Fresh
    BY <1>3 DEF Fresh
  <2>2. UNCHANGED <<LiveFiles, Uploads, Wanted>>
    BY DEF LiveFiles, Uploads, Wanted
  <2>3. \A other \in Paths : task'[other] = IF other = path THEN answer ELSE task[other]
    BY DEF BaseInv, UploadInv, TypeOK, Answer
  <2>4. Wanted \subseteq Paths /\ LiveFiles \subseteq Paths
    BY PathsAssumption DEF Wanted, LiveFiles, Paths
  <2>5. \A p \in Paths : Visible(p)' = Visible(p)
    BY DEF Visible
  <2>6. ExactInv' /\ FreshSuccessMirrors'
    BY <1>1 DEF ExactInv, FreshSuccessMirrors
  <2>7. CASE pc \in {"create", "upload"}
    <3>1. /\ \A other \in Paths : remote'[other] # remote[other] =>
                /\ other = path /\ remote'[path] # 0 /\ Visible(path) # 0
                /\ path \in Files => remote'[path] = Visible(path)
          /\ answer = "ok" => remote'[path] # 0 /\ (path \in Files => remote'[path] = Visible(path))
      BY <2>1, <2>7, SendEffect
    <3>2. \A file \in LiveFiles : Settled(file) => Settled(file)'
      BY <2>4, <3>1, SettledStays DEF LiveFiles
    <3>3. ListedInv'
      <4>1. /\ \A p \in Paths : remote[p] # 0 => p \in inventory \/ Visible(p) # 0
            /\ \A p \in inventory : p \in Paths /\ remote[p] # 0
        BY <2>1, <2>7 DEF MirrorInv, ListedInv, BaseInv, UploadInv, TypeOK
      <4>2. \A p \in Paths : remote'[p] # 0 => p \in inventory \/ Visible(p) # 0
        BY <3>1, <4>1
      <4>3. \A p \in inventory : remote'[p] # 0
        BY <3>1, <4>1
      <4> QED
        BY <2>5, <4>2, <4>3 DEF ListedInv
    <3>4. PlannedInv'
      BY <2>1, <2>2, <3>2 DEF MirrorInv, PlannedInv
    <3>5. CreateInv'
      <4> SUFFICES ASSUME pc = "create", NEW dir \in Wanted
                   PROVE  \/ remote'[dir] # 0 \/ dir \in todo
                          \/ task'[dir] \in {"queued", "fail", "stop"}
        BY <2>2 DEF CreateInv
      <4>1. remote[dir] # 0 \/ dir \in todo \/ task[dir] \in {"queued", "fail", "stop"}
        BY <2>1 DEF MirrorInv, CreateInv
      <4>2. dir \notin Files /\ dir \in Paths
        BY <2>4, PathsAssumption DEF Wanted
      <4> QED
        BY <2>3, <3>1, <4>1, <4>2
    <3>6. SendInv'
      <4> SUFFICES ASSUME pc = "upload"
                   PROVE  /\ \A dir \in Wanted : remote'[dir] # 0
                          /\ \A file \in LiveFiles :
                                \/ Settled(file)' \/ file \in todo
                                \/ task'[file] \in {"queued", "skip", "fail", "stop"}
                          /\ \A file \in LiveFiles :
                                task'[file] = "ok" => remote'[file] = Visible(file)
        BY <2>2, <2>4, <2>5 DEF SendInv
      <4>1. /\ \A dir \in Wanted : remote[dir] # 0
            /\ \A file \in LiveFiles :
                  \/ Settled(file) \/ file \in todo
                  \/ task[file] \in {"queued", "skip", "fail", "stop"}
            /\ \A file \in LiveFiles : task[file] = "ok" => remote[file] = Visible(file)
        BY <2>1 DEF MirrorInv, SendInv
      <4>2. \A dir \in Wanted : remote'[dir] # 0
        BY <2>4, <3>1, <4>1
      <4>3. ASSUME NEW file \in LiveFiles
            PROVE  /\ \/ Settled(file)' \/ file \in todo
                      \/ task'[file] \in {"queued", "skip", "fail", "stop"}
                   /\ task'[file] = "ok" => remote'[file] = Visible(file)
        <5>1. file \in Files /\ file \in Paths
          BY <2>4 DEF LiveFiles
        <5>2. CASE file = path /\ answer = "ok"
          <6>1. remote'[file] = Visible(file)
            BY <3>1, <5>1, <5>2
          <6> QED
            BY <2>5, <5>1, <6>1 DEF Settled
        <5>3. CASE file = path /\ answer # "ok"
          BY <2>3, <5>1, <5>3
        <5>4. CASE file # path
          BY <2>3, <3>1, <3>2, <4>1, <5>1, <5>4
        <5> QED
          BY <5>2, <5>3, <5>4
      <4> QED
        BY <4>2, <4>3
    <3>7. ExtraInv'
      BY <2>7 DEF ExtraInv
    <3> QED
      BY <2>6, <3>3, <3>4, <3>5, <3>6, <3>7 DEF MirrorInv
  <2>8. CASE pc = "delete"
    <3>1. \A p \in Paths : remote'[p] = remote[p] \/ (remote'[p] = 0 /\ Covers(path, p))
      BY <2>8 DEF Applied, CoveredBySome
    <3>2. \A p \in Paths : Covers(path, p) => Visible(p) = 0
      BY <2>1, <2>8, DropEffect
    <3>3. /\ \A dir \in Wanted : remote[dir] # 0
          /\ \A file \in LiveFiles : Settled(file)
          /\ \A p \in Paths : remote[p] # 0 /\ Visible(p) = 0 =>
                \E target \in Paths :
                    /\ Covers(target, p)
                    /\ target \in todo \/ task[target] \in {"check", "queued", "fail", "stop"}
      BY <2>1, <2>8 DEF MirrorInv, ExtraInv
    <3>4. \A p \in Paths : p = <<>> \/ p \in live => Visible(p) # 0
      BY <2>1, <2>8, FreshFacts DEF Fresh
    <3>5. \A dir \in Wanted : remote'[dir] # 0
      BY <2>4, <3>1, <3>2, <3>3, <3>4 DEF Wanted
    <3>6. \A file \in LiveFiles : Settled(file)'
      <4> SUFFICES ASSUME NEW file \in LiveFiles PROVE Settled(file)'
        OBVIOUS
      <4>1. file \in Paths /\ file \in live
        BY <2>4 DEF LiveFiles
      <4>2. remote'[file] = remote[file]
        BY <3>1, <3>2, <3>4, <4>1
      <4> QED
        BY <3>3, <4>2, SettledStays
    <3>7. ASSUME NEW p \in Paths, remote'[p] # 0, Visible(p) = 0
          PROVE  \E target \in Paths :
                    /\ Covers(target, p)
                    /\ target \in todo \/ task'[target] \in {"check", "queued", "fail", "stop"}
      <4>1. remote[p] # 0
        BY <3>1, <3>7
      <4>2. PICK target \in Paths :
                    /\ Covers(target, p)
                    /\ target \in todo \/ task[target] \in {"check", "queued", "fail", "stop"}
        BY <3>3, <3>7, <4>1
      <4>3. CASE target # path \/ answer # "ok"
        BY <2>3, <2>8, <4>2, <4>3
      <4>4. CASE target = path /\ answer = "ok"
        <5>1. remote'[p] = 0
          BY <2>8, <4>2, <4>4 DEF Applied, CoveredBySome
        <5> QED
          BY <3>7, <5>1
      <4> QED
        BY <4>3, <4>4
    <3>8. ExtraInv'
      BY <2>2, <2>5, <3>5, <3>6, <3>7 DEF ExtraInv
    <3>9. ListedInv' /\ PlannedInv' /\ CreateInv' /\ SendInv'
      BY <2>8 DEF ListedInv, PlannedInv, CreateInv, SendInv
    <3> QED
      BY <2>6, <3>8, <3>9 DEF MirrorInv
  <2> QED
    BY <1>1, <2>7, <2>8
<1> QED
  BY <1>2, <1>3

\* The join of an answer "ok" or "skip" in the first two phases: the record fits the disk.
LEMMA JoinMirror ==
    ASSUME BaseInv, MirrorInv, NEW path \in Paths,
           pc \in {"create", "upload"}, pc' = pc,
           UNCHANGED <<local, remote, live, reused, inventory, touched, failed, cancelled,
                       fromCache, todo>>,
           Answer(path, "none"),
           task[path] = "ok" \/ (pc = "upload" /\ task[path] = "skip" /\
               \A file \in Files : file = path =>
                   record'[file] = [version |-> scanned[file], status |-> "skipped"]),
           pc = "create" => record' = record,
           \A file \in Files : file # path => record'[file] = record[file]
    PROVE  MirrorInv'
<1>1. CASE ~Fresh'
  BY <1>1, MirrorVacuous
<1>2. CASE Fresh'
  <2>1. Fresh
    BY <1>2 DEF Fresh
  <2>2. UNCHANGED <<LiveFiles, Uploads, Wanted>>
    BY DEF LiveFiles, Uploads, Wanted
  <2>3. \A other \in Paths : task'[other] = IF other = path THEN "none" ELSE task[other]
    BY DEF BaseInv, UploadInv, TypeOK, Answer
  <2>4. Wanted \subseteq Paths /\ LiveFiles \subseteq Paths
    BY PathsAssumption DEF Wanted, LiveFiles, Paths
  <2>5. \A p \in Paths : Visible(p)' = Visible(p)
    BY DEF Visible
  <2>6. ExtraInv' /\ ExactInv' /\ FreshSuccessMirrors'
    BY DEF ExtraInv, ExactInv, FreshSuccessMirrors
  <2>7. ListedInv'
    <3>1. inventory \subseteq Paths
      BY DEF BaseInv, UploadInv, TypeOK
    <3> QED
      BY <2>1, <2>5, <3>1 DEF MirrorInv, ListedInv
  <2>8. CASE pc = "create"
    <3>1. \A file \in LiveFiles : Settled(file) => Settled(file)'
      BY <2>8, SettledStays
    <3>2. PlannedInv'
      BY <2>1, <2>2, <3>1 DEF MirrorInv, PlannedInv
    <3>3. remote[path] # 0
      BY <2>1, <2>8 DEF BaseInv, WorkInv, AnswersAreEffects, Fresh
    <3>4. CreateInv'
      BY <2>1, <2>2, <2>3, <2>4, <3>3 DEF MirrorInv, CreateInv
    <3>5. SendInv'
      BY <2>8 DEF SendInv
    <3> QED
      BY <2>6, <2>7, <3>2, <3>4, <3>5 DEF MirrorInv
  <2>9. CASE pc = "upload"
    <3>1. /\ \A dir \in Wanted : remote[dir] # 0
          /\ \A file \in LiveFiles :
                \/ Settled(file) \/ file \in todo
                \/ task[file] \in {"queued", "skip", "fail", "stop"}
          /\ \A file \in LiveFiles : task[file] = "ok" => remote[file] = Visible(file)
      BY <2>1, <2>9 DEF MirrorInv, SendInv
    <3>2. ASSUME NEW file \in LiveFiles
          PROVE  /\ \/ Settled(file)' \/ file \in todo
                    \/ task'[file] \in {"queued", "skip", "fail", "stop"}
                 /\ task'[file] = "ok" => remote[file] = Visible(file)
      <4>1. /\ file \in Files /\ file \in Paths /\ local[file] # 0 /\ Visible(file) = local[file]
            /\ scanned[file] = local[file]
        BY <2>1, <2>9, FreshFacts DEF Fresh
      <4>2. CASE file # path
        <5>1. Settled(file) => Settled(file)'
          BY <4>1, <4>2, SettledStays
        <5> QED
          BY <2>3, <3>1, <4>1, <4>2, <5>1
      <4>3. CASE file = path /\ task[path] = "ok"
        <5>1. remote[file] = Visible(file)
          BY <3>1, <4>3
        <5>2. Settled(file)'
          BY <2>5, <4>1, <5>1 DEF Settled
        <5> QED
          BY <5>1, <5>2
      <4>4. CASE file = path /\ task[path] # "ok"
        <5>1. record'[file] = [version |-> local[file], status |-> "skipped"]
          BY <4>1, <4>4
        <5>2. Settled(file)'
          BY <4>1, <5>1 DEF Settled, SkippedAsIs
        <5> QED
          BY <2>3, <4>1, <4>4, <5>2
      <4> QED
        BY <4>2, <4>3, <4>4
    <3>3. SendInv'
      BY <2>2, <2>4, <2>5, <3>1, <3>2 DEF SendInv
    <3>4. PlannedInv' /\ CreateInv'
      BY <2>9 DEF PlannedInv, CreateInv
    <3> QED
      BY <2>6, <2>7, <3>3, <3>4 DEF MirrorInv
  <2> QED
    BY <2>8, <2>9
<1> QED
  BY <1>1, <1>2

\* Every join of the first two phases.
LEMMA JoinsMirror ==
    ASSUME BaseInv, MirrorInv, NEW path \in Paths, JoinCreate(path) \/ JoinUpload(path)
    PROVE  MirrorInv'
<1> USE DEF trees, database, plan, summary, budgets
<1>1. ASSUME failed', pc' # "idle" PROVE MirrorInv'
  BY <1>1, MirrorVacuous DEF Fresh
<1>2. TypeOK
  BY DEF BaseInv, WorkInv
<1>3. CASE JoinCreate(path)
  <2>1. CASE task[path] = "ok"
    BY <1>3, <2>1, JoinMirror DEF JoinCreate, JoinStop
  <2>2. CASE task[path] # "ok"
    BY <1>1, <1>3, <2>2 DEF JoinCreate, JoinStop
  <2> QED
    BY <2>1, <2>2
<1>4. CASE JoinUpload(path)
  <2>1. ASSUME NEW status, record' = FileState(path, status)
        PROVE  /\ \A file \in Files : file # path => record'[file] = record[file]
               /\ \A file \in Files : file = path =>
                      record'[file] = [version |-> scanned[file], status |-> status]
    BY <1>2, <2>1 DEF FileState, TypeOK
  <2>2. CASE ~Fresh'
    BY <1>4, <2>2, MirrorVacuous DEF JoinUpload, JoinStop
  <2>3. CASE Fresh' /\ NewlyGone(path) /\ task[path] # "ok"
    <3>1. /\ pc = "upload" /\ task[path] # "none"
          /\ UNCHANGED <<touched, failed, cancelled, fromCache>>
      BY <1>4, <2>3 DEF JoinUpload, JoinStop, Fresh
    <3>2. path \in live /\ touched = {} /\ ~failed
      BY <2>3, <3>1 DEF BaseInv, WorkInv, WorkIsPlanned, Fresh
    <3>3. Visible(path) # 0
      BY <3>1, <3>2, FreshFacts
    <3>4. MissingAncestors(path, LocalDirs) = {}
      BY <3>2, <3>3, VisibleIsReachable DEF BaseInv
    <3> QED
      BY <2>3, <3>4 DEF NewlyGone
  <2>4. CASE task[path] = "ok"
    <3>1. /\ pc = "upload" /\ pc' = pc /\ Answer(path, "none")
          /\ record' = FileState(path, StatusAfterUpload(path))
          /\ UNCHANGED <<local, remote, live, reused, inventory, touched, failed, cancelled,
                         fromCache, todo>>
      BY <1>4, <2>4 DEF JoinUpload, JoinStop
    <3> QED
      BY <2>1, <2>4, <3>1, JoinMirror
  <2>5. CASE task[path] = "skip" /\ ~NewlyGone(path)
    <3>1. /\ pc = "upload" /\ pc' = pc /\ Answer(path, "none")
          /\ record' = FileState(path, "skipped")
          /\ UNCHANGED <<local, remote, live, reused, inventory, touched, failed, cancelled,
                         fromCache, todo>>
      BY <1>4, <2>5 DEF JoinUpload, JoinStop
    <3> QED
      BY <2>1, <2>5, <3>1, JoinMirror
  <2>6. CASE task[path] \in {"fail", "stop"} /\ ~NewlyGone(path)
    BY <1>1, <1>4, <2>6 DEF JoinUpload, JoinStop
  <2> QED
    BY <1>4, <2>2, <2>3, <2>4, <2>5, <2>6 DEF JoinUpload
<1> QED
  BY <1>3, <1>4

\* The deletes planned over a fresh listing cover all that is extra.
LEMMA DeletesMirror ==
    ASSUME \A path \in Paths \ {<<>>} : DeleteCandidate(path),
           BaseInv, MirrorInv, StartDeletes
    PROVE  MirrorInv'
<1> USE DEF trees, database, plan, summary, budgets
<1>1. /\ pc = "upload" /\ pc' \in {"delete", "finish"} /\ (pc' = "finish" => cancelled)
      /\ UNCHANGED <<local, remote, record, live, reused, inventory, touched, failed, cancelled,
                     fromCache, task>>
  BY DEF StartDeletes
<1>2. CASE ~Fresh'
  BY <1>1, <1>2, MirrorVacuous
<1>3. CASE Fresh'
  <2>1. Fresh /\ pc' = "delete"
    BY <1>1, <1>3 DEF Fresh
  <2> DEFINE known == KnownLive(live \cap Dirs, LiveFiles, tombs)
  <2>2. todo = {} /\ task = NoTasks /\ todo' = CoalescedDeletes(known, inventory)
    BY <1>1, <2>1 DEF StartDeletes, PhaseOver, Idle, Fresh
  <2>3. UNCHANGED <<LiveFiles, Wanted>> /\ \A path : Settled(path)' = Settled(path)
    BY <1>1 DEF LiveFiles, Wanted, Settled, SkippedAsIs, Visible
  <2>4. \A path \in Paths : Visible(path) # 0 <=> path = <<>> \/ path \in live
    BY <1>1, <2>1, FreshFacts DEF Fresh
  <2>5. /\ \A dir \in Wanted : remote[dir] # 0
        /\ \A file \in LiveFiles :
              \/ Settled(file) \/ file \in todo
              \/ task[file] \in {"queued", "skip", "fail", "stop"}
    BY <1>1, <2>1 DEF MirrorInv, SendInv
  <2>6. \A file \in LiveFiles : Settled(file)
    <3>1. \A file \in LiveFiles : file \in Paths
      BY DEF LiveFiles, Paths
    <3> QED
      BY <2>2, <2>5, <3>1 DEF NoTasks
  <2>7. ASSUME NEW path \in Paths, remote[path] # 0, Visible(path) = 0
        PROVE  \E target \in Paths : Covers(target, path) /\ target \in todo'
    <3>1. path \in inventory
      BY <1>1, <2>1, <2>7 DEF MirrorInv, ListedInv
    <3>2. path # <<>> /\ path \notin live
      BY <2>4, <2>7
    <3>3. path \notin known /\ DeleteCandidate(path)
      BY <2>7, <3>2 DEF KnownLive, LiveFiles
    <3>4. inventory \in SUBSET Paths /\ path \in Seq(STRING)
      BY PathsAssumption DEF BaseInv, UploadInv, TypeOK
    <3> HIDE DEF known
    <3>5. todo' \subseteq Paths
      BY <2>2, <3>4, DeletesType
    <3>6. CASE DeadAncestors(path, known) = {}
      <4>1. path \in todo'
        BY <2>2, <3>1, <3>3, <3>6 DEF CoalescedDeletes
      <4>2. Covers(path, path)
        BY <3>4 DEF Covers
      <4> QED
        BY <4>1, <4>2
    <3>7. CASE DeadAncestors(path, known) # {}
      <4>1. Shortest(DeadAncestors(path, known)) \in todo'
        BY <2>2, <3>1, <3>3, <3>7 DEF CoalescedDeletes
      <4>2. DeadAncestors(path, known) \subseteq Ancestors(path)
        BY DEF DeadAncestors
      <4>3. Shortest(DeadAncestors(path, known)) \in Ancestors(path)
        BY <3>4, <3>7, <4>2, AncestorsAreSeqs, ShortestIsLeast
      <4>4. Covers(Shortest(DeadAncestors(path, known)), path)
        BY <3>4, <4>3, AncestorCovers
      <4> QED
        BY <3>5, <4>1, <4>4
    <3> QED
      BY <3>6, <3>7
  <2>8. \A path \in Paths : Visible(path)' = Visible(path)
    BY <1>1 DEF Visible
  <2>9. ExtraInv'
    BY <1>1, <2>3, <2>5, <2>6, <2>7, <2>8 DEF ExtraInv
  <2>10. ListedInv' /\ PlannedInv' /\ CreateInv' /\ SendInv' /\ ExactInv' /\ FreshSuccessMirrors'
    BY <2>1 DEF ListedInv, PlannedInv, CreateInv, SendInv, ExactInv, FreshSuccessMirrors
  <2> QED
    BY <2>9, <2>10 DEF MirrorInv
<1> QED
  BY <1>2, <1>3

\* A delete whose path is on the disk is asked for; one whose path is not is over.
LEMMA DeleteMirror ==
    ASSUME BaseInv, MirrorInv, NEW path \in Paths,
           StartDelete(path) \/ CheckDelete(path) \/ JoinDelete(path)
    PROVE  MirrorInv'
<1> USE DEF trees, database, plan, summary, budgets
<1>1. TypeOK
  BY DEF BaseInv, WorkInv
<1>2. CASE ~Fresh' \/ ~Fresh
  <2>1. ~Fresh' /\ pc' # "idle"
    <3>1. pc # "idle"
      BY DEF BaseInv, WorkInv, TasksInTime, NoTasks, StartDelete, CheckDelete, JoinDelete
    <3> QED
      BY <1>2, <3>1 DEF StartDelete, CheckDelete, JoinDelete, JoinStop, Fresh
  <2> QED
    BY <2>1, MirrorVacuous
<1>3. CASE Fresh' /\ Fresh
  <2>1. /\ pc' = pc
        /\ UNCHANGED <<local, remote, live, reused, inventory, touched, failed, cancelled,
                       fromCache>>
    BY <1>3 DEF StartDelete, CheckDelete, JoinDelete, JoinStop, Fresh
  <2>2. Fresh => UNCHANGED <<LiveFiles, Uploads, Wanted>>
    BY <2>1 DEF LiveFiles, Uploads, Wanted
  <2>3. \A p \in Paths : Visible(p)' = Visible(p)
    BY <2>1 DEF Visible
  <2>4. Wanted \subseteq Paths /\ LiveFiles \subseteq Paths
    BY PathsAssumption DEF Wanted, LiveFiles, Paths
  <2>5. pc \in {"create", "upload", "delete"}
    BY DEF BaseInv, WorkInv, TasksInTime, NoTasks, StartDelete, CheckDelete, JoinDelete
  <2>6. ExactInv' /\ FreshSuccessMirrors'
    BY <2>1, <2>5 DEF ExactInv, FreshSuccessMirrors
  <2>7. CASE pc \in {"create", "upload"}
    <3>1. /\ task[path] = "check" /\ UNCHANGED <<record, todo>>
          /\ \A other \in Paths : other # path => task'[other] = task[other]
          /\ task'[path] # "ok"
      BY <1>1, <2>7 DEF StartDelete, CheckDelete, JoinDelete, Answer, TypeOK
    <3>2. \A file \in LiveFiles : Settled(file)' = Settled(file)
      BY <2>1, <3>1 DEF Settled, SkippedAsIs, Visible
    <3>3. ListedInv'
      BY <1>1, <1>3, <2>1, <2>3 DEF MirrorInv, ListedInv, TypeOK
    <3>4. PlannedInv'
      BY <1>3, <2>1, <2>2, <3>2 DEF MirrorInv, PlannedInv
    <3>5. CreateInv'
      BY <1>3, <2>1, <2>2, <2>4, <3>1 DEF MirrorInv, CreateInv
    <3>6. SendInv'
      <4>1. ASSUME NEW file \in LiveFiles, pc = "upload"
            PROVE  /\ \/ Settled(file)' \/ file \in todo
                      \/ task'[file] \in {"queued", "skip", "fail", "stop"}
                   /\ task'[file] = "ok" => remote[file] = Visible(file)
        <5>1. /\ \/ Settled(file) \/ file \in todo
                 \/ task[file] \in {"queued", "skip", "fail", "stop"}
              /\ task[file] = "ok" => remote[file] = Visible(file)
          BY <1>3, <4>1 DEF MirrorInv, SendInv
        <5> QED
          BY <2>4, <3>1, <3>2, <4>1, <5>1
      <4>2. pc = "upload" => \A dir \in Wanted : remote[dir] # 0
        BY <1>3 DEF MirrorInv, SendInv
      <4> QED
        BY <1>3, <2>1, <2>2, <2>3, <2>4, <3>1, <4>1, <4>2 DEF SendInv
    <3>7. ExtraInv'
      BY <2>1, <2>7 DEF ExtraInv
    <3> QED
      BY <2>6, <3>3, <3>4, <3>5, <3>6, <3>7 DEF MirrorInv
  <2>8. CASE pc = "delete"
    <3>1. /\ \A dir \in Wanted : remote[dir] # 0
          /\ \A file \in LiveFiles : Settled(file)
          /\ \A p \in Paths : remote[p] # 0 /\ Visible(p) = 0 =>
                \E target \in Paths :
                    /\ Covers(target, p)
                    /\ target \in todo \/ task[target] \in {"check", "queued", "fail", "stop"}
      BY <1>3, <2>8 DEF MirrorInv, ExtraInv
    <3>2. \A file \in Files : file # path => record'[file] = record[file]
      BY <1>1 DEF StartDelete, CheckDelete, JoinDelete, JoinStop, MarkDeleted, TypeOK
    <3>3. path \in LiveFiles => UNCHANGED record
      <4> SUFFICES ASSUME path \in LiveFiles, task[path] = "ok" PROVE FALSE
        BY DEF StartDelete, CheckDelete, JoinDelete, JoinStop
      <4>1. Covers(path, path)
        BY PathsAssumption DEF Covers
      <4>2. Visible(path) = 0
        BY <1>3, <2>8, <4>1, DropEffect
      <4> QED
        BY <1>3, <2>8, <4>2, FreshFacts DEF Fresh
    <3>4. ASSUME NEW file \in LiveFiles PROVE Settled(file)'
      BY <2>1, <3>1, <3>2, <3>3, SettledStays DEF LiveFiles
    <3>5. \A other \in Paths : other # path => task'[other] = task[other]
      BY <1>1, <1>3 DEF StartDelete, CheckDelete, JoinDelete, JoinStop, Answer, TypeOK, Fresh
    <3>6. /\ todo \ {path} \subseteq todo'
          /\ \/ path \in todo /\ todo \subseteq todo'
             \/ task'[path] \in {"check", "queued", "fail", "stop"}
             \/ \A p \in Paths : Covers(path, p) => remote[p] = 0
             \/ path \notin todo /\ task[path] \notin {"check", "queued", "fail", "stop"}
      <4>1. CASE StartDelete(path)
        BY <1>1, <4>1 DEF StartDelete, Answer, TypeOK
      <4>2. CASE CheckDelete(path)
        <5>1. remote[path] = 0 => \A p \in Paths : Covers(path, p) => remote[p] = 0
          BY DEF BaseInv, WorkInv, RemoteClosed
        <5> QED
          BY <1>1, <4>2, <5>1 DEF CheckDelete, Answer, TypeOK
      <4>3. CASE JoinDelete(path)
        <5>1. task[path] = "ok" /\ todo' = todo
          BY <1>3, <4>3 DEF JoinDelete, JoinStop, Fresh
        <5> QED
          BY <2>8, <5>1 DEF BaseInv, WorkInv, AnswersAreEffects
      <4> QED
        BY <4>1, <4>2, <4>3
    <3>7. ASSUME NEW p \in Paths, remote[p] # 0, Visible(p) = 0
          PROVE  \E target \in Paths :
                    /\ Covers(target, p)
                    /\ target \in todo' \/ task'[target] \in {"check", "queued", "fail", "stop"}
      <4>1. PICK target \in Paths :
                    /\ Covers(target, p)
                    /\ target \in todo \/ task[target] \in {"check", "queued", "fail", "stop"}
        BY <3>1, <3>7
      <4>2. CASE target # path
        BY <3>5, <3>6, <4>1, <4>2
      <4>3. CASE target = path
        BY <3>6, <3>7, <4>1, <4>3
      <4> QED
        BY <4>2, <4>3
    <3>8. ExtraInv'
      BY <2>1, <2>2, <1>3, <2>3, <3>1, <3>4, <3>7 DEF ExtraInv
    <3>9. ListedInv' /\ PlannedInv' /\ CreateInv' /\ SendInv'
      BY <2>1, <2>8 DEF ListedInv, PlannedInv, CreateInv, SendInv
    <3> QED
      BY <2>6, <3>8, <3>9 DEF MirrorInv
  <2> QED
    BY <2>5, <2>7, <2>8
<1> QED
  BY <1>2, <1>3

\* When the deletes are over nothing is extra, and a success is reported only then.
LEMMA EndMirror ==
    ASSUME BaseInv, MirrorInv, EndDeletes \/ FinishRun
    PROVE  MirrorInv'
<1> USE DEF trees, database, plan, summary, budgets
<1>1. CASE EndDeletes
  <2>1. /\ pc = "delete" /\ pc' = "finish" /\ PhaseOver
        /\ UNCHANGED <<local, remote, record, touched, failed, cancelled, fromCache>>
    BY <1>1 DEF EndDeletes
  <2>2. CASE ~Fresh'
    BY <2>1, <2>2, MirrorVacuous
  <2>3. CASE Fresh'
    <3>1. Fresh /\ todo = {} /\ task = NoTasks
      BY <2>1, <2>3 DEF Fresh, PhaseOver, Idle
    <3>2. \A path \in Paths : Visible(path) # 0 <=> path = <<>> \/ path \in live
      BY <2>1, <3>1, FreshFacts DEF Fresh
    <3>3. \A path \in Paths : remote[path] # 0 => Visible(path) # 0
      BY <2>1, <3>1 DEF MirrorInv, ExtraInv, NoTasks
    <3>4. /\ \A dir \in Wanted : remote[dir] # 0
          /\ \A file \in LiveFiles : Settled(file)
      BY <2>1, <3>1 DEF MirrorInv, ExtraInv
    <3>5. ASSUME NEW path \in Paths PROVE Settled(path)
      <4>1. CASE path \in LiveFiles
        BY <3>4, <4>1
      <4>2. CASE path \in Wanted
        <5>1. path \in Dirs /\ <<>> \in Dirs
          BY <4>2, PathsAssumption DEF Wanted
        <5>2. /\ local[path] \in {0, 1} /\ remote[path] \in {0, 1}
              /\ Visible(path) # 0 /\ remote[path] # 0
          BY <3>2, <3>4, <4>2, <5>1 DEF BaseInv, WorkInv, PlainDirectories, Wanted
        <5> QED
          BY <5>2 DEF Settled, Visible
      <4>3. CASE path \notin LiveFiles /\ path \notin Wanted
        <5>1. path # <<>> /\ path \notin live
          BY <4>3 DEF LiveFiles, Wanted, Paths
        <5> QED
          BY <3>2, <3>3, <5>1 DEF Settled
      <4> QED
        BY <4>1, <4>2, <4>3
    <3>6. \A path \in Paths : Settled(path)'
      BY <2>1, <3>5, SettledStays
    <3>7. ExactInv'
      BY <3>6 DEF ExactInv
    <3>8. /\ ListedInv' /\ PlannedInv' /\ CreateInv' /\ SendInv' /\ ExtraInv'
          /\ FreshSuccessMirrors'
      BY <2>1 DEF ListedInv, PlannedInv, CreateInv, SendInv, ExtraInv, FreshSuccessMirrors
    <3> QED
      BY <3>7, <3>8 DEF MirrorInv
  <2> QED
    BY <2>2, <2>3
<1>2. CASE FinishRun
  <2>1. /\ pc = "finish" /\ pc' = "idle"
        /\ UNCHANGED <<local, remote, record, touched, fromCache>>
        /\ outcome' = "succeeded" => ~cancelled /\ ~failed
    BY <1>2 DEF FinishRun, EndRun, RunStatus
  <2>2. CASE outcome' # "succeeded" \/ touched' # {} \/ fromCache'
    <3>1. FreshSuccessMirrors'
      BY <2>2 DEF FreshSuccessMirrors
    <3> QED
      BY <2>1, <3>1 DEF MirrorInv, ListedInv, PlannedInv, CreateInv, SendInv, ExtraInv, ExactInv
  <2>3. CASE outcome' = "succeeded" /\ touched' = {} /\ ~fromCache'
    <3>1. Fresh
      BY <2>1, <2>3 DEF Fresh
    <3>2. \A path \in Paths : Settled(path)
      BY <2>1, <3>1 DEF MirrorInv, ExactInv
    <3>3. \A path \in Paths : Settled(path)'
      BY <2>1, <3>2, SettledStays
    <3>4. FreshSuccessMirrors'
      BY <3>3 DEF FreshSuccessMirrors, Settled
    <3> QED
      BY <2>1, <3>4 DEF MirrorInv, ListedInv, PlannedInv, CreateInv, SendInv, ExtraInv, ExactInv
  <2> QED
    BY <2>2, <2>3
<1> QED
  BY <1>1, <1>2

\* The steps of the phases.
LEMMA PhaseMirror ==
    ASSUME \A path \in Paths \ {<<>>} : DeleteCandidate(path),
           BaseInv, MirrorInv, PhaseSteps
    PROVE  MirrorInv'
<1>1. CASE StartCreates \/ StartUploads
  BY <1>1, StartMirror
<1>2. CASE StartDeletes
  BY <1>2, DeletesMirror
<1>3. CASE EndDeletes \/ FinishRun
  BY <1>3, EndMirror
<1>4. CASE \E batch \in SUBSET Paths : StartBatch(batch)
  BY <1>4, BatchMirror
<1>5. CASE \E path \in Paths : StartDelete(path) \/ CheckDelete(path)
  BY <1>5, DeleteMirror
<1> QED
  BY <1>1, <1>2, <1>3, <1>4, <1>5 DEF PhaseSteps

\* The steps of the requests.
LEMMA TaskMirror ==
    ASSUME BaseInv, MirrorInv, TaskSteps
    PROVE  MirrorInv'
<1> USE DEF trees, database, plan, summary, budgets
<1>1. PICK path \in Paths :
        \/ TaskSucceeds(path) \/ TaskRejected(path) \/ TaskCancelled(path)
        \/ JoinCreate(path) \/ JoinUpload(path) \/ JoinDelete(path)
  BY DEF TaskSteps
<1>2. CASE TaskSucceeds(path)
  BY <1>2, AnswerMirror DEF TaskSucceeds
<1>3. CASE TaskRejected(path)
  <2> DEFINE answer == IF path # <<>> /\ remote[Parent(path)] = 0 THEN "fail" ELSE "skip"
  <2>1. /\ task[path] = "queued" /\ Answer(path, answer) /\ ~Acceptable(path)
        /\ UNCHANGED <<local, remote, record, live, reused, inventory, touched, failed,
                       cancelled, fromCache, pc, todo>>
    BY <1>3 DEF TaskRejected
  <2>2. answer = "skip" => path \in Files /\ pc # "delete"
    BY <2>1 DEF Acceptable
  <2>3. answer \in {"fail", "skip"}
    OBVIOUS
  <2> HIDE DEF answer
  <2> QED
    BY <2>1, <2>2, <2>3, AnswerMirror
<1>4. CASE TaskCancelled(path)
  BY <1>4, MirrorVacuous DEF TaskCancelled, Fresh
<1>5. CASE JoinCreate(path) \/ JoinUpload(path)
  BY <1>5, JoinsMirror
<1>6. CASE JoinDelete(path)
  BY <1>6, DeleteMirror
<1> QED
  BY <1>1, <1>2, <1>3, <1>4, <1>5, <1>6

\* A fault is noted as a failure, touches what it changes, or ends the run without success.
LEMMA FaultMirror ==
    ASSUME BaseInv, MirrorInv, FaultSteps
    PROVE  MirrorInv'
<1> USE DEF trees, database, plan, summary, budgets
<1>1. \A path \in Paths : Covers(path, path)
  BY PathsAssumption DEF Covers
<1>2. <<>> \in Paths
  BY PathsAssumption DEF Paths
<1>3. ASSUME touched' # {} PROVE MirrorInv'
  BY <1>3, MirrorVacuous DEF Fresh
<1>4. CASE QuotaExceeded
  BY <1>4, MirrorVacuous DEF QuotaExceeded, FailRoot, Fresh
<1>5. CASE Cancel
  BY <1>5, MirrorVacuous DEF Cancel, Fresh
<1>6. CASE Crash \/ DatabaseFails
  BY <1>6, MirrorVacuous DEF Crash, DatabaseFails, EndRun
<1>7. CASE Unmount \/ Mount
  BY <1>2, <1>3, <1>7 DEF Unmount, Mount
<1>8. ASSUME NEW kind \in FaultKinds, InventoryFails(kind) PROVE MirrorInv'
  BY <1>8, MirrorVacuous DEF InventoryFails, FailRoot, PartialFailRoot, Fresh
<1>9. ASSUME NEW dir \in Dirs, ListingNotFound(dir) PROVE MirrorInv'
  BY <1>1, <1>3, <1>9 DEF ListingNotFound, Paths
<1>10. ASSUME NEW path \in Paths, NEW missed \in SUBSET Paths, ListingShifted(path, missed)
       PROVE  MirrorInv'
  BY <1>1, <1>3, <1>10 DEF ListingShifted
<1>11. ASSUME NEW path \in Paths, RemoveRemote(path) PROVE MirrorInv'
  BY <1>1, <1>3, <1>11 DEF RemoveRemote
<1>12. ASSUME NEW path \in Paths, TaskFails(path) PROVE MirrorInv'
  <2>1. /\ task[path] = "queued"
        /\ UNCHANGED <<local, record, live, reused, inventory, touched, failed, cancelled,
                       fromCache, pc, todo>>
    BY <1>12 DEF TaskFails
  <2>2. pc = "upload" => path \in Files
    BY <2>1 DEF BaseInv, WorkInv, WorkIsPlanned
  <2>3. PICK answer \in {"fail", "stop", "skip"} :
            Answer(path, answer) /\ (answer = "skip" => pc = "upload")
    BY <1>12 DEF TaskFails
  <2>4. remote' = remote \/ (remote' = Applied({path}) /\ Acceptable(path))
    BY <1>12 DEF TaskFails
  <2> QED
    BY <2>1, <2>2, <2>3, <2>4, AnswerMirror
<1>13. ASSUME NEW path \in Paths, NEW kind \in FaultKinds, JoinInterrupted(path, kind)
       PROVE  MirrorInv'
  BY <1>13, MirrorVacuous DEF JoinInterrupted, EndRun
<1> QED
  BY <1>4, <1>5, <1>6, <1>7, <1>8, <1>9, <1>10, <1>11, <1>12, <1>13 DEF FaultSteps

\* An edit touches what it changes.
LEMMA EditMirror ==
    ASSUME EditSteps
    PROVE  MirrorInv'
<1>1. \A path \in Paths : Covers(path, path)
  BY PathsAssumption DEF Covers
<1>2. ASSUME NEW changed, Edit(changed), changed # {} PROVE MirrorInv'
  BY <1>2, MirrorVacuous DEF Edit, Fresh
<1>3. ASSUME NEW path \in Paths, RemoveLocal(path) PROVE MirrorInv'
  <2>1. path \in { p \in Paths : Covers(path, p) }
    BY <1>1
  <2> QED
    BY <1>2, <1>3, <2>1 DEF RemoveLocal
<1> QED
  BY <1>2, <1>3 DEF EditSteps, WriteLocal, RestoreLocal

\* Every step preserves the invariant of the mirror.
LEMMA NextMirror ==
    ASSUME \A path \in Paths \ {<<>>} : DeleteCandidate(path), BaseInv, MirrorInv, [Next]_vars
    PROVE  MirrorInv'
<1>1. CASE UNCHANGED vars
  <2> USE <1>1 DEF vars, trees, database, plan, summary, budgets
  <2>1. UNCHANGED <<LiveFiles, Uploads, Wanted, Fresh>>
    BY DEF LiveFiles, Uploads, Wanted, Fresh
  <2>2. \A path : Settled(path)' = Settled(path) /\ Visible(path)' = Visible(path)
    BY DEF Settled, SkippedAsIs, Visible
  <2>3. ListedInv' /\ PlannedInv' /\ CreateInv' /\ SendInv' /\ ExtraInv' /\ ExactInv'
    BY <2>1, <2>2
    DEF MirrorInv, ListedInv, PlannedInv, CreateInv, SendInv, ExtraInv, ExactInv
  <2>4. FreshSuccessMirrors'
    BY <2>2 DEF MirrorInv, FreshSuccessMirrors, SkippedAsIs
  <2> QED
    BY <2>3, <2>4 DEF MirrorInv
<1>2. CASE Next
  BY <1>2, ScanMirror, PhaseMirror, TaskMirror, FaultMirror, EditMirror DEF Next
<1> QED
  BY <1>1, <1>2

\* What the mirror rests on holds at the start.
LEMMA InitBase == Init => BaseInv /\ MirrorInv
<1> SUFFICES ASSUME Init PROVE BaseInv /\ MirrorInv
  OBVIOUS
<1>1. UploadInv /\ GoneInv /\ WorkInv
  BY InitUploadInv, InitGone, InitWork
<1>2. ScanHolds /\ NotPlannedYet /\ HardIsFailed
  BY DEF Init, ScanHolds, NotPlannedYet, HardIsFailed
<1>3. ClaimsNotAhead
  <2>1. PICK present \in SUBSET Paths, replaced \in SUBSET Files :
          /\ local = [path \in Paths |-> IF path \in present THEN 1 ELSE 0]
          /\ record = [file \in Files |->
                         [version |-> local[file],
                          status |-> IF file \notin present THEN "none"
                                     ELSE IF file \in replaced THEN "deleted" ELSE "synced"]]
    BY DEF Init
  <2>2. remote = local
    BY DEF Init
  <2>3. \A file \in Files : /\ record[file].version = local[file]
                            /\ local[file] \in {0, 1}
                            /\ file \notin present => local[file] = 0
                            /\ file \in present => record[file].status # "none"
    BY <2>1 DEF Paths
  <2> QED
    BY <2>2, <2>3 DEF ClaimsNotAhead
<1>4. MirrorInv
  BY DEF Init, MirrorInv, ListedInv, PlannedInv, CreateInv, SendInv, ExtraInv, ExactInv,
         FreshSuccessMirrors
<1> QED
  BY <1>1, <1>2, <1>3, <1>4 DEF BaseInv

\* And after every step.
LEMMA NextBase ==
    ASSUME "busy" \notin Faults
    PROVE  BaseInv /\ [Next]_vars => BaseInv'
<1> SUFFICES ASSUME BaseInv, [Next]_vars PROVE BaseInv'
  OBVIOUS
<1>1. UploadInv' /\ GoneInv' /\ WorkInv'
  BY NextUploadInv, NextGone, NextWork DEF BaseInv
<1>2. TypeOK
  BY DEF BaseInv, WorkInv
<1> QED
  BY <1>1, <1>2, NextClaims, NextScanHolds, NextNotPlanned, NextHard DEF BaseInv

\* A run over a fresh listing that ends as Succeeded with nothing changed under it leaves
\* the mirror exact, whatever earlier runs, crashes, lost answers and removals left behind.
\* The scan must be able to read what is there, and no name is "disk:":
\* remote_delete_candidate_relative_path leaves such paths on the disk.
THEOREM SuccessIsExact ==
    ASSUME "busy" \notin Faults, \A path \in Paths \ {<<>>} : DeleteCandidate(path)
    PROVE  Spec => []FreshSuccessMirrors
<1>1. BaseInv /\ MirrorInv /\ [Next]_vars => BaseInv' /\ MirrorInv'
  BY NextBase, NextMirror
<1>2. MirrorInv => FreshSuccessMirrors
  BY DEF MirrorInv
<1> QED
  BY <1>1, <1>2, InitBase, PTL DEF Spec


-----------------------------------------------------------------------------
(* The runs implement the mirror.                                            *)

\* A run that succeeded had its root.
RootIsThere ==
    pc = "idle" /\ outcome = "succeeded" /\ touched = {} => Visible(<<>>) # 0

\* Only the end of a run reports a success.
LEMMA SuccessIsReported ==
    ASSUME [Next]_vars, pc' = "idle", outcome' = "succeeded"
    PROVE  FinishRun \/ (pc = "idle" /\ outcome = "succeeded")
<1> USE DEF trees, database, plan, summary, budgets
<1>1. CASE UNCHANGED vars
  BY <1>1 DEF vars
<1>2. CASE StartRun \/ ScanSteps
  BY <1>2
  DEF StartRun, ScanSteps, Scan, BuildLivePlan, CollisionFails, FailRoot, UseCache,
      RemoteRootNotFound, ListRemote, PersistInventory
<1>3. CASE PhaseSteps
  BY <1>3
  DEF PhaseSteps, StartCreates, StartUploads, StartDeletes, EndDeletes, StartBatch, StartDelete,
      CheckDelete
<1>4. CASE TaskSteps
  BY <1>4
  DEF TaskSteps, TaskSucceeds, TaskRejected, TaskCancelled, JoinCreate, JoinUpload, JoinDelete,
      JoinStop
<1>5. CASE FaultSteps
  BY <1>5
  DEF FaultSteps, QuotaExceeded, Cancel, Unmount, Mount, FailRoot, Crash, DatabaseFails,
      InventoryFails, PartialFailRoot, ListingNotFound, ListingShifted, TaskFails, RemoveRemote,
      JoinInterrupted
<1>6. CASE EditSteps
  BY <1>6 DEF EditSteps, WriteLocal, RestoreLocal, RemoveLocal, Edit
<1> QED
  BY <1>1, <1>2, <1>3, <1>4, <1>5, <1>6 DEF Next

\* The root stays there until somebody touches it.
LEMMA NextRoot ==
    ASSUME BaseInv, RootIsThere, [Next]_vars
    PROVE  RootIsThere'
<1> SUFFICES ASSUME pc' = "idle", outcome' = "succeeded", touched' = {}
             PROVE  Visible(<<>>)' # 0
  BY DEF RootIsThere
<1>1. TypeOK /\ <<>> \in Paths
  BY PathsAssumption DEF BaseInv, WorkInv, Paths
<1>2. touched = {} /\ Visible(<<>>)' = Visible(<<>>)
  BY <1>1, StepVisible
<1>3. CASE FinishRun
  <2>1. pc = "finish" /\ ~failed
    BY <1>3 DEF FinishRun, RunStatus
  <2> QED
    BY <1>2, <2>1 DEF BaseInv, ScanHolds
<1>4. CASE pc = "idle" /\ outcome = "succeeded"
  BY <1>2, <1>4 DEF RootIsThere
<1> QED
  BY <1>3, <1>4, SuccessIsReported

\* What the refinement rests on.
RefineInv == BaseInv /\ MirrorInv /\ RootIsThere

\* The version a file was given up with.
GivenUp(file) == IF record[file].status = "skipped" THEN record[file].version ELSE 0

\* A migrated root is a mirror.
LEMMA InitRefines == Init => Abstract!Init
<1> SUFFICES ASSUME Init PROVE Abstract!Init
  OBVIOUS
<1>1. TypeOK
  BY InitType
<1>2. PICK present \in SUBSET Paths, replaced \in SUBSET Files :
        /\ <<>> \in present
        /\ local = [path \in Paths |-> IF path \in present THEN 1 ELSE 0]
        /\ record = [file \in Files |->
                       [version |-> local[file],
                        status |-> IF file \notin present THEN "none"
                                   ELSE IF file \in replaced THEN "deleted" ELSE "synced"]]
  BY DEF Init
<1>3. local[<<>>] = 1
  BY <1>2
<1>4. \A path \in Paths : Visible(path) = local[path] /\ Visible(path) \in Versions
  BY <1>1, <1>3, VisibleType DEF Visible
<1>5. remote = [path \in Paths |-> Visible(path)]
  <2>1. remote = local /\ local = [path \in Paths |-> local[path]]
    BY <1>1 DEF Init, TypeOK
  <2> QED
    BY <1>4, <2>1
<1>6. \A file \in Files : record[file].status # "skipped"
  BY <1>2
<1>7. touched = {} /\ outcome = "none"
  BY DEF Init
<1> QED
  BY <1>4, <1>5, <1>6, <1>7 DEF Abstract!Init, Abstract!Paths, Abstract!Versions, Paths, Versions

\* A step of the work: what goes to the disk and what is dropped from it is allowed.
LEMMA WorkRefines ==
    ASSUME RefineInv, [Next]_vars, UNCHANGED <<local, touched>>,
           pc' # "idle" \/ outcome' # "succeeded",
           \A path \in Paths :
              \/ remote'[path] = remote[path]
              \/ Visible(path) # 0 /\ remote'[path] = Visible(path)
              \/ path \in Dirs \cap (touched \cup {<<>>}) /\ remote'[path] = 1
              \/ (Visible(path) = 0 \/ path \in touched) /\ remote'[path] = 0
    PROVE  Abstract!Work
<1>1. \A path \in Paths : Visible(path)' = Visible(path)
  BY DEF Visible
<1>2. ASSUME NEW file \in Files
      PROVE  \/ GivenUp(file)' = GivenUp(file) \/ GivenUp(file)' = 0
             \/ GivenUp(file)' = Visible(file) \/ file \in touched
  <2>1. WorkInv /\ file \in Paths
    BY DEF RefineInv, BaseInv, Paths
  <2>2. CASE pc = "upload" /\ task[file] = "skip" /\
             record'[file] = [version |-> scanned[file], status |-> "skipped"]
    <3>1. file \in LiveFiles
      BY <2>1, <2>2 DEF WorkInv, WorkIsPlanned, LiveFiles
    <3>2. file \in touched \/ scanned[file] = Visible(file)
      BY <2>2, <3>1 DEF RefineInv, BaseInv, ScanHolds
    <3> QED
      BY <2>2, <3>2 DEF GivenUp
  <2>3. CASE record'[file] = record[file]
    BY <2>3 DEF GivenUp
  <2>4. CASE record'[file] \in [version : {scanned[file]}, status : {"synced", "changed"}]
    BY <2>4 DEF GivenUp
  <2>5. CASE record'[file] = [version |-> record[file].version, status |-> "deleted"]
    BY <2>5 DEF GivenUp
  <2> QED
    BY <2>1, <2>2, <2>3, <2>4, <2>5, StepRecord
<1> QED
  BY <1>1, <1>2
  DEF Abstract!Work, Abstract!Put, Abstract!Drop, Abstract!Settle, Abstract!Paths, Paths, GivenUp


\* A request of any phase does to a path what the mirror allows.
LEMMA AppliedRefines ==
    ASSUME RefineInv, NEW done \in SUBSET Paths,
           \A path \in done : task[path] = "queued" /\ Acceptable(path),
           remote' = Applied(done), NEW path \in Paths
    PROVE  \/ remote'[path] = remote[path]
           \/ Visible(path) # 0 /\ remote'[path] = Visible(path)
           \/ path \in Dirs \cap (touched \cup {<<>>}) /\ remote'[path] = 1
           \/ (Visible(path) = 0 \/ path \in touched) /\ remote'[path] = 0
<1>1. CASE pc = "delete"
  <2>1. CASE ~CoveredBySome(done, path)
    BY <1>1, <2>1 DEF Applied
  <2>2. CASE CoveredBySome(done, path)
    <3>1. PICK target \in done : Covers(target, path)
      BY <2>2 DEF CoveredBySome
    <3>2. Gone(path)
      BY <1>1, <3>1 DEF RefineInv, BaseInv, GoneInv, TargetsGone, Target
    <3> QED
      BY <1>1, <2>2, <3>2 DEF Applied, Gone
  <2> QED
    BY <2>1, <2>2
<1>2. CASE pc # "delete" /\ path \in done
  <2>1. pc \in {"create", "upload"}
    BY <1>2 DEF RefineInv, BaseInv, WorkInv, TasksInTime, NoTasks
  <2>2. path \in Files => Visible(path) # 0 /\ remote'[path] = Visible(path)
    BY <1>2 DEF Acceptable, Applied
  <2>3. ASSUME path \notin Files
        PROVE  \/ Visible(path) # 0 /\ remote'[path] = Visible(path)
               \/ path \in Dirs \cap (touched \cup {<<>>}) /\ remote'[path] = 1
    <3>1. path \in Dirs /\ remote'[path] = 1
      BY <1>2, <2>3 DEF Applied, Paths
    <3>2. path = <<>> \/ path \in live
      BY <1>2, <2>1 DEF RefineInv, BaseInv, WorkInv, WorkIsPlanned
    <3>3. path = <<>> \/ path \in touched \/ Visible(path) # 0
      BY <2>1, <3>2 DEF RefineInv, BaseInv, ScanHolds
    <3>4. Visible(path) # 0 => Visible(path) = 1
      BY <3>1 DEF RefineInv, BaseInv, WorkInv, PlainDirectories, Visible
    <3> QED
      BY <3>1, <3>3, <3>4
  <2> QED
    BY <2>2, <2>3
<1>3. CASE pc # "delete" /\ path \notin done
  BY <1>3 DEF Applied
<1> QED
  BY <1>1, <1>2, <1>3

\* Requests in flight when their run ends are requests like the others.
LEMMA DroppedRefines ==
    ASSUME RefineInv, [Next]_vars, UNCHANGED <<local, touched>>,
           pc' # "idle" \/ outcome' # "succeeded", NEW except, Dropped(except)
    PROVE  Abstract!Work
<1>1. PICK done \in SUBSET { path \in Paths \ except : task[path] = "queued" /\ Acceptable(path) } :
          remote' = Applied(done)
  BY DEF Dropped
<1>2. /\ done \in SUBSET Paths
      /\ \A path \in done : task[path] = "queued" /\ Acceptable(path)
  BY <1>1
<1> QED
  BY <1>1, <1>2, AppliedRefines, WorkRefines

\* A step that changes nothing of the trees reports at most what is so.
LEMMA QuietRefines ==
    ASSUME RefineInv', UNCHANGED <<local, remote, record, touched>>
    PROVE  Abstract!Report
<1>1. \A path \in Paths : Visible(path)' = Visible(path)
  BY DEF Visible
<1>2. ASSUME pc' = "idle", outcome' = "succeeded", ~fromCache', touched' = {}, NEW path \in Paths
      PROVE  remote[path] = Visible(path) \/ (path \in Files /\ GivenUp(path) = Visible(path))
  <2>1. remote'[path] = Visible(path)' \/ SkippedAsIs(path)'
    BY <1>2 DEF RefineInv, MirrorInv, FreshSuccessMirrors
  <2>2. Visible(<<>>)' # 0
    BY <1>2 DEF RefineInv, RootIsThere
  <2>3. local[<<>>] # 0
    BY <2>2 DEF Visible
  <2>4. SkippedAsIs(path)' => path \in Files /\ GivenUp(path) = Visible(path)
    BY <2>3 DEF SkippedAsIs, GivenUp, Visible
  <2> QED
    BY <1>1, <2>1, <2>4
<1> QED
  BY <1>1, <1>2 DEF Abstract!Report, Abstract!Exact, Abstract!Paths, Paths, GivenUp

\* What others do changes what they touch.
LEMMA ChangeRefines ==
    ASSUME RefineInv, [Next]_vars, UNCHANGED record, touched \subseteq touched', touched' # {},
           touched' \subseteq Paths,
           \A path \in Paths \ touched' : remote'[path] = remote[path],
           \A path \in touched' : remote'[path] \in {remote[path], 0}
    PROVE  Abstract!Change
<1>1. \A path \in Paths \ touched' : Visible(path)' = Visible(path)
  BY StepVisible DEF RefineInv, BaseInv, WorkInv
<1>2. touched' \in SUBSET (Dirs \cup Files)
  BY DEF Paths
<1> QED
  BY <1>1, <1>2 DEF Abstract!Change, Abstract!Paths, Paths

\* Somebody who removes a path touches what is below it.
LEMMA RemovalRefines ==
    ASSUME RefineInv, TypeOK', [Next]_vars, UNCHANGED record, NEW path \in Paths,
           remote' = Without(remote, path),
           touched' = touched \cup { other \in Paths : Covers(path, other) }
    PROVE  Abstract!Change
<1>1. Covers(path, path)
  BY PathsAssumption DEF Covers
<1>2. touched \subseteq touched' /\ touched' # {} /\ touched' \subseteq Paths
  BY <1>1 DEF TypeOK
<1>3. \A other \in Paths : Covers(path, other) => other \in touched'
  OBVIOUS
<1>4. \A other \in Paths : remote'[other] = IF Covers(path, other) THEN 0 ELSE remote[other]
  BY DEF Without
<1> QED
  BY <1>2, <1>3, <1>4, ChangeRefines


\* The steps of a scan and the steps between operations.
LEMMA EngineRefines ==
    ASSUME RefineInv, RefineInv', StartRun \/ ScanSteps \/ PhaseSteps
    PROVE  Abstract!Next
<1> USE DEF trees, database, plan, summary, budgets
<1>1. CASE UNCHANGED <<local, remote, record, touched>>
  BY <1>1, QuietRefines DEF Abstract!Next
<1>2. ASSUME NEW unreadable, NEW busy, Scan(unreadable, busy) PROVE Abstract!Next
  <2>1. UNCHANGED <<local, remote, record>> /\ touched' = {} /\ pc' = "live"
    BY <1>2 DEF Scan
  <2>2. \A path \in Paths : Visible(path)' = Visible(path)
    BY <2>1 DEF Visible
  <2>3. Abstract!Snapshot
    BY <2>1, <2>2 DEF Abstract!Snapshot
  <2> QED
    BY <2>3 DEF Abstract!Next
<1>3. CASE StartRun \/ ScanSteps
  BY <1>1, <1>2, <1>3
  DEF StartRun, ScanSteps, BuildLivePlan, CollisionFails, UseCache, RemoteRootNotFound,
      ListRemote, PersistInventory
<1>4. CASE PhaseSteps
  BY <1>1, <1>4
  DEF PhaseSteps, StartCreates, StartUploads, StartDeletes, EndDeletes, FinishRun, StartBatch,
      StartDelete, CheckDelete
<1> QED
  BY <1>3, <1>4

\* The steps of the requests.
LEMMA TaskRefines ==
    ASSUME RefineInv, [Next]_vars, TaskSteps
    PROVE  Abstract!Next
<1> USE DEF trees, database, plan, summary, budgets
<1>1. PICK path \in Paths :
        \/ TaskSucceeds(path) \/ TaskRejected(path) \/ TaskCancelled(path)
        \/ JoinCreate(path) \/ JoinUpload(path) \/ JoinDelete(path)
  BY DEF TaskSteps
<1>2. UNCHANGED <<local, touched>>
  BY <1>1
  DEF TaskSucceeds, TaskRejected, TaskCancelled, JoinCreate, JoinUpload, JoinDelete, JoinStop
<1>3. pc' # "idle"
  <2>1. task[path] # "none"
    BY <1>1 DEF TaskSucceeds, TaskRejected, TaskCancelled, JoinCreate, JoinUpload, JoinDelete
  <2>2. pc # "idle"
    BY <2>1 DEF RefineInv, BaseInv, WorkInv, TasksInTime, NoTasks
  <2> QED
    BY <1>1, <2>2
    DEF TaskSucceeds, TaskRejected, TaskCancelled, JoinCreate, JoinUpload, JoinDelete, JoinStop
<1>4. CASE remote' = remote
  BY <1>2, <1>3, <1>4, WorkRefines DEF Abstract!Next
<1>5. CASE TaskSucceeds(path)
  <2>1. remote' = Applied({path}) /\ task[path] = "queued" /\ Acceptable(path)
    BY <1>5 DEF TaskSucceeds
  <2>2. {path} \in SUBSET Paths
    OBVIOUS
  <2> QED
    BY <1>2, <1>3, <2>1, <2>2, AppliedRefines, WorkRefines DEF Abstract!Next
<1>6. CASE JoinStop(path)
  BY <1>2, <1>3, <1>6, DroppedRefines DEF JoinStop, Abstract!Next
<1> QED
  BY <1>1, <1>4, <1>5, <1>6
  DEF TaskRejected, TaskCancelled, JoinCreate, JoinUpload, JoinDelete

\* The faults: they fail the work, drop it, or change what they touch.
LEMMA FaultRefines ==
    ASSUME RefineInv, RefineInv', [Next]_vars, FaultSteps
    PROVE  Abstract!Next
<1> USE DEF trees, database, plan, summary, budgets
<1>1. CASE UNCHANGED <<local, remote, record, touched>>
  BY <1>1, QuietRefines DEF Abstract!Next
<1>2. TypeOK' /\ <<>> \in Paths
  BY PathsAssumption DEF RefineInv, BaseInv, WorkInv, Paths
<1>3. CASE QuotaExceeded \/ Cancel
  BY <1>1, <1>3 DEF QuotaExceeded, Cancel
<1>4. CASE Crash \/ DatabaseFails
  BY <1>4, DroppedRefines DEF Crash, DatabaseFails, Abstract!Next
<1>5. CASE Unmount \/ Mount
  <2>1. touched' = Paths /\ UNCHANGED <<remote, record>> /\ touched \subseteq Paths
    BY <1>5 DEF Unmount, Mount, RefineInv, BaseInv, WorkInv, TypeOK
  <2> QED
    BY <1>2, <2>1, ChangeRefines DEF Abstract!Next
<1>6. ASSUME NEW kind, InventoryFails(kind) PROVE Abstract!Next
  BY <1>1, <1>6 DEF InventoryFails
<1>7. ASSUME NEW dir \in Dirs, ListingNotFound(dir) PROVE Abstract!Next
  <2>1. /\ remote' = Without(remote, dir) /\ UNCHANGED record /\ dir \in Paths
        /\ touched' = touched \cup { path \in Paths : Covers(dir, path) }
    BY <1>7 DEF ListingNotFound, Paths
  <2> QED
    BY <1>2, <2>1, RemovalRefines DEF Abstract!Next
<1>8. ASSUME NEW path \in Paths, NEW missed, ListingShifted(path, missed) PROVE Abstract!Next
  <2>1. /\ remote' = Without(remote, path) /\ UNCHANGED record
        /\ touched' = touched \cup { other \in Paths : Covers(path, other) }
    BY <1>8 DEF ListingShifted
  <2> QED
    BY <1>2, <2>1, RemovalRefines DEF Abstract!Next
<1>9. ASSUME NEW path \in Paths, RemoveRemote(path) PROVE Abstract!Next
  <2>1. /\ remote' = Without(remote, path) /\ UNCHANGED record
        /\ touched' = touched \cup { other \in Paths : Covers(path, other) }
    BY <1>9 DEF RemoveRemote
  <2> QED
    BY <1>2, <2>1, RemovalRefines DEF Abstract!Next
<1>10. ASSUME NEW path \in Paths, TaskFails(path) PROVE Abstract!Next
  <2>1. task[path] = "queued" /\ UNCHANGED <<local, touched, pc>>
    BY <1>10 DEF TaskFails
  <2>2. pc' # "idle"
    BY <2>1 DEF RefineInv, BaseInv, WorkInv, TasksInTime, NoTasks
  <2>3. remote' = remote \/ (remote' = Applied({path}) /\ Acceptable(path))
    BY <1>10 DEF TaskFails
  <2>4. {path} \in SUBSET Paths
    OBVIOUS
  <2>5. CASE remote' = remote
    BY <2>1, <2>2, <2>5, WorkRefines DEF Abstract!Next
  <2>6. CASE remote' = Applied({path}) /\ Acceptable(path)
    BY <2>1, <2>2, <2>4, <2>6, AppliedRefines, WorkRefines DEF Abstract!Next
  <2> QED
    BY <2>3, <2>5, <2>6
<1>11. ASSUME NEW path \in Paths, NEW kind, JoinInterrupted(path, kind) PROVE Abstract!Next
  BY <1>11, DroppedRefines DEF JoinInterrupted, Abstract!Next
<1> QED
  BY <1>3, <1>4, <1>5, <1>6, <1>7, <1>8, <1>9, <1>10, <1>11 DEF FaultSteps

\* The edits of the local tree.
LEMMA EditRefines ==
    ASSUME RefineInv, RefineInv', [Next]_vars, EditSteps
    PROVE  Abstract!Next
<1> USE DEF trees, database, plan, summary, budgets
<1>1. TypeOK'
  BY DEF RefineInv, BaseInv, WorkInv
<1>2. ASSUME NEW changed, Edit(changed), changed # {} PROVE Abstract!Next
  <2>1. touched' = touched \cup changed /\ UNCHANGED <<remote, record>>
    BY <1>2 DEF Edit
  <2>2. touched' \subseteq Paths
    BY <1>1 DEF TypeOK
  <2> QED
    BY <1>2, <2>1, <2>2, ChangeRefines DEF Abstract!Next
<1>3. ASSUME NEW path \in Paths, RemoveLocal(path) PROVE Abstract!Next
  <2>1. path \in { p \in Paths : Covers(path, p) }
    BY PathsAssumption DEF Covers
  <2> QED
    BY <1>2, <1>3, <2>1 DEF RemoveLocal
<1> QED
  BY <1>2, <1>3 DEF EditSteps, WriteLocal, RestoreLocal

\* Every step of the root is a step of the mirror or invisible there.
LEMMA StepRefines ==
    ASSUME RefineInv, RefineInv', [Next]_vars
    PROVE  [Abstract!Next]_(Abstract!mirrorVars)
<1>1. CASE UNCHANGED vars
  <2>1. UNCHANGED <<local, remote, record, touched, pc, outcome, fromCache>>
    BY <1>1 DEF vars, trees, database, plan, summary, budgets
  <2>2. \A path : Visible(path)' = Visible(path)
    BY <2>1 DEF Visible
  <2> QED
    BY <2>1, <2>2 DEF Abstract!mirrorVars
<1>2. CASE Next
  BY <1>2, EngineRefines, TaskRefines, FaultRefines, EditRefines DEF Next
<1> QED
  BY <1>1, <1>2

\* The runs of a root implement the mirror: whatever the phases, batches, crashes, lost
\* answers and stale plans, only current content of the source goes to the disk, only what
\* the source lost is dropped, and only an exact mirror is reported.  The scan must be able
\* to read what is there, and no name is "disk:".
THEOREM RunsRefineMirror ==
    ASSUME "busy" \notin Faults, \A path \in Paths \ {<<>>} : DeleteCandidate(path)
    PROVE  Spec => RefinesMirror
<1>1. Init => RefineInv
  <2>1. Init => RootIsThere
    BY DEF Init, RootIsThere
  <2> QED
    BY <2>1, InitBase DEF RefineInv
<1>2. RefineInv /\ [Next]_vars => RefineInv'
  BY NextBase, NextMirror, NextRoot DEF RefineInv
<1>3. RefineInv /\ RefineInv' /\ [Next]_vars => [Abstract!Next]_(Abstract!mirrorVars)
  BY StepRefines
<1> QED
  BY <1>1, <1>2, <1>3, InitRefines, PTL DEF Spec, RefinesMirror, Abstract!Spec


=============================================================================
