------------------------------ MODULE SyncRoot -------------------------------
(***************************************************************************)
(* One root of a synchronisation, run after run: SyncEngine::execute_root   *)
(* with the scan, the remote inventory and its cache, the create, upload    *)
(* and delete phases, and what each step leaves in the state database.      *)
(*                                                                         *)
(* The local tree changes at any moment.  A request to the disk has its     *)
(* effect there in one step and its answer is processed in a later one, so  *)
(* that a crash, an error or an edit can fall between them.                 *)
(*                                                                         *)
(* The content of a file is a version number; size and mtime, which the     *)
(* scanner compares, tell versions apart.  A write makes a new version, a    *)
(* deleted file may come back (from a recycle bin) as the version it was.   *)
(* A path is a file or a directory for good.  Paths are those of module      *)
(* MirrorPlan: << >> is the root itself.                                    *)
(***************************************************************************)
EXTENDS MirrorPlan, FiniteSets

CONSTANTS
    Dirs,         \* directory paths, the root << >> included
    Files,        \* file paths
    Lower,        \* the lower-cased remote path of each path
    LikeMatches,  \* <<path, row>>: `path/%` matches a row that is not below path
    Concurrency,  \* upload_concurrency and create_directory_concurrency
    Faults,       \* which faults may happen
    MaxVersion,   \* bound on the versions of a file
    MaxEdits,     \* bound on the changes of the local tree
    MaxFaults     \* bound on the faults

Paths == Dirs \cup Files

FaultKinds ==
    { "crash",      \* the process dies
      "database",   \* a statement of the state database fails
      "transient",  \* a request fails, or its answer is lost
      "conflict",   \* an upload ends in persistent_uploader_conflict
      "stop",       \* an error of is_stop_error
      "quota",      \* the planned bytes exceed the free space
      "cancel",     \* the run is cancelled
      "busy",       \* a file or a directory cannot be read during the scan
      "unmount",    \* the local root disappears and comes back
      "external" }  \* somebody removes something from the disk

ASSUME PathsAssumption ==
    /\ <<>> \in Dirs
    /\ Dirs \cap Files = {}
    /\ \A path \in Paths : path \in Seq(STRING)
    /\ \A path \in Paths : Ancestors(path) \subseteq Dirs
    /\ LikeMatches \subseteq Paths \X Paths
ASSUME BoundsAssumption ==
    /\ Concurrency \in Nat \ {0} /\ MaxVersion \in Nat \ {0}
    /\ MaxEdits \in Nat /\ MaxFaults \in Nat
    /\ Faults \subseteq FaultKinds

VARIABLES
    \* the two trees
    local,      \* version of each path on the local disk, 0 if it is not there
    last,       \* the last version each file had
    remote,     \* version of each path on Yandex Disk
    \* the state database
    record,     \* file_state: size and mtime as a version, and the status
    cache,      \* remote_resources
    complete,   \* root_remote_inventory_status.is_complete
    \* the run
    pc,         \* the phase
    live,       \* LiveScanPlan.files and .directories
    scanned,    \* the version of each file the scan saw
    reused,     \* files whose fingerprint was reused_from_state
    tombs,      \* LiveScanPlan.deleted_subtrees
    inventory,  \* RemoteInventorySnapshot.resources
    fromCache,  \* RemoteInventorySnapshot.from_cache
    todo,       \* operations of the current phase not yet started
    task,       \* the operations started: their answer, if it has arrived
    failed,     \* root_summary.failed_files > 0
    hard,       \* root_summary.status = ROOT_STATUS_FAILED
    cancelled,  \* CancellationToken::is_cancelled
    outcome,    \* SyncRunStatus of the last run
    \* history and budgets
    touched,    \* paths that somebody else changed since the scan
    edits, faults

trees == <<local, last, remote>>
database == <<record, cache, complete>>
plan == <<live, scanned, reused, inventory, fromCache>>
summary == <<failed, hard, cancelled, outcome>>
budgets == <<touched, edits, faults>>
vars == <<trees, database, pc, plan, tombs, todo, task, summary, budgets>>

PCs == { "idle", "scan", "live", "inventory", "persist", "plan",
         "create", "upload", "delete", "finish" }
TaskStates == { "none", "check", "queued", "ok", "skip", "fail", "stop" }
RecordStatuses == { "none", "synced", "changed", "skipped", "deleted" }
Outcomes == { "none", "succeeded", "partial", "failed", "cancelled" }
Versions == 0..MaxVersion

TypeOK ==
    /\ local \in [Paths -> Versions]
    /\ last \in [Files -> Versions]
    /\ remote \in [Paths -> Versions]
    /\ record \in [Files -> [version : Versions, status : RecordStatuses]]
    /\ cache \subseteq Paths
    /\ complete \in BOOLEAN
    /\ pc \in PCs
    /\ live \subseteq Paths
    /\ scanned \in [Files -> Versions]
    /\ reused \subseteq Files
    /\ tombs \subseteq Dirs
    /\ inventory \subseteq Paths
    /\ fromCache \in BOOLEAN
    /\ todo \subseteq Paths
    /\ task \in [Paths -> TaskStates]
    /\ failed \in BOOLEAN /\ hard \in BOOLEAN /\ cancelled \in BOOLEAN
    /\ outcome \in Outcomes
    /\ touched \subseteq Paths
    /\ edits \in 0..MaxEdits
    /\ faults \in 0..MaxFaults

NoTasks == [path \in Paths |-> "none"]
Idle == task = NoTasks

\* A path as a process sees it: nothing is there while the root is away.
Visible(path) == IF local[<<>>] = 0 THEN 0 ELSE local[path]
LocalDirs == { dir \in Dirs : Visible(dir) # 0 }
OnDisk == { path \in Paths : remote[path] # 0 }
Parent(path) == SubSeq(path, 1, Len(path) - 1)

\* A tree without a path and what is below it.
Without(tree, path) == [p \in Paths |-> IF Covers(path, p) THEN 0 ELSE tree[p]]

Fault(kind) == kind \in Faults /\ faults < MaxFaults /\ faults' = faults + 1

\* Two paths of the set have one lower-cased remote path.
Collide(paths) == \E one, other \in paths : one # other /\ Lower[one] = Lower[other]

\* The root as a migration that succeeded left it: mirrored, recorded (as deleted if a
\* legacy copy of the path was deleted after its adoption), and its inventory in the
\* cache, complete or not, without rows for some of the directories it made or moved.
Init ==
    /\ \E present \in { s \in SUBSET Paths : <<>> \in s /\ AncestorClosed(s) /\ ~Collide(s) } :
          /\ local = [path \in Paths |-> IF path \in present THEN 1 ELSE 0]
          /\ \E rowless \in SUBSET (present \cap Dirs) : cache = present \ rowless
          /\ \E replaced \in SUBSET (present \cap Files) :
                record = [file \in Files |->
                            [version |-> local[file],
                             status |-> IF file \notin present THEN "none"
                                        ELSE IF file \in replaced THEN "deleted" ELSE "synced"]]
    /\ last = [file \in Files |-> local[file]]
    /\ remote = local
    /\ complete \in BOOLEAN
    /\ pc = "idle"
    /\ live = {} /\ scanned = [file \in Files |-> 0] /\ reused = {}
    /\ tombs = {} /\ inventory = {} /\ fromCache = FALSE
    /\ todo = {} /\ task = NoTasks
    /\ failed = FALSE /\ hard = FALSE /\ cancelled = FALSE /\ outcome = "none"
    /\ touched = {} /\ edits = 0 /\ faults = 0

-----------------------------------------------------------------------------
(* Scan and inventory.                                                       *)

\* execute_run reaches the root.  A root that is not a directory is skipped by
\* record_missing_root, which makes the run PartialFailed.
StartRun ==
    /\ pc = "idle"
    /\ IF Visible(<<>>) = 0
       THEN pc' = "idle" /\ outcome' = "partial"
       ELSE pc' = "scan" /\ outcome' = "none"
    /\ UNCHANGED <<trees, database, plan, tombs, todo, task, failed, hard, cancelled, budgets>>

\* The run is over: what it kept in memory is gone.
EndRun ==
    /\ pc' = "idle"
    /\ live' = {} /\ scanned' = [file \in Files |-> 0] /\ reused' = {}
    /\ tombs' = {} /\ inventory' = {} /\ todo' = {}
    /\ failed' = FALSE /\ hard' = FALSE /\ cancelled' = FALSE
    /\ UNCHANGED fromCache

\* file_entry reuses the fingerprint of a state record with the same size, mtime
\* and remote path, whatever the status of that record.
Reusable(file) == record[file].version = local[file]

\* A walk: what is in a directory that cannot be read is not reported, and neither
\* is a file that cannot be opened; a reused file is not opened.
Walked(unreadable) ==
    { path \in Paths \ {<<>>} :
        Visible(path) # 0 /\ ~\E dir \in unreadable : Below(path, dir) }

\* scan_root_with_repository and record_scan_findings.  An unreadable directory and
\* a root that went away are failed items; a busy file is a skipped item, or a
\* failed one if is_skippable_scan_error does not know the error.
Scan(unreadable, busy) ==
    /\ pc = "scan"
    /\ busy \subseteq { file \in Walked(unreadable) \cap Files : ~Reusable(file) }
    /\ IF unreadable \cup busy = {} THEN UNCHANGED faults ELSE Fault("busy")
    /\ live' = Walked(unreadable) \ busy
    /\ scanned' = [file \in Files |-> IF file \in live' THEN local[file] ELSE 0]
    /\ reused' = { file \in live' \cap Files : Reusable(file) }
    /\ LET walkFailed == unreadable # {} \/ Visible(<<>>) = 0
       IN  failed' \in {walkFailed, walkFailed \/ busy # {}}
    /\ touched' = {}
    /\ pc' = "live"
    /\ UNCHANGED <<trees, database, tombs, inventory, fromCache, todo, task,
                   hard, cancelled, outcome, edits>>

\* LiveScanPlan::from_scan_report and record_deleted_subtrees: directories gone
\* since the walk become deleted subtrees and take what is below them along.
BuildLivePlan ==
    /\ pc = "live"
    /\ tombs' = AddDeletedSubtrees({}, (live \cap Dirs) \ LocalDirs)
    /\ live' = { path \in live : ~CoveredBySome(tombs', path) }
    /\ pc' = "inventory"
    /\ UNCHANGED <<trees, database, scanned, reused, inventory, fromCache, todo, task,
                   summary, budgets>>

\* local_remote_collision over the live plan.
Collision == Collide(live)

FailRoot ==
    /\ hard' = TRUE /\ failed' = TRUE
    /\ pc' = "finish"
    /\ UNCHANGED <<cancelled, outcome>>

PartialFailRoot ==
    /\ failed' = TRUE
    /\ pc' = "finish"
    /\ UNCHANGED <<hard, cancelled, outcome>>

CollisionFails ==
    /\ pc = "inventory" /\ Collision
    /\ FailRoot
    /\ UNCHANGED <<trees, database, plan, tombs, todo, task, budgets>>

\* remote_inventory with a complete snapshot that has not expired.  Expiry and
\* force_remote_rescan decide between this step and the next ones.
UseCache ==
    /\ pc = "inventory" /\ ~Collision
    /\ complete
    /\ inventory' = cache /\ fromCache' = TRUE
    /\ pc' = "plan"
    /\ UNCHANGED <<trees, database, live, scanned, reused, tombs, todo, task, summary, budgets>>

\* What list_recursive_with_options reports: nothing below a pruned prefix.
Listing == { path \in OnDisk : ~\E prefix \in tombs : Below(path, prefix) }

\* The remote root does not exist: an empty inventory that is not persisted.
RemoteRootNotFound ==
    /\ pc = "inventory" /\ ~Collision
    /\ <<>> \notin OnDisk
    /\ inventory' = {} /\ fromCache' = FALSE
    /\ pc' = "plan"
    /\ UNCHANGED <<trees, database, live, scanned, reused, tombs, todo, task, summary, budgets>>

\* The listing is complete; replace_remote_resources_for_root is one transaction.
ListRemote ==
    /\ pc = "inventory" /\ ~Collision
    /\ <<>> \in OnDisk
    /\ inventory' = Listing /\ fromCache' = FALSE
    /\ cache' = Listing
    /\ pc' = "persist"
    /\ UNCHANGED <<trees, record, complete, live, scanned, reused, tombs, todo, task,
                   summary, budgets>>

\* set_root_remote_inventory_status(is_complete: true).
PersistInventory ==
    /\ pc = "persist"
    /\ complete' = TRUE
    /\ pc' = "plan"
    /\ UNCHANGED <<trees, record, cache, plan, tombs, todo, task, summary, budgets>>

\* Somebody removes a directory between its listing and the listing of its
\* children: NotFound, and the inventory has the root only.
ListingNotFound(dir) ==
    /\ pc = "inventory" /\ ~Collision
    /\ <<>> \in OnDisk /\ remote[dir] # 0
    /\ Fault("external")
    /\ remote' = Without(remote, dir)
    /\ touched' = touched \cup { path \in Paths : Covers(dir, path) }
    /\ inventory' = {<<>>} /\ fromCache' = FALSE
    /\ pc' = "plan"
    /\ UNCHANGED <<local, last, database, live, scanned, reused, tombs, todo, task, summary,
                   edits>>

\* Somebody removes a path while its directory is read page by page: the listing may
\* miss entries of that directory, and what is below them (see module Listing).
ListingShifted(path, missed) ==
    /\ pc = "inventory" /\ ~Collision
    /\ remote[path] # 0 /\ path # <<>> /\ <<>> \in OnDisk
    /\ missed \subseteq { other \in Paths \ {<<>>} : Parent(other) = Parent(path) }
    /\ Fault("external")
    /\ remote' = Without(remote, path)
    /\ touched' = touched \cup { other \in Paths : Covers(path, other) }
    /\ inventory' = { row \in Listing : ~CoveredBySome(missed, row) } /\ fromCache' = FALSE
    /\ cache' = inventory'
    /\ pc' = "persist"
    /\ UNCHANGED <<local, last, record, complete, live, scanned, reused, tombs, todo, task,
                   summary, edits>>

\* Any other error: the snapshot is marked incomplete and the root fails, with the
\* whole run (a stop error, also what an error of the database becomes here) or
\* partially.
InventoryFails(kind) ==
    /\ \/ pc = "inventory" /\ ~Collision /\ kind \in {"transient", "stop", "database"}
       \/ pc = "persist" /\ kind = "database"
    /\ Fault(kind)
    /\ complete' = FALSE
    /\ IF kind = "transient" THEN PartialFailRoot ELSE FailRoot
    /\ UNCHANGED <<trees, record, cache, plan, tombs, todo, task, touched, edits>>

-----------------------------------------------------------------------------
(* Create, upload, delete.                                                   *)

\* Mutant: files that need no upload are left out of the plan.
ChangedFiles == (live \cap Files) \ reused

LiveFiles == live \cap Files
Uploads == PlannedUploads(LiveFiles, reused, inventory)

QuotaExceeded ==
    /\ pc = "plan" /\ Uploads # {}
    /\ Fault("quota")
    /\ FailRoot
    /\ UNCHANGED <<trees, database, plan, tombs, todo, task, touched, edits>>

\* build_root_plan, then apply_create_directories.
StartCreates ==
    /\ pc = "plan"
    /\ todo' = PlannedCreates(live \cap Dirs, inventory)
    /\ pc' = "create"
    /\ UNCHANGED <<trees, database, plan, tombs, task, summary, budgets>>

\* One batch of creates (all of the least depth left) or of uploads: what is in a
\* deleted subtree is dropped, what is found missing with its directory starts a
\* deleted subtree, the rest becomes tasks.  The next batch waits for all of them.
StartBatch(batch) ==
    /\ pc \in {"create", "upload"} /\ Idle /\ ~cancelled
    /\ batch # {} /\ batch \subseteq todo /\ Cardinality(batch) <= Concurrency
    /\ pc = "create" => \A path \in batch, other \in todo : Len(path) <= Len(other)
    /\ LET known == { path \in batch : ~CoveredBySome(tombs, path) }
           gone == { path \in known : MissingAncestors(path, LocalDirs) # {} }
       IN  /\ tombs' = AddDeletedSubtrees(
                           tombs, { Shortest(MissingAncestors(path, LocalDirs)) : path \in gone })
           /\ task' = [path \in Paths |->
                          IF path \in known \ gone THEN "queued" ELSE task[path]]
    /\ todo' = todo \ batch
    /\ UNCHANGED <<trees, database, pc, plan, summary, budgets>>

Answer(path, answer) == task' = [task EXCEPT ![path] = answer]

\* The disk accepts a request: a directory is created and a file uploaded only into
\* an existing directory, and an upload reads the local file as it is now.
Acceptable(path) ==
    \/ pc = "delete"
    \/ /\ path = <<>> \/ remote[Parent(path)] # 0
       /\ path \in Files => Visible(path) # 0

\* The remote tree once the requests of these tasks have taken effect.
Applied(paths) ==
    IF pc = "delete"
    THEN [path \in Paths |-> IF CoveredBySome(paths, path) THEN 0 ELSE remote[path]]
    ELSE [path \in Paths |->
            IF path \notin paths THEN remote[path]
            ELSE IF path \in Files THEN Visible(path) ELSE 1]

\* The request succeeds.  A directory that exists and a path to delete that does
\* not are successes too.
TaskSucceeds(path) ==
    /\ task[path] = "queued" /\ Acceptable(path)
    /\ remote' = Applied({path})
    /\ Answer(path, "ok")
    /\ UNCHANGED <<local, last, database, pc, plan, tombs, todo, summary, budgets>>

\* The parent directory is missing on the disk (a permanent error), or the upload
\* source cannot be opened (local_upload_source_unavailable: a skip).
TaskRejected(path) ==
    /\ task[path] = "queued" /\ ~Acceptable(path)
    /\ Answer(path, IF path # <<>> /\ remote[Parent(path)] = 0 THEN "fail" ELSE "skip")
    /\ UNCHANGED <<trees, database, pc, plan, tombs, todo, summary, budgets>>

\* upload_task finds the run cancelled before it sends anything.
TaskCancelled(path) ==
    /\ task[path] = "queued" /\ pc = "upload" /\ cancelled
    /\ Answer(path, "stop")
    /\ UNCHANGED <<trees, database, pc, plan, tombs, todo, summary, budgets>>

\* The client gives up on a request; where answers can be lost, it may have taken
\* effect, whatever the last retry or poll was answered.
TaskFails(path) ==
    /\ task[path] = "queued"
    /\ \/ Fault("transient") /\ Answer(path, "fail")
       \/ Fault("stop") /\ Answer(path, "stop")
       \/ pc = "upload" /\ Fault("conflict") /\ Answer(path, "skip")
    /\ \/ UNCHANGED remote
       \/ "transient" \in Faults /\ Acceptable(path) /\ remote' = Applied({path})
    /\ UNCHANGED <<local, last, database, pc, plan, tombs, todo, summary, touched, edits>>

\* Tasks dropped with their JoinSet: each request may or may not take effect.
Dropped(except) ==
    /\ \E done \in SUBSET { path \in Paths \ except : task[path] = "queued" /\ Acceptable(path) } :
          remote' = Applied(done)
    /\ task' = NoTasks

\* A stop error ends the phase and the run at once.
JoinStop(path) ==
    /\ failed' = TRUE /\ hard' = TRUE
    /\ Dropped({path})
    /\ pc' = "finish"
    /\ UNCHANGED <<local, last, database, cancelled, outcome>>

JoinCreate(path) ==
    /\ pc = "create"
    /\ \/ /\ task[path] = "ok"
          /\ cache' = cache \cup {path}
          /\ Answer(path, "none")
          /\ UNCHANGED <<trees, record, complete, pc, summary>>
       \/ /\ task[path] = "fail"
          /\ failed' = TRUE
          /\ Answer(path, "none")
          /\ UNCHANGED <<trees, database, pc, hard, cancelled, outcome>>
       \/ task[path] = "stop" /\ JoinStop(path)
    /\ UNCHANGED <<plan, tombs, todo, budgets>>

\* file_status_after_upload compares the local file with the scan.
StatusAfterUpload(file) == IF Visible(file) = scanned[file] THEN "synced" ELSE "changed"

\* Mutant: the record takes size and mtime when the answer arrives.
FileStateAtAnswer(file, status) ==
    [record EXCEPT ![file] = [version |-> Visible(file), status |-> status]]

FileState(file, status) ==
    [record EXCEPT ![file] = [version |-> scanned[file], status |-> status]]

\* An error whose directory has gone makes a deleted subtree instead, unless
\* register_missing_local_path has registered it before.
NewlyGone(path) ==
    LET missing == MissingAncestors(path, LocalDirs)
    IN  missing # {} /\ ~CoveredBySome(tombs, Shortest(missing))

JoinUpload(path) ==
    /\ pc = "upload"
    /\ \/ /\ task[path] = "ok"
          /\ record' = FileState(path, StatusAfterUpload(path))
          /\ cache' = cache \cup {path}
          /\ Answer(path, "none")
          /\ UNCHANGED <<trees, complete, pc, tombs, summary>>
       \/ /\ task[path] \in {"skip", "fail", "stop"} /\ NewlyGone(path)
          /\ tombs' = AddDeletedSubtrees(tombs, {Shortest(MissingAncestors(path, LocalDirs))})
          /\ Answer(path, "none")
          /\ UNCHANGED <<trees, database, pc, summary>>
       \/ /\ task[path] = "skip" /\ ~NewlyGone(path)
          /\ record' = FileState(path, "skipped")
          /\ Answer(path, "none")
          /\ UNCHANGED <<trees, cache, complete, pc, tombs, summary>>
       \/ /\ task[path] = "fail" /\ ~NewlyGone(path)
          /\ failed' = TRUE
          /\ Answer(path, "none")
          /\ UNCHANGED <<trees, database, pc, tombs, hard, cancelled, outcome>>
       \/ /\ task[path] = "stop" /\ ~NewlyGone(path)
          /\ JoinStop(path)
          /\ UNCHANGED tombs
    /\ UNCHANGED <<plan, todo, budgets>>

\* A phase ends when its operations are joined, or at a batch boundary once the run
\* is cancelled.
PhaseOver == Idle /\ (todo = {} \/ cancelled)

StartUploads ==
    /\ pc = "create" /\ PhaseOver
    /\ IF cancelled
       THEN pc' = "finish" /\ todo' = {}
       ELSE pc' = "upload" /\ todo' = Uploads
    /\ UNCHANGED <<trees, database, plan, tombs, task, summary, budgets>>

StartDeletes ==
    /\ pc = "upload" /\ PhaseOver
    /\ IF cancelled
       THEN pc' = "finish" /\ todo' = {}
       ELSE /\ pc' = "delete"
            /\ todo' = CoalescedDeletes(KnownLive(live \cap Dirs, LiveFiles, tombs), inventory)
    /\ UNCHANGED <<trees, database, plan, tombs, task, summary, budgets>>

\* The deletes run one at a time, the deepest first.
StartDelete(path) ==
    /\ pc = "delete" /\ Idle /\ ~cancelled
    /\ path \in todo /\ \A other \in todo : Len(other) <= Len(path)
    /\ todo' = todo \ {path}
    /\ Answer(path, IF fromCache THEN "check" ELSE "queued")
    /\ UNCHANGED <<trees, database, pc, plan, tombs, summary, budgets>>

\* Mutant: only the row of the path itself is deleted.
CacheWithoutRow(path) == cache \ {path}

\* delete_remote_resource_subtree: `_` and `%` in the path match other names too, and
\* LIKE does not tell upper from lower case.
CacheWithout(path) ==
    { row \in cache : ~Covers(path, row) /\ <<path, row>> \notin LikeMatches }

\* A cached resource is looked up first; NotFound only clears the cache.
CheckDelete(path) ==
    /\ task[path] = "check"
    /\ \/ /\ remote[path] # 0
          /\ Answer(path, "queued") /\ UNCHANGED <<cache, faults>>
       \/ /\ remote[path] = 0
          /\ Answer(path, "none") /\ cache' = CacheWithout(path) /\ UNCHANGED faults
       \/ Fault("transient") /\ Answer(path, "fail") /\ UNCHANGED cache
       \/ Fault("stop") /\ Answer(path, "stop") /\ UNCHANGED cache
    /\ UNCHANGED <<trees, record, complete, pc, plan, tombs, todo, summary, touched, edits>>

\* Mutant: a deleted file is recorded as skipped.
MarkSkipped(file) ==
    [record EXCEPT ![file] = [version |-> @.version, status |-> "skipped"]]

\* mark_deleted for a file: the record keeps its size and mtime.
MarkDeleted(file) ==
    [record EXCEPT ![file] = [version |-> @.version, status |-> "deleted"]]

\* mark_directory_deleted writes a table of its own that no later run reads.
JoinDelete(path) ==
    /\ pc = "delete"
    /\ \/ /\ task[path] = "ok"
          /\ record' = IF path \in Files THEN MarkDeleted(path) ELSE record
          /\ cache' = CacheWithout(path)
          /\ Answer(path, "none")
          /\ UNCHANGED <<trees, complete, pc, summary>>
       \/ /\ task[path] = "fail"
          /\ failed' = TRUE
          /\ Answer(path, "none")
          /\ UNCHANGED <<trees, database, pc, hard, cancelled, outcome>>
       \/ task[path] = "stop" /\ JoinStop(path)
    /\ UNCHANGED <<plan, tombs, todo, budgets>>

EndDeletes ==
    /\ pc = "delete" /\ PhaseOver
    /\ pc' = "finish" /\ todo' = {}
    /\ UNCHANGED <<trees, database, plan, tombs, task, summary, budgets>>

\* status_from_summary for one root: finish_root_cancelled_or_failed has made a root
\* with failed items PartialFailed.
RunStatus == IF hard THEN "failed" ELSE IF failed THEN "partial" ELSE "succeeded"

\* finish_root_cancelled_or_failed and the end of run_once.
FinishRun ==
    /\ pc = "finish"
    /\ outcome' = IF cancelled THEN "cancelled" ELSE RunStatus
    /\ EndRun
    /\ UNCHANGED <<trees, database, task, budgets>>

-----------------------------------------------------------------------------
(* The environment.                                                          *)

Edit(changed) ==
    /\ edits < MaxEdits
    /\ edits' = edits + 1
    /\ touched' = touched \cup changed
    /\ UNCHANGED <<remote, database, pc, plan, tombs, todo, task, summary, faults>>

WriteLocal(file) ==
    /\ Visible(<<>>) # 0 /\ Ancestors(file) \subseteq LocalDirs
    /\ last[file] < MaxVersion
    /\ local' = [local EXCEPT ![file] = last[file] + 1]
    /\ last' = [last EXCEPT ![file] = last[file] + 1]
    /\ Edit({file})

\* A file comes back with its size and mtime; a directory is made (again).
RestoreLocal(path) ==
    /\ Visible(<<>>) # 0 /\ Ancestors(path) \subseteq LocalDirs
    /\ local[path] = 0
    /\ path \in Files => last[path] # 0
    /\ local' = [local EXCEPT ![path] = IF path \in Files THEN last[path] ELSE 1]
    /\ UNCHANGED last
    /\ Edit({path})

RemoveLocal(path) ==
    /\ Visible(path) # 0 /\ path # <<>>
    /\ local' = Without(local, path)
    /\ UNCHANGED last
    /\ Edit({ p \in Paths : Covers(path, p) })

\* The volume of the root goes away and comes back with what is on it.
Unmount ==
    /\ local[<<>>] # 0 /\ Fault("unmount")
    /\ local' = [local EXCEPT ![<<>>] = 0]
    /\ touched' = Paths
    /\ UNCHANGED <<last, remote, database, pc, plan, tombs, todo, task, summary, edits>>

Mount ==
    /\ local[<<>>] = 0
    /\ local' = [local EXCEPT ![<<>>] = 1]
    /\ touched' = Paths
    /\ UNCHANGED <<last, remote, database, pc, plan, tombs, todo, task, summary, edits, faults>>

RemoveRemote(path) ==
    /\ remote[path] # 0 /\ Fault("external")
    /\ remote' = Without(remote, path)
    /\ touched' = touched \cup { p \in Paths : Covers(path, p) }
    /\ UNCHANGED <<local, last, database, pc, plan, tombs, todo, task, summary, edits>>

Cancel ==
    /\ pc # "idle" /\ ~cancelled /\ Fault("cancel")
    /\ cancelled' = TRUE
    /\ UNCHANGED <<trees, database, pc, plan, tombs, todo, task, failed, hard, outcome,
                   touched, edits>>

\* The process dies with its requests in flight.
Crash ==
    /\ pc # "idle" /\ Fault("crash")
    /\ Dropped({})
    /\ EndRun
    /\ outcome' = "none"
    /\ UNCHANGED <<local, last, database, touched, edits>>

\* A statement fails: execute_run returns the error and the run is Failed, even
\* when it has been cancelled.
DatabaseFails ==
    /\ pc # "idle" /\ Fault("database")
    /\ Dropped({})
    /\ EndRun
    /\ outcome' = "failed"
    /\ UNCHANGED <<local, last, database, touched, edits>>

\* Either of them between the statement on file_state and the one on
\* remote_resources, which are no transaction.
JoinInterrupted(path, kind) ==
    /\ kind \in {"crash", "database"} /\ Fault(kind)
    /\ task[path] = "ok"
    /\ \/ pc = "upload" /\ record' = FileState(path, StatusAfterUpload(path))
       \/ pc = "delete" /\ path \in Files /\ record' = MarkDeleted(path)
    /\ Dropped({path})
    /\ EndRun
    /\ outcome' = IF kind = "crash" THEN "none" ELSE "failed"
    /\ UNCHANGED <<local, last, cache, complete, touched, edits>>

-----------------------------------------------------------------------------

ScanSteps ==
    \/ \E unreadable \in SUBSET LocalDirs, busy \in SUBSET Files : Scan(unreadable, busy)
    \/ BuildLivePlan
    \/ CollisionFails \/ UseCache \/ RemoteRootNotFound \/ ListRemote \/ PersistInventory

PhaseSteps ==
    \/ StartCreates \/ StartUploads \/ StartDeletes \/ EndDeletes \/ FinishRun
    \/ \E batch \in SUBSET Paths : StartBatch(batch)
    \/ \E path \in Paths : StartDelete(path) \/ CheckDelete(path)

TaskSteps ==
    \E path \in Paths :
        \/ TaskSucceeds(path) \/ TaskRejected(path) \/ TaskCancelled(path)
        \/ JoinCreate(path) \/ JoinUpload(path) \/ JoinDelete(path)

FaultSteps ==
    \/ QuotaExceeded \/ Cancel \/ Crash \/ DatabaseFails
    \/ Unmount \/ Mount
    \/ \E kind \in FaultKinds : InventoryFails(kind)
    \/ \E dir \in Dirs : ListingNotFound(dir)
    \/ \E path \in Paths, missed \in SUBSET Paths : ListingShifted(path, missed)
    \/ \E path \in Paths : TaskFails(path) \/ RemoveRemote(path)
    \/ \E path \in Paths, kind \in FaultKinds : JoinInterrupted(path, kind)

EditSteps ==
    \/ \E file \in Files : WriteLocal(file)
    \/ \E path \in Paths : RestoreLocal(path) \/ RemoveLocal(path)

Next == StartRun \/ ScanSteps \/ PhaseSteps \/ TaskSteps \/ FaultSteps \/ EditSteps

Spec == Init /\ [][Next]_vars

\* A run that has started goes on, runs keep being started (the daily schedule),
\* and the snapshot's TTL is finite: again and again a run finds it expired and
\* asks the disk.
EngineSteps == ScanSteps \/ PhaseSteps \/ TaskSteps

FairSpec ==
    /\ Spec
    /\ WF_vars(StartRun) /\ WF_vars(EngineSteps)
    /\ SF_vars(ListRemote \/ RemoteRootNotFound)

-----------------------------------------------------------------------------
(* Properties.                                                               *)

\* The reason a file is not uploaded again: its record has the file's size and
\* mtime.  Whatever failed or crashed between an upload and its record, if the
\* record came from an upload (upsert_file_state after success) and the file is on
\* the disk, the disk has the content the local file has now.
RecordedMeansUploaded ==
    \A file \in Files :
        /\ record[file].status \in {"synced", "changed"}
        /\ local[file] # 0 /\ record[file].version = local[file]
        /\ remote[file] # 0
        => remote[file] = local[file]

\* apply_deletes never removes the remote copy of what has been on the local disk,
\* unchanged, ever since the scan: not through a deleted subtree, a stale inventory
\* or a directory deleted as a whole.
DeletesOnlyWhatWasGone ==
    [][\A path \in Paths :
          pc = "delete" /\ remote[path] # 0 /\ remote'[path] = 0
          => path \in touched' \/ Visible(path) = 0]_vars

\* Skipped with this very version: the run report said so when it happened.
SkippedAsIs(path) ==
    path \in Files /\ local[path] # 0
    /\ record[path] = [version |-> local[path], status |-> "skipped"]

\* A run over a fresh listing that ends as Succeeded, with nothing changed under it,
\* leaves the mirror exact: every local path has its content on the disk, every
\* extra path is gone, and only files recorded as skipped are excepted.
FreshSuccessMirrors ==
    pc = "idle" /\ outcome = "succeeded" /\ ~fromCache /\ touched = {} =>
        \A path \in Paths : remote[path] = Visible(path) \/ SkippedAsIs(path)

\* The mirror the runs implement: the verdict is that of a run over a fresh listing.
Abstract == INSTANCE Mirror WITH
    source <- [path \in Paths |-> Visible(path)],
    mirror <- remote,
    skipped <- [file \in Files |->
                  IF record[file].status = "skipped" THEN record[file].version ELSE 0],
    since <- touched,
    verdict <- IF pc = "idle" /\ outcome = "succeeded" /\ ~fromCache /\ touched = {}
               THEN "exact" ELSE "open"

\* Every step of execute_root, of its tasks and of whatever happens around it is a step
\* of the abstract mirror or invisible there: through phases, batches, crashes, lost
\* answers and stale plans, only current content of the source goes to the disk, only
\* what the source lost is dropped, and only an exact mirror is reported.
RefinesMirror == Abstract!Spec

\* As long as every answer of the disk reaches the database, a complete snapshot in
\* the cache names nothing that the disk does not have: a row there is the reason
\* why a file is not uploaded and a directory not created.
CacheNamesWhatExists ==
    pc = "idle" /\ complete => cache \subseteq OnDisk

\* Once the local tree rests and the faults are over, the runs make the disk equal
\* to it and leave it so, whatever the faults left in the database.
Converges ==
    <>[](\A path \in Paths : remote[path] = Visible(path) \/ SkippedAsIs(path))

=============================================================================
