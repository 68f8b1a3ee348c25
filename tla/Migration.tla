------------------------------ MODULE Migration ------------------------------
(***************************************************************************)
(* The migration of one root, run after run: MigrationEngine::execute_root. *)
(* Legacy remote trees are moved or merged into the canonical one, files    *)
(* that match are adopted, others uploaded, the rest is deleted.            *)
(*                                                                         *)
(* Root 0 is the canonical remote root, 1..LegacyRoots are the configured   *)
(* legacy_remote_paths in their order.  Trees map the paths of MirrorPlan   *)
(* to contents: 0 is nothing, 1 a directory, 1..MaxVersion are the versions *)
(* of a local file, Foreign is content that no local file ever had.  It has *)
(* the size of version 1, the versions of a small file differ in size, and  *)
(* all contents of a SizeOnly one (above full_hash_max_bytes) have the same *)
(* size, which is all that is compared of it.                               *)
(*                                                                         *)
(* A request has its effect in one step and its answer is processed in a    *)
(* later one.  migration_map_state and the journal are written along the    *)
(* way and read by no run; they are left out.                               *)
(***************************************************************************)
EXTENDS MirrorPlan, FiniteSets

CONSTANTS
    Dirs, Files,
    Order,        \* all files, in the order of sort_deterministically
    SizeOnly,     \* files above full_hash_max_bytes
    Large,        \* files of at least large_file_name_size_only_min_bytes
    LegacyRoots,  \* number of legacy_remote_paths
    Starts,       \* for each root, the trees it may have at first
    Concurrency,  \* upload_concurrency
    Faults, MaxVersion, MaxFaults

Paths == Dirs \cup Files
Legacies == 1..LegacyRoots
Roots == 0..LegacyRoots
Foreign == MaxVersion + 1
Versions == 0..MaxVersion
Contents == 0..Foreign
Trees == [Paths -> Contents]

FaultKinds ==
    { "crash", "database", "transient", "conflict", "stop", "quota", "cancel",
      "busy", "unmount", "external",
      "edit",      \* a change of the local tree
      "collision", \* for a while a second local name differs in case only
      "no_md5" }   \* the disk lists its files without md5: not counted, but
                   \* only as long as a fault is left

ASSUME TreesAssumption ==
    /\ <<>> \in Dirs /\ Dirs \cap Files = {}
    /\ Large \subseteq SizeOnly /\ SizeOnly \subseteq Files
    /\ \A path \in Paths : path \in Seq(STRING) /\ Ancestors(path) \subseteq Dirs
    /\ Order \in Seq(Files) /\ \A file \in Files : \E n \in 1..Len(Order) : Order[n] = file
    /\ IsFiniteSet(Paths)
    /\ LegacyRoots \in Nat /\ Starts \in [Roots -> SUBSET Trees]
    /\ \A root \in Roots : \A tree \in Starts[root] :
           /\ AncestorClosed({ path \in Paths : tree[path] # 0 })
           /\ \A path \in Paths : tree[path] # 0 => tree[<<>>] # 0
           /\ \A dir \in Dirs : tree[dir] \in {0, 1}
           /\ \A file \in Files : tree[file] \in {0, 1, Foreign}
ASSUME LimitsAssumption ==
    /\ Concurrency \in Nat \ {0} /\ MaxVersion \in Nat \ {0}
    /\ MaxFaults \in Nat /\ Faults \subseteq FaultKinds

VARIABLES
    local, last,  \* the local tree, and the last version each file had
    remote,       \* the trees on Yandex Disk, one per root
    \* the state database
    record,       \* file_state: version (size and mtime), status, md5 present
    cache,        \* remote_resource_state: size and md5 of each row as a content
    noMd5,        \* files whose row there has no remote_md5
    complete,     \* root_remote_inventory_status.is_complete
    \* the run
    pc,
    live,         \* LiveScanPlan.files and .directories
    scanned,      \* the version the scan saw
    hashed,       \* files whose fingerprint has a local_md5
    tombs,        \* LiveScanPlan.deleted_subtrees
    sets,         \* RemoteSets.canonical and .legacy
    bare,         \* files of RemoteSets without md5
    fromCache,    \* RemoteSets.from_cache
    todo,         \* files or directories the current phase has still to visit
    answer,       \* the answer to the request that has been sent
    adopting,     \* AdoptionBatch
    batch,        \* upload_batch
    task,         \* the uploads in flight: their answer, if it has arrived
    deletes,      \* DeleteCandidates not yet visited
    failed, hard, stopping, cancelled, outcome,
    \* history and budgets
    reported,     \* paths the run has reported as skipped or failed
    touched,      \* paths that somebody else changed since the scan
    settled,      \* the last run mirrored everything, and nothing happened since
    faults

trees == <<local, last, remote>>
rows == <<cache, noMd5>>
database == <<record, rows, complete>>
plan == <<live, scanned, hashed, fromCache>>
inventory == <<sets, bare>>
queues == <<todo, adopting, batch, deletes>>
summary == <<failed, hard, stopping>>
budgets == <<settled, faults>>
vars == <<trees, database, pc, plan, tombs, inventory, queues, answer, task, summary,
          cancelled, outcome, reported, touched, budgets>>

PCs == { "idle", "scan", "live", "sets", "rows", "status", "top", "relist", "dirs",
         "merge", "adopt", "upload", "delete", "finish" }
Answers == { "none", "queued", "ok", "skip", "fail", "stop" }
RecordStatuses == { "none", "synced", "changed", "skipped", "failed", "deleted" }
Outcomes == { "none", "succeeded", "partial", "failed", "cancelled" }

TypeOK ==
    /\ local \in [Paths -> Versions] /\ last \in [Files -> Versions]
    /\ remote \in [Roots -> Trees]
    /\ record \in [Files -> [version : Versions, status : RecordStatuses, md5 : BOOLEAN]]
    /\ cache \in [Roots -> Trees] /\ noMd5 \subseteq Roots \X Files /\ complete \in BOOLEAN
    /\ pc \in PCs
    /\ live \subseteq Paths /\ scanned \in [Files -> Versions] /\ hashed \subseteq Files
    /\ tombs \subseteq Dirs
    /\ sets \in [Roots -> Trees] /\ bare \subseteq Roots \X Files /\ fromCache \in BOOLEAN
    /\ todo \subseteq Paths /\ answer \in Answers
    /\ adopting \subseteq Files /\ batch \subseteq Files /\ Cardinality(batch) <= Concurrency
    /\ task \in [Files -> Answers] /\ deletes \subseteq Roots \X Paths
    /\ failed \in BOOLEAN /\ hard \in BOOLEAN /\ stopping \in BOOLEAN
    /\ cancelled \in BOOLEAN /\ outcome \in Outcomes
    /\ reported \subseteq Paths /\ touched \subseteq Paths /\ settled \in BOOLEAN
    /\ faults \in 0..MaxFaults

Empty == [path \in Paths |-> 0]
NoTasks == [file \in Files |-> "none"]
Visible(path) == IF local[<<>>] = 0 THEN 0 ELSE local[path]
LocalDirs == { dir \in Dirs : Visible(dir) # 0 }
In(tree) == { path \in Paths : tree[path] # 0 }
Parent(path) == SubSeq(path, 1, Len(path) - 1)
Without(tree, path) == [p \in Paths |-> IF Covers(path, p) THEN 0 ELSE tree[p]]

Fault(kind) ==
    /\ kind \in Faults /\ faults < MaxFaults
    /\ faults' = faults + 1 /\ settled' = FALSE

\* An empty state database beside trees of any kind: should_auto_migrate, or the
\* command `migration run`.
Init ==
    /\ \E present \in { s \in SUBSET Paths : <<>> \in s /\ AncestorClosed(s) } :
          local = [path \in Paths |-> IF path \in present THEN 1 ELSE 0]
    /\ last = [file \in Files |-> local[file]]
    /\ remote \in [Roots -> UNION { Starts[root] : root \in Roots }]
    /\ \A root \in Roots : remote[root] \in Starts[root]
    /\ record = [file \in Files |-> [version |-> 0, status |-> "none", md5 |-> FALSE]]
    /\ cache = [root \in Roots |-> Empty] /\ noMd5 = {} /\ complete = FALSE
    /\ pc = "idle" /\ live = {} /\ scanned = [file \in Files |-> 0] /\ hashed = {}
    /\ tombs = {} /\ sets = [root \in Roots |-> Empty] /\ bare = {} /\ fromCache = FALSE
    /\ todo = {} /\ answer = "none" /\ adopting = {} /\ batch = {} /\ task = NoTasks
    /\ deletes = {} /\ failed = FALSE /\ hard = FALSE /\ stopping = FALSE
    /\ cancelled = FALSE /\ outcome = "none"
    /\ reported = {} /\ touched = {} /\ settled = FALSE /\ faults = 0

-----------------------------------------------------------------------------
(* The run and its end.                                                      *)

\* execute_run reaches the root and finds its directory.
StartRun ==
    /\ pc = "idle" /\ Visible(<<>>) # 0
    /\ pc' = "scan" /\ outcome' = "none"
    /\ UNCHANGED <<trees, database, plan, tombs, inventory, queues, answer, task, summary,
                   cancelled, reported, touched, budgets>>

\* The root is skipped, which makes the run PartialFailed.
RecordMissingRoot ==
    /\ pc = "idle" /\ Visible(<<>>) = 0
    /\ outcome' = "partial" /\ settled' = FALSE
    /\ UNCHANGED <<trees, database, pc, plan, tombs, inventory, queues, answer, task, summary,
                   cancelled, reported, touched, faults>>

\* What the run kept in memory is gone.
EndRun ==
    /\ pc' = "idle"
    /\ live' = {} /\ scanned' = [file \in Files |-> 0] /\ hashed' = {} /\ tombs' = {}
    /\ sets' = [root \in Roots |-> Empty] /\ bare' = {}
    /\ todo' = {} /\ answer' = "none" /\ adopting' = {} /\ batch' = {} /\ task' = NoTasks
    /\ deletes' = {} /\ reported' = {}
    /\ failed' = FALSE /\ hard' = FALSE /\ stopping' = FALSE /\ cancelled' = FALSE
    /\ UNCHANGED fromCache

\* status_from_summary for one root.  Only fail_root makes it FAILED: a stop error
\* after the inventory leaves a partial root.
StatusFromSummary ==
    IF hard THEN "failed" ELSE IF failed THEN "partial" ELSE "succeeded"

FinishRun ==
    /\ pc = "finish"
    /\ outcome' = IF cancelled THEN "cancelled" ELSE StatusFromSummary
    /\ settled' = /\ outcome' = "succeeded" /\ reported = {}
                  /\ settled \/ (~fromCache /\ touched = {})
    /\ EndRun
    /\ UNCHANGED <<trees, database, touched, faults>>

Finish == pc' = "finish" /\ todo' = {} /\ adopting' = {} /\ batch' = {} /\ deletes' = {}

FailRoot ==
    /\ hard' = TRUE /\ failed' = TRUE /\ UNCHANGED stopping
    /\ Finish

PartialFailRoot ==
    /\ failed' = TRUE /\ UNCHANGED <<hard, stopping>>
    /\ Finish

\* The tasks in flight when the JoinSet is dropped may or may not take effect.
Dropped ==
    \E done \in SUBSET { file \in Files : task[file] = "queued" /\ Visible(file) # 0
                                           /\ remote[0][Parent(file)] # 0 } :
        remote' = [remote EXCEPT ![0] = [path \in Paths |->
                      IF path \in done THEN Visible(path) ELSE remote[0][path]]]

\* An error that execute_root passes on with `?`: the run is Failed, even cancelled.
RunFails ==
    /\ Dropped
    /\ EndRun
    /\ outcome' = "failed"
    /\ UNCHANGED <<local, last, touched>>

-----------------------------------------------------------------------------
(* Scan and inventory.                                                       *)

Reusable(file) == record[file].version = local[file]

\* Mutant: a reused fingerprint has no md5.
NoReusedMd5(file) == ~Reusable(file)

\* The local_md5 of a reused fingerprint is the remote_md5 of the record; a new one
\* has it up to full_hash_max_bytes.
HasMd5(file) == IF Reusable(file) THEN record[file].md5 ELSE file \notin SizeOnly

Walked(unreadable) ==
    { path \in Paths \ {<<>>} :
        Visible(path) # 0 /\ ~\E dir \in unreadable : Below(path, dir) }

\* scan_root_with_repository and record_scan_findings.
Scan(unreadable, busy) ==
    /\ pc = "scan"
    /\ busy \subseteq { file \in Walked(unreadable) \cap Files : ~Reusable(file) }
    /\ IF unreadable \cup busy = {} THEN UNCHANGED budgets ELSE Fault("busy")
    /\ live' = Walked(unreadable) \ busy
    /\ scanned' = [file \in Files |-> IF file \in live' THEN local[file] ELSE 0]
    /\ hashed' = { file \in live' \cap Files : HasMd5(file) }
    /\ LET walkFailed == unreadable # {} \/ Visible(<<>>) = 0
       IN  failed' \in {walkFailed, walkFailed \/ busy # {}}
    /\ reported' = In(local) \ (live' \cup {<<>>})
    /\ touched' = {}
    /\ pc' = "live"
    /\ UNCHANGED <<trees, database, tombs, inventory, fromCache, queues, answer, task, hard,
                   stopping, cancelled, outcome>>

\* LiveScanPlan::from_scan_report.
BuildLivePlan ==
    /\ pc = "live"
    /\ tombs' = AddDeletedSubtrees({}, (live \cap Dirs) \ LocalDirs)
    /\ live' = { path \in live : ~CoveredBySome(tombs', path) }
    /\ pc' = "sets"
    /\ UNCHANGED <<trees, database, scanned, hashed, fromCache, inventory, queues, answer,
                   task, summary, cancelled, outcome, reported, touched, budgets>>

\* local_remote_collision, with a name that is none of the model's.
CollisionFails ==
    /\ pc = "sets" /\ Fault("collision")
    /\ FailRoot
    /\ UNCHANGED <<trees, database, plan, tombs, inventory, answer, task, cancelled, outcome,
                   reported, touched>>

\* load_remote_sets with a complete snapshot that has not expired;
\* split_cached_remote_sets gives every row to the root it is in.
LoadCached ==
    /\ pc = "sets" /\ complete
    /\ sets' = cache /\ bare' = noMd5 /\ fromCache' = TRUE
    /\ pc' = "rows"
    /\ UNCHANGED <<trees, database, live, scanned, hashed, tombs, queues, answer, task,
                   summary, cancelled, outcome, reported, touched, budgets>>

\* remote_inventory: nothing below a pruned prefix, nothing at all of a missing root.
Listed(tree) ==
    [path \in Paths |->
        IF \E prefix \in tombs : Below(path, prefix) THEN 0 ELSE tree[path]]
OnlyRoot(tree) == [path \in Paths |-> IF path = <<>> THEN tree[path] ELSE 0]
FilesIn(inv) == { entry \in Roots \X Files : inv[entry[1]][entry[2]] # 0 }

LoadFresh ==
    /\ pc = "sets"
    /\ sets' = [root \in Roots |-> Listed(remote[root])]
    /\ \/ bare' = {} /\ UNCHANGED budgets
       \/ /\ "no_md5" \in Faults /\ faults < MaxFaults /\ bare' = FilesIn(sets')
          /\ settled' = FALSE /\ UNCHANGED faults
    /\ fromCache' = FALSE
    /\ pc' = "rows"
    /\ UNCHANGED <<trees, database, live, scanned, hashed, tombs, queues, answer, task,
                   summary, cancelled, outcome, reported, touched>>

\* A directory, or the root, is removed while the root is listed: NotFound, and only
\* the root is kept.
ListingNotFound(root, dir) ==
    /\ pc = "sets" /\ remote[root][dir] # 0 /\ Fault("external")
    /\ remote' = [remote EXCEPT ![root] = Without(@, dir)]
    /\ touched' = touched \cup { path \in Paths : Covers(dir, path) }
    /\ sets' = [r \in Roots |-> IF r = root THEN OnlyRoot(remote[r]) ELSE Listed(remote[r])]
    /\ bare' = {} /\ fromCache' = FALSE
    /\ pc' = "rows"
    /\ UNCHANGED <<local, last, database, live, scanned, hashed, tombs, queues, answer, task,
                   summary, cancelled, outcome, reported>>

\* An error of the database becomes a stop error here.
LoadFails(kind) ==
    /\ pc = "sets" /\ kind \in {"transient", "stop", "database"} /\ Fault(kind)
    /\ complete' = FALSE
    /\ IF kind = "transient" THEN PartialFailRoot ELSE FailRoot
    /\ UNCHANGED <<trees, record, rows, plan, tombs, inventory, answer, task, cancelled,
                   outcome, reported, touched>>

\* record_remote_resources: replace_remote_resources_for_root, then the status, also
\* when the sets came from the cache.
RecordRows ==
    /\ pc = "rows"
    /\ cache' = sets /\ noMd5' = bare
    /\ pc' = "status"
    /\ UNCHANGED <<trees, record, complete, plan, tombs, inventory, queues, answer, task,
                   summary, cancelled, outcome, reported, touched, budgets>>

RecordStatus ==
    /\ pc = "status"
    /\ complete' = TRUE
    /\ pc' = "top"
    /\ UNCHANGED <<trees, record, rows, plan, tombs, inventory, queues, answer, task, summary,
                   cancelled, outcome, reported, touched, budgets>>

-----------------------------------------------------------------------------
(* Requests, the top-level move and the directories.                         *)

\* A request to the disk: it takes effect, is rejected, or fails, and after a
\* timeout it may have taken effect all the same, also when a retry or a poll then
\* ends with an error that stops the run.
Request(possible, effect) ==
    /\ answer = "none"
    /\ \/ possible /\ remote' = effect /\ answer' = "ok" /\ UNCHANGED budgets
       \/ ~possible /\ answer' = "fail" /\ UNCHANGED <<remote, budgets>>
       \/ /\ \/ Fault("transient") /\ answer' = "fail"
             \/ Fault("stop") /\ answer' = "stop"
          /\ remote' \in {remote, IF possible THEN effect ELSE remote}
    /\ UNCHANGED <<local, last, database, pc, plan, tombs, inventory, queues, task, summary,
                   cancelled, outcome, reported, touched>>

\* move_resource with overwrite = false.
CanMove(root, path) ==
    /\ remote[root][path] # 0 /\ remote[0][path] = 0
    /\ path = <<>> \/ remote[0][Parent(path)] # 0
Moved(root, path) ==
    [remote EXCEPT
        ![0] = [p \in Paths |-> IF Covers(path, p) THEN remote[root][p] ELSE @[p]],
        ![root] = Without(@, path)]

\* record_migration_failure, and the failed_files that its callers count.
MigrationFailure == failed' = TRUE /\ UNCHANGED <<hard, stopping>>

First(roots) == CHOOSE root \in roots : \A other \in roots : root <= other
PresentLegacies == { root \in Legacies : sets[root][<<>>] # 0 }
TopMovePossible == ~cancelled /\ sets[0] = Empty /\ PresentLegacies # {}

\* The start of apply_merge_moves: the root and the live directories that the
\* inventory lacks.
EnterDirs(canonical) ==
    IF cancelled
    THEN Finish
    ELSE /\ pc' = "dirs"
         /\ todo' = ({<<>>} \cup (live \cap Dirs)) \ In(canonical)
         /\ UNCHANGED <<adopting, batch, deletes>>

NoTopMove ==
    /\ pc = "top" /\ answer = "none" /\ ~TopMovePossible
    /\ EnterDirs(sets[0])
    /\ UNCHANGED <<trees, database, plan, tombs, inventory, answer, task, summary, cancelled,
                   outcome, reported, touched, budgets>>

SendTopMove ==
    /\ pc = "top" /\ TopMovePossible
    /\ LET root == First(PresentLegacies)
       IN  Request(CanMove(root, <<>>), Moved(root, <<>>))

JoinTopMove ==
    /\ pc = "top" /\ answer # "none"
    /\ answer' = "none"
    /\ CASE answer = "ok" -> pc' = "relist" /\ UNCHANGED <<queues, summary>>
         [] answer = "fail" -> EnterDirs(sets[0]) /\ MigrationFailure
         [] answer = "stop" -> Finish /\ MigrationFailure
    /\ UNCHANGED <<trees, database, plan, tombs, inventory, task, cancelled, outcome,
                   reported, touched, budgets>>

\* The canonical tree is listed again, whole, and the moved inventory cleared; the
\* rows in the database stay as they are.
Relist ==
    /\ pc = "relist"
    /\ sets' = [sets EXCEPT ![0] = remote[0], ![First(PresentLegacies)] = Empty]
    /\ bare' = { entry \in bare : entry[1] \notin {0, First(PresentLegacies)} }
    /\ EnterDirs(remote[0])
    /\ UNCHANGED <<trees, database, plan, tombs, answer, task, summary, cancelled, outcome,
                   reported, touched, budgets>>

\* Mutant: the directories are created children first.
DeepestDir == CHOOSE dir \in todo : \A other \in todo : Len(dir) >= Len(other)

\* ensure_directory, parents first.
NextDir == CHOOSE dir \in todo : \A other \in todo : Len(dir) <= Len(other)

SendCreate ==
    /\ pc = "dirs" /\ todo # {} /\ ~cancelled
    /\ Request(NextDir = <<>> \/ remote[0][Parent(NextDir)] # 0,
               [remote EXCEPT ![0][NextDir] = 1])

JoinCreate ==
    /\ pc = "dirs" /\ answer = "ok"
    /\ sets' = [sets EXCEPT ![0][NextDir] = 1]
    /\ todo' = todo \ {NextDir}
    /\ answer' = "none"
    /\ UNCHANGED <<trees, database, pc, plan, tombs, bare, adopting, batch, deletes, task,
                   summary, cancelled, outcome, reported, touched, budgets>>

\* create_directory_operation passes its error on: the run is over.
CreateFails ==
    /\ pc = "dirs" /\ answer \in {"fail", "stop"}
    /\ RunFails
    /\ UNCHANGED <<database, budgets>>

EndDirs ==
    /\ pc = "dirs" /\ answer = "none" /\ (todo = {} \/ cancelled)
    /\ IF cancelled
       THEN Finish
       ELSE pc' = "merge" /\ todo' = live \cap Files /\ UNCHANGED <<adopting, batch, deletes>>
    /\ UNCHANGED <<trees, database, plan, tombs, inventory, answer, task, summary, cancelled,
                   outcome, reported, touched, budgets>>

\* An error in ensure_parent_directories, or in the listing after the move.
ParentOrListingFails(kind) ==
    /\ kind \in {"transient", "stop"} /\ Fault(kind)
    /\ \/ pc = "relist"
       \/ pc = "top" /\ TopMovePossible /\ answer = "none"
    /\ RunFails
    /\ UNCHANGED database

-----------------------------------------------------------------------------
(* Comparison, merge moves, adoption.                                        *)

FirstFile(files) == Order[CHOOSE n \in 1..Len(Order) :
                            Order[n] \in files /\ \A m \in 1..n - 1 : Order[m] \notin files]
NextFile == FirstFile(todo)

SameSize(root, file) ==
    \/ file \in SizeOnly
    \/ sets[root][file] = scanned[file]
    \/ sets[root][file] = Foreign /\ scanned[file] = 1

\* skippable_local_processing_error: a missing local file is skipped, whatever else
\* per_file_processing_error names has failed.
ProcessingError(file) == IF Visible(file) = 0 THEN "skipped" ELSE "failed"
Unreadable(root, file) == Visible(file) = 0 \/ remote[root][file] = 0

\* Mutant: files of any size are compared by size only.
ComparedBySize(root, file) == IF SameSize(root, file) THEN "matches" ELSE "differs"

\* remote_matches_local: the size alone above full_hash_max_bytes, the md5 of a
\* smaller file, and without md5 the two contents as they are now.
Comparison(root, file) ==
    IF file \in SizeOnly THEN "matches"
    ELSE IF ~SameSize(root, file) THEN "differs"
    ELSE IF <<root, file>> \notin bare
         THEN IF file \in hashed /\ sets[root][file] = scanned[file] THEN "matches" ELSE "differs"
    ELSE IF Unreadable(root, file) THEN ProcessingError(file)
    ELSE IF remote[root][file] = Visible(file) THEN "matches" ELSE "differs"

Downloads(root, file) ==
    file \notin SizeOnly /\ SameSize(root, file) /\ <<root, file>> \in bare

FileStateRecord(file, status, md5) ==
    [version |-> scanned[file], status |-> status, md5 |-> md5]

\* upsert_file_state.
FileState(states, file, status, md5) ==
    [states EXCEPT ![file] = FileStateRecord(file, status, md5)]

\* upsert_remote_resources: the canonical rows of some files, from the inventory.
UpsertRows(files) ==
    /\ cache' = [cache EXCEPT ![0] = [path \in Paths |->
                    IF path \in files THEN sets'[0][path] ELSE @[path]]]
    /\ noMd5' = { entry \in noMd5 : ~(entry[1] = 0 /\ entry[2] \in files) }
                    \cup { entry \in bare' : entry[1] = 0 /\ entry[2] \in files }

\* AdoptionBatch::flush: upsert_file_states, then the rows of the adopted files.
FlushedRecords ==
    [file \in Files |->
        IF file \in adopting
        THEN FileStateRecord(file, "synced", <<0, file>> \notin bare)
        ELSE record[file]]
Flush ==
    /\ UNCHANGED inventory
    /\ UpsertRows(adopting)
    /\ adopting' = {}

\* The skipped_items and the failed_items of the run.
MarkSkipped(paths) == reported' = reported \cup paths
MarkFailed(paths) == reported' = reported \cup paths

\* record_file_processing_failure.
ProcessingFailure(states, file, result) ==
    /\ record' = FileState(states, file, result, FALSE)
    /\ IF result = "skipped" THEN MarkSkipped({file}) ELSE MarkFailed({file})
    /\ failed' = (failed \/ result = "failed")
    /\ UNCHANGED <<hard, stopping>>

LegacyWith(file) == { root \in Legacies : sets[root][file] # 0 }

\* One file of apply_merge_moves.
MergeReady == pc = "merge" /\ answer = "none" /\ todo # {} /\ ~cancelled
Merges(file) == sets[0][file] = 0 /\ LegacyWith(file) # {}

MergeSkips ==
    /\ MergeReady
    /\ Merges(NextFile) => Comparison(First(LegacyWith(NextFile)), NextFile) = "differs"
    /\ todo' = todo \ {NextFile}
    /\ UNCHANGED <<trees, database, pc, plan, tombs, inventory, answer, adopting, batch,
                   deletes, task, summary, cancelled, outcome, reported, touched, budgets>>

MergeComparisonFails ==
    /\ MergeReady /\ Merges(NextFile)
    /\ LET root == First(LegacyWith(NextFile))
       IN  \/ /\ Comparison(root, NextFile) \in {"skipped", "failed"}
              /\ ProcessingFailure(record, NextFile, Comparison(root, NextFile))
              /\ UNCHANGED budgets
           \/ /\ Downloads(root, NextFile) /\ Fault("transient")
              /\ ProcessingFailure(record, NextFile, "failed")
    /\ todo' = todo \ {NextFile}
    /\ UNCHANGED <<trees, rows, complete, pc, plan, tombs, inventory, answer, adopting, batch,
                   deletes, task, cancelled, outcome, touched>>

SendMergeMove ==
    /\ MergeReady /\ Merges(NextFile)
    /\ LET root == First(LegacyWith(NextFile))
       IN  /\ Comparison(root, NextFile) = "matches"
           /\ Request(CanMove(root, NextFile), Moved(root, NextFile))

JoinMergeMove ==
    /\ pc = "merge" /\ answer # "none"
    /\ LET root == First(LegacyWith(NextFile))
       IN  CASE answer = "ok" ->
                  /\ sets' = [sets EXCEPT ![0][NextFile] = sets[root][NextFile],
                                          ![root][NextFile] = 0]
                  /\ bare' = { IF entry = <<root, NextFile>> THEN <<0, NextFile>> ELSE entry :
                                 entry \in bare }
                  /\ todo' = todo \ {NextFile}
                  /\ UNCHANGED <<pc, adopting, batch, deletes, summary>>
             [] answer = "fail" ->
                  /\ todo' = todo \ {NextFile} /\ MigrationFailure
                  /\ UNCHANGED <<pc, inventory, adopting, batch, deletes>>
             [] answer = "stop" -> Finish /\ MigrationFailure /\ UNCHANGED inventory
    /\ answer' = "none"
    /\ UNCHANGED <<trees, database, plan, tombs, task, cancelled, outcome, reported, touched, budgets>>

EndMerge ==
    /\ pc = "merge" /\ answer = "none" /\ (todo = {} \/ cancelled)
    /\ IF cancelled
       THEN Finish
       ELSE pc' = "adopt" /\ todo' = live \cap Files /\ UNCHANGED <<adopting, batch, deletes>>
    /\ UNCHANGED <<trees, database, plan, tombs, inventory, answer, task, summary, cancelled,
                   outcome, reported, touched, budgets>>

\* can_resume_synced_file.
CanResume(file) ==
    /\ record[file].status = "synced" /\ record[file].version = scanned[file]
    /\ file \in SizeOnly
       \/ (sets[0][file] = scanned[file] /\ <<0, file>> \notin bare /\ file \in hashed)

\* register_missing_local_path has something to register.
NewlyGone(file) ==
    LET missing == MissingAncestors(file, LocalDirs)
    IN  missing # {} /\ ~CoveredBySome(tombs, Shortest(missing))

\* Mutant: the file itself is registered.
FilesAsTombs(files) == tombs \cup files

TombsWith(files) ==
    AddDeletedSubtrees(tombs, { Shortest(MissingAncestors(file, LocalDirs)) : file \in files })

\* One file of apply_adopt_or_upload, as far as it is there, and its canonical copy.
AdoptReady == pc = "adopt" /\ todo # {} /\ ~cancelled
Present(file) == ~CoveredBySome(tombs, file) /\ ~NewlyGone(file) /\ Visible(file) # 0
Adopts(file) == Present(file) /\ sets[0][file] # 0

\* In a deleted subtree, or resumed: nothing is written.
AdoptSkips ==
    /\ AdoptReady
    /\ \/ CoveredBySome(tombs, NextFile)
       \/ Adopts(NextFile) /\ CanResume(NextFile)
    /\ todo' = todo \ {NextFile}
    /\ UNCHANGED <<trees, database, pc, plan, tombs, inventory, answer, adopting, batch,
                   deletes, task, summary, cancelled, outcome, reported, touched, budgets>>

\* register_missing_local_path, or the file alone has gone.
AdoptFindsGone ==
    /\ AdoptReady /\ ~CoveredBySome(tombs, NextFile) /\ Visible(NextFile) = 0
    /\ Flush
    /\ IF NewlyGone(NextFile)
       THEN /\ tombs' = TombsWith({NextFile})
            /\ record' = FlushedRecords /\ UNCHANGED <<reported, summary>>
       ELSE ProcessingFailure(FlushedRecords, NextFile, "skipped") /\ UNCHANGED tombs
    /\ todo' = todo \ {NextFile}
    /\ UNCHANGED <<trees, complete, pc, plan, inventory, answer, batch, deletes, task,
                   cancelled, outcome, touched, budgets>>

\* The match joins the AdoptionBatch.
Adopt ==
    /\ AdoptReady /\ Adopts(NextFile) /\ ~CanResume(NextFile)
    /\ Comparison(0, NextFile) = "matches"
    /\ adopting' = adopting \cup {NextFile}
    /\ todo' = todo \ {NextFile}
    /\ UNCHANGED <<trees, database, pc, plan, tombs, inventory, answer, batch, deletes, task,
                   summary, cancelled, outcome, reported, touched, budgets>>

AdoptComparisonFails ==
    /\ AdoptReady /\ Adopts(NextFile) /\ ~CanResume(NextFile)
    /\ \/ Comparison(0, NextFile) = "failed" /\ UNCHANGED budgets
       \/ Downloads(0, NextFile) /\ Fault("transient")
    /\ Flush
    /\ ProcessingFailure(FlushedRecords, NextFile, "failed")
    /\ todo' = todo \ {NextFile}
    /\ UNCHANGED <<trees, complete, pc, plan, tombs, inventory, answer, batch, deletes, task,
                   cancelled, outcome, touched>>

\* Everything else is uploaded: the file waits in upload_batch until it is full.
MustUpload(file) ==
    /\ Present(file)
    /\ sets[0][file] # 0 => ~CanResume(file) /\ Comparison(0, file) = "differs"

QueueUpload ==
    /\ AdoptReady /\ MustUpload(NextFile)
    /\ Flush /\ record' = FlushedRecords
    /\ batch' = batch \cup {NextFile}
    /\ todo' = todo \ {NextFile}
    /\ pc' = IF Cardinality(batch') >= Concurrency THEN "upload" ELSE "adopt"
    /\ UNCHANGED <<trees, complete, plan, tombs, inventory, answer, deletes, task, summary,
                   cancelled, outcome, reported, touched, budgets>>

\* The planned bytes exceed what disk_info said is free: the root fails.
QuotaExceeded ==
    /\ AdoptReady /\ MustUpload(NextFile) /\ Fault("quota")
    /\ Flush /\ record' = FlushedRecords
    /\ FailRoot
    /\ UNCHANGED <<trees, complete, plan, tombs, inventory, answer, task, cancelled, outcome,
                   reported, touched>>

\* Mutant: only the files of a legacy root are deleted.
LegacyFileDeletes(root) == In(sets[root]) \cap Files

\* collect_coalesced_delete_operations for the canonical root,
\* collect_legacy_delete_candidates for every legacy root: what is listed below it,
\* directories as a whole.
LegacyDeletes(root) ==
    { path \in In(sets[root]) \ {<<>>} :
        ~\E dir \in (In(sets[root]) \cap Dirs) \ {<<>>} : Below(path, dir) }
DeleteCandidates ==
    ({0} \X CoalescedDeletes(KnownLive(live \cap Dirs, live \cap Files, tombs), In(sets[0])))
    \cup UNION { {root} \X LegacyDeletes(root) : root \in Legacies }

EnterDeletes ==
    IF cancelled
    THEN Finish
    ELSE /\ pc' = "delete" /\ deletes' = DeleteCandidates
         /\ UNCHANGED <<todo, batch>>

\* The end of the loop: the batches that are left are flushed and uploaded.  A
\* cancelled run flushes the adoptions and drops the uploads.
EndAdopt ==
    /\ pc = "adopt" /\ (todo = {} \/ cancelled)
    /\ Flush /\ record' = FlushedRecords
    /\ IF todo = {} /\ batch # {}
       THEN pc' = "upload" /\ UNCHANGED <<todo, batch, deletes>>
       ELSE EnterDeletes
    /\ UNCHANGED <<trees, complete, plan, tombs, inventory, answer, task, summary, cancelled,
                   outcome, reported, touched, budgets>>

-----------------------------------------------------------------------------
(* Uploads and deletes.                                                      *)

Uploading == task # NoTasks

\* take_migration_upload_batch: of the files from large_file_name_size_only_min_bytes
\* on, one at a time; the others of them wait.
Scheduled ==
    LET large == batch \cap Large
    IN  (batch \ large) \cup (IF large = {} THEN {} ELSE {FirstFile(large)})

\* apply_migration_upload_batch schedules what it takes from the batch.
StartUploads ==
    /\ pc = "upload" /\ batch # {} /\ ~Uploading
    /\ LET known == { file \in Scheduled : ~CoveredBySome(tombs, file) }
           gone == { file \in known : NewlyGone(file) }
       IN  /\ tombs' = TombsWith(gone)
           /\ task' = [file \in Files |-> IF file \in known \ gone THEN "queued" ELSE "none"]
    /\ batch' = batch \ Scheduled
    /\ UNCHANGED <<trees, database, pc, plan, inventory, todo, adopting, deletes, answer,
                   summary, cancelled, outcome, reported, touched, budgets>>

Answered(file, result) == task' = [task EXCEPT ![file] = result]
Uploaded(file) == [remote EXCEPT ![0][file] = Visible(file)]

\* migration_upload_task: cancelled, done, rejected, or failed with or without effect.
Upload(file) ==
    /\ task[file] = "queued"
    /\ LET possible == Visible(file) # 0 /\ remote[0][Parent(file)] # 0
       IN  \/ cancelled /\ Answered(file, "stop") /\ UNCHANGED <<remote, budgets>>
           \/ /\ possible /\ remote' = Uploaded(file)
              /\ Answered(file, "ok") /\ UNCHANGED budgets
           \/ /\ ~possible /\ Answered(file, IF Visible(file) = 0 THEN "skip" ELSE "fail")
              /\ UNCHANGED <<remote, budgets>>
           \/ /\ \/ Fault("transient") /\ Answered(file, "fail")
                 \/ Fault("stop") /\ Answered(file, "stop")
                 \/ Fault("conflict") /\ Answered(file, "skip")
              /\ remote' \in {remote, IF possible THEN Uploaded(file) ELSE remote}
    /\ UNCHANGED <<local, last, database, pc, plan, tombs, inventory, queues, answer, summary,
                   cancelled, outcome, reported, touched>>

\* file_status_after_upload.
StatusAfterUpload(file) == IF Visible(file) = scanned[file] THEN "synced" ELSE "changed"

JoinUpload(file) ==
    /\ task[file] \notin {"none", "queued"}
    /\ Answered(file, "none")
    /\ CASE task[file] = "ok" ->
              /\ record' = FileState(record, file, StatusAfterUpload(file), file \in hashed)
              /\ sets' = [sets EXCEPT ![0][file] = scanned[file]]
              /\ bare' = (bare \ {<<0, file>>})
                             \cup (IF file \in hashed THEN {} ELSE {<<0, file>>})
              /\ UpsertRows({file})
              /\ UNCHANGED <<tombs, summary, reported>>
         [] task[file] # "ok" /\ NewlyGone(file) ->
              /\ tombs' = TombsWith({file})
              /\ UNCHANGED <<record, rows, inventory, summary, reported>>
         [] task[file] = "skip" /\ ~NewlyGone(file) ->
              /\ record' = FileState(record, file, "skipped", FALSE)
              /\ MarkSkipped({file})
              /\ UNCHANGED <<rows, inventory, tombs, summary>>
         [] task[file] \in {"fail", "stop"} /\ ~NewlyGone(file) ->
              /\ failed' = TRUE /\ stopping' = (stopping \/ task[file] = "stop")
              /\ MarkFailed({file})
              /\ UNCHANGED <<record, rows, inventory, tombs, hard>>
    /\ UNCHANGED <<trees, complete, pc, plan, queues, answer, cancelled, outcome, touched, budgets>>

\* Every upload of the batch is joined before a stop error ends the phase.
EndUploads ==
    /\ pc = "upload" /\ batch = {} /\ ~Uploading
    /\ CASE stopping -> Finish
         [] ~stopping /\ todo # {} -> pc' = "adopt" /\ UNCHANGED <<todo, adopting, batch, deletes>>
         [] ~stopping /\ todo = {} -> EnterDeletes /\ UNCHANGED adopting
    /\ UNCHANGED <<trees, database, plan, tombs, inventory, answer, task, summary, cancelled,
                   outcome, reported, touched, budgets>>

\* The deepest first.
NextDelete == CHOOSE d \in deletes : \A other \in deletes : Len(other[2]) <= Len(d[2])
DeleteReady == pc = "delete" /\ deletes # {} /\ answer = "none" /\ ~cancelled

\* delete_remote_resource_subtree.
RowsWithout(root, path) ==
    /\ cache' = [cache EXCEPT ![root] = Without(@, path)]
    /\ noMd5' = { entry \in noMd5 : ~(entry[1] = root /\ Covers(path, entry[2])) }

\* With cached sets, the metadata are asked first; NotFound only clears the rows.
CheckDelete ==
    /\ DeleteReady /\ fromCache
    /\ \/ /\ remote[NextDelete[1]][NextDelete[2]] = 0
          /\ RowsWithout(NextDelete[1], NextDelete[2])
          /\ deletes' = deletes \ {NextDelete}
          /\ UNCHANGED <<pc, todo, adopting, batch, summary, budgets>>
       \/ /\ Fault("transient") /\ failed' = TRUE
          /\ deletes' = deletes \ {NextDelete}
          /\ UNCHANGED <<pc, rows, todo, adopting, batch, hard, stopping>>
       \/ /\ Fault("stop") /\ failed' = TRUE /\ Finish
          /\ UNCHANGED <<rows, hard, stopping>>
    /\ UNCHANGED <<trees, record, complete, plan, tombs, inventory, answer, task, cancelled,
                   outcome, reported, touched>>

\* delete_permanently; NotFound counts as success.
SendDelete ==
    /\ DeleteReady
    /\ fromCache => remote[NextDelete[1]][NextDelete[2]] # 0
    /\ Request(TRUE, [remote EXCEPT ![NextDelete[1]] = Without(@, NextDelete[2])])

\* mark_deleted goes by the relative path, whichever root the file was deleted from.
MarkDeleted(path) ==
    [file \in Files |->
        IF file = path THEN [record[file] EXCEPT !.status = "deleted"] ELSE record[file]]

JoinDelete ==
    /\ pc = "delete" /\ answer # "none"
    /\ CASE answer = "ok" ->
              /\ record' = MarkDeleted(NextDelete[2])
              /\ RowsWithout(NextDelete[1], NextDelete[2])
              /\ deletes' = deletes \ {NextDelete}
              /\ UNCHANGED <<pc, todo, adopting, batch, summary>>
         [] answer = "fail" ->
              /\ failed' = TRUE /\ deletes' = deletes \ {NextDelete}
              /\ UNCHANGED <<pc, record, rows, todo, adopting, batch, hard, stopping>>
         [] answer = "stop" ->
              /\ failed' = TRUE /\ Finish
              /\ UNCHANGED <<record, rows, hard, stopping>>
    /\ answer' = "none"
    /\ UNCHANGED <<trees, complete, plan, tombs, inventory, task, cancelled, outcome, reported,
                   touched, budgets>>

EndDeletes ==
    /\ pc = "delete" /\ answer = "none" /\ (deletes = {} \/ cancelled)
    /\ Finish
    /\ UNCHANGED <<trees, database, plan, tombs, inventory, answer, task, summary, cancelled,
                   outcome, reported, touched, budgets>>

-----------------------------------------------------------------------------
(* The environment.                                                          *)

Edit(changed) ==
    /\ Fault("edit")
    /\ touched' = touched \cup changed
    /\ UNCHANGED <<remote, database, pc, plan, tombs, inventory, queues, answer, task, summary,
                   cancelled, outcome, reported>>

WriteLocal(file) ==
    /\ Visible(<<>>) # 0 /\ Ancestors(file) \subseteq LocalDirs /\ last[file] < MaxVersion
    /\ local' = [local EXCEPT ![file] = last[file] + 1]
    /\ last' = [last EXCEPT ![file] = last[file] + 1]
    /\ Edit({file})

RemoveLocal(path) ==
    /\ Visible(path) # 0 /\ path # <<>>
    /\ local' = Without(local, path)
    /\ UNCHANGED last
    /\ Edit({ p \in Paths : Covers(path, p) })

\* The volume of the root goes away and comes back.
Unmount ==
    /\ local[<<>>] # 0 /\ Fault("unmount")
    /\ local' = [local EXCEPT ![<<>>] = 0]
    /\ touched' = Paths
    /\ UNCHANGED <<last, remote, database, pc, plan, tombs, inventory, queues, answer, task,
                   summary, cancelled, outcome, reported>>

Mount ==
    /\ local[<<>>] = 0
    /\ local' = [local EXCEPT ![<<>>] = 1]
    /\ touched' = Paths
    /\ UNCHANGED <<last, remote, database, pc, plan, tombs, inventory, queues, answer, task,
                   summary, cancelled, outcome, reported, budgets>>

RemoveRemote(root, path) ==
    /\ remote[root][path] # 0 /\ Fault("external")
    /\ remote' = [remote EXCEPT ![root] = Without(@, path)]
    /\ touched' = touched \cup { p \in Paths : Covers(path, p) }
    /\ UNCHANGED <<local, last, database, pc, plan, tombs, inventory, queues, answer, task,
                   summary, cancelled, outcome, reported>>

Cancel ==
    /\ pc # "idle" /\ ~cancelled /\ Fault("cancel")
    /\ cancelled' = TRUE
    /\ UNCHANGED <<trees, database, pc, plan, tombs, inventory, queues, answer, task, summary,
                   outcome, reported, touched>>

\* The process dies, or a statement fails: at any moment, between the records and the
\* rows of a flush, and between the record and the row of an upload.
Interrupted(kind) ==
    /\ pc # "idle" /\ kind \in {"crash", "database"} /\ Fault(kind)
    /\ \/ UNCHANGED record
       \/ pc = "adopt" /\ adopting # {} /\ record' = FlushedRecords
       \/ \E file \in Files :
             /\ task[file] = "ok"
             /\ record' = FileState(record, file, StatusAfterUpload(file), file \in hashed)
    /\ Dropped /\ EndRun
    /\ outcome' = IF kind = "crash" THEN "none" ELSE "failed"
    /\ UNCHANGED <<local, last, rows, complete, touched>>

-----------------------------------------------------------------------------

ScanSteps ==
    \/ \E unreadable \in SUBSET LocalDirs, busy \in SUBSET Files : Scan(unreadable, busy)
    \/ BuildLivePlan \/ LoadCached \/ LoadFresh \/ RecordRows \/ RecordStatus

MoveSteps ==
    \/ NoTopMove \/ SendTopMove \/ JoinTopMove \/ Relist
    \/ SendCreate \/ JoinCreate \/ CreateFails \/ EndDirs
    \/ MergeSkips \/ MergeComparisonFails \/ SendMergeMove \/ JoinMergeMove \/ EndMerge

UploadSteps ==
    \/ AdoptSkips \/ AdoptFindsGone \/ Adopt \/ AdoptComparisonFails \/ QueueUpload
    \/ EndAdopt \/ StartUploads \/ EndUploads
    \/ \E file \in Files : Upload(file) \/ JoinUpload(file)

DeleteSteps == CheckDelete \/ SendDelete \/ JoinDelete \/ EndDeletes

EngineSteps == ScanSteps \/ MoveSteps \/ UploadSteps \/ DeleteSteps \/ FinishRun

FaultSteps ==
    \/ CollisionFails \/ QuotaExceeded \/ Cancel \/ Unmount \/ Mount
    \/ \E kind \in FaultKinds : LoadFails(kind) \/ ParentOrListingFails(kind) \/ Interrupted(kind)
    \/ \E root \in Roots, dir \in Dirs : ListingNotFound(root, dir)
    \/ \E root \in Roots, path \in Paths : RemoveRemote(root, path)

EditSteps == (\E file \in Files : WriteLocal(file)) \/ (\E path \in Paths : RemoveLocal(path))

Next == StartRun \/ RecordMissingRoot \/ EngineSteps \/ FaultSteps \/ EditSteps

Spec == Init /\ [][Next]_vars

FairSpec == Spec /\ WF_vars(EngineSteps)

-----------------------------------------------------------------------------
(* Properties.                                                               *)

\* The content of a file up to full_hash_max_bytes, the presence of a larger one or
\* of a directory.
Mirrored(path) ==
    IF path \in Files \ SizeOnly THEN remote[0][path] = Visible(path)
    ELSE (remote[0][path] = 0) = (Visible(path) = 0)

\* A record that adoption or upload wrote tells the truth: if it has the size and
\* mtime of the local file and the canonical copy is there, the two are equal.
AdoptedMeansEqual ==
    \A file \in Files \ SizeOnly :
        /\ record[file].status \in {"synced", "changed"}
        /\ local[file] # 0 /\ record[file].version = local[file]
        /\ remote[0][file] # 0
        => remote[0][file] = local[file]

\* apply_deletes never takes the last copy: the canonical copy of what has been there
\* since the scan stays, and a legacy copy goes only when its file is in its canonical
\* place or has been reported as skipped or failed.
DeletesOnlyReplaced ==
    [][\A root \in Roots, path \in Paths :
          /\ pc = "delete" /\ ~fromCache
          /\ remote[root][path] # 0 /\ remote'[root][path] = 0
          /\ Visible(path) # 0 /\ path \notin touched' \cup reported
          => root # 0 /\ Mirrored(path)]_vars

\* A run over fresh listings that succeeds with nothing changed under it leaves the
\* mirror in the canonical place, nothing in the legacy ones, and the database as the
\* sync engine needs it: a row and a record for each file.  Only the paths that the
\* run has reported as skipped are excepted.
SuccessHandsOver ==
    [][pc = "finish" /\ outcome' = "succeeded" /\ ~fromCache /\ touched = {} =>
          /\ \A path \in Paths \ reported : Mirrored(path)
          /\ \A root \in Legacies : In(remote[root]) \subseteq {<<>>}
          /\ complete /\ In(cache[0]) \subseteq In(remote[0])
          /\ \A file \in Files \ reported :
                Visible(file) # 0 => record[file].version = local[file] /\ cache[0][file] # 0]_vars

\* docs/migration.md: a repeated run after a successful migration changes nothing on the
\* disk, also from the rows that the moves left behind, and with a file in the tree it
\* succeeds again.  It uploads no file whose record has the md5 of its copy.
RerunIsNoOp ==
    [][settled /\ faults' = faults =>
          /\ remote' = remote
          /\ pc = "finish" /\ (\E file \in Files : Visible(file) # 0) => outcome' = "succeeded"
          /\ \A file \in Files : task'[file] = "queued" => ~record[file].md5]_vars

\* Whatever earlier runs and their faults left behind, a run that has listed the disk
\* afresh completes the migration, unless something happens to it: the mirror is in
\* place and the legacy trees are gone.
FreshRunCompletes ==
    \A n \in 0..MaxFaults :
        /\ pc = "rows" /\ ~fromCache /\ touched = {} /\ ~failed /\ ~cancelled /\ faults = n
        ~> \/ faults # n
           \/ /\ pc = "finish" /\ ~failed
              /\ \A path \in Paths \ reported : Mirrored(path)
              /\ \A root \in Legacies : In(remote[root]) \subseteq {<<>>}

=============================================================================
