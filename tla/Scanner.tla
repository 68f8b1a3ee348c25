------------------------------- MODULE Scanner -------------------------------
(***************************************************************************)
(* Scanner::scan_root: threads walk the tree side by side, read, back up     *)
(* and fingerprint files that other programs write meanwhile, and push what  *)
(* they find into one report.  Around it, what the two engines do with the   *)
(* report's staging copies: upload from them, and remove them.               *)
(*                                                                         *)
(* A plain file has a content and a stat (size and mtime); every write gives  *)
(* it a new pair.  A SQLite database also has commits that only reach its     *)
(* WAL: they change what a backup reads and leave the stat of the file alone. *)
(* Paths are those of module MirrorPlan; directories are there for good.     *)
(***************************************************************************)
EXTENDS MirrorPlan, FiniteSets

CONSTANTS
    Threads,        \* effective_scan_concurrency
    Dirs, Files,
    Excluded,       \* paths an ExclusionMatcher excludes
    Sqlite,         \* is_sqlite_candidate
    Oversized,      \* <<file, stat>>: over max_file_size_bytes
    Unhashed,       \* <<file, stat>>: over full_hash_max_bytes
    Pages,          \* of a database, in units of SQLITE_BACKUP_PAGES_PER_STEP
    TotalTimeout,   \* SQLITE_BACKUP_TOTAL_TIMEOUT in backup steps
    IdleTimeout,    \* SQLITE_BACKUP_NO_PROGRESS_TIMEOUT in backup steps
    Edited,         \* files other programs make, write and remove
    MaxWrites,      \* bound on the writes that change a stat
    Faults, MaxFaults

Paths == Dirs \cup Files

FaultKinds ==
    { "unreadable",      \* a directory cannot be read
      "busy",            \* a file or database cannot be opened or read
      "staged",          \* the staging copy cannot be read
      "sync_early",      \* the sync engine ends a root before its uploads: a collision
                         \* of names, a failed inventory, the quota
      "migration_early", \* the same for the migration engine
      "stop",            \* cancelled, or a failed directory creation
      "upload",          \* an upload fails
      "unlink",          \* cleanup_staging_files cannot remove a copy
      "crash",           \* the process dies, or a statement of the database fails
      "external" }       \* somebody removes a file from the disk

ASSUME ScannerAssumption ==
    /\ <<>> \in Dirs \ Excluded /\ Dirs \cap Files = {}
    /\ \A path \in Paths : path \in Seq(STRING) /\ Ancestors(path) \subseteq Dirs
    /\ Excluded \subseteq Paths /\ Sqlite \cup Edited \subseteq Files
    /\ Oversized \cup Unhashed \subseteq Files \X Nat
    /\ Pages \in Nat \ {0} /\ TotalTimeout \in Nat \ {0} /\ IdleTimeout \in Nat \ {0}
    /\ MaxWrites \in Nat \ {0} /\ MaxFaults \in Nat /\ Faults \subseteq FaultKinds

VARIABLES
    \* the local tree
    stat,       \* size and mtime of each file as a number, 0 if it is not there
    data,       \* its content
    writes,
    \* what the runs leave
    record,     \* file_state: stat and fingerprint
    remote,     \* the content on Yandex Disk, 0 if there is none
    stray,      \* a staging copy is left that no run knows of
    \* the run
    pc,
    queue,      \* entries the walk has found and not yet handed out
    worker,     \* what each thread is at
    found,      \* the ScanReport: where each path is listed
    entry,      \* the LocalFileEntry of each file
    unread,     \* directories for which the walk reported an error
    staged,     \* the content of the staging copy of each file, 0 if there is none
    todo,       \* uploads to do
    \* history
    calm,       \* paths nobody has touched since the scan began
    seen        \* faults that have happened

tree == <<stat, data, writes>>
lasting == <<record, remote, stray>>
scan == <<queue, worker, found, entry, unread, staged>>
vars == <<tree, lasting, pc, scan, todo, calm, seen>>

Numbers == 0..MaxWrites + 2
\* What a reader gets of a file that is written while it is read.
Torn == MaxWrites + 2

NoEntry == [stat |-> 0, hash |-> 0, reused |-> FALSE]
Free == [step |-> "free", path |-> <<>>, stat |-> 0, begun |-> 0,
         left |-> Pages, elapsed |-> 0, idle |-> 0, dirty |-> FALSE]

TypeOK ==
    /\ stat \in [Files -> Numbers] /\ data \in [Files -> Numbers] /\ writes \in 1..MaxWrites + 1
    /\ record \in [Files -> [stat : Numbers, hash : Numbers]]
    /\ remote \in [Files -> Numbers] /\ stray \in BOOLEAN
    /\ pc \in {"idle", "scan", "plan", "upload", "cleanup"}
    /\ queue \subseteq Paths
    /\ worker \in [Threads ->
          [step : {"free", "backup", "hash", "read"}, path : Paths, stat : Numbers,
           begun : Numbers, left : 0..Pages, elapsed : 0..TotalTimeout - 1,
           idle : 0..IdleTimeout - 1, dirty : BOOLEAN]]
    /\ found \in [Paths -> {"none", "file", "directory", "skipped", "failed"}]
    /\ entry \in [Files -> [stat : Numbers, hash : Numbers, reused : BOOLEAN]]
    /\ unread \subseteq Dirs /\ staged \in [Files -> Numbers] /\ todo \subseteq Files
    /\ calm \subseteq Paths /\ seen \subseteq Faults

Fault(kind) ==
    /\ kind \in Faults \ seen /\ Cardinality(seen) < MaxFaults
    /\ seen' = seen \cup {kind}

NothingStaged == [file \in Files |-> 0]

Init ==
    /\ \E absent \in SUBSET (Edited \ Sqlite) : stat = [file \in Files |-> IF file \in absent THEN 0 ELSE 1]
    /\ data = stat /\ writes = 1
    /\ record = [file \in Files |-> [stat |-> 0, hash |-> 0]]
    /\ remote = [file \in Files |-> 0] /\ stray = FALSE
    /\ pc = "idle"
    /\ queue = {} /\ worker = [t \in Threads |-> Free]
    /\ found = [path \in Paths |-> "none"] /\ entry = [file \in Files |-> NoEntry]
    /\ unread = {} /\ staged = NothingStaged /\ todo = {}
    /\ calm = {} /\ seen = {}

-----------------------------------------------------------------------------
(* The walk.                                                                 *)

StartScan ==
    /\ pc = "idle"
    /\ pc' = "scan" /\ queue' = {<<>>}
    /\ calm' = Dirs \cup { file \in Files : stat[file] # 0 }
    /\ UNCHANGED <<tree, lasting, worker, found, entry, unread, staged, todo, seen>>

Children(dir) ==
    { path \in Paths \ {<<>>} : SubSeq(path, 1, Len(path) - 1) = dir /\ (path \in Files => stat[path] # 0) }

Listed(path, where) == found' = [found EXCEPT ![path] = where]

Takes(t, path) == pc = "scan" /\ worker[t].step = "free" /\ path \in queue

ExclusionDecision(path) == path \in Excluded

\* An excluded entry is a skipped item; of an excluded directory nothing else is read.
VisitExcluded(t, path) ==
    /\ Takes(t, path) /\ ExclusionDecision(path)
    /\ Listed(path, "skipped")
    /\ queue' = queue \ {path}
    /\ UNCHANGED <<tree, lasting, pc, worker, entry, unread, staged, todo, calm, seen>>

\* directory_entry; the root itself is not reported.
DirectoryEntry(dir) == Listed(dir, IF dir = <<>> THEN "none" ELSE "directory")

VisitDirectory(t, dir) ==
    /\ Takes(t, dir) /\ dir \in Dirs /\ ~ExclusionDecision(dir)
    /\ DirectoryEntry(dir)
    /\ queue' = (queue \ {dir}) \cup Children(dir)
    /\ UNCHANGED <<tree, lasting, pc, worker, entry, unread, staged, todo, calm, seen>>

\* Mutant: an error ends the walk (WalkState::Quit).
WalkQuits(dir) == {}

WalkContinues(dir) == queue \ {dir}

\* The directory is reported, then reading it fails: a failed item without a path.
WalkError(t, dir) ==
    /\ Takes(t, dir) /\ dir \in Dirs /\ ~ExclusionDecision(dir) /\ Fault("unreadable")
    /\ DirectoryEntry(dir)
    /\ queue' = WalkContinues(dir)
    /\ unread' = unread \cup {dir}
    /\ UNCHANGED <<tree, lasting, pc, worker, entry, staged, todo, calm>>

\* file_entry until it has to read the file: it is gone, too large, known, or it goes
\* on with the stat it has seen.
Reusable(file) == record[file].stat = stat[file]
Skippable(file) == stat[file] = 0 \/ <<file, stat[file]>> \in Oversized

VisitFile(t, file) ==
    /\ Takes(t, file) /\ file \in Files /\ ~ExclusionDecision(file)
    /\ queue' = queue \ {file}
    /\ \/ /\ Skippable(file)
          /\ Listed(file, "skipped") /\ UNCHANGED <<worker, entry>>
       \/ /\ ~Skippable(file) /\ Reusable(file)
          /\ Listed(file, "file") /\ UNCHANGED worker
          /\ entry' = [entry EXCEPT ![file] =
                         [stat |-> stat[file], hash |-> record[file].hash, reused |-> TRUE]]
       \/ /\ ~Skippable(file) /\ ~Reusable(file)
          /\ worker' = [worker EXCEPT ![t] =
                          [Free EXCEPT !.path = file, !.stat = stat[file],
                                       !.step = IF file \in Sqlite THEN "backup" ELSE "hash"]]
          /\ UNCHANGED <<found, entry>>
    /\ UNCHANGED <<tree, lasting, pc, unread, staged, todo, calm, seen>>

-----------------------------------------------------------------------------
(* Backup and fingerprint.                                                   *)

\* A thread is done with its file, which is in the report as where.
Done(t, where) == worker' = [worker EXCEPT ![t] = Free] /\ Listed(worker[t].path, where)

\* Backup::step copies some pages; it starts over after a commit to the source, and
\* copies nothing while the source is locked.
Remaining(t, locked) ==
    IF locked THEN worker[t].left ELSE (IF worker[t].dirty THEN Pages ELSE worker[t].left) - 1

\* Mutant: only a backup without progress is given up.
NoProgress(elapsed, idle) == idle >= IdleTimeout

\* Mutant: a step too late.
TimedOutLater(elapsed, idle) == elapsed > TotalTimeout \/ idle > IdleTimeout

TimedOut(elapsed, idle) == elapsed >= TotalTimeout \/ idle >= IdleTimeout

\* backup_sqlite_to_staging: the copy has its own name and goes to the fingerprint, or
\* an incomplete one is removed and the file is a skipped item.
BackedUp(t) ==
    /\ worker' = [worker EXCEPT ![t] = [Free EXCEPT !.path = worker[t].path, !.step = "hash",
                                                    !.stat = worker[t].stat]]
    /\ staged' = [staged EXCEPT ![worker[t].path] = data[worker[t].path]]
    /\ UNCHANGED found
BackupTimesOut(t) == Done(t, "skipped") /\ UNCHANGED staged

\* One round of run_sqlite_backup_with_deadline.  The first step counts as progress.
BackupStep(t) ==
    /\ worker[t].step = "backup"
    /\ \E locked \in BOOLEAN :
          LET left == Remaining(t, locked)
              elapsed == worker[t].elapsed + 1
              idle == IF left # worker[t].left \/ elapsed = 1 THEN 0 ELSE worker[t].idle + 1
          IN  \/ left = 0 /\ BackedUp(t)
              \/ left # 0 /\ TimedOut(elapsed, idle) /\ BackupTimesOut(t)
              \/ /\ left # 0 /\ ~TimedOut(elapsed, idle)
                 /\ worker' = [worker EXCEPT
                        ![t].left = left, ![t].idle = idle,
                        ![t].elapsed = IF elapsed < TotalTimeout THEN elapsed ELSE @,
                        ![t].dirty = @ /\ locked]
                 /\ UNCHANGED <<staged, found>>
    /\ UNCHANGED <<tree, lasting, pc, queue, entry, unread, todo, calm, seen>>

\* Mutant: the stat is read after the content.
StatAfterRead(t) == stat[worker[t].path]

StatBeforeRead(t) == worker[t].stat

Fingerprint(t, hash) ==
    /\ Done(t, "file")
    /\ entry' = [entry EXCEPT ![worker[t].path] =
                   [stat |-> StatBeforeRead(t), hash |-> hash, reused |-> FALSE]]

Large(t) == <<worker[t].path, worker[t].stat>> \in Unhashed

\* fingerprint_path: metadata for a large file (hash 0), else the hash of the staging
\* copy, which nobody writes.
FingerprintAtOnce(t) ==
    /\ worker[t].step = "hash" /\ (Large(t) \/ worker[t].path \in Sqlite)
    /\ Fingerprint(t, IF Large(t) THEN 0 ELSE staged[worker[t].path])
    /\ UNCHANGED <<tree, lasting, pc, queue, unread, staged, todo, calm, seen>>

\* sha256_and_md5_file opens a plain file and reads it to its end; what it gets of a
\* file that is written meanwhile is the old content, the new one or a mixture.
Open(t) ==
    /\ worker[t].step = "hash" /\ ~Large(t) /\ worker[t].path \notin Sqlite
    /\ IF stat[worker[t].path] = 0
       THEN Done(t, "skipped")
       ELSE /\ worker' = [worker EXCEPT ![t].step = "read", ![t].begun = data[worker[t].path]]
            /\ UNCHANGED found
    /\ UNCHANGED <<tree, lasting, pc, queue, entry, unread, staged, todo, calm, seen>>

Read(t) ==
    /\ worker[t].step = "read"
    /\ LET now == data[worker[t].path]
       IN  \E hash \in {worker[t].begun} \cup (IF now \in {0, worker[t].begun} THEN {} ELSE {now, Torn}) :
              Fingerprint(t, hash)
    /\ UNCHANGED <<tree, lasting, pc, queue, unread, staged, todo, calm, seen>>

\* A file that cannot be read is skipped or failed (is_skippable_scan_error).  A backup
\* that fails is removed; a copy that was made and cannot be read is not.
FileFails(t) ==
    /\ worker[t].step # "free" /\ ~(worker[t].step = "hash" /\ Large(t))
    /\ Fault(IF worker[t].step = "hash" /\ worker[t].path \in Sqlite THEN "staged" ELSE "busy")
    /\ \E where \in {"skipped", "failed"} : Done(t, where)
    /\ UNCHANGED <<tree, lasting, pc, queue, entry, unread, staged, todo, calm>>

\* build_parallel().run() returns when all threads are done.
EndScan ==
    /\ pc = "scan" /\ queue = {} /\ \A t \in Threads : worker[t].step = "free"
    /\ pc' = "plan"
    /\ UNCHANGED <<tree, lasting, scan, todo, calm, seen>>

-----------------------------------------------------------------------------
(* The engines and the staging copies.                                       *)

\* The run is over, and what it knew is gone; keeps tells whether a copy is left.
EndRun(keeps) ==
    /\ stray' = (stray \/ keeps)
    /\ pc' = "idle" /\ queue' = {} /\ worker' = [t \in Threads |-> Free]
    /\ found' = [path \in Paths |-> "none"] /\ entry' = [file \in Files |-> NoEntry]
    /\ unread' = {} /\ staged' = NothingStaged /\ todo' = {} /\ calm' = {}

\* Mutant: the copies of uploaded files are removed.
CleanedUploads == { file \in Files : found[file] = "file" /\ record[file].hash = staged[file] }

\* cleanup_staging_files goes through the files of the report.
Cleaned == { file \in Files : found[file] = "file" }

LeftAfterCleanup == \E file \in Files \ Cleaned : staged[file] # 0

\* execute_root returns before the uploads.  Only the migration engine cleans up.
EarlyReturn ==
    /\ pc = "plan"
    /\ \/ Fault("sync_early") /\ EndRun(staged # NothingStaged)
       \/ Fault("migration_early") /\ EndRun(LeftAfterCleanup)
    /\ UNCHANGED <<tree, record, remote>>

Stop ==
    /\ pc \in {"plan", "upload"} /\ Fault("stop")
    /\ pc' = "cleanup" /\ todo' = {}
    /\ UNCHANGED <<tree, lasting, scan, calm>>

\* build_root_plan: what is new or changed, and what the disk does not have.
StartUploads ==
    /\ pc = "plan"
    /\ todo' = { file \in Files : found[file] = "file" /\ (~entry[file].reused \/ remote[file] = 0) }
    /\ pc' = "upload"
    /\ UNCHANGED <<tree, lasting, scan, calm, seen>>

\* Mutant: the local file is uploaded.
LocalFile(file) == data[file]

\* LocalFileEntry.upload_source: the staging copy, else the file as it is now.
UploadSource(file) == IF staged[file] # 0 THEN staged[file] ELSE data[file]

Recorded(file) ==
    record' = [record EXCEPT ![file] = [stat |-> entry[file].stat, hash |-> entry[file].hash]]

Upload(file) ==
    /\ pc = "upload" /\ file \in todo /\ UploadSource(file) # 0
    /\ remote' = [remote EXCEPT ![file] = UploadSource(file)]
    /\ Recorded(file)
    /\ todo' = todo \ {file}
    /\ UNCHANGED <<tree, stray, pc, scan, calm, seen>>

\* A file that is gone is skipped, with a record.
UploadSkips(file) ==
    /\ pc = "upload" /\ file \in todo /\ UploadSource(file) = 0
    /\ Recorded(file)
    /\ todo' = todo \ {file}
    /\ UNCHANGED <<tree, remote, stray, pc, scan, calm, seen>>

UploadFails(file) ==
    /\ pc = "upload" /\ file \in todo /\ Fault("upload")
    /\ todo' = todo \ {file}
    /\ UNCHANGED <<tree, lasting, pc, scan, calm>>

EndUploads ==
    /\ pc = "upload" /\ todo = {}
    /\ pc' = "cleanup"
    /\ UNCHANGED <<tree, lasting, scan, todo, calm, seen>>

\* The run goes on with its deletes, which do not concern the scan.
Cleanup ==
    /\ pc = "cleanup"
    /\ EndRun(LeftAfterCleanup)
    /\ UNCHANGED <<tree, record, remote, seen>>

\* A copy that cannot be removed ends the run with an error.
CleanupFails ==
    /\ pc = "cleanup" /\ staged # NothingStaged /\ Fault("unlink")
    /\ EndRun(TRUE)
    /\ UNCHANGED <<tree, record, remote>>

Crash ==
    /\ pc # "idle" /\ Fault("crash")
    /\ EndRun(staged # NothingStaged \/ \E t \in Threads : worker[t].step = "backup")
    /\ UNCHANGED <<tree, record, remote>>

-----------------------------------------------------------------------------
(* Other programs.                                                           *)

\* A commit makes a backup under way start over.
Dirtied(file) ==
    worker' = [t \in Threads |->
        IF worker[t].path = file /\ worker[t].step = "backup"
        THEN [worker[t] EXCEPT !.dirty = TRUE] ELSE worker[t]]

\* A file is made or written.  A database has two contents that take turns.
Write(file) ==
    /\ writes <= MaxWrites
    /\ writes' = writes + 1
    /\ stat' = [stat EXCEPT ![file] = writes']
    /\ data' = [data EXCEPT ![file] = IF file \notin Sqlite THEN writes'
                                       ELSE IF @ = 1 THEN 2 ELSE 1]
    /\ Dirtied(file)
    /\ calm' = calm \ {file}
    /\ UNCHANGED <<lasting, pc, queue, found, entry, unread, staged, todo, seen>>

\* A commit to the WAL of a database.
Commit(file) ==
    /\ file \in Sqlite /\ stat[file] # 0
    /\ data' = [data EXCEPT ![file] = 3 - @]
    /\ Dirtied(file)
    /\ UNCHANGED <<stat, writes, lasting, pc, queue, found, entry, unread, staged, todo,
                   calm, seen>>

Remove(file) ==
    /\ file \notin Sqlite /\ stat[file] # 0
    /\ stat' = [stat EXCEPT ![file] = 0] /\ data' = [data EXCEPT ![file] = 0]
    /\ calm' = calm \ {file}
    /\ UNCHANGED <<writes, lasting, pc, scan, todo, seen>>

RemoveRemote(file) ==
    /\ remote[file] # 0 /\ Fault("external")
    /\ remote' = [remote EXCEPT ![file] = 0]
    /\ UNCHANGED <<tree, record, stray, pc, scan, todo, calm>>

-----------------------------------------------------------------------------

ThreadStep(t) ==
    \/ \E path \in queue : VisitExcluded(t, path) \/ VisitDirectory(t, path) \/ WalkError(t, path)
                          \/ VisitFile(t, path)
    \/ BackupStep(t) \/ FingerprintAtOnce(t) \/ Open(t) \/ Read(t) \/ FileFails(t)

Next ==
    \/ StartScan
    \/ \E t \in Threads : ThreadStep(t)
    \/ EndScan \/ EarlyReturn \/ Stop \/ StartUploads \/ EndUploads \/ Cleanup \/ CleanupFails
    \/ \E file \in Files :
          \/ Upload(file) \/ UploadSkips(file) \/ UploadFails(file)
          \/ RemoveRemote(file)
    \/ \E file \in Edited : Write(file) \/ Commit(file) \/ Remove(file)
    \/ Crash

\* Some thread goes on as long as one can; nothing is assumed of the other programs.
Spec == Init /\ [][Next]_vars /\ WF_vars(EndScan \/ \E t \in Threads : ThreadStep(t))

-----------------------------------------------------------------------------
(* Properties.                                                               *)

\* handle_walk_entry and the walk: what is there during the whole scan is in the report,
\* whatever happened to other entries, unless a directory above it is excluded or could
\* not be read.  What the report does not have is deleted from the disk.
NothingOverlooked ==
    pc = "plan" =>
        \A path \in calm \ {<<>>} :
            \/ found[path] # "none"
            \/ \E dir \in unread \cup (Excluded \cap Dirs) : Below(path, dir)

\* file_entry reads the stat before the content: as long as a file has the stat of an
\* entry or of a record, and so for every run that reuses it, the hash is that of its
\* content, also when it was written while it was read.
FingerprintsAreCurrent ==
    \A file \in Files \ Sqlite : \A known \in {record[file], entry[file]} :
        stat[file] # 0 /\ known.stat = stat[file] /\ known.hash # 0 => known.hash = data[file]

\* What the disk has of a database is what was fingerprinted, however often it was
\* written between the backup and the upload.  (When the remote file is lost, the next
\* upload is made from the database file itself.)
UploadIsItsFingerprint ==
    "external" \notin seen =>
        \A file \in Sqlite : remote[file] # 0 => record[file].hash \in {0, remote[file]}

\* Staging copies are left behind only by a crash, a copy that could not be read or
\* removed, and by what ends a root of the sync engine before its uploads; uploads that
\* fail, stops, timeouts of backups and the migration engine leave none.
StagingEmptied == stray => seen \cap {"crash", "staged", "unlink", "sync_early"} # {}

\* run_sqlite_backup_with_deadline: a scan ends, also when a database is written all
\* the time.
ScanEnds == pc = "scan" ~> pc # "scan"

=============================================================================
