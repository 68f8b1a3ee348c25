# Formal models of ya-disk-sync

TLA+ models of the program in `src/`: a daemon and a CLI that mirror local
directories (roots) to Yandex Disk, one way, with a SQLite state database. The
modules are checked with TLC on small instances, and the results that matter most
are proved with TLAPS for every instance.

## 1. The system

| Part | State it keeps | Operations | Model |
| --- | --- | --- | --- |
| `yds-sync` `SyncEngine::run_once`, `execute_run` | the run report, the cancellation token | take the lock, repair, begin, execute every root, finish, release | `RunLock`, `SyncRoot` |
| `yds-sync` `execute_root` | live plan, remote inventory, queues of creates, uploads and deletes, a `JoinSet` of requests | scan, plan, list or use the cache, create level by level, upload in batches, delete one by one | `SyncRoot` |
| `yds-sync` planning functions | none | `known_live_remote_paths`, `collect_coalesced_delete_operations`, `detect_deleted_local_subtree`, `build_root_plan` | `MirrorPlan`, `DeletePlan` |
| `yds-state` | `state_locks`, `sync_runs`, `operation_journal`, `file_state`, `remote_resource_state`, `root_remote_inventory_status`, tables of the migration | one SQLite statement or transaction per operation | `RunLock` (first three), `SyncRoot` and `Migration` (next three) |
| `yds-scanner` | the report of a scan, staging copies of databases | walk a root with several threads, exclude, back up SQLite databases, hash, reuse the fingerprint of a record with equal size and mtime | `Scanner`; `SyncRoot!Scan` and `Migration!Scan` take a scan as one step |
| `yds-yandex-disk` | the token in the keyring | requests with retries, token refresh, upload links, polling of asynchronous operations; paged directory walks | `HttpClient`, `Listing`; the engines' models take a call as an effect and an answer |
| `yds-service` `ServiceRuntime`, `RuntimeHost` | status, current run, token, skip counter; server and scheduler tasks | `request_run`, `request_cancel`, `finish_run`, `shutdown` | `Runtime` |
| `yds-service` scheduler | the time it waits for | sleep until the daily start time, request a run | `Scheduler` |
| `yds-sync` `MigrationEngine` | live plan, inventories of the canonical and legacy trees, batches to be flushed | move the tree, merge moves, compare, adopt, upload, delete, resume | `Migration` |
| OAuth and the auth commands of the CLI | the stored token | login, logout, import, refresh | `HttpClient` |
| configuration, path mapping, exclusions, other commands, web pages, Windows and Linux services, logging | | | not modelled, see section 8 |

How they interact. The HTTP server and the scheduler call `request_run` of one
`ServiceRuntime`, which spawns a task on a thread of its own; the task calls
`run_once`. The CLI calls `run_once` in another process. All of them meet in the
SQLite file, which is why the lock is a row there. A run reads and writes
`file_state` and the cached inventory through the repository, the local disk
through the scanner, and Yandex Disk through the client. Nothing notifies the
engine of local changes: it sees the tree at the scan and again when it is about to
upload or delete a path.

What is hard here:

* **two processes and one database**: a lock with a staleness test, crashes that
  leave rows behind, a repair that touches every running row;
* **a tree that moves**: files change and vanish between scan, upload, record and
  delete, and deletes on the disk are permanent and recursive;
* **a cached inventory** that is the reason not to create, not to upload, and to
  delete, and that a crash, a lost answer or a pruned listing makes wrong;
* **several statements per answer**: the journal row, `file_state` and the cache row
  are written one after the other, and a failure may fall between any two;
* **files that are written while they are read**: a stat, a hash, a backup and an upload are
  four different moments;
* **moves on the disk and rows in the database**: the migration moves whole trees and then
  rewrites the rows, and a crash or a lost answer falls in between;
* **one token for many calls**: each notices the expiry by itself, refreshes and stores;
* **listings in pages by offset**, while others change the disk;
* **operations that outlive their call**: deletes and moves that the disk goes on with after
  the client has stopped asking;
* **cancellation and shutdown** that race the end of a run;
* **convergence**: whatever went wrong, a later run has to repair it.

The full list, each hazard at its line, is `hazards` in `PROJECT.json`.

## 2. Modules

`MirrorPlan` holds the pure functions on paths. A path is a sequence of segments
below the remote root, `<<>>` is the root itself; `Covers` is the prefix test the code
writes with `strip_prefix` and a `/`. `CoalescedDeletes` says what the delete
planner computes, without the loop.

`DeletePlan` is the loop of `collect_coalesced_delete_operations`: visit the inventory
in the order of `sort_by_key`, skip what is suppressed or live, delete the topmost
dead directory or the resource itself. Init ranges over every plan and inventory.

`RunLock` has one process per call of `run_once`. `TryInsert` and `TryUpdate` are the
two statements of `try_acquire_run_lock`, with the clock read before the first;
`Repair`, `Begin`, `StartOperation`, `FinishOperation`, `FinishRun` and `Release` are the
transactions that follow. `ReturnWithLock` and `FinishRunFails` are the `?` paths,
`Crash` kills a process anywhere, `Tick` is the clock.

`SyncRoot` is one root, run after run. `local` and `remote` map paths to versions (0: not
there), `record` is `file_state`, `cache` and `complete` the cached inventory. A run goes
through `pc` = scan, plan, inventory, persist, create, upload, delete. Requests are
in `task`: the effect on the disk is one step (`TaskSucceeds`, `TaskFails` with or
without an effect), the processing of the answer another (`JoinCreate`,
`JoinUpload`, `JoinDelete`), and edits, crashes and cancellations fall in between.
`Dropped` is the `JoinSet` that aborts its tasks, each of which may already have had its
effect. `JoinInterrupted` is a failure between the statement on `file_state` and the one
on the cache. `touched` is a history variable: the paths that were changed locally or
removed remotely since the scan of the run.

`delete_remote_resource_subtree` matches by `LIKE`:
`LikeMatches` is the set of pairs in which the pattern of one path matches the other path by
a wildcard. `ListingShifted` is a listing that lost what `Listing` says it may lose.

`Mirror` says what a mirror promises, without phases, caches or records: content goes in from
the source only, nothing goes out that the source kept, and "exact" is said only when it is
so. `SyncRoot!Abstract` is the refinement mapping: source, mirror and the skipped
files are read off `local`, `remote` and `record`; the verdict is "exact" when a run over a fresh
listing has succeeded; `since` is what others changed since the scan. `RefinesMirror` says
that every step of `SyncRoot` is one of `Mirror` or leaves it alone.

`Migration` is `MigrationEngine::execute_root` for one root, run after run, on the canonical tree
(root 0) and its legacy trees. A run scans, loads the inventories from the rows or the disk,
moves a whole legacy tree into an empty place, or else merges file by file, compares, adopts or
uploads, and deletes what is left. As in `SyncRoot`, effect and answer of a request are separate
steps. `record`, `cache` and `complete` are the tables that the sync engine reads afterwards,
which is why `SuccessHandsOver` speaks of them. Files come in three sizes: up to `full_hash_max_bytes` the
engine compares contents, above it (`SizeOnly`) only sizes, and from `large_file_name_size_only_min_bytes` on
(`Large`) it also puts at most one into a batch of uploads. What "equal" or "mirrored" means in the properties follows
from that (`Mirrored`): the content of a file of the first kind, the presence of a larger one or of a directory. `touched` and `reported` are history:
paths that others changed since the scan, and paths the run has reported as skipped or failed.
`settled` says that a run has succeeded and nothing has changed since.

`Scanner` has one process per scanner thread. A directory is taken, its entries are read one by
one; a file is excluded, refused for its size, reused from its record or read: first the stat,
then the content, in separate steps between which other programs write. A database is backed
up page by page; a commit makes the backup start over, and two timeouts end it. After the scan
the engine uploads from the staging copies and removes them, on every way a root can end.

`HttpClient` has one process per call. A request is sent with the token that was loaded, answered
by the disk in another step and handled in a third. `done` is what the disk has, `op` the
asynchronous operation the disk goes on with, `stored` and `issued` are the tokens.
Whether the client has an OAuth flow is an initial choice: `with_oauth_flow` exists, and no caller
in the repository uses it.

`Listing` is `list_recursive_with_options`: a stack of directories, a `JoinSet` of tasks, each
reading one directory page by page by offset, pruned prefixes that are reported and not
entered, and changes of the disk between any two pages.

The modules meet in their results. `SyncRoot` and `Migration` rely on a call that returned Ok
having had its effect (`HttpClient!OkMeansDone`), on the NotFound of a delete meaning that the
resource is gone (`HttpClient!NotFoundMeansGone`; the 404 of a poll, which that property
excepts, is therefore outside these two modules, see section 6), on a listing being the tree (`Listing!QuietWalkIsExact`),
and on a fingerprint being that of the stat (`Scanner!FingerprintsAreCurrent`).

`Runtime` is the state behind the mutex of `ServiceRuntime`, the tasks it spawns and the
steps of `RuntimeHost::shutdown`. `late` is a history variable: runs accepted after
shutdown has called `request_cancel`.

`Scheduler` is the loop of `run_scheduler_until` with a clock finer than a second.

`MC*.tla` give the constants of the runs. `*Proofs.tla` hold the theorems. Definitions whose
comment starts with "Mutant" are altered forms of the definition that follows them;
no specification uses them. With each of them in the place of the original, TLC
refutes the property `mutants` in `PROJECT.json` names.

## 3. Runs

| Run | Shows |
| --- | --- |
| `run_lock` | Runs overlap, two rows are shown as running, a repair closes a live run's row or leaves a foreign operation open only when a call has held the lock longer than `stale_lock_after`. |
| `delete_plan` | The delete loop spares what is live, covers every extra resource, plans none twice, and computes `CoalescedDeletes`. |
| `sync_root` | Records from uploads are true, a success over a fresh listing is an exact mirror (files reported as skipped excepted), deletes spare what was there all the time, and every step is a step of `Mirror`. |
| `sync_root_cache` | Without lost answers, the cached inventory names nothing the disk lacks. |
| `sync_root_converges` | After the last edit and the last fault, a shifted listing and a `LIKE` that takes too many rows included, the runs reach the mirror and keep it. |
| `sync_root_busy` (violation) | See section 6. |
| `scheduler` | Every start time gets a request, none more than a second early. |
| `runtime` | One task at a time, a truthful status, shutdown reaches the runs, runs end. |
| `migration` | A file up to `full_hash_max_bytes` that was adopted or uploaded is equal to the local one; deletes take no last copy; a success leaves the mirror in the canonical place, nothing in the legacy ones and the tables as the sync engine needs them; a rerun changes nothing; whatever a fault left behind, a run over a fresh listing to which nothing happens completes the migration. |
| `http_client` | Ok means that the effect is there and no operation is left; NotFound of a delete or move means that the resource is gone, unless it answers a poll; with an OAuth flow and two attempts an expired token costs no call; every call returns, unless it waits for ever for the OAuth server. |
| `listing` | Without changes the listing is the unpruned tree; with changes it misses only what is in or below a directory from which something was removed during the walk; the walk ends. |
| `scanner` | What was there all the time is reported; a hash is never older than the stat beside it; what the disk has of a database is what was fingerprinted; staging copies stay behind only after the failures named; a scan ends although a database is written all the time. |

Bounds, and why they are enough.

* `run_lock`: three calls, staleness of one unit and four units of time. One call loses
  its lock, a second takes it over and goes stale in turn, a third comes while both are
  alive. Calls are interchangeable (symmetry).
* `delete_plan`: a tree of depth three with siblings; all plans and inventories over it,
  also inventories that have a file without its directory.
* `sync_root*`: the root, one directory with a file in it and a file beside it (for the cache
  run, two files whose names differ in case); two versions; up to three edits at any
  moment; one fault; two requests at a time. A file is written, removed and brought
  back, a directory vanishes with its file while an upload is in flight, and several runs
  follow each other, so that what one run leaves in the database meets the next one.
  `sync_root` leaves out the fault "busy", for which `DeletesOnlyWhatWasGone` does
  not hold (`sync_root_busy`). `sync_root_cache` leaves out crashes, database errors, lost
  answers and removals by others, each of which makes the cache wrong: that the
  damage does not last is what `sync_root_converges` shows.
* `scheduler`: days of ten seconds of four ticks, three days, any phase of the start.
* `runtime`: three runs, one counted skip.
* `sync_root_converges` has a directory named `_` instead of the file at the top: its pattern
  matches the row of a file in another directory. It starts from any
  mirrored tree, with one edit and one fault at any moment: what counts is the state that the
  last of them leaves behind.
* `migration`: one file of each size: a small one in a directory, beside it one above `full_hash_max_bytes`
  and one from `large_file_name_size_only_min_bytes` on. The canonical place is empty until a run fills it; the first
  legacy tree is empty or has the small file, the second is empty or has other content of the same size for the
  small file and for the one in the middle. So a copy is adopted by its size although its content
  differs, and one of the small file is not. Two requests at a time; one fault or one
  edit at any moment, listings with and without md5. Every kind of move, merge, comparison and delete occurs, and one of them
  may fail, before the run that succeeds and the rerun. With one `Large` file no upload is put off for another one
  (`Scheduled`): that is covered by the theorems, which hold for any sets of files.
* `http_client`: a call of any kind beside a read, two attempts, one expiry, one fault of any
  kind, one poll interval. Two attempts are the least at which a retry and a refresh compete;
  two calls are the least that share a token.
* `listing`: two directories at a time, two entries a page, a directory of two pages, two changes
  and one fault. A page shifts, also by the removal of a directory that another task is reading.
* `scanner`: two threads, a directory with a plain file and a database, an excluded directory; a
  database of three backup steps, timeouts of four steps and of two without progress; one write
  that changes a stat, any number of commits, one fault.

`Scheduler`, `RunLock` and `Runtime` stop at a bound (`MaxTime`, all `Runs` used up), `HttpClient` and
`Listing` when their calls and their walk are over: these are checked without deadlock detection;
`SyncRoot`, `DeletePlan`, `Migration` and `Scanner` are checked for deadlock. `RunLock!TypeOK`
and `Runtime!CancellingMeansTold` are conjuncts of proved invariants and not repeated in the runs;
`Scheduler!LoopTypeOK`, `HttpClient!TypeOK` and `Listing!WalkTypeOK` describe their state and no run lists them.

## 4. Fairness

`SyncRoot!FairSpec`: a run goes on (weak fairness of the engine's steps: requests have
timeouts, so an answer or an error arrives), runs keep being started (the
daily schedule), and listing is strongly fair: the snapshot's TTL is finite, so
again and again a run finds it expired. Edits and faults have no fairness; they are
bounded, so in the end they are over. `Runtime!FairSpec`: a spawned task is scheduled and
returns, as long as the host is not down. A cancelled task looks at its token at the next
batch boundary, another one ends with its finite plan. `Migration!FairSpec`: a run goes on, nothing else.
It is not assumed that runs are started, nor that one of them lists the disk: a run stores its snapshot anew and
with it renews the TTL even when it came from the cache (section 6), so nothing in the code brings a fresh listing
back. `FreshRunCompletes` therefore speaks of one run that has listed the disk and to which nothing
happens any more, from any state that earlier runs and faults have left.
`HttpClient!Spec`: a call goes on and a request to the disk is answered or times out, because the clients for the
API and for transfers are built with a timeout (`yds-yandex-disk/src/lib.rs:236-244`). The client that `OAuthFlow` builds
for itself has none (`auth.rs:244-247`), so nothing is assumed of a refresh, and `CallsReturn` says that a call
returns or waits in a refresh for ever. Nothing is assumed of asynchronous
operations either, which may never end. (The service and the CLI use no `OAuthFlow` for their calls, which is why
`SyncRoot`, `Migration` and `Listing` may count on an answer.) `Listing!WalkSpec`: the walk goes on, since each page is such a
call. `Scanner!Spec`: some thread goes on; nothing is assumed of the programs that write the files.

## 5. What is proved

| Theorem | Says | Along |
| --- | --- | --- |
| `RunLockProofs!OverlapBounded`, `RunningRowUnique`, `OperationsOwned`, `RepairSafe` | the four properties of `run_lock`, for any set of calls and any `stale_lock_after` | `IInv` |
| `InventoryProofs!DeletesAreSafe`, `TypeCorrect` | no planned delete names or covers a live path, for any tree, plan and inventory | `TypeOK`, the plan is closed under parents, `NeverCoversLive` |
| `InventoryProofs!DeletesAreCoalesced` | the loop ends with exactly `CoalescedDeletes`, the set that `SyncRoot` and `Migration` use | `LoopInv` |
| `SyncRootProofs!TypeCorrect` | type correctness, for any tree and any faults | itself |
| `SyncRootProofs!RecordsAreTrue` | a record from an upload that equals the local file does not stand beside other content on the disk | `UploadInv` |
| `SyncRootProofs!DeletesAreJustified` | deletes remove only what is not there or has changed since the scan, if scans can read what is there | `GoneInv` |
| `SyncRootProofs!CachedRowsExist` | the cached inventory names only what the disk has, without the faults of `Separating` | `WorkInv`, `CacheTrue` |
| `SyncRootProofs!SuccessIsExact` | a success over a fresh listing with nothing changed under it is an exact mirror | `BaseInv`, `MirrorInv` |
| `SyncRootProofs!RunsRefineMirror` | the runs implement `Mirror` | `RefineInv` |
| `RuntimeProofs!TypeCorrect`, `AtMostOneTask`, `StatusIsRight`, `ShutdownReachesRuns` | the safety properties of `runtime`, for any set of runs | one invariant |
| `RuntimeProofs!NoDayIsLost`, `NoRequestIsEarly` | the properties of `scheduler`, for any start time, lengths of day and second, and delays | `SleepInv`, `LoopInv` |
| `InventoryProofs!ListingMissesOnlyWhereShifted`, `QuietListingIsExact` | the safety properties of `listing`, for any tree, order, page size and number of tasks | `WalkInv` |
| `HttpClientProofs!TypeCorrect`, `OkIsTrue`, `NotFoundIsTrue`, `OneExpiryIsFree` | the safety properties of `http_client`, for any number of calls and attempts | see below |
| `ScannerProofs!TypeCorrect`, `WalkIsComplete`, `FingerprintsFit`, `UploadsFit`, `CopiesAreRemoved` | the safety properties of `scanner`, for any tree and number of threads | see below |
| `MigrationProofs!TypeCorrect`, `AdoptionsAreTrue` | a file up to `full_hash_max_bytes` that was adopted or uploaded is equal to the local one, as long as nobody removes the canonical root | see below |
| `MigrationProofs!NoLastCopyDeleted` | the delete phase over fresh listings takes only legacy copies of what the canonical root mirrors: content up to `full_hash_max_bytes`, presence above it | `PlanInv`, `PlacedInv` |
| `MigrationProofs!SuccessLeavesTheMirror` | a success over fresh listings with nothing changed under it: the mirror (in the same sense) in the canonical place, the legacy trees empty, a complete inventory without false rows, a record for each file | those, `CalmInv`, `HandInv` |
| `MigrationProofs!SuccessIsAHandOver` | `SuccessHandsOver`: also a row for each file, if no removed copy comes back from a legacy root | those, `RowsInv` |
| `MigrationProofs!RerunChangesNothing` | `RerunIsNoOp`: the run after a success changes nothing on the disk, under the same hypotheses | those, `RowsFollow`, `RerunInv` |

*RunLock.* `OverlapOnlyWhenOverdue` is not inductive: it says nothing of who owns the row.
`IInv` adds that the row's heartbeat is its owner's own clock reading (so the
staleness test is about the owner), that an active call without the row is overdue,
and, for the tables, that a call past `Repair` finds no running row of a call within
its time. Assumed: calls have owners of their own, the clock does not run backwards.

*DeletePlan.* The prefix test is shown to be the tree's own order
(`MirrorPlanProofs!CoversIsAncestor`). A plan is closed under parents because a walk reports
a directory before its contents; hence a path outside the plan has nothing of the plan
below it. The topmost dead directory is a dead directory because the shortest element of
a non-empty set of ancestors is one of them (`ShortestIsLeast`, by the well-foundedness of
the naturals).

*SyncRoot.* `RecordedMeansUploaded` needs what is true while a request is in flight. `UploadInv`
adds `LastIsNewest` (a local file is never newer than its last version),
`RecordNotAhead` (a record from an upload is not newer than what the disk has, if it
has the file) and `AnswerNotAhead` (nor is the scanned version of a file whose upload
has been answered). Versions only grow and an upload stores the version it reads, at
least the scanned one; so equality of record and local file forces equality with the
disk. Assumed: a write changes size or mtime, and a file that comes back does so as its
last version.

`GoneInv` is what makes deletes safe: the local tree is closed under parents (`LocalClosed`), a
deleted subtree has nothing left of what the scan saw (`SubtreesGone`), the live plan has all
that is there (`PlanIsComplete`), and whatever is below an operation of the delete phase is
not there or was touched since the scan (`TargetsGone`). "Gone" can only become true while a run
lasts, which is why a plan made before the last edits stays safe. `PlanIsComplete` is the
conjunct an unreadable path breaks: `DeletesAreJustified` assumes `"busy" \notin Faults`, and
`sync_root_busy` shows why.

`WorkInv` says which requests can be under way in which phase, and that an answer "ok" still
describes the disk unless somebody else removed something. With it, `CacheTrue` (a
row names what is on the disk, or a path whose delete has been answered) is inductive as long
as no fault of `Separating` comes between the disk and the database: a crash, a database
error, a lost answer, a removal by others.

`MirrorInv` follows a run over a fresh listing from phase to phase, under the condition `Fresh` (nothing
touched, nothing failed, not cancelled, not from the cache): the inventory is what is on
the disk (`ListedInv`); a live file is planned or settled (`PlannedInv`); a directory is there, to be
created or about to be noted as failed (`CreateInv`); so with the files (`SendInv`); what is
extra is below a target of the deletes (`ExtraInv`); then the mirror is exact (`ExactInv`). It needs
`UploadInv` and `ClaimsNotAhead` for the files that are not uploaded because their record says so,
`GoneInv` for the completeness of the plan, and `ScanHolds`: what the scan saw is as it was, or was
touched. `SuccessIsExact` also assumes that no name is `disk:`, because
`remote_delete_candidate_relative_path` never deletes such a path. Any number of faults before
and during the run is allowed; TLC's run has one.

`RefineInv` is `MirrorInv` with its base and `RootIsThere` (a run that succeeded had its root). The steps that
change neither tree are `Report` steps of `Mirror` (`QuietRefines`), a scan is `Snapshot`, requests,
dropped requests and joins are `Work` (`WorkRefines`, `AppliedRefines`, `DroppedRefines`), edits, mounts
and removals are `Change` (`ChangeRefines`). The proof showed that `Mirror!Put` was too strict: when
the local root goes away just before the scan and the remote root is missing, the code still
creates the remote root.

*DeletePlan, the loop.* `LoopInv`: the operations planned so far are the targets of the resources visited so far,
and what is suppressed is below one of them. That the order of visits makes no difference rests on
`TopmostIsUnique`.

*Runtime.* The invariant ties `current`, `token` and `status` to the one unfinished task.

*Scheduler.* (In `RuntimeProofs`.) `SleepInv`: a loop that sleeps for a start time wakes less than a second before
it; this alone gives `NoRequestIsEarly`. `LoopInv`: between two sleeps every start time up to now has had
its request, while the loop sleeps every one before the one it waits for, and it is late by the delay at most.
`NoDayIsLost` assumes that the loop is held up for less than a day: `next_after`
counts from the time it is called, so a loop held up for a whole day skips that day's run.

*Listing.* (In `InventoryProofs`.) That a finished walk has reported a path says nothing of the walk under way.
`CoverInv`: a path that has been there all the time is reported, or a directory above it is
still pending or being read, or something was removed above it. `TaskInv`: of a directory out of
which nothing was removed, a child that was there all the time has been read or has a rank
above the offset; what was read of directories is to be walked unless it is pruned. The last page then reads
all that is left (`LastPageIsLast`), and the child on the way to the path takes over (`ChildToward`).
`ReportInv` gives the other half of exactness. An addition raises ranks (`RankGrows`) and a
removal changes those of one directory only (`RemoveKeeps`). The disk's order is a rank, the number
of paths up to a path, so that it is counted (`RankFacts`, `RankOnto`) where a filtered sequence would
need an induction.

*HttpClient.* `EffectInv` says of every call what its answer, its operation and its result tell of the
disk. `NotFoundIsTrue` holds because a path with a running operation is answered by a conflict, never by a
404; it excepts the NotFound of a poll, which may stand beside a resource whose operation goes on or has failed. `QuietInv` is for `OneExpiryIsFree`: without other faults a call refreshes at most once and in its
first attempt, and the stored token is good from then on. Assumed: `MaxExpiries <= 1`, an
OAuth flow and two attempts; with a second expiry the one refresh of a call is used up.

*Scanner.* `WalkInv` and `CalmInv`: every path is handed out once, and what nobody touches is
reported, with a thread, below a queued directory, or below an excluded or unreadable one. `FreshInv`: a stat that is
known and the content read under it belong together as long as the file has that stat.
`CopiesInv` and `UploadInv` tie staging copies to entries and remote copies to records.

*Migration.* `PhaseInv` says which queue and which request a phase has. `TruthInv` says, of files up to
`full_hash_max_bytes`, that versions known
from rows and records are of the past, that a legacy tree only shrinks, and that a content which
is not outdated is the canonical copy's content if there is one. `RootInv` is needed for the
top-level move, which overwrites the canonical place: nothing is known of it while its root is
missing. Assumed (`CanonicalRootStays`): nobody else removes the canonical root. With two
faults the property fails without this: adopted, a crash before the legacy copies are deleted,
the canonical root removed by somebody, and the next top-level move brings other content under
records that still say "synced".

`NoLastCopyDeleted` is an action property, so the invariants have to say why a delete may go ahead. `PlanInv`
is about the plan: a path that it lacks, that is in a deleted subtree or that a delete of the
canonical root covers is `Excused` (gone, touched since the scan or reported), and a file of the plan is as the scan
saw it. `PlacedInv` follows a run over fresh listings: the sets tell what the disk has, a directory
of the plan is still to be made or is there, a file is waiting, in flight or mirrored in the
canonical root, and a merge move that was answered has brought the content the set named. When the deletes
start nothing waits and nothing is in flight, so whatever is not excused is mirrored, and a delete
of the canonical root covers nothing of it. Nothing is assumed of the faults: a removal by somebody else
excuses what it takes. Listings from the cache are left out, as in the property itself, because a stale row
names copies the disk does not have.

`SuccessLeavesTheMirror` and `SuccessIsAHandOver` ask of a run what `PlacedInv` does not tell. `CalmInv`: as long as
nothing is touched and nothing failed, the plan is what is there and no subtree counts as deleted. `HandInv`
follows a `Smooth` run (fresh listing, nothing touched, nothing failed, not cancelled): the sets have all that is on
the disk apart from what is wanted there (`SetsSee`, with an exception while a top-level move has been made and not
listed again), an answer "ok" has had its effect (`WorkDone`), no row names what is not there and a file that waits for nothing
has its record (`DatabaseTrue`), and whatever has to go is covered by a delete that is still to come (`EndsWell`). A legacy
tree is deleted by what its listing has, so it ends empty only because every file that was left there is in the
set. `RowsInv` adds the rows: the way to be done without writing one is `can_resume_synced_file`, so a file whose
record allows that has its row, or is in none of the trees and will be uploaded. The proof found the case
where this is wrong, see section 6, and TLC confirms it with two faults; `SuccessIsAHandOver` excludes it
(`NoCopyComesBack`: a run that finds the canonical copy of a "synced" file missing finds no legacy copy of it). Both theorems assume
that no name is `disk:`, because no such path is deleted. Faults in earlier runs are unlimited; TLC's run has one.

`RerunChangesNothing` starts where they end. `RunSettles` gets from what was handed over, from `CanonicalListed` and from
`RowsFollow` (a row of a file, if there is one, is that of the inventory) that the rows tell the content of every
file. `RerunInv` carries this through the phases of the next run, which may take its inventory from the rows: they are right about
files, but the rows of the legacy roots are from before the moves and those of the canonical one may lack every directory
(`RerunSets`). So the run may still ask for things (`RerunWork`), each of which has to do nothing: a top-level move
is rejected because the place is taken, a directory that is created is there (it needs `DirsPlain`: a directory
has no content that could be overwritten), a file is uploaded only if its record has no md5, and then over a copy of
the same content, and deletes of legacy paths find them gone. That the run succeeds cannot be shown for a tree
without files: the rejected move counts as a failure (section 6). `NoCopyComesBack` is needed here too:
without the row of a file the next run uploads it again.

Every safety property of the passing runs is stated by a theorem; only model-checked are the
liveness properties. Liveness under fairness and ENABLED are beyond the prover, and so is induction over
data; no module that is proved about has a RECURSIVE operator.

What the models assume of things outside the repository: the disk pages a directory in one fixed
order and keeps an operation as long as it is polled; the OAuth server accepts a refresh
token more than once and does not revoke older access tokens when it issues a new one; hashes do
not collide; a write changes size or mtime, except for the commits of a database.

## 6. Where code and documents disagree

* `sync_root_busy`: the live plan has only what the scan could read; the remote copy of an
  unreadable file or directory is deleted permanently.

Also seen while modelling, without a run of its own:

* A second migration of a root in which no file is kept. The rows are written before the top-level
  move and afterwards only for files, so they still show the legacy root and an empty canonical
  place; the second run, from the rows, sends the move again, fails and ends partial, where
  `docs/migration.md:26` promises a no-op. `RerunIsNoOp` shows that it changes nothing on the disk
  all the same, and that with a file in the tree it succeeds.
* A run longer than `stale_lock_after` is taken for dead and overlapped, because no run calls
  `heartbeat_run_lock`; `docs/runtime.md:10` and `docs/sync-model.md:26` promise one run at a time.
  `OverlapOnlyWhenOverdue` says that this is the only way.
* An upload that is skipped stores a record with the file's size and mtime; the scanner reuses
  records whatever their status, so later runs take the file for uploaded (`docs/sync-model.md:9`).
* A listing pruned at deleted subtrees is stored as complete; when the run ends before it deletes
  them, runs from the cache do not see what is below them (`docs/sync-model.md:51`).
* A root that disappears after the `is_dir` test looks empty to the scan, and its remote contents
  are deleted (`docs/sync-model.md:47`).
* A SQLite entry reused from its record is uploaded from the database itself when the disk has lost
  its copy, without a backup (`docs/sync-model.md:37`).
* An automatic migration that was interrupted after its first rows goes on as a plain sync.
* The migration renews the TTL of a snapshot it took from the cache: as long as its runs are more frequent than
  the TTL, none of them lists the disk again.
* The migration compares every file above `full_hash_max_bytes` by name and size alone (`migration.rs:2499`), where
  `docs/sync-model.md:33` says that files of the middle size are compared by name, size and mtime when that
  is safe, and `:34` that only those from `large_file_name_size_only_min_bytes` on go by name and size. So a
  canonical copy of equal size and other content is adopted, and the legacy copy with the right content is deleted.
  The setting `large_file_name_size_only_min_bytes` decides only which uploads may not share a batch.
* `mark_deleted` goes by the relative path: deleting a legacy duplicate marks the record of the
  live canonical file, until its next adoption.
* The service and the CLI build their client without an OAuth flow, so no 401 is answered with a
  refresh; a token response without `refresh_token` drops the one that still works.
* A 404 from the URL of an asynchronous operation (`yds-yandex-disk/src/lib.rs:723-728`) is passed on as NotFound, and the
  engines take the NotFound of a delete for success: `docs/sync-model.md:45` gives as the reason that the extra file is
  not there any more ("нужного лишнего файла уже нет"), but the operation may be running or have failed.
  `NotFoundMeansGone` excepts it.
* A refresh can wait for ever: `OAuthFlow` builds its client without a timeout (`auth.rs:244-247`).
* One timeout covers all pages of a directory with their retries.
* When the canonical root is removed between two runs of a migration that was interrupted, the next
  top-level move puts legacy content under records that still say "synced" (found by the proof).
* A migration can succeed and leave a file without its row: a failed delete left a legacy copy beside the
  adopted one, the canonical copy is removed by others, and the next run moves the legacy copy into its place and
  resumes the file by its record (`can_resume_synced_file`), which writes no row. A sync from the cache then uploads the
  file again (found by the proof; it takes two faults, one more than the run `migration` allows).
* A path with a segment `disk:` (a legal name on Linux) is uploaded, but never deleted on the disk.
* The scheduler's sleep is cut to whole seconds, so it asks for the same start time several times
  during the last second before it.

## 7. Plan

Done: `MirrorPlan`, `DeletePlan`, `RunLock`, `SyncRoot`, `Runtime`, `Scheduler`, `HttpClient`, `Listing`, `Migration`,
`Scanner`, `Mirror` with the refinement, and the proofs of section 5. Next:

1. `Service`: `Runtime`, `Scheduler` and `RunLock` composed, with the status of a run that did not
   get the lock.

## 8. What is not modelled

* Several roots: `execute_run` takes them one after the other, and they share no state but
  the counters of the report and the stop flag.
* MIME types, metrics, the wording of errors; `migration_map_state`, `directory_state` and the
  journal of the migration, which no run reads back (but for the switch between the engines).
* In `SyncRoot`: a request that takes effect after the client has given up on it.
* The switch from `migration run` to plain sync inside one service.
* The mock client, and the schema migrations of the database.
* A path that is a file at one time and a directory at another.
* Configuration, path mapping and exclusion patterns (pure string functions), the PKCE exchange
  and the encoding of the keyring, argument parsing and output of the CLI, web pages, Windows
  service and systemd glue, logging: input, output and calls of operating systems without a protocol
  of their own.
