--------------------------- MODULE ScannerProofs ----------------------------
(***************************************************************************)
(* For any tree, any number of threads and any writes meanwhile: the walk    *)
(* overlooks nothing, fingerprints belong to contents, and staging copies    *)
(* are uploaded and removed.                                                 *)
(***************************************************************************)
EXTENDS Scanner, MirrorPlanProofs

-----------------------------------------------------------------------------
(* The tree.                                                                 *)

\* The directory of a path.
Parent(path) == SubSeq(path, 1, Len(path) - 1)

\* A path is below its directory, and what is above it is above its directory or is it.
LEMMA ParentCovers ==
    ASSUME NEW path \in Seq(STRING), path # <<>>
    PROVE  /\ Parent(path) \in Seq(STRING) /\ Below(path, Parent(path))
           /\ \A q \in Seq(STRING) : Covers(q, path) => q = path \/ Covers(q, Parent(path))
<1>1. Len(path) \in Nat \ {0}
  OBVIOUS
<1>2. /\ Parent(path) \in Seq(STRING) /\ Len(Parent(path)) = Len(path) - 1
      /\ \A i \in 1..(Len(path) - 1) : Parent(path)[i] = path[i]
  <2>1. Len(path) - 1 \in Nat /\ Len(path) - 1 <= Len(path)
    BY <1>1
  <2>2. ASSUME NEW n \in Nat, n <= Len(path)
        PROVE  /\ SubSeq(path, 1, n) \in Seq(STRING) /\ Len(SubSeq(path, 1, n)) = n
               /\ \A i \in 1..n : SubSeq(path, 1, n)[i] = path[i]
    BY <2>2
  <2> QED
    BY <2>1, <2>2 DEF Parent
<1>3. Below(path, Parent(path))
  <2>1. Covers(Parent(path), path)
    BY <1>1, <1>2, CoversPointwise
  <2> QED
    BY <1>1, <1>2, <2>1 DEF Below
<1>4. ASSUME NEW q \in Seq(STRING), Covers(q, path), q # path
      PROVE  Covers(q, Parent(path))
  <2>1. Len(q) <= Len(path) /\ \A i \in 1..Len(q) : q[i] = path[i]
    BY <1>4, CoversPointwise
  <2>2. Len(q) # Len(path)
    BY <1>4, <2>1
  <2> QED
    BY <1>1, <1>2, <2>1, <2>2, CoversPointwise
<1> QED
  BY <1>2, <1>3, <1>4

\* On the way down from a directory to a path below it there is an entry of the directory.
LEMMA StepDown ==
    ASSUME NEW path \in Seq(STRING), NEW dir \in Seq(STRING), Below(path, dir)
    PROVE  \E child \in Ancestors(path) \cup {path} :
              child # <<>> /\ Parent(child) = dir /\ Covers(child, path)
<1> DEFINE n == Len(dir) + 1
           child == SubSeq(path, 1, n)
<1>1. Len(dir) <= Len(path) /\ \A i \in 1..Len(dir) : dir[i] = path[i]
  BY CoversPointwise DEF Below
<1>2. Len(dir) # Len(path)
  BY <1>1 DEF Below
<1>3. n \in 1..Len(path) /\ n - 1 = Len(dir)
  BY <1>1, <1>2
<1>4. /\ child \in Seq(STRING) /\ Len(child) = n
      /\ \A i \in 1..n : child[i] = path[i]
  BY <1>3
<1>5. child # <<>>
  BY <1>3, <1>4
<1>6. Parent(child) = dir
  <2>1. /\ Parent(child) \in Seq(STRING) /\ Len(Parent(child)) = Len(dir)
        /\ \A i \in 1..Len(dir) : Parent(child)[i] = child[i]
    BY <1>3, <1>4 DEF Parent
  <2>2. \A i \in 1..Len(dir) : Parent(child)[i] = dir[i]
    BY <1>1, <1>3, <1>4, <2>1
  <2> QED
    BY <2>1, <2>2
<1>7. Covers(child, path)
  <2> HIDE DEF child
  <2> QED
    BY <1>3, <1>4, CoversPointwise
<1>8. child \in Ancestors(path) \cup {path}
  <2>1. CASE n = Len(path)
    <3>1. child = path
      BY <2>1
    <3> QED
      BY <3>1
  <2>2. CASE n # Len(path)
    <3>1. n \in 1..(Len(path) - 1)
      BY <1>3, <2>2
    <3> QED
      BY <3>1 DEF Ancestors
  <2> QED
    BY <2>1, <2>2
<1> QED
  BY <1>5, <1>6, <1>7, <1>8

-----------------------------------------------------------------------------
(* The inductive invariants.                                                 *)

Busy(t) == worker[t].step # "free"

\* The content of a plain file is as old as its stat, and no stat is newer than the last
\* write; a database has one of its two contents and is there for good.
TreeInv ==
    /\ \A file \in Files \ Sqlite : data[file] = stat[file]
    /\ \A file \in Sqlite : data[file] \in {1, 2} /\ stat[file] # 0
    /\ \A file \in Files : stat[file] <= writes

\* Threads work during the scan only, on files; only databases are backed up, and only
\* plain files are read directly.
WorkersInv ==
    \A t \in Threads :
        /\ worker[t].left # 0
        /\ Busy(t) => pc = "scan" /\ worker[t].path \in Files
        /\ worker[t].step = "backup" => worker[t].path \in Sqlite
        /\ worker[t].step = "read" => worker[t].path \notin Sqlite

TypeInv == TypeOK /\ TreeInv /\ WorkersInv

\* A stat that is known, and the content read under it, belong together as long as the
\* file has the stat: a write would have brought a newer one.
Current(file, known) ==
    /\ known.stat <= writes
    /\ stat[file] # 0 /\ known.stat = stat[file] /\ known.hash # 0 => known.hash = data[file]

FreshInv ==
    /\ \A file \in Files \ Sqlite : Current(file, record[file]) /\ Current(file, entry[file])
    /\ \A t \in Threads :
          Busy(t) /\ worker[t].path \notin Sqlite =>
              /\ worker[t].stat \in 1..writes
              /\ worker[t].step = "read" /\ worker[t].stat = stat[worker[t].path] =>
                    worker[t].begun = data[worker[t].path]

\* A path that has been handed out and is not a directory's turn any more.
Taken(path) == found[path] # "none" \/ \E t \in Threads : Busy(t) /\ worker[t].path = path

\* Every path is handed out once: nothing in the queue is above another entry of it or
\* above what has been handed out.
WalkInv ==
    /\ pc # "scan" => queue = {}
    /\ pc = "idle" => (\A path \in Paths : found[path] = "none") /\ staged = NothingStaged /\ calm = {}
    /\ \A p, q \in queue : ~Below(p, q)
    /\ \A p \in Paths : Taken(p) => \A q \in queue : ~Covers(q, p)
    /\ \A t, u \in Threads : Busy(t) /\ Busy(u) /\ worker[t].path = worker[u].path => t = u
    /\ \A t \in Threads : Busy(t) => found[worker[t].path] = "none"

\* A file that nobody touches is there, and what nobody touches is in the report, with a
\* thread, below an entry that still is in the queue, or lost.
Lost(path) == \E dir \in unread \cup (Excluded \cap Dirs) : Below(path, dir)

Coming(path) == \E q \in queue : Covers(q, path)

CalmInv ==
    /\ \A file \in calm \cap Files : stat[file] # 0
    /\ \A path \in calm \ {<<>>} : Taken(path) \/ Lost(path) \/ Coming(path)

\* A staging copy of a database belongs to a file of the report or to the thread that fingerprints it,
\* unless reading a copy has failed.
CopiesInv ==
    /\ \A file \in Files \ Sqlite : staged[file] = 0
    /\ \A file \in Files : staged[file] # 0 =>
          \/ found[file] = "file"
          \/ \E t \in Threads : worker[t].step = "hash" /\ worker[t].path = file
          \/ "staged" \in seen
    /\ \A t \in Threads :
          worker[t].step = "hash" /\ worker[t].path \in Sqlite => staged[worker[t].path] # 0
    /\ StagingEmptied

\* As long as nobody removes remote files: a database with a record is on the disk with
\* the content of its fingerprint, and the copy that will be uploaded is the one that
\* was fingerprinted.
FileMatches(file) ==
    /\ record[file].stat # 0 => remote[file] # 0
    /\ remote[file] # 0 => record[file].hash \in {0, remote[file]}
    /\ found[file] = "file" =>
          IF entry[file].reused THEN record[file].stat # 0
          ELSE staged[file] # 0 /\ entry[file].hash \in {0, staged[file]}
    /\ file \in todo => found[file] = "file" /\ ~entry[file].reused

UploadInv ==
    /\ todo # {} => pc = "upload"
    /\ "external" \notin seen => \A file \in Sqlite : FileMatches(file)

-----------------------------------------------------------------------------
(* Type correctness.                                                         *)

Work == [step : {"free", "backup", "hash", "read"}, path : Paths, stat : Numbers,
         begun : Numbers, left : 0..Pages, elapsed : 0..TotalTimeout - 1,
         idle : 0..IdleTimeout - 1, dirty : BOOLEAN]

\* The bounds are numbers, and the small ones are in range.
LEMMA Bounds ==
    /\ 0 \in Numbers /\ 1 \in Numbers /\ 2 \in Numbers /\ Torn \in Numbers
    /\ Numbers \subseteq Nat /\ MaxWrites \in Nat /\ 1..MaxWrites + 1 \subseteq Numbers
    /\ Pages \in 0..Pages /\ Pages # 0 /\ 0 \in 0..TotalTimeout - 1 /\ 0 \in 0..IdleTimeout - 1
    /\ <<>> \in Paths
  BY ScannerAssumption DEF Numbers, Torn, Paths

\* A thread without a file.
LEMMA FreeType == Free \in Work /\ Free.step = "free" /\ Free.left # 0
  BY Bounds DEF Free, Work

\* A thread that starts with a file.
Started(file, number, next) == [Free EXCEPT !.path = file, !.stat = number, !.step = next]

LEMMA StartedType ==
    ASSUME NEW file \in Files, NEW number \in Numbers, NEW next \in {"backup", "hash"}
    PROVE  /\ Started(file, number, next) \in Work /\ Started(file, number, next).left # 0
           /\ Started(file, number, next).step = next /\ Started(file, number, next).path = file
           /\ Started(file, number, next).stat = number
  BY Bounds DEF Free, Work, Paths, Started

\* A fault that has happened is one of the constant's.
LEMMA FaultType == ASSUME TypeOK, NEW kind, Fault(kind)
                   PROVE  seen' \in SUBSET Faults /\ kind \in seen' /\ seen \subseteq seen'
  BY DEF TypeOK, Fault

\* Ending a run leaves nothing of it.
LEMMA EndRunType ==
    ASSUME TypeOK, NEW keeps \in BOOLEAN, EndRun(keeps), UNCHANGED <<tree, record, remote>>,
           seen' \subseteq Faults, TreeInv
    PROVE  TypeInv'
<1>1. worker' \in [Threads -> Work] /\ \A t \in Threads : worker'[t] = Free
  BY FreeType DEF EndRun
<1>2. staged' \in [Files -> Numbers] /\ entry' \in [Files -> [stat : Numbers, hash : Numbers, reused : BOOLEAN]]
  BY Bounds DEF EndRun, NothingStaged, NoEntry
<1>3. TypeOK'
  BY <1>1, <1>2 DEF TypeOK, EndRun, Work, tree
<1>4. TreeInv' /\ WorkersInv'
  BY <1>1, FreeType DEF TreeInv, WorkersInv, Busy, tree
<1> QED
  BY <1>3, <1>4 DEF TypeInv

\* A thread lists its file and is free.
LEMMA DoneType ==
    ASSUME TypeInv, NEW t \in Threads, Busy(t), NEW where \in {"file", "skipped", "failed"}, Done(t, where)
    PROVE  /\ worker' \in [Threads -> Work]
           /\ found' \in [Paths -> {"none", "file", "directory", "skipped", "failed"}]
           /\ worker[t].path \in Files
           /\ found'[worker[t].path] = where
           /\ \A p \in Paths : p # worker[t].path => found'[p] = found[p]
           /\ worker'[t] = Free /\ \A u \in Threads : u # t => worker'[u] = worker[u]
<1>1. worker \in [Threads -> Work] /\ found \in [Paths -> {"none", "file", "directory", "skipped", "failed"}]
  BY DEF TypeInv, TypeOK, Work
<1>2. worker[t].path \in Files /\ Files \subseteq Paths
  BY DEF TypeInv, WorkersInv, Paths
<1>3. worker' = [worker EXCEPT ![t] = Free] /\ found' = [found EXCEPT ![worker[t].path] = where]
  BY DEF Done, Listed
<1>4. /\ worker' \in [Threads -> Work] /\ worker'[t] = Free
      /\ \A u \in Threads : u # t => worker'[u] = worker[u]
  BY <1>1, <1>3, FreeType
<1>5. /\ found' \in [Paths -> {"none", "file", "directory", "skipped", "failed"}]
      /\ found'[worker[t].path] = where
      /\ \A p \in Paths : p # worker[t].path => found'[p] = found[p]
  BY <1>1, <1>2, <1>3
<1> QED
  BY <1>2, <1>4, <1>5

\* Steps of the walk.
LEMMA WalkType ==
    ASSUME TypeInv, NEW t \in Threads, NEW path \in queue,
           VisitExcluded(t, path) \/ VisitDirectory(t, path) \/ WalkError(t, path) \/ VisitFile(t, path)
    PROVE  TypeInv'
<1> USE DEF TypeInv, tree, lasting
<1>1. path \in Paths
  BY DEF TypeOK
<1>2. ASSUME NEW where \in {"none", "file", "directory", "skipped"}, Listed(path, where)
      PROVE  found' \in [Paths -> {"none", "file", "directory", "skipped", "failed"}]
  BY <1>1, <1>2 DEF Listed, TypeOK
<1>3. ASSUME UNCHANGED <<stat, data, writes, worker, pc>>
      PROVE  TreeInv' /\ WorkersInv'
  BY <1>3 DEF TreeInv, WorkersInv, Busy
<1>4. CASE VisitExcluded(t, path)
  BY <1>2, <1>3, <1>4 DEF VisitExcluded, TypeOK
<1>5. CASE VisitDirectory(t, path)
  <2>1. Children(path) \subseteq Paths
    BY DEF Children
  <2>2. found' \in [Paths -> {"none", "file", "directory", "skipped", "failed"}]
    BY <1>2, <1>5 DEF VisitDirectory, DirectoryEntry
  <2> QED
    BY <1>3, <1>5, <2>1, <2>2 DEF VisitDirectory, TypeOK
<1>6. CASE WalkError(t, path)
  <2>1. found' \in [Paths -> {"none", "file", "directory", "skipped", "failed"}]
    BY <1>2, <1>6 DEF WalkError, DirectoryEntry
  <2>2. seen' \subseteq Faults
    BY <1>6, FaultType DEF WalkError
  <2> QED
    BY <1>3, <1>6, <2>1, <2>2 DEF WalkError, WalkContinues, TypeOK
<1>7. CASE VisitFile(t, path)
  <2>1. path \in Files /\ pc = "scan" /\ queue' \subseteq Paths
    BY <1>7 DEF VisitFile, Takes, TypeOK
  <2>2. UNCHANGED <<stat, data, writes, record, remote, stray, pc, unread, staged, todo, calm, seen>>
    BY <1>7 DEF VisitFile
  <2>3. CASE Skippable(path) /\ Listed(path, "skipped") /\ UNCHANGED <<worker, entry>>
    BY <1>2, <1>3, <2>1, <2>2, <2>3 DEF TypeOK
  <2>4. CASE /\ Listed(path, "file") /\ UNCHANGED worker
             /\ entry' = [entry EXCEPT ![path] =
                            [stat |-> stat[path], hash |-> record[path].hash, reused |-> TRUE]]
    <3>1. entry' \in [Files -> [stat : Numbers, hash : Numbers, reused : BOOLEAN]]
      BY <2>1, <2>4 DEF TypeOK
    <3> QED
      BY <1>2, <1>3, <2>1, <2>2, <2>4, <3>1 DEF TypeOK
  <2>5. CASE /\ worker' = [worker EXCEPT ![t] =
                   [Free EXCEPT !.path = path, !.stat = stat[path],
                                !.step = IF path \in Sqlite THEN "backup" ELSE "hash"]]
             /\ UNCHANGED <<found, entry>>
    <3> DEFINE step_ == IF path \in Sqlite THEN "backup" ELSE "hash"
               w == Started(path, stat[path], step_)
    <3>1. stat[path] \in Numbers /\ step_ \in {"backup", "hash"}
      BY <2>1 DEF TypeOK
    <3>2. w \in Work /\ w.left # 0 /\ w.step = step_ /\ w.path = path
      BY <2>1, <3>1, StartedType
    <3>3. worker' = [worker EXCEPT ![t] = w]
      BY <2>5 DEF Started
    <3> HIDE DEF w
    <3>4. worker' \in [Threads -> Work] /\ worker'[t] = w /\ \A u \in Threads : u # t => worker'[u] = worker[u]
      BY <3>2, <3>3 DEF TypeOK, Work
    <3>5. WorkersInv'
      BY <2>1, <2>2, <3>2, <3>4 DEF WorkersInv, Busy
    <3>6. TreeInv'
      BY <2>2 DEF TreeInv
    <3> QED
      BY <2>1, <2>2, <2>5, <3>4, <3>5, <3>6 DEF TypeOK, Work
  <2> QED
    BY <1>7, <2>3, <2>4, <2>5 DEF VisitFile
<1> QED
  BY <1>4, <1>5, <1>6, <1>7

\* When a thread becomes free or gets other work on the same file, the threads are fine.
LEMMA ThreadMoves ==
    ASSUME TypeInv, NEW t \in Threads, NEW w \in Work, UNCHANGED pc, worker' = [worker EXCEPT ![t] = w],
           w.left # 0,
           \/ w.step = "free"
           \/ /\ Busy(t) /\ w.path = worker[t].path
              /\ w.step = "backup" => w.path \in Sqlite
              /\ w.step = "read" => w.path \notin Sqlite
    PROVE  /\ worker' \in [Threads -> Work] /\ WorkersInv' /\ worker'[t] = w
           /\ \A u \in Threads : u # t => worker'[u] = worker[u]
<1>1. worker' \in [Threads -> Work] /\ worker'[t] = w /\ \A u \in Threads : u # t => worker'[u] = worker[u]
  BY DEF TypeInv, TypeOK, Work
<1> QED
  BY <1>1 DEF TypeInv, WorkersInv, Busy

\* A fingerprint goes into the report with the stat seen before the content.
LEMMA FingerprintType ==
    ASSUME TypeInv, NEW t \in Threads, Busy(t), NEW hash \in Numbers, Fingerprint(t, hash), UNCHANGED pc
    PROVE  /\ worker' \in [Threads -> Work] /\ WorkersInv'
           /\ found' \in [Paths -> {"none", "file", "directory", "skipped", "failed"}]
           /\ entry' \in [Files -> [stat : Numbers, hash : Numbers, reused : BOOLEAN]]
           /\ entry'[worker[t].path] = [stat |-> worker[t].stat, hash |-> hash, reused |-> FALSE]
           /\ \A file \in Files : file # worker[t].path => entry'[file] = entry[file]
<1>1. worker[t].path \in Files /\ worker[t].stat \in Numbers
  BY DEF TypeInv, WorkersInv, TypeOK
<1>2. worker' = [worker EXCEPT ![t] = Free]
  BY DEF Fingerprint, Done
<1> QED
  BY <1>1, <1>2, DoneType, ThreadMoves, FreeType, ZenonT(30) DEF Fingerprint, StatBeforeRead, TypeInv, TypeOK

\* A round of a backup in which it neither ends nor is given up.
BackupGoesOn(t) ==
    /\ UNCHANGED <<staged, found>>
    /\ \E w \in Work : /\ w.step = "backup" /\ w.path = worker[t].path /\ w.left # 0
                       /\ worker' = [worker EXCEPT ![t] = w]

\* A round of a backup finishes it, gives it up, or leaves pages and time.
LEMMA BackupCases ==
    ASSUME TypeInv, NEW t \in Threads, BackupStep(t)
    PROVE  BackedUp(t) \/ BackupTimesOut(t) \/ BackupGoesOn(t)
<1>0. worker[t].step = "backup"
  BY DEF BackupStep
<1>1. worker[t] \in Work /\ worker \in [Threads -> Work]
  BY DEF TypeInv, TypeOK, Work
<1>2. PICK locked \in BOOLEAN :
        LET left == Remaining(t, locked)
            elapsed == worker[t].elapsed + 1
            idle == IF left # worker[t].left \/ elapsed = 1 THEN 0 ELSE worker[t].idle + 1
        IN  \/ left = 0 /\ BackedUp(t)
            \/ left # 0 /\ TimedOut(elapsed, idle) /\ BackupTimesOut(t)
            \/ /\ left # 0 /\ ~TimedOut(elapsed, idle)
               /\ worker' = [worker EXCEPT
                      ![t].left = left, ![t].idle = idle,
                      ![t].elapsed = IF elapsed < TotalTimeout THEN elapsed ELSE @,
                      ![t].dirty = @ /\ locked]
               /\ UNCHANGED <<staged, found>>
                 BY DEF BackupStep
<1> DEFINE left == Remaining(t, locked)
           elapsed == worker[t].elapsed + 1
           idle == IF left # worker[t].left \/ elapsed = 1 THEN 0 ELSE worker[t].idle + 1
<1>3. CASE /\ left # 0 /\ ~TimedOut(elapsed, idle)
           /\ worker' = [worker EXCEPT
                  ![t].left = left, ![t].idle = idle,
                  ![t].elapsed = IF elapsed < TotalTimeout THEN elapsed ELSE @,
                  ![t].dirty = @ /\ locked]
           /\ UNCHANGED <<staged, found>>
  <2> DEFINE w == [worker[t] EXCEPT !.left = left, !.idle = idle, !.elapsed = elapsed,
                                    !.dirty = worker[t].dirty /\ locked]
  <2>1. worker[t].left \in 1..Pages /\ worker[t].elapsed \in Nat /\ worker[t].idle \in Nat
    BY <1>1, ScannerAssumption DEF Work, TypeInv, WorkersInv
  <2>2. left \in 1..Pages
    <3>1. left \in {worker[t].left, worker[t].left - 1, Pages - 1}
      BY DEF Remaining
    <3> HIDE DEF left
    <3>2. Pages \in Nat \ {0} /\ left # 0
      BY <1>3, ScannerAssumption
    <3> QED
      BY <2>1, <3>1, <3>2
  <2>3. elapsed \in 0..TotalTimeout - 1 /\ idle \in 0..IdleTimeout - 1 /\ elapsed < TotalTimeout
    <3> HIDE DEF left
    <3>1. idle \in Nat /\ elapsed \in Nat
      BY <2>1
    <3>2. elapsed < TotalTimeout /\ idle < IdleTimeout
      <4> HIDE DEF elapsed, idle
      <4> QED
        BY <1>3, <3>1, ScannerAssumption DEF TimedOut
    <3> HIDE DEF elapsed, idle
    <3> QED
      BY <3>1, <3>2, ScannerAssumption
  <2> HIDE DEF left, elapsed, idle
  <2>4. w \in Work /\ w.left # 0 /\ w.path = worker[t].path /\ w.step = "backup"
    <3>1. left \in 0..Pages /\ left # 0 /\ (worker[t].dirty /\ locked) \in BOOLEAN
      BY <2>2
    <3> QED
      BY <1>1, <1>0, <2>3, <3>1 DEF Work
  <2>5. worker' = [worker EXCEPT ![t] = w]
    BY <1>1, <1>3, <2>3 DEF Work
  <2> HIDE DEF w
  <2> QED
    BY <1>3, <2>4, <2>5 DEF BackupGoesOn
<1> QED
  BY <1>2, <1>3

\* A thread with its file: backing up, fingerprinting, giving up.
LEMMA ThreadType ==
    ASSUME TypeInv, NEW t \in Threads,
           BackupStep(t) \/ FingerprintAtOnce(t) \/ Open(t) \/ Read(t) \/ FileFails(t)
    PROVE  TypeInv'
<1> USE DEF tree, lasting
<1>1. worker[t] \in Work /\ worker \in [Threads -> Work]
  BY DEF TypeInv, TypeOK, Work
<1>2. Busy(t)
  BY DEF BackupStep, FingerprintAtOnce, Open, Read, FileFails, Busy
<1>3. worker[t].path \in Files
  BY <1>2 DEF TypeInv, WorkersInv
<1>4. UNCHANGED <<tree, lasting, pc, queue, unread, todo, calm>> /\ seen' \subseteq Faults
  BY FaultType DEF BackupStep, FingerprintAtOnce, Open, Read, FileFails, TypeInv, TypeOK
<1>5. TreeInv'
  BY <1>4 DEF TypeInv, TreeInv
<1>6. ASSUME NEW where \in {"skipped", "failed"}, Done(t, where)
      PROVE  /\ worker' \in [Threads -> Work] /\ WorkersInv'
             /\ found' \in [Paths -> {"none", "file", "directory", "skipped", "failed"}]
  <2>1. worker' = [worker EXCEPT ![t] = Free]
    BY <1>6 DEF Done
  <2> QED
    BY <1>2, <1>4, <1>6, <2>1, DoneType, ThreadMoves, FreeType, ZenonT(30)
<1>7. ASSUME worker' \in [Threads -> Work], WorkersInv',
             found' \in [Paths -> {"none", "file", "directory", "skipped", "failed"}],
             entry' \in [Files -> [stat : Numbers, hash : Numbers, reused : BOOLEAN]],
             staged' \in [Files -> Numbers]
      PROVE  TypeInv'
  BY <1>4, <1>5, <1>7 DEF TypeInv, TypeOK, Work
<1>8. /\ found \in [Paths -> {"none", "file", "directory", "skipped", "failed"}]
      /\ entry \in [Files -> [stat : Numbers, hash : Numbers, reused : BOOLEAN]]
      /\ staged \in [Files -> Numbers] /\ data \in [Files -> Numbers]
  BY DEF TypeInv, TypeOK
<1>9. CASE BackupStep(t)
  <2>1. UNCHANGED entry
    BY <1>9 DEF BackupStep
  <2>2. CASE BackedUp(t)
    <3> DEFINE w == Started(worker[t].path, worker[t].stat, "hash")
    <3>1. worker[t].stat \in Numbers
      BY <1>1 DEF Work
    <3>2. w \in Work /\ w.left # 0 /\ w.path = worker[t].path /\ w.step = "hash"
      BY <1>3, <3>1, StartedType
    <3>3. worker' = [worker EXCEPT ![t] = w]
      BY <2>2 DEF BackedUp, Started
    <3> HIDE DEF w
    <3>4. worker' \in [Threads -> Work] /\ WorkersInv'
      BY <1>2, <1>4, <3>2, <3>3, ThreadMoves
    <3>5. staged' \in [Files -> Numbers]
      BY <1>3, <1>8, <2>2 DEF BackedUp
    <3> QED
      BY <1>7, <1>8, <2>1, <2>2, <3>4, <3>5 DEF BackedUp
  <2>3. CASE BackupTimesOut(t)
    BY <1>6, <1>7, <1>8, <2>1, <2>3 DEF BackupTimesOut
  <2>4. CASE BackupGoesOn(t)
    <3>1. PICK w \in Work : /\ w.step = "backup" /\ w.path = worker[t].path /\ w.left # 0
                            /\ worker' = [worker EXCEPT ![t] = w]
      BY <2>4 DEF BackupGoesOn
    <3>2. worker[t].path \in Sqlite
      BY <1>9 DEF BackupStep, TypeInv, WorkersInv
    <3>3. worker' \in [Threads -> Work] /\ WorkersInv'
      BY <1>2, <1>4, <3>1, <3>2, ThreadMoves
    <3> QED
      BY <1>7, <1>8, <2>1, <2>4, <3>3 DEF BackupGoesOn
  <2> QED
    BY <1>9, <2>2, <2>3, <2>4, BackupCases
<1>10. CASE FingerprintAtOnce(t)
  <2>1. PICK hash \in Numbers : Fingerprint(t, hash)
    BY <1>3, <1>8, <1>10, Bounds DEF FingerprintAtOnce
  <2> QED
    BY <1>2, <1>4, <1>7, <1>8, <1>10, <2>1, FingerprintType DEF FingerprintAtOnce
<1>11. CASE Open(t)
  <2>1. UNCHANGED <<entry, staged>>
    BY <1>11 DEF Open
  <2>2. CASE Done(t, "skipped")
    BY <1>6, <1>7, <1>8, <2>1, <2>2
  <2>3. CASE /\ worker' = [worker EXCEPT ![t].step = "read", ![t].begun = data[worker[t].path]]
             /\ UNCHANGED found
    <3> DEFINE w == [worker[t] EXCEPT !.step = "read", !.begun = data[worker[t].path]]
    <3>1. w \in Work /\ w.left # 0 /\ w.path = worker[t].path /\ w.step = "read"
      BY <1>1, <1>3, <1>8 DEF Work, TypeInv, WorkersInv
    <3>2. worker' = [worker EXCEPT ![t] = w]
      BY <1>1, <2>3 DEF Work
    <3>3. worker[t].path \notin Sqlite
      BY <1>11 DEF Open
    <3> HIDE DEF w
    <3>4. worker' \in [Threads -> Work] /\ WorkersInv'
      BY <1>2, <1>4, <3>1, <3>2, <3>3, ThreadMoves
    <3> QED
      BY <1>7, <1>8, <2>1, <2>3, <3>4
  <2> QED
    BY <1>11, <2>2, <2>3 DEF Open
<1>12. CASE Read(t)
  <2>1. worker[t].begun \in Numbers /\ data[worker[t].path] \in Numbers
    BY <1>1, <1>3, <1>8 DEF Work
  <2>2. PICK hash \in Numbers : Fingerprint(t, hash)
    BY <1>12, <2>1, Bounds DEF Read
  <2> QED
    BY <1>2, <1>4, <1>7, <1>8, <1>12, <2>2, FingerprintType DEF Read
<1>13. CASE FileFails(t)
  BY <1>6, <1>7, <1>8, <1>13 DEF FileFails
<1> QED
  BY <1>9, <1>10, <1>11, <1>12, <1>13

\* What the engines do with the report.
LEMMA EngineType ==
    ASSUME TypeInv,
           \/ StartScan \/ EndScan \/ EarlyReturn \/ Stop \/ StartUploads \/ EndUploads
           \/ Cleanup \/ CleanupFails \/ Crash
           \/ \E file \in Files : Upload(file) \/ UploadSkips(file) \/ UploadFails(file) \/ RemoveRemote(file)
    PROVE  TypeInv'
<1> USE DEF tree, lasting, scan
<1>1. ASSUME NEW keeps \in BOOLEAN, EndRun(keeps), UNCHANGED <<tree, record, remote>>,
             UNCHANGED seen \/ \E kind : Fault(kind)
      PROVE  TypeInv'
  <2>1. seen' \subseteq Faults
    BY <1>1, FaultType DEF TypeInv, TypeOK
  <2> QED
    BY <1>1, <2>1, EndRunType DEF TypeInv
<1>2. CASE EarlyReturn
  BY <1>1, <1>2 DEF EarlyReturn, LeftAfterCleanup
<1>3. CASE Cleanup
  BY <1>1, <1>3 DEF Cleanup, LeftAfterCleanup
<1>4. CASE CleanupFails
  BY <1>1, <1>4 DEF CleanupFails
<1>5. CASE Crash
  BY <1>1, <1>5 DEF Crash
<1>6. ASSUME UNCHANGED <<stat, data, writes, worker>>, pc' = pc \/ \A t \in Threads : ~Busy(t)
      PROVE  TreeInv' /\ WorkersInv'
  BY <1>6 DEF TypeInv, TreeInv, WorkersInv, Busy
<1>7. pc # "scan" => \A t \in Threads : ~Busy(t)
  BY DEF TypeInv, WorkersInv
<1>8. CASE StartScan
  BY <1>6, <1>7, <1>8, Bounds DEF StartScan, TypeInv, TypeOK, Paths
<1>9. CASE EndScan
  BY <1>6, <1>9 DEF EndScan, Busy, TypeInv, TypeOK
<1>10. CASE Stop
  <2>1. seen' \subseteq Faults
    BY <1>10, FaultType DEF Stop, TypeInv
  <2> QED
    BY <1>6, <1>7, <1>10, <2>1 DEF Stop, TypeInv, TypeOK
<1>11. CASE StartUploads \/ EndUploads
  BY <1>6, <1>7, <1>11 DEF StartUploads, EndUploads, TypeInv, TypeOK
<1>12. ASSUME NEW file \in Files, Upload(file) \/ UploadSkips(file) \/ UploadFails(file) \/ RemoveRemote(file)
       PROVE  TypeInv'
  <2>1. TreeInv' /\ WorkersInv'
    BY <1>6, <1>12 DEF Upload, UploadSkips, UploadFails, RemoveRemote
  <2>2. record' \in [Files -> [stat : Numbers, hash : Numbers]]
    <3>1. UNCHANGED record \/ Recorded(file)
      BY <1>12 DEF Upload, UploadSkips, UploadFails, RemoveRemote
    <3>2. /\ record \in [Files -> [stat : Numbers, hash : Numbers]]
          /\ entry[file].stat \in Numbers /\ entry[file].hash \in Numbers
      BY DEF TypeInv, TypeOK
    <3>3. [stat |-> entry[file].stat, hash |-> entry[file].hash] \in [stat : Numbers, hash : Numbers]
      BY <3>2
    <3> HIDE DEF TypeInv
    <3> QED
      BY <3>1, <3>2, <3>3 DEF Recorded
  <2>3. remote' \in [Files -> Numbers]
    <3>1. UploadSource(file) \in Numbers
      BY DEF UploadSource, TypeInv, TypeOK
    <3> QED
      BY <1>12, <3>1, Bounds DEF Upload, UploadSkips, UploadFails, RemoveRemote, TypeInv, TypeOK
  <2>4. seen' \subseteq Faults
    BY <1>12, FaultType DEF Upload, UploadSkips, UploadFails, RemoveRemote, TypeInv, TypeOK
  <2>5. UNCHANGED <<stat, data, writes, stray, pc, queue, worker, found, entry, unread, staged, calm>>
        /\ todo' \subseteq todo
    BY <1>12 DEF Upload, UploadSkips, UploadFails, RemoveRemote
  <2> QED
    BY <2>1, <2>2, <2>3, <2>4, <2>5 DEF TypeInv, TypeOK
<1> QED
  BY <1>2, <1>3, <1>4, <1>5, <1>8, <1>9, <1>10, <1>11, <1>12

\* A commit only marks the backups of its file.
LEMMA DirtiedType ==
    ASSUME TypeInv, NEW file, Dirtied(file)
    PROVE  /\ worker' \in [Threads -> Work]
           /\ \A t \in Threads :
                 /\ worker'[t].step = worker[t].step /\ worker'[t].path = worker[t].path
                 /\ worker'[t].stat = worker[t].stat /\ worker'[t].begun = worker[t].begun
                 /\ worker'[t].left = worker[t].left
<1>1. ASSUME NEW t \in Threads
      PROVE  /\ worker'[t] \in Work
             /\ worker'[t].step = worker[t].step /\ worker'[t].path = worker[t].path
             /\ worker'[t].stat = worker[t].stat /\ worker'[t].begun = worker[t].begun
             /\ worker'[t].left = worker[t].left
  <2>1. worker[t] \in Work
    BY DEF TypeInv, TypeOK, Work
  <2>2. worker'[t] = worker[t] \/ worker'[t] = [worker[t] EXCEPT !.dirty = TRUE]
    BY DEF Dirtied
  <2> QED
    BY <2>1, <2>2 DEF Work
<1>2. DOMAIN worker' = Threads /\ worker' = [t \in Threads |-> worker'[t]]
  BY DEF Dirtied
<1> QED
  BY <1>1, <1>2

\* What other programs write keeps contents and stats in step.
LEMMA EditType ==
    ASSUME TypeInv, NEW file \in Edited, Write(file) \/ Commit(file) \/ Remove(file)
    PROVE  TypeInv'
<1> USE DEF tree, lasting, scan
<1>1. file \in Files
  BY ScannerAssumption
<1>2. /\ stat \in [Files -> Numbers] /\ data \in [Files -> Numbers] /\ writes \in 1..MaxWrites + 1
      /\ TreeInv
  BY DEF TypeInv, TypeOK
<1>3. /\ stat' \in [Files -> Numbers] /\ data' \in [Files -> Numbers] /\ writes' \in 1..MaxWrites + 1
      /\ TreeInv'
  <2>1. CASE Write(file)
    <3>1. writes' \in 1..MaxWrites + 1 /\ writes' = writes + 1
      BY <1>2, <2>1, Bounds DEF Write
    <3>2. /\ stat'[file] = writes' /\ \A f \in Files : f # file => stat'[f] = stat[f] /\ data'[f] = data[f]
          /\ data'[file] = IF file \notin Sqlite THEN writes' ELSE IF data[file] = 1 THEN 2 ELSE 1
          /\ stat' = [stat EXCEPT ![file] = writes'] /\ data' = [data EXCEPT ![file] = data'[file]]
      BY <1>1, <1>2, <2>1 DEF Write
    <3>3. writes' \in Numbers /\ data'[file] \in Numbers
      BY <3>1, <3>2, Bounds
    <3>4. stat' \in [Files -> Numbers] /\ data' \in [Files -> Numbers]
      BY <1>1, <1>2, <3>2, <3>3
    <3>5. \A f \in Files : stat'[f] <= writes'
      <4>1. writes \in Nat /\ \A f \in Files : stat[f] \in Nat /\ stat[f] <= writes
        BY <1>2, Bounds DEF TreeInv
      <4>2. \A f \in Files : stat'[f] = writes + 1 \/ stat'[f] = stat[f]
        BY <3>1, <3>2
      <4> QED
        BY <3>1, <4>1, <4>2
    <3>6. TreeInv'
      BY <1>2, <3>1, <3>2, <3>5, ScannerAssumption DEF TreeInv
    <3> QED
      BY <3>1, <3>4, <3>6
  <2>2. CASE Commit(file)
    <3>1. file \in Sqlite /\ data[file] \in {1, 2} /\ 3 - data[file] \in {1, 2}
      BY <1>2, <2>2 DEF Commit, TreeInv
    <3>2. UNCHANGED <<stat, writes>> /\ data' = [data EXCEPT ![file] = 3 - data[file]]
      BY <2>2 DEF Commit
    <3>3. /\ data' \in [Files -> Numbers] /\ data'[file] = 3 - data[file]
          /\ \A f \in Files : f # file => data'[f] = data[f]
      BY <1>1, <1>2, <3>1, <3>2, Bounds
    <3> QED
      BY <1>2, <3>1, <3>2, <3>3, ScannerAssumption DEF TreeInv
  <2>3. CASE Remove(file)
    <3>1. UNCHANGED writes /\ stat' = [stat EXCEPT ![file] = 0] /\ data' = [data EXCEPT ![file] = 0]
          /\ file \notin Sqlite
      BY <2>3 DEF Remove
    <3>2. /\ stat' \in [Files -> Numbers] /\ data' \in [Files -> Numbers]
          /\ stat'[file] = 0 /\ data'[file] = 0
          /\ \A f \in Files : f # file => stat'[f] = stat[f] /\ data'[f] = data[f]
      BY <1>1, <1>2, <3>1, Bounds
    <3>3. 0 <= writes
      BY <1>2
    <3> QED
      BY <1>2, <3>1, <3>2, <3>3, ScannerAssumption DEF TreeInv
  <2> QED
    BY <2>1, <2>2, <2>3
<1>4. worker' \in [Threads -> Work] /\ WorkersInv'
  <2>1. CASE Dirtied(file) /\ UNCHANGED pc
    BY <2>1, DirtiedType DEF TypeInv, WorkersInv, Busy
  <2>2. CASE UNCHANGED <<pc, worker>>
    BY <2>2 DEF TypeInv, TypeOK, WorkersInv, Busy, Work
  <2> QED
    BY <2>1, <2>2 DEF Write, Commit, Remove
<1>5. UNCHANGED <<lasting, pc, queue, found, entry, unread, staged, todo, seen>> /\ calm' \subseteq calm
  BY DEF Write, Commit, Remove
<1> QED
  BY <1>3, <1>4, <1>5 DEF TypeInv, TypeOK, Work

\* Init has the types.
LEMMA InitType == Init => TypeInv
<1> SUFFICES ASSUME Init PROVE TypeInv
  OBVIOUS
<1>1. PICK absent \in SUBSET (Edited \ Sqlite) :
        stat = [file \in Files |-> IF file \in absent THEN 0 ELSE 1]
  BY DEF Init
<1>2. /\ stat \in [Files -> Numbers] /\ data = stat /\ writes = 1
      /\ \A file \in Files : stat[file] \in {0, 1}
      /\ \A file \in Sqlite : stat[file] = 1
  BY <1>1, Bounds, ScannerAssumption DEF Init
<1>3. TreeInv
  BY <1>2 DEF TreeInv
<1>4. WorkersInv /\ worker \in [Threads -> Work]
  BY FreeType DEF Init, WorkersInv, Busy
<1>5. record \in [Files -> [stat : Numbers, hash : Numbers]]
      /\ entry \in [Files -> [stat : Numbers, hash : Numbers, reused : BOOLEAN]]
  BY Bounds DEF Init, NoEntry
<1>6. TypeOK
  <2>1. /\ remote \in [Files -> Numbers] /\ staged \in [Files -> Numbers]
        /\ found \in [Paths -> {"none", "file", "directory", "skipped", "failed"}]
    BY Bounds DEF Init, NothingStaged
  <2>2. writes \in 1..MaxWrites + 1
    BY <1>2, Bounds
  <2> QED
    BY <1>2, <1>4, <1>5, <2>1, <2>2 DEF Init, TypeOK, Work
<1> QED
  BY <1>3, <1>4, <1>6 DEF TypeInv

\* Every step keeps them.
LEMMA NextType == TypeInv /\ [Next]_vars => TypeInv'
<1> SUFFICES ASSUME TypeInv, [Next]_vars PROVE TypeInv'
  OBVIOUS
<1>1. CASE UNCHANGED vars
  BY <1>1 DEF vars, tree, lasting, scan, TypeInv, TypeOK, TreeInv, WorkersInv, Busy
<1>2. ASSUME NEW t \in Threads, ThreadStep(t)
      PROVE  TypeInv'
  BY <1>2, WalkType, ThreadType DEF ThreadStep
<1> QED
  BY <1>1, <1>2, EngineType, EditType DEF Next

\* Every variable of the tree, the walk and the engines keeps its type; the timeouts of
\* a backup and the numbers of contents stay in range.
THEOREM TypeCorrect == Spec => []TypeOK
<1>1. TypeInv => TypeOK
  BY DEF TypeInv
<1> QED
  BY <1>1, InitType, NextType, PTL DEF Spec

-----------------------------------------------------------------------------
(* The walk.                                                                 *)

\* Paths are sequences, and what is in a directory has it as parent.
LEMMA PathFacts ==
    /\ Paths \subseteq Seq(STRING) /\ <<>> \in Paths
    /\ \A path \in Paths : Covers(path, path) /\ Covers(<<>>, path)
    /\ \A dir \in Paths : \A child \in Children(dir) :
          child \in Paths /\ child # <<>> /\ Parent(child) = dir
<1>1. Paths \subseteq Seq(STRING) /\ <<>> \in Paths
  BY ScannerAssumption DEF Paths
<1>2. ASSUME NEW path \in Paths PROVE Covers(path, path) /\ Covers(<<>>, path)
  <2>1. path \in Seq(STRING) /\ <<>> \in Seq(STRING) /\ Len(<<>>) = 0 /\ Len(path) \in Nat
    BY <1>1
  <2>2. Covers(path, path)
    BY <2>1, CoversPointwise
  <2>3. SubSeq(path, 1, 0) = <<>>
    BY <2>1
  <2> QED
    BY <2>1, <2>2, <2>3 DEF Covers
<1> QED
  BY <1>1, <1>2 DEF Children, Parent

\* A thread with its file either goes on with it, or has it in the report and is free.
LEMMA ThreadMovesOn ==
    ASSUME TypeInv, NEW t \in Threads,
           BackupStep(t) \/ FingerprintAtOnce(t) \/ Open(t) \/ Read(t) \/ FileFails(t)
    PROVE  /\ UNCHANGED <<tree, lasting, pc, queue, unread, todo, calm>>
           /\ Busy(t) /\ worker[t].path \in Files
           /\ \A u \in Threads : u # t => worker'[u] = worker[u]
           /\ \/ /\ worker'[t] = Free /\ ~Busy(t)'
                 /\ found'[worker[t].path] # "none"
                 /\ \A p \in Paths : p # worker[t].path => found'[p] = found[p]
              \/ Busy(t)' /\ worker'[t].path = worker[t].path /\ UNCHANGED found
<1>1. UNCHANGED <<tree, lasting, pc, queue, unread, todo, calm>>
  BY DEF BackupStep, FingerprintAtOnce, Open, Read, FileFails
<1>2. Busy(t) /\ worker[t].path \in Files /\ worker[t] \in Work /\ worker \in [Threads -> Work]
  BY DEF BackupStep, FingerprintAtOnce, Open, Read, FileFails, Busy, TypeInv, TypeOK, WorkersInv, Work
<1>3. ASSUME NEW where \in {"file", "skipped", "failed"}, Done(t, where)
      PROVE  /\ worker'[t] = Free /\ ~Busy(t)'
             /\ found'[worker[t].path] # "none"
             /\ \A p \in Paths : p # worker[t].path => found'[p] = found[p]
             /\ \A u \in Threads : u # t => worker'[u] = worker[u]
  BY <1>2, <1>3, DoneType, FreeType DEF Busy
<1>4. \/ \E where \in {"file", "skipped", "failed"} : Done(t, where)
      \/ BackedUp(t)
      \/ Open(t) /\ worker' = [worker EXCEPT ![t].step = "read", ![t].begun = data[worker[t].path]] /\ UNCHANGED found
      \/ BackupGoesOn(t)
  <2>1. CASE BackupStep(t)
    BY <2>1, BackupCases DEF BackupTimesOut
  <2>2. CASE FingerprintAtOnce(t) \/ Read(t)
    BY <2>2 DEF FingerprintAtOnce, Read, Fingerprint
  <2>3. CASE Open(t)
    BY <2>3 DEF Open
  <2>4. CASE FileFails(t)
    BY <2>4 DEF FileFails
  <2> QED
    BY <2>1, <2>2, <2>3, <2>4
<1>5. ASSUME NEW w, worker' = [worker EXCEPT ![t] = w], w.step # "free", w.path = worker[t].path
      PROVE  /\ Busy(t)' /\ worker'[t].path = worker[t].path
             /\ \A u \in Threads : u # t => worker'[u] = worker[u]
  BY <1>2, <1>5 DEF Busy
<1>6. CASE BackedUp(t)
  <2> DEFINE w == [Free EXCEPT !.path = worker[t].path, !.step = "hash", !.stat = worker[t].stat]
  <2>1. w.step = "hash" /\ w.path = worker[t].path
    BY DEF Free
  <2>2. worker' = [worker EXCEPT ![t] = w] /\ UNCHANGED found
    BY <1>6 DEF BackedUp
  <2> HIDE DEF w
  <2> QED
    BY <1>1, <1>2, <1>5, <2>1, <2>2
<1>7. CASE Open(t) /\ worker' = [worker EXCEPT ![t].step = "read", ![t].begun = data[worker[t].path]] /\ UNCHANGED found
  <2> DEFINE w == [worker[t] EXCEPT !.step = "read", !.begun = data[worker[t].path]]
  <2>1. w.step = "read" /\ w.path = worker[t].path
    BY <1>2 DEF Work
  <2>2. worker' = [worker EXCEPT ![t] = w]
    BY <1>2, <1>7 DEF Work
  <2> HIDE DEF w
  <2> QED
    BY <1>1, <1>2, <1>5, <1>7, <2>1, <2>2
<1>8. CASE BackupGoesOn(t)
  BY <1>1, <1>2, <1>5, <1>8 DEF BackupGoesOn
<1> QED
  BY <1>1, <1>2, <1>3, <1>4, <1>6, <1>7, <1>8

\* A thread takes a file from the queue: it lists it at once, or starts with it.
LEMMA VisitFileCases ==
    ASSUME TypeInv, NEW t \in Threads, NEW file \in queue, VisitFile(t, file)
    PROVE  /\ file \in Files /\ ~Busy(t) /\ pc = "scan" /\ queue' = queue \ {file}
           /\ UNCHANGED <<stat, data, writes, record, remote, stray, pc, unread, staged, todo, calm, seen>>
           /\ \/ /\ UNCHANGED <<worker, entry>> /\ found'[file] = "skipped"
                 /\ \A p \in Paths : p # file => found'[p] = found[p]
              \/ /\ UNCHANGED worker /\ found'[file] = "file"
                 /\ \A p \in Paths : p # file => found'[p] = found[p]
                 /\ record[file].stat = stat[file] /\ stat[file] # 0
                 /\ entry'[file] = [stat |-> stat[file], hash |-> record[file].hash, reused |-> TRUE]
                 /\ \A f \in Files : f # file => entry'[f] = entry[f]
              \/ /\ UNCHANGED <<found, entry>> /\ Busy(t)' /\ stat[file] # 0
                 /\ worker'[t].step = (IF file \in Sqlite THEN "backup" ELSE "hash")
                 /\ worker'[t].path = file /\ worker'[t].stat = stat[file]
                 /\ \A u \in Threads : u # t => worker'[u] = worker[u]
<1>1. /\ file \in Files /\ ~Busy(t) /\ pc = "scan" /\ queue' = queue \ {file}
      /\ UNCHANGED <<stat, data, writes, record, remote, stray, pc, unread, staged, todo, calm, seen>>
  BY DEF VisitFile, Takes, Busy, tree, lasting
<1>2. ASSUME NEW where, Listed(file, where)
      PROVE  found'[file] = where /\ \A p \in Paths : p # file => found'[p] = found[p]
  BY <1>1, <1>2 DEF Listed, TypeInv, TypeOK, Paths
<1>3. CASE Skippable(file) /\ Listed(file, "skipped") /\ UNCHANGED <<worker, entry>>
  BY <1>1, <1>2, <1>3
<1>4. CASE /\ ~Skippable(file) /\ Reusable(file) /\ Listed(file, "file") /\ UNCHANGED worker
           /\ entry' = [entry EXCEPT ![file] =
                          [stat |-> stat[file], hash |-> record[file].hash, reused |-> TRUE]]
  BY <1>1, <1>2, <1>4 DEF Skippable, Reusable, TypeInv, TypeOK
<1>5. CASE /\ ~Skippable(file) /\ UNCHANGED <<found, entry>>
           /\ worker' = [worker EXCEPT ![t] =
                 [Free EXCEPT !.path = file, !.stat = stat[file],
                              !.step = IF file \in Sqlite THEN "backup" ELSE "hash"]]
  <2> DEFINE next == IF file \in Sqlite THEN "backup" ELSE "hash"
             w == Started(file, stat[file], next)
  <2>1. stat[file] \in Numbers /\ next \in {"backup", "hash"}
    BY <1>1 DEF TypeInv, TypeOK
  <2>2. w.step = next /\ w.path = file /\ w.stat = stat[file]
    BY <1>1, <2>1, StartedType
  <2>3. worker' = [worker EXCEPT ![t] = w]
    BY <1>5 DEF Started
  <2> HIDE DEF w
  <2>4. worker'[t] = w /\ \A u \in Threads : u # t => worker'[u] = worker[u]
    BY <2>3 DEF TypeInv, TypeOK
  <2>5. Busy(t)' /\ stat[file] # 0
    BY <1>5, <2>1, <2>2, <2>4 DEF Busy, Skippable
  <2> QED
    BY <1>1, <1>5, <2>2, <2>4, <2>5
<1> QED
  BY <1>3, <1>4, <1>5 DEF VisitFile

\* A directory of the queue is read, or cannot be read, or is excluded as a file can be.
LEMMA VisitOtherCases ==
    ASSUME TypeInv, NEW t \in Threads, NEW path \in queue,
           VisitExcluded(t, path) \/ VisitDirectory(t, path) \/ WalkError(t, path)
    PROVE  /\ pc = "scan" /\ UNCHANGED <<tree, lasting, pc, worker, entry, staged, todo, calm>>
           /\ path # <<>> => found'[path] \in {"skipped", "directory"}
           /\ found'[path] \in {"none", "skipped", "directory"} /\ seen \subseteq seen'
           /\ \A p \in Paths : p # path => found'[p] = found[p]
           /\ \/ path \in Excluded /\ queue' = queue \ {path} /\ UNCHANGED unread
                 /\ found'[path] = "skipped"
              \/ path \in Dirs /\ queue' = (queue \ {path}) \cup Children(path) /\ UNCHANGED unread
              \/ path \in Dirs /\ queue' = queue \ {path} /\ unread' = unread \cup {path}
<1>1. path \in Paths /\ found \in [Paths -> {"none", "file", "directory", "skipped", "failed"}]
  BY DEF TypeInv, TypeOK
<1>2. ASSUME NEW where, Listed(path, where)
      PROVE  found'[path] = where /\ \A p \in Paths : p # path => found'[p] = found[p]
  BY <1>1, <1>2 DEF Listed
<1>3. CASE VisitExcluded(t, path)
  BY <1>2, <1>3 DEF VisitExcluded, Takes, ExclusionDecision
<1>4. CASE VisitDirectory(t, path)
  BY <1>2, <1>4 DEF VisitDirectory, DirectoryEntry, Takes
<1>5. CASE WalkError(t, path)
  BY <1>2, <1>5, FaultType DEF WalkError, WalkContinues, DirectoryEntry, Takes, TypeInv
<1> QED
  BY <1>3, <1>4, <1>5

\* What is in the queue has not been handed out.
LEMMA QueuedIsNew ==
    ASSUME TypeInv, WalkInv, NEW path \in queue
    PROVE  path \in Paths /\ ~Taken(path)
  BY PathFacts DEF TypeInv, TypeOK, WalkInv

\* Taking a path keeps the rest of the queue apart from what has been handed out.
LEMMA TakingKeepsOrder ==
    ASSUME TypeInv, TypeInv', WalkInv, NEW path \in queue,
           \/ queue' = queue \ {path}
           \/ path \in Dirs /\ queue' = (queue \ {path}) \cup Children(path),
           \A p \in Paths : Taken(p)' => Taken(p) \/ p = path
    PROVE  /\ \A p, q \in queue' : ~Below(p, q)
           /\ \A p \in Paths : Taken(p)' => \A q \in queue' : ~Covers(q, p)
<1>1. /\ path \in Paths /\ queue \subseteq Paths /\ queue' \subseteq Paths
      /\ Paths \subseteq Seq(STRING)
      /\ \A p, q \in queue : ~Below(p, q)
      /\ \A p \in Paths : Taken(p) => \A q \in queue : ~Covers(q, p)
  BY PathFacts DEF TypeInv, TypeOK, WalkInv
<1>2. ASSUME NEW p \in Paths, Taken(p)', NEW q \in queue \ {path}
      PROVE  ~Covers(q, p)
  BY <1>1, <1>2 DEF Below
<1>3. CASE queue' = queue \ {path}
  BY <1>1, <1>2, <1>3
<1>4. CASE path \in Dirs /\ queue' = (queue \ {path}) \cup Children(path)
  <2>1. ASSUME NEW child \in Children(path)
        PROVE  /\ child \in Seq(STRING) /\ Below(child, path) /\ Covers(path, child)
               /\ \A q \in Seq(STRING) : Covers(q, child) => q = child \/ Covers(q, path)
    <3>1. child \in Paths /\ child # <<>> /\ Parent(child) = path
      BY <1>1, PathFacts
    <3> QED
      BY <1>1, <3>1, ParentCovers DEF Below
  <2>2. ASSUME NEW child \in Children(path), NEW q \in queue \ {path}
        PROVE  ~Below(child, q) /\ ~Below(q, child)
    <3>1. q \in Seq(STRING) /\ path \in Seq(STRING) /\ ~Below(path, q) /\ ~Below(q, path) /\ q # path
      BY <1>1
    <3>2. ~Covers(q, path)
      BY <3>1 DEF Below
    <3>3. ~Below(child, q)
      BY <2>1, <3>1, <3>2 DEF Below
    <3>4. ~Below(q, child)
      <4>1. ASSUME Covers(child, q) PROVE FALSE
        <5>1. Covers(path, q)
          BY <2>1, <3>1, <4>1, CoversTransitive
        <5> QED
          BY <3>1, <5>1 DEF Below
      <4> QED
        BY <4>1 DEF Below
    <3> QED
      BY <3>3, <3>4
  <2>3. ASSUME NEW child \in Children(path), NEW other \in Children(path)
        PROVE  ~Below(child, other)
    <3>1. ASSUME Covers(other, child), other # child PROVE FALSE
      <4>1. Covers(other, path) /\ Covers(path, other)
        BY <2>1, <3>1
      <4>2. other = path
        BY <1>1, <2>1, <4>1, CoversAntisymmetric
      <4> QED
        BY <2>1, <4>2 DEF Below
    <3> QED
      BY <3>1 DEF Below
  <2>4. ASSUME NEW child \in Children(path), NEW p \in Paths, Taken(p)'
        PROVE  ~Covers(child, p)
    <3> SUFFICES ASSUME Covers(child, p) PROVE FALSE
      OBVIOUS
    <3>1. Covers(path, p)
      BY <1>1, <2>1, CoversTransitive
    <3>2. p = path
      BY <1>1, <2>4, <3>1
    <3>3. child = path
      BY <1>1, <2>1, <3>2, CoversAntisymmetric
    <3> QED
      BY <2>1, <3>3 DEF Below
  <2> QED
    BY <1>1, <1>2, <1>4, <2>2, <2>3, <2>4
<1> QED
  BY <1>3, <1>4

\* The walk hands out every path once.
LEMMA VisitWalk ==
    ASSUME TypeInv, TypeInv', WalkInv, NEW t \in Threads, NEW path \in queue,
           VisitExcluded(t, path) \/ VisitDirectory(t, path) \/ WalkError(t, path) \/ VisitFile(t, path)
    PROVE  WalkInv'
<1>1. path \in Paths /\ ~Taken(path)
  BY QueuedIsNew
<1>2. \A u \in Threads : Busy(u) => worker[u].path # path /\ worker[u].path \in Paths
  BY <1>1 DEF Taken, TypeInv, WorkersInv, Paths
<1>3. CASE VisitExcluded(t, path) \/ VisitDirectory(t, path) \/ WalkError(t, path)
  <2>1. /\ pc = "scan" /\ UNCHANGED <<pc, worker, staged, calm>>
        /\ \A p \in Paths : p # path => found'[p] = found[p]
        /\ \/ queue' = queue \ {path}
           \/ path \in Dirs /\ queue' = (queue \ {path}) \cup Children(path)
    BY <1>3, VisitOtherCases
  <2>2. \A p \in Paths : Taken(p)' => Taken(p) \/ p = path
    BY <2>1 DEF Taken, Busy
  <2>3. /\ \A p, q \in queue' : ~Below(p, q)
        /\ \A p \in Paths : Taken(p)' => \A q \in queue' : ~Covers(q, p)
    BY <2>1, <2>2, TakingKeepsOrder
  <2> QED
    BY <1>2, <2>1, <2>3 DEF WalkInv, Busy
<1>4. CASE VisitFile(t, path)
  <2>1. /\ pc = "scan" /\ ~Busy(t) /\ queue' = queue \ {path} /\ UNCHANGED <<pc, staged, calm>>
        /\ \/ /\ UNCHANGED worker /\ \A p \in Paths : p # path => found'[p] = found[p]
           \/ /\ UNCHANGED found /\ Busy(t)' /\ worker'[t].path = path
              /\ \A u \in Threads : u # t => worker'[u] = worker[u]
    BY <1>4, VisitFileCases
  <2>2. \A p \in Paths : Taken(p)' => Taken(p) \/ p = path
    BY <2>1 DEF Taken, Busy
  <2>3. /\ \A p, q \in queue' : ~Below(p, q)
        /\ \A p \in Paths : Taken(p)' => \A q \in queue' : ~Covers(q, p)
    BY <2>1, <2>2, TakingKeepsOrder
  <2>4. \A u, v \in Threads : Busy(u)' /\ Busy(v)' /\ worker'[u].path = worker'[v].path => u = v
    BY <1>2, <2>1 DEF WalkInv, Busy
  <2>5. \A u \in Threads : Busy(u)' => found'[worker'[u].path] = "none"
    BY <1>1, <1>2, <2>1 DEF WalkInv, Busy, Taken
  <2> QED
    BY <2>1, <2>3, <2>4, <2>5 DEF WalkInv
<1> QED
  BY <1>3, <1>4

\* A thread that goes on or is done keeps its path handed out.
LEMMA ThreadWalk ==
    ASSUME TypeInv, TypeInv', WalkInv, NEW t \in Threads,
           BackupStep(t) \/ FingerprintAtOnce(t) \/ Open(t) \/ Read(t) \/ FileFails(t)
    PROVE  WalkInv' /\ \A p \in Paths : Taken(p) <=> Taken(p)'
<1>1. /\ UNCHANGED <<pc, queue, calm>> /\ Busy(t) /\ worker[t].path \in Paths
      /\ \A u \in Threads : u # t => worker'[u] = worker[u]
      /\ \/ /\ ~Busy(t)' /\ found'[worker[t].path] # "none"
            /\ \A p \in Paths : p # worker[t].path => found'[p] = found[p]
         \/ Busy(t)' /\ worker'[t].path = worker[t].path /\ UNCHANGED found
  BY ThreadMovesOn DEF Paths
<1>2. pc = "scan" /\ \A u \in Threads : Busy(u) => worker[u].path \in Paths
  BY <1>1 DEF TypeInv, WorkersInv, Paths
<1>3. \A p \in Paths : Taken(p) <=> Taken(p)'
  BY <1>1 DEF Taken, Busy
<1>4. \A u \in Threads : Busy(u)' => Busy(u) /\ worker'[u].path = worker[u].path
  BY <1>1 DEF Busy
<1>5. \A u, v \in Threads : Busy(u)' /\ Busy(v)' /\ worker'[u].path = worker'[v].path => u = v
  BY <1>4 DEF WalkInv
<1>6. \A u \in Threads : Busy(u)' => found'[worker'[u].path] = "none"
  <2> SUFFICES ASSUME NEW u \in Threads, Busy(u)' PROVE found'[worker[u].path] = "none"
    BY <1>4
  <2>1. found[worker[u].path] = "none" /\ worker[u].path \in Paths
    BY <1>2, <1>4 DEF WalkInv
  <2>2. u # t => worker[u].path # worker[t].path
    BY <1>1, <1>4 DEF WalkInv
  <2> QED
    BY <1>1, <2>1, <2>2
<1> QED
  BY <1>1, <1>2, <1>3, <1>5, <1>6 DEF WalkInv

EngineStep ==
    \/ EndScan \/ EarlyReturn \/ Stop \/ StartUploads \/ EndUploads
    \/ Cleanup \/ CleanupFails \/ Crash
    \/ \E file \in Files : Upload(file) \/ UploadSkips(file) \/ UploadFails(file) \/ RemoveRemote(file)

EditStep == \E file \in Edited : Write(file) \/ Commit(file) \/ Remove(file)

\* A step of the engines ends the run, or leaves the report as it is.
LEMMA EngineCases ==
    ASSUME TypeInv, EngineStep
    PROVE  \/ \E keeps : EndRun(keeps)
           \/ /\ UNCHANGED <<scan, calm>>
              /\ pc' = "idle" <=> pc = "idle"
              /\ pc' # "scan" /\ pc = "scan" => queue = {} /\ \A t \in Threads : ~Busy(t)
              /\ pc' = "scan" => pc = "scan"
  BY Zenon DEF EngineStep, EndScan, EarlyReturn, Stop, StartUploads, EndUploads, Cleanup, CleanupFails,
         Crash, Upload, UploadSkips, UploadFails, RemoveRemote, scan, lasting, Busy

\* An edit leaves the report and the paths of the threads as they are.
LEMMA EditCases ==
    ASSUME TypeInv, EditStep
    PROVE  /\ UNCHANGED <<lasting, pc, queue, found, entry, unread, staged, todo, seen>>
           /\ calm' \subseteq calm
           /\ \A t \in Threads :
                 /\ worker'[t].step = worker[t].step /\ worker'[t].path = worker[t].path
                 /\ worker'[t].stat = worker[t].stat /\ worker'[t].begun = worker[t].begun
           /\ writes' >= writes
           /\ \A f \in Files :
                 \/ stat'[f] = stat[f] /\ (f \notin Sqlite => data'[f] = data[f])
                 \/ f \notin calm' /\ (stat'[f] = 0 \/ stat'[f] = writes + 1)
<1>1. PICK file \in Edited : Write(file) \/ Commit(file) \/ Remove(file)
  BY DEF EditStep
<1>2. /\ file \in Files /\ stat \in [Files -> Numbers] /\ data \in [Files -> Numbers]
      /\ writes \in Nat
  BY ScannerAssumption DEF TypeInv, TypeOK
<1>3. /\ UNCHANGED <<lasting, pc, queue, found, entry, unread, staged, todo, seen>>
      /\ calm' \subseteq calm
  BY <1>1 DEF Write, Commit, Remove, scan
<1>4. \A t \in Threads :
         /\ worker'[t].step = worker[t].step /\ worker'[t].path = worker[t].path
         /\ worker'[t].stat = worker[t].stat /\ worker'[t].begun = worker[t].begun
  <2>1. Dirtied(file) \/ UNCHANGED worker
    BY <1>1 DEF Write, Commit, Remove, scan
  <2> QED
    BY <2>1, DirtiedType
<1>5. writes' = writes \/ writes' = writes + 1
  BY <1>1 DEF Write, Commit, Remove
<1>6. ASSUME NEW f \in Files
      PROVE  \/ stat'[f] = stat[f] /\ (f \notin Sqlite => data'[f] = data[f])
             \/ f \notin calm' /\ (stat'[f] = 0 \/ stat'[f] = writes + 1)
  <2>1. CASE Write(file)
    BY <1>2, <2>1 DEF Write
  <2>2. CASE Commit(file)
    BY <1>2, <2>2 DEF Commit
  <2>3. CASE Remove(file)
    BY <1>2, <2>3 DEF Remove
  <2> QED
    BY <1>1, <2>1, <2>2, <2>3
<1>7. writes' >= writes
  BY <1>2, <1>5
<1> QED
  BY <1>3, <1>4, <1>6, <1>7

\* Init establishes the order of the walk.
LEMMA InitWalk == Init => WalkInv
  BY FreeType DEF Init, WalkInv, Busy, Taken

\* Every step keeps it.
LEMMA NextWalk == TypeInv /\ TypeInv' /\ WalkInv /\ [Next]_vars => WalkInv'
<1> SUFFICES ASSUME TypeInv, TypeInv', WalkInv, [Next]_vars PROVE WalkInv'
  OBVIOUS
<1>1. ASSUME UNCHANGED <<queue, found, staged>>, calm' \subseteq calm,
             \A t \in Threads : worker'[t].step = worker[t].step /\ worker'[t].path = worker[t].path,
             pc' # "scan" => queue = {}, pc' = "idle" => pc = "idle"
      PROVE  WalkInv'
  <2>1. \A t \in Threads : Busy(t)' <=> Busy(t)
    BY <1>1 DEF Busy
  <2>2. \A p \in Paths : Taken(p)' <=> Taken(p)
    BY <1>1, <2>1 DEF Taken
  <2> QED
    BY <1>1, <2>1, <2>2 DEF WalkInv
<1>2. CASE StartScan
  <2>1. \A t \in Threads : ~Busy(t) /\ ~Busy(t)'
    BY <1>2 DEF StartScan, TypeInv, WorkersInv, scan, Busy
  <2>2. \A p \in Paths : ~Taken(p)'
    BY <1>2, <2>1 DEF StartScan, WalkInv, Taken
  <2>3. pc' = "scan" /\ queue' = {<<>>}
    BY <1>2 DEF StartScan
  <2> QED
    BY <2>1, <2>2, <2>3 DEF WalkInv, Below
<1>3. ASSUME NEW t \in Threads, ThreadStep(t)
      PROVE  WalkInv'
  BY <1>3, VisitWalk, ThreadWalk DEF ThreadStep
<1>4. ASSUME NEW keeps, EndRun(keeps)
      PROVE  WalkInv'
  <2>1. \A t \in Threads : ~Busy(t)'
    BY <1>4, FreeType DEF EndRun, Busy
  <2>2. \A p \in Paths : ~Taken(p)'
    BY <1>4, <2>1 DEF EndRun, Taken
  <2> QED
    BY <1>4, <2>1, <2>2 DEF WalkInv, EndRun
<1>5. CASE EngineStep
  <2>1. CASE \E keeps : EndRun(keeps)
    BY <1>4, <2>1
  <2>2. CASE ~ \E keeps : EndRun(keeps)
    <3>1. /\ UNCHANGED <<scan, calm>> /\ (pc' = "idle" <=> pc = "idle")
          /\ pc' # "scan" /\ pc = "scan" => queue = {}
      BY <1>5, <2>2, EngineCases
    <3> QED
      BY <1>1, <3>1 DEF scan, WalkInv
  <2> QED
    BY <2>1, <2>2
<1>6. CASE EditStep
  BY <1>1, <1>6, EditCases DEF WalkInv
<1>7. CASE UNCHANGED vars
  BY <1>1, <1>7 DEF vars, scan, WalkInv
<1> QED
  BY <1>2, <1>3, <1>5, <1>6, <1>7 DEF Next, EngineStep, EditStep

-----------------------------------------------------------------------------
(* Nothing is overlooked.                                                    *)

\* Taking an entry from the queue hands it out and puts what it holds in its place, or
\* gives it up for lost.
LEMMA VisitCalm ==
    ASSUME TypeInv, TypeInv', WalkInv, CalmInv, NEW t \in Threads, NEW path \in queue,
           VisitExcluded(t, path) \/ VisitDirectory(t, path) \/ WalkError(t, path) \/ VisitFile(t, path)
    PROVE  CalmInv'
<1> SUFFICES ASSUME NEW p \in calm \ {<<>>}
             PROVE  Taken(p)' \/ Lost(p)' \/ Coming(p)'
  BY VisitFileCases, VisitOtherCases DEF CalmInv, tree
<1>1. /\ path \in Paths /\ p \in Paths /\ Paths \subseteq Seq(STRING) /\ queue \subseteq Paths
      /\ p \in Files => stat[p] # 0
  BY PathFacts DEF TypeInv, TypeOK, CalmInv
<1>2. Ancestors(p) \subseteq Dirs /\ Dirs \cap Files = {} /\ <<>> \in Dirs \ Excluded
  BY <1>1, ScannerAssumption
<1>3. Taken(p) \/ Lost(p) \/ Coming(p)
  BY DEF CalmInv
<1>4. ASSUME Below(p, path) PROVE path \in Dirs
  <2>1. path = <<>> \/ path \in Ancestors(p)
    BY <1>1, <1>4, CoversIsAncestor DEF Below
  <2> QED
    BY <1>2, <2>1
<1>5. CASE VisitExcluded(t, path) \/ VisitDirectory(t, path) \/ WalkError(t, path)
  <2>1. /\ UNCHANGED <<worker>>
        /\ path # <<>> => found'[path] \in {"skipped", "directory"}
        /\ \A q \in Paths : q # path => found'[q] = found[q]
        /\ \/ path \in Excluded /\ queue' = queue \ {path} /\ UNCHANGED unread
           \/ path \in Dirs /\ queue' = (queue \ {path}) \cup Children(path) /\ UNCHANGED unread
           \/ path \in Dirs /\ queue' = queue \ {path} /\ unread' = unread \cup {path}
    BY <1>5, VisitOtherCases
  <2>2. CASE Taken(p) \/ p = path
    BY <1>1, <2>1, <2>2 DEF Taken, Busy
  <2>3. CASE Lost(p)
    BY <2>1, <2>3 DEF Lost
  <2>4. CASE p # path /\ Coming(p)
    <3>1. PICK q \in queue : Covers(q, p)
      BY <2>4 DEF Coming
    <3>2. CASE q # path
      BY <2>1, <3>1, <3>2 DEF Coming
    <3>3. CASE q = path
      <4>1. Below(p, path) /\ path \in Dirs
        BY <1>4, <2>4, <3>1, <3>3 DEF Below
      <4>2. CASE UNCHANGED unread /\ path \in Excluded
        BY <4>1, <4>2 DEF Lost
      <4>3. CASE unread' = unread \cup {path}
        BY <4>1, <4>3 DEF Lost
      <4>4. CASE queue' = (queue \ {path}) \cup Children(path)
        <5>1. PICK child \in Ancestors(p) \cup {p} :
                child # <<>> /\ Parent(child) = path /\ Covers(child, p)
          BY <1>1, <4>1, StepDown
        <5>2. child \in Paths /\ (child \in Files => stat[child] # 0)
          BY <1>1, <1>2, <5>1 DEF Paths
        <5>3. child \in Children(path)
          BY <5>1, <5>2 DEF Children, Parent
        <5> QED
          BY <4>4, <5>1, <5>3 DEF Coming
      <4> QED
        BY <2>1, <4>2, <4>3, <4>4
    <3> QED
      BY <3>2, <3>3
  <2> QED
    BY <1>3, <2>2, <2>3, <2>4
<1>6. CASE VisitFile(t, path)
  <2>1. /\ path \in Files /\ ~Busy(t) /\ queue' = queue \ {path} /\ UNCHANGED unread
        /\ \/ /\ UNCHANGED worker /\ found'[path] # "none"
              /\ \A q \in Paths : q # path => found'[q] = found[q]
           \/ /\ UNCHANGED found /\ Busy(t)' /\ worker'[t].path = path
              /\ \A u \in Threads : u # t => worker'[u] = worker[u]
    BY <1>6, VisitFileCases
  <2>2. CASE Taken(p) \/ p = path
    BY <1>1, <2>1, <2>2 DEF Taken, Busy
  <2>3. CASE Lost(p)
    BY <2>1, <2>3 DEF Lost
  <2>4. CASE p # path /\ Coming(p)
    <3>1. PICK q \in queue : Covers(q, p)
      BY <2>4 DEF Coming
    <3>2. q # path
      BY <1>2, <1>4, <2>1, <2>4, <3>1 DEF Below
    <3> QED
      BY <2>1, <3>1, <3>2 DEF Coming
  <2> QED
    BY <1>3, <2>2, <2>3, <2>4
<1> QED
  BY <1>5, <1>6

\* Init: no scan has begun.
LEMMA InitCalm == Init => CalmInv
  BY DEF Init, CalmInv

\* Every step keeps what nobody touches in sight.
LEMMA NextCalm == TypeInv /\ TypeInv' /\ WalkInv /\ CalmInv /\ [Next]_vars => CalmInv'
<1> SUFFICES ASSUME TypeInv, TypeInv', WalkInv, CalmInv, [Next]_vars PROVE CalmInv'
  OBVIOUS
<1>1. ASSUME UNCHANGED <<queue, unread>>, calm' \subseteq calm,
             \A p \in Paths : Taken(p) => Taken(p)',
             \A file \in calm' \cap Files : stat'[file] = stat[file]
      PROVE  CalmInv'
  <2>1. calm \subseteq Paths
    BY DEF TypeInv, TypeOK
  <2> QED
    BY <1>1, <2>1 DEF CalmInv, Lost, Coming
<1>2. CASE StartScan
  <2>1. calm' \subseteq Paths /\ \A file \in calm' \cap Files : stat'[file] # 0
    BY <1>2, ScannerAssumption DEF StartScan, tree, Paths
  <2>2. queue' = {<<>>}
    BY <1>2 DEF StartScan
  <2> QED
    BY <2>1, <2>2, PathFacts DEF CalmInv, Coming
<1>3. ASSUME NEW t \in Threads, ThreadStep(t)
      PROVE  CalmInv'
  <2>1. CASE \E path \in queue : VisitExcluded(t, path) \/ VisitDirectory(t, path) \/ WalkError(t, path)
                                \/ VisitFile(t, path)
    BY <2>1, VisitCalm
  <2>2. CASE BackupStep(t) \/ FingerprintAtOnce(t) \/ Open(t) \/ Read(t) \/ FileFails(t)
    <3>1. UNCHANGED <<tree, queue, unread, calm>>
      BY <2>2, ThreadMovesOn
    <3>2. \A p \in Paths : Taken(p) => Taken(p)'
      BY <2>2, ThreadWalk
    <3> QED
      BY <1>1, <3>1, <3>2 DEF tree
  <2> QED
    BY <1>3, <2>1, <2>2 DEF ThreadStep
<1>4. CASE EngineStep
  <2>1. CASE \E keeps : EndRun(keeps)
    BY <2>1 DEF EndRun, CalmInv
  <2>2. CASE ~ \E keeps : EndRun(keeps)
    <3>1. UNCHANGED <<scan, calm>>
      BY <1>4, <2>2, EngineCases
    <3>2. UNCHANGED stat
      BY <1>4 DEF EngineStep, EndScan, EarlyReturn, Stop, StartUploads, EndUploads, Cleanup,
                  CleanupFails, Crash, Upload, UploadSkips, UploadFails, RemoveRemote, tree
    <3> QED
      BY <1>1, <3>1, <3>2 DEF scan, Taken, Busy
  <2> QED
    BY <2>1, <2>2
<1>5. CASE EditStep
  <2>1. \A p \in Paths : Taken(p) => Taken(p)'
    BY <1>5, EditCases DEF Taken, Busy
  <2> QED
    BY <1>1, <1>5, <2>1, EditCases
<1>6. CASE UNCHANGED vars
  BY <1>1, <1>6 DEF vars, tree, scan, Taken, Busy
<1> QED
  BY <1>2, <1>3, <1>4, <1>5, <1>6 DEF Next, EngineStep, EditStep

\* Whatever tree, however many threads walk it and whatever is written, removed or
\* unreadable elsewhere: what nobody touched during the scan is in the report, unless a
\* directory above it is excluded or could not be read.
THEOREM WalkIsComplete == Spec => []NothingOverlooked
<1>1. TypeInv /\ WalkInv /\ CalmInv => NothingOverlooked
  <2> SUFFICES ASSUME TypeInv, WalkInv, CalmInv, pc = "plan", NEW path \in calm \ {<<>>}
               PROVE  found[path] # "none" \/ \E dir \in unread \cup (Excluded \cap Dirs) : Below(path, dir)
    BY DEF NothingOverlooked
  <2>1. queue = {} /\ \A t \in Threads : ~Busy(t)
    BY DEF WalkInv, TypeInv, WorkersInv
  <2> QED
    BY <2>1 DEF CalmInv, Taken, Lost, Coming
<1> QED
  BY <1>1, InitType, NextType, InitWalk, NextWalk, InitCalm, NextCalm, PTL DEF Spec

-----------------------------------------------------------------------------
(* Fingerprints.                                                             *)

\* What a thread carries belongs together.
Carries(t) ==
    Busy(t) /\ worker[t].path \notin Sqlite =>
        /\ worker[t].stat \in 1..writes
        /\ worker[t].step = "read" /\ worker[t].stat = stat[worker[t].path] =>
              worker[t].begun = data[worker[t].path]

\* Stats and what is known of them change only as given: then they still fit.
LEMMA FreshFrame ==
    ASSUME FreshInv, UNCHANGED tree,
           \A file \in Files \ Sqlite :
              /\ record'[file] = record[file] \/ Current(file, record'[file])
              /\ entry'[file] = entry[file] \/ Current(file, entry'[file]),
           \A t \in Threads : worker'[t] = worker[t] \/ Carries(t)'
    PROVE  FreshInv'
  BY DEF FreshInv, Current, Carries, Busy, tree

\* A thread takes the stat of a file as it is, and a reused entry is that of the record.
LEMMA VisitFileFresh ==
    ASSUME TypeInv, FreshInv, NEW t \in Threads, NEW file \in queue, VisitFile(t, file)
    PROVE  FreshInv'
<1>1. /\ file \in Files /\ UNCHANGED <<tree, record>>
      /\ \/ UNCHANGED <<worker, entry>>
         \/ /\ UNCHANGED worker
            /\ record[file].stat = stat[file]
            /\ entry'[file] = [stat |-> stat[file], hash |-> record[file].hash, reused |-> TRUE]
            /\ \A f \in Files : f # file => entry'[f] = entry[f]
         \/ /\ UNCHANGED entry /\ stat[file] # 0
            /\ worker'[t].step = (IF file \in Sqlite THEN "backup" ELSE "hash")
            /\ worker'[t].path = file /\ worker'[t].stat = stat[file]
            /\ \A u \in Threads : u # t => worker'[u] = worker[u]
  BY VisitFileCases DEF tree
<1>2. CASE UNCHANGED <<worker, entry>>
  BY <1>1, <1>2, FreshFrame
<1>3. CASE /\ UNCHANGED worker
           /\ record[file].stat = stat[file]
           /\ entry'[file] = [stat |-> stat[file], hash |-> record[file].hash, reused |-> TRUE]
           /\ \A f \in Files : f # file => entry'[f] = entry[f]
  <2>1. file \notin Sqlite => Current(file, entry'[file])
    BY <1>1, <1>3 DEF FreshInv, Current
  <2> QED
    BY <1>1, <1>3, <2>1, FreshFrame
<1>4. CASE /\ UNCHANGED entry /\ stat[file] # 0
           /\ worker'[t].step = (IF file \in Sqlite THEN "backup" ELSE "hash")
           /\ worker'[t].path = file /\ worker'[t].stat = stat[file]
           /\ \A u \in Threads : u # t => worker'[u] = worker[u]
  <2>1. stat[file] \in Nat /\ stat[file] <= writes /\ writes \in Nat
    BY <1>1, Bounds DEF TypeInv, TypeOK, TreeInv
  <2>2. Carries(t)'
    BY <1>1, <1>4, <2>1 DEF Carries, tree
  <2> QED
    BY <1>1, <1>4, <2>2, FreshFrame
<1> QED
  BY <1>1, <1>2, <1>3, <1>4

\* A hash is taken under the stat that was seen first: if the file still has that stat
\* at the end of the reading, nothing has been written since.
LEMMA ThreadFresh ==
    ASSUME TypeInv, FreshInv, NEW t \in Threads,
           BackupStep(t) \/ FingerprintAtOnce(t) \/ Open(t) \/ Read(t) \/ FileFails(t)
    PROVE  FreshInv'
<1> DEFINE path == worker[t].path
<1>1. /\ UNCHANGED <<tree, record>> /\ path \in Files /\ Busy(t)
      /\ \A u \in Threads : u # t => worker'[u] = worker[u]
  BY ThreadMovesOn DEF lasting
<1>2. Carries(t)
  BY DEF FreshInv, Carries
<1>3. writes \in Nat /\ worker[t].stat \in Nat /\ (path \notin Sqlite => data[path] = stat[path])
  BY <1>1, Bounds DEF TypeInv, TypeOK, TreeInv
<1>4. ASSUME NEW hash \in Numbers, Fingerprint(t, hash),
             path \notin Sqlite /\ worker[t].stat = stat[path] /\ hash # 0 => hash = data[path]
      PROVE  FreshInv'
  <2>1. /\ entry'[path] = [stat |-> worker[t].stat, hash |-> hash, reused |-> FALSE]
        /\ \A file \in Files : file # path => entry'[file] = entry[file]
    BY <1>1, <1>4, ThreadMovesOn, FingerprintType
  <2>2. path \notin Sqlite => Current(path, entry'[path])
    BY <1>1, <1>2, <1>3, <1>4, <2>1 DEF Current, Carries
  <2>3. ~Busy(t)'
    BY <1>1, <1>4, DoneType, FreeType DEF Fingerprint, Busy
  <2> QED
    BY <1>1, <2>1, <2>2, <2>3, FreshFrame DEF Carries
<1>5. ASSUME UNCHANGED entry, Carries(t)'
      PROVE  FreshInv'
  BY <1>1, <1>5, FreshFrame
<1>6. CASE FingerprintAtOnce(t)
  <2>1. PICK hash \in {0} \cup { staged[f] : f \in Files \cap Sqlite } :
          Fingerprint(t, hash) /\ (hash # 0 => path \in Sqlite)
    BY <1>1, <1>6 DEF FingerprintAtOnce
  <2>2. hash \in Numbers
    BY Bounds DEF TypeInv, TypeOK
  <2> QED
    BY <1>4, <2>1, <2>2
<1>7. CASE Read(t)
  <2>1. PICK hash \in {worker[t].begun} \cup
                      (IF data[path] \in {0, worker[t].begun} THEN {} ELSE {data[path], Torn}) :
          Fingerprint(t, hash)
    BY <1>7 DEF Read
  <2>2. path \notin Sqlite /\ worker[t].step = "read"
    BY <1>7 DEF Read, TypeInv, WorkersInv
  <2>3. worker[t].stat = stat[path] => hash = data[path]
    BY <1>1, <1>2, <2>1, <2>2 DEF Carries
  <2>4. hash \in Numbers
    BY <1>1, <2>1, Bounds DEF TypeInv, TypeOK
  <2> QED
    BY <1>4, <2>1, <2>3, <2>4
<1>8. CASE Open(t)
  <2>1. UNCHANGED entry
    BY <1>8 DEF Open
  <2>2. CASE Done(t, "skipped")
    BY <1>1, <1>5, <2>1, <2>2, DoneType, FreeType DEF Carries, Busy
  <2>3. CASE worker' = [worker EXCEPT ![t].step = "read", ![t].begun = data[path]]
    <3>1. worker'[t].begun = data[path] /\ worker'[t].path = path /\ worker'[t].stat = worker[t].stat
      BY <2>3 DEF TypeInv, TypeOK
    <3>2. Carries(t)'
      BY <1>1, <1>2, <3>1 DEF Carries, tree
    <3> QED
      BY <1>5, <2>1, <3>2
  <2> QED
    BY <1>8, <2>2, <2>3 DEF Open
<1>9. CASE FileFails(t)
  <2>1. PICK where \in {"skipped", "failed"} : Done(t, where)
    BY <1>9 DEF FileFails
  <2>2. UNCHANGED entry
    BY <1>9 DEF FileFails
  <2> QED
    BY <1>1, <1>5, <2>1, <2>2, DoneType, FreeType DEF Carries, Busy
<1>10. CASE BackupStep(t)
  <2>1. UNCHANGED entry /\ path \in Sqlite
    BY <1>10 DEF BackupStep, TypeInv, WorkersInv
  <2>2. ~Busy(t)' \/ worker'[t].path = path
    BY <1>10, ThreadMovesOn
  <2>3. Carries(t)'
    BY <2>1, <2>2 DEF Carries
  <2> QED
    BY <1>5, <2>1, <2>3
<1> QED
  BY <1>6, <1>7, <1>8, <1>9, <1>10

\* A record is written from an entry, and a run that ends leaves none.
LEMMA EngineFresh ==
    ASSUME TypeInv, FreshInv, EngineStep \/ StartScan
    PROVE  FreshInv'
<1>1. UNCHANGED tree
  BY DEF EngineStep, StartScan, EndScan, EarlyReturn, Stop, StartUploads, EndUploads, Cleanup,
         CleanupFails, Crash, Upload, UploadSkips, UploadFails, RemoveRemote
<1>2. ASSUME NEW file \in Files \ Sqlite
      PROVE  record'[file] = record[file] \/ Current(file, record'[file])
  <2>1. UNCHANGED record \/ \E f \in Files : Recorded(f)
    BY DEF EngineStep, StartScan, EndScan, EarlyReturn, Stop, StartUploads, EndUploads, Cleanup,
           CleanupFails, Crash, Upload, UploadSkips, UploadFails, RemoveRemote, lasting
  <2>2. ASSUME NEW f \in Files, Recorded(f)
        PROVE  record'[file] = record[file] \/ Current(file, record'[file])
    <3>1. record'[file] = record[file] \/ record'[file] = [stat |-> entry[file].stat, hash |-> entry[file].hash]
      BY <2>2 DEF Recorded, TypeInv, TypeOK
    <3> QED
      BY <3>1 DEF FreshInv, Current
  <2> QED
    BY <2>1, <2>2
<1>3. \/ \E keeps : EndRun(keeps)
      \/ UNCHANGED <<entry, worker>>
  BY EngineCases DEF StartScan, scan
<1>4. CASE UNCHANGED <<entry, worker>>
  BY <1>1, <1>2, <1>4, FreshFrame
<1>5. CASE \E keeps : EndRun(keeps)
  <2>1. \A file \in Files : Current(file, entry'[file])
    BY <1>5, Bounds DEF EndRun, NoEntry, Current, TypeInv, TypeOK
  <2>2. \A t \in Threads : ~Busy(t)'
    BY <1>5, FreeType DEF EndRun, Busy
  <2> QED
    BY <1>1, <1>2, <2>1, <2>2, FreshFrame DEF Carries
<1> QED
  BY <1>3, <1>4, <1>5

\* A write brings a stat that nobody knows yet, a removal none.
LEMMA EditFresh ==
    ASSUME TypeInv, FreshInv, EditStep
    PROVE  FreshInv'
<1>1. /\ UNCHANGED <<record, entry>> /\ writes' >= writes /\ writes \in Nat /\ writes' \in Nat
      /\ \A t \in Threads :
            /\ worker'[t].step = worker[t].step /\ worker'[t].path = worker[t].path
            /\ worker'[t].stat = worker[t].stat /\ worker'[t].begun = worker[t].begun
      /\ \A f \in Files \ Sqlite :
            \/ stat'[f] = stat[f] /\ data'[f] = data[f]
            \/ stat'[f] = 0
            \/ stat'[f] = writes + 1
  <2>1. writes \in Nat /\ writes' \in Nat
    BY Bounds DEF TypeInv, TypeOK, EditStep, Write, Commit, Remove
  <2> QED
    BY <2>1, EditCases DEF lasting
<1>2. ASSUME NEW file \in Files \ Sqlite, NEW known, known.stat \in Nat, Current(file, known)
      PROVE  Current(file, known)'
  BY <1>1, <1>2 DEF Current
<1>3. \A file \in Files : record[file].stat \in Nat /\ entry[file].stat \in Nat
  BY Bounds DEF TypeInv, TypeOK
<1>4. ASSUME NEW file \in Files \ Sqlite
      PROVE  Current(file, record[file])' /\ Current(file, entry[file])'
  BY <1>1, <1>2, <1>3 DEF FreshInv, Current
<1>5. ASSUME NEW t \in Threads, Busy(t)', worker'[t].path \notin Sqlite
      PROVE  /\ worker'[t].stat \in 1..writes'
             /\ worker'[t].step = "read" /\ worker'[t].stat = stat'[worker'[t].path] =>
                   worker'[t].begun = data'[worker'[t].path]
  <2>1. Busy(t) /\ worker[t].path \in Files \ Sqlite
    BY <1>1, <1>5 DEF Busy, TypeInv, WorkersInv
  <2>2. /\ worker[t].stat \in 1..writes
        /\ worker[t].step = "read" /\ worker[t].stat = stat[worker[t].path] =>
              worker[t].begun = data[worker[t].path]
    BY <2>1 DEF FreshInv
  <2> QED
    BY <1>1, <2>1, <2>2
<1> QED
  BY <1>4, <1>5 DEF FreshInv

\* Every step keeps stats and hashes together.
LEMMA NextFresh == TypeInv /\ TypeInv' /\ FreshInv /\ [Next]_vars => FreshInv'
<1> SUFFICES ASSUME TypeInv, TypeInv', FreshInv, [Next]_vars PROVE FreshInv'
  OBVIOUS
<1>1. ASSUME NEW t \in Threads, NEW path \in queue,
             VisitExcluded(t, path) \/ VisitDirectory(t, path) \/ WalkError(t, path)
      PROVE  FreshInv'
  BY <1>1, VisitOtherCases, FreshFrame DEF lasting
<1>2. ASSUME NEW t \in Threads, ThreadStep(t)
      PROVE  FreshInv'
  BY <1>1, <1>2, VisitFileFresh, ThreadFresh DEF ThreadStep
<1>3. CASE UNCHANGED vars
  BY <1>3, FreshFrame DEF vars, lasting, scan
<1> QED
  BY <1>2, <1>3, EngineFresh, EditFresh DEF Next, EngineStep, EditStep

\* Init: nothing is known.
LEMMA InitFresh == Init => FreshInv
  BY FreeType DEF Init, FreshInv, Current, Busy, NoEntry

\* For plain files: as long as a file has the stat of a record or an entry, the hash in it
\* is that of its content, also when it was written while it was read, whatever number of
\* threads and writes.  What reuses a record by its stat therefore reuses the right hash.
THEOREM FingerprintsFit == Spec => []FingerprintsAreCurrent
<1>1. FreshInv => FingerprintsAreCurrent
  BY DEF FreshInv, Current, FingerprintsAreCurrent
<1> QED
  BY <1>1, InitType, NextType, InitFresh, NextFresh, PTL DEF Spec

-----------------------------------------------------------------------------
(* Staging copies.                                                           *)

\* Who answers for the copy of a file.
Answered(file) ==
    staged[file] # 0 =>
        \/ found[file] = "file"
        \/ \E t \in Threads : worker[t].step = "hash" /\ worker[t].path = file
        \/ "staged" \in seen

\* The walk does not touch files with a copy: they have been handed out.
LEMMA VisitCopies ==
    ASSUME TypeInv, WalkInv, CopiesInv, NEW t \in Threads, NEW path \in queue,
           VisitExcluded(t, path) \/ VisitDirectory(t, path) \/ WalkError(t, path) \/ VisitFile(t, path)
    PROVE  CopiesInv'
<1>1. /\ UNCHANGED <<staged, stray>> /\ seen \subseteq seen'
      /\ \A p \in Paths : p # path => found'[p] = found[p]
      /\ \A u \in Threads : \/ worker'[u] = worker[u]
                            \/ ~Busy(u) /\ worker'[u].step = (IF path \in Sqlite THEN "backup" ELSE "hash")
                               /\ worker'[u].path = path
  BY VisitFileCases, VisitOtherCases DEF lasting
<1>2. ~Taken(path)
  BY QueuedIsNew
<1>3. ASSUME NEW file \in Files
      PROVE  Answered(file)'
  <2>1. Answered(file)
    BY DEF CopiesInv, Answered
  <2>2. \A u \in Threads : Busy(u) => worker'[u] = worker[u]
    BY <1>1
  <2>3. (\E u \in Threads : worker[u].step = "hash" /\ worker[u].path = file)
          => \E u \in Threads : worker'[u].step = "hash" /\ worker'[u].path = file
    BY <2>2 DEF Busy
  <2>4. CASE file # path
    BY <1>1, <2>1, <2>3, <2>4 DEF Answered, Paths
  <2>5. CASE file = path
    BY <1>1, <1>2, <2>1, <2>3, <2>5 DEF Answered, Taken
  <2> QED
    BY <2>4, <2>5
<1>4. ASSUME NEW u \in Threads, worker'[u].step = "hash", worker'[u].path \in Sqlite
      PROVE  staged'[worker'[u].path] # 0
  BY <1>1, <1>4 DEF CopiesInv
<1>5. StagingEmptied'
  BY <1>1 DEF CopiesInv, StagingEmptied
<1> QED
  BY <1>1, <1>3, <1>4, <1>5 DEF CopiesInv, Answered

\* A copy belongs to its thread until the file is listed.
LEMMA ThreadCopies ==
    ASSUME TypeInv, WalkInv, CopiesInv, NEW t \in Threads,
           BackupStep(t) \/ FingerprintAtOnce(t) \/ Open(t) \/ Read(t) \/ FileFails(t)
    PROVE  CopiesInv'
<1>0. PICK path : path = worker[t].path
  OBVIOUS
<1> USE <1>0
<1>1. /\ UNCHANGED stray /\ Busy(t) /\ path \in Files /\ Files \subseteq Paths
      /\ \A u \in Threads : u # t => worker'[u] = worker[u]
      /\ worker'[t] = Free \/ worker'[t].path = path
      /\ \A p \in Paths : p # path => found'[p] = found[p]
  BY ThreadMovesOn DEF lasting, Paths
<1>2. seen \subseteq seen'
  BY FaultType DEF BackupStep, FingerprintAtOnce, Open, Read, FileFails, TypeInv
<1>3. \A u \in Threads : Busy(u) /\ u # t => worker[u].path # path
  BY <1>1 DEF WalkInv
<1>4. /\ found[path] = "none" /\ Answered(path)
      /\ path \notin Sqlite => staged[path] = 0
  BY <1>1 DEF WalkInv, CopiesInv, Answered
<1>5. ASSUME \A file \in Files : file # path => staged'[file] = staged[file],
             path \notin Sqlite => staged'[path] = 0, Answered(path)',
             worker'[t].step = "hash" /\ path \in Sqlite => staged'[path] # 0
      PROVE  CopiesInv'
  <2>1. ASSUME NEW file \in Files
        PROVE  Answered(file)'
    <3>1. CASE file = path
      BY <1>5, <3>1
    <3>2. CASE file # path
      <4>1. (\E u \in Threads : worker[u].step = "hash" /\ worker[u].path = file)
              => \E u \in Threads : worker'[u].step = "hash" /\ worker'[u].path = file
        BY <1>1, <3>2
      <4>2. Answered(file)
        BY DEF CopiesInv, Answered
      <4>3. found'[file] = found[file] /\ staged'[file] = staged[file]
        BY <1>1, <1>5, <3>2
      <4> QED
        BY <1>2, <4>1, <4>2, <4>3 DEF Answered
    <3> QED
      BY <3>1, <3>2
  <2>2. ASSUME NEW u \in Threads, worker'[u].step = "hash", worker'[u].path \in Sqlite
        PROVE  staged'[worker'[u].path] # 0
    <3>1. CASE u = t
      BY <1>1, <1>5, <2>2, <3>1, FreeType
    <3>2. CASE u # t
      <4>1. Busy(u) /\ worker[u].path \in Files /\ worker'[u] = worker[u]
        BY <1>1, <2>2, <3>2 DEF Busy, TypeInv, WorkersInv
      <4> QED
        BY <1>3, <1>5, <2>2, <3>2, <4>1 DEF CopiesInv
    <3> QED
      BY <3>1, <3>2
  <2>3. \A file \in Files \ Sqlite : staged'[file] = 0
    BY <1>5 DEF CopiesInv
  <2> QED
    BY <1>1, <1>2, <2>1, <2>2, <2>3 DEF CopiesInv, StagingEmptied, Answered
<1>6. ASSUME UNCHANGED staged, worker'[t].step = "hash" => worker[t].step = "hash",
             \/ found'[path] = "file" \/ "staged" \in seen'
             \/ path \notin Sqlite \/ worker[t].step # "hash"
      PROVE  CopiesInv'
  <2>1. Answered(path)'
    <3>1. worker[t].step # "hash" => staged[path] = 0 \/ "staged" \in seen
      BY <1>3, <1>4 DEF Answered, Busy
    <3>2. staged[path] = 0 \/ found'[path] = "file" \/ "staged" \in seen'
      BY <1>2, <1>4, <1>6, <3>1
    <3> QED
      BY <1>6, <3>2 DEF Answered
  <2> QED
    BY <1>4, <1>5, <1>6, <2>1 DEF CopiesInv
<1>7. ASSUME NEW where \in {"file", "skipped", "failed"}, Done(t, where)
      PROVE  worker'[t].step = "free" /\ found'[path] = where
  BY <1>1, <1>7, DoneType, FreeType
<1>8. CASE BackupStep(t)
  <2>1. worker[t].step = "backup" /\ path \in Sqlite
    BY <1>8 DEF BackupStep, TypeInv, WorkersInv
  <2>2. CASE BackedUp(t)
    <3>1. /\ staged' = [staged EXCEPT ![path] = data[path]]
          /\ worker'[t].step = "hash" /\ worker'[t].path = path
      BY <2>2, FreeType DEF BackedUp, TypeInv, TypeOK, Work
    <3>2. staged'[path] # 0 /\ \A file \in Files : file # path => staged'[file] = staged[file]
      <4>1. data[path] # 0
        BY <2>1 DEF TypeInv, TreeInv
      <4>2. staged \in [Files -> Numbers]
        BY DEF TypeInv, TypeOK
      <4> QED
        BY <1>1, <3>1, <4>1, <4>2
    <3> QED
      BY <1>5, <2>1, <3>1, <3>2 DEF Answered
  <2>3. CASE BackupTimesOut(t)
    BY <1>6, <1>7, <2>1, <2>3 DEF BackupTimesOut
  <2>4. CASE BackupGoesOn(t)
    <3>1. UNCHANGED staged /\ worker'[t].step = "backup"
      BY <2>4 DEF BackupGoesOn, TypeInv, TypeOK
    <3> QED
      BY <1>6, <2>1, <3>1
  <2> QED
    BY <1>8, <2>2, <2>3, <2>4, BackupCases
<1>9. CASE FingerprintAtOnce(t) \/ Read(t)
  <2>1. Done(t, "file") /\ UNCHANGED staged
    BY <1>9 DEF FingerprintAtOnce, Read, Fingerprint
  <2> QED
    BY <1>6, <1>7, <2>1
<1>10. CASE Open(t)
  <2>1. UNCHANGED staged /\ path \notin Sqlite
    BY <1>10 DEF Open
  <2>2. worker'[t].step # "hash"
    BY <1>7, <1>10 DEF Open, TypeInv, TypeOK
  <2> QED
    BY <1>6, <2>1, <2>2
<1>11. CASE FileFails(t)
  <2>1. UNCHANGED staged /\ worker'[t].step = "free"
    BY <1>7, <1>11 DEF FileFails
  <2>2. worker[t].step = "hash" /\ path \in Sqlite => "staged" \in seen'
    BY <1>11, FaultType DEF FileFails, TypeInv
  <2> QED
    BY <1>6, <2>1, <2>2
<1> QED
  BY <1>8, <1>9, <1>10, <1>11

\* A run that ends leaves copies for the reasons listed, and for no other.
LEMMA EngineCopies ==
    ASSUME TypeInv, CopiesInv, EngineStep
    PROVE  CopiesInv'
<1>1. ASSUME NEW keeps, EndRun(keeps), seen \subseteq seen',
             keeps => seen' \cap {"crash", "staged", "unlink", "sync_early"} # {}
      PROVE  CopiesInv'
  <2>1. \A t \in Threads : worker'[t].step = "free"
    BY <1>1, FreeType DEF EndRun
  <2>2. \A file \in Files : staged'[file] = 0
    BY <1>1 DEF EndRun, NothingStaged
  <2>3. StagingEmptied'
    BY <1>1 DEF EndRun, CopiesInv, StagingEmptied
  <2> QED
    BY <2>1, <2>2, <2>3 DEF CopiesInv
<1>2. ASSUME pc \in {"plan", "cleanup"}, LeftAfterCleanup
      PROVE  "staged" \in seen
  <2>1. \A t \in Threads : worker[t].step # "hash"
    BY <1>2 DEF TypeInv, WorkersInv, Busy
  <2> QED
    BY <1>2, <2>1 DEF LeftAfterCleanup, Cleaned, CopiesInv
<1>3. ASSUME NEW what, Fault(what)
      PROVE  what \in seen' /\ seen \subseteq seen'
  BY <1>3 DEF Fault
<1>4. CASE EarlyReturn
  <2>1. CASE Fault("sync_early") /\ EndRun(staged # NothingStaged)
    BY <1>1, <1>3, <2>1
  <2>2. CASE Fault("migration_early") /\ EndRun(LeftAfterCleanup)
    <3>1. LeftAfterCleanup => "staged" \in seen'
      BY <1>2, <1>3, <1>4, <2>2 DEF EarlyReturn
    <3> QED
      BY <1>1, <1>3, <2>2, <3>1
  <2> QED
    BY <1>4, <2>1, <2>2 DEF EarlyReturn
<1>5. CASE Cleanup
  BY <1>1, <1>2, <1>5 DEF Cleanup
<1>6. CASE CleanupFails
  BY <1>1, <1>3, <1>6 DEF CleanupFails
<1>7. CASE Crash
  BY <1>1, <1>3, <1>7 DEF Crash
<1>8. CASE ~(EarlyReturn \/ Cleanup \/ CleanupFails \/ Crash)
  <2>1. UNCHANGED <<scan, stray>> /\ seen \subseteq seen'
    BY <1>3, <1>8 DEF EngineStep, EndScan, Stop, StartUploads, EndUploads, Upload, UploadSkips,
                      UploadFails, RemoveRemote, scan, lasting
  <2> QED
    BY <2>1 DEF CopiesInv, StagingEmptied, scan
<1> QED
  BY <1>4, <1>5, <1>6, <1>7, <1>8

\* Every step keeps the copies answered for.
LEMMA NextCopies == TypeInv /\ WalkInv /\ CopiesInv /\ [Next]_vars => CopiesInv'
<1> SUFFICES ASSUME TypeInv, WalkInv, CopiesInv, [Next]_vars PROVE CopiesInv'
  OBVIOUS
<1>1. ASSUME NEW t \in Threads, ThreadStep(t)
      PROVE  CopiesInv'
  BY <1>1, VisitCopies, ThreadCopies DEF ThreadStep
<1>2. ASSUME UNCHANGED <<stray, found, staged, seen>>,
             \A t \in Threads : worker'[t].step = worker[t].step /\ worker'[t].path = worker[t].path
      PROVE  CopiesInv'
  BY <1>2 DEF CopiesInv, StagingEmptied
<1>3. CASE EditStep
  BY <1>2, <1>3, EditCases DEF lasting
<1>4. CASE StartScan \/ UNCHANGED vars
  BY <1>2, <1>4 DEF StartScan, vars, lasting, scan
<1> QED
  BY <1>1, <1>3, <1>4, EngineCopies DEF Next, EngineStep, EditStep

\* Init: no copies.
LEMMA InitCopies == Init => CopiesInv
  BY FreeType DEF Init, CopiesInv, StagingEmptied, NothingStaged

\* Staging copies outlive a run only for the reasons listed, however many backups are
\* under way, time out, fail or are fingerprinted when it ends.
THEOREM CopiesAreRemoved == Spec => []StagingEmptied
<1>1. CopiesInv => StagingEmptied
  BY DEF CopiesInv
<1> QED
  BY <1>1, InitType, NextType, InitWalk, NextWalk, InitCopies, NextCopies, PTL DEF Spec

-----------------------------------------------------------------------------
(* What is uploaded of a database.                                           *)

\* A step that does not touch the database's copy, record and remote file, and lists no
\* new fingerprint of it, keeps them matching.
LEMMA UploadFrame ==
    ASSUME UploadInv, UNCHANGED <<record, remote, todo, pc>>, seen \subseteq seen',
           \A file \in Sqlite : \/ UNCHANGED <<found[file], entry[file], staged[file]>>
                               \/ FileMatches(file)' \/ "external" \in seen
    PROVE  UploadInv'
  BY DEF UploadInv, FileMatches

\* The walk lists a known database with its record.
LEMMA VisitUpload ==
    ASSUME TypeInv, WalkInv, UploadInv, NEW t \in Threads, NEW path \in queue,
           VisitExcluded(t, path) \/ VisitDirectory(t, path) \/ WalkError(t, path) \/ VisitFile(t, path)
    PROVE  UploadInv'
<1>1. Sqlite \subseteq Files /\ Files \subseteq Paths
  BY ScannerAssumption DEF Paths
<1>2. CASE VisitExcluded(t, path) \/ VisitDirectory(t, path) \/ WalkError(t, path)
  <2>1. /\ pc = "scan" /\ UNCHANGED <<record, remote, pc, entry, staged, todo>>
        /\ found'[path] # "file" /\ seen \subseteq seen'
        /\ \A p \in Paths : p # path => found'[p] = found[p]
    BY <1>2, VisitOtherCases DEF lasting
  <2>2. ASSUME NEW file \in Sqlite, "external" \notin seen
        PROVE  FileMatches(file)'
    <3>1. FileMatches(file) /\ todo = {}
      BY <2>1, <2>2 DEF UploadInv
    <3> QED
      BY <1>1, <2>1, <3>1 DEF FileMatches
  <2> QED
    BY <2>1, <2>2, UploadFrame
<1>3. CASE VisitFile(t, path)
  <2>1. /\ pc = "scan" /\ UNCHANGED <<record, remote, pc, staged, todo, seen>>
        /\ \A p \in Paths : p # path => found'[p] = found[p]
        /\ \A f \in Files : f # path => entry'[f] = entry[f]
        /\ \/ found'[path] = "skipped"
           \/ found'[path] = "file" /\ record[path].stat # 0 /\ entry'[path].reused
           \/ UNCHANGED <<found, entry>>
    <3>1. /\ path \in Files /\ pc = "scan"
          /\ UNCHANGED <<record, remote, pc, staged, todo, seen>>
      BY <1>3, VisitFileCases
    <3>2. CASE /\ UNCHANGED <<worker, entry>> /\ found'[path] = "skipped"
               /\ \A p \in Paths : p # path => found'[p] = found[p]
      BY <3>1, <3>2
    <3>3. CASE /\ UNCHANGED worker /\ found'[path] = "file"
               /\ \A p \in Paths : p # path => found'[p] = found[p]
               /\ record[path].stat = stat[path] /\ stat[path] # 0
               /\ entry'[path] = [stat |-> stat[path], hash |-> record[path].hash, reused |-> TRUE]
               /\ \A f \in Files : f # path => entry'[f] = entry[f]
      <4>1. entry'[path].reused
        BY <3>3
      <4> QED
        BY <3>1, <3>3, <4>1
    <3>4. CASE UNCHANGED <<found, entry>>
      BY <3>1, <3>4
    <3> QED
      BY <1>3, <3>2, <3>3, <3>4, VisitFileCases
  <2>2. ASSUME NEW file \in Sqlite, "external" \notin seen
        PROVE  FileMatches(file)'
    <3>1. FileMatches(file) /\ todo = {}
      BY <2>1, <2>2 DEF UploadInv
    <3>2. CASE file = path
      BY <1>1, <2>1, <3>1, <3>2 DEF FileMatches
    <3>3. CASE file # path
      BY <1>1, <2>1, <3>1, <3>3 DEF FileMatches
    <3> QED
      BY <3>2, <3>3
  <2> QED
    BY <2>1, <2>2, UploadFrame
<1> QED
  BY <1>2, <1>3

\* A database is fingerprinted from its copy, and its copy is made before it is listed.
LEMMA ThreadUpload ==
    ASSUME TypeInv, WalkInv, CopiesInv, UploadInv, NEW t \in Threads,
           BackupStep(t) \/ FingerprintAtOnce(t) \/ Open(t) \/ Read(t) \/ FileFails(t)
    PROVE  UploadInv'
<1>0. PICK path : path = worker[t].path
  OBVIOUS
<1> USE <1>0
<1>1. /\ pc = "scan" /\ UNCHANGED <<record, remote, pc, todo>> /\ path \in Files /\ Busy(t)
      /\ \A p \in Paths : p # path => found'[p] = found[p]
      /\ Sqlite \subseteq Files /\ Files \subseteq Paths
  BY ThreadMovesOn, ScannerAssumption DEF lasting, Paths, TypeInv, WorkersInv
<1>2. seen \subseteq seen'
  BY FaultType DEF BackupStep, FingerprintAtOnce, Open, Read, FileFails, TypeInv
<1>3. found[path] = "none" /\ todo = {}
  BY <1>1 DEF WalkInv, UploadInv
<1>4. ASSUME \A file \in Files : file # path => UNCHANGED <<entry[file], staged[file]>>,
             path \in Sqlite /\ found'[path] = "file" =>
                ~entry'[path].reused /\ staged'[path] # 0 /\ entry'[path].hash \in {0, staged'[path]}
      PROVE  UploadInv'
  <2>1. ASSUME NEW file \in Sqlite, "external" \notin seen
        PROVE  FileMatches(file)'
    <3>1. FileMatches(file)
      BY <2>1 DEF UploadInv
    <3>2. CASE file = path
      BY <1>1, <1>3, <1>4, <3>1, <3>2 DEF FileMatches
    <3>3. CASE file # path
      BY <1>1, <1>3, <1>4, <3>1, <3>3 DEF FileMatches
    <3> QED
      BY <3>2, <3>3
  <2> QED
    BY <1>1, <1>2, <2>1, UploadFrame
<1>5. CASE BackupStep(t)
  <2>1. UNCHANGED entry /\ \A file \in Files : file # path => staged'[file] = staged[file]
    BY <1>1, <1>5, BackupCases
    DEF BackupStep, BackedUp, BackupTimesOut, BackupGoesOn, TypeInv, TypeOK
  <2>2. found'[path] # "file"
    <3>1. CASE BackupTimesOut(t)
      BY <1>1, <3>1, DoneType DEF BackupTimesOut
    <3>2. CASE ~BackupTimesOut(t)
      BY <1>3, <1>5, <3>2, BackupCases DEF BackedUp, BackupGoesOn
    <3> QED
      BY <3>1, <3>2
  <2> QED
    BY <1>4, <2>1, <2>2
<1>6. CASE FingerprintAtOnce(t)
  <2>1. PICK hash : hash = (IF Large(t) THEN 0 ELSE staged[path]) /\ Fingerprint(t, hash)
    BY <1>6 DEF FingerprintAtOnce
  <2>2. hash \in Numbers /\ worker[t].step = "hash" /\ UNCHANGED staged
    BY <1>1, <1>6, <2>1, Bounds DEF FingerprintAtOnce, TypeInv, TypeOK
  <2>3. /\ entry'[path] = [stat |-> worker[t].stat, hash |-> hash, reused |-> FALSE]
        /\ \A file \in Files : file # path => entry'[file] = entry[file]
    BY <1>1, <2>1, <2>2, FingerprintType
  <2>4. path \in Sqlite => staged[path] # 0
    BY <2>2 DEF CopiesInv
  <2> QED
    BY <1>4, <2>1, <2>2, <2>3, <2>4
<1>7. CASE Read(t)
  <2>1. PICK hash : Fingerprint(t, hash)
    BY <1>7 DEF Read
  <2>2. path \notin Sqlite /\ UNCHANGED staged
    BY <1>7 DEF Read, TypeInv, WorkersInv
  <2>3. \A file \in Files : file # path => entry'[file] = entry[file]
    BY <1>1, <2>1 DEF Fingerprint, TypeInv, TypeOK
  <2> QED
    BY <1>4, <2>2, <2>3
<1>8. CASE Open(t)
  <2>1. UNCHANGED <<entry, staged>> /\ path \notin Sqlite
    BY <1>8 DEF Open
  <2> QED
    BY <1>4, <2>1
<1>9. CASE FileFails(t)
  <2>1. PICK where \in {"skipped", "failed"} : Done(t, where)
    BY <1>9 DEF FileFails
  <2>2. found'[path] = where /\ UNCHANGED <<entry, staged>>
    BY <1>1, <1>9, <2>1, DoneType DEF FileFails
  <2> QED
    BY <1>4, <2>2
<1> QED
  BY <1>5, <1>6, <1>7, <1>8, <1>9

\* An upload takes the copy that was fingerprinted, and the record its fingerprint.
LEMMA EngineUpload ==
    ASSUME TypeInv, UploadInv, EngineStep
    PROVE  UploadInv'
<1>1. Sqlite \subseteq Files /\ seen \subseteq seen'
  <2>1. UNCHANGED seen \/ \E what : Fault(what)
    BY DEF EngineStep, EndScan, EarlyReturn, Stop, StartUploads, EndUploads, Cleanup, CleanupFails,
           Crash, Upload, UploadSkips, UploadFails, RemoveRemote
  <2> QED
    BY <2>1, ScannerAssumption DEF Fault
<1>2. ASSUME NEW keeps, EndRun(keeps), UNCHANGED <<record, remote>>
      PROVE  UploadInv'
  BY <1>1, <1>2, ScannerAssumption DEF EndRun, UploadInv, FileMatches, Paths
<1>3. CASE EarlyReturn \/ Cleanup \/ CleanupFails \/ Crash
  BY <1>2, <1>3 DEF EarlyReturn, Cleanup, CleanupFails, Crash
<1>4. CASE EndScan \/ Stop \/ EndUploads
  <2>1. /\ UNCHANGED <<record, remote, found, entry, staged>>
        /\ pc' # "upload" /\ todo' = {}
    BY <1>4 DEF EndScan, Stop, EndUploads, lasting, scan, UploadInv
  <2> QED
    BY <1>1, <2>1 DEF UploadInv, FileMatches
<1>5. CASE StartUploads
  <2>1. /\ UNCHANGED <<record, remote, found, entry, staged, seen>> /\ pc' = "upload"
        /\ todo' = { file \in Files : found[file] = "file" /\ (~entry[file].reused \/ remote[file] = 0) }
    BY <1>5 DEF StartUploads, lasting, scan
  <2> QED
    BY <1>1, <2>1 DEF UploadInv, FileMatches
<1>6. ASSUME NEW file \in Files, UploadFails(file)
      PROVE  UploadInv'
  <2>1. UNCHANGED <<record, remote, found, entry, staged, pc>> /\ todo' = todo \ {file} /\ pc = "upload"
    BY <1>6 DEF UploadFails, lasting, scan
  <2> QED
    BY <1>1, <2>1 DEF UploadInv, FileMatches
<1>7. ASSUME NEW file \in Files, RemoveRemote(file)
      PROVE  UploadInv'
  <2>1. "external" \in seen' /\ UNCHANGED <<todo, pc>>
    BY <1>7 DEF RemoveRemote, Fault
  <2> QED
    BY <2>1 DEF UploadInv
<1>8. ASSUME NEW file \in Files, Upload(file) \/ UploadSkips(file)
      PROVE  UploadInv'
  <2>1. /\ UNCHANGED <<found, entry, staged, pc, seen>> /\ pc = "upload" /\ file \in todo
        /\ todo' = todo \ {file}
        /\ record' = [record EXCEPT ![file] = [stat |-> entry[file].stat, hash |-> entry[file].hash]]
    BY <1>8 DEF Upload, UploadSkips, Recorded, scan
  <2>2. ASSUME NEW other \in Sqlite, "external" \notin seen
        PROVE  FileMatches(other)'
    <3>1. FileMatches(other) /\ other \in Files
      BY <1>1, <2>2 DEF UploadInv
    <3>2. CASE other # file
      <4>1. record'[other] = record[other] /\ remote'[other] = remote[other]
        BY <1>8, <2>1, <3>1, <3>2 DEF Upload, UploadSkips, TypeInv, TypeOK
      <4> QED
        BY <2>1, <3>1, <4>1 DEF FileMatches
    <3>3. CASE other = file
      <4>1. staged[file] # 0 /\ entry[file].hash \in {0, staged[file]} /\ ~entry[file].reused
        BY <2>1, <3>1, <3>3 DEF FileMatches
      <4>2. UploadSource(file) = staged[file] /\ remote'[file] = staged[file]
        BY <1>8, <4>1 DEF Upload, UploadSkips, UploadSource, TypeInv, TypeOK
      <4>3. record'[file].hash = entry[file].hash
        BY <2>1 DEF TypeInv, TypeOK
      <4> QED
        BY <2>1, <3>1, <3>3, <4>1, <4>2, <4>3 DEF FileMatches
    <3> QED
      BY <3>2, <3>3
  <2> QED
    BY <2>1, <2>2 DEF UploadInv
<1> QED
  BY <1>3, <1>4, <1>5, <1>6, <1>7, <1>8 DEF EngineStep

\* Every step keeps the disk and the records of databases matching.
LEMMA NextUpload == TypeInv /\ WalkInv /\ CopiesInv /\ UploadInv /\ [Next]_vars => UploadInv'
<1> SUFFICES ASSUME TypeInv, WalkInv, CopiesInv, UploadInv, [Next]_vars PROVE UploadInv'
  OBVIOUS
<1>1. ASSUME NEW t \in Threads, ThreadStep(t)
      PROVE  UploadInv'
  BY <1>1, VisitUpload, ThreadUpload DEF ThreadStep
<1>2. CASE EditStep
  BY <1>2, EditCases, UploadFrame DEF lasting
<1>3. CASE StartScan
  <2>1. UNCHANGED <<record, remote, found, entry, staged, todo, seen>> /\ pc = "idle"
    BY <1>3 DEF StartScan, lasting
  <2> QED
    BY <2>1 DEF UploadInv, FileMatches
<1>4. CASE UNCHANGED vars
  BY <1>4, UploadFrame DEF vars, lasting, scan
<1> QED
  BY <1>1, <1>2, <1>3, <1>4, EngineUpload DEF Next, EngineStep, EditStep

\* Init: nothing is recorded and nothing is on the disk.
LEMMA InitUpload == Init => UploadInv
  BY ScannerAssumption DEF Init, UploadInv, FileMatches, Paths

\* What the disk has of a database is what was fingerprinted, however often and whenever
\* it is written, by however many commits between two steps of a backup, and whichever
\* uploads fail.
THEOREM UploadsFit == Spec => []UploadIsItsFingerprint
<1>1. UploadInv => UploadIsItsFingerprint
  BY DEF UploadInv, FileMatches, UploadIsItsFingerprint
<1> QED
  BY <1>1, InitType, NextType, InitWalk, NextWalk, InitCopies, NextCopies, InitUpload, NextUpload, PTL
  DEF Spec

=============================================================================
