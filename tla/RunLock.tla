------------------------------- MODULE RunLock -------------------------------
(***************************************************************************)
(* The run lock of the state database and the life of one run_once call.   *)
(*                                                                         *)
(* A synchronisation run may be started by the daemon, by the CLI or by a   *)
(* second daemon; each call opens the same SQLite file and uses an owner    *)
(* string of its own.  StateRepository::try_acquire_run_lock, the repair    *)
(* of interrupted runs, begin_run, the operation journal, finish_run and    *)
(* release_run_lock are single SQLite statements or transactions, so each   *)
(* is one atomic step here and anything may happen between two of them.     *)
(*                                                                         *)
(* Time is the system clock shared by the processes of one machine, in      *)
(* units chosen so that StaleAfter of them make `stale_lock_after`          *)
(* (DEFAULT_STALE_LOCK_HOURS); it never runs backwards.                     *)
(***************************************************************************)
EXTENDS Integers

CONSTANTS
    Runs,        \* the run_once calls; a call stands for its lock owner too
    NoRun,       \* no owner: state_locks has no row
    StaleAfter,  \* SyncRunOptions::stale_lock_after
    MaxTime      \* bound on the clock

ASSUME RunsAssumption == NoRun \notin Runs
ASSUME TimeAssumption == StaleAfter \in Nat /\ MaxTime \in Nat

VARIABLES
    now,         \* the clock
    lockOwner,   \* state_locks.owner of the single row, or NoRun
    lockBeat,    \* state_locks.heartbeat_unix_seconds
    pc,          \* where each call is
    stamp,       \* the `now` argument each call passed to try_acquire_run_lock
    row,         \* status of the sync_runs row of each call
    op           \* status of the operation_journal row of the call's current operation

vars == <<now, lockOwner, lockBeat, pc, stamp, row, op>>

Statuses == {"none", "running", "cancelled", "closed"}
PCs == {"idle", "update", "repair", "begin", "exec", "release", "done", "dead"}

TypeOK ==
    /\ now \in 0..MaxTime
    /\ lockOwner \in Runs \cup {NoRun}
    /\ lockBeat \in 0..MaxTime
    /\ pc \in [Runs -> PCs]
    /\ stamp \in [Runs -> 0..MaxTime]
    /\ row \in [Runs -> Statuses]
    /\ op \in [Runs -> Statuses]

\* A call that holds a RunLockGuard and has not returned.
Active(r) == pc[r] \in {"repair", "begin", "exec", "release"}

\* The call asked for the lock more than StaleAfter ago.
Overdue(r) == stamp[r] + StaleAfter < now

Init ==
    /\ now = 0
    /\ lockOwner = NoRun
    /\ lockBeat = 0
    /\ pc = [r \in Runs |-> "idle"]
    /\ stamp = [r \in Runs |-> 0]
    /\ row = [r \in Runs |-> "none"]
    /\ op = [r \in Runs |-> "none"]

Goto(r, place) == pc' = [pc EXCEPT ![r] = place]

-----------------------------------------------------------------------------
(* The steps of run_once.                                                    *)

\* run_once reads the clock and calls try_acquire_run_lock; its INSERT OR IGNORE
\* takes the lock when there is no row, otherwise the UPDATE comes next.
TryInsert(r) ==
    /\ pc[r] = "idle"
    /\ stamp' = [stamp EXCEPT ![r] = now]
    /\ IF lockOwner = NoRun
       THEN /\ lockOwner' = r
            /\ lockBeat' = now
            /\ Goto(r, "repair")
       ELSE /\ Goto(r, "update")
            /\ UNCHANGED <<lockOwner, lockBeat>>
    /\ UNCHANGED <<now, row, op>>

\* Mutant: `<=` in the heartbeat test.
TakeableTooEarly(r) == lockOwner # NoRun /\ lockBeat <= stamp[r] - StaleAfter

\* The heartbeat test of the UPDATE: the row there now, whoever wrote it, is
\* older than the caller's clock reading by more than stale_after.
Takeable(r) == lockOwner # NoRun /\ lockBeat < stamp[r] - StaleAfter

\* The UPDATE of try_acquire_run_lock: takes over a stale row, otherwise the call
\* returns SyncError::AlreadyRunning.
TryUpdate(r) ==
    /\ pc[r] = "update"
    /\ IF Takeable(r)
       THEN /\ lockOwner' = r
            /\ lockBeat' = stamp[r]
            /\ Goto(r, "repair")
       ELSE /\ Goto(r, "done")
            /\ UNCHANGED <<lockOwner, lockBeat>>
    /\ UNCHANGED <<now, stamp, row, op>>

CloseRunning(status) ==
    [r \in Runs |-> IF status[r] = "running" THEN "cancelled" ELSE status[r]]

\* Mutant: the repair forgets sync_runs.
RepairForgetsRuns(r) ==
    /\ pc[r] = "repair"
    /\ op' = CloseRunning(op)
    /\ Goto(r, "begin")
    /\ UNCHANGED <<now, lockOwner, lockBeat, stamp, row>>

\* Mutant: the repair forgets operation_journal.
RepairForgetsJournal(r) ==
    /\ pc[r] = "repair"
    /\ row' = CloseRunning(row)
    /\ Goto(r, "begin")
    /\ UNCHANGED <<now, lockOwner, lockBeat, stamp, op>>

\* repair_interrupted_runs: one transaction over both tables, whatever run the
\* rows belong to.
Repair(r) ==
    /\ pc[r] = "repair"
    /\ row' = CloseRunning(row)
    /\ op' = CloseRunning(op)
    /\ Goto(r, "begin")
    /\ UNCHANGED <<now, lockOwner, lockBeat, stamp>>

\* begin_run inserts the sync_runs row.
Begin(r) ==
    /\ pc[r] = "begin"
    /\ row' = [row EXCEPT ![r] = "running"]
    /\ Goto(r, "exec")
    /\ UNCHANGED <<now, lockOwner, lockBeat, stamp, op>>

\* append_operation_started: a new journal row for the next remote operation.
StartOperation(r) ==
    /\ pc[r] = "exec"
    /\ op[r] # "running"
    /\ op' = [op EXCEPT ![r] = "running"]
    /\ UNCHANGED <<now, lockOwner, lockBeat, pc, stamp, row>>

\* finish_operation updates the row by id, also when a repair cancelled it.
FinishOperation(r) ==
    /\ pc[r] = "exec"
    /\ op[r] \in {"running", "cancelled"}
    /\ op' = [op EXCEPT ![r] = "closed"]
    /\ UNCHANGED <<now, lockOwner, lockBeat, pc, stamp, row>>

\* finish_run writes the final status by id.  execute_run may have returned with
\* operations of aborted tasks still open: their rows stay as they are.
FinishRun(r) ==
    /\ pc[r] = "exec"
    /\ row' = [row EXCEPT ![r] = "closed"]
    /\ Goto(r, "release")
    /\ UNCHANGED <<now, lockOwner, lockBeat, stamp, op>>

\* finish_run failed: its error is kept until the lock has been released.
FinishRunFails(r) ==
    /\ pc[r] = "exec"
    /\ Goto(r, "release")
    /\ UNCHANGED <<now, lockOwner, lockBeat, stamp, row, op>>

\* Mutant: the DELETE has no owner test.
ReleaseAnyOwner(r) ==
    /\ pc[r] = "release"
    /\ lockOwner' = NoRun
    /\ Goto(r, "done")
    /\ UNCHANGED <<now, lockBeat, stamp, row, op>>

\* release_run_lock deletes the row only when it is still the caller's.
Release(r) ==
    /\ pc[r] = "release"
    /\ lockOwner' = IF lockOwner = r THEN NoRun ELSE lockOwner
    /\ Goto(r, "done")
    /\ UNCHANGED <<now, lockBeat, stamp, row, op>>

\* A database error before execute_run (the ? after repair_interrupted_runs and
\* begin_run) or in release_run_lock: the call returns and the row stays.
ReturnWithLock(r) ==
    /\ pc[r] \in {"repair", "begin", "release"}
    /\ Goto(r, "done")
    /\ UNCHANGED <<now, lockOwner, lockBeat, stamp, row, op>>

-----------------------------------------------------------------------------
(* The environment.                                                          *)

\* The process dies; nothing but the database survives.
Crash(r) ==
    /\ Active(r) \/ pc[r] = "update"
    /\ Goto(r, "dead")
    /\ UNCHANGED <<now, lockOwner, lockBeat, stamp, row, op>>

Tick ==
    /\ now < MaxTime
    /\ now' = now + 1
    /\ UNCHANGED <<lockOwner, lockBeat, pc, stamp, row, op>>

Step(r) ==
    \/ TryInsert(r) \/ TryUpdate(r) \/ Repair(r) \/ Begin(r)
    \/ StartOperation(r) \/ FinishOperation(r)
    \/ FinishRun(r) \/ FinishRunFails(r) \/ Release(r) \/ ReturnWithLock(r)

Next == Tick \/ \E r \in Runs : Step(r) \/ Crash(r)

Spec == Init /\ [][Next]_vars

-----------------------------------------------------------------------------
(* Properties.                                                               *)

\* Two calls are past try_acquire_run_lock at once only when one of them asked
\* for the lock more than StaleAfter ago: a takeover, a release by owner and a
\* leaked row never let a second run in beside a run that is within its time.
OverlapOnlyWhenOverdue ==
    \A r, s \in Runs :
        r # s /\ Active(r) /\ Active(s) => Overdue(r) \/ Overdue(s)

\* The database shows at most one running sync_runs row, whatever crashed or
\* failed before, until a run has outlived StaleAfter: begin_run never adds a
\* second one to the row of an earlier run that nobody closed.
OneRunningRow ==
    \A r, s \in Runs :
        r # s /\ row[r] = "running" /\ row[s] = "running" => Overdue(r) \/ Overdue(s)

\* The repair that follows the lock (an UPDATE over every running row) closes the
\* row of a run that is still executing only after the lock was taken over, from
\* that run or from the repairing call itself.
RepairSparesLiveRuns ==
    [][\A r, s \in Runs :
          /\ pc[s] = "repair" /\ pc'[s] = "begin"
          /\ r # s /\ Active(r) /\ row[r] # row'[r]
          => Overdue(r) \/ Overdue(s)]_vars

\* A journal row left open by a finished, failed or dead call does not survive the
\* start of the next run: while a run executes within its time, no other call
\* within its time has an operation shown as running.
OpenOperationsAreOwn ==
    \A r, s \in Runs :
        r # s /\ pc[r] = "exec" /\ op[s] = "running" => Overdue(r) \/ Overdue(s)

=============================================================================
