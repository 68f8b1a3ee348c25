---------------------------- MODULE RunLockProofs ----------------------------
(***************************************************************************)
(* For every set of calls and every stale time: the lock lets two runs      *)
(* overlap only when one of them is overdue, and the run and journal tables *)
(* stay consistent with that.                                               *)
(***************************************************************************)
EXTENDS RunLock, TLAPS

\* What each call's own variables say: a call that has not asked for the lock has
\* left no trace, and clock readings are never in the future.
CallsConsistent ==
    \A r \in Runs :
        /\ stamp[r] <= now
        /\ pc[r] = "idle" => row[r] = "none" /\ op[r] = "none"

\* The row of state_locks carries its owner's clock reading.
RowIsOwners ==
    lockOwner # NoRun =>
        lockBeat = stamp[lockOwner] /\ pc[lockOwner] \notin {"idle", "update"}

\* The heart of the argument: a call that goes on without the lock was taken over.
LostOnlyWhenOverdue == \A r \in Runs : Active(r) /\ lockOwner # r => Overdue(r)

\* Between its repair and its begin_run a call sees no running row.
RepairedBeforeBegin ==
    \A r, s \in Runs :
        r # s /\ pc[r] = "begin" /\ row[s] = "running" => Overdue(r) \/ Overdue(s)

\* From its repair on a call sees no open operation but its own.
RepairedBeforeExec ==
    \A r, s \in Runs :
        r # s /\ pc[r] \in {"begin", "exec"} /\ op[s] = "running" => Overdue(r) \/ Overdue(s)

IInv ==
    /\ TypeOK
    /\ CallsConsistent
    /\ RowIsOwners
    /\ LostOnlyWhenOverdue
    /\ OneRunningRow
    /\ RepairedBeforeBegin
    /\ RepairedBeforeExec

-----------------------------------------------------------------------------

\* TypeOK is preserved by every step of the lock protocol.
LEMMA TypeStep == TypeOK /\ [Next]_vars => TypeOK'
<1> SUFFICES ASSUME TypeOK, [Next]_vars PROVE TypeOK'
  OBVIOUS
<1> USE RunsAssumption, TimeAssumption DEF TypeOK, PCs, Statuses
<1>1. CASE Tick
  BY <1>1 DEF Tick
<1>2. ASSUME NEW r \in Runs, Step(r) PROVE TypeOK'
  <2>1. CASE TryInsert(r)
    BY <2>1 DEF TryInsert, Goto
  <2>2. CASE TryUpdate(r)
    BY <2>2 DEF TryUpdate, Goto
  <2>3. CASE Repair(r)
    BY <2>3 DEF Repair, CloseRunning, Goto
  <2>4. CASE Begin(r)
    BY <2>4 DEF Begin, Goto
  <2>5. CASE StartOperation(r) \/ FinishOperation(r)
    BY <2>5 DEF StartOperation, FinishOperation
  <2>6. CASE FinishRun(r) \/ FinishRunFails(r)
    BY <2>6 DEF FinishRun, FinishRunFails, Goto
  <2>7. CASE Release(r)
    BY <2>7 DEF Release, Goto
  <2>8. CASE ReturnWithLock(r)
    BY <2>8 DEF ReturnWithLock, Goto
  <2> QED
    BY <1>2, <2>1, <2>2, <2>3, <2>4, <2>5, <2>6, <2>7, <2>8 DEF Step
<1>3. ASSUME NEW r \in Runs, Crash(r) PROVE TypeOK'
  BY <1>3 DEF Crash, Goto
<1>4. CASE UNCHANGED vars
  BY <1>4 DEF vars
<1> QED
  BY <1>1, <1>2, <1>3, <1>4 DEF Next

\* The calls' clock readings and the lock row stay consistent.
LEMMA LockRowStep == IInv /\ [Next]_vars => (CallsConsistent /\ RowIsOwners)'
<1> SUFFICES ASSUME IInv, [Next]_vars PROVE (CallsConsistent /\ RowIsOwners)'
  OBVIOUS
<1> USE RunsAssumption, TimeAssumption
    DEF IInv, TypeOK, PCs, Statuses, CallsConsistent, RowIsOwners, Goto
<1>1. CASE Tick
  BY <1>1 DEF Tick
<1>2. ASSUME NEW r \in Runs, Step(r) PROVE (CallsConsistent /\ RowIsOwners)'
  <2>1. CASE TryInsert(r)
    BY <2>1 DEF TryInsert
  <2>2. CASE TryUpdate(r)
    BY <2>2 DEF TryUpdate, Takeable
  <2>3. CASE Repair(r)
    BY <2>3 DEF Repair, CloseRunning
  <2>4. CASE Begin(r)
    BY <2>4 DEF Begin
  <2>5. CASE StartOperation(r) \/ FinishOperation(r)
    BY <2>5 DEF StartOperation, FinishOperation
  <2>6. CASE FinishRun(r) \/ FinishRunFails(r)
    BY <2>6 DEF FinishRun, FinishRunFails
  <2>7. CASE Release(r)
    BY <2>7 DEF Release
  <2>8. CASE ReturnWithLock(r)
    BY <2>8 DEF ReturnWithLock
  <2> QED
    BY <1>2, <2>1, <2>2, <2>3, <2>4, <2>5, <2>6, <2>7, <2>8 DEF Step
<1>3. ASSUME NEW r \in Runs, Crash(r) PROVE (CallsConsistent /\ RowIsOwners)'
  BY <1>3 DEF Crash, Active
<1>4. CASE UNCHANGED vars
  BY <1>4 DEF vars
<1> QED
  BY <1>1, <1>2, <1>3, <1>4 DEF Next

\* A call loses the lock only to a takeover, which needs it to be overdue.
LEMMA OwnershipStep == IInv /\ [Next]_vars => LostOnlyWhenOverdue'
<1> SUFFICES ASSUME IInv, [Next]_vars PROVE LostOnlyWhenOverdue'
  OBVIOUS
<1> USE RunsAssumption, TimeAssumption
    DEF IInv, TypeOK, PCs, Statuses, LostOnlyWhenOverdue, Active, Overdue, Goto
<1>1. CASE Tick
  BY <1>1 DEF Tick
<1>2. ASSUME NEW r \in Runs, Step(r) PROVE LostOnlyWhenOverdue'
  <2>1. CASE TryInsert(r)
    BY <2>1 DEF TryInsert, CallsConsistent
  <2>2. CASE TryUpdate(r)
    BY <2>2 DEF TryUpdate, Takeable, RowIsOwners, CallsConsistent
  <2>3. CASE Repair(r)
    BY <2>3 DEF Repair
  <2>4. CASE Begin(r)
    BY <2>4 DEF Begin
  <2>5. CASE StartOperation(r) \/ FinishOperation(r)
    BY <2>5 DEF StartOperation, FinishOperation
  <2>6. CASE FinishRun(r) \/ FinishRunFails(r)
    BY <2>6 DEF FinishRun, FinishRunFails
  <2>7. CASE Release(r)
    BY <2>7 DEF Release
  <2>8. CASE ReturnWithLock(r)
    BY <2>8 DEF ReturnWithLock
  <2> QED
    BY <1>2, <2>1, <2>2, <2>3, <2>4, <2>5, <2>6, <2>7, <2>8 DEF Step
<1>3. ASSUME NEW r \in Runs, Crash(r) PROVE LostOnlyWhenOverdue'
  BY <1>3 DEF Crash
<1>4. CASE UNCHANGED vars
  BY <1>4 DEF vars
<1> QED
  BY <1>1, <1>2, <1>3, <1>4 DEF Next

\* At most one call is active and within its time.
LEMMA OverlapFromOwnership == LostOnlyWhenOverdue => OverlapOnlyWhenOverdue
  BY DEF LostOnlyWhenOverdue, OverlapOnlyWhenOverdue

\* The sync_runs and operation_journal tables stay consistent.
LEMMA TablesStep ==
    IInv /\ [Next]_vars => (OneRunningRow /\ RepairedBeforeBegin /\ RepairedBeforeExec)'
<1> DEFINE Tables == OneRunningRow /\ RepairedBeforeBegin /\ RepairedBeforeExec
<1> SUFFICES ASSUME IInv, [Next]_vars PROVE Tables'
  OBVIOUS
<1> OverlapOnlyWhenOverdue
  BY OverlapFromOwnership DEF IInv
<1> USE RunsAssumption, TimeAssumption
    DEF IInv, TypeOK, PCs, Statuses, OneRunningRow, RepairedBeforeBegin, RepairedBeforeExec,
        Overdue, Goto
<1>1. CASE Tick
  BY <1>1 DEF Tick
<1>2. ASSUME NEW r \in Runs, Step(r) PROVE Tables'
  <2>1. CASE TryInsert(r)
    BY <2>1 DEF TryInsert, CallsConsistent
  <2>2. CASE TryUpdate(r)
    BY <2>2 DEF TryUpdate
  <2>3. CASE Repair(r)
    BY <2>3 DEF Repair, CloseRunning
  <2>4. CASE Begin(r)
    BY <2>4 DEF Begin, OverlapOnlyWhenOverdue, Active
  <2>5. CASE StartOperation(r)
    BY <2>5 DEF StartOperation, OverlapOnlyWhenOverdue, Active
  <2>6. CASE FinishOperation(r)
    BY <2>6 DEF FinishOperation
  <2>7. CASE FinishRun(r) \/ FinishRunFails(r)
    BY <2>7 DEF FinishRun, FinishRunFails
  <2>8. CASE Release(r)
    BY <2>8 DEF Release
  <2>9. CASE ReturnWithLock(r)
    BY <2>9 DEF ReturnWithLock
  <2> QED
    BY <1>2, <2>1, <2>2, <2>3, <2>4, <2>5, <2>6, <2>7, <2>8, <2>9 DEF Step
<1>3. ASSUME NEW r \in Runs, Crash(r) PROVE Tables'
  BY <1>3 DEF Crash
<1>4. CASE UNCHANGED vars
  BY <1>4 DEF vars
<1> QED
  BY <1>1, <1>2, <1>3, <1>4 DEF Next

-----------------------------------------------------------------------------

\* IInv is an inductive invariant of the lock protocol.
THEOREM Invariant == Spec => []IInv
<1>1. Init => IInv
  BY RunsAssumption, TimeAssumption
  DEF Init, IInv, TypeOK, PCs, Statuses, CallsConsistent, RowIsOwners, LostOnlyWhenOverdue,
      OneRunningRow, RepairedBeforeBegin, RepairedBeforeExec, Active
<1>2. IInv /\ [Next]_vars => IInv'
  BY TypeStep, LockRowStep, OwnershipStep, TablesStep DEF IInv
<1> QED
  BY <1>1, <1>2, PTL DEF Spec

\* Type correctness of the lock, run and journal tables.
THEOREM TypeCorrect == Spec => []TypeOK
  BY Invariant, PTL DEF IInv

\* run_once calls overlap only when one of them has outlived stale_lock_after.
THEOREM OverlapBounded == Spec => []OverlapOnlyWhenOverdue
<1>1. IInv => OverlapOnlyWhenOverdue
  BY OverlapFromOwnership DEF IInv
<1> QED
  BY <1>1, Invariant, PTL

\* At most one sync_runs row is running until a run outlives stale_lock_after.
THEOREM RunningRowUnique == Spec => []OneRunningRow
  BY Invariant, PTL DEF IInv

\* No stray open journal rows beside an executing run within its time.
THEOREM OperationsOwned == Spec => []OpenOperationsAreOwn
<1>1. IInv => OpenOperationsAreOwn
  BY DEF IInv, RepairedBeforeExec, OpenOperationsAreOwn
<1> QED
  BY <1>1, Invariant, PTL

\* repair_interrupted_runs closes the row of a live run only after a takeover.
THEOREM RepairSafe == Spec => RepairSparesLiveRuns
<1> DEFINE Spares ==
      \A r, s \in Runs :
          /\ pc[s] = "repair" /\ pc'[s] = "begin"
          /\ r # s /\ Active(r) /\ row[r] # row'[r]
          => Overdue(r) \/ Overdue(s)
<1>1. OverlapOnlyWhenOverdue => Spares
  BY DEF OverlapOnlyWhenOverdue, Active
<1>2. [][Spares]_vars <=> RepairSparesLiveRuns
  BY DEF RepairSparesLiveRuns
<1> QED
  BY <1>1, <1>2, OverlapBounded, PTL

=============================================================================
