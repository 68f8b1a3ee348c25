---------------------------- MODULE RuntimeProofs ----------------------------
(***************************************************************************)
(* For any number of runs: the daemon never has two sync tasks, its status   *)
(* tells whether it has one, and cancellation reaches the right one.  For    *)
(* any schedule: its scheduler loop loses no day and asks for no run early.   *)
(***************************************************************************)
EXTENDS Runtime, Scheduler, TLAPS

\* The state points at the one unfinished run, or at none.
StatePoints ==
    /\ token = current
    /\ IF status \in RunStatuses
       THEN current \in Runs /\ Unfinished(current)
       ELSE current = NoRun

\* Only the run the state points at is unfinished.
OnlyCurrent == \A run \in Runs : Unfinished(run) => run = current

\* A task that returned has a result for finish_run.
ReturnedHasResult == \A run \in Runs : task[run] = "returned" => result[run] # "none"

IInv ==
    /\ TypeOK /\ StatePoints /\ OnlyCurrent /\ ReturnedHasResult
    /\ CancellingMeansTold /\ ShutdownTellsRuns

\* Init establishes the invariant.
LEMMA InitIInv == Init => IInv
  BY SkipsAssumption
  DEF Init, IInv, TypeOK, StatePoints, OnlyCurrent, ReturnedHasResult, CancellingMeansTold,
      ShutdownTellsRuns, Unfinished, Statuses, RunStatuses, TaskStates, Results, Services

\* The status after a run is one of the three at rest.
LEMMA StatusAtRest ==
    ASSUME NEW outcome \in Results \ {"none"}
    PROVE  StatusOf(outcome) \in Statuses \ RunStatuses
  BY DEF StatusOf, Results, Statuses, RunStatuses

\* An accepted run is the only unfinished one.
LEMMA RequestRunIInv ==
    ASSUME IInv, NEW service, NEW run \in Runs, RequestRun(service, run)
    PROVE  IInv'
<1> USE DEF IInv, RequestRun
<1>1. TypeOK'
  BY DEF TypeOK, TaskStates, Statuses, RunStatuses
<1>2. \A r \in Runs : ~Unfinished(r)
  BY RunsAssumption DEF StatePoints, OnlyCurrent
<1>3. \A r \in Runs : task'[r] = IF r = run THEN "spawning" ELSE task[r]
  BY DEF TypeOK
<1>4. StatePoints' /\ OnlyCurrent'
  BY <1>2, <1>3 DEF StatePoints, OnlyCurrent, Unfinished, RunStatuses
<1>5. ReturnedHasResult'
  BY <1>3 DEF ReturnedHasResult
<1>6. CancellingMeansTold'
  BY DEF CancellingMeansTold
<1>7. ShutdownTellsRuns'
  BY <1>2, <1>3 DEF ShutdownTellsRuns, Unfinished
<1> QED
  BY <1>1, <1>4, <1>5, <1>6, <1>7

\* request_cancel tells the run the state points at, and there is no other.
LEMMA CancelTokenIInv ==
    ASSUME IInv, CancelToken, UNCHANGED <<current, token, skips, task, result, listening, late>>,
           host' \in {host, "cancelling"}
    PROVE  IInv'
<1> USE DEF IInv
<1>1. CASE token = NoRun
  <2>1. status \notin RunStatuses /\ current = NoRun
    BY <1>1, RunsAssumption DEF StatePoints
  <2>2. UNCHANGED <<status, cancelled>>
    BY <1>1 DEF CancelToken
  <2>3. \A run \in Runs : ~Unfinished(run)
    BY <2>1, RunsAssumption DEF OnlyCurrent
  <2> QED
    BY <2>1, <2>2, <2>3
    DEF TypeOK, StatePoints, OnlyCurrent, ReturnedHasResult, CancellingMeansTold,
        ShutdownTellsRuns, Unfinished
<1>2. CASE token # NoRun
  <2>1. /\ current \in Runs /\ token = current /\ Unfinished(current)
        /\ cancelled' = cancelled \cup {current} /\ status' = "cancelling"
    BY <1>2 DEF StatePoints, CancelToken
  <2>2. TypeOK'
    BY <2>1 DEF TypeOK, Statuses, RunStatuses
  <2>3. StatePoints' /\ OnlyCurrent' /\ ReturnedHasResult'
    BY <2>1 DEF StatePoints, OnlyCurrent, ReturnedHasResult, Unfinished, RunStatuses
  <2>4. CancellingMeansTold' /\ ShutdownTellsRuns'
    BY <2>1 DEF CancellingMeansTold, ShutdownTellsRuns, OnlyCurrent, Unfinished
  <2> QED
    BY <2>2, <2>3, <2>4
<1> QED
  BY <1>1, <1>2

\* A task moves on without changing what the state points at.
LEMMA TaskMovesIInv ==
    ASSUME IInv, NEW run \in Runs, TaskStarts(run) \/ TaskReturns(run)
    PROVE  IInv'
<1> USE DEF IInv
<1>1. /\ UNCHANGED <<status, current, token, skips, cancelled, host, listening, late>>
      /\ \A r \in Runs : r # run => task'[r] = task[r] /\ result'[r] = result[r]
      /\ Unfinished(run) /\ task'[run] \in {"running", "returned"}
      /\ task'[run] = "returned" => result'[run] # "none"
      /\ task' \in [Runs -> TaskStates] /\ result' \in [Runs -> Results]
  BY DEF TaskStarts, TaskReturns, TypeOK, TaskStates, Unfinished
<1>2. \A r \in Runs : Unfinished(r)' <=> Unfinished(r)
  BY <1>1 DEF Unfinished
<1>3. TypeOK'
  BY <1>1 DEF TypeOK
<1>4. StatePoints' /\ OnlyCurrent'
  BY <1>1, <1>2 DEF StatePoints, OnlyCurrent, Unfinished
<1>5. ReturnedHasResult'
  BY <1>1 DEF ReturnedHasResult
<1>6. CancellingMeansTold' /\ ShutdownTellsRuns'
  BY <1>1, <1>2 DEF CancellingMeansTold, ShutdownTellsRuns
<1> QED
  BY <1>3, <1>4, <1>5, <1>6

\* The run that ends is the one the state points at, so nothing is left unfinished.
LEMMA FinishRunIInv ==
    ASSUME IInv, NEW run \in Runs, FinishRun(run)
    PROVE  IInv'
<1> USE DEF IInv, FinishRun
<1>1. status' \in Statuses \ RunStatuses
  BY StatusAtRest DEF ReturnedHasResult, TypeOK
<1>2. \A r \in Runs : task'[r] = IF r = run THEN "finished" ELSE task[r]
  BY DEF TypeOK
<1>3. run = current
  BY DEF OnlyCurrent, Unfinished
<1>4. \A r \in Runs : ~Unfinished(r)'
  BY <1>2, <1>3 DEF OnlyCurrent, Unfinished
<1>5. TypeOK'
  BY <1>1 DEF TypeOK, TaskStates
<1>6. StatePoints' /\ OnlyCurrent' /\ ShutdownTellsRuns'
  BY <1>1, <1>4 DEF StatePoints, OnlyCurrent, ShutdownTellsRuns
<1>7. ReturnedHasResult'
  BY <1>2 DEF ReturnedHasResult
<1>8. CancellingMeansTold'
  BY <1>1 DEF CancellingMeansTold, RunStatuses
<1> QED
  BY <1>5, <1>6, <1>7, <1>8

\* The remaining steps touch neither the runs nor what the state says of them.
LEMMA HostStepIInv ==
    ASSUME IInv, TypeOK',
           UNCHANGED <<status, current, token, cancelled, task, result, late>>,
           host' = "up" => host = "up", host = "up" => host' = "up"
    PROVE  IInv'
  BY DEF IInv, StatePoints, OnlyCurrent, ReturnedHasResult, CancellingMeansTold,
         ShutdownTellsRuns, Unfinished

\* Every step preserves the invariant.
LEMMA NextIInv == IInv /\ [Next]_vars => IInv'
<1> SUFFICES ASSUME IInv, [Next]_vars PROVE IInv'
  OBVIOUS
<1>1. CASE UNCHANGED vars
  BY <1>1, HostStepIInv DEF vars, IInv, TypeOK
<1>2. ASSUME NEW service \in Services, RefuseRun(service) PROVE IInv'
  <2>1. TypeOK'
    BY <1>2, SkipsAssumption DEF RefuseRun, IInv, TypeOK
  <2> QED
    BY <1>2, <2>1, HostStepIInv DEF RefuseRun
<1>3. ASSUME NEW service \in Services, ServiceStops(service) PROVE IInv'
  BY <1>3, HostStepIInv DEF ServiceStops, IInv, TypeOK
<1>4. ASSUME NEW service \in Services, NEW run \in Runs, RequestRun(service, run) PROVE IInv'
  BY <1>4, RequestRunIInv
<1>5. CASE RequestCancel
  BY <1>5, CancelTokenIInv DEF RequestCancel
<1>6. CASE ShutdownCancels
  BY <1>6, CancelTokenIInv DEF ShutdownCancels
<1>7. CASE ShutdownSignals
  BY <1>7, HostStepIInv DEF ShutdownSignals, IInv, TypeOK
<1>8. CASE HostStops
  BY <1>8, HostStepIInv DEF HostStops, IInv, TypeOK
<1>9. ASSUME NEW run \in Runs, RunStep(run) PROVE IInv'
  BY <1>9, TaskMovesIInv, FinishRunIInv DEF RunStep
<1> QED
  BY <1>1, <1>2, <1>3, <1>4, <1>5, <1>6, <1>7, <1>8, <1>9 DEF Next

\* The inductive invariant holds in every reachable state.
THEOREM Invariant == Spec => []IInv
  BY InitIInv, NextIInv, PTL DEF Spec

\* Every variable keeps its type.
THEOREM TypeCorrect == Spec => []TypeOK
<1>1. IInv => TypeOK
  BY DEF IInv
<1> QED
  BY <1>1, Invariant, PTL

\* At most one sync task is unfinished and the state points at it, for any number of
\* requests from the API and the scheduler.
THEOREM AtMostOneTask == Spec => []OneTaskAtATime
<1>1. IInv => OneTaskAtATime
  BY DEF IInv, StatePoints, OnlyCurrent, OneTaskAtATime
<1> QED
  BY <1>1, Invariant, PTL

\* Running and Cancelling are shown exactly while a task is unfinished.
THEOREM StatusIsRight == Spec => []StatusTellsActivity
<1>1. IInv => StatusTellsActivity
  BY RunsAssumption DEF IInv, StatePoints, OnlyCurrent, StatusTellsActivity
<1> QED
  BY <1>1, Invariant, PTL

\* A shutdown has told every unfinished run that was accepted before it.
THEOREM ShutdownReachesRuns == Spec => []ShutdownTellsRuns
<1>1. IInv => ShutdownTellsRuns
  BY DEF IInv
<1> QED
  BY <1>1, Invariant, PTL

-----------------------------------------------------------------------------
(* The scheduler loop.                                                       *)

\* The start times of all days.
Starts == { day * Day + StartTime : day \in Nat }

\* Division rounds down.
LEMMA DivisionRounds ==
    ASSUME NEW a \in Nat, NEW b \in Nat \ {0}
    PROVE  /\ a \div b \in Nat
           /\ b * (a \div b) \in Nat /\ b * (a \div b) <= a /\ a < b * (a \div b) + b
  OBVIOUS

\* The start times of two days are a day apart at least.
LEMMA DaysApart ==
    ASSUME NEW one \in Nat, NEW other \in Nat, one < other
    PROVE  one * Day + Day <= other * Day
  BY ClockAssumption

\* next_after returns the first start time that is later than the time given.
LEMMA NextAfterIsFirst ==
    ASSUME NEW time \in Nat
    PROVE  /\ NextAfter(time) \in Starts /\ NextAfter(time) \in Nat
           /\ NextAfter(time) > time
           /\ \A start \in Starts : start > time => start >= NextAfter(time)
<1> DEFINE today == time \div Day
<1>1. Day \in Nat \ {0} /\ StartTime \in Nat /\ StartTime < Day
  BY ClockAssumption
<1>2. /\ today \in Nat /\ Day * today \in Nat
      /\ Day * today <= time /\ time < Day * today + Day
  BY <1>1, DivisionRounds
<1> HIDE DEF today
<1>3. Day * today = today * Day /\ today * Day + Day = (today + 1) * Day
  BY <1>1, <1>2
<1>4. /\ NextAfter(time) = IF today * Day + StartTime > time
                           THEN today * Day + StartTime ELSE (today + 1) * Day + StartTime
  BY <1>1, <1>2, <1>3 DEF NextAfter, today
<1>5. NextAfter(time) \in Starts
  BY <1>2, <1>4 DEF Starts
<1>6. NextAfter(time) \in Nat /\ NextAfter(time) > time
  BY <1>1, <1>2, <1>3, <1>4
<1>7. ASSUME NEW day \in Nat, day * Day + StartTime > time
      PROVE  day * Day + StartTime >= NextAfter(time)
  <2>1. CASE day < today
    <3>1. day * Day + Day <= today * Day
      BY <1>2, <2>1, DaysApart
    <3>2. day * Day \in Nat
      BY <1>1
    <3> QED
      BY <1>1, <1>2, <1>3, <1>7, <3>1, <3>2
  <2>2. CASE day = today
    BY <1>4, <1>7, <2>2, <1>1, <1>2, <1>3
  <2>3. CASE day > today
    <3>1. today * Day + Day <= day * Day
      BY <1>2, <2>3, DaysApart
    <3>2. day * Day \in Nat
      BY <1>1
    <3> QED
      BY <1>1, <1>2, <1>3, <1>4, <3>1, <3>2
  <2> QED
    BY <1>2, <2>1, <2>2, <2>3
<1> QED
  BY <1>5, <1>6, <1>7 DEF Starts

\* A start time that is not the last one before another is a day older at least.
LEMMA StartsApart ==
    ASSUME NEW one \in Starts, NEW other \in Starts, one < other
    PROVE  one \in Nat /\ other \in Nat /\ one + Day <= other
<1>1. PICK a \in Nat : one = a * Day + StartTime
  BY DEF Starts
<1>2. PICK b \in Nat : other = b * Day + StartTime
  BY DEF Starts
<1>3. Day \in Nat \ {0} /\ StartTime \in Nat
  BY ClockAssumption
<1>4. a * Day \in Nat /\ b * Day \in Nat
  BY <1>3
<1>5. a < b
  <2> SUFFICES ASSUME b <= a PROVE FALSE
    OBVIOUS
  <2>1. b = a \/ b * Day + Day <= a * Day
    BY DaysApart
  <2> QED
    BY <1>1, <1>2, <1>3, <1>4, <2>1
<1>6. a * Day + Day <= b * Day
  BY <1>5, DaysApart
<1> QED
  BY <1>1, <1>2, <1>3, <1>4, <1>6

\* The sleep ends at most a second early.
LEMMA SleepIsShort ==
    ASSUME NEW time \in Nat, NEW target \in Nat, time <= target
    PROVE  /\ DurationUntil(time, target) \in Nat
           /\ time + DurationUntil(time, target) <= target
           /\ target < time + DurationUntil(time, target) + TicksPerSecond
<1>1. TicksPerSecond \in Nat \ {0} /\ target - time \in Nat
  BY ClockAssumption
<1> QED
  BY <1>1, DivisionRounds DEF DurationUntil

\* A loop that sleeps for a start time will wake less than a second before it.
SleepInv ==
    /\ now \in Nat /\ loop \in {"plan", "sleep"}
    /\ loop = "sleep" =>
          /\ next \in Starts /\ next \in Nat /\ wake \in Nat
          /\ wake <= next /\ next < wake + TicksPerSecond

\* It is late by the delay at most, and the start times before the one it waits for, or
\* up to now between two sleeps, have had their request.
LoopInv ==
    /\ begun \in Nat /\ begun <= now
    /\ loop = "plan" =>
          \A start \in Starts : begun < start /\ start <= now => start \in served
    /\ loop = "sleep" =>
          /\ now <= wake + MaxDelay
          /\ \A start \in Starts : begun < start /\ start < next => start \in served

\* The loop plans its sleep for the first start time after now.
LEMMA PlanSteps ==
    ASSUME SleepInv, Plan
    PROVE  /\ loop = "plan" /\ loop' = "sleep" /\ UNCHANGED <<now, begun, served>>
           /\ next' \in Starts /\ next' \in Nat /\ next' > now
           /\ \A start \in Starts : start > now => start >= next'
           /\ wake' \in Nat /\ now <= wake' /\ wake' <= next' /\ next' < wake' + TicksPerSecond
<1>1. /\ loop = "plan" /\ loop' = "sleep" /\ next' = NextAfter(now)
      /\ wake' = now + DurationUntil(now, next')
      /\ UNCHANGED <<now, begun, served>>
  BY DEF Plan, NextAfter, DurationUntil
<1>2. now \in Nat
  BY DEF SleepInv
<1>3. /\ NextAfter(now) \in Starts /\ NextAfter(now) \in Nat /\ NextAfter(now) > now
      /\ \A start \in Starts : start > now => start >= NextAfter(now)
  BY <1>2, NextAfterIsFirst
<1> DEFINE pause == DurationUntil(now, NextAfter(now))
<1>4. /\ pause \in Nat /\ now + pause <= NextAfter(now)
      /\ NextAfter(now) < now + pause + TicksPerSecond
  BY <1>2, <1>3, SleepIsShort
<1> HIDE DEF pause
<1>5. wake' = now + pause
  BY <1>1 DEF pause
<1> QED
  BY <1>1, <1>2, <1>3, <1>4, <1>5

\* Every step keeps the first.
LEMMA SleepKeeps ==
    ASSUME SleepInv, [LoopNext]_loopVars
    PROVE  SleepInv'
<1>1. CASE Plan
  BY <1>1, PlanSteps DEF SleepInv
<1>2. CASE Request
  BY <1>2 DEF Request, SleepInv
<1>3. CASE Tick
  BY <1>3 DEF Tick, SleepInv
<1>4. CASE UNCHANGED loopVars
  BY <1>4 DEF loopVars, SleepInv
<1> QED
  BY <1>1, <1>2, <1>3, <1>4 DEF LoopNext

\* Every step keeps the second, if the loop is never late by a whole day.
LEMMA LoopKeeps ==
    ASSUME MaxDelay \in 0..(Day - 1), SleepInv, LoopInv, [LoopNext]_loopVars
    PROVE  LoopInv'
<1>1. Day \in Nat \ {0} /\ TicksPerSecond \in Nat \ {0} /\ MaxDelay \in Nat /\ MaxDelay < Day
  BY ClockAssumption
<1>2. Starts \subseteq Nat
  BY ClockAssumption DEF Starts
<1>3. CASE Plan
  <2>1. /\ loop = "plan" /\ loop' = "sleep" /\ UNCHANGED <<now, begun, served>>
        /\ next' \in Nat /\ wake' \in Nat /\ now <= wake'
        /\ \A start \in Starts : start > now => start >= next'
    BY <1>3, PlanSteps
  <2>2. ASSUME NEW start \in Starts, begun < start, start < next' PROVE start \in served
    <3>1. start \in Nat /\ now \in Nat
      BY <1>2 DEF SleepInv
    <3>2. start <= now
      BY <2>1, <2>2, <3>1
    <3> QED
      BY <2>1, <2>2, <3>2 DEF LoopInv
  <2>3. now' <= wake' + MaxDelay
    <3>1. now \in Nat /\ now' = now
      BY <2>1 DEF SleepInv
    <3>2. wake' \in Nat /\ now <= wake'
      BY <2>1
    <3>3. MaxDelay \in Nat
      BY <1>1
    <3>4. \A a, b, c \in Nat : a <= b => a <= b + c
      OBVIOUS
    <3> QED
      BY <3>1, <3>2, <3>3, <3>4
  <2> QED
    BY <2>1, <2>2, <2>3 DEF LoopInv
<1>4. CASE Request
  <2>1. /\ loop = "sleep" /\ loop' = "plan" /\ now >= wake /\ served' = served \cup {next}
        /\ UNCHANGED <<now, begun, next, wake>>
    BY <1>4 DEF Request
  <2>2. ASSUME NEW start \in Starts, begun < start, start <= now PROVE start \in served'
    <3>1. CASE start < next
      BY <2>1, <2>2, <3>1 DEF LoopInv
    <3>2. CASE start = next
      BY <2>1, <3>2
    <3>3. CASE next < start
      <4>1. next + Day <= start
        BY <2>1, <3>3, StartsApart DEF SleepInv
      <4> QED
        BY <1>1, <1>2, <2>1, <2>2, <4>1 DEF SleepInv, LoopInv
    <3> QED
      BY <1>2, <2>1, <3>1, <3>2, <3>3 DEF SleepInv
  <2> QED
    BY <2>1, <2>2 DEF LoopInv
<1>5. CASE Tick
  BY <1>1, <1>5 DEF Tick, SleepInv, LoopInv
<1>6. CASE UNCHANGED loopVars
  BY <1>6 DEF loopVars, LoopInv
<1> QED
  BY <1>3, <1>4, <1>5, <1>6 DEF LoopNext

\* Both hold at first.
LEMMA LoopStarts == LoopInit => SleepInv /\ LoopInv
<1> SUFFICES ASSUME LoopInit PROVE SleepInv /\ LoopInv
  OBVIOUS
<1>1. begun \in Nat /\ now = begun /\ loop = "plan"
  BY ClockAssumption DEF LoopInit
<1>2. Starts \subseteq Nat
  BY ClockAssumption DEF Starts
<1> QED
  BY <1>1, <1>2 DEF SleepInv, LoopInv

\* run_scheduler_until loses no day, for any length of the day, any start time and any
\* resolution of the clock, as long as it is never kept from running for a whole day: a
\* start time after its beginning has its request once the delay is over.
THEOREM NoDayIsLost ==
    ASSUME MaxDelay \in 0..(Day - 1)
    PROVE  LoopSpec => []EveryStartTimeServed
<1>1. LoopInit => SleepInv /\ LoopInv
  BY LoopStarts
<1>2. SleepInv /\ LoopInv /\ [LoopNext]_loopVars => (SleepInv /\ LoopInv)'
  BY SleepKeeps, LoopKeeps
<1>3. SleepInv /\ LoopInv => EveryStartTimeServed
  <2> SUFFICES ASSUME SleepInv, LoopInv, NEW day \in 0..(MaxTime \div Day),
                      begun < day * Day + StartTime, day * Day + StartTime + MaxDelay < now
               PROVE  day * Day + StartTime \in served
    BY DEF EveryStartTimeServed
  <2>1. day \in Nat
    OBVIOUS
  <2>2. day * Day + StartTime \in Starts /\ day * Day + StartTime \in Nat
    BY <2>1, ClockAssumption DEF Starts
  <2>3. MaxDelay \in Nat
    BY ClockAssumption
  <2> HIDE DEF Starts
  <2> QED
    BY <2>2, <2>3 DEF SleepInv, LoopInv
<1> QED
  BY <1>1, <1>2, <1>3, PTL DEF LoopSpec

\* Although a sleep is cut to whole seconds, so that the loop may ask for one start time
\* several times, no request comes a second or more before its start time.
THEOREM NoRequestIsEarly == LoopSpec => RequestsAreOnTime
<1>1. LoopInit => SleepInv
  BY LoopStarts
<1>2. SleepInv /\ [LoopNext]_loopVars => SleepInv'
  BY SleepKeeps
<1>3. SleepInv => [Request => now + TicksPerSecond > next]_loopVars
  <2> SUFFICES ASSUME SleepInv, Request PROVE now + TicksPerSecond > next
    OBVIOUS
  <2> QED
    BY ClockAssumption DEF SleepInv, Request
<1> QED
  BY <1>1, <1>2, <1>3, PTL DEF LoopSpec, RequestsAreOnTime

=============================================================================
