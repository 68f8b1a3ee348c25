------------------------------ MODULE Scheduler ------------------------------
(***************************************************************************)
(* ServiceRuntime::run_scheduler_until: the loop that asks for a scheduled  *)
(* run every day at start_time_utc.  The clock has a resolution finer than   *)
(* a second; sleep durations are whole seconds.                             *)
(***************************************************************************)
EXTENDS Integers

CONSTANTS
    TicksPerSecond,
    Day,            \* a day, in ticks
    StartTime,      \* DailyUtcSchedule.start_time, ticks after midnight
    MaxDelay,       \* how long the loop may be kept from running, in ticks
    MaxTime         \* bound on the clock

ASSUME ClockAssumption ==
    /\ TicksPerSecond \in Nat \ {0} /\ Day \in Nat \ {0}
    /\ Day % TicksPerSecond = 0
    /\ StartTime \in 0..(Day - 1) /\ MaxDelay \in Nat /\ MaxTime \in Nat

VARIABLES
    now,      \* the clock
    begun,    \* when the loop was entered
    loop,     \* "plan": about to read the clock; "sleep": in the select!
    next,     \* the start time the loop is waiting for
    wake,     \* when the sleep ends
    served    \* the start times for which a run was requested

loopVars == <<now, begun, loop, next, wake, served>>

LoopTypeOK ==
    /\ now \in 0..MaxTime /\ begun \in 0..MaxTime
    /\ loop \in {"plan", "sleep"}
    /\ next \in 0..(MaxTime + 2 * Day) /\ wake \in 0..(MaxTime + 2 * Day)
    /\ served \subseteq 0..(MaxTime + 2 * Day)

\* The daemon starts at any time of the first day.
LoopInit ==
    /\ begun \in 0..(Day - 1) /\ now = begun
    /\ loop = "plan" /\ next = 0 /\ wake = 0
    /\ served = {}

\* Mutant: today's start time is never tried.
NextDay(time) == Day * (time \div Day) + StartTime + Day

\* DailyUtcSchedule::next_after.
NextAfter(time) ==
    LET candidate == Day * (time \div Day) + StartTime
    IN  IF candidate > time THEN candidate ELSE candidate + Day

\* Mutant: whole minutes (here of two seconds) instead of seconds.
DurationInMinutes(time, target) ==
    2 * TicksPerSecond * ((target - time) \div (2 * TicksPerSecond))

\* std_duration_until: whole_seconds drops the fraction.
DurationUntil(time, target) ==
    TicksPerSecond * ((target - time) \div TicksPerSecond)

Plan ==
    /\ loop = "plan"
    /\ next' = NextAfter(now)
    /\ wake' = now + DurationUntil(now, next')
    /\ loop' = "sleep"
    /\ UNCHANGED <<now, begun, served>>

\* The sleep is over: request_run(Scheduled), accepted or not.
Request ==
    /\ loop = "sleep" /\ now >= wake
    /\ served' = served \cup {next}
    /\ loop' = "plan"
    /\ UNCHANGED <<now, begun, next, wake>>

\* Time passes; a loop that is due runs within MaxDelay.
Tick ==
    /\ now < MaxTime
    /\ loop = "sleep" /\ now < wake + MaxDelay
    /\ now' = now + 1
    /\ UNCHANGED <<begun, loop, next, wake, served>>

LoopNext == Plan \/ Request \/ Tick

LoopSpec == LoopInit /\ [][LoopNext]_loopVars

-----------------------------------------------------------------------------

\* No day is lost: every start time after the loop was entered has its request once
\* the loop can be no longer delayed, although each sleep is cut to whole seconds
\* and the next start time is computed anew after each wake-up.
EveryStartTimeServed ==
    \A day \in 0..(MaxTime \div Day) :
        LET start == day * Day + StartTime
        IN  begun < start /\ start + MaxDelay < now => start \in served

\* The sleep that is cut to whole seconds wakes the loop before the start time, and
\* the start time is then asked for again (next_after returns it once more), but
\* every one of these requests falls into the last second before it or after it.
RequestsAreOnTime == [][Request => now + TicksPerSecond > next]_loopVars

=============================================================================
