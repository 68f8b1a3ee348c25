------------------------------- MODULE Runtime -------------------------------
(***************************************************************************)
(* ServiceRuntime and RuntimeHost: the run requests of the HTTP API and the *)
(* scheduler, cancellation, the end of a run, and the shutdown of the host. *)
(*                                                                         *)
(* RuntimeState is behind one mutex; each critical section is one step.     *)
(* The task of a run is spawned after the section that accepts it, and its   *)
(* result is stored by a later one.                                         *)
(***************************************************************************)
EXTENDS Integers, FiniteSets

CONSTANTS
    Runs,     \* the runs the daemon will accept; a run is also its token
    NoRun,
    MaxSkips  \* bound on scheduled_skips

ASSUME RunsAssumption == NoRun \notin Runs
ASSUME SkipsAssumption == MaxSkips \in Nat

VARIABLES
    status,     \* RuntimeState.status
    current,    \* RuntimeState.current_run
    token,      \* RuntimeState.cancellation: the run whose token it is
    skips,      \* RuntimeState.scheduled_skips
    cancelled,  \* the runs whose CancellationToken is cancelled
    task,       \* the tokio task of each run
    result,     \* what the sync task of each run returned
    host,       \* how far RuntimeHost::shutdown is
    listening,  \* the HTTP server and the scheduler loop still run
    late        \* runs accepted after shutdown began

vars == <<status, current, token, skips, cancelled, task, result, host, listening, late>>

RunStatuses == {"running", "cancelling"}
Statuses == RunStatuses \cup {"idle", "degraded", "failed"}
TaskStates == {"none", "spawning", "running", "returned", "finished"}
Results == {"none", "succeeded", "partial", "failed", "cancelled", "error"}
Services == {"server", "scheduler"}

TypeOK ==
    /\ status \in Statuses
    /\ current \in Runs \cup {NoRun} /\ token \in Runs \cup {NoRun}
    /\ skips \in 0..MaxSkips
    /\ cancelled \subseteq Runs /\ late \subseteq Runs
    /\ task \in [Runs -> TaskStates]
    /\ result \in [Runs -> Results]
    /\ host \in {"up", "cancelling", "signalled", "down"}
    /\ listening \subseteq Services

Init ==
    /\ status = "idle" /\ current = NoRun /\ token = NoRun /\ skips = 0
    /\ cancelled = {} /\ late = {}
    /\ task = [run \in Runs |-> "none"]
    /\ result = [run \in Runs |-> "none"]
    /\ host = "up" /\ listening = Services

Unfinished(run) == task[run] \in {"spawning", "running", "returned"}

-----------------------------------------------------------------------------
(* ServiceRuntime.                                                           *)

\* Mutant: request_run without the already_running test.
RequestRunAnyway(service, run) ==
    /\ service \in listening
    /\ task[run] = "none"
    /\ status' = "running"
    /\ current' = run
    /\ token' = run
    /\ task' = [task EXCEPT ![run] = "spawning"]
    /\ late' = IF host = "up" THEN late ELSE late \cup {run}
    /\ UNCHANGED <<skips, cancelled, result, host, listening>>

\* request_run accepted: from POST /sync/run or from the scheduler.
RequestRun(service, run) ==
    /\ service \in listening
    /\ status \notin RunStatuses
    /\ task[run] = "none"
    /\ status' = "running"
    /\ current' = run
    /\ token' = run
    /\ task' = [task EXCEPT ![run] = "spawning"]
    /\ late' = IF host = "up" THEN late ELSE late \cup {run}
    /\ UNCHANGED <<skips, cancelled, result, host, listening>>

\* request_run refused with already_running; only a scheduled one is counted.
RefuseRun(service) ==
    /\ service \in listening
    /\ status \in RunStatuses
    /\ service = "scheduler" => skips < MaxSkips
    /\ skips' = IF service = "scheduler" THEN skips + 1 ELSE skips
    /\ UNCHANGED <<status, current, token, cancelled, task, result, host, listening, late>>

\* Mutant: the token is not looked at.
CancelBlindly ==
    cancelled' = cancelled \cup {token} /\ status' = "cancelling"

\* The body of request_cancel.
CancelToken ==
    IF token = NoRun
    THEN UNCHANGED <<status, cancelled>>
    ELSE /\ cancelled' = cancelled \cup {token}
         /\ status' = "cancelling"

\* POST /sync/stop.
RequestCancel ==
    /\ "server" \in listening
    /\ CancelToken
    /\ UNCHANGED <<current, token, skips, task, result, host, listening, late>>

TaskStarts(run) ==
    /\ task[run] = "spawning"
    /\ task' = [task EXCEPT ![run] = "running"]
    /\ UNCHANGED <<status, current, token, skips, cancelled, result, host, listening, late>>

\* The sync task returns a report or an error (SyncError::AlreadyRunning, a failed
\* keyring, a panic of the blocking thread...).  Only a cancelled run can report
\* Cancelled; a run cancelled after its last check reports what it did.
TaskReturns(run) ==
    /\ task[run] = "running"
    /\ \E outcome \in Results \ {"none"} :
          /\ outcome = "cancelled" => run \in cancelled
          /\ result' = [result EXCEPT ![run] = outcome]
    /\ task' = [task EXCEPT ![run] = "returned"]
    /\ UNCHANGED <<status, current, token, skips, cancelled, host, listening, late>>

\* Mutant: a cancelled run leaves the status as it was.
StatusStaysCancelling(outcome) ==
    CASE outcome = "succeeded" -> "idle"
      [] outcome = "cancelled" -> "cancelling"
      [] outcome = "partial" -> "degraded"
      [] outcome \in {"failed", "error"} -> "failed"

StatusOf(outcome) ==
    CASE outcome \in {"succeeded", "cancelled"} -> "idle"
      [] outcome = "partial" -> "degraded"
      [] outcome \in {"failed", "error"} -> "failed"

\* Mutant: the token of the run is kept.
FinishRunKeepsToken(run) ==
    /\ task[run] = "returned"
    /\ current' = NoRun
    /\ status' = StatusOf(result[run])
    /\ task' = [task EXCEPT ![run] = "finished"]
    /\ UNCHANGED <<token, skips, cancelled, result, host, listening, late>>

\* ServiceRuntime::finish_run.
FinishRun(run) ==
    /\ task[run] = "returned"
    /\ current' = NoRun
    /\ token' = NoRun
    /\ status' = StatusOf(result[run])
    /\ task' = [task EXCEPT ![run] = "finished"]
    /\ UNCHANGED <<skips, cancelled, result, host, listening, late>>

-----------------------------------------------------------------------------
(* RuntimeHost::shutdown.                                                    *)

\* Mutant: shutdown without request_cancel.
ShutdownForgetsRuns ==
    /\ host = "up"
    /\ host' = "cancelling"
    /\ UNCHANGED <<status, current, token, skips, cancelled, task, result, listening, late>>

ShutdownCancels ==
    /\ host = "up"
    /\ CancelToken
    /\ host' = "cancelling"
    /\ UNCHANGED <<current, token, skips, task, result, listening, late>>

ShutdownSignals ==
    /\ host = "cancelling"
    /\ host' = "signalled"
    /\ UNCHANGED <<status, current, token, skips, cancelled, task, result, listening, late>>

\* The HTTP server and the scheduler leave their loops when they see the signal.
ServiceStops(service) ==
    /\ host = "signalled" /\ service \in listening
    /\ listening' = listening \ {service}
    /\ UNCHANGED <<status, current, token, skips, cancelled, task, result, host, late>>

\* shutdown has joined both tasks.  Leaving the process waits for a started sync
\* thread, so the tasks of the runs go on.
HostStops ==
    /\ host = "signalled" /\ listening = {}
    /\ host' = "down"
    /\ UNCHANGED <<status, current, token, skips, cancelled, task, result, listening, late>>

RunStep(run) == TaskStarts(run) \/ TaskReturns(run) \/ FinishRun(run)

Next ==
    \/ \E service \in Services : RefuseRun(service) \/ ServiceStops(service)
    \/ \E service \in Services, run \in Runs : RequestRun(service, run)
    \/ RequestCancel \/ ShutdownCancels \/ ShutdownSignals \/ HostStops
    \/ \E run \in Runs : RunStep(run)

Spec == Init /\ [][Next]_vars

\* A spawned task is scheduled, and a run ends: a cancelled one at the next batch
\* boundary, any other one when its finite plan is done.
\* Nothing is promised once the host is down and the runtime is being dropped.
FairSpec == Spec /\ \A run \in Runs : WF_vars(host # "down" /\ RunStep(run))

-----------------------------------------------------------------------------

\* However requests, cancellations and ends of runs interleave, there is at most
\* one sync task that is not over, and it is the one the state points at.
OneTaskAtATime ==
    \A run \in Runs : Unfinished(run) => current = run /\ token = run

\* The status clients see is right about activity: Running or Cancelling exactly
\* while a task is not over.  Otherwise requests would be refused for ever, or a
\* second run be accepted.
StatusTellsActivity ==
    (status \in RunStatuses) <=> (\E run \in Runs : Unfinished(run))

\* An answer "cancelling" is never about the wrong run or a run that was not told.
CancellingMeansTold ==
    status = "cancelling" => current \in cancelled

\* Shutdown leaves no run behind that goes on as if nothing had happened, except
\* one that was accepted between the cancellation and the end of the services.
ShutdownTellsRuns ==
    host # "up" => \A run \in Runs : Unfinished(run) => run \in cancelled \cup late

\* While the host is up every accepted run is over at some time, and the daemon
\* accepts runs again.
RunsEnd ==
    \A run \in Runs :
        Unfinished(run) ~> (task[run] = "finished" /\ token # run) \/ host = "down"

=============================================================================
