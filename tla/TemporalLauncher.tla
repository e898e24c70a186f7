-------------------------- MODULE TemporalLauncher --------------------------
(***************************************************************************)
(* One Temporal run as the control plane sees it: start_run and cancel_run *)
(* (web/control_service.py), the row of lexsond.probe_runs                 *)
(* (web/postgres_control_store.py), and the launcher's monitor thread,     *)
(* which starts or attaches to the workflow and copies what happens there  *)
(* into the row (web/temporal_backend.py).                                 *)
(*                                                                         *)
(* The workflow, its journal and Temporal are external; TemporalCanary     *)
(* models them.  What goes wrong by itself (a call that fails, or whose    *)
(* answer is lost) counts as a fault.  The process may stop and start      *)
(* again at any time.                                                      *)
(***************************************************************************)
EXTENDS Naturals, Sequences

CONSTANTS MaxEvents, MaxFaults, MaxRestarts     \* bounds

ASSUME LauncherAssumption ==
    MaxEvents \in Nat /\ MaxFaults \in Nat /\ MaxRestarts \in Nat

VARIABLES
    \* PostgreSQL
    row,            \* state and cancel_requested_at of the run
    shown,          \* source_event_id of its events, in order
    outbox,         \* prepare_run is committed
    journal,        \* number of workflow events
    \* Temporal
    wf,             \* the workflow
    wfCancel,       \* its cancellation was accepted
    pending,        \* a start was sent and not yet looked at
    refused,        \* starts are rejected (deterministic_rejections)
    \* the process
    up,
    starter,        \* where start_run is
    canceller,      \* where cancel_run, and _retry_temporal_cancel, is
    monitor,        \* where the monitor thread is
    uncertain,      \* its dispatch_outcome_uncertain
    last, batch,    \* its last_sequence; the events it is publishing
    active,         \* the run has an entry in _active
    cancelReq,      \* and in _cancel_requested
    faults, restarts

database == << row, shown, outbox, journal >>
temporal == << wf, wfCancel, pending, refused >>
thread   == << monitor, uncertain, last, batch >>
memory   == << active, cancelReq >>
bounds   == << faults, restarts >>
vars == << database, temporal, up, starter, canceller, thread, memory, bounds >>

Callers    == {"request", "retry"}
Ended      == {"COMPLETED", "FAILED", "CANCELLED"}
Closed     == {"succeeded", "failed", "errored", "cancelled"}
\* The thread's event loop runs, with the handle in it.
Attached   == {"cancelling", "polling", "publishing", "finishing", "last_publish", "settling",
               "confirming"}

Init ==
    /\ row = [state |-> "none", cancel |-> FALSE]
    /\ shown = << >> /\ outbox = FALSE /\ journal = 0
    /\ wf = "none" /\ wfCancel = FALSE /\ pending = FALSE /\ refused \in BOOLEAN
    /\ up = TRUE /\ starter = "new"
    /\ canceller = [c \in Callers |-> "idle"]
    /\ monitor = "none" /\ uncertain = FALSE /\ last = 0 /\ batch = << 1, 0 >>
    /\ active = FALSE /\ cancelReq = FALSE
    /\ faults = 0 /\ restarts = 0

Fault   == faults < MaxFaults /\ faults' = faults + 1 /\ UNCHANGED restarts
NoFault == UNCHANGED bounds

\* complete_run, fail_run and cancel_run change a run that is RUNNING only.
EndRun(state) ==
    row' = IF row.state = "RUNNING" THEN [row EXCEPT !.state = state] ELSE row

----------------------------------------------------------------------------
(* start_run.                                                              *)

\* create_run; when its answer is lost, start_run raises and the row remains.
Create ==
    /\ up /\ starter = "new"
    /\ \/ NoFault /\ starter' = "created"
       \/ Fault /\ starter' = "abandoned"
    /\ row' = [state |-> "RUNNING", cancel |-> FALSE]
    /\ UNCHANGED << shown, outbox, journal, temporal, up, canceller, thread, memory >>

\* writer.persist and journal.prepare_run.
Prepare ==
    /\ up /\ starter = "created"
    /\ \/ NoFault /\ outbox' = TRUE /\ starter' = "prepared"
       \/ Fault /\ outbox' \in {outbox, TRUE} /\ starter' = "failing"
    /\ UNCHANGED << row, shown, journal, temporal, up, canceller, thread, memory >>

\* _start_monitor: a thread that knows of no earlier start.
StartThread ==
    /\ monitor' = "connecting" /\ uncertain' = FALSE
    /\ last' = 0 /\ batch' = << 1, 0 >>

StartMonitor ==
    /\ up /\ starter = "prepared" /\ starter' = "returned"
    /\ StartThread
    /\ NoFault
    /\ UNCHANGED << database, temporal, up, canceller, memory >>

\* _mark_failed, before start_run raises; it may itself raise.
MarkStartFailed ==
    /\ up /\ starter = "failing"
    /\ \/ NoFault /\ EndRun("FAILED") /\ starter' = "returned"
       \/ Fault /\ UNCHANGED row /\ starter' = "abandoned"
    /\ UNCHANGED << shown, outbox, journal, temporal, up, canceller, thread, memory >>

----------------------------------------------------------------------------
(* cancel_run ("request") and _retry_temporal_cancel ("retry").            *)

Goes(c, from, to) == canceller[c] = from /\ canceller' = [canceller EXCEPT ![c] = to]

RequestCancel ==
    /\ up /\ row.state = "RUNNING" /\ Goes("request", "idle", "marking")
    /\ row' = [row EXCEPT !.cancel = TRUE]
    /\ NoFault
    /\ UNCHANGED << shown, outbox, journal, temporal, up, starter, thread, memory >>

\* A read that fails ends the loop; so does a run that has ended.
RetryLooks ==
    /\ up
    /\ \/ NoFault /\ Goes("retry", "looking",
                          IF row.state = "RUNNING" /\ row.cancel THEN "marking" ELSE "idle")
       \/ Fault /\ Goes("retry", "looking", "gave_up")
    /\ UNCHANGED << database, temporal, up, starter, thread, memory >>

\* Not dispatched: cancel_run submits the retry loop; the loop goes on.
NotDispatched(c) ==
    canceller' = [canceller EXCEPT ![c] = IF c = "retry" THEN "looking" ELSE "idle",
                                   !["retry"] = "looking"]

\* temporal.cancel: under the lock, the request is noted and the handle read.
MarkCancel(c) ==
    /\ up /\ canceller[c] = "marking"
    /\ cancelReq' = TRUE
    /\ IF active THEN Goes(c, "marking", "calling") ELSE NotDispatched(c)
    /\ NoFault
    /\ UNCHANGED << database, temporal, up, starter, thread, active >>

\* A cancellation is accepted by Temporal; a closed workflow takes no notice.
AcceptCancel == wfCancel' = (wfCancel \/ wf = "running")

\* handle.cancel() in the thread's event loop, which may be gone.
CallCancel(c) ==
    /\ up /\ canceller[c] = "calling"
    /\ \/ monitor \in Attached /\ NoFault /\ AcceptCancel /\ Goes(c, "calling", "confirming")
       \/ monitor \in Attached /\ Fault /\ (AcceptCancel \/ UNCHANGED wfCancel) /\ NotDispatched(c)
       \/ monitor \notin Attached /\ NoFault /\ UNCHANGED wfCancel /\ NotDispatched(c)
    /\ UNCHANGED << database, wf, pending, refused, up, starter, thread, memory >>

\* _confirm_temporal_cancel.
ConfirmCancel(c) ==
    /\ up
    /\ \/ NoFault /\ EndRun("CANCELLED") /\ Goes(c, "confirming", "idle")
       \/ Fault /\ UNCHANGED row
          /\ Goes(c, "confirming", IF c = "retry" THEN "looking" ELSE "idle")
    /\ UNCHANGED << shown, outbox, journal, temporal, up, starter, thread, memory >>

----------------------------------------------------------------------------
(* The monitor thread: _thread_main and _execute.                          *)

Thread(from, to) == up /\ monitor = from /\ monitor' = to

\* Wrong: the run is failed although a start may have arrived.
ConnectGivesUp ==
    /\ \/ NoFault /\ Thread("connecting", "dispatching")
       \/ Fault /\ Thread("connecting", "failing")
    /\ UNCHANGED << database, temporal, up, starter, canceller, uncertain, last, batch, memory >>

\* An unavailable connection fails the run, unless a start may have arrived.
Connect ==
    /\ \/ NoFault /\ Thread("connecting", "dispatching")
       \/ Fault /\ Thread("connecting", IF uncertain THEN "connecting" ELSE "failing")
    /\ UNCHANGED << database, temporal, up, starter, canceller, uncertain, last, batch, memory >>

Started == IF wf = "none" THEN "running" ELSE wf

\* client.start_workflow; a workflow that exists is attached to.
Dispatch ==
    /\ \/ refused /\ NoFault /\ Thread("dispatching", "failing")
          /\ UNCHANGED << wf, pending, uncertain >>
       \/ ~refused /\ NoFault /\ Thread("dispatching", "registering")
          /\ wf' = Started /\ UNCHANGED << pending, uncertain >>
       \/ ~refused /\ Fault /\ Thread("dispatching", "connecting") /\ uncertain' = TRUE
          /\ \/ wf' = Started /\ UNCHANGED pending
             \/ pending' = TRUE /\ UNCHANGED wf
             \/ UNCHANGED << wf, pending >>
    /\ UNCHANGED << database, wfCancel, refused, up, starter, canceller, last, batch, memory >>

\* The handle is registered, and a cancel request looked for, under the lock.
Register ==
    /\ Thread("registering", IF cancelReq THEN "cancelling" ELSE "polling")
    /\ active' = TRUE /\ last' = 0
    /\ NoFault
    /\ UNCHANGED << database, temporal, up, starter, canceller, uncertain, batch, cancelReq >>

CancelHandle ==
    /\ \/ NoFault /\ AcceptCancel /\ Thread("cancelling", "polling") /\ UNCHANGED uncertain
       \/ Fault /\ (AcceptCancel \/ UNCHANGED wfCancel)
          /\ Thread("cancelling", "connecting") /\ uncertain' = TRUE
    /\ UNCHANGED << database, wf, pending, refused, up, starter, canceller, last, batch, memory >>

\* _publish_new_events: the journal is loaded, ...
LoadEvents(from, to) ==
    /\ journal > last /\ Thread(from, to)
    /\ batch' = << last + 1, journal >>
    /\ UNCHANGED << database, temporal, up, starter, canceller, uncertain, last, memory >>

Poll == NoFault /\ LoadEvents("polling", "publishing")

\* ... and update_run_workflow skips an event that is there already, which it
\* finds out by its source_event_id.
Show(e) ==
    shown' = IF \E i \in DOMAIN shown : shown[i] = e THEN shown ELSE Append(shown, e)

AfterPublish == IF monitor = "publishing" THEN "polling" ELSE "settling"

\* _record_temporal_events: event by event, until the run is not RUNNING.
\* An exception ends the attempt, and last_sequence stays.
PublishEvent ==
    /\ up /\ monitor \in {"publishing", "last_publish"}
    /\ \/ /\ NoFault /\ row.state = "RUNNING" /\ batch[1] <= batch[2]
          /\ Show(batch[1]) /\ batch' = << batch[1] + 1, batch[2] >>
          /\ UNCHANGED << monitor, last >>
       \/ /\ NoFault /\ (row.state # "RUNNING" \/ batch[1] > batch[2])
          /\ last' = batch[2] /\ monitor' = AfterPublish
          /\ UNCHANGED << shown, batch >>
       \/ /\ Fault /\ monitor' = AfterPublish
          /\ UNCHANGED << shown, batch, last >>
    /\ UNCHANGED << row, outbox, journal, temporal, up, starter, canceller, uncertain, memory >>

\* handle.result() is there; or it cannot be had, and the thread reconnects.
GetResult ==
    /\ wf \in Closed
    /\ \/ NoFault /\ UNCHANGED uncertain
          /\ Thread("polling", CASE wf = "cancelled" -> "confirming"
                                 [] wf = "errored" -> "failing"
                                 [] OTHER -> "finishing")
       \/ Fault /\ Thread("polling", "connecting") /\ uncertain' = TRUE
    /\ UNCHANGED << database, temporal, up, starter, canceller, last, batch, memory >>

\* The last events are published, or fail to be, before the row is ended.
LastPublish ==
    \/ NoFault /\ LoadEvents("finishing", "last_publish")
    \/ /\ (NoFault /\ journal = last) \/ Fault
       /\ Thread("finishing", "settling")
       /\ UNCHANGED << database, temporal, up, starter, canceller, uncertain, last, batch,
                       memory >>

\* The state the row is to be given by the thread.
Verdict ==
    CASE monitor = "settling" /\ wf = "succeeded" -> "COMPLETED"
      [] monitor = "confirming" -> "CANCELLED"
      [] OTHER -> "FAILED"

\* Wrong: an exception ends the thread.
ProjectsOnce ==
    /\ up /\ monitor \in {"settling", "confirming", "failing"}
    /\ \/ NoFault /\ EndRun(Verdict)
       \/ Fault /\ UNCHANGED row
    /\ monitor' = "ending"
    /\ UNCHANGED << shown, outbox, journal, temporal, up, starter, canceller, uncertain,
                    last, batch, memory >>

\* on_terminal, until it does not raise.
ProjectTerminal ==
    /\ up /\ monitor \in {"settling", "confirming", "failing"}
    /\ \/ NoFault /\ EndRun(Verdict) /\ monitor' = "ending"
       \/ Fault /\ (EndRun(Verdict) \/ UNCHANGED row) /\ UNCHANGED monitor
    /\ UNCHANGED << shown, outbox, journal, temporal, up, starter, canceller, uncertain,
                    last, batch, memory >>

\* The finally of _thread_main.
EndThread ==
    /\ Thread("ending", "none") /\ NoFault
    /\ active' = FALSE /\ cancelReq' = FALSE
    /\ UNCHANGED << database, temporal, up, starter, canceller, uncertain, last, batch >>

----------------------------------------------------------------------------
(* The process stops, and starts again.                                    *)

Stop ==
    /\ up /\ restarts < MaxRestarts /\ restarts' = restarts + 1
    /\ up' = FALSE
    /\ starter' = IF starter = "new" THEN "new" ELSE "gone"
    /\ canceller' = [c \in Callers |-> "idle"]
    /\ monitor' = "none" /\ active' = FALSE /\ cancelReq' = FALSE
    /\ pending' = (pending \/ (monitor = "dispatching" /\ ~refused))
    /\ UNCHANGED << database, wf, wfCancel, refused, uncertain, last, batch, faults >>

\* Wrong: a cancellation is not resumed.
RecoverForgetsCancel ==
    /\ StartThread
    /\ UNCHANGED << row, canceller >>

\* recover() finds the input in the outbox.
Recover ==
    /\ StartThread
    /\ canceller' = IF row.cancel THEN [canceller EXCEPT !["retry"] = "looking"] ELSE canceller
    /\ UNCHANGED row

\* recover() finds none, or raises.
NotRecovered == EndRun("FAILED") /\ UNCHANGED << canceller, thread >>

\* _recover_temporal_runs; when it raises, the process does not come up.
Restart ==
    /\ ~up /\ up' = TRUE
    /\ \/ row.state # "RUNNING" /\ NoFault /\ UNCHANGED << row, canceller, thread >>
       \/ row.state = "RUNNING" /\ outbox /\ NoFault /\ Recover
       \/ row.state = "RUNNING" /\ (IF outbox THEN Fault ELSE NoFault) /\ NotRecovered
    /\ UNCHANGED << shown, outbox, journal, temporal, starter, memory >>

----------------------------------------------------------------------------
(* Temporal and the workflow.                                              *)

ArriveLate ==
    /\ pending /\ pending' = FALSE
    /\ wf' \in {wf, Started}
    /\ UNCHANGED << database, wfCancel, refused, up, starter, canceller, thread, memory, bounds >>

WorkflowEvent ==
    /\ wf = "running" /\ journal < MaxEvents /\ journal' = journal + 1
    /\ UNCHANGED << row, shown, outbox, temporal, up, starter, canceller, thread, memory, bounds >>

\* It closes of itself, or because it was cancelled.
WorkflowCloses ==
    /\ wf = "running"
    /\ wf' \in Closed /\ (wf' = "cancelled" => wfCancel)
    /\ UNCHANGED << database, wfCancel, pending, refused, up, starter, canceller, thread,
                    memory, bounds >>

----------------------------------------------------------------------------
Start   == Create \/ Prepare \/ StartMonitor \/ MarkStartFailed
Cancel(c) == MarkCancel(c) \/ CallCancel(c) \/ ConfirmCancel(c)
Monitor ==
    \/ Connect \/ Dispatch \/ Register \/ CancelHandle \/ Poll \/ PublishEvent \/ GetResult
    \/ LastPublish \/ ProjectTerminal \/ EndThread

Next ==
    \/ Start \/ RequestCancel \/ RetryLooks \/ (\E c \in Callers : Cancel(c)) \/ Monitor
    \/ Stop \/ Restart \/ ArriveLate \/ WorkflowEvent \/ WorkflowCloses

Spec == Init /\ [][Next]_vars

(***************************************************************************)
(* Fairness: threads and requests that can go on do, and a process that    *)
(* stopped is started again.  Temporal and the workflow promise nothing.   *)
(***************************************************************************)
Fairness ==
    /\ WF_vars(NoFault /\ (Prepare \/ StartMonitor \/ MarkStartFailed))
    /\ WF_vars(NoFault /\ Monitor)
    /\ WF_vars(NoFault /\ RetryLooks)
    /\ \A c \in Callers : WF_vars(NoFault /\ Cancel(c))
    /\ WF_vars(Restart)

FairSpec == Spec /\ Fairness

----------------------------------------------------------------------------
(* Properties.                                                             *)

\* The type invariant.
TypeOK ==
    /\ row \in [state : {"none", "RUNNING"} \cup Ended, cancel : BOOLEAN]
    /\ shown \in Seq(1..MaxEvents) /\ outbox \in BOOLEAN /\ journal \in 0..MaxEvents
    /\ wf \in {"none", "running"} \cup Closed /\ wfCancel \in BOOLEAN
    /\ pending \in BOOLEAN /\ refused \in BOOLEAN /\ up \in BOOLEAN
    /\ starter \in {"new", "created", "prepared", "failing", "returned", "abandoned", "gone"}
    /\ canceller \in [Callers -> {"idle", "looking", "marking", "calling", "confirming", "gave_up"}]
    /\ monitor \in {"none", "connecting", "dispatching", "registering", "failing", "ending"}
                    \cup Attached
    /\ uncertain \in BOOLEAN /\ last \in 0..MaxEvents
    /\ batch \in (1..MaxEvents + 1) \X (0..MaxEvents)
    /\ active \in BOOLEAN /\ cancelReq \in BOOLEAN
    /\ faults \in 0..MaxFaults /\ restarts \in 0..MaxRestarts

\* A run that has ended keeps its state, whoever comes late: the monitor, a
\* cancellation, start_run's own failure or a restart.
EndIsFinal == [][row.state \in Ended => row'.state = row.state]_vars

\* The run shows the events of its workflow once each and in their order,
\* however often they are loaded again (README.md:123, "projects source events
\* idempotently").
ShownInOrder == Len(shown) <= journal /\ \A i \in 1..Len(shown) : shown[i] = i

\* A run ends as FAILED only if its workflow cannot bring a result any more
\* (ADR-004, lines 103-109: neither path invents a failed measurement).
NoInventedFailure == row.state = "FAILED" => wf \in {"none", "failed", "errored"}

\* What a run's end says is true: completed means that the workflow succeeded;
\* cancelled, that Temporal was told; failed, that nothing else can come of it,
\* as long as the process was not restarted.
VerdictIsTrue ==
    /\ row.state = "COMPLETED" => wf = "succeeded"
    /\ row.state = "CANCELLED" => wfCancel \/ wf \in Closed
    /\ restarts = 0 => NoInventedFailure

\* A run does not stay RUNNING when its workflow has closed, whatever failed in
\* between and however often the process was restarted.
RowFollowsWorkflow ==
    row.state = "RUNNING" /\ wf \in Closed ~> row.state # "RUNNING"

\* A cancellation that was stored reaches Temporal, or the run ends, even when
\* it came before the handle and over a restart (README.md:143); unless the
\* retry loop could not read the run, or start_run could not end it.
CancelIsDelivered ==
    row.state = "RUNNING" /\ row.cancel
        ~> \/ wfCancel \/ row.state # "RUNNING"
           \/ canceller["retry"] = "gave_up" \/ starter = "abandoned"
=============================================================================
