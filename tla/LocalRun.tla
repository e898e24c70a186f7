----------------------------- MODULE LocalRun -----------------------------
(***************************************************************************)
(* A run that the control process executes itself (web/control_service.py, *)
(* execution_backend local), and its row in web/postgres_control_store.py. *)
(*                                                                         *)
(* Requests with one idempotency key look for the row; one makes it, sets  *)
(* a cancel signal up and submits the execution.  The execution            *)
(* probes the target (ProbeEngine), or runs a suite; a recorder thread     *)
(* writes the steps it reports into the row.  Users cancel, archive,       *)
(* restore and purge the run meanwhile.  Who has ended the run tells the   *)
(* monitor of it.  A call of the store may fail, before its commit or      *)
(* behind it, and the process may die: local runs are not taken up again.  *)
(***************************************************************************)
EXTENDS ProbeEngine

CONSTANTS
    MaxStarters,    \* requests that start the run, with one idempotency key
    Cancels,        \* requests that cancel it
    MaxTroubles,      \* calls of the store that fail
    Shapes          \* what is executed: kinds of probes, or "suite"

ASSUME LocalAssumption ==
    MaxTroubles \in Nat /\ MaxStarters \in Nat /\ Shapes \subseteq Kinds \cup {"suite"}

VARIABLES
    missed,         \* how many start_run have found no row, and go on to make one
    starter,        \* where the one that made the row is
    stopper,        \* where a cancel_run is
    row,            \* the row of the run; PURGED when it was deleted
    log,            \* its events
    signal,         \* its entry in _cancel_signals: none, clear or set
    job,            \* where _execute_local is
    shape, outcome, \* what it executes, and the result it has
    evidence,       \* evidence_started
    applied,        \* how many of the emitted steps the recorder has taken
    deaf,           \* a step could not be recorded: the rest are dropped
    troubles,
    lost            \* something failed after which nobody ends the run

callers  == << missed, starter, stopper >>
stored   == << row, log >>
executor == << job, shape, outcome, evidence >>
recorder == << applied, deaf >>
misfortune == << troubles, lost >>
localVars == << callers, stored, signal, executor, recorder, misfortune, engine >>

Ended == {"COMPLETED", "FAILED", "CANCELLED"}

LocalInit ==
    /\ ProbeInit
    /\ missed = 0 /\ starter = "none" /\ stopper = [c \in Cancels |-> "new"]
    /\ row = [ state |-> "NONE", flow |-> CreatedFlow, status |-> "NONE", code |-> "NONE",
               archived |-> "never" ]
    /\ log = << >>
    /\ signal = "none"
    /\ job = "none" /\ shape = "none" /\ outcome = Result("UNKNOWN", {}) /\ evidence = FALSE
    /\ applied = 0 /\ deaf = FALSE
    /\ troubles = 0 /\ lost = FALSE

Exists   == row.state \notin {"NONE", "PURGED"}
Readable == Exists /\ row.archived # "now"            \* for a read without include_archived

Trouble == troubles < MaxTroubles /\ troubles' = troubles + 1

\* _append_event: sequence MAX + 1, under the lock of the row.
Note(event) == log' = Append(log, event)

\* _project_monitor_run: when the monitor cannot be told of the run, its log is, if
\* that does not fail as well.  Whatever state the row is in; a purged one has no log.
ProjectMonitor ==
    \/ UNCHANGED << log, troubles >>
    \/ Exists /\ Trouble /\ Note(Report(0, "MONITOR_PROJECTION_FAILED"))

----------------------------------------------------------------------------
(* start_run.                                                              *)

Pass(from, to) == starter = from /\ starter' = to

\* A request is refused, or answered from the row, without a change.  Otherwise its
\* target, its suite and its binding are in order and there is no row yet.
\* Bound: a request that comes when the row exists, or existed, finds it.
Find ==
    /\ row.state = "NONE" /\ missed < MaxStarters
    /\ missed' = missed + 1
    /\ UNCHANGED << starter, stopper, stored, signal, executor, recorder, misfortune, engine >>

\* create_run: the insert conflicts with the row another request has made, or with
\* a target archived meanwhile; or the row is there and the answer is lost.
Create ==
    /\ missed > 0 /\ missed' = missed - 1
    /\ \/ UNCHANGED << starter, stored, misfortune >>
       \/ /\ row.state = "NONE"
          /\ row' = [row EXCEPT !.state = "RUNNING"] /\ Note(Report(0, "RUN_STARTED"))
          /\ \/ Pass("none", "created") /\ UNCHANGED misfortune
             \/ Pass("none", "over") /\ Trouble /\ lost' = TRUE
    /\ UNCHANGED << stopper, signal, executor, recorder, engine >>

Register ==
    /\ Pass("created", "registered")
    /\ signal' = "clear"
    /\ UNCHANGED << missed, stopper, stored, executor, recorder, misfortune, engine >>

\* _mark_failed: the row is read and, when it is RUNNING still, FAILED.  Only when the
\* store has said so does the monitor come to know of it.
MarkFailed(code, told) ==
    \/ /\ row.state = "RUNNING"
       /\ row' = [row EXCEPT !.state = "FAILED", !.status = "FAIL", !.code = code,
                             !.flow = FailedFlow(row.flow, code)]
       /\ Note(Report(0, "RUN_FAILED"))
       /\ IF told THEN UNCHANGED troubles ELSE Trouble
       /\ UNCHANGED lost
    \/ /\ ~told /\ row.state # "RUNNING"
       /\ UNCHANGED << stored, misfortune >>
    \/ /\ ~told /\ Trouble /\ lost' = TRUE
       /\ UNCHANGED stored

\* _submit_background; an executor that was shut down raises.
HandOver ==
    /\ \/ /\ Pass("registered", "over")
          /\ job' = "queued" /\ shape' \in Shapes
          /\ UNCHANGED << stored, misfortune >>
       \/ \E told \in BOOLEAN :
              /\ Pass("registered", IF told THEN "telling" ELSE "over")
              /\ MarkFailed("LOCAL_DISPATCH_ERROR", told)
              /\ UNCHANGED << job, shape >>
    /\ UNCHANGED << missed, stopper, signal, outcome, evidence, recorder, engine >>

----------------------------------------------------------------------------
(* _execute_local.                                                         *)

Reach(from, to) == job = from /\ job' = to

\* A component probe starts, with its recorder; a suite reports by itself.
Begin ==
    /\ \/ shape = "suite" /\ Reach("queued", "suite 1") /\ UNCHANGED engine
       \/ shape # "suite" /\ Reach("queued", "probing") /\ StartProbe(shape)
       \/ shape # "suite" /\ Reach("queued", "failing") /\ UNCHANGED engine    \* ProbeConfig
    /\ UNCHANGED << callers, stored, signal, shape, outcome, evidence, recorder, misfortune >>

Work ==
    /\ job = "probing" /\ ProbeStep
    /\ UNCHANGED << callers, stored, signal, executor, recorder, misfortune >>

CanRecord(e) == Readable /\ row.state = "RUNNING" /\ CanAdvance(row.flow, e)

\* Wrong: the step is written whatever the row says.
RecordAnyway(e) ==
    /\ Exists /\ CanAdvance(row.flow, e)
    /\ row' = [row EXCEPT !.flow = Advance(row.flow, e)]
    /\ Note(e)

\* _advance: get_run_system, advance_component_run, update_run_workflow.
RecordStep(e) ==
    /\ CanRecord(e)
    /\ row' = [row EXCEPT !.flow = Advance(row.flow, e)]
    /\ Note(e)

\* _ControlProgressRecorder._drain takes the next step.
Drain ==
    /\ job = "probing" /\ applied < Len(emitted)
    /\ applied' = applied + 1
    /\ LET e == emitted[applied + 1]
       IN  \/ deaf /\ UNCHANGED << stored, deaf, troubles >>
           \/ ~deaf /\ RecordStep(e) /\ UNCHANGED << deaf, troubles >>
           \/ ~deaf /\ ~CanRecord(e) /\ deaf' = TRUE /\ UNCHANGED << stored, troubles >>
           \/ ~deaf /\ Trouble /\ deaf' = TRUE /\ (RecordStep(e) \/ UNCHANGED stored)
    /\ UNCHANGED << callers, signal, executor, lost, engine >>

\* recorder.close joins the thread: it has taken every step by then.
Collect ==
    /\ probe.at = "returned" /\ applied = Len(emitted)
    /\ Reach("probing", "checking")
    /\ outcome' = probe.result
    /\ Forget /\ applied' = 0
    /\ UNCHANGED << callers, stored, signal, shape, evidence, deaf, misfortune >>

SuiteSteps == << [at |-> "suite 1", to |-> "suite 2", step |-> Report(Fixture, "RUNNING")],
                 [at |-> "suite 2", to |-> "suite 3", step |-> Report(Fixture, "PASS")],
                 [at |-> "suite 3", to |-> "sampling", step |-> Report(Dispatch, "RUNNING")],
                 [at |-> "sampled", to |-> "checking", step |-> Report(Dispatch, "PASS")] >>

SuiteStep ==
    /\ \E k \in DOMAIN SuiteSteps :
           LET now == SuiteSteps[k]
           IN  \/ Reach(now.at, now.to) /\ RecordStep(now.step) /\ UNCHANGED troubles
               \/ Reach(now.at, "failing") /\ ~CanRecord(now.step) /\ UNCHANGED << stored, troubles >>
               \/ Reach(now.at, "failing") /\ Trouble /\ (RecordStep(now.step) \/ UNCHANGED stored)
    /\ UNCHANGED << callers, signal, shape, outcome, evidence, recorder, lost, engine >>

\* Scored by score_run: one result for everything FailureStep looks at, in its order.
SuiteResults ==
    {Result(status, {}) : status \in {"PASS", "WARN", "UNKNOWN"}}
    \cup {Result("FAIL", {"TRANSPORT"})}
    \cup {[Result("FAIL", {}) EXCEPT !.failed = {dimension}, !.streamReason = reason] :
            dimension \in {"availability", "protocol", "quality"}, reason \in BOOLEAN}

\* run_suite: nothing is sent once the run was cancelled before; later it may be
\* too late to notice.  The samples are scored, or one of them raises.
RunSuite ==
    /\ \/ Reach("sampling", IF signal = "set" THEN "failing" ELSE "waiting") /\ UNCHANGED outcome
       \/ Reach("waiting", "sampled") /\ outcome' \in SuiteResults
       \/ Reach("waiting", "failing") /\ UNCHANGED outcome
    /\ UNCHANGED << callers, stored, signal, shape, evidence, recorder, misfortune, engine >>

\* A run that was told to stop leaves its row to the one who told it.
CheckSignal ==
    /\ Reach("checking", IF signal = "set" THEN "ending" ELSE "beginning")
    /\ UNCHANGED << callers, stored, signal, shape, outcome, evidence, recorder, misfortune,
                    engine >>

CanBeginEvidence == Readable /\ row.state = "RUNNING" /\ CanBegin(row.flow, outcome)

\* The result is there: the evidence step begins.
Settled ==
    /\ \/ /\ CanBeginEvidence
          /\ row' = [row EXCEPT !.flow = BeginEvidence(row.flow, outcome)]
          /\ Note(Report(Seal, "RUNNING"))
          /\ \/ Reach("beginning", "sealing") /\ evidence' = TRUE /\ UNCHANGED troubles
             \/ Reach("beginning", "failing") /\ Trouble /\ UNCHANGED evidence
       \/ /\ ~CanBeginEvidence /\ Reach("beginning", "failing")
          /\ UNCHANGED << stored, evidence, troubles >>
       \/ /\ Trouble /\ Reach("beginning", "failing")
          /\ UNCHANGED << stored, evidence >>
    /\ UNCHANGED << callers, signal, shape, outcome, recorder, lost, engine >>

\* The result is sanitized, which may refuse it, and stored with the final workflow:
\* then the monitor is told, unless the store's answer is lost.
StoreResult ==
    /\ \/ /\ row.state = "RUNNING"
          /\ row' = [row EXCEPT !.state = "COMPLETED", !.status = outcome.status, !.code = "NONE",
                                !.flow = FinalFlow(row.flow, outcome)]
          /\ Note(Report(0, "RUN_COMPLETED"))
          /\ \/ Reach("sealing", "telling") /\ UNCHANGED troubles
             \/ Reach("sealing", "failing") /\ Trouble
       \/ /\ Reach("sealing", "failing")
          /\ UNCHANGED << stored, troubles >>
    /\ UNCHANGED << callers, signal, shape, outcome, evidence, recorder, lost, engine >>

\* Wrong: a run whose result is there is taken for ended.
LeavesEvidence ==
    /\ Reach("failing", "ending")
    /\ IF evidence THEN UNCHANGED << stored, misfortune >> ELSE MarkFailed("EXECUTION_ERROR", FALSE)
    /\ UNCHANGED << callers, signal, shape, outcome, evidence, recorder, engine >>

\* Whatever was raised: a run that is CANCELLED, or gone, is left alone.
OnFailure ==
    /\ \E told \in BOOLEAN :
           /\ Reach("failing", IF told THEN "telling" ELSE "ending")
           /\ MarkFailed(IF evidence THEN "EVIDENCE_PERSISTENCE_ERROR" ELSE "EXECUTION_ERROR", told)
    /\ UNCHANGED << callers, signal, shape, outcome, evidence, recorder, engine >>

Leave ==
    /\ Reach("ending", "done")
    /\ signal' = "none"
    /\ UNCHANGED << callers, stored, shape, outcome, evidence, recorder, misfortune, engine >>

----------------------------------------------------------------------------
(* Users.                                                                  *)

\* cancel_run reads the run and sets its signal, if it has one.
SetSignal(c) ==
    /\ stopper[c] = "new" /\ Readable
    /\ stopper' = [stopper EXCEPT ![c] = "signalled"]
    /\ signal' = IF signal = "clear" THEN "set" ELSE signal
    /\ UNCHANGED << missed, starter, stored, executor, recorder, misfortune, engine >>

\* Then the row is CANCELLED, if it is RUNNING, whether or not the signal was set.
\* When the write fails, the execution stops all the same and the row is RUNNING.
CancelRow(c) ==
    /\ stopper[c] = "signalled"
    /\ \E told \in BOOLEAN :
           /\ stopper' = [stopper EXCEPT ![c] = IF told THEN "telling" ELSE "done"]
           /\ \/ /\ row.state = "RUNNING"
                 /\ row' = [row EXCEPT !.state = "CANCELLED", !.status = "UNKNOWN",
                                       !.code = "CANCEL_REQUESTED"]
                 /\ Note(Report(0, "RUN_CANCELLED"))
                 /\ IF told THEN UNCHANGED troubles ELSE Trouble
                 /\ UNCHANGED lost
              \/ ~told /\ row.state # "RUNNING" /\ UNCHANGED << stored, misfortune >>
              \/ ~told /\ Trouble /\ lost' = TRUE /\ UNCHANGED stored
    /\ UNCHANGED << missed, starter, signal, executor, recorder, engine >>

\* Who has ended the run tells the monitor: the execution, its dispatch or a cancel_run.
TellMonitor ==
    /\ \/ Pass("telling", "over") /\ UNCHANGED << job, stopper >>
       \/ Reach("telling", "ending") /\ UNCHANGED << starter, stopper >>
       \/ \E c \in Cancels :
              /\ stopper[c] = "telling" /\ stopper' = [stopper EXCEPT ![c] = "done"]
              /\ UNCHANGED << starter, job >>
    /\ ProjectMonitor
    /\ UNCHANGED << missed, row, signal, shape, outcome, evidence, recorder, lost, engine >>

Others == << callers, signal, executor, recorder, misfortune, engine >>

Archive ==
    /\ row.state \in Ended /\ row.archived # "now"
    /\ row' = [row EXCEPT !.archived = "now"]
    /\ UNCHANGED << log, Others >>

Restore ==
    /\ Exists /\ row.archived = "now"
    /\ row' = [row EXCEPT !.archived = "once"]
    /\ UNCHANGED << log, Others >>

\* That the run is archived is read before it is deleted: it may be restored by then.
\* Bound: nobody starts a purged run's key again.
Purge ==
    /\ row.state \in Ended /\ row.archived # "never"
    /\ row' = [row EXCEPT !.state = "PURGED"]
    /\ log' = << >>                        \* deleted with the run
    /\ UNCHANGED Others

\* The process dies.  What it was doing is not taken up again.
Die ==
    /\ Exists /\ job # "dead"
    /\ job' = "dead" /\ signal' = "none"
    /\ missed' = 0 /\ starter' = "over"
    /\ stopper' = [c \in Cancels |-> IF stopper[c] = "new" THEN "new" ELSE "done"]
    /\ lost' = TRUE
    /\ shape' = "none" /\ outcome' = Result("UNKNOWN", {}) /\ evidence' = FALSE
    /\ Forget /\ applied' = 0 /\ deaf' = FALSE
    /\ UNCHANGED << stored, troubles >>

----------------------------------------------------------------------------

Executes == Begin \/ Work \/ Drain \/ Collect \/ SuiteStep \/ RunSuite \/ CheckSignal
            \/ Settled \/ StoreResult \/ OnFailure \/ Leave

Starts == Create \/ Register \/ HandOver

LocalNext ==
    \/ Find \/ Starts
    \/ Executes \/ TellMonitor
    \/ \E c \in Cancels : SetSignal(c) \/ CancelRow(c)
    \/ Archive \/ Restore \/ Purge \/ Die

\* The workers and the threads of the process go on, as do its requests.
LocalFairness ==
    /\ WF_localVars(Executes /\ ~Drain) /\ WF_localVars(Drain)
    /\ WF_localVars(Starts) /\ WF_localVars(TellMonitor)
    /\ \A c \in Cancels : WF_localVars(CancelRow(c))

LocalSpec == LocalInit /\ [][LocalNext]_localVars /\ LocalFairness

----------------------------------------------------------------------------

\* The row, its workflow and its result tell one story, whoever wrote them last: the
\* execution, its recorder, a failed dispatch or a cancellation in between.
RowTellsOneStory ==
    Exists =>
        /\ Coherent(row.flow)
        /\ row.state \in {"RUNNING", "CANCELLED"} <=> row.flow.status = "RUNNING"
        /\ row.state = "COMPLETED" => row.flow.status = row.status
        /\ row.state = "COMPLETED" /\ job # "dead" => row.status = outcome.status
        /\ row.state = "COMPLETED" /\ row.status = "FAIL" => FailedStep(row.flow)
        /\ row.state = "FAILED" => row.flow.code = row.code /\ row.status = "FAIL"

\* The log of a run that has ended has one event that says how, and says it right; behind
\* it stands at most that the monitor could not be told.  While the run is RUNNING the log
\* says which step is.
LogTellsTheRow ==
    LET ending    == [COMPLETED |-> "RUN_COMPLETED", FAILED |-> "RUN_FAILED", CANCELLED |-> "RUN_CANCELLED"]
        Midway(k) == log[k].to \in {"RUN_STARTED", "RUNNING", "PASS", "FAIL"}
        last      == log[Len(log)]
    IN  Exists =>
        /\ row.state \in Ended =>
               \E k \in DOMAIN log :
                   /\ log[k].to = ending[row.state]
                   /\ \A j \in 1..(k - 1) : Midway(j)
                   /\ \A j \in (k + 1)..Len(log) : j = k + 1 /\ log[j].to = "MONITOR_PROJECTION_FAILED"
        /\ row.state = "RUNNING" =>
               /\ \A k \in DOMAIN log : Midway(k)
               /\ row.flow.cur # 0 <=> last.to = "RUNNING"
               /\ row.flow.cur # 0 => last.step = row.flow.cur

\* The recorder falls silent only when a call failed or the run was ended under it:
\* every step a probe reports is one the workflow accepts.
RecorderIsHeard == deaf => troubles > 0 \/ row.state # "RUNNING"

\* A run ends, unless the process dies or a call that had to end it fails.
LocalRunEnds == (row.state = "RUNNING") ~> (row.state # "RUNNING" \/ lost)
=============================================================================
