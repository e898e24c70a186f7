--------------------------- MODULE TemporalCanary ---------------------------
(***************************************************************************)
(* One canary run under Temporal, end to end: the workflow that drives it  *)
(* (workflows/temporal_workflow.py), the journal it appends to             *)
(* (RunJournal), the workers that carry out its steps                      *)
(* (workflows/temporal_activities.py around                                *)
(* workflows/native_activities.py) and the execution rows they share       *)
(* (ActivityRow).                                                          *)
(*                                                                         *)
(* What Temporal does is modelled from how the code uses it: an append is  *)
(* retried until it is acknowledged or its retry policy gives up; a step   *)
(* is delivered once; when a heartbeat is missed the workflow is told so,  *)
(* while the worker may well live on; a cancellation surfaces at the await *)
(* the workflow is in.  The run row exists before the run does (the        *)
(* launcher calls prepare_run first), and a workflow id is never reused    *)
(* (REJECT_DUPLICATE), so a run starts from an empty journal.              *)
(*                                                                         *)
(* Everything that goes wrong on its own (lost calls, raising delegates,   *)
(* stalled or dead workers, exhausted retries) counts as a fault; MaxFaults *)
(* bounds them.  A cancellation is not a fault.                            *)
(***************************************************************************)
EXTENDS RunJournal

CONSTANTS
    MaxAttempts,        \* retry_policy.max_attempts
    MaxFaults,
    TargetFailureAt,    \* activities whose delegate may report TARGET_FAILED: of the
                        \* repository's delegate EXECUTE alone, of another one any
    DelegateFailures    \* ActivityFailures a delegate may raise on its own

Silent       == [outcome |-> NoOutcome, ref |-> NoRef, failure |-> NoFailure]
Said(o, ref) == [Silent EXCEPT !.outcome = o, !.ref = ref]
Failed(f)    == [Silent EXCEPT !.failure = f]

Failure(code, kind, retryable) == [code |-> code, kind |-> kind, retryable |-> retryable]

StateUnavailable  == Failure("ACTIVITY_STATE_UNAVAILABLE", "INFRASTRUCTURE", TRUE)
StoreFailure      == Failure("NATIVE_ACTIVITY_INFRASTRUCTURE_FAILED", "INFRASTRUCTURE", TRUE)
PersistenceFailed == Failure("ACTIVITY_STATE_PERSISTENCE_FAILED", "INFRASTRUCTURE", TRUE)
LeaseLost         == Failure("ACTIVITY_LEASE_LOST", "INFRASTRUCTURE", TRUE)
KeyConflict       == Failure("ACTIVITY_IDEMPOTENCY_CONFLICT", "POLICY", FALSE)
StepCancelled     == Failure("ACTIVITY_CANCELLED", "INFRASTRUCTURE", FALSE)
StepLost          == Failure("TEMPORAL_ACTIVITY_EXECUTION_FAILED", "INFRASTRUCTURE", TRUE)
ResultMissing     == Failure("PERSISTED_RESULT_NOT_FOUND", "INFRASTRUCTURE", TRUE)
ResultConflict    == Failure("PROBE_RESULT_IMMUTABILITY_CONFLICT", "POLICY", FALSE)

ASSUME CanaryAssumption ==
    /\ MaxAttempts \in Nat \ {0} /\ MaxFaults \in Nat
    /\ TargetFailureAt \subseteq Activities
    /\ DelegateFailures \subseteq [code : ErrorCodes, kind : FailureKinds, retryable : BOOLEAN]

VARIABLES
    pc,         \* the await the workflow is in, or how Temporal closed it
    state,      \* its WorkflowState
    outbox,     \* the event of its last append call
    after,      \* where that call returns to
    reply,      \* what the last step answered
    cancel,     \* whether a cancellation has reached the workflow, or its step
    journal,    \* the stored workflow_events
    proj,       \* project_workflow_state of the stored events
    run,        \* the row of workflow_runs
    exec,       \* the rows of activity_executions, one per activity
    live,       \* whose lease has not expired
    result,     \* result_ref of the row of probe_results
    workers,    \* deliveries of steps that have not ended
    faults

driver == << pc, state, outbox, after, reply, cancel >>
store  == << journal, proj, run >>
rows   == << exec, live, result >>
vars   == << driver, store, rows, workers, faults >>

\* Rows of ActivityRow: an attempt acquires its lease at most once (the step
\* has no SDK retry), so the attempt stands for the token it proposes.
Store == INSTANCE ActivityRow WITH NoToken <- 0, NoInput <- NoRef, NoAnswer <- Silent

ClosedPcs == {"COMPLETED", "CANCELLED", "FAILED"}
Closed    == pc \in ClosedPcs
Pcs       == {"load", "drive", "append", "retry_sleep", "busy_sleep",
              "scheduled", "step", "replied"} \cup ClosedPcs

NoReply      == [kind |-> "NONE", answer |-> Silent]
Busy         == [kind |-> "BUSY", answer |-> Silent]
Cancelled    == [kind |-> "CANCELLED", answer |-> Silent]
Reports(ans) == [kind |-> IF ans.failure = NoFailure THEN "OUTCOME" ELSE "FAILED",
                 answer |-> ans]

Init ==
    /\ pc = "load" /\ state = InitialState /\ outbox = NoEvent /\ after = "drive"
    /\ reply = NoReply /\ cancel = "no"
    /\ journal = << >> /\ proj = InitialState /\ run = CreatedRun
    /\ exec = [a \in Activities |-> Store!NoExecution]
    /\ live = [a \in Activities |-> FALSE]
    /\ result = NoRef
    /\ workers = {}
    /\ faults = 0

Fault == faults < MaxFaults /\ faults' = faults + 1

----------------------------------------------------------------------------
(* The workflow: TemporalCanaryWorkflow._drive from one await to the next.  *)

\* _record: the append call is made; the state moves when it is acknowledged.
Record(e, then) == pc' = "append" /\ outbox' = e /\ after' = then

StartedEvent(s) == BlankEvent(s, "WORKFLOW_STARTED", "NONE")
StopEvent(s, type, code) == [BlankEvent(s, type, s.phase) EXCEPT !.code = code]
SuccessEvent(s) == [BlankEvent(s, "WORKFLOW_SUCCEEDED", "COMPLETE") EXCEPT !.ref = s.ref]

ActivityEvent(s, type, act, attempt) ==
    [BlankEvent(s, type, act) EXCEPT !.act = act, !.attempt = attempt]
StartEvent(s) ==
    ActivityEvent(s, "ACTIVITY_STARTED", NextActivity(s), s.attempts[NextActivity(s)] + 1)
CompletionEvent(s, ans) ==
    [ActivityEvent(s, "ACTIVITY_COMPLETED", s.current, s.attempt)
        EXCEPT !.outcome = ans.outcome, !.ref = ans.ref]
\* Wrong: allows one attempt more than the policy.
RetriesOnceMore(s, failure) ==
    [ActivityEvent(s, "ACTIVITY_ATTEMPT_FAILED", s.current, s.attempt)
        EXCEPT !.failure = failure, !.retry = failure.retryable /\ s.attempt <= MaxAttempts]

AttemptFailureEvent(s, failure) ==
    [ActivityEvent(s, "ACTIVITY_ATTEMPT_FAILED", s.current, s.attempt)
        EXCEPT !.failure = failure, !.retry = failure.retryable /\ s.attempt < MaxAttempts]

CancelEvent(s) == StopEvent(s, "WORKFLOW_CANCELLED", "WORKFLOW_CANCEL_REQUESTED")

Load ==
    /\ pc = "load"
    /\ state' = proj
    /\ Record(StartedEvent(proj), "drive")
    /\ UNCHANGED << reply, cancel, store, rows, workers, faults >>

Stopped == state.pending # NoFailure /\ ~state.retry
AllDone == NextActivity(state) = NoActivity /\ state.current = NoActivity
Between == ~Stopped /\ ~AllDone /\ state.current = NoActivity

SendTerminal ==
    /\ pc = "drive" /\ Stopped
    /\ LET type == IF state.pending.kind \in {"CONFIGURATION", "POLICY"}
                   THEN "WORKFLOW_REJECTED" ELSE "WORKFLOW_FAILED"
       IN  Record(StopEvent(state, type, state.pending.code), "COMPLETED")
    /\ UNCHANGED << state, reply, cancel, store, rows, workers, faults >>

SendSuccess ==
    /\ pc = "drive" /\ ~Stopped /\ AllDone
    /\ Record(SuccessEvent(state), "COMPLETED")
    /\ UNCHANGED << state, reply, cancel, store, rows, workers, faults >>

Sleep ==
    /\ pc = "drive" /\ Between /\ state.retry
    /\ pc' = "retry_sleep"
    /\ UNCHANGED << state, outbox, after, reply, cancel, store, rows, workers, faults >>

SendStart ==
    /\ \/ pc = "drive" /\ Between /\ ~state.retry
       \/ pc = "retry_sleep"
    /\ Record(StartEvent(state), "drive")
    /\ UNCHANGED << state, reply, cancel, store, rows, workers, faults >>

Invoke ==
    /\ pc = "drive" /\ ~Stopped /\ state.current # NoActivity
    /\ pc' = "scheduled"
    /\ UNCHANGED << state, outbox, after, reply, cancel, store, rows, workers, faults >>

\* The step found another delivery's lease: it sleeps the rest of it.
HandleBusy ==
    /\ pc = "replied" /\ reply.kind = "BUSY"
    /\ pc' = "busy_sleep" /\ reply' = NoReply
    /\ UNCHANGED << state, outbox, after, cancel, store, rows, workers, faults >>

Wake ==
    /\ pc = "busy_sleep"
    /\ pc' = "drive"
    /\ UNCHANGED << state, outbox, after, reply, cancel, store, rows, workers, faults >>

HandleFailure ==
    /\ pc = "replied" /\ reply.kind = "FAILED"
    /\ Record(AttemptFailureEvent(state, reply.answer.failure), "drive")
    /\ reply' = NoReply
    /\ UNCHANGED << state, cancel, store, rows, workers, faults >>

BadOutcome == reply.answer.outcome = "TARGET_FAILED" /\ state.current \notin MayTargetFail

HandleOutcome ==
    /\ pc = "replied" /\ reply.kind = "OUTCOME"
    /\ IF BadOutcome
       THEN Record(StopEvent(state, "WORKFLOW_FAILED", "INVALID_TARGET_FAILURE_OUTCOME"),
                   "COMPLETED")
       ELSE Record(CompletionEvent(state, reply.answer), "drive")
    /\ reply' = NoReply
    /\ UNCHANGED << state, cancel, store, rows, workers, faults >>

HandleStepCancelled ==
    /\ pc = "replied" /\ reply.kind = "CANCELLED"
    /\ Record(CancelEvent(state), "CANCELLED")
    /\ reply' = NoReply
    /\ UNCHANGED << state, cancel, store, rows, workers, faults >>

----------------------------------------------------------------------------
(* Append and load calls.  The database commits an append at some point    *)
(* after it was made, perhaps when the workflow has stopped waiting for it. *)

CommitAppend ==
    /\ CanAppend(run, proj, outbox)
    /\ journal' = Append(journal, outbox)
    /\ proj' = ApplyEvent(proj, outbox)
    /\ run' = SqlAdvance(run, outbox)
    /\ UNCHANGED << driver, rows, workers, faults >>

\* The first answer that gets back; a repeat finds the event stored.
AckAppend ==
    /\ pc = "append" /\ Stored(journal, outbox)
    /\ state' = ApplyEvent(state, outbox)
    /\ pc' = after
    /\ UNCHANGED << outbox, after, reply, cancel, store, rows, workers, faults >>

\* All attempts failed: the ActivityError leaves run(), the workflow fails.
GiveUp ==
    /\ pc \in {"load", "append"} /\ Fault
    /\ pc' = "FAILED"
    /\ UNCHANGED << state, outbox, after, reply, cancel, store, rows, workers >>

----------------------------------------------------------------------------
(* Cancellation, at most one request per run.  A request that Temporal has   *)
(* not delivered changes nothing, so asking and delivering are one step.     *)

\* In a load or an append the await raises an ActivityError whose cause is the
\* cancellation.  run() catches asyncio.CancelledError only.
CancelCall ==
    /\ pc \in {"load", "append"} /\ cancel = "no"
    /\ pc' = "CANCELLED" /\ cancel' = "done"
    /\ UNCHANGED << state, outbox, after, reply, store, rows, workers, faults >>

\* In a sleep, before a worker has the step, or together with its answer.
CancelWait ==
    /\ pc \in {"retry_sleep", "busy_sleep", "scheduled", "replied"}
    /\ cancel = "no"
    /\ Record(CancelEvent(state), "CANCELLED")
    /\ cancel' = "done" /\ reply' = NoReply
    /\ UNCHANGED << state, store, rows, workers, faults >>

\* A running step is asked, and waited for (WAIT_CANCELLATION_COMPLETED).
CancelStep ==
    /\ pc = "step" /\ cancel = "no"
    /\ cancel' = "step"
    /\ UNCHANGED << pc, state, outbox, after, reply, store, rows, workers, faults >>

----------------------------------------------------------------------------
(* Workers: execute_step, and NativeCanaryActivities.invoke in its thread.  *)

NewWorker == [ act |-> state.current, attempt |-> state.attempt, input |-> state.ref,
               pc |-> "claiming", answer |-> Silent, lost |-> FALSE, told |-> FALSE ]

Deliver ==
    /\ pc = "scheduled"
    /\ pc' = "step" /\ workers' = workers \cup {NewWorker}
    /\ UNCHANGED << state, outbox, after, reply, cancel, store, rows, faults >>

\* The delivery the workflow is waiting for; any other was given up.
Awaited(w) == pc = "step" /\ w.act = state.current /\ w.attempt = state.attempt

\* Cancelled before it is done, execute_step waits for its thread and then
\* raises, whatever the thread came back with.
StepEnds(r) ==
    /\ pc' = "replied" /\ reply' = r
    /\ cancel' = IF cancel = "step" THEN "done" ELSE cancel

End(w, r) ==
    /\ workers' = workers \ {w}
    /\ IF Awaited(w) THEN StepEnds(IF w.told THEN Cancelled ELSE r)
                     ELSE UNCHANGED << pc, reply, cancel >>
    /\ UNCHANGED << state, outbox, after, store >>

Continue(w, v) ==
    /\ workers' = (workers \ {w}) \cup {v}
    /\ UNCHANGED << driver, store >>

Answering(w, ans) ==
    [w EXCEPT !.pc = IF ans.failure = NoFailure THEN "completing" ELSE "failing",
              !.answer = ans]

\* A missed heartbeat, or start_to_close_timeout.
StepTimeout ==
    /\ pc = "step" /\ Fault
    /\ StepEnds(Reports(Failed(StepLost)))
    /\ UNCHANGED << state, outbox, after, store, rows, workers >>

Crash(w) ==
    /\ ~Awaited(w)
    /\ workers' = workers \ {w}
    /\ UNCHANGED << driver, store, rows, faults >>

\* The next heartbeat tells the worker that its step is cancelled or gone.
HearCancel(w) ==
    /\ ~w.told /\ (Awaited(w) => cancel = "step")
    /\ Continue(w, [w EXCEPT !.told = TRUE])
    /\ UNCHANGED << rows, faults >>

RowOf(w)       == exec[w.act]
Disposition(w) == Store!ClaimDisposition(RowOf(w), w.input, w.attempt, w.attempt, live[w.act])
Claimed(w)     == Store!RowAfterClaim(RowOf(w), w.input, w.attempt, w.attempt, live[w.act])
Lease(w)       == /\ exec' = [exec EXCEPT ![w.act] = Claimed(w)]
                  /\ live' = [live EXCEPT ![w.act] = TRUE]

\* Told to cancel by now, the activity is not even started.
Acquire(w) ==
    /\ w.pc = "claiming" /\ Disposition(w) = "ACQUIRED"
    /\ Lease(w)
    /\ Continue(w, IF w.told THEN Answering(w, Failed(StepCancelled))
                             ELSE [w EXCEPT !.pc = "running"])
    /\ UNCHANGED << result, faults >>

Replay(w) ==
    /\ w.pc = "claiming" /\ Disposition(w) \in {"COMPLETED", "FAILED"}
    /\ End(w, Reports(RowOf(w).answer))
    /\ UNCHANGED << rows, faults >>

FindBusy(w) ==
    /\ w.pc = "claiming" /\ Disposition(w) = "BUSY"
    /\ End(w, Busy)
    /\ UNCHANGED << rows, faults >>

ClaimUnavailable(w) ==
    /\ w.pc = "claiming" /\ Fault
    /\ End(w, Reports(Failed(StateUnavailable)))
    /\ \/ UNCHANGED << exec, live >>
       \/ Disposition(w) = "ACQUIRED" /\ Lease(w)
    /\ UNCHANGED result

OwnsLease(w) == Store!Owns(RowOf(w), w.input, w.attempt, w.attempt)
Renewing(w)  == w.pc = "running" /\ ~w.lost

Renew(w) ==
    /\ Renewing(w) /\ OwnsLease(w) /\ ~live[w.act]
    /\ live' = [live EXCEPT ![w.act] = TRUE]
    /\ UNCHANGED << driver, store, exec, result, workers, faults >>

\* It takes a fault for a lease to run out, or to be lost, under its renewer.
LeaseExpires(a) ==
    /\ live[a]
    /\ IF \E w \in workers : w.act = a /\ Renewing(w) /\ OwnsLease(w)
       THEN Fault ELSE UNCHANGED faults
    /\ live' = [live EXCEPT ![a] = FALSE]
    /\ UNCHANGED << driver, store, exec, result, workers >>

LoseLease(w) ==
    /\ Renewing(w)
    /\ IF OwnsLease(w) THEN Fault ELSE UNCHANGED faults
    /\ Continue(w, [w EXCEPT !.lost = TRUE])
    /\ UNCHANGED rows

StopLost(w) ==
    /\ w.pc = "running" /\ w.lost
    /\ End(w, Reports(Failed(LeaseLost)))
    /\ UNCHANGED << rows, faults >>

----------------------------------------------------------------------------
(* _invoke_uncached: what the activities do, and what they answer.         *)

\* persist_probe_result inserts the one row of a run.
Persist(w) ==
    /\ w.pc = "running" /\ w.act = "PERSIST" /\ result = NoRef
    /\ result' = w.input
    /\ UNCHANGED << driver, store, exec, live, workers, faults >>

\* VALIDATE and PREFLIGHT answer a name of the input, the same in every attempt;
\* EXECUTE stores the evidence of its own measurement; the later activities
\* hand on the reference they were given.
RewritesEvidence(w) == << w.act, w.attempt >>       \* wrong: a new one every time
Produced(w) == IF w.act = "EXECUTE" THEN << w.act, w.attempt >>
               ELSE IF w.act \in {"VALIDATE", "PREFLIGHT"} THEN << w.act, 0 >>
               ELSE w.input

Computed(w, outcome) ==
    IF w.act = "PERSIST" /\ result # w.input THEN Failed(ResultConflict)
    ELSE IF w.act \in {"COMPARE", "NOTIFY"} /\ result = NoRef THEN Failed(ResultMissing)
    ELSE Said(outcome, Produced(w))

Possible(w) == IF w.act \in TargetFailureAt THEN TargetStatuses ELSE {"SUCCEEDED"}

Finish(w) ==
    /\ Renewing(w)
    /\ w.act = "PERSIST" => result # NoRef
    /\ \E o \in Possible(w) : Continue(w, Answering(w, Computed(w, o)))
    /\ UNCHANGED << rows, faults >>

Raise(w) ==
    /\ Renewing(w) /\ Fault
    /\ \E f \in DelegateFailures \cup {StoreFailure} : Continue(w, Answering(w, Failed(f)))
    /\ UNCHANGED rows

\* The two activities that look at the cancellation signal.
StopCancelled(w) ==
    /\ Renewing(w) /\ w.told /\ w.act \in {"PREFLIGHT", "EXECUTE"}
    /\ Continue(w, Answering(w, Failed(StepCancelled)))
    /\ UNCHANGED << rows, faults >>

----------------------------------------------------------------------------
(* Storing the answer, and telling the workflow.                           *)

MayComplete(w) ==
    Store!CompleteAccepted(RowOf(w), w.input, w.attempt, w.attempt, w.answer)
MayFail(w) ==
    Store!FailAccepted(RowOf(w), w.input, w.attempt, w.attempt, w.answer)

\* Both clear lease_expires_at.
StoreOutcome(w) ==
    /\ MayComplete(w)
    /\ exec' = [exec EXCEPT ![w.act] =
            Store!RowAfterComplete(RowOf(w), w.input, w.attempt, w.attempt, w.answer)]
    /\ live' = [live EXCEPT ![w.act] = FALSE]
StoreAsFailed(w) ==
    /\ MayFail(w)
    /\ exec' = [exec EXCEPT ![w.act] =
            Store!RowAfterFail(RowOf(w), w.input, w.attempt, w.attempt, w.answer)]
    /\ live' = [live EXCEPT ![w.act] = FALSE]

Complete(w) ==
    /\ w.pc = "completing" /\ StoreOutcome(w)
    /\ End(w, Reports(w.answer))
    /\ UNCHANGED << result, faults >>

\* Wrong: reports an outcome that may not be stored.
ReportsAnyway(w) ==
    /\ w.pc = "completing" /\ Fault
    /\ StoreOutcome(w) \/ UNCHANGED << exec, live >>
    /\ End(w, Reports(w.answer))
    /\ UNCHANGED result

CompleteUnavailable(w) ==
    /\ w.pc = "completing" /\ Fault
    /\ StoreOutcome(w) \/ UNCHANGED << exec, live >>
    /\ Continue(w, Answering(w, Failed(StoreFailure)))
    /\ UNCHANGED result

RecordFailure(w) ==
    /\ w.pc = "failing" /\ StoreAsFailed(w)
    /\ End(w, Reports(w.answer))
    /\ UNCHANGED << result, faults >>

RecordUnavailable(w) ==
    /\ w.pc = "failing" /\ Fault
    /\ StoreAsFailed(w) \/ UNCHANGED << exec, live >>
    /\ End(w, Reports(Failed(PersistenceFailed)))
    /\ UNCHANGED result

Conflict(w) ==
    /\ \/ w.pc = "claiming"   /\ Disposition(w) = "CONFLICT"
       \/ w.pc = "completing" /\ ~MayComplete(w)
       \/ w.pc = "failing"    /\ ~MayFail(w)
    /\ End(w, Reports(Failed(KeyConflict)))
    /\ UNCHANGED << rows, faults >>

----------------------------------------------------------------------------
Workflow ==
    \/ Load \/ SendTerminal \/ SendSuccess \/ Sleep \/ SendStart \/ Invoke
    \/ HandleBusy \/ Wake \/ HandleFailure \/ HandleOutcome \/ HandleStepCancelled
    \/ CommitAppend \/ AckAppend \/ GiveUp
    \/ CancelCall \/ CancelWait \/ CancelStep
    \/ Deliver \/ StepTimeout

Ends(w) ==
    \/ Acquire(w) \/ Replay(w) \/ FindBusy(w) \/ StopLost(w)
    \/ Persist(w) \/ Finish(w) \/ Complete(w) \/ RecordFailure(w) \/ Conflict(w)

Worker(w) ==
    \/ Ends(w)
    \/ Crash(w) \/ HearCancel(w) \/ ClaimUnavailable(w) \/ Renew(w) \/ LoseLease(w)
    \/ Raise(w) \/ StopCancelled(w) \/ CompleteUnavailable(w) \/ RecordUnavailable(w)

Next ==
    \/ Workflow
    \/ \E a \in Activities : LeaseExpires(a)
    \/ \E w \in workers : Worker(w)

Spec == Init /\ [][Next]_vars

(***************************************************************************)
(* Fairness.  Temporal runs workflow tasks and timers, delivers scheduled   *)
(* steps and retries appends; a worker's requests have timeouts, so its     *)
(* thread gets through; a lease nobody renews expires.  Faults and          *)
(* cancellations may happen or not.                                         *)
(***************************************************************************)
WorkflowRuns ==
    \/ Load \/ SendTerminal \/ SendSuccess \/ Sleep \/ SendStart \/ Invoke
    \/ HandleBusy \/ Wake \/ HandleFailure \/ HandleOutcome \/ HandleStepCancelled
    \/ AckAppend \/ Deliver

Fairness ==
    /\ WF_vars(WorkflowRuns)
    /\ WF_vars(CommitAppend)
    /\ \A a \in Activities :
        /\ WF_vars(LeaseExpires(a))
        /\ \A n \in 1..MaxAttempts :
             WF_vars(\E w \in workers : w.act = a /\ w.attempt = n /\ Ends(w))

FairSpec == Spec /\ Fairness

----------------------------------------------------------------------------
(* Properties.                                                             *)

Answer     == [ outcome : TargetStatuses \cup {NoOutcome}, ref : Refs,
                failure : FailureType ]
Reply      == [ kind : {"NONE", "BUSY", "CANCELLED", "OUTCOME", "FAILED"}, answer : Answer ]
RowType    == [ status : {"NONE", "LEASED", "SUCCEEDED", "FAILED"},
                attempt : Nat, token : Nat, input : Refs, answer : Answer ]
WorkerType == [ act : Activities, attempt : Nat, input : Refs,
                pc : {"claiming", "running", "completing", "failing"},
                answer : Answer, lost : BOOLEAN, told : BOOLEAN ]

\* The type invariant: what every column, field and local variable holds.
TypeOK ==
    /\ pc \in Pcs /\ after \in {"drive", "COMPLETED", "CANCELLED"}
    /\ state \in StateType /\ outbox \in EventType
    /\ reply \in Reply
    /\ cancel \in {"no", "step", "done"}
    /\ journal \in Seq(EventType) /\ proj \in StateType /\ run \in RunType
    /\ exec \in [Activities -> RowType] /\ live \in [Activities -> BOOLEAN]
    /\ result \in Refs
    /\ workers \subseteq WorkerType
    /\ faults \in 0..MaxFaults

\* PostgreSQL's workflow_runs row and Python's projection of the stored events
\* are advanced by two separate pieces of code; they never disagree on status,
\* phase, result or error code, whatever order events, failures, retries and
\* cancellations come in (RowAgrees).
RowMatchesProjection == RowAgrees(run, proj)

\* While the workflow is open its in-memory state is the stored projection, or
\* one event behind with exactly that event in its outbox: an append it is
\* waiting for is never refused and none of its events is lost or doubled.
DriverInSync ==
    ~Closed => \/ proj = state
               \/ /\ pc = "append" /\ Stored(journal, outbox)
                  /\ proj = ApplyEvent(state, outbox)

\* No worker, not even one given up long ago, works on an attempt that the
\* journal does not show as started: the audit record precedes the side effect.
AuditBeforeSideEffect ==
    \A w \in workers : w.attempt <= proj.attempts[w.act]

\* What the journal says an activity answered is what its execution row will
\* answer for ever: the row is SUCCEEDED with exactly that outcome.
JournalMatchesStore ==
    \A i \in 1..Len(journal) : journal[i].type = "ACTIVITY_COMPLETED" =>
        /\ exec[journal[i].act].status = "SUCCEEDED"
        /\ exec[journal[i].act].answer = Said(journal[i].outcome, journal[i].ref)

\* A published result is the reference of a measurement the journal has
\* recorded as completed, also when late workers of earlier attempts persist
\* it; and a run that succeeded has published the reference it ends with.
PublishedResultIsMeasured ==
    /\ result # NoRef =>
        \E i \in 1..Len(journal) :
            /\ journal[i].type = "ACTIVITY_COMPLETED"
            /\ journal[i].act \in {"PREFLIGHT", "EXECUTE"}
            /\ journal[i].ref = result
    /\ proj.status = "SUCCEEDED" => result # NoRef /\ result = proj.ref

\* The run as its journal shows it keeps the promises of CanaryRun.
Promise == INSTANCE CanaryRun WITH
    status <- proj.status, done <- proj.completed, tries <- proj.attempts,
    skipped <- proj.next = Len(proj.completed) + 2
PromiseKept == Promise!Spec

\* A run whose workflow has read its journal closes, whatever fails after that
\* and whenever it is cancelled.
RunCloses == pc # "load" ~> Closed

\* ADR-004, lines 56-59: a cancelled Temporal execution has its audit event,
\* once the workflow has appended anything at all.
CancellationAudited ==
    pc = "CANCELLED" /\ state.seq > 0 => \E i \in 1..Len(journal) : journal[i].type = "WORKFLOW_CANCELLED"

\* ADR-002, lines 47-49: the key returns the prior durable result.  A run does
\* not end REJECTED at an activity whose outcome is stored.
StoredOutcomeIsUsed ==
    proj.status = "REJECTED" => exec[ActivityOrder[proj.next]].status # "SUCCEEDED"
=============================================================================
