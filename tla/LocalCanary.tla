---------------------------- MODULE LocalCanary ----------------------------
(***************************************************************************)
(* The canary workflow without Temporal: CanaryWorkflow.run, its journal   *)
(* and its retry waiter (src/src/lexsond/workflows/canary.py).  Drivers of *)
(* one run share the journal: a run that is started twice, or started      *)
(* again after its process died, has several.                              *)
(*                                                                         *)
(* A driver reads the journal, decides, and appends under the sequence it  *)
(* decided from; between any two of these the others move.  An activity    *)
(* answers what it likes here: that two calls under one idempotency key    *)
(* are paid once is ActivityLease's concern.                               *)
(***************************************************************************)
EXTENDS CanaryState

CONSTANTS
    Drivers,
    MaxTries,       \* RetryPolicy.max_attempts
    MaxTroubles     \* failures of activities, cancellations, dying processes

ASSUME LocalCanaryAssumption == MaxTries \in Nat \ {0} /\ MaxTroubles \in Nat

VARIABLES
    journal,        \* the events of the run
    proj,           \* what they project to
    stands,         \* every event was acceptable after those before it
    driver,         \* where each driver is, what it last read, what it appends
    signal,         \* the drivers that are told to cancel
    troubles

localVars == << journal, proj, stands, driver, signal, troubles >>

Anew(at) == [at |-> at, state |-> InitialState, event |-> NoEvent]

LocalInit ==
    /\ journal = << >> /\ proj = InitialState /\ stands = TRUE
    /\ driver = [d \in Drivers |-> Anew("new")]
    /\ signal = {} /\ troubles = 0

Trouble == troubles < MaxTroubles /\ troubles' = troubles + 1
Is(d, where) == driver[d].at = where
Stays == UNCHANGED << journal, proj, stands >>

----------------------------------------------------------------------------
(* Deciding.                                                               *)

Stop(s, type, code) == [BlankEvent(s, type, s.phase) EXCEPT !.code = code]
Cancelled(s, code)  == Stop(s, "WORKFLOW_CANCELLED", code)

\* A failure that is not retried ends the run: who is at fault says how.
EndFailed(s) ==
    Stop(s, IF s.pending.kind \in {"CONFIGURATION", "POLICY"}
            THEN "WORKFLOW_REJECTED" ELSE "WORKFLOW_FAILED", s.pending.code)

StartNext(s) ==
    LET a == NextActivity(s)
    IN  [BlankEvent(s, "ACTIVITY_STARTED", a) EXCEPT
            !.act = a, !.attempt = s.attempts[a] + 1]

Succeed(s) ==
    [BlankEvent(s, "WORKFLOW_SUCCEEDED", "COMPLETE") EXCEPT !.ref = s.ref]

\* What the loop appends next, from its top, for a state without a current
\* activity; a cancellation may also be seen while a retry is waited for.
LoopEvents(s, cancel) ==
    IF s.pending # NoFailure /\ ~s.retry THEN {EndFailed(s)}
    ELSE IF cancel THEN
         {Cancelled(s, "WORKFLOW_CANCEL_REQUESTED")}
         \cup (IF s.retry THEN {Cancelled(s, "WORKFLOW_CANCELLED_DURING_RETRY")} ELSE {})
    ELSE IF NextActivity(s) = NoActivity THEN {Succeed(s)}
    ELSE {StartNext(s)}

\* Wrong: an attempt that fails is always tried again.
RetriesAll(s, f) ==
    [BlankEvent(s, "ACTIVITY_ATTEMPT_FAILED", s.current) EXCEPT
        !.act = s.current, !.attempt = s.attempt, !.failure = f, !.retry = f.retryable]

AttemptFailed(s, f) ==
    [BlankEvent(s, "ACTIVITY_ATTEMPT_FAILED", s.current) EXCEPT
        !.act = s.current, !.attempt = s.attempt, !.failure = f,
        !.retry = f.retryable /\ s.attempt < MaxTries]

Completed(s, outcome) ==
    IF outcome = "TARGET_FAILED" /\ s.current \notin MayTargetFail
    THEN Stop(s, "WORKFLOW_FAILED", "INVALID_TARGET_FAILURE_OUTCOME")
    ELSE [BlankEvent(s, "ACTIVITY_COMPLETED", s.current) EXCEPT
            !.act = s.current, !.attempt = s.attempt, !.outcome = outcome,
            !.ref = << s.current, s.attempt >>]

----------------------------------------------------------------------------
(* A driver.                                                               *)

Goes(d, at, s, e) == driver' = [driver EXCEPT ![d] = [at |-> at, state |-> s, event |-> e]]
Ends(d, how)      == driver' = [driver EXCEPT ![d] = Anew(how)]

\* A history that cannot be projected ends the driver that reads it.
Load(d) ==
    /\ Is(d, "new")
    /\ IF ~stands THEN Ends(d, "lost")
       ELSE IF IsTerminal(proj) THEN Goes(d, "returned", proj, NoEvent)
       ELSE IF proj.seq = 0
            THEN Goes(d, "append", proj, BlankEvent(proj, "WORKFLOW_STARTED", "NONE"))
            ELSE Goes(d, "loop", proj, NoEvent)
    /\ Stays /\ UNCHANGED << signal, troubles >>

\* The loop from its top to the next append or the next call.  An activity that
\* is current is called, unless the driver is told to cancel first.
Decide(d) ==
    LET s == driver[d].state IN
    /\ Is(d, "loop")
    /\ IF IsTerminal(s) THEN Goes(d, "returned", s, NoEvent)
       ELSE IF s.current # NoActivity /\ d \notin signal THEN Goes(d, "invoke", s, NoEvent)
       ELSE \E e \in LoopEvents(s, d \in signal) : Goes(d, "append", s, e)
    /\ Stays /\ UNCHANGED << signal, troubles >>

Retryable == [code |-> "NATIVE_ACTIVITY_INFRASTRUCTURE_FAILED", kind |-> "INFRASTRUCTURE",
              retryable |-> TRUE]
Refusal   == [code |-> "CREDENTIAL_NOT_FOUND", kind |-> "CONFIGURATION", retryable |-> FALSE]

\* activities.invoke answers; after the append of its start the history that was
\* read again may have lost the activity, which the driver does not survive.
Invoke(d) ==
    LET s == driver[d].state IN
    /\ Is(d, "invoke")
    /\ IF s.current = NoActivity THEN Ends(d, "lost") /\ UNCHANGED troubles
       ELSE \/ Goes(d, "append", s, Completed(s, "SUCCEEDED")) /\ UNCHANGED troubles
            \/ Goes(d, "append", s, Completed(s, "TARGET_FAILED")) /\ Trouble
            \/ \E f \in {Retryable, Refusal} :
                 Goes(d, "append", s, AttemptFailed(s, f)) /\ Trouble
            \/ Goes(d, "append", s, Stop(s, "WORKFLOW_FAILED", "UNEXPECTED_ACTIVITY_EXCEPTION"))
               /\ Trouble
    /\ Stays /\ UNCHANGED signal

\* ActivityLeaseBusy: another call holds the activity.  The driver waits and asks
\* again for the state it has, or sees a cancellation while it waits.
Busy(d) ==
    LET s == driver[d].state IN
    /\ Is(d, "invoke") /\ s.current # NoActivity
    /\ IF d \in signal
       THEN Goes(d, "append", s, Cancelled(s, "WORKFLOW_CANCELLED_DURING_RETRY"))
       ELSE Goes(d, "loop", s, NoEvent)
    /\ Stays /\ UNCHANGED << signal, troubles >>

\* Wrong: an event is appended wherever the journal is.
AppendsAnywhere(e) == TRUE

Follows(e) == Len(journal) = e.seq - 1

\* InMemoryWorkflowJournal.append: in one lock, the event follows what the driver
\* decided from, or is stored already (its time is the same only by chance), or
\* the driver has lost.
Record(d) ==
    LET e == driver[d].event IN
    /\ Is(d, "append")
    /\ \/ /\ Follows(e)
          /\ journal' = Append(journal, e)
          /\ IF stands /\ Accepts(proj, e)
             THEN proj' = ApplyEvent(proj, e) /\ UNCHANGED stands
             ELSE stands' = FALSE /\ UNCHANGED proj
          /\ driver' = [driver EXCEPT ![d].at = "reload"]
       \/ /\ ~Follows(e)
          /\ Stays
          /\ \/ Ends(d, "lost")
             \/ /\ e.seq <= Len(journal) /\ journal[e.seq] = e
                /\ driver' = [driver EXCEPT ![d].at = "reload"]
    /\ UNCHANGED << signal, troubles >>

\* _record reads the journal again, with what others have appended since.
Reload(d) ==
    LET type == driver[d].event.type IN
    /\ Is(d, "reload")
    /\ IF ~stands THEN Ends(d, "lost")
       ELSE Goes(d, CASE type = "ACTIVITY_STARTED" -> "invoke"
                      [] type \in FailureTerminals \cup {"WORKFLOW_SUCCEEDED"} -> "returned"
                      [] OTHER -> "loop",
                 proj, NoEvent)
    /\ Stays /\ UNCHANGED << signal, troubles >>

\* The cancel signal is set; the process dies, and the run is driven anew.
SignalCancel(d) ==
    /\ d \notin signal /\ driver[d].at \notin {"returned", "lost"}
    /\ Trouble
    /\ signal' = signal \cup {d}
    /\ Stays /\ UNCHANGED driver

DriverDies(d) ==
    /\ driver[d].at \notin {"new", "returned"}
    /\ Trouble
    /\ driver' = [driver EXCEPT ![d] = Anew("new")]
    /\ signal' = signal \ {d}
    /\ Stays

LocalNext == \E d \in Drivers :
    \/ Load(d) \/ Decide(d) \/ Invoke(d) \/ Busy(d) \/ Record(d) \/ Reload(d)
    \/ SignalCancel(d) \/ DriverDies(d)

LocalSpec == LocalInit /\ [][LocalNext]_localVars

----------------------------------------------------------------------------
\* However the drivers interleave, the history they leave can be projected, and
\* what any of them returned is how the run ended: a driver acts on a history the
\* others have extended, and none reports an end that the journal does not have.
DriversAgree ==
    /\ stands
    /\ \A d \in Drivers : Is(d, "returned") => IsTerminal(driver[d].state) /\ driver[d].state = proj

\* Several drivers of one run keep the promises of CanaryRun: each activity tried
\* in its turn, at most MaxTries times, completed once.
SharedPromise == INSTANCE CanaryRun WITH
    MaxAttempts <- MaxTries, status <- proj.status, done <- proj.completed,
    tries <- proj.attempts, skipped <- proj.next = Len(proj.completed) + 2
DriversKeepPromise == SharedPromise!Spec
=============================================================================
