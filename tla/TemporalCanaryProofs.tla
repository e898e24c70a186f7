------------------------ MODULE TemporalCanaryProofs ------------------------
(***************************************************************************)
(* What holds of a canary run under Temporal for every retry budget, every *)
(* number of faults and every set of delegate failures.                    *)
(*                                                                         *)
(* The invariant has seven parts on top of the types.  Sync: the workflow   *)
(* knows the stored history up to the one event in its outbox.  RowSync:    *)
(* the SQL row is the Python projection.  Counted: an attempt exists only   *)
(* once the history counts it.  StoreInv: an outcome is stored before       *)
(* anybody hears of it.  ProgressInv: the history follows the plan within   *)
(* the budget.  PublishInv: the reference handed on is a measured one.      *)
(* DriveInv: what the workflow waits for is on its way.                     *)
(* Types alone are not inductive: the state after an acknowledged append is *)
(* typed because it is the stored projection.                              *)
(***************************************************************************)
EXTENDS TemporalCanary, RunJournalProofs

Sync ==
    /\ Len(journal) = proj.seq
    /\ ~Closed /\ pc # "append" => state = proj /\ outbox.seq <= proj.seq
    /\ pc = "append" =>
        /\ outbox.seq = state.seq + 1
        /\ \/ proj = state
           \/ /\ Stored(journal, outbox)
              /\ proj = ApplyEvent(state, outbox) /\ proj.seq = outbox.seq

\* Where the workflow waits for, or has heard from, a step there is one; where
\* it waits before a retry there is a next activity.
Waits ==
    /\ pc \in {"busy_sleep", "scheduled", "step", "replied"} => state.current \in Activities
    /\ pc = "retry_sleep" => NextActivity(state) \in Activities

RowSync == RowAgrees(run, proj) /\ (proj.seq = 0 => proj.phase = "NONE")

CurrentCounted(s) == s.current \in Activities => s.attempt <= s.attempts[s.current]
Counted == CurrentCounted(proj) /\ AuditBeforeSideEffect

Inv == TypeOK /\ Sync /\ Waits

----------------------------------------------------------------------------
(* Types of the values that travel.                                        *)

\* What an activity may answer is typed.
LEMMA AnswerTypes ==
    /\ Silent \in Answer
    /\ \A o \in TargetStatuses, r \in Refs : Said(o, r) \in Answer
    /\ \A f \in FailureType : Failed(f) \in Answer
<1>1. Silent \in Answer
  BY NoFailureType, NoRefType DEF Silent, Answer
<1>2. \A o \in TargetStatuses, r \in Refs : Said(o, r) \in Answer
  BY NoFailureType, NoRefType DEF Silent, Answer, Said
<1>3. \A f \in FailureType : Failed(f) \in Answer
  BY NoFailureType, NoRefType DEF Silent, Answer, Failed
<1> QED
  BY <1>1, <1>2, <1>3

\* Every failure the workers report is typed.
LEMMA FailureTypes ==
    /\ StateUnavailable \in FailureType /\ StoreFailure \in FailureType
    /\ PersistenceFailed \in FailureType /\ LeaseLost \in FailureType
    /\ KeyConflict \in FailureType /\ StepCancelled \in FailureType
    /\ StepLost \in FailureType /\ ResultMissing \in FailureType
    /\ ResultConflict \in FailureType
    /\ DelegateFailures \subseteq FailureType
<1>1. DelegateFailures \subseteq FailureType
  BY CanaryAssumption DEF FailureType, Codes
<1>2. \A c \in ErrorCodes, k \in FailureKinds, b \in BOOLEAN : Failure(c, k, b) \in FailureType
  BY DEF Failure, FailureType, Codes
<1>3. /\ {"INFRASTRUCTURE", "POLICY"} \subseteq FailureKinds
      /\ { "ACTIVITY_STATE_UNAVAILABLE", "NATIVE_ACTIVITY_INFRASTRUCTURE_FAILED",
           "ACTIVITY_STATE_PERSISTENCE_FAILED", "ACTIVITY_LEASE_LOST",
           "ACTIVITY_IDEMPOTENCY_CONFLICT", "ACTIVITY_CANCELLED",
           "TEMPORAL_ACTIVITY_EXECUTION_FAILED", "PERSISTED_RESULT_NOT_FOUND",
           "PROBE_RESULT_IMMUTABILITY_CONFLICT" } \subseteq ErrorCodes
  BY DEF FailureKinds, ErrorCodes
<1> QED
  BY <1>1, <1>2, <1>3 DEF StateUnavailable, StoreFailure, PersistenceFailed, LeaseLost,
     KeyConflict, StepCancelled, StepLost, ResultMissing, ResultConflict

\* What execute_step may reply is typed.
LEMMA ReplyTypes ==
    /\ NoReply \in Reply /\ Busy \in Reply /\ Cancelled \in Reply
    /\ \A ans \in Answer : Reports(ans) \in Reply
    /\ \A f \in FailureType : Reports(Failed(f)) \in Reply
<1>1. NoReply \in Reply /\ Busy \in Reply /\ Cancelled \in Reply
  BY AnswerTypes DEF NoReply, Busy, Cancelled, Reply
<1>2. \A ans \in Answer : Reports(ans) \in Reply
  BY DEF Reports, Reply
<1> QED
  BY <1>1, <1>2, AnswerTypes

\* The events of the run itself are typed and numbered next.
LEMMA EventTypesOk ==
    ASSUME NEW s \in StateType
    PROVE  /\ StartedEvent(s) \in EventType /\ StartedEvent(s).seq = s.seq + 1
           /\ SuccessEvent(s) \in EventType /\ SuccessEvent(s).seq = s.seq + 1
           /\ \A type \in FailureTerminals, code \in Codes :
                /\ StopEvent(s, type, code) \in EventType
                /\ StopEvent(s, type, code).seq = s.seq + 1
           /\ CancelEvent(s) \in EventType /\ CancelEvent(s).seq = s.seq + 1
<1>1. \A type \in EventTypes, phase \in Phases :
        BlankEvent(s, type, phase) \in EventType /\ BlankEvent(s, type, phase).seq = s.seq + 1
  BY NoFailureType, NoRefType DEF BlankEvent, EventType, StateType, Codes
<1>2. StartedEvent(s) \in EventType /\ StartedEvent(s).seq = s.seq + 1
  BY <1>1 DEF StartedEvent, EventTypes, Phases
<1>3. SuccessEvent(s) \in EventType /\ SuccessEvent(s).seq = s.seq + 1
  <2>1. LET b == BlankEvent(s, "WORKFLOW_SUCCEEDED", "COMPLETE") IN
        b \in EventType /\ b.seq = s.seq + 1
    BY <1>1 DEF EventTypes, Phases
  <2> QED
    BY <2>1 DEF SuccessEvent, EventType, StateType
<1>4. ASSUME NEW type \in FailureTerminals, NEW code \in Codes
      PROVE  StopEvent(s, type, code) \in EventType /\ StopEvent(s, type, code).seq = s.seq + 1
  <2>1. LET b == BlankEvent(s, type, s.phase) IN b \in EventType /\ b.seq = s.seq + 1
    BY <1>1 DEF EventTypes, StateType
  <2> QED
    BY <2>1 DEF StopEvent, EventType
<1>5. "WORKFLOW_CANCELLED" \in FailureTerminals /\ "WORKFLOW_CANCEL_REQUESTED" \in Codes
  BY DEF FailureTerminals, Codes, ErrorCodes
<1> QED
  BY <1>2, <1>3, <1>4, <1>5 DEF CancelEvent

\* So are the events of an activity.
LEMMA ActivityEventTypes ==
    ASSUME NEW s \in StateType
    PROVE  /\ NextActivity(s) \in Activities =>
                StartEvent(s) \in EventType /\ StartEvent(s).seq = s.seq + 1
           /\ s.current \in Activities =>
                /\ \A ans \in Answer : /\ CompletionEvent(s, ans) \in EventType
                                       /\ CompletionEvent(s, ans).seq = s.seq + 1
                /\ \A f \in FailureType : /\ AttemptFailureEvent(s, f) \in EventType
                                          /\ AttemptFailureEvent(s, f).seq = s.seq + 1
<1>1. ASSUME NEW type \in EventTypes, NEW act \in Activities, NEW n \in Nat
      PROVE  /\ ActivityEvent(s, type, act, n) \in EventType
             /\ ActivityEvent(s, type, act, n).seq = s.seq + 1
  <2>1. LET b == BlankEvent(s, type, act) IN b \in EventType /\ b.seq = s.seq + 1
    BY NoFailureType, NoRefType, ActivityIsPhase DEF BlankEvent, EventType, StateType, Codes
  <2> QED
    BY <2>1 DEF ActivityEvent, EventType
<1>2. {"ACTIVITY_STARTED", "ACTIVITY_COMPLETED", "ACTIVITY_ATTEMPT_FAILED"} \subseteq EventTypes
  BY DEF EventTypes
<1>3. ASSUME NextActivity(s) \in Activities
      PROVE  StartEvent(s) \in EventType /\ StartEvent(s).seq = s.seq + 1
  <2>1. s.attempts[NextActivity(s)] + 1 \in Nat
    BY <1>3 DEF StateType
  <2> QED
    BY <1>1, <1>2, <1>3, <2>1 DEF StartEvent
<1>4. ASSUME s.current \in Activities, NEW ans \in Answer
      PROVE  CompletionEvent(s, ans) \in EventType /\ CompletionEvent(s, ans).seq = s.seq + 1
  <2>1. LET b == ActivityEvent(s, "ACTIVITY_COMPLETED", s.current, s.attempt) IN
        b \in EventType /\ b.seq = s.seq + 1
    BY <1>1, <1>2, <1>4 DEF StateType
  <2> QED
    BY <2>1 DEF CompletionEvent, EventType, Answer
<1>5. ASSUME s.current \in Activities, NEW f \in FailureType
      PROVE  AttemptFailureEvent(s, f) \in EventType /\ AttemptFailureEvent(s, f).seq = s.seq + 1
  <2>1. LET b == ActivityEvent(s, "ACTIVITY_ATTEMPT_FAILED", s.current, s.attempt) IN
        b \in EventType /\ b.seq = s.seq + 1
    BY <1>1, <1>2, <1>5 DEF StateType
  <2>2. (f.retryable /\ s.attempt < MaxAttempts) \in BOOLEAN
    BY DEF FailureType
  <2> QED
    BY <2>1, <2>2 DEF AttemptFailureEvent, EventType
<1> QED
  BY <1>3, <1>4, <1>5

----------------------------------------------------------------------------
(* The invariant, action by action.                                        *)

\* The initial values are typed.
LEMMA InitialTypes == InitialState \in StateType /\ NoEvent \in EventType
                      /\ CreatedRun \in RunType /\ NoEvent.seq = 0
<1>1. InitialState \in StateType
  <2>1. [a \in Activities |-> 0] \in [Activities -> Nat]
    OBVIOUS
  <2>2. << >> \in Seq(Activities)
    OBVIOUS
  <2> QED
    BY <2>1, <2>2, NoFailureType, NoRefType
       DEF InitialState, StateType, Statuses, Phases, Codes
<1>2. NoEvent \in EventType /\ NoEvent.seq = 0
  BY NoFailureType, NoRefType DEF NoEvent, BlankEvent, EventType, EventTypes, Phases, Codes
<1>3. CreatedRun \in RunType
  BY NoRefType DEF CreatedRun, RunType, Statuses, Phases, Codes
<1> QED
  BY <1>1, <1>2, <1>3

\* The initial state satisfies every part of the invariant.
LEMMA InitInv == Init => Inv /\ RowSync /\ Counted
<1> SUFFICES ASSUME Init PROVE Inv /\ RowSync /\ Counted
  OBVIOUS
<1> USE DEF Init
<1>1. pc \in Pcs /\ after \in {"drive", "COMPLETED", "CANCELLED"} /\ cancel \in {"no", "step", "done"}
  BY DEF Pcs
<1>2. /\ state \in StateType /\ outbox \in EventType /\ proj \in StateType
      /\ run \in RunType /\ reply \in Reply /\ result \in Refs
  BY InitialTypes, ReplyTypes, NoRefType
<1>3. journal \in Seq(EventType) /\ Len(journal) = 0
  OBVIOUS
<1>4. exec \in [Activities -> RowType] /\ live \in [Activities -> BOOLEAN]
  BY AnswerTypes, NoRefType DEF Store!NoExecution, RowType
<1>5. workers \subseteq WorkerType /\ faults \in 0..MaxFaults
  BY CanaryAssumption
<1>6. proj.seq = 0 /\ proj.phase = "NONE" /\ proj.current = NoActivity
  BY DEF InitialState
<1>7. TypeOK
  BY <1>1, <1>2, <1>3, <1>4, <1>5 DEF TypeOK
<1>8. Sync /\ Waits
  BY <1>3, <1>6, InitialTypes DEF Sync, Waits
<1>9. RowSync
  BY <1>6 DEF RowSync, RowAgrees, CreatedRun, InitialState
<1>10. Counted
  BY <1>6, NoActivityIsNone DEF Counted, CurrentCounted, AuditBeforeSideEffect
<1> QED
  BY <1>7, <1>8, <1>9, <1>10 DEF Inv

\* An append that the workflow may make keeps the invariant.
LEMMA RecordKeeps ==
    ASSUME Inv, ~Closed, pc # "append",
           NEW e \in EventType, e.seq = state.seq + 1,
           NEW then \in {"drive", "COMPLETED", "CANCELLED"}, Record(e, then),
           reply' \in Reply, cancel' \in {"no", "step", "done"},
           UNCHANGED << state, store, rows, workers, faults >>
    PROVE  Inv'
<1>1. pc' = "append" /\ outbox' = e /\ after' = then
  BY DEF Record
<1>2. /\ state' = state /\ journal' = journal /\ proj' = proj /\ run' = run
      /\ exec' = exec /\ live' = live /\ result' = result
      /\ workers' = workers /\ faults' = faults
  BY DEF store, rows
<1>3. TypeOK'
  BY <1>1, <1>2 DEF Inv, TypeOK, Pcs
<1>4. state = proj /\ Len(journal) = proj.seq
  BY DEF Inv, Sync
<1>5. Sync'
  BY <1>1, <1>2, <1>4 DEF Sync, Closed, ClosedPcs
<1>6. Waits'
  BY <1>1 DEF Waits
<1> QED
  BY <1>3, <1>5, <1>6 DEF Inv

\* So does a move of the workflow that neither appends nor learns anything.
LEMMA MoveKeeps ==
    ASSUME Inv, ~Closed, pc # "append", pc' \in Pcs, pc' # "append", Waits',
           reply' \in Reply, cancel' \in {"no", "step", "done"},
           workers' \subseteq WorkerType, faults' \in 0..MaxFaults,
           UNCHANGED << state, outbox, after, store, rows >>
    PROVE  Inv'
<1>1. /\ state' = state /\ outbox' = outbox /\ after' = after
      /\ journal' = journal /\ proj' = proj /\ run' = run
      /\ exec' = exec /\ live' = live /\ result' = result
  BY DEF store, rows
<1>2. TypeOK'
  BY <1>1 DEF Inv, TypeOK
<1>3. Sync'
  BY <1>1 DEF Inv, Sync, Closed
<1> QED
  BY <1>2, <1>3 DEF Inv

\* The database stores the event of the outbox.
LEMMA CommitKeeps ==
    ASSUME Inv, CommitAppend
    PROVE  Inv'
<1>1. /\ journal' = Append(journal, outbox) /\ proj' = ApplyEvent(proj, outbox)
      /\ run' = SqlAdvance(run, outbox)
      /\ pc' = pc /\ state' = state /\ outbox' = outbox /\ after' = after
      /\ reply' = reply /\ cancel' = cancel
      /\ exec' = exec /\ live' = live /\ result' = result
      /\ workers' = workers /\ faults' = faults
  BY DEF CommitAppend, driver, rows
<1>2. Accepts(proj, outbox) /\ outbox.seq = proj.seq + 1
  BY DEF CommitAppend, CanAppend, Accepts
<1>3. TypeOK
  BY DEF Inv
<1>4. proj' \in StateType /\ proj'.seq = outbox.seq
  BY <1>1, <1>2, <1>3, ApplyEventType DEF TypeOK
<1>5. run' \in RunType
  BY <1>1, <1>3, SqlAdvanceType DEF TypeOK
<1>6. journal' \in Seq(EventType) /\ Len(journal') = Len(journal) + 1
      /\ journal'[Len(journal) + 1] = outbox
  BY <1>1, <1>3 DEF TypeOK
<1>7. TypeOK'
  BY <1>1, <1>3, <1>4, <1>5, <1>6 DEF TypeOK
<1>8. Len(journal) \in Nat /\ proj.seq \in Nat /\ outbox.seq \in Nat
  BY <1>3 DEF TypeOK, StateType, EventType
<1>9. Len(journal') = proj'.seq
  BY <1>2, <1>4, <1>6, <1>8 DEF Inv, Sync
<1>10. ~Closed => pc = "append" /\ proj = state
  BY <1>2, <1>8 DEF Inv, Sync
<1>11. Stored(journal, outbox)'
  BY <1>1, <1>2, <1>4, <1>6, <1>8, <1>9 DEF Stored
<1>12. pc = "append" => outbox.seq = state.seq + 1 /\ proj = state
  BY <1>10 DEF Inv, Sync, Closed, ClosedPcs
<1>13. Sync'
  BY <1>1, <1>4, <1>9, <1>10, <1>11, <1>12 DEF Sync, Closed
<1>14. Waits'
  BY <1>1 DEF Inv, Waits
<1> QED
  BY <1>7, <1>13, <1>14 DEF Inv

\* The workflow hears that it is stored, and catches up with the projection.
LEMMA AckKeeps ==
    ASSUME Inv, AckAppend
    PROVE  Inv' /\ state' = proj
<1>1. /\ pc = "append" /\ Stored(journal, outbox) /\ state' = ApplyEvent(state, outbox)
      /\ pc' = after /\ outbox' = outbox /\ after' = after
      /\ reply' = reply /\ cancel' = cancel
      /\ journal' = journal /\ proj' = proj /\ run' = run
      /\ exec' = exec /\ live' = live /\ result' = result
      /\ workers' = workers /\ faults' = faults
  BY DEF AckAppend, store, rows
<1>2. TypeOK /\ Sync
  BY DEF Inv
<1>3. Len(journal) \in Nat /\ proj.seq \in Nat /\ outbox.seq \in Nat /\ state.seq \in Nat
  BY <1>2 DEF TypeOK, StateType, EventType
<1>4. outbox.seq <= proj.seq /\ outbox.seq = state.seq + 1
  BY <1>1, <1>2, <1>3 DEF Sync, Stored
<1>5. proj = ApplyEvent(state, outbox)
  BY <1>1, <1>2, <1>3, <1>4 DEF Sync
<1>6. pc' \in Pcs /\ pc' \in {"drive", "COMPLETED", "CANCELLED"}
  BY <1>1, <1>2 DEF TypeOK, Pcs, ClosedPcs
<1>7. TypeOK'
  BY <1>1, <1>2, <1>5, <1>6 DEF TypeOK
<1>8. Sync'
  BY <1>1, <1>2, <1>4, <1>5, <1>6 DEF Sync
<1>9. Waits'
  BY <1>6 DEF Waits
<1> QED
  BY <1>1, <1>5, <1>7, <1>8, <1>9 DEF Inv

\* The workflow closes without hearing back from a call it has made.
LEMMA CloseKeeps ==
    ASSUME Inv, pc' \in ClosedPcs, cancel' \in {"no", "step", "done"}, faults' \in 0..MaxFaults,
           UNCHANGED << state, outbox, after, reply, store, rows, workers >>
    PROVE  Inv'
<1>1. /\ state' = state /\ outbox' = outbox /\ after' = after /\ reply' = reply
      /\ journal' = journal /\ proj' = proj /\ run' = run
      /\ exec' = exec /\ live' = live /\ result' = result /\ workers' = workers
  BY DEF store, rows
<1>2. TypeOK'
  BY <1>1 DEF Inv, TypeOK, Pcs
<1>3. Sync'
  BY <1>1 DEF Inv, Sync, Closed, ClosedPcs
<1>4. Waits'
  BY DEF Waits, ClosedPcs
<1> QED
  BY <1>2, <1>3, <1>4 DEF Inv

\* A counted fault stays within its bound.
LEMMA FaultCounts == ASSUME TypeOK, Fault PROVE faults' \in 0..MaxFaults
BY CanaryAssumption DEF TypeOK, Fault

\* Every action of the workflow keeps Inv.
LEMMA WorkflowKeeps ==
    ASSUME Inv, Workflow
    PROVE  Inv'
<1>t. TypeOK /\ state \in StateType /\ proj \in StateType /\ reply \in Reply
      /\ reply.answer \in Answer /\ cancel \in {"no", "step", "done"}
      /\ workers \subseteq WorkerType /\ faults \in 0..MaxFaults
      /\ NoReply \in Reply
  BY ReplyTypes DEF Inv, TypeOK, Reply
<1>w. pc \in {"load", "drive", "retry_sleep", "busy_sleep", "scheduled", "step", "replied"}
        => ~Closed /\ pc # "append"
  BY DEF Closed, ClosedPcs
<1>1. CASE Load
  <2>1. pc = "load" /\ state = proj
    BY <1>1, <1>w DEF Load, Inv, Sync
  <2> QED
    BY <1>1, <1>t, <1>w, <2>1, EventTypesOk, RecordKeeps DEF Load
<1>2. CASE SendTerminal
  <2> DEFINE type == IF state.pending.kind \in {"CONFIGURATION", "POLICY"}
                     THEN "WORKFLOW_REJECTED" ELSE "WORKFLOW_FAILED"
             e == StopEvent(state, type, state.pending.code)
  <2>1. type \in FailureTerminals /\ state.pending.code \in Codes
    BY <1>t DEF FailureTerminals, StateType, FailureType
  <2>2. e \in EventType /\ e.seq = state.seq + 1
    BY <1>t, <2>1, EventTypesOk
  <2>3. /\ pc = "drive" /\ Record(e, "COMPLETED")
        /\ UNCHANGED << state, reply, cancel, store, rows, workers, faults >>
    BY <1>2 DEF SendTerminal
  <2> QED
    BY <1>t, <1>w, <2>2, <2>3, RecordKeeps
<1>3. CASE SendSuccess
  BY <1>3, <1>t, <1>w, EventTypesOk, RecordKeeps DEF SendSuccess
<1>4. CASE Sleep
  <2>1. NextActivity(state) \in Activities
    BY <1>4, NextActivityType DEF Sleep, Between, AllDone
  <2>2. Waits'
    BY <1>4, <2>1 DEF Sleep, Waits
  <2> QED
    BY <1>4, <1>t, <1>w, <2>2, MoveKeeps DEF Sleep, Pcs
<1>5. CASE SendStart
  <2>1. pc \in {"drive", "retry_sleep"}
    BY <1>5 DEF SendStart
  <2>2. NextActivity(state) \in Activities
    BY <1>5, NextActivityType DEF SendStart, Between, AllDone, Inv, Waits
  <2>3. StartEvent(state) \in EventType /\ StartEvent(state).seq = state.seq + 1
    BY <1>t, <2>2, ActivityEventTypes
  <2> QED
    BY <1>5, <1>t, <1>w, <2>1, <2>3, RecordKeeps DEF SendStart
<1>6. CASE Invoke
  <2>1. state.current \in Activities
    BY <1>6, <1>t DEF Invoke, StateType
  <2>2. Waits'
    BY <1>6, <2>1 DEF Invoke, Waits
  <2> QED
    BY <1>6, <1>t, <1>w, <2>2, MoveKeeps DEF Invoke, Pcs
<1>7. CASE HandleBusy
  <2>1. Waits'
    BY <1>7 DEF HandleBusy, Inv, Waits
  <2> QED
    BY <1>7, <1>t, <1>w, <2>1, MoveKeeps DEF HandleBusy, Pcs
<1>8. CASE Wake
  <2>1. Waits'
    BY <1>8 DEF Wake, Waits
  <2> QED
    BY <1>8, <1>t, <1>w, <2>1, MoveKeeps DEF Wake, Pcs
<1>9. CASE HandleFailure
  <2>1. state.current \in Activities /\ reply.answer.failure \in FailureType
    BY <1>9, <1>t DEF HandleFailure, Inv, Waits, Answer
  <2>2. LET e == AttemptFailureEvent(state, reply.answer.failure) IN
        e \in EventType /\ e.seq = state.seq + 1
    BY <1>t, <2>1, ActivityEventTypes
  <2> QED
    BY <1>9, <1>t, <1>w, <2>2, RecordKeeps DEF HandleFailure
<1>10. CASE HandleOutcome
  <2>1. state.current \in Activities
    BY <1>10 DEF HandleOutcome, Inv, Waits
  <2>2. LET e == CompletionEvent(state, reply.answer) IN
        e \in EventType /\ e.seq = state.seq + 1
    BY <1>t, <2>1, ActivityEventTypes
  <2>3. LET e == StopEvent(state, "WORKFLOW_FAILED", "INVALID_TARGET_FAILURE_OUTCOME") IN
        e \in EventType /\ e.seq = state.seq + 1
    BY <1>t, EventTypesOk DEF FailureTerminals, Codes, ErrorCodes
  <2>4. CASE BadOutcome
    BY <1>10, <1>t, <1>w, <2>3, <2>4, RecordKeeps DEF HandleOutcome
  <2>5. CASE ~BadOutcome
    BY <1>10, <1>t, <1>w, <2>2, <2>5, RecordKeeps DEF HandleOutcome
  <2> QED
    BY <2>4, <2>5
<1>11. CASE HandleStepCancelled
  BY <1>11, <1>t, <1>w, EventTypesOk, RecordKeeps DEF HandleStepCancelled
<1>12. CASE CommitAppend
  BY <1>12, CommitKeeps
<1>13. CASE AckAppend
  BY <1>13, AckKeeps
<1>14. CASE GiveUp
  BY <1>14, <1>t, FaultCounts, CloseKeeps DEF GiveUp, ClosedPcs
<1>15. CASE CancelCall
  BY <1>15, <1>t, CloseKeeps DEF CancelCall, ClosedPcs
<1>16. CASE CancelWait
  BY <1>16, <1>t, <1>w, EventTypesOk, RecordKeeps DEF CancelWait
<1>17. CASE CancelStep
  <2>1. Waits'
    BY <1>17 DEF CancelStep, Inv, Waits
  <2> QED
    BY <1>17, <1>t, <1>w, <2>1, MoveKeeps DEF CancelStep, Pcs
<1>18. CASE Deliver
  <2>1. state.current \in Activities
    BY <1>18 DEF Deliver, Inv, Waits
  <2>2. NewWorker \in WorkerType
    BY <1>t, <2>1, AnswerTypes DEF NewWorker, WorkerType, StateType
  <2>3. Waits'
    BY <1>18, <2>1 DEF Deliver, Waits
  <2> QED
    BY <1>18, <1>t, <1>w, <2>2, <2>3, MoveKeeps DEF Deliver, Pcs
<1>19. CASE StepTimeout
  <2>1. pc = "step" /\ pc' = "replied" /\ reply' \in Reply /\ cancel' \in {"no", "step", "done"}
    BY <1>19, <1>t, FailureTypes, ReplyTypes DEF StepTimeout, StepEnds
  <2>2. Waits'
    BY <1>19, <2>1 DEF StepTimeout, Inv, Waits
  <2> QED
    BY <1>19, <1>t, <1>w, <2>1, <2>2, FaultCounts, MoveKeeps DEF StepTimeout, Pcs
<1> QED
  BY <1>1, <1>2, <1>3, <1>4, <1>5, <1>6, <1>7, <1>8, <1>9, <1>10, <1>11, <1>12, <1>13,
     <1>14, <1>15, <1>16, <1>17, <1>18, <1>19 DEF Workflow

----------------------------------------------------------------------------
(* Workers and leases.  They change rows and answer the workflow; the       *)
(* history, and what the workflow knows of it, they leave alone.           *)

\* The SQL functions leave a typed execution row.
LEMMA RowTypes ==
    ASSUME NEW row \in RowType, NEW input \in Refs, NEW n \in Nat,
           NEW ans \in Answer, NEW b \in BOOLEAN
    PROVE  /\ Store!RowAfterClaim(row, input, n, n, b) \in RowType
           /\ Store!RowAfterComplete(row, input, n, n, ans) \in RowType
           /\ Store!RowAfterFail(row, input, n, n, ans) \in RowType
<1>1. Store!Leased(input, n, n) \in RowType
  BY AnswerTypes DEF Store!Leased, RowType
<1>2. \A st \in {"SUCCEEDED", "FAILED"} : Store!Closed(row, st, ans) \in RowType
  BY DEF Store!Closed, RowType
<1> QED
  BY <1>1, <1>2 DEF Store!RowAfterClaim, Store!RowAfterComplete, Store!RowAfterFail

\* What no worker touches, and whose attempts the workers after a step are on.
HistoryKept ==
    /\ proj' = proj /\ run' = run
    /\ \A v \in workers' : \E u \in workers : v.act = u.act /\ v.attempt = u.attempt

RowsTyped ==
    /\ exec \in [Activities -> RowType] /\ live \in [Activities -> BOOLEAN]
    /\ result \in Refs /\ faults \in 0..MaxFaults

\* A delivery that ends keeps Inv and the stored history.
LEMMA EndKeeps ==
    ASSUME Inv, NEW w \in workers, NEW r \in Reply, End(w, r), RowsTyped'
    PROVE  Inv' /\ HistoryKept
<1>1. /\ state' = state /\ outbox' = outbox /\ after' = after
      /\ journal' = journal /\ proj' = proj /\ run' = run
      /\ workers' = workers \ {w}
  BY DEF End, store
<1>2. /\ pc' = pc \/ (pc = "step" /\ pc' = "replied")
      /\ reply' \in Reply /\ cancel' \in {"no", "step", "done"}
  BY ReplyTypes DEF End, StepEnds, Awaited, Inv, TypeOK
<1>3. TypeOK'
  BY <1>1, <1>2 DEF Inv, TypeOK, RowsTyped, Pcs
<1>4. Sync'
  BY <1>1, <1>2 DEF Inv, Sync, Closed, ClosedPcs
<1>5. Waits'
  BY <1>1, <1>2 DEF Inv, Waits
<1> QED
  BY <1>1, <1>3, <1>4, <1>5 DEF Inv, HistoryKept

\* A delivery that goes on keeps Inv and the stored history.
LEMMA ContinueKeeps ==
    ASSUME Inv, NEW w \in workers, NEW v \in WorkerType,
           v.act = w.act, v.attempt = w.attempt, Continue(w, v), RowsTyped'
    PROVE  Inv' /\ HistoryKept
<1>1. /\ pc' = pc /\ state' = state /\ outbox' = outbox /\ after' = after
      /\ reply' = reply /\ cancel' = cancel
      /\ journal' = journal /\ proj' = proj /\ run' = run
      /\ workers' = (workers \ {w}) \cup {v}
  BY DEF Continue, store, driver
<1>2. TypeOK'
  BY <1>1 DEF Inv, TypeOK, RowsTyped
<1>3. Sync' /\ Waits'
  BY <1>1 DEF Inv, Sync, Waits, Closed
<1> QED
  BY <1>1, <1>2, <1>3 DEF Inv, HistoryKept

\* Steps of the lease alone, and the death of a worker nobody waits for.
LEMMA LeaseKeeps ==
    ASSUME Inv, workers' \subseteq workers, RowsTyped', UNCHANGED << driver, store >>
    PROVE  Inv' /\ HistoryKept
<1>1. /\ pc' = pc /\ state' = state /\ outbox' = outbox /\ after' = after
      /\ reply' = reply /\ cancel' = cancel
      /\ journal' = journal /\ proj' = proj /\ run' = run
  BY DEF store, driver
<1>2. TypeOK'
  BY <1>1 DEF Inv, TypeOK, RowsTyped
<1>3. Sync' /\ Waits'
  BY <1>1 DEF Inv, Sync, Waits, Closed
<1> QED
  BY <1>1, <1>2, <1>3 DEF Inv, HistoryKept

\* A delivery that has something to store is typed.
LEMMA AnsweringType ==
    ASSUME NEW w \in WorkerType, NEW ans \in Answer
    PROVE  /\ Answering(w, ans) \in WorkerType
           /\ Answering(w, ans).act = w.act /\ Answering(w, ans).attempt = w.attempt
BY DEF Answering, WorkerType

\* What an activity computes is a typed answer.
LEMMA ComputedType ==
    ASSUME NEW w \in WorkerType, NEW o \in TargetStatuses
    PROVE  Computed(w, o) \in Answer
<1>1. Produced(w) \in Refs
  BY ActivitiesListed DEF Produced, WorkerType, Refs
<1> QED
  BY <1>1, AnswerTypes, FailureTypes DEF Computed

\* Every action of a worker keeps Inv and the stored history.
LEMMA WorkerKeeps ==
    ASSUME Inv, NEW w \in workers, Worker(w)
    PROVE  Inv' /\ HistoryKept
<1>t. /\ TypeOK /\ w \in WorkerType /\ RowsTyped
      /\ w.act \in Activities /\ w.attempt \in Nat /\ w.input \in Refs /\ w.answer \in Answer
      /\ exec[w.act] \in RowType /\ live[w.act] \in BOOLEAN
      /\ exec[w.act].answer \in Answer
  BY DEF Inv, TypeOK, WorkerType, RowType, RowsTyped
<1>f. Fault => faults' \in 0..MaxFaults
  BY <1>t, FaultCounts
<1>l. Lease(w) => exec' \in [Activities -> RowType] /\ live' \in [Activities -> BOOLEAN]
  BY <1>t, RowTypes DEF Lease, Claimed, RowOf, RowsTyped
<1>o. StoreOutcome(w) => exec' \in [Activities -> RowType] /\ live' \in [Activities -> BOOLEAN]
  BY <1>t, RowTypes DEF StoreOutcome, RowOf, RowsTyped
<1>x. StoreAsFailed(w) => exec' \in [Activities -> RowType] /\ live' \in [Activities -> BOOLEAN]
  BY <1>t, RowTypes DEF StoreAsFailed, RowOf, RowsTyped
<1>u. /\ UNCHANGED << exec, live >> => /\ exec' \in [Activities -> RowType]
                                      /\ live' \in [Activities -> BOOLEAN]
      /\ UNCHANGED result => result' \in Refs
      /\ UNCHANGED faults => faults' \in 0..MaxFaults
      /\ UNCHANGED << rows, faults >> => RowsTyped'
  BY <1>t DEF RowsTyped, rows
<1>1. CASE Acquire(w)
  <2>1. RowsTyped'
    BY <1>1, <1>l, <1>u DEF Acquire, RowsTyped
  <2>2. CASE w.told
    <3>1. Failed(StepCancelled) \in Answer
      BY AnswerTypes, FailureTypes
    <3>2. Continue(w, Answering(w, Failed(StepCancelled)))
      BY <1>1, <2>2 DEF Acquire
    <3> QED
      BY <1>t, <2>1, <3>1, <3>2, AnsweringType, ContinueKeeps
  <2>3. CASE ~w.told
    <3>1. LET v == [w EXCEPT !.pc = "running"] IN
          v \in WorkerType /\ v.act = w.act /\ v.attempt = w.attempt
      BY <1>t DEF WorkerType
    <3>2. Continue(w, [w EXCEPT !.pc = "running"])
      BY <1>1, <2>3 DEF Acquire
    <3> QED
      BY <2>1, <3>1, <3>2, ContinueKeeps
  <2> QED
    BY <2>2, <2>3
<1>2. CASE Replay(w)
  BY <1>2, <1>t, <1>u, ReplyTypes, EndKeeps DEF Replay, RowOf
<1>3. CASE FindBusy(w)
  BY <1>3, <1>u, ReplyTypes, EndKeeps DEF FindBusy
<1>4. CASE StopLost(w)
  BY <1>4, <1>u, FailureTypes, ReplyTypes, EndKeeps DEF StopLost
<1>5. CASE Persist(w)
  <2>1. RowsTyped' /\ workers' \subseteq workers /\ UNCHANGED << driver, store >>
    BY <1>5, <1>t DEF Persist, RowsTyped
  <2> QED
    BY <2>1, LeaseKeeps
<1>6. CASE Finish(w)
  <2>1. PICK o \in Possible(w) : Continue(w, Answering(w, Computed(w, o)))
    BY <1>6 DEF Finish
  <2>2. Computed(w, o) \in Answer
    BY <1>t, ComputedType DEF Possible, TargetStatuses
  <2>3. RowsTyped'
    BY <1>6, <1>u DEF Finish
  <2> QED
    BY <1>t, <2>1, <2>2, <2>3, AnsweringType, ContinueKeeps
<1>7. CASE Complete(w)
  <2>1. RowsTyped'
    BY <1>7, <1>o, <1>u DEF Complete, RowsTyped
  <2> QED
    BY <1>7, <1>t, <2>1, ReplyTypes, EndKeeps DEF Complete
<1>8. CASE RecordFailure(w)
  <2>1. RowsTyped'
    BY <1>8, <1>x, <1>u DEF RecordFailure, RowsTyped
  <2> QED
    BY <1>8, <1>t, <2>1, ReplyTypes, EndKeeps DEF RecordFailure
<1>9. CASE Conflict(w)
  BY <1>9, <1>u, FailureTypes, ReplyTypes, EndKeeps DEF Conflict
<1>10. CASE Crash(w)
  <2>1. RowsTyped' /\ workers' \subseteq workers /\ UNCHANGED << driver, store >>
    BY <1>10, <1>u DEF Crash
  <2> QED
    BY <2>1, LeaseKeeps
<1>11. CASE HearCancel(w)
  <2>1. LET v == [w EXCEPT !.told = TRUE] IN
        v \in WorkerType /\ v.act = w.act /\ v.attempt = w.attempt
    BY <1>t DEF WorkerType
  <2> QED
    BY <1>11, <1>u, <2>1, ContinueKeeps DEF HearCancel
<1>12. CASE ClaimUnavailable(w)
  <2>1. RowsTyped'
    BY <1>12, <1>f, <1>l, <1>u DEF ClaimUnavailable, RowsTyped
  <2> QED
    BY <1>12, <2>1, FailureTypes, ReplyTypes, EndKeeps DEF ClaimUnavailable
<1>13. CASE Renew(w)
  <2>1. RowsTyped' /\ workers' \subseteq workers /\ UNCHANGED << driver, store >>
    BY <1>13, <1>t DEF Renew, RowsTyped
  <2> QED
    BY <2>1, LeaseKeeps
<1>14. CASE LoseLease(w)
  <2>1. LET v == [w EXCEPT !.lost = TRUE] IN
        v \in WorkerType /\ v.act = w.act /\ v.attempt = w.attempt
    BY <1>t DEF WorkerType
  <2>2. RowsTyped'
    BY <1>14, <1>f, <1>t DEF LoseLease, RowsTyped, rows
  <2> QED
    BY <1>14, <2>1, <2>2, ContinueKeeps DEF LoseLease
<1>15. CASE Raise(w)
  <2>1. PICK f \in DelegateFailures \cup {StoreFailure} : Continue(w, Answering(w, Failed(f)))
    BY <1>15 DEF Raise
  <2>2. Failed(f) \in Answer
    BY AnswerTypes, FailureTypes
  <2>3. RowsTyped'
    BY <1>15, <1>f, <1>t DEF Raise, RowsTyped, rows
  <2> QED
    BY <1>t, <2>1, <2>2, <2>3, AnsweringType, ContinueKeeps
<1>16. CASE StopCancelled(w)
  <2>1. Failed(StepCancelled) \in Answer
    BY AnswerTypes, FailureTypes
  <2> QED
    BY <1>16, <1>t, <1>u, <2>1, AnsweringType, ContinueKeeps DEF StopCancelled
<1>17. CASE CompleteUnavailable(w)
  <2>1. Failed(StoreFailure) \in Answer
    BY AnswerTypes, FailureTypes
  <2>2. RowsTyped'
    BY <1>17, <1>f, <1>o, <1>u DEF CompleteUnavailable, RowsTyped
  <2> QED
    BY <1>17, <1>t, <2>1, <2>2, AnsweringType, ContinueKeeps DEF CompleteUnavailable
<1>18. CASE RecordUnavailable(w)
  <2>1. RowsTyped'
    BY <1>18, <1>f, <1>x, <1>u DEF RecordUnavailable, RowsTyped
  <2> QED
    BY <1>18, <2>1, FailureTypes, ReplyTypes, EndKeeps DEF RecordUnavailable
<1> QED
  BY <1>1, <1>2, <1>3, <1>4, <1>5, <1>6, <1>7, <1>8, <1>9, <1>10, <1>11, <1>12, <1>13,
     <1>14, <1>15, <1>16, <1>17, <1>18 DEF Worker, Ends

\* So does the end of a lease.
LEMMA LeaseExpiresKeeps ==
    ASSUME Inv, NEW a \in Activities, LeaseExpires(a)
    PROVE  Inv' /\ HistoryKept
<1>1. TypeOK
  BY DEF Inv
<1>2. RowsTyped' /\ workers' \subseteq workers /\ UNCHANGED << driver, store >>
  BY <1>1, FaultCounts DEF LeaseExpires, RowsTyped, TypeOK
<1> QED
  BY <1>2, LeaseKeeps

\* A step that moves no variable keeps everything.
LEMMA StutterKeeps ==
    ASSUME Inv, UNCHANGED vars
    PROVE  Inv' /\ HistoryKept
<1>1. TypeOK /\ UNCHANGED << driver, store >> /\ workers' = workers /\ RowsTyped'
  BY DEF Inv, TypeOK, vars, rows, RowsTyped
<1> QED
  BY <1>1, LeaseKeeps

\* Inv is preserved by every step.
LEMMA StepKeeps == Inv /\ [Next]_vars => Inv'
<1> SUFFICES ASSUME Inv, [Next]_vars PROVE Inv'
  OBVIOUS
<1>1. CASE Workflow
  BY <1>1, WorkflowKeeps
<1>2. CASE \E a \in Activities : LeaseExpires(a)
  BY <1>2, LeaseExpiresKeeps
<1>3. CASE \E w \in workers : Worker(w)
  BY <1>3, WorkerKeeps
<1>4. CASE UNCHANGED vars
  BY <1>4, StutterKeeps
<1> QED
  BY <1>1, <1>2, <1>3, <1>4 DEF Next

\* Only a commit moves the history, and only a delivery adds a worker.
LEMMA WhoMoves ==
    ASSUME Inv, [Next]_vars
    PROVE  CommitAppend \/ Deliver \/ HistoryKept
<1>1. CASE Workflow
  <2>1. ASSUME ~CommitAppend, ~Deliver
        PROVE  proj' = proj /\ run' = run /\ workers' = workers
    <3>1. ASSUME UNCHANGED store, UNCHANGED workers
          PROVE  proj' = proj /\ run' = run /\ workers' = workers
      BY <3>1 DEF store
    <3> QED
      BY <1>1, <2>1, <3>1 DEF Workflow, Load, SendTerminal, SendSuccess, Sleep, SendStart,
         Invoke, HandleBusy, Wake, HandleFailure, HandleOutcome, HandleStepCancelled,
         AckAppend, GiveUp, CancelCall, CancelWait, CancelStep, StepTimeout
  <2> QED
    BY <2>1 DEF HistoryKept
<1>2. CASE \E a \in Activities : LeaseExpires(a)
  BY <1>2, LeaseExpiresKeeps
<1>3. CASE \E w \in workers : Worker(w)
  BY <1>3, WorkerKeeps
<1>4. CASE UNCHANGED vars
  BY <1>4, StutterKeeps
<1> QED
  BY <1>1, <1>2, <1>3, <1>4 DEF Next

----------------------------------------------------------------------------
(* The history only counts upwards.                                        *)

\* An accepted event never lowers an attempt count.
LEMMA CountsGrow ==
    ASSUME NEW s \in StateType, NEW e \in EventType, Accepts(s, e), CurrentCounted(s)
    PROVE  /\ CurrentCounted(ApplyEvent(s, e))
           /\ \A a \in Activities : s.attempts[a] <= ApplyEvent(s, e).attempts[a]
<1> DEFINE t == ApplyEvent(s, e)
<1>t. \A a \in Activities : s.attempts[a] \in Nat
  BY DEF StateType
<1>1. ASSUME t.attempts = s.attempts,
             t.current = NoActivity \/ (t.current = s.current /\ t.attempt = s.attempt)
      PROVE  CurrentCounted(t) /\ \A a \in Activities : s.attempts[a] <= t.attempts[a]
  BY <1>1, <1>t, NoActivityIsNone DEF CurrentCounted
<1>2. CASE e.type = "ACTIVITY_STARTED" /\ AcceptsActivityStart(s, e)
  <2>1. e.act \in Activities /\ e.attempt = s.attempts[e.act] + 1
    BY <1>2 DEF AcceptsActivityStart, EventType
  <2>2. t.current = e.act /\ t.attempt = e.attempt
        /\ t.attempts = [s.attempts EXCEPT ![e.act] = e.attempt]
    BY <1>2, <2>1, ActivityStartApplied
  <2> HIDE DEF t
  <2>3. t.attempts[e.act] = e.attempt
    BY <2>1, <2>2 DEF StateType
  <2>4. \A a \in Activities : s.attempts[a] <= t.attempts[a]
    BY <1>t, <2>1, <2>2 DEF StateType
  <2>5. e.attempt \in Nat
    BY DEF EventType
  <2>6. CurrentCounted(t)
    BY <2>2, <2>3, <2>5 DEF CurrentCounted
  <2> QED
    BY <2>4, <2>6 DEF t
<1>3. CASE e.type = "WORKFLOW_STARTED"
  BY <1>1, <1>3, RunStartApplied
<1>4. CASE e.type = "ACTIVITY_ATTEMPT_FAILED"
  BY <1>1, <1>4, AttemptFailureApplied
<1>5. CASE e.type = "ACTIVITY_COMPLETED" /\ AcceptsCompletion(s, e)
  <2>1. e.act \in Activities
    BY <1>5 DEF AcceptsCompletion, RequireCurrentActivity, EventType
  <2> QED
    BY <1>1, <1>5, <2>1, CompletionApplied
<1>6. CASE e.type \in FailureTerminals
  BY <1>1, <1>6, FailureTerminalApplied
<1>7. CASE e.type = "WORKFLOW_SUCCEEDED"
  BY <1>1, <1>7, SuccessApplied
<1> QED
  BY <1>2, <1>3, <1>4, <1>5, <1>6, <1>7, AcceptedEvent

\* Every worker's attempt stays counted in the journal.
LEMMA CountedKept == Inv /\ Counted /\ [Next]_vars => Counted'
<1> SUFFICES ASSUME Inv, Counted, [Next]_vars PROVE Counted'
  OBVIOUS
<1>t. /\ proj \in StateType /\ outbox \in EventType /\ workers \subseteq WorkerType
      /\ \A a \in Activities : proj.attempts[a] \in Nat
  BY DEF Inv, TypeOK, StateType
<1>w. \A w \in workers : w.act \in Activities /\ w.attempt \in Nat
                           /\ w.attempt <= proj.attempts[w.act]
  BY <1>t DEF WorkerType, Counted, AuditBeforeSideEffect
<1>1. CASE CommitAppend
  <2>1. Accepts(proj, outbox) /\ proj' = ApplyEvent(proj, outbox) /\ workers' = workers
    BY <1>1 DEF CommitAppend, CanAppend
  <2>2. CurrentCounted(proj') /\ \A a \in Activities : proj.attempts[a] <= proj'.attempts[a]
    BY <1>t, <2>1, CountsGrow DEF Counted
  <2>3. \A a \in Activities : proj'.attempts[a] \in Nat
    BY <1>t, <2>1, ApplyEventType DEF StateType
  <2>4. AuditBeforeSideEffect'
    BY <1>t, <1>w, <2>1, <2>2, <2>3 DEF AuditBeforeSideEffect
  <2> QED
    BY <2>2, <2>4 DEF Counted, CurrentCounted
<1>2. CASE Deliver
  <2>1. proj' = proj /\ workers' = workers \cup {NewWorker} /\ pc = "scheduled"
    BY <1>2 DEF Deliver, store
  <2>2. state = proj /\ proj.current \in Activities
    BY <2>1 DEF Inv, Sync, Waits, Closed, ClosedPcs
  <2>3. NewWorker.attempt <= proj.attempts[NewWorker.act]
    BY <2>2 DEF NewWorker, Counted, CurrentCounted
  <2>4. AuditBeforeSideEffect'
    BY <1>w, <2>1, <2>3 DEF AuditBeforeSideEffect
  <2> QED
    BY <2>1, <2>4 DEF Counted, CurrentCounted
<1>3. CASE HistoryKept
  <2>1. AuditBeforeSideEffect'
    BY <1>3, <1>w DEF HistoryKept, AuditBeforeSideEffect
  <2> QED
    BY <1>3, <2>1 DEF HistoryKept, Counted, CurrentCounted
<1> QED
  BY <1>1, <1>2, <1>3, WhoMoves

\* Row and projection stay in agreement: they advance by one event, together.
LEMMA RowSyncKept == Inv /\ RowSync /\ [Next]_vars => RowSync'
<1> SUFFICES ASSUME Inv, RowSync, [Next]_vars PROVE RowSync'
  OBVIOUS
<1>1. CASE CommitAppend
  <2>1. /\ proj \in StateType /\ run \in RunType /\ outbox \in EventType
        /\ CanAppend(run, proj, outbox) /\ Accepts(proj, outbox)
        /\ proj' = ApplyEvent(proj, outbox) /\ run' = SqlAdvance(run, outbox)
    BY <1>1 DEF CommitAppend, CanAppend, Inv, TypeOK
  <2>2. RowAgrees(run', proj')
    BY <2>1, AdvancesAgree DEF RowSync
  <2>3. proj'.seq = proj.seq + 1 /\ proj.seq \in Nat
    BY <2>1, ApplyEventType, AcceptedEvent DEF StateType
  <2> QED
    BY <2>2, <2>3 DEF RowSync, RowAgrees
<1>2. CASE Deliver
  BY <1>2 DEF Deliver, store, RowSync, RowAgrees
<1>3. CASE HistoryKept
  BY <1>3 DEF HistoryKept, RowSync, RowAgrees
<1> QED
  BY <1>1, <1>2, <1>3, WhoMoves

----------------------------------------------------------------------------
(* What a step of a worker amounts to: for its row, for itself, for the     *)
(* workflow that may be waiting for it, and for the published result.       *)

\* Its row is left alone, or leased to it, or closed with what it has to say; a
\* stored outcome is never touched.
RowMove(w) ==
    /\ \A a \in Activities : a # w.act => exec'[a] = exec[a]
    /\ \/ exec'[w.act] = exec[w.act]
       \/ /\ exec[w.act].status # "SUCCEEDED"
          /\ exec'[w.act].input = w.input
          /\ \/ exec'[w.act].status = "LEASED"
             \/ /\ exec'[w.act].status = "SUCCEEDED" /\ exec'[w.act].answer = w.answer
                /\ w.pc = "completing"
             \/ /\ exec'[w.act].status = "FAILED" /\ exec'[w.act].answer = w.answer
                /\ w.pc = "failing"

\* The activities that hand on the reference they are given; the others make one.
Later == Activities \ {"VALIDATE", "PREFLIGHT", "EXECUTE"}

\* A failure with its code, and an outcome of an activity with its reference.
Real(f) == f # NoFailure /\ f.code # NoCode
Whole(act, ans) ==
    /\ ans.failure = NoFailure /\ ans.outcome \in TargetStatuses
    /\ act \notin Later => ans.ref # NoRef

\* What it has to say from now on, if anything new.
Speaks(w, v) ==
    \/ v.pc \in {"claiming", "running"}
    \/ v.pc = w.pc /\ v.answer = w.answer
    \/ v.pc = "failing" /\ Real(v.answer.failure)
    \/ /\ v.pc = "completing" /\ Whole(w.act, v.answer)
       /\ w.act \in Later => v.answer.ref = w.input
       /\ w.act = "PERSIST" => result # NoRef

\* It goes on as the same delivery; it ends for the workflow too, if that waits for it.
WorkerMove(w) ==
    /\ \A v \in workers' : v \in workers \/ (v.act = w.act /\ v.input = w.input /\ Speaks(w, v))
    /\ workers \ {w} \subseteq workers'
    /\ \/ ~Awaited(w) \/ pc' = "replied"
       \/ \E v \in workers' : v.act = w.act /\ v.attempt = w.attempt

\* If the workflow hears an outcome, that outcome is stored; if a failure, a real one.
ReplyMove(w) ==
    \/ pc' = pc /\ reply' = reply
    \/ /\ Awaited(w) /\ pc' = "replied" /\ reply'.kind # "NONE"
       /\ reply'.kind = "FAILED" => Real(reply'.answer.failure)
       /\ reply'.kind = "OUTCOME" =>
            exec'[w.act].status = "SUCCEEDED" /\ exec'[w.act].answer = reply'.answer

ResultMove(w) == result' = result \/ (result = NoRef /\ w.act = "PERSIST" /\ result' = w.input)

WorkerStep(w) ==
    /\ RowMove(w) /\ WorkerMove(w) /\ ReplyMove(w) /\ ResultMove(w)
    /\ UNCHANGED << state, outbox, after, journal, proj, run >>

\* A delivery that has an outcome to store has a whole one, one that has a
\* failure to store has a real one, and the rows keep them apart the same way.
Spoken ==
    /\ \A w \in workers :
        /\ w.pc = "completing" => Whole(w.act, w.answer)
        /\ w.pc = "failing" => Real(w.answer.failure)
    /\ \A a \in Activities :
        /\ exec[a].status = "SUCCEEDED" => Whole(a, exec[a].answer)
        /\ exec[a].status = "FAILED" => Real(exec[a].answer.failure)

\* None of the failures anybody reports is the absent one.
LEMMA RealFailures ==
    /\ \A f \in { StateUnavailable, StoreFailure, PersistenceFailed, LeaseLost, KeyConflict,
                  StepCancelled, StepLost, ResultMissing, ResultConflict } \cup DelegateFailures :
            Real(f)
    /\ \A f : Failed(f).failure = f /\ Failed(f).ref = NoRef
    /\ \A o, r : Said(o, r).failure = NoFailure /\ Said(o, r).ref = r /\ Said(o, r).outcome = o
<1>1. NoFailure.code = NoCode
  BY DEF NoFailure
<1>2. NoCode \notin ErrorCodes
  BY DEF NoCode, ErrorCodes
<1>3. \A f \in DelegateFailures : f.code # NoCode
  BY <1>2, CanaryAssumption
<1>5. /\ StateUnavailable.code # NoCode /\ StoreFailure.code # NoCode
      /\ PersistenceFailed.code # NoCode /\ LeaseLost.code # NoCode /\ KeyConflict.code # NoCode
      /\ StepCancelled.code # NoCode /\ StepLost.code # NoCode /\ ResultMissing.code # NoCode
      /\ ResultConflict.code # NoCode
  BY DEF Failure, NoCode, StateUnavailable, StoreFailure, PersistenceFailed, LeaseLost,
     KeyConflict, StepCancelled, StepLost, ResultMissing, ResultConflict
<1>6. \A f : Failed(f).failure = f /\ Failed(f).ref = NoRef
  BY DEF Failed, Silent
<1>7. \A o, r : Said(o, r).failure = NoFailure /\ Said(o, r).ref = r /\ Said(o, r).outcome = o
  BY DEF Said, Silent
<1> QED
  BY <1>1, <1>3, <1>5, <1>6, <1>7 DEF Real

\* The three ways a worker changes its row.
LEMMA RowMoves ==
    ASSUME Inv, NEW w \in workers
    PROVE  /\ UNCHANGED exec => RowMove(w)
           /\ Disposition(w) = "ACQUIRED" /\ Lease(w) => RowMove(w)
           /\ w.pc = "completing" /\ StoreOutcome(w) =>
                /\ RowMove(w)
                /\ exec'[w.act].status = "SUCCEEDED" /\ exec'[w.act].answer = w.answer
           /\ w.pc = "failing" /\ StoreAsFailed(w) => RowMove(w)
<1>t. /\ w \in WorkerType /\ w.act \in Activities
      /\ exec \in [Activities -> RowType] /\ exec[w.act] \in RowType
  BY DEF Inv, TypeOK, WorkerType
<1>1. UNCHANGED exec => RowMove(w)
  BY DEF RowMove
<1>2. ASSUME Disposition(w) = "ACQUIRED", Lease(w)
      PROVE  RowMove(w)
  <2>1. /\ \A a \in Activities : a # w.act => exec'[a] = exec[a]
        /\ exec'[w.act] = Claimed(w)
    BY <1>2, <1>t DEF Lease
  <2>2. \/ Claimed(w) = exec[w.act]
        \/ Claimed(w) = Store!Leased(w.input, w.attempt, w.attempt)
    BY DEF Claimed, Store!RowAfterClaim, RowOf
  <2>3. exec[w.act].status # "SUCCEEDED"
    BY <1>2 DEF Disposition, Store!ClaimDisposition, RowOf
  <2>4. LET r == Store!Leased(w.input, w.attempt, w.attempt) IN
        r.status = "LEASED" /\ r.input = w.input
    BY DEF Store!Leased
  <2> QED
    BY <2>1, <2>2, <2>3, <2>4 DEF RowMove
<1>c. \A st : LET r == Store!Closed(exec[w.act], st, w.answer) IN
        r.status = st /\ r.answer = w.answer /\ r.input = exec[w.act].input
  BY <1>t DEF Store!Closed, RowType
<1>3. ASSUME w.pc = "completing", StoreOutcome(w)
      PROVE  /\ RowMove(w)
             /\ exec'[w.act].status = "SUCCEEDED" /\ exec'[w.act].answer = w.answer
  <2> DEFINE r == Store!RowAfterComplete(RowOf(w), w.input, w.attempt, w.attempt, w.answer)
  <2>1. MayComplete(w) /\ exec' = [exec EXCEPT ![w.act] = r]
    BY <1>3 DEF StoreOutcome
  <2>2. \/ /\ Store!AlreadyCompleted(exec[w.act], w.input, w.answer)
           /\ r = exec[w.act]
        \/ /\ Store!Owns(exec[w.act], w.input, w.attempt, w.attempt)
           /\ r = Store!Closed(exec[w.act], "SUCCEEDED", w.answer)
    BY <2>1 DEF MayComplete, Store!CompleteAccepted, Store!RowAfterComplete, RowOf
  <2> HIDE DEF r
  <2>3. /\ \A a \in Activities : a # w.act => exec'[a] = exec[a]
        /\ exec'[w.act] = r
    BY <1>t, <2>1
  <2>4. CASE Store!AlreadyCompleted(exec[w.act], w.input, w.answer) /\ r = exec[w.act]
    BY <2>3, <2>4 DEF RowMove, Store!AlreadyCompleted
  <2>5. CASE /\ Store!Owns(exec[w.act], w.input, w.attempt, w.attempt)
             /\ r = Store!Closed(exec[w.act], "SUCCEEDED", w.answer)
    <3>1. exec[w.act].status = "LEASED" /\ exec[w.act].input = w.input
      BY <2>5 DEF Store!Owns
    <3>2. r.status = "SUCCEEDED" /\ r.answer = w.answer /\ r.input = w.input
      BY <1>c, <2>5, <3>1
    <3> QED
      BY <1>3, <2>3, <3>1, <3>2 DEF RowMove
  <2> QED
    BY <2>2, <2>4, <2>5
<1>4. ASSUME w.pc = "failing", StoreAsFailed(w)
      PROVE  RowMove(w)
  <2> DEFINE r == Store!RowAfterFail(RowOf(w), w.input, w.attempt, w.attempt, w.answer)
  <2>1. MayFail(w) /\ exec' = [exec EXCEPT ![w.act] = r]
    BY <1>4 DEF StoreAsFailed
  <2>2. \/ r = exec[w.act]
        \/ /\ Store!Owns(exec[w.act], w.input, w.attempt, w.attempt)
           /\ r = Store!Closed(exec[w.act], "FAILED", w.answer)
    BY <2>1 DEF MayFail, Store!FailAccepted, Store!RowAfterFail, RowOf
  <2> HIDE DEF r
  <2>3. /\ \A a \in Activities : a # w.act => exec'[a] = exec[a]
        /\ exec'[w.act] = r
    BY <1>t, <2>1
  <2>4. CASE r = exec[w.act]
    BY <2>3, <2>4 DEF RowMove
  <2>5. CASE /\ Store!Owns(exec[w.act], w.input, w.attempt, w.attempt)
             /\ r = Store!Closed(exec[w.act], "FAILED", w.answer)
    <3>1. exec[w.act].status = "LEASED" /\ exec[w.act].input = w.input
      BY <2>5 DEF Store!Owns
    <3>2. r.status = "FAILED" /\ r.answer = w.answer /\ r.input = w.input
      BY <1>c, <2>5, <3>1
    <3> QED
      BY <1>4, <2>3, <3>1, <3>2 DEF RowMove
  <2> QED
    BY <2>2, <2>4, <2>5
<1> QED
  BY <1>1, <1>2, <1>3, <1>4

\* A delivery that ends, telling the workflow nothing but what is stored.
LEMMA EndMoves ==
    ASSUME Inv, NEW w \in workers, NEW r, End(w, r), r.kind # "NONE",
           r.kind = "FAILED" => Real(r.answer.failure),
           r.kind = "OUTCOME" => /\ exec'[w.act].status = "SUCCEEDED"
                                 /\ exec'[w.act].answer = r.answer
    PROVE  /\ WorkerMove(w) /\ ReplyMove(w)
           /\ UNCHANGED << state, outbox, after, journal, proj, run >>
<1>1. /\ workers' = workers \ {w}
      /\ UNCHANGED << state, outbox, after, journal, proj, run >>
  BY DEF End, store
<1>2. CASE Awaited(w)
  <2>1. pc' = "replied" /\ (reply' = Cancelled \/ reply' = r)
    BY <1>2 DEF End, StepEnds
  <2>2. Cancelled.kind \notin {"NONE", "OUTCOME", "FAILED"}
    BY DEF Cancelled
  <2>3. ReplyMove(w)
    BY <1>2, <2>1, <2>2 DEF ReplyMove
  <2> QED
    BY <1>1, <2>1, <2>3 DEF WorkerMove
<1>3. CASE ~Awaited(w)
  BY <1>1, <1>3 DEF End, WorkerMove, ReplyMove
<1> QED
  BY <1>2, <1>3

\* A delivery that goes on with something to say, or nothing yet.
LEMMA ContinueMoves ==
    ASSUME Inv, NEW w \in workers, NEW v, v.act = w.act, v.input = w.input,
           v.attempt = w.attempt, Speaks(w, v), Continue(w, v)
    PROVE  /\ WorkerMove(w) /\ ReplyMove(w)
           /\ UNCHANGED << state, outbox, after, journal, proj, run >>
<1>1. /\ workers' = (workers \ {w}) \cup {v}
      /\ UNCHANGED << pc, reply, state, outbox, after, journal, proj, run >>
  BY DEF Continue, driver, store
<1> QED
  BY <1>1 DEF WorkerMove, ReplyMove

\* A delivery that goes on to report a failure.
LEMMA FailingMoves ==
    ASSUME Inv, NEW w \in workers, NEW f, Real(f), Continue(w, Answering(w, Failed(f)))
    PROVE  /\ WorkerMove(w) /\ ReplyMove(w)
           /\ UNCHANGED << state, outbox, after, journal, proj, run >>
<1> DEFINE v == Answering(w, Failed(f))
<1>1. w \in WorkerType
  BY DEF Inv, TypeOK
<1>2. Failed(f).failure = f
  BY RealFailures
<1>3. /\ v.act = w.act /\ v.input = w.input /\ v.attempt = w.attempt
      /\ v.pc = "failing" /\ v.answer = Failed(f)
  BY <1>1, <1>2 DEF Answering, WorkerType, Real
<1>4. Speaks(w, v)
  BY <1>2, <1>3 DEF Speaks
<1> QED
  BY <1>3, <1>4, ContinueMoves

\* The answer of a computation that is handed on.
LEMMA ComputedSpeaks ==
    ASSUME Inv, NEW w \in workers, NEW o \in TargetStatuses, w.pc = "running",
           w.act = "PERSIST" => result # NoRef
    PROVE  LET v == Answering(w, Computed(w, o)) IN
           v.act = w.act /\ v.input = w.input /\ v.attempt = w.attempt /\ Speaks(w, v)
<1> DEFINE ans == Computed(w, o)
           v == Answering(w, ans)
<1>1. w \in WorkerType
  BY DEF Inv, TypeOK
<1>2. v.act = w.act /\ v.input = w.input /\ v.attempt = w.attempt /\ v.answer = ans
      /\ v.pc = IF ans.failure = NoFailure THEN "completing" ELSE "failing"
  BY <1>1 DEF Answering, WorkerType
<1>3. \/ Real(ans.failure)
      \/ ans.failure = NoFailure /\ ans.ref = Produced(w) /\ ans.outcome = o
  BY RealFailures DEF Computed
<1>4. w.act \in Later => Produced(w) = w.input
  BY DEF Produced, Later
<1>6. w.act \notin Later => Produced(w) # NoRef
  <2>1. ASSUME NEW n PROVE << w.act, n >> # NoRef
    <3>1. << w.act, n >>[1] = w.act /\ NoRef[1] = "NO_REF"
      BY DEF NoRef
    <3>2. w.act # "NO_REF"
      BY <1>1, ActivitiesListed DEF WorkerType
    <3> QED BY <3>1, <3>2
  <2>2. w.act \in Activities
    BY <1>1 DEF WorkerType
  <2> QED BY <2>1, <2>2 DEF Later, Produced
<1> HIDE DEF ans, v
<1>5. Speaks(w, v)
  BY <1>2, <1>3, <1>4, <1>6 DEF Speaks, Whole, Real
<1> QED
  BY <1>2, <1>5 DEF ans, v

\* Every action of a worker is such a step.
LEMMA WorkerMoves ==
    ASSUME Inv, Spoken, NEW w \in workers, Worker(w)
    PROVE  WorkerStep(w)
<1>t. w \in WorkerType /\ w.act \in Activities /\ exec[w.act] \in RowType
  BY DEF Inv, TypeOK, WorkerType
<1>k. \A ans : /\ Reports(ans).answer = ans
               /\ Reports(ans).kind = IF ans.failure = NoFailure THEN "OUTCOME" ELSE "FAILED"
  BY DEF Reports
<1>f. \A f \in { StateUnavailable, PersistenceFailed, LeaseLost, KeyConflict } :
        /\ Reports(Failed(f)).kind = "FAILED"
        /\ Reports(Failed(f)).answer = Failed(f) /\ Real(Failed(f).failure)
  BY <1>k, RealFailures DEF Real
<1>u. UNCHANGED rows => UNCHANGED exec /\ ResultMove(w)
  BY DEF rows, ResultMove
<1>v. UNCHANGED result => ResultMove(w)
  BY DEF ResultMove
<1>s. UNCHANGED << driver, store, workers >> =>
        /\ WorkerMove(w) /\ ReplyMove(w)
        /\ UNCHANGED << state, outbox, after, journal, proj, run >>
  BY DEF driver, store, WorkerMove, ReplyMove
<1>1. CASE Acquire(w)
  <2>1. RowMove(w) /\ ResultMove(w)
    BY <1>1, <1>v, RowMoves DEF Acquire
  <2>2. CASE w.told
    <3>1. Continue(w, Answering(w, Failed(StepCancelled)))
      BY <1>1, <2>2 DEF Acquire
    <3> QED
      BY <2>1, <3>1, RealFailures, FailingMoves DEF WorkerStep
  <2>3. CASE ~w.told
    <3>1. LET v == [w EXCEPT !.pc = "running"] IN
          /\ v.act = w.act /\ v.input = w.input /\ v.attempt = w.attempt
          /\ v.pc = "running"
      BY <1>t DEF WorkerType
    <3>2. Continue(w, [w EXCEPT !.pc = "running"])
      BY <1>1, <2>3 DEF Acquire
    <3>3. Speaks(w, [w EXCEPT !.pc = "running"])
      BY <3>1 DEF Speaks
    <3> QED
      BY <2>1, <3>1, <3>2, <3>3, ContinueMoves DEF WorkerStep
  <2> QED
    BY <2>2, <2>3
<1>2. CASE Replay(w)
  <2>1. exec' = exec /\ RowMove(w) /\ ResultMove(w) /\ End(w, Reports(exec[w.act].answer))
    BY <1>2, <1>u, RowMoves DEF Replay, rows, RowOf
  <2>2. exec[w.act].status \in {"SUCCEEDED", "FAILED"}
    BY <1>2, <1>t DEF Replay, Disposition, Store!ClaimDisposition, RowOf, RowType
  <2>3. /\ exec[w.act].answer.failure = NoFailure => exec[w.act].status = "SUCCEEDED"
        /\ exec[w.act].answer.failure # NoFailure => Real(exec[w.act].answer.failure)
    BY <1>t, <2>2 DEF Spoken, Whole, Real
  <2> QED
    BY <1>k, <2>1, <2>3, EndMoves DEF WorkerStep
<1>3. CASE FindBusy(w)
  <2>1. RowMove(w) /\ ResultMove(w) /\ End(w, Busy)
    BY <1>3, <1>u, RowMoves DEF FindBusy, rows
  <2>2. Busy.kind \notin {"NONE", "OUTCOME", "FAILED"}
    BY DEF Busy
  <2> QED
    BY <2>1, <2>2, EndMoves DEF WorkerStep
<1>4. CASE StopLost(w)
  <2>1. RowMove(w) /\ ResultMove(w) /\ End(w, Reports(Failed(LeaseLost)))
    BY <1>4, <1>u, RowMoves DEF StopLost, rows
  <2> QED
    BY <1>f, <2>1, EndMoves DEF WorkerStep
<1>5. CASE Persist(w)
  <2>1. RowMove(w) /\ ResultMove(w)
    BY <1>5, RowMoves DEF Persist, ResultMove
  <2> QED
    BY <1>5, <1>s, <2>1 DEF Persist, WorkerStep
<1>6. CASE Finish(w)
  <2>1. PICK o \in Possible(w) : Continue(w, Answering(w, Computed(w, o)))
    BY <1>6 DEF Finish
  <2>2. RowMove(w) /\ ResultMove(w)
    BY <1>6, <1>u, RowMoves DEF Finish, rows
  <2>3. w.pc = "running" /\ (w.act = "PERSIST" => result # NoRef)
    BY <1>6 DEF Finish, Renewing
  <2>4. o \in TargetStatuses
    BY <2>1 DEF Possible, TargetStatuses
  <2> QED
    BY <2>1, <2>2, <2>3, <2>4, ComputedSpeaks, ContinueMoves DEF WorkerStep
<1>7. CASE Complete(w)
  <2>1. /\ RowMove(w) /\ ResultMove(w) /\ End(w, Reports(w.answer))
        /\ exec'[w.act].status = "SUCCEEDED" /\ exec'[w.act].answer = w.answer
    BY <1>7, <1>v, RowMoves DEF Complete
  <2>2. w.answer.failure = NoFailure
    BY <1>7 DEF Complete, Spoken, Whole
  <2> QED
    BY <1>k, <2>1, <2>2, EndMoves DEF WorkerStep
<1>8. CASE RecordFailure(w)
  <2>1. RowMove(w) /\ ResultMove(w) /\ End(w, Reports(w.answer)) /\ w.pc = "failing"
    BY <1>8, <1>v, RowMoves DEF RecordFailure
  <2>2. Reports(w.answer).kind = "FAILED" /\ Real(w.answer.failure)
    BY <1>k, <2>1 DEF Spoken, Real
  <2>3. Reports(w.answer).answer = w.answer
    BY <1>k
  <2> QED
    BY <2>1, <2>2, <2>3, EndMoves DEF WorkerStep
<1>9. CASE Conflict(w)
  <2>1. RowMove(w) /\ ResultMove(w) /\ End(w, Reports(Failed(KeyConflict)))
    BY <1>9, <1>u, RowMoves DEF Conflict, rows
  <2> QED
    BY <1>f, <2>1, EndMoves DEF WorkerStep
<1>10. CASE Crash(w)
  <2>1. RowMove(w) /\ ResultMove(w)
    BY <1>10, <1>u, RowMoves DEF Crash, rows
  <2> QED
    BY <1>10, <2>1 DEF Crash, driver, store, WorkerStep, WorkerMove, ReplyMove
<1>11. CASE HearCancel(w)
  <2>1. LET v == [w EXCEPT !.told = TRUE] IN
        /\ v.act = w.act /\ v.input = w.input /\ v.attempt = w.attempt
        /\ v.pc = w.pc /\ v.answer = w.answer
    BY <1>t DEF WorkerType
  <2>2. RowMove(w) /\ ResultMove(w)
    BY <1>11, <1>u, RowMoves DEF HearCancel, rows
  <2>3. Speaks(w, [w EXCEPT !.told = TRUE]) /\ Continue(w, [w EXCEPT !.told = TRUE])
    BY <1>11, <2>1 DEF HearCancel, Speaks
  <2> QED
    BY <2>1, <2>2, <2>3, ContinueMoves DEF WorkerStep
<1>12. CASE ClaimUnavailable(w)
  <2>1. RowMove(w) /\ ResultMove(w) /\ End(w, Reports(Failed(StateUnavailable)))
    BY <1>12, <1>v, RowMoves DEF ClaimUnavailable
  <2> QED
    BY <1>f, <2>1, EndMoves DEF WorkerStep
<1>13. CASE Renew(w)
  <2>1. RowMove(w) /\ ResultMove(w)
    BY <1>13, <1>v, RowMoves DEF Renew
  <2> QED
    BY <1>13, <1>s, <2>1 DEF Renew, WorkerStep
<1>14. CASE LoseLease(w)
  <2>1. LET v == [w EXCEPT !.lost = TRUE] IN
        /\ v.act = w.act /\ v.input = w.input /\ v.attempt = w.attempt
        /\ v.pc = w.pc /\ v.answer = w.answer
    BY <1>t DEF WorkerType
  <2>2. RowMove(w) /\ ResultMove(w)
    BY <1>14, <1>u, RowMoves DEF LoseLease, rows
  <2>3. Speaks(w, [w EXCEPT !.lost = TRUE]) /\ Continue(w, [w EXCEPT !.lost = TRUE])
    BY <1>14, <2>1 DEF LoseLease, Speaks
  <2> QED
    BY <2>1, <2>2, <2>3, ContinueMoves DEF WorkerStep
<1>15. CASE Raise(w)
  <2>1. PICK f \in DelegateFailures \cup {StoreFailure} : Continue(w, Answering(w, Failed(f)))
    BY <1>15 DEF Raise
  <2>2. RowMove(w) /\ ResultMove(w) /\ Real(f)
    BY <1>15, <1>u, <2>1, RowMoves, RealFailures DEF Raise, rows
  <2> QED
    BY <2>1, <2>2, FailingMoves DEF WorkerStep
<1>16. CASE StopCancelled(w)
  <2>1. RowMove(w) /\ ResultMove(w) /\ Real(StepCancelled)
    BY <1>16, <1>u, RowMoves, RealFailures DEF StopCancelled, rows
  <2> QED
    BY <1>16, <2>1, FailingMoves DEF StopCancelled, WorkerStep
<1>17. CASE CompleteUnavailable(w)
  <2>1. RowMove(w) /\ ResultMove(w) /\ Real(StoreFailure)
    BY <1>17, <1>v, RowMoves, RealFailures DEF CompleteUnavailable
  <2> QED
    BY <1>17, <2>1, FailingMoves DEF CompleteUnavailable, WorkerStep
<1>18. CASE RecordUnavailable(w)
  <2>1. RowMove(w) /\ ResultMove(w) /\ End(w, Reports(Failed(PersistenceFailed)))
    BY <1>18, <1>v, RowMoves DEF RecordUnavailable
  <2> QED
    BY <1>f, <2>1, EndMoves DEF WorkerStep
<1> QED
  BY <1>1, <1>2, <1>3, <1>4, <1>5, <1>6, <1>7, <1>8, <1>9, <1>10, <1>11, <1>12, <1>13,
     <1>14, <1>15, <1>16, <1>17, <1>18 DEF Worker, Ends

----------------------------------------------------------------------------
(* What was said is what is stored.                                        *)

\* The outcome an event reports is stored in the row of its activity.
Backed(e) ==
    e.type = "ACTIVITY_COMPLETED" =>
        /\ e.act \in Activities
        /\ exec[e.act].status = "SUCCEEDED"
        /\ exec[e.act].answer = Said(e.outcome, e.ref)

\* An outcome the workflow has heard of is the stored one, and so is the one
\* it is about to report, or has reported.
Heard ==
    /\ reply.kind = "OUTCOME" =>
        /\ pc = "replied"
        /\ exec[state.current].status = "SUCCEEDED"
        /\ exec[state.current].answer = reply.answer
    /\ Backed(outbox)
    /\ \A i \in 1..Len(journal) : Backed(journal[i])

StoreInv == Spoken /\ Heard

\* The types of the events a workflow sends, where they are not reports of a
\* completion; what a completion says.
LEMMA EventNames ==
    /\ \A s : /\ StartedEvent(s).type = "WORKFLOW_STARTED"
              /\ SuccessEvent(s).type = "WORKFLOW_SUCCEEDED"
              /\ StartEvent(s).type = "ACTIVITY_STARTED"
              /\ StartEvent(s).attempt = s.attempts[NextActivity(s)] + 1
              /\ CancelEvent(s).type = "WORKFLOW_CANCELLED"
    /\ \A s, type, code : StopEvent(s, type, code).type = type
    /\ \A s, f : LET e == AttemptFailureEvent(s, f) IN
         /\ e.type = "ACTIVITY_ATTEMPT_FAILED" /\ e.attempt = s.attempt
         /\ e.retry = (f.retryable /\ s.attempt < MaxAttempts)
    /\ \A s, ans : LET e == CompletionEvent(s, ans) IN
         /\ e.type = "ACTIVITY_COMPLETED" /\ e.act = s.current
         /\ e.outcome = ans.outcome /\ e.ref = ans.ref
<1>1. \A s, type, phase : BlankEvent(s, type, phase).type = type
  BY DEF BlankEvent
<1>2. \A s, type, code : StopEvent(s, type, code).type = type
  BY DEF StopEvent, BlankEvent
<1>3. \A s : SuccessEvent(s).type = "WORKFLOW_SUCCEEDED"
  BY DEF SuccessEvent, BlankEvent
<1>4. \A s, type, act, n : LET e == ActivityEvent(s, type, act, n) IN
        e.type = type /\ e.act = act /\ e.attempt = n
  BY DEF ActivityEvent, BlankEvent
<1>5. \A s : StartEvent(s).type = "ACTIVITY_STARTED"
             /\ StartEvent(s).attempt = s.attempts[NextActivity(s)] + 1
  BY <1>4 DEF StartEvent
<1>6. \A s, f : LET e == AttemptFailureEvent(s, f) IN
         /\ e.type = "ACTIVITY_ATTEMPT_FAILED" /\ e.attempt = s.attempt
         /\ e.retry = (f.retryable /\ s.attempt < MaxAttempts)
  BY DEF AttemptFailureEvent, ActivityEvent, BlankEvent
<1>7. \A s, ans : LET e == CompletionEvent(s, ans) IN
         /\ e.type = "ACTIVITY_COMPLETED" /\ e.act = s.current
         /\ e.outcome = ans.outcome /\ e.ref = ans.ref
  BY DEF CompletionEvent, ActivityEvent, BlankEvent
<1> QED
  BY <1>1, <1>2, <1>3, <1>5, <1>6, <1>7 DEF StartedEvent, CancelEvent

\* A typed answer without a failure is its outcome and its reference.
LEMMA SaidInFull ==
    ASSUME NEW ans \in Answer, ans.failure = NoFailure
    PROVE  ans = Said(ans.outcome, ans.ref)
<1>1. ASSUME NEW x \in Answer, NEW y \in Answer, x.outcome = y.outcome, x.ref = y.ref,
             x.failure = y.failure
      PROVE  x = y
  BY <1>1 DEF Answer
<1>2. /\ Said(ans.outcome, ans.ref).outcome = ans.outcome
      /\ Said(ans.outcome, ans.ref).ref = ans.ref
      /\ Said(ans.outcome, ans.ref).failure = NoFailure
  BY RealFailures
<1>3. Said(ans.outcome, ans.ref) \in Answer
  BY NoFailureType DEF Said, Silent, Answer
<1> QED
  BY <1>1, <1>2, <1>3

\* The initial state says nothing.
LEMMA InitStore == Init => StoreInv
<1> SUFFICES ASSUME Init PROVE StoreInv
  OBVIOUS
<1>1. workers = {} /\ \A a \in Activities : exec[a].status = "NONE"
  BY DEF Init, Store!NoExecution
<1>2. reply.kind = "NONE" /\ outbox.type = "NO_EVENT" /\ Len(journal) = 0
  BY DEF Init, NoReply, NoEvent, BlankEvent
<1> QED
  BY <1>1, <1>2 DEF StoreInv, Spoken, Heard, Backed

\* What an action of the workflow amounts to.  Only a delivery adds a worker,
\* only an append moves the journal, and only an outcome heard is reported.
WorkflowStep ==
    /\ exec' = exec /\ result' = result
    /\ workers' = workers \/ (Deliver /\ workers' = workers \cup {NewWorker})
    /\ CommitAppend \/ (journal' = journal /\ proj' = proj /\ reply'.kind # "OUTCOME")
    /\ \/ outbox' = outbox
       \/ outbox'.type \notin {"ACTIVITY_STARTED", "ACTIVITY_ATTEMPT_FAILED", "ACTIVITY_COMPLETED"}
       \/ SendStart /\ outbox' = StartEvent(state)
       \/ HandleFailure /\ outbox' = AttemptFailureEvent(state, reply.answer.failure)
       \/ HandleOutcome /\ outbox' = CompletionEvent(state, reply.answer)
    /\ pc' = "retry_sleep" => Sleep \/ (pc = "retry_sleep" /\ state' = state)

\* Every action of the workflow is such a step.
LEMMA WorkflowMoves ==
    ASSUME Inv, Heard, Workflow
    PROVE  WorkflowStep
<1>r. /\ pc # "replied" => reply.kind # "OUTCOME"
      /\ NoReply.kind # "OUTCOME" /\ Reports(Failed(StepLost)).kind # "OUTCOME"
  BY RealFailures DEF Heard, NoReply, Reports, Real
<1>s. UNCHANGED << store, rows >> =>
        journal' = journal /\ proj' = proj /\ exec' = exec /\ result' = result
  BY DEF store, rows
<1>a. after \in {"drive", "COMPLETED", "CANCELLED"}
  BY DEF Inv, TypeOK
<1>1. CASE Load
  BY <1>1, <1>r, <1>s, EventNames DEF Load, Record, WorkflowStep
<1>2. CASE SendTerminal
  <2>1. outbox'.type \in {"WORKFLOW_REJECTED", "WORKFLOW_FAILED"}
    BY <1>2, EventNames DEF SendTerminal, Record
  <2> QED
    BY <1>2, <1>r, <1>s, <2>1 DEF SendTerminal, Record, WorkflowStep
<1>3. CASE SendSuccess
  BY <1>3, <1>r, <1>s, EventNames DEF SendSuccess, Record, WorkflowStep
<1>4. CASE Sleep
  BY <1>4, <1>r, <1>s DEF Sleep, WorkflowStep
<1>5. CASE SendStart
  BY <1>5, <1>r, <1>s DEF SendStart, Record, WorkflowStep
<1>6. CASE Invoke
  BY <1>6, <1>r, <1>s DEF Invoke, WorkflowStep
<1>7. CASE HandleBusy
  BY <1>7, <1>r, <1>s DEF HandleBusy, WorkflowStep
<1>8. CASE Wake
  BY <1>8, <1>r, <1>s DEF Wake, WorkflowStep
<1>9. CASE HandleFailure
  BY <1>9, <1>r, <1>s DEF HandleFailure, Record, WorkflowStep
<1>10. CASE HandleOutcome
  <2>1. CASE BadOutcome
    <3>1. outbox'.type = "WORKFLOW_FAILED"
      BY <1>10, <2>1, EventNames DEF HandleOutcome, Record
    <3>2. pc' = "append"
      BY <1>10, <2>1 DEF HandleOutcome, Record
    <3> QED
      BY <1>10, <1>r, <1>s, <3>1, <3>2 DEF HandleOutcome, WorkflowStep
  <2>2. CASE ~BadOutcome
    <3>1. outbox' = CompletionEvent(state, reply.answer) /\ pc' = "append"
      BY <1>10, <2>2 DEF HandleOutcome, Record
    <3> QED
      BY <1>10, <1>r, <1>s, <3>1 DEF HandleOutcome, WorkflowStep
  <2> QED
    BY <2>1, <2>2
<1>11. CASE HandleStepCancelled
  BY <1>11, <1>r, <1>s, EventNames DEF HandleStepCancelled, Record, WorkflowStep
<1>12. CASE CommitAppend
  BY <1>12 DEF CommitAppend, driver, rows, WorkflowStep
<1>13. CASE AckAppend
  BY <1>13, <1>r, <1>s, <1>a DEF AckAppend, WorkflowStep
<1>14. CASE GiveUp
  BY <1>14, <1>r, <1>s DEF GiveUp, WorkflowStep
<1>15. CASE CancelCall
  BY <1>15, <1>r, <1>s DEF CancelCall, WorkflowStep
<1>16. CASE CancelWait
  BY <1>16, <1>r, <1>s, EventNames DEF CancelWait, Record, WorkflowStep
<1>17. CASE CancelStep
  BY <1>17, <1>r, <1>s DEF CancelStep, WorkflowStep
<1>18. CASE Deliver
  BY <1>18, <1>r, <1>s DEF Deliver, WorkflowStep
<1>19. CASE StepTimeout
  BY <1>19, <1>r, <1>s DEF StepTimeout, StepEnds, WorkflowStep
<1> QED
  BY <1>1, <1>2, <1>3, <1>4, <1>5, <1>6, <1>7, <1>8, <1>9, <1>10, <1>11, <1>12, <1>13,
     <1>14, <1>15, <1>16, <1>17, <1>18, <1>19 DEF Workflow

\* The workflow keeps it: what it reports is what it heard.
LEMMA StoreWorkflow ==
    ASSUME Inv, StoreInv, Workflow
    PROVE  StoreInv'
<1>1. WorkflowStep
  BY WorkflowMoves DEF StoreInv
<1>2. Spoken'
  <2>1. NewWorker.pc = "claiming"
    BY DEF NewWorker
  <2> QED
    BY <1>1, <2>1 DEF StoreInv, Spoken, WorkflowStep
<1>3. Backed(outbox)'
  <2>1. CASE outbox' = outbox
    BY <1>1, <2>1 DEF StoreInv, Heard, Backed, WorkflowStep
  <2>2. CASE outbox'.type # "ACTIVITY_COMPLETED"
    BY <2>2 DEF Backed
  <2>3. CASE HandleOutcome /\ outbox' = CompletionEvent(state, reply.answer)
    <3>1. reply.kind = "OUTCOME" /\ pc = "replied" /\ state.current \in Activities
          /\ reply.answer \in Answer
      BY <2>3 DEF HandleOutcome, Inv, Waits, TypeOK, Reply
    <3>2. exec[state.current].status = "SUCCEEDED" /\ exec[state.current].answer = reply.answer
      BY <3>1 DEF StoreInv, Heard
    <3>3. reply.answer = Said(reply.answer.outcome, reply.answer.ref)
      BY <3>1, <3>2, SaidInFull DEF StoreInv, Spoken, Whole
    <3>4. outbox'.act = state.current /\ outbox'.outcome = reply.answer.outcome
          /\ outbox'.ref = reply.answer.ref
      BY <2>3, EventNames
    <3>5. exec' = exec
      BY <1>1 DEF WorkflowStep
    <3> QED
      BY <3>1, <3>2, <3>3, <3>4, <3>5 DEF Backed
  <2>4. \A s, f : /\ StartEvent(s).type # "ACTIVITY_COMPLETED"
                  /\ AttemptFailureEvent(s, f).type # "ACTIVITY_COMPLETED"
    BY EventNames
  <2> QED
    BY <1>1, <2>1, <2>2, <2>3, <2>4 DEF WorkflowStep
<1>4. CASE CommitAppend
  <2>1. /\ journal' = Append(journal, outbox) /\ exec' = exec
        /\ pc' = pc /\ state' = state /\ reply' = reply
        /\ journal \in Seq(EventType) /\ outbox \in EventType
    BY <1>4 DEF CommitAppend, driver, rows, Inv, TypeOK
  <2>2. ASSUME NEW i \in 1..Len(journal')
        PROVE  Backed(journal[i])' 
    <3>1. \/ i \in 1..Len(journal) /\ journal'[i] = journal[i]
          \/ journal'[i] = outbox
      BY <2>1, <2>2
    <3>2. Backed(journal[i]) \/ journal'[i] = outbox
      BY <3>1 DEF StoreInv, Heard
    <3> QED
      BY <2>1, <3>1, <3>2 DEF StoreInv, Heard, Backed
  <2> QED
    BY <1>2, <1>3, <2>1, <2>2 DEF StoreInv, Heard
<1>5. CASE ~CommitAppend
  <2>1. journal' = journal /\ exec' = exec /\ reply'.kind # "OUTCOME"
    BY <1>1, <1>5 DEF WorkflowStep
  <2>2. \A i \in 1..Len(journal) : Backed(journal[i])'
    BY <2>1 DEF StoreInv, Heard, Backed
  <2> QED
    BY <1>2, <1>3, <2>1, <2>2 DEF StoreInv, Heard
<1> QED
  BY <1>4, <1>5

\* A row whose outcome is stored stays as it is, so what was said stays true.
LEMMA RowsLast ==
    ASSUME NEW w, w.act \in Activities, RowMove(w)
    PROVE  /\ \A a \in Activities : exec[a].status = "SUCCEEDED" => exec'[a] = exec[a]
           /\ \A e : Backed(e) => (e.type = "ACTIVITY_COMPLETED" =>
                /\ e.act \in Activities
                /\ exec'[e.act].status = "SUCCEEDED"
                /\ exec'[e.act].answer = Said(e.outcome, e.ref))
<1>1. \A a \in Activities : exec[a].status = "SUCCEEDED" => exec'[a] = exec[a]
  BY DEF RowMove
<1> QED
  BY <1>1 DEF Backed

\* The workers keep it.
LEMMA StoreWorker ==
    ASSUME Inv, StoreInv, NEW w \in workers, Worker(w)
    PROVE  StoreInv'
<1>1. WorkerStep(w)
  BY WorkerMoves DEF StoreInv
<1>2. w.act \in Activities
  BY DEF Inv, TypeOK, WorkerType
<1>3. /\ RowMove(w) /\ WorkerMove(w) /\ ReplyMove(w)
      /\ state' = state /\ outbox' = outbox /\ journal' = journal
  BY <1>1 DEF WorkerStep
<1>4. Spoken'
  <2>1. ASSUME NEW v \in workers'
        PROVE  /\ v.pc = "completing" => Whole(v.act, v.answer)
               /\ v.pc = "failing" => Real(v.answer.failure)
    BY <1>3, <2>1 DEF WorkerMove, Speaks, StoreInv, Spoken
  <2>2. ASSUME NEW a \in Activities
        PROVE  /\ exec'[a].status = "SUCCEEDED" => Whole(a, exec'[a].answer)
               /\ exec'[a].status = "FAILED" => Real(exec'[a].answer.failure)
    <3>1. CASE exec'[a] = exec[a]
      BY <3>1 DEF StoreInv, Spoken
    <3>2. CASE exec'[a] # exec[a]
      BY <1>3, <3>2 DEF RowMove, StoreInv, Spoken
    <3> QED
      BY <3>1, <3>2
  <2> QED
    BY <2>1, <2>2 DEF Spoken
<1>5. Backed(outbox)' /\ \A i \in 1..Len(journal') : Backed(journal[i])'
  <2>1. \A e : Backed(e) => (e.type = "ACTIVITY_COMPLETED" =>
                /\ e.act \in Activities
                /\ exec'[e.act].status = "SUCCEEDED"
                /\ exec'[e.act].answer = Said(e.outcome, e.ref))
    BY <1>2, <1>3, RowsLast
  <2>2. Backed(outbox) /\ \A i \in 1..Len(journal) : Backed(journal[i])
    BY DEF StoreInv, Heard
  <2> QED
    BY <1>3, <2>1, <2>2 DEF Backed
<1>6. ASSUME reply'.kind = "OUTCOME"
      PROVE  /\ pc' = "replied" /\ exec'[state'.current].status = "SUCCEEDED"
             /\ exec'[state'.current].answer = reply'.answer
  <2>1. CASE pc' = pc /\ reply' = reply
    <3>1. /\ pc = "replied" /\ exec[state.current].status = "SUCCEEDED"
          /\ exec[state.current].answer = reply.answer
      BY <1>6, <2>1 DEF StoreInv, Heard
    <3>2. state.current \in Activities
      BY <3>1 DEF Inv, Waits
    <3> QED
      BY <1>2, <1>3, <2>1, <3>1, <3>2, RowsLast
  <2>2. CASE ~(pc' = pc /\ reply' = reply)
    BY <1>3, <1>6, <2>2 DEF ReplyMove, Awaited
  <2> QED
    BY <2>1, <2>2
<1> QED
  BY <1>4, <1>5, <1>6 DEF StoreInv, Heard

\* Every step keeps it.
LEMMA StoreKept == Inv /\ StoreInv /\ [Next]_vars => StoreInv'
<1> SUFFICES ASSUME Inv, StoreInv, [Next]_vars PROVE StoreInv'
  OBVIOUS
<1>1. CASE Workflow
  BY <1>1, StoreWorkflow
<1>2. CASE \E a \in Activities : LeaseExpires(a)
  BY <1>2 DEF LeaseExpires, driver, store, StoreInv, Spoken, Heard, Backed
<1>3. CASE \E w \in workers : Worker(w)
  BY <1>3, StoreWorker
<1>4. CASE UNCHANGED vars
  BY <1>4 DEF vars, driver, store, rows, StoreInv, Spoken, Heard, Backed
<1> QED
  BY <1>1, <1>2, <1>3, <1>4 DEF Next

----------------------------------------------------------------------------
(* The plan and the budget.                                                *)

\* No event in the outbox starts an attempt beyond the policy, nor schedules
\* one; and where the workflow sleeps before a retry, one is scheduled.
Within ==
    /\ outbox.type = "ACTIVITY_STARTED" => outbox.attempt <= MaxAttempts \/ IsTerminal(proj)
    /\ outbox.type = "ACTIVITY_ATTEMPT_FAILED" /\ outbox.retry => outbox.attempt < MaxAttempts
    /\ pc = "retry_sleep" => state.retry /\ state.current = NoActivity

ProgressInv == Planned(proj) /\ Budget(proj, MaxAttempts) /\ Within

\* A run starts at the beginning of its plan, with nothing tried.
LEMMA InitProgress == Init => ProgressInv
<1> SUFFICES ASSUME Init PROVE ProgressInv
  OBVIOUS
<1>1. /\ proj.next = 1 /\ proj.completed = << >> /\ proj.status = "NOT_STARTED"
      /\ proj.current = NoActivity /\ proj.retry = FALSE
      /\ \A a \in Activities : proj.attempts[a] = 0
  BY DEF Init, InitialState
<1>2. outbox.type = "NO_EVENT" /\ pc = "load"
  BY DEF Init, NoEvent, BlankEvent
<1>3. Planned(proj)
  BY <1>1 DEF Planned
<1>4. Budget(proj, MaxAttempts)
  BY <1>1, NoActivityIsNone, OrderIsOneToOne DEF Budget
<1> QED
  BY <1>2, <1>3, <1>4 DEF ProgressInv, Within

\* A workflow that awaits nothing closed knows the stored history.
LEMMA KnowsHistory ==
    ASSUME Inv, pc \in {"drive", "retry_sleep", "scheduled", "replied"}
    PROVE  state = proj
BY DEF Inv, Sync, Closed, ClosedPcs

\* The workflow keeps plan and budget.
LEMMA ProgressWorkflow ==
    ASSUME Inv, Heard, ProgressInv, Workflow
    PROVE  ProgressInv'
<1>m. MaxAttempts \in Nat \ {0}
  BY CanaryAssumption
<1>t. /\ proj \in StateType /\ outbox \in EventType /\ proj.attempts \in [Activities -> Nat]
      /\ proj.attempt \in Nat
      /\ \A a \in Activities : proj.attempts[a] \in Nat
  BY DEF Inv, TypeOK, StateType
<1>1. WorkflowStep
  BY WorkflowMoves
<1>2. pc' = "retry_sleep" => state'.retry /\ state'.current = NoActivity
  <2>1. CASE Sleep
    BY <2>1 DEF Sleep, Between
  <2>2. CASE pc = "retry_sleep" /\ state' = state
    BY <2>2 DEF ProgressInv, Within
  <2> QED
    BY <1>1, <2>1, <2>2 DEF WorkflowStep
<1>3. CASE CommitAppend
  <2>1. /\ Accepts(proj, outbox) /\ proj' = ApplyEvent(proj, outbox) /\ outbox' = outbox
    BY <1>3 DEF CommitAppend, CanAppend, driver
  <2>2. outbox.type = "ACTIVITY_ATTEMPT_FAILED" /\ outbox.retry => outbox.attempt < MaxAttempts
    BY DEF ProgressInv, Within
  <2>3. Planned(proj') /\ Budget(proj', MaxAttempts)
    BY <1>m, <1>t, <2>1, <2>2, ProgressKept DEF ProgressInv
  <2>4. ~IsTerminal(proj)
    BY <2>1 DEF Accepts
  <2> QED
    BY <1>2, <2>1, <2>3, <2>4 DEF ProgressInv, Within, Planned, Budget, NextActivity, IsTerminal
<1>4. CASE ~CommitAppend
  <2>1. proj' = proj
    BY <1>1, <1>4 DEF WorkflowStep
  <2>2. CASE outbox' = outbox
    BY <1>2, <2>1, <2>2 DEF ProgressInv, Within, Planned, Budget, NextActivity, IsTerminal
  <2>3. CASE outbox'.type \notin {"ACTIVITY_STARTED", "ACTIVITY_ATTEMPT_FAILED",
                                  "ACTIVITY_COMPLETED"}
    BY <1>2, <2>1, <2>3 DEF ProgressInv, Within, Planned, Budget, NextActivity, IsTerminal
  <2>4. CASE SendStart /\ outbox' = StartEvent(state)
    <3>1. state = proj
      BY <2>4, KnowsHistory DEF SendStart
    <3>2. NextActivity(proj) \in Activities
      BY <2>4, <3>1, NextActivityType DEF SendStart, Between, AllDone, Inv, Waits
    <3>3. proj.next \in Steps /\ NextActivity(proj) = ActivityOrder[proj.next]
      BY <3>2, NoActivityIsNone DEF NextActivity
    <3>4. proj.current = NoActivity
      BY <2>4, <3>1 DEF SendStart, Between, ProgressInv, Within
    <3>5. proj.retry \/ proj.pending = NoFailure
      BY <2>4, <3>1 DEF SendStart, Between, Stopped, ProgressInv, Within
    <3>6. IsTerminal(proj) \/ proj.attempts[ActivityOrder[proj.next]] < MaxAttempts
      BY <1>m, <3>3, <3>4, <3>5 DEF ProgressInv, Budget
    <3>7. /\ outbox'.type = "ACTIVITY_STARTED"
          /\ outbox'.attempt = proj.attempts[NextActivity(proj)] + 1
      BY <2>4, <3>1, EventNames
    <3>8. IsTerminal(proj) \/ outbox'.attempt <= MaxAttempts
      BY <1>m, <1>t, <3>2, <3>3, <3>6, <3>7
    <3> QED
      BY <1>2, <2>1, <3>7, <3>8 DEF ProgressInv, Within, Planned, Budget, NextActivity, IsTerminal
  <2>5. CASE HandleFailure /\ outbox' = AttemptFailureEvent(state, reply.answer.failure)
    <3>1. /\ outbox'.type = "ACTIVITY_ATTEMPT_FAILED" /\ outbox'.attempt = state.attempt
          /\ outbox'.retry = (reply.answer.failure.retryable /\ state.attempt < MaxAttempts)
      BY <2>5, EventNames
    <3> QED
      BY <1>2, <2>1, <3>1 DEF ProgressInv, Within, Planned, Budget, NextActivity, IsTerminal
  <2>6. CASE HandleOutcome /\ outbox' = CompletionEvent(state, reply.answer)
    <3>1. outbox'.type = "ACTIVITY_COMPLETED"
      BY <2>6, EventNames
    <3> QED
      BY <1>2, <2>1, <3>1 DEF ProgressInv, Within, Planned, Budget, NextActivity, IsTerminal
  <2> QED
    BY <1>1, <2>2, <2>3, <2>4, <2>5, <2>6 DEF WorkflowStep
<1> QED
  BY <1>3, <1>4

\* Every step keeps them.
LEMMA ProgressHolds == Inv /\ StoreInv /\ ProgressInv /\ [Next]_vars => ProgressInv'
<1> SUFFICES ASSUME Inv, StoreInv, ProgressInv, [Next]_vars PROVE ProgressInv'
  OBVIOUS
<1>s. ASSUME proj' = proj, outbox' = outbox, state' = state, pc' = pc \/ pc' = "replied"
      PROVE  ProgressInv'
  BY <1>s DEF ProgressInv, Within, Planned, Budget, NextActivity, IsTerminal
<1>1. CASE Workflow
  BY <1>1, ProgressWorkflow DEF StoreInv
<1>2. CASE \E a \in Activities : LeaseExpires(a)
  BY <1>2, <1>s DEF LeaseExpires, driver, store
<1>3. CASE \E w \in workers : Worker(w)
  BY <1>3, <1>s, WorkerMoves DEF WorkerStep, ReplyMove, StoreInv
<1>4. CASE UNCHANGED vars
  BY <1>4, <1>s DEF vars, driver, store
<1> QED
  BY <1>1, <1>2, <1>3, <1>4 DEF Next

----------------------------------------------------------------------------
(* What is published was measured.                                         *)

Measures(e, r) ==
    e.type = "ACTIVITY_COMPLETED" /\ e.act \in {"PREFLIGHT", "EXECUTE"} /\ e.ref = r
Measured(log, r) == \E i \in 1..Len(log) : Measures(log[i], r)

\* From NORMALIZE on the reference is a measured one and is only handed on: by
\* the workers, by the rows, by what is published.
Carried ==
    /\ proj.next >= 4 => proj.ref # NoRef /\ Measured(journal, proj.ref)
    /\ \A w \in workers : w.act \in Later =>
        /\ proj.next >= 4 /\ w.input = proj.ref
        /\ w.pc = "completing" => w.answer.ref = proj.ref
    /\ \A a \in Later : exec[a].status # "NONE" =>
        /\ proj.next >= 4 /\ exec[a].input = proj.ref
        /\ exec[a].status = "SUCCEEDED" => exec[a].answer.ref = proj.ref
    /\ result # NoRef => proj.next >= 4 /\ result = proj.ref

\* Nobody gets past PERSIST without a published result.
Published ==
    /\ \A w \in workers : w.act = "PERSIST" /\ w.pc = "completing" => result # NoRef
    /\ exec["PERSIST"].status = "SUCCEEDED" => result # NoRef
    /\ proj.next > 6 => result # NoRef

PublishInv == Carried /\ Published

\* Nothing is published at first.
LEMMA InitPublish == Init => PublishInv
<1> SUFFICES ASSUME Init PROVE PublishInv
  OBVIOUS
<1>1. /\ proj.next = 1 /\ workers = {} /\ result = NoRef
      /\ \A a \in Activities : exec[a].status = "NONE"
  BY DEF Init, InitialState, Store!NoExecution
<1>2. "PERSIST" \in Activities
  BY ActivitiesListed
<1> QED
  BY <1>1, <1>2 DEF PublishInv, Carried, Published, Later

\* A stored event hands the reference on, or is the measurement it comes from.
LEMMA CommitCarries ==
    ASSUME Inv, StoreInv, ProgressInv, PublishInv, CommitAppend
    PROVE  /\ proj.next >= 4 => proj'.next >= 4 /\ proj'.ref = proj.ref
           /\ proj'.next >= 4 => proj'.ref # NoRef /\ Measured(journal', proj'.ref)
           /\ proj'.next > 6 => result # NoRef
<1>t. /\ proj \in StateType /\ outbox \in EventType /\ journal \in Seq(EventType)
      /\ proj.next \in 1..9
  BY DEF Inv, TypeOK, ProgressInv, Planned
<1>1. /\ Accepts(proj, outbox) /\ proj' = ApplyEvent(proj, outbox)
      /\ journal' = Append(journal, outbox)
  BY DEF CommitAppend, CanAppend
<1>2. /\ Len(journal) \in Nat /\ Len(journal') = Len(journal) + 1
      /\ journal'[Len(journal) + 1] = outbox
      /\ \A i \in 1..Len(journal) : journal'[i] = journal[i]
  BY <1>t, <1>1
<1>3. \A r : Measured(journal, r) => Measured(journal', r)
  BY <1>2 DEF Measured, Measures
<1>4. \A r : Measures(outbox, r) => Measured(journal', r)
  BY <1>2 DEF Measured
<1>5. CASE proj'.next = proj.next /\ proj'.ref = proj.ref
  BY <1>3, <1>5 DEF PublishInv, Carried, Published, Measured
<1>6. CASE outbox.type = "ACTIVITY_COMPLETED" /\ AcceptsCompletion(proj, outbox)
  <2>1. /\ outbox.act \in Activities /\ proj.current = outbox.act /\ outbox.ref # NoRef
    BY <1>6, <1>t DEF AcceptsCompletion, RequireCurrentActivity, EventType
  <2>2. /\ proj'.ref = outbox.ref
        /\ proj'.next = IF outbox.act = "PREFLIGHT" /\ outbox.outcome = "TARGET_FAILED"
                        THEN NormalizeIndex ELSE proj.next + 1
    BY <1>1, <1>6, <1>t, <2>1, PlanApplied, CompletionApplied
  <2>3. proj.next \in Steps /\ outbox.act = ActivityOrder[proj.next]
    BY <2>1, NoActivityIsNone DEF NextActivity, ProgressInv, Budget
  <2>4. proj.next < 4 <=> outbox.act \in {"VALIDATE", "PREFLIGHT", "EXECUTE"}
    BY <2>3, OrderIsOneToOne
  <2>5. CASE proj.next >= 4
    <3>1. outbox.act \in Later /\ outbox.act # "PREFLIGHT"
      BY <1>t, <2>1, <2>4, <2>5 DEF Later
    <3>2. exec[outbox.act].status = "SUCCEEDED" /\ exec[outbox.act].answer.ref = outbox.ref
      BY <1>6, RealFailures DEF StoreInv, Heard, Backed
    <3>3. outbox.ref = proj.ref
      BY <3>1, <3>2 DEF PublishInv, Carried
    <3>4. proj'.next = proj.next + 1
      BY <2>2, <3>1
    <3>5. proj'.next > 6 => result # NoRef
      <4>1. CASE proj.next > 6
        BY <4>1 DEF PublishInv, Published
      <4>2. CASE proj.next = 6
        <5>1. outbox.act = "PERSIST"
          BY <2>3, <4>2, OrderIsOneToOne
        <5> QED
          BY <3>2, <5>1 DEF PublishInv, Published
      <4> QED
        BY <1>t, <3>4, <4>1, <4>2
    <3>6. Measured(journal, proj.ref) /\ proj.ref # NoRef
      BY <2>5 DEF PublishInv, Carried
    <3>7. Measured(journal', proj'.ref)
      BY <1>3, <2>2, <3>3, <3>6 DEF Measured
    <3> QED
      BY <1>t, <2>2, <2>5, <3>3, <3>4, <3>5, <3>6, <3>7
  <2>6. CASE proj.next < 4
    <3>1. proj'.next <= 4
      BY <1>t, <2>2, <2>6 DEF NormalizeIndex
    <3>2. proj'.next >= 4 => outbox.act \in {"PREFLIGHT", "EXECUTE"}
      <4>1. CASE outbox.act = "PREFLIGHT"
        BY <4>1
      <4>2. CASE outbox.act # "PREFLIGHT"
        <5>1. proj'.next >= 4 => proj.next = 3
          BY <1>t, <2>2, <2>6, <4>2
        <5> QED
          BY <2>3, <5>1, OrderIsOneToOne
      <4> QED
        BY <4>1, <4>2
    <3>3. proj'.next >= 4 => Measured(journal', proj'.ref)
      BY <1>4, <1>6, <2>2, <3>2 DEF Measured, Measures
    <3>4. proj'.next \in Nat /\ proj.next \in Nat
      BY <1>t, <2>2 DEF NormalizeIndex
    <3> QED
      BY <2>1, <2>2, <2>6, <3>1, <3>3, <3>4
  <2> QED
    BY <1>t, <2>5, <2>6
<1>7. CASE outbox.type = "WORKFLOW_STARTED"
  BY <1>1, <1>5, <1>7, <1>t, PlanApplied, RunStartApplied
<1>8. CASE outbox.type = "ACTIVITY_STARTED" /\ AcceptsActivityStart(proj, outbox)
  <2>1. outbox.act \in Activities
    BY <1>8, <1>t DEF AcceptsActivityStart, EventType
  <2> QED
    BY <1>1, <1>5, <1>8, <1>t, <2>1, PlanApplied, ActivityStartApplied
<1>9. CASE outbox.type = "ACTIVITY_ATTEMPT_FAILED"
  BY <1>1, <1>5, <1>9, <1>t, PlanApplied, AttemptFailureApplied
<1>10. CASE outbox.type \in FailureTerminals
  BY <1>1, <1>5, <1>10, <1>t, PlanApplied, FailureTerminalApplied
<1>11. CASE outbox.type = "WORKFLOW_SUCCEEDED"
  BY <1>1, <1>5, <1>11, <1>t, PlanApplied, SuccessApplied
<1> QED
  BY <1>t, <1>1, <1>6, <1>7, <1>8, <1>9, <1>10, <1>11, AcceptedEvent

\* The workflow keeps it: a delivery is given the reference of the history.
LEMMA PublishWorkflow ==
    ASSUME Inv, StoreInv, ProgressInv, PublishInv, Workflow
    PROVE  PublishInv'
<1>1. WorkflowStep
  BY WorkflowMoves DEF StoreInv
<1>2. CASE CommitAppend
  <2>1. exec' = exec /\ result' = result /\ workers' = workers
    BY <1>2 DEF CommitAppend, rows
  <2>2. /\ proj.next >= 4 => proj'.next >= 4 /\ proj'.ref = proj.ref
        /\ proj'.next >= 4 => proj'.ref # NoRef /\ Measured(journal', proj'.ref)
        /\ proj'.next > 6 => result # NoRef
    BY <1>2, CommitCarries
  <2>3. Carried'
    BY <2>1, <2>2 DEF PublishInv, Carried, Measured
  <2>4. Published'
    BY <2>1, <2>2 DEF PublishInv, Published
  <2> QED
    BY <2>3, <2>4 DEF PublishInv
<1>3. CASE Deliver
  <2>1. /\ exec' = exec /\ result' = result /\ workers' = workers \cup {NewWorker}
        /\ journal' = journal /\ proj' = proj /\ pc = "scheduled"
    BY <1>3 DEF Deliver, rows, store
  <2>2. state = proj /\ state.current \in Activities
    BY <2>1, KnowsHistory DEF Inv, Waits
  <2>3. proj.next \in Steps /\ proj.current = ActivityOrder[proj.next]
    BY <2>2, NoActivityIsNone DEF NextActivity, ProgressInv, Budget
  <2>4. NewWorker.act = proj.current /\ NewWorker.input = proj.ref /\ NewWorker.pc = "claiming"
    BY <2>2 DEF NewWorker
  <2>5. proj.current \in Later => proj.next >= 4
    BY <2>3, OrderIsOneToOne DEF Later, Steps
  <2>6. Carried'
    BY <2>1, <2>4, <2>5 DEF PublishInv, Carried, Measured
  <2>7. Published'
    BY <2>1, <2>4 DEF PublishInv, Published
  <2> QED
    BY <2>6, <2>7 DEF PublishInv
<1>4. CASE ~CommitAppend /\ ~Deliver
  <2>1. /\ exec' = exec /\ result' = result /\ workers' = workers
        /\ journal' = journal /\ proj' = proj
    BY <1>1, <1>4 DEF WorkflowStep
  <2> QED
    BY <2>1 DEF PublishInv, Carried, Published, Measured
<1> QED
  BY <1>2, <1>3, <1>4

\* The workers keep it: none of them says anything else than it was given.
LEMMA PublishWorker ==
    ASSUME Inv, StoreInv, PublishInv, NEW w \in workers, Worker(w)
    PROVE  PublishInv'
<1>1. WorkerStep(w)
  BY WorkerMoves DEF StoreInv
<1>2. /\ RowMove(w) /\ WorkerMove(w) /\ ResultMove(w)
      /\ proj' = proj /\ journal' = journal
  BY <1>1 DEF WorkerStep
<1>3. w.act \in Activities /\ Later \subseteq Activities /\ "PERSIST" \in Later
  BY ActivitiesListed DEF Inv, TypeOK, WorkerType, Later
<1>4. w.act \in Later =>
        /\ proj.next >= 4 /\ w.input = proj.ref
        /\ w.pc = "completing" => w.answer.ref = proj.ref
  BY DEF PublishInv, Carried
<1>5. proj.next >= 4 => proj.ref # NoRef
  BY DEF PublishInv, Carried
<1>6. /\ result # NoRef => result' = result
      /\ result' # NoRef => proj.next >= 4 /\ result' = proj.ref
  BY <1>2, <1>3, <1>4 DEF ResultMove, PublishInv, Carried
<1>7. ASSUME NEW v \in workers', v.act \in Later
      PROVE  /\ proj.next >= 4 /\ v.input = proj.ref
             /\ v.pc = "completing" => v.answer.ref = proj.ref
  <2>1. CASE v \in workers
    BY <1>7, <2>1 DEF PublishInv, Carried
  <2>2. CASE v.act = w.act /\ v.input = w.input /\ Speaks(w, v)
    BY <1>4, <1>7, <2>2 DEF Speaks, Later
  <2> QED
    BY <1>2, <1>7, <2>1, <2>2 DEF WorkerMove
<1>8. ASSUME NEW a \in Later, exec'[a].status # "NONE"
      PROVE  /\ proj.next >= 4 /\ exec'[a].input = proj.ref
             /\ exec'[a].status = "SUCCEEDED" => exec'[a].answer.ref = proj.ref
  <2>1. CASE exec'[a] = exec[a]
    BY <1>8, <2>1 DEF PublishInv, Carried
  <2>2. CASE exec'[a] # exec[a]
    <3>1. a = w.act
      BY <1>2, <1>3, <1>8, <2>2 DEF RowMove
    <3> QED
      BY <1>2, <1>4, <1>8, <2>2, <3>1 DEF RowMove
  <2> QED
    BY <2>1, <2>2
<1>9. Carried'
  BY <1>2, <1>6, <1>7, <1>8 DEF PublishInv, Carried, Measured
<1>10. ASSUME NEW v \in workers', v.act = "PERSIST", v.pc = "completing"
       PROVE  result' # NoRef
  <2>1. CASE v \in workers
    BY <1>6, <1>10, <2>1 DEF PublishInv, Published
  <2>2. CASE v.act = w.act /\ v.input = w.input /\ Speaks(w, v)
    BY <1>6, <1>10, <2>2 DEF Speaks, PublishInv, Published
  <2> QED
    BY <1>2, <1>10, <2>1, <2>2 DEF WorkerMove
<1>11. ASSUME exec'["PERSIST"].status = "SUCCEEDED"
       PROVE  result' # NoRef
  <2>1. CASE exec'["PERSIST"] = exec["PERSIST"]
    BY <1>6, <1>11, <2>1 DEF PublishInv, Published
  <2>2. CASE exec'["PERSIST"] # exec["PERSIST"]
    <3>1. w.act = "PERSIST" /\ w.pc = "completing"
      BY <1>2, <1>3, <1>11, <2>2 DEF RowMove
    <3> QED
      BY <1>6, <3>1 DEF PublishInv, Published
  <2> QED
    BY <2>1, <2>2
<1>12. Published'
  BY <1>2, <1>6, <1>10, <1>11 DEF PublishInv, Published
<1> QED
  BY <1>9, <1>12 DEF PublishInv

\* Every step keeps it.
LEMMA PublishKept == Inv /\ StoreInv /\ ProgressInv /\ PublishInv /\ [Next]_vars => PublishInv'
<1> SUFFICES ASSUME Inv, StoreInv, ProgressInv, PublishInv, [Next]_vars PROVE PublishInv'
  OBVIOUS
<1>1. CASE Workflow
  BY <1>1, PublishWorkflow
<1>2. CASE \E a \in Activities : LeaseExpires(a)
  BY <1>2 DEF LeaseExpires, driver, store, PublishInv, Carried, Published, Measured
<1>3. CASE \E w \in workers : Worker(w)
  BY <1>3, PublishWorker
<1>4. CASE UNCHANGED vars
  BY <1>4 DEF vars, driver, store, rows, PublishInv, Carried, Published, Measured
<1> QED
  BY <1>1, <1>2, <1>3, <1>4 DEF Next

----------------------------------------------------------------------------
(* The refinement: what the journal shows is a run of CanaryRun.           *)

\* The plan of CanaryRun, position by position, in the words of the projection.
LEMMA PlanIsOrder ==
    /\ Len(Promise!FullPlan) = 8 /\ Len(Promise!ShortPlan) = 7
    /\ \A k \in 1..8 : Promise!FullPlan[k] = ActivityOrder[k]
    /\ \A k \in 4..8 : Promise!ShortPlan[k - 1] = ActivityOrder[k]
<1>1. \A i \in 1..8 : i = 1 \/ i = 2 \/ i = 3 \/ i = 4 \/ i = 5 \/ i = 6 \/ i = 7 \/ i = 8
  OBVIOUS
<1>2. \A i \in 4..8 : i = 4 \/ i = 5 \/ i = 6 \/ i = 7 \/ i = 8
  OBVIOUS
<1>3. Promise!FullPlan = ActivityOrder
  BY DEF Promise!FullPlan, ActivityOrder
<1>4. \A k \in 4..8 : Promise!ShortPlan[k - 1] = ActivityOrder[k]
  BY <1>2 DEF Promise!ShortPlan, ActivityOrder
<1> QED
  BY <1>3, <1>4 DEF ActivityOrder, Promise!ShortPlan

\* What is due is the next activity, and nothing is when the plan is through.
LEMMA DueIsNext ==
    ASSUME proj \in StateType, Planned(proj)
    PROVE  /\ Promise!AllDone <=> proj.next = 9
           /\ proj.next \in Steps => Promise!Due = ActivityOrder[proj.next]
<1>1. /\ Len(proj.completed) \in Nat /\ proj.next \in 1..9
      /\ \/ proj.next = Len(proj.completed) + 1
         \/ proj.next = Len(proj.completed) + 2 /\ proj.next >= 4
  BY DEF StateType, Planned
<1>2. CASE proj.next = Len(proj.completed) + 1
  <2>1. Promise!Plan = Promise!FullPlan
    BY <1>1, <1>2 DEF Promise!Plan
  <2>2. Len(proj.completed) = proj.next - 1
    BY <1>1, <1>2
  <2>3. Promise!AllDone <=> proj.next = 9
    BY <1>1, <2>1, <2>2, PlanIsOrder DEF Promise!AllDone
  <2>4. proj.next \in Steps => Promise!Due = ActivityOrder[proj.next]
    BY <1>2, <2>1, PlanIsOrder DEF Promise!Due, Steps
  <2> QED
    BY <2>3, <2>4
<1>3. CASE proj.next = Len(proj.completed) + 2 /\ proj.next >= 4
  <2>1. Promise!Plan = Promise!ShortPlan
    BY <1>3 DEF Promise!Plan
  <2>2. Len(proj.completed) = proj.next - 2
    BY <1>1, <1>3
  <2>3. Promise!AllDone <=> proj.next = 9
    BY <1>1, <2>1, <2>2, PlanIsOrder DEF Promise!AllDone
  <2>4. proj.next \in Steps => proj.next \in 4..8 /\ Len(proj.completed) + 1 = proj.next - 1
    BY <1>1, <1>3, <2>2 DEF Steps
  <2>5. proj.next \in Steps => Promise!Due = ActivityOrder[proj.next]
    BY <2>1, <2>4, PlanIsOrder DEF Promise!Due
  <2> QED
    BY <2>3, <2>5
<1> QED
  BY <1>1, <1>2, <1>3

\* An initial state shows an initial state.
LEMMA InitPromise == Init => Promise!Init
<1> SUFFICES ASSUME Init PROVE Promise!Init
  OBVIOUS
<1>1. /\ proj.status = "NOT_STARTED" /\ proj.completed = << >> /\ proj.next = 1
      /\ proj.attempts = [a \in Activities |-> 0]
  BY DEF Init, InitialState
<1>2. {Promise!FullPlan[k] : k \in 1..8} = Activities
  BY PlanIsOrder DEF Activities, Steps
<1>3. (proj.next = Len(proj.completed) + 2) = FALSE
  BY <1>1
<1> QED
  BY <1>1, <1>2, <1>3 DEF Promise!Init

\* A move of the plan is a step of CanaryRun, or none.
LEMMA MoveIsPromised ==
    ASSUME proj \in StateType, proj' \in StateType, Planned(proj), Planned(proj)',
           Moves(proj, proj', MaxAttempts)
    PROVE  [Promise!Next]_(Promise!vars)
<1>l. /\ Len(proj.completed) \in Nat /\ Len(proj'.completed) \in Nat
      /\ proj.completed \in Seq(Activities)
      /\ proj.next \in 1..9
  BY DEF StateType, Planned
<1>k. proj.next \in Steps => proj.next # 9
  BY DEF Steps
<1>s. proj'.next = proj.next /\ proj'.completed = proj.completed =>
        (proj'.next = Len(proj'.completed) + 2) = (proj.next = Len(proj.completed) + 2)
  OBVIOUS
<1>d. /\ Promise!AllDone <=> proj.next = 9
      /\ proj.next \in Steps => Promise!Due = ActivityOrder[proj.next]
  BY DueIsNext
<1>1. CASE BeginsRun(proj, proj')
  <2>1. Promise!Begin
    BY <1>1, <1>s DEF BeginsRun, Promise!Begin
  <2> QED
    BY <2>1 DEF Promise!Next
<1>2. CASE TriesNext(proj, proj', MaxAttempts)
  <2>1. Promise!Try
    BY <1>2, <1>s, <1>d, <1>k DEF TriesNext, Promise!Try
  <2> QED
    BY <2>1 DEF Promise!Next
<1>3. CASE FinishesNext(proj, proj')
  <2>1. /\ proj.next \in Steps /\ Promise!Due = ActivityOrder[proj.next]
        /\ proj'.completed = Append(proj.completed, Promise!Due) /\ ~Promise!AllDone
        /\ proj.attempts[Promise!Due] > 0
        /\ proj.status = "RUNNING" /\ proj'.status = proj.status
        /\ proj'.attempts = proj.attempts
    BY <1>3, <1>d, <1>k DEF FinishesNext
  <2>2. Len(proj'.completed) = Len(proj.completed) + 1
    BY <1>l, <2>1
  <2>3. (proj'.next = Len(proj'.completed) + 2) \in
            IF Promise!Due = "PREFLIGHT" THEN BOOLEAN
            ELSE {proj.next = Len(proj.completed) + 2}
    <3>1. CASE Promise!Due = "PREFLIGHT"
      BY <3>1
    <3>2. CASE Promise!Due # "PREFLIGHT"
      <4>1. proj.next # 2
        BY <2>1, <3>2, OrderIsOneToOne
      <4>2. proj'.next = proj.next + 1
        BY <1>3, <4>1 DEF FinishesNext
      <4>3. (proj'.next = Len(proj'.completed) + 2) <=> (proj.next = Len(proj.completed) + 2)
        BY <1>l, <2>2, <4>2
      <4> QED
        BY <3>2, <4>3
    <3> QED
      BY <3>1, <3>2
  <2>4. Promise!Finish
    BY <2>1, <2>3 DEF Promise!Finish
  <2> QED
    BY <2>4 DEF Promise!Next
<1>4. CASE EndsRun(proj, proj')
  <2>1. CASE proj'.status = "SUCCEEDED"
    <3>1. Promise!Succeed
      BY <1>4, <1>s, <1>d, <2>1 DEF EndsRun, Promise!Succeed
    <3> QED
      BY <3>1 DEF Promise!Next
  <2>2. CASE proj'.status # "SUCCEEDED"
    <3>1. proj'.status \in {"FAILED", "REJECTED", "CANCELLED"}
      BY <1>4, <2>2 DEF EndsRun, TerminalStatuses
    <3>2. Promise!Stop
      BY <1>4, <1>s, <3>1 DEF EndsRun, Promise!Stop
    <3> QED
      BY <3>2 DEF Promise!Next
  <2> QED
    BY <2>1, <2>2
<1>5. CASE RestsAsIs(proj, proj')
  BY <1>5, <1>s DEF RestsAsIs, Promise!vars
<1> QED
  BY <1>1, <1>2, <1>3, <1>4, <1>5 DEF Moves

\* Every step shows a step of CanaryRun, or none.
LEMMA StepIsPromised ==
    ASSUME Inv, Inv', StoreInv, ProgressInv, ProgressInv', [Next]_vars
    PROVE  [Promise!Next]_(Promise!vars)
<1>s. proj' = proj => UNCHANGED Promise!vars
  BY DEF Promise!vars
<1>1. CASE CommitAppend
  <2>1. /\ proj \in StateType /\ proj' \in StateType /\ outbox \in EventType
        /\ Planned(proj) /\ Planned(proj)' /\ Budget(proj, MaxAttempts) /\ MaxAttempts \in Nat
    BY CanaryAssumption DEF Inv, TypeOK, ProgressInv
  <2>2. Accepts(proj, outbox) /\ proj' = ApplyEvent(proj, outbox)
    BY <1>1 DEF CommitAppend, CanAppend
  <2>3. outbox.type = "ACTIVITY_STARTED" => outbox.attempt <= MaxAttempts
    BY <2>2 DEF ProgressInv, Within, Accepts
  <2>4. Moves(proj, proj', MaxAttempts)
    BY <2>1, <2>2, <2>3, ProgressMoves
  <2> QED
    BY <2>1, <2>4, MoveIsPromised
<1>2. CASE ~CommitAppend
  <2>1. proj' = proj
    BY <1>2, WhoMoves DEF HistoryKept, Deliver, store
  <2> QED
    BY <1>s, <2>1
<1> QED
  BY <1>1, <1>2

----------------------------------------------------------------------------
(* Whatever the workflow waits for comes.                                  *)

\* What a workflow waits for is on its way.  The event of an append is stored, or accepted
\* by Python and by SQL; a step is some worker's; a reply says something; and what the
\* workflow returned is how the run ended.
NobodyWaitsInVain ==
    /\ pc = "append" => Stored(journal, outbox) \/ CanAppend(run, proj, outbox)
    /\ pc = "step" => \E w \in workers : Awaited(w)
    /\ pc = "replied" => reply.kind # "NONE"
    /\ pc = "COMPLETED" => IsTerminal(proj) /\ proj = state

\* A history begins with WORKFLOW_STARTED, is in the phase of its activity, and knows the
\* code of a failure it has not dealt with.
Told(s) ==
    /\ s.status = "NOT_STARTED" <=> s.seq = 0
    /\ s.current \in Activities => s.phase = s.current
    /\ s.pending = NoFailure \/ Real(s.pending)

Driving == {"drive", "retry_sleep", "busy_sleep", "scheduled", "step", "replied"}

\* The workflow drives a running history, appends what follows it, and goes on or returns
\* by what it has appended.
Driven ==
    /\ pc = "load" => proj.seq = 0
    /\ pc \in Driving => proj.status = "RUNNING"
    /\ pc = "append" => /\ Accepts(state, outbox)
                        /\ after = "drive" <=> outbox.type \notin WorkflowTerminals
    /\ outbox.type = "ACTIVITY_ATTEMPT_FAILED" => Real(outbox.failure)
    /\ pc = "step" => \E w \in workers : Awaited(w)
    /\ pc = "replied" => reply.kind # "NONE"
    /\ reply.kind = "FAILED" => Real(reply.answer.failure)
    /\ pc = "COMPLETED" => IsTerminal(proj) /\ proj = state

DriveInv == Told(proj) /\ Driven

\* A run is not waited for before it begins.
LEMMA InitDrive == Init => DriveInv
BY NoActivityIsNone DEF Init, DriveInv, Told, Driven, Driving, InitialState, NoEvent,
   BlankEvent, NoReply

\* An accepted event keeps a history told, and ends it when it is a terminal one.
LEMMA ToldOn ==
    ASSUME NEW s \in StateType, NEW e \in EventType, Accepts(s, e), Told(s),
           e.type = "ACTIVITY_ATTEMPT_FAILED" => Real(e.failure)
    PROVE  LET t == ApplyEvent(s, e) IN
           /\ Told(t)
           /\ e.type \in WorkflowTerminals => IsTerminal(t)
           /\ e.type \notin WorkflowTerminals => t.status = "RUNNING"
<1> DEFINE t == ApplyEvent(s, e)
<1> SUFFICES /\ Told(t)
             /\ e.type \in WorkflowTerminals => IsTerminal(t)
             /\ e.type \notin WorkflowTerminals => t.status = "RUNNING"
  OBVIOUS
<1>1. s.seq \in Nat /\ e.seq = s.seq + 1 /\ t.seq = e.seq
  BY ApplyEventType, AcceptedEvent DEF StateType
<1>2. e.seq # 0
  BY <1>1
<1>3. CASE e.type = "WORKFLOW_STARTED"
  <2>1. /\ t.status = "RUNNING" /\ t.phase = s.phase /\ t.current = s.current
    BY <1>3, RunStartApplied
  <2>2. t.pending = s.pending
    BY <1>3 DEF ApplyEvent, FailureTerminals, StateType
  <2>3. e.type \notin WorkflowTerminals
    BY <1>3 DEF WorkflowTerminals, FailureTerminals
  <2> HIDE DEF t
  <2> QED BY <1>1, <1>2, <2>1, <2>2, <2>3 DEF Told
<1>4. CASE e.type = "ACTIVITY_STARTED" /\ s.status = "RUNNING" /\ AcceptsActivityStart(s, e)
  <2>1. e.act \in Activities /\ e.phase = e.act
    BY <1>4 DEF AcceptsActivityStart, EventType
  <2>2. t.status = "RUNNING" /\ t.phase = e.phase /\ t.current = e.act
    BY <1>4, <2>1, ActivityStartApplied
  <2>3. t.pending = NoFailure
    BY <1>4 DEF ApplyEvent, ApplyActivityStart, FailureTerminals, StateType
  <2>4. e.type \notin WorkflowTerminals
    BY <1>4 DEF WorkflowTerminals, FailureTerminals
  <2> HIDE DEF t
  <2> QED BY <1>1, <1>2, <2>1, <2>2, <2>3, <2>4 DEF Told
<1>5. CASE e.type = "ACTIVITY_ATTEMPT_FAILED" /\ s.status = "RUNNING"
  <2>1. t.status = "RUNNING" /\ t.current = NoActivity
    BY <1>5, AttemptFailureApplied
  <2>2. t.pending = e.failure
    BY <1>5 DEF ApplyEvent, ApplyAttemptFailure, FailureTerminals, StateType
  <2>3. e.type \notin WorkflowTerminals
    BY <1>5 DEF WorkflowTerminals, FailureTerminals
  <2> HIDE DEF t
  <2> QED BY <1>1, <1>2, <1>5, <2>1, <2>2, <2>3, NoActivityIsNone DEF Told
<1>6. CASE e.type = "ACTIVITY_COMPLETED" /\ s.status = "RUNNING" /\ AcceptsCompletion(s, e)
  <2>1. e.act \in Activities
    BY <1>6 DEF AcceptsCompletion, RequireCurrentActivity, EventType
  <2>2. t.status = "RUNNING" /\ t.current = NoActivity
    BY <1>6, <2>1, CompletionApplied
  <2>3. t.pending = NoFailure
    BY <1>6 DEF ApplyEvent, ApplyCompletion, FailureTerminals, StateType
  <2>4. e.type \notin WorkflowTerminals
    BY <1>6 DEF WorkflowTerminals, FailureTerminals
  <2> HIDE DEF t
  <2> QED BY <1>1, <1>2, <2>2, <2>3, <2>4, NoActivityIsNone DEF Told
<1>7. CASE e.type \in FailureTerminals
  <2>1. t.status = StatusOf(e.type) /\ t.current = NoActivity
    BY <1>7, FailureTerminalApplied
  <2>2. t.pending = NoFailure
    BY <1>7 DEF ApplyEvent, ApplyFailureTerminal, FailureTerminals, StateType
  <2>3. StatusOf(e.type) \in TerminalStatuses /\ e.type \in WorkflowTerminals
    BY <1>7 DEF StatusOf, TerminalStatuses, FailureTerminals, WorkflowTerminals
  <2>4. "NOT_STARTED" \notin TerminalStatuses
    BY DEF TerminalStatuses
  <2> HIDE DEF t
  <2> QED BY <1>1, <1>2, <2>1, <2>2, <2>3, <2>4, NoActivityIsNone DEF Told, IsTerminal
<1>8. CASE e.type = "WORKFLOW_SUCCEEDED" /\ AcceptsSuccess(s, e)
  <2>1. t.status = "SUCCEEDED" /\ t.current = s.current
    BY <1>8, SuccessApplied
  <2>2. t.pending = s.pending
    BY <1>8 DEF ApplyEvent, FailureTerminals, StateType
  <2>3. s.current = NoActivity /\ e.type \in WorkflowTerminals
    BY <1>8 DEF AcceptsSuccess, WorkflowTerminals
  <2> HIDE DEF t
  <2> QED BY <1>1, <1>2, <2>1, <2>2, <2>3, NoActivityIsNone DEF Told, IsTerminal, TerminalStatuses
<1> QED BY <1>3, <1>4, <1>5, <1>6, <1>7, <1>8, AcceptedEvent

\* PostgreSQL accepts what Python accepts, where row and projection agree.
LEMMA SqlFollows ==
    ASSUME NEW s \in StateType, NEW e \in EventType, RowAgrees(run, s), Told(s), Accepts(s, e)
    PROVE  CanAppend(run, s, e)
<1>1. s.seq \in Nat /\ e.seq = s.seq + 1 /\ run.seq = s.seq
  BY AcceptedEvent DEF StateType, RowAgrees
<1>2. run.status = "RUNNING" /\ (run.seq = 0 <=> e.type = "WORKFLOW_STARTED")
  BY <1>1, AcceptedEvent DEF Told, RowAgrees, FailureTerminals
<1>3. e.type = "ACTIVITY_COMPLETED" => e.ref # NoRef /\ e.outcome \in TargetStatuses
  BY AcceptedEvent DEF FailureTerminals, AcceptsCompletion
<1>4. e.type \in FailureTerminals => e.code # NoCode
  BY AcceptedEvent DEF FailureTerminals
<1> QED BY <1>1, <1>2, <1>3, <1>4 DEF CanAppend, SqlAccepts

\* The events by which a workflow starts and ends a run.
LEMMA RunEventsFit ==
    ASSUME NEW s \in StateType
    PROVE  /\ s.status = "NOT_STARTED" /\ s.seq = 0 => Accepts(s, StartedEvent(s))
           /\ s.status = "RUNNING" =>
                /\ \A type \in FailureTerminals : \A code :
                     code # NoCode => Accepts(s, StopEvent(s, type, code))
                /\ Accepts(s, CancelEvent(s))
                /\ NextActivity(s) = NoActivity /\ s.current = NoActivity =>
                     Accepts(s, SuccessEvent(s))
<1>1. s.status = "NOT_STARTED" /\ s.seq = 0 => Accepts(s, StartedEvent(s))
  BY DEF Accepts, StartedEvent, BlankEvent, IsTerminal, TerminalStatuses
<1>2. ASSUME s.status = "RUNNING", NEW type \in FailureTerminals, NEW code, code # NoCode
      PROVE  Accepts(s, StopEvent(s, type, code))
  <2>1. LET e == StopEvent(s, type, code) IN
        e.seq = s.seq + 1 /\ e.type = type /\ e.code = code
    BY DEF StopEvent, BlankEvent
  <2> QED BY <1>2, <2>1 DEF Accepts, IsTerminal, TerminalStatuses
<1>3. s.status = "RUNNING" => Accepts(s, CancelEvent(s))
  BY <1>2 DEF CancelEvent, FailureTerminals, NoCode
<1>4. s.status = "RUNNING" /\ NextActivity(s) = NoActivity /\ s.current = NoActivity =>
        Accepts(s, SuccessEvent(s))
  <2>1. LET e == SuccessEvent(s) IN
        e.seq = s.seq + 1 /\ e.type = "WORKFLOW_SUCCEEDED" /\ e.code = NoCode
    BY DEF SuccessEvent, BlankEvent
  <2> QED BY <2>1 DEF Accepts, AcceptsSuccess, IsTerminal, TerminalStatuses
<1> QED BY <1>1, <1>2, <1>3, <1>4

\* The events by which it drives one.
LEMMA ActivityEventsFit ==
    ASSUME NEW s \in StateType, s.status = "RUNNING", Told(s)
    PROVE  /\ s.current = NoActivity /\ NextActivity(s) \in Activities => Accepts(s, StartEvent(s))
           /\ s.current \in Activities =>
                /\ \A f : Real(f) => Accepts(s, AttemptFailureEvent(s, f))
                /\ \A ans : (/\ ans.outcome \in TargetStatuses /\ ans.ref # NoRef
                             /\ ans.outcome = "TARGET_FAILED" => s.current \in MayTargetFail)
                            => Accepts(s, CompletionEvent(s, ans))
<1>1. \A type, act, n : LET e == ActivityEvent(s, type, act, n) IN
        /\ e.seq = s.seq + 1 /\ e.type = type /\ e.phase = act /\ e.act = act /\ e.attempt = n
        /\ e.outcome = NoOutcome /\ e.ref = NoRef
  BY DEF ActivityEvent, BlankEvent
<1>2. ~IsTerminal(s)
  BY DEF IsTerminal, TerminalStatuses
<1>3. ASSUME s.current = NoActivity, NextActivity(s) \in Activities
      PROVE  Accepts(s, StartEvent(s))
  <2>1. LET e == StartEvent(s) IN
        /\ e.seq = s.seq + 1 /\ e.type = "ACTIVITY_STARTED" /\ e.act = NextActivity(s)
        /\ e.phase = e.act /\ e.attempt = s.attempts[e.act] + 1
    BY <1>1 DEF StartEvent
  <2> QED BY <1>2, <1>3, <2>1, NoActivityIsNone DEF Accepts, AcceptsActivityStart
<1>4. ASSUME s.current \in Activities, NEW f, Real(f)
      PROVE  Accepts(s, AttemptFailureEvent(s, f))
  <2>1. LET e == AttemptFailureEvent(s, f) IN
        /\ e.seq = s.seq + 1 /\ e.type = "ACTIVITY_ATTEMPT_FAILED" /\ e.act = s.current
        /\ e.phase = s.current /\ e.attempt = s.attempt /\ e.failure = f
        /\ e.outcome = NoOutcome /\ e.ref = NoRef
    BY DEF AttemptFailureEvent, ActivityEvent, BlankEvent
  <2> QED BY <1>2, <1>4, <2>1, NoActivityIsNone
          DEF Accepts, AcceptsAttemptFailure, RequireCurrentActivity, Told, Real
<1>5. ASSUME s.current \in Activities, NEW ans, ans.outcome \in TargetStatuses, ans.ref # NoRef,
             ans.outcome = "TARGET_FAILED" => s.current \in MayTargetFail
      PROVE  Accepts(s, CompletionEvent(s, ans))
  <2>1. LET e == CompletionEvent(s, ans) IN
        /\ e.seq = s.seq + 1 /\ e.type = "ACTIVITY_COMPLETED" /\ e.act = s.current
        /\ e.phase = s.current /\ e.attempt = s.attempt
        /\ e.outcome = ans.outcome /\ e.ref = ans.ref
    BY DEF CompletionEvent, ActivityEvent, BlankEvent
  <2> QED BY <1>2, <1>5, <2>1, NoActivityIsNone
          DEF Accepts, AcceptsCompletion, RequireCurrentActivity, Told
<1> QED BY <1>3, <1>4, <1>5

\* An append that fits keeps DriveInv.
LEMMA RecordDrives ==
    ASSUME Inv, DriveInv, NEW e, NEW then, Record(e, then), proj' = proj, Accepts(state', e),
           then = "drive" <=> e.type \notin WorkflowTerminals,
           e.type = "ACTIVITY_ATTEMPT_FAILED" => Real(e.failure),
           reply' \in {reply, NoReply}
    PROVE  DriveInv'
<1>1. pc' = "append" /\ outbox' = e /\ after' = then
  BY DEF Record
<1>2. reply'.kind = "FAILED" => Real(reply'.answer.failure)
  BY DEF NoReply, DriveInv, Driven
<1>3. Told(proj)'
  BY DEF DriveInv, Told
<1>4. Driven'
  BY <1>1, <1>2 DEF Driven, Driving
<1> QED BY <1>3, <1>4 DEF DriveInv

\* So does a move within the driving of a running history, or a close without a result.
LEMMA MoveDrives ==
    ASSUME DriveInv, pc' \in Pcs \ {"load", "append", "step", "replied", "COMPLETED"},
           pc' \in Driving => proj.status = "RUNNING",
           proj' = proj, outbox' = outbox, reply' \in {reply, NoReply}
    PROVE  DriveInv'
<1>1. reply'.kind = "FAILED" => Real(reply'.answer.failure)
  BY DEF NoReply, DriveInv, Driven
<1>2. Told(proj)'
  BY DEF DriveInv, Told
<1>3. Driven'
  BY <1>1 DEF DriveInv, Driven
<1> QED BY <1>2, <1>3 DEF DriveInv

\* A workflow that drives a run knows its history, which is running.
LEMMA DrivesRunning ==
    ASSUME Inv, DriveInv, pc \in Driving
    PROVE  state = proj /\ state \in StateType /\ state.status = "RUNNING" /\ Told(state)
BY DEF Inv, TypeOK, Sync, Closed, ClosedPcs, DriveInv, Driven, Driving

\* The outcome of a reply is whole, and has its reference.
LEMMA OutcomeIsWhole ==
    ASSUME Inv, StoreInv, PublishInv, reply.kind = "OUTCOME"
    PROVE  reply.answer.outcome \in TargetStatuses /\ reply.answer.ref # NoRef
<1>1. /\ pc = "replied" /\ exec[state.current].status = "SUCCEEDED"
      /\ exec[state.current].answer = reply.answer
  BY DEF StoreInv, Heard
<1>2. state.current \in Activities
  BY <1>1 DEF Inv, Waits
<1>3. Whole(state.current, reply.answer)
  BY <1>1, <1>2 DEF StoreInv, Spoken
<1>4. CASE state.current \in Later
  BY <1>1, <1>3, <1>4 DEF Whole, PublishInv, Carried
<1>5. CASE state.current \notin Later
  BY <1>3, <1>5 DEF Whole
<1> QED BY <1>3, <1>4, <1>5 DEF Whole

\* The database stores what the workflow appends.
LEMMA CommitDrives ==
    ASSUME Inv, DriveInv, CommitAppend
    PROVE  DriveInv'
<1>1. /\ proj \in StateType /\ outbox \in EventType /\ Accepts(proj, outbox)
      /\ proj' = ApplyEvent(proj, outbox)
      /\ UNCHANGED << pc, state, outbox, after, reply, workers >>
  BY DEF CommitAppend, CanAppend, driver, Inv, TypeOK
<1>2. Told(proj) /\ (outbox.type = "ACTIVITY_ATTEMPT_FAILED" => Real(outbox.failure))
  BY DEF DriveInv, Driven
<1>3. Told(proj')
  BY <1>1, <1>2, ToldOn
<1>4. outbox.seq = proj.seq + 1 /\ outbox.seq \in Nat /\ proj.seq \in Nat
  BY <1>1, AcceptedEvent DEF EventType, StateType
<1>5. pc \in ClosedPcs \cup {"append"}
  BY <1>4 DEF Inv, Sync, Closed
<1>6. pc # "COMPLETED"
  BY <1>1 DEF DriveInv, Driven, Accepts
<1>7. Driven'
  <2>1. \A w \in workers : Awaited(w)' <=> Awaited(w)
    BY <1>1 DEF Awaited
  <2>2. pc \notin Driving \cup {"load"}
    BY <1>5 DEF ClosedPcs, Driving
  <2> QED BY <1>1, <1>2, <1>5, <1>6, <2>2 DEF DriveInv, Driven, ClosedPcs, Driving
<1> QED BY <1>3, <1>7 DEF DriveInv, Told

\* The workflow hears that it is stored.
LEMMA AckDrives ==
    ASSUME Inv, DriveInv, AckAppend
    PROVE  DriveInv'
<1>1. /\ pc = "append" /\ Stored(journal, outbox) /\ state' = proj /\ pc' = after
      /\ state' = ApplyEvent(state, outbox)
      /\ UNCHANGED << outbox, reply, proj >>
  BY AckKeeps DEF AckAppend, store
<1>2. /\ Accepts(state, outbox) /\ (after = "drive" <=> outbox.type \notin WorkflowTerminals)
      /\ state \in StateType /\ outbox \in EventType
      /\ after \in {"drive", "COMPLETED", "CANCELLED"}
  BY <1>1 DEF DriveInv, Driven, Inv, TypeOK
<1>3. state.seq \in Nat /\ outbox.seq = state.seq + 1
  BY <1>2, AcceptedEvent DEF StateType
<1>4. outbox.type \notin WorkflowTerminals => proj.status = "RUNNING"
  <2>1. SUFFICES ASSUME outbox.type \notin WorkflowTerminals PROVE proj.status = "RUNNING"
    OBVIOUS
  <2>2. CASE outbox.type = "WORKFLOW_STARTED"
    BY <1>1, <1>2, <2>2, RunStartApplied
  <2>3. CASE outbox.type = "ACTIVITY_STARTED" /\ state.status = "RUNNING" /\ AcceptsActivityStart(state, outbox)
    <3>1. outbox.act \in Activities
      BY <1>2, <2>3 DEF AcceptsActivityStart, EventType
    <3>2. ApplyEvent(state, outbox).status = state.status
      BY <1>2, <2>3, <3>1, ActivityStartApplied
    <3> QED BY <1>1, <2>3, <3>2
  <2>4. CASE outbox.type = "ACTIVITY_ATTEMPT_FAILED" /\ state.status = "RUNNING"
    BY <1>1, <1>2, <2>4, AttemptFailureApplied
  <2>5. CASE outbox.type = "ACTIVITY_COMPLETED" /\ state.status = "RUNNING" /\ AcceptsCompletion(state, outbox)
    <3>1. outbox.act \in Activities
      BY <1>2, <2>5 DEF AcceptsCompletion, RequireCurrentActivity, EventType
    <3> QED BY <1>1, <1>2, <2>5, <3>1, CompletionApplied
  <2> QED BY <1>2, <2>1, <2>2, <2>3, <2>4, <2>5, AcceptedEvent DEF WorkflowTerminals
<1>5. outbox.type \in WorkflowTerminals => IsTerminal(proj)
  <2>1. CASE outbox.type \in FailureTerminals
    <3>1. proj.status = StatusOf(outbox.type)
      BY <1>1, <1>2, <2>1, FailureTerminalApplied
    <3> QED BY <2>1, <3>1 DEF StatusOf, IsTerminal, TerminalStatuses, FailureTerminals
  <2>2. CASE outbox.type = "WORKFLOW_SUCCEEDED"
    <3>1. proj.status = "SUCCEEDED"
      BY <1>1, <1>2, <2>2, SuccessApplied
    <3> QED BY <3>1 DEF IsTerminal, TerminalStatuses
  <2> QED BY <2>1, <2>2 DEF WorkflowTerminals
<1>6. Told(proj)'
  BY <1>1 DEF DriveInv, Told
<1>7. Driven'
  BY <1>1, <1>2, <1>4, <1>5 DEF DriveInv, Driven, Driving
<1> QED BY <1>6, <1>7 DEF DriveInv

\* The workflow keeps DriveInv.
LEMMA WorkflowDrives ==
    ASSUME Inv, StoreInv, ProgressInv, PublishInv, DriveInv, Workflow
    PROVE  DriveInv'
<1>s. UNCHANGED store => proj' = proj
  BY DEF store
<1>r. NoReply \in {reply, NoReply} /\ reply \in {reply, NoReply}
  OBVIOUS
<1>c. "WORKFLOW_CANCEL_REQUESTED" # NoCode /\ "INVALID_TARGET_FAILURE_OUTCOME" # NoCode
  BY DEF NoCode
<1>e. /\ {"WORKFLOW_STARTED", "ACTIVITY_STARTED", "ACTIVITY_ATTEMPT_FAILED", "ACTIVITY_COMPLETED"}
           \cap WorkflowTerminals = {}
      /\ "WORKFLOW_SUCCEEDED" \in WorkflowTerminals /\ FailureTerminals \subseteq WorkflowTerminals
      /\ {"WORKFLOW_FAILED", "WORKFLOW_REJECTED", "WORKFLOW_CANCELLED"} \subseteq FailureTerminals
      /\ "ACTIVITY_ATTEMPT_FAILED" \notin FailureTerminals
  BY DEF WorkflowTerminals, FailureTerminals
\* Cancelled where it waits, the workflow says so.
<1>0. ASSUME pc \in Driving, Record(CancelEvent(state), "CANCELLED"), reply' \in {reply, NoReply},
             UNCHANGED << state, store >>
      PROVE  DriveInv'
  <2>1. Accepts(state', CancelEvent(state))
    BY <1>0, DrivesRunning, RunEventsFit
  <2> QED BY <1>0, <1>e, <1>s, <2>1, EventNames, RecordDrives
<1>1. CASE Load
  <2>1. proj.seq = 0 /\ proj.status = "NOT_STARTED" /\ proj \in StateType
    BY <1>1 DEF Load, DriveInv, Driven, Told, Inv, TypeOK
  <2>2. /\ Record(StartedEvent(proj), "drive") /\ state' = proj /\ proj' = proj
        /\ reply' = reply
    BY <1>1, <1>s DEF Load
  <2>3. Accepts(state', StartedEvent(proj))
    BY <2>1, <2>2, RunEventsFit
  <2> QED BY <1>e, <1>r, <2>2, <2>3, EventNames, RecordDrives
<1>2. CASE SendTerminal
  <2>1. PICK type \in {"WORKFLOW_REJECTED", "WORKFLOW_FAILED"} :
            Record(StopEvent(state, type, state.pending.code), "COMPLETED")
    BY <1>2 DEF SendTerminal
  <2>2. pc \in Driving /\ state' = state /\ proj' = proj /\ reply' = reply
        /\ state.pending # NoFailure
    BY <1>2, <1>s DEF SendTerminal, Stopped, Driving
  <2>3. state.pending.code # NoCode
    BY <2>2, DrivesRunning DEF Told, Real
  <2>4. Accepts(state', StopEvent(state, type, state.pending.code))
    BY <1>e, <2>2, <2>3, DrivesRunning, RunEventsFit
  <2> QED BY <1>e, <1>r, <2>1, <2>2, <2>4, EventNames, RecordDrives
<1>3. CASE SendSuccess
  <2>1. /\ pc \in Driving /\ state' = state /\ proj' = proj /\ reply' = reply
        /\ NextActivity(state) = NoActivity /\ state.current = NoActivity
        /\ Record(SuccessEvent(state), "COMPLETED")
    BY <1>3, <1>s DEF SendSuccess, AllDone, Driving
  <2>2. Accepts(state', SuccessEvent(state))
    BY <2>1, DrivesRunning, RunEventsFit
  <2> QED BY <1>e, <1>r, <2>1, <2>2, EventNames, RecordDrives
<1>4. CASE Sleep
  BY <1>4, <1>r, <1>s, MoveDrives, DrivesRunning DEF Sleep, Pcs, ClosedPcs, Driving
<1>5. CASE SendStart
  <2>1. /\ pc \in Driving /\ state' = state /\ proj' = proj /\ reply' = reply
        /\ Record(StartEvent(state), "drive")
    BY <1>5, <1>s DEF SendStart, Driving
  <2>2. state.current = NoActivity /\ NextActivity(state) \in Activities
    BY <1>5, NextActivityType
       DEF SendStart, Between, AllDone, Inv, Waits, ProgressInv, Within
  <2>3. Accepts(state', StartEvent(state))
    BY <2>1, <2>2, DrivesRunning, ActivityEventsFit
  <2> QED BY <1>e, <1>r, <2>1, <2>3, EventNames, RecordDrives
<1>6. CASE Invoke
  BY <1>6, <1>r, <1>s, MoveDrives, DrivesRunning DEF Invoke, Pcs, ClosedPcs, Driving
<1>7. CASE HandleBusy
  BY <1>7, <1>r, <1>s, MoveDrives, DrivesRunning DEF HandleBusy, Pcs, ClosedPcs, Driving
<1>8. CASE Wake
  BY <1>8, <1>r, <1>s, MoveDrives, DrivesRunning DEF Wake, Pcs, ClosedPcs, Driving
<1>9. CASE HandleFailure
  <2>1. /\ pc = "replied" /\ pc \in Driving /\ state' = state /\ proj' = proj /\ reply' = NoReply
        /\ reply.kind = "FAILED"
        /\ Record(AttemptFailureEvent(state, reply.answer.failure), "drive")
    BY <1>9, <1>s DEF HandleFailure, Driving
  <2>2. Real(reply.answer.failure) /\ state.current \in Activities
    BY <2>1 DEF DriveInv, Driven, Inv, Waits
  <2>3. Accepts(state', AttemptFailureEvent(state, reply.answer.failure))
    BY <2>1, <2>2, DrivesRunning, ActivityEventsFit
  <2>4. AttemptFailureEvent(state, reply.answer.failure).failure = reply.answer.failure
    BY DEF AttemptFailureEvent, ActivityEvent, BlankEvent
  <2> QED BY <1>e, <1>r, <2>1, <2>2, <2>3, <2>4, EventNames, RecordDrives
<1>10. CASE HandleOutcome
  <2>1. /\ pc = "replied" /\ pc \in Driving /\ state' = state /\ proj' = proj /\ reply' = NoReply
        /\ reply.kind = "OUTCOME" /\ state.current \in Activities
    BY <1>10, <1>s DEF HandleOutcome, Driving, Inv, Waits
  <2>2. CASE BadOutcome
    <3>1. Record(StopEvent(state, "WORKFLOW_FAILED", "INVALID_TARGET_FAILURE_OUTCOME"),
                 "COMPLETED")
      BY <1>10, <2>2 DEF HandleOutcome
    <3>2. Accepts(state', StopEvent(state, "WORKFLOW_FAILED", "INVALID_TARGET_FAILURE_OUTCOME"))
      BY <1>c, <1>e, <2>1, DrivesRunning, RunEventsFit
    <3> QED BY <1>e, <1>r, <2>1, <3>1, <3>2, EventNames, RecordDrives
  <2>3. CASE ~BadOutcome
    <3>1. Record(CompletionEvent(state, reply.answer), "drive")
      BY <1>10, <2>3 DEF HandleOutcome
    <3>2. reply.answer.outcome = "TARGET_FAILED" => state.current \in MayTargetFail
      BY <2>3 DEF BadOutcome
    <3>3. Accepts(state', CompletionEvent(state, reply.answer))
      BY <2>1, <3>2, DrivesRunning, OutcomeIsWhole, ActivityEventsFit
    <3> QED BY <1>e, <1>r, <2>1, <3>1, <3>3, EventNames, RecordDrives
  <2> QED BY <2>2, <2>3
<1>11. CASE HandleStepCancelled
  BY <1>0, <1>11, <1>r DEF HandleStepCancelled, Driving
<1>12. CASE CommitAppend
  BY <1>12, CommitDrives
<1>13. CASE AckAppend
  BY <1>13, AckDrives
<1>14. CASE GiveUp
  BY <1>14, <1>r, <1>s, MoveDrives DEF GiveUp, Pcs, ClosedPcs, Driving
<1>15. CASE CancelCall
  BY <1>15, <1>r, <1>s, MoveDrives DEF CancelCall, Pcs, ClosedPcs, Driving
<1>16. CASE CancelWait
  BY <1>0, <1>16, <1>r DEF CancelWait, Driving
<1>17. CASE CancelStep
  <2>1. UNCHANGED << pc, state, outbox, after, reply, proj, workers >>
    BY <1>17, <1>s DEF CancelStep
  <2> QED BY <2>1 DEF DriveInv, Told, Driven, Awaited
<1>18. CASE Deliver
  <2>1. /\ pc' = "step" /\ NewWorker \in workers' /\ UNCHANGED << state, outbox, after, reply, proj >>
        /\ pc \in Driving
    BY <1>18, <1>s DEF Deliver, Driving
  <2>2. NewWorker.act = state.current /\ NewWorker.attempt = state.attempt
    BY DEF NewWorker
  <2>3. proj.status = "RUNNING"
    BY <2>1 DEF DriveInv, Driven
  <2> QED BY <2>1, <2>2, <2>3 DEF DriveInv, Told, Driven, Awaited
<1>19. CASE StepTimeout
  <2>1. /\ pc' = "replied" /\ reply' = Reports(Failed(StepLost)) /\ pc \in Driving
        /\ UNCHANGED << state, outbox, after, proj >>
    BY <1>19, <1>s DEF StepTimeout, StepEnds, Driving
  <2>2. reply'.kind = "FAILED" /\ Real(reply'.answer.failure)
    BY <2>1, RealFailures DEF Reports, Real
  <2>3. proj.status = "RUNNING"
    BY <2>1 DEF DriveInv, Driven
  <2> QED BY <2>1, <2>2, <2>3 DEF DriveInv, Told, Driven
<1> QED
  BY <1>1, <1>2, <1>3, <1>4, <1>5, <1>6, <1>7, <1>8, <1>9, <1>10, <1>11, <1>12, <1>13,
     <1>14, <1>15, <1>16, <1>17, <1>18, <1>19 DEF Workflow

\* The workers keep it: the step the workflow waits for goes on, or is answered.
LEMMA WorkerDrives ==
    ASSUME Inv, StoreInv, DriveInv, NEW w \in workers, Worker(w)
    PROVE  DriveInv'
<1>1. /\ WorkerMove(w) /\ ReplyMove(w) /\ UNCHANGED << state, outbox, after, proj >>
  BY WorkerMoves DEF StoreInv, WorkerStep
<1>2. Told(proj)'
  BY <1>1 DEF DriveInv, Told
<1>3. CASE pc' = pc /\ reply' = reply
  <2>1. ASSUME pc' = "step" PROVE \E v \in workers' : Awaited(v)'
    <3>1. PICK u \in workers : Awaited(u)
      BY <1>3, <2>1 DEF DriveInv, Driven
    <3>2. CASE u = w
      <4>1. PICK v \in workers' : v.act = w.act /\ v.attempt = w.attempt
        BY <1>1, <2>1, <3>1, <3>2 DEF WorkerMove
      <4> QED BY <1>1, <2>1, <3>1, <3>2, <4>1 DEF Awaited
    <3>3. CASE u # w
      BY <1>1, <2>1, <3>1, <3>3 DEF WorkerMove, Awaited
    <3> QED BY <3>2, <3>3
  <2>2. Driven'
    BY <1>1, <1>3, <2>1 DEF DriveInv, Driven
  <2> QED BY <1>2, <2>2 DEF DriveInv
<1>4. CASE ~(pc' = pc /\ reply' = reply)
  <2>1. /\ pc = "step" /\ pc' = "replied" /\ reply'.kind # "NONE"
        /\ reply'.kind = "FAILED" => Real(reply'.answer.failure)
    BY <1>1, <1>4 DEF ReplyMove, Awaited
  <2>2. proj.status = "RUNNING"
    BY <2>1 DEF DriveInv, Driven, Driving
  <2>3. Driven'
    BY <1>1, <2>1, <2>2 DEF DriveInv, Driven
  <2> QED BY <1>2, <2>3 DEF DriveInv
<1> QED BY <1>3, <1>4

\* Every step keeps it.
LEMMA DriveKept ==
    Inv /\ StoreInv /\ ProgressInv /\ PublishInv /\ DriveInv /\ [Next]_vars => DriveInv'
<1> SUFFICES ASSUME Inv, StoreInv, ProgressInv, PublishInv, DriveInv, [Next]_vars PROVE DriveInv'
  OBVIOUS
<1>1. CASE Workflow
  BY <1>1, WorkflowDrives
<1>2. CASE \E a \in Activities : LeaseExpires(a)
  <2>1. UNCHANGED << pc, state, outbox, after, reply, proj, workers >>
    BY <1>2 DEF LeaseExpires, driver, store
  <2> QED BY <2>1 DEF DriveInv, Told, Driven, Awaited
<1>3. CASE \E w \in workers : Worker(w)
  BY <1>3, WorkerDrives
<1>4. CASE UNCHANGED vars
  BY <1>4 DEF vars, driver, store, DriveInv, Told, Driven, Awaited
<1> QED
  BY <1>1, <1>2, <1>3, <1>4 DEF Next

----------------------------------------------------------------------------
(* Theorems.                                                               *)

\* The invariants hold in every behaviour.
LEMMA Invariance == Spec => [](Inv /\ RowSync /\ Counted)
BY InitInv, StepKeeps, RowSyncKept, CountedKept, PTL DEF Spec

\* So do those of the stored outcomes, of the plan, and of what is published.
LEMMA Agreement == Spec => [](Inv /\ StoreInv /\ ProgressInv /\ PublishInv)
BY InitInv, InitStore, InitProgress, InitPublish,
   StepKeeps, StoreKept, ProgressHolds, PublishKept, PTL DEF Spec

\* Every variable of the run keeps its type, the in-memory state included.
THEOREM TypeCorrect == Spec => []TypeOK
<1>1. Inv => TypeOK
  BY DEF Inv
<1> QED
  BY <1>1, Invariance, PTL

\* SQL and Python never disagree on a run, whatever is appended in whatever
\* order: append_workflow_event refuses every event that would part them.
THEOREM RowIsProjection == Spec => []RowMatchesProjection
<1>1. RowSync => RowMatchesProjection
  BY DEF RowSync, RowMatchesProjection
<1> QED
  BY <1>1, Invariance, PTL

\* An open workflow never runs ahead of the journal, and lags behind it by the
\* one event it is waiting for at most.
THEOREM DriverFollowsJournal == Spec => []DriverInSync
<1>1. Inv => DriverInSync
  BY DEF Inv, Sync, DriverInSync
<1> QED
  BY <1>1, Invariance, PTL

\* No step runs that the journal does not show as started.
THEOREM AuditPrecedesWork == Spec => []AuditBeforeSideEffect
<1>1. Counted => AuditBeforeSideEffect
  BY DEF Counted
<1> QED
  BY <1>1, Invariance, PTL

\* What the journal says an activity answered is the outcome stored for ever in
\* its execution row, whoever stored it and whichever answers were lost.
THEOREM JournalIsStored == Spec => []JournalMatchesStore
<1>1. StoreInv => JournalMatchesStore
  BY DEF StoreInv, Heard, Backed, JournalMatchesStore
<1> QED
  BY <1>1, Agreement, PTL

\* What is published was measured and recorded, also when a late worker of an
\* earlier attempt publishes it, and a run that succeeded has published it.
THEOREM ResultIsMeasured == Spec => []PublishedResultIsMeasured
<1>1. ProgressInv /\ PublishInv => PublishedResultIsMeasured
  <2> SUFFICES ASSUME ProgressInv, PublishInv PROVE PublishedResultIsMeasured
    OBVIOUS
  <2>1. result # NoRef => result = proj.ref /\ Measured(journal, proj.ref)
    BY DEF PublishInv, Carried
  <2>2. proj.status = "SUCCEEDED" => result # NoRef
    BY DEF ProgressInv, Planned, PublishInv, Published
  <2> QED
    BY <2>1, <2>2 DEF PublishedResultIsMeasured, Measured, Measures
<1> QED
  BY <1>1, Agreement, PTL

\* No append of a workflow is refused, by Python or by SQL, unless it is stored already,
\* whatever else fails; the step it waits for is some worker's; what it returns is final.
THEOREM WorkflowsAreAnswered == Spec => []NobodyWaitsInVain
<1>1. ASSUME Inv, RowSync, DriveInv PROVE NobodyWaitsInVain
  <2>1. pc = "append" => Stored(journal, outbox) \/ CanAppend(run, proj, outbox)
    <3>1. pc = "append" => proj = state \/ Stored(journal, outbox)
      BY <1>1 DEF Inv, Sync
    <3>2. pc = "append" /\ proj = state => CanAppend(run, proj, outbox)
      BY <1>1, SqlFollows DEF DriveInv, Driven, RowSync, Inv, TypeOK
    <3> QED BY <3>1, <3>2
  <2> QED BY <1>1, <2>1 DEF DriveInv, Driven, NobodyWaitsInVain
<1>2. Inv /\ RowSync /\ DriveInv => NobodyWaitsInVain
  BY <1>1
<1> QED
  BY <1>2, InitDrive, DriveKept, Invariance, Agreement, PTL DEF Spec

\* The journal of every run is a run of CanaryRun: the plan is followed, no
\* attempt exceeds the policy, and what a run ended as is final.
THEOREM KeepsPromise == Spec => PromiseKept
<1>1. /\ Inv /\ StoreInv /\ ProgressInv /\ Inv' /\ ProgressInv' /\ [Next]_vars
        => [Promise!Next]_(Promise!vars)
  BY StepIsPromised
<1> QED
  BY <1>1, InitPromise, Agreement, PTL DEF Spec, PromiseKept, Promise!Spec
=============================================================================
