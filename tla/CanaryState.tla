---------------------------- MODULE CanaryState ----------------------------
(***************************************************************************)
(* The event-sourced state machine of a canary run: which workflow events  *)
(* may follow a history, and the state a history projects to.              *)
(* Source: src/src/lexsond/workflows/state.py.                             *)
(*                                                                         *)
(* Data that no decision reads is left out: run ids, input hashes,         *)
(* timestamps, idempotency keys (a function of the run and the activity)   *)
(* and the length of a retry delay (only its presence matters, and the     *)
(* source keeps it equal to retry_scheduled).                              *)
(***************************************************************************)
EXTENDS Naturals, Sequences

ActivityOrder == << "VALIDATE", "PREFLIGHT", "EXECUTE", "NORMALIZE",
                    "SCORE", "PERSIST", "COMPARE", "NOTIFY" >>

Steps == 1..8                       \* positions in ActivityOrder
Activities == { ActivityOrder[i] : i \in Steps }
NormalizeIndex == 4                 \* ACTIVITY_ORDER.index(NORMALIZE), from 1

NoActivity == "NO_ACTIVITY"
NoRef      == << "NO_REF", 0 >>
NoOutcome  == "NO_OUTCOME"
NoCode     == "NO_CODE"

\* FailureKind, and the structured part of an ActivityFailure.
FailureKinds == {"CONFIGURATION", "POLICY", "INFRASTRUCTURE", "RUNNER"}

\* The error codes of the drivers, of the delivery of a step, and of what the
\* activities themselves may find.
ErrorCodes ==
    { "WORKFLOW_CANCEL_REQUESTED", "WORKFLOW_CANCELLED_DURING_RETRY",
      "INVALID_TARGET_FAILURE_OUTCOME", "UNEXPECTED_ACTIVITY_EXCEPTION",
      "TEMPORAL_ACTIVITY_EXECUTION_FAILED",
      "ACTIVITY_STATE_UNAVAILABLE", "ACTIVITY_STATE_PERSISTENCE_FAILED",
      "ACTIVITY_IDEMPOTENCY_CONFLICT", "ACTIVITY_LEASE_LOST", "ACTIVITY_CANCELLED",
      "NATIVE_ACTIVITY_INFRASTRUCTURE_FAILED",
      "ENDPOINT_SNAPSHOT_NOT_FOUND", "ENDPOINT_SNAPSHOT_MISMATCH",
      "SUITE_SNAPSHOT_NOT_FOUND", "SUITE_DIGEST_MISMATCH", "SUITE_IDENTITY_MISMATCH",
      "SUITE_VALIDATION_FAILED", "CREDENTIAL_NOT_FOUND",
      "RESULT_REFERENCE_MISSING", "RESULT_EVIDENCE_INVALID", "RESULT_RUN_ID_MISMATCH",
      "RESULT_SCHEMA_MISMATCH", "DIMENSION_SCORES_MISSING", "PERSISTED_RESULT_NOT_FOUND",
      "PROBE_RESULT_IMMUTABILITY_CONFLICT" }
Codes == ErrorCodes \cup {NoCode}
NoFailure    == [code |-> NoCode, kind |-> "NONE", retryable |-> FALSE]

TargetStatuses   == {"SUCCEEDED", "TARGET_FAILED"}
TerminalStatuses == {"SUCCEEDED", "FAILED", "REJECTED", "CANCELLED"}
Statuses         == {"NOT_STARTED", "RUNNING"} \cup TerminalStatuses
Phases           == {"NONE", "COMPLETE"} \cup Activities

\* The activities whose TARGET_FAILED is a measurement, not a defect.
MayTargetFail == {"PREFLIGHT", "EXECUTE"}

Refs        == (Activities \X Nat) \cup {NoRef}     \* what produced it, and when
FailureType == [code : Codes, kind : FailureKinds \cup {"NONE"}, retryable : BOOLEAN]

\* WorkflowState.
StateType ==
    [ status : Statuses, phase : Phases, seq : Nat, next : Nat,
      current : Activities \cup {NoActivity}, attempt : Nat,
      attempts : [Activities -> Nat], completed : Seq(Activities),
      ref : Refs, targetFailed : BOOLEAN, pending : FailureType,
      retry : BOOLEAN, code : Codes ]

InitialState ==
    [ status |-> "NOT_STARTED", phase |-> "NONE", seq |-> 0, next |-> 1,
      current |-> NoActivity, attempt |-> 0,
      attempts |-> [a \in Activities |-> 0], completed |-> << >>,
      ref |-> NoRef, targetFailed |-> FALSE, pending |-> NoFailure,
      retry |-> FALSE, code |-> NoCode ]

IsTerminal(s)   == s.status \in TerminalStatuses
NextActivity(s) == IF s.next \in Steps THEN ActivityOrder[s.next] ELSE NoActivity

----------------------------------------------------------------------------
(* Events.  One record shape for every type, as WorkflowEvent has.         *)

FailureTerminals == {"WORKFLOW_FAILED", "WORKFLOW_REJECTED", "WORKFLOW_CANCELLED"}
EventTypes       == FailureTerminals \cup
                    {"WORKFLOW_STARTED", "ACTIVITY_STARTED", "ACTIVITY_ATTEMPT_FAILED",
                     "ACTIVITY_COMPLETED", "WORKFLOW_SUCCEEDED", "NO_EVENT"}

EventType ==
    [ seq : Nat, type : EventTypes, phase : Phases, act : Activities \cup {NoActivity},
      attempt : Nat, outcome : TargetStatuses \cup {NoOutcome}, ref : Refs,
      failure : FailureType, retry : BOOLEAN, code : Codes ]

BlankEvent(s, type, phase) ==
    [ seq |-> s.seq + 1, type |-> type, phase |-> phase, act |-> NoActivity,
      attempt |-> 0, outcome |-> NoOutcome, ref |-> NoRef,
      failure |-> NoFailure, retry |-> FALSE, code |-> NoCode ]

NoEvent == [BlankEvent(InitialState, "NO_EVENT", "NONE") EXCEPT !.seq = 0]

StatusOf(type) == CASE type = "WORKFLOW_FAILED"    -> "FAILED"
                    [] type = "WORKFLOW_REJECTED"  -> "REJECTED"
                    [] type = "WORKFLOW_CANCELLED" -> "CANCELLED"
                    [] OTHER                       -> "SUCCEEDED"

----------------------------------------------------------------------------
(* What _apply_event raises WorkflowHistoryError for is what Accepts       *)
(* refuses.                                                                *)

AcceptsActivityStart(s, e) ==
    /\ s.current = NoActivity
    /\ e.act # NoActivity /\ e.act = NextActivity(s)
    /\ e.attempt = s.attempts[e.act] + 1
    /\ e.phase = e.act

RequireCurrentActivity(s, e) ==
    /\ e.act # NoActivity /\ e.act = s.current
    /\ e.attempt = s.attempt
    /\ e.phase = s.phase

AcceptsAttemptFailure(s, e) ==
    /\ RequireCurrentActivity(s, e)
    /\ e.failure # NoFailure
    /\ e.outcome = NoOutcome /\ e.ref = NoRef

AcceptsCompletion(s, e) ==
    /\ RequireCurrentActivity(s, e)
    /\ e.outcome \in TargetStatuses /\ e.ref # NoRef
    /\ e.outcome = "TARGET_FAILED" => e.act \in MayTargetFail

AcceptsSuccess(s, e) ==
    /\ NextActivity(s) = NoActivity /\ s.current = NoActivity
    /\ e.code = NoCode

Accepts(s, e) ==
    /\ e.seq = s.seq + 1
    /\ ~IsTerminal(s)
    /\ \/ /\ e.type = "WORKFLOW_STARTED"
          /\ s.status = "NOT_STARTED" /\ e.seq = 1 /\ e.phase = "NONE"
       \/ /\ s.status = "RUNNING"
          /\ \/ e.type = "ACTIVITY_STARTED"        /\ AcceptsActivityStart(s, e)
             \/ e.type = "ACTIVITY_ATTEMPT_FAILED" /\ AcceptsAttemptFailure(s, e)
             \/ e.type = "ACTIVITY_COMPLETED"      /\ AcceptsCompletion(s, e)
             \/ e.type \in FailureTerminals        /\ e.code # NoCode
             \/ e.type = "WORKFLOW_SUCCEEDED"      /\ AcceptsSuccess(s, e)

----------------------------------------------------------------------------
(* The state after an accepted event.                                      *)

ApplyActivityStart(s, e) ==
    [s EXCEPT !.seq = e.seq, !.current = e.act, !.attempt = e.attempt,
              !.attempts[e.act] = e.attempt, !.phase = e.phase,
              !.pending = NoFailure, !.retry = FALSE]

ApplyAttemptFailure(s, e) ==
    [s EXCEPT !.seq = e.seq, !.current = NoActivity, !.attempt = 0,
              !.pending = e.failure, !.retry = e.retry]

\* A target that fails PREFLIGHT is not called again: EXECUTE is skipped.
ApplyCompletion(s, e) ==
    [s EXCEPT !.seq = e.seq, !.current = NoActivity, !.attempt = 0,
              !.completed = Append(@, e.act), !.ref = e.ref,
              !.pending = NoFailure, !.retry = FALSE,
              !.targetFailed = @ \/ e.outcome = "TARGET_FAILED",
              !.next = IF e.act = "PREFLIGHT" /\ e.outcome = "TARGET_FAILED"
                       THEN NormalizeIndex ELSE @ + 1]

ApplyFailureTerminal(s, e) ==
    [s EXCEPT !.seq = e.seq, !.status = StatusOf(e.type), !.phase = "COMPLETE",
              !.code = e.code, !.current = NoActivity, !.attempt = 0,
              !.pending = NoFailure, !.retry = FALSE]

ApplyEvent(s, e) ==
    CASE e.type = "WORKFLOW_STARTED"        -> [s EXCEPT !.seq = e.seq, !.status = "RUNNING"]
      [] e.type = "ACTIVITY_STARTED"        -> ApplyActivityStart(s, e)
      [] e.type = "ACTIVITY_ATTEMPT_FAILED" -> ApplyAttemptFailure(s, e)
      [] e.type = "ACTIVITY_COMPLETED"      -> ApplyCompletion(s, e)
      [] e.type \in FailureTerminals        -> ApplyFailureTerminal(s, e)
      [] OTHER -> [s EXCEPT !.seq = e.seq, !.status = "SUCCEEDED", !.phase = "COMPLETE"]
=============================================================================
