--------------------------- MODULE ActivityLease ---------------------------
(***************************************************************************)
(* Several deliveries of one activity racing for its idempotency key.      *)
(*                                                                         *)
(* A delivery is one call of NativeCanaryActivities.invoke                 *)
(* (src/src/lexsond/workflows/native_activities.py) with the thread of its *)
(* _ActivityLeaseRenewer.  Every delivery may crash at any point, every    *)
(* SQL call may fail before or after the database committed it, a renewal  *)
(* may be late or refused, and the workflow may move on to the next        *)
(* attempt while an earlier delivery is still alive.                       *)
(*                                                                         *)
(* Time is discrete and only differences count: ttl is what is left of     *)
(* lease_expires_at, due[d] what is left of the renewer's wait.            *)
(***************************************************************************)
EXTENDS Integers, ActivityRow

CONSTANTS
    Deliveries,     \* calls of invoke; each proposes a token of its own (uuid4)
    MaxAttempts,    \* attempts the workflow's retry policy allows
    Outcomes,       \* outcomes a delegate may compute: status and result_ref
    Failures,       \* ActivityFailures a delegate may raise
    StoreFailure,   \* NATIVE_ACTIVITY_INFRASTRUCTURE_FAILED
    Input,          \* the input_ref of the invocation, the same in every attempt
    LeaseTicks,     \* lease_seconds
    RenewTicks,     \* the renewer's interval
    Timely          \* TRUE: no renewal is late and no renewal call is lost

ASSUME LeaseAssumption ==
    /\ MaxAttempts \in Nat \ {0}
    /\ RenewTicks \in Nat \ {0} /\ LeaseTicks \in Nat
    /\ RenewTicks < LeaseTicks
    /\ Timely \in BOOLEAN

ASSUME DistinctValues ==
    /\ NoToken \notin Deliveries
    /\ Input # NoInput
    /\ StoreFailure \in Failures
    /\ Outcomes \cap Failures = {}
    /\ NoAnswer \notin Outcomes \cup Failures

VARIABLES
    row,        \* the row of activity_executions
    ttl,        \* ticks until the lease of row expires
    attempt,    \* the attempt the workflow has recorded last
    dlv,        \* the deliveries
    due         \* ticks until the renewer of a delivery wakes up

leaseVars == << row, ttl, attempt, dlv, due >>

(***************************************************************************)
(* Where a delivery is: not made yet; about to claim; inside _invoke_uncached (which   *)
(* is where a paid call happens); storing an outcome; storing a failure;   *)
(* told BUSY; and three ways to be over: it gave the answer the row holds, *)
(* it raised a failure that is not in the row, or its process died.        *)
(***************************************************************************)
Pcs == {"idle", "claiming", "running", "completing", "failing", "busy",
        "answered", "gave_up", "crashed"}

CallAnswers == Outcomes \cup Failures \cup {NoAnswer}

Delivery == [ pc : Pcs, attempt : 0..MaxAttempts, answer : CallAnswers, lost : BOOLEAN ]

Row == [ status  : {"NONE", "LEASED", "SUCCEEDED", "FAILED"},
         attempt : 0..MaxAttempts, token : Deliveries \cup {NoToken},
         input   : {Input, NoInput}, answer : CallAnswers ]

\* Every field has the type its column or variable has.
LeaseTypeOK ==
    /\ row \in Row
    /\ ttl \in 0..LeaseTicks
    /\ attempt \in 1..MaxAttempts
    /\ dlv \in [Deliveries -> Delivery]
    /\ due \in [Deliveries -> 0..RenewTicks]

LeaseInit ==
    /\ row = NoExecution /\ ttl = 0
    /\ attempt = 1
    /\ dlv = [d \in Deliveries |->
                [pc |-> "idle", attempt |-> 0, answer |-> NoAnswer, lost |-> FALSE]]
    /\ due = [d \in Deliveries |-> 0]

----------------------------------------------------------------------------
Live      == ttl > 0
Become(d, pc, answer) == dlv' = [dlv EXCEPT ![d].pc = pc, ![d].answer = answer]
Fresh(d)  == ttl' = LeaseTicks /\ due' = [due EXCEPT ![d] = RenewTicks]

Disposition(d) == ClaimDisposition(row, Input, dlv[d].attempt, d, Live)
Claimed(d)     == RowAfterClaim(row, Input, dlv[d].attempt, d, Live)

\* The workflow hands its current attempt to a worker ...
Deliver(d) ==
    /\ dlv[d].pc = "idle"
    /\ dlv' = [dlv EXCEPT ![d].pc = "claiming", ![d].attempt = attempt]
    /\ UNCHANGED << row, ttl, attempt, due >>

\* ... and, told BUSY, waits the rest of the lease and invokes it again.
Redeliver(d) ==
    /\ dlv[d].pc = "busy"
    /\ dlv' = [dlv EXCEPT ![d].pc = "claiming", ![d].attempt = attempt]
    /\ UNCHANGED << row, ttl, attempt, due >>

Acquire(d) ==
    /\ dlv[d].pc = "claiming" /\ Disposition(d) = "ACQUIRED"
    /\ Become(d, "running", NoAnswer)
    /\ row' = Claimed(d) /\ Fresh(d)
    /\ UNCHANGED attempt

\* The key has its answer already: the delivery repeats it.
Replay(d) ==
    /\ dlv[d].pc = "claiming" /\ Disposition(d) \in {"COMPLETED", "FAILED"}
    /\ Become(d, "answered", row.answer)
    /\ UNCHANGED << row, ttl, attempt, due >>

FindBusy(d) ==
    /\ dlv[d].pc = "claiming" /\ Disposition(d) = "BUSY"
    /\ Become(d, "busy", NoAnswer)
    /\ UNCHANGED << row, ttl, attempt, due >>

\* ACTIVITY_STATE_UNAVAILABLE: the database was unreachable, or it did commit
\* the claim and the connection broke before the answer came back.
ClaimUnavailable(d) ==
    /\ dlv[d].pc = "claiming"
    /\ Become(d, "gave_up", NoAnswer)
    /\ \/ UNCHANGED << row, ttl >>
       \/ Disposition(d) = "ACQUIRED" /\ row' = Claimed(d) /\ ttl' = LeaseTicks
    /\ UNCHANGED << attempt, due >>

----------------------------------------------------------------------------
(* The renewer thread, while _invoke_uncached runs.                        *)

OwnsLease(d) == Owns(row, Input, dlv[d].attempt, d)
Renewing(d)  == dlv[d].pc = "running" /\ ~dlv[d].lost

Renew(d) ==
    /\ Renewing(d) /\ due[d] = 0 /\ OwnsLease(d)
    /\ Fresh(d)
    /\ UNCHANGED << row, attempt, dlv >>

\* Any exception of renew sets the failure signal and ends the thread.
LoseLease(d) ==
    /\ Renewing(d) /\ due[d] = 0
    /\ Timely => ~OwnsLease(d)
    /\ dlv' = [dlv EXCEPT ![d].lost = TRUE]
    /\ \/ UNCHANGED ttl
       \/ ~Timely /\ OwnsLease(d) /\ ttl' = LeaseTicks
    /\ UNCHANGED << row, attempt, due >>

----------------------------------------------------------------------------
(* The end of _invoke_uncached.                                            *)

\* It returns; the renewer is joined, and only then is complete called.
FinishCall(d) ==
    /\ Renewing(d)
    /\ \E o \in Outcomes : Become(d, "completing", o)
    /\ UNCHANGED << row, ttl, attempt, due >>

\* It raises, a cancellation included; the failure is to be recorded.
Raise(d) ==
    /\ Renewing(d)
    /\ \E f \in Failures : Become(d, "failing", f)
    /\ UNCHANGED << row, ttl, attempt, due >>

\* With the lease lost, whatever the call returned or raised becomes
\* ACTIVITY_LEASE_LOST, and nothing is recorded.
StopLost(d) ==
    /\ dlv[d].pc = "running" /\ dlv[d].lost
    /\ Become(d, "gave_up", NoAnswer)
    /\ UNCHANGED << row, ttl, attempt, due >>

CrashCall(d) ==
    /\ dlv[d].pc \in {"claiming", "running", "completing", "failing"}
    /\ Become(d, "crashed", NoAnswer)
    /\ UNCHANGED << row, ttl, attempt, due >>

----------------------------------------------------------------------------
(* Storing the answer.                                                     *)

CompletedRow(d) == RowAfterComplete(row, Input, dlv[d].attempt, d, dlv[d].answer)
FailedRow(d)    == RowAfterFail(row, Input, dlv[d].attempt, d, dlv[d].answer)
MayComplete(d)  == CompleteAccepted(row, Input, dlv[d].attempt, d, dlv[d].answer)
MayFail(d)      == FailAccepted(row, Input, dlv[d].attempt, d, dlv[d].answer)

Complete(d) ==
    /\ dlv[d].pc = "completing" /\ MayComplete(d)
    /\ row' = CompletedRow(d)
    /\ Become(d, "answered", dlv[d].answer)
    /\ UNCHANGED << ttl, attempt, due >>

\* The call broke, before or after the commit: the delivery goes on to record
\* an infrastructure failure of its own.
CompleteUnavailable(d) ==
    /\ dlv[d].pc = "completing"
    /\ row' = row \/ (MayComplete(d) /\ row' = CompletedRow(d))
    /\ Become(d, "failing", StoreFailure)
    /\ UNCHANGED << ttl, attempt, due >>

RecordFailure(d) ==
    /\ dlv[d].pc = "failing" /\ MayFail(d)
    /\ row' = FailedRow(d)
    /\ Become(d, "answered", dlv[d].answer)
    /\ UNCHANGED << ttl, attempt, due >>

\* ACTIVITY_STATE_PERSISTENCE_FAILED.
RecordUnavailable(d) ==
    /\ dlv[d].pc = "failing"
    /\ row' = row \/ (MayFail(d) /\ row' = FailedRow(d))
    /\ Become(d, "gave_up", NoAnswer)
    /\ UNCHANGED << ttl, attempt, due >>

\* ACTIVITY_IDEMPOTENCY_CONFLICT: the row refuses the delivery.
Conflict(d) ==
    /\ \/ dlv[d].pc = "claiming"   /\ Disposition(d) = "CONFLICT"
       \/ dlv[d].pc = "completing" /\ ~MayComplete(d)
       \/ dlv[d].pc = "failing"    /\ ~MayFail(d)
    /\ Become(d, "gave_up", NoAnswer)
    /\ UNCHANGED << row, ttl, attempt, due >>

----------------------------------------------------------------------------
\* The workflow records the next attempt: the last delivery reported a
\* retryable failure, or the workflow stopped hearing from it.
NextAttempt ==
    /\ attempt < MaxAttempts
    /\ attempt' = attempt + 1
    /\ UNCHANGED << row, ttl, dlv, due >>

Down(n) == IF n > 0 THEN n - 1 ELSE 0

\* Timely: a renewer whose wait is over calls renew before time passes.
Tick ==
    /\ Timely => \A d \in Deliveries : Renewing(d) => due[d] > 0
    /\ ttl' = Down(ttl)
    /\ due' = [d \in Deliveries |-> IF Renewing(d) THEN Down(due[d]) ELSE due[d]]
    /\ UNCHANGED << row, attempt, dlv >>

Step(d) ==
    \/ Deliver(d) \/ Redeliver(d)
    \/ Acquire(d) \/ Replay(d) \/ FindBusy(d) \/ ClaimUnavailable(d)
    \/ Renew(d) \/ LoseLease(d) \/ FinishCall(d) \/ Raise(d) \/ StopLost(d) \/ CrashCall(d)
    \/ Complete(d) \/ CompleteUnavailable(d)
    \/ RecordFailure(d) \/ RecordUnavailable(d) \/ Conflict(d)

LeaseNext == NextAttempt \/ Tick \/ \E d \in Deliveries : Step(d)

(***************************************************************************)
(* LeaseFairness: time passes; a workflow told BUSY redelivers; a call that runs *)
(* ends (the suite's requests have timeouts) and its store calls return or  *)
(* raise.  Nothing is assumed of crashes, outages, Deliver or NextAttempt.  *)
(* Serves: the stages of a delivery follow one another, one is enabled.     *)
(***************************************************************************)
Serves(d) ==
    \/ Acquire(d) \/ Replay(d) \/ FindBusy(d) \/ Conflict(d) \/ Redeliver(d)
    \/ Complete(d) \/ RecordFailure(d)

LeaseFairness ==
    /\ WF_leaseVars(Tick)
    /\ \A d \in Deliveries :
        /\ WF_leaseVars(Serves(d))
        /\ WF_leaseVars(Renew(d))
        /\ WF_leaseVars(FinishCall(d) \/ StopLost(d))

LeaseSpec     == LeaseInit /\ [][LeaseNext]_leaseVars
FairLeaseSpec == LeaseSpec /\ LeaseFairness

----------------------------------------------------------------------------
(* Properties.                                                             *)

AnsweredOutcome(d) == dlv[d].pc = "answered" /\ dlv[d].answer \in Outcomes
AnsweredFailure(d) == dlv[d].pc = "answered" /\ dlv[d].answer \in Failures

\* At-least-once delivery is invisible to the workflow: every delivery that
\* answers an outcome answers the same one, whatever attempt it belongs to,
\* and the row holds it; so a retry after a lost reply cannot change the
\* measurement (ADR-002: the key returns the prior durable result).
OneOutcome ==
    \A d \in Deliveries : AnsweredOutcome(d) =>
        /\ row.status = "SUCCEEDED"
        /\ row.answer = dlv[d].answer

\* A failed attempt is replayed exactly (ADR-005): two deliveries of one
\* attempt that were both told a recorded failure were told the same one, and
\* that attempt cannot have been taken up again behind their backs.
FailuresReplayed ==
    \A d \in Deliveries : AnsweredFailure(d) =>
        \/ row.attempt > dlv[d].attempt
        \/ /\ row.attempt = dlv[d].attempt /\ row.status = "FAILED"
           /\ row.answer = dlv[d].answer

\* A stored outcome is final: no late delivery, failure report, expiry or
\* takeover ever replaces it.
OutcomeIsFinal == [][row.status = "SUCCEEDED" => row' = row]_leaseVars

\* The paid call of a key runs in one delivery at a time (ADR-005: "prevents
\* two at-least-once deliveries from calling a paid model together").
NoConcurrentPaidCalls ==
    \A d, e \in Deliveries :
        dlv[d].pc = "running" /\ dlv[e].pc = "running" => d = e

\* Told BUSY is not told for ever: a dead holder's lease runs out, a live one
\* ends, and the waiting delivery gets past its claim.
BusyResolves ==
    \A d \in Deliveries :
        dlv[d].pc = "busy" ~> dlv[d].pc \notin {"busy", "claiming"}
=============================================================================
