---------------------------- MODULE ActivityRow ----------------------------
(***************************************************************************)
(* One row of lexsond.activity_executions: the durable record behind an    *)
(* idempotency key, and the four SQL functions that read and change it     *)
(* (src/migrations/0001_core.sql).  Each of them locks the row, so each is *)
(* one atomic step; the modules that use these operators decide who calls  *)
(* them, when a lease is still live, and whether the caller hears back.    *)
(*                                                                         *)
(* The run and the activity of a row follow from its key and are left out; *)
(* the input reference is kept, since a caller could pass another one.     *)
(***************************************************************************)
EXTENDS Naturals

CONSTANTS NoToken,          \* lease_token IS NULL
          NoInput,          \* input_ref of a row that does not exist yet
          NoAnswer          \* neither an outcome nor a failure is stored

NoExecution == [ status |-> "NONE", attempt |-> 0, token |-> NoToken,
                 input |-> NoInput, answer |-> NoAnswer ]

Leased(input, attempt, token) ==
    [ status |-> "LEASED", attempt |-> attempt, token |-> token,
      input |-> input, answer |-> NoAnswer ]

\* The caller and the row disagree on what the key stands for.
Foreign(row, input) == row.status # "NONE" /\ row.input # input

----------------------------------------------------------------------------
(* Wrong claims: one that forgets the stored outcome, one that forgets a    *)
(* recorded failure, one that ignores leases, one that never lets them end. *)

ForgetsOutcome(row, input, attempt, token, live) ==
    IF row.status = "NONE" THEN "ACQUIRED"
    ELSE IF Foreign(row, input) \/ attempt < row.attempt THEN "CONFLICT"
    ELSE IF row.status = "FAILED" /\ attempt = row.attempt THEN "FAILED"
    ELSE IF row.status = "LEASED" /\ token # row.token /\ live THEN "BUSY"
    ELSE "ACQUIRED"

ForgetsFailure(row, input, attempt, token, live) ==
    IF row.status = "NONE" THEN "ACQUIRED"
    ELSE IF Foreign(row, input) \/ attempt < row.attempt THEN "CONFLICT"
    ELSE IF row.status = "SUCCEEDED" THEN "COMPLETED"
    ELSE IF row.status = "LEASED" /\ token # row.token /\ live THEN "BUSY"
    ELSE "ACQUIRED"

IgnoresLease(row, input, attempt, token, live) ==
    IF row.status = "NONE" THEN "ACQUIRED"
    ELSE IF Foreign(row, input) \/ attempt < row.attempt THEN "CONFLICT"
    ELSE IF row.status = "SUCCEEDED" THEN "COMPLETED"
    ELSE IF row.status = "FAILED" /\ attempt = row.attempt THEN "FAILED"
    ELSE "ACQUIRED"

IgnoresExpiry(row, input, attempt, token, live) ==
    IF row.status = "NONE" THEN "ACQUIRED"
    ELSE IF Foreign(row, input) \/ attempt < row.attempt THEN "CONFLICT"
    ELSE IF row.status = "SUCCEEDED" THEN "COMPLETED"
    ELSE IF row.status = "FAILED" /\ attempt = row.attempt THEN "FAILED"
    ELSE IF row.status = "LEASED" /\ token # row.token THEN "BUSY"
    ELSE "ACQUIRED"

----------------------------------------------------------------------------
(***************************************************************************)
(* claim_activity_execution: the disposition it answers, "CONFLICT" when   *)
(* it raises 55000, and the row it leaves.  live says whether              *)
(* lease_expires_at is in the future.                                      *)
(***************************************************************************)
ClaimDisposition(row, input, attempt, token, live) ==
    IF row.status = "NONE" THEN "ACQUIRED"
    ELSE IF Foreign(row, input) \/ attempt < row.attempt THEN "CONFLICT"
    ELSE IF row.status = "SUCCEEDED" THEN "COMPLETED"
    ELSE IF row.status = "FAILED" /\ attempt = row.attempt THEN "FAILED"
    ELSE IF row.status = "LEASED" /\ token # row.token /\ live THEN "BUSY"
    ELSE "ACQUIRED"

RowAfterClaim(row, input, attempt, token, live) ==
    IF ClaimDisposition(row, input, attempt, token, live) = "ACQUIRED"
       /\ ~(row.status = "LEASED" /\ row.token = token)
    THEN Leased(input, attempt, token)
    ELSE row

\* The caller still owns the lease, as renew, complete and fail test it.
\* None of the three looks at the expiry time.
Owns(row, input, attempt, token) ==
    row.status = "LEASED" /\ row.input = input
    /\ row.attempt = attempt /\ row.token = token

(***************************************************************************)
(* complete_ and fail_activity_execution.  Storing again exactly what is   *)
(* stored succeeds and changes nothing; otherwise the caller must own the  *)
(* lease.  A refused call raises 55000.                                    *)
(***************************************************************************)
AlreadyCompleted(row, input, answer) ==
    row.status = "SUCCEEDED" /\ row.input = input /\ row.answer = answer

AlreadyFailed(row, input, attempt, answer) ==
    /\ row.status = "FAILED" /\ row.input = input
    /\ row.attempt = attempt /\ row.answer = answer

CompleteAccepted(row, input, attempt, token, answer) ==
    AlreadyCompleted(row, input, answer) \/ Owns(row, input, attempt, token)

FailAccepted(row, input, attempt, token, answer) ==
    AlreadyFailed(row, input, attempt, answer) \/ Owns(row, input, attempt, token)

\* The row once the call is accepted; an accepted repeat leaves it as it is.
Closed(row, status, answer) ==
    [row EXCEPT !.status = status, !.token = NoToken, !.answer = answer]

RowAfterComplete(row, input, attempt, token, answer) ==
    IF ~AlreadyCompleted(row, input, answer) /\ Owns(row, input, attempt, token)
    THEN Closed(row, "SUCCEEDED", answer) ELSE row

RowAfterFail(row, input, attempt, token, answer) ==
    IF ~AlreadyFailed(row, input, attempt, answer) /\ Owns(row, input, attempt, token)
    THEN Closed(row, "FAILED", answer) ELSE row
=============================================================================
