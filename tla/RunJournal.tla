----------------------------- MODULE RunJournal -----------------------------
(***************************************************************************)
(* The durable side of a canary run: the journal of its events, and the    *)
(* row of lexsond.workflow_runs that PostgreSQL derives from each event    *)
(* by itself (append_workflow_event in src/migrations/0001_core.sql, called *)
(* by PostgresWorkflowJournal in src/src/lexsond/storage/postgres.py).     *)
(*                                                                         *)
(* The Python side validates an event by projecting the stored history and *)
(* the candidate (CanaryState); the SQL side updates the row by rules of   *)
(* its own.  Both are modelled, so that they can disagree.                 *)
(***************************************************************************)
EXTENDS CanaryState

\* create_workflow_run: the row exists, and is RUNNING, before any event.
CreatedRun == [ status |-> "RUNNING", phase |-> "NONE", seq |-> 0,
                targetFailed |-> FALSE, ref |-> NoRef, code |-> NoCode ]

RunType == [ status : Statuses, phase : Phases, seq : Nat,
             targetFailed : BOOLEAN, ref : Refs, code : Codes ]

WorkflowTerminals == FailureTerminals \cup {"WORKFLOW_SUCCEEDED"}

\* An exact duplicate of a stored event is accepted and changes nothing.
Stored(journal, e) == e.seq \in 1..Len(journal) /\ journal[e.seq] = e

\* What append_workflow_event raises for is what this refuses.  The update of
\* the row is its compare-and-append: it finds the expected sequence and RUNNING.
SqlAccepts(run, e) ==
    /\ run.seq = 0 <=> e.type = "WORKFLOW_STARTED"
    /\ e.type = "ACTIVITY_COMPLETED" => e.ref # NoRef /\ e.outcome \in TargetStatuses
    /\ e.type \in FailureTerminals => e.code # NoCode
    /\ run.seq = e.seq - 1 /\ run.status = "RUNNING"

\* Wrong: a terminal event leaves the row in the phase the run stopped in.
KeepsPhase(run, e) ==
    [ seq          |-> e.seq,
      status       |-> IF e.type \in WorkflowTerminals THEN StatusOf(e.type) ELSE run.status,
      phase        |-> e.phase,
      targetFailed |-> run.targetFailed
                       \/ (e.type = "ACTIVITY_COMPLETED" /\ e.outcome = "TARGET_FAILED"),
      ref          |-> IF e.type = "ACTIVITY_COMPLETED" THEN e.ref ELSE run.ref,
      code         |-> IF e.type \in FailureTerminals THEN e.code ELSE run.code ]

SqlAdvance(run, e) ==
    [ seq          |-> e.seq,
      status       |-> IF e.type \in WorkflowTerminals THEN StatusOf(e.type) ELSE run.status,
      phase        |-> IF e.type \in WorkflowTerminals THEN "COMPLETE" ELSE e.phase,
      targetFailed |-> run.targetFailed
                       \/ (e.type = "ACTIVITY_COMPLETED" /\ e.outcome = "TARGET_FAILED"),
      ref          |-> IF e.type = "ACTIVITY_COMPLETED" THEN e.ref ELSE run.ref,
      code         |-> IF e.type \in FailureTerminals THEN e.code ELSE run.code ]

\* PostgresWorkflowJournal.append stores e: both sides accept it.
CanAppend(run, proj, e) ==
    /\ run.seq = e.seq - 1
    /\ Accepts(proj, e)
    /\ SqlAccepts(run, e)

(***************************************************************************)
(* The row says what the projection of the history says.  The one          *)
(* difference the code has: a run without events is RUNNING in SQL and     *)
(* NOT_STARTED in Python.                                                  *)
(***************************************************************************)
RowAgrees(run, proj) ==
    /\ run.seq = proj.seq
    /\ run.status = IF proj.seq = 0 THEN "RUNNING" ELSE proj.status
    /\ run.phase = proj.phase
    /\ run.targetFailed = proj.targetFailed
    /\ run.ref = proj.ref
    /\ run.code = proj.code
=============================================================================
