-------------------------- MODULE RunJournalProofs --------------------------
(***************************************************************************)
(* Lemmas about the state machine of a canary run (CanaryState) and about  *)
(* the two advances an append makes, Python's and PostgreSQL's              *)
(* (RunJournal).  Nothing here depends on who appends.                     *)
(***************************************************************************)
EXTENDS RunJournal, TLAPS

\* The range of ACTIVITY_ORDER, as a set the provers can enumerate.
LEMMA ActivitiesListed ==
    Activities = { "VALIDATE", "PREFLIGHT", "EXECUTE", "NORMALIZE",
                   "SCORE", "PERSIST", "COMPARE", "NOTIFY" }
<1>1. \A i \in 1..8 : i = 1 \/ i = 2 \/ i = 3 \/ i = 4 \/ i = 5 \/ i = 6 \/ i = 7 \/ i = 8
  OBVIOUS
<1>2. Steps = {1, 2, 3, 4, 5, 6, 7, 8}
  BY <1>1 DEF Steps
<1> QED
  BY <1>2 DEF Activities, ActivityOrder

\* NO_ACTIVITY (None in the code) is not an activity.
LEMMA NoActivityIsNone == NoActivity \notin Activities
BY ActivitiesListed DEF NoActivity

\* Every activity has its phase, as ACTIVITY_PHASE says.
LEMMA ActivityIsPhase == Activities \subseteq Phases
BY DEF Phases

\* The absent failure is typed.
LEMMA NoFailureType == NoFailure \in FailureType
BY DEF NoFailure, FailureType, Codes

\* The absent reference is typed.
LEMMA NoRefType == NoRef \in Refs
BY DEF Refs

\* next_activity is an activity or None.
LEMMA NextActivityType ==
    ASSUME NEW s
    PROVE  NextActivity(s) \in Activities \cup {NoActivity}
BY DEF NextActivity, Activities

\* The events, one lemma for each, are applied to typed states and give typed
\* states; the fields that PostgreSQL keeps a copy of are listed.
LEMMA RunStartApplied ==
    ASSUME NEW s \in StateType, NEW e \in EventType, e.type = "WORKFLOW_STARTED"
    PROVE  LET t == ApplyEvent(s, e) IN
           /\ t \in StateType
           /\ t.seq = e.seq /\ t.status = "RUNNING" /\ t.phase = s.phase
           /\ t.ref = s.ref /\ t.targetFailed = s.targetFailed /\ t.code = s.code
           /\ t.attempts = s.attempts /\ t.current = s.current /\ t.attempt = s.attempt
<1>1. ApplyEvent(s, e) = [s EXCEPT !.seq = e.seq, !.status = "RUNNING"]
  BY DEF ApplyEvent, FailureTerminals
<1> QED
  BY <1>1 DEF StateType, EventType, Statuses, TerminalStatuses

\* ACTIVITY_STARTED moves the phase, and nothing else the row keeps.
LEMMA ActivityStartApplied ==
    ASSUME NEW s \in StateType, NEW e \in EventType, e.type = "ACTIVITY_STARTED",
           e.act \in Activities
    PROVE  LET t == ApplyEvent(s, e) IN
           /\ t \in StateType
           /\ t.seq = e.seq /\ t.status = s.status /\ t.phase = e.phase
           /\ t.ref = s.ref /\ t.targetFailed = s.targetFailed /\ t.code = s.code
           /\ t.current = e.act /\ t.attempt = e.attempt
           /\ t.attempts = [s.attempts EXCEPT ![e.act] = e.attempt]
<1>1. ApplyEvent(s, e) = ApplyActivityStart(s, e)
  BY DEF ApplyEvent, FailureTerminals
<1>2. [s.attempts EXCEPT ![e.act] = e.attempt] \in [Activities -> Nat]
  BY DEF StateType, EventType
<1>3. ApplyActivityStart(s, e) \in StateType
  BY <1>2, NoFailureType DEF StateType, EventType, ApplyActivityStart
<1>4. LET t == ApplyActivityStart(s, e) IN
      /\ t.seq = e.seq /\ t.status = s.status /\ t.phase = e.phase
      /\ t.ref = s.ref /\ t.targetFailed = s.targetFailed /\ t.code = s.code
      /\ t.current = e.act /\ t.attempt = e.attempt
  BY DEF StateType, ApplyActivityStart
<1>5. ApplyActivityStart(s, e).attempts = [s.attempts EXCEPT ![e.act] = e.attempt]
  BY DEF StateType, ApplyActivityStart
<1> QED
  BY <1>1, <1>3, <1>4, <1>5

\* ACTIVITY_ATTEMPT_FAILED changes nothing the row keeps but the sequence.
LEMMA AttemptFailureApplied ==
    ASSUME NEW s \in StateType, NEW e \in EventType, e.type = "ACTIVITY_ATTEMPT_FAILED"
    PROVE  LET t == ApplyEvent(s, e) IN
           /\ t \in StateType
           /\ t.seq = e.seq /\ t.status = s.status /\ t.phase = s.phase
           /\ t.ref = s.ref /\ t.targetFailed = s.targetFailed /\ t.code = s.code
           /\ t.current = NoActivity /\ t.attempt = 0 /\ t.attempts = s.attempts
<1>1. ApplyEvent(s, e) = ApplyAttemptFailure(s, e)
  BY DEF ApplyEvent, FailureTerminals
<1>2. ApplyAttemptFailure(s, e) \in StateType
  BY DEF StateType, EventType, ApplyAttemptFailure
<1>3. LET t == ApplyAttemptFailure(s, e) IN
      /\ t.seq = e.seq /\ t.status = s.status /\ t.phase = s.phase
      /\ t.ref = s.ref /\ t.targetFailed = s.targetFailed /\ t.code = s.code
      /\ t.current = NoActivity /\ t.attempt = 0 /\ t.attempts = s.attempts
  BY DEF StateType, ApplyAttemptFailure
<1> QED
  BY <1>1, <1>2, <1>3

\* ACTIVITY_COMPLETED sets the reference and may mark the target failed.
LEMMA CompletionApplied ==
    ASSUME NEW s \in StateType, NEW e \in EventType, e.type = "ACTIVITY_COMPLETED",
           e.act \in Activities
    PROVE  LET t == ApplyEvent(s, e) IN
           /\ t \in StateType
           /\ t.seq = e.seq /\ t.status = s.status /\ t.phase = s.phase
           /\ t.ref = e.ref /\ t.code = s.code
           /\ t.targetFailed = (s.targetFailed \/ e.outcome = "TARGET_FAILED")
           /\ t.current = NoActivity /\ t.attempt = 0 /\ t.attempts = s.attempts
           /\ t.completed = Append(s.completed, e.act)
<1>1. ApplyEvent(s, e) = ApplyCompletion(s, e)
  BY DEF ApplyEvent, FailureTerminals
<1>2. Append(s.completed, e.act) \in Seq(Activities)
  BY DEF StateType
<1>3. (s.targetFailed \/ e.outcome = "TARGET_FAILED") \in BOOLEAN
  BY DEF StateType
<1>4. (IF e.act = "PREFLIGHT" /\ e.outcome = "TARGET_FAILED"
       THEN NormalizeIndex ELSE s.next + 1) \in Nat
  BY DEF StateType, NormalizeIndex
<1>5. ApplyCompletion(s, e) \in StateType
  BY <1>2, <1>3, <1>4, NoFailureType DEF StateType, EventType, ApplyCompletion
<1>6. LET t == ApplyCompletion(s, e) IN
      t.targetFailed = (s.targetFailed \/ e.outcome = "TARGET_FAILED")
  BY DEF StateType, ApplyCompletion
<1> QED
  BY <1>1, <1>5, <1>6 DEF StateType, EventType, ApplyCompletion

\* A failing terminal event sets status, phase and error code.
LEMMA FailureTerminalApplied ==
    ASSUME NEW s \in StateType, NEW e \in EventType, e.type \in FailureTerminals
    PROVE  LET t == ApplyEvent(s, e) IN
           /\ t \in StateType
           /\ t.seq = e.seq /\ t.status = StatusOf(e.type) /\ t.phase = "COMPLETE"
           /\ t.ref = s.ref /\ t.targetFailed = s.targetFailed /\ t.code = e.code
           /\ t.current = NoActivity /\ t.attempt = 0 /\ t.attempts = s.attempts
<1>1. ApplyEvent(s, e) = ApplyFailureTerminal(s, e)
  BY DEF ApplyEvent, FailureTerminals
<1>2. StatusOf(e.type) \in Statuses
  BY DEF StatusOf, Statuses, TerminalStatuses, FailureTerminals
<1>3. ApplyFailureTerminal(s, e) \in StateType
  BY <1>2, NoFailureType DEF StateType, EventType, Phases, ApplyFailureTerminal
<1>4. LET t == ApplyFailureTerminal(s, e) IN
      /\ t.seq = e.seq /\ t.status = StatusOf(e.type) /\ t.phase = "COMPLETE"
      /\ t.ref = s.ref /\ t.targetFailed = s.targetFailed /\ t.code = e.code
      /\ t.current = NoActivity /\ t.attempt = 0 /\ t.attempts = s.attempts
  BY DEF StateType, ApplyFailureTerminal
<1> QED
  BY <1>1, <1>3, <1>4

\* WORKFLOW_SUCCEEDED sets status and phase and keeps the reference.
LEMMA SuccessApplied ==
    ASSUME NEW s \in StateType, NEW e \in EventType, e.type = "WORKFLOW_SUCCEEDED"
    PROVE  LET t == ApplyEvent(s, e) IN
           /\ t \in StateType
           /\ t.seq = e.seq /\ t.status = "SUCCEEDED" /\ t.phase = "COMPLETE"
           /\ t.ref = s.ref /\ t.targetFailed = s.targetFailed /\ t.code = s.code
           /\ t.current = s.current /\ t.attempt = s.attempt /\ t.attempts = s.attempts
<1>1. ApplyEvent(s, e) = [s EXCEPT !.seq = e.seq, !.status = "SUCCEEDED", !.phase = "COMPLETE"]
  BY DEF ApplyEvent, FailureTerminals
<1> QED
  BY <1>1 DEF StateType, EventType, Statuses, TerminalStatuses, Phases

\* Every event PostgreSQL stores is one that Python accepts, and of a known type.
LEMMA AcceptedEvent ==
    ASSUME NEW s \in StateType, NEW e \in EventType, Accepts(s, e)
    PROVE  /\ e.seq = s.seq + 1
           /\ \/ e.type = "WORKFLOW_STARTED" /\ s.status = "NOT_STARTED" /\ e.phase = "NONE"
                 /\ e.seq = 1
              \/ /\ s.status = "RUNNING"
                 /\ \/ e.type = "ACTIVITY_STARTED" /\ AcceptsActivityStart(s, e)
                    \/ e.type = "ACTIVITY_ATTEMPT_FAILED" /\ AcceptsAttemptFailure(s, e)
                    \/ e.type = "ACTIVITY_COMPLETED" /\ AcceptsCompletion(s, e)
                    \/ e.type \in FailureTerminals /\ e.code # NoCode
                    \/ e.type = "WORKFLOW_SUCCEEDED" /\ AcceptsSuccess(s, e)
BY DEF Accepts

\* A stored event leads to a typed state, one event further.
LEMMA ApplyEventType ==
    ASSUME NEW s \in StateType, NEW e \in EventType, Accepts(s, e)
    PROVE  ApplyEvent(s, e) \in StateType /\ ApplyEvent(s, e).seq = e.seq
<1>1. CASE e.type = "WORKFLOW_STARTED"
  BY <1>1, RunStartApplied
<1>2. CASE e.type = "ACTIVITY_STARTED" /\ AcceptsActivityStart(s, e)
  <2>1. e.act \in Activities
    BY <1>2 DEF AcceptsActivityStart, EventType
  <2> QED
    BY <1>2, <2>1, ActivityStartApplied
<1>3. CASE e.type = "ACTIVITY_ATTEMPT_FAILED"
  BY <1>3, AttemptFailureApplied
<1>4. CASE e.type = "ACTIVITY_COMPLETED" /\ AcceptsCompletion(s, e)
  <2>1. e.act \in Activities
    BY <1>4 DEF AcceptsCompletion, RequireCurrentActivity, EventType
  <2> QED
    BY <1>4, <2>1, CompletionApplied
<1>5. CASE e.type \in FailureTerminals
  BY <1>5, FailureTerminalApplied
<1>6. CASE e.type = "WORKFLOW_SUCCEEDED"
  BY <1>6, SuccessApplied
<1> QED
  BY <1>1, <1>2, <1>3, <1>4, <1>5, <1>6, AcceptedEvent

\* The two advances agree: if the row said what the projection says, it still
\* does after an append that both sides accept.
LEMMA AdvancesAgree ==
    ASSUME NEW s \in StateType, NEW r \in RunType, NEW e \in EventType,
           RowAgrees(r, s), CanAppend(r, s, e), s.seq = 0 => s.phase = "NONE"
    PROVE  RowAgrees(SqlAdvance(r, e), ApplyEvent(s, e))
<1> DEFINE t == ApplyEvent(s, e)
           q == SqlAdvance(r, e)
<1>a. Accepts(s, e) /\ SqlAccepts(r, e)
  BY DEF CanAppend
<1>b. r.status = "RUNNING" /\ e.seq = s.seq + 1 /\ e.seq # 0
  BY <1>a, AcceptedEvent DEF SqlAccepts, StateType
<1>c. /\ r.phase = s.phase /\ r.targetFailed = s.targetFailed
      /\ r.ref = s.ref /\ r.code = s.code
  BY DEF RowAgrees
<1>q. /\ q.seq = e.seq
      /\ q.status = IF e.type \in WorkflowTerminals THEN StatusOf(e.type) ELSE "RUNNING"
      /\ q.phase = IF e.type \in WorkflowTerminals THEN "COMPLETE" ELSE e.phase
      /\ q.targetFailed = (r.targetFailed
                           \/ (e.type = "ACTIVITY_COMPLETED" /\ e.outcome = "TARGET_FAILED"))
      /\ q.ref = IF e.type = "ACTIVITY_COMPLETED" THEN e.ref ELSE r.ref
      /\ q.code = IF e.type \in FailureTerminals THEN e.code ELSE r.code
  BY <1>b DEF SqlAdvance
<1> HIDE DEF q, t
<1> SUFFICES /\ t.seq = e.seq /\ q.status = t.status /\ q.phase = t.phase
             /\ q.targetFailed = t.targetFailed /\ q.ref = t.ref /\ q.code = t.code
  <2>1. RowAgrees(q, t)
    BY <1>b, <1>q DEF RowAgrees
  <2> QED
    BY <2>1 DEF q, t
<1>1. CASE e.type = "WORKFLOW_STARTED" /\ e.phase = "NONE" /\ e.seq = 1
  <2>1. s.phase = "NONE"
    BY <1>1, <1>b DEF StateType
  <2>2. t.status = "RUNNING" /\ t.phase = "NONE" /\ t.seq = e.seq /\ t.ref = s.ref
        /\ t.targetFailed = s.targetFailed /\ t.code = s.code
    BY <1>1, <2>1, RunStartApplied DEF t
  <2> QED
    BY <1>1, <1>c, <1>q, <2>1, <2>2 DEF WorkflowTerminals, FailureTerminals, RunType
<1>2. CASE s.status = "RUNNING" /\ e.type = "ACTIVITY_STARTED" /\ AcceptsActivityStart(s, e)
  <2>1. e.act \in Activities
    BY <1>2 DEF AcceptsActivityStart, EventType
  <2>2. t.status = "RUNNING" /\ t.phase = e.phase /\ t.seq = e.seq /\ t.ref = s.ref
        /\ t.targetFailed = s.targetFailed /\ t.code = s.code
    BY <1>2, <2>1, ActivityStartApplied DEF t
  <2> QED
    BY <1>2, <1>c, <1>q, <2>2 DEF WorkflowTerminals, FailureTerminals, RunType
<1>3. CASE s.status = "RUNNING" /\ e.type = "ACTIVITY_ATTEMPT_FAILED" /\ AcceptsAttemptFailure(s, e)
  <2>1. e.phase = s.phase
    BY <1>3 DEF AcceptsAttemptFailure, RequireCurrentActivity
  <2>2. t.status = "RUNNING" /\ t.phase = e.phase /\ t.seq = e.seq /\ t.ref = s.ref
        /\ t.targetFailed = s.targetFailed /\ t.code = s.code
    BY <1>3, <2>1, AttemptFailureApplied DEF t
  <2> QED
    BY <1>3, <1>c, <1>q, <2>2 DEF WorkflowTerminals, FailureTerminals, RunType
<1>4. CASE s.status = "RUNNING" /\ e.type = "ACTIVITY_COMPLETED" /\ AcceptsCompletion(s, e)
  <2>1. e.phase = s.phase /\ e.act \in Activities
    BY <1>4 DEF AcceptsCompletion, RequireCurrentActivity, EventType
  <2>2. t.status = "RUNNING" /\ t.phase = e.phase /\ t.seq = e.seq /\ t.ref = e.ref
        /\ t.targetFailed = (s.targetFailed \/ e.outcome = "TARGET_FAILED")
        /\ t.code = s.code
    BY <1>4, <2>1, CompletionApplied DEF t
  <2>3. q.targetFailed = t.targetFailed
    BY <1>4, <1>c, <1>q, <2>2
  <2> QED
    BY <1>4, <1>c, <1>q, <2>2, <2>3 DEF WorkflowTerminals, FailureTerminals
<1>5. CASE e.type \in FailureTerminals
  <2>1. t.status = StatusOf(e.type) /\ t.phase = "COMPLETE" /\ t.seq = e.seq
        /\ t.ref = s.ref /\ t.targetFailed = s.targetFailed /\ t.code = e.code
    BY <1>5, FailureTerminalApplied DEF t
  <2> QED
    BY <1>5, <1>c, <1>q, <2>1 DEF WorkflowTerminals, FailureTerminals, RunType
<1>6. CASE e.type = "WORKFLOW_SUCCEEDED"
  <2>1. t.status = "SUCCEEDED" /\ t.phase = "COMPLETE" /\ t.seq = e.seq
        /\ t.ref = s.ref /\ t.targetFailed = s.targetFailed /\ t.code = s.code
    BY <1>6, SuccessApplied DEF t
  <2>2. StatusOf(e.type) = "SUCCEEDED"
    BY <1>6 DEF StatusOf
  <2> QED
    BY <1>6, <1>c, <1>q, <2>1, <2>2 DEF WorkflowTerminals, FailureTerminals, RunType
<1> QED
  BY <1>a, <1>1, <1>2, <1>3, <1>4, <1>5, <1>6, AcceptedEvent

\* Advancing the row keeps its type.
LEMMA SqlAdvanceType ==
    ASSUME NEW r \in RunType, NEW e \in EventType
    PROVE  SqlAdvance(r, e) \in RunType
<1>1. (IF e.type \in WorkflowTerminals THEN StatusOf(e.type) ELSE r.status) \in Statuses
  BY DEF StatusOf, Statuses, TerminalStatuses, RunType
<1>2. (IF e.type \in WorkflowTerminals THEN "COMPLETE" ELSE e.phase) \in Phases
  BY DEF Phases, EventType
<1>3. (r.targetFailed \/ (e.type = "ACTIVITY_COMPLETED" /\ e.outcome = "TARGET_FAILED"))
      \in BOOLEAN
  BY DEF RunType
<1> QED
  BY <1>1, <1>2, <1>3 DEF SqlAdvance, RunType, EventType

----------------------------------------------------------------------------
(* The plan of a run and the budget of its attempts.                       *)

\* Where a run stands in ACTIVITY_ORDER is what it has completed, but for an
\* EXECUTE left out.
Planned(s) ==
    /\ s.next \in 1..9
    /\ \/ s.next = Len(s.completed) + 1
       \/ s.next = Len(s.completed) + 2 /\ s.next >= 4
    /\ s.status = "SUCCEEDED" => s.next = 9

\* An attempt is one of the next activity, an activity that has not come up
\* was never tried, one that comes up anew neither, and a retry is only
\* scheduled while attempts are left.
Budget(s, max) ==
    /\ s.current \in Activities =>
        /\ s.current = NextActivity(s)
        /\ s.attempt = s.attempts[s.current] /\ s.attempt > 0
    /\ \A k \in Steps : k > s.next => s.attempts[ActivityOrder[k]] = 0
    /\ ~IsTerminal(s) /\ s.current = NoActivity /\ s.pending = NoFailure /\ s.next \in Steps
        => s.attempts[ActivityOrder[s.next]] = 0
    /\ s.retry /\ s.current = NoActivity /\ s.next \in Steps
        => s.attempts[ActivityOrder[s.next]] < max

\* What each event does to the plan and to a scheduled retry.
LEMMA PlanApplied ==
    ASSUME NEW s \in StateType, NEW e \in EventType
    PROVE  LET t == ApplyEvent(s, e) IN
           /\ e.type \in {"WORKFLOW_STARTED", "WORKFLOW_SUCCEEDED"} =>
                /\ t.next = s.next /\ t.completed = s.completed
                /\ t.pending = s.pending /\ t.retry = s.retry
           /\ e.type \in FailureTerminals \cup {"ACTIVITY_STARTED"} =>
                /\ t.next = s.next /\ t.completed = s.completed
                /\ t.pending = NoFailure /\ t.retry = FALSE
           /\ e.type = "ACTIVITY_ATTEMPT_FAILED" =>
                /\ t.next = s.next /\ t.completed = s.completed
                /\ t.pending = e.failure /\ t.retry = e.retry
           /\ e.type = "ACTIVITY_COMPLETED" =>
                /\ t.completed = Append(s.completed, e.act) /\ t.retry = FALSE
                /\ t.next = IF e.act = "PREFLIGHT" /\ e.outcome = "TARGET_FAILED"
                            THEN NormalizeIndex ELSE s.next + 1
<1> DEFINE t == ApplyEvent(s, e)
<1>1. CASE e.type = "WORKFLOW_STARTED"
  <2>1. t = [s EXCEPT !.seq = e.seq, !.status = "RUNNING"]
    BY <1>1 DEF ApplyEvent, FailureTerminals
  <2> QED
    BY <1>1, <2>1 DEF StateType, FailureTerminals
<1>2. CASE e.type = "ACTIVITY_STARTED"
  <2>1. t = ApplyActivityStart(s, e)
    BY <1>2 DEF ApplyEvent, FailureTerminals
  <2> QED
    BY <1>2, <2>1 DEF StateType, FailureTerminals, ApplyActivityStart
<1>3. CASE e.type = "ACTIVITY_ATTEMPT_FAILED"
  <2>1. t = ApplyAttemptFailure(s, e)
    BY <1>3 DEF ApplyEvent, FailureTerminals
  <2> QED
    BY <1>3, <2>1 DEF StateType, FailureTerminals, ApplyAttemptFailure
<1>4. CASE e.type = "ACTIVITY_COMPLETED"
  <2>1. t = ApplyCompletion(s, e)
    BY <1>4 DEF ApplyEvent, FailureTerminals
  <2> QED
    BY <1>4, <2>1 DEF StateType, FailureTerminals, ApplyCompletion
<1>5. CASE e.type \in FailureTerminals
  <2>1. t = ApplyFailureTerminal(s, e)
    BY <1>5 DEF ApplyEvent, FailureTerminals
  <2> QED
    BY <1>5, <2>1 DEF StateType, FailureTerminals, ApplyFailureTerminal
<1>6. CASE e.type = "WORKFLOW_SUCCEEDED"
  <2>1. t = [s EXCEPT !.seq = e.seq, !.status = "SUCCEEDED", !.phase = "COMPLETE"]
    BY <1>6 DEF ApplyEvent, FailureTerminals
  <2> QED
    BY <1>6, <2>1 DEF StateType, FailureTerminals
<1> QED
  BY <1>1, <1>2, <1>3, <1>4, <1>5, <1>6

\* Positions in ACTIVITY_ORDER: a position is read off its activity.
LEMMA OrderIsOneToOne ==
    /\ \A j, k \in Steps : ActivityOrder[j] = ActivityOrder[k] => j = k
    /\ \A k \in Steps : ActivityOrder[k] \in Activities
    /\ ActivityOrder[2] = "PREFLIGHT" /\ ActivityOrder[3] = "EXECUTE" /\ ActivityOrder[6] = "PERSIST"
    /\ \A k \in Steps : ActivityOrder[k] \in {"VALIDATE", "PREFLIGHT", "EXECUTE"} <=> k < 4
<1>1. \A i \in 1..8 : i = 1 \/ i = 2 \/ i = 3 \/ i = 4 \/ i = 5 \/ i = 6 \/ i = 7 \/ i = 8
  OBVIOUS
<1>2. Steps = {1, 2, 3, 4, 5, 6, 7, 8}
  BY <1>1 DEF Steps
<1>3. /\ ActivityOrder[1] = "VALIDATE" /\ ActivityOrder[2] = "PREFLIGHT"
      /\ ActivityOrder[3] = "EXECUTE" /\ ActivityOrder[4] = "NORMALIZE"
      /\ ActivityOrder[5] = "SCORE" /\ ActivityOrder[6] = "PERSIST"
      /\ ActivityOrder[7] = "COMPARE" /\ ActivityOrder[8] = "NOTIFY"
  BY DEF ActivityOrder
<1>4. \A j, k \in Steps : ActivityOrder[j] = ActivityOrder[k] => j = k
  BY <1>2, <1>3
<1>5. \A k \in Steps : ActivityOrder[k] \in Activities
  BY DEF Activities
<1>6. \A k \in Steps : ActivityOrder[k] \in {"VALIDATE", "PREFLIGHT", "EXECUTE"} <=> k < 4
  BY <1>2, <1>3
<1> QED
  BY <1>3, <1>4, <1>5, <1>6

\* Every stored event keeps the plan and the budget, if the attempt it may
\* schedule is within it.
LEMMA ProgressKept ==
    ASSUME NEW s \in StateType, NEW e \in EventType, NEW max \in Nat, Accepts(s, e),
           Planned(s), Budget(s, max),
           e.type = "ACTIVITY_ATTEMPT_FAILED" /\ e.retry => e.attempt < max
    PROVE  Planned(ApplyEvent(s, e)) /\ Budget(ApplyEvent(s, e), max)
<1> DEFINE t == ApplyEvent(s, e)
<1>s. /\ s.next \in 1..9 /\ s.completed \in Seq(Activities) /\ Len(s.completed) \in Nat
      /\ s.attempts \in [Activities -> Nat]
      /\ \A a \in Activities : s.attempts[a] \in Nat
      /\ s.retry \in BOOLEAN
  BY DEF StateType, Planned
<1>o. \A k \in Steps : ActivityOrder[k] \in Activities
  BY OrderIsOneToOne
<1>n. NoActivity \notin Activities
  BY NoActivityIsNone
<1>k. Steps = 1..8
  BY DEF Steps
<1>r. s.status \in {"RUNNING", "NOT_STARTED"} => ~IsTerminal(s) /\ s.status # "SUCCEEDED"
  BY DEF IsTerminal, TerminalStatuses
<1>1. CASE e.type = "WORKFLOW_STARTED" /\ s.status = "NOT_STARTED"
  <2>1. /\ t.next = s.next /\ t.completed = s.completed /\ t.pending = s.pending
        /\ t.retry = s.retry /\ t.status = "RUNNING" /\ t.attempts = s.attempts
        /\ t.current = s.current /\ t.attempt = s.attempt
    BY <1>1, PlanApplied, RunStartApplied
  <2> HIDE DEF t
  <2>2. Planned(t)
    BY <2>1 DEF Planned
  <2>3. Budget(t, max)
    BY <1>1, <1>r, <2>1 DEF Budget, NextActivity
  <2> QED
    BY <2>2, <2>3 DEF t
<1>2. CASE e.type = "ACTIVITY_STARTED" /\ AcceptsActivityStart(s, e) /\ s.status = "RUNNING"
  <2>1. /\ e.act \in Activities /\ e.act = NextActivity(s) /\ e.attempt = s.attempts[e.act] + 1
        /\ e.attempt > 0
    BY <1>2, <1>s DEF AcceptsActivityStart, EventType
  <2>2. /\ t.next = s.next /\ t.completed = s.completed /\ t.retry = FALSE
        /\ t.status = "RUNNING" /\ t.attempts = [s.attempts EXCEPT ![e.act] = e.attempt]
        /\ t.current = e.act /\ t.attempt = e.attempt
    BY <1>2, <2>1, PlanApplied, ActivityStartApplied
  <2> HIDE DEF t
  <2>3. s.next \in Steps /\ e.act = ActivityOrder[s.next]
    BY <1>n, <2>1 DEF NextActivity
  <2>4. t.attempts[e.act] = e.attempt
    BY <1>s, <2>1, <2>2
  <2>5. ASSUME NEW k \in Steps, k > t.next
        PROVE  t.attempts[ActivityOrder[k]] = 0
    <3>1. ActivityOrder[k] # e.act
      BY <2>2, <2>3, <2>5, <1>s, OrderIsOneToOne
    <3>2. t.attempts[ActivityOrder[k]] = s.attempts[ActivityOrder[k]]
      BY <1>o, <1>s, <2>2, <3>1
    <3> QED
      BY <2>2, <2>5, <3>2 DEF Budget
  <2>6. Planned(t)
    BY <1>2, <2>2 DEF Planned
  <2>7. NextActivity(t) = e.act
    BY <2>1, <2>2 DEF NextActivity
  <2>8. Budget(t, max)
    BY <1>n, <2>1, <2>2, <2>4, <2>5, <2>7 DEF Budget
  <2> QED
    BY <2>6, <2>8 DEF t
<1>3. CASE e.type = "ACTIVITY_ATTEMPT_FAILED" /\ AcceptsAttemptFailure(s, e) /\ s.status = "RUNNING"
  <2>1. e.act \in Activities /\ s.current = e.act /\ e.attempt = s.attempt /\ e.failure # NoFailure
    BY <1>3 DEF AcceptsAttemptFailure, RequireCurrentActivity, EventType
  <2>2. /\ t.next = s.next /\ t.completed = s.completed /\ t.retry = e.retry
        /\ t.pending = e.failure /\ t.status = "RUNNING" /\ t.attempts = s.attempts
        /\ t.current = NoActivity
    BY <1>3, PlanApplied, AttemptFailureApplied
  <2> HIDE DEF t
  <2>3. s.next \in Steps /\ e.act = ActivityOrder[s.next] /\ e.attempt = s.attempts[e.act]
    BY <1>n, <2>1 DEF NextActivity, Budget
  <2>4. Planned(t)
    BY <1>3, <2>2 DEF Planned
  <2>5. t.retry => t.attempts[ActivityOrder[t.next]] < max
    BY <1>3, <2>2, <2>3
  <2>6. Budget(t, max)
    BY <1>n, <2>1, <2>2, <2>5 DEF Budget
  <2> QED
    BY <2>4, <2>6 DEF t
<1>4. CASE e.type = "ACTIVITY_COMPLETED" /\ AcceptsCompletion(s, e) /\ s.status = "RUNNING"
  <2>1. e.act \in Activities /\ s.current = e.act
    BY <1>4 DEF AcceptsCompletion, RequireCurrentActivity, EventType
  <2>2. /\ t.completed = Append(s.completed, e.act) /\ t.retry = FALSE
        /\ t.next = IF e.act = "PREFLIGHT" /\ e.outcome = "TARGET_FAILED"
                    THEN NormalizeIndex ELSE s.next + 1
        /\ t.status = "RUNNING" /\ t.attempts = s.attempts /\ t.current = NoActivity
    BY <1>4, <2>1, PlanApplied, CompletionApplied
  <2> HIDE DEF t
  <2>3. s.next \in Steps /\ e.act = ActivityOrder[s.next]
    BY <1>n, <2>1 DEF NextActivity, Budget
  <2>4. e.act = "PREFLIGHT" => s.next = 2
    <3>1. 2 \in Steps /\ ActivityOrder[2] = "PREFLIGHT"
      BY <1>k, OrderIsOneToOne
    <3> QED
      BY <2>3, <3>1, OrderIsOneToOne
  <2>5. /\ t.next \in Nat /\ t.next > s.next /\ t.next <= 9
        /\ t.next = s.next + 1 \/ (t.next = s.next + 2 /\ s.next = 2)
    BY <1>k, <2>2, <2>3, <2>4 DEF NormalizeIndex
  <2>6. Len(t.completed) = Len(s.completed) + 1
    BY <1>s, <2>1, <2>2
  <2>7. \/ s.next = Len(s.completed) + 1
        \/ s.next = Len(s.completed) + 2 /\ s.next >= 4
    BY DEF Planned
  <2>8. Planned(t)
    <3>1. t.next \in 1..9
      BY <1>s, <2>5
    <3>2. \/ t.next = Len(t.completed) + 1
          \/ t.next = Len(t.completed) + 2 /\ t.next >= 4
      BY <1>s, <2>5, <2>6, <2>7
    <3> QED
      BY <2>2, <3>1, <3>2 DEF Planned
  <2>9. \A k \in Steps : k >= t.next => t.attempts[ActivityOrder[k]] = 0
    <3>1. \A k \in Steps : k >= t.next => k > s.next
      BY <1>s, <1>k, <2>5
    <3> QED
      BY <2>2, <3>1 DEF Budget
  <2>10. \A k \in Steps : k > t.next => k >= t.next
    BY <1>k, <2>5
  <2>11. t.next \in Steps => t.attempts[ActivityOrder[t.next]] = 0
    BY <1>k, <2>9
  <2>12. Budget(t, max)
    BY <1>n, <2>2, <2>9, <2>10, <2>11 DEF Budget
  <2> QED
    BY <2>8, <2>12 DEF t
<1>5. CASE e.type \in FailureTerminals
  <2>1. /\ t.next = s.next /\ t.completed = s.completed /\ t.retry = FALSE
        /\ t.attempts = s.attempts /\ t.current = NoActivity /\ t.status = StatusOf(e.type)
    BY <1>5, PlanApplied, FailureTerminalApplied
  <2>2. StatusOf(e.type) \in TerminalStatuses \ {"SUCCEEDED"}
    BY <1>5 DEF StatusOf, FailureTerminals, TerminalStatuses
  <2> HIDE DEF t
  <2>3. Planned(t)
    BY <2>1, <2>2 DEF Planned
  <2>4. Budget(t, max)
    BY <1>n, <2>1, <2>2 DEF Budget, IsTerminal
  <2> QED
    BY <2>3, <2>4 DEF t
<1>6. CASE e.type = "WORKFLOW_SUCCEEDED" /\ AcceptsSuccess(s, e) /\ s.status = "RUNNING"
  <2>1. /\ t.next = s.next /\ t.completed = s.completed /\ t.pending = s.pending
        /\ t.retry = s.retry /\ t.status = "SUCCEEDED" /\ t.attempts = s.attempts
        /\ t.current = s.current /\ t.attempt = s.attempt
    BY <1>6, PlanApplied, SuccessApplied
  <2>2. s.next = 9
    BY <1>6, <1>k, <1>n, <1>o, <1>s DEF AcceptsSuccess, NextActivity
  <2> HIDE DEF t
  <2>3. Planned(t)
    BY <2>1, <2>2 DEF Planned
  <2>4. Budget(t, max)
    BY <1>k, <2>1, <2>2 DEF Budget, NextActivity, IsTerminal, TerminalStatuses
  <2> QED
    BY <2>3, <2>4 DEF t
<1> QED
  BY <1>1, <1>2, <1>3, <1>4, <1>5, <1>6, AcceptedEvent

\* The five things an event can do to a run, as its status, its plan and its
\* attempts show them.
BeginsRun(s, t) ==
    /\ s.status = "NOT_STARTED" /\ t.status = "RUNNING"
    /\ t.next = s.next /\ t.completed = s.completed /\ t.attempts = s.attempts

TriesNext(s, t, max) ==
    /\ s.status = "RUNNING" /\ t.status = "RUNNING" /\ s.next \in Steps
    /\ s.attempts[ActivityOrder[s.next]] < max
    /\ t.attempts = [s.attempts EXCEPT ![ActivityOrder[s.next]] = @ + 1]
    /\ t.next = s.next /\ t.completed = s.completed

FinishesNext(s, t) ==
    /\ s.status = "RUNNING" /\ t.status = "RUNNING" /\ s.next \in Steps
    /\ s.attempts[ActivityOrder[s.next]] > 0
    /\ t.completed = Append(s.completed, ActivityOrder[s.next])
    /\ t.next = s.next + 1 \/ (t.next = 4 /\ s.next = 2)
    /\ t.attempts = s.attempts

EndsRun(s, t) ==
    /\ s.status = "RUNNING" /\ t.status \in TerminalStatuses
    /\ t.status = "SUCCEEDED" => s.next = 9
    /\ t.next = s.next /\ t.completed = s.completed /\ t.attempts = s.attempts

RestsAsIs(s, t) ==
    /\ t.status = s.status
    /\ t.next = s.next /\ t.completed = s.completed /\ t.attempts = s.attempts

Moves(s, t, max) ==
    BeginsRun(s, t) \/ TriesNext(s, t, max) \/ FinishesNext(s, t) \/ EndsRun(s, t) \/ RestsAsIs(s, t)

\* A stored event does one of them, if the attempt it starts is within the
\* budget.
LEMMA ProgressMoves ==
    ASSUME NEW s \in StateType, NEW e \in EventType, NEW max \in Nat, Accepts(s, e),
           Planned(s), Budget(s, max),
           e.type = "ACTIVITY_STARTED" => e.attempt <= max
    PROVE  Moves(s, ApplyEvent(s, e), max)
<1> DEFINE t == ApplyEvent(s, e)
<1>s. /\ s.next \in 1..9 /\ s.completed \in Seq(Activities)
      /\ s.attempts \in [Activities -> Nat]
      /\ \A a \in Activities : s.attempts[a] \in Nat
  BY DEF StateType, Planned
<1>o. \A k \in Steps : ActivityOrder[k] \in Activities
  BY OrderIsOneToOne
<1>n. NoActivity \notin Activities
  BY NoActivityIsNone
<1>k. Steps = 1..8
  BY DEF Steps
<1>1. CASE e.type = "WORKFLOW_STARTED" /\ s.status = "NOT_STARTED"
  <2>1. /\ t.next = s.next /\ t.completed = s.completed /\ t.status = "RUNNING"
        /\ t.attempts = s.attempts
    BY <1>1, PlanApplied, RunStartApplied
  <2> HIDE DEF t
  <2>2. BeginsRun(s, t)
    BY <1>1, <2>1 DEF BeginsRun
  <2> QED
    BY <2>2 DEF t, Moves
<1>2. CASE e.type = "ACTIVITY_STARTED" /\ AcceptsActivityStart(s, e) /\ s.status = "RUNNING"
  <2>1. /\ e.act \in Activities /\ e.act = NextActivity(s) /\ e.attempt = s.attempts[e.act] + 1
    BY <1>2, <1>s DEF AcceptsActivityStart, EventType
  <2>2. /\ t.next = s.next /\ t.completed = s.completed
        /\ t.status = "RUNNING" /\ t.attempts = [s.attempts EXCEPT ![e.act] = e.attempt]
    BY <1>2, <2>1, PlanApplied, ActivityStartApplied
  <2> HIDE DEF t
  <2>3. s.next \in Steps /\ e.act = ActivityOrder[s.next]
    BY <1>n, <2>1 DEF NextActivity
  <2>4. s.attempts[e.act] < max
    BY <1>2, <1>s, <2>1
  <2>5. t.attempts = [s.attempts EXCEPT ![ActivityOrder[s.next]] = @ + 1]
    BY <2>1, <2>2, <2>3
  <2>6. TriesNext(s, t, max)
    BY <1>2, <2>2, <2>3, <2>4, <2>5 DEF TriesNext
  <2> QED
    BY <2>6 DEF t, Moves
<1>3. CASE e.type = "ACTIVITY_ATTEMPT_FAILED"
  <2>1. /\ t.next = s.next /\ t.completed = s.completed /\ t.status = s.status
        /\ t.attempts = s.attempts
    BY <1>3, PlanApplied, AttemptFailureApplied
  <2> HIDE DEF t
  <2>2. RestsAsIs(s, t)
    BY <2>1 DEF RestsAsIs
  <2> QED
    BY <2>2 DEF t, Moves
<1>4. CASE e.type = "ACTIVITY_COMPLETED" /\ AcceptsCompletion(s, e) /\ s.status = "RUNNING"
  <2>1. e.act \in Activities /\ s.current = e.act
    BY <1>4 DEF AcceptsCompletion, RequireCurrentActivity, EventType
  <2>2. /\ t.completed = Append(s.completed, e.act)
        /\ t.next = IF e.act = "PREFLIGHT" /\ e.outcome = "TARGET_FAILED"
                    THEN NormalizeIndex ELSE s.next + 1
        /\ t.status = "RUNNING" /\ t.attempts = s.attempts
    BY <1>4, <2>1, PlanApplied, CompletionApplied
  <2> HIDE DEF t
  <2>3. /\ s.next \in Steps /\ e.act = ActivityOrder[s.next]
        /\ s.attempts[e.act] > 0
    BY <1>n, <2>1 DEF NextActivity, Budget
  <2>4. e.act = "PREFLIGHT" => s.next = 2
    <3>1. 2 \in Steps /\ ActivityOrder[2] = "PREFLIGHT"
      BY <1>k, OrderIsOneToOne
    <3> QED
      BY <2>3, <3>1, OrderIsOneToOne
  <2>5. t.next = s.next + 1 \/ (t.next = 4 /\ s.next = 2)
    BY <2>2, <2>4 DEF NormalizeIndex
  <2>6. FinishesNext(s, t)
    BY <1>4, <2>2, <2>3, <2>5 DEF FinishesNext
  <2> QED
    BY <2>6 DEF t, Moves
<1>5. CASE e.type \in FailureTerminals /\ s.status = "RUNNING"
  <2>1. /\ t.next = s.next /\ t.completed = s.completed
        /\ t.attempts = s.attempts /\ t.status = StatusOf(e.type)
    BY <1>5, PlanApplied, FailureTerminalApplied
  <2>2. StatusOf(e.type) \in TerminalStatuses /\ StatusOf(e.type) # "SUCCEEDED"
    BY <1>5 DEF StatusOf, FailureTerminals, TerminalStatuses
  <2> HIDE DEF t
  <2>3. EndsRun(s, t)
    BY <1>5, <2>1, <2>2 DEF EndsRun
  <2> QED
    BY <2>3 DEF t, Moves
<1>6. CASE e.type = "WORKFLOW_SUCCEEDED" /\ AcceptsSuccess(s, e) /\ s.status = "RUNNING"
  <2>1. /\ t.next = s.next /\ t.completed = s.completed
        /\ t.status = "SUCCEEDED" /\ t.attempts = s.attempts
    BY <1>6, PlanApplied, SuccessApplied
  <2>2. s.next = 9
    BY <1>6, <1>k, <1>n, <1>o, <1>s DEF AcceptsSuccess, NextActivity
  <2> HIDE DEF t
  <2>3. EndsRun(s, t)
    BY <1>6, <2>1, <2>2 DEF EndsRun, TerminalStatuses
  <2> QED
    BY <2>3 DEF t, Moves
<1> QED
  BY <1>1, <1>2, <1>3, <1>4, <1>5, <1>6, AcceptedEvent
=============================================================================
