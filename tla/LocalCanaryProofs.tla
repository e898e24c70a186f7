-------------------------- MODULE LocalCanaryProofs --------------------------
(***************************************************************************)
(* What several drivers of one canary run leave behind, for any number of  *)
(* drivers, attempts, failures, cancellations and dying processes          *)
(* (LocalCanary).                                                          *)
(*                                                                         *)
(* A driver acts on a state it has read a while ago.  The invariant says   *)
(* that such a state is a past of the history: with fewer events, or the   *)
(* very projection; and that the event a driver is about to append is fit  *)
(* for the state it was decided from.  The journal takes the event only    *)
(* when no other has come before it, so that the two states are one.       *)
(***************************************************************************)
EXTENDS LocalCanary, RunJournalProofs, TLAPS

----------------------------------------------------------------------------
(* The invariant.                                                          *)

Places   == {"new", "loop", "invoke", "append", "reload", "returned", "lost"}
EndTypes == FailureTerminals \cup {"WORKFLOW_SUCCEEDED"}

Types ==
    /\ journal \in Seq(EventType) /\ proj \in StateType
    /\ driver \in [Drivers -> [at : Places, state : StateType, event : EventType]]

\* A state that a history of a run can project to.
Sound(s) ==
    /\ Planned(s) /\ Budget(s, MaxTries)
    /\ s.status = "NOT_STARTED" => s.seq = 0
    /\ s.seq = 0 => s.status = "NOT_STARTED"
    /\ s.current \in Activities => s.phase = s.current /\ s.status = "RUNNING"
    /\ s.pending # NoFailure => s.pending.code # NoCode

\* An event that is fit for the state it was decided from.
Ready(s, e) ==
    /\ Accepts(s, e)
    /\ e.type = "ACTIVITY_STARTED" => e.attempt <= MaxTries
    /\ e.type = "ACTIVITY_ATTEMPT_FAILED" =>
          e.failure.code # NoCode /\ (e.retry => e.attempt < MaxTries)

\* A state that was read from the history which is now at p.
Past(s, p) ==
    /\ s.seq <= p.seq
    /\ s.seq = p.seq => s = p
    /\ IsTerminal(s) => s = p

History(j, p) ==
    /\ p.seq = Len(j) /\ Sound(p)
    /\ p.seq = 0 => p = InitialState
    /\ \A i \in 1..Len(j) : j[i].type \in EndTypes => IsTerminal(p)

\* A driver, where it stands in its loop.
Driving(v, p) ==
    /\ Sound(v.state) /\ Past(v.state, p)
    /\ v.at = "append" => Ready(v.state, v.event)
    /\ v.at = "reload" => p.seq > 0 /\ (v.event.type \in EndTypes => IsTerminal(p))
    /\ v.at \in {"loop", "invoke"} => v.state.seq > 0
    /\ v.at = "returned" => IsTerminal(v.state)

LocalInv ==
    /\ Types /\ stands /\ History(journal, proj)
    /\ \A d \in Drivers : Driving(driver[d], proj)

----------------------------------------------------------------------------
(* States and events.                                                      *)

\* The state before any event is typed and sound.
LEMMA InitialSound == InitialState \in StateType /\ Sound(InitialState)
<1>1. InitialState \in StateType
  BY NoFailureType, NoRefType DEF InitialState, StateType, Statuses, Phases, Codes
<1>2. InitialState.attempts = [a \in Activities |-> 0]
  BY DEF InitialState
<1>3. \A k \in Steps : InitialState.attempts[ActivityOrder[k]] = 0
  BY <1>2, OrderIsOneToOne
<1>4. /\ InitialState.current = NoActivity /\ InitialState.retry = FALSE
      /\ InitialState.next = 1 /\ InitialState.completed = << >>
      /\ InitialState.status = "NOT_STARTED" /\ InitialState.seq = 0
      /\ InitialState.pending = NoFailure
  BY DEF InitialState
<1>5. Planned(InitialState)
  BY <1>4 DEF Planned
<1>6. Budget(InitialState, MaxTries)
  BY <1>3, <1>4, NoActivityIsNone DEF Budget
<1> QED
  BY <1>1, <1>4, <1>5, <1>6, NoActivityIsNone DEF Sound

\* The blank of an event is typed.
LEMMA BlankType ==
    ASSUME NEW s \in StateType, NEW type \in EventTypes, NEW phase \in Phases
    PROVE  BlankEvent(s, type, phase) \in EventType
BY NoFailureType, NoRefType DEF BlankEvent, EventType, StateType, Codes

\* No event at all is typed.
LEMMA NoEventType == NoEvent \in EventType
<1>1. BlankEvent(InitialState, "NO_EVENT", "NONE") \in EventType
  BY InitialSound, BlankType DEF EventTypes, Phases
<1> QED
  BY <1>1 DEF NoEvent, EventType

\* A completed activity leaves no failure behind.
LEMMA CompletionClears ==
    ASSUME NEW s \in StateType, NEW e \in EventType, e.type = "ACTIVITY_COMPLETED"
    PROVE  ApplyEvent(s, e).pending = NoFailure
<1>1. ApplyEvent(s, e) = ApplyCompletion(s, e)
  BY DEF ApplyEvent, FailureTerminals
<1> QED
  BY <1>1 DEF StateType, ApplyCompletion

\* An event that is fit leads from a sound state to a sound one.
LEMMA SoundKept ==
    ASSUME NEW s \in StateType, NEW e \in EventType, Sound(s), Ready(s, e)
    PROVE  Sound(ApplyEvent(s, e)) /\ ApplyEvent(s, e) \in StateType
           /\ ApplyEvent(s, e).seq = s.seq + 1
<1> DEFINE t == ApplyEvent(s, e)
<1>a. Accepts(s, e) /\ Planned(s) /\ Budget(s, MaxTries) /\ MaxTries \in Nat
  BY LocalCanaryAssumption DEF Ready, Sound
<1>b. e.seq = s.seq + 1 /\ s.seq \in Nat
  BY <1>a DEF Accepts, StateType
<1>c. t \in StateType /\ t.seq = e.seq
  BY <1>a, ApplyEventType
<1>d. Planned(t) /\ Budget(t, MaxTries)
  BY <1>a, ProgressKept DEF Ready
<1>e. t.seq # 0 /\ t.seq = s.seq + 1
  BY <1>b, <1>c
<1>n. NoActivity \notin Activities
  BY NoActivityIsNone
<1> SUFFICES /\ t.status # "NOT_STARTED"
             /\ t.current \in Activities => t.phase = t.current /\ t.status = "RUNNING"
             /\ t.pending # NoFailure => t.pending.code # NoCode
  BY <1>c, <1>d, <1>e DEF Sound
<1>1. CASE e.type = "WORKFLOW_STARTED" /\ s.status = "NOT_STARTED"
  <2>1. t.status = "RUNNING" /\ t.current = s.current /\ t.phase = s.phase /\ t.pending = s.pending
    BY <1>1, PlanApplied, RunStartApplied
  <2> QED
    BY <1>1, <2>1 DEF Sound
<1>2. CASE e.type = "ACTIVITY_STARTED" /\ AcceptsActivityStart(s, e) /\ s.status = "RUNNING"
  <2>1. e.act \in Activities /\ e.phase = e.act
    BY <1>2 DEF AcceptsActivityStart, EventType
  <2>2. t.status = "RUNNING" /\ t.current = e.act /\ t.phase = e.phase /\ t.pending = NoFailure
    BY <1>2, <2>1, PlanApplied, ActivityStartApplied
  <2> QED
    BY <2>1, <2>2
<1>3. CASE e.type = "ACTIVITY_ATTEMPT_FAILED" /\ s.status = "RUNNING"
  <2>1. t.status = "RUNNING" /\ t.current = NoActivity /\ t.pending = e.failure
    BY <1>3, PlanApplied, AttemptFailureApplied
  <2> QED
    BY <1>3, <1>n, <2>1 DEF Ready
<1>4. CASE e.type = "ACTIVITY_COMPLETED" /\ AcceptsCompletion(s, e) /\ s.status = "RUNNING"
  <2>1. e.act \in Activities
    BY <1>4 DEF AcceptsCompletion, RequireCurrentActivity, EventType
  <2>2. t.status = "RUNNING" /\ t.current = NoActivity
    BY <1>4, <2>1, CompletionApplied
  <2>3. t.pending = NoFailure
    BY <1>4, CompletionClears
  <2> QED
    BY <1>n, <2>2, <2>3
<1>5. CASE e.type \in FailureTerminals
  <2>1. t.status = StatusOf(e.type) /\ t.current = NoActivity /\ t.pending = NoFailure
    BY <1>5, PlanApplied, FailureTerminalApplied
  <2>2. StatusOf(e.type) # "NOT_STARTED"
    BY DEF StatusOf
  <2> QED
    BY <1>n, <2>1, <2>2
<1>6. CASE e.type = "WORKFLOW_SUCCEEDED" /\ AcceptsSuccess(s, e)
  <2>1. t.status = "SUCCEEDED" /\ t.current = s.current /\ t.pending = s.pending
    BY <1>6, PlanApplied, SuccessApplied
  <2> QED
    BY <1>6, <1>n, <2>1 DEF Sound, AcceptsSuccess
<1> QED
  BY <1>a, <1>1, <1>2, <1>3, <1>4, <1>5, <1>6, AcceptedEvent

\* An event that ends a run leads to the end of a run.
LEMMA EndIsTerminal ==
    ASSUME NEW s \in StateType, NEW e \in EventType, e.type \in EndTypes
    PROVE  IsTerminal(ApplyEvent(s, e))
<1>1. CASE e.type \in FailureTerminals
  <2>1. StatusOf(e.type) \in TerminalStatuses
    BY DEF StatusOf, TerminalStatuses
  <2> QED
    BY <1>1, <2>1, FailureTerminalApplied DEF IsTerminal
<1>2. CASE e.type = "WORKFLOW_SUCCEEDED"
  BY <1>2, SuccessApplied DEF IsTerminal, TerminalStatuses
<1> QED
  BY <1>1, <1>2 DEF EndTypes

----------------------------------------------------------------------------
(* What a driver decides is fit for the state it decides from.             *)

\* The start of a run.
LEMMA BeginReady ==
    ASSUME NEW s \in StateType, Sound(s), s.seq = 0
    PROVE  LET e == BlankEvent(s, "WORKFLOW_STARTED", "NONE") IN
           e \in EventType /\ Ready(s, e)
<1> DEFINE e == BlankEvent(s, "WORKFLOW_STARTED", "NONE")
<1>1. e \in EventType
  BY BlankType DEF EventTypes, Phases
<1>2. e.seq = s.seq + 1 /\ e.type = "WORKFLOW_STARTED" /\ e.phase = "NONE"
  BY DEF BlankEvent
<1>3. s.status = "NOT_STARTED" /\ ~IsTerminal(s)
  BY DEF Sound, IsTerminal, TerminalStatuses
<1> HIDE DEF e
<1>4. Accepts(s, e)
  BY <1>2, <1>3 DEF Accepts
<1> QED
  BY <1>1, <1>2, <1>4 DEF Ready, e

\* An end of a run that is under way, under a code.
LEMMA StopReady ==
    ASSUME NEW s \in StateType, s.status = "RUNNING",
           NEW type \in FailureTerminals, NEW code \in Codes, code # NoCode
    PROVE  Stop(s, type, code) \in EventType /\ Ready(s, Stop(s, type, code))
<1> DEFINE e == Stop(s, type, code)
<1>1. BlankEvent(s, type, s.phase) \in EventType
  BY BlankType DEF EventTypes, StateType
<1>2. e \in EventType
  BY <1>1 DEF Stop, EventType
<1>3. e.seq = s.seq + 1 /\ e.type = type /\ e.code = code
  BY DEF Stop, BlankEvent
<1>4. ~IsTerminal(s)
  BY DEF IsTerminal, TerminalStatuses
<1> HIDE DEF e
<1>5. Accepts(s, e)
  BY <1>3, <1>4 DEF Accepts
<1>6. e.type # "ACTIVITY_STARTED" /\ e.type # "ACTIVITY_ATTEMPT_FAILED"
  BY <1>3 DEF FailureTerminals
<1> QED
  BY <1>2, <1>5, <1>6 DEF Ready, e

\* The next attempt: there is one left, since a failure that was not to be
\* retried has ended the run before.
LEMMA StartReady ==
    ASSUME NEW s \in StateType, Sound(s), s.status = "RUNNING", s.current = NoActivity,
           s.pending # NoFailure => s.retry, NextActivity(s) # NoActivity
    PROVE  StartNext(s) \in EventType /\ Ready(s, StartNext(s))
<1> DEFINE a == NextActivity(s)
           e == StartNext(s)
<1>1. s.next \in Steps /\ a = ActivityOrder[s.next] /\ a \in Activities
  BY OrderIsOneToOne DEF NextActivity
<1>2. s.attempts[a] \in Nat
  BY <1>1 DEF StateType
<1>3. BlankEvent(s, "ACTIVITY_STARTED", a) \in EventType
  BY <1>1, BlankType, ActivityIsPhase DEF EventTypes
<1>4. e = [BlankEvent(s, "ACTIVITY_STARTED", a) EXCEPT !.act = a, !.attempt = s.attempts[a] + 1]
  BY DEF StartNext
<1> HIDE DEF a, e
<1>5. e \in EventType
  <2>1. s.attempts[a] + 1 \in Nat
    BY <1>2
  <2>2. ASSUME NEW b \in EventType, NEW n \in Nat, e = [b EXCEPT !.act = a, !.attempt = n]
        PROVE  e \in EventType
    BY <1>1, <2>2 DEF EventType
  <2> QED
    BY <1>3, <1>4, <2>1, <2>2
<1>6. /\ e.seq = s.seq + 1 /\ e.type = "ACTIVITY_STARTED" /\ e.act = a
      /\ e.attempt = s.attempts[a] + 1 /\ e.phase = a
  BY <1>4 DEF BlankEvent
<1>7. ~IsTerminal(s)
  BY DEF IsTerminal, TerminalStatuses
<1>8. Accepts(s, e)
  BY <1>1, <1>6, <1>7, NoActivityIsNone DEF Accepts, AcceptsActivityStart, a
<1>9. s.attempts[a] < MaxTries
  <2>1. CASE s.pending = NoFailure
    <3>1. s.attempts[a] = 0
      BY <1>1, <1>7, <2>1 DEF Sound, Budget
    <3> QED
      BY <3>1, LocalCanaryAssumption
  <2>2. CASE s.pending # NoFailure
    BY <1>1, <2>2 DEF Sound, Budget
  <2> QED
    BY <2>1, <2>2
<1>10. e.attempt <= MaxTries
  BY <1>2, <1>6, <1>9, LocalCanaryAssumption
<1> QED
  BY <1>5, <1>6, <1>8, <1>10 DEF Ready, e

\* The success of a run with nothing left to do.
LEMMA SucceedReady ==
    ASSUME NEW s \in StateType, s.status = "RUNNING", s.current = NoActivity,
           NextActivity(s) = NoActivity
    PROVE  Succeed(s) \in EventType /\ Ready(s, Succeed(s))
<1> DEFINE e == Succeed(s)
<1>1. BlankEvent(s, "WORKFLOW_SUCCEEDED", "COMPLETE") \in EventType
  BY BlankType DEF EventTypes, Phases
<1>2. e \in EventType
  BY <1>1 DEF Succeed, EventType, StateType
<1>3. e.seq = s.seq + 1 /\ e.type = "WORKFLOW_SUCCEEDED" /\ e.code = NoCode
  BY DEF Succeed, BlankEvent
<1>4. ~IsTerminal(s)
  BY DEF IsTerminal, TerminalStatuses
<1> HIDE DEF e
<1>5. Accepts(s, e)
  BY <1>3, <1>4 DEF Accepts, AcceptsSuccess
<1> QED
  BY <1>2, <1>3, <1>5 DEF Ready, e

\* The failure of the current attempt, retried only while attempts are left.
LEMMA FailureReady ==
    ASSUME NEW s \in StateType, Sound(s), s.current \in Activities,
           NEW f \in {Retryable, Refusal}
    PROVE  AttemptFailed(s, f) \in EventType /\ Ready(s, AttemptFailed(s, f))
<1> DEFINE e == AttemptFailed(s, f)
<1>1. BlankEvent(s, "ACTIVITY_ATTEMPT_FAILED", s.current) \in EventType
  BY BlankType, ActivityIsPhase DEF EventTypes
<1>2. f \in FailureType /\ f.code # NoCode
  <2>1. {"NATIVE_ACTIVITY_INFRASTRUCTURE_FAILED", "CREDENTIAL_NOT_FOUND"} \subseteq Codes
    BY DEF Codes, ErrorCodes
  <2>2. Retryable \in FailureType /\ Retryable.code # NoCode
    BY <2>1 DEF Retryable, FailureType, FailureKinds, NoCode
  <2>3. Refusal \in FailureType /\ Refusal.code # NoCode
    BY <2>1 DEF Refusal, FailureType, FailureKinds, NoCode
  <2> QED
    BY <2>2, <2>3
<1>3. (f.retryable /\ s.attempt < MaxTries) \in BOOLEAN
  OBVIOUS
<1>4. e = [BlankEvent(s, "ACTIVITY_ATTEMPT_FAILED", s.current) EXCEPT
             !.act = s.current, !.attempt = s.attempt, !.failure = f,
             !.retry = f.retryable /\ s.attempt < MaxTries]
  BY DEF AttemptFailed
<1> HIDE DEF e
<1>5. e \in EventType
  BY <1>1, <1>2, <1>3, <1>4 DEF EventType, StateType
<1>6. /\ e.seq = s.seq + 1 /\ e.type = "ACTIVITY_ATTEMPT_FAILED" /\ e.act = s.current
      /\ e.attempt = s.attempt /\ e.phase = s.current /\ e.failure = f
      /\ e.outcome = NoOutcome /\ e.ref = NoRef
  BY <1>4 DEF BlankEvent
<1>7. e.retry => s.attempt < MaxTries
  BY <1>4 DEF BlankEvent
<1>8. s.status = "RUNNING" /\ s.phase = s.current /\ ~IsTerminal(s)
  BY DEF Sound, IsTerminal, TerminalStatuses
<1>9. f # NoFailure
  BY <1>2 DEF NoFailure
<1>10. Accepts(s, e)
  BY <1>6, <1>8, <1>9, NoActivityIsNone DEF Accepts, AcceptsAttemptFailure, RequireCurrentActivity
<1> QED
  BY <1>2, <1>5, <1>6, <1>7, <1>10 DEF Ready, e

\* The answer of the current attempt, also when the activity must not report
\* a failing target.
LEMMA CompletionReady ==
    ASSUME NEW s \in StateType, Sound(s), s.current \in Activities,
           NEW outcome \in TargetStatuses
    PROVE  Completed(s, outcome) \in EventType /\ Ready(s, Completed(s, outcome))
<1>a. s.status = "RUNNING" /\ s.phase = s.current /\ ~IsTerminal(s)
  BY DEF Sound, IsTerminal, TerminalStatuses
<1>1. CASE outcome = "TARGET_FAILED" /\ s.current \notin MayTargetFail
  <2>1. Completed(s, outcome) = Stop(s, "WORKFLOW_FAILED", "INVALID_TARGET_FAILURE_OUTCOME")
    BY <1>1 DEF Completed
  <2>2. "INVALID_TARGET_FAILURE_OUTCOME" \in Codes /\ "INVALID_TARGET_FAILURE_OUTCOME" # NoCode
    BY DEF Codes, ErrorCodes, NoCode
  <2> QED
    BY <1>a, <2>1, <2>2, StopReady DEF FailureTerminals
<1>2. CASE ~(outcome = "TARGET_FAILED" /\ s.current \notin MayTargetFail)
  <2> DEFINE e == Completed(s, outcome)
             r == << s.current, s.attempt >>
  <2>1. BlankEvent(s, "ACTIVITY_COMPLETED", s.current) \in EventType
    BY BlankType, ActivityIsPhase DEF EventTypes
  <2>2. r \in Refs
    BY DEF Refs, StateType
  <2>3. s.current # "NO_REF"
    BY ActivitiesListed
  <2>4. r # NoRef
    BY <2>3 DEF NoRef
  <2>5. e = [BlankEvent(s, "ACTIVITY_COMPLETED", s.current) EXCEPT
               !.act = s.current, !.attempt = s.attempt, !.outcome = outcome, !.ref = r]
    BY <1>2 DEF Completed
  <2> HIDE DEF e, r
  <2>6. e \in EventType
    BY <2>1, <2>2, <2>5 DEF EventType, StateType
  <2>7. /\ e.seq = s.seq + 1 /\ e.type = "ACTIVITY_COMPLETED" /\ e.act = s.current
        /\ e.attempt = s.attempt /\ e.phase = s.current
        /\ e.outcome = outcome /\ e.ref = r
    BY <2>5 DEF BlankEvent
  <2>8. Accepts(s, e)
    BY <1>2, <1>a, <2>4, <2>7, NoActivityIsNone DEF Accepts, AcceptsCompletion, RequireCurrentActivity
  <2> QED
    BY <2>6, <2>7, <2>8 DEF Ready, e
<1> QED
  BY <1>1, <1>2

\* The codes a driver ends a run with are codes.
LEMMA CodesOfStops ==
    /\ {"WORKFLOW_CANCEL_REQUESTED", "WORKFLOW_CANCELLED_DURING_RETRY",
        "UNEXPECTED_ACTIVITY_EXCEPTION"} \subseteq Codes
    /\ NoCode \notin {"WORKFLOW_CANCEL_REQUESTED", "WORKFLOW_CANCELLED_DURING_RETRY",
                      "UNEXPECTED_ACTIVITY_EXCEPTION"}
BY DEF Codes, ErrorCodes, NoCode

\* Whatever the loop decides to append is fit for the state it decides from.
LEMMA LoopReady ==
    ASSUME NEW s \in StateType, Sound(s), s.status = "RUNNING", NEW cancel \in BOOLEAN,
           s.current # NoActivity => cancel, NEW e \in LoopEvents(s, cancel)
    PROVE  e \in EventType /\ Ready(s, e)
<1>1. CASE s.pending # NoFailure /\ ~s.retry
  <2>1. e = EndFailed(s)
    BY <1>1 DEF LoopEvents
  <2>2. s.pending.code \in Codes /\ s.pending.code # NoCode
    BY <1>1 DEF Sound, StateType, FailureType
  <2> DEFINE type == IF s.pending.kind \in {"CONFIGURATION", "POLICY"}
                     THEN "WORKFLOW_REJECTED" ELSE "WORKFLOW_FAILED"
  <2>3. type \in FailureTerminals /\ e = Stop(s, type, s.pending.code)
    BY <2>1 DEF EndFailed, FailureTerminals
  <2> HIDE DEF type
  <2> QED
    BY <2>2, <2>3, StopReady
<1>2. CASE ~(s.pending # NoFailure /\ ~s.retry) /\ cancel
  <2>1. \/ e = Stop(s, "WORKFLOW_CANCELLED", "WORKFLOW_CANCEL_REQUESTED")
        \/ e = Stop(s, "WORKFLOW_CANCELLED", "WORKFLOW_CANCELLED_DURING_RETRY")
    BY <1>2 DEF LoopEvents, Cancelled
  <2>2. "WORKFLOW_CANCELLED" \in FailureTerminals
    BY DEF FailureTerminals
  <2> QED
    BY <2>1, <2>2, CodesOfStops, StopReady
<1>3. CASE ~(s.pending # NoFailure /\ ~s.retry) /\ ~cancel /\ NextActivity(s) = NoActivity
  <2>1. e = Succeed(s) /\ s.current = NoActivity
    BY <1>3 DEF LoopEvents
  <2> QED
    BY <1>3, <2>1, SucceedReady
<1>4. CASE ~(s.pending # NoFailure /\ ~s.retry) /\ ~cancel /\ NextActivity(s) # NoActivity
  <2>1. e = StartNext(s) /\ s.current = NoActivity
    BY <1>4 DEF LoopEvents
  <2> QED
    BY <1>4, <2>1, StartReady
<1> QED
  BY <1>1, <1>2, <1>3, <1>4

----------------------------------------------------------------------------
(* The steps.                                                              *)

\* A driver that starts anew, or stops for good, knows nothing.
LEMMA AnewDriving ==
    ASSUME NEW p \in StateType, NEW at \in {"new", "lost"},
           p.seq = 0 => p = InitialState
    PROVE  /\ Anew(at) \in [at : Places, state : StateType, event : EventType]
           /\ Driving(Anew(at), p)
<1> DEFINE v == Anew(at)
<1>1. v.at = at /\ v.state = InitialState /\ v.event = NoEvent
      /\ v \in [at : Places, state : StateType, event : EventType]
  BY InitialSound, NoEventType DEF Anew, Places
<1>2. InitialState.seq = 0 /\ ~IsTerminal(InitialState)
  BY DEF InitialState, IsTerminal, TerminalStatuses
<1>3. Past(InitialState, p)
  BY <1>2 DEF Past, StateType
<1> HIDE DEF v
<1>4. Driving(v, p)
  BY <1>1, <1>3, InitialSound DEF Driving
<1> QED
  BY <1>1, <1>4 DEF v

\* What holds after a driver has moved and the journal has not.
LEMMA OneMoves ==
    ASSUME LocalInv, Stays, NEW d \in Drivers,
           NEW v \in [at : Places, state : StateType, event : EventType],
           Driving(v, proj), driver' = [driver EXCEPT ![d] = v]
    PROVE  LocalInv'
<1>1. journal' = journal /\ proj' = proj /\ stands' = stands
  BY DEF Stays
<1>2. driver' \in [Drivers -> [at : Places, state : StateType, event : EventType]]
  BY DEF LocalInv, Types
<1>3. \A c \in Drivers : driver'[c] = IF c = d THEN v ELSE driver[c]
  BY DEF LocalInv, Types
<1>4. \A c \in Drivers : Driving(driver'[c], proj)
  BY <1>3 DEF LocalInv
<1> QED
  BY <1>1, <1>2, <1>4 DEF LocalInv, Types

\* Load, which reads the journal, and Reload, which reads it again.
LEMMA LoadKeeps ==
    ASSUME LocalInv, NEW d \in Drivers, Load(d)
    PROVE  LocalInv'
<1>t. proj \in StateType /\ NoEvent \in EventType /\ Sound(proj) /\ stands
  BY NoEventType DEF LocalInv, Types, History
<1>p. Past(proj, proj)
  BY <1>t DEF Past, StateType
<1>s. Stays
  BY DEF Load
<1>1. CASE IsTerminal(proj)
  <2> DEFINE v == [at |-> "returned", state |-> proj, event |-> NoEvent]
  <2>1. driver' = [driver EXCEPT ![d] = v]
    BY <1>1, <1>t DEF Load, Goes
  <2>2. Driving(v, proj)
    BY <1>1, <1>t, <1>p DEF Driving
  <2>3. v \in [at : Places, state : StateType, event : EventType]
    BY <1>t DEF Places
  <2> HIDE DEF v
  <2> QED
    BY <1>s, <2>1, <2>2, <2>3, OneMoves
<1>2. CASE ~IsTerminal(proj) /\ proj.seq = 0
  <2> DEFINE e == BlankEvent(proj, "WORKFLOW_STARTED", "NONE")
             v == [at |-> "append", state |-> proj, event |-> e]
  <2>1. driver' = [driver EXCEPT ![d] = v]
    BY <1>2, <1>t DEF Load, Goes
  <2>2. e \in EventType /\ Ready(proj, e)
    BY <1>2, <1>t, BeginReady
  <2> HIDE DEF e
  <2>3. Driving(v, proj)
    BY <1>t, <1>p, <2>2 DEF Driving
  <2>4. v \in [at : Places, state : StateType, event : EventType]
    BY <1>t, <2>2 DEF Places
  <2> HIDE DEF v
  <2> QED
    BY <1>s, <2>1, <2>3, <2>4, OneMoves
<1>3. CASE ~IsTerminal(proj) /\ proj.seq # 0
  <2> DEFINE v == [at |-> "loop", state |-> proj, event |-> NoEvent]
  <2>1. driver' = [driver EXCEPT ![d] = v]
    BY <1>3, <1>t DEF Load, Goes
  <2>2. proj.seq > 0
    BY <1>3, <1>t DEF StateType
  <2>3. Driving(v, proj)
    BY <1>t, <1>p, <2>2 DEF Driving
  <2>4. v \in [at : Places, state : StateType, event : EventType]
    BY <1>t DEF Places
  <2> HIDE DEF v
  <2> QED
    BY <1>s, <2>1, <2>3, <2>4, OneMoves
<1> QED
  BY <1>1, <1>2, <1>3

\* Decide goes on from the state the driver has.
LEMMA DecideKeeps ==
    ASSUME LocalInv, NEW d \in Drivers, Decide(d)
    PROVE  LocalInv'
<1> DEFINE s == driver[d].state
<1>t. /\ s \in StateType /\ NoEvent \in EventType /\ driver[d].at = "loop"
      /\ Driving(driver[d], proj) /\ Stays
  BY NoEventType DEF LocalInv, Types, Decide, Is
<1>u. Sound(s) /\ Past(s, proj) /\ s.seq > 0
  BY <1>t DEF Driving
<1>1. CASE IsTerminal(s)
  <2> DEFINE v == [at |-> "returned", state |-> s, event |-> NoEvent]
  <2>1. driver' = [driver EXCEPT ![d] = v]
    BY <1>1 DEF Decide, Goes
  <2> HIDE DEF s
  <2>2. Driving(v, proj)
    BY <1>1, <1>u DEF Driving
  <2>3. v \in [at : Places, state : StateType, event : EventType]
    BY <1>t DEF Places
  <2> HIDE DEF v
  <2> QED
    BY <1>t, <2>1, <2>2, <2>3, OneMoves
<1>2. CASE ~IsTerminal(s) /\ s.current # NoActivity /\ d \notin signal
  <2> DEFINE v == [at |-> "invoke", state |-> s, event |-> NoEvent]
  <2>1. driver' = [driver EXCEPT ![d] = v]
    BY <1>2 DEF Decide, Goes
  <2> HIDE DEF s
  <2>2. Driving(v, proj)
    BY <1>u DEF Driving
  <2>3. v \in [at : Places, state : StateType, event : EventType]
    BY <1>t DEF Places
  <2> HIDE DEF v
  <2> QED
    BY <1>t, <2>1, <2>2, <2>3, OneMoves
<1>3. CASE ~IsTerminal(s) /\ ~(s.current # NoActivity /\ d \notin signal)
  <2>1. PICK e \in LoopEvents(s, d \in signal) :
            driver' = [driver EXCEPT ![d] = [at |-> "append", state |-> s, event |-> e]]
    BY <1>3 DEF Decide, Goes
  <2>2. s.status = "RUNNING"
    BY <1>3, <1>t, <1>u DEF Sound, StateType, Statuses, IsTerminal
  <2> DEFINE cancel == d \in signal
  <2>3. cancel \in BOOLEAN /\ (s.current # NoActivity => cancel)
    BY <1>3
  <2>4. e \in LoopEvents(s, cancel)
    BY <2>1
  <2> DEFINE v == [at |-> "append", state |-> s, event |-> e]
  <2>d. driver' = [driver EXCEPT ![d] = v]
    BY <2>1
  <2> HIDE DEF s, cancel
  <2>5. e \in EventType /\ Ready(s, e)
    BY <1>t, <1>u, <2>2, <2>3, <2>4, LoopReady
  <2>6. Driving(v, proj)
    BY <1>u, <2>5 DEF Driving
  <2>7. v \in [at : Places, state : StateType, event : EventType]
    BY <1>t, <2>5 DEF Places
  <2> HIDE DEF v
  <2> QED
    BY <1>t, <2>d, <2>6, <2>7, OneMoves
<1> QED
  BY <1>1, <1>2, <1>3

\* A driver whose call has answered appends what is fit for the state it called
\* from.
LEMMA AnswerKeeps ==
    ASSUME LocalInv, Stays, NEW d \in Drivers, Is(d, "invoke"),
           NEW e \in EventType, Ready(driver[d].state, e),
           Goes(d, "append", driver[d].state, e)
    PROVE  LocalInv'
<1> DEFINE s == driver[d].state
           v == [at |-> "append", state |-> s, event |-> e]
<1>t. s \in StateType /\ Sound(s) /\ Past(s, proj)
  BY DEF LocalInv, Types, Driving
<1>1. driver' = [driver EXCEPT ![d] = v]
  BY DEF Goes
<1>r. Ready(s, e)
  OBVIOUS
<1> HIDE DEF s
<1>2. Driving(v, proj)
  BY <1>t, <1>r DEF Driving
<1>3. v \in [at : Places, state : StateType, event : EventType]
  BY <1>t DEF Places
<1> HIDE DEF v
<1> QED
  BY <1>1, <1>2, <1>3, OneMoves

\* Invoke, whatever the activity answers.
LEMMA InvokeKeeps ==
    ASSUME LocalInv, NEW d \in Drivers, Invoke(d)
    PROVE  LocalInv'
<1> DEFINE s == driver[d].state
<1>t. s \in StateType /\ Sound(s) /\ Is(d, "invoke") /\ Stays
  BY DEF LocalInv, Types, Driving, Invoke
<1>1. CASE s.current = NoActivity
  <2>1. driver' = [driver EXCEPT ![d] = Anew("lost")]
    BY <1>1 DEF Invoke, Ends
  <2>2. proj \in StateType /\ (proj.seq = 0 => proj = InitialState)
    BY DEF LocalInv, Types, History
  <2> QED
    BY <1>t, <2>1, <2>2, AnewDriving, OneMoves
<1>2. CASE s.current # NoActivity
  <2>1. s.current \in Activities /\ s.status = "RUNNING"
    BY <1>2, <1>t DEF StateType, Sound
  <2>2. \/ Goes(d, "append", s, Completed(s, "SUCCEEDED"))
        \/ Goes(d, "append", s, Completed(s, "TARGET_FAILED"))
        \/ \E f \in {Retryable, Refusal} : Goes(d, "append", s, AttemptFailed(s, f))
        \/ Goes(d, "append", s, Stop(s, "WORKFLOW_FAILED", "UNEXPECTED_ACTIVITY_EXCEPTION"))
    BY <1>2 DEF Invoke
  <2>3. \A o \in TargetStatuses : Completed(s, o) \in EventType /\ Ready(s, Completed(s, o))
    BY <1>t, <2>1, CompletionReady
  <2>4. \A f \in {Retryable, Refusal} :
            AttemptFailed(s, f) \in EventType /\ Ready(s, AttemptFailed(s, f))
    BY <1>t, <2>1, FailureReady
  <2>5. LET e == Stop(s, "WORKFLOW_FAILED", "UNEXPECTED_ACTIVITY_EXCEPTION")
        IN  e \in EventType /\ Ready(s, e)
    BY <1>t, <2>1, CodesOfStops, StopReady DEF FailureTerminals
  <2>6. \E e \in EventType : Ready(s, e) /\ Goes(d, "append", s, e)
    BY <2>2, <2>3, <2>4, <2>5 DEF TargetStatuses
  <2> QED
    BY <1>t, <2>6, AnswerKeeps
<1> QED
  BY <1>1, <1>2

\* Busy: the driver asks again, or ends the run.
LEMMA BusyKeeps ==
    ASSUME LocalInv, NEW d \in Drivers, Busy(d)
    PROVE  LocalInv'
<1> DEFINE s == driver[d].state
<1>t. /\ s \in StateType /\ Sound(s) /\ Past(s, proj) /\ s.seq > 0
      /\ Is(d, "invoke") /\ Stays /\ s.current # NoActivity
  BY DEF LocalInv, Types, Driving, Busy, Is
<1>1. CASE d \in signal
  <2>1. s.status = "RUNNING"
    BY <1>t DEF StateType, Sound
  <2> DEFINE e == Stop(s, "WORKFLOW_CANCELLED", "WORKFLOW_CANCELLED_DURING_RETRY")
  <2>2. e \in EventType /\ Ready(s, e)
    BY <1>t, <2>1, CodesOfStops, StopReady DEF FailureTerminals
  <2>3. Goes(d, "append", s, e)
    BY <1>1 DEF Busy, Cancelled
  <2> HIDE DEF e
  <2> QED
    BY <1>t, <2>2, <2>3, AnswerKeeps
<1>2. CASE d \notin signal
  <2> DEFINE v == [at |-> "loop", state |-> s, event |-> NoEvent]
  <2>1. driver' = [driver EXCEPT ![d] = v]
    BY <1>2 DEF Busy, Goes
  <2> HIDE DEF s
  <2>2. Driving(v, proj)
    BY <1>t DEF Driving
  <2>3. v \in [at : Places, state : StateType, event : EventType]
    BY <1>t, NoEventType DEF Places
  <2> HIDE DEF v
  <2> QED
    BY <1>t, <2>1, <2>2, <2>3, OneMoves
<1> QED
  BY <1>1, <1>2

\* A state that was read stays a past when the history moves on.
LEMMA PastMoves ==
    ASSUME NEW s \in StateType, NEW p \in StateType, NEW t \in StateType,
           Past(s, p), ~IsTerminal(p), t.seq = p.seq + 1
    PROVE  Past(s, t)
<1>1. s.seq \in Nat /\ p.seq \in Nat /\ s.seq <= p.seq
  BY DEF Past, StateType
<1>2. s.seq <= t.seq /\ s.seq # t.seq
  BY <1>1
<1>3. ~IsTerminal(s)
  BY DEF Past
<1> QED
  BY <1>2, <1>3 DEF Past

\* An append that follows: what was decided from the projection is fit for it.
LEMMA AppendKeeps ==
    ASSUME LocalInv, NEW d \in Drivers, Record(d), Follows(driver[d].event)
    PROVE  /\ LocalInv' /\ Ready(proj, driver[d].event)
           /\ proj' = ApplyEvent(proj, driver[d].event)
<1> DEFINE e == driver[d].event
           s == driver[d].state
           t == ApplyEvent(proj, e)
<1>t. /\ s \in StateType /\ e \in EventType /\ proj \in StateType
      /\ journal \in Seq(EventType) /\ driver[d].at = "append"
  BY DEF LocalInv, Types, Record, Is
<1>h. /\ stands /\ proj.seq = Len(journal) /\ Sound(proj)
      /\ \A i \in 1..Len(journal) : journal[i].type \in EndTypes => IsTerminal(proj)
  BY DEF LocalInv, History
<1>r. Ready(s, e) /\ Past(s, proj)
  BY <1>t DEF LocalInv, Driving
<1>1. s = proj
  <2>1. e.seq = s.seq + 1 /\ Len(journal) = e.seq - 1
    BY <1>r DEF Ready, Accepts, Follows
  <2>2. s.seq \in Nat
    BY <1>t DEF StateType
  <2>3. s.seq = proj.seq
    BY <1>h, <2>1, <2>2
  <2> QED
    BY <1>r, <2>3 DEF Past
<1>2. Ready(proj, e)
  BY <1>r, <1>1
<1>3. Accepts(proj, e) /\ ~IsTerminal(proj)
  BY <1>2 DEF Ready, Accepts
<1>4. /\ journal' = Append(journal, e) /\ proj' = t /\ stands' = stands
      /\ driver' = [driver EXCEPT ![d].at = "reload"]
  BY <1>3, <1>h DEF Record
<1>5. t \in StateType /\ Sound(t) /\ t.seq = proj.seq + 1
  BY <1>t, <1>h, <1>2, SoundKept
<1>6. e.type \in EndTypes => IsTerminal(t)
  BY <1>t, EndIsTerminal
<1> HIDE DEF e, s, t
<1>7. /\ journal' \in Seq(EventType) /\ Len(journal') = Len(journal) + 1
      /\ Len(journal) \in Nat
      /\ \A i \in 1..Len(journal) : journal'[i] = journal[i]
      /\ journal'[Len(journal) + 1] = e
  BY <1>t, <1>4
<1>8. History(journal', proj')
  <2>1. \A i \in 1..Len(journal') : journal'[i].type \in EndTypes => IsTerminal(t)
    <3> SUFFICES ASSUME NEW i \in 1..Len(journal'), journal'[i].type \in EndTypes
                 PROVE  IsTerminal(t)
      OBVIOUS
    <3>1. CASE i \in 1..Len(journal)
      BY <1>3, <1>7, <1>h, <3>1
    <3>2. CASE i \notin 1..Len(journal)
      <4>1. i = Len(journal) + 1
        BY <1>7, <3>2
      <4> QED
        BY <1>6, <1>7, <4>1
    <3> QED
      BY <3>1, <3>2
  <2>2. t.seq = Len(journal') /\ t.seq # 0
    BY <1>5, <1>7, <1>h
  <2> QED
    BY <1>4, <1>5, <2>1, <2>2 DEF History
<1>9. ASSUME NEW c \in Drivers
      PROVE  driver'[c] \in [at : Places, state : StateType, event : EventType]
             /\ Driving(driver'[c], t)
  <2>t. /\ driver[c] \in [at : Places, state : StateType, event : EventType]
        /\ driver[c].state \in StateType /\ Driving(driver[c], proj)
        /\ driver \in [Drivers -> [at : Places, state : StateType, event : EventType]]
    BY <1>9 DEF LocalInv, Types
  <2>1. Past(driver[c].state, t)
    BY <1>t, <1>3, <1>5, <2>t, PastMoves DEF Driving
  <2>2. CASE c = d
    <3>1. driver'[c] = [driver[d] EXCEPT !.at = "reload"]
      BY <1>4, <2>2, <2>t
    <3>2. /\ driver'[c].at = "reload" /\ driver'[c].state = driver[c].state
          /\ driver'[c].event = e
          /\ driver'[c] \in [at : Places, state : StateType, event : EventType]
      BY <2>2, <2>t, <3>1 DEF Places, e
    <3>3. t.seq > 0
      BY <1>5, <1>7, <1>h
    <3> QED
      BY <1>6, <2>1, <2>t, <3>2, <3>3 DEF Driving
  <2>3. CASE c # d
    <3>1. driver'[c] = driver[c]
      BY <1>4, <2>3, <2>t
    <3>2. t.seq > 0
      BY <1>5, <1>7, <1>h
    <3>3. driver[c].at = "reload" => driver[c].event.type \notin EndTypes
      BY <1>3, <2>t DEF Driving
    <3> QED
      BY <2>1, <2>t, <3>1, <3>2, <3>3 DEF Driving
  <2> QED
    BY <2>2, <2>3
<1>10. driver' \in [Drivers -> [at : Places, state : StateType, event : EventType]]
  <2>1. DOMAIN driver' = Drivers /\ driver' = [c \in Drivers |-> driver'[c]]
    BY <1>4 DEF LocalInv, Types
  <2> QED
    BY <1>9, <2>1
<1>11. LocalInv'
  BY <1>4, <1>5, <1>7, <1>8, <1>9, <1>10, <1>h DEF LocalInv, Types
<1> QED
  BY <1>2, <1>4, <1>11 DEF e, t

\* A driver that is late has lost, or finds its own event stored.
LEMMA LateKeeps ==
    ASSUME LocalInv, NEW d \in Drivers, Record(d), ~Follows(driver[d].event)
    PROVE  LocalInv' /\ proj' = proj
<1>s. Stays
  BY DEF Record
<1> SUFFICES LocalInv'
  BY <1>s DEF Stays
<1>t. /\ driver[d] \in [at : Places, state : StateType, event : EventType]
      /\ proj \in StateType /\ (proj.seq = 0 => proj = InitialState)
      /\ proj.seq = Len(journal) /\ journal \in Seq(EventType)
      /\ \A i \in 1..Len(journal) : journal[i].type \in EndTypes => IsTerminal(proj)
  BY DEF LocalInv, Types, History
<1>1. CASE Ends(d, "lost")
  <2>1. driver' = [driver EXCEPT ![d] = Anew("lost")]
    BY <1>1 DEF Ends
  <2> QED
    BY <1>s, <1>t, <2>1, AnewDriving, OneMoves
<1>2. CASE /\ driver[d].event.seq <= Len(journal)
           /\ journal[driver[d].event.seq] = driver[d].event
           /\ driver' = [driver EXCEPT ![d].at = "reload"]
  <2> DEFINE v == [driver[d] EXCEPT !.at = "reload"]
             n == driver[d].event.seq
  <2>1. driver' = [driver EXCEPT ![d] = v]
    BY <1>2
  <2>2. /\ v \in [at : Places, state : StateType, event : EventType]
        /\ v.at = "reload" /\ v.state = driver[d].state /\ v.event = driver[d].event
    BY <1>t DEF Places
  <2>3. n = driver[d].state.seq + 1 /\ driver[d].state.seq \in Nat
    BY <1>t DEF LocalInv, Driving, Record, Is, Ready, Accepts, StateType
  <2>4. n \in 1..Len(journal) /\ proj.seq > 0
    <3>1. n <= Len(journal)
      BY <1>2
    <3> HIDE DEF n
    <3> QED
      BY <1>t, <2>3, <3>1
  <2>5. driver[d].event.type \in EndTypes => IsTerminal(proj)
    BY <1>2, <1>t, <2>4
  <2>6. Sound(driver[d].state) /\ Past(driver[d].state, proj)
    BY DEF LocalInv, Driving
  <2> HIDE DEF v, n
  <2>7. Driving(v, proj)
    BY <2>2, <2>4, <2>5, <2>6 DEF Driving
  <2> QED
    BY <1>s, <2>1, <2>2, <2>7, OneMoves
<1> QED
  BY <1>1, <1>2 DEF Record

\* Reload takes the history as it is, with what others have appended.
LEMMA ReloadKeeps ==
    ASSUME LocalInv, NEW d \in Drivers, Reload(d)
    PROVE  LocalInv'
<1> DEFINE type == driver[d].event.type
           at == CASE type = "ACTIVITY_STARTED" -> "invoke"
                   [] type \in FailureTerminals \cup {"WORKFLOW_SUCCEEDED"} -> "returned"
                   [] OTHER -> "loop"
           v == [at |-> at, state |-> proj, event |-> NoEvent]
<1>t. proj \in StateType /\ NoEvent \in EventType /\ Sound(proj) /\ stands /\ Stays
  BY NoEventType DEF LocalInv, Types, History, Reload
<1>p. Past(proj, proj)
  BY <1>t DEF Past, StateType
<1>1. driver' = [driver EXCEPT ![d] = v]
  BY <1>t DEF Reload, Goes
<1>2. proj.seq > 0 /\ (type \in EndTypes => IsTerminal(proj))
  BY DEF LocalInv, Driving, Reload, Is
<1>3. at \in {"invoke", "returned", "loop"} /\ (at = "returned" => type \in EndTypes)
  BY DEF EndTypes
<1> HIDE DEF type, at
<1>4. Driving(v, proj)
  BY <1>t, <1>p, <1>2, <1>3 DEF Driving
<1>5. v \in [at : Places, state : StateType, event : EventType]
  BY <1>t, <1>3 DEF Places
<1> HIDE DEF v
<1> QED
  BY <1>t, <1>1, <1>4, <1>5, OneMoves

\* A process that dies and is driven anew; a cancel signal is nobody's state yet.
LEMMA TroubleKeeps ==
    ASSUME LocalInv, NEW d \in Drivers, SignalCancel(d) \/ DriverDies(d)
    PROVE  LocalInv'
<1>1. CASE SignalCancel(d)
  BY <1>1 DEF SignalCancel, Stays, LocalInv, Types
<1>2. CASE DriverDies(d)
  <2>1. proj \in StateType /\ (proj.seq = 0 => proj = InitialState)
    BY DEF LocalInv, Types, History
  <2>2. Stays /\ driver' = [driver EXCEPT ![d] = Anew("new")]
    BY <1>2 DEF DriverDies
  <2> QED
    BY <2>1, <2>2, AnewDriving, OneMoves
<1> QED
  BY <1>1, <1>2

\* It holds at first, with an empty journal and no driver at work.
LEMMA LocalInvInit == LocalInit => LocalInv
<1> SUFFICES ASSUME LocalInit PROVE LocalInv
  OBVIOUS
<1>1. /\ journal = << >> /\ proj = InitialState /\ stands
      /\ driver = [d \in Drivers |-> Anew("new")]
  BY DEF LocalInit
<1>2. InitialState \in StateType /\ Sound(InitialState) /\ InitialState.seq = 0
  BY InitialSound DEF InitialState
<1>3. /\ Anew("new") \in [at : Places, state : StateType, event : EventType]
      /\ Driving(Anew("new"), InitialState)
  BY <1>2, AnewDriving
<1>4. Types
  BY <1>1, <1>2, <1>3 DEF Types
<1>5. History(journal, proj)
  BY <1>1, <1>2 DEF History
<1>6. \A d \in Drivers : Driving(driver[d], proj)
  BY <1>1, <1>3
<1> QED
  BY <1>1, <1>4, <1>5, <1>6 DEF LocalInv

\* Every step keeps the invariant, and either leaves the projection alone or
\* adds to it an event that is fit for it.
LEMMA LocalInvStep ==
    ASSUME LocalInv, [LocalNext]_localVars
    PROVE  /\ LocalInv'
           /\ \/ proj' = proj
              \/ \E e \in EventType : Ready(proj, e) /\ proj' = ApplyEvent(proj, e)
<1>1. CASE UNCHANGED localVars
  BY <1>1 DEF localVars, LocalInv, Types
<1>2. ASSUME NEW d \in Drivers, Record(d), Follows(driver[d].event)
      PROVE  /\ LocalInv'
             /\ \E e \in EventType : Ready(proj, e) /\ proj' = ApplyEvent(proj, e)
  <2>1. driver[d].event \in EventType
    BY <1>2 DEF LocalInv, Types
  <2> QED
    BY <1>2, <2>1, AppendKeeps
<1>3. ASSUME NEW d \in Drivers, Record(d), ~Follows(driver[d].event)
      PROVE  LocalInv' /\ proj' = proj
  BY <1>3, LateKeeps
<1>4. ASSUME NEW d \in Drivers,
             Load(d) \/ Decide(d) \/ Invoke(d) \/ Busy(d) \/ Reload(d)
             \/ SignalCancel(d) \/ DriverDies(d)
      PROVE  LocalInv' /\ proj' = proj
  <2>1. LocalInv'
    BY <1>4, LoadKeeps, DecideKeeps, InvokeKeeps, BusyKeeps, ReloadKeeps, TroubleKeeps
  <2>2. proj' = proj
    BY <1>4 DEF Load, Decide, Invoke, Busy, Reload, SignalCancel, DriverDies, Stays
  <2> QED
    BY <2>1, <2>2
<1> QED
  BY <1>1, <1>2, <1>3, <1>4 DEF LocalNext

----------------------------------------------------------------------------
(* The refinement: what the journal shows is a run of CanaryRun.           *)

\* The plan of CanaryRun, position by position, in the words of the projection.
LEMMA PlanIsOrder ==
    /\ Len(SharedPromise!FullPlan) = 8 /\ Len(SharedPromise!ShortPlan) = 7
    /\ \A k \in 1..8 : SharedPromise!FullPlan[k] = ActivityOrder[k]
    /\ \A k \in 4..8 : SharedPromise!ShortPlan[k - 1] = ActivityOrder[k]
<1>1. \A i \in 1..8 : i = 1 \/ i = 2 \/ i = 3 \/ i = 4 \/ i = 5 \/ i = 6 \/ i = 7 \/ i = 8
  OBVIOUS
<1>2. \A i \in 4..8 : i = 4 \/ i = 5 \/ i = 6 \/ i = 7 \/ i = 8
  OBVIOUS
<1>3. SharedPromise!FullPlan = ActivityOrder
  BY DEF SharedPromise!FullPlan, ActivityOrder
<1>4. \A k \in 4..8 : SharedPromise!ShortPlan[k - 1] = ActivityOrder[k]
  BY <1>2 DEF SharedPromise!ShortPlan, ActivityOrder
<1> QED
  BY <1>3, <1>4 DEF ActivityOrder, SharedPromise!ShortPlan

\* What is due is the next activity, and nothing is when the plan is through.
LEMMA DueIsNext ==
    ASSUME proj \in StateType, Planned(proj)
    PROVE  /\ SharedPromise!AllDone <=> proj.next = 9
           /\ proj.next \in Steps => SharedPromise!Due = ActivityOrder[proj.next]
<1>1. /\ Len(proj.completed) \in Nat /\ proj.next \in 1..9
      /\ \/ proj.next = Len(proj.completed) + 1
         \/ proj.next = Len(proj.completed) + 2 /\ proj.next >= 4
  BY DEF StateType, Planned
<1>2. CASE proj.next = Len(proj.completed) + 1
  <2>1. SharedPromise!Plan = SharedPromise!FullPlan
    BY <1>1, <1>2 DEF SharedPromise!Plan
  <2>2. Len(proj.completed) = proj.next - 1
    BY <1>1, <1>2
  <2>3. SharedPromise!AllDone <=> proj.next = 9
    BY <1>1, <2>1, <2>2, PlanIsOrder DEF SharedPromise!AllDone
  <2>4. proj.next \in Steps => SharedPromise!Due = ActivityOrder[proj.next]
    BY <1>2, <2>1, PlanIsOrder DEF SharedPromise!Due, Steps
  <2> QED
    BY <2>3, <2>4
<1>3. CASE proj.next = Len(proj.completed) + 2 /\ proj.next >= 4
  <2>1. SharedPromise!Plan = SharedPromise!ShortPlan
    BY <1>3 DEF SharedPromise!Plan
  <2>2. Len(proj.completed) = proj.next - 2
    BY <1>1, <1>3
  <2>3. SharedPromise!AllDone <=> proj.next = 9
    BY <1>1, <2>1, <2>2, PlanIsOrder DEF SharedPromise!AllDone
  <2>4. proj.next \in Steps => proj.next \in 4..8 /\ Len(proj.completed) + 1 = proj.next - 1
    BY <1>1, <1>3, <2>2 DEF Steps
  <2>5. proj.next \in Steps => SharedPromise!Due = ActivityOrder[proj.next]
    BY <2>1, <2>4, PlanIsOrder DEF SharedPromise!Due
  <2> QED
    BY <2>3, <2>5
<1> QED
  BY <1>1, <1>2, <1>3

\* An initial state shows an initial state.
LEMMA InitPromise == LocalInit => SharedPromise!Init
<1> SUFFICES ASSUME LocalInit PROVE SharedPromise!Init
  OBVIOUS
<1>1. /\ proj.status = "NOT_STARTED" /\ proj.completed = << >> /\ proj.next = 1
      /\ proj.attempts = [a \in Activities |-> 0]
  BY DEF LocalInit, InitialState
<1>2. {SharedPromise!FullPlan[k] : k \in 1..8} = Activities
  BY PlanIsOrder DEF Activities, Steps
<1>3. (proj.next = Len(proj.completed) + 2) = FALSE
  BY <1>1
<1> QED
  BY <1>1, <1>2, <1>3 DEF SharedPromise!Init

\* A move of the plan is a step of CanaryRun, or none.
LEMMA MoveIsPromised ==
    ASSUME proj \in StateType, proj' \in StateType, Planned(proj), Planned(proj)',
           Moves(proj, proj', MaxTries)
    PROVE  [SharedPromise!Next]_(SharedPromise!vars)
<1>l. /\ Len(proj.completed) \in Nat /\ Len(proj'.completed) \in Nat
      /\ proj.completed \in Seq(Activities)
      /\ proj.next \in 1..9
  BY DEF StateType, Planned
<1>k. proj.next \in Steps => proj.next # 9
  BY DEF Steps
<1>s. proj'.next = proj.next /\ proj'.completed = proj.completed =>
        (proj'.next = Len(proj'.completed) + 2) = (proj.next = Len(proj.completed) + 2)
  OBVIOUS
<1>d. /\ SharedPromise!AllDone <=> proj.next = 9
      /\ proj.next \in Steps => SharedPromise!Due = ActivityOrder[proj.next]
  BY DueIsNext
<1>1. CASE BeginsRun(proj, proj')
  <2>1. SharedPromise!Begin
    BY <1>1, <1>s DEF BeginsRun, SharedPromise!Begin
  <2> QED
    BY <2>1 DEF SharedPromise!Next
<1>2. CASE TriesNext(proj, proj', MaxTries)
  <2>1. SharedPromise!Try
    BY <1>2, <1>s, <1>d, <1>k DEF TriesNext, SharedPromise!Try
  <2> QED
    BY <2>1 DEF SharedPromise!Next
<1>3. CASE FinishesNext(proj, proj')
  <2>1. /\ proj.next \in Steps /\ SharedPromise!Due = ActivityOrder[proj.next]
        /\ proj'.completed = Append(proj.completed, SharedPromise!Due) /\ ~SharedPromise!AllDone
        /\ proj.attempts[SharedPromise!Due] > 0
        /\ proj.status = "RUNNING" /\ proj'.status = proj.status
        /\ proj'.attempts = proj.attempts
    BY <1>3, <1>d, <1>k DEF FinishesNext
  <2>2. Len(proj'.completed) = Len(proj.completed) + 1
    BY <1>l, <2>1
  <2>3. (proj'.next = Len(proj'.completed) + 2) \in
            IF SharedPromise!Due = "PREFLIGHT" THEN BOOLEAN
            ELSE {proj.next = Len(proj.completed) + 2}
    <3>1. CASE SharedPromise!Due = "PREFLIGHT"
      BY <3>1
    <3>2. CASE SharedPromise!Due # "PREFLIGHT"
      <4>1. proj.next # 2
        BY <2>1, <3>2, OrderIsOneToOne
      <4>2. proj'.next = proj.next + 1
        BY <1>3, <4>1 DEF FinishesNext
      <4>3. (proj'.next = Len(proj'.completed) + 2) <=> (proj.next = Len(proj.completed) + 2)
        BY <1>l, <2>2, <4>2
      <4> QED
        BY <3>2, <4>3
    <3> QED
      BY <3>1, <3>2
  <2>4. SharedPromise!Finish
    BY <2>1, <2>3 DEF SharedPromise!Finish
  <2> QED
    BY <2>4 DEF SharedPromise!Next
<1>4. CASE EndsRun(proj, proj')
  <2>1. CASE proj'.status = "SUCCEEDED"
    <3>1. SharedPromise!Succeed
      BY <1>4, <1>s, <1>d, <2>1 DEF EndsRun, SharedPromise!Succeed
    <3> QED
      BY <3>1 DEF SharedPromise!Next
  <2>2. CASE proj'.status # "SUCCEEDED"
    <3>1. proj'.status \in {"FAILED", "REJECTED", "CANCELLED"}
      BY <1>4, <2>2 DEF EndsRun, TerminalStatuses
    <3>2. SharedPromise!Stop
      BY <1>4, <1>s, <3>1 DEF EndsRun, SharedPromise!Stop
    <3> QED
      BY <3>2 DEF SharedPromise!Next
  <2> QED
    BY <2>1, <2>2
<1>5. CASE RestsAsIs(proj, proj')
  BY <1>5, <1>s DEF RestsAsIs, SharedPromise!vars
<1> QED
  BY <1>1, <1>2, <1>3, <1>4, <1>5 DEF Moves

\* Every step shows a step of CanaryRun, or none.
LEMMA StepIsPromised ==
    ASSUME LocalInv, LocalInv', [LocalNext]_localVars
    PROVE  [SharedPromise!Next]_(SharedPromise!vars)
<1>1. CASE proj' = proj
  BY <1>1 DEF SharedPromise!vars
<1>2. ASSUME NEW e \in EventType, Ready(proj, e), proj' = ApplyEvent(proj, e)
      PROVE  [SharedPromise!Next]_(SharedPromise!vars)
  <2>1. /\ proj \in StateType /\ proj' \in StateType /\ Planned(proj) /\ Planned(proj)'
        /\ Budget(proj, MaxTries) /\ MaxTries \in Nat
    BY LocalCanaryAssumption DEF LocalInv, Types, History, Sound
  <2>2. Moves(proj, proj', MaxTries)
    BY <1>2, <2>1, ProgressMoves DEF Ready
  <2> QED
    BY <2>1, <2>2, MoveIsPromised
<1> QED
  BY <1>1, <1>2, LocalInvStep

----------------------------------------------------------------------------
(* Theorems.                                                               *)

\* The invariant holds in every behaviour.
LEMMA LocalInvariance == LocalSpec => []LocalInv
<1>1. LocalInv /\ [LocalNext]_localVars => LocalInv'
  BY LocalInvStep
<1> QED
  BY <1>1, LocalInvInit, PTL DEF LocalSpec

\* The history that any number of drivers leave can be projected, and what any
\* of them returned is how the run ended (CanaryWorkflow.run).
THEOREM DriversReturnTheEnd == LocalSpec => []DriversAgree
<1>1. LocalInv => DriversAgree
  BY DEF LocalInv, Driving, Past, DriversAgree, Is
<1> QED
  BY <1>1, LocalInvariance, PTL

\* The journal that they share is a run of CanaryRun: the plan is followed, no
\* activity is tried more often than RetryPolicy.max_attempts, whichever drivers
\* made the attempts, and what a run ended as is final.
THEOREM DriversKeepThePromise == LocalSpec => DriversKeepPromise
<1>1. LocalInv /\ LocalInv' /\ [LocalNext]_localVars
        => [SharedPromise!Next]_(SharedPromise!vars)
  BY StepIsPromised
<1> QED
  BY <1>1, InitPromise, LocalInvariance, PTL
  DEF LocalSpec, DriversKeepPromise, SharedPromise!Spec
=============================================================================
