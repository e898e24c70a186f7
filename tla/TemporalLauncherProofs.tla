---------------------- MODULE TemporalLauncherProofs ----------------------
(***************************************************************************)
(* Proofs about TemporalLauncher, for any number of events, faults and     *)
(* restarts.                                                               *)
(***************************************************************************)
EXTENDS TemporalLauncher, TLAPS

\* A run that was not started has no row.
NewRun == starter = "new" => row.state = "none"

\* Nor does its thread run.
NewThread == starter = "new" => monitor = "none" /\ last = 0

\* The events before the next one to be published are shown, while the run is
\* RUNNING.
Publishing == monitor \in {"publishing", "last_publish"}
KeepsUp ==
    /\ last <= journal /\ batch[2] <= journal
    /\ row.state = "RUNNING" =>
        /\ last <= Len(shown)
        /\ Publishing => batch[1] <= Len(shown) + 1

\* What the thread and the cancel requests have learnt of the workflow.
Knows ==
    /\ monitor \in Attached \cup {"registering"} => wf # "none"
    /\ monitor \in {"finishing", "last_publish", "settling"} => wf \in {"succeeded", "failed"}
    /\ monitor = "confirming" => wf = "cancelled"
    /\ \A c \in Callers : canceller[c] = "confirming" => wfCancel \/ wf \in Closed

\* No start has reached Temporal, and none is on its way.
NothingSent == wf = "none" /\ ~pending

\* The two ends that say what the workflow did.
EndsKnown ==
    /\ row.state = "COMPLETED" => wf = "succeeded"
    /\ row.state = "CANCELLED" => wfCancel \/ wf \in Closed
    /\ refused => NothingSent

\* In a process that was not restarted, a failure is known to be one.
BeforeThread == {"new", "created", "prepared", "failing", "abandoned"}
FailureKnown ==
    /\ up
    /\ starter \in BeforeThread => monitor = "none" /\ NothingSent
    /\ monitor \in {"connecting", "dispatching"} /\ ~uncertain => NothingSent
    /\ monitor = "failing" => NothingSent \/ wf = "errored"
    /\ row.state = "FAILED" =>
        /\ starter \notin {"created", "prepared"}
        /\ \/ NothingSent /\ monitor \in {"none", "failing", "ending"}
           \/ wf \in {"failed", "errored"}
FreshKnown == restarts = 0 => FailureKnown

----------------------------------------------------------------------------
\* The initial state is typed.
LEMMA TypeInit == Init => TypeOK
<1> SUFFICES ASSUME Init PROVE TypeOK
  OBVIOUS
<1> USE DEF Init
<1>1. row \in [state : {"none", "RUNNING"} \cup Ended, cancel : BOOLEAN]
  OBVIOUS
<1>2. shown \in Seq(1..MaxEvents)
  OBVIOUS
<1>3. batch \in (1..MaxEvents + 1) \X (0..MaxEvents) /\ last \in 0..MaxEvents /\ journal \in 0..MaxEvents
  BY LauncherAssumption
<1>4. faults \in 0..MaxFaults /\ restarts \in 0..MaxRestarts
  BY LauncherAssumption
<1> QED BY <1>1, <1>2, <1>3, <1>4 DEF TypeOK

\* A fault, or none, keeps the bounds.
LEMMA BoundsStep ==
    ASSUME TypeOK, Fault \/ NoFault
    PROVE  faults' \in 0..MaxFaults /\ restarts' \in 0..MaxRestarts
BY LauncherAssumption DEF Fault, NoFault, bounds, TypeOK

\* Ending a run keeps the type of the row, and a state that is not RUNNING.
LEMMA EndRunStep ==
    ASSUME TypeOK, NEW state \in Ended, EndRun(state)
    PROVE  /\ row' \in [state : {"none", "RUNNING"} \cup Ended, cancel : BOOLEAN]
           /\ row.state # "RUNNING" => row' = row
           /\ row.state = "RUNNING" => row'.state = state
BY DEF EndRun, TypeOK

\* A verdict ends the run.
LEMMA VerdictEnds == Verdict \in Ended
BY DEF Verdict, Ended

\* The parts of the type invariant, by who holds the state.
DatabaseOK ==
    /\ row \in [state : {"none", "RUNNING"} \cup Ended, cancel : BOOLEAN]
    /\ shown \in Seq(1..MaxEvents) /\ outbox \in BOOLEAN /\ journal \in 0..MaxEvents
TemporalOK ==
    /\ wf \in {"none", "running"} \cup Closed /\ wfCancel \in BOOLEAN
    /\ pending \in BOOLEAN /\ refused \in BOOLEAN
RequestsOK ==
    /\ up \in BOOLEAN /\ active \in BOOLEAN /\ cancelReq \in BOOLEAN
    /\ starter \in {"new", "created", "prepared", "failing", "returned", "abandoned", "gone"}
    /\ canceller \in [Callers -> {"idle", "looking", "marking", "calling", "confirming", "gave_up"}]
ThreadOK ==
    /\ monitor \in {"none", "connecting", "dispatching", "registering", "failing", "ending"}
                    \cup Attached
    /\ uncertain \in BOOLEAN /\ last \in 0..MaxEvents
    /\ batch \in (1..MaxEvents + 1) \X (0..MaxEvents)
BoundsOK == faults \in 0..MaxFaults /\ restarts \in 0..MaxRestarts

\* They make it up.
LEMMA TypeParts == TypeOK <=> DatabaseOK /\ TemporalOK /\ RequestsOK /\ ThreadOK /\ BoundsOK
BY DEF TypeOK, DatabaseOK, TemporalOK, RequestsOK, ThreadOK, BoundsOK

\* A part that is left alone keeps its type.
LEMMA FrameTypes ==
    /\ DatabaseOK /\ UNCHANGED database => DatabaseOK'
    /\ TemporalOK /\ UNCHANGED temporal => TemporalOK'
    /\ RequestsOK /\ UNCHANGED << up, starter, canceller, memory >> => RequestsOK'
    /\ ThreadOK /\ UNCHANGED thread => ThreadOK'
    /\ BoundsOK /\ UNCHANGED bounds => BoundsOK'
BY DEF DatabaseOK, TemporalOK, RequestsOK, ThreadOK, BoundsOK, database, temporal, thread,
       memory, bounds

\* So does a thread that is started.
LEMMA StartThreadTypes == StartThread => ThreadOK'
<1> SUFFICES ASSUME StartThread PROVE ThreadOK'
  OBVIOUS
<1>1. 0 \in 0..MaxEvents /\ << 1, 0 >> \in (1..MaxEvents + 1) \X (0..MaxEvents)
  BY LauncherAssumption
<1>2. monitor' = "connecting" /\ uncertain' = FALSE /\ last' = 0 /\ batch' = << 1, 0 >>
  BY DEF StartThread
<1> QED BY <1>1, <1>2 DEF ThreadOK

\* Every step keeps the type of the bounds.
LEMMA BoundsNext == TypeOK /\ [Next]_vars => BoundsOK'
<1> SUFFICES ASSUME TypeOK, [Next]_vars PROVE BoundsOK'
  OBVIOUS
<1>1. CASE Fault \/ NoFault
  BY <1>1, BoundsStep DEF BoundsOK
<1>2. CASE Stop
  BY <1>2, LauncherAssumption DEF Stop, TypeOK, BoundsOK
<1>3. CASE UNCHANGED bounds
  BY <1>3 DEF TypeOK, BoundsOK, bounds
<1>4. Fault \/ NoFault \/ Stop \/ UNCHANGED bounds
  <2>1. Start => Fault \/ NoFault
    BY DEF Start, Create, Prepare, StartMonitor, MarkStartFailed
  <2>2. RequestCancel \/ RetryLooks \/ (\E c \in Callers : Cancel(c)) => Fault \/ NoFault
    BY DEF RequestCancel, RetryLooks, Cancel, MarkCancel, CallCancel, ConfirmCancel
  <2>3. Monitor => Fault \/ NoFault
    BY DEF Monitor, Connect, Dispatch, Register, CancelHandle, Poll, PublishEvent, GetResult,
           LastPublish, ProjectTerminal, EndThread
  <2>4. Restart => Fault \/ NoFault
    BY DEF Restart
  <2>5. ArriveLate \/ WorkflowEvent \/ WorkflowCloses \/ UNCHANGED vars => UNCHANGED bounds
    BY DEF ArriveLate, WorkflowEvent, WorkflowCloses, vars, bounds
  <2> QED BY <2>1, <2>2, <2>3, <2>4, <2>5 DEF Next
<1> QED BY <1>1, <1>2, <1>3, <1>4

\* Every step of start_run and of the cancel requests keeps the types.
LEMMA TypeRequests ==
    ASSUME TypeOK, Start \/ RequestCancel \/ RetryLooks \/ (\E c \in Callers : Cancel(c))
    PROVE  DatabaseOK' /\ TemporalOK' /\ RequestsOK' /\ ThreadOK'
<1>0. DatabaseOK /\ TemporalOK /\ RequestsOK /\ ThreadOK
  BY TypeParts
<1>1. CASE Create
  <2>1. DatabaseOK'
    BY <1>0, <1>1 DEF Create, DatabaseOK
  <2>2. RequestsOK'
    BY <1>0, <1>1 DEF Create, RequestsOK, memory
  <2> QED BY <1>0, <1>1, <2>1, <2>2, FrameTypes DEF Create
<1>2. CASE Prepare
  <2>1. DatabaseOK'
    BY <1>0, <1>2 DEF Prepare, DatabaseOK
  <2>2. RequestsOK'
    BY <1>0, <1>2 DEF Prepare, RequestsOK, memory
  <2> QED BY <1>0, <1>2, <2>1, <2>2, FrameTypes DEF Prepare
<1>3. CASE StartMonitor
  <2>1. RequestsOK'
    BY <1>0, <1>3 DEF StartMonitor, RequestsOK, memory
  <2>2. ThreadOK'
    BY <1>3, StartThreadTypes DEF StartMonitor
  <2> QED BY <1>0, <1>3, <2>1, <2>2, FrameTypes DEF StartMonitor
<1>4. CASE MarkStartFailed
  <2>1. EndRun("FAILED") \/ UNCHANGED row
    BY <1>4 DEF MarkStartFailed
  <2>2. row' \in [state : {"none", "RUNNING"} \cup Ended, cancel : BOOLEAN]
    BY <1>0, <2>1, EndRunStep DEF DatabaseOK, Ended
  <2>3. DatabaseOK'
    BY <1>0, <1>4, <2>2 DEF MarkStartFailed, DatabaseOK
  <2>4. RequestsOK'
    BY <1>0, <1>4 DEF MarkStartFailed, RequestsOK, memory
  <2> QED BY <1>0, <1>4, <2>3, <2>4, FrameTypes DEF MarkStartFailed
<1>5. CASE RequestCancel
  <2>1. DatabaseOK'
    BY <1>0, <1>5 DEF RequestCancel, DatabaseOK
  <2>2. RequestsOK'
    BY <1>0, <1>5 DEF RequestCancel, Goes, RequestsOK, memory
  <2> QED BY <1>0, <1>5, <2>1, <2>2, FrameTypes DEF RequestCancel
<1>6. CASE RetryLooks
  <2>1. RequestsOK'
    BY <1>0, <1>6 DEF RetryLooks, Goes, RequestsOK, memory
  <2> QED BY <1>0, <1>6, <2>1, FrameTypes DEF RetryLooks
<1>7. ASSUME NEW c \in Callers, Cancel(c)
      PROVE  DatabaseOK' /\ TemporalOK' /\ RequestsOK' /\ ThreadOK'
  <2>1. CASE MarkCancel(c)
    <3>1. RequestsOK'
      BY <1>0, <2>1 DEF MarkCancel, Goes, NotDispatched, RequestsOK
    <3> QED BY <1>0, <2>1, <3>1, FrameTypes DEF MarkCancel
  <2>2. CASE CallCancel(c)
    <3>1. RequestsOK'
      BY <1>0, <2>2 DEF CallCancel, Goes, NotDispatched, RequestsOK, memory
    <3>2. TemporalOK'
      BY <1>0, <2>2 DEF CallCancel, AcceptCancel, TemporalOK
    <3> QED BY <1>0, <2>2, <3>1, <3>2, FrameTypes DEF CallCancel
  <2>3. CASE ConfirmCancel(c)
    <3>1. EndRun("CANCELLED") \/ UNCHANGED row
      BY <2>3 DEF ConfirmCancel
    <3>2. row' \in [state : {"none", "RUNNING"} \cup Ended, cancel : BOOLEAN]
      BY <1>0, <3>1, EndRunStep DEF DatabaseOK, Ended
    <3>3. DatabaseOK'
      BY <1>0, <2>3, <3>2 DEF ConfirmCancel, DatabaseOK
    <3>4. RequestsOK'
      BY <1>0, <2>3 DEF ConfirmCancel, Goes, RequestsOK, memory
    <3> QED BY <1>0, <2>3, <3>3, <3>4, FrameTypes DEF ConfirmCancel
  <2> QED BY <1>7, <2>1, <2>2, <2>3 DEF Cancel
<1> QED BY <1>1, <1>2, <1>3, <1>4, <1>5, <1>6, <1>7 DEF Start

\* Every step of the monitor thread keeps the types.
LEMMA TypeMonitor ==
    ASSUME TypeOK, Monitor
    PROVE  DatabaseOK' /\ TemporalOK' /\ RequestsOK' /\ ThreadOK'
<1>0. DatabaseOK /\ TemporalOK /\ RequestsOK /\ ThreadOK
  BY TypeParts
<1>1. CASE Connect
  <2>1. ThreadOK'
    BY <1>0, <1>1 DEF Connect, Thread, ThreadOK
  <2> QED BY <1>0, <1>1, <2>1, FrameTypes DEF Connect
<1>2. CASE Dispatch
  <2>1. ThreadOK'
    BY <1>0, <1>2 DEF Dispatch, Thread, ThreadOK
  <2>2. TemporalOK'
    BY <1>0, <1>2 DEF Dispatch, Started, TemporalOK
  <2> QED BY <1>0, <1>2, <2>1, <2>2, FrameTypes DEF Dispatch
<1>3. CASE Register
  <2>1. monitor' \in Attached /\ last' = 0 /\ UNCHANGED << uncertain, batch >>
    BY <1>3 DEF Register, Thread, Attached
  <2>2. ThreadOK'
    BY <1>0, <2>1, LauncherAssumption DEF ThreadOK
  <2>3. RequestsOK'
    BY <1>0, <1>3 DEF Register, Thread, RequestsOK
  <2> QED BY <1>0, <1>3, <2>2, <2>3, FrameTypes DEF Register
<1>4. CASE CancelHandle
  <2>1. ThreadOK'
    BY <1>0, <1>4 DEF CancelHandle, Thread, ThreadOK, Attached
  <2>2. TemporalOK'
    BY <1>0, <1>4 DEF CancelHandle, AcceptCancel, TemporalOK
  <2> QED BY <1>0, <1>4, <2>1, <2>2, FrameTypes DEF CancelHandle
<1>5. CASE Poll \/ LastPublish
  <2>1. ASSUME journal > last
        PROVE  << last + 1, journal >> \in (1..MaxEvents + 1) \X (0..MaxEvents)
    BY <1>0, <2>1, LauncherAssumption DEF DatabaseOK, ThreadOK
  <2>2. ThreadOK'
    BY <1>0, <1>5, <2>1 DEF Poll, LastPublish, LoadEvents, Thread, ThreadOK, Attached
  <2>3. UNCHANGED << database, temporal, up, starter, canceller, memory >>
    BY <1>5 DEF Poll, LastPublish, LoadEvents
  <2> QED BY <1>0, <2>2, <2>3, FrameTypes
<1>6. CASE PublishEvent
  <2>1. CASE row.state = "RUNNING" /\ batch[1] <= batch[2] /\ Show(batch[1])
             /\ batch' = << batch[1] + 1, batch[2] >> /\ UNCHANGED << monitor, last >>
    <3>1. batch[1] \in 1..MaxEvents /\ batch[2] \in 0..MaxEvents
      BY <1>0, <2>1, LauncherAssumption DEF ThreadOK
    <3>2. batch' \in (1..MaxEvents + 1) \X (0..MaxEvents)
      BY <2>1, <3>1, LauncherAssumption
    <3>3. ThreadOK'
      BY <1>0, <1>6, <2>1, <3>2 DEF PublishEvent, ThreadOK
    <3>4. Append(shown, batch[1]) \in Seq(1..MaxEvents)
      BY <1>0, <3>1 DEF DatabaseOK
    <3>5. shown' \in Seq(1..MaxEvents)
      BY <1>0, <2>1, <3>4 DEF Show, DatabaseOK
    <3>6. DatabaseOK'
      BY <1>0, <1>6, <3>5 DEF PublishEvent, DatabaseOK
    <3> QED BY <1>0, <1>6, <3>3, <3>6, FrameTypes DEF PublishEvent
  <2>2. CASE last' \in {last, batch[2]} /\ monitor' = AfterPublish /\ UNCHANGED << shown, batch >>
    <3>1. batch[2] \in 0..MaxEvents
      BY <1>0 DEF ThreadOK
    <3>2. AfterPublish \in Attached
      BY DEF AfterPublish, Attached
    <3>3. ThreadOK'
      BY <1>0, <1>6, <2>2, <3>1, <3>2 DEF PublishEvent, ThreadOK
    <3>4. UNCHANGED database
      BY <1>6, <2>2 DEF PublishEvent, database
    <3> QED BY <1>0, <1>6, <3>3, <3>4, FrameTypes DEF PublishEvent
  <2> QED BY <1>6, <2>1, <2>2 DEF PublishEvent
<1>7. CASE GetResult
  <2>1. ThreadOK'
    BY <1>0, <1>7 DEF GetResult, Thread, ThreadOK, Attached
  <2> QED BY <1>0, <1>7, <2>1, FrameTypes DEF GetResult
<1>8. CASE ProjectTerminal
  <2>1. EndRun(Verdict) \/ UNCHANGED row
    BY <1>8 DEF ProjectTerminal
  <2>2. row' \in [state : {"none", "RUNNING"} \cup Ended, cancel : BOOLEAN]
    BY <1>0, <2>1, EndRunStep, VerdictEnds DEF DatabaseOK
  <2>3. DatabaseOK'
    BY <1>0, <1>8, <2>2 DEF ProjectTerminal, DatabaseOK
  <2>4. ThreadOK'
    BY <1>0, <1>8 DEF ProjectTerminal, ThreadOK
  <2> QED BY <1>0, <1>8, <2>3, <2>4, FrameTypes DEF ProjectTerminal
<1>9. CASE EndThread
  <2>1. ThreadOK'
    BY <1>0, <1>9 DEF EndThread, Thread, ThreadOK
  <2>2. RequestsOK'
    BY <1>0, <1>9 DEF EndThread, Thread, RequestsOK
  <2> QED BY <1>0, <1>9, <2>1, <2>2, FrameTypes DEF EndThread
<1> QED BY <1>1, <1>2, <1>3, <1>4, <1>5, <1>6, <1>7, <1>8, <1>9 DEF Monitor

\* Restarts, and what happens in Temporal, keep the types.
LEMMA TypeOthers ==
    ASSUME TypeOK, Stop \/ Restart \/ ArriveLate \/ WorkflowEvent \/ WorkflowCloses
    PROVE  DatabaseOK' /\ TemporalOK' /\ RequestsOK' /\ ThreadOK'
<1>0. DatabaseOK /\ TemporalOK /\ RequestsOK /\ ThreadOK
  BY TypeParts
<1>1. CASE Stop
  <2>1. RequestsOK'
    BY <1>0, <1>1 DEF Stop, RequestsOK
  <2>2. ThreadOK'
    BY <1>0, <1>1 DEF Stop, ThreadOK
  <2>3. pending' \in BOOLEAN
    BY <1>0, <1>1 DEF Stop, TemporalOK
  <2>4. TemporalOK'
    BY <1>0, <1>1, <2>3 DEF Stop, TemporalOK
  <2> QED BY <1>0, <1>1, <2>1, <2>2, <2>4, FrameTypes DEF Stop
<1>2. CASE Restart
  <2>1. /\ canceller' = canceller \/ canceller' = [canceller EXCEPT !["retry"] = "looking"]
        /\ UNCHANGED thread \/ StartThread
    BY <1>2 DEF Restart, Recover, NotRecovered, thread
  <2>2. ThreadOK'
    BY <1>0, <2>1, StartThreadTypes, FrameTypes
  <2>3. RequestsOK'
    BY <1>0, <1>2, <2>1 DEF Restart, RequestsOK, memory
  <2>4. UNCHANGED row \/ EndRun("FAILED")
    BY <1>2 DEF Restart, Recover, NotRecovered
  <2>5. row' \in [state : {"none", "RUNNING"} \cup Ended, cancel : BOOLEAN]
    BY <1>0, <2>4, EndRunStep DEF DatabaseOK, Ended
  <2>6. DatabaseOK'
    BY <1>0, <1>2, <2>5 DEF Restart, DatabaseOK
  <2> QED BY <1>0, <1>2, <2>2, <2>3, <2>6, FrameTypes DEF Restart
<1>3. CASE ArriveLate
  <2>1. TemporalOK'
    BY <1>0, <1>3 DEF ArriveLate, Started, TemporalOK
  <2> QED BY <1>0, <1>3, <2>1, FrameTypes DEF ArriveLate
<1>4. CASE WorkflowEvent
  <2>1. DatabaseOK'
    BY <1>0, <1>4, LauncherAssumption DEF WorkflowEvent, DatabaseOK
  <2> QED BY <1>0, <1>4, <2>1, FrameTypes DEF WorkflowEvent
<1>5. CASE WorkflowCloses
  <2>1. TemporalOK'
    BY <1>0, <1>5 DEF WorkflowCloses, TemporalOK
  <2> QED BY <1>0, <1>5, <2>1, FrameTypes DEF WorkflowCloses
<1> QED BY <1>1, <1>2, <1>3, <1>4, <1>5

\* Every step keeps the types.
LEMMA TypeNext == TypeOK /\ [Next]_vars => TypeOK'
<1> SUFFICES ASSUME TypeOK, [Next]_vars PROVE TypeOK'
  OBVIOUS
<1>1. BoundsOK'
  BY BoundsNext
<1>2. DatabaseOK' /\ TemporalOK' /\ RequestsOK' /\ ThreadOK'
  <2>1. CASE UNCHANGED vars
    BY <2>1, TypeParts, FrameTypes DEF vars
  <2> QED BY <2>1, TypeRequests, TypeMonitor, TypeOthers DEF Next
<1>3. (DatabaseOK /\ TemporalOK /\ RequestsOK /\ ThreadOK /\ BoundsOK => TypeOK)'
  BY DEF TypeOK, DatabaseOK, TemporalOK, RequestsOK, ThreadOK, BoundsOK
<1> QED BY <1>1, <1>2, <1>3

\* The type invariant holds for any number of events, faults and restarts.
THEOREM TypeCorrect == Spec => []TypeOK
BY TypeInit, TypeNext, PTL DEF Spec

----------------------------------------------------------------------------
(* The end of a run is final.                                              *)

\* Only the ending of a run, and its creation, change the state of its row.
LEMMA RowStep ==
    ASSUME TypeOK, [Next]_vars
    PROVE  \/ Create
           \/ row'.state = row.state
           \/ \E state \in Ended : EndRun(state)
<1>1. CASE Start
  <2>1. MarkStartFailed => EndRun("FAILED") \/ UNCHANGED row
    BY DEF MarkStartFailed
  <2>2. Prepare \/ StartMonitor => UNCHANGED row
    BY DEF Prepare, StartMonitor, database
  <2> QED BY <1>1, <2>1, <2>2 DEF Start, Ended
<1>2. CASE RequestCancel
  BY <1>2 DEF RequestCancel, TypeOK
<1>3. CASE RetryLooks \/ \E c \in Callers : Cancel(c)
  <2>1. EndRun("CANCELLED") \/ UNCHANGED row
    BY <1>3 DEF RetryLooks, Cancel, MarkCancel, CallCancel, ConfirmCancel, database
  <2> QED BY <2>1 DEF Ended
<1>4. CASE Monitor
  <2>1. ProjectTerminal => EndRun(Verdict) \/ UNCHANGED row
    BY DEF ProjectTerminal
  <2>2. Monitor => ProjectTerminal \/ UNCHANGED row
    BY DEF Monitor, Connect, Dispatch, Register, CancelHandle, Poll, PublishEvent, GetResult,
           LastPublish, LoadEvents, EndThread, database
  <2> QED BY <1>4, <2>1, <2>2, VerdictEnds
<1>5. CASE Restart
  <2>1. EndRun("FAILED") \/ UNCHANGED row
    BY <1>5 DEF Restart, Recover, NotRecovered
  <2> QED BY <2>1 DEF Ended
<1>6. CASE Stop \/ ArriveLate \/ WorkflowEvent \/ WorkflowCloses \/ UNCHANGED vars
  BY <1>6 DEF Stop, ArriveLate, WorkflowEvent, WorkflowCloses, vars, database
<1> QED BY <1>1, <1>2, <1>3, <1>4, <1>5, <1>6 DEF Next

\* The parameter of start_run: it creates its row once.
LEMMA StarterStep ==
    ASSUME [Next]_vars, starter' = "new"
    PROVE  starter = "new" /\ ~Create
<1>1. Start => starter' # "new"
  BY DEF Start, Create, Prepare, StartMonitor, MarkStartFailed
<1>2. CASE Stop
  BY <1>2 DEF Stop, Create
<1>3. ASSUME UNCHANGED starter PROVE starter = "new" /\ ~Create
  BY <1>3 DEF Create
<1>4. Start \/ Stop \/ UNCHANGED starter
  BY DEF Next, RequestCancel, RetryLooks, Cancel, MarkCancel, CallCancel, ConfirmCancel, Monitor,
         Connect, Dispatch, Register, CancelHandle, Poll, PublishEvent, GetResult, LastPublish,
         LoadEvents, ProjectTerminal, EndThread, Restart, ArriveLate, WorkflowEvent,
         WorkflowCloses, vars
<1> QED BY <1>1, <1>2, <1>3, <1>4

\* A run that was not started keeps having no row.
LEMMA NewRunNext == TypeOK /\ NewRun /\ [Next]_vars => NewRun'
<1> SUFFICES ASSUME TypeOK, NewRun, [Next]_vars, starter' = "new" PROVE row'.state = "none"
  BY DEF NewRun
<1>1. row.state = "none" /\ ~Create
  BY StarterStep DEF NewRun
<1>2. ASSUME NEW state \in Ended, EndRun(state) PROVE row' = row
  BY <1>1, <1>2 DEF EndRun
<1> QED BY <1>1, <1>2, RowStep

\* No step changes the state of a run that has ended.
LEMMA EndStep == TypeOK /\ NewRun /\ [Next]_vars => (row.state \in Ended => row'.state = row.state)
<1> SUFFICES ASSUME TypeOK, NewRun, [Next]_vars, row.state \in Ended PROVE row'.state = row.state
  OBVIOUS
<1>1. ~Create
  BY DEF Create, NewRun, Ended
<1>2. ASSUME NEW state \in Ended, EndRun(state) PROVE row' = row
  BY <1>2 DEF EndRun, Ended
<1> QED BY <1>1, <1>2, RowStep

\* A run that has ended keeps its state, whoever comes late, for any number of
\* events, faults and restarts.
THEOREM EndStays == Spec => EndIsFinal
<1>1. Init => NewRun
  BY DEF Init, NewRun
<1>2. TypeOK /\ NewRun /\ [Next]_vars => [row.state \in Ended => row'.state = row.state]_vars
  BY EndStep
<1> QED BY <1>1, <1>2, NewRunNext, TypeInit, TypeNext, PTL DEF Spec, EndIsFinal

----------------------------------------------------------------------------
(* The events are shown in their order.                                    *)

\* A thread that was not started stays so.
LEMMA NewThreadNext == TypeOK /\ NewRun /\ NewThread /\ [Next]_vars => NewThread'
<1> SUFFICES ASSUME TypeOK, NewRun, NewThread, [Next]_vars, starter' = "new"
             PROVE  monitor' = "none" /\ last' = 0
  BY DEF NewThread
<1>1. starter = "new" /\ row.state = "none" /\ monitor = "none" /\ last = 0
  BY StarterStep DEF NewRun, NewThread
<1>2. ~Monitor
  BY <1>1 DEF Monitor, Connect, Dispatch, Register, CancelHandle, Poll, PublishEvent, GetResult,
              LastPublish, LoadEvents, ProjectTerminal, EndThread, Thread
<1>3. Start => starter' # "new"
  BY DEF Start, Create, Prepare, StartMonitor, MarkStartFailed
<1>4. Restart => UNCHANGED thread
  BY <1>1 DEF Restart
<1>5. Stop => monitor' = "none" /\ UNCHANGED last
  BY DEF Stop
<1>6. RequestCancel \/ RetryLooks \/ (\E c \in Callers : Cancel(c)) \/ ArriveLate
        \/ WorkflowEvent \/ WorkflowCloses \/ UNCHANGED vars
      => UNCHANGED thread
  BY DEF RequestCancel, RetryLooks, Cancel, MarkCancel, CallCancel, ConfirmCancel, ArriveLate,
         WorkflowEvent, WorkflowCloses, vars
<1>7. UNCHANGED thread => UNCHANGED << monitor, last >>
  BY DEF thread
<1> QED BY <1>1, <1>2, <1>3, <1>4, <1>5, <1>6, <1>7 DEF Next

\* What a step that neither loads nor publishes events does to them.
ShowsNothing ==
    /\ UNCHANGED shown /\ journal' \in {journal, journal + 1}
    /\ last' \in {last, 0} /\ (batch' = batch \/ batch' = << 1, 0 >>)
    /\ Publishing' => Publishing /\ UNCHANGED << batch, last >>

\* These are all the other steps.
LEMMA OtherSteps ==
    ASSUME TypeOK, NewThread, [Next]_vars
    PROVE  PublishEvent \/ Poll \/ LastPublish \/ ShowsNothing
<1> USE DEF ShowsNothing, Publishing, database, thread
<1>1. Start => ShowsNothing
  BY DEF Start, Create, Prepare, StartMonitor, StartThread, MarkStartFailed
<1>2. RequestCancel \/ RetryLooks => ShowsNothing
  BY DEF RequestCancel, RetryLooks
<1>3. ASSUME NEW c \in Callers, Cancel(c) PROVE ShowsNothing
  BY <1>3 DEF Cancel, MarkCancel, CallCancel, ConfirmCancel
<1>4. Connect \/ Register \/ ProjectTerminal \/ EndThread => ShowsNothing
  BY DEF Connect, Register, ProjectTerminal, EndThread, Thread
<1>5. Dispatch \/ CancelHandle => ShowsNothing
  BY DEF Dispatch, CancelHandle, Thread
<1>6. GetResult => ShowsNothing
  BY DEF GetResult, Thread
<1>7. Stop \/ ArriveLate \/ WorkflowEvent \/ WorkflowCloses => ShowsNothing
  BY DEF Stop, ArriveLate, WorkflowEvent, WorkflowCloses
<1>8. Restart => ShowsNothing
  BY DEF Restart, Recover, NotRecovered, StartThread
<1>9. UNCHANGED vars => ShowsNothing
  BY DEF vars
<1> QED BY <1>1, <1>2, <1>3, <1>4, <1>5, <1>6, <1>7, <1>8, <1>9 DEF Next, Monitor

\* Only its creation makes a run RUNNING.
LEMMA RunningStep ==
    ASSUME TypeOK, [Next]_vars, row'.state = "RUNNING"
    PROVE  Create \/ row.state = "RUNNING"
<1>1. ASSUME NEW state \in Ended, EndRun(state), row.state # "RUNNING" PROVE FALSE
  BY <1>1 DEF EndRun
<1> QED BY <1>1, RowStep

\* Every step keeps the order, and keeps up.
LEMMA OrderNext ==
    TypeOK /\ NewRun /\ NewThread /\ KeepsUp /\ ShownInOrder /\ [Next]_vars
        => KeepsUp' /\ ShownInOrder'
<1> SUFFICES ASSUME TypeOK, NewRun, NewThread, KeepsUp, ShownInOrder, [Next]_vars
             PROVE  KeepsUp' /\ ShownInOrder'
  OBVIOUS
<1>0. /\ last \in Nat /\ journal \in Nat /\ batch[1] \in Nat /\ batch[2] \in Nat
      /\ Len(shown) \in Nat /\ shown \in Seq(Nat)
  <2>1. \A n \in 1..MaxEvents : n \in Nat
    BY LauncherAssumption
  <2> QED BY <2>1, LauncherAssumption DEF TypeOK
<1>1. CASE ShowsNothing
  <2>1. ShownInOrder'
    BY <1>0, <1>1 DEF ShowsNothing, ShownInOrder
  <2>2. last' <= journal' /\ batch'[2] <= journal'
    BY <1>0, <1>1 DEF ShowsNothing, KeepsUp
  <2>3. ASSUME row'.state = "RUNNING"
        PROVE  last' <= Len(shown') /\ (Publishing' => batch'[1] <= Len(shown') + 1)
    <3>1. CASE Create
      <4>1. last' = 0 /\ ~Publishing'
        BY <3>1 DEF Create, NewThread, Publishing, thread
      <4> QED BY <1>0, <1>1, <4>1 DEF ShowsNothing
    <3>2. CASE row.state = "RUNNING"
      BY <1>0, <1>1, <3>2 DEF ShowsNothing, KeepsUp
    <3> QED BY <2>3, <3>1, <3>2, RunningStep
  <2> QED BY <2>1, <2>2, <2>3 DEF KeepsUp
<1>2. CASE Poll \/ LastPublish
  <2>1. UNCHANGED database
    BY <1>2 DEF Poll, LastPublish, LoadEvents
  <2>2. \/ UNCHANGED << last, batch >> /\ ~Publishing'
        \/ batch' = << last + 1, journal >> /\ UNCHANGED last
    BY <1>2 DEF Poll, LastPublish, LoadEvents, Thread, Publishing
  <2>3. ShownInOrder'
    BY <2>1 DEF ShownInOrder, database
  <2>4. KeepsUp'
    BY <1>0, <2>1, <2>2 DEF KeepsUp, database
  <2> QED BY <2>3, <2>4
<1>3. CASE PublishEvent
  <2>0. UNCHANGED << row, journal >>
    BY <1>3 DEF PublishEvent
  <2>1. CASE /\ row.state = "RUNNING" /\ batch[1] <= batch[2] /\ Show(batch[1]) /\ Publishing
             /\ batch' = << batch[1] + 1, batch[2] >> /\ UNCHANGED << monitor, last >>
    <3>1. batch[1] <= Len(shown) + 1 /\ batch[1] <= journal /\ last <= Len(shown)
      BY <1>0, <2>1 DEF KeepsUp
    <3>2. CASE batch[1] <= Len(shown)
      <4>1. batch[1] \in DOMAIN shown /\ shown[batch[1]] = batch[1]
        BY <1>0, <3>2, LauncherAssumption DEF ShownInOrder, TypeOK
      <4>2. shown' = shown
        BY <2>1, <4>1 DEF Show
      <4>3. ShownInOrder'
        BY <2>0, <4>2 DEF ShownInOrder
      <4>4. KeepsUp'
        BY <1>0, <2>0, <2>1, <3>1, <3>2, <4>2 DEF KeepsUp, Publishing
      <4> QED BY <4>3, <4>4
    <3>3. CASE batch[1] = Len(shown) + 1
      <4>1. \A i \in DOMAIN shown : shown[i] # batch[1]
        BY <1>0, <3>3 DEF ShownInOrder
      <4>2. shown' = Append(shown, batch[1])
        BY <2>1, <4>1 DEF Show
      <4>3. Len(shown') = Len(shown) + 1
        BY <1>0, <4>2
      <4>4. \A i \in 1..Len(shown') : shown'[i] = i
        BY <1>0, <3>3, <4>2, <4>3 DEF ShownInOrder
      <4>5. ShownInOrder'
        BY <1>0, <2>0, <3>1, <3>3, <4>3, <4>4 DEF ShownInOrder
      <4>6. KeepsUp'
        BY <1>0, <2>0, <2>1, <3>1, <3>3, <4>3 DEF KeepsUp, Publishing
      <4> QED BY <4>5, <4>6
    <3> QED BY <1>0, <3>1, <3>2, <3>3
  <2>2. CASE /\ Publishing /\ (row.state # "RUNNING" \/ batch[1] > batch[2])
             /\ last' = batch[2] /\ ~Publishing' /\ UNCHANGED << shown, batch >>
    <3>1. ShownInOrder'
      BY <2>0, <2>2 DEF ShownInOrder
    <3>2. KeepsUp'
      BY <1>0, <2>0, <2>2 DEF KeepsUp
    <3> QED BY <3>1, <3>2
  <2>3. CASE ~Publishing' /\ UNCHANGED << shown, batch, last >>
    <3>1. ShownInOrder'
      BY <2>0, <2>3 DEF ShownInOrder
    <3>2. KeepsUp'
      BY <1>0, <2>0, <2>3 DEF KeepsUp
    <3> QED BY <3>1, <3>2
  <2>4. AfterPublish \notin {"publishing", "last_publish"}
    BY DEF AfterPublish
  <2> QED BY <1>3, <2>1, <2>2, <2>3, <2>4 DEF PublishEvent, Publishing
<1> QED BY <1>1, <1>2, <1>3, OtherSteps

\* The run shows the events of its workflow once each and in their order,
\* however often they are loaded again.
THEOREM ShowsInOrder == Spec => []ShownInOrder
<1>1. Init => NewRun /\ NewThread /\ KeepsUp /\ ShownInOrder
  BY DEF Init, NewRun, NewThread, KeepsUp, ShownInOrder
<1> QED BY <1>1, TypeInit, TypeNext, NewRunNext, NewThreadNext, OrderNext, PTL DEF Spec

----------------------------------------------------------------------------
(* The end of a run says the truth.                                        *)

\* Temporal takes nothing back.
Keeps ==
    /\ wf \in Closed => wf' = wf
    /\ wf # "none" => wf' # "none"
    /\ wfCancel => wfCancel'
    /\ refused' = refused
LEMMA TemporalKeeps == TypeOK /\ [Next]_vars => Keeps
<1> SUFFICES ASSUME TypeOK, [Next]_vars PROVE Keeps
  OBVIOUS
<1>1. CASE UNCHANGED temporal
  BY <1>1 DEF Keeps, temporal
<1>2. CASE Dispatch
  BY <1>2 DEF Dispatch, Started, Keeps, Closed
<1>3. CASE CancelHandle \/ \E c \in Callers : CallCancel(c)
  <2>1. /\ UNCHANGED << wf, refused >>
        /\ AcceptCancel \/ UNCHANGED wfCancel
    BY <1>3 DEF CancelHandle, CallCancel
  <2>2. wfCancel => wfCancel'
    BY <2>1, Zenon DEF AcceptCancel
  <2> QED BY <2>1, <2>2 DEF Keeps
<1>4. CASE Stop
  BY <1>4 DEF Stop, Keeps
<1>5. CASE ArriveLate
  BY <1>5 DEF ArriveLate, Started, Keeps, Closed
<1>6. CASE WorkflowCloses
  BY <1>6 DEF WorkflowCloses, Keeps, Closed
<1>7. \/ UNCHANGED temporal \/ Dispatch \/ CancelHandle \/ Stop \/ ArriveLate \/ WorkflowCloses
      \/ \E c \in Callers : CallCancel(c)
  BY DEF Next, Start, Create, Prepare, StartMonitor, MarkStartFailed, RequestCancel, RetryLooks,
         Cancel, MarkCancel, ConfirmCancel, Monitor, Connect, Register, Poll, PublishEvent,
         GetResult, LastPublish, LoadEvents, ProjectTerminal, EndThread, Restart, WorkflowEvent,
         vars, database
<1> QED BY <1>1, <1>2, <1>3, <1>4, <1>5, <1>6, <1>7

\* A step that the thread does not make leaves it, ends it or starts it.
LEMMA ThreadStep ==
    ASSUME [Next]_vars
    PROVE  \/ Monitor
           \/ UNCHANGED << monitor, uncertain >>
           \/ Stop /\ monitor' = "none"
           \/ (StartMonitor \/ Restart) /\ monitor' = "connecting"
<1>1. Start => UNCHANGED << monitor, uncertain >> \/ (StartMonitor /\ monitor' = "connecting")
  BY DEF Start, Create, Prepare, StartMonitor, StartThread, MarkStartFailed, thread
<1>2. Restart => UNCHANGED << monitor, uncertain >> \/ monitor' = "connecting"
  BY DEF Restart, Recover, NotRecovered, StartThread, thread
<1>3. RequestCancel \/ RetryLooks \/ (\E c \in Callers : Cancel(c)) \/ ArriveLate
        \/ WorkflowEvent \/ WorkflowCloses \/ UNCHANGED vars
      => UNCHANGED << monitor, uncertain >>
  BY DEF RequestCancel, RetryLooks, Cancel, MarkCancel, CallCancel, ConfirmCancel, ArriveLate,
         WorkflowEvent, WorkflowCloses, vars, thread
<1>4. Stop => monitor' = "none"
  BY DEF Stop
<1> QED BY <1>1, <1>2, <1>3, <1>4 DEF Next

\* What the thread knows when it gets somewhere.
LEMMA ThreadKnows ==
    ASSUME TypeOK, Knows, [Next]_vars
    PROVE  /\ monitor' \in Attached \cup {"registering"} => wf' # "none"
           /\ monitor' \in {"finishing", "last_publish", "settling"}
                => wf' \in {"succeeded", "failed"}
           /\ monitor' = "confirming" => wf' = "cancelled"
<1>0. Keeps
  BY TemporalKeeps
<1>1. CASE UNCHANGED monitor \/ monitor' \in {"none", "connecting"}
  BY <1>0, <1>1 DEF Keeps, Knows, Closed, Attached
<1>2. CASE Monitor
  <2>1. CASE Connect
    BY <2>1 DEF Connect, Thread, Attached
  <2>2. CASE Dispatch
    BY <2>2 DEF Dispatch, Thread, Attached, Started
  <2>3. CASE Register \/ CancelHandle
    <3>1. monitor \in {"registering", "cancelling"} /\ UNCHANGED wf
          /\ monitor' \in {"cancelling", "polling", "connecting"}
      BY <2>3 DEF Register, CancelHandle, Thread, temporal
    <3> QED BY <3>1 DEF Knows, Attached
  <2>4. CASE Poll \/ LastPublish
    <3>1. /\ UNCHANGED wf
          /\ \/ monitor = "polling" /\ monitor' = "publishing"
             \/ monitor = "finishing" /\ monitor' \in {"last_publish", "settling"}
      BY <2>4 DEF Poll, LastPublish, LoadEvents, Thread, temporal
    <3> QED BY <3>1 DEF Knows, Attached
  <2>5. CASE PublishEvent
    <3>1. /\ UNCHANGED wf
          /\ \/ UNCHANGED monitor
             \/ monitor = "publishing" /\ monitor' = "polling"
             \/ monitor = "last_publish" /\ monitor' = "settling"
      BY <2>5 DEF PublishEvent, AfterPublish, temporal
    <3> QED BY <3>1 DEF Knows, Attached
  <2>6. CASE GetResult
    <3>1. monitor = "polling" /\ wf \in Closed /\ UNCHANGED wf
      BY <2>6 DEF GetResult, Thread, temporal
    <3>2. \/ monitor' = "connecting"
          \/ monitor' = CASE wf = "cancelled" -> "confirming"
                          [] wf = "errored" -> "failing"
                          [] OTHER -> "finishing"
      BY <2>6 DEF GetResult, Thread
    <3> QED BY <3>1, <3>2 DEF Closed, Attached
  <2>7. CASE ProjectTerminal
    <3>1. UNCHANGED wf /\ (UNCHANGED monitor \/ monitor' = "ending")
      BY <2>7 DEF ProjectTerminal, temporal
    <3> QED BY <3>1 DEF Knows, Attached
  <2>8. CASE EndThread
    BY <2>8 DEF EndThread, Thread, Attached
  <2> QED BY <1>2, <2>1, <2>2, <2>3, <2>4, <2>5, <2>6, <2>7, <2>8 DEF Monitor
<1> QED BY <1>1, <1>2, ThreadStep

\* A request that is to be confirmed was accepted, or came too late.
LEMMA RequestKnows ==
    ASSUME TypeOK, Knows, [Next]_vars, NEW c \in Callers, canceller'[c] = "confirming"
    PROVE  wfCancel' \/ wf' \in Closed
<1>0. Keeps
  BY TemporalKeeps
<1>1. CASE canceller[c] = "confirming"
  BY <1>0, <1>1 DEF Keeps, Knows
<1>2. CASE CallCancel(c)
  <2>1. CASE monitor \in Attached /\ AcceptCancel
    <3>1. UNCHANGED wf
      BY <1>2 DEF CallCancel
    <3>2. wf = "running" \/ wf \in Closed
      BY <2>1 DEF Knows, TypeOK
    <3> QED BY <2>1, <3>1, <3>2 DEF AcceptCancel
  <2>2. CASE NotDispatched(c)
    BY <2>2 DEF NotDispatched, TypeOK
  <2> QED BY <1>2, <2>1, <2>2 DEF CallCancel
<1>3. ASSUME canceller[c] # "confirming", ~CallCancel(c) PROVE FALSE
  <2>1. CASE RequestCancel \/ RetryLooks
    BY <2>1, <1>3 DEF RequestCancel, RetryLooks, Goes, TypeOK
  <2>2. ASSUME NEW d \in Callers, Cancel(d) PROVE FALSE
    BY <2>2, <1>3 DEF Cancel, MarkCancel, CallCancel, ConfirmCancel, Goes, NotDispatched, TypeOK
  <2>3. CASE Stop \/ Restart
    BY <2>3, <1>3 DEF Stop, Restart, Recover, NotRecovered, TypeOK
  <2>4. Start \/ Monitor \/ ArriveLate \/ WorkflowEvent \/ WorkflowCloses \/ UNCHANGED vars
        => UNCHANGED canceller
    BY DEF Start, Create, Prepare, StartMonitor, MarkStartFailed, Monitor, Connect, Dispatch,
           Register, CancelHandle, Poll, PublishEvent, GetResult, LastPublish, LoadEvents,
           ProjectTerminal, EndThread, ArriveLate, WorkflowEvent, WorkflowCloses, vars
  <2> QED BY <1>3, <2>1, <2>2, <2>3, <2>4 DEF Next
<1> QED BY <1>1, <1>2, <1>3

\* Every step keeps what is known.
LEMMA KnowsNext == TypeOK /\ Knows /\ [Next]_vars => Knows'
BY ThreadKnows, RequestKnows DEF Knows

\* Who may change the state of the row, and to what.
LEMMA WhoEnds ==
    ASSUME TypeOK, [Next]_vars
    PROVE  \/ row'.state = row.state
           \/ Create
           \/ row.state = "RUNNING" /\ row'.state = "FAILED" /\ (MarkStartFailed \/ Restart)
           \/ row.state = "RUNNING" /\ row'.state = Verdict /\ ProjectTerminal
           \/ /\ row.state = "RUNNING" /\ row'.state = "CANCELLED"
              /\ \E c \in Callers : ConfirmCancel(c) /\ canceller[c] = "confirming"
<1>1. CASE UNCHANGED row \/ Create \/ RequestCancel
  BY <1>1 DEF RequestCancel, TypeOK
<1>2. CASE EndRun("FAILED") /\ (MarkStartFailed \/ Restart)
  BY <1>2, EndRunStep DEF Ended
<1>3. CASE EndRun(Verdict) /\ ProjectTerminal
  BY <1>3, EndRunStep, VerdictEnds
<1>4. ASSUME NEW c \in Callers, ConfirmCancel(c), ~UNCHANGED row
      PROVE  /\ row.state = "RUNNING" /\ row'.state = "CANCELLED"
             /\ canceller[c] = "confirming"
  <2>1. EndRun("CANCELLED") /\ canceller[c] = "confirming"
    BY <1>4 DEF ConfirmCancel, Goes
  <2> QED BY <1>4, <2>1, EndRunStep DEF Ended
<1>5. MarkStartFailed \/ Restart => UNCHANGED row \/ EndRun("FAILED")
  BY DEF MarkStartFailed, Restart, Recover, NotRecovered
<1>6. ProjectTerminal => UNCHANGED row \/ EndRun(Verdict)
  BY DEF ProjectTerminal
<1>7. \/ UNCHANGED row \/ Create \/ RequestCancel \/ MarkStartFailed \/ Restart \/ ProjectTerminal
      \/ \E c \in Callers : ConfirmCancel(c)
  BY DEF Next, Start, Prepare, StartMonitor, RetryLooks, Cancel, MarkCancel, CallCancel, Monitor,
         Connect, Dispatch, Register, CancelHandle, Poll, PublishEvent, GetResult, LastPublish,
         LoadEvents, EndThread, Stop, ArriveLate, WorkflowEvent, WorkflowCloses, vars, database
<1> QED BY <1>1, <1>2, <1>3, <1>4, <1>5, <1>6, <1>7

\* Only the thread, and a process that stops while it does so, send a start.
LEMMA WhoSends ==
    ASSUME TypeOK, [Next]_vars, NothingSent
    PROVE  NothingSent' \/ (~refused /\ (Dispatch \/ Stop))
<1>1. CASE UNCHANGED << wf, pending >>
  BY <1>1 DEF NothingSent
<1>2. CASE Dispatch /\ refused
  BY <1>2 DEF Dispatch, NothingSent
<1>3. CASE Stop /\ refused
  BY <1>3 DEF Stop, NothingSent, TypeOK
<1>4. ~ArriveLate /\ ~WorkflowCloses
  BY DEF NothingSent, ArriveLate, WorkflowCloses
<1>5. UNCHANGED << wf, pending >> \/ Dispatch \/ Stop
  BY <1>4 DEF Next, Start, Create, Prepare, StartMonitor, MarkStartFailed, RequestCancel,
         RetryLooks, Cancel, MarkCancel, CallCancel, ConfirmCancel, Monitor, Connect, Register,
         CancelHandle, Poll, PublishEvent, GetResult, LastPublish, LoadEvents, ProjectTerminal,
         EndThread, Restart, WorkflowEvent, vars, temporal
<1> QED BY <1>1, <1>2, <1>3, <1>5

\* Every step keeps the ends true that say what the workflow did.
LEMMA EndsKnownNext == TypeOK /\ Knows /\ EndsKnown /\ [Next]_vars => EndsKnown'
<1> SUFFICES ASSUME TypeOK, Knows, EndsKnown, [Next]_vars PROVE EndsKnown'
  OBVIOUS
<1>0. Keeps
  BY TemporalKeeps
<1>1. refused' => NothingSent'
  BY <1>0, WhoSends DEF Keeps, EndsKnown
<1>2. ASSUME row'.state = "COMPLETED" PROVE wf' = "succeeded"
  <2>1. CASE row.state = "COMPLETED"
    BY <1>0, <2>1 DEF EndsKnown, Keeps, Closed
  <2>2. CASE row'.state = Verdict /\ ProjectTerminal
    <3>1. wf = "succeeded"
      BY <1>2, <2>2 DEF Verdict
    <3> QED BY <1>0, <3>1 DEF Keeps, Closed
  <2> QED BY <1>2, <2>1, <2>2, WhoEnds DEF Create
<1>3. ASSUME row'.state = "CANCELLED" PROVE wfCancel' \/ wf' \in Closed
  <2>1. CASE row.state = "CANCELLED"
    BY <1>0, <2>1 DEF EndsKnown, Keeps
  <2>2. CASE row'.state = Verdict /\ ProjectTerminal
    <3>1. monitor = "confirming"
      BY <1>3, <2>2 DEF Verdict
    <3> QED BY <1>0, <3>1 DEF Knows, Keeps, Closed
  <2>3. ASSUME NEW c \in Callers, canceller[c] = "confirming" PROVE wfCancel' \/ wf' \in Closed
    BY <1>0, <2>3 DEF Knows, Keeps
  <2> QED BY <1>3, <2>1, <2>2, <2>3, WhoEnds DEF Create
<1> QED BY <1>1, <1>2, <1>3 DEF EndsKnown

\* In a process that was not restarted nothing stops or starts it.
LEMMA NotRestarted ==
    ASSUME TypeOK, FreshKnown, [Next]_vars, restarts' = 0
    PROVE  FailureKnown /\ ~Stop /\ ~Restart
<1>1. ~Stop
  BY DEF Stop, TypeOK
<1>2. restarts = 0
  <2>1. CASE Fault \/ NoFault \/ UNCHANGED bounds
    BY <2>1 DEF Fault, NoFault, bounds
  <2>2. Fault \/ NoFault \/ UNCHANGED bounds
    BY <1>1 DEF Next, Start, Create, Prepare, StartMonitor, MarkStartFailed, RequestCancel,
           RetryLooks, Cancel, MarkCancel, CallCancel, ConfirmCancel, Monitor, Connect, Dispatch,
           Register, CancelHandle, Poll, PublishEvent, GetResult, LastPublish, ProjectTerminal,
           EndThread, Restart, ArriveLate, WorkflowEvent, WorkflowCloses, vars
  <2> QED BY <2>1, <2>2
<1>3. FailureKnown
  BY <1>2 DEF FreshKnown
<1>4. ~Restart
  BY <1>3 DEF FailureKnown, Restart
<1> QED BY <1>1, <1>3, <1>4

\* How start_run proceeds.
LEMMA StarterGoes ==
    ASSUME [Next]_vars, ~Stop
    PROVE  /\ starter' \in BeforeThread => starter \in BeforeThread /\ ~StartMonitor
           /\ starter' \in {"created", "prepared"} => Create \/ starter \in {"created", "prepared"}
<1>1. Start => \/ Create \/ (starter = "created" /\ starter' \in {"prepared", "failing"})
               \/ (StartMonitor /\ starter' = "returned")
               \/ (starter = "failing" /\ starter' \in {"returned", "abandoned"})
  BY DEF Start, Create, Prepare, StartMonitor, MarkStartFailed
<1>2. Create => starter = "new"
  BY DEF Create
<1>3. StartMonitor => starter' = "returned"
  BY DEF StartMonitor
<1>4. Start \/ UNCHANGED starter
  BY DEF Next, RequestCancel, RetryLooks, Cancel, MarkCancel, CallCancel, ConfirmCancel, Monitor,
         Connect, Dispatch, Register, CancelHandle, Poll, PublishEvent, GetResult, LastPublish,
         LoadEvents, ProjectTerminal, EndThread, Restart, ArriveLate, WorkflowEvent,
         WorkflowCloses, vars
<1> QED BY <1>1, <1>2, <1>3, <1>4 DEF BeforeThread

\* A thread before its first start, or with nothing to wait for, knows so.
LEMMA ThreadKnowsFailure ==
    ASSUME TypeOK, EndsKnown, FailureKnown, [Next]_vars, ~Stop, ~Restart
    PROVE  /\ monitor' \in {"connecting", "dispatching"} /\ ~uncertain' => NothingSent'
           /\ monitor' = "failing" => NothingSent' \/ wf' = "errored"
<1>0. Keeps
  BY TemporalKeeps
<1>1. CASE UNCHANGED << monitor, uncertain >>
  <2>1. ~Dispatch
    BY <1>1 DEF Dispatch, Thread
  <2>2. NothingSent => NothingSent'
    BY <2>1, WhoSends
  <2> QED BY <1>0, <1>1, <2>2 DEF FailureKnown, Keeps, Closed
<1>2. CASE StartMonitor /\ monitor' = "connecting"
  <2>1. monitor = "none" /\ NothingSent
    BY <1>2 DEF StartMonitor, FailureKnown, BeforeThread
  <2>2. NothingSent'
    BY <2>1, WhoSends DEF Dispatch, Thread
  <2> QED BY <1>2, <2>2
<1>3. CASE Monitor
  <2>1. CASE Connect
    <3>1. /\ UNCHANGED << uncertain, wf, pending >> /\ monitor = "connecting"
          /\ monitor' \in {"connecting", "dispatching"} \/ (monitor' = "failing" /\ ~uncertain)
      BY <2>1 DEF Connect, Thread, temporal
    <3> QED BY <3>1 DEF FailureKnown, NothingSent
  <2>2. CASE Dispatch
    <3>1. \/ refused /\ monitor' = "failing" /\ UNCHANGED << wf, pending >>
          \/ monitor' = "registering"
          \/ monitor' = "connecting" /\ uncertain'
      BY <2>2 DEF Dispatch, Thread
    <3> QED BY <3>1 DEF EndsKnown, NothingSent
  <2>3. CASE CancelHandle
    BY <2>3 DEF CancelHandle, Thread
  <2>4. CASE GetResult
    <3>1. \/ monitor' = "connecting" /\ uncertain'
          \/ /\ UNCHANGED wf
             /\ monitor' = CASE wf = "cancelled" -> "confirming"
                             [] wf = "errored" -> "failing"
                             [] OTHER -> "finishing"
      BY <2>4 DEF GetResult, Thread, temporal
    <3> QED BY <3>1
  <2>5. CASE ProjectTerminal
    <3>1. UNCHANGED << wf, pending >> /\ (UNCHANGED monitor \/ monitor' = "ending")
          /\ monitor \in {"settling", "confirming", "failing"}
      BY <2>5 DEF ProjectTerminal, temporal
    <3> QED BY <3>1 DEF FailureKnown, NothingSent
  <2>6. CASE Register \/ Poll \/ PublishEvent \/ LastPublish \/ EndThread
    BY <2>6 DEF Register, Poll, PublishEvent, AfterPublish, LastPublish, LoadEvents, EndThread,
                Thread
  <2> QED BY <1>3, <2>1, <2>2, <2>3, <2>4, <2>5, <2>6 DEF Monitor
<1> QED BY <1>1, <1>2, <1>3, ThreadStep

\* Every step keeps a failure known.
LEMMA FreshKnownNext ==
    TypeOK /\ Knows /\ EndsKnown /\ FreshKnown /\ [Next]_vars => FreshKnown'
<1> SUFFICES ASSUME TypeOK, Knows, EndsKnown, FreshKnown, [Next]_vars, restarts' = 0
             PROVE  FailureKnown'
  BY DEF FreshKnown
<1>0. Keeps /\ FailureKnown /\ ~Stop /\ ~Restart
  BY TemporalKeeps, NotRestarted
<1>1. up'
  <2>1. UNCHANGED up
    BY <1>0 DEF Next, Start, Create, Prepare, StartMonitor, MarkStartFailed, RequestCancel,
           RetryLooks, Cancel, MarkCancel, CallCancel, ConfirmCancel, Monitor, Connect, Dispatch,
           Register, CancelHandle, Poll, PublishEvent, GetResult, LastPublish, LoadEvents,
           ProjectTerminal, EndThread, ArriveLate, WorkflowEvent, WorkflowCloses, vars
  <2> QED BY <1>0, <2>1 DEF FailureKnown
<1>2. ASSUME starter' \in BeforeThread PROVE monitor' = "none" /\ NothingSent'
  <2>1. monitor = "none" /\ NothingSent /\ ~StartMonitor
    BY <1>0, <1>2, StarterGoes DEF FailureKnown
  <2>2. ~Monitor
    BY <2>1 DEF Monitor, Connect, Dispatch, Register, CancelHandle, Poll, PublishEvent, GetResult,
                LastPublish, LoadEvents, ProjectTerminal, EndThread, Thread
  <2>3. monitor' = "none"
    BY <1>0, <2>1, <2>2, ThreadStep
  <2>4. NothingSent'
    BY <1>0, <2>1, <2>2, WhoSends DEF Monitor
  <2> QED BY <2>3, <2>4
<1>3. /\ monitor' \in {"connecting", "dispatching"} /\ ~uncertain' => NothingSent'
      /\ monitor' = "failing" => NothingSent' \/ wf' = "errored"
  BY <1>0, ThreadKnowsFailure
<1>4. ASSUME row'.state = "FAILED"
      PROVE  /\ starter' \notin {"created", "prepared"}
             /\ \/ NothingSent' /\ monitor' \in {"none", "failing", "ending"}
                \/ wf' \in {"failed", "errored"}
  <2>0. ~Create
    BY <1>4 DEF Create
  <2>1. CASE row.state = "FAILED"
    <3>1. starter' \notin {"created", "prepared"} /\ ~StartMonitor
      BY <1>0, <2>0, <2>1, StarterGoes DEF FailureKnown, StartMonitor
    <3>2. CASE wf \in {"failed", "errored"}
      BY <1>0, <3>1, <3>2 DEF Keeps, Closed
    <3>3. CASE NothingSent /\ monitor \in {"none", "failing", "ending"}
      <4>1. Monitor => ProjectTerminal \/ EndThread
        BY <3>3 DEF Monitor, Connect, Dispatch, Register, CancelHandle, Poll, PublishEvent,
                    GetResult, LastPublish, LoadEvents, Thread
      <4>2. monitor' \in {"none", "failing", "ending"}
        BY <1>0, <3>1, <3>3, <4>1, ThreadStep DEF ProjectTerminal, EndThread, Thread
      <4>3. NothingSent'
        BY <1>0, <3>3, WhoSends DEF Dispatch, Thread
      <4> QED BY <3>1, <4>2, <4>3
    <3> QED BY <1>0, <2>1, <3>2, <3>3 DEF FailureKnown
  <2>2. CASE MarkStartFailed
    <3>1. monitor = "none" /\ NothingSent /\ UNCHANGED << monitor, wf, pending >>
      BY <1>0, <2>2 DEF MarkStartFailed, FailureKnown, BeforeThread, thread, temporal
    <3>2. starter' \notin {"created", "prepared"}
      BY <2>2 DEF MarkStartFailed
    <3> QED BY <3>1, <3>2 DEF NothingSent
  <2>3. CASE ProjectTerminal /\ row'.state = Verdict
    <3>1. /\ monitor \in {"settling", "confirming", "failing"}
          /\ UNCHANGED << starter, wf, pending >>
          /\ UNCHANGED monitor \/ monitor' = "ending"
      BY <2>3 DEF ProjectTerminal, temporal
    <3>2. starter' \notin {"created", "prepared"}
      BY <1>0, <3>1 DEF FailureKnown, BeforeThread
    <3>3. \/ monitor = "settling" /\ wf = "failed"
          \/ monitor = "failing"
      BY <1>4, <2>3, <3>1 DEF Verdict, Knows
    <3>4. CASE monitor = "failing"
      BY <1>0, <3>1, <3>2, <3>4 DEF FailureKnown, NothingSent
    <3> QED BY <3>1, <3>2, <3>3, <3>4
  <2> QED BY <1>0, <1>4, <2>0, <2>1, <2>2, <2>3, WhoEnds
<1> QED BY <1>1, <1>2, <1>3, <1>4 DEF FailureKnown

\* What a run's end says is true, for any number of events, faults and restarts.
THEOREM VerdictsAreTrue == Spec => []VerdictIsTrue
<1>1. Init => Knows /\ EndsKnown /\ FreshKnown
  BY DEF Init, Knows, EndsKnown, FreshKnown, FailureKnown, NothingSent, BeforeThread, Attached
<1>2. EndsKnown /\ FreshKnown => VerdictIsTrue
  BY DEF EndsKnown, FreshKnown, FailureKnown, NothingSent, VerdictIsTrue, NoInventedFailure
<1> QED BY <1>1, <1>2, TypeInit, TypeNext, KnowsNext, EndsKnownNext, FreshKnownNext, PTL DEF Spec

----------------------------------------------------------------------------
(* Nothing is forgotten.                                                   *)

\* A run that is RUNNING in a process that is up has a request or a thread that goes on
\* with it; only a start_run whose write failed leaves it to the next start of the process
\* (_start_monitor, on_terminal, _recover_temporal_runs).
RunIsWatched ==
    up /\ row.state = "RUNNING" =>
        \/ starter \in {"created", "prepared", "failing", "abandoned"}
        \/ monitor \notin {"none", "ending"}

\* A cancellation that was stored has reached Temporal, or came too late, or a request or
\* the retry loop is on its way with it; unless the loop could not read the run
\* (cancel_run, _retry_temporal_cancel, recover).
CancelIsCarried ==
    up /\ row.state = "RUNNING" /\ row.cancel =>
        \/ wfCancel \/ wf \in Closed
        \/ canceller["request"] \in {"marking", "calling"}
        \/ canceller["retry"] \in {"looking", "marking", "calling", "gave_up"}

\* A step that is not one of start_run, of the thread or of the process.
LEMMA Elsewhere ==
    ASSUME [Next]_vars, ~Start, ~Monitor, ~Stop, ~Restart
    PROVE  UNCHANGED << up, starter, monitor >>
BY DEF Next, RequestCancel, RetryLooks, Cancel, MarkCancel, CallCancel, ConfirmCancel, ArriveLate,
       WorkflowEvent, WorkflowCloses, vars, thread

\* The run stays watched.
LEMMA WatchedNext == TypeOK /\ RunIsWatched /\ [Next]_vars => RunIsWatched'
<1> SUFFICES ASSUME TypeOK, RunIsWatched, [Next]_vars, up', row'.state = "RUNNING"
             PROVE  \/ starter' \in {"created", "prepared", "failing", "abandoned"}
                    \/ monitor' \notin {"none", "ending"}
  BY DEF RunIsWatched
<1>0. \A state \in Ended : EndRun(state) => \/ row' = row /\ row.state # "RUNNING"
                                            \/ row'.state = state
  BY DEF EndRun, TypeOK
<1>1. \A state \in Ended : ~(EndRun(state) /\ row.state = "RUNNING")
  BY <1>0 DEF Ended
<1>2. Create \/ row.state = "RUNNING"
  BY <1>0, RowStep DEF Ended
<1>3. CASE Create
  BY <1>3 DEF Create
<1>4. CASE Start /\ row.state = "RUNNING"
  <2>1. ~(MarkStartFailed /\ EndRun("FAILED"))
    BY <1>1, <1>4 DEF Ended
  <2>2. Prepare \/ StartMonitor \/ (MarkStartFailed /\ starter' = "abandoned") \/ Create
    BY <1>4, <2>1 DEF Start, MarkStartFailed
  <2> QED BY <1>3, <2>2 DEF Prepare, StartMonitor, StartThread
<1>5. CASE Monitor /\ row.state = "RUNNING"
  <2>1. up /\ UNCHANGED starter
    BY <1>5 DEF Monitor, Connect, Dispatch, Register, CancelHandle, Poll, PublishEvent, GetResult,
                LastPublish, LoadEvents, ProjectTerminal, EndThread, Thread
  <2>2. CASE starter \in {"created", "prepared", "failing", "abandoned"}
    BY <2>1, <2>2
  <2>3. CASE monitor \notin {"none", "ending"}
    <3>1. CASE ProjectTerminal
      <4>1. ~EndRun(Verdict)
        BY <1>1, <1>5, VerdictEnds
      <4> QED BY <2>3, <3>1, <4>1 DEF ProjectTerminal
    <3>2. ~EndThread
      BY <2>3 DEF EndThread, Thread
    <3> QED BY <1>5, <2>3, <3>1, <3>2 DEF Monitor, Connect, Dispatch, Register, CancelHandle, Poll,
            PublishEvent, GetResult, LastPublish, LoadEvents, Thread, AfterPublish
  <2> QED BY <1>5, <2>1, <2>2, <2>3 DEF RunIsWatched
<1>6. ~Stop
  BY DEF Stop
<1>7. CASE Restart /\ row.state = "RUNNING"
  <2>1. ~EndRun("FAILED")
    BY <1>1, <1>7 DEF Ended
  <2> QED BY <1>7, <2>1 DEF Restart, Recover, NotRecovered, StartThread
<1> QED BY <1>2, <1>3, <1>4, <1>5, <1>6, <1>7, Elsewhere DEF RunIsWatched

\* A run is never left RUNNING with nobody to end it, whatever failed, and however often
\* the process was restarted.
THEOREM RunsAreWatched == Spec => []RunIsWatched
<1>1. Init => RunIsWatched
  BY DEF Init, RunIsWatched
<1> QED BY <1>1, TypeInit, TypeNext, WatchedNext, PTL DEF Spec

\* A step of cancel_run or of its retry loop leaves the cancellation with one of them.
LEMMA RequestCarries ==
    ASSUME TypeOK, Knows, CancelIsCarried, [Next]_vars, up', row'.state = "RUNNING", row'.cancel,
           ~(wfCancel' \/ wf' \in Closed),
           RequestCancel \/ RetryLooks \/ \E c \in Callers : Cancel(c)
    PROVE  \/ canceller'["request"] \in {"marking", "calling"}
           \/ canceller'["retry"] \in {"looking", "marking", "calling", "gave_up"}
<1>0. Keeps /\ canceller \in [Callers -> {"idle", "looking", "marking", "calling", "confirming",
                                         "gave_up"}]
  BY TemporalKeeps DEF TypeOK
<1>1. ~wfCancel /\ wf \notin Closed
  BY <1>0 DEF Keeps
<1>2. CASE RequestCancel
  BY <1>0, <1>2 DEF RequestCancel, Goes, Callers
<1>3. CASE RetryLooks
  <2>1. row' = row /\ up
    BY <1>3 DEF RetryLooks, database
  <2> QED BY <1>0, <1>3, <2>1 DEF RetryLooks, Goes, Callers
<1>4. ASSUME NEW c \in Callers, Cancel(c)
      PROVE  \/ canceller'["request"] \in {"marking", "calling"}
             \/ canceller'["retry"] \in {"looking", "marking", "calling", "gave_up"}
  <2>0. canceller[c] # "confirming"
    BY <1>1 DEF Knows
  <2>1. CASE NotDispatched(c)
    BY <1>0, <2>1 DEF NotDispatched, Callers
  <2>2. CASE MarkCancel(c) /\ Goes(c, "marking", "calling")
    BY <1>0, <2>2 DEF Goes, Callers
  <2>3. ~(CallCancel(c) /\ Goes(c, "calling", "confirming"))
    <3>1. SUFFICES ASSUME CallCancel(c), Goes(c, "calling", "confirming") PROVE FALSE
      OBVIOUS
    <3>2. ~NotDispatched(c)
      BY <1>0, <3>1 DEF NotDispatched, Goes, Callers
    <3>3. monitor \in Attached /\ AcceptCancel /\ UNCHANGED wf
      BY <3>1, <3>2 DEF CallCancel
    <3>4. wf = "running"
      BY <1>1, <3>3 DEF Knows, TypeOK
    <3> QED BY <3>3, <3>4 DEF AcceptCancel
  <2>4. ~ConfirmCancel(c)
    BY <2>0 DEF ConfirmCancel, Goes
  <2> QED BY <1>4, <2>1, <2>2, <2>3, <2>4 DEF Cancel, MarkCancel, CallCancel
<1> QED BY <1>2, <1>3, <1>4

\* So does every other step.
LEMMA CarriedNext == TypeOK /\ Knows /\ CancelIsCarried /\ [Next]_vars => CancelIsCarried'
<1> SUFFICES ASSUME TypeOK, Knows, CancelIsCarried, [Next]_vars, up', row'.state = "RUNNING",
                    row'.cancel, ~(wfCancel' \/ wf' \in Closed)
             PROVE  \/ canceller'["request"] \in {"marking", "calling"}
                    \/ canceller'["retry"] \in {"looking", "marking", "calling", "gave_up"}
  BY DEF CancelIsCarried
<1>0. Keeps
  BY TemporalKeeps
<1>1. \A state : EndRun(state) => row' = row \/ row'.state = state
  BY DEF EndRun, TypeOK
<1>2. CASE RequestCancel \/ RetryLooks \/ \E c \in Callers : Cancel(c)
  BY <1>2, RequestCarries
<1>3. ~Create
  <2>1. Create => row'.cancel = FALSE
    BY DEF Create
  <2> QED BY <2>1
<1>4. ~Stop
  BY DEF Stop
<1>5. CASE Restart
  <2>1. CASE Recover
    BY <2>1 DEF Recover, TypeOK, Callers
  <2>2. ~NotRecovered \/ row.state # "RUNNING"
    BY DEF NotRecovered, EndRun, TypeOK
  <2>3. row.state = "RUNNING"
    BY <1>5 DEF Restart, Recover, NotRecovered, EndRun
  <2> QED BY <1>5, <2>1, <2>2, <2>3 DEF Restart
<1>6. CASE (Start /\ ~Create) \/ Monitor \/ ArriveLate \/ WorkflowEvent \/ WorkflowCloses
           \/ UNCHANGED vars
  <2>1. UNCHANGED << up, canceller >>
    BY <1>6 DEF Start, Prepare, StartMonitor, MarkStartFailed, Monitor, Connect, Dispatch, Register,
           CancelHandle, Poll, PublishEvent, GetResult, LastPublish, LoadEvents, ProjectTerminal,
           EndThread, ArriveLate, WorkflowEvent, WorkflowCloses, vars
  <2>2. row' = row \/ EndRun("FAILED") \/ (ProjectTerminal /\ EndRun(Verdict))
    BY <1>6 DEF Start, Prepare, StartMonitor, MarkStartFailed, Monitor, Connect, Dispatch, Register,
           CancelHandle, Poll, PublishEvent, GetResult, LastPublish, LoadEvents, ProjectTerminal,
           EndThread, ArriveLate, WorkflowEvent, WorkflowCloses, vars, database
  <2>3. row' = row
    BY <1>1, <2>2, VerdictEnds DEF Ended
  <2> QED BY <1>0, <2>1, <2>3 DEF CancelIsCarried, Keeps
<1> QED BY <1>2, <1>3, <1>4, <1>5, <1>6 DEF Next

\* A cancellation that was stored is never dropped on its way to Temporal, for any number
\* of events, faults and restarts.
THEOREM CancelsAreCarried == Spec => []CancelIsCarried
<1>1. Init => Knows /\ CancelIsCarried
  BY DEF Init, Knows, CancelIsCarried, Attached
<1> QED BY <1>1, TypeInit, TypeNext, KnowsNext, CarriedNext, PTL DEF Spec

=============================================================================
