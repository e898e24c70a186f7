----------------------------- MODULE JobsProofs -----------------------------
(***************************************************************************)
(* Proofs about the jobs that pay a provider, for every value of their     *)
(* constants: evaluation runs with any number of models, items, requests   *)
(* and faults (EvaluationRun); batches of any size and cap (ProbeBatch);   *)
(* and any number of deliveries of an activity, whose lease is longer than *)
(* the renewal interval where calls have to exclude each other             *)
(* (ActivityLease).                                                        *)
(***************************************************************************)
EXTENDS EvaluationRun, ProbeBatch, ActivityLease, FiniteSetTheorems, WellFoundedInduction, TLAPS

----------------------------------------------------------------------------
(* An evaluation run.  Types first.                                        *)

LastWork == ModelCount * SampleCount

RowsOK ==
    /\ run \in [state : Ended \cup {"none", "RUNNING"}, cancel : BOOLEAN, lease : BOOLEAN]
    /\ models \in [Models -> [state : Ended \cup {"PENDING", "RUNNING", "SKIPPED"}, done : Nat]]
    /\ items \in [Work -> Answers \cup {"none"}]
    /\ log \in Seq([n : Nat, type : {"STARTED", "ITEM_STARTED", "ITEM_FINISHED", "FINISHED"},
                    work : Work])

\* Work is taken, and the run is finished, after a check and a decision.
Prepared ==
    /\ exec = "checked" => next \in Work
    /\ exec = "finishing" => verdict \in Ended

TypeInv == TypeOK /\ Prepared

----------------------------------------------------------------------------
\* There is some work, and all of it belongs to a model.
LEMMA WorkIsFinite == LastWork \in Nat /\ 1 \in Work
<1> DEFINE M == ModelCount  S == SampleCount
<1>1. M \in Nat /\ S \in Nat /\ M >= 1 /\ S >= 1
  BY EvaluationAssumption
<1>2. M * S \in Nat /\ M * S >= 1
  BY <1>1
<1> QED BY <1>2 DEF Work, LastWork

\* Each work belongs to a model of the plan.
LEMMA WorkOfModels == \A w \in Work : ModelOf(w) \in Models
<1> SUFFICES ASSUME NEW w \in Work PROVE ModelOf(w) \in Models
  OBVIOUS
<1> DEFINE q == (w - 1) \div SampleCount
<1>1. ModelCount \in Nat /\ SampleCount \in Nat /\ SampleCount >= 1 /\ w - 1 \in Nat
      /\ w - 1 < ModelCount * SampleCount
  BY EvaluationAssumption, WorkIsFinite DEF Work, LastWork
<1>2. q \in Nat /\ q * SampleCount <= w - 1
  BY <1>1
<1>3. q < ModelCount
  <2>1. SUFFICES ASSUME q >= ModelCount PROVE FALSE
    BY <1>1, <1>2
  <2> QED BY <1>1, <1>2, <2>1
<1> QED BY <1>1, <1>2, <1>3 DEF ModelOf, Models

\* The index behind a work is the next work's, or the end's.
LEMMA NextWork == \A n \in Work : n + 1 \in Work \cup {LastWork + 1}
BY WorkIsFinite DEF Work, LastWork

----------------------------------------------------------------------------
(* Every effect of the store leaves typed rows.                            *)

\* append_event leaves typed rows.
LEMMA AppendTypes ==
    ASSUME TypeOK, NEW w \in Work, NEW type \in {"STARTED", "ITEM_STARTED", "ITEM_FINISHED"},
           AppendEvent(type, w)
    PROVE  RowsOK'
<1>1. RowsOK /\ emitted + 1 \in Nat /\ ModelOf(w) \in Models
  BY WorkOfModels DEF TypeOK, RowsOK
<1>2. Event(emitted + 1, type, w)
        \in [n : Nat, type : {"STARTED", "ITEM_STARTED", "ITEM_FINISHED", "FINISHED"}, work : Work]
  BY <1>1 DEF Event
<1>3. log' \in Seq([n : Nat, type : {"STARTED", "ITEM_STARTED", "ITEM_FINISHED", "FINISHED"},
                    work : Work])
  BY <1>1, <1>2 DEF AppendEvent, RowsOK
<1>4. models' \in [Models -> [state : Ended \cup {"PENDING", "RUNNING", "SKIPPED"}, done : Nat]]
  BY <1>1 DEF AppendEvent, RowsOK
<1> QED BY <1>1, <1>3, <1>4 DEF AppendEvent, RowsOK

\* record_item does.
LEMMA RecordTypes ==
    ASSUME TypeOK, NEW w \in Work, RecordItem(w)
    PROVE  RowsOK'
<1>1. RowsOK /\ answer[w] \in Answers \cup {"none"} /\ ModelOf(w) \in Models
  BY WorkOfModels DEF TypeOK, RowsOK
<1> QED BY <1>1 DEF RecordItem, RowsOK

\* So do fail_run and the lease scan.
LEMMA EndTypes ==
    ASSUME TypeOK, NEW state \in Ended, EndRun(state)
    PROVE  RowsOK'
<1>1. RowsOK /\ 1 \in Work /\ Len(log) + 1 \in Nat
  BY WorkIsFinite DEF TypeOK, RowsOK
<1>2. log' \in Seq([n : Nat, type : {"STARTED", "ITEM_STARTED", "ITEM_FINISHED", "FINISHED"},
                    work : Work])
  BY <1>1 DEF EndRun, Event, RowsOK
<1>3. models' \in [Models -> [state : Ended \cup {"PENDING", "RUNNING", "SKIPPED"}, done : Nat]]
  BY <1>1 DEF EndRun, RowsOK, Ended
<1> QED BY <1>1, <1>2, <1>3 DEF EndRun, RowsOK

\* So does finish_run.
LEMMA FinishTypes ==
    ASSUME TypeOK, verdict \in Ended, FinishRun
    PROVE  RowsOK'
<1>1. RowsOK /\ 1 \in Work /\ emitted + 1 \in Nat
  BY WorkIsFinite DEF TypeOK, RowsOK
<1>2. log' \in Seq([n : Nat, type : {"STARTED", "ITEM_STARTED", "ITEM_FINISHED", "FINISHED"},
                    work : Work])
  BY <1>1 DEF FinishRun, Event, RowsOK
<1>3. \A m \in Models : ModelVerdict(m) \in Ended \cup {"SKIPPED"}
  BY DEF ModelVerdict, Ended
<1>4. models' \in [Models -> [state : Ended \cup {"PENDING", "RUNNING", "SKIPPED"}, done : Nat]]
  BY <1>1, <1>3 DEF FinishRun, RowsOK
<1> QED BY <1>1, <1>2, <1>4 DEF FinishRun, RowsOK

\* And a call that was refused or failed before its commit.
LEMMA SameRows ==
    ASSUME TypeOK, UNCHANGED database
    PROVE  RowsOK'
BY DEF TypeOK, RowsOK, database

----------------------------------------------------------------------------
(* Types.                                                                  *)

OthersOK ==
    /\ request \in [Requests -> {"finding", "creating", "scheduling", "unscheduled", "returned"}]
    /\ canceller \in {"idle", "signalling", "returned"}
    /\ exec \in {"idle", "starting", "filling", "checked", "announcing", "calling", "waiting",
                 "recording", "noting", "finishing", "draining", "failing", "done"}
    /\ registered \in BOOLEAN /\ signal \in BOOLEAN /\ fatal \in BOOLEAN
    /\ next \in Work \cup {LastWork + 1} /\ cur \in Work
    /\ active \subseteq Work /\ batch \subseteq active /\ outcomes \subseteq Work
    /\ emitted \in Nat /\ stopped \subseteq Models /\ verdict \in Ended \cup {"none"}
    /\ calls \in [Work -> Nat] /\ answer \in [Work -> Answers \cup {"none"}]
    /\ late \in Nat /\ faults \in 0..MaxFaults
RestOK == OthersOK /\ Prepared

\* TypeOK is the types of the rows and those of the rest.
LEMMA TypeParts == (TypeOK <=> RowsOK /\ OthersOK) /\ (TypeOK' <=> RowsOK' /\ OthersOK')
BY DEF TypeOK, RowsOK, OthersOK, LastWork

\* The initial state is typed.
LEMMA TypeInit == Init => TypeInv
<1> SUFFICES ASSUME Init PROVE TypeInv
  OBVIOUS
<1>1. RowsOK
  BY DEF Init, RowsOK
<1>2. /\ request \in [Requests -> {"finding", "creating", "scheduling", "unscheduled", "returned"}]
      /\ calls \in [Work -> Nat] /\ answer \in [Work -> Answers \cup {"none"}]
  BY DEF Init
<1>3. next \in Work \cup {LastWork + 1} /\ cur \in Work /\ faults \in 0..MaxFaults
  BY WorkIsFinite, EvaluationAssumption DEF Init
<1>4. RestOK
  BY <1>2, <1>3 DEF Init, RestOK, OthersOK, Prepared
<1> QED BY <1>1, <1>4, TypeParts DEF TypeInv, RestOK

\* Faults stay within their bound.
LEMMA FaultTypes ==
    ASSUME TypeOK, Fault \/ NoFault
    PROVE  faults' \in 0..MaxFaults
BY EvaluationAssumption DEF Fault, NoFault, TypeOK

\* Every step keeps the types.
LEMMA TypeNext == TypeInv /\ [Next]_vars => TypeInv'
<1> SUFFICES ASSUME TypeInv, [Next]_vars PROVE RowsOK' /\ RestOK'
  BY TypeParts DEF TypeInv, RestOK
<1> USE DEF TypeInv, RestOK, OthersOK, Prepared, service, database, queue, findings, provider
<1>1. ASSUME NEW r \in Requests, Find(r) PROVE RowsOK' /\ RestOK'
  <2>1. RowsOK'
    BY <1>1, SameRows DEF Find
  <2>2. RestOK'
    BY <1>1, TypeParts, FaultTypes DEF Find, At
  <2> QED BY <2>1, <2>2
<1>2. ASSUME NEW r \in Requests, Create(r) PROVE RowsOK' /\ RestOK'
  <2>1. RowsOK'
    BY <1>2, TypeParts DEF Create, RowsOK
  <2>2. RestOK'
    BY <1>2, TypeParts, FaultTypes DEF Create, At
  <2> QED BY <2>1, <2>2
<1>3. ASSUME NEW r \in Requests, Schedule(r) PROVE RowsOK' /\ RestOK'
  <2>1. RowsOK'
    BY <1>3, SameRows DEF Schedule
  <2>2. RestOK'
    BY <1>3, TypeParts, FaultTypes DEF Schedule, At
  <2> QED BY <2>1, <2>2
<1>4. ASSUME NEW r \in Requests, FailUnscheduled(r) PROVE RowsOK' /\ RestOK'
  <2>1. RowsOK'
    BY <1>4, SameRows, EndTypes DEF FailUnscheduled, Store, Ended
  <2>2. RestOK'
    BY <1>4, TypeParts, FaultTypes DEF FailUnscheduled, Store, At
  <2> QED BY <2>1, <2>2
<1>5. CASE RequestCancel
  <2>1. RowsOK'
    BY <1>5, TypeParts DEF RequestCancel, RowsOK
  <2>2. RestOK'
    BY <1>5, TypeParts, FaultTypes DEF RequestCancel
  <2> QED BY <2>1, <2>2
<1>6. CASE Signal
  <2>1. RowsOK'
    BY <1>6, SameRows DEF Signal
  <2>2. RestOK'
    BY <1>6, TypeParts, FaultTypes DEF Signal
  <2> QED BY <2>1, <2>2
<1>7. CASE Begin
  <2>1. RowsOK'
    BY <1>7, SameRows, AppendTypes, WorkIsFinite DEF Begin, Store
  <2>2. RestOK'
    BY <1>7, TypeParts, FaultTypes, WorkIsFinite DEF Begin, Store
  <2> QED BY <2>1, <2>2
<1>8. CASE Check
  <2>1. RowsOK'
    BY <1>8, SameRows DEF Check, Store
  <2>2. RestOK'
    BY <1>8, TypeParts, FaultTypes DEF Check, Store, Full, RowsOK
  <2> QED BY <2>1, <2>2
<1>9. CASE Take
  <2>1. RowsOK'
    BY <1>9, SameRows DEF Take
  <2>2. RestOK'
    BY <1>9, TypeParts, FaultTypes, NextWork DEF Take
  <2> QED BY <2>1, <2>2
<1>10. CASE Announce
  <2>1. RowsOK'
    BY <1>10, SameRows, AppendTypes DEF Announce, Store, TypeOK
  <2>2. RestOK'
    BY <1>10, TypeParts, FaultTypes DEF Announce, Store
  <2> QED BY <2>1, <2>2
<1>11. CASE Call
  <2>1. RowsOK'
    BY <1>11, SameRows DEF Call
  <2>2. RestOK'
    BY <1>11, TypeParts, FaultTypes DEF Call
  <2> QED BY <2>1, <2>2
<1>12. CASE Wait
  <2>1. RowsOK'
    BY <1>12, SameRows DEF Wait
  <2>2. RestOK'
    BY <1>12, TypeParts, FaultTypes DEF Wait, Answered
  <2> QED BY <2>1, <2>2
<1>13. CASE Note
  <2>1. RowsOK'
    BY <1>13, SameRows, AppendTypes DEF Note, Store, TypeOK
  <2>2. RestOK'
    <3>1. exec' \in {"filling", "recording", "draining"} /\ faults' \in 0..MaxFaults
      BY <1>13, FaultTypes DEF Note, Store
    <3>2. stopped' \in {stopped, stopped \cup {ModelOf(cur)}}
      BY <1>13 DEF Note, Store
    <3>3. fatal' \in BOOLEAN
      BY <1>13, TypeParts DEF Note, Store, OthersOK
    <3>4. stopped' \subseteq Models
      BY <3>2, TypeParts, WorkOfModels DEF OthersOK
    <3> QED
      BY <1>13, <3>1, <3>3, <3>4, TypeParts
      DEF Note, OthersOK, Prepared, service, queue, provider
  <2> QED BY <2>1, <2>2
<1>14. CASE Decide
  <2>1. RowsOK'
    BY <1>14, SameRows DEF Decide
  <2>2. RestOK'
    BY <1>14, TypeParts, FaultTypes DEF Decide, Decision, Ended
  <2> QED BY <2>1, <2>2
<1>15. CASE Finish
  <2>1. RowsOK'
    BY <1>15, SameRows, FinishTypes DEF Finish, Store, Prepared
  <2>2. RestOK'
    BY <1>15, TypeParts, FaultTypes DEF Finish, Store
  <2> QED BY <2>1, <2>2
<1>16. CASE Drain
  <2>1. RowsOK'
    BY <1>16, SameRows DEF Drain
  <2>2. RestOK'
    BY <1>16, TypeParts, FaultTypes DEF Drain
  <2> QED BY <2>1, <2>2
<1>17. CASE Fail
  <2>1. RowsOK'
    BY <1>17, SameRows, EndTypes DEF Fail, Store, Ended
  <2>2. RestOK'
    BY <1>17, TypeParts, FaultTypes DEF Fail, Store
  <2> QED BY <2>1, <2>2
<1>18. ASSUME NEW w \in Work, Record(w) PROVE RowsOK' /\ RestOK'
  <2>1. RowsOK'
    BY <1>18, SameRows, RecordTypes DEF Record, Store
  <2>2. RestOK'
    BY <1>18, TypeParts, FaultTypes DEF Record, Store
  <2> QED BY <2>1, <2>2
<1>19. ASSUME NEW w \in Work, Answer(w) PROVE RowsOK' /\ RestOK'
  <2>1. RowsOK'
    BY <1>19, SameRows DEF Answer
  <2>2. RestOK'
    BY <1>19, TypeParts, FaultTypes DEF Answer
  <2> QED BY <2>1, <2>2
<1>20. CASE Crash
  <2>1. RowsOK'
    BY <1>20, SameRows DEF Crash
  <2>2. RestOK'
    BY <1>20, TypeParts, FaultTypes DEF Crash, Held
  <2> QED BY <2>1, <2>2
<1>21. CASE Expire
  <2>1. RowsOK'
    BY <1>21, TypeParts DEF Expire, RowsOK
  <2>2. RestOK'
    BY <1>21, TypeParts, FaultTypes DEF Expire
  <2> QED BY <2>1, <2>2
<1>22. CASE Reap
  <2>1. RowsOK'
    BY <1>22, EndTypes DEF Reap, Ended
  <2>2. RestOK'
    BY <1>22, TypeParts, FaultTypes DEF Reap
  <2> QED BY <2>1, <2>2
<1>23. CASE UNCHANGED vars
  <2>1. RowsOK'
    BY <1>23, SameRows DEF vars
  <2>2. RestOK'
    BY <1>23, TypeParts, FaultTypes DEF vars
  <2> QED BY <2>1, <2>2
<1> QED BY <1>1, <1>2, <1>3, <1>4, <1>5, <1>6, <1>7, <1>8, <1>9, <1>10, <1>11, <1>12,
           <1>13, <1>14, <1>15, <1>16, <1>17, <1>18, <1>19, <1>20, <1>21, <1>22, <1>23
        DEF Next, StartRun, Coordinate

\* Every variable keeps its type.
THEOREM TypeCorrect == Spec => []TypeOK
<1> QED BY TypeInit, TypeNext, PTL DEF Spec, TypeInv

----------------------------------------------------------------------------
(* What a run that has ended left is final.                                *)

Kept == run'.state = run.state /\ UNCHANGED << models, items, log >>

\* The store refuses to touch it.
LEMMA StoreKeeps ==
    ASSUME run.state \in Ended
    PROVE  ~Touch
BY DEF Touch, Ended

\* No step changes what is stored of an ended run.
LEMMA EndedKept == ASSUME run.state \in Ended, [Next]_vars PROVE Kept
<1> USE StoreKeeps DEF Kept, database
<1>1. ASSUME NEW r \in Requests, StartRun(r) PROVE Kept
  <2>1. CASE Find(r) \/ Schedule(r)
    BY <2>1 DEF Find, Schedule
  <2>2. CASE Create(r)
    BY <2>2 DEF Create, Ended
  <2>3. CASE FailUnscheduled(r)
    BY <2>3 DEF FailUnscheduled, Store
  <2> QED BY <1>1, <2>1, <2>2, <2>3 DEF StartRun
<1>2. CASE RequestCancel \/ Signal
  BY <1>2 DEF RequestCancel, Signal, Ended
<1>3. CASE Coordinate
  <2>1. CASE Begin \/ Check \/ Announce \/ Note \/ Finish \/ Fail
    BY <2>1 DEF Begin, Check, Announce, Note, Finish, Fail, Store
  <2>2. CASE \E w \in Work : Record(w)
    BY <2>2 DEF Record, Store
  <2>3. CASE Take \/ Call \/ Wait \/ Decide \/ Drain
    BY <2>3 DEF Take, Call, Wait, Decide, Drain
  <2> QED BY <1>3, <2>1, <2>2, <2>3 DEF Coordinate
<1>4. CASE \E w \in Work : Answer(w)
  BY <1>4 DEF Answer
<1>5. CASE Crash \/ Expire \/ Reap
  BY <1>5 DEF Crash, Expire, Reap, Ended
<1>6. CASE UNCHANGED vars
  BY <1>6 DEF vars
<1> QED BY <1>1, <1>2, <1>3, <1>4, <1>5, <1>6 DEF Next

\* Once a run has ended nothing changes what is stored of it: the store takes
\* writes under a live lease of a running run only, and every other writer
\* looks at the state in its own transaction.
THEOREM EvidenceStays == Spec => EvidenceIsFinal
<1>1. [Next]_vars => [run.state \in Ended => Kept]_vars
  BY EndedKept
<1> QED BY <1>1, PTL DEF Spec, EvidenceIsFinal, Kept

----------------------------------------------------------------------------
(* Cancellation.                                                           *)

Off == run.cancel \/ run.state \in Ended

\* A call that begins late is the last one: the coordinator is past it only
\* when it has found out.
LateIsLast ==
    late = 0 \/ (/\ late = 1 /\ Off
                /\ exec \notin {"announcing", "calling"} /\ (exec = "checked" => signal = TRUE))

CancelInv == TypeInv /\ LateIsLast

\* A cancellation is never withdrawn.
LEMMA CancelStays == ASSUME TypeOK, run.cancel, [Next]_vars PROVE run'.cancel
<1> USE TypeParts DEF RowsOK, database
<1>1. ASSUME NEW r \in Requests, StartRun(r) PROVE run'.cancel
  <2>1. CASE Find(r) \/ Create(r) \/ Schedule(r)
    BY <2>1 DEF Find, Create, Schedule
  <2>2. CASE FailUnscheduled(r)
    BY <2>2 DEF FailUnscheduled, Store, EndRun
  <2> QED BY <1>1, <2>1, <2>2 DEF StartRun
<1>2. CASE RequestCancel \/ Signal
  BY <1>2 DEF RequestCancel, Signal
<1>3. CASE Coordinate
  <2>1. CASE Begin \/ Check \/ Announce \/ Note
    BY <2>1 DEF Begin, Check, Announce, Note, Store, AppendEvent
  <2>2. CASE Finish \/ Fail
    BY <2>2 DEF Finish, Fail, Store, EndRun, FinishRun
  <2>3. CASE \E w \in Work : Record(w)
    BY <2>3 DEF Record, Store, RecordItem
  <2>4. CASE Take \/ Call \/ Wait \/ Decide \/ Drain
    BY <2>4 DEF Take, Call, Wait, Decide, Drain
  <2> QED BY <1>3, <2>1, <2>2, <2>3, <2>4 DEF Coordinate
<1>4. CASE \E w \in Work : Answer(w)
  BY <1>4 DEF Answer
<1>5. CASE Crash \/ Expire \/ Reap
  BY <1>5 DEF Crash, Expire, Reap, EndRun
<1>6. CASE UNCHANGED vars
  BY <1>6 DEF vars
<1> QED BY <1>1, <1>2, <1>3, <1>4, <1>5, <1>6 DEF Next

\* What is off stays off.
LEMMA OffStays == ASSUME TypeOK, Off, [Next]_vars PROVE Off'
BY EndedKept, CancelStays DEF Kept, Off

\* A coordinator that knows starts nothing; one that does not finds out.
LEMMA CancelNext == CancelInv /\ [Next]_vars => CancelInv'
<1> SUFFICES ASSUME CancelInv, [Next]_vars PROVE LateIsLast'
  BY TypeNext DEF CancelInv
<1>0. TypeOK /\ (Off => Off') /\ signal \in BOOLEAN
  BY OffStays DEF CancelInv, TypeInv, TypeOK
<1>1. CASE Call
  <2>1. late = 0 /\ exec' = "filling" /\ (late' = 0 \/ (late' = 1 /\ Off))
    BY <1>1 DEF Call, CancelInv, LateIsLast, Off
  <2> QED BY <1>0, <2>1 DEF LateIsLast
<1>2. CASE ~Call
  <2>1. late' = late
    BY <1>2 DEF Next, StartRun, Coordinate, Find, Create, Schedule, FailUnscheduled, RequestCancel,
        Signal, Begin, Check, Take, Announce, Wait, Record, Note, Decide, Finish, Drain, Fail,
        Answer, Crash, Expire, Reap, vars, provider
  <2>2. SUFFICES ASSUME late = 1, Off, exec \notin {"announcing", "calling"},
                        exec = "checked" => signal = TRUE
                 PROVE  exec' \notin {"announcing", "calling"} /\ (exec' = "checked" => signal' = TRUE)
    BY <1>0, <2>1 DEF CancelInv, LateIsLast
  <2>3. ASSUME NEW r \in Requests, StartRun(r)
        PROVE  (exec' = exec \/ exec' = "starting") /\ signal' = signal
    BY <2>3 DEF StartRun, Find, Create, Schedule, FailUnscheduled
  <2>4. CASE RequestCancel \/ Signal
    BY <2>2, <2>4, <1>0 DEF RequestCancel, Signal
  <2>5. CASE Check
    <3>1. CASE signal
      BY <3>1, <2>5 DEF Check
    <3>2. CASE ~signal
      <4>1. Touch => run.cancel
        BY <2>2 DEF Touch, Off, Ended
      <4>2. exec' = "draining" \/ (Touch /\ exec' = "checked" /\ signal' = run.cancel)
        BY <2>5, <3>2 DEF Check, Store
      <4>3. run.cancel \in BOOLEAN
        BY <1>0, TypeParts DEF RowsOK
      <4> QED BY <4>1, <4>2, <4>3
    <3> QED BY <3>1, <3>2
  <2>6. CASE Take
    BY <2>2, <2>6 DEF Take
  <2>7. CASE Begin \/ Announce \/ Wait \/ Note \/ Decide \/ Finish \/ Drain \/ Fail
             \/ \E w \in Work : Record(w)
    BY <2>2, <2>7 DEF Begin, Announce, Wait, Note, Decide, Finish, Drain, Fail, Record, Store
  <2>8. CASE (\E w \in Work : Answer(w)) \/ Crash \/ Expire \/ Reap \/ UNCHANGED vars
    BY <2>2, <2>8 DEF Answer, Crash, Expire, Reap, vars
  <2> QED BY <1>2, <2>2, <2>3, <2>4, <2>5, <2>6, <2>7, <2>8 DEF Next, Coordinate
<1> QED BY <1>1, <1>2

\* At most one call begins after a cancellation is stored or the lease scan
\* ended the run.
THEOREM CancelEndsCalls == Spec => []CancelStops
<1>1. Init => CancelInv
  BY TypeInit DEF Init, CancelInv, LateIsLast
<1>2. CancelInv => CancelStops
  BY DEF CancelInv, LateIsLast, CancelStops
<1> QED BY <1>1, <1>2, CancelNext, PTL DEF Spec

----------------------------------------------------------------------------
(* One call of each item.                                                  *)

Begun(w) == Logged("ITEM_STARTED", w)

\* One request starts the run, once.
OneStart ==
    /\ run.state = "none" => exec = "idle" /\ \A r \in Requests : ~Held(r)
    /\ \A r \in Requests : request[r] = "scheduling" => exec = "idle"
    /\ \A r, q \in Requests : request[r] = "scheduling" /\ request[q] = "scheduling" => r = q

\* Work is called in its order, behind its start in the log.
InOrder ==
    /\ exec \in {"idle", "starting"} => \A w \in Work : calls[w] = 0
    /\ \A w \in Work : w >= next => calls[w] = 0
    /\ exec \in {"announcing", "calling"} => cur < next /\ calls[cur] = 0
    /\ exec = "calling" => Begun(cur)

PaidInv == TypeInv /\ OneStart /\ InOrder /\ PaidOnce

\* Events are only ever appended.
LEMMA LogGrows ==
    ASSUME TypeOK, [Next]_vars
    PROVE  log' = log \/ \E n \in Nat, type \in {"STARTED", "ITEM_STARTED", "ITEM_FINISHED", "FINISHED"},
                              w \in Work : log' = Append(log, Event(n, type, w))
<1> DEFINE Grown == \E n \in Nat, type \in {"STARTED", "ITEM_STARTED", "ITEM_FINISHED", "FINISHED"},
                        w \in Work : log' = Append(log, Event(n, type, w))
<1>0. emitted + 1 \in Nat /\ Len(log) + 1 \in Nat /\ 1 \in Work /\ cur \in Work
  BY WorkIsFinite DEF TypeOK
<1>1. ASSUME NEW s, EndRun(s) PROVE Grown
  BY <1>0, <1>1 DEF EndRun
<1>2. ASSUME NEW type \in {"STARTED", "ITEM_STARTED", "ITEM_FINISHED"}, NEW w \in Work,
             AppendEvent(type, w)
      PROVE  Grown
  BY <1>0, <1>2 DEF AppendEvent
<1>3. FinishRun => Grown
  BY <1>0 DEF FinishRun
<1> SUFFICES log' = log \/ Grown
  OBVIOUS
<1> HIDE DEF Grown
<1>4. ASSUME NEW r \in Requests, StartRun(r) PROVE log' = log \/ Grown
  <2>1. CASE Find(r) \/ Create(r) \/ Schedule(r)
    BY <2>1 DEF Find, Create, Schedule, database
  <2>2. CASE FailUnscheduled(r)
    BY <1>1, <2>2 DEF FailUnscheduled, Store, database
  <2> QED BY <1>4, <2>1, <2>2 DEF StartRun
<1>5. CASE Coordinate
  <2>1. CASE Begin \/ Announce \/ Note
    BY <1>0, <1>2, <2>1 DEF Begin, Announce, Note, Store, database
  <2>2. CASE Finish \/ Fail
    BY <1>1, <1>3, <2>2 DEF Finish, Fail, Store, database
  <2>3. CASE Check \/ \E w \in Work : Record(w)
    BY <2>3 DEF Check, Record, Store, RecordItem, database
  <2>4. CASE Take \/ Call \/ Wait \/ Decide \/ Drain
    BY <2>4 DEF Take, Call, Wait, Decide, Drain, database
  <2> QED BY <1>5, <2>1, <2>2, <2>3, <2>4 DEF Coordinate
<1>6. CASE Reap
  BY <1>1, <1>6 DEF Reap
<1>7. CASE RequestCancel \/ Signal \/ (\E w \in Work : Answer(w)) \/ Crash \/ Expire \/ UNCHANGED vars
  BY <1>7 DEF RequestCancel, Signal, Answer, Crash, Expire, vars, database
<1> QED BY <1>4, <1>5, <1>6, <1>7 DEF Next

\* What the log has, it keeps.
LEMMA BegunStays ==
    ASSUME TypeOK, [Next]_vars, NEW w \in Work, Begun(w)
    PROVE  Begun(w)'
<1>1. CASE log' = log
  BY <1>1 DEF Begun, Logged
<1>2. ASSUME NEW e, log' = Append(log, e) PROVE Begun(w)'
  <2>1. PICK i \in DOMAIN log : log[i].type = "ITEM_STARTED" /\ log[i].work = w
    BY DEF Begun, Logged
  <2>2. log \in Seq([n : Nat, type : {"STARTED", "ITEM_STARTED", "ITEM_FINISHED", "FINISHED"},
                     work : Work])
    BY DEF TypeOK
  <2>3. i \in DOMAIN log' /\ log'[i] = log[i]
    BY <1>2, <2>1, <2>2
  <2> QED BY <2>1, <2>3 DEF Begun, Logged
<1> QED BY <1>1, <1>2, LogGrows

\* The event that announces work is its start.
LEMMA AnnounceBegins ==
    ASSUME TypeOK, AppendEvent("ITEM_STARTED", cur), cur' = cur
    PROVE  Begun(cur)'
<1>1. log \in Seq([n : Nat, type : {"STARTED", "ITEM_STARTED", "ITEM_FINISHED", "FINISHED"},
                   work : Work]) /\ cur \in Work
  BY DEF TypeOK
<1>2. log' = Append(log, Event(emitted + 1, "ITEM_STARTED", cur))
  BY DEF AppendEvent
<1>3. Len(log) + 1 \in DOMAIN log' /\ log'[Len(log) + 1] = Event(emitted + 1, "ITEM_STARTED", cur)
  BY <1>1, <1>2
<1> QED BY <1>3 DEF Begun, Logged, Event

\* Only create_run gives a run its first state.
LEMMA RunStays == ASSUME TypeInv, [Next]_vars, run'.state = "none" PROVE run.state = "none"
<1>0. RowsOK /\ (verdict # "none" \/ exec # "finishing")
  BY TypeParts DEF TypeInv, Prepared, Ended, OthersOK
<1> USE DEF TypeInv, RowsOK, database
<1>1. ASSUME NEW r \in Requests, StartRun(r) PROVE run.state = "none"
  <2>1. CASE Find(r) \/ Create(r) \/ Schedule(r)
    BY TypeParts, <2>1 DEF Find, Create, Schedule
  <2>2. CASE FailUnscheduled(r)
    BY TypeParts, <2>2 DEF FailUnscheduled, Store, EndRun
  <2> QED BY <1>1, <2>1, <2>2 DEF StartRun
<1>2. CASE RequestCancel \/ Signal
  BY TypeParts, <1>2 DEF RequestCancel, Signal
<1>3. CASE Coordinate
  <2>1. CASE Begin \/ Check \/ Announce \/ Note
    BY TypeParts, <2>1 DEF Begin, Check, Announce, Note, Store, AppendEvent
  <2>2. CASE Fail
    BY TypeParts, <2>2 DEF Fail, Store, EndRun
  <2>3. CASE Finish
    BY TypeParts, <2>3 DEF Finish, Store, FinishRun, Prepared, Ended
  <2>4. CASE \E w \in Work : Record(w)
    BY <2>4 DEF Record, Store, RecordItem
  <2>5. CASE Take \/ Call \/ Wait \/ Decide \/ Drain
    BY <2>5 DEF Take, Call, Wait, Decide, Drain
  <2> QED BY <1>3, <2>1, <2>2, <2>3, <2>4, <2>5 DEF Coordinate
<1>4. CASE \E w \in Work : Answer(w)
  BY <1>4 DEF Answer
<1>5. CASE Crash \/ Expire \/ Reap
  BY TypeParts, <1>5 DEF Crash, Expire, Reap, EndRun, Ended
<1>6. CASE UNCHANGED vars
  BY <1>6 DEF vars
<1> QED BY <1>1, <1>2, <1>3, <1>4, <1>5, <1>6 DEF Next

\* However requests race, one of them starts the run.
LEMMA StartNext == TypeInv /\ OneStart /\ [Next]_vars => OneStart'
<1> SUFFICES ASSUME TypeInv, OneStart, [Next]_vars PROVE OneStart'
  OBVIOUS
<1>0. /\ run'.state = "none" => run.state = "none"
      /\ request \in [Requests -> {"finding", "creating", "scheduling", "unscheduled", "returned"}]
  BY RunStays DEF TypeInv, TypeOK
<1>1. ASSUME NEW r \in Requests, Find(r) \/ FailUnscheduled(r) PROVE OneStart'
  BY <1>0, <1>1 DEF Find, FailUnscheduled, At, OneStart, Held
<1>2. ASSUME NEW r \in Requests, Create(r) PROVE OneStart'
  <2>1. CASE run.state = "none" /\ run'.state # "none"
    BY <1>0, <1>2, <2>1 DEF Create, At, OneStart, Held
  <2>2. CASE run.state # "none" \/ run'.state = "none"
    <3>1. request' = [request EXCEPT ![r] = "returned"] /\ exec' = exec
      BY <1>2, <2>2 DEF Create, At, TypeInv, TypeOK
    <3> QED BY <1>0, <3>1 DEF OneStart, Held
  <2> QED BY <2>1, <2>2
<1>3. ASSUME NEW r \in Requests, Schedule(r) PROVE OneStart'
  <2>1. run' = run /\ run.state # "none"
    BY <1>3 DEF Schedule, At, database, OneStart, Held
  <2>2. \A q \in Requests : request'[q] # "scheduling"
    BY <1>0, <1>3 DEF Schedule, At, OneStart, Held
  <2> QED BY <2>1, <2>2 DEF OneStart, Held
<1>4. CASE Coordinate
  <2>1. request' = request /\ exec # "idle" /\ exec' # "idle"
    BY <1>4 DEF Coordinate, Begin, Check, Take, Announce, Call, Wait, Record, Note, Decide, Finish,
        Drain, Fail, Store, service, Waiting
  <2> QED BY <1>0, <2>1 DEF OneStart, Held
<1>5. CASE Crash
  <2>1. run' = run /\ run.state # "none"
    BY <1>5 DEF Crash, database, Attended, Held, OneStart, TypeInv, TypeOK
  <2>2. \A q \in Requests : request'[q] # "scheduling"
    BY <1>0, <1>5 DEF Crash, Held
  <2> QED BY <2>1, <2>2 DEF OneStart, Held
<1>6. CASE RequestCancel \/ Signal \/ (\E w \in Work : Answer(w)) \/ Expire \/ Reap \/ UNCHANGED vars
  <2>1. request' = request /\ exec' = exec
    BY <1>6 DEF RequestCancel, Signal, Answer, Expire, Reap, vars, service
  <2> QED BY <1>0, <2>1 DEF OneStart, Held
<1> QED BY <1>1, <1>2, <1>3, <1>4, <1>5, <1>6 DEF Next, StartRun

\* Every step keeps the order of announcements and calls.
LEMMA PaidNext == PaidInv /\ [Next]_vars => PaidInv'
<1> SUFFICES ASSUME PaidInv, [Next]_vars PROVE InOrder' /\ PaidOnce'
  BY TypeNext, StartNext DEF PaidInv
<1>a. TypeOK
  BY DEF PaidInv, TypeInv
<1>b. \A w \in Work : Begun(w) => Begun(w)'
  BY <1>a, BegunStays
<1>c. cur \in Work /\ calls \in [Work -> Nat] /\ next \in Work \cup {LastWork + 1}
  BY <1>a DEF TypeOK, LastWork
<1>d. Work \subseteq Nat /\ LastWork \in Nat
  BY WorkIsFinite DEF Work
<1>0. /\ TypeOK /\ \A w \in Work : Begun(w) => Begun(w)'
      /\ cur \in Work /\ calls \in [Work -> Nat] /\ next \in Nat /\ Work \subseteq Nat
  BY <1>a, <1>b, <1>c, <1>d
<1> USE DEF PaidInv
<1>1. CASE Call
  <2>1. calls[cur] = 0 /\ cur < next /\ Begun(cur) /\ next' = next /\ exec' = "filling"
        /\ calls' = [calls EXCEPT ![cur] = 1]
    BY <1>0, <1>1 DEF Call, InOrder
  <2>2. PaidOnce'
    BY <1>0, <2>1 DEF PaidOnce, Begun
  <2>3. InOrder'
    BY <1>0, <2>1 DEF InOrder
  <2> QED BY <2>2, <2>3
<1>2. CASE ~Call
  <2>1. calls' = calls
    BY <1>2 DEF Next, StartRun, Coordinate, Find, Create, Schedule, FailUnscheduled, RequestCancel,
        Signal, Begin, Check, Take, Announce, Wait, Record, Note, Decide, Finish, Drain, Fail,
        Answer, Crash, Expire, Reap, vars, provider
  <2>2. PaidOnce'
    BY <1>0, <2>1 DEF PaidOnce, Begun
  <2>3. ASSUME NEW r \in Requests, StartRun(r)
        PROVE  next' = next /\ cur' = cur /\ (exec' = exec \/ (exec = "idle" /\ exec' = "starting"))
    BY <2>3 DEF StartRun, Find, Create, Schedule, FailUnscheduled, queue, At, OneStart, Held
  <2>4. CASE Begin
    <3>1. exec' \in {"filling", "draining"} /\ \A w \in Work : calls[w] = 0
      BY <2>4 DEF Begin, Store, InOrder
    <3> QED BY <2>1, <2>2, <3>1 DEF InOrder
  <2>5. CASE Take
    <3>1. next \in Work /\ exec = "checked"
      BY <2>5 DEF Take, TypeInv, Prepared
    <3>2. CASE exec' = "announcing"
      <4>1. next' = next + 1 /\ cur' = next
        BY <2>5, <3>2 DEF Take
      <4> QED BY <1>0, <2>1, <2>2, <3>1, <3>2, <4>1 DEF InOrder
    <3>3. CASE exec' \in {"filling", "waiting"}
      <4>1. next' \in {next, next + 1}
        BY <2>5 DEF Take
      <4> QED BY <1>0, <2>1, <2>2, <3>3, <4>1 DEF InOrder
    <3> QED BY <2>5, <3>2, <3>3 DEF Take
  <2>6. CASE Announce
    <3>1. next' = next /\ cur' = cur /\ exec = "announcing" /\ exec' \in {"calling", "draining"}
      BY <2>6 DEF Announce, Store, queue
    <3>2. exec' = "calling" => Begun(cur)'
      BY <1>0, <2>6, <3>1, AnnounceBegins DEF Announce, Store
    <3> QED BY <1>0, <2>1, <2>2, <3>1, <3>2 DEF InOrder, Begun, Logged
  <2>7. CASE \/ Check \/ Wait \/ Note \/ Decide \/ Finish \/ Drain \/ Fail \/ Crash
             \/ \E w \in Work : Record(w)
    <3>1. next' = next /\ exec' \notin {"idle", "starting", "announcing", "calling"}
      BY <2>7 DEF Check, Wait, Note, Decide, Finish, Drain, Fail, Record, Crash, Store, queue
    <3> QED BY <2>1, <2>2, <3>1 DEF InOrder
  <2>8. CASE \/ RequestCancel \/ Signal \/ (\E w \in Work : Answer(w)) \/ Expire \/ Reap
             \/ UNCHANGED vars
    <3>1. next' = next /\ cur' = cur /\ exec' = exec
      BY <2>8 DEF RequestCancel, Signal, Answer, Expire, Reap, vars, queue
    <3> QED BY <1>0, <2>1, <2>2, <3>1 DEF InOrder
  <2>9. CASE next' = next /\ cur' = cur /\ (exec' = exec \/ (exec = "idle" /\ exec' = "starting"))
    BY <1>0, <2>1, <2>2, <2>9 DEF InOrder
  <2> QED BY <1>2, <2>3, <2>4, <2>5, <2>6, <2>7, <2>8, <2>9 DEF Next, Coordinate
<1> QED BY <1>1, <1>2

\* Each item is asked of its model at most once, after its start was stored,
\* for any number of racing requests, faults and lost leases.
THEOREM PaidForOnce == Spec => []PaidOnce
<1>1. Init => PaidInv
  <2> SUFFICES ASSUME Init PROVE PaidInv
    OBVIOUS
  <2>1. OneStart /\ InOrder /\ PaidOnce
    BY DEF Init, OneStart, Held, InOrder, PaidOnce
  <2> QED BY <2>1, TypeInit DEF PaidInv
<1> QED BY <1>1, PaidNext, PTL DEF Spec, PaidInv

----------------------------------------------------------------------------
(* Refusals.                                                               *)

Dead == {"draining", "failing", "done"}

\* A coordinator that goes on knows of a stored refusal, or is about to.
Learns(v) == exec \in Dead \/ (exec = "noting" /\ cur = v)
Knows(v) ==
    /\ items[v] # "none" => items[v] = answer[v]
    /\ items[v] = "fatal" => fatal = TRUE \/ Learns(v)
    /\ items[v] = "refused" => ModelOf(v) \in stopped \/ Learns(v)
Allowed == exec \in {"announcing", "calling"} => fatal = FALSE /\ ModelOf(cur) \notin stopped

RefusalInv == TypeInv /\ OneStart /\ Allowed /\ \A v \in Work : Knows(v)

\* Steps that leave what is known alone.
LEMMA KnowsStays ==
    ASSUME NEW v \in Work, Knows(v), UNCHANGED << items, fatal, stopped >>,
           answer[v] # "none" => answer'[v] = answer[v],
           exec \in Dead => exec' \in Dead,
           exec = "noting" => cur' = cur /\ exec' \in {"noting"} \cup Dead
    PROVE  Knows(v)'
BY DEF Knows, Learns, Dead

\* A coordinator learns of a refusal before it can take new work.
LEMMA RefusalNext == RefusalInv /\ [Next]_vars => RefusalInv'
<1> SUFFICES ASSUME RefusalInv, [Next]_vars PROVE Allowed' /\ \A v \in Work : Knows(v)'
  BY TypeNext, StartNext DEF RefusalInv
<1> USE DEF RefusalInv
<1>0. TypeOK /\ cur \in Work
  BY DEF TypeInv, TypeOK
<1>1. ASSUME NEW w \in Work, Record(w) PROVE Allowed' /\ \A v \in Work : Knows(v)'
  <2>1. /\ exec = "recording" /\ cur' = w /\ UNCHANGED << fatal, stopped, answer >>
        /\ items' = items \/ items' = [items EXCEPT ![w] = answer[w]]
        /\ exec' = "draining" \/ exec' = "noting"
    BY <1>1 DEF Record, Store, RecordItem, database, provider
  <2>2. items \in [Work -> Answers \cup {"none"}]
    BY <1>0 DEF TypeOK
  <2>3. \A v \in Work : Knows(v)'
    BY <2>1, <2>2 DEF Knows, Learns, Dead
  <2> QED BY <2>1, <2>3 DEF Allowed
<1>2. CASE Note
  <2>1. /\ exec = "noting" /\ UNCHANGED << items, cur, answer >>
        /\ \/ exec' = "draining" /\ UNCHANGED << fatal, stopped >>
           \/ /\ exec' \in {"filling", "recording"}
              /\ fatal' = (fatal \/ answer[cur] = "fatal")
              /\ stopped' = IF answer[cur] \in {"refused", "fatal"}
                            THEN stopped \cup {ModelOf(cur)} ELSE stopped
    BY <1>2 DEF Note, Store, AppendEvent, database, provider, queue
  <2>2. ASSUME NEW v \in Work PROVE Knows(v)'
    <3>1. CASE exec' = "draining"
      BY <2>1, <3>1 DEF Knows, Learns, Dead
    <3>2. CASE exec' # "draining"
      <4>1. fatal = TRUE \/ answer[cur] = "fatal" => fatal' = TRUE
        BY <2>1, <3>2
      <4>2. stopped \subseteq stopped' /\ (answer[cur] = "refused" => ModelOf(cur) \in stopped')
        BY <2>1, <3>2
      <4> QED BY <2>1, <4>1, <4>2 DEF Knows, Learns, Dead
    <3> QED BY <3>1, <3>2
  <2> QED BY <2>1, <2>2 DEF Allowed
<1>3. CASE Take
  <2>1. UNCHANGED << items, fatal, stopped, answer >> /\ exec = "checked" /\ fatal \in BOOLEAN
    BY <1>0, <1>3 DEF Take, database, provider, findings, TypeOK
  <2>2. exec' = "announcing" => fatal = FALSE /\ cur' = next /\ ModelOf(next) \notin stopped
    BY <1>3, <2>1 DEF Take
  <2>3. exec' # "calling"
    BY <1>3 DEF Take
  <2>4. Allowed'
    BY <2>1, <2>2, <2>3 DEF Allowed, ModelOf
  <2> QED BY <2>1, <2>4, KnowsStays DEF Dead
<1>4. CASE \/ Begin \/ Check \/ Announce \/ Call \/ Wait \/ Decide \/ Finish \/ Drain \/ Fail \/ Crash
  <2>1. UNCHANGED << items, fatal, stopped, answer, cur >>
    BY <1>4 DEF Begin, Check, Announce, Call, Wait, Decide, Finish, Drain, Fail, Crash, Store,
        AppendEvent, EndRun, FinishRun, database, provider, findings, queue
  <2>2. /\ exec # "noting" \/ exec' \in Dead
        /\ exec \in Dead => exec' \in Dead
        /\ exec' \in {"announcing", "calling"} => exec = "announcing"
    BY <1>4 DEF Begin, Check, Announce, Call, Wait, Decide, Finish, Drain, Fail, Crash, Store,
        Waiting, Dead
  <2> QED BY <2>1, <2>2, KnowsStays DEF Allowed, ModelOf
<1>5. CASE (\E r \in Requests : StartRun(r)) \/ RequestCancel \/ Signal \/ Expire \/ Reap
  <2>1. UNCHANGED << items, fatal, stopped, answer, cur >>
    BY <1>5 DEF StartRun, Find, Create, Schedule, FailUnscheduled, RequestCancel, Signal, Expire,
        Reap, Store, EndRun, database, provider, findings, queue
  <2>2. exec' = exec \/ (exec = "idle" /\ exec' = "starting")
    BY <1>5 DEF StartRun, Find, Create, Schedule, FailUnscheduled, RequestCancel, Signal, Expire,
        Reap, At, OneStart
  <2> QED BY <2>1, <2>2, KnowsStays DEF Allowed, ModelOf, Dead
<1>6. CASE (\E w \in Work : Answer(w)) \/ UNCHANGED vars
  <2>1. UNCHANGED << items, fatal, stopped, cur, exec >>
    BY <1>6 DEF Answer, vars, database, findings, queue
  <2>2. \A v \in Work : answer[v] # "none" => answer'[v] = answer[v]
    BY <1>6, <1>0 DEF Answer, vars, provider, TypeOK
  <2> QED BY <2>1, <2>2, KnowsStays DEF Allowed, ModelOf
<1> QED BY <1>1, <1>2, <1>3, <1>4, <1>5, <1>6 DEF Next, Coordinate

\* A coordinator that goes on knows of what is stored, at all times.
LEMMA RefusalsKnown == Spec => []RefusalInv
<1>1. Init => RefusalInv
  <2> SUFFICES ASSUME Init PROVE RefusalInv
    OBVIOUS
  <2>1. OneStart /\ Allowed /\ \A v \in Work : Knows(v)
    BY DEF Init, OneStart, Held, Allowed, Knows
  <2> QED BY <2>1, TypeInit DEF RefusalInv
<1> QED BY <1>1, RefusalNext, PTL DEF Spec

\* No call for a model that is known to refuse, and none after a 401 or 402.
THEOREM RefusalsEndCalls == Spec => RefusalStops
<1> DEFINE Stops == \A w \in Work : calls'[w] > calls[w] =>
          \A v \in Work : items[v] # "fatal"
                          /\ (ModelOf(v) = ModelOf(w) => items[v] # "refused")
<1>1. ASSUME RefusalInv, [Next]_vars PROVE Stops
  <2>1. calls \in [Work -> Nat]
    BY <1>1 DEF RefusalInv, TypeInv, TypeOK
  <2>2. CASE Call
    <3>1. exec = "calling" /\ \A w \in Work : calls'[w] > calls[w] => w = cur
      BY <2>1, <2>2 DEF Call
    <3>2. \A v \in Work : items[v] # "fatal" /\ (items[v] = "refused" => ModelOf(v) \in stopped)
      BY <1>1, <3>1 DEF RefusalInv, Allowed, Knows, Learns, Dead
    <3> QED BY <1>1, <3>1, <3>2 DEF RefusalInv, Allowed
  <2>3. CASE ~Call
    <3>1. calls' = calls
      BY <1>1, <2>3 DEF Next, StartRun, Coordinate, Find, Create, Schedule, FailUnscheduled,
          RequestCancel, Signal, Begin, Check, Take, Announce, Wait, Record, Note, Decide, Finish,
          Drain, Fail, Answer, Crash, Expire, Reap, vars, provider
    <3> QED BY <2>1, <3>1
  <2> QED BY <2>2, <2>3
<1>2. RefusalInv /\ [Next]_vars => [Stops]_vars
  BY <1>1
<1> QED BY <1>2, RefusalsKnown, PTL DEF Spec, RefusalStops

----------------------------------------------------------------------------
(* The four tables.                                                        *)

\* The coordinator is at work: what it remembers is what is stored.
AtWork == exec \notin Dead \cup {"idle", "starting"}

\* What one step does to the rows: an item, an event with its model, an end, or
\* nothing but a request, a cancellation or a lease.
RowStep ==
    \/ /\ UNCHANGED << models, items, log >>
       /\ run'.state = run.state \/ (run.state = "none" /\ run'.state = "RUNNING")
    \/ Touch /\ exec = "starting" /\ AppendEvent("STARTED", 1)
    \/ Touch /\ exec = "announcing" /\ AppendEvent("ITEM_STARTED", cur)
    \/ Touch /\ exec = "noting" /\ AppendEvent("ITEM_FINISHED", cur)
    \/ Touch /\ exec = "recording" /\ \E w \in batch : RecordItem(w)
    \/ Touch /\ exec = "finishing" /\ FinishRun
    \/ /\ run.state = "RUNNING"
       /\ EndRun("FAILED") \/ (EndRun("CANCELLED") /\ run.cancel = TRUE)

\* Every step is one of those.
LEMMA RowSteps == ASSUME TypeInv, [Next]_vars PROVE RowStep
<1>0. RowsOK
  BY TypeParts DEF TypeInv
<1>1. ASSUME NEW r \in Requests, StartRun(r) PROVE RowStep
  <2>1. CASE Find(r) \/ Schedule(r)
    BY <2>1 DEF Find, Schedule, database, RowStep
  <2>2. CASE Create(r)
    <3>1. UNCHANGED << models, items, log >>
      BY <2>2 DEF Create
    <3>2. run' = run \/ (run.state = "none" /\ run' = [run EXCEPT !.state = "RUNNING"])
      BY <2>2 DEF Create
    <3> QED BY <1>0, <3>1, <3>2 DEF RowStep, RowsOK
  <2>3. CASE FailUnscheduled(r)
    BY <2>3 DEF FailUnscheduled, Store, Touch, database, RowStep
  <2> QED BY <1>1, <2>1, <2>2, <2>3 DEF StartRun
<1>2. CASE RequestCancel
  <2>1. run'.state = run.state
    BY <1>0, <1>2 DEF RequestCancel, RowsOK
  <2> QED BY <1>2, <2>1 DEF RequestCancel, RowStep
<1>3. CASE Begin
  BY <1>3 DEF Begin, Store, database, RowStep
<1>4. CASE Announce
  BY <1>4 DEF Announce, Store, database, RowStep
<1>5. CASE Note
  BY <1>5 DEF Note, Store, database, RowStep
<1>6. CASE \E w \in Work : Record(w)
  BY <1>6 DEF Record, Store, database, RowStep
<1>7. CASE Finish
  BY <1>7 DEF Finish, Store, database, RowStep
<1>8. CASE Fail
  BY <1>8 DEF Fail, Store, Touch, database, RowStep
<1>9. CASE Reap
  <2>1. run.cancel \in BOOLEAN
    BY <1>0 DEF RowsOK
  <2>2. CASE run.cancel
    BY <1>9, <2>1, <2>2 DEF Reap, RowStep
  <2>3. CASE ~run.cancel
    BY <1>9, <2>3 DEF Reap, RowStep
  <2> QED BY <2>2, <2>3
<1>10. CASE Expire
  <2>1. run'.state = run.state
    BY <1>0, <1>10 DEF Expire, RowsOK
  <2> QED BY <1>10, <2>1 DEF Expire, RowStep
<1>11. CASE Signal \/ Check \/ Take \/ Call \/ Wait \/ Decide \/ Drain \/ (\E w \in Work : Answer(w))
            \/ Crash \/ UNCHANGED vars
  BY <1>11 DEF Signal, Check, Take, Call, Wait, Decide, Drain, Answer, Crash, vars, Store, database,
      RowStep
<1> QED BY <1>1, <1>2, <1>3, <1>4, <1>5, <1>6, <1>7, <1>8, <1>9, <1>10, <1>11 DEF Next, Coordinate

\* Events are numbered by the log, whoever numbers them, and the end is the last.
Numbered ==
    \A i \in DOMAIN log : log[i].n = i /\ (log[i].type = "FINISHED" => i = Len(log) /\ log[i].work = 1)
EndIsLogged == run.state \in Ended <=> Logged("FINISHED", 1)
Counts ==
    /\ exec \in {"idle", "starting"} => emitted = 0 /\ (run.state \notin Ended => Len(log) = 0)
    /\ AtWork /\ run.state = "RUNNING" => emitted = Len(log)

LogInv == Numbered /\ EndIsLogged /\ Counts

Types == [n : Nat, type : {"STARTED", "ITEM_STARTED", "ITEM_FINISHED", "FINISHED"}, work : Work]

\* Where the coordinator does not write, its count stays right.
LEMMA CountStays ==
    ASSUME TypeOK, Counts, emitted' = emitted, log' = log,
           run'.state = run.state \/ (run.state = "none" /\ exec = "idle"),
           \/ exec' = exec
           \/ exec = "idle" /\ exec' = "starting"
           \/ exec' \in Dead
           \/ AtWork /\ AtWork'
    PROVE  Counts'
<1>1. (exec' \in {"idle", "starting"} => exec \in {"idle", "starting"}) /\ (AtWork' => AtWork)
  BY DEF AtWork, Dead
<1>2. exec' \in {"idle", "starting"} /\ run'.state \notin Ended => run.state \notin Ended
  BY DEF AtWork, Dead, Ended
<1>3. AtWork' => run'.state = run.state
  BY <1>1 DEF AtWork, Dead
<1> QED BY <1>1, <1>2, <1>3 DEF Counts

\* An event is appended behind the others.
LEMMA Appended ==
    ASSUME TypeOK, NEW e, log' = Append(log, e)
    PROVE  /\ Len(log) \in Nat /\ Len(log') = Len(log) + 1
           /\ DOMAIN log = 1..Len(log) /\ DOMAIN log' = 1..(Len(log) + 1)
           /\ \A i \in DOMAIN log : i \in DOMAIN log' /\ i <= Len(log) /\ log'[i] = log[i]
           /\ \A i \in DOMAIN log' : i \in DOMAIN log \/ i = Len(log')
           /\ log'[Len(log')] = e
BY DEF TypeOK

\* The count of the coordinator.
LEMMA CountsNext == ASSUME TypeInv, OneStart, Counts, [Next]_vars PROVE Counts'
<1>0. TypeOK /\ RowsOK /\ emitted \in Nat
  BY TypeParts DEF TypeInv, TypeOK
<1>1. ASSUME NEW r \in Requests, StartRun(r) PROVE Counts'
  <2>1. CASE Find(r) \/ Schedule(r)
    <3>1. emitted' = emitted /\ log' = log /\ run' = run
      BY <2>1 DEF Find, Schedule, database
    <3>2. exec' = exec \/ (exec = "idle" /\ exec' = "starting")
      BY <2>1 DEF Find, Schedule, At, OneStart
    <3> QED BY <1>0, <3>1, <3>2, CountStays
  <2>2. CASE Create(r)
    <3>1. emitted' = emitted /\ log' = log /\ exec' = exec
      BY <2>2 DEF Create
    <3>2. run' = run \/ run.state = "none"
      BY <2>2 DEF Create
    <3>3. run'.state = run.state \/ (run.state = "none" /\ exec = "idle")
      BY <3>2 DEF OneStart
    <3> QED BY <1>0, <3>1, <3>3, CountStays
  <2>3. CASE FailUnscheduled(r)
    <3>1. emitted' = emitted /\ exec' = exec /\ (EndRun("FAILED") \/ UNCHANGED database)
      BY <2>3 DEF FailUnscheduled, Store
    <3>2. CASE EndRun("FAILED")
      <4>1. run'.state = "FAILED"
        BY <1>0, <3>2 DEF EndRun, RowsOK
      <4> QED BY <3>1, <4>1 DEF Counts, Ended
    <3>3. CASE UNCHANGED database
      BY <1>0, <3>1, <3>3, CountStays DEF database
    <3> QED BY <3>1, <3>2, <3>3
  <2> QED BY <1>1, <2>1, <2>2, <2>3 DEF StartRun
<1>2. CASE Begin
  <2>1. exec = "starting" /\ emitted' = 1 /\ (exec' = "draining" \/ (exec' = "filling" /\ Touch
        /\ AppendEvent("STARTED", 1)))
    BY <1>2 DEF Begin, Store
  <2>2. CASE exec' = "draining"
    BY <2>2 DEF Counts, AtWork, Dead
  <2>3. CASE exec' = "filling" /\ Touch /\ AppendEvent("STARTED", 1)
    <3>1. Len(log) = 0
      BY <2>1, <2>3 DEF Counts, Touch, Ended
    <3>2. log' = Append(log, Event(emitted + 1, "STARTED", 1))
      BY <2>3 DEF AppendEvent
    <3>3. Len(log') = 1
      BY <1>0, <3>1, <3>2, Appended
    <3> QED BY <2>1, <2>3, <3>3 DEF Counts
  <2> QED BY <2>1, <2>2, <2>3
<1>3. CASE Announce \/ Note
  <2>1. AtWork /\ emitted' = emitted + 1
    BY <1>3 DEF Announce, Note, AtWork, Dead
  <2>2. exec' = "draining" \/ (Touch /\ exec' \in {"calling", "filling", "recording"}
        /\ (AppendEvent("ITEM_STARTED", cur) \/ AppendEvent("ITEM_FINISHED", cur)))
    BY <1>3 DEF Announce, Note, Store
  <2>3. CASE exec' = "draining"
    BY <2>3 DEF Counts, AtWork, Dead
  <2>4. CASE Touch /\ exec' \in {"calling", "filling", "recording"}
             /\ (AppendEvent("ITEM_STARTED", cur) \/ AppendEvent("ITEM_FINISHED", cur))
    <3>1. emitted = Len(log)
      BY <2>1, <2>4 DEF Counts, Touch
    <3>2. PICK e : log' = Append(log, e)
      BY <2>4 DEF AppendEvent
    <3>3. Len(log') = Len(log) + 1
      BY <1>0, <3>2, Appended
    <3> QED BY <2>1, <2>4, <3>1, <3>3 DEF Counts
  <2> QED BY <2>2, <2>3, <2>4
<1>4. CASE Finish \/ Fail \/ Drain \/ Crash
  <2>1. exec' \in Dead
    BY <1>4 DEF Finish, Fail, Drain, Crash, Store, Dead
  <2> QED BY <2>1 DEF Counts, AtWork, Dead
<1>5. CASE Check \/ Take \/ Call \/ Wait \/ Decide \/ \E w \in Work : Record(w)
  <2>1. emitted' = emitted /\ log' = log /\ run' = run
    BY <1>5 DEF Check, Take, Call, Wait, Decide, Record, Store, RecordItem, database
  <2>2. AtWork /\ (AtWork' \/ exec' \in Dead)
    BY <1>5 DEF Check, Take, Call, Wait, Decide, Record, Store, AtWork, Dead, Waiting
  <2> QED BY <1>0, <2>1, <2>2, CountStays
<1>6. CASE RequestCancel \/ Signal \/ (\E w \in Work : Answer(w)) \/ Expire \/ UNCHANGED vars
  <2>1. emitted' = emitted /\ log' = log /\ exec' = exec
    BY <1>6 DEF RequestCancel, Signal, Answer, Expire, vars, database
  <2>2. run'.state = run.state
    BY <1>0, <1>6 DEF RequestCancel, Signal, Answer, Expire, vars, database, RowsOK
  <2> QED BY <1>0, <2>1, <2>2, CountStays
<1>7. CASE Reap
  <2>1. exec' = exec /\ emitted' = emitted
    BY <1>7 DEF Reap
  <2>2. run'.state \in Ended
    BY <1>0, <1>7 DEF Reap, EndRun, RowsOK, Ended
  <2> QED BY <2>1, <2>2 DEF Counts, Ended
<1> QED BY <1>1, <1>2, <1>3, <1>4, <1>5, <1>6, <1>7 DEF Next, Coordinate

\* Every step keeps the numbers of the events, and the end last.
LEMMA LogNext == ASSUME TypeInv, OneStart, LogInv, [Next]_vars PROVE LogInv'
<1> USE DEF LogInv
<1>0. TypeOK /\ RowsOK
  BY TypeParts DEF TypeInv
<1>1. Counts'
  BY CountsNext
<1>2. RowStep
  BY RowSteps
<1>3. run.state = "RUNNING" => \A i \in DOMAIN log : log[i].type # "FINISHED"
  BY DEF Numbered, EndIsLogged, Logged, Ended
<1>4. CASE UNCHANGED << models, items, log >>
           /\ (run'.state = run.state \/ (run.state = "none" /\ run'.state = "RUNNING"))
  BY <1>1, <1>4 DEF Numbered, EndIsLogged, Logged, Ended
<1>5. CASE Touch /\ exec = "recording" /\ \E w \in batch : RecordItem(w)
  BY <1>1, <1>5 DEF RecordItem, Numbered, EndIsLogged, Logged
<1>6. ASSUME Touch, NEW type \in {"STARTED", "ITEM_STARTED", "ITEM_FINISHED"}, NEW w,
             AppendEvent(type, w), emitted = Len(log)
      PROVE  LogInv'
  <2>1. log' = Append(log, Event(Len(log) + 1, type, w)) /\ run' = run /\ run.state = "RUNNING"
    BY <1>6 DEF AppendEvent, Touch
  <2> DEFINE e == Event(Len(log) + 1, type, w)
  <2>2. e.n = Len(log) + 1 /\ e.type # "FINISHED"
    BY <1>6 DEF Event
  <2> HIDE DEF e
  <2>3. /\ Len(log) \in Nat /\ Len(log') = Len(log) + 1
        /\ \A i \in DOMAIN log : i \in DOMAIN log' /\ i <= Len(log) /\ log'[i] = log[i]
        /\ \A i \in DOMAIN log' : i \in DOMAIN log \/ i = Len(log')
        /\ log'[Len(log')] = e
    BY <1>0, <2>1, Appended DEF e
  <2>4. \A i \in DOMAIN log' : log'[i].n = i /\ log'[i].type # "FINISHED"
    BY <1>3, <2>1, <2>2, <2>3 DEF Numbered
  <2> QED BY <1>1, <2>1, <2>4 DEF Numbered, EndIsLogged, Logged, Ended
<1>7. ASSUME run.state = "RUNNING", run'.state \in Ended,
             log' = Append(log, Event(Len(log) + 1, "FINISHED", 1))
      PROVE  LogInv'
  <2> DEFINE e == Event(Len(log) + 1, "FINISHED", 1)
  <2>2. e.n = Len(log) + 1 /\ e.type = "FINISHED" /\ e.work = 1
    BY DEF Event
  <2> HIDE DEF e
  <2>3. /\ Len(log) \in Nat /\ Len(log') = Len(log) + 1
        /\ \A i \in DOMAIN log : i \in DOMAIN log' /\ i <= Len(log) /\ log'[i] = log[i]
        /\ \A i \in DOMAIN log' : i \in DOMAIN log \/ i = Len(log')
        /\ log'[Len(log')] = e /\ Len(log') \in DOMAIN log'
    BY <1>0, <1>7, Appended DEF e
  <2>4. Numbered'
    BY <1>3, <1>7, <2>2, <2>3 DEF Numbered
  <2>5. EndIsLogged'
    BY <1>7, <2>2, <2>3 DEF EndIsLogged, Logged
  <2> QED BY <1>1, <2>4, <2>5
<1>8. CASE Touch /\ exec = "starting" /\ AppendEvent("STARTED", 1)
  <2>1. emitted = Len(log)
    BY <1>8 DEF Counts, Touch, Ended
  <2> QED BY <1>6, <1>8, <2>1
<1>9. CASE \/ Touch /\ exec = "announcing" /\ AppendEvent("ITEM_STARTED", cur)
           \/ Touch /\ exec = "noting" /\ AppendEvent("ITEM_FINISHED", cur)
  <2>1. emitted = Len(log)
    BY <1>9 DEF Counts, Touch, AtWork, Dead
  <2> QED BY <1>6, <1>9, <2>1
<1>10. CASE Touch /\ exec = "finishing" /\ FinishRun
  <2>1. emitted = Len(log) /\ run.state = "RUNNING"
    BY <1>10 DEF Counts, Touch, AtWork, Dead
  <2>2. run'.state \in Ended
    BY <1>0, <1>10 DEF FinishRun, RowsOK, TypeInv, Prepared
  <2> QED BY <1>7, <1>10, <2>1, <2>2 DEF FinishRun
<1>11. CASE run.state = "RUNNING" /\ (EndRun("FAILED") \/ (EndRun("CANCELLED") /\ run.cancel = TRUE))
  <2>1. run'.state \in Ended
    BY <1>0, <1>11 DEF EndRun, RowsOK, Ended
  <2> QED BY <1>7, <1>11, <2>1 DEF EndRun
<1> QED BY <1>2, <1>4, <1>5, <1>8, <1>9, <1>10, <1>11 DEF RowStep

----------------------------------------------------------------------------
(* What the coordinator remembers is what is stored.                       *)

\* What is stored of an item is its answer, of work that was called and is not
\* awaited any more; the coordinator remembers exactly that.
Settled(w) ==
    /\ w \in active => calls[w] # 0 /\ items[w] = "none"
    /\ w \in batch => answer[w] # "none"
    /\ items[w] # "none" => calls[w] # 0 /\ items[w] = answer[w]
    /\ exec \notin Dead => (w \in outcomes <=> items[w] # "none")
    /\ exec = "noting" /\ cur = w => items[w] # "none"
    /\ Logged("ITEM_FINISHED", w) => items[w] # "none"

SettledInv == \A w \in Work : Settled(w)

\* The end of an item is announced by the coordinator that has stored it.
LEMMA FinishedBy ==
    ASSUME TypeInv, RowStep, NEW w \in Work, Logged("ITEM_FINISHED", w)'
    PROVE  Logged("ITEM_FINISHED", w) \/ (exec = "noting" /\ w = cur)
<1>0. TypeOK
  BY DEF TypeInv
<1>1. ASSUME NEW n, NEW type, NEW v, log' = Append(log, Event(n, type, v)),
             type # "ITEM_FINISHED" \/ (exec = "noting" /\ v = cur)
      PROVE  Logged("ITEM_FINISHED", w) \/ (exec = "noting" /\ w = cur)
  <2> DEFINE e == Event(n, type, v)
  <2>1. e.type = type /\ e.work = v
    BY DEF Event
  <2> HIDE DEF e
  <2>2. PICK i \in DOMAIN log' : log'[i].type = "ITEM_FINISHED" /\ log'[i].work = w
    BY DEF Logged
  <2>3. log' = Append(log, e)
    BY <1>1 DEF e
  <2>4. CASE i \in DOMAIN log
    <3>1. log'[i] = log[i]
      BY <1>0, <2>3, <2>4, Appended
    <3> QED BY <2>2, <2>4, <3>1 DEF Logged
  <2>5. CASE i = Len(log')
    <3>1. log'[i] = e
      BY <1>0, <2>3, <2>5, Appended
    <3> QED BY <1>1, <2>1, <2>2, <3>1
  <2> QED BY <1>0, <2>2, <2>3, <2>4, <2>5, Appended
<1>2. CASE log' = log
  BY <1>2 DEF Logged
<1>3. CASE log' # log
  BY <1>1, <1>3 DEF RowStep, AppendEvent, RecordItem, FinishRun, EndRun
<1> QED BY <1>2, <1>3

\* Steps that leave an item alone.
LEMMA SettledStays ==
    ASSUME NEW w \in Work, Settled(w), UNCHANGED << items, answer, outcomes, calls >>,
           (active' = active /\ batch' = batch) \/ (active' = {} /\ batch' = {}),
           exec \in Dead => exec' \in Dead,
           exec' = "noting" => exec = "noting" /\ cur' = cur,
           Logged("ITEM_FINISHED", w)' => items[w] # "none"
    PROVE  Settled(w)'
BY DEF Settled

\* Every step keeps them in agreement.
LEMMA SettledNext == ASSUME PaidInv, SettledInv, [Next]_vars PROVE SettledInv'
<1>0. /\ TypeInv /\ OneStart /\ InOrder /\ TypeOK /\ cur \in Work /\ batch \subseteq active
      /\ active \subseteq Work /\ \A w \in Work : Settled(w)
  BY DEF PaidInv, TypeInv, TypeOK, SettledInv
<1>1. RowStep
  BY <1>0, RowSteps
<1>2. \A w \in Work : Logged("ITEM_FINISHED", w)' => items[w] # "none"
  BY <1>0, <1>1, FinishedBy DEF Settled
<1> SUFFICES \A w \in Work : Settled(w)'
  BY DEF SettledInv
<1>3. ASSUME NEW r \in Requests, StartRun(r) PROVE \A w \in Work : Settled(w)'
  <2>1. UNCHANGED << items, answer, outcomes, calls, active, batch, cur >>
    BY <1>3 DEF StartRun, Find, Create, Schedule, FailUnscheduled, Store, EndRun, database, queue,
        provider, findings
  <2>2. exec' = exec \/ (exec = "idle" /\ exec' = "starting")
    BY <1>0, <1>3 DEF StartRun, Find, Create, Schedule, FailUnscheduled, At, OneStart
  <2> QED BY <1>0, <1>2, <2>1, <2>2, SettledStays DEF Dead
<1>4. CASE RequestCancel \/ Signal \/ Expire \/ Reap \/ UNCHANGED vars
  <2>1. UNCHANGED << items, answer, outcomes, calls, active, batch, cur, exec >>
    BY <1>4 DEF RequestCancel, Signal, Expire, Reap, EndRun, vars, database, queue, provider, findings
  <2> QED BY <1>0, <1>2, <2>1, SettledStays
<1>5. CASE Begin \/ Check \/ Take \/ Announce \/ Decide \/ Finish \/ Drain \/ Fail \/ Crash
  <2>1. UNCHANGED << items, answer, outcomes, calls >>
    BY <1>5 DEF Begin, Check, Take, Announce, Decide, Finish, Drain, Fail, Crash, Store, EndRun,
        AppendEvent, FinishRun, database, queue, provider, findings
  <2>2. (active' = active /\ batch' = batch) \/ (active' = {} /\ batch' = {})
    BY <1>5 DEF Begin, Check, Take, Announce, Decide, Finish, Drain, Fail, Crash, queue
  <2>3. (exec \in Dead => exec' \in Dead) /\ exec' # "noting"
    BY <1>5 DEF Begin, Check, Take, Announce, Decide, Finish, Drain, Fail, Crash, Store, Dead, Waiting
  <2> QED BY <1>0, <1>2, <2>1, <2>2, <2>3, SettledStays
<1>6. CASE Note
  <2>1. UNCHANGED << items, answer, outcomes, calls, active, batch >> /\ exec = "noting"
        /\ exec' # "noting"
    BY <1>6 DEF Note, Store, AppendEvent, database, queue, provider
  <2> QED BY <1>0, <1>2, <2>1, SettledStays DEF Dead
<1>7. CASE Call
  <2>1. /\ exec = "calling" /\ exec' = "filling" /\ active' = active \cup {cur} /\ batch' = batch
        /\ calls' = [calls EXCEPT ![cur] = @ + 1]
        /\ UNCHANGED << items, answer, outcomes, log >>
    BY <1>7 DEF Call, database, findings
  <2>2. calls \in [Work -> Nat] /\ calls[cur] = 0
    BY <1>0, <2>1 DEF TypeOK, InOrder
  <2>3. calls'[cur] # 0 /\ \A w \in Work : calls[w] # 0 => calls'[w] # 0
    BY <1>0, <2>1, <2>2
  <2> QED BY <1>0, <2>1, <2>2, <2>3 DEF Settled, Dead, Logged
<1>8. CASE Wait
  <2>1. /\ batch' = Answered /\ exec' = "recording" /\ exec \notin Dead
        /\ UNCHANGED << items, answer, outcomes, calls, active, log >>
    BY <1>8 DEF Wait, Waiting, Dead, database, findings, provider
  <2> QED BY <1>0, <2>1 DEF Settled, Answered, Logged, Dead
<1>9. ASSUME NEW v \in Work, Answer(v) PROVE \A w \in Work : Settled(w)'
  <2>1. /\ v \in active /\ UNCHANGED << items, outcomes, calls, active, batch, log, exec, cur >>
        /\ \E a \in Answers : answer' = [answer EXCEPT ![v] = a]
    BY <1>9 DEF Answer, database, queue, findings
  <2>2. answer \in [Work -> Answers \cup {"none"}]
    BY <1>0 DEF TypeOK
  <2>3. answer'[v] # "none" /\ \A w \in Work : w # v => answer'[w] = answer[w]
    BY <2>1, <2>2 DEF Answers
  <2>4. \A w \in Work : Logged("ITEM_FINISHED", w)' => Logged("ITEM_FINISHED", w)
    BY <2>1 DEF Logged
  <2> QED BY <1>0, <2>1, <2>3, <2>4 DEF Settled
<1>10. ASSUME NEW v \in Work, Record(v) PROVE \A w \in Work : Settled(w)'
  <2>1. /\ exec = "recording" /\ v \in batch /\ cur' = v /\ batch' = batch \ {v}
        /\ active' = active \ {v} /\ outcomes' = outcomes \cup {v}
        /\ UNCHANGED << answer, calls, log >>
        /\ \/ exec' = "noting" /\ items' = [items EXCEPT ![v] = answer[v]]
           \/ exec' = "draining" /\ (items' = items \/ items' = [items EXCEPT ![v] = answer[v]])
    BY <1>10 DEF Record, Store, RecordItem, database, provider
  <2>2. items \in [Work -> Answers \cup {"none"}] /\ v \in active /\ answer[v] # "none" /\ calls[v] # 0
    BY <1>0, <2>1 DEF TypeOK, Settled
  <2>3. \A w \in Work : Logged("ITEM_FINISHED", w)' => Logged("ITEM_FINISHED", w)
    BY <2>1 DEF Logged
  <2>4. ASSUME NEW w \in Work PROVE Settled(w)'
    <3>1. CASE exec' = "noting" /\ items' = [items EXCEPT ![v] = answer[v]]
      BY <1>0, <2>1, <2>2, <2>3, <3>1 DEF Settled, Dead
    <3>2. CASE exec' = "draining" /\ (items' = items \/ items' = [items EXCEPT ![v] = answer[v]])
      BY <1>0, <2>1, <2>2, <2>3, <3>2 DEF Settled, Dead
    <3> QED BY <2>1, <3>1, <3>2
  <2> QED BY <2>4
<1> QED BY <1>3, <1>4, <1>5, <1>6, <1>7, <1>8, <1>9, <1>10 DEF Next, Coordinate

----------------------------------------------------------------------------
(* Why a run ends as it does.                                              *)

\* A fatal answer, a cancellation and a decision have their reasons in the rows.
Reasons ==
    /\ fatal => \E w \in Work : items[w] = "fatal"
    /\ signal \/ canceller = "signalling" => Off
    /\ exec = "finishing" =>
          /\ verdict = "COMPLETED" => Good = Work
          /\ verdict = "PARTIAL" => Good \notin {{}, Work}
          /\ verdict = "CANCELLED" => Off

\* Steps that add no reason, nor decide.
LEMMA ReasonsStay ==
    ASSUME Reasons, Off => Off', items' = items, fatal' = fatal,
           signal' \/ canceller' = "signalling" => Off',
           exec' = "finishing" => exec = "finishing" /\ verdict' = verdict
    PROVE  Reasons'
BY DEF Reasons, Good

\* Every step keeps the reasons.
LEMMA ReasonsNext == ASSUME PaidInv, SettledInv, Reasons, [Next]_vars PROVE Reasons'
<1>0. /\ TypeInv /\ OneStart /\ TypeOK /\ cur \in Work /\ batch \subseteq active
      /\ active \subseteq Work /\ outcomes \subseteq Work /\ (Off => Off')
      /\ \A w \in Work : Settled(w)
      /\ signal \in BOOLEAN /\ fatal \in BOOLEAN
      /\ run.state \in Ended \cup {"none", "RUNNING"}
  BY OffStays DEF PaidInv, TypeInv, TypeOK, SettledInv
<1>1. ASSUME NEW r \in Requests, StartRun(r) PROVE Reasons'
  <2>1. UNCHANGED << items, fatal, signal, canceller, verdict >>
    BY <1>1 DEF StartRun, Find, Create, Schedule, FailUnscheduled, Store, EndRun, database, findings
  <2>2. exec' = "finishing" => exec = "finishing"
    BY <1>1 DEF StartRun, Find, Create, Schedule, FailUnscheduled
  <2> QED BY <1>0, <2>1, <2>2, ReasonsStay DEF Reasons
<1>2. CASE RequestCancel
  <2>1. UNCHANGED << items, fatal, signal, exec, verdict >>
    BY <1>2 DEF RequestCancel, findings
  <2>2. Off'
    <3>1. CASE run.state = "RUNNING"
      <4>1. run'.cancel = TRUE
        BY <1>0, <1>2, <3>1, TypeParts DEF RequestCancel, RowsOK
      <4> QED BY <4>1 DEF Off
    <3>2. CASE run.state # "RUNNING"
      BY <1>0, <1>2, <3>2 DEF RequestCancel, Off
    <3> QED BY <3>1, <3>2
  <2> QED BY <1>0, <2>1, <2>2, ReasonsStay
<1>3. CASE Signal
  <2>1. UNCHANGED << items, fatal, exec, verdict >> /\ canceller = "signalling"
    BY <1>3 DEF Signal, database, findings
  <2> QED BY <1>0, <2>1, ReasonsStay DEF Reasons
<1>4. CASE Expire \/ Reap \/ (\E w \in Work : Answer(w)) \/ UNCHANGED vars
  <2>1. UNCHANGED << items, fatal, signal, canceller, exec, verdict >>
    BY <1>4 DEF Expire, Reap, EndRun, Answer, vars, database, service, findings
  <2> QED BY <1>0, <2>1, ReasonsStay DEF Reasons
<1>5. CASE \/ Begin \/ Take \/ Announce \/ Call \/ Wait \/ Finish \/ Drain \/ Fail \/ Crash
  <2>1. UNCHANGED << items, fatal, signal, canceller, verdict >>
    BY <1>5 DEF Begin, Take, Announce, Call, Wait, Finish, Drain, Fail, Crash, Store, EndRun,
        AppendEvent, FinishRun, database, service, findings
  <2>2. exec' # "finishing"
    BY <1>5 DEF Begin, Take, Announce, Call, Wait, Finish, Drain, Fail, Crash, Store
  <2> QED BY <1>0, <2>1, <2>2, ReasonsStay DEF Reasons
<1>6. CASE Check
  <2>1. UNCHANGED << items, fatal, canceller >> /\ exec' # "finishing"
    BY <1>6 DEF Check, Store, database, service, findings
  <2>2. signal' => Off'
    <3>1. CASE signal
      BY <1>0, <3>1 DEF Reasons
    <3>2. CASE ~signal /\ signal'
      <4>1. run.cancel
        BY <1>6, <3>2 DEF Check, Store
      <4> QED BY <1>0, <4>1 DEF Off
    <3> QED BY <3>1, <3>2
  <2> QED BY <1>0, <2>1, <2>2, ReasonsStay DEF Reasons
<1>7. CASE Note
  <2>1. UNCHANGED << items, signal, canceller >> /\ exec' # "finishing" /\ exec = "noting"
        /\ (fatal' = fatal \/ fatal' = (fatal \/ answer[cur] = "fatal"))
    BY <1>7 DEF Note, Store, AppendEvent, database, service
  <2>2. items[cur] = answer[cur]
    BY <1>0, <2>1 DEF Settled
  <2>3. fatal' => \E w \in Work : items[w] = "fatal"
    BY <1>0, <2>1, <2>2 DEF Reasons
  <2> QED BY <1>0, <2>1, <2>3 DEF Reasons
<1>8. ASSUME NEW v \in Work, Record(v) PROVE Reasons'
  <2>1. /\ UNCHANGED << fatal, signal, canceller >> /\ exec' # "finishing" /\ v \in batch
        /\ (items' = items \/ items' = [items EXCEPT ![v] = answer[v]])
    BY <1>8 DEF Record, Store, RecordItem, database, service
  <2>2. items[v] = "none"
    BY <1>0, <2>1 DEF Settled
  <2>3. items \in [Work -> Answers \cup {"none"}]
    BY <1>0 DEF TypeOK
  <2>4. \A w \in Work : items[w] = "fatal" => items'[w] = "fatal"
    BY <2>1, <2>2, <2>3
  <2> QED BY <1>0, <2>1, <2>4 DEF Reasons
<1>9. CASE Decide
  <2>1. /\ UNCHANGED << items, fatal, signal, canceller, run >> /\ exec \notin Dead
        /\ verdict' = Decision
    BY <1>9 DEF Decide, Waiting, Dead, database, service
  <2> DEFINE good == {w \in outcomes : answer[w] = "ok"}
  <2>2. good = Good
    <3>1. \A w \in Work : items[w] = "ok" => w \in outcomes /\ answer[w] = "ok"
      BY <1>0, <2>1 DEF Settled
    <3>2. \A w \in outcomes : items[w] = answer[w]
      BY <1>0, <2>1 DEF Settled
    <3> QED BY <1>0, <3>1, <3>2 DEF Good
  <2>3. /\ Decision = "COMPLETED" => good = Work
        /\ Decision = "PARTIAL" => good # {} /\ good # Work
        /\ Decision = "CANCELLED" => signal
    <3> HIDE DEF good
    <3>1. Decision = CASE fatal -> "FAILED"
                       [] signal /\ ~fatal -> "CANCELLED"
                       [] ~signal /\ ~fatal /\ good = Work -> "COMPLETED"
                       [] OTHER -> IF good # {} THEN "PARTIAL" ELSE "FAILED"
      BY DEF Decision, good
    <3> QED BY <1>0, <3>1
  <2> HIDE DEF good
  <2>4. Good' = Good
    BY <2>1 DEF Good
  <2> QED BY <1>0, <2>1, <2>2, <2>3, <2>4 DEF Reasons
<1> QED BY <1>1, <1>2, <1>3, <1>4, <1>5, <1>6, <1>7, <1>8, <1>9 DEF Next, Coordinate

----------------------------------------------------------------------------
(* The models.                                                             *)

\* A model's counter counts its items, and the models end with the run.
ModelAgrees(m) ==
    /\ models[m].done = Cardinality(Stored(m))
    /\ models[m].state \notin {"PENDING", "RUNNING"} <=> run.state \in Ended

ModelsInv == \A m \in Models : ModelAgrees(m)

\* A model has as much work as the sample has items.
LEMMA ShareOfModel ==
    ASSUME NEW m \in Models, NEW W \in SUBSET {w \in Work : ModelOf(w) = m}
    PROVE  IsFiniteSet(W) /\ Cardinality(W) \in Nat /\ Cardinality(W) <= SampleCount
<1> DEFINE lo == (m - 1) * SampleCount + 1
           hi == m * SampleCount
<1>1. SampleCount \in Nat /\ SampleCount >= 1 /\ m \in Nat /\ m >= 1
  BY EvaluationAssumption DEF Models
<1>2. lo \in Int /\ hi \in Int /\ hi - lo + 1 = SampleCount
  BY <1>1
<1>3. ASSUME NEW w \in W PROVE w \in lo..hi
  <2>1. w \in Nat /\ w >= 1 /\ (w - 1) \div SampleCount = m - 1
    BY <1>1, WorkIsFinite DEF Work, ModelOf, LastWork
  <2>2. (m - 1) * SampleCount <= w - 1 /\ w - 1 < (m - 1) * SampleCount + SampleCount
    BY <1>1, <2>1
  <2>3. (m - 1) * SampleCount + SampleCount = m * SampleCount
    BY <1>1
  <2> QED BY <1>1, <1>2, <2>1, <2>2, <2>3
<1> HIDE DEF lo, hi
<1>4. IsFiniteSet(lo..hi) /\ Cardinality(lo..hi) <= SampleCount
  BY <1>1, <1>2, FS_Interval
<1>5. IsFiniteSet(W) /\ Cardinality(W) <= Cardinality(lo..hi)
  BY <1>3, <1>4, FS_Subset
<1>6. Cardinality(W) \in Nat /\ Cardinality(lo..hi) \in Nat
  BY <1>4, <1>5, FS_CardinalityType
<1> QED BY <1>1, <1>4, <1>5, <1>6

\* finish_run ends every model.
LEMMA FinishEnds == ASSUME NEW m PROVE ModelVerdict(m) \in Ended \cup {"SKIPPED"}
BY DEF ModelVerdict, Ended

\* Every step keeps the models in agreement.
LEMMA ModelsNext == ASSUME PaidInv, SettledInv, ModelsInv, [Next]_vars PROVE ModelsInv'
<1>0. /\ TypeInv /\ TypeOK /\ RowsOK /\ verdict \in Ended \cup {"none"} /\ cur \in Work
      /\ batch \subseteq active /\ active \subseteq Work /\ \A w \in Work : Settled(w)
      /\ \A m \in Models : ModelAgrees(m)
  BY TypeParts DEF PaidInv, TypeInv, TypeOK, SettledInv, ModelsInv
<1>1. RowStep
  BY <1>0, RowSteps
<1> SUFFICES ASSUME NEW m \in Models PROVE ModelAgrees(m)'
  BY DEF ModelsInv
<1>2. models[m] \in [state : Ended \cup {"PENDING", "RUNNING", "SKIPPED"}, done : Nat]
  BY <1>0 DEF RowsOK
<1>3. ASSUME items' = items PROVE Stored(m)' = Stored(m)
  BY <1>3 DEF Stored
<1>4. CASE UNCHANGED << models, items, log >>
           /\ (run'.state = run.state \/ (run.state = "none" /\ run'.state = "RUNNING"))
  BY <1>0, <1>3, <1>4 DEF ModelAgrees, Ended
<1>5. ASSUME NEW type, NEW w, AppendEvent(type, w) PROVE ModelAgrees(m)'
  <2>1. items' = items /\ run' = run
    BY <1>5 DEF AppendEvent
  <2>2. models'[m].done = models[m].done
    BY <1>0, <1>2, <1>5 DEF AppendEvent, RowsOK
  <2>3. models'[m].state \notin {"PENDING", "RUNNING"} <=> models[m].state \notin {"PENDING", "RUNNING"}
    BY <1>0, <1>2, <1>5 DEF AppendEvent, RowsOK
  <2> QED BY <1>0, <1>3, <2>1, <2>2, <2>3 DEF ModelAgrees
<1>6. ASSUME NEW w \in batch, RecordItem(w) PROVE ModelAgrees(m)'
  <2>1. w \in Work /\ items[w] = "none" /\ answer[w] # "none" /\ w \in batch
    BY <1>0, <1>6 DEF Settled
  <2>2. items' = [items EXCEPT ![w] = answer[w]] /\ run' = run
        /\ models' = [models EXCEPT ![ModelOf(w)].done = @ + 1]
    BY <1>6 DEF RecordItem
  <2>3. models'[m].state = models[m].state
        /\ models'[m].done = IF ModelOf(w) = m THEN models[m].done + 1 ELSE models[m].done
    BY <1>0, <1>2, <2>2 DEF RowsOK
  <2>4. Stored(m)' = IF ModelOf(w) = m THEN Stored(m) \cup {w} ELSE Stored(m)
    BY <1>0, <2>1, <2>2 DEF RowsOK, Stored, ModelOf
  <2>5. IsFiniteSet(Stored(m)) /\ w \notin Stored(m)
    BY <2>1, ShareOfModel DEF Stored
  <2>6. Cardinality(Stored(m) \cup {w}) = Cardinality(Stored(m)) + 1
    BY <2>5, FS_AddElement
  <2> QED BY <1>0, <2>2, <2>3, <2>4, <2>6 DEF ModelAgrees
<1>7. ASSUME FinishRun, exec = "finishing" PROVE ModelAgrees(m)'
  <2>1. items' = items /\ run'.state \in Ended
    BY <1>0, <1>7 DEF FinishRun, RowsOK, TypeInv, Prepared
  <2>2. models'[m].done = models[m].done /\ models'[m].state \notin {"PENDING", "RUNNING"}
    BY <1>0, <1>2, <1>7, FinishEnds DEF FinishRun, RowsOK, Ended
  <2> QED BY <1>0, <1>3, <2>1, <2>2 DEF ModelAgrees
<1>8. ASSUME NEW s \in {"FAILED", "CANCELLED"}, EndRun(s) PROVE ModelAgrees(m)'
  <2>1. items' = items /\ run'.state \in Ended
    BY <1>0, <1>8 DEF EndRun, RowsOK, Ended
  <2>2. models'[m].done = models[m].done /\ models'[m].state \notin {"PENDING", "RUNNING"}
    BY <1>0, <1>2, <1>8 DEF EndRun, RowsOK, Ended
  <2> QED BY <1>0, <1>3, <2>1, <2>2 DEF ModelAgrees
<1> QED BY <1>1, <1>4, <1>5, <1>6, <1>7, <1>8 DEF RowStep

----------------------------------------------------------------------------
(* The theorems.                                                           *)

StoryInv == PaidInv /\ LogInv /\ SettledInv /\ Reasons /\ ModelsInv

\* The counters, the log and the items agree.
LEMMA StoryAgrees == StoryInv => EvidenceAgrees
<1> SUFFICES ASSUME StoryInv PROVE EvidenceAgrees
  OBVIOUS
<1>1. \A i \in DOMAIN log : log[i].n = i /\ (log[i].type = "FINISHED" => i = Len(log))
  BY DEF StoryInv, LogInv, Numbered
<1>2. run.state \in Ended <=> Logged("FINISHED", 1)
  BY DEF StoryInv, LogInv, EndIsLogged
<1>3. \A m \in Models :
        /\ models[m].done = Cardinality(Stored(m))
        /\ models[m].state \notin {"PENDING", "RUNNING"} <=> run.state \in Ended
  BY DEF StoryInv, ModelsInv, ModelAgrees
<1>4. ASSUME NEW w \in Work
      PROVE  /\ Logged("ITEM_FINISHED", w) => items[w] # "none"
             /\ items[w] # "none" => Logged("ITEM_STARTED", w)
  <2>1. Settled(w) /\ calls[w] \in Nat /\ calls[w] <= 1 /\ (calls[w] = 1 => Logged("ITEM_STARTED", w))
    BY DEF StoryInv, SettledInv, PaidInv, PaidOnce, TypeInv, TypeOK
  <2>2. items[w] # "none" => calls[w] = 1
    BY <2>1 DEF Settled
  <2> QED BY <2>1, <2>2 DEF Settled
<1> QED BY <1>1, <1>2, <1>3, <1>4 DEF EvidenceAgrees

\* What finish_run says of a model is what is stored of it.
LEMMA VerdictOfModel ==
    ASSUME StoryInv, exec = "finishing", run.state = "RUNNING", NEW m \in Models
    PROVE  /\ ModelVerdict(m) = "COMPLETED" => Stored(m) \subseteq Good
                                               /\ Cardinality(Stored(m)) = SampleCount
           /\ ModelVerdict(m) = "PARTIAL" => Stored(m) # {}
           /\ ModelVerdict(m) = "CANCELLED" => Stored(m) = {} /\ run.cancel
           /\ ModelVerdict(m) = "SKIPPED" => Stored(m) = {} /\ \E w \in Work : items[w] = "fatal"
<1> DEFINE mine == {w \in outcomes : ModelOf(w) = m}
           good == {w \in mine : answer[w] = "ok"}
<1>1. outcomes \subseteq Work /\ \A w \in Work : (w \in outcomes <=> items[w] # "none")
                                  /\ (items[w] # "none" => items[w] = answer[w])
  BY DEF StoryInv, SettledInv, Settled, PaidInv, TypeInv, TypeOK, Dead
<1>2. mine = Stored(m)
  BY <1>1 DEF Stored
<1>3. good \subseteq Good
  BY <1>1 DEF Good
<1>4. good \in SUBSET mine /\ mine \in SUBSET {w \in Work : ModelOf(w) = m}
  BY <1>1
<1>5. ModelVerdict(m) =
        CASE m \in stopped -> "FAILED"
          [] m \notin stopped /\ Cardinality(good) = SampleCount -> "COMPLETED"
          [] m \notin stopped /\ mine # {} /\ Cardinality(good) < SampleCount -> "PARTIAL"
          [] OTHER -> IF verdict = "CANCELLED" THEN "CANCELLED"
                      ELSE IF fatal THEN "SKIPPED" ELSE "FAILED"
  BY DEF ModelVerdict
<1> HIDE DEF mine, good
<1>6. /\ IsFiniteSet(mine) /\ Cardinality(mine) \in Nat /\ Cardinality(mine) <= SampleCount
      /\ IsFiniteSet(good) /\ Cardinality(good) \in Nat /\ Cardinality(good) <= SampleCount
  <2>1. good \in SUBSET {w \in Work : ModelOf(w) = m}
    BY <1>4
  <2> QED BY <1>4, <2>1, ShareOfModel
<1>7. SampleCount \in Nat /\ (fatal => \E w \in Work : items[w] = "fatal")
      /\ (verdict = "CANCELLED" => run.cancel)
  BY EvaluationAssumption DEF StoryInv, Reasons, Off, Ended
<1>8. Cardinality(good) = SampleCount => good = mine
  <2>1. ASSUME Cardinality(good) = SampleCount PROVE good = mine
    <3>1. Cardinality(good) <= Cardinality(mine)
      BY <1>4, <1>6, FS_Subset
    <3>2. Cardinality(mine) = Cardinality(good)
      BY <1>6, <1>7, <2>1, <3>1
    <3> QED BY <1>4, <1>6, <3>2, FS_Subset
  <2> QED BY <2>1
<1>9. Cardinality(good) = SampleCount \/ Cardinality(good) < SampleCount
  BY <1>6, <1>7
<1>10. /\ ModelVerdict(m) = "COMPLETED" => Cardinality(good) = SampleCount
       /\ ModelVerdict(m) = "PARTIAL" => mine # {}
  BY <1>5
<1>11. /\ ModelVerdict(m) = "CANCELLED" => verdict = "CANCELLED" /\ mine = {}
       /\ ModelVerdict(m) = "SKIPPED" => fatal /\ mine = {}
  BY <1>5, <1>9
<1> QED BY <1>2, <1>3, <1>7, <1>8, <1>10, <1>11

\* What a run says of itself stays true.
LEMMA HonestNext ==
    ASSUME StoryInv, VerdictsAreHonest, [Next]_vars, StoryInv'
    PROVE  VerdictsAreHonest'
<1>0. /\ TypeInv /\ TypeOK /\ RowsOK /\ \A m \in Models : ModelAgrees(m) /\ ModelAgrees(m)'
      /\ ModelCount \in Nat
  BY TypeParts, EvaluationAssumption DEF StoryInv, PaidInv, TypeInv, ModelsInv
<1>1. CASE run.state \in Ended
  <2>1. UNCHANGED << models, items >> /\ run'.state = run.state /\ (run.cancel => run'.cancel)
    BY <1>0, <1>1, EndedKept, CancelStays DEF Kept
  <2>2. Good' = Good /\ \A m : Stored(m)' = Stored(m)
    BY <2>1 DEF Good, Stored
  <2> QED BY <2>1, <2>2 DEF VerdictsAreHonest
<1>2. CASE run.state \notin Ended /\ run'.state \notin Ended
  <2>1. \A m \in Models : models'[m].state \in {"PENDING", "RUNNING"}
    BY <1>0, <1>2 DEF ModelAgrees
  <2> QED BY <1>2, <2>1 DEF VerdictsAreHonest, Ended
<1>3. CASE run.state \notin Ended /\ run'.state \in Ended
  <2>1. RowStep
    BY <1>0, RowSteps
  <2>2. CASE Touch /\ exec = "finishing" /\ FinishRun
    <3>1. /\ items' = items /\ run.state = "RUNNING" /\ run'.state = verdict /\ run'.cancel = run.cancel
          /\ \A m \in Models : models'[m] = [models[m] EXCEPT !.state = ModelVerdict(m)]
      BY <1>0, <2>2 DEF FinishRun, RowsOK, Touch
    <3>2. ASSUME NEW m \in Models
          PROVE  models'[m].state = ModelVerdict(m) /\ models'[m].done = models[m].done
      <4>1. models[m] \in [state : Ended \cup {"PENDING", "RUNNING", "SKIPPED"}, done : Nat]
        BY <1>0 DEF RowsOK
      <4> QED BY <3>1, <4>1
    <3>3. Good' = Good /\ \A m : Stored(m)' = Stored(m)
      BY <3>1 DEF Good, Stored
    <3>4. /\ verdict = "COMPLETED" => Good = Work
          /\ verdict = "PARTIAL" => Good \notin {{}, Work}
          /\ verdict = "CANCELLED" => run.cancel
      BY <2>2, <3>1 DEF StoryInv, Reasons, Off, Ended
    <3>5. ASSUME NEW m \in Models
          PROVE  /\ models'[m].state = "COMPLETED" => Stored(m) \subseteq Good
                                                      /\ models'[m].done = SampleCount
                 /\ models'[m].state = "PARTIAL" => Stored(m) # {}
                 /\ models'[m].state = "CANCELLED" => Stored(m) = {} /\ run.cancel
                 /\ models'[m].state = "SKIPPED" => Stored(m) = {} /\ \E w \in Work : items[w] = "fatal"
      BY <1>0, <2>2, <3>1, <3>2, VerdictOfModel DEF ModelAgrees
    <3> QED BY <3>1, <3>3, <3>4, <3>5 DEF VerdictsAreHonest
  <2>3. ASSUME NEW s \in {"FAILED", "CANCELLED"}, run.state = "RUNNING", EndRun(s),
               s = "CANCELLED" => run.cancel
        PROVE  VerdictsAreHonest'
    <3>1. items' = items /\ run'.state = s /\ run'.cancel = run.cancel
      BY <1>0, <2>3 DEF EndRun, RowsOK
    <3>2. \A m \in Models : models[m].state \in {"PENDING", "RUNNING"}
      BY <1>0, <2>3 DEF ModelAgrees, Ended
    <3>3. \A m \in Models : models'[m].state = IF models[m].done > 0 THEN "PARTIAL" ELSE s
      BY <1>0, <2>3, <3>2 DEF EndRun, RowsOK
    <3>4. Good' = Good /\ \A m : Stored(m)' = Stored(m)
      BY <3>1 DEF Good, Stored
    <3>5. ASSUME NEW m \in Models
          PROVE  Stored(m) = {} <=> ~(models[m].done > 0)
      <4>1. models[m].done = Cardinality(Stored(m)) /\ models[m].done \in Nat
        BY <1>0 DEF ModelAgrees, RowsOK
      <4>2. IsFiniteSet(Stored(m))
        BY ShareOfModel DEF Stored
      <4> QED BY <4>1, <4>2, FS_EmptySet
    <3> QED BY <2>3, <3>1, <3>3, <3>4, <3>5 DEF VerdictsAreHonest
  <2>4. run'.state # run.state /\ run'.state # "RUNNING"
    BY <1>3 DEF Ended
  <2>5. \A type, w : ~AppendEvent(type, w) /\ ~RecordItem(w)
    BY <2>4 DEF AppendEvent, RecordItem
  <2> QED BY <2>1, <2>2, <2>3, <2>4, <2>5 DEF RowStep
<1> QED BY <1>1, <1>2, <1>3

\* The whole invariant.
LEMMA Story == Spec => [](StoryInv /\ VerdictsAreHonest)
<1>1. Init => StoryInv /\ VerdictsAreHonest
  <2> SUFFICES ASSUME Init PROVE StoryInv /\ VerdictsAreHonest
    OBVIOUS
  <2>1. OneStart /\ InOrder /\ PaidOnce
    BY DEF Init, OneStart, Held, InOrder, PaidOnce
  <2>2. LogInv
    BY DEF Init, LogInv, Numbered, EndIsLogged, Counts, Logged, AtWork, Dead, Ended
  <2>3. SettledInv /\ Reasons
    BY DEF Init, SettledInv, Settled, Reasons, Logged
  <2>4. \A m \in Models : Stored(m) = {}
    BY DEF Init, Stored
  <2>5. ModelsInv
    BY <2>4, FS_EmptySet DEF Init, ModelsInv, ModelAgrees, Ended
  <2>6. VerdictsAreHonest
    BY DEF Init, VerdictsAreHonest
  <2> QED BY <2>1, <2>2, <2>3, <2>5, <2>6, TypeInit DEF StoryInv, PaidInv
<1>2. StoryInv /\ [Next]_vars => StoryInv'
  BY PaidNext, LogNext, SettledNext, ReasonsNext, ModelsNext DEF StoryInv, PaidInv
<1>3. StoryInv /\ VerdictsAreHonest /\ [Next]_vars => StoryInv' /\ VerdictsAreHonest'
  BY <1>2, HonestNext
<1> QED BY <1>1, <1>3, PTL DEF Spec

\* The four tables tell one story, whichever of the three writers ends the run,
\* and whatever call is lost, refused or repeated on the way.
THEOREM TablesAgree == Spec => []EvidenceAgrees
BY Story, StoryAgrees, PTL

\* A run, and each of its models, is COMPLETED, PARTIAL, CANCELLED or SKIPPED for
\* what is stored, although the coordinator decides from its memory.
THEOREM VerdictsAreEarned == Spec => []VerdictsAreHonest
BY Story, PTL
----------------------------------------------------------------------------
(* Nothing is skipped.                                                     *)

\* A run that says it came to its end has been through all its work: what is not
\* stored belongs to a model whose refusal is (the coordinator's loop: all that it
\* takes up is called or left out for that reason, and it ends when nothing is left).
NothingIsSkipped ==
    run.state \in {"COMPLETED", "PARTIAL"} =>
        \A w \in Work : \/ items[w] # "none"
                        \/ \E v \in Work : ModelOf(v) = ModelOf(w) /\ items[v] = "refused"

\* Where the work is that the coordinator has come past.
Handled(w) ==
    w < next => \/ w \in outcomes \/ w \in active \/ ModelOf(w) \in stopped
                \/ w = cur /\ exec \in {"announcing", "calling"}

StopsHaveReasons ==
    \A m \in stopped : \E v \in Work : ModelOf(v) = m /\ items[v] \in {"refused", "fatal"}

ThroughInv ==
    /\ exec \notin Dead => \A w \in Work : Handled(w)
    /\ exec = "waiting" => signal = TRUE \/ fatal = TRUE
    /\ exec = "finishing" /\ verdict \in {"COMPLETED", "PARTIAL"} =>
           next \notin Work /\ active = {} /\ fatal = FALSE
    /\ StopsHaveReasons

\* What is stored of an item stays.
LEMMA ItemsStay ==
    ASSUME StoryInv, [Next]_vars
    PROVE  \A v \in Work : items[v] # "none" => items'[v] = items[v]
<1>1. TypeInv /\ items \in [Work -> Answers \cup {"none"}] /\ batch \subseteq active
  BY DEF StoryInv, PaidInv, TypeInv, TypeOK
<1>2. \A w \in active : items[w] = "none"
  BY DEF StoryInv, SettledInv, Settled, PaidInv, TypeInv, TypeOK
<1>3. RowStep
  BY <1>1, RowSteps
<1>4. items' = items \/ \E w \in batch : items' = [items EXCEPT ![w] = answer[w]]
  BY <1>3 DEF RowStep, AppendEvent, RecordItem, FinishRun, EndRun
<1> QED BY <1>1, <1>2, <1>4

\* Steps that take nothing up and let nothing go.
LEMMA ThroughStays ==
    ASSUME ThroughInv, StopsHaveReasons', UNCHANGED << next, cur, active, outcomes, stopped >>,
           \/ exec' \in Dead
           \/ exec' \notin {"waiting", "finishing"} /\ exec \notin Dead
              /\ (exec \in {"announcing", "calling"} => exec' \in {"announcing", "calling"})
           \/ exec' = exec /\ UNCHANGED << verdict, fatal >> /\ (signal = TRUE => signal' = TRUE)
    PROVE  ThroughInv'
BY DEF ThroughInv, Handled, Dead

\* The coordinator lets no work go but for a reason.
LEMMA ThroughNext == ASSUME StoryInv, ThroughInv, [Next]_vars PROVE ThroughInv'
<1>a. /\ TypeInv /\ TypeOK /\ cur \in Work /\ next \in Work \cup {LastWork + 1}
      /\ \A w \in Work : Settled(w)
      /\ signal \in BOOLEAN /\ fatal \in BOOLEAN
  BY DEF StoryInv, SettledInv, PaidInv, TypeInv, TypeOK, LastWork
<1>b. Work \subseteq Nat /\ LastWork \in Nat
  BY WorkIsFinite DEF Work
<1>0. /\ TypeInv /\ TypeOK /\ cur \in Work /\ next \in Nat /\ Work \subseteq Nat
      /\ \A w \in Work : Settled(w)
      /\ signal \in BOOLEAN /\ fatal \in BOOLEAN
  BY <1>a, <1>b
<1>1. stopped' = stopped => StopsHaveReasons'
  <2>1. \A v \in Work : items[v] \in {"refused", "fatal"} => items'[v] = items[v]
    BY ItemsStay
  <2> QED BY <2>1 DEF ThroughInv, StopsHaveReasons
<1>2. ASSUME NEW r \in Requests, StartRun(r) PROVE ThroughInv'
  <2>1. UNCHANGED << next, cur, active, outcomes, stopped, verdict, fatal, signal >>
    BY <1>2 DEF StartRun, Find, Create, Schedule, FailUnscheduled, queue, findings
  <2>2. exec' = exec \/ (exec = "idle" /\ exec' = "starting")
    BY <1>2 DEF StartRun, Find, Create, Schedule, FailUnscheduled, At, StoryInv, PaidInv, OneStart
  <2> QED BY <1>1, <2>1, <2>2, ThroughStays DEF Dead
<1>3. CASE RequestCancel \/ Signal \/ Expire \/ Reap \/ (\E w \in Work : Answer(w)) \/ UNCHANGED vars
  <2>1. UNCHANGED << next, cur, active, outcomes, stopped, verdict, fatal, exec >>
    BY <1>3 DEF RequestCancel, Signal, Expire, Reap, Answer, vars, queue, findings
  <2>2. signal = TRUE => signal' = TRUE
    BY <1>3 DEF RequestCancel, Signal, Expire, Reap, Answer, vars
  <2> QED BY <1>1, <2>1, <2>2, ThroughStays
<1>4. CASE Begin
  <2>1. /\ next' = 1 /\ exec' \in {"filling", "draining"} /\ stopped' = stopped
    BY <1>4 DEF Begin, Store, findings
  <2>2. \A w \in Work : ~(w < 1)
    BY DEF Work
  <2> QED BY <1>1, <2>1, <2>2 DEF ThroughInv, Handled
<1>5. CASE Check \/ Announce \/ Wait
  <2>1. UNCHANGED << next, cur, active, outcomes, stopped >>
    BY <1>5 DEF Check, Announce, Wait, queue, findings
  <2>2. /\ exec \notin Dead /\ exec' \in Dead \cup {"checked", "calling", "recording"}
        /\ (exec \in {"announcing", "calling"} => exec' \in Dead \cup {"announcing", "calling"})
    BY <1>5 DEF Check, Announce, Wait, Waiting, Store, Dead
  <2> QED BY <1>1, <2>1, <2>2, ThroughStays
<1>6. CASE Take
  <2>1. /\ exec = "checked" /\ UNCHANGED << active, outcomes, stopped >>
        /\ \/ exec' = "waiting" /\ UNCHANGED << next, cur, signal, fatal >> /\ (signal \/ fatal)
           \/ /\ next' = next + 1 /\ cur' = next
              /\ \/ exec' = "filling" /\ ModelOf(next) \in stopped
                 \/ exec' = "announcing"
    BY <1>6 DEF Take, findings
  <2>2. CASE exec' = "waiting" /\ UNCHANGED << next, cur, signal, fatal >> /\ (signal \/ fatal)
    BY <1>0, <1>1, <2>1, <2>2 DEF ThroughInv, Handled, Dead
  <2>3. CASE /\ next' = next + 1 /\ cur' = next
             /\ \/ exec' = "filling" /\ ModelOf(next) \in stopped
                \/ exec' = "announcing"
    <3>1. ASSUME NEW w \in Work, w < next' PROVE Handled(w)'
      <4>1. w \in Nat
        BY <1>0
      <4>2. CASE w < next
        <5>1. w \in outcomes \/ w \in active \/ ModelOf(w) \in stopped
          BY <2>1, <4>2 DEF ThroughInv, Handled, Dead
        <5> QED BY <2>1, <5>1 DEF Handled, ModelOf
      <4>3. CASE w = next
        BY <2>1, <2>3, <4>3 DEF Handled, ModelOf
      <4> QED BY <1>0, <2>3, <3>1, <4>1, <4>2, <4>3
    <3>2. \A w \in Work : Handled(w)'
      BY <3>1 DEF Handled
    <3> QED BY <1>1, <2>1, <2>3, <3>2 DEF ThroughInv
  <2> QED BY <2>1, <2>2, <2>3
<1>7. CASE Call
  <2>1. /\ exec = "calling" /\ exec' = "filling" /\ active' = active \cup {cur}
        /\ UNCHANGED << next, cur, outcomes, stopped >>
    BY <1>7 DEF Call, findings
  <2>2. \A w \in Work : Handled(w)'
    BY <2>1 DEF ThroughInv, Handled, Dead, ModelOf
  <2> QED BY <1>1, <2>1, <2>2 DEF ThroughInv
<1>8. ASSUME NEW v \in Work, Record(v) PROVE ThroughInv'
  <2>1. /\ exec = "recording" /\ exec' \in {"noting", "draining"} /\ active' = active \ {v}
        /\ outcomes' = outcomes \cup {v} /\ UNCHANGED << next, stopped >>
    BY <1>8 DEF Record, Store
  <2>2. \A w \in Work : Handled(w)'
    BY <2>1 DEF ThroughInv, Handled, Dead, ModelOf
  <2> QED BY <1>1, <2>1, <2>2 DEF ThroughInv
<1>9. CASE Note
  <2>1. /\ exec = "noting" /\ exec' \in {"filling", "recording", "draining"}
        /\ UNCHANGED << next, active, outcomes, items >>
        /\ \/ stopped' = stopped
           \/ stopped' = stopped \cup {ModelOf(cur)} /\ answer[cur] \in {"refused", "fatal"}
    BY <1>9 DEF Note, Store, AppendEvent, queue, database
  <2>2. items[cur] = answer[cur]
    BY <1>0, <2>1 DEF Settled
  <2>3. StopsHaveReasons'
    <3>1. CASE stopped' = stopped
      BY <1>1, <3>1
    <3>2. CASE stopped' = stopped \cup {ModelOf(cur)} /\ answer[cur] \in {"refused", "fatal"}
      BY <1>0, <2>1, <2>2, <3>2 DEF ThroughInv, StopsHaveReasons, ModelOf
    <3> QED BY <2>1, <3>1, <3>2
  <2>4. \A w \in Work : Handled(w)'
    BY <2>1 DEF ThroughInv, Handled, Dead, ModelOf
  <2> QED BY <2>1, <2>3, <2>4 DEF ThroughInv
<1>10. CASE Decide
  <2>1. /\ Waiting /\ active = {} /\ verdict' = Decision /\ exec' = "finishing"
        /\ UNCHANGED << next, cur, active, outcomes, stopped, fatal >>
    BY <1>10 DEF Decide, queue
  <2>2. Decision \in {"COMPLETED", "PARTIAL"} => fatal = FALSE /\ signal = FALSE
    BY <1>0 DEF Decision
  <2>3. ASSUME Decision \in {"COMPLETED", "PARTIAL"} PROVE next \notin Work
    <3>1. exec = "filling" /\ Full
      BY <2>1, <2>2, <2>3 DEF Waiting, ThroughInv
    <3>2. Cardinality(active) = 0
      BY <2>1, FS_EmptySet
    <3> QED BY <3>1, <3>2, EvaluationAssumption DEF Full
  <2>4. exec \notin Dead \cup {"announcing", "calling"}
    BY <2>1 DEF Waiting, Dead
  <2>5. \A w \in Work : Handled(w)'
    BY <2>1, <2>4 DEF ThroughInv, Handled, ModelOf
  <2> QED BY <1>1, <2>1, <2>2, <2>3, <2>5 DEF ThroughInv
<1>11. CASE Finish \/ Drain \/ Fail \/ Crash
  <2>1. exec' \in Dead /\ stopped' = stopped
    BY <1>11 DEF Finish, Drain, Fail, Crash, Store, Dead, findings
  <2> QED BY <1>1, <2>1 DEF ThroughInv, Dead
<1> QED BY <1>2, <1>3, <1>4, <1>5, <1>6, <1>7, <1>8, <1>9, <1>10, <1>11 DEF Next, Coordinate

\* The end of a run is decided when all its work is done.
LEMMA SkippedNext ==
    ASSUME StoryInv, RefusalInv, ThroughInv, NothingIsSkipped, [Next]_vars
    PROVE  NothingIsSkipped'
<1>0. /\ TypeInv /\ items \in [Work -> Answers \cup {"none"}]
      /\ run \in [state : Ended \cup {"none", "RUNNING"}, cancel : BOOLEAN, lease : BOOLEAN]
      /\ next \in Work \cup {LastWork + 1} /\ LastWork \in Nat /\ Work \subseteq 1..LastWork
  BY WorkIsFinite DEF StoryInv, PaidInv, TypeInv, TypeOK, LastWork, Work
<1>1. CASE run.state \in Ended
  <2>1. run'.state = run.state /\ items' = items
    BY <1>1, EndedKept DEF Kept
  <2> QED BY <2>1 DEF NothingIsSkipped, ModelOf
<1>2. CASE run.state \notin Ended /\ run'.state \in {"COMPLETED", "PARTIAL"}
  <2>1. exec = "finishing" /\ FinishRun
    <3>1. RowStep
      BY <1>0, RowSteps
    <3> QED BY <1>0, <1>2, <3>1 DEF RowStep, AppendEvent, RecordItem, EndRun, Ended
  <2>2. verdict \in {"COMPLETED", "PARTIAL"} /\ items' = items
    BY <1>0, <1>2, <2>1 DEF FinishRun
  <2>3. next \notin Work /\ active = {} /\ fatal = FALSE /\ \A w \in Work : Handled(w)
    BY <2>1, <2>2 DEF ThroughInv, Dead
  <2>4. ASSUME NEW w \in Work
        PROVE  items[w] # "none" \/ \E v \in Work : ModelOf(v) = ModelOf(w) /\ items[v] = "refused"
    <3>1. w < next
      BY <1>0, <2>3
    <3>2. w \in outcomes \/ ModelOf(w) \in stopped
      BY <2>1, <2>3, <3>1 DEF Handled
    <3>3. CASE w \in outcomes
      BY <2>1, <3>3 DEF StoryInv, SettledInv, Settled, Dead
    <3>4. CASE ModelOf(w) \in stopped
      <4>1. PICK v \in Work : ModelOf(v) = ModelOf(w) /\ items[v] \in {"refused", "fatal"}
        BY <3>4 DEF ThroughInv, StopsHaveReasons
      <4>2. items[v] # "fatal"
        BY <2>1, <2>3 DEF RefusalInv, Knows, Learns, Dead
      <4> QED BY <4>1, <4>2
    <3> QED BY <3>2, <3>3, <3>4
  <2> QED BY <2>2, <2>4 DEF NothingIsSkipped, ModelOf
<1>3. CASE run'.state \notin {"COMPLETED", "PARTIAL"}
  BY <1>3 DEF NothingIsSkipped
<1> QED BY <1>1, <1>2, <1>3

\* Nothing is skipped, for any number of models and items and of calls at a time: a run
\* is not COMPLETED or PARTIAL before every item is stored, or its model has refused.
THEOREM RunsGoThroughAll == Spec => []NothingIsSkipped
<1>1. Init => ThroughInv /\ NothingIsSkipped
  <2> SUFFICES ASSUME Init PROVE ThroughInv /\ NothingIsSkipped
    OBVIOUS
  <2>1. \A w \in Work : ~(w < 1)
    BY DEF Work
  <2> QED BY <2>1 DEF Init, ThroughInv, Handled, StopsHaveReasons, NothingIsSkipped
<1>2. StoryInv /\ RefusalInv /\ ThroughInv /\ NothingIsSkipped /\ [Next]_vars
          => ThroughInv' /\ NothingIsSkipped'
  BY ThroughNext, SkippedNext
<1> QED BY <1>1, <1>2, Story, RefusalsKnown, PTL DEF Spec

----------------------------------------------------------------------------
(* A batch of probes.                                                      *)

ItemStates == {"NONE"} \cup OpenItem \cup {"COMPLETED", "FAILED", "CANCELLED"}

\* The types of the rows of a batch and of its loop's variables.
BatchTypes ==
    /\ batchRow \in [state : {"NONE", "RUNNING"} \cup OverBatch, cancel : BOOLEAN]
    /\ item \in [Items -> [state : ItemStates, run : BOOLEAN]]
    /\ child \in [Items -> {"NONE", "RUNNING", "PURGED"} \cup OverRun]
    /\ mishaps \in Nat
    /\ loop \in {"none", "queued", "refused", "reading", "cancelling", "dispatching", "recording", "polling",
                 "refreshing", "finalizing", "ended", "dead"}
    /\ pending \subseteq Items /\ watched \subseteq Items
    /\ loop = "recording" => current \in Items

\* How far the batch is, and where its loop can be.
Stage ==
    /\ batchRow.state = "NONE" =>
           loop = "none" /\ ~batchRow.cancel /\ \A i \in Items : item[i].state = "NONE"
    /\ batchRow.state # "NONE" => \A i \in Items : item[i].state # "NONE"
    /\ batchRow.state = "RUNNING" /\ loop = "none" => \A i \in Items : item[i].state = "PENDING"
    /\ batchRow.state \in OverBatch => loop \in {"none", "ended", "dead"}
    /\ loop = "finalizing" => InState(OpenItem) = {}

\* What the loop's variables and the runs say of an item.
Booked(i) ==
    /\ i \in pending /\ loop \in {"cancelling", "dispatching", "recording"} => item[i].state = "PENDING"
    /\ i = current /\ loop = "recording" => item[i].state = "PENDING" /\ i \notin pending
    /\ item[i].state \in {"NONE", "PENDING"} => ~item[i].run
    /\ i \in watched => item[i].run
    /\ item[i].run /\ item[i].state \notin OpenItem /\ mishaps = 0 => child[i] # "RUNNING"
    /\ item[i].state = "COMPLETED" /\ loop # "none" => item[i].run /\ child[i] \in {"PASSED", "PURGED"}

\* The verdict of a batch that is over.
Judged ==
    /\ batchRow.state \in OverBatch => InState(OpenItem) = {}
    /\ batchRow.state \in {"PARTIAL", "COMPLETED", "FAILED"} =>
           ~batchRow.cancel /\ InState({"CANCELLED"}) = {}
    /\ batchRow.state = "PARTIAL" => InState({"COMPLETED"}) # {} /\ InState({"COMPLETED"}) # Items
    /\ batchRow.state = "COMPLETED" <=>
           InState({"COMPLETED"}) = Items /\ batchRow.state \in OverBatch /\ ~batchRow.cancel

BooksInv == \A i \in Items : Booked(i)
BatchInv == BatchTypes /\ Stage /\ BooksInv /\ Judged

\* finish_probe_batch_item ends open items, and touches nothing else.
LEMMA Finishes ==
    ASSUME BatchTypes, NEW ends, FinishItems(ends)
    PROVE  \A i \in Items :
             /\ item'[i].run = item[i].run
             /\ item'[i].state = IF i \in DOMAIN ends /\ item[i].state \in OpenItem
                                 THEN ends[i] ELSE item[i].state
<1> TAKE i \in Items
<1>1. item[i] \in [state : ItemStates, run : BOOLEAN]
  BY DEF BatchTypes
<1>2. item'[i] = IF i \in DOMAIN ends /\ item[i].state \in OpenItem
                 THEN [item[i] EXCEPT !.state = ends[i]] ELSE item[i]
  BY DEF FinishItems
<1> QED BY <1>1, <1>2

\* It leaves typed items.
LEMMA FinishesTyped ==
    ASSUME BatchTypes, NEW ends, FinishItems(ends),
           \A i \in DOMAIN ends : ends[i] \in {"COMPLETED", "FAILED", "CANCELLED"}
    PROVE  item' \in [Items -> [state : ItemStates, run : BOOLEAN]]
<1>1. ASSUME NEW i \in Items
      PROVE  (IF i \in DOMAIN ends /\ item[i].state \in OpenItem
              THEN [item[i] EXCEPT !.state = ends[i]] ELSE item[i]) \in [state : ItemStates, run : BOOLEAN]
  <2>1. item[i] \in [state : ItemStates, run : BOOLEAN]
    BY DEF BatchTypes
  <2> QED BY <2>1 DEF ItemStates
<1> QED BY <1>1 DEF FinishItems

\* The smallest of the pending items is one of them.
LEMMA NextItem == ASSUME BatchTypes, pending # {} PROVE Min(pending) \in pending
<1>1. pending \subseteq Nat
  BY DEF BatchTypes, Items
<1> DEFINE Below == {p \in Nat \X Nat : p[1] < p[2]}
<1>2. IsWellFoundedOn(Below, Nat)
  BY NatLessThanWellFounded DEF OpToRel
<1>3. \E i \in pending : \A j \in pending : << j, i >> \notin Below
  <2> HIDE DEF Below
  <2> QED BY <1>1, <1>2, WFMin
<1>4. \A i, j \in Nat : j < i => << j, i >> \in Below
  OBVIOUS
<1>5. \E i \in pending : \A j \in pending : i <= j
  <2> HIDE DEF Below
  <2>1. PICK i \in pending : \A j \in pending : << j, i >> \notin Below
    BY <1>3
  <2>2. \A j \in pending : ~(j < i)
    BY <1>1, <1>4, <2>1
  <2> QED BY <1>1, <2>1, <2>2
<1> QED BY <1>5 DEF Min

\* Where the loop does not move and no item changes, an item stays booked.
LEMMA BookedStays ==
    ASSUME NEW i \in Items, Booked(i), item' = item, current' = current, watched' = watched,
           pending' = pending, mishaps = 0 \/ mishaps' # 0,
           loop' = loop \/ loop' \notin {"none", "cancelling", "dispatching", "recording"},
           loop = "none" => loop' = "none",
           child[i] # "RUNNING" => child'[i] # "RUNNING",
           child[i] \in {"PASSED", "PURGED"} => child'[i] \in {"PASSED", "PURGED"}
    PROVE  Booked(i)'
BY DEF Booked, OpenItem

\* A batch that is not touched stays where it is, and so does its verdict.
LEMMA JudgedStays ==
    ASSUME Judged, item' = item, batchRow' = batchRow \/ (batchRow.state = "RUNNING" /\ batchRow'.state = "RUNNING")
    PROVE  Judged'
BY DEF Judged, InState, OverBatch

\* As long as a batch is not over it has no verdict.
LEMMA NotJudged == ASSUME batchRow'.state \notin OverBatch PROVE Judged'
BY DEF Judged, OverBatch

\* Every verdict is earned.
LEMMA VerdictIsEarned ==
    ASSUME BatchTypes, Stage, loop = "finalizing", batchRow.state = "RUNNING"
    PROVE  /\ Verdict \in OverBatch
           /\ Verdict \in {"PARTIAL", "COMPLETED", "FAILED"} =>
                  ~batchRow.cancel /\ InState({"CANCELLED"}) = {}
           /\ Verdict = "PARTIAL" => InState({"COMPLETED"}) # {} /\ InState({"COMPLETED"}) # Items
           /\ Verdict = "COMPLETED" <=> InState({"COMPLETED"}) = Items /\ ~batchRow.cancel
<1>1. InState(OpenItem) = {} /\ \A i \in Items : item[i].state # "NONE"
  BY DEF Stage
<1>2. \A i \in Items : item[i].state \in {"COMPLETED", "FAILED", "CANCELLED"}
  BY <1>1 DEF BatchTypes, InState, ItemStates
<1>3. 1 \in Items
  BY BatchAssumption DEF Items
<1>4. /\ InState({"COMPLETED"}) = Items <=> InState({"CANCELLED"}) = {} /\ InState({"FAILED"}) = {}
      /\ InState({"COMPLETED"}) = {} => InState({"COMPLETED"}) # Items
  BY <1>2, <1>3 DEF InState
<1> QED BY <1>3, <1>4 DEF Verdict, OverBatch

\* Requests, and the runs.
LEMMA BatchOthers ==
    ASSUME BatchInv,
           \/ CreateBatch \/ CreateCatalogOnly \/ SubmitBatch \/ RequestBatchCancel \/ CloseService
           \/ LoopStarts \/ OthersTake \/ OthersLeave
           \/ \E i \in Items : WorkerTakes(i) \/ RunEnds(i) \/ UserCancels(i) \/ UserPurges(i)
    PROVE  BatchInv'
<1> USE DEF BatchInv, batchRows, runs, loopState
<1>0. /\ item \in [Items -> [state : ItemStates, run : BOOLEAN]]
      /\ child \in [Items -> {"NONE", "RUNNING", "PURGED"} \cup OverRun]
      /\ (\A i \in Items : Booked(i)) /\ mishaps \in Nat
  BY DEF BatchTypes, BooksInv
<1>1. ASSUME CreateBatch \/ CreateCatalogOnly PROVE BatchInv'
  <2>1. PICK s \in {"PENDING", "COMPLETED"} :
          /\ batchRow' = [batchRow EXCEPT !.state = IF s = "PENDING" THEN "RUNNING" ELSE s]
          /\ item' = [i \in Items |-> [item[i] EXCEPT !.state = s]]
    BY <1>1 DEF CreateBatch, CreateCatalogOnly
  <2>2. batchRow.state = "NONE" /\ loop = "none" /\ UNCHANGED << runs, loopState, mishaps >>
    BY <1>1 DEF CreateBatch, CreateCatalogOnly, Stage
  <2>3. batchRow' \in [state : {"NONE", "RUNNING"} \cup OverBatch, cancel : BOOLEAN]
        /\ batchRow'.state = (IF s = "PENDING" THEN "RUNNING" ELSE s) /\ batchRow'.cancel = batchRow.cancel
    BY <2>1 DEF BatchTypes, OverBatch
  <2>4. item' \in [Items -> [state : ItemStates, run : BOOLEAN]]
        /\ \A i \in Items : item'[i].state = s /\ item'[i].run = item[i].run
    BY <1>0, <2>1 DEF ItemStates, OpenItem
  <2>5. BatchTypes'
    BY <2>2, <2>3, <2>4 DEF BatchTypes
  <2>6. Stage'
    BY <2>2, <2>3, <2>4 DEF Stage, OverBatch
  <2>7. ASSUME NEW i \in Items PROVE Booked(i)'
    <3>1. item[i].state = "NONE" /\ item'[i].state = s /\ ~item[i].run /\ item'[i].run = item[i].run
      BY <1>0, <2>2, <2>4, <1>1 DEF Stage, Booked, CreateBatch, CreateCatalogOnly
    <3> QED BY <1>0, <2>2, <3>1 DEF Booked
  <2>8. Judged'
    <3>1. CASE s = "PENDING"
      BY <2>3, <3>1, NotJudged DEF OverBatch
    <3>2. CASE s = "COMPLETED"
      <4>1. InState({"COMPLETED"})' = Items /\ InState(OpenItem)' = {} /\ InState({"CANCELLED"})' = {}
        BY <2>4, <3>2 DEF InState, OpenItem
      <4>2. ~batchRow.cancel
        BY <1>1 DEF CreateBatch, CreateCatalogOnly, Stage
      <4> QED BY <2>3, <3>2, <4>1, <4>2 DEF Judged, OverBatch
    <3> QED BY <3>1, <3>2
  <2> QED BY <2>5, <2>6, <2>7, <2>8 DEF BooksInv
<1>2. CASE SubmitBatch
  <2>1. /\ batchRow.state = "RUNNING" /\ loop = "none" /\ loop' \in {"queued", "refused"}
        /\ UNCHANGED << batchRow, item, child, pending, watched, current >>
        /\ mishaps' \in {mishaps, mishaps + 1}
    BY <1>2 DEF SubmitBatch, Loop, Mishap
  <2>2. BatchTypes'
    BY <1>0, <2>1 DEF BatchTypes
  <2>3. Stage'
    BY <2>1 DEF Stage, OverBatch
  <2>4. \A i \in Items : Booked(i)'
    BY <1>0, <2>1 DEF Booked, Stage
  <2>5. Judged'
    BY <2>1, JudgedStays
  <2> QED BY <2>2, <2>3, <2>4, <2>5 DEF BooksInv
<1>3. CASE RequestBatchCancel \/ CloseService
  <2>1. /\ UNCHANGED << item, child, loop, pending, watched, current, mishaps >>
        /\ \/ batchRow' = batchRow
           \/ batchRow.state = "RUNNING" /\ batchRow' = [batchRow EXCEPT !.cancel = TRUE]
    BY <1>3 DEF RequestBatchCancel, CloseService
  <2>2. batchRow'.state = batchRow.state
        /\ batchRow' \in [state : {"NONE", "RUNNING"} \cup OverBatch, cancel : BOOLEAN]
    BY <2>1 DEF BatchTypes
  <2>3. BatchTypes'
    BY <2>1, <2>2 DEF BatchTypes
  <2>4. Stage'
    BY <2>1, <2>2 DEF Stage, InState
  <2>5. \A i \in Items : Booked(i)'
    BY <1>0, <2>1, BookedStays
  <2>6. Judged'
    BY <2>1, <2>2, JudgedStays
  <2> QED BY <2>3, <2>4, <2>5, <2>6 DEF BooksInv
<1>4. ASSUME NEW j \in Items, WorkerTakes(j) \/ RunEnds(j) \/ UserCancels(j) \/ UserPurges(j)
      PROVE  BatchInv'
  <2>1. UNCHANGED << batchRow, item, loop, pending, watched, current >> /\ mishaps' \in {mishaps, mishaps + 1}
    BY <1>4 DEF WorkerTakes, RunEnds, UserCancels, UserPurges, Mishap
  <2>2. \/ child' = child
        \/ child[j] = "RUNNING" /\ \E to \in OverRun : child' = [child EXCEPT ![j] = to]
        \/ child[j] \in OverRun /\ child' = [child EXCEPT ![j] = "PURGED"]
    BY <1>4 DEF WorkerTakes, RunEnds, UserCancels, UserPurges, OverRun
  <2>3. child' \in [Items -> {"NONE", "RUNNING", "PURGED"} \cup OverRun]
    BY <1>0, <2>2 DEF OverRun
  <2>4. \A i \in Items : /\ child[i] # "RUNNING" => child'[i] # "RUNNING"
                         /\ child[i] \in {"PASSED", "PURGED"} => child'[i] \in {"PASSED", "PURGED"}
    BY <1>0, <2>2 DEF OverRun
  <2>5. BatchTypes'
    BY <1>0, <2>1, <2>3 DEF BatchTypes
  <2>6. Stage'
    BY <2>1 DEF Stage, InState
  <2>7. \A i \in Items : Booked(i)'
    BY <1>0, <2>1, <2>4, BookedStays
  <2>8. Judged'
    BY <2>1, JudgedStays
  <2> QED BY <2>5, <2>6, <2>7, <2>8 DEF BooksInv
<1>5. CASE LoopStarts \/ OthersTake \/ OthersLeave
  <2>1. /\ UNCHANGED << batchRow, item, child, pending, watched, current, mishaps >>
        /\ loop' = loop \/ (loop = "queued" /\ loop' = "reading")
    BY <1>5 DEF LoopStarts, OthersTake, OthersLeave, Loop
  <2>2. BatchTypes'
    BY <2>1 DEF BatchTypes
  <2>3. Stage'
    BY <2>1 DEF Stage, InState, OverBatch
  <2>4. \A i \in Items : Booked(i)'
    BY <1>0, <2>1, BookedStays
  <2>5. Judged'
    BY <2>1, JudgedStays
  <2> QED BY <2>2, <2>3, <2>4, <2>5 DEF BooksInv
<1> QED BY <1>1, <1>2, <1>3, <1>4, <1>5

\* What the loop has done when it goes on, or when a call has failed behind it: it has
\* cancelled the items of S, or settled those of runs that are over, or closed the batch.
OnOrLost(onward) == \/ loop' = onward /\ mishaps' = mishaps
                    \/ loop' = "dead" /\ mishaps' = mishaps + 1

HasCancelled(S) ==
    /\ loop = "cancelling" /\ OnOrLost("polling") /\ (loop' = "polling" => S = pending)
    /\ S \subseteq pending /\ FinishItems([i \in S |-> "CANCELLED"])
    /\ child' \in [Items -> {"NONE", "RUNNING", "PURGED"} \cup OverRun]
    /\ \A i \in Items : child'[i] = child[i] \/ (child[i] = "RUNNING" /\ child'[i] = "CANCELLED")
    /\ UNCHANGED << batchRow, pending, watched, current, closes >>

HasSettled(over) ==
    /\ loop = "polling"
    /\ \/ OnOrLost("refreshing")
       \/ loop' = "dead" /\ mishaps' = mishaps /\ \E j \in watched : child[j] = "PURGED"
    /\ \A i \in over : i \in watched /\ child[i] \in OverRun
    /\ SettleItems(over) /\ watched' \subseteq watched
    /\ UNCHANGED << batchRow, child, pending, current, closes >>

HasClosed ==
    /\ loop = "finalizing" /\ OnOrLost("ended") /\ CloseRow
    /\ UNCHANGED << item, child, pending, watched, current, closes >>

HasHalted ==
    /\ loop \in {"reading", "refreshing", "finalizing"} /\ loop' = "dead" /\ mishaps' = mishaps + 1
    /\ UNCHANGED << batchRow, item, child, pending, watched, current, closes >>

\* What cancel_run leaves of the runs.
LEMMA RunsCancelled ==
    ASSUME BatchTypes, NEW last, CancelRuns(last)
    PROVE  /\ child' \in [Items -> {"NONE", "RUNNING", "PURGED"} \cup OverRun]
           /\ \A i \in Items : child'[i] = child[i] \/ (child[i] = "RUNNING" /\ child'[i] = "CANCELLED")
<1>1. child \in [Items -> {"NONE", "RUNNING", "PURGED"} \cup OverRun]
  BY DEF BatchTypes
<1>2. ASSUME NEW i \in Items
      PROVE  (IF i \in watched /\ i <= last /\ child[i] = "RUNNING" THEN "CANCELLED" ELSE child[i])
               \in {"NONE", "RUNNING", "PURGED"} \cup OverRun
  BY <1>1 DEF OverRun
<1> QED BY <1>2 DEF CancelRuns

\* A step of the loop that is neither a dispatch nor a look at the batch.
LEMMA LoopCases ==
    ASSUME BatchTypes, LoopStep \/ LoopBreaks
    PROVE  \/ ReadBatch \/ StartChild \/ RecordChild \/ Dispatched \/ Refresh
           \/ HasHalted \/ HasClosed \/ (\E S : HasCancelled(S)) \/ (\E over : HasSettled(over))
<1> USE DEF batchRows, runs, OnOrLost, Loop
<1>0. child \in [Items -> {"NONE", "RUNNING", "PURGED"} \cup OverRun]
  BY DEF BatchTypes
<1>1. CASE CancelItems
  <2>1. PICK last : CancelRuns(last)
    BY <1>1 DEF CancelItems
  <2>2. HasCancelled(pending)
    BY <1>1, <2>1, RunsCancelled DEF CancelItems, HasCancelled
  <2> QED BY <2>2
<1>2. CASE PollChildren
  <2>1. HasSettled(RunsOver)
    BY <1>2 DEF PollChildren, HasSettled, RunsOver
  <2> QED BY <2>1
<1>3. CASE FinalizeBatch
  BY <1>3 DEF FinalizeBatch, HasClosed
<1>4. CASE LoopBreaks
  <2>1. loop' = "dead" /\ mishaps' = mishaps + 1 /\ UNCHANGED << pending, watched, current, closes >>
    BY <1>4 DEF LoopBreaks, Mishap
  <2>2. CASE loop \in {"reading", "refreshing", "finalizing"} /\ UNCHANGED << batchRow, item, child >>
    BY <2>1, <2>2 DEF HasHalted
  <2>3. CASE loop = "finalizing" /\ CloseRow /\ UNCHANGED << item, child >>
    BY <2>1, <2>3 DEF HasClosed
  <2>4. ASSUME NEW last \in 0..BatchSize, loop = "cancelling", UNCHANGED << batchRow, child >>,
               FinishItems([i \in {j \in pending : j <= last} |-> "CANCELLED"])
        PROVE  \E S : HasCancelled(S)
    <3>1. HasCancelled({j \in pending : j <= last})
      BY <1>0, <2>1, <2>4 DEF HasCancelled
    <3> QED BY <3>1
  <2>5. ASSUME NEW last \in 0..BatchSize, loop = "cancelling", UNCHANGED batchRow,
               FinishItems([i \in pending |-> "CANCELLED"]), CancelRuns(last)
        PROVE  \E S : HasCancelled(S)
    <3>1. HasCancelled(pending)
      BY <2>1, <2>5, RunsCancelled DEF HasCancelled
    <3> QED BY <3>1
  <2>6. ASSUME NEW last \in 0..BatchSize, loop = "polling", SettleItems({i \in RunsOver : i <= last}),
               UNCHANGED << batchRow, child >>
        PROVE  \E over : HasSettled(over)
    <3>1. HasSettled({i \in RunsOver : i <= last})
      BY <2>1, <2>6 DEF HasSettled, RunsOver
    <3> QED BY <3>1
  <2> QED BY <1>4, <2>2, <2>3, <2>4, <2>5, <2>6 DEF LoopBreaks
<1> QED BY <1>1, <1>2, <1>3, <1>4 DEF LoopStep

\* What the handler of a dispatch leaves of the item.
LEMMA GaveUp ==
    ASSUME BatchTypes, NEW i \in Items, NEW named \in BOOLEAN, NEW faulty \in BOOLEAN,
           GiveUp(i, named, faulty)
    PROVE  /\ item' \in [Items -> [state : ItemStates, run : BOOLEAN]]
           /\ \A j \in Items : j # i => item'[j] = item[j]
           /\ item'[i].run = named
           /\ item'[i].state \in {"FAILED", IF named THEN "RUNNING" ELSE "PENDING"}
           /\ loop' \in {"dispatching", "dead"}
           /\ loop' = "dispatching" => item'[i].state = "FAILED"
           /\ mishaps' \in {mishaps, mishaps + 1}
           /\ faulty \/ loop' = "dead" => mishaps' = mishaps + 1
<1>0. item \in [Items -> [state : ItemStates, run : BOOLEAN]]
  BY DEF BatchTypes
<1>1. ASSUME NEW state \in {"FAILED", IF named THEN "RUNNING" ELSE "PENDING"},
             item' = [item EXCEPT ![i] = [state |-> state, run |-> named]]
      PROVE  /\ item' \in [Items -> [state : ItemStates, run : BOOLEAN]]
             /\ \A j \in Items : j # i => item'[j] = item[j]
             /\ item'[i].run = named /\ item'[i].state = state
  <2>1. [state |-> state, run |-> named] \in [state : ItemStates, run : BOOLEAN]
    BY DEF ItemStates, OpenItem
  <2> QED BY <1>0, <1>1, <2>1
<1>2. CASE /\ item' = [item EXCEPT ![i] = [state |-> "FAILED", run |-> named]]
           /\ loop' = "dispatching"
           /\ IF faulty THEN Mishap ELSE UNCHANGED mishaps
  <2>1. mishaps' \in {mishaps, mishaps + 1} /\ (faulty => mishaps' = mishaps + 1)
    BY <1>2 DEF Mishap
  <2> QED BY <1>1, <1>2, <2>1
<1>3. CASE /\ \E state \in {"FAILED", IF named THEN "RUNNING" ELSE "PENDING"} :
                  item' = [item EXCEPT ![i] = [state |-> state, run |-> named]]
           /\ loop' = "dead"
           /\ Mishap
  <2>1. mishaps' = mishaps + 1
    BY <1>3 DEF Mishap
  <2> QED BY <1>1, <1>3, <2>1
<1> QED BY <1>2, <1>3 DEF GiveUp

\* What a dispatch leaves of the item that was next.
LEMMA ChildStarted ==
    ASSUME BatchInv, StartChild
    PROVE  LET k == Min(pending)
           IN  /\ k \in pending /\ loop = "dispatching"
               /\ k \in Items /\ item[k].state = "PENDING" /\ ~item[k].run
               /\ pending' = pending \ {k} /\ current' = k
               /\ UNCHANGED << batchRow, watched, closes >>
               /\ child' \in [Items -> {"NONE", "RUNNING", "PURGED"} \cup OverRun]
               /\ \A i \in Items : i # k => child'[i] = child[i]
               /\ child'[k] = child[k] \/ child'[k] \in {"FAILED", "RUNNING"}
               /\ \/ loop' = "recording" /\ item' = item /\ mishaps' = mishaps
                  \/ \E faulty \in BOOLEAN : GiveUp(k, FALSE, faulty)
<1> DEFINE k == Min(pending)
<1>0. child \in [Items -> {"NONE", "RUNNING", "PURGED"} \cup OverRun]
  BY DEF BatchInv, BatchTypes
<1>1. k \in pending /\ loop = "dispatching" /\ UNCHANGED << batchRow, watched, closes >>
      /\ pending' = pending \ {k} /\ current' = k
  BY NextItem DEF StartChild, CanDispatch, BatchInv
<1>2. k \in Items /\ item[k].state = "PENDING" /\ ~item[k].run
  BY <1>1 DEF Booked, BatchTypes, BatchInv, BooksInv
<1>3. child' = child \/ \E c \in {"FAILED", "RUNNING"} : child' = [child EXCEPT ![k] = c]
  <2>1. ASSUME NEW left \in {<< "FAILED", "none" >>, << "RUNNING", "none" >>, << "RUNNING", "queued" >>},
               child' = [child EXCEPT ![k] = left[1]]
        PROVE  \E c \in {"FAILED", "RUNNING"} : child' = [child EXCEPT ![k] = c]
    <3>1. left[1] \in {"FAILED", "RUNNING"}
      BY <2>1
    <3> QED BY <2>1, <3>1
  <2> QED BY <2>1 DEF StartChild
<1>4. /\ child' \in [Items -> {"NONE", "RUNNING", "PURGED"} \cup OverRun]
      /\ \A i \in Items : i # k => child'[i] = child[i]
      /\ child'[k] = child[k] \/ child'[k] \in {"FAILED", "RUNNING"}
  <2> HIDE DEF k
  <2> QED BY <1>0, <1>2, <1>3 DEF OverRun
<1>5. \/ loop' = "recording" /\ item' = item /\ mishaps' = mishaps
      \/ \E faulty \in BOOLEAN : GiveUp(k, FALSE, faulty)
  BY DEF StartChild
<1> QED BY <1>1, <1>2, <1>4, <1>5

\* What start_probe_batch_item, or its failure, leaves of the item that is started.
LEMMA ChildRecorded ==
    ASSUME BatchInv, RecordChild
    PROVE  /\ loop = "recording" /\ UNCHANGED << batchRow, child, pending, current, closes >>
           /\ current \in Items /\ item[current].state = "PENDING" /\ current \notin pending
           /\ ~item[current].run
           /\ item' \in [Items -> [state : ItemStates, run : BOOLEAN]]
           /\ \A i \in Items : i # current => item'[i] = item[i]
           /\ mishaps' \in {mishaps, mishaps + 1}
           /\ \/ /\ loop' = "dispatching" /\ mishaps' = mishaps
                 /\ item'[current].state = "RUNNING" /\ item'[current].run /\ watched' = watched \cup {current}
              \/ /\ loop' = "dispatching" /\ watched' = watched /\ item'[current].state = "FAILED"
                 /\ item'[current].run => mishaps' = mishaps + 1
              \/ /\ loop' = "dead" /\ watched' = watched /\ mishaps' = mishaps + 1
                 /\ \/ item'[current].state = "FAILED"
                    \/ item'[current].state = "RUNNING" /\ item'[current].run
                    \/ item'[current].state = "PENDING" /\ ~item'[current].run
<1>1. loop = "recording" /\ UNCHANGED << batchRow, child, pending, current, closes >>
  BY DEF RecordChild, runs
<1>2. /\ current \in Items /\ item[current].state = "PENDING" /\ current \notin pending
      /\ ~item[current].run /\ item \in [Items -> [state : ItemStates, run : BOOLEAN]]
  BY <1>1 DEF BatchTypes, Booked, BatchInv, BooksInv
<1>3. CASE /\ loop' = "dispatching" /\ item' = [item EXCEPT ![current] = [state |-> "RUNNING", run |-> TRUE]]
           /\ watched' = watched \cup {current} /\ mishaps' = mishaps
  <2>1. [state |-> "RUNNING", run |-> TRUE] \in [state : ItemStates, run : BOOLEAN]
    BY DEF ItemStates, OpenItem
  <2> QED BY <1>1, <1>2, <1>3, <2>1
<1>4. ASSUME NEW named \in BOOLEAN, NEW faulty \in BOOLEAN, GiveUp(current, named, faulty),
             named => faulty, watched' = watched
      PROVE  /\ item' \in [Items -> [state : ItemStates, run : BOOLEAN]]
             /\ \A i \in Items : i # current => item'[i] = item[i]
             /\ mishaps' \in {mishaps, mishaps + 1}
             /\ \/ /\ loop' = "dispatching" /\ item'[current].state = "FAILED"
                   /\ item'[current].run => mishaps' = mishaps + 1
                \/ /\ loop' = "dead" /\ mishaps' = mishaps + 1
                   /\ \/ item'[current].state = "FAILED"
                      \/ item'[current].state = "RUNNING" /\ item'[current].run
                      \/ item'[current].state = "PENDING" /\ ~item'[current].run
  BY <1>2, <1>4, GaveUp DEF BatchInv
<1>5. \/ /\ loop' = "dispatching" /\ item' = [item EXCEPT ![current] = [state |-> "RUNNING", run |-> TRUE]]
         /\ watched' = watched \cup {current} /\ mishaps' = mishaps
      \/ /\ watched' = watched
         /\ \E named, faulty \in BOOLEAN : (named => faulty) /\ GiveUp(current, named, faulty)
  BY DEF RecordChild
<1> QED BY <1>1, <1>2, <1>3, <1>4, <1>5

\* The loop of the batch.
LEMMA BatchLoop == ASSUME BatchInv, LoopStep \/ LoopBreaks PROVE BatchInv'
<1> USE DEF BatchInv
<1>0. /\ item \in [Items -> [state : ItemStates, run : BOOLEAN]]
      /\ child \in [Items -> {"NONE", "RUNNING", "PURGED"} \cup OverRun]
      /\ (\A i \in Items : Booked(i)) /\ mishaps \in Nat
  BY DEF BatchTypes, BooksInv
<1>1. CASE ReadBatch
  <2>1. /\ loop = "reading" /\ loop' \in {"ended", "cancelling", "dispatching"}
        /\ UNCHANGED << batchRow, item, child, current, mishaps >>
    BY <1>1 DEF ReadBatch, Loop, batchRows, runs
  <2>2. \/ loop' = "ended" /\ UNCHANGED << pending, watched >>
        \/ pending' = InState({"PENDING"})
           /\ watched' = watched \cup {i \in InState({"RUNNING"}) : item[i].run}
    BY <1>1 DEF ReadBatch, Loop
  <2>3. BatchTypes'
    BY <2>1, <2>2 DEF BatchTypes, InState
  <2>4. Stage'
    BY <2>1 DEF Stage, OverBatch
  <2>5. ASSUME NEW i \in Items PROVE Booked(i)'
    <3>1. i \in watched' => i \in watched \/ item[i].run
      BY <2>2
    <3>2. loop' # "ended" /\ i \in pending' => item[i].state = "PENDING"
      BY <2>2 DEF InState
    <3> QED BY <1>0, <2>1, <3>1, <3>2 DEF Booked
  <2>6. Judged'
    BY <2>1, JudgedStays
  <2> QED BY <2>3, <2>4, <2>5, <2>6 DEF BooksInv
<1>2. ASSUME NEW S, HasCancelled(S) PROVE BatchInv'
  <2> DEFINE ends == [i \in S |-> "CANCELLED"]
  <2>1. /\ loop = "cancelling" /\ loop' \in {"polling", "dead"} /\ FinishItems(ends)
        /\ UNCHANGED << batchRow, pending, watched, current >>
        /\ mishaps' \in {mishaps, mishaps + 1} /\ S \subseteq pending
        /\ child' \in [Items -> {"NONE", "RUNNING", "PURGED"} \cup OverRun]
        /\ \A i \in Items : child'[i] = child[i] \/ (child[i] = "RUNNING" /\ child'[i] = "CANCELLED")
    BY <1>2 DEF HasCancelled, OnOrLost
  <2>2. DOMAIN ends = S /\ \A i \in S : ends[i] = "CANCELLED"
    OBVIOUS
  <2> HIDE DEF ends
  <2>3. item' \in [Items -> [state : ItemStates, run : BOOLEAN]]
    BY <2>1, <2>2, FinishesTyped
  <2>4. \A i \in Items : /\ item'[i].run = item[i].run
                         /\ item'[i].state = IF i \in S /\ item[i].state \in OpenItem
                                             THEN "CANCELLED" ELSE item[i].state
    BY <2>1, <2>2, Finishes
  <2>5. BatchTypes'
    BY <1>0, <2>1, <2>3 DEF BatchTypes
  <2>6. Stage'
    BY <2>1, <2>4 DEF Stage, OverBatch
  <2>7. ASSUME NEW i \in Items PROVE Booked(i)'
    BY <1>0, <2>1, <2>4 DEF Booked, OpenItem
  <2>8. Judged'
    <3>1. batchRow'.state \notin OverBatch
      BY <2>1 DEF Stage
    <3> QED BY <3>1, NotJudged
  <2> QED BY <2>5, <2>6, <2>7, <2>8 DEF BooksInv
<1>3. CASE StartChild
  <2> DEFINE k == Min(pending)
  <2>1. /\ k \in pending /\ loop = "dispatching" /\ k \in Items /\ item[k].state = "PENDING" /\ ~item[k].run
        /\ pending' = pending \ {k} /\ current' = k /\ UNCHANGED << batchRow, watched >>
        /\ child' \in [Items -> {"NONE", "RUNNING", "PURGED"} \cup OverRun]
        /\ \A i \in Items : i # k => child'[i] = child[i]
        /\ \/ loop' = "recording" /\ item' = item /\ mishaps' = mishaps
           \/ \E faulty \in BOOLEAN : GiveUp(k, FALSE, faulty)
    BY <1>3, ChildStarted
  <2> HIDE DEF k
  <2>2. Judged'
    <3>1. batchRow'.state \notin OverBatch
      BY <2>1 DEF Stage
    <3> QED BY <3>1, NotJudged
  <2>3. CASE loop' = "recording" /\ item' = item /\ mishaps' = mishaps
    <3>1. BatchTypes'
      BY <2>1, <2>3 DEF BatchTypes
    <3>2. Stage'
      BY <2>1, <2>3 DEF Stage, OverBatch
    <3>3. \A i \in Items : Booked(i)'
      BY <1>0, <2>1, <2>3 DEF Booked
    <3> QED BY <2>2, <3>1, <3>2, <3>3 DEF BooksInv
  <2>4. ASSUME NEW faulty \in BOOLEAN, GiveUp(k, FALSE, faulty) PROVE BatchInv'
    <3>1. /\ item' \in [Items -> [state : ItemStates, run : BOOLEAN]]
          /\ \A i \in Items : i # k => item'[i] = item[i]
          /\ ~item'[k].run /\ item'[k].state \in {"FAILED", "PENDING"}
          /\ loop' \in {"dispatching", "dead"} /\ mishaps' \in {mishaps, mishaps + 1}
      BY <2>1, <2>4, GaveUp
    <3>2. BatchTypes'
      BY <1>0, <2>1, <3>1 DEF BatchTypes
    <3>3. Stage'
      BY <2>1, <3>1 DEF Stage, OverBatch
    <3>4. \A i \in Items : Booked(i)'
      BY <1>0, <2>1, <3>1 DEF Booked
    <3> QED BY <2>2, <3>2, <3>3, <3>4 DEF BooksInv
  <2> QED BY <2>1, <2>3, <2>4
<1>4. CASE RecordChild
  <2>1. /\ loop = "recording" /\ UNCHANGED << batchRow, child, pending, current >>
        /\ current \in Items /\ item[current].state = "PENDING" /\ current \notin pending
        /\ ~item[current].run /\ mishaps' \in {mishaps, mishaps + 1}
        /\ loop' \in {"dispatching", "dead"}
    BY <1>4, ChildRecorded
  <2>2. /\ item' \in [Items -> [state : ItemStates, run : BOOLEAN]]
        /\ \A i \in Items : i # current => item'[i] = item[i]
        /\ \/ item'[current].state = "RUNNING" /\ item'[current].run /\ watched' \subseteq watched \cup {current}
           \/ /\ item'[current].state = "FAILED" /\ watched' = watched
              /\ item'[current].run => mishaps' = mishaps + 1
           \/ item'[current].state = "PENDING" /\ ~item'[current].run /\ watched' = watched
    BY <1>4, ChildRecorded
  <2>3. BatchTypes'
    BY <1>0, <2>1, <2>2 DEF BatchTypes
  <2>4. Stage'
    BY <2>1, <2>2 DEF Stage, OverBatch
  <2>5. ASSUME NEW i \in Items PROVE Booked(i)'
    <3>1. CASE i = current
      BY <1>0, <2>1, <2>2, <3>1 DEF Booked, OpenItem
    <3>2. CASE i # current
      BY <1>0, <2>1, <2>2, <3>2 DEF Booked, OpenItem
    <3> QED BY <3>1, <3>2
  <2>6. Judged'
    <3>1. batchRow'.state \notin OverBatch
      BY <2>1 DEF Stage
    <3> QED BY <3>1, NotJudged
  <2> QED BY <2>3, <2>4, <2>5, <2>6 DEF BooksInv
<1>5. ASSUME NEW over, HasSettled(over) PROVE BatchInv'
  <2> DEFINE ends == [i \in over |-> ItemFor(child[i])]
  <2>1. /\ loop = "polling" /\ loop' \in {"refreshing", "dead"} /\ FinishItems(ends)
        /\ watched' \subseteq watched /\ UNCHANGED << batchRow, child, pending, current >>
        /\ mishaps' \in {mishaps, mishaps + 1}
    BY <1>5 DEF HasSettled, SettleItems, OnOrLost
  <2>2. \A i \in over : i \in watched /\ child[i] \in OverRun /\ i \in DOMAIN ends /\ ends[i] = ItemFor(child[i])
    BY <1>5 DEF HasSettled
  <2>3. DOMAIN ends = over
    OBVIOUS
  <2> HIDE DEF ends
  <2>4. \A i \in over : ends[i] \in {"COMPLETED", "FAILED", "CANCELLED"}
                        /\ (ends[i] = "COMPLETED" => child[i] = "PASSED")
    BY <2>2 DEF ItemFor
  <2>5. item' \in [Items -> [state : ItemStates, run : BOOLEAN]]
    BY <2>1, <2>3, <2>4, FinishesTyped
  <2>6. \A i \in Items : /\ item'[i].run = item[i].run
                         /\ item'[i].state = IF i \in over /\ item[i].state \in OpenItem
                                             THEN ends[i] ELSE item[i].state
    BY <2>1, <2>3, Finishes
  <2>7. BatchTypes'
    BY <1>0, <2>1, <2>5 DEF BatchTypes
  <2>8. Stage'
    BY <2>1, <2>2, <2>4, <2>6 DEF Stage, OverBatch
  <2>9. ASSUME NEW i \in Items PROVE Booked(i)'
    <3>1. CASE i \in over /\ item[i].state \in OpenItem
      <4>1. i \in watched /\ item[i].run /\ child[i] # "RUNNING"
        BY <1>0, <2>2, <3>1 DEF Booked, OverRun
      <4> QED BY <2>1, <2>4, <2>6, <3>1, <4>1 DEF Booked, OpenItem
    <3>2. CASE ~(i \in over /\ item[i].state \in OpenItem)
      BY <1>0, <2>1, <2>6, <3>2 DEF Booked
    <3> QED BY <3>1, <3>2
  <2>10. Judged'
    <3>1. batchRow'.state \notin OverBatch
      BY <2>1 DEF Stage
    <3> QED BY <3>1, NotJudged
  <2> QED BY <2>7, <2>8, <2>9, <2>10 DEF BooksInv
<1>6. CASE Dispatched \/ Refresh \/ HasHalted
  <2>1. UNCHANGED << batchRow, item, child, pending, watched, current >> /\ mishaps' \in {mishaps, mishaps + 1}
    BY <1>6 DEF Dispatched, Refresh, HasHalted, batchRows, runs
  <2>2. /\ loop \in {"dispatching", "reading", "refreshing", "finalizing"}
        /\ loop' \in {"polling", "finalizing", "reading", "dead"}
        /\ loop' = "finalizing" => InState(OpenItem) = {}
    BY <1>6 DEF Dispatched, Refresh, HasHalted, Loop
  <2>3. BatchTypes'
    BY <1>0, <2>1, <2>2 DEF BatchTypes
  <2>4. Stage'
    BY <2>1, <2>2 DEF Stage, InState, OverBatch
  <2>5. \A i \in Items : Booked(i)'
    BY <1>0, <2>1, <2>2, BookedStays
  <2>6. Judged'
    BY <2>1, JudgedStays
  <2> QED BY <2>3, <2>4, <2>5, <2>6 DEF BooksInv
<1>7. CASE HasClosed
  <2>1. /\ loop = "finalizing" /\ loop' \in {"ended", "dead"} /\ mishaps' \in {mishaps, mishaps + 1}
        /\ UNCHANGED << item, child, pending, watched, current >>
        /\ batchRow' = [batchRow EXCEPT !.state = IF @ = "RUNNING" THEN Verdict ELSE @]
    BY <1>7 DEF HasClosed, OnOrLost, CloseRow
  <2>2. batchRow.state = "RUNNING"
    BY <2>1 DEF Stage, BatchTypes, OverBatch
  <2>3. Verdict \in OverBatch
    BY <2>1, <2>2, VerdictIsEarned
  <2>4. batchRow' \in [state : {"NONE", "RUNNING"} \cup OverBatch, cancel : BOOLEAN]
        /\ batchRow'.state = Verdict /\ batchRow'.cancel = batchRow.cancel
    BY <2>1, <2>2, <2>3 DEF BatchTypes
  <2>5. BatchTypes'
    BY <1>0, <2>1, <2>4 DEF BatchTypes
  <2>6. Stage'
    BY <2>1, <2>2, <2>3, <2>4 DEF Stage, OverBatch
  <2>7. \A i \in Items : Booked(i)'
    BY <1>0, <2>1, BookedStays
  <2>8. InState(OpenItem)' = {} /\ InState({"CANCELLED"})' = InState({"CANCELLED"})
        /\ InState({"COMPLETED"})' = InState({"COMPLETED"})
    BY <2>1 DEF Stage, InState
  <2>9. Judged'
    BY <2>1, <2>2, <2>4, <2>8, VerdictIsEarned DEF Judged
  <2> QED BY <2>5, <2>6, <2>7, <2>9 DEF BooksInv
<1> QED BY <1>1, <1>2, <1>3, <1>4, <1>5, <1>6, <1>7, LoopCases

\* The rows of a batch, the variables of its loop and the runs agree, at all times.
LEMMA BatchesStay == BatchSpec => []BatchInv
<1>1. BatchInit => BatchInv
  <2> SUFFICES ASSUME BatchInit PROVE BatchInv
    OBVIOUS
  <2>1. BatchTypes
    BY DEF BatchInit, BatchTypes, ItemStates
  <2>2. Stage
    BY DEF BatchInit, Stage, OverBatch
  <2>3. BooksInv
    BY DEF BatchInit, BooksInv, Booked
  <2>4. Judged
    BY DEF BatchInit, Judged, OverBatch
  <2> QED BY <2>1, <2>2, <2>3, <2>4 DEF BatchInv
<1>2. ASSUME BatchInv, [BatchNext]_batchVars PROVE BatchInv'
  <2>1. CASE UNCHANGED batchVars
    BY <1>2, <2>1 DEF batchVars, batchRows, runs, loopState, BatchInv, BatchTypes, Stage, BooksInv, Booked,
        Judged, InState
  <2> QED BY <1>2, <2>1, BatchOthers, BatchLoop DEF BatchNext
<1> QED BY <1>1, <1>2, PTL DEF BatchSpec

\* A batch that says COMPLETED, PARTIAL or FAILED says what became of its runs,
\* for any number of models, any cap and any number of failing calls; and as long as none
\* has failed no run is RUNNING behind an item that names it and is over.
THEOREM BatchesAreHonest == BatchSpec => []BatchVerdictIsHonest
<1>1. BatchInv => BatchVerdictIsHonest
  <2> SUFFICES ASSUME BatchInv PROVE BatchVerdictIsHonest
    OBVIOUS
  <2> DEFINE passed == {i \in Items : item[i].run /\ child[i] \in {"PASSED", "PURGED"}}
             done == InState({"COMPLETED"})
  <2>1. loop # "none" => done \subseteq passed
    BY DEF BatchInv, BooksInv, Booked, InState
  <2>2. \A i \in Items : item[i].run /\ item[i].state \notin OpenItem /\ mishaps = 0 => child[i] # "RUNNING"
    BY DEF BatchInv, BooksInv, Booked
  <2> QED BY <2>1, <2>2 DEF BatchInv, Judged, BatchVerdictIsHonest
<1> QED BY <1>1, BatchesStay, PTL

----------------------------------------------------------------------------
(* A batch is never left to nobody.                                        *)

\* What the loop of a batch leaves when it stops (_execute_probe_batch): it returns
\* with the batch over, unless the service closes; it is lost, or was never started,
\* only with a call that failed; and while an item is open it does not poll for nothing.
BatchIsAttended ==
    /\ loop = "ended" => batchRow.state \in OverBatch \/ closes
    /\ loop \in {"dead", "refused"} => mishaps > 0
    /\ loop = "polling" /\ InState(OpenItem) # {} => watched # {}

\* An open item is in one of the sets of the loop, or is the one it is starting.
Minded(i) ==
    /\ child[i] = "PURGED" => mishaps > 0
    /\ item[i].state = "RUNNING" => item[i].run
    /\ item[i].state \in OpenItem /\ loop \in {"cancelling", "dispatching", "recording"} =>
           i \in pending \/ i \in watched \/ (loop = "recording" /\ i = current)

MindedInv == mishaps \in Nat /\ (\A i \in Items : Minded(i)) /\ BatchIsAttended

\* An action of nobody but the requests and the runs.
LEMMA OthersKeep ==
    ASSUME BatchInv, MindedInv,
           \/ CreateBatch \/ CreateCatalogOnly \/ SubmitBatch \/ RequestBatchCancel \/ CloseService
           \/ LoopStarts \/ OthersTake \/ OthersLeave
           \/ \E i \in Items : WorkerTakes(i) \/ RunEnds(i) \/ UserCancels(i) \/ UserPurges(i)
    PROVE  MindedInv'
<1>0. /\ batchRow \in [state : {"NONE", "RUNNING"} \cup OverBatch, cancel : BOOLEAN]
      /\ child \in [Items -> {"NONE", "RUNNING", "PURGED"} \cup OverRun]
      /\ mishaps \in Nat /\ Stage
  BY DEF BatchInv, BatchTypes, MindedInv
<1>1. CASE CreateBatch \/ CreateCatalogOnly
  <2>1. /\ batchRow.state = "NONE" /\ loop = "none" /\ UNCHANGED << child, loop, pending, watched, current, mishaps >>
        /\ \A i \in Items : item'[i].state \in {"PENDING", "COMPLETED"}
    BY <1>0, <1>1 DEF CreateBatch, CreateCatalogOnly, Stage, runs, loopState, BatchInv, BatchTypes
  <2> QED BY <1>0, <2>1 DEF MindedInv, Minded, BatchIsAttended
<1>2. CASE SubmitBatch
  <2>1. /\ UNCHANGED << batchRow, item, child, pending, watched, current, closes >>
        /\ \/ loop' = "queued" /\ mishaps' = mishaps
           \/ loop' = "refused" /\ mishaps' = mishaps + 1
    BY <1>2 DEF SubmitBatch, Loop, Mishap, batchRows, runs
  <2> QED BY <1>0, <2>1 DEF MindedInv, Minded, BatchIsAttended
<1>3. CASE RequestBatchCancel \/ CloseService
  <2>1. /\ UNCHANGED << item, child, loop, pending, watched, current, mishaps >>
        /\ batchRow'.state = batchRow.state /\ (closes => closes')
    BY <1>0, <1>3 DEF RequestBatchCancel, CloseService, batchRows, runs, loopState
  <2>2. InState(OpenItem)' = InState(OpenItem)
    BY <2>1 DEF InState
  <2> QED BY <1>0, <2>1, <2>2 DEF MindedInv, Minded, BatchIsAttended
<1>4. ASSUME NEW j \in Items, WorkerTakes(j) \/ RunEnds(j) \/ UserCancels(j) \/ UserPurges(j)
      PROVE  MindedInv'
  <2>1. UNCHANGED << batchRow, item, loop, pending, watched, current, closes >>
    BY <1>4 DEF WorkerTakes, RunEnds, UserCancels, UserPurges, batchRows, loopState
  <2>2. \/ mishaps' = mishaps /\ \A i \in Items : child'[i] = "PURGED" => child[i] = "PURGED"
        \/ mishaps' = mishaps + 1
    BY <1>0, <1>4 DEF WorkerTakes, RunEnds, UserCancels, UserPurges, Mishap, OverRun
  <2>3. InState(OpenItem)' = InState(OpenItem)
    BY <2>1 DEF InState
  <2> QED BY <1>0, <2>1, <2>2, <2>3 DEF MindedInv, Minded, BatchIsAttended
<1>5. CASE LoopStarts \/ OthersTake \/ OthersLeave
  <2>1. /\ UNCHANGED << batchRow, item, child, pending, watched, current, closes, mishaps >>
        /\ loop' = loop \/ loop' = "reading"
    BY <1>5 DEF LoopStarts, OthersTake, OthersLeave, Loop, batchRows, runs, loopState
  <2>2. InState(OpenItem)' = InState(OpenItem)
    BY <2>1 DEF InState
  <2> QED BY <1>0, <2>1, <2>2 DEF MindedInv, Minded, BatchIsAttended
<1> QED BY <1>1, <1>2, <1>3, <1>4, <1>5

\* The loop drops an item only when it is over.
LEMMA LoopKeeps == ASSUME BatchInv, MindedInv, LoopStep \/ LoopBreaks PROVE MindedInv'
<1>0. /\ batchRow \in [state : {"NONE", "RUNNING"} \cup OverBatch, cancel : BOOLEAN]
      /\ item \in [Items -> [state : ItemStates, run : BOOLEAN]]
      /\ child \in [Items -> {"NONE", "RUNNING", "PURGED"} \cup OverRun]
      /\ BatchTypes /\ Stage /\ mishaps \in Nat
      /\ \A i \in Items : Booked(i) /\ Minded(i)
  BY DEF BatchInv, BatchTypes, BooksInv, MindedInv
<1>1. CASE ReadBatch
  <2>1. /\ loop = "reading" /\ UNCHANGED << batchRow, item, child, current, closes, mishaps >>
        /\ \/ loop' = "ended" /\ (closes \/ batchRow.state # "RUNNING")
           \/ /\ loop' \in {"cancelling", "dispatching"} /\ pending' = InState({"PENDING"})
              /\ watched' = watched \cup {i \in InState({"RUNNING"}) : item[i].run}
    BY <1>1 DEF ReadBatch, Loop, batchRows, runs
  <2>2. batchRow.state # "NONE"
    BY <1>0, <2>1 DEF Stage
  <2>3. ASSUME NEW i \in Items, item[i].state \in OpenItem, loop' # "ended"
        PROVE  i \in pending' \/ i \in watched'
    BY <1>0, <2>1, <2>3 DEF InState, OpenItem, Minded
  <2>4. \A i \in Items : Minded(i)'
    BY <1>0, <2>1, <2>3 DEF Minded
  <2> QED BY <1>0, <2>1, <2>2, <2>4 DEF MindedInv, BatchIsAttended
<1>2. ASSUME NEW S, HasCancelled(S) PROVE MindedInv'
  <2> DEFINE ends == [i \in S |-> "CANCELLED"]
  <2>1. /\ loop = "cancelling" /\ FinishItems(ends) /\ UNCHANGED << pending, watched >>
        /\ \/ loop' = "polling" /\ S = pending /\ mishaps' = mishaps
           \/ loop' = "dead" /\ mishaps' = mishaps + 1
        /\ \A i \in Items : child'[i] = "PURGED" => child[i] = "PURGED"
    BY <1>2 DEF HasCancelled, OnOrLost
  <2>2. DOMAIN ends = S /\ \A i \in S : ends[i] = "CANCELLED"
    OBVIOUS
  <2> HIDE DEF ends
  <2>3. \A i \in Items : /\ item'[i].run = item[i].run
                         /\ item'[i].state = IF i \in S /\ item[i].state \in OpenItem
                                             THEN "CANCELLED" ELSE item[i].state
    BY <1>0, <2>1, <2>2, Finishes
  <2>4. \A i \in Items : Minded(i)'
    BY <1>0, <2>1, <2>3 DEF Minded
  <2>5. loop' = "polling" => \A i \in Items : item'[i].state \in OpenItem => i \in watched
    BY <1>0, <2>1, <2>3 DEF Minded, OpenItem
  <2> QED BY <1>0, <2>1, <2>4, <2>5 DEF MindedInv, BatchIsAttended, InState
<1>3. CASE StartChild
  <2> DEFINE k == Min(pending)
  <2>1. /\ k \in pending /\ loop = "dispatching" /\ k \in Items /\ item[k].state = "PENDING"
        /\ watched' = watched /\ pending' = pending \ {k} /\ current' = k
        /\ \A i \in Items : i # k => child'[i] = child[i]
        /\ child'[k] = child[k] \/ child'[k] \in {"FAILED", "RUNNING"}
        /\ \/ loop' = "recording" /\ item' = item /\ mishaps' = mishaps
           \/ \E faulty \in BOOLEAN : GiveUp(k, FALSE, faulty)
    BY <1>3, ChildStarted
  <2> HIDE DEF k
  <2>2. \A i \in Items : child'[i] = "PURGED" => child[i] = "PURGED"
    BY <2>1
  <2>3. CASE loop' = "recording" /\ item' = item /\ mishaps' = mishaps
    <3>1. \A i \in Items : Minded(i)'
      BY <1>0, <2>1, <2>2, <2>3 DEF Minded
    <3> QED BY <1>0, <2>3, <3>1 DEF MindedInv, BatchIsAttended
  <2>4. ASSUME NEW faulty \in BOOLEAN, GiveUp(k, FALSE, faulty) PROVE MindedInv'
    <3>1. /\ \A i \in Items : i # k => item'[i] = item[i]
          /\ item'[k].state \in {"FAILED", "PENDING"} /\ loop' \in {"dispatching", "dead"}
          /\ loop' = "dispatching" => item'[k].state = "FAILED"
          /\ mishaps' \in {mishaps, mishaps + 1} /\ (loop' = "dead" => mishaps' = mishaps + 1)
      BY <1>0, <2>1, <2>4, GaveUp
    <3>2. \A i \in Items : Minded(i)'
      BY <1>0, <2>1, <2>2, <3>1 DEF Minded, OpenItem
    <3> QED BY <1>0, <3>1, <3>2 DEF MindedInv, BatchIsAttended
  <2> QED BY <2>1, <2>3, <2>4
<1>4. CASE RecordChild
  <2>1. /\ loop = "recording" /\ UNCHANGED << child, pending, current >>
        /\ current \in Items /\ mishaps' \in {mishaps, mishaps + 1}
        /\ \A i \in Items : i # current => item'[i] = item[i]
        /\ \/ loop' = "dead" /\ watched' = watched /\ mishaps' = mishaps + 1
           \/ /\ loop' = "dispatching"
              /\ \/ item'[current].state = "RUNNING" /\ watched' = watched \cup {current}
                 \/ item'[current].state = "FAILED" /\ watched' = watched
        /\ item'[current].state = "RUNNING" => item'[current].run
    BY <1>4, ChildRecorded
  <2>2. \A i \in Items : Minded(i)'
    <3> TAKE i \in Items
    <3>1. CASE i = current
      BY <1>0, <2>1, <3>1 DEF Minded, OpenItem
    <3>2. CASE i # current
      BY <1>0, <2>1, <3>2 DEF Minded, OpenItem
    <3> QED BY <3>1, <3>2
  <2> QED BY <1>0, <2>1, <2>2 DEF MindedInv, BatchIsAttended
<1>5. CASE Dispatched
  <2>1. /\ loop = "dispatching" /\ loop' = "polling" /\ ~CanDispatch
        /\ UNCHANGED << item, child, pending, watched, mishaps >>
    BY <1>5 DEF Dispatched, Loop, batchRows, runs
  <2>2. \A i \in Items : Minded(i)'
    BY <1>0, <2>1 DEF Minded
  <2>3. ASSUME InState(OpenItem) # {} PROVE watched # {}
    <3>1. PICK i \in Items : item[i].state \in OpenItem
      BY <2>3 DEF InState
    <3>2. i \in pending \/ i \in watched
      BY <1>0, <2>1, <3>1 DEF Minded
    <3>3. CASE watched = {}
      <4>1. Cardinality(watched) = 0
        BY <3>3, FS_EmptySet
      <4>2. pending # {}
        BY <3>2, <3>3
      <4>3. Cap \in Nat \ {0}
        BY BatchAssumption
      <4> QED BY <2>1, <4>1, <4>2, <4>3 DEF CanDispatch
    <3> QED BY <3>3
  <2>4. InState(OpenItem)' = InState(OpenItem)
    BY <2>1 DEF InState
  <2> QED BY <1>0, <2>1, <2>2, <2>3, <2>4 DEF MindedInv, BatchIsAttended
<1>6. ASSUME NEW over, HasSettled(over) PROVE MindedInv'
  <2> DEFINE ends == [i \in over |-> ItemFor(child[i])]
  <2>1. /\ loop = "polling" /\ FinishItems(ends) /\ child' = child
        /\ \/ loop' = "refreshing" /\ mishaps' = mishaps
           \/ loop' = "dead" /\ mishaps' = mishaps + 1
           \/ loop' = "dead" /\ mishaps' = mishaps /\ \E j \in watched : child[j] = "PURGED"
    BY <1>6 DEF HasSettled, SettleItems, OnOrLost
  <2>2. \A i \in over : ends[i] \in {"COMPLETED", "FAILED", "CANCELLED"}
    BY DEF ItemFor
  <2>3. DOMAIN ends = over
    OBVIOUS
  <2>4. mishaps' \in Nat /\ (mishaps > 0 => mishaps' > 0) /\ (loop' = "dead" => mishaps' > 0)
    <3>1. (\E j \in watched : child[j] = "PURGED") => mishaps > 0
      BY <1>0 DEF Minded, BatchTypes
    <3> QED BY <1>0, <2>1, <3>1
  <2> HIDE DEF ends
  <2>5. \A i \in Items : /\ item'[i].run = item[i].run
                         /\ item'[i].state = IF i \in over /\ item[i].state \in OpenItem
                                             THEN ends[i] ELSE item[i].state
    BY <1>0, <2>1, <2>3, Finishes
  <2>6. \A i \in Items : Minded(i)'
    BY <1>0, <2>1, <2>2, <2>4, <2>5 DEF Minded
  <2> QED BY <1>0, <2>1, <2>4, <2>6 DEF MindedInv, BatchIsAttended
<1>7. CASE Refresh \/ HasHalted
  <2>1. /\ UNCHANGED << item, child >>
        /\ \/ loop' \in {"finalizing", "reading"} /\ mishaps' = mishaps
           \/ loop' = "dead" /\ mishaps' = mishaps + 1
    BY <1>7 DEF Refresh, HasHalted, Loop, batchRows, runs
  <2>2. \A i \in Items : Minded(i)'
    BY <1>0, <2>1 DEF Minded
  <2> QED BY <1>0, <2>1, <2>2 DEF MindedInv, BatchIsAttended
<1>8. CASE HasClosed
  <2>1. /\ loop = "finalizing" /\ UNCHANGED << item, child >>
        /\ \/ loop' = "ended" /\ mishaps' = mishaps
           \/ loop' = "dead" /\ mishaps' = mishaps + 1
        /\ batchRow' = [batchRow EXCEPT !.state = IF @ = "RUNNING" THEN Verdict ELSE @]
    BY <1>8 DEF HasClosed, OnOrLost, CloseRow
  <2>2. batchRow.state = "RUNNING"
    BY <1>0, <2>1 DEF Stage, OverBatch
  <2>3. batchRow'.state = Verdict /\ Verdict \in OverBatch
    BY <1>0, <2>1, <2>2, VerdictIsEarned
  <2>4. \A i \in Items : Minded(i)'
    BY <1>0, <2>1 DEF Minded
  <2> QED BY <1>0, <2>1, <2>3, <2>4 DEF MindedInv, BatchIsAttended
<1> QED BY <1>0, <1>1, <1>2, <1>3, <1>4, <1>5, <1>6, <1>7, <1>8, LoopCases

\* A batch is never left to nobody: for any number of models and any cap, a batch that
\* nobody carries on is over, or the service closes, or a call has failed.
THEOREM BatchesAreAttended == BatchSpec => []BatchIsAttended
<1>1. BatchInit => MindedInv
  BY DEF BatchInit, MindedInv, Minded, BatchIsAttended
<1>2. ASSUME BatchInv, MindedInv, [BatchNext]_batchVars PROVE MindedInv'
  <2>1. CASE UNCHANGED batchVars
    <3>1. UNCHANGED << batchRow, item, child, loop, pending, watched, current, closes, mishaps >>
      BY <2>1 DEF batchVars, batchRows, runs, loopState
    <3>2. InState(OpenItem)' = InState(OpenItem)
      BY <3>1 DEF InState
    <3> QED BY <1>2, <3>1, <3>2 DEF MindedInv, Minded, BatchIsAttended
  <2> QED BY <1>2, <2>1, OthersKeep, LoopKeeps DEF BatchNext
<1>3. MindedInv => BatchIsAttended
  BY DEF MindedInv
<1> QED BY <1>1, <1>2, <1>3, BatchesStay, PTL DEF BatchSpec

----------------------------------------------------------------------------
(* The deliveries of an activity.                                          *)


\* The row and the deliveries only ever hold an answer of the right sort.
AnswerKinds ==
    /\ row.status = "NONE" => row.attempt = 0
    /\ row.status = "SUCCEEDED" => row.answer \in Outcomes
    /\ row.status = "FAILED" => row.answer \in Failures
    /\ \A d \in Deliveries :
        /\ dlv[d].pc = "completing" => dlv[d].answer \in Outcomes
        /\ dlv[d].pc = "failing" => dlv[d].answer \in Failures

AnswerInv == LeaseTypeOK /\ AnswerKinds /\ OneOutcome /\ FailuresReplayed

----------------------------------------------------------------------------
(* Facts about the SQL functions.                                          *)

\* claim acquires only a key with no outcome, at an attempt that is not an
\* older one, and at a later attempt than a failed one.
LEMMA AcquireFacts ==
    ASSUME row \in Row, NEW d \in Deliveries, dlv[d].attempt \in Nat,
           Disposition(d) = "ACQUIRED"
    PROVE  /\ row.status # "SUCCEEDED"
           /\ row.attempt <= dlv[d].attempt \/ row.status = "NONE"
           /\ row.status = "FAILED" => row.attempt < dlv[d].attempt
           /\ \/ Claimed(d) = row /\ row.status = "LEASED"
              \/ Claimed(d) = Leased(Input, dlv[d].attempt, d)
  <1>1. row.attempt \in Nat
    BY DEF Row
  <1>2. row.status # "SUCCEEDED"
    BY DEF Disposition, ClaimDisposition
  <1>3. row.status = "NONE" \/ ~(dlv[d].attempt < row.attempt)
    BY DEF Disposition, ClaimDisposition
  <1>4. row.status = "FAILED" => dlv[d].attempt # row.attempt
    BY DEF Disposition, ClaimDisposition
  <1>5. \/ Claimed(d) = row /\ row.status = "LEASED"
        \/ Claimed(d) = Leased(Input, dlv[d].attempt, d)
    BY DEF Claimed, RowAfterClaim, Disposition
  <1> QED BY <1>1, <1>2, <1>3, <1>4, <1>5

\* complete and fail leave the row as it is, or close the lease the caller owns.
LEMMA CompleteFacts ==
    ASSUME row \in Row, NEW d \in Deliveries, MayComplete(d)
    PROVE  \/ /\ CompletedRow(d) = row
              /\ row.status = "SUCCEEDED" /\ row.answer = dlv[d].answer
           \/ /\ OwnsLease(d)
              /\ CompletedRow(d) = Closed(row, "SUCCEEDED", dlv[d].answer)
  BY DEF MayComplete, CompleteAccepted, AlreadyCompleted, CompletedRow,
         RowAfterComplete, OwnsLease

\* The same of fail, whose repeat is tied to the attempt as well.
LEMMA FailFacts ==
    ASSUME row \in Row, NEW d \in Deliveries, MayFail(d)
    PROVE  \/ /\ FailedRow(d) = row
              /\ row.status = "FAILED" /\ row.attempt = dlv[d].attempt
              /\ row.answer = dlv[d].answer
           \/ /\ OwnsLease(d)
              /\ FailedRow(d) = Closed(row, "FAILED", dlv[d].answer)
  BY DEF MayFail, FailAccepted, AlreadyFailed, FailedRow, RowAfterFail, OwnsLease

----------------------------------------------------------------------------
(* Type correctness.                                                       *)

\* The initial state is typed.
LEMMA LeaseTypesInit == LeaseInit => LeaseTypeOK
  BY LeaseAssumption DEF LeaseInit, LeaseTypeOK, Row, Delivery, Pcs, CallAnswers, NoExecution

\* Every step of claim, renewal, completion, failure or time keeps the types.
LEMMA LeaseTypesNext == LeaseTypeOK /\ [LeaseNext]_leaseVars => LeaseTypeOK'
  <1> SUFFICES ASSUME LeaseTypeOK, [LeaseNext]_leaseVars PROVE LeaseTypeOK'
    OBVIOUS
  <1> USE LeaseAssumption DEF LeaseTypeOK
  <1>0. /\ StoreFailure \in CallAnswers /\ NoAnswer \in CallAnswers
        /\ Outcomes \subseteq CallAnswers /\ Failures \subseteq CallAnswers
        /\ row.answer \in CallAnswers
        /\ \A d \in Deliveries : dlv[d] \in Delivery /\ dlv[d].answer \in CallAnswers
    BY DistinctValues DEF CallAnswers, Row, Delivery
  <1>1. ASSUME NEW d \in Deliveries, Step(d) PROVE LeaseTypeOK'
    <2>1. ASSUME NEW pc \in Pcs, NEW a \in CallAnswers, Become(d, pc, a)
          PROVE  dlv' \in [Deliveries -> Delivery]
      BY <1>0, <2>1 DEF Become, Delivery
    <2>2. ASSUME Fresh(d) PROVE ttl' \in 0..LeaseTicks /\ due' \in [Deliveries -> 0..RenewTicks]
      BY <2>2 DEF Fresh
    <2>3. Claimed(d) \in Row
      BY <1>0 DEF Claimed, RowAfterClaim, Leased, Row, Delivery, CallAnswers
    <2>4. CompletedRow(d) \in Row
      BY <1>0 DEF CompletedRow, RowAfterComplete, Closed, Row
    <2>5. FailedRow(d) \in Row
      BY <1>0 DEF FailedRow, RowAfterFail, Closed, Row
    <2>6. CASE Deliver(d) \/ Redeliver(d)
      BY <1>0, <2>6 DEF Deliver, Redeliver, Delivery, Pcs
    <2>7. CASE Acquire(d)
      BY <1>0, <2>1, <2>2, <2>3, <2>7 DEF Acquire, Pcs
    <2>8. CASE Replay(d) \/ FindBusy(d)
      BY <1>0, <2>1, <2>8 DEF Replay, FindBusy, Pcs
    <2>9. CASE ClaimUnavailable(d)
      BY <1>0, <2>1, <2>3, <2>9 DEF ClaimUnavailable, Pcs
    <2>10. CASE Renew(d)
      BY <2>2, <2>10 DEF Renew
    <2>11. CASE LoseLease(d)
      <3>1. [dlv[d] EXCEPT !.lost = TRUE] \in Delivery
        BY <1>0 DEF Delivery
      <3>2. dlv' \in [Deliveries -> Delivery]
        BY <2>11, <3>1 DEF LoseLease
      <3>3. ttl' \in 0..LeaseTicks
        BY <2>11 DEF LoseLease
      <3> QED BY <2>11, <3>2, <3>3 DEF LoseLease
    <2>12. CASE FinishCall(d)
      BY <1>0, <2>1, <2>12 DEF FinishCall, Pcs
    <2>13. CASE Raise(d)
      BY <1>0, <2>1, <2>13 DEF Raise, Pcs
    <2>14. CASE StopLost(d) \/ CrashCall(d) \/ Conflict(d)
      BY <1>0, <2>1, <2>14 DEF StopLost, CrashCall, Conflict, Pcs
    <2>15. CASE Complete(d)
      BY <1>0, <2>1, <2>4, <2>15 DEF Complete, Pcs
    <2>16. CASE CompleteUnavailable(d)
      BY <1>0, <2>1, <2>4, <2>16 DEF CompleteUnavailable, Pcs
    <2>17. CASE RecordFailure(d)
      BY <1>0, <2>1, <2>5, <2>17 DEF RecordFailure, Pcs
    <2>18. CASE RecordUnavailable(d)
      BY <1>0, <2>1, <2>5, <2>18 DEF RecordUnavailable, Pcs
    <2> QED
      BY <1>1, <2>6, <2>7, <2>8, <2>9, <2>10, <2>11, <2>12, <2>13, <2>14,
         <2>15, <2>16, <2>17, <2>18 DEF Step
  <1>2. CASE NextAttempt
    BY <1>2 DEF NextAttempt
  <1>3. CASE Tick
    BY <1>3 DEF Tick, Down
  <1>4. CASE UNCHANGED leaseVars
    BY <1>4 DEF leaseVars
  <1> QED BY <1>1, <1>2, <1>3, <1>4 DEF LeaseNext

\* LeaseTypeOK holds in every behaviour.
THEOREM LeaseTypeCorrect == LeaseSpec => []LeaseTypeOK
  BY LeaseTypesInit, LeaseTypesNext, PTL DEF LeaseSpec

----------------------------------------------------------------------------
(* What deliveries answer.                                                 *)

\* One step of a delivery changes no other delivery.
LEMMA OthersUnchanged ==
    ASSUME LeaseTypeOK, NEW d \in Deliveries, Step(d), NEW e \in Deliveries, e # d
    PROVE  dlv'[e] = dlv[e]
  BY DEF LeaseTypeOK, Step, Deliver, Redeliver, Acquire, Replay, FindBusy,
         ClaimUnavailable, Renew, LoseLease, FinishCall, Raise, StopLost, CrashCall,
         Complete, CompleteUnavailable, RecordFailure, RecordUnavailable,
         Conflict, Become

\* However a step of d changes the row, it keeps what the row has answered:
\* an outcome stays, and a failed attempt stays until a later one starts.
RowKept ==
    /\ row.status = "SUCCEEDED" => row' = row
    /\ row.status = "FAILED" => row' = row \/ row'.attempt > row.attempt
    /\ row'.attempt >= row.attempt \/ row.status = "NONE"

\* What one step can do to the row: keep it, advance it, never rewrite an answer.
LEMMA LeaseRowStep ==
    ASSUME LeaseTypeOK, AnswerKinds, [LeaseNext]_leaseVars
    PROVE  /\ RowKept
           /\ row'.status = "NONE" => row'.attempt = 0
           /\ row'.status = "SUCCEEDED" => row'.answer \in Outcomes
           /\ row'.status = "FAILED" => row'.answer \in Failures
  <1> USE DEF LeaseTypeOK
  <1>0. row \in Row /\ row.attempt \in Nat
    BY LeaseAssumption DEF Row
  <1>1. ASSUME row' = row
        PROVE  /\ RowKept
               /\ row'.status = "NONE" => row'.attempt = 0
               /\ row'.status = "SUCCEEDED" => row'.answer \in Outcomes
               /\ row'.status = "FAILED" => row'.answer \in Failures
    BY <1>0, <1>1 DEF RowKept, AnswerKinds
  <1>2. ASSUME NEW d \in Deliveries, Disposition(d) = "ACQUIRED", row' = Claimed(d)
        PROVE  /\ RowKept
               /\ row'.status = "NONE" => row'.attempt = 0
               /\ row'.status = "SUCCEEDED" => row'.answer \in Outcomes
               /\ row'.status = "FAILED" => row'.answer \in Failures
    <2>1. dlv[d].attempt \in Nat
      BY LeaseAssumption DEF Delivery
    <2>2. CASE row' = row
      BY <1>1, <2>2
    <2>3. CASE row' = Leased(Input, dlv[d].attempt, d)
      BY <1>0, <1>2, <2>1, <2>3, AcquireFacts DEF RowKept, Leased
    <2> QED BY <1>0, <1>2, <2>1, <2>2, <2>3, AcquireFacts
  <1>3. ASSUME NEW d \in Deliveries, MayComplete(d), dlv[d].pc = "completing",
               row' = CompletedRow(d)
        PROVE  /\ RowKept
               /\ row'.status = "NONE" => row'.attempt = 0
               /\ row'.status = "SUCCEEDED" => row'.answer \in Outcomes
               /\ row'.status = "FAILED" => row'.answer \in Failures
    <2>1. CASE row' = row
      BY <1>1, <2>1
    <2>2. CASE OwnsLease(d) /\ row' = Closed(row, "SUCCEEDED", dlv[d].answer)
      <3>1. row.status = "LEASED"
        BY <2>2 DEF OwnsLease, Owns
      <3>2. /\ row'.status = "SUCCEEDED" /\ row'.answer = dlv[d].answer
            /\ row'.attempt = row.attempt
        BY <1>0, <2>2 DEF Closed, Row
      <3>3. dlv[d].answer \in Outcomes
        BY <1>3 DEF AnswerKinds
      <3> QED BY <1>0, <3>1, <3>2, <3>3 DEF RowKept
    <2> QED BY <1>0, <1>3, <2>1, <2>2, CompleteFacts
  <1>4. ASSUME NEW d \in Deliveries, MayFail(d), dlv[d].pc = "failing",
               row' = FailedRow(d)
        PROVE  /\ RowKept
               /\ row'.status = "NONE" => row'.attempt = 0
               /\ row'.status = "SUCCEEDED" => row'.answer \in Outcomes
               /\ row'.status = "FAILED" => row'.answer \in Failures
    <2>1. CASE row' = row
      BY <1>1, <2>1
    <2>2. CASE OwnsLease(d) /\ row' = Closed(row, "FAILED", dlv[d].answer)
      <3>1. row.status = "LEASED"
        BY <2>2 DEF OwnsLease, Owns
      <3>2. /\ row'.status = "FAILED" /\ row'.answer = dlv[d].answer
            /\ row'.attempt = row.attempt
        BY <1>0, <2>2 DEF Closed, Row
      <3>3. dlv[d].answer \in Failures
        BY <1>4 DEF AnswerKinds
      <3> QED BY <1>0, <3>1, <3>2, <3>3 DEF RowKept
    <2> QED BY <1>0, <1>4, <2>1, <2>2, FailFacts
  <1>5. ASSUME NEW d \in Deliveries, Step(d)
        PROVE  \/ row' = row
               \/ Disposition(d) = "ACQUIRED" /\ row' = Claimed(d)
               \/ MayComplete(d) /\ dlv[d].pc = "completing" /\ row' = CompletedRow(d)
               \/ MayFail(d) /\ dlv[d].pc = "failing" /\ row' = FailedRow(d)
    BY <1>5 DEF Step, Deliver, Redeliver, Acquire, Replay, FindBusy,
         ClaimUnavailable, Renew, LoseLease, FinishCall, Raise, StopLost, CrashCall,
         Complete, CompleteUnavailable, RecordFailure, RecordUnavailable, Conflict
  <1>6. CASE NextAttempt \/ Tick \/ UNCHANGED leaseVars
    BY <1>1, <1>6 DEF NextAttempt, Tick, leaseVars
  <1>7. CASE \E d \in Deliveries : Step(d)
    BY <1>1, <1>2, <1>3, <1>4, <1>5, <1>7
  <1> QED BY <1>6, <1>7 DEF LeaseNext

\* The answers agree at the start: there are none.
LEMMA AnswerInit == LeaseInit => AnswerInv
  BY LeaseTypesInit DEF LeaseInit, AnswerInv, AnswerKinds, OneOutcome, FailuresReplayed,
     AnsweredOutcome, AnsweredFailure, NoExecution

\* What a step of d leaves in dlv[d], where it answers something or is about
\* to store something.
LEMMA OwnStep ==
    ASSUME LeaseTypeOK, AnswerKinds, NEW d \in Deliveries, Step(d)
    PROVE  /\ dlv'[d].pc = "completing" => dlv'[d].answer \in Outcomes
           /\ dlv'[d].pc = "failing" => dlv'[d].answer \in Failures
           /\ dlv'[d].pc = "answered" =>
                \/ /\ dlv'[d].answer \in Outcomes
                   /\ row'.status = "SUCCEEDED" /\ row'.answer = dlv'[d].answer
                \/ /\ dlv'[d].answer \in Failures /\ row'.status = "FAILED"
                   /\ row'.answer = dlv'[d].answer
                   /\ row'.attempt = dlv'[d].attempt
  <1> USE DEF LeaseTypeOK
  <1>0. dlv[d] \in Delivery /\ row \in Row
    OBVIOUS
  <1>1. ASSUME NEW pc, NEW a, Become(d, pc, a)
        PROVE  /\ dlv'[d].pc = pc /\ dlv'[d].answer = a
               /\ dlv'[d].attempt = dlv[d].attempt
    BY <1>0, <1>1 DEF Become, Delivery
  <1>2. CASE Deliver(d) \/ Redeliver(d) \/ LoseLease(d) \/ Renew(d)
    <2>1. dlv'[d].pc \in {"claiming", "running"}
      BY <1>0, <1>2 DEF Deliver, Redeliver, LoseLease, Renew, Renewing, Delivery
    <2> QED BY <2>1
  <1>3. CASE Acquire(d) \/ FindBusy(d) \/ ClaimUnavailable(d) \/ StopLost(d)
             \/ CrashCall(d) \/ Conflict(d) \/ RecordUnavailable(d)
    <2>1. dlv'[d].pc \in {"running", "busy", "gave_up", "crashed"}
      BY <1>1, <1>3 DEF Acquire, FindBusy, ClaimUnavailable, StopLost, CrashCall,
                        Conflict, RecordUnavailable
    <2> QED BY <2>1
  <1>4. CASE Replay(d)
    <2>1. /\ dlv'[d].pc = "answered" /\ dlv'[d].answer = row.answer /\ row' = row
          /\ dlv'[d].attempt = dlv[d].attempt
      BY <1>1, <1>4 DEF Replay
    <2>2. \/ row.status = "SUCCEEDED"
          \/ row.status = "FAILED" /\ row.attempt = dlv[d].attempt
      BY <1>4 DEF Replay, Disposition, ClaimDisposition
    <2> QED BY <2>1, <2>2 DEF AnswerKinds
  <1>5. CASE FinishCall(d)
    <2>1. PICK o \in Outcomes : Become(d, "completing", o)
      BY <1>5 DEF FinishCall
    <2> QED BY <1>1, <2>1
  <1>6. CASE Raise(d)
    <2>1. PICK f \in Failures : Become(d, "failing", f)
      BY <1>6 DEF Raise
    <2> QED BY <1>1, <2>1
  <1>7. CASE Complete(d)
    <2>1. /\ dlv'[d].pc = "answered" /\ dlv'[d].answer = dlv[d].answer
          /\ dlv[d].answer \in Outcomes /\ row' = CompletedRow(d) /\ MayComplete(d)
      BY <1>1, <1>7 DEF Complete, AnswerKinds
    <2>2. row'.status = "SUCCEEDED" /\ row'.answer = dlv[d].answer
      BY <1>0, <2>1, CompleteFacts DEF Closed, Row
    <2> QED BY <2>1, <2>2
  <1>8. CASE CompleteUnavailable(d)
    BY <1>1, <1>8, DistinctValues DEF CompleteUnavailable
  <1>9. CASE RecordFailure(d)
    <2>1. /\ dlv'[d].pc = "answered" /\ dlv'[d].answer = dlv[d].answer
          /\ dlv'[d].attempt = dlv[d].attempt
          /\ dlv[d].answer \in Failures /\ row' = FailedRow(d) /\ MayFail(d)
      BY <1>1, <1>9 DEF RecordFailure, AnswerKinds
    <2>2. /\ row'.status = "FAILED" /\ row'.answer = dlv[d].answer
          /\ row'.attempt = dlv[d].attempt
      BY <1>0, <2>1, FailFacts DEF Closed, Row, OwnsLease, Owns
    <2> QED BY <2>1, <2>2
  <1> QED
    BY <1>2, <1>3, <1>4, <1>5, <1>6, <1>7, <1>8, <1>9 DEF Step

\* Every step keeps the agreement between the row and the answers given.
LEMMA AnswerNext == AnswerInv /\ [LeaseNext]_leaseVars => AnswerInv'
  <1> SUFFICES ASSUME AnswerInv, [LeaseNext]_leaseVars PROVE AnswerInv'
    OBVIOUS
  <1> USE DEF AnswerInv
  <1>0. LeaseTypeOK' /\ row \in Row /\ row' \in Row
    BY LeaseTypesNext DEF LeaseTypeOK
  <1>1. /\ RowKept
        /\ row'.status = "NONE" => row'.attempt = 0
        /\ row'.status = "SUCCEEDED" => row'.answer \in Outcomes
        /\ row'.status = "FAILED" => row'.answer \in Failures
    BY LeaseRowStep
  <1>2. \A e \in Deliveries : AnsweredOutcome(e) =>
            row'.status = "SUCCEEDED" /\ row'.answer = dlv[e].answer
    BY <1>1 DEF OneOutcome, RowKept
  <1>3. \A e \in Deliveries : AnsweredFailure(e) =>
            \/ row'.attempt > dlv[e].attempt
            \/ /\ row'.attempt = dlv[e].attempt /\ row'.status = "FAILED"
               /\ row'.answer = dlv[e].answer
    <2> SUFFICES ASSUME NEW e \in Deliveries, AnsweredFailure(e)
                 PROVE  \/ row'.attempt > dlv[e].attempt
                        \/ /\ row'.attempt = dlv[e].attempt /\ row'.status = "FAILED"
                           /\ row'.answer = dlv[e].answer
      OBVIOUS
    <2>1. dlv[e].attempt \in Nat /\ row.attempt \in Nat /\ row'.attempt \in Nat
      BY <1>0, LeaseAssumption DEF LeaseTypeOK, Delivery, Row
    <2>2. row'.attempt >= row.attempt
      BY <1>1, <2>1 DEF RowKept, AnswerKinds
    <2> QED BY <1>1, <2>1, <2>2 DEF FailuresReplayed, RowKept
  <1>4. CASE \E d \in Deliveries : Step(d)
    <2>1. PICK d \in Deliveries : Step(d)
      BY <1>4
    <2>2. \A e \in Deliveries : e # d => dlv'[e] = dlv[e]
      BY <2>1, OthersUnchanged
    <2>3. AnswerKinds'
      BY <1>1, <2>1, <2>2, OwnStep DEF AnswerKinds
    <2>4. OneOutcome'
      BY <1>2, <2>1, <2>2, OwnStep, DistinctValues DEF OneOutcome, AnsweredOutcome
    <2>5. FailuresReplayed'
      BY <1>3, <2>1, <2>2, OwnStep, DistinctValues
         DEF FailuresReplayed, AnsweredFailure
    <2> QED BY <1>0, <2>3, <2>4, <2>5
  <1>5. CASE NextAttempt \/ Tick \/ UNCHANGED leaseVars
    <2>1. dlv' = dlv
      BY <1>5 DEF NextAttempt, Tick, leaseVars
    <2> QED BY <1>0, <1>1, <1>2, <1>3, <2>1
            DEF AnswerKinds, OneOutcome, FailuresReplayed, AnsweredOutcome, AnsweredFailure
  <1> QED BY <1>4, <1>5 DEF LeaseNext

\* AnswerInv is inductive.
THEOREM AnswersConsistent == LeaseSpec => []AnswerInv
  BY AnswerInit, AnswerNext, PTL DEF LeaseSpec

\* Every outcome that any delivery answers is the one outcome of the row.
THEOREM OutcomesAgree == LeaseSpec => []OneOutcome
  BY AnswersConsistent, PTL DEF AnswerInv

\* A recorded failure of an attempt is replayed, never contradicted.
THEOREM FailureReplay == LeaseSpec => []FailuresReplayed
  BY AnswersConsistent, PTL DEF AnswerInv

\* A stored outcome is never replaced.
THEOREM FinalOutcome == LeaseSpec => OutcomeIsFinal
  <1>1. AnswerInv /\ [LeaseNext]_leaseVars => [row.status = "SUCCEEDED" => row' = row]_leaseVars
    BY LeaseRowStep DEF AnswerInv, RowKept
  <1> QED BY <1>1, AnswersConsistent, PTL DEF LeaseSpec, OutcomeIsFinal

----------------------------------------------------------------------------
(* Tokens are fresh: a delivery that has not claimed has no lease.         *)

NotClaimed(d) == dlv[d].pc \in {"idle", "claiming", "busy"}

FreshTokens == LeaseTypeOK /\ \A d \in Deliveries : NotClaimed(d) => row.token # d

\* A token is in the row only after its delivery has claimed.
LEMMA FreshNext == FreshTokens /\ [LeaseNext]_leaseVars => FreshTokens'
  <1> SUFFICES ASSUME FreshTokens, [LeaseNext]_leaseVars,
                      NEW d \in Deliveries, NotClaimed(d)'
               PROVE  row'.token # d
    BY LeaseTypesNext DEF FreshTokens
  <1> USE DEF FreshTokens, NotClaimed
  <1>0. LeaseTypeOK /\ row \in Row /\ d # NoToken
    BY DistinctValues DEF LeaseTypeOK
  <1>1. ASSUME NEW e \in Deliveries, Step(e)
        PROVE  \/ row'.token \in {row.token, NoToken}
               \/ row'.token = e /\ (Acquire(e) \/ ClaimUnavailable(e))
    <2>1. Disposition(e) = "ACQUIRED" => Claimed(e).token \in {row.token, e}
      BY <1>0 DEF Claimed, RowAfterClaim, Leased
    <2>2. CompletedRow(e).token \in {row.token, NoToken} /\ FailedRow(e).token \in {row.token, NoToken}
      BY <1>0 DEF CompletedRow, RowAfterComplete, FailedRow, RowAfterFail, Closed, Row
    <2> QED
      BY <1>1, <2>1, <2>2
         DEF Step, Deliver, Redeliver, Acquire, Replay, FindBusy, ClaimUnavailable,
             Renew, LoseLease, FinishCall, Raise, StopLost, CrashCall, Complete,
             CompleteUnavailable, RecordFailure, RecordUnavailable, Conflict
  <1>2. CASE \E e \in Deliveries : Step(e)
    <2>1. PICK e \in Deliveries : Step(e)
      BY <1>2
    <2>2. CASE e # d
      <3>1. dlv'[d] = dlv[d]
        BY <1>0, <2>1, <2>2, OthersUnchanged
      <3> QED BY <1>0, <1>1, <2>1, <2>2, <3>1
    <2>3. CASE e = d
      <3>1. NotClaimed(d) /\ ~Acquire(d) /\ ~ClaimUnavailable(d)
        BY <1>0, <2>1, <2>3
           DEF LeaseTypeOK, Delivery, Step, Deliver, Redeliver, Acquire, Replay, FindBusy,
               ClaimUnavailable, Renew, LoseLease, FinishCall, Raise, StopLost, CrashCall,
               Complete, CompleteUnavailable, RecordFailure, RecordUnavailable,
               Conflict, Become, Renewing
      <3> QED BY <1>0, <1>1, <2>1, <2>3, <3>1
    <2> QED BY <2>2, <2>3
  <1>3. CASE NextAttempt \/ Tick \/ UNCHANGED leaseVars
    BY <1>3 DEF NextAttempt, Tick, leaseVars
  <1> QED BY <1>2, <1>3 DEF LeaseNext

----------------------------------------------------------------------------
(* Exclusion of paid calls, when renewals are timely.                      *)

\* A running delivery owns the lease, and its renewer will wake up
\* LeaseTicks - RenewTicks before the lease runs out.
HoldsLease(d) ==
    /\ OwnsLease(d)
    /\ ttl - due[d] = LeaseTicks - RenewTicks

ExclusionInv ==
    /\ LeaseTypeOK /\ FreshTokens
    /\ \A d \in Deliveries : /\ ~dlv[d].lost
                             /\ dlv[d].pc = "running" => HoldsLease(d)

\* While a delivery runs, no other one is given the key.
LEMMA RunningExcludes ==
    ASSUME ExclusionInv, NEW d \in Deliveries, dlv[d].pc = "running",
           NEW e \in Deliveries, e # d
    PROVE  /\ Live /\ row.status = "LEASED" /\ row.token = d
           /\ Disposition(e) # "ACQUIRED"
           /\ ~OwnsLease(e)
  <1> USE LeaseAssumption DEF ExclusionInv, LeaseTypeOK
  <1>1. /\ ttl \in Nat /\ due[d] \in Nat /\ ttl - due[d] = LeaseTicks - RenewTicks
        /\ row.status = "LEASED" /\ row.token = d
    BY DEF HoldsLease, OwnsLease, Owns
  <1>2. Live
    BY <1>1 DEF Live
  <1> QED BY <1>1, <1>2 DEF Disposition, ClaimDisposition, OwnsLease, Owns

\* No delivery runs at the start.
LEMMA ExclusionInit == LeaseInit => ExclusionInv
  BY LeaseTypesInit, DistinctValues DEF LeaseInit, ExclusionInv, FreshTokens, NoExecution

\* With timely renewals, every step leaves the lease with the one that runs.
LEMMA ExclusionNext ==
    ASSUME Timely PROVE ExclusionInv /\ [LeaseNext]_leaseVars => ExclusionInv'
  <1> SUFFICES ASSUME ExclusionInv, [LeaseNext]_leaseVars PROVE ExclusionInv'
    OBVIOUS
  <1>0. LeaseTypeOK /\ LeaseTypeOK' /\ FreshTokens /\ FreshTokens'
    BY LeaseTypesNext, FreshNext DEF ExclusionInv
  <1> SUFFICES ASSUME NEW d \in Deliveries
               PROVE  ~dlv'[d].lost /\ (dlv'[d].pc = "running" => HoldsLease(d)')
    BY <1>0 DEF ExclusionInv
  <1>1. ASSUME dlv'[d] = dlv[d], dlv[d].pc = "running" =>
                   row' = row /\ ttl' = ttl /\ due'[d] = due[d]
        PROVE  ~dlv'[d].lost /\ (dlv'[d].pc = "running" => HoldsLease(d)')
    BY <1>1 DEF ExclusionInv, HoldsLease, OwnsLease, Owns
  <1>2. ASSUME NEW e \in Deliveries, Step(e), e # d
        PROVE  ~dlv'[d].lost /\ (dlv'[d].pc = "running" => HoldsLease(d)')
    <2>1. dlv'[d] = dlv[d]
      BY <1>0, <1>2, OthersUnchanged
    <2>2. ASSUME dlv[d].pc = "running"
          PROVE  row' = row /\ ttl' = ttl /\ due'[d] = due[d]
      <3>1. Disposition(e) # "ACQUIRED" /\ ~OwnsLease(e) /\ row.status = "LEASED"
        BY <1>2, <2>2, RunningExcludes
      <3>2. row \in Row
        BY <1>0 DEF LeaseTypeOK
      <3>3. MayComplete(e) => CompletedRow(e) = row
        BY <3>1, <3>2, CompleteFacts
      <3>4. MayFail(e) => FailedRow(e) = row
        BY <3>1, <3>2, FailFacts
      <3> QED
        BY <1>2, <3>1, <3>3, <3>4
           DEF Step, Deliver, Redeliver, Acquire, Replay, FindBusy, ClaimUnavailable,
               Renew, LoseLease, FinishCall, Raise, StopLost, CrashCall, Complete,
               CompleteUnavailable, RecordFailure, RecordUnavailable, Conflict
    <2> QED BY <1>1, <2>1, <2>2
  <1>3. ASSUME Step(d)
        PROVE  ~dlv'[d].lost /\ (dlv'[d].pc = "running" => HoldsLease(d)')
    <2> USE <1>0 DEF LeaseTypeOK
    <2>0. ~dlv[d].lost /\ (dlv[d].pc = "running" => OwnsLease(d))
      BY DEF ExclusionInv, HoldsLease
    <2>1. ~dlv'[d].lost
      BY <1>3, <2>0
         DEF Delivery, Step, Deliver, Redeliver, Acquire, Replay, FindBusy,
             ClaimUnavailable, Renew, LoseLease, FinishCall, Raise, StopLost, CrashCall,
             Complete, CompleteUnavailable, RecordFailure, RecordUnavailable,
             Conflict, Become, Renewing
    <2>2. CASE Acquire(d)
      <3>1. dlv'[d].attempt = dlv[d].attempt /\ ttl' = LeaseTicks /\ due'[d] = RenewTicks
        BY <2>2 DEF Acquire, Become, Fresh, Delivery
      <3>2. row' = Claimed(d) /\ Disposition(d) = "ACQUIRED" /\ dlv[d].attempt \in Nat
        BY <2>2, LeaseAssumption DEF Acquire, Delivery
      <3>3. row.token # d
        BY <1>0, <2>2 DEF Acquire, FreshTokens, NotClaimed
      <3>4. Owns(row', Input, dlv'[d].attempt, d)
        BY <3>1, <3>2, <3>3 DEF Claimed, RowAfterClaim, Owns, Leased, Disposition
      <3> QED BY <2>1, <3>1, <3>4 DEF HoldsLease, OwnsLease
    <2>3. CASE Renew(d)
      <3>1. /\ row' = row /\ dlv' = dlv /\ OwnsLease(d)
            /\ ttl' = LeaseTicks /\ due'[d] = RenewTicks
        BY <2>3 DEF Renew, Fresh
      <3> QED BY <2>1, <3>1 DEF HoldsLease, OwnsLease
    <2>4. CASE ~Acquire(d) /\ ~Renew(d)
      <3>1. dlv'[d].pc # "running"
        BY <1>3, <2>0, <2>4
           DEF Delivery, Step, Deliver, Redeliver, Replay, FindBusy, ClaimUnavailable,
               LoseLease, FinishCall, Raise, StopLost, CrashCall, Complete,
               CompleteUnavailable, RecordFailure, RecordUnavailable, Conflict, Become
      <3> QED BY <2>1, <3>1
    <2> QED BY <2>2, <2>3, <2>4
  <1>4. CASE Tick
    <2>1. row' = row /\ dlv' = dlv
      BY <1>4 DEF Tick
    <2>2. ASSUME dlv[d].pc = "running" PROVE ttl' - due'[d] = LeaseTicks - RenewTicks
      <3>1. /\ due[d] > 0 /\ ttl' = Down(ttl) /\ due'[d] = Down(due[d])
            /\ ttl - due[d] = LeaseTicks - RenewTicks
        BY <1>0, <1>4, <2>2 DEF Tick, Renewing, ExclusionInv, HoldsLease, LeaseTypeOK
      <3> QED BY <1>0, <3>1, LeaseAssumption DEF Down, LeaseTypeOK
    <2> QED BY <2>1, <2>2 DEF ExclusionInv, HoldsLease, OwnsLease
  <1>5. CASE NextAttempt \/ UNCHANGED leaseVars
    BY <1>1, <1>5 DEF NextAttempt, leaseVars
  <1> QED BY <1>1, <1>2, <1>3, <1>4, <1>5 DEF LeaseNext

\* With timely renewals the paid call of a key runs in one delivery at a time,
\* however many deliveries and attempts there are.
THEOREM PaidCallsExclusive ==
    ASSUME Timely PROVE LeaseSpec => []NoConcurrentPaidCalls
  <1>1. ExclusionInv => NoConcurrentPaidCalls
    BY RunningExcludes DEF ExclusionInv, NoConcurrentPaidCalls, HoldsLease, OwnsLease, Owns
  <1>2. ExclusionInv /\ [LeaseNext]_leaseVars => ExclusionInv'
    BY ExclusionNext
  <1> QED BY <1>1, <1>2, ExclusionInit, PTL DEF LeaseSpec
=============================================================================
