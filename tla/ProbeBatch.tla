---------------------------- MODULE ProbeBatch ----------------------------
(***************************************************************************)
(* A batch probes several models of one channel, each by a run of its own  *)
(* (web/control_service.py, web/postgres_control_store.py).  A background  *)
(* loop reads the batch, starts runs for the items that are PENDING, up to *)
(* max_concurrency, polls the runs it has started and closes the batch     *)
(* when every item is over.  The loop and the runs share an executor with  *)
(* everything else the process does in the background.                     *)
(*                                                                         *)
(* Of a run (LocalRun) only its row and whether it occupies a worker count *)
(* here.  Only the loop writes items, so what it reads of them stays true; *)
(* the runs, the request to cancel and the end of the process do not wait. *)
(***************************************************************************)
EXTENDS Integers, FiniteSets, FiniteSetsExt

CONSTANTS
    BatchSize,      \* how many models the batch has
    Cap,            \* max_concurrency
    Workers,        \* of the executor
    MaxMishaps      \* calls of the loop that fail, and runs that are purged under it

ASSUME BatchAssumption ==
    /\ BatchSize \in Nat \ {0} /\ Cap \in Nat \ {0} /\ Workers \in Nat \ {0} /\ MaxMishaps \in Nat

VARIABLES
    batchRow,       \* its row: state, and whether a cancel is requested
    item,           \* the state of each item, and whether it names its run
    child,          \* the row of each run
    worker,         \* where the execution of each run is
    others,         \* how many workers have other work: loops, runs, retries of a cancel
    loop,           \* where _execute_probe_batch is
    pending, watched,   \* its variables
    current,        \* the item it is starting
    closes,         \* the service is closing
    mishaps

batchRows == << batchRow, item >>
runs      == << child, worker, others >>
loopState == << loop, pending, watched, current >>
batchVars == << batchRows, runs, loopState, closes, mishaps >>

Items       == 1..BatchSize
OpenItem    == {"PENDING", "RUNNING"}
OverBatch   == {"CANCELLED", "PARTIAL", "COMPLETED", "FAILED"}
OverRun     == {"PASSED", "ASSERTED", "FAILED", "CANCELLED"}     \* ASSERTED: COMPLETED, FAIL
BatchInit ==
    /\ batchRow = [state |-> "NONE", cancel |-> FALSE]
    /\ item = [i \in Items |-> [state |-> "NONE", run |-> FALSE]]
    /\ child = [i \in Items |-> "NONE"] /\ worker = [i \in Items |-> "none"] /\ others = 0
    /\ loop = "none" /\ pending = {} /\ watched = {} /\ current = 0
    /\ closes = FALSE /\ mishaps = 0

Mishap == mishaps < MaxMishaps /\ mishaps' = mishaps + 1

Loop(from, to) == loop = from /\ loop' = to

InState(states) == {i \in Items : item[i].state \in states}

\* finish_probe_batch_item, with the state each item ends in; one that is over stays.
FinishItems(ends) ==
    item' = [i \in Items |-> IF i \in DOMAIN ends /\ item[i].state \in OpenItem
                             THEN [item[i] EXCEPT !.state = ends[i]] ELSE item[i]]

----------------------------------------------------------------------------
(* Requests.                                                               *)

\* create_probe_batch, once for an idempotency key.
CreateBatch ==
    /\ batchRow.state = "NONE" /\ ~closes
    /\ batchRow' = [batchRow EXCEPT !.state = "RUNNING"]
    /\ item' = [i \in Items |-> [item[i] EXCEPT !.state = "PENDING"]]
    /\ UNCHANGED << runs, loopState, closes, mishaps >>

\* A batch that only lists the catalog is created COMPLETED, its items too.
CreateCatalogOnly ==
    /\ batchRow.state = "NONE" /\ ~closes
    /\ batchRow' = [batchRow EXCEPT !.state = "COMPLETED"]
    /\ item' = [i \in Items |-> [item[i] EXCEPT !.state = "COMPLETED"]]
    /\ UNCHANGED << runs, loopState, closes, mishaps >>

\* start_probe_batch gives it to the executor, which may have been shut down.
SubmitBatch ==
    /\ batchRow.state = "RUNNING"
    /\ \/ Loop("none", "queued") /\ UNCHANGED mishaps
       \/ Loop("none", "refused") /\ Mishap
    /\ UNCHANGED << batchRows, runs, pending, watched, current, closes >>

\* request_probe_batch_cancel.
RequestBatchCancel ==
    /\ batchRow.state = "RUNNING"
    /\ batchRow' = [batchRow EXCEPT !.cancel = TRUE]
    /\ UNCHANGED << item, runs, loopState, closes, mishaps >>

CloseService ==
    /\ closes' = TRUE
    /\ UNCHANGED << batchRows, runs, loopState, mishaps >>

----------------------------------------------------------------------------
(* The loop.                                                               *)

\* It reads the batchRow.  The items that name their run are watched.
ReadBatch ==
    /\ IF closes \/ batchRow.state # "RUNNING"
       THEN Loop("reading", "ended") /\ UNCHANGED << pending, watched >>
       ELSE /\ Loop("reading", IF batchRow.cancel THEN "cancelling" ELSE "dispatching")
            /\ pending' = InState({"PENDING"})
            /\ watched' = watched \cup {i \in InState({"RUNNING"}) : item[i].run}
    /\ UNCHANGED << batchRows, runs, current, closes, mishaps >>

\* cancel_run of the runs that are watched, up to item last.
CancelRuns(last) ==
    child' = [i \in Items |-> IF i \in watched /\ i <= last /\ child[i] = "RUNNING"
                              THEN "CANCELLED" ELSE child[i]]

\* The batch is to be cancelled: its pending items, and the runs of the others, in
\* their order; from when the service is closing it refuses to cancel a run.
CancelItems ==
    /\ Loop("cancelling", "polling")
    /\ FinishItems([i \in pending |-> "CANCELLED"])
    /\ \E last \in {BatchSize} \cup (IF closes THEN 0..BatchSize ELSE {}) : CancelRuns(last)
    /\ UNCHANGED << batchRow, worker, others, pending, watched, current, closes, mishaps >>

CanDispatch == pending # {} /\ Cardinality(watched) < Cap

\* The handler of a dispatch that raised, by the store's fault or not: the item, which
\* may name its run by now, has FAILED.  When this call is lost as well the loop ends.
GiveUp(i, named, faulty) ==
    \/ /\ item' = [item EXCEPT ![i] = [state |-> "FAILED", run |-> named]]
       /\ loop' = "dispatching"
       /\ IF faulty THEN Mishap ELSE UNCHANGED mishaps
    \/ /\ \E state \in {"FAILED", IF named THEN "RUNNING" ELSE "PENDING"} :
              item' = [item EXCEPT ![i] = [state |-> state, run |-> named]]
       /\ loop' = "dead"
       /\ Mishap

\* The next run is started, unless start_run raises.  It may raise when the run is
\* there: FAILED, or RUNNING, submitted or not.
StartChild ==
    /\ loop = "dispatching" /\ CanDispatch
    /\ LET i == Min(pending)
       IN  /\ pending' = pending \ {i} /\ current' = i
           /\ \/ /\ ~closes /\ loop' = "recording"
                 /\ child' = [child EXCEPT ![i] = "RUNNING"]
                 /\ worker' = [worker EXCEPT ![i] = "queued"]
                 /\ UNCHANGED << item, mishaps >>
              \/ GiveUp(i, FALSE, FALSE) /\ UNCHANGED << child, worker >>
              \/ \E left \in {<< "FAILED", "none" >>, << "RUNNING", "none" >>,
                               << "RUNNING", "queued" >>} :
                     /\ ~closes /\ GiveUp(i, FALSE, TRUE)
                     /\ child' = [child EXCEPT ![i] = left[1]]
                     /\ worker' = [worker EXCEPT ![i] = left[2]]
    /\ UNCHANGED << batchRow, others, watched, closes >>

CanRecordChild == batchRow.state = "RUNNING" /\ ~batchRow.cancel

\* start_probe_batch_item.  It is refused when a cancel was requested while the run was
\* started; it may fail, or its answer be lost.  The run goes on, and nobody counts it.
RecordChild ==
    /\ loop = "recording"
    /\ \/ /\ CanRecordChild /\ loop' = "dispatching"
          /\ item' = [item EXCEPT ![current] = [state |-> "RUNNING", run |-> TRUE]]
          /\ watched' = watched \cup {current} /\ UNCHANGED mishaps
       \/ ~CanRecordChild /\ GiveUp(current, FALSE, FALSE) /\ UNCHANGED watched
       \/ GiveUp(current, FALSE, TRUE) /\ UNCHANGED watched
       \/ CanRecordChild /\ GiveUp(current, TRUE, TRUE) /\ UNCHANGED watched
    /\ UNCHANGED << batchRow, runs, pending, current, closes >>

Dispatched ==
    /\ ~CanDispatch /\ Loop("dispatching", "polling")
    /\ UNCHANGED << batchRows, runs, pending, watched, current, closes, mishaps >>

ItemFor(row) == IF row = "PASSED" THEN "COMPLETED"
                ELSE IF row = "CANCELLED" THEN "CANCELLED" ELSE "FAILED"

\* The runs that are seen to be over, in front of the first that is gone.
RunsOver == {i \in watched : child[i] \in OverRun /\ \A j \in watched : j < i => child[j] # "PURGED"}

SettleItems(over) == FinishItems([i \in over |-> ItemFor(child[i])])

\* Wrong: a run that a user has cancelled is waited for.
ForgetsCancelled ==
    /\ Loop("polling", "refreshing")
    /\ LET over == {i \in watched : child[i] \in OverRun \ {"CANCELLED"}}
       IN  SettleItems(over) /\ watched' = watched \ over
    /\ UNCHANGED << batchRow, runs, pending, current, closes, mishaps >>

\* The runs are looked at in order, and those that are over settle their items; a run
\* that is gone ends the loop.
PollChildren ==
    LET allThere == \A i \in watched : child[i] # "PURGED"
    IN  /\ Loop("polling", IF allThere THEN "refreshing" ELSE "dead")
        /\ SettleItems(RunsOver) /\ watched' = watched \ RunsOver
        /\ UNCHANGED << batchRow, runs, pending, current, closes, mishaps >>

Refresh ==
    /\ Loop("refreshing", IF InState(OpenItem) = {} THEN "finalizing" ELSE "reading")
    /\ UNCHANGED << batchRows, runs, pending, watched, current, closes, mishaps >>

\* Wrong: a batch is PARTIAL as soon as one item has FAILED.
AnyFailure ==
    IF batchRow.cancel \/ InState({"CANCELLED"}) # {} THEN "CANCELLED"
    ELSE IF InState({"FAILED"}) # {} THEN "PARTIAL" ELSE "COMPLETED"

Verdict ==
    IF batchRow.cancel \/ InState({"CANCELLED"}) # {} THEN "CANCELLED"
    ELSE IF InState({"COMPLETED"}) = {} THEN "FAILED"
    ELSE IF InState({"FAILED"}) # {} THEN "PARTIAL" ELSE "COMPLETED"

\* finalize_probe_batch.
CloseRow == batchRow' = [batchRow EXCEPT !.state = IF @ = "RUNNING" THEN Verdict ELSE @]

FinalizeBatch ==
    /\ Loop("finalizing", "ended") /\ CloseRow
    /\ UNCHANGED << item, runs, pending, watched, current, closes, mishaps >>

\* A call of the store fails where nothing catches it: before its commit or behind it,
\* and behind the calls for the items in front.
LoopBreaks ==
    /\ loop' = "dead" /\ Mishap
    /\ \/ /\ loop \in {"reading", "refreshing", "finalizing"}
          /\ UNCHANGED << batchRow, item, child >>
       \/ /\ loop = "finalizing" /\ CloseRow
          /\ UNCHANGED << item, child >>
       \/ \E last \in 0..BatchSize :
              /\ loop = "cancelling"
              /\ FinishItems([i \in {j \in pending : j <= last} |-> "CANCELLED"])
              /\ UNCHANGED << batchRow, child >>
       \/ \E last \in 0..BatchSize :
              /\ loop = "cancelling"
              /\ FinishItems([i \in pending |-> "CANCELLED"]) /\ CancelRuns(last)
              /\ UNCHANGED batchRow
       \/ \E last \in 0..BatchSize :
              /\ loop = "polling"
              /\ SettleItems({i \in RunsOver : i <= last})
              /\ UNCHANGED << batchRow, child >>
    /\ UNCHANGED << worker, others, pending, watched, current, closes >>

----------------------------------------------------------------------------
(* The executor and the runs.                                              *)

Working  == {i \in Items : worker[i] = "working"}
LoopIsUp == loop \notin {"none", "queued", "refused", "ended", "dead"}
WorkerIsFree == others + Cardinality(Working) + (IF LoopIsUp THEN 1 ELSE 0) < Workers

\* A worker takes the batch up.
LoopStarts ==
    /\ WorkerIsFree /\ Loop("queued", "reading")
    /\ UNCHANGED << batchRows, runs, pending, watched, current, closes, mishaps >>

\* A worker takes a run up; a run that was cancelled is not spared its request.
WorkerTakes(i) ==
    /\ worker[i] = "queued" /\ WorkerIsFree
    /\ worker' = [worker EXCEPT ![i] = "working"]
    /\ UNCHANGED << batchRows, child, others, loopState, closes, mishaps >>

RunEnds(i) ==
    /\ worker[i] = "working" /\ worker' = [worker EXCEPT ![i] = "over"]
    /\ IF child[i] = "RUNNING"
       THEN \E to \in OverRun \ {"CANCELLED"} : child' = [child EXCEPT ![i] = to]
       ELSE UNCHANGED child
    /\ UNCHANGED << batchRows, others, loopState, closes, mishaps >>

\* Other work begins and ends: the loop of another batch may keep its worker for long.
OthersTake ==
    /\ WorkerIsFree /\ others' = others + 1
    /\ UNCHANGED << batchRows, child, worker, loopState, closes, mishaps >>

OthersLeave ==
    /\ others > 0 /\ others' = others - 1
    /\ UNCHANGED << batchRows, child, worker, loopState, closes, mishaps >>

\* cancel_run of one of the runs.
UserCancels(i) ==
    /\ child[i] = "RUNNING" /\ ~closes
    /\ child' = [child EXCEPT ![i] = "CANCELLED"]
    /\ UNCHANGED << batchRows, worker, others, loopState, closes, mishaps >>

\* archive_run and purge_run.
UserPurges(i) ==
    /\ child[i] \in OverRun /\ Mishap
    /\ child' = [child EXCEPT ![i] = "PURGED"]
    /\ UNCHANGED << batchRows, worker, others, loopState, closes >>

----------------------------------------------------------------------------

LoopStep == ReadBatch \/ CancelItems \/ StartChild \/ RecordChild \/ Dispatched
            \/ PollChildren \/ Refresh \/ FinalizeBatch

BatchNext ==
    \/ CreateBatch \/ CreateCatalogOnly \/ SubmitBatch \/ RequestBatchCancel \/ CloseService
    \/ LoopStarts \/ LoopStep \/ LoopBreaks
    \/ \E i \in Items : WorkerTakes(i) \/ RunEnds(i) \/ UserCancels(i) \/ UserPurges(i)
    \/ OthersTake \/ OthersLeave

\* The requests and the loop go on, and a probe has a timeout.  The executor serves its
\* queue in order: who waits gets a worker, if one becomes free time and again.
BatchFairness ==
    /\ WF_batchVars(SubmitBatch) /\ WF_batchVars(LoopStep) /\ SF_batchVars(LoopStarts)
    /\ \A i \in Items : WF_batchVars(RunEnds(i)) /\ SF_batchVars(WorkerTakes(i))

BatchSpec == BatchInit /\ [][BatchNext]_batchVars /\ BatchFairness

----------------------------------------------------------------------------

\* What a batch says of itself is what became of its runs: COMPLETED is every model
\* passed, PARTIAL some and some not, only a cancellation makes it CANCELLED; nothing
\* is open behind a batch that is over.  No run is RUNNING whose item names it and is
\* over, unless a call of the loop failed: start_probe_batch_item may be answered by an
\* error when the item names its run, and the item is FAILED then.
\* (A run that no item names may be: see AtMostCap.)
BatchVerdictIsHonest ==
    LET passed == {i \in Items : item[i].run /\ child[i] \in {"PASSED", "PURGED"}}
        done   == InState({"COMPLETED"})
    IN  /\ batchRow.state \in OverBatch => InState(OpenItem) = {}
        /\ batchRow.state \in {"PARTIAL", "COMPLETED", "FAILED"} =>
               ~batchRow.cancel /\ InState({"CANCELLED"}) = {}
        /\ batchRow.state = "PARTIAL" => done # {} /\ done # Items
        /\ batchRow.state = "COMPLETED" <=> done = Items /\ batchRow.state \in OverBatch /\ ~batchRow.cancel
        /\ loop # "none" => done \subseteq passed
        /\ \A i \in Items : item[i].run /\ item[i].state \notin OpenItem /\ mishaps = 0 =>
               child[i] # "RUNNING"

\* A batch ends, unless the service closes or a call of its loop fails, if beside its
\* loop a worker is left to its runs time and again.  Four loops, each waiting for its
\* runs, leave none (the executor has four workers): then a batch that runs ends when it
\* is cancelled, and needs no worker for that.
BatchEnds ==
    LET ends == batchRow.state \in OverBatch \/ closes \/ mishaps > 0
    IN  /\ (batchRow.state = "RUNNING" /\ batchRow.cancel /\ loop \notin {"none", "queued"}) ~> ends
        /\ []<>(others < Workers - 1) => ((batchRow.state = "RUNNING") ~> ends)

\* "total concurrency capped at two" (README.md): the runs a batch has at work.
AtMostCap == Cardinality(Working) <= Cap
=============================================================================
