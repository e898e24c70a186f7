---------------------------- MODULE EvaluationRun ----------------------------
(***************************************************************************)
(* One evaluation run: start_run, _execute_run and cancel_run              *)
(* (web/evaluation_service.py), the coordinator's scheduler                *)
(* (evaluations/coordinator.py), and the rows of a run with its execution  *)
(* lease (web/postgres_evaluation_store.py).                               *)
(*                                                                         *)
(* A run asks each of its models for an answer to each item of a sample.   *)
(* Work is numbered as the code numbers it: item s of model m is           *)
(* (m - 1) * SampleCount + s.                                              *)
(*                                                                         *)
(* Every store method is one transaction: an action, which may also fail   *)
(* before or after its commit (a fault).  The process that executes the    *)
(* run may stop at any step, and the lease may expire under it.            *)
(***************************************************************************)
EXTENDS Naturals, Sequences, FiniteSets

CONSTANTS
    ModelCount, SampleCount,    \* plan.models, plan.sample_count
    Concurrency,                \* plan.concurrency
    Requests,                   \* calls of start_run with one idempotency key
    MaxFaults                   \* bound

ASSUME EvaluationAssumption ==
    /\ ModelCount \in Nat \ {0} /\ SampleCount \in Nat \ {0}
    /\ Concurrency \in Nat \ {0} /\ MaxFaults \in Nat

Models == 1..ModelCount
Work   == 1..ModelCount * SampleCount
ModelOf(w) == (w - 1) \div SampleCount + 1

\* What a call may bring: an answer that is scored; a provider failure; one
\* that ends the work for its model (403, 404, 429, PROTOCOL, ...); and one
\* that ends it for the run (401, 402).
Answers == {"ok", "error", "refused", "fatal"}
Ended   == {"COMPLETED", "PARTIAL", "FAILED", "CANCELLED"}

VARIABLES
    \* PostgreSQL
    run,            \* state, cancel_requested_at and lease of evaluation_runs
    models,         \* state and completed_items of evaluation_run_models
    items,          \* evaluation_run_items: the answer stored, or "none"
    log,            \* evaluation_run_events
    \* start_run and cancel_run
    request,        \* where each call of start_run is
    canceller,      \* where cancel_run is
    registered,     \* the run has an entry in _cancel_signals
    \* the coordinator
    exec,           \* where its thread is
    signal,         \* its cancellation event
    next,           \* work_index + 1
    cur,            \* the work it is busy with
    active, batch,  \* the futures; those of the last wait still to be handled
    outcomes,       \* the work with an outcome
    emitted,        \* len(events)
    stopped, fatal, \* stopped_models; authentication_failed or payment_failed
    verdict,        \* the state it decided on
    \* the provider
    calls,          \* how often each work was called
    answer,         \* and what was answered
    late,           \* calls begun after a cancellation was stored or the run ended
    faults

database == << run, models, items, log >>
service  == << request, canceller, registered >>
queue    == << next, cur, active, batch >>
findings == << outcomes, stopped, fatal, verdict >>
provider == << calls, answer, late >>
vars == << database, service, exec, signal, queue, emitted, findings, provider, faults >>

Init ==
    /\ run = [state |-> "none", cancel |-> FALSE, lease |-> TRUE]
    /\ models = [m \in Models |-> [state |-> "PENDING", done |-> 0]]
    /\ items = [w \in Work |-> "none"] /\ log = << >>
    /\ request = [r \in Requests |-> "finding"] /\ canceller = "idle" /\ registered = FALSE
    /\ exec = "idle" /\ signal = FALSE /\ next = 1 /\ cur = 1 /\ active = {} /\ batch = {}
    /\ outcomes = {} /\ emitted = 0 /\ stopped = {} /\ fatal = FALSE /\ verdict = "none"
    /\ calls = [w \in Work |-> 0] /\ answer = [w \in Work |-> "none"]
    /\ late = 0 /\ faults = 0

Fault   == faults < MaxFaults /\ faults' = faults + 1
NoFault == UNCHANGED faults

----------------------------------------------------------------------------
(* The store.                                                              *)

\* _touch_execution_lease: anything but a live lease of a running run is refused.
Touch == run.state = "RUNNING" /\ run.lease

Event(n, type, w) == [n |-> n, type |-> type, work |-> w]

\* append_event, at the coordinator's own number.  Its answer to a number that
\* is taken is left out: a run has one coordinator, and it repeats no event.
AppendEvent(type, w) ==
    /\ log' = Append(log, Event(emitted + 1, type, w))
    /\ models' = IF type = "ITEM_STARTED" /\ models[ModelOf(w)].state = "PENDING"
                 THEN [models EXCEPT ![ModelOf(w)].state = "RUNNING"] ELSE models
    /\ UNCHANGED << run, items >>

\* Wrong: the model's counter is not part of the transaction.
StoresItemOnly(w) ==
    /\ items' = [items EXCEPT ![w] = answer[w]]
    /\ UNCHANGED << models, run, log >>

\* record_item.
RecordItem(w) ==
    /\ items' = [items EXCEPT ![w] = answer[w]]
    /\ models' = [models EXCEPT ![ModelOf(w)].done = @ + 1]
    /\ UNCHANGED << run, log >>

\* fail_run, and one row of fail_expired_runs, which number their event by the
\* log: the models that have not ended do so with the run.
EndRun(state) ==
    /\ models' = [m \in Models |->
           IF models[m].state \in {"PENDING", "RUNNING"}
           THEN [models[m] EXCEPT !.state = IF models[m].done > 0 THEN "PARTIAL" ELSE state]
           ELSE models[m]]
    /\ log' = Append(log, Event(Len(log) + 1, "FINISHED", 1))
    /\ run' = [run EXCEPT !.state = state]
    /\ UNCHANGED items

\* Wrong: no outcome is a failed one.
CountsAnswers(m) ==
    LET mine == {w \in outcomes : ModelOf(w) = m}
    IN IF Cardinality(mine) = SampleCount THEN "COMPLETED"
       ELSE IF mine # {} THEN "PARTIAL" ELSE "FAILED"

\* A model's state in the coordinator's outcome (_aggregate_model).
ModelVerdict(m) ==
    LET mine == {w \in outcomes : ModelOf(w) = m}
        good == {w \in mine : answer[w] = "ok"}
    IN CASE m \in stopped -> "FAILED"
         [] m \notin stopped /\ Cardinality(good) = SampleCount -> "COMPLETED"
         [] m \notin stopped /\ mine # {} /\ Cardinality(good) < SampleCount -> "PARTIAL"
         [] OTHER -> IF verdict = "CANCELLED" THEN "CANCELLED"
                     ELSE IF fatal THEN "SKIPPED" ELSE "FAILED"

\* finish_run.
FinishRun ==
    /\ models' = [m \in Models |-> [models[m] EXCEPT !.state = ModelVerdict(m)]]
    /\ log' = Append(log, Event(emitted + 1, "FINISHED", 1))
    /\ run' = [run EXCEPT !.state = verdict]
    /\ UNCHANGED items

\* A method of the store: it is done, refused, or raises, before or after its
\* commit.
Store(Effect, Done, Raised) ==
    \/ NoFault /\ Touch /\ Effect /\ Done
    \/ NoFault /\ ~Touch /\ UNCHANGED database /\ Raised
    \/ Fault /\ ((Touch /\ Effect) \/ UNCHANGED database) /\ Raised

----------------------------------------------------------------------------
(* start_run.                                                              *)

At(r, from, to) == request[r] = from /\ request' = [request EXCEPT ![r] = to]

Find(r) ==
    /\ At(r, "finding", IF run.state = "none" THEN "creating" ELSE "returned")
    /\ NoFault
    /\ UNCHANGED << database, canceller, registered, exec, signal, queue, emitted, findings,
                    provider >>

\* Wrong: the run of another request is executed again.
CreateAgain(r) ==
    /\ NoFault /\ At(r, "creating", "scheduling")
    /\ run' = [run EXCEPT !.state = "RUNNING"]
    /\ UNCHANGED << models, items, log, canceller, registered, exec, signal, queue, emitted,
                    findings, provider >>

\* create_run: the idempotency key is unique, and the loser gets the winner's run.
Create(r) ==
    /\ \/ /\ run.state = "none" /\ run' = [run EXCEPT !.state = "RUNNING"]
          /\ NoFault /\ At(r, "creating", "scheduling")
       \/ /\ run.state = "none" /\ run' \in {run, [run EXCEPT !.state = "RUNNING"]}
          /\ Fault /\ At(r, "creating", "returned")
       \/ /\ run.state # "none" /\ UNCHANGED run
          /\ NoFault /\ At(r, "creating", "returned")
    /\ UNCHANGED << models, items, log, canceller, registered, exec, signal, queue, emitted,
                    findings, provider >>

\* The cancel signal is registered and the execution submitted.
Schedule(r) ==
    /\ \/ NoFault /\ At(r, "scheduling", "returned") /\ exec' = "starting" /\ registered' = TRUE
       \/ Fault /\ At(r, "scheduling", "unscheduled") /\ UNCHANGED << exec, registered >>
    /\ UNCHANGED << database, canceller, signal, queue, emitted, findings, provider >>

FailUnscheduled(r) ==
    /\ At(r, "unscheduled", "returned")
    /\ Store(EndRun("FAILED"), TRUE, TRUE)
    /\ UNCHANGED << canceller, registered, exec, signal, queue, emitted, findings, provider >>

----------------------------------------------------------------------------
(* cancel_run, in the executing process or another one.                    *)

RequestCancel ==
    /\ canceller = "idle" /\ run.state # "none" /\ canceller' = "signalling"
    /\ run' = IF run.state = "RUNNING" THEN [run EXCEPT !.cancel = TRUE] ELSE run
    /\ NoFault
    /\ UNCHANGED << models, items, log, request, registered, exec, signal, queue, emitted,
                    findings, provider >>

\* The event of the run is set if this process has it.
Signal ==
    /\ canceller = "signalling" /\ canceller' = "returned"
    /\ signal' \in {signal, signal \/ registered}
    /\ NoFault
    /\ UNCHANGED << database, request, registered, exec, queue, emitted, findings, provider >>

----------------------------------------------------------------------------
(* The coordinator.  What an observer raises leaves the pool, which waits   *)
(* for the calls that have begun.                                          *)

\* EVALUATION_STARTED.
Begin ==
    /\ exec = "starting"
    /\ Store(AppendEvent("STARTED", 1), exec' = "filling", exec' = "draining")
    /\ next' = 1 /\ emitted' = 1
    /\ UNCHANGED << service, signal, cur, active, batch, findings, provider >>

Full == next \notin Work \/ Cardinality(active) >= Concurrency

\* refresh_cancellation.
Check ==
    /\ exec = "filling" /\ ~Full
    /\ \/ signal /\ exec' = "checked" /\ NoFault /\ UNCHANGED << database, signal >>
       \/ ~signal /\ Store(UNCHANGED database,
                           exec' = "checked" /\ signal' = run.cancel,
                           exec' = "draining" /\ UNCHANGED signal)
    /\ UNCHANGED << service, queue, emitted, findings, provider >>

\* The next work is taken, unless all new work is off.
Take ==
    /\ exec = "checked"
    /\ IF signal \/ fatal
       THEN exec' = "waiting" /\ UNCHANGED << next, cur >>
       ELSE /\ next' = next + 1 /\ cur' = next
            /\ exec' = IF ModelOf(next) \in stopped THEN "filling" ELSE "announcing"
    /\ NoFault
    /\ UNCHANGED << database, service, signal, active, batch, emitted, findings, provider >>

\* ITEM_STARTED.
Announce ==
    /\ exec = "announcing"
    /\ Store(AppendEvent("ITEM_STARTED", cur), exec' = "calling", exec' = "draining")
    /\ emitted' = emitted + 1
    /\ UNCHANGED << service, signal, queue, findings, provider >>

\* pool.submit: the call begins.
Call ==
    /\ exec = "calling" /\ exec' = "filling"
    /\ active' = active \cup {cur}
    /\ calls' = [calls EXCEPT ![cur] = @ + 1]
    /\ late' = IF run.cancel \/ run.state \in Ended THEN late + 1 ELSE late
    /\ NoFault
    /\ UNCHANGED << database, service, signal, next, cur, batch, emitted, findings, answer >>

\* The call ends; it has a timeout.
Answer(w) ==
    /\ w \in active /\ answer[w] = "none"
    /\ \E a \in Answers : answer' = [answer EXCEPT ![w] = a]
    /\ NoFault
    /\ UNCHANGED << database, service, exec, signal, queue, emitted, findings, calls, late >>

Answered == {w \in active : answer[w] # "none"}
Waiting  == exec = "waiting" \/ (exec = "filling" /\ Full)

\* wait(FIRST_COMPLETED).
Wait ==
    /\ Waiting /\ active # {} /\ Answered # {}
    /\ batch' = Answered /\ exec' = "recording"
    /\ NoFault
    /\ UNCHANGED << database, service, signal, next, cur, active, emitted, findings, provider >>

\* The outcome of one of them is stored (item_observer).
Record(w) ==
    /\ exec = "recording" /\ w \in batch
    /\ cur' = w /\ batch' = batch \ {w} /\ active' = active \ {w}
    /\ outcomes' = outcomes \cup {w}
    /\ Store(RecordItem(w), exec' = "noting", exec' = "draining")
    /\ UNCHANGED << service, signal, next, emitted, stopped, fatal, verdict, provider >>

\* ITEM_FINISHED, and what the answer says of the work to come.
Note ==
    /\ exec = "noting"
    /\ Store(AppendEvent("ITEM_FINISHED", cur),
             /\ exec' = IF batch = {} THEN "filling" ELSE "recording"
             /\ fatal' = (fatal \/ answer[cur] = "fatal")
             /\ stopped' = IF answer[cur] \in {"refused", "fatal"}
                           THEN stopped \cup {ModelOf(cur)} ELSE stopped,
             exec' = "draining" /\ UNCHANGED << fatal, stopped >>)
    /\ emitted' = emitted + 1
    /\ UNCHANGED << service, signal, queue, outcomes, verdict, provider >>

\* The state of the run.
Decision ==
    LET good == {w \in outcomes : answer[w] = "ok"}
    IN CASE fatal -> "FAILED"
         [] signal /\ ~fatal -> "CANCELLED"
         [] ~signal /\ ~fatal /\ good = Work -> "COMPLETED"
         [] OTHER -> IF good # {} THEN "PARTIAL" ELSE "FAILED"

Decide ==
    /\ Waiting /\ active = {}
    /\ verdict' = Decision /\ exec' = "finishing"
    /\ NoFault
    /\ UNCHANGED << database, service, signal, queue, emitted, outcomes, stopped, fatal, provider >>

Finish ==
    /\ exec = "finishing"
    /\ Store(FinishRun, exec' = "done" /\ registered' = FALSE,
             exec' = "failing" /\ UNCHANGED registered)
    /\ UNCHANGED << request, canceller, signal, queue, emitted, findings, provider >>

\* The pool's calls have ended, and nothing of them is stored.
Drain ==
    /\ exec = "draining" /\ active = Answered
    /\ exec' = "failing" /\ active' = {} /\ batch' = {}
    /\ NoFault
    /\ UNCHANGED << database, service, signal, next, cur, emitted, findings, provider >>

\* fail_run, whatever comes of it.
Fail ==
    /\ exec = "failing" /\ exec' = "done" /\ registered' = FALSE
    /\ Store(EndRun("FAILED"), TRUE, TRUE)
    /\ UNCHANGED << request, canceller, signal, queue, emitted, findings, provider >>

----------------------------------------------------------------------------
(* The process stops; the lease and its maintenance.                       *)

Held(r)  == request[r] \in {"scheduling", "unscheduled"}
Attended == exec \notin {"idle", "done"} \/ \E r \in Requests : Held(r)

Crash ==
    /\ Attended
    /\ exec' = "done" /\ registered' = FALSE /\ active' = {} /\ batch' = {}
    /\ request' = [r \in Requests |-> IF Held(r) THEN "returned" ELSE request[r]]
    /\ NoFault
    /\ UNCHANGED << database, canceller, signal, next, cur, emitted, findings, provider >>

\* Five minutes without a write.
Expire ==
    /\ run.state = "RUNNING" /\ run.lease /\ run' = [run EXCEPT !.lease = FALSE]
    /\ NoFault
    /\ UNCHANGED << models, items, log, service, exec, signal, queue, emitted, findings, provider >>

\* Wrong: a run that was to be cancelled is passed over.
ReapFailedOnly ==
    /\ run.state = "RUNNING" /\ ~run.lease /\ ~run.cancel
    /\ EndRun("FAILED")
    /\ NoFault
    /\ UNCHANGED << service, exec, signal, queue, emitted, findings, provider >>

\* fail_expired_runs, at the start of a service and every 30 seconds.
Reap ==
    /\ run.state = "RUNNING" /\ ~run.lease
    /\ EndRun(IF run.cancel THEN "CANCELLED" ELSE "FAILED")
    /\ NoFault
    /\ UNCHANGED << service, exec, signal, queue, emitted, findings, provider >>

StartRun(r) == Find(r) \/ Create(r) \/ Schedule(r) \/ FailUnscheduled(r)

Coordinate ==
    \/ Begin \/ Check \/ Take \/ Announce \/ Call \/ Wait \/ Note \/ Decide \/ Finish
    \/ Drain \/ Fail
    \/ \E w \in Work : Record(w)

Next ==
    \/ \E r \in Requests : StartRun(r)
    \/ RequestCancel \/ Signal
    \/ Coordinate
    \/ \E w \in Work : Answer(w)
    \/ Crash \/ Expire \/ Reap

\* Threads go on, calls end at their timeout, a lease nobody renews expires,
\* and every service looks for expired leases.  Nobody is obliged to ask, to
\* cancel or to crash.
Fairness ==
    /\ \A r \in Requests : WF_vars(request[r] # "finding" /\ StartRun(r))
    /\ WF_vars(Coordinate) /\ WF_vars(\E w \in Work : Answer(w))
    /\ WF_vars(~Attended /\ Expire) /\ WF_vars(Reap)

Spec == Init /\ [][Next]_vars /\ Fairness

----------------------------------------------------------------------------
(* Properties.                                                             *)

\* The types of the rows and of the coordinator's memory; only work in flight
\* is waited for.
TypeOK ==
    /\ run \in [state : Ended \cup {"none", "RUNNING"}, cancel : BOOLEAN, lease : BOOLEAN]
    /\ models \in [Models -> [state : Ended \cup {"PENDING", "RUNNING", "SKIPPED"}, done : Nat]]
    /\ items \in [Work -> Answers \cup {"none"}]
    /\ log \in Seq([n : Nat, type : {"STARTED", "ITEM_STARTED", "ITEM_FINISHED", "FINISHED"},
                    work : Work])
    /\ request \in [Requests -> {"finding", "creating", "scheduling", "unscheduled", "returned"}]
    /\ canceller \in {"idle", "signalling", "returned"}
    /\ exec \in {"idle", "starting", "filling", "checked", "announcing", "calling", "waiting",
                 "recording", "noting", "finishing", "draining", "failing", "done"}
    /\ registered \in BOOLEAN /\ signal \in BOOLEAN /\ fatal \in BOOLEAN
    /\ next \in Work \cup {ModelCount * SampleCount + 1} /\ cur \in Work
    /\ active \subseteq Work /\ batch \subseteq active /\ outcomes \subseteq Work
    /\ emitted \in Nat /\ stopped \subseteq Models /\ verdict \in Ended \cup {"none"}
    /\ calls \in [Work -> Nat] /\ answer \in [Work -> Answers \cup {"none"}]
    /\ late \in Nat /\ faults \in 0..MaxFaults

Stored(m)       == {w \in Work : ModelOf(w) = m /\ items[w] # "none"}
Logged(type, w) == \E i \in DOMAIN log : log[i].type = type /\ log[i].work = w
Good            == {w \in Work : items[w] = "ok"}

\* The four tables tell one story, although three writers end runs: events are
\* numbered without a gap, whoever numbers them; the last event, and no other,
\* ends the run, and the models end with it; a model's counter counts its
\* items; an item is stored after its start and before its end is announced
\* (append_event, record_item, finish_run, fail_run, fail_expired_runs).
EvidenceAgrees ==
    /\ \A i \in DOMAIN log : log[i].n = i
    /\ \A i \in DOMAIN log : log[i].type = "FINISHED" => i = Len(log)
    /\ run.state \in Ended <=> Logged("FINISHED", 1)
    /\ \A m \in Models :
         /\ models[m].done = Cardinality(Stored(m))
         /\ models[m].state \notin {"PENDING", "RUNNING"} <=> run.state \in Ended
    /\ \A w \in Work :
         /\ Logged("ITEM_FINISHED", w) => items[w] # "none"
         /\ items[w] # "none" => Logged("ITEM_STARTED", w)

\* The states of a run and of its models say what the stored items support:
\* nothing is COMPLETED with an item missing or failed, PARTIAL with none or
\* all good, CANCELLED unasked, SKIPPED but for a 401 or 402.  The coordinator
\* decides from memory, the lease scan and fail_run from the rows.
VerdictsAreHonest ==
    /\ run.state = "COMPLETED" => Good = Work
    /\ run.state = "PARTIAL" => Good \notin {{}, Work}
    /\ run.state = "CANCELLED" => run.cancel
    /\ \A m \in Models :
         /\ models[m].state = "COMPLETED" => Stored(m) \subseteq Good /\ models[m].done = SampleCount
         /\ models[m].state = "PARTIAL" => Stored(m) # {}
         /\ models[m].state = "CANCELLED" => Stored(m) = {} /\ run.cancel
         /\ models[m].state = "SKIPPED" => Stored(m) = {} /\ \E w \in Work : items[w] = "fatal"

\* However requests of one idempotency key race, and whatever fails, no item is
\* asked of a model twice, and none before the evidence has its start.
PaidOnce ==
    \A w \in Work : calls[w] <= 1 /\ (calls[w] = 1 => Logged("ITEM_STARTED", w))

\* At most one call begins after a cancellation was stored, or the run was
\* ended by the lease scan: the one between its check and its start.
CancelStops == late <= 1

\* No call begins for a model whose refusal is stored, and none at all after a
\* 401 or 402, even with calls in flight.
RefusalStops ==
    [][\A w \in Work : calls'[w] > calls[w] =>
          \A v \in Work : items[v] # "fatal"
                          /\ (ModelOf(v) = ModelOf(w) => items[v] # "refused")]_vars

\* What is stored of a run that has ended never changes: neither a coordinator
\* that lost its lease, nor a second end, nor a late cancellation writes to it.
EvidenceIsFinal ==
    [][run.state \in Ended => run'.state = run.state /\ UNCHANGED << models, items, log >>]_vars

\* Every run ends, whatever faults, crashes and lost leases it meets.
EveryRunEnds == (run.state = "RUNNING") ~> (run.state \in Ended)
=============================================================================
