# Lexsond: TLA+ models and proofs

Lexsond measures model relays. A *run* calls an endpoint (or a whole suite of
prompts), scores what it gets and stores the result. This directory holds TLA+
models of the parts of it whose correctness depends on the order of events,
the TLC configurations that check them on small instances, and TLAPS proofs of
the properties that matter most, for every value of the constants.

Contents: [inventory](#inventory), [modules](#modules),
[runs](#runs-bounds-and-fairness), [proofs](#proofs),
[divergences](#where-code-and-documents-disagree),
[what is not modelled](#what-is-left-out), [plan](#plan).

## Inventory

Every path below is relative to `src/src/lexsond` unless it starts otherwise.

| Component | State it keeps | Operations | Hard behaviour | What makes it correct |
|---|---|---|---|---|
| Canary state machine (`workflows/state.py`, `contracts.py`) | none; a projection of events | `project_workflow_state` | retries, the short path after a failed PREFLIGHT, terminal events | activities in order, each completed once, at most `max_attempts` tries, terminal is final |
| Journal and run row (`storage/postgres.py`, `src/migrations/0001_core.sql`) | `workflow_events`, `workflow_runs` | `prepare_run`, `load`, `append` | lost and repeated appends, two implementations of "what the run is" | compare-and-append; row and projection agree |
| Execution store (same files) | `activity_executions` | `claim`, `renew`, `complete`, `fail`, `persist_result`, `load_result` | leases, takeover, lost answers, late callers | one outcome per key, failures replayed, no two paid calls together |
| Native activities (`workflows/native_activities.py`) | none; a renewer thread per call | `invoke` | lease lost under a running call, failure to record a failure | what is reported is what is stored |
| Temporal workflow (`workflows/temporal_workflow.py`, `temporal_activities.py`) | workflow history (in Temporal), `WorkflowState` in memory | `run`, `_drive`, `_record`, `_execute_step`, `execute_step` | cancellation at any await, at-least-once appends, workers that outlive their step | the workflow follows the journal; every run ends |
| Local driver (`workflows/canary.py`) | the same journal | `run`, `cancel` | two drivers of one run, an interrupted retry wait | as above |
| Launcher (`web/temporal_backend.py`) | monitor threads, active handles, cancel requests, a pool | `start`, `recover`, `cancel`, `close`, `wait_closed` | uncertain starts, cancel before the handle is known, close during dispatch | a started workflow is never reported as failed to start; pool closed when unused |
| Control runs (`web/control_service.py`, `postgres_control_store.py`) | `probe_runs`, `probe_run_events`, cancel signals | `start_run`, `cancel_run`, `_execute_local`, Temporal callbacks, recovery | cancel races completion, restarts, partial failure between signal and row | one terminal state, reached, and true to what happened |
| Control shutdown (`web/control_service.py`) | operation count, futures, closing flags | `close`, finalizer thread, `operation` | close races everything else | the store outlives its users and is closed in the end |
| Component workflow of a run (`probe_components.py`) | none; a workflow document of seven steps in the run's row | advance, settle, evidence, finalise, fail | late reports, failures anywhere | the document tells the same story as the row |
| Probe engine (`probe.py`, `sse.py`) | the probe in progress | `probe`, streaming or not, endpoint checks | where a stream ends, what is read behind it | PASS is earned |
| Probe batches | `probe_batches`, items | dispatch loop, cancel, finalize | child started but not recorded, shutdown in the middle | every item ends as its child did; no more at work than the cap |
| Monitoring (`monitoring/`) | policies with dispatch leases, monitor states, incidents | scheduler `run_once`, `record_monitor_run`, `transition_state` | competing schedulers, samples out of order | one run at a time; states follow fresh samples only |
| Targets and suites (`control_service.py`, `postgres_control_store.py`) | `targets`, `probe_suites` and revisions | create, update, archive, restore, purge, use | edits of a stale view, a purge that races a restore or a use | no edit is lost; a run keeps what it was made from |
| Partner onboarding (same files) | `partner_applications`, revisions | create under a key, update, submit | an edit while it is being submitted | the snapshot is what stands |
| Evaluations (`web/evaluation_service.py`, `evaluations/coordinator.py`) | `evaluation_runs` with an execution lease, items, events | `start_run`, `_execute_run`, `cancel_run`, `fail_expired_runs` | racing requests, a reaper against a live executor, cancellation and refusals with calls in flight | one paid call per item; one true terminal state, reached, that agrees with items and events |
| Agent turns (`agent/service.py`) | sessions, messages, events, a turn lease | `respond`, the life of a session | lease lost in the middle of a turn, a key pasted into an earlier message | turns do not mix; no key is read |
| Credential profiles (`web/credential_service.py`) | metadata row and OS vault entry | `create`, `replace`, `archive` | two stores, no transaction | an archived secret stays gone, no secret is left behind |
| Auth (`web/auth_service.py`, `postgres_auth_store.py`) | users, sessions, CSRF and reset tokens, rate limits | register, verify, login, resolve, change and reset of passwords, limits | a login that a reset overtakes, boundaries of windows | no session outlives its password; limits hold |
| Scoring, compiler, scorers, evidence files, redaction, runners, HTTP API, frontend, mock relay | none, or files | | I/O and data | tested by the repository's own tests |

How they interact. The HTTP API calls the control service. The service writes a
`probe_runs` row and either submits `_execute_local` to a thread pool or asks
the launcher to start a Temporal workflow, watched by one monitor thread per
run that copies journal events and the terminal state back through callbacks.
The workflow calls two Temporal activities: *append*, which writes one event to
the PostgreSQL journal, and *step*, which runs one canary activity in a worker
thread under a lease in `activity_executions`, renewed by a second thread.
Journal, rows and results share one database; each SQL function locks the row
it changes and is atomic.

PROJECT.json lists every hazard found in this code at the line where it bites,
with the properties that cover it.

## Modules

| Module | Models | Correspondence |
|---|---|---|
| `CanaryState` | `workflows/state.py` | `Accepts(s, e)` is the negation of every `WorkflowHistoryError` of `_apply_event`; `ApplyEvent` its assignments. An event is one record shape, as `WorkflowEvent` has. Hashes, timestamps and delays that no decision reads are left out. |
| `RunJournal` | `append`, `append_workflow_event`, `workflow_runs` | `SqlAccepts` and `SqlAdvance` are the SQL function; `CanAppend` is the Python method around it; `RowAgrees` states what they must agree on. |
| `CanaryRun` | the promise of ADR-002 | abstract specification: activities tried and completed in order, bounded tries, final status. |
| `ActivityRow` | one row of `activity_executions` and its SQL functions | pure operators: the disposition of a claim, the row each function leaves, and when a call is refused. |
| `ActivityLease` | `invoke`, the renewer, at-least-once delivery of one activity | one `dlv` record per delivery, one action per store call, with its failure before and after the commit. Time is a countdown per lease and per renewer. |
| `TemporalCanary` | the whole run under Temporal | `pc` is the await the workflow is in; `workers` the deliveries that live; `journal`, `proj`, `run`, `exec`, `result` the database. It EXTENDS `RunJournal` and INSTANCEs `ActivityRow`. |
| `ControlShutdown` | `ControlPlaneService.close`, `_stop_consumers`, the finalizer; the launcher's pool and threads; the scheduler's stop | `req` is a request under an operation lease, from `_begin_operation` to `_end_operation`; `background` the submitted futures; `monitor` the launcher's thread of a run (`_threads`, `_inflight_dispatches`); `pool` is `_pool_close_in_progress` and `_pool_closed`; `agent` is the line a call of `close()` or the finalizer is at, `allStopped` the conjunction it is computing. |
| `TemporalLauncher` | one Temporal run in the control plane: `start_run`, `cancel_run`, `_retry_temporal_cancel`, the callbacks, `_recover_temporal_runs`; `start`, `recover`, `cancel`, `_thread_main` and `_execute` of the launcher | `row` is the `probe_runs` row and `shown` its `source_event_id`s; `starter`, `canceller` and `monitor` are where the three threads are, `uncertain`, `last` and `batch` locals of the monitor; `active` and `cancelReq` the run's entries in `_active` and `_cancel_requested`. A restart clears what is in memory. |
| `EvaluationRun` | one evaluation run: `start_run`, `_execute_run`, `cancel_run`; the coordinator's loop; the rows and the execution lease; the maintenance scan | `Store` is a method of the store: `_touch_execution_lease`, its effect, or an exception before or after the commit. `exec` is the line of the coordinator; `active`, `batch`, `outcomes`, `stopped`, `fatal` are its locals; `emitted` is its event number, which `fail_run` and the scan do not know. |
| `LocalCanary` | `CanaryWorkflow.run` (`workflows/canary.py`), its journal and retry waiter | `driver[d]` is the line a driver is at, and the state it read last; `journal` and `proj` are the store. Several drivers share them. It EXTENDS `CanaryState`. |
| `ComponentFlow` | `probe_components.py` | each function of the workflow document is an operator; `Can...` is the negation of its ValueErrors. |
| `ProbeEngine` | `OpenAIChatProbe`, `OpenAIEndpointProbe` and the SSE reader | `probe` is the call in progress, `emitted` the steps given to the recorder; one action per event read and per way to end. |
| `LocalRun` | `start_run`, `_execute_local`, the recorder thread, `run_suite` as it is called, `cancel_run`, archive, restore, purge of a local run | `row` and `log` are `probe_runs` and `probe_run_events`; `job` is the line of the execution, `applied` how many of the reported steps the recorder has taken, `deaf` that it has given up; whoever ended the run is `telling` the monitor of it (`_project_monitor_run`). It EXTENDS `ProbeEngine`. |
| `ProbeBatch` | creation, `_execute_probe_batch`, cancellation and verdict of a batch; the executor it shares with its children | `loop`, `pending`, `watched` are the loop's line and locals; `item`, `batchRow` the tables; `child` the row of each run, `worker` where it is in the executor, and `others` how many workers have other work, the loops of other batches above all. |
| `MonitorPolicy` | policy edits, `claim_due_monitor_policies`, the scheduler's pass, `complete` and `fail` of a dispatch, `record_monitor_run`, `transition_state` | `policy` is the row, with its lease; `duty` what each scheduler holds in its hands; `slots` counts the values of `next_run_at`. |
| `AgentTurn` | `respond`, the session, the turn lease and its heartbeat, the messages and the trace | `turn[t].at` is the line of a call of `respond`; a text is the set of keys that stand in it. |
| `CredentialProfile` | `create`, `rename`, `replace`, `archive` of `credential_service.py` | `profile` is the row, `vault` the secrets; every call to either is a step, and may fail before or after it took effect. |
| `AuthSession`, `AuthLimit` | accounts, tickets, sessions; one row of `auth_rate_limits` | a password is the number of its setting, and `changing` holds the sessions whose `change_password` has passed its checks; `clock` and `now` are integer times. |
| `Catalog` | targets, suites, revisions and who uses them | `target`, `suite` are rows with versions; a purge is two steps, because it reads without a lock. |
| `PartnerApplication` | an application, its key, version and snapshot | `application` is the row, `applicant` what each caller saw, `answers` what creations were told. |
| `MCTemporalCanary`, `MCRuns`, `MCControlPlane`, `MCJobs`, `MCRecords`, `MCServices` | instances for TLC | see [runs](#runs-bounds-and-fairness). |
| `RunJournalProofs`, `TemporalCanaryProofs`, `LocalCanaryProofs`, `TemporalLauncherProofs`, `ControlPlaneProofs`, `JobsProofs`, `RecordsProofs`, `ServicesProofs` | proofs | `ControlPlaneProofs` is about `ControlShutdown` and `LocalRun`, `JobsProofs` about `EvaluationRun`, `ProbeBatch` and `ActivityLease`; see [proofs](#proofs). |

Choices a reader should know of:

* *Two lease models.* `ActivityLease` has several attempts and several
  deliveries of one attempt, and real countdowns, to ask who may call and what
  is answered. `TemporalCanary` delivers a step once (its retry policy allows
  one SDK attempt), so the attempt stands for the token, and a lease expires by
  an action of its own.
* *Faults.* In `TemporalCanary` everything that goes wrong by itself (a lost
  call, a raising delegate, a missed heartbeat, exhausted retries, a renewal
  that comes too late) consumes one of `MaxFaults`. Cancellation does not: it
  may come once, at any point. Crashes of workers nobody waits for are free.
* *Temporal is external*, modelled from how the code uses it: an activity call
  is retried or reported lost, a cancellation surfaces at the current await
  (as `ActivityError` inside an append or load, as the asyncio exception in a
  sleep), a cancelled step is waited for, a workflow id is not reused.
* *A PERSIST worker* inserts the immutable result row in a step of its own,
  since the insert commits before `invoke` goes on.
* *Who may report TARGET_FAILED* is a constant (`TargetFailureAt`). The state
  machine (`state.py:158`) and both drivers take it from PREFLIGHT and EXECUTE
  and refuse it from any other, whatever delegate they are given, and the
  repository's tests give them one whose PREFLIGHT fails
  (`tests/test_canary_workflow.py:114`, `tests/test_temporal_workflow.py:195`).
  `NativeCanaryActivities` itself reports it from EXECUTE only.
* *A pool close* runs beside the thread that called it, and its failures are
  counted over all callers; the code counts them per `wait_closed`. So the model
  lets the finalizer give up on the pool sooner than the code, never later.
* *A timeout of close()* may strike at any moment: two seconds are longer or
  shorter than anything else.
* *The workflow of `TemporalLauncher`* is a status and a growing journal that
  close in any of four ways: result, failed result, execution error, cancelled;
  `TemporalCanary` says what goes on inside. A start whose answer is lost may
  have arrived, may arrive later (`pending`), or never. A stored result is taken
  to pass `validate_sanitized_result`, which the execution store applies before
  it stores it, and closing the launcher is left to `ControlShutdown`: here a
  process simply stops, at any step.
* *An evaluation's provider* answers every call in one of four ways, which are
  all the coordinator tells apart: an answer that is scored, a failure, one that
  stops the model, one that stops the run. Cost is left out: `_execute_run`
  passes none, so the budget never binds. The idempotent replay in
  `append_event` and `record_item` is left out too: a run has one coordinator
  (`PaidOnce` depends on that), and it repeats nothing.
* *A local run's execution* and its recorder are threads; of the recorder's
  queue only its length is kept, since what is in it was emitted. A call of the
  store that fails does so before its commit or behind it. Telling the monitor
  is a step of its own behind every end of a run: when `record_monitor_run`
  fails, MONITOR_PROJECTION_FAILED is appended to the log, whatever the row
  says by then. (`TemporalLauncher` keeps no log but the events of the workflow,
  and leaves this event out.) The probe runs inside the execution: no thread but the recorder's
  sees it.
* *A batch* does not repeat what `LocalRun` says of a run: a child is RUNNING,
  then passed, failed, cancelled or purged, and occupies a worker or waits for
  one. The loop of the batch occupies one too, and any other work may: the
  executor has `Workers` of them, four in the code. When a call of the loop
  fails, what it had done before stands: the items in front have ended, or
  `start_probe_batch_item` has committed and its item, which names the run, is
  FAILED with the run at work.
* *Time.* Where only the order matters (leases of policies and turns) a lease
  lapses by an action, at any moment. Where lengths matter (sessions, limits,
  the activity lease) time is an integer that a step moves on by one.
* *A policy's clock* is the sequence of the values `next_run_at` takes: the
  code keys a run by it, and asks of a time only whether it has come.
* *A mishap* (`slips`, `troubles`, `mishaps`, `outages`, `lapses`) is counted,
  so that a property can say what holds when nothing went wrong.
* *Wrong versions* of some operators, marked `Wrong:`, stand before the right
  ones. They are used by no specification; PROJECT.json uses each to show that
  a property can fail.

## Runs, bounds and fairness

Five of the runs check several components, one in each behaviour: `MCInit`
chooses which (`part`), that one moves, and the others stay in their initial
states. Nothing is shared between them, so the states add up instead of
multiplying and each property speaks of one of them. Where a run has
liveness properties, the initial states of the others enable nothing that is
assumed to be fair (`TemporalCanary` is the exception, and its fairness is
bound to its part). An action constraint of the MC module keeps a part small
where more would repeat what another part or run checks: `OneCaller` in
`MCRuns` (no second request for a run while a probe of it is at work; it may
come before, for a suite at any time, and behind the end), `NotArchived` in
`MCControlPlane` (a run that has ended, which is all that `LocalRunEnds` asks,
is not archived).

| Run | Question | Bounds, and why they are enough |
|---|---|---|
| `runs`: canary run | do journal, SQL row, execution rows and result agree in every interleaving, and does the run keep the promises of `CanaryRun`? | 2 attempts, 2 faults, PREFLIGHT may find its target failing (the short path, on which one thing goes wrong), one delegate failure that must not be retried, a cancellation anywhere. Two faults are needed for "lost answer, then something else". |
| `runs`: local run | do row, workflow document, log and result tell one story, is PASS earned, and is the recorder heard? | 2 requests with one key, a cancelling one, one failing call, all four shapes (stream, JSON, endpoint, suite), two events in a stream before the limit: an event before `[DONE]` and one behind it, or one too many. |
| `launcher` | does the row of a run follow its workflow, truthfully, whatever comes between? | 1 workflow event besides the end, 2 faults anywhere (a lost start, then a lost connection), 1 restart, a cancel request and the retry loop at once, starts that Temporal rejects or takes. |
| `control_plane`: shutdown | is the store closed in the end, and never under a user of it? | 1 request (it may start a run or submit background work), a recovered run, 2 calls of `close()` (one that gives up or is turned away, one that comes after), 3 failures of the pool's close (the number after which the finalizer gives up), a store whose close may raise. |
| `control_plane`: local run | does a run end? | 1 request, a cancelling one, one failing call, a stream of one event and a suite: the ways to end of the other shapes are among theirs. |
| `control_plane`: canary run | does every canary run end? | 2 attempts, 1 fault; PREFLIGHT, EXECUTE and SCORE may find the target failing. |
| `jobs`: evaluation | does every run end? | 2 models with 1 item, both called at a time, 1 fault in any store method, a crash, a lost lease, a cancellation anywhere. |
| `jobs`: batch | does a batch end? | 2 items under a cap of 1, so that one waits; 3 workers, one for the loop and two that its run and other work contend for, so that none, one or both may be taken; one failing call or purged run, a cancellation and the end of the service anywhere. |
| `jobs`: activity | is a paid call made by one delivery at a time, and does BUSY end? | 2 deliveries, 2 attempts, renewals in time (`Timely`). Without it two calls at once are reachable: a lease can expire under a stalled process, which the code can shorten but not exclude. |
| `records`: activity | do all deliveries of a key agree on what it answered? | 3 deliveries, 2 attempts, 2 outcomes, 2 failures; lease of 2 ticks, renewal every tick, any delay. Three deliveries give a holder, one that takes over and one that asks later. |
| `records`: evaluation | is an item paid for once, do the four tables of a run agree, and do they say what is true? | 2 requests with one key, 2 models with 2 items, 1 fault: a refusal comes while its model has another item not begun. Calls are made one at a time here, two at a time in `jobs`; the proofs are for any number. |
| `records`: batch | is the verdict of a batch true? | 3 items under a cap of 2, so that one waits while two run; 2 workers, the loop being on one, so that of two runs one is at work and one is queued, or both once the loop has stopped; one mishap. |
| `records`: credential | is an archived secret gone, and is none left behind? | 3 calls, each any of the four operations, 1 outage or death: two that race and one that comes after. |
| `records`: catalog | is no edit lost, and does a run keep what it was made from? | 2 users, 2 documents, 2 edits, 2 uses: an edit of a stale view needs two users, a pinned revision that is edited away two documents. |
| `records`: application | is the snapshot what stands? | 2 callers, 2 requests, 4 versions: created, edited by both, submitted. |
| `records`: limit | does an attempt limit hold? | 2 calls per window of 3 ticks and a block of 3, for 10 ticks: three windows, so that a span over two of them is seen. |
| `services`: monitor | is the status deserved, do incidents tell it, and is there one run at a time? | 2 schedulers, 4 values of `next_run_at` (runs that end in any order, and a scheduler that comes back to finish its dispatch when the policy has gone on to a later run), thresholds (1, 2) and (2, 1), one mishap: a lease that lapses under a scheduler, a call that fails, a death. |
| `services`: agent | do turns not mix, and is a key read nowhere? | 2 turns of 2 rounds, 1 key in any text, a trace of 2 events, a lapsed lease and one edit, failure or death. |
| `services`: sessions | does a session end with its password, and only then? | 2 logins, 3 passwords, so that a change that was begun before a reset is finished behind it, 2 tickets; 4 ticks with an idle time of 3, a touch interval of 2 and an absolute time of 4 (one that is used may run to it), so that each of them is what binds. |
| `services`: local canary | do drivers that share a journal agree, and do they keep the promises of `CanaryRun` together? | 2 drivers, 2 tries, 2 troubles (failures, a cancellation, a death). |
| `canary_cancel_audit`, `canary_lost_ack`, `launcher_restart`, `batch_cap`, `credential_replace`, `purge_restored` | violations, see below | the smallest instances. |

Deadlock checking is off in all of them: a closed run is a proper end.

What a run checks for liveness is kept smaller than what it checks for safety
(`runs` and `records` are the larger instances): TLC looks for fair cycles in
the product of the state graph and each property. It is enough because what the
larger instances would add are states, and that no state leaves what is promised
to nobody is proved for all values of the constants (`RunIsWatched`,
`BatchIsAttended` and the like, see [proofs](#proofs)).

Fairness. `ActivityLease` assumes that time passes, that a workflow told BUSY
redelivers after its sleep (`workflow.sleep` and `continue`), that a running
call ends (every request carries the suite's timeout) and that store calls
return or raise. `TemporalCanary` assumes weak fairness of the workflow's own
steps and of deliveries (Temporal schedules tasks and timers), of the commit of
an append (retried without a limit on time) and, per activity and attempt, of
its worker getting through; an unrenewed lease expires. `ControlShutdown`
assumes that operations end (an SSE response ends with its client), that once
the service is closing background work ends (its loops read `_closing`, its
requests have timeouts), and so do the monitor threads (`_closing_event`) and
the scheduler (`_stop`); and that a thread that can go on does. Nothing is
assumed about a service that is not closing. `TemporalLauncher` assumes the same
of `start_run`, the monitor and the retry loop, that faults end (they are
bounded, and its loops retry for ever), and that a process that stopped is
started again; of Temporal and of the workflow nothing, so `RowFollowsWorkflow`
speaks of closed workflows only. `EvaluationRun` assumes that its
threads go on, that calls end (each has a timeout), that the lease of a run
nobody works on expires, and that the scan runs (at the start of every service,
then every 30 seconds). `LocalRun` assumes that a request that was begun, the
execution and the recorder go on (the target answers or its timeout does), and
`ProbeBatch` that the loop goes on, that a run at work ends, and that the
executor, whose queue is first in, first out, gives a waiting task a worker when
workers come free time and again (strong fairness; it serves the queue in order
and cannot pass a task over for ever). That workers do come free is not assumed
of the specification but stands in `BatchEnds` as its premise: batch loops and
runs share four workers, four loops can hold them all, and then none of their
runs is ever taken up. The premise is that time and again other work leaves a
worker beside the loop. Without it `BatchEnds` still says that a batch ends when
it is cancelled, for that needs no other worker. No document promises that
four batches at once come to an end, so there is no run that counts this as a
violation; it is in the list of hazards. Faults, crashes
and cancellations are never assumed to happen. The other modules state no
fairness, and no liveness.

## Proofs

`tlapm` checks every theorem; nothing is assumed but the named assumptions on
the constants (`LeaseAssumption`, `DistinctValues`, `CanaryAssumption`,
`LocalCanaryAssumption`, `ShutdownAssumption`, `LauncherAssumption`,
`LocalAssumption`, `ProbeAssumption`, `BatchAssumption`, `EvaluationAssumption`,
`CredentialAssumption`, `CatalogAssumption`, `PartnerAssumption`,
`LimitAssumption`, `AuthAssumption`, `AgentAssumption`, `MonitorAssumption`):
bounds are natural numbers, a lease outlasts the renewal interval, and so on.
Every invariant and every refinement that a passing run checks is proved here
for all values of the constants.
Some theorems state properties that no run lists any more, since the proof says
more than a run would: type correctness, `OutcomeIsFinal`, `DriverInSync`,
`AuditBeforeSideEffect`, `AdmittedWorkIsTaken`, `PoolOutlivesUsers`,
`EndIsFinal`, `ShownInOrder`, `EvidenceIsFinal`, `CancelStops`, `RefusalStops`,
`KeyMeansOneRequest`. So do the safety halves of the liveness properties: that
no reachable state leaves what is promised to nobody, or nothing to wait for
(`NobodyWaitsInVain`, `RunIsWatched`, `CancelIsCarried`, `ShutdownIsAttended`,
`RunIsAttended`, `NothingIsSkipped`, `BatchIsAttended`, `LeaseComesBack`). Each
is stated in the module that proves it.

* `RunJournalProofs`: what each event does to a typed state, and `AdvancesAgree`:
  if the SQL row agreed with the projection it still does after an event that
  both sides accept. `Planned` says that a run stands in `ACTIVITY_ORDER` where
  what it completed puts it (but for an EXECUTE left out when PREFLIGHT failed),
  `Budget` that no activity has more attempts than the policy allows and that a
  retry is scheduled only while some are left; `ProgressKept` that an accepted
  event keeps both, and `ProgressMoves` that all it can do to a run is one of
  the five steps of `Moves`: begin, try, finish an activity, end, or nothing.
  Both canary proofs take their refinement from that.

* `TemporalCanaryProofs`, for any retry policy and any number of faults. `Inv`
  (types, `DriverInSync`, the outbox is the next event of the workflow's state)
  is inductive; `RowSync` and `Counted` (every worker's attempt is counted in
  the journal) are inductive relative to it. From these: `TypeOK`,
  `RowMatchesProjection`, `DriverInSync`, `AuditBeforeSideEffect`.
  `JournalMatchesStore`: an outcome is stored before anybody hears of it
  (`Heard`), and a delivery with a failure to store has no outcome (`Spoken`),
  so no row is overwritten; `WorkerStep` and `WorkflowStep` say once what any
  action does, so that the proof need not go through them again.
  `PublishedResultIsMeasured`: from NORMALIZE on, workers and rows only carry on
  the reference that the journal holds (`Carried`), a late worker of an earlier
  attempt included, and nobody passes PERSIST without a result (`Published`).
  `PromiseKept` is the refinement: with `Planned`, `Budget` and `Within` (the
  outbox asks for no attempt beyond the policy) every step of the run is a step
  of `CanaryRun` or a stutter.
  `NobodyWaitsInVain`: no append of the workflow is refused, by Python or by
  SQL, unless it is stored already; the step it awaits is a living worker's; a
  reply says something; what it returned is how the run ended. `DriveInv` ties
  the await the workflow is in to the history it will act on: `Told` says that
  the phase and the pending failure of a history are such that `step` has an
  event for it, `Driven` that what is awaited fits that history. That SQL
  accepts what Python accepts follows from `RowMatchesProjection`
  (`SqlFollows`), so that the two validators cannot block each other.

* `LocalCanaryProofs`, for any number of drivers, attempts, failures,
  cancellations and deaths. A driver acts on what it read a while ago. `Past`
  says that what it read is the history with fewer events, or the history
  itself, and that a closed history has no future; `Ready` that the event it is
  about to append fits the state it was decided from. `append` takes an event
  only when its number is the next one, so that the two states are the same:
  hence `DriversAgree`, and `DriversKeepPromise` as above.

* `TemporalLauncherProofs`, for any number of events, faults and restarts.
  `EndIsFinal` needs only that a run not yet started has no row (`NewRun`).
  `ShownInOrder` holds because the monitor never publishes past a gap:
  `KeepsUp` says that `last_sequence` and the next event of a batch are at most
  one beyond what is shown, while the run is RUNNING; `OtherSteps` that nothing
  but loading and publishing touches them. `VerdictIsTrue` takes what the
  thread and the cancel requests have learnt (`Knows`), that Temporal takes
  nothing back (`TemporalKeeps`), and, for failures, that no start was sent as
  long as `dispatch_outcome_uncertain` is false and the process was not
  restarted (`FailureKnown`, `WhoSends`): the restriction that
  `launcher_restart` shows to be necessary.
  `RunIsWatched` is inductive: every step that ends `start_run` or the thread
  ends the run, or starts a thread; what a failed write of `start_run` leaves is
  taken up by the next start of the process. `CancelIsCarried` adds that a
  request confirms only what Temporal took, or when the workflow is closed
  (`Knows`), and that one which finds the run not dispatched leaves it to the
  retry loop; the loop that could not read the run is the exception, as in the
  code.

* `ControlPlaneProofs`. Shutdown, for any number of requests, runs and calls of
  `close()`: it looks at scheduler, launcher and background one after
  the other and trusts each answer later, so `StoreOutlivesUsers` needs to know
  why an answer does not go stale: "closing, and no operation" is stable
  (`QuietStays`), consumers are stopped only then (`StopsWhenQuiet`), and only
  an operation could bring back what was found stopped (`StoppedStays`,
  `FoundStopped`). `AdmittedWorkIsTaken` and `PoolOutlivesUsers` follow from
  the same invariant. `ShutdownIsAttended`: a call that leaves the store open
  hands over to the finalizer, and the finalizer ends only with the store or
  after three failures of the pool (`FinalizerEnds`); a call that is turned away
  found another at work.
  A local run, for any number of requests, cancellations and failing calls, and
  streams of any length: `EngineInv` says that the reports of a probe follow
  one another, each from the step where the one before ended, and what has been
  answered when it reports success; `PassIsEarned` is part of it. `StoryInv`
  relates the row to its log, whoever wrote last; `RowTellsOneStory` and
  `LogTellsTheRow` follow from it: one event says how the run ended, and behind
  it stands at most the one of a monitor that could not be told, because a run
  ends once and only who ended it tells the monitor (`TellInv`). `ExecInv` ties both to the execution: only who created
  the row hands it over (`OneJob`), and while the run is RUNNING its workflow
  document shows exactly the reports the recorder has taken (`Shows`). So the
  next report is a step the document accepts, and `RecorderIsHeard` follows:
  a recorder that gave up met a failed call or a run that somebody else ended.
  `RunIsAttended`: a run that is `Left` (RUNNING, with no failed call, no dead
  process and no `cancel_run` between its signal and the row) has a request that
  starts it or an execution that will end it, and the execution was not told to
  stop.

* `JobsProofs`. An evaluation run, for any number of models, items,
  requests and faults and any concurrency. `EvidenceIsFinal` needs no invariant: every writer looks
  at the state in its own transaction. `CancelStops`: once a late call has
  begun, the coordinator is past it only with its own event set
  (`LateIsLast`), because its next check reads the row, and what is off stays
  off (`OffStays`). `PaidOnce`: one request starts the run (`OneStart`), and the
  coordinator calls work in order, behind its start in the log (`InOrder`).
  `RefusalStops`: a stored refusal is known to the coordinator, or it is about
  to take note of it, or it will start nothing any more (`Knows`).
  `EvidenceAgrees` is about four tables with three writers. `RowStep` says what
  one step can do to the rows, whoever takes it: an item, an event with its
  model, an end, or nothing. From it: events are numbered as the log is long
  and the end is the last (`LogInv`), a stored item is the answer of work that
  is not awaited any more (`SettledInv`), a model counts its items
  (`ModelsInv`, with the library's theorems on cardinalities).
  `VerdictsAreHonest` needs `Reasons`: what the coordinator remembers when it
  decides (a fatal answer, a cancellation, that all is asked) stands in the
  rows. `NothingIsSkipped`: what the coordinator has come past is stored, in its
  hands, or of a model it stopped (`Handled`), a model is stopped only for a
  stored answer (`StopsHaveReasons`), and the run ends when nothing is in hand.
  A batch, for any number of items, any cap and any failures: `Stage` says
  where the loop can be for what the row says, `Booked` what its `pending` and
  `watched` and the child runs say of an item, `Judged` that the verdict, once
  written, is that of the items, none of which is open any more. An item that
  names its run and is over has a run that is over as well, as long as no call
  failed: the last conjunct says so, and no more, because
  `start_probe_batch_item` may be answered by an error behind its commit.
  `BatchIsAttended` (the loop stops only with the batch over, the service
  closing or a call that failed, and polls only for a child it watches) needs
  `Minded`: an open item is in `pending` or `watched`, or is being recorded.
  Deliveries of an activity (any number of them, of attempts and outcomes):
  `OneOutcome` and `FailuresReplayed` are not inductive alone: a delivery about
  to store must still be tied to the row. `AnswerInv` adds the kinds of answers
  each row status and each stage of a delivery may hold; `RowKept` says how a
  row may change and `OwnStep` what a delivery learns in its own step, and
  `AnswerNext` puts them together. `OutcomeIsFinal` follows from `RowKept`.
  For `NoConcurrentPaidCalls`, `FreshTokens` (a token is in the row only after
  its delivery claimed) and `ExclusionInv` (whoever runs owns a live lease with
  more ticks left than its renewer waits) are inductive when `Timely` holds.

* `RecordsProofs`, for any number of callers. `ArchivedSecretIsGone`: a call
  that would still write the secret back must pass the row first, and the row
  is ARCHIVED (`ProfileInv`). `NoOrphans` says that every secret in the vault is
  the profile's or on its way to be taken back by the call that put it there.
  `EditsBuildOnEachOther` needs that a version names one text (`Fits` compares
  versions, the property speaks of texts); `RunsKeepWhatTheyUsed` that revisions
  are only added, and that a use forbids a purge in the transaction that
  deletes. `SnapshotIsWhatStands` and `KeyMeansOneRequest` follow from one
  invariant of the row and its callers. `LimitHolds` orders the admissions by
  window: no window holds more than `MaxCalls`, and windows do not overlap.

* `ServicesProofs`, for any number of sessions, turns and schedulers. Sessions:
  an open session was opened with a password that its login checked after the
  last change, or the login was overtaken (`AuthInv`). Turns: `LogFits` says that
  the entries of one turn are followed by its own only, as long as it holds the
  session, and that a turn that has not begun has written nothing; a turn that
  was overtaken can write nothing, because every write looks at the token.
  `LeaseComesBack`: a turn that is over and still holds the session met a failure
  or died, and its heartbeat is over with it, so that the lease runs out.
  Schedulers: `OneRunAtATime` charges every run beyond the first to a mishap.
  `Strays` are the runs that are RUNNING, or in the hands of a scheduler, and
  that the policy does not count as its own any more; `MonitorInv` says that
  there are no more of them than mishaps, and (`InOrder`) that a token is one
  scheduler's, who finds the last run over and its slot the one it leased. An
  overtaken scheduler does not set the policy back (`LastMovesOn`), since `Holds`
  asks for the token.
  `IncidentsTellStatus` carries one more fact: a sample that
  counts is of a run that ended no later than the health says.
  `StatusIsDeserved` defines the status by the samples alone; the bridge to
  `transition_state` is `Tallied`: its counters are the lengths of the rows of
  failures and of passes that the counted samples end with. A stale sample
  leaves both as they are (`SkippedSample`), a sample that counts lengthens one
  row and ends the other (`TakenSample`), so that a threshold is reached exactly
  when the definition says so.

Only model-checked: liveness (`BusyResolves`, `RunCloses`, `ShutdownEnds`,
`RowFollowsWorkflow`, `CancelIsDelivered`, `EveryRunEnds`, `LocalRunEnds`,
`BatchEnds`). They rest on fairness, whose meaning is ENABLED, and that is
beyond this prover. For all of them but `BusyResolves` and `EveryRunEnds` the
safety half is proved (above): there, only "who can go on, does" is left to the
small instances. Of those two there is nothing to prove beyond `NothingIsSkipped`
and the type invariant: the scan finds every expired lease whoever left it, and a
workflow told BUSY asks again whatever the row says. The six properties that the
code violates have counterexamples, not proofs.

## Where code and documents disagree

* `canary_cancel_audit`: ADR-004 (lines 56-59) says the workflow appends
  `WORKFLOW_CANCELLED` before a cancellation is rethrown. `run()` catches
  `asyncio.CancelledError` (`temporal_workflow.py:80`); while an append is
  awaited the cancellation arrives as an `ActivityError` with a cancelled
  cause, which only `_execute_step` unwraps. The execution closes as cancelled
  and the journal stays RUNNING.
* `canary_lost_ack`: ADR-002 (lines 47-49) says the key returns the prior
  durable result. When `complete` commits and its answer is lost, `invoke`
  (`native_activities.py:315`) records a failure; the row refuses, and the
  refusal becomes the non-retryable `ACTIVITY_IDEMPOTENCY_CONFLICT`: the run is
  REJECTED although its outcome is stored.
* `launcher_restart`: ADR-004 (lines 103-109) says that process recovery
  attaches as the monitor does, and that neither invents a failed measurement
  for an uncertain acknowledgement. After a restart the monitor starts with
  `dispatch_outcome_uncertain = False` (`temporal_backend.py:305`), so a first
  connection that fails ends the run as FAILED; and a `recover()` that raises
  does so at once (`control_service.py:385-388`). The workflow may be running.

* `batch_cap`: README.md:139 promises "total concurrency capped at two", and
  `tests/test_probe_batch_contract.py:84` tests it. When recording a child that
  was started fails, or is refused because the batch was cancelled meanwhile,
  the handler (`control_service.py:735`) marks the item FAILED and forgets the
  run, which works on, uncounted; the loop starts another.
* `credential_replace`: `tests/test_credential_service.py:107` says that a
  replacement whose update fails rolls the vault back. When two replacements
  overlap, the one that is refused for its version puts back what *it* had read
  (`credential_service.py:246`), over the secret the other has recorded: vault
  and fingerprint part.
* `purge_restored`: README.md:116 says "Purge requires an archived resource".
  `purge_target` and `purge_suite` read `archived_at` without a lock and delete
  by id (`postgres_control_store.py:1154`); what is restored in between is
  purged while it is active.

## What is left out

Of the modelled components: the bytes of events, evidence and results (only
which reference names which measurement is kept), hash and schema checks that
a correct caller always passes, the query and the replay machinery of Temporal,
and the credential lookups of `_resolve_context` beyond "may fail, retryably or
not". `load` of the journal at start is a read of the projection: a new
workflow starts from an empty journal because ids are not reused.

Of the evaluations: the cost budget, which `_execute_run` never binds, archiving
and purging of ended runs, and the datasets. Of the probe engine: sockets,
timings and usage arithmetic, and what each endpoint's content is checked for.
Of authentication: CSRF tokens, audit records, memberships, hashing and cookies.
Of batches: their log of events and the immutable catalog snapshot they are
made from. Of the launcher: the worker's entry point, which is start-up code.
Of monitoring: retention, and the arithmetic challenge, which is a pure function.

Not modelled at all, and why, is said per component in PROJECT.json: I/O
(runners, evidence files), pure data (scoring, compiler, scorers, redaction),
generated or presentational code (frontend, HTTP API), a test server.

## Plan

Every safety property that a run checks and both refinements are proved. What
would come next:

1. `TemporalLauncher` composed with `CanaryRun`, in the place of its status and
   growing journal, so that the row of a run is tied to the promise directly.
2. The rest of the probe engine (providers, targets) and the memberships of
   workspaces, as modules of their own.
