-------------------------- MODULE ControlShutdown --------------------------
(***************************************************************************)
(* How a control process stops.  ControlPlaneService                       *)
(* (web/control_service.py) owns the PostgreSQL store that requests,       *)
(* background work, the monitor scheduler (monitoring/scheduler.py) and    *)
(* the threads of the Temporal launcher (web/temporal_backend.py) use; the *)
(* launcher owns a pool of its own.  close() drains and stops them all; if *)
(* that takes too long it leaves the rest to a finalizer thread.           *)
(*                                                                         *)
(* A request is whatever runs under an operation lease: an HTTP request    *)
(* (the middleware), or a call of start_run by the scheduler or by a batch. *)
(* What is done with the store meanwhile does not matter here, only until  *)
(* when it may be used.                                                    *)
(***************************************************************************)
EXTENDS Naturals

CONSTANTS
    Requests,       \* operations; a run a request starts has its name
    Recovered,      \* runs the launcher watches since the start of the process
    Closers,        \* calls of close()
    Finalizer,      \* lexsond-postgres-close-finalizer
    MaxFailures,    \* how often closing the pool may fail
    StoreMayFail    \* whether closing the store may fail

ASSUME ShutdownAssumption ==
    /\ Requests \cap Recovered = {}
    /\ Finalizer \notin Closers
    /\ MaxFailures \in Nat /\ StoreMayFail \in BOOLEAN

Runs   == Requests \cup Recovered
Agents == Closers \cup {Finalizer}

VARIABLES
    req,            \* where a request is
    background,     \* _background_futures, by the request that submitted them
    monitor,        \* the launcher's thread of a run
    scheduler,      \* running, stopping (_stop is set) or stopped
    executorDown,   \* executor.shutdown was called
    closing, inProgress, closed, finalizing,    \* the flags of the service
    launcherClosing,
    pool,           \* open, closing (close() is being called) or closed
    failures,
    storage,        \* open, closed, or failed (close() raised)
    agent,          \* where a call of close(), or the finalizer, is
    allStopped      \* what it has found so far

service  == << closing, inProgress, closed, finalizing >>
launcher == << monitor, launcherClosing, pool, failures >>
progress == << agent, allStopped >>
shutdownVars == << req, background, scheduler, executorDown, service, launcher, storage, progress >>

Admitted == {"open", "inside", "starting", "leaving"}
Serving  == \E r \in Requests : req[r] \in Admitted     \* _inflight_operations > 0

ShutdownInit ==
    /\ req = [r \in Requests |-> "new"]
    /\ background = {}
    /\ monitor = [u \in Runs |-> IF u \in Recovered THEN "connecting" ELSE "none"]
    /\ scheduler \in {"running", "stopped"}         \* stopped when not enabled
    /\ executorDown = FALSE
    /\ closing = FALSE /\ inProgress = FALSE /\ closed = FALSE /\ finalizing = FALSE
    /\ launcherClosing = FALSE /\ pool = "open" /\ failures = 0
    /\ storage = "open"
    /\ agent = [a \in Agents |-> "idle"]
    /\ allStopped = [a \in Agents |-> TRUE]

----------------------------------------------------------------------------
(* The launcher's pool is closed by whoever leaves it idle.                *)

Quiescent(inFlight, threads, lclosing) ==
    lclosing /\ (\A u \in Runs : threads[u] = "none") /\ ~inFlight

Starting(reqs) == \E r \in Requests : reqs[r] = "starting"

\* _close_pool_when_idle, with what the caller has just changed.
ClosePoolWhenIdle ==
    pool' = IF pool = "open" /\ Quiescent(Starting(req'), monitor', launcherClosing')
            THEN "closing" ELSE pool

PoolCloses ==
    /\ pool = "closing"
    /\ pool' = "closed"
    /\ UNCHANGED << req, background, scheduler, executorDown, service, monitor,
                    launcherClosing, failures, storage, progress >>

PoolCloseFails ==
    /\ pool = "closing" /\ failures < MaxFailures
    /\ pool' = "open" /\ failures' = failures + 1
    /\ UNCHANGED << req, background, scheduler, executorDown, service, monitor,
                    launcherClosing, storage, progress >>

----------------------------------------------------------------------------
(* Requests.                                                               *)

Move(r, from, to) == req[r] \in from /\ req' = [req EXCEPT ![r] = to]

\* _begin_operation.
Admit(r) ==
    /\ Move(r, {"new"}, IF closing THEN "refused" ELSE "open")
    /\ UNCHANGED << background, scheduler, executorDown, service, launcher, storage, progress >>

\* start_run or cancel_run, called under the lease of the HTTP request, begins
\* an operation of its own; it is refused as soon as the service is closing.
EnterMethod(r) ==
    /\ Move(r, {"open"}, IF closing THEN "leaving" ELSE "inside")
    /\ UNCHANGED << background, scheduler, executorDown, service, launcher, storage, progress >>

\* _submit_background by an admitted operation; a pool that was shut down raises.
Submit(r) ==
    /\ Move(r, {"open", "inside"}, "leaving")
    /\ background' = IF executorDown THEN background ELSE background \cup {r}
    /\ UNCHANGED << scheduler, executorDown, service, launcher, storage, progress >>

FinishBackground(r) ==
    /\ r \in background
    /\ background' = background \ {r}
    /\ UNCHANGED << req, scheduler, executorDown, service, launcher, storage, progress >>

\* temporal.start: _begin_start, then _start_monitor and _end_start.
BeginStart(r) ==
    /\ Move(r, {"inside"}, IF launcherClosing THEN "leaving" ELSE "starting")
    /\ UNCHANGED << background, scheduler, executorDown, service, launcher, storage, progress >>

EndStart(r) ==
    /\ Move(r, {"starting"}, "leaving")
    /\ \/ UNCHANGED monitor             \* it raised
       \/ ~launcherClosing /\ monitor' = [monitor EXCEPT ![r] = "connecting"]
    /\ UNCHANGED launcherClosing /\ ClosePoolWhenIdle
    /\ UNCHANGED << background, scheduler, executorDown, service, failures, storage, progress >>

EndOperation(r) ==
    /\ Move(r, Admitted \ {"starting"}, "done")
    /\ UNCHANGED << background, scheduler, executorDown, service, launcher, storage, progress >>

----------------------------------------------------------------------------
(* Monitor threads and the scheduler.                                      *)

\* _begin_dispatch, refused when the launcher is closing: the thread ends.
BeginDispatch(u) ==
    /\ monitor[u] = "connecting" /\ ~launcherClosing
    /\ monitor' = [monitor EXCEPT ![u] = "dispatching"]
    /\ UNCHANGED << req, background, scheduler, executorDown, service, launcherClosing,
                    pool, failures, storage, progress >>

\* The workflow is started or attached to, or its start is to be tried again.
EndDispatch(u) ==
    /\ monitor[u] = "dispatching"
    /\ \E to \in {"watching", "connecting"} : monitor' = [monitor EXCEPT ![u] = to]
    /\ UNCHANGED << req, background, scheduler, executorDown, service, launcherClosing,
                    pool, failures, storage, progress >>

\* The thread ends: its run has, it failed, or the launcher is closing.
EndMonitor(u) ==
    /\ monitor[u] \in {"connecting", "watching"}
    /\ monitor' = [monitor EXCEPT ![u] = "none"]
    /\ UNCHANGED << req, launcherClosing >> /\ ClosePoolWhenIdle
    /\ UNCHANGED << background, scheduler, executorDown, service, failures, storage, progress >>

EndScheduler ==
    /\ scheduler = "stopping"
    /\ scheduler' = "stopped"
    /\ UNCHANGED << req, background, executorDown, service, launcher, storage, progress >>

----------------------------------------------------------------------------
(* close() and the finalizer.                                              *)

Go(a, from, to) == agent[a] = from /\ agent' = [agent EXCEPT ![a] = to]

\* A call that finds the service closed, or being closed, returns at once.
EnterClose(c) ==
    /\ c \in Closers
    /\ IF closed \/ inProgress
       THEN Go(c, "idle", "returned") /\ UNCHANGED << closing, inProgress >>
       ELSE Go(c, "idle", "draining") /\ closing' = TRUE /\ inProgress' = TRUE
    /\ UNCHANGED << closed, finalizing, req, background, scheduler, executorDown,
                    launcher, storage, allStopped >>

Drained(a) ==
    /\ ~Serving /\ Go(a, "draining", "stopping")
    /\ UNCHANGED << req, background, scheduler, executorDown, service, launcher, storage,
                    allStopped >>

\* _start_shutdown_finalizer.
StartFinalizer ==
    /\ finalizing' = TRUE
    /\ allStopped' = IF finalizing THEN allStopped ELSE [allStopped EXCEPT ![Finalizer] = TRUE]

\* Only close() gives up on the operations, and then it raises.
DrainTimeout(c) ==
    /\ c \in Closers /\ Serving /\ agent[c] = "draining"
    /\ agent' = [agent EXCEPT ![c] = "returned",
                              ![Finalizer] = IF finalizing THEN @ ELSE "draining"]
    /\ StartFinalizer
    /\ UNCHANGED << closing, inProgress, closed, req, background, scheduler, executorDown,
                    launcher, storage >>

\* _stop_consumers: the scheduler, the launcher, the executor; then a look at
\* each of them in turn.
StopScheduler(a) ==
    /\ Go(a, "stopping", "stop_launcher")
    /\ scheduler' = IF scheduler = "running" THEN "stopping" ELSE scheduler
    /\ UNCHANGED << req, background, executorDown, service, launcher, storage, allStopped >>

StopLauncher(a) ==
    /\ Go(a, "stop_launcher", "stop_executor")
    /\ launcherClosing' = TRUE
    /\ UNCHANGED << req, monitor >> /\ ClosePoolWhenIdle
    /\ UNCHANGED << background, scheduler, executorDown, service, failures, storage, allStopped >>

StopExecutor(a) ==
    /\ Go(a, "stop_executor", "look_scheduler")
    /\ executorDown' = TRUE
    /\ UNCHANGED << req, background, scheduler, service, launcher, storage, allStopped >>

\* The finalizer waits as long as it takes; close() notes what has not stopped.
Look(a, from, to, stopped) ==
    /\ a = Finalizer => stopped
    /\ Go(a, from, to)
    /\ allStopped' = [allStopped EXCEPT ![a] = @ /\ stopped]
    /\ UNCHANGED << req, background, scheduler, executorDown, service, launcher, storage >>

LookAtScheduler(a)  == Look(a, "look_scheduler", "look_launcher", scheduler = "stopped")
LookAtLauncher(a)   == Look(a, "look_launcher", "look_background", pool = "closed")
IgnoresBackground(a) == Look(a, "look_background", "decide", TRUE)      \* wrong
LookAtBackground(a) == Look(a, "look_background", "decide", background = {})

\* wait_closed tries to close the pool again, and raises after three failures.
NeverRetries(a) == FALSE        \* wrong
RetryPool(a) ==
    /\ agent[a] = "look_launcher" /\ pool = "open"
    /\ Quiescent(Starting(req), monitor, launcherClosing)
    /\ pool' = "closing"
    /\ UNCHANGED << req, background, scheduler, executorDown, service, monitor,
                    launcherClosing, failures, storage, progress >>

GiveUpOnPool ==
    /\ failures >= 3
    /\ Go(Finalizer, "look_launcher", "look_background")
    /\ allStopped' = [allStopped EXCEPT ![Finalizer] = FALSE]
    /\ UNCHANGED << req, background, scheduler, executorDown, service, launcher, storage >>

CloseStore(a) ==
    /\ allStopped[a] /\ Go(a, "decide", "closed")
    /\ storage' = "closed"
    /\ UNCHANGED << req, background, scheduler, executorDown, service, launcher, allStopped >>

CloseStoreFails(a) ==
    /\ StoreMayFail /\ allStopped[a] /\ Go(a, "decide", "not_closed")
    /\ storage' = IF storage = "closed" THEN storage ELSE "failed"
    /\ UNCHANGED << req, background, scheduler, executorDown, service, launcher, allStopped >>

\* close() hands over to the finalizer; the finalizer just ends.
Defer(a) ==
    /\ ~allStopped[a] /\ agent[a] = "decide"
    /\ IF a = Finalizer
       THEN Go(a, "decide", "not_closed") /\ UNCHANGED << finalizing, allStopped >>
       ELSE /\ agent' = [agent EXCEPT ![a] = "not_closed",
                                      ![Finalizer] = IF finalizing THEN @ ELSE "draining"]
            /\ StartFinalizer
    /\ UNCHANGED << closing, inProgress, closed, req, background, scheduler, executorDown,
                    launcher, storage >>

\* How close() ends.  _shutdown_finalizer_started is read outside the lock.
Return(c) ==
    /\ c \in Closers
    /\ \/ Go(c, "closed", "returned")   /\ closed' = TRUE /\ inProgress' = FALSE
       \/ Go(c, "releasing", "returned") /\ inProgress' = FALSE /\ UNCHANGED closed
       \/ /\ Go(c, "not_closed", IF finalizing THEN "returned" ELSE "releasing")
          /\ UNCHANGED << closed, inProgress >>
    /\ UNCHANGED << closing, finalizing, req, background, scheduler, executorDown,
                    launcher, storage, allStopped >>

\* The finally of _finish_deferred_shutdown.
EndFinalizer ==
    /\ agent[Finalizer] \in {"closed", "not_closed"}
    /\ closed' = (agent[Finalizer] = "closed")
    /\ agent' = [agent EXCEPT ![Finalizer] = "idle"]
    /\ inProgress' = FALSE /\ finalizing' = FALSE
    /\ UNCHANGED << closing, req, background, scheduler, executorDown, launcher, storage,
                    allStopped >>

----------------------------------------------------------------------------
Request(r) ==
    \/ Admit(r) \/ EnterMethod(r) \/ Submit(r) \/ BeginStart(r) \/ EndStart(r)
    \/ EndOperation(r) \/ FinishBackground(r)

Monitor(u) == BeginDispatch(u) \/ EndDispatch(u) \/ EndMonitor(u)

Shut(a) ==
    \/ Drained(a) \/ StopScheduler(a) \/ StopLauncher(a) \/ StopExecutor(a)
    \/ LookAtScheduler(a) \/ LookAtLauncher(a) \/ LookAtBackground(a)
    \/ CloseStore(a) \/ Defer(a)

ShutdownNext ==
    \/ \E r \in Requests : Request(r)
    \/ \E u \in Runs : Monitor(u)
    \/ EndScheduler \/ PoolCloses \/ PoolCloseFails
    \/ \E a \in Agents : Shut(a) \/ RetryPool(a) \/ CloseStoreFails(a)
    \/ \E c \in Closers : EnterClose(c) \/ DrainTimeout(c) \/ Return(c)
    \/ GiveUpOnPool \/ EndFinalizer

ShutdownSpec == ShutdownInit /\ [][ShutdownNext]_shutdownVars

(***************************************************************************)
(* Fairness: operations end; once the service is closing, background work  *)
(* (its loops look at _closing, its requests have timeouts), the threads   *)
(* and the scheduler end; every thread that can go on does.                *)
(***************************************************************************)
ShutdownFairness ==
    /\ \A r \in Requests : WF_shutdownVars(EndOperation(r)) /\ WF_shutdownVars(EndStart(r))
                           /\ WF_shutdownVars(closing /\ FinishBackground(r))
    /\ \A u \in Runs : WF_shutdownVars(EndDispatch(u))
                       /\ WF_shutdownVars(launcherClosing /\ EndMonitor(u))
    /\ WF_shutdownVars(EndScheduler) /\ WF_shutdownVars(PoolCloses)
    /\ \A a \in Agents : WF_shutdownVars(Shut(a)) /\ WF_shutdownVars(RetryPool(a))
    /\ \A c \in Closers : WF_shutdownVars(Return(c))
    /\ WF_shutdownVars(EndFinalizer)

FairShutdown == ShutdownSpec /\ ShutdownFairness

----------------------------------------------------------------------------
(* Properties.                                                             *)

\* The type invariant.
ShutdownTypeOK ==
    /\ req \in [Requests -> {"new", "refused", "done"} \cup Admitted]
    /\ background \subseteq Requests
    /\ monitor \in [Runs -> {"none", "connecting", "dispatching", "watching"}]
    /\ scheduler \in {"running", "stopping", "stopped"}
    /\ executorDown \in BOOLEAN
    /\ closing \in BOOLEAN /\ inProgress \in BOOLEAN
    /\ closed \in BOOLEAN /\ finalizing \in BOOLEAN
    /\ launcherClosing \in BOOLEAN
    /\ pool \in {"open", "closing", "closed"} /\ failures \in 0..MaxFailures
    /\ storage \in {"open", "closed", "failed"}
    /\ agent \in [Agents -> {"idle", "draining", "stopping", "stop_launcher", "stop_executor",
                             "look_scheduler", "look_launcher", "look_background", "decide",
                             "closed", "not_closed", "releasing", "returned"}]
    /\ allStopped \in [Agents -> BOOLEAN]

\* The store is closed only when nobody can use it any more: no operation
\* (ADR-006, lines 38-40), no background work, no scheduler, no monitor thread;
\* although each of them was looked at in a different moment.
StoreOutlivesUsers ==
    storage = "closed" =>
        /\ ~Serving /\ background = {}
        /\ scheduler = "stopped"
        /\ \A u \in Runs : monitor[u] = "none"

\* An operation that was admitted is not let down half-way: as long as one is
\* running, the executor takes work and the launcher starts workflows
\* (tests/test_persistence_lifecycle.py, "allows its dispatch").
AdmittedWorkIsTaken == Serving => ~executorDown /\ ~launcherClosing

\* The launcher's pool is not closed under a monitor thread, nor under a start.
PoolOutlivesUsers ==
    pool # "open" => (\A u \in Runs : monitor[u] = "none") /\ ~Starting(req)

\* Once begun, shutdown comes to its end: the store is closed, in close() or by
\* the finalizer, whatever was slow, unless closing the pool fails three times
\* or closing the store raises (then close() may be called again).
ShutdownEnds == closing ~> storage # "open" \/ failures >= 3
=============================================================================
