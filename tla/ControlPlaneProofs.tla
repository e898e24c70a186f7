-------------------------- MODULE ControlPlaneProofs --------------------------
(***************************************************************************)
(* Proofs about the control process: how it shuts down (ControlShutdown),  *)
(* for any number of operations, runs and calls of close() and any number  *)
(* of failures; and the runs it executes itself (LocalRun, with the probe  *)
(* of ProbeEngine and the workflow of ComponentFlow), for any number of    *)
(* requests, cancellations and failed calls, and streams of any length.    *)
(*                                                                         *)
(* Shutdown.  "The service is closing and no operation runs" is stable,    *)
(* since no operation is admitted any more (Quiet).  Consumers are stopped *)
(* only then; and what close() then finds stopped stays stopped, because   *)
(* only an operation could bring it back (FoundStopped).  So looking at    *)
(* them one after the other is as good as looking at all of them at once.  *)
(*                                                                         *)
(* A run.  The invariant has a part for each who acts.  EngineInv: what a  *)
(* probe reports is in order, each report continuing the one before.       *)
(* StoryInv: the row and its log agree, whoever wrote them last.  ExecInv: *)
(* one execution at most owns the row, and the workflow shows exactly the  *)
(* reports its recorder has taken (Shows) -- so that the next one is a     *)
(* step the workflow accepts.                                              *)
(***************************************************************************)
EXTENDS ControlShutdown, LocalRun, TLAPS

Quiet == closing /\ ~Serving

PastDraining == {"stopping", "stop_launcher", "stop_executor", "look_scheduler",
                 "look_launcher", "look_background", "decide"}
SawScheduler  == {"look_launcher", "look_background", "decide"}
SawLauncher   == {"look_background", "decide"}
SawBackground == {"decide"}

\* Consumers are stopped only when it is quiet.
StopsWhenQuiet ==
    /\ \A a \in Agents : agent[a] \in PastDraining => Quiet
    /\ \A a \in Agents : agent[a] = "draining" => closing
    /\ executorDown \/ launcherClosing => Quiet

\* The pool is in use by nobody from the moment it begins to close.
PoolIsIdle ==
    pool # "open" => /\ launcherClosing
                     /\ \A u \in Runs : monitor[u] = "none"

\* What an agent has found stopped is stopped.
FoundStopped ==
    \A a \in Agents : allStopped[a] =>
        /\ agent[a] \in SawScheduler => scheduler = "stopped"
        /\ agent[a] \in SawLauncher => pool = "closed"
        /\ agent[a] \in SawBackground => background = {}

StoreIsLast ==
    storage = "closed" => /\ Quiet /\ background = {}
                        /\ scheduler = "stopped" /\ pool = "closed"

Inv == ShutdownTypeOK /\ StopsWhenQuiet /\ PoolIsIdle /\ FoundStopped /\ StoreIsLast

----------------------------------------------------------------------------
\* The initial state is typed.
LEMMA TypeInit == ShutdownInit => ShutdownTypeOK
<1> SUFFICES ASSUME ShutdownInit PROVE ShutdownTypeOK
  OBVIOUS
<1> USE DEF ShutdownInit, Admitted
<1>1. monitor \in [Runs -> {"none", "connecting", "dispatching", "watching"}]
  OBVIOUS
<1>2. agent \in [Agents -> {"idle"}] /\ allStopped \in [Agents -> BOOLEAN]
  OBVIOUS
<1>3. failures \in 0..MaxFailures
  BY ShutdownAssumption
<1> QED BY <1>1, <1>2, <1>3 DEF ShutdownTypeOK

\* Every step keeps the types.
LEMMA TypeNext == ShutdownTypeOK /\ [ShutdownNext]_shutdownVars => ShutdownTypeOK'
<1> SUFFICES ASSUME ShutdownTypeOK, [ShutdownNext]_shutdownVars PROVE ShutdownTypeOK'
  OBVIOUS
<1> USE ShutdownAssumption DEF ShutdownTypeOK, Admitted, service, launcher, progress
<1>1. ASSUME NEW r \in Requests, Request(r) PROVE ShutdownTypeOK'
  <2>0. Requests \subseteq Runs
    BY DEF Runs
  <2>1. CASE Admit(r) \/ EnterMethod(r) \/ BeginStart(r) \/ EndOperation(r)
    BY <2>1 DEF Admit, EnterMethod, BeginStart, EndOperation, Move
  <2>2. CASE Submit(r) \/ FinishBackground(r)
    BY <2>2 DEF Submit, FinishBackground, Move
  <2>3. CASE EndStart(r)
    BY <2>3, <2>0 DEF EndStart, Move, ClosePoolWhenIdle
  <2> QED BY <1>1, <2>1, <2>2, <2>3 DEF Request
<1>2. ASSUME NEW u \in Runs, Monitor(u) PROVE ShutdownTypeOK'
  BY <1>2 DEF Monitor, BeginDispatch, EndDispatch, EndMonitor, ClosePoolWhenIdle
<1>3. CASE EndScheduler \/ PoolCloses \/ PoolCloseFails
  BY <1>3 DEF EndScheduler, PoolCloses, PoolCloseFails
<1>4. ASSUME NEW a \in Agents, Shut(a) \/ RetryPool(a) \/ CloseStoreFails(a)
      PROVE  ShutdownTypeOK'
  <2>1. CASE Drained(a)
    BY <2>1 DEF Drained, Go
  <2>9. CASE StopScheduler(a)
    BY <2>9 DEF StopScheduler, Go
  <2>10. CASE StopExecutor(a)
    BY <2>10 DEF StopExecutor, Go
  <2>2. CASE StopLauncher(a)
    BY <2>2 DEF StopLauncher, Go, ClosePoolWhenIdle
  <2>3. CASE LookAtScheduler(a)
    BY <2>3 DEF LookAtScheduler, Look, Go
  <2>4. CASE LookAtLauncher(a)
    BY <2>4 DEF LookAtLauncher, Look, Go
  <2>5. CASE LookAtBackground(a)
    BY <2>5 DEF LookAtBackground, Look, Go
  <2>6. CASE CloseStore(a) \/ CloseStoreFails(a)
    BY <2>6 DEF CloseStore, CloseStoreFails, Go
  <2>7. CASE Defer(a)
    BY <2>7 DEF Defer, StartFinalizer, Go, Agents
  <2>8. CASE RetryPool(a)
    BY <2>8 DEF RetryPool
  <2> QED BY <1>4, <2>1, <2>2, <2>3, <2>4, <2>5, <2>6, <2>7, <2>8, <2>9, <2>10
         DEF Shut
<1>5. ASSUME NEW c \in Closers, EnterClose(c) \/ DrainTimeout(c) \/ Return(c)
      PROVE  ShutdownTypeOK'
  <2>1. CASE EnterClose(c)
    BY <2>1 DEF EnterClose, Go, Agents
  <2>2. CASE DrainTimeout(c)
    BY <2>2 DEF DrainTimeout, StartFinalizer, Agents
  <2>3. CASE Return(c)
    BY <2>3 DEF Return, Go, Agents
  <2> QED BY <1>5, <2>1, <2>2, <2>3
<1>6. CASE GiveUpOnPool
  BY <1>6 DEF GiveUpOnPool, Go, Agents
<1>8. CASE EndFinalizer
  BY <1>8 DEF EndFinalizer, Agents
<1>7. CASE UNCHANGED shutdownVars
  BY <1>7 DEF shutdownVars
<1> QED BY <1>1, <1>2, <1>3, <1>4, <1>5, <1>6, <1>7, <1>8 DEF ShutdownNext

----------------------------------------------------------------------------
\* Nothing is stopped, nor closed, at the start.
LEMMA InvInit == ShutdownInit => Inv
BY TypeInit DEF ShutdownInit, Inv, StopsWhenQuiet, PoolIsIdle, FoundStopped, StoreIsLast,
   PastDraining, SawScheduler, SawLauncher, SawBackground

\* Once quiet, always quiet; and then nobody is starting a run.
LEMMA QuietStays ==
    ASSUME ShutdownTypeOK, Quiet, [ShutdownNext]_shutdownVars
    PROVE  Quiet' /\ ~Starting(req)
<1> USE DEF Quiet, Serving, ShutdownTypeOK
<1>1. ~Starting(req)
  BY DEF Starting, Admitted
<1>2. ASSUME NEW r \in Requests, Request(r) PROVE Quiet'
  <2>1. req[r] \notin Admitted
    OBVIOUS
  <2>2. CASE Admit(r)
    BY <2>2 DEF Admit, Move, service, Admitted
  <2>3. CASE FinishBackground(r)
    BY <2>3 DEF FinishBackground, service
  <2>4. ~EnterMethod(r) /\ ~Submit(r) /\ ~BeginStart(r) /\ ~EndStart(r) /\ ~EndOperation(r)
    BY <2>1 DEF EnterMethod, Submit, BeginStart, EndStart, EndOperation, Move, Admitted
  <2> QED BY <1>2, <2>2, <2>3, <2>4 DEF Request
<1>3. ASSUME ~\E r \in Requests : Request(r) PROVE closing'
  BY <1>3 DEF ShutdownNext, shutdownVars, service, Monitor, BeginDispatch, EndDispatch, EndMonitor, EndScheduler,
     PoolCloses, PoolCloseFails, Shut, Drained, StopScheduler, StopLauncher, StopExecutor,
     LookAtScheduler, LookAtLauncher, LookAtBackground, Look, CloseStore, Defer, RetryPool,
     CloseStoreFails, EnterClose, DrainTimeout, Return, GiveUpOnPool, EndFinalizer
<1>4. ASSUME ~\E r \in Requests : Request(r) PROVE req' = req
  BY <1>4 DEF ShutdownNext, shutdownVars, Monitor, BeginDispatch, EndDispatch, EndMonitor, EndScheduler,
     PoolCloses, PoolCloseFails, Shut, Drained, StopScheduler, StopLauncher, StopExecutor,
     LookAtScheduler, LookAtLauncher, LookAtBackground, Look, CloseStore, Defer, RetryPool,
     CloseStoreFails, EnterClose, DrainTimeout, Return, GiveUpOnPool, EndFinalizer
<1> QED BY <1>1, <1>2, <1>3, <1>4

----------------------------------------------------------------------------
\* Agents are moved by their own actions; only a look changes what was found.
LEMMA AgentStep ==
    ASSUME ShutdownTypeOK, [ShutdownNext]_shutdownVars, NEW a \in Agents
    PROVE  \/ agent'[a] \notin SawScheduler \/ ~allStopped'[a]
           \/ agent'[a] = agent[a] /\ allStopped'[a] = allStopped[a]
           \/ LookAtScheduler(a) \/ LookAtLauncher(a) \/ LookAtBackground(a)
<1> DEFINE Goal == \/ agent'[a] \notin SawScheduler \/ ~allStopped'[a]
                   \/ agent'[a] = agent[a] /\ allStopped'[a] = allStopped[a]
                   \/ LookAtScheduler(a) \/ LookAtLauncher(a) \/ LookAtBackground(a)
<1> USE DEF ShutdownTypeOK, SawScheduler
<1>1. ASSUME NEW r \in Requests, Request(r) PROVE Goal
  BY <1>1 DEF Request, Admit, EnterMethod, Submit, BeginStart, EndStart, EndOperation,
     FinishBackground, progress
<1>2. ASSUME NEW u \in Runs, Monitor(u) PROVE Goal
  BY <1>2 DEF Monitor, BeginDispatch, EndDispatch, EndMonitor, progress
<1>3. CASE EndScheduler \/ PoolCloses \/ PoolCloseFails \/ UNCHANGED shutdownVars
  BY <1>3 DEF EndScheduler, PoolCloses, PoolCloseFails, shutdownVars, progress
<1>4. ASSUME NEW b \in Agents, Shut(b) \/ RetryPool(b) \/ CloseStoreFails(b) PROVE Goal
  <2>1. CASE Drained(b) \/ StopScheduler(b) \/ StopExecutor(b)
    BY <2>1 DEF Drained, StopScheduler, StopExecutor, Go
  <2>2. CASE StopLauncher(b)
    BY <2>2 DEF StopLauncher, Go
  <2>3. CASE LookAtScheduler(b) \/ LookAtLauncher(b) \/ LookAtBackground(b)
    <3>1. CASE a = b
      BY <2>3, <3>1
    <3>2. CASE a # b
      BY <2>3, <3>2 DEF LookAtScheduler, LookAtLauncher, LookAtBackground, Look, Go
    <3> QED BY <3>1, <3>2
  <2>4. CASE CloseStore(b) \/ CloseStoreFails(b)
    BY <2>4 DEF CloseStore, CloseStoreFails, Go
  <2>5. CASE Defer(b)
    BY <2>5 DEF Defer, StartFinalizer, Go, Agents
  <2>6. CASE RetryPool(b)
    BY <2>6 DEF RetryPool, progress
  <2> QED BY <1>4, <2>1, <2>2, <2>3, <2>4, <2>5, <2>6 DEF Shut
<1>5. ASSUME NEW c \in Closers, EnterClose(c) \/ DrainTimeout(c) \/ Return(c) PROVE Goal
  <2>1. CASE EnterClose(c)
    BY <2>1 DEF EnterClose, Go, Agents
  <2>2. CASE DrainTimeout(c)
    BY <2>2 DEF DrainTimeout, StartFinalizer, Agents
  <2>3. CASE Return(c)
    BY <2>3 DEF Return, Go, Agents
  <2> QED BY <1>5, <2>1, <2>2, <2>3
<1>6. CASE GiveUpOnPool
  BY <1>6 DEF GiveUpOnPool, Go, Agents
<1>7. CASE EndFinalizer
  BY <1>7 DEF EndFinalizer, Agents
<1> QED BY <1>1, <1>2, <1>3, <1>4, <1>5, <1>6, <1>7 DEF ShutdownNext

\* What has stopped while it is quiet stays so.
LEMMA StoppedStays ==
    ASSUME ShutdownTypeOK, Quiet, [ShutdownNext]_shutdownVars
    PROVE  /\ scheduler = "stopped" => scheduler' = "stopped"
           /\ pool = "closed" => pool' = "closed"
           /\ background = {} => background' = {}
<1> USE DEF ShutdownTypeOK
<1>1. ASSUME NEW r \in Requests, Request(r)
      PROVE  /\ scheduler' = scheduler /\ (pool = "closed" => pool' = "closed")
             /\ background = {} => background' = {}
  <2>1. ~Submit(r)
    BY DEF Quiet, Serving, Submit, Move, Admitted
  <2> QED BY <1>1, <2>1 DEF Request, Admit, EnterMethod, BeginStart, EndStart, EndOperation,
             FinishBackground, launcher, ClosePoolWhenIdle
<1>2. ASSUME NEW u \in Runs, Monitor(u)
      PROVE  /\ scheduler' = scheduler /\ (pool = "closed" => pool' = "closed")
             /\ background' = background
  BY <1>2 DEF Monitor, BeginDispatch, EndDispatch, EndMonitor, ClosePoolWhenIdle
<1>3. CASE EndScheduler \/ PoolCloses \/ PoolCloseFails \/ UNCHANGED shutdownVars
  BY <1>3 DEF EndScheduler, PoolCloses, PoolCloseFails, shutdownVars, launcher
<1>4. ASSUME NEW b \in Agents, Shut(b) \/ RetryPool(b) \/ CloseStoreFails(b)
      PROVE  /\ scheduler = "stopped" => scheduler' = "stopped"
             /\ pool = "closed" => pool' = "closed"
             /\ background' = background
  BY <1>4 DEF Shut, Drained, StopScheduler, StopLauncher, StopExecutor, LookAtScheduler,
     LookAtLauncher, LookAtBackground, Look, CloseStore, Defer, RetryPool, CloseStoreFails,
     ClosePoolWhenIdle, launcher
<1>5. ASSUME NEW c \in Closers, EnterClose(c) \/ DrainTimeout(c) \/ Return(c)
      PROVE  UNCHANGED << scheduler, pool, background >>
  BY <1>5 DEF EnterClose, DrainTimeout, Return, launcher
<1>6. CASE GiveUpOnPool \/ EndFinalizer
  BY <1>6 DEF GiveUpOnPool, EndFinalizer, launcher
<1> QED BY <1>1, <1>2, <1>3, <1>4, <1>5, <1>6 DEF ShutdownNext

\* Only closing the store changes it.
LEMMA StoreStep ==
    ASSUME [ShutdownNext]_shutdownVars
    PROVE  \/ storage' = storage
           \/ \E a \in Agents : CloseStore(a) \/ CloseStoreFails(a)
BY DEF ShutdownNext, shutdownVars, Request, Admit, EnterMethod, Submit, BeginStart, EndStart, EndOperation,
   FinishBackground, Monitor, BeginDispatch, EndDispatch, EndMonitor, EndScheduler,
   PoolCloses, PoolCloseFails, Shut, Drained, StopScheduler, StopLauncher, StopExecutor,
   LookAtScheduler, LookAtLauncher, LookAtBackground, Look, Defer, RetryPool,
   EnterClose, DrainTimeout, Return, GiveUpOnPool, EndFinalizer

----------------------------------------------------------------------------
\* Consumers are stopped only when it is quiet: before that, no agent has come
\* past the drain.
LEMMA StopsWhenQuietNext ==
    ASSUME ShutdownTypeOK, StopsWhenQuiet, [ShutdownNext]_shutdownVars PROVE StopsWhenQuiet'
<1>1. CASE Quiet
  <2>1. Quiet'
    BY <1>1, QuietStays
  <2> QED BY <2>1 DEF StopsWhenQuiet, Quiet
<1>2. CASE ~Quiet
  <2>1. /\ \A a \in Agents : agent[a] \notin PastDraining
        /\ \A a \in Agents : agent[a] = "draining" => closing /\ Serving
        /\ ~executorDown /\ ~launcherClosing
    BY <1>2 DEF StopsWhenQuiet, Quiet
  <2> DEFINE Goal == /\ \A a \in Agents : agent'[a] \notin PastDraining
                     /\ \A a \in Agents : agent'[a] = "draining" => closing'
                     /\ ~executorDown' /\ ~launcherClosing'
  <2> USE DEF ShutdownTypeOK
  <2>2. ASSUME NEW r \in Requests, Request(r) PROVE Goal
    <3>1. UNCHANGED << agent, closing, executorDown, launcherClosing >>
      BY <2>2 DEF Request, Admit, EnterMethod, Submit, BeginStart, EndStart,
         EndOperation, FinishBackground, progress, service, launcher
    <3> QED BY <2>1, <3>1
  <2>3. ASSUME NEW u \in Runs, Monitor(u) PROVE Goal
    BY <2>1, <2>3 DEF Monitor, BeginDispatch, EndDispatch, EndMonitor, progress, service
  <2>4. ASSUME EndScheduler \/ PoolCloses \/ PoolCloseFails \/ UNCHANGED shutdownVars PROVE Goal
    <3>1. UNCHANGED << agent, closing, executorDown, launcherClosing >>
      BY <2>4 DEF EndScheduler, PoolCloses, PoolCloseFails, shutdownVars, progress, service, launcher
    <3> QED BY <2>1, <3>1
  <2>5. ASSUME NEW b \in Agents, Shut(b) \/ RetryPool(b) \/ CloseStoreFails(b) PROVE FALSE
    BY <2>1, <2>5 DEF Shut, Drained, StopScheduler, StopLauncher, StopExecutor,
       LookAtScheduler, LookAtLauncher, LookAtBackground, Look, CloseStore, Defer,
       RetryPool, CloseStoreFails, Go, PastDraining
  <2>6. ASSUME NEW c \in Closers, EnterClose(c) \/ DrainTimeout(c) \/ Return(c) PROVE Goal
    <3>1. CASE EnterClose(c)
      <4>1. CASE closed \/ inProgress
        BY <2>1, <3>1, <4>1 DEF EnterClose, Go, Agents, PastDraining, launcher
      <4>2. CASE ~(closed \/ inProgress)
        BY <2>1, <3>1, <4>2 DEF EnterClose, Go, Agents, PastDraining, launcher
      <4> QED BY <4>1, <4>2
    <3>2. CASE DrainTimeout(c)
      BY <2>1, <3>2 DEF DrainTimeout, Agents, PastDraining, launcher
    <3>3. ASSUME Return(c) PROVE Goal
      <4>1. PICK to \in {"returned", "releasing"} : agent' = [agent EXCEPT ![c] = to]
        BY <3>3 DEF Return, Go
      <4>2. UNCHANGED << closing, executorDown, launcherClosing >>
        BY <3>3 DEF Return, launcher
      <4> QED BY <2>1, <4>1, <4>2 DEF PastDraining
    <3> QED BY <2>6, <3>1, <3>2, <3>3
  <2>7. ASSUME EndFinalizer PROVE Goal
    <3>1. /\ agent' = [agent EXCEPT ![Finalizer] = "idle"]
          /\ UNCHANGED << closing, executorDown, launcherClosing >>
      BY <2>7 DEF EndFinalizer, launcher
    <3> QED BY <2>1, <3>1 DEF PastDraining
  <2>8. ~GiveUpOnPool
    BY <2>1 DEF GiveUpOnPool, Go, PastDraining, Agents
  <2>9. Goal
    <3> HIDE DEF Goal
    <3> QED BY <2>2, <2>3, <2>4, <2>5, <2>6, <2>7, <2>8 DEF ShutdownNext
  <2> QED BY <2>9 DEF StopsWhenQuiet
<1> QED BY <1>1, <1>2

\* The pool begins to close when nobody uses it, and from then on nobody can.
LEMMA PoolIsIdleNext ==
    ASSUME ShutdownTypeOK, StopsWhenQuiet, PoolIsIdle, [ShutdownNext]_shutdownVars PROVE PoolIsIdle'
<1> DEFINE Idle(threads) == \A u \in Runs : threads[u] = "none"
<1>0. launcherClosing => ~Starting(req)
  BY QuietStays DEF StopsWhenQuiet
<1> USE DEF ShutdownTypeOK, PoolIsIdle
<1>1. ASSUME NEW r \in Requests, Request(r) PROVE PoolIsIdle'
  <2>1. CASE EndStart(r)
    BY <2>1, <1>0 DEF EndStart, ClosePoolWhenIdle, Quiescent, Starting, Move
  <2>2. CASE ~EndStart(r)
    BY <2>2, <1>1 DEF Request, Admit, EnterMethod, Submit, BeginStart, EndOperation,
       FinishBackground, launcher
  <2> QED BY <2>1, <2>2
<1>2. ASSUME NEW u \in Runs, Monitor(u) PROVE PoolIsIdle'
  <2>1. CASE EndMonitor(u)
    BY <2>1 DEF EndMonitor, ClosePoolWhenIdle, Quiescent
  <2>2. CASE BeginDispatch(u) \/ EndDispatch(u)
    BY <2>2 DEF BeginDispatch, EndDispatch
  <2> QED BY <1>2, <2>1, <2>2 DEF Monitor
<1>3. CASE EndScheduler \/ PoolCloses \/ PoolCloseFails \/ UNCHANGED shutdownVars
  BY <1>3 DEF EndScheduler, PoolCloses, PoolCloseFails, shutdownVars, launcher
<1>4. ASSUME NEW b \in Agents, Shut(b) \/ RetryPool(b) \/ CloseStoreFails(b)
      PROVE  PoolIsIdle'
  <2>1. CASE StopLauncher(b)
    BY <2>1 DEF StopLauncher, ClosePoolWhenIdle, Quiescent
  <2>2. CASE RetryPool(b)
    BY <2>2 DEF RetryPool, Quiescent
  <2>3. CASE ~StopLauncher(b) /\ ~RetryPool(b)
    BY <1>4, <2>3 DEF Shut, Drained, StopScheduler, StopExecutor, LookAtScheduler,
       LookAtLauncher, LookAtBackground, Look, CloseStore, Defer, CloseStoreFails, launcher
  <2> QED BY <2>1, <2>2, <2>3
<1>5. ASSUME NEW c \in Closers, EnterClose(c) \/ DrainTimeout(c) \/ Return(c)
      PROVE  PoolIsIdle'
  BY <1>5 DEF EnterClose, DrainTimeout, Return, launcher
<1>6. CASE GiveUpOnPool \/ EndFinalizer
  BY <1>6 DEF GiveUpOnPool, EndFinalizer, launcher
<1> QED BY <1>1, <1>2, <1>3, <1>4, <1>5, <1>6 DEF ShutdownNext

\* What was found stopped is still so when the next look is taken.
LEMMA FoundStoppedNext ==
    ASSUME ShutdownTypeOK, StopsWhenQuiet, FoundStopped, [ShutdownNext]_shutdownVars PROVE FoundStopped'
<1> SUFFICES ASSUME NEW a \in Agents, allStopped'[a]
             PROVE  /\ agent'[a] \in SawScheduler => scheduler' = "stopped"
                    /\ agent'[a] \in SawLauncher => pool' = "closed"
                    /\ agent'[a] \in SawBackground => background' = {}
  BY DEF FoundStopped
<1> USE DEF SawScheduler, SawLauncher, SawBackground
<1>1. CASE agent'[a] \notin SawScheduler \/ ~allStopped'[a]
  BY <1>1
<1>2. CASE agent'[a] = agent[a] /\ allStopped'[a] = allStopped[a]
  <2>1. CASE agent[a] \in SawScheduler
    <3>1. Quiet
      BY <2>1 DEF StopsWhenQuiet, PastDraining
    <3> QED BY <1>2, <3>1, StoppedStays DEF FoundStopped
  <2> QED BY <1>2, <2>1
<1>3. CASE LookAtScheduler(a)
  BY <1>3 DEF LookAtScheduler, Look, Go, ShutdownTypeOK
<1>4. CASE LookAtLauncher(a)
  BY <1>4 DEF LookAtLauncher, Look, Go, ShutdownTypeOK, FoundStopped, launcher
<1>5. CASE LookAtBackground(a)
  BY <1>5 DEF LookAtBackground, Look, Go, ShutdownTypeOK, FoundStopped, launcher
<1> QED BY <1>1, <1>2, <1>3, <1>4, <1>5, AgentStep

\* The store is closed by an agent that found everything stopped.
LEMMA StoreIsLastNext ==
    ASSUME ShutdownTypeOK, StopsWhenQuiet, FoundStopped, StoreIsLast, [ShutdownNext]_shutdownVars
    PROVE  StoreIsLast'
<1>1. CASE storage = "closed"
  BY <1>1, QuietStays, StoppedStays DEF StoreIsLast
<1>2. ASSUME storage # "closed", NEW a \in Agents, CloseStore(a) PROVE StoreIsLast'
  <2>1. /\ Quiet /\ background = {}
        /\ scheduler = "stopped" /\ pool = "closed"
    BY <1>2 DEF CloseStore, Go, StopsWhenQuiet, PastDraining, FoundStopped, SawScheduler,
       SawLauncher, SawBackground
  <2> QED BY <2>1, QuietStays, StoppedStays DEF StoreIsLast
<1>3. ASSUME storage # "closed", NEW a \in Agents, CloseStoreFails(a) PROVE storage' # "closed"
  BY <1>3 DEF CloseStoreFails
<1> QED BY <1>1, <1>2, <1>3, StoreStep DEF StoreIsLast

----------------------------------------------------------------------------
\* Inv holds in every reachable state.
THEOREM Invariance == ShutdownSpec => []Inv
<1>1. ShutdownInit => Inv
  BY InvInit
<1>2. Inv /\ [ShutdownNext]_shutdownVars => Inv'
  BY TypeNext, StopsWhenQuietNext, PoolIsIdleNext, FoundStoppedNext, StoreIsLastNext DEF Inv
<1> QED BY <1>1, <1>2, PTL DEF ShutdownSpec

\* Every variable has its type in every reachable state.
THEOREM TypeCorrect == ShutdownSpec => []ShutdownTypeOK
<1>1. Inv => ShutdownTypeOK
  BY DEF Inv
<1> QED BY <1>1, Invariance, PTL

\* The store is closed only after its last user (ControlPlaneService.close and
\* _finish_deferred_shutdown).
THEOREM StoreSafe == ShutdownSpec => []StoreOutlivesUsers
<1>1. Inv => StoreOutlivesUsers
  BY DEF Inv, StoreIsLast, PoolIsIdle, StoreOutlivesUsers, Quiet
<1> QED BY <1>1, Invariance, PTL

\* An admitted operation finds the executor and the launcher working
\* (_begin_operation, _wait_for_operations).
THEOREM AdmittedWorkTaken == ShutdownSpec => []AdmittedWorkIsTaken
<1>1. Inv => AdmittedWorkIsTaken
  BY DEF Inv, StopsWhenQuiet, AdmittedWorkIsTaken, Quiet
<1> QED BY <1>1, Invariance, PTL

\* The launcher's pool is closed only when no thread and no start needs it
\* (_close_pool_when_idle).
THEOREM PoolSafe == ShutdownSpec => []PoolOutlivesUsers
<1>1. Inv => PoolOutlivesUsers
  BY DEF Inv, PoolIsIdle, StopsWhenQuiet, PoolOutlivesUsers, Quiet, Serving, Starting, Admitted
<1> QED BY <1>1, Invariance, PTL

----------------------------------------------------------------------------
(* Shutdown is never left to nobody.                                       *)

AtWork == {"draining"} \cup PastDraining

\* As long as a service that is closing has its store open somebody goes on closing it,
\* unless closing the pool failed three times; a call that finds another one in progress
\* may return, for somebody is at it; and a service that says it is closed has closed its
\* store (close, _start_shutdown_finalizer, _finish_deferred_shutdown).
ShutdownIsAttended ==
    /\ closing /\ storage = "open" /\ failures < 3 => \E a \in Agents : agent[a] \in AtWork
    /\ inProgress => \E a \in Agents : agent[a] \notin {"idle", "returned"}
    /\ closed => storage = "closed"

\* The finalizer runs while its flag is set, and ends only with the store.
FinalizerEnds ==
    /\ finalizing <=> agent[Finalizer] # "idle"
    /\ agent[Finalizer] \notin {"returned", "releasing"}
    /\ ~allStopped[Finalizer] => ~(failures < 3)
    /\ agent[Finalizer] = "not_closed" => storage # "open" \/ ~(failures < 3)
    /\ \A a \in Agents : agent[a] = "closed" => storage = "closed"

Attended == ShutdownIsAttended /\ FinalizerEnds

\* A step of the users of the store touches nobody who closes it.
LEMMA UsersDoNotClose ==
    ASSUME ShutdownTypeOK, Attended,
           \/ \E r \in Requests : Request(r)
           \/ \E u \in Runs : Monitor(u)
           \/ EndScheduler \/ PoolCloses \/ PoolCloseFails \/ (\E a \in Agents : RetryPool(a))
           \/ UNCHANGED shutdownVars
    PROVE  Attended'
<1>1. UNCHANGED << service, storage, progress >>
  BY DEF Request, Admit, EnterMethod, Submit, BeginStart, EndStart, EndOperation, FinishBackground,
     Monitor, BeginDispatch, EndDispatch, EndMonitor, EndScheduler, PoolCloses, PoolCloseFails,
     RetryPool, shutdownVars
<1>2. failures' = failures \/ PoolCloseFails
  BY DEF Request, Admit, EnterMethod, Submit, BeginStart, EndStart, EndOperation, FinishBackground,
     Monitor, BeginDispatch, EndDispatch, EndMonitor, EndScheduler, PoolCloses, RetryPool,
     shutdownVars, launcher
<1>3. failures \in Nat /\ (failures' = failures \/ failures' = failures + 1)
  BY <1>2, ShutdownAssumption DEF PoolCloseFails, ShutdownTypeOK
<1>4. failures' < 3 => failures < 3
  BY <1>3
<1> QED BY <1>1, <1>4, Zenon DEF Attended, ShutdownIsAttended, FinalizerEnds, service, progress

\* Draining, stopping and looking go on to the next of them.
LEMMA ClosingGoesOn ==
    ASSUME ShutdownTypeOK, Attended, NEW a \in Agents,
           \/ Drained(a) \/ StopScheduler(a) \/ StopLauncher(a) \/ StopExecutor(a)
           \/ LookAtScheduler(a) \/ LookAtLauncher(a) \/ LookAtBackground(a)
           \/ GiveUpOnPool /\ a = Finalizer
    PROVE  Attended'
<1>1. /\ UNCHANGED << service, storage, failures >>
      /\ agent[a] \in AtWork /\ \E to \in AtWork : agent' = [agent EXCEPT ![a] = to]
  BY DEF Drained, StopScheduler, StopLauncher, StopExecutor, LookAtScheduler, LookAtLauncher,
     LookAtBackground, Look, GiveUpOnPool, Go, AtWork, PastDraining, launcher
<1>2. allStopped'[Finalizer] \/ ~allStopped[Finalizer] \/ ~(failures < 3)
  <2>0. Finalizer \in Agents /\ allStopped \in [Agents -> BOOLEAN]
    BY DEF Agents, ShutdownTypeOK
  <2>1. ASSUME NEW from, NEW to, NEW stopped, Look(a, from, to, stopped), allStopped[Finalizer]
        PROVE  allStopped'[Finalizer]
    <3>1. a = Finalizer => stopped
      BY <2>1 DEF Look
    <3>2. allStopped' = [allStopped EXCEPT ![a] = @ /\ stopped]
      BY <2>1 DEF Look
    <3>3. allStopped'[Finalizer] = IF a = Finalizer THEN allStopped[a] /\ stopped ELSE allStopped[Finalizer]
      BY <2>0, <3>2, Zenon
    <3> QED BY <2>1, <3>1, <3>3, Zenon
  <2>2. CASE GiveUpOnPool
    BY <2>2 DEF GiveUpOnPool, ShutdownTypeOK
  <2>3. CASE LookAtScheduler(a) \/ LookAtLauncher(a) \/ LookAtBackground(a)
    BY <2>1, <2>3, Zenon DEF LookAtScheduler, LookAtLauncher, LookAtBackground
  <2>4. CASE Drained(a) \/ StopScheduler(a) \/ StopLauncher(a) \/ StopExecutor(a)
    BY <2>4, Zenon DEF Drained, StopScheduler, StopLauncher, StopExecutor
  <2> QED BY <2>2, <2>3, <2>4
<1>3. agent'[a] \in AtWork /\ \A b \in Agents : b # a => agent'[b] = agent[b]
  BY <1>1 DEF ShutdownTypeOK
<1>4. Finalizer \in Agents /\ (~allStopped'[Finalizer] => ~(failures < 3))
  BY <1>2 DEF Attended, FinalizerEnds, ShutdownTypeOK, Agents
<1>5. FinalizerEnds'
  BY <1>1, <1>3, <1>4 DEF Attended, FinalizerEnds, AtWork, PastDraining, service
<1>6. ShutdownIsAttended'
  BY <1>1, <1>3 DEF Attended, ShutdownIsAttended, AtWork, PastDraining, service
<1> QED BY <1>5, <1>6 DEF Attended

\* The store is closed, or cannot be.
LEMMA StoreAttended ==
    ASSUME ShutdownTypeOK, Attended, NEW a \in Agents, CloseStore(a) \/ CloseStoreFails(a)
    PROVE  Attended'
<1>1. /\ UNCHANGED << service, failures, allStopped >>
      /\ storage' # "open" /\ (storage = "closed" => storage' = "closed")
      /\ \E to \in {"closed", "not_closed"} : agent' = [agent EXCEPT ![a] = to]
                                              /\ (to = "closed" => storage' = "closed")
  BY DEF CloseStore, CloseStoreFails, Go, launcher
<1>2. /\ agent'[a] \in {"closed", "not_closed"} /\ (agent'[a] = "closed" => storage' = "closed")
      /\ \A b \in Agents : b # a => agent'[b] = agent[b]
  BY <1>1 DEF ShutdownTypeOK
<1>3. Finalizer \in Agents /\ agent[a] = "decide"
  BY DEF Agents, CloseStore, CloseStoreFails, Go
<1>4. FinalizerEnds'
  BY <1>1, <1>2, <1>3 DEF Attended, FinalizerEnds, service
<1>5. ShutdownIsAttended'
  BY <1>1, <1>2 DEF Attended, ShutdownIsAttended, service
<1> QED BY <1>4, <1>5 DEF Attended

\* What close() gives up it leaves to the finalizer, which is there or is started.
LEMMA HandedToFinalizer ==
    ASSUME ShutdownTypeOK, Attended,
           \/ \E c \in Closers : DrainTimeout(c)
           \/ \E a \in Agents : Defer(a)
    PROVE  Attended'
<1>0. Finalizer \in Agents /\ Closers \subseteq Agents /\ Finalizer \notin Closers
  BY ShutdownAssumption DEF Agents
<1>1. ASSUME NEW c \in Closers, NEW to \in {"returned", "not_closed"}, agent[c] \in AtWork,
             agent' = [agent EXCEPT ![c] = to, ![Finalizer] = IF finalizing THEN @ ELSE "draining"],
             StartFinalizer, UNCHANGED << closing, inProgress, closed, storage, failures >>
      PROVE  Attended'
  <2>1. /\ agent'[c] = to
        /\ agent'[Finalizer] = IF finalizing THEN agent[Finalizer] ELSE "draining"
        /\ \A b \in Agents : b # c /\ b # Finalizer => agent'[b] = agent[b]
    BY <1>0, <1>1 DEF ShutdownTypeOK
  <2>2. finalizing' /\ agent'[Finalizer] # "idle"
        /\ (~allStopped'[Finalizer] => ~(failures < 3))
    BY <1>0, <1>1, <2>1 DEF StartFinalizer, Attended, FinalizerEnds, ShutdownTypeOK
  <2>3. FinalizerEnds'
    <3>1. agent'[Finalizer] \notin {"returned", "releasing"}
      BY <1>0, <2>1 DEF Attended, FinalizerEnds
    <3>2. agent'[Finalizer] = "not_closed" => storage # "open" \/ ~(failures < 3)
      BY <1>0, <2>1 DEF Attended, FinalizerEnds
    <3>3. ASSUME NEW b \in Agents, agent'[b] = "closed" PROVE storage = "closed"
      <4>1. agent[b] = "closed"
        BY <1>0, <1>1, <2>1, <3>3
      <4> QED BY <4>1 DEF Attended, FinalizerEnds
    <3> QED BY <1>1, <2>2, <3>1, <3>2, <3>3 DEF FinalizerEnds
  <2>4. storage = "open" /\ failures < 3 => agent'[Finalizer] \in AtWork
    <3>1. agent[Finalizer] \in {"idle", "closed", "not_closed"} \cup AtWork
      BY <1>0 DEF ShutdownTypeOK, Attended, FinalizerEnds, AtWork, PastDraining
    <3> QED BY <1>0, <2>1, <3>1 DEF Attended, FinalizerEnds, AtWork
  <2>5. agent'[Finalizer] \notin {"idle", "returned"}
    BY <2>3, <2>2 DEF FinalizerEnds
  <2>6. ShutdownIsAttended'
    BY <1>0, <1>1, <2>4, <2>5 DEF Attended, ShutdownIsAttended
  <2> QED BY <2>3, <2>6 DEF Attended
<1>2. ASSUME NEW c \in Closers, DrainTimeout(c) PROVE Attended'
  BY <1>1, <1>2 DEF DrainTimeout, AtWork, launcher
<1>3. ASSUME NEW a \in Agents, Defer(a), a # Finalizer PROVE Attended'
  <2>1. a \in Closers
    BY <1>3 DEF Agents
  <2> QED BY <1>1, <1>3, <2>1 DEF Defer, AtWork, PastDraining, launcher
<1>4. CASE Defer(Finalizer)
  <2>1. /\ agent[Finalizer] = "decide" /\ ~(failures < 3)
        /\ agent' = [agent EXCEPT ![Finalizer] = "not_closed"]
        /\ UNCHANGED << service, storage, failures, allStopped >>
    BY <1>4 DEF Defer, Go, Attended, FinalizerEnds, launcher, service
  <2>2. agent'[Finalizer] = "not_closed" /\ \A b \in Agents : b # Finalizer => agent'[b] = agent[b]
    BY <1>0, <2>1 DEF ShutdownTypeOK
  <2>3. FinalizerEnds'
    BY <1>0, <2>1, <2>2 DEF Attended, FinalizerEnds, service
  <2>4. ShutdownIsAttended'
    BY <1>0, <2>1, <2>2 DEF Attended, ShutdownIsAttended, service
  <2> QED BY <2>3, <2>4 DEF Attended
<1> QED BY <1>2, <1>3, <1>4

\* A call of close() begins or returns, and the finalizer ends.
LEMMA CallsAttended ==
    ASSUME ShutdownTypeOK, Attended,
           (\E c \in Closers : EnterClose(c) \/ Return(c)) \/ EndFinalizer
    PROVE  Attended'
<1>0. Finalizer \in Agents /\ Closers \subseteq Agents /\ Finalizer \notin Closers
  BY ShutdownAssumption DEF Agents
<1>1. ASSUME NEW c \in Closers, EnterClose(c) PROVE Attended'
  <2>1. /\ agent[c] = "idle" /\ UNCHANGED << closed, finalizing, storage, failures, allStopped >>
        /\ \/ (closed \/ inProgress) /\ agent' = [agent EXCEPT ![c] = "returned"]
              /\ UNCHANGED << closing, inProgress >>
           \/ agent' = [agent EXCEPT ![c] = "draining"]
    BY <1>1 DEF EnterClose, Go, launcher
  <2>2. /\ agent'[c] \in {"returned", "draining"}
        /\ agent'[c] = "returned" => UNCHANGED << closing, inProgress >>
        /\ \A b \in Agents : b # c => agent'[b] = agent[b]
    BY <1>0, <2>1 DEF ShutdownTypeOK
  <2>3. FinalizerEnds'
    BY <1>0, <2>1, <2>2 DEF Attended, FinalizerEnds
  <2>4. ShutdownIsAttended'
    BY <1>0, <2>1, <2>2 DEF Attended, ShutdownIsAttended, AtWork, PastDraining
  <2> QED BY <2>3, <2>4 DEF Attended
<1>2. ASSUME NEW c \in Closers, Return(c) PROVE Attended'
  <2>1. /\ agent[c] \in {"closed", "releasing", "not_closed"}
        /\ UNCHANGED << closing, finalizing, storage, failures, allStopped >>
        /\ \E to \in {"returned", "releasing"} : agent' = [agent EXCEPT ![c] = to]
        /\ closed' => closed \/ agent[c] = "closed"
        /\ inProgress' => inProgress /\ agent[c] = "not_closed"
                          /\ agent' = [agent EXCEPT ![c] = IF finalizing THEN "returned" ELSE "releasing"]
    BY <1>2 DEF Return, Go, launcher
  <2>2. /\ agent'[c] \in {"returned", "releasing"}
        /\ \A b \in Agents : b # c => agent'[b] = agent[b]
        /\ inProgress' /\ agent'[c] = "returned" => finalizing
    BY <1>0, <2>1 DEF ShutdownTypeOK
  <2>3. FinalizerEnds'
    BY <1>0, <2>1, <2>2 DEF Attended, FinalizerEnds
  <2>4. inProgress' => \E a \in Agents : agent'[a] \notin {"idle", "returned"}
    BY <1>0, <2>1, <2>2, <2>3 DEF FinalizerEnds
  <2>5. closing' /\ storage' = "open" /\ failures' < 3 => \E a \in Agents : agent'[a] \in AtWork
    BY <1>0, <2>1, <2>2 DEF Attended, ShutdownIsAttended, AtWork, PastDraining
  <2>6. closed' => storage' = "closed"
    BY <1>0, <2>1 DEF Attended, ShutdownIsAttended, FinalizerEnds
  <2> QED BY <2>3, <2>4, <2>5, <2>6 DEF Attended, ShutdownIsAttended
<1>3. CASE EndFinalizer
  <2>1. /\ agent[Finalizer] \in {"closed", "not_closed"} /\ ~inProgress' /\ ~finalizing'
        /\ UNCHANGED << closing, storage, failures, allStopped >>
        /\ closed' = (agent[Finalizer] = "closed")
        /\ agent' = [agent EXCEPT ![Finalizer] = "idle"]
    BY <1>3 DEF EndFinalizer, launcher
  <2>2. agent'[Finalizer] = "idle" /\ \A b \in Agents : b # Finalizer => agent'[b] = agent[b]
    BY <1>0, <2>1 DEF ShutdownTypeOK
  <2>3. FinalizerEnds'
    BY <1>0, <2>1, <2>2 DEF Attended, FinalizerEnds
  <2>4. storage # "open" \/ ~(failures < 3)
    BY <1>0, <2>1 DEF Attended, FinalizerEnds
  <2>5. closed' => storage' = "closed"
    BY <1>0, <2>1 DEF Attended, FinalizerEnds
  <2> QED BY <2>1, <2>3, <2>4, <2>5 DEF Attended, ShutdownIsAttended
<1> QED BY <1>1, <1>2, <1>3

\* Shutdown always has somebody to finish it, for any number of operations, runs and
\* calls of close().
THEOREM ShutdownsAreAttended == ShutdownSpec => []ShutdownIsAttended
<1>1. ShutdownInit => Attended
  BY DEF ShutdownInit, Attended, ShutdownIsAttended, FinalizerEnds, Agents
<1>2. ShutdownTypeOK /\ Attended /\ [ShutdownNext]_shutdownVars => Attended'
  BY UsersDoNotClose, ClosingGoesOn, StoreAttended, HandedToFinalizer, CallsAttended
     DEF ShutdownNext, Shut, Agents
<1>3. Attended => ShutdownIsAttended
  BY DEF Attended
<1> QED BY <1>1, <1>2, <1>3, TypeInit, TypeNext, PTL DEF ShutdownSpec

----------------------------------------------------------------------------
(* Runs the process executes itself: LocalRun.                             *)

----------------------------------------------------------------------------
(* A probe.                                                                *)

ReportType == [step : Fixture..Quality, to : {"RUNNING", "PASS", "FAIL"}]

ProbeType ==
    [ kind : Kinds \cup {"none"}, active : {0} \cup Fixture..Quality,
      at : {"idle", "running", "answered", "judged", "returned"},
      ok : BOOLEAN, done : BOOLEAN, text : BOOLEAN, seen : Seq(Events),
      result : [status : {"PASS", "FAIL", "UNKNOWN"}, classes : SUBSET Classes,
                failed : {{}}, streamReason : BOOLEAN] ]

\* The steps up to n have been reported as passed.
PassedTo(reports, n) ==
    \A i \in Fixture..n : \E k \in 1..Len(reports) : reports[k] = Report(i, "PASS")

\* What has been read of a stream: [DONE] is its last event, if it is there.
StreamInOrder ==
    /\ probe.done => Len(probe.seen) > 0
    /\ \A k \in DOMAIN probe.seen : probe.seen[k] = "done" <=> probe.done /\ k = Len(probe.seen)

\* What a report follows: the one before it, or the binding of the target.
Before(reports, k) == IF k = 0 THEN Report(1, "PASS") ELSE reports[k]
Continues(e, f) ==
    \/ e.to = "RUNNING" /\ f.to \in {"PASS", "FAIL"} /\ f.step = e.step
    \/ e.to = "PASS" /\ f.to = "RUNNING" /\ f.step = e.step + 1

InOrder(reports) ==
    \A k \in 1..Len(reports) : Continues(Before(reports, k - 1), reports[k])
LastIs(reports, e) == Before(reports, Len(reports)) = e

EngineTypes == probe \in ProbeType /\ emitted \in Seq(ReportType)

EngineInv ==
    /\ EngineTypes /\ InOrder(emitted)
    /\ probe.at = "idle" => probe = NoProbe /\ emitted = << >>
    /\ probe.at = "running" =>
           /\ probe.active # 0 /\ PassedTo(emitted, probe.active - 1)
           /\ LastIs(emitted, Report(probe.active, "RUNNING"))
           /\ probe.active > Transport => probe.ok
           /\ probe.active = Quality => probe.kind = "endpoint"
    /\ probe.at = "answered" =>
           /\ probe.ok /\ PassedTo(emitted, Response) /\ LastIs(emitted, Report(Response, "PASS"))
           /\ probe.kind = "chat stream" => probe.done
    /\ probe.at \in {"idle", "running", "answered"} => probe.result.status # "PASS"
    /\ probe.kind = "chat stream" => StreamInOrder
    /\ PassIsEarned


\* A report more: what the sequence said it still says.
LEMMA OneMore ==
    ASSUME NEW reports \in Seq(ReportType), NEW r \in ReportType, InOrder(reports),
           Continues(Before(reports, Len(reports)), r)
    PROVE  /\ Append(reports, r) \in Seq(ReportType) /\ InOrder(Append(reports, r))
           /\ LastIs(Append(reports, r), r)
           /\ \A n \in Nat : PassedTo(reports, n) =>
                  /\ PassedTo(Append(reports, r), n)
                  /\ r = Report(n + 1, "PASS") => PassedTo(Append(reports, r), n + 1)
<1> DEFINE more == Append(reports, r)
<1>1. /\ more \in Seq(ReportType) /\ Len(more) = Len(reports) + 1 /\ more[Len(more)] = r
      /\ \A k \in 1..Len(reports) : more[k] = reports[k]
  OBVIOUS
<1>2. Len(reports) \in Nat
  OBVIOUS
<1> HIDE DEF more
<1>3. InOrder(more)
  <2> SUFFICES ASSUME NEW k \in 1..Len(more) PROVE Continues(Before(more, k - 1), more[k])
    BY DEF InOrder
  <2>1. Before(more, k - 1) = Before(reports, k - 1)
    BY <1>1, <1>2 DEF Before
  <2>2. CASE k = Len(more)
    BY <1>1, <1>2, <2>1, <2>2
  <2>3. CASE k \in 1..Len(reports)
    BY <1>1, <2>1, <2>3 DEF InOrder
  <2> QED BY <1>1, <1>2, <2>2, <2>3
<1>4. LastIs(more, r)
  BY <1>1, <1>2 DEF LastIs, Before
<1>5. ASSUME NEW n \in Nat, PassedTo(reports, n)
      PROVE  PassedTo(more, n) /\ (r = Report(n + 1, "PASS") => PassedTo(more, n + 1))
  <2>1. \A i \in Fixture..n : \E k \in 1..Len(more) : more[k] = Report(i, "PASS")
    BY <1>1, <1>2, <1>5 DEF PassedTo
  <2>2. Len(more) \in 1..Len(more)
    BY <1>1, <1>2
  <2>3. \A i \in Fixture..(n + 1) : i \in Fixture..n \/ i = n + 1
    BY DEF Fixture
  <2> QED BY <1>1, <2>1, <2>2, <2>3 DEF PassedTo
<1> QED BY <1>1, <1>3, <1>4, <1>5 DEF more

\* Two reports are one and one more.
LEMMA TwoMore ==
    ASSUME NEW reports \in Seq(ReportType), NEW a \in ReportType, NEW b \in ReportType
    PROVE  reports \o << a, b >> = Append(Append(reports, a), b)
OBVIOUS

\* The set of reports that PassIsEarned looks for them in.
LEMMA PassedMeans ==
    ASSUME NEW reports \in Seq(ReportType), PassedTo(reports, Quality)
    PROVE  \A i \in Fixture..Quality : Report(i, "PASS") \in {reports[k] : k \in DOMAIN reports}
<1>1. DOMAIN reports = 1..Len(reports)
  OBVIOUS
<1> QED BY <1>1 DEF PassedTo

\* The step in progress passes.
LEMMA ActivePasses ==
    ASSUME EngineInv, probe.at = "running", NEW more, more = Append(emitted, Report(probe.active, "PASS"))
    PROVE  /\ more \in Seq(ReportType) /\ InOrder(more) /\ PassedTo(more, probe.active)
           /\ LastIs(more, Report(probe.active, "PASS"))
<1>0. /\ probe.active \in Fixture..Quality /\ emitted \in Seq(ReportType) /\ InOrder(emitted)
      /\ Before(emitted, Len(emitted)) = Report(probe.active, "RUNNING")
      /\ PassedTo(emitted, probe.active - 1)
  BY DEF EngineInv, EngineTypes, ProbeType, LastIs
<1> DEFINE a == Report(probe.active, "PASS")
<1>1. a \in ReportType
  BY <1>0 DEF Report, ReportType
<1>2. Continues(Before(emitted, Len(emitted)), a)
  BY <1>0 DEF Continues, Report
<1>3. probe.active - 1 \in Nat /\ a = Report((probe.active - 1) + 1, "PASS") /\ (probe.active - 1) + 1 = probe.active
  BY <1>0 DEF Fixture, Quality
<1>4. more = Append(emitted, a)
  OBVIOUS
<1> HIDE DEF a
<1>5. more \in Seq(ReportType) /\ InOrder(more) /\ LastIs(more, a)
  BY <1>0, <1>1, <1>2, <1>4, OneMore
<1>6. PassedTo(more, probe.active)
  BY <1>0, <1>1, <1>2, <1>3, <1>4, OneMore
<1> QED BY <1>5, <1>6 DEF a

\* It passes and the next one begins.
LEMMA ActiveMoves ==
    ASSUME EngineInv, probe.at = "running", probe.active < Quality, emitted' = emitted \o NextStep
    PROVE  /\ emitted' \in Seq(ReportType) /\ InOrder(emitted') /\ PassedTo(emitted', probe.active)
           /\ LastIs(emitted', Report(probe.active + 1, "RUNNING"))
<1> DEFINE a == Report(probe.active, "PASS")
           b == Report(probe.active + 1, "RUNNING")
           more == Append(emitted, a)
<1>0. probe.active \in Fixture..Quality /\ emitted \in Seq(ReportType)
  BY DEF EngineInv, EngineTypes, ProbeType
<1>1. a \in ReportType /\ b \in ReportType /\ probe.active \in Nat
  BY <1>0 DEF Report, ReportType, Fixture, Quality
<1>2. emitted' = Append(more, b)
  BY <1>0, <1>1, TwoMore DEF NextStep
<1>3. Continues(a, b)
  BY DEF Continues, Report
<1>4. more \in Seq(ReportType) /\ InOrder(more) /\ PassedTo(more, probe.active) /\ LastIs(more, a)
  BY ActivePasses
<1> HIDE DEF a, more
<1>5. Continues(Before(more, Len(more)), b)
  BY <1>3, <1>4 DEF LastIs
<1> HIDE DEF b
<1>6. InOrder(emitted') /\ emitted' \in Seq(ReportType) /\ LastIs(emitted', b) /\ PassedTo(emitted', probe.active)
  BY <1>1, <1>2, <1>4, <1>5, OneMore
<1> QED BY <1>6 DEF b

\* Behind the transport the answer had status 200; and nothing is judged yet.
LEMMA Answering ==
    ASSUME EngineInv, probe.at = "running", probe.active \in {Response, Quality}
    PROVE  probe.ok /\ probe.result.status # "PASS"
<1>1. probe.active > Transport
  BY DEF Response, Quality, Transport
<1>2. probe.ok
  BY <1>1 DEF EngineInv
<1>3. probe.result.status # "PASS"
  BY DEF EngineInv
<1> QED BY <1>2, <1>3

\* The step in progress fails: nothing is asked of a probe that has failed.
LEMMA FailsKeeps ==
    ASSUME EngineInv, probe.at = "running", NEW class \in Classes, FailsWith(class)
    PROVE  EngineInv'
<1>0. EngineTypes /\ probe.active \in Fixture..Quality /\ InOrder(emitted)
      /\ LastIs(emitted, Report(probe.active, "RUNNING"))
  BY DEF EngineInv, EngineTypes, ProbeType, Fixture
<1>1. Report(probe.active, "FAIL") \in ReportType
  BY <1>0 DEF Report, ReportType
<1>2. probe' = [probe EXCEPT !.active = 0, !.at = "judged", !.result = Result("FAIL", {class})]
      /\ emitted' = Append(emitted, Report(probe.active, "FAIL"))
  BY DEF FailsWith
<1>3. Continues(Before(emitted, Len(emitted)), Report(probe.active, "FAIL"))
  BY <1>0 DEF LastIs, Continues, Report
<1>4. emitted' \in Seq(ReportType) /\ InOrder(emitted')
  BY <1>0, <1>1, <1>2, <1>3, OneMore DEF EngineTypes
<1>5. probe' \in ProbeType
  BY <1>0, <1>2 DEF EngineTypes, ProbeType, Result
<1>6. /\ probe'.at = "judged" /\ probe'.result.status = "FAIL"
      /\ probe'.kind = probe.kind /\ probe'.done = probe.done /\ probe'.seen = probe.seen
  BY <1>0, <1>2 DEF EngineTypes, ProbeType, Result
<1>7. probe'.kind = "chat stream" => StreamInOrder'
  BY <1>6 DEF EngineInv, StreamInOrder
<1> QED BY <1>4, <1>5, <1>6, <1>7 DEF EngineInv, EngineTypes, PassIsEarned

\* What a probe does, and what is done to it.
LEMMA EngineStep ==
    ASSUME EngineInv,
           \/ ProbeStep \/ Forget \/ UNCHANGED engine
           \/ \E kind \in Kinds : StartProbe(kind)
    PROVE  EngineInv'
<1>0. EngineTypes /\ probe \in ProbeType /\ emitted \in Seq(ReportType) /\ InOrder(emitted)
  BY DEF EngineInv, EngineTypes
<1>1. CASE UNCHANGED engine
  BY <1>1 DEF engine, EngineInv, EngineTypes, StreamInOrder, PassIsEarned
<1>2. CASE Forget
  <2>1. probe' = NoProbe /\ emitted' = << >>
    BY <1>2 DEF Forget
  <2>2. NoProbe \in ProbeType
    BY DEF NoProbe, ProbeType, Result
  <2>3. NoProbe.at = "idle" /\ NoProbe.kind = "none" /\ NoProbe.result.status = "UNKNOWN"
    BY DEF NoProbe, Result
  <2>4. << >> \in Seq(ReportType) /\ InOrder(<< >>)
    BY DEF InOrder
  <2> HIDE DEF NoProbe
  <2> QED BY <2>1, <2>2, <2>3, <2>4 DEF EngineInv, EngineTypes, PassIsEarned
<1>3. ASSUME NEW kind \in Kinds, StartProbe(kind) PROVE EngineInv'
  <2>1. probe = NoProbe /\ emitted = << >>
    BY <1>3 DEF StartProbe, EngineInv
  <2>2. /\ probe' = [NoProbe EXCEPT !.kind = kind, !.at = "running", !.active = Fixture]
        /\ emitted' = << Report(Fixture, "RUNNING") >>
    BY <1>3, <2>1 DEF StartProbe
  <2>3. probe' \in ProbeType
    <3>1. NoProbe \in ProbeType
      BY DEF NoProbe, ProbeType, Result
    <3>2. Fixture \in {0} \cup Fixture..Quality /\ kind \in Kinds \cup {"none"}
      BY <1>3 DEF Fixture, Quality
    <3> QED BY <2>2, <3>1, <3>2 DEF ProbeType
  <2>4. /\ probe'.at = "running" /\ probe'.active = Fixture /\ probe'.seen = << >> /\ probe'.done = FALSE
        /\ probe'.result.status = "UNKNOWN"
    BY <2>2 DEF NoProbe, Result
  <2>5. emitted' = Append(<< >>, Report(Fixture, "RUNNING")) /\ Report(Fixture, "RUNNING") \in ReportType
    BY <2>2 DEF Report, ReportType, Fixture, Quality
  <2>6. << >> \in Seq(ReportType) /\ InOrder(<< >>) /\ Continues(Before(<< >>, Len(<< >>)), Report(Fixture, "RUNNING"))
    BY DEF InOrder, Continues, Before, Report, Fixture
  <2>7. emitted' \in Seq(ReportType) /\ InOrder(emitted') /\ LastIs(emitted', Report(Fixture, "RUNNING"))
    BY <2>5, <2>6, OneMore
  <2>8. PassedTo(emitted', Fixture - 1)
    BY DEF PassedTo, Fixture
  <2>9. StreamInOrder'
    BY <2>4 DEF StreamInOrder
  <2>10. /\ PassedTo(emitted', probe'.active - 1) /\ LastIs(emitted', Report(probe'.active, "RUNNING"))
         /\ probe'.active # 0 /\ ~(probe'.active > Transport) /\ probe'.active # Quality
    BY <2>4, <2>7, <2>8 DEF Fixture, Transport, Quality
  <2> QED BY <2>3, <2>4, <2>7, <2>9, <2>10 DEF EngineInv, EngineTypes, PassIsEarned
<1>4. CASE Proceed
  <2>1. /\ probe.at = "running" /\ probe.active \in {Fixture, Dispatch, Transport}
        /\ probe' = [probe EXCEPT !.active = @ + 1, !.ok = probe.active = Transport]
        /\ emitted' = emitted \o NextStep
    BY <1>4 DEF Proceed
  <2>2. probe' \in ProbeType
    <3>1. (probe.active = Transport) \in BOOLEAN /\ probe.active + 1 \in Fixture..Quality
      BY <2>1 DEF Fixture, Dispatch, Transport, Quality
    <3> QED BY <1>0, <2>1, <3>1 DEF ProbeType
  <2>3. /\ probe'.at = "running" /\ probe'.active = probe.active + 1 /\ probe'.kind = probe.kind
        /\ probe'.seen = probe.seen /\ probe'.done = probe.done /\ probe'.result = probe.result
        /\ probe'.ok = (probe.active = Transport)
    BY <1>0, <2>1 DEF ProbeType
  <2>4. /\ emitted' \in Seq(ReportType) /\ InOrder(emitted')
        /\ LastIs(emitted', Report(probe.active + 1, "RUNNING")) /\ PassedTo(emitted', probe.active)
    <3>1. probe.active < Quality
      BY <2>1 DEF Fixture, Dispatch, Transport, Quality
    <3> QED BY <2>1, <3>1, ActiveMoves
  <2>5. probe'.kind = "chat stream" => StreamInOrder'
    BY <2>3 DEF EngineInv, StreamInOrder
  <2>6. probe'.active - 1 = probe.active /\ (probe'.active > Transport => probe'.ok) /\ probe'.active # Quality
        /\ probe'.active # 0
    <3>1. probe.active \in {2, 3, 4}
      BY <2>1 DEF Fixture, Dispatch, Transport
    <3>2. probe'.active > Transport => probe.active = Transport
      BY <2>3, <3>1 DEF Transport
    <3>3. probe'.active - 1 = probe.active /\ probe'.active # Quality /\ probe'.active # 0
      BY <2>3, <3>1 DEF Quality
    <3>4. probe'.ok = (probe.active = Transport)
      BY <2>3
    <3> QED BY <3>2, <3>3, <3>4, Zenon
  <2>7. probe'.result.status # "PASS"
    BY <2>1, <2>3 DEF EngineInv
  <2> QED BY <2>2, <2>3, <2>4, <2>5, <2>6, <2>7 DEF EngineInv, EngineTypes, PassIsEarned
<1>5. CASE Refused \/ Break
  <2>1. probe.at = "running" /\ \E class \in Classes : FailsWith(class)
    BY <1>5 DEF Refused, Break, Classes
  <2> QED BY <2>1, FailsKeeps
<1>6. ASSUME NEW e \in Events, StreamEvent(e) PROVE EngineInv'
  <2>1. CASE probe.done \/ Len(probe.seen) = MaxEvents
    <3>1. probe.at = "running" /\ FailsWith("PROTOCOL") /\ "PROTOCOL" \in Classes
      BY <1>6, <2>1 DEF StreamEvent, Classes
    <3> QED BY <3>1, FailsKeeps
  <2>2. CASE ~(probe.done \/ Len(probe.seen) = MaxEvents)
    <3>1. /\ probe.kind = "chat stream" /\ probe.at = "running" /\ probe.active = Response /\ ~probe.done
          /\ probe' = [probe EXCEPT !.seen = Append(@, e), !.done = (e = "done"), !.text = (@ \/ e = "text")]
          /\ emitted' = emitted
      BY <1>6, <2>2 DEF StreamEvent
    <3>2. /\ probe'.seen = Append(probe.seen, e) /\ probe'.done = (e = "done")
          /\ probe'.kind = probe.kind /\ probe'.at = "running" /\ probe'.active = Response
          /\ probe'.ok = probe.ok /\ probe'.result = probe.result
      BY <1>0, <3>1 DEF ProbeType
    <3>3. Append(probe.seen, e) \in Seq(Events) /\ (e = "done") \in BOOLEAN
      BY <1>0 DEF ProbeType
    <3>3a. (probe.text \/ e = "text") \in BOOLEAN
      BY <1>0 DEF ProbeType
    <3>4. probe' \in ProbeType
      BY <1>0, <3>1, <3>3, <3>3a DEF ProbeType
    <3>5. StreamInOrder'
      <4>1. probe.seen \in Seq(Events) /\ \A k \in DOMAIN probe.seen : probe.seen[k] # "done"
        BY <1>0, <3>1 DEF EngineInv, StreamInOrder, ProbeType
      <4> DEFINE more == Append(probe.seen, e)
      <4>2. /\ Len(more) = Len(probe.seen) + 1 /\ Len(probe.seen) \in Nat /\ more[Len(more)] = e
            /\ DOMAIN more = 1..Len(more) /\ DOMAIN probe.seen = 1..Len(probe.seen)
            /\ \A k \in 1..Len(probe.seen) : more[k] = probe.seen[k]
        BY <4>1
      <4>3. probe'.seen = more /\ probe'.done = (e = "done")
        BY <3>2
      <4> HIDE DEF more
      <4>4. \A k \in 1..Len(more) : (k \in 1..Len(probe.seen) /\ k # Len(more)) \/ k = Len(more)
        BY <4>2
      <4>5. ASSUME NEW k \in 1..Len(more) PROVE more[k] = "done" <=> e = "done" /\ k = Len(more)
        BY <4>1, <4>2, <4>4
      <4>6. Len(more) > 0
        BY <4>2
      <4>7. DOMAIN probe'.seen = 1..Len(more)
        BY <4>2, <4>3
      <4> QED BY <4>3, <4>5, <4>6, <4>7 DEF StreamInOrder
    <3> QED BY <3>1, <3>2, <3>4, <3>5 DEF EngineInv, EngineTypes, PassIsEarned, Response, Quality
  <2> QED BY <2>1, <2>2
<1>7. CASE StreamEnds
  <2>1. CASE ~probe.done
    <3>1. probe.at = "running" /\ FailsWith("PROTOCOL") /\ "PROTOCOL" \in Classes
      BY <1>7, <2>1 DEF StreamEnds, Classes
    <3> QED BY <3>1, FailsKeeps
  <2>2. CASE probe.done
    <3>1. /\ probe.kind = "chat stream" /\ probe.at = "running" /\ probe.active = Response
          /\ probe' = [probe EXCEPT !.active = 0, !.at = "answered"]
          /\ emitted' = Append(emitted, Report(Response, "PASS"))
      BY <1>7, <2>2 DEF StreamEnds
    <3>2. /\ probe' \in ProbeType /\ probe'.at = "answered" /\ probe'.kind = "chat stream" /\ probe'.done
          /\ probe'.seen = probe.seen /\ probe'.ok = probe.ok /\ probe'.result = probe.result
      BY <1>0, <2>2, <3>1 DEF ProbeType
    <3>3. probe.ok /\ probe.result.status # "PASS"
      BY <3>1, Answering
    <3>4. StreamInOrder'
      BY <2>2, <3>1, <3>2 DEF EngineInv, StreamInOrder
    <3> QED BY <1>0, <3>1, <3>2, <3>3, <3>4, ActivePasses DEF EngineInv, EngineTypes, PassIsEarned
  <2> QED BY <2>1, <2>2
<1>8. CASE JsonAnswer
  <2>1. PICK text \in BOOLEAN :
          probe' = [probe EXCEPT !.active = 0, !.at = "answered", !.text = text]
    BY <1>8 DEF JsonAnswer
  <2>2. /\ probe.kind = "chat json" /\ probe.at = "running" /\ probe.active = Response
        /\ emitted' = Append(emitted, Report(Response, "PASS"))
    BY <1>8 DEF JsonAnswer
  <2>3. /\ probe' \in ProbeType /\ probe'.at = "answered" /\ probe'.kind = "chat json"
        /\ probe'.ok = probe.ok /\ probe'.result = probe.result
    BY <1>0, <2>1, <2>2 DEF ProbeType
  <2>4. probe.ok /\ probe.result.status # "PASS"
    BY <2>2, Answering
  <2> QED BY <2>2, <2>3, <2>4, ActivePasses DEF EngineInv, EngineTypes, PassIsEarned
<1>10. CASE EndpointAnswer
  <2>1. /\ probe.kind = "endpoint" /\ probe.at = "running" /\ probe.active = Response
        /\ probe' = [probe EXCEPT !.active = Quality] /\ emitted' = emitted \o NextStep
    BY <1>10 DEF EndpointAnswer
  <2>2. /\ probe' \in ProbeType /\ probe'.at = "running" /\ probe'.active = Quality
        /\ probe'.kind = "endpoint" /\ probe'.ok = probe.ok /\ probe'.result = probe.result
    BY <1>0, <2>1 DEF ProbeType, Fixture, Quality
  <2>3. probe.ok /\ probe.result.status # "PASS"
    BY <2>1, Answering
  <2>4. Quality = Response + 1 /\ Quality - 1 = Response /\ Quality # 0
    BY DEF Quality, Response
  <2>5. /\ emitted' \in Seq(ReportType) /\ InOrder(emitted') /\ PassedTo(emitted', Response)
        /\ LastIs(emitted', Report(Response + 1, "RUNNING"))
    BY <2>1, ActiveMoves DEF Response, Quality
  <2> QED BY <2>1, <2>2, <2>3, <2>4, <2>5 DEF EngineInv, EngineTypes, PassIsEarned
<1>11. CASE EndpointVerdict
  <2>1. /\ probe.kind = "endpoint" /\ probe.at = "running" /\ probe.active = Quality
        /\ probe' = [probe EXCEPT !.active = 0, !.at = "judged", !.result = Result("PASS", {})]
        /\ emitted' = Append(emitted, Report(Quality, "PASS"))
    BY <1>11 DEF EndpointVerdict
  <2>2. /\ probe' \in ProbeType /\ probe'.at = "judged" /\ probe'.kind = "endpoint" /\ probe'.ok = probe.ok
    BY <1>0, <2>1 DEF ProbeType, Result
  <2>3. probe.ok
    BY <2>1 DEF EngineInv, Quality, Transport
  <2>4. emitted' \in Seq(ReportType) /\ InOrder(emitted') /\ PassedTo(emitted', Quality)
    BY <2>1, ActivePasses
  <2>5. EngineTypes' /\ \A i \in Fixture..Quality : Report(i, "PASS") \in {emitted'[k] : k \in DOMAIN emitted'}
    BY <2>2, <2>4, PassedMeans DEF EngineTypes
  <2>6. PassIsEarned'
    BY <2>2, <2>3, <2>5 DEF PassIsEarned
  <2> QED BY <2>2, <2>4, <2>5, <2>6 DEF EngineInv
<1>13. CASE ChatVerdict
  <2>1. PICK expected \in BOOLEAN :
          LET verdict == IF probe.ok /\ probe.text /\ expected THEN "PASS" ELSE "FAIL"
          IN  /\ probe' = [probe EXCEPT !.at = "judged", !.result = Result(verdict, {})]
              /\ emitted' = emitted \o << Report(Quality, "RUNNING"), Report(Quality, verdict) >>
    BY <1>13 DEF ChatVerdict
  <2> DEFINE verdict == IF probe.ok /\ probe.text /\ expected THEN "PASS" ELSE "FAIL"
  <2>2. /\ verdict \in {"PASS", "FAIL"} /\ (verdict = "PASS" => probe.ok /\ probe.text)
        /\ probe' = [probe EXCEPT !.at = "judged", !.result = Result(verdict, {})]
        /\ emitted' = emitted \o << Report(Quality, "RUNNING"), Report(Quality, verdict) >>
    BY <2>1
  <2> HIDE DEF verdict
  <2>3. /\ probe' \in ProbeType /\ probe'.at = "judged" /\ probe'.kind = probe.kind /\ probe'.ok = probe.ok
        /\ probe'.text = probe.text /\ probe'.seen = probe.seen /\ probe'.done = probe.done
        /\ probe'.result.status = verdict
    BY <1>0, <2>2 DEF ProbeType, Result
  <2>4. /\ probe.at = "answered" /\ PassedTo(emitted, Response)
        /\ Before(emitted, Len(emitted)) = Report(Response, "PASS")
        /\ (probe.kind = "chat stream" => probe.done /\ StreamInOrder)
    BY <1>13 DEF ChatVerdict, EngineInv, LastIs
  <2> DEFINE a == Report(Quality, "RUNNING")
             b == Report(Quality, verdict)
             more == Append(emitted, a)
  <2>5. a \in ReportType /\ b \in ReportType /\ emitted' = Append(more, b)
    BY <1>0, <2>2, TwoMore DEF Report, ReportType, Fixture, Quality
  <2>6. Continues(Before(emitted, Len(emitted)), a) /\ Continues(a, b)
    <3>1. a.step = Response + 1 /\ a.to = "RUNNING" /\ b.step = a.step /\ b.to \in {"PASS", "FAIL"}
      BY <2>2 DEF Report, Response, Quality
    <3>2. Report(Response, "PASS").step = Response /\ Report(Response, "PASS").to = "PASS"
      BY DEF Report
    <3> HIDE DEF a, b
    <3> QED BY <2>4, <3>1, <3>2 DEF Continues
  <2>7. Response \in Nat /\ Quality = Response + 1 /\ b = Report(Quality, verdict)
    BY DEF Response, Quality
  <2> HIDE DEF a, b
  <2>8. more \in Seq(ReportType) /\ InOrder(more) /\ LastIs(more, a) /\ PassedTo(more, Response)
    BY <1>0, <2>4, <2>5, <2>6, <2>7, OneMore
  <2> HIDE DEF more
  <2>9. /\ emitted' \in Seq(ReportType) /\ InOrder(emitted')
        /\ (verdict = "PASS" => PassedTo(emitted', Quality))
    BY <2>5, <2>6, <2>7, <2>8, OneMore DEF LastIs
  <2>10. probe'.kind = "chat stream" => StreamInOrder' /\ probe'.done
    BY <2>3, <2>4 DEF StreamInOrder
  <2>11. PassIsEarned'
    <3> SUFFICES ASSUME verdict = "PASS" PROVE PassIsEarned'
      BY <2>2, <2>3 DEF PassIsEarned
    <3>1. probe'.ok /\ probe'.text
      BY <2>2, <2>3
    <3>2. \A i \in Fixture..Quality : Report(i, "PASS") \in {emitted'[k] : k \in DOMAIN emitted'}
      BY <2>9, PassedMeans
    <3> QED BY <2>10, <3>1, <3>2 DEF PassIsEarned, StreamInOrder
  <2> QED BY <2>3, <2>9, <2>10, <2>11 DEF EngineInv, EngineTypes
<1>14. CASE ProbeReturns
  <2>1. probe.at = "judged" /\ probe' = [probe EXCEPT !.at = "returned"] /\ emitted' = emitted
    BY <1>14 DEF ProbeReturns
  <2>2. /\ probe' \in ProbeType /\ probe'.at = "returned" /\ probe'.kind = probe.kind /\ probe'.ok = probe.ok
        /\ probe'.text = probe.text /\ probe'.seen = probe.seen /\ probe'.done = probe.done
        /\ probe'.result = probe.result
    BY <1>0, <2>1 DEF ProbeType
  <2>3. StreamInOrder => StreamInOrder'
    BY <2>2 DEF StreamInOrder
  <2>4. PassIsEarned'
    BY <2>1, <2>2 DEF EngineInv, PassIsEarned
  <2> QED BY <1>0, <2>1, <2>2, <2>3, <2>4 DEF EngineInv, EngineTypes
<1> QED
  BY <1>1, <1>2, <1>3, <1>4, <1>5, <1>6, <1>7, <1>8, <1>10, <1>11, <1>13, <1>14 DEF ProbeStep
----------------------------------------------------------------------------
(* A workflow.                                                             *)

FlowType ==
    [ steps : [FlowSteps -> StepStatuses], cur : 0..7,
      status : {"RUNNING", "PASS", "WARN", "FAIL"}, code : FlowCodes \cup {"NONE"} ]

\* A workflow that goes on.
Underway(flow) ==
    /\ flow \in FlowType /\ flow.status = "RUNNING" /\ Coherent(flow)
    /\ FailedStep(flow) => \A i \in Execution : flow.steps[i] \notin Open
    /\ (\E i \in Execution : flow.steps[i] = "SKIPPED") => FailedStep(flow)
    /\ flow.steps[Seal] \in Open

\* Its execution is settled by the result, its evidence is being sealed.
Sealing(flow, result) ==
    /\ Underway(flow) /\ flow.cur = Seal
    /\ result.status \in {"PASS", "WARN", "FAIL"}
    /\ IF result.status = "FAIL" THEN FailedStep(flow)
       ELSE \A i \in Execution : flow.steps[i] = "PASS"

\* It shows the report e, and nothing later.
Shows(flow, e) ==
    /\ e.to = "RUNNING" =>
           /\ flow.cur = e.step
           /\ \A i \in FlowSteps : flow.steps[i] = IF i < e.step THEN "PASS"
                                                   ELSE IF i = e.step THEN "RUNNING" ELSE "PENDING"
    /\ e.to = "PASS" =>
           /\ flow.cur = 0
           /\ \A i \in FlowSteps : flow.steps[i] = IF i <= e.step THEN "PASS" ELSE "PENDING"


\* A step, PENDING or in progress, is advanced by a report of the execution.
LEMMA AdvanceKeeps ==
    ASSUME NEW flow, Underway(flow), NEW e, e.step \in Execution, CanAdvance(flow, e)
    PROVE  LET g == Advance(flow, e) IN
           /\ Underway(g) /\ g.steps[Seal] = flow.steps[Seal]
           /\ g.cur = IF e.to = "RUNNING" THEN e.step ELSE 0
<1> DEFINE g == Advance(flow, e)
           steps == [i \in FlowSteps |->
                        IF i = e.step THEN e.to
                        ELSE IF e.to = "FAIL" /\ i > e.step /\ i # Seal /\ flow.steps[i] = "PENDING"
                             THEN "SKIPPED" ELSE flow.steps[i]]
<1>0. /\ flow \in FlowType /\ flow.status = "RUNNING" /\ Coherent(flow) /\ flow.steps[Seal] \in Open
      /\ e.step \in 1..6 /\ Seal = 7 /\ Execution = 1..6 /\ FlowSteps = 1..7
  BY DEF Underway, Execution, FlowSteps, Seal
<1>1. e.to \in {"RUNNING", "PASS", "FAIL"}
  BY DEF CanAdvance
<1>2. steps \in [FlowSteps -> StepStatuses]
  BY <1>0, <1>1 DEF FlowType, StepStatuses
<1>3. /\ g \in FlowType /\ g.status = "RUNNING" /\ g.steps = steps
      /\ g.cur = IF e.to = "RUNNING" THEN e.step ELSE 0
  <2>1. (IF e.to = "RUNNING" THEN e.step ELSE 0) \in 0..7
    BY <1>0
  <2> QED BY <1>0, <1>2, <2>1 DEF Advance, FlowType
<1>4. /\ \A i \in FlowSteps : steps[i] = IF i = e.step THEN e.to
                        ELSE IF e.to = "FAIL" /\ i > e.step /\ i # Seal /\ flow.steps[i] = "PENDING"
                             THEN "SKIPPED" ELSE flow.steps[i]
  OBVIOUS
<1> HIDE DEF g, steps
\* Nothing has failed in the execution, as one of its steps is not over.
<1>5. ~FailedStep(flow) /\ flow.steps[e.step] \in Open
      /\ \A i \in Execution : flow.steps[i] \notin {"FAIL", "SKIPPED"}
  BY <1>0 DEF Underway, CanAdvance, CanStart, FailedStep, Open
<1>6. Underway(g) /\ g.steps[Seal] = flow.steps[Seal]
  <2>1. CASE e.to = "RUNNING"
    <3>1. /\ flow.cur = 0 /\ flow.steps[e.step] = "PENDING" /\ \A j \in 1..(e.step - 1) : flow.steps[j] = "PASS"
      BY <1>0, <2>1 DEF CanAdvance, CanStart
    <3>2. \A i \in FlowSteps : g.steps[i] = IF i = e.step THEN "RUNNING" ELSE flow.steps[i]
      BY <1>3, <1>4, <2>1
    <3>3. \A i \in FlowSteps : flow.steps[i] # "RUNNING"
      BY <1>0, <3>1 DEF Coherent
    <3>4. Coherent(g)
      BY <1>0, <1>3, <1>5, <2>1, <3>1, <3>2, <3>3 DEF Coherent, Open
    <3> QED BY <1>0, <1>3, <1>5, <2>1, <3>2, <3>4 DEF Underway, FailedStep
  <2>2. CASE e.to = "PASS"
    <3>1. flow.cur = e.step
      BY <1>0, <2>2 DEF CanAdvance, Coherent
    <3>2. \A i \in FlowSteps : g.steps[i] = IF i = e.step THEN "PASS" ELSE flow.steps[i]
      BY <1>3, <1>4, <2>2
    <3>4. Coherent(g)
      BY <1>0, <1>3, <1>5, <2>2, <3>1, <3>2 DEF Coherent, Open
    <3> QED BY <1>0, <1>3, <1>5, <2>2, <3>2, <3>4 DEF Underway, FailedStep
  <2>3. CASE e.to = "FAIL"
    <3>1. flow.cur = e.step /\ \A j \in 1..(e.step - 1) : flow.steps[j] \notin Open
      BY <1>0, <2>3 DEF CanAdvance, Coherent
    <3>2. \A i \in FlowSteps : g.steps[i] = IF i = e.step THEN "FAIL"
                        ELSE IF i > e.step /\ i # Seal /\ flow.steps[i] = "PENDING"
                             THEN "SKIPPED" ELSE flow.steps[i]
      BY <1>3, <1>4, <2>3
    <3>3. \A i \in Execution : g.steps[i] \notin Open
      BY <1>0, <3>1, <3>2 DEF Open, Coherent
    <3>4. Coherent(g)
      BY <1>0, <1>3, <1>5, <2>3, <3>1, <3>2 DEF Coherent, Open
    <3> QED BY <1>0, <1>3, <2>3, <3>2, <3>3, <3>4 DEF Underway, FailedStep
  <2> QED BY <1>1, <2>1, <2>2, <2>3
<1> QED BY <1>3, <1>6 DEF g

\* The steps and the current step of a workflow are written together.
Rewritten(flow, now, cur) == [flow EXCEPT !.steps = now, !.cur = cur]
\* Writing them together leaves a workflow document of its type, with the steps given.
LEMMA StepsWritten ==
    ASSUME NEW flow \in FlowType, NEW now \in [FlowSteps -> StepStatuses], NEW cur \in 0..7
    PROVE  Rewritten(flow, now, cur) \in FlowType /\ Rewritten(flow, now, cur).steps = now
BY DEF FlowType, Rewritten

\* The current step is the one written.
LEMMA CurWritten ==
    ASSUME NEW flow \in FlowType, NEW now, NEW cur
    PROVE  Rewritten(flow, now, cur).cur = cur
BY DEF FlowType, Rewritten

\* That does not end it.
LEMMA StillRuns ==
    ASSUME NEW flow \in FlowType, flow.status = "RUNNING",
           NEW now \in [FlowSteps -> StepStatuses], NEW cur \in 0..7
    PROVE  Rewritten(flow, now, cur).status = "RUNNING"
BY DEF FlowType, Rewritten

\* The step a result blames is one of the execution.
LEMMA BlamesExecution == ASSUME NEW result PROVE FailureStep(result) \in Execution
BY DEF FailureStep, Execution, FlowSteps, Response, Transport, Quality, Seal

\* The result settles the execution, and the sealing of the evidence begins.
LEMMA BeginKeeps ==
    ASSUME NEW flow, Underway(flow), NEW result, CanBegin(flow, result),
           flow.steps[Seal] = "PENDING"
    PROVE  LET g == BeginEvidence(flow, result) IN Sealing(g, result) /\ g.steps[Seal] = "RUNNING"
<1> DEFINE at == FailureStep(result)
           settled(i) ==
             IF i = Seal \/ (result.status = "FAIL" /\ FailedStep(flow)) THEN flow.steps[i]
             ELSE IF result.status = "FAIL" /\ i = at THEN "FAIL"
             ELSE IF flow.steps[i] \notin Open THEN flow.steps[i]
             ELSE IF result.status = "FAIL" /\ i > at THEN "SKIPPED" ELSE "PASS"
           g == BeginEvidence(flow, result)
           steps == [i \in FlowSteps |-> IF i = Seal THEN "RUNNING" ELSE settled(i)]
<1>0. /\ flow \in FlowType /\ flow.status = "RUNNING" /\ Coherent(flow)
      /\ Seal = 7 /\ Execution = 1..6 /\ FlowSteps = 1..7 /\ at \in 1..6
      /\ result.status \in {"PASS", "WARN", "FAIL"} /\ (FailedStep(flow) => result.status = "FAIL")
  BY BlamesExecution DEF Underway, Execution, FlowSteps, Seal, CanBegin, CanSettle
<1>1. \A i \in FlowSteps : settled(i) \in StepStatuses
  BY <1>0 DEF FlowType, StepStatuses
<1>2. steps \in [FlowSteps -> StepStatuses]
  BY <1>1 DEF StepStatuses
<1>3. g \in FlowType /\ g.status = "RUNNING" /\ g.steps = steps /\ g.cur = Seal
  <2>1. Settle(flow, result) = [flow EXCEPT !.steps = [i \in FlowSteps |-> settled(i)], !.cur = 0]
    BY DEF Settle
  <2>2. g = [Settle(flow, result) EXCEPT !.steps[Seal] = "RUNNING", !.cur = Seal]
    BY DEF BeginEvidence
  <2> DEFINE before == [i \in FlowSteps |-> settled(i)]
  <2>3. [before EXCEPT ![Seal] = "RUNNING"] = steps
    BY <1>0
  <2>4. before \in [FlowSteps -> StepStatuses]
    BY <1>1
  <2> HIDE DEF before, steps, settled
  <2>5. Settle(flow, result) = [flow EXCEPT !.steps = before, !.cur = 0]
    BY <2>1 DEF before
  <2>6. /\ Settle(flow, result).steps = before /\ Settle(flow, result) \in FlowType
        /\ Settle(flow, result).status = "RUNNING"
    <3>1. flow \in FlowType /\ flow.status = "RUNNING" /\ 0 \in 0..7
      BY <1>0
    <3>2. Settle(flow, result) = Rewritten(flow, before, 0)
      BY <2>5 DEF Rewritten
    <3>3. Rewritten(flow, before, 0) \in FlowType BY <2>4, <3>1, StepsWritten
    <3>4. Rewritten(flow, before, 0).steps = before BY <2>4, <3>1, StepsWritten
    <3>5. Rewritten(flow, before, 0).status = "RUNNING" BY <2>4, <3>1, StillRuns
    <3>6. Settle(flow, result).steps = before BY <3>2, <3>4
    <3>7. Settle(flow, result) \in FlowType BY <3>2, <3>3
    <3>8. Settle(flow, result).status = "RUNNING" BY <3>2, <3>5
    <3> QED BY <3>6, <3>7, <3>8
  <2>7. Seal \in 0..7 /\ g = Rewritten(Settle(flow, result), steps, Seal)
    <3>1. Seal \in 0..7
      BY <1>0
    <3> QED BY <2>2, <2>3, <2>6, <3>1, Zenon DEF Rewritten
  <2> DEFINE h == Settle(flow, result)
  <2>8. h \in FlowType /\ Seal \in 0..7 /\ steps \in [FlowSteps -> StepStatuses]
    BY <1>2, <2>6, <2>7 DEF steps
  <2>8a. h.status = "RUNNING" BY <2>6
  <2>8b. g = Rewritten(h, steps, Seal) BY <2>7
  <2> HIDE DEF h, g
  <2>9. Rewritten(h, steps, Seal) \in FlowType BY <2>8, StepsWritten
  <2>10. Rewritten(h, steps, Seal).steps = steps BY <2>8, StepsWritten
  <2>11. Rewritten(h, steps, Seal).cur = Seal BY <2>8, CurWritten
  <2>12. Rewritten(h, steps, Seal).status = "RUNNING" BY <2>8, <2>8a, StillRuns
  <2>13. g \in FlowType BY <2>8b, <2>9
  <2>14. g.steps = steps BY <2>8b, <2>10
  <2>15. g.cur = Seal BY <2>8b, <2>11
  <2>16. g.status = "RUNNING" BY <2>8b, <2>12
  <2> QED BY <2>13, <2>14, <2>15, <2>16
<1>4. g.steps[Seal] = "RUNNING" /\ \A i \in Execution : g.steps[i] = settled(i)
  BY <1>0, <1>3
<1> HIDE DEF g, steps
<1>5. \A i \in Execution : g.steps[i] \notin Open
  BY <1>0, <1>4 DEF Underway, Open
<1>6. IF result.status = "FAIL" THEN FailedStep(g) ELSE \A i \in Execution : g.steps[i] = "PASS"
  <2>1. CASE result.status = "FAIL" /\ FailedStep(flow)
    BY <1>4, <2>1, <1>0 DEF FailedStep
  <2>2. CASE result.status = "FAIL" /\ ~FailedStep(flow)
    BY <1>4, <2>2, <1>0 DEF FailedStep
  <2>3. CASE result.status # "FAIL"
    <3>1. \A i \in Execution : flow.steps[i] \in {"PASS", "PENDING", "RUNNING"}
      BY <1>0, <2>3 DEF Underway, FailedStep, FlowType, StepStatuses
    <3> QED BY <1>4, <1>0, <2>3, <3>1 DEF Open
  <2> QED BY <2>1, <2>2, <2>3
<1>7. \A i, j \in Execution : g.steps[i] = "FAIL" /\ g.steps[j] = "FAIL" => i = j
  <2>1. CASE FailedStep(flow)
    BY <1>0, <1>4, <2>1 DEF Coherent
  <2>2. CASE ~FailedStep(flow)
    BY <1>0, <1>4, <2>2 DEF FailedStep
  <2> QED BY <2>1, <2>2
<1>8. Coherent(g)
  BY <1>0, <1>3, <1>4, <1>5, <1>7 DEF Coherent, Open
<1>9. (\E i \in Execution : g.steps[i] = "SKIPPED") => FailedStep(g)
  BY <1>6
<1> QED BY <1>0, <1>3, <1>4, <1>5, <1>6, <1>8, <1>9 DEF Sealing, Underway, g, Open

\* The final workflow of a result.
LEMMA FinalKeeps ==
    ASSUME NEW flow, NEW result, Sealing(flow, result)
    PROVE  LET g == FinalFlow(flow, result) IN
           /\ g \in FlowType /\ Coherent(g) /\ g.status = result.status
           /\ result.status = "FAIL" => FailedStep(g)
<1> DEFINE at == FailureStep(result)
           settled(i) ==
             IF i = Seal \/ (result.status = "FAIL" /\ FailedStep(flow)) THEN flow.steps[i]
             ELSE IF result.status = "FAIL" /\ i = at THEN "FAIL"
             ELSE IF flow.steps[i] \notin Open THEN flow.steps[i]
             ELSE IF result.status = "FAIL" /\ i > at THEN "SKIPPED" ELSE "PASS"
           g == FinalFlow(flow, result)
<1>0. /\ flow \in FlowType /\ flow.status = "RUNNING" /\ Coherent(flow) /\ flow.cur = 7
      /\ Seal = 7 /\ Execution = 1..6 /\ FlowSteps = 1..7
      /\ result.status \in {"PASS", "WARN", "FAIL"} /\ flow.steps[Seal] = "RUNNING"
  BY DEF Sealing, Underway, Execution, FlowSteps, Seal, Coherent
<1>1. \A i \in FlowSteps : settled(i) = flow.steps[i]
  BY <1>0 DEF Sealing, Open
<1>2. [i \in FlowSteps |-> settled(i)] = flow.steps
  BY <1>0, <1>1 DEF FlowType
<1>3. Settle(flow, result) = [flow EXCEPT !.cur = 0]
  <2>1. Settle(flow, result) = [flow EXCEPT !.steps = [i \in FlowSteps |-> settled(i)], !.cur = 0]
    BY DEF Settle
  <2> HIDE DEF settled
  <2> QED BY <1>0, <1>2, <2>1 DEF FlowType
<1>4. BeginEvidence(flow, result) = [flow EXCEPT !.cur = 0]
  BY <1>0, <1>3 DEF BeginEvidence
<1>5. /\ g.steps = [flow.steps EXCEPT ![7] = "PASS"] /\ g.status = result.status /\ g.cur = 0
      /\ g \in FlowType
  <2>1. g = [[flow EXCEPT !.cur = 0] EXCEPT !.steps[7] = "PASS", !.status = result.status, !.cur = 0, !.code = "NONE"]
    BY <1>0, <1>4 DEF FinalFlow
  <2>2. [flow.steps EXCEPT ![7] = "PASS"] \in [FlowSteps -> StepStatuses]
    BY <1>0 DEF FlowType, StepStatuses
  <2> DEFINE h == [flow EXCEPT !.cur = 0]
  <2>3. h \in FlowType /\ h.steps = flow.steps
    BY <1>0 DEF FlowType
  <2>4. g = [h EXCEPT !.steps[7] = "PASS", !.status = result.status, !.cur = 0, !.code = "NONE"]
    BY <2>1
  <2> HIDE DEF h, at, g
  <2>5. result.status \in {"RUNNING", "PASS", "WARN", "FAIL"} /\ 0 \in 0..7
    BY <1>0
  <2> QED BY <2>2, <2>3, <2>4, <2>5 DEF FlowType
<1> HIDE DEF g
<1>6. g.steps[7] = "PASS" /\ \A i \in Execution : g.steps[i] = flow.steps[i]
  BY <1>0, <1>5 DEF FlowType
<1>7. \A i \in FlowSteps : g.steps[i] \notin Open
  BY <1>0, <1>6 DEF Coherent, Open
<1>8. IF result.status = "FAIL" THEN FailedStep(g) ELSE \A i \in FlowSteps : g.steps[i] = "PASS"
  BY <1>0, <1>6 DEF Sealing, FailedStep
<1>9. Coherent(g)
  BY <1>0, <1>5, <1>6, <1>7, <1>8 DEF Coherent, FailedStep, Open
<1> QED BY <1>0, <1>5, <1>8, <1>9 DEF g

\* A workflow that goes on can be failed wherever it is.
LEMMA FailKeeps ==
    ASSUME NEW flow, Underway(flow), NEW code \in FlowCodes
    PROVE  LET g == FailedFlow(flow, code) IN
           g \in FlowType /\ Coherent(g) /\ g.status = "FAIL" /\ g.code = code
<1> DEFINE pending == {i \in FlowSteps : flow.steps[i] = "PENDING"}
           at == IF flow.cur # 0 THEN flow.cur
                 ELSE IF pending = {} THEN Seal
                 ELSE CHOOSE i \in pending : \A j \in pending : i <= j
           steps == [i \in FlowSteps |->
                        IF i = at THEN "FAIL"
                        ELSE IF i > at /\ flow.steps[i] \in Open THEN "SKIPPED"
                        ELSE flow.steps[i]]
           g == FailedFlow(flow, code)
<1>0. /\ flow \in FlowType /\ flow.status = "RUNNING" /\ Coherent(flow)
      /\ Seal = 7 /\ Execution = 1..6 /\ FlowSteps = 1..7 /\ flow.steps[Seal] \in Open
  BY DEF Underway, Execution, FlowSteps, Seal
<1>1. pending # {} => \E i \in pending : \A j \in pending : i <= j
  <2>1. 1 \in pending \/ 2 \in pending \/ 3 \in pending \/ 4 \in pending \/ 5 \in pending \/ 6 \in pending
        \/ 7 \in pending \/ pending = {}
    BY <1>0
  <2>2. pending \subseteq 1..7
    BY <1>0
  <2> HIDE DEF pending
  <2>3. CASE 1 \in pending
    BY <2>2, <2>3
  <2>4. CASE 1 \notin pending /\ 2 \in pending
    BY <2>2, <2>4
  <2>5. CASE 1 \notin pending /\ 2 \notin pending /\ 3 \in pending
    BY <2>2, <2>5
  <2>6. CASE pending \subseteq 4..7 /\ 4 \in pending
    BY <2>6
  <2>7. CASE pending \subseteq 5..7 /\ 5 \in pending
    BY <2>7
  <2>8. CASE pending \subseteq 6..7 /\ 6 \in pending
    BY <2>8
  <2>9. CASE pending \subseteq {7} /\ 7 \in pending
    BY <2>9
  <2>10. 1 \notin pending /\ 2 \notin pending /\ 3 \notin pending => pending \subseteq 4..7
    BY <2>2
  <2>11. pending \subseteq 4..7 /\ 4 \notin pending => pending \subseteq 5..7
    OBVIOUS
  <2>12. pending \subseteq 5..7 /\ 5 \notin pending => pending \subseteq 6..7
    OBVIOUS
  <2>13. pending \subseteq 6..7 /\ 6 \notin pending => pending \subseteq {7}
    OBVIOUS
  <2> QED BY <2>1, <2>3, <2>4, <2>5, <2>6, <2>7, <2>8, <2>9, <2>10, <2>11, <2>12, <2>13
<1>2. /\ at \in FlowSteps /\ flow.steps[at] \in Open
      /\ \A i \in FlowSteps : i < at => flow.steps[i] \notin Open
  <2>1. CASE flow.cur # 0
    BY <1>0, <2>1 DEF Coherent, FlowType, Open
  <2>2. CASE flow.cur = 0 /\ pending = {}
    <3>1. flow.steps[Seal] = "RUNNING"
      BY <1>0, <2>2 DEF Open
    <3> QED BY <1>0, <2>2, <3>1 DEF Coherent
  <2>3. CASE flow.cur = 0 /\ pending # {}
    <3>1. at \in pending /\ \A j \in pending : at <= j
      <4> HIDE DEF pending
      <4> QED BY <1>1, <2>3
    <3>2. \A i \in FlowSteps : flow.steps[i] # "RUNNING"
      BY <1>0, <2>3 DEF Coherent
    <3> HIDE DEF at
    <3> QED BY <1>0, <3>1, <3>2 DEF Open
  <2> QED BY <2>1, <2>2, <2>3
<1>3. steps \in [FlowSteps -> StepStatuses]
  BY <1>0 DEF FlowType, StepStatuses
<1>4. g = [steps |-> steps, cur |-> 0, status |-> "FAIL", code |-> code]
  BY DEF FailedFlow
<1> HIDE DEF at
<1>5. g \in FlowType /\ g.steps = steps /\ g.cur = 0 /\ g.status = "FAIL" /\ g.code = code
  BY <1>3, <1>4 DEF FlowType
<1>6. /\ g.steps[at] = "FAIL"
      /\ \A i \in FlowSteps : g.steps[i] = IF i = at THEN "FAIL"
                        ELSE IF i > at /\ flow.steps[i] \in Open THEN "SKIPPED" ELSE flow.steps[i]
  BY <1>2, <1>5
<1> HIDE DEF g, steps, pending
<1>7. \A i \in FlowSteps : g.steps[i] \notin Open
  BY <1>0, <1>2, <1>6 DEF Open
<1>8. \A i, j \in Execution : g.steps[i] = "FAIL" /\ g.steps[j] = "FAIL" => i = j
  <2>1. CASE FailedStep(flow)
    <3>1. at = Seal
      BY <1>0, <1>2, <2>1 DEF Underway
    <3> QED BY <1>0, <1>6, <3>1 DEF Coherent
  <2>2. CASE ~FailedStep(flow)
    BY <1>0, <1>6, <2>2 DEF FailedStep
  <2> QED BY <2>1, <2>2
<1>9. Coherent(g)
  BY <1>0, <1>2, <1>5, <1>6, <1>7, <1>8 DEF Coherent, Open
<1> QED BY <1>5, <1>9 DEF g

----------------------------------------------------------------------------
(* The row and its log, whoever writes them.                               *)

RowType ==
    [ state : {"NONE", "RUNNING", "PURGED"} \cup Ended, flow : FlowType,
      status : {"NONE", "PASS", "WARN", "FAIL", "UNKNOWN"},
      code : FlowCodes \cup {"NONE", "CANCEL_REQUESTED"}, archived : {"never", "now", "once"} ]

Endings == {"RUN_COMPLETED", "RUN_FAILED", "RUN_CANCELLED"}
Midways == {"RUN_STARTED", "RUNNING", "PASS", "FAIL"}
LogType == [step : 0..7, to : Midways \cup Endings \cup {"MONITOR_PROJECTION_FAILED"}]
EndingOf == [COMPLETED |-> "RUN_COMPLETED", FAILED |-> "RUN_FAILED", CANCELLED |-> "RUN_CANCELLED"]

JustEnded(events, state) ==
    /\ Len(events) > 0 /\ events[Len(events)].to = EndingOf[state]
    /\ \A k \in 1..(Len(events) - 1) : events[k].to \in Midways
NotedAfter(events, state) ==
    /\ Len(events) > 1 /\ events[Len(events)].to = "MONITOR_PROJECTION_FAILED"
    /\ events[Len(events) - 1].to = EndingOf[state]
    /\ \A k \in 1..(Len(events) - 2) : events[k].to \in Midways
LastTells(events, flow) ==
    /\ Len(events) > 0 /\ \A k \in 1..Len(events) : events[k].to \in Midways
    /\ flow.cur # 0 <=> events[Len(events)].to = "RUNNING"
    /\ flow.cur # 0 => events[Len(events)].step = flow.cur

StoryTypes == row \in RowType /\ log \in Seq(LogType)

StoryInv ==
    /\ StoryTypes
    /\ row.state = "NONE" => row.archived = "never" /\ log = << >> /\ row.flow = CreatedFlow
    /\ row.state = "RUNNING" => row.archived = "never" /\ LastTells(log, row.flow)
    /\ row.state \in Ended => JustEnded(log, row.state) \/ NotedAfter(log, row.state)
    /\ row.state \in {"NONE", "RUNNING", "CANCELLED"} => Underway(row.flow)
    /\ row.state \in {"COMPLETED", "FAILED"} => Coherent(row.flow) /\ row.flow.status # "RUNNING"
    /\ row.state = "COMPLETED" =>
           row.flow.status = row.status /\ (row.status = "FAIL" => FailedStep(row.flow))
    /\ row.state = "FAILED" => row.flow.code = row.code /\ row.status = "FAIL"

\* One event more of a run that goes on.
LEMMA LogGrows ==
    ASSUME NEW events \in Seq(LogType), NEW e \in LogType, NEW more, more = Append(events, e),
           \A k \in 1..Len(events) : events[k].to \in Midways
    PROVE  /\ more \in Seq(LogType) /\ Len(more) = Len(events) + 1 /\ Len(more) > 0
           /\ more[Len(more)] = e /\ \A k \in 1..(Len(more) - 1) : more[k].to \in Midways
           /\ e.to \in Midways => \A k \in 1..Len(more) : more[k].to \in Midways
<1>1. /\ more \in Seq(LogType) /\ Len(more) = Len(events) + 1 /\ more[Len(more)] = e
      /\ \A k \in 1..Len(events) : more[k] = events[k]
  OBVIOUS
<1>2. Len(events) \in Nat
  OBVIOUS
<1>3. \A k \in 1..Len(more) : k \in 1..Len(events) \/ k = Len(more)
  BY <1>1, <1>2
<1>4. Len(more) > 0 /\ \A k \in 1..(Len(more) - 1) : k \in 1..Len(events)
  BY <1>1, <1>2
<1>5. \A k \in 1..Len(events) : more[k].to \in Midways
  BY <1>1
<1> QED BY <1>1, <1>3, <1>4, <1>5

\* create_run inserts a document whose steps are under way.
LEMMA CreatedIsUnderway == Underway(CreatedFlow) /\ CreatedFlow \in FlowType
<1>1. CreatedFlow \in FlowType
  BY DEF CreatedFlow, FlowType, FlowSteps, StepStatuses
<1>2. /\ CreatedFlow.cur = 0 /\ CreatedFlow.status = "RUNNING"
      /\ \A i \in FlowSteps : CreatedFlow.steps[i] = IF i = 1 THEN "PASS" ELSE "PENDING"
  BY DEF CreatedFlow
<1> HIDE DEF CreatedFlow
<1>3. Seal \in FlowSteps /\ Seal # 1 /\ Execution \subseteq FlowSteps
  BY DEF Seal, FlowSteps, Execution
<1>4. Coherent(CreatedFlow)
  BY <1>2, <1>3 DEF Coherent
<1> QED BY <1>1, <1>2, <1>3, <1>4 DEF Underway, FailedStep, Open

\* The row is made.
LEMMA StoryBegins ==
    ASSUME StoryInv, row.state = "NONE", row' = [row EXCEPT !.state = "RUNNING"],
           Note(Report(0, "RUN_STARTED"))
    PROVE  StoryInv' /\ row'.state = "RUNNING" /\ row'.flow = CreatedFlow
<1>0. row \in RowType /\ log = << >> /\ row.archived = "never" /\ row.flow = CreatedFlow
  BY DEF StoryInv, StoryTypes
<1>1. row' \in RowType /\ row'.state = "RUNNING" /\ row'.archived = "never" /\ row'.flow = CreatedFlow
  BY <1>0 DEF RowType
<1>2. /\ Report(0, "RUN_STARTED") \in LogType /\ Report(0, "RUN_STARTED").to = "RUN_STARTED"
  BY DEF Report, LogType, Midways
<1>3. log' = Append(<< >>, Report(0, "RUN_STARTED")) /\ << >> \in Seq(LogType)
      /\ \A k \in 1..Len(<< >>) : << >>[k].to \in Midways
  BY <1>0 DEF Note
<1>4. /\ log' \in Seq(LogType) /\ Len(log') > 0 /\ log'[Len(log')].to = "RUN_STARTED"
      /\ \A k \in 1..Len(log') : log'[k].to \in Midways
  <2>1. "RUN_STARTED" \in Midways
    BY DEF Midways
  <2> HIDE DEF Midways
  <2> QED BY <1>2, <1>3, <2>1, LogGrows
<1>5. CreatedFlow.cur = 0
  BY DEF CreatedFlow
<1> QED BY <1>1, <1>4, <1>5, CreatedIsUnderway DEF StoryInv, StoryTypes, LastTells, Ended

\* What is written while it is RUNNING, and leaves it RUNNING.
LEMMA StoryGoesOn ==
    ASSUME StoryInv, row.state = "RUNNING", NEW flow, NEW e, row' = [row EXCEPT !.flow = flow],
           Note(e), e.step \in 1..7, e.to \in {"RUNNING", "PASS", "FAIL"}, e \in LogType,
           Underway(flow), flow.cur = (IF e.to = "RUNNING" THEN e.step ELSE 0)
    PROVE  StoryInv' /\ row'.state = "RUNNING" /\ row'.flow = flow
<1>0. row \in RowType /\ log \in Seq(LogType) /\ row.archived = "never"
      /\ \A k \in 1..Len(log) : log[k].to \in Midways
  BY DEF StoryInv, StoryTypes, LastTells
<1>1. row' \in RowType /\ row'.state = "RUNNING" /\ row'.archived = "never" /\ row'.flow = flow
  BY <1>0 DEF RowType, Underway
<1>2. log' = Append(log, e) /\ e.to \in Midways
  BY DEF Note, Midways
<1>3. /\ log' \in Seq(LogType) /\ Len(log') > 0 /\ log'[Len(log')] = e
      /\ \A k \in 1..Len(log') : log'[k].to \in Midways
  BY <1>0, <1>2, LogGrows
<1>4. flow.cur # 0 <=> e.to = "RUNNING"
  OBVIOUS
<1>5. LastTells(log', flow)
  BY <1>3, <1>4 DEF LastTells
<1> QED BY <1>1, <1>3, <1>5 DEF StoryInv, StoryTypes, Ended

\* The last write of a run.
LEMMA StoryEnds ==
    ASSUME StoryInv, row.state = "RUNNING", NEW state \in Ended, row' \in RowType,
           row'.state = state, NEW ending, ending = EndingOf[state], Note(Report(0, ending)),
           state = "CANCELLED" => row'.flow = row.flow,
           state \in {"COMPLETED", "FAILED"} => Coherent(row'.flow) /\ row'.flow.status # "RUNNING",
           state = "COMPLETED" =>
               row'.flow.status = row'.status /\ (row'.status = "FAIL" => FailedStep(row'.flow)),
           state = "FAILED" => row'.flow.code = row'.code /\ row'.status = "FAIL"
    PROVE  StoryInv' /\ JustEnded(log', state)
<1>0. log \in Seq(LogType) /\ Underway(row.flow) /\ \A k \in 1..Len(log) : log[k].to \in Midways
  BY DEF StoryInv, StoryTypes, LastTells
<1>1. Report(0, ending) \in LogType /\ Report(0, ending).to = ending /\ log' = Append(log, Report(0, ending))
  BY DEF Report, LogType, Note, EndingOf, Ended, Endings
<1>2. log' \in Seq(LogType) /\ JustEnded(log', state)
  <2> DEFINE e == Report(0, ending)
  <2>1. e \in LogType /\ e.to = EndingOf[state] /\ log' = Append(log, e)
    BY <1>1
  <2> HIDE DEF e
  <2>2. log \in Seq(LogType) /\ \A k \in 1..Len(log) : log[k].to \in Midways
    BY <1>0
  <2>3. /\ log' \in Seq(LogType) /\ Len(log') > 0 /\ log'[Len(log')] = e
        /\ \A k \in 1..(Len(log') - 1) : log'[k].to \in Midways
    BY <2>1, <2>2, LogGrows
  <2> QED BY <2>1, <2>3 DEF JustEnded
<1>3. row'.state \notin {"NONE", "RUNNING"}
  BY DEF Ended
<1> QED BY <1>0, <1>2, <1>3 DEF StoryInv, StoryTypes

\* Behind its last event the log says that the monitor could not be told.
LEMMA StoryNoted ==
    ASSUME StoryInv, row.state \in Ended, JustEnded(log, row.state), row' = row,
           Note(Report(0, "MONITOR_PROJECTION_FAILED"))
    PROVE  StoryInv'
<1> DEFINE e == Report(0, "MONITOR_PROJECTION_FAILED")
<1>1. e \in LogType /\ e.to = "MONITOR_PROJECTION_FAILED" /\ log' = Append(log, e) /\ log \in Seq(LogType)
  BY DEF Report, LogType, Note, StoryInv, StoryTypes
<1> HIDE DEF e
<1>2. /\ log' \in Seq(LogType) /\ Len(log') = Len(log) + 1 /\ log'[Len(log')] = e
      /\ \A k \in 1..Len(log) : log'[k] = log[k]
  BY <1>1
<1>3. Len(log) > 0 /\ Len(log) \in Nat
  BY <1>1 DEF JustEnded
<1>4. Len(log') - 1 = Len(log) /\ Len(log') - 2 = Len(log) - 1 /\ Len(log') > 1
  BY <1>2, <1>3
<1>5. \A k \in 1..(Len(log) - 1) : k \in 1..Len(log)
  BY <1>3
<1>6. NotedAfter(log', row.state)
  <2>1. log'[Len(log')].to = "MONITOR_PROJECTION_FAILED"
    BY <1>1, <1>2
  <2>2. Len(log) \in 1..Len(log) /\ log[Len(log)].to = EndingOf[row.state]
    BY <1>3 DEF JustEnded
  <2>3. log'[Len(log') - 1].to = EndingOf[row.state]
    BY <1>2, <1>4, <2>2
  <2>4. \A k \in 1..(Len(log') - 2) : log'[k].to \in Midways
    BY <1>2, <1>4, <1>5 DEF JustEnded
  <2> QED BY <1>4, <2>1, <2>3, <2>4 DEF NotedAfter
<1> QED BY <1>2, <1>6 DEF StoryInv, StoryTypes, Ended

\* It is archived, restored and purged when it has ended.
LEMMA StoryKept ==
    ASSUME StoryInv, Archive \/ Restore \/ Purge \/ UNCHANGED stored
    PROVE  /\ StoryInv' /\ row'.flow = row.flow /\ row'.status = row.status
           /\ row'.state # row.state => row.state \in Ended /\ row'.state = "PURGED"
<1>0. row \in RowType
  BY DEF StoryInv, StoryTypes
<1>1. CASE UNCHANGED stored
  <2>1. row' = row /\ log' = log
    BY <1>1 DEF stored
  <2>2. StoryInv'
    BY <2>1 DEF StoryInv, StoryTypes
  <2> QED BY <2>1, <2>2
<1>2. CASE Archive \/ Restore
  <2>1. /\ row.state \in Ended /\ log' = log
        /\ \/ row' = [row EXCEPT !.archived = "now"] \/ row' = [row EXCEPT !.archived = "once"]
    BY <1>2 DEF Archive, Restore, StoryInv, Exists, RowType, StoryTypes
  <2>2. /\ row' \in RowType /\ row'.state = row.state /\ row'.flow = row.flow /\ row'.status = row.status
        /\ row'.code = row.code
    BY <1>0, <2>1 DEF RowType
  <2>3. StoryInv'
    BY <2>1, <2>2 DEF StoryInv, StoryTypes, Ended
  <2> QED BY <2>2, <2>3
<1>3. CASE Purge
  <2>1. row.state \in Ended /\ log' = << >> /\ row' = [row EXCEPT !.state = "PURGED"]
    BY <1>3 DEF Purge
  <2>2. row' \in RowType /\ row'.state = "PURGED" /\ row'.flow = row.flow /\ row'.status = row.status
    BY <1>0, <2>1 DEF RowType
  <2> QED BY <2>1, <2>2 DEF StoryInv, StoryTypes, Ended
<1> QED BY <1>1, <1>2, <1>3

\* The writes of the execution and of those who end the run.
LEMMA Recorded ==
    ASSUME StoryInv, NEW e, e \in ReportType, RecordStep(e)
    PROVE  /\ StoryInv' /\ row.state = "RUNNING" /\ row'.state = "RUNNING"
           /\ CanAdvance(row.flow, e) /\ row'.flow = Advance(row.flow, e)
           /\ row'.flow.steps[Seal] = row.flow.steps[Seal]
<1>0. row.state = "RUNNING" /\ CanAdvance(row.flow, e) /\ Note(e) /\ Underway(row.flow)
      /\ row' = [row EXCEPT !.flow = Advance(row.flow, e)]
  BY DEF RecordStep, CanRecord, StoryInv
<1>1. e.step \in Execution /\ e.step \in 1..7 /\ e \in LogType /\ e.to \in {"RUNNING", "PASS", "FAIL"}
  BY DEF ReportType, LogType, Midways, Execution, FlowSteps, Fixture, Quality, Seal
<1> DEFINE g == Advance(row.flow, e)
<1>2. Underway(g) /\ g.steps[Seal] = row.flow.steps[Seal] /\ g.cur = (IF e.to = "RUNNING" THEN e.step ELSE 0)
  BY <1>0, <1>1, AdvanceKeeps
<1>3. row' = [row EXCEPT !.flow = g]
  BY <1>0
<1> HIDE DEF g
<1>4. StoryInv' /\ row'.state = "RUNNING" /\ row'.flow = g
  BY <1>0, <1>1, <1>2, <1>3, StoryGoesOn
<1> QED BY <1>0, <1>2, <1>4 DEF g

\* fail_run ends a RUNNING row as FAILED and tells it in the log, or leaves the row
\* as it was: refused, or failed before its commit.  Who has its answer tells the monitor.
LEMMA Failed ==
    ASSUME StoryInv, NEW code \in FlowCodes, NEW told \in BOOLEAN, MarkFailed(code, told),
           troubles \in Nat
    PROVE  /\ StoryInv' /\ troubles' \in Nat /\ troubles' >= troubles
           /\ \/ ~told /\ UNCHANGED stored
              \/ row.state = "RUNNING" /\ row'.state = "FAILED" /\ JustEnded(log', "FAILED")
<1>1. CASE row.state = "RUNNING" /\ (IF told THEN UNCHANGED troubles ELSE Trouble)
           /\ Note(Report(0, "RUN_FAILED"))
           /\ row' = [row EXCEPT !.state = "FAILED", !.status = "FAIL", !.code = code,
                                 !.flow = FailedFlow(row.flow, code)]
  <2> DEFINE g == FailedFlow(row.flow, code)
  <2>1. g \in FlowType /\ Coherent(g) /\ g.status = "FAIL" /\ g.code = code /\ row \in RowType
    BY <1>1, FailKeeps DEF StoryInv, StoryTypes
  <2>2. row' = [row EXCEPT !.state = "FAILED", !.status = "FAIL", !.code = code, !.flow = g]
    BY <1>1
  <2> HIDE DEF g
  <2>3. /\ row' \in RowType /\ row'.state = "FAILED" /\ row'.status = "FAIL" /\ row'.code = code
        /\ row'.flow = g
    BY <2>1, <2>2 DEF RowType, Ended
  <2>4. "FAILED" \in Ended /\ "RUN_FAILED" = EndingOf["FAILED"]
    BY DEF Ended, EndingOf
  <2>5. StoryInv' /\ JustEnded(log', "FAILED")
    BY <1>1, <2>1, <2>3, <2>4, StoryEnds
  <2>6. troubles' \in Nat /\ troubles' >= troubles
    BY <1>1 DEF Trouble
  <2> QED BY <1>1, <2>3, <2>5, <2>6
<1>2. CASE ~told /\ UNCHANGED stored /\ (UNCHANGED misfortune \/ Trouble)
  <2>1. StoryInv'
    BY <1>2, StoryKept
  <2>2. troubles' \in Nat /\ troubles' >= troubles
    BY <1>2 DEF misfortune, Trouble
  <2> QED BY <1>2, <2>1, <2>2
<1> QED BY <1>1, <1>2 DEF MarkFailed

\* cancel_run ends a RUNNING row as CANCELLED and tells it in the log, or leaves
\* the row as it was.
LEMMA Cancelled ==
    ASSUME StoryInv, troubles \in Nat, NEW c \in Cancels, CancelRow(c)
    PROVE  /\ StoryInv' /\ troubles' \in Nat /\ troubles' >= troubles
           /\ \/ stopper' = [stopper EXCEPT ![c] = "done"] /\ UNCHANGED stored
              \/ /\ \E to \in {"telling", "done"} : stopper' = [stopper EXCEPT ![c] = to]
                 /\ row.state = "RUNNING" /\ row'.state = "CANCELLED" /\ JustEnded(log', "CANCELLED")
<1>1. PICK told \in BOOLEAN :
         /\ stopper' = [stopper EXCEPT ![c] = IF told THEN "telling" ELSE "done"]
         /\ \/ /\ row.state = "RUNNING"
               /\ row' = [row EXCEPT !.state = "CANCELLED", !.status = "UNKNOWN",
                                     !.code = "CANCEL_REQUESTED"]
               /\ Note(Report(0, "RUN_CANCELLED"))
               /\ IF told THEN UNCHANGED troubles ELSE Trouble
               /\ UNCHANGED lost
            \/ ~told /\ row.state # "RUNNING" /\ UNCHANGED << stored, misfortune >>
            \/ ~told /\ Trouble /\ lost' = TRUE /\ UNCHANGED stored
  BY DEF CancelRow
<1>2. CASE /\ row.state = "RUNNING" /\ (IF told THEN UNCHANGED troubles ELSE Trouble)
           /\ Note(Report(0, "RUN_CANCELLED"))
           /\ row' = [row EXCEPT !.state = "CANCELLED", !.status = "UNKNOWN", !.code = "CANCEL_REQUESTED"]
  <2>1. row' \in RowType /\ row'.state = "CANCELLED" /\ row'.flow = row.flow
    BY <1>2 DEF StoryInv, StoryTypes, RowType, Ended
  <2>2. "CANCELLED" \in Ended /\ "RUN_CANCELLED" = EndingOf["CANCELLED"]
    BY DEF Ended, EndingOf
  <2>3. StoryInv' /\ JustEnded(log', "CANCELLED")
    BY <1>2, <2>1, <2>2, StoryEnds
  <2>4. troubles' \in Nat /\ troubles' >= troubles
    BY <1>2 DEF Trouble
  <2> QED BY <1>1, <1>2, <2>1, <2>3, <2>4
<1>3. CASE ~told /\ UNCHANGED stored /\ (UNCHANGED misfortune \/ Trouble)
  <2>1. StoryInv'
    BY <1>3, StoryKept
  <2>2. troubles' \in Nat /\ troubles' >= troubles
    BY <1>3 DEF misfortune, Trouble
  <2> QED BY <1>1, <1>3, <2>1, <2>2
<1> QED BY <1>1, <1>2, <1>3

----------------------------------------------------------------------------
(* Who writes it.                                                          *)

\* The one who made the row hands the run over, once; the probe and the recorder are
\* there while it is probing.
OneJob ==
    /\ starter \in {"none", "created", "registered"} => job = "none"
    /\ row.state = "NONE" => starter = "none"
    /\ job = "queued" => shape \in Shapes
    /\ evidence => job \in {"sealing", "failing", "telling", "ending", "done"}
    /\ row.state = "COMPLETED" => job \in {"failing", "telling", "ending", "done", "dead"}
    /\ job # "probing" => probe = NoProbe /\ emitted = << >> /\ applied = 0
    /\ job = "probing" => applied <= Len(emitted)

\* The execution writes no more evidence.
Leaving == {"failing", "telling", "ending", "done", "dead"}

ExecInv ==
    /\ applied \in Nat /\ troubles \in Nat /\ OneJob
    /\ row.state = "NONE" => ~deaf
    /\ row.state = "RUNNING" /\ ~evidence /\ job \notin Leaving => row.flow.steps[Seal] = "PENDING"
    /\ row.state = "RUNNING" /\ job = "sealing" => Sealing(row.flow, outcome)
    /\ row.state = "RUNNING" /\ job \in {"none", "queued"} => row.flow = CreatedFlow
    /\ row.state = "COMPLETED" /\ job # "dead" => row.status = outcome.status
    /\ RecorderIsHeard
    /\ job = "probing" /\ ~deaf /\ row.state = "RUNNING" =>
           Shows(row.flow, Before(emitted, applied))

\* Who tells the monitor has ended the run, and nobody else has.
StopperTypes == stopper \in [Cancels -> {"new", "signalled", "telling", "done"}]
Telling == starter = "telling" \/ job = "telling" \/ \E c \in Cancels : stopper[c] = "telling"

TellInv ==
    /\ StopperTypes
    /\ Telling => /\ row.state \notin {"NONE", "RUNNING"}
                  /\ row.state \in Ended => JustEnded(log, row.state)
    /\ starter = "telling" => job # "telling" /\ \A c \in Cancels : stopper[c] # "telling"
    /\ job = "telling" => \A c \in Cancels : stopper[c] # "telling"
    /\ \A c, d \in Cancels : stopper[c] = "telling" /\ stopper[d] = "telling" => c = d

LocalInv == EngineInv /\ StoryInv /\ ExecInv /\ TellInv

\* Nobody begins to tell, and what is told of stays.
LEMMA NobodyTells ==
    ASSUME TellInv, StopperTypes', starter' = "telling" => starter = "telling",
           job' = "telling" => job = "telling",
           \A c \in Cancels : stopper'[c] = "telling" => stopper[c] = "telling",
           \/ row'.state = row.state /\ log' = log
           \/ row.state \in {"NONE", "RUNNING"}
           \/ row'.state = "PURGED"
    PROVE  TellInv'
<1>1. Telling' => Telling
  BY DEF Telling
<1>2. Telling' => /\ row'.state \notin {"NONE", "RUNNING"}
                  /\ row'.state \in Ended => JustEnded(log', row'.state)
  BY <1>1 DEF TellInv, Ended
<1> QED BY <1>2 DEF TellInv

\* Who ends the run is the only one who tells.
LEMMA OneTells ==
    ASSUME TellInv, StopperTypes', row.state = "RUNNING", row'.state \in Ended,
           JustEnded(log', row'.state),
           \/ UNCHANGED << job, stopper >> \/ UNCHANGED << starter, stopper >>
           \/ /\ UNCHANGED << starter, job >>
              /\ \E c \in Cancels : \A d \in Cancels \ {c} : stopper'[d] = stopper[d]
    PROVE  TellInv'
<1>1. starter # "telling" /\ job # "telling" /\ \A c \in Cancels : stopper[c] # "telling"
  BY DEF TellInv, Telling
<1>2. row'.state \notin {"NONE", "RUNNING"}
  BY DEF Ended
<1> QED BY <1>1, <1>2 DEF TellInv

\* The execution is not concerned.
LEMMA ExecStays ==
    ASSUME ExecInv, UNCHANGED << executor, recorder, engine >>,
           troubles' \in Nat, troubles' >= troubles,
           starter' \in {"none", "created", "registered"} => starter \in {"none", "created", "registered"},
           row'.state = "NONE" => starter' = "none",
           \/ row'.state = row.state /\ row'.flow = row.flow /\ row'.status = row.status
           \/ row'.state \in {"FAILED", "CANCELLED", "PURGED"}
    PROVE  ExecInv'
BY DEF ExecInv, OneJob, Leaving, executor, recorder, engine, RecorderIsHeard

\* A probe adds to what it has reported.
LEMMA EmitsMore ==
    ASSUME EngineInv, ProbeStep
    PROVE  Len(emitted) <= Len(emitted') /\ \A k \in 1..Len(emitted) : emitted'[k] = emitted[k]
<1>0. emitted \in Seq(ReportType)
  BY DEF EngineInv, EngineTypes
<1>1. CASE emitted' = emitted
  BY <1>0, <1>1
<1>2. ASSUME NEW r, emitted' = Append(emitted, r)
      PROVE  Len(emitted) <= Len(emitted') /\ \A k \in 1..Len(emitted) : emitted'[k] = emitted[k]
  BY <1>0, <1>2
<1>3. ASSUME NEW r, NEW q, emitted' = emitted \o << r, q >>
      PROVE  Len(emitted) <= Len(emitted') /\ \A k \in 1..Len(emitted) : emitted'[k] = emitted[k]
  BY <1>0, <1>3
<1>4. \/ emitted' = emitted \/ (\E r : emitted' = Append(emitted, r))
      \/ \E r, q : emitted' = emitted \o << r, q >>
  BY DEF ProbeStep, Proceed, Refused, Break, FailsWith, StreamEnds, JsonAnswer, EndpointAnswer,
         EndpointVerdict, ChatVerdict, ProbeReturns, StreamEvent, NextStep
<1> QED BY <1>1, <1>2, <1>3, <1>4

\* The recorder takes the next step: one the workflow accepts, unless the run is over.
LEMMA StepTaken ==
    ASSUME LocalInv, Drain
    PROVE  StoryInv' /\ ExecInv'
<1> DEFINE e == emitted[applied + 1]
<1>0. /\ job = "probing" /\ applied \in Nat /\ applied < Len(emitted) /\ applied' = applied + 1
      /\ emitted \in Seq(ReportType) /\ InOrder(emitted) /\ UNCHANGED << callers, executor, lost, engine >>
      /\ troubles \in Nat
  BY DEF Drain, LocalInv, ExecInv, EngineInv, EngineTypes
<1>1. e \in ReportType /\ applied' \in Nat /\ applied' <= Len(emitted) /\ applied + 1 \in 1..Len(emitted)
  BY <1>0
<1>2. Continues(Before(emitted, applied), e) /\ Before(emitted, applied') = e
  BY <1>0, <1>1 DEF InOrder, Before
<1>2a. Before(emitted, applied).step \in 1..7
  <2>1. CASE applied = 0
    BY <2>1 DEF Before, Report
  <2>2. CASE applied # 0
    <3>1. emitted[applied] \in ReportType
      BY <1>0, <2>2
    <3> QED BY <2>2, <3>1 DEF Before, ReportType, Fixture, Quality
  <2> QED BY <2>1, <2>2
<1>3. e.step \in Execution /\ e.step \in FlowSteps /\ e.step # Seal /\ e.to \in {"RUNNING", "PASS", "FAIL"}
      /\ e.step > 1
  BY <1>1 DEF ReportType, Execution, FlowSteps, Fixture, Quality, Seal
<1>4. \/ deaf /\ UNCHANGED << stored, deaf, troubles >>
      \/ ~deaf /\ RecordStep(e) /\ UNCHANGED << deaf, troubles >>
      \/ ~deaf /\ ~CanRecord(e) /\ deaf' = TRUE /\ UNCHANGED << stored, troubles >>
      \/ ~deaf /\ Trouble /\ deaf' = TRUE /\ (RecordStep(e) \/ UNCHANGED stored)
  BY DEF Drain
<1> HIDE DEF e
<1>5. row.state = "RUNNING" /\ ~deaf => CanRecord(e) /\ Shows(row.flow, Before(emitted, applied))
  <2> SUFFICES ASSUME row.state = "RUNNING", ~deaf
               PROVE  CanRecord(e) /\ Shows(row.flow, Before(emitted, applied))
    OBVIOUS
  <2>1. Shows(row.flow, Before(emitted, applied)) /\ row.archived = "never" /\ row.flow.status = "RUNNING"
    BY <1>0 DEF LocalInv, ExecInv, StoryInv, Underway
  <2>2. CASE e.to = "RUNNING"
    <3>1. /\ row.flow.cur = 0 /\ row.flow.steps[e.step] = "PENDING"
          /\ \A j \in 1..(e.step - 1) : row.flow.steps[j] = "PASS"
      BY <1>2, <1>2a, <1>3, <2>1, <2>2 DEF Continues, Shows, FlowSteps
    <3> QED BY <1>3, <2>1, <2>2, <3>1 DEF CanRecord, Readable, Exists, CanAdvance, CanStart
  <2>3. CASE e.to # "RUNNING"
    <3>1. row.flow.steps[e.step] = "RUNNING" /\ e.to \in {"PASS", "FAIL"}
      BY <1>2, <1>2a, <1>3, <2>1, <2>3 DEF Continues, Shows, FlowSteps
    <3> QED BY <2>1, <2>3, <3>1 DEF CanRecord, Readable, Exists, CanAdvance
  <2> QED BY <2>1, <2>2, <2>3
<1>6. CASE /\ deaf' /\ UNCHANGED stored
           /\ Trouble \/ (UNCHANGED troubles /\ (deaf \/ ~CanRecord(e)))
  <2>1. StoryInv' /\ row' = row
    BY <1>6, StoryKept DEF LocalInv, stored
  <2>2. deaf'
    BY <1>6
  <2>3. troubles' \in Nat /\ (troubles' > 0 \/ row.state # "RUNNING")
    <3>1. CASE deaf
      BY <1>0, <1>6, <3>1 DEF LocalInv, ExecInv, RecorderIsHeard, Trouble
    <3>2. CASE ~deaf
      BY <1>0, <1>5, <1>6, <3>2 DEF Trouble
    <3> QED BY <3>1, <3>2
  <2>4. row.state # "NONE"
    BY <1>0 DEF LocalInv, ExecInv, OneJob
  <2> QED BY <1>0, <1>1, <2>1, <2>2, <2>3, <2>4
       DEF LocalInv, ExecInv, OneJob, Leaving, callers, executor, engine, RecorderIsHeard
<1>7. CASE ~deaf /\ RecordStep(e) /\ UNCHANGED << deaf, troubles >>
  <2>1. /\ StoryInv' /\ row.state = "RUNNING" /\ row'.state = "RUNNING" /\ row'.flow = Advance(row.flow, e)
        /\ row'.flow.steps[Seal] = row.flow.steps[Seal]
    BY <1>1, <1>7, Recorded DEF LocalInv
  <2>2. Shows(row'.flow, e)
    <3>1. Shows(row.flow, Before(emitted, applied)) /\ CanAdvance(row.flow, e)
      BY <1>5, <1>7, <2>1 DEF CanRecord
    <3> DEFINE flow == row.flow   d == Before(emitted, applied)
    <3>2. /\ row'.flow.cur = IF e.to = "RUNNING" THEN e.step ELSE 0
          /\ \A i \in FlowSteps : row'.flow.steps[i] = IF i = e.step THEN e.to
                    ELSE IF e.to = "FAIL" /\ i > e.step /\ i # Seal /\ flow.steps[i] = "PENDING"
                         THEN "SKIPPED" ELSE flow.steps[i]
      <4>1. flow \in FlowType
        BY <2>1 DEF LocalInv, StoryInv, Underway
      <4> QED BY <2>1, <4>1 DEF Advance, FlowType
    <3>3. CASE e.to = "RUNNING"
      <4>1. d.to = "PASS" /\ e.step = d.step + 1 /\ \A i \in FlowSteps : flow.steps[i] = IF i <= d.step THEN "PASS" ELSE "PENDING"
        BY <1>2, <3>1, <3>3 DEF Continues, Shows
      <4> QED BY <1>2a, <1>3, <3>2, <3>3, <4>1 DEF Shows, FlowSteps
    <3>4. CASE e.to = "PASS"
      <4>1. /\ d.to = "RUNNING" /\ e.step = d.step
            /\ \A i \in FlowSteps : flow.steps[i] = IF i < d.step THEN "PASS"
                                                    ELSE IF i = d.step THEN "RUNNING" ELSE "PENDING"
        BY <1>2, <3>1, <3>4 DEF Continues, Shows
      <4> QED BY <1>2a, <1>3, <3>2, <3>4, <4>1 DEF Shows, FlowSteps
    <3>5. CASE e.to = "FAIL"
      BY <3>5 DEF Shows
    <3> QED BY <1>3, <3>3, <3>4, <3>5
  <2> QED BY <1>0, <1>1, <1>2, <1>7, <2>1, <2>2
       DEF LocalInv, ExecInv, OneJob, Leaving, callers, executor, engine, RecorderIsHeard
<1>8. CASE ~deaf /\ RecordStep(e) /\ Trouble /\ deaf' = TRUE
  <2>1. /\ StoryInv' /\ row.state = "RUNNING" /\ row'.state = "RUNNING"
        /\ row'.flow.steps[Seal] = row.flow.steps[Seal]
    BY <1>1, <1>8, Recorded DEF LocalInv
  <2>2. troubles' \in Nat /\ troubles' > 0
    BY <1>0, <1>8 DEF Trouble
  <2> QED BY <1>0, <1>1, <1>8, <2>1, <2>2
       DEF LocalInv, ExecInv, OneJob, Leaving, callers, executor, engine, RecorderIsHeard
<1>9. \/ /\ deaf' /\ UNCHANGED stored
         /\ Trouble \/ (UNCHANGED troubles /\ (deaf \/ ~CanRecord(e)))
      \/ ~deaf /\ RecordStep(e) /\ UNCHANGED << deaf, troubles >>
      \/ ~deaf /\ RecordStep(e) /\ Trouble /\ deaf' = TRUE
  BY <1>4
<1> QED BY <1>6, <1>7, <1>8, <1>9

\* The evidence of a run begins once: it is PENDING until then.
LEMMA EvidenceBegins ==
    ASSUME LocalInv, Settled
    PROVE  StoryInv' /\ ExecInv'
<1>0. /\ job = "beginning" /\ ~evidence /\ UNCHANGED << callers, signal, shape, outcome, recorder, lost, engine >>
      /\ troubles \in Nat /\ applied \in Nat
  BY DEF Settled, Reach, LocalInv, ExecInv, OneJob
<1>1. CASE /\ CanBeginEvidence
           /\ row' = [row EXCEPT !.flow = BeginEvidence(row.flow, outcome)]
           /\ Note(Report(Seal, "RUNNING"))
           /\ \/ Reach("beginning", "sealing") /\ evidence' = TRUE /\ UNCHANGED troubles
              \/ Reach("beginning", "failing") /\ Trouble /\ UNCHANGED evidence
  <2> DEFINE g == BeginEvidence(row.flow, outcome)   e == Report(Seal, "RUNNING")
  <2>1. row.state = "RUNNING" /\ Underway(row.flow) /\ CanBegin(row.flow, outcome) /\ row.flow.steps[Seal] = "PENDING"
    BY <1>0, <1>1 DEF CanBeginEvidence, LocalInv, StoryInv, ExecInv, Leaving
  <2>2. Sealing(g, outcome)
    BY <2>1, BeginKeeps
  <2>3. Underway(g) /\ g.cur = Seal
    BY <2>2 DEF Sealing
  <2>4. e \in LogType /\ e.step \in 1..7 /\ e.to = "RUNNING" /\ e.step = Seal
    BY DEF Report, LogType, Midways, Seal
  <2>5. row' = [row EXCEPT !.flow = g] /\ Note(e)
    BY <1>1
  <2> HIDE DEF g, e
  <2>6. StoryInv' /\ row'.state = "RUNNING" /\ row'.flow = g
    BY <2>1, <2>3, <2>4, <2>5, StoryGoesOn DEF LocalInv
  <2>7. /\ outcome' = outcome /\ troubles' \in Nat /\ troubles' >= troubles
        /\ \/ job' = "sealing" /\ evidence' = TRUE
           \/ job' = "failing" /\ evidence' = evidence
    BY <1>0, <1>1 DEF Reach, Trouble
  <2>8. UNCHANGED << starter, shape, outcome, applied, deaf, probe, emitted >>
    BY <1>0 DEF callers, recorder, engine
  <2>9. CASE job' = "sealing" /\ evidence' = TRUE
    BY <1>0, <2>1, <2>2, <2>6, <2>7, <2>8, <2>9 DEF LocalInv, ExecInv, OneJob, RecorderIsHeard
  <2>10. CASE job' = "failing" /\ evidence' = evidence
    BY <1>0, <2>1, <2>6, <2>7, <2>8, <2>10 DEF LocalInv, ExecInv, OneJob, Leaving, RecorderIsHeard
  <2> QED BY <2>7, <2>9, <2>10
<1>2. CASE UNCHANGED << stored, evidence >> /\ Reach("beginning", "failing") /\ (Trouble \/ UNCHANGED troubles)
  <2>1. StoryInv' /\ row' = row
    BY <1>2, StoryKept DEF LocalInv, stored
  <2>2. troubles' \in Nat /\ troubles' >= troubles
    BY <1>0, <1>2 DEF Trouble
  <2> QED BY <1>0, <1>2, <2>1, <2>2
       DEF LocalInv, ExecInv, OneJob, Leaving, Reach, callers, recorder, engine, RecorderIsHeard
<1> QED BY <1>1, <1>2 DEF Settled

\* The result is stored.
LEMMA ResultStored ==
    ASSUME LocalInv, StoreResult
    PROVE  /\ StoryInv' /\ ExecInv'
           /\ \/ row.state = "RUNNING" /\ row'.state = "COMPLETED" /\ JustEnded(log', "COMPLETED")
              \/ UNCHANGED stored /\ job' = "failing"
<1>0. /\ job = "sealing" /\ UNCHANGED << callers, signal, shape, outcome, evidence, recorder, lost, engine >>
      /\ troubles \in Nat /\ applied \in Nat
  BY DEF StoreResult, Reach, LocalInv, ExecInv, OneJob
<1>1. CASE /\ row.state = "RUNNING"
           /\ row' = [row EXCEPT !.state = "COMPLETED", !.status = outcome.status, !.code = "NONE",
                                 !.flow = FinalFlow(row.flow, outcome)]
           /\ Note(Report(0, "RUN_COMPLETED"))
           /\ \/ Reach("sealing", "telling") /\ UNCHANGED troubles
              \/ Reach("sealing", "failing") /\ Trouble
  <2> DEFINE g == FinalFlow(row.flow, outcome)
  <2>1. Sealing(row.flow, outcome)
    BY <1>0, <1>1 DEF LocalInv, ExecInv
  <2>2. /\ g \in FlowType /\ Coherent(g) /\ g.status = outcome.status
        /\ outcome.status = "FAIL" => FailedStep(g)
    BY <2>1, FinalKeeps
  <2>3. outcome.status \in {"PASS", "WARN", "FAIL"}
    BY <2>1 DEF Sealing
  <2>4. row' = [row EXCEPT !.state = "COMPLETED", !.status = outcome.status, !.code = "NONE", !.flow = g]
    BY <1>1
  <2> HIDE DEF g
  <2>5. row \in RowType
    BY DEF LocalInv, StoryInv, StoryTypes
  <2>6. row' \in RowType /\ row'.state = "COMPLETED" /\ row'.status = outcome.status /\ row'.flow = g
    BY <2>2, <2>3, <2>4, <2>5 DEF RowType, Ended
  <2>7. "COMPLETED" \in Ended /\ "RUN_COMPLETED" = EndingOf["COMPLETED"]
    BY DEF Ended, EndingOf
  <2>8. StoryInv' /\ JustEnded(log', "COMPLETED")
    BY <1>1, <2>2, <2>3, <2>6, <2>7, StoryEnds DEF LocalInv
  <2>9. job' \in {"telling", "failing"} /\ troubles' \in Nat /\ troubles' >= troubles
    BY <1>0, <1>1 DEF Reach, Trouble
  <2> QED BY <1>0, <1>1, <2>6, <2>8, <2>9
       DEF LocalInv, ExecInv, OneJob, Leaving, callers, recorder, engine, RecorderIsHeard
<1>2. CASE Reach("sealing", "failing") /\ UNCHANGED << stored, troubles >>
  <2>1. StoryInv' /\ row' = row
    BY <1>2, StoryKept DEF LocalInv, stored
  <2> QED BY <1>0, <1>2, <2>1
       DEF LocalInv, ExecInv, OneJob, Leaving, Reach, callers, recorder, engine, RecorderIsHeard
<1> QED BY <1>1, <1>2 DEF StoreResult

\* A suite reports two steps by itself.
SuiteJobs == {"suite 1", "suite 2", "suite 3", "sampling", "sampled", "checking"}
\* Every step a suite reports by itself leads from a line of the suite to a line of
\* the suite, and reports something of the workflow.
LEMMA SuiteStepsMean ==
    ASSUME NEW k \in DOMAIN SuiteSteps
    PROVE  /\ SuiteSteps[k].at \in SuiteJobs \ {"checking"} /\ SuiteSteps[k].to \in SuiteJobs
           /\ SuiteSteps[k].step \in ReportType
<1> DEFINE r1 == [at |-> "suite 1", to |-> "suite 2", step |-> Report(Fixture, "RUNNING")]
           r2 == [at |-> "suite 2", to |-> "suite 3", step |-> Report(Fixture, "PASS")]
           r3 == [at |-> "suite 3", to |-> "sampling", step |-> Report(Dispatch, "RUNNING")]
           r4 == [at |-> "sampled", to |-> "checking", step |-> Report(Dispatch, "PASS")]
<1>1. DOMAIN SuiteSteps = 1..4
  BY DEF SuiteSteps
<1>2. k \in {1, 2, 3, 4}
  BY <1>1
<1>3. SuiteSteps = << r1, r2, r3, r4 >>
  BY DEF SuiteSteps
<1>4. \A to \in {"RUNNING", "PASS"} : Report(Fixture, to) \in ReportType /\ Report(Dispatch, to) \in ReportType
  BY DEF Report, ReportType, Fixture, Dispatch, Quality
<1>5. r1.at = "suite 1" /\ r1.to = "suite 2" /\ r1.step \in ReportType
  BY <1>4
<1>6. r2.at = "suite 2" /\ r2.to = "suite 3" /\ r2.step \in ReportType
  BY <1>4
<1>7. r3.at = "suite 3" /\ r3.to = "sampling" /\ r3.step \in ReportType
  BY <1>4
<1>8. r4.at = "sampled" /\ r4.to = "checking" /\ r4.step \in ReportType
  BY <1>4
<1> HIDE DEF r1, r2, r3, r4
<1>9. SuiteSteps[1] = r1 /\ SuiteSteps[2] = r2 /\ SuiteSteps[3] = r3 /\ SuiteSteps[4] = r4
  BY <1>3
<1>10. SuiteSteps[k] \in {r1, r2, r3, r4}
  BY <1>2, <1>9
<1>11. \A r \in {r1, r2, r3, r4} :
          r.at \in SuiteJobs \ {"checking"} /\ r.to \in SuiteJobs /\ r.step \in ReportType
  BY <1>5, <1>6, <1>7, <1>8 DEF SuiteJobs
<1> QED BY <1>10, <1>11, Zenon

\* A step a suite reports by itself keeps row, log and job as they should be.
LEMMA SuiteReports ==
    ASSUME LocalInv, SuiteStep
    PROVE  StoryInv' /\ ExecInv'
<1> DEFINE Jobs == SuiteJobs \cup {"failing"}
<1>0. /\ UNCHANGED << callers, signal, shape, outcome, evidence, recorder, lost, engine >>
      /\ troubles \in Nat /\ applied \in Nat
  BY DEF SuiteStep, LocalInv, ExecInv
<1>1. PICK k \in DOMAIN SuiteSteps :
         LET now == SuiteSteps[k]
         IN  \/ Reach(now.at, now.to) /\ RecordStep(now.step) /\ UNCHANGED troubles
             \/ Reach(now.at, "failing") /\ ~CanRecord(now.step) /\ UNCHANGED << stored, troubles >>
             \/ Reach(now.at, "failing") /\ Trouble /\ (RecordStep(now.step) \/ UNCHANGED stored)
  BY DEF SuiteStep
<1> DEFINE now == SuiteSteps[k]
<1>2. now.at \in SuiteJobs \ {"checking"} /\ now.to \in SuiteJobs /\ now.step \in ReportType
  BY <1>1, SuiteStepsMean
<1>3. /\ Reach(now.at, now.to) \/ Reach(now.at, "failing")
      /\ RecordStep(now.step) \/ UNCHANGED stored
      /\ Trouble \/ UNCHANGED troubles
  BY <1>1
<1> HIDE DEF now
<1>4. /\ job \in SuiteJobs \ {"checking"} /\ job' \in Jobs
      /\ RecordStep(now.step) \/ UNCHANGED stored
  BY <1>2, <1>3 DEF Reach
<1>4a. troubles' \in Nat /\ troubles' >= troubles
  BY <1>0, <1>3 DEF Trouble
<1>5. CASE RecordStep(now.step)
  <2>1. /\ StoryInv' /\ row.state = "RUNNING" /\ row'.state = "RUNNING"
        /\ row'.flow.steps[Seal] = row.flow.steps[Seal]
    BY <1>2, <1>5, Recorded DEF LocalInv
  <2>2. /\ ~evidence /\ row.state # "NONE" /\ starter \notin {"none", "created", "registered"}
        /\ job \notin Leaving \cup {"probing"}
    BY <1>4 DEF SuiteJobs, LocalInv, ExecInv, OneJob, Leaving
  <2>3. job' \notin {"none", "queued", "probing", "sealing", "dead"}
    BY <1>4 DEF SuiteJobs
  <2>4. UNCHANGED << starter, shape, outcome, evidence, applied, deaf, probe, emitted >>
    BY <1>0 DEF callers, recorder, engine
  <2> HIDE DEF Jobs
  <2> QED BY <1>0, <1>4a, <2>1, <2>2, <2>3, <2>4
       DEF LocalInv, ExecInv, OneJob, RecorderIsHeard
<1>6. CASE UNCHANGED stored
  <2>1. StoryInv' /\ row' = row
    BY <1>6, StoryKept DEF LocalInv, stored
  <2>3. ~evidence /\ row.state \notin {"NONE", "COMPLETED"} /\ job' \notin {"none", "queued", "probing", "sealing", "dead"}
        /\ starter \notin {"none", "created", "registered"} /\ job \notin Leaving \cup {"probing"}
    BY <1>4 DEF SuiteJobs, LocalInv, ExecInv, OneJob, Leaving
  <2> HIDE DEF Jobs
  <2> QED BY <1>0, <1>4a, <2>1, <2>3 DEF LocalInv, ExecInv, OneJob, Leaving, callers, recorder, engine, RecorderIsHeard
<1> QED BY <1>4, <1>5, <1>6

\* What the execution does besides; the row is its own until it has ended.
LEMMA ExecMoves ==
    ASSUME LocalInv, Begin \/ Work \/ Collect \/ RunSuite \/ CheckSignal \/ OnFailure \/ Leave
    PROVE  StoryInv' /\ ExecInv'
<1>0. troubles \in Nat /\ applied \in Nat
  BY DEF LocalInv, ExecInv
<1>1. CASE OnFailure
  <2> DEFINE code == IF evidence THEN "EVIDENCE_PERSISTENCE_ERROR" ELSE "EXECUTION_ERROR"
  <2>1. code \in FlowCodes
    BY DEF FlowCodes
  <2>2. PICK told \in BOOLEAN :
           Reach("failing", IF told THEN "telling" ELSE "ending") /\ MarkFailed(code, told)
    BY <1>1 DEF OnFailure
  <2>3. job = "failing" /\ job' = (IF told THEN "telling" ELSE "ending")
        /\ UNCHANGED << callers, signal, shape, outcome, evidence, recorder, engine >>
    BY <1>1, <2>2 DEF OnFailure, Reach
  <2> HIDE DEF code
  <2>4. /\ StoryInv' /\ troubles' \in Nat /\ troubles' >= troubles
        /\ \/ ~told /\ UNCHANGED stored
           \/ row.state = "RUNNING" /\ row'.state = "FAILED" /\ JustEnded(log', "FAILED")
    BY <1>0, <2>1, <2>2, Failed DEF LocalInv
  <2>5. row' = row \/ row'.state = "FAILED"
    BY <2>4 DEF stored
  <2>6. ExecInv'
    BY <1>0, <2>3, <2>4, <2>5
       DEF LocalInv, ExecInv, OneJob, Leaving, callers, recorder, engine, RecorderIsHeard
  <2> QED BY <2>4, <2>6
<1>2. CASE Begin \/ Work \/ Collect \/ RunSuite \/ CheckSignal \/ Leave
  <2>1. UNCHANGED << stored, troubles, callers >>
    BY <1>2 DEF Begin, Work, Collect, RunSuite, CheckSignal, Leave, misfortune
  <2>2. StoryInv' /\ row' = row /\ troubles' = troubles /\ starter' = starter
    BY <2>1, StoryKept DEF LocalInv, stored, callers
  <2>3. CASE Begin
    <3>1. /\ job = "queued" /\ UNCHANGED << shape, outcome, evidence, recorder >>
          /\ \/ job' \in {"suite 1", "failing"} /\ UNCHANGED engine
             \/ job' = "probing" /\ StartProbe(shape)
      BY <2>3 DEF Begin, Reach
    <3>2. CASE UNCHANGED engine
      BY <1>0, <2>2, <3>1, <3>2 DEF StartProbe, engine, LocalInv, ExecInv, OneJob, Leaving, recorder, RecorderIsHeard, NoProbe
    <3>3. CASE job' = "probing" /\ StartProbe(shape)
      <4>1. emitted' = << Report(Fixture, "RUNNING") >> /\ applied = 0 /\ applied' = 0 /\ deaf' = deaf
        BY <3>1, <3>3 DEF StartProbe, LocalInv, ExecInv, OneJob, Leaving, recorder
      <4>2. Len(emitted') = 1 /\ Before(emitted', applied') = Report(1, "PASS")
        BY <4>1 DEF Before
      <4>3. Shows(CreatedFlow, Report(1, "PASS"))
        BY DEF Shows, CreatedFlow, Report, FlowSteps
      <4> QED BY <1>0, <2>2, <3>1, <3>3, <4>1, <4>2, <4>3 DEF LocalInv, ExecInv, OneJob, Leaving, RecorderIsHeard
    <3> QED BY <3>1, <3>2, <3>3
  <2>4. CASE Work
    <3>1. job = "probing" /\ ProbeStep /\ UNCHANGED << executor, recorder >>
      BY <2>4 DEF Work
    <3>2. Len(emitted) <= Len(emitted') /\ \A k \in 1..Len(emitted) : emitted'[k] = emitted[k]
      BY <3>1, EmitsMore DEF LocalInv
    <3>3. emitted \in Seq(ReportType)
      BY DEF LocalInv, EngineInv, EngineTypes
    <3>4. Before(emitted', applied) = Before(emitted, applied) /\ applied <= Len(emitted')
      <4>1. EngineInv'
        BY <3>1, EngineStep DEF LocalInv
      <4>2. Len(emitted') \in Nat /\ Len(emitted) \in Nat
        <5>1. emitted' \in Seq(ReportType)
          BY <4>1 DEF EngineInv, EngineTypes
        <5> QED BY <3>3, <5>1
      <4>3. applied <= Len(emitted)
        BY <3>1 DEF LocalInv, ExecInv, OneJob
      <4> QED BY <1>0, <3>2, <4>2, <4>3 DEF Before
    <3> QED BY <1>0, <2>2, <3>1, <3>4 DEF LocalInv, ExecInv, OneJob, Leaving, executor, recorder, RecorderIsHeard
  <2>5. CASE Collect
    <3>1. job = "probing" /\ job' = "checking" /\ probe' = NoProbe /\ emitted' = << >> /\ applied' = 0
          /\ UNCHANGED << shape, evidence, deaf >>
      BY <2>5 DEF Collect, Reach, Forget
    <3> QED BY <1>0, <2>2, <3>1 DEF LocalInv, ExecInv, OneJob, Leaving, RecorderIsHeard
  <2>6. CASE RunSuite \/ CheckSignal \/ Leave
    <3>1. /\ job \in {"sampling", "waiting", "checking", "ending"} /\ UNCHANGED << shape, evidence, recorder, engine >>
          /\ job' \in {"failing", "waiting", "sampled", "ending", "beginning", "done"}
          /\ job = "ending" => UNCHANGED outcome /\ job' = "done"
      BY <2>6 DEF RunSuite, CheckSignal, Leave, Reach
    <3>2. ~evidence \/ job = "ending"
      BY <3>1 DEF LocalInv, ExecInv, OneJob
    <3> QED BY <1>0, <2>2, <3>1, <3>2 DEF LocalInv, ExecInv, OneJob, Leaving, recorder, engine, RecorderIsHeard
  <2> QED BY <1>2, <2>3, <2>4, <2>5, <2>6
<1> QED BY <1>1, <1>2

\* None of it begins to tell the monitor but the one that ended the run.
LEMMA FailureTells ==
    ASSUME LocalInv, Begin \/ Work \/ Collect \/ RunSuite \/ CheckSignal \/ OnFailure \/ Leave
    PROVE  \/ UNCHANGED stored /\ job' # "telling"
           \/ row.state = "RUNNING" /\ row'.state = "FAILED" /\ JustEnded(log', "FAILED")
<1>1. CASE OnFailure
  <2> DEFINE code == IF evidence THEN "EVIDENCE_PERSISTENCE_ERROR" ELSE "EXECUTION_ERROR"
  <2>1. code \in FlowCodes /\ troubles \in Nat
    BY DEF FlowCodes, LocalInv, ExecInv
  <2>2. PICK told \in BOOLEAN :
           Reach("failing", IF told THEN "telling" ELSE "ending") /\ MarkFailed(code, told)
    BY <1>1 DEF OnFailure
  <2> HIDE DEF code
  <2>3. \/ ~told /\ UNCHANGED stored
        \/ row.state = "RUNNING" /\ row'.state = "FAILED" /\ JustEnded(log', "FAILED")
    BY <2>1, <2>2, Failed DEF LocalInv
  <2> QED BY <2>2, <2>3 DEF Reach
<1>2. CASE Begin \/ Work \/ Collect \/ RunSuite \/ CheckSignal \/ Leave
  <2>1. UNCHANGED stored
    BY <1>2 DEF Begin, Work, Collect, RunSuite, CheckSignal, Leave
  <2>2. job' # "telling"
    BY <1>2 DEF Begin, Work, Collect, RunSuite, CheckSignal, Leave, Reach, executor
  <2> QED BY <2>1, <2>2
<1> QED BY <1>1, <1>2

\* A request that starts the run.
LEMMA Started ==
    ASSUME LocalInv, Find \/ Create \/ Register
    PROVE  StoryInv' /\ ExecInv'
<1>0. /\ UNCHANGED << executor, recorder, engine >> /\ troubles \in Nat
      /\ starter \in {"none", "created", "registered"} => job = "none"
  BY DEF Find, Create, Register, Starts, LocalInv, ExecInv, OneJob
<1>1. CASE /\ row.state = "NONE" /\ row' = [row EXCEPT !.state = "RUNNING"]
           /\ Note(Report(0, "RUN_STARTED")) /\ (UNCHANGED misfortune \/ Trouble)
  <2>1. StoryInv' /\ row'.state = "RUNNING" /\ row'.flow = CreatedFlow
    BY <1>1, StoryBegins DEF LocalInv
  <2>2. CreatedFlow.steps[Seal] = "PENDING"
    BY DEF CreatedFlow, FlowSteps, Seal
  <2>3. troubles' \in Nat /\ ~deaf /\ job = "none" /\ row.state = "NONE"
    BY <1>0, <1>1 DEF Trouble, misfortune, LocalInv, ExecInv, OneJob
  <2> QED BY <1>0, <2>1, <2>2, <2>3
       DEF LocalInv, ExecInv, OneJob, Leaving, executor, recorder, engine, RecorderIsHeard
<1>2. CASE UNCHANGED << stored, misfortune >> /\ (starter' = starter \/ starter = "created")
  <2>1. StoryInv' /\ row' = row /\ troubles' = troubles
    BY <1>2, StoryKept DEF LocalInv, stored, misfortune
  <2>2. starter = "created" => row.state # "NONE"
    BY DEF LocalInv, ExecInv, OneJob
  <2>3. starter' \in {"none", "created", "registered"} => starter \in {"none", "created", "registered"}
    BY <1>2
  <2>4. row'.state = "NONE" => starter' = "none"
    BY <1>2, <2>1, <2>2 DEF LocalInv, ExecInv, OneJob
  <2>5. ExecInv'
    BY <1>0, <2>1, <2>3, <2>4, ExecStays DEF LocalInv
  <2> QED BY <2>1, <2>5
<1> QED BY <1>1, <1>2 DEF Find, Create, Register, Pass

\* Handing a run over to the executor queues its job, or ends the row as FAILED when
\* the executor does not take it.
LEMMA HandedOver ==
    ASSUME LocalInv, HandOver
    PROVE  /\ StoryInv' /\ ExecInv' /\ stopper' = stopper
           /\ \/ UNCHANGED stored /\ starter' # "telling" /\ job' # "telling"
              \/ /\ row.state = "RUNNING" /\ row'.state = "FAILED" /\ JustEnded(log', "FAILED")
                 /\ UNCHANGED job
<1>0. /\ UNCHANGED << outcome, evidence, recorder, engine, stopper >> /\ troubles \in Nat
      /\ starter' \in {"telling", "over"} /\ row.state # "NONE" /\ job = "none"
  BY DEF HandOver, Pass, LocalInv, ExecInv, OneJob
<1>1. CASE /\ job' = "queued" /\ shape' \in Shapes /\ UNCHANGED << stored, misfortune >>
           /\ starter' = "over"
  <2>1. StoryInv' /\ row' = row /\ troubles' = troubles
    BY <1>1, StoryKept DEF LocalInv, stored, misfortune
  <2>2. ExecInv'
    BY <1>0, <1>1, <2>1 DEF LocalInv, ExecInv, OneJob, Leaving, recorder, engine, RecorderIsHeard
  <2> QED BY <1>0, <1>1, <2>1, <2>2
<1>2. ASSUME NEW told \in BOOLEAN, starter' = (IF told THEN "telling" ELSE "over"),
             MarkFailed("LOCAL_DISPATCH_ERROR", told), UNCHANGED << job, shape >>
      PROVE  /\ StoryInv' /\ ExecInv'
             /\ \/ UNCHANGED stored /\ starter' # "telling" /\ job' # "telling"
                \/ /\ row.state = "RUNNING" /\ row'.state = "FAILED" /\ JustEnded(log', "FAILED")
                   /\ UNCHANGED job
  <2>1. /\ StoryInv' /\ troubles' \in Nat /\ troubles' >= troubles
        /\ \/ ~told /\ UNCHANGED stored
           \/ row.state = "RUNNING" /\ row'.state = "FAILED" /\ JustEnded(log', "FAILED")
    BY <1>0, <1>2, Failed DEF LocalInv, FlowCodes
  <2>2. row' = row \/ row'.state = "FAILED"
    BY <2>1 DEF stored
  <2>3. row'.state # "NONE"
    BY <1>0, <2>2
  <2>4. ExecInv'
    BY <1>0, <1>2, <2>1, <2>2, <2>3, ExecStays DEF LocalInv, executor
  <2> QED BY <1>0, <1>2, <2>1, <2>4
<1> QED BY <1>0, <1>1, <1>2 DEF HandOver, Pass

\* The process dies: nobody executes the run, and nobody starts it.
LEMMA Died ==
    ASSUME LocalInv, Die
    PROVE  StoryInv' /\ ExecInv'
<1>1. /\ job' = "dead" /\ starter' = "over" /\ evidence' = FALSE /\ applied' = 0 /\ deaf' = FALSE
      /\ probe' = NoProbe /\ emitted' = << >> /\ UNCHANGED << stored, troubles >> /\ row.state # "NONE"
  BY DEF Die, Forget, Exists
<1>2. StoryInv' /\ row' = row
  BY <1>1, StoryKept DEF LocalInv, stored
<1> QED BY <1>1, <1>2 DEF LocalInv, ExecInv, OneJob, Leaving, RecorderIsHeard

\* Users.
LEMMA UserActs ==
    ASSUME LocalInv,
           \/ Archive \/ Restore \/ Purge
           \/ \E c \in Cancels : SetSignal(c) \/ CancelRow(c)
    PROVE  StoryInv' /\ ExecInv'
<1>0. troubles \in Nat
  BY DEF LocalInv, ExecInv
<1>1. CASE Archive \/ Restore \/ Purge
  <2>1. /\ StoryInv' /\ row'.flow = row.flow /\ row'.status = row.status
        /\ row'.state # row.state => row'.state = "PURGED"
    BY <1>1, StoryKept DEF LocalInv
  <2>2. UNCHANGED << executor, recorder, engine, troubles, starter >>
    BY <1>1 DEF Archive, Restore, Purge, Others, callers, misfortune
  <2>3. row'.state = "NONE" => starter' = "none"
    BY <2>1, <2>2 DEF LocalInv, ExecInv, OneJob
  <2>4. ExecInv'
    BY <1>0, <2>1, <2>2, <2>3, ExecStays DEF LocalInv
  <2> QED BY <2>1, <2>4
<1>2. ASSUME NEW c \in Cancels, SetSignal(c) \/ CancelRow(c) PROVE StoryInv' /\ ExecInv'
  <2>1. UNCHANGED << executor, recorder, engine, starter >>
    BY <1>2 DEF SetSignal, CancelRow
  <2>2. /\ StoryInv' /\ (row' = row \/ row'.state = "CANCELLED")
        /\ troubles' \in Nat /\ troubles' >= troubles
    <3>1. CASE SetSignal(c)
      <4>1. UNCHANGED stored /\ troubles' = troubles
        BY <3>1 DEF SetSignal, misfortune
      <4> QED BY <1>0, <4>1, StoryKept DEF LocalInv, stored
    <3>2. CASE CancelRow(c)
      BY <1>0, <3>2, Cancelled DEF LocalInv, stored
    <3> QED BY <1>2, <3>1, <3>2
  <2>3. row'.state = "NONE" => starter' = "none"
    BY <2>1, <2>2 DEF LocalInv, ExecInv, OneJob
  <2>4. ExecInv'
    BY <1>0, <2>1, <2>2, <2>3, ExecStays DEF LocalInv
  <2> QED BY <2>2, <2>4
<1> QED BY <1>1, <1>2

\* Whoever tells the monitor leaves the row alone and may add to its log.
LEMMA MonitorTold ==
    ASSUME LocalInv, TellMonitor
    PROVE  StoryInv' /\ ExecInv' /\ TellInv'
<1>0. /\ UNCHANGED << missed, row, signal, shape, outcome, evidence, recorder, lost, engine >>
      /\ Telling /\ row.state \notin {"NONE", "RUNNING"} /\ stopper \in [Cancels -> {"new", "signalled", "telling", "done"}]
      /\ row.state \in Ended => JustEnded(log, row.state)
      /\ troubles \in Nat
  BY DEF TellMonitor, Pass, Reach, LocalInv, TellInv, Telling, StopperTypes, ExecInv
<1>1. StoryInv' /\ troubles' \in Nat /\ troubles' >= troubles
  <2>1. CASE UNCHANGED << log, troubles >>
    BY <1>0, <2>1, StoryKept DEF stored, LocalInv
  <2>2. CASE Exists /\ Trouble /\ Note(Report(0, "MONITOR_PROJECTION_FAILED"))
    <3>1. row.state \in Ended
      BY <1>0, <2>2 DEF LocalInv, StoryInv, StoryTypes, RowType, Exists
    <3> QED BY <1>0, <2>2, <3>1, StoryNoted DEF LocalInv, Trouble
  <2> QED BY <2>1, <2>2 DEF TellMonitor, ProjectMonitor
<1>2. ~Telling' /\ StopperTypes'
  <2>1. CASE Pass("telling", "over") /\ UNCHANGED << job, stopper >>
    BY <1>0, <2>1 DEF Pass, Telling, StopperTypes, LocalInv, TellInv
  <2>2. CASE Reach("telling", "ending") /\ UNCHANGED << starter, stopper >>
    BY <1>0, <2>2 DEF Reach, Telling, StopperTypes, LocalInv, TellInv
  <2>3. ASSUME NEW c \in Cancels, stopper[c] = "telling", stopper' = [stopper EXCEPT ![c] = "done"],
               UNCHANGED << starter, job >>
        PROVE  ~Telling' /\ StopperTypes'
    <3>1. \A d \in Cancels : stopper'[d] # "telling"
      BY <1>0, <2>3 DEF LocalInv, TellInv
    <3>2. starter # "telling" /\ job # "telling"
      BY <2>3 DEF LocalInv, TellInv
    <3> QED BY <1>0, <2>3, <3>1, <3>2 DEF Telling, StopperTypes
  <2> QED BY <2>1, <2>2, <2>3 DEF TellMonitor
<1>3. TellInv'
  BY <1>2 DEF TellInv, Telling
<1>4. ExecInv'
  <2>1. /\ UNCHANGED << shape, outcome, evidence, applied, deaf, probe, emitted, row >>
        /\ \/ job' = job /\ starter' \in {starter, "over"}
           \/ job = "telling" /\ job' = "ending" /\ starter' = starter
    BY <1>0 DEF TellMonitor, Pass, Reach, recorder, engine
  <2> QED BY <1>0, <1>1, <2>1 DEF LocalInv, ExecInv, OneJob, Leaving, RecorderIsHeard
<1> QED BY <1>1, <1>3, <1>4

\* Nobody else begins to tell but who has just ended the run.
LEMMA TellersStay ==
    ASSUME LocalInv, LocalNext
    PROVE  TellInv'
<1>0. TellInv /\ stopper \in [Cancels -> {"new", "signalled", "telling", "done"}] /\ row \in RowType
  BY DEF LocalInv, TellInv, StopperTypes, StoryInv, StoryTypes
<1>1. CASE Find \/ Create \/ Register
  <2>1. /\ UNCHANGED << stopper, job >> /\ (starter' # "telling" \/ starter' = starter)
        /\ \/ row' = row /\ log' = log
           \/ row.state = "NONE"
    BY <1>1 DEF Find, Create, Register, Pass, stored, executor
  <2> QED BY <1>0, <2>1, NobodyTells DEF StopperTypes
<1>2. CASE HandOver
  <2>1. /\ stopper' = stopper
        /\ \/ UNCHANGED stored /\ starter' # "telling" /\ job' # "telling"
           \/ /\ row.state = "RUNNING" /\ row'.state = "FAILED" /\ JustEnded(log', "FAILED")
              /\ UNCHANGED job
    BY <1>2, HandedOver
  <2>2. StopperTypes'
    BY <1>0, <2>1 DEF StopperTypes
  <2>3. CASE UNCHANGED stored /\ starter' # "telling" /\ job' # "telling"
    BY <1>0, <2>1, <2>2, <2>3, NobodyTells DEF stored
  <2>4. CASE row.state = "RUNNING" /\ row'.state = "FAILED" /\ JustEnded(log', "FAILED") /\ UNCHANGED job
    BY <1>0, <2>1, <2>2, <2>4, OneTells DEF Ended
  <2> QED BY <2>1, <2>3, <2>4
<1>3. CASE Executes
  <2>1. starter' = starter /\ stopper' = stopper
    BY <1>3 DEF Executes, Begin, Work, Drain, Collect, SuiteStep, RunSuite, CheckSignal, Settled,
                StoreResult, OnFailure, Leave, callers
  <2>2. StopperTypes'
    BY <1>0, <2>1 DEF StopperTypes
  <2>3. CASE Drain \/ SuiteStep \/ Settled
    <3>1. (row' = row /\ log' = log) \/ row.state = "RUNNING"
      BY <2>3 DEF Drain, SuiteStep, Settled, RecordStep, CanRecord, CanBeginEvidence, stored
    <3>2. job' # "telling"
      <4>1. CASE SuiteStep
        <5>1. PICK k \in DOMAIN SuiteSteps : job' \in {SuiteSteps[k].to, "failing"}
          BY <4>1 DEF SuiteStep, Reach
        <5> QED BY <5>1, SuiteStepsMean DEF SuiteJobs
      <4>2. CASE Drain \/ Settled
        BY <4>2 DEF Drain, Settled, Reach, executor
      <4> QED BY <2>3, <4>1, <4>2
    <3> QED BY <1>0, <2>1, <2>2, <3>1, <3>2, NobodyTells
  <2>4. CASE StoreResult
    <3>1. \/ row.state = "RUNNING" /\ row'.state = "COMPLETED" /\ JustEnded(log', "COMPLETED")
          \/ UNCHANGED stored /\ job' = "failing"
      BY <2>4, ResultStored
    <3>2. CASE row.state = "RUNNING" /\ row'.state = "COMPLETED" /\ JustEnded(log', "COMPLETED")
      BY <1>0, <2>1, <2>2, <3>2, OneTells DEF Ended
    <3>3. CASE UNCHANGED stored /\ job' = "failing"
      BY <1>0, <2>1, <2>2, <3>3, NobodyTells DEF stored
    <3> QED BY <3>1, <3>2, <3>3
  <2>5. CASE Begin \/ Work \/ Collect \/ RunSuite \/ CheckSignal \/ OnFailure \/ Leave
    <3>1. \/ UNCHANGED stored /\ job' # "telling"
          \/ row.state = "RUNNING" /\ row'.state = "FAILED" /\ JustEnded(log', "FAILED")
      BY <2>5, FailureTells
    <3>2. CASE UNCHANGED stored /\ job' # "telling"
      BY <1>0, <2>1, <2>2, <3>2, NobodyTells DEF stored
    <3>3. CASE row.state = "RUNNING" /\ row'.state = "FAILED" /\ JustEnded(log', "FAILED")
      BY <1>0, <2>1, <2>2, <3>3, OneTells DEF Ended
    <3> QED BY <3>1, <3>2, <3>3
  <2> QED BY <1>3, <2>3, <2>4, <2>5 DEF Executes
<1>4. CASE Archive \/ Restore \/ Purge
  <2>1. /\ UNCHANGED << starter, job, stopper >>
        /\ \/ row'.state = row.state /\ log' = log
           \/ row'.state = "PURGED"
    BY <1>0, <1>4 DEF Archive, Restore, Purge, Others, callers, executor, RowType
  <2> QED BY <1>0, <2>1, NobodyTells DEF StopperTypes
<1>5. CASE Die
  <2>1. /\ UNCHANGED stored /\ starter' = "over" /\ job' = "dead"
        /\ stopper' = [c \in Cancels |-> IF stopper[c] = "new" THEN "new" ELSE "done"]
    BY <1>5 DEF Die
  <2>2. StopperTypes' /\ \A c \in Cancels : stopper'[c] # "telling"
    BY <2>1 DEF StopperTypes
  <2> QED BY <1>0, <2>1, <2>2, NobodyTells DEF stored
<1>6. ASSUME NEW c \in Cancels, SetSignal(c) PROVE TellInv'
  <2>1. UNCHANGED << starter, job, row, log >> /\ stopper' = [stopper EXCEPT ![c] = "signalled"]
    BY <1>6 DEF SetSignal, stored, executor
  <2>2. StopperTypes' /\ \A d \in Cancels : stopper'[d] = "telling" => stopper[d] = "telling"
    BY <1>0, <2>1 DEF StopperTypes
  <2> QED BY <1>0, <2>1, <2>2, NobodyTells
<1>7. ASSUME NEW c \in Cancels, CancelRow(c) PROVE TellInv'
  <2>1. UNCHANGED << starter, job >> /\ troubles \in Nat
    BY <1>7 DEF CancelRow, executor, LocalInv, ExecInv
  <2>2. \/ stopper' = [stopper EXCEPT ![c] = "done"] /\ UNCHANGED stored
        \/ /\ \E to \in {"telling", "done"} : stopper' = [stopper EXCEPT ![c] = to]
           /\ row.state = "RUNNING" /\ row'.state = "CANCELLED" /\ JustEnded(log', "CANCELLED")
    BY <1>7, <2>1, Cancelled DEF LocalInv
  <2>3. StopperTypes' /\ \A d \in Cancels \ {c} : stopper'[d] = stopper[d]
    BY <1>0, <2>2 DEF StopperTypes
  <2>4. CASE stopper' = [stopper EXCEPT ![c] = "done"] /\ UNCHANGED stored
    <3>1. \A d \in Cancels : stopper'[d] = "telling" => stopper[d] = "telling"
      BY <1>0, <2>4
    <3> QED BY <1>0, <2>1, <2>3, <2>4, <3>1, NobodyTells DEF stored
  <2>5. CASE row.state = "RUNNING" /\ row'.state = "CANCELLED" /\ JustEnded(log', "CANCELLED")
    BY <1>0, <2>1, <2>3, <2>5, OneTells DEF Ended
  <2> QED BY <2>2, <2>4, <2>5
<1> QED BY <1>1, <1>2, <1>3, <1>4, <1>5, <1>6, <1>7, MonitorTold DEF LocalNext, Starts

----------------------------------------------------------------------------

\* Before the first request there is no row, no log, no job and no probe.
LEMMA LocalBegins == LocalInit => LocalInv
<1> SUFFICES ASSUME LocalInit PROVE LocalInv
  OBVIOUS
<1>1. EngineInv
  <2>1. probe = NoProbe /\ emitted = << >>
    BY DEF LocalInit, ProbeInit
  <2>2. NoProbe \in ProbeType /\ NoProbe.at = "idle" /\ NoProbe.kind = "none" /\ NoProbe.result.status = "UNKNOWN"
    BY DEF NoProbe, ProbeType, Result
  <2>3. << >> \in Seq(ReportType) /\ InOrder(<< >>)
    BY DEF InOrder
  <2> HIDE DEF NoProbe
  <2> QED BY <2>1, <2>2, <2>3 DEF EngineInv, EngineTypes, PassIsEarned
<1>2. /\ row.state = "NONE" /\ row.flow = CreatedFlow /\ row.status = "NONE" /\ row.code = "NONE"
      /\ row.archived = "never" /\ log = << >>
      /\ row = [ state |-> "NONE", flow |-> CreatedFlow, status |-> "NONE", code |-> "NONE", archived |-> "never" ]
  BY DEF LocalInit
<1>3. row \in RowType
  BY <1>2, CreatedIsUnderway DEF RowType
<1>4. StoryInv
  BY <1>2, <1>3, CreatedIsUnderway DEF StoryInv, StoryTypes, Ended
<1>5. /\ applied = 0 /\ troubles = 0 /\ starter = "none" /\ job = "none" /\ evidence = FALSE /\ deaf = FALSE
      /\ probe = NoProbe /\ emitted = << >>
  BY DEF LocalInit, ProbeInit
<1>6. ExecInv
  BY <1>2, <1>5 DEF ExecInv, OneJob, RecorderIsHeard
<1>7. TellInv
  BY <1>5 DEF TellInv, Telling, StopperTypes, LocalInit
<1> QED BY <1>1, <1>4, <1>6, <1>7 DEF LocalInv

\* Every step of a local run keeps the invariant: the steps of requests, of the
\* execution, of its recorder and of users.
LEMMA LocalStays == LocalInv /\ [LocalNext]_localVars => LocalInv'
<1> SUFFICES ASSUME LocalInv, [LocalNext]_localVars PROVE LocalInv'
  OBVIOUS
<1>1. EngineInv'
  <2>1. \/ ProbeStep \/ Forget \/ UNCHANGED engine
        \/ \E kind \in Kinds : StartProbe(kind)
    <3>1. CASE Begin
      <4>1. UNCHANGED engine \/ (shape # "suite" /\ StartProbe(shape) /\ job = "queued")
        BY <3>1 DEF Begin, Reach
      <4>2. job = "queued" /\ shape # "suite" => shape \in Kinds
        BY LocalAssumption DEF LocalInv, ExecInv, OneJob
      <4> QED BY <4>1, <4>2
    <3>2. CASE Work \/ Collect \/ Die
      BY <3>2 DEF Work, Collect, Die
    <3>3. CASE Drain \/ SuiteStep \/ RunSuite \/ CheckSignal \/ Settled \/ StoreResult \/ OnFailure \/ Leave
      BY <3>3 DEF Drain, SuiteStep, RunSuite, CheckSignal, Settled, StoreResult, OnFailure, Leave
    <3>4. CASE Find \/ Create \/ Register \/ HandOver \/ Archive \/ Restore \/ Purge
      BY <3>4 DEF Find, Create, Register, HandOver, Archive, Restore, Purge, Others
    <3>5. ASSUME TellMonitor \/ \E c \in Cancels : SetSignal(c) \/ CancelRow(c) PROVE UNCHANGED engine
      BY <3>5 DEF SetSignal, CancelRow, TellMonitor
    <3>6. CASE UNCHANGED localVars
      BY <3>6 DEF localVars
    <3> QED BY <3>1, <3>2, <3>3, <3>4, <3>5, <3>6 DEF LocalNext, Executes, Starts
  <2> QED BY <2>1, EngineStep DEF LocalInv
<1>2. StoryInv' /\ ExecInv'
  <2>1. CASE UNCHANGED localVars
    <3>1. UNCHANGED stored /\ UNCHANGED << executor, recorder, engine >> /\ troubles' = troubles /\ starter' = starter
      BY <2>1 DEF localVars, callers, misfortune
    <3>2. StoryInv' /\ row' = row
      BY <3>1, StoryKept DEF LocalInv, stored
    <3>3. troubles \in Nat /\ (row.state = "NONE" => starter = "none")
      BY DEF LocalInv, ExecInv, OneJob
    <3>4. ExecInv'
      BY <3>1, <3>2, <3>3, ExecStays DEF LocalInv
    <3> QED BY <3>2, <3>4
  <2>2. CASE LocalNext
    BY <2>2, Started, HandedOver, ExecMoves, StepTaken, SuiteReports, EvidenceBegins, ResultStored,
       UserActs, Died, MonitorTold DEF LocalNext, Executes, Starts
  <2> QED BY <2>1, <2>2
<1>3. TellInv'
  <2>1. CASE UNCHANGED localVars
    <3>1. UNCHANGED << starter, job, stopper, row, log >>
      BY <2>1 DEF localVars, callers, executor, stored
    <3> QED BY <3>1, NobodyTells DEF LocalInv, TellInv, StopperTypes
  <2> QED BY <2>1, TellersStay
<1> QED BY <1>1, <1>2, <1>3 DEF LocalInv

\* The inductive invariant of local runs, for every value of the constants.
LEMMA LocalInvariance == LocalSpec => []LocalInv
BY LocalBegins, LocalStays, PTL DEF LocalSpec

\* A probe passes only what was answered completely, in every run that executes it
\* (_consume_event, _consume_json and finish in probe.py).
THEOREM PassesAreEarned == LocalSpec => []PassIsEarned
<1>1. LocalInv => PassIsEarned
  BY DEF LocalInv, EngineInv
<1> QED BY <1>1, LocalInvariance, PTL

\* The recorder falls silent only for a call that failed or a run that has ended: whatever
\* a probe reports is a step its workflow accepts (_ControlProgressRecorder, advance_component_run).
THEOREM RecordersAreHeard == LocalSpec => []RecorderIsHeard
<1>1. LocalInv => RecorderIsHeard
  BY DEF LocalInv, ExecInv
<1> QED BY <1>1, LocalInvariance, PTL

\* The row of a run, its workflow and its result agree (update_run_workflow, complete_run,
\* fail_run and cancel_run, in any order).
THEOREM RowsTellOneStory == LocalSpec => []RowTellsOneStory
<1>1. LocalInv => RowTellsOneStory
  <2> SUFFICES ASSUME LocalInv, Exists PROVE RowTellsOneStory
    BY DEF RowTellsOneStory
  <2>1. row.state \in {"RUNNING", "COMPLETED", "FAILED", "CANCELLED"} /\ StoryInv /\ ExecInv
    BY DEF LocalInv, StoryInv, StoryTypes, RowType, Ended, Exists
  <2>2. Coherent(row.flow) /\ (row.state \in {"RUNNING", "CANCELLED"} <=> row.flow.status = "RUNNING")
    BY <2>1 DEF StoryInv, Underway
  <2> QED BY <2>1, <2>2 DEF RowTellsOneStory, StoryInv, ExecInv
<1> QED BY <1>1, LocalInvariance, PTL

\* The events of a run say how it ended, once, with nothing behind it but that the monitor
\* could not be told; and until then which step it is in (_append_event, under the lock of
\* the row, and _project_monitor_run, which asks nothing of it).
THEOREM LogsTellTheRow == LocalSpec => []LogTellsTheRow
<1>1. LocalInv => LogTellsTheRow
  <2> SUFFICES ASSUME LocalInv, Exists PROVE LogTellsTheRow
    BY DEF LogTellsTheRow
  <2>1. row.state \in Ended \cup {"RUNNING"} /\ StoryInv /\ log \in Seq(LogType)
    BY DEF LocalInv, StoryInv, StoryTypes, RowType, Exists
  <2>2. DOMAIN log = 1..Len(log) /\ Len(log) \in Nat
    BY <2>1
  <2>3. CASE row.state = "RUNNING"
    <3>1. LastTells(log, row.flow)
      BY <2>1, <2>3 DEF StoryInv
    <3> QED BY <2>2, <2>3, <3>1 DEF LogTellsTheRow, LastTells, Midways, Ended
  <2>4. CASE row.state \in Ended
    <3>1. ASSUME NEW k \in DOMAIN log, log[k].to = EndingOf[row.state],
                 \A j \in 1..(k - 1) : log[j].to \in Midways,
                 \A j \in (k + 1)..Len(log) : j = k + 1 /\ log[j].to = "MONITOR_PROJECTION_FAILED"
          PROVE  LogTellsTheRow
      BY <2>4, <3>1 DEF LogTellsTheRow, EndingOf, Midways, Ended
    <3>2. CASE JustEnded(log, row.state)
      <4>1. Len(log) \in DOMAIN log /\ \A j \in (Len(log) + 1)..Len(log) : FALSE
        BY <2>2, <3>2 DEF JustEnded
      <4>2. log[Len(log)].to = EndingOf[row.state] /\ \A j \in 1..(Len(log) - 1) : log[j].to \in Midways
        BY <3>2 DEF JustEnded
      <4> QED BY <3>1, <4>1, <4>2
    <3>3. CASE NotedAfter(log, row.state)
      <4> DEFINE k == Len(log) - 1
      <4>1. k \in DOMAIN log /\ k - 1 = Len(log) - 2 /\ k + 1 = Len(log)
        BY <2>2, <3>3 DEF NotedAfter
      <4>2. log[k].to = EndingOf[row.state] /\ \A j \in 1..(k - 1) : log[j].to \in Midways
        BY <3>3, <4>1 DEF NotedAfter
      <4>3. ASSUME NEW j \in (k + 1)..Len(log)
            PROVE  j = k + 1 /\ log[j].to = "MONITOR_PROJECTION_FAILED"
        <5>1. j = Len(log) /\ j = k + 1
          BY <2>2, <4>1
        <5> QED BY <3>3, <5>1 DEF NotedAfter
      <4> HIDE DEF k
      <4> QED BY <3>1, <4>1, <4>2, <4>3
    <3> QED BY <2>1, <2>4, <3>2, <3>3 DEF StoryInv
  <2> QED BY <2>1, <2>3, <2>4
<1> QED BY <1>1, LocalInvariance, PTL

----------------------------------------------------------------------------
(* A local run is never left to nobody.                                    *)

\* Nobody else is about to end the run: no call that had to failed, the process lives, and
\* no cancel_run is between its signal and the row.
Left == row.state = "RUNNING" /\ ~lost /\ \A c \in Cancels : stopper[c] # "signalled"

\* A RUNNING run has a request that starts it or an execution that will end it, and the
\* execution was not told to stop; unless a cancel_run is about to end it, or the process
\* died, or a call that had to end it failed (start_run, _execute_local, cancel_run).
RunIsAttended ==
    Left => /\ starter \in {"created", "registered"} \/ job \notin {"none", "telling", "ending", "done", "dead"}
            /\ signal # "set"

Unsigned == row.state = "NONE" => signal = "none"
TendedInv == RunIsAttended /\ Unsigned

\* What comes of a run that is to be failed.
LEMMA FailedIsNotLeft ==
    ASSUME NEW code, NEW told, MarkFailed(code, told), StoryTypes
    PROVE  \/ ~Left' /\ row'.state # "NONE"
           \/ row' = row /\ row.state # "RUNNING"
<1>1. CASE row.state = "RUNNING" /\ row'.state = "FAILED"
  <2>1. row'.state # "RUNNING" /\ row'.state # "NONE"
    BY <1>1
  <2>2. ~Left'
    BY <2>1 DEF Left
  <2> QED BY <2>1, <2>2, Zenon
<1>2. CASE row' = row /\ row.state # "RUNNING"
  BY <1>2
<1>3. CASE row' = row /\ row.state = "RUNNING" /\ lost' = TRUE
  <2>1. lost'
    BY <1>3
  <2>2. ~Left'
    BY <2>1 DEF Left
  <2>3. row'.state # "NONE"
    BY <1>3
  <2> QED BY <2>2, <2>3, Zenon
<1>4. row \in RowType
  BY DEF StoryTypes
<1>5. \/ row.state = "RUNNING" /\ row'.state = "FAILED"
      \/ row' = row /\ row.state # "RUNNING"
      \/ row' = row /\ lost' = TRUE
  BY <1>4 DEF MarkFailed, RowType, stored
<1> QED BY <1>1, <1>2, <1>3, <1>5

\* The requests: each leaves the run with the next.
LEMMA RequestsTend ==
    ASSUME LocalInv, TendedInv, Find \/ Starts
    PROVE  TendedInv'
<1>0. row \in RowType /\ StoryTypes /\ stopper' = stopper
  BY DEF LocalInv, StoryInv, StoryTypes, Find, Starts, Create, Register, HandOver
<1>1. CASE Find
  BY <1>1 DEF Find, TendedInv, RunIsAttended, Unsigned, Left, stored, executor, misfortune
<1>2. CASE Create
  <2>1. signal' = signal /\ job' = job
    BY <1>2 DEF Create, executor
  <2>2. CASE UNCHANGED << starter, stored, misfortune >>
    BY <1>0, <2>1, <2>2 DEF TendedInv, RunIsAttended, Unsigned, Left, stored, misfortune
  <2>3. CASE row.state = "NONE" /\ row' = [row EXCEPT !.state = "RUNNING"]
             /\ (starter' = "created" \/ lost' = TRUE)
    BY <1>0, <2>1, <2>3 DEF TendedInv, RunIsAttended, Unsigned, Left, RowType
  <2> QED BY <1>2, <2>2, <2>3 DEF Create, Pass
<1>3. CASE Register
  <2>1. starter = "created" /\ starter' = "registered" /\ signal' = "clear"
        /\ row' = row /\ job' = job /\ lost' = lost /\ row.state # "NONE"
    BY <1>3 DEF Register, Pass, stored, executor, misfortune, LocalInv, ExecInv, OneJob
  <2> QED BY <1>0, <2>1 DEF TendedInv, RunIsAttended, Unsigned, Left
<1>4. CASE HandOver
  <2>1. starter = "registered" /\ row.state # "NONE" /\ signal' = signal
    BY <1>4 DEF HandOver, Pass, LocalInv, ExecInv, OneJob
  <2>2. CASE job' = "queued" /\ UNCHANGED << stored, misfortune >>
    BY <1>0, <2>1, <2>2 DEF TendedInv, RunIsAttended, Unsigned, Left, stored, misfortune
  <2>3. ASSUME NEW told, MarkFailed("LOCAL_DISPATCH_ERROR", told)
        PROVE  TendedInv'
    <3>1. ~Left' /\ row'.state # "NONE"
      BY <1>0, <2>1, <2>3, FailedIsNotLeft DEF Left
    <3> QED BY <1>0, <3>1 DEF TendedInv, RunIsAttended, Unsigned
  <2> QED BY <1>4, <2>2, <2>3 DEF HandOver
<1> QED BY <1>1, <1>2, <1>3, <1>4 DEF Starts

\* The execution goes on, or the run is ended, or it was told to stop.
LEMMA ExecutionTends ==
    ASSUME LocalInv, TendedInv, Executes
    PROVE  TendedInv'
<1>0. row \in RowType /\ StoryTypes /\ starter' = starter /\ stopper' = stopper
  BY DEF LocalInv, StoryInv, StoryTypes, Executes, Begin, Work, Drain, Collect, SuiteStep, RunSuite,
     CheckSignal, Settled, StoreResult, OnFailure, Leave, callers
<1>1. ASSUME signal' = signal, lost' = lost, row'.state = row.state, row' # row => row.state = "RUNNING",
             job' \notin {"none", "telling", "ending", "done", "dead"}
      PROVE  TendedInv'
  BY <1>0, <1>1 DEF TendedInv, RunIsAttended, Unsigned, Left
<1>2. CASE Begin \/ Work \/ Collect \/ RunSuite
  <2>1. signal' = signal /\ lost' = lost /\ row' = row
        /\ job' \notin {"none", "telling", "ending", "done", "dead"}
    BY <1>2 DEF Begin, Work, Collect, RunSuite, Reach, executor, stored, misfortune
  <2> QED BY <1>1, <2>1
<1>3. CASE Drain \/ SuiteStep \/ Settled
  <2>1. row' = row \/ (row.state = "RUNNING" /\ row'.state = "RUNNING")
    BY <1>0, <1>3 DEF Drain, SuiteStep, Settled, RecordStep, CanRecord, CanBeginEvidence, RowType, stored
  <2>2. signal' = signal /\ lost' = lost
    BY <1>3 DEF Drain, SuiteStep, Settled
  <2>3. job' \notin {"none", "telling", "ending", "done", "dead"}
    <3>1. CASE SuiteStep
      <4>1. PICK k \in DOMAIN SuiteSteps : job' \in {SuiteSteps[k].to, "failing"}
        BY <3>1 DEF SuiteStep, Reach
      <4> QED BY <4>1, SuiteStepsMean DEF SuiteJobs
    <3>2. CASE Drain \/ Settled
      BY <3>2 DEF Drain, Settled, Reach, executor
    <3> QED BY <1>3, <3>1, <3>2
  <2> QED BY <1>1, <2>1, <2>2, <2>3
<1>4. CASE CheckSignal
  <2>1. UNCHANGED << row, signal, lost >> /\ job = "checking"
        /\ (signal = "set" \/ job' = "beginning")
    BY <1>4 DEF CheckSignal, Reach, stored, misfortune
  <2> QED BY <1>0, <2>1 DEF TendedInv, RunIsAttended, Unsigned, Left
<1>5. CASE StoreResult
  <2>1. CASE row.state = "RUNNING" /\ row' = [row EXCEPT !.state = "COMPLETED", !.status = outcome.status, !.code = "NONE",
                                              !.flow = FinalFlow(row.flow, outcome)]
    <3>1. row'.state = "COMPLETED"
      BY <1>0, <2>1 DEF RowType
    <3> QED BY <1>0, <3>1 DEF TendedInv, RunIsAttended, Unsigned, Left
  <2>2. CASE row' = row /\ job' = "failing"
    BY <1>1, <1>5, <2>2 DEF StoreResult
  <2> QED BY <1>5, <2>1, <2>2 DEF StoreResult, Reach, stored
<1>6. CASE OnFailure
  <2>1. PICK told \in BOOLEAN :
           /\ signal' = signal
           /\ MarkFailed(IF evidence THEN "EVIDENCE_PERSISTENCE_ERROR" ELSE "EXECUTION_ERROR", told)
    BY <1>6 DEF OnFailure
  <2>2. ~Left' /\ (row'.state = "NONE" => row.state = "NONE")
    <3>1. \/ ~Left' /\ row'.state # "NONE"
          \/ row' = row /\ row.state # "RUNNING"
      BY <1>0, <2>1, FailedIsNotLeft
    <3> QED BY <3>1 DEF Left
  <2> QED BY <1>0, <2>1, <2>2 DEF TendedInv, RunIsAttended, Unsigned
<1>7. CASE Leave
  BY <1>0, <1>7 DEF Leave, Reach, stored, misfortune, TendedInv, RunIsAttended, Unsigned, Left,
                    LocalInv, ExecInv, OneJob
<1> QED BY <1>2, <1>3, <1>4, <1>5, <1>6, <1>7 DEF Executes

\* Users: who sets the signal ends the run.
LEMMA UsersTend ==
    ASSUME LocalInv, TendedInv,
           \/ Archive \/ Restore \/ Purge \/ Die
           \/ \E c \in Cancels : SetSignal(c) \/ CancelRow(c)
    PROVE  TendedInv'
<1>0. row \in RowType /\ stopper \in [Cancels -> {"new", "signalled", "telling", "done"}]
  BY DEF LocalInv, StoryInv, StoryTypes, TellInv, StopperTypes
<1>1. CASE Archive \/ Restore \/ Purge
  <2>1. row.state \in Ended \/ row' = [row EXCEPT !.archived = "once"]
    BY <1>1 DEF Archive, Restore, Purge
  <2>2. row'.state = row.state \/ row'.state = "PURGED"
    BY <1>0, <1>1 DEF Archive, Restore, Purge, RowType
  <2>3. UNCHANGED << starter, stopper, signal, job, lost >>
    BY <1>1 DEF Archive, Restore, Purge, Others, callers, executor, misfortune
  <2> QED BY <2>2, <2>3 DEF TendedInv, RunIsAttended, Unsigned, Left
<1>2. CASE Die
  <2>1. lost' = TRUE /\ signal' = "none"
    BY <1>2 DEF Die
  <2> QED BY <2>1 DEF TendedInv, RunIsAttended, Unsigned, Left
<1>3. ASSUME NEW c \in Cancels, SetSignal(c) PROVE TendedInv'
  <2>1. stopper' = [stopper EXCEPT ![c] = "signalled"] /\ row' = row /\ Exists
    BY <1>3 DEF SetSignal, stored, Readable
  <2>2. stopper'[c] = "signalled"
    BY <1>0, <2>1
  <2> QED BY <2>1, <2>2 DEF TendedInv, RunIsAttended, Unsigned, Left, Exists
<1>4. ASSUME NEW c \in Cancels, CancelRow(c) PROVE TendedInv'
  <2>1. UNCHANGED << starter, signal, job >>
    BY <1>4 DEF CancelRow, executor
  <2>2. row'.state # "RUNNING" \/ lost' = TRUE
    BY <1>0, <1>4 DEF CancelRow, RowType, stored
  <2>3. row'.state = "NONE" => row.state = "NONE"
    BY <1>0, <1>4 DEF CancelRow, RowType, stored
  <2> QED BY <2>1, <2>2, <2>3 DEF TendedInv, RunIsAttended, Unsigned, Left
<1> QED BY <1>1, <1>2, <1>3, <1>4

\* Who tells the monitor has ended the run.
LEMMA MonitorTends ==
    ASSUME LocalInv, TendedInv, TellMonitor
    PROVE  TendedInv'
<1>1. row' = row /\ signal' = signal /\ Telling
  BY DEF TellMonitor, Pass, Reach, Telling
<1>2. row'.state # "RUNNING" /\ row'.state # "NONE"
  BY <1>1 DEF LocalInv, TellInv
<1> QED BY <1>2 DEF TendedInv, RunIsAttended, Unsigned, Left

\* A local run is left RUNNING only by a process that died or a call that failed, whatever
\* requests, users and the execution do, in any order.
THEOREM RunsAreAttended == LocalSpec => []RunIsAttended
<1>1. LocalInit => TendedInv
  BY DEF LocalInit, TendedInv, RunIsAttended, Unsigned, Left
<1>2. LocalInv /\ TendedInv /\ [LocalNext]_localVars => TendedInv'
  <2> SUFFICES ASSUME LocalInv, TendedInv, [LocalNext]_localVars PROVE TendedInv'
    OBVIOUS
  <2>1. CASE UNCHANGED localVars
    BY <2>1 DEF localVars, callers, stored, executor, misfortune, TendedInv, RunIsAttended, Unsigned, Left
  <2> QED BY <2>1, RequestsTend, ExecutionTends, MonitorTends, UsersTend DEF LocalNext
<1>3. TendedInv => RunIsAttended
  BY DEF TendedInv
<1> QED BY <1>1, <1>2, <1>3, LocalInvariance, PTL DEF LocalSpec
=============================================================================
