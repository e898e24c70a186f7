--------------------------- MODULE MCControlPlane ---------------------------
(* What has to come to an end, for TLC: the shutdown of the control process, *)
(* a run it executes itself, and a canary run under Temporal.  A behaviour   *)
(* is one of one of them; the others stay in their initial states, where     *)
(* their fairness asks for nothing.                                          *)
EXTENDS ControlShutdown, LocalRun, TemporalCanary

VARIABLE part

MCInit ==
    /\ ShutdownInit /\ LocalInit /\ Init
    /\ part \in {"shutdown", "local run", "canary"}
    /\ part # "shutdown" => scheduler = "stopped"

\* A run that has ended, and LocalRunEnds is about, is not archived here.
NotArchived == row'.archived = "never"

MCNext ==
    /\ \/ part = "shutdown" /\ ShutdownNext /\ UNCHANGED << localVars, vars >>
       \/ part = "local run" /\ LocalNext /\ NotArchived /\ UNCHANGED << shutdownVars, vars >>
       \/ part = "canary" /\ Next /\ UNCHANGED << shutdownVars, localVars >>
    /\ UNCHANGED part

\* Fairness of TemporalCanary, which its own initial state would ask for.
CanaryFairness ==
    /\ WF_vars(part = "canary" /\ WorkflowRuns)
    /\ WF_vars(part = "canary" /\ CommitAppend)
    /\ \A a \in Activities :
        /\ WF_vars(part = "canary" /\ LeaseExpires(a))
        /\ \A n \in 1..MaxAttempts :
             WF_vars(part = "canary" /\ \E w \in workers : w.act = a /\ w.attempt = n /\ Ends(w))

MCSpec ==
    /\ MCInit /\ [][MCNext]_<< part, shutdownVars, localVars, vars >>
    /\ ShutdownFairness /\ LocalFairness /\ CanaryFairness
=============================================================================
