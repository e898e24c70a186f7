------------------------------- MODULE MCJobs -------------------------------
(* The jobs that pay a provider, for TLC: an evaluation, a batch of probes,  *)
(* the deliveries of an activity.  A behaviour is one of one of them; the    *)
(* others stay in their initial states, where their fairness asks for        *)
(* nothing.                                                                  *)
EXTENDS EvaluationRun, ProbeBatch, ActivityLease

VARIABLE part

MCInit ==
    /\ Init /\ BatchInit /\ LeaseInit
    /\ part \in {"evaluation", "batch", "activity"}

MCNext ==
    /\ \/ part = "evaluation" /\ Next /\ UNCHANGED << batchVars, leaseVars >>
       \/ part = "batch" /\ BatchNext /\ UNCHANGED << vars, leaseVars >>
       \/ part = "activity" /\ LeaseNext /\ UNCHANGED << vars, batchVars >>
    /\ UNCHANGED part

MCSpec ==
    /\ MCInit /\ [][MCNext]_<< part, vars, batchVars, leaseVars >>
    /\ Fairness /\ BatchFairness /\ LeaseFairness
=============================================================================
