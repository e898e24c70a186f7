----------------------------- MODULE MCRecords -----------------------------
(* What several callers do to the same rows, for TLC: the items of an        *)
(* evaluation, those of a batch, the row of an activity, a credential        *)
(* profile and its secret, targets and suites, a partner's application, an   *)
(* attempt limit.  A behaviour is one of one of them; the others stay in     *)
(* their initial states.                                                     *)
EXTENDS EvaluationRun, ProbeBatch, ActivityLease, CredentialProfile, Catalog, PartnerApplication,
        AuthLimit

VARIABLE part

Parts == {"evaluation", "batch", "activity", "credential", "catalog", "application",
          "limit"}

everything == << vars, batchVars, leaseVars, profileVars, catalogVars, partnerVars, limitVars >>

MCInit ==
    /\ Init /\ BatchInit /\ LeaseInit /\ ProfileInit /\ CatalogInit /\ PartnerInit /\ LimitInit
    /\ part \in Parts

\* Every part but p stays as it is.
OthersStay(p) ==
    /\ p # "evaluation" => UNCHANGED vars
    /\ p # "batch" => UNCHANGED batchVars
    /\ p # "activity" => UNCHANGED leaseVars
    /\ p # "credential" => UNCHANGED profileVars
    /\ p # "catalog" => UNCHANGED catalogVars
    /\ p # "application" => UNCHANGED partnerVars
    /\ p # "limit" => UNCHANGED limitVars

MCNext ==
    /\ \/ part = "evaluation" /\ Next
       \/ part = "batch" /\ BatchNext
       \/ part = "activity" /\ LeaseNext
       \/ part = "credential" /\ ProfileNext
       \/ part = "catalog" /\ CatalogNext
       \/ part = "application" /\ PartnerNext
       \/ part = "limit" /\ LimitNext
    /\ OthersStay(part) /\ UNCHANGED part

MCSpec == MCInit /\ [][MCNext]_<< part, everything >>
=============================================================================
