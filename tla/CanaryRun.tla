----------------------------- MODULE CanaryRun ------------------------------
(***************************************************************************)
(* What a canary run promises to whoever reads its journal, with nothing   *)
(* said of drivers, workers, leases or databases (docs/adr/002): the       *)
(* activities are tried and completed in their one order, each completed   *)
(* at most once and tried at most MaxAttempts times; only EXECUTE may be   *)
(* left out, and only right after PREFLIGHT; a run succeeds only when      *)
(* everything is done, and what it ended as is final.                      *)
(***************************************************************************)
EXTENDS Naturals, Sequences

CONSTANTS MaxAttempts

VARIABLES status, done, tries, skipped
vars == << status, done, tries, skipped >>

FullPlan  == << "VALIDATE", "PREFLIGHT", "EXECUTE", "NORMALIZE",
                "SCORE", "PERSIST", "COMPARE", "NOTIFY" >>
ShortPlan == << "VALIDATE", "PREFLIGHT", "NORMALIZE",
                "SCORE", "PERSIST", "COMPARE", "NOTIFY" >>
Plan      == IF skipped THEN ShortPlan ELSE FullPlan

AllDone == Len(done) = Len(Plan)
Due     == Plan[Len(done) + 1]

Init == /\ status = "NOT_STARTED"
        /\ done = << >>
        /\ tries = [i \in {FullPlan[k] : k \in 1..8} |-> 0]
        /\ skipped = FALSE

Begin == /\ status = "NOT_STARTED" /\ status' = "RUNNING"
         /\ UNCHANGED << done, tries, skipped >>

Try == /\ status = "RUNNING" /\ ~AllDone
       /\ tries[Due] < MaxAttempts
       /\ tries' = [tries EXCEPT ![Due] = @ + 1]
       /\ UNCHANGED << status, done, skipped >>

Finish == /\ status = "RUNNING" /\ ~AllDone
          /\ tries[Due] > 0
          /\ done' = Append(done, Due)
          /\ skipped' \in IF Due = "PREFLIGHT" THEN BOOLEAN ELSE {skipped}
          /\ UNCHANGED << status, tries >>

Succeed == /\ status = "RUNNING" /\ AllDone
           /\ status' = "SUCCEEDED"
           /\ UNCHANGED << done, tries, skipped >>

Stop == /\ status = "RUNNING"
        /\ status' \in {"FAILED", "REJECTED", "CANCELLED"}
        /\ UNCHANGED << done, tries, skipped >>

Next == Begin \/ Try \/ Finish \/ Succeed \/ Stop

Spec == Init /\ [][Next]_vars
=============================================================================
