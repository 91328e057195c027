------------------------ MODULE DriveImportRefinement ------------------------
(***************************************************************************)
(* DriveImport implements ImportPromise as long as the database answers    *)
(* what it commits.  An import begins with its reservation and is counted  *)
(* by its rows once they exist; a second row, or a hold that outlives the  *)
(* row, would show as a charge the promise does not know.                  *)
(***************************************************************************)
EXTENDS DriveImport

OutcomeOf(i) ==
    CASE status[i] = "DONE" -> "landed"
      [] status[i] = "FAILED" -> "failed"
      [] status[i] \in Active -> "running"
      [] OTHER -> IF hold[i] = "held" THEN "running"
                  ELSE IF hold[i] = "released" THEN "failed" ELSE "none"

ChargeOf(i) ==
    CASE hold[i] = "held" /\ rows[i] = 0 -> "hold"
      [] hold[i] # "held" /\ rows[i] = 0 -> "nothing"
      [] hold[i] # "held" /\ rows[i] = 1 -> "video"
      [] OTHER -> "twice"

Promise == INSTANCE ImportPromise WITH
               outcome <- [i \in Imports |-> OutcomeOf(i)],
               charge <- [i \in Imports |-> ChargeOf(i)]

\* Every import keeps the promise: one outcome, and one charge at every moment.
KeepsThePromise == Promise!PromiseSpec
===============================================================================
