----------------------------- MODULE ImportPromise -----------------------------
(***************************************************************************)
(* What a user who imports a file is promised: it becomes one video, or it *)
(* fails, for good; and the bytes of the file are counted against the      *)
(* account exactly once from the start to the end, first by a hold and     *)
(* then by the video, with no moment in between.                           *)
(***************************************************************************)
CONSTANT Imports

VARIABLES
    outcome,    \* "none", "running", "landed" or "failed"
    charge      \* what counts the bytes: "nothing", "hold" or "video"

promised == <<outcome, charge>>

PromiseInit ==
    /\ outcome = [i \in Imports |-> "none"]
    /\ charge = [i \in Imports |-> "nothing"]

Begins(i) ==
    /\ outcome[i] = "none"
    /\ outcome' = [outcome EXCEPT ![i] = "running"]
    /\ charge' = [charge EXCEPT ![i] = "hold"]

Lands(i) ==
    /\ outcome[i] = "running" /\ charge[i] = "hold"
    /\ outcome' = [outcome EXCEPT ![i] = "landed"]
    /\ charge' = [charge EXCEPT ![i] = "video"]

Fails(i) ==
    /\ outcome[i] = "running" /\ charge[i] = "hold"
    /\ outcome' = [outcome EXCEPT ![i] = "failed"]
    /\ charge' = [charge EXCEPT ![i] = "nothing"]

PromiseNext == \E i \in Imports : Begins(i) \/ Lands(i) \/ Fails(i)

PromiseSpec == PromiseInit /\ [][PromiseNext]_promised
===============================================================================
