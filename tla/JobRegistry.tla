----------------------------- MODULE JobRegistry -----------------------------
(***************************************************************************)
(* What a client of background jobs is promised: a job that was accepted   *)
(* is open, gets one result, once, and is never open again.  The registry  *)
(* may forget jobs at any time, and a job it forgot while it was open      *)
(* comes back with its result.                                             *)
(***************************************************************************)
CONSTANT Jobs

VARIABLES
    status,  \* what a look-up shows: "unknown" before the job is accepted
    result   \* the job's result for good, "none" while it has none

Results == {"completed", "failed"}

Init ==
    /\ status = [j \in Jobs |-> "unknown"]
    /\ result = [j \in Jobs |-> "none"]

Accept(j) ==
    /\ status[j] = "unknown"
    /\ status' = [status EXCEPT ![j] = "open"]
    /\ UNCHANGED result

Settle(j, outcome) ==
    /\ status[j] \in {"open", "forgotten"} /\ result[j] = "none"
    /\ status' = [status EXCEPT ![j] = outcome]
    /\ result' = [result EXCEPT ![j] = outcome]

Forget(set) ==
    /\ \A j \in set : status[j] # "unknown"
    /\ status' = [j \in Jobs |-> IF j \in set THEN "forgotten" ELSE status[j]]
    /\ UNCHANGED result

Next ==
    \/ \E j \in Jobs : Accept(j) \/ \E outcome \in Results : Settle(j, outcome)
    \/ \E set \in SUBSET Jobs : Forget(set)

Spec == Init /\ [][Next]_<<status, result>>
=============================================================================
