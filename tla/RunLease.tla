------------------------------ MODULE RunLease ------------------------------
(***************************************************************************)
(* What the claims of kanban-service promise, without tokens, clocks or    *)
(* statuses: a task is leased to one run at a time, a run is leased once,  *)
(* and the outcome of a run is recorded in the very step in which its      *)
(* lease ends and never afterwards.                                        *)
(***************************************************************************)
CONSTANTS
    Tasks,
    Runs,
    NULL        \* no run holds the task

VARIABLES
    holder,     \* the run each task is leased to, or NULL
    outcome     \* "unused", "running", or how the run ended

Outcomes == {"succeeded", "failed", "canceled", "expired"}

leaseVars == <<holder, outcome>>

Init ==
    /\ holder = [t \in Tasks |-> NULL]
    /\ outcome = [r \in Runs |-> "unused"]

Acquire(t, r) ==
    /\ holder[t] = NULL
    /\ outcome[r] = "unused"
    /\ holder' = [holder EXCEPT ![t] = r]
    /\ outcome' = [outcome EXCEPT ![r] = "running"]

End(t, result) ==
    /\ holder[t] # NULL
    /\ holder' = [holder EXCEPT ![t] = NULL]
    /\ outcome' = [outcome EXCEPT ![holder[t]] = result]

Next ==
    \E t \in Tasks :
        \/ \E r \in Runs : Acquire(t, r)
        \/ \E result \in Outcomes : End(t, result)

Spec == Init /\ [][Next]_leaseVars
=============================================================================
