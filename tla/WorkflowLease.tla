----------------------------- MODULE WorkflowLease -----------------------------
(***************************************************************************)
(* What the session's workflow lease promises, without the queue, the      *)
(* executions or the database: workflows take the lease one at a time,     *)
(* each at most once, and a workflow that gave it back is over.            *)
(***************************************************************************)
CONSTANTS Workflows, NoWorkflow

VARIABLES
    holder,     \* the workflow that holds the lease, or NoWorkflow
    status      \* of each workflow: "absent", "open" or "closed"

leaseVars == <<holder, status>>

Init ==
    /\ holder = NoWorkflow
    /\ status = [w \in Workflows |-> "absent"]

Acquire(w) ==
    /\ holder = NoWorkflow
    /\ status[w] = "absent"
    /\ holder' = w
    /\ status' = [status EXCEPT ![w] = "open"]

Release(w) ==
    /\ holder = w
    /\ holder' = NoWorkflow
    /\ status' = [status EXCEPT ![w] = "closed"]

Next == \E w \in Workflows : Acquire(w) \/ Release(w)

Spec == Init /\ [][Next]_leaseVars
=============================================================================
