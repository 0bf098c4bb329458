-------------------------- MODULE MCRunExecution --------------------------
(* Plans for the small instances of RunExecution.                          *)
EXTENDS RunExecution

\* A chain: the longest way through the task loop, one task per layer.
Chain == [t \in Tasks |-> {u \in Tasks : u < t}]

\* The planner leaves the tasks at their default.
Pending == [t \in Tasks |-> "PENDING"]

\* One layer of independent tasks.
Flat == [t \in Tasks |-> {}]
=============================================================================
