--------------------------- MODULE MCScheduledTasks ---------------------------
(* An instance of ScheduledTasks for TLC. *)
EXTENDS ScheduledTasks

CONSTANTS once, last

\* A task that runs once, and one that recurs and may run twice.
Runs == [t \in Tasks |-> IF t = last THEN 2 ELSE 0]
=============================================================================
