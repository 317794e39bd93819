------------------------------- MODULE MCSync -------------------------------
(* Instances of Sync for TLC: clients of one level above the idle task.    *)
EXTENDS Sync

CONSTANTS idle, a, b, c

MCPriority == [t \in Tasks |-> IF t = idle THEN 0 ELSE 1]
=============================================================================
