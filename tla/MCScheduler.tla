----------------------------- MODULE MCScheduler -----------------------------
(* Instances of Scheduler, with its refinement of RunQueues, for TLC.      *)
EXTENDS SchedulerRefinement

CONSTANTS idle, a, b, c

\* Two tasks of one level, one of a higher level whose priority is clamped.
MCPriority == [t \in Tasks |-> IF t = c THEN 5 ELSE IF t = idle THEN 0 ELSE 1]
=============================================================================
