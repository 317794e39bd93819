------------------------- MODULE SchedulerRefinement -------------------------
(***************************************************************************)
(* The linked lists of Scheduler implement the stacks of RunQueues: the    *)
(* stack of a level is the chain that starts at its head, and the sleepers *)
(* are the tasks linked to sleep_queue.                                    *)
(***************************************************************************)
EXTENDS Scheduler

\* The tasks met by following next from h, in order; cut off after as many
\* steps as there are tasks, so that a cycle shows as a repetition.
Chain(h) ==
  LET follow[n \in 0 .. Cardinality(Tasks), t \in Pointer] ==
        IF n = 0 \/ t = NULL THEN <<>>
        ELSE <<t>> \o follow[n - 1, lists.next[t]]
  IN follow[Cardinality(Tasks), h]

Abstract == INSTANCE RunQueues WITH
  stack   <- [p \in Levels |-> Chain(lists.runnable_queue[p])],
  asleep  <- Linked(lists.sleep_queue),
  state   <- lists.state,
  running <- current_task

\* Every operation of scheduler.c, and every iteration of the timer handler's
\* walk, is one operation on stacks: no task is ever queued twice, dropped from
\* a queue, moved to another level or left on the sleep queue when woken.
ImplementsRunQueues == Abstract!AbsSpec
=============================================================================
