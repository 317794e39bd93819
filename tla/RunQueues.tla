------------------------------ MODULE RunQueues ------------------------------
(***************************************************************************)
(* What the scheduler promises, without its linked lists: every priority   *)
(* level is a stack of tasks, a set of tasks sleeps until the timer takes  *)
(* them out, and one task has the CPU.  Module SchedulerRefinement shows   *)
(* that Scheduler implements this specification.                           *)
(***************************************************************************)
EXTENDS Integers, Sequences

CONSTANTS Tasks, NULL, IdleTask, Priority, PRIORITY_MAX

VARIABLES
  stack,    \* the queued tasks of each level, the last pushed first
  asleep,   \* the tasks the timer will wake
  state,    \* the state of each task
  running   \* the task that has the CPU

absvars == <<stack, asleep, state, running>>

Levels == 0 .. PRIORITY_MAX
LevelOf(t) == IF Priority[t] > PRIORITY_MAX THEN PRIORITY_MAX ELSE Priority[t]

Push(s, t) == [s EXCEPT ![LevelOf(t)] = <<t>> \o @]

AbsInit ==
  /\ stack = [p \in Levels |-> <<>>]
  /\ asleep = {}
  /\ state = [t \in Tasks |-> IF t = IdleTask THEN "RUNNABLE" ELSE "STOPPED"]
  /\ running = NULL

\* A task that is neither queued, running nor dead becomes runnable: it is
\* queued exactly once and sleeps no more.
MakeRunnable(t) ==
  /\ state[t] \in {"STOPPED", "SLEEPING", "BLOCKED"}
  /\ stack' = Push(stack, t)
  /\ state' = [state EXCEPT ![t] = "RUNNABLE"]
  /\ asleep' = asleep \ {t}
  /\ UNCHANGED running

\* The CPU goes from the running task, whose state has become s, to n, and the
\* stacks left are rest; a task that could go on running is queued again.
Switch(s, n, rest) ==
  LET became == IF s = "RUNNING" THEN "RUNNABLE" ELSE s IN
  /\ running' = n
  /\ state' = [t \in Tasks |-> IF t = n THEN "RUNNING"
                               ELSE IF t = running THEN became ELSE state[t]]
  /\ stack' = IF running # NULL /\ s = "RUNNING" THEN Push(rest, running) ELSE rest

\* The top of the highest nonempty stack gets the CPU.
Dispatch(s) ==
  \E p \in Levels :
    /\ stack[p] # <<>>
    /\ \A q \in Levels : q > p => stack[q] = <<>>
    /\ Switch(s, Head(stack[p]), [stack EXCEPT ![p] = Tail(@)])

\* Nothing is queued: the idle task gets the CPU.
Idle(s) ==
  /\ \A p \in Levels : stack[p] = <<>>
  /\ running # IdleTask
  /\ Switch(s, IdleTask, stack)

\* The running task gives up the CPU or loses it; only a task that is running
\* can stop itself, and it may ask the timer to wake it.
Reschedule(s, timed) ==
  /\ s # "RUNNING" => running \notin {NULL, IdleTask}
  /\ Dispatch(s) \/ Idle(s)
  /\ asleep' = IF timed THEN asleep \union {running} ELSE asleep

AbsNext ==
  \/ \E t \in Tasks : MakeRunnable(t)
  \/ \E s \in {"RUNNING", "BLOCKED", "SLEEPING", "EXITED"} : Reschedule(s, FALSE)
  \/ Reschedule("SLEEPING", TRUE)

AbsSpec == AbsInit /\ [][AbsNext]_absvars
=============================================================================
