------------------------------ MODULE Scheduler ------------------------------
(***************************************************************************)
(* The kernel's scheduler: kernel/scheduler/scheduler.c, with the callers  *)
(* that change a task's state and then call schedule() (the timer          *)
(* interrupt in arch/xtensa/traps/traps.c, syscall_exit, syscall_waitpid   *)
(* and syscall_sleep in kernel/syscall/syscall.c, semaphore_wait in        *)
(* kernel/sync/sync.c).                                                    *)
(*                                                                         *)
(* The run queues and the sleep queue are the code's own doubly linked     *)
(* lists: one head per priority level, one head for the sleepers, and the  *)
(* next and prev fields of struct task, which the run queues, the sleep    *)
(* queue and the waiter lists of the semaphores share.  The five of them   *)
(* (with the state field) are one record, so that the functions of         *)
(* scheduler.c are operators from such a record to such a record and a     *)
(* handler that calls several of them composes them in the code's order.   *)
(*                                                                         *)
(* Every operation below is one step: a system call runs with EXCM set and *)
(* the timer interrupt cannot nest.  The timer handler's walk of the sleep *)
(* queue takes one step per iteration of its loop, during which nothing    *)
(* else runs.  The windows of code that runs with interrupts enabled are   *)
(* in module Sync.                                                         *)
(***************************************************************************)
EXTENDS Integers, Sequences, FiniteSets

CONSTANTS
  Tasks,        \* the tasks the kernel has created, the idle task included
  NULL,         \* the null pointer
  IdleTask,     \* cpu_states[0].idle_task
  Priority,     \* the priority field of each task
  PRIORITY_MAX, \* the highest level, 31 in kernel.h
  TickMod,      \* tick_count wraps here, 2^32 in the code
  SleepTicks    \* the arguments task_sleep and syscall_sleep are called with

ASSUME SchedulerAssumption ==
  /\ NULL \notin Tasks
  /\ IdleTask \in Tasks
  /\ Priority \in [Tasks -> Nat]
  /\ Priority[IdleTask] = 0                \* PRIORITY_MIN
  /\ PRIORITY_MAX \in Nat
  /\ TickMod \in Nat \ {0}
  /\ SleepTicks \subseteq Nat

VARIABLES
  lists,        \* the queues and the fields of struct task they use
  current_task, \* cpu_states[0].current_task
  tick_count,   \* cpu_states[0].tick_count
  wake_time,    \* the wake_time field of each task
  in_tick,      \* the timer interrupt handler is running
  scan          \* its cursor in the sleep queue

vars == <<lists, current_task, tick_count, wake_time, in_tick, scan>>

Pointer == Tasks \union {NULL}
Levels == 0 .. PRIORITY_MAX
TaskState == {"RUNNABLE", "RUNNING", "SLEEPING", "BLOCKED", "STOPPED", "EXITED"}

Lists == [runnable_queue : [Levels -> Pointer], sleep_queue : Pointer,
          next : [Tasks -> Pointer], prev : [Tasks -> Pointer],
          state : [Tasks -> TaskState]]

-----------------------------------------------------------------------------
(* The functions of scheduler.c, from lists to lists.                      *)

\* The level a task queues at: its priority, clamped.
Level(t) == IF Priority[t] > PRIORITY_MAX THEN PRIORITY_MAX ELSE Priority[t]

\* The state field set by an operation before it calls schedule().
SetState(l, t, s) == [l EXCEPT !.state[t] = s]

\* Push at the head of the level's list, whatever the task was linked to.
task_enqueue(l, t) ==
  LET head == l.runnable_queue[Level(t)] IN
  [runnable_queue |-> [l.runnable_queue EXCEPT ![Level(t)] = t],
   sleep_queue |-> l.sleep_queue,
   next |-> [l.next EXCEPT ![t] = head],
   prev |-> [u \in Tasks |->
               IF u = head THEN t ELSE IF u = t THEN NULL ELSE l.prev[u]],
   state |-> [l.state EXCEPT ![t] = "RUNNABLE"]]

\* Mutant: the successor keeps its link to the task taken out.
task_dequeue_OneWay(l, t) ==
  [l EXCEPT
     !.runnable_queue = IF l.prev[t] = NULL THEN [@ EXCEPT ![Level(t)] = l.next[t]]
                                            ELSE @,
     !.next = [u \in Tasks |->
                 IF u = t THEN NULL ELSE IF u = l.prev[t] THEN l.next[t] ELSE @[u]],
     !.prev[t] = NULL]

\* Mutant: taking the head out empties the queue.
task_dequeue_DropsRest(l, t) ==
  [l EXCEPT !.runnable_queue[Level(t)] = NULL, !.next[t] = NULL, !.prev[t] = NULL]

\* Unlink from the run queue.
task_dequeue(l, t) ==
  [l EXCEPT
     !.runnable_queue = IF l.prev[t] = NULL THEN [@ EXCEPT ![Level(t)] = l.next[t]]
                                            ELSE @,
     !.next = [u \in Tasks |->
                 IF u = t THEN NULL ELSE IF u = l.prev[t] THEN l.next[t] ELSE @[u]],
     !.prev = [u \in Tasks |->
                 IF u = t THEN NULL ELSE IF u = l.next[t] THEN l.prev[t] ELSE @[u]]]

\* Mutant: the head of the sleep queue is not moved on.
SleepUnlink_KeepsHead(l, t) ==
  [l EXCEPT
     !.next = [u \in Tasks |-> IF u = l.prev[t] THEN l.next[t] ELSE @[u]],
     !.prev = [u \in Tasks |-> IF u = l.next[t] THEN l.prev[t] ELSE @[u]]]

\* The three lines that take a task off the sleep queue; its own links stay.
SleepUnlink(l, t) ==
  [l EXCEPT
     !.sleep_queue = IF @ = t THEN l.next[t] ELSE @,
     !.next = [u \in Tasks |-> IF u = l.prev[t] THEN l.next[t] ELSE @[u]],
     !.prev = [u \in Tasks |-> IF u = l.next[t] THEN l.prev[t] ELSE @[u]]]

\* Push on the sleep queue; the task's own prev field is not written.
SleepPush(l, t) ==
  [l EXCEPT
     !.sleep_queue = t,
     !.next[t] = l.sleep_queue,
     !.prev = [u \in Tasks |-> IF u = l.sleep_queue THEN t ELSE @[u]]]

\* Mutant: any task is made runnable, whatever its state.
task_wake_Any(l, t) ==
  IF l.state[t] = "SLEEPING" THEN task_enqueue(SleepUnlink(l, t), t)
                             ELSE task_enqueue(l, t)

\* Mutant: a blocked task is marked runnable but not queued.
task_wake_NotQueued(l, t) ==
  CASE l.state[t] = "SLEEPING" -> task_enqueue(SleepUnlink(l, t), t)
    [] l.state[t] = "BLOCKED"  -> SetState(l, t, "RUNNABLE")
    [] OTHER                   -> l

\* Only a sleeping or a blocked task is made runnable.
task_wake(l, t) ==
  CASE l.state[t] = "SLEEPING" -> task_enqueue(SleepUnlink(l, t), t)
    [] l.state[t] = "BLOCKED"  -> task_enqueue(l, t)
    [] OTHER                   -> l

\* Mutant: a sleeper is woken one tick late.
WakeIfDue_Late(l, t) ==
  IF tick_count > wake_time[t]
    THEN LET u == SleepUnlink(l, t) IN
         task_enqueue([u EXCEPT !.next[t] = NULL, !.prev[t] = NULL], t)
    ELSE l

\* One iteration of scheduler_tick's loop.
WakeIfDue(l, t) ==
  IF tick_count >= wake_time[t]
    THEN LET u == SleepUnlink(l, t) IN
         task_enqueue([u EXCEPT !.next[t] = NULL, !.prev[t] = NULL], t)
    ELSE l

\* Mutant: the levels are searched from the lowest up.
IsTop_Lowest(l, p) ==
  /\ l.runnable_queue[p] # NULL
  /\ \A q \in Levels : q < p => l.runnable_queue[q] = NULL

\* The highest level with a queued task is the one scheduler_pick_next serves.
IsTop(l, p) ==
  /\ l.runnable_queue[p] # NULL
  /\ \A q \in Levels : q > p => l.runnable_queue[q] = NULL

\* Mutant: the preempted task is not put back.
SwitchTo_NoPutBack(l, n) ==
  /\ current_task' = n
  /\ lists' = IF n = current_task THEN l ELSE SetState(l, n, "RUNNING")

\* The second half of schedule(): make n the current task.  The preempted task
\* goes back to its queue only if its state still says it was running.
SwitchTo(l, n) ==
  \/ /\ n = current_task
     /\ lists' = l
     /\ UNCHANGED current_task
  \/ /\ n # current_task
     /\ current_task' = n
     /\ lists' = LET r == SetState(l, n, "RUNNING") IN
                 IF current_task # NULL /\ r.state[current_task] = "RUNNING"
                   THEN task_enqueue(r, current_task)
                   ELSE r

\* schedule(): the next task is taken out of the queues before the current one
\* is put back; with every queue empty it is the idle task.
schedule(l) ==
  \/ \E p \in Levels :
       /\ IsTop(l, p)
       /\ LET n == l.runnable_queue[p] IN SwitchTo(task_dequeue(l, n), n)
  \/ /\ \A p \in Levels : l.runnable_queue[p] = NULL
     /\ SwitchTo(l, IdleTask)

-----------------------------------------------------------------------------
(* The operations.                                                         *)

\* scheduler_init, after task_create and task_create_idle made the tasks: the
\* idle task is RUNNABLE and in no queue, the others are STOPPED.
Init ==
  /\ lists = [runnable_queue |-> [p \in Levels |-> NULL], sleep_queue |-> NULL,
              next |-> [t \in Tasks |-> NULL], prev |-> [t \in Tasks |-> NULL],
              state |-> [t \in Tasks |->
                           IF t = IdleTask THEN "RUNNABLE" ELSE "STOPPED"]]
  /\ current_task = NULL
  /\ tick_count = 0
  /\ wake_time = [t \in Tasks |-> 0]
  /\ in_tick = FALSE
  /\ scan = NULL

\* A task other than the idle loop, or kernel_main before there is one, has the
\* CPU and is not interrupted.
InKernel == ~in_tick /\ current_task # IdleTask

\* A task that calls the kernel to stop running.
Running == InKernel /\ current_task # NULL

\* A created task enters the run queues.
Start(t) ==
  /\ InKernel
  /\ lists.state[t] = "STOPPED"
  /\ lists' = task_enqueue(lists, t)
  /\ UNCHANGED <<current_task, tick_count, wake_time, in_tick, scan>>

\* task_yield, and kernel_main's first schedule().
Yield ==
  /\ InKernel
  /\ schedule(lists)
  /\ UNCHANGED <<tick_count, wake_time, in_tick, scan>>

\* task_sleep(n).
Sleep(n) ==
  /\ Running
  /\ wake_time' = [wake_time EXCEPT ![current_task] = (tick_count + n) % TickMod]
  /\ schedule(SleepPush(SetState(lists, current_task, "SLEEPING"), current_task))
  /\ UNCHANGED <<tick_count, in_tick, scan>>

\* syscall_sleep: the same, but the task is not put on the sleep queue.
SyscallSleep(n) ==
  /\ Running
  /\ wake_time' = [wake_time EXCEPT ![current_task] = (tick_count + n) % TickMod]
  /\ schedule(SetState(lists, current_task, "SLEEPING"))
  /\ UNCHANGED <<tick_count, in_tick, scan>>

\* semaphore_wait and syscall_waitpid: BLOCKED, then schedule().  The first
\* has also used the next field as the link of its waiter list.
Block(link) ==
  /\ Running
  /\ schedule([SetState(lists, current_task, "BLOCKED")
                 EXCEPT !.next[current_task] = link])
  /\ UNCHANGED <<tick_count, wake_time, in_tick, scan>>

\* syscall_exit.
Exit ==
  /\ Running
  /\ schedule(SetState(lists, current_task, "EXITED"))
  /\ UNCHANGED <<tick_count, wake_time, in_tick, scan>>

\* task_wake(t), called by a task or by a device's interrupt handler.
Wake(t) ==
  /\ ~in_tick
  /\ lists' = task_wake(lists, t)
  /\ UNCHANGED <<current_task, tick_count, wake_time, in_tick, scan>>

\* Mutant: the tick counter is wider than its type.
TimerInterrupt_NoWrap ==
  /\ ~in_tick
  /\ in_tick' = TRUE
  /\ tick_count' = tick_count + 1
  /\ scan' = lists.sleep_queue
  /\ UNCHANGED <<lists, current_task, wake_time>>

\* The timer interrupt: count the tick and start the walk of the sleep queue.
TimerInterrupt ==
  /\ ~in_tick
  /\ in_tick' = TRUE
  /\ tick_count' = (tick_count + 1) % TickMod
  /\ scan' = lists.sleep_queue
  /\ UNCHANGED <<lists, current_task, wake_time>>

\* Mutant: the successor is read after the sleeper has been queued to run.
WalkSleeper_LateNext ==
  /\ in_tick
  /\ scan # NULL
  /\ lists' = WakeIfDue(lists, scan)
  /\ scan' = lists'.next[scan]
  /\ UNCHANGED <<current_task, tick_count, wake_time, in_tick>>

\* One sleeper; the successor is read before the sleeper is unlinked.
WalkSleeper ==
  /\ in_tick
  /\ scan # NULL
  /\ scan' = lists.next[scan]
  /\ lists' = WakeIfDue(lists, scan)
  /\ UNCHANGED <<current_task, tick_count, wake_time, in_tick>>

\* The end of the handler: schedule() on behalf of the interrupted task.
TimerReturn ==
  /\ in_tick
  /\ scan = NULL
  /\ in_tick' = FALSE
  /\ schedule(lists)
  /\ UNCHANGED <<tick_count, wake_time, scan>>

Next ==
  \/ \E t \in Tasks : Start(t) \/ Wake(t)
  \/ \E n \in SleepTicks : Sleep(n) \/ SyscallSleep(n)
  \/ \E link \in Pointer : Block(link)
  \/ Yield \/ Exit
  \/ TimerInterrupt \/ WalkSleeper \/ TimerReturn

Spec == Init /\ [][Next]_vars

\* The timer keeps interrupting and its handler always returns.
TimerFairness ==
  WF_vars(TimerInterrupt) /\ WF_vars(WalkSleeper) /\ WF_vars(TimerReturn)

FairSpec == Spec /\ TimerFairness

-----------------------------------------------------------------------------
(* Properties.                                                             *)

\* The tasks met by following next from h: the least set that has h, if it
\* points at a task, and the successors of its members.
Reach(next, h) ==
  {t \in Tasks : \A S \in SUBSET Tasks :
     h \in S \union {NULL} /\ (\A u \in S : next[u] \in S \union {NULL}) => t \in S}

Linked(h) == Reach(lists.next, h)

\* Every variable keeps its type: pointers point at tasks, the tick counter
\* stays within its width.
TypeOK ==
  /\ lists \in Lists
  /\ current_task \in Pointer
  /\ tick_count \in 0 .. TickMod - 1
  /\ wake_time \in [Tasks -> 0 .. TickMod - 1]
  /\ in_tick \in BOOLEAN
  /\ scan \in Pointer

\* Two tasks that may stand next to each other in one queue.
SameQueue(l, t, u) ==
  /\ l.state[t] = l.state[u]
  /\ l.state[t] = "RUNNABLE" => Level(t) = Level(u)

\* A head points at a task of its queue with no predecessor.
HeadsOK(l) ==
  /\ \A p \in Levels : LET h == l.runnable_queue[p] IN
       h # NULL => l.state[h] = "RUNNABLE" /\ Level(h) = p /\ l.prev[h] = NULL
  /\ l.sleep_queue # NULL =>
       l.state[l.sleep_queue] = "SLEEPING" /\ l.prev[l.sleep_queue] = NULL

\* The links of a queued task are inverse to each other and stay in one queue.
LinksOK(l) ==
  \A t \in Tasks :
    l.state[t] \in {"RUNNABLE", "SLEEPING"} =>
      /\ l.next[t] # NULL => l.prev[l.next[t]] = t /\ SameQueue(l, t, l.next[t])
      /\ l.prev[t] # NULL => l.next[l.prev[t]] = t /\ SameQueue(l, t, l.prev[t])

\* A task that is in no queue has no predecessor, so that waking, starting or
\* preempting it never writes through a stale link; the running task has no
\* successor either.
UnlinkedOK(l) ==
  \A t \in Tasks :
    /\ l.state[t] \notin {"RUNNABLE", "SLEEPING"} => l.prev[t] = NULL
    /\ l.state[t] = "RUNNING" => l.next[t] = NULL

\* A queued task without predecessor is the head of its queue.  The exceptions
\* are unlinked on both sides: the idle task before it first runs, and a task
\* put to sleep by syscall_sleep.
FirstIsHead(l) ==
  \A t \in Tasks :
    l.prev[t] = NULL =>
      /\ l.state[t] = "RUNNABLE" =>
           \/ l.runnable_queue[Level(t)] = t
           \/ t = IdleTask /\ l.next[t] = NULL
      /\ l.state[t] = "SLEEPING" => l.sleep_queue = t \/ l.next[t] = NULL

\* The shape of the queues after any sequence of operations: every operation of
\* scheduler.c leaves well formed lists although they all share one pair of
\* link fields and none of them checks where a task is linked.
QueuesWellFormed ==
  HeadsOK(lists) /\ LinksOK(lists) /\ UnlinkedOK(lists) /\ FirstIsHead(lists)

\* Whoever has the CPU is the only RUNNING task, so that schedule() puts back
\* exactly the task it preempts.
CurrentIsRunning ==
  \A t \in Tasks : lists.state[t] = "RUNNING" <=> t = current_task

\* No runnable task is hidden from scheduler_pick_next: a level whose head is
\* NULL has no runnable task (the idle task before its first run excepted).
NoRunnableHidden ==
  \A t \in Tasks \ {IdleTask} :
    lists.state[t] = "RUNNABLE" => lists.runnable_queue[Level(t)] # NULL

\* When the timer handler has walked the sleep queue no sleeper on it is still
\* due, however many of its neighbours were unlinked during the walk.
NoOverdueSleeper ==
  in_tick /\ scan = NULL =>
    \A t \in Linked(lists.sleep_queue) : tick_count < wake_time[t]

\* After a context switch at most the task just preempted outranks the one that
\* runs: schedule() takes the highest queued task, and only the current task is
\* not queued when it does.
OnlyPreemptedOutranks ==
  [][current_task' # current_task =>
       \A t \in Tasks :
         /\ lists'.state[t] = "RUNNABLE"
         /\ Level(t) > Level(current_task')
         => t = current_task]_vars

\* A task that has exited never runs or queues again: no schedule() puts it
\* back and no late task_wake revives it.
ExitIsFinal ==
  [][\A t \in Tasks : lists.state[t] = "EXITED" => lists'.state[t] = "EXITED"]_vars

\* A task that called task_sleep is eventually woken by the timer, also when
\* its wake_time lies beyond the wrap of tick_count.
SleeperWoken ==
  \A t \in Tasks :
    t \in Linked(lists.sleep_queue) ~> lists.state[t] # "SLEEPING"

\* A runnable task that outranks every other one is eventually given the CPU,
\* whatever the others do.
TopPriorityRuns ==
  \A t \in Tasks :
    (\A u \in Tasks \ {t} : Level(u) < Level(t)) =>
      (lists.state[t] = "RUNNABLE" ~> lists.state[t] = "RUNNING")

=============================================================================
