-------------------------------- MODULE Sync --------------------------------
(***************************************************************************)
(* The mutexes and semaphores of kernel/sync/sync.c, used by tasks that    *)
(* the scheduler switches between.  One mutex and one semaphore stand for  *)
(* the kernel's (heap_lock, the sockets' locks and wakeups, the WiFi       *)
(* driver's).  A client task nests mutex_lock up to MaxDepth times, calls  *)
(* mutex_unlock whenever it likes, and takes and returns the semaphore's   *)
(* units.                                                                  *)
(*                                                                         *)
(* A stretch of code between write_psr(psr | 0xF) and write_psr(psr) is    *)
(* one step, because no interrupt is taken in it.  Everything else is one  *)
(* step per shared-memory access, and an interrupt may come between two of *)
(* them: the timer's, which switches tasks, and a device's, whose handler  *)
(* calls semaphore_signal as wifi_isr does.  schedule() itself is one step *)
(* here.                                                                   *)
(***************************************************************************)
EXTENDS Scheduler

CONSTANTS
  LockClients, \* the tasks that use the mutex
  WaitClients, \* the tasks that use the semaphore
  Units,       \* the semaphore's initial count
  MaxDepth,    \* bound on nested mutex_lock calls of one client
  IsrInWindow, \* whether a device may interrupt semaphore_wait just before
               \* its schedule(), as nothing in the code prevents
  MaxIsrSignals \* bound on the signals of that device

Clients == LockClients \union WaitClients

ASSUME SyncAssumption ==
  /\ Clients \subseteq Tasks \ {IdleTask} /\ IsFiniteSet(Tasks)
  /\ Units \in Nat /\ MaxDepth \in Nat \ {0} /\ MaxIsrSignals \in Nat
  /\ IsrInWindow \in BOOLEAN

VARIABLES
  mutex,    \* struct mutex
  sem,      \* struct semaphore; the waiters are linked through lists.next
  pc,       \* where each client is
  depth,    \* how often each client has locked the mutex
  holds,    \* the clients whose semaphore_wait has taken, or waits for, a unit
  signalled \* history: the signals of the device

syncvars == <<mutex, sem, pc, depth, holds, signalled>>
allvars == <<vars, syncvars>>

SyncInit ==
  /\ Init
  /\ mutex = [locked |-> 0, owner |-> NULL, count |-> 0]
  /\ sem = [count |-> Units, waiters |-> NULL]
  /\ pc = [t \in Clients |-> "ready"]
  /\ depth = [t \in Clients |-> 0]
  /\ holds = {}
  /\ signalled = 0

\* Client t executes: it has the CPU and no interrupt handler runs.
At(t, label) == ~in_tick /\ current_task = t /\ pc[t] = label

Goto(t, label) == pc' = [pc EXCEPT ![t] = label]

-----------------------------------------------------------------------------
(* mutex_lock and mutex_unlock.                                            *)

\* Mutant: the count of nested locks is not started.
Take_NoCount(t) ==
  /\ mutex' = [mutex EXCEPT !.locked = 1, !.owner = t]
  /\ depth' = [depth EXCEPT ![t] = @ + 1]
  /\ Goto(t, "ready")

Take(t) ==
  /\ mutex' = [locked |-> 1, owner |-> t, count |-> 1]
  /\ depth' = [depth EXCEPT ![t] = @ + 1]
  /\ Goto(t, "ready")

\* The test-and-set, with interrupts masked: success, or on to task_yield.
TestAndSet(t) ==
  \/ mutex.locked = 0 /\ Take(t)
  \/ mutex.locked = 1 /\ Goto(t, "yield") /\ UNCHANGED <<mutex, depth>>

mutex_lock(t) ==
  /\ At(t, "ready")
  /\ t \in LockClients
  /\ depth[t] < MaxDepth
  /\ \/ /\ mutex.locked = 1 /\ mutex.owner = t
        /\ mutex' = [mutex EXCEPT !.count = @ + 1]
        /\ depth' = [depth EXCEPT ![t] = @ + 1]
        /\ UNCHANGED pc
     \/ /\ ~(mutex.locked = 1 /\ mutex.owner = t)
        /\ TestAndSet(t)
  /\ UNCHANGED <<vars, sem, holds, signalled>>

\* The loop body's task_yield; the client comes back to the test-and-set.
LockYield(t) ==
  /\ At(t, "yield")
  /\ Goto(t, "retry")
  /\ schedule(lists)
  /\ UNCHANGED <<tick_count, wake_time, in_tick, scan, mutex, sem, depth, holds, signalled>>

LockRetry(t) ==
  /\ At(t, "retry")
  /\ TestAndSet(t)
  /\ UNCHANGED <<vars, sem, holds, signalled>>

\* mutex_unlock runs with interrupts enabled: the owner's count first, then
\* the owner, then the lock word.  Others than the owner change nothing.
mutex_unlock(t) ==
  /\ At(t, "ready")
  /\ mutex.owner = t
  /\ mutex' = [mutex EXCEPT !.count = @ - 1]
  /\ depth' = [depth EXCEPT ![t] = @ - 1]
  /\ Goto(t, IF mutex.count > 1 THEN "ready" ELSE "disown")
  /\ UNCHANGED <<vars, sem, holds, signalled>>

\* Mutant: the lock word is cleared first.
UnlockDisown_Early(t) ==
  /\ At(t, "disown")
  /\ mutex' = [mutex EXCEPT !.locked = 0]
  /\ Goto(t, "release")
  /\ UNCHANGED <<vars, sem, depth, holds, signalled>>

UnlockDisown(t) ==
  /\ At(t, "disown")
  /\ mutex' = [mutex EXCEPT !.owner = NULL]
  /\ Goto(t, "release")
  /\ UNCHANGED <<vars, sem, depth, holds, signalled>>

UnlockRelease(t) ==
  /\ At(t, "release")
  /\ mutex' = [mutex EXCEPT !.locked = 0]
  /\ Goto(t, "ready")
  /\ UNCHANGED <<vars, sem, depth, holds, signalled>>

-----------------------------------------------------------------------------
(* semaphore_wait and semaphore_signal.                                    *)

\* Mutant: the count is not tested.
semaphore_wait_NoTest(t) ==
  /\ At(t, "ready")
  /\ t \in WaitClients \ holds
  /\ holds' = holds \union {t}
  /\ sem' = [sem EXCEPT !.count = @ - 1]
  /\ UNCHANGED <<vars, pc, mutex, depth, signalled>>

\* With interrupts masked: take a unit, or link the task to the waiters and
\* mark it BLOCKED.
semaphore_wait(t) ==
  /\ At(t, "ready")
  /\ t \in WaitClients \ holds
  /\ holds' = holds \union {t}
  /\ \/ /\ sem.count > 0
        /\ sem' = [sem EXCEPT !.count = @ - 1]
        /\ UNCHANGED <<lists, pc>>
     \/ /\ sem.count = 0
        /\ sem' = [sem EXCEPT !.waiters = t]
        /\ lists' = [SetState(lists, t, "BLOCKED") EXCEPT !.next[t] = sem.waiters]
        /\ Goto(t, "block")
  /\ UNCHANGED <<current_task, tick_count, wake_time, in_tick, scan, mutex, depth,
                 signalled>>

\* Mutant: the call of schedule() is missing.
WaitSchedule_Returns(t) ==
  /\ At(t, "block")
  /\ Goto(t, "ready")
  /\ UNCHANGED <<vars, mutex, sem, depth, holds, signalled>>

\* The schedule() that follows, with interrupts enabled again; when it returns
\* to the caller, semaphore_wait returns.
WaitSchedule(t) ==
  /\ At(t, "block")
  /\ Goto(t, "ready")
  /\ schedule(lists)
  /\ UNCHANGED <<tick_count, wake_time, in_tick, scan, mutex, sem, depth, holds, signalled>>

\* Mutant: a unit handed to a waiter is counted as well.
semaphore_signal_CountsToo ==
  /\ sem' = [count |-> sem.count + 1,
             waiters |-> IF sem.waiters = NULL THEN NULL ELSE lists.next[sem.waiters]]
  /\ lists' = IF sem.waiters = NULL THEN lists ELSE task_wake(lists, sem.waiters)

\* Hand the unit to the waiter linked last, or count it.
semaphore_signal ==
  \/ /\ sem.waiters # NULL
     /\ sem' = [sem EXCEPT !.waiters = lists.next[sem.waiters]]
     /\ lists' = task_wake(lists, sem.waiters)
  \/ /\ sem.waiters = NULL
     /\ sem' = [sem EXCEPT !.count = @ + 1]
     /\ UNCHANGED lists

\* A client returns the unit it has taken.
SignalByTask(t) ==
  /\ At(t, "ready")
  /\ t \in holds
  /\ semaphore_signal
  /\ holds' = holds \ {t}
  /\ UNCHANGED <<current_task, tick_count, wake_time, in_tick, scan,
                 mutex, pc, depth, signalled>>

\* A device's interrupt handler signals (wifi_isr); it does not schedule.
SignalByIsr ==
  /\ ~in_tick
  /\ signalled < MaxIsrSignals
  /\ IsrInWindow \/ \A t \in Clients : ~At(t, "block")
  /\ semaphore_signal
  /\ signalled' = signalled + 1
  /\ UNCHANGED <<current_task, tick_count, wake_time, in_tick, scan,
                 mutex, pc, depth, holds>>

-----------------------------------------------------------------------------

\* kernel_main starts the clients and calls schedule().
Launch ==
  /\ current_task = NULL
  /\ Yield \/ \E t \in Clients : Start(t)
  /\ UNCHANGED syncvars

\* The timer interrupt; nobody sleeps, so its walk is empty.
Timer ==
  /\ TimerInterrupt \/ TimerReturn
  /\ UNCHANGED syncvars

ClientStep(t) ==
  \/ mutex_lock(t) \/ LockYield(t) \/ LockRetry(t)
  \/ mutex_unlock(t) \/ UnlockDisown(t) \/ UnlockRelease(t)
  \/ semaphore_wait(t) \/ WaitSchedule(t) \/ SignalByTask(t)

SyncNext ==
  \/ Launch \/ Timer \/ SignalByIsr
  \/ \E t \in Clients : ClientStep(t)

SyncSpec == SyncInit /\ [][SyncNext]_allvars

-----------------------------------------------------------------------------
(* Properties.                                                             *)

\* Types of the two objects and of the clients' program counters.
SyncTypeOK ==
  /\ TypeOK
  /\ mutex \in [locked : {0, 1}, owner : Pointer, count : 0 .. MaxDepth]
  /\ sem.count \in 0 .. Units + MaxIsrSignals /\ sem.waiters \in Pointer
  /\ pc \in [Clients -> {"ready", "yield", "retry", "disown", "release", "block"}]
  /\ depth \in [Clients -> 0 .. MaxDepth]
  /\ holds \subseteq Clients

\* The clients between the return of an outermost mutex_lock and the release of
\* the lock word.
Inside == {t \in Clients : depth[t] > 0 \/ pc[t] \in {"disown", "release"}}

\* At most one task is inside the mutex, although mutex_unlock gives the lock up
\* in three steps with interrupts enabled.
MutualExclusion == \A t, u \in Inside : t = u

\* The mutex's three fields agree with the client inside: nested locks are
\* counted, the owner is recorded until the last unlock, and the lock word is
\* clear exactly when nobody is inside.
MutexMatchesOwner ==
  /\ mutex.locked = 0 <=> Inside = {}
  /\ \A t \in Inside : /\ mutex.count = depth[t]
                       /\ mutex.owner = IF pc[t] = "release" THEN NULL ELSE t
  /\ Inside = {} => mutex.owner = NULL

\* The clients linked to the semaphore.
Waiters == Linked(sem.waiters)

\* Units are neither lost nor invented: those counted and those held by clients
\* that do not wait add up to the initial count and the device's signals, and
\* none is left in the count while a task waits for one.
UnitsConserved ==
  /\ sem.count + Cardinality(holds \ Waiters) = Units + signalled
  /\ sem.waiters # NULL => sem.count = 0

\* semaphore_wait returns only to a task that was given a unit: a client that
\* executes client code is not linked to the waiters.
WaitReturnsWithUnit ==
  \A t \in Clients : current_task = t /\ pc[t] = "ready" => t \notin Waiters

\* A runnable task is in a run queue or has the CPU.
NoTaskLost ==
  \A t \in Clients :
    lists.state[t] = "RUNNABLE" /\ t # current_task =>
      \E p \in Levels : t \in Linked(lists.runnable_queue[p])
=============================================================================
