----------------------------- MODULE SyncProofs -----------------------------
(***************************************************************************)
(* The mutex of sync.c excludes, for every number of tasks, whatever the   *)
(* scheduler and the interrupts do.  MutualExclusion is not inductive: a   *)
(* step of mutex_lock is safe only because the lock word is set as long as *)
(* somebody is inside, and a step of mutex_unlock only because the owner   *)
(* field names whoever is inside.  MutexMatchesOwner says both.            *)
(*                                                                         *)
(* The semaphore loses and invents no unit, and no task is lost, when no   *)
(* device interrupts semaphore_wait between its masked part and its        *)
(* schedule(); that hypothesis is stated where it is used, and run         *)
(* sync_isr_window shows that it is needed.                                *)
(***************************************************************************)
EXTENDS Sync, SchedulerProofs, FiniteSetTheorems, TLAPS

\* The mutex's part of the state has its type, and a client that waits for the
\* mutex or gives it up has no nested lock left.
MutexShape ==
  /\ mutex \in [locked : {0, 1}, owner : Pointer, count : Nat]
  /\ pc \in [Clients -> {"ready", "yield", "retry", "disown", "release", "block"}]
  /\ depth \in [Clients -> 0 .. MaxDepth]
  /\ mutex.locked = 0 => mutex.count = 0
  /\ \A t \in Clients :
       pc[t] \in {"yield", "retry", "disown", "release"} => depth[t] = 0

MutexInv == MutexShape /\ MutualExclusion /\ MutexMatchesOwner

\* A successful test-and-set by a client outside the mutex.
LEMMA TestAndSetInv ==
  ASSUME MutexInv, NEW t \in Clients, t \notin Inside, TestAndSet(t)
  PROVE  MutexInv'
  <1> USE SyncAssumption, SchedulerAssumption
      DEF MutexInv, MutexShape, MutualExclusion, MutexMatchesOwner, Inside, Goto
  <1>1. CASE mutex.locked = 0 /\ Take(t)
    BY <1>1 DEF Take, Pointer
  <1>2. CASE mutex.locked = 1 /\ Goto(t, "yield") /\ UNCHANGED <<mutex, depth>>
    BY <1>2
  <1>3. QED
    BY <1>1, <1>2 DEF TestAndSet

LEMMA InitMutexInv == SyncInit => MutexInv
  BY SyncAssumption DEF SyncInit, MutexInv, MutexShape, MutualExclusion, MutexMatchesOwner,
         Inside, Pointer

LEMMA NextMutexInv == MutexInv /\ [SyncNext]_allvars => MutexInv'
  <1> SUFFICES ASSUME MutexInv, [SyncNext]_allvars PROVE MutexInv'
    OBVIOUS
  <1> USE SyncAssumption, SchedulerAssumption
  <1>u. ASSUME UNCHANGED <<mutex, pc, depth>> PROVE MutexInv'
    BY <1>u DEF MutexInv, MutexShape, MutualExclusion, MutexMatchesOwner, Inside
  <1>1. ASSUME NEW t \in Clients, mutex_lock(t) PROVE MutexInv'
    <2>1. CASE mutex.locked = 1 /\ mutex.owner = t
      BY <1>1, <2>1
         DEF mutex_lock, At, MutexInv, MutexShape, MutualExclusion,
             MutexMatchesOwner, Inside, Goto, Take, TestAndSet
    <2>2. CASE ~(mutex.locked = 1 /\ mutex.owner = t)
      <3>1. t \notin Inside
        BY <1>1, <2>2
           DEF mutex_lock, At, MutexInv, MutexShape, MutexMatchesOwner, Inside
      <3>2. TestAndSet(t)
        BY <1>1, <2>2 DEF mutex_lock
      <3>3. QED
        BY <3>1, <3>2, TestAndSetInv
    <2>3. QED
      BY <2>1, <2>2
  <1>2. ASSUME NEW t \in Clients, LockYield(t) PROVE MutexInv'
    BY <1>2 DEF LockYield, At, Goto, MutexInv, MutexShape, MutualExclusion,
                MutexMatchesOwner, Inside
  <1>3. ASSUME NEW t \in Clients, LockRetry(t) PROVE MutexInv'
    <2>1. t \notin Inside /\ TestAndSet(t)
      BY <1>3 DEF LockRetry, At, MutexInv, MutexShape, Inside
    <2>2. QED
      BY <2>1, TestAndSetInv
  <1>4. ASSUME NEW t \in Clients, mutex_unlock(t) PROVE MutexInv'
    <2>1. t \in Inside /\ Inside = {t} /\ mutex.count = depth[t] /\ depth[t] > 0
      BY <1>4 DEF mutex_unlock, At, MutexInv, MutexShape, MutualExclusion,
                  MutexMatchesOwner, Inside
    <2>2. CASE mutex.count > 1
      BY <1>4, <2>1, <2>2
         DEF mutex_unlock, At, Goto, MutexInv, MutexShape, MutualExclusion,
             MutexMatchesOwner, Inside
    <2>3. CASE ~(mutex.count > 1)
      BY <1>4, <2>1, <2>3
         DEF mutex_unlock, At, Goto, MutexInv, MutexShape, MutualExclusion,
             MutexMatchesOwner, Inside
    <2>4. QED
      BY <2>2, <2>3
  <1>5. ASSUME NEW t \in Clients, UnlockDisown(t) PROVE MutexInv'
    BY <1>5 DEF UnlockDisown, At, Goto, MutexInv, MutexShape, MutualExclusion,
                MutexMatchesOwner, Inside, Pointer
  <1>6. ASSUME NEW t \in Clients, UnlockRelease(t) PROVE MutexInv'
    BY <1>6 DEF UnlockRelease, At, Goto, MutexInv, MutexShape, MutualExclusion,
                MutexMatchesOwner, Inside
  <1>7. ASSUME NEW t \in Clients, semaphore_wait(t) PROVE MutexInv'
    BY <1>7 DEF semaphore_wait, At, Goto, MutexInv, MutexShape, MutualExclusion,
                MutexMatchesOwner, Inside
  <1>8. ASSUME NEW t \in Clients, WaitSchedule(t) PROVE MutexInv'
    BY <1>8 DEF WaitSchedule, At, Goto, MutexInv, MutexShape, MutualExclusion,
                MutexMatchesOwner, Inside
  <1>9. ASSUME NEW t \in Clients, SignalByTask(t) PROVE MutexInv'
    BY <1>9, <1>u DEF SignalByTask
  <1>10. ASSUME Launch \/ Timer \/ SignalByIsr PROVE MutexInv'
    BY <1>10, <1>u DEF Launch, Timer, SignalByIsr, syncvars
  <1>11. CASE UNCHANGED allvars
    BY <1>11, <1>u DEF allvars, syncvars
  <1>12. QED
    BY <1>1, <1>2, <1>3, <1>4, <1>5, <1>6, <1>7, <1>8, <1>9, <1>10, <1>11
       DEF SyncNext, ClientStep

\* The fields of struct mutex agree with the task inside in every reachable
\* state of the locking code and of the scheduler it runs on.
THEOREM SpecMutexMatchesOwner == SyncSpec => []MutexMatchesOwner
  <1>1. MutexInv => MutexMatchesOwner
    BY DEF MutexInv
  <1>2. QED
    BY <1>1, InitMutexInv, NextMutexInv, PTL DEF SyncSpec

\* Never two tasks inside the mutex, for any number of tasks and any depth of
\* nested locks.
THEOREM SpecMutualExclusion == SyncSpec => []MutualExclusion
  <1>1. MutexInv => MutualExclusion
    BY DEF MutexInv
  <1>2. QED
    BY <1>1, InitMutexInv, NextMutexInv, PTL DEF SyncSpec

-----------------------------------------------------------------------------
(* The list of waiters, linked through the next fields of BLOCKED tasks. *)

\* The waiters linked to w are blocked, hold a claim to a unit (are in h), and
\* none is linked behind itself.
WaitList(l, w, h) ==
  /\ w \in Pointer
  /\ \A t \in Reach(l.next, w) :
       /\ l.state[t] = "BLOCKED" /\ t \in h
       /\ t \notin Reach(l.next, l.next[t])

LEMMA ReachInside ==
  ASSUME NEW next \in [Tasks -> Pointer], NEW w, NEW t \in Reach(next, w)
  PROVE  Reach(next, next[t]) \subseteq Reach(next, w)
  <1>1. Reach(next, w) \in SUBSET Tasks
    BY DEF Reach
  <1>2. \A u \in Reach(next, w) : next[u] \in Reach(next, w) \union {NULL}
    BY ReachNext
  <1>3. QED
    BY <1>1, <1>2, ReachLeast

\* A step that changes no waiter's state or link changes no list of waiters.
LEMMA WaitListFrame ==
  ASSUME NEW l \in Lists, NEW m \in Lists, NEW w, NEW h, NEW k, WaitList(l, w, h),
         \A t \in Reach(l.next, w) :
           m.state[t] = "BLOCKED" /\ m.next[t] = l.next[t] /\ t \in k
  PROVE  Reach(m.next, w) = Reach(l.next, w) /\ WaitList(m, w, k)
  <1>0. l.next \in [Tasks -> Pointer] /\ m.next \in [Tasks -> Pointer] /\ w \in Pointer
    BY DEF Lists, WaitList
  <1>1. Reach(m.next, w) = Reach(l.next, w)
    BY <1>0, ReachFrame
  <1>2. ASSUME NEW t \in Reach(l.next, w)
        PROVE  t \notin Reach(m.next, m.next[t])
    <2>1. t \in Tasks /\ l.next[t] \in Pointer /\ m.next[t] = l.next[t]
      BY <1>0 DEF Reach
    <2>2. Reach(l.next, l.next[t]) \subseteq Reach(l.next, w)
      BY <1>0, ReachInside
    <2>3. Reach(m.next, l.next[t]) = Reach(l.next, l.next[t])
      BY <1>0, <2>1, <2>2, ReachFrame
    <2>4. QED
      BY <2>1, <2>3 DEF WaitList
  <1>3. QED
    BY <1>0, <1>1, <1>2 DEF WaitList

\* From l to m, t blocks and is linked in front of w; the others are left alone.
Pushed(l, m, w, t) ==
  /\ l.state[t] # "BLOCKED" /\ m.state[t] = "BLOCKED" /\ m.next[t] = w
  /\ \A u \in Tasks : u # t => m.state[u] = l.state[u] /\ m.next[u] = l.next[u]

\* semaphore_wait links the caller in front.
LEMMA WaitListPush ==
  ASSUME NEW l \in Lists, NEW m \in Lists, NEW w, NEW h, NEW t \in Tasks, WaitList(l, w, h),
         Pushed(l, m, w, t)
  PROVE  /\ Reach(m.next, t) = {t} \union Reach(l.next, w)
         /\ WaitList(m, t, h \union {t})
  <1>p. /\ l.state[t] # "BLOCKED" /\ m.state[t] = "BLOCKED" /\ m.next[t] = w
        /\ \A u \in Tasks : u # t => m.state[u] = l.state[u] /\ m.next[u] = l.next[u]
    BY DEF Pushed
  <1>0. m.next \in [Tasks -> Pointer] /\ w \in Pointer /\ Reach(l.next, w) \subseteq Tasks
    BY DEF Lists, WaitList, Reach
  <1>1. t \notin Reach(l.next, w)
    BY <1>p DEF WaitList
  <1>2. Reach(m.next, w) = Reach(l.next, w) /\ WaitList(m, w, h \union {t})
    <2>1. \A u \in Reach(l.next, w) :
            m.state[u] = "BLOCKED" /\ m.next[u] = l.next[u] /\ u \in h \union {t}
      BY <1>0, <1>1, <1>p DEF WaitList
    <2>2. QED
      BY <2>1, WaitListFrame
  <1>3. Reach(m.next, t) = {t} \union Reach(m.next, w)
    <2>1. Reach(m.next, t) \subseteq {t} \union Reach(m.next, w)
      BY <1>0, <1>p, ReachStep
    <2>2. t \in Reach(m.next, t)
      BY ReachHead
    <2>3. Reach(m.next, w) \subseteq Reach(m.next, t)
      BY <1>0, <1>p, <2>2, ReachInside
    <2>4. QED
      BY <2>1, <2>2, <2>3
  <1>4. WaitList(m, t, h \union {t})
    BY <1>p, <1>1, <1>2, <1>3 DEF WaitList, Pointer
  <1>5. QED
    BY <1>2, <1>3, <1>4

\* semaphore_signal unlinks the first waiter, whose link task_wake reuses.
LEMMA WaitListPop ==
  ASSUME NEW l \in Lists, NEW m \in Lists, NEW w \in Tasks, NEW h, WaitList(l, w, h),
         \A u \in Tasks : u # w => m.state[u] = l.state[u] /\ m.next[u] = l.next[u]
  PROVE  /\ Reach(m.next, l.next[w]) = Reach(l.next, w) \ {w}
         /\ w \in Reach(l.next, w)
         /\ WaitList(m, l.next[w], h \ {w})
  <1>0. l.next \in [Tasks -> Pointer] /\ l.next[w] \in Pointer
    BY DEF Lists
  <1>1. w \in Reach(l.next, w)
    BY ReachHead
  <1>2. w \notin Reach(l.next, l.next[w])
    BY <1>1 DEF WaitList
  <1>3. Reach(l.next, l.next[w]) = Reach(l.next, w) \ {w}
    <2>1. Reach(l.next, w) \subseteq {w} \union Reach(l.next, l.next[w])
      BY <1>0, ReachStep
    <2>2. Reach(l.next, l.next[w]) \subseteq Reach(l.next, w)
      BY <1>0, <1>1, ReachInside
    <2>3. QED
      BY <1>2, <2>1, <2>2
  <1>4. WaitList(l, l.next[w], h \ {w})
    BY <1>0, <1>3 DEF WaitList
  <1>5. \A u \in Reach(l.next, l.next[w]) : /\ u \in Tasks /\ u # w /\ l.state[u] = "BLOCKED"
                                            /\ u \in h \ {w}
    BY <1>3, <1>4 DEF WaitList, Reach
  <1>6. /\ Reach(m.next, l.next[w]) = Reach(l.next, l.next[w])
        /\ WaitList(m, l.next[w], h \ {w})
    BY <1>4, <1>5, WaitListFrame
  <1>7. QED
    BY <1>1, <1>3, <1>6

-----------------------------------------------------------------------------
(* The scheduler under the semaphore.  SchedInv does not hold here: between  *)
(* the masked part of semaphore_wait and its schedule() the current task is  *)
(* BLOCKED.                                                                  *)

CpuInv ==
  /\ TypeOK
  /\ ReadyToSchedule(lists)
  /\ current_task # NULL => lists.state[current_task] \in {"RUNNING", "BLOCKED"}
  /\ current_task # NULL /\ lists.state[current_task] = "BLOCKED" =>
       current_task \in Clients /\ pc[current_task] = "block"
  /\ scan # NULL => in_tick /\ lists.state[scan] = "SLEEPING"

SemInv ==
  /\ sem \in [count : Nat, waiters : Pointer]
  /\ signalled \in 0 .. MaxIsrSignals
  /\ holds \subseteq Clients
  /\ WaitList(lists, sem.waiters, holds)
  /\ UnitsConserved

SyncInv == MutexInv /\ CpuInv /\ SemInv

LEMMA Constants ==
  /\ NULL \notin Tasks /\ NULL \in Pointer /\ IdleTask \in Tasks
  /\ Clients \subseteq Tasks /\ IdleTask \notin Clients
  /\ Units \in Nat /\ MaxIsrSignals \in Nat /\ TickMod \in Nat \ {0}
  BY SchedulerAssumption, SyncAssumption DEF Pointer

\* A client that executes and is not in the window of semaphore_wait is RUNNING.
LEMMA ClientRuns ==
  ASSUME CpuInv, NEW t \in Clients, current_task = t, pc[t] # "block"
  PROVE  lists.state[t] = "RUNNING" /\ SchedInv
  <1>1. t # NULL /\ t \in Tasks
    BY Constants
  <1>2. lists.state[t] = "RUNNING"
    BY <1>1 DEF CpuInv
  <1>3. QED
    BY <1>1, <1>2 DEF CpuInv, SchedInv, Scheduled, ReadyToSchedule, TypeOK

\* With the waiters untouched, so are the semaphore's properties.
LEMMA SemFrame ==
  ASSUME SemInv, lists \in Lists, lists' \in Lists, UNCHANGED <<sem, holds, signalled>>,
         \A t \in Tasks : lists.state[t] = "BLOCKED" =>
           lists'.state[t] = "BLOCKED" /\ lists'.next[t] = lists.next[t]
  PROVE  SemInv'
  <1>1. PICK m : m = lists'
    OBVIOUS
  <1>2. PICK w : w = sem.waiters
    OBVIOUS
  <1>3. \A t \in Reach(lists.next, w) :
          m.state[t] = "BLOCKED" /\ m.next[t] = lists.next[t] /\ t \in holds
    BY <1>1, <1>2 DEF SemInv, WaitList, Reach
  <1>4. Reach(m.next, w) = Reach(lists.next, w) /\ WaitList(m, w, holds)
    BY <1>1, <1>2, <1>3, WaitListFrame DEF SemInv
  <1>5. Waiters' = Waiters
    BY <1>1, <1>2, <1>4 DEF Waiters, Linked
  <1>6. WaitList(lists, sem.waiters, holds)'
    BY <1>1, <1>2, <1>4 DEF WaitList
  <1>7. UnitsConserved'
    BY <1>5 DEF SemInv, UnitsConserved
  <1>8. QED
    BY <1>6, <1>7 DEF SemInv

\* A step of the client that has the CPU, of its own code.
LEMMA OwnStep ==
  ASSUME CpuInv, SemInv, UNCHANGED <<vars, sem, holds, signalled>>,
         NEW t \in Clients, current_task = t, pc[t] # "block"
  PROVE  CpuInv' /\ SemInv'
  <1>1. lists.state[t] = "RUNNING" /\ lists \in Lists
    BY ClientRuns DEF CpuInv, TypeOK
  <1>2. SemInv'
    BY <1>1, SemFrame DEF vars
  <1>3. CpuInv'
    BY <1>1 DEF CpuInv, vars, TypeOK, ReadyToSchedule
  <1>4. QED
    BY <1>2, <1>3

\* schedule(), called by a client, by kernel_main or by the timer handler.
LEMMA ScheduleInv ==
  ASSUME CpuInv, SemInv, schedule(lists), UNCHANGED <<sem, holds, signalled>>,
         UNCHANGED <<tick_count, wake_time, scan>>, in_tick' \in BOOLEAN, scan = NULL
  PROVE  CpuInv' /\ SemInv'
  <1>0. current_task \in Pointer /\ lists \in Lists
    BY DEF CpuInv, TypeOK
  <1>1. Scheduled(lists', current_task') /\ KeepsStopped(lists, lists')
    BY <1>0, ScheduleScheduled, ScheduleKeeps DEF CpuInv
  <1>2. lists' \in Lists
    BY <1>1 DEF Scheduled, WellFormedBut
  <1>3. SemInv'
    BY <1>0, <1>1, <1>2, SemFrame DEF KeepsStopped
  <1>4. current_task' # NULL => current_task' \in Tasks /\ lists'.state[current_task'] = "RUNNING"
    BY <1>1 DEF Scheduled, Pointer
  <1>5. ReadyToSchedule(lists)'
    BY <1>1, <1>4 DEF Scheduled, ReadyToSchedule
  <1>6. TypeOK'
    BY <1>1, <1>2 DEF CpuInv, TypeOK, Scheduled
  <1>7. CpuInv'
    BY <1>4, <1>5, <1>6 DEF CpuInv
  <1>8. QED
    BY <1>3, <1>7

\* kernel_main starts a client.
LEMMA StartInv ==
  ASSUME CpuInv, SemInv, NEW t \in Clients, Start(t), current_task = NULL,
         UNCHANGED syncvars
  PROVE  CpuInv' /\ SemInv'
  <1>0. /\ lists \in Lists /\ t \in Tasks /\ t # IdleTask /\ lists.state[t] = "STOPPED"
        /\ lists' = task_enqueue(lists, t) /\ WellFormedBut(lists, NULL)
    BY Constants DEF Start, CpuInv, TypeOK, ReadyToSchedule
  <1>1. WellFormedBut(lists, t)
    BY <1>0, TakeUnqueued DEF Queued
  <1>2. WellFormedBut(lists', NULL)
    BY <1>0, <1>1, EnqueueWellFormed
  <1>3. \A u \in Tasks : /\ lists'.state[u] = IF u = t THEN "RUNNABLE" ELSE lists.state[u]
                         /\ u # t => lists'.next[u] = lists.next[u]
    BY <1>0 DEF task_enqueue, Lists
  <1>4. lists' \in Lists
    BY <1>2 DEF WellFormedBut
  <1>5. SemInv'
    BY <1>0, <1>3, <1>4, SemFrame DEF syncvars
  <1>6. UNCHANGED <<current_task, tick_count, wake_time, in_tick, scan>>
    BY DEF Start
  <1>7. scan = NULL
    BY DEF Start, InKernel, CpuInv
  <1>8. ReadyToSchedule(lists)'
    BY <1>0, <1>2, <1>3, <1>6, Constants DEF CpuInv, ReadyToSchedule
  <1>9. TypeOK'
    BY <1>4, <1>6 DEF CpuInv, TypeOK
  <1>10. CpuInv'
    BY <1>6, <1>7, <1>8, <1>9 DEF CpuInv
  <1>11. QED
    BY <1>5, <1>10

LEMMA TimerInv ==
  ASSUME CpuInv, SemInv, TimerInterrupt, UNCHANGED syncvars
  PROVE  CpuInv' /\ SemInv'
  <1>0. /\ lists \in Lists /\ tick_count \in 0 .. TickMod - 1
        /\ UNCHANGED <<lists, current_task, wake_time>> /\ in_tick' = TRUE
        /\ tick_count' = (tick_count + 1) % TickMod /\ scan' = lists.sleep_queue
    BY DEF TimerInterrupt, CpuInv, TypeOK
  <1>1. SemInv'
    BY <1>0, SemFrame DEF syncvars
  <1>2. tick_count' \in 0 .. TickMod - 1
    <2>1. tick_count + 1 \in Nat
      BY <1>0, Constants
    <2>2. QED
      BY <1>0, <2>1, TickType
  <1>3. scan' \in Pointer /\ (scan' # NULL => lists'.state[scan'] = "SLEEPING")
    BY <1>0 DEF CpuInv, ReadyToSchedule, WellFormedBut, HeadsBut, Lists
  <1>4. TypeOK'
    BY <1>0, <1>2, <1>3 DEF CpuInv, TypeOK
  <1>5. ReadyToSchedule(lists)'
    BY <1>0 DEF CpuInv, ReadyToSchedule
  <1>6. UNCHANGED pc
    BY DEF syncvars
  <1>7. CpuInv'
    BY <1>0, <1>3, <1>4, <1>5, <1>6 DEF CpuInv
  <1>8. QED
    BY <1>1, <1>7

\* Units taken, handed on and given back, as sizes of finite sets.
LEMMA HoldsFinite ==
  ASSUME SemInv
  PROVE  /\ IsFiniteSet(holds \ Waiters) /\ Cardinality(holds \ Waiters) \in Nat
  <1>1. IsFiniteSet(holds)
    BY SyncAssumption, Constants, FS_Subset DEF SemInv
  <1>2. IsFiniteSet(holds \ Waiters)
    BY <1>1, FS_Subset
  <1>3. QED
    BY <1>2, FS_CardinalityType

\* The masked part of semaphore_wait: a unit, or a place in the list.
LEMMA WaitInv ==
  ASSUME CpuInv, SemInv, MutexShape, NEW t \in Clients, semaphore_wait(t)
  PROVE  CpuInv' /\ SemInv'
  <1>0. /\ t \in Tasks /\ t # NULL /\ t # IdleTask /\ t \notin holds /\ current_task = t
        /\ pc[t] = "ready" /\ holds' = holds \union {t}
        /\ UNCHANGED <<current_task, tick_count, wake_time, in_tick, scan, signalled>>
        /\ ~in_tick /\ scan = NULL
    BY Constants DEF semaphore_wait, At, CpuInv
  <1>1. lists.state[t] = "RUNNING" /\ SchedInv /\ lists \in Lists
    BY <1>0, ClientRuns DEF CpuInv, TypeOK
  <1>2. t \notin Waiters
    BY <1>0 DEF SemInv, WaitList, Waiters, Linked
  <1>3. sem \in [count : Nat, waiters : Pointer] /\ holds' \subseteq Clients
    BY <1>0 DEF SemInv
  <1>4. IsFiniteSet(holds \ Waiters) /\ Cardinality(holds \ Waiters) \in Nat
        /\ sem.count + Cardinality(holds \ Waiters) = Units + signalled
        /\ (sem.waiters # NULL => sem.count = 0)
    BY HoldsFinite DEF SemInv, UnitsConserved
  <1>5. CASE sem.count > 0
    <2>1. sem' = [sem EXCEPT !.count = @ - 1] /\ UNCHANGED <<lists, pc>>
      BY <1>5 DEF semaphore_wait
    <2>2. /\ sem' \in [count : Nat, waiters : Pointer] /\ sem'.waiters = sem.waiters
          /\ sem'.count = sem.count - 1
      BY <1>3, <1>5, <2>1
    <2>3. Waiters' = Waiters
      BY <2>1, <2>2 DEF Waiters, Linked
    <2>4. WaitList(lists, sem.waiters, holds)'
      BY <1>0, <2>1, <2>2 DEF SemInv, WaitList
    <2>5. Cardinality(holds' \ Waiters') = Cardinality(holds \ Waiters) + 1
      <3>1. holds' \ Waiters' = (holds \ Waiters) \union {t} /\ t \notin holds \ Waiters
        BY <1>0, <1>2, <2>3
      <3>2. QED
        BY <1>4, <3>1, FS_AddElement
    <2>6. UnitsConserved'
      BY <1>0, <1>3, <1>4, <1>5, <2>2, <2>5, Constants DEF UnitsConserved
    <2>7. SemInv'
      BY <1>0, <1>3, <2>2, <2>4, <2>6 DEF SemInv
    <2>8. CpuInv'
      BY <1>0, <2>1 DEF CpuInv, TypeOK, ReadyToSchedule
    <2>9. QED
      BY <2>7, <2>8
  <1>6. CASE sem.count = 0
    <2>1. PICK w \in Pointer : w = sem.waiters
      BY <1>3
    <2>2. /\ sem' = [sem EXCEPT !.waiters = t] /\ pc' = [pc EXCEPT ![t] = "block"]
          /\ lists' = [SetState(lists, t, "BLOCKED") EXCEPT !.next[t] = w]
      BY <1>6, <2>1 DEF semaphore_wait, Goto
    <2>3. PICK m : m = lists'
      OBVIOUS
    <2>4. ReadyToSchedule(m)
      BY <1>0, <1>1, <2>2, <2>3, StopCurrent
    <2>5. /\ m \in Lists /\ m.state[t] = "BLOCKED" /\ m.next[t] = w
          /\ \A u \in Tasks : u # t => m.state[u] = lists.state[u] /\ m.next[u] = lists.next[u]
      BY <1>0, <1>1, <2>2, <2>3 DEF SetState, Lists, TaskState
    <2>6. /\ sem' \in [count : Nat, waiters : Pointer] /\ sem'.waiters = t /\ sem'.count = 0
      BY <1>0, <1>3, <1>6, <2>2 DEF Pointer
    <2>7. /\ Reach(m.next, t) = {t} \union Reach(lists.next, w)
          /\ WaitList(m, t, holds \union {t})
      <3>1. lists \in Lists /\ m \in Lists /\ t \in Tasks /\ WaitList(lists, w, holds)
        BY <1>0, <1>1, <2>1, <2>5 DEF SemInv
      <3>2. Pushed(lists, m, w, t)
        BY <1>1, <2>5 DEF Pushed
      <3>3. QED
        BY <3>1, <3>2, WaitListPush
    <2>8. Waiters' = {t} \union Waiters
      BY <2>1, <2>3, <2>6, <2>7 DEF Waiters, Linked
    <2>9. WaitList(lists, sem.waiters, holds)'
      BY <1>0, <2>3, <2>6, <2>7 DEF WaitList
    <2>10. holds' \ Waiters' = holds \ Waiters
      BY <1>0, <2>8
    <2>11. UnitsConserved'
      BY <1>0, <1>4, <1>6, <2>6, <2>10 DEF UnitsConserved
    <2>12. SemInv'
      BY <1>0, <1>3, <2>6, <2>9, <2>11 DEF SemInv
    <2>13. TypeOK'
      BY <1>0, <2>3, <2>5 DEF CpuInv, TypeOK
    <2>14. ReadyToSchedule(lists)'
      BY <1>0, <2>3, <2>4 DEF ReadyToSchedule
    <2>15. pc'[t] = "block" /\ lists'.state[t] = "BLOCKED"
      BY <2>2, <2>3, <2>5 DEF MutexShape
    <2>16. CpuInv'
      BY <1>0, <2>13, <2>14, <2>15 DEF CpuInv
    <2>17. QED
      BY <2>12, <2>16
  <1>7. QED
    BY <1>5, <1>6 DEF semaphore_wait

\* semaphore_signal, when the first waiter is not the task that has the CPU.
LEMMA SignalInv ==
  ASSUME CpuInv, SemInv, semaphore_signal, sem.waiters = NULL \/ sem.waiters # current_task,
         UNCHANGED <<current_task, tick_count, wake_time, in_tick, scan, pc>>, scan = NULL
  PROVE  /\ CpuInv'
         /\ sem' \in [count : Nat, waiters : Pointer]
         /\ WaitList(lists', sem'.waiters, Waiters')
         /\ Waiters' \subseteq Waiters
         /\ sem'.waiters # NULL => sem'.count = 0
         /\ \/ /\ sem.waiters \in Waiters /\ Waiters' = Waiters \ {sem.waiters}
               /\ sem'.count = sem.count
            \/ Waiters' = Waiters /\ sem'.count = sem.count + 1
  <1>0. /\ lists \in Lists /\ WellFormedBut(lists, NULL)
        /\ sem \in [count : Nat, waiters : Pointer]
        /\ sem.waiters # NULL => sem.count = 0
    BY DEF CpuInv, TypeOK, ReadyToSchedule, SemInv, UnitsConserved
  <1>1. CASE sem.waiters # NULL
    <2>1. PICK w \in Tasks : w = sem.waiters
      BY <1>0, <1>1 DEF Pointer
    <2>2. w \in Reach(lists.next, w) /\ lists.state[w] = "BLOCKED" /\ w # current_task
      BY <1>1, <2>1, ReachHead DEF SemInv, WaitList
    <2>3. sem' = [sem EXCEPT !.waiters = lists.next[w]] /\ lists' = task_wake(lists, w)
      BY <1>1, <2>1 DEF semaphore_signal
    <2>4. lists.next[w] \in Pointer
      BY <1>0 DEF Lists
    <2>5. /\ sem' \in [count : Nat, waiters : Pointer]
          /\ sem'.waiters = lists.next[w] /\ sem'.count = sem.count
      BY <1>0, <2>3, <2>4
    <2>6. PICK m : m = lists' /\ m = task_enqueue(lists, w)
      BY <2>2, <2>3 DEF task_wake
    <2>7. WellFormedBut(m, NULL) /\ m \in Lists
      <3>1. WellFormedBut(lists, w)
        BY <1>0, <2>2, TakeUnqueued DEF Queued
      <3>2. WellFormedBut(m, NULL)
        BY <2>6, <3>1, EnqueueWellFormed
      <3>3. QED
        BY <3>2 DEF WellFormedBut
    <2>8. \A u \in Tasks : /\ m.state[u] = IF u = w THEN "RUNNABLE" ELSE lists.state[u]
                           /\ u # w => m.next[u] = lists.next[u]
      BY <1>0, <2>6 DEF task_enqueue, Lists
    <2>9. /\ Reach(m.next, lists.next[w]) = Reach(lists.next, w) \ {w}
          /\ WaitList(m, lists.next[w], holds \ {w})
      BY <1>0, <2>1, <2>7, <2>8, WaitListPop DEF SemInv
    <2>10. Waiters' = Waiters \ {w} /\ Waiters' = Reach(m.next, lists.next[w]) /\ w \in Waiters
      BY <2>1, <2>2, <2>5, <2>6, <2>9 DEF Waiters, Linked
    <2>11. WaitList(lists', sem'.waiters, Waiters')
      BY <2>5, <2>6, <2>9, <2>10 DEF WaitList
    <2>12. TypeOK'
      BY <2>6, <2>7 DEF CpuInv, TypeOK
    <2>13. ReadyToSchedule(lists)'
      BY <2>2, <2>6, <2>7, <2>8, Constants DEF CpuInv, ReadyToSchedule, TypeOK, Pointer
    <2>14. current_task # NULL => /\ current_task \in Tasks
                                  /\ lists'.state[current_task] = lists.state[current_task]
      BY <2>2, <2>6, <2>8 DEF CpuInv, TypeOK, Pointer
    <2>15. CpuInv'
      BY <2>12, <2>13, <2>14 DEF CpuInv
    <2>16. QED
      BY <1>0, <1>1, <2>1, <2>5, <2>10, <2>11, <2>15
  <1>2. CASE sem.waiters = NULL
    <2>1. sem' = [sem EXCEPT !.count = @ + 1] /\ lists' = lists
      BY <1>2 DEF semaphore_signal
    <2>2. /\ sem' \in [count : Nat, waiters : Pointer]
          /\ sem'.waiters = NULL /\ sem'.count = sem.count + 1
      BY <1>0, <1>2, <2>1
    <2>3. Waiters' = Waiters
      BY <1>2, <2>1, <2>2 DEF Waiters, Linked
    <2>4. WaitList(lists', sem'.waiters, Waiters')
      BY <1>2, <2>1, <2>2, ReachNull, Constants DEF WaitList
    <2>5. CpuInv'
      BY <2>1 DEF CpuInv, TypeOK, ReadyToSchedule
    <2>6. QED
      BY <2>2, <2>3, <2>4, <2>5
  <1>3. QED
    BY <1>1, <1>2

LEMMA TaskSignalInv ==
  ASSUME CpuInv, SemInv, NEW t \in Clients, SignalByTask(t)
  PROVE  CpuInv' /\ SemInv'
  <1>0. /\ current_task = t /\ pc[t] = "ready" /\ t \in holds /\ holds' = holds \ {t}
        /\ semaphore_signal /\ scan = NULL /\ signalled' = signalled
        /\ UNCHANGED <<current_task, tick_count, wake_time, in_tick, scan, pc>>
    BY DEF SignalByTask, At, CpuInv
  <1>1. lists.state[t] = "RUNNING" /\ t \in Tasks /\ t # NULL
    BY <1>0, ClientRuns, Constants
  <1>2. t \notin Waiters /\ Waiters \subseteq holds
    BY <1>1 DEF SemInv, WaitList, Waiters, Linked
  <1>3. sem.waiters = NULL \/ sem.waiters # current_task
    BY <1>0, <1>1, <1>2, ReachHead DEF Waiters, Linked
  <1>4. /\ CpuInv'
        /\ sem' \in [count : Nat, waiters : Pointer]
        /\ WaitList(lists', sem'.waiters, Waiters')
        /\ Waiters' \subseteq Waiters
        /\ sem'.waiters # NULL => sem'.count = 0
        /\ \/ /\ sem.waiters \in Waiters /\ Waiters' = Waiters \ {sem.waiters}
              /\ sem'.count = sem.count
           \/ Waiters' = Waiters /\ sem'.count = sem.count + 1
    BY <1>0, <1>3, SignalInv
  <1>5. WaitList(lists, sem.waiters, holds)'
    BY <1>0, <1>2, <1>4 DEF WaitList
  <1>6. IsFiniteSet(holds \ Waiters) /\ Cardinality(holds \ Waiters) \in Nat
        /\ sem.count + Cardinality(holds \ Waiters) = Units + signalled
        /\ sem.count \in Nat
    BY HoldsFinite DEF SemInv, UnitsConserved
  <1> DEFINE F == (holds \ Waiters) \ {t}
  <1>7. IsFiniteSet(F) /\ Cardinality(F) = Cardinality(holds \ Waiters) - 1
    BY <1>0, <1>2, <1>6, FS_RemoveElement
  <1>8. UnitsConserved'
    <2>1. CASE /\ sem.waiters \in Waiters /\ Waiters' = Waiters \ {sem.waiters}
               /\ sem'.count = sem.count
      <3>1. holds' \ Waiters' = F \union {sem.waiters} /\ sem.waiters \notin F
        BY <1>0, <1>2, <2>1
      <3>2. Cardinality(holds' \ Waiters') = Cardinality(F) + 1
        BY <1>7, <3>1, FS_AddElement
      <3>3. QED
        BY <1>0, <1>4, <1>6, <1>7, <2>1, <3>2 DEF UnitsConserved
    <2>2. CASE Waiters' = Waiters /\ sem'.count = sem.count + 1
      <3>1. Cardinality(holds' \ Waiters') = Cardinality(F)
        <4>1. holds' \ Waiters' = F
          BY <1>0, <2>2
        <4>2. QED
          BY <4>1
      <3> HIDE DEF F
      <3>2. QED
        BY <1>0, <1>4, <1>6, <1>7, <2>2, <3>1, Constants DEF UnitsConserved
    <2>3. QED
      BY <1>4, <2>1, <2>2
  <1>9. SemInv'
    BY <1>0, <1>4, <1>5, <1>8 DEF SemInv
  <1>10. QED
    BY <1>4, <1>9

LEMMA IsrSignalInv ==
  ASSUME CpuInv, SemInv, SignalByIsr, IsrInWindow = FALSE
  PROVE  CpuInv' /\ SemInv'
  <1>0. /\ ~in_tick /\ signalled < MaxIsrSignals /\ signalled' = signalled + 1
        /\ \A t \in Clients : ~(current_task = t /\ pc[t] = "block")
        /\ semaphore_signal /\ scan = NULL /\ holds' = holds
        /\ UNCHANGED <<current_task, tick_count, wake_time, in_tick, scan, pc>>
    BY DEF SignalByIsr, At, CpuInv
  <1>1. Waiters \subseteq holds /\ \A u \in Waiters : lists.state[u] = "BLOCKED"
    BY DEF SemInv, WaitList, Waiters, Linked
  <1>2. sem.waiters = NULL \/ sem.waiters # current_task
    <2> SUFFICES ASSUME sem.waiters # NULL, sem.waiters = current_task PROVE FALSE
      OBVIOUS
    <2>1. current_task \in Waiters
      BY ReachHead DEF CpuInv, TypeOK, Pointer, Waiters, Linked
    <2>2. QED
      BY <1>0, <1>1, <2>1 DEF CpuInv
  <1>3. /\ CpuInv'
        /\ sem' \in [count : Nat, waiters : Pointer]
        /\ WaitList(lists', sem'.waiters, Waiters')
        /\ Waiters' \subseteq Waiters
        /\ sem'.waiters # NULL => sem'.count = 0
        /\ \/ /\ sem.waiters \in Waiters /\ Waiters' = Waiters \ {sem.waiters}
              /\ sem'.count = sem.count
           \/ Waiters' = Waiters /\ sem'.count = sem.count + 1
    BY <1>0, <1>2, SignalInv
  <1>4. WaitList(lists, sem.waiters, holds)'
    BY <1>0, <1>1, <1>3 DEF WaitList
  <1>5. IsFiniteSet(holds \ Waiters) /\ Cardinality(holds \ Waiters) \in Nat
        /\ sem.count + Cardinality(holds \ Waiters) = Units + signalled
        /\ sem.count \in Nat /\ signalled \in 0 .. MaxIsrSignals
    BY HoldsFinite DEF SemInv, UnitsConserved
  <1>6. UnitsConserved'
    <2>1. CASE /\ sem.waiters \in Waiters /\ Waiters' = Waiters \ {sem.waiters}
               /\ sem'.count = sem.count
      <3>1. /\ holds' \ Waiters' = (holds \ Waiters) \union {sem.waiters}
            /\ sem.waiters \notin holds \ Waiters
        BY <1>0, <1>1, <2>1
      <3>2. Cardinality(holds' \ Waiters') = Cardinality(holds \ Waiters) + 1
        BY <1>5, <3>1, FS_AddElement
      <3>3. QED
        BY <1>0, <1>3, <1>5, <2>1, <3>2, Constants DEF UnitsConserved
    <2>2. CASE Waiters' = Waiters /\ sem'.count = sem.count + 1
      <3>1. holds' \ Waiters' = holds \ Waiters
        BY <1>0, <2>2
      <3>2. QED
        BY <1>0, <1>3, <1>5, <2>2, <3>1, Constants DEF UnitsConserved
    <2>3. QED
      BY <1>3, <2>1, <2>2
  <1>7. signalled' \in 0 .. MaxIsrSignals
    BY <1>0, <1>5, Constants
  <1>8. SemInv'
    BY <1>0, <1>3, <1>4, <1>6, <1>7 DEF SemInv
  <1>9. QED
    BY <1>3, <1>8

-----------------------------------------------------------------------------
LEMMA InitSyncInv == SyncInit => SyncInv
  <1> SUFFICES ASSUME SyncInit PROVE SyncInv
    OBVIOUS
  <1>1. SchedInv /\ MutexInv
    BY InitSchedInv, InitMutexInv DEF SyncInit
  <1>2. current_task = NULL /\ scan = NULL
    BY DEF SyncInit, Init
  <1>3. CpuInv
    BY <1>1, <1>2 DEF SchedInv, Scheduled, CpuInv, ReadyToSchedule
  <1>4. /\ sem = [count |-> Units, waiters |-> NULL] /\ holds = {} /\ signalled = 0
    BY DEF SyncInit
  <1>5. Waiters = {}
    BY <1>4, ReachNull DEF Waiters, Linked
  <1>6. WaitList(lists, sem.waiters, holds)
    BY <1>4, ReachNull, Constants DEF WaitList
  <1>7. UnitsConserved
    <2>1. holds \ Waiters = {}
      BY <1>4
    <2>2. Cardinality(holds \ Waiters) = 0
      BY <2>1, FS_EmptySet
    <2>3. QED
      BY <1>4, <2>2, Constants DEF UnitsConserved
  <1>8. sem \in [count : Nat, waiters : Pointer] /\ signalled \in 0 .. MaxIsrSignals
    BY <1>4, Constants
  <1>9. SemInv
    BY <1>4, <1>6, <1>7, <1>8 DEF SemInv
  <1>10. QED
    BY <1>1, <1>3, <1>9 DEF SyncInv

LEMMA NextSyncInv ==
  ASSUME IsrInWindow = FALSE, SyncInv, [SyncNext]_allvars
  PROVE  SyncInv'
  <1>0. CpuInv /\ SemInv /\ MutexInv /\ MutexShape
    BY DEF SyncInv, MutexInv
  <1>m. MutexInv'
    BY <1>0, NextMutexInv
  <1>1. ASSUME NEW t \in Clients,
               \/ mutex_lock(t) \/ LockRetry(t) \/ mutex_unlock(t)
               \/ UnlockDisown(t) \/ UnlockRelease(t)
        PROVE  CpuInv' /\ SemInv'
    <2>1. UNCHANGED <<vars, sem, holds, signalled>> /\ current_task = t /\ pc[t] # "block"
      BY <1>1 DEF mutex_lock, LockRetry, mutex_unlock, UnlockDisown, UnlockRelease, At
    <2>2. QED
      BY <1>0, <2>1, OwnStep
  <1>2. ASSUME NEW t \in Clients, LockYield(t) \/ WaitSchedule(t)
        PROVE  CpuInv' /\ SemInv'
    <2>1. /\ schedule(lists) /\ UNCHANGED <<sem, holds, signalled>>
          /\ UNCHANGED <<tick_count, wake_time, scan>> /\ in_tick' \in BOOLEAN
          /\ scan = NULL
      BY <1>0, <1>2 DEF LockYield, WaitSchedule, At, CpuInv, TypeOK
    <2>2. QED
      BY <1>0, <2>1, ScheduleInv
  <1>3. ASSUME NEW t \in Clients, semaphore_wait(t) PROVE CpuInv' /\ SemInv'
    BY <1>0, <1>3, WaitInv
  <1>4. ASSUME NEW t \in Clients, SignalByTask(t) PROVE CpuInv' /\ SemInv'
    BY <1>0, <1>4, TaskSignalInv
  <1>5. CASE SignalByIsr
    <2>1. CpuInv' /\ SemInv'
      BY <1>0, <1>5, IsrSignalInv
    <2>2. QED
      BY <1>m, <2>1 DEF SyncInv
  <1>6. CASE Launch
    <2>1. current_task = NULL /\ UNCHANGED syncvars
      BY <1>6 DEF Launch
    <2>2. CASE Yield
      <3>1. /\ schedule(lists) /\ UNCHANGED <<sem, holds, signalled>>
            /\ UNCHANGED <<tick_count, wake_time, scan>> /\ in_tick' \in BOOLEAN
            /\ scan = NULL
        BY <1>0, <2>1, <2>2 DEF Yield, InKernel, CpuInv, TypeOK, syncvars
      <3>2. CpuInv' /\ SemInv'
        BY <1>0, <3>1, ScheduleInv
      <3>3. QED
        BY <1>m, <3>2 DEF SyncInv
    <2>3. ASSUME NEW t \in Clients, Start(t) PROVE SyncInv'
      BY <1>0, <1>m, <2>1, <2>3, StartInv DEF SyncInv
    <2>4. QED
      BY <1>6, <2>2, <2>3 DEF Launch
  <1>7. CASE Timer
    <2>1. UNCHANGED syncvars
      BY <1>7 DEF Timer
    <2>2. CASE TimerInterrupt
      BY <1>0, <1>m, <2>1, <2>2, TimerInv DEF SyncInv
    <2>3. CASE TimerReturn
      <3>1. /\ schedule(lists) /\ UNCHANGED <<sem, holds, signalled>>
            /\ UNCHANGED <<tick_count, wake_time, scan>> /\ in_tick' \in BOOLEAN
            /\ scan = NULL
        BY <2>1, <2>3 DEF TimerReturn, syncvars
      <3>2. CpuInv' /\ SemInv'
        BY <1>0, <3>1, ScheduleInv
      <3>3. QED
        BY <1>m, <3>2 DEF SyncInv
    <2>4. QED
      BY <1>7, <2>2, <2>3 DEF Timer
  <1>8. CASE UNCHANGED allvars
    <2>1. UNCHANGED <<vars, sem, holds, signalled, pc>>
      BY <1>8 DEF allvars, syncvars
    <2>2. SemInv'
      BY <1>0, <2>1, SemFrame DEF vars, CpuInv, TypeOK
    <2>3. CpuInv'
      BY <1>0, <2>1 DEF vars, CpuInv, TypeOK, ReadyToSchedule
    <2>4. QED
      BY <1>m, <2>2, <2>3 DEF SyncInv
  <1>9. QED
    BY <1>m, <1>1, <1>2, <1>3, <1>4, <1>5, <1>6, <1>7, <1>8
       DEF SyncNext, ClientStep, SyncInv

\* The inductive invariant of locks, semaphore and scheduler together, when no
\* device interrupts semaphore_wait just before its schedule().
THEOREM SpecSyncInv == IsrInWindow = FALSE => (SyncSpec => []SyncInv)
  <1> SUFFICES ASSUME IsrInWindow = FALSE PROVE SyncSpec => []SyncInv
    OBVIOUS
  <1>1. SyncInv /\ [SyncNext]_allvars => SyncInv'
    BY NextSyncInv
  <1>2. QED
    BY <1>1, InitSyncInv, PTL DEF SyncSpec

\* Types of the mutex, the semaphore and the clients; the semaphore's count
\* never passes the units there are.
THEOREM SpecSyncTypeOK == IsrInWindow = FALSE => (SyncSpec => []SyncTypeOK)
  <1> SUFFICES ASSUME IsrInWindow = FALSE PROVE SyncSpec => []SyncTypeOK
    OBVIOUS
  <1>1. SyncInv => SyncTypeOK
    <2> SUFFICES ASSUME SyncInv PROVE SyncTypeOK
      OBVIOUS
    <2>1. mutex.count \in 0 .. MaxDepth
      <3>1. CASE mutex.locked = 0
        BY <3>1, SyncAssumption DEF SyncInv, MutexInv, MutexShape
      <3>2. CASE mutex.locked # 0
        <4>1. PICK t \in Inside : mutex.count = depth[t]
          BY <3>2 DEF SyncInv, MutexInv, MutexMatchesOwner
        <4>2. QED
          BY <4>1 DEF SyncInv, MutexInv, MutexShape, Inside
      <3>3. QED
        BY <3>1, <3>2
    <2>2. sem.count \in 0 .. Units + MaxIsrSignals
      <3>1. SemInv
        BY DEF SyncInv
      <3>2. /\ sem.count \in Nat /\ signalled \in 0 .. MaxIsrSignals
            /\ Cardinality(holds \ Waiters) \in Nat
            /\ sem.count + Cardinality(holds \ Waiters) = Units + signalled
        BY <3>1, HoldsFinite DEF SemInv, UnitsConserved
      <3>3. QED
        BY <3>2, Constants
    <2>3. mutex \in [locked : {0, 1}, owner : Pointer, count : 0 .. MaxDepth]
      BY <2>1 DEF SyncInv, MutexInv, MutexShape
    <2>4. QED
      BY <2>2, <2>3 DEF SyncTypeOK, SyncInv, CpuInv, SemInv, MutexInv, MutexShape
  <1>2. QED
    BY <1>1, SpecSyncInv, PTL

\* semaphore_wait and semaphore_signal lose and invent no unit, for any number
\* of waiters, units and signals of the device.
THEOREM SpecUnitsConserved == IsrInWindow = FALSE => (SyncSpec => []UnitsConserved)
  <1> SUFFICES ASSUME IsrInWindow = FALSE PROVE SyncSpec => []UnitsConserved
    OBVIOUS
  <1>1. SyncInv => UnitsConserved
    BY DEF SyncInv, SemInv
  <1>2. QED
    BY <1>1, SpecSyncInv, PTL

\* A client that has returned from semaphore_wait is on no waiter list.
THEOREM SpecWaitReturnsWithUnit ==
  IsrInWindow = FALSE => (SyncSpec => []WaitReturnsWithUnit)
  <1> SUFFICES ASSUME IsrInWindow = FALSE PROVE SyncSpec => []WaitReturnsWithUnit
    OBVIOUS
  <1>1. SyncInv => WaitReturnsWithUnit
    <2> SUFFICES ASSUME SyncInv, NEW t \in Clients, current_task = t, pc[t] = "ready",
                        t \in Waiters
                 PROVE  FALSE
      BY DEF WaitReturnsWithUnit
    <2>1. lists.state[t] = "RUNNING"
      BY ClientRuns DEF SyncInv
    <2>2. lists.state[t] = "BLOCKED"
      BY DEF SyncInv, SemInv, WaitList, Waiters, Linked
    <2>3. QED
      BY <2>1, <2>2
  <1>2. QED
    BY <1>1, SpecSyncInv, PTL

\* A runnable client is linked to the head of a run queue: no unlock, signal,
\* wake or timer interrupt drops a task.
THEOREM SpecNoTaskLost == IsrInWindow = FALSE => (SyncSpec => []NoTaskLost)
  <1> SUFFICES ASSUME IsrInWindow = FALSE PROVE SyncSpec => []NoTaskLost
    OBVIOUS
  <1>1. SyncInv => NoTaskLost
    <2> SUFFICES ASSUME SyncInv, NEW t \in Clients, lists.state[t] = "RUNNABLE"
                 PROVE  \E p \in Levels : t \in Linked(lists.runnable_queue[p])
      BY DEF NoTaskLost
    <2>1. t \in Tasks /\ t # IdleTask /\ Level(t) \in Levels
      BY Constants, LevelType
    <2>2. t \in Reach(lists.next, lists.runnable_queue[Level(t)])
      BY <2>1, RunnableLinked DEF SyncInv, CpuInv, ReadyToSchedule
    <2>3. QED
      BY <2>1, <2>2 DEF Linked
  <1>2. QED
    BY <1>1, SpecSyncInv, PTL
=============================================================================
