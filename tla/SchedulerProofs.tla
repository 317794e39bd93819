--------------------------- MODULE SchedulerProofs ---------------------------
(***************************************************************************)
(* Proofs about Scheduler, for every set of tasks, every assignment of     *)
(* priorities and every width of the tick counter.                         *)
(*                                                                         *)
(* The argument follows the code: each function of scheduler.c either      *)
(* takes one task x out of well formed queues, leaving them well formed    *)
(* except for x, or puts such an x back.  WellFormedBut(l, x) is that      *)
(* intermediate condition; with x = NULL it is the invariant itself.  Its  *)
(* last part, a rank that grows along next, rules out cycles: without it a *)
(* level could hold tasks that no head leads to.                           *)
(***************************************************************************)
EXTENDS Scheduler, WellFoundedInduction, TLAPS

Queued == {"RUNNABLE", "SLEEPING"}

HeadsBut(l, x) ==
  /\ \A p \in Levels :
       l.runnable_queue[p] # NULL =>
         /\ l.runnable_queue[p] # x
         /\ l.state[l.runnable_queue[p]] = "RUNNABLE"
         /\ Level(l.runnable_queue[p]) = p
         /\ l.prev[l.runnable_queue[p]] = NULL
  /\ l.sleep_queue # NULL =>
       /\ l.sleep_queue # x
       /\ l.state[l.sleep_queue] = "SLEEPING"
       /\ l.prev[l.sleep_queue] = NULL

LinksBut(l, x) ==
  \A t \in Tasks :
    t # x /\ l.state[t] \in Queued =>
      /\ l.next[t] # NULL =>
           l.next[t] # x /\ l.prev[l.next[t]] = t /\ SameQueue(l, t, l.next[t])
      /\ l.prev[t] # NULL =>
           l.prev[t] # x /\ l.next[l.prev[t]] = t /\ SameQueue(l, t, l.prev[t])

UnlinkedBut(l, x) ==
  \A t \in Tasks :
    t # x =>
      /\ l.state[t] \notin Queued => l.prev[t] = NULL
      /\ l.state[t] = "RUNNING" => l.next[t] = NULL

FirstBut(l, x) ==
  \A t \in Tasks :
    t # x /\ l.prev[t] = NULL =>
      /\ l.state[t] = "RUNNABLE" =>
           \/ l.runnable_queue[Level(t)] = t
           \/ t = IdleTask /\ l.next[t] = NULL
      /\ l.state[t] = "SLEEPING" => l.sleep_queue = t \/ l.next[t] = NULL

Ranked(l, x, r) ==
  \A t \in Tasks :
    t # x /\ l.state[t] \in Queued /\ l.next[t] # NULL => r[t] < r[l.next[t]]

Acyclic(l, x) == \E r \in [Tasks -> Nat] : Ranked(l, x, r)

WellFormedBut(l, x) ==
  /\ l \in Lists
  /\ HeadsBut(l, x) /\ LinksBut(l, x) /\ UnlinkedBut(l, x) /\ FirstBut(l, x)
  /\ Acyclic(l, x)

-----------------------------------------------------------------------------

\* A task's level is one of the levels, whatever its priority field holds.
LEMMA LevelType == \A t \in Tasks : Level(t) \in Levels
  BY SchedulerAssumption DEF Level, Levels

\* A task that is in no queue is not referred to by any queue (the state in
\* which task_wake and schedule find the task they enqueue).
LEMMA TakeUnqueued ==
  ASSUME NEW l, NEW x \in Tasks, WellFormedBut(l, NULL), l.state[x] \notin Queued
  PROVE  WellFormedBut(l, x)
  <1> USE DEF WellFormedBut, Queued
  <1>1. HeadsBut(l, x)
    BY DEF HeadsBut
  <1>2. LinksBut(l, x)
    BY SchedulerAssumption DEF LinksBut, SameQueue, Lists, Pointer
  <1>3. UnlinkedBut(l, x) /\ FirstBut(l, x)
    BY SchedulerAssumption DEF UnlinkedBut, FirstBut
  <1>4. Acyclic(l, x)
    BY SchedulerAssumption DEF Acyclic, Ranked
  <1>5. QED
    BY <1>1, <1>2, <1>3, <1>4

\* task_enqueue of a task that no queue refers to leaves well formed queues.
LEMMA EnqueueWellFormed ==
  ASSUME NEW l, NEW x \in Tasks, WellFormedBut(l, x)
  PROVE  WellFormedBut(task_enqueue(l, x), NULL)
  <1> DEFINE e == task_enqueue(l, x)
             h == l.runnable_queue[Level(x)]
  <1> USE DEF Queued
  <1>0. l \in Lists /\ Level(x) \in Levels /\ h \in Pointer /\ x # NULL /\ h # x
    BY LevelType, SchedulerAssumption DEF WellFormedBut, Lists, HeadsBut, Pointer
  <1>1. /\ e.runnable_queue = [l.runnable_queue EXCEPT ![Level(x)] = x]
        /\ e.sleep_queue = l.sleep_queue
        /\ e.next = [l.next EXCEPT ![x] = h]
        /\ e.prev = [u \in Tasks |->
                       IF u = h THEN x ELSE IF u = x THEN NULL ELSE l.prev[u]]
        /\ e.state = [l.state EXCEPT ![x] = "RUNNABLE"]
    BY DEF task_enqueue
  <1>2. e \in Lists
    BY <1>0 DEF task_enqueue, Lists, Pointer, TaskState
  <1> HIDE DEF e
  <1>3. /\ \A p \in Levels : e.runnable_queue[p] =
                               IF p = Level(x) THEN x ELSE l.runnable_queue[p]
        /\ \A t \in Tasks : /\ e.next[t] = IF t = x THEN h ELSE l.next[t]
                            /\ e.prev[t] = IF t = h THEN x
                                           ELSE IF t = x THEN NULL ELSE l.prev[t]
                            /\ e.state[t] = IF t = x THEN "RUNNABLE" ELSE l.state[t]
    BY <1>0, <1>1 DEF Lists
  <1>4. l \in Lists /\ HeadsBut(l, x) /\ LinksBut(l, x) /\ UnlinkedBut(l, x)
        /\ FirstBut(l, x)
    BY DEF WellFormedBut
  <1>t. /\ \A p \in Levels : l.runnable_queue[p] \in Pointer
        /\ \A t \in Tasks : l.next[t] \in Pointer /\ l.prev[t] \in Pointer
        /\ l.sleep_queue \in Pointer
    BY <1>4 DEF Lists
  <1>5. HeadsBut(e, NULL)
    BY <1>0, <1>1, <1>3, <1>4, <1>t DEF HeadsBut, Pointer
  <1>6. LinksBut(e, NULL)
    BY <1>0, <1>3, <1>4, <1>t DEF HeadsBut, LinksBut, SameQueue, Pointer
  <1>7. UnlinkedBut(e, NULL)
    BY <1>0, <1>3, <1>4, <1>t DEF HeadsBut, UnlinkedBut, Pointer
  <1>8. FirstBut(e, NULL)
    BY <1>0, <1>1, <1>3, <1>4, <1>t, LevelType DEF FirstBut, Pointer
  <1>9. Acyclic(e, NULL)
    <2>1. PICK r \in [Tasks -> Nat] : Ranked(l, x, r)
      BY DEF WellFormedBut, Acyclic
    <2> DEFINE s == [t \in Tasks |-> IF t = x THEN 0 ELSE r[t] + 1]
    <2>2. s \in [Tasks -> Nat]
      OBVIOUS
    <2>3. Ranked(e, NULL, s)
      BY <1>0, <1>3, <1>4, <1>t, <2>1 DEF Ranked, LinksBut, Pointer
    <2>4. QED
      BY <2>2, <2>3 DEF Acyclic
  <1>10. QED
    BY <1>2, <1>5, <1>6, <1>7, <1>8, <1>9 DEF WellFormedBut, e

\* Taking a sleeper off the sleep queue leaves well formed queues that do not
\* refer to it (task_wake, and each iteration of scheduler_tick).
LEMMA SleepUnlinkWellFormed ==
  ASSUME NEW l, NEW x \in Tasks, WellFormedBut(l, NULL), l.state[x] = "SLEEPING"
  PROVE  WellFormedBut(SleepUnlink(l, x), x)
  <1> DEFINE e == SleepUnlink(l, x)
  <1> USE DEF Queued
  <1>0. l \in Lists /\ HeadsBut(l, NULL) /\ LinksBut(l, NULL)
        /\ UnlinkedBut(l, NULL) /\ FirstBut(l, NULL) /\ NULL \notin Tasks
    BY SchedulerAssumption DEF WellFormedBut
  <1>t. /\ \A p \in Levels : l.runnable_queue[p] \in Pointer
        /\ \A t \in Tasks : l.next[t] \in Pointer /\ l.prev[t] \in Pointer
        /\ l.sleep_queue \in Pointer
    BY <1>0 DEF Lists
  <1>1. /\ e.runnable_queue = l.runnable_queue
        /\ e.sleep_queue = IF l.sleep_queue = x THEN l.next[x] ELSE l.sleep_queue
        /\ e.state = l.state
        /\ \A t \in Tasks :
             /\ e.next[t] = IF t = l.prev[x] THEN l.next[x] ELSE l.next[t]
             /\ e.prev[t] = IF t = l.next[x] THEN l.prev[x] ELSE l.prev[t]
    BY <1>0 DEF SleepUnlink, Lists
  <1>2. e \in Lists
    BY <1>0, <1>t DEF SleepUnlink, Lists, Pointer
  <1> HIDE DEF e
  <1>3. PICK r \in [Tasks -> Nat] : Ranked(l, NULL, r)
    BY DEF WellFormedBut, Acyclic
  <1>4. l.next[x] # x /\ l.prev[x] # x
    BY <1>0, <1>3 DEF Ranked, LinksBut
  <1>n. l.next[x] # NULL => /\ l.next[x] \in Tasks
                            /\ l.prev[l.next[x]] = x
                            /\ l.state[l.next[x]] = "SLEEPING"
    BY <1>0, <1>t DEF LinksBut, SameQueue, Pointer
  <1>p. l.prev[x] # NULL => /\ l.prev[x] \in Tasks
                            /\ l.next[l.prev[x]] = x
                            /\ l.state[l.prev[x]] = "SLEEPING"
    BY <1>0, <1>t DEF LinksBut, SameQueue, Pointer
  <1>l. ASSUME NEW t \in Tasks, l.state[t] \in Queued
        PROVE  /\ l.next[t] # NULL => /\ l.next[t] \in Tasks
                                      /\ l.prev[l.next[t]] = t
                                      /\ SameQueue(l, t, l.next[t])
               /\ l.prev[t] # NULL => /\ l.prev[t] \in Tasks
                                      /\ l.next[l.prev[t]] = t
                                      /\ SameQueue(l, t, l.prev[t])
    BY <1>0, <1>t, <1>l, SchedulerAssumption DEF LinksBut, Pointer
  <1>5. HeadsBut(e, x)
    BY <1>0, <1>1, <1>4, <1>n, <1>t DEF HeadsBut, Pointer
  <1>6. LinksBut(e, x)
    <2> SUFFICES ASSUME NEW t \in Tasks, t # x, l.state[t] \in Queued
                 PROVE  /\ e.next[t] # NULL => /\ e.next[t] # x
                                               /\ e.prev[e.next[t]] = t
                                               /\ SameQueue(l, t, e.next[t])
                        /\ e.prev[t] # NULL => /\ e.prev[t] # x
                                               /\ e.next[e.prev[t]] = t
                                               /\ SameQueue(l, t, e.prev[t])
      BY <1>1 DEF LinksBut, SameQueue
    <2>1. CASE t = l.prev[x]
      BY <2>1, <1>0, <1>1, <1>4, <1>n, <1>p, <1>l DEF SameQueue
    <2>2. CASE t = l.next[x]
      BY <2>2, <1>0, <1>1, <1>4, <1>n, <1>p, <1>l DEF SameQueue
    <2>3. CASE t # l.prev[x] /\ t # l.next[x]
      BY <2>3, <1>0, <1>1, <1>4, <1>n, <1>p, <1>l
    <2>4. QED
      BY <2>1, <2>2, <2>3
  <1>7. UnlinkedBut(e, x)
    BY <1>0, <1>1, <1>n, <1>p DEF UnlinkedBut
  <1>8. FirstBut(e, x)
    <2> SUFFICES ASSUME NEW t \in Tasks, t # x, e.prev[t] = NULL
                 PROVE  /\ l.state[t] = "RUNNABLE" =>
                             \/ l.runnable_queue[Level(t)] = t
                             \/ t = IdleTask /\ e.next[t] = NULL
                        /\ l.state[t] = "SLEEPING" =>
                             e.sleep_queue = t \/ e.next[t] = NULL
      BY <1>1 DEF FirstBut
    <2>1. CASE t = l.next[x]
      BY <2>1, <1>0, <1>1, <1>n, <1>p DEF FirstBut
    <2>2. CASE t # l.next[x]
      BY <2>2, <1>0, <1>1, <1>4, <1>n, <1>p DEF FirstBut
    <2>3. QED
      BY <2>1, <2>2
  <1>9. Ranked(e, x, r)
    <2> SUFFICES ASSUME NEW t \in Tasks, t # x, l.state[t] \in Queued,
                        e.next[t] # NULL
                 PROVE  r[t] < r[e.next[t]]
      BY <1>1 DEF Ranked
    <2>1. CASE t = l.prev[x]
      <3>1. r[t] < r[x] /\ r[x] < r[l.next[x]] /\ l.next[x] \in Tasks
        BY <2>1, <1>0, <1>1, <1>3, <1>n, <1>p DEF Ranked
      <3>2. QED
        BY <2>1, <3>1, <1>1
    <2>2. CASE t # l.prev[x]
      BY <2>2, <1>0, <1>1, <1>3 DEF Ranked
    <2>3. QED
      BY <2>1, <2>2
  <1>10. QED
    BY <1>2, <1>3, <1>5, <1>6, <1>7, <1>8, <1>9 DEF WellFormedBut, Acyclic, e

\* scheduler_pick_next unlinks the head it takes and leaves the rest well formed.
LEMMA DequeueWellFormed ==
  ASSUME NEW l, NEW x \in Tasks, WellFormedBut(l, NULL),
         NEW p \in Levels, l.runnable_queue[p] = x
  PROVE  /\ WellFormedBut(task_dequeue(l, x), x)
         /\ task_dequeue(l, x).prev[x] = NULL
         /\ task_dequeue(l, x).next[x] = NULL
         /\ task_dequeue(l, x).state = l.state
  <1> DEFINE e == task_dequeue(l, x)
  <1> USE DEF Queued
  <1>0. l \in Lists /\ HeadsBut(l, NULL) /\ LinksBut(l, NULL)
        /\ UnlinkedBut(l, NULL) /\ FirstBut(l, NULL) /\ NULL \notin Tasks
    BY SchedulerAssumption DEF WellFormedBut
  <1>t. /\ \A q \in Levels : l.runnable_queue[q] \in Pointer
        /\ \A t \in Tasks : l.next[t] \in Pointer /\ l.prev[t] \in Pointer
        /\ l.sleep_queue \in Pointer
    BY <1>0 DEF Lists
  <1>h. l.prev[x] = NULL /\ l.state[x] = "RUNNABLE" /\ Level(x) = p
    BY <1>0 DEF HeadsBut
  <1>1. /\ \A q \in Levels : e.runnable_queue[q] =
                               IF q = p THEN l.next[x] ELSE l.runnable_queue[q]
        /\ e.sleep_queue = l.sleep_queue
        /\ e.state = l.state
        /\ \A t \in Tasks :
             /\ e.next[t] = IF t = x THEN NULL ELSE l.next[t]
             /\ e.prev[t] = IF t = x THEN NULL
                            ELSE IF t = l.next[x] THEN NULL ELSE l.prev[t]
    BY <1>0, <1>h, SchedulerAssumption DEF task_dequeue, Lists
  <1>2. e \in Lists
    BY <1>0, <1>t, <1>h DEF task_dequeue, Lists, Pointer
  <1> HIDE DEF e
  <1>3. PICK r \in [Tasks -> Nat] : Ranked(l, NULL, r)
    BY DEF WellFormedBut, Acyclic
  <1>4. l.next[x] # x
    BY <1>0, <1>h, <1>3 DEF Ranked
  <1>n. l.next[x] # NULL => /\ l.next[x] \in Tasks
                            /\ l.prev[l.next[x]] = x
                            /\ l.state[l.next[x]] = "RUNNABLE"
                            /\ Level(l.next[x]) = p
    BY <1>0, <1>h, <1>t DEF LinksBut, SameQueue, Pointer
  <1>l. ASSUME NEW t \in Tasks, l.state[t] \in Queued
        PROVE  /\ l.next[t] # NULL => /\ l.next[t] \in Tasks
                                      /\ l.prev[l.next[t]] = t
                                      /\ SameQueue(l, t, l.next[t])
               /\ l.prev[t] # NULL => /\ l.prev[t] \in Tasks
                                      /\ l.next[l.prev[t]] = t
                                      /\ SameQueue(l, t, l.prev[t])
    BY <1>0, <1>t, <1>l, SchedulerAssumption DEF LinksBut, Pointer
  <1>5. HeadsBut(e, x)
    BY <1>0, <1>1, <1>4, <1>h, <1>n, <1>t DEF HeadsBut, Pointer
  <1>6. LinksBut(e, x)
    <2> SUFFICES ASSUME NEW t \in Tasks, t # x, l.state[t] \in Queued
                 PROVE  /\ e.next[t] # NULL => /\ e.next[t] # x
                                               /\ e.prev[e.next[t]] = t
                                               /\ SameQueue(l, t, e.next[t])
                        /\ e.prev[t] # NULL => /\ e.prev[t] # x
                                               /\ e.next[e.prev[t]] = t
                                               /\ SameQueue(l, t, e.prev[t])
      BY <1>1 DEF LinksBut, SameQueue
    <2>1. l.next[t] # x
      BY <1>0, <1>h, <1>l
    <2>2. l.prev[t] = x => t = l.next[x]
      BY <1>0, <1>h, <1>l
    <2>3. QED
      BY <2>1, <2>2, <1>0, <1>1, <1>4, <1>n, <1>l
  <1>7. UnlinkedBut(e, x)
    BY <1>0, <1>1, <1>n DEF UnlinkedBut
  <1>8. FirstBut(e, x)
    <2> SUFFICES ASSUME NEW t \in Tasks, t # x, e.prev[t] = NULL
                 PROVE  /\ l.state[t] = "RUNNABLE" =>
                             \/ e.runnable_queue[Level(t)] = t
                             \/ t = IdleTask /\ e.next[t] = NULL
                        /\ l.state[t] = "SLEEPING" =>
                             l.sleep_queue = t \/ e.next[t] = NULL
      BY <1>1 DEF FirstBut
    <2>1. CASE t = l.next[x]
      BY <2>1, <1>0, <1>1, <1>n
    <2>2. CASE t # l.next[x]
      BY <2>2, <1>0, <1>1, <1>h, LevelType DEF FirstBut
    <2>3. QED
      BY <2>1, <2>2
  <1>9. Ranked(e, x, r)
    BY <1>0, <1>1, <1>3 DEF Ranked
  <1>10. QED
    BY <1>1, <1>2, <1>3, <1>5, <1>6, <1>7, <1>8, <1>9
       DEF WellFormedBut, Acyclic, e

\* From l to e only the state and the next field of x change.
ChangesOnly(l, e, x) ==
  /\ e.runnable_queue = l.runnable_queue /\ e.sleep_queue = l.sleep_queue
  /\ e.prev = l.prev
  /\ \A t \in Tasks : t # x => e.next[t] = l.next[t] /\ e.state[t] = l.state[t]

\* A task that no queue refers to may be given any state that is not a queued
\* one, or go to sleep without being queued, whatever its next field holds
\* unless it runs or sleeps (schedule, and every operation that calls it).
LEMMA SettleWellFormed ==
  ASSUME NEW l, NEW x \in Tasks, WellFormedBut(l, x), l.prev[x] = NULL,
         NEW e, e \in Lists, ChangesOnly(l, e, x), e.state[x] # "RUNNABLE",
         e.state[x] \in {"RUNNING", "SLEEPING"} => e.next[x] = NULL
  PROVE  WellFormedBut(e, NULL)
  <1> USE DEF Queued, ChangesOnly
  <1>0. l \in Lists /\ HeadsBut(l, x) /\ LinksBut(l, x)
        /\ UnlinkedBut(l, x) /\ FirstBut(l, x) /\ x # NULL
    BY SchedulerAssumption DEF WellFormedBut
  <1>t. /\ \A q \in Levels : l.runnable_queue[q] \in Pointer
        /\ \A t \in Tasks : l.next[t] \in Pointer /\ l.prev[t] \in Pointer
        /\ l.sleep_queue \in Pointer
    BY <1>0 DEF Lists
  <1>2. HeadsBut(e, NULL)
    BY <1>0, <1>t DEF HeadsBut, Pointer
  <1>3. LinksBut(e, NULL)
    BY <1>0, <1>t DEF LinksBut, SameQueue, Pointer
  <1>4. UnlinkedBut(e, NULL) /\ FirstBut(e, NULL)
    BY <1>0, <1>t DEF UnlinkedBut, FirstBut, Pointer
  <1>5. Acyclic(e, NULL)
    BY <1>0, <1>t DEF WellFormedBut, Acyclic, Ranked
  <1>6. QED
    BY <1>2, <1>3, <1>4, <1>5 DEF WellFormedBut

\* task_sleep's push on the sleep queue: the task's prev field, which the code
\* does not write, is NULL already.
LEMMA SleepPushWellFormed ==
  ASSUME NEW l, NEW x \in Tasks, WellFormedBut(l, NULL), l.state[x] = "RUNNING"
  PROVE  WellFormedBut(SleepPush(SetState(l, x, "SLEEPING"), x), NULL)
  <1> DEFINE e == SleepPush(SetState(l, x, "SLEEPING"), x)
             h == l.sleep_queue
  <1> USE DEF Queued
  <1>0. l \in Lists /\ HeadsBut(l, x) /\ LinksBut(l, x)
        /\ UnlinkedBut(l, x) /\ FirstBut(l, x) /\ x # NULL
    BY TakeUnqueued, SchedulerAssumption DEF WellFormedBut
  <1>t. /\ \A q \in Levels : l.runnable_queue[q] \in Pointer
        /\ \A t \in Tasks : l.next[t] \in Pointer /\ l.prev[t] \in Pointer
        /\ h \in Pointer
    BY <1>0 DEF Lists
  <1>x. h # x /\ l.prev[x] = NULL
    BY <1>0 DEF WellFormedBut, HeadsBut, UnlinkedBut
  <1>1. /\ e.runnable_queue = l.runnable_queue
        /\ e.sleep_queue = x
        /\ \A t \in Tasks : /\ e.next[t] = IF t = x THEN h ELSE l.next[t]
                            /\ e.prev[t] = IF t = h THEN x ELSE l.prev[t]
                            /\ e.state[t] = IF t = x THEN "SLEEPING" ELSE l.state[t]
    BY <1>0 DEF SleepPush, SetState, Lists
  <1>2. e \in Lists
    BY <1>0, <1>t DEF SleepPush, SetState, Lists, Pointer, TaskState
  <1> HIDE DEF e
  <1>3. HeadsBut(e, NULL)
    BY <1>0, <1>1, <1>t, <1>x DEF HeadsBut, Pointer
  <1>4. LinksBut(e, NULL)
    BY <1>0, <1>1, <1>t, <1>x DEF HeadsBut, LinksBut, SameQueue, Pointer
  <1>5. UnlinkedBut(e, NULL)
    BY <1>0, <1>1, <1>t, <1>x DEF HeadsBut, UnlinkedBut, Pointer
  <1>6. FirstBut(e, NULL)
    BY <1>0, <1>1, <1>t, <1>x DEF FirstBut, Pointer
  <1>7. Acyclic(e, NULL)
    <2>1. PICK r \in [Tasks -> Nat] : Ranked(l, x, r)
      BY TakeUnqueued DEF WellFormedBut, Acyclic
    <2> DEFINE s == [t \in Tasks |-> IF t = x THEN 0 ELSE r[t] + 1]
    <2>2. s \in [Tasks -> Nat]
      OBVIOUS
    <2>3. Ranked(e, NULL, s)
      BY <1>0, <1>1, <1>t, <1>x, <2>1 DEF Ranked, LinksBut, Pointer
    <2>4. QED
      BY <2>2, <2>3 DEF Acyclic
  <1>8. QED
    BY <1>2, <1>3, <1>4, <1>5, <1>6, <1>7 DEF WellFormedBut, e

\* Every nonempty set of natural numbers has a smallest element.
LEMMA Smallest ==
  ASSUME NEW T, T \subseteq Nat, T # {}
  PROVE  \E m \in T : \A n \in T : m <= n
  <1>1. PICK m \in T : \A n \in T : ~(<<n, m>> \in OpToRel(<, Nat))
    BY NatLessThanWellFounded, WFMin
  <1>2. \A n \in T : ~(n < m)
    BY <1>1 DEF OpToRel
  <1>3. QED
    BY <1>2

\* A level whose head is NULL has no runnable task, but for an idle task that
\* has never run; scheduler_pick_next returning NULL means there is none.
LEMMA EmptyLevel ==
  ASSUME NEW l, WellFormedBut(l, NULL), NEW p \in Levels,
         l.runnable_queue[p] = NULL,
         NEW t \in Tasks, l.state[t] = "RUNNABLE", Level(t) = p
  PROVE  t = IdleTask /\ l.next[t] = NULL /\ l.prev[t] = NULL
  <1> USE DEF Queued
  <1>0. l \in Lists /\ LinksBut(l, NULL) /\ FirstBut(l, NULL) /\ NULL \notin Tasks
    BY SchedulerAssumption DEF WellFormedBut
  <1>1. PICK r \in [Tasks -> Nat] : Ranked(l, NULL, r)
    BY DEF WellFormedBut, Acyclic
  <1> DEFINE S == {u \in Tasks : l.state[u] = "RUNNABLE" /\ Level(u) = p
                                /\ l.prev[u] # NULL}
  <1>2. S = {}
    <2> SUFFICES ASSUME S # {} PROVE FALSE
      OBVIOUS
    <2>1. PICK m \in {r[u] : u \in S} : \A n \in {r[u] : u \in S} : m <= n
      <3>1. {r[u] : u \in S} \subseteq Nat /\ {r[u] : u \in S} # {}
        OBVIOUS
      <3>2. QED
        BY <3>1, Smallest
    <2>2. PICK u \in S : m = r[u]
      OBVIOUS
    <2>3. /\ l.prev[u] \in Tasks
          /\ l.next[l.prev[u]] = u
          /\ l.state[l.prev[u]] = "RUNNABLE" /\ Level(l.prev[u]) = p
      BY <1>0 DEF LinksBut, SameQueue, Lists, Pointer
    <2>4. r[l.prev[u]] < r[u]
      BY <1>0, <1>1, <2>3 DEF Ranked
    <2>5. l.prev[l.prev[u]] # NULL
      BY <1>0, <2>3 DEF FirstBut
    <2>6. l.prev[u] \in S
      BY <2>3, <2>5
    <2>7. m <= r[l.prev[u]]
      BY <2>1, <2>6
    <2>8. QED
      BY <2>2, <2>3, <2>4, <2>7
  <1>3. QED
    BY <1>0, <1>2 DEF FirstBut

-----------------------------------------------------------------------------

\* What an operation has to establish before it calls schedule(): well formed
\* queues, nobody marked RUNNING but the current task, and the current task
\* not in a run queue.
ReadyToSchedule(l) ==
  /\ WellFormedBut(l, NULL)
  /\ \A t \in Tasks : l.state[t] = "RUNNING" => t = current_task
  /\ current_task # NULL => l.state[current_task] # "RUNNABLE"
  /\ l.state[IdleTask] \in {"RUNNABLE", "RUNNING"}

\* Well formed queues, the current task the only RUNNING one, an idle task that
\* never blocks.
Scheduled(l, c) ==
  /\ WellFormedBut(l, NULL)
  /\ c \in Pointer
  /\ \A t \in Tasks : l.state[t] = "RUNNING" <=> t = c
  /\ l.state[IdleTask] \in {"RUNNABLE", "RUNNING"}

\* Giving the CPU to a task that was just taken out of the queues.
LEMMA SwitchToScheduled ==
  ASSUME NEW l, NEW n \in Tasks, WellFormedBut(l, n), n # current_task,
         l.prev[n] = NULL, l.next[n] = NULL, current_task \in Pointer,
         \A t \in Tasks : l.state[t] = "RUNNING" => t = current_task,
         l.state[IdleTask] \in {"RUNNABLE", "RUNNING"},
         SwitchTo(l, n)
  PROVE  Scheduled(lists', current_task')
  <1> DEFINE r == SetState(l, n, "RUNNING")
  <1>0. l \in Lists /\ NULL \notin Tasks /\ IdleTask \in Tasks
    BY SchedulerAssumption DEF WellFormedBut
  <1>1. /\ r \in Lists
        /\ r.runnable_queue = l.runnable_queue /\ r.sleep_queue = l.sleep_queue
        /\ r.prev = l.prev /\ r.next = [l.next EXCEPT ![n] = NULL]
        /\ r.state = [l.state EXCEPT ![n] = "RUNNING"]
    BY <1>0 DEF SetState, Lists, TaskState
  <1> HIDE DEF r
  <1>2. WellFormedBut(r, NULL)
    <2>1. r.state[n] = "RUNNING" /\ r.next[n] = NULL /\ ChangesOnly(l, r, n)
      BY <1>0, <1>1 DEF Lists, ChangesOnly
    <2>2. QED
      BY <1>1, <2>1, SettleWellFormed
  <1>3. /\ current_task' = n
        /\ lists' = IF current_task # NULL /\ r.state[current_task] = "RUNNING"
                      THEN task_enqueue(r, current_task) ELSE r
    BY DEF SwitchTo, r
  <1>4. \A t \in Tasks : r.state[t] = IF t = n THEN "RUNNING" ELSE l.state[t]
    BY <1>0, <1>1 DEF Lists
  <1>5. CASE current_task # NULL /\ r.state[current_task] = "RUNNING"
    <2>1. current_task \in Tasks
      BY <1>5 DEF Pointer
    <2>2. WellFormedBut(r, current_task)
      BY <2>1, <1>2, <1>5, TakeUnqueued DEF Queued
    <2>3. WellFormedBut(task_enqueue(r, current_task), NULL)
      BY <2>1, <2>2, EnqueueWellFormed
    <2>4. \A t \in Tasks : task_enqueue(r, current_task).state[t] =
                            IF t = current_task THEN "RUNNABLE" ELSE r.state[t]
      BY <1>1, <2>1 DEF task_enqueue, Lists
    <2>5. QED
      BY <1>0, <1>3, <1>4, <1>5, <2>1, <2>3, <2>4 DEF Scheduled, Pointer
  <1>6. CASE ~(current_task # NULL /\ r.state[current_task] = "RUNNING")
    BY <1>0, <1>2, <1>3, <1>4, <1>6 DEF Scheduled, Pointer
  <1>7. QED
    BY <1>5, <1>6

\* schedule() itself, from every state its callers leave behind.
LEMMA ScheduleScheduled ==
  ASSUME NEW l, ReadyToSchedule(l), current_task \in Pointer, schedule(l)
  PROVE  Scheduled(lists', current_task')
  <1>0. l \in Lists /\ NULL \notin Tasks /\ IdleTask \in Tasks
        /\ HeadsBut(l, NULL) /\ UnlinkedBut(l, NULL)
    BY SchedulerAssumption DEF ReadyToSchedule, WellFormedBut
  <1>1. ASSUME NEW p \in Levels, IsTop(l, p),
               SwitchTo(task_dequeue(l, l.runnable_queue[p]), l.runnable_queue[p])
        PROVE  Scheduled(lists', current_task')
    <2> DEFINE n == l.runnable_queue[p]
               d == task_dequeue(l, n)
    <2>1. n \in Tasks /\ l.state[n] = "RUNNABLE"
      BY <1>0, <1>1 DEF IsTop, HeadsBut, Lists, Pointer
    <2>2. WellFormedBut(d, n) /\ d.prev[n] = NULL /\ d.next[n] = NULL
          /\ d.state = l.state
      BY <2>1, DequeueWellFormed DEF ReadyToSchedule
    <2>3. n # current_task
      BY <1>0, <2>1 DEF ReadyToSchedule
    <2> HIDE DEF d
    <2>4. SwitchTo(d, n)
      BY <1>1 DEF d
    <2> HIDE DEF n
    <2>5. QED
      BY <2>1, <2>2, <2>3, <2>4, SwitchToScheduled DEF ReadyToSchedule
  <1>2. ASSUME \A p \in Levels : l.runnable_queue[p] = NULL, SwitchTo(l, IdleTask)
        PROVE  Scheduled(lists', current_task')
    <2>1. CASE IdleTask = current_task
      BY <1>0, <1>2, <2>1 DEF SwitchTo, ReadyToSchedule, Scheduled, Pointer
    <2>2. CASE IdleTask # current_task
      <3>1. l.state[IdleTask] = "RUNNABLE"
        BY <1>0, <2>2 DEF ReadyToSchedule
      <3>2. l.next[IdleTask] = NULL /\ l.prev[IdleTask] = NULL
        BY <1>0, <1>2, <3>1, LevelType, EmptyLevel DEF ReadyToSchedule
      <3>3. WellFormedBut(l, IdleTask)
        <4> USE DEF Queued, ReadyToSchedule
        <4>1. HeadsBut(l, IdleTask)
          BY <1>0, <1>2, <3>1 DEF HeadsBut
        <4>2. LinksBut(l, IdleTask)
          BY <1>0, <3>2 DEF WellFormedBut, LinksBut
        <4>3. UnlinkedBut(l, IdleTask) /\ FirstBut(l, IdleTask)
              /\ Acyclic(l, IdleTask)
          BY <1>0 DEF WellFormedBut, UnlinkedBut, FirstBut, Acyclic, Ranked
        <4>4. QED
          BY <1>0, <4>1, <4>2, <4>3 DEF WellFormedBut
      <3>4. QED
        BY <1>0, <1>2, <2>2, <3>2, <3>3, SwitchToScheduled DEF ReadyToSchedule
    <2>3. QED
      BY <2>1, <2>2
  <1>3. QED
    BY <1>1, <1>2 DEF schedule

-----------------------------------------------------------------------------

\* The inductive invariant.  Its last conjunct is what the timer handler's loop
\* relies on: the task its cursor stands on still sleeps.
SchedInv ==
  /\ TypeOK
  /\ Scheduled(lists, current_task)
  /\ scan # NULL => in_tick /\ lists.state[scan] = "SLEEPING"

LEMMA InitSchedInv == Init => SchedInv
  <1> SUFFICES ASSUME Init PROVE SchedInv
    OBVIOUS
  <1> USE DEF Init
  <1>0. NULL \notin Tasks /\ IdleTask \in Tasks /\ TickMod \in Nat \ {0}
    BY SchedulerAssumption
  <1>1. lists \in Lists
    BY <1>0 DEF Lists, Pointer, TaskState
  <1>2. HeadsBut(lists, NULL) /\ LinksBut(lists, NULL) /\ UnlinkedBut(lists, NULL)
        /\ FirstBut(lists, NULL)
    BY <1>0 DEF HeadsBut, LinksBut, UnlinkedBut, FirstBut, Queued
  <1>3. Acyclic(lists, NULL)
    <2>1. [t \in Tasks |-> 0] \in [Tasks -> Nat]
      OBVIOUS
    <2>2. Ranked(lists, NULL, [t \in Tasks |-> 0])
      BY DEF Ranked
    <2>3. QED
      BY <2>1, <2>2 DEF Acyclic
  <1>4. TypeOK
    <2>1. tick_count \in 0 .. TickMod - 1 /\ wake_time \in [Tasks -> 0 .. TickMod - 1]
      BY <1>0
    <2>2. in_tick \in BOOLEAN /\ current_task \in Pointer /\ scan \in Pointer
      BY DEF Pointer
    <2>3. QED
      BY <1>1, <2>1, <2>2 DEF TypeOK
  <1>5. /\ \A t \in Tasks : lists.state[t] # "RUNNING"
        /\ lists.state[IdleTask] = "RUNNABLE"
    BY <1>0
  <1> HIDE DEF Init
  <1>6. WellFormedBut(lists, NULL)
    BY <1>1, <1>2, <1>3 DEF WellFormedBut
  <1>7. current_task = NULL /\ scan = NULL
    BY DEF Init
  <1>8. QED
    BY <1>0, <1>4, <1>5, <1>6, <1>7 DEF SchedInv, Scheduled, Pointer

\* The tick counter and the wake times wrap within their width.
LEMMA TickType == \A n \in Nat : n % TickMod \in 0 .. TickMod - 1
  BY SchedulerAssumption

\* The current task, in the state an operation gives it before it calls
\* schedule(): the operations that stop the caller without queueing it.
LEMMA StopCurrent ==
  ASSUME SchedInv, current_task \notin {NULL, IdleTask}, NEW link \in Pointer,
         NEW s \in {"SLEEPING", "BLOCKED", "EXITED"},
         s = "SLEEPING" => link = NULL,
         NEW e, e = [SetState(lists, current_task, s) EXCEPT !.next[current_task] = link]
  PROVE  ReadyToSchedule(e)
  <1>0. /\ lists \in Lists /\ NULL \notin Tasks /\ IdleTask \in Tasks
        /\ current_task \in Tasks /\ lists.state[current_task] = "RUNNING"
    BY SchedulerAssumption DEF SchedInv, Scheduled, TypeOK, Pointer
  <1>1. WellFormedBut(lists, current_task) /\ lists.prev[current_task] = NULL
    BY <1>0, TakeUnqueued
       DEF SchedInv, Scheduled, Queued, WellFormedBut, UnlinkedBut
  <1>2. /\ e \in Lists
        /\ e.runnable_queue = lists.runnable_queue
        /\ e.sleep_queue = lists.sleep_queue
        /\ e.prev = lists.prev /\ e.next = [lists.next EXCEPT ![current_task] = link]
        /\ e.state = [lists.state EXCEPT ![current_task] = s]
    BY <1>0 DEF SetState, Lists, TaskState
  <1>3. WellFormedBut(e, NULL)
    <2>1. /\ e.state[current_task] = s /\ e.next[current_task] = link
          /\ ChangesOnly(lists, e, current_task)
      BY <1>0, <1>2 DEF Lists, ChangesOnly
    <2>2. QED
      BY <1>0, <1>1, <1>2, <2>1, SettleWellFormed
  <1>4. \A t \in Tasks : e.state[t] = IF t = current_task THEN s ELSE lists.state[t]
    BY <1>0, <1>2 DEF Lists
  <1>5. QED
    BY <1>0, <1>3, <1>4 DEF ReadyToSchedule, SchedInv, Scheduled

\* Making a task runnable keeps the queues and the current task as they are.
LEMMA EnqueueScheduled ==
  ASSUME NEW l, NEW x \in Tasks, NEW c \in Pointer, x # c, WellFormedBut(l, x),
         \A t \in Tasks : t # x => (l.state[t] = "RUNNING" <=> t = c),
         x # IdleTask => l.state[IdleTask] \in {"RUNNABLE", "RUNNING"}
  PROVE  /\ Scheduled(task_enqueue(l, x), c)
         /\ \A t \in Tasks : t # x => task_enqueue(l, x).state[t] = l.state[t]
  <1>1. WellFormedBut(task_enqueue(l, x), NULL)
    BY EnqueueWellFormed
  <1>2. \A t \in Tasks : task_enqueue(l, x).state[t] =
                          IF t = x THEN "RUNNABLE" ELSE l.state[t]
    BY DEF task_enqueue, WellFormedBut, Lists
  <1>3. QED
    BY <1>1, <1>2, SchedulerAssumption DEF Scheduled

\* Waking a task, whatever state it is in.
LEMMA WakeScheduled ==
  ASSUME SchedInv, NEW t \in Tasks
  PROVE  Scheduled(task_wake(lists, t), current_task)
  <1>0. /\ lists \in Lists /\ NULL \notin Tasks /\ IdleTask \in Tasks
        /\ WellFormedBut(lists, NULL) /\ current_task \in Pointer
        /\ \A u \in Tasks : lists.state[u] = "RUNNING" <=> u = current_task
        /\ lists.state[IdleTask] \in {"RUNNABLE", "RUNNING"}
    BY SchedulerAssumption DEF SchedInv, Scheduled, TypeOK
  <1>1. CASE lists.state[t] = "SLEEPING"
    <2> DEFINE l == SleepUnlink(lists, t)
    <2>1. WellFormedBut(l, t)
      BY <1>0, <1>1, SleepUnlinkWellFormed
    <2>2. l.state = lists.state
      BY <1>0 DEF SleepUnlink, Lists
    <2> HIDE DEF l
    <2>3. Scheduled(task_enqueue(l, t), current_task)
      BY <1>0, <1>1, <2>1, <2>2, EnqueueScheduled
    <2>4. task_wake(lists, t) = task_enqueue(l, t)
      BY <1>1 DEF task_wake, l
    <2>5. QED
      BY <2>3, <2>4
  <1>2. CASE lists.state[t] = "BLOCKED"
    <2>1. WellFormedBut(lists, t)
      BY <1>0, <1>2, TakeUnqueued DEF Queued
    <2>2. Scheduled(task_enqueue(lists, t), current_task)
      BY <1>0, <1>2, <2>1, EnqueueScheduled
    <2>3. task_wake(lists, t) = task_enqueue(lists, t)
      BY <1>2 DEF task_wake
    <2>4. QED
      BY <2>2, <2>3
  <1>3. CASE lists.state[t] \notin {"SLEEPING", "BLOCKED"}
    <2>1. task_wake(lists, t) = lists
      BY <1>3 DEF task_wake
    <2>2. QED
      BY <2>1 DEF SchedInv
  <1>4. QED
    BY <1>1, <1>2, <1>3

\* One iteration of the timer handler's loop: the queues stay well formed, and
\* the task the cursor moves to, read before the unlinking, still sleeps.
LEMMA WalkScheduled ==
  ASSUME SchedInv, scan # NULL
  PROVE  /\ Scheduled(WakeIfDue(lists, scan), current_task)
         /\ lists.next[scan] \in Pointer
         /\ lists.next[scan] # NULL =>
              WakeIfDue(lists, scan).state[lists.next[scan]] = "SLEEPING"
  <1>0. /\ lists \in Lists /\ NULL \notin Tasks /\ IdleTask \in Tasks
        /\ WellFormedBut(lists, NULL) /\ current_task \in Pointer
        /\ \A u \in Tasks : lists.state[u] = "RUNNING" <=> u = current_task
        /\ lists.state[IdleTask] \in {"RUNNABLE", "RUNNING"}
        /\ scan \in Tasks /\ lists.state[scan] = "SLEEPING"
    BY SchedulerAssumption DEF SchedInv, Scheduled, TypeOK, Pointer
  <1>1. lists.next[scan] \in Pointer
    BY <1>0 DEF Lists
  <1>2. lists.next[scan] # NULL => /\ lists.state[lists.next[scan]] = "SLEEPING"
                                   /\ lists.next[scan] # scan
                                   /\ lists.next[scan] \in Tasks
    BY <1>0, <1>1
       DEF WellFormedBut, LinksBut, SameQueue, Queued, Pointer, Acyclic, Ranked
  <1>3. CASE tick_count >= wake_time[scan]
    <2> DEFINE u == SleepUnlink(lists, scan)
               l == [u EXCEPT !.next[scan] = NULL, !.prev[scan] = NULL]
    <2>1. WellFormedBut(u, scan)
      BY <1>0, SleepUnlinkWellFormed
    <2>2. u.state = lists.state
      BY <1>0 DEF SleepUnlink, Lists
    <2> HIDE DEF u
    <2>3. /\ l \in Lists /\ l.state = u.state
          /\ l.runnable_queue = u.runnable_queue /\ l.sleep_queue = u.sleep_queue
          /\ \A t \in Tasks : t # scan =>
               l.next[t] = u.next[t] /\ l.prev[t] = u.prev[t]
      BY <1>0, <2>1 DEF WellFormedBut, Lists, Pointer
    <2> HIDE DEF l
    <2>4. WellFormedBut(l, scan)
      <3>1. HeadsBut(l, scan)
        BY <2>1, <2>3 DEF WellFormedBut, HeadsBut, Lists, Pointer
      <3>2. LinksBut(l, scan)
        BY <2>1, <2>3 DEF WellFormedBut, LinksBut, SameQueue, Lists, Pointer
      <3>3. UnlinkedBut(l, scan) /\ FirstBut(l, scan) /\ Acyclic(l, scan)
        BY <2>1, <2>3 DEF WellFormedBut, UnlinkedBut, FirstBut, Acyclic, Ranked
      <3>4. QED
        BY <2>3, <3>1, <3>2, <3>3 DEF WellFormedBut
    <2>5. /\ Scheduled(task_enqueue(l, scan), current_task)
          /\ \A t \in Tasks : t # scan => task_enqueue(l, scan).state[t] = l.state[t]
      BY <1>0, <2>2, <2>3, <2>4, EnqueueScheduled
    <2>6. WakeIfDue(lists, scan) = task_enqueue(l, scan)
      BY <1>3 DEF WakeIfDue, l, u
    <2>7. QED
      BY <1>1, <1>2, <2>2, <2>3, <2>5, <2>6
  <1>4. CASE ~(tick_count >= wake_time[scan])
    <2>1. WakeIfDue(lists, scan) = lists
      BY <1>4 DEF WakeIfDue
    <2>2. QED
      BY <1>1, <1>2, <2>1 DEF SchedInv
  <1>5. QED
    BY <1>3, <1>4

\* The operations that end in a call of schedule().
CallsSchedule ==
  \/ \E n \in SleepTicks : Sleep(n) \/ SyscallSleep(n)
  \/ \E link \in Pointer : Block(link)
  \/ Yield \/ Exit \/ TimerReturn

\* They call it with lists it can work on, and with no other task's state
\* changed than the caller's.
LEMMA CallReady ==
  ASSUME SchedInv, CallsSchedule
  PROVE  \E l : /\ ReadyToSchedule(l) /\ schedule(l)
                /\ \A t \in Tasks : t # current_task => l.state[t] = lists.state[t]
  <1>0. /\ NULL \notin Tasks /\ IdleTask \in Tasks /\ NULL \in Pointer
        /\ lists \in Lists /\ current_task \in Pointer
        /\ Scheduled(lists, current_task)
    BY SchedulerAssumption DEF SchedInv, TypeOK, Pointer
  <1>1. ASSUME NEW n \in SleepTicks, Sleep(n)
        PROVE  \E l : /\ ReadyToSchedule(l) /\ schedule(l)
                      /\ \A t \in Tasks : t # current_task => l.state[t] = lists.state[t]
    <2>1. current_task \in Tasks /\ lists.state[current_task] = "RUNNING"
          /\ current_task # IdleTask
      BY <1>0, <1>1 DEF Sleep, Running, InKernel, Scheduled, Pointer
    <2> DEFINE l == SleepPush(SetState(lists, current_task, "SLEEPING"), current_task)
    <2>2. WellFormedBut(l, NULL)
      BY <1>0, <2>1, SleepPushWellFormed DEF Scheduled
    <2>3. \A t \in Tasks : l.state[t] =
                            IF t = current_task THEN "SLEEPING" ELSE lists.state[t]
      BY <1>0 DEF SleepPush, SetState, Lists
    <2>4. schedule(l)
      BY <1>1 DEF Sleep
    <2> HIDE DEF l
    <2>5. ReadyToSchedule(l)
      BY <1>0, <2>1, <2>2, <2>3 DEF ReadyToSchedule, Scheduled
    <2>6. QED
      BY <2>3, <2>4, <2>5
  <1>2. ASSUME NEW n \in SleepTicks, SyscallSleep(n)
        PROVE  \E l : /\ ReadyToSchedule(l) /\ schedule(l)
                      /\ \A t \in Tasks : t # current_task => l.state[t] = lists.state[t]
    <2> DEFINE l == SetState(lists, current_task, "SLEEPING")
    <2>1. current_task \in Tasks /\ current_task # IdleTask /\ current_task # NULL
          /\ lists.next[current_task] = NULL
      BY <1>0, <1>2
         DEF SyscallSleep, Running, InKernel, Scheduled, Pointer, WellFormedBut,
             UnlinkedBut
    <2>2. l = [l EXCEPT !.next[current_task] = NULL]
      BY <1>0, <2>1 DEF SetState, Lists
    <2>3. ReadyToSchedule(l)
      BY <1>0, <2>1, <2>2, StopCurrent
    <2>4. schedule(l)
      BY <1>2 DEF SyscallSleep
    <2>5. \A t \in Tasks : t # current_task => l.state[t] = lists.state[t]
      BY <1>0 DEF SetState, Lists
    <2> HIDE DEF l
    <2>6. QED
      BY <2>3, <2>4, <2>5
  <1>3. ASSUME NEW link \in Pointer, Block(link)
        PROVE  \E l : /\ ReadyToSchedule(l) /\ schedule(l)
                      /\ \A t \in Tasks : t # current_task => l.state[t] = lists.state[t]
    <2> DEFINE l == [SetState(lists, current_task, "BLOCKED")
                       EXCEPT !.next[current_task] = link]
    <2>1. ReadyToSchedule(l)
      BY <1>0, <1>3, StopCurrent DEF Block, Running, InKernel
    <2>2. schedule(l)
      BY <1>3 DEF Block
    <2>3. \A t \in Tasks : t # current_task => l.state[t] = lists.state[t]
      BY <1>0 DEF SetState, Lists
    <2> HIDE DEF l
    <2>4. QED
      BY <2>1, <2>2, <2>3
  <1>4. ASSUME Exit
        PROVE  \E l : /\ ReadyToSchedule(l) /\ schedule(l)
                      /\ \A t \in Tasks : t # current_task => l.state[t] = lists.state[t]
    <2> DEFINE l == SetState(lists, current_task, "EXITED")
    <2>1. current_task \in Tasks /\ current_task \notin {NULL, IdleTask}
      BY <1>0, <1>4 DEF Exit, Running, InKernel, Pointer
    <2>2. l = [l EXCEPT !.next[current_task] = lists.next[current_task]]
          /\ lists.next[current_task] \in Pointer
      BY <1>0, <2>1 DEF SetState, Lists
    <2>3. ReadyToSchedule(l)
      BY <1>0, <2>1, <2>2, StopCurrent
    <2>4. schedule(l)
      BY <1>4 DEF Exit
    <2>5. \A t \in Tasks : t # current_task => l.state[t] = lists.state[t]
      BY <1>0 DEF SetState, Lists
    <2> HIDE DEF l
    <2>6. QED
      BY <2>3, <2>4, <2>5
  <1>5. ASSUME Yield \/ TimerReturn
        PROVE  \E l : /\ ReadyToSchedule(l) /\ schedule(l)
                      /\ \A t \in Tasks : t # current_task => l.state[t] = lists.state[t]
    <2>1. ReadyToSchedule(lists)
      BY <1>0 DEF ReadyToSchedule, Scheduled, Pointer
    <2>2. schedule(lists)
      BY <1>5 DEF Yield, TimerReturn
    <2>3. QED
      BY <2>1, <2>2
  <1>6. QED
    BY <1>1, <1>2, <1>3, <1>4, <1>5 DEF CallsSchedule

\* Every step keeps the invariant.
LEMMA NextSchedInv == SchedInv /\ [Next]_vars => SchedInv'
  <1> SUFFICES ASSUME SchedInv, [Next]_vars PROVE SchedInv'
    OBVIOUS
  <1>0. /\ NULL \notin Tasks /\ IdleTask \in Tasks /\ TickMod \in Nat \ {0}
        /\ SleepTicks \subseteq Nat /\ NULL \in Pointer
        /\ lists \in Lists /\ current_task \in Pointer
        /\ tick_count \in 0 .. TickMod - 1
        /\ wake_time \in [Tasks -> 0 .. TickMod - 1]
        /\ in_tick \in BOOLEAN /\ scan \in Pointer
        /\ Scheduled(lists, current_task)
        /\ scan # NULL => in_tick /\ lists.state[scan] = "SLEEPING"
    BY SchedulerAssumption DEF SchedInv, TypeOK, Pointer
  <1>a. ASSUME Scheduled(lists', current_task'), in_tick' \in BOOLEAN,
               scan' \in Pointer,
               tick_count' \in 0 .. TickMod - 1,
               wake_time' \in [Tasks -> 0 .. TickMod - 1],
               scan' # NULL => in_tick' /\ lists'.state[scan'] = "SLEEPING"
        PROVE  SchedInv'
    BY <1>a DEF SchedInv, TypeOK, Scheduled, WellFormedBut
  <1>b. CallsSchedule => Scheduled(lists', current_task')
    BY <1>0, CallReady, ScheduleScheduled
  <1>1. ASSUME NEW t \in Tasks, Start(t) PROVE SchedInv'
    <2>1. WellFormedBut(lists, t)
      BY <1>0, <1>1, TakeUnqueued DEF Start, Scheduled, Queued
    <2>2. Scheduled(task_enqueue(lists, t), current_task)
      BY <1>0, <1>1, <2>1, EnqueueScheduled DEF Start, Scheduled
    <2>3. QED
      BY <1>0, <1>1, <1>a, <2>2 DEF Start, InKernel
  <1>2. ASSUME NEW t \in Tasks, Wake(t) PROVE SchedInv'
    BY <1>0, <1>2, <1>a, WakeScheduled DEF Wake
  <1>c. ASSUME NEW n \in SleepTicks,
               wake_time' = [wake_time EXCEPT ![current_task] = (tick_count + n) % TickMod]
        PROVE  wake_time' \in [Tasks -> 0 .. TickMod - 1]
    <2>1. tick_count + n \in Nat
      BY <1>0
    <2>2. (tick_count + n) % TickMod \in 0 .. TickMod - 1
      BY <2>1, TickType
    <2>3. QED
      BY <1>0, <1>c, <2>2
  <1>3. ASSUME NEW n \in SleepTicks, Sleep(n) \/ SyscallSleep(n) PROVE SchedInv'
    <2>1. Scheduled(lists', current_task')
      BY <1>3, <1>b DEF CallsSchedule
    <2>2. wake_time' \in [Tasks -> 0 .. TickMod - 1]
      BY <1>3, <1>c DEF Sleep, SyscallSleep
    <2>3. QED
      BY <1>0, <1>3, <1>a, <2>1, <2>2 DEF Sleep, SyscallSleep, Running, InKernel
  <1>5. ASSUME NEW link \in Pointer, Block(link) PROVE SchedInv'
    <2>1. Scheduled(lists', current_task')
      BY <1>5, <1>b DEF CallsSchedule
    <2>2. QED
      BY <1>0, <1>5, <1>a, <2>1 DEF Block, Running, InKernel
  <1>6. ASSUME Exit PROVE SchedInv'
    <2>1. Scheduled(lists', current_task')
      BY <1>6, <1>b DEF CallsSchedule
    <2>2. QED
      BY <1>0, <1>6, <1>a, <2>1 DEF Exit, Running, InKernel
  <1>7. ASSUME Yield PROVE SchedInv'
    <2>1. Scheduled(lists', current_task')
      BY <1>7, <1>b DEF CallsSchedule
    <2>2. QED
      BY <1>0, <1>7, <1>a, <2>1 DEF Yield, InKernel
  <1>8. ASSUME TimerInterrupt PROVE SchedInv'
    <2>1. tick_count' \in 0 .. TickMod - 1
      BY <1>0, <1>8, TickType DEF TimerInterrupt
    <2>2. scan' \in Pointer /\ (scan' # NULL => lists'.state[scan'] = "SLEEPING")
      BY <1>0, <1>8 DEF TimerInterrupt, Scheduled, WellFormedBut, HeadsBut, Lists
    <2>3. in_tick' = TRUE
      BY <1>8 DEF TimerInterrupt
    <2>4. QED
      BY <1>0, <1>8, <1>a, <2>1, <2>2, <2>3 DEF TimerInterrupt
  <1>9. ASSUME WalkSleeper PROVE SchedInv'
    BY <1>0, <1>9, <1>a, WalkScheduled DEF WalkSleeper
  <1>10. ASSUME TimerReturn PROVE SchedInv'
    <2>1. Scheduled(lists', current_task')
      BY <1>10, <1>b DEF CallsSchedule
    <2>2. in_tick' \in BOOLEAN
      BY <1>10 DEF TimerReturn
    <2>3. QED
      BY <1>0, <1>10, <1>a, <2>1, <2>2 DEF TimerReturn
  <1>11. CASE UNCHANGED vars
    BY <1>0, <1>11, <1>a DEF vars
  <1>12. QED
    BY <1>1, <1>2, <1>3, <1>5, <1>6, <1>7, <1>8, <1>9, <1>10, <1>11 DEF Next

-----------------------------------------------------------------------------
(* What is linked to a head. *)

LEMMA ReachHead ==
  ASSUME NEW next, NEW h \in Tasks
  PROVE  h \in Reach(next, h)
  BY SchedulerAssumption DEF Reach

LEMMA ReachNext ==
  ASSUME NEW next \in [Tasks -> Pointer], NEW h, NEW t \in Reach(next, h), next[t] # NULL
  PROVE  next[t] \in Reach(next, h)
  <1>1. t \in Tasks /\ next[t] \in Tasks
    BY DEF Reach, Pointer
  <1>2. ASSUME NEW S \in SUBSET Tasks, h \in S \union {NULL},
               \A u \in S : next[u] \in S \union {NULL}
        PROVE  next[t] \in S
    <2>1. t \in S
      BY <1>2 DEF Reach
    <2>2. QED
      BY <1>2, <2>1
  <1>3. QED
    BY <1>1, <1>2 DEF Reach

LEMMA ReachLeast ==
  ASSUME NEW next, NEW h, NEW S \in SUBSET Tasks, h \in S \union {NULL},
         \A u \in S : next[u] \in S \union {NULL}
  PROVE  Reach(next, h) \subseteq S
  BY DEF Reach

LEMMA ReachNull ==
  ASSUME NEW next
  PROVE  Reach(next, NULL) = {}
  <1>1. PICK S \in SUBSET Tasks : S = {}
    OBVIOUS
  <1>2. Reach(next, NULL) \subseteq S
    BY <1>1, ReachLeast
  <1>3. QED
    BY <1>1, <1>2

\* A chain none of whose links a step changes is the same chain.
LEMMA ReachFrame ==
  ASSUME NEW n1 \in [Tasks -> Pointer], NEW n2 \in [Tasks -> Pointer], NEW h \in Pointer,
         \A u \in Reach(n1, h) : n2[u] = n1[u]
  PROVE  Reach(n2, h) = Reach(n1, h)
  <1>0. Reach(n1, h) \subseteq Tasks
    BY DEF Reach
  <1>h. h # NULL => h \in Reach(n1, h) /\ h \in Reach(n2, h)
    BY ReachHead DEF Pointer
  <1>1. Reach(n2, h) \subseteq Reach(n1, h)
    <2>1. \A u \in Reach(n1, h) : n2[u] \in Reach(n1, h) \union {NULL}
      BY ReachNext
    <2>2. h \in Reach(n1, h) \union {NULL}
      BY <1>h
    <2>3. QED
      BY <1>0, <2>1, <2>2, ReachLeast
  <1>2. Reach(n1, h) \subseteq Reach(n2, h)
    <2> DEFINE S == Reach(n1, h) \intersect Reach(n2, h)
    <2>1. ASSUME NEW u \in S PROVE n1[u] \in S \union {NULL}
      <3>1. n1[u] # NULL => n1[u] \in Reach(n1, h)
        BY ReachNext
      <3>2. n2[u] # NULL => n2[u] \in Reach(n2, h)
        BY ReachNext
      <3>3. QED
        BY <3>1, <3>2
    <2>2. h \in S \union {NULL}
      BY <1>h
    <2>3. S \in SUBSET Tasks
      BY <1>0
    <2> HIDE DEF S
    <2>4. Reach(n1, h) \subseteq S
      BY <2>1, <2>2, <2>3, ReachLeast
    <2>5. QED
      BY <2>4 DEF S
  <1>3. QED
    BY <1>1, <1>2

\* A runnable task is linked to the head of its level; the exception is an idle
\* task that has never run.
LEMMA RunnableLinked ==
  ASSUME NEW l, WellFormedBut(l, NULL), NEW t \in Tasks, l.state[t] = "RUNNABLE",
         t # IdleTask
  PROVE  t \in Reach(l.next, l.runnable_queue[Level(t)])
  <1> USE DEF Queued
  <1>0. /\ l \in Lists /\ LinksBut(l, NULL) /\ FirstBut(l, NULL) /\ NULL \notin Tasks
        /\ l.next \in [Tasks -> Pointer]
    BY SchedulerAssumption DEF WellFormedBut, Lists
  <1>1. PICK r \in [Tasks -> Nat] : Ranked(l, NULL, r)
    BY DEF WellFormedBut, Acyclic
  <1>2. PICK p : p = Level(t)
    OBVIOUS
  <1> DEFINE R == Reach(l.next, l.runnable_queue[p])
             S == {u \in Tasks : /\ l.state[u] = "RUNNABLE" /\ Level(u) = p
                                 /\ u \notin R /\ (u # IdleTask \/ l.next[u] # NULL)}
  <1>3. l.runnable_queue[p] \in Tasks => l.runnable_queue[p] \in R
    BY ReachHead
  <1>4. \A u \in R : l.next[u] # NULL => l.next[u] \in R
    BY <1>0, ReachNext
  <1> HIDE DEF R
  <1>5. S = {}
    <2> SUFFICES ASSUME S # {} PROVE FALSE
      OBVIOUS
    <2>1. PICK m \in {r[u] : u \in S} : \A n \in {r[u] : u \in S} : m <= n
      <3>1. {r[u] : u \in S} \subseteq Nat /\ {r[u] : u \in S} # {}
        OBVIOUS
      <3>2. QED
        BY <3>1, Smallest
    <2>2. PICK u \in S : m = r[u]
      OBVIOUS
    <2>3. l.prev[u] # NULL
      BY <1>0, <1>3 DEF FirstBut
    <2>4. PICK v \in Tasks : v = l.prev[u]
      BY <1>0, <2>3 DEF Lists, Pointer
    <2>5. l.next[v] = u /\ l.state[v] = "RUNNABLE" /\ Level(v) = p
      BY <1>0, <2>3, <2>4 DEF LinksBut, SameQueue
    <2>6. r[v] < r[u]
      BY <1>0, <1>1, <2>5 DEF Ranked
    <2>7. v \notin R
      BY <1>0, <1>4, <2>5
    <2>8. v \in S
      BY <1>0, <2>5, <2>7
    <2>9. m <= r[v]
      BY <2>1, <2>8
    <2>10. QED
      BY <2>2, <2>6, <2>9
  <1>6. t \in R
    BY <1>2, <1>5
  <1>7. QED
    BY <1>2, <1>6 DEF R

-----------------------------------------------------------------------------
(* What schedule() leaves alone, and what it chooses. *)

\* Tasks that are neither runnable nor running keep their state and their
\* successor, and no others get such a state.
KeepsStopped(l, m) ==
  /\ m.sleep_queue = l.sleep_queue
  /\ \A t \in Tasks :
       /\ l.state[t] \notin {"RUNNABLE", "RUNNING"} =>
            m.state[t] = l.state[t] /\ m.next[t] = l.next[t]
       /\ m.state[t] \notin {"RUNNABLE", "RUNNING"} => l.state[t] = m.state[t]

\* No runnable task but the preempted one, old, outranks the one that runs.
OutrankedBy(m, old, new) ==
  \A t \in Tasks : m.state[t] = "RUNNABLE" /\ Level(t) > Level(new) => t = old

LEMMA SwitchToKeeps ==
  ASSUME NEW l \in Lists, NEW n \in Tasks, current_task \in Pointer,
         SwitchTo(l, n), n # current_task
  PROVE  /\ current_task' = n
         /\ lists'.sleep_queue = l.sleep_queue
         /\ \A t \in Tasks :
              /\ lists'.state[t] =
                   IF t = n THEN "RUNNING"
                   ELSE IF t = current_task /\ l.state[t] = "RUNNING" THEN "RUNNABLE"
                   ELSE l.state[t]
              /\ (t = current_task => l.state[t] # "RUNNING") =>
                   lists'.next[t] = l.next[t]
  <1> DEFINE r == SetState(l, n, "RUNNING")
  <1>1. /\ r \in Lists
        /\ r.sleep_queue = l.sleep_queue /\ r.next = l.next
        /\ r.state = [l.state EXCEPT ![n] = "RUNNING"]
    BY DEF SetState, Lists, TaskState
  <1> HIDE DEF r
  <1>2. /\ current_task' = n
        /\ lists' = IF current_task # NULL /\ r.state[current_task] = "RUNNING"
                      THEN task_enqueue(r, current_task) ELSE r
    BY DEF SwitchTo, r
  <1>3. \A t \in Tasks : r.state[t] = IF t = n THEN "RUNNING" ELSE l.state[t]
    BY <1>1 DEF Lists
  <1>4. CASE current_task # NULL /\ r.state[current_task] = "RUNNING"
    <2>1. current_task \in Tasks
      BY <1>4 DEF Pointer
    <2>2. /\ task_enqueue(r, current_task).sleep_queue = r.sleep_queue
          /\ \A t \in Tasks :
               /\ task_enqueue(r, current_task).state[t] =
                    IF t = current_task THEN "RUNNABLE" ELSE r.state[t]
               /\ t # current_task => task_enqueue(r, current_task).next[t] = r.next[t]
      BY <1>1, <2>1 DEF task_enqueue, Lists
    <2>3. lists' = task_enqueue(r, current_task)
      BY <1>2, <1>4
    <2>4. l.state[current_task] = "RUNNING"
      BY <1>3, <1>4, <2>1
    <2>5. QED
      BY <1>1, <1>2, <1>3, <2>1, <2>2, <2>3, <2>4
  <1>5. CASE ~(current_task # NULL /\ r.state[current_task] = "RUNNING")
    <2>1. lists' = r
      BY <1>2, <1>5
    <2>2. \A t \in Tasks : t = current_task => l.state[t] # "RUNNING"
      BY <1>3, <1>5, SchedulerAssumption
    <2>3. QED
      BY <1>1, <1>2, <1>3, <2>1, <2>2
  <1>6. QED
    BY <1>4, <1>5

LEMMA ScheduleKeeps ==
  ASSUME NEW l, ReadyToSchedule(l), current_task \in Pointer, schedule(l)
  PROVE  /\ KeepsStopped(l, lists')
         /\ current_task' # current_task => OutrankedBy(lists', current_task, current_task')
  <1>0. /\ l \in Lists /\ NULL \notin Tasks /\ IdleTask \in Tasks
        /\ HeadsBut(l, NULL) /\ WellFormedBut(l, NULL)
        /\ Level(IdleTask) = 0 /\ \A t \in Tasks : Level(t) \in Nat
    BY SchedulerAssumption DEF ReadyToSchedule, WellFormedBut, Level
  <1>1. ASSUME NEW p \in Levels, IsTop(l, p),
               SwitchTo(task_dequeue(l, l.runnable_queue[p]), l.runnable_queue[p])
        PROVE  /\ KeepsStopped(l, lists')
               /\ OutrankedBy(lists', current_task, current_task')
    <2>1. PICK n \in Tasks : /\ n = l.runnable_queue[p] /\ l.state[n] = "RUNNABLE"
                             /\ l.prev[n] = NULL /\ Level(n) = p
      BY <1>0, <1>1 DEF IsTop, HeadsBut, Lists, Pointer
    <2>2. PICK d : d = task_dequeue(l, n)
      OBVIOUS
    <2>3. d \in Lists /\ d.state = l.state /\ d.sleep_queue = l.sleep_queue
          /\ \A t \in Tasks : t # n => d.next[t] = l.next[t]
      <3>1. WellFormedBut(d, n) /\ d.state = l.state
        BY <1>0, <2>1, <2>2, DequeueWellFormed
      <3>2. d.sleep_queue = l.sleep_queue
            /\ d.next = [u \in Tasks |-> IF u = n THEN NULL
                                         ELSE IF u = l.prev[n] THEN l.next[n] ELSE l.next[u]]
        BY <1>0, <2>2 DEF task_dequeue, Lists
      <3>3. QED
        BY <1>0, <2>1, <3>1, <3>2 DEF WellFormedBut
    <2>4. n # current_task /\ SwitchTo(d, n)
      BY <1>0, <1>1, <2>1, <2>2 DEF ReadyToSchedule
    <2>5. /\ current_task' = n
          /\ lists'.sleep_queue = d.sleep_queue
          /\ \A t \in Tasks :
               /\ lists'.state[t] =
                    IF t = n THEN "RUNNING"
                    ELSE IF t = current_task /\ d.state[t] = "RUNNING" THEN "RUNNABLE"
                    ELSE d.state[t]
               /\ (t = current_task => d.state[t] # "RUNNING") =>
                    lists'.next[t] = d.next[t]
      BY <2>3, <2>4, SwitchToKeeps
    <2>6. KeepsStopped(l, lists')
      BY <2>1, <2>3, <2>5 DEF KeepsStopped
    <2>7. OutrankedBy(lists', current_task, current_task')
      <3> SUFFICES ASSUME NEW t \in Tasks, lists'.state[t] = "RUNNABLE", Level(t) > p,
                          t # current_task
                   PROVE  FALSE
        BY <2>1, <2>5 DEF OutrankedBy
      <3>1. l.state[t] = "RUNNABLE"
        BY <2>3, <2>5
      <3>2. l.runnable_queue[Level(t)] = NULL /\ Level(t) \in Levels
        BY <1>1, LevelType DEF IsTop
      <3>3. t = IdleTask
        BY <1>0, <3>1, <3>2, EmptyLevel
      <3>4. QED
        BY <1>0, <3>3 DEF Levels
    <2>8. QED
      BY <2>6, <2>7
  <1>2. ASSUME \A p \in Levels : l.runnable_queue[p] = NULL, SwitchTo(l, IdleTask)
        PROVE  /\ KeepsStopped(l, lists')
               /\ current_task' # current_task =>
                    OutrankedBy(lists', current_task, current_task')
    <2>1. CASE IdleTask = current_task
      BY <1>2, <2>1 DEF SwitchTo, KeepsStopped
    <2>2. CASE IdleTask # current_task
      <3>1. l.state[IdleTask] = "RUNNABLE"
        BY <1>0, <2>2 DEF ReadyToSchedule
      <3>2. /\ current_task' = IdleTask
            /\ lists'.sleep_queue = l.sleep_queue
            /\ \A t \in Tasks :
                 /\ lists'.state[t] =
                      IF t = IdleTask THEN "RUNNING"
                      ELSE IF t = current_task /\ l.state[t] = "RUNNING" THEN "RUNNABLE"
                      ELSE l.state[t]
                 /\ (t = current_task => l.state[t] # "RUNNING") =>
                      lists'.next[t] = l.next[t]
        BY <1>0, <1>2, <2>2, SwitchToKeeps
      <3>3. KeepsStopped(l, lists')
        BY <3>1, <3>2 DEF KeepsStopped
      <3>4. OutrankedBy(lists', current_task, current_task')
        <4> SUFFICES ASSUME NEW t \in Tasks, lists'.state[t] = "RUNNABLE",
                            t # current_task
                     PROVE  FALSE
          BY DEF OutrankedBy
        <4>1. l.state[t] = "RUNNABLE" /\ t # IdleTask
          BY <3>2
        <4>2. QED
          BY <1>0, <1>2, <4>1, LevelType, EmptyLevel
      <3>5. QED
        BY <3>3, <3>4
    <2>3. QED
      BY <2>1, <2>2
  <1>3. QED
    BY <1>1, <1>2 DEF schedule

\* Every step of the scheduler, for the two action properties.
LEMMA StepKeeps ==
  ASSUME SchedInv, [Next]_vars
  PROVE  /\ \A t \in Tasks : lists.state[t] = "EXITED" => lists'.state[t] = "EXITED"
         /\ current_task' # current_task => OutrankedBy(lists', current_task, current_task')
  <1>0. /\ NULL \notin Tasks /\ lists \in Lists /\ current_task \in Pointer
        /\ Scheduled(lists, current_task)
        /\ scan # NULL => scan \in Tasks /\ lists.state[scan] = "SLEEPING"
    BY SchedulerAssumption DEF SchedInv, TypeOK, Pointer
  <1>1. CASE CallsSchedule
    <2>1. PICK l : /\ ReadyToSchedule(l) /\ schedule(l)
                   /\ \A t \in Tasks : t # current_task => l.state[t] = lists.state[t]
      BY <1>1, CallReady
    <2>2. /\ KeepsStopped(l, lists')
          /\ current_task' # current_task => OutrankedBy(lists', current_task, current_task')
      BY <1>0, <2>1, ScheduleKeeps
    <2>3. \A t \in Tasks : lists.state[t] = "EXITED" => t # current_task
      BY <1>0 DEF Scheduled
    <2>4. QED
      BY <2>1, <2>2, <2>3 DEF KeepsStopped
  <1>e. ASSUME NEW l \in Lists, NEW x \in Tasks, NEW t \in Tasks, t # x
        PROVE  task_enqueue(l, x).state[t] = l.state[t]
    BY <1>e DEF task_enqueue, Lists
  <1>u. ASSUME NEW x \in Tasks
        PROVE  /\ SleepUnlink(lists, x) \in Lists /\ SleepUnlink(lists, x).state = lists.state
    BY <1>0 DEF SleepUnlink, Lists, Pointer
  <1>2. ASSUME NEW x \in Tasks, Start(x)
        PROVE  /\ \A t \in Tasks : lists.state[t] = "EXITED" => lists'.state[t] = "EXITED"
               /\ current_task' = current_task
    BY <1>0, <1>2, <1>e DEF Start
  <1>3. ASSUME NEW x \in Tasks, Wake(x)
        PROVE  /\ \A t \in Tasks : lists.state[t] = "EXITED" => lists'.state[t] = "EXITED"
               /\ current_task' = current_task
    <2>1. lists' = task_wake(lists, x) /\ current_task' = current_task
      BY <1>3 DEF Wake
    <2>2. CASE lists.state[x] = "SLEEPING"
      <3>1. lists' = task_enqueue(SleepUnlink(lists, x), x)
        BY <2>1, <2>2 DEF task_wake
      <3>2. QED
        BY <1>e, <1>u, <2>1, <2>2, <3>1
    <2>3. CASE lists.state[x] = "BLOCKED"
      <3>1. lists' = task_enqueue(lists, x)
        BY <2>1, <2>3 DEF task_wake
      <3>2. QED
        BY <1>0, <1>e, <2>1, <2>3, <3>1
    <2>4. CASE lists.state[x] \notin {"SLEEPING", "BLOCKED"}
      BY <2>1, <2>4 DEF task_wake
    <2>5. QED
      BY <2>2, <2>3, <2>4
  <1>4. ASSUME WalkSleeper
        PROVE  /\ \A t \in Tasks : lists.state[t] = "EXITED" => lists'.state[t] = "EXITED"
               /\ current_task' = current_task
    <2>1. lists' = WakeIfDue(lists, scan) /\ current_task' = current_task
          /\ scan \in Tasks /\ lists.state[scan] = "SLEEPING"
      BY <1>0, <1>4 DEF WalkSleeper
    <2>2. CASE tick_count >= wake_time[scan]
      <3> DEFINE l == [SleepUnlink(lists, scan) EXCEPT !.next[scan] = NULL, !.prev[scan] = NULL]
      <3>1. l \in Lists /\ l.state = lists.state
        BY <1>u, <2>1 DEF Lists, Pointer
      <3>2. lists' = task_enqueue(l, scan)
        BY <2>1, <2>2 DEF WakeIfDue
      <3> HIDE DEF l
      <3>3. QED
        BY <1>e, <2>1, <3>1, <3>2
    <2>3. CASE ~(tick_count >= wake_time[scan])
      BY <2>1, <2>3 DEF WakeIfDue
    <2>4. QED
      BY <2>2, <2>3
  <1>5. CASE TimerInterrupt \/ UNCHANGED vars
    BY <1>5 DEF TimerInterrupt, vars
  <1>6. QED
    BY <1>1, <1>2, <1>3, <1>4, <1>5 DEF Next, CallsSchedule

-----------------------------------------------------------------------------
(* The timer handler's walk of the sleep queue. *)

\* While the walk is on, what it has passed on the sleep queue is not due.
WalkInv ==
  in_tick => \A t \in Linked(lists.sleep_queue) :
               tick_count < wake_time[t] \/ t \in Linked(scan)

\* What is linked to a task is that task and what is linked to its successor.
LEMMA ReachStep ==
  ASSUME NEW next \in [Tasks -> Pointer], NEW h \in Tasks
  PROVE  Reach(next, h) \subseteq {h} \union Reach(next, next[h])
  <1> DEFINE S == {h} \union Reach(next, next[h])
  <1>1. S \in SUBSET Tasks
    BY DEF Reach
  <1>2. ASSUME NEW u \in S PROVE next[u] \in S \union {NULL}
    <2>1. CASE u = h
      BY <2>1, ReachHead DEF Pointer
    <2>2. CASE u \in Reach(next, next[h])
      BY <2>2, ReachNext
    <2>3. QED
      BY <2>1, <2>2
  <1> HIDE DEF S
  <1>3. h \in S \union {NULL}
    BY DEF S
  <1>4. Reach(next, h) \subseteq S
    BY <1>1, <1>2, <1>3, ReachLeast
  <1>5. QED
    BY <1>4 DEF S

\* One iteration: unlinking the sleeper the cursor stands on takes nothing else
\* off the queue, and nothing off what is still to be walked.
LEMMA WalkStep ==
  ASSUME SchedInv, WalkInv, WalkSleeper
  PROVE  WalkInv'
  <1>0. /\ lists \in Lists /\ NULL \notin Tasks /\ WellFormedBut(lists, NULL)
        /\ scan \in Tasks /\ lists.state[scan] = "SLEEPING"
        /\ lists.next \in [Tasks -> Pointer] /\ lists.sleep_queue \in Pointer
        /\ LinksBut(lists, NULL) /\ in_tick
        /\ tick_count \in Int /\ wake_time \in [Tasks -> Int]
    BY SchedulerAssumption
       DEF WalkSleeper, SchedInv, Scheduled, TypeOK, Pointer, WellFormedBut, Lists
  <1>1. PICK nx \in Pointer : nx = lists.next[scan] /\ scan' = nx
    BY <1>0 DEF WalkSleeper
  <1>2. UNCHANGED <<tick_count, wake_time>> /\ lists' = WakeIfDue(lists, scan)
    BY DEF WalkSleeper
  <1>3. PICK old : old = lists.next
    OBVIOUS
  <1>4. PICK sq : sq = lists.sleep_queue
    OBVIOUS
  <1>5. /\ old \in [Tasks -> Pointer] /\ sq \in Pointer /\ nx = old[scan]
        /\ \A t \in Reach(old, sq) : tick_count < wake_time[t] \/ t \in Reach(old, scan)
        /\ Reach(old, sq) \subseteq Tasks
    BY <1>0, <1>1, <1>3, <1>4 DEF WalkInv, Linked, Reach
  <1>6. CASE ~(tick_count >= wake_time[scan])
    <2>1. lists' = lists
      BY <1>2, <1>6 DEF WakeIfDue
    <2>2. Reach(old, scan) \subseteq {scan} \union Reach(old, nx)
      BY <1>0, <1>5, ReachStep
    <2>3. \A t \in Reach(old, sq) : tick_count < wake_time[t] \/ t \in Reach(old, nx)
      BY <1>0, <1>5, <1>6, <2>2
    <2>4. QED
      BY <1>1, <1>2, <1>3, <1>4, <2>1, <2>3 DEF WalkInv, Linked
  <1>7. CASE tick_count >= wake_time[scan]
    <2>1. PICK new : new = lists'.next
      OBVIOUS
    <2>2. PICK pv \in Pointer : pv = lists.prev[scan]
      BY <1>0 DEF Lists
    <2>3. /\ new \in [Tasks -> Pointer]
          /\ \A u \in Tasks : u # scan => new[u] = IF u = pv THEN nx ELSE old[u]
          /\ lists'.sleep_queue = IF sq = scan THEN nx ELSE sq
      <3> DEFINE v == SleepUnlink(lists, scan)
                 l == [v EXCEPT !.next[scan] = NULL, !.prev[scan] = NULL]
      <3>1. /\ v \in Lists
            /\ v.sleep_queue = IF sq = scan THEN nx ELSE sq
            /\ v.next = [u \in Tasks |-> IF u = pv THEN nx ELSE old[u]]
        BY <1>0, <1>1, <1>3, <1>4, <2>2 DEF SleepUnlink, Lists, Pointer
      <3> HIDE DEF v
      <3>2. /\ l \in Lists /\ l.sleep_queue = v.sleep_queue
            /\ \A u \in Tasks : u # scan => l.next[u] = v.next[u]
        BY <1>0, <3>1 DEF Lists, Pointer
      <3>3. lists' = task_enqueue(l, scan)
        BY <1>2, <1>7 DEF WakeIfDue, v
      <3> HIDE DEF l
      <3>4. /\ task_enqueue(l, scan).sleep_queue = l.sleep_queue
            /\ \A u \in Tasks : u # scan => task_enqueue(l, scan).next[u] = l.next[u]
            /\ task_enqueue(l, scan).next \in [Tasks -> Pointer]
        BY <1>0, <3>2, LevelType DEF task_enqueue, Lists, Pointer
      <3>5. QED
        BY <2>1, <3>1, <3>2, <3>3, <3>4
    <2>4. /\ nx # NULL => nx \in Tasks /\ nx # scan
          /\ \A u \in Tasks : old[u] = scan /\ lists.state[u] = "SLEEPING" => u = pv
          /\ pv # NULL => old[pv] = scan
      <3>1. nx # NULL => nx \in Tasks /\ nx # scan
        BY <1>0, <1>1 DEF WellFormedBut, Acyclic, Ranked, Queued, Pointer
      <3>2. \A u \in Tasks : old[u] = scan /\ lists.state[u] = "SLEEPING" => u = pv
        BY <1>0, <1>3, <2>2 DEF LinksBut, Queued
      <3>3. pv # NULL => old[pv] = scan
        BY <1>0, <1>3, <2>2 DEF LinksBut, Queued
      <3>4. QED
        BY <3>1, <3>2, <3>3
    \* What is still to be walked is linked behind the new cursor.
    <2>5. Reach(old, scan) \subseteq {scan} \union Reach(new, nx)
      <3> DEFINE S == {scan} \union Reach(new, nx)
      <3>1. S \in SUBSET Tasks /\ scan \in S \union {NULL}
        BY <1>0 DEF Reach
      <3>2. ASSUME NEW u \in S PROVE old[u] \in S \union {NULL}
        <4>1. CASE u = scan
          BY <1>5, <2>4, <4>1, ReachHead
        <4>2. CASE u # scan /\ u = pv
          BY <1>0, <2>4, <4>2, <3>1
        <4>3. CASE u # scan /\ u # pv
          <5>1. u \in Reach(new, nx) /\ new[u] = old[u]
            BY <2>3, <3>1, <4>3
          <5>2. QED
            BY <2>3, <5>1, ReachNext
        <4>4. QED
          BY <4>1, <4>2, <4>3
      <3> HIDE DEF S
      <3>3. Reach(old, scan) \subseteq S
        BY <3>1, <3>2, ReachLeast
      <3>4. QED
        BY <3>3 DEF S
    \* And every task the new queue links was linked to the old one.
    <2>6. PICK hd \in Pointer : hd = lists'.sleep_queue
      BY <1>5, <2>3
    <2> DEFINE S == {t \in Reach(old, sq) : /\ t # scan /\ lists.state[t] = "SLEEPING"
                                            /\ tick_count < wake_time[t] \/ t \in Reach(new, nx)}
    <2>7. /\ sq # NULL => sq \in Tasks /\ sq \in Reach(old, sq) /\ lists.state[sq] = "SLEEPING"
          /\ \A u \in Reach(old, sq) : old[u] # NULL => old[u] \in Reach(old, sq)
          /\ \A u \in Tasks : lists.state[u] = "SLEEPING" /\ old[u] # NULL =>
                               lists.state[old[u]] = "SLEEPING"
      <3>1. sq # NULL => sq \in Tasks /\ sq \in Reach(old, sq) /\ lists.state[sq] = "SLEEPING"
        BY <1>0, <1>4, ReachHead DEF WellFormedBut, HeadsBut, Pointer
      <3>2. \A u \in Reach(old, sq) : old[u] # NULL => old[u] \in Reach(old, sq)
        BY <1>5, ReachNext
      <3>3. \A u \in Tasks : lists.state[u] = "SLEEPING" /\ old[u] # NULL =>
                             lists.state[old[u]] = "SLEEPING"
        BY <1>0, <1>3 DEF LinksBut, Queued, SameQueue
      <3>4. QED
        BY <3>1, <3>2, <3>3
    \* A sleeper of the old queue other than the one unlinked is in S.
    <2>8. ASSUME NEW t \in Reach(old, sq), t # scan, lists.state[t] = "SLEEPING"
          PROVE  t \in S
      BY <1>5, <2>5, <2>8
    <2>9. hd \in S \union {NULL}
      <3>1. CASE sq = scan
        <4>1. hd = nx
          BY <2>3, <2>6, <3>1
        <4>2. nx # NULL => nx \in Reach(old, sq) /\ lists.state[nx] = "SLEEPING"
          BY <1>0, <1>5, <2>7, <3>1
        <4>3. QED
          BY <2>4, <2>8, <4>1, <4>2
      <3>2. CASE sq # scan
        <4>1. hd = sq
          BY <2>3, <2>6, <3>2
        <4>2. QED
          BY <2>7, <2>8, <3>2, <4>1
      <3>3. QED
        BY <3>1, <3>2
    <2>10. ASSUME NEW u \in S PROVE new[u] \in S \union {NULL}
      <3>1. u \in Tasks /\ u # scan /\ u \in Reach(old, sq) /\ lists.state[u] = "SLEEPING"
        BY <1>5
      <3>2. CASE u = pv
        <4>1. new[u] = nx /\ old[u] = scan
          BY <1>0, <2>3, <2>4, <3>1, <3>2
        <4>2. scan \in Reach(old, sq)
          BY <1>0, <2>7, <3>1, <4>1
        <4>3. nx # NULL => nx \in Reach(old, sq) /\ lists.state[nx] = "SLEEPING"
          BY <1>0, <1>5, <2>7, <4>2
        <4>4. QED
          BY <2>4, <2>8, <4>1, <4>3
      <3>3. CASE u # pv
        <4>1. new[u] = old[u] /\ old[u] # scan
          BY <2>3, <2>4, <3>1, <3>3
        <4>2. QED
          BY <2>7, <2>8, <3>1, <4>1
      <3>4. QED
        BY <3>2, <3>3
    <2>11. S \in SUBSET Tasks
      BY <1>5
    <2>12. \A t \in S : tick_count < wake_time[t] \/ t \in Reach(new, nx)
      OBVIOUS
    <2> HIDE DEF S
    <2>13. Reach(new, hd) \subseteq S
      BY <2>9, <2>10, <2>11, ReachLeast
    <2>14. QED
      BY <1>1, <1>2, <2>1, <2>6, <2>12, <2>13 DEF WalkInv, Linked
  <1>8. QED
    BY <1>6, <1>7

LEMMA NextWalkInv == SchedInv /\ WalkInv /\ [Next]_vars => WalkInv'
  <1> SUFFICES ASSUME SchedInv, WalkInv, [Next]_vars PROVE WalkInv'
    OBVIOUS
  <1>1. CASE WalkSleeper
    BY <1>1, WalkStep
  <1>2. CASE TimerInterrupt
    BY <1>2 DEF TimerInterrupt, WalkInv, Linked
  <1>3. CASE UNCHANGED vars
    BY <1>3 DEF vars, WalkInv, Linked
  <1>4. ASSUME NEW t \in Tasks, Start(t) \/ Wake(t) PROVE WalkInv'
    <2>1. in_tick' = FALSE
      BY <1>4 DEF Start, Wake, InKernel, SchedInv, TypeOK
    <2>2. QED
      BY <2>1 DEF WalkInv
  <1>5. CASE CallsSchedule
    <2>1. in_tick' = FALSE
      BY <1>5 DEF CallsSchedule, Sleep, SyscallSleep, Block, Yield, Exit, TimerReturn,
                  Running, InKernel, SchedInv, TypeOK
    <2>2. QED
      BY <2>1 DEF WalkInv
  <1>6. QED
    BY <1>1, <1>2, <1>3, <1>4, <1>5 DEF Next, CallsSchedule

-----------------------------------------------------------------------------

\* The inductive invariant holds in every reachable state.
THEOREM SpecSchedInv == Spec => []SchedInv
  BY InitSchedInv, NextSchedInv, PTL DEF Spec

\* Type correctness of the scheduler's state.
THEOREM SpecTypeOK == Spec => []TypeOK
  <1>1. SchedInv => TypeOK
    BY DEF SchedInv
  <1>2. QED
    BY <1>1, SpecSchedInv, PTL

\* The run queues and the sleep queue stay well formed doubly linked lists
\* under every sequence of starts, yields, sleeps, blocks, wakes, exits and
\* timer interrupts.
THEOREM SpecQueuesWellFormed == Spec => []QueuesWellFormed
  <1>1. SchedInv => QueuesWellFormed
    <2> SUFFICES ASSUME SchedInv PROVE QueuesWellFormed
      OBVIOUS
    <2> USE SchedulerAssumption DEF SchedInv, Scheduled, WellFormedBut, Queued
    <2>1. HeadsOK(lists)
      BY DEF HeadsOK, HeadsBut
    <2>2. LinksOK(lists)
      BY DEF LinksOK, LinksBut
    <2>3. UnlinkedOK(lists)
      BY DEF UnlinkedOK, UnlinkedBut
    <2>4. FirstIsHead(lists)
      BY DEF FirstIsHead, FirstBut
    <2>5. QED
      BY <2>1, <2>2, <2>3, <2>4 DEF QueuesWellFormed
  <1>2. QED
    BY <1>1, SpecSchedInv, PTL

\* Exactly the task that has the CPU is marked RUNNING.
THEOREM SpecCurrentIsRunning == Spec => []CurrentIsRunning
  <1>1. SchedInv => CurrentIsRunning
    BY DEF SchedInv, Scheduled, CurrentIsRunning
  <1>2. QED
    BY <1>1, SpecSchedInv, PTL

\* scheduler_pick_next never misses a runnable task: only a level without
\* runnable tasks has a NULL head.
THEOREM SpecNoRunnableHidden == Spec => []NoRunnableHidden
  <1>1. SchedInv => NoRunnableHidden
    BY EmptyLevel, LevelType DEF SchedInv, Scheduled, NoRunnableHidden
  <1>2. QED
    BY <1>1, SpecSchedInv, PTL

\* What has exited stays exited: neither a late task_wake nor any schedule()
\* makes the task runnable again.
THEOREM SpecExitIsFinal == Spec => ExitIsFinal
  <1>1. SchedInv /\ [Next]_vars =>
          [\A t \in Tasks : lists.state[t] = "EXITED" => lists'.state[t] = "EXITED"]_vars
    BY StepKeeps
  <1>2. QED
    BY <1>1, SpecSchedInv, PTL DEF Spec, ExitIsFinal

\* A context switch leaves at most the preempted task waiting above the task it
\* switches to, for any number of levels and tasks and any priorities.
THEOREM SpecOnlyPreemptedOutranks == Spec => OnlyPreemptedOutranks
  <1>1. SchedInv /\ [Next]_vars =>
          [current_task' # current_task =>
             \A t \in Tasks :
               /\ lists'.state[t] = "RUNNABLE"
               /\ Level(t) > Level(current_task')
               => t = current_task]_vars
    BY StepKeeps DEF OutrankedBy
  <1>2. QED
    BY <1>1, SpecSchedInv, PTL DEF Spec, OnlyPreemptedOutranks

\* The timer handler's walk misses no sleeper whose time has come, for any
\* number of sleepers and whichever of them it unlinks on its way.
THEOREM SpecNoOverdueSleeper == Spec => []NoOverdueSleeper
  <1>1. Init => WalkInv
    BY DEF Init, WalkInv
  <1>2. WalkInv => NoOverdueSleeper
    BY ReachNull DEF WalkInv, NoOverdueSleeper, Linked
  <1>3. QED
    BY <1>1, <1>2, NextWalkInv, SpecSchedInv, PTL DEF Spec
=============================================================================
