# BareOS in TLA+

BareOS is a small kernel for the ESP32-S3: a priority scheduler, mutexes and
semaphores, a heap, processes and system calls, RAM and flash file systems, a
network stack and a WiFi driver, with a shell on top. This directory holds
TLA+ models of its kernel, its network stack, its file systems in memory and
its WiFi driver, translated from the C code under `src/`, the TLC
configurations that check them on small instances, and TLAPS proofs of their
safety properties for every instance.

    tlc -workers 2 -config MCScheduler.cfg MCScheduler      # a run
    tlapm SchedulerProofs.tla                               # a proof

`PROJECT.json` lists the components, the runs, the mutants (each property with
a plausible bug of the code that breaks it), the source lines of every
definition, the disagreements met between the code and its documentation, the
hazards and the theorems.

## Inventory

| component | state it keeps | operations | interacts with | what makes it correct |
|---|---|---|---|---|
| scheduler (`kernel/scheduler`) | one list head per priority, `sleep_queue`, the `next`/`prev`/`state`/`wake_time` fields of `struct task`, `cpu_states[0]` | `task_enqueue`, `task_dequeue`, `scheduler_pick_next`, `task_sleep`, `task_wake`, `scheduler_tick`, `schedule`, `task_yield` | called by the timer interrupt, system calls, semaphores, drivers | the lists stay well formed although they share one pair of links; no runnable task is lost; sleepers are woken; the highest level runs |
| synchronisation (`kernel/sync`) | `struct mutex`, `struct semaphore` (waiters linked through `task->next`), spinlocks | `mutex_lock/unlock`, `semaphore_wait/signal`, `spinlock_acquire/release` | the scheduler (blocks and wakes), the WiFi interrupt | mutual exclusion, no unit lost or invented, no lost wakeup |
| timer and traps (`arch/xtensa/traps`) | the tick counter | the timer interrupt: `scheduler_tick`, then `schedule` | the scheduler | no sleeper missed at a wrap or during the walk |
| kernel start (`kernel/core`) | the order of initialisation, the tables of pids and tids | `kernel_main`, `alloc_tid` | everything | some task runs |
| WiFi driver (`drivers/wifi`) | the association state, deadline, retry count, semaphores, rings of receive, transmit and management descriptors | `wifi_init`, `wifi_assoc`, `wifi_stop`, `wifi_isr`, the management and receive tasks | two semaphores, the DMA, the shell, the network stack | an association is reported only if accepted; attempts end; frames are delivered in order, once |
| heap (`kernel/memory`) | two regions, each with a block list and a free list in one pair of links, counters, `heap_lock` | `kmalloc`, `kfree`, `krealloc`, `kmalloc_aligned` and their PSRAM forms | everyone; the mutex | no overlap, no loss, coalescing |
| processes and tasks (`kernel/process`, `kernel/task`) | `process_table`, `task_table`, fd tables | create, destroy, lookup, fd allocation | scheduler, files | identifiers unique, no use after free |
| system calls (`kernel/syscall`) | none of its own | file calls, pipes, fork, exec, wait, exit, sleep | files, processes, scheduler | reference counts of shared files, pipes' bounds, a parent is told of a child's end |
| exec, signals, ipc, time | little or none | program loading; stubs | processes | |
| network (`kernel/net`) | packet buffers with reference counts, interfaces, sockets with receive queues, ARP table | socket calls, `net_iface_input` | mutex and semaphore, the driver | every buffer has one owner, a queued datagram has its unit, no wait with a lock held; the newest address of a host is used and entries expire |
| VFS, ramfs, devfs, flashfs | mounts, open files, ramfs's node and data pools, flashfs's superblock and bitmap | open/read/write/close, mount | system calls, flash driver | a file lives as long as it is referred to; the tree's links stay a tree; two files do not share bytes |
| drivers (uart, gpio, i2c, spi, dma, timer, psram, console) | device registers | register writes | | |
| libc's descriptor calls (`libc/posix`) | none of its own: the descriptor table of the process | `close`, `dup`, `dup2`, `read`, `write` beside the system calls of the same names | files | the same counts as the system calls keep |
| rest of libc, shell, userland | none shared | | system calls | |

What is hard here is concurrency on one CPU: the timer interrupt may switch
tasks between any two instructions of a task that runs with interrupts enabled,
device interrupts signal semaphores, the link fields of `struct task` are shared
by four kinds of lists, the WiFi driver's state is shared by three threads
without a lock, and the receive task walks into sockets that programs close
meanwhile. The sequential parts are hard for another reason: long sequences of
legal calls on fixed pools and tables whose entries are shared (open files,
descriptors, nodes, blocks of the heap). System calls themselves are not
interleaved: they run in the exception handler, with interrupts masked, up to
the point where they wait. There is no multiprocessor: the second core is never
started. Nothing that is modelled is persistent.

## The modules

| module | models | how |
|---|---|---|
| `Scheduler` | `scheduler.c` and the callers that change a task's state and then schedule (timer interrupt, `syscall_exit`, `syscall_waitpid`, `syscall_sleep`, the wait of a semaphore) | the linked lists are the code's own, as one record `lists`; each C function is an operator from such a record to such a record; `schedule` is an action on the result |
| `RunQueues` | what the scheduler promises | a stack of tasks per level, a set of sleepers, the running task |
| `SchedulerRefinement` | | the refinement mapping: chain of links to stack |
| `SchedulerProofs` | | the inductive invariant and its proof |
| `Sync` | `mutex_lock/unlock`, `semaphore_wait/signal` used by tasks of `Scheduler`, with a device's interrupt | extends `Scheduler`; program counters for the code that runs with interrupts enabled |
| `SyncProofs` | | mutual exclusion and the semaphore's account of units, for any number of tasks |
| `Heap` | `kmalloc`, `kfree`, `krealloc` of `memory.c` on both regions | the headers and their links are the code's own; each C function is an operator from a heap to a heap |
| `Wifi` | the association state machine of `wifi.c` and its three threads | a thread decides in one step and then executes its statements, `todo`, one at a time |
| `WifiRx` | the receive ring, `wifi_isr`, `wifi_rx_task` | the DMA is external: it fills descriptors it owns in order |
| `Sockets` | packet buffers and UDP sockets of `net.c`, the socket system calls, and the input path from `net_iface_input` to `udp_input` | a system call is one step from wait to wait; the receive task takes one step per statement that touches a socket; freed sockets remain memory |
| `Arp` | the ARP table of `net.c`: `arp_input`, `arp_resolve`, `net_tick`, echo replies | the table is the code's array; addresses of a host are numbered in the order it announces them |
| `Ramfs` | `ramfs.c`: the tree, the node pool and the data pool | nodes with the code's `parent`, `children`, `next`, `prev`; one action per operation that changes the tree or the pools |
| `Files` | `vfs.c`, the file system calls of `syscall.c`, `sock_alloc_fd`, pipes, `fork`, `exec`, `process_create`, `alloc_tid`, and the `close`, `dup2`, `read` and `write` of `libc/posix/posix.c` | descriptors of each process, the pool of open files, files from the heap, reference counts |
| `WifiProofs`, `WifiRxProofs`, `SocketsProofs`, `ArpProofs`, `RamfsProofs`, `FilesProofs` | | each the inductive invariant of the module it is named after, and the theorems that follow |

`MCScheduler`, `MCSync`, `MCHeap`, `MCWifi`, `MCWifiRx`, `MCSockets`, `MCArp`,
`MCRamfs` and `MCFiles` give constants to these. `Sockets` takes from `Sync` what
a mutex and a semaphore do, and leaves the descriptor of a socket to `Files`.

### Correspondence worth knowing

* **`Scheduler`.** `Start` puts a created task in the run queues as
  `task_enqueue` would, and an idle task exists, made by `task_create_idle`.
  The repository's boot code does neither (see below); without them there would
  be nothing to say about the scheduler. `Init` has the idle task `RUNNABLE` and
  in no queue, which is how `task_create_idle` leaves it. Exceptions for it in
  the invariants end with its first run. `wake_time` and `tick_count` are
  modulo `TickMod`, 2^32 in the code. `Block(link)` leaves any pointer in the
  task's `next` field, which covers `syscall_waitpid` and every waiter list.
  `schedule` is one step: what it does when an interrupt arrives between two of
  its statements is planned (module `Preemption`).
* **`RunQueues`.** The level is a stack, not a queue: `task_enqueue` pushes
  where `scheduler_pick_next` takes. This is what the code does, so this is
  what the abstract specification says.
* **`Sync`.** Code between `write_psr(psr | 0xF)` and `write_psr(psr)` is one
  step; everything else is one step per access of shared memory. A client signals
  only when it holds a unit; the device may signal at any time, at most
  `MaxIsrSignals` times. `IsrInWindow` says whether its interrupt may fall between
  the unmasking in `semaphore_wait` and the `schedule()` after it. Nothing in the
  code prevents that; the passing run excludes it to ask what holds otherwise,
  and the run `sync_isr_window` asks only about it. The timer may interrupt in
  that window in both.
* **`Wifi`.** The deadline is none, pending or due; the wrap of the tick counter
  is left out. Frames are the kinds the driver tells apart. At most one frame
  waits for the receive task (the ring is `WifiRx`'s subject). `late` records, when
  a scan begins, which threads are still executing statements of the attempt before.
  `wifi_isr` is taken or not: no code installs or enables it (only interrupt 6, the
  timer, is: traps.c:25, timer.c:10), so that reception is a step the model may take
  and no passing run assumes that it happens.
* **`WifiRx`.** RX_DONE is a bit, so two frames may share an interrupt; `merged`
  counts those. The MAC drops a frame for which it owns no descriptor. Of `wifi_isr`
  the same is true as in `Wifi`.
* **`Sockets`.** A frame is what the layers read of it; one that a layer drops
  changes nothing and is not a step. `wlan0` has address 0, which no code of the
  repository sets. The headroom of a buffer is a number, because whether a header
  fits decides what happens to the buffer: with 18 bytes in front of the data the
  8 of UDP fit and the 20 of IPv4 do not, so `ipv4_output` always fails. `lost`
  records buffers to which nothing points any more: those of a send, and those on
  the queue of a socket closed under the receive task. `MaxUnits` bounds
  what is queued while nobody receives. The receive task holds no lock while it
  searches the list, so `sock_find_udp` is one step per socket: of a socket that was
  closed in between it reads the fields and the `next` pointer that the freed memory
  still has, or those of the socket that was created there since.
* **`Arp`.** Time is `arp_tick` and its reset at each sweep; the number of an
  address says how recently its host announced it.
* **`Ramfs`.** Names are model values and a path is a sequence of them. Data
  are positions in the pool, not contents; `ramfs_data_used` wraps at `Word`, 2^32 in
  the code. `vfs.c` hands `ramfs` the rest of a path behind
  the mount point, any path, also the empty one. For it `ramfs_mkdir`, and
  `ramfs_rename` as the new path, use a buffer for the last name that nothing has been
  copied to: it may hold any name (`Copied`). Writes may be of no bytes, and the
  32-bit sum of offset and count wraps (`End`).
* **`Files`.** Only the first process makes calls: a forked task is left `STOPPED`
  and `task_wake` ignores it. A path is what its slashes separate, and
  `path_normalize` is modelled by what it does to that. A failed call that leaves
  no trace is not a step. `clean` says that no call so far has freed a file that is
  used further on; the model stops at the first one that does, because what comes
  after is a use of freed memory. `excess` keeps, for each file, the references counted
  that no descriptor stands for (an overwritten descriptor, a lost slot) less the
  descriptors not counted (a copy by libc's `dup2`). libc's functions look at the
  whole table where the system calls stop at `fd_count`.

## Runs

Eight runs pass:

* **scheduler**: an idle task, two tasks at one level and one above, with
  `task_sleep` of 0 and 2 ticks, a counter that wraps at 3, `Block` with every
  link. Four tasks suffice for a head, a middle and an end in one list and
  another list beside it; the counter wraps many times. It checks the shape of
  the lists after any sequence of operations, that no runnable task is hidden,
  that no due sleeper survives the timer's walk, that only the task just
  preempted can outrank the one that runs, that an exited task stays so, that
  the lists implement stacks, and two liveness properties: sleepers are woken and
  a task that outranks all others gets the CPU.
* **sync**: three clients that nest the mutex twice and use a semaphore of one
  unit, which a device signals once more. Three are needed for two waiters and a
  holder. It shows mutual exclusion, the agreement of the mutex's three fields
  with the client inside at every step of the unlock, conservation of units, that
  a wait returns only with a unit, and that no task is lost.
* **wifi**: one management buffer, one retry, two attempts, so that an answer to
  the first attempt can arrive during the second. It shows that an association is
  reported only after both answers of this attempt, that the first scan goes on
  only when the network was found, and that a scan keeps its deadline: only a task
  that was still busy with the first attempt when the second began can clear it.
  All three are safety properties, of whatever interrupts come. The driver may stop for good once its attempts are used up (`MaxAttempts`), so
  deadlock is not checked.
* **wifi_rx**: a ring smaller than the number of frames, so that it wraps and
  fills. Frames are in the ring in order and handled once, a wakeup exists for every frame
  that did not share an interrupt, and as many frames as the interrupt handler has
  signalled are handled in the end, whether some shared an interrupt or not.
  The run ends when `MaxFrames` frames have been received, so deadlock is not
  checked.
* **sockets**: two programs, two sockets, two buffers, one port that is both the
  only explicit and the only ephemeral one, so that ports wrap and collide and
  memory of a closed socket is used again. Every buffer is in exactly one place; a
  queued datagram has a unit, or one on its way; explicitly bound ports are
  distinct; and the receive task, although it may walk along the pointers of closed
  sockets, returns to its next frame unless a program waits in `recvfrom` on the
  socket it delivers to or the list never stops changing. Programs may stop, so deadlock is not
  checked.
* **arp**: two hosts, a table of two entries, several sweeps. An entry found first
  is the newest one its host has in the table; only a sweep can bring an older address back;
  entries learned early in a period expire.
* **ramfs**: up to five nodes and no writes that take room, or three and two such
  writes, of up to two bytes, to a pool of three, which fills up; words of three bits;
  paths of up to two names and one open file. Every list of children is linked both ways and holds the children of one
  parent; names are distinct below the root; files that were written once, from
  their beginning, share no byte as long as none is removed. A full file system
  may stop, so deadlock is not checked.
* **files**: three descriptors, two slots in the pool, room for two files on the
  heap, two tids, pipes of two bytes: enough for a full table, a full pool, a pipe, two
  sockets and a fork. References are those of the descriptors of all
  processes and the ones lost, less libc's copies, no descriptor is without its file until a call
  frees a file with other references, and no write passes the end of a pipe. A
  process may stop making calls, so deadlock is not checked.

Four runs whose property, taken from the documentation, does not hold of the code:

* **heap**: `kmalloc`, `kfree`, `kmalloc` ends with memory beyond the region.
  `block_list` and `free_list` share the headers' links, so a block that was split
  points at the new block with `next` and `prev`; `region_coalesce` then merges the
  same neighbour twice. Real header size and alignment, regions of some 150 bytes.
* **sync_isr_window**: a signal between the unmasking and the `schedule()` of
  `semaphore_wait` queues the task that is still current; it is then dequeued,
  found to be current, and returns still `RUNNABLE`; the next switch does not put
  it back. `wifi_isr` is the only handler that signals, and nothing installs it yet.
* **wifi_race**: the management task's `wifi_set_state(FAILED)` clears a
  deadline that the receive task has just set for the next phase; the attempt
  never ends. The run assumes frames for ever, the best case, which the code does not
  guarantee (see Fairness).
* **sockets_recv**: `recvfrom` waits for a datagram with the socket's lock held; the
  receive task waits for that lock to deliver it.

### Met while modelling, without a run of their own

* Scheduler. `schedule()` picks before it puts the current task back, so each timer
  interrupt hands the CPU to another task, also of lower priority (scheduler.c:101;
  `OnlyPreemptedOutranks` says how far it goes). A level is a stack, so two tasks of
  a level starve a third (scheduler.c:20); a task waiting for a mutex spins through
  `task_yield`, and two such tasks can keep the owner from running, so no liveness is
  claimed of the mutex. `syscall_sleep` does not link the task to `sleep_queue`, and
  nothing wakes it (syscall.c:438). `task_wake` ignores the `STOPPED` tasks
  `kernel_main` calls it on, and no idle task is ever assigned: after boot no task
  runs (kernel.c:75).
* WiFi. Nothing installs or enables `wifi_isr`: only interrupt 6, the timer's, has a
  handler and is unmasked (traps.c:25, timer.c:10), so the receive path that
  HARDWARE.md:195-199 describes never starts. `wifi_init` makes its two tasks with
  `task_create_user`, which leaves them `STOPPED`, and the `task_wake` it calls on
  them does nothing (as for the tasks of `kernel_main`). With a silent access point the management task never wakes, because only
  `wifi_isr` and the calls themselves signal it, so no deadline is looked at
  (wifi.c:290); `wifi_rssi` of an earlier attempt lets a later one go on without an
  answer (wifi.c:294); frames that share an RX_DONE stay in the ring until later
  frames arrive (wifi.c:521); a management buffer is filled while the DMA owns it
  (wifi.c:310); `net_iface_output` has no caller, so `wifi_transmit` is unreachable.
* Network. Every UDP send fails for headroom and keeps its buffer (net.c:243);
  datagrams are received last first (net.c:392); `sock_find_udp` walks the list
  without a lock, through sockets that may have been freed, and programs that keep
  creating and closing sockets can keep it walking for ever (net.c:571); an ephemeral port may be one that
  is in use (net.c:480); an ARP entry learned at tick 700 or later never expires, and
  a sweep may bring back an older address of a host that is in the table twice
  (net.c:164).
* ramfs. Growing a file reserves only the bytes of this write, so a file that is
  extended overlaps the next one (ramfs.c:163); removing a file lowers the top of the
  pool whatever lies there, and may wrap it (ramfs.c:46); a file opened with
  `O_CREAT` is always created in the root (ramfs.c:117); `mkdir` of a path makes a
  nested directory more; a rename succeeds only onto an existing target and can cut
  off a directory together with its descendant as a cycle (ramfs.c:423); `mkdir` of
  `/` and a rename onto `/` take the name from a buffer that is not initialised
  (ramfs.c:267, ramfs.c:417). The data
  pool is 8192 bytes where LIMITATIONS.md:28 has 64 KB.
* Files. The root mount matches only `/` and relative paths, so no absolute path
  reaches ramfs; `fs_init` clears the mount flashfs has made; `chdir` never succeeds;
  `vfs_open` gives files of ramfs no operations. `dup` and `fork` count references,
  but `vfs_close` frees at the first close (`dup2(fd, fd)` frees its own file); `dup`
  does not raise `fd_count`; `open` with a full table, or over a duplicated
  descriptor, and `mkdir` under `/dev` lose a slot; a failed `pipe` leaves a dangling
  descriptor; the readers and writers of a pipe are only counted down, so no byte is
  ever passed. A forked process's pid is entered in no table, so children share one;
  nothing sets `exited`, so `waitpid` never reaps.
* libc. `posix.c` has a second set of the descriptor calls, on the same table. Its
  `dup2` copies a descriptor without counting it (posix.c:130), `dup` always goes to
  descriptor 3, and `dup2(fd, fd)` closes the descriptor and leaves it empty. `open`
  casts the value of `fd_count` to a pointer and follows it (posix.c:12). The shell
  calls `close` (shell.c:237, 274); `dup` and `dup2` have no caller.
* VFS. `vfs_ops.c` defines `vfs_mkdir`, `vfs_rmdir`, `vfs_unlink` and `vfs_rename` once
  more, differently from `vfs.c`. The Makefile lists both files (Makefile:50-51), which
  cannot be linked together; `build.bat` and the link map in `build/` have only
  `vfs.c`, which is what `Files` models.

## Fairness

`Scheduler`: weak fairness of the timer interrupt and of its handler's steps
only. The timer is reloaded by its own handler and the handler runs with interrupts
masked. Nothing is assumed of the tasks. `Wifi`: the passing run assumes none, and
checks safety only. `wifi_race` assumes that the three threads run when they can, that
ticks pass, and that frames keep arriving. The last is not what the code guarantees,
because nothing installs `wifi_isr`; it is the best case, and the run shows that an
attempt may stay without an end even then. `WifiRx`: the receive task runs when it has
a unit; interrupts and frames need not come. `Sockets`: the receive task runs when
it can, and so does a program in `recvfrom` that does not wait; frames need not
arrive and programs need not make calls. `Arp`: the timer ticks.

That the driver's receive task runs assumes that it was put in a run queue, which the
code as it stands does not do, and is an assumption about load rather than a
consequence of the scheduler: a level is a stack, so with three tasks of one level
ready all the time one of them starves (scheduler.c:20). The driver's
tasks block on their semaphores after each frame, and a stack that keeps emptying
serves everyone.

## What is proved

Every invariant that a passing run checks, and every action property, is also a
theorem, for all values of the constants that satisfy the assumption of its
module. The assumptions say no more than the types of the constants,
with one addition: `Sync` and `Sockets` count tasks, so there `Tasks` is finite,
as `task_table` is.

| module | theorems | for every | inductive invariant |
|---|---|---|---|
| `SchedulerProofs` | `SpecTypeOK`, `SpecQueuesWellFormed`, `SpecCurrentIsRunning`, `SpecNoRunnableHidden`, `SpecNoOverdueSleeper`, `SpecExitIsFinal`, `SpecOnlyPreemptedOutranks` | set of tasks, priorities, number of levels, width of the tick counter | `SchedInv`; `WalkInv` for the timer's walk |
| `SyncProofs` | `SpecMutualExclusion`, `SpecMutexMatchesOwner` | number of tasks, nesting depth, with and without interrupts in the window | `MutexInv` |
| `SyncProofs` | `SpecSyncTypeOK`, `SpecUnitsConserved`, `SpecWaitReturnsWithUnit`, `SpecNoTaskLost` | number of tasks, units and device signals, if `IsrInWindow = FALSE` | `SyncInv` |
| `WifiProofs` | `WifiTypes`, `AttemptGoesByAnswers` | limit of retries, length of the ring, number of attempts | `WifiInv` |
| `WifiProofs` | `ScansHaveDeadlines` | the same | `DeadlineInv` |
| `WifiRxProofs` | `RxTypes`, `FramesStayInOrder`, `WakeupsAreAccounted` | length of the ring, number of frames | `RxInv` |
| `SocketsProofs` | `SocketsTypes`, `ListHoldsOpenSockets`, `ExplicitPortsAreDistinct`, `QueuedHaveUnits`, `BuffersAreConserved` | tasks, sockets, buffers, ports | `SocketsInv` |
| `ArpProofs` | `ArpTypes`, `ResolveFindsNewest`, `FramesNeverGoBack` | size of the table, hosts, period, timeout | `ArpInv` |
| `RamfsProofs` | `RamfsTypes`, `ListsStayWellFormed`, `NamesStayUnique`; `PlainFilesStayDisjoint` if `MaxData + MaxCount < Word` | nodes, names, depth of paths, open files | `TreeInv` |
| `FilesProofs` | `FilesTypes`, `CountsAreDescriptors`, `NoDescriptorDangles`, `PipesStayInBuffer` | tables, pool, heap, pipes, paths | `FilesInv` |

Some theorems have a hypothesis on the constants; there are two, and both are needed.
With `IsrInWindow = TRUE` a task can be lost (run `sync_isr_window`). And
`ramfs_write` compares the 32-bit sum of `ramfs_data_used` and `count` with the
size of the pool: a count near 2^32 wraps the sum and passes, so disjoint files
need counts that cannot (`MaxData + MaxCount < Word`).

**Scheduler.** None of these invariants is inductive alone: that a
head reaches every runnable task needs the links to be inverse, that needs the
stale links of unqueued tasks to be harmless, and that needs to know which task
is `RUNNING`. `SchedInv` is their conjunction with the types. Inside one action the
lists are not well formed: a task is taken out of one list before it is put in
another. `WellFormedBut(l, x)` says that `l` is well formed except for `x`, which
nobody links to; each function of `scheduler.c` has one lemma, either from
`WellFormedBut(l, NULL)` to `WellFormedBut(l', x)` or back, and an action composes
the lemmas in the order the code composes the functions. `Acyclic`, a rank that
grows along `next`, is part of it: without it a cycle of runnable tasks could sit
beside an empty head, which inverse links and heads alone do not exclude.
`NoRunnableHidden` follows by a least-rank argument. The tasks linked to a head
are the least set that has the head and is closed under `next` (`Reach`), so that
`NoOverdueSleeper` needs no counting: `WalkInv` says that a linked sleeper that is
due is still linked to the pointer the walk goes on from. That pointer was read
before the task in front of it is woken, and it stays in the queue because
`task_wake` changes only the links of the neighbours of the one it unlinks.

**Mutex and semaphore.** `MutexInv` is types of the mutex's own state and the two
properties, which are inductive only together: the three steps of the unlock
preserve exclusion because the lock word is cleared last. The semaphore's waiters are
chained through the link the run queues use. `WaitList` says that the tasks
reached from `waiters` are `BLOCKED` clients, and that the chain has no cycle;
`SemInv` adds the account of units. `CpuInv` describes the window in which a client
is on the list and still has the CPU: it is `BLOCKED` and about to call
`schedule()`. A device's signal in that window would make it `RUNNABLE` while it
runs, which is what `IsrInWindow = FALSE` excludes; the timer may interrupt there.

**WiFi association.** Threads decide and execute later, so `WifiInv` speaks of
the statements that are still to be executed. `HeardInv`: when the receive task is
about to set `ASSOCIATED`, both answers were heard in this attempt, and no new
attempt can begin first, because `wifi_assoc` needs the very state that is still to
be set. `RetryInv` keeps `wifi_retry_count` within its limit although it is checked
in one step and raised in another: only the management task raises it. `ScanInv`
says that in the first attempt the signal strength is known only from its scan.
`DeadlineInv` follows the statements that clear a deadline: in a scan that began with
no thread late, only the management task can have one left to execute, and then it has
all of `wifi_set_state(FAILED)` before it, which writes the state first.

**Receive ring.** `RingInv` says where the DMA's index is relative to the task's:
as many places ahead as frames are pending, the descriptors in between
are the CPU's and hold consecutive frames. `NextDesc` uses a remainder; `Behind`
replaces it by a case distinction, after which everything is linear.

**Sockets.** `PointersInv` and `ListInv`: `sockets` lists the open sockets
once each, also while the receive task holds a pointer to one that was closed: what it
follows, a stale `next` included, is always the memory of some socket. `BuffersInv`:
the free, the queued, the lost buffers and the one in the receive task's hands are
disjoint and are all of them. `UnitsCoverQueue` is inductive with the types: a unit
is in the semaphore, about to be signalled, or with a program that has been woken
and has not looked at the queue yet, and each step moves one from place to place.

**ARP.** `NewestFirst`: of two entries of a host the earlier one is the
newer. `arp_input` preserves it because it takes the first slot that is free or the
host's, so the new address lands before every older one of that host.

**ramfs.** `Tree` says of the nodes' links what `Lists`, `Parents` and
`Siblings` do: lists are linked both ways, stay among the children of one node, and
go down in a rank; no unused or freed node has children; siblings below the root
differ in name. The children of a file that `ramfs_unlink` frees without looking
remain a list that no head points to, which is why `Lists` excepts parents that are
`Freed`. Unlinking, linking and freeing have one lemma each, and
`ramfs_rename` composes them. A rename into the node's own subtree makes a cycle of
parents, so nothing is claimed of reachability from the root. What `After` and
`Walk`, recursive functions, compute is shown by the least counterexample: the
lists end because ranks fall and there are only so many nodes.

**Files.** `ReferencesAccounted` is inductive with `SpareInv`: unused
processes have no descriptors, and files that can be allocated have no references.
`ExcessInv` says that a file without references has nothing in excess: libc's `dup2`
makes the excess negative, and only of a file that is counted.
Counting the descriptors that name a file is done with
the cardinality of a set that gains or loses one pair; `fork` copies a row of the
table, and its lemma adds the row's count. `PipesInv` says that pipes are empty
until something is written and never wrap.

### Only model-checked

* Liveness: `SleeperWoken`, `TopPriorityRuns`, `InputResumes`,
  `EarlyEntriesExpire`, `SignalledFramesHandled`. The prover does not
  reason about fairness and `ENABLED`.
* `ImplementsRunQueues`. Its refinement mapping reads a sequence off the links with
  a recursive function; that the initial states and each step map as they should is
  not proved yet (see the plan).
* The runs that end in a violation show a behaviour and need no proof.

Recursive operators and the induction theorems of the library are out of the
prover's reach; recursive functions over numbers are not, by way of a least
counterexample.

## Not modelled

* Spinlocks are used by no code of the repository. `kmalloc_aligned` builds a
  header over the one it divides, which has no meaning at the level of `Heap`.
* Reads, `lseek`, `stat`, `ioctl` and what devices return change no state a property
  is about. `connect` stores an address that only `sendto` reads, which fails anyway.
* Signals are never delivered; ipc, storage and the operations of flashfs are
  stubs; what else flashfs does is reading and writing the flash controller.
* Device drivers that only write registers, start-up code and the context switch in
  assembly (modelled as the atomic change of `current_task`), libc's string and
  formatting functions and its `open` (see above), `vfs_ops.c`, the shell's parsing and the contents of frames and files.

## Plan

1. `ImplementsRunQueues` step by step: `Chain` of a well-formed list is the
   sequence of its tasks by rank, so a push conses, a pick takes the head and a
   dequeue from the middle never happens to a runnable task other than the one
   picked.
2. `Preemption`: `schedule`, `task_sleep` and `task_wake` at the level of
   statements, with the saved context of each task.
3. The format and unmount of the flash file system with a crash between any two
   writes, once something uses them.
