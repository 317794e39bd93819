------------------------------- MODULE Files -------------------------------
(***************************************************************************)
(* Descriptors and open files: the system calls on descriptors             *)
(* (kernel/syscall/syscall.c), the pool of files and the mounts below them *)
(* (fs/vfs/vfs.c), the copies a fork makes of a descriptor table, and the  *)
(* functions of libc/posix/posix.c that write the same tables.             *)
(*                                                                         *)
(* Only the first process makes calls: the task of a forked one is left    *)
(* STOPPED and is never woken.  A process is named by the tid of its task. *)
(* Files of the file systems are slots of the pool open_files; those of    *)
(* sockets and pipes are taken from the heap and not given back.  What is  *)
(* read from and written to devices is not modelled, and files of ramfs    *)
(* get no operations from vfs_open; a pipe is modelled by its positions.   *)
(* A call that fails and leaves no trace is not a step.                    *)
(***************************************************************************)
EXTENDS Integers, Sequences, FiniteSets, SequencesExt

CONSTANTS
  Slots,      \* MAX_OPEN_FILES
  HeapFiles,  \* how many files the heap has room for
  MaxFd,      \* 32, the size of a descriptor table
  MaxTasks,   \* MAX_TASKS: tids are below it
  PipeSize,   \* 4096
  Paths,      \* paths: [abs |-> starts with a slash, names |-> its names]
  MaxMounts   \* MAX_MOUNTS

ASSUME FilesAssumption ==
  /\ Slots \in Nat \ {0} /\ HeapFiles \in Nat /\ MaxFd \in Nat \ {0}
  /\ MaxTasks \in Nat \ {0, 1} /\ MaxMounts \in Nat /\ PipeSize \in Nat
  /\ \A p \in Paths : p.abs \in BOOLEAN /\ p.names \in Seq(STRING)

VARIABLES
  fd_table,   \* per process, the file of each descriptor, or Null
  fd_count,   \* per process, the descriptors get_file looks at
  task_table, \* the tids in use
  ref_count,  \* of each file
  live,       \* the files that are open: made and not yet freed
  room,       \* the heap files kzalloc may still return, which are alike
  end,        \* of each heap file, the pipe it is an end of, or Null
  pipe,       \* the pipes, each named by its read end
  excess,     \* history: of each file, the references counted that no
              \* descriptor stands for, less the descriptors not counted
  clean       \* history: no call has freed a file that is used further on

filesvars == <<fd_table, fd_count, task_table, ref_count, live, room,
               end, pipe, excess, clean>>

Null == 0
Pool == 1 .. Slots
Heap == Slots + 1 .. Slots + HeapFiles
Files == Pool \cup Heap
Fds == 0 .. MaxFd - 1
Tids == 1 .. MaxTasks - 1
Init1 == 1
Devices == {"null", "zero", "random", "uart0", "console"}

-----------------------------------------------------------------------------
(* Paths and mounts.  A path that starts with a slash is the sequence of    *)
(* what its slashes separate: "/" is <<"">>, "///a" is <<"", "", "a">>.     *)

\* Names are appended to nothing or, when the path is relative, to "//": the
\* current directory, which no call can change, and a slash.
path_normalize(path) ==
  LET out[k \in 0 .. Len(path.names)] ==
        IF k = 0 THEN IF path.abs THEN <<>> ELSE <<"", "">>
        ELSE LET o == out[k - 1]  name == path.names[k] IN
             CASE name = "." -> o
               [] name = ".." -> IF o \in {<<>>, <<"">>} THEN o ELSE Front(o)
               [] OTHER -> Append(o, name)
      norm == out[Len(path.names)]
  IN  IF norm = <<>> THEN <<"">> ELSE norm

vfs_register_fs(mounts, point) ==
  IF Len(mounts) >= MaxMounts THEN mounts ELSE Append(mounts, point)

\* fs_init clears the table, with what flashfs_mount has registered before it,
\* and mounts ramfs and devfs.
fs_init == vfs_register_fs(vfs_register_fs(<<>>, <<"">>), <<"dev">>)

\* The last mount whose path is a prefix: <<"">>, <<"dev">>, or NoMount.  The
\* root is one of "/" and of "//..." only, that is, of relative paths.
NoMount == <<>>
Mount(path) ==
  LET hits == {i \in DOMAIN fs_init : IsPrefix(fs_init[i], path_normalize(path))} IN
  IF hits = {} THEN NoMount ELSE fs_init[CHOOSE i \in hits : \A j \in hits : j <= i]

\* open of the file system succeeds: devfs has the name, or ramfs has or makes
\* the node, as its state says.
MayOpen(path) ==
  \/ Mount(path) = <<"">>
  \/ /\ Mount(path) = <<"dev">>
     /\ Len(path_normalize(path)) = 2 /\ path_normalize(path)[2] \in Devices

-----------------------------------------------------------------------------
(* Files and tables. *)

file_alloc == CHOOSE f \in Pool : ref_count[f] = 0 /\ \A g \in Pool : g < f => ref_count[g] # 0
PoolFull == \A f \in Pool : ref_count[f] # 0

get_file(d) == IF d < fd_count[Init1] THEN fd_table[Init1][d] ELSE Null

Empty == {d \in Fds : fd_table[Init1][d] = Null}
First(ds) == CHOOSE d \in ds : \A e \in ds : d <= e

Install(d, f) == fd_table' = [fd_table EXCEPT ![Init1][d] = f]

\* The files are new, with one reference each.
Make(new) ==
  /\ ref_count' = [f \in Files |-> IF f \in new THEN 1 ELSE ref_count[f]]
  /\ live' = live \cup new

\* pipe_close_read and pipe_close_write, for an end that is not freed yet.
PipeClosed(f) ==
  IF f \notin Heap \cap live \/ end[f] = Null THEN pipe
  ELSE IF end[f] = f THEN [pipe EXCEPT ![f].readers = @ - 1]
  ELSE [pipe EXCEPT ![end[f]].writers = @ - 1]

\* Nothing else has file f: neither counted nor copied without being counted.
Sole(f) == ref_count[f] <= 1 /\ excess[f] >= 0

\* vfs_close frees the file whatever its count.
vfs_close(f) ==
  /\ ref_count' = [ref_count EXCEPT ![f] = 0]
  /\ live' = live \ {f}
  /\ pipe' = PipeClosed(f)
  /\ clean' = (clean /\ Sole(f))

\* The lowest free tid, or none.
alloc_tid == IF Tids \subseteq task_table THEN Null
             ELSE CHOOSE t \in Tids \ task_table : \A u \in Tids \ task_table : t <= u

\* process_create: a table of empty descriptors.
process_create == [d \in Fds |-> Null]

\* The tids once task_create has made a task and entered it as t.
task_create(t) == task_table \cup {t}

\* kernel_main: fs_init, and a process with one task.
FilesInit ==
  /\ fd_table = [p \in Tids |-> process_create]
  /\ fd_count = [p \in Tids |-> 0]
  /\ task_table = {Init1}
  /\ ref_count = [f \in Files |-> 0] /\ live = {} /\ room = Heap
  /\ end = [f \in Heap |-> Null]
  /\ pipe = [f \in Heap |-> [readers |-> 0, writers |-> 0, read_pos |-> 0, write_pos |-> 0]]
  /\ excess = [f \in Files |-> 0] /\ clean = TRUE

-----------------------------------------------------------------------------
\* SYSCALL_OPEN puts the file behind the last descriptor counted, over what may
\* be there; with no descriptor left the file stays open.
open(path) ==
  LET f == file_alloc
      d == fd_count[Init1] IN
  /\ MayOpen(path) /\ ~PoolFull
  /\ Make({f})
  /\ IF d < MaxFd
     THEN /\ Install(d, f)
          /\ fd_count' = [fd_count EXCEPT ![Init1] = d + 1]
          /\ excess' = [g \in Files |-> IF g = fd_table[Init1][d] THEN excess[g] + 1 ELSE excess[g]]
     ELSE excess' = [excess EXCEPT ![f] = @ + 1] /\ UNCHANGED <<fd_table, fd_count>>
  /\ UNCHANGED <<task_table, room, end, pipe, clean>>

\* Mutant: the descriptor is left in the table.
close_KeepsDescriptor(d) ==
  /\ get_file(d) # Null
  /\ vfs_close(get_file(d))
  /\ UNCHANGED <<fd_table, fd_count, task_table, room, end, excess>>

close(d) ==
  /\ get_file(d) # Null
  /\ vfs_close(get_file(d))
  /\ Install(d, Null)
  /\ UNCHANGED <<fd_count, task_table, room, end, excess>>

\* vfs_mkdir, vfs_rmdir and vfs_unlink take a slot before they see that devfs
\* has no such operation, and keep it.
vfs_mkdir(path) ==
  /\ Mount(path) = <<"dev">> /\ ~PoolFull
  /\ ref_count' = [ref_count EXCEPT ![file_alloc] = 1]
  /\ excess' = [excess EXCEPT ![file_alloc] = @ + 1]
  /\ UNCHANGED <<fd_table, fd_count, task_table, live, room, end, pipe, clean>>

\* The new descriptor is the first empty one, which get_file may not look at.
syscall_dup(d) ==
  /\ get_file(d) # Null /\ Empty # {}
  /\ Install(First(Empty), get_file(d))
  /\ ref_count' = [ref_count EXCEPT ![get_file(d)] = @ + 1]
  /\ UNCHANGED <<fd_count, task_table, live, room, end, pipe, excess, clean>>

\* What the new descriptor had is closed first, even if it is the same file.
syscall_dup2(d, n) ==
  LET f == get_file(d)
      old == fd_table[Init1][n]
      refs == [ref_count EXCEPT ![old] = 0] IN
  /\ f # Null
  /\ Install(n, f)
  /\ IF old = Null
     THEN /\ ref_count' = [ref_count EXCEPT ![f] = @ + 1]
          /\ UNCHANGED <<live, pipe, clean>>
     ELSE /\ ref_count' = [refs EXCEPT ![f] = @ + 1]
          /\ live' = live \ {old}
          /\ pipe' = PipeClosed(old)
          /\ clean' = (clean /\ Sole(old) /\ old # f)
  /\ UNCHANGED <<fd_count, task_table, room, end, excess>>

\* libc's close looks at all of the table, not only at the descriptors counted.
posix_close(d) ==
  /\ fd_table[Init1][d] # Null
  /\ vfs_close(fd_table[Init1][d])
  /\ Install(d, Null)
  /\ UNCHANGED <<fd_count, task_table, room, end, excess>>

\* libc's dup2 closes what the new descriptor had and copies the old one, which
\* is empty by then if it is the same, without counting the copy; its dup is
\* dup2 to descriptor 3.
posix_dup2(d, n) ==
  LET old == fd_table[Init1][n]
      f == IF d = n THEN Null ELSE fd_table[Init1][d] IN
  /\ fd_table[Init1][d] # Null
  /\ Install(n, f)
  /\ IF old = Null THEN UNCHANGED <<ref_count, live, pipe, clean>> ELSE vfs_close(old)
  /\ excess' = [g \in Files |-> IF g = f THEN excess[g] - 1 ELSE excess[g]]
  /\ UNCHANGED <<fd_count, task_table, room, end>>

\* Mutant: the count passes the new descriptor by one.
CountUpTo_Past(d) == d + 2

\* The fd_count with which d is the last descriptor counted, whatever it was.
CountUpTo(d) == d + 1

\* SYSCALL_SOCKET: sock_alloc_fd takes the first empty descriptor and makes it
\* the last one counted.
sock_alloc_fd ==
  LET d == First(Empty)
      f == First(room) IN
  /\ Empty # {} /\ room # {}
  /\ Make({f}) /\ Install(d, f) /\ room' = room \ {f}
  /\ fd_count' = [fd_count EXCEPT ![Init1] = CountUpTo(d)]
  /\ UNCHANGED <<task_table, end, pipe, excess, clean>>

\* With one empty descriptor left, syscall_pipe has put the read end there
\* when it sees that there is none for the write end, and frees both.
syscall_pipe ==
  LET d == First(Empty)
      e == First(Empty \ {d})
      r == First(room)
      w == First(room \ {r}) IN
  /\ Empty # {} /\ Cardinality(room) > 1
  /\ IF Cardinality(Empty) > 1
     THEN /\ Make({r, w})
          /\ fd_table' = [fd_table EXCEPT ![Init1][d] = r, ![Init1][e] = w]
          /\ fd_count' = [fd_count EXCEPT ![Init1] = CountUpTo(e)]
          /\ room' = room \ {r, w}
          /\ end' = [end EXCEPT ![r] = r, ![w] = r]
          /\ UNCHANGED clean
     ELSE /\ Install(d, r)
          /\ clean' = FALSE
          /\ UNCHANGED <<ref_count, live, fd_count, room, end>>
  /\ UNCHANGED <<task_table, pipe, excess>>

\* Mutant: one reference per file, not per descriptor.
Inherited_Once(f) == IF \E d \in Fds : get_file(d) = f THEN 1 ELSE 0

\* The descriptors of f that a fork copies.
Inherited(f) == Cardinality({d \in Fds : get_file(d) = f})

\* syscall_fork copies the descriptors and then asks for a task; when there is
\* none the references are given back.
syscall_fork ==
  LET t == alloc_tid
      refs == [f \in Files |-> ref_count[f] + Inherited(f)] IN
  /\ IF t # Null
     THEN /\ task_table' = task_create(t)
          /\ fd_table' = [fd_table EXCEPT ![t] = [d \in Fds |-> get_file(d)]]
          /\ fd_count' = [fd_count EXCEPT ![t] = fd_count[Init1]]
          /\ ref_count' = refs
     ELSE /\ ref_count' = [f \in Files |-> refs[f] - Inherited(f)]
          /\ UNCHANGED <<task_table, fd_table, fd_count>>
  /\ UNCHANGED <<live, room, end, pipe, excess, clean>>

\* A slot is taken and freed again before the call returns.
Borrow ==
  /\ ~PoolFull
  /\ ref_count' = [[ref_count EXCEPT ![file_alloc] = 1] EXCEPT ![file_alloc] = 0]
  /\ UNCHANGED <<fd_table, fd_count, task_table, live, room, end, pipe, excess, clean>>

\* Only ramfs has a stat.
vfs_stat(path) == Mount(path) = <<"">> /\ Borrow

\* vfs_chdir normalizes twice, the second time an absolute path; what it opens
\* has no stat, and the current directory stays.
vfs_chdir(path) ==
  /\ MayOpen([abs |-> TRUE, names |-> SelectSeq(path_normalize(path), LAMBDA n : n # "")])
  /\ Borrow

\* exec's load_binary closes the file on every way out.
load_binary(path) == MayOpen(path) /\ Borrow

-----------------------------------------------------------------------------
(* Pipes.  The ends are counted down when they are closed and never up.     *)

MinOf(a, b) == IF a < b THEN a ELSE b

\* pipe_read on the read end r; it waits for a writer only while one counts.
pipe_read(r, count) ==
  LET q == pipe[r]
      n == MinOf(q.write_pos - q.read_pos, count)
      drained == n > 0 /\ q.read_pos + n = q.write_pos IN
  /\ q.read_pos = q.write_pos => q.writers <= 0
  /\ pipe' = [pipe EXCEPT ![r].read_pos = IF drained THEN 0 ELSE @ + n,
                          ![r].write_pos = IF drained THEN 0 ELSE @]

\* Mutant: what is still in the buffer is not taken off.
Available_All(q) == PipeSize

\* The room pipe_write sees, which is not the room behind write_pos.
Available(q) == PipeSize - (q.write_pos - q.read_pos)

\* pipe_write to the pipe r; with no reader it fails, with a reader and no room
\* it waits.
pipe_write(r, count) ==
  LET q == pipe[r] IN
  /\ q.readers # 0
  /\ q.readers > 0 => Available(q) > 0
  /\ pipe' = [pipe EXCEPT ![r].write_pos = @ + MinOf(Available(q), count)]

\* vfs_read and vfs_write, of a file that has the operation: only the ends of
\* a pipe have one with an effect on this state.
vfs_read(f, count) == f \in Heap \cap live /\ end[f] = f /\ pipe_read(f, count)

vfs_write(f, count) ==
  f \in Heap \cap live /\ end[f] \notin {Null, f} /\ pipe_write(end[f], count)

\* SYSCALL_READ and SYSCALL_WRITE, and libc's read and write, which look at all
\* of the table.
FilesOf(d) == {get_file(d), fd_table[Init1][d]}

read(d, count) ==
  /\ \E f \in FilesOf(d) : vfs_read(f, count)
  /\ UNCHANGED <<fd_table, fd_count, task_table, ref_count, live, room, end, excess, clean>>

write(d, count) ==
  /\ \E f \in FilesOf(d) : vfs_write(f, count)
  /\ UNCHANGED <<fd_table, fd_count, task_table, ref_count, live, room, end, excess, clean>>

-----------------------------------------------------------------------------
\* Calls are followed up to the first that frees a file in use: nothing is
\* claimed of what comes after it.
FilesNext ==
  /\ clean
  /\ \/ \E path \in Paths : \/ open(path) \/ vfs_mkdir(path) \/ vfs_stat(path)
                              \/ vfs_chdir(path) \/ load_binary(path)
     \/ \E d \in Fds : \/ close(d) \/ posix_close(d) \/ syscall_dup(d)
                        \/ \E n \in Fds : syscall_dup2(d, n) \/ posix_dup2(d, n)
                        \/ \E count \in 1 .. PipeSize : read(d, count) \/ write(d, count)
     \/ sock_alloc_fd \/ syscall_pipe \/ syscall_fork

FilesSpec == FilesInit /\ [][FilesNext]_filesvars

-----------------------------------------------------------------------------
\* Descriptors name files, counts are within the tables, and no file is open
\* that the heap still counts as room.
FilesTypeOK ==
  /\ fd_table \in [Tids -> [Fds -> Files \cup {Null}]]
  /\ fd_count \in [Tids -> 0 .. MaxFd]
  /\ task_table \subseteq Tids
  /\ ref_count \in [Files -> Nat] /\ excess \in [Files -> Int]
  /\ live \subseteq Files /\ room \subseteq Heap \ live
  /\ end \in [Heap -> Heap \cup {Null}]
  /\ pipe \in [Heap -> [readers : Int, writers : Int, read_pos : Nat, write_pos : Nat]]
  /\ clean \in BOOLEAN

References(f) == Cardinality({pd \in Tids \X Fds : fd_table[pd[1]][pd[2]] = f})

\* A reference is counted for every descriptor of every process, one more only
\* for what opening over a descriptor, opening with a full table and mkdir
\* below /dev have lost, and one less only for a copy by libc's dup2, whatever
\* was opened, copied, inherited and closed, until a call frees a file that
\* has other references: vfs_close does not take one off, as dup and fork
\* have put one on.
ReferencesAccounted ==
  clean => \A f \in Files : ref_count[f] = References(f) + excess[f]

\* Until then no descriptor is left with a file that was closed, and a file
\* is closed only with its last descriptor.
DescriptorsLive ==
  clean => \A p \in Tids, d \in Fds : fd_table[p][d] # Null => fd_table[p][d] \in live

\* No write passes the end of a pipe's buffer, although pipe_write goes by the
\* bytes that are waiting and copies to write_pos, which only a reader that
\* drains the pipe sets back.
PipeWithinBuffer ==
  \A r \in Heap : 0 <= pipe[r].read_pos /\ pipe[r].read_pos <= pipe[r].write_pos
                    /\ pipe[r].write_pos <= PipeSize

=============================================================================
