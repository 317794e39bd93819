------------------------------- MODULE Ramfs -------------------------------
(***************************************************************************)
(* fs/ramfs/ramfs.c: the tree of nodes, linked by parent, children, next   *)
(* and prev, and the pool from which the bytes of files are taken.  System *)
(* calls are not preempted in the file system, so that every operation of  *)
(* ramfs_fops is one step; a failed call may leave nodes it has made.      *)
(*                                                                         *)
(* A path is the sequence of its names, a node is its index                *)
(* in ramfs_nodes, and of the data pool the model has who uses which bytes.*)
(* ramfs_data_used is a word of Word values.                               *)
(***************************************************************************)
EXTENDS Integers, Sequences, FiniteSets

CONSTANTS
  Names,     \* file names
  Bin,       \* "bin", the directory ramfs_mount makes
  MaxDepth,  \* bound on the length of paths
  Handles,   \* open files
  MaxFiles,  \* the largest RAMFS_MAX_FILES
  Limits,    \* pairs of RAMFS_MAX_FILES and a bound on the writes that take
             \* room from the pool; a behaviour is under one of them
  MaxData,   \* RAMFS_MAX_DATA
  Word,      \* 2^32
  MaxCount   \* bound on the size of files and of writes

ASSUME RamfsAssumption ==
  /\ Bin \in Names /\ MaxFiles \in Nat \ {0, 1} /\ MaxDepth \in Nat \ {0}
  /\ MaxData \in Nat /\ MaxCount \in Nat \ {0}
  /\ Limits \subseteq (2 .. MaxFiles) \X Nat
  /\ Word \in Nat /\ Word > MaxData

VARIABLES
  fs,    \* the nodes, as a record of functions, and the counters of the pools
  file,  \* the node of each open file, Null when it is not open
  plain  \* history: files have only grown from empty, by a write from 0

ramfsvars == <<fs, file, plain>>

Nodes == 1 .. MaxFiles
Null == 0
NoData == -1
Root == 1
Paths == UNION {[1 .. k -> Names] : k \in 1 .. MaxDepth}
Last(path) == path[Len(path)]
Front(path) == SubSeq(path, 1, Len(path) - 1)

-----------------------------------------------------------------------------
(* The tree. *)

\* Mutant: the old head keeps its empty prev.
Link_OneWay(f, c, p) ==
  [f EXCEPT !.parent[c] = p, !.next[c] = f.children[p], !.prev[c] = Null,
            !.children[p] = c]

\* c becomes the first child of p.
Link(f, c, p) ==
  [f EXCEPT !.parent[c] = p,
            !.next[c] = f.children[p],
            !.prev = [m \in Nodes |-> IF m = c THEN Null
                                      ELSE IF m = f.children[p] THEN c ELSE @[m]],
            !.children[p] = c]

\* n leaves the list of its siblings.
Unlink(f, n) ==
  [f EXCEPT !.next = [m \in Nodes |-> IF m = f.prev[n] THEN f.next[n] ELSE @[m]],
            !.prev = [m \in Nodes |-> IF m = f.next[n] THEN f.prev[n] ELSE @[m]],
            !.children = [m \in Nodes |-> IF m = f.parent[n] /\ @[m] = n
                                          THEN f.next[n] ELSE @[m]]]

\* ramfs_alloc_node, and the linking of what it returns.
CanAlloc(f) == f.count < f.max_files
NewNode(f, name, dir, parent) ==
  LET c == f.count + 1 IN
  Link([f EXCEPT !.count = c, !.name[c] = name, !.dir[c] = dir], c, parent)

\* Mutant: the room of a removed file is taken off without the word wrapping.
ramfs_free_node_Unbounded(f, n) ==
  LET u == Unlink(f, n) IN
  [u EXCEPT !.used = IF f.data[n] = NoData THEN @ ELSE @ - f.size[n],
            !.data[n] = NoData, !.parent[n] = Null, !.children[n] = Null,
            !.next[n] = Null, !.prev[n] = Null]

ramfs_free_node(f, n) ==
  LET u == Unlink(f, n) IN
  [u EXCEPT !.used = IF f.data[n] = NoData THEN @ ELSE (@ - f.size[n]) % Word,
            !.data[n] = NoData, !.parent[n] = Null, !.children[n] = Null,
            !.next[n] = Null, !.prev[n] = Null]

\* The k-th sibling after node c.
After(f, c) ==
  LET s[k \in 0 .. MaxFiles] ==
        IF k = 0 THEN c
        ELSE LET n == s[k - 1] IN IF n = Null THEN Null ELSE f.next[n]
  IN  s

\* The first child of that name.
ramfs_find_child(f, p, name) ==
  LET s == After(f, f.children[p])
      hits == {k \in DOMAIN s : s[k] # Null /\ f.name[s[k]] = name} IN
  IF hits = {} THEN Null ELSE s[CHOOSE k \in hits : \A j \in hits : k <= j]

\* One name of a path, from node a.at of a.fs.  A name that is not found ends
\* the walk, or is made: by ramfs_open a file, always in the root directory, by
\* ramfs_mkdir a directory in the node reached, which may be a file.
Descend(a, name, make) ==
  LET child == ramfs_find_child(a.fs, a.at, name) IN
  IF a.at = Null THEN a
  ELSE IF child # Null THEN [a EXCEPT !.at = child]
  ELSE IF make = "none" \/ ~CanAlloc(a.fs) THEN [a EXCEPT !.at = Null]
  ELSE [fs |-> NewNode(a.fs, name, make = "dir", IF make = "dir" THEN a.at ELSE Root),
        at |-> a.fs.count + 1]

\* All operations walk along a path from the root.
Walk(f, path, make) ==
  LET w[k \in 0 .. Len(path)] ==
        IF k = 0 THEN [fs |-> f, at |-> Root] ELSE Descend(w[k - 1], path[k], make)
  IN  w[Len(path)]

Lookup(path) == Walk(fs, path, "none").at

\* ramfs_mount: the root and /bin.
RamfsInit ==
  /\ \E l \in Limits :
     fs = [count |-> 2, max_files |-> l[1], used |-> 0, stores |-> l[2],
           name |-> [n \in Nodes |-> Bin], dir |-> [n \in Nodes |-> n <= 2],
           parent |-> [n \in Nodes |-> IF n = 2 THEN Root ELSE Null],
           children |-> [n \in Nodes |-> IF n = Root THEN 2 ELSE Null],
           next |-> [n \in Nodes |-> Null], prev |-> [n \in Nodes |-> Null],
           size |-> [n \in Nodes |-> 0], data |-> [n \in Nodes |-> NoData]]
  /\ file = [h \in Handles |-> Null]
  /\ plain = TRUE

ramfs_open(h, path, creat) ==
  LET w == Walk(fs, path, IF creat THEN "file" ELSE "none") IN
  /\ file[h] = Null
  /\ fs' = w.fs
  /\ file' = [file EXCEPT ![h] = w.at]
  /\ UNCHANGED plain

\* ramfs_close, and the descriptor is gone.
ramfs_close(h) ==
  /\ file[h] # Null
  /\ file' = [file EXCEPT ![h] = Null]
  /\ UNCHANGED <<fs, plain>>

\* The last name of a path as a buffer holds it, which nothing has been copied
\* to when the path has no names.
Copied(path) == IF path = <<>> THEN Names ELSE {Last(path)}

\* ramfs_mkdir: the walk has made the last name too, and then a directory of
\* that name is made inside it.
ramfs_mkdir(path) ==
  LET w == Walk(fs, path, "dir") IN
  /\ \E name \in Copied(path) :
       fs' = IF /\ w.at # Null /\ w.fs.dir[w.at]
                /\ ramfs_find_child(w.fs, w.at, name) = Null
                /\ CanAlloc(w.fs)
             THEN NewNode(w.fs, name, TRUE, w.at) ELSE w.fs
  /\ UNCHANGED <<file, plain>>

ramfs_rmdir(path) ==
  LET n == Lookup(path) IN
  /\ n # Null /\ fs.dir[n] /\ fs.children[n] = Null
  /\ fs' = ramfs_free_node(fs, n)
  /\ plain' = (plain /\ fs.data[n] = NoData)
  /\ UNCHANGED file

\* ramfs_unlink does not look at the children a file may have.
ramfs_unlink(path) ==
  LET n == Lookup(path) IN
  /\ n # Null /\ ~fs.dir[n]
  /\ fs' = ramfs_free_node(fs, n)
  /\ plain' = (plain /\ fs.data[n] = NoData)
  /\ UNCHANGED file

\* ramfs_resolve_parent: NULL also when the last name does not exist, and the
\* root of a path without names.
ramfs_resolve_parent(path) ==
  IF path = <<>> THEN Root
  ELSE IF Lookup(path) = Null THEN Null ELSE Walk(fs, Front(path), "none").at

\* Mutant: what has the new name already stays.
Displace_Keeps(f, n) == f

\* What has the new name already is freed.
Displace(f, n) == IF n = Null THEN f ELSE ramfs_free_node(f, n)

\* ramfs_rename to the name base: onto a path that exists, whose node is freed,
\* or onto "/", which stands for whatever name the buffer holds in the root.
\* The new parent is not the node itself; its subtree is not looked at.
ramfs_rename(oldpath, newpath, base) ==
  LET old == Lookup(oldpath)
      parent == ramfs_resolve_parent(newpath)
      existing == ramfs_find_child(fs, parent, base)
      f == Displace(fs, existing) IN
  /\ old # Null /\ parent # Null
  /\ ~(Last(oldpath) = base /\ parent = fs.parent[old])
  /\ parent # old
  /\ existing # Null /\ fs.dir[existing] => fs.children[existing] = Null
  /\ fs' = Link([Unlink(f, old) EXCEPT !.name[old] = base], old, parent)
  /\ plain' = (plain /\ (existing # Null => fs.data[existing] = NoData))
  /\ UNCHANGED file

\* ramfs_readdir moves the open file to the first child, or to the sibling
\* after it; at a node that has neither it ends.
ramfs_readdir(h) ==
  LET n == file[h]
      to == IF fs.children[n] # Null THEN fs.children[n] ELSE fs.next[n] IN
  /\ n # Null /\ to # Null
  /\ file' = [file EXCEPT ![h] = to]
  /\ UNCHANGED <<fs, plain>>

-----------------------------------------------------------------------------
(* The data pool. *)

\* Where a write ends: a word, which wraps.
End(offset, count) == (offset + count) % Word

\* The write has to find new room.
Grows(n, offset, count) == fs.data[n] = NoData \/ End(offset, count) > fs.size[n]

\* Mutant: the room is not counted.
Reserve_NotCounted(count) == fs.used

\* ramfs_data_used once count bytes are taken.
Reserve(count) == (fs.used + count) % Word

Fits(count) == Reserve(count) <= MaxData

\* What ramfs_write and ramfs_pwrite do: a write that grows the file takes room
\* for count bytes, which may be none, copies what the file has to it and writes
\* at the offset.
Store(n, offset, count) ==
  /\ Grows(n, offset, count) => Fits(count) /\ fs.stores > 0
  /\ fs' = [fs EXCEPT
       !.data[n] = IF Grows(n, offset, count) THEN fs.used ELSE @,
       !.stores = IF Grows(n, offset, count) THEN @ - 1 ELSE @,
       !.used = IF Grows(n, offset, count) THEN Reserve(count) ELSE @,
       !.size[n] = IF End(offset, count) > @ THEN End(offset, count) ELSE @]
  /\ plain' = (plain /\ (Grows(n, offset, count) => fs.size[n] = 0 /\ offset = 0))

\* ramfs_write at the file's offset, wherever ramfs_lseek, ramfs_read and
\* earlier writes have left it, and ramfs_pwrite.  Reading changes nothing else.
ramfs_write(h, count, offset) ==
  /\ file[h] # Null
  /\ End(offset, count) <= MaxCount
  /\ Store(file[h], offset, count)
  /\ UNCHANGED file

-----------------------------------------------------------------------------
RamfsNext ==
  \/ \E p \in Paths : ramfs_unlink(p)
  \/ \E p \in Paths \cup {<<>>} : ramfs_mkdir(p) \/ ramfs_rmdir(p)
  \/ \E p \in Paths, q \in Paths \cup {<<>>} : \E base \in Copied(q) : ramfs_rename(p, q, base)
  \/ \E h \in Handles :
       \/ \E p \in Paths \cup {<<>>}, creat \in BOOLEAN : ramfs_open(h, p, creat)
       \/ ramfs_close(h) \/ ramfs_readdir(h)
       \/ \E count \in 0 .. MaxCount, offset \in 0 .. Word - 1 : ramfs_write(h, count, offset)

RamfsSpec == RamfsInit /\ [][RamfsNext]_ramfsvars

-----------------------------------------------------------------------------
\* Links point at nodes, counters stay in range.
RamfsTypeOK ==
  /\ fs \in [count : 2 .. MaxFiles, max_files : 2 .. MaxFiles,
             used : 0 .. Word - 1, stores : Nat,
             name : [Nodes -> Names], dir : [Nodes -> BOOLEAN],
             parent : [Nodes -> Nodes \cup {Null}], children : [Nodes -> Nodes \cup {Null}],
             next : [Nodes -> Nodes \cup {Null}], prev : [Nodes -> Nodes \cup {Null}],
             size : [Nodes -> 0 .. MaxCount], data : [Nodes -> {NoData} \cup 0 .. Word - 1]]
  /\ file \in [Handles -> Nodes \cup {Null}]
  /\ plain \in BOOLEAN

Children(f, n) == LET s == After(f, f.children[n]) IN {s[k] : k \in 0 .. MaxFiles} \ {Null}
Freed(f) == {n \in 2 .. f.count : f.parent[n] = Null}

\* The list of every node's children ends, is linked both ways, holds only
\* nodes whose parent it is, and holds all of them unless the parent was
\* freed with its children: moving, removing and displacing nodes in any order
\* never splices a list into another.
ListsWellFormed ==
  \A n \in Nodes :
    /\ After(fs, fs.children[n])[MaxFiles] = Null
    /\ \A c \in Children(fs, n) :
         /\ fs.parent[c] = n
         /\ fs.prev[c] = Null <=> fs.children[n] = c
         /\ fs.next[c] # Null => fs.prev[fs.next[c]] = c
    /\ n \notin Freed(fs) => {c \in Nodes : fs.parent[c] = n} \subseteq Children(fs, n)

\* In every directory but the root two children have different names, whatever
\* was made, moved and displaced.  In the root ramfs_open may put a second one.
NamesUniqueBelowRoot ==
  \A n \in Nodes \ {Root} : \A c, d \in Children(fs, n) : c # d => fs.name[c] # fs.name[d]

\* As long as files grow only from empty and from their beginning, and none with
\* data is removed, no byte of the pool belongs to two files, and all lie below
\* ramfs_data_used.  (Growing a file reserves only the bytes of the
\* write, and removing one takes its size off the top of the pool.)
PlainFilesDisjoint ==
  plain =>
    LET Bytes(n) == IF fs.data[n] = NoData THEN {} ELSE fs.data[n] .. fs.data[n] + fs.size[n] - 1 IN
    /\ \A n \in Nodes : Bytes(n) \subseteq 0 .. fs.used - 1
    /\ \A n, m \in Nodes : n # m => Bytes(n) \cap Bytes(m) = {}
    /\ fs.used <= MaxData

=============================================================================
