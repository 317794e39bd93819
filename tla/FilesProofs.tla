---------------------------- MODULE FilesProofs ----------------------------
(***************************************************************************)
(* Proofs about module Files, for tables, pool, heap and pipes of any      *)
(* size and any set of paths: the types, that descriptors and references   *)
(* agree until a call frees a file in use, and that no write passes the    *)
(* end of a pipe's buffer.                                                 *)
(***************************************************************************)
EXTENDS Files, FiniteSetTheorems, WellFoundedInduction, TLAPS

\* The descriptors of table tab that name f, and how many there are.
RefsOf(tab, f) == {pd \in Tids \X Fds : tab[pd[1]][pd[2]] = f}
Count(tab, f) == Cardinality(RefsOf(tab, f))

Tables == [Tids -> [Fds -> Files \cup {Null}]]

\* What the calls have not used yet: tables of tids no task has, and heap files.
SpareInv ==
  /\ Init1 \in task_table
  /\ \A t \in Tids : t \notin task_table => \A d \in Fds : fd_table[t][d] = Null
  /\ clean => \A f \in room : ref_count[f] = 0

\* A file that is not counted at all has nothing in excess either: libc's dup2
\* copies only a file that is open, and closing one is the end of both.
ExcessInv == clean => \A f \in Files : ref_count[f] = 0 => excess[f] = 0

\* A pipe counts no reader while its read end is open, so that nothing is
\* written, and once it is closed nothing is read: read_pos never moves.
PipesInv ==
  \A r \in Heap :
    /\ pipe[r].read_pos = 0 /\ pipe[r].write_pos =< PipeSize
    /\ r \in live \cup room => pipe[r].readers = 0 /\ pipe[r].write_pos = 0

FilesInv ==
  /\ FilesTypeOK /\ SpareInv /\ PipesInv /\ ExcessInv
  /\ ReferencesAccounted /\ DescriptorsLive

-----------------------------------------------------------------------------
\* A non-empty set of natural numbers has a least element.
LEMMA LeastElement ==
  ASSUME NEW S, S \subseteq Nat, S # {}
  PROVE  \E i \in S : \A j \in S : i <= j
<1>1. PICK m \in S : \A n \in S : ~(<<n, m>> \in OpToRel(<, Nat))
  BY NatLessThanWellFounded, WFMin
<1>2. \A n \in S : ~(n < m)
  BY <1>1 DEF OpToRel
<1> QED
  BY <1>2

LEMMA FirstIsLeast ==
  ASSUME NEW S, S \subseteq Nat, S # {}
  PROVE  First(S) \in S
<1>1. \E i \in S : \A j \in S : i <= j
  BY LeastElement
<1> QED
  BY <1>1, Zenon DEF First

LEMMA Sizes ==
  /\ Slots \in Nat \ {0} /\ HeapFiles \in Nat /\ MaxFd \in Nat \ {0}
  /\ MaxTasks \in Nat /\ PipeSize \in Nat /\ Init1 \in Tids
  /\ Tids \subseteq Nat /\ Fds \subseteq Nat /\ Pool \subseteq Nat /\ Heap \subseteq Nat
  /\ Null \notin Files /\ Null \notin Tids /\ Pool \subseteq Files /\ Heap \subseteq Files
  /\ Pool \cap Heap = {}
<1>1. /\ Slots \in Nat \ {0} /\ HeapFiles \in Nat /\ MaxFd \in Nat \ {0}
      /\ MaxTasks \in Nat \ {0, 1} /\ PipeSize \in Nat
  BY FilesAssumption
<1> QED
  BY <1>1 DEF Tids, Fds, Pool, Heap, Files, Null, Init1

\* A free slot exists when the pool is not full, and file_alloc names one.
LEMMA FileAllocFree ==
  ASSUME ~PoolFull
  PROVE  file_alloc \in Pool /\ ref_count[file_alloc] = 0
<1> DEFINE S == {f \in Pool : ref_count[f] = 0}
<1>1. S # {} /\ S \subseteq Nat
  BY Sizes DEF PoolFull
<1>2. PICK f \in S : \A g \in S : f <= g
  BY <1>1, LeastElement
<1>3. f \in Pool /\ ref_count[f] = 0 /\ \A g \in Pool : g < f => ref_count[g] # 0
  <2>1. \A g \in Pool : g < f => ~(f <= g)
    BY <1>1, Sizes
  <2> QED
    BY <1>2, <2>1
<1> QED
  BY <1>3, Zenon DEF file_alloc

LEMMA AllocTidFree ==
  alloc_tid = Null \/ alloc_tid \in Tids \ task_table
<1>1. CASE Tids \subseteq task_table
  BY <1>1 DEF alloc_tid
<1>2. CASE ~(Tids \subseteq task_table)
  <2>1. Tids \ task_table # {} /\ Tids \ task_table \subseteq Nat
    BY <1>2, Sizes
  <2>2. \E t \in Tids \ task_table : \A u \in Tids \ task_table : t <= u
    BY <2>1, LeastElement
  <2> QED
    BY <1>2, <2>2, Zenon DEF alloc_tid
<1> QED
  BY <1>1, <1>2

-----------------------------------------------------------------------------
(* Counting descriptors. *)

LEMMA RefsMembers ==
  ASSUME NEW tab, NEW f
  PROVE  /\ \A p \in Tids, d \in Fds : <<p, d>> \in RefsOf(tab, f) <=> tab[p][d] = f
         /\ \A x \in RefsOf(tab, f) : \E p \in Tids, d \in Fds : x = <<p, d>>
<1>1. ASSUME NEW p \in Tids, NEW d \in Fds
      PROVE  <<p, d>> \in RefsOf(tab, f) <=> tab[p][d] = f
  BY DEF RefsOf
<1>2. ASSUME NEW x \in RefsOf(tab, f)
      PROVE  \E p \in Tids, d \in Fds : x = <<p, d>>
  BY DEF RefsOf
<1> QED
  BY <1>1, <1>2

LEMMA RefsFinite ==
  ASSUME NEW tab, NEW f
  PROVE  IsFiniteSet(RefsOf(tab, f)) /\ Count(tab, f) \in Nat
<1>1. IsFiniteSet(Tids) /\ IsFiniteSet(Fds)
  BY Sizes, FS_Interval DEF Tids, Fds
<1>2. IsFiniteSet(Tids \X Fds)
  BY <1>1, FS_Product
<1>3. IsFiniteSet(RefsOf(tab, f))
  BY <1>2, FS_Subset DEF RefsOf
<1> QED
  BY <1>3, FS_CardinalityType DEF Count

\* A file no descriptor names has no references, and one that is named has.
LEMMA CountZero ==
  ASSUME NEW tab, NEW f
  PROVE  /\ Count(tab, f) = 0 <=> \A p \in Tids, d \in Fds : tab[p][d] # f
         /\ \A p \in Tids, d \in Fds, q \in Tids, e \in Fds :
              tab[p][d] = f /\ tab[q][e] = f /\ Count(tab, f) =< 1 => p = q /\ d = e
<1>1. Count(tab, f) = 0 <=> RefsOf(tab, f) = {}
  BY RefsFinite, FS_EmptySet DEF Count
<1>2. RefsOf(tab, f) = {} <=> \A p \in Tids, d \in Fds : tab[p][d] # f
  <2>1. \A p \in Tids, d \in Fds : <<p, d>> \in RefsOf(tab, f) <=> tab[p][d] = f
    BY RefsMembers
  <2>2. \A x \in RefsOf(tab, f) : \E p \in Tids, d \in Fds : x = <<p, d>>
    BY RefsMembers
  <2>3. ASSUME RefsOf(tab, f) = {}, NEW p \in Tids, NEW d \in Fds
        PROVE  tab[p][d] # f
    BY <2>1, <2>3
  <2>4. ASSUME \A p \in Tids, d \in Fds : tab[p][d] # f, NEW x \in RefsOf(tab, f)
        PROVE  FALSE
    BY <2>1, <2>2, <2>4
  <2> QED
    BY <2>3, <2>4
<1>3. ASSUME NEW p \in Tids, NEW d \in Fds, NEW q \in Tids, NEW e \in Fds,
             tab[p][d] = f, tab[q][e] = f, Count(tab, f) =< 1
      PROVE  p = q /\ d = e
  <2>1. <<p, d>> \in RefsOf(tab, f) /\ <<q, e>> \in RefsOf(tab, f)
    BY <1>3 DEF RefsOf
  <2>2. Count(tab, f) = 1
    BY <1>1, <1>3, <2>1, RefsFinite
  <2>3. PICK x : RefsOf(tab, f) = {x}
    BY <2>2, RefsFinite, FS_Singleton DEF Count
  <2> QED
    BY <2>1, <2>3
<1> QED
  BY <1>1, <1>2, <1>3

\* Table new is tab with f written to descriptor d of the first process.
Changed(tab, new, d, f) ==
  \A p \in Tids, e \in Fds : new[p][e] = IF p = Init1 /\ e = d THEN f ELSE tab[p][e]

\* Writing a descriptor takes a reference from what it named and gives one to
\* what it names.
LEMMA CountChanged ==
  ASSUME NEW tab, NEW d \in Fds, NEW f, NEW new, NEW g \in Files,
         Changed(tab, new, d, f)
  PROVE  Count(new, g) = Count(tab, g) + (IF g = f THEN 1 ELSE 0)
                                       - (IF g = tab[Init1][d] THEN 1 ELSE 0)
<1> DEFINE x == <<Init1, d>>
<1>2. \A p \in Tids, e \in Fds : new[p][e] = IF p = Init1 /\ e = d THEN f ELSE tab[p][e]
  BY DEF Changed
<1>3. /\ IsFiniteSet(RefsOf(tab, g)) /\ Count(tab, g) \in Nat
      /\ IsFiniteSet(RefsOf(new, g)) /\ Count(new, g) \in Nat
  BY RefsFinite
<1>4. x \in RefsOf(tab, g) <=> g = tab[Init1][d]
  BY Sizes, RefsMembers
<1>5. CASE g = f /\ g # tab[Init1][d]
  <2>1. RefsOf(new, g) = RefsOf(tab, g) \cup {x}
    <3>1. ASSUME NEW p \in Tids, NEW e \in Fds
          PROVE  <<p, e>> \in RefsOf(new, g) <=> <<p, e>> \in RefsOf(tab, g) \cup {x}
      <4>1. (<<p, e>> \in RefsOf(new, g) <=> new[p][e] = g)
            /\ (<<p, e>> \in RefsOf(tab, g) <=> tab[p][e] = g)
        BY RefsMembers
      <4>2. <<p, e>> = x <=> p = Init1 /\ e = d
        OBVIOUS
      <4> QED
        BY <1>2, <1>5, <4>1, <4>2
    <3>2. \A y \in RefsOf(new, g) \cup RefsOf(tab, g) \cup {x} :
             \E p \in Tids, e \in Fds : y = <<p, e>>
      BY RefsMembers, Sizes
    <3> QED
      BY <3>1, <3>2
  <2>2. Count(new, g) = Count(tab, g) + 1
    BY <1>3, <1>4, <1>5, <2>1, FS_AddElement DEF Count
  <2> QED
    BY <1>3, <1>5, <2>2
<1>6. CASE g # f /\ g = tab[Init1][d]
  <2>1. RefsOf(new, g) = RefsOf(tab, g) \ {x}
    <3>1. ASSUME NEW p \in Tids, NEW e \in Fds
          PROVE  <<p, e>> \in RefsOf(new, g) <=> <<p, e>> \in RefsOf(tab, g) \ {x}
      <4>1. (<<p, e>> \in RefsOf(new, g) <=> new[p][e] = g)
            /\ (<<p, e>> \in RefsOf(tab, g) <=> tab[p][e] = g)
        BY RefsMembers
      <4>2. <<p, e>> = x <=> p = Init1 /\ e = d
        OBVIOUS
      <4> QED
        BY <1>2, <1>6, <4>1, <4>2
    <3>2. \A y \in RefsOf(new, g) \cup RefsOf(tab, g) :
             \E p \in Tids, e \in Fds : y = <<p, e>>
      BY RefsMembers
    <3> QED
      BY <3>1, <3>2
  <2>2. Count(new, g) = Count(tab, g) - 1
    BY <1>3, <1>4, <1>6, <2>1, FS_RemoveElement DEF Count
  <2> QED
    BY <1>3, <1>6, <2>2
<1>7. CASE (g = f) <=> (g = tab[Init1][d])
  <2>1. RefsOf(new, g) = RefsOf(tab, g)
    <3>1. ASSUME NEW p \in Tids, NEW e \in Fds
          PROVE  <<p, e>> \in RefsOf(new, g) <=> <<p, e>> \in RefsOf(tab, g)
      <4>1. (<<p, e>> \in RefsOf(new, g) <=> new[p][e] = g)
            /\ (<<p, e>> \in RefsOf(tab, g) <=> tab[p][e] = g)
        BY RefsMembers
      <4> QED
        BY <1>2, <1>7, <4>1
    <3>2. \A y \in RefsOf(new, g) \cup RefsOf(tab, g) :
             \E p \in Tids, e \in Fds : y = <<p, e>>
      BY RefsMembers
    <3> QED
      BY <3>1, <3>2
  <2>2. Count(new, g) = Count(tab, g)
    BY <2>1 DEF Count
  <2> QED
    BY <1>3, <1>7, <2>2
<1> QED
  BY <1>5, <1>6, <1>7

\* Table new is tab with the descriptors of t replaced by row.
RowChanged(tab, new, t, row) ==
  \A p \in Tids, e \in Fds : new[p][e] = IF p = t THEN row[e] ELSE tab[p][e]

\* The descriptors of a row that name f.
RowRefs(row, f) == {d \in Fds : row[d] = f}

\* Filling an empty row adds the references of that row.
LEMMA CountRow ==
  ASSUME NEW tab, NEW new, NEW t \in Tids, NEW row, NEW g \in Files,
         \A d \in Fds : tab[t][d] = Null, RowChanged(tab, new, t, row)
  PROVE  Count(new, g) = Count(tab, g) + Cardinality(RowRefs(row, g))
<1> DEFINE S == {d \in Fds : row[d] = g}
           T == {<<t, d>> : d \in S}
<1>1. \A p \in Tids, e \in Fds : new[p][e] = IF p = t THEN row[e] ELSE tab[p][e]
  BY DEF RowChanged
<1>2. IsFiniteSet(S) /\ S \subseteq Fds
  <2>1. IsFiniteSet(Fds)
    BY Sizes, FS_Interval DEF Fds
  <2> QED
    BY <2>1, FS_Subset
<1>3. IsFiniteSet(T) /\ Cardinality(T) = Cardinality(S)
  <2> DEFINE h == [d \in S |-> <<t, d>>]
  <2>1. h \in Bijection(S, T)
    BY DEF Bijection, Injection, Surjection, IsInjective
  <2>2. ExistsBijection(S, T)
    BY <2>1 DEF ExistsBijection
  <2> QED
    BY <1>2, <2>2, FS_Bijection
<1>4. RefsOf(new, g) = RefsOf(tab, g) \cup T /\ RefsOf(tab, g) \cap T = {}
  <2>1. ASSUME NEW p \in Tids, NEW e \in Fds
        PROVE  /\ <<p, e>> \in RefsOf(new, g) <=> <<p, e>> \in RefsOf(tab, g) \cup T
               /\ ~(<<p, e>> \in RefsOf(tab, g) /\ <<p, e>> \in T)
    <3>1. (<<p, e>> \in RefsOf(new, g) <=> new[p][e] = g)
          /\ (<<p, e>> \in RefsOf(tab, g) <=> tab[p][e] = g)
      BY RefsMembers
    <3>2. <<p, e>> \in T <=> p = t /\ row[e] = g
      OBVIOUS
    <3>3. g # Null
      BY Sizes
    <3> HIDE DEF T
    <3> QED
      BY <1>1, <3>1, <3>2, <3>3
  <2>2. \A y \in RefsOf(new, g) \cup RefsOf(tab, g) \cup T :
          \E p \in Tids, e \in Fds : y = <<p, e>>
    BY RefsMembers
  <2> HIDE DEF T
  <2> QED
    BY <2>1, <2>2
<1>5. IsFiniteSet(RefsOf(tab, g)) /\ Count(tab, g) \in Nat
  BY RefsFinite
<1>6. Cardinality(RefsOf(tab, g) \cap T) = 0
  BY <1>4, FS_EmptySet
<1>7. Cardinality(S) \in Nat
  BY <1>2, FS_CardinalityType
<1> HIDE DEF S, T
<1>8. Cardinality(RefsOf(tab, g) \cup T)
        = Cardinality(RefsOf(tab, g)) + Cardinality(T) - Cardinality(RefsOf(tab, g) \cap T)
  BY <1>3, <1>5, FS_Union
<1>9. Count(new, g) = Count(tab, g) + Cardinality(S)
  BY <1>3, <1>4, <1>5, <1>6, <1>7, <1>8 DEF Count
<1> QED
  BY <1>9 DEF S, RowRefs

\* The two properties, in the terms used below.
Accounted ==
  clean => \A f \in Files : ref_count[f] = Count(fd_table, f) + excess[f]

LEMMA AccountedIs ==
  ReferencesAccounted <=> Accounted
  BY DEF ReferencesAccounted, Accounted, References, Count, RefsOf

\* While nothing went wrong, a file without references is named by no
\* descriptor.
LEMMA Unreferenced ==
  ASSUME FilesInv, clean, NEW f \in Files, ref_count[f] = 0
  PROVE  /\ Count(fd_table, f) = 0 /\ excess[f] = 0
         /\ \A p \in Tids, d \in Fds : fd_table[p][d] # f
<1>1. ref_count[f] = Count(fd_table, f) + excess[f] /\ excess[f] = 0
  BY AccountedIs DEF FilesInv, FilesTypeOK, Accounted, ExcessInv
<1>2. Count(fd_table, f) \in Nat
  BY RefsFinite
<1> QED
  BY <1>1, <1>2, CountZero

\* And a file that is the closed descriptor's alone by no other descriptor.
LEMMA OnlyReference ==
  ASSUME FilesInv, clean, NEW p \in Tids, NEW d \in Fds, NEW f \in Files,
         f = fd_table[p][d], ref_count[f] =< 1, excess[f] >= 0
  PROVE  /\ Count(fd_table, f) = 1 /\ excess[f] = 0
         /\ \A q \in Tids, e \in Fds : fd_table[q][e] = f => q = p /\ e = d
<1>2. ref_count[f] = Count(fd_table, f) + excess[f] /\ excess[f] \in Int
      /\ Count(fd_table, f) \in Nat
  BY AccountedIs, RefsFinite DEF FilesInv, FilesTypeOK, Accounted
<1>3. Count(fd_table, f) # 0
  BY CountZero
<1>4. Count(fd_table, f) = 1 /\ excess[f] = 0
  BY <1>2, <1>3
<1>5. \A q \in Tids, e \in Fds : fd_table[q][e] = f => q = p /\ e = d
  BY <1>4, CountZero
<1> QED
  BY <1>4, <1>5

\* What closing an end does to the pipes.
LEMMA PipeClosedFields ==
  ASSUME FilesInv, NEW f \in Files
  PROVE  /\ PipeClosed(f) \in
              [Heap -> [readers : Int, writers : Int, read_pos : Nat, write_pos : Nat]]
         /\ \A r \in Heap : /\ PipeClosed(f)[r].read_pos = pipe[r].read_pos
                            /\ PipeClosed(f)[r].write_pos = pipe[r].write_pos
                            /\ (r # f => PipeClosed(f)[r].readers = pipe[r].readers)
<1>1. /\ pipe \in [Heap -> [readers : Int, writers : Int, read_pos : Nat, write_pos : Nat]]
      /\ end \in [Heap -> Heap \cup {Null}]
  BY DEF FilesInv, FilesTypeOK
<1>2. CASE f \notin Heap \cap live \/ end[f] = Null
  BY <1>1, <1>2 DEF PipeClosed
<1>3. CASE f \in Heap \cap live /\ end[f] # Null /\ end[f] = f
  BY <1>1, <1>3 DEF PipeClosed
<1>4. CASE f \in Heap \cap live /\ end[f] # Null /\ end[f] # f
  <2>1. end[f] \in Heap
    BY <1>1, <1>4
  <2> QED
    BY <1>1, <1>4, <2>1 DEF PipeClosed
<1> QED
  BY <1>2, <1>3, <1>4

-----------------------------------------------------------------------------
LEMMA FilesInitInv ==
  FilesInit => FilesInv
<1> SUFFICES ASSUME FilesInit PROVE FilesInv
  OBVIOUS
<1>1. FilesTypeOK
  BY Sizes DEF FilesInit, FilesTypeOK, process_create
<1>2. \A p \in Tids, d \in Fds : fd_table[p][d] = Null
  BY DEF FilesInit, process_create
<1>3. SpareInv
  BY <1>2, Sizes DEF FilesInit, SpareInv
<1>4. PipesInv /\ ExcessInv
  BY Sizes DEF FilesInit, PipesInv, ExcessInv
<1>5. DescriptorsLive
  BY <1>2 DEF DescriptorsLive
<1>6. \A f \in Files : Count(fd_table, f) = 0
  BY <1>2, Sizes, CountZero
<1>7. Accounted
  BY <1>6 DEF Accounted, FilesInit
<1> QED
  BY <1>1, <1>3, <1>4, <1>5, <1>7, AccountedIs DEF FilesInv

\* The types, as the steps below use them.
LEMMA StateTypes ==
  ASSUME FilesInv
  PROVE  /\ FilesTypeOK /\ fd_table \in Tables
         /\ fd_count \in [Tids -> 0 .. MaxFd]
         /\ task_table \subseteq Tids
         /\ ref_count \in [Files -> Nat] /\ excess \in [Files -> Int]
         /\ live \subseteq Files /\ room \subseteq Heap \ live
  BY DEF FilesInv, FilesTypeOK, Tables

\* A descriptor get_file finds a file behind.
LEMMA GetFile ==
  ASSUME FilesInv, clean, NEW d \in Fds, get_file(d) # Null
  PROVE  get_file(d) = fd_table[Init1][d] /\ get_file(d) \in Files /\ get_file(d) \in live
  BY StateTypes, Sizes DEF get_file, Tables, FilesInv, DescriptorsLive

\* A slot taken and given back leaves everything as it was.
LEMMA BorrowSame ==
  ASSUME FilesInv, Borrow
  PROVE  UNCHANGED filesvars
<1>1. file_alloc \in Pool /\ ref_count[file_alloc] = 0
  BY FileAllocFree DEF Borrow
<1>2. ref_count' = ref_count
  BY <1>1, StateTypes DEF Borrow
<1> QED
  BY <1>2 DEF Borrow, filesvars

\* Pipes a step leaves alone, together with the files that may be their ends.
LEMMA PipesFrame ==
  ASSUME PipesInv, pipe' = pipe, live' \cap Heap \subseteq live \cup room, room' \subseteq room
  PROVE  PipesInv'
  BY DEF PipesInv

\* A file some descriptor names is counted.
LEMMA NamedCounted ==
  ASSUME FilesInv, clean, NEW d \in Fds, NEW f \in Files, fd_table[Init1][d] = f
  PROVE  ref_count[f] # 0
  BY Unreferenced, Sizes

LEMMA OpenInv ==
  ASSUME FilesInv, clean, NEW path \in Paths, open(path)
  PROVE  FilesInv'
<1>1. PICK f \in Pool : f = file_alloc /\ ref_count[f] = 0
  BY FileAllocFree DEF open
<1>2. PICK d \in 0 .. MaxFd : d = fd_count[Init1]
  BY StateTypes, Sizes
<1>3. /\ ref_count' = [g \in Files |-> IF g \in {f} THEN 1 ELSE ref_count[g]]
      /\ live' = live \cup {f}
      /\ UNCHANGED <<task_table, room, end, pipe, clean>>
  BY <1>1 DEF open, Make
<1>4. f \in Files /\ f \notin Heap /\ f \notin room
  BY Sizes, StateTypes
<1>5. Count(fd_table, f) = 0 /\ excess[f] = 0 /\ \A p \in Tids, e \in Fds : fd_table[p][e] # f
  BY <1>1, <1>4, Unreferenced
<1>6. PipesInv'
  BY <1>3, <1>4, PipesFrame DEF FilesInv
<1>7. CASE d < MaxFd
  <2>1. d \in Fds
    BY <1>7, Sizes DEF Fds
  <2>2. PICK old \in Files \cup {Null} : old = fd_table[Init1][d]
    <3>1. Init1 \in Tids
      BY Sizes
    <3>2. fd_table[Init1][d] \in Files \cup {Null}
      BY <2>1, <3>1, StateTypes DEF Tables
    <3> QED
      BY <3>2
  <2>3. /\ fd_table' = [fd_table EXCEPT ![Init1][d] = f]
        /\ fd_count' = [fd_count EXCEPT ![Init1] = d + 1]
        /\ excess' = [g \in Files |-> IF g = old THEN excess[g] + 1 ELSE excess[g]]
    BY <1>1, <1>2, <1>7, <2>2 DEF open, Install
  <2>4. fd_table' \in Tables /\ Changed(fd_table, fd_table', d, f)
    BY <1>4, <2>1, <2>3, StateTypes, Sizes DEF Tables, Changed
  <2>5. FilesTypeOK'
    <3>1. fd_count' \in [Tids -> 0 .. MaxFd]
      BY <1>2, <1>7, <2>3, StateTypes, Sizes
    <3>2. excess' \in [Files -> Int] /\ ref_count' \in [Files -> Nat]
      BY <1>3, <2>3, StateTypes
    <3> QED
      BY <1>3, <1>4, <2>4, <3>1, <3>2, StateTypes DEF FilesTypeOK, Tables
  <2>6. SpareInv'
    BY <1>3, <1>4, <2>4, StateTypes, Sizes DEF FilesInv, SpareInv, Changed
  <2>7. DescriptorsLive'
    BY <1>3, <2>4 DEF FilesInv, DescriptorsLive, Changed
  <2>8. Accounted'
    <3> SUFFICES ASSUME NEW g \in Files
                 PROVE  ref_count'[g] = Count(fd_table', g) + excess'[g]
      BY DEF Accounted
    <3>1. Count(fd_table', g) = Count(fd_table, g) + (IF g = f THEN 1 ELSE 0)
                                                   - (IF g = old THEN 1 ELSE 0)
      BY <2>1, <2>2, <2>4, CountChanged
    <3>2. ref_count[g] = Count(fd_table, g) + excess[g] /\ Count(fd_table, g) \in Nat
          /\ excess[g] \in Int /\ f # old
      BY <1>5, <2>1, <2>2, AccountedIs, RefsFinite, StateTypes, Sizes DEF FilesInv, Accounted
    <3>3. ref_count'[g] = (IF g = f THEN 1 ELSE ref_count[g])
          /\ excess'[g] = (IF g = old THEN excess[g] + 1 ELSE excess[g])
      BY <1>3, <2>3
    <3> QED
      BY <1>5, <3>1, <3>2, <3>3
  <2>9. ReferencesAccounted'
    BY <2>8, AccountedIs, PTL
  <2>10. ExcessInv'
    <3>1. ASSUME NEW g \in Files, ref_count'[g] = 0
          PROVE  excess'[g] = 0
      <4>1. g # f /\ ref_count[g] = 0
        BY <1>3, <3>1
      <4>2. g # old
        BY <2>1, <2>2, <4>1, NamedCounted
      <4> QED
        BY <2>3, <4>1, <4>2 DEF FilesInv, ExcessInv
    <3> QED
      BY <3>1 DEF ExcessInv
  <2> QED
    BY <1>6, <2>5, <2>6, <2>7, <2>9, <2>10 DEF FilesInv
<1>8. CASE ~(d < MaxFd)
  <2>1. excess' = [excess EXCEPT ![f] = @ + 1] /\ UNCHANGED <<fd_table, fd_count>>
    BY <1>1, <1>2, <1>8 DEF open
  <2>2. excess' \in [Files -> Int] /\ ref_count' \in [Files -> Nat]
    BY <1>3, <1>4, <2>1, StateTypes
  <2>3. FilesTypeOK'
    BY <1>3, <1>4, <2>1, <2>2, StateTypes DEF FilesTypeOK
  <2>4. SpareInv' /\ DescriptorsLive'
    <3>1. \A g \in room : ref_count'[g] = ref_count[g]
      BY <1>3, <1>4, StateTypes, Sizes
    <3> QED
      BY <1>3, <2>1, <3>1 DEF FilesInv, SpareInv, DescriptorsLive
  <2>5. Accounted'
    <3> SUFFICES ASSUME NEW g \in Files
                 PROVE  ref_count'[g] = Count(fd_table', g) + excess'[g]
      BY DEF Accounted
    <3>1. ref_count[g] = Count(fd_table, g) + excess[g]
      BY AccountedIs DEF FilesInv, Accounted
    <3> QED
      BY <1>3, <1>4, <1>5, <2>1, <3>1, StateTypes
  <2>6. ReferencesAccounted'
    BY <2>5, AccountedIs, PTL
  <2>7. ExcessInv'
    BY <1>3, <1>4, <2>1, StateTypes DEF FilesInv, ExcessInv
  <2> QED
    BY <1>6, <2>3, <2>4, <2>6, <2>7 DEF FilesInv
<1> QED
  BY <1>7, <1>8

LEMMA MkdirInv ==
  ASSUME FilesInv, clean, NEW path \in Paths, vfs_mkdir(path)
  PROVE  FilesInv'
<1>1. PICK f \in Pool : f = file_alloc /\ ref_count[f] = 0
  BY FileAllocFree DEF vfs_mkdir
<1>2. /\ ref_count' = [ref_count EXCEPT ![f] = 1] /\ excess' = [excess EXCEPT ![f] = @ + 1]
      /\ UNCHANGED <<fd_table, fd_count, task_table, live, room, end, pipe, clean>>
  BY <1>1 DEF vfs_mkdir
<1>3. f \in Files /\ f \notin Heap /\ f \notin room
  BY Sizes, StateTypes
<1>4. Count(fd_table, f) = 0 /\ excess[f] = 0
  BY <1>1, <1>3, Unreferenced
<1>5. FilesTypeOK'
  <2>1. excess' \in [Files -> Int] /\ ref_count' \in [Files -> Nat]
    BY <1>2, <1>3, StateTypes
  <2> QED
    BY <1>2, <2>1, StateTypes DEF FilesTypeOK
<1>6. SpareInv' /\ DescriptorsLive'
  BY <1>2, <1>3, StateTypes DEF FilesInv, SpareInv, DescriptorsLive
<1>7. PipesInv'
  BY <1>2, PipesFrame DEF FilesInv
<1>8. Accounted'
  <2> SUFFICES ASSUME NEW g \in Files
               PROVE  ref_count'[g] = Count(fd_table', g) + excess'[g]
    BY DEF Accounted
  <2>1. ref_count[g] = Count(fd_table, g) + excess[g]
    BY AccountedIs DEF FilesInv, Accounted
  <2> QED
    BY <1>2, <1>3, <1>4, <2>1, StateTypes
<1>9. ReferencesAccounted'
  BY <1>8, AccountedIs, PTL
<1>10. ExcessInv'
  BY <1>2, <1>3, StateTypes DEF FilesInv, ExcessInv
<1> QED
  BY <1>5, <1>6, <1>7, <1>9, <1>10 DEF FilesInv

\* The file behind a descriptor in use, whether get_file looks at it or not.
LEMMA Named ==
  ASSUME FilesInv, clean, NEW d \in Fds, fd_table[Init1][d] # Null
  PROVE  fd_table[Init1][d] \in Files /\ fd_table[Init1][d] \in live
<1>1. Init1 \in Tids
  BY Sizes
<1>2. fd_table[Init1][d] \in Files
  BY <1>1, StateTypes DEF Tables
<1> QED
  BY <1>1, <1>2 DEF FilesInv, DescriptorsLive

\* Closing a descriptor: with no reference beside it, none is left.
LEMMA CloseInv ==
  ASSUME FilesInv, clean, NEW d \in Fds, NEW f \in Files,
         f = fd_table[Init1][d], vfs_close(f), Install(d, Null),
         UNCHANGED <<fd_count, task_table, room, end, excess>>
  PROVE  FilesInv'
<1>1. f \in live
  BY Named, Sizes
<1>2. /\ ref_count' = [ref_count EXCEPT ![f] = 0] /\ live' = live \ {f}
      /\ pipe' = PipeClosed(f)
      /\ clean' = (clean /\ ref_count[f] <= 1 /\ excess[f] >= 0)
      /\ fd_table' = [fd_table EXCEPT ![Init1][d] = Null]
      /\ UNCHANGED <<fd_count, task_table, room, end, excess>>
  BY DEF vfs_close, Install, Sole
<1>3. fd_table' \in Tables /\ Changed(fd_table, fd_table', d, Null)
  BY <1>2, StateTypes, Sizes DEF Tables, Changed
<1>4. /\ pipe' \in [Heap -> [readers : Int, writers : Int, read_pos : Nat, write_pos : Nat]]
      /\ \A r \in Heap : /\ pipe'[r].read_pos = pipe[r].read_pos
                         /\ pipe'[r].write_pos = pipe[r].write_pos
                         /\ (r # f => pipe'[r].readers = pipe[r].readers)
  BY <1>2, PipeClosedFields
<1>5. FilesTypeOK'
  <2>1. ref_count' \in [Files -> Nat] /\ clean' \in BOOLEAN
    BY <1>2, StateTypes
  <2> QED
    BY <1>2, <1>3, <1>4, <2>1, StateTypes DEF FilesTypeOK, Tables
<1>6. SpareInv'
  BY <1>2, <1>3, StateTypes, Sizes DEF FilesInv, SpareInv, Changed
<1>7. PipesInv'
  <2>1. f \notin live' \cup room'
    BY <1>1, <1>2, StateTypes
  <2> QED
    BY <1>2, <1>4, <2>1 DEF FilesInv, PipesInv
<1>8. CASE ~ clean'
  <2>1. ReferencesAccounted' /\ DescriptorsLive' /\ ExcessInv'
    BY <1>8 DEF ReferencesAccounted, DescriptorsLive, ExcessInv
  <2> QED
    BY <1>5, <1>6, <1>7, <2>1 DEF FilesInv
<1>9. CASE clean'
  <2>1. /\ Count(fd_table, f) = 1 /\ excess[f] = 0
        /\ \A q \in Tids, e \in Fds : fd_table[q][e] = f => q = Init1 /\ e = d
    <3>1. ref_count[f] =< 1 /\ excess[f] >= 0 /\ Init1 \in Tids
      BY <1>2, <1>9, Sizes
    <3> QED
      BY <3>1, OnlyReference
  <2>2. DescriptorsLive'
    BY <1>2, <1>3, <2>1 DEF FilesInv, DescriptorsLive, Changed
  <2>3. Accounted'
    <3> SUFFICES ASSUME NEW g \in Files
                 PROVE  ref_count'[g] = Count(fd_table', g) + excess'[g]
      BY DEF Accounted
    <3>1. Count(fd_table', g) = Count(fd_table, g) + (IF g = Null THEN 1 ELSE 0)
                                                   - (IF g = f THEN 1 ELSE 0)
      BY <1>3, CountChanged
    <3>2. ref_count[g] = Count(fd_table, g) + excess[g] /\ Count(fd_table, g) \in Nat
          /\ g # Null /\ excess'[g] = excess[g]
      BY <1>2, AccountedIs, RefsFinite, Sizes DEF FilesInv, Accounted
    <3>3. ref_count'[g] = (IF g = f THEN 0 ELSE ref_count[g])
      BY <1>2, StateTypes
    <3> QED
      BY <2>1, <3>1, <3>2, <3>3
  <2>4. ReferencesAccounted'
    BY <2>3, AccountedIs, PTL
  <2>5. ExcessInv'
    BY <1>2, <2>1, StateTypes DEF FilesInv, ExcessInv
  <2> QED
    BY <1>5, <1>6, <1>7, <2>2, <2>4, <2>5 DEF FilesInv
<1> QED
  BY <1>8, <1>9

\* An empty descriptor n becomes one more of file f.
LEMMA CopyInv ==
  ASSUME FilesInv, clean, NEW f \in live, NEW n \in Fds, fd_table[Init1][n] = Null,
         fd_table' = [fd_table EXCEPT ![Init1][n] = f],
         ref_count' = [ref_count EXCEPT ![f] = @ + 1],
         UNCHANGED <<fd_count, task_table, live, room, end, pipe, excess, clean>>
  PROVE  FilesInv'
<1>1. f \in Files /\ f \notin room
  BY StateTypes
<1>2. fd_table' \in Tables /\ Changed(fd_table, fd_table', n, f)
  BY <1>1, StateTypes, Sizes DEF Tables, Changed
<1>3. FilesTypeOK'
  <2>1. ref_count' \in [Files -> Nat]
    BY <1>1, StateTypes
  <2> QED
    BY <1>2, <2>1, StateTypes DEF FilesTypeOK, Tables
<1>4. SpareInv'
  BY <1>1, <1>2, StateTypes, Sizes DEF FilesInv, SpareInv, Changed
<1>5. PipesInv'
  BY PipesFrame DEF FilesInv
<1>6. DescriptorsLive'
  BY <1>2 DEF FilesInv, DescriptorsLive, Changed
<1>7. Accounted'
  <2> SUFFICES ASSUME NEW g \in Files
               PROVE  ref_count'[g] = Count(fd_table', g) + excess'[g]
    BY DEF Accounted
  <2>1. Count(fd_table', g) = Count(fd_table, g) + (IF g = f THEN 1 ELSE 0)
                                                 - (IF g = Null THEN 1 ELSE 0)
    BY <1>2, CountChanged
  <2>2. ref_count[g] = Count(fd_table, g) + excess[g] /\ Count(fd_table, g) \in Nat
        /\ g # Null /\ excess'[g] = excess[g] /\ excess[g] \in Int
    BY AccountedIs, RefsFinite, Sizes, StateTypes DEF FilesInv, Accounted
  <2>3. ref_count'[g] = (IF g = f THEN ref_count[g] + 1 ELSE ref_count[g])
    BY StateTypes
  <2> QED
    BY <2>1, <2>2, <2>3
<1>8. ReferencesAccounted'
  BY <1>7, AccountedIs, PTL
<1>9. ExcessInv'
  BY <1>1, StateTypes DEF FilesInv, ExcessInv
<1> QED
  BY <1>3, <1>4, <1>5, <1>6, <1>8, <1>9 DEF FilesInv

LEMMA EmptyFirst ==
  ASSUME Empty # {}
  PROVE  First(Empty) \in Fds /\ fd_table[Init1][First(Empty)] = Null
<1>1. Empty \subseteq Fds /\ Empty \subseteq Nat
  BY Sizes DEF Empty
<1>2. First(Empty) \in Empty
  BY <1>1, FirstIsLeast
<1> QED
  BY <1>2 DEF Empty

LEMMA DupInv ==
  ASSUME FilesInv, clean, NEW d \in Fds, syscall_dup(d)
  PROVE  FilesInv'
<1>1. PICK f \in live : f = get_file(d)
  BY GetFile DEF syscall_dup
<1>2. PICK n \in Fds : n = First(Empty) /\ fd_table[Init1][n] = Null
  BY EmptyFirst DEF syscall_dup
<1> QED
  BY <1>1, <1>2, CopyInv DEF syscall_dup, Install

\* Copying over a descriptor in use: its file is closed, and where that frees
\* nothing that is used further on, it was another file with no other reference.
LEMMA Dup2Inv ==
  ASSUME FilesInv, clean, NEW d \in Fds, NEW n \in Fds, syscall_dup2(d, n)
  PROVE  FilesInv'
<1>1. PICK f \in live : f = get_file(d)
  BY GetFile DEF syscall_dup2
<1>2. CASE fd_table[Init1][n] = Null
  BY <1>1, <1>2, CopyInv DEF syscall_dup2, Install
<1>3. CASE fd_table[Init1][n] # Null
  <2>1. PICK old \in Files : old = fd_table[Init1][n] /\ old \in live
    BY <1>3, Named
  <2>2. /\ fd_table' = [fd_table EXCEPT ![Init1][n] = f]
        /\ ref_count' = [[ref_count EXCEPT ![old] = 0] EXCEPT ![f] = @ + 1]
        /\ live' = live \ {old} /\ pipe' = PipeClosed(old)
        /\ clean' = (clean /\ ref_count[old] <= 1 /\ excess[old] >= 0 /\ old # f)
        /\ UNCHANGED <<fd_count, task_table, room, end, excess>>
    BY <1>1, <1>3, <2>1 DEF syscall_dup2, Install, Sole
  <2>3. f \in Files /\ f \notin room /\ old \notin room
    BY <2>1, StateTypes
  <2>4. fd_table' \in Tables /\ Changed(fd_table, fd_table', n, f)
    BY <2>2, <2>3, StateTypes, Sizes DEF Tables, Changed
  <2>5. /\ pipe' \in [Heap -> [readers : Int, writers : Int, read_pos : Nat, write_pos : Nat]]
        /\ \A r \in Heap : /\ pipe'[r].read_pos = pipe[r].read_pos
                           /\ pipe'[r].write_pos = pipe[r].write_pos
                           /\ (r # old => pipe'[r].readers = pipe[r].readers)
    BY <2>2, PipeClosedFields
  <2>6. /\ ref_count' \in [Files -> Nat]
        /\ \A g \in Files : g # f => ref_count'[g] = IF g = old THEN 0 ELSE ref_count[g]
        /\ old # f => ref_count'[f] = ref_count[f] + 1
    BY <2>2, <2>3, StateTypes
  <2>7. FilesTypeOK'
    <3>1. clean' \in BOOLEAN
      BY <2>2
    <3> QED
      BY <2>2, <2>4, <2>5, <2>6, <3>1, StateTypes DEF FilesTypeOK, Tables
  <2>8. SpareInv'
    <3>1. \A g \in room : ref_count'[g] = ref_count[g]
      BY <2>3, <2>6, StateTypes, Sizes
    <3> QED
      BY <2>2, <2>4, <3>1, StateTypes, Sizes DEF FilesInv, SpareInv, Changed
  <2>9. PipesInv'
    <3>1. old \notin live' \cup room'
      BY <2>2, <2>3
    <3> QED
      BY <2>2, <2>5, <3>1 DEF FilesInv, PipesInv
  <2>10. CASE ~ clean'
    <3>1. ReferencesAccounted' /\ DescriptorsLive' /\ ExcessInv'
      BY <2>10 DEF ReferencesAccounted, DescriptorsLive, ExcessInv
    <3> QED
      BY <2>7, <2>8, <2>9, <3>1 DEF FilesInv
  <2>11. CASE clean'
    <3>1. ref_count[old] =< 1 /\ excess[old] >= 0 /\ old # f /\ Init1 \in Tids
      BY <2>2, <2>11, Sizes
    <3>2. /\ Count(fd_table, old) = 1 /\ excess[old] = 0
          /\ \A q \in Tids, e \in Fds : fd_table[q][e] = old => q = Init1 /\ e = n
      BY <2>1, <3>1, OnlyReference
    <3>3. DescriptorsLive'
      BY <2>2, <2>4, <3>1, <3>2 DEF FilesInv, DescriptorsLive, Changed
    <3>4. Accounted'
      <4> SUFFICES ASSUME NEW g \in Files
                   PROVE  ref_count'[g] = Count(fd_table', g) + excess'[g]
        BY DEF Accounted
      <4>1. Count(fd_table', g) = Count(fd_table, g) + (IF g = f THEN 1 ELSE 0)
                                                     - (IF g = old THEN 1 ELSE 0)
        BY <2>1, <2>4, CountChanged
      <4>2. ref_count[g] = Count(fd_table, g) + excess[g] /\ Count(fd_table, g) \in Nat
            /\ excess'[g] = excess[g] /\ excess[g] \in Int
        BY <2>2, AccountedIs, RefsFinite, StateTypes DEF FilesInv, Accounted
      <4> QED
        BY <2>6, <3>1, <3>2, <4>1, <4>2
    <3>5. ReferencesAccounted'
      BY <3>4, AccountedIs, PTL
    <3>6. ExcessInv'
      BY <2>2, <2>3, <2>6, <3>1, <3>2, StateTypes DEF FilesInv, ExcessInv
    <3> QED
      BY <2>7, <2>8, <2>9, <3>3, <3>5, <3>6 DEF FilesInv
  <2> QED
    BY <2>10, <2>11
<1> QED
  BY <1>2, <1>3

\* libc's dup2: a copy that is not counted.  Where the close before it frees
\* nothing that is used further on, the copy is of another file than the closed.
LEMMA PosixDup2Inv ==
  ASSUME FilesInv, clean, NEW d \in Fds, NEW n \in Fds, posix_dup2(d, n)
  PROVE  FilesInv'
<1>1. PICK old : old = fd_table[Init1][n]
  OBVIOUS
<1>2. CASE d = n
  <2>1. old # Null /\ old \in Files
    BY <1>1, <1>2, Named DEF posix_dup2
  <2>2. vfs_close(old) /\ Install(n, Null) /\ UNCHANGED <<fd_count, task_table, room, end>>
    BY <1>1, <1>2, <2>1 DEF posix_dup2
  <2>3. excess' = [g \in Files |-> IF g = Null THEN excess[g] - 1 ELSE excess[g]]
    BY <1>2 DEF posix_dup2
  <2>4. excess' = excess
    BY <2>3, StateTypes, Sizes
  <2> QED
    BY <1>1, <2>1, <2>2, <2>4, CloseInv
<1>3. CASE d # n
  <2>1. PICK f \in Files : f = fd_table[Init1][d] /\ f \in live
    BY Named DEF posix_dup2
  <2>2. /\ fd_table' = [fd_table EXCEPT ![Init1][n] = f]
        /\ excess' = [g \in Files |-> IF g = f THEN excess[g] - 1 ELSE excess[g]]
        /\ UNCHANGED <<fd_count, task_table, room, end>>
        /\ IF old = Null THEN UNCHANGED <<ref_count, live, pipe, clean>> ELSE vfs_close(old)
    BY <1>1, <1>3, <2>1 DEF posix_dup2, Install
  <2>3. fd_table' \in Tables /\ Changed(fd_table, fd_table', n, f)
    BY <2>1, <2>2, StateTypes, Sizes DEF Tables, Changed
  <2>4. excess' \in [Files -> Int] /\ f \notin room /\ ref_count[f] # 0
    BY <2>1, <2>2, StateTypes, NamedCounted
  <2>5. ASSUME NEW g \in Files
        PROVE  /\ Count(fd_table', g) = Count(fd_table, g) + (IF g = f THEN 1 ELSE 0)
                                                           - (IF g = old THEN 1 ELSE 0)
               /\ ref_count[g] = Count(fd_table, g) + excess[g]
               /\ Count(fd_table, g) \in Nat /\ excess[g] \in Int /\ g # Null
               /\ excess'[g] = (IF g = f THEN excess[g] - 1 ELSE excess[g])
    <3>1. Count(fd_table', g) = Count(fd_table, g) + (IF g = f THEN 1 ELSE 0)
                                                   - (IF g = old THEN 1 ELSE 0)
      BY <1>1, <2>3, CountChanged
    <3> QED
      BY <2>2, <3>1, AccountedIs, RefsFinite, StateTypes, Sizes DEF FilesInv, Accounted
  <2>6. CASE old = Null
    <3>1. UNCHANGED <<ref_count, live, pipe, clean>>
      BY <2>2, <2>6
    <3>2. FilesTypeOK'
      BY <2>2, <2>3, <2>4, <3>1, StateTypes DEF FilesTypeOK, Tables
    <3>3. SpareInv'
      BY <2>2, <2>3, <3>1, StateTypes, Sizes DEF FilesInv, SpareInv, Changed
    <3>4. PipesInv'
      BY <2>2, <3>1, PipesFrame DEF FilesInv
    <3>5. DescriptorsLive'
      BY <2>1, <2>3, <3>1 DEF FilesInv, DescriptorsLive, Changed
    <3>6. ExcessInv'
      BY <2>2, <2>4, <3>1 DEF FilesInv, ExcessInv
    <3>7. Accounted'
      <4> SUFFICES ASSUME NEW g \in Files
                   PROVE  ref_count'[g] = Count(fd_table', g) + excess'[g]
        BY DEF Accounted
      <4> QED
        BY <2>5, <2>6, <3>1
    <3>8. ReferencesAccounted'
      BY <3>7, AccountedIs, PTL
    <3> QED
      BY <3>2, <3>3, <3>4, <3>5, <3>6, <3>8 DEF FilesInv
  <2>7. CASE old # Null
    <3>1. old \in Files /\ old \in live /\ old \notin room
      BY <1>1, <2>7, Named, StateTypes
    <3>2. /\ ref_count' = [ref_count EXCEPT ![old] = 0] /\ live' = live \ {old}
          /\ pipe' = PipeClosed(old)
          /\ clean' = (clean /\ ref_count[old] <= 1 /\ excess[old] >= 0)
      BY <2>2, <2>7 DEF vfs_close, Sole
    <3>3. /\ pipe' \in [Heap -> [readers : Int, writers : Int, read_pos : Nat, write_pos : Nat]]
          /\ \A r \in Heap : /\ pipe'[r].read_pos = pipe[r].read_pos
                             /\ pipe'[r].write_pos = pipe[r].write_pos
                             /\ (r # old => pipe'[r].readers = pipe[r].readers)
      BY <3>1, <3>2, PipeClosedFields
    <3>4. /\ ref_count' \in [Files -> Nat]
          /\ \A g \in Files : ref_count'[g] = IF g = old THEN 0 ELSE ref_count[g]
      BY <3>1, <3>2, StateTypes
    <3>5. FilesTypeOK'
      <4>1. clean' \in BOOLEAN
        BY <3>2
      <4> QED
        BY <2>2, <2>3, <2>4, <3>2, <3>3, <3>4, <4>1, StateTypes DEF FilesTypeOK, Tables
    <3>6. SpareInv'
      BY <2>2, <2>3, <3>2, <3>4, StateTypes, Sizes DEF FilesInv, SpareInv, Changed
    <3>7. PipesInv'
      <4>1. old \notin live' \cup room'
        BY <2>2, <3>1, <3>2
      <4> QED
        BY <2>2, <3>2, <3>3, <4>1 DEF FilesInv, PipesInv
    <3>8. CASE ~ clean'
      <4>1. ReferencesAccounted' /\ DescriptorsLive' /\ ExcessInv'
        BY <3>8 DEF ReferencesAccounted, DescriptorsLive, ExcessInv
      <4> QED
        BY <3>5, <3>6, <3>7, <4>1 DEF FilesInv
    <3>9. CASE clean'
      <4>1. ref_count[old] =< 1 /\ excess[old] >= 0 /\ Init1 \in Tids
        BY <3>2, <3>9, Sizes
      <4>2. /\ Count(fd_table, old) = 1 /\ excess[old] = 0
            /\ \A q \in Tids, e \in Fds : fd_table[q][e] = old => q = Init1 /\ e = n
        BY <1>1, <3>1, <4>1, OnlyReference
      <4>3. old # f
        BY <1>3, <2>1, <4>1, <4>2
      <4>4. DescriptorsLive'
        BY <2>1, <2>3, <3>2, <4>2, <4>3 DEF FilesInv, DescriptorsLive, Changed
      <4>5. ExcessInv'
        BY <2>2, <2>4, <3>4, <4>2, <4>3 DEF FilesInv, ExcessInv
      <4>6. Accounted'
        <5> SUFFICES ASSUME NEW g \in Files
                     PROVE  ref_count'[g] = Count(fd_table', g) + excess'[g]
          BY DEF Accounted
        <5>1. ref_count'[g] = IF g = old THEN 0 ELSE ref_count[g]
          BY <3>4
        <5>2. CASE g = old
          BY <2>5, <4>2, <4>3, <5>1, <5>2
        <5>3. CASE g # old
          BY <2>5, <5>1, <5>3
        <5> QED
          BY <5>2, <5>3
      <4>7. ReferencesAccounted'
        BY <4>6, AccountedIs, PTL
      <4> QED
        BY <3>5, <3>6, <3>7, <4>4, <4>5, <4>7 DEF FilesInv
    <3> QED
      BY <3>8, <3>9
  <2> QED
    BY <2>6, <2>7
<1> QED
  BY <1>2, <1>3

\* What the heap still has room for.
LEMMA RoomFirst ==
  ASSUME FilesInv, clean, NEW S, S \subseteq room, S # {}
  PROVE  /\ First(S) \in S /\ First(S) \in Heap /\ First(S) \in Files /\ First(S) \notin live
         /\ ref_count[First(S)] = 0
<1>1. S \subseteq Nat
  BY StateTypes, Sizes
<1>2. First(S) \in S
  BY <1>1, FirstIsLeast
<1> QED
  BY <1>2, StateTypes, Sizes DEF FilesInv, SpareInv

LEMMA SocketInv ==
  ASSUME FilesInv, clean, sock_alloc_fd
  PROVE  FilesInv'
<1>1. PICK f \in room : /\ f = First(room) /\ f \in Heap /\ f \in Files /\ f \notin live
                        /\ ref_count[f] = 0
  BY RoomFirst DEF sock_alloc_fd
<1>2. PICK d \in Fds : d = First(Empty) /\ fd_table[Init1][d] = Null
  BY EmptyFirst DEF sock_alloc_fd
<1>3. /\ ref_count' = [g \in Files |-> IF g \in {f} THEN 1 ELSE ref_count[g]]
      /\ live' = live \cup {f} /\ room' = room \ {f}
      /\ fd_table' = [fd_table EXCEPT ![Init1][d] = f]
      /\ fd_count' = [fd_count EXCEPT ![Init1] = d + 1]
      /\ UNCHANGED <<task_table, end, pipe, excess, clean>>
  BY <1>1, <1>2 DEF sock_alloc_fd, Make, Install, CountUpTo
<1>4. Count(fd_table, f) = 0 /\ excess[f] = 0
  BY <1>1, Unreferenced
<1>5. fd_table' \in Tables /\ Changed(fd_table, fd_table', d, f)
  BY <1>1, <1>3, StateTypes, Sizes DEF Tables, Changed
<1>6. FilesTypeOK'
  <2>1. fd_count' \in [Tids -> 0 .. MaxFd]
    <3>1. d + 1 \in 0 .. MaxFd
      BY Sizes DEF Fds
    <3> QED
      BY <1>3, <3>1, StateTypes
  <2>2. ref_count' \in [Files -> Nat]
    BY <1>3, StateTypes
  <2> QED
    BY <1>1, <1>3, <1>5, <2>1, <2>2, StateTypes DEF FilesTypeOK, Tables
<1>7. SpareInv'
  <2>1. \A g \in room' : ref_count'[g] = 0
    BY <1>3, StateTypes, Sizes DEF FilesInv, SpareInv
  <2> QED
    BY <1>3, <1>5, <2>1, StateTypes, Sizes DEF FilesInv, SpareInv, Changed
<1>8. PipesInv'
  BY <1>3, PipesFrame DEF FilesInv
<1>9. DescriptorsLive'
  BY <1>3, <1>5 DEF FilesInv, DescriptorsLive, Changed
<1>10. Accounted'
  <2> SUFFICES ASSUME NEW g \in Files
               PROVE  ref_count'[g] = Count(fd_table', g) + excess'[g]
    BY DEF Accounted
  <2>1. Count(fd_table', g) = Count(fd_table, g) + (IF g = f THEN 1 ELSE 0)
                                                 - (IF g = Null THEN 1 ELSE 0)
    BY <1>2, <1>5, CountChanged
  <2>2. ref_count[g] = Count(fd_table, g) + excess[g] /\ Count(fd_table, g) \in Nat
        /\ g # Null /\ excess'[g] = excess[g] /\ excess[g] \in Int
    BY <1>3, AccountedIs, RefsFinite, Sizes, StateTypes DEF FilesInv, Accounted
  <2>3. ref_count'[g] = (IF g = f THEN 1 ELSE ref_count[g])
    BY <1>3
  <2> QED
    BY <1>4, <2>1, <2>2, <2>3
<1>11. ReferencesAccounted'
  BY <1>10, AccountedIs, PTL
<1>12. ExcessInv'
  BY <1>3 DEF FilesInv, ExcessInv
<1> QED
  BY <1>6, <1>7, <1>8, <1>9, <1>11, <1>12 DEF FilesInv

\* A set with two elements has one when an element is taken out.
LEMMA TwoElements ==
  ASSUME NEW S, NEW x \in S, Cardinality(S) > 1
  PROVE  S \ {x} # {}
<1> SUFFICES ASSUME S \ {x} = {} PROVE FALSE
  OBVIOUS
<1>1. S = {x}
  OBVIOUS
<1>2. Cardinality(S) = 1
  BY <1>1, FS_Singleton
<1> QED
  BY <1>2

LEMMA PipeInv ==
  ASSUME FilesInv, clean, syscall_pipe
  PROVE  FilesInv'
<1>1. PICK d \in Fds : d = First(Empty) /\ fd_table[Init1][d] = Null /\ d \in Empty
  <2>1. First(Empty) \in Fds /\ fd_table[Init1][First(Empty)] = Null
    BY EmptyFirst DEF syscall_pipe
  <2> QED
    BY <2>1 DEF Empty
<1>2. room # {}
  BY FS_EmptySet DEF syscall_pipe
<1>3. PICK r \in room : /\ r = First(room) /\ r \in Heap /\ r \in Files /\ r \notin live
                        /\ ref_count[r] = 0
  BY <1>2, RoomFirst
<1>4. CASE Cardinality(Empty) > 1
  <2>1. room \ {r} # {} /\ Empty \ {d} # {}
    BY <1>1, <1>3, <1>4, TwoElements DEF syscall_pipe
  <2>2. PICK w \in room \ {r} : /\ w = First(room \ {r}) /\ w \in Heap /\ w \in Files
                                /\ w \notin live /\ ref_count[w] = 0
    BY <2>1, RoomFirst
  <2>3. PICK e \in Fds : e = First(Empty \ {d}) /\ fd_table[Init1][e] = Null /\ e # d
    <3>1. Empty \ {d} \subseteq Nat
      BY Sizes DEF Empty
    <3>2. First(Empty \ {d}) \in Empty \ {d}
      BY <2>1, <3>1, FirstIsLeast
    <3> QED
      BY <3>2 DEF Empty
  <2>4. PICK mid : mid = [fd_table EXCEPT ![Init1][d] = r]
    OBVIOUS
  <2>5. /\ ref_count' = [g \in Files |-> IF g \in {r, w} THEN 1 ELSE ref_count[g]]
        /\ live' = live \cup {r, w} /\ room' = room \ {r, w}
        /\ fd_table' = [fd_table EXCEPT ![Init1][d] = r, ![Init1][e] = w]
        /\ fd_count' = [fd_count EXCEPT ![Init1] = e + 1]
        /\ end' = [end EXCEPT ![r] = r, ![w] = r]
        /\ UNCHANGED <<task_table, pipe, excess, clean>>
    BY <1>1, <1>3, <1>4, <2>2, <2>3 DEF syscall_pipe, Make, CountUpTo
  <2>6. /\ Count(fd_table, r) = 0 /\ excess[r] = 0
        /\ Count(fd_table, w) = 0 /\ excess[w] = 0
    BY <1>3, <2>2, Unreferenced
  <2>7. mid \in Tables /\ Changed(fd_table, mid, d, r) /\ mid[Init1][e] = Null
    BY <1>3, <2>3, <2>4, StateTypes, Sizes DEF Tables, Changed
  <2>8. fd_table' = [mid EXCEPT ![Init1][e] = w]
    BY <2>4, <2>5, StateTypes, Sizes DEF Tables
  <2>9. fd_table' \in Tables /\ Changed(mid, fd_table', e, w)
    BY <2>2, <2>7, <2>8, Sizes DEF Tables, Changed
  <2>10. FilesTypeOK'
    <3>1. fd_count' \in [Tids -> 0 .. MaxFd]
      <4>1. e + 1 \in 0 .. MaxFd
        BY Sizes DEF Fds
      <4> QED
        BY <2>5, <4>1, StateTypes
    <3>2. ref_count' \in [Files -> Nat]
      BY <2>5, StateTypes
    <3>3. end' \in [Heap -> Heap \cup {Null}]
      BY <1>3, <2>2, <2>5, StateTypes DEF FilesTypeOK
    <3> QED
      BY <1>3, <2>2, <2>5, <2>9, <3>1, <3>2, <3>3, StateTypes DEF FilesTypeOK, Tables
  <2>11. SpareInv'
    <3>1. \A g \in room' : ref_count'[g] = 0
      BY <2>5, StateTypes, Sizes DEF FilesInv, SpareInv
    <3>2. \A p \in Tids, c \in Fds : p # Init1 => fd_table'[p][c] = fd_table[p][c]
      BY <2>7, <2>9 DEF Changed
    <3>3. \A t \in Tids : t \notin task_table => \A c \in Fds : fd_table'[t][c] = Null
      BY <3>2 DEF FilesInv, SpareInv
    <3>4. Init1 \in task_table'
      BY <2>5 DEF FilesInv, SpareInv
    <3> QED
      BY <2>5, <3>1, <3>3, <3>4 DEF SpareInv
  <2>12. PipesInv'
    BY <2>5, PipesFrame DEF FilesInv
  <2>13. DescriptorsLive'
    <3>1. \A p \in Tids, c \in Fds : fd_table'[p][c] \in {r, w, fd_table[p][c]}
      BY <2>7, <2>9 DEF Changed
    <3>2. ASSUME NEW p \in Tids, NEW c \in Fds, fd_table'[p][c] # Null
          PROVE  fd_table'[p][c] \in live'
      <4>1. fd_table[p][c] # Null => fd_table[p][c] \in live
        BY DEF FilesInv, DescriptorsLive
      <4>2. fd_table'[p][c] = r \/ fd_table'[p][c] = w \/ fd_table'[p][c] = fd_table[p][c]
        BY <3>1
      <4>3. live' = live \cup {r, w}
        BY <2>5
      <4> QED
        BY <3>2, <4>1, <4>2, <4>3
    <3> QED
      BY <3>2 DEF DescriptorsLive
  <2>14. Accounted'
    <3> SUFFICES ASSUME NEW g \in Files
                 PROVE  ref_count'[g] = Count(fd_table', g) + excess'[g]
      BY DEF Accounted
    <3>1. /\ Count(mid, g) = Count(fd_table, g) + (IF g = r THEN 1 ELSE 0)
                                                - (IF g = Null THEN 1 ELSE 0)
          /\ Count(fd_table', g) = Count(mid, g) + (IF g = w THEN 1 ELSE 0)
                                                 - (IF g = Null THEN 1 ELSE 0)
      BY <1>1, <2>7, <2>9, CountChanged
    <3>2. ref_count[g] = Count(fd_table, g) + excess[g] /\ Count(fd_table, g) \in Nat
          /\ g # Null /\ excess'[g] = excess[g] /\ excess[g] \in Int
      BY <2>5, AccountedIs, RefsFinite, Sizes, StateTypes DEF FilesInv, Accounted
    <3>3. ref_count'[g] = (IF g = r \/ g = w THEN 1 ELSE ref_count[g])
      BY <2>5
    <3> QED
      BY <2>2, <2>6, <3>1, <3>2, <3>3
  <2>15. ReferencesAccounted'
    BY <2>14, AccountedIs, PTL
  <2>16. ExcessInv'
    BY <2>5 DEF FilesInv, ExcessInv
  <2> QED
    BY <2>10, <2>11, <2>12, <2>13, <2>15, <2>16 DEF FilesInv
<1>5. CASE ~(Cardinality(Empty) > 1)
  <2>1. /\ fd_table' = [fd_table EXCEPT ![Init1][d] = r] /\ clean' = FALSE
        /\ UNCHANGED <<ref_count, live, fd_count, room, end, task_table, pipe, excess>>
    BY <1>1, <1>3, <1>5 DEF syscall_pipe, Install
  <2>2. fd_table' \in Tables /\ Changed(fd_table, fd_table', d, r)
    BY <1>3, <2>1, StateTypes, Sizes DEF Tables, Changed
  <2>3. FilesTypeOK'
    BY <2>1, <2>2, StateTypes DEF FilesTypeOK, Tables
  <2>4. SpareInv'
    BY <2>1, <2>2, StateTypes, Sizes DEF FilesInv, SpareInv, Changed
  <2>5. PipesInv'
    BY <2>1, PipesFrame DEF FilesInv
  <2>6. ReferencesAccounted' /\ DescriptorsLive' /\ ExcessInv'
    BY <2>1 DEF ReferencesAccounted, DescriptorsLive, ExcessInv
  <2> QED
    BY <2>3, <2>4, <2>5, <2>6 DEF FilesInv
<1> QED
  BY <1>4, <1>5

\* A fork adds the descriptors of the new process, and counts each of them.
LEMMA ForkInv ==
  ASSUME FilesInv, clean, syscall_fork
  PROVE  FilesInv'
<1>1. PICK t : t = alloc_tid
  OBVIOUS
<1>2. UNCHANGED <<live, room, end, pipe, excess, clean>>
  BY DEF syscall_fork
<1>3. ASSUME NEW g \in Files
      PROVE  Inherited(g) \in Nat
  <2>1. IsFiniteSet(Fds)
    BY Sizes, FS_Interval DEF Fds
  <2>2. IsFiniteSet({d \in Fds : get_file(d) = g})
    BY <2>1, FS_Subset
  <2> QED
    BY <2>2, FS_CardinalityType DEF Inherited
<1>4. CASE t = Null
  <2> DEFINE refs == [f \in Files |-> ref_count[f] + Inherited(f)]
  <2>1. /\ ref_count' = [f \in Files |-> refs[f] - Inherited(f)]
        /\ UNCHANGED <<task_table, fd_table, fd_count>>
    BY <1>1, <1>4 DEF syscall_fork
  <2>2. \A f \in Files : refs[f] - Inherited(f) = ref_count[f]
    BY <1>3, StateTypes
  <2> HIDE DEF refs
  <2>3. ref_count' = ref_count
    BY <2>1, <2>2, StateTypes
  <2> QED
    BY <1>2, <2>1, <2>3
       DEF FilesInv, FilesTypeOK, SpareInv, PipesInv, ExcessInv, ReferencesAccounted,
           References, DescriptorsLive
<1>5. CASE t # Null
  <2>1. t \in Tids /\ t \notin task_table /\ t # Init1
    BY <1>1, <1>5, AllocTidFree DEF FilesInv, SpareInv
  <2>2. PICK row : row = [d \in Fds |-> get_file(d)]
    OBVIOUS
  <2>3. /\ task_table' = task_table \cup {t}
        /\ fd_table' = [fd_table EXCEPT ![t] = row]
        /\ fd_count' = [fd_count EXCEPT ![t] = fd_count[Init1]]
        /\ ref_count' = [f \in Files |-> ref_count[f] + Inherited(f)]
    BY <1>1, <1>5, <2>2 DEF syscall_fork, task_create
  <2>4. row \in [Fds -> Files \cup {Null}] /\ \A d \in Fds : row[d] # Null => row[d] \in live
    <3>1. ASSUME NEW d \in Fds, get_file(d) # Null
          PROVE  get_file(d) \in Files /\ get_file(d) \in live
      BY <3>1, GetFile
    <3> QED
      BY <2>2, <3>1
  <2>5. \A d \in Fds : fd_table[t][d] = Null
    BY <2>1 DEF FilesInv, SpareInv
  <2>6. fd_table' \in Tables /\ RowChanged(fd_table, fd_table', t, row)
    BY <2>1, <2>3, <2>4, StateTypes DEF Tables, RowChanged
  <2>7. FilesTypeOK'
    <3>1. fd_count' \in [Tids -> 0 .. MaxFd]
      BY <2>1, <2>3, StateTypes, Sizes
    <3>2. ref_count' \in [Files -> Nat]
      BY <1>3, <2>3, StateTypes
    <3> QED
      BY <1>2, <2>1, <2>3, <2>6, <3>1, <3>2, StateTypes DEF FilesTypeOK, Tables
  <2>8. SpareInv'
    <3>1. ASSUME NEW f \in room
          PROVE  ref_count'[f] = 0
      <4>1. f \in Files /\ ref_count[f] = 0
        BY StateTypes, Sizes DEF FilesInv, SpareInv
      <4>2. \A p \in Tids, d \in Fds : fd_table[p][d] # f
        BY <4>1, Unreferenced
      <4>3. {d \in Fds : get_file(d) = f} = {}
        BY <4>1, <4>2, Sizes DEF get_file
      <4>4. Inherited(f) = 0
        BY <4>3, FS_EmptySet DEF Inherited
      <4> QED
        BY <2>3, <4>1, <4>4
    <3> QED
      BY <1>2, <2>3, <2>6, <3>1 DEF FilesInv, SpareInv, RowChanged
  <2>9. PipesInv'
    BY <1>2, PipesFrame DEF FilesInv
  <2>10. DescriptorsLive'
    BY <1>2, <2>4, <2>6 DEF FilesInv, DescriptorsLive, RowChanged
  <2>11. Accounted'
    <3> SUFFICES ASSUME NEW g \in Files
                 PROVE  ref_count'[g] = Count(fd_table', g) + excess'[g]
      BY DEF Accounted
    <3>1. Count(fd_table', g) = Count(fd_table, g) + Cardinality(RowRefs(row, g))
      BY <2>1, <2>5, <2>6, CountRow, Zenon
    <3>2. RowRefs(row, g) = {d \in Fds : get_file(d) = g}
      BY <2>2 DEF RowRefs
    <3>3. Count(fd_table', g) = Count(fd_table, g) + Inherited(g)
      BY <3>1, <3>2 DEF Inherited
    <3>4. ref_count[g] = Count(fd_table, g) + excess[g] /\ Count(fd_table, g) \in Nat
          /\ excess'[g] = excess[g] /\ excess[g] \in Int
      BY <1>2, AccountedIs, RefsFinite, StateTypes DEF FilesInv, Accounted
    <3>5. ref_count'[g] = ref_count[g] + Inherited(g)
      BY <2>3
    <3> QED
      BY <1>3, <3>3, <3>4, <3>5
  <2>12. ReferencesAccounted'
    BY <2>11, AccountedIs, PTL
  <2>13. ExcessInv'
    <3>1. \A g \in Files : ref_count'[g] = 0 => ref_count[g] = 0
      BY <1>3, <2>3, StateTypes
    <3> QED
      BY <1>2, <3>1 DEF FilesInv, ExcessInv
  <2> QED
    BY <2>7, <2>8, <2>9, <2>10, <2>12, <2>13 DEF FilesInv
<1> QED
  BY <1>4, <1>5

\* Nothing waits in a pipe whose read end is open, so that a read takes nothing.
LEMMA ReadInv ==
  ASSUME FilesInv, NEW d \in Fds, NEW count \in 1 .. PipeSize, read(d, count)
  PROVE  FilesInv'
<1>1. PICK r \in Heap : r \in live /\ pipe_read(r, count)
  BY DEF read, vfs_read
<1>2. pipe[r].read_pos = 0 /\ pipe[r].write_pos = 0
  BY <1>1 DEF FilesInv, PipesInv
<1>3. MinOf(pipe[r].write_pos - pipe[r].read_pos, count) = 0
  BY <1>2, Sizes DEF MinOf
<1>4. pipe \in [Heap -> [readers : Int, writers : Int, read_pos : Nat, write_pos : Nat]]
  BY DEF FilesInv, FilesTypeOK
<1>5. pipe' = [pipe EXCEPT ![r].read_pos = @ + 0, ![r].write_pos = @]
  <2> DEFINE n == MinOf(pipe[r].write_pos - pipe[r].read_pos, count)
             drained == n > 0 /\ pipe[r].read_pos + n = pipe[r].write_pos
  <2>1. pipe' = [pipe EXCEPT ![r].read_pos = IF drained THEN 0 ELSE @ + n,
                             ![r].write_pos = IF drained THEN 0 ELSE @]
    BY <1>1 DEF pipe_read
  <2>2. n = 0 /\ ~ drained
    BY <1>3
  <2> HIDE DEF n, drained
  <2> QED
    BY <2>1, <2>2
<1>6. pipe' = pipe
  BY <1>2, <1>4, <1>5
<1> QED
  BY <1>6 DEF read, FilesInv, FilesTypeOK, SpareInv, PipesInv, ExcessInv,
              ReferencesAccounted, References, DescriptorsLive

\* A write goes to a pipe whose read end is closed, and stays in the buffer.
LEMMA WriteInv ==
  ASSUME FilesInv, NEW d \in Fds, NEW count \in 1 .. PipeSize, write(d, count)
  PROVE  FilesInv'
<1>1. PICK r \in Heap : pipe_write(r, count)
  <2>1. PICK f \in Heap : end[f] # Null /\ pipe_write(end[f], count)
    BY DEF write, vfs_write
  <2>2. end[f] \in Heap
    BY <2>1 DEF FilesInv, FilesTypeOK
  <2> QED
    BY <2>1, <2>2
<1>2. PICK n : n = MinOf(Available(pipe[r]), count)
  OBVIOUS
<1>3. pipe' = [pipe EXCEPT ![r].write_pos = @ + n] /\ pipe[r].readers # 0
  BY <1>1, <1>2 DEF pipe_write
<1>4. pipe \in [Heap -> [readers : Int, writers : Int, read_pos : Nat, write_pos : Nat]]
  BY DEF FilesInv, FilesTypeOK
<1>5. /\ pipe[r].read_pos = 0 /\ pipe[r].write_pos =< PipeSize
      /\ pipe[r].write_pos \in Nat /\ r \notin live \cup room
  BY <1>3, <1>4 DEF FilesInv, PipesInv
<1>6. n \in Nat /\ pipe[r].write_pos + n =< PipeSize
  BY <1>2, <1>5, Sizes DEF MinOf, Available
<1>7. PICK w \in Nat : w = pipe[r].write_pos + n /\ w =< PipeSize
  BY <1>5, <1>6
<1>8. pipe' = [pipe EXCEPT ![r].write_pos = w]
  BY <1>3, <1>7
<1>9. pipe' \in [Heap -> [readers : Int, writers : Int, read_pos : Nat, write_pos : Nat]]
  BY <1>4, <1>8
<1>10. \A q \in Heap : /\ pipe'[q].read_pos = pipe[q].read_pos
                        /\ pipe'[q].readers = pipe[q].readers
                        /\ pipe'[q].write_pos = IF q = r THEN w ELSE pipe[q].write_pos
  BY <1>4, <1>8
<1>11. UNCHANGED <<fd_table, fd_count, task_table, ref_count, live, room, end, excess, clean>>
  BY DEF write
<1>12. PipesInv'
  BY <1>5, <1>7, <1>10, <1>11 DEF FilesInv, PipesInv
<1> QED
  BY <1>9, <1>11, <1>12 DEF FilesInv, FilesTypeOK, SpareInv, ExcessInv,
                            ReferencesAccounted, References, DescriptorsLive

-----------------------------------------------------------------------------
\* The inductive invariant, for every way the calls of FilesNext may follow
\* one another.
THEOREM FilesInvariant == FilesSpec => []FilesInv
<1>1. FilesInv /\ [FilesNext]_filesvars => FilesInv'
  <2> SUFFICES ASSUME FilesInv, [FilesNext]_filesvars PROVE FilesInv'
    OBVIOUS
  <2>1. CASE UNCHANGED filesvars
    BY <2>1 DEF filesvars, FilesInv, FilesTypeOK, SpareInv, PipesInv, ExcessInv,
                ReferencesAccounted, References, DescriptorsLive
  <2>2. ASSUME clean, NEW path \in Paths, open(path) PROVE FilesInv'
    BY <2>2, OpenInv
  <2>3. ASSUME clean, NEW path \in Paths, vfs_mkdir(path) PROVE FilesInv'
    BY <2>3, MkdirInv
  <2>4. ASSUME NEW path \in Paths,
               vfs_stat(path) \/ vfs_chdir(path) \/ load_binary(path)
        PROVE  FilesInv'
    <3>1. Borrow
      BY <2>4 DEF vfs_stat, vfs_chdir, load_binary
    <3> QED
      BY <2>1, <3>1, BorrowSame
  <2>5. ASSUME clean, NEW d \in Fds, close(d) \/ posix_close(d) PROVE FilesInv'
    <3>1. PICK f \in Files : f = fd_table[Init1][d] /\ vfs_close(f)
      BY <2>5, GetFile, Named DEF close, posix_close
    <3>2. Install(d, Null) /\ UNCHANGED <<fd_count, task_table, room, end, excess>>
      BY <2>5 DEF close, posix_close
    <3> QED
      BY <2>5, <3>1, <3>2, CloseInv
  <2>6. ASSUME clean, NEW d \in Fds, syscall_dup(d) PROVE FilesInv'
    BY <2>6, DupInv
  <2>7. ASSUME clean, NEW d \in Fds, NEW n \in Fds, syscall_dup2(d, n) PROVE FilesInv'
    BY <2>7, Dup2Inv
  <2>8. ASSUME NEW d \in Fds, NEW count \in 1 .. PipeSize, read(d, count) PROVE FilesInv'
    BY <2>8, ReadInv
  <2>9. ASSUME NEW d \in Fds, NEW count \in 1 .. PipeSize, write(d, count) PROVE FilesInv'
    BY <2>9, WriteInv
  <2>10. ASSUME clean, sock_alloc_fd \/ syscall_pipe \/ syscall_fork PROVE FilesInv'
    BY <2>10, SocketInv, PipeInv, ForkInv
  <2>11. ASSUME clean, NEW d \in Fds, NEW n \in Fds, posix_dup2(d, n) PROVE FilesInv'
    BY <2>11, PosixDup2Inv
  <2> QED
    BY <2>1, <2>2, <2>3, <2>4, <2>5, <2>6, <2>7, <2>8, <2>9, <2>10, <2>11 DEF FilesNext
<1> QED
  BY <1>1, FilesInitInv, PTL DEF FilesSpec

\* Descriptors name files and counts stay within the tables, whatever is
\* opened, copied, inherited and closed, and in whatever order.
THEOREM FilesTypes == FilesSpec => []FilesTypeOK
<1>1. FilesInv => FilesTypeOK
  BY DEF FilesInv
<1> QED
  BY <1>1, FilesInvariant, PTL

\* Until a call frees a file that is in use, ref_count is the number of
\* descriptors of all processes that name the file, and of the references that
\* open and mkdir have lost, less the copies that libc's dup2 did not count.
THEOREM CountsAreDescriptors == FilesSpec => []ReferencesAccounted
<1>1. FilesInv => ReferencesAccounted
  BY DEF FilesInv
<1> QED
  BY <1>1, FilesInvariant, PTL

\* And until then every descriptor, of the first process and of those it has
\* forked, names an open file.
THEOREM NoDescriptorDangles == FilesSpec => []DescriptorsLive
<1>1. FilesInv => DescriptorsLive
  BY DEF FilesInv
<1> QED
  BY <1>1, FilesInvariant, PTL

\* pipe_write never copies past the end of the buffer, for a buffer of any
\* size and whatever has been freed before.
THEOREM PipesStayInBuffer == FilesSpec => []PipeWithinBuffer
<1>1. FilesInv => PipeWithinBuffer
  BY DEF FilesInv, FilesTypeOK, PipesInv, PipeWithinBuffer
<1> QED
  BY <1>1, FilesInvariant, PTL
=============================================================================
