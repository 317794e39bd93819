---------------------------- MODULE RamfsProofs ----------------------------
(***************************************************************************)
(* Proofs about module Ramfs, for any number of nodes, names, open files   *)
(* and paths of any depth: the types, that the lists of children stay      *)
(* well-formed, that names are unique below the root, and that plain files *)
(* do not share bytes of the pool.                                         *)
(*                                                                         *)
(* What After and Walk compute is shown by the least counterexample: a set *)
(* of numbers that is not empty has a least one.                           *)
(***************************************************************************)
EXTENDS Ramfs, FiniteSetTheorems, SequenceTheorems, WellFoundedInduction, TLAPS

Pointer == Nodes \union {Null}

\* The records fs may be.
Images ==
  [count : 2 .. MaxFiles, max_files : 2 .. MaxFiles,
   used : 0 .. Word - 1, stores : Nat,
   name : [Nodes -> Names], dir : [Nodes -> BOOLEAN],
   parent : [Nodes -> Nodes \cup {Null}], children : [Nodes -> Nodes \cup {Null}],
   next : [Nodes -> Nodes \cup {Null}], prev : [Nodes -> Nodes \cup {Null}],
   size : [Nodes -> 0 .. MaxCount], data : [Nodes -> {NoData} \cup 0 .. Word - 1]]

\* Following next from a node of D ends: every step goes down.
Ranked(next, D) ==
  \E b \in Nat : \E r \in [Nodes -> Nat] :
    /\ \A c \in Nodes : r[c] < b
    /\ \A c \in D : next[c] # Null => r[next[c]] < r[c]

\* The links of the nodes in D, which are all nodes, or all but the one that is
\* being moved: lists are linked both ways, have one parent and begin at the
\* parent's children, unless the parent was freed.
Lists(f, D) ==
  /\ \A c \in D : f.parent[c] = Null => f.next[c] = Null /\ f.prev[c] = Null
  /\ \A c \in D : f.next[c] # Null =>
       /\ f.next[c] \in D /\ f.prev[f.next[c]] = c
       /\ f.parent[f.next[c]] = f.parent[c]
  /\ \A c \in D : f.prev[c] # Null =>
       /\ f.prev[c] \in D /\ f.next[f.prev[c]] = c
       /\ f.parent[f.prev[c]] = f.parent[c]
  /\ \A n \in Nodes : f.children[n] # Null =>
       /\ f.children[n] \in D /\ f.prev[f.children[n]] = Null
       /\ f.parent[f.children[n]] = n
  /\ \A c \in D : f.parent[c] # Null /\ f.prev[c] = Null /\ f.parent[c] \notin Freed(f) =>
       f.children[f.parent[c]] = c
  /\ Ranked(f.next, D)

\* Who may be whose parent: not the unused nodes, not a node itself, and the
\* root and the freed nodes have none.
Parents(f) ==
  /\ f.parent[Root] = Null
  /\ \A c \in Nodes : f.parent[c] =< f.count /\ f.parent[c] # c
  /\ \A c \in Nodes : c > f.count => f.parent[c] = Null /\ f.children[c] = Null
  /\ \A n \in Freed(f) : f.children[n] = Null

\* Siblings have different names, except in the root.
Siblings(f) ==
  \A c, d \in Nodes :
    c # d /\ f.parent[c] = f.parent[d] /\ f.parent[c] \notin {Null, Root} \union Freed(f) =>
      f.name[c] # f.name[d]

Tree(f) == f \in Images /\ Lists(f, Nodes) /\ Parents(f) /\ Siblings(f)

-----------------------------------------------------------------------------
(* Following next. *)

\* A set of numbers that is not empty has a least element.
LEMMA Least ==
  ASSUME NEW T, T \subseteq Nat, T # {}
  PROVE  \E x \in T : \A y \in T : x =< y
  <1>1. PICK x \in T : \A y \in T : ~(<<y, x>> \in OpToRel(<, Nat))
    BY NatLessThanWellFounded, WFMin
  <1>2. \A y \in T : ~(y < x)
    BY <1>1 DEF OpToRel
  <1>3. QED
    BY <1>2

\* The first n values of After.
Follows(f, c, s, n) ==
  /\ s \in [0 .. n -> Pointer] /\ s[0] = c
  /\ \A k \in 1 .. n : s[k] = IF s[k - 1] = Null THEN Null ELSE f.next[s[k - 1]]

LEMMA FollowsExists ==
  ASSUME NEW f \in Images, NEW c \in Pointer, NEW n \in Nat
  PROVE  \E s : Follows(f, c, s, n)
  <1>1. SUFFICES ASSUME {k \in Nat : ~\E s : Follows(f, c, s, k)} # {} PROVE FALSE
    OBVIOUS
  <1>2. PICK k \in Nat : /\ ~\E s : Follows(f, c, s, k)
                         /\ \A j \in Nat : j < k => \E s : Follows(f, c, s, j)
    <2>1. PICK T : T = {k \in Nat : ~\E s : Follows(f, c, s, k)}
      OBVIOUS
    <2>2. PICK k \in T : \A j \in T : k =< j
      BY <1>1, <2>1, Least
    <2>3. k \in Nat /\ ~\E s : Follows(f, c, s, k)
      BY <2>1, <2>2
    <2>4. \A j \in Nat : j < k => j \notin T
      BY <2>2, <2>3
    <2>5. QED
      BY <2>1, <2>3, <2>4
  <1>3. CASE k = 0
    <2>1. Follows(f, c, [i \in 0 .. 0 |-> c], 0)
      BY DEF Follows
    <2>2. QED
      BY <1>2, <1>3, <2>1
  <1>4. CASE k # 0
    <2>1. PICK s : Follows(f, c, s, k - 1)
      BY <1>2, <1>4
    <2>2. PICK x \in Pointer : x = IF s[k - 1] = Null THEN Null ELSE f.next[s[k - 1]]
      BY <1>4, <2>1 DEF Follows, Pointer, Images
    <2>3. PICK t : t = [i \in 0 .. k |-> IF i = k THEN x ELSE s[i]]
      OBVIOUS
    <2>4. t \in [0 .. k -> Pointer] /\ t[0] = c
      BY <1>4, <2>1, <2>3 DEF Follows
    <2>5. ASSUME NEW i \in 1 .. k
          PROVE  t[i] = IF t[i - 1] = Null THEN Null ELSE f.next[t[i - 1]]
      <3>1. t[i - 1] = s[i - 1]
        BY <2>3
      <3>2. QED
        BY <2>1, <2>2, <2>3, <3>1 DEF Follows
    <2>6. Follows(f, c, t, k)
      BY <2>4, <2>5 DEF Follows
    <2>7. QED
      BY <1>2, <2>6
  <1>5. QED
    BY <1>3, <1>4

IsAfter(s, f, c) ==
  s = [k \in 0 .. MaxFiles |->
         IF k = 0 THEN c ELSE IF s[k - 1] = Null THEN Null ELSE f.next[s[k - 1]]]

LEMMA AfterFollows ==
  ASSUME NEW f \in Images, NEW c \in Pointer
  PROVE  Follows(f, c, After(f, c), MaxFiles)
  <1>0. MaxFiles \in Nat
    BY RamfsAssumption
  <1>1. PICK s : Follows(f, c, s, MaxFiles)
    BY <1>0, FollowsExists
  <1>2. IsAfter(s, f, c)
    BY <1>0, <1>1 DEF Follows, IsAfter
  <1>3. After(f, c) = CHOOSE q : IsAfter(q, f, c)
    BY Zenon DEF After, IsAfter
  <1>4. IsAfter(After(f, c), f, c)
    BY <1>2, <1>3, Zenon
  <1>5. PICK a : a = After(f, c)
    OBVIOUS
  <1>6. /\ a = [k \in 0 .. MaxFiles |->
                 IF k = 0 THEN c ELSE IF a[k - 1] = Null THEN Null ELSE f.next[a[k - 1]]]
    BY <1>4, <1>5 DEF IsAfter
  <1>7. /\ a[0] = c /\ DOMAIN a = 0 .. MaxFiles /\ a = [k \in 0 .. MaxFiles |-> a[k]]
        /\ \A k \in 1 .. MaxFiles : a[k] = IF a[k - 1] = Null THEN Null ELSE f.next[a[k - 1]]
    BY <1>0, <1>6
  <1>8. \A k \in 0 .. MaxFiles : a[k] \in Pointer
    <2>1. SUFFICES ASSUME {k \in Nat : k =< MaxFiles /\ a[k] \notin Pointer} # {} PROVE FALSE
      BY <1>0
    <2>2. PICK k \in Nat : /\ k =< MaxFiles /\ a[k] \notin Pointer
                           /\ \A j \in Nat : j < k => a[j] \in Pointer
      <3>1. PICK T : T = {k \in Nat : k =< MaxFiles /\ a[k] \notin Pointer}
        OBVIOUS
      <3>2. PICK k \in T : \A j \in T : k =< j
        BY <2>1, <3>1, Least
      <3>3. QED
        BY <1>0, <3>1, <3>2
    <2>3. k # 0
      BY <1>7, <2>2
    <2>4. k \in 1 .. MaxFiles /\ k - 1 \in Nat /\ k - 1 < k
      BY <1>0, <2>2, <2>3
    <2>5. a[k - 1] \in Pointer
      BY <2>2, <2>4
    <2>6. QED
      BY <1>7, <2>2, <2>4, <2>5 DEF Images, Pointer
  <1>9. QED
    BY <1>5, <1>7, <1>8 DEF Follows

-----------------------------------------------------------------------------
(* What the operations on links change, node by node. *)

\* The parts no operation on links touches.
SameFiles(f, g) ==
  /\ g.count = f.count /\ g.max_files = f.max_files /\ g.stores = f.stores
  /\ g.dir = f.dir /\ g.size = f.size

\* From f to g, c has become the first child of p.
FirstChild(f, g, c, p) ==
  \A x \in Nodes :
    /\ g.parent[x] = IF x = c THEN p ELSE f.parent[x]
    /\ g.next[x] = IF x = c THEN f.children[p] ELSE f.next[x]
    /\ g.prev[x] = IF x = c THEN Null ELSE IF x = f.children[p] THEN c ELSE f.prev[x]
    /\ g.children[x] = IF x = p THEN c ELSE f.children[x]

LEMMA LinkFields ==
  ASSUME NEW f \in Images, NEW c \in Nodes, NEW p \in Nodes, NEW g, g = Link(f, c, p)
  PROVE  /\ g \in Images /\ SameFiles(f, g) /\ FirstChild(f, g, c, p)
         /\ g.used = f.used /\ g.data = f.data /\ g.name = f.name
  <1>1. PICK P, N, V, C :
          /\ P = [f.parent EXCEPT ![c] = p] /\ N = [f.next EXCEPT ![c] = f.children[p]]
          /\ V = [m \in Nodes |-> IF m = c THEN Null
                                  ELSE IF m = f.children[p] THEN c ELSE f.prev[m]]
          /\ C = [f.children EXCEPT ![p] = c]
    OBVIOUS
  <1>2. /\ P \in [Nodes -> Pointer] /\ N \in [Nodes -> Pointer]
        /\ V \in [Nodes -> Pointer] /\ C \in [Nodes -> Pointer]
    BY <1>1 DEF Images, Pointer
  <1>3. g = [f EXCEPT !.parent = P, !.next = N, !.prev = V, !.children = C]
    BY <1>1 DEF Link
  <1>4. /\ g \in Images /\ SameFiles(f, g)
        /\ g.used = f.used /\ g.data = f.data /\ g.name = f.name
        /\ g.parent = P /\ g.next = N /\ g.prev = V /\ g.children = C
    BY <1>2, <1>3 DEF Images, SameFiles, Pointer
  <1>5. QED
    BY <1>1, <1>4 DEF Images, FirstChild

LEMMA UnlinkFields ==
  ASSUME NEW f \in Images, NEW n \in Nodes, NEW g, g = Unlink(f, n)
  PROVE  /\ g \in Images /\ SameFiles(f, g)
         /\ g.used = f.used /\ g.data = f.data /\ g.name = f.name /\ g.parent = f.parent
         /\ \A x \in Nodes :
              /\ g.next[x] = IF x = f.prev[n] THEN f.next[n] ELSE f.next[x]
              /\ g.prev[x] = IF x = f.next[n] THEN f.prev[n] ELSE f.prev[x]
              /\ g.children[x] = IF x = f.parent[n] /\ f.children[x] = n THEN f.next[n]
                                                                       ELSE f.children[x]
  <1>1. PICK N, V, C :
          /\ N = [m \in Nodes |-> IF m = f.prev[n] THEN f.next[n] ELSE f.next[m]]
          /\ V = [m \in Nodes |-> IF m = f.next[n] THEN f.prev[n] ELSE f.prev[m]]
          /\ C = [m \in Nodes |-> IF m = f.parent[n] /\ f.children[m] = n
                                  THEN f.next[n] ELSE f.children[m]]
    OBVIOUS
  <1>2. N \in [Nodes -> Pointer] /\ V \in [Nodes -> Pointer] /\ C \in [Nodes -> Pointer]
    BY <1>1 DEF Images, Pointer
  <1>3. g = [f EXCEPT !.next = N, !.prev = V, !.children = C]
    BY <1>1 DEF Unlink
  <1>4. /\ g \in Images /\ SameFiles(f, g)
        /\ g.used = f.used /\ g.data = f.data /\ g.name = f.name /\ g.parent = f.parent
        /\ g.next = N /\ g.prev = V /\ g.children = C
    BY <1>2, <1>3 DEF Images, SameFiles, Pointer
  <1>5. QED
    BY <1>1, <1>4

LEMMA FreeFields ==
  ASSUME NEW f \in Images, NEW n \in Nodes, NEW u, NEW g, u = Unlink(f, n),
         g = ramfs_free_node(f, n)
  PROVE  /\ g \in Images /\ SameFiles(f, g) /\ g.name = f.name
         /\ f.data[n] = NoData => g.used = f.used
         /\ \A x \in Nodes : x # n =>
              /\ g.parent[x] = u.parent[x] /\ g.next[x] = u.next[x]
              /\ g.prev[x] = u.prev[x] /\ g.children[x] = u.children[x]
              /\ g.data[x] = f.data[x]
         /\ g.parent[n] = Null /\ g.next[n] = Null /\ g.prev[n] = Null
         /\ g.children[n] = Null /\ g.data[n] = NoData
  <1>0. /\ u \in Images /\ SameFiles(f, u)
        /\ u.used = f.used /\ u.data = f.data /\ u.name = f.name
    BY UnlinkFields
  <1>1. PICK U, D, P, C, N, V :
          /\ U = (IF f.data[n] = NoData THEN u.used ELSE (u.used - f.size[n]) % Word)
          /\ D = [u.data EXCEPT ![n] = NoData] /\ P = [u.parent EXCEPT ![n] = Null]
          /\ C = [u.children EXCEPT ![n] = Null] /\ N = [u.next EXCEPT ![n] = Null]
          /\ V = [u.prev EXCEPT ![n] = Null]
    OBVIOUS
  <1>2. U \in 0 .. Word - 1
    <2>1. u.used \in Int /\ f.size[n] \in Int /\ Word \in Nat /\ Word > 0
      BY <1>0, RamfsAssumption DEF Images
    <2>2. QED
      BY <1>0, <1>1, <2>1 DEF Images
  <1>3. /\ P \in [Nodes -> Pointer] /\ N \in [Nodes -> Pointer]
        /\ V \in [Nodes -> Pointer] /\ C \in [Nodes -> Pointer]
        /\ D \in [Nodes -> {NoData} \cup 0 .. Word - 1]
    BY <1>0, <1>1 DEF Images, Pointer
  <1>4. g = [u EXCEPT !.used = U, !.data = D, !.parent = P, !.children = C,
                      !.next = N, !.prev = V]
    <2>1. g = [u EXCEPT !.used = IF f.data[n] = NoData THEN @ ELSE (@ - f.size[n]) % Word,
                        !.data[n] = NoData, !.parent[n] = Null, !.children[n] = Null,
                        !.next[n] = Null, !.prev[n] = Null]
      BY DEF ramfs_free_node
    <2>2. QED
      BY <1>0, <1>1, <2>1 DEF Images
  <1>5. /\ g \in Images /\ SameFiles(f, g) /\ g.name = f.name
        /\ g.used = U /\ g.data = D
        /\ g.parent = P /\ g.next = N /\ g.prev = V /\ g.children = C
    <2>1. PICK v : v = [u EXCEPT !.used = U, !.data = D, !.parent = P]
      OBVIOUS
    <2>2. /\ v \in Images /\ SameFiles(f, v) /\ v.name = f.name
          /\ v.used = U /\ v.data = D /\ v.parent = P
      BY <1>0, <1>2, <1>3, <2>1 DEF Images, SameFiles, Pointer
    <2>3. g = [v EXCEPT !.children = C, !.next = N, !.prev = V]
      BY <1>4, <2>1
    <2>4. QED
      BY <1>3, <2>2, <2>3 DEF Images, SameFiles, Pointer
  <1>6. QED
    BY <1>0, <1>1, <1>5 DEF Images

-----------------------------------------------------------------------------
(* The lists. *)

LEMMA NullIsNoNode == Null \notin Nodes /\ Root \in Nodes /\ Nodes \subseteq Nat
  BY RamfsAssumption DEF Null, Root, Nodes

LEMMA PointersAreNumbers ==
  ASSUME NEW f \in Images
  PROVE  \A x \in Nodes : f.parent[x] \in Nat /\ f.parent[x] \in Pointer
  <1>1. Pointer \subseteq Nat
    BY NullIsNoNode DEF Pointer, Null
  <1>2. QED
    BY <1>1 DEF Images, Pointer

LEMMA FreedAreNodes ==
  ASSUME NEW f \in Images
  PROVE  Freed(f) \subseteq Nodes \ {Root}
  BY RamfsAssumption DEF Images, Freed, Nodes, Root

\* Without n the lists of the others are in order.
LEMMA UnlinkLists ==
  ASSUME NEW f \in Images, Lists(f, Nodes), NEW n \in Nodes, NEW g, g = Unlink(f, n)
  PROVE  Lists(g, Nodes \ {n})
  <1>0. /\ g \in Images /\ g.count = f.count /\ g.parent = f.parent
        /\ \A x \in Nodes :
              /\ g.next[x] = IF x = f.prev[n] THEN f.next[n] ELSE f.next[x]
              /\ g.prev[x] = IF x = f.next[n] THEN f.prev[n] ELSE f.prev[x]
              /\ g.children[x] = IF x = f.parent[n] /\ f.children[x] = n THEN f.next[n]
                                                                       ELSE f.children[x]
    BY UnlinkFields DEF SameFiles
  <1>t. \A x \in Nodes : f.parent[x] \in Nodes \union {Null}
    BY DEF Images
  <1>1. PICK b \in Nat, r \in [Nodes -> Nat] :
          /\ \A c \in Nodes : r[c] < b
          /\ \A c \in Nodes : f.next[c] # Null => r[f.next[c]] < r[c]
    BY DEF Lists, Ranked
  <1>2. f.next[n] # n /\ f.prev[n] # n
    BY <1>1, NullIsNoNode DEF Lists
  <1>3. \A c \in Nodes : f.next[c] # Null =>
          f.next[c] \in Nodes /\ f.prev[f.next[c]] = c /\ f.parent[f.next[c]] = f.parent[c]
    BY DEF Lists
  <1>4. \A c \in Nodes : f.prev[c] # Null =>
          f.prev[c] \in Nodes /\ f.next[f.prev[c]] = c /\ f.parent[f.prev[c]] = f.parent[c]
    BY DEF Lists
  <1>5. \A m \in Nodes : f.children[m] # Null =>
          /\ f.children[m] \in Nodes /\ f.prev[f.children[m]] = Null
          /\ f.parent[f.children[m]] = m
    BY DEF Lists
  <1>6. Freed(g) = Freed(f)
    BY <1>0 DEF Freed
  <1>7. \A c \in Nodes \ {n} : g.parent[c] = Null => g.next[c] = Null /\ g.prev[c] = Null
    <2>1. \A c \in Nodes : f.parent[c] = Null => f.next[c] = Null /\ f.prev[c] = Null
      BY DEF Lists
    <2>2. QED
      BY <1>0, <1>3, <1>4, <2>1, NullIsNoNode
  <1>8. ASSUME NEW c \in Nodes \ {n}, g.next[c] # Null
        PROVE  /\ g.next[c] \in Nodes \ {n} /\ g.prev[g.next[c]] = c
               /\ g.parent[g.next[c]] = g.parent[c]
    <2>1. CASE c = f.prev[n]
      <3>1. PICK d : d = f.next[n] /\ d = g.next[c]
        BY <1>0, <2>1
      <3>2. d \in Nodes \ {n} /\ f.parent[d] = f.parent[n] /\ f.parent[c] = f.parent[n]
        BY <1>2, <1>3, <1>4, <1>8, <2>1, <3>1, NullIsNoNode
      <3>3. g.prev[d] = c
        BY <1>0, <2>1, <3>1, <3>2
      <3>4. QED
        BY <1>0, <3>1, <3>2, <3>3
    <2>2. CASE c # f.prev[n]
      <3>1. g.next[c] = f.next[c] /\ f.next[c] \in Nodes /\ f.prev[f.next[c]] = c
        BY <1>0, <1>3, <1>8, <2>2
      <3>2. f.next[c] # n /\ f.next[c] # f.next[n]
        BY <1>3, <1>8, <2>2, <3>1, NullIsNoNode
      <3>3. PICK d \in Nodes : d = f.next[c] /\ f.parent[d] = f.parent[c]
        BY <1>3, <1>8, <3>1, NullIsNoNode
      <3>4. g.prev[d] = c /\ d \in Nodes \ {n}
        BY <1>0, <3>1, <3>2, <3>3
      <3>5. QED
        BY <1>0, <3>1, <3>3, <3>4
    <2>3. QED
      BY <2>1, <2>2
  <1>9. ASSUME NEW c \in Nodes \ {n}, g.prev[c] # Null
        PROVE  /\ g.prev[c] \in Nodes \ {n} /\ g.next[g.prev[c]] = c
               /\ g.parent[g.prev[c]] = g.parent[c]
    <2>1. CASE c = f.next[n]
      <3>1. PICK d : d = f.prev[n] /\ d = g.prev[c]
        BY <1>0, <2>1
      <3>2. d \in Nodes \ {n} /\ f.parent[d] = f.parent[n] /\ f.parent[c] = f.parent[n]
        BY <1>2, <1>3, <1>4, <1>9, <2>1, <3>1, NullIsNoNode
      <3>3. g.next[d] = c
        BY <1>0, <2>1, <3>1, <3>2
      <3>4. QED
        BY <1>0, <3>1, <3>2, <3>3
    <2>2. CASE c # f.next[n]
      <3>1. g.prev[c] = f.prev[c] /\ f.prev[c] \in Nodes /\ f.next[f.prev[c]] = c
        BY <1>0, <1>4, <1>9, <2>2
      <3>2. f.prev[c] # n /\ f.prev[c] # f.prev[n]
        BY <1>4, <1>9, <2>2, <3>1, NullIsNoNode
      <3>3. PICK d \in Nodes : d = f.prev[c] /\ f.parent[d] = f.parent[c]
        BY <1>4, <1>9, <3>1, NullIsNoNode
      <3>4. g.next[d] = c /\ d \in Nodes \ {n}
        BY <1>0, <3>1, <3>2, <3>3
      <3>5. QED
        BY <1>0, <3>1, <3>3, <3>4
    <2>3. QED
      BY <2>1, <2>2
  <1>10. ASSUME NEW m \in Nodes, g.children[m] # Null
         PROVE  /\ g.children[m] \in Nodes \ {n} /\ g.prev[g.children[m]] = Null
                /\ g.parent[g.children[m]] = m
    <2>1. CASE f.children[m] = n
      <3>1. f.parent[n] = m /\ f.prev[n] = Null /\ g.children[m] = f.next[n]
        BY <1>0, <1>5, <2>1, NullIsNoNode
      <3>2. QED
        BY <1>0, <1>2, <1>3, <1>10, <3>1
    <2>2. CASE f.children[m] # n
      <3>1. /\ g.children[m] = f.children[m] /\ f.children[m] \in Nodes
            /\ f.prev[f.children[m]] = Null /\ f.parent[f.children[m]] = m
        BY <1>0, <1>5, <1>10, <2>2
      <3>2. f.children[m] # f.next[n]
        BY <1>3, <3>1, NullIsNoNode
      <3>3. QED
        BY <1>0, <2>2, <3>1, <3>2
    <2>3. QED
      BY <2>1, <2>2
  <1>11. ASSUME NEW c \in Nodes \ {n}, g.parent[c] # Null, g.prev[c] = Null,
                g.parent[c] \notin Freed(g)
         PROVE  g.children[g.parent[c]] = c
    <2>0. /\ f.parent[c] = g.parent[c] /\ f.parent[c] \in Nodes /\ f.parent[c] \notin Freed(f)
          /\ \A d \in Nodes : f.parent[d] = f.parent[c] /\ f.prev[d] = Null =>
                 f.children[f.parent[c]] = d
      BY <1>0, <1>t, <1>6, <1>11 DEF Lists
    <2>1. CASE c = f.next[n]
      <3>1. f.prev[n] = Null /\ f.parent[n] = f.parent[c]
        BY <1>0, <1>3, <1>11, <2>1, NullIsNoNode
      <3>2. f.children[f.parent[c]] = n
        BY <2>0, <3>1
      <3>3. QED
        BY <1>0, <2>0, <2>1, <3>1, <3>2
    <2>2. CASE c # f.next[n]
      <3>1. f.children[f.parent[c]] = c
        BY <1>0, <1>11, <2>0, <2>2
      <3>2. QED
        BY <1>0, <2>0, <3>1
    <2>3. QED
      BY <2>1, <2>2
  <1>12. Ranked(g.next, Nodes \ {n})
    <2>1. ASSUME NEW c \in Nodes \ {n}, g.next[c] # Null PROVE r[g.next[c]] < r[c]
      <3>1. CASE c = f.prev[n]
        <4>1. /\ f.next[c] = n /\ g.next[c] = f.next[n] /\ f.next[n] \in Nodes
              /\ r[f.next[c]] < r[c] /\ r[f.next[n]] < r[n]
          BY <1>0, <1>1, <1>3, <1>4, <2>1, <3>1, NullIsNoNode
        <4>2. r[n] \in Nat /\ r[c] \in Nat /\ r[f.next[n]] \in Nat
          BY <1>1, <4>1
        <4>3. QED
          BY <4>1, <4>2
      <3>2. CASE c # f.prev[n]
        BY <1>0, <1>1, <2>1, <3>2
      <3>3. QED
        BY <3>1, <3>2
    <2>2. QED
      BY <1>1, <2>1 DEF Ranked
  <1>13. QED
    BY <1>7, <1>8, <1>9, <1>10, <1>11, <1>12 DEF Lists

\* Freeing a node leaves its children, if it has any, without a list.
LEMMA FreeLists ==
  ASSUME NEW f \in Images, Lists(f, Nodes), NEW n \in Nodes, NEW g,
         g = ramfs_free_node(f, n),
         n \in 2 .. f.count \/ \A c \in Nodes : f.parent[c] # n
  PROVE  Lists(g, Nodes)
  <1>1. PICK u : u = Unlink(f, n)
    OBVIOUS
  <1>2. u \in Images /\ u.count = f.count /\ u.parent = f.parent /\ Lists(u, Nodes \ {n})
    BY <1>1, UnlinkFields, UnlinkLists DEF SameFiles
  <1>3. /\ g \in Images /\ g.count = f.count
        /\ \A x \in Nodes : x # n =>
              /\ g.parent[x] = u.parent[x] /\ g.next[x] = u.next[x]
              /\ g.prev[x] = u.prev[x] /\ g.children[x] = u.children[x]
        /\ g.parent[n] = Null /\ g.next[n] = Null /\ g.prev[n] = Null
        /\ g.children[n] = Null
    BY <1>1, FreeFields DEF SameFiles
  <1>4. \A m \in Nodes : m \in Freed(u) => m \in Freed(g)
    BY <1>2, <1>3 DEF Freed
  <1>5. \A c \in Nodes : g.parent[c] = Null => g.next[c] = Null /\ g.prev[c] = Null
    BY <1>2, <1>3 DEF Lists
  <1>6. \A c \in Nodes : g.next[c] # Null =>
          g.next[c] \in Nodes /\ g.prev[g.next[c]] = c /\ g.parent[g.next[c]] = g.parent[c]
    BY <1>2, <1>3 DEF Lists
  <1>7. \A c \in Nodes : g.prev[c] # Null =>
          g.prev[c] \in Nodes /\ g.next[g.prev[c]] = c /\ g.parent[g.prev[c]] = g.parent[c]
    BY <1>2, <1>3 DEF Lists
  <1>8. \A m \in Nodes : g.children[m] # Null =>
          /\ g.children[m] \in Nodes /\ g.prev[g.children[m]] = Null
          /\ g.parent[g.children[m]] = m
    BY <1>2, <1>3 DEF Lists
  <1>9. ASSUME NEW c \in Nodes, g.parent[c] # Null, g.prev[c] = Null, g.parent[c] \notin Freed(g)
        PROVE  g.children[g.parent[c]] = c
    <2>1. c # n /\ g.parent[c] = f.parent[c] /\ f.parent[c] \in Nodes
      BY <1>2, <1>3, <1>9 DEF Images
    <2>2. f.parent[c] # n
      BY <1>3, <1>9, <2>1 DEF Freed
    <2>3. u.children[u.parent[c]] = c
      BY <1>2, <1>3, <1>4, <1>9, <2>1 DEF Lists
    <2>4. QED
      BY <1>2, <1>3, <2>1, <2>2, <2>3
  <1>10. Ranked(g.next, Nodes)
    BY <1>2, <1>3 DEF Lists, Ranked
  <1>11. QED
    BY <1>5, <1>6, <1>7, <1>8, <1>9, <1>10 DEF Lists

\* c, which is in no list, becomes the first child of p.
LEMMA LinkLists ==
  ASSUME NEW f \in Images, NEW c \in Nodes, NEW p \in Nodes, Lists(f, Nodes \ {c}), c # p,
         NEW g, g = Link(f, c, p),
         c \in Freed(f) => \A x \in Nodes : f.parent[x] # c
  PROVE  Lists(g, Nodes)
  <1>0. /\ g \in Images /\ g.count = f.count
        /\ \A x \in Nodes :
              /\ g.parent[x] = IF x = c THEN p ELSE f.parent[x]
              /\ g.next[x] = IF x = c THEN f.children[p] ELSE f.next[x]
              /\ g.prev[x] = IF x = c THEN Null ELSE IF x = f.children[p] THEN c ELSE f.prev[x]
              /\ g.children[x] = IF x = p THEN c ELSE f.children[x]
    <2>1. g \in Images /\ SameFiles(f, g) /\ FirstChild(f, g, c, p)
      BY LinkFields
    <2>2. QED
      BY <2>1 DEF SameFiles, FirstChild
  <1>1. \A x \in Nodes \ {c} : f.next[x] # Null =>
          /\ f.next[x] \in Nodes \ {c} /\ f.prev[f.next[x]] = x
          /\ f.parent[f.next[x]] = f.parent[x]
    BY DEF Lists
  <1>2. \A x \in Nodes \ {c} : f.prev[x] # Null =>
          /\ f.prev[x] \in Nodes \ {c} /\ f.next[f.prev[x]] = x
          /\ f.parent[f.prev[x]] = f.parent[x]
    BY DEF Lists
  <1>3. \A m \in Nodes : f.children[m] # Null =>
          /\ f.children[m] \in Nodes \ {c} /\ f.prev[f.children[m]] = Null
          /\ f.parent[f.children[m]] = m
    BY DEF Lists
  <1>4. \A x \in Nodes : g.parent[x] = Null => g.next[x] = Null /\ g.prev[x] = Null
    <2>1. \A x \in Nodes \ {c} : f.parent[x] = Null => f.next[x] = Null /\ f.prev[x] = Null
      BY DEF Lists
    <2>2. QED
      BY <1>0, <1>3, <2>1, NullIsNoNode
  <1>5. ASSUME NEW x \in Nodes, g.next[x] # Null
        PROVE  g.next[x] \in Nodes /\ g.prev[g.next[x]] = x /\ g.parent[g.next[x]] = g.parent[x]
    <2>1. CASE x = c
      BY <1>0, <1>3, <1>5, <2>1
    <2>2. CASE x # c
      <3>1. g.next[x] = f.next[x] /\ f.next[x] \in Nodes \ {c} /\ f.prev[f.next[x]] = x
            /\ f.parent[f.next[x]] = f.parent[x]
        BY <1>0, <1>1, <1>5, <2>2
      <3>2. f.next[x] # f.children[p]
        BY <1>3, <3>1, NullIsNoNode
      <3>3. QED
        BY <1>0, <2>2, <3>1, <3>2
    <2>3. QED
      BY <2>1, <2>2
  <1>6. ASSUME NEW x \in Nodes, g.prev[x] # Null
        PROVE  g.prev[x] \in Nodes /\ g.next[g.prev[x]] = x /\ g.parent[g.prev[x]] = g.parent[x]
    <2>1. x # c
      BY <1>0, <1>6
    <2>2. CASE x = f.children[p]
      BY <1>0, <1>3, <2>1, <2>2, NullIsNoNode
    <2>3. CASE x # f.children[p]
      <3>1. /\ g.prev[x] = f.prev[x] /\ f.prev[x] \in Nodes \ {c} /\ f.next[f.prev[x]] = x
            /\ f.parent[f.prev[x]] = f.parent[x]
        BY <1>0, <1>2, <1>6, <2>1, <2>3
      <3>2. QED
        BY <1>0, <2>1, <3>1
    <2>4. QED
      BY <2>2, <2>3
  <1>7. ASSUME NEW m \in Nodes, g.children[m] # Null
        PROVE  /\ g.children[m] \in Nodes /\ g.prev[g.children[m]] = Null
               /\ g.parent[g.children[m]] = m
    <2>1. CASE m = p
      BY <1>0, <2>1
    <2>2. CASE m # p
      <3>1. /\ g.children[m] = f.children[m] /\ f.children[m] \in Nodes \ {c}
            /\ f.prev[f.children[m]] = Null /\ f.parent[f.children[m]] = m
        BY <1>0, <1>3, <1>7, <2>2
      <3>2. f.children[m] # f.children[p]
        BY <1>3, <2>2, <3>1, NullIsNoNode
      <3>3. QED
        BY <1>0, <3>1, <3>2
    <2>3. QED
      BY <2>1, <2>2
  <1>8. ASSUME NEW x \in Nodes, g.parent[x] # Null, g.prev[x] = Null, g.parent[x] \notin Freed(g)
        PROVE  g.children[g.parent[x]] = x
    <2>1. CASE x = c
      BY <1>0, <2>1
    <2>2. CASE x # c
      <3>1. /\ g.parent[x] = f.parent[x] /\ x # f.children[p] /\ f.prev[x] = Null
            /\ f.parent[x] \in Nodes
        BY <1>0, <1>8, <2>2, NullIsNoNode DEF Images
      <3>2. f.parent[x] \notin Freed(f)
        BY <1>0, <1>8, <3>1 DEF Freed
      <3>3. f.children[f.parent[x]] = x
        BY <1>8, <2>2, <3>1, <3>2 DEF Lists
      <3>4. QED
        BY <1>0, <3>1, <3>3
    <2>3. QED
      BY <2>1, <2>2
  <1>9. Ranked(g.next, Nodes)
    <2>1. PICK b \in Nat, r \in [Nodes -> Nat] :
            /\ \A x \in Nodes : r[x] < b
            /\ \A x \in Nodes \ {c} : f.next[x] # Null => r[f.next[x]] < r[x]
      BY DEF Lists, Ranked
    <2>2. PICK q : q = [r EXCEPT ![c] = b]
      OBVIOUS
    <2>3. /\ q \in [Nodes -> Nat] /\ b + 1 \in Nat /\ \A x \in Nodes : q[x] < b + 1
      BY <2>1, <2>2
    <2>4. ASSUME NEW x \in Nodes, g.next[x] # Null PROVE q[g.next[x]] < q[x]
      <3>1. CASE x = c
        <4>1. g.next[x] = f.children[p] /\ f.children[p] \in Nodes \ {c}
          BY <1>0, <1>3, <2>4, <3>1
        <4>2. QED
          BY <2>1, <2>2, <3>1, <4>1
      <3>2. CASE x # c
        <4>1. g.next[x] = f.next[x] /\ f.next[x] \in Nodes \ {c}
          BY <1>0, <1>1, <2>4, <3>2
        <4>2. QED
          BY <2>1, <2>2, <2>4, <3>2, <4>1
      <3>3. QED
        BY <3>1, <3>2
    <2>5. QED
      BY <2>3, <2>4 DEF Ranked
  <1>10. QED
    BY <1>4, <1>5, <1>6, <1>7, <1>8, <1>9 DEF Lists

-----------------------------------------------------------------------------
(* The children a parent's list has. *)

\* Induction up to n, for a set.
LEMMA UpTo ==
  ASSUME NEW n \in Nat, NEW T, 0 \in T, \A k \in Nat : k < n /\ k \in T => k + 1 \in T
  PROVE  0 .. n \subseteq T
  <1>1. SUFFICES ASSUME (0 .. n) \ T # {} PROVE FALSE
    OBVIOUS
  <1>2. PICK k \in (0 .. n) \ T : \A j \in (0 .. n) \ T : k =< j
    <2>1. PICK U : U = (0 .. n) \ T
      OBVIOUS
    <2>2. U \subseteq Nat /\ U # {}
      BY <1>1, <2>1
    <2>3. \E k \in U : \A j \in U : k =< j
      BY <2>2, Least
    <2>4. QED
      BY <2>1, <2>3
  <1>3. k # 0 /\ k - 1 \in Nat /\ k - 1 < n /\ k - 1 \in 0 .. n /\ ~(k =< k - 1)
    BY <1>2
  <1>4. k - 1 \in T
    BY <1>2, <1>3
  <1>5. (k - 1) + 1 \in T
    BY <1>3, <1>4
  <1>6. QED
    BY <1>2, <1>5

\* Every node the list of n reaches is a child of n, has the one before it as
\* prev, and ranks below all of them.
ListOf(f, n, s) ==
  \A k \in 0 .. MaxFiles : s[k] # Null =>
    /\ s[k] \in Nodes /\ f.parent[s[k]] = n
    /\ k = 0 => f.prev[s[k]] = Null
    /\ k # 0 => s[k - 1] \in Nodes /\ f.prev[s[k]] = s[k - 1]

LEMMA ListNodes ==
  ASSUME NEW f \in Images, Lists(f, Nodes), NEW n \in Nodes, NEW s,
         s = After(f, f.children[n])
  PROVE  /\ Follows(f, f.children[n], s, MaxFiles) /\ ListOf(f, n, s)
         /\ MaxFiles \in Nat
  <1>0. MaxFiles \in Nat /\ f.children[n] \in Pointer
    BY RamfsAssumption DEF Images, Pointer
  <1>1. Follows(f, f.children[n], s, MaxFiles)
    BY <1>0, AfterFollows
  <1>2. /\ s[0] = f.children[n] /\ \A k \in 0 .. MaxFiles : s[k] \in Pointer
        /\ \A k \in 1 .. MaxFiles : s[k] = IF s[k - 1] = Null THEN Null ELSE f.next[s[k - 1]]
    BY <1>1 DEF Follows
  <1>3. PICK T : T = {k \in 0 .. MaxFiles : s[k] # Null => f.parent[s[k]] = n}
    OBVIOUS
  <1>4. 0 \in T
    BY <1>0, <1>2, <1>3 DEF Lists
  <1>5. ASSUME NEW k \in Nat, k < MaxFiles, k \in T PROVE k + 1 \in T
    <2>1. PICK j \in 1 .. MaxFiles : j = k + 1 /\ j - 1 = k
      BY <1>0, <1>5
    <2>2. s[j] = IF s[k] = Null THEN Null ELSE f.next[s[k]]
      BY <1>2, <2>1
    <2>3. s[j] # Null => f.parent[s[j]] = n
      BY <1>2, <1>3, <1>5, <2>1, <2>2 DEF Lists, Pointer
    <2>4. QED
      BY <1>0, <1>3, <2>1, <2>3
  <1>6. \A k \in 0 .. MaxFiles : s[k] # Null => f.parent[s[k]] = n
    BY <1>0, <1>3, <1>4, <1>5, UpTo
  <1>7. ASSUME NEW k \in 0 .. MaxFiles, s[k] # Null
        PROVE  /\ s[k] \in Nodes
               /\ k = 0 => f.prev[s[k]] = Null
               /\ k # 0 => s[k - 1] \in Nodes /\ f.prev[s[k]] = s[k - 1]
    <2>1. s[k] \in Nodes
      BY <1>2, <1>7 DEF Pointer
    <2>2. CASE k = 0
      BY <1>2, <1>7, <2>1, <2>2 DEF Lists
    <2>3. CASE k # 0
      <3>1. k \in 1 .. MaxFiles /\ k - 1 \in 0 .. MaxFiles
        BY <1>0, <2>3
      <3>2. s[k - 1] \in Nodes /\ s[k] = f.next[s[k - 1]]
        BY <1>2, <1>7, <3>1 DEF Pointer
      <3>3. f.prev[s[k]] = s[k - 1]
        BY <1>7, <3>2 DEF Lists
      <3>4. QED
        BY <2>1, <2>3, <3>2, <3>3
    <2>4. QED
      BY <2>2, <2>3
  <1>8. QED
    BY <1>0, <1>1, <1>6, <1>7 DEF ListOf

\* The list ends: its nodes rank one below the other, so that there are not
\* more of them than nodes.
LEMMA ListEnds ==
  ASSUME NEW f \in Images, Lists(f, Nodes), NEW n \in Nodes, NEW s,
         s = After(f, f.children[n])
  PROVE  s[MaxFiles] = Null
  <1>0. /\ Follows(f, f.children[n], s, MaxFiles) /\ ListOf(f, n, s) /\ MaxFiles \in Nat
    BY ListNodes
  <1>1. SUFFICES ASSUME s[MaxFiles] # Null PROVE FALSE
    OBVIOUS
  <1>2. \A k \in 1 .. MaxFiles : s[k] = IF s[k - 1] = Null THEN Null ELSE f.next[s[k - 1]]
    BY <1>0 DEF Follows
  <1>3. \A k \in 0 .. MaxFiles : s[k] \in Nodes
    <2>1. PICK T : T = {k \in 0 .. MaxFiles : s[MaxFiles - k] # Null}
      OBVIOUS
    <2>2. 0 \in T
      BY <1>0, <1>1, <2>1
    <2>3. ASSUME NEW k \in Nat, k < MaxFiles, k \in T PROVE k + 1 \in T
      <3>1. PICK j \in 1 .. MaxFiles : j = MaxFiles - k /\ j - 1 = MaxFiles - (k + 1)
        BY <1>0, <2>3
      <3>2. s[j] # Null /\ s[j - 1] # Null
        BY <1>2, <2>1, <2>3, <3>1
      <3>3. QED
        BY <1>0, <2>1, <2>3, <3>1, <3>2
    <2>4. 0 .. MaxFiles \subseteq T
      BY <1>0, <2>2, <2>3, UpTo
    <2>5. ASSUME NEW k \in 0 .. MaxFiles PROVE s[k] # Null
      <3>1. MaxFiles - k \in T /\ MaxFiles - (MaxFiles - k) = k
        BY <1>0, <2>4
      <3>2. QED
        BY <2>1, <3>1
    <2>6. QED
      BY <1>0, <2>5 DEF ListOf
  <1>4. PICK b \in Nat, r \in [Nodes -> Nat] :
          /\ \A c \in Nodes : r[c] < b
          /\ \A c \in Nodes : f.next[c] # Null => r[f.next[c]] < r[c]
    BY DEF Lists, Ranked
  <1>5. \A k \in 0 .. MaxFiles : \A j \in 0 .. MaxFiles : j < k => r[s[k]] < r[s[j]]
    <2>1. PICK T : T = {k \in 0 .. MaxFiles : \A j \in 0 .. MaxFiles : j < k => r[s[k]] < r[s[j]]}
      OBVIOUS
    <2>2. 0 \in T
      BY <1>0, <2>1
    <2>3. ASSUME NEW k \in Nat, k < MaxFiles, k \in T PROVE k + 1 \in T
      <3>1. PICK i \in 1 .. MaxFiles : i = k + 1 /\ i - 1 = k /\ k \in 0 .. MaxFiles /\ i \in 0 .. MaxFiles
        BY <1>0, <2>3
      <3>2. s[i] = f.next[s[k]] /\ s[i] \in Nodes /\ s[k] \in Nodes
        BY <1>2, <1>3, <3>1, NullIsNoNode
      <3>3. r[s[i]] < r[s[k]]
        BY <1>4, <3>2, NullIsNoNode
      <3>4. ASSUME NEW j \in 0 .. MaxFiles, j < i PROVE r[s[i]] < r[s[j]]
        <4>1. j = k \/ j < k
          BY <3>1, <3>4
        <4>2. j < k => r[s[k]] < r[s[j]]
          BY <2>1, <2>3
        <4>3. r[s[i]] \in Nat /\ r[s[k]] \in Nat /\ r[s[j]] \in Nat
          BY <1>3, <1>4, <3>1
        <4>4. QED
          BY <3>3, <4>1, <4>2, <4>3
      <3>5. QED
        BY <2>1, <3>1, <3>4
    <2>4. 0 .. MaxFiles \subseteq T
      BY <1>0, <2>2, <2>3, UpTo
    <2>5. QED
      BY <2>1, <2>4
  <1>6. s \in [0 .. MaxFiles -> Nodes]
    BY <1>0, <1>3 DEF Follows
  <1>7. /\ IsFiniteSet(0 .. MaxFiles) /\ IsFiniteSet(Nodes)
        /\ Cardinality(0 .. MaxFiles) = MaxFiles + 1 /\ Cardinality(Nodes) = MaxFiles
    BY <1>0, RamfsAssumption, FS_Interval DEF Nodes
  <1>8. PICK x, y \in 0 .. MaxFiles : x # y /\ s[x] = s[y]
    BY <1>0, <1>6, <1>7, FS_PigeonHole
  <1>9. r[s[x]] \in Nat /\ (x < y \/ y < x)
    BY <1>0, <1>4, <1>6, <1>8
  <1>10. QED
    BY <1>5, <1>8, <1>9

LEMMA ChildrenOf ==
  ASSUME NEW f \in Images, Lists(f, Nodes), NEW n \in Nodes, NEW s,
         s = After(f, f.children[n])
  PROVE  /\ \A c \in Children(f, n) :
              /\ c \in Nodes /\ f.parent[c] = n
              /\ f.prev[c] = Null <=> f.children[n] = c
         /\ n \notin Freed(f) => \A c \in Nodes : f.parent[c] = n => c \in Children(f, n)
         /\ f.children[n] = Null => Children(f, n) = {}
  <1>0. /\ Follows(f, f.children[n], s, MaxFiles) /\ ListOf(f, n, s) /\ MaxFiles \in Nat
        /\ s[MaxFiles] = Null
    BY ListNodes, ListEnds
  <1>1. /\ s[0] = f.children[n]
        /\ \A k \in 1 .. MaxFiles : s[k] = IF s[k - 1] = Null THEN Null ELSE f.next[s[k - 1]]
    BY <1>0 DEF Follows
  <1>2. Children(f, n) = {s[k] : k \in 0 .. MaxFiles} \ {Null}
    BY DEF Children
  <1>3. ASSUME NEW c \in Children(f, n)
        PROVE  /\ c \in Nodes /\ f.parent[c] = n
               /\ f.prev[c] = Null <=> f.children[n] = c
    <2>1. PICK k \in 0 .. MaxFiles : c = s[k] /\ s[k] # Null
      BY <1>2, <1>3
    <2>2. /\ c \in Nodes /\ f.parent[c] = n
          /\ k = 0 => f.prev[c] = Null
          /\ k # 0 => s[k - 1] \in Nodes /\ f.prev[c] = s[k - 1]
      BY <1>0, <2>1 DEF ListOf
    <2>3. f.children[n] = c => f.prev[c] = Null
      BY <2>2, NullIsNoNode DEF Lists
    <2>4. f.prev[c] = Null => k = 0
      BY <2>2, NullIsNoNode
    <2>5. QED
      BY <1>1, <2>1, <2>2, <2>3, <2>4
  <1>4. ASSUME n \notin Freed(f), NEW c \in Nodes, f.parent[c] = n
        PROVE  c \in Children(f, n)
    <2>1. PICK b \in Nat, r \in [Nodes -> Nat] :
            /\ \A x \in Nodes : r[x] < b
            /\ \A x \in Nodes : f.next[x] # Null => r[f.next[x]] < r[x]
      BY DEF Lists, Ranked
    <2>2. SUFFICES ASSUME c \notin Children(f, n) PROVE FALSE
      OBVIOUS
    <2>3. PICK T : T = {i \in Nat : \E x \in Nodes : /\ f.parent[x] = n /\ x \notin Children(f, n)
                                                     /\ i = b - r[x]}
      OBVIOUS
    <2>4. T # {}
      <3>1. b - r[c] \in Nat
        BY <2>1
      <3>2. QED
        BY <1>4, <2>2, <2>3, <3>1
    <2>5. PICK i \in T : \A j \in T : i =< j
      BY <2>3, <2>4, Least
    <2>6. PICK x \in Nodes : f.parent[x] = n /\ x \notin Children(f, n) /\ i = b - r[x]
      BY <2>3, <2>5
    <2>7. f.prev[x] # Null
      <3>1. SUFFICES ASSUME f.prev[x] = Null PROVE FALSE
        OBVIOUS
      <3>2. f.children[n] = x
        BY <1>4, <2>6, <3>1, NullIsNoNode DEF Lists
      <3>3. QED
        BY <1>0, <1>1, <1>2, <2>6, <3>2, NullIsNoNode
    <2>8. PICK y \in Nodes : y = f.prev[x] /\ f.next[y] = x /\ f.parent[y] = n
      BY <2>6, <2>7 DEF Lists
    <2>9. y \in Children(f, n)
      <3>1. SUFFICES ASSUME y \notin Children(f, n) PROVE FALSE
        OBVIOUS
      <3>2. r[x] < r[y] /\ r[x] \in Nat /\ r[y] \in Nat /\ r[y] < b
        BY <2>1, <2>8, NullIsNoNode
      <3>3. b - r[y] \in T
        BY <2>3, <2>8, <3>1, <3>2
      <3>4. QED
        BY <2>1, <2>5, <2>6, <3>2, <3>3
    <2>10. PICK k \in 0 .. MaxFiles : y = s[k]
      BY <1>2, <2>9
    <2>11. k # MaxFiles
      BY <1>0, <2>8, <2>10, NullIsNoNode
    <2>12. PICK m \in 1 .. MaxFiles : m = k + 1 /\ m - 1 = k /\ m \in 0 .. MaxFiles
      BY <1>0, <2>11
    <2>13. s[m] = x
      BY <1>1, <2>8, <2>10, <2>12, NullIsNoNode
    <2>14. QED
      BY <1>2, <2>6, <2>12, <2>13, NullIsNoNode
  <1>5. ASSUME f.children[n] = Null PROVE Children(f, n) = {}
    <2>1. SUFFICES ASSUME NEW c \in Children(f, n) PROVE FALSE
      OBVIOUS
    <2>2. PICK T : T = {k \in 0 .. MaxFiles : s[k] = Null}
      OBVIOUS
    <2>3. 0 \in T
      BY <1>0, <1>1, <1>5, <2>2
    <2>4. ASSUME NEW k \in Nat, k < MaxFiles, k \in T PROVE k + 1 \in T
      <3>1. PICK j \in 1 .. MaxFiles : j = k + 1 /\ j - 1 = k /\ j \in 0 .. MaxFiles
        BY <1>0, <2>4
      <3>2. QED
        BY <1>1, <2>2, <2>4, <3>1
    <2>5. 0 .. MaxFiles \subseteq T
      BY <1>0, <2>3, <2>4, UpTo
    <2>6. QED
      BY <1>2, <2>1, <2>2, <2>5
  <1>6. QED
    BY <1>3, <1>4, <1>5

\* ramfs_find_child finds a child of that name if there is one.
LEMMA FindChild ==
  ASSUME NEW f \in Images, Lists(f, Nodes), NEW p \in Nodes, NEW name, NEW c,
         c = ramfs_find_child(f, p, name)
  PROVE  /\ c # Null => c \in Nodes /\ f.parent[c] = p /\ f.name[c] = name
         /\ c = Null /\ p \notin Freed(f) =>
              \A x \in Nodes : f.parent[x] = p => f.name[x] # name
         /\ c \in Pointer
  <1>1. PICK s : s = After(f, f.children[p])
    OBVIOUS
  <1>2. PICK hits : hits = {k \in 0 .. MaxFiles : s[k] # Null /\ f.name[s[k]] = name}
    OBVIOUS
  <1>3. DOMAIN s = 0 .. MaxFiles /\ MaxFiles \in Nat
    BY <1>1, ListNodes DEF Follows
  <1>4. c = IF hits = {} THEN Null ELSE s[CHOOSE k \in hits : \A j \in hits : k <= j]
    BY <1>1, <1>2, <1>3 DEF ramfs_find_child
  <1>5. Children(f, p) = {s[k] : k \in 0 .. MaxFiles} \ {Null}
    BY <1>1 DEF Children
  <1>6. CASE hits # {}
    <2>1. \E k \in hits : \A j \in hits : k =< j
      BY <1>2, <1>3, <1>6, Least
    <2>2. PICK k \in hits : c = s[k]
      <3>1. (CHOOSE k \in hits : \A j \in hits : k <= j) \in hits
        BY <2>1
      <3>2. QED
        BY <1>4, <1>6, <3>1
    <2>3. c \in Children(f, p) /\ f.name[c] = name /\ c # Null
      BY <1>2, <1>5, <2>2
    <2>4. c \in Nodes /\ f.parent[c] = p
      BY <2>3, ChildrenOf
    <2>5. QED
      BY <2>3, <2>4 DEF Pointer
  <1>7. CASE hits = {}
    <2>1. \A x \in Children(f, p) : f.name[x] # name
      BY <1>2, <1>5, <1>7
    <2>2. p \notin Freed(f) => \A x \in Nodes : f.parent[x] = p => x \in Children(f, p)
      BY ChildrenOf
    <2>3. QED
      BY <1>4, <1>7, <2>1, <2>2 DEF Pointer
  <1>8. QED
    BY <1>6, <1>7

-----------------------------------------------------------------------------
(* The tree. *)

\* A node the walk can reach.
Placed(f, n) == n \in Nodes /\ (n = Root \/ f.parent[n] # Null)

LEMMA PlacedUsed ==
  ASSUME NEW f, Tree(f), NEW n, Placed(f, n)
  PROVE  n =< f.count /\ n \notin Freed(f) /\ f.count \in Nat
  <1>1. f.count \in 2 .. MaxFiles /\ n \in Nat /\ n \in Nodes
    BY NullIsNoNode DEF Tree, Images, Placed
  <1>2. n =< f.count
    <2>1. CASE n = Root
      BY <1>1, <2>1 DEF Root
    <2>2. CASE f.parent[n] # Null
      BY <1>1, <2>2 DEF Tree, Parents
    <2>3. QED
      BY <2>1, <2>2 DEF Placed
  <1>3. n \notin Freed(f)
    BY DEF Placed, Freed, Root
  <1>4. QED
    BY <1>1, <1>2, <1>3

\* The files of g are those of f and no others: the pool is untouched.
SamePool(f, g) ==
  g.used = f.used /\ g.data = f.data /\ g.size = f.size /\ g.max_files = f.max_files

LEMMA NewNodeTree ==
  ASSUME NEW f, Tree(f), CanAlloc(f), NEW name \in Names, NEW dir \in BOOLEAN,
         NEW p, Placed(f, p), NEW g, g = NewNode(f, name, dir, p),
         p = Root \/ \A x \in Nodes : f.parent[x] = p => f.name[x] # name
  PROVE  /\ Tree(g) /\ SamePool(f, g) /\ g.count = f.count + 1
         /\ Placed(g, g.count) /\ g.name[g.count] = name
  <1>0. /\ f \in Images /\ Lists(f, Nodes) /\ Parents(f) /\ Siblings(f)
        /\ f.count \in 2 .. MaxFiles /\ f.max_files \in 2 .. MaxFiles
    BY DEF Tree, Images
  <1>1. PICK c : c = f.count + 1
    OBVIOUS
  <1>2. /\ c \in Nodes /\ c \in 2 .. MaxFiles /\ c > f.count /\ p \in Nodes /\ p =< f.count
        /\ p # c /\ c # Root /\ p \notin Freed(f) /\ f.count \in Nat /\ c \in Nat /\ p \in Nat
    BY <1>0, <1>1, PlacedUsed, RamfsAssumption DEF CanAlloc, Nodes, Placed, Root
  <1>3. PICK h : h = [f EXCEPT !.count = c, !.name[c] = name, !.dir[c] = dir]
    OBVIOUS
  <1>4. /\ h \in Images /\ h.count = c
        /\ h.name = [f.name EXCEPT ![c] = name]
        /\ h.parent = f.parent /\ h.children = f.children /\ h.next = f.next /\ h.prev = f.prev
        /\ h.used = f.used /\ h.data = f.data /\ h.size = f.size /\ h.max_files = f.max_files
    BY <1>0, <1>2, <1>3 DEF Images
  <1>5. g = Link(h, c, p)
    BY <1>1, <1>3 DEF NewNode
  <1>6. /\ f.parent[c] = Null /\ f.children[c] = Null /\ f.next[c] = Null /\ f.prev[c] = Null
        /\ \A x \in Nodes :
             /\ f.parent[x] # c /\ f.next[x] # c /\ f.prev[x] # c /\ f.children[x] # c
             /\ f.parent[x] =< f.count
    <2>1. f.parent[c] = Null /\ f.children[c] = Null
      BY <1>0, <1>2 DEF Parents
    <2>2. f.next[c] = Null /\ f.prev[c] = Null
      BY <1>0, <1>2, <2>1 DEF Lists
    <2>3. ASSUME NEW x \in Nodes PROVE f.parent[x] # c /\ f.parent[x] =< f.count
      <3>1. f.parent[x] =< f.count /\ f.parent[x] \in Nat
        BY <1>0, PointersAreNumbers DEF Parents
      <3>2. QED
        BY <1>2, <3>1
    <2>4. ASSUME NEW x \in Nodes PROVE f.next[x] # c /\ f.prev[x] # c /\ f.children[x] # c
      BY <1>0, <1>2, <2>1, <2>2, NullIsNoNode DEF Lists
    <2>5. QED
      BY <2>1, <2>2, <2>3, <2>4
  <1>7. \A m : m \in Freed(h) <=> m \in Freed(f) \/ m = c
    <2>1. \A m : m \in 2 .. c <=> m \in 2 .. f.count \/ m = c
      BY <1>0, <1>1, <1>2
    <2>2. QED
      BY <1>4, <1>6, <2>1 DEF Freed
  <1>8. Lists(h, Nodes \ {c})
    <2>1. Ranked(h.next, Nodes \ {c})
      BY <1>0, <1>4 DEF Lists, Ranked
    <2>2. QED
      BY <1>0, <1>4, <1>6, <1>7, <2>1 DEF Lists
  <1>9. Lists(g, Nodes)
    BY <1>2, <1>4, <1>5, <1>6, <1>8, LinkLists
  <1>10. /\ g \in Images /\ FirstChild(h, g, c, p) /\ g.name = h.name /\ g.count = c
         /\ SamePool(f, g)
    BY <1>2, <1>4, <1>5, LinkFields DEF SameFiles, SamePool
  <1>11. \A x \in Nodes :
           /\ g.parent[x] = IF x = c THEN p ELSE f.parent[x]
           /\ g.children[x] = IF x = p THEN c ELSE f.children[x]
           /\ g.name[x] = IF x = c THEN name ELSE f.name[x]
    <2>1. \A x \in Nodes :
            /\ g.parent[x] = IF x = c THEN p ELSE h.parent[x]
            /\ g.children[x] = IF x = p THEN c ELSE h.children[x]
      BY <1>10 DEF FirstChild
    <2>2. \A x \in Nodes : g.name[x] = IF x = c THEN name ELSE f.name[x]
      BY <1>0, <1>2, <1>4, <1>10 DEF Images
    <2>3. QED
      BY <1>4, <2>1, <2>2
  <1>12. \A m : m \in Freed(g) <=> m \in Freed(f)
    <2>1. \A m : m \in 2 .. c <=> m \in 2 .. f.count \/ m = c
      BY <1>0, <1>1, <1>2
    <2>2. \A m \in 2 .. f.count : m \in Nodes /\ m # c
      BY <1>0, <1>2, RamfsAssumption DEF Nodes
    <2>3. g.parent[c] # Null
      BY <1>2, <1>11, NullIsNoNode
    <2>4. QED
      BY <1>10, <1>11, <2>1, <2>2, <2>3 DEF Freed
  <1>13. Parents(g)
    <2>1. g.parent[Root] = Null
      BY <1>0, <1>2, <1>11, NullIsNoNode DEF Parents
    <2>2. ASSUME NEW x \in Nodes PROVE g.parent[x] =< g.count /\ g.parent[x] # x
      <3>1. f.parent[x] \in Nat /\ f.parent[x] =< f.count /\ f.parent[x] # x
        BY <1>0, PointersAreNumbers DEF Parents
      <3>2. QED
        BY <1>2, <1>10, <1>11, <3>1, NullIsNoNode
    <2>3. ASSUME NEW x \in Nodes, x > g.count PROVE g.parent[x] = Null /\ g.children[x] = Null
      <3>1. x > f.count /\ x # c /\ x # p
        BY <1>2, <1>10, <2>3, NullIsNoNode
      <3>2. QED
        BY <1>0, <1>11, <3>1 DEF Parents
    <2>4. \A m \in Freed(g) : g.children[m] = Null
      BY <1>0, <1>2, <1>11, <1>12, FreedAreNodes DEF Parents
    <2>5. QED
      BY <2>1, <2>2, <2>3, <2>4 DEF Parents
  <1>14. Siblings(g)
    <2>1. SUFFICES ASSUME NEW x \in Nodes, NEW y \in Nodes, x # y, g.parent[x] = g.parent[y],
                          g.parent[x] \notin {Null, Root} \union Freed(g)
                   PROVE  g.name[x] # g.name[y]
      BY DEF Siblings
    <2>2. CASE x # c /\ y # c
      BY <1>0, <1>11, <1>12, <2>1, <2>2 DEF Siblings
    <2>3. CASE x = c
      BY <1>11, <2>1, <2>3
    <2>4. CASE y = c
      BY <1>11, <2>1, <2>4
    <2>5. QED
      BY <2>2, <2>3, <2>4
  <1>15. Placed(g, c) /\ g.name[c] = name
    BY <1>2, <1>11, NullIsNoNode DEF Placed
  <1>16. QED
    BY <1>1, <1>9, <1>10, <1>13, <1>14, <1>15 DEF Tree

\* Freeing a node that is found, or the root when it has no children.
LEMMA FreeTree ==
  ASSUME NEW f, Tree(f), NEW n, Placed(f, n), n = Root => f.children[n] = Null,
         NEW g, g = ramfs_free_node(f, n)
  PROVE  /\ Tree(g) /\ g.count = f.count /\ g.name = f.name
         /\ \A x \in Nodes : g.parent[x] = IF x = n THEN Null ELSE f.parent[x]
         /\ \A x : x \in Freed(g) <=> x \in Freed(f) \/ (x = n /\ n # Root)
  <1>0. /\ f \in Images /\ Lists(f, Nodes) /\ Parents(f) /\ Siblings(f)
        /\ n \in Nodes /\ n =< f.count /\ n \notin Freed(f)
    BY PlacedUsed DEF Tree, Placed
  <1>1. PICK u : u = Unlink(f, n)
    OBVIOUS
  <1>2. /\ u.parent = f.parent
        /\ \A x \in Nodes : u.children[x] = IF x = f.parent[n] /\ f.children[x] = n THEN f.next[n]
                                                                               ELSE f.children[x]
    BY <1>0, <1>1, UnlinkFields
  <1>3. /\ g \in Images /\ SameFiles(f, g) /\ g.name = f.name
        /\ \A x \in Nodes : x # n => g.parent[x] = u.parent[x] /\ g.children[x] = u.children[x]
        /\ g.parent[n] = Null /\ g.children[n] = Null
    BY <1>0, <1>1, FreeFields
  <1>4. g.count = f.count /\ f.count \in 2 .. MaxFiles /\ MaxFiles \in Nat
    BY <1>0, <1>3, RamfsAssumption DEF SameFiles, Images
  <1>5. \A x \in Nodes : g.parent[x] = IF x = n THEN Null ELSE f.parent[x]
    BY <1>2, <1>3
  <1>6. ASSUME n = Root PROVE \A x \in Nodes : f.parent[x] # n
    <2>1. Root \notin Freed(f) /\ f.children[Root] = Null
      BY <1>0, <1>6
    <2>2. Children(f, Root) = {}
      BY <1>0, <2>1, NullIsNoNode, ChildrenOf
    <2>3. QED
      BY <1>0, <1>6, <2>1, <2>2, NullIsNoNode, ChildrenOf
  <1>7. n # Root => n \in 2 .. f.count
    BY <1>0, <1>4 DEF Nodes, Root
  <1>8. Lists(g, Nodes)
    BY <1>0, <1>6, <1>7, FreeLists
  <1>9. \A x : x \in Freed(g) <=> x \in Freed(f) \/ (x = n /\ n # Root)
    <2>1. \A x \in 2 .. f.count : x \in Nodes /\ x # Root
      BY <1>4 DEF Nodes, Root
    <2>2. QED
      BY <1>4, <1>5, <1>7, <2>1 DEF Freed
  <1>10. Parents(g)
    <2>1. g.parent[Root] = Null
      BY <1>0, <1>5, NullIsNoNode DEF Parents
    <2>2. ASSUME NEW x \in Nodes PROVE g.parent[x] =< g.count /\ g.parent[x] # x
      <3>1. f.parent[x] \in Nat /\ f.parent[x] =< f.count /\ f.parent[x] # x
        BY <1>0, PointersAreNumbers DEF Parents
      <3>2. Null =< f.count
        BY <1>4 DEF Null
      <3>3. QED
        BY <1>4, <1>5, <3>1, <3>2, NullIsNoNode
    <2>3. ASSUME NEW x \in Nodes, x > g.count PROVE g.parent[x] = Null /\ g.children[x] = Null
      <3>1. f.parent[x] = Null /\ f.children[x] = Null
        BY <1>0, <1>4, <2>3 DEF Parents
      <3>2. QED
        BY <1>0, <1>2, <1>3, <1>5, <3>1, NullIsNoNode
    <2>4. ASSUME NEW m \in Freed(g) PROVE g.children[m] = Null
      <3>1. m \in Nodes
        BY <1>3, <2>4, FreedAreNodes
      <3>2. CASE m = n
        BY <1>3, <3>2
      <3>3. CASE m \in Freed(f) /\ m # n
        <4>1. f.children[m] = Null
          BY <1>0, <3>3 DEF Parents
        <4>2. QED
          BY <1>0, <1>2, <1>3, <3>1, <3>3, <4>1, NullIsNoNode
      <3>4. QED
        BY <1>9, <2>4, <3>2, <3>3
    <2>5. QED
      BY <2>1, <2>2, <2>3, <2>4 DEF Parents
  <1>11. Siblings(g)
    BY <1>0, <1>3, <1>5, <1>9, NullIsNoNode DEF Siblings
  <1>12. QED
    BY <1>3, <1>4, <1>5, <1>8, <1>9, <1>10, <1>11 DEF Tree

\* Moving a node that is found, under a name none of the new siblings has.
LEMMA MoveTree ==
  ASSUME NEW f, Tree(f), NEW n, Placed(f, n), n # Root, NEW p, Placed(f, p), p # n,
         NEW name \in Names, NEW g,
         g = Link([Unlink(f, n) EXCEPT !.name[n] = name], n, p),
         p = Root \/ \A x \in Nodes : x # n /\ f.parent[x] = p => f.name[x] # name
  PROVE  /\ Tree(g) /\ SamePool(f, g)
  <1>0. /\ f \in Images /\ Lists(f, Nodes) /\ Parents(f) /\ Siblings(f)
        /\ n \in Nodes /\ n =< f.count /\ n \notin Freed(f)
        /\ p \in Nodes /\ p =< f.count /\ p \notin Freed(f)
        /\ f.count \in 2 .. MaxFiles /\ f.count \in Nat
    BY PlacedUsed DEF Tree, Placed, Images
  <1>1. PICK u : u = Unlink(f, n)
    OBVIOUS
  <1>2. /\ u \in Images /\ SameFiles(f, u) /\ u.name = f.name /\ u.parent = f.parent
        /\ u.used = f.used /\ u.data = f.data
        /\ \A x \in Nodes : u.children[x] = IF x = f.parent[n] /\ f.children[x] = n THEN f.next[n]
                                                                               ELSE f.children[x]
    BY <1>0, <1>1, UnlinkFields
  <1>3. Lists(u, Nodes \ {n})
    BY <1>0, <1>1, UnlinkLists
  <1>4. PICK h : h = [u EXCEPT !.name[n] = name]
    OBVIOUS
  <1>5. /\ h \in Images /\ h.count = f.count /\ h.parent = f.parent /\ h.children = u.children
        /\ h.next = u.next /\ h.prev = u.prev /\ h.used = f.used /\ h.data = f.data
        /\ h.size = f.size /\ h.max_files = f.max_files
        /\ \A x \in Nodes : h.name[x] = IF x = n THEN name ELSE f.name[x]
    BY <1>0, <1>2, <1>4 DEF Images, SameFiles
  <1>6. Freed(h) = Freed(f) /\ Freed(h) = Freed(u)
    BY <1>2, <1>5 DEF Freed, SameFiles
  <1>7. Lists(h, Nodes \ {n})
    BY <1>2, <1>3, <1>5, <1>6 DEF Lists
  <1>8. g = Link(h, n, p)
    BY <1>1, <1>4
  <1>9. Lists(g, Nodes)
    BY <1>0, <1>5, <1>6, <1>7, <1>8, LinkLists
  <1>10. /\ g \in Images /\ FirstChild(h, g, n, p) /\ g.name = h.name /\ g.count = f.count
         /\ SamePool(f, g)
    BY <1>0, <1>5, <1>8, LinkFields DEF SameFiles, SamePool
  <1>11. \A x \in Nodes :
           /\ g.parent[x] = IF x = n THEN p ELSE f.parent[x]
           /\ g.children[x] = IF x = p THEN n ELSE u.children[x]
           /\ g.name[x] = IF x = n THEN name ELSE f.name[x]
    <2>1. \A x \in Nodes :
            /\ g.parent[x] = IF x = n THEN p ELSE h.parent[x]
            /\ g.children[x] = IF x = p THEN n ELSE h.children[x]
      BY <1>10 DEF FirstChild
    <2>2. QED
      BY <1>5, <1>10, <2>1
  <1>12. \A m : m \in Freed(g) <=> m \in Freed(f)
    <2>1. f.parent[n] # Null /\ g.parent[n] # Null
      BY <1>0, <1>11, NullIsNoNode DEF Placed
    <2>2. \A m \in 2 .. f.count : m \in Nodes
      BY <1>0, RamfsAssumption DEF Nodes
    <2>3. QED
      BY <1>10, <1>11, <2>1, <2>2 DEF Freed
  <1>13. Parents(g)
    <2>1. g.parent[Root] = Null
      BY <1>0, <1>11, NullIsNoNode DEF Parents
    <2>2. \A x \in Nodes : g.parent[x] =< g.count /\ g.parent[x] # x
      BY <1>0, <1>10, <1>11 DEF Parents
    <2>3. ASSUME NEW x \in Nodes, x > g.count PROVE g.parent[x] = Null /\ g.children[x] = Null
      <3>1. /\ f.parent[x] = Null /\ f.children[x] = Null /\ x # n /\ x # p
        BY <1>0, <1>10, <2>3, NullIsNoNode DEF Parents
      <3>2. QED
        BY <1>0, <1>2, <1>11, <3>1, NullIsNoNode
    <2>4. ASSUME NEW m \in Freed(g) PROVE g.children[m] = Null
      <3>1. m \in Nodes /\ m \in Freed(f) /\ m # p
        BY <1>0, <1>10, <1>12, <2>4, FreedAreNodes
      <3>2. f.children[m] = Null
        BY <1>0, <3>1 DEF Parents
      <3>3. QED
        BY <1>0, <1>2, <1>11, <3>1, <3>2, NullIsNoNode
    <2>5. QED
      BY <2>1, <2>2, <2>3, <2>4 DEF Parents
  <1>14. Siblings(g)
    <2>1. SUFFICES ASSUME NEW x \in Nodes, NEW y \in Nodes, x # y, g.parent[x] = g.parent[y],
                          g.parent[x] \notin {Null, Root} \union Freed(g)
                   PROVE  g.name[x] # g.name[y]
      BY DEF Siblings
    <2>2. CASE x # n /\ y # n
      BY <1>0, <1>11, <1>12, <2>1, <2>2 DEF Siblings
    <2>3. CASE x = n
      BY <1>11, <2>1, <2>3
    <2>4. CASE y = n
      BY <1>11, <2>1, <2>4
    <2>5. QED
      BY <2>2, <2>3, <2>4
  <1>15. QED
    BY <1>9, <1>10, <1>13, <1>14 DEF Tree

-----------------------------------------------------------------------------
(* The walk along a path. *)

\* Where a walk from f may be: in a tree, at a node of it, with the pool of f.
Reached(f, make, a) ==
  /\ a = [fs |-> a.fs, at |-> a.at]
  /\ Tree(a.fs) /\ (a.at = Null \/ Placed(a.fs, a.at)) /\ a.at \in Pointer
  /\ SamePool(f, a.fs) /\ (make = "none" => a.fs = f)

\* The node has the name it was reached by.
Named(a, name) == a.at # Null => a.fs.name[a.at] = name /\ a.at # Root

LEMMA PlacedRoot ==
  ASSUME NEW f, Tree(f)
  PROVE  Placed(f, Root) /\ Root \notin Freed(f)
  BY NullIsNoNode, PlacedUsed DEF Placed

LEMMA DescendReached ==
  ASSUME NEW f, NEW make, NEW a, Reached(f, make, a), NEW name \in Names,
         NEW b, b = Descend(a, name, make)
  PROVE  Reached(f, make, b) /\ Named(b, name)
  <1>0. /\ a = [fs |-> a.fs, at |-> a.at] /\ Tree(a.fs) /\ SamePool(f, a.fs)
        /\ (make = "none" => a.fs = f) /\ a.fs \in Images /\ Lists(a.fs, Nodes) /\ Parents(a.fs)
    BY DEF Reached, Tree
  <1>1. PICK child : child = ramfs_find_child(a.fs, a.at, name)
    OBVIOUS
  <1>2. CASE a.at = Null
    BY <1>2 DEF Descend, Named
  <1>3. CASE a.at # Null
    <2>0. Placed(a.fs, a.at) /\ a.at \in Nodes /\ a.at \notin Freed(a.fs)
      BY <1>0, <1>3, PlacedUsed DEF Reached, Placed
    <2>1. /\ child # Null => /\ child \in Nodes /\ a.fs.parent[child] = a.at
                             /\ a.fs.name[child] = name
          /\ child = Null => \A x \in Nodes : a.fs.parent[x] = a.at => a.fs.name[x] # name
          /\ child \in Pointer
      BY <1>0, <1>1, <2>0, FindChild
    <2>2. CASE child # Null
      <3>1. b = [fs |-> a.fs, at |-> child]
        BY <1>0, <1>1, <1>3, <2>2 DEF Descend
      <3>2. Placed(a.fs, child) /\ child # Root
        BY <1>0, <2>0, <2>1, <2>2, NullIsNoNode DEF Placed, Parents
      <3>3. QED
        BY <1>0, <2>1, <2>2, <3>1, <3>2 DEF Reached, Named
    <2>3. CASE child = Null /\ (make = "none" \/ ~CanAlloc(a.fs))
      <3>1. b = [fs |-> a.fs, at |-> Null]
        BY <1>0, <1>1, <1>3, <2>3 DEF Descend
      <3>2. QED
        BY <1>0, <3>1 DEF Reached, Named, Pointer
    <2>4. CASE child = Null /\ make # "none" /\ CanAlloc(a.fs)
      <3>1. PICK p : p = IF make = "dir" THEN a.at ELSE Root
        OBVIOUS
      <3>2. PICK d \in BOOLEAN : d = (make = "dir")
        OBVIOUS
      <3>g. PICK g : g = NewNode(a.fs, name, d, p)
        OBVIOUS
      <3>3. b = [fs |-> g, at |-> a.fs.count + 1]
        BY <1>1, <1>3, <2>4, <3>1, <3>2, <3>g DEF Descend
      <3>4. /\ Tree(a.fs) /\ CanAlloc(a.fs) /\ Placed(a.fs, p)
            /\ p = Root \/ \A x \in Nodes : a.fs.parent[x] = p => a.fs.name[x] # name
        BY <1>0, <2>0, <2>1, <2>4, <3>1, PlacedRoot
      <3>5. /\ Tree(g) /\ SamePool(a.fs, g) /\ g.count = a.fs.count + 1
            /\ Placed(g, g.count) /\ g.name[g.count] = name
        BY <3>g, <3>4, NewNodeTree
      <3>6. g.count # Root /\ g.count \in Pointer
        BY <3>5 DEF Tree, Images, Root, Placed, Pointer
      <3>7. SamePool(f, g)
        BY <1>0, <3>5 DEF SamePool
      <3>8. QED
        BY <2>4, <3>3, <3>5, <3>6, <3>7 DEF Reached, Named
    <2>5. QED
      BY <2>2, <2>3, <2>4
  <1>4. QED
    BY <1>2, <1>3

IsWalk(w, f, path, make, n) ==
  w = [k \in 0 .. n |-> IF k = 0 THEN [fs |-> f, at |-> Root] ELSE Descend(w[k - 1], path[k], make)]

LEMMA WalkExists ==
  ASSUME NEW f, NEW path, NEW make, NEW n \in Nat
  PROVE  \E w : IsWalk(w, f, path, make, n)
  <1>1. PICK T : T = {k \in Nat : \E w : IsWalk(w, f, path, make, k)}
    OBVIOUS
  <1>2. 0 \in T
    <2>1. IsWalk([k \in 0 .. 0 |-> [fs |-> f, at |-> Root]], f, path, make, 0)
      BY DEF IsWalk
    <2>2. QED
      BY <1>1, <2>1
  <1>3. ASSUME NEW k \in Nat, k < n, k \in T PROVE k + 1 \in T
    <2>1. PICK w : IsWalk(w, f, path, make, k)
      BY <1>1, <1>3
    <2>2. PICK x : x = Descend(w[k], path[k + 1], make)
      OBVIOUS
    <2>3. PICK t : t = [i \in 0 .. k + 1 |-> IF i = k + 1 THEN x ELSE w[i]]
      OBVIOUS
    <2>4. \A i \in 0 .. k : w[i] = IF i = 0 THEN [fs |-> f, at |-> Root]
                                   ELSE Descend(w[i - 1], path[i], make)
      BY <2>1 DEF IsWalk
    <2>5. ASSUME NEW i \in 0 .. k + 1
          PROVE  t[i] = IF i = 0 THEN [fs |-> f, at |-> Root] ELSE Descend(t[i - 1], path[i], make)
      <3>1. CASE i = 0
        BY <2>3, <2>4, <3>1
      <3>2. CASE i # 0 /\ i # k + 1
        <4>1. i \in 0 .. k /\ i - 1 \in 0 .. k + 1 /\ i - 1 # k + 1
          BY <3>2
        <4>2. t[i] = w[i] /\ t[i - 1] = w[i - 1]
          BY <2>3, <3>2, <4>1
        <4>3. QED
          BY <2>4, <3>2, <4>1, <4>2
      <3>3. CASE i = k + 1
        <4>1. t[k] = w[k] /\ t[k + 1] = x /\ i - 1 = k /\ i # 0
          BY <2>3, <3>3
        <4>2. QED
          BY <2>2, <3>3, <4>1
      <3>4. QED
        BY <3>1, <3>2, <3>3
    <2>6. t = [i \in 0 .. k + 1 |-> t[i]]
      BY <2>3
    <2>7. IsWalk(t, f, path, make, k + 1)
      BY <2>5, <2>6 DEF IsWalk
    <2>8. QED
      BY <1>1, <2>7
  <1>4. n \in T
    BY <1>2, <1>3, UpTo
  <1>5. QED
    BY <1>1, <1>4

LEMMA WalkReached ==
  ASSUME NEW f, Tree(f), NEW path \in Seq(Names), NEW make, NEW a, a = Walk(f, path, make)
  PROVE  /\ Reached(f, make, a)
         /\ path # <<>> => Named(a, Last(path))
  <1>0. PICK n \in Nat : n = Len(path) /\ \A k \in 1 .. n : path[k] \in Names
    BY LenProperties, ElementOfSeq
  <1>1. PICK w : w = CHOOSE q : IsWalk(q, f, path, make, Len(path))
    OBVIOUS
  <1>2. a = w[Len(path)]
    BY <1>1, Zenon DEF Walk, IsWalk
  <1>3. IsWalk(w, f, path, make, n)
    <2>1. \E q : IsWalk(q, f, path, make, Len(path))
      BY <1>0, WalkExists
    <2>2. IsWalk(w, f, path, make, Len(path))
      BY <1>1, <2>1, Zenon
    <2>3. QED
      BY <1>0, <2>2
  <1>4. \A k \in 0 .. n : w[k] = IF k = 0 THEN [fs |-> f, at |-> Root]
                                 ELSE Descend(w[k - 1], path[k], make)
    BY <1>3 DEF IsWalk
  <1>5. PICK T : T = {k \in 0 .. n : Reached(f, make, w[k])}
    OBVIOUS
  <1>6. 0 \in T
    <2>1. w[0] = [fs |-> f, at |-> Root]
      BY <1>0, <1>4
    <2>2. Reached(f, make, w[0])
      BY <2>1, PlacedRoot, NullIsNoNode DEF Reached, SamePool, Pointer
    <2>3. QED
      BY <1>0, <1>5, <2>2
  <1>7. ASSUME NEW k \in Nat, k < n, Reached(f, make, w[k])
        PROVE  Reached(f, make, w[k + 1]) /\ Named(w[k + 1], path[k + 1])
    <2>1. PICK j : j = k + 1 /\ j - 1 = k /\ j \in 0 .. n /\ j # 0 /\ j \in 1 .. n
      BY <1>0, <1>7
    <2>2. w[j] = Descend(w[k], path[j], make) /\ path[j] \in Names
      BY <1>0, <1>4, <2>1
    <2>3. QED
      BY <1>7, <2>1, <2>2, DescendReached
  <1>8. \A k \in Nat : k < n /\ k \in T => k + 1 \in T
    BY <1>0, <1>5, <1>7
  <1>9. \A k \in 0 .. n : Reached(f, make, w[k])
    BY <1>5, <1>6, <1>8, UpTo
  <1>10. Reached(f, make, a)
    BY <1>0, <1>2, <1>9
  <1>11. ASSUME path # <<>> PROVE Named(a, Last(path))
    <2>1. PICK k \in Nat : k < n /\ k + 1 = n /\ k \in 0 .. n
      BY <1>0, <1>11, EmptySeq
    <2>2. Named(w[n], path[n])
      BY <1>7, <1>9, <2>1
    <2>3. QED
      BY <1>0, <1>2, <2>2 DEF Last
  <1>12. QED
    BY <1>10, <1>11

LEMMA PathSequences ==
  /\ \A p \in Paths : p \in Seq(Names) /\ p # <<>> /\ Last(p) \in Names /\ Front(p) \in Seq(Names)
  /\ <<>> \in Seq(Names)
  <1>1. ASSUME NEW p \in Paths
        PROVE  p \in Seq(Names) /\ p # <<>> /\ Last(p) \in Names /\ Front(p) \in Seq(Names)
    <2>1. PICK k \in Nat \ {0} : p \in [1 .. k -> Names]
      BY <1>1, RamfsAssumption DEF Paths
    <2>2. p \in Seq(Names) /\ Len(p) \in Nat
      BY <2>1, SeqDef, LenProperties
    <2>3. p # <<>>
      <3>1. 1 \in DOMAIN p
        BY <2>1
      <3>2. QED
        BY <2>2, <3>1, EmptySeq, LenProperties
    <2>4. Len(p) \in 1 .. Len(p) /\ \A i \in 1 .. Len(p) : p[i] \in Names
      BY <2>2, <2>3, EmptySeq, ElementOfSeq
    <2>5. Front(p) \in Seq(Names)
      <3>1. 1 \in Int /\ Len(p) - 1 \in Int /\ \A i \in 1 .. Len(p) - 1 : p[i] \in Names
        BY <2>2, <2>4
      <3>2. QED
        BY <3>1, SubSeqProperties DEF Front
    <2>6. QED
      BY <2>2, <2>3, <2>4, <2>5 DEF Last
  <1>2. QED
    BY <1>1

LEMMA CopiedNames ==
  ASSUME NEW path \in Paths \cup {<<>>}, NEW base \in Copied(path)
  PROVE  path \in Seq(Names) /\ base \in Names
  BY PathSequences DEF Copied

-----------------------------------------------------------------------------
(* The operations on the tree. *)

\* The inductive invariant.
TreeInv == Tree(fs) /\ file \in [Handles -> Pointer] /\ plain \in BOOLEAN

\* What every operation but the writes does: the tree stays a tree, and the
\* pool is as it was, unless the history says that it is not.
Kept(f, g, wasPlain, isPlain) == Tree(g) /\ (isPlain => wasPlain /\ SamePool(f, g))

LEMMA FreePool ==
  ASSUME NEW f \in Images, NEW n \in Nodes, f.data[n] = NoData, NEW g, g = ramfs_free_node(f, n)
  PROVE  SamePool(f, g)
  <1>1. PICK u : u = Unlink(f, n)
    OBVIOUS
  <1>2. /\ g \in Images /\ SameFiles(f, g) /\ g.used = f.used
        /\ \A x \in Nodes : x # n => g.data[x] = f.data[x]
        /\ g.data[n] = NoData
    BY <1>1, FreeFields
  <1>3. g.data = f.data
    BY <1>2 DEF Images
  <1>4. QED
    BY <1>2, <1>3 DEF SamePool, SameFiles

LEMMA InitTree ==
  ASSUME RamfsInit
  PROVE  TreeInv
  <1>1. PICK l \in Limits :
          fs = [count |-> 2, max_files |-> l[1], used |-> 0, stores |-> l[2],
                name |-> [n \in Nodes |-> Bin], dir |-> [n \in Nodes |-> n <= 2],
                parent |-> [n \in Nodes |-> IF n = 2 THEN Root ELSE Null],
                children |-> [n \in Nodes |-> IF n = Root THEN 2 ELSE Null],
                next |-> [n \in Nodes |-> Null], prev |-> [n \in Nodes |-> Null],
                size |-> [n \in Nodes |-> 0], data |-> [n \in Nodes |-> NoData]]
    BY DEF RamfsInit
  <1>2. /\ l[1] \in 2 .. MaxFiles /\ l[2] \in Nat /\ MaxFiles \in Nat /\ MaxFiles >= 2
        /\ Bin \in Names /\ Word > 0 /\ Word \in Nat /\ MaxCount \in Nat
        /\ 2 \in Nodes /\ Root \in Nodes /\ Null \notin Nodes /\ Root # 2
    BY RamfsAssumption DEF Nodes, Root, Null
  <1>3. fs \in Images
    <2>1. /\ [n \in Nodes |-> n <= 2] \in [Nodes -> BOOLEAN]
          /\ [n \in Nodes |-> IF n = 2 THEN Root ELSE Null] \in [Nodes -> Nodes \cup {Null}]
          /\ [n \in Nodes |-> IF n = Root THEN 2 ELSE Null] \in [Nodes -> Nodes \cup {Null}]
          /\ [n \in Nodes |-> Null] \in [Nodes -> Nodes \cup {Null}]
          /\ [n \in Nodes |-> 0] \in [Nodes -> 0 .. MaxCount]
          /\ [n \in Nodes |-> NoData] \in [Nodes -> {NoData} \cup 0 .. Word - 1]
          /\ [n \in Nodes |-> Bin] \in [Nodes -> Names]
      BY <1>2
    <2>2. 2 \in 2 .. MaxFiles /\ 0 \in 0 .. Word - 1
      BY <1>2
    <2>3. QED
      BY <1>1, <1>2, <2>1, <2>2 DEF Images
  <1>4. /\ fs.count = 2
        /\ \A n \in Nodes :
             /\ fs.parent[n] = IF n = 2 THEN Root ELSE Null
             /\ fs.children[n] = IF n = Root THEN 2 ELSE Null
             /\ fs.next[n] = Null /\ fs.prev[n] = Null
    BY <1>1
  <1>5. Freed(fs) = {}
    BY <1>2, <1>4 DEF Freed, Root, Null
  <1>6. Lists(fs, Nodes)
    <2>1. Ranked(fs.next, Nodes)
      <3>1. [n \in Nodes |-> 0] \in [Nodes -> Nat] /\ \A n \in Nodes : [m \in Nodes |-> 0][n] < 1
        OBVIOUS
      <3>2. \A n \in Nodes : fs.next[n] = Null
        BY <1>4
      <3>3. QED
        BY <3>1, <3>2 DEF Ranked
    <2>2. QED
      BY <1>2, <1>4, <1>5, <2>1 DEF Lists
  <1>7. Parents(fs)
    BY <1>2, <1>4, <1>5 DEF Parents, Nodes, Root, Null
  <1>8. Siblings(fs)
    BY <1>2, <1>4 DEF Siblings
  <1>9. file \in [Handles -> Pointer] /\ plain \in BOOLEAN
    BY DEF RamfsInit, Pointer
  <1>10. QED
    BY <1>3, <1>6, <1>7, <1>8, <1>9 DEF TreeInv, Tree

LEMMA OpenStep ==
  ASSUME TreeInv, NEW h \in Handles, NEW path \in Paths \cup {<<>>}, NEW creat \in BOOLEAN,
         ramfs_open(h, path, creat)
  PROVE  Kept(fs, fs', plain, plain') /\ file' \in [Handles -> Pointer] /\ plain' \in BOOLEAN
  <1>1. PICK make : make = IF creat THEN "file" ELSE "none"
    OBVIOUS
  <1>2. PICK w : w = Walk(fs, path, make)
    OBVIOUS
  <1>3. Reached(fs, make, w)
    <2>1. path \in Seq(Names) /\ Tree(fs)
      BY PathSequences DEF TreeInv
    <2>2. QED
      BY <1>2, <2>1, WalkReached
  <1>4. fs' = w.fs /\ file' = [file EXCEPT ![h] = w.at] /\ plain' = plain
    BY <1>1, <1>2 DEF ramfs_open
  <1>5. QED
    BY <1>3, <1>4 DEF Reached, Kept, TreeInv

LEMMA CloseStep ==
  ASSUME TreeInv, NEW h \in Handles, ramfs_close(h)
  PROVE  Kept(fs, fs', plain, plain') /\ file' \in [Handles -> Pointer] /\ plain' \in BOOLEAN
  BY DEF ramfs_close, TreeInv, Kept, SamePool, Pointer

LEMMA ReaddirStep ==
  ASSUME TreeInv, NEW h \in Handles, ramfs_readdir(h)
  PROVE  Kept(fs, fs', plain, plain') /\ file' \in [Handles -> Pointer] /\ plain' \in BOOLEAN
  <1>1. PICK n : n = file[h]
    OBVIOUS
  <1>2. PICK to : to = IF fs.children[n] # Null THEN fs.children[n] ELSE fs.next[n]
    OBVIOUS
  <1>3. n \in Nodes
    BY <1>1 DEF ramfs_readdir, TreeInv, Pointer
  <1>4. to \in Pointer
    BY <1>2, <1>3 DEF TreeInv, Tree, Images, Pointer
  <1>5. file' = [file EXCEPT ![h] = to] /\ fs' = fs /\ plain' = plain
    BY <1>1, <1>2 DEF ramfs_readdir
  <1>6. QED
    BY <1>4, <1>5 DEF TreeInv, Kept, SamePool

LEMMA MkdirStep ==
  ASSUME TreeInv, NEW path \in Paths \cup {<<>>}, ramfs_mkdir(path)
  PROVE  Kept(fs, fs', plain, plain') /\ file' \in [Handles -> Pointer] /\ plain' \in BOOLEAN
  <1>1. PICK w : w = Walk(fs, path, "dir")
    OBVIOUS
  <1>0. PICK name \in Copied(path) :
          fs' = IF /\ w.at # Null /\ w.fs.dir[w.at]
                   /\ ramfs_find_child(w.fs, w.at, name) = Null
                   /\ CanAlloc(w.fs)
                THEN NewNode(w.fs, name, TRUE, w.at) ELSE w.fs
    BY <1>1 DEF ramfs_mkdir
  <1>2. path \in Seq(Names) /\ name \in Names /\ Tree(fs)
    BY CopiedNames DEF TreeInv
  <1>3. Reached(fs, "dir", w)
    BY <1>1, <1>2, WalkReached
  <1>4. Tree(w.fs) /\ SamePool(fs, w.fs) /\ (w.at # Null => Placed(w.fs, w.at))
    BY <1>3 DEF Reached
  <1>5. file' = file /\ plain' = plain
    BY DEF ramfs_mkdir
  <1>6. Tree(fs') /\ SamePool(fs, fs')
    <2>0. PICK f, p, base : f = w.fs /\ p = w.at /\ base = name
      OBVIOUS
    <2>1. PICK child : child = ramfs_find_child(f, p, base)
      OBVIOUS
    <2>2. PICK g : g = NewNode(f, base, TRUE, p)
      OBVIOUS
    <2>3. CASE fs' = f
      BY <1>4, <2>0, <2>3
    <2>4. CASE fs' = g /\ p # Null /\ child = Null /\ CanAlloc(f)
      <3>1. p \in Nodes /\ p \notin Freed(f) /\ Placed(f, p) /\ Tree(f) /\ base \in Names
        BY <1>2, <1>4, <2>0, <2>4, PlacedUsed DEF Placed
      <3>2. f \in Images /\ Lists(f, Nodes)
        BY <3>1 DEF Tree
      <3>3. /\ child # Null => child \in Nodes /\ f.parent[child] = p /\ f.name[child] = base
            /\ child = Null => \A x \in Nodes : f.parent[x] = p => f.name[x] # base
        BY <2>1, <3>1, <3>2, FindChild
      <3>4. Tree(g) /\ SamePool(f, g)
        <4>1. PICK d \in BOOLEAN : d = TRUE
          OBVIOUS
        <4>2. g = NewNode(f, base, d, p) /\ CanAlloc(f)
          BY <2>2, <2>4, <4>1
        <4>3. QED
          BY <2>4, <3>1, <3>3, <4>2, NewNodeTree
      <3>5. QED
        BY <1>4, <2>0, <2>4, <3>4 DEF SamePool
    <2>5. QED
      BY <1>0, <2>0, <2>1, <2>2, <2>3, <2>4
  <1>7. QED
    BY <1>5, <1>6 DEF TreeInv, Kept

\* What Lookup finds.
LEMMA LookupPlaced ==
  ASSUME Tree(fs), NEW path \in Seq(Names), NEW n, n = Lookup(path)
  PROVE  /\ n \in Pointer /\ (n # Null => Placed(fs, n))
         /\ path # <<>> /\ n # Null => fs.name[n] = Last(path) /\ n # Root
  <1>1. PICK w : w = Walk(fs, path, "none")
    OBVIOUS
  <1>2. Reached(fs, "none", w) /\ (path # <<>> => Named(w, Last(path))) /\ n = w.at
    BY <1>1, WalkReached DEF Lookup
  <1>3. QED
    BY <1>2 DEF Reached, Named

\* ramfs_rmdir and ramfs_unlink.
LEMMA RemoveStep ==
  ASSUME TreeInv, NEW n, Placed(fs, n), n = Root => fs.children[n] = Null,
         fs' = ramfs_free_node(fs, n), plain' = (plain /\ fs.data[n] = NoData), file' = file
  PROVE  Kept(fs, fs', plain, plain') /\ file' \in [Handles -> Pointer] /\ plain' \in BOOLEAN
  <1>1. Tree(fs) /\ fs \in Images /\ n \in Nodes
    BY DEF TreeInv, Tree, Placed
  <1>2. Tree(fs')
    BY <1>1, FreeTree
  <1>3. fs.data[n] = NoData => SamePool(fs, fs')
    BY <1>1, FreePool
  <1>4. QED
    BY <1>2, <1>3 DEF TreeInv, Kept

LEMMA RmdirStep ==
  ASSUME TreeInv, NEW path \in Paths \cup {<<>>}, ramfs_rmdir(path)
  PROVE  Kept(fs, fs', plain, plain') /\ file' \in [Handles -> Pointer] /\ plain' \in BOOLEAN
  <1>1. PICK n : n = Lookup(path)
    OBVIOUS
  <1>2. /\ n # Null /\ fs.children[n] = Null
        /\ fs' = ramfs_free_node(fs, n) /\ plain' = (plain /\ fs.data[n] = NoData) /\ file' = file
    BY <1>1 DEF ramfs_rmdir
  <1>3. path \in Seq(Names) /\ Tree(fs)
    BY PathSequences DEF TreeInv
  <1>4. Placed(fs, n)
    BY <1>1, <1>2, <1>3, LookupPlaced
  <1>5. QED
    BY <1>2, <1>4, RemoveStep

LEMMA UnlinkStep ==
  ASSUME TreeInv, NEW path \in Paths, ramfs_unlink(path)
  PROVE  Kept(fs, fs', plain, plain') /\ file' \in [Handles -> Pointer] /\ plain' \in BOOLEAN
  <1>1. PICK n : n = Lookup(path)
    OBVIOUS
  <1>2. /\ n # Null /\ fs' = ramfs_free_node(fs, n)
        /\ plain' = (plain /\ fs.data[n] = NoData) /\ file' = file
    BY <1>1 DEF ramfs_unlink
  <1>3. path \in Seq(Names) /\ path # <<>> /\ Tree(fs)
    BY PathSequences DEF TreeInv
  <1>4. Placed(fs, n) /\ n # Root
    BY <1>1, <1>2, <1>3, LookupPlaced
  <1>5. QED
    BY <1>2, <1>4, RemoveStep

LEMMA RenameStep ==
  ASSUME TreeInv, NEW oldpath \in Paths, NEW newpath \in Paths \cup {<<>>},
         NEW base \in Copied(newpath), ramfs_rename(oldpath, newpath, base)
  PROVE  Kept(fs, fs', plain, plain') /\ file' \in [Handles -> Pointer] /\ plain' \in BOOLEAN
  <1>1. PICK old, parent : old = Lookup(oldpath) /\ parent = ramfs_resolve_parent(newpath)
    OBVIOUS
  <1>2. PICK existing : existing = ramfs_find_child(fs, parent, base)
    OBVIOUS
  <1>3. PICK f : f = Displace(fs, existing)
    OBVIOUS
  <1>4. /\ old # Null /\ parent # Null /\ parent # old
        /\ ~(Last(oldpath) = base /\ parent = fs.parent[old])
        /\ fs' = Link([Unlink(f, old) EXCEPT !.name[old] = base], old, parent)
        /\ plain' = (plain /\ (existing # Null => fs.data[existing] = NoData)) /\ file' = file
    BY <1>1, <1>2, <1>3 DEF ramfs_rename
  <1>5. /\ oldpath \in Seq(Names) /\ oldpath # <<>>
        /\ base \in Names /\ Tree(fs) /\ fs \in Images /\ Lists(fs, Nodes) /\ Parents(fs)
        /\ Siblings(fs)
    BY PathSequences, CopiedNames DEF TreeInv, Tree
  <1>6. Placed(fs, old) /\ fs.name[old] = Last(oldpath) /\ old # Root
    BY <1>1, <1>4, <1>5, LookupPlaced
  <1>7. Placed(fs, parent) /\ parent \in Nodes /\ parent \notin Freed(fs)
    <2>1. CASE newpath = <<>>
      <3>1. parent = Root
        BY <1>1, <2>1 DEF ramfs_resolve_parent
      <3>2. QED
        BY <1>5, <3>1, PlacedRoot, NullIsNoNode
    <2>2. CASE newpath # <<>>
      <3>1. parent = Lookup(Front(newpath)) /\ Front(newpath) \in Seq(Names)
        BY <1>1, <1>4, <2>2, PathSequences DEF ramfs_resolve_parent, Lookup
      <3>2. QED
        BY <1>4, <1>5, <3>1, LookupPlaced, PlacedUsed DEF Placed
    <2>3. QED
      BY <2>1, <2>2
  <1>8. /\ existing # Null => /\ existing \in Nodes /\ fs.parent[existing] = parent
                              /\ fs.name[existing] = base
        /\ existing = Null => \A x \in Nodes : fs.parent[x] = parent => fs.name[x] # base
    BY <1>2, <1>5, <1>7, FindChild
  <1>9. /\ Tree(f) /\ Placed(f, old) /\ Placed(f, parent)
        /\ parent = Root \/ \A x \in Nodes : x # old /\ f.parent[x] = parent => f.name[x] # base
        /\ (existing # Null => fs.data[existing] = NoData) => SamePool(fs, f)
    <2>1. CASE existing = Null
      <3>1. f = fs
        BY <1>3, <2>1 DEF Displace
      <3>2. QED
        BY <1>5, <1>6, <1>7, <1>8, <2>1, <3>1 DEF SamePool
    <2>2. CASE existing # Null
      <3>1. f = ramfs_free_node(fs, existing)
        BY <1>3, <2>2 DEF Displace
      <3>2. /\ existing \in Nodes /\ existing # Root /\ existing # parent /\ existing # old
            /\ fs.parent[existing] # Null
        BY <1>4, <1>5, <1>6, <1>7, <1>8, <2>2, NullIsNoNode DEF Parents
      <3>3. /\ Tree(f) /\ f.name = fs.name
            /\ \A x \in Nodes : f.parent[x] = IF x = existing THEN Null ELSE fs.parent[x]
        <4>1. Placed(fs, existing)
          BY <3>2 DEF Placed
        <4>2. QED
          BY <1>5, <3>1, <3>2, <4>1, FreeTree
      <3>4. Placed(f, old) /\ Placed(f, parent)
        BY <1>6, <1>7, <3>2, <3>3 DEF Placed
      <3>5. ASSUME parent # Root, NEW x \in Nodes, f.parent[x] = parent PROVE f.name[x] # base
        <4>1. x # existing /\ fs.parent[x] = parent
          BY <1>4, <3>3, <3>5
        <4>2. fs.name[x] # fs.name[existing]
          BY <1>4, <1>5, <1>7, <1>8, <2>2, <3>5, <4>1 DEF Siblings
        <4>3. QED
          BY <1>8, <2>2, <3>3, <4>2
      <3>6. fs.data[existing] = NoData => SamePool(fs, f)
        BY <1>5, <3>1, <3>2, FreePool
      <3>7. QED
        BY <2>2, <3>3, <3>4, <3>5, <3>6
    <2>3. QED
      BY <2>1, <2>2
  <1>10. Tree(fs') /\ SamePool(f, fs')
    <2>1. PICK g : g = fs'
      OBVIOUS
    <2>2. g = Link([Unlink(f, old) EXCEPT !.name[old] = base], old, parent)
      BY <1>4, <2>1
    <2>3. Tree(g) /\ SamePool(f, g)
      BY <1>4, <1>5, <1>6, <1>9, <2>2, MoveTree
    <2>4. QED
      BY <2>1, <2>3
  <1>11. (existing # Null => fs.data[existing] = NoData) => SamePool(fs, fs')
    BY <1>9, <1>10 DEF SamePool
  <1>12. QED
    BY <1>4, <1>10, <1>11 DEF TreeInv, Kept

-----------------------------------------------------------------------------
(* Writing. *)

\* The bytes of the pool that file n has.
Bytes(f, n) == IF f.data[n] = NoData THEN {} ELSE f.data[n] .. f.data[n] + f.size[n] - 1

\* No byte belongs to two files, and all are counted.
Disjoint(f) ==
  /\ \A n \in Nodes : Bytes(f, n) \subseteq 0 .. f.used - 1
  /\ \A n, m \in Nodes : n # m => Bytes(f, n) \cap Bytes(f, m) = {}
  /\ f.used =< MaxData

\* What a write leaves alone.
SameTree(f, g) ==
  /\ g.count = f.count /\ g.max_files = f.max_files /\ g.name = f.name /\ g.dir = f.dir
  /\ g.parent = f.parent /\ g.children = f.children /\ g.next = f.next /\ g.prev = f.prev

LEMMA WriteStep ==
  ASSUME TreeInv, NEW h \in Handles, NEW count \in 0 .. MaxCount,
         NEW offset \in 0 .. Word - 1, ramfs_write(h, count, offset)
  PROVE  /\ Tree(fs') /\ file' \in [Handles -> Pointer] /\ plain' \in BOOLEAN
         /\ MaxData + MaxCount < Word /\ (plain => Disjoint(fs)) => (plain' => Disjoint(fs'))
  <1>1. PICK n : n = file[h] /\ n \in Nodes
    BY DEF ramfs_write, TreeInv, Pointer
  <1>0. PICK e : e = End(offset, count) /\ e =< MaxCount
    BY DEF ramfs_write
  <1>2. PICK grows \in BOOLEAN : grows = (fs.data[n] = NoData \/ e > fs.size[n])
    OBVIOUS
  <1>3. PICK D, S, U, Z :
          /\ D = [fs.data EXCEPT ![n] = IF grows THEN fs.used ELSE @]
          /\ S = (IF grows THEN fs.stores - 1 ELSE fs.stores)
          /\ U = (IF grows THEN (fs.used + count) % Word ELSE fs.used)
          /\ Z = [fs.size EXCEPT ![n] = IF e > @ THEN e ELSE @]
    OBVIOUS
  <1>4. /\ file' = file
        /\ grows => (fs.used + count) % Word =< MaxData /\ fs.stores > 0
        /\ fs' = [fs EXCEPT !.data[n] = IF grows THEN fs.used ELSE @,
                            !.stores = IF grows THEN @ - 1 ELSE @,
                            !.used = IF grows THEN (fs.used + count) % Word ELSE @,
                            !.size[n] = IF e > @ THEN e ELSE @]
        /\ plain' = (plain /\ (grows => fs.size[n] = 0 /\ offset = 0))
    <2>1. Store(n, offset, count) /\ file' = file
      BY <1>1 DEF ramfs_write
    <2>2. Grows(n, offset, count) = grows
      BY <1>0, <1>2 DEF Grows
    <2>3. QED
      BY <1>0, <2>1, <2>2 DEF Store, Fits, Reserve
  <1>5. Tree(fs) /\ fs \in Images /\ count \in Nat /\ offset \in Nat
        /\ Word \in Nat /\ Word > 0 /\ MaxCount \in Nat /\ MaxData \in Nat /\ count =< MaxCount
        /\ e \in 0 .. MaxCount
    BY <1>0, RamfsAssumption DEF TreeInv, Tree, End
  <1>6. /\ fs.used \in 0 .. Word - 1 /\ fs.stores \in Nat /\ fs.size \in [Nodes -> 0 .. MaxCount]
        /\ fs.data \in [Nodes -> {NoData} \cup 0 .. Word - 1]
    BY <1>5 DEF Images
  <1>7. U \in 0 .. Word - 1
    BY <1>3, <1>5, <1>6
  <1>8. /\ S \in Nat /\ Z \in [Nodes -> 0 .. MaxCount]
        /\ D \in [Nodes -> {NoData} \cup 0 .. Word - 1]
    <2>1. S \in Nat
      BY <1>3, <1>4, <1>6
    <2>2. Z \in [Nodes -> 0 .. MaxCount]
      <3>1. PICK z : z = IF e > fs.size[n] THEN e ELSE fs.size[n]
        OBVIOUS
      <3>2. z \in 0 .. MaxCount
        BY <1>1, <1>5, <1>6, <3>1
      <3>3. Z = [fs.size EXCEPT ![n] = z]
        BY <1>3, <3>1
      <3>4. QED
        BY <1>6, <3>2, <3>3
    <2>3. D \in [Nodes -> {NoData} \cup 0 .. Word - 1]
      BY <1>3, <1>6
    <2>4. QED
      BY <2>1, <2>2, <2>3
  <1>9. fs' = [fs EXCEPT !.data = D, !.stores = S, !.used = U, !.size = Z]
    BY <1>3, <1>4, <1>5 DEF Images
  <1>10. /\ fs' \in Images /\ SameTree(fs, fs')
         /\ fs'.data = D /\ fs'.size = Z /\ fs'.used = U
    BY <1>5, <1>7, <1>8, <1>9 DEF Images, SameTree
  <1>11. Tree(fs')
    <2>1. PICK g : g = fs'
      OBVIOUS
    <2>2. SameTree(fs, g) /\ g \in Images
      BY <1>10, <2>1
    <2>3. Freed(g) = Freed(fs)
      BY <2>2 DEF Freed, SameTree
    <2>4. Lists(g, Nodes) /\ Parents(g) /\ Siblings(g)
      BY <1>5, <2>2, <2>3 DEF SameTree, Tree, Lists, Parents, Siblings
    <2>5. QED
      BY <2>1, <2>2, <2>4 DEF Tree
  <1>12. ASSUME MaxData + MaxCount < Word, plain => Disjoint(fs), plain' PROVE Disjoint(fs')
    <2>1. Disjoint(fs) /\ (grows => fs.size[n] = 0 /\ offset = 0)
      BY <1>4, <1>12
    <2>2. PICK g : g = fs' /\ g.data = D /\ g.size = Z /\ g.used = U
      BY <1>10
    <2>3. \A m \in Nodes : m # n => Bytes(g, m) = Bytes(fs, m)
      BY <1>3, <1>6, <2>2 DEF Bytes
    <2>4. CASE ~grows
      <3>1. Bytes(g, n) = Bytes(fs, n) /\ g.used = fs.used
        BY <1>1, <1>2, <1>3, <1>5, <1>6, <2>2, <2>4 DEF Bytes
      <3>2. QED
        BY <2>1, <2>2, <2>3, <3>1 DEF Disjoint
    <2>5. CASE grows
      <3>1. fs.used + count < Word /\ fs.used =< MaxData
        BY <1>5, <1>6, <1>12, <2>1 DEF Disjoint
      <3>2. g.used = fs.used + count /\ g.used =< MaxData
        <4>1. (fs.used + count) % Word = fs.used + count
          BY <1>5, <1>6, <3>1
        <4>2. QED
          BY <1>3, <1>4, <2>2, <2>5, <4>1
      <3>3. g.data[n] = fs.used /\ g.size[n] = count
        <4>1. e = count % Word
          BY <1>0, <1>5, <2>1, <2>5 DEF End
        <4>2. e = count
          BY <1>5, <1>12, <4>1
        <4>3. QED
          BY <1>1, <1>3, <1>5, <1>6, <2>1, <2>2, <2>5, <4>2
      <3>4. \A b \in Bytes(g, n) : b \in Int /\ b >= fs.used /\ b =< fs.used + count - 1
        BY <1>5, <1>6, <3>3 DEF Bytes, NoData
      <3>5. \A m \in Nodes : \A b \in Bytes(fs, m) : b \in Int /\ 0 =< b /\ b =< fs.used - 1
        BY <1>5, <1>6, <2>1 DEF Disjoint
      <3>6. ASSUME NEW m \in Nodes PROVE Bytes(g, m) \subseteq 0 .. g.used - 1
        BY <1>5, <1>6, <2>3, <3>2, <3>4, <3>5
      <3>7. ASSUME NEW m \in Nodes, m # n PROVE Bytes(g, m) \cap Bytes(g, n) = {}
        <4>1. \A b \in Bytes(g, m) : b \in Int /\ b =< fs.used - 1
          BY <2>3, <3>5, <3>7
        <4>2. QED
          BY <1>6, <3>4, <4>1
      <3>8. ASSUME NEW m \in Nodes, NEW o \in Nodes, m # o PROVE Bytes(g, m) \cap Bytes(g, o) = {}
        <4>1. CASE m # n /\ o # n
          BY <2>1, <2>3, <3>8, <4>1 DEF Disjoint
        <4>2. CASE m = n \/ o = n
          BY <3>7, <3>8, <4>2
        <4>3. QED
          BY <4>1, <4>2
      <3>9. QED
        BY <2>2, <3>2, <3>6, <3>8 DEF Disjoint
    <2>6. QED
      BY <2>4, <2>5
  <1>13. file' \in [Handles -> Pointer] /\ plain' \in BOOLEAN
    BY <1>4 DEF TreeInv
  <1>14. QED
    BY <1>11, <1>12, <1>13

-----------------------------------------------------------------------------
(* The theorems. *)

LEMMA TreeStep ==
  ASSUME TreeInv, [RamfsNext]_ramfsvars
  PROVE  /\ Tree(fs') /\ file' \in [Handles -> Pointer] /\ plain' \in BOOLEAN
         /\ MaxData + MaxCount < Word /\ (plain => Disjoint(fs)) => (plain' => Disjoint(fs'))
  <1>1. ASSUME Kept(fs, fs', plain, plain'), file' \in [Handles -> Pointer], plain' \in BOOLEAN
        PROVE  /\ Tree(fs') /\ file' \in [Handles -> Pointer] /\ plain' \in BOOLEAN
               /\ MaxData + MaxCount < Word /\ (plain => Disjoint(fs)) => (plain' => Disjoint(fs'))
    <2>1. ASSUME NEW f, NEW g, SamePool(f, g), Disjoint(f) PROVE Disjoint(g)
      BY <2>1 DEF SamePool, Disjoint, Bytes
    <2>2. QED
      BY <1>1, <2>1 DEF Kept
  <1>2. CASE UNCHANGED ramfsvars
    BY <1>1, <1>2 DEF ramfsvars, TreeInv, Kept, SamePool
  <1>3. ASSUME NEW p \in Paths, ramfs_unlink(p)
        PROVE  Kept(fs, fs', plain, plain') /\ file' \in [Handles -> Pointer] /\ plain' \in BOOLEAN
    BY <1>3, UnlinkStep
  <1>4. ASSUME NEW p \in Paths \cup {<<>>}, ramfs_mkdir(p) \/ ramfs_rmdir(p)
        PROVE  Kept(fs, fs', plain, plain') /\ file' \in [Handles -> Pointer] /\ plain' \in BOOLEAN
    BY <1>4, MkdirStep, RmdirStep
  <1>5. ASSUME NEW p \in Paths, NEW q \in Paths \cup {<<>>}, NEW base \in Copied(q),
               ramfs_rename(p, q, base)
        PROVE  Kept(fs, fs', plain, plain') /\ file' \in [Handles -> Pointer] /\ plain' \in BOOLEAN
    BY <1>5, RenameStep
  <1>6. ASSUME NEW h \in Handles, NEW p \in Paths \cup {<<>>}, NEW creat \in BOOLEAN,
               ramfs_open(h, p, creat)
        PROVE  Kept(fs, fs', plain, plain') /\ file' \in [Handles -> Pointer] /\ plain' \in BOOLEAN
    BY <1>6, OpenStep
  <1>7. ASSUME NEW h \in Handles, ramfs_close(h) \/ ramfs_readdir(h)
        PROVE  Kept(fs, fs', plain, plain') /\ file' \in [Handles -> Pointer] /\ plain' \in BOOLEAN
    BY <1>7, CloseStep, ReaddirStep
  <1>8. ASSUME NEW h \in Handles, NEW count \in 0 .. MaxCount,
               NEW offset \in 0 .. Word - 1, ramfs_write(h, count, offset)
        PROVE  /\ Tree(fs') /\ file' \in [Handles -> Pointer] /\ plain' \in BOOLEAN
               /\ MaxData + MaxCount < Word /\ (plain => Disjoint(fs)) => (plain' => Disjoint(fs'))
    BY <1>8, WriteStep
  <1>9. QED
    BY <1>1, <1>2, <1>3, <1>4, <1>5, <1>6, <1>7, <1>8 DEF RamfsNext

\* The invariant behind the others: through every order of opening, making,
\* moving, displacing, removing and writing, the nodes stay a forest of lists
\* linked both ways (ramfs_alloc_node, ramfs_free_node and ramfs_rename).
THEOREM RamfsInvariant == RamfsSpec => []TreeInv
  <1>1. RamfsInit => TreeInv
    BY InitTree
  <1>2. TreeInv /\ [RamfsNext]_ramfsvars => TreeInv'
    <2>1. SUFFICES ASSUME TreeInv, [RamfsNext]_ramfsvars PROVE TreeInv'
      OBVIOUS
    <2>2. Tree(fs') /\ file' \in [Handles -> Pointer] /\ plain' \in BOOLEAN
      BY <2>1, TreeStep
    <2>3. QED
      BY <2>2 DEF TreeInv
  <1>3. QED
    BY <1>1, <1>2, PTL DEF RamfsSpec

LEMMA TreeTypes == TreeInv => RamfsTypeOK
  BY DEF TreeInv, Tree, Images, Pointer, RamfsTypeOK

\* Links point at nodes and the counters of both pools stay in range.
THEOREM RamfsTypes == RamfsSpec => []RamfsTypeOK
  BY RamfsInvariant, TreeTypes, PTL

LEMMA TreeLists == TreeInv => ListsWellFormed
  <1>1. SUFFICES ASSUME TreeInv, NEW n \in Nodes
                 PROVE  /\ After(fs, fs.children[n])[MaxFiles] = Null
                        /\ \A c \in Children(fs, n) :
                             /\ fs.parent[c] = n
                             /\ fs.prev[c] = Null <=> fs.children[n] = c
                             /\ fs.next[c] # Null => fs.prev[fs.next[c]] = c
                        /\ n \notin Freed(fs) =>
                             {c \in Nodes : fs.parent[c] = n} \subseteq Children(fs, n)
    BY DEF ListsWellFormed
  <1>2. fs \in Images /\ Lists(fs, Nodes)
    BY <1>1 DEF TreeInv, Tree
  <1>3. PICK s : s = After(fs, fs.children[n])
    OBVIOUS
  <1>4. s[MaxFiles] = Null
    BY <1>2, <1>3, ListEnds
  <1>5. /\ \A c \in Children(fs, n) :
             /\ c \in Nodes /\ fs.parent[c] = n
             /\ fs.prev[c] = Null <=> fs.children[n] = c
        /\ n \notin Freed(fs) => \A c \in Nodes : fs.parent[c] = n => c \in Children(fs, n)
    BY <1>2, <1>3, ChildrenOf
  <1>6. \A c \in Nodes : fs.next[c] # Null => fs.prev[fs.next[c]] = c
    BY <1>2 DEF Lists
  <1>7. QED
    BY <1>3, <1>4, <1>5, <1>6

\* Every list of children ends, is linked both ways, and holds the children of
\* its node and nothing else, whatever ramfs_rename moved and displaced.
THEOREM ListsStayWellFormed == RamfsSpec => []ListsWellFormed
  BY RamfsInvariant, TreeLists, PTL

LEMMA TreeNames == TreeInv => NamesUniqueBelowRoot
  <1>1. SUFFICES ASSUME TreeInv, NEW n \in Nodes \ {Root}, NEW c \in Children(fs, n),
                        NEW d \in Children(fs, n), c # d
                 PROVE  fs.name[c] # fs.name[d]
    BY DEF NamesUniqueBelowRoot
  <1>2. fs \in Images /\ Lists(fs, Nodes) /\ Parents(fs) /\ Siblings(fs)
    BY <1>1 DEF TreeInv, Tree
  <1>3. PICK s : s = After(fs, fs.children[n])
    OBVIOUS
  <1>4. /\ \A x \in Children(fs, n) :
             /\ x \in Nodes /\ fs.parent[x] = n
             /\ fs.prev[x] = Null <=> fs.children[n] = x
        /\ fs.children[n] = Null => Children(fs, n) = {}
    BY <1>2, <1>3, ChildrenOf
  <1>5. n \notin Freed(fs)
    BY <1>1, <1>2, <1>4 DEF Parents
  <1>6. QED
    BY <1>1, <1>2, <1>4, <1>5, NullIsNoNode DEF Siblings

\* Below the root no directory has two entries of a name: ramfs_mkdir looks
\* before it makes one, and ramfs_rename frees what has the name.
THEOREM NamesStayUnique == RamfsSpec => []NamesUniqueBelowRoot
  BY RamfsInvariant, TreeNames, PTL

\* While files are only made and written once from their start, no byte of the
\* data pool belongs to two of them and all of their bytes are counted: the
\* check for room in ramfs_write is enough as long as a write is too short to
\* wrap the sum of ramfs_data_used and its length.
THEOREM PlainFilesStayDisjoint ==
  MaxData + MaxCount < Word => (RamfsSpec => []PlainFilesDisjoint)
  <1>0. SUFFICES ASSUME MaxData + MaxCount < Word PROVE RamfsSpec => []PlainFilesDisjoint
    OBVIOUS
  <1>1. RamfsInit => PlainFilesDisjoint
    <2>1. SUFFICES ASSUME RamfsInit PROVE PlainFilesDisjoint
      OBVIOUS
    <2>2. PICK l \in Limits :
            fs = [count |-> 2, max_files |-> l[1], used |-> 0, stores |-> l[2],
                  name |-> [n \in Nodes |-> Bin], dir |-> [n \in Nodes |-> n <= 2],
                  parent |-> [n \in Nodes |-> IF n = 2 THEN Root ELSE Null],
                  children |-> [n \in Nodes |-> IF n = Root THEN 2 ELSE Null],
                  next |-> [n \in Nodes |-> Null], prev |-> [n \in Nodes |-> Null],
                  size |-> [n \in Nodes |-> 0], data |-> [n \in Nodes |-> NoData]]
      BY <2>1 DEF RamfsInit
    <2>3. fs.used = 0 /\ \A n \in Nodes : fs.data[n] = NoData
      BY <2>2
    <2>4. QED
      BY <2>3, RamfsAssumption DEF PlainFilesDisjoint
  <1>2. TreeInv /\ PlainFilesDisjoint /\ [RamfsNext]_ramfsvars => PlainFilesDisjoint'
    <2>1. SUFFICES ASSUME TreeInv, PlainFilesDisjoint, [RamfsNext]_ramfsvars
                   PROVE  PlainFilesDisjoint'
      OBVIOUS
    <2>2. plain => Disjoint(fs)
      BY <2>1 DEF PlainFilesDisjoint, Disjoint, Bytes
    <2>3. plain' => Disjoint(fs')
      BY <1>0, <2>1, <2>2, TreeStep
    <2>4. QED
      BY <2>3 DEF PlainFilesDisjoint, Disjoint, Bytes
  <1>3. QED
    BY <1>1, <1>2, RamfsInvariant, PTL DEF RamfsSpec

=============================================================================
