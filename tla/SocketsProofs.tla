--------------------------- MODULE SocketsProofs ---------------------------
(***************************************************************************)
(* Proofs about module Sockets, for any tasks, sockets, buffers and ports: *)
(* the types, the list of open sockets, that explicitly bound ports are    *)
(* distinct, that no packet buffer is ever in two places or in none, and   *)
(* that every queued datagram has a unit of its socket's semaphore.        *)
(***************************************************************************)
EXTENDS Sockets, FiniteSetTheorems, WellFoundedInduction, TLAPS

SockRec == [open : BOOLEAN, proc : Tasks \cup {None}, bound : BOOLEAN,
            auto : BOOLEAN, local_addr : Addrs,
            local_port : Ports \cup FirstPort .. LastPort \cup {0},
            rx_queue : Seq(Bufs), rx_wait : 0 .. MaxUnits,
            lock : Tasks \cup {None, Receiver}, next : Socks \cup {None}]

RxRec == [pc : {"wait", "find", "lock", "push", "signal", "unlock"},
          buf : Bufs \cup {0}, sock : Socks \cup {None},
          port : Ports \cup FirstPort .. LastPort \cup {0}]

\* Where the receive task and a task in recvfrom are, they have a socket, and
\* the receive task a buffer until it has queued it and room for its unit.
PointersInv ==
  /\ rx.pc \notin {"wait", "find"} => rx.sock \in Socks
  /\ IF rx.pc \in {"find", "lock", "push"} THEN rx.buf \in Bufs ELSE rx.buf = 0
  /\ rx.pc \in {"find", "lock", "push", "signal"} => \A s \in Socks : sock[s].rx_wait < MaxUnits
  /\ \A t \in Tasks : call[t].pc # "user" => call[t].sock \in Socks

\* The list holds the open sockets, each once.
ListInv ==
  /\ \A s \in Socks : sock[s].open <=> \E i \in DOMAIN sockets : sockets[i] = s
  /\ \A i, j \in DOMAIN sockets : sockets[i] = sockets[j] => i = j

TypeInv == SocketsTypeOK /\ PointersInv /\ ListInv

\* Each buffer is free, forgotten, in the receive task's hands or queued, and
\* no two of these, nor at two positions of queues.
Queue(s) == sock[s].rx_queue

BuffersInv ==
  /\ \A p \in Bufs : \/ p \in free \/ p \in lost \/ p = rx.buf
                     \/ \E s \in Socks : \E i \in DOMAIN Queue(s) : Queue(s)[i] = p
  /\ \A p \in free : p \notin lost
  /\ rx.buf \notin free /\ rx.buf \notin lost
  /\ \A s \in Socks : \A i \in DOMAIN Queue(s) :
       Queue(s)[i] \notin free /\ Queue(s)[i] \notin lost /\ Queue(s)[i] # rx.buf
  /\ \A s, u \in Socks : \A i \in DOMAIN Queue(s), j \in DOMAIN Queue(u) :
       Queue(s)[i] = Queue(u)[j] => s = u /\ i = j

SocketsInv == TypeInv /\ ExplicitPortsDistinct /\ UnitsCoverQueue /\ BuffersInv

-----------------------------------------------------------------------------
\* A non-empty set of positions has a first one, and CHOOSE names it.
LEMMA FirstPosition ==
  ASSUME NEW S, S \subseteq Nat, S # {}
  PROVE  First(S) \in S /\ \A j \in S : First(S) <= j
<1>1. PICK m \in S : \A n \in S : ~(<<n, m>> \in OpToRel(<, Nat))
  BY NatLessThanWellFounded, WFMin
<1>2. \A n \in S : ~(n < m)
  BY <1>1 DEF OpToRel
<1>3. \E i \in S : \A j \in S : i <= j
  BY <1>2
<1> QED
  BY <1>3, Zenon DEF First

\* Set writes one socket.
LEMMA SetOne ==
  ASSUME NEW s \in Socks, NEW r \in SockRec, sock \in [Socks -> SockRec], Set(s, r)
  PROVE  /\ sock' \in [Socks -> SockRec]
         /\ sock'[s] = r
         /\ \A x \in Socks : x # s => sock'[x] = sock[x]
  BY DEF Set

LEMMA AddrsValue ==
  Addrs = {0, 1}
  BY DEF Addrs, net_iface_create, LoAddr, WlanAddr

LEMMA BlankType ==
  Blank \in SockRec
<1>1. <<>> \in Seq(Bufs)
  OBVIOUS
<1> QED
  BY <1>1, SocketsAssumption, AddrsValue DEF Blank, SockRec

LEMMA PbufAllocFree ==
  ASSUME free # {}
  PROVE  pbuf_alloc \in free
  BY DEF pbuf_alloc

\* The sockets whose queue is forgotten lose only buffers.
LEMMA QueueIsBufs ==
  ASSUME NEW q \in Seq(Bufs)
  PROVE  {q[i] : i \in DOMAIN q} \subseteq Bufs
  OBVIOUS

\* The pointers of the list are to sockets.
LEMMA ListPointers ==
  ASSUME sockets \in Seq(Socks)
  PROVE  Front \in Socks \cup {None} /\ \A s : Following(s) \in Socks \cup {None}
<1>1. Front \in Socks \cup {None}
  BY DEF Front
<1>2. ASSUME NEW s PROVE Following(s) \in Socks \cup {None}
  <2> DEFINE P(i) == i > 1 /\ sockets[i - 1] = s
  <2>1. CASE \E i \in DOMAIN sockets : P(i)
    <3>1. PICK k \in DOMAIN sockets : k = CHOOSE i \in DOMAIN sockets : P(i)
      BY <2>1
    <3>2. Following(s) = sockets[k]
      BY <2>1, <3>1 DEF Following
    <3> QED
      BY <3>2
  <2>2. CASE ~ \E i \in DOMAIN sockets : P(i)
    BY <2>2 DEF Following
  <2> QED
    BY <2>1, <2>2
<1> QED
  BY <1>1, <1>2

\* What sock_close leaves.
LEMMA ClosedFields ==
  ASSUME NEW s \in Socks, sock \in [Socks -> SockRec], sockets \in Seq(Socks)
  PROVE  /\ Closed(s) \in SockRec /\ ~ Closed(s).open /\ Closed(s).rx_queue = <<>>
         /\ Closed(s).rx_wait = sock[s].rx_wait
<1>1. PICK n \in Socks \cup {None}, q \in Seq(Bufs) : n = Following(s) /\ q = <<>>
  <2>1. <<>> \in Seq(Bufs)
    OBVIOUS
  <2> QED
    BY <2>1, ListPointers
<1>2. Closed(s) = [sock[s] EXCEPT !.open = FALSE, !.proc = None, !.auto = FALSE,
                                  !.rx_queue = q, !.next = n]
  BY <1>1 DEF Closed
<1>3. sock[s] \in SockRec
  OBVIOUS
<1> QED
  BY <1>1, <1>2, <1>3 DEF SockRec

\* Unlinking a socket that is on the list once leaves the others.
LEMMA UnlinkedList ==
  ASSUME sockets \in Seq(Socks), NEW s \in Socks,
         \E i \in DOMAIN sockets : sockets[i] = s,
         \A i, j \in DOMAIN sockets : sockets[i] = sockets[j] => i = j
  PROVE  /\ Unlinked(s) \in Seq(Socks)
         /\ \A x \in Socks : (\E i \in DOMAIN Unlinked(s) : Unlinked(s)[i] = x)
                               <=> x # s /\ \E i \in DOMAIN sockets : sockets[i] = x
         /\ \A i, j \in DOMAIN Unlinked(s) : Unlinked(s)[i] = Unlinked(s)[j] => i = j
<1> DEFINE at == {i \in DOMAIN sockets : sockets[i] = s}
           k == First(at)
           u == [i \in 1 .. Len(sockets) - 1 |-> sockets[IF i < k THEN i ELSE i + 1]]
<1>1. at # {} /\ at \subseteq Nat
  OBVIOUS
<1>2. Unlinked(s) = u
  BY <1>1 DEF Unlinked
<1>3. k \in at
  <2> HIDE DEF at
  <2> QED
    BY <1>1, FirstPosition
<1>4. k \in 1 .. Len(sockets) /\ sockets[k] = s
  BY <1>3
<1>5. Len(sockets) \in Nat /\ DOMAIN sockets = 1 .. Len(sockets) /\ Len(sockets) >= 1
  BY <1>4
<1> HIDE DEF k
<1>6. ASSUME NEW i \in 1 .. Len(sockets) - 1
      PROVE  /\ (IF i < k THEN i ELSE i + 1) \in 1 .. Len(sockets)
             /\ (IF i < k THEN i ELSE i + 1) # k
             /\ u[i] = sockets[IF i < k THEN i ELSE i + 1]
  BY <1>4, <1>5
<1>7. u \in [1 .. Len(sockets) - 1 -> Socks] /\ Len(sockets) - 1 \in Nat
  BY <1>5, <1>6
<1>8. u \in Seq(Socks) /\ DOMAIN u = 1 .. Len(sockets) - 1
  BY <1>7
<1> HIDE DEF u
<1>9. ASSUME NEW x \in Socks, x # s, NEW j \in 1 .. Len(sockets), sockets[j] = x
      PROVE  \E i \in 1 .. Len(sockets) - 1 : u[i] = x
  <2>1. j # k
    BY <1>4, <1>9
  <2>2. CASE j < k
    <3>1. j \in 1 .. Len(sockets) - 1
      BY <1>4, <1>5, <2>2
    <3> QED
      BY <1>6, <1>9, <2>2, <3>1
  <2>3. CASE j > k
    <3>1. j - 1 \in 1 .. Len(sockets) - 1 /\ ~(j - 1 < k) /\ (j - 1) + 1 = j
      BY <1>4, <1>5, <2>3
    <3>2. u[j - 1] = sockets[(j - 1) + 1]
      BY <1>6, <3>1
    <3> QED
      BY <1>9, <3>1, <3>2
  <2> QED
    BY <1>4, <1>5, <2>1, <2>2, <2>3
<1>10. ASSUME NEW i \in 1 .. Len(sockets) - 1
       PROVE  u[i] # s /\ \E j \in 1 .. Len(sockets) : sockets[j] = u[i]
  BY <1>4, <1>5, <1>6
<1>11. ASSUME NEW i \in 1 .. Len(sockets) - 1, NEW j \in 1 .. Len(sockets) - 1, u[i] = u[j]
       PROVE  i = j
  <2>1. (IF i < k THEN i ELSE i + 1) = (IF j < k THEN j ELSE j + 1)
    BY <1>5, <1>6, <1>11
  <2> QED
    BY <1>4, <1>5, <2>1
<1>12. ASSUME NEW x \in Socks
       PROVE  (\E i \in DOMAIN u : u[i] = x)
                <=> x # s /\ \E i \in DOMAIN sockets : sockets[i] = x
  <2>1. ASSUME NEW i \in DOMAIN u, u[i] = x
        PROVE  x # s /\ \E j \in DOMAIN sockets : sockets[j] = x
    BY <1>5, <1>8, <1>10, <2>1
  <2>2. ASSUME x # s, NEW j \in DOMAIN sockets, sockets[j] = x
        PROVE  \E i \in DOMAIN u : u[i] = x
    BY <1>5, <1>8, <1>9, <2>2
  <2> QED
    BY <2>1, <2>2
<1> QED
  BY <1>2, <1>8, <1>11, <1>12

-----------------------------------------------------------------------------
(* What a step leaves alone when it leaves alone the fields a part of the  *)
(* invariant speaks of.                                                    *)

LEMMA TypeOKParts ==
  SocketsTypeOK <=>
    /\ free \subseteq Bufs /\ lost \subseteq Bufs
    /\ sock \in [Socks -> SockRec]
    /\ sockets \in Seq(Socks)
    /\ next_port \in FirstPort .. LastPort
    /\ call \in [Tasks -> [pc : {"user", "loop", "wait"}, sock : Socks \cup {None}]]
    /\ rx \in RxRec
  BY DEF SocketsTypeOK, SockRec, RxRec

LEMMA ListFrame ==
  ASSUME ListInv, UNCHANGED sockets, \A x \in Socks : sock'[x].open = sock[x].open
  PROVE  ListInv'
  BY DEF ListInv

\* Ports: every socket is as before, or is not bound, or is closed.
LEMMA PortsFrame ==
  ASSUME ExplicitPortsDistinct,
         \A x \in Socks :
           \/ ~ sock'[x].open \/ ~ sock'[x].bound
           \/ /\ sock'[x].open = sock[x].open /\ sock'[x].bound = sock[x].bound
              /\ sock'[x].auto = sock[x].auto /\ sock'[x].local_addr = sock[x].local_addr
              /\ sock'[x].local_port = sock[x].local_port
  PROVE  ExplicitPortsDistinct'
  BY DEF ExplicitPortsDistinct

LEMMA BuffersFrame ==
  ASSUME BuffersInv, free' = free, lost' = lost, rx.buf' = rx.buf,
         \A x \in Socks : sock'[x].rx_queue = sock[x].rx_queue
  PROVE  BuffersInv'
<1>1. \A x \in Socks : Queue(x)' = Queue(x)
  BY DEF Queue
<1> QED
  BY <1>1 DEF BuffersInv

\* The tasks a unit of socket s was given to.
Looping(s) == {t \in Tasks : call[t].pc = "loop" /\ call[t].sock = s}

LEMMA LoopingFinite ==
  ASSUME NEW s
  PROVE  IsFiniteSet(Looping(s)) /\ Cardinality(Looping(s)) \in Nat
<1>1. Looping(s) \subseteq Tasks /\ IsFiniteSet(Tasks)
  BY SocketsAssumption DEF Looping
<1>2. IsFiniteSet(Looping(s))
  BY <1>1, FS_Subset
<1> QED
  BY <1>2, FS_CardinalityType

\* The bound UnitsCoverQueue puts on a queue.
Units(s) == sock[s].rx_wait + (IF rx.pc = "signal" /\ rx.sock = s THEN 1 ELSE 0)
              + Cardinality(Looping(s))

QueuesCovered == \A s \in Socks : sock[s].open => Len(sock[s].rx_queue) =< Units(s)

LEMMA UnitsCoverUnits ==
  UnitsCoverQueue <=> QueuesCovered
  BY DEF UnitsCoverQueue, QueuesCovered, Units, Looping

UnitsTyped ==
  \A s \in Socks : /\ Units(s) \in Nat /\ Len(sock[s].rx_queue) \in Nat
                    /\ sock[s].rx_wait \in Nat /\ Cardinality(Looping(s)) \in Nat

LEMMA UnitsType ==
  TypeInv => UnitsTyped
<1> SUFFICES ASSUME TypeInv, NEW s \in Socks
             PROVE  /\ Units(s) \in Nat /\ Len(sock[s].rx_queue) \in Nat
                    /\ sock[s].rx_wait \in Nat /\ Cardinality(Looping(s)) \in Nat
  BY DEF UnitsTyped
<1>1. sock[s].rx_wait \in Nat /\ sock[s].rx_queue \in Seq(Bufs)
  BY TypeOKParts, SocketsAssumption DEF TypeInv, SockRec
<1>2. Cardinality(Looping(s)) \in Nat
  BY LoopingFinite
<1> QED
  BY <1>1, <1>2 DEF Units

\* Units: every socket's queue is as before and its units no fewer, or it is
\* closed, or its queue is empty.
LEMMA UnitsFrame ==
  ASSUME UnitsCoverQueue, TypeInv, TypeInv',
         \A x \in Socks :
           \/ ~ sock'[x].open \/ sock'[x].rx_queue = <<>>
           \/ /\ sock'[x].open = sock[x].open /\ sock'[x].rx_queue = sock[x].rx_queue
              /\ Units(x)' >= Units(x)
  PROVE  UnitsCoverQueue'
<1>1. UnitsCoverQueue' <=> QueuesCovered'
  BY UnitsCoverUnits, PTL
<1> SUFFICES ASSUME NEW s \in Socks, sock'[s].open
             PROVE  Len(sock'[s].rx_queue) =< Units(s)'
  BY <1>1 DEF QueuesCovered
<1>2. UnitsTyped /\ UnitsTyped'
  BY UnitsType, PTL
<1> QED
  BY <1>2, UnitsCoverUnits DEF QueuesCovered, UnitsTyped

\* Only call, rx and rx_wait count; the units of a socket the step leaves alone.
LEMMA UnitsSame ==
  ASSUME NEW x \in Socks, sock'[x].rx_wait = sock[x].rx_wait,
         UNCHANGED call, rx'.pc = rx.pc, rx'.sock = rx.sock
  PROVE  Units(x)' = Units(x)
<1>1. Looping(x)' = Looping(x)
  BY DEF Looping
<1> QED
  BY <1>1 DEF Units

-----------------------------------------------------------------------------
(* The initial state and the system calls. *)

LEMMA SocketsInitInv ==
  SocketsInit => SocketsInv
<1> SUFFICES ASSUME SocketsInit PROVE SocketsInv
  OBVIOUS
<1>1. SocketsTypeOK
  <2>1. rx \in RxRec
    BY DEF SocketsInit, NoFrame, RxRec
  <2> QED
    BY <2>1, BlankType, TypeOKParts, SocketsAssumption DEF SocketsInit
<1>2. \A s \in Socks : sock[s] = Blank /\ sock[s].rx_queue = <<>> /\ ~ sock[s].open
  BY DEF SocketsInit, Blank
<1>3. PointersInv
  BY DEF SocketsInit, NoFrame, PointersInv
<1>4. ListInv
  BY <1>2 DEF SocketsInit, ListInv
<1>5. ExplicitPortsDistinct /\ UnitsCoverQueue
  BY <1>2 DEF ExplicitPortsDistinct, UnitsCoverQueue
<1>6. BuffersInv
  <2>1. 0 \notin Bufs
    BY SocketsAssumption DEF Bufs
  <2>2. \A s \in Socks : DOMAIN Queue(s) = {}
    BY <1>2 DEF Queue
  <2> QED
    BY <2>1, <2>2 DEF SocketsInit, NoFrame, BuffersInv
<1> QED
  BY <1>1, <1>3, <1>4, <1>5, <1>6 DEF SocketsInv, TypeInv

\* The queue of socket s is emptied into free or lost.
LEMMA QueueEmptied ==
  ASSUME BuffersInv, NEW s \in Socks, sock'[s].rx_queue = <<>>,
         \A x \in Socks : x # s => sock'[x].rx_queue = sock[x].rx_queue,
         rx' = rx,
         \/ /\ free' = free
            /\ lost' = lost \cup {sock[s].rx_queue[i] : i \in DOMAIN sock[s].rx_queue}
         \/ /\ free' = free \cup {sock[s].rx_queue[i] : i \in DOMAIN sock[s].rx_queue}
            /\ lost' = lost
  PROVE  BuffersInv'
<1> DEFINE qs == {Queue(s)[i] : i \in DOMAIN Queue(s)}
<1>1. (free' = free /\ lost' = lost \cup qs) \/ (free' = free \cup qs /\ lost' = lost)
  BY DEF Queue
<1>2. DOMAIN (Queue(s)') = {} /\ \A x \in Socks : x # s => Queue(x)' = Queue(x)
  BY DEF Queue
<1>3. \A p \in qs : p \notin free /\ p \notin lost /\ p # rx.buf
  BY DEF BuffersInv
<1>4. \A x \in Socks : x # s => \A i \in DOMAIN Queue(x) : Queue(x)[i] \notin qs
  BY DEF BuffersInv
<1>5. \A p : (\E i \in DOMAIN Queue(s) : Queue(s)[i] = p) => p \in qs
  OBVIOUS
<1> HIDE DEF qs
<1>6. (\A p \in Bufs : \/ p \in free \/ p \in lost \/ p = rx.buf
                      \/ \E x \in Socks : \E i \in DOMAIN Queue(x) : Queue(x)[i] = p)'
  <2> SUFFICES ASSUME NEW p \in Bufs, p \notin free', p \notin lost', p # rx.buf
               PROVE  \E x \in Socks : \E i \in DOMAIN (Queue(x)') : Queue(x)'[i] = p
    OBVIOUS
  <2>1. p \notin free /\ p \notin lost /\ p \notin qs
    BY <1>1
  <2>2. PICK x \in Socks : \E i \in DOMAIN Queue(x) : Queue(x)[i] = p
    BY <2>1 DEF BuffersInv
  <2>3. x # s
    BY <1>5, <2>1, <2>2
  <2> QED
    BY <1>2, <2>2, <2>3
<1>7. (\A p \in free : p \notin lost)' /\ (rx.buf \notin free /\ rx.buf \notin lost)'
  BY <1>1, <1>3 DEF BuffersInv
<1>8. (\A x \in Socks : \A i \in DOMAIN Queue(x) :
         Queue(x)[i] \notin free /\ Queue(x)[i] \notin lost /\ Queue(x)[i] # rx.buf)'
  <2> SUFFICES ASSUME NEW x \in Socks, NEW i \in DOMAIN (Queue(x)')
               PROVE  Queue(x)'[i] \notin free' /\ Queue(x)'[i] \notin lost'
                      /\ Queue(x)'[i] # rx.buf
    OBVIOUS
  <2>1. x # s /\ Queue(x)' = Queue(x)
    BY <1>2
  <2>2. Queue(x)[i] \notin qs /\ Queue(x)[i] \notin free /\ Queue(x)[i] \notin lost
        /\ Queue(x)[i] # rx.buf
    BY <1>4, <2>1 DEF BuffersInv
  <2> QED
    BY <1>1, <2>1, <2>2
<1>9. (\A x, u \in Socks : \A i \in DOMAIN Queue(x), j \in DOMAIN Queue(u) :
         Queue(x)[i] = Queue(u)[j] => x = u /\ i = j)'
  BY <1>2 DEF BuffersInv
<1> QED
  BY <1>6, <1>7, <1>8, <1>9 DEF BuffersInv

\* The block s is written with r, with an empty queue and no bound port.
LEMMA CreateInv ==
  ASSUME SocketsInv, NEW t \in Tasks, SYSCALL_SOCKET(t)
  PROVE  SocketsInv'
<1> DEFINE s == CHOOSE x \in Socks : ~sock[x].open
           new == [Blank EXCEPT !.open = TRUE, !.proc = t]
           old == [Blank EXCEPT !.next = Front]
<1>1. s \in Socks /\ ~ sock[s].open /\ (sock_create(t, s) \/ CreateUndone(s))
  BY DEF SYSCALL_SOCKET
<1> HIDE DEF s
<1>2. TypeInv /\ sock \in [Socks -> SockRec] /\ sockets \in Seq(Socks)
      /\ free \subseteq Bufs /\ lost \subseteq Bufs /\ sock[s].rx_queue \in Seq(Bufs)
  BY <1>1, TypeOKParts DEF SocketsInv, TypeInv, SockRec
<1>3. PICK r \in {new, old} :
        /\ Set(s, r)
        /\ IF r = new THEN sockets' = <<s>> \o sockets ELSE sockets' = sockets
        /\ lost' = lost \cup {sock[s].rx_queue[i] : i \in DOMAIN sock[s].rx_queue}
        /\ UNCHANGED <<free, next_port, call, rx>>
  <2>1. new.open /\ ~ old.open
    BY DEF Blank
  <2>2. CASE sock_create(t, s)
    BY <2>2 DEF sock_create
  <2>3. CASE CreateUndone(s)
    BY <2>1, <2>3 DEF CreateUndone
  <2> QED
    BY <1>1, <2>2, <2>3
<1>4. /\ r \in SockRec /\ r.rx_queue = <<>> /\ ~ r.bound /\ r.rx_wait = 0
      /\ (r = new => r.open) /\ (r = old => ~ r.open)
  <2>1. new \in SockRec
    BY BlankType DEF SockRec
  <2>2. new.rx_queue = <<>> /\ ~ new.bound /\ new.rx_wait = 0 /\ new.open
    BY DEF Blank
  <2>3. old.rx_queue = <<>> /\ ~ old.bound /\ old.rx_wait = 0 /\ ~ old.open
    BY DEF Blank
  <2>4. old \in SockRec
    <3>1. PICK h \in Socks \cup {None} : h = Front
      BY <1>2, ListPointers
    <3>2. old = [Blank EXCEPT !.next = h]
      BY <3>1
    <3> HIDE DEF old
    <3> QED
      BY <3>2, BlankType DEF SockRec
  <2> QED
    BY <1>3, <2>1, <2>2, <2>3, <2>4, Zenon
<1>5. /\ sock' \in [Socks -> SockRec] /\ sock'[s] = r
      /\ \A x \in Socks : x # s => sock'[x] = sock[x]
  BY <1>1, <1>2, <1>3, <1>4, SetOne
<1> HIDE DEF new, old
<1>6. SocketsTypeOK'
  <2>1. lost' \subseteq Bufs
    BY <1>2, <1>3, QueueIsBufs
  <2>2. sockets' \in Seq(Socks)
    <3>1. <<s>> \o sockets \in Seq(Socks)
      BY <1>1, <1>2
    <3> QED
      BY <1>2, <1>3, <3>1
  <2> QED
    BY <1>3, <1>5, <2>1, <2>2 DEF SocketsTypeOK, SockRec, SocketsInv, TypeInv
<1>7. PointersInv'
  <2>1. ASSUME rx.pc \in {"find", "lock", "push", "signal"}, NEW x \in Socks
        PROVE  sock'[x].rx_wait < MaxUnits
    <3>1. sock[x].rx_wait < MaxUnits /\ sock[x].rx_wait \in Nat
      BY <1>2, <2>1, SocketsAssumption DEF TypeInv, PointersInv, SockRec
    <3>2. 0 < MaxUnits
      BY <3>1, SocketsAssumption
    <3> QED
      BY <1>4, <1>5, <3>1, <3>2
  <2> QED
    BY <1>2, <1>3, <2>1 DEF TypeInv, PointersInv
<1>8. ListInv'
  <2>1. CASE r = new
    <3>1. sockets' = <<s>> \o sockets
      BY <1>3, <2>1
    <3>2. /\ DOMAIN sockets' = 1 .. Len(sockets) + 1 /\ sockets'[1] = s
          /\ \A i \in DOMAIN sockets : i + 1 \in DOMAIN sockets' /\ sockets'[i + 1] = sockets[i]
          /\ \A i \in DOMAIN sockets' : i # 1 => i - 1 \in DOMAIN sockets
                                               /\ sockets'[i] = sockets[i - 1]
      BY <1>1, <1>2, <3>1
    <3>3. \A i \in DOMAIN sockets : sockets[i] # s
      BY <1>1, <1>2 DEF TypeInv, ListInv
    <3>4. \A x \in Socks : sock'[x].open <=> \E i \in DOMAIN sockets' : sockets'[i] = x
      <4>1. \A x \in Socks : x # s =>
              ((\E i \in DOMAIN sockets' : sockets'[i] = x)
                 <=> \E i \in DOMAIN sockets : sockets[i] = x)
        BY <3>2
      <4>2. \E i \in DOMAIN sockets' : sockets'[i] = s
        <5>1. Len(sockets) \in Nat
          BY <1>2
        <5>2. 1 \in DOMAIN sockets'
          BY <3>2, <5>1
        <5> QED
          BY <3>2, <5>2
      <4> QED
        BY <1>2, <1>4, <1>5, <2>1, <4>1, <4>2 DEF TypeInv, ListInv
    <3>5. \A i, j \in DOMAIN sockets' : sockets'[i] = sockets'[j] => i = j
      <4> SUFFICES ASSUME NEW i \in DOMAIN sockets', NEW j \in DOMAIN sockets',
                          sockets'[i] = sockets'[j], i # j
                   PROVE  FALSE
        OBVIOUS
      <4>1. i # 1 /\ j # 1
        BY <3>2, <3>3
      <4>2. i - 1 = j - 1
        BY <1>2, <3>2, <4>1 DEF TypeInv, ListInv
      <4> QED
        BY <1>2, <3>2, <4>2
    <3> QED
      BY <3>4, <3>5 DEF ListInv
  <2>2. CASE r = old
    <3>1. r # new /\ sockets' = sockets
      BY <1>3, <1>4, <2>2
    <3>2. sock[s].open = FALSE /\ r.open = FALSE
      BY <1>1, <1>2, <1>4, <2>2 DEF SockRec
    <3> QED
      BY <1>2, <1>5, <3>1, <3>2, ListFrame DEF TypeInv
  <2> QED
    BY <2>1, <2>2
<1>9. TypeInv'
  BY <1>6, <1>7, <1>8 DEF TypeInv
<1>10. ExplicitPortsDistinct'
  BY <1>4, <1>5, PortsFrame DEF SocketsInv
<1>11. UnitsCoverQueue'
  <2>1. \A x \in Socks : x # s => Units(x)' = Units(x)
    BY <1>3, <1>5, UnitsSame
  <2>2. UnitsTyped
    BY <1>2, UnitsType
  <2>3. \A x \in Socks : x # s => Units(x)' >= Units(x)
    BY <2>1, <2>2 DEF UnitsTyped
  <2> QED
    BY <1>2, <1>4, <1>5, <1>9, <2>3, UnitsFrame DEF SocketsInv
<1>12. BuffersInv'
  BY <1>1, <1>3, <1>4, <1>5, QueueEmptied DEF SocketsInv
<1> QED
  BY <1>9, <1>10, <1>11, <1>12 DEF SocketsInv

\* The types of the state, as the steps below use them.
LEMMA StateTypes ==
  ASSUME SocketsInv
  PROVE  /\ TypeInv /\ SocketsTypeOK /\ UnitsTyped
         /\ free \subseteq Bufs /\ lost \subseteq Bufs
         /\ sock \in [Socks -> SockRec]
         /\ sockets \in Seq(Socks)
         /\ next_port \in FirstPort .. LastPort
         /\ call \in [Tasks -> [pc : {"user", "loop", "wait"}, sock : Socks \cup {None}]]
         /\ rx \in RxRec
  BY TypeOKParts, UnitsType DEF SocketsInv, TypeInv

\* A step that leaves queue, units and pointers of every socket as they are
\* preserves what is said of them.
LEMMA QuietUnits ==
  ASSUME SocketsInv, TypeInv', UNCHANGED <<call, rx>>,
         \A x \in Socks : /\ sock'[x].open = sock[x].open
                          /\ sock'[x].rx_queue = sock[x].rx_queue
                          /\ sock'[x].rx_wait = sock[x].rx_wait
  PROVE  UnitsCoverQueue'
<1>1. \A x \in Socks : Units(x)' = Units(x)
  BY UnitsSame
<1>2. \A x \in Socks : Units(x)' >= Units(x)
  BY <1>1, StateTypes DEF UnitsTyped
<1> QED
  BY <1>2, StateTypes, UnitsFrame DEF SocketsInv

\* sock_bind compares an explicit port with every other open socket's.
LEMMA BindInv ==
  ASSUME SocketsInv, NEW t \in Tasks, NEW s \in Socks, SYSCALL_BIND(t, s)
  PROVE  SocketsInv'
<1>1. PICK addr \in Addrs, port \in Ports \cup {0} : sock_bind(s, addr, port)
  BY DEF SYSCALL_BIND
<1> DEFINE r == [sock[s] EXCEPT !.bound = TRUE, !.local_addr = addr, !.auto = (port = 0),
                                !.local_port = IF port = 0 THEN next_port ELSE port]
<1>2. TypeInv /\ SocketsTypeOK /\ sock \in [Socks -> SockRec] /\ sock[s] \in SockRec
      /\ next_port \in FirstPort .. LastPort
  BY StateTypes
<1>3. Set(s, r) /\ UNCHANGED <<free, lost, sockets, call, rx>> /\ ~InUse(s, addr, port)
      /\ next_port' = IF port = 0 THEN NextPort ELSE next_port
  BY <1>1 DEF sock_bind
<1>4. /\ r \in SockRec /\ r.open = sock[s].open /\ r.bound /\ r.auto = (port = 0)
      /\ r.local_addr = addr /\ (port # 0 => r.local_port = port)
      /\ r.rx_queue = sock[s].rx_queue /\ r.rx_wait = sock[s].rx_wait
  BY <1>2 DEF SockRec
<1> HIDE DEF r
<1>5. /\ sock' \in [Socks -> SockRec] /\ sock'[s] = r
      /\ \A x \in Socks : x # s => sock'[x] = sock[x]
  BY <1>2, <1>3, <1>4, SetOne
<1>6. \A x \in Socks : /\ sock'[x].open = sock[x].open
                       /\ sock'[x].rx_queue = sock[x].rx_queue
                       /\ sock'[x].rx_wait = sock[x].rx_wait
  BY <1>4, <1>5
<1>7. SocketsTypeOK'
  <2>1. next_port' \in FirstPort .. LastPort
    BY <1>2, <1>3, SocketsAssumption DEF NextPort
  <2> QED
    BY <1>2, <1>3, <1>5, <2>1 DEF SocketsTypeOK, SockRec
<1>8. PointersInv'
  BY <1>2, <1>3, <1>6 DEF TypeInv, PointersInv
<1>9. TypeInv'
  BY <1>2, <1>3, <1>6, <1>7, <1>8, ListFrame DEF TypeInv
<1>10. ExplicitPortsDistinct'
  <2>1. ASSUME NEW u \in Socks, u # s, sock'[u].open, sock'[u].bound, port # 0,
               sock'[u].local_port = port, sock'[u].local_addr = addr
        PROVE  FALSE
    <3>1. \E i \in DOMAIN sockets : sockets[i] = u
      BY <1>2, <1>6, <2>1 DEF TypeInv, ListInv
    <3> QED
      BY <1>3, <1>5, <2>1, <3>1 DEF InUse
  <2>2. ASSUME NEW u \in Socks, u # s, sock'[u].open, sock'[u].bound,
               sock'[u].local_port = sock'[s].local_port,
               sock'[u].local_addr = sock'[s].local_addr
        PROVE  sock'[s].auto
    BY <1>4, <1>5, <2>1, <2>2
  <2>3. ASSUME NEW x \in Socks, NEW u \in Socks, x # u, x # s, u # s,
               sock'[x].open, sock'[u].open, sock'[x].bound, sock'[u].bound,
               sock'[x].local_port = sock'[u].local_port,
               sock'[x].local_addr = sock'[u].local_addr
        PROVE  sock'[x].auto \/ sock'[u].auto
    BY <1>5, <2>3 DEF SocketsInv, ExplicitPortsDistinct
  <2> QED
    BY <2>2, <2>3 DEF ExplicitPortsDistinct
<1>11. UnitsCoverQueue'
  BY <1>3, <1>6, <1>9, QuietUnits
<1>12. BuffersInv'
  BY <1>3, <1>6, BuffersFrame DEF SocketsInv
<1> QED
  BY <1>9, <1>10, <1>11, <1>12 DEF SocketsInv

\* A datagram that is sent goes back to the heap or is forgotten.
LEMMA SendtoInv ==
  ASSUME SocketsInv, NEW t \in Tasks, NEW s \in Socks, SYSCALL_SENDTO(t, s)
  PROVE  SocketsInv'
<1>1. UNCHANGED <<sock, sockets, next_port, call, rx>> /\ free # {}
      /\ udp_output(pbuf_alloc, sock[s].local_addr)
  BY DEF SYSCALL_SENDTO, sock_sendto
<1>2. PICK p \in free : udp_output(p, sock[s].local_addr)
  BY <1>1, PbufAllocFree
<1>3. \/ UNCHANGED <<free, lost>>
      \/ free' = free \ {p} /\ lost' = lost \cup {p}
  BY <1>2 DEF udp_output, ipv4_output
<1>4. TypeInv /\ SocketsTypeOK /\ free \subseteq Bufs /\ lost \subseteq Bufs
  BY StateTypes
<1>5. TypeInv'
  BY <1>1, <1>3, <1>4 DEF TypeInv, SocketsTypeOK, PointersInv, ListInv
<1>6. ExplicitPortsDistinct' /\ UnitsCoverQueue'
  BY <1>1 DEF SocketsInv, ExplicitPortsDistinct, UnitsCoverQueue
<1>7. BuffersInv'
  BY <1>1, <1>3 DEF SocketsInv, BuffersInv, Queue
<1> QED
  BY <1>5, <1>6, <1>7 DEF SocketsInv

LEMMA RecvfromInv ==
  ASSUME SocketsInv, NEW t \in Tasks, NEW s \in Socks, SYSCALL_RECVFROM(t, s)
  PROVE  SocketsInv'
<1> DEFINE r == [sock[s] EXCEPT !.lock = t]
<1>1. /\ Set(s, r) /\ UNCHANGED <<free, lost, sockets, next_port, rx>>
      /\ call' = [call EXCEPT ![t] = [pc |-> "loop", sock |-> s]] /\ call[t].pc = "user"
  BY DEF SYSCALL_RECVFROM, sock_recvfrom, Owns
<1>2. /\ TypeInv /\ SocketsTypeOK /\ sock \in [Socks -> SockRec] /\ UnitsTyped
      /\ call \in [Tasks -> [pc : {"user", "loop", "wait"}, sock : Socks \cup {None}]]
  BY StateTypes
<1>3. /\ r \in SockRec /\ r.open = sock[s].open /\ r.bound = sock[s].bound
      /\ r.auto = sock[s].auto /\ r.local_addr = sock[s].local_addr
      /\ r.local_port = sock[s].local_port
      /\ r.rx_queue = sock[s].rx_queue /\ r.rx_wait = sock[s].rx_wait
  BY <1>2 DEF SockRec
<1> HIDE DEF r
<1>4. /\ sock' \in [Socks -> SockRec] /\ sock'[s] = r
      /\ \A x \in Socks : x # s => sock'[x] = sock[x]
  BY <1>1, <1>2, <1>3, SetOne
<1>5. \A x \in Socks : /\ sock'[x].open = sock[x].open
                       /\ sock'[x].rx_queue = sock[x].rx_queue
                       /\ sock'[x].rx_wait = sock[x].rx_wait
  BY <1>3, <1>4
<1>6. call' \in [Tasks -> [pc : {"user", "loop", "wait"}, sock : Socks \cup {None}]]
      /\ \A u \in Tasks : call'[u] = IF u = t THEN [pc |-> "loop", sock |-> s] ELSE call[u]
  BY <1>1, <1>2
<1>7. TypeInv'
  <2>1. SocketsTypeOK'
    BY <1>1, <1>2, <1>4, <1>6 DEF SocketsTypeOK, SockRec
  <2>2. PointersInv'
    BY <1>1, <1>2, <1>5, <1>6 DEF TypeInv, PointersInv
  <2> QED
    BY <1>1, <1>2, <1>5, <2>1, <2>2, ListFrame DEF TypeInv
<1>8. ExplicitPortsDistinct'
  BY <1>3, <1>4, PortsFrame DEF SocketsInv
<1>9. UnitsCoverQueue'
  <2>1. ASSUME NEW x \in Socks
        PROVE  Units(x)' >= Units(x)
    <3>1. Looping(x) \subseteq Looping(x)' /\ IsFiniteSet(Looping(x)')
          /\ IsFiniteSet(Looping(x))
      <4>1. Looping(x) \subseteq Looping(x)'
        BY <1>1, <1>6 DEF Looping
      <4>2. Looping(x)' \subseteq Tasks
        BY DEF Looping
      <4> QED
        BY <4>1, <4>2, LoopingFinite, FS_Subset, SocketsAssumption
    <3>2. Cardinality(Looping(x)) =< Cardinality(Looping(x)')
      BY <3>1, FS_Subset
    <3>3. Cardinality(Looping(x)) \in Nat /\ Cardinality(Looping(x)') \in Nat
      BY <3>1, FS_CardinalityType
    <3> QED
      BY <1>1, <1>2, <1>5, <3>2, <3>3 DEF Units, UnitsTyped
  <2> QED
    BY <1>2, <1>5, <1>7, <2>1, UnitsFrame DEF SocketsInv
<1>10. BuffersInv'
  BY <1>1, <1>5, BuffersFrame DEF SocketsInv
<1> QED
  BY <1>7, <1>8, <1>9, <1>10 DEF SocketsInv

LEMMA CloseInv ==
  ASSUME SocketsInv, NEW t \in Tasks, NEW s \in Socks, sock_close_file(t, s)
  PROVE  SocketsInv'
<1>1. /\ Set(s, Closed(s)) /\ sockets' = Unlinked(s) /\ sock[s].open
      /\ free' = free \cup {sock[s].rx_queue[i] : i \in DOMAIN sock[s].rx_queue}
      /\ UNCHANGED <<lost, next_port, call, rx>>
  BY DEF sock_close_file, sock_close, Owns, pbuf_free
<1>2. /\ TypeInv /\ SocketsTypeOK /\ sock \in [Socks -> SockRec] /\ UnitsTyped
      /\ sockets \in Seq(Socks) /\ free \subseteq Bufs /\ sock[s].rx_queue \in Seq(Bufs)
  BY StateTypes DEF SockRec
<1>r. PICK r \in SockRec : /\ r = Closed(s) /\ ~ r.open /\ r.rx_queue = <<>>
                            /\ r.rx_wait = sock[s].rx_wait
  BY <1>2, ClosedFields
<1>3. /\ sock' \in [Socks -> SockRec] /\ sock'[s] = r
      /\ \A x \in Socks : x # s => sock'[x] = sock[x]
  BY <1>1, <1>2, <1>r, SetOne
<1>4. ~ r.open /\ r.rx_queue = <<>> /\ r.rx_wait = sock[s].rx_wait
  BY <1>r
<1>5. TypeInv'
  <2>1. /\ sockets' \in Seq(Socks)
        /\ \A x \in Socks : (\E i \in DOMAIN sockets' : sockets'[i] = x)
                               <=> x # s /\ \E i \in DOMAIN sockets : sockets[i] = x
        /\ \A i, j \in DOMAIN sockets' : sockets'[i] = sockets'[j] => i = j
    BY <1>1, <1>2, UnlinkedList DEF TypeInv, ListInv
  <2>2. free' \subseteq Bufs
    BY <1>1, <1>2, QueueIsBufs
  <2>3. SocketsTypeOK'
    BY <1>1, <1>2, <1>3, <2>1, <2>2 DEF SocketsTypeOK, SockRec
  <2>4. ListInv'
    BY <1>2, <1>3, <1>4, <2>1 DEF TypeInv, ListInv
  <2>5. PointersInv'
    <3>1. \A x \in Socks : sock'[x].rx_wait = sock[x].rx_wait
      BY <1>3, <1>4
    <3> QED
      BY <1>1, <1>2, <3>1 DEF TypeInv, PointersInv
  <2> QED
    BY <2>3, <2>4, <2>5 DEF TypeInv
<1>6. ExplicitPortsDistinct'
  BY <1>3, <1>4, PortsFrame DEF SocketsInv
<1>7. UnitsCoverQueue'
  <2>1. \A x \in Socks : x # s => Units(x)' = Units(x)
    BY <1>1, <1>3, UnitsSame
  <2>2. \A x \in Socks : x # s => Units(x)' >= Units(x)
    BY <1>2, <2>1 DEF UnitsTyped
  <2> QED
    BY <1>2, <1>3, <1>4, <1>5, <2>2, UnitsFrame DEF SocketsInv
<1>8. BuffersInv'
  BY <1>1, <1>3, <1>4, QueueEmptied DEF SocketsInv
<1> QED
  BY <1>5, <1>6, <1>7, <1>8 DEF SocketsInv

\* The loop of recvfrom, when the queue has a datagram.
LEMMA RecvTakesInv ==
  ASSUME SocketsInv, NEW t \in Tasks, RecvLoop(t), sock[call[t].sock].rx_queue # <<>>
  PROVE  SocketsInv'
<1>0. call[t].pc = "loop"
  BY DEF RecvLoop
<1>2. /\ TypeInv /\ SocketsTypeOK /\ sock \in [Socks -> SockRec] /\ UnitsTyped
      /\ call \in [Tasks -> [pc : {"user", "loop", "wait"}, sock : Socks \cup {None}]]
      /\ free \subseteq Bufs
  BY StateTypes
<1>3. PICK s \in Socks : s = call[t].sock
  BY <1>0, <1>2 DEF TypeInv, PointersInv
<1>q. PICK q \in Seq(Bufs) : q = sock[s].rx_queue /\ q # <<>>
  BY <1>2, <1>3 DEF SockRec
<1> DEFINE r == [sock[s] EXCEPT !.rx_queue = Tail(q), !.lock = None]
<1>1. /\ Set(s, r) /\ free' = free \cup {Head(q)}
      /\ call' = [call EXCEPT ![t] = [pc |-> "user", sock |-> None]]
      /\ UNCHANGED <<lost, sockets, next_port, rx>>
  BY <1>3, <1>q DEF RecvLoop, pbuf_free
<1>4. /\ Len(q) \in Nat /\ Len(q) >= 1 /\ Head(q) = q[1] /\ q[1] \in Bufs
      /\ Tail(q) \in Seq(Bufs) /\ Len(Tail(q)) = Len(q) - 1
      /\ \A i \in 1 .. Len(q) - 1 : Tail(q)[i] = q[i + 1]
  BY <1>q
<1>5. /\ r \in SockRec /\ r.open = sock[s].open /\ r.bound = sock[s].bound
      /\ r.auto = sock[s].auto /\ r.local_addr = sock[s].local_addr
      /\ r.local_port = sock[s].local_port
      /\ r.rx_queue = Tail(q) /\ r.rx_wait = sock[s].rx_wait
  <2>1. PICK tl \in Seq(Bufs) : tl = Tail(q)
    BY <1>4
  <2>2. r = [sock[s] EXCEPT !.rx_queue = tl, !.lock = None]
    BY <2>1
  <2> HIDE DEF r
  <2>3. sock[s] \in SockRec
    BY <1>2
  <2> QED
    BY <2>1, <2>2, <2>3 DEF SockRec
<1> HIDE DEF r
<1>6. /\ sock' \in [Socks -> SockRec] /\ sock'[s] = r
      /\ \A x \in Socks : x # s => sock'[x] = sock[x]
  BY <1>1, <1>2, <1>3, <1>5, SetOne
<1>7. \A x \in Socks : sock'[x].open = sock[x].open /\ sock'[x].rx_wait = sock[x].rx_wait
  BY <1>5, <1>6
<1>8. call' \in [Tasks -> [pc : {"user", "loop", "wait"}, sock : Socks \cup {None}]]
      /\ \A u \in Tasks : call'[u] = IF u = t THEN [pc |-> "user", sock |-> None] ELSE call[u]
  BY <1>1, <1>2
<1>9. TypeInv'
  <2>1. SocketsTypeOK'
    <3>1. free' \subseteq Bufs
      BY <1>1, <1>2, <1>4
    <3> QED
      BY <1>1, <1>2, <1>6, <1>8, <3>1 DEF SocketsTypeOK, SockRec
  <2>2. PointersInv'
    BY <1>1, <1>2, <1>7, <1>8 DEF TypeInv, PointersInv
  <2> QED
    BY <1>1, <1>2, <1>7, <2>1, <2>2, ListFrame DEF TypeInv
<1>10. ExplicitPortsDistinct'
  BY <1>5, <1>6, PortsFrame DEF SocketsInv
<1>11. UnitsCoverQueue'
  <2>1. UnitsCoverQueue' <=> QueuesCovered'
    BY UnitsCoverUnits, PTL
  <2> SUFFICES ASSUME NEW x \in Socks, sock'[x].open
               PROVE  Len(sock'[x].rx_queue) =< Units(x)'
    BY <2>1 DEF QueuesCovered
  <2>2. sock[x].open /\ Len(sock[x].rx_queue) =< Units(x)
    BY <1>7, UnitsCoverUnits DEF SocketsInv, QueuesCovered
  <2>3. CASE x = s
    <3>1. Looping(x)' = Looping(x) \ {t} /\ t \in Looping(x)
      BY <1>0, <1>3, <1>8, <2>3 DEF Looping
    <3>2. Cardinality(Looping(x)') = Cardinality(Looping(x)) - 1
      BY <3>1, LoopingFinite, FS_RemoveElement
    <3>3. Units(x)' = Units(x) - 1
      BY <1>1, <1>2, <1>7, <3>2 DEF Units, UnitsTyped
    <3> QED
      <4>1. Len(sock'[x].rx_queue) = Len(q) - 1 /\ Len(q) = Len(sock[x].rx_queue)
        BY <1>4, <1>5, <1>6, <1>q, <2>3
      <4>2. Units(x) \in Nat
        BY <1>2 DEF UnitsTyped
      <4> QED
        BY <1>4, <2>2, <3>3, <4>1, <4>2
  <2>4. CASE x # s
    <3>1. Looping(x)' = Looping(x)
      BY <1>0, <1>3, <1>8, <2>4 DEF Looping
    <3>2. Units(x)' = Units(x)
      BY <1>1, <1>7, <3>1 DEF Units
    <3> QED
      BY <1>6, <2>2, <2>4, <3>2
  <2> QED
    BY <2>3, <2>4
<1>12. BuffersInv'
  <2>1. Queue(s) = q /\ Queue(s)' = Tail(q) /\ \A x \in Socks : x # s => Queue(x)' = Queue(x)
    BY <1>5, <1>6, <1>q DEF Queue
  <2>2. /\ DOMAIN Queue(s) = 1 .. Len(q) /\ DOMAIN (Queue(s)') = 1 .. Len(q) - 1
        /\ \A i \in DOMAIN (Queue(s)') : i + 1 \in DOMAIN Queue(s)
                                        /\ Queue(s)'[i] = Queue(s)[i + 1] /\ i + 1 # 1
        /\ 1 \in DOMAIN Queue(s) /\ Queue(s)[1] = Head(q)
        /\ \A i \in DOMAIN Queue(s) : i # 1 => i - 1 \in DOMAIN (Queue(s)')
                                             /\ Queue(s)'[i - 1] = Queue(s)[i]
    <3>1. Len(Tail(q)) \in Nat /\ DOMAIN Tail(q) = 1 .. Len(q) - 1 /\ DOMAIN q = 1 .. Len(q)
      BY <1>4
    <3> QED
      BY <1>4, <2>1, <3>1
  <2>3. \A x \in Socks : \A i \in DOMAIN Queue(x) :
          Queue(x)[i] = Head(q) => x = s /\ i = 1
    BY <1>3, <2>2 DEF SocketsInv, BuffersInv
  <2>4. Head(q) \notin lost /\ Head(q) # rx.buf
    BY <1>3, <2>2 DEF SocketsInv, BuffersInv
  <2>5. \A x \in Socks : \A i \in DOMAIN (Queue(x)') :
           \E j \in DOMAIN Queue(x) : /\ Queue(x)'[i] = Queue(x)[j] /\ (x = s => j = i + 1)
                                     /\ (x # s => j = i)
    BY <2>1, <2>2
  <2>6. \A x \in Socks : \A i \in DOMAIN (Queue(x)') :
          Queue(x)'[i] # Head(q) /\ Queue(x)'[i] \notin free
          /\ Queue(x)'[i] \notin lost /\ Queue(x)'[i] # rx.buf
    <3> SUFFICES ASSUME NEW x \in Socks, NEW i \in DOMAIN (Queue(x)')
                 PROVE  Queue(x)'[i] # Head(q) /\ Queue(x)'[i] \notin free
                        /\ Queue(x)'[i] \notin lost /\ Queue(x)'[i] # rx.buf
      OBVIOUS
    <3>1. PICK j \in DOMAIN Queue(x) : Queue(x)'[i] = Queue(x)[j] /\ (x = s => j = i + 1)
      BY <2>5
    <3>2. ~(x = s /\ j = 1)
      BY <2>2, <3>1
    <3> QED
      BY <2>3, <3>1, <3>2 DEF SocketsInv, BuffersInv
  <2>7. \A x, u \in Socks : \A i \in DOMAIN (Queue(x)'), j \in DOMAIN (Queue(u)') :
          Queue(x)'[i] = Queue(u)'[j] => x = u /\ i = j
    <3> SUFFICES ASSUME NEW x \in Socks, NEW u \in Socks, NEW i \in DOMAIN (Queue(x)'),
                        NEW j \in DOMAIN (Queue(u)'), Queue(x)'[i] = Queue(u)'[j]
                 PROVE  x = u /\ i = j
      OBVIOUS
    <3>1. PICK k \in DOMAIN Queue(x) : /\ Queue(x)'[i] = Queue(x)[k] /\ (x = s => k = i + 1)
                                      /\ (x # s => k = i)
      BY <2>5
    <3>2. PICK l \in DOMAIN Queue(u) : /\ Queue(u)'[j] = Queue(u)[l] /\ (u = s => l = j + 1)
                                      /\ (u # s => l = j)
      BY <2>5
    <3>3. x = u /\ k = l
      <4>1. Queue(x)[k] = Queue(u)[l]
        BY <3>1, <3>2
      <4> QED
        BY <4>1 DEF SocketsInv, BuffersInv
    <3>4. x = s => i \in Int /\ j \in Int
      BY <2>2, <3>3
    <3> QED
      BY <3>1, <3>2, <3>3, <3>4
  <2>8. \A p \in Bufs : \/ p \in free' \/ p \in lost \/ p = rx.buf
                       \/ \E x \in Socks : \E i \in DOMAIN (Queue(x)') : Queue(x)'[i] = p
    <3> SUFFICES ASSUME NEW p \in Bufs, p \notin free', p \notin lost, p # rx.buf
                 PROVE  \E x \in Socks : \E i \in DOMAIN (Queue(x)') : Queue(x)'[i] = p
      OBVIOUS
    <3>1. PICK x \in Socks : \E i \in DOMAIN Queue(x) : Queue(x)[i] = p
      BY <1>1 DEF SocketsInv, BuffersInv
    <3>2. PICK i \in DOMAIN Queue(x) : Queue(x)[i] = p
      BY <3>1
    <3>3. p # Head(q)
      BY <1>1
    <3>4. CASE x = s
      BY <2>2, <3>2, <3>3, <3>4
    <3>5. CASE x # s
      BY <2>1, <3>2, <3>5
    <3> QED
      BY <3>4, <3>5
  <2>9. free' = free \cup {Head(q)} /\ lost' = lost /\ rx' = rx
    BY <1>1
  <2>10. (\A p \in free : p \notin lost)' /\ (rx.buf \notin free /\ rx.buf \notin lost)'
    BY <2>4, <2>9 DEF SocketsInv, BuffersInv
  <2> QED
    BY <2>6, <2>7, <2>8, <2>9, <2>10 DEF BuffersInv
<1> QED
  BY <1>9, <1>10, <1>11, <1>12 DEF SocketsInv

\* The loop of recvfrom, when the queue is empty: it takes a unit, or waits.
LEMMA RecvWaitsInv ==
  ASSUME SocketsInv, NEW t \in Tasks, RecvLoop(t), sock[call[t].sock].rx_queue = <<>>
  PROVE  SocketsInv'
<1> DEFINE s == call[t].sock
           r == [sock[s] EXCEPT !.rx_wait = @ - 1]
<1>1. /\ \/ sock[s].rx_wait > 0 /\ Set(s, r) /\ UNCHANGED call
         \/ call' = [call EXCEPT ![t].pc = "wait"] /\ UNCHANGED sock
      /\ call[t].pc = "loop"
      /\ UNCHANGED <<free, lost, sockets, next_port, rx>>
  BY DEF RecvLoop
<1>2. /\ TypeInv /\ SocketsTypeOK /\ sock \in [Socks -> SockRec] /\ UnitsTyped
      /\ call \in [Tasks -> [pc : {"user", "loop", "wait"}, sock : Socks \cup {None}]]
  BY StateTypes
<1>3. s \in Socks
  BY <1>1, <1>2 DEF TypeInv, PointersInv
<1>4. /\ sock' \in [Socks -> SockRec]
      /\ \A x \in Socks : /\ sock'[x].open = sock[x].open /\ sock'[x].bound = sock[x].bound
                           /\ sock'[x].auto = sock[x].auto
                           /\ sock'[x].local_addr = sock[x].local_addr
                           /\ sock'[x].local_port = sock[x].local_port
                           /\ sock'[x].rx_queue = sock[x].rx_queue
                           /\ sock'[x].rx_wait =< sock[x].rx_wait
                           /\ (x # s => sock'[x].rx_wait = sock[x].rx_wait)
  <2>1. CASE sock[s].rx_wait > 0 /\ Set(s, r)
    <3>1. /\ r \in SockRec /\ r.open = sock[s].open /\ r.bound = sock[s].bound
          /\ r.auto = sock[s].auto /\ r.local_addr = sock[s].local_addr
          /\ r.local_port = sock[s].local_port
          /\ r.rx_queue = sock[s].rx_queue /\ r.rx_wait =< sock[s].rx_wait
      <4>1. sock[s].rx_wait - 1 \in 0 .. MaxUnits /\ sock[s].rx_wait - 1 =< sock[s].rx_wait
        BY <1>2, <1>3, <2>1, SocketsAssumption DEF SockRec
      <4> QED
        BY <1>2, <1>3, <4>1 DEF SockRec
    <3>2. /\ sock' \in [Socks -> SockRec] /\ sock'[s] = r
          /\ \A x \in Socks : x # s => sock'[x] = sock[x]
      BY <1>2, <1>3, <2>1, <3>1, SetOne
    <3> HIDE DEF r
    <3>3. \A x \in Socks : sock[x].rx_wait =< sock[x].rx_wait
      BY <1>2 DEF UnitsTyped
    <3> QED
      BY <3>1, <3>2, <3>3
  <2>2. CASE UNCHANGED sock
    <3>1. \A x \in Socks : sock[x].rx_wait =< sock[x].rx_wait
      BY <1>2 DEF UnitsTyped
    <3> QED
      BY <1>2, <2>2, <3>1
  <2> QED
    BY <1>1, <2>1, <2>2
<1>5. /\ call' \in [Tasks -> [pc : {"user", "loop", "wait"}, sock : Socks \cup {None}]]
      /\ \A u \in Tasks : /\ call'[u].sock = call[u].sock
                           /\ (u # t => call'[u].pc = call[u].pc)
                           /\ (call'[u].pc # "user" => call[u].pc # "user")
  BY <1>1, <1>2
<1>6. TypeInv'
  <2>1. SocketsTypeOK'
    BY <1>1, <1>2, <1>4, <1>5 DEF SocketsTypeOK, SockRec
  <2>2. PointersInv'
    <3>1. ASSUME rx.pc \in {"find", "lock", "push", "signal"}, NEW x \in Socks
          PROVE  sock'[x].rx_wait < MaxUnits
      <4>1. sock[x].rx_wait < MaxUnits /\ sock[x].rx_wait \in Nat
        BY <1>2, <3>1 DEF TypeInv, PointersInv, UnitsTyped
      <4>2. sock'[x].rx_wait =< sock[x].rx_wait /\ sock'[x].rx_wait \in Int
        BY <1>4, <4>1 DEF SockRec
      <4> QED
        BY <4>1, <4>2, SocketsAssumption
    <3> QED
      BY <1>1, <1>2, <1>5, <3>1 DEF TypeInv, PointersInv
  <2> QED
    BY <1>1, <1>2, <1>4, <2>1, <2>2, ListFrame DEF TypeInv
<1>7. ExplicitPortsDistinct'
  BY <1>4, PortsFrame DEF SocketsInv
<1>8. UnitsCoverQueue'
  <2>1. ASSUME NEW x \in Socks, x # s
        PROVE  Units(x)' >= Units(x)
    <3>1. Looping(x)' = Looping(x)
      BY <1>1, <1>5, <2>1 DEF Looping
    <3>2. Units(x)' = Units(x)
      BY <1>1, <1>4, <2>1, <3>1 DEF Units
    <3> QED
      BY <1>2, <3>2 DEF UnitsTyped
  <2>2. sock'[s].rx_queue = <<>>
    BY <1>3, <1>4
  <2> QED
    BY <1>2, <1>4, <1>6, <2>1, <2>2, UnitsFrame DEF SocketsInv
<1>9. BuffersInv'
  BY <1>1, <1>4, BuffersFrame DEF SocketsInv
<1> QED
  BY <1>6, <1>7, <1>8, <1>9 DEF SocketsInv

-----------------------------------------------------------------------------
(* The receive task. *)

\* A step of the receive task that leaves the sockets alone and neither signals
\* nor is about to.
LEMMA RxMovesInv ==
  ASSUME SocketsInv, rx' \in RxRec, rx.pc # "signal", rx'.pc # "signal",
         free' \subseteq Bufs, PointersInv', BuffersInv',
         UNCHANGED <<lost, sock, sockets, next_port, call>>
  PROVE  SocketsInv'
<1>1. TypeInv /\ SocketsTypeOK /\ UnitsTyped
  BY StateTypes
<1>2. TypeInv'
  <2>1. SocketsTypeOK'
    BY <1>1 DEF SocketsTypeOK, RxRec
  <2> QED
    BY <1>1, <2>1, ListFrame DEF TypeInv
<1>3. ExplicitPortsDistinct'
  BY DEF SocketsInv, ExplicitPortsDistinct
<1>4. UnitsCoverQueue'
  <2>1. \A x \in Socks : Looping(x)' = Looping(x)
    BY DEF Looping
  <2>2. \A x \in Socks : Units(x)' = Units(x)
    BY <2>1 DEF Units
  <2>3. \A x \in Socks : Units(x)' >= Units(x)
    BY <1>1, <2>2 DEF UnitsTyped
  <2> QED
    BY <1>1, <1>2, <2>3, UnitsFrame DEF SocketsInv
<1> QED
  BY <1>2, <1>3, <1>4 DEF SocketsInv

\* The datagram leaves the heap, and the search starts.
LEMMA InputInv ==
  ASSUME SocketsInv, NEW f \in UdpFrames, net_iface_input(f)
  PROVE  SocketsInv'
<1>1. /\ rx.pc = "wait" /\ free # {} /\ udp_input(f)
      /\ UNCHANGED <<lost, sock, sockets, next_port, call>>
      /\ \A x \in Socks : sock[x].rx_wait < MaxUnits
  BY DEF net_iface_input, ipv4_input, udp_input
<1>2. PICK p \in free : p = pbuf_alloc
  BY <1>1, PbufAllocFree
<1>3. TypeInv /\ SocketsTypeOK /\ sockets \in Seq(Socks) /\ free \subseteq Bufs
  BY StateTypes
<1>4. PICK h \in Socks \cup {None}, d \in Ports \cup FirstPort .. LastPort :
        h = Front /\ d = f.dport
  BY <1>3, ListPointers DEF UdpFrames
<1>5. rx' = [pc |-> "find", buf |-> p, sock |-> h, port |-> d] /\ free' = free \ {p}
  BY <1>1, <1>2, <1>4 DEF udp_input
<1>6. rx.buf = 0 /\ 0 \notin Bufs /\ p \in Bufs
  BY <1>1, <1>2, <1>3, SocketsAssumption DEF TypeInv, PointersInv, Bufs
<1>7. rx' \in RxRec /\ rx'.pc = "find" /\ rx'.buf = p
  BY <1>4, <1>5, <1>6 DEF RxRec
<1>8. PointersInv'
  BY <1>1, <1>3, <1>6, <1>7 DEF TypeInv, PointersInv
<1>9. BuffersInv'
  <2>1. \A x \in Socks : Queue(x)' = Queue(x)
    BY <1>1 DEF Queue
  <2> QED
    BY <1>1, <1>2, <1>5, <1>6, <1>7, <2>1 DEF SocketsInv, BuffersInv
<1> QED
  BY <1>1, <1>3, <1>5, <1>7, <1>8, <1>9, RxMovesInv

\* The search goes to the next socket, ends with one, or frees the datagram.
LEMMA FindInv ==
  ASSUME SocketsInv, sock_find_udp
  PROVE  SocketsInv'
<1>1. rx.pc = "find" /\ UNCHANGED <<lost, sock, sockets, next_port, call>>
  BY DEF sock_find_udp
<1>2. /\ TypeInv /\ sockets \in Seq(Socks) /\ free \subseteq Bufs /\ rx \in RxRec
      /\ sock \in [Socks -> SockRec]
  BY StateTypes
<1>3. /\ rx.buf \in Bufs /\ 0 \notin Bufs
      /\ \A x \in Socks : sock[x].rx_wait < MaxUnits
  BY <1>1, <1>2, SocketsAssumption DEF TypeInv, PointersInv, Bufs
<1>4. CASE rx.sock = None
  <2>1. rx' = NoFrame /\ free' = free \cup {rx.buf}
    BY <1>4 DEF sock_find_udp, pbuf_free
  <2>2. rx' \in RxRec /\ rx'.pc = "wait" /\ rx'.buf = 0
    BY <2>1 DEF NoFrame, RxRec
  <2>3. PointersInv'
    BY <1>1, <1>2, <2>2 DEF TypeInv, PointersInv
  <2>4. BuffersInv'
    <3>1. \A x \in Socks : Queue(x)' = Queue(x)
      BY <1>1 DEF Queue
    <3>2. \A x \in Socks : \A i \in DOMAIN Queue(x) : Queue(x)[i] # 0
      BY <1>2, <1>3 DEF Queue, SockRec
    <3>3. 0 \notin free /\ 0 \notin lost
      BY <1>2, <1>3 DEF TypeInv, SocketsTypeOK
    <3> QED
      BY <1>1, <1>3, <2>1, <2>2, <3>1, <3>2, <3>3 DEF SocketsInv, BuffersInv
  <2>5. free' \subseteq Bufs
    BY <1>2, <1>3, <2>1
  <2> QED
    BY <1>1, <2>2, <2>3, <2>4, <2>5, RxMovesInv
<1>5. CASE rx.sock # None
  <2>1. PICK s \in Socks : s = rx.sock
    BY <1>2, <1>5 DEF RxRec
  <2>2. PICK n \in Socks \cup {None} : n = NextOf(s)
    BY <1>2, <2>1, ListPointers DEF NextOf, SockRec
  <2>3. free' = free /\ (rx' = [rx EXCEPT !.pc = "lock"] \/ rx' = [rx EXCEPT !.sock = n])
    BY <1>5, <2>1, <2>2 DEF sock_find_udp
  <2>4. /\ rx' \in RxRec /\ rx'.buf = rx.buf /\ rx'.pc \in {"find", "lock"}
        /\ rx'.pc = "lock" => rx'.sock = s
    BY <1>1, <1>2, <2>1, <2>3 DEF RxRec
  <2>5. PointersInv'
    BY <1>1, <1>2, <1>3, <2>4 DEF TypeInv, PointersInv
  <2>6. BuffersInv'
    BY <1>1, <2>3, <2>4, BuffersFrame DEF SocketsInv
  <2> QED
    BY <1>1, <1>2, <2>3, <2>4, <2>5, <2>6, RxMovesInv
<1> QED
  BY <1>4, <1>5

\* RxLocks and RxUnlocks write the lock of a socket, and no buffer or unit.
LEMMA LockStepInv ==
  ASSUME SocketsInv, NEW s \in Socks, NEW l \in Tasks \cup {None, Receiver},
         Set(s, [sock[s] EXCEPT !.lock = l]),
         rx.pc # "signal", rx'.pc # "signal", rx'.buf = rx.buf,
         SocketsTypeOK => rx' \in RxRec,
         \/ rx.pc = "lock" /\ rx'.pc = "push" /\ rx'.sock = rx.sock
         \/ rx.pc = "unlock" /\ rx'.pc = "wait",
         UNCHANGED <<free, lost, sockets, next_port, call>>
  PROVE  SocketsInv'
<1> DEFINE r == [sock[s] EXCEPT !.lock = l]
<1>1. TypeInv /\ SocketsTypeOK /\ sock \in [Socks -> SockRec] /\ UnitsTyped
  BY StateTypes
<1>2. /\ r \in SockRec /\ r.open = sock[s].open /\ r.bound = sock[s].bound
      /\ r.auto = sock[s].auto /\ r.local_addr = sock[s].local_addr
      /\ r.local_port = sock[s].local_port
      /\ r.rx_queue = sock[s].rx_queue /\ r.rx_wait = sock[s].rx_wait
  BY <1>1 DEF SockRec
<1>3. /\ sock' \in [Socks -> SockRec] /\ sock'[s] = r
      /\ \A x \in Socks : x # s => sock'[x] = sock[x]
  BY <1>1, <1>2, SetOne
<1> HIDE DEF r
<1>4. \A x \in Socks : /\ sock'[x].open = sock[x].open /\ sock'[x].bound = sock[x].bound
                       /\ sock'[x].auto = sock[x].auto
                       /\ sock'[x].local_addr = sock[x].local_addr
                       /\ sock'[x].local_port = sock[x].local_port
                       /\ sock'[x].rx_queue = sock[x].rx_queue
                       /\ sock'[x].rx_wait = sock[x].rx_wait
  BY <1>2, <1>3
<1>5. TypeInv'
  <2>1. SocketsTypeOK'
    BY <1>1, <1>3 DEF SocketsTypeOK, SockRec, RxRec
  <2>2. PointersInv'
    BY <1>1, <1>4 DEF TypeInv, PointersInv
  <2> QED
    BY <1>1, <1>4, <2>1, <2>2, ListFrame DEF TypeInv
<1>6. ExplicitPortsDistinct'
  BY <1>4, PortsFrame DEF SocketsInv
<1>7. UnitsCoverQueue'
  <2>1. \A x \in Socks : Looping(x)' = Looping(x)
    BY DEF Looping
  <2>2. \A x \in Socks : Units(x)' = Units(x)
    BY <1>4, <2>1 DEF Units
  <2>3. \A x \in Socks : Units(x)' >= Units(x)
    BY <1>1, <2>2 DEF UnitsTyped
  <2> QED
    BY <1>1, <1>4, <1>5, <2>3, UnitsFrame DEF SocketsInv
<1>8. BuffersInv'
  BY <1>4, BuffersFrame DEF SocketsInv
<1> QED
  BY <1>5, <1>6, <1>7, <1>8 DEF SocketsInv

LEMMA RxLocksInv ==
  ASSUME SocketsInv, RxLocks
  PROVE  SocketsInv'
<1>1. rx \in RxRec
  BY StateTypes
<1>2. PICK s \in Socks : s = rx.sock
  BY StateTypes DEF RxLocks, TypeInv, PointersInv
<1>3. Set(s, [sock[s] EXCEPT !.lock = Receiver])
  BY <1>2 DEF RxLocks
<1>4. /\ rx' \in RxRec
      /\ rx.pc = "lock" /\ rx'.pc = "push" /\ rx'.sock = rx.sock /\ rx'.buf = rx.buf
  BY <1>1 DEF RxLocks, RxRec
<1> QED
  BY <1>3, <1>4, LockStepInv DEF RxLocks

LEMMA RxUnlocksInv ==
  ASSUME SocketsInv, RxUnlocks
  PROVE  SocketsInv'
<1>1. /\ TypeInv /\ sock \in [Socks -> SockRec] /\ rx.pc = "unlock"
      /\ rx' \in RxRec /\ rx'.pc = "wait" /\ rx'.buf = 0
      /\ UNCHANGED <<free, lost, sockets, next_port, call>>
  BY StateTypes DEF RxUnlocks, NoFrame, RxRec
<1>2. PICK s \in Socks : s = rx.sock
  BY <1>1 DEF TypeInv, PointersInv
<1>3. PICK l \in Tasks \cup {None, Receiver} :
        l = IF sock[s].lock = Receiver THEN None ELSE sock[s].lock
  BY <1>1 DEF SockRec
<1>4. Set(s, [sock[s] EXCEPT !.lock = l])
  BY <1>2, <1>3 DEF RxUnlocks
<1>5. rx.buf = 0
  BY <1>1 DEF TypeInv, PointersInv
<1> QED
  BY <1>1, <1>4, <1>5, LockStepInv

\* The buffer goes from the task's hands to the front of the queue.
LEMMA RxPushesInv ==
  ASSUME SocketsInv, RxPushes
  PROVE  SocketsInv'
<1>1. /\ TypeInv /\ SocketsTypeOK /\ sock \in [Socks -> SockRec] /\ UnitsTyped
      /\ rx \in RxRec
  BY StateTypes
<1>2. rx.pc = "push"
  BY DEF RxPushes
<1>3. PICK s \in Socks, p \in Bufs : s = rx.sock /\ p = rx.buf
  BY <1>1, <1>2 DEF TypeInv, PointersInv
<1>4. PICK q \in Seq(Bufs) : q = sock[s].rx_queue
  BY <1>1 DEF SockRec
<1>5. PICK qq \in Seq(Bufs) : qq = <<p>> \o q
  <2>1. <<p>> \in Seq(Bufs)
    OBVIOUS
  <2>2. <<p>> \o q \in Seq(Bufs)
    BY <2>1
  <2> QED
    BY <2>2
<1> DEFINE r == [sock[s] EXCEPT !.rx_queue = qq]
<1>6. /\ Set(s, r) /\ UNCHANGED <<free, lost, sockets, next_port, call>>
      /\ rx' = [rx EXCEPT !.pc = "signal", !.buf = 0]
  BY <1>3, <1>4, <1>5 DEF RxPushes
<1>7. rx' \in RxRec
      /\ rx'.pc = "signal" /\ rx'.buf = 0 /\ rx'.sock = s
  BY <1>1, <1>3, <1>6 DEF RxRec
<1>8. /\ r \in SockRec /\ r.open = sock[s].open /\ r.bound = sock[s].bound
      /\ r.auto = sock[s].auto /\ r.local_addr = sock[s].local_addr
      /\ r.local_port = sock[s].local_port
      /\ r.rx_queue = qq /\ r.rx_wait = sock[s].rx_wait
  BY <1>1 DEF SockRec
<1>9. /\ sock' \in [Socks -> SockRec] /\ sock'[s] = r
      /\ \A x \in Socks : x # s => sock'[x] = sock[x]
  BY <1>1, <1>6, <1>8, SetOne
<1> HIDE DEF r
<1>10. \A x \in Socks : sock'[x].open = sock[x].open /\ sock'[x].rx_wait = sock[x].rx_wait
  BY <1>8, <1>9
<1>11. TypeInv'
  <2>1. SocketsTypeOK'
    BY <1>1, <1>6, <1>7, <1>9 DEF SocketsTypeOK, SockRec
  <2>2. PointersInv'
    BY <1>1, <1>2, <1>3, <1>6, <1>7, <1>10 DEF TypeInv, PointersInv
  <2> QED
    BY <1>1, <1>6, <1>10, <2>1, <2>2, ListFrame DEF TypeInv
<1>12. ExplicitPortsDistinct'
  BY <1>8, <1>9, PortsFrame DEF SocketsInv
<1>13. /\ Len(q) \in Nat /\ Len(qq) = Len(q) + 1 /\ qq[1] = p
       /\ \A i \in 1 .. Len(q) + 1 : i # 1 => qq[i] = q[i - 1]
  BY <1>5
<1>14. UnitsCoverQueue'
  <2>1. UnitsCoverQueue' <=> QueuesCovered'
    BY UnitsCoverUnits, PTL
  <2> SUFFICES ASSUME NEW x \in Socks, sock'[x].open
               PROVE  Len(sock'[x].rx_queue) =< Units(x)'
    BY <2>1 DEF QueuesCovered
  <2>2. sock[x].open /\ Len(sock[x].rx_queue) =< Units(x) /\ Looping(x)' = Looping(x)
    BY <1>6, <1>10, UnitsCoverUnits DEF SocketsInv, QueuesCovered, Looping
  <2>3. CASE x = s
    <3>1. Units(x)' = Units(x) + 1
      BY <1>1, <1>2, <1>7, <1>10, <2>2, <2>3 DEF Units, UnitsTyped
    <3>2. Len(sock'[x].rx_queue) = Len(q) + 1 /\ Len(q) = Len(sock[x].rx_queue)
      BY <1>4, <1>8, <1>9, <1>13, <2>3
    <3>3. Units(x) \in Nat
      BY <1>1 DEF UnitsTyped
    <3> QED
      BY <1>13, <2>2, <3>1, <3>2, <3>3
  <2>4. CASE x # s
    <3>1. Units(x)' = Units(x)
      BY <1>2, <1>7, <1>10, <2>2, <2>4 DEF Units
    <3> QED
      BY <1>9, <2>2, <2>4, <3>1
  <2> QED
    BY <2>3, <2>4
<1>15. BuffersInv'
  <2>1. Queue(s) = q /\ Queue(s)' = qq /\ \A x \in Socks : x # s => Queue(x)' = Queue(x)
    BY <1>4, <1>8, <1>9 DEF Queue
  <2>2. /\ DOMAIN q = 1 .. Len(q) /\ DOMAIN qq = 1 .. Len(q) + 1
        /\ 1 \in DOMAIN qq /\ \A i \in DOMAIN qq : i # 1 => i - 1 \in DOMAIN q
        /\ \A i \in DOMAIN q : i + 1 \in DOMAIN qq /\ qq[i + 1] = q[i]
    BY <1>13
  <2>3. p \notin free /\ p \notin lost /\ 0 \notin Bufs
        /\ \A x \in Socks : \A i \in DOMAIN Queue(x) : Queue(x)[i] # p
    BY <1>3, SocketsAssumption DEF SocketsInv, BuffersInv, Bufs
  <2>4. ASSUME NEW x \in Socks, NEW i \in DOMAIN (Queue(x)')
        PROVE  \/ x = s /\ i = 1 /\ Queue(x)'[i] = p
               \/ \E j \in DOMAIN Queue(x) : /\ Queue(x)'[i] = Queue(x)[j]
                                             /\ (x = s => j = i - 1) /\ (x # s => j = i)
    <3>1. CASE x = s /\ i = 1
      BY <1>13, <2>1, <3>1
    <3>2. CASE x = s /\ i # 1
      BY <1>13, <2>1, <2>2, <3>2
    <3>3. CASE x # s
      BY <2>1, <3>3
    <3> QED
      BY <3>1, <3>2, <3>3
  <2>5. ASSUME NEW x \in Socks, NEW i \in DOMAIN (Queue(x)')
        PROVE  Queue(x)'[i] \notin free /\ Queue(x)'[i] \notin lost /\ Queue(x)'[i] # 0
    <3>1. CASE x = s /\ i = 1 /\ Queue(x)'[i] = p
      BY <2>3, <3>1
    <3>2. CASE \E j \in DOMAIN Queue(x) : Queue(x)'[i] = Queue(x)[j]
      <4>1. PICK j \in DOMAIN Queue(x) : Queue(x)'[i] = Queue(x)[j]
        BY <3>2
      <4>2. Queue(x)[j] \in Bufs
        BY <1>1 DEF Queue, SockRec
      <4> QED
        BY <2>3, <4>1, <4>2 DEF SocketsInv, BuffersInv
    <3> QED
      BY <2>4, <3>1, <3>2
  <2>6. ASSUME NEW x \in Socks, NEW u \in Socks, NEW i \in DOMAIN (Queue(x)'),
               NEW j \in DOMAIN (Queue(u)'), Queue(x)'[i] = Queue(u)'[j]
        PROVE  x = u /\ i = j
    <3>1. CASE Queue(x)'[i] = p
      <4>1. x = s /\ i = 1
        BY <2>3, <2>4, <3>1
      <4>2. Queue(u)'[j] = p
        BY <2>6, <3>1
      <4>3. u = s /\ j = 1
        BY <2>3, <2>4, <4>2
      <4> QED
        BY <4>1, <4>3
    <3>2. CASE Queue(x)'[i] # p
      <4>1. PICK k \in DOMAIN Queue(x) : /\ Queue(x)'[i] = Queue(x)[k]
                                        /\ (x = s => k = i - 1) /\ (x # s => k = i)
        BY <2>4, <3>2
      <4>2. PICK l \in DOMAIN Queue(u) : /\ Queue(u)'[j] = Queue(u)[l]
                                        /\ (u = s => l = j - 1) /\ (u # s => l = j)
        BY <2>4, <2>6, <3>2
      <4>3. Queue(x)[k] = Queue(u)[l]
        BY <2>6, <4>1, <4>2
      <4>4. x = u /\ k = l
        BY <4>3 DEF SocketsInv, BuffersInv
      <4>5. x = s => i \in 1 .. Len(q) + 1 /\ j \in 1 .. Len(q) + 1
        BY <2>1, <2>2, <4>4
      <4> QED
        BY <1>13, <4>1, <4>2, <4>4, <4>5
    <3> QED
      BY <3>1, <3>2
  <2>7. ASSUME NEW b \in Bufs, b \notin free, b \notin lost
        PROVE  \E x \in Socks : \E i \in DOMAIN (Queue(x)') : Queue(x)'[i] = b
    <3>1. CASE b = p
      BY <1>13, <2>1, <2>2, <3>1
    <3>2. CASE b # p
      <4>1. PICK x \in Socks : \E i \in DOMAIN Queue(x) : Queue(x)[i] = b
        BY <1>3, <2>7, <3>2 DEF SocketsInv, BuffersInv
      <4>2. PICK i \in DOMAIN Queue(x) : Queue(x)[i] = b
        BY <4>1
      <4>3. CASE x = s
        BY <2>1, <2>2, <4>2, <4>3
      <4>4. CASE x # s
        BY <2>1, <4>2, <4>4
      <4> QED
        BY <4>3, <4>4
    <3> QED
      BY <3>1, <3>2
  <2>8. 0 \notin free /\ 0 \notin lost /\ \A b \in free : b \notin lost
    BY <1>1, <2>3 DEF SocketsTypeOK, SocketsInv, BuffersInv
  <2> QED
    BY <1>6, <1>7, <2>5, <2>6, <2>7, <2>8 DEF BuffersInv
<1> QED
  BY <1>11, <1>12, <1>14, <1>15 DEF SocketsInv

\* The unit is given to a task that waits, or counted.
LEMMA RxSignalsInv ==
  ASSUME SocketsInv, RxSignals
  PROVE  SocketsInv'
<1>1. /\ TypeInv /\ SocketsTypeOK /\ sock \in [Socks -> SockRec] /\ UnitsTyped
      /\ rx \in RxRec
      /\ call \in [Tasks -> [pc : {"user", "loop", "wait"}, sock : Socks \cup {None}]]
  BY StateTypes
<1>2. rx.pc = "signal" /\ rx' = [rx EXCEPT !.pc = "unlock"]
      /\ UNCHANGED <<free, lost, sockets, next_port>>
  BY DEF RxSignals
<1>3. PICK s \in Socks : s = rx.sock
  BY <1>1, <1>2 DEF TypeInv, PointersInv
<1>4. rx' \in RxRec
      /\ rx'.pc = "unlock" /\ rx'.buf = rx.buf /\ rx'.sock = rx.sock
  BY <1>1, <1>2 DEF RxRec
<1>5. PICK w \in Nat : w = sock[s].rx_wait /\ w < MaxUnits
  BY <1>1, <1>2, <1>3 DEF TypeInv, PointersInv, UnitsTyped
<1> DEFINE r == [sock[s] EXCEPT !.rx_wait = w + 1]
<1>6. CASE Set(s, r) /\ UNCHANGED call
  <2>1. /\ r \in SockRec /\ r.open = sock[s].open /\ r.bound = sock[s].bound
        /\ r.auto = sock[s].auto /\ r.local_addr = sock[s].local_addr
        /\ r.local_port = sock[s].local_port
        /\ r.rx_queue = sock[s].rx_queue /\ r.rx_wait = w + 1
    <3>1. w + 1 \in 0 .. MaxUnits
      BY <1>5, SocketsAssumption
    <3> QED
      BY <1>1, <3>1 DEF SockRec
  <2>2. /\ sock' \in [Socks -> SockRec] /\ sock'[s] = r
        /\ \A x \in Socks : x # s => sock'[x] = sock[x]
    BY <1>1, <1>6, <2>1, SetOne
  <2> HIDE DEF r
  <2>3. \A x \in Socks : sock'[x].open = sock[x].open
                         /\ sock'[x].rx_queue = sock[x].rx_queue
    BY <2>1, <2>2
  <2>4. TypeInv'
    <3>1. SocketsTypeOK'
      BY <1>1, <1>2, <1>4, <1>6, <2>2 DEF SocketsTypeOK, SockRec
    <3>2. PointersInv'
      BY <1>1, <1>2, <1>4, <1>6 DEF TypeInv, PointersInv
    <3> QED
      BY <1>1, <1>2, <2>3, <3>1, <3>2, ListFrame DEF TypeInv
  <2>5. ExplicitPortsDistinct'
    BY <2>1, <2>2, PortsFrame DEF SocketsInv
  <2>6. UnitsCoverQueue'
    <3>1. ASSUME NEW x \in Socks
          PROVE  Units(x)' >= Units(x)
      <4>1. Looping(x)' = Looping(x) /\ Units(x) \in Nat /\ Cardinality(Looping(x)) \in Nat
        BY <1>1, <1>6 DEF Looping, UnitsTyped
      <4>2. CASE x = s
        BY <1>2, <1>3, <1>4, <1>5, <2>1, <2>2, <4>1, <4>2 DEF Units
      <4>3. CASE x # s
        BY <1>2, <1>3, <1>4, <2>2, <4>1, <4>3 DEF Units
      <4> QED
        BY <4>2, <4>3
    <3> QED
      BY <1>1, <2>3, <2>4, <3>1, UnitsFrame DEF SocketsInv
  <2>7. BuffersInv'
    BY <1>2, <1>4, <2>3, BuffersFrame DEF SocketsInv
  <2> QED
    BY <2>4, <2>5, <2>6, <2>7 DEF SocketsInv
<1>7. CASE /\ UNCHANGED sock
           /\ \E t \in Tasks : /\ call[t].pc = "wait" /\ call[t].sock = s
                               /\ call' = [call EXCEPT ![t].pc = "loop"]
  <2>1. PICK t \in Tasks : /\ call[t].pc = "wait" /\ call[t].sock = s
                           /\ call' = [call EXCEPT ![t].pc = "loop"]
    BY <1>7
  <2>2. /\ call' \in [Tasks -> [pc : {"user", "loop", "wait"}, sock : Socks \cup {None}]]
        /\ call'[t].pc = "loop" /\ call'[t].sock = s
        /\ \A u \in Tasks : u # t => call'[u] = call[u]
    BY <1>1, <2>1
  <2>3. TypeInv'
    <3>1. SocketsTypeOK'
      BY <1>1, <1>2, <1>4, <1>7, <2>2 DEF SocketsTypeOK
    <3>2. PointersInv'
      BY <1>1, <1>2, <1>4, <2>2 DEF TypeInv, PointersInv
    <3> QED
      BY <1>1, <1>2, <1>7, <3>1, <3>2, ListFrame DEF TypeInv
  <2>4. ExplicitPortsDistinct'
    BY <1>7 DEF SocketsInv, ExplicitPortsDistinct
  <2>5. UnitsCoverQueue'
    <3>1. ASSUME NEW x \in Socks
          PROVE  Units(x)' >= Units(x)
      <4>1. Units(x) \in Nat /\ Cardinality(Looping(x)) \in Nat /\ sock[x].rx_wait \in Nat
        BY <1>1 DEF UnitsTyped
      <4>2. CASE x = s
        <5>1. Looping(x)' = Looping(x) \cup {t} /\ t \notin Looping(x)
          BY <2>1, <2>2, <4>2 DEF Looping
        <5>2. Cardinality(Looping(x)') = Cardinality(Looping(x)) + 1
          BY <5>1, LoopingFinite, FS_AddElement
        <5> QED
          BY <1>2, <1>3, <1>4, <1>7, <4>1, <4>2, <5>2 DEF Units
      <4>3. CASE x # s
        <5>1. Looping(x)' = Looping(x)
          BY <2>1, <2>2, <4>3 DEF Looping
        <5> QED
          BY <1>2, <1>3, <1>4, <1>7, <4>1, <4>3, <5>1 DEF Units
      <4> QED
        BY <4>2, <4>3
    <3> QED
      BY <1>1, <1>7, <2>3, <3>1, UnitsFrame DEF SocketsInv
  <2>6. BuffersInv'
    BY <1>2, <1>4, <1>7, BuffersFrame DEF SocketsInv
  <2> QED
    BY <2>3, <2>4, <2>5, <2>6 DEF SocketsInv
<1> QED
  BY <1>3, <1>5, <1>6, <1>7 DEF RxSignals

-----------------------------------------------------------------------------
\* The invariant holds of every behaviour of calls and receive task.
THEOREM SocketsInvariant ==
  SocketsSpec => []SocketsInv
<1>1. SocketsInv /\ [SocketsNext]_sockvars => SocketsInv'
  <2> SUFFICES ASSUME SocketsInv, [SocketsNext]_sockvars PROVE SocketsInv'
    OBVIOUS
  <2>1. CASE User
    <3>1. PICK t \in Tasks :
            \/ SYSCALL_SOCKET(t)
            \/ RecvLoop(t)
            \/ \E s \in Socks : \/ SYSCALL_BIND(t, s) \/ SYSCALL_SENDTO(t, s)
                                \/ SYSCALL_RECVFROM(t, s) \/ sock_close_file(t, s)
      BY <2>1 DEF User
    <3>2. CASE RecvLoop(t)
      BY <3>2, RecvTakesInv, RecvWaitsInv
    <3> QED
      BY <3>1, <3>2, CreateInv, BindInv, SendtoInv, RecvfromInv, CloseInv
  <2>2. CASE \E f \in UdpFrames : net_iface_input(f)
    BY <2>2, InputInv
  <2>3. CASE Receive
    BY <2>3, FindInv, RxLocksInv, RxPushesInv, RxSignalsInv, RxUnlocksInv DEF Receive
  <2>4. CASE UNCHANGED sockvars
    BY <2>4 DEF sockvars, SocketsInv, TypeInv, SocketsTypeOK, PointersInv, ListInv,
                ExplicitPortsDistinct, UnitsCoverQueue, BuffersInv, Queue
  <2> QED
    BY <2>1, <2>2, <2>3, <2>4 DEF SocketsNext
<1> QED
  BY <1>1, SocketsInitInv, PTL DEF SocketsSpec

\* Types: in particular the ephemeral port stays in its range and the units of
\* a socket within the bound, although the receive task goes on with a socket
\* that may have been closed and created again.
THEOREM SocketsTypes ==
  SocketsSpec => []SocketsTypeOK
<1>1. SocketsInv => SocketsTypeOK
  BY DEF SocketsInv, TypeInv
<1> QED
  BY <1>1, SocketsInvariant, PTL

\* The list holds the open sockets, each once: sock_close always finds its
\* socket, sock_bind compares with every open one, and sock_find_udp, which may
\* follow pointers of closed sockets later, starts at an open one.
THEOREM ListHoldsOpenSockets ==
  SocketsSpec => []ListInv
<1>1. SocketsInv => ListInv
  BY DEF SocketsInv, TypeInv
<1> QED
  BY <1>1, SocketsInvariant, PTL

\* Sockets that sock_bind gave an explicit port and address share them with no
\* other such socket.
THEOREM ExplicitPortsAreDistinct ==
  SocketsSpec => []ExplicitPortsDistinct
<1>1. SocketsInv => ExplicitPortsDistinct
  BY DEF SocketsInv
<1> QED
  BY <1>1, SocketsInvariant, PTL

\* A datagram beside which recvfrom would wait for ever has a unit of its own.
THEOREM QueuedHaveUnits ==
  SocketsSpec => []UnitsCoverQueue
<1>1. SocketsInv => UnitsCoverQueue
  BY DEF SocketsInv
<1> QED
  BY <1>1, SocketsInvariant, PTL

\* A queue without repetitions is no longer than there are buffers.
LEMMA QueueFits ==
  ASSUME NEW q \in Seq(Bufs), \A i, j \in DOMAIN q : q[i] = q[j] => i = j
  PROVE  DOMAIN q \subseteq Bufs
<1>1. NumBufs \in Nat /\ Len(q) \in Nat /\ DOMAIN q = 1 .. Len(q)
  BY SocketsAssumption
<1>2. IsFiniteSet(Bufs) /\ Cardinality(Bufs) = NumBufs
  BY <1>1, FS_Interval DEF Bufs
<1>3. IsFiniteSet(1 .. Len(q)) /\ Cardinality(1 .. Len(q)) = Len(q)
  BY <1>1, FS_Interval
<1>4. q \in Injection(1 .. Len(q), Bufs)
  BY <1>1 DEF Injection, IsInjective
<1>5. Cardinality(1 .. Len(q)) =< Cardinality(Bufs)
  BY <1>2, <1>4, FS_Injection
<1> QED
  BY <1>1, <1>2, <1>3, <1>5 DEF Bufs

\* Every packet buffer is in exactly one place.
THEOREM BuffersAreConserved ==
  SocketsSpec => []BuffersConserved
<1>1. SocketsInv => BuffersConserved
  <2> SUFFICES ASSUME SocketsInv, NEW p \in Bufs
               PROVE  Cardinality(Places(p)) = 1
    BY DEF BuffersConserved
  <2>1. \A s \in Socks : Queue(s) \in Seq(Bufs) /\ DOMAIN Queue(s) \subseteq Bufs
                         /\ DOMAIN Queue(s) = 1 .. Len(Queue(s))
    <3> SUFFICES ASSUME NEW s \in Socks
                 PROVE  Queue(s) \in Seq(Bufs) /\ DOMAIN Queue(s) \subseteq Bufs
      OBVIOUS
    <3>1. Queue(s) \in Seq(Bufs)
      BY StateTypes DEF Queue, SockRec
    <3>2. \A i, j \in DOMAIN Queue(s) : Queue(s)[i] = Queue(s)[j] => i = j
      BY DEF SocketsInv, BuffersInv
    <3> QED
      BY <3>1, <3>2, QueueFits
  <2>2. \A s \in Socks, i \in Bufs :
           (i <= Len(Queue(s)) /\ Queue(s)[i] = p)
             <=> (i \in DOMAIN Queue(s) /\ Queue(s)[i] = p)
    BY <2>1, SocketsAssumption DEF Bufs
  <2> DEFINE queued == {x \in Socks \X Bufs : x[2] <= Len(sock[x[1]].rx_queue)
                                              /\ sock[x[1]].rx_queue[x[2]] = p}
  <2>3. Places(p) = {x \in {"free"} : p \in free} \cup {x \in {"lost"} : p \in lost}
                      \cup {x \in {"rx"} : p = rx.buf} \cup queued
    BY DEF Places
  <2>4. \A s \in Socks, i \in Bufs :
          <<s, i>> \in queued <=> (i \in DOMAIN Queue(s) /\ Queue(s)[i] = p)
    BY <2>2 DEF Queue
  <2>5. \A x \in queued : \E s \in Socks, i \in Bufs : x = <<s, i>>
    OBVIOUS
  <2> HIDE DEF queued
  <2>6. \E x : Places(p) = {x}
    <3>1. CASE p \in free
      <4>1. queued = {} /\ p \notin lost /\ p # rx.buf
        BY <2>4, <2>5, <3>1 DEF SocketsInv, BuffersInv
      <4> QED
        BY <2>3, <3>1, <4>1
    <3>2. CASE p \in lost
      <4>1. queued = {} /\ p \notin free /\ p # rx.buf
        BY <2>4, <2>5, <3>2 DEF SocketsInv, BuffersInv
      <4> QED
        BY <2>3, <3>2, <4>1
    <3>3. CASE p = rx.buf
      <4>1. queued = {} /\ p \notin free /\ p \notin lost
        BY <2>4, <2>5, <3>3 DEF SocketsInv, BuffersInv
      <4> QED
        BY <2>3, <3>3, <4>1
    <3>4. CASE p \notin free /\ p \notin lost /\ p # rx.buf
      <4>1. PICK s \in Socks : \E i \in DOMAIN Queue(s) : Queue(s)[i] = p
        BY <3>4 DEF SocketsInv, BuffersInv
      <4>2. PICK i \in DOMAIN Queue(s) : Queue(s)[i] = p
        BY <4>1
      <4>3. <<s, i>> \in queued
        BY <2>1, <2>4, <4>2
      <4>4. \A u \in Socks, j \in Bufs : <<u, j>> \in queued => u = s /\ j = i
        BY <2>4, <4>2 DEF SocketsInv, BuffersInv
      <4>5. queued = {<<s, i>>}
        BY <2>5, <4>3, <4>4
      <4> QED
        BY <2>3, <3>4, <4>5
    <3> QED
      BY <3>1, <3>2, <3>3, <3>4
  <2> QED
    BY <2>6, FS_Singleton
<1> QED
  BY <1>1, SocketsInvariant, PTL
=============================================================================
