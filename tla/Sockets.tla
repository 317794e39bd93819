-------------------------------- MODULE Sockets --------------------------------
(***************************************************************************)
(* kernel/net/net.c: packet buffers, UDP sockets and the input path of     *)
(* datagrams, which the Wi-Fi receive task runs.                           *)
(*                                                                         *)
(* System calls are not preempted except where they wait, so a call is one *)
(* step from one wait to the next; the receive task is a kernel task and   *)
(* may be preempted between any two statements.  A call that finds the     *)
(* socket's lock taken spins in mutex_lock: it is a step that is not       *)
(* enabled yet.  Locks and semaphores do here what module Sync shows of    *)
(* them.                                                                   *)
(*                                                                         *)
(* A freed socket is memory that keeps its fields until sock_create gets   *)
(* it again, so that what the receive task reads and does through a stale  *)
(* pointer has a meaning.  There are two interfaces: lo, and wlan0, whose  *)
(* address nothing in the repository sets (it stays 0, the address of a    *)
(* socket bound to none).                                                  *)
(***************************************************************************)
EXTENDS Integers, Sequences, FiniteSets

CONSTANTS
  Tasks,      \* the tasks that make system calls
  Socks,      \* the memory blocks sockets are allocated from
  NumBufs,    \* how many packet buffers the heap has room for
  Ports,      \* the ports programs bind explicitly
  FirstPort,  \* 1024
  LastPort,   \* 65535
  MaxUnits,   \* bound on the datagrams queued while none waits, per socket
  None        \* NULL

ASSUME SocketsAssumption ==
  /\ NumBufs \in Nat /\ FirstPort \in Nat \ {0} /\ LastPort \in Nat
  /\ FirstPort <= LastPort /\ Ports \subseteq Nat \ {0}
  /\ MaxUnits \in Nat
  /\ IsFiniteSet(Tasks) /\ None \notin Tasks \cup Socks

VARIABLES
  free,       \* the packet buffers that are not allocated
  lost,       \* history: allocated buffers that nothing points to any more
  sock,       \* the contents of each block of Socks
  sockets,    \* the list of open sockets, its head first
  next_port,
  call,       \* for each task, where it is in recvfrom and on which socket
  rx          \* where the receive task is, its buffer, the datagram's port
              \* and the socket it looks at

sockvars == <<free, lost, sock, sockets, next_port, call, rx>>

Bufs == 1 .. NumBufs
LoAddr == 1      \* lo->ip_addr, 127.0.0.1
WlanAddr == 0    \* wlan0's ip_addr, as wifi_init leaves it

\* net_iface_create adds an interface, of which only the address matters.
net_iface_create(ifaces, ip) == ifaces \cup {ip}

\* The addresses of the interfaces net_init and wifi_init create.
Addrs == net_iface_create(net_iface_create({}, LoAddr), WlanAddr)
Receiver == "rx" \* the receive task, as the owner of a lock

-----------------------------------------------------------------------------
(* Packet buffers. *)

Headroom == 14 + 4  \* what pbuf_alloc leaves in front of the data
UdpHdr == 8
IpHdr == 20

\* The buffer pbuf_alloc returns when one is free.
pbuf_alloc == CHOOSE p \in free : TRUE

\* pbuf_free of the buffers ps: each has the one reference of pbuf_alloc.
pbuf_free(ps) == free' = free \cup ps

\* pbuf_prepend succeeds; what it leaves in front of the data.
CanPrepend(room, size) == room >= size

-----------------------------------------------------------------------------
(* Sockets. *)

Blank == [open |-> FALSE, proc |-> None, bound |-> FALSE, auto |-> FALSE,
          local_addr |-> 0, local_port |-> 0,
          rx_queue |-> <<>>, rx_wait |-> 0, lock |-> None, next |-> None]

NoFrame == [pc |-> "wait", buf |-> 0, sock |-> None, port |-> 0]

SocketsInit ==
  /\ free = Bufs /\ lost = {}
  /\ sock = [s \in Socks |-> Blank]
  /\ sockets = <<>>
  /\ next_port = FirstPort
  /\ call = [t \in Tasks |-> [pc |-> "user", sock |-> None]]
  /\ rx = NoFrame

\* Task t may make a call on socket s of its process.
Owns(t, s) == call[t].pc = "user" /\ sock[s].open /\ sock[s].proc = t

Set(s, r) == sock' = [sock EXCEPT ![s] = r]

\* The first socket of the list, and the one that follows a socket of it.
Front == IF sockets = <<>> THEN None ELSE Head(sockets)
Following(s) ==
  IF \E i \in DOMAIN sockets : i > 1 /\ sockets[i - 1] = s
  THEN sockets[CHOOSE i \in DOMAIN sockets : i > 1 /\ sockets[i - 1] = s] ELSE None

\* s->next, which of a socket that was closed is what it was then.
NextOf(s) == IF sock[s].open THEN Following(s) ELSE sock[s].next

\* sock_create: zeroed memory, the first block that is free, which may be that
\* of a closed socket (buffers on its queue are then forgotten), at the head
\* of the list.
sock_create(t, s) ==
  /\ Set(s, [Blank EXCEPT !.open = TRUE, !.proc = t])
  /\ lost' = lost \cup {sock[s].rx_queue[i] : i \in DOMAIN sock[s].rx_queue}
  /\ sockets' = <<s>> \o sockets
  /\ UNCHANGED <<free, next_port, call, rx>>

\* sock_alloc_fd, which module Files models, finds no descriptor or no memory:
\* the new socket is closed again.
CreateUndone(s) ==
  /\ Set(s, [Blank EXCEPT !.next = Front])
  /\ lost' = lost \cup {sock[s].rx_queue[i] : i \in DOMAIN sock[s].rx_queue}
  /\ UNCHANGED <<free, sockets, next_port, call, rx>>

SYSCALL_SOCKET(t) ==
  LET s == CHOOSE x \in Socks : ~sock[x].open IN
  /\ call[t].pc = "user" /\ \E x \in Socks : ~sock[x].open
  /\ sock_create(t, s) \/ CreateUndone(s)

\* Some other socket is bound to the address and port.
InUse(s, addr, port) ==
  \E i \in DOMAIN sockets :
    LET cur == sockets[i] IN
    /\ cur # s /\ sock[cur].bound
    /\ sock[cur].local_port = port /\ sock[cur].local_addr = addr

\* Mutant: the port runs past the last one.
NextPort_NoWrap == next_port + 1

NextPort == IF next_port + 1 > LastPort THEN FirstPort ELSE next_port + 1

\* Mutant: the search for a socket that has the port is forgotten.
sock_bind_Unchecked(s, addr, port) ==
  /\ sock[s].lock = None
  /\ Set(s, [sock[s] EXCEPT !.bound = TRUE, !.local_addr = addr, !.auto = (port = 0),
                            !.local_port = IF port = 0 THEN next_port ELSE port])
  /\ next_port' = IF port = 0 THEN NextPort ELSE next_port
  /\ UNCHANGED <<free, lost, sockets, call, rx>>

\* sock_bind: port 0 asks for an ephemeral port, chosen after the search.  A
\* refused call changes nothing.
sock_bind(s, addr, port) ==
  /\ sock[s].lock = None
  /\ ~InUse(s, addr, port)
  /\ Set(s, [sock[s] EXCEPT !.bound = TRUE, !.local_addr = addr, !.auto = (port = 0),
                            !.local_port = IF port = 0 THEN next_port ELSE port])
  /\ next_port' = IF port = 0 THEN NextPort ELSE next_port
  /\ UNCHANGED <<free, lost, sockets, call, rx>>

SYSCALL_BIND(t, s) ==
  Owns(t, s) /\ \E addr \in Addrs, port \in Ports \cup {0} : sock_bind(s, addr, port)

\* ipv4_output, with what is left of the headroom: a datagram that does not
\* fit is dropped without being freed; on lo it would go back to
\* net_iface_input, which frees it, since it takes the bytes of the source
\* address for an Ethernet type.
ipv4_output(p, room, addr) ==
  IF CanPrepend(room, IpHdr) /\ addr = LoAddr
  THEN UNCHANGED <<free, lost>>
  ELSE free' = free \ {p} /\ lost' = lost \cup {p}

\* udp_output: without an interface for the socket's address, or without
\* room, the buffer is not freed either.
udp_output(p, addr) ==
  IF addr \in Addrs /\ CanPrepend(Headroom, UdpHdr)
  THEN ipv4_output(p, Headroom - UdpHdr, addr)
  ELSE free' = free \ {p} /\ lost' = lost \cup {p}

\* sock_sendto: the remote address it stores is not part of the model.
sock_sendto(s) ==
  /\ free # {}
  /\ udp_output(pbuf_alloc, sock[s].local_addr)
  /\ UNCHANGED <<sock, sockets, next_port, call, rx>>

SYSCALL_SENDTO(t, s) == Owns(t, s) /\ sock_sendto(s)

\* sock_recvfrom takes the lock and keeps it ...
sock_recvfrom(t, s) ==
  /\ sock[s].lock = None
  /\ Set(s, [sock[s] EXCEPT !.lock = t])
  /\ call' = [call EXCEPT ![t] = [pc |-> "loop", sock |-> s]]
  /\ UNCHANGED <<free, lost, sockets, next_port, rx>>

\* Mutant: the lock stays with a task that returns with a datagram.
RecvLoop_KeepsLock(t) ==
  LET s == call[t].sock  r == sock[s] IN
  /\ call[t].pc = "loop"
  /\ IF r.rx_queue # <<>>
     THEN /\ Set(s, [r EXCEPT !.rx_queue = Tail(@)])
          /\ pbuf_free({Head(r.rx_queue)})
          /\ call' = [call EXCEPT ![t] = [pc |-> "user", sock |-> None]]
     ELSE /\ Set(s, [r EXCEPT !.rx_wait = 0])
          /\ call' = [call EXCEPT ![t].pc = "wait"]
          /\ UNCHANGED free
  /\ UNCHANGED <<lost, sockets, next_port, rx>>

\* ... while it tests the queue: an empty one makes it wait for a unit, the
\* first datagram of another is copied out and freed, and the lock released.
RecvLoop(t) ==
  LET s == call[t].sock  r == sock[s] IN
  /\ call[t].pc = "loop"
  /\ IF r.rx_queue # <<>>
     THEN /\ Set(s, [r EXCEPT !.rx_queue = Tail(@), !.lock = None])
          /\ pbuf_free({Head(r.rx_queue)})
          /\ call' = [call EXCEPT ![t] = [pc |-> "user", sock |-> None]]
     ELSE /\ IF r.rx_wait > 0
             THEN Set(s, [r EXCEPT !.rx_wait = @ - 1]) /\ UNCHANGED call
             ELSE call' = [call EXCEPT ![t].pc = "wait"] /\ UNCHANGED sock
          /\ UNCHANGED free
  /\ UNCHANGED <<lost, sockets, next_port, rx>>

\* What it returns to the program is not part of the model.
SYSCALL_RECVFROM(t, s) == Owns(t, s) /\ sock_recvfrom(t, s)

\* The first of a set of positions in the list.
First(at) == CHOOSE i \in at : \A j \in at : i <= j

\* The list of sockets without s.
Unlinked(s) ==
  LET at == {i \in DOMAIN sockets : sockets[i] = s} IN
  IF at = {} THEN sockets
  ELSE [i \in 1 .. Len(sockets) - 1 |-> sockets[IF i < First(at) THEN i ELSE i + 1]]

\* What sock_close leaves in the memory of s.
Closed(s) ==
  [sock[s] EXCEPT !.open = FALSE, !.proc = None, !.auto = FALSE,
                  !.rx_queue = <<>>, !.next = Following(s)]

\* Mutant: the datagrams still queued are forgotten.
sock_close_KeepsQueue(s) ==
  /\ sock[s].lock = None
  /\ sockets' = Unlinked(s)
  /\ Set(s, Closed(s))
  /\ UNCHANGED <<free, lost, next_port, call, rx>>

\* sock_close (the count of references is 1 from sock_create on): unlink, free
\* the queued datagrams, free the socket.
sock_close(s) ==
  /\ sock[s].lock = None
  /\ sockets' = Unlinked(s)
  /\ pbuf_free({sock[s].rx_queue[i] : i \in DOMAIN sock[s].rx_queue})
  /\ Set(s, Closed(s))
  /\ UNCHANGED <<lost, next_port, call, rx>>

sock_close_file(t, s) == Owns(t, s) /\ sock_close(s)

-----------------------------------------------------------------------------
(* The input path.  A frame is what the layers read of it.  net_iface_input *)
(* looks at the Ethernet type but does not strip the header: the next layer *)
(* reads its own header from the same bytes.  "valid" stands for a layer's  *)
(* checks of length, version and checksum and, for IPv4, of the address.    *)

UdpFrames == [type : {"IP"}, valid : BOOLEAN, protocol : {"UDP"}, fits : BOOLEAN,
              dport : Ports \cup FirstPort .. LastPort]

\* udp_input up to the search, which starts at the head of the list.
udp_input(f) ==
  /\ f.fits
  /\ rx' = [pc |-> "find", buf |-> pbuf_alloc, sock |-> Front, port |-> f.dport]
  /\ free' = free \ {pbuf_alloc}
  /\ UNCHANGED <<lost, sock, sockets, next_port, call>>

ipv4_input(f) == f.valid /\ f.protocol = "UDP" /\ udp_input(f)

\* net_iface_input, for a frame the receive task has copied to a buffer.
\* A frame that is freed on the way changes nothing and is not a step.
net_iface_input(f) ==
  /\ rx.pc = "wait" /\ free # {}
  /\ \A s \in Socks : sock[s].rx_wait < MaxUnits
  /\ f.type = "IP" /\ ipv4_input(f)

\* sock_find_udp looks at one socket, without a lock: it may have been closed
\* since the pointer to it was read.  A datagram for no socket is freed.
sock_find_udp ==
  /\ rx.pc = "find"
  /\ IF rx.sock = None
     THEN rx' = NoFrame /\ pbuf_free({rx.buf})
     ELSE /\ rx' = IF /\ sock[rx.sock].bound /\ sock[rx.sock].local_addr = WlanAddr
                      /\ sock[rx.sock].local_port = rx.port
                   THEN [rx EXCEPT !.pc = "lock"] ELSE [rx EXCEPT !.sock = NextOf(rx.sock)]
          /\ UNCHANGED free
  /\ UNCHANGED <<lost, sock, sockets, next_port, call>>

\* The rest of udp_input, on a socket that may have been closed meanwhile.
RxLocks ==
  /\ rx.pc = "lock" /\ sock[rx.sock].lock = None
  /\ Set(rx.sock, [sock[rx.sock] EXCEPT !.lock = Receiver])
  /\ rx' = [rx EXCEPT !.pc = "push"]
  /\ UNCHANGED <<free, lost, sockets, next_port, call>>

RxPushes ==
  /\ rx.pc = "push"
  /\ Set(rx.sock, [sock[rx.sock] EXCEPT !.rx_queue = <<rx.buf>> \o @])
  /\ rx' = [rx EXCEPT !.pc = "signal", !.buf = 0]
  /\ UNCHANGED <<free, lost, sockets, next_port, call>>

\* Mutant: semaphore_signal only when a task waits, as with a condition.
RxSignals_OnlyWaiters ==
  LET waiting == {t \in Tasks : call[t].pc = "wait" /\ call[t].sock = rx.sock} IN
  /\ rx.pc = "signal"
  /\ rx' = [rx EXCEPT !.pc = "unlock"]
  /\ call' = [t \in Tasks |-> IF t \in waiting THEN [call[t] EXCEPT !.pc = "loop"] ELSE call[t]]
  /\ UNCHANGED <<free, lost, sock, sockets, next_port>>

\* semaphore_signal gives the unit to a task that waits, or counts it.
RxSignals ==
  LET waiting == {t \in Tasks : call[t].pc = "wait" /\ call[t].sock = rx.sock} IN
  /\ rx.pc = "signal"
  /\ rx' = [rx EXCEPT !.pc = "unlock"]
  /\ IF waiting = {}
     THEN Set(rx.sock, [sock[rx.sock] EXCEPT !.rx_wait = @ + 1]) /\ UNCHANGED call
     ELSE \E t \in waiting : call' = [call EXCEPT ![t].pc = "loop"] /\ UNCHANGED sock
  /\ UNCHANGED <<free, lost, sockets, next_port>>

\* mutex_unlock does nothing for a task that is not the owner, as when the
\* socket has been created anew.
RxUnlocks ==
  /\ rx.pc = "unlock"
  /\ Set(rx.sock, [sock[rx.sock] EXCEPT !.lock = IF @ = Receiver THEN None ELSE @])
  /\ rx' = NoFrame
  /\ UNCHANGED <<free, lost, sockets, next_port, call>>

-----------------------------------------------------------------------------
User ==
  \E t \in Tasks :
    \/ SYSCALL_SOCKET(t)
    \/ RecvLoop(t)
    \/ \E s \in Socks : \/ SYSCALL_BIND(t, s) \/ SYSCALL_SENDTO(t, s)
                         \/ SYSCALL_RECVFROM(t, s) \/ sock_close_file(t, s)

Receive == sock_find_udp \/ RxLocks \/ RxPushes \/ RxSignals \/ RxUnlocks

SocketsNext ==
  \/ User
  \/ \E f \in UdpFrames : net_iface_input(f)
  \/ Receive

SocketsSpec == SocketsInit /\ [][SocketsNext]_sockvars

\* The receive task gets the CPU again and again, and so does a task that is
\* in recvfrom and does not wait.
SocketsFairness == WF_sockvars(Receive) /\ \A t \in Tasks : WF_sockvars(RecvLoop(t))
SocketsFairSpec == SocketsSpec /\ SocketsFairness

-----------------------------------------------------------------------------
\* Every pointer points at a buffer, socket or task, every counter is in range.
SocketsTypeOK ==
  /\ free \subseteq Bufs /\ lost \subseteq Bufs
  /\ sock \in [Socks -> [open : BOOLEAN, proc : Tasks \cup {None}, bound : BOOLEAN,
                         auto : BOOLEAN, local_addr : Addrs,
                         local_port : Ports \cup FirstPort .. LastPort \cup {0},
                         rx_queue : Seq(Bufs), rx_wait : 0 .. MaxUnits,
                         lock : Tasks \cup {None, Receiver}, next : Socks \cup {None}]]
  /\ sockets \in Seq(Socks)
  /\ next_port \in FirstPort .. LastPort
  /\ call \in [Tasks -> [pc : {"user", "loop", "wait"}, sock : Socks \cup {None}]]
  /\ rx \in [pc : {"wait", "find", "lock", "push", "signal", "unlock"},
             buf : Bufs \cup {0}, sock : Socks \cup {None},
             port : Ports \cup FirstPort .. LastPort \cup {0}]

\* The places in which buffer p is: free, forgotten, in the receive task's
\* hands, or at a position of a socket's queue.
Places(p) ==
  {x \in {"free"} : p \in free} \cup {x \in {"lost"} : p \in lost}
    \cup {x \in {"rx"} : p = rx.buf}
    \cup {x \in Socks \X Bufs : x[2] <= Len(sock[x[1]].rx_queue)
                                  /\ sock[x[1]].rx_queue[x[2]] = p}

\* Every packet buffer is in exactly one place, whatever the order in which
\* the receive task delivers, programs receive and close, and memory of a
\* closed socket is used again: pbuf_free never frees a queued buffer, no
\* buffer is queued twice, and none is forgotten but by a failed send or on a
\* socket closed under the receive task.
BuffersConserved == \A p \in Bufs : Cardinality(Places(p)) = 1

\* A datagram that is queued has a unit of rx_wait, unless the receive task is
\* about to signal it or it was given to the task that waited: recvfrom never
\* waits beside a queued datagram nobody will signal.
UnitsCoverQueue ==
  \A s \in Socks : sock[s].open =>
    Len(sock[s].rx_queue)
      <= sock[s].rx_wait + (IF rx.pc = "signal" /\ rx.sock = s THEN 1 ELSE 0)
           + Cardinality({t \in Tasks : call[t].pc = "loop" /\ call[t].sock = s})

\* Two sockets share an address and a port only if sock_bind chose one of the
\* ports itself: it looks for port 0 before it takes the next ephemeral port.
ExplicitPortsDistinct ==
  \A s, u \in Socks :
    /\ s # u /\ sock[s].open /\ sock[u].open /\ sock[s].bound /\ sock[u].bound
    /\ sock[s].local_port = sock[u].local_port
    /\ sock[s].local_addr = sock[u].local_addr
    => sock[s].auto \/ sock[u].auto

\* The receive task, once it has a datagram, comes back to its next frame, or
\* else some program waits in recvfrom on the socket it is for: following the
\* pointers of closed sockets never makes the search run for ever, unless
\* programs keep changing the list under it.
InputResumes ==
  <>[][sockets' = sockets]_sockvars =>
    (rx.pc # "wait" ~>
       (rx.pc = "wait" \/ \E t \in Tasks : call[t].pc = "wait" /\ call[t].sock = rx.sock))

\* A program that waits in recvfrom on a socket for which a datagram has
\* arrived receives it (HARDWARE.md lists recvfrom() among the calls).
ReceiverServed ==
  \A t \in Tasks :
    (call[t].pc = "wait" /\ rx.pc = "lock" /\ rx.sock = call[t].sock) ~> call[t].pc = "user"

=============================================================================
