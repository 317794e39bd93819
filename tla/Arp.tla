-------------------------------- MODULE Arp --------------------------------
(***************************************************************************)
(* The ARP table of kernel/net/net.c: the frames that change it, read by   *)
(* the Wi-Fi receive task, and net_tick, which the timer interrupt calls.  *)
(* arp_input's search and update of the table are one step: a sweep that   *)
(* comes in between has the effect of one that comes after.                *)
(*                                                                         *)
(* A frame is what the layers read of it.  net_iface_input looks at the    *)
(* Ethernet type but does not strip the header, so that the next layer     *)
(* reads its own header from the same bytes.  "valid" stands for a layer's *)
(* checks of length, version, checksum and destination.                    *)
(***************************************************************************)
EXTENDS Integers

CONSTANTS
  Hosts,      \* the protocol addresses of other hosts
  NumArp,     \* NET_MAX_ARP_ENTRIES
  ArpPeriod,  \* 1000, the ticks between two sweeps of the table
  ArpTimeout, \* 300
  MaxMac,     \* bound on the hardware addresses a host announces
  NoHost      \* the protocol address 0

ASSUME ArpAssumption ==
  /\ NumArp \in Nat /\ MaxMac \in Nat
  /\ ArpPeriod \in Nat \ {0} /\ ArpTimeout \in Nat \ {0}
  /\ NoHost \notin Hosts

VARIABLES
  arp_table,
  arp_tick,
  announced   \* how many hardware addresses each host has announced

arpvars == <<arp_table, arp_tick, announced>>

Slots == 1 .. NumArp

\* net_init
ArpInit ==
  /\ arp_table = [i \in Slots |-> [used |-> FALSE, ip_addr |-> NoHost, mac |-> 0, expire |-> 0]]
  /\ arp_tick = 0
  /\ announced = [h \in Hosts |-> 0]

ArpFrames == [type : {"ARP"}, valid : BOOLEAN, op : {"request", "reply", "other"},
              for_us : BOOLEAN, spa : Hosts \cup {NoHost}]
IcmpFrames == [type : {"IP"}, valid : BOOLEAN, protocol : {"ICMP", "other"},
               request : BOOLEAN, again : ArpFrames]

\* The slots arp_input may use for a host.
Usable(ip) == {i \in Slots : ~arp_table[i].used \/ arp_table[i].ip_addr = ip}

\* Mutant: an unused slot is taken before the host's own.
ArpSlot_UnusedFirst(ip) ==
  LET unused == {i \in Slots : ~arp_table[i].used}
      from == IF unused = {} THEN Usable(ip) ELSE unused IN
  IF from = {} THEN 0 ELSE CHOOSE i \in from : \A j \in from : i <= j

\* Mutant: a full table gives up its first entry.
ArpSlot_Evicts(ip) ==
  IF Usable(ip) = {} THEN 1
  ELSE CHOOSE i \in Usable(ip) : \A j \in Usable(ip) : i <= j

\* The first of them, 0 when the table is full.
ArpSlot(ip) ==
  IF Usable(ip) = {} THEN 0
  ELSE CHOOSE i \in Usable(ip) : \A j \in Usable(ip) : i <= j

\* arp_input learns from a frame.  A request for this host is answered first;
\* without a buffer for the answer the frame is dropped.  (The answer goes to
\* loopback_xmit and is freed: the start of a hardware address is read as its
\* operation.)
Learns(a, reply) ==
  /\ a.valid /\ a.spa # NoHost
  /\ a.op = "reply" \/ (a.op = "request" /\ (a.for_us => reply))

\* arp_input, for a host that announces an address it has not used before.
arp_input(a, reply) ==
  LET i == ArpSlot(a.spa) IN
  /\ Learns(a, reply)
  /\ announced[a.spa] < MaxMac
  /\ announced' = [announced EXCEPT ![a.spa] = @ + 1]
  /\ arp_table' = IF i = 0 THEN arp_table
                  ELSE [arp_table EXCEPT ![i] =
                         [used |-> TRUE, ip_addr |-> a.spa, mac |-> announced[a.spa] + 1,
                          expire |-> arp_tick + ArpTimeout]]
  /\ UNCHANGED arp_tick

\* icmp_input makes a reply of an echo request and gives it to loopback_xmit
\* with its data at the ICMP header, which net_iface_input reads as a frame: as
\* an IPv4 packet it has the wrong version, as ARP it is what "again" says.
icmp_input(f, reply) == f.request /\ arp_input(f.again, reply)

ipv4_input(f, reply) == f.valid /\ f.protocol = "ICMP" /\ icmp_input(f, reply)

\* A frame that some layer drops changes nothing and is not a step.
net_iface_input(f, reply) ==
  \/ f.type = "IP" /\ ipv4_input(f, reply)
  \/ f.type = "ARP" /\ arp_input(f, reply)

\* What arp_resolve finds for an address, 0 when it fails.
arp_resolve(ip) ==
  LET hits == {i \in Slots : arp_table[i].used /\ arp_table[i].ip_addr = ip} IN
  IF hits = {} THEN 0 ELSE arp_table[CHOOSE i \in hits : \A j \in hits : i <= j].mac

\* Mutant: the count of ticks is not started again.
net_tick_NoReset ==
  /\ arp_tick' = arp_tick + 1
  /\ arp_table' = IF arp_tick + 1 < ArpPeriod THEN arp_table
                  ELSE [i \in Slots |->
                         [arp_table[i] EXCEPT !.used = @ /\ arp_tick + 1 <= arp_table[i].expire]]
  /\ UNCHANGED announced

\* Mutant: the count starts again before the sweep, which then finds nothing.
net_tick_ResetFirst ==
  /\ arp_tick' = (arp_tick + 1) % ArpPeriod
  /\ UNCHANGED <<arp_table, announced>>

\* net_tick.  An entry whose expire has not been reached at the sweep meets the
\* same count at every later one.  (expire is never 0 in a used entry.)
net_tick ==
  /\ arp_tick' = (arp_tick + 1) % ArpPeriod
  /\ arp_table' = IF arp_tick + 1 < ArpPeriod THEN arp_table
                  ELSE [i \in Slots |->
                         [arp_table[i] EXCEPT !.used = @ /\ arp_tick + 1 <= arp_table[i].expire]]
  /\ UNCHANGED announced

ArpNext ==
  \/ \E f \in ArpFrames \cup IcmpFrames, reply \in BOOLEAN : net_iface_input(f, reply)
  \/ net_tick

\* The timer interrupts for ever.
ArpSpec == ArpInit /\ [][ArpNext]_arpvars /\ WF_arpvars(net_tick)

-----------------------------------------------------------------------------
\* Entries hold hosts and announced addresses; the tick stays below the period.
ArpTypeOK ==
  /\ arp_table \in [Slots -> [used : BOOLEAN, ip_addr : Hosts \cup {NoHost},
                              mac : 0 .. MaxMac, expire : 0 .. ArpPeriod + ArpTimeout - 1]]
  /\ arp_tick \in 0 .. ArpPeriod - 1
  /\ announced \in [Hosts -> 0 .. MaxMac]

\* Once a sweep has freed a slot in front of a host's entry, arp_input may leave
\* the host with two entries.  arp_resolve, which stops at the first, then
\* finds the address announced last of those the table holds.
ResolvesToNewest ==
  \A i \in Slots : arp_table[i].used => arp_resolve(arp_table[i].ip_addr) >= arp_table[i].mac

\* A frame never makes a host resolve to an address it announced earlier than
\* the one it resolved to before.  A sweep can: it may drop the newer of two
\* entries and keep an older one that it never drops.
OnlySweepsGoBack ==
  [][\A h \in Hosts : arp_resolve(h)' \in 1 .. arp_resolve(h) - 1 => net_tick]_arpvars

\* An entry learned early enough in a period is swept out or learned again; one
\* learned within the timeout of the sweep is not covered: it never expires.
EarlyEntriesExpire ==
  \A i \in Slots, e \in 1 .. ArpPeriod - 1 :
    (arp_table[i].used /\ arp_table[i].expire = e) ~>
      ~(arp_table[i].used /\ arp_table[i].expire = e)

=============================================================================
