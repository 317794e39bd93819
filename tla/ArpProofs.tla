----------------------------- MODULE ArpProofs -----------------------------
(***************************************************************************)
(* Proofs about module Arp, for a table of any size, any hosts and any     *)
(* period and timeout: the types, that arp_resolve finds the newest        *)
(* address the table holds, and that no frame makes it forget a newer one. *)
(*                                                                         *)
(* A host may have several entries.  NewestFirst is what keeps the first   *)
(* of them the newest: arp_input writes the first slot it may use, and     *)
(* every entry of the host is a slot it may use.                           *)
(***************************************************************************)
EXTENDS Arp, WellFoundedInduction, TLAPS

\* Entries are of hosts, and hold addresses those have announced.
EntriesAnnounced ==
  \A i \in Slots : arp_table[i].used =>
    arp_table[i].ip_addr \in Hosts /\ arp_table[i].mac =< announced[arp_table[i].ip_addr]

\* Of two entries of a host the first is not older.
NewestFirst ==
  \A i, j \in Slots :
    /\ i =< j /\ arp_table[i].used /\ arp_table[j].used
    /\ arp_table[i].ip_addr = arp_table[j].ip_addr
    => arp_table[i].mac >= arp_table[j].mac

ArpInv == ArpTypeOK /\ EntriesAnnounced /\ NewestFirst

-----------------------------------------------------------------------------
\* A non-empty set of slots has a first one, and CHOOSE names it.
LEMMA FirstSlot ==
  ASSUME NEW S, S \subseteq Slots, S # {}
  PROVE  LET f == CHOOSE i \in S : \A j \in S : i <= j
         IN f \in S /\ \A j \in S : f <= j
<1>1. S \subseteq Nat
  BY ArpAssumption DEF Slots
<1>2. PICK m \in S : \A n \in S : ~(<<n, m>> \in OpToRel(<, Nat))
  BY <1>1, NatLessThanWellFounded, WFMin
<1>3. \A n \in S : ~(n < m)
  BY <1>1, <1>2 DEF OpToRel
<1>4. \E i \in S : \A j \in S : i <= j
  BY <1>1, <1>3
<1> QED
  BY <1>4, Zenon

\* The slot arp_input writes: none only when no slot may be used, and else the
\* first of them.
LEMMA ArpSlotFirst ==
  ASSUME NEW ip
  PROVE  /\ ArpSlot(ip) = 0 => Usable(ip) = {}
         /\ ArpSlot(ip) # 0 => /\ ArpSlot(ip) \in Usable(ip) /\ ArpSlot(ip) \in Slots
                               /\ \A j \in Usable(ip) : ArpSlot(ip) =< j
<1>1. Usable(ip) \subseteq Slots /\ 0 \notin Slots
  BY ArpAssumption DEF Usable, Slots
<1>2. CASE Usable(ip) = {}
  BY <1>2 DEF ArpSlot
<1>3. CASE Usable(ip) # {}
  <2> DEFINE f == CHOOSE i \in Usable(ip) : \A j \in Usable(ip) : i <= j
  <2>1. f \in Usable(ip) /\ \A j \in Usable(ip) : f <= j
    BY <1>1, <1>3, FirstSlot, Zenon
  <2>2. ArpSlot(ip) = f
    BY <1>3 DEF ArpSlot
  <2> QED
    BY <1>1, <2>1, <2>2, Zenon
<1> QED
  BY <1>2, <1>3

\* Every frame that is a step ends in arp_input.
LEMMA FrameIsArp ==
  ASSUME NEW f \in ArpFrames \cup IcmpFrames, NEW reply \in BOOLEAN,
         net_iface_input(f, reply)
  PROVE  \E a \in ArpFrames : arp_input(a, reply)
<1>1. CASE f.type = "IP"
  <2>1. f \in IcmpFrames /\ f.again \in ArpFrames
    BY <1>1 DEF ArpFrames, IcmpFrames
  <2>2. arp_input(f.again, reply)
    BY <1>1 DEF net_iface_input, ipv4_input, icmp_input
  <2> QED
    BY <2>1, <2>2
<1>2. CASE f.type = "ARP"
  <2>1. f \in ArpFrames
    BY <1>2 DEF ArpFrames, IcmpFrames
  <2>2. arp_input(f, reply)
    BY <1>2 DEF net_iface_input
  <2> QED
    BY <2>1, <2>2
<1> QED
  BY <1>1, <1>2 DEF net_iface_input

-----------------------------------------------------------------------------
LEMMA ArpInitInv ==
  ArpInit => ArpInv
  BY ArpAssumption DEF ArpInit, ArpInv, ArpTypeOK, EntriesAnnounced, NewestFirst, Slots

LEMMA ArpInputInv ==
  ASSUME ArpInv, NEW a \in ArpFrames, NEW reply \in BOOLEAN, arp_input(a, reply)
  PROVE  ArpInv'
<1> DEFINE k == ArpSlot(a.spa)
<1> DEFINE e == [used |-> TRUE, ip_addr |-> a.spa, mac |-> announced[a.spa] + 1,
                 expire |-> arp_tick + ArpTimeout]
<1>1. a.spa \in Hosts /\ announced[a.spa] \in Nat /\ announced[a.spa] < MaxMac
      /\ announced' = [announced EXCEPT ![a.spa] = @ + 1] /\ arp_tick' = arp_tick
  BY ArpAssumption DEF arp_input, Learns, ArpFrames, ArpInv, ArpTypeOK
<1>2. announced' \in [Hosts -> 0 .. MaxMac]
      /\ \A h \in Hosts : announced[h] \in Nat /\ announced'[h] \in Nat
                          /\ announced'[h] >= announced[h]
  BY <1>1, ArpAssumption DEF ArpInv, ArpTypeOK
<1>3. CASE k = 0
  <2>1. arp_table' = arp_table
    BY <1>3 DEF arp_input
  <2>2. ArpTypeOK'
    BY <1>1, <1>2, <2>1 DEF ArpInv, ArpTypeOK
  <2>3. EntriesAnnounced'
    <3> SUFFICES ASSUME NEW i \in Slots, arp_table[i].used
                 PROVE  arp_table[i].ip_addr \in Hosts
                        /\ arp_table[i].mac =< announced'[arp_table[i].ip_addr]
      BY <2>1 DEF EntriesAnnounced
    <3>1. arp_table[i].ip_addr \in Hosts /\ arp_table[i].mac \in Nat
          /\ arp_table[i].mac =< announced[arp_table[i].ip_addr]
      BY ArpAssumption DEF ArpInv, ArpTypeOK, EntriesAnnounced
    <3> QED
      BY <1>2, <3>1
  <2>4. NewestFirst'
    BY <2>1 DEF ArpInv, NewestFirst
  <2> QED
    BY <2>2, <2>3, <2>4 DEF ArpInv
<1>4. CASE k # 0
  <2> HIDE DEF k
  <2>1. k \in Slots /\ k \in Usable(a.spa) /\ \A j \in Usable(a.spa) : k =< j
    BY <1>4, ArpSlotFirst DEF k
  <2>2. arp_table' = [arp_table EXCEPT ![k] = e]
    BY <1>4 DEF arp_input, k
  <2>3. e \in [used : BOOLEAN, ip_addr : Hosts \cup {NoHost},
               mac : 0 .. MaxMac, expire : 0 .. ArpPeriod + ArpTimeout - 1]
    BY <1>1, ArpAssumption DEF ArpInv, ArpTypeOK
  <2> HIDE DEF e
  <2>4. ArpTypeOK'
    BY <1>1, <1>2, <2>1, <2>2, <2>3 DEF ArpInv, ArpTypeOK
  <2>5. arp_table'[k] = e /\ \A i \in Slots : i # k => arp_table'[i] = arp_table[i]
    BY <2>1, <2>2 DEF ArpInv, ArpTypeOK
  <2>6. e.used /\ e.ip_addr = a.spa /\ e.mac = announced[a.spa] + 1
        /\ announced'[a.spa] = announced[a.spa] + 1
    BY <1>1 DEF e, ArpInv, ArpTypeOK
  <2>7. \A i \in Slots : arp_table[i].used =>
           arp_table[i].ip_addr \in Hosts /\ arp_table[i].mac \in Nat
           /\ arp_table[i].mac =< announced[arp_table[i].ip_addr]
    BY ArpAssumption DEF ArpInv, ArpTypeOK, EntriesAnnounced
  <2>8. EntriesAnnounced'
    <3> SUFFICES ASSUME NEW i \in Slots, arp_table'[i].used
                 PROVE  arp_table'[i].ip_addr \in Hosts
                        /\ arp_table'[i].mac =< announced'[arp_table'[i].ip_addr]
      BY DEF EntriesAnnounced
    <3>1. CASE i = k
      BY <1>1, <2>5, <2>6, <3>1
    <3>2. CASE i # k
      BY <1>2, <2>5, <2>7, <3>2
    <3> QED
      BY <3>1, <3>2
  <2>9. NewestFirst'
    <3> SUFFICES ASSUME NEW i \in Slots, NEW j \in Slots, i =< j,
                        arp_table'[i].used, arp_table'[j].used,
                        arp_table'[i].ip_addr = arp_table'[j].ip_addr
                 PROVE  arp_table'[i].mac >= arp_table'[j].mac
      BY DEF NewestFirst
    <3>1. CASE i = k /\ j = k
      BY <1>1, <2>5, <2>6, <3>1
    <3>2. CASE i = k /\ j # k
      BY <1>1, <2>5, <2>6, <2>7, <3>2
    <3>3. CASE i # k /\ j = k
      \* An entry of the host before slot k would have been used itself.
      <4>1. i \in Usable(a.spa)
        BY <2>5, <2>6, <3>3 DEF Usable
      <4> QED
        BY <2>1, <3>3, <4>1 DEF Slots
    <3>4. CASE i # k /\ j # k
      BY <2>5, <3>4 DEF ArpInv, NewestFirst
    <3> QED
      BY <3>1, <3>2, <3>3, <3>4
  <2> QED
    BY <2>4, <2>8, <2>9 DEF ArpInv
<1> QED
  BY <1>3, <1>4

\* A sweep only clears used.
LEMMA NetTickInv ==
  ASSUME ArpInv, net_tick
  PROVE  ArpInv'
<1>1. ASSUME NEW i \in Slots
      PROVE  /\ arp_table'[i] \in [used : BOOLEAN, ip_addr : Hosts \cup {NoHost},
                                   mac : 0 .. MaxMac, expire : 0 .. ArpPeriod + ArpTimeout - 1]
             /\ arp_table'[i].ip_addr = arp_table[i].ip_addr
             /\ arp_table'[i].mac = arp_table[i].mac
             /\ arp_table'[i].used => arp_table[i].used
  <2>1. CASE arp_table' = arp_table
    BY <2>1 DEF ArpInv, ArpTypeOK
  <2>2. CASE arp_table' # arp_table
    <3> DEFINE u == arp_table[i].used /\ arp_tick + 1 <= arp_table[i].expire
    <3>1. arp_table'[i] = [arp_table[i] EXCEPT !.used = u]
      BY <2>2 DEF net_tick
    <3>2. u \in BOOLEAN /\ (u => arp_table[i].used)
      BY DEF ArpInv, ArpTypeOK
    <3> HIDE DEF u
    <3> QED
      BY <3>1, <3>2 DEF ArpInv, ArpTypeOK
  <2> QED
    BY <2>1, <2>2
<1>2. ArpTypeOK'
  <2>1. arp_tick' \in 0 .. ArpPeriod - 1
    BY ArpAssumption DEF net_tick, ArpInv, ArpTypeOK
  <2>2. arp_table' = [i \in Slots |-> arp_table'[i]]
    BY DEF net_tick, ArpInv, ArpTypeOK
  <2> QED
    BY <1>1, <2>1, <2>2 DEF net_tick, ArpInv, ArpTypeOK
<1>3. EntriesAnnounced'
  BY <1>1 DEF net_tick, ArpInv, EntriesAnnounced
<1>4. NewestFirst'
  BY <1>1 DEF ArpInv, NewestFirst
<1> QED
  BY <1>2, <1>3, <1>4 DEF ArpInv

\* The invariant holds of every behaviour of the table.
THEOREM ArpInvariant ==
  ArpSpec => []ArpInv
<1>1. ArpInv /\ [ArpNext]_arpvars => ArpInv'
  <2> SUFFICES ASSUME ArpInv, [ArpNext]_arpvars PROVE ArpInv'
    OBVIOUS
  <2>1. ASSUME NEW f \in ArpFrames \cup IcmpFrames, NEW reply \in BOOLEAN,
               net_iface_input(f, reply)
        PROVE  ArpInv'
    BY <2>1, FrameIsArp, ArpInputInv
  <2>2. CASE net_tick
    BY <2>2, NetTickInv
  <2>3. CASE UNCHANGED arpvars
    BY <2>3 DEF arpvars, ArpInv, ArpTypeOK, EntriesAnnounced, NewestFirst
  <2> QED
    BY <2>1, <2>2, <2>3 DEF ArpNext
<1> QED
  BY <1>1, ArpInitInv, PTL DEF ArpSpec

\* Types: the entries hold hosts and announced addresses, and arp_tick stays
\* below the period of the sweeps.
THEOREM ArpTypes ==
  ArpSpec => []ArpTypeOK
<1>1. ArpInv => ArpTypeOK
  BY DEF ArpInv
<1> QED
  BY <1>1, ArpInvariant, PTL

-----------------------------------------------------------------------------
\* What arp_resolve returns: the address in the host's first entry.
ResolvesFirst ==
  \A ip \in Hosts :
    \/ /\ arp_resolve(ip) = 0
       /\ \A i \in Slots : ~(arp_table[i].used /\ arp_table[i].ip_addr = ip)
    \/ \E f \in Slots :
         /\ arp_table[f].used /\ arp_table[f].ip_addr = ip
         /\ arp_resolve(ip) = arp_table[f].mac
         /\ \A i \in Slots : arp_table[i].used /\ arp_table[i].ip_addr = ip => f =< i

LEMMA ResolveFirst ==
  ResolvesFirst
<1> SUFFICES
      ASSUME NEW ip \in Hosts
      PROVE  \/ /\ arp_resolve(ip) = 0
                /\ \A i \in Slots : ~(arp_table[i].used /\ arp_table[i].ip_addr = ip)
             \/ \E f \in Slots :
                  /\ arp_table[f].used /\ arp_table[f].ip_addr = ip
                  /\ arp_resolve(ip) = arp_table[f].mac
                  /\ \A i \in Slots : arp_table[i].used /\ arp_table[i].ip_addr = ip => f =< i
  BY DEF ResolvesFirst
<1> DEFINE hits == {i \in Slots : arp_table[i].used /\ arp_table[i].ip_addr = ip}
<1>1. CASE hits = {}
  BY <1>1 DEF arp_resolve
<1>2. CASE hits # {}
  <2> DEFINE f == CHOOSE i \in hits : \A j \in hits : i <= j
  <2>1. hits \subseteq Slots
    OBVIOUS
  <2> HIDE DEF hits
  <2>2. f \in hits /\ \A j \in hits : f <= j
    BY <1>2, <2>1, FirstSlot, Zenon
  <2>3. arp_resolve(ip) = arp_table[f].mac
    BY <1>2 DEF arp_resolve, hits
  <2> HIDE DEF f
  <2> QED
    BY <2>2, <2>3 DEF hits
<1> QED
  BY <1>1, <1>2

\* arp_resolve finds the newest of the addresses the table holds for a host,
\* although the host may have more than one entry.
THEOREM ResolveFindsNewest ==
  ArpSpec => []ResolvesToNewest
<1>1. ArpInv => ResolvesToNewest
  <2> SUFFICES ASSUME ArpInv, NEW i \in Slots, arp_table[i].used
               PROVE  arp_resolve(arp_table[i].ip_addr) >= arp_table[i].mac
    BY DEF ResolvesToNewest
  <2>1. PICK f \in Slots :
          /\ arp_table[f].used /\ arp_table[f].ip_addr = arp_table[i].ip_addr
          /\ arp_resolve(arp_table[i].ip_addr) = arp_table[f].mac
          /\ f =< i
    BY ResolveFirst DEF ResolvesFirst, ArpInv, EntriesAnnounced
  <2> QED
    BY <2>1 DEF ArpInv, NewestFirst
<1> QED
  BY <1>1, ArpInvariant, PTL

\* A frame leaves what a host resolves to or replaces it by something newer.
LEMMA FrameResolvesForward ==
  ASSUME ArpInv, ArpInv', NEW a \in ArpFrames, NEW reply \in BOOLEAN, arp_input(a, reply),
         NEW h \in Hosts
  PROVE  arp_resolve(h)' \notin 1 .. arp_resolve(h) - 1
<1> DEFINE k == ArpSlot(a.spa)
<1>1. ResolvesFirst /\ ResolvesFirst'
  BY ResolveFirst, PTL
<1>2. arp_resolve(h) \in Int /\ arp_resolve(h)' \in Int
  BY <1>1 DEF ResolvesFirst, ArpInv, ArpTypeOK
<1>3. SUFFICES ASSUME arp_resolve(h) # 0, arp_resolve(h)' # 0
               PROVE  arp_resolve(h)' >= arp_resolve(h)
  BY <1>2
<1>4. PICK f \in Slots :
        /\ arp_table[f].used /\ arp_table[f].ip_addr = h /\ arp_resolve(h) = arp_table[f].mac
        /\ \A i \in Slots : arp_table[i].used /\ arp_table[i].ip_addr = h => f =< i
  BY <1>1, <1>3 DEF ResolvesFirst
<1>5. PICK g \in Slots :
        /\ arp_table'[g].used /\ arp_table'[g].ip_addr = h
        /\ arp_resolve(h)' = arp_table'[g].mac
        /\ \A i \in Slots : arp_table'[i].used /\ arp_table'[i].ip_addr = h => g =< i
  BY <1>1, <1>3 DEF ResolvesFirst
<1>6. CASE k = 0
  <2>1. arp_table' = arp_table
    BY <1>6 DEF arp_input
  <2>2. arp_resolve(h)' = arp_resolve(h)
    BY <2>1 DEF arp_resolve
  <2> QED
    BY <1>2, <2>2
<1>7. CASE k # 0
  <2> HIDE DEF k
  <2>1. k \in Slots /\ k \in Usable(a.spa) /\ \A j \in Usable(a.spa) : k =< j
    BY <1>7, ArpSlotFirst DEF k
  <2>2. /\ arp_table'[k].used /\ arp_table'[k].ip_addr = a.spa
        /\ arp_table'[k].mac = announced[a.spa] + 1
        /\ \A i \in Slots : i # k => arp_table'[i] = arp_table[i]
    BY <1>7, <2>1 DEF arp_input, k, ArpInv, ArpTypeOK
  <2>3. CASE h = a.spa
    \* The host's first entry is now slot k, with the newest address.
    <3>1. f \in Usable(a.spa) /\ k =< f
      BY <1>4, <2>1, <2>3 DEF Usable
    <3>2. g = k
      <4>1. g =< k
        BY <1>5, <2>1, <2>2, <2>3
      <4>2. g # k => g \in Usable(a.spa)
        BY <1>5, <2>2, <2>3 DEF Usable
      <4> QED
        BY <2>1, <4>1, <4>2 DEF Slots
    <3>3. arp_table[f].mac =< announced[h] /\ announced[h] \in Nat
          /\ arp_table[f].mac \in Nat
      BY <1>4, ArpAssumption DEF ArpInv, EntriesAnnounced, ArpTypeOK
    <3> QED
      BY <1>4, <1>5, <2>2, <2>3, <3>2, <3>3
  <2>4. CASE h # a.spa
    \* The entries of other hosts are not slots arp_input may use.
    <3>1. f # k
      BY <1>4, <2>1, <2>4 DEF Usable
    <3>2. g # k
      BY <1>5, <2>2, <2>4
    <3>3. f = g
      BY <1>4, <1>5, <2>2, <3>1, <3>2 DEF Slots
    <3> QED
      BY <1>2, <1>4, <1>5, <2>2, <3>1, <3>3
  <2> QED
    BY <2>3, <2>4
<1> QED
  BY <1>6, <1>7

\* No frame makes a host resolve to an older address: only net_tick's sweep,
\* which may drop the newer of two entries, does.
THEOREM FramesNeverGoBack ==
  ArpSpec => OnlySweepsGoBack
<1>1. ArpInv /\ ArpInv' /\ [ArpNext]_arpvars
        => [\A h \in Hosts : arp_resolve(h)' \in 1 .. arp_resolve(h) - 1 => net_tick]_arpvars
  <2> SUFFICES ASSUME ArpInv, ArpInv', ArpNext, ~ net_tick, NEW h \in Hosts
               PROVE  arp_resolve(h)' \notin 1 .. arp_resolve(h) - 1
    OBVIOUS
  <2>1. PICK f \in ArpFrames \cup IcmpFrames, reply \in BOOLEAN : net_iface_input(f, reply)
    BY DEF ArpNext
  <2>2. PICK a \in ArpFrames : arp_input(a, reply)
    BY <2>1, FrameIsArp
  <2> QED
    BY <2>2, FrameResolvesForward
<1> QED
  BY <1>1, ArpInvariant, PTL DEF ArpSpec, OnlySweepsGoBack
=============================================================================
