---------------------------- MODULE WifiRxProofs ----------------------------
(***************************************************************************)
(* Proofs about module WifiRx, for a receive ring of any length and any    *)
(* number of frames: the types, that frames are handled in the order they  *)
(* arrived, and the account of the receive task's wakeups.                 *)
(*                                                                         *)
(* The task and the DMA walk the same ring with an index each.  RingInv    *)
(* says how far apart they are (the pending frames) and that the           *)
(* descriptors the CPU owns are exactly those in between.                  *)
(***************************************************************************)
EXTENDS WifiRx, TLAPS

\* The descriptor i places behind d, without the remainder, for i =< NumRxDesc.
Behind(d, i) == IF d + i < NumRxDesc THEN d + i ELSE d + i - NumRxDesc

\* Where the oldest frame still to be handled is.
Oldest == IF pc \in {"return", "advance"} THEN NextDesc(rx_desc_head)
                                          ELSE rx_desc_head

Pending == accepted - handled

\* The extent of the pending frames, and who owns which descriptor.
RingInv ==
  /\ handled =< accepted /\ Pending =< NumRxDesc
  /\ pc = "process" => Pending > 0
  /\ dma = Behind(Oldest, Pending)
  /\ \A i \in 0 .. NumRxDesc - 1 :
       owner[Behind(Oldest, i)] = "CPU"
         <=> \/ i < Pending
             \/ pc = "return" /\ i = NumRxDesc - 1
  /\ \A i \in 0 .. NumRxDesc - 1 :
       i < Pending => buf[Behind(Oldest, i)] = handled + 1 + i
  /\ pc = "return" => Pending < NumRxDesc

\* The frames passed on are some of those handled, in order.
PassedInv ==
  /\ passed \in Seq(Nat)
  /\ \A i \in 1 .. Len(passed) : passed[i] =< handled
  /\ \A i \in 1 .. Len(passed) - 1 : passed[i] < passed[i + 1]

\* wifi_isr is between its read and its clear only while RX_DONE is set.
IsrInv == merged \in Nat /\ rx_sem \in Nat /\ (isr = "clear" => int_raw)

RxInv == RxTypeOK /\ RingInv /\ PassedInv /\ IsrInv /\ WakeupsAccounted

-----------------------------------------------------------------------------
\* A remainder of a number below twice the modulus is one comparison.
LEMMA OneTurn ==
  ASSUME NEW n \in Nat \ {0}, NEW a \in Nat
  PROVE  /\ a < n => a % n = a
         /\ n =< a /\ a < 2 * n => a % n = a - n
<1>1. ASSUME a < n PROVE a % n = a
  BY <1>1, SMT
<1>2. ASSUME n =< a, a < 2 * n PROVE a % n = a - n
  BY <1>2, SMT
<1> QED
  BY <1>1, <1>2

\* (x + 1) % WIFI_NUM_RX_DESC is the next place of the ring.
LEMMA NextDescIsBehind ==
  ASSUME NEW d \in Descs
  PROVE  NextDesc(d) = Behind(d, 1) /\ NextDesc(d) \in Descs
<1>1. NumRxDesc \in Nat \ {0}
  BY RxAssumption
<1>2. CASE d + 1 < NumRxDesc
  <2>1. (d + 1) % NumRxDesc = d + 1
    BY <1>1, <1>2 DEF Descs
  <2> QED
    BY <1>1, <1>2, <2>1 DEF NextDesc, Behind, Descs
<1>3. CASE NumRxDesc =< d + 1
  <2>1. (d + 1) % NumRxDesc = d + 1 - NumRxDesc
    BY <1>1, <1>3 DEF Descs
  <2>2. NextDesc(d) = d + 1 - NumRxDesc
    BY <2>1 DEF NextDesc
  <2>3. Behind(d, 1) = d + 1 - NumRxDesc
    BY <1>1, <1>3 DEF Behind, Descs
  <2> QED
    BY <1>1, <1>3, <2>2, <2>3 DEF Descs
<1> QED
  BY <1>1, <1>2, <1>3 DEF Descs

\* Places of the ring are descriptors, and different ones are different.
LEMMA RingPlaces ==
  ASSUME NEW d \in Descs
  PROVE  /\ \A i \in 0 .. NumRxDesc : Behind(d, i) \in Descs
         /\ Behind(d, 0) = d /\ Behind(d, NumRxDesc) = d
         /\ \A i, j \in 0 .. NumRxDesc - 1 : Behind(d, i) = Behind(d, j) => i = j
         /\ \A i \in 0 .. NumRxDesc - 1 : Behind(Behind(d, 1), i) = Behind(d, i + 1)
         /\ \A i \in 0 .. NumRxDesc - 1 : NextDesc(Behind(d, i)) = Behind(d, i + 1)
<1>1. NumRxDesc \in Nat \ {0}
  BY RxAssumption
<1>2. \A i \in 0 .. NumRxDesc : Behind(d, i) \in Descs
  BY <1>1 DEF Descs, Behind
<1>3. Behind(d, 0) = d /\ Behind(d, NumRxDesc) = d
  BY <1>1 DEF Descs, Behind
<1>4. \A i, j \in 0 .. NumRxDesc - 1 : Behind(d, i) = Behind(d, j) => i = j
  BY <1>1 DEF Descs, Behind
<1>5. \A i \in 0 .. NumRxDesc - 1 : Behind(Behind(d, 1), i) = Behind(d, i + 1)
  BY <1>1 DEF Descs, Behind
<1>6. \A i \in 0 .. NumRxDesc - 1 : NextDesc(Behind(d, i)) = Behind(d, i + 1)
  <2> SUFFICES ASSUME NEW i \in 0 .. NumRxDesc - 1
               PROVE  NextDesc(Behind(d, i)) = Behind(d, i + 1)
    OBVIOUS
  <2>1. Behind(d, i) \in Descs
    BY <1>1, <1>2
  <2>2. NextDesc(Behind(d, i)) = Behind(Behind(d, i), 1)
    BY <2>1, NextDescIsBehind
  <2> QED
    BY <1>1, <2>2 DEF Descs, Behind
<1> QED
  BY <1>2, <1>3, <1>4, <1>5, <1>6

\* The place before Oldest, while the task holds it, is rx_desc_head.
LEMMA HeadIsLast ==
  ASSUME NEW d \in Descs
  PROVE  /\ Behind(Behind(d, 1), NumRxDesc - 1) = d
         /\ Behind(d, 1) \in Descs
<1>1. NumRxDesc \in Nat \ {0}
  BY RxAssumption
<1> QED
  BY <1>1 DEF Descs, Behind

LEMMA OldestIsDesc ==
  ASSUME RxTypeOK
  PROVE  Oldest \in Descs
  BY NextDescIsBehind DEF RxTypeOK, Oldest

-----------------------------------------------------------------------------
LEMMA RxInitInv ==
  RxInit => RxInv
<1> SUFFICES ASSUME RxInit PROVE RxInv
  OBVIOUS
<1>1. NumRxDesc \in Nat \ {0} /\ MaxFrames \in Nat
  BY RxAssumption
<1>2. RxTypeOK
  BY <1>1 DEF RxInit, RxTypeOK, Descs
<1>3. RingInv
  <2>1. Oldest = 0 /\ 0 \in Descs /\ Pending = 0
    BY <1>1 DEF RxInit, Oldest, Pending, Descs
  <2> QED
    BY <1>1, <2>1, RingPlaces DEF RxInit, RingInv
<1>4. PassedInv /\ IsrInv
  BY DEF RxInit, PassedInv, IsrInv
<1>5. WakeupsAccounted
  BY DEF RxInit, WakeupsAccounted
<1> QED
  BY <1>2, <1>3, <1>4, <1>5 DEF RxInv

\* The DMA fills a descriptor: one more pending frame behind the others.
LEMMA DmaReceivesInv ==
  ASSUME RxInv, DmaReceives
  PROVE  RxInv'
<1>1. NumRxDesc \in Nat \ {0} /\ MaxFrames \in Nat
  BY RxAssumption
<1>2. Oldest \in Descs /\ Oldest' = Oldest
  BY OldestIsDesc DEF RxInv, DmaReceives, Oldest
<1>3. accepted \in Nat /\ handled \in Nat /\ Pending \in 0 .. NumRxDesc
      /\ Pending' = Pending + 1 /\ dma = Behind(Oldest, Pending)
  BY <1>1 DEF RxInv, RxTypeOK, RingInv, DmaReceives, Pending
<1>4. Pending < NumRxDesc /\ (pc = "return" => Pending + 1 < NumRxDesc)
  \* A full ring, or one whose last place the task holds, is not the DMA's.
  <2>1. owner[Behind(Oldest, Pending)] # "CPU"
    BY <1>3 DEF DmaReceives
  <2>2. Pending # NumRxDesc
    <3>1. SUFFICES ASSUME Pending = NumRxDesc PROVE FALSE
      OBVIOUS
    <3>2. owner[Behind(Oldest, 0)] = "CPU"
      BY <1>1, <3>1 DEF RxInv, RingInv
    <3> QED
      BY <1>2, <2>1, <3>1, <3>2, RingPlaces
  <2>3. Pending \in 0 .. NumRxDesc - 1
    BY <1>1, <1>3, <2>2
  <2>4. ~ (pc = "return" /\ Pending = NumRxDesc - 1)
    BY <2>1, <2>3 DEF RxInv, RingInv
  <2> QED
    BY <1>1, <2>3, <2>4
<1>5. Pending \in 0 .. NumRxDesc - 1 /\ Pending + 1 \in 0 .. NumRxDesc
  BY <1>1, <1>3, <1>4
<1>6. dma \in Descs /\ NextDesc(dma) \in Descs
      /\ NextDesc(dma) = Behind(Oldest, Pending + 1)
  BY <1>2, <1>3, <1>5, RingPlaces, NextDescIsBehind DEF RxInv, RxTypeOK
<1>7. \A i \in 0 .. NumRxDesc - 1 :
        Behind(Oldest, i) \in Descs /\ (Behind(Oldest, i) = dma <=> i = Pending)
  BY <1>1, <1>2, <1>3, <1>5, RingPlaces
<1>8. RxTypeOK'
  BY <1>1, <1>6 DEF RxInv, RxTypeOK, DmaReceives
<1>9. RingInv'
  <2>1. (handled =< accepted /\ Pending =< NumRxDesc)'
    BY <1>1, <1>3, <1>4 DEF DmaReceives, RxInv, RingInv
  <2>2. (pc = "process" => Pending > 0)'
    BY <1>3 DEF DmaReceives
  <2>3. (dma = Behind(Oldest, Pending))'
    BY <1>2, <1>3, <1>6 DEF DmaReceives, Behind
  <2>4. ASSUME NEW i \in 0 .. NumRxDesc - 1
        PROVE  (owner'[Behind(Oldest, i)] = "CPU"
                 <=> i < Pending + 1 \/ (pc = "return" /\ i = NumRxDesc - 1))
    <3>1. owner[Behind(Oldest, i)] = "CPU"
            <=> i < Pending \/ (pc = "return" /\ i = NumRxDesc - 1)
      BY DEF RxInv, RingInv
    <3>2. CASE i = Pending
      <4>1. owner'[Behind(Oldest, i)] = "CPU"
        BY <1>7, <3>2 DEF DmaReceives, RxInv, RxTypeOK
      <4> QED
        BY <1>3, <3>2, <4>1
    <3>3. CASE i # Pending
      <4>1. owner'[Behind(Oldest, i)] = owner[Behind(Oldest, i)]
        BY <1>7, <3>3 DEF DmaReceives, RxInv, RxTypeOK
      <4>2. i < Pending <=> i < Pending + 1
        BY <1>3, <3>3
      <4> QED
        BY <3>1, <4>1, <4>2
    <3> QED
      BY <3>2, <3>3
  <2>5. ASSUME NEW i \in 0 .. NumRxDesc - 1, i < Pending + 1
        PROVE  buf'[Behind(Oldest, i)] = handled + 1 + i
    <3>1. CASE i = Pending
      <4>1. buf'[Behind(Oldest, i)] = accepted + 1
        BY <1>7, <3>1 DEF DmaReceives, RxInv, RxTypeOK
      <4> QED
        BY <1>3, <3>1, <4>1 DEF Pending
    <3>2. CASE i # Pending
      <4>1. buf'[Behind(Oldest, i)] = buf[Behind(Oldest, i)]
        BY <1>7, <3>2 DEF DmaReceives, RxInv, RxTypeOK
      <4>2. i < Pending
        BY <1>3, <2>5, <3>2
      <4> QED
        BY <4>1, <4>2 DEF RxInv, RingInv
    <3> QED
      BY <3>1, <3>2
  <2>6. (pc = "return" => Pending < NumRxDesc)'
    BY <1>3, <1>4 DEF DmaReceives
  <2>7. \A i : Behind(Oldest, i)' = Behind(Oldest, i)
    BY <1>2 DEF Behind
  <2> QED
    BY <1>3, <2>1, <2>2, <2>3, <2>4, <2>5, <2>6, <2>7 DEF RingInv, DmaReceives
<1>10. PassedInv' /\ IsrInv'
  BY DEF RxInv, PassedInv, IsrInv, DmaReceives
<1>11. WakeupsAccounted'
  BY <1>3 DEF RxInv, RxTypeOK, IsrInv, WakeupsAccounted, DmaReceives
<1> QED
  BY <1>8, <1>9, <1>10, <1>11 DEF RxInv

\* The interrupt handler leaves the ring alone.
LEMMA IsrReadsInv ==
  ASSUME RxInv, IsrReads
  PROVE  RxInv'
<1>1. RxTypeOK'
  BY DEF RxInv, RxTypeOK, IsrReads
<1>2. RingInv'
  BY DEF RxInv, RingInv, Oldest, Pending, NextDesc, Behind, IsrReads
<1>3. PassedInv' /\ IsrInv'
  BY DEF RxInv, PassedInv, IsrInv, IsrReads
<1>4. WakeupsAccounted'
  BY DEF RxInv, WakeupsAccounted, IsrReads
<1> QED
  BY <1>1, <1>2, <1>3, <1>4 DEF RxInv

LEMMA IsrSignalsInv ==
  ASSUME RxInv, IsrSignals
  PROVE  RxInv'
<1>1. WakeupsAccounted'
  BY DEF RxInv, RxTypeOK, IsrInv, WakeupsAccounted, IsrSignals
<1>2. PassedInv' /\ IsrInv'
  BY DEF RxInv, PassedInv, IsrInv, IsrSignals
<1>3. rx_sem' \in 0 .. MaxFrames
  BY RxAssumption, <1>1, <1>2 DEF RxInv, RxTypeOK, IsrInv, WakeupsAccounted, IsrSignals
<1>4. RxTypeOK'
  BY <1>3 DEF RxInv, RxTypeOK, IsrSignals
<1>5. RingInv'
  BY DEF RxInv, RingInv, Oldest, Pending, NextDesc, Behind, IsrSignals
<1> QED
  BY <1>1, <1>2, <1>4, <1>5 DEF RxInv

\* A unit of the semaphore is a frame in the ring: the task that takes one
\* finds the CPU's descriptor at its head.
LEMMA RxTaskWakesInv ==
  ASSUME RxInv, RxTaskWakes
  PROVE  RxInv'
<1>1. NumRxDesc \in Nat \ {0} /\ MaxFrames \in Nat
  BY RxAssumption
<1>2. Oldest = rx_desc_head /\ rx_desc_head \in Descs
  BY DEF RxInv, RxTypeOK, RxTaskWakes, Oldest
<1>3. Pending > 0
  BY DEF RxInv, RxTypeOK, IsrInv, WakeupsAccounted, Pending, RxTaskWakes
<1>4. owner[rx_desc_head] = "CPU"
  <2>1. owner[Behind(Oldest, 0)] = "CPU"
    BY <1>1, <1>3 DEF RxInv, RingInv
  <2> QED
    BY <1>2, <2>1, RingPlaces
<1>5. pc' = "process"
  BY <1>4 DEF RxTaskWakes
<1>6. RxTypeOK'
  <2>1. rx_sem' \in 0 .. MaxFrames
    BY <1>1 DEF RxInv, RxTypeOK, RxTaskWakes
  <2> QED
    BY <1>5, <2>1 DEF RxInv, RxTypeOK, RxTaskWakes
<1>7. RingInv'
  <2>1. Oldest' = Oldest /\ Pending' = Pending
    BY <1>2, <1>5 DEF Oldest, Pending, RxTaskWakes
  <2>2. \A i : Behind(Oldest, i)' = Behind(Oldest, i)
    BY <2>1 DEF Behind
  <2>3. pc # "return" /\ pc' # "return"
    BY <1>5 DEF RxTaskWakes
  <2> QED
    BY <1>3, <2>1, <2>2, <2>3 DEF RxInv, RingInv, RxTaskWakes
<1>8. PassedInv' /\ IsrInv'
  BY DEF RxInv, RxTypeOK, PassedInv, IsrInv, RxTaskWakes
<1>9. WakeupsAccounted'
  BY <1>5 DEF RxInv, RxTypeOK, IsrInv, WakeupsAccounted, RxTaskWakes
<1> QED
  BY <1>6, <1>7, <1>8, <1>9 DEF RxInv

\* The oldest frame is handled and, unless dropped, passed on.
LEMMA RxTaskProcessesInv ==
  ASSUME RxInv, RxTaskProcesses
  PROVE  RxInv'
<1>1. NumRxDesc \in Nat \ {0} /\ MaxFrames \in Nat
  BY RxAssumption
<1>2. Oldest = rx_desc_head /\ rx_desc_head \in Descs /\ Pending > 0
  BY DEF RxInv, RxTypeOK, RingInv, RxTaskProcesses, Oldest
<1>3. Oldest' = Behind(Oldest, 1) /\ Pending' = Pending - 1
      /\ accepted \in Nat /\ handled \in Nat /\ Pending \in 0 .. NumRxDesc
  BY <1>1, <1>2, NextDescIsBehind
  DEF RxInv, RxTypeOK, RingInv, Oldest, Pending, RxTaskProcesses
<1>4. buf[rx_desc_head] = handled + 1
  <2>1. buf[Behind(Oldest, 0)] = handled + 1 + 0
    BY <1>1, <1>2 DEF RxInv, RingInv
  <2> QED
    BY <1>2, <1>3, <2>1, RingPlaces
<1>5. RxTypeOK'
  BY <1>1, <1>2 DEF RxInv, RxTypeOK, Pending, RxTaskProcesses
<1>6. RingInv'
  <2>1. \A i \in 0 .. NumRxDesc - 1 : Behind(Oldest, i)' = Behind(Oldest, i + 1)
    BY <1>2, <1>3, RingPlaces DEF Behind
  <2>2. Behind(Oldest, NumRxDesc) = Behind(Oldest, 0)
    BY <1>2, RingPlaces
  <2>3. (handled =< accepted /\ Pending =< NumRxDesc)'
    BY <1>1, <1>2, <1>3 DEF Pending, RxTaskProcesses
  <2>4. (dma = Behind(Oldest, Pending))'
    <3>1. Pending - 1 \in 0 .. NumRxDesc - 1 /\ (Pending - 1) + 1 = Pending
      BY <1>1, <1>2, <1>3
    <3>2. Behind(Behind(Oldest, 1), Pending - 1) = Behind(Oldest, Pending)
      BY <1>2, <3>1, RingPlaces
    <3>3. Behind(Oldest, Pending)' = Behind(Behind(Oldest, 1), Pending - 1)
      BY <1>3 DEF Behind
    <3> QED
      BY <3>2, <3>3 DEF RxInv, RingInv, RxTaskProcesses
  <2>5. ASSUME NEW i \in 0 .. NumRxDesc - 1
        PROVE  owner[Behind(Oldest, i + 1)] = "CPU"
                 <=> i < Pending - 1 \/ i = NumRxDesc - 1
    <3>1. CASE i = NumRxDesc - 1
      <4>1. i + 1 = NumRxDesc
        BY <1>1, <3>1
      <4>2. owner[Behind(Oldest, 0)] = "CPU"
        BY <1>1, <1>2 DEF RxInv, RingInv
      <4> QED
        BY <2>2, <3>1, <4>1, <4>2
    <3>2. CASE i # NumRxDesc - 1
      <4>1. i + 1 \in 0 .. NumRxDesc - 1 /\ (i + 1 < Pending <=> i < Pending - 1)
        BY <1>1, <1>3, <3>2
      <4>2. pc # "return"
        BY DEF RxTaskProcesses
      <4> QED
        BY <3>2, <4>1, <4>2 DEF RxInv, RingInv
    <3> QED
      BY <3>1, <3>2
  <2>6. ASSUME NEW i \in 0 .. NumRxDesc - 1, i < Pending - 1
        PROVE  buf[Behind(Oldest, i + 1)] = handled + 1 + 1 + i
    <3>1. i + 1 \in 0 .. NumRxDesc - 1 /\ i + 1 < Pending
      BY <1>1, <1>3, <2>6
    <3>2. buf[Behind(Oldest, i + 1)] = handled + 1 + (i + 1)
      BY <3>1 DEF RxInv, RingInv
    <3> QED
      BY <1>3, <3>2
  <2>7. (pc = "return" => Pending < NumRxDesc)' /\ pc' = "return"
    BY <1>1, <1>3 DEF RxTaskProcesses
  <2>8. owner' = owner /\ buf' = buf /\ handled' = handled + 1
    BY DEF RxTaskProcesses
  <2>9. \A i \in 0 .. NumRxDesc - 1 :
          (owner[Behind(Oldest, i)] = "CPU"
             <=> i < Pending \/ (pc = "return" /\ i = NumRxDesc - 1))'
    BY <1>3, <2>1, <2>5, <2>7, <2>8
  <2>10. \A i \in 0 .. NumRxDesc - 1 :
           (i < Pending => buf[Behind(Oldest, i)] = handled + 1 + i)'
    BY <1>3, <2>1, <2>6, <2>8
  <2> QED
    BY <2>3, <2>4, <2>7, <2>9, <2>10 DEF RingInv
<1>7. PassedInv'
  <2>1. CASE passed' = passed
    BY <1>3, <2>1 DEF RxInv, PassedInv, RxTaskProcesses
  <2>2. CASE passed' = Append(passed, handled + 1)
    BY <1>3, <2>2 DEF RxInv, PassedInv, RxTaskProcesses
  <2> QED
    BY <1>4, <2>1, <2>2 DEF RxTaskProcesses
<1>8. IsrInv'
  BY DEF RxInv, IsrInv, RxTaskProcesses
<1>9. WakeupsAccounted'
  BY <1>3 DEF RxInv, RxTypeOK, IsrInv, WakeupsAccounted, RxTaskProcesses
<1> QED
  BY <1>5, <1>6, <1>7, <1>8, <1>9 DEF RxInv

\* The descriptor of the frame just handled is the DMA's again.
LEMMA RxTaskReturnsInv ==
  ASSUME RxInv, RxTaskReturns
  PROVE  RxInv'
<1>1. NumRxDesc \in Nat \ {0}
  BY RxAssumption
<1>2. rx_desc_head \in Descs /\ Oldest = Behind(rx_desc_head, 1) /\ Oldest \in Descs
      /\ Pending \in 0 .. NumRxDesc - 1
  BY <1>1, NextDescIsBehind DEF RxInv, RxTypeOK, RingInv, Oldest, Pending, RxTaskReturns
<1>3. Oldest' = Oldest /\ Pending' = Pending /\ pc' = "advance"
  BY DEF Oldest, Pending, RxTaskReturns
<1>4. \A i \in 0 .. NumRxDesc - 1 :
        Behind(Oldest, i) \in Descs
        /\ (Behind(Oldest, i) = rx_desc_head <=> i = NumRxDesc - 1)
  BY <1>1, <1>2, RingPlaces, HeadIsLast
<1>5. RxTypeOK'
  BY DEF RxInv, RxTypeOK, RxTaskReturns
<1>6. RingInv'
  <2>1. ASSUME NEW i \in 0 .. NumRxDesc - 1
        PROVE  owner'[Behind(Oldest, i)] = "CPU" <=> i < Pending
    <3>1. CASE i = NumRxDesc - 1
      <4>1. owner'[Behind(Oldest, i)] = "DMA"
        BY <1>2, <1>4, <3>1 DEF RxInv, RxTypeOK, RxTaskReturns
      <4> QED
        BY <1>1, <1>2, <3>1, <4>1
    <3>2. CASE i # NumRxDesc - 1
      <4>1. owner'[Behind(Oldest, i)] = owner[Behind(Oldest, i)]
        BY <1>2, <1>4, <3>2 DEF RxInv, RxTypeOK, RxTaskReturns
      <4> QED
        BY <3>2, <4>1 DEF RxInv, RingInv
    <3> QED
      BY <3>1, <3>2
  <2>2. \A i : Behind(Oldest, i)' = Behind(Oldest, i)
    BY <1>3 DEF Behind
  <2> QED
    BY <1>3, <2>1, <2>2 DEF RxInv, RingInv, RxTaskReturns
<1>7. PassedInv' /\ IsrInv'
  BY DEF RxInv, PassedInv, IsrInv, RxTaskReturns
<1>8. WakeupsAccounted'
  BY DEF RxInv, WakeupsAccounted, RxTaskReturns
<1> QED
  BY <1>5, <1>6, <1>7, <1>8 DEF RxInv

LEMMA RxTaskAdvancesInv ==
  ASSUME RxInv, RxTaskAdvances
  PROVE  RxInv'
<1>1. rx_desc_head \in Descs /\ NextDesc(rx_desc_head) \in Descs
  BY NextDescIsBehind DEF RxInv, RxTypeOK
<1>2. Oldest' = Oldest /\ Pending' = Pending /\ pc' = "wait" /\ pc = "advance"
  BY DEF Oldest, Pending, RxTaskAdvances
<1>3. RxTypeOK'
  BY <1>1 DEF RxInv, RxTypeOK, RxTaskAdvances
<1>4. RingInv'
  <2>1. \A i : Behind(Oldest, i)' = Behind(Oldest, i)
    BY <1>2 DEF Behind
  <2> QED
    BY <1>2, <2>1 DEF RxInv, RingInv, RxTaskAdvances
<1>5. PassedInv' /\ IsrInv'
  BY DEF RxInv, PassedInv, IsrInv, RxTaskAdvances
<1>6. WakeupsAccounted'
  BY DEF RxInv, WakeupsAccounted, RxTaskAdvances
<1> QED
  BY <1>3, <1>4, <1>5, <1>6 DEF RxInv

\* The invariant holds of every behaviour of the receive path.
THEOREM RxInvariant ==
  RxSpec => []RxInv
<1>1. RxInv /\ [RxNext]_rxvars => RxInv'
  <2> SUFFICES ASSUME RxInv, [RxNext]_rxvars PROVE RxInv'
    OBVIOUS
  <2>1. CASE RxNext
    BY <2>1, DmaReceivesInv, IsrReadsInv, IsrSignalsInv, RxTaskWakesInv,
       RxTaskProcessesInv, RxTaskReturnsInv, RxTaskAdvancesInv DEF RxNext, RxTask
  <2>2. CASE UNCHANGED rxvars
    BY <2>2 DEF rxvars, RxInv, RxTypeOK, RingInv, PassedInv, IsrInv, WakeupsAccounted,
                Oldest, Pending, NextDesc, Behind
  <2> QED
    BY <2>1, <2>2
<1> QED
  BY <1>1, RxInitInv, PTL DEF RxSpec

\* Types: in particular both indices stay in the ring, and the count of
\* wifi_rx_sem never exceeds the frames received.
THEOREM RxTypes ==
  RxSpec => []RxTypeOK
<1>1. RxInv => RxTypeOK
  BY DEF RxInv
<1> QED
  BY <1>1, RxInvariant, PTL

\* Frames are handled in the order they arrived, whatever the length of the
\* ring and however the DMA, wifi_isr and the task interleave.
THEOREM FramesStayInOrder ==
  RxSpec => []FramesInOrder
<1>1. RxInv => FramesInOrder
  <2> SUFFICES ASSUME RxInv PROVE PendingInRingOrder
    BY DEF RxInv, PassedInv, FramesInOrder
  <2>1. NumRxDesc \in Nat \ {0} /\ Oldest \in Descs /\ Pending \in 0 .. NumRxDesc
        /\ handled \in Nat
    BY RxAssumption, OldestIsDesc DEF RxInv, RxTypeOK, RingInv, Pending
  <2>2. ASSUME NEW i \in 1 .. Pending
        PROVE  LET d == (Oldest + i - 1) % NumRxDesc
               IN owner[d] = "CPU" /\ buf[d] = handled + i
    <3>1. i - 1 \in 0 .. NumRxDesc - 1 /\ i - 1 < Pending
      BY <2>1
    <3>2. Oldest + i - 1 \in Nat /\ Oldest + i - 1 < 2 * NumRxDesc
          /\ Oldest + i - 1 = Oldest + (i - 1)
          /\ (Oldest + i - 1 < NumRxDesc \/ NumRxDesc =< Oldest + i - 1)
      BY <2>1, <3>1 DEF Descs
    <3>3. PICK a \in Nat : a = Oldest + i - 1
      BY <3>2
    <3>4. a % NumRxDesc = Behind(Oldest, i - 1)
      <4>1. CASE a < NumRxDesc
        <5>1. a % NumRxDesc = a
          BY <2>1, <4>1, OneTurn, Zenon
        <5>2. Behind(Oldest, i - 1) = a
          BY <3>2, <3>3, <4>1 DEF Behind
        <5> QED
          BY <5>1, <5>2, Zenon
      <4>2. CASE NumRxDesc =< a
        <5>1. a % NumRxDesc = a - NumRxDesc
          BY <2>1, <3>2, <3>3, <4>2, OneTurn
        <5>2. Behind(Oldest, i - 1) = a - NumRxDesc
          BY <2>1, <3>2, <3>3, <4>2 DEF Behind, Descs
        <5> QED
          BY <5>1, <5>2, Zenon
      <4> QED
        BY <3>2, <3>3, <4>1, <4>2
    <3>5. owner[Behind(Oldest, i - 1)] = "CPU"
          /\ buf[Behind(Oldest, i - 1)] = handled + 1 + (i - 1)
      BY <3>1 DEF RxInv, RingInv
    <3>6. handled + 1 + (i - 1) = handled + i
      BY <2>1
    <3> QED
      BY <3>3, <3>4, <3>5, <3>6, Zenon
  <2> QED
    BY <2>2, Zenon DEF PendingInRingOrder, Oldest, Pending
<1> QED
  BY <1>1, RxInvariant, PTL

\* Every frame the DMA has accepted is handled, or a wakeup for it is under
\* way, or it shared its interrupt with another: the wakeups the code can lose
\* are those of the frames merged in RX_DONE and no others.
THEOREM WakeupsAreAccounted ==
  RxSpec => []WakeupsAccounted
<1>1. RxInv => WakeupsAccounted
  BY DEF RxInv
<1> QED
  BY <1>1, RxInvariant, PTL
=============================================================================
