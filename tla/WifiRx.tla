------------------------------- MODULE WifiRx -------------------------------
(***************************************************************************)
(* The receive path of drivers/wifi/wifi.c: the ring of descriptors the    *)
(* MAC's DMA fills, the interrupt it raises, wifi_isr, and the receive     *)
(* task.  The DMA is external: from the descriptor wifi_dma_init gave it,  *)
(* it fills the ring in order, only descriptors it owns, and sets RX_DONE  *)
(* in WIFI_MAC_INT_RAW, where it stays until wifi_isr clears it.  No code  *)
(* installs or enables wifi_isr, so its steps may be taken, and nothing is *)
(* assumed that makes them happen.                                         *)
(*                                                                         *)
(* Frames are numbered in the order the DMA accepts them.  wifi_rx_sem is  *)
(* its count; what semaphore_wait does to the task is in module Sync.      *)
(***************************************************************************)
EXTENDS Integers, Sequences

CONSTANTS
  NumRxDesc,  \* WIFI_NUM_RX_DESC
  MaxFrames   \* bound on the frames the DMA accepts

ASSUME RxAssumption ==
  /\ NumRxDesc \in Nat \ {0} /\ MaxFrames \in Nat

VARIABLES
  owner,        \* the owner field of each rx_descs entry
  buf,          \* the frame in each rx_buffers entry, 0 for none yet
  rx_desc_head, \* the descriptor the task looks at next
  dma,          \* the descriptor the DMA fills next
  accepted,     \* how many frames the DMA has accepted
  int_raw,      \* RX_DONE in WIFI_MAC_INT_RAW
  isr,          \* "idle", or "clear" when wifi_isr has read RX_DONE
  rx_sem,       \* the count of wifi_rx_sem
  pc,           \* where the receive task is
  passed,       \* the frames passed to the network stack, in order
  handled,      \* how many frames the task has handled
  merged        \* history: frames whose RX_DONE another one had already set

rxvars == <<owner, buf, rx_desc_head, dma, accepted, int_raw, isr, rx_sem, pc,
            passed, handled, merged>>

Descs == 0 .. NumRxDesc - 1
\* Mutant: the index runs off the ring.
NextDesc_NoWrap(d) == d + 1

NextDesc(d) == (d + 1) % NumRxDesc

\* wifi_dma_init and semaphore_init: the whole ring is the DMA's.
RxInit ==
  /\ owner = [d \in Descs |-> "DMA"]
  /\ buf = [d \in Descs |-> 0]
  /\ rx_desc_head = 0 /\ dma = 0
  /\ accepted = 0
  /\ int_raw = FALSE
  /\ isr = "idle"
  /\ rx_sem = 0
  /\ pc = "wait"
  /\ passed = <<>>
  /\ handled = 0 /\ merged = 0

\* The DMA receives a frame; with no descriptor of its own it drops the frame.
DmaReceives ==
  /\ accepted < MaxFrames
  /\ owner[dma] = "DMA"
  /\ accepted' = accepted + 1
  /\ buf' = [buf EXCEPT ![dma] = accepted + 1]
  /\ owner' = [owner EXCEPT ![dma] = "CPU"]
  /\ dma' = NextDesc(dma)
  /\ int_raw' = TRUE
  /\ merged' = IF int_raw THEN merged + 1 ELSE merged
  /\ UNCHANGED <<rx_desc_head, isr, rx_sem, pc, passed, handled>>

\* wifi_isr reads WIFI_MAC_INT_RAW ...
IsrReads ==
  /\ isr = "idle" /\ int_raw
  /\ isr' = "clear"
  /\ UNCHANGED <<owner, buf, rx_desc_head, dma, accepted, int_raw, rx_sem, pc,
                 passed, handled, merged>>

\* ... clears the bits it has read, and signals the receive task once.
IsrSignals ==
  /\ isr = "clear"
  /\ isr' = "idle"
  /\ int_raw' = FALSE
  /\ rx_sem' = rx_sem + 1
  /\ UNCHANGED <<owner, buf, rx_desc_head, dma, accepted, pc, passed, handled, merged>>

\* Mutant: the descriptor is given back before its frame is copied.
RxTaskWakes_GivesBack ==
  /\ pc = "wait"
  /\ rx_sem > 0
  /\ rx_sem' = rx_sem - 1
  /\ owner[rx_desc_head] = "CPU"
  /\ owner' = [owner EXCEPT ![rx_desc_head] = "DMA"]
  /\ pc' = "process"
  /\ UNCHANGED <<buf, rx_desc_head, dma, accepted, int_raw, isr, passed, handled, merged>>

\* Mutant: the semaphore is a flag.
RxTaskWakes_Flag ==
  /\ pc = "wait"
  /\ rx_sem > 0
  /\ rx_sem' = 0
  /\ pc' = IF owner[rx_desc_head] = "CPU" THEN "process" ELSE "wait"
  /\ UNCHANGED <<owner, buf, rx_desc_head, dma, accepted, int_raw, isr, passed,
                 handled, merged>>

\* The receive task returns from semaphore_wait; a descriptor that is not the
\* CPU's sends it back to wait.  An interrupt is serviced before the task goes
\* on, which for the task is an order of these steps like any other.
RxTaskWakes ==
  /\ pc = "wait"
  /\ rx_sem > 0
  /\ rx_sem' = rx_sem - 1
  /\ pc' = IF owner[rx_desc_head] = "CPU" THEN "process" ELSE "wait"
  /\ UNCHANGED <<owner, buf, rx_desc_head, dma, accepted, int_raw, isr, passed,
                 handled, merged>>

\* The frame is copied to a pbuf for net_iface_input.  A management frame goes
\* to wifi_process_mgmt_frame instead, and a frame of bad length or one for
\* which pbuf_alloc fails is dropped.
RxTaskProcesses ==
  /\ pc = "process"
  /\ pc' = "return"
  /\ handled' = handled + 1
  /\ passed' \in {passed, Append(passed, buf[rx_desc_head])}
  /\ UNCHANGED <<owner, buf, rx_desc_head, dma, accepted, int_raw, isr, rx_sem, merged>>

\* The descriptor goes back to the DMA before the head moves on.
RxTaskReturns ==
  /\ pc = "return"
  /\ owner' = [owner EXCEPT ![rx_desc_head] = "DMA"]
  /\ pc' = "advance"
  /\ UNCHANGED <<buf, rx_desc_head, dma, accepted, int_raw, isr, rx_sem, passed,
                 handled, merged>>

RxTaskAdvances ==
  /\ pc = "advance"
  /\ rx_desc_head' = NextDesc(rx_desc_head)
  /\ pc' = "wait"
  /\ UNCHANGED <<owner, buf, dma, accepted, int_raw, isr, rx_sem, passed, handled, merged>>

RxTask == RxTaskWakes \/ RxTaskProcesses \/ RxTaskReturns \/ RxTaskAdvances

RxNext == DmaReceives \/ IsrReads \/ IsrSignals \/ RxTask

RxSpec == RxInit /\ [][RxNext]_rxvars

\* The scheduler runs the receive task once it has a unit.  Frames and
\* interrupts may or may not come.
RxFairSpec == RxSpec /\ WF_rxvars(RxTask)

-----------------------------------------------------------------------------
(* Properties.                                                             *)

\* Types.
RxTypeOK ==
  /\ owner \in [Descs -> {"CPU", "DMA"}]
  /\ buf \in [Descs -> 0 .. MaxFrames]
  /\ rx_desc_head \in Descs /\ dma \in Descs
  /\ accepted \in 0 .. MaxFrames /\ handled \in 0 .. MaxFrames
  /\ int_raw \in BOOLEAN /\ isr \in {"idle", "clear"}
  /\ rx_sem \in 0 .. MaxFrames
  /\ pc \in {"wait", "process", "return", "advance"}

\* The frames still to be handled, oldest first, are in the descriptors from
\* rx_desc_head on: the task and the DMA agree on the ring although neither
\* sees the other's index, and no frame is overwritten before it is handled.
PendingInRingOrder ==
  LET from == IF pc \in {"return", "advance"} THEN NextDesc(rx_desc_head)
                                              ELSE rx_desc_head
  IN \A i \in 1 .. accepted - handled :
       LET d == (from + i - 1) % NumRxDesc IN
       owner[d] = "CPU" /\ buf[d] = handled + i

\* Frames are handled in the order in which they arrived: those pending are in
\* the ring in that order, and none is passed to the network stack twice or
\* after a later one.
FramesInOrder ==
  /\ PendingInRingOrder
  /\ \A i \in 1 .. Len(passed) - 1 : passed[i] < passed[i + 1]

\* Every frame is accounted for by a wakeup of the receive task, under way or
\* still to come, except those that shared another frame's interrupt: as many
\* as these stay in the ring when the task has gone back to wait.
WakeupsAccounted ==
  accepted = handled + merged + rx_sem + (IF int_raw THEN 1 ELSE 0)
                     + (IF pc = "process" THEN 1 ELSE 0)

\* The frames that wifi_isr has signalled: all but those whose RX_DONE is still
\* set and those that shared another one's.
Signalled == accepted - merged - (IF int_raw THEN 1 ELSE 0)

\* The task catches up with the interrupts: as many frames as were signalled are
\* eventually handled, whether or not the ring was full in between, and also
\* when others share an interrupt, since a wakeup always finds a frame.
SignalledFramesHandled ==
  \A k \in 1 .. MaxFrames : Signalled >= k ~> handled >= k
=============================================================================
