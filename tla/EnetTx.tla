------------------------------- MODULE EnetTx -------------------------------
(***************************************************************************)
(* Sending Ethernet frames: low_level_output of                            *)
(* samples/lwip/common/arch/ethernetif.c, the descriptors that             *)
(* enet_prepare_tx_desc of drivers/src/hpm_enet_drv.c hands to the DMA,    *)
(* and the DMA.                                                            *)
(*                                                                         *)
(* A packet is a chain of pbufs, and is modelled by their number.  Nothing *)
(* is copied: a descriptor points to the payload of a pbuf.                *)
(***************************************************************************)
EXTENDS Naturals, Sequences, FiniteSets

CONSTANTS
    TxCount,   \* tx_buff_cfg.count
    Sender,    \* the tasks that call low_level_output
    Rounds,    \* bound: a sender's packets are numbered 0 .. Rounds - 1 in turn
    Chains,    \* the numbers of pbufs in a packet
    Buffers,   \* the sizes of packets, in transmit buffers
    Unowned,   \* a descriptor with its own bit clear
    Nobody     \* no packet, no holder

TxSlot == 0 .. TxCount - 1
Packet == Sender \X (0 .. Rounds - 1)

\* What a descriptor makes the DMA send: the packet, and whether all of it.
Sent == [packet : Packet, whole : BOOLEAN]

ASSUME TxAssumption ==
    /\ TxCount \in Nat /\ TxCount >= 2
    /\ Rounds \in Nat /\ Rounds > TxCount + 1
    /\ Chains \subseteq Nat \ {0} /\ Buffers \subseteq 1 .. TxCount
    /\ Nobody \notin Sender \cup Packet /\ Unowned \notin Sent

VARIABLES
    tx,        \* the descriptors
    tx_dma,    \* the descriptor the DMA is at
    tx_cur,    \* desc.tx_desc_list_cur
    tx_sem,    \* xTxSemaphore: Nobody, or the task that took it
    tx_pc,     \* what each sender is doing
    packet,    \* the number of its packet
    shape,     \* pbufs in its chain, and buffers it needs
    seen,      \* its copy of desc.tx_desc_list_cur
    err,       \* what its last call returned
    queued,    \* history: did that call queue the packet
    wire       \* what went over the wire last

txvars == <<tx, tx_dma, tx_cur, tx_sem, tx_pc, packet, shape, seen, err, queued, wire>>

TxAt(s, k) == (s + k) % TxCount
Own(t)     == <<t, packet[t]>>

\* enet_dma_tx_desc_chain_init.
TxInit ==
    /\ tx = [s \in TxSlot |-> Unowned]
    /\ tx_dma = 0 /\ tx_cur = 0
    /\ tx_sem = Nobody
    /\ tx_pc = [t \in Sender |-> "idle"]
    /\ packet = [t \in Sender |-> 0]
    /\ shape = [t \in Sender |-> [pbufs |-> 1, buffers |-> 1]]
    /\ seen = [t \in Sender |-> 0]
    /\ err = [t \in Sender |-> "ok"]
    /\ queued = [t \in Sender |-> TRUE]
    /\ wire = Nobody
-----------------------------------------------------------------------------
\* low_level_output is called with the next packet, which gets the number
\* after that of the last one handed to the DMA.  The call reads
\* desc.tx_desc_list_cur before it has the semaphore (l.158).
Output(t) ==
    /\ tx_pc[t] = "idle"
    /\ packet' = [packet EXCEPT ![t] = IF queued[t] THEN (@ + 1) % Rounds ELSE @]
    /\ \E c \in Chains, b \in Buffers :
        shape' = [shape EXCEPT ![t] = [pbufs |-> c, buffers |-> b]]
    /\ seen' = [seen EXCEPT ![t] = tx_cur]
    /\ queued' = [queued EXCEPT ![t] = FALSE]
    /\ tx_pc' = [tx_pc EXCEPT ![t] = "take"]
    /\ UNCHANGED <<tx, tx_dma, tx_cur, tx_sem, err, wire>>

Return(t, e) ==
    /\ err' = [err EXCEPT ![t] = e]
    /\ tx_pc' = [tx_pc EXCEPT ![t] = "idle"]

\* The semaphore is taken, or is not had in time (l.169).
TakeSemaphore(t) ==
    /\ tx_pc[t] = "take" /\ tx_sem = Nobody
    /\ tx_sem' = t
    /\ tx_pc' = [tx_pc EXCEPT ![t] = "fill"]
    /\ UNCHANGED <<tx, tx_dma, tx_cur, packet, shape, seen, err, queued, wire>>

TimesOut(t) ==
    /\ tx_pc[t] = "take" /\ tx_sem # Nobody
    /\ Return(t, "ok")
    /\ UNCHANGED <<tx, tx_dma, tx_cur, tx_sem, packet, shape, seen, queued, wire>>

\* A descriptor the copy comes to is in the hands of the DMA (l.181, l.196):
\* the call returns, and the semaphore stays taken.
\* Mutant: the own bit is not looked at.
OccupiedNever(t) == seen[t] # seen[t]
Occupied(t) == \E k \in 0 .. shape[t].buffers - 1 : tx[TxAt(seen[t], k)] # Unowned

FillStops(t) ==
    /\ tx_pc[t] = "fill" /\ Occupied(t)
    /\ Return(t, "inprogress")
    /\ UNCHANGED <<tx, tx_dma, tx_cur, tx_sem, packet, shape, seen, queued, wire>>

\* Otherwise the payload of each pbuf in turn becomes the buffer of the
\* descriptor at desc.tx_desc_list_cur (l.209) ...
Fill(t) ==
    /\ tx_pc[t] = "fill" /\ ~Occupied(t)
    /\ tx_pc' = [tx_pc EXCEPT ![t] = "prepare"]
    /\ UNCHANGED <<tx, tx_dma, tx_cur, tx_sem, packet, shape, seen, err, queued, wire>>

\* ... and enet_prepare_tx_desc hands the last descriptor of the packet, and
\* no other, to the DMA (l.553, l.585).  (Mutant: the one after it.)
LastPlusOne(t) == TxAt(tx_cur, shape[t].buffers)
Last(t) == TxAt(tx_cur, shape[t].buffers - 1)
Given(t) == {Last(t)}

Prepare(t) ==
    /\ tx_pc[t] = "prepare"
    /\ tx' = [s \in TxSlot |-> IF s \in Given(t)
                  THEN [packet |-> Own(t), whole |-> shape[t].pbufs = 1] ELSE tx[s]]
    /\ tx_cur' = TxAt(Last(t), 1)
    /\ tx_sem' = Nobody
    /\ queued' = [queued EXCEPT ![t] = TRUE]
    /\ Return(t, "ok")
    /\ UNCHANGED <<tx_dma, packet, shape, seen, wire>>
-----------------------------------------------------------------------------
\* The DMA sends what the descriptor it is at says, once it owns it.
Transmit ==
    /\ tx[tx_dma] # Unowned
    /\ wire' = tx[tx_dma]
    /\ tx' = [tx EXCEPT ![tx_dma] = Unowned]
    /\ tx_dma' = TxAt(tx_dma, 1)
    /\ UNCHANGED <<tx_cur, tx_sem, tx_pc, packet, shape, seen, err, queued>>

SenderStep(t) ==
    Output(t) \/ TakeSemaphore(t) \/ TimesOut(t) \/ FillStops(t) \/ Fill(t) \/ Prepare(t)

TxNext == Transmit \/ \E t \in Sender : SenderStep(t)

TxFairness == WF_txvars(Transmit)
-----------------------------------------------------------------------------
\* PROPERTIES

\* The type invariant of ring and senders.
TxTypeOK ==
    /\ tx \in [TxSlot -> Sent \cup {Unowned}]
    /\ tx_dma \in TxSlot /\ tx_cur \in TxSlot
    /\ tx_sem \in Sender \cup {Nobody}
    /\ tx_pc \in [Sender -> {"idle", "take", "fill", "prepare"}]
    /\ packet \in [Sender -> 0 .. Rounds - 1]
    /\ shape \in [Sender -> [pbufs : Chains \cup {1}, buffers : Buffers \cup {1}]]
    /\ seen \in [Sender -> TxSlot]
    /\ err \in [Sender -> {"ok", "inprogress"}]
    /\ queued \in [Sender -> BOOLEAN]
    /\ wire \in Sent \cup {Nobody}

\* The packets in the ring, from the one the DMA is at on.
Backlog == [k \in 1 .. Cardinality({s \in TxSlot : tx[s] # Unowned}) |->
                tx[TxAt(tx_dma, k - 1)]]

\* The ring is a queue: packets go over the wire whole, once, and in the order
\* in which their calls handed them over, also with several senders, and when
\* it is full and calls are turned away in between.
TxQueue == INSTANCE FrameQueue WITH
    Frame <- [packet : Packet, whole : {TRUE}], Capacity <- TxCount, Lossy <- FALSE,
    queue <- Backlog, out <- wire
RefinesTxQueue == TxQueue!Spec

\* What was handed over goes out in the end: the DMA does not come to a
\* descriptor it does not own while there are others it does.
TxDrains == TxQueue!Fair

\* low_level_output returns ERR_OK if the packet could be sent, and an error
\* if it could not (ethernetif.c l.136-137).
OkMeansQueued == \A t \in Sender : tx_pc[t] = "idle" /\ err[t] = "ok" => queued[t]
=============================================================================
