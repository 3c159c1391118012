------------------------------- MODULE EnetRx -------------------------------
(***************************************************************************)
(* Receiving Ethernet frames: the descriptor ring of                       *)
(* drivers/src/hpm_enet_drv.c between the controller's DMA and the task    *)
(* ethernetif_input of samples/lwip/common/arch/ethernetif.c, with the     *)
(* interrupt that wakes the task (common/feature/common_lwip.c).           *)
(*                                                                         *)
(* A descriptor the DMA owns is Free; one it has closed holds a segment of *)
(* a frame.  The controller flushes what finds no free descriptor (DFF is  *)
(* clear): a frame that finds none at all is never seen here, one that     *)
(* runs out of them is closed early, with its last segment bit set.  So a  *)
(* poll demand (enet_rx_resume) wakes the DMA for nothing that waits, and  *)
(* has no effect here.                                                     *)
(***************************************************************************)
EXTENDS Naturals, Sequences, FiniteSets

CONSTANTS
    RxCount,   \* rx_buff_cfg.count
    Sizes,     \* the sizes of frames, in receive buffers
    Names,     \* bound: frames are named 0 .. Names - 1 in turn
    Free,      \* a descriptor with its own bit set
    None       \* no pbuf

RxSlot == 0 .. RxCount - 1
Name   == 0 .. Names - 1
Closed == [frame : Name, fs : BOOLEAN, ls : BOOLEAN]

ASSUME RxAssumption ==
    /\ RxCount \in Nat /\ RxCount >= 2
    /\ Names \in Nat /\ Names > RxCount + 2
    /\ Sizes \subseteq 1 .. RxCount
    /\ Free \notin Closed /\ None \notin Name

VARIABLES
    rx,          \* the descriptors
    rx_dma,      \* the descriptor the DMA is at
    left, name,  \* the segments still to come of frame name
    ri,          \* the receive interrupt is pending
    rx_sem,      \* s_xSemaphore is given
    rx_pc,       \* what ethernetif_input is doing
    cur,         \* desc.rx_desc_list_cur
    fs_rx_desc, seg_count, \* desc.rx_frame_info
    pbuf,        \* the frame in p
    input,       \* the frame the stack took last
    gave_up      \* history: has a failure ended the loop since the last interrupt

dma   == <<rx_dma, left, name>>
info  == <<cur, fs_rx_desc, seg_count>>
rxvars == <<rx, dma, ri, rx_sem, rx_pc, info, pbuf, input, gave_up>>

RxAt(s, k) == (s + k) % RxCount

\* enet_dma_rx_desc_chain_init.
RxInit ==
    /\ rx = [s \in RxSlot |-> Free]
    /\ rx_dma = 0 /\ left = 0 /\ name = 0
    /\ ri = FALSE /\ rx_sem = FALSE
    /\ rx_pc = "wait"
    /\ cur = 0 /\ fs_rx_desc = 0 /\ seg_count = 0
    /\ pbuf = None /\ input = None
    /\ gave_up = FALSE
-----------------------------------------------------------------------------
\* The descriptor linked behind the one the DMA is at (mutant: the last one
\* is not linked to the first).
RunsOn   == rx_dma + 1
NextDesc == RxAt(rx_dma, 1)

\* The DMA stores the next segment of a frame, or the first of a new one,
\* and looks for the descriptor of the one after it.
Segment(first, size) ==
    LET ls == size = 1 \/ rx[RxAt(rx_dma, 1)] # Free IN
    /\ rx[rx_dma] = Free
    /\ rx' = [rx EXCEPT ![rx_dma] = [frame |-> name, fs |-> first, ls |-> ls]]
    /\ rx_dma' = NextDesc
    /\ left' = IF ls THEN 0 ELSE size - 1
    /\ name' = IF ls THEN (name + 1) % Names ELSE name
    /\ ri' = (ri \/ ls)
    /\ UNCHANGED <<rx_sem, rx_pc, info, pbuf, input, gave_up>>

Store == \/ left = 0 /\ \E size \in Sizes : Segment(TRUE, size)
         \/ left > 0 /\ Segment(FALSE, left)

\* isr_enet.  It gives the semaphore before it clears the status, and the
\* task runs only after both.
RxIsr ==
    /\ ri
    /\ ri' = FALSE /\ rx_sem' = TRUE
    /\ gave_up' = FALSE
    /\ UNCHANGED <<rx, dma, rx_pc, info, pbuf, input>>
-----------------------------------------------------------------------------
\* ethernetif_input: a wait that times out is begun again.
RxWake ==
    /\ rx_pc = "wait" /\ rx_sem
    /\ rx_sem' = FALSE
    /\ rx_pc' = "read"
    /\ UNCHANGED <<rx, dma, ri, info, pbuf, input, gave_up>>

\* enet_get_received_frame_interrupt scans n descriptors, up to a last
\* segment or as far as they are closed.
Scanned(n) == \A k \in 0 .. n - 1 : rx[RxAt(cur, k)] # Free
EndsFrame(n) == n > 0 /\ rx[RxAt(cur, n - 1)].ls
Scans(n) ==
    /\ n <= RxCount /\ Scanned(n)
    /\ \A k \in 1 .. n - 1 : ~EndsFrame(k)
    /\ EndsFrame(n) \/ n = RxCount \/ ~Scanned(n + 1)

\* The segments seen so far, and the descriptor of the first, after the scan.
Begins(n) == {k \in 0 .. n - 1 : rx[RxAt(cur, k)].fs /\ ~rx[RxAt(cur, k)].ls}
Count(n)  == IF Begins(n) = {} THEN seg_count + n
             ELSE n - (CHOOSE k \in Begins(n) : \A j \in Begins(n) : j <= k)
\* A mutant: the count is not cleared after a frame.
CountKept(n)  == Count(n)
CountAfter(n) == IF EndsFrame(n) THEN 0 ELSE Count(n)
First(n)  == IF Begins(n) # {} \/ (EndsFrame(n) /\ Count(n) = 1)
               THEN RxAt(cur, n - Count(n)) ELSE fs_rx_desc

\* The descriptors low_level_input gives back: count from s on (mutant: one
\* short).
ReleasedButLast(s, count) == {RxAt(s, k) : k \in 0 .. count - 2}
Released(s, count) == {RxAt(s, k) : k \in 0 .. count - 1}

\* low_level_input finds a frame; the pbuf may not be had, the descriptors go
\* back to the DMA all the same.
Receive(n) ==
    /\ rx_pc = "read" /\ Scans(n) /\ EndsFrame(n)
    /\ \E p \in {rx[First(n)].frame, None} :
        /\ pbuf' = p
        /\ rx_pc' = IF p = None THEN "wait" ELSE "input"
        /\ gave_up' = (gave_up \/ p = None)
    /\ rx' = [s \in RxSlot |-> IF s \in Released(First(n), Count(n)) THEN Free ELSE rx[s]]
    /\ cur' = RxAt(cur, n)
    /\ fs_rx_desc' = First(n)
    /\ seg_count' = CountAfter(n)
    /\ UNCHANGED <<dma, ri, rx_sem, input>>

\* It finds none, or the beginning of one.
ReceiveNone(n) ==
    /\ rx_pc = "read" /\ Scans(n) /\ ~EndsFrame(n)
    /\ cur' = RxAt(cur, n)
    /\ fs_rx_desc' = First(n)
    /\ seg_count' = CountAfter(n)
    /\ pbuf' = None
    /\ rx_pc' = "wait"
    /\ UNCHANGED <<rx, dma, ri, rx_sem, input, gave_up>>

\* netif->input takes the frame, and the task goes for the next one; or it
\* refuses it, and the task waits for the next interrupt.  A mutant does so in
\* both cases.
InputTakesOnce ==
    /\ rx_pc = "input"
    /\ input' = pbuf
    /\ pbuf' = None
    /\ rx_pc' = "wait"
    /\ UNCHANGED <<rx, dma, ri, rx_sem, info, gave_up>>

InputTakes ==
    /\ rx_pc = "input"
    /\ input' = pbuf
    /\ pbuf' = None
    /\ rx_pc' = "read"
    /\ UNCHANGED <<rx, dma, ri, rx_sem, info, gave_up>>

InputRefuses ==
    /\ rx_pc = "input"
    /\ pbuf' = None
    /\ rx_pc' = "wait"
    /\ gave_up' = TRUE
    /\ UNCHANGED <<rx, dma, ri, rx_sem, info, input>>
-----------------------------------------------------------------------------
Task == \/ RxWake \/ InputTakes \/ InputRefuses
        \/ \E n \in 0 .. RxCount : Receive(n) \/ ReceiveNone(n)

RxNext == Store \/ RxIsr \/ Task

\* The interrupt is taken and the task, of the highest priority, runs.
RxFairness == WF_rxvars(RxIsr) /\ WF_rxvars(Task)
-----------------------------------------------------------------------------
\* PROPERTIES

\* The type invariant of ring, driver and task.
RxTypeOK ==
    /\ rx \in [RxSlot -> Closed \cup {Free}]
    /\ rx_dma \in RxSlot /\ left \in 0 .. RxCount - 1 /\ name \in Name
    /\ ri \in BOOLEAN /\ rx_sem \in BOOLEAN /\ gave_up \in BOOLEAN
    /\ rx_pc \in {"wait", "read", "input"}
    /\ cur \in RxSlot /\ fs_rx_desc \in RxSlot /\ seg_count \in 0 .. RxCount
    /\ pbuf \in Name \cup {None} /\ input \in Name \cup {None}

\* Where the oldest descriptor not given back is: the driver may have walked
\* past the first segments of a frame.
Oldest == IF seg_count > 0 THEN fs_rx_desc ELSE cur

\* Ownership goes round the ring in one piece: the closed descriptors reach
\* from the oldest one not given back up to where the DMA is, the free ones
\* from there on, and seg_count says how many the driver has walked past.
\* One given back too few or too many would stop the DMA, or hand the driver
\* an old segment (hpm_enet_drv.c l.332-383, ethernetif.c l.305-314).
RingInOnePiece ==
    \E n \in 0 .. RxCount :
        /\ rx_dma = RxAt(Oldest, n)
        /\ seg_count <= n
        /\ cur = RxAt(Oldest, seg_count)
        /\ \A k \in 0 .. RxCount - 1 : rx[RxAt(Oldest, k)] # Free <=> k < n

\* The frames complete in the ring, oldest first: frame j ends at the place,
\* seen from the oldest descriptor, up to which there are j last segments.
Lasts == {k \in 0 .. RxCount - 1 : rx[RxAt(Oldest, k)] # Free /\ rx[RxAt(Oldest, k)].ls}
EndOf(j) == CHOOSE k \in Lasts : Cardinality({i \in Lasts : i <= k}) = j
Complete == [j \in 1 .. Cardinality(Lasts) |-> rx[RxAt(Oldest, EndOf(j))].frame]

\* The ring and the task implement a queue: every frame the DMA completes is
\* handed to the stack once and in order, or dropped as a whole.
RxQueue == INSTANCE FrameQueue WITH
    Frame <- Name, Capacity <- RxCount + 1, Lossy <- TRUE,
    queue <- (IF pbuf = None THEN << >> ELSE <<pbuf>>) \o Complete,
    out   <- input
RefinesRxQueue == RxQueue!Spec

\* A complete frame does not wait for the next one to arrive: the task comes
\* for it, unless a frame could not be passed on, after which
\* ethernetif_input stops reading (l.269, l.347) until the next interrupt.
RxDrains == Complete # << >> ~> (pbuf # None \/ gave_up)
=============================================================================
