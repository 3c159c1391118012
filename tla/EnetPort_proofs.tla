--------------------------- MODULE EnetPort_proofs ---------------------------
(***************************************************************************)
(* Proofs about the network port, for rings of any length and frames of    *)
(* any number of segments.                                                 *)
(***************************************************************************)
EXTENDS EnetPort, Multiples, FiniteSetTheorems, SequenceTheorems, TLAPS

\* The descriptor k places behind the oldest one.
D(k) == rx[RxAt(Oldest, k)]

\* The ring with n closed descriptors, and what the frames in it look like: a
\* frame begins where the one before it has ended, the driver has walked past
\* the beginning of one frame only, and the last one is complete unless the
\* DMA is in the middle of it.
RingOf(n) ==
    /\ n \in 0 .. RxCount
    /\ rx_dma = RxAt(Oldest, n)
    /\ seg_count <= n
    /\ cur = RxAt(Oldest, seg_count)
    /\ \A k \in 0 .. RxCount - 1 : D(k) # Free <=> k < n
    /\ \A k \in 0 .. n - 1 : D(k).fs <=> (k = 0 \/ D(k - 1).ls)
    /\ \A k \in 0 .. seg_count - 1 : ~D(k).ls
    /\ left = 0 => n = 0 \/ D(n - 1).ls
    /\ left > 0 => n > 0 /\ n < RxCount /\ ~D(n - 1).ls

RxInv == RxTypeOK /\ \E n \in 0 .. RxCount : RingOf(n)
-----------------------------------------------------------------------------
(* Going round the ring. *)

\* A place up to three times round the ring.
Wrap(x) == IF x < RxCount THEN x
           ELSE IF x < 2 * RxCount THEN x - RxCount ELSE x - 2 * RxCount

LEMMA Remainder ==
    ASSUME NEW r \in Nat \ {0}, NEW x \in 0 .. r - 1, NEW q \in Nat
    PROVE  (x + q * r) % r = x
  <1>1. x + q * r \in Nat
    OBVIOUS
  <1> QED BY <1>1, SMTT(30)

LEMMA Around ==
    ASSUME NEW s \in RxSlot, NEW k \in 0 .. 2 * RxCount
    PROVE  RxAt(s, k) = Wrap(s + k)
  <1> USE RxAssumption DEF RxAt, RxSlot, Wrap
  <1>1. CASE s + k < RxCount
    BY <1>1
  <1>2. CASE s + k >= RxCount /\ s + k < 2 * RxCount
    <2>1. (s + k - RxCount + 1 * RxCount) % RxCount = s + k - RxCount
      BY <1>2, Remainder
    <2> QED BY <1>2, <2>1
  <1>3. CASE s + k >= 2 * RxCount
    <2>1. (s + k - 2 * RxCount + 2 * RxCount) % RxCount = s + k - 2 * RxCount
      BY <1>3, Remainder
    <2> QED BY <1>3, <2>1
  <1> QED BY <1>1, <1>2, <1>3

LEMMA AtFacts ==
    ASSUME NEW s \in RxSlot
    PROVE  /\ \A k \in 0 .. 2 * RxCount : RxAt(s, k) \in RxSlot
           /\ RxAt(s, 0) = s /\ RxAt(s, RxCount) = s
           /\ \A i, j \in 0 .. RxCount : RxAt(RxAt(s, i), j) = RxAt(s, i + j)
           /\ \A i, j \in 0 .. RxCount - 1 : RxAt(s, i) = RxAt(s, j) => i = j
           /\ \A i \in 0 .. RxCount : RxAt(s, i + RxCount) = RxAt(s, i)
           /\ \A u \in RxSlot : \E k \in 0 .. RxCount - 1 : u = RxAt(s, k)
  <1> USE RxAssumption
  <1> USE DEF Wrap
  <1>1. \A u \in RxSlot : \A k \in 0 .. 2 * RxCount : RxAt(u, k) = Wrap(u + k)
    BY ONLY Around
  <1>2. \A k \in 0 .. 2 * RxCount : RxAt(s, k) \in RxSlot
    BY <1>1 DEF RxSlot
  <1>3. RxAt(s, 0) = s /\ RxAt(s, RxCount) = s
    BY <1>1 DEF RxSlot
  <1>4. ASSUME NEW i \in 0 .. RxCount, NEW j \in 0 .. RxCount
        PROVE  RxAt(RxAt(s, i), j) = RxAt(s, i + j)
    <2>1. RxAt(s, i) = Wrap(s + i) /\ RxAt(s, i) \in RxSlot /\ i + j \in 0 .. 2 * RxCount
      BY <1>1, <1>2
    <2>2. RxAt(RxAt(s, i), j) = Wrap(Wrap(s + i) + j) /\ RxAt(s, i + j) = Wrap(s + (i + j))
      BY <1>1, <2>1
    <2> QED BY <2>2 DEF RxSlot
  <1>5. \A i, j \in 0 .. RxCount - 1 : RxAt(s, i) = RxAt(s, j) => i = j
    BY <1>1 DEF RxSlot
  <1>6. \A i \in 0 .. RxCount : RxAt(s, i + RxCount) = RxAt(s, i)
    BY <1>1 DEF RxSlot
  <1>7. ASSUME NEW u \in RxSlot PROVE \E k \in 0 .. RxCount - 1 : u = RxAt(s, k)
    <2>1. CASE u >= s
      <3>1. u - s \in 0 .. RxCount - 1 /\ u = Wrap(s + (u - s))
        BY <2>1 DEF RxSlot
      <3> QED BY <3>1, <1>1
    <2>2. CASE u < s
      <3>1. u + RxCount - s \in 0 .. RxCount - 1 /\ u = Wrap(s + (u + RxCount - s))
        BY <2>2 DEF RxSlot
      <3> QED BY <3>1, <1>1
    <2> QED BY <2>1, <2>2 DEF RxSlot
  <1> QED BY <1>2, <1>3, <1>4, <1>5, <1>6, <1>7
-----------------------------------------------------------------------------
(* The scan.  c is the place, seen from the oldest, that it reaches. *)

LEMMA Places ==
    ASSUME RxTypeOK, NEW n, RingOf(n)
    PROVE  /\ Oldest \in RxSlot
           /\ \A k \in 0 .. RxCount : RxAt(cur, k) = RxAt(Oldest, seg_count + k)
  <1>1. Oldest \in RxSlot
    BY DEF RxTypeOK, Oldest
  <1>2. cur = RxAt(Oldest, seg_count) /\ seg_count \in 0 .. RxCount
    BY DEF RingOf, RxTypeOK
  <1> QED BY <1>1, <1>2, AtFacts

LEMMA ScanStaysBehindDma ==
    ASSUME RxTypeOK, NEW n, RingOf(n), NEW m \in 0 .. RxCount, Scans(m)
    PROVE  seg_count + m <= n
  <1> USE RxAssumption
  <1>0. seg_count \in Nat /\ n \in 0 .. RxCount /\ seg_count <= n /\ RxCount \in Nat
    BY DEF RxTypeOK, RingOf
  <1>1. SUFFICES ASSUME seg_count + m > n PROVE FALSE
    BY <1>0
  <1>2. PICK g \in 0 .. RxCount : g = n - seg_count
    BY <1>0
  <1>3. rx[RxAt(cur, g)] # Free
    BY <1>0, <1>1, <1>2 DEF Scans, Scanned
  <1>4. D(n) # Free
    BY <1>0, <1>2, <1>3, Places DEF D
  <1>5. n = RxCount
    BY <1>0, <1>4 DEF RingOf
  <1>6. D(n - 1).ls
    BY <1>5, RxAssumption DEF RingOf, RxTypeOK
  <1>7. g > 0
    BY <1>0, <1>2, <1>5, <1>6 DEF RingOf
  <1>8. rx[RxAt(cur, g - 1)] = D(n - 1)
    BY <1>0, <1>2, <1>7, Places DEF D
  <1>9. EndsFrame(g)
    BY <1>6, <1>7, <1>8 DEF EndsFrame
  <1> QED BY <1>0, <1>1, <1>2, <1>7, <1>9 DEF Scans

LEMMA ScanReads ==
    ASSUME RxTypeOK, NEW n, RingOf(n), NEW m \in 0 .. RxCount, Scans(m)
    PROVE  /\ \A k \in 0 .. m - 1 : rx[RxAt(cur, k)] = D(seg_count + k)
           /\ EndsFrame(m) <=> m > 0 /\ D(seg_count + m - 1).ls
           /\ \A k \in 0 .. seg_count + m - 2 : ~D(k).ls
           /\ Begins(m) \subseteq {0}
           /\ 0 \in Begins(m) <=> m > 0 /\ seg_count = 0 /\ ~D(0).ls
  <1> USE RxAssumption
  <1>0. seg_count \in Nat /\ n \in 0 .. RxCount /\ seg_count <= n /\ RxCount \in Nat
    BY DEF RxTypeOK, RingOf
  <1>1. seg_count + m <= n
    BY ScanStaysBehindDma
  <1>2. \A k \in 0 .. m - 1 : rx[RxAt(cur, k)] = D(seg_count + k)
    BY <1>0, Places DEF D
  <1>3. EndsFrame(m) <=> m > 0 /\ D(seg_count + m - 1).ls
    <2>1. CASE m = 0
      BY <2>1 DEF EndsFrame
    <2>2. CASE m > 0
      <3>1. rx[RxAt(cur, m - 1)] = D(seg_count + (m - 1))
        BY <1>2, <2>2
      <3>2. seg_count + (m - 1) = seg_count + m - 1
        BY <1>0
      <3> QED BY <2>2, <3>1, <3>2 DEF EndsFrame
    <2> QED BY <2>1, <2>2
  <1>4. ASSUME NEW k \in 0 .. seg_count + m - 2 PROVE ~D(k).ls
    <2>1. CASE k < seg_count
      BY <1>0, <2>1 DEF RingOf
    <2>2. CASE k >= seg_count
      <3>1. PICK j \in 1 .. m - 1 : j = k - seg_count + 1
        BY <1>0, <2>2
      <3>2. ~EndsFrame(j)
        BY DEF Scans
      <3>3. rx[RxAt(cur, j - 1)] = D(k)
        BY <1>0, <1>2, <3>1, <2>2
      <3> QED BY <3>1, <3>2, <3>3 DEF EndsFrame
    <2> QED BY <1>0, <2>1, <2>2
  <1>5. ASSUME NEW k \in 0 .. m - 1
        PROVE  /\ D(seg_count + k).fs <=> k = 0 /\ seg_count = 0
               /\ k \in Begins(m) <=> D(seg_count + k).fs /\ ~D(seg_count + k).ls
    <2>1. D(seg_count + k).fs <=> (seg_count + k = 0 \/ D(seg_count + k - 1).ls)
      BY <1>0, <1>1 DEF RingOf
    <2>2. seg_count + k > 0 => ~D(seg_count + k - 1).ls
      BY <1>0, <1>4
    <2> QED BY <1>0, <1>2, <2>1, <2>2 DEF Begins
  <1>6. Begins(m) \subseteq {0}
    BY <1>5 DEF Begins
  <1>7. 0 \in Begins(m) <=> m > 0 /\ seg_count = 0 /\ ~D(0).ls
    <2>1. CASE m = 0
      BY <2>1 DEF Begins
    <2>2. CASE m > 0
      <3>1. 0 \in 0 .. m - 1
        BY <2>2
      <3>2. 0 \in Begins(m) <=> D(seg_count).fs /\ ~D(seg_count).ls
        BY <1>0, <1>5, <3>1
      <3>3. D(seg_count).fs <=> seg_count = 0
        BY <1>0, <1>5, <3>1
      <3> QED BY <2>2, <3>2, <3>3
    <2> QED BY <2>1, <2>2
  <1> QED BY <1>2, <1>3, <1>4, <1>6, <1>7

LEMMA ScanCounts ==
    ASSUME RxTypeOK, NEW n, RingOf(n), NEW m \in 0 .. RxCount, Scans(m)
    PROVE  /\ Count(m) = seg_count + m
           /\ seg_count + m > 0 => First(m) = Oldest
           /\ First(m) \in RxSlot
  <1> USE RxAssumption
  <1>0. seg_count \in Nat /\ cur \in RxSlot /\ fs_rx_desc \in RxSlot
    BY DEF RxTypeOK
  <1>1. RxAt(cur, 0) = cur
    BY <1>0, AtFacts
  <1>2. CASE 0 \in Begins(m)
    <2>1. Begins(m) = {0} /\ m > 0 /\ seg_count = 0
      BY <1>2, ScanReads
    <2>2. (CHOOSE k \in Begins(m) : \A j \in Begins(m) : j <= k) = 0
      BY <2>1
    <2>3. Count(m) = m
      BY <2>1, <2>2 DEF Count
    <2>4. First(m) = cur
      <3>1. First(m) = RxAt(cur, m - Count(m))
        BY <2>1 DEF First
      <3>2. m - Count(m) = 0
        BY <2>3
      <3> QED BY <3>1, <3>2, <1>1
    <2> QED BY <1>0, <2>1, <2>3, <2>4 DEF Oldest
  <1>3. CASE 0 \notin Begins(m)
    <2>1. Begins(m) = {}
      BY <1>3, ScanReads
    <2>2. Count(m) = seg_count + m
      BY <2>1 DEF Count
    <2>3. CASE EndsFrame(m) /\ seg_count + m = 1
      <3>1. m = 1 /\ seg_count = 0
        BY <1>0, <2>3 DEF EndsFrame
      <3>2. First(m) = RxAt(cur, m - Count(m))
        BY <2>2, <2>3 DEF First
      <3>3. m - Count(m) = 0
        BY <2>2, <3>1
      <3>4. First(m) = cur
        BY <1>1, <3>2, <3>3
      <3> QED BY <1>0, <2>2, <3>1, <3>4 DEF Oldest
    <2>4. CASE ~(EndsFrame(m) /\ seg_count + m = 1)
      <3>1. First(m) = fs_rx_desc
        BY <2>1, <2>2, <2>4 DEF First
      <3>2. ASSUME seg_count = 0, m > 0 PROVE FALSE
        <4>1. D(0).ls
          BY <1>3, <3>2, ScanReads
        <4>2. rx[RxAt(cur, 0)] = D(0)
          BY <3>2, ScanReads
        <4>3. EndsFrame(1)
          BY <4>1, <4>2 DEF EndsFrame
        <4>4. m = 1
          BY <3>2, <4>3 DEF Scans
        <4> QED BY <2>4, <3>2, <4>3, <4>4
      <3> QED BY <1>0, <2>2, <3>1, <3>2 DEF Oldest
    <2> QED BY <2>3, <2>4
  <1> QED BY <1>2, <1>3
-----------------------------------------------------------------------------
(* The steps that change the ring. *)

LEMMA SegmentKeeps ==
    ASSUME RxTypeOK, NEW n, RingOf(n), NEW first \in BOOLEAN, first <=> left = 0,
           NEW size \in 1 .. RxCount, Segment(first, size)
    PROVE  /\ n < RxCount /\ RingOf(n + 1)' /\ RxTypeOK'
           /\ \A k \in 0 .. n - 1 : D(k)' = D(k)
           /\ D(n)'.frame = name /\ (D(n)'.ls <=> left' = 0)
           /\ name' = IF left' = 0 THEN (name + 1) % Names ELSE name
  <1> USE RxAssumption
  <1> DEFINE ls == size = 1 \/ rx[RxAt(rx_dma, 1)] # Free
             d  == [frame |-> name, fs |-> first, ls |-> ls]
  <1>0. /\ seg_count \in Nat /\ n \in 0 .. RxCount /\ seg_count <= n
        /\ Oldest \in RxSlot /\ rx_dma \in RxSlot /\ left \in Nat /\ name \in Name
        /\ rx_dma = RxAt(Oldest, n)
    BY Places DEF RxTypeOK, RingOf
  <1>1. /\ rx[rx_dma] = Free
        /\ rx' = [rx EXCEPT ![rx_dma] = d]
        /\ rx_dma' = RxAt(rx_dma, 1)
        /\ left' = IF ls THEN 0 ELSE size - 1
        /\ name' = IF ls THEN (name + 1) % Names ELSE name
        /\ ri' = (ri \/ ls)
        /\ UNCHANGED <<rx_sem, rx_pc, info, pbuf, input, gave_up>>
    BY DEF Segment, NextDesc
  <1>2. d \in Closed /\ d # Free /\ d.fs = first /\ d.ls = ls /\ d.frame = name
    <2>1. ls \in BOOLEAN
      OBVIOUS
    <2> HIDE DEF ls
    <2>2. d \in Closed
      BY <1>0, <2>1 DEF Closed
    <2>3. d.fs = first /\ d.ls = ls /\ d.frame = name
      OBVIOUS
    <2> QED BY <2>2, <2>3
  <1>3. n < RxCount
    <2>1. SUFFICES ASSUME n = RxCount PROVE FALSE
      BY <1>0
    <2>2. rx_dma = RxAt(Oldest, 0)
      BY <1>0, <2>1, AtFacts
    <2>3. D(0) # Free
      BY <1>0, <2>1 DEF RingOf
    <2> QED BY <1>1, <2>2, <2>3 DEF D
  <1>4. Oldest' = Oldest /\ UNCHANGED <<cur, fs_rx_desc, seg_count>>
    BY <1>1 DEF Oldest, info
  <1>5. /\ D(n)' = d
        /\ \A k \in 0 .. RxCount - 1 : k # n => D(k)' = D(k)
    <2>1. rx' \in [RxSlot -> Closed \cup {Free}]
      BY <1>1, <1>2 DEF RxTypeOK
    <2>2. D(n)' = d
      BY <1>0, <1>1, <1>4 DEF D, RxTypeOK
    <2>3. ASSUME NEW k \in 0 .. RxCount - 1, k # n PROVE D(k)' = D(k)
      <3>1. RxAt(Oldest, k) # rx_dma
        BY <1>0, <1>3, <2>3, AtFacts
      <3>2. RxAt(Oldest, k) \in RxSlot
        BY <1>0, AtFacts
      <3> QED BY <1>1, <1>4, <3>1, <3>2 DEF D, RxTypeOK
    <2> QED BY <2>2, <2>3
  <1>6. ~ls => n + 1 < RxCount
    <2>1. SUFFICES ASSUME n + 1 = RxCount PROVE ls
      BY <1>0, <1>3
    <2>2. RxAt(rx_dma, 1) = RxAt(Oldest, n + 1)
      BY <1>0, AtFacts
    <2>3. RxAt(Oldest, n + 1) = RxAt(Oldest, 0)
      BY <1>0, <2>1, AtFacts
    <2>4. D(0) # Free
      BY <1>0, <2>1 DEF RingOf
    <2> QED BY <2>2, <2>3, <2>4 DEF D
  <1>7. first <=> (n = 0 \/ D(n - 1).ls)
    BY <1>0 DEF RingOf
  <1> HIDE DEF ls, d
  <1>8. /\ left' \in 0 .. RxCount - 1
        /\ left' = 0 <=> ls
    BY <1>1, <1>2 DEF ls
  <1>9. rx_dma' = RxAt(Oldest, n + 1) /\ rx_dma' \in RxSlot
    BY <1>0, <1>1, <1>3, AtFacts
  <1>10. \A k \in 0 .. RxCount - 1 : D(k)' # Free <=> k < n + 1
    BY <1>0, <1>2, <1>3, <1>5 DEF RingOf
  <1>11. ASSUME NEW k \in 0 .. n PROVE D(k)'.fs <=> (k = 0 \/ D(k - 1)'.ls)
    <2>1. CASE k = n
      BY <1>0, <1>2, <1>3, <1>5, <1>7, <2>1
    <2>2. CASE k < n
      BY <1>0, <1>3, <1>5, <2>2 DEF RingOf
    <2> QED BY <1>0, <2>1, <2>2
  <1>12. \A k \in 0 .. seg_count - 1 : ~D(k)'.ls
    BY <1>0, <1>3, <1>5 DEF RingOf
  <1>13. D(n)'.ls = ls
    BY <1>2, <1>5
  <1>14. RingOf(n + 1)'
    <2>1. n + 1 \in 0 .. RxCount /\ n + 1 - 1 = n /\ n + 1 > 0
      BY <1>0, <1>3
    <2>2. cur' = RxAt(Oldest', seg_count') /\ seg_count' <= n + 1
      BY <1>0, <1>4 DEF RingOf
    <2>3. left' > 0 => n + 1 < RxCount /\ ~ls
      BY <1>6, <1>8
    <2>4. \A k \in 0 .. n + 1 - 1 : D(k)'.fs <=> (k = 0 \/ D(k - 1)'.ls)
      BY <1>11, <2>1
    <2>5. rx_dma' = RxAt(Oldest', n + 1)
      BY <1>4, <1>9
    <2>6. \A k \in 0 .. seg_count' - 1 : ~D(k)'.ls
      BY <1>4, <1>12
    <2>7. left' = 0 => n + 1 = 0 \/ D(n + 1 - 1)'.ls
      BY <1>8, <1>13, <2>1
    <2>8. left' > 0 => n + 1 > 0 /\ n + 1 < RxCount /\ ~D(n + 1 - 1)'.ls
      BY <1>13, <2>1, <2>3
    <2> QED BY <1>10, <2>1, <2>2, <2>4, <2>5, <2>6, <2>7, <2>8 DEF RingOf
  <1>15. RxTypeOK'
    <2>1. rx' \in [RxSlot -> Closed \cup {Free}]
      BY <1>1, <1>2 DEF RxTypeOK
    <2>2. name' \in Name
      BY <1>0, <1>1 DEF Name
    <2>3. ri' \in BOOLEAN
      BY <1>1 DEF RxTypeOK, ls
    <2> QED BY <1>1, <1>4, <1>8, <1>9, <2>1, <2>2, <2>3 DEF RxTypeOK, info
  <1>16. \A k \in 0 .. n - 1 : D(k)' = D(k)
    BY <1>0, <1>3, <1>5
  <1>17. D(n)'.frame = name /\ (D(n)'.ls <=> left' = 0)
    BY <1>2, <1>5, <1>8, <1>13
  <1>18. name' = IF left' = 0 THEN (name + 1) % Names ELSE name
    BY <1>1, <1>8
  <1> QED BY <1>3, <1>14, <1>15, <1>16, <1>17, <1>18

LEMMA ReceiveKeeps ==
    ASSUME RxTypeOK, NEW n, RingOf(n), NEW m \in 0 .. RxCount, Receive(m)
    PROVE  /\ RxTypeOK' /\ rx[First(m)] = D(0)
           /\ \E c \in 1 .. n, w \in 0 .. RxCount :
                 /\ c + w = n /\ RingOf(w)'
                 /\ \A k \in 0 .. w - 1 : D(k)' = D(c + k)
                 /\ D(c - 1).ls /\ \A k \in 0 .. c - 2 : ~D(k).ls
  <1> USE RxAssumption
  <1> DEFINE c == seg_count + m
  <1>0. /\ seg_count \in Nat /\ n \in 0 .. RxCount /\ seg_count <= n
        /\ Oldest \in RxSlot /\ rx_dma \in RxSlot /\ left \in Nat
        /\ rx_dma = RxAt(Oldest, n)
    BY Places DEF RxTypeOK, RingOf
  <1>1. /\ Scans(m) /\ EndsFrame(m)
        /\ rx' = [s \in RxSlot |-> IF s \in Released(First(m), Count(m)) THEN Free ELSE rx[s]]
        /\ cur' = RxAt(cur, m)
        /\ fs_rx_desc' = First(m)
        /\ seg_count' = 0
        /\ UNCHANGED <<dma, ri, rx_sem, input>>
        /\ \E p \in {rx[First(m)].frame, None} :
              /\ pbuf' = p
              /\ rx_pc' = IF p = None THEN "wait" ELSE "input"
              /\ gave_up' = (gave_up \/ p = None)
    BY DEF Receive, CountAfter
  <1>2. m > 0 /\ D(c - 1).ls /\ c \in 1 .. n
    <2>1. c <= n
      BY <1>1, ScanStaysBehindDma
    <2>2. m > 0 /\ D(c - 1).ls
      <3>1. Scans(m) /\ EndsFrame(m)
        BY <1>1
      <3>2. EndsFrame(m) <=> m > 0 /\ D(seg_count + m - 1).ls
        BY ONLY RxTypeOK, RingOf(n), m \in 0 .. RxCount, <3>1, ScanReads
      <3>3. c - 1 = seg_count + m - 1
        BY <1>0
      <3> HIDE DEF c
      <3> QED BY <3>1, <3>2, <3>3
    <2> QED BY <1>0, <2>1, <2>2
  <1>3. Count(m) = c /\ First(m) = Oldest /\ First(m) \in RxSlot
    BY <1>0, <1>1, <1>2, ScanCounts
  <1>4. cur' = RxAt(Oldest, c) /\ cur' \in RxSlot /\ Oldest' = cur'
    <2>1. cur' = RxAt(Oldest, c)
      BY <1>1, Places
    <2>2. RxAt(Oldest, c) \in RxSlot
      <3>1. c \in 0 .. 2 * RxCount
        BY <1>0, <1>2
      <3> HIDE DEF c
      <3> QED BY <1>0, <3>1, AtFacts
    <2>3. Oldest' = cur'
      BY <1>1 DEF Oldest
    <2> QED BY <2>1, <2>2, <2>3
  <1> HIDE DEF c
  <1>5. \A s \in RxSlot : rx'[s] = IF \E k \in 0 .. c - 1 : s = RxAt(Oldest, k)
                                   THEN Free ELSE rx[s]
    BY <1>1, <1>3 DEF Released
  <1>6. ASSUME NEW k \in 0 .. RxCount - 1
        PROVE  /\ c + k < RxCount => D(k)' = D(c + k)
               /\ c + k >= RxCount => D(k)' = Free
    <2>1. RxAt(Oldest', k) = RxAt(Oldest, c + k) /\ RxAt(Oldest, c + k) \in RxSlot
      <3>1. c \in 0 .. RxCount /\ k \in 0 .. RxCount /\ c + k \in 0 .. 2 * RxCount
        BY <1>0, <1>2
      <3>2. RxAt(RxAt(Oldest, c), k) = RxAt(Oldest, c + k)
        BY <1>0, <3>1, AtFacts
      <3>3. RxAt(Oldest, c + k) \in RxSlot
        BY <1>0, <3>1, AtFacts
      <3> QED BY <1>4, <3>2, <3>3
    <2>2. CASE c + k < RxCount
      <3>1. ASSUME NEW j \in 0 .. c - 1 PROVE RxAt(Oldest, c + k) # RxAt(Oldest, j)
        <4>1. j \in 0 .. RxCount - 1 /\ c + k \in 0 .. RxCount - 1 /\ j # c + k
          BY <1>0, <1>2, <2>2
        <4>2. \A i, l \in 0 .. RxCount - 1 : RxAt(Oldest, i) = RxAt(Oldest, l) => i = l
          BY <1>0, AtFacts
        <4> QED BY <4>1, <4>2
      <3>2. ~ \E j \in 0 .. c - 1 : RxAt(Oldest, c + k) = RxAt(Oldest, j)
        BY <3>1
      <3>3. rx'[RxAt(Oldest, c + k)] = rx[RxAt(Oldest, c + k)]
        BY <1>5, <2>1, <3>2
      <3>4. D(k)' = D(c + k)
        BY <2>1, <3>3 DEF D
      <3> QED BY <1>0, <1>2, <2>2, <3>4
    <2>3. CASE c + k >= RxCount
      <3>1. PICK j \in 0 .. RxCount : j = c + k - RxCount
        BY <1>0, <1>2, <2>3
      <3>2. j + RxCount = c + k /\ j \in 0 .. c - 1
        BY <1>0, <1>2, <3>1
      <3>3. RxAt(Oldest, c + k) = RxAt(Oldest, j)
        BY <1>0, <3>2, AtFacts
      <3> QED BY <1>5, <2>1, <2>3, <3>2, <3>3 DEF D
    <2> QED BY <1>0, <1>2, <2>2, <2>3
  <1>7. PICK w \in 0 .. RxCount : w = n - c
    BY <1>0, <1>2
  <1>8. rx_dma' = RxAt(Oldest', w)
    <2>1. RxAt(Oldest', w) = RxAt(Oldest, c + w) /\ c + w = n
      <3>1. c \in 0 .. RxCount /\ c + w = n
        BY <1>0, <1>2, <1>7
      <3>2. RxAt(RxAt(Oldest, c), w) = RxAt(Oldest, c + w)
        BY <1>0, <3>1, AtFacts
      <3> QED BY <1>4, <3>1, <3>2
    <2> QED BY <1>0, <1>1, <2>1 DEF dma
  <1>9. cur' = RxAt(Oldest', 0)
    BY <1>4, AtFacts
  <1>10. ASSUME NEW k \in 0 .. RxCount - 1 PROVE D(k)' # Free <=> k < w
    <2>1. CASE c + k < RxCount
      <3>1. D(c + k) # Free <=> c + k < n
        BY <1>0, <1>2, <2>1 DEF RingOf
      <3> QED BY <1>0, <1>2, <1>6, <1>7, <2>1, <3>1
    <2>2. CASE c + k >= RxCount
      BY <1>0, <1>2, <1>6, <1>7, <2>2
    <2> QED BY <1>0, <1>2, <2>1, <2>2
  <1>11. ASSUME NEW k \in 0 .. w - 1 PROVE D(k)'.fs <=> (k = 0 \/ D(k - 1)'.ls)
    <2>1. D(c + k).fs <=> (c + k = 0 \/ D(c + k - 1).ls)
      BY <1>0, <1>2, <1>7 DEF RingOf
    <2>2. D(k)' = D(c + k)
      BY <1>0, <1>2, <1>6, <1>7
    <2>3. CASE k = 0
      <3>1. c + k - 1 = c - 1
        BY <2>3, <1>2
      <3> QED BY <1>2, <2>1, <2>2, <2>3, <3>1
    <2>4. CASE k > 0
      <3>1. D(k - 1)' = D(c + (k - 1))
        BY <1>0, <1>2, <1>6, <1>7, <2>4
      <3>2. c + (k - 1) = c + k - 1 /\ c + k # 0
        BY <1>2, <2>4
      <3> QED BY <2>1, <2>2, <2>4, <3>1, <3>2
    <2> QED BY <2>3, <2>4
  <1>12. w > 0 => D(w - 1)' = D(n - 1)
    <2>1. w > 0 => c + (w - 1) = n - 1 /\ w - 1 \in 0 .. RxCount - 1 /\ n - 1 < RxCount
      BY <1>0, <1>2, <1>7
    <2> QED BY <1>6, <2>1
  <1>13. left' = 0 => w = 0 \/ D(w - 1)'.ls
    <2>1. left = 0 => D(n - 1).ls
      BY <1>0, <1>2 DEF RingOf
    <2> QED BY <1>1, <1>7, <1>12, <2>1 DEF dma
  <1>14. left' > 0 => w > 0 /\ w < RxCount /\ ~D(w - 1)'.ls
    <2>1. left > 0 => n < RxCount /\ ~D(n - 1).ls /\ c # n
      BY <1>2 DEF RingOf
    <2> QED BY <1>0, <1>1, <1>2, <1>7, <1>12, <2>1 DEF dma
  <1>15. RingOf(w)'
    BY <1>1, <1>7, <1>8, <1>9, <1>10, <1>11, <1>13, <1>14 DEF RingOf
  <1>16. RxTypeOK'
    <2>1. rx' \in [RxSlot -> Closed \cup {Free}]
      BY <1>1 DEF RxTypeOK
    <2>2. rx[First(m)].frame \in Name
      <3>1. Oldest = RxAt(Oldest, 0)
        BY <1>0, AtFacts
      <3>2. D(0) # Free
        BY <1>0, <1>2 DEF RingOf
      <3>3. rx[First(m)] \in Closed
        BY <1>3, <3>1, <3>2 DEF D, RxTypeOK
      <3> QED BY <3>3 DEF Closed
    <2>3. pbuf' \in Name \cup {None} /\ rx_pc' \in {"wait", "read", "input"} /\ gave_up' \in BOOLEAN
      BY <1>1, <2>2 DEF RxTypeOK
    <2> QED BY <1>1, <1>3, <1>4, <2>1, <2>3 DEF RxTypeOK, dma
  <1>17. \A k \in 0 .. w - 1 : D(k)' = D(c + k)
    BY <1>0, <1>2, <1>6, <1>7
  <1>18. \A k \in 0 .. c - 2 : ~D(k).ls
    <2>1. \A k \in 0 .. seg_count + m - 2 : ~D(k).ls
      BY <1>1, ScanReads
    <2>2. c - 2 = seg_count + m - 2
      BY <1>0 DEF c
    <2> QED BY <2>1, <2>2
  <1>19. rx[First(m)] = D(0)
    BY <1>0, <1>3, AtFacts DEF D
  <1>20. c + w = n
    BY <1>0, <1>2, <1>7
  <1> QED BY <1>2, <1>15, <1>16, <1>17, <1>18, <1>19, <1>20, Zenon

LEMMA ReceiveNoneKeeps ==
    ASSUME RxTypeOK, NEW n, RingOf(n), NEW m \in 0 .. RxCount, ReceiveNone(m)
    PROVE  RxTypeOK' /\ RingOf(n)' /\ Oldest' = Oldest /\ \A k : D(k)' = D(k)
  <1> USE RxAssumption
  <1> DEFINE c == seg_count + m
  <1>0. /\ seg_count \in Nat /\ n \in 0 .. RxCount /\ seg_count <= n
        /\ Oldest \in RxSlot /\ rx_dma = RxAt(Oldest, n)
    BY Places DEF RxTypeOK, RingOf
  <1>1. /\ Scans(m) /\ ~EndsFrame(m)
        /\ cur' = RxAt(cur, m)
        /\ fs_rx_desc' = First(m)
        /\ seg_count' = Count(m)
        /\ pbuf' = None /\ rx_pc' = "wait"
        /\ UNCHANGED <<rx, dma, ri, rx_sem, input, gave_up>>
    BY DEF ReceiveNone, CountAfter
  <1>2. seg_count' = c /\ c <= n /\ c \in 0 .. RxCount /\ First(m) \in RxSlot
    <2>1. Count(m) = c /\ c <= n /\ First(m) \in RxSlot
      BY <1>1, ScanCounts, ScanStaysBehindDma
    <2> QED BY <1>0, <1>1, <2>1
  <1>3. cur' = RxAt(Oldest, c) /\ cur' \in RxSlot
    BY <1>0, <1>1, <1>2, Places, AtFacts
  <1>4. Oldest' = Oldest
    <2>1. CASE c > 0
      BY <1>1, <1>2, <2>1, ScanCounts DEF Oldest
    <2>2. CASE c = 0
      <3>1. seg_count = 0
        BY <1>0, <2>2
      <3> QED BY <1>0, <1>2, <1>3, <2>2, AtFacts DEF Oldest
    <2> QED BY <1>2, <2>1, <2>2
  <1>5. \A k : D(k)' = D(k)
    BY <1>1, <1>4 DEF D
  <1>6. ASSUME NEW k \in 0 .. c - 1 PROVE ~D(k).ls
    <2>1. CASE k < c - 1
      <3>1. k \in 0 .. seg_count + m - 2
        BY <1>0, <2>1
      <3> QED BY <1>1, <3>1, ScanReads
    <2>2. CASE k = c - 1 /\ m > 0
      <3>1. Scans(m) /\ ~EndsFrame(m)
        BY <1>1
      <3>2. EndsFrame(m) <=> m > 0 /\ D(seg_count + m - 1).ls
        BY ONLY RxTypeOK, RingOf(n), m \in 0 .. RxCount, <3>1, ScanReads
      <3>3. k = seg_count + m - 1
        BY <1>0, <2>2
      <3> QED BY <2>2, <3>1, <3>2, <3>3
    <2>3. CASE m = 0
      BY <1>0, <2>3 DEF RingOf
    <2> QED BY <1>0, <1>2, <2>1, <2>2, <2>3
  <1> HIDE DEF c
  <1>7. RingOf(n)'
    BY <1>0, <1>1, <1>2, <1>3, <1>4, <1>5, <1>6 DEF RingOf, dma
  <1>8. RxTypeOK'
    BY <1>1, <1>2, <1>3 DEF RxTypeOK, dma
  <1> QED BY <1>4, <1>5, <1>7, <1>8
-----------------------------------------------------------------------------
(* The theorem. *)

LEMMA RestKeeps ==
    ASSUME RxTypeOK, NEW n, RingOf(n), UNCHANGED <<rx, dma, info>>,
           RxIsr \/ RxWake \/ InputTakes \/ InputRefuses \/ UNCHANGED rxvars
    PROVE  RxTypeOK' /\ RingOf(n)' /\ Oldest' = Oldest /\ \A k : D(k)' = D(k)
  <1>1. /\ Oldest' = Oldest /\ \A k : D(k)' = D(k)
        /\ UNCHANGED <<rx, rx_dma, left, name, cur, fs_rx_desc, seg_count>>
    BY DEF D, Oldest, dma, info
  <1>2. RingOf(n)'
    BY <1>1 DEF RingOf
  <1>3. RxTypeOK'
    BY <1>1 DEF RxTypeOK, RxIsr, RxWake, InputTakes, InputRefuses, rxvars
  <1> QED BY <1>1, <1>2, <1>3

LEMMA RxInitial ==
    ASSUME RxInit PROVE RxTypeOK /\ RingOf(0) /\ RxInv
  <1> USE RxAssumption
  <1>1. RxTypeOK
    <2>1. 0 \in RxSlot /\ 0 \in Name /\ 0 \in 0 .. RxCount - 1 /\ 0 \in 0 .. RxCount
      BY DEF RxSlot, Name
    <2> QED BY <2>1 DEF RxInit, RxTypeOK
  <1>2. Oldest = 0 /\ 0 \in RxSlot
    BY DEF RxInit, Oldest, RxSlot
  <1>3. RxAt(0, 0) = 0
    BY <1>2, AtFacts
  <1>4. \A k \in 0 .. RxCount - 1 : D(k) = Free
    BY <1>2, AtFacts DEF D, RxInit
  <1>5. RingOf(0)
    BY <1>2, <1>3, <1>4 DEF RingOf, RxInit
  <1> QED BY <1>1, <1>5 DEF RxInv

\* Any number n of closed descriptors is as good as another.
LEMMA RxInvNext ==
    ASSUME NEW n \in Nat, RxTypeOK', RingOf(n)'
    PROVE  RxInv'
  <1>1. n \in 0 .. RxCount
    BY DEF RingOf
  <1> QED BY <1>1 DEF RxInv

LEMMA RxStep ==
    ASSUME RxInv, RxNext \/ UNCHANGED rxvars PROVE RxInv'
  <1> USE RxAssumption
  <1>1. PICK n \in 0 .. RxCount : RingOf(n)
    BY DEF RxInv
  <1>2. RxTypeOK /\ n \in Nat /\ n + 1 \in Nat
    BY DEF RxInv
  <1>3. CASE Store
    <2>1. CASE left = 0 /\ \E size \in Sizes : Segment(TRUE, size)
      <3>1. RxTypeOK' /\ RingOf(n + 1)'
        BY <1>1, <1>2, <2>1, SegmentKeeps
      <3> QED BY <1>2, <3>1, RxInvNext
    <2>2. CASE left > 0 /\ Segment(FALSE, left)
      <3>1. left \in 1 .. RxCount
        BY <1>2, <2>2 DEF RxTypeOK
      <3>2. FALSE <=> left = 0
        BY <2>2, <3>1
      <3>3. RxTypeOK' /\ RingOf(n + 1)'
        BY <1>1, <1>2, <2>2, <3>1, <3>2, SegmentKeeps
      <3> QED BY <1>2, <3>3, RxInvNext
    <2> QED BY <1>3, <2>1, <2>2 DEF Store
  <1>4. ASSUME NEW m \in 0 .. RxCount, Receive(m) PROVE RxInv'
    <2>1. PICK w \in 0 .. RxCount : RxTypeOK' /\ RingOf(w)'
      BY <1>1, <1>2, <1>4, ReceiveKeeps
    <2> QED BY <2>1, RxInvNext
  <1>5. ASSUME NEW m \in 0 .. RxCount, ReceiveNone(m) PROVE RxInv'
    BY <1>1, <1>2, <1>5, ReceiveNoneKeeps, RxInvNext
  <1>6. CASE RxIsr \/ RxWake \/ InputTakes \/ InputRefuses \/ UNCHANGED rxvars
    <2>1. UNCHANGED <<rx, dma, info>>
      BY <1>6 DEF RxIsr, RxWake, InputTakes, InputRefuses, rxvars
    <2> QED BY <1>1, <1>2, <1>6, <2>1, RestKeeps, RxInvNext
  <1> QED BY <1>3, <1>4, <1>5, <1>6 DEF RxNext, Task

\* The invariant says what RingInOnePiece does.
LEMMA RxInvPieces ==
    ASSUME RxInv PROVE RxTypeOK /\ RingInOnePiece
  BY DEF RxInv, RingOf, RingInOnePiece, D

\* In a ring of any length, with frames of any sizes that fit it, the closed
\* descriptors are in one piece between the oldest one not given back and the
\* DMA, and seg_count counts those the driver has walked past
\* (hpm_enet_drv.c l.332-383, ethernetif.c l.305-314).
THEOREM RingCorrect == Spec => []RingInOnePiece
  <1>1. Init => RxInv
    BY RxInitial DEF Init
  <1>2. RxInv /\ [Next]_portvars => RxInv'
    BY RxStep DEF Next, Receiving, Sending, portvars
  <1> QED BY <1>1, <1>2, RxInvPieces, PTL DEF Spec

\* The types of ring, driver and task.
THEOREM RxTypeCorrect == Spec => []RxTypeOK
  <1>1. Init => RxInv
    BY RxInitial DEF Init
  <1>2. RxInv /\ [Next]_portvars => RxInv'
    BY RxStep DEF Next, Receiving, Sending, portvars
  <1> QED BY <1>1, <1>2, RxInvPieces, PTL DEF Spec
-----------------------------------------------------------------------------
(* The frames in the receive ring. *)

\* The name d names after x, and its inverse.
After(d, x) == RingAt(d, x, Names)

LEMMA AfterFacts ==
    /\ \A x \in Name : \A d \in 0 .. Names - 1 : After(d, x) \in Name
    /\ \A x \in Name : After(0, x) = x
    /\ \A x \in Name : \A d \in 0 .. Names - 2 : After(d + 1, x) = After(1, After(d, x))
    /\ \A x, y \in Name : \A d \in 0 .. Names - 1 : After(d, x) = After(d, y) => x = y
    /\ \A x \in Name : \A d \in 1 .. Names - 1 : After(d, x) # x
    /\ \A x \in Name : After(1, x) = (x + 1) % Names
<1>1. Names \in Nat \ {0} /\ Name = 0 .. Names - 1
  BY RxAssumption DEF Name
<1>2. ASSUME NEW s \in Name
      PROVE  /\ \A k \in Nat : RingAt(s, k, Names) \in Name
             /\ RingAt(s, 0, Names) = s
             /\ \A i, j \in Nat : RingAt(RingAt(s, i, Names), j, Names) = RingAt(s, i + j, Names)
             /\ \A i, j \in Name : RingAt(s, i, Names) = RingAt(s, j, Names) => i = j
  <2>1. s \in 0 .. Names - 1
    BY <1>1
  <2>2. /\ \A k \in Nat : RingAt(s, k, Names) \in 0 .. Names - 1
        /\ RingAt(s, 0, Names) = s
        /\ \A i, j \in Nat : RingAt(RingAt(s, i, Names), j, Names) = RingAt(s, i + j, Names)
        /\ \A i, j \in 0 .. Names - 1 : RingAt(s, i, Names) = RingAt(s, j, Names) => i = j
    BY <1>1, <2>1, Round
  <2> QED BY <1>1, <2>2
<1>3. \A a, b \in Nat : RingAt(a, b, Names) = RingAt(b, a, Names)
  <2>1. \A a, b \in Nat : a + b = b + a
    OBVIOUS
  <2> QED BY <2>1, Zenon DEF RingAt
<1>4. \A x \in Name : x \in Nat
  BY <1>1
<1>5. 0 \in Name /\ 1 \in Name
  BY RxAssumption DEF Name
<1>6. \A x \in Name : \A d \in 0 .. Names - 1 : After(d, x) \in Name
  BY <1>1, <1>2, <1>4 DEF After
<1>7. \A x \in Name : After(0, x) = x
  BY <1>2, <1>3, <1>4, <1>5 DEF After
<1>8. ASSUME NEW x \in Name, NEW d \in 0 .. Names - 2
      PROVE  After(d + 1, x) = After(1, After(d, x))
  <2>1. d \in Name /\ d + 1 \in Name /\ d + 1 \in Nat /\ d \in Nat /\ x \in Nat /\ 1 \in Nat
    BY <1>1, <1>4
  <2>2. RingAt(d, x, Names) = RingAt(x, d, Names) /\ RingAt(d + 1, x, Names) = RingAt(x, d + 1, Names)
    BY <1>3, <2>1
  <2>3. RingAt(RingAt(x, d, Names), 1, Names) = RingAt(x, d + 1, Names)
    BY <1>2, <2>1
  <2>4. RingAt(x, d, Names) \in Nat
    BY <1>2, <1>4, <2>1
  <2>5. RingAt(RingAt(x, d, Names), 1, Names) = RingAt(1, RingAt(x, d, Names), Names)
    BY <1>3, <2>1, <2>4
  <2> QED BY <2>2, <2>3, <2>5 DEF After
<1>9. \A x, y \in Name : \A d \in 0 .. Names - 1 : After(d, x) = After(d, y) => x = y
  BY <1>1, <1>2 DEF After
<1>10. ASSUME NEW x \in Name, NEW d \in 1 .. Names - 1
       PROVE  After(d, x) # x
  <2>1. d \in Name /\ d \in Nat /\ x \in Nat /\ d # 0
    BY <1>1
  <2>2. RingAt(d, x, Names) = RingAt(x, d, Names) /\ RingAt(x, 0, Names) = x
    BY <1>2, <1>3, <2>1
  <2>3. RingAt(x, d, Names) # RingAt(x, 0, Names)
    BY <1>2, <1>5, <2>1
  <2> QED BY <2>2, <2>3 DEF After
<1>11. ASSUME NEW x \in Name
       PROVE  After(1, x) = (x + 1) % Names
  <2>1. RingAt(1, x, Names) = RingAt(x, 1, Names)
    BY <1>3, <1>4
  <2> QED BY <2>1 DEF After, RingAt
<1> QED BY <1>6, <1>7, <1>8, <1>9, <1>10, <1>11

\* There are f complete frames in the ring, and frame j ends before place
\* e[j].  The segments of a frame have one name, and the names follow on each
\* other up to the one of the frame that is being stored.
Frames(n, f, e) ==
    /\ f \in Nat /\ e \in [0 .. f -> 0 .. n] /\ e[0] = 0
    /\ \A a, b \in 0 .. f : a <= b => e[a] + (b - a) <= e[b]
    /\ \A k \in 0 .. n - 1 : D(k).ls <=> \E j \in 1 .. f : e[j] = k + 1
    /\ \A j \in 0 .. f : \A k \in 0 .. n - 1 :
          e[j] <= k /\ (j < f => k < e[j + 1]) => After(f - j, D(k).frame) = name

\* The frame in the task's hand is the one before the f in the ring.
Taken(f) ==
    /\ rx_pc = "input" <=> pbuf # None
    /\ pbuf # None => After(f + 1, pbuf) = name

RxFrames ==
    /\ RxTypeOK
    /\ \E n \in 0 .. RxCount, f \in Nat :
          RingOf(n) /\ Taken(f) /\ \E e \in [0 .. f -> 0 .. n] : Frames(n, f, e)
-----------------------------------------------------------------------------
LEMMA FramesFit ==
    ASSUME NEW n \in 0 .. RxCount, NEW f, NEW e, Frames(n, f, e)
    PROVE  /\ f \in Nat /\ f <= n /\ f + 1 \in 0 .. Names - 2
           /\ \A j \in 0 .. f : e[j] \in 0 .. n
           /\ \A j \in 1 .. f : e[j] - 1 \in 0 .. n - 1 /\ e[j] \in 1 .. n
           /\ \A i, j \in 0 .. f : i < j => e[i] < e[j]
<1>1. f \in Nat /\ e \in [0 .. f -> 0 .. n] /\ e[0] = 0
  BY DEF Frames
<1>2. \A i, j \in 0 .. f : i <= j => e[i] + (j - i) <= e[j]
  BY DEF Frames
<1>3. \A j \in 0 .. f : e[j] \in 0 .. n
  BY <1>1
<1>4. e[0] + (f - 0) <= e[f] /\ e[f] <= n
  BY <1>1, <1>2, <1>3
<1>5. f <= n
  BY <1>1, <1>3, <1>4
<1>6. ASSUME NEW i \in 0 .. f, NEW j \in 0 .. f, i < j
      PROVE  e[i] < e[j]
  <2>1. e[i] \in Int /\ e[j] \in Int
    BY <1>1, <1>3
  <2>2. i <= j /\ i \in Int /\ j \in Int
    BY <1>1, <1>6
  <2>3. e[i] + (j - i) <= e[j]
    BY <1>2, <2>2
  <2> HIDE DEF Frames
  <2> QED BY ONLY <1>6, <2>1, <2>2, <2>3
<1>7. \A j \in 1 .. f : e[j] - 1 \in 0 .. n - 1 /\ e[j] \in 1 .. n
  BY <1>1, <1>3, <1>6
<1> QED BY <1>1, <1>3, <1>5, <1>6, <1>7, RxAssumption

LEMMA CompleteIs ==
    ASSUME RxTypeOK, NEW n \in 0 .. RxCount, RingOf(n), NEW f, NEW e, Frames(n, f, e)
    PROVE  Complete = [j \in 1 .. f |-> D(e[j] - 1).frame]
<1>1. /\ f \in Nat /\ f <= n /\ n \in Nat
      /\ \A j \in 1 .. f : e[j] - 1 \in 0 .. n - 1 /\ e[j] \in 1 .. n
      /\ \A i, j \in 0 .. f : i < j => e[i] < e[j]
  BY FramesFit
<1>2. \A k \in 0 .. n - 1 : D(k).ls <=> \E j \in 1 .. f : e[j] = k + 1
  BY DEF Frames
<1>3. \A k \in 0 .. RxCount - 1 : D(k) # Free <=> k < n
  BY DEF RingOf
<1>4. ASSUME NEW k
      PROVE  k \in Lasts <=> \E j \in 1 .. f : k = e[j] - 1
  <2>1. k \in Lasts <=> k \in 0 .. RxCount - 1 /\ D(k) # Free /\ D(k).ls
    BY DEF Lasts, D
  <2>2. k \in Lasts <=> k \in 0 .. n - 1 /\ D(k).ls
    BY <2>1, <1>3, RxAssumption
  <2>3. ASSUME k \in 0 .. n - 1 /\ D(k).ls
        PROVE  \E j \in 1 .. f : k = e[j] - 1
    <3>1. PICK j \in 1 .. f : e[j] = k + 1
      BY <1>2, <2>3
    <3> QED BY <2>3, <3>1
  <2>4. ASSUME NEW j \in 1 .. f, k = e[j] - 1
        PROVE  k \in 0 .. n - 1 /\ D(k).ls
    <3>1. e[j] = k + 1 /\ k \in 0 .. n - 1
      BY <1>1, <2>4
    <3> QED BY <1>2, <3>1
  <2> QED BY <2>2, <2>3, <2>4
<1>5. \A i, j \in 1 .. f : e[i] - 1 <= e[j] - 1 <=> i <= j
  <2> SUFFICES ASSUME NEW i \in 1 .. f, NEW j \in 1 .. f
               PROVE  e[i] - 1 <= e[j] - 1 <=> i <= j
    OBVIOUS
  <2>1. e[i] \in 1 .. n /\ e[j] \in 1 .. n /\ i \in 0 .. f /\ j \in 0 .. f
    BY <1>1
  <2>2. (i < j => e[i] < e[j]) /\ (j < i => e[j] < e[i])
    BY <1>1, <2>1
  <2> QED BY <2>1, <2>2
<1>6. ASSUME NEW m \in 0 .. f
      PROVE  Cardinality({e[j] - 1 : j \in 1 .. m}) = m
  <2> DEFINE g == [j \in 1 .. m |-> e[j] - 1]
             S == {e[j] - 1 : j \in 1 .. m}
  <2>1. \A i, j \in 1 .. m : g[i] = g[j] => i = j
    <3> SUFFICES ASSUME NEW i \in 1 .. m, NEW j \in 1 .. m, g[i] = g[j]
                 PROVE  i = j
      OBVIOUS
    <3>1. i \in 1 .. f /\ j \in 1 .. f /\ e[i] - 1 = e[j] - 1
      BY <1>1
    <3>2. e[i] - 1 <= e[j] - 1 /\ e[j] - 1 <= e[i] - 1
      BY <1>1, <3>1
    <3> QED BY <1>5, <3>1, <3>2
  <2>2. g \in Bijection(1 .. m, S)
    BY <2>1 DEF Bijection, Injection, Surjection, IsInjective
  <2>3. m \in Nat
    BY <1>1
  <2> QED BY <2>2, <2>3, FS_CountingElements DEF ExistsBijection
<1>7. Cardinality(Lasts) = f
  <2>1. Lasts = {e[j] - 1 : j \in 1 .. f}
    BY <1>4
  <2> QED BY <1>1, <1>6, <2>1
<1>8. ASSUME NEW j \in 1 .. f
      PROVE  Cardinality({i \in Lasts : i <= e[j] - 1}) = j
  <2>1. {i \in Lasts : i <= e[j] - 1} = {e[i] - 1 : i \in 1 .. j}
    <3>1. ASSUME NEW k \in Lasts, k <= e[j] - 1
          PROVE  k \in {e[i] - 1 : i \in 1 .. j}
      <4>1. PICK i \in 1 .. f : k = e[i] - 1
        BY <1>4
      <4>2. i \in 1 .. j
        BY <1>5, <3>1, <4>1
      <4> QED BY <4>1, <4>2
    <3>2. ASSUME NEW i \in 1 .. j
          PROVE  e[i] - 1 \in Lasts /\ e[i] - 1 <= e[j] - 1
      <4>1. i \in 1 .. f
        BY <1>1
      <4> QED BY <1>4, <1>5, <4>1
    <3> QED BY <3>1, <3>2
  <2> QED BY <1>1, <1>6, <2>1
<1>9. ASSUME NEW j \in 1 .. f
      PROVE  EndOf(j) = e[j] - 1
  <2>1. e[j] - 1 \in Lasts /\ Cardinality({i \in Lasts : i <= e[j] - 1}) = j
    BY <1>4, <1>8
  <2>2. ASSUME NEW k \in Lasts, Cardinality({i \in Lasts : i <= k}) = j
        PROVE  k = e[j] - 1
    <3>1. PICK l \in 1 .. f : k = e[l] - 1
      BY <1>4
    <3>2. l = j
      BY <1>8, <2>2, <3>1
    <3> QED BY <3>1, <3>2
  <2> QED BY <2>1, <2>2 DEF EndOf
<1> QED BY <1>7, <1>9 DEF Complete, D

\* ... and after a step.
LEMMA CompleteNext ==
    (\A n \in 0 .. RxCount : \A f, e :
        RxTypeOK /\ RingOf(n) /\ Frames(n, f, e) => Complete = [j \in 1 .. f |-> D(e[j] - 1).frame])'
<1>1. \A n \in 0 .. RxCount : \A f, e :
        RxTypeOK /\ RingOf(n) /\ Frames(n, f, e) => Complete = [j \in 1 .. f |-> D(e[j] - 1).frame]
  BY CompleteIs
<1> QED BY <1>1, PTL
-----------------------------------------------------------------------------
(* What the steps do to the frames in the ring. *)

\* Every closed descriptor holds a name.
LEMMA FrameNames ==
    ASSUME RxTypeOK, NEW n \in 0 .. RxCount, RingOf(n)
    PROVE  \A k \in 0 .. n - 1 : D(k).frame \in Name
<1> SUFFICES ASSUME NEW k \in 0 .. n - 1
             PROVE  D(k).frame \in Name
  OBVIOUS
<1>1. k \in 0 .. RxCount - 1 /\ k < n /\ k \in 0 .. 2 * RxCount
  BY RxAssumption
<1>2. D(k) # Free
  BY <1>1 DEF RingOf
<1>3. RxAt(Oldest, k) \in RxSlot
  BY <1>1, Places, AtFacts
<1>4. D(k) \in Closed
  BY <1>2, <1>3 DEF RxTypeOK, D
<1> QED BY <1>4 DEF Closed

\* A segment is stored: a frame is complete with its last one.
LEMMA SegmentFrames ==
    ASSUME RxTypeOK, NEW n \in 0 .. RxCount, RingOf(n), NEW f \in Nat, Taken(f),
           NEW e \in [0 .. f -> 0 .. n], Frames(n, f, e), NEW first \in BOOLEAN, first <=> left = 0,
           NEW size \in 1 .. RxCount, Segment(first, size)
    PROVE  /\ RxTypeOK' /\ RingOf(n + 1)' /\ n + 1 \in 0 .. RxCount
           /\ f + 1 \in 1 .. Names - 2 /\ name \in Name /\ f <= n /\ n < RxCount
           /\ UNCHANGED <<pbuf, input>>
           /\ \A j \in 1 .. f : D(e[j] - 1)'.frame = D(e[j] - 1).frame
           /\ \E g \in Nat : \E h \in [0 .. g -> 0 .. n + 1] :
                 /\ Frames(n + 1, g, h)' /\ Taken(g)'
                 /\ \A j \in 1 .. f : h[j] = e[j]
                 /\ \/ g = f
                    \/ g = f + 1 /\ h[g] = n + 1 /\ D(h[g] - 1)'.frame = name
<1>1. /\ n < RxCount /\ RingOf(n + 1)' /\ RxTypeOK'
      /\ \A k \in 0 .. n - 1 : D(k)' = D(k)
      /\ D(n)'.frame = name /\ (D(n)'.ls <=> left' = 0)
      /\ name' = IF left' = 0 THEN (name + 1) % Names ELSE name
  BY SegmentKeeps
<1>2. /\ f <= n /\ f + 1 \in 0 .. Names - 2
      /\ \A j \in 0 .. f : e[j] \in 0 .. n
      /\ \A j \in 1 .. f : e[j] - 1 \in 0 .. n - 1 /\ e[j] \in 1 .. n
  BY FramesFit
<1>3. UNCHANGED <<rx_pc, pbuf, input>>
  BY DEF Segment
<1>4. /\ n + 1 \in 0 .. RxCount /\ n \in Nat /\ f \in Nat /\ Names \in Nat
      /\ f + 1 \in 1 .. Names - 2 /\ name \in Name /\ n = (n + 1) - 1
  BY <1>1, <1>2, RxAssumption DEF RxTypeOK
<1>5. \A k \in 0 .. n - 1 : D(k).frame \in Name
  BY FrameNames
<1>6. /\ e[0] = 0
      /\ \A a, b \in 0 .. f : a <= b => e[a] + (b - a) <= e[b]
      /\ \A k \in 0 .. n - 1 : D(k).ls <=> \E j \in 1 .. f : e[j] = k + 1
      /\ \A j \in 0 .. f : \A k \in 0 .. n - 1 :
            e[j] <= k /\ (j < f => k < e[j + 1]) => After(f - j, D(k).frame) = name
  BY DEF Frames
<1>7. \A j \in 1 .. f : D(e[j] - 1)'.frame = D(e[j] - 1).frame
  BY <1>1, <1>2
<1>8. ASSUME left' # 0
      PROVE  \E g \in Nat : \E h \in [0 .. g -> 0 .. n + 1] :
                 /\ Frames(n + 1, g, h)' /\ Taken(g)'
                 /\ \A j \in 1 .. f : h[j] = e[j]
                 /\ g = f
  <2>1. name' = name /\ ~D(n)'.ls
    BY <1>1, <1>8
  <2>2. e \in [0 .. f -> 0 .. n + 1]
    BY <1>2, <1>4
  <2>3. \A k \in 0 .. (n + 1) - 1 : D(k)'.ls <=> \E j \in 1 .. f : e[j] = k + 1
    <3> SUFFICES ASSUME NEW k \in 0 .. (n + 1) - 1
                 PROVE  D(k)'.ls <=> \E j \in 1 .. f : e[j] = k + 1
      OBVIOUS
    <3>1. CASE k = n
      <4>1. \A j \in 1 .. f : e[j] # n + 1
        BY <1>2, <1>4
      <4> QED BY <2>1, <3>1, <4>1
    <3>2. CASE k \in 0 .. n - 1
      BY <1>1, <1>6, <3>2
    <3> QED BY <1>4, <3>1, <3>2
  <2>4. ASSUME NEW j \in 0 .. f, NEW k \in 0 .. (n + 1) - 1, e[j] <= k, j < f => k < e[j + 1]
        PROVE  After(f - j, D(k)'.frame) = name'
    <3>1. CASE k = n
      <4>1. j < f => e[j + 1] \in 0 .. n
        <5>1. j < f => j + 1 \in 0 .. f
          BY <1>4
        <5> QED BY <1>2, <5>1
      <4>2. j = f
        BY <1>4, <2>4, <3>1, <4>1
      <4>3. f - j = 0 /\ D(k)'.frame = name
        BY <1>1, <1>4, <3>1, <4>2
      <4> QED BY <1>4, <2>1, <4>3, AfterFacts
    <3>2. CASE k \in 0 .. n - 1
      BY <1>1, <1>6, <2>1, <2>4, <3>2
    <3> QED BY <1>4, <3>1, <3>2
  <2>5. Frames(n + 1, f, e)'
    BY <1>4, <1>6, <2>2, <2>3, <2>4 DEF Frames
  <2>6. Taken(f)'
    BY <1>3, <2>1 DEF Taken
  <2> QED BY <2>2, <2>5, <2>6
<1>9. ASSUME left' = 0
      PROVE  \E g \in Nat : \E h \in [0 .. g -> 0 .. n + 1] :
                 /\ Frames(n + 1, g, h)' /\ Taken(g)'
                 /\ \A j \in 1 .. f : h[j] = e[j]
                 /\ g = f + 1 /\ h[g] = n + 1 /\ D(h[g] - 1)'.frame = name
  <2>1. name' = After(1, name) /\ D(n)'.ls
    BY <1>1, <1>4, <1>9, AfterFacts
  <2> DEFINE g == f + 1
             h == [j \in 0 .. g |-> IF j = g THEN n + 1 ELSE e[j]]
  <2>2. /\ g \in Nat /\ h \in [0 .. g -> 0 .. n + 1] /\ g # 0
        /\ h[g] = n + 1 /\ h[0] = 0 /\ \A j \in 0 .. f : h[j] = e[j]
    <3>1. g \in Nat /\ g # 0 /\ 0 \in 0 .. f /\ g \in 0 .. g
      BY <1>4
    <3>2. \A j \in 0 .. f : j \in 0 .. g /\ j # g
      BY <1>4
    <3>3. \A j \in 0 .. g : j = g \/ j \in 0 .. f
      BY <1>4
    <3>4. n + 1 \in 0 .. n + 1 /\ \A j \in 0 .. f : e[j] \in 0 .. n + 1
      BY <1>2, <1>4
    <3> HIDE DEF g
    <3>5. h[g] = n + 1 /\ \A j \in 0 .. f : h[j] = e[j]
      BY <3>1, <3>2
    <3>6. h \in [0 .. g -> 0 .. n + 1]
      <4>1. \A j \in 0 .. g : h[j] \in 0 .. n + 1
        BY <3>3, <3>4, <3>5
      <4> QED BY <4>1
    <3> QED BY <1>6, <3>1, <3>5, <3>6
  <2>3. \A j \in 0 .. g : j = g \/ j \in 0 .. f
    BY <1>4
  <2>4. g = f + 1
    OBVIOUS
  <2> HIDE DEF g, h
  <2>5. \A a, b \in 0 .. g : a <= b => h[a] + (b - a) <= h[b]
    <3> SUFFICES ASSUME NEW a \in 0 .. g, NEW b \in 0 .. g, a <= b
                 PROVE  h[a] + (b - a) <= h[b]
      OBVIOUS
    <3>1. CASE b \in 0 .. f
      <4>1. a \in 0 .. f
        BY <1>4, <3>1
      <4> QED BY <1>6, <2>2, <3>1, <4>1
    <3>2. CASE a = g /\ b = g
      BY <1>4, <2>2, <3>2
    <3>3. CASE a \in 0 .. f /\ b = g
      <4>1. e[a] + (f - a) <= e[f] /\ e[f] \in 0 .. n /\ e[a] \in 0 .. n
        <5>1. f \in 0 .. f /\ a <= f
          BY <1>4, <3>3
        <5> QED BY <1>2, <1>6, <3>3, <5>1
      <4>2. h[a] = e[a] /\ h[b] = n + 1 /\ b = f + 1
        BY <2>2, <2>4, <3>3
      <4> QED BY <1>4, <3>3, <4>1, <4>2
    <3> QED BY <2>3, <3>1, <3>2, <3>3
  <2>6. \A k \in 0 .. (n + 1) - 1 : D(k)'.ls <=> \E j \in 1 .. g : h[j] = k + 1
    <3> SUFFICES ASSUME NEW k \in 0 .. (n + 1) - 1
                 PROVE  D(k)'.ls <=> \E j \in 1 .. g : h[j] = k + 1
      OBVIOUS
    <3>1. CASE k = n
      <4>1. g \in 1 .. g
        BY <1>4, <2>4
      <4> QED BY <2>1, <2>2, <3>1, <4>1
    <3>2. CASE k \in 0 .. n - 1
      <4>1. D(k)'.ls <=> \E j \in 1 .. f : e[j] = k + 1
        BY <1>1, <1>6, <3>2
      <4>2. ASSUME NEW j \in 1 .. f, e[j] = k + 1
            PROVE  \E i \in 1 .. g : h[i] = k + 1
        <5>1. j \in 1 .. g /\ j \in 0 .. f
          BY <1>4, <2>4
        <5> QED BY <2>2, <4>2, <5>1
      <4>3. ASSUME NEW j \in 1 .. g, h[j] = k + 1
            PROVE  \E i \in 1 .. f : e[i] = k + 1
        <5>1. j # g
          BY <1>4, <2>2, <3>2, <4>3
        <5>2. j \in 1 .. f /\ j \in 0 .. f
          BY <1>4, <2>4, <5>1
        <5> QED BY <2>2, <4>3, <5>2
      <4> QED BY <4>1, <4>2, <4>3
    <3> QED BY <1>4, <3>1, <3>2
  <2>7. ASSUME NEW j \in 0 .. g, NEW k \in 0 .. (n + 1) - 1, h[j] <= k, j < g => k < h[j + 1]
        PROVE  After(g - j, D(k)'.frame) = name'
    <3>1. j \in 0 .. f /\ h[j] = e[j]
      <4>1. j # g
        BY <1>4, <2>2, <2>7
      <4> QED BY <2>2, <2>3, <4>1
    <3>2. g - j = (f - j) + 1 /\ f - j \in 0 .. Names - 2
      BY <1>4, <2>4, <3>1
    <3>3. CASE k = n
      <4>1. j < f => j + 1 \in 0 .. f /\ e[j + 1] \in 0 .. n /\ h[j + 1] = e[j + 1]
        <5>1. j < f => j + 1 \in 0 .. f
          BY <1>4, <3>1
        <5> QED BY <1>2, <2>2, <5>1
      <4>2. j = f
        BY <1>4, <2>4, <2>7, <3>1, <3>3, <4>1
      <4>3. g - j = 1 /\ D(k)'.frame = name
        BY <1>1, <1>4, <2>4, <3>3, <4>2
      <4> QED BY <2>1, <4>3
    <3>4. CASE k \in 0 .. n - 1
      <4>1. j < f => k < e[j + 1]
        <5>1. j < f => j + 1 \in 0 .. f /\ j < g
          BY <1>4, <2>4, <3>1
        <5> QED BY <2>2, <2>7, <5>1
      <4>2. After(f - j, D(k).frame) = name
        BY <1>6, <2>7, <3>1, <3>4, <4>1
      <4>3. D(k).frame \in Name /\ D(k)' = D(k)
        BY <1>1, <1>5, <3>4
      <4>4. After((f - j) + 1, D(k).frame) = After(1, After(f - j, D(k).frame))
        BY <3>2, <4>3, AfterFacts
      <4> QED BY <2>1, <3>2, <4>2, <4>3, <4>4
    <3> QED BY <1>4, <3>3, <3>4
  <2>8. Frames(n + 1, g, h)'
    BY <2>2, <2>5, <2>6, <2>7 DEF Frames
  <2>9. Taken(g)'
    <3>1. pbuf # None => pbuf \in Name /\ After(f + 1, pbuf) = name
      BY DEF Taken, RxTypeOK
    <3>2. pbuf # None => After(g + 1, pbuf) = After(1, After(f + 1, pbuf))
      <4>1. f + 1 \in 0 .. Names - 2
        BY <1>4
      <4> QED BY <2>4, <3>1, <4>1, AfterFacts
    <3> QED BY <1>3, <2>1, <3>1, <3>2 DEF Taken
  <2>10. D(h[g] - 1)'.frame = name
    BY <1>1, <1>4, <2>2
  <2>11. \A j \in 1 .. f : h[j] = e[j]
    BY <1>4, <2>2
  <2> QED BY <2>2, <2>4, <2>8, <2>9, <2>10, <2>11
<1> QED BY <1>1, <1>2, <1>3, <1>4, <1>7, <1>8, <1>9

\* A frame is taken out of the ring: the oldest, with all its segments.
LEMMA ReceiveFrames ==
    ASSUME RxTypeOK, NEW n \in 0 .. RxCount, RingOf(n), NEW f \in Nat, Taken(f),
           NEW e \in [0 .. f -> 0 .. n], Frames(n, f, e), NEW m \in 0 .. RxCount, Receive(m)
    PROVE  /\ RxTypeOK' /\ f - 1 \in Nat /\ pbuf = None /\ UNCHANGED input
           /\ pbuf' \in {None, D(e[1] - 1).frame}
           /\ \E w \in 0 .. RxCount : \E g \in [0 .. f - 1 -> 0 .. w] :
                 /\ RingOf(w)' /\ Taken(f - 1)' /\ Frames(w, f - 1, g)'
                 /\ \A j \in 1 .. f - 1 : D(g[j] - 1)' = D(e[j + 1] - 1)
<1>1. PICK c \in 1 .. n, w \in 0 .. RxCount :
        /\ RxTypeOK' /\ rx[First(m)] = D(0)
        /\ c + w = n /\ RingOf(w)'
        /\ \A k \in 0 .. w - 1 : D(k)' = D(c + k)
        /\ D(c - 1).ls /\ \A k \in 0 .. c - 2 : ~D(k).ls
  BY ReceiveKeeps
<1>2. /\ \A j \in 0 .. f : e[j] \in 0 .. n
      /\ \A j \in 1 .. f : e[j] - 1 \in 0 .. n - 1 /\ e[j] \in 1 .. n
      /\ \A i, j \in 0 .. f : i < j => e[i] < e[j]
      /\ f + 1 \in 0 .. Names - 2
  BY FramesFit
<1>3. /\ e[0] = 0
      /\ \A a, b \in 0 .. f : a <= b => e[a] + (b - a) <= e[b]
      /\ \A k \in 0 .. n - 1 : D(k).ls <=> \E j \in 1 .. f : e[j] = k + 1
      /\ \A j \in 0 .. f : \A k \in 0 .. n - 1 :
            e[j] <= k /\ (j < f => k < e[j + 1]) => After(f - j, D(k).frame) = name
  BY DEF Frames
<1>4. /\ rx_pc = "read" /\ rx_pc' = (IF pbuf' = None THEN "wait" ELSE "input")
      /\ pbuf' \in {rx[First(m)].frame, None}
      /\ UNCHANGED <<dma, input>>
  BY DEF Receive
<1>5. name' = name /\ pbuf = None
  BY <1>4 DEF dma, Taken
<1>6. c \in Nat /\ n \in Nat /\ w \in Nat /\ f \in Nat
  OBVIOUS
<1>7. f >= 1 /\ e[1] = c
  <2>1. c - 1 \in 0 .. n - 1 /\ (c - 1) + 1 = c
    BY <1>6
  <2>2. PICK j \in 1 .. f : e[j] = c
    BY <1>1, <1>3, <2>1
  <2>3. 1 \in 0 .. f /\ 1 \in 1 .. f /\ j \in 0 .. f /\ f >= 1
    BY <1>6, <2>2
  <2>4. ASSUME 1 < j
        PROVE  FALSE
    <3>1. e[1] < c /\ e[1] - 1 \in 0 .. n - 1 /\ e[1] \in 1 .. n
      BY <1>2, <2>2, <2>3, <2>4
    <3>2. D(e[1] - 1).ls
      <4>1. e[1] = (e[1] - 1) + 1
        BY <3>1
      <4> QED BY <1>3, <2>3, <3>1, <4>1
    <3>3. e[1] - 1 \in 0 .. c - 2
      BY <1>6, <3>1
    <3> QED BY <1>1, <3>2, <3>3
  <2> QED BY <2>2, <2>3, <2>4
<1>8. f - 1 \in Nat /\ \A j \in 0 .. f - 1 : j \in 0 .. f /\ j + 1 \in 1 .. f /\ j + 1 \in 0 .. f
  BY <1>6, <1>7
<1> DEFINE g == [j \in 0 .. f - 1 |-> e[j + 1] - c]
<1>9. \A j \in 0 .. f - 1 : g[j] = e[j + 1] - c
  OBVIOUS
<1>10. \A j \in 0 .. f - 1 : e[j + 1] \in c .. n
  <2> SUFFICES ASSUME NEW j \in 0 .. f - 1
               PROVE  e[j + 1] \in c .. n
    OBVIOUS
  <2>1. j + 1 \in 0 .. f /\ 1 \in 0 .. f /\ (j + 1 = 1 \/ 1 < j + 1)
    BY <1>7, <1>8
  <2>2. e[j + 1] \in 0 .. n /\ (1 < j + 1 => e[1] < e[j + 1])
    BY <1>2, <2>1
  <2> QED BY <1>6, <1>7, <2>1, <2>2
<1>11. g \in [0 .. f - 1 -> 0 .. w]
  <2>1. \A j \in 0 .. f - 1 : e[j + 1] - c \in 0 .. w
    BY <1>1, <1>6, <1>10
  <2> QED BY <2>1
<1> HIDE DEF g
<1>12. \A j \in 1 .. f - 1 : D(g[j] - 1)' = D(e[j + 1] - 1)
  <2> SUFFICES ASSUME NEW j \in 1 .. f - 1
               PROVE  D(g[j] - 1)' = D(e[j + 1] - 1)
    OBVIOUS
  <2>1. j \in 0 .. f - 1 /\ j + 1 \in 0 .. f /\ 1 \in 0 .. f /\ 1 < j + 1
    BY <1>7, <1>8
  <2>2. c < e[j + 1] /\ e[j + 1] \in c .. n
    BY <1>2, <1>7, <1>10, <2>1
  <2>3. g[j] = e[j + 1] - c
    BY <1>9, <2>1
  <2>4. g[j] \in 1 .. w /\ c + g[j] = e[j + 1]
    <3>1. c + w = n
      BY <1>1
    <3>2. PICK x \in c .. n : x = e[j + 1]
      BY <2>2
    <3>3. c < x /\ g[j] = x - c
      BY <2>2, <2>3, <3>2
    <3>4. x - c \in 1 .. w /\ c + (x - c) = x
      BY ONLY <1>6, <3>1, <3>3, x \in c .. n
    <3> QED BY <3>2, <3>3, <3>4
  <2>5. g[j] - 1 \in 0 .. w - 1 /\ c + (g[j] - 1) = e[j + 1] - 1
    <3>1. PICK x \in 1 .. w : x = g[j]
      BY <2>4
    <3>2. x - 1 \in 0 .. w - 1 /\ c + (x - 1) = (c + x) - 1
      BY ONLY <1>6, x \in 1 .. w
    <3> QED BY <2>4, <3>1, <3>2
  <2> QED BY <1>1, <2>5
<1>13. g[0] = 0
  <2>1. 0 \in 0 .. f - 1 /\ 0 + 1 = 1
    BY <1>7
  <2> QED BY <1>6, <1>7, <1>9, <2>1
<1>14. ASSUME NEW a \in 0 .. f - 1, NEW b \in 0 .. f - 1, a <= b
       PROVE  g[a] + (b - a) <= g[b]
  <2>1. a + 1 \in 0 .. f /\ b + 1 \in 0 .. f /\ a + 1 <= b + 1
    BY <1>8, <1>14
  <2>2. e[a + 1] + ((b + 1) - (a + 1)) <= e[b + 1]
    BY <1>3, <2>1
  <2>3. e[a + 1] \in Int /\ e[b + 1] \in Int
    BY <1>2, <2>1
  <2>4. g[a] = e[a + 1] - c /\ g[b] = e[b + 1] - c
    BY <1>9
  <2>5. (e[a + 1] - c) + (b - a) <= e[b + 1] - c
    <3>1. a \in Int /\ b \in Int
      OBVIOUS
    <3> QED BY ONLY <1>6, <2>2, <2>3, <3>1
  <2> QED BY <2>4, <2>5
<1>15. ASSUME NEW k \in 0 .. w - 1
       PROVE  D(k)'.ls <=> \E j \in 1 .. f - 1 : g[j] = k + 1
  <2>1. c + k \in 0 .. n - 1 /\ k \in Nat
    BY <1>1, <1>6
  <2>2. D(k)'.ls <=> \E j \in 1 .. f : e[j] = (c + k) + 1
    BY <1>1, <1>3, <2>1
  <2>3. ASSUME NEW j \in 1 .. f, e[j] = (c + k) + 1
        PROVE  \E i \in 1 .. f - 1 : g[i] = k + 1
    <3>1. j # 1
      BY <1>6, <1>7, <2>1, <2>3
    <3>2. j - 1 \in 1 .. f - 1 /\ j - 1 \in 0 .. f - 1 /\ (j - 1) + 1 = j
      BY <1>6, <3>1
    <3>3. g[j - 1] = e[j] - c
      BY <1>9, <3>2
    <3>4. g[j - 1] = k + 1
      BY <1>6, <2>1, <2>3, <3>3
    <3> QED BY <3>2, <3>4
  <2>4. ASSUME NEW j \in 1 .. f - 1, g[j] = k + 1
        PROVE  \E i \in 1 .. f : e[i] = (c + k) + 1
    <3>1. j \in 0 .. f - 1 /\ j + 1 \in 1 .. f
      BY <1>8
    <3>2. e[j + 1] \in Int /\ g[j] = e[j + 1] - c
      BY <1>2, <1>9, <3>1
    <3>3. e[j + 1] = (c + k) + 1
      <4>1. PICK x \in Int : x = e[j + 1]
        BY <3>2
      <4>2. x - c = k + 1
        BY <2>4, <3>2, <4>1
      <4>3. x = (c + k) + 1
        BY ONLY <1>6, <2>1, <4>2, x \in Int
      <4> QED BY <4>1, <4>3
    <3> QED BY <3>1, <3>3
  <2> QED BY <2>2, <2>3, <2>4
<1>16. ASSUME NEW j \in 0 .. f - 1, NEW k \in 0 .. w - 1,
              g[j] <= k, j < f - 1 => k < g[j + 1]
       PROVE  After((f - 1) - j, D(k)'.frame) = name'
  <2>1. c + k \in 0 .. n - 1 /\ k \in Nat /\ j + 1 \in 0 .. f /\ j \in Nat
    BY <1>1, <1>6, <1>8
  <2>2. e[j + 1] <= c + k
    <3>1. e[j + 1] \in Int /\ g[j] = e[j + 1] - c
      BY <1>2, <1>9, <2>1
    <3> QED BY <1>6, <1>16, <2>1, <3>1
  <2>3. j + 1 < f => c + k < e[(j + 1) + 1]
    <3> SUFFICES ASSUME j + 1 < f
                 PROVE  c + k < e[(j + 1) + 1]
      OBVIOUS
    <3>1. j + 1 \in 0 .. f - 1 /\ (j + 1) + 1 \in 0 .. f /\ j < f - 1
      BY <1>6, <2>1
    <3>2. e[(j + 1) + 1] \in Int /\ g[j + 1] = e[(j + 1) + 1] - c
      BY <1>2, <1>9, <3>1
    <3> QED BY <1>6, <1>16, <2>1, <3>1, <3>2
  <2>4. After(f - (j + 1), D(c + k).frame) = name
    BY <1>3, <2>1, <2>2, <2>3
  <2>5. f - (j + 1) = (f - 1) - j
    BY <1>6, <2>1
  <2> QED BY <1>1, <1>5, <2>4, <2>5
<1>17. Frames(w, f - 1, g)'
  BY <1>8, <1>11, <1>13, <1>14, <1>15, <1>16 DEF Frames
<1>18. After(f, D(0).frame) = name /\ D(0).frame = D(e[1] - 1).frame
  <2>1. /\ 0 \in 0 .. n - 1 /\ c - 1 \in 0 .. n - 1 /\ 0 \in 0 .. f /\ 0 < f /\ 0 + 1 = 1
        /\ 0 <= c - 1 /\ c - 1 < c /\ 0 < c /\ f - 0 = f
    BY <1>6, <1>7
  <2>2. After(f, D(0).frame) = name /\ After(f, D(c - 1).frame) = name
    <3>1. \A k \in 0 .. n - 1 :
            e[0] <= k /\ (0 < f => k < e[0 + 1]) => After(f - 0, D(k).frame) = name
      BY <1>3, <2>1, Zenon
    <3>2. \A k \in 0 .. n - 1 : 0 <= k /\ k < c => After(f, D(k).frame) = name
      <4>1. e[0] = 0 /\ 0 < f /\ e[0 + 1] = c /\ f - 0 = f
        BY <1>3, <1>7, <2>1
      <4>2. ASSUME NEW k \in 0 .. n - 1, 0 <= k, k < c
            PROVE  After(f, D(k).frame) = name
        <5>1. e[0] <= k /\ k < e[0 + 1]
          BY <4>1, <4>2
        <5>2. After(f - 0, D(k).frame) = name
          BY <3>1, <5>1, Zenon
        <5> QED BY <4>1, <5>2, Zenon
      <4> QED BY <4>2
    <3> QED BY <2>1, <3>2
  <2>3. \A k \in 0 .. n - 1 : D(k).frame \in Name
    BY FrameNames
  <2>4. f \in 0 .. Names - 1
    BY <1>2, <1>6, RxAssumption
  <2>5. D(0).frame = D(c - 1).frame
    BY <2>1, <2>2, <2>3, <2>4, AfterFacts
  <2> QED BY <1>7, <2>2, <2>5
<1>19. Taken(f - 1)'
  <2>1. (f - 1) + 1 = f
    BY <1>6
  <2> QED BY <1>1, <1>4, <1>5, <1>18, <2>1 DEF Taken
<1> QED BY <1>1, <1>4, <1>5, <1>8, <1>11, <1>12, <1>17, <1>18, <1>19
-----------------------------------------------------------------------------
(* Queues. *)

\* A function on 1 .. n as a queue.
LEMMA QueueIs ==
    ASSUME NEW n \in Nat, NEW S, NEW q \in [1 .. n -> S]
    PROVE  /\ Len(q) = n
           /\ n > 0 => /\ q # << >> /\ Head(q) = q[1]
                       /\ Tail(q) = [k \in 1 .. n - 1 |-> q[k + 1]]
<1>1. q \in Seq(S) /\ Len(q) = n
  OBVIOUS
<1> DEFINE h == [k \in 1 .. n - 1 |-> q[k + 1]]
<1>2. ASSUME n > 0
      PROVE  q # << >> /\ Head(q) = q[1]
  BY <1>1, <1>2
<1>3. ASSUME n > 0
      PROVE  Tail(q) = h
  <2>1. /\ Tail(q) \in Seq(S)
        /\ Len(Tail(q)) = n - 1
        /\ \A k \in 1 .. n - 1 : Tail(q)[k] = q[k + 1]
    BY <1>1, <1>2, <1>3, HeadTailProperties
  <2>2. Tail(q) \in [1 .. n - 1 -> S]
    BY <2>1, LenProperties
  <2>3. \A k \in 1 .. n - 1 : k + 1 \in 1 .. n
    BY <1>3
  <2>4. h \in [1 .. n - 1 -> S]
    BY <2>3
  <2>5. \A k \in 1 .. n - 1 : h[k] = q[k + 1]
    OBVIOUS
  <2> HIDE DEF h
  <2> QED BY <2>1, <2>2, <2>4, <2>5
<1> QED BY <1>1, <1>2, <1>3

\* ... with one more.
Longer(q, n, e) == [k \in 1 .. n + 1 |-> IF k = n + 1 THEN e ELSE q[k]]

LEMMA AppendIs ==
    ASSUME NEW n \in Nat, NEW S, NEW q \in [1 .. n -> S], NEW e
    PROVE  Append(q, e) = Longer(q, n, e)
<1> DEFINE T == S \cup {e}
           g == Longer(q, n, e)
<1>0. q \in Seq(S) /\ Len(q) = n
  OBVIOUS
<1>1. q \in Seq(T) /\ e \in T
  BY <1>0
<1>2. /\ Append(q, e) \in Seq(T)
      /\ Len(Append(q, e)) = n + 1
      /\ \A k \in 1 .. n + 1 : Append(q, e)[k] = g[k]
  <2> HIDE DEF T
  <2> QED BY <1>0, <1>1, AppendProperties DEF Longer
<1>3. Append(q, e) \in [1 .. n + 1 -> T]
  <2> HIDE DEF T, g
  <2> QED BY <1>2, LenProperties
<1>4. \A k \in 1 .. n + 1 : g[k] \in T
  BY DEF Longer
<1>5. g \in [1 .. n + 1 -> T]
  <2> HIDE DEF T
  <2> QED BY <1>4 DEF Longer
<1>6. Append(q, e) = g
  <2> HIDE DEF T, g
  <2> QED BY <1>2, <1>3, <1>5
<1> QED BY <1>6
-----------------------------------------------------------------------------
(* The queue of received frames. *)

\* The queue of the receive side: the frame in the task's hand, and those in
\* the ring.
Hand(p, s) == (IF p = None THEN << >> ELSE <<p>>) \o s
Waiting    == Hand(pbuf, Complete)

LEMMA HandFacts ==
    ASSUME NEW s \in Seq(Name)
    PROVE  /\ Hand(None, s) = s
           /\ \A p \in Name :
                 /\ Hand(p, s) \in Seq(Name) /\ Len(Hand(p, s)) = Len(s) + 1
                 /\ \A k \in 1 .. Len(s) + 1 : Hand(p, s)[k] = IF k = 1 THEN p ELSE s[k - 1]
                 /\ Hand(p, s) # << >> /\ Head(Hand(p, s)) = p /\ Tail(Hand(p, s)) = s
           /\ \A p \in Name \cup {None}, x \in Name : Append(Hand(p, s), x) = Hand(p, Append(s, x))
<1>1. Hand(None, s) = s
  BY ConcatEmptySeq DEF Hand
<1>2. ASSUME NEW p \in Name
      PROVE  /\ Hand(p, s) = <<p>> \o s /\ <<p>> \in Seq(Name) /\ Len(<<p>>) = 1 /\ <<p>>[1] = p
             /\ Hand(p, s) \in Seq(Name) /\ Len(Hand(p, s)) = Len(s) + 1
             /\ \A k \in 1 .. Len(s) + 1 : Hand(p, s)[k] = IF k = 1 THEN p ELSE s[k - 1]
  <2>1. Hand(p, s) = <<p>> \o s
    BY RxAssumption DEF Hand
  <2>2. <<p>> \in Seq(Name) /\ Len(<<p>>) = 1 /\ <<p>>[1] = p
    OBVIOUS
  <2>3. /\ <<p>> \o s \in Seq(Name) /\ Len(<<p>> \o s) = Len(<<p>>) + Len(s)
        /\ \A i \in 1 .. Len(<<p>>) + Len(s) : (<<p>> \o s)[i] =
              IF i <= Len(<<p>>) THEN <<p>>[i] ELSE s[i - Len(<<p>>)]
    BY <2>2, ConcatProperties
  <2>4. Len(s) \in Nat
    OBVIOUS
  <2>5. ASSUME NEW k \in 1 .. Len(s) + 1
        PROVE  Hand(p, s)[k] = IF k = 1 THEN p ELSE s[k - 1]
    <3>1. k \in 1 .. 1 + Len(s) /\ (k <= 1 <=> k = 1)
      BY <2>4
    <3> QED BY <2>1, <2>2, <2>3, <3>1
  <2> QED BY <2>1, <2>2, <2>3, <2>4, <2>5
<1>3. ASSUME NEW p \in Name
      PROVE  Hand(p, s) # << >> /\ Head(Hand(p, s)) = p /\ Tail(Hand(p, s)) = s
  <2> DEFINE q == Hand(p, s)
  <2>1. /\ q \in Seq(Name) /\ Len(q) = Len(s) + 1 /\ Len(s) \in Nat
        /\ \A k \in 1 .. Len(s) + 1 : q[k] = IF k = 1 THEN p ELSE s[k - 1]
    <3>1. Len(s) \in Nat
      OBVIOUS
    <3> QED BY <1>2, <3>1, Zenon
  <2> HIDE DEF q
  <2>2. q # << >> /\ Head(q) = q[1] /\ q[1] = p
    BY <2>1
  <2>3. /\ Tail(q) \in Seq(Name) /\ Len(Tail(q)) = Len(s)
        /\ \A i \in 1 .. Len(s) : Tail(q)[i] = q[i + 1]
    BY <2>1, <2>2, HeadTailProperties
  <2>4. \A i \in 1 .. Len(s) : Tail(q)[i] = s[i]
    BY <2>1, <2>3
  <2>5. Tail(q) = s
    BY <2>3, <2>4, SeqEqual
  <2> QED BY <2>2, <2>5 DEF q
<1>4. ASSUME NEW p \in Name \cup {None}, NEW x \in Name
      PROVE  Append(Hand(p, s), x) = Hand(p, Append(s, x))
  <2>1. Append(s, x) = s \o <<x>> /\ <<x>> \in Seq(Name) /\ Append(s, x) \in Seq(Name)
    BY AppendIsConcat
  <2>2. CASE p = None
    <3>1. Hand(None, Append(s, x)) = Append(s, x)
      BY <2>1, ConcatEmptySeq DEF Hand
    <3> QED BY <1>1, <2>2, <3>1
  <2>3. CASE p # None
    <3>1. p \in Name /\ <<p>> \in Seq(Name)
      BY <2>3
    <3>2. Hand(p, s) = <<p>> \o s /\ Hand(p, Append(s, x)) = <<p>> \o (s \o <<x>>)
      BY <2>1, <2>3, Zenon DEF Hand
    <3>3. Append(<<p>> \o s, x) = (<<p>> \o s) \o <<x>>
      <4>1. <<p>> \o s \in Seq(Name)
        BY <1>2, <3>1
      <4> QED BY <4>1, AppendIsConcat
    <3>4. (<<p>> \o s) \o <<x>> = <<p>> \o (s \o <<x>>)
      BY <2>1, <3>1, ConcatAssociative
    <3> QED BY <3>2, <3>3, <3>4
  <2> QED BY <2>2, <2>3
<1> QED BY <1>1, <1>2, <1>3, <1>4

\* The names of the frames in the ring and in the task's hand.
LEMMA NamesApart ==
    ASSUME RxTypeOK, NEW n \in 0 .. RxCount, RingOf(n), NEW f \in Nat, Taken(f),
           NEW e \in [0 .. f -> 0 .. n], Frames(n, f, e)
    PROVE  /\ \A j \in 1 .. f : D(e[j] - 1).frame \in Name /\ D(e[j] - 1).frame # name
           /\ pbuf # None => pbuf \in Name /\ pbuf # name
<1>1. /\ \A j \in 0 .. f : e[j] \in 0 .. n
      /\ \A j \in 1 .. f : e[j] - 1 \in 0 .. n - 1 /\ e[j] \in 1 .. n
      /\ \A i, j \in 0 .. f : i < j => e[i] < e[j]
      /\ f + 1 \in 0 .. Names - 2
  BY FramesFit
<1>2. ASSUME NEW j \in 1 .. f
      PROVE  D(e[j] - 1).frame \in Name /\ D(e[j] - 1).frame # name
  <2> DEFINE i == j - 1
             k == e[j] - 1
  <2>1. i \in 0 .. f /\ i < f /\ i + 1 = j /\ i < j /\ j \in 0 .. f
    OBVIOUS
  <2>2. k \in 0 .. n - 1 /\ e[j] \in 1 .. n /\ e[i] \in 0 .. n /\ e[i] < e[j]
    BY <1>1, <2>1
  <2>3. e[i] <= k /\ k < e[i + 1]
    BY <2>1, <2>2
  <2>4. f - i \in 1 .. Names - 1
    BY <1>1, <2>1, RxAssumption
  <2>5. D(k).frame \in Name
    BY <2>2, FrameNames
  <2> HIDE DEF i, k
  <2>6. After(f - i, D(k).frame) = name
    BY <2>1, <2>2, <2>3 DEF Frames
  <2>7. After(f - i, D(k).frame) # D(k).frame
    BY <2>4, <2>5, AfterFacts
  <2> QED BY <2>5, <2>6, <2>7 DEF k
<1>3. ASSUME pbuf # None
      PROVE  pbuf \in Name /\ pbuf # name
  <2>1. pbuf \in Name /\ After(f + 1, pbuf) = name
    BY <1>3 DEF RxTypeOK, Taken
  <2>2. f + 1 \in 1 .. Names - 1
    BY <1>1, RxAssumption
  <2> QED BY <2>1, <2>2, AfterFacts
<1> QED BY <1>2, <1>3

LEMMA CompleteSeq ==
    ASSUME RxTypeOK, NEW n \in 0 .. RxCount, RingOf(n), NEW f \in Nat, Taken(f),
           NEW e \in [0 .. f -> 0 .. n], Frames(n, f, e)
    PROVE  /\ Complete \in [1 .. f -> Name] /\ Complete \in Seq(Name) /\ Len(Complete) = f
           /\ \A j \in 1 .. f : Complete[j] = D(e[j] - 1).frame
<1>1. Complete = [j \in 1 .. f |-> D(e[j] - 1).frame]
  BY CompleteIs
<1>2. \A j \in 1 .. f : D(e[j] - 1).frame \in Name
  BY NamesApart
<1>3. Complete \in [1 .. f -> Name]
  BY <1>1, <1>2
<1> QED BY <1>1, <1>3

LEMMA HandHead ==
    ASSUME NEW s \in Seq(Name), s # << >>
    PROVE  Head(s) \in Name /\ Tail(s) \in Seq(Name) /\ Hand(Head(s), Tail(s)) = s
<1>1. /\ Head(s) \in Name /\ Tail(s) \in Seq(Name) /\ Len(Tail(s)) = Len(s) - 1
      /\ \A i \in 1 .. Len(Tail(s)) : Tail(s)[i] = s[i + 1]
  BY HeadTailProperties
<1>2. Len(s) \in Nat /\ Len(s) > 0 /\ Head(s) = s[1]
  OBVIOUS
<1> DEFINE t == Tail(s)
           q == Hand(Head(s), t)
<1>3. /\ t \in Seq(Name) /\ Len(t) = Len(s) - 1 /\ Head(s) \in Name
      /\ \A i \in 1 .. Len(t) : t[i] = s[i + 1]
  BY <1>1
<1> HIDE DEF t
<1>4. /\ q \in Seq(Name) /\ Len(q) = Len(t) + 1
      /\ \A k \in 1 .. Len(t) + 1 : q[k] = IF k = 1 THEN Head(s) ELSE t[k - 1]
  <2>1. t \in Seq(Name)
    BY <1>3
  <2>2. \A p \in Name :
          /\ Hand(p, t) \in Seq(Name) /\ Len(Hand(p, t)) = Len(t) + 1
          /\ \A k \in 1 .. Len(t) + 1 : Hand(p, t)[k] = IF k = 1 THEN p ELSE t[k - 1]
    BY ONLY <2>1, HandFacts, Zenon
  <2> QED BY <1>3, <2>2, Zenon
<1> HIDE DEF q
<1>5. Len(q) = Len(s)
  BY <1>2, <1>3, <1>4
<1>6. ASSUME NEW k \in 1 .. Len(s)
      PROVE  q[k] = s[k]
  <2>1. k \in 1 .. Len(t) + 1
    BY <1>2, <1>3
  <2>2. CASE k = 1
    BY <1>2, <1>4, <2>1, <2>2
  <2>3. CASE k # 1
    <3>1. k - 1 \in 1 .. Len(t) /\ (k - 1) + 1 = k
      BY <1>2, <1>3, <2>3
    <3>2. t[k - 1] = s[k]
      BY <1>3, <3>1
    <3> QED BY <1>4, <2>1, <2>3, <3>2
  <2> QED BY <2>2, <2>3
<1>7. q = s
  BY <1>4, <1>5, <1>6, SeqEqual
<1> QED BY <1>1, <1>7 DEF q, t

LEMMA RxFramesNext ==
    ASSUME NEW n \in 0 .. RxCount, RxTypeOK', RingOf(n)', NEW f \in Nat, Taken(f)',
           NEW e \in [0 .. f -> 0 .. n], Frames(n, f, e)'
    PROVE  RxFrames' /\ Complete' = [j \in 1 .. f |-> D(e[j] - 1)'.frame]
<1>1. RxFrames'
  BY DEF RxFrames
<1>2. Complete' = [j \in 1 .. f |-> D(e[j] - 1)'.frame]
  BY CompleteNext, Zenon
<1> QED BY <1>1, <1>2

LEMMA SegmentQueues ==
    ASSUME RxFrames, NEW first \in BOOLEAN, first <=> left = 0, NEW size \in 1 .. RxCount,
           Segment(first, size)
    PROVE  RxFrames' /\ [RxQueue!Next]_(<<Waiting, input>>)
<1>1. PICK n \in 0 .. RxCount, f \in Nat :
        RingOf(n) /\ Taken(f) /\ \E e \in [0 .. f -> 0 .. n] : Frames(n, f, e)
  BY DEF RxFrames
<1>2. PICK e \in [0 .. f -> 0 .. n] : Frames(n, f, e)
  BY <1>1
<1>3. RxTypeOK
  BY DEF RxFrames
<1>4. /\ RxTypeOK' /\ RingOf(n + 1)' /\ n + 1 \in 0 .. RxCount
      /\ f + 1 \in 1 .. Names - 2 /\ name \in Name /\ f <= n /\ n < RxCount
      /\ UNCHANGED <<pbuf, input>>
      /\ \A j \in 1 .. f : D(e[j] - 1)'.frame = D(e[j] - 1).frame
      /\ \E g \in Nat : \E h \in [0 .. g -> 0 .. n + 1] :
            /\ Frames(n + 1, g, h)' /\ Taken(g)'
            /\ \A j \in 1 .. f : h[j] = e[j]
            /\ \/ g = f
               \/ g = f + 1 /\ h[g] = n + 1 /\ D(h[g] - 1)'.frame = name
  <2>1. n \in 0 .. RxCount /\ f \in Nat /\ e \in [0 .. f -> 0 .. n]
    OBVIOUS
  <2>2. first \in BOOLEAN /\ size \in 1 .. RxCount /\ (first <=> left = 0) /\ Segment(first, size)
    OBVIOUS
  <2> QED BY ONLY <1>1, <1>2, <1>3, <2>1, <2>2, SegmentFrames, ZenonT(30)
<1>4a. PICK g \in Nat : \E h \in [0 .. g -> 0 .. n + 1] :
         /\ Frames(n + 1, g, h)' /\ Taken(g)'
         /\ \A j \in 1 .. f : h[j] = e[j]
         /\ \/ g = f
            \/ g = f + 1 /\ D(h[g] - 1)'.frame = name
  BY <1>4
<1>5. PICK h \in [0 .. g -> 0 .. n + 1] :
         /\ Frames(n + 1, g, h)' /\ Taken(g)'
         /\ \A j \in 1 .. f : h[j] = e[j]
         /\ \/ g = f
            \/ g = f + 1 /\ D(h[g] - 1)'.frame = name
  BY <1>4a
<1>6. /\ Complete \in [1 .. f -> Name] /\ Complete \in Seq(Name) /\ Len(Complete) = f
      /\ \A j \in 1 .. f : Complete[j] = D(e[j] - 1).frame
  BY <1>1, <1>2, <1>3, CompleteSeq
<1>7. RxFrames' /\ Complete' = [j \in 1 .. g |-> D(h[j] - 1)'.frame]
  <2>1. n + 1 \in 0 .. RxCount /\ g \in Nat /\ h \in [0 .. g -> 0 .. n + 1]
    BY <1>4
  <2> QED BY ONLY <1>4, <1>5, <2>1, RxFramesNext, ZenonT(40)
<1>8. \A j \in 1 .. f : D(h[j] - 1)'.frame = Complete[j]
  BY <1>4, <1>5, <1>6
<1>9. CASE g = f
  <2>1. Complete' = Complete
    BY <1>6, <1>7, <1>8, <1>9
  <2> QED BY <1>4, <1>7, <2>1 DEF Waiting
<1>10. CASE g = f + 1 /\ D(h[g] - 1)'.frame = name
  <2>1. Complete' = Append(Complete, name)
    <3>1. Append(Complete, name) = Longer(Complete, f, name)
      <4>1. Complete \in [1 .. f -> Name] /\ f \in Nat
        BY <1>6
      <4> QED BY ONLY <4>1, AppendIs, ZenonT(40)
    <3>2. Append(Complete, name) = [k \in 1 .. f + 1 |-> IF k = f + 1 THEN name ELSE Complete[k]]
      BY <3>1, Zenon DEF Longer
    <3>3. ASSUME NEW j \in 1 .. f + 1
          PROVE  D(h[j] - 1)'.frame = IF j = f + 1 THEN name ELSE Complete[j]
      <4>1. j = f + 1 \/ j \in 1 .. f
        OBVIOUS
      <4> QED BY <1>8, <1>10, <4>1
    <3> QED BY <1>7, <1>10, <3>2, <3>3
  <2>2. pbuf \in Name \cup {None}
    BY <1>3 DEF RxTypeOK
  <2>3. Waiting' = Append(Waiting, name)
    <3>1. Append(Hand(pbuf, Complete), name) = Hand(pbuf, Append(Complete, name))
      <4>1. Complete \in Seq(Name) /\ name \in Name
        BY <1>4, <1>6
      <4>2. \A p \in Name \cup {None} : \A x \in Name :
              Append(Hand(p, Complete), x) = Hand(p, Append(Complete, x))
        BY ONLY <4>1, HandFacts
      <4> QED BY ONLY <2>2, <4>1, <4>2, Zenon
    <3>2. UNCHANGED pbuf
      BY <1>4
    <3> QED BY ONLY <2>1, <3>1, <3>2, ZenonT(40) DEF Waiting
  <2>4. /\ \A j \in 1 .. f : Complete[j] # name
        /\ pbuf # None => pbuf # name
    <3>1. /\ \A j \in 1 .. f : D(e[j] - 1).frame # name
          /\ pbuf # None => pbuf # name
      <4>1. n \in 0 .. RxCount /\ f \in Nat /\ e \in [0 .. f -> 0 .. n]
        OBVIOUS
      <4> QED BY ONLY <1>1, <1>2, <1>3, <4>1, NamesApart, ZenonT(40)
    <3> QED BY ONLY <1>6, <3>1
  <2>5. Len(Waiting) <= f + 1 /\ \A k \in DOMAIN Waiting : Waiting[k] # name
    <3>1. CASE pbuf = None
      <4>1. Waiting = Complete
        BY <1>6, <3>1, HandFacts DEF Waiting
      <4>2. DOMAIN Complete = 1 .. f
        BY <1>6
      <4> QED BY <1>6, <2>4, <4>1, <4>2
    <3>2. CASE pbuf # None
      <4>1. /\ Waiting \in Seq(Name) /\ Len(Waiting) = f + 1
            /\ \A k \in 1 .. f + 1 : Waiting[k] = IF k = 1 THEN pbuf ELSE Complete[k - 1]
        <5>1. pbuf \in Name
          BY <2>2, <3>2
        <5>2. /\ Hand(pbuf, Complete) \in Seq(Name)
              /\ Len(Hand(pbuf, Complete)) = Len(Complete) + 1
              /\ \A k \in 1 .. Len(Complete) + 1 :
                    Hand(pbuf, Complete)[k] = IF k = 1 THEN pbuf ELSE Complete[k - 1]
          <6>1. Complete \in Seq(Name)
            BY <1>6
          <6> QED BY ONLY <5>1, <6>1, HandFacts, Zenon
        <5> QED BY ONLY <1>6, <5>2, ZenonT(40) DEF Waiting
      <4>2. DOMAIN Waiting = 1 .. f + 1
        BY <4>1
      <4>3. ASSUME NEW k \in 1 .. f + 1
            PROVE  Waiting[k] # name
        <5>1. k = 1 \/ k - 1 \in 1 .. f
          OBVIOUS
        <5> QED BY <2>4, <3>2, <4>1, <5>1
      <4> QED BY <4>1, <4>2, <4>3
    <3> QED BY <3>1, <3>2
  <2>6. Len(Waiting) < RxCount + 1
    <3>1. Len(Waiting) \in Nat
      <4>1. Waiting \in Seq(Name)
        BY <1>6, <2>2, HandFacts DEF Waiting
      <4> QED BY <4>1
    <3> QED BY <1>4, <2>5, <3>1, RxAssumption
  <2>7. RxQueue!Put(name)
    BY <1>4, <2>3, <2>5, <2>6 DEF RxQueue!Put, Waiting, Hand
  <2> QED BY <1>4, <1>7, <2>7 DEF RxQueue!Next
<1> QED BY <1>5, <1>9, <1>10

LEMMA ReceiveQueues ==
    ASSUME RxFrames, NEW m \in 0 .. RxCount, Receive(m)
    PROVE  RxFrames' /\ [RxQueue!Next]_(<<Waiting, input>>)
<1>1. PICK n \in 0 .. RxCount, f \in Nat :
        RingOf(n) /\ Taken(f) /\ \E e \in [0 .. f -> 0 .. n] : Frames(n, f, e)
  BY DEF RxFrames
<1>2. PICK e \in [0 .. f -> 0 .. n] : Frames(n, f, e)
  BY <1>1
<1>3. RxTypeOK
  BY DEF RxFrames
<1>4. /\ RxTypeOK' /\ f - 1 \in Nat /\ pbuf = None /\ UNCHANGED input
      /\ pbuf' \in {None, D(e[1] - 1).frame}
      /\ \E w \in 0 .. RxCount : \E g \in [0 .. f - 1 -> 0 .. w] :
            /\ RingOf(w)' /\ Taken(f - 1)' /\ Frames(w, f - 1, g)'
            /\ \A j \in 1 .. f - 1 : D(g[j] - 1)' = D(e[j + 1] - 1)
  BY <1>1, <1>2, <1>3, ReceiveFrames
<1>4a. PICK w \in 0 .. RxCount : \E g \in [0 .. f - 1 -> 0 .. w] :
            /\ RingOf(w)' /\ Taken(f - 1)' /\ Frames(w, f - 1, g)'
            /\ \A j \in 1 .. f - 1 : D(g[j] - 1)' = D(e[j + 1] - 1)
  BY <1>4
<1>5. PICK g \in [0 .. f - 1 -> 0 .. w] :
            /\ RingOf(w)' /\ Taken(f - 1)' /\ Frames(w, f - 1, g)'
            /\ \A j \in 1 .. f - 1 : D(g[j] - 1)' = D(e[j + 1] - 1)
  BY <1>4a
<1>6. /\ Complete \in [1 .. f -> Name] /\ Complete \in Seq(Name) /\ Len(Complete) = f
      /\ \A j \in 1 .. f : Complete[j] = D(e[j] - 1).frame
  BY <1>1, <1>2, <1>3, CompleteSeq
<1>7. RxFrames' /\ Complete' = [j \in 1 .. f - 1 |-> D(g[j] - 1)'.frame]
  <2>1. w \in 0 .. RxCount /\ g \in [0 .. f - 1 -> 0 .. w]
    OBVIOUS
  <2> QED BY ONLY <1>4, <1>5, <2>1, RxFramesNext, ZenonT(40)
<1>8. f > 0 /\ 1 \in 1 .. f
  BY <1>4
<1>9. Complete # << >> /\ Head(Complete) = Complete[1]
      /\ Tail(Complete) = [k \in 1 .. f - 1 |-> Complete[k + 1]]
  <2>1. f > 0 => /\ Complete # << >> /\ Head(Complete) = Complete[1]
                 /\ Tail(Complete) = [k \in 1 .. f - 1 |-> Complete[k + 1]]
    <3>1. Complete \in [1 .. f -> Name] /\ f \in Nat
      BY <1>6
    <3> QED BY ONLY <3>1, QueueIs, Zenon
  <2> QED BY <1>8, <2>1, Zenon
<1>10. Complete' = Tail(Complete)
  <2>1. ASSUME NEW j \in 1 .. f - 1
        PROVE  D(g[j] - 1)'.frame = Complete[j + 1]
    <3>1. j + 1 \in 1 .. f
      OBVIOUS
    <3> QED BY <1>5, <1>6, <3>1
  <2> QED BY <1>7, <1>9, <2>1
<1>11. Head(Complete) = D(e[1] - 1).frame
  BY <1>6, <1>8, <1>9
<1>12. Waiting = Complete
  BY <1>4, <1>6, HandFacts DEF Waiting
<1>13. CASE pbuf' = None
  <2>1. Tail(Complete) \in Seq(Name)
    BY <1>6, <1>9, HandHead
  <2>2. Waiting' = Tail(Waiting) /\ Waiting # << >>
    BY <1>9, <1>10, <1>12, <1>13, <2>1, HandFacts DEF Waiting
  <2>3. RxQueue!Drop
    BY <1>4, <2>2 DEF RxQueue!Drop, Waiting, Hand
  <2> QED BY <1>7, <2>3 DEF RxQueue!Next
<1>14. CASE pbuf' = Head(Complete)
  <2>1. Waiting' = Waiting
    BY <1>6, <1>9, <1>10, <1>12, <1>14, HandHead DEF Waiting
  <2> QED BY <1>4, <1>7, <2>1
<1> QED BY <1>4, <1>11, <1>13, <1>14

LEMMA RestQueues ==
    ASSUME RxFrames,
           (\E m \in 0 .. RxCount : ReceiveNone(m)) \/ RxIsr \/ RxWake \/ InputTakes \/ InputRefuses
              \/ UNCHANGED rxvars
    PROVE  RxFrames' /\ [RxQueue!Next]_(<<Waiting, input>>)
<1>1. PICK n \in 0 .. RxCount, f \in Nat :
        RingOf(n) /\ Taken(f) /\ \E e \in [0 .. f -> 0 .. n] : Frames(n, f, e)
  BY DEF RxFrames
<1>2. PICK e \in [0 .. f -> 0 .. n] : Frames(n, f, e)
  BY <1>1
<1>3. RxTypeOK
  BY DEF RxFrames
<1>4. /\ RxTypeOK' /\ RingOf(n)' /\ Oldest' = Oldest /\ \A k : D(k)' = D(k)
      /\ UNCHANGED <<rx, name>>
  <2>1. ASSUME NEW m \in 0 .. RxCount, ReceiveNone(m)
        PROVE  /\ RxTypeOK' /\ RingOf(n)' /\ Oldest' = Oldest /\ \A k : D(k)' = D(k)
               /\ UNCHANGED <<rx, name>>
    BY <1>1, <1>3, <2>1, ReceiveNoneKeeps DEF ReceiveNone, dma
  <2>2. CASE RxIsr \/ RxWake \/ InputTakes \/ InputRefuses \/ UNCHANGED rxvars
    <3>1. UNCHANGED <<rx, dma, info>>
      BY <2>2 DEF RxIsr, RxWake, InputTakes, InputRefuses, rxvars
    <3> QED BY <1>1, <1>3, <2>2, <3>1, RestKeeps DEF dma
  <2> QED BY <2>1, <2>2
<1>5. Frames(n, f, e)'
  BY <1>2, <1>4 DEF Frames
<1>6. Complete' = Complete
  BY <1>4 DEF Complete, Lasts, EndOf
<1>7. Taken(f)'
  BY <1>1, <1>4 DEF Taken, ReceiveNone, RxIsr, RxWake, InputTakes, InputRefuses, rxvars
<1>8. RxFrames'
  BY <1>4, <1>5, <1>7, RxFramesNext
<1>9. Complete \in Seq(Name)
  BY <1>1, <1>2, <1>3, CompleteSeq
<1>10. CASE (\E m \in 0 .. RxCount : ReceiveNone(m)) \/ RxIsr \/ RxWake \/ UNCHANGED rxvars
  <2>1. UNCHANGED <<pbuf, input>>
    BY <1>1, <1>10 DEF Taken, ReceiveNone, RxIsr, RxWake, rxvars
  <2> QED BY <1>6, <1>8, <2>1 DEF Waiting
<1>11. CASE InputTakes \/ InputRefuses
  <2>1. pbuf \in Name /\ pbuf' = None
    BY <1>1, <1>3, <1>11 DEF Taken, InputTakes, InputRefuses, RxTypeOK
  <2>2. Waiting # << >> /\ Head(Waiting) = pbuf /\ Tail(Waiting) = Complete
    BY <1>9, <2>1, HandFacts DEF Waiting
  <2>3. Waiting' = Tail(Waiting)
    BY <1>6, <1>9, <2>1, <2>2, HandFacts DEF Waiting
  <2>4. CASE InputTakes
    <3>1. RxQueue!Take
      BY <2>2, <2>3, <2>4 DEF RxQueue!Take, Waiting, Hand, InputTakes
    <3> QED BY <1>8, <3>1 DEF RxQueue!Next
  <2>5. CASE InputRefuses
    <3>1. RxQueue!Drop
      BY <2>2, <2>3, <2>5 DEF RxQueue!Drop, Waiting, Hand, InputRefuses
    <3> QED BY <1>8, <3>1 DEF RxQueue!Next
  <2> QED BY <1>11, <2>4, <2>5
<1> QED BY <1>10, <1>11

LEMMA RxQueueInitial ==
    ASSUME RxInit
    PROVE  RxFrames /\ Waiting = << >>
<1>1. RxTypeOK /\ RingOf(0) /\ 0 \in 0 .. RxCount
  BY RxInitial, RxAssumption
<1> DEFINE e == [j \in 0 .. 0 |-> 0]
<1>2. e \in [0 .. 0 -> 0 .. 0] /\ e[0] = 0
  OBVIOUS
<1> HIDE DEF e
<1>3. Frames(0, 0, e)
  BY <1>2 DEF Frames
<1>4. Taken(0)
  BY DEF Taken, RxInit
<1>5. RxFrames
  BY <1>1, <1>2, <1>3, <1>4 DEF RxFrames
<1>6. Complete = [j \in 1 .. 0 |-> D(e[j] - 1).frame]
  BY <1>1, <1>3, CompleteIs
<1>7. Complete = << >>
  BY <1>6
<1>8. Waiting = << >>
  <2>1. << >> \in Seq(Name) /\ pbuf = None
    BY DEF RxInit
  <2> QED BY <1>7, <2>1, HandFacts DEF Waiting
<1> QED BY <1>5, <1>8

LEMMA RxQueueStep ==
    ASSUME RxFrames, RxNext \/ UNCHANGED rxvars
    PROVE  RxFrames' /\ [RxQueue!Next]_(<<Waiting, input>>)
<1>1. CASE Store
  <2>1. CASE left = 0 /\ \E size \in Sizes : Segment(TRUE, size)
    <3>1. PICK size \in 1 .. RxCount : Segment(TRUE, size)
      BY <2>1, RxAssumption
    <3>2. TRUE <=> left = 0
      BY <2>1
    <3> QED BY <3>1, <3>2, SegmentQueues
  <2>2. CASE left > 0 /\ Segment(FALSE, left)
    <3>1. left \in 1 .. RxCount
      BY <2>2, RxAssumption DEF RxFrames, RxTypeOK
    <3>2. FALSE <=> left = 0
      BY <3>1
    <3> QED BY <2>2, <3>1, <3>2, SegmentQueues
  <2> QED BY <1>1, <2>1, <2>2 DEF Store
<1>2. ASSUME NEW m \in 0 .. RxCount, Receive(m)
      PROVE  RxFrames' /\ [RxQueue!Next]_(<<Waiting, input>>)
  BY <1>2, ReceiveQueues
<1> QED BY <1>1, <1>2, RestQueues DEF RxNext, Task

\* The receive ring and the task are a queue that may drop, for rings of any
\* length and frames of any number of segments: what reaches the stack is a
\* frame the DMA completed, in the order it did and once, and a frame that is
\* not passed on is dropped whole (hpm_enet_drv.c l.332-383, ethernetif.c
\* l.283-321).
THEOREM RxQueueImplemented == Spec => RefinesRxQueue
<1>1. Init => RxFrames /\ RxQueue!Init
  BY RxQueueInitial DEF Init, RxQueue!Init, Waiting, Hand
<1>2. RxFrames /\ [Next]_portvars => RxFrames' /\ [RxQueue!Next]_(<<Waiting, input>>)
  BY RxQueueStep DEF Next, Receiving, Sending, portvars
<1>3. Waiting = (IF pbuf = None THEN << >> ELSE <<pbuf>>) \o Complete
  BY DEF Waiting, Hand
<1>4. (Waiting = (IF pbuf = None THEN << >> ELSE <<pbuf>>) \o Complete)'
  BY DEF Waiting, Hand
<1>5. RxFrames /\ [Next]_portvars => RxFrames' /\ [RxQueue!Next]_(RxQueue!vars)
  BY <1>2, <1>3, <1>4 DEF RxQueue!vars
<1> QED BY <1>1, <1>5, PTL DEF Spec, RefinesRxQueue, RxQueue!Spec
-----------------------------------------------------------------------------
(* The transmit ring. *)

\* Packets of one pbuf and one buffer.
OneBuffer == Chains \subseteq {1} /\ Buffers \subseteq {1}

\* The descriptor k places behind the one the DMA is at.
E(k) == tx[TxAt(tx_dma, k)]

\* How far the packet of sender t is ahead of the last it has handed over.
Ahead(t) == IF queued[t] THEN 0 ELSE 1

\* A descriptor before which at most d others have been handed over since.
Within(desc, d) ==
    \E e \in 0 .. d : \E t \in Sender : \E m \in 0 .. Rounds - 1 :
        /\ desc = [packet |-> <<t, m>>, whole |-> TRUE]
        /\ (m + (e + Ahead(t))) % Rounds = packet[t]

\* The ring with n packets to send, the numbers of each sender's in turn.
TxRingOf(n) ==
    /\ n \in 0 .. TxCount
    /\ tx_cur = TxAt(tx_dma, n)
    /\ \A k \in 0 .. TxCount - 1 : E(k) # Unowned <=> k < n
    /\ \A k \in 0 .. n - 1 : Within(E(k), n - 1 - k)

\* Between its look at the ring and its hand-over a sender has the semaphore,
\* and the ring has room.
Holder ==
    /\ \A t \in Sender : tx_pc[t] \in {"fill", "prepare"} => tx_sem = t
    /\ \A t \in Sender : tx_pc[t] # "idle" => ~queued[t]
    /\ \A t \in Sender : tx_pc[t] = "prepare" => \E s \in TxSlot : tx[s] = Unowned

TxInv == TxTypeOK /\ Holder /\ \E n \in Nat : TxRingOf(n)
-----------------------------------------------------------------------------
LEMMA TxRound ==
    ASSUME NEW s \in TxSlot
    PROVE  /\ \A k \in Nat : TxAt(s, k) \in TxSlot
           /\ TxAt(s, 0) = s
           /\ \A i, j \in Nat : TxAt(TxAt(s, i), j) = TxAt(s, i + j)
           /\ \A i, j \in 0 .. TxCount - 1 : TxAt(s, i) = TxAt(s, j) => i = j
           /\ \A u \in TxSlot : \E k \in 0 .. TxCount - 1 : u = TxAt(s, k)
           /\ \A i \in Nat : TxAt(s, i + TxCount) = TxAt(s, i)
<1>1. TxCount \in Nat \ {0} /\ s \in 0 .. TxCount - 1
  BY TxAssumption DEF TxSlot
<1>2. \A u, k : TxAt(u, k) = RingAt(u, k, TxCount)
  BY Zenon DEF TxAt, RingAt
<1>3. /\ \A k \in Nat : RingAt(s, k, TxCount) \in 0 .. TxCount - 1
      /\ RingAt(s, 0, TxCount) = s
      /\ \A i, j \in Nat : RingAt(RingAt(s, i, TxCount), j, TxCount) = RingAt(s, i + j, TxCount)
      /\ \A i, j \in 0 .. TxCount - 1 : RingAt(s, i, TxCount) = RingAt(s, j, TxCount) => i = j
      /\ \A u \in 0 .. TxCount - 1 : \E k \in 0 .. TxCount - 1 : u = RingAt(s, k, TxCount)
      /\ \A i \in Nat : RingAt(s, i + TxCount, TxCount) = RingAt(s, i, TxCount)
  BY <1>1, Round
<1>4. TxSlot = 0 .. TxCount - 1
  BY DEF TxSlot
<1>5. /\ \A k \in Nat : TxAt(s, k) \in TxSlot
      /\ TxAt(s, 0) = s
      /\ \A u \in TxSlot : \E k \in 0 .. TxCount - 1 : u = TxAt(s, k)
  BY ONLY <1>2, <1>3, <1>4
<1>6. \A i, j \in Nat : TxAt(TxAt(s, i), j) = TxAt(s, i + j)
  BY ONLY <1>2, <1>3
<1>7. /\ \A i, j \in 0 .. TxCount - 1 : TxAt(s, i) = TxAt(s, j) => i = j
      /\ \A i \in Nat : TxAt(s, i + TxCount) = TxAt(s, i)
  BY ONLY <1>2, <1>3
<1> QED BY ONLY <1>5, <1>6, <1>7

LEMMA OneBufferIs ==
    ASSUME OneBuffer, TxTypeOK, NEW t \in Sender
    PROVE  shape[t].pbufs = 1 /\ shape[t].buffers = 1
BY DEF OneBuffer, TxTypeOK

\* The number of packets to send.
LEMMA BacklogIs ==
    ASSUME TxTypeOK, NEW n \in Nat, TxRingOf(n)
    PROVE  /\ Cardinality({s \in TxSlot : tx[s] # Unowned}) = n
           /\ Backlog = [k \in 1 .. n |-> E(k - 1)]
<1>1. TxCount \in Nat /\ n \in 0 .. TxCount /\ tx_dma \in TxSlot
  BY TxAssumption DEF TxTypeOK, TxRingOf
<1> DEFINE S == {s \in TxSlot : tx[s] # Unowned}
           f == [k \in 1 .. n |-> TxAt(tx_dma, k - 1)]
<1>2. ASSUME NEW k \in 1 .. n
      PROVE  f[k] \in S
  <2>1. k - 1 \in 0 .. TxCount - 1 /\ k - 1 < n /\ k - 1 \in Nat
    BY <1>1
  <2>2. E(k - 1) # Unowned /\ TxAt(tx_dma, k - 1) \in TxSlot
    BY <1>1, <2>1, TxRound DEF TxRingOf
  <2> QED BY <2>2 DEF E
<1>3. ASSUME NEW j \in 1 .. n, NEW k \in 1 .. n, f[j] = f[k]
      PROVE  j = k
  <2>1. j - 1 \in 0 .. TxCount - 1 /\ k - 1 \in 0 .. TxCount - 1
    BY <1>1
  <2>2. j - 1 = k - 1
    BY <1>1, <1>3, <2>1, TxRound
  <2> QED BY <2>2
<1>4. ASSUME NEW s \in S
      PROVE  \E k \in 1 .. n : f[k] = s
  <2>1. PICK k \in 0 .. TxCount - 1 : s = TxAt(tx_dma, k)
    BY <1>1, TxRound
  <2>2. k < n
    BY <2>1 DEF TxRingOf, E
  <2>3. k + 1 \in 1 .. n /\ (k + 1) - 1 = k
    BY <1>1, <2>2
  <2>4. f[k + 1] = s
    BY <2>1, <2>3
  <2> QED BY <2>3, <2>4
<1>5. f \in Bijection(1 .. n, S)
  BY <1>2, <1>3, <1>4 DEF Bijection, Injection, Surjection, IsInjective
<1>6. Cardinality(S) = n
  BY <1>5, FS_CountingElements DEF ExistsBijection
<1> QED BY <1>6 DEF Backlog, E

\* ... and after a step.
LEMMA BacklogNext ==
    (\A n \in Nat : TxTypeOK /\ TxRingOf(n) => Backlog = [k \in 1 .. n |-> E(k - 1)])'
<1>1. \A n \in Nat : TxTypeOK /\ TxRingOf(n) => Backlog = [k \in 1 .. n |-> E(k - 1)]
  BY BacklogIs
<1> QED BY <1>1, PTL

-----------------------------------------------------------------------------
(* The steps that change the ring. *)

\* A hand-over puts one packet more into the ring, and none that is there.
LEMMA PrepareStep ==
    ASSUME OneBuffer, TxTypeOK, Holder, NEW n \in Nat, TxRingOf(n), NEW t \in Sender, Prepare(t)
    PROVE  /\ n < TxCount /\ TxRingOf(n + 1)'
           /\ \A k \in 0 .. n - 1 : E(k)' = E(k)
           /\ E(n)' = [packet |-> Own(t), whole |-> TRUE]
           /\ \A k \in 0 .. n - 1 : E(k) # [packet |-> Own(t), whole |-> TRUE]
           /\ TxTypeOK' /\ Holder'
<1>1. /\ TxCount \in Nat /\ TxCount >= 2 /\ n \in 0 .. TxCount /\ tx_dma \in TxSlot
      /\ Rounds \in Nat /\ Rounds > TxCount + 1 /\ Unowned \notin Sent
      /\ packet[t] \in 0 .. Rounds - 1 /\ ~queued[t] /\ tx_sem = t
  BY TxAssumption DEF TxTypeOK, TxRingOf, Holder, Prepare
<1> DEFINE new == [packet |-> Own(t), whole |-> TRUE]
<1>2. new \in Sent /\ new # Unowned /\ Own(t) = <<t, packet[t]>>
  <2>1. Own(t) = <<t, packet[t]>> /\ Own(t) \in Packet
    BY <1>1 DEF Packet, Own
  <2>2. new \in Sent
    BY <2>1 DEF Sent
  <2> QED BY <1>1, <2>1, <2>2
<1>3. Given(t) = {tx_cur} /\ Last(t) = tx_cur
  <2>1. TxAt(tx_cur, 0) = tx_cur
    BY TxRound DEF TxTypeOK
  <2>2. shape[t].buffers - 1 = 0
    BY OneBufferIs
  <2> QED BY <2>1, <2>2 DEF Given, Last
<1>4. /\ tx' = [s \in TxSlot |-> IF s = tx_cur THEN new ELSE tx[s]]
      /\ tx_cur' = TxAt(tx_cur, 1) /\ tx_sem' = Nobody
      /\ queued' = [queued EXCEPT ![t] = TRUE]
      /\ tx_pc' = [tx_pc EXCEPT ![t] = "idle"] /\ err' = [err EXCEPT ![t] = "ok"]
      /\ UNCHANGED <<tx_dma, packet, shape, seen, wire>>
  <2>1. (shape[t].pbufs = 1) = TRUE
    BY OneBufferIs
  <2> QED BY <1>3, <2>1 DEF Prepare, Return
<1>5. n < TxCount
  <2>1. PICK s \in TxSlot : tx[s] = Unowned
    BY DEF Holder, Prepare
  <2>2. PICK k \in 0 .. TxCount - 1 : s = TxAt(tx_dma, k)
    BY <1>1, TxRound
  <2>3. ~(k < n)
    BY <2>1, <2>2 DEF TxRingOf, E
  <2> QED BY <1>1, <2>3
<1>6. tx_cur = TxAt(tx_dma, n) /\ tx_cur \in TxSlot
  BY DEF TxRingOf, TxTypeOK
<1>7. tx_cur' = TxAt(tx_dma, n + 1) /\ tx_cur' \in TxSlot
  BY <1>1, <1>4, <1>6, TxRound
<1> HIDE DEF new
<1>8. ASSUME NEW k \in 0 .. TxCount - 1
      PROVE  E(k)' = IF k = n THEN new ELSE E(k)
  <2>1. TxAt(tx_dma, k) \in TxSlot /\ n \in 0 .. TxCount - 1
    BY <1>1, <1>5, TxRound
  <2>2. TxAt(tx_dma, k) = tx_cur <=> k = n
    <3>1. TxAt(tx_dma, k) = TxAt(tx_dma, n) => k = n
      BY <1>1, <2>1, TxRound
    <3> QED BY <1>6, <3>1
  <2>3. E(k)' = IF TxAt(tx_dma, k) = tx_cur THEN new ELSE E(k)
    BY <1>4, <2>1 DEF E
  <2> QED BY <2>2, <2>3
<1>9. ASSUME NEW k \in 0 .. n - 1, E(k) = new
      PROVE  FALSE
  <2>1. Within(E(k), n - 1 - k)
    BY DEF TxRingOf
  <2>2. PICK e \in 0 .. n - 1 - k, u \in Sender, m \in 0 .. Rounds - 1 :
            /\ E(k) = [packet |-> <<u, m>>, whole |-> TRUE]
            /\ (m + (e + Ahead(u))) % Rounds = packet[u]
    BY <2>1 DEF Within
  <2>3. u = t /\ m = packet[t]
    BY <1>2, <1>9, <2>2 DEF new
  <2>4. Ahead(t) = 1
    BY <1>1 DEF Ahead
  <2>5. e + 1 \in 1 .. Rounds - 1 /\ m \in Nat /\ Rounds \in Nat \ {0}
    BY <1>1, <1>5
  <2>6. (m + (e + 1)) % Rounds = m
    BY <2>2, <2>3, <2>4
  <2>7. m % Rounds = m
    <3>1. 0 * Rounds + m = m
      BY <2>5
    <3> QED BY <2>5, <3>1, Quotient
  <2> QED BY <2>5, <2>6, <2>7, Apart
<1>10. ASSUME NEW k \in 0 .. n
       PROVE  Within(E(k), n - k)'
  <2>1. CASE k = n
    <3>1. E(k)' = [packet |-> <<t, packet[t]>>, whole |-> TRUE]
      <4>1. k \in 0 .. TxCount - 1
        BY <1>1, <1>5
      <4>2. E(k)' = new
        BY <1>8, <2>1, <4>1
      <4> QED BY <1>2, <4>2 DEF new
    <3>2. Ahead(t)' = 0
      BY <1>4 DEF Ahead, TxTypeOK
    <3>3. (packet[t] + (0 + 0)) % Rounds = packet[t]
      <4>1. 0 * Rounds + packet[t] = packet[t] /\ packet[t] + (0 + 0) = packet[t] /\ Rounds \in Nat \ {0}
        BY <1>1
      <4> QED BY <1>1, <4>1, Quotient
    <3>4. 0 \in 0 .. n - k /\ packet'[t] = packet[t]
      BY <1>4, <2>1
    <3> QED BY <1>1, <3>1, <3>2, <3>3, <3>4 DEF Within
  <2>2. CASE k < n
    <3>1. Within(E(k), n - 1 - k) /\ E(k)' = E(k)
      BY <1>1, <1>5, <1>8, <2>2 DEF TxRingOf
    <3>2. PICK e \in 0 .. n - 1 - k, u \in Sender, m \in 0 .. Rounds - 1 :
              /\ E(k) = [packet |-> <<u, m>>, whole |-> TRUE]
              /\ (m + (e + Ahead(u))) % Rounds = packet[u]
      BY <3>1 DEF Within
    <3>3. CASE u = t
      <4>1. Ahead(u) = 1 /\ Ahead(u)' = 0
        BY <1>1, <1>4, <3>3 DEF Ahead, TxTypeOK
      <4>2. e + 1 \in 0 .. n - k /\ (e + 1) + 0 = e + 1
        BY <1>1
      <4>3. (m + ((e + 1) + Ahead(u)')) % Rounds = packet'[u]
        BY <1>4, <3>2, <4>1, <4>2
      <4> QED BY <3>1, <3>2, <4>2, <4>3 DEF Within
    <3>4. CASE u # t
      <4>1. Ahead(u)' = Ahead(u)
        BY <1>4, <3>4 DEF Ahead, TxTypeOK
      <4>2. e \in 0 .. n - k
        BY <1>1
      <4> QED BY <1>4, <3>1, <3>2, <4>1, <4>2 DEF Within
    <3> QED BY <3>3, <3>4
  <2> QED BY <1>1, <2>1, <2>2
<1>11. TxRingOf(n + 1)'
  <2>1. \A k \in 0 .. TxCount - 1 : E(k)' # Unowned <=> k < n + 1
    BY <1>1, <1>2, <1>5, <1>8 DEF TxRingOf
  <2>2. \A k \in 0 .. (n + 1) - 1 : Within(E(k), (n + 1) - 1 - k)'
    <3>1. \A k \in 0 .. n : (n + 1) - 1 - k = n - k
      BY <1>1
    <3>2. (n + 1) - 1 = n
      BY <1>1
    <3> QED BY <1>10, <3>1, <3>2
  <2> QED BY <1>1, <1>4, <1>5, <1>7, <2>1, <2>2 DEF TxRingOf
<1>12. TxTypeOK'
  <2>1. tx' \in [TxSlot -> Sent \cup {Unowned}]
    BY <1>2, <1>4 DEF TxTypeOK
  <2> QED BY <1>4, <1>7, <2>1 DEF TxTypeOK
<1>13. Holder'
  BY <1>1, <1>4 DEF Holder, TxTypeOK
<1> QED BY <1>5, <1>8, <1>9, <1>11, <1>12, <1>13, <1>1 DEF new

\* The DMA takes the oldest.
LEMMA TransmitStep ==
    ASSUME TxTypeOK, Holder, NEW n \in Nat, TxRingOf(n), Transmit
    PROVE  /\ n > 0 /\ TxRingOf(n - 1)' /\ wire' = E(0)
           /\ \A k \in 0 .. n - 2 : E(k)' = E(k + 1)
           /\ TxTypeOK' /\ Holder'
<1>1. /\ TxCount \in Nat /\ TxCount >= 2 /\ n \in 0 .. TxCount /\ tx_dma \in TxSlot
      /\ Unowned \notin Sent
  BY TxAssumption DEF TxTypeOK, TxRingOf
<1>2. /\ tx[tx_dma] # Unowned /\ wire' = tx[tx_dma]
      /\ tx' = [tx EXCEPT ![tx_dma] = Unowned] /\ tx_dma' = TxAt(tx_dma, 1)
      /\ UNCHANGED <<tx_cur, tx_sem, tx_pc, packet, shape, seen, err, queued>>
  BY DEF Transmit
<1>3. tx[tx_dma] = E(0) /\ n > 0
  <2>1. tx[tx_dma] = E(0)
    BY <1>1, TxRound DEF E
  <2>2. 0 < n
    BY <1>1, <1>2, <2>1 DEF TxRingOf
  <2> QED BY <2>1, <2>2
<1>4. tx_dma' \in TxSlot /\ \A k \in Nat : TxAt(tx_dma', k) = TxAt(tx_dma, 1 + k)
  BY <1>1, <1>2, TxRound
<1>5. ASSUME NEW k \in 0 .. TxCount - 2
      PROVE  E(k)' = E(k + 1)
  <2>1. k + 1 \in 0 .. TxCount - 1 /\ 1 + k = k + 1 /\ k \in Nat /\ 0 \in 0 .. TxCount - 1 /\ k + 1 # 0
    BY <1>1
  <2>2. TxAt(tx_dma, k + 1) \in TxSlot /\ TxAt(tx_dma, k + 1) # tx_dma
    <3>1. TxAt(tx_dma, 0) = tx_dma /\ TxAt(tx_dma, k + 1) \in TxSlot
      BY <1>1, <2>1, TxRound
    <3>2. TxAt(tx_dma, k + 1) = TxAt(tx_dma, 0) => k + 1 = 0
      BY <1>1, <2>1, TxRound
    <3> QED BY <2>1, <3>1, <3>2
  <2> QED BY <1>2, <1>4, <2>1, <2>2 DEF E, TxTypeOK
<1>6. E(TxCount - 1)' = Unowned
  <2>1. 1 + (TxCount - 1) = 0 + TxCount /\ TxCount - 1 \in Nat /\ 0 \in Nat
    BY <1>1
  <2>2. TxAt(tx_dma', TxCount - 1) = tx_dma
    BY <1>1, <1>4, <2>1, TxRound
  <2> QED BY <1>1, <1>2, <2>2 DEF E, TxTypeOK
<1>7. PICK w \in 0 .. TxCount - 1 : w = n - 1
  BY <1>1, <1>3
<1>8. TxRingOf(w)'
  <2>1. tx_cur' = TxAt(tx_dma', w)
    <3>1. 1 + w = n /\ w \in Nat
      BY <1>1, <1>7
    <3> QED BY <1>2, <1>4, <3>1 DEF TxRingOf
  <2>2. ASSUME NEW k \in 0 .. TxCount - 1
        PROVE  E(k)' # Unowned <=> k < w
    <3>1. CASE k = TxCount - 1
      BY <1>1, <1>6, <1>7, <3>1
    <3>2. CASE k \in 0 .. TxCount - 2
      <4>1. k + 1 \in 0 .. TxCount - 1
        BY <1>1, <3>2
      <4>2. E(k + 1) # Unowned <=> k + 1 < n
        BY <4>1 DEF TxRingOf
      <4> QED BY <1>1, <1>5, <1>7, <3>2, <4>2
    <3> QED BY <1>1, <3>1, <3>2
  <2>3. ASSUME NEW k \in 0 .. w - 1
        PROVE  Within(E(k), w - 1 - k)'
    <3>1. k \in 0 .. TxCount - 2 /\ k + 1 \in 0 .. n - 1 /\ n - 1 - (k + 1) = w - 1 - k
      BY <1>1, <1>7
    <3>2. Within(E(k + 1), n - 1 - (k + 1))
      BY <3>1 DEF TxRingOf
    <3>3. Within(E(k + 1), w - 1 - k)
      BY <3>1, <3>2
    <3>4. E(k)' = E(k + 1)
      BY <1>5, <3>1
    <3> QED BY <1>2, <3>3, <3>4 DEF Within, Ahead
  <2> QED BY <1>1, <1>7, <2>1, <2>2, <2>3 DEF TxRingOf
<1>9. TxTypeOK' /\ Holder'
  <2>1. tx' \in [TxSlot -> Sent \cup {Unowned}] /\ wire' \in Sent \cup {Nobody}
    BY <1>1, <1>2 DEF TxTypeOK
  <2>2. TxTypeOK'
    BY <1>2, <1>4, <2>1 DEF TxTypeOK
  <2>3. \E s \in TxSlot : tx'[s] = Unowned
    BY <1>1, <1>2 DEF TxTypeOK
  <2> QED BY <1>2, <2>2, <2>3 DEF Holder
<1> QED BY <1>1, <1>2, <1>3, <1>5, <1>7, <1>8, <1>9

\* The other steps leave the ring alone.
LEMMA QuietStep ==
    ASSUME OneBuffer, TxTypeOK, Holder, NEW n \in Nat, TxRingOf(n), NEW t \in Sender,
           Output(t) \/ TakeSemaphore(t) \/ TimesOut(t) \/ FillStops(t) \/ Fill(t)
    PROVE  UNCHANGED <<tx, tx_dma, wire>> /\ TxRingOf(n)' /\ TxTypeOK' /\ Holder'
<1>1. UNCHANGED <<tx, tx_dma, tx_cur, wire>>
  BY DEF Output, TakeSemaphore, TimesOut, FillStops, Fill
<1>2. /\ TxCount \in Nat /\ TxCount >= 2 /\ Rounds \in Nat /\ Rounds > TxCount + 1
      /\ tx_dma \in TxSlot
  BY TxAssumption DEF TxTypeOK
<1>3. \A k : E(k)' = E(k)
  BY <1>1 DEF E
<1>4. ASSUME NEW desc, NEW d \in Nat, Within(desc, d)
      PROVE  Within(desc, d)'
  <2>1. PICK e \in 0 .. d, u \in Sender, m \in 0 .. Rounds - 1 :
            /\ desc = [packet |-> <<u, m>>, whole |-> TRUE]
            /\ (m + (e + Ahead(u))) % Rounds = packet[u]
    BY <1>4 DEF Within
  <2>2. CASE Output(t) /\ u = t /\ queued[t]
    <3>1. Ahead(u) = 0 /\ Ahead(u)' = 1 /\ packet'[u] = (packet[u] + 1) % Rounds
      BY <2>2 DEF Ahead, Output, TxTypeOK
    <3>2. m + e \in Nat /\ Rounds \in Nat \ {0} /\ e + 0 = e /\ (m + e) + 1 = m + (e + 1)
      BY <1>2
    <3>3. (((m + e) % Rounds) + 1) % Rounds = ((m + e) + 1) % Rounds
      BY <3>2, RemainderAdds
    <3>4. (m + (e + Ahead(u)')) % Rounds = packet'[u]
      BY <2>1, <3>1, <3>2, <3>3
    <3> QED BY <2>1, <3>4 DEF Within
  <2>3. CASE ~(Output(t) /\ u = t /\ queued[t])
    <3>1. packet'[u] = packet[u] /\ Ahead(u)' = Ahead(u)
      BY <2>3 DEF Ahead, TxTypeOK, Output, TakeSemaphore, TimesOut, FillStops, Fill, Return
    <3> QED BY <2>1, <3>1 DEF Within
  <2> QED BY <2>2, <2>3
<1>5. TxRingOf(n)'
  <2>1. \A k \in 0 .. n - 1 : n - 1 - k \in Nat
    OBVIOUS
  <2>2. \A k \in 0 .. n - 1 : Within(E(k), n - 1 - k)
    BY DEF TxRingOf
  <2>3. \A k \in 0 .. n - 1 : Within(E(k), n - 1 - k)'
    BY <1>3, <1>4, <2>1, <2>2
  <2> QED BY <1>1, <1>3, <2>3 DEF TxRingOf
<1>6. TxTypeOK'
  <2>1. CASE Output(t)
    <3>1. PICK c \in Chains, b \in Buffers :
              shape' = [shape EXCEPT ![t] = [pbufs |-> c, buffers |-> b]]
      BY <2>1 DEF Output
    <3>2. shape' \in [Sender -> [pbufs : Chains \cup {1}, buffers : Buffers \cup {1}]]
      BY <3>1 DEF TxTypeOK
    <3>3. packet' \in [Sender -> 0 .. Rounds - 1]
      <4>1. packet[t] \in 0 .. Rounds - 1 /\ packet[t] + 1 \in Nat /\ Rounds \in Nat \ {0}
        BY <1>2 DEF TxTypeOK
      <4>2. (packet[t] + 1) % Rounds \in 0 .. Rounds - 1
        BY <4>1, Division
      <4> QED BY <2>1, <4>1, <4>2 DEF Output, TxTypeOK
    <3> QED BY <2>1, <3>2, <3>3 DEF Output, TxTypeOK
  <2>2. CASE ~Output(t)
    BY <2>2 DEF TxTypeOK, TakeSemaphore, TimesOut, FillStops, Fill, Return
  <2> QED BY <2>1, <2>2
<1>7. Holder'
  <2>1. CASE Fill(t)
    <3>1. tx[seen[t]] = Unowned /\ seen[t] \in TxSlot
      <4>1. TxAt(seen[t], 0) = seen[t] /\ seen[t] \in TxSlot
        BY TxRound DEF TxTypeOK
      <4>2. 0 \in 0 .. shape[t].buffers - 1
        BY OneBufferIs
      <4> QED BY <2>1, <4>1, <4>2 DEF Fill, Occupied
    <3> QED BY <1>1, <2>1, <3>1 DEF Fill, Holder, TxTypeOK
  <2>2. CASE Output(t)
    BY <1>1, <2>2 DEF Output, Holder, TxTypeOK
  <2>3. CASE TakeSemaphore(t)
    BY <1>1, <2>3, TxAssumption DEF TakeSemaphore, Holder, TxTypeOK
  <2>4. CASE TimesOut(t) \/ FillStops(t)
    BY <1>1, <2>4 DEF TimesOut, FillStops, Return, Holder, TxTypeOK
  <2> QED BY <2>1, <2>2, <2>3, <2>4
<1> QED BY <1>1, <1>5, <1>6, <1>7
-----------------------------------------------------------------------------
(* The queue. *)

LEMMA TxInitial ==
    ASSUME TxInit
    PROVE  TxInv /\ Backlog = << >>
<1>1. TxCount \in Nat /\ TxCount >= 2 /\ Rounds \in Nat /\ Rounds > TxCount + 1 /\ Unowned \notin Sent
  BY TxAssumption
<1>2. TxTypeOK
  <2>1. 0 \in TxSlot /\ 0 \in 0 .. Rounds - 1
    BY <1>1 DEF TxSlot
  <2> QED BY <2>1 DEF TxInit, TxTypeOK
<1>3. Holder
  BY DEF Holder, TxInit
<1>4. TxRingOf(0)
  <2>1. 0 \in TxSlot
    BY <1>1 DEF TxSlot
  <2>2. TxAt(0, 0) = 0 /\ \A k \in Nat : TxAt(0, k) \in TxSlot
    BY <2>1, TxRound
  <2>3. \A k \in 0 .. TxCount - 1 : E(k) = Unowned
    BY <2>2 DEF E, TxInit
  <2> QED BY <1>1, <2>2, <2>3 DEF TxRingOf, TxInit
<1>5. Backlog = [k \in 1 .. 0 |-> E(k - 1)]
  BY <1>2, <1>4, BacklogIs
<1> QED BY <1>2, <1>3, <1>4, <1>5 DEF TxInv

LEMMA TxQueueStep ==
    ASSUME OneBuffer, TxInv, TxNext
    PROVE  TxInv' /\ [TxQueue!Next]_(<<Backlog, wire>>)
<1>1. PICK n \in Nat : TxRingOf(n)
  BY DEF TxInv
<1>2. TxTypeOK /\ Holder
  BY DEF TxInv
<1>3. Backlog = [k \in 1 .. n |-> E(k - 1)]
  BY <1>1, <1>2, BacklogIs
<1>4. CASE Transmit
  <2>1. /\ n > 0 /\ TxRingOf(n - 1)' /\ wire' = E(0)
        /\ \A k \in 0 .. n - 2 : E(k)' = E(k + 1)
        /\ TxTypeOK' /\ Holder'
    BY <1>1, <1>2, <1>4, TransmitStep
  <2>2. n - 1 \in Nat
    BY <2>1
  <2>3. Backlog' = [k \in 1 .. n - 1 |-> E(k - 1)']
    BY <2>1, <2>2, BacklogNext, Zenon
  <2>4. ASSUME NEW k \in 1 .. n - 1
        PROVE  E(k - 1)' = E(k)
    <3>1. k - 1 \in 0 .. n - 2 /\ (k - 1) + 1 = k
      BY <2>2
    <3> QED BY <2>1, <3>1
  <2>5. PICK S : Backlog \in [1 .. n -> S]
    <3>1. Backlog \in [1 .. n -> {E(k - 1) : k \in 1 .. n}]
      BY <1>3
    <3> QED BY <3>1
  <2>6. Tail(Backlog) = [k \in 1 .. n - 1 |-> E(k)]
    <3>1. Tail(Backlog) = [k \in 1 .. n - 1 |-> Backlog[k + 1]]
      BY <2>1, <2>5, QueueIs, Zenon
    <3>2. ASSUME NEW k \in 1 .. n - 1
          PROVE  Backlog[k + 1] = E(k)
      <4>1. k + 1 \in 1 .. n /\ (k + 1) - 1 = k
        BY <2>2
      <4> QED BY <1>3, <4>1
    <3> QED BY <3>1, <3>2
  <2>7. Head(Backlog) = E(0) /\ Backlog # << >>
    <3>1. 1 \in 1 .. n /\ 1 - 1 = 0
      BY <2>1
    <3>2. Backlog[1] = E(0)
      BY <1>3, <3>1
    <3> QED BY <2>1, <2>5, <3>2, QueueIs
  <2>8. Backlog' = Tail(Backlog)
    BY <2>3, <2>4, <2>6
  <2>9. TxQueue!Take
    BY <2>1, <2>7, <2>8 DEF TxQueue!Take
  <2> QED BY <2>1, <2>2, <2>9 DEF TxInv, TxQueue!Next
<1>5. ASSUME NEW t \in Sender, Prepare(t)
      PROVE  TxInv' /\ TxQueue!Next
  <2> DEFINE new == [packet |-> Own(t), whole |-> TRUE]
  <2>1. /\ n < TxCount /\ TxRingOf(n + 1)'
        /\ \A k \in 0 .. n - 1 : E(k)' = E(k)
        /\ E(n)' = new
        /\ \A k \in 0 .. n - 1 : E(k) # new
        /\ TxTypeOK' /\ Holder'
    BY <1>1, <1>2, <1>5, PrepareStep
  <2>2. new \in [packet : Packet, whole : {TRUE}]
    <3>1. Own(t) \in Packet
      BY <1>2 DEF Own, Packet, TxTypeOK
    <3> QED BY <3>1
  <2> HIDE DEF new
  <2>3. Backlog' = [k \in 1 .. n + 1 |-> E(k - 1)']
    <3>1. n + 1 \in Nat
      OBVIOUS
    <3> QED BY <2>1, <3>1, BacklogNext, Zenon
  <2>4. ASSUME NEW k \in 1 .. n + 1
        PROVE  E(k - 1)' = IF k = n + 1 THEN new ELSE E(k - 1)
    <3>1. CASE k = n + 1
      BY <2>1, <3>1
    <3>2. CASE k # n + 1
      <4>1. k - 1 \in 0 .. n - 1
        BY <3>2
      <4> QED BY <2>1, <3>2, <4>1
    <3> QED BY <3>1, <3>2
  <2>5. PICK S : Backlog \in [1 .. n -> S]
    <3>1. Backlog \in [1 .. n -> {E(k - 1) : k \in 1 .. n}]
      BY <1>3
    <3> QED BY <3>1
  <2>6. Backlog' = Append(Backlog, new)
    <3>1. Append(Backlog, new) = [k \in 1 .. n + 1 |-> IF k = n + 1 THEN new ELSE Backlog[k]]
      <4>1. Append(Backlog, new) = Longer(Backlog, n, new)
        BY <2>5, AppendIs, Zenon
      <4> QED BY <4>1, Zenon DEF Longer
    <3>2. ASSUME NEW k \in 1 .. n + 1
          PROVE  E(k - 1)' = IF k = n + 1 THEN new ELSE Backlog[k]
      BY <1>3, <2>4
    <3> QED BY <2>3, <3>1, <3>2
  <2>7. ASSUME NEW k \in DOMAIN Backlog
        PROVE  Backlog[k] # new
    <3>1. k \in 1 .. n /\ k - 1 \in 0 .. n - 1
      BY <1>3
    <3> QED BY <1>3, <2>1, <3>1
  <2>8. UNCHANGED wire
    BY <1>5 DEF Prepare
  <2>9. TxQueue!Put(new)
    <3>1. Len(Backlog) = n
      BY <2>5, QueueIs, Zenon
    <3> QED BY <2>1, <2>6, <2>7, <2>8, <3>1 DEF TxQueue!Put
  <2>10. TxInv'
    <3>1. n + 1 \in Nat
      OBVIOUS
    <3> QED BY <2>1, <3>1 DEF TxInv
  <2> QED BY <2>2, <2>9, <2>10 DEF TxQueue!Next
<1>6. ASSUME NEW t \in Sender,
             Output(t) \/ TakeSemaphore(t) \/ TimesOut(t) \/ FillStops(t) \/ Fill(t)
      PROVE  TxInv' /\ UNCHANGED <<Backlog, wire>>
  <2>1. UNCHANGED <<tx, tx_dma, wire>> /\ TxRingOf(n)' /\ TxTypeOK' /\ Holder'
    BY <1>1, <1>2, <1>6, QuietStep
  <2> QED BY <1>1, <2>1 DEF TxInv, Backlog
<1> QED BY <1>4, <1>5, <1>6 DEF TxNext, SenderStep

LEMMA TxQuiet ==
    ASSUME TxInv, UNCHANGED txvars
    PROVE  TxInv' /\ UNCHANGED <<Backlog, wire>>
<1>1. UNCHANGED <<tx, tx_dma, tx_cur, tx_sem, tx_pc, packet, shape, seen, err, queued, wire>>
  BY DEF txvars
<1>2. TxTypeOK' /\ Holder' /\ UNCHANGED <<Backlog, wire>>
  BY <1>1 DEF TxInv, TxTypeOK, Holder, Backlog
<1>3. PICK n \in Nat : TxRingOf(n)
  BY DEF TxInv
<1>4. TxRingOf(n)'
  <2>1. \A k : E(k)' = E(k)
    BY <1>1 DEF E
  <2>2. \A desc, d : Within(desc, d)' = Within(desc, d)
    BY <1>1 DEF Within, Ahead
  <2> QED BY <1>1, <1>3, <2>1, <2>2 DEF TxRingOf
<1> QED BY <1>2, <1>4 DEF TxInv

\* With packets of one buffer the transmit ring is a queue, for rings of any
\* length and any number of senders: nothing is overwritten, sent twice or out
\* of order, although the look at the own bit uses a position read before the
\* semaphore was taken (ethernetif.c l.158-212, hpm_enet_drv.c l.553-591).
THEOREM TxQueueImplemented == ASSUME OneBuffer PROVE Spec => RefinesTxQueue
<1>1. Init => TxInv /\ TxQueue!Init
  BY TxInitial DEF Init, TxQueue!Init
<1>2. TxInv /\ [Next]_portvars => TxInv' /\ [TxQueue!Next]_(<<Backlog, wire>>)
  <2> SUFFICES ASSUME TxInv, [Next]_portvars
               PROVE  TxInv' /\ [TxQueue!Next]_(<<Backlog, wire>>)
    OBVIOUS
  <2>1. CASE TxNext
    BY <2>1, TxQueueStep
  <2>2. CASE UNCHANGED txvars
    BY <2>2, TxQuiet
  <2> QED BY <2>1, <2>2 DEF Next, Receiving, Sending, portvars
<1> QED BY <1>1, <1>2, PTL DEF Spec, RefinesTxQueue, TxQueue!Spec, TxQueue!vars
=============================================================================
