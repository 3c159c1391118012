--------------------------- MODULE E2PFault_proofs ---------------------------
(***************************************************************************)
(* Proofs about E2P: what faults leave of the store, for any number of     *)
(* faults in e2p_write and every area that is Sized, whether or not the    *)
(* application heeds a refused e2p_config.                                 *)
(*                                                                         *)
(* A fault leaves part of a write on the flash: data without an info block *)
(* or some cells of one.  From then on the store holds only for the        *)
(* variables that have not been written since, which are settled; what     *)
(* belongs to the others may be anything e2p_write_private can leave.      *)
(***************************************************************************)
EXTENDS E2P_proofs, E2PAstray

Settled == Id \ dirty

\* A block of some variable, and a cell that is not part of a settled one's.
Fitting(b) == b \in Blk /\ b.block_id \in Id /\ b.length \in Lengths
Stray(cell, D) == cell.kind = "info" => Fitting(cell.blk) /\ cell.blk.block_id \in D

\* Slot k has a block, whose data follow those of the blocks before it and
\* are there if the block is for a variable in S.
Intact(f, k, S) ==
    /\ \A p \in 1 .. BLK : f[Slot(k) + p - 1] = InfoCell(BlkAt(f, k), p)
    /\ Fitting(BlkAt(f, k))
    /\ BlkAt(f, k).data_addr = End(f, k)
    /\ BlkAt(f, k).block_id \in S => Sound(BlkAt(f, k)) /\ Holds(f, BlkAt(f, k))

\* The first n slots have blocks.
Base(f, n, S) ==
    /\ \A k \in 0 .. n - 1 : Intact(f, k, S)
    /\ \A k \in 0 .. n : End(f, k) \in Nat /\ End(f, k) <= End(f, n)
    /\ End(f, n) <= Slot(n)

Strays(hi) == \A a \in Addr : a < hi => Stray(flash[a], dirty)

\* The flash has n blocks with all that is settled, and no other block of a
\* settled variable.
Keeps(n) ==
    /\ Base(flash, n, Settled) /\ Marked
    /\ \A id \in Settled : Recorded(flash, n, id, acked[id])
    /\ Strays(Slot(n) + BLK)

\* The table is that of the first n blocks, but for what is not settled; the
\* info pointer may be m - n slots further down.
Table(n) ==
    /\ \A id \in Settled : Newest(flash, n, id, table[id])
    /\ \A id \in Id : table[id] # Blank => Fitting(table[id]) /\ table[id].block_id = id
Filled(m) == p_info = Slot(m) /\ Cardinality(Known) <= m

KeptOff == flash[FirstInfo + BLK].kind # "info" \/ \E n \in Nat : Keeps(n)
KeptScanning == \E n \in Nat, q \in Nat, m \in Nat :
    /\ q <= n /\ Keeps(n) /\ Table(q) /\ Filled(m)
    /\ \/ q < n /\ m = q /\ p_data = End(flash, q)
       \/ q = n /\ n <= m /\ End(flash, n) <= p_data
KeptResting == \E n \in Nat, m \in Nat :
    n <= m /\ Keeps(n) /\ Table(n) /\ Filled(m) /\ End(flash, n) <= p_data

\* The table describes what is settled.
KeptDescribed ==
    /\ \A id \in Id : table[id] # Blank => Fitting(table[id]) /\ table[id].block_id = id
    /\ \A id \in Settled :
          \/ table[id] = Blank /\ acked[id] = << >>
          \/ table[id] # Blank /\ Sound(table[id]) /\ table[id].crc = acked[id]

\* The cells of the info sector are in read_buf and not in the flash.
KeptSaved ==
    /\ KeptDescribed
    /\ \E m \in Nat : Filled(m)
    /\ \A id \in Known \cap Settled : \A m \in 1 .. table[id].length :
          LET a == table[id].data_addr + m - 1 IN
          IF a < InfoSector THEN flash[a] = table[id].crc[m]
          ELSE a < p_info /\ read_buf[a - InfoSector + 1] = table[id].crc[m]
    /\ Len(read_buf) = p_info % EraseSize
    /\ Clear(flash, InfoSector, AreaSize)
    /\ Strays(InfoSector)
    /\ \A m \in 1 .. Len(read_buf) : Stray(read_buf[m], dirty)

\* order has every variable of the table once, and the slots of the info
\* blocks to be written are erased.
KeptWalk ==
    /\ KeptDescribed
    /\ \A n \in 1 .. Len(order) : order[n] \in Known
    /\ \A m, n \in 1 .. Len(order) : m # n => order[m] # order[n]
    /\ \A id \in Known : \E n \in 1 .. Len(order) : order[n] = id
    /\ Len(order) <= MaxVar /\ Cardinality(Known) <= Len(order)
    /\ Clear(flash, Slot(Len(order)) + BLK, p_info + BLK)
    /\ Clear(flash, FirstInfo + BLK, AreaSize)
    /\ Strays(p_info + BLK)
    /\ \A m \in 1 .. Len(read_buf) : Stray(read_buf[m], dirty)
KeptReading ==
    /\ KeptWalk
    /\ \A id \in Known \cap Settled : Holds(flash, table[id])
    /\ p_data = 0 /\ p_info = FirstInfo /\ count = 0 /\ head = 0
    /\ Packed(0, Settled) /\ MaxVar * Len(read_buf) <= i * EraseSize
KeptErasing ==
    /\ KeptWalk
    /\ p_data = 0 /\ p_info = FirstInfo /\ count = 0
    /\ i = Len(order) /\ Packed(0, Settled)
    /\ head = 0 \/ (EraseSize <= head /\ Clear(flash, 0, EraseSize))

\* The first c entries are back on the flash; the first sector has room for
\* the data of all.
KeptRewritten(c) ==
    /\ Base(flash, c, Settled) /\ p_info = Slot(c)
    /\ \A k \in 0 .. c - 1 : /\ BlkAt(flash, k).block_id = order[k + 1]
                             /\ table[order[k + 1]] = BlkAt(flash, k)
Spare == i > 0 => EraseSize <= tail /\ Clear(flash, p_data, EraseSize)
KeptBetween ==
    /\ KeptWalk /\ Spare
    /\ i = Len(order) /\ count <= i
    /\ KeptRewritten(count) /\ p_data = End(flash, count) /\ Packed(count, Settled)
KeptHalf(n) ==
    /\ Fitting(block)
    /\ block.data_addr = End(flash, n)
    /\ p_data = End(flash, n) + block.length
    /\ block.block_id \in Settled => Sound(block) /\ Holds(flash, block)
KeptWithin ==
    /\ KeptWalk /\ Spare
    /\ i = Len(order) /\ count < i
    /\ KeptRewritten(count) /\ KeptHalf(count) /\ Packed(count + 1, Settled)
    /\ block.block_id = order[count + 1] /\ block.length = Entry(count).length
    /\ block.block_id \in Settled => block.crc = acked[block.block_id]

\* A write that is under way is no longer settled.
Late == req # NoReq => req.id \in dirty

FaultInv ==
    /\ Ask /\ Late
    /\ pc = "off" => KeptOff
    /\ pc = "cfg_erase" => Reset
    /\ pc = "cfg_info" => Wiped
    /\ pc = "cfg_scan" => KeptScanning
    /\ pc \in {"idle", "wr_data", "fl_start"} => KeptResting
    /\ pc = "wr_info" => KeptResting /\ Fitting(block) /\ block.block_id = req.id
    /\ pc = "fl_restore" => KeptSaved
    /\ pc = "fl_read" => KeptReading
    /\ pc = "fl_erase" => KeptErasing
    /\ pc \in {"fl_back", "fl_tail", "fl_rest", "fl_cfg"} => KeptBetween
    /\ pc \in {"wb_info", "rw_info"} => KeptWithin
    /\ pc = "fl_rest" => count < i
    /\ pc = "fl_cfg" => count = i

-----------------------------------------------------------------------------
LEMMA FittingIs ==
    ASSUME Sized, NEW b
    PROVE  /\ Sound(b) => Fitting(b)
           /\ Fitting(b) =>
                 /\ b.length \in Nat \ {0} /\ b.data_addr \in Nat /\ b.block_id \in Id /\ b # Blank
                 /\ MaxVar * b.length <= EraseSize /\ b.length <= EraseSize
<1>1. Sound(b) => Fitting(b)
  BY DEF Sound, Fitting
<1>2. ASSUME Fitting(b)
      PROVE  /\ b.length \in Nat \ {0} /\ b.data_addr \in Nat /\ b.block_id \in Id /\ b # Blank
             /\ MaxVar * b.length <= EraseSize /\ b.length <= EraseSize
  <2>1. b.length \in Nat \ {0} /\ MaxVar * b.length <= EraseSize
    BY <1>2, E2PAssumption DEF Sized, Fitting
  <2>2. b.data_addr \in Nat /\ b.block_id \in Id
    BY <1>2 DEF Fitting, Blk
  <2>3. b # Blank
    BY <2>2, E2PAssumption DEF Blank, Block
  <2>4. MaxVar \in Nat \ {0}
    <3>1. Cardinality(Id) # 0
      BY <2>2, FS_EmptySet, FS_CardinalityType, E2PAssumption
    <3>2. Cardinality(Id) \in Nat
      BY FS_CardinalityType, E2PAssumption
    <3> QED BY <3>1, <3>2, E2PAssumption DEF Sized
  <2>5. b.length <= EraseSize
    <3>1. 1 * b.length <= MaxVar * b.length
      BY <2>1, <2>4, Fewer
    <3>2. 1 * b.length = b.length /\ MaxVar * b.length \in Nat
      BY <2>1, <2>4
    <3> QED BY <2>1, <3>1, <3>2, Geometry
  <2> QED BY <2>1, <2>2, <2>3, <2>5
<1> QED BY <1>1, <1>2

\* Cells that belong to no info block.
LEMMA StrayIs ==
    /\ \A D : Stray(Erased, D) /\ Stray(Mixed, D)
    /\ \A cell, D : Plain(cell) => Stray(cell, D)
    /\ \A b, p, D : Fitting(b) /\ b.block_id \in D => Stray(InfoCell(b, p), D)
    /\ \A cell, D, E : Stray(cell, D) /\ D \subseteq E => Stray(cell, E)
<1>1. \A D : Stray(Erased, D) /\ Stray(Mixed, D)
  BY DEF Stray, Erased, Mixed
<1>2. \A cell, D : Plain(cell) => Stray(cell, D)
  BY DEF Stray, Plain
<1>3. \A b, p, D : Fitting(b) /\ b.block_id \in D => Stray(InfoCell(b, p), D)
  BY InfoIs DEF Stray
<1>4. \A cell, D, E : Stray(cell, D) /\ D \subseteq E => Stray(cell, E)
  BY DEF Stray
<1> QED BY <1>1, <1>2, <1>3, <1>4

\* Where the blocks are and their data should be.
LEMMA BasePlaces ==
    ASSUME Sized, NEW f, NEW n \in Nat, NEW S, Base(f, n, S)
    PROVE  /\ Slot(n) \in Nat /\ End(f, n) \in Nat /\ End(f, n) <= Slot(n) /\ Slot(n) <= FirstInfo
           /\ \A k \in 0 .. n - 1 : /\ Slot(n) + BLK <= Slot(k) /\ Slot(k) <= FirstInfo
                                   /\ \A p \in 1 .. BLK : Slot(k) + p - 1 \in Addr
           /\ \A k \in 0 .. n - 1 :
                 /\ Fitting(BlkAt(f, k)) /\ BlkAt(f, k).length \in Nat
                 /\ BlkAt(f, k).data_addr = End(f, k) /\ End(f, k) \in Nat
                 /\ End(f, k + 1) = End(f, k) + BlkAt(f, k).length
                 /\ End(f, k + 1) <= End(f, n)
<1>1. End(f, n) \in Nat /\ End(f, n) <= Slot(n) /\ Slot(n) \in Nat /\ Slot(n) <= FirstInfo
  <2>1. n \in 0 .. n
    OBVIOUS
  <2> QED BY <2>1, SlotFacts DEF Base
<1>2. ASSUME NEW k \in 0 .. n - 1
      PROVE  /\ Slot(n) + BLK <= Slot(k) /\ Slot(k) <= FirstInfo
             /\ \A p \in 1 .. BLK : Slot(k) + p - 1 \in Addr
  <2>1. Slot(n) + BLK <= Slot(k) /\ Slot(k) <= FirstInfo /\ Slot(k) \in Int
    BY SlotOrder, SlotFacts
  <2> QED BY <1>1, <2>1, Geometry DEF Addr
<1>3. ASSUME NEW k \in 0 .. n - 1
      PROVE  /\ Fitting(BlkAt(f, k)) /\ BlkAt(f, k).length \in Nat
             /\ BlkAt(f, k).data_addr = End(f, k) /\ End(f, k) \in Nat
             /\ End(f, k + 1) = End(f, k) + BlkAt(f, k).length
             /\ End(f, k + 1) <= End(f, n)
  <2>1. Intact(f, k, S) /\ End(f, k) \in Nat /\ End(f, k + 1) <= End(f, n)
    BY DEF Base
  <2>2. k + 1 # 0 /\ (k + 1) - 1 = k
    OBVIOUS
  <2>3. End(f, k + 1) = BlkAt(f, k).data_addr + BlkAt(f, k).length
    BY <2>2 DEF End
  <2>4. Fitting(BlkAt(f, k)) /\ BlkAt(f, k).data_addr = End(f, k)
    BY <2>1 DEF Intact
  <2>5. BlkAt(f, k).length \in Nat
    BY <2>4, FittingIs
  <2> QED BY <2>1, <2>3, <2>4, <2>5
<1> QED BY <1>1, <1>2, <1>3

\* They do not notice what happens between the data and the blocks.
LEMMA BaseSame ==
    ASSUME Sized, NEW f \in [Addr -> Cell], NEW g \in [Addr -> Cell], NEW n \in Nat,
           NEW S, NEW T, T \subseteq S, Base(f, n, S),
           \A a \in Addr : a < End(f, n) \/ (Slot(n) + BLK <= a /\ a < FirstInfo + BLK)
                            => g[a] = f[a]
    PROVE  /\ Base(g, n, T)
           /\ \A k \in 0 .. n : End(g, k) = End(f, k)
           /\ \A k \in 0 .. n - 1 : BlkAt(g, k) = BlkAt(f, k)
<1>1. ASSUME NEW k \in 0 .. n - 1, NEW p \in 1 .. BLK
      PROVE  g[Slot(k) + p - 1] = f[Slot(k) + p - 1]
  <2>1. Slot(k) + p - 1 \in Addr /\ Slot(n) + BLK <= Slot(k) /\ Slot(k) <= FirstInfo
    BY BasePlaces
  <2>2. Slot(k) \in Int /\ Slot(n) \in Int
    BY SlotFacts
  <2>3. Slot(n) + BLK <= Slot(k) + p - 1 /\ Slot(k) + p - 1 < FirstInfo + BLK
    BY <2>1, <2>2, Geometry
  <2> QED BY <2>1, <2>3
<1>2. ASSUME NEW k \in 0 .. n - 1
      PROVE  BlkAt(g, k) = BlkAt(f, k)
  <2>1. g[Slot(k) + 1 - 1] = f[Slot(k) + 1 - 1]
    BY <1>1, Geometry, SMTT(30)
  <2>2. Slot(k) + 1 - 1 = Slot(k)
    BY SlotFacts
  <2> QED BY <2>1, <2>2 DEF BlkAt
<1>3. ASSUME NEW k \in 0 .. n
      PROVE  End(g, k) = End(f, k)
  BY <1>2 DEF End
<1>4. ASSUME NEW a \in 0 .. End(f, n) - 1
      PROVE  a \in Addr /\ g[a] = f[a]
  <2>1. End(f, n) \in Nat /\ End(f, n) <= Slot(n) /\ Slot(n) <= FirstInfo /\ Slot(n) \in Int
    BY BasePlaces
  <2>2. a \in Addr /\ a < End(f, n)
    BY <2>1, Geometry DEF Addr
  <2> QED BY <2>2
<1>5. ASSUME NEW k \in 0 .. n - 1
      PROVE  Intact(g, k, T)
  <2>1. /\ Fitting(BlkAt(f, k)) /\ BlkAt(f, k).length \in Nat
        /\ BlkAt(f, k).data_addr = End(f, k) /\ End(f, k) \in Nat
        /\ End(f, k) + BlkAt(f, k).length <= End(f, n) /\ End(f, n) \in Nat
    BY BasePlaces
  <2>2. Intact(f, k, S)
    BY DEF Base
  <2>3. ASSUME BlkAt(f, k).block_id \in T
        PROVE  Sound(BlkAt(f, k)) /\ Holds(g, BlkAt(f, k))
    <3>1. Sound(BlkAt(f, k)) /\ Holds(f, BlkAt(f, k))
      BY <2>2, <2>3 DEF Intact
    <3>2. ASSUME NEW m \in 1 .. BlkAt(f, k).length
          PROVE  BlkAt(f, k).data_addr + m - 1 \in 0 .. End(f, n) - 1
      BY <2>1
    <3> QED BY <3>1, <3>2, <1>4 DEF Holds
  <2>4. \A p \in 1 .. BLK : g[Slot(k) + p - 1] = InfoCell(BlkAt(f, k), p)
    BY <1>1, <2>2 DEF Intact
  <2>5. End(g, k) = End(f, k)
    BY <1>3
  <2> QED BY <1>2, <2>1, <2>3, <2>4, <2>5 DEF Intact
<1>6. \A k \in 0 .. n : End(g, k) \in Nat /\ End(g, k) <= End(g, n)
  BY <1>3 DEF Base
<1>7. End(g, n) = End(f, n)
  BY <1>3
<1>8. End(g, n) <= Slot(n)
  BY <1>7 DEF Base
<1> QED BY <1>2, <1>3, <1>5, <1>6, <1>8 DEF Base

\* A block in the next slot, with its place behind the data there are.
LEMMA BaseGrows ==
    ASSUME Sized, NEW f \in [Addr -> Cell], NEW n \in Nat, NEW S, Base(f, n, S),
           NEW b, Fitting(b), b.data_addr = End(f, n), b.block_id \in S => Sound(b) /\ Holds(f, b),
           \A p \in 1 .. BLK : f[Slot(n) + p - 1] = InfoCell(b, p),
           End(f, n) + b.length <= Slot(n + 1)
    PROVE  Base(f, n + 1, S) /\ BlkAt(f, n) = b /\ End(f, n + 1) = End(f, n) + b.length
<1>1. BlkAt(f, n) = b
  <2>1. f[Slot(n) + 1 - 1] = InfoCell(b, 1)
    BY Geometry
  <2>2. Slot(n) + 1 - 1 = Slot(n)
    BY SlotFacts
  <2> QED BY <2>1, <2>2, InfoIs DEF BlkAt
<1>2. End(f, n + 1) = End(f, n) + b.length
  BY <1>1 DEF End
<1>3. Intact(f, n, S)
  BY <1>1 DEF Intact
<1>4. \A k \in 0 .. (n + 1) - 1 : Intact(f, k, S)
  BY <1>3 DEF Base
<1>5. End(f, n) \in Nat /\ b.length \in Nat
  BY BasePlaces, FittingIs
<1>6. ASSUME NEW k \in 0 .. n + 1
      PROVE  End(f, k) \in Nat /\ End(f, k) <= End(f, n + 1)
  <2>1. CASE k = n + 1
    BY <2>1, <1>2, <1>5
  <2>2. CASE k # n + 1
    <3>1. k \in 0 .. n
      BY <2>2
    <3>2. End(f, k) \in Nat /\ End(f, k) <= End(f, n)
      BY <3>1 DEF Base
    <3> QED BY <3>2, <1>2, <1>5
  <2> QED BY <2>1, <2>2
<1> QED BY <1>1, <1>2, <1>4, <1>6 DEF Base

\* A chain is a base whatever is settled, an empty area too.
LEMMA ChainBase ==
    ASSUME Sized, NEW f, NEW n \in Nat, NEW S, Chain(f, n)
    PROVE  Base(f, n, S)
BY FittingIs DEF Chain, Base, Good, Intact

\* What programming does to cells that are not erased.
LEMMA ProgramStray ==
    ASSUME NEW f \in [Addr -> Cell], NEW a \in Int, NEW cells, NEW len \in Nat, Len(cells) = len,
           NEW x \in Addr
    PROVE  /\ ~(a <= x /\ x < a + len) => Program(f, a, cells)[x] = f[x]
           /\ \A D : /\ Stray(f[x], D)
                     /\ \A m \in 1 .. len : Stray(cells[m], D)
                     => Stray(Program(f, a, cells)[x], D)
<1>1. x \in Int /\ DOMAIN f = Addr
  BY E2PAssumption DEF Addr, AreaSize
<1>2. x \in a .. a + len - 1 <=> a <= x /\ x < a + len
  BY <1>1
<1>3. CASE ~(a <= x /\ x < a + len)
  BY <1>1, <1>2, <1>3 DEF Program
<1>4. CASE a <= x /\ x < a + len
  <2>1. x - a + 1 \in 1 .. len
    BY <1>1, <1>4
  <2>2. Program(f, a, cells)[x] \in {f[x], cells[x - a + 1], Mixed}
    BY <1>1, <1>2, <1>4 DEF Program, Nor
  <2> QED BY <1>4, <2>1, <2>2, StrayIs
<1> QED BY <1>3, <1>4

LEMMA EraseStray ==
    ASSUME NEW f \in [Addr -> Cell], NEW a \in Int, NEW size \in Int, NEW x \in Addr
    PROVE  /\ EraseRange(f, a, size)[x] = Erased \/ EraseRange(f, a, size)[x] = f[x]
           /\ \A D : Stray(f[x], D) => Stray(EraseRange(f, a, size)[x], D)
<1>1. EraseRange(f, a, size)[x] = IF a <= x /\ x < a + size THEN Erased ELSE f[x]
  BY EraseIs
<1> QED BY <1>1, StrayIs

-----------------------------------------------------------------------------
(* What a write can do to the flash after a fault *)

\* Nothing that is settled is lost by new cells behind the data and below the
\* blocks, if they belong to no settled variable.
LEMMA KeepsAfter ==
    ASSUME Sized, IInv, IInv', NEW n \in Nat, Keeps(n), dirty \subseteq dirty', version' = version,
           \A id \in Settled' : acked'[id] = acked[id],
           NEW lo \in Int, NEW hi \in Int, End(flash, n) <= lo, hi <= Slot(n) + BLK,
           \A a \in Addr : ~(lo <= a /\ a < hi) => flash'[a] = flash[a],
           \A a \in Addr : a < Slot(n) + BLK => Stray(flash'[a], dirty')
    PROVE  /\ Keeps(n)'
           /\ \A k \in 0 .. n : End(flash', k) = End(flash, k)
           /\ \A k \in 0 .. n - 1 : BlkAt(flash', k) = BlkAt(flash, k)
<1>1. PICK S : S = Settled
  OBVIOUS
<1>2. PICK T : T = Settled' /\ T \subseteq S
  <2>1. Settled' \subseteq S
    BY <1>1 DEF Settled
  <2> QED BY <2>1
<1>3. Base(flash, n, S) /\ Marked /\ \A id \in S : Recorded(flash, n, id, acked[id])
  BY <1>1 DEF Keeps
<1>4. /\ Slot(n) \in Nat /\ End(flash, n) \in Nat /\ Slot(n) <= FirstInfo
  BY <1>3, BasePlaces
<1>5. \A a \in Addr : a < End(flash, n) \/ (Slot(n) + BLK <= a /\ a < FirstInfo + BLK)
                       => flash'[a] = flash[a]
  <2>1. ASSUME NEW a \in Addr, a < End(flash, n) \/ (Slot(n) + BLK <= a /\ a < FirstInfo + BLK)
        PROVE  ~(lo <= a /\ a < hi)
    BY <1>4, <2>1, Geometry DEF Addr
  <2> QED BY <2>1
<1>6. /\ Base(flash', n, T)
      /\ \A k \in 0 .. n : End(flash', k) = End(flash, k)
      /\ \A k \in 0 .. n - 1 : BlkAt(flash', k) = BlkAt(flash, k)
  BY <1>1, <1>2, <1>3, <1>5, BaseSame, Typed, TypedNext
<1>7. Marked'
  <2>1. ASSUME NEW a \in Addr, FirstInfo + BLK <= a
        PROVE  flash'[a] = flash[a]
    BY <1>4, <2>1, Geometry DEF Addr
  <2> QED BY <1>3, <2>1, MarkedSame
<1>8. \A id \in T : Recorded(flash', n, id, acked'[id])
  BY <1>1, <1>2, <1>3, <1>6, NewestSame
<1>9. Strays(Slot(n) + BLK)'
  BY DEF Strays
<1> QED BY <1>1, <1>2, <1>6, <1>7, <1>8, <1>9 DEF Keeps

\* The same for a flash that does not change at all.
LEMMA KeepsStill ==
    ASSUME NEW n, Keeps(n), UNCHANGED <<flash, version, acked, dirty>>
    PROVE  Keeps(n)'
BY DEF Keeps, Marked, Settled, Strays

LEMMA TableStill ==
    ASSUME NEW n, Table(n), UNCHANGED <<flash, table, dirty>>
    PROVE  Table(n)'
BY DEF Table, Settled

LEMMA FilledStill ==
    ASSUME NEW m, Filled(m), UNCHANGED <<p_info, table>>
    PROVE  Filled(m)'
<1>1. Known' = Known
  BY DEF Known
<1> QED BY <1>1 DEF Filled

\* The table of a flash with the same blocks.
LEMMA TableSame ==
    ASSUME NEW n \in Nat, Table(n), dirty \subseteq dirty', table' = table,
           \A k \in 0 .. n - 1 : BlkAt(flash', k) = BlkAt(flash, k)
    PROVE  Table(n)'
<1>1. Settled' \subseteq Settled
  BY DEF Settled
<1> QED BY <1>1, NewestSame DEF Table

\* The table takes a block of a variable that is not settled.
LEMMA TableTakes ==
    ASSUME Sized, IInv, NEW n \in Nat, Table(n), dirty \subseteq dirty',
           NEW b, Fitting(b), b.block_id \in dirty', table' = TableUpdate(b),
           \A k \in 0 .. n - 1 : BlkAt(flash', k) = BlkAt(flash, k)
    PROVE  Table(n)'
<1>1. Settled' \subseteq Settled /\ b.block_id \notin Settled'
  BY DEF Settled
<1>2. \A id \in Id : table'[id] = IF id = b.block_id THEN b ELSE table[id]
  BY Typed DEF TableUpdate
<1>3. \A id \in Settled' : id \in Id /\ table'[id] = table[id]
  BY <1>1, <1>2 DEF Settled
<1>4. ASSUME NEW id \in Settled'
      PROVE  Newest(flash', n, id, table'[id])
  BY <1>1, <1>3, NewestSame DEF Table
<1>5. ASSUME NEW id \in Id, table'[id] # Blank
      PROVE  Fitting(table'[id]) /\ table'[id].block_id = id
  BY <1>2, <1>5 DEF Table
<1> QED BY <1>4, <1>5 DEF Table

\* The table has at most one variable more.
LEMMA FilledGrows ==
    ASSUME IInv, IInv', NEW m \in Nat, Filled(m), NEW b, b.block_id \in Id, table' = TableUpdate(b),
           p_info' = p_info - BLK
    PROVE  Filled(m + 1)'
<1>1. Known' \subseteq Known \cup {b.block_id}
  BY Typed DEF Known, TableUpdate
<1>2. Known \subseteq Id /\ IsFiniteSet(Id)
  BY E2PAssumption DEF Known
<1>3. IsFiniteSet(Known)
  BY <1>2, FS_Subset
<1>4. PICK c \in Nat : c = Cardinality(Known) /\ c <= m
  BY <1>3, FS_CardinalityType DEF Filled
<1>5. IsFiniteSet(Known \cup {b.block_id}) /\ Cardinality(Known \cup {b.block_id}) \in Nat
      /\ Cardinality(Known \cup {b.block_id}) <= c + 1
  <2>1. IsFiniteSet(Known \cup {b.block_id})
        /\ Cardinality(Known \cup {b.block_id})
               = IF b.block_id \in Known THEN Cardinality(Known) ELSE Cardinality(Known) + 1
    BY <1>3, FS_AddElement
  <2> QED BY <1>4, <2>1
<1>6. IsFiniteSet(Known') /\ Cardinality(Known') <= Cardinality(Known \cup {b.block_id})
  BY <1>1, <1>5, FS_Subset
<1>7. Cardinality(Known') \in Nat
  BY <1>6, FS_CardinalityType
<1>8. Cardinality(Known') <= m + 1
  BY <1>4, <1>5, <1>6, <1>7
<1>9. p_info' = Slot(m + 1)
  BY SlotFacts DEF Filled
<1> QED BY <1>8, <1>9 DEF Filled

\* No settled cell is touched by programming between the data and the blocks.
LEMMA KeepsProgram ==
    ASSUME Sized, IInv, IInv', NEW n \in Nat, Keeps(n), dirty \subseteq dirty', version' = version,
           \A id \in Settled' : acked'[id] = acked[id],
           NEW from \in Nat, NEW cells, NEW len \in Nat, Len(cells) = len,
           End(flash, n) <= from, from + len <= Slot(n) + BLK,
           flash' = Program(flash, from, cells), \A m \in 1 .. len : Stray(cells[m], dirty')
    PROVE  /\ Keeps(n)'
           /\ \A k \in 0 .. n : End(flash', k) = End(flash, k)
           /\ \A k \in 0 .. n - 1 : BlkAt(flash', k) = BlkAt(flash, k)
<1>1. PICK hi \in Int : hi = from + len
  OBVIOUS
<1>2. \A a \in Addr : ~(from <= a /\ a < hi) => flash'[a] = flash[a]
  BY <1>1, ProgramStray, Typed
<1>3. ASSUME NEW a \in Addr, a < Slot(n) + BLK
      PROVE  Stray(flash'[a], dirty')
  <2>1. Stray(flash[a], dirty)
    BY <1>3 DEF Keeps, Strays
  <2>2. Stray(flash[a], dirty')
    BY <2>1, StrayIs
  <2>3. flash \in [Addr -> Cell] /\ from \in Int
    BY Typed
  <2>4. Stray(Program(flash, from, cells)[a], dirty')
    BY <2>2, <2>3, ProgramStray
  <2> QED BY <2>4
<1>4. from \in Int /\ hi <= Slot(n) + BLK
  BY <1>1
<1> QED BY <1>1, <1>2, <1>3, <1>4, KeepsAfter
-----------------------------------------------------------------------------
(* The first fault *)

\* The table has no more variables than the flash has blocks.
LEMMA KnownBlocks ==
    ASSUME NEW n \in Nat, \A id \in Id : Newest(flash, n, id, table[id])
    PROVE  Cardinality(Known) <= n
<1>1. ASSUME NEW id \in Known
      PROVE  \E k \in 0 .. n - 1 : BlkAt(flash, k).block_id = id
  BY DEF Known, Newest, Last
<1> DEFINE names == [k \in 0 .. n - 1 |-> BlkAt(flash, k).block_id]
           Named == {names[k] : k \in 0 .. n - 1}
<1>2. names \in Surjection(0 .. n - 1, Named)
  BY DEF Surjection
<1>3. IsFiniteSet(0 .. n - 1) /\ Cardinality(0 .. n - 1) = n
  BY FS_Interval
<1>4. IsFiniteSet(Named) /\ Cardinality(Named) <= n
  BY <1>2, <1>3, FS_Surjection
<1>5. Known \subseteq Named
  BY <1>1
<1> HIDE DEF Named
<1>6. IsFiniteSet(Known) /\ Cardinality(Known) <= Cardinality(Named)
  BY <1>4, <1>5, FS_Subset
<1>7. Cardinality(Known) \in Nat /\ Cardinality(Named) \in Nat
  BY <1>4, <1>6, FS_CardinalityType
<1> QED BY <1>4, <1>6, <1>7

\* Up to the first fault everything is settled.
LEMMA LoadedKept ==
    ASSUME Sized, IInv, NEW n \in Nat, Chain(flash, n), Marked,
           \A id \in Id : Recorded(flash, n, id, acked[id]), Loaded(n), End(flash, n) <= p_data,
           Strays(Slot(n) + BLK)
    PROVE  KeptResting
<1>1. Base(flash, n, Settled)
  BY ChainBase
<1>2. Keeps(n)
  BY <1>1 DEF Keeps, Settled
<1>3. ASSUME NEW id \in Id, table[id] # Blank
      PROVE  Fitting(table[id]) /\ table[id].block_id = id
  <2>1. PICK k \in 0 .. n - 1 : Last(flash, n, id, k) /\ table[id] = BlkAt(flash, k)
    BY <1>3 DEF Loaded, Newest
  <2>2. Fitting(BlkAt(flash, k))
    BY <1>1, BasePlaces
  <2> QED BY <2>1, <2>2 DEF Last
<1>4. Table(n)
  BY <1>3 DEF Table, Loaded, Settled
<1>5. Filled(n)
  BY KnownBlocks DEF Loaded, Filled
<1>6. n <= n
  OBVIOUS
<1> QED BY <1>2, <1>4, <1>5, <1>6 DEF KeptResting

LEMMA RestingKept ==
    ASSUME Sized, IInv, Resting
    PROVE  KeptResting
<1>1. PICK n \in Nat : Complete(n) /\ Loaded(n) /\ p_data = End(flash, n)
  BY DEF Resting
<1>2. ASSUME NEW a \in Addr, a < Slot(n) + BLK
      PROVE  Stray(flash[a], dirty)
  <2>1. CASE a < End(flash, n)
    <3>1. a \in 0 .. End(flash, n) - 1
      BY <1>1, <2>1, Numbers DEF Addr
    <3> QED BY <1>1, <3>1, StrayIs DEF Complete, Chain
  <2>2. CASE ~(a < End(flash, n))
    <3>1. a \in End(flash, n) .. (Slot(n) + BLK) - 1
      BY <1>1, <1>2, <2>2, SlotFacts, Numbers, Geometry DEF Addr
    <3>2. flash[a] = Erased
      BY <1>1, <3>1 DEF Complete, Clear
    <3> QED BY <3>2, StrayIs
  <2> QED BY <2>1, <2>2
<1>3. Strays(Slot(n) + BLK) /\ End(flash, n) <= p_data
  BY <1>1, <1>2, Numbers DEF Strays
<1> QED BY <1>1, <1>3, LoadedKept DEF Complete

LEMMA HalfwayKept ==
    ASSUME Sized, IInv, Halfway
    PROVE  KeptResting /\ Fitting(block) /\ block.block_id = req.id
<1>1. PICK n \in Nat :
        /\ Chain(flash, n) /\ Marked
        /\ \A id \in Id : Recorded(flash, n, id, acked[id])
        /\ Loaded(n) /\ Half(n)
        /\ Clear(flash, p_data, Slot(n) + BLK)
        /\ block.block_id = req.id
  BY DEF Halfway
<1>2. Fitting(block) /\ Sound(block)
  BY <1>1, FittingIs DEF Half
<1>3. PICK e \in Nat, len \in Nat : e = End(flash, n) /\ len = block.length /\ p_data = e + len
  BY <1>1, <1>2, FittingIs, ChainPlaces DEF Half
<1>4. ASSUME NEW a \in Addr, a < Slot(n) + BLK
      PROVE  Stray(flash[a], dirty)
  <2>1. CASE a < e
    <3>1. a \in 0 .. End(flash, n) - 1
      BY <1>3, <2>1 DEF Addr
    <3> QED BY <1>1, <3>1, StrayIs DEF Chain
  <2>2. CASE e <= a /\ a < p_data
    <3>1. PICK m \in 1 .. block.length : a = block.data_addr + m - 1
      <4>1. a - e + 1 \in 1 .. len /\ a = e + (a - e + 1) - 1
        BY <1>3, <2>2 DEF Addr
      <4> QED BY <1>1, <1>3, <4>1 DEF Half
    <3>2. Plain(flash[a])
      BY <1>1, <1>2, <3>1 DEF Half, Holds, Sound
    <3> QED BY <3>2, StrayIs
  <2>3. CASE ~(a < p_data)
    <3>1. a \in p_data .. (Slot(n) + BLK) - 1
      BY <1>4, <2>3, SlotFacts, Numbers, Geometry DEF Addr
    <3>2. flash[a] = Erased
      BY <1>1, <3>1 DEF Clear
    <3> QED BY <3>2, StrayIs
  <2> QED BY <1>3, <2>1, <2>2, <2>3 DEF Addr
<1>5. Strays(Slot(n) + BLK) /\ End(flash, n) <= p_data
  BY <1>3, <1>4 DEF Strays
<1> QED BY <1>1, <1>2, <1>5, LoadedKept

-----------------------------------------------------------------------------
(* Configuration after a fault *)

LEMMA ConfigKept ==
    ASSUME Sized, IInv, IInv', FaultInv, NEW v \in Version, Config(v)
    PROVE  FaultInv'
<1>1. /\ p_data' = 0 /\ p_info' = FirstInfo /\ table' = [id \in Id |-> Blank]
      /\ UNCHANGED <<flash, req, acked, dirty>> /\ KeptOff /\ req = NoReq /\ version' = v
  BY DEF Config, ResetPointers, hist, FaultInv, Ask
<1>2. Ask' /\ Late'
  BY <1>1 DEF Ask, Late
<1>3. CASE SlotHolds(FirstInfo + BLK, VersionBlk(v))
  <2>1. pc' = "cfg_scan"
    BY <1>3 DEF Config
  <2>2. flash[FirstInfo + BLK].kind = "info"
    <3>1. ReadCells(flash, FirstInfo + BLK, BLK)[1] = InfoCells(VersionBlk(v))[1]
      BY <1>3 DEF SlotHolds
    <3>2. 1 \in 1 .. BLK /\ FirstInfo + BLK + 1 - 1 = FirstInfo + BLK /\ FirstInfo + BLK \in DOMAIN flash
      BY Geometry, AddrIs, Typed
    <3> QED BY <3>1, <3>2, InfoIs DEF ReadCells, InfoCells
  <2>3. PICK n \in Nat : Keeps(n)
    BY <1>1, <2>2 DEF KeptOff
  <2>4. version' = version
    BY <1>1, <1>3, <2>3, MarkedIs DEF Keeps
  <2>5. Keeps(n)'
    BY <1>1, <2>3, <2>4, KeepsStill
  <2>6. Table(0)'
    BY <1>1, NewestNone DEF Table, Settled
  <2>7. Filled(0)'
    <3>1. Known' = {}
      BY <1>1 DEF Known
    <3>2. Cardinality(Known') = 0
      BY <3>1, FS_EmptySet
    <3> QED BY <1>1, <3>2, SlotFacts DEF Filled
  <2>8. End(flash', 0) = 0
    BY DEF End
  <2>9. \/ 0 < n /\ 0 = 0 /\ p_data' = End(flash', 0)
        \/ 0 = n /\ n <= 0 /\ End(flash', n) <= p_data'
    BY <1>1, <2>8
  <2>10. KeptScanning'
    <3>1. 0 \in Nat /\ 0 <= n
      OBVIOUS
    <3> QED BY <2>5, <2>6, <2>7, <2>9, <3>1 DEF KeptScanning
  <2> QED BY <1>2, <2>1, <2>10 DEF FaultInv
<1>4. CASE ~SlotHolds(FirstInfo + BLK, VersionBlk(v))
  <2>1. pc' = "cfg_erase"
    BY <1>4 DEF Config
  <2>2. Reset'
    BY <1>1 DEF Reset
  <2> QED BY <1>2, <2>1, <2>2 DEF FaultInv
<1> QED BY <1>3, <1>4

LEMMA ConfigEraseKept ==
    ASSUME Sized, IInv, IInv', FaultInv, ConfigErase
    PROVE  FaultInv'
<1>1. pc = "cfg_erase" /\ pc' = "cfg_info" /\ UNCHANGED <<req, dirty>>
  BY DEF ConfigErase
<1>2. StoreInv
  BY <1>1 DEF FaultInv, StoreInv
<1>3. StoreInv'
  BY <1>2, ConfigEraseStore
<1>4. Late'
  BY <1>1 DEF FaultInv, Late
<1> QED BY <1>1, <1>3, <1>4 DEF FaultInv, StoreInv

LEMMA ConfigInfoKept ==
    ASSUME Sized, IInv, IInv', FaultInv, ConfigInfo
    PROVE  FaultInv'
<1>1. /\ flash' = Program(flash, AreaSize - BLK, InfoCells(VersionBlk(version))) /\ pc' = "idle"
      /\ UNCHANGED <<version, p_data, p_info, table, req, acked, dirty>> /\ Wiped /\ req = NoReq
  BY DEF ConfigInfo, area, hist, FaultInv, Ask
<1>2. Clear(flash, FirstInfo + BLK, AreaSize)
  BY <1>1, Geometry DEF Wiped, Clear
<1>3. Marked' /\ \A a \in Addr : a < FirstInfo + BLK => flash'[a] = flash[a]
  BY <1>1, <1>2, VersionWritten
<1>4. Chain(flash', 0) /\ End(flash', 0) = 0 /\ Slot(0) = FirstInfo
  BY EmptyArea, TypedNext
<1>5. ASSUME NEW a \in Addr, a < FirstInfo + BLK
      PROVE  Stray(flash'[a], dirty')
  <2>1. a \in 0 .. AreaSize - 1
    BY DEF Addr
  <2>2. flash'[a] = Erased
    BY <1>1, <1>3, <1>5, <2>1 DEF Wiped, Clear
  <2> QED BY <2>2, StrayIs
<1>6. Base(flash', 0, Settled')
  BY <1>4, ChainBase
<1>7. \A id \in Id : /\ Recorded(flash', 0, id, acked'[id])
                     /\ Newest(flash', 0, id, table'[id])
                     /\ table'[id] = Blank
  BY <1>1, NewestNone DEF Wiped, Reset, Empty
<1>8. Keeps(0)'
  BY <1>3, <1>4, <1>5, <1>6, <1>7 DEF Keeps, Settled, Strays
<1>9. Table(0)'
  BY <1>7 DEF Table, Settled
<1>10. Filled(0)'
  <2>1. Known' = {}
    BY <1>7 DEF Known
  <2>2. Cardinality(Known') = 0
    BY <2>1, FS_EmptySet
  <2> QED BY <1>1, <1>4, <2>2 DEF Filled, Wiped, Reset
<1>11. End(flash', 0) <= p_data'
  BY <1>1, <1>4 DEF Wiped, Reset
<1>12. KeptResting'
  <2>1. 0 \in Nat /\ 0 <= 0
    OBVIOUS
  <2> QED BY <1>8, <1>9, <1>10, <1>11, <2>1 DEF KeptResting
<1>13. Ask' /\ Late'
  BY <1>1 DEF Ask, Late
<1> QED BY <1>1, <1>12, <1>13 DEF FaultInv

LEMMA ScanEndKept ==
    ASSUME Sized, IInv, IInv', FaultInv, ScanEnd
    PROVE  FaultInv'
<1>1. /\ pc' = "idle" /\ UNCHANGED <<flash, version, p_data, p_info, table, req, acked, dirty>>
      /\ SlotErased(p_info) /\ KeptScanning /\ req = NoReq
  BY DEF ScanEnd, area, hist, FaultInv, Ask
<1>2. PICK n \in Nat, q \in Nat, m \in Nat :
        /\ q <= n /\ Keeps(n) /\ Table(q) /\ Filled(m)
        /\ \/ q < n /\ m = q /\ p_data = End(flash, q)
           \/ q = n /\ n <= m /\ End(flash, n) <= p_data
  BY <1>1 DEF KeptScanning
<1>3. q = n
  <2> SUFFICES ASSUME q \in 0 .. n - 1, m = q PROVE FALSE
    BY <1>2
  <2>1. flash[Slot(q) + 1 - 1] = InfoCell(BlkAt(flash, q), 1)
    BY <1>2, Geometry DEF Keeps, Base, Intact
  <2>2. Slot(q) + 1 - 1 = p_info
    BY <1>2, SlotFacts DEF Filled
  <2> QED BY <1>1, <2>1, <2>2, InfoIs DEF SlotErased
<1>4. Keeps(n)' /\ Table(n)' /\ Filled(m)' /\ End(flash', n) <= p_data' /\ n <= m
  BY <1>1, <1>2, <1>3, KeepsStill, TableStill, FilledStill
<1>5. KeptResting' /\ Ask' /\ Late'
  BY <1>1, <1>4 DEF KeptResting, Ask, Late
<1> QED BY <1>1, <1>5 DEF FaultInv

\* The scan takes a block of the n, with the data where the pointer says.
LEMMA ScanKept ==
    ASSUME Sized, IInv, NEW n \in Nat, NEW q \in Nat, q < n, Keeps(n), Filled(q),
           p_data = End(flash, q)
    PROVE  /\ SlotBlock(p_info) = BlkAt(flash, q) /\ Fitting(BlkAt(flash, q))
           /\ End(flash, q + 1) = p_data + BlkAt(flash, q).length
           /\ q + 1 < n /\ (\A len \in Lengths : BLK <= len) =>
                 remain_size - (BlkAt(flash, q).length + BLK) >= 2 * BLK
<1>1. Base(flash, n, Settled) /\ p_info = Slot(q)
  BY DEF Keeps, Filled
<1>2. End(flash, n) \in Nat /\ End(flash, n) <= Slot(n) /\ Slot(n) \in Nat
  BY <1>1, BasePlaces
<1>3. /\ Fitting(BlkAt(flash, q)) /\ End(flash, q + 1) = End(flash, q) + BlkAt(flash, q).length
      /\ End(flash, q + 1) <= End(flash, n) /\ End(flash, q) \in Nat
  BY <1>1, BasePlaces
<1>4. SlotBlock(p_info) = BlkAt(flash, q)
  BY <1>1 DEF SlotBlock, BlkAt
<1>5. PICK len \in Nat : len = BlkAt(flash, q).length
  BY <1>3, FittingIs
<1>6. remain_size = Slot(q) - End(flash, q)
  BY <1>1, Typed
<1>7. ASSUME q + 1 < n, \A l \in Lengths : BLK <= l
      PROVE  remain_size - (len + BLK) >= 2 * BLK
  <2>1. q + 1 \in 0 .. n - 1
    BY <1>7
  <2>2. /\ Fitting(BlkAt(flash, q + 1)) /\ End(flash, q + 1) \in Nat
        /\ End(flash, (q + 1) + 1) = End(flash, q + 1) + BlkAt(flash, q + 1).length
        /\ End(flash, (q + 1) + 1) <= End(flash, n) /\ Slot(n) + BLK <= Slot(q + 1)
    BY <1>1, <2>1, BasePlaces
  <2>3. BLK <= BlkAt(flash, q + 1).length /\ BlkAt(flash, q + 1).length \in Nat
    BY <1>7, <2>2, FittingIs DEF Fitting
  <2>4. Slot(q + 1) = Slot(q) - BLK /\ Slot(q) \in Int
    BY SlotFacts
  <2> QED BY <1>2, <1>3, <1>5, <1>6, <2>2, <2>3, <2>4, Geometry
<1> QED BY <1>3, <1>4, <1>5, <1>7

LEMMA ScanBlockKept ==
    ASSUME Sized, Careful \/ ~GoesOn, IInv, IInv', FaultInv, ScanBlock
    PROVE  FaultInv'
<1>1. /\ UNCHANGED <<flash, version, req, acked, dirty>>
      /\ ~SlotErased(p_info) /\ ~SlotTorn(p_info) /\ KeptScanning /\ req = NoReq
  BY DEF ScanBlock, SlotWhole, hist, FaultInv, Ask
<1>2. PICK b : b = SlotBlock(p_info)
  OBVIOUS
<1>3. b.block_id \in Id /\ TableRoom(b.block_id)
  BY <1>2, TableHasRoom DEF ScanBlock, SlotWhole
<1>4. /\ table' = TableUpdate(b) /\ p_data' = p_data + b.length /\ p_info' = p_info - BLK
      /\ remain_size' = remain_size - (b.length + BLK)
      /\ \/ pc' = "cfg_scan"
         \/ pc' = "off"
         \/ pc' = "idle" /\ ~Heeds /\ GoesOn /\ remain_size' < 2 * BLK
  BY <1>2, <1>3 DEF ScanBlock, ScanAdvance, Refuse, Return, GoesOn
<1>5. PICK n \in Nat, q \in Nat, m \in Nat :
        /\ q <= n /\ Keeps(n) /\ Table(q) /\ Filled(m)
        /\ \/ q < n /\ m = q /\ p_data = End(flash, q)
           \/ q = n /\ n <= m /\ End(flash, n) <= p_data
  BY <1>1 DEF KeptScanning
<1>6. Keeps(n)' /\ Filled(m + 1)'
  BY <1>1, <1>3, <1>4, <1>5, KeepsStill, FilledGrows
<1>7. Ask' /\ Late' /\ KeptOff'
  BY <1>1, <1>6 DEF Ask, Late, KeptOff
<1>8. CASE q < n
  <2>1. /\ b = BlkAt(flash, q) /\ Fitting(b) /\ End(flash, q + 1) = p_data + b.length
        /\ q + 1 < n /\ (\A len \in Lengths : BLK <= len) =>
              remain_size - (b.length + BLK) >= 2 * BLK
    BY <1>2, <1>5, <1>8, ScanKept
  <2>2. p_data' = End(flash', q + 1) /\ m = q
    BY <1>1, <1>4, <1>5, <1>8, <2>1
  <2>3. Table(q + 1)'
    <3>1. \A id \in Id : table'[id] = IF b.block_id = id THEN b ELSE table[id]
      BY <1>3, <1>4, Typed DEF TableUpdate
    <3>2. ASSUME NEW id \in Settled'
          PROVE  Newest(flash', q + 1, id, table'[id])
      <4>1. Newest(flash', q, id, table[id]) /\ b = BlkAt(flash', q) /\ id \in Id
        BY <1>1, <1>5, <2>1 DEF Table, Settled
      <4> QED BY <3>1, <4>1, NewestGrows
    <3>3. ASSUME NEW id \in Id, table'[id] # Blank
          PROVE  Fitting(table'[id]) /\ table'[id].block_id = id
      BY <1>5, <2>1, <3>1, <3>3 DEF Table
    <3> QED BY <3>2, <3>3 DEF Table
  <2>4. CASE q + 1 < n
    <3>1. pc' = "cfg_scan" \/ pc' = "off"
      <4>1. SUFFICES ASSUME ~Heeds, GoesOn, remain_size' < 2 * BLK PROVE FALSE
        BY <1>4
      <4>2. \A len \in Lengths : BLK <= len
        BY <4>1 DEF Careful
      <4>3. remain_size' = remain_size - (b.length + BLK) /\ remain_size' \in Int
        BY <1>4, TypedNext
      <4> QED BY <4>1, <4>2, <4>3, <2>1, <2>4, Geometry
    <3>2. q + 1 \in Nat /\ q + 1 <= n
      BY <1>8
    <3>3. KeptScanning'
      BY <1>6, <2>2, <2>3, <2>4, <3>2 DEF KeptScanning
    <3> QED BY <1>7, <3>1, <3>3 DEF FaultInv
  <2>5. CASE ~(q + 1 < n)
    <3>1. q + 1 = n /\ n <= n
      BY <1>8, <2>5
    <3>2. End(flash', n) <= p_data'
      BY <2>2, <3>1, TypedNext
    <3>3. Table(n)' /\ Filled(n)'
      BY <1>6, <2>2, <2>3, <3>1
    <3>4. KeptScanning' /\ KeptResting'
      BY <1>6, <3>1, <3>2, <3>3 DEF KeptScanning, KeptResting
    <3> QED BY <1>4, <1>7, <3>4 DEF FaultInv
  <2> QED BY <2>4, <2>5
<1>9. CASE ~(q < n)
  <2>1. q = n /\ n <= m /\ End(flash, n) <= p_data
    BY <1>5, <1>9
  <2>2. Fitting(b) /\ b.block_id \in dirty
    <3>1. p_info = Slot(m) /\ Slot(m) \in Int /\ Slot(n) \in Int /\ Slot(m) <= Slot(n)
      <4>1. m = n \/ n < m
        BY <2>1
      <4> QED BY <1>5, <4>1, SlotFacts, SlotOrder, Geometry DEF Filled
    <3>2. p_info \in Addr /\ p_info < Slot(n) + BLK
      BY <3>1, Numbers, Geometry DEF Addr
    <3>3. Stray(flash[p_info], dirty)
      BY <1>5, <3>2 DEF Keeps, Strays
    <3>4. flash[p_info].kind = "info"
      BY <1>1 DEF SlotTorn
    <3> QED BY <1>2, <3>3, <3>4 DEF Stray, SlotBlock
  <2>3. Table(n)'
    <3>1. \A k \in 0 .. n - 1 : BlkAt(flash', k) = BlkAt(flash, k)
      BY <1>1
    <3> QED BY <1>1, <1>4, <1>5, <2>1, <2>2, <3>1, TableTakes
  <2>4. End(flash', n) <= p_data'
    <3>1. b.length \in Nat
      BY <2>2, FittingIs
    <3>2. PICK e \in Nat : e = End(flash, n)
      BY <1>5, BasePlaces DEF Keeps
    <3> QED BY <1>1, <1>4, <2>1, <3>1, <3>2, Typed
  <2>5. m + 1 \in Nat /\ n <= m + 1 /\ n <= n
    BY <2>1
  <2>6. KeptScanning' /\ KeptResting'
    BY <1>6, <2>3, <2>4, <2>5 DEF KeptScanning, KeptResting
  <2> QED BY <1>4, <1>7, <2>6 DEF FaultInv
<1> QED BY <1>8, <1>9

-----------------------------------------------------------------------------
(* e2p_write after a fault, and further faults *)

\* There is less that is settled.
LEMMA KeepsLess ==
    ASSUME Sized, IInv, IInv', NEW n \in Nat, Keeps(n), dirty \subseteq dirty',
           UNCHANGED <<flash, version, acked>>
    PROVE  Keeps(n)'
<1>1. PICK e \in Int : e = End(flash, n) /\ e <= Slot(n) + BLK
  <2>1. End(flash, n) \in Nat /\ End(flash, n) <= Slot(n) /\ Slot(n) \in Nat
    BY BasePlaces DEF Keeps
  <2> QED BY <2>1, Geometry
<1>2. ASSUME NEW a \in Addr, a < Slot(n) + BLK
      PROVE  Stray(flash'[a], dirty')
  <2>1. Stray(flash[a], dirty)
    BY <1>2 DEF Keeps, Strays
  <2> QED BY <2>1, StrayIs
<1>3. End(flash, n) <= e
  BY <1>1
<1>4. \A id \in Settled' : acked'[id] = acked[id]
  OBVIOUS
<1>5. \A a \in Addr : ~(e <= a /\ a < e) => flash'[a] = flash[a]
  OBVIOUS
<1>6. version' = version
  OBVIOUS
<1> QED BY <1>1, <1>2, <1>3, <1>4, <1>5, <1>6, KeepsAfter

LEMMA WriteKept ==
    ASSUME Sized, IInv, IInv', FaultInv, faults > 0,
           NEW id \in Id, NEW v \in Val, NEW len \in Lengths, Write(id, Payload(v, len))
    PROVE  FaultInv'
<1>1. /\ pc' \in {"wr_data", "fl_start"} /\ req' = [id |-> id, cells |-> Payload(v, len)]
      /\ UNCHANGED <<flash, version, p_data, p_info, table, acked>> /\ KeptResting
      /\ dirty' = dirty \cup {id}
  BY DEF Write, area, FaultInv
<1>2. len \in Nat
  BY E2PAssumption
<1>3. Len(Payload(v, len)) = len /\ \A m \in 1 .. len : Plain(Payload(v, len)[m])
  BY <1>2 DEF Payload, Plain, DataCell
<1>4. Ask' /\ Late'
  BY <1>1, <1>3 DEF Ask, Late
<1>5. PICK n \in Nat, m \in Nat :
          n <= m /\ Keeps(n) /\ Table(n) /\ Filled(m) /\ End(flash, n) <= p_data
  BY <1>1 DEF KeptResting
<1>6. Keeps(n)' /\ Filled(m)'
  BY <1>1, <1>5, KeepsLess, FilledStill
<1>7. Table(n)'
  BY <1>1, <1>5, TableSame
<1>8. KeptResting'
  BY <1>1, <1>5, <1>6, <1>7 DEF KeptResting
<1> QED BY <1>1, <1>4, <1>8 DEF FaultInv

\* Where the next data and the next block go: behind all that is kept.
LEMMA RestingRoom ==
    ASSUME Sized, IInv, NEW n \in Nat, NEW m \in Nat, n <= m, Keeps(n), Filled(m),
           End(flash, n) <= p_data
    PROVE  /\ End(flash, n) \in Nat /\ Slot(n) \in Nat /\ p_info <= Slot(n) /\ End(flash, n) <= p_info
<1>1. End(flash, n) \in Nat /\ Slot(n) \in Nat
  BY BasePlaces DEF Keeps
<1>2. Slot(m) <= Slot(n)
  <2>1. m = n \/ n < m
    OBVIOUS
  <2>2. Slot(m) \in Int
    BY SlotFacts
  <2> QED BY <1>1, <2>1, <2>2, SlotOrder, Geometry
<1> QED BY <1>1, <1>2, Numbers DEF Filled

LEMMA WriteDataKept ==
    ASSUME Sized, IInv, IInv', FaultInv, WriteData
    PROVE  FaultInv'
<1>1. /\ pc' = "wr_info" /\ UNCHANGED <<version, table, req, acked, dirty>> /\ KeptResting
      /\ PrivateData(req.id, req.cells) /\ req # NoReq /\ Ask /\ PrivateFits(Len(req.cells))
  BY DEF WriteData, hist, FaultInv, IInv, FlowOK
<1>2. PICK n \in Nat, m \in Nat :
          n <= m /\ Keeps(n) /\ Table(n) /\ Filled(m) /\ End(flash, n) <= p_data
  BY <1>1 DEF KeptResting
<1>3. PICK len \in Nat : len = Len(req.cells) /\ len \in Lengths
  BY <1>1, E2PAssumption DEF Ask
<1>4. req.id \in Id /\ \A k \in 1 .. len : Plain(req.cells[k])
  BY <1>1, <1>3 DEF Ask
<1>5. /\ block' = Block(req.id, p_data, len, Crc(req.cells)) /\ flash' = Program(flash, p_data, req.cells)
      /\ p_data' = p_data + len /\ p_info' = p_info
  BY <1>1, <1>3 DEF PrivateData
<1>6. /\ End(flash, n) \in Nat /\ Slot(n) \in Nat /\ p_info <= Slot(n)
  BY <1>2, RestingRoom
<1>7. p_data + len <= Slot(n) + BLK /\ p_data \in Nat
  <2>1. remain_size >= len + BLK
    BY <1>1, <1>3 DEF PrivateFits
  <2>2. PICK x \in Int, y \in Nat : x = Slot(n) /\ y = p_info /\ y <= x
    BY <1>6, Typed
  <2>3. remain_size = y - p_data /\ p_data \in Nat
    BY <2>2, Typed
  <2>4. p_data + len <= x + BLK
    BY <2>1, <2>2, <2>3, Geometry
  <2> QED BY <2>2, <2>3, <2>4
<1>8. /\ Keeps(n)'
      /\ \A k \in 0 .. n : End(flash', k) = End(flash, k)
      /\ \A k \in 0 .. n - 1 : BlkAt(flash', k) = BlkAt(flash, k)
  <2>1. \A k \in 1 .. len : Stray(req.cells[k], dirty')
    BY <1>4, StrayIs
  <2>2. \A id \in Settled' : acked'[id] = acked[id]
    BY <1>1
  <2>3. dirty \subseteq dirty' /\ version' = version /\ Len(req.cells) = len
    BY <1>1, <1>3
  <2> QED BY <1>2, <1>5, <1>7, <2>1, <2>2, <2>3, KeepsProgram
<1>9. Table(n)' /\ Filled(m)'
  BY <1>1, <1>2, <1>5, <1>8, TableSame, FilledStill
<1>10. End(flash', n) <= p_data'
  <2>1. End(flash', n) = End(flash, n)
    BY <1>8
  <2> QED BY <1>2, <1>5, <1>6, <1>7, <2>1
<1>11. KeptResting'
  BY <1>2, <1>8, <1>9, <1>10 DEF KeptResting
<1>12. Fitting(block') /\ block'.block_id = req.id
  <2>1. block'.block_id = req.id /\ block'.length = len
    BY <1>5 DEF Block
  <2> QED BY <1>3, <1>4, <2>1, TypedNext DEF Fitting
<1>13. Ask' /\ Late'
  BY <1>1 DEF Ask, Late, FaultInv
<1> QED BY <1>1, <1>11, <1>12, <1>13 DEF FaultInv

LEMMA WriteInfoKept ==
    ASSUME Sized, IInv, IInv', FaultInv, WriteInfo
    PROVE  FaultInv'
<1>1. /\ pc' = "idle" /\ version' = version /\ dirty' = dirty /\ PrivateInfo /\ req' = NoReq
      /\ KeptResting /\ Fitting(block) /\ block.block_id = req.id
  BY DEF WriteInfo, FaultInv
<1>2. req.id \in Id /\ req.id \in dirty
  <2>1. req.id \in Id
    BY <1>1 DEF Fitting
  <2>2. req # NoReq
    BY <2>1, E2PAssumption DEF NoReq
  <2> QED BY <2>1, <2>2 DEF FaultInv, Late
<1>3. \A id \in Settled' : acked'[id] = acked[id]
  <2>1. acked' = [acked EXCEPT ![req.id] = req.cells] \/ acked' = acked
    BY DEF WriteInfo
  <2>2. \A id \in Settled' : id \in Id /\ id # req.id
    BY <1>1, <1>2 DEF Settled
  <2> QED BY <2>1, <2>2, Typed
<1>4. PICK n \in Nat, m \in Nat :
          n <= m /\ Keeps(n) /\ Table(n) /\ Filled(m) /\ End(flash, n) <= p_data
  BY <1>1 DEF KeptResting
<1>5. /\ flash' = Program(flash, p_info, InfoCells(block)) /\ p_info' = p_info - BLK
      /\ p_data' = p_data /\ table' = TableUpdate(block)
  BY <1>1, <1>2, TableHasRoom DEF PrivateInfo
<1>6. /\ End(flash, n) \in Nat /\ Slot(n) \in Nat /\ p_info <= Slot(n) /\ End(flash, n) <= p_info
  BY <1>4, RestingRoom
<1>7. Len(InfoCells(block)) = BLK /\ \A k \in 1 .. BLK : InfoCells(block)[k] = InfoCell(block, k)
  BY <1>1, InfoCellsType DEF Fitting, InfoCells
<1>8. /\ Keeps(n)'
      /\ \A k \in 0 .. n : End(flash', k) = End(flash, k)
      /\ \A k \in 0 .. n - 1 : BlkAt(flash', k) = BlkAt(flash, k)
  <2>1. \A k \in 1 .. BLK : Stray(InfoCells(block)[k], dirty')
    BY <1>1, <1>2, <1>7, StrayIs
  <2>2. p_info + BLK <= Slot(n) + BLK /\ p_info \in Nat /\ BLK \in Nat
    BY <1>6, Numbers, Geometry
  <2>3. dirty \subseteq dirty'
    BY <1>1
  <2> QED BY <1>1, <1>3, <1>4, <1>5, <1>6, <1>7, <2>1, <2>2, <2>3, KeepsProgram
<1>9. Table(n)'
  <2>1. block.block_id \in dirty' /\ dirty \subseteq dirty'
    BY <1>1, <1>2
  <2> QED BY <1>1, <1>4, <1>5, <1>8, <2>1, TableTakes
<1>10. Filled(m + 1)'
  BY <1>1, <1>2, <1>4, <1>5, FilledGrows
<1>11. End(flash', n) <= p_data' /\ m + 1 \in Nat /\ n <= m + 1
  <2>1. End(flash', n) = End(flash, n)
    BY <1>8
  <2> QED BY <1>4, <1>5, <2>1
<1>12. KeptResting'
  BY <1>8, <1>9, <1>10, <1>11 DEF KeptResting
<1>13. Ask' /\ Late'
  BY <1>1 DEF Ask, Late
<1> QED BY <1>1, <1>12, <1>13 DEF FaultInv

LEMMA QuietKept ==
    ASSUME Sized, IInv, IInv', FaultInv, FlushTry \/ FlushBegin \/ Restart
    PROVE  FaultInv'
<1>1. /\ pc' \in {"idle", "fl_start", "off"} /\ KeptResting /\ req = NoReq
      /\ UNCHANGED <<flash, version, p_data, p_info, table, req, acked, dirty>>
  BY DEF FlushTry, FlushBegin, Restart, area, hist, FaultInv, Ask
<1>2. PICK n \in Nat, m \in Nat :
          n <= m /\ Keeps(n) /\ Table(n) /\ Filled(m) /\ End(flash, n) <= p_data
  BY <1>1 DEF KeptResting
<1>3. Keeps(n)' /\ Table(n)' /\ Filled(m)' /\ End(flash', n) <= p_data'
  BY <1>1, <1>2, KeepsStill, TableStill, FilledStill
<1>4. KeptResting' /\ KeptOff' /\ Ask' /\ Late'
  BY <1>1, <1>2, <1>3 DEF KeptResting, KeptOff, Ask, Late
<1> QED BY <1>1, <1>4 DEF FaultInv

LEMMA FormatKept ==
    ASSUME Sized, IInv, IInv', FaultInv, Format
    PROVE  FaultInv'
<1>1. pc' = "off" /\ flash' = EraseRange(flash, 0, AreaSize) /\ req' = req /\ req = NoReq
  BY DEF Format, FaultInv, Ask
<1>2. flash'[FirstInfo + BLK] = Erased
  <2>1. PICK x \in Addr : x = FirstInfo + BLK
    BY AddrIs
  <2>2. 0 <= x /\ x < 0 + AreaSize /\ AreaSize \in Int
    BY <2>1, AddrIs, Geometry
  <2>3. flash \in [Addr -> Cell] /\ 0 \in Int
    BY Typed
  <2>4. EraseRange(flash, 0, AreaSize)[x] = Erased
    BY ONLY <2>1, <2>2, <2>3, EraseIs
  <2> QED BY <1>1, <2>1, <2>4
<1>3. KeptOff'
  BY <1>2 DEF KeptOff, Erased
<1>4. Ask' /\ Late'
  BY <1>1 DEF Ask, Late
<1> QED BY <1>1, <1>3, <1>4 DEF FaultInv

\* A write is broken off: its variable is no longer settled.
LEMMA FaultKept ==
    ASSUME Sized, IInv, IInv', KeptResting, Ask, pc \in {"wr_data", "wr_info"}, Fault,
           pc = "wr_info" => Fitting(block) /\ block.block_id = req.id,
           UNCHANGED <<version, p_data, p_info, table, acked>>
    PROVE  KeptResting' /\ KeptOff' /\ Late' /\ req' = NoReq
<1>1. PICK k \in 0 .. CallLen : flash' = TornFlash(k)
  BY DEF Fault
<1>2. dirty' = dirty \cup {req.id} /\ req' = NoReq
  BY DEF Fault
<1>3. PICK n \in Nat, m \in Nat :
          n <= m /\ Keeps(n) /\ Table(n) /\ Filled(m) /\ End(flash, n) <= p_data
  BY DEF KeptResting
<1>4. /\ End(flash, n) \in Nat /\ Slot(n) \in Nat /\ p_info <= Slot(n) /\ End(flash, n) <= p_info
  BY <1>3, RestingRoom
<1> DEFINE Torn(from, cells, len) ==
               /\ Len(cells) = len /\ flash' = Program(flash, from, cells)
               /\ End(flash, n) <= from /\ from + len <= Slot(n) + BLK
               /\ \A x \in 1 .. len : Stray(cells[x], dirty')
<1>5. \E from \in Nat, len \in Nat : \E cells : Torn(from, cells, len)
  <2>1. CASE pc = "wr_data"
    <3>1. /\ flash' = Program(flash, p_data, SubSeq(req.cells, 1, k)) /\ CallLen = Len(req.cells)
          /\ req # NoReq /\ PrivateFits(Len(req.cells))
      BY <1>1, <2>1 DEF TornFlash, CallLen, IInv, FlowOK
    <3>2. PICK len \in Nat : len = Len(req.cells)
      BY <3>1, E2PAssumption DEF Ask
    <3>3. PICK cells \in Seq(Cell) : cells = req.cells
      BY ReqType DEF IInv
    <3>4. k \in Nat /\ k <= len
      BY <1>1, <3>1, <3>2
    <3>5. Len(SubSeq(cells, 1, k)) = k /\ \A x \in 1 .. k : SubSeq(cells, 1, k)[x] = cells[x]
      BY <3>2, <3>3, <3>4
    <3>6. \A x \in 1 .. k : Stray(SubSeq(cells, 1, k)[x], dirty')
      <4>1. \A x \in 1 .. k : Plain(cells[x])
        BY <3>1, <3>2, <3>3, <3>4 DEF Ask
      <4> QED BY <3>5, <4>1, StrayIs
    <3>7. p_data + k <= Slot(n) + BLK /\ p_data \in Nat
      <4>1. remain_size >= len + BLK
        BY <3>1, <3>2 DEF PrivateFits
      <4>2. PICK x \in Int, y \in Nat : x = Slot(n) /\ y = p_info /\ y <= x
        BY <1>4, Typed
      <4>3. remain_size = y - p_data /\ p_data \in Nat
        BY <4>2, Typed
      <4>4. p_data + k <= x + BLK
        BY <3>2, <3>4, <4>1, <4>2, <4>3, Geometry
      <4> QED BY <4>2, <4>3, <4>4
    <3>8. Torn(p_data, SubSeq(cells, 1, k), k)
      BY <1>3, <3>1, <3>3, <3>5, <3>6, <3>7
    <3> HIDE DEF Torn
    <3> QED BY <3>4, <3>7, <3>8
  <2>2. CASE pc = "wr_info"
    <3>1. flash' = Program(flash, p_info, SubSeq(InfoCells(block), 1, k)) /\ CallLen = BLK
      BY <1>1, <2>2 DEF TornFlash, CallLen
    <3>2. PICK cells \in Seq(Cell) :
              /\ cells = InfoCells(block) /\ Len(cells) = BLK
              /\ \A x \in 1 .. BLK : cells[x] = InfoCell(block, x)
      BY <2>2, InfoCellsType DEF Fitting, InfoCells
    <3>3. k \in Nat /\ k <= BLK
      BY <1>1, <3>1, Geometry
    <3>4. Len(SubSeq(cells, 1, k)) = k /\ \A x \in 1 .. k : SubSeq(cells, 1, k)[x] = cells[x]
      BY <3>2, <3>3, Geometry
    <3>5. \A x \in 1 .. k : Stray(SubSeq(cells, 1, k)[x], dirty')
      <4>1. Fitting(block) /\ block.block_id \in dirty'
        BY <1>2, <2>2
      <4>2. \A x \in 1 .. k : x \in 1 .. BLK
        BY <3>3, Geometry
      <4> QED BY <3>2, <3>4, <4>1, <4>2, StrayIs
    <3>6. p_info + k <= Slot(n) + BLK /\ p_info \in Nat
      BY <1>4, <3>3, Numbers, Geometry
    <3>7. Torn(p_info, SubSeq(cells, 1, k), k)
      BY <1>4, <3>1, <3>2, <3>4, <3>5, <3>6
    <3> HIDE DEF Torn
    <3> QED BY <3>3, <3>6, <3>7
  <2> QED BY <2>1, <2>2
<1>6. /\ Keeps(n)'
      /\ \A x \in 0 .. n : End(flash', x) = End(flash, x)
      /\ \A x \in 0 .. n - 1 : BlkAt(flash', x) = BlkAt(flash, x)
  <2>1. \A id \in Settled' : acked'[id] = acked[id]
    OBVIOUS
  <2>2. dirty \subseteq dirty' /\ version' = version
    BY <1>2
  <2>3. PICK from \in Nat, len \in Nat : \E cells : Torn(from, cells, len)
    BY <1>5
  <2> QED BY <1>3, <2>1, <2>2, <2>3, KeepsProgram
<1>7. Table(n)' /\ Filled(m)' /\ End(flash', n) <= p_data'
  BY <1>2, <1>3, <1>6, TableSame, FilledStill
<1>8. KeptResting' /\ KeptOff' /\ Late'
  BY <1>2, <1>3, <1>6, <1>7 DEF KeptResting, KeptOff, Late
<1> QED BY <1>2, <1>8

-----------------------------------------------------------------------------
(* The start of e2p_flush after a fault *)

\* At rest the table describes what is settled and finds it on the flash.
LEMMA KeptFacts ==
    ASSUME Sized, IInv, KeptResting
    PROVE  /\ KeptDescribed /\ Strays(p_info + BLK) /\ \E m \in Nat : Filled(m)
           /\ \A id \in Known \cap Settled : /\ Sound(table[id]) /\ Holds(flash, table[id])
                                            /\ table[id].data_addr + table[id].length <= p_data
<1>1. PICK n \in Nat, m \in Nat :
          n <= m /\ Keeps(n) /\ Table(n) /\ Filled(m) /\ End(flash, n) <= p_data
  BY DEF KeptResting
<1>2. Base(flash, n, Settled)
  BY <1>1 DEF Keeps
<1>3. Blank.crc = << >>
  BY DEF Blank, Block
<1>4. ASSUME NEW id \in Settled
      PROVE  /\ acked[id] = table[id].crc
             /\ \/ table[id] = Blank
                \/ /\ table[id] # Blank
                   /\ Sound(table[id]) /\ Holds(flash, table[id])
                   /\ table[id].data_addr + table[id].length <= p_data
  <2>1. Newest(flash, n, id, table[id]) /\ Recorded(flash, n, id, acked[id])
    BY <1>1 DEF Table, Keeps
  <2>2. acked[id] = table[id].crc
    BY <2>1, NewestIs
  <2>3. ASSUME table[id] # Blank
        PROVE  /\ Sound(table[id]) /\ Holds(flash, table[id])
               /\ table[id].data_addr + table[id].length <= p_data
    <3>1. PICK k \in 0 .. n - 1 : Last(flash, n, id, k) /\ table[id] = BlkAt(flash, k)
      BY <2>1, <2>3 DEF Newest
    <3>2. /\ BlkAt(flash, k).length \in Nat
          /\ BlkAt(flash, k).data_addr = End(flash, k) /\ End(flash, k) \in Nat
          /\ End(flash, k + 1) = End(flash, k) + BlkAt(flash, k).length
          /\ End(flash, k + 1) <= End(flash, n) /\ End(flash, n) \in Nat
      BY <1>2, BasePlaces
    <3>3. Sound(BlkAt(flash, k)) /\ Holds(flash, BlkAt(flash, k))
      BY <1>2, <3>1 DEF Base, Intact, Last
    <3>4. table[id].data_addr + table[id].length <= p_data
      BY <1>1, <3>1, <3>2, Numbers
    <3> QED BY <3>1, <3>3, <3>4
  <2> QED BY <2>2, <2>3
<1>5. KeptDescribed
  BY <1>1, <1>3, <1>4 DEF KeptDescribed, Table
<1>6. Strays(p_info + BLK)
  <2>1. PICK x \in Nat, y \in Nat : x = Slot(n) /\ y = p_info /\ y <= x
    BY <1>1, RestingRoom, Numbers
  <2>2. ASSUME NEW a \in Addr, a < y + BLK
        PROVE  Stray(flash[a], dirty)
    <3>1. a < x + BLK
      BY <2>1, <2>2, Geometry DEF Addr
    <3> QED BY <1>1, <2>1, <3>1 DEF Keeps, Strays
  <2> QED BY <2>1, <2>2 DEF Strays
<1>7. \A id \in Known \cap Settled : /\ Sound(table[id]) /\ Holds(flash, table[id])
                                     /\ table[id].data_addr + table[id].length <= p_data
  BY <1>4 DEF Known
<1> QED BY <1>1, <1>5, <1>6, <1>7

\* The pointers and the walk start anew.
LEMMA KeptBegin ==
    ASSUME Sized, IInv', UNCHANGED <<table, acked, dirty>>, KeptDescribed, Ask', Late',
           NEW q \in Orders, BeginLoop(q), NEW m \in Nat, Cardinality(Known) <= m,
           Clear(flash', Slot(m), AreaSize), Strays(FirstInfo + BLK)',
           \A id \in Known \cap Settled : Holds(flash', table[id])
    PROVE  FaultInv'
<1>1. /\ p_data' = 0 /\ p_info' = FirstInfo /\ order' = q
      /\ i' = 0 /\ count' = 0 /\ head' = 0 /\ tail' = 0 /\ read_buf' = << >>
      /\ \/ Len(q) = 0 /\ pc' = "fl_tail"
         \/ pc' = "fl_read"
  BY DEF BeginLoop, ResetPointers
<1>2. Known' = Known /\ Settled' = Settled
  BY DEF Known, Settled
<1>3. Len(q) = Cardinality(Known) /\ Len(q) \in Nat /\ Len(q) <= MaxVar
  <2>1. PICK c \in Nat : c = Len(q) /\ DOMAIN q = 1 .. c
    BY OrderIs
  <2>2. Cardinality(Known) \in Nat
    <3>1. Known \subseteq Id /\ IsFiniteSet(Id)
      BY E2PAssumption DEF Known
    <3> QED BY <3>1, FS_Subset, FS_CardinalityType
  <2>3. q \in [1 .. Cardinality(Known) -> Known]
    BY DEF Orders
  <2>4. Len(q) = Cardinality(Known)
    BY <2>2, <2>3
  <2> QED BY <2>4, OrderIs
<1>4. KeptWalk'
  <2>1. KeptDescribed'
    BY <1>2 DEF KeptDescribed
  <2>2. Slot(m) <= Slot(Len(q)) + BLK /\ Slot(m) <= FirstInfo + BLK
    <3>1. m = Len(q) \/ Len(q) < m
      BY <1>3
    <3>2. Slot(m) \in Int /\ Slot(Len(q)) \in Int /\ Slot(m) <= FirstInfo
      BY <1>3, SlotFacts
    <3> QED BY <1>3, <3>1, <3>2, SlotOrder, Geometry
  <2>3. PICK lo \in Int, hi \in Int, from \in Int, top \in Int :
            /\ lo = Slot(m) /\ hi = AreaSize /\ from = Slot(Len(q)) + BLK /\ top = FirstInfo + BLK
            /\ lo <= from /\ lo <= top /\ top <= hi
    <3>1. Slot(m) \in Int /\ Slot(Len(q)) \in Int
      BY <1>3, SlotFacts
    <3> QED BY <2>2, <3>1, Geometry
  <2>4. Clear(flash', from, top) /\ Clear(flash', top, hi)
    <3>1. Clear(flash', lo, hi)
      BY <2>3
    <3> QED BY ONLY <2>3, <3>1 DEF Clear
  <2>5. \A k \in 1 .. Len(read_buf') : Stray(read_buf'[k], dirty')
    BY <1>1
  <2> QED BY <1>1, <1>2, <1>3, <2>1, <2>3, <2>4, <2>5, OrderIs DEF KeptWalk
<1>5. PICK S : S = Settled /\ S = Settled'
  BY <1>2
<1>6. Packed(0, S)'
  BY PackedNone
<1>7. CASE pc' = "fl_read"
  <2>1. MaxVar * Len(read_buf') <= i' * EraseSize
    <3>1. Len(read_buf') = 0 /\ MaxVar * 0 = 0 /\ 0 * EraseSize = 0
      BY <1>1, E2PAssumption
    <3> QED BY <1>1, <3>1
  <2>2. Packed(0, Settled)'
    BY <1>5, <1>6
  <2>3. KeptReading'
    BY <1>1, <1>2, <1>4, <2>1, <2>2 DEF KeptReading
  <2> QED BY <1>7, <2>3 DEF FaultInv
<1>8. CASE Len(q) = 0 /\ pc' = "fl_tail"
  <2>1. Chain(flash', 0) /\ End(flash', 0) = 0 /\ Slot(0) = FirstInfo
    BY EmptyArea, TypedNext
  <2>2. KeptRewritten(0)'
    <3>1. Base(flash', 0, Settled')
      BY <2>1, ChainBase
    <3> QED BY <1>1, <2>1, <3>1 DEF KeptRewritten
  <2>3. Packed(count, Settled)' /\ KeptRewritten(count)'
    <3>1. count' = 0
      BY <1>1
    <3>2. Packed(0, Settled)'
      BY <1>5, <1>6
    <3>3. Packed(count, Settled)'
      BY ONLY <3>1, <3>2 DEF Packed
    <3>4. KeptRewritten(count)'
      BY ONLY <3>1, <2>2 DEF KeptRewritten
    <3> QED BY <3>3, <3>4
  <2>4. Spare'
    BY <1>1 DEF Spare
  <2>5. KeptBetween'
    BY <1>1, <1>4, <1>8, <2>1, <2>3, <2>4 DEF KeptBetween
  <2> QED BY <1>8, <2>5 DEF FaultInv
<1> QED BY <1>1, <1>7, <1>8

LEMMA FlushEraseInfoKept ==
    ASSUME Sized, IInv, IInv', FaultInv, FlushEraseInfo
    PROVE  FaultInv'
<1>1. /\ flash' = EraseFrom(InfoSector) /\ KeptResting /\ ~DataInSameSector
      /\ UNCHANGED <<table, acked, dirty, req>> /\ Ask /\ Late
  BY DEF FlushEraseInfo, hist, FaultInv
<1>2. PICK q \in Orders : BeginLoop(q)
  BY DEF FlushEraseInfo
<1>3. Ask' /\ Late'
  <2>1. pc' \in {"fl_tail", "fl_read"}
    BY <1>2 DEF BeginLoop
  <2> QED BY <1>1, <2>1 DEF Ask, Late
<1>4. PICK s \in Nat : s = InfoSector /\ p_data < s /\ s <= p_info
  BY <1>1, SectorIs
<1>5. \A a \in Addr : flash'[a] = IF s <= a THEN Erased ELSE flash[a]
  BY <1>1, <1>4, EraseFromIs
<1>6. PICK m \in Nat : p_info = Slot(m) /\ Cardinality(Known) <= m
  BY <1>1, KeptFacts DEF Filled
<1>7. Clear(flash', Slot(m), AreaSize)
  <2>1. PICK lo \in Nat, hi \in Nat : lo = p_info /\ hi = AreaSize
    BY Numbers, Geometry
  <2>2. ASSUME NEW a \in lo .. hi - 1
        PROVE  flash'[a] = Erased
    <3>1. a \in Addr /\ s <= a
      BY <1>4, <2>1 DEF Addr
    <3> QED BY <1>5, <3>1
  <2> QED BY <1>6, <2>1, <2>2 DEF Clear
<1>8. ASSUME NEW a \in Addr, a < FirstInfo + BLK
      PROVE  Stray(flash'[a], dirty')
  <2>1. CASE s <= a
    <3>1. flash'[a] = Erased
      BY <1>5, <2>1
    <3> QED BY <3>1, StrayIs
  <2>2. CASE ~(s <= a)
    <3>1. a < p_info + BLK
      BY <1>4, <2>2, Numbers, Geometry DEF Addr
    <3>2. Stray(flash[a], dirty)
      BY <1>1, <3>1, KeptFacts DEF Strays
    <3> QED BY <1>1, <1>5, <2>2, <3>2
  <2> QED BY <2>1, <2>2
<1>9. ASSUME NEW id \in Known \cap Settled
      PROVE  Holds(flash', table[id])
  <2>1. /\ Sound(table[id]) /\ Holds(flash, table[id])
        /\ table[id].data_addr + table[id].length <= p_data
    BY <1>1, KeptFacts
  <2>2. ASSUME NEW k \in 1 .. table[id].length
        PROVE  flash'[table[id].data_addr + k - 1] = table[id].crc[k]
    <3>1. PICK a \in Addr : a = table[id].data_addr + k - 1 /\ a < p_data
      BY <2>1, ValueCells
    <3>2. ~(s <= a)
      BY <1>4, <3>1, Numbers DEF Addr
    <3> QED BY <1>5, <2>1, <3>1, <3>2 DEF Holds
  <2> QED BY <2>2 DEF Holds
<1>10. KeptDescribed
  BY <1>1, KeptFacts
<1>11. Strays(FirstInfo + BLK)'
  BY <1>8 DEF Strays
<1> QED BY <1>1, <1>2, <1>3, <1>6, <1>7, <1>9, <1>10, <1>11, KeptBegin

LEMMA FlushEraseSharedKept ==
    ASSUME Sized, IInv, IInv', FaultInv, FlushEraseShared
    PROVE  FaultInv'
<1>1. /\ flash' = EraseFrom(InfoSector) /\ KeptResting /\ pc' = "fl_restore"
      /\ read_buf' = ReadCells(flash, InfoSector, p_info % EraseSize)
      /\ UNCHANGED <<table, acked, dirty, p_info, req>> /\ Ask /\ Late
  BY DEF FlushEraseShared, hist, area, FaultInv
<1>2. Ask' /\ Late'
  BY <1>1 DEF Ask, Late
<1>3. PICK s \in Nat, n \in Nat :
          /\ s = InfoSector /\ n = p_info % EraseSize /\ n = p_info - s /\ s <= p_info
  <2>1. p_info - InfoSector \in Nat
    BY SectorIs, Typed
  <2> QED BY <2>1, SectorIs
<1>4. InfoSector' = s /\ (p_info % EraseSize)' = n
  BY <1>1, <1>3 DEF InfoSector
<1>5. \A a \in Addr : flash'[a] = IF s <= a THEN Erased ELSE flash[a]
  BY <1>1, <1>3, EraseFromIs
<1>6. Len(read_buf') = n /\ \A k \in 1 .. n : s + k - 1 \in Addr /\ read_buf'[k] = flash[s + k - 1]
  <2>1. Len(read_buf') = n
    BY <1>1, <1>3, ReadType, Typed
  <2>2. ASSUME NEW k \in 1 .. n
        PROVE  s + k - 1 \in Addr
    BY <1>3, Numbers, Geometry DEF Addr
  <2>3. DOMAIN flash = Addr
    BY Typed
  <2>4. \A k \in 1 .. n : read_buf'[k] = flash[s + k - 1]
    BY <1>1, <1>3, <2>2, <2>3 DEF ReadCells
  <2> QED BY <2>1, <2>2, <2>4
<1>7. Clear(flash', s, AreaSize)
  <2>1. ASSUME NEW a \in s .. AreaSize - 1
        PROVE  flash'[a] = Erased
    <3>1. a \in Addr /\ s <= a
      BY Geometry DEF Addr
    <3> QED BY <1>5, <3>1
  <2> QED BY <2>1 DEF Clear
<1>8. ASSUME NEW id \in Known \cap Settled, NEW k \in 1 .. table[id].length,
             NEW a, a = table[id].data_addr + k - 1
      PROVE  IF a < s THEN flash'[a] = table[id].crc[k]
             ELSE a < p_info /\ read_buf'[a - s + 1] = table[id].crc[k]
  <2>1. /\ Sound(table[id]) /\ Holds(flash, table[id])
        /\ table[id].data_addr + table[id].length <= p_data
    BY <1>1, KeptFacts
  <2>2. a \in Addr /\ a < p_data /\ flash[a] = table[id].crc[k]
    BY <2>1, <1>8, ValueCells DEF Holds
  <2>3. a \in Nat /\ a < p_info /\ p_info \in Nat
    BY <2>2, Typed DEF Addr
  <2>4. CASE a < s
    BY <2>2, <2>3, <2>4, <1>5
  <2>5. CASE ~(a < s)
    <3>1. PICK x \in 1 .. n : x = a - s + 1 /\ s + x - 1 = a
      <4>1. a - s + 1 \in 1 .. n /\ s + (a - s + 1) - 1 = a
        BY <2>3, <2>5, <1>3
      <4> QED BY <4>1
    <3> QED BY <2>2, <2>3, <2>5, <3>1, <1>6
  <2> QED BY <2>4, <2>5
<1>9. \A k \in 1 .. n : Stray(read_buf'[k], dirty')
  <2>1. ASSUME NEW k \in 1 .. n
        PROVE  Stray(read_buf'[k], dirty)
    <3>1. PICK a \in Addr : a = s + k - 1 /\ read_buf'[k] = flash[a]
      BY <1>6
    <3>2. a < p_info + BLK
      BY <1>3, <3>1, Numbers, Geometry
    <3> QED BY <1>1, <3>1, <3>2, KeptFacts DEF Strays
  <2> QED BY <1>1, <2>1
<1>10. Strays(s)'
  <2>1. ASSUME NEW a \in Addr, a < s
        PROVE  Stray(flash'[a], dirty')
    <3>1. a < p_info + BLK /\ ~(s <= a)
      BY <1>3, <2>1, Numbers, Geometry DEF Addr
    <3>2. Stray(flash[a], dirty)
      BY <1>1, <3>1, KeptFacts DEF Strays
    <3> QED BY <1>1, <1>5, <3>1, <3>2
  <2> QED BY <2>1 DEF Strays
<1>11. Known' = Known /\ Settled' = Settled
  BY <1>1 DEF Known, Settled
<1>12. KeptDescribed'
  BY <1>1, <1>11, KeptFacts DEF KeptDescribed
<1>13. \E m \in Nat : Filled(m)'
  BY <1>1, KeptFacts, FilledStill
<1>14. Strays(InfoSector)'
  BY <1>4, <1>10 DEF Strays
<1>15. KeptSaved'
  <2>1. \A id \in (Known \cap Settled)' : \A k \in 1 .. table'[id].length :
          LET a == table'[id].data_addr + k - 1 IN
          IF a < InfoSector' THEN flash'[a] = table'[id].crc[k]
          ELSE a < p_info' /\ read_buf'[a - InfoSector' + 1] = table'[id].crc[k]
    BY <1>1, <1>4, <1>8, <1>11
  <2> QED BY <1>4, <1>6, <1>7, <1>9, <1>12, <1>13, <1>14, <2>1 DEF KeptSaved
<1> QED BY <1>1, <1>2, <1>15 DEF FaultInv

LEMMA FlushRestoreKept ==
    ASSUME Sized, IInv, IInv', FaultInv, FlushRestore
    PROVE  FaultInv'
<1>1. /\ flash' = Program(flash, InfoSector, read_buf) /\ KeptSaved
      /\ UNCHANGED <<table, acked, dirty, req>> /\ Ask /\ Late
  BY DEF FlushRestore, hist, FaultInv
<1>2. PICK q \in Orders : BeginLoop(q)
  BY DEF FlushRestore
<1>3. Ask' /\ Late'
  <2>1. pc' \in {"fl_tail", "fl_read"}
    BY <1>2 DEF BeginLoop
  <2> QED BY <1>1, <2>1 DEF Ask, Late
<1>4. PICK s \in Nat, n \in Nat :
          /\ s = InfoSector /\ n = Len(read_buf) /\ n = p_info - s
          /\ s <= p_info /\ p_info \in Nat /\ p_info < AreaSize
  <2>1. p_info - InfoSector \in Nat /\ p_info < AreaSize
    BY SectorIs, Numbers, Geometry
  <2> QED BY <1>1, <2>1, SectorIs, Typed DEF KeptSaved
<1>5. Clear(flash, s, s + n)
  <2>1. Clear(flash, s, AreaSize)
    BY <1>1, <1>4 DEF KeptSaved
  <2>2. s + n <= AreaSize /\ AreaSize \in Int
    BY <1>4, Geometry
  <2> QED BY ONLY <1>4, <2>1, <2>2 DEF Clear
<1>6. \A a \in Addr : flash'[a] = IF s <= a /\ a < s + n THEN read_buf[a - s + 1] ELSE flash[a]
  <2>1. /\ flash' = Program(flash, s, read_buf) /\ flash \in [Addr -> Cell]
        /\ s \in Int /\ n \in Nat /\ Len(read_buf) = n
    BY <1>1, <1>4, Typed
  <2>2. \A a \in Addr : Program(flash, s, read_buf)[a] = IF s <= a /\ a < s + n THEN read_buf[a - s + 1] ELSE flash[a]
    BY ONLY <1>5, <2>1, ProgramIs
  <2> QED BY ONLY <2>1, <2>2
<1>7. ASSUME NEW id \in Known \cap Settled
      PROVE  Holds(flash', table[id])
  <2>1. table[id].data_addr \in Nat
    BY <1>1, FittingIs DEF KeptSaved, KeptDescribed, Known
  <2>2. ASSUME NEW k \in 1 .. table[id].length
        PROVE  flash'[table[id].data_addr + k - 1] = table[id].crc[k]
    <3>1. PICK a \in Nat : a = table[id].data_addr + k - 1
      BY <2>1
    <3>2. IF a < s THEN flash[a] = table[id].crc[k]
          ELSE a < p_info /\ read_buf[a - s + 1] = table[id].crc[k]
      BY <1>1, <1>4, <3>1 DEF KeptSaved
    <3>3. a \in Addr
      BY <1>4, <3>2, Geometry DEF Addr
    <3>4. CASE a < s
      BY <1>6, <3>1, <3>2, <3>3, <3>4
    <3>5. CASE ~(a < s)
      BY <1>4, <1>6, <3>1, <3>2, <3>3, <3>5
    <3> QED BY <3>4, <3>5
  <2> QED BY <2>2 DEF Holds
<1>8. ASSUME NEW a \in Addr, s <= a
      PROVE  flash[a] = Erased
  <2>1. a \in s .. AreaSize - 1
    BY <1>8 DEF Addr
  <2> QED BY <1>1, <1>4, <2>1 DEF KeptSaved, Clear
<1>9. PICK m \in Nat : p_info = Slot(m) /\ Cardinality(Known) <= m
  BY <1>1 DEF KeptSaved, Filled
<1>10. Clear(flash', Slot(m), AreaSize)
  <2>1. PICK lo \in Nat, hi \in Nat : lo = p_info /\ hi = AreaSize
    BY Numbers, Geometry
  <2>2. ASSUME NEW a \in lo .. hi - 1
        PROVE  flash'[a] = Erased
    <3>1. a \in Addr /\ s <= a /\ ~(a < s + n)
      BY <1>4, <2>1 DEF Addr
    <3> QED BY <1>6, <1>8, <3>1
  <2> QED BY <1>9, <2>1, <2>2 DEF Clear
<1>11. ASSUME NEW a \in Addr
       PROVE  Stray(flash'[a], dirty')
  <2>1. CASE s <= a /\ a < s + n
    <3>1. PICK k \in 1 .. Len(read_buf) : k = a - s + 1
      BY <1>4, <2>1 DEF Addr
    <3>2. Stray(read_buf[k], dirty)
      BY <1>1 DEF KeptSaved
    <3> QED BY <1>1, <1>6, <2>1, <3>1, <3>2
  <2>2. CASE s <= a /\ ~(a < s + n)
    <3>1. flash'[a] = Erased
      BY <1>6, <1>8, <2>2
    <3> QED BY <3>1, StrayIs
  <2>3. CASE ~(s <= a)
    <3>1. a < s
      BY <1>4, <2>3 DEF Addr
    <3>2. Stray(flash[a], dirty)
      BY <1>1, <1>4, <3>1 DEF KeptSaved, Strays
    <3> QED BY <1>1, <1>6, <2>3, <3>2
  <2> QED BY <2>1, <2>2, <2>3
<1>12. Strays(FirstInfo + BLK)'
  BY <1>11 DEF Strays
<1>13. KeptDescribed
  BY <1>1 DEF KeptSaved
<1> QED BY <1>1, <1>2, <1>3, <1>7, <1>9, <1>10, <1>12, <1>13, KeptBegin

-----------------------------------------------------------------------------
(* The read loop and the erase loop after a fault *)

LEMMA KeptEntry ==
    ASSUME Sized, IInv, KeptWalk, NEW n \in 0 .. Len(order) - 1
    PROVE  /\ order[n + 1] \in Known /\ order[n + 1] \in Id
           /\ Entry(n) = table[order[n + 1]] /\ Fitting(Entry(n)) /\ Entry(n).block_id = order[n + 1]
           /\ Entry(n).length \in Lengths /\ Entry(n).length \in Nat \ {0}
           /\ MaxVar * Entry(n).length <= EraseSize /\ Entry(n).length <= EraseSize
           /\ order[n + 1] \in Settled => Sound(Entry(n)) /\ Entry(n).crc = acked[order[n + 1]]
<1>1. Len(order) \in Nat
  BY DEF IInv, TypeOK
<1>2. order[n + 1] \in Known /\ KeptDescribed
  BY <1>1 DEF KeptWalk
<1>3. Entry(n) = table[order[n + 1]]
  BY DEF Entry
<1>4. order[n + 1] \in Id /\ table[order[n + 1]] # Blank
  BY <1>2 DEF Known
<1>5. Fitting(Entry(n)) /\ Entry(n).block_id = order[n + 1]
  BY <1>2, <1>3, <1>4 DEF KeptDescribed
<1>6. order[n + 1] \in Settled => Sound(Entry(n)) /\ Entry(n).crc = acked[order[n + 1]]
  BY <1>2, <1>3, <1>4 DEF KeptDescribed
<1>7. Entry(n).length \in Lengths
  BY <1>5 DEF Fitting
<1> QED BY <1>2, <1>3, <1>4, <1>5, <1>6, <1>7, FittingIs

LEMMA KeptLengthy == ASSUME Sized, IInv, KeptWalk PROVE Lengthy
BY KeptEntry DEF Lengthy

\* What a walk needs of the state.
LEMMA KeptWalkSame ==
    ASSUME KeptWalk, UNCHANGED <<order, table, acked, dirty>>,
           Clear(flash', Slot(Len(order)) + BLK, p_info' + BLK), Clear(flash', FirstInfo + BLK, AreaSize),
           Strays(p_info + BLK)', \A m \in 1 .. Len(read_buf') : Stray(read_buf'[m], dirty)
    PROVE  KeptWalk' /\ Known' = Known /\ Settled' = Settled /\ \A n : Entry(n)' = Entry(n)
<1>1. Known' = Known /\ Settled' = Settled /\ \A n : Entry(n)' = Entry(n)
  BY DEF Known, Settled, Entry
<1>2. KeptDescribed'
  BY <1>1 DEF KeptWalk, KeptDescribed
<1> QED BY <1>1, <1>2 DEF KeptWalk

\* What is on the flash, read or not, belongs to no settled block.
LEMMA KeptCells ==
    ASSUME Sized, IInv, KeptWalk, p_info = FirstInfo, NEW a \in Int
    PROVE  Stray(IF a \in Addr THEN flash[a] ELSE Mixed, dirty)
<1>1. CASE a \notin Addr
  BY <1>1, StrayIs
<1>2. CASE a \in Addr /\ a < FirstInfo + BLK
  BY <1>2 DEF KeptWalk, Strays
<1>3. CASE a \in Addr /\ ~(a < FirstInfo + BLK)
  <2>1. a \in FirstInfo + BLK .. AreaSize - 1
    BY <1>3, Geometry DEF Addr
  <2>2. flash[a] = Erased
    BY <2>1 DEF KeptWalk, Clear
  <2> QED BY <1>3, <2>2, StrayIs
<1> QED BY <1>1, <1>2, <1>3

LEMMA FlushReadKept ==
    ASSUME Sized, IInv, IInv', FaultInv, FlushRead
    PROVE  FaultInv'
<1>1. /\ KeptReading /\ i < Len(order) /\ i \in Nat /\ Len(order) \in Nat /\ i' = i + 1
      /\ UNCHANGED <<flash, p_data, p_info, table, req, order, count, head, acked, dirty>>
      /\ Ask /\ Late /\ read_buf \in Seq(Cell) /\ Len(read_buf) \in Nat
  BY DEF FlushRead, area, hist, FaultInv, IInv, FlowOK, TypeOK
<1>2. KeptWalk /\ Packed(0, Settled) /\ MaxVar * Len(read_buf) <= i * EraseSize
      /\ Len(order) <= MaxVar /\ p_info = FirstInfo /\ p_data = 0
  BY <1>1 DEF KeptReading, KeptWalk
<1> DEFINE b == Entry(i)
<1>3. PICK id \in Known, len \in Nat \ {0} :
          /\ id = order[i + 1] /\ len = b.length /\ b = table[id] /\ b.data_addr \in Nat
          /\ id \in Settled => Sound(b) /\ b.crc = acked[id]
          /\ MaxVar * len <= EraseSize
  <2>1. i \in 0 .. Len(order) - 1
    BY <1>1
  <2>2. Fitting(b) /\ order[i + 1] \in Known /\ b.length \in Nat \ {0}
    BY <1>2, <2>1, KeptEntry
  <2>3. b.data_addr \in Nat
    BY <2>2, FittingIs
  <2> QED BY <1>2, <2>1, <2>2, <2>3, KeptEntry
<1> HIDE DEF b
<1>4. PICK cells \in Seq(Cell) :
          /\ cells = ReadCells(flash, b.data_addr, len) /\ Len(cells) = len
          /\ \A m \in 1 .. len : Stray(cells[m], dirty)
          /\ id \in Settled => \A m \in 1 .. len : cells[m] = acked[id][m]
  <2>1. DOMAIN flash = Addr
    BY Typed
  <2>2. ASSUME NEW m \in 1 .. len
        PROVE  Stray(ReadCells(flash, b.data_addr, len)[m], dirty)
    <3>1. b.data_addr + m - 1 \in Int
      BY <1>3
    <3>2. ReadCells(flash, b.data_addr, len)[m]
             = IF b.data_addr + m - 1 \in Addr THEN flash[b.data_addr + m - 1] ELSE Mixed
      BY <2>1 DEF ReadCells
    <3> QED BY <1>2, <3>1, <3>2, KeptCells
  <2>3. ASSUME id \in Settled, NEW m \in 1 .. len
        PROVE  ReadCells(flash, b.data_addr, len)[m] = acked[id][m]
    <3>1. b.data_addr + len <= AreaSize /\ Holds(flash, b)
      BY <1>1, <1>3, <2>3 DEF KeptReading, Sound
    <3>2. b.data_addr + m - 1 \in Addr
      BY <1>3, <3>1, Geometry DEF Addr
    <3>3. flash[b.data_addr + m - 1] = acked[id][m]
      BY <1>3, <2>3, <3>1 DEF Holds
    <3> QED BY <2>1, <3>2, <3>3 DEF ReadCells
  <2>4. ReadCells(flash, b.data_addr, len) \in Seq(Cell) /\ Len(ReadCells(flash, b.data_addr, len)) = len
    BY <1>3, ReadType, Typed
  <2> QED BY <2>2, <2>3, <2>4
<1>5. /\ read_buf' = read_buf \o cells
      /\ pc' = IF Len(read_buf') >= EraseSize \/ i' = Len(order) THEN "fl_erase" ELSE "fl_read"
  BY <1>3, <1>4 DEF FlushRead, validNum, b
<1>6. /\ Len(read_buf') = Len(read_buf) + len
      /\ \A m \in 1 .. Len(read_buf) + len :
            read_buf'[m] = IF m <= Len(read_buf) THEN read_buf[m] ELSE cells[m - Len(read_buf)]
  <2>1. PICK old \in Seq(Cell) : old = read_buf
    BY <1>1
  <2>2. PICK new : new = read_buf' /\ new = old \o cells
    BY <1>5, <2>1
  <2>3. /\ Len(new) = Len(old) + Len(cells)
        /\ \A m \in 1 .. Len(old) + Len(cells) :
              new[m] = IF m <= Len(old) THEN old[m] ELSE cells[m - Len(old)]
    BY ONLY <2>1, <2>2, cells \in Seq(Cell)
  <2> QED BY <1>4, <2>1, <2>2, <2>3
<1>7. \A m \in 1 .. Len(read_buf') : Stray(read_buf'[m], dirty)
  <2>1. ASSUME NEW m \in 1 .. Len(read_buf) + len
        PROVE  Stray(read_buf'[m], dirty)
    <3>1. CASE m <= Len(read_buf)
      <4>1. m \in 1 .. Len(read_buf)
        BY <1>1, <3>1
      <4> QED BY <1>2, <1>6, <3>1, <4>1 DEF KeptWalk
    <3>2. CASE ~(m <= Len(read_buf))
      <4>1. m - Len(read_buf) \in 1 .. len
        BY <1>1, <3>2
      <4> QED BY <1>4, <1>6, <3>2, <4>1
    <3> QED BY <3>1, <3>2
  <2> QED BY <1>6, <2>1
<1>8. /\ MaxVar * Len(read_buf') <= (i + 1) * EraseSize
      /\ Len(read_buf) + len <= EraseSize
      /\ Len(read_buf') >= EraseSize => i + 1 = MaxVar
  <2>1. PICK v \in Nat \ {0}, k \in Nat, x \in Nat, l \in Nat, E \in Nat \ {0} :
            v = MaxVar /\ k = i /\ x = Len(read_buf) /\ l = len /\ E = EraseSize /\ k + 1 <= v
    <3>1. MaxVar \in Nat \ {0} /\ i + 1 <= MaxVar /\ EraseSize \in Nat \ {0}
      BY <1>1, <1>2, E2PAssumption
    <3> QED BY <1>1, <1>3, <3>1
  <2>2. v * x <= k * E /\ v * l <= E
    BY <1>2, <1>3, <2>1
  <2>3. v * (x + l) <= (k + 1) * E /\ x + l <= E /\ (x + l >= E => k + 1 = v)
    BY ONLY <2>1, <2>2, ReadFits
  <2>4. Len(read_buf') = x + l
    BY <1>6, <2>1
  <2> QED BY <2>1, <2>3, <2>4
<1>9. KeptWalk' /\ Known' = Known /\ Settled' = Settled
  <2>1. Strays(p_info + BLK)'
    BY <1>1, <1>2 DEF KeptWalk, Strays
  <2>2. Clear(flash', Slot(Len(order)) + BLK, p_info' + BLK) /\ Clear(flash', FirstInfo + BLK, AreaSize)
    BY <1>1, <1>2 DEF KeptWalk
  <2> QED BY <1>1, <1>2, <1>7, <2>1, <2>2, KeptWalkSame
<1>10. Packed(0, Settled)'
  <2>1. PICK S : S = Settled /\ S = Settled'
    BY <1>9
  <2>2. /\ len = Entry(i).length
        /\ order[i + 1] \in S => \A m \in 1 .. len : cells[m] = acked[order[i + 1]][m]
    BY <1>3, <1>4, <2>1 DEF b
  <2>3. Packed(0, S)
    BY <1>2, <2>1
  <2>4. Packed(0, S)'
    BY <1>1, <1>2, <1>4, <1>5, <1>8, <2>2, <2>3, KeptLengthy, PackedGrows
  <2> QED BY <2>1, <2>4
<1>11. Ask' /\ Late'
  BY <1>1, <1>5 DEF Ask, Late
<1>12. CASE pc' = "fl_read"
  <2>1. \A x \in Known \cap Settled : Holds(flash, table[x])
    BY <1>1 DEF KeptReading
  <2>2. KeptReading'
    BY <1>1, <1>8, <1>9, <1>10, <2>1 DEF KeptReading
  <2> QED BY <1>11, <1>12, <2>2 DEF FaultInv
<1>13. CASE pc' = "fl_erase"
  <2>1. i' = Len(order')
    BY <1>1, <1>2, <1>5, <1>8, <1>13, E2PAssumption
  <2>2. KeptErasing'
    BY <1>1, <1>9, <1>10, <2>1 DEF KeptErasing, KeptReading
  <2> QED BY <1>11, <1>13, <2>2 DEF FaultInv
<1> QED BY <1>5, <1>12, <1>13


\* What is erased for the info blocks and the version stays erased.
LEMMA KeptClear ==
    ASSUME Sized, IInv, KeptWalk, p_info' \in Int, p_info' <= p_info,
           \A a \in Addr :
               /\ (Slot(Len(order)) + BLK <= a /\ a < p_info' + BLK) \/ FirstInfo + BLK <= a
               /\ flash[a] = Erased
               => flash'[a] = Erased
    PROVE  /\ Clear(flash', Slot(Len(order)) + BLK, p_info' + BLK)
           /\ Clear(flash', FirstInfo + BLK, AreaSize)
<1>1. PICK low \in Nat : low = Slot(Len(order)) + BLK
  <2>1. Len(order) \in 0 .. MaxVar
    <3>1. Len(order) \in Nat /\ Len(order) <= MaxVar
      BY DEF KeptWalk, IInv, TypeOK
    <3> QED BY <3>1, E2PAssumption
  <2>2. AreaSize - EraseSize < Slot(Len(order)) /\ EraseSize <= AreaSize - EraseSize
    BY <2>1, SlotHigh
  <2>3. Slot(Len(order)) \in Int
    BY <2>1, SlotFacts, E2PAssumption
  <2>4. Slot(Len(order)) + BLK \in Nat
    BY <2>2, <2>3, Geometry
  <2> QED BY <2>4
<1>2. PICK hi \in Int, old \in Int, mid \in Nat, top \in Int :
          /\ hi = p_info' + BLK /\ old = p_info + BLK /\ mid = FirstInfo + BLK /\ top = AreaSize
          /\ hi <= old /\ hi <= top /\ top <= AreaSize
  <2>1. /\ p_info' + BLK \in Int /\ p_info + BLK \in Int /\ FirstInfo + BLK \in Nat /\ AreaSize \in Int
        /\ p_info' + BLK <= p_info + BLK /\ p_info' + BLK <= AreaSize
    <3>1. PICK x \in Int, y \in Int : x = p_info' /\ y = p_info /\ x <= y /\ y <= FirstInfo
      BY Numbers
    <3>2. /\ x + BLK \in Int /\ y + BLK \in Int /\ FirstInfo + BLK \in Nat /\ AreaSize \in Int
          /\ x + BLK <= y + BLK /\ x + BLK <= AreaSize
      <4>1. PICK f \in Nat, b \in Nat : f = FirstInfo /\ b = BLK /\ AreaSize = f + 2 * b
        BY Geometry
      <4>2. x + b \in Int /\ y + b \in Int /\ f + b \in Nat /\ f + 2 * b \in Int
            /\ x + b <= y + b /\ x + b <= f + 2 * b
        <5>1. x <= y /\ y <= f
          BY <3>1, <4>1
        <5>2. x + b \in Int /\ y + b \in Int /\ f + b \in Nat /\ f + 2 * b \in Int
          BY ONLY x \in Int, y \in Int, f \in Nat, b \in Nat
        <5>3. x + b <= y + b /\ x + b <= f + 2 * b
          BY ONLY <5>1, x \in Int, y \in Int, f \in Nat, b \in Nat
        <5> QED BY <5>2, <5>3
      <4> QED BY <4>1, <4>2
    <3> QED BY <3>1, <3>2
  <2> QED BY <2>1
<1>3. Clear(flash, low, hi)
  <2>1. Clear(flash, low, old)
    BY <1>1, <1>2 DEF KeptWalk
  <2> QED BY <1>2, <2>1 DEF Clear
<1>4. Clear(flash, mid, top)
  BY <1>2 DEF KeptWalk
<1>5. Clear(flash', low, hi)
  <2>1. \A a \in Addr : low <= a /\ a < hi /\ flash[a] = Erased => flash'[a] = Erased
    BY <1>1, <1>2
  <2>2. hi <= AreaSize
    BY <1>2
  <2> QED BY ONLY <1>1, <1>2, <1>3, <2>1, <2>2, ClearKeeps
<1>6. Clear(flash', mid, top)
  <2>1. \A a \in Addr : mid <= a /\ a < top /\ flash[a] = Erased => flash'[a] = Erased
    BY <1>2
  <2>2. top <= AreaSize
    BY <1>2
  <2> QED BY ONLY <1>2, <1>4, <2>1, <2>2, ClearKeeps
<1> QED BY <1>1, <1>2, <1>5, <1>6

\* A sector that is erased leaves the walk as it is.
LEMMA KeptWalkErase ==
    ASSUME Sized, IInv, IInv', KeptWalk, NEW from \in Nat, flash' = EraseRange(flash, from, EraseSize),
           UNCHANGED <<p_info, order, table, acked, dirty, read_buf>>
    PROVE  /\ KeptWalk' /\ Known' = Known /\ Settled' = Settled
           /\ \A a \in Addr : flash'[a] = IF from <= a /\ a < from + EraseSize THEN Erased ELSE flash[a]
<1>1. \A a \in Addr : flash'[a] = IF from <= a /\ a < from + EraseSize THEN Erased ELSE flash[a]
  <2>1. from \in Int /\ EraseSize \in Int /\ flash \in [Addr -> Cell]
    BY Typed, Geometry
  <2> QED BY <2>1, EraseIs
<1>2. \A a \in Addr : flash[a] = Erased => flash'[a] = Erased
  BY <1>1
<1>3. \A a \in Addr : Stray(flash[a], dirty) => Stray(flash'[a], dirty)
  BY <1>1, StrayIs
<1>4. Clear(flash', Slot(Len(order)) + BLK, p_info' + BLK) /\ Clear(flash', FirstInfo + BLK, AreaSize)
  BY <1>2, KeptClear, Numbers
<1>5. Strays(p_info + BLK)'
  BY <1>3 DEF KeptWalk, Strays
<1>6. \A m \in 1 .. Len(read_buf') : Stray(read_buf'[m], dirty)
  BY DEF KeptWalk
<1> QED BY <1>1, <1>4, <1>5, <1>6, KeptWalkSame

LEMMA FlushEraseKept ==
    ASSUME Sized, IInv, IInv', FaultInv, FlushErase
    PROVE  FaultInv'
<1>1. /\ KeptErasing /\ Ask /\ Late
      /\ flash' = EraseRange(flash, head, EraseSize) /\ head' = head + EraseSize
      /\ UNCHANGED <<p_data, p_info, table, req, order, i, count, read_buf, acked, dirty>>
      /\ head \in Nat /\ tail \in Nat
      /\ \/ pc' = "fl_erase" /\ tail' = tail
         \/ pc' = "fl_back" /\ tail' = head'
  BY DEF FlushErase, EraseHead, area, hist, FaultInv, IInv, TypeOK
<1>2. /\ KeptWalk' /\ Known' = Known /\ Settled' = Settled
      /\ \A a \in Addr : flash'[a] = IF head <= a /\ a < head + EraseSize THEN Erased ELSE flash[a]
  BY <1>1, KeptWalkErase DEF KeptErasing
<1>3. EraseSize <= head' /\ Clear(flash', 0, EraseSize)
  <2>1. EraseSize <= AreaSize
    <3>1. 0 \in 0 .. MaxVar
      BY E2PAssumption
    <3>2. EraseSize <= AreaSize - EraseSize
      BY <3>1, SlotHigh
    <3> QED BY <3>2, Geometry
  <2>2. ASSUME NEW a \in 0 .. EraseSize - 1
        PROVE  flash'[a] = Erased
    <3>1. a \in Addr /\ 0 <= a /\ a < EraseSize
      BY <2>1, Geometry DEF Addr
    <3>2. CASE head = 0
      BY <1>2, <3>1, <3>2, Geometry
    <3>3. CASE head # 0
      <4>1. flash[a] = Erased
        BY <1>1, <3>3 DEF KeptErasing, Clear
      <4> QED BY <1>2, <3>1, <4>1
    <3> QED BY <3>2, <3>3
  <2>3. EraseSize <= head'
    BY <1>1, Geometry
  <2> QED BY <2>2, <2>3 DEF Clear
<1>4. PICK S : S = Settled /\ S = Settled'
  BY <1>2
<1>5. Packed(0, S)'
  BY <1>1, <1>4, PackedSame DEF KeptErasing
<1>6. Packed(0, Settled)'
  BY <1>4, <1>5
<1>7. Ask' /\ Late'
  BY <1>1 DEF Ask, Late
<1>8. CASE pc' = "fl_erase"
  <2>1. KeptErasing'
    BY <1>1, <1>2, <1>3, <1>6 DEF KeptErasing
  <2> QED BY <1>7, <1>8, <2>1 DEF FaultInv
<1>9. CASE pc' = "fl_back" /\ tail' = head'
  <2>1. Chain(flash', 0) /\ End(flash', 0) = 0 /\ Slot(0) = FirstInfo
    BY EmptyArea, TypedNext
  <2>2. Base(flash', 0, Settled')
    BY <2>1, ChainBase
  <2>3. KeptRewritten(0)'
    BY <1>1, <2>1, <2>2 DEF KeptRewritten, KeptErasing
  <2>4. i' \in Nat /\ 0 <= i' /\ i' = Len(order') /\ count' = 0 /\ p_data' = 0
    BY <1>1 DEF IInv, TypeOK, KeptErasing
  <2>5. Packed(count, Settled)' /\ KeptRewritten(count)'
    BY ONLY <1>6, <2>3, <2>4 DEF Packed, KeptRewritten
  <2>6. Spare'
    BY <1>3, <1>9, <2>4 DEF Spare
  <2>7. p_data' = End(flash', count')
    BY <2>1, <2>4
  <2>8. count' <= i'
    BY <2>4
  <2>9. KeptBetween'
    BY <1>2, <2>4, <2>5, <2>6, <2>7, <2>8 DEF KeptBetween
  <2> QED BY <1>7, <1>9, <2>9 DEF FaultInv
<1> QED BY <1>1, <1>8, <1>9

\* The state between two entries does not depend on the rest.
LEMMA KeptBetweenSame ==
    ASSUME KeptBetween, UNCHANGED <<flash, p_data, p_info, table, order, i, count, tail, read_buf,
                                    acked, dirty>>
    PROVE  KeptBetween'
<1>1. KeptWalk'
  BY KeptWalkSame DEF KeptBetween, KeptWalk, Strays
<1>2. Settled' = Settled /\ \A n : Entry(n)' = Entry(n)
  BY DEF Settled, Entry
<1>3. Packed(count, Settled)'
  <2>1. PICK c : c = count /\ c = count'
    OBVIOUS
  <2>2. PICK S : S = Settled /\ S = Settled'
    BY <1>2
  <2>3. Packed(c, S)
    BY <2>1, <2>2 DEF KeptBetween
  <2>4. Packed(c, S)'
    BY <2>3, PackedSame
  <2> QED BY ONLY <2>1, <2>2, <2>4 DEF Packed
<1>4. Spare' /\ KeptRewritten(count)'
  BY <1>2 DEF KeptBetween, Spare, KeptRewritten
<1> QED BY <1>1, <1>3, <1>4 DEF KeptBetween

LEMMA FlushSuspendKept ==
    ASSUME Sized, IInv, IInv', FaultInv, FlushSuspend
    PROVE  FaultInv'
<1>1. /\ KeptBetween /\ Ask /\ Late /\ pc' = "fl_tail"
      /\ UNCHANGED <<flash, p_data, p_info, table, req, order, i, count, tail, read_buf, acked, dirty>>
  BY DEF FlushSuspend, area, hist, FaultInv, KeptBetween, validNum, IInv, TypeOK
<1>2. KeptBetween'
  BY <1>1, KeptBetweenSame
<1>3. Ask' /\ Late'
  BY <1>1 DEF Ask, Late
<1> QED BY <1>1, <1>2, <1>3 DEF FaultInv

-----------------------------------------------------------------------------
(* The write-back loops after a fault *)

LEMMA PlainCrc ==
    ASSUME NEW cells \in Seq(Cell), \A m \in 1 .. Len(cells) : Plain(cells[m])
    PROVE  Crc(cells) = cells
<1>1. \A k \in 1 .. Len(cells) : cells[k].kind # "info"
  BY DEF Plain
<1>2. Crc(cells) = [k \in 1 .. Len(cells) |-> cells[k]]
  BY <1>1 DEF Crc
<1>3. cells = [k \in 1 .. Len(cells) |-> cells[k]]
  OBVIOUS
<1> QED BY <1>2, <1>3

\* What is taken out of the buffer, and what stays in it.
LEMMA BufferIs ==
    ASSUME IInv, NEW len \in Nat, len <= Len(read_buf)
    PROVE  /\ BufCells(len) \in Seq(Cell) /\ Len(BufCells(len)) = len
           /\ \A m \in 1 .. len : m \in 1 .. Len(read_buf) /\ BufCells(len)[m] = read_buf[m]
           /\ \A k \in 1 .. Len(SubSeq(read_buf, len + 1, Len(read_buf))) :
                 /\ k + len \in 1 .. Len(read_buf)
                 /\ SubSeq(read_buf, len + 1, Len(read_buf))[k] = read_buf[k + len]
<1>1. PICK buf \in Seq(Cell), all \in Nat : buf = read_buf /\ all = Len(buf) /\ len <= all
  BY DEF IInv, TypeOK
<1>2. \A m \in 1 .. len : m \in 1 .. all /\ m <= all /\ buf[m] \in Cell
  BY <1>1
<1>3. \A m \in 1 .. len : BufCells(len)[m] = buf[m]
  BY <1>1, <1>2 DEF BufCells
<1>4. BufCells(len) \in [1 .. len -> Cell]
  <2>1. BufCells(len) = [k \in 1 .. len |-> buf[k]]
    BY <1>1, <1>2 DEF BufCells
  <2> QED BY <1>2, <2>1
<1>5. BufCells(len) \in Seq(Cell) /\ Len(BufCells(len)) = len
  BY <1>4
<1>6. PICK rest : rest = SubSeq(buf, len + 1, all)
  OBVIOUS
<1>7. /\ Len(rest) = all - len
      /\ \A k \in 1 .. all - len : k + len \in 1 .. all /\ rest[k] = buf[k + len]
  <2>1. len + 1 \in 1 .. Len(buf) + 1 /\ all \in (len + 1) - 1 .. Len(buf)
    BY <1>1
  <2>2. /\ Len(rest) = all - (len + 1) + 1
        /\ \A k \in 1 .. all - (len + 1) + 1 : rest[k] = buf[len + 1 + k - 1]
    BY <1>1, <1>6, <2>1, SubSeqProperties
  <2>3. ASSUME NEW k \in 1 .. all - len
        PROVE  k + len \in 1 .. all /\ rest[k] = buf[k + len]
    <3>1. k \in 1 .. all - (len + 1) + 1 /\ len + 1 + k - 1 = k + len /\ k + len \in 1 .. all
      BY <1>1
    <3> QED BY <2>2, <3>1
  <2> QED BY <1>1, <2>2, <2>3
<1> QED BY <1>1, <1>2, <1>3, <1>5, <1>6, <1>7

\* There is room for the next entry, far below the info blocks.
LEMMA KeptRoom ==
    ASSUME Sized, IInv, KeptWalk, NEW c \in Nat, c < Len(order), i = Len(order), p_info = Slot(c),
           NEW len \in Nat, p_data + len <= EraseSize
    PROVE  /\ PrivateFits(len) /\ p_data + len <= p_info /\ p_data + len <= FirstInfo
           /\ p_data + len <= Slot(Len(order)) /\ EraseSize <= p_info /\ EraseSize <= AreaSize
<1>1. Len(order) \in Nat /\ Len(order) <= MaxVar
  BY DEF KeptWalk, IInv, TypeOK
<1>2. c + 1 \in 0 .. MaxVar /\ Len(order) \in 0 .. MaxVar
  BY <1>1, E2PAssumption
<1>3. /\ AreaSize - EraseSize < Slot(c + 1) /\ EraseSize <= AreaSize - EraseSize
      /\ AreaSize - EraseSize < Slot(Len(order)) /\ Slot(c + 1) = Slot(c) - BLK
      /\ Slot(Len(order)) \in Int
  BY <1>1, <1>2, SlotHigh, SlotFacts
<1>4. PICK x \in Nat, y \in Int, z \in Nat, s \in Int :
          /\ x = p_data /\ y = remain_size /\ z = p_info /\ s = Slot(Len(order))
          /\ y = z - x /\ z <= FirstInfo
  BY <1>3, Typed
<1>5. PICK b \in Nat, e \in Nat, size \in Nat, first \in Nat :
          b = BLK /\ e = EraseSize /\ size = AreaSize /\ first = FirstInfo /\ first = size - 2 * b
  BY Geometry
<1>6. x + len <= e /\ e <= size - e /\ size - e < z - b /\ size - e < s /\ y = z - x /\ z <= first
  BY <1>3, <1>4, <1>5
<1>7. y >= len + b /\ x + len <= z /\ x + len <= first /\ x + len <= s /\ e <= z /\ e <= size
  <2>1. x + len + b <= z /\ x + len <= s /\ e <= z /\ e <= size
    BY ONLY <1>6, x \in Nat, y \in Int, z \in Nat, s \in Int, len \in Nat, b \in Nat, e \in Nat, size \in Nat
  <2>2. y >= len + b /\ x + len <= z /\ x + len <= first
    BY ONLY <1>6, <2>1, x \in Nat, y \in Int, z \in Nat, len \in Nat, b \in Nat, first \in Nat
  <2> QED BY <2>1, <2>2
<1> QED BY <1>4, <1>5, <1>7 DEF PrivateFits


\* Entry count is taken out of the buffer and its data written.
LEMMA KeptTake ==
    ASSUME Sized, IInv, IInv', KeptBetween, count < i, TakeEntry, UNCHANGED <<table, acked, dirty>>
    PROVE  KeptWithin' /\ PrivateFits(Entry(count).length)
<1>1. PICK c \in Nat : c = count
  BY DEF IInv, TypeOK
<1>2. /\ KeptWalk /\ Spare /\ i = Len(order) /\ c < Len(order) /\ i \in Nat
      /\ KeptRewritten(c) /\ p_data = End(flash, c) /\ Packed(c, Settled)
  <2>1. /\ KeptWalk /\ Spare /\ i = Len(order) /\ c < i
        /\ KeptRewritten(c) /\ p_data = End(flash, c) /\ Packed(c, Settled)
    BY <1>1, Zenon DEF KeptBetween
  <2>2. i \in Nat
    BY DEF IInv, TypeOK
  <2> QED BY <2>1, <2>2
<1>3. c \in 0 .. Len(order) - 1
  BY <1>2
<1>4. PICK len \in Nat \ {0}, id \in Id :
          /\ len = Entry(c).length /\ id = order[c + 1] /\ len \in Lengths
          /\ id \in Settled => Sound(Entry(c)) /\ Entry(c).crc = acked[id]
  BY <1>2, <1>3, KeptEntry
<1>5. /\ p_data + len <= EraseSize /\ len <= Len(read_buf)
      /\ id \in Settled => \A m \in 1 .. len : read_buf[m] = acked[id][m]
  BY <1>2, <1>4, PackedFirst, KeptLengthy
<1>6. /\ Base(flash, c, Settled) /\ p_info = Slot(c)
      /\ \A k \in 0 .. c - 1 : /\ BlkAt(flash, k).block_id = order[k + 1]
                               /\ table[order[k + 1]] = BlkAt(flash, k)
  BY <1>2 DEF KeptRewritten
<1>7. /\ PrivateFits(len) /\ p_data + len <= p_info /\ p_data + len <= FirstInfo
      /\ p_data + len <= Slot(Len(order)) /\ EraseSize <= p_info /\ EraseSize <= AreaSize
  BY <1>2, <1>4, <1>5, <1>6, KeptRoom
<1>8. PICK cells \in Seq(Cell) : cells = BufCells(len) /\ Len(cells) = len
  BY <1>4, <1>5, BufferIs
<1>9. \A m \in 1 .. len : cells[m] = read_buf[m] /\ Stray(cells[m], dirty)
  <2>1. \A m \in 1 .. len : m \in 1 .. Len(read_buf) /\ cells[m] = read_buf[m]
    BY <1>4, <1>5, <1>8, BufferIs
  <2> QED BY <1>2, <2>1 DEF KeptWalk
<1>10. /\ PrivateData(order[count + 1], cells) /\ count' = count
       /\ read_buf' = SubSeq(read_buf, len + 1, Len(read_buf))
       /\ UNCHANGED <<order, i, head, tail>>
  BY <1>1, <1>4, <1>7, <1>8 DEF TakeEntry
<1>11. /\ block' = Block(id, p_data, len, Crc(cells)) /\ flash' = Program(flash, p_data, cells)
       /\ p_data' = p_data + len /\ p_info' = p_info
  BY <1>1, <1>4, <1>8, <1>10 DEF PrivateData
<1>12. \A m \in 1 .. Len(read_buf') : Stray(read_buf'[m], dirty)
  <2>1. \A m \in 1 .. Len(read_buf') : /\ m + len \in 1 .. Len(read_buf)
                                       /\ read_buf'[m] = read_buf[m + len]
    BY <1>4, <1>5, <1>10, BufferIs
  <2> QED BY <1>2, <2>1 DEF KeptWalk
<1>13. \A a \in Addr : /\ ~(p_data <= a /\ a < p_data + len) => flash'[a] = flash[a]
                       /\ Stray(flash[a], dirty) => Stray(flash'[a], dirty)
  <2>1. p_data \in Int /\ flash \in [Addr -> Cell]
    BY Typed
  <2>2. ASSUME NEW a \in Addr
        PROVE  /\ ~(p_data <= a /\ a < p_data + len) => Program(flash, p_data, cells)[a] = flash[a]
               /\ Stray(flash[a], dirty) => Stray(Program(flash, p_data, cells)[a], dirty)
    <3>1. \A m \in 1 .. len : Stray(cells[m], dirty)
      BY <1>9
    <3>2. len \in Nat /\ Len(cells) = len
      BY <1>8
    <3>3. ~(p_data <= a /\ a < p_data + len) => Program(flash, p_data, cells)[a] = flash[a]
      BY ONLY <2>1, <3>2, a \in Addr, ProgramStray
    <3>4. PICK D : D = dirty
      OBVIOUS
    <3>5. /\ Stray(flash[a], D)
          /\ \A m \in 1 .. len : Stray(cells[m], D)
          => Stray(Program(flash, p_data, cells)[a], D)
      BY ONLY <2>1, <3>2, a \in Addr, ProgramStray
    <3> QED BY <3>1, <3>3, <3>4, <3>5
  <2> QED BY <1>11, <2>2
<1>14. KeptWalk' /\ Settled' = Settled
  <2>1. ASSUME NEW a \in Addr, Slot(Len(order)) + BLK <= a \/ FirstInfo + BLK <= a
        PROVE  ~(a < p_data + len)
    <3>1. PICK e \in Nat, s \in Int, f \in Nat, b \in Nat :
              e = p_data + len /\ s = Slot(Len(order)) /\ f = FirstInfo /\ b = BLK /\ e <= s /\ e <= f
      <4>1. Slot(Len(order)) \in Int
        BY <1>2, SlotFacts
      <4> QED BY <1>7, <4>1, Numbers, Geometry
    <3>2. a \in Int
      BY AddrIs DEF Addr
    <3>3. s + b <= a \/ f + b <= a
      BY <2>1, <3>1
    <3>4. ~(a < e)
      BY ONLY <3>1, <3>2, <3>3, e \in Nat, s \in Int, f \in Nat, b \in Nat
    <3> QED BY <3>1, <3>4
  <2>2. \A a \in Addr :
            /\ (Slot(Len(order)) + BLK <= a /\ a < p_info' + BLK) \/ FirstInfo + BLK <= a
            /\ flash[a] = Erased
            => flash'[a] = Erased
    BY <1>13, <2>1
  <2>3. Clear(flash', Slot(Len(order)) + BLK, p_info' + BLK) /\ Clear(flash', FirstInfo + BLK, AreaSize)
    BY <1>2, <1>11, <2>2, KeptClear, Numbers
  <2>4. Strays(p_info + BLK)'
    BY <1>2, <1>11, <1>13 DEF KeptWalk, Strays
  <2> QED BY <1>2, <1>10, <1>12, <2>3, <2>4, KeptWalkSame
<1>15. /\ Base(flash', c, Settled) /\ End(flash', c) = p_data
       /\ \A k \in 0 .. c - 1 : BlkAt(flash', k) = BlkAt(flash, k)
  <2>1. \A a \in Addr : a < End(flash, c) \/ (Slot(c) + BLK <= a /\ a < FirstInfo + BLK)
                         => flash'[a] = flash[a]
    <3>1. ASSUME NEW a \in Addr, a < p_data \/ p_info + BLK <= a
          PROVE  ~(p_data <= a /\ a < p_data + len)
      <4>1. PICK x \in Nat, z \in Nat, b \in Nat : x = p_data /\ z = p_info /\ b = BLK /\ x + len <= z
        BY <1>7, Numbers, Geometry
      <4>2. a \in Int
        BY AddrIs DEF Addr
      <4>3. a < x \/ z + b <= a
        BY <3>1, <4>1
      <4>4. ~(x <= a /\ a < x + len)
        BY ONLY <4>1, <4>2, <4>3, x \in Nat, z \in Nat, b \in Nat, len \in Nat \ {0}
      <4> QED BY <4>1, <4>4
    <3> QED BY <1>2, <1>6, <1>13, <3>1
  <2>2. /\ Base(flash', c, Settled)
        /\ \A k \in 0 .. c : End(flash', k) = End(flash, k)
        /\ \A k \in 0 .. c - 1 : BlkAt(flash', k) = BlkAt(flash, k)
    <3>1. flash \in [Addr -> Cell] /\ flash' \in [Addr -> Cell] /\ Settled \subseteq Settled
      BY Typed, TypedNext
    <3> QED BY <1>6, <2>1, <3>1, BaseSame
  <2> QED BY <1>2, <2>2
<1>16. block'.block_id = id /\ block'.data_addr = p_data /\ block'.length = len /\ block'.crc = Crc(cells)
  BY <1>11 DEF Block
<1>17. ASSUME id \in Settled
       PROVE  Sound(block') /\ Holds(flash', block') /\ block'.crc = acked[id]
  <2>1. /\ Entry(c).crc = acked[id] /\ Len(acked[id]) = len /\ \A m \in 1 .. len : Plain(acked[id][m])
    BY <1>4, <1>17 DEF Sound
  <2>2. acked[id] \in Seq(Byte)
    BY Typed
  <2>3. \A m \in 1 .. len : cells[m] = acked[id][m]
    BY <1>5, <1>9, <1>17
  <2>4. cells = acked[id]
    <3>1. cells = [m \in 1 .. len |-> cells[m]] /\ acked[id] = [m \in 1 .. len |-> acked[id][m]]
      BY <1>8, <2>1, <2>2
    <3> QED BY <2>3, <3>1
  <2>5. Crc(cells) = cells
    BY <1>8, <2>1, <2>3, PlainCrc
  <2>6. Sound(block')
    <3>1. p_data + len <= AreaSize
      BY <1>7, Numbers, Geometry
    <3> QED BY <1>4, <1>8, <1>16, <2>1, <2>3, <2>5, <3>1, TypedNext DEF Sound
  <2>7. Holds(flash', block')
    <3>1. Clear(flash, p_data, p_data + len)
      <4>1. Clear(flash, p_data, EraseSize)
        BY <1>2 DEF Spare
      <4>2. PICK x \in Nat, top \in Nat, e \in Nat : x = p_data /\ top = p_data + len /\ e = EraseSize /\ top <= e
        BY <1>5, Numbers, Geometry
      <4>3. Clear(flash, x, e)
        BY <4>1, <4>2
      <4>4. Clear(flash, x, top)
        BY ONLY <4>2, <4>3, x \in Nat, top \in Nat, e \in Nat DEF Clear
      <4> QED BY <4>2, <4>4
    <3>2. ASSUME NEW m \in 1 .. len
          PROVE  flash'[p_data + m - 1] = cells[m]
      <4>1. PICK a \in Addr : a = p_data + m - 1
        BY <1>7, Numbers, Geometry DEF Addr
      <4>2. p_data <= a /\ a < p_data + len /\ a - p_data + 1 = m
        BY <4>1, Numbers
      <4>3. p_data \in Int /\ flash \in [Addr -> Cell]
        BY Typed
      <4>4. Program(flash, p_data, cells)[a] = cells[a - p_data + 1]
        BY <1>8, <3>1, <4>2, <4>3, ProgramIs
      <4> QED BY <1>11, <4>1, <4>2, <4>4
    <3> QED BY <1>16, <2>5, <3>2 DEF Holds
  <2> QED BY <1>16, <2>4, <2>5, <2>6, <2>7
<1>18. Fitting(block')
  BY <1>4, <1>16, TypedNext DEF Fitting
<1>19. Packed(c + 1, Settled)'
  <2>1. PICK S : S = Settled /\ S = Settled'
    BY <1>14
  <2>2. Packed(c, S)
    BY <1>2, <2>1
  <2>3. /\ UNCHANGED <<order, i, table, acked>> /\ p_data' = p_data + Entry(c).length
        /\ read_buf' = SubSeq(read_buf, Entry(c).length + 1, Len(read_buf))
    BY <1>4, <1>10, <1>11
  <2>4. Packed(c + 1, S)'
    BY <1>2, <2>2, <2>3, PackedNext, KeptLengthy
  <2> QED BY <2>1, <2>4
<1>20. Spare'
  <2>1. EraseSize <= tail /\ Clear(flash, p_data, EraseSize)
    BY <1>2 DEF Spare
  <2>2. PICK x \in Nat, top \in Nat, e \in Nat :
            x = p_data /\ top = p_data + len /\ e = EraseSize /\ top <= e /\ x <= top /\ e <= AreaSize
    BY <1>5, <1>7, Numbers, Geometry
  <2>3. ASSUME NEW a \in top .. e - 1
        PROVE  flash'[a] = Erased
    <3>1. a \in Addr /\ ~(a < top)
      <4>1. PICK size \in Nat : size = AreaSize /\ e <= size
        BY <2>2, Geometry
      <4>2. a \in Int /\ 0 <= a /\ a < size /\ ~(a < top)
        BY ONLY <4>1, a \in top .. e - 1, top \in Nat, e \in Nat, size \in Nat
      <4> QED BY <4>1, <4>2, AddrIs
    <3>2. a \in x .. e - 1
      BY <2>2
    <3> QED BY <1>13, <2>1, <2>2, <3>1, <3>2 DEF Clear
  <2>4. Clear(flash', top, e)
    BY <2>3 DEF Clear
  <2> QED BY <1>10, <1>11, <2>1, <2>2, <2>4 DEF Spare
<1>21. KeptWithin'
  <2>1. count' = c /\ i' = i /\ order' = order /\ table' = table /\ acked' = acked
    BY <1>1, <1>10
  <2>2. Packed(count + 1, Settled)'
    <3>1. count' = c
      BY <2>1
    <3> QED BY ONLY <1>19, <3>1 DEF Packed
  <2>3. KeptRewritten(count)'
    BY <1>6, <1>11, <1>14, <1>15, <2>1 DEF KeptRewritten
  <2>4. KeptHalf(count)'
    BY <1>11, <1>14, <1>15, <1>16, <1>17, <1>18, <2>1 DEF KeptHalf
  <2>5. block'.block_id = order'[count' + 1] /\ block'.length = Entry(count)'.length
    BY <1>4, <1>16, <2>1 DEF Entry
  <2> QED BY <1>2, <1>14, <1>16, <1>17, <1>20, <2>1, <2>2, <2>3, <2>4, <2>5 DEF KeptWithin
<1>22. Entry(count).length = len
  BY <1>1, <1>4
<1> QED BY <1>7, <1>21, <1>22


LEMMA FlushBackDataKept ==
    ASSUME Sized, IInv, IInv', FaultInv, FlushBackData
    PROVE  FaultInv'
<1>1. /\ KeptBetween /\ Ask /\ Late /\ count < i /\ TakeEntry
      /\ UNCHANGED <<table, acked, dirty, req>>
      /\ pc' = IF PrivateFits(Entry(count).length) THEN "wb_info" ELSE "fl_back"
  BY DEF FlushBackData, hist, FaultInv
<1>2. KeptWithin' /\ pc' = "wb_info"
  BY <1>1, KeptTake
<1>3. Ask' /\ Late'
  BY <1>1, <1>2 DEF Ask, Late
<1> QED BY <1>2, <1>3 DEF FaultInv

LEMMA FlushRestDataKept ==
    ASSUME Sized, IInv, IInv', FaultInv, FlushRestData
    PROVE  FaultInv'
<1>1. /\ KeptBetween /\ Ask /\ Late /\ count < i /\ TakeEntry
      /\ UNCHANGED <<table, acked, dirty, req>>
      /\ PrivateFits(Entry(count).length) => pc' = "rw_info"
  BY DEF FlushRestData, hist, FaultInv
<1>2. KeptWithin' /\ pc' = "rw_info"
  BY <1>1, KeptTake
<1>3. Ask' /\ Late'
  BY <1>1, <1>2 DEF Ask, Late
<1> QED BY <1>2, <1>3 DEF FaultInv

\* The block of entry count is written in the next slot.
LEMMA KeptBlock ==
    ASSUME Sized, IInv, IInv', KeptWalk, NEW c \in Nat, c < Len(order), i = Len(order),
           KeptRewritten(c), KeptHalf(c), p_data + BLK <= p_info,
           flash' = Program(flash, p_info, InfoCells(block))
    PROVE  /\ Base(flash', c + 1, Settled) /\ BlkAt(flash', c) = block /\ End(flash', c + 1) = p_data
           /\ \A k \in 0 .. c - 1 : BlkAt(flash', k) = BlkAt(flash, k)
           /\ \A a \in Addr : a < p_info \/ p_info + BLK <= a => flash'[a] = flash[a]
<1>1. Base(flash, c, Settled) /\ p_info = Slot(c)
  BY DEF KeptRewritten
<1>2. PICK len \in Nat \ {0} : len = block.length /\ p_data = End(flash, c) + len
  BY FittingIs DEF KeptHalf
<1>3. PICK x \in Nat, e \in Nat, z \in Nat, b \in Nat \ {0}, s \in Int, f \in Nat :
          /\ x = p_data /\ e = End(flash, c) /\ z = p_info /\ b = BLK /\ s = Slot(c + 1) /\ f = FirstInfo
          /\ x = e + len /\ x + b <= z /\ s = z - b /\ z <= f
  <2>1. End(flash, c) \in Nat
    BY <1>1, BasePlaces
  <2>2. Slot(c + 1) = p_info - BLK /\ Slot(c + 1) \in Int
    BY <1>1, SlotFacts
  <2> QED BY <1>2, <2>1, <2>2, Numbers, Geometry
<1>4. x <= s /\ e <= z /\ x <= z
  BY ONLY <1>3, x \in Nat, e \in Nat, z \in Nat, b \in Nat \ {0}, s \in Int, len \in Nat \ {0}
<1>5. Clear(flash, z, z + b)
  <2>1. PICK low \in Int : low = Slot(Len(order)) + BLK /\ low <= z
    <3>1. Len(order) \in Nat
      BY DEF IInv, TypeOK
    <3>2. Slot(Len(order)) + BLK <= Slot(c) /\ Slot(Len(order)) \in Int
      BY <3>1, SlotOrder, SlotFacts
    <3>3. Slot(Len(order)) + BLK \in Int
      BY <3>2, Geometry
    <3> QED BY <1>1, <1>3, <3>2, <3>3
  <2>2. Clear(flash, low, z + b)
    BY <1>3, <2>1 DEF KeptWalk
  <2> QED BY <2>1, <2>2 DEF Clear
<1>6. PICK cells : cells = InfoCells(block) /\ Len(cells) = b
                   /\ \A p \in 1 .. b : cells[p] = InfoCell(block, p)
  <2>1. block \in Blk
    BY DEF IInv, TypeOK
  <2>2. Len(InfoCells(block)) = BLK
    BY <2>1, InfoCellsType
  <2>3. \A p \in 1 .. BLK : InfoCells(block)[p] = InfoCell(block, p)
    BY DEF InfoCells
  <2>4. Len(InfoCells(block)) = b /\ \A p \in 1 .. b : InfoCells(block)[p] = InfoCell(block, p)
    BY <1>3, <2>2, <2>3
  <2> QED BY <2>4, Zenon
<1>7. \A a \in Addr : flash'[a] = IF z <= a /\ a < z + b THEN cells[a - z + 1] ELSE flash[a]
  <2>1. z \in Int /\ flash \in [Addr -> Cell] /\ b \in Nat /\ flash' = Program(flash, z, cells)
    BY <1>3, <1>6, Typed
  <2> QED BY ONLY <1>5, <1>6, <2>1, ProgramIs
<1>8. \A a \in Addr : a < z \/ z + b <= a => flash'[a] = flash[a]
  <2>1. ASSUME NEW a \in Addr, a < z \/ z + b <= a
        PROVE  ~(z <= a /\ a < z + b)
    <3>1. a \in Int
      BY AddrIs DEF Addr
    <3> QED BY ONLY <2>1, <3>1, z \in Nat, b \in Nat \ {0}
  <2> QED BY <1>7, <2>1
<1>9. /\ Base(flash', c, Settled) /\ End(flash', c) = e
      /\ \A k \in 0 .. c - 1 : BlkAt(flash', k) = BlkAt(flash, k)
  <2>1. \A a \in Addr : a < End(flash, c) \/ (Slot(c) + BLK <= a /\ a < FirstInfo + BLK)
                         => flash'[a] = flash[a]
    <3>1. ASSUME NEW a \in Addr, a < e
          PROVE  a < z
      <4>1. a \in Int
        BY AddrIs DEF Addr
      <4> QED BY ONLY <1>4, <3>1, <4>1, z \in Nat, e \in Nat
    <3> QED BY <1>1, <1>3, <1>8, <3>1
  <2>2. /\ Base(flash', c, Settled)
        /\ \A k \in 0 .. c : End(flash', k) = End(flash, k)
        /\ \A k \in 0 .. c - 1 : BlkAt(flash', k) = BlkAt(flash, k)
    <3>1. flash \in [Addr -> Cell] /\ flash' \in [Addr -> Cell] /\ Settled \subseteq Settled
      BY Typed, TypedNext
    <3> QED BY ONLY Sized, c \in Nat, <1>1, <2>1, <3>1, BaseSame, ZenonT(40)
  <2> QED BY <1>3, <2>2
<1>10. ASSUME block.block_id \in Settled
       PROVE  Sound(block) /\ Holds(flash', block)
  <2>1. Sound(block) /\ Holds(flash, block) /\ block.data_addr = e
    BY <1>3, <1>10 DEF KeptHalf
  <2>2. ASSUME NEW m \in 1 .. len
        PROVE  flash'[block.data_addr + m - 1] = flash[block.data_addr + m - 1]
    <3>1. PICK a \in Int : a = e + m - 1 /\ 0 <= a /\ a < z
      BY ONLY <1>3, <1>4, m \in 1 .. len, e \in Nat, len \in Nat \ {0}, z \in Nat, x \in Nat
    <3>2. a \in Addr
      BY <1>3, <3>1, AddrIs, Geometry
    <3> QED BY <1>8, <2>1, <3>1, <3>2
  <2> QED BY <1>2, <2>1, <2>2 DEF Holds
<1>11. \A p \in 1 .. BLK : flash'[Slot(c) + p - 1] = InfoCell(block, p)
  <2>1. ASSUME NEW p \in 1 .. b
        PROVE  flash'[z + p - 1] = InfoCell(block, p)
    <3>1. PICK a \in Int : a = z + p - 1 /\ 0 <= a /\ z <= a /\ a < z + b /\ a - z + 1 = p /\ a < f + b
      BY <1>3
    <3>2. a \in Addr
      BY <1>3, <3>1, AddrIs, Geometry
    <3> QED BY <1>6, <1>7, <3>1, <3>2
  <2> QED BY <1>1, <1>3, <2>1
<1>12. Base(flash', c + 1, Settled) /\ BlkAt(flash', c) = block /\ End(flash', c + 1) = p_data
  <2>1. Fitting(block) /\ block.data_addr = End(flash', c)
    BY <1>3, <1>9 DEF KeptHalf
  <2>2. End(flash', c) + block.length <= Slot(c + 1) /\ End(flash', c) + block.length = p_data
    BY <1>2, <1>3, <1>4, <1>9
  <2>3. flash' \in [Addr -> Cell]
    BY TypedNext
  <2> QED BY <1>9, <1>10, <1>11, <2>1, <2>2, <2>3, BaseGrows
<1> QED BY <1>3, <1>8, <1>9, <1>12


LEMMA KeptInfo ==
    ASSUME Sized, IInv, IInv', KeptWithin, p_data + BLK <= p_info, PrivateInfo, count' = count + 1,
           UNCHANGED <<order, i, tail, read_buf, acked, dirty>>
    PROVE  KeptBetween' /\ count + 1 <= i /\ (read_buf = << >> <=> count + 1 = i)
<1>1. PICK c \in Nat, d \in Nat : c = count /\ d = c + 1
  BY DEF IInv, TypeOK
<1>2. /\ KeptWalk /\ Spare /\ i = Len(order) /\ c < i /\ i \in Nat
      /\ KeptRewritten(c) /\ KeptHalf(c) /\ Packed(d, Settled)
      /\ block.block_id = order[c + 1] /\ block.length = Entry(c).length
      /\ block.block_id \in Settled => block.crc = acked[block.block_id]
  <2>1. Packed(d, Settled)
    BY <1>1 DEF KeptWithin
  <2> QED BY <1>1, <2>1 DEF KeptWithin, IInv, TypeOK
<1>3. c \in 0 .. Len(order) - 1 /\ d <= i
  BY <1>1, <1>2
<1>4. PICK id \in Id : id = order[c + 1] /\ id \in Known
  BY <1>2, <1>3, KeptEntry
<1>5. /\ Fitting(block) /\ block.block_id = id /\ block # Blank
      /\ id \in Settled => Sound(block) /\ block.crc = acked[id]
  BY <1>2, <1>4, FittingIs DEF KeptHalf
<1>6. /\ flash' = Program(flash, p_info, InfoCells(block)) /\ p_info' = p_info - BLK /\ p_data' = p_data
      /\ table' = TableUpdate(block)
  BY <1>4, <1>5, TableHasRoom DEF PrivateInfo
<1>7. /\ Base(flash', d, Settled) /\ BlkAt(flash', c) = block /\ End(flash', d) = p_data
      /\ \A k \in 0 .. c - 1 : BlkAt(flash', k) = BlkAt(flash, k)
      /\ \A a \in Addr : a < p_info \/ p_info + BLK <= a => flash'[a] = flash[a]
  BY <1>1, <1>2, <1>6, KeptBlock
<1>8. /\ table'[id] = block
      /\ \A x \in Id : x # id => table'[x] = table[x]
  BY <1>5, <1>6, Typed DEF TableUpdate
<1>9. Known' = Known /\ Settled' = Settled
  BY <1>4, <1>5, <1>8 DEF Known, Settled
<1>10. p_info' \in Int /\ p_info' <= p_info /\ p_info' + BLK = p_info
  BY <1>6, Numbers, Geometry
<1>11. KeptWalk'
  <2>1. KeptDescribed'
    <3>1. \A x \in Id : table'[x] # Blank => Fitting(table'[x]) /\ table'[x].block_id = x
      BY <1>2, <1>5, <1>8 DEF KeptWalk, KeptDescribed
    <3>2. ASSUME NEW x \in Settled
          PROVE  \/ table'[x] = Blank /\ acked'[x] = << >>
                 \/ table'[x] # Blank /\ Sound(table'[x]) /\ table'[x].crc = acked'[x]
      <4>1. x \in Id
        BY DEF Settled
      <4>2. CASE x = id
        BY <1>5, <1>8, <4>2
      <4>3. CASE x # id
        BY <1>2, <1>8, <4>1, <4>3 DEF KeptWalk, KeptDescribed
      <4> QED BY <4>2, <4>3
    <3> QED BY <1>9, <3>1, <3>2 DEF KeptDescribed
  <2>2. \A a \in Addr :
            /\ (Slot(Len(order)) + BLK <= a /\ a < p_info' + BLK) \/ FirstInfo + BLK <= a
            /\ flash[a] = Erased
            => flash'[a] = Erased
    <3>1. ASSUME NEW a \in Addr, FirstInfo + BLK <= a
          PROVE  p_info + BLK <= a
      BY <3>1, Numbers, Geometry, AddrIs DEF Addr
    <3> QED BY <1>7, <1>10, <3>1
  <2>3. Clear(flash', Slot(Len(order)) + BLK, p_info' + BLK) /\ Clear(flash', FirstInfo + BLK, AreaSize)
    BY <1>2, <1>10, <2>2, KeptClear
  <2>4. Strays(p_info + BLK)'
    <3>1. ASSUME NEW a \in Addr, a < p_info
          PROVE  a < p_info + BLK
      BY <3>1, Numbers, Geometry, AddrIs DEF Addr
    <3>2. ASSUME NEW a \in Addr, a < p_info
          PROVE  Stray(flash'[a], dirty')
      BY <1>2, <1>7, <3>1, <3>2 DEF KeptWalk, Strays
    <3> QED BY <1>10, <3>2 DEF Strays
  <2>5. \A m \in 1 .. Len(read_buf') : Stray(read_buf'[m], dirty')
    BY <1>2 DEF KeptWalk
  <2> QED BY <1>2, <1>9, <2>1, <2>3, <2>4, <2>5 DEF KeptWalk
<1>12. ASSUME NEW n \in 0 .. i - 1
       PROVE  Entry(n)'.length = Entry(n).length
  <2>1. n \in 0 .. Len(order) - 1
    BY <1>2
  <2>2. order[n + 1] \in Id
    BY <1>2, <2>1, KeptEntry
  <2>3. CASE n = c
    BY <1>2, <1>4, <1>8, <2>3 DEF Entry
  <2>4. CASE n # c
    <3>1. n + 1 \in 1 .. Len(order) /\ c + 1 \in 1 .. Len(order) /\ n + 1 # c + 1
      BY <1>2, <1>3, <2>1, <2>4
    <3>2. order[n + 1] # id
      BY <1>2, <1>4, <3>1 DEF KeptWalk
    <3> QED BY <1>8, <2>2, <3>2 DEF Entry
  <2> QED BY <2>3, <2>4
<1>13. Packed(d, Settled)'
  <2>1. PICK S : S = Settled /\ S = Settled'
    BY <1>9
  <2>2. Packed(d, S) /\ UNCHANGED <<order, i, read_buf, p_data, acked>>
    BY <1>2, <1>6, <2>1
  <2>3. Packed(d, S)'
    BY <1>12, <2>2, PackedLengths
  <2> QED BY <2>1, <2>3
<1>14. KeptRewritten(d)'
  <2>1. Base(flash', d, Settled') /\ p_info' = Slot(d)
    <3>1. p_info = Slot(c)
      BY <1>2 DEF KeptRewritten
    <3> QED BY <1>1, <1>6, <1>7, <1>9, <3>1, SlotFacts
  <2>2. ASSUME NEW k \in 0 .. d - 1
        PROVE  BlkAt(flash', k).block_id = order[k + 1] /\ table'[order[k + 1]] = BlkAt(flash', k)
    <3>1. CASE k = c
      BY <1>2, <1>4, <1>7, <1>8, <3>1
    <3>2. CASE k # c
      <4>1. k \in 0 .. c - 1 /\ k + 1 \in 1 .. Len(order) /\ c + 1 \in 1 .. Len(order)
            /\ k + 1 # c + 1 /\ k \in 0 .. Len(order) - 1
        BY <1>1, <1>2, <3>2
      <4>2. order[k + 1] # id
        BY <1>2, <1>4, <4>1 DEF KeptWalk
      <4>3. order[k + 1] \in Id
        BY <1>2, <4>1, KeptEntry
      <4>4. BlkAt(flash, k).block_id = order[k + 1] /\ table[order[k + 1]] = BlkAt(flash, k)
        BY <1>2, <4>1 DEF KeptRewritten
      <4> QED BY <1>7, <1>8, <4>1, <4>2, <4>3, <4>4
    <3> QED BY <3>1, <3>2
  <2> QED BY <2>1, <2>2 DEF KeptRewritten
<1>15. Spare'
  <2>1. PICK x \in Nat, z \in Nat, e \in Nat :
            x = p_data /\ z = p_info /\ e = EraseSize /\ e <= z /\ e <= AreaSize
    <3>1. c \in 0 .. MaxVar
      BY <1>2, E2PAssumption DEF KeptWalk
    <3>2. AreaSize - EraseSize < p_info /\ EraseSize <= AreaSize - EraseSize
      BY <1>2, <3>1, SlotHigh DEF KeptRewritten
    <3> QED BY <3>2, Numbers, Geometry
  <2>2. ASSUME i > 0
        PROVE  EraseSize <= tail /\ Clear(flash', x, e)
    <3>1. EraseSize <= tail /\ Clear(flash, x, e)
      BY <1>2, <2>1, <2>2 DEF Spare
    <3>2. ASSUME NEW a \in x .. e - 1
          PROVE  flash'[a] = flash[a]
      <4>1. a \in Addr /\ a < z
        BY <2>1, AddrIs, Geometry
      <4> QED BY <1>7, <2>1, <4>1
    <3> QED BY <3>1, <3>2 DEF Clear
  <2> QED BY <1>6, <2>1, <2>2 DEF Spare
<1>16. KeptBetween'
  <2>1. count' = d /\ i' = i /\ order' = order
    BY <1>1
  <2>2. Packed(count, Settled)'
    <3>1. count' = d
      BY <2>1
    <3> QED BY ONLY <1>13, <3>1 DEF Packed
  <2>3. KeptRewritten(count)'
    <3>1. count' = d
      BY <2>1
    <3> QED BY ONLY <1>14, <3>1 DEF KeptRewritten
  <2>4. p_data' = End(flash', count')
    BY <1>6, <1>7, <2>1
  <2> QED BY <1>2, <1>3, <1>11, <1>15, <2>1, <2>2, <2>3, <2>4 DEF KeptBetween
<1>17. read_buf = << >> <=> d = i
  BY <1>2, <1>3, PackedEmpty, KeptLengthy
<1> QED BY <1>1, <1>3, <1>16, <1>17

LEMMA FlushBackInfoKept ==
    ASSUME Sized, IInv, IInv', FaultInv, FlushBackInfo
    PROVE  FaultInv'
<1>1. /\ KeptWithin /\ Ask /\ Late /\ PrivateInfo /\ count' = count + 1 /\ pc' = "fl_back"
      /\ UNCHANGED <<order, i, read_buf, acked, dirty, tail, req>>
  BY DEF FlushBackInfo, hist, FaultInv
<1>2. p_data + BLK <= p_info
  <2>1. remain_size >= BLK
    BY DEF IInv, LayoutOK, Pending, FlushBackInfo
  <2> QED BY <2>1, Typed, Geometry
<1>3. KeptBetween'
  BY <1>1, <1>2, KeptInfo
<1>4. Ask' /\ Late'
  BY <1>1 DEF Ask, Late
<1> QED BY <1>1, <1>3, <1>4 DEF FaultInv

LEMMA FlushRestInfoKept ==
    ASSUME Sized, IInv, IInv', FaultInv, FlushRestInfo
    PROVE  FaultInv'
<1>1. /\ KeptWithin /\ Ask /\ Late /\ PrivateInfo /\ count' = count + 1
      /\ pc' = IF read_buf = << >> THEN "fl_cfg" ELSE "fl_rest"
      /\ UNCHANGED <<order, i, read_buf, acked, dirty, tail, req>> /\ i \in Nat /\ count \in Nat
  BY DEF FlushRestInfo, RestPc, hist, FaultInv, IInv, TypeOK
<1>2. p_data + BLK <= p_info
  <2>1. remain_size >= BLK
    BY DEF IInv, LayoutOK, Pending, FlushRestInfo
  <2> QED BY <2>1, Typed, Geometry
<1>3. KeptBetween' /\ count + 1 <= i /\ (read_buf = << >> <=> count + 1 = i)
  BY <1>1, <1>2, KeptInfo
<1>4. Ask' /\ Late'
  BY <1>1 DEF Ask, Late
<1>5. CASE read_buf = << >>
  <2>1. pc' = "fl_cfg" /\ count' = i'
    BY <1>1, <1>3, <1>5
  <2> QED BY <1>3, <1>4, <2>1 DEF FaultInv
<1>6. CASE read_buf # << >>
  <2>1. pc' = "fl_rest" /\ count' < i'
    <3>1. count + 1 < i
      BY <1>1, <1>3, <1>6
    <3> QED BY <1>1, <1>6, <3>1
  <2> QED BY <1>3, <1>4, <2>1 DEF FaultInv
<1> QED BY <1>5, <1>6

-----------------------------------------------------------------------------
(* The end of e2p_flush after a fault *)

LEMMA PackedRoom ==
    ASSUME IInv, i = Len(order), NEW c \in Nat, c <= i, NEW S, Packed(c, S)
    PROVE  p_data <= EraseSize
<1>1. PICK pos \in [0 .. Len(order) -> 0 .. EraseSize] : pos[c] = p_data
  BY DEF Packed
<1>2. c \in 0 .. Len(order)
  BY DEF IInv, TypeOK
<1>3. pos[c] \in 0 .. EraseSize
  BY <1>2
<1> QED BY <1>1, <1>3, Geometry

LEMMA FlushEraseTailKept ==
    ASSUME Sized, IInv, IInv', FaultInv, FlushEraseTail
    PROVE  FaultInv'
<1>1. /\ KeptBetween /\ Ask /\ Late /\ tail < p_info - EraseSize /\ pc' = "fl_tail"
      /\ flash' = EraseRange(flash, tail, EraseSize) /\ tail' = tail + EraseSize
      /\ UNCHANGED <<p_data, p_info, table, req, order, i, count, read_buf, acked, dirty>>
      /\ tail \in Nat
  BY DEF FlushEraseTail, EraseTail, area, hist, FaultInv, IInv, TypeOK
<1>2. PICK c \in Nat : c = count
  BY DEF IInv, TypeOK
<1>3. /\ KeptWalk /\ Spare /\ i = Len(order) /\ c <= i /\ i \in Nat
      /\ Base(flash, c, Settled) /\ p_info = Slot(c) /\ p_data = End(flash, c) /\ Packed(c, Settled)
      /\ \A k \in 0 .. c - 1 : /\ BlkAt(flash, k).block_id = order[k + 1]
                               /\ table[order[k + 1]] = BlkAt(flash, k)
  <2>1. Packed(c, Settled) /\ KeptRewritten(c)
    BY <1>1, <1>2 DEF KeptBetween
  <2>2. i \in Nat
    BY DEF IInv, TypeOK
  <2> QED BY <1>1, <1>2, <2>1, <2>2 DEF KeptBetween, KeptRewritten
<1>4. /\ KeptWalk' /\ Known' = Known /\ Settled' = Settled
      /\ \A a \in Addr : flash'[a] = IF tail <= a /\ a < tail + EraseSize THEN Erased ELSE flash[a]
  BY <1>1, <1>3, KeptWalkErase
<1>5. p_data <= tail
  <2>1. CASE i > 0
    BY <1>1, <1>3, <2>1, PackedRoom, Numbers, Geometry DEF Spare
  <2>2. CASE ~(i > 0)
    <3>1. c = 0
      BY <1>3, <2>2
    <3>2. p_data = 0
      BY <1>3, <3>1 DEF End
    <3> QED BY <1>1, <3>2
  <2> QED BY <2>1, <2>2
<1>6. /\ Base(flash', c, Settled) /\ End(flash', c) = p_data
      /\ \A k \in 0 .. c - 1 : BlkAt(flash', k) = BlkAt(flash, k)
  <2>1. \A a \in Addr : a < End(flash, c) \/ (Slot(c) + BLK <= a /\ a < FirstInfo + BLK)
                         => flash'[a] = flash[a]
    <3>1. ASSUME NEW a \in Addr, a < p_data \/ p_info + BLK <= a
          PROVE  ~(tail <= a /\ a < tail + EraseSize)
      BY <1>1, <1>5, <3>1, Numbers, Geometry DEF Addr
    <3> QED BY <1>3, <1>4, <3>1
  <2>2. /\ Base(flash', c, Settled)
        /\ \A k \in 0 .. c : End(flash', k) = End(flash, k)
        /\ \A k \in 0 .. c - 1 : BlkAt(flash', k) = BlkAt(flash, k)
    <3>1. flash \in [Addr -> Cell] /\ flash' \in [Addr -> Cell] /\ Settled \subseteq Settled
      BY Typed, TypedNext
    <3> QED BY <1>3, <2>1, <3>1, BaseSame
  <2> QED BY <1>3, <2>2
<1>7. Packed(c, Settled)'
  <2>1. PICK S : S = Settled /\ S = Settled'
    BY <1>4
  <2>2. Packed(c, S)'
    BY <1>1, <1>3, <2>1, PackedSame
  <2> QED BY <2>1, <2>2
<1>8. Spare'
  <2>1. ASSUME i > 0
        PROVE  EraseSize <= tail + EraseSize /\ Clear(flash', p_data, EraseSize)
    <3>1. Clear(flash, p_data, EraseSize)
      BY <1>3, <2>1 DEF Spare
    <3>2. EraseSize <= AreaSize
      <4>1. 0 \in 0 .. MaxVar
        BY E2PAssumption
      <4>2. EraseSize <= AreaSize - EraseSize
        BY <4>1, SlotHigh
      <4> QED BY <4>2, Geometry
    <3>3. \A a \in Addr : p_data <= a /\ a < EraseSize /\ flash[a] = Erased => flash'[a] = Erased
      BY <1>4
    <3>4. p_data \in Nat /\ EraseSize \in Int
      BY Numbers, Geometry
    <3>5. Clear(flash', p_data, EraseSize)
      BY ONLY <3>1, <3>2, <3>3, <3>4, ClearKeeps
    <3>6. EraseSize <= tail + EraseSize
      BY <1>1, Geometry
    <3> QED BY <3>5, <3>6
  <2> QED BY <1>1, <2>1 DEF Spare
<1>9. KeptBetween'
  <2>1. count' = c /\ p_data' = p_data /\ p_info' = p_info /\ i' = i /\ order' = order /\ table' = table
    BY <1>1, <1>2
  <2>2. count' = c
    BY <2>1
  <2>3. Packed(count, Settled)'
    BY ONLY <1>7, <2>2 DEF Packed
  <2>4. KeptRewritten(count)'
    BY <1>3, <1>4, <1>6, <2>1 DEF KeptRewritten
  <2> QED BY <1>3, <1>4, <1>6, <1>8, <2>1, <2>3, <2>4 DEF KeptBetween
<1>10. Ask' /\ Late'
  BY <1>1 DEF Ask, Late
<1> QED BY <1>1, <1>9, <1>10 DEF FaultInv

LEMMA FlushTailDoneKept ==
    ASSUME Sized, IInv, IInv', FaultInv, FlushTailDone
    PROVE  FaultInv'
<1>1. /\ KeptBetween /\ Ask /\ Late
      /\ pc' = IF read_buf = << >> THEN "fl_cfg" ELSE "fl_rest"
      /\ UNCHANGED <<flash, p_data, p_info, table, req, order, i, count, tail, read_buf, acked, dirty>>
  BY DEF FlushTailDone, area, locals, hist, FaultInv
<1>2. PICK c \in Nat : c = count
  BY DEF IInv, TypeOK
<1>3. KeptWalk /\ i = Len(order) /\ c <= i /\ i \in Nat /\ Packed(c, Settled)
  <2>1. Packed(c, Settled)
    BY <1>1, <1>2 DEF KeptBetween
  <2>2. i \in Nat
    BY DEF IInv, TypeOK
  <2> QED BY <1>1, <1>2, <2>1, <2>2 DEF KeptBetween
<1>4. read_buf = << >> <=> c = i
  BY <1>3, PackedEmpty, KeptLengthy
<1>5. KeptBetween'
  BY <1>1, KeptBetweenSame
<1>6. Ask' /\ Late'
  BY <1>1 DEF Ask, Late
<1>7. CASE read_buf = << >>
  BY <1>1, <1>2, <1>4, <1>5, <1>6, <1>7 DEF FaultInv
<1>8. CASE read_buf # << >>
  <2>1. count' < i'
    BY <1>1, <1>2, <1>3, <1>4, <1>8
  <2> QED BY <1>1, <1>5, <1>6, <1>8, <2>1 DEF FaultInv
<1> QED BY <1>7, <1>8


LEMMA KeptAllRewritten ==
    ASSUME Sized, IInv, KeptWalk, NEW n \in Nat, n = Len(order), KeptRewritten(n)
    PROVE  \A id \in Settled : Recorded(flash, n, id, acked[id]) /\ Newest(flash, n, id, table[id])
<1>1. ASSUME NEW k \in 0 .. n - 1
      PROVE  /\ k + 1 \in 1 .. Len(order) /\ order[k + 1] \in Known
             /\ BlkAt(flash, k).block_id = order[k + 1]
             /\ table[order[k + 1]] = BlkAt(flash, k)
  BY DEF KeptWalk, KeptRewritten
<1>2. ASSUME NEW id \in Settled, id \notin Known
      PROVE  Recorded(flash, n, id, acked[id]) /\ Newest(flash, n, id, table[id])
  <2>1. table[id] = Blank
    BY <1>2 DEF Known, Settled
  <2>2. acked[id] = << >>
    BY <2>1 DEF KeptWalk, KeptDescribed
  <2>3. Absent(flash, n, id)
    BY <1>1, <1>2 DEF Absent
  <2> QED BY <2>1, <2>2, <2>3 DEF Recorded, Newest
<1>3. ASSUME NEW id \in Settled, id \in Known
      PROVE  Recorded(flash, n, id, acked[id]) /\ Newest(flash, n, id, table[id])
  <2>1. PICK m \in 1 .. Len(order) : order[m] = id
    BY <1>3 DEF KeptWalk
  <2>2. PICK k \in 0 .. n - 1 : k + 1 = m
    <3>1. m - 1 \in 0 .. n - 1 /\ (m - 1) + 1 = m
      OBVIOUS
    <3> QED BY <3>1
  <2>3. BlkAt(flash, k).block_id = id /\ table[id] = BlkAt(flash, k)
    BY <1>1, <2>1, <2>2
  <2>4. ASSUME NEW j \in k + 1 .. n - 1
        PROVE  BlkAt(flash, j).block_id # id
    <3>1. j \in 0 .. n - 1 /\ j + 1 \in 1 .. Len(order) /\ j + 1 # m
      BY <2>2
    <3>2. order[j + 1] # order[m]
      BY <3>1 DEF KeptWalk
    <3> QED BY <1>1, <2>1, <3>1, <3>2
  <2>5. Last(flash, n, id, k)
    BY <2>3, <2>4 DEF Last
  <2>6. table[id].crc = acked[id]
    BY <1>3 DEF KeptWalk, KeptDescribed, Known
  <2>7. acked[id] = BlkAt(flash, k).crc
    BY <2>3, <2>6
  <2> QED BY <2>3, <2>5, <2>7 DEF Recorded, Newest
<1> QED BY <1>2, <1>3

LEMMA FlushConfigInfoKept ==
    ASSUME Sized, IInv, IInv', FaultInv, FlushConfigInfo
    PROVE  FaultInv'
<1>1. /\ KeptBetween /\ count = i /\ Ask /\ Late
      /\ flash' = Program(flash, AreaSize - BLK, InfoCells(VersionBlk(version)))
      /\ UNCHANGED <<version, p_data, p_info, table, order, acked, dirty>>
      /\ \/ pc' = "idle" /\ req' = NoReq
         \/ pc' = "wr_data" /\ req' = req
  BY DEF FlushConfigInfo, area, locals, hist, FaultInv
<1>2. PICK n \in Nat : n = count /\ n = Len(order)
  BY <1>1 DEF KeptBetween, IInv, TypeOK
<1>3. KeptWalk /\ KeptRewritten(n) /\ p_data = End(flash, n)
  BY <1>1, <1>2 DEF KeptBetween
<1>4. Base(flash, n, Settled) /\ p_info = Slot(n) /\ Cardinality(Known) <= n
  BY <1>2, <1>3 DEF KeptRewritten, KeptWalk
<1>5. Marked' /\ \A a \in Addr : a < FirstInfo + BLK => flash'[a] = flash[a]
  BY <1>1, <1>3, VersionWritten DEF KeptWalk
<1>6. Known' = Known /\ Settled' = Settled
  BY <1>1 DEF Known, Settled
<1>7. /\ Base(flash', n, Settled) /\ End(flash', n) = p_data
      /\ \A k \in 0 .. n - 1 : BlkAt(flash', k) = BlkAt(flash, k)
  <2>1. \A a \in Addr : a < End(flash, n) \/ (Slot(n) + BLK <= a /\ a < FirstInfo + BLK)
                         => flash'[a] = flash[a]
    <3>1. ASSUME NEW a \in Addr, a < p_data
          PROVE  a < FirstInfo + BLK
      BY <3>1, Numbers, Geometry DEF Addr
    <3> QED BY <1>3, <1>5, <3>1
  <2>2. /\ Base(flash', n, Settled)
        /\ \A k \in 0 .. n : End(flash', k) = End(flash, k)
        /\ \A k \in 0 .. n - 1 : BlkAt(flash', k) = BlkAt(flash, k)
    <3>1. flash \in [Addr -> Cell] /\ flash' \in [Addr -> Cell] /\ Settled \subseteq Settled
      BY Typed, TypedNext
    <3> QED BY <1>4, <2>1, <3>1, BaseSame
  <2> QED BY <1>3, <2>2
<1>8. \A id \in Settled : Recorded(flash', n, id, acked[id]) /\ Newest(flash', n, id, table[id])
  <2>1. \A id \in Settled : Recorded(flash, n, id, acked[id]) /\ Newest(flash, n, id, table[id])
    BY <1>2, <1>3, KeptAllRewritten
  <2> QED BY <1>7, <2>1, NewestSame
<1>9. Strays(Slot(n) + BLK)'
  <2>1. ASSUME NEW a \in Addr, a < p_info + BLK
        PROVE  Stray(flash'[a], dirty)
    <3>1. a < FirstInfo + BLK
      BY <2>1, Numbers, Geometry, AddrIs DEF Addr
    <3> QED BY <1>3, <1>5, <2>1, <3>1 DEF KeptWalk, Strays
  <2> QED BY <1>1, <1>4, <2>1 DEF Strays
<1>10. Keeps(n)'
  BY <1>1, <1>5, <1>6, <1>7, <1>8, <1>9 DEF Keeps
<1>11. Table(n)' /\ Filled(n)'
  <2>1. \A id \in Id : table[id] # Blank => Fitting(table[id]) /\ table[id].block_id = id
    BY <1>3 DEF KeptWalk, KeptDescribed
  <2>2. Table(n)'
    BY <1>1, <1>6, <1>8, <2>1 DEF Table
  <2>3. Filled(n)'
    BY <1>1, <1>4, <1>6 DEF Filled
  <2> QED BY <2>2, <2>3
<1>12. KeptResting'
  <2>1. End(flash', n) <= p_data' /\ n <= n
    BY <1>1, <1>7, Numbers
  <2> QED BY <1>10, <1>11, <2>1 DEF KeptResting
<1>13. Ask' /\ Late'
  BY <1>1 DEF Ask, Late
<1> QED BY <1>1, <1>12, <1>13 DEF FaultInv

-----------------------------------------------------------------------------
(* Every step keeps the invariant of the faults *)

LEMMA PackedStill ==
    ASSUME NEW c, c = count \/ c = count + 1 \/ c = 0, Packed(c, Settled),
           UNCHANGED <<order, i, count, read_buf, p_data, table, acked, dirty>>
    PROVE  /\ c = count => Packed(count, Settled)'
           /\ c = count + 1 => Packed(count + 1, Settled)'
           /\ c = 0 => Packed(0, Settled)'
<1>1. PICK S : S = Settled /\ S = Settled'
  BY DEF Settled
<1>2. Packed(c, S)'
  BY <1>1, PackedSame
<1>3. ASSUME c = count PROVE Packed(count, Settled)'
  <2>1. c = count'
    BY <1>3
  <2> QED BY ONLY <1>1, <1>2, <2>1 DEF Packed
<1>4. ASSUME c = count + 1 PROVE Packed(count + 1, Settled)'
  <2>1. c = count' + 1
    BY <1>4
  <2> QED BY ONLY <1>1, <1>2, <2>1 DEF Packed
<1>5. ASSUME c = 0 PROVE Packed(0, Settled)'
  BY ONLY <1>1, <1>2, <1>5 DEF Packed
<1> QED BY <1>3, <1>4, <1>5

LEMMA StillKept ==
    ASSUME FaultInv, UNCHANGED vars
    PROVE  FaultInv'
<1>1. UNCHANGED <<flash, version, p_data, p_info, table, pc, req, block, order, i, count, head,
                  tail, read_buf, acked, dirty>>
  BY DEF vars, area, locals, hist
<1> USE <1>1
<1>2. /\ Known' = Known /\ Settled' = Settled /\ \A n : Entry(n)' = Entry(n)
      /\ KeptDescribed => KeptDescribed'
      /\ \A hi : Strays(hi) => Strays(hi)'
  BY DEF Known, Settled, Entry, KeptDescribed, Strays
<1>3. Ask' /\ Late'
  BY DEF FaultInv, Ask, Late
<1>4. pc' = "off" => KeptOff'
  BY KeepsStill DEF FaultInv, KeptOff
<1>5. (pc' = "cfg_erase" => Reset') /\ (pc' = "cfg_info" => Wiped')
  BY DEF FaultInv, Reset, Wiped
<1>6. pc' = "cfg_scan" => KeptScanning'
  <2>1. SUFFICES ASSUME KeptScanning PROVE KeptScanning'
    BY DEF FaultInv
  <2>2. PICK n \in Nat, q \in Nat, m \in Nat :
            /\ q <= n /\ Keeps(n) /\ Table(q) /\ Filled(m)
            /\ \/ q < n /\ m = q /\ p_data = End(flash, q)
               \/ q = n /\ n <= m /\ End(flash, n) <= p_data
    BY <2>1 DEF KeptScanning
  <2>3. Keeps(n)' /\ Table(q)' /\ Filled(m)'
    BY <2>2, KeepsStill, TableStill, FilledStill
  <2>4. \/ q < n /\ m = q /\ p_data' = End(flash', q)
        \/ q = n /\ n <= m /\ End(flash', n) <= p_data'
    BY <2>2
  <2> HIDE <1>1
  <2> QED BY <2>2, <2>3, <2>4 DEF KeptScanning
<1>7. KeptResting => KeptResting'
  <2>1. SUFFICES ASSUME KeptResting PROVE KeptResting'
    OBVIOUS
  <2>2. PICK n \in Nat, m \in Nat :
            n <= m /\ Keeps(n) /\ Table(n) /\ Filled(m) /\ End(flash, n) <= p_data
    BY <2>1 DEF KeptResting
  <2>3. Keeps(n)' /\ Table(n)' /\ Filled(m)'
    BY <2>2, KeepsStill, TableStill, FilledStill
  <2>4. End(flash', n) <= p_data'
    BY <2>2
  <2> HIDE <1>1
  <2> QED BY <2>2, <2>3, <2>4 DEF KeptResting
<1>8. pc' = "wr_info" => KeptResting' /\ Fitting(block') /\ block'.block_id = req'.id
  BY <1>7 DEF FaultInv
<1>9. pc' = "fl_restore" => KeptSaved'
  <2>1. SUFFICES ASSUME KeptSaved PROVE KeptSaved'
    BY DEF FaultInv
  <2>2. PICK m \in Nat : Filled(m)
    BY <2>1 DEF KeptSaved
  <2>3. Filled(m)'
    BY <2>2, FilledStill
  <2>4. /\ KeptDescribed'
        /\ \A id \in (Known \cap Settled)' : \A k \in 1 .. table'[id].length :
              LET a == table'[id].data_addr + k - 1 IN
              IF a < InfoSector' THEN flash'[a] = table'[id].crc[k]
              ELSE a < p_info' /\ read_buf'[a - InfoSector' + 1] = table'[id].crc[k]
        /\ Len(read_buf') = p_info' % EraseSize
        /\ Clear(flash', InfoSector', AreaSize)
        /\ Strays(InfoSector)'
        /\ \A k \in 1 .. Len(read_buf') : Stray(read_buf'[k], dirty')
    <3>1. InfoSector' = InfoSector
      BY DEF InfoSector
    <3>2. Strays(InfoSector)'
      BY <2>1, <3>1 DEF KeptSaved, Strays
    <3> QED BY <1>2, <2>1, <3>1, <3>2 DEF KeptSaved
  <2> HIDE <1>1
  <2> QED BY <2>3, <2>4 DEF KeptSaved
<1>10. KeptWalk => KeptWalk'
  <2>1. SUFFICES ASSUME KeptWalk PROVE KeptWalk'
    OBVIOUS
  <2>2. Clear(flash', Slot(Len(order)) + BLK, p_info' + BLK) /\ Clear(flash', FirstInfo + BLK, AreaSize)
    BY <2>1 DEF KeptWalk
  <2>3. Strays(p_info + BLK)' /\ \A m \in 1 .. Len(read_buf') : Stray(read_buf'[m], dirty')
    BY <2>1 DEF KeptWalk, Strays
  <2> QED BY <2>1, <2>2, <2>3, KeptWalkSame
<1>11. pc' = "fl_read" => KeptReading'
  BY <1>2, <1>10, PackedStill DEF FaultInv, KeptReading
<1>12. pc' = "fl_erase" => KeptErasing'
  BY <1>2, <1>10, PackedStill DEF FaultInv, KeptErasing
<1>13. KeptBetween => KeptBetween'
  BY KeptBetweenSame
<1>14. KeptWithin => KeptWithin'
  <2>1. SUFFICES ASSUME KeptWithin PROVE KeptWithin'
    OBVIOUS
  <2>2. Packed(count + 1, Settled)'
    BY <2>1, PackedStill DEF KeptWithin
  <2>3. Spare' /\ KeptRewritten(count)' /\ KeptHalf(count)'
    BY <1>2, <2>1 DEF KeptWithin, Spare, KeptRewritten, KeptHalf
  <2> QED BY <1>2, <1>10, <2>1, <2>2, <2>3 DEF KeptWithin
<1>15. (pc' = "fl_rest" => count' < i') /\ (pc' = "fl_cfg" => count' = i')
  BY DEF FaultInv
<1> QED BY <1>3, <1>4, <1>5, <1>6, <1>7, <1>8, <1>9, <1>11, <1>12, <1>13, <1>14, <1>15 DEF FaultInv

LEMMA StepKept ==
    ASSUME Sized, Careful \/ ~GoesOn, IInv, IInv', FaultInv, faults > 0, [Step \/ Call]_vars
    PROVE  pc' # "wild" => FaultInv'
<1>1. CASE \E v \in Version : Config(v)
  BY <1>1, ConfigKept
<1>2. CASE ConfigErase
  BY <1>2, ConfigEraseKept
<1>3. CASE ConfigInfo
  BY <1>3, ConfigInfoKept
<1>4. CASE ScanEnd
  BY <1>4, ScanEndKept
<1>5. CASE ScanBlock
  BY <1>5, ScanBlockKept
<1>7. CASE WriteData
  BY <1>7, WriteDataKept
<1>8. CASE WriteInfo
  BY <1>8, WriteInfoKept
<1>9. CASE FlushEraseInfo
  BY <1>9, FlushEraseInfoKept
<1>10. CASE FlushEraseShared
  BY <1>10, FlushEraseSharedKept
<1>11. CASE FlushRestore
  BY <1>11, FlushRestoreKept
<1>12. CASE FlushRead
  BY <1>12, FlushReadKept
<1>13. CASE FlushErase
  BY <1>13, FlushEraseKept
<1>14. CASE FlushSuspend
  BY <1>14, FlushSuspendKept
<1>15. CASE FlushBackData
  BY <1>15, FlushBackDataKept
<1>16. CASE FlushBackInfo
  BY <1>16, FlushBackInfoKept
<1>17. CASE FlushEraseTail
  BY <1>17, FlushEraseTailKept
<1>18. CASE FlushTailDone
  BY <1>18, FlushTailDoneKept
<1>19. CASE FlushRestData
  BY <1>19, FlushRestDataKept
<1>20. CASE FlushRestInfo
  BY <1>20, FlushRestInfoKept
<1>21. CASE FlushConfigInfo
  BY <1>21, FlushConfigInfoKept
<1>22. CASE \E id \in Id, v \in Val, len \in Lengths : Write(id, Payload(v, len))
  BY <1>22, WriteKept
<1>23. CASE FlushTry \/ FlushBegin \/ Restart
  BY <1>23, QuietKept
<1>24. CASE Format
  BY <1>24, FormatKept
<1>25. CASE UNCHANGED vars
  BY <1>25, StillKept
<1> QED BY <1>1, <1>2, <1>3, <1>4, <1>5, <1>7, <1>8, <1>9, <1>10, <1>11, <1>12, <1>13, <1>14,
           <1>15, <1>16, <1>17, <1>18, <1>19, <1>20, <1>21, <1>22, <1>23, <1>24, <1>25
        DEF Step, Call

\* No step but a fault counts one; before the first, nothing is unsettled.
LEMMA StepCounts ==
    ASSUME [Step \/ Call]_vars
    PROVE  faults' = faults /\ (faults = 0 => dirty' = dirty)
<1>1. CASE (\E v \in Version : Config(v)) \/ ConfigErase \/ ConfigInfo \/ ScanEnd \/ ScanBlock
  BY <1>1 DEF Config, ConfigErase, ConfigInfo, ScanEnd, ScanBlock, hist
<1>2. CASE WriteData \/ WriteInfo \/ FlushEraseInfo \/ FlushEraseShared \/ FlushRestore
  BY <1>2 DEF WriteData, WriteInfo, FlushEraseInfo, FlushEraseShared, FlushRestore, hist
<1>3. CASE FlushRead \/ FlushErase \/ FlushSuspend \/ FlushBackData \/ FlushBackInfo
  BY <1>3 DEF FlushRead, FlushErase, FlushSuspend, FlushBackData, FlushBackInfo, hist
<1>4. CASE FlushEraseTail \/ FlushTailDone \/ FlushRestData \/ FlushRestInfo \/ FlushConfigInfo
  BY <1>4 DEF FlushEraseTail, FlushTailDone, FlushRestData, FlushRestInfo, FlushConfigInfo, hist
<1>5. CASE \E id \in Id, v \in Val, len \in Lengths : Write(id, Payload(v, len))
  BY <1>5 DEF Write
<1>6. CASE FlushTry \/ FlushBegin \/ Restart \/ Format \/ UNCHANGED vars
  BY <1>6 DEF FlushTry, FlushBegin, Restart, Format, vars, hist
<1> QED BY <1>1, <1>2, <1>3, <1>4, <1>5, <1>6 DEF Step, Call

\* A call that has followed the bits of a torn block does not come back.
LEMMA WildStays ==
    ASSUME pc = "wild", [Step \/ Call]_vars
    PROVE  pc' = "wild"
<1>1. ~((\E v \in Version : Config(v)) \/ ConfigErase \/ ConfigInfo \/ ScanEnd \/ ScanBlock)
  BY DEF Config, ConfigErase, ConfigInfo, ScanEnd, ScanBlock
<1>2. ~(WriteData \/ WriteInfo \/ FlushEraseInfo \/ FlushEraseShared \/ FlushRestore)
  BY DEF WriteData, WriteInfo, FlushEraseInfo, FlushEraseShared, FlushRestore
<1>3. ~(FlushRead \/ FlushErase \/ FlushSuspend \/ FlushBackData \/ FlushBackInfo)
  BY DEF FlushRead, FlushErase, FlushSuspend, FlushBackData, FlushBackInfo
<1>4. ~(FlushEraseTail \/ FlushTailDone \/ FlushRestData \/ FlushRestInfo \/ FlushConfigInfo)
  BY DEF FlushEraseTail, FlushTailDone, FlushRestData, FlushRestInfo, FlushConfigInfo
<1>5. ~\E id \in Id, v \in Val, len \in Lengths : Write(id, Payload(v, len))
  BY DEF Write
<1>6. ~(FlushTry \/ FlushBegin \/ Restart \/ Format)
  BY DEF FlushTry, FlushBegin, Restart, Format
<1>7. UNCHANGED vars
  BY <1>1, <1>2, <1>3, <1>4, <1>5, <1>6 DEF Step, Call
<1> QED BY <1>7 DEF vars

\* The first fault finds the store whole, the next ones what the ones before
\* have left of it.
KeptInv ==
    /\ faults = 0 => StoreInv /\ dirty = {}
    /\ faults > 0 /\ pc # "wild" => FaultInv

LEMMA NextKept ==
    ASSUME Sized, Careful \/ ~GoesOn, FaultAt \subseteq {"wr_data", "wr_info"},
           IInv, IInv', KeptInv, [FaultyNext]_vars
    PROVE  KeptInv'
<1>1. faults \in Nat
  BY DEF IInv, TypeOK
<1>2. CASE [Step \/ Call]_vars
  <2>1. faults' = faults /\ (faults = 0 => dirty' = dirty)
    BY <1>2, StepCounts
  <2>2. CASE faults = 0
    <3>1. StoreInv' /\ dirty' = {} /\ faults' = 0
      BY <1>2, <2>1, <2>2, StepStore DEF KeptInv
    <3> QED BY <3>1 DEF KeptInv
  <2>3. CASE faults > 0
    <3>1. pc' # "wild" => FaultInv'
      BY <1>2, <2>3, StepKept, WildStays DEF KeptInv
    <3> QED BY <2>1, <2>3, <3>1 DEF KeptInv
  <2> QED BY <1>1, <2>2, <2>3
<1>3. CASE PowerLoss \/ WriteFails
  <2>1. /\ Fault /\ pc \in {"wr_data", "wr_info"}
        /\ UNCHANGED <<version, p_data, p_info, table, acked>>
        /\ pc' = "off" \/ pc' = "idle"
    BY <1>3 DEF PowerLoss, WriteFails, Fault, area
  <2>2. faults' > 0
    BY <1>1, <2>1 DEF Fault
  <2>3. KeptResting /\ Ask /\ (pc = "wr_info" => Fitting(block) /\ block.block_id = req.id)
    <3>1. CASE faults = 0
      <4>1. StoreInv
        BY <3>1 DEF KeptInv
      <4>2. CASE pc = "wr_data"
        BY <4>1, <4>2, RestingKept DEF StoreInv
      <4>3. CASE pc = "wr_info"
        BY <4>1, <4>3, HalfwayKept DEF StoreInv
      <4> QED BY <2>1, <4>2, <4>3
    <3>2. CASE faults > 0
      BY <2>1, <3>2 DEF KeptInv, FaultInv
    <3> QED BY <1>1, <3>1, <3>2
  <2>4. KeptResting' /\ KeptOff' /\ Late' /\ req' = NoReq
    BY <2>1, <2>3, FaultKept
  <2>5. Ask'
    BY <2>1, <2>4 DEF Ask
  <2>6. FaultInv'
    BY <2>1, <2>4, <2>5 DEF FaultInv
  <2> QED BY <2>2, <2>6 DEF KeptInv
<1>4. CASE ScanTorn
  <2>1. pc' = "wild" /\ faults' = faults
    BY <1>4 DEF ScanTorn
  <2>2. ~(faults = 0)
    BY <1>4, ScanTornNever DEF KeptInv
  <2> QED BY <2>1, <2>2 DEF KeptInv
<1> QED BY <1>2, <1>3, <1>4 DEF FaultyNext, Next

\* Between two calls a settled variable reads as it was last written.
LEMMA KeptReads ==
    ASSUME Sized, IInv, KeptResting, NEW id \in Settled
    PROVE  IF acked[id] = << >> THEN E2pRead(id, AreaSize).st = "bad_id"
           ELSE E2pRead(id, AreaSize).st = "ok" /\ E2pRead(id, AreaSize).data = acked[id]
<1>1. KeptDescribed /\ id \in Id
  BY KeptFacts DEF Settled
<1>2. CASE table[id] = Blank
  <2>1. acked[id] = << >>
    BY <1>1, <1>2 DEF KeptDescribed
  <2>2. E2pRead(id, AreaSize).st = "bad_id"
    BY <1>2 DEF E2pRead
  <2> QED BY <2>1, <2>2
<1>3. CASE table[id] # Blank
  <2>1. Sound(table[id]) /\ table[id].crc = acked[id] /\ Holds(flash, table[id])
    BY <1>1, <1>3, KeptFacts DEF KeptDescribed, Known
  <2>2. PICK len, from, crc :
            /\ len = table[id].length /\ from = table[id].data_addr /\ crc = table[id].crc
            /\ len \in Nat /\ crc \in Seq(Byte) /\ Len(crc) = len /\ len <= AreaSize /\ crc # << >>
    <3>1. PICK len, from, crc : len = table[id].length /\ from = table[id].data_addr /\ crc = table[id].crc
      OBVIOUS
    <3>2. /\ len \in Nat /\ from \in Nat /\ crc \in Seq(Byte) /\ Len(crc) = len /\ crc # << >>
          /\ from + len <= AreaSize
      BY <2>1, <3>1, SoundIs DEF Sound
    <3>3. len <= AreaSize
      BY <3>2, Geometry
    <3> QED BY <3>1, <3>2, <3>3
  <2>3. ReadCells(flash, from, len) = crc /\ Crc(crc) = crc
    BY <2>1, <2>2, ValueRead
  <2>4. E2pRead(id, AreaSize) =
            [st |-> "ok", data |-> SubSeq(crc, 1, IF AreaSize > len THEN len ELSE AreaSize)]
    BY <1>3, <2>2, <2>3 DEF E2pRead
  <2>5. (IF AreaSize > len THEN len ELSE AreaSize) = len
    BY <2>2, Geometry
  <2>6. SubSeq(crc, 1, len) = crc
    BY <2>2
  <2>7. E2pRead(id, AreaSize) = [st |-> "ok", data |-> crc]
    BY <2>4, <2>5, <2>6
  <2> QED BY <2>1, <2>2, <2>7
<1> QED BY <1>2, <1>3

LEMMA SettledReads ==
    ASSUME Sized, IInv, KeptInv
    PROVE  SettledSurvive
<1> SUFFICES ASSUME pc = "idle", NEW id \in Settled
             PROVE  IF acked[id] = << >> THEN E2pRead(id, AreaSize).st = "bad_id"
                    ELSE E2pRead(id, AreaSize).st = "ok" /\ E2pRead(id, AreaSize).data = acked[id]
  BY DEF SettledSurvive, Latest, Settled
<1>1. faults \in Nat /\ id \in Id
  BY DEF IInv, TypeOK, Settled
<1>2. KeptResting
  <2>1. CASE faults = 0
    BY <2>1, RestingKept DEF KeptInv, StoreInv
  <2>2. CASE faults > 0
    BY <2>2 DEF KeptInv, FaultInv
  <2> QED BY <1>1, <2>1, <2>2
<1> QED BY <1>2, KeptReads

-----------------------------------------------------------------------------
(* Until the store goes astray *)

\* A step after which nothing has gone wrong is one of E2P's, and no error of
\* e2p_config was ignored on it.
LEMMA NotAstray ==
    ASSUME astray \in Nat, astray = 0 => pc # "wild", [NextA]_varsA
    PROVE  /\ astray' \in Nat
           /\ astray' = 0 => /\ astray = 0 /\ [FaultyNext]_vars /\ ~GoesOn /\ pc' # "wild"
<1>1. CASE UNCHANGED varsA
  BY <1>1 DEF varsA, vars, GoesOn
<1>2. CASE NextA
  <2>1. astray' = IF astray = 0 THEN (IF pc' = "wild" \/ Unheeded THEN 1 ELSE 0)
                  ELSE IF CallBegins THEN astray + 1 ELSE astray
    BY <1>2 DEF NextA
  <2>2. ASSUME astray' = 0
        PROVE  astray = 0 /\ pc' # "wild" /\ ~Unheeded
    BY <2>1, <2>2
  <2>3. FaultyNext \/ ScanTakesTorn
    BY <1>2 DEF NextA
  <2>4. ScanTakesTorn => pc = "wild"
    BY DEF ScanTakesTorn
  <2>5. GoesOn => Unheeded
    BY DEF GoesOn, Unheeded
  <2> QED BY <2>1, <2>2, <2>3, <2>4, <2>5
<1> QED BY <1>1, <1>2

KeptSound == astray \in Nat /\ (astray = 0 => IInv /\ KeptInv /\ pc # "wild")
StoreSound == astray \in Nat /\ (astray = 0 => IInv /\ StoreInv)

LEMMA KeptSoundStays ==
    ASSUME Sized, FaultAt \subseteq {"wr_data", "wr_info"}, KeptSound, [NextA]_varsA
    PROVE  KeptSound'
<1>1. /\ astray' \in Nat
      /\ astray' = 0 => /\ astray = 0 /\ [FaultyNext]_vars /\ ~GoesOn /\ pc' # "wild"
  BY NotAstray DEF KeptSound
<1>2. ASSUME astray' = 0
      PROVE  IInv' /\ KeptInv'
  <2>1. IInv /\ KeptInv /\ [FaultyNext]_vars /\ ~GoesOn
    BY <1>1, <1>2 DEF KeptSound
  <2>2. IInv'
    BY <2>1, NextIInv
  <2> QED BY <2>1, <2>2, NextKept
<1> QED BY <1>1, <1>2 DEF KeptSound

LEMMA StoreSoundStays ==
    ASSUME MaxFaults = 0, Sized, StoreSound, [NextA]_varsA
    PROVE  /\ StoreSound'
           /\ astray' = 0 => \A a \in Addr : flash'[a] = Mixed => flash[a] = Mixed
           /\ astray = 0 => astray' = 0 \/ Unheeded
<1>1. StoreInv => pc # "wild"
  BY DEF StoreInv
<1>2. /\ astray' \in Nat
      /\ astray' = 0 => /\ astray = 0 /\ [FaultyNext]_vars /\ ~GoesOn /\ pc' # "wild"
  BY <1>1, NotAstray DEF StoreSound
<1>3. ASSUME astray' = 0
      PROVE  IInv' /\ StoreInv' /\ \A a \in Addr : flash'[a] = Mixed => flash[a] = Mixed
  <2>1. IInv /\ StoreInv /\ [FaultyNext]_vars /\ ~GoesOn
    BY <1>2, <1>3 DEF StoreSound
  <2>2. IInv'
    BY <2>1, NextIInv
  <2> QED BY <2>1, <2>2, NextStore
<1>4. ASSUME astray = 0, astray' # 0, ~Unheeded
      PROVE  FALSE
  <2>1. NextA /\ pc' = "wild"
    BY <1>4 DEF NextA, varsA
  <2>2. IInv /\ StoreInv /\ pc # "wild"
    BY <1>1, <1>4 DEF StoreSound
  <2>3. [FaultyNext]_vars
    BY <2>1, <2>2 DEF NextA, ScanTakesTorn
  <2>4. ~GoesOn
    BY <2>1 DEF GoesOn
  <2>5. IInv'
    BY <2>2, <2>3, NextIInv
  <2>6. StoreInv'
    BY <2>2, <2>3, <2>4, <2>5, NextStore
  <2> QED BY <2>1, <2>6 DEF StoreInv
<1> QED BY <1>2, <1>3, <1>4 DEF StoreSound

-----------------------------------------------------------------------------
(* The theorems *)

\* However many data and info writes fail or are cut off by a power loss, and
\* however often the system restarts, flushes and writes in between: between
\* two calls e2p_read returns for every variable that has not been written
\* since the first of these faults the value that was last written with
\* success (eeprom_emulation.c l.127-139, l.241-260).  This holds until an
\* e2p_config meets a torn info block, or returns an error and the application
\* goes on all the same; what is left after that is checked, not proved.
THEOREM SettledKept ==
    ASSUME Sized, FaultAt \subseteq {"wr_data", "wr_info"}
    PROVE  SpecA => []SettledSurvive
<1>1. InitA => KeptSound
  <2> SUFFICES ASSUME InitA PROVE KeptSound
    OBVIOUS
  <2>1. Init /\ astray = 0 /\ pc = "off" /\ faults = 0 /\ dirty = {}
    BY DEF InitA, Init
  <2>2. IInv /\ StoreInv
    BY <2>1, InitIInv, InitStore
  <2> QED BY <2>1, <2>2 DEF KeptSound, KeptInv
<1>2. KeptSound /\ [NextA]_varsA => KeptSound'
  BY KeptSoundStays
<1>3. KeptSound => SettledSurvive
  <2>1. CASE astray = 0
    BY <2>1, SettledReads DEF KeptSound
  <2>2. CASE astray # 0
    BY <2>2 DEF SettledSurvive
  <2> QED BY <2>1, <2>2
<1> QED BY <1>1, <1>2, <1>3, PTL DEF SpecA

\* The application that heeds no error of e2p_config, with values of any
\* length: without faults every read returns the latest value, the space the
\* next write takes is erased, and nothing is programmed over another content,
\* until the application ignores an error of e2p_config; and nothing else can
\* bring the store off its way (eeprom_emulation.c l.241-261).
THEOREM HeedlessReadsLatest ==
    ASSUME MaxFaults = 0, Sized
    PROVE  SpecA => /\ [](astray = 0 => ReadsLatest /\ FreeSpaceErased)
                    /\ [][astray' = 0 => \A a \in Addr : flash'[a] = Mixed => flash[a] = Mixed]_varsA
                    /\ [][astray = 0 => astray' = 0 \/ Unheeded]_varsA
<1>1. InitA => StoreSound
  BY InitIInv, InitStore DEF InitA, StoreSound
<1>2. StoreSound /\ [NextA]_varsA =>
          /\ StoreSound'
          /\ astray' = 0 => \A a \in Addr : flash'[a] = Mixed => flash[a] = Mixed
          /\ astray = 0 => astray' = 0 \/ Unheeded
  BY StoreSoundStays
<1>3. StoreSound => (astray = 0 => ReadsLatest /\ FreeSpaceErased)
  <2>1. IInv /\ StoreInv => ReadsLatest
    BY StoreReads
  <2>2. IInv /\ StoreInv => FreeSpaceErased
    BY StoreErased
  <2> QED BY <2>1, <2>2 DEF StoreSound
<1> QED BY <1>1, <1>2, <1>3, PTL DEF SpecA
==============================================================================
