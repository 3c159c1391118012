----------------------------- MODULE E2P_proofs -----------------------------
(***************************************************************************)
(* Proofs about E2P.  Types and layout: for every area, every set of       *)
(* variables and lengths, any number of faults at any step.  What is on    *)
(* the flash, and the store it implements: without faults, for every area  *)
(* that is Fit, in the hands of an application that is Careful.            *)
(* E2PFault_proofs goes on from here to what is left after faults, and to  *)
(* the application that is not.                                            *)
(***************************************************************************)
EXTENDS E2P, Multiples, SequenceTheorems, FiniteSetTheorems, TLAPS

-----------------------------------------------------------------------------
(* The flash operators *)

\* Programming cells keeps a flash a flash, wherever the cells fall.
LEMMA ProgramType ==
    ASSUME NEW f \in [Addr -> Cell], NEW a \in Int, NEW cells \in Seq(Cell)
    PROVE  Program(f, a, cells) \in [Addr -> Cell]
<1>1. \A o, n \in Cell : Nor(o, n) \in Cell
  BY DEF Nor, Cell, Byte, Mixed
<1>2. \A k \in 1 .. Len(cells) : cells[k] \in Cell
  BY ElementOfSeq
<1>3. Len(cells) \in Nat
  BY LenProperties
<1>4. Addr \subseteq Int
  BY E2PAssumption DEF Addr, AreaSize
<1>5. ASSUME NEW x \in Addr, x \in a .. a + Len(cells) - 1
      PROVE  Nor(f[x], cells[x - a + 1]) \in Cell
  <2>1. x - a + 1 \in 1 .. Len(cells)
    BY <1>3, <1>4, <1>5
  <2> QED BY <2>1, <1>1, <1>2
<1> QED BY <1>5 DEF Program

\* So does erasing.
LEMMA EraseType ==
    ASSUME NEW f \in [Addr -> Cell], NEW a, NEW size
    PROVE  EraseRange(f, a, size) \in [Addr -> Cell]
BY DEF EraseRange, Cell, Byte, Erased

\* A read gives len cells, whatever the address.
LEMMA ReadType ==
    ASSUME NEW f \in [Addr -> Cell], NEW a, NEW len \in Nat
    PROVE  /\ ReadCells(f, a, len) \in Seq(Cell)
           /\ Len(ReadCells(f, a, len)) = len
<1>1. Mixed \in Cell
  BY DEF Cell, Byte
<1>2. ReadCells(f, a, len) \in [1 .. len -> Cell]
  BY <1>1 DEF ReadCells
<1> QED BY <1>2

\* The cells of an info block.
LEMMA InfoCellsType ==
    ASSUME NEW b \in Blk
    PROVE  InfoCells(b) \in Seq(Cell) /\ Len(InfoCells(b)) = BLK
<1>1. InfoCells(b) \in [1 .. BLK -> Cell]
  BY E2PAssumption DEF InfoCells, InfoCell, Cell
<1>2. BLK \in Nat
  BY E2PAssumption
<1> QED BY <1>1, <1>2

\* A checksum is a sequence of bytes as long as what it is taken of.
LEMMA CrcType ==
    ASSUME NEW cells \in Seq(Cell)
    PROVE  Crc(cells) \in Seq(Byte)
<1>1. \A k \in 1 .. Len(cells) : cells[k] \in Cell
  BY ElementOfSeq
<1>2. \A cell \in Cell : cell.kind # "info" => cell \in Byte
  BY DEF Cell
<1>3. Mixed \in Byte
  BY DEF Byte
<1>4. Crc(cells) \in [1 .. Len(cells) -> Byte]
  BY <1>1, <1>2, <1>3 DEF Crc
<1>5. Len(cells) \in Nat
  BY LenProperties
<1> QED BY <1>4, <1>5

\* The blocks the code builds are blocks.
LEMMA BlockType ==
    ASSUME NEW id \in Id, NEW addr \in Nat, NEW cells \in Seq(Cell)
    PROVE  Block(id, addr, Len(cells), Crc(cells)) \in Blk
BY CrcType, LenProperties DEF Block, Blk

LEMMA ConstBlocks ==
    Blank \in Blk /\ \A v \in Version : VersionBlk(v) \in Blk
<1>1. MagicAddr \in Nat
  BY E2PAssumption DEF MagicAddr, AreaSize
<1>2. << >> \in Seq(Byte)
  BY EmptySeq
<1> QED BY <1>1, <1>2, E2PAssumption DEF Blank, VersionBlk, Block, Blk

\* The request of e2p_write, also when there is none.
LEMMA ReqType ==
    ASSUME TypeOK
    PROVE  /\ req.cells \in Seq(Byte) /\ req.cells \in Seq(Cell)
           /\ req.id \in Id \cup {NoId}
<1>1. << >> \in Seq(Byte)
  BY EmptySeq
<1>2. req.cells \in Seq(Byte) /\ req.id \in Id \cup {NoId}
  <2>1. CASE req = NoReq
    BY <2>1, <1>1 DEF NoReq
  <2>2. CASE req \in [id : Id, cells : Seq(Byte)]
    BY <2>2
  <2> QED BY <2>1, <2>2 DEF TypeOK
<1>3. Byte \subseteq Cell
  BY DEF Cell
<1> QED BY <1>2, <1>3, SeqMonotonic

\* The layout constants.
LEMMA Geometry ==
    /\ AreaSize \in Nat /\ FirstInfo \in Nat /\ FirstInfo = AreaSize - 2 * BLK
    /\ BLK \in Nat \ {0} /\ EraseSize \in Nat \ {0}
BY E2PAssumption DEF AreaSize, FirstInfo

-----------------------------------------------------------------------------
(* The inductive invariant *)

IInv == TypeOK /\ LayoutOK /\ FlowOK

LEMMA InitIInv == Init => IInv
<1> SUFFICES ASSUME Init PROVE IInv
  OBVIOUS
<1> USE Geometry
<1>1. flash \in [Addr -> Cell]
  BY DEF Init, Cell, Byte
<1>2. table \in [Id -> Blk] /\ block \in Blk
  BY ConstBlocks DEF Init
<1>3. /\ << >> \in Seq(Byte) /\ << >> \in Seq(Cell) /\ << >> \in Seq(Id)
      /\ Len(<< >>) = 0
  BY EmptySeq
<1>4. req \in [id : Id, cells : Seq(Byte)] \cup {NoReq}
  BY DEF Init
<1>5. TypeOK
  BY <1>1, <1>2, <1>3, <1>4 DEF Init, TypeOK, Empty, Pcs
<1>6. LayoutOK /\ FlowOK
  BY DEF Init, LayoutOK, FlowOK, Pending
<1> QED BY <1>5, <1>6 DEF IInv

-----------------------------------------------------------------------------
(* e2p_write_private.  Its two halves are taken alone: what they need of    *)
(* the caller is room for the data and the block.                           *)

LEMMA PrivateDataLemma ==
    ASSUME TypeOK, LayoutOK, NEW id \in Id, NEW cells \in Seq(Cell),
           PrivateFits(Len(cells)), Pending = 0, PrivateData(id, cells)
    PROVE  /\ flash' \in [Addr -> Cell] /\ block' \in Blk
           /\ p_data' \in Nat /\ p_info' \in Nat /\ remain_size' \in Nat
           /\ p_info' <= FirstInfo
           /\ remain_size' = p_info' - p_data'
           /\ remain_size' >= BLK
<1> USE Geometry
<1>1. Len(cells) \in Nat
  BY LenProperties
<1>2. flash' \in [Addr -> Cell]
  <2>1. flash \in [Addr -> Cell] /\ p_data \in Int
    BY DEF TypeOK
  <2>2. Program(flash, p_data, cells) \in [Addr -> Cell]
    BY <2>1, ProgramType
  <2> QED BY <2>2 DEF PrivateData
<1>3. block' \in Blk
  BY BlockType DEF TypeOK, PrivateData
<1>4. /\ p_data' = p_data + Len(cells) /\ p_info' = p_info
      /\ remain_size' = remain_size - Len(cells) /\ remain_size >= Len(cells) + BLK
  BY DEF PrivateData, PrivateFits
<1> QED BY <1>1, <1>2, <1>3, <1>4 DEF TypeOK, LayoutOK

LEMMA PrivateInfoLemma ==
    ASSUME TypeOK, LayoutOK, Pending = BLK, PrivateInfo
    PROVE  /\ flash' \in [Addr -> Cell] /\ table' \in [Id -> Blk]
           /\ p_data' \in Nat /\ p_info' \in Nat /\ remain_size' \in Nat
           /\ p_info' <= FirstInfo
           /\ remain_size' = p_info' - p_data'
           /\ 0 <= p_data' /\ 0 <= remain_size'
<1> USE Geometry
<1>1. flash' \in [Addr -> Cell]
  <2>1. InfoCells(block) \in Seq(Cell)
    BY InfoCellsType DEF TypeOK
  <2>2. flash \in [Addr -> Cell] /\ p_info \in Int
    BY DEF TypeOK
  <2>3. Program(flash, p_info, InfoCells(block)) \in [Addr -> Cell]
    BY <2>1, <2>2, ProgramType
  <2> QED BY <2>3 DEF PrivateInfo
<1>2. table' \in [Id -> Blk]
  BY DEF TypeOK, PrivateInfo, TableUpdate
<1>3. /\ p_data' = p_data /\ p_info' = p_info - BLK
      /\ remain_size' = remain_size - BLK /\ remain_size >= BLK
  BY DEF PrivateInfo, LayoutOK
<1> QED BY <1>1, <1>2, <1>3 DEF TypeOK, LayoutOK

\* A flush starts its loop with an empty area and a sorted table.
LEMMA BeginLoopLemma ==
    ASSUME TypeOK, NEW q \in Orders, BeginLoop(q)
    PROVE  /\ p_data' = 0 /\ p_info' = FirstInfo /\ remain_size' = FirstInfo
           /\ order' \in Seq(Id) /\ i' \in 0 .. Len(order')
           /\ count' \in Nat /\ head' \in Nat /\ tail' \in Nat
           /\ read_buf' \in Seq(Cell)
           /\ pc' \in {"fl_tail", "fl_read"}
           /\ pc' = "fl_read" => i' < Len(order')
<1>1. Known \subseteq Id
  BY DEF Known
<1>2. Cardinality(Known) \in Nat
  BY <1>1, E2PAssumption, FS_Subset, FS_CardinalityType
<1>3. q \in Seq(Id)
  BY <1>1, <1>2 DEF Orders
<1>4. Len(q) \in Nat /\ << >> \in Seq(Cell)
  BY <1>3, LenProperties, EmptySeq
<1> QED BY <1>3, <1>4 DEF BeginLoop, ResetPointers

\* Taking an entry out of the buffer leaves a buffer and what
\* e2p_write_private promises, if it writes at all.
LEMMA TakeEntryLemma ==
    ASSUME TypeOK, LayoutOK, Pending = 0, count < Len(order), TakeEntry
    PROVE  /\ flash' \in [Addr -> Cell] /\ block' \in Blk
           /\ p_data' \in Nat /\ p_info' \in Nat /\ remain_size' \in Nat
           /\ p_info' <= FirstInfo
           /\ remain_size' = p_info' - p_data'
           /\ PrivateFits(Entry(count).length) => remain_size' >= BLK
           /\ count' \in Nat /\ read_buf' \in Seq(Cell)
           /\ order' = order /\ i' = i /\ head' = head /\ tail' = tail
<1> DEFINE len == Entry(count).length
           cells == BufCells(len)
<1>1. order[count + 1] \in Id
  BY ElementOfSeq, LenProperties DEF TypeOK
<1>2. len \in Nat
  BY <1>1 DEF Entry, TypeOK, Blk
<1>3. Len(read_buf) \in Nat /\ \A k \in 1 .. Len(read_buf) : read_buf[k] \in Cell
  BY LenProperties, ElementOfSeq DEF TypeOK
<1>4. Mixed \in Cell
  BY DEF Cell, Byte
<1>5. cells \in [1 .. len -> Cell]
  BY <1>2, <1>3, <1>4 DEF BufCells
<1>6. cells \in Seq(Cell) /\ Len(cells) = len
  BY <1>2, <1>5
<1>7. read_buf' \in Seq(Cell)
  <2>1. CASE len + 1 <= Len(read_buf)
    BY <2>1, <1>2, <1>3, SubSeqProperties, SMTT(30) DEF TypeOK, TakeEntry
  <2>2. CASE len + 1 > Len(read_buf)
    BY <2>2, <1>2, <1>3, SubSeqProperties, SMTT(30) DEF TypeOK, TakeEntry
  <2> QED BY <2>1, <2>2, <1>2, <1>3
<1>8. CASE PrivateFits(len)
  <2>1. PrivateData(order[count + 1], cells) /\ count' = count
    BY <1>8 DEF TakeEntry
  <2>2. PrivateFits(Len(cells))
    BY <1>6, <1>8
  <2> HIDE DEF len, cells
  <2>3. /\ flash' \in [Addr -> Cell] /\ block' \in Blk
        /\ p_data' \in Nat /\ p_info' \in Nat /\ remain_size' \in Nat
        /\ p_info' <= FirstInfo
        /\ remain_size' = p_info' - p_data' /\ remain_size' >= BLK
    BY <1>1, <1>6, <2>1, <2>2, PrivateDataLemma
  <2> QED BY <1>7, <2>1, <2>3 DEF TakeEntry, TypeOK
<1>9. CASE ~PrivateFits(len)
  BY <1>7, <1>9 DEF TakeEntry, TypeOK, LayoutOK, area
<1> QED BY <1>8, <1>9

-----------------------------------------------------------------------------
(* Every step keeps the invariant *)

LEMMA NextIInv == IInv /\ [FaultyNext]_vars => IInv'
<1> SUFFICES ASSUME IInv, [FaultyNext]_vars PROVE IInv'
  OBVIOUS
<1> USE Geometry DEF IInv
<1>1. CASE \E v \in Version : Config(v)
  BY <1>1, ConstBlocks, SMTT(45) DEF Config, ResetPointers, TypeOK, LayoutOK, FlowOK, Pending, Pcs, area, locals, hist, Return
<1>2. CASE ConfigErase
  <2>1. flash' \in [Addr -> Cell]
    BY <1>2, EraseType DEF ConfigErase, TypeOK
  <2>2. acked' \in [Id -> Seq(Byte)]
    BY <1>2, EmptySeq DEF ConfigErase, Empty
  <2> QED BY <1>2, <2>1, <2>2 DEF ConfigErase, TypeOK, LayoutOK, FlowOK, Pending, Pcs, area, locals, hist, Return
<1>3. CASE ConfigInfo
  <2>1. InfoCells(VersionBlk(version)) \in Seq(Cell)
    BY InfoCellsType, ConstBlocks DEF TypeOK
  <2>2. Program(flash, AreaSize - BLK, InfoCells(VersionBlk(version))) \in [Addr -> Cell]
    <3>1. flash \in [Addr -> Cell] /\ AreaSize - BLK \in Int
      BY DEF TypeOK
    <3> QED BY <3>1, <2>1, ProgramType
  <2>3. flash' \in [Addr -> Cell]
    BY <1>3, <2>2 DEF ConfigInfo
  <2> QED BY <1>3, <2>3 DEF ConfigInfo, TypeOK, LayoutOK, FlowOK, Pending, Pcs, area, locals, hist, Return
<1>4. CASE ScanEnd
  BY <1>4 DEF ScanEnd, TypeOK, LayoutOK, FlowOK, Pending, Pcs, area, locals, hist, Return
<1>5. CASE ScanBlock
  <2> DEFINE b == SlotBlock(p_info)
  <2>1. p_info \in Addr
    BY DEF TypeOK, LayoutOK, Addr
  <2>2. flash[p_info] \in Cell /\ flash[p_info].kind = "info"
    BY <1>5, <2>1 DEF ScanBlock, SlotWhole, SlotTorn, TypeOK
  <2>3. b \in Blk
    BY <2>2 DEF Cell, Byte, Erased, Mixed, SlotBlock
  <2>4. b.length \in Nat
    BY <2>3 DEF Blk
  <2>5. b.block_id \in Id /\ b.length + BLK <= remain_size
    BY <1>5 DEF ScanBlock, SlotWhole
  <2>6. CASE TableRoom(b.block_id)
    <3>1. table' \in [Id -> Blk]
      BY <1>5, <2>3, <2>6 DEF ScanBlock, TableUpdate, TypeOK
    <3>2. /\ p_data' = p_data + b.length /\ p_info' = p_info - BLK
          /\ remain_size' = remain_size - (b.length + BLK)
      BY <1>5, <2>6 DEF ScanBlock, ScanAdvance
    <3>3. pc' \in {"off", "idle", "cfg_scan"}
      BY <1>5, <2>6 DEF ScanBlock, Refuse
    <3> HIDE DEF b
    <3>4. p_data' \in Nat /\ p_info' \in Nat /\ remain_size' \in Nat
      BY <3>2, <2>4, <2>5, SMTT(20) DEF TypeOK, LayoutOK
    <3>5. LayoutOK'
      BY <3>2, <3>3, <3>4, <2>4, <2>5, SMTT(20) DEF TypeOK, LayoutOK, Pending
    <3> QED BY <1>5, <3>1, <3>3, <3>4, <3>5 DEF ScanBlock, TypeOK, FlowOK, Pcs, locals, hist
  <2>7. CASE ~TableRoom(b.block_id)
    BY <1>5, <2>7 DEF ScanBlock, Refuse, TypeOK, LayoutOK, FlowOK, Pending, Pcs, area, locals, hist, Return
  <2> QED BY <2>6, <2>7
<1>6. CASE ScanTorn
  BY <1>6 DEF ScanTorn, TypeOK, LayoutOK, FlowOK, Pending, Pcs, area, locals, hist, Return
<1>7. CASE \E id \in Id, v \in Val, len \in Lengths : Write(id, Payload(v, len))
  <2>1. PICK id \in Id, v \in Val, len \in Lengths : Write(id, Payload(v, len))
    BY <1>7
  <2>2. len \in Nat
    BY E2PAssumption
  <2>3. Payload(v, len) \in [1 .. len -> Byte]
    BY <2>2 DEF Payload, DataCell, Byte
  <2>4. Payload(v, len) \in Seq(Byte)
    BY <2>2, <2>3
  <2>5. req' \in [id : Id, cells : Seq(Byte)] /\ req'.cells = Payload(v, len)
    BY <2>1, <2>4 DEF Write
  <2>6. req' # NoReq
    BY <2>5, E2PAssumption DEF NoReq
  <2> QED BY <2>1, <2>5, <2>6 DEF Write, PrivateFits, TypeOK, LayoutOK, FlowOK, Pending, Pcs, area, locals, hist, Return
<1>8. CASE FlushTry
  BY <1>8 DEF FlushTry, TypeOK, LayoutOK, FlowOK, Pending, Pcs, area, locals, hist, Return
<1>9. CASE FlushBegin
  BY <1>9 DEF FlushBegin, TypeOK, LayoutOK, FlowOK, Pending, Pcs, area, locals, hist, Return
<1>10. CASE WriteData
  <2>1. req.cells \in Seq(Cell) /\ req.id \in Id
    BY <1>10, SeqMonotonic DEF WriteData, TypeOK, FlowOK, Cell
  <2>2. PrivateFits(Len(req.cells)) /\ Pending = 0
    BY <1>10 DEF WriteData, FlowOK, Pending
  <2>3. PrivateData(req.id, req.cells)
    BY <1>10 DEF WriteData
  <2>4. /\ flash' \in [Addr -> Cell] /\ block' \in Blk
        /\ p_data' \in Nat /\ p_info' \in Nat /\ remain_size' \in Nat
        /\ p_info' <= FirstInfo
        /\ remain_size' = p_info' - p_data' /\ remain_size' >= BLK
    BY <2>1, <2>2, <2>3, PrivateDataLemma
  <2>5. TypeOK'
    BY <1>10, <2>4 DEF WriteData, TypeOK, Pcs, hist, locals
  <2>6. Pending' = BLK /\ FlowOK'
    BY <1>10 DEF WriteData, Pending, FlowOK
  <2>7. 0 <= p_data'
    BY <2>4
  <2> QED BY <2>4, <2>5, <2>6, <2>7 DEF LayoutOK
<1>11. CASE WriteInfo
  <2>1. Pending = BLK
    BY <1>11 DEF WriteInfo, Pending
  <2>2. req.cells \in Seq(Byte)
    BY ReqType
  <2>3. acked' \in [Id -> Seq(Byte)]
    BY <1>11, <2>2 DEF WriteInfo, TypeOK
  <2>4. PrivateInfo
    BY <1>11 DEF WriteInfo
  <2>5. /\ flash' \in [Addr -> Cell] /\ table' \in [Id -> Blk]
        /\ p_data' \in Nat /\ p_info' \in Nat /\ remain_size' \in Nat
        /\ p_info' <= FirstInfo
        /\ remain_size' = p_info' - p_data'
        /\ 0 <= p_data' /\ 0 <= remain_size'
    BY <2>1, <2>4, PrivateInfoLemma
  <2>6. pc' \in {"idle", "fl_back", "fl_cfg", "fl_rest"}
    BY <1>11 DEF WriteInfo
  <2>10. UNCHANGED <<version, block, order, i, count, head, tail, read_buf, faults, dirty>> /\ req' = NoReq
    BY <1>11 DEF WriteInfo, locals
  <2>7. TypeOK'
    BY <2>3, <2>5, <2>6, <2>10 DEF TypeOK, Pcs
  <2>8. Pending' = 0 /\ FlowOK'
    BY <2>6 DEF Pending, FlowOK
  <2>9. LayoutOK'
    BY <2>5, <2>8 DEF LayoutOK
  <2> QED BY <2>7, <2>8, <2>9
<1>12. CASE FlushTailDone
  BY <1>12 DEF FlushTailDone, TypeOK, LayoutOK, FlowOK, Pending, Pcs, area, locals, hist, Return
<1>13. CASE FlushSuspend
  BY <1>13 DEF FlushSuspend, validNum, TypeOK, LayoutOK, FlowOK, Pending, Pcs, area, locals, hist, Return
<1>14. CASE FlushEraseInfo
  <2>1. flash' \in [Addr -> Cell]
    BY <1>14, EraseType DEF FlushEraseInfo, EraseFrom, TypeOK
  <2>5. PICK q \in Orders : BeginLoop(q)
    BY <1>14 DEF FlushEraseInfo
  <2>6. /\ p_data' = 0 /\ p_info' = FirstInfo /\ remain_size' = FirstInfo
        /\ order' \in Seq(Id) /\ i' \in 0 .. Len(order')
        /\ count' \in Nat /\ head' \in Nat /\ tail' \in Nat
        /\ read_buf' \in Seq(Cell)
        /\ pc' \in {"fl_tail", "fl_read"}
        /\ pc' = "fl_read" => i' < Len(order')
    BY <2>5, BeginLoopLemma
  <2> QED BY <1>14, <2>1, <2>6, SMTT(45) DEF FlushEraseInfo, TypeOK, LayoutOK, FlowOK, Pending, Pcs, hist
<1>15. CASE FlushEraseShared
  <2>1. flash' \in [Addr -> Cell]
    BY <1>15, EraseType DEF FlushEraseShared, EraseFrom, TypeOK
  <2>2. p_info % EraseSize \in Nat
    BY DEF TypeOK
  <2>3. read_buf' \in Seq(Cell)
    BY <1>15, <2>2, ReadType DEF FlushEraseShared, TypeOK
  <2> QED BY <1>15, <2>1, <2>3 DEF FlushEraseShared, TypeOK, LayoutOK, FlowOK, Pending, Pcs, area, locals, hist, Return
<1>16. CASE FlushRestore
  <2>1. InfoSector \in Int
    BY DEF InfoSector, TypeOK
  <2>2. Program(flash, InfoSector, read_buf) \in [Addr -> Cell]
    BY <2>1, ProgramType DEF TypeOK
  <2>5. PICK q \in Orders : BeginLoop(q)
    BY <1>16 DEF FlushRestore
  <2>6. /\ p_data' = 0 /\ p_info' = FirstInfo /\ remain_size' = FirstInfo
        /\ order' \in Seq(Id) /\ i' \in 0 .. Len(order')
        /\ count' \in Nat /\ head' \in Nat /\ tail' \in Nat
        /\ read_buf' \in Seq(Cell)
        /\ pc' \in {"fl_tail", "fl_read"}
        /\ pc' = "fl_read" => i' < Len(order')
    BY <2>5, BeginLoopLemma
  <2> QED BY <1>16, <2>2, <2>6, SMTT(30) DEF FlushRestore, TypeOK, LayoutOK, FlowOK, Pending, Pcs, hist
<1>17. CASE FlushRead
  <2>1. i < Len(order) /\ i + 1 \in 1 .. Len(order) /\ Len(order) \in Nat
    BY <1>17, LenProperties DEF FlushRead, FlowOK, TypeOK
  <2>2. Entry(i) \in Blk
    BY <2>1, ElementOfSeq DEF Entry, TypeOK
  <2>3. Entry(i).length \in Nat /\ Entry(i).data_addr \in Nat
    BY <2>2 DEF Blk
  <2>4. ReadCells(flash, Entry(i).data_addr, Entry(i).length) \in Seq(Cell)
    BY <2>3, ReadType DEF TypeOK
  <2>5. read_buf' \in Seq(Cell)
    BY <1>17, <2>4, ConcatProperties DEF FlushRead, TypeOK
  <2>6. tail' \in Nat
    BY <1>17, <2>3 DEF FlushRead
  <2>7. i' = i + 1 /\ pc' \in {"fl_erase", "fl_read"} /\ (pc' = "fl_read" => i' # Len(order))
    BY <1>17 DEF FlushRead, validNum
  <2>8. UNCHANGED <<flash, version, area, table, req, block, order, count, head, ret, faults, acked, dirty>>
    BY <1>17 DEF FlushRead, hist
  <2>9. TypeOK'
    BY <2>1, <2>5, <2>6, <2>7, <2>8 DEF TypeOK, Pcs, area
  <2>10. LayoutOK'
    <3>1. pc = "fl_read"
      BY <1>17 DEF FlushRead
    <3>2. Pending = 0 /\ Pending' = 0
      BY <2>7, <3>1 DEF Pending
    <3> QED BY <2>8, <3>2 DEF LayoutOK, area
  <2>11. FlowOK'
    BY <2>1, <2>7, <2>8 DEF FlowOK
  <2> QED BY <2>9, <2>10, <2>11
<1>18. CASE FlushErase
  <2>1. flash' \in [Addr -> Cell]
    BY <1>18, EraseType DEF FlushErase, EraseHead, TypeOK
  <2> QED BY <1>18, <2>1 DEF FlushErase, EraseHead, TypeOK, LayoutOK, FlowOK, Pending, Pcs, area, locals, hist, Return
<1>19. CASE FlushBackData
  <2>1. Len(order) \in Nat /\ count < Len(order) /\ Pending = 0
    BY <1>19, LenProperties DEF FlushBackData, TypeOK, Pending
  <2>2. TakeEntry
    BY <1>19 DEF FlushBackData
  <2>3. /\ flash' \in [Addr -> Cell] /\ block' \in Blk
        /\ p_data' \in Nat /\ p_info' \in Nat /\ remain_size' \in Nat
        /\ p_info' <= FirstInfo
        /\ remain_size' = p_info' - p_data'
        /\ PrivateFits(Entry(count).length) => remain_size' >= BLK
        /\ count' \in Nat /\ read_buf' \in Seq(Cell)
        /\ order' = order /\ i' = i /\ head' = head /\ tail' = tail
    BY <2>1, <2>2, TakeEntryLemma
  <2>4. \/ pc' = "wb_info" /\ remain_size' >= BLK
        \/ pc' = "fl_back"
    BY <1>19, <2>3 DEF FlushBackData
  <2>5. UNCHANGED <<version, table, req, ret, faults, acked, dirty>>
    BY <1>19 DEF FlushBackData, hist
  <2>6. TypeOK'
    BY <2>3, <2>4, <2>5 DEF TypeOK, Pcs
  <2>7. LayoutOK'
    <3>1. remain_size' >= Pending'
      <4>1. CASE pc' = "wb_info" /\ remain_size' >= BLK
        BY <4>1 DEF Pending
      <4>2. CASE pc' # "wb_info"
        <5>1. Pending' = 0
          BY <2>4, <4>2 DEF Pending
        <5>2. remain_size' \in Nat
          BY <2>3
        <5>3. remain_size' >= 0
          BY <5>2
        <5> QED BY <5>1, <5>3
      <4> QED BY <2>4, <4>1, <4>2
    <3>2. p_data' \in Nat /\ p_info' <= FirstInfo /\ remain_size' = p_info' - p_data'
      BY <2>3
    <3> QED BY <3>1, <3>2 DEF LayoutOK
  <2>8. FlowOK'
    BY <2>4 DEF FlowOK
  <2> QED BY <2>6, <2>7, <2>8
<1>20. CASE FlushBackInfo
  <2>1. Pending = BLK
    BY <1>20 DEF FlushBackInfo, Pending
  <2>4. PrivateInfo
    BY <1>20 DEF FlushBackInfo
  <2>5. /\ flash' \in [Addr -> Cell] /\ table' \in [Id -> Blk]
        /\ p_data' \in Nat /\ p_info' \in Nat /\ remain_size' \in Nat
        /\ p_info' <= FirstInfo
        /\ remain_size' = p_info' - p_data'
        /\ 0 <= p_data' /\ 0 <= remain_size'
    BY <2>1, <2>4, PrivateInfoLemma
  <2>6. pc' \in {"idle", "fl_back", "fl_cfg", "fl_rest"}
    BY <1>20 DEF FlushBackInfo
  <2>10. /\ UNCHANGED <<version, req, block, order, i, head, tail, read_buf, faults, acked, dirty>>
         /\ count' = count + 1
    BY <1>20 DEF FlushBackInfo, hist
  <2>11. pc' \in Pcs
    BY <2>6 DEF Pcs
  <2>12. count' \in Nat /\ order' \in Seq(Id) /\ i' \in 0 .. Len(order')
    BY <2>10 DEF TypeOK
  <2>13. /\ version' \in Version /\ req' \in [id : Id, cells : Seq(Byte)] \cup {NoReq}
         /\ block' \in Blk /\ head' \in Nat /\ tail' \in Nat
         /\ read_buf' \in Seq(Cell) /\ faults' \in Nat
         /\ acked' \in [Id -> Seq(Byte)] /\ dirty' \subseteq Id \cup {NoId}
    BY <2>10 DEF TypeOK, NoReq
  <2>7. TypeOK'
    BY <2>5, <2>11, <2>12, <2>13 DEF TypeOK, NoReq
  <2>8. Pending' = 0 /\ FlowOK'
    BY <2>6 DEF Pending, FlowOK
  <2>9. LayoutOK'
    BY <2>5, <2>8 DEF LayoutOK
  <2> QED BY <2>7, <2>8, <2>9
<1>21. CASE FlushEraseTail
  <2>1. flash' \in [Addr -> Cell]
    BY <1>21, EraseType DEF FlushEraseTail, EraseTail, TypeOK
  <2> QED BY <1>21, <2>1 DEF FlushEraseTail, EraseTail, TypeOK, LayoutOK, FlowOK, Pending, Pcs, area, locals, hist, Return
<1>22. CASE FlushRestData
  <2>1. count < Len(order) /\ Pending = 0
    BY <1>22 DEF FlushRestData, validNum, Pending
  <2>2. TakeEntry
    BY <1>22 DEF FlushRestData
  <2>3. /\ flash' \in [Addr -> Cell] /\ block' \in Blk
        /\ p_data' \in Nat /\ p_info' \in Nat /\ remain_size' \in Nat
        /\ p_info' <= FirstInfo
        /\ remain_size' = p_info' - p_data'
        /\ PrivateFits(Entry(count).length) => remain_size' >= BLK
        /\ count' \in Nat /\ read_buf' \in Seq(Cell)
        /\ order' = order /\ i' = i /\ head' = head /\ tail' = tail
    BY <2>1, <2>2, TakeEntryLemma
  <2>4. \/ pc' = "rw_info" /\ remain_size' >= BLK
        \/ pc' \in {"fl_cfg", "fl_rest"}
    BY <1>22, <2>3 DEF FlushRestData, RestPc
  <2>5. UNCHANGED <<version, table, req, ret, faults, acked, dirty>>
    BY <1>22 DEF FlushRestData, hist
  <2>6. TypeOK'
    BY <2>3, <2>4, <2>5 DEF TypeOK, Pcs
  <2>7. LayoutOK'
    <3>1. remain_size' >= Pending'
      <4>1. CASE pc' = "rw_info" /\ remain_size' >= BLK
        BY <4>1 DEF Pending
      <4>2. CASE pc' # "rw_info"
        <5>1. Pending' = 0
          BY <2>4, <4>2 DEF Pending
        <5>2. remain_size' \in Nat
          BY <2>3
        <5>3. remain_size' >= 0
          BY <5>2
        <5> QED BY <5>1, <5>3
      <4> QED BY <2>4, <4>1, <4>2
    <3>2. p_data' \in Nat /\ p_info' <= FirstInfo /\ remain_size' = p_info' - p_data'
      BY <2>3
    <3> QED BY <3>1, <3>2 DEF LayoutOK
  <2>8. FlowOK'
    BY <2>4 DEF FlowOK
  <2> QED BY <2>6, <2>7, <2>8
<1>23. CASE FlushRestInfo
  <2>1. Pending = BLK
    BY <1>23 DEF FlushRestInfo, Pending
  <2>4. PrivateInfo
    BY <1>23 DEF FlushRestInfo
  <2>5. /\ flash' \in [Addr -> Cell] /\ table' \in [Id -> Blk]
        /\ p_data' \in Nat /\ p_info' \in Nat /\ remain_size' \in Nat
        /\ p_info' <= FirstInfo
        /\ remain_size' = p_info' - p_data'
        /\ 0 <= p_data' /\ 0 <= remain_size'
    BY <2>1, <2>4, PrivateInfoLemma
  <2>6. pc' \in {"idle", "fl_back", "fl_cfg", "fl_rest"}
    BY <1>23 DEF FlushRestInfo, RestPc
  <2>10. /\ UNCHANGED <<version, req, block, order, i, head, tail, read_buf, faults, acked, dirty>>
         /\ count' = count + 1
    BY <1>23 DEF FlushRestInfo, hist
  <2>11. pc' \in Pcs
    BY <2>6 DEF Pcs
  <2>12. count' \in Nat /\ order' \in Seq(Id) /\ i' \in 0 .. Len(order')
    BY <2>10 DEF TypeOK
  <2>13. /\ version' \in Version /\ req' \in [id : Id, cells : Seq(Byte)] \cup {NoReq}
         /\ block' \in Blk /\ head' \in Nat /\ tail' \in Nat
         /\ read_buf' \in Seq(Cell) /\ faults' \in Nat
         /\ acked' \in [Id -> Seq(Byte)] /\ dirty' \subseteq Id \cup {NoId}
    BY <2>10 DEF TypeOK, NoReq
  <2>7. TypeOK'
    BY <2>5, <2>11, <2>12, <2>13 DEF TypeOK, NoReq
  <2>8. Pending' = 0 /\ FlowOK'
    BY <2>6 DEF Pending, FlowOK
  <2>9. LayoutOK'
    BY <2>5, <2>8 DEF LayoutOK
  <2> QED BY <2>7, <2>8, <2>9
<1>24. CASE FlushConfigInfo
  <2>1. InfoCells(VersionBlk(version)) \in Seq(Cell)
    BY InfoCellsType, ConstBlocks DEF TypeOK
  <2>2. flash \in [Addr -> Cell] /\ AreaSize - BLK \in Int
    BY DEF TypeOK
  <2>3. Program(flash, AreaSize - BLK, InfoCells(VersionBlk(version))) \in [Addr -> Cell]
    BY <2>1, <2>2, ProgramType
  <2> QED BY <1>24, <2>3 DEF FlushConfigInfo, WriteFitsNow, PrivateFits, TypeOK, LayoutOK, FlowOK, Pending, Pcs, area, locals, hist, Return
<1>25. CASE Format
  <2>1. flash' \in [Addr -> Cell]
    BY <1>25, EraseType DEF Format, TypeOK
  <2>2. acked' \in [Id -> Seq(Byte)]
    BY <1>25, EmptySeq DEF Format, Empty
  <2> QED BY <1>25, <2>1, <2>2 DEF Format, TypeOK, LayoutOK, FlowOK, Pending, Pcs, area, locals, hist, Return
<1>26. CASE Restart
  BY <1>26 DEF Restart, TypeOK, LayoutOK, FlowOK, Pending, Pcs, area, locals, hist, Return
<1>27. ASSUME Fault
      PROVE  /\ flash' \in [Addr -> Cell] /\ faults' \in Nat
             /\ dirty' \subseteq Id \cup {NoId} /\ req' = NoReq
  <2>1. PICK n \in 0 .. CallLen : flash' = TornFlash(n)
    BY <1>27 DEF Fault
  <2>2. CallLen \in Nat /\ n \in Int
    BY LenProperties DEF CallLen, TypeOK, NoReq
  <2>3. ASSUME pc = "wr_data" PROVE flash' \in [Addr -> Cell]
    <3>1. CallLen = Len(req.cells) /\ TornFlash(n) = Program(flash, p_data, SubSeq(req.cells, 1, n))
      BY <2>3 DEF CallLen, TornFlash
    <3>2. req.cells \in Seq(Cell)
      BY ReqType
    <3>3. \A k \in 1 .. n : req.cells[k] \in Cell
      BY <3>1, <3>2, <2>2, ElementOfSeq
    <3>4. SubSeq(req.cells, 1, n) \in Seq(Cell)
      BY <3>3, <2>2, SubSeqProperties
    <3>5. flash \in [Addr -> Cell] /\ p_data \in Int
      BY DEF TypeOK
    <3>6. Program(flash, p_data, SubSeq(req.cells, 1, n)) \in [Addr -> Cell]
      BY <3>4, <3>5, ProgramType
    <3> QED BY <2>1, <3>1, <3>6
  <2>4. ASSUME pc = "wr_info" PROVE flash' \in [Addr -> Cell]
    <3>1. CallLen = BLK /\ TornFlash(n) = Program(flash, p_info, SubSeq(InfoCells(block), 1, n))
      BY <2>4 DEF CallLen, TornFlash
    <3>2. InfoCells(block) \in Seq(Cell) /\ Len(InfoCells(block)) = BLK
      BY InfoCellsType DEF TypeOK
    <3>3. \A k \in 1 .. n : InfoCells(block)[k] \in Cell
      BY <3>1, <3>2, <2>2, ElementOfSeq
    <3>4. SubSeq(InfoCells(block), 1, n) \in Seq(Cell)
      BY <3>3, <2>2, SubSeqProperties
    <3>5. flash \in [Addr -> Cell] /\ p_info \in Int
      BY DEF TypeOK
    <3>6. Program(flash, p_info, SubSeq(InfoCells(block), 1, n)) \in [Addr -> Cell]
      BY <3>4, <3>5, ProgramType
    <3> QED BY <2>1, <3>1, <3>6
  <2>5. ASSUME pc \notin {"wr_data", "wr_info"} PROVE flash' \in [Addr -> Cell]
    BY <2>1, <2>5 DEF TornFlash, TypeOK
  <2>6. req.id \in Id \cup {NoId}
    BY ReqType
  <2>7. flash' \in [Addr -> Cell]
    BY <2>3, <2>4, <2>5
  <2> QED BY <1>27, <2>6, <2>7 DEF Fault, TypeOK
<1>28. CASE PowerLoss
  BY <1>28, <1>27 DEF PowerLoss, Fault, TypeOK, LayoutOK, FlowOK, Pending, Pcs, area, locals, hist, Return
<1>29. CASE WriteFails
  BY <1>29, <1>27 DEF WriteFails, Fault, TypeOK, LayoutOK, FlowOK, Pending, Pcs, area, locals, hist, Return
<1>30. CASE UNCHANGED vars
  BY <1>30 DEF vars, TypeOK, LayoutOK, FlowOK, PrivateFits, Pending, Pcs, area, locals, hist, Return
<1> QED BY <1>1, <1>2, <1>3, <1>4, <1>5, <1>6, <1>7, <1>8, <1>9, <1>10, <1>11, <1>12, <1>13, <1>14, <1>15, <1>16, <1>17, <1>18, <1>19, <1>20, <1>21, <1>22, <1>23, <1>24, <1>25, <1>26, <1>28, <1>29, <1>30
        DEF FaultyNext, Next, Step, Call

-----------------------------------------------------------------------------
(* The theorems on types and layout *)

\* The inductive invariant holds in every behaviour.
THEOREM Invariance == Spec \/ FaultySpec => []IInv
<1>1. IInv /\ [Next]_vars => IInv'
  BY NextIInv DEF FaultyNext
<1> QED BY <1>1, InitIInv, NextIInv, PTL DEF Spec, FaultySpec

\* The unsigned counters of e2p_t never wrap and every buffer, block and cell
\* is of its kind, without faults and with any faults at any step, up to the
\* scan of a torn block (eeprom_emulation.c l.127-139).
THEOREM TypeCorrect == Spec \/ FaultySpec => []TypeOK
<1>1. IInv => TypeOK
  BY DEF IInv
<1> QED BY <1>1, Invariance, PTL

\* The data and the info blocks of an area never meet, and e2p_write_private
\* never starts what it has no room to finish, with and without faults, up to
\* the scan of a torn block (eeprom_emulation.c l.116-139).
THEOREM LayoutCorrect == Spec \/ FaultySpec => []LayoutOK
<1>1. IInv => LayoutOK
  BY DEF IInv
<1> QED BY <1>1, Invariance, PTL

-----------------------------------------------------------------------------
(* What is on the flash *)

\* The sizes for which the emulation keeps its promises.
Sized ==
    /\ SectorCnt >= 2
    /\ Cardinality(Id) <= MaxVar
    /\ (MaxVar + 2) * BLK < EraseSize
    /\ \A len \in Lengths :
          /\ MaxVar * len <= EraseSize
          /\ (EraseSize - 2 * BLK) * len <= BLK * (AreaSize - EraseSize)

\* e2p_config gives up on an area with less room left than two blocks (l.257).
\* The blocks it has not read yet are lost to an application that goes on all
\* the same, unless none is as short as that.
Careful == Heeds \/ \A len \in Lengths : BLK <= len
Fit == Sized /\ Careful

\* A step on which an application goes on after e2p_config refused.
GoesOn == pc = "cfg_scan" /\ pc' = "idle" /\ ret'.st # "ok"

\* The address of info slot k, the block there, and the end of the data of
\* the first k blocks.
Slot(k) == FirstInfo - k * BLK
BlkAt(f, k) == f[Slot(k)].blk
End(f, k) == IF k = 0 THEN 0 ELSE BlkAt(f, k - 1).data_addr + BlkAt(f, k - 1).length

\* A block of a value, and a flash that has its value.
Plain(cell) == cell.kind = "data"
Sound(b) ==
    /\ b \in Blk /\ b.block_id \in Id
    /\ b.length \in Lengths /\ Len(b.crc) = b.length
    /\ b.data_addr + b.length <= AreaSize
    /\ \A m \in 1 .. b.length : Plain(b.crc[m])
Holds(f, b) == \A m \in 1 .. b.length : f[b.data_addr + m - 1] = b.crc[m]

\* Slot k has a block, whose data follows that of the blocks before it.
Good(f, k) ==
    /\ \A p \in 1 .. BLK : f[Slot(k) + p - 1] = InfoCell(BlkAt(f, k), p)
    /\ Sound(BlkAt(f, k))
    /\ BlkAt(f, k).data_addr = End(f, k)
    /\ Holds(f, BlkAt(f, k))

\* n blocks have at most that much data: not more than fills the sectors below
\* the last one before their slots have filled the last.
Sparse(n, len) == (EraseSize - 2 * BLK) * len <= (n * BLK) * (AreaSize - EraseSize)

\* The first n slots have blocks.
Chain(f, n) ==
    /\ \A k \in 0 .. n - 1 : Good(f, k)
    /\ \A k \in 0 .. n : End(f, k) \in Nat /\ End(f, k) <= End(f, n)
    /\ End(f, n) <= Slot(n)
    /\ \A a \in 0 .. End(f, n) - 1 : Plain(f[a])
    /\ Sparse(n, End(f, n))

\* Erased from lo up to hi.
Clear(f, lo, hi) == \A a \in lo .. hi - 1 : f[a] = Erased
-----------------------------------------------------------------------------
LEMMA SlotFacts ==
    ASSUME NEW k \in Nat
    PROVE  /\ Slot(k) \in Int /\ Slot(0) = FirstInfo
           /\ Slot(k + 1) = Slot(k) - BLK
           /\ Slot(k) <= FirstInfo
<1>1. k * BLK \in Nat /\ 0 * BLK = 0 /\ (k + 1) * BLK = k * BLK + BLK
  BY Geometry
<1> QED BY <1>1, Geometry DEF Slot

LEMMA SlotOrder ==
    ASSUME NEW j \in Nat, NEW k \in Nat, j < k
    PROVE  Slot(k) + BLK <= Slot(j)
<1>1. j * BLK + BLK <= k * BLK
  BY Geometry, Fewer
<1>2. j * BLK \in Nat /\ k * BLK \in Nat
  BY Geometry
<1> QED BY <1>1, <1>2, Geometry DEF Slot

\* The slots a flush fills are in the last sector.
LEMMA SlotHigh ==
    ASSUME Sized, NEW k \in 0 .. MaxVar
    PROVE  AreaSize - EraseSize < Slot(k) /\ EraseSize <= AreaSize - EraseSize
<1>1. k * BLK <= MaxVar * BLK /\ k * BLK \in Nat /\ MaxVar * BLK \in Nat
  BY Geometry, Fewer, E2PAssumption
<1>2. (MaxVar + 2) * BLK = MaxVar * BLK + 2 * BLK
  BY Geometry, E2PAssumption
<1>3. FirstInfo - k * BLK > AreaSize - EraseSize
  BY <1>1, <1>2, Geometry DEF Sized
<1>4. 2 * EraseSize <= AreaSize
  <2>1. AreaSize = SectorCnt * EraseSize /\ 2 <= SectorCnt
    BY E2PAssumption DEF AreaSize, Sized
  <2> QED BY <2>1, Fewer, E2PAssumption
<1> QED BY <1>3, <1>4, Geometry DEF Slot

LEMMA SparseGrows ==
    ASSUME Sized, NEW n \in Nat, NEW e \in Nat, Sparse(n, e), NEW len \in Lengths
    PROVE  Sparse(n + 1, e + len)
<1>1. PICK c \in Int, w \in Int : c = EraseSize - 2 * BLK /\ w = AreaSize - EraseSize
  BY Geometry
<1>2. c * e <= (n * BLK) * w /\ c * len <= BLK * w /\ len \in Nat /\ BLK \in Nat
  BY <1>1, E2PAssumption DEF Sparse, Sized
<1>3. c * (e + len) = c * e + c * len
  BY <1>2
<1>4. ((n + 1) * BLK) * w = (n * BLK) * w + BLK * w
  BY <1>2
<1>5. c * (e + len) <= ((n + 1) * BLK) * w
  <2>1. c * e \in Int /\ c * len \in Int /\ (n * BLK) * w \in Int /\ BLK * w \in Int
    BY <1>2
  <2> QED BY <1>2, <1>3, <1>4, <2>1
<1> QED BY <1>1, <1>5 DEF Sparse

\* While the data do not meet the blocks they are not in the last sector.
LEMMA SparseBelow ==
    ASSUME Sized, NEW n \in Nat, NEW e \in Nat, Sparse(n, e), e <= Slot(n)
    PROVE  e <= AreaSize - EraseSize
<1> SUFFICES ASSUME ~(e <= AreaSize - EraseSize) PROVE FALSE
  OBVIOUS
<1>1. PICK c \in Int, w \in Int, b \in Nat : c = EraseSize - 2 * BLK /\ w = AreaSize - EraseSize /\ b = n * BLK
  BY Geometry
<1>2. c * e <= b * w /\ w < e
  BY <1>1 DEF Sparse
<1>3. b < c
  BY <1>1, <1>2, Geometry DEF Slot
<1>4. 0 < w
  <2>1. AreaSize = SectorCnt * EraseSize /\ 2 <= SectorCnt
    BY E2PAssumption DEF AreaSize, Sized
  <2>2. 2 * EraseSize <= AreaSize
    BY <2>1, Fewer, E2PAssumption
  <2> QED BY <1>1, <2>2, Geometry
<1>5. b * w + w <= c * w
  BY <1>3, <1>4, Fewer
<1>6. w * c + c <= e * c
  BY <1>2, <1>3, Fewer
<1>7. w * c = c * w /\ e * c = c * e
  BY <1>3
<1>8. b * w \in Int /\ c * w \in Int /\ c * e \in Int
  OBVIOUS
<1> QED BY <1>2, <1>3, <1>4, <1>5, <1>6, <1>7, <1>8

\* What is programmed into erased cells stands there.
LEMMA ProgramIs ==
    ASSUME NEW f \in [Addr -> Cell], NEW a \in Int, NEW cells, NEW len \in Nat, Len(cells) = len,
           Clear(f, a, a + len), NEW x \in Addr
    PROVE  Program(f, a, cells)[x] = IF a <= x /\ x < a + len THEN cells[x - a + 1] ELSE f[x]
<1>1. x \in Int /\ DOMAIN f = Addr
  BY E2PAssumption DEF Addr, AreaSize
<1>2. x \in a .. a + len - 1 <=> a <= x /\ x < a + len
  BY <1>1
<1>3. x \in a .. a + len - 1 => f[x] = Erased
  BY DEF Clear
<1> QED BY <1>1, <1>2, <1>3 DEF Program, Nor

LEMMA EraseIs ==
    ASSUME NEW f \in [Addr -> Cell], NEW a \in Int, NEW size \in Int, NEW x \in Addr
    PROVE  EraseRange(f, a, size)[x] = IF a <= x /\ x < a + size THEN Erased ELSE f[x]
<1>1. x \in Int /\ DOMAIN f = Addr
  BY E2PAssumption DEF Addr, AreaSize
<1>2. x \in a .. a + size - 1 <=> a <= x /\ x < a + size
  BY <1>1
<1> QED BY <1>1, <1>2 DEF EraseRange

\* The kinds of cells.
LEMMA Kinds ==
    ASSUME NEW cell \in Cell
    PROVE  /\ Plain(cell) => cell # Erased /\ cell # Mixed /\ cell.kind # "info"
           /\ cell.kind = "info" => cell.blk \in Blk
BY DEF Plain, Erased, Mixed, Cell, Byte

LEMMA InfoIs ==
    ASSUME NEW b, NEW p
    PROVE  /\ InfoCell(b, p).kind = "info" /\ InfoCell(b, p).blk = b
           /\ InfoCell(b, p) # Erased /\ InfoCell(b, p) # Mixed
BY DEF InfoCell, Erased, Mixed

LEMMA SoundIs ==
    ASSUME Sized, NEW b, Sound(b)
    PROVE  /\ b.length \in Nat \ {0} /\ b.data_addr \in Nat /\ b.crc \in Seq(Byte)
           /\ MaxVar * b.length <= EraseSize /\ b.length <= EraseSize
           /\ b # Blank /\ b.crc # << >>
<1>1. b.length \in Nat \ {0} /\ MaxVar * b.length <= EraseSize
  BY E2PAssumption DEF Sized, Sound
<1>2. b.data_addr \in Nat /\ b.crc \in Seq(Byte)
  BY DEF Sound, Blk
<1>3. b # Blank
  BY E2PAssumption DEF Sound, Blank, Block
<1>4. b.crc # << >>
  BY <1>1 DEF Sound
<1>5. MaxVar \in Nat \ {0}
  <2>1. Cardinality(Id) # 0
    BY FS_EmptySet, FS_CardinalityType, E2PAssumption DEF Sound
  <2>2. Cardinality(Id) \in Nat
    BY FS_CardinalityType, E2PAssumption
  <2> QED BY <2>1, <2>2, E2PAssumption DEF Sized
<1>6. b.length <= EraseSize
  <2>1. 1 * b.length <= MaxVar * b.length
    BY <1>1, <1>5, Fewer
  <2>2. 1 * b.length = b.length /\ MaxVar * b.length \in Nat
    BY <1>1, <1>5
  <2> QED BY <1>1, <2>1, <2>2, Geometry
<1> QED BY <1>1, <1>2, <1>3, <1>4, <1>6
-----------------------------------------------------------------------------
\* Where the blocks of a chain and their data are.
LEMMA ChainPlaces ==
    ASSUME Sized, NEW f, NEW n \in Nat, Chain(f, n)
    PROVE  /\ Slot(n) \in Nat /\ End(f, n) \in Nat /\ End(f, n) <= Slot(n)
           /\ End(f, n) <= AreaSize - EraseSize
           /\ \A k \in 0 .. n - 1 : /\ Slot(n) + BLK <= Slot(k) /\ Slot(k) <= FirstInfo
                                   /\ \A p \in 1 .. BLK : Slot(k) + p - 1 \in Addr
           /\ \A k \in 0 .. n - 1 :
                 /\ Sound(BlkAt(f, k)) /\ Holds(f, BlkAt(f, k))
                 /\ BlkAt(f, k).data_addr = End(f, k) /\ End(f, k) \in Nat
                 /\ End(f, k + 1) = End(f, k) + BlkAt(f, k).length
                 /\ End(f, k + 1) <= End(f, n)
<1>1. End(f, n) \in Nat /\ End(f, n) <= Slot(n) /\ Slot(n) \in Nat
  BY SlotFacts DEF Chain
<1>2. ASSUME NEW k \in 0 .. n - 1
      PROVE  /\ Slot(n) + BLK <= Slot(k) /\ Slot(k) <= FirstInfo
             /\ \A p \in 1 .. BLK : Slot(k) + p - 1 \in Addr
  <2>1. Slot(n) + BLK <= Slot(k) /\ Slot(k) <= FirstInfo /\ Slot(k) \in Int
    BY SlotOrder, SlotFacts
  <2> QED BY <1>1, <2>1, Geometry DEF Addr
<1>3. ASSUME NEW k \in 0 .. n - 1
      PROVE  /\ Sound(BlkAt(f, k)) /\ Holds(f, BlkAt(f, k))
             /\ BlkAt(f, k).data_addr = End(f, k) /\ End(f, k) \in Nat
             /\ End(f, k + 1) = End(f, k) + BlkAt(f, k).length
             /\ End(f, k + 1) <= End(f, n)
  <2>1. Good(f, k) /\ End(f, k) \in Nat /\ End(f, k + 1) <= End(f, n)
    BY DEF Chain
  <2>2. k + 1 # 0 /\ (k + 1) - 1 = k
    OBVIOUS
  <2>3. End(f, k + 1) = BlkAt(f, k).data_addr + BlkAt(f, k).length
    BY <2>2 DEF End
  <2> QED BY <2>1, <2>3 DEF Good
<1>4. End(f, n) <= AreaSize - EraseSize
  BY <1>1, SparseBelow DEF Chain
<1> QED BY <1>1, <1>2, <1>3, <1>4

\* A chain does not notice what happens between its data and its blocks.
LEMMA ChainSame ==
    ASSUME Sized, NEW f \in [Addr -> Cell], NEW g \in [Addr -> Cell], NEW n \in Nat, Chain(f, n),
           \A a \in Addr : a < End(f, n) \/ (Slot(n) + BLK <= a /\ a < FirstInfo + BLK)
                            => g[a] = f[a]
    PROVE  /\ Chain(g, n)
           /\ \A k \in 0 .. n : End(g, k) = End(f, k)
           /\ \A k \in 0 .. n - 1 : BlkAt(g, k) = BlkAt(f, k)
<1>1. ASSUME NEW k \in 0 .. n - 1, NEW p \in 1 .. BLK
      PROVE  g[Slot(k) + p - 1] = f[Slot(k) + p - 1]
  <2>1. Slot(k) + p - 1 \in Addr /\ Slot(n) + BLK <= Slot(k) /\ Slot(k) <= FirstInfo
    BY ChainPlaces
  <2>2. Slot(k) \in Int /\ Slot(n) \in Int
    BY SlotFacts
  <2>3. Slot(n) + BLK <= Slot(k) + p - 1 /\ Slot(k) + p - 1 < FirstInfo + BLK
    BY <2>1, <2>2, Geometry
  <2> QED BY <2>1, <2>3
<1>2. ASSUME NEW k \in 0 .. n - 1
      PROVE  BlkAt(g, k) = BlkAt(f, k)
  <2>1. g[Slot(k) + 1 - 1] = f[Slot(k) + 1 - 1]
    BY <1>1, Geometry, SMTT(30)
  <2>2. Slot(k) + 1 - 1 = Slot(k)
    BY SlotFacts
  <2> QED BY <2>1, <2>2 DEF BlkAt
<1>3. ASSUME NEW k \in 0 .. n
      PROVE  End(g, k) = End(f, k)
  BY <1>2 DEF End
<1>4. ASSUME NEW a \in 0 .. End(f, n) - 1
      PROVE  a \in Addr /\ g[a] = f[a]
  <2>1. End(f, n) \in Nat /\ End(f, n) <= Slot(n) /\ Slot(n) <= FirstInfo /\ Slot(n) \in Int
    BY ChainPlaces, SlotFacts
  <2>2. a \in Addr /\ a < End(f, n)
    BY <2>1, Geometry DEF Addr
  <2> QED BY <2>2
<1>5. ASSUME NEW k \in 0 .. n - 1
      PROVE  Good(g, k)
  <2>1. Sound(BlkAt(f, k)) /\ Holds(f, BlkAt(f, k)) /\ BlkAt(f, k).data_addr = End(f, k)
        /\ End(f, k) \in Nat
        /\ End(f, k) + BlkAt(f, k).length <= End(f, n) /\ End(f, n) \in Nat
    BY ChainPlaces
  <2>2. BlkAt(f, k).length \in Nat
    BY <2>1, SoundIs
  <2>3. Holds(g, BlkAt(f, k))
    <3>1. ASSUME NEW m \in 1 .. BlkAt(f, k).length
          PROVE  BlkAt(f, k).data_addr + m - 1 \in 0 .. End(f, n) - 1
      BY <2>1, <2>2
    <3> QED BY <3>1, <2>1, <1>4 DEF Holds
  <2>4. Good(f, k)
    BY DEF Chain
  <2>5. \A p \in 1 .. BLK : g[Slot(k) + p - 1] = InfoCell(BlkAt(f, k), p)
    BY <1>1, <2>4 DEF Good
  <2>6. End(g, k) = End(f, k)
    BY <1>3
  <2> QED BY <1>2, <2>1, <2>3, <2>5, <2>6 DEF Good
<1>6. \A k \in 0 .. n : End(g, k) \in Nat /\ End(g, k) <= End(g, n)
  BY <1>3 DEF Chain
<1>7. End(g, n) = End(f, n)
  BY <1>3
<1>8. \A a \in 0 .. End(g, n) - 1 : Plain(g[a])
  BY <1>4, <1>7 DEF Chain
<1>9. End(g, n) <= Slot(n)
  BY <1>7 DEF Chain
<1>10. Sparse(n, End(g, n))
  BY <1>7 DEF Chain
<1> QED BY <1>2, <1>3, <1>5, <1>6, <1>8, <1>9, <1>10 DEF Chain

\* A block in the next slot, its data behind the data there is.
LEMMA ChainGrows ==
    ASSUME Sized, NEW f \in [Addr -> Cell], NEW n \in Nat, Chain(f, n),
           NEW b, Sound(b), b.data_addr = End(f, n), Holds(f, b),
           \A p \in 1 .. BLK : f[Slot(n) + p - 1] = InfoCell(b, p),
           End(f, n) + b.length <= Slot(n + 1)
    PROVE  Chain(f, n + 1) /\ BlkAt(f, n) = b /\ End(f, n + 1) = End(f, n) + b.length
<1>1. BlkAt(f, n) = b
  <2>1. f[Slot(n) + 1 - 1] = InfoCell(b, 1)
    BY Geometry
  <2>2. Slot(n) + 1 - 1 = Slot(n)
    BY SlotFacts
  <2> QED BY <2>1, <2>2, InfoIs DEF BlkAt
<1>2. End(f, n + 1) = End(f, n) + b.length
  BY <1>1 DEF End
<1>3. Good(f, n)
  BY <1>1 DEF Good
<1>4. \A k \in 0 .. (n + 1) - 1 : Good(f, k)
  BY <1>3 DEF Chain
<1>5. End(f, n) \in Nat /\ b.length \in Nat
  BY ChainPlaces, SoundIs
<1>6. ASSUME NEW k \in 0 .. n + 1
      PROVE  End(f, k) \in Nat /\ End(f, k) <= End(f, n + 1)
  <2>1. CASE k = n + 1
    BY <2>1, <1>2, <1>5
  <2>2. CASE k # n + 1
    <3>1. k \in 0 .. n
      BY <2>2
    <3>2. End(f, k) \in Nat /\ End(f, k) <= End(f, n)
      BY <3>1 DEF Chain
    <3> QED BY <3>2, <1>2, <1>5
  <2> QED BY <2>1, <2>2
<1>7. ASSUME NEW a \in 0 .. End(f, n + 1) - 1
      PROVE  Plain(f[a])
  <2>1. CASE a < End(f, n)
    BY <2>1, <1>5 DEF Chain
  <2>2. CASE a >= End(f, n)
    <3>1. PICK m \in 1 .. b.length : a = b.data_addr + m - 1
      <4>1. a - End(f, n) + 1 \in 1 .. b.length /\ a = End(f, n) + (a - End(f, n) + 1) - 1
        BY <2>2, <1>2, <1>5
      <4> QED BY <4>1
    <3> QED BY <3>1 DEF Holds, Sound
  <2> QED BY <2>1, <2>2, <1>5
<1>8. Sparse(n + 1, End(f, n + 1))
  <2>1. Sparse(n, End(f, n)) /\ b.length \in Lengths
    BY DEF Chain, Sound
  <2> QED BY <1>2, <1>5, <2>1, SparseGrows
<1> QED BY <1>1, <1>2, <1>4, <1>6, <1>7, <1>8 DEF Chain
-----------------------------------------------------------------------------
(* The newest block of a variable *)

Absent(f, n, id) == \A k \in 0 .. n - 1 : BlkAt(f, k).block_id # id
Last(f, n, id, k) ==
    BlkAt(f, k).block_id = id /\ \A j \in k + 1 .. n - 1 : BlkAt(f, j).block_id # id

\* b is the newest of the first n blocks that is for id, or Blank.
Newest(f, n, id, b) ==
    \/ b = Blank /\ Absent(f, n, id)
    \/ \E k \in 0 .. n - 1 : Last(f, n, id, k) /\ b = BlkAt(f, k)

\* v is the content the newest block was written with, << >> if there is none.
Recorded(f, n, id, v) ==
    \/ v = << >> /\ Absent(f, n, id)
    \/ \E k \in 0 .. n - 1 : Last(f, n, id, k) /\ v = BlkAt(f, k).crc

LEMMA NewestSame ==
    ASSUME NEW f, NEW g, NEW n \in Nat, \A k \in 0 .. n - 1 : BlkAt(g, k) = BlkAt(f, k), NEW id
    PROVE  /\ \A b : Newest(f, n, id, b) => Newest(g, n, id, b)
           /\ \A v : Recorded(f, n, id, v) => Recorded(g, n, id, v)
<1>1. Absent(f, n, id) => Absent(g, n, id)
  BY DEF Absent
<1>2. \A k \in 0 .. n - 1 : Last(f, n, id, k) => Last(g, n, id, k)
  BY DEF Last
<1> QED BY <1>1, <1>2 DEF Newest, Recorded

LEMMA NewestGrows ==
    ASSUME NEW f, NEW n \in Nat, NEW id, NEW c, c = BlkAt(f, n)
    PROVE  /\ c.block_id = id => Newest(f, n + 1, id, c) /\ Recorded(f, n + 1, id, c.crc)
           /\ c.block_id # id =>
                 /\ \A b : Newest(f, n, id, b) => Newest(f, n + 1, id, b)
                 /\ \A v : Recorded(f, n, id, v) => Recorded(f, n + 1, id, v)
<1>1. ASSUME c.block_id = id
      PROVE  Newest(f, n + 1, id, c) /\ Recorded(f, n + 1, id, c.crc)
  <2>1. n \in 0 .. (n + 1) - 1 /\ Last(f, n + 1, id, n)
    BY <1>1 DEF Last
  <2> QED BY <2>1 DEF Newest, Recorded
<1>2. ASSUME c.block_id # id
      PROVE  /\ \A b : Newest(f, n, id, b) => Newest(f, n + 1, id, b)
             /\ \A v : Recorded(f, n, id, v) => Recorded(f, n + 1, id, v)
  <2>1. Absent(f, n, id) => Absent(f, n + 1, id)
    BY <1>2 DEF Absent
  <2>2. \A k \in 0 .. n - 1 : Last(f, n, id, k) => Last(f, n + 1, id, k)
    BY <1>2 DEF Last
  <2>3. \A k \in 0 .. n - 1 : k \in 0 .. (n + 1) - 1
    OBVIOUS
  <2> QED BY <2>1, <2>2, <2>3 DEF Newest, Recorded
<1> QED BY <1>1, <1>2

LEMMA NewestIs ==
    ASSUME NEW f, NEW n \in Nat, NEW id, NEW b, NEW v, Newest(f, n, id, b), Recorded(f, n, id, v)
    PROVE  v = b.crc
<1>1. Blank.crc = << >>
  BY DEF Blank, Block
<1>2. \A j, k \in 0 .. n - 1 : Last(f, n, id, j) /\ Last(f, n, id, k) => j = k
  <2>1. ASSUME NEW j \in 0 .. n - 1, NEW k \in 0 .. n - 1, Last(f, n, id, j), Last(f, n, id, k), j < k
        PROVE  FALSE
    <3>1. k \in j + 1 .. n - 1
      BY <2>1
    <3> QED BY <2>1, <3>1 DEF Last
  <2> QED BY <2>1
<1>3. Absent(f, n, id) => \A k \in 0 .. n - 1 : ~Last(f, n, id, k)
  BY DEF Absent, Last
<1> QED BY <1>1, <1>2, <1>3 DEF Newest, Recorded

\* Nothing is in an empty chain.
LEMMA NewestNone ==
    ASSUME NEW f, NEW id
    PROVE  Newest(f, 0, id, Blank) /\ Recorded(f, 0, id, << >>)
<1>1. Absent(f, 0, id)
  BY DEF Absent
<1> QED BY <1>1 DEF Newest, Recorded

-----------------------------------------------------------------------------
(* The invariant, by the step of the call in progress *)

\* The version block is there.
Marked ==
    \A p \in 1 .. BLK : flash[FirstInfo + BLK + p - 1] = InfoCell(VersionBlk(version), p)

\* The flash has n blocks with all that was written, and nothing else.
Complete(n) ==
    /\ Chain(flash, n) /\ Marked
    /\ \A id \in Id : Recorded(flash, n, id, acked[id])
    /\ Clear(flash, End(flash, n), Slot(n) + BLK)

\* The table and the info pointer are those of the first n blocks.
Loaded(n) ==
    /\ p_info = Slot(n)
    /\ \A id \in Id : Newest(flash, n, id, table[id])

Off == flash[FirstInfo + BLK].kind # "info" \/ \E n \in Nat : Complete(n)
Reset ==
    /\ p_data = 0 /\ p_info = FirstInfo
    /\ \A id \in Id : table[id] = Blank
Wiped == Reset /\ Clear(flash, 0, AreaSize) /\ acked = Empty
Scanning == \E n \in Nat, m \in Nat :
    m <= n /\ Complete(n) /\ Loaded(m) /\ p_data = End(flash, m)
Resting == \E n \in Nat : Complete(n) /\ Loaded(n) /\ p_data = End(flash, n)

\* Between the two writes of e2p_write_private: the data is there.
Half(n) ==
    /\ Sound(block) /\ Holds(flash, block)
    /\ block.data_addr = End(flash, n)
    /\ p_data = End(flash, n) + block.length
Halfway == \E n \in Nat :
    /\ Chain(flash, n) /\ Marked
    /\ \A id \in Id : Recorded(flash, n, id, acked[id])
    /\ Loaded(n) /\ Half(n)
    /\ Clear(flash, p_data, Slot(n) + BLK)
    /\ req # NoReq /\ block.block_id = req.id /\ block.crc = req.cells

\* What the application asks for.
Ask ==
    /\ pc \in {"off", "idle", "cfg_scan", "cfg_erase", "cfg_info"} => req = NoReq
    /\ req # NoReq => /\ req.id \in Id /\ Len(req.cells) \in Lengths
                      /\ \A m \in 1 .. Len(req.cells) : Plain(req.cells[m])

(* The flush *)

\* The table describes what was written.
Described ==
    \A id \in Id :
        \/ table[id] = Blank /\ acked[id] = << >>
        \/ Sound(table[id]) /\ table[id].block_id = id /\ table[id].crc = acked[id]

\* The cells of the info sector are in read_buf and not in the flash.
Saved ==
    /\ Described
    /\ \A id \in Known : \A m \in 1 .. table[id].length :
          LET a == table[id].data_addr + m - 1 IN
          IF a < InfoSector THEN flash[a] = table[id].crc[m]
          ELSE a < p_info /\ read_buf[a - InfoSector + 1] = table[id].crc[m]
    /\ Len(read_buf) = p_info % EraseSize
    /\ Clear(flash, InfoSector, AreaSize)
    /\ \A m \in 1 .. Len(read_buf) :
          /\ read_buf[m] # Mixed
          /\ AreaSize - EraseSize <= InfoSector + m - 1 => read_buf[m] = Erased

\* order has every variable of the table once.
Walk ==
    /\ Described
    /\ \A n \in 1 .. Len(order) : order[n] \in Known
    /\ \A m, n \in 1 .. Len(order) : m # n => order[m] # order[n]
    /\ \A id \in Known : \E n \in 1 .. Len(order) : order[n] = id
    /\ Len(order) <= MaxVar

\* The buffer has the contents of the entries c .. i - 1, which for those of
\* the ids in S are their values; pos[n] is where that of entry n goes.
Packed(c, S) ==
    \E pos \in [0 .. Len(order) -> 0 .. EraseSize] :
        /\ pos[0] = 0
        /\ \A n \in 0 .. i - 1 : pos[n + 1] = pos[n] + Entry(n).length
        /\ \A m, n \in 0 .. i : m <= n => pos[m] <= pos[n]
        /\ pos[c] = p_data
        /\ Len(read_buf) = pos[i] - pos[c]
        /\ \A n \in c .. i - 1 : order[n + 1] \in S => \A m \in 1 .. Entry(n).length :
              read_buf[pos[n] - pos[c] + m] = acked[order[n + 1]][m]

\* The first c entries are back on the flash.
Rewritten(c) ==
    /\ Chain(flash, c) /\ p_info = Slot(c)
    /\ \A k \in 0 .. c - 1 : /\ BlkAt(flash, k).block_id = order[k + 1]
                             /\ table[order[k + 1]] = BlkAt(flash, k)

\* The sector of the info blocks is erased below them, and so is the version.
TopClear ==
    /\ Clear(flash, AreaSize - EraseSize, p_info + BLK)
    /\ Clear(flash, FirstInfo + BLK, AreaSize)
Reading ==
    /\ Walk /\ TopClear
    /\ \A id \in Known : Holds(flash, table[id])
    /\ p_data = 0 /\ p_info = FirstInfo /\ count = 0 /\ head = 0
    /\ Packed(0, Id) /\ MaxVar * Len(read_buf) <= i * EraseSize
Erasing ==
    /\ Walk /\ TopClear
    /\ p_data = 0 /\ p_info = FirstInfo /\ count = 0
    /\ i = Len(order) /\ Packed(0, Id)
    /\ head % EraseSize = 0 /\ Clear(flash, 0, head)
    /\ head + EraseSize <= AreaSize /\ tail <= AreaSize

\* Between two entries of a write-back loop, and between the two writes of one.
Between ==
    /\ Walk /\ TopClear
    /\ i = Len(order) /\ count <= i
    /\ Rewritten(count) /\ p_data = End(flash, count) /\ Packed(count, Id)
Within ==
    /\ Walk /\ TopClear
    /\ i = Len(order) /\ count < i
    /\ Rewritten(count) /\ Half(count) /\ Packed(count + 1, Id)
    /\ block.block_id = order[count + 1] /\ block.crc = acked[order[count + 1]]

\* Below the tail everything behind the data is erased.
BelowTail ==
    /\ tail % EraseSize = 0
    /\ \A a \in p_data .. p_info - 1 : a < tail => flash[a] = Erased
    /\ p_data <= tail /\ (i > 0 => EraseSize <= tail)

StoreInv ==
    /\ Ask /\ pc # "wild"
    /\ pc = "off" => Off
    /\ pc = "cfg_erase" => Reset
    /\ pc = "cfg_info" => Wiped
    /\ pc = "cfg_scan" => Scanning
    /\ pc \in {"idle", "wr_data", "fl_start"} => Resting
    /\ pc = "wr_info" => Halfway
    /\ pc = "fl_restore" => Saved
    /\ pc = "fl_read" => Reading
    /\ pc = "fl_erase" => Erasing
    /\ pc \in {"fl_back", "fl_tail"} => Between /\ BelowTail
    /\ pc = "wb_info" => Within /\ BelowTail
    /\ pc \in {"fl_rest", "fl_cfg"} => Between /\ Clear(flash, p_data, p_info)
    /\ pc = "rw_info" => Within /\ Clear(flash, p_data, p_info)
    /\ pc = "fl_rest" => count < i
    /\ pc = "fl_cfg" => count = i
-----------------------------------------------------------------------------
(* Start, restart, configuration *)

LEMMA Typed ==
    ASSUME IInv
    PROVE  /\ flash \in [Addr -> Cell] /\ version \in Version
           /\ p_data \in Nat /\ p_info \in Nat /\ remain_size = p_info - p_data /\ remain_size \in Nat
           /\ p_info <= FirstInfo /\ p_data <= p_info
           /\ table \in [Id -> Blk] /\ acked \in [Id -> Seq(Byte)]
BY DEF IInv, TypeOK, LayoutOK

LEMMA Numbers ==
    ASSUME IInv
    PROVE  p_data \in Nat /\ p_info \in Nat /\ p_info <= FirstInfo /\ p_data <= p_info
BY Typed

LEMMA Counters ==
    ASSUME IInv
    PROVE  i \in Nat /\ count \in Nat /\ head \in Nat /\ tail \in Nat
<1>1. i \in 0 .. Len(order) /\ Len(order) \in Nat
  BY DEF IInv, TypeOK
<1> QED BY <1>1 DEF IInv, TypeOK

\* ... and after a step.
LEMMA TypedNext ==
    ASSUME IInv'
    PROVE  /\ flash' \in [Addr -> Cell] /\ version' \in Version
           /\ p_data' \in Nat /\ p_info' \in Nat /\ remain_size' = p_info' - p_data'
           /\ p_info' <= FirstInfo /\ block' \in Blk
           /\ table' \in [Id -> Blk] /\ acked' \in [Id -> Seq(Byte)]
BY DEF IInv, TypeOK, LayoutOK

LEMMA AddrIs ==
    /\ \A a \in Int : a \in Addr <=> 0 <= a /\ a < AreaSize
    /\ FirstInfo + BLK \in Addr /\ FirstInfo + BLK = AreaSize - BLK
BY Geometry DEF Addr

LEMMA ClearType ==
    ASSUME NEW f, NEW lo \in Int, NEW hi \in Int, NEW a \in Int, Clear(f, lo, hi), lo <= a, a < hi
    PROVE  f[a] = Erased
BY DEF Clear

LEMMA InitStore == Init => StoreInv
<1> SUFFICES ASSUME Init PROVE StoreInv
  OBVIOUS
<1>1. flash[FirstInfo + BLK].kind # "info"
  BY AddrIs DEF Init, Erased, Mixed
<1> QED BY <1>1 DEF Init, StoreInv, Ask, Off

\* An empty area: the pointers, the table and a flash that is erased but for
\* the version.
LEMMA EmptyArea ==
    ASSUME Sized, NEW f \in [Addr -> Cell]
    PROVE  Chain(f, 0) /\ End(f, 0) = 0 /\ Slot(0) = FirstInfo
<1>1. End(f, 0) = 0 /\ Slot(0) = FirstInfo
  BY SlotFacts DEF End
<1>2. \A k \in 0 .. 0 : k = 0
  OBVIOUS
<1>3. Sparse(0, 0)
  <2>1. (0 * BLK) * (AreaSize - EraseSize) = 0 /\ (EraseSize - 2 * BLK) * 0 = 0
    BY Geometry
  <2> QED BY <2>1 DEF Sparse
<1> QED BY <1>1, <1>2, <1>3, Geometry DEF Chain

LEMMA MarkedIs ==
    ASSUME IInv, Marked, NEW v, SlotHolds(FirstInfo + BLK, VersionBlk(v))
    PROVE  version = v
<1>1. flash[FirstInfo + BLK + 1 - 1] = InfoCell(VersionBlk(version), 1)
  BY Geometry DEF Marked
<1>2. ReadCells(flash, FirstInfo + BLK, BLK)[1] = InfoCells(VersionBlk(v))[1]
  BY DEF SlotHolds
<1>3. 1 \in 1 .. BLK /\ FirstInfo + BLK + 1 - 1 \in DOMAIN flash
  BY Geometry, AddrIs, Typed
<1>4. flash[FirstInfo + BLK + 1 - 1] = InfoCell(VersionBlk(v), 1)
  BY <1>2, <1>3 DEF ReadCells, InfoCells
<1>5. VersionBlk(v) = VersionBlk(version)
  BY <1>1, <1>4, InfoIs
<1> QED BY <1>5 DEF VersionBlk, Block

LEMMA ConfigStore ==
    ASSUME Sized, IInv, IInv', StoreInv, NEW v \in Version, Config(v)
    PROVE  StoreInv'
<1>1. /\ p_data' = 0 /\ p_info' = FirstInfo /\ table' = [id \in Id |-> Blank]
      /\ UNCHANGED <<flash, req, acked>> /\ Off /\ req = NoReq /\ version' = v
  BY DEF Config, ResetPointers, hist, StoreInv, Ask
<1>2. Ask'
  BY <1>1 DEF Ask
<1>3. CASE SlotHolds(FirstInfo + BLK, VersionBlk(v))
  <2>1. pc' = "cfg_scan"
    BY <1>3 DEF Config
  <2>2. flash[FirstInfo + BLK].kind = "info"
    <3>1. ReadCells(flash, FirstInfo + BLK, BLK)[1] = InfoCells(VersionBlk(v))[1]
      BY <1>3 DEF SlotHolds
    <3>2. 1 \in 1 .. BLK /\ FirstInfo + BLK + 1 - 1 = FirstInfo + BLK /\ FirstInfo + BLK \in DOMAIN flash
      BY Geometry, AddrIs, Typed
    <3> QED BY <3>1, <3>2, InfoIs DEF ReadCells, InfoCells
  <2>3. PICK n \in Nat : Complete(n)
    BY <1>1, <2>2 DEF Off
  <2>4. version' = version
    BY <1>1, <1>3, <2>3, MarkedIs DEF Complete
  <2>5. Complete(n)'
    BY <1>1, <2>3, <2>4 DEF Complete, Marked
  <2>6. Loaded(0)' /\ p_data' = End(flash', 0)
    <3>1. Slot(0) = FirstInfo /\ End(flash', 0) = 0
      BY EmptyArea, TypedNext
    <3>2. \A id \in Id : Newest(flash', 0, id, table'[id])
      BY <1>1, NewestNone
    <3> QED BY <1>1, <3>1, <3>2 DEF Loaded
  <2>7. Scanning'
    BY <2>5, <2>6 DEF Scanning
  <2> QED BY <1>2, <2>1, <2>7 DEF StoreInv
<1>4. CASE ~SlotHolds(FirstInfo + BLK, VersionBlk(v))
  <2>1. pc' = "cfg_erase"
    BY <1>4 DEF Config
  <2>2. Reset'
    BY <1>1 DEF Reset
  <2> QED BY <1>2, <2>1, <2>2 DEF StoreInv
<1> QED BY <1>3, <1>4

LEMMA ConfigEraseStore ==
    ASSUME Sized, IInv, IInv', StoreInv, ConfigErase
    PROVE  StoreInv'
<1>1. /\ flash' = EraseRange(flash, 0, AreaSize) /\ pc' = "cfg_info" /\ acked' = Empty
      /\ UNCHANGED <<p_data, p_info, table, req>> /\ Reset /\ req = NoReq
  BY DEF ConfigErase, area, StoreInv, Ask
<1>2. Clear(flash', 0, AreaSize)
  <2>1. ASSUME NEW a \in 0 .. AreaSize - 1
        PROVE  flash'[a] = Erased
    <3>1. a \in Addr /\ 0 <= a /\ a < 0 + AreaSize
      BY AddrIs, Geometry
    <3> QED BY <1>1, <3>1, EraseIs, Typed, Geometry
  <2> QED BY <2>1 DEF Clear
<1>3. Wiped'
  BY <1>1, <1>2 DEF Wiped, Reset
<1>4. Ask'
  BY <1>1 DEF Ask
<1> QED BY <1>1, <1>3, <1>4 DEF StoreInv

\* The version block goes into an erased slot.
LEMMA VersionWritten ==
    ASSUME Sized, IInv, Clear(flash, FirstInfo + BLK, AreaSize), version' = version,
           flash' = Program(flash, AreaSize - BLK, InfoCells(VersionBlk(version)))
    PROVE  /\ Marked'
           /\ \A a \in Addr : a < FirstInfo + BLK => flash'[a] = flash[a]
<1> DEFINE cells == InfoCells(VersionBlk(version))
<1>1. Len(cells) = BLK /\ BLK \in Nat /\ AreaSize - BLK \in Int
  BY InfoCellsType, ConstBlocks, Typed, Geometry
<1>2. Clear(flash, AreaSize - BLK, AreaSize - BLK + BLK)
  <2>1. AreaSize - BLK = FirstInfo + BLK /\ AreaSize - BLK + BLK = AreaSize
    BY Geometry
  <2> QED BY <2>1
<1>3. \A p \in 1 .. BLK : cells[p] = InfoCell(VersionBlk(version), p)
  BY DEF InfoCells
<1> HIDE DEF cells
<1>4. ASSUME NEW x \in Addr
      PROVE  flash'[x] = IF AreaSize - BLK <= x /\ x < AreaSize - BLK + BLK
                         THEN cells[x - (AreaSize - BLK) + 1] ELSE flash[x]
  BY <1>1, <1>2, ProgramIs, Typed DEF cells
<1>5. ASSUME NEW p \in 1 .. BLK
      PROVE  flash'[FirstInfo + BLK + p - 1] = InfoCell(VersionBlk(version), p)
  <2>1. PICK x \in Addr : x = FirstInfo + BLK + p - 1
    BY AddrIs, Geometry
  <2>2. /\ AreaSize - BLK <= x /\ x < AreaSize - BLK + BLK
        /\ x - (AreaSize - BLK) + 1 = p
    BY <2>1, Geometry
  <2> QED BY <1>3, <1>4, <2>1, <2>2
<1>6. ASSUME NEW a \in Addr, a < FirstInfo + BLK
      PROVE  flash'[a] = flash[a]
  <2>1. ~(AreaSize - BLK <= a)
    BY <1>6, Geometry, AddrIs DEF Addr
  <2> QED BY <1>4, <2>1
<1> QED BY <1>5, <1>6 DEF Marked

LEMMA ConfigInfoStore ==
    ASSUME Sized, IInv, IInv', StoreInv, ConfigInfo
    PROVE  StoreInv'
<1>1. /\ flash' = Program(flash, AreaSize - BLK, InfoCells(VersionBlk(version))) /\ pc' = "idle"
      /\ UNCHANGED <<version, p_data, p_info, table, req, acked>> /\ Wiped /\ req = NoReq
  BY DEF ConfigInfo, area, hist, StoreInv, Ask
<1>2. Clear(flash, FirstInfo + BLK, AreaSize)
  BY <1>1, Geometry DEF Wiped, Clear
<1>3. Marked' /\ \A a \in Addr : a < FirstInfo + BLK => flash'[a] = flash[a]
  BY <1>1, <1>2, VersionWritten
<1>4. Chain(flash', 0) /\ End(flash', 0) = 0 /\ Slot(0) = FirstInfo
  BY EmptyArea, TypedNext
<1>5. Clear(flash', 0, FirstInfo + BLK)
  <2>1. ASSUME NEW a \in 0 .. FirstInfo + BLK - 1
        PROVE  flash'[a] = Erased
    <3>1. a \in Addr /\ a < FirstInfo + BLK /\ a \in 0 .. AreaSize - 1
      BY AddrIs, Geometry
    <3> QED BY <1>1, <1>3, <3>1 DEF Wiped, Clear
  <2> QED BY <2>1, Geometry DEF Clear
<1>6. \A id \in Id : /\ Recorded(flash', 0, id, acked'[id])
                     /\ Newest(flash', 0, id, table'[id])
  BY <1>1, NewestNone DEF Wiped, Reset, Empty
<1>7. Complete(0)' /\ Loaded(0)' /\ p_data' = End(flash', 0)
  BY <1>1, <1>3, <1>4, <1>5, <1>6 DEF Complete, Loaded, Wiped, Reset
<1>8. Resting' /\ Ask'
  BY <1>1, <1>7 DEF Resting, Ask
<1> QED BY <1>1, <1>8 DEF StoreInv
-----------------------------------------------------------------------------
(* The scan of e2p_config *)

\* There is room in the table for every variable.
LEMMA TableHasRoom ==
    ASSUME Sized, NEW id \in Id
    PROVE  TableRoom(id)
<1> SUFFICES ASSUME id \notin Known PROVE Cardinality(Known) < MaxVar
  BY DEF TableRoom
<1>1. Known \subseteq Id \ {id}
  BY DEF Known
<1>2. IsFiniteSet(Id) /\ IsFiniteSet(Id \ {id})
  BY E2PAssumption, FS_Subset
<1>3. Cardinality(Id \ {id}) = Cardinality(Id) - 1 /\ Cardinality(Id) \in Nat
  BY <1>2, FS_RemoveElement, FS_CardinalityType
<1>4. Cardinality(Known) <= Cardinality(Id \ {id}) /\ Cardinality(Known) \in Nat
  BY <1>1, <1>2, FS_Subset, FS_CardinalityType
<1> QED BY <1>3, <1>4, E2PAssumption DEF Sized

\* A slot that is not erased is the next block of the chain.
LEMMA ScanFacts ==
    ASSUME Sized, IInv, NEW n \in Nat, NEW m \in Nat, m <= n, Complete(n), Loaded(m),
           p_data = End(flash, m), ~SlotErased(p_info)
    PROVE  /\ m < n /\ SlotBlock(p_info) = BlkAt(flash, m) /\ Sound(BlkAt(flash, m))
           /\ ~SlotTorn(p_info)
           /\ End(flash, m + 1) = p_data + BlkAt(flash, m).length
           /\ BlkAt(flash, m).length + BLK <= remain_size
           /\ m + 1 < n /\ (\A len \in Lengths : BLK <= len) =>
                 remain_size - (BlkAt(flash, m).length + BLK) >= 2 * BLK
<1>1. Chain(flash, n) /\ p_info = Slot(m) /\ Clear(flash, End(flash, n), Slot(n) + BLK)
  BY DEF Complete, Loaded
<1>2. End(flash, n) \in Nat /\ End(flash, n) <= Slot(n) /\ Slot(n) \in Nat
  BY <1>1, ChainPlaces
<1>3. m < n
  <2> SUFFICES ASSUME m = n PROVE FALSE
    OBVIOUS
  <2>1. flash[Slot(n)] = Erased
    BY <1>1, <1>2, Geometry DEF Clear
  <2> QED BY <1>1, <2>1 DEF SlotErased
<1>4. m \in 0 .. n - 1
  BY <1>3
<1>5. /\ Sound(BlkAt(flash, m)) /\ End(flash, m + 1) = End(flash, m) + BlkAt(flash, m).length
      /\ End(flash, m + 1) <= End(flash, n) /\ End(flash, m) \in Nat
      /\ Slot(n) + BLK <= Slot(m) /\ \A p \in 1 .. BLK : Slot(m) + p - 1 \in Addr
  BY <1>1, <1>4, ChainPlaces
<1>6. SlotBlock(p_info) = BlkAt(flash, m)
  BY <1>1 DEF SlotBlock, BlkAt
<1>7. ~SlotTorn(p_info)
  <2>1. \A p \in 1 .. BLK : flash[Slot(m) + p - 1] = InfoCell(BlkAt(flash, m), p)
    BY <1>1, <1>4 DEF Chain, Good
  <2>2. DOMAIN flash = Addr
    BY Typed
  <2>3. ReadCells(flash, Slot(m), BLK) = InfoCells(BlkAt(flash, m))
    BY <1>5, <2>1, <2>2 DEF ReadCells, InfoCells
  <2>4. flash[p_info].blk = BlkAt(flash, m)
    BY <1>1 DEF BlkAt
  <2>5. SlotHolds(p_info, flash[p_info].blk)
    BY <1>1, <2>3, <2>4 DEF SlotHolds
  <2>6. flash[p_info].kind = "info"
    <3>1. flash[Slot(m) + 1 - 1] = InfoCell(BlkAt(flash, m), 1)
      BY <2>1, Geometry
    <3>2. Slot(m) + 1 - 1 = p_info
      BY <1>1, SlotFacts
    <3> QED BY <3>1, <3>2, InfoIs
  <2> QED BY <2>5, <2>6 DEF SlotTorn
<1>8. PICK len \in Nat : len = BlkAt(flash, m).length
  BY <1>5, SoundIs
<1>9. remain_size = Slot(m) - End(flash, m)
  BY <1>1, Typed
<1>10. len + BLK <= remain_size
  BY <1>2, <1>5, <1>8, <1>9, Geometry, SlotFacts
<1>11. ASSUME m + 1 < n, \A l \in Lengths : BLK <= l
       PROVE  remain_size - (len + BLK) >= 2 * BLK
  <2>1. m + 1 \in 0 .. n - 1
    BY <1>11
  <2>2. /\ Sound(BlkAt(flash, m + 1)) /\ End(flash, m + 1) \in Nat
        /\ End(flash, (m + 1) + 1) = End(flash, m + 1) + BlkAt(flash, m + 1).length
        /\ End(flash, (m + 1) + 1) <= End(flash, n) /\ Slot(n) + BLK <= Slot(m + 1)
    BY <1>1, <2>1, ChainPlaces
  <2>3. BLK <= BlkAt(flash, m + 1).length /\ BlkAt(flash, m + 1).length \in Nat
    BY <1>11, <2>2, SoundIs DEF Sound
  <2>4. Slot(m + 1) = Slot(m) - BLK /\ Slot(m) \in Int
    BY SlotFacts
  <2> QED BY <1>2, <1>5, <1>8, <1>9, <2>2, <2>3, <2>4, Geometry
<1> QED BY <1>1, <1>3, <1>5, <1>6, <1>7, <1>8, <1>10, <1>11

LEMMA ScanEndStore ==
    ASSUME Sized, IInv, IInv', StoreInv, ScanEnd
    PROVE  StoreInv'
<1>1. /\ pc' = "idle" /\ UNCHANGED <<flash, version, p_data, p_info, table, req, acked>>
      /\ SlotErased(p_info) /\ Scanning /\ req = NoReq
  BY DEF ScanEnd, area, hist, StoreInv, Ask
<1>2. PICK n \in Nat, m \in Nat : m <= n /\ Complete(n) /\ Loaded(m) /\ p_data = End(flash, m)
  BY <1>1 DEF Scanning
<1>3. m = n
  <2> SUFFICES ASSUME m \in 0 .. n - 1 PROVE FALSE
    BY <1>2
  <2>1. flash[Slot(m) + 1 - 1] = InfoCell(BlkAt(flash, m), 1)
    BY <1>2, Geometry DEF Complete, Chain, Good
  <2>2. Slot(m) + 1 - 1 = p_info
    BY <1>2, SlotFacts DEF Loaded
  <2> QED BY <1>1, <2>1, <2>2, InfoIs DEF SlotErased
<1>4. Complete(n)' /\ Loaded(n)' /\ p_data' = End(flash', n)
  BY <1>1, <1>2, <1>3 DEF Complete, Marked, Loaded
<1>5. Resting' /\ Ask'
  BY <1>1, <1>4 DEF Resting, Ask
<1> QED BY <1>1, <1>5 DEF StoreInv

LEMMA ScanBlockStore ==
    ASSUME Sized, Careful \/ ~GoesOn, IInv, IInv', StoreInv, ScanBlock
    PROVE  StoreInv'
<1>1. /\ UNCHANGED <<flash, version, req, acked>>
      /\ ~SlotErased(p_info) /\ Scanning /\ req = NoReq
  BY DEF ScanBlock, hist, StoreInv, Ask
<1>2. PICK n \in Nat, m \in Nat : m <= n /\ Complete(n) /\ Loaded(m) /\ p_data = End(flash, m)
  BY <1>1 DEF Scanning
<1>3. /\ m < n /\ SlotBlock(p_info) = BlkAt(flash, m) /\ Sound(BlkAt(flash, m))
      /\ End(flash, m + 1) = p_data + BlkAt(flash, m).length
      /\ m + 1 < n /\ (\A len \in Lengths : BLK <= len) =>
            remain_size - (BlkAt(flash, m).length + BLK) >= 2 * BLK
  BY <1>1, <1>2, ScanFacts
<1>4. PICK b : b = BlkAt(flash, m)
  OBVIOUS
<1>5. b.block_id \in Id /\ TableRoom(b.block_id)
  BY <1>3, <1>4, TableHasRoom DEF Sound
<1>6. /\ table' = TableUpdate(b) /\ p_data' = p_data + b.length /\ p_info' = p_info - BLK
      /\ remain_size' = remain_size - (b.length + BLK)
      /\ \/ pc' = "cfg_scan"
         \/ pc' = "off"
         \/ pc' = "idle" /\ ~Heeds /\ GoesOn /\ remain_size' < 2 * BLK
  BY <1>3, <1>4, <1>5 DEF ScanBlock, ScanAdvance, Refuse, Return, GoesOn
<1>7. Complete(n)'
  BY <1>1, <1>2 DEF Complete, Marked
<1>8. p_data' = End(flash', m + 1)
  BY <1>1, <1>3, <1>4, <1>6
<1>9. Loaded(m + 1)'
  <2>1. p_info' = Slot(m + 1)
    BY <1>2, <1>6, SlotFacts DEF Loaded
  <2>2. ASSUME NEW id \in Id
        PROVE  Newest(flash', m + 1, id, table'[id])
    <3>1. Newest(flash', m, id, table[id]) /\ b = BlkAt(flash', m)
      BY <1>1, <1>2, <1>4 DEF Loaded
    <3>2. table'[id] = IF b.block_id = id THEN b ELSE table[id]
      BY <1>5, <1>6, Typed DEF TableUpdate
    <3> QED BY <3>1, <3>2, NewestGrows
  <2> QED BY <2>1, <2>2 DEF Loaded
<1>10. Ask'
  BY <1>1 DEF Ask
<1>11. CASE pc' = "cfg_scan"
  <2>1. m + 1 \in Nat /\ m + 1 <= n
    BY <1>3
  <2>2. Scanning'
    BY <1>7, <1>8, <1>9, <2>1 DEF Scanning
  <2> QED BY <1>10, <1>11, <2>2 DEF StoreInv
<1>12. CASE pc' = "idle" /\ ~Heeds /\ GoesOn /\ remain_size' < 2 * BLK
  <2>1. m + 1 = n
    <3>1. ~(remain_size' >= 2 * BLK)
      BY <1>12, <1>6, Typed, TypedNext, Geometry, SMTT(30)
    <3>2. \A len \in Lengths : BLK <= len
      BY <1>12 DEF Careful
    <3>3. ~(m + 1 < n)
      BY <1>3, <1>4, <1>6, <3>1, <3>2
    <3> QED BY <1>3, <3>3
  <2>2. Resting'
    BY <1>7, <1>8, <1>9, <2>1 DEF Resting
  <2> QED BY <1>10, <1>12, <2>2 DEF StoreInv
<1>13. CASE pc' = "off"
  <2>1. Off'
    BY <1>7 DEF Off
  <2> QED BY <1>10, <1>13, <2>1 DEF StoreInv
<1> QED BY <1>6, <1>11, <1>12, <1>13

\* The scan never meets cells no e2p_write_private has written.
LEMMA ScanTornNever ==
    ASSUME Sized, IInv, StoreInv
    PROVE  ~ScanTorn
<1> SUFFICES ASSUME ScanTorn PROVE FALSE
  OBVIOUS
<1>1. Scanning /\ ~SlotErased(p_info)
  BY DEF ScanTorn, StoreInv
<1>2. PICK n \in Nat, m \in Nat : m <= n /\ Complete(n) /\ Loaded(m) /\ p_data = End(flash, m)
  BY <1>1 DEF Scanning
<1>3. PICK b : b = SlotBlock(p_info) /\ Sound(b) /\ ~SlotTorn(p_info) /\ b.length + BLK <= remain_size
  BY <1>1, <1>2, ScanFacts
<1>4. b.block_id \notin Id \/ ~(b.length + BLK <= remain_size)
  BY <1>3 DEF ScanTorn, SlotWhole
<1> QED BY <1>3, <1>4, SoundIs, Typed, Geometry DEF Sound
-----------------------------------------------------------------------------
(* e2p_write_private *)

\* The first half puts the data behind the chain.
LEMMA DataWritten ==
    ASSUME Sized, IInv, IInv', NEW n \in Nat, Chain(flash, n), p_data = End(flash, n), p_info = Slot(n),
           NEW id \in Id, NEW cells \in Seq(Cell), NEW len \in Lengths, Len(cells) = len,
           \A m \in 1 .. len : Plain(cells[m]),
           Clear(flash, p_data, p_data + len), p_data + len + BLK <= p_info,
           PrivateData(id, cells)
    PROVE  /\ Chain(flash', n) /\ Half(n)'
           /\ \A k \in 0 .. n - 1 : BlkAt(flash', k) = BlkAt(flash, k)
           /\ \A a \in Addr : ~(p_data <= a /\ a < p_data + len) => flash'[a] = flash[a]
           /\ \A a \in Addr : flash'[a] = Mixed => flash[a] = Mixed
           /\ block'.block_id = id /\ block'.crc = cells
           /\ p_data' = p_data + len /\ p_info' = p_info
<1>1. /\ block' = Block(id, p_data, len, Crc(cells)) /\ flash' = Program(flash, p_data, cells)
      /\ p_data' = p_data + len /\ p_info' = p_info
  BY DEF PrivateData
<1>2. len \in Nat /\ p_data \in Nat
  BY E2PAssumption, Typed
<1>3. Crc(cells) = cells
  <2>1. \A k \in 1 .. Len(cells) : cells[k].kind # "info"
    BY DEF Plain
  <2>2. Crc(cells) = [k \in 1 .. Len(cells) |-> cells[k]]
    BY <2>1 DEF Crc
  <2>3. cells = [k \in 1 .. Len(cells) |-> cells[k]]
    OBVIOUS
  <2> QED BY <2>2, <2>3
<1>4. /\ block'.block_id = id /\ block'.crc = cells /\ block'.data_addr = p_data
      /\ block'.length = len
  BY <1>1, <1>3 DEF Block
<1>5. \A a \in Addr : flash'[a] = IF p_data <= a /\ a < p_data + len THEN cells[a - p_data + 1]
                                  ELSE flash[a]
  BY <1>1, <1>2, ProgramIs, Typed, SMTT(30)
<1>6. Slot(n) \in Nat /\ Slot(n) <= FirstInfo
  BY ChainPlaces, SlotFacts
<1>7. \A a \in Addr : a < End(flash, n) \/ (Slot(n) + BLK <= a /\ a < FirstInfo + BLK)
                       => flash'[a] = flash[a]
  <2>1. ASSUME NEW a \in Addr, a < End(flash, n) \/ (Slot(n) + BLK <= a /\ a < FirstInfo + BLK)
        PROVE  ~(p_data <= a /\ a < p_data + len)
    BY <2>1, <1>2, <1>6, Geometry DEF Addr
  <2> QED BY <2>1, <1>5
<1>8. /\ Chain(flash', n) /\ End(flash', n) = End(flash, n)
      /\ \A k \in 0 .. n - 1 : BlkAt(flash', k) = BlkAt(flash, k)
  <2>1. /\ Chain(flash', n)
        /\ \A k \in 0 .. n : End(flash', k) = End(flash, k)
        /\ \A k \in 0 .. n - 1 : BlkAt(flash', k) = BlkAt(flash, k)
    BY <1>7, ChainSame, Typed, TypedNext
  <2> QED BY <2>1
<1>9. Sound(block')
  <2>1. p_data + len <= AreaSize
    BY <1>2, Numbers, Geometry
  <2> QED BY <1>4, <2>1, TypedNext DEF Sound
<1>10. Holds(flash', block')
  <2>1. ASSUME NEW m \in 1 .. len
        PROVE  flash'[p_data + m - 1] = cells[m]
    <3>1. PICK a \in Addr : a = p_data + m - 1
      BY <1>2, <1>6, Geometry DEF Addr
    <3>2. p_data <= a /\ a < p_data + len /\ a - p_data + 1 = m
      BY <1>2, <3>1
    <3> QED BY <1>5, <3>1, <3>2
  <2> QED BY <1>4, <2>1 DEF Holds
<1>11. Half(n)'
  BY <1>1, <1>4, <1>8, <1>9, <1>10 DEF Half
<1>12. ASSUME NEW a \in Addr, flash'[a] = Mixed
       PROVE  flash[a] = Mixed
  <2>1. CASE p_data <= a /\ a < p_data + len
    <3>1. a - p_data + 1 \in 1 .. len
      BY <2>1, <1>2, AddrIs DEF Addr
    <3>2. Plain(flash'[a])
      BY <2>1, <3>1, <1>5
    <3> QED BY <3>2, <1>12, Kinds, TypedNext
  <2> QED BY <2>1, <1>5, <1>12
<1> QED BY <1>1, <1>4, <1>5, <1>8, <1>11, <1>12

\* The second half makes a block of the chain of it.
LEMMA InfoWritten ==
    ASSUME Sized, IInv, IInv', NEW n \in Nat, Chain(flash, n), Half(n), p_info = Slot(n),
           p_data + BLK <= p_info, Clear(flash, Slot(n), Slot(n) + BLK), PrivateInfo
    PROVE  /\ Chain(flash', n + 1) /\ BlkAt(flash', n) = block
           /\ \A k \in 0 .. n - 1 : BlkAt(flash', k) = BlkAt(flash, k)
           /\ End(flash', n + 1) = p_data /\ p_data' = p_data /\ p_info' = Slot(n + 1)
           /\ table' = TableUpdate(block)
           /\ \A a \in Addr : ~(Slot(n) <= a /\ a < Slot(n) + BLK) => flash'[a] = flash[a]
           /\ \A a \in Addr : flash'[a] = Mixed => flash[a] = Mixed
<1>1. /\ flash' = Program(flash, p_info, InfoCells(block)) /\ p_info' = p_info - BLK
      /\ p_data' = p_data
  BY DEF PrivateInfo
<1>2. Sound(block) /\ block.data_addr = End(flash, n) /\ p_data = End(flash, n) + block.length
      /\ Holds(flash, block)
  BY DEF Half
<1>3. table' = TableUpdate(block)
  BY <1>2, TableHasRoom DEF PrivateInfo, Sound
<1>4. Slot(n) \in Nat /\ Slot(n) <= FirstInfo /\ Slot(n + 1) = Slot(n) - BLK
      /\ End(flash, n) \in Nat /\ End(flash, n) <= Slot(n) /\ BLK \in Nat /\ FirstInfo \in Nat
  BY Geometry, ChainPlaces, SlotFacts
<1>5. block.length \in Nat /\ Len(InfoCells(block)) = BLK
  BY <1>2, SoundIs, InfoCellsType DEF Sound
<1>6. \A a \in Addr : flash'[a] = IF Slot(n) <= a /\ a < Slot(n) + BLK
                                  THEN InfoCells(block)[a - Slot(n) + 1] ELSE flash[a]
  <2>1. /\ flash \in [Addr -> Cell] /\ Slot(n) \in Int
        /\ flash' = Program(flash, Slot(n), InfoCells(block))
    BY <1>1, <1>4, Typed
  <2> QED BY <1>4, <1>5, <2>1, ProgramIs
<1>7. \A a \in Addr : a < End(flash, n) \/ (Slot(n) + BLK <= a /\ a < FirstInfo + BLK)
                       => flash'[a] = flash[a]
  <2>1. ASSUME NEW a \in Addr, a < End(flash, n) \/ (Slot(n) + BLK <= a /\ a < FirstInfo + BLK)
        PROVE  ~(Slot(n) <= a /\ a < Slot(n) + BLK)
    BY <2>1, <1>4, AddrIs DEF Addr
  <2> QED BY <2>1, <1>6
<1>8. /\ Chain(flash', n)
      /\ \A k \in 0 .. n : End(flash', k) = End(flash, k)
      /\ \A k \in 0 .. n - 1 : BlkAt(flash', k) = BlkAt(flash, k)
  BY <1>7, ChainSame, Typed, TypedNext
<1>9. End(flash', n) = End(flash, n)
  BY <1>8
<1>10. Holds(flash', block)
  <2>1. ASSUME NEW m \in 1 .. block.length
        PROVE  flash'[block.data_addr + m - 1] = flash[block.data_addr + m - 1]
    <3>1. block.data_addr + m - 1 < Slot(n) /\ block.data_addr + m - 1 \in Nat
      <4>1. End(flash, n) + block.length <= Slot(n)
        BY <1>2, <1>4
      <4>2. PICK e \in Nat, l \in Nat : e = block.data_addr /\ l = block.length /\ e = End(flash, n)
        BY <1>2, <1>4, <1>5
      <4>3. m \in Int /\ 1 <= m /\ m <= l /\ e + l <= Slot(n)
        BY <4>1, <4>2
      <4> QED BY <4>2, <4>3, <1>4
    <3>2. PICK a \in Addr : a = block.data_addr + m - 1
      BY <3>1, <1>4, Geometry DEF Addr
    <3>3. ~(Slot(n) <= a)
      BY <3>1, <3>2, <1>4
    <3>4. flash'[a] = flash[a]
      BY <1>6, <3>3
    <3> QED BY <3>2, <3>4
  <2> QED BY <1>2, <2>1 DEF Holds
<1>11. ASSUME NEW p \in 1 .. BLK
       PROVE  flash'[Slot(n) + p - 1] = InfoCell(block, p)
  <2>1. PICK a \in Addr : a = Slot(n) + p - 1
    BY <1>4, Geometry DEF Addr
  <2>2. Slot(n) <= a /\ a < Slot(n) + BLK /\ a - Slot(n) + 1 = p
    BY <1>4, <2>1, Geometry
  <2> QED BY <1>6, <2>1, <2>2 DEF InfoCells
<1>12. End(flash', n) + block.length <= Slot(n + 1)
  <2>1. End(flash, n) + block.length + BLK <= Slot(n)
    BY <1>2
  <2> QED BY <2>1, <1>4, <1>5, <1>9
<1>13. /\ Chain(flash', n + 1) /\ BlkAt(flash', n) = block
       /\ End(flash', n + 1) = End(flash', n) + block.length
  <2>1. flash' \in [Addr -> Cell] /\ block.data_addr = End(flash', n)
    BY <1>2, <1>9, TypedNext
  <2> QED BY <1>2, <1>8, <1>10, <1>11, <1>12, <2>1, ChainGrows
<1>14. ASSUME NEW a \in Addr, flash'[a] = Mixed
       PROVE  flash[a] = Mixed
  <2>1. CASE Slot(n) <= a /\ a < Slot(n) + BLK
    <3>1. a - Slot(n) + 1 \in 1 .. BLK
      BY <2>1, <1>4, Geometry DEF Addr
    <3>2. flash'[a] = InfoCell(block, a - Slot(n) + 1)
      BY <2>1, <3>1, <1>6 DEF InfoCells
    <3> QED BY <3>2, <1>14, InfoIs
  <2> QED BY <2>1, <1>6, <1>14
<1> QED BY <1>1, <1>2, <1>3, <1>4, <1>6, <1>8, <1>9, <1>13, <1>14
-----------------------------------------------------------------------------
(* e2p_write, and the calls that leave the flash alone *)

LEMMA MarkedSame ==
    ASSUME Marked, version' = version,
           \A a \in Addr : FirstInfo + BLK <= a => flash'[a] = flash[a]
    PROVE  Marked'
<1>1. ASSUME NEW p \in 1 .. BLK
      PROVE  flash'[FirstInfo + BLK + p - 1] = flash[FirstInfo + BLK + p - 1]
  <2>1. PICK a \in Addr : a = FirstInfo + BLK + p - 1 /\ FirstInfo + BLK <= a
    BY Geometry DEF Addr
  <2> QED BY <2>1
<1> QED BY <1>1 DEF Marked

LEMMA ClearSame ==
    ASSUME NEW f, NEW g, NEW lo \in Nat, NEW hi \in Int, NEW from \in Nat, NEW to \in Int,
           Clear(f, lo, hi), lo <= from, to <= hi, to <= AreaSize,
           \A a \in Addr : from <= a /\ a < to => g[a] = f[a]
    PROVE  Clear(g, from, to)
<1>1. ASSUME NEW a \in from .. to - 1
      PROVE  g[a] = Erased
  <2>1. a \in Addr /\ from <= a /\ a < to /\ a \in lo .. hi - 1
    BY Geometry DEF Addr
  <2> QED BY <2>1 DEF Clear
<1> QED BY <1>1 DEF Clear

LEMMA WriteStore ==
    ASSUME Sized, IInv, IInv', StoreInv,
           NEW id \in Id, NEW v \in Val, NEW len \in Lengths, Write(id, Payload(v, len))
    PROVE  StoreInv'
<1>1. /\ pc' \in {"wr_data", "fl_start"} /\ req' = [id |-> id, cells |-> Payload(v, len)]
      /\ UNCHANGED <<flash, version, p_data, p_info, table, acked>> /\ Resting
  BY DEF Write, area, StoreInv
<1>2. len \in Nat
  BY E2PAssumption
<1>3. Len(Payload(v, len)) = len /\ \A m \in 1 .. len : Plain(Payload(v, len)[m])
  BY <1>2 DEF Payload, Plain, DataCell
<1>4. Ask'
  BY <1>1, <1>3 DEF Ask
<1>5. PICK n \in Nat : Complete(n) /\ Loaded(n) /\ p_data = End(flash, n)
  BY <1>1 DEF Resting
<1>6. Complete(n)' /\ Loaded(n)' /\ p_data' = End(flash', n)
  BY <1>1, <1>5 DEF Complete, Marked, Loaded
<1>7. Resting'
  BY <1>6 DEF Resting
<1> QED BY <1>1, <1>4, <1>7 DEF StoreInv

LEMMA WriteDataStore ==
    ASSUME Sized, IInv, IInv', StoreInv, WriteData
    PROVE  StoreInv' /\ \A a \in Addr : flash'[a] = Mixed => flash[a] = Mixed
<1>1. /\ pc' = "wr_info" /\ UNCHANGED <<version, table, req, acked>> /\ Resting
      /\ PrivateData(req.id, req.cells) /\ req # NoReq /\ Ask /\ PrivateFits(Len(req.cells))
  BY DEF WriteData, hist, StoreInv, IInv, FlowOK
<1>2. PICK n \in Nat : Complete(n) /\ Loaded(n) /\ p_data = End(flash, n)
  BY <1>1 DEF Resting
<1>3. PICK len \in Lengths : len = Len(req.cells)
  BY <1>1 DEF Ask
<1>4. /\ req.id \in Id /\ req.cells \in Seq(Cell) /\ \A m \in 1 .. len : Plain(req.cells[m])
      /\ len \in Nat
  BY <1>1, <1>3, ReqType, E2PAssumption DEF Ask, IInv
<1>5. /\ p_data + len + BLK <= p_info /\ p_info = Slot(n) /\ p_info \in Nat /\ p_data \in Nat
      /\ Chain(flash, n) /\ p_info <= FirstInfo
  BY <1>1, <1>2, <1>3, <1>4, Typed, Geometry, SMTT(30) DEF PrivateFits, Loaded, Complete
<1>6. Clear(flash, p_data, Slot(n) + BLK)
  BY <1>2 DEF Complete
<1>7. Clear(flash, p_data, p_data + len)
  <2>1. PICK from, top \in Nat : from = p_data /\ top = p_info
    BY <1>5
  <2>2. Clear(flash, from, top + BLK) /\ from + len + BLK <= top
    BY <1>5, <1>6, <2>1
  <2>3. Clear(flash, from, from + len)
    BY <2>2, <1>4, Geometry DEF Clear
  <2> QED BY <2>1, <2>3
<1>8. /\ Chain(flash', n) /\ Half(n)'
      /\ \A k \in 0 .. n - 1 : BlkAt(flash', k) = BlkAt(flash, k)
      /\ \A a \in Addr : ~(p_data <= a /\ a < p_data + len) => flash'[a] = flash[a]
      /\ \A a \in Addr : flash'[a] = Mixed => flash[a] = Mixed
      /\ block'.block_id = req.id /\ block'.crc = req.cells
      /\ p_data' = p_data + len /\ p_info' = p_info
  <2>1. /\ PrivateData(req.id, req.cells) /\ req.id \in Id /\ req.cells \in Seq(Cell)
        /\ Len(req.cells) = len /\ \A m \in 1 .. len : Plain(req.cells[m])
    BY <1>1, <1>3, <1>4
  <2>2. /\ n \in Nat /\ Chain(flash, n) /\ p_data = End(flash, n) /\ p_info = Slot(n)
        /\ Clear(flash, p_data, p_data + len) /\ p_data + len + BLK <= p_info
    BY <1>2, <1>5, <1>7
  <2> QED BY ONLY <2>1, <2>2, Sized, IInv, IInv', len \in Lengths, DataWritten, ZenonT(40)
<1>9. Marked'
  <2>1. ASSUME NEW a \in Addr, FirstInfo + BLK <= a
        PROVE  flash'[a] = flash[a]
    BY <2>1, <1>4, <1>5, <1>8, Geometry DEF Addr
  <2> QED BY <1>1, <1>2, <2>1, MarkedSame DEF Complete
<1>10. \A id \in Id : /\ Recorded(flash', n, id, acked'[id])
                      /\ Newest(flash', n, id, table'[id])
  BY <1>1, <1>2, <1>8, NewestSame DEF Complete, Loaded
<1>11. Clear(flash', p_data', Slot(n) + BLK)
  <2>1. /\ p_data' \in Nat /\ Slot(n) + BLK \in Int /\ p_data <= p_data' /\ Slot(n) + BLK <= AreaSize
    BY <1>4, <1>5, <1>8, Geometry, SMTT(30)
  <2>2. ASSUME NEW a \in Addr, p_data' <= a, a < Slot(n) + BLK
        PROVE  flash'[a] = flash[a]
    BY <2>2, <1>4, <1>5, <1>8 DEF Addr
  <2>3. PICK to \in Int, from \in Nat : to = Slot(n) + BLK /\ from = p_data'
    BY <2>1
  <2>4. Clear(flash, p_data, to) /\ p_data <= from /\ to <= AreaSize /\ p_data \in Nat
    BY <1>5, <1>6, <2>1, <2>3
  <2>5. \A a \in Addr : from <= a /\ a < to => flash'[a] = flash[a]
    BY <2>2, <2>3
  <2>6. to <= to
    BY <2>3
  <2>7. Clear(flash', from, to)
    BY ONLY <2>3, <2>4, <2>5, <2>6, ClearSame
  <2> QED BY <2>3, <2>7
<1>12. Loaded(n)'
  BY <1>5, <1>8, <1>10 DEF Loaded
<1>13. Halfway'
  BY <1>1, <1>8, <1>9, <1>10, <1>11, <1>12 DEF Halfway
<1>14. Ask'
  BY <1>1 DEF Ask
<1> QED BY <1>1, <1>8, <1>13, <1>14 DEF StoreInv

LEMMA WriteInfoStore ==
    ASSUME Sized, IInv, IInv', StoreInv, WriteInfo
    PROVE  StoreInv' /\ \A a \in Addr : flash'[a] = Mixed => flash[a] = Mixed
<1>1. /\ pc' = "idle" /\ version' = version /\ Halfway /\ PrivateInfo /\ req' = NoReq /\ Ask
  BY DEF WriteInfo, StoreInv
<1>2. PICK n \in Nat :
          /\ Chain(flash, n) /\ Marked
          /\ \A id \in Id : Recorded(flash, n, id, acked[id])
          /\ Loaded(n) /\ Half(n)
          /\ Clear(flash, p_data, Slot(n) + BLK)
          /\ req # NoReq /\ block.block_id = req.id /\ block.crc = req.cells
  BY <1>1 DEF Halfway
<1>3. acked' = [acked EXCEPT ![req.id] = req.cells] /\ req.id \in Id
  <2>1. req.id \in Id
    BY <1>1, <1>2 DEF Ask
  <2> QED BY <1>2, <2>1, TableHasRoom DEF WriteInfo
<1>4. /\ p_info = Slot(n) /\ p_data + BLK <= p_info /\ p_info \in Nat /\ p_data \in Nat
      /\ p_info <= FirstInfo
  <2>1. remain_size >= BLK
    BY DEF IInv, LayoutOK, Pending, WriteInfo
  <2> QED BY <1>2, <2>1, Typed, Geometry DEF Loaded
<1>5. Clear(flash, Slot(n), Slot(n) + BLK)
  BY <1>2, <1>4, Geometry DEF Clear
<1>6. /\ Chain(flash', n + 1) /\ BlkAt(flash', n) = block
      /\ \A k \in 0 .. n - 1 : BlkAt(flash', k) = BlkAt(flash, k)
      /\ End(flash', n + 1) = p_data /\ p_data' = p_data /\ p_info' = Slot(n + 1)
      /\ table' = TableUpdate(block)
      /\ \A a \in Addr : ~(Slot(n) <= a /\ a < Slot(n) + BLK) => flash'[a] = flash[a]
      /\ \A a \in Addr : flash'[a] = Mixed => flash[a] = Mixed
  BY <1>1, <1>2, <1>4, <1>5, InfoWritten
<1>7. Marked'
  <2>1. ASSUME NEW a \in Addr, FirstInfo + BLK <= a
        PROVE  flash'[a] = flash[a]
    BY <2>1, <1>4, <1>6, Geometry DEF Addr
  <2> QED BY <1>1, <1>2, <2>1, MarkedSame
<1>8. ASSUME NEW id \in Id
      PROVE  /\ Recorded(flash', n + 1, id, acked'[id])
             /\ Newest(flash', n + 1, id, table'[id])
  <2>1. Recorded(flash', n, id, acked[id]) /\ Newest(flash', n, id, table[id])
    BY <1>2, <1>6, NewestSame DEF Loaded
  <2>2. acked'[id] = IF id = block.block_id THEN block.crc ELSE acked[id]
    BY <1>2, <1>3, Typed
  <2>3. table'[id] = IF id = block.block_id THEN block ELSE table[id]
    BY <1>6, Typed DEF TableUpdate
  <2> QED BY <1>6, <2>1, <2>2, <2>3, NewestGrows
<1>9. Clear(flash', End(flash', n + 1), Slot(n + 1) + BLK)
  <2>1. Slot(n + 1) + BLK = Slot(n) /\ Slot(n) \in Int
    BY SlotFacts, Geometry
  <2>2. \A a \in Addr : p_data <= a /\ a < Slot(n) => flash'[a] = flash[a]
    BY <1>4, <1>6 DEF Addr
  <2>3. PICK to \in Int, hi \in Int : to = Slot(n) /\ hi = Slot(n) + BLK
    BY <2>1, Geometry
  <2>4. /\ Clear(flash, p_data, hi) /\ p_data <= p_data /\ to <= hi /\ to <= AreaSize /\ p_data \in Nat
    BY <1>2, <1>4, <2>3, Geometry
  <2>5. \A a \in Addr : p_data <= a /\ a < to => flash'[a] = flash[a]
    BY <2>2, <2>3
  <2>6. Clear(flash', p_data, to)
    BY ONLY <2>3, <2>4, <2>5, ClearSame
  <2> QED BY <1>6, <2>1, <2>3, <2>6
<1>10. Complete(n + 1)' /\ Loaded(n + 1)' /\ p_data' = End(flash', n + 1)
  BY <1>6, <1>7, <1>8, <1>9 DEF Complete, Loaded
<1>11. Resting' /\ Ask'
  BY <1>1, <1>10 DEF Resting, Ask
<1> QED BY <1>1, <1>6, <1>11 DEF StoreInv

LEMMA QuietStore ==
    ASSUME Sized, IInv, IInv', StoreInv, FlushTry \/ FlushBegin \/ Restart
    PROVE  StoreInv'
<1>1. /\ pc' \in {"idle", "fl_start", "off"}
      /\ UNCHANGED <<flash, version, p_data, p_info, table, req, acked>> /\ Resting /\ Ask /\ req = NoReq
  BY DEF FlushTry, FlushBegin, Restart, area, hist, StoreInv, Ask
<1>2. PICK n \in Nat : Complete(n) /\ Loaded(n) /\ p_data = End(flash, n)
  BY <1>1 DEF Resting
<1>3. Complete(n)' /\ Loaded(n)' /\ p_data' = End(flash', n)
  BY <1>1, <1>2 DEF Complete, Marked, Loaded
<1>4. Resting' /\ Off' /\ Ask'
  BY <1>1, <1>3 DEF Resting, Off, Ask
<1> QED BY <1>1, <1>4 DEF StoreInv

LEMMA FormatStore ==
    ASSUME Sized, IInv, IInv', StoreInv, Format
    PROVE  StoreInv'
<1>1. pc' = "off" /\ flash' = EraseRange(flash, 0, AreaSize) /\ req' = req /\ req = NoReq
  BY DEF Format, StoreInv, Ask
<1>2. flash'[FirstInfo + BLK] = Erased
  <2>1. PICK x \in Addr : x = FirstInfo + BLK
    BY AddrIs
  <2>2. 0 <= x /\ x < 0 + AreaSize /\ AreaSize \in Int
    BY <2>1, AddrIs, Geometry
  <2>3. flash \in [Addr -> Cell] /\ 0 \in Int
    BY Typed
  <2>4. EraseRange(flash, 0, AreaSize)[x] = Erased
    BY ONLY <2>1, <2>2, <2>3, EraseIs
  <2> QED BY <1>1, <2>1, <2>4
<1>3. Off'
  BY <1>2 DEF Off, Erased
<1>4. Ask'
  BY <1>1 DEF Ask
<1> QED BY <1>1, <1>3, <1>4 DEF StoreInv
-----------------------------------------------------------------------------
(* The start of e2p_flush *)

\* At rest the table describes what was written and finds it on the flash,
\* below the last sector.
LEMMA RestingFacts ==
    ASSUME Sized, IInv, Resting
    PROVE  /\ Described
           /\ \A id \in Known : /\ Holds(flash, table[id])
                                /\ table[id].data_addr + table[id].length <= p_data
           /\ \A a \in 0 .. p_data - 1 : Plain(flash[a])
           /\ Clear(flash, p_data, p_info + BLK)
           /\ p_data <= AreaSize - EraseSize
<1>1. PICK n \in Nat : Complete(n) /\ Loaded(n) /\ p_data = End(flash, n)
  BY DEF Resting
<1>2. Chain(flash, n) /\ p_info = Slot(n)
  BY <1>1 DEF Complete, Loaded
<1>3. p_data <= AreaSize - EraseSize
  BY <1>1, <1>2, ChainPlaces
<1>4. ASSUME NEW id \in Id
      PROVE  /\ acked[id] = table[id].crc
             /\ \/ table[id] = Blank
                \/ /\ Sound(table[id]) /\ table[id].block_id = id /\ Holds(flash, table[id])
                   /\ table[id].data_addr + table[id].length <= p_data
  <2>1. Newest(flash, n, id, table[id]) /\ Recorded(flash, n, id, acked[id])
    BY <1>1 DEF Complete, Loaded
  <2>2. acked[id] = table[id].crc
    BY <2>1, NewestIs
  <2>3. ASSUME table[id] # Blank
        PROVE  /\ Sound(table[id]) /\ table[id].block_id = id /\ Holds(flash, table[id])
               /\ table[id].data_addr + table[id].length <= p_data
    <3>1. PICK k \in 0 .. n - 1 : Last(flash, n, id, k) /\ table[id] = BlkAt(flash, k)
      BY <2>1, <2>3 DEF Newest
    <3>2. /\ Sound(BlkAt(flash, k)) /\ Holds(flash, BlkAt(flash, k))
          /\ BlkAt(flash, k).data_addr = End(flash, k)
          /\ End(flash, k + 1) = End(flash, k) + BlkAt(flash, k).length
          /\ End(flash, k + 1) <= End(flash, n)
      BY <1>2, ChainPlaces
    <3>3. table[id].block_id = id
      BY <3>1 DEF Last
    <3>4. table[id].data_addr + table[id].length <= p_data
      BY <1>1, <3>1, <3>2
    <3> QED BY <3>1, <3>2, <3>3, <3>4
  <2> QED BY <2>2, <2>3
<1>5. Blank.crc = << >>
  BY DEF Blank, Block
<1>6. Described
  BY <1>4, <1>5 DEF Described
<1>7. \A id \in Known : /\ Holds(flash, table[id])
                        /\ table[id].data_addr + table[id].length <= p_data
  BY <1>4 DEF Known
<1>8. \A a \in 0 .. p_data - 1 : Plain(flash[a])
  BY <1>1, <1>2 DEF Chain
<1>9. Clear(flash, p_data, p_info + BLK)
  BY <1>1, <1>2 DEF Complete
<1> QED BY <1>3, <1>6, <1>7, <1>8, <1>9

\* The sector of the next info block.
LEMMA SectorIs ==
    ASSUME IInv
    PROVE  /\ InfoSector \in Nat /\ InfoSector <= p_info /\ p_info < InfoSector + EraseSize
           /\ p_info % EraseSize = p_info - InfoSector
           /\ InfoSector <= AreaSize - EraseSize
           /\ ~DataInSameSector => p_data < InfoSector
<1>1. /\ InfoSector = Below(p_info, EraseSize) /\ InfoSector \in Nat /\ InfoSector <= p_info
      /\ p_info < InfoSector + EraseSize /\ InfoSector % EraseSize = 0
      /\ InfoSector = (p_info \div EraseSize) * EraseSize
  BY BelowIs, Numbers, Geometry DEF InfoSector, Below
<1>2. p_info % EraseSize = p_info - InfoSector
  <2>1. p_info % EraseSize \in Nat
    BY Division, Numbers, Geometry
  <2> QED BY <2>1, Typed DEF InfoSector
<1>3. InfoSector + EraseSize <= AreaSize
  <2>1. AreaSize % EraseSize = 0
    <3>1. AreaSize = SectorCnt * EraseSize /\ SectorCnt \in Nat
      BY E2PAssumption DEF AreaSize
    <3> QED BY <3>1, MultipleIs, Geometry
  <2>2. InfoSector < AreaSize
    BY <1>1, Numbers, Geometry
  <2> QED BY <1>1, <2>1, <2>2, MultiplesApart, Geometry
<1>4. ASSUME ~DataInSameSector
      PROVE  p_data < InfoSector
  <2>1. PICK q \in Nat, s \in Nat : q = p_data \div EraseSize /\ s = p_info \div EraseSize
    BY Division, Numbers, Geometry
  <2>2. q < s
    BY <1>4, <2>1 DEF DataInSameSector
  <2>3. q * EraseSize + EraseSize <= s * EraseSize
    BY <2>2, Fewer, Geometry
  <2>4. p_data < q * EraseSize + EraseSize
    <3>1. PICK r \in 0 .. EraseSize - 1 : p_data = q * EraseSize + r
      BY <2>1, Division, Numbers, Geometry
    <3>2. PICK m \in Nat : m = q * EraseSize
      BY Geometry
    <3> QED BY <3>1, <3>2, Geometry
  <2>5. PICK m \in Int, k \in Int : m = s * EraseSize /\ k = q * EraseSize
    BY Geometry
  <2>6. InfoSector = m /\ k + EraseSize <= m /\ p_data < k + EraseSize
    BY <1>1, <2>1, <2>3, <2>4, <2>5
  <2> QED BY <2>6, Numbers, Geometry
<1> QED BY <1>1, <1>2, <1>3, <1>4, Geometry

\* The sorted table has every variable once.
LEMMA OrderIs ==
    ASSUME Sized, NEW q \in Orders
    PROVE  /\ Len(q) \in Nat /\ Len(q) <= MaxVar /\ DOMAIN q = 1 .. Len(q)
           /\ \A n \in 1 .. Len(q) : q[n] \in Known
           /\ \A m, n \in 1 .. Len(q) : m # n => q[m] # q[n]
           /\ \A id \in Known : \E n \in 1 .. Len(q) : q[n] = id
<1>1. Known \subseteq Id /\ IsFiniteSet(Id)
  BY E2PAssumption DEF Known
<1>2. IsFiniteSet(Known) /\ Cardinality(Known) <= Cardinality(Id)
  BY <1>1, FS_Subset
<1>3. PICK c \in Nat : c = Cardinality(Known)
  BY <1>2, FS_CardinalityType
<1>4. q \in [1 .. c -> Known] /\ Sorted(q)
  BY <1>3 DEF Orders
<1>5. Len(q) = c /\ DOMAIN q = 1 .. c
  BY <1>4
<1>6. \A m, n \in 1 .. c : m < n => q[m] # q[n]
  BY <1>4 DEF Sorted
<1>7. \A m, n \in 1 .. c : m # n => q[m] # q[n]
  <2>1. ASSUME NEW m \in 1 .. c, NEW n \in 1 .. c, m # n
        PROVE  q[m] # q[n]
    <3>1. m < n \/ n < m
      BY <2>1
    <3> QED BY <1>6, <3>1
  <2> QED BY <2>1
<1>8. q \in Injection(1 .. c, Known)
  BY <1>4, <1>7 DEF Injection, IsInjective
<1>9. Cardinality(1 .. c) = c
  BY FS_Interval
<1>10. q \in Surjection(1 .. c, Known)
  BY <1>2, <1>3, <1>8, <1>9, FS_Injection
<1>11. \A id \in Known : \E n \in 1 .. c : q[n] = id
  BY <1>10 DEF Surjection
<1>12. c <= MaxVar
  BY <1>1, <1>2, <1>3, FS_CardinalityType, E2PAssumption DEF Sized
<1> QED BY <1>4, <1>5, <1>7, <1>11, <1>12

\* Nothing is in the buffer when the walk starts.
LEMMA PackedNone ==
    ASSUME Sized, NEW q \in Orders, BeginLoop(q), NEW S
    PROVE  Packed(0, S)'
<1>1. /\ p_data' = 0 /\ order' = q /\ i' = 0 /\ read_buf' = << >>
  BY DEF BeginLoop, ResetPointers
<1>2. Len(q) \in Nat
  BY OrderIs
<1> DEFINE none == [n \in 0 .. Len(q) |-> 0]
<1>3. none \in [0 .. Len(order') -> 0 .. EraseSize] /\ none[0] = 0
  BY <1>1, <1>2, Geometry
<1> HIDE DEF none
<1>4. \A m, n \in 0 .. 0 : m <= n => none[m] <= none[n]
  BY <1>3
<1>5. Len(read_buf') = 0
  BY <1>1
<1>6. /\ \A n \in 0 .. i' - 1 : none[n + 1] = none[n] + Entry(n)'.length
      /\ \A m, n \in 0 .. i' : m <= n => none[m] <= none[n]
      /\ none[0] = p_data' /\ Len(read_buf') = none[i'] - none[0]
      /\ \A n \in 0 .. i' - 1 : order'[n + 1] \in S => \A m \in 1 .. Entry(n)'.length :
            read_buf'[none[n] - none[0] + m] = acked'[order'[n + 1]][m]
  BY <1>1, <1>3, <1>4, <1>5
<1> QED BY <1>3, <1>6 DEF Packed

\* The pointers and the walk start anew, with the sector of the info blocks
\* erased and every value where the table says.
LEMMA BeginLoopStore ==
    ASSUME Sized, IInv', table' = table, acked' = acked, Described, Ask',
           NEW q \in Orders, BeginLoop(q), Clear(flash', AreaSize - EraseSize, AreaSize),
           \A id \in Known : Holds(flash', table[id])
    PROVE  StoreInv'
<1>1. /\ p_data' = 0 /\ p_info' = FirstInfo /\ order' = q
      /\ i' = 0 /\ count' = 0 /\ head' = 0 /\ tail' = 0 /\ read_buf' = << >>
      /\ \/ Len(q) = 0 /\ pc' = "fl_tail"
         \/ pc' = "fl_read"
  BY DEF BeginLoop, ResetPointers
<1>2. Known' = Known
  BY DEF Known
<1>3. Walk'
  <2>1. Described'
    BY DEF Described
  <2> QED BY <1>1, <1>2, <2>1, OrderIs DEF Walk
<1>4. TopClear'
  <2>1. AreaSize - EraseSize < FirstInfo
    <3>1. 0 \in 0 .. MaxVar
      BY E2PAssumption
    <3> QED BY <3>1, SlotHigh, SlotFacts
  <2>2. p_info' + BLK <= AreaSize /\ AreaSize - EraseSize <= FirstInfo + BLK
    BY <1>1, <2>1, Geometry
  <2>3. Clear(flash', AreaSize - EraseSize, p_info' + BLK)
    BY <2>2, TypedNext, Geometry DEF Clear
  <2>4. Clear(flash', FirstInfo + BLK, AreaSize)
    BY <2>2, Geometry DEF Clear
  <2> QED BY <2>3, <2>4 DEF TopClear
<1>5. Packed(0, Id)'
  BY PackedNone
<1>6. CASE pc' = "fl_read"
  <2>1. MaxVar * Len(read_buf') <= i' * EraseSize
    <3>1. Len(read_buf') = 0 /\ MaxVar * 0 = 0 /\ 0 * EraseSize = 0
      BY <1>1, E2PAssumption
    <3> QED BY <1>1, <3>1
  <2>2. Reading'
    BY <1>1, <1>2, <1>3, <1>4, <1>5, <2>1 DEF Reading
  <2> QED BY <1>6, <2>2 DEF StoreInv
<1>7. CASE Len(q) = 0 /\ pc' = "fl_tail"
  <2>1. Chain(flash', 0) /\ End(flash', 0) = 0 /\ Slot(0) = FirstInfo
    BY EmptyArea, TypedNext
  <2>2. Rewritten(0)'
    BY <1>1, <2>1 DEF Rewritten
  <2>3. Between'
    BY <1>1, <1>3, <1>4, <1>5, <1>7, <2>1, <2>2 DEF Between
  <2>4. BelowTail'
    <3>1. 0 % EraseSize = 0
      <4>1. 0 = 0 * EraseSize
        BY Geometry
      <4> QED BY <4>1, MultipleIs, Geometry
    <3> QED BY <1>1, <3>1, Geometry DEF BelowTail
  <2> QED BY <1>7, <2>3, <2>4 DEF StoreInv
<1> QED BY <1>1, <1>6, <1>7

\* The flash is not disturbed below the sector that is erased.
LEMMA EraseFromIs ==
    ASSUME IInv
    PROVE  \A a \in Addr : EraseFrom(InfoSector)[a] = IF InfoSector <= a THEN Erased ELSE flash[a]
<1>1. InfoSector \in Int /\ AreaSize - InfoSector \in Int /\ flash \in [Addr -> Cell]
  BY SectorIs, Geometry, Typed
<1>2. ASSUME NEW a \in Addr
      PROVE  EraseFrom(InfoSector)[a] = IF InfoSector <= a THEN Erased ELSE flash[a]
  <2>1. EraseRange(flash, InfoSector, AreaSize - InfoSector)[a]
            = IF InfoSector <= a /\ a < InfoSector + (AreaSize - InfoSector) THEN Erased ELSE flash[a]
    BY <1>1, EraseIs
  <2>2. a < InfoSector + (AreaSize - InfoSector)
    BY <1>1, Geometry DEF Addr
  <2> QED BY <2>1, <2>2 DEF EraseFrom
<1> QED BY <1>2

\* Where the cells of a value are.
LEMMA ValueCells ==
    ASSUME Sized, IInv, NEW b, Sound(b), b.data_addr + b.length <= p_data
    PROVE  \A m \in 1 .. b.length : /\ b.data_addr + m - 1 \in Addr
                                   /\ b.data_addr + m - 1 < p_data
                                   /\ b.crc[m] # Mixed
<1>1. b.data_addr \in Nat /\ b.length \in Nat /\ b.crc \in Seq(Byte) /\ Len(b.crc) = b.length
  BY SoundIs DEF Sound
<1>2. ASSUME NEW m \in 1 .. b.length
      PROVE  b.data_addr + m - 1 \in Addr /\ b.data_addr + m - 1 < p_data
  BY <1>1, Numbers, Geometry, SMTT(30) DEF Addr
<1>3. ASSUME NEW m \in 1 .. b.length
      PROVE  b.crc[m] # Mixed
  <2>1. b.crc[m].kind = "data"
    BY DEF Sound, Plain
  <2> QED BY <2>1 DEF Mixed
<1> QED BY <1>2, <1>3

LEMMA FlushEraseInfoStore ==
    ASSUME Sized, IInv, IInv', StoreInv, FlushEraseInfo
    PROVE  StoreInv'
<1>1. /\ flash' = EraseFrom(InfoSector) /\ Resting /\ ~DataInSameSector
      /\ table' = table /\ acked' = acked
  BY DEF FlushEraseInfo, hist, StoreInv
<1>2. PICK q \in Orders : BeginLoop(q)
  BY DEF FlushEraseInfo
<1>3. pc' \in {"fl_tail", "fl_read"} /\ req' = req /\ Ask
  BY <1>2 DEF BeginLoop, FlushEraseInfo, StoreInv
<1>4. Ask'
  BY <1>3 DEF Ask
<1>5. InfoSector \in Nat /\ p_data < InfoSector /\ InfoSector <= AreaSize - EraseSize
  BY <1>1, SectorIs
<1>6. \A a \in Addr : flash'[a] = IF InfoSector <= a THEN Erased ELSE flash[a]
  BY <1>1, EraseFromIs
<1>7. Clear(flash', AreaSize - EraseSize, AreaSize)
  <2>1. ASSUME NEW a \in AreaSize - EraseSize .. AreaSize - 1
        PROVE  flash'[a] = Erased
    <3>1. a \in Addr /\ InfoSector <= a
      BY <1>5, Geometry DEF Addr
    <3> QED BY <1>6, <3>1
  <2> QED BY <2>1 DEF Clear
<1>8. ASSUME NEW id \in Known
      PROVE  Holds(flash', table[id])
  <2>1. /\ Described /\ Holds(flash, table[id])
        /\ table[id].data_addr + table[id].length <= p_data
    BY <1>1, RestingFacts
  <2>2. Sound(table[id])
    BY <2>1 DEF Described, Known
  <2>3. ASSUME NEW m \in 1 .. table[id].length
        PROVE  flash'[table[id].data_addr + m - 1] = table[id].crc[m]
    <3>1. PICK a \in Addr : a = table[id].data_addr + m - 1 /\ a < p_data
      BY <2>1, <2>2, ValueCells
    <3>2. ~(InfoSector <= a)
      BY <1>5, <3>1, Typed DEF Addr
    <3> QED BY <1>6, <2>1, <3>1, <3>2 DEF Holds
  <2> QED BY <2>3 DEF Holds
<1>9. Described
  BY <1>1, RestingFacts
<1> QED BY <1>1, <1>2, <1>4, <1>7, <1>8, <1>9, BeginLoopStore

LEMMA FlushEraseSharedStore ==
    ASSUME Sized, IInv, IInv', StoreInv, FlushEraseShared
    PROVE  StoreInv'
<1>1. /\ flash' = EraseFrom(InfoSector) /\ Resting /\ pc' = "fl_restore"
      /\ read_buf' = ReadCells(flash, InfoSector, p_info % EraseSize)
      /\ table' = table /\ acked' = acked /\ p_info' = p_info /\ req' = req /\ Ask
  BY DEF FlushEraseShared, hist, area, StoreInv
<1>2. Ask'
  BY <1>1 DEF Ask
<1>3. PICK s \in Nat, n \in Nat :
          /\ s = InfoSector /\ n = p_info % EraseSize /\ n = p_info - s
          /\ s <= p_info /\ s <= AreaSize - EraseSize
  <2>1. p_info - InfoSector \in Nat
    BY SectorIs, Typed
  <2> QED BY <2>1, SectorIs
<1>4. InfoSector' = s /\ (p_info % EraseSize)' = n
  BY <1>1, <1>3 DEF InfoSector
<1>5. \A a \in Addr : flash'[a] = IF s <= a THEN Erased ELSE flash[a]
  BY <1>1, <1>3, EraseFromIs
<1>6. Len(read_buf') = n /\ \A m \in 1 .. n : s + m - 1 \in Addr /\ read_buf'[m] = flash[s + m - 1]
  <2>1. Len(read_buf') = n
    BY <1>1, <1>3, ReadType, Typed
  <2>2. ASSUME NEW m \in 1 .. n
        PROVE  s + m - 1 \in Addr
    BY <1>3, Numbers, Geometry DEF Addr
  <2>3. DOMAIN flash = Addr
    BY Typed
  <2>4. \A m \in 1 .. n : read_buf'[m] = flash[s + m - 1]
    BY <1>1, <1>3, <2>2, <2>3 DEF ReadCells
  <2> QED BY <2>1, <2>2, <2>4
<1>7. Clear(flash', s, AreaSize)
  <2>1. ASSUME NEW a \in s .. AreaSize - 1
        PROVE  flash'[a] = Erased
    <3>1. a \in Addr /\ s <= a
      BY Geometry DEF Addr
    <3> QED BY <1>5, <3>1
  <2> QED BY <2>1 DEF Clear
<1>8. ASSUME NEW id \in Known, NEW m \in 1 .. table[id].length, NEW a, a = table[id].data_addr + m - 1
      PROVE  IF a < s THEN flash'[a] = table[id].crc[m]
             ELSE a < p_info /\ read_buf'[a - s + 1] = table[id].crc[m]
  <2>1. /\ Described /\ Holds(flash, table[id])
        /\ table[id].data_addr + table[id].length <= p_data
    BY <1>1, RestingFacts
  <2>2. Sound(table[id])
    BY <2>1 DEF Described, Known
  <2>3. a \in Addr /\ a < p_data /\ flash[a] = table[id].crc[m]
    BY <2>1, <2>2, <1>8, ValueCells DEF Holds
  <2>4. a \in Nat /\ a < p_info /\ p_info \in Nat
    BY <2>3, Typed DEF Addr
  <2>5. CASE a < s
    BY <2>3, <2>4, <2>5, <1>5
  <2>6. CASE ~(a < s)
    <3>1. PICK k \in 1 .. n : k = a - s + 1 /\ s + k - 1 = a
      <4>1. a - s + 1 \in 1 .. n /\ s + (a - s + 1) - 1 = a
        BY <2>4, <2>6, <1>3
      <4> QED BY <4>1
    <3> QED BY <2>3, <2>4, <2>6, <3>1, <1>6
  <2> QED BY <2>5, <2>6
<1>9. ASSUME NEW m \in 1 .. n
      PROVE  /\ read_buf'[m] # Mixed
             /\ AreaSize - EraseSize <= s + m - 1 => read_buf'[m] = Erased
  <2>1. PICK a \in Addr : a = s + m - 1 /\ read_buf'[m] = flash[a]
    BY <1>6
  <2>2. a \in Nat /\ a < p_info
    BY <2>1, <1>3, Typed
  <2>3. CASE a < p_data
    <3>1. a \in 0 .. p_data - 1
      BY <2>2, <2>3, Typed
    <3>2. Plain(flash[a])
      BY <1>1, <3>1, RestingFacts
    <3>3. p_data <= AreaSize - EraseSize
      BY <1>1, RestingFacts
    <3>4. ~(AreaSize - EraseSize <= s + m - 1)
      BY <2>1, <2>2, <2>3, <3>3, Numbers, Geometry
    <3> QED BY <2>1, <3>2, <3>4, Kinds, Typed
  <2>4. CASE ~(a < p_data)
    <3>1. p_data <= a /\ a < p_info + BLK /\ p_data \in Int /\ p_info + BLK \in Int
      BY <2>2, <2>4, Numbers, Geometry
    <3>2. Clear(flash, p_data, p_info + BLK)
      BY <1>1, RestingFacts
    <3>3. flash[a] = Erased
      BY <2>2, <3>1, <3>2, ClearType, SMTT(30)
    <3> QED BY <2>1, <3>3 DEF Erased, Mixed
  <2> QED BY <2>3, <2>4
<1>10. Described'
  BY <1>1, RestingFacts DEF Described
<1>11. Known' = Known
  BY <1>1 DEF Known
<1>12. Saved'
  BY <1>1, <1>3, <1>4, <1>6, <1>7, <1>8, <1>9, <1>10, <1>11 DEF Saved
<1> QED BY <1>1, <1>2, <1>12 DEF StoreInv

LEMMA FlushRestoreStore ==
    ASSUME Sized, IInv, IInv', StoreInv, FlushRestore
    PROVE  StoreInv' /\ \A a \in Addr : flash'[a] = Mixed => flash[a] = Mixed
<1>1. /\ flash' = Program(flash, InfoSector, read_buf) /\ Saved
      /\ table' = table /\ acked' = acked /\ req' = req /\ Ask
  BY DEF FlushRestore, hist, StoreInv
<1>2. PICK q \in Orders : BeginLoop(q)
  BY DEF FlushRestore
<1>3. Ask'
  <2>1. pc' \in {"fl_tail", "fl_read"}
    BY <1>2 DEF BeginLoop
  <2> QED BY <1>1, <2>1 DEF Ask
<1>4. PICK s \in Nat, n \in Nat :
          /\ s = InfoSector /\ n = Len(read_buf) /\ n = p_info - s
          /\ s <= p_info /\ s <= AreaSize - EraseSize /\ p_info \in Nat /\ p_info < AreaSize
  <2>1. p_info - InfoSector \in Nat /\ p_info < AreaSize
    BY SectorIs, Numbers, Geometry
  <2> QED BY <1>1, <2>1, SectorIs, Typed DEF Saved
<1>5. Clear(flash, s, s + n)
  BY <1>1, <1>4, Geometry DEF Saved, Clear
<1>6. \A a \in Addr : flash'[a] = IF s <= a /\ a < s + n THEN read_buf[a - s + 1] ELSE flash[a]
  <2>1. /\ flash' = Program(flash, s, read_buf) /\ flash \in [Addr -> Cell]
        /\ s \in Int /\ n \in Nat /\ Len(read_buf) = n
    BY <1>1, <1>4, Typed
  <2>2. \A a \in Addr : Program(flash, s, read_buf)[a] = IF s <= a /\ a < s + n THEN read_buf[a - s + 1] ELSE flash[a]
    BY ONLY <1>5, <2>1, ProgramIs
  <2> QED BY ONLY <2>1, <2>2
<1>7. ASSUME NEW a \in Addr, flash'[a] = Mixed
      PROVE  flash[a] = Mixed
  <2>1. CASE s <= a /\ a < s + n
    <3>1. PICK m \in 1 .. Len(read_buf) : m = a - s + 1
      BY <1>4, <2>1 DEF Addr
    <3> QED BY <1>1, <1>6, <1>7, <2>1, <3>1 DEF Saved
  <2> QED BY <1>6, <1>7, <2>1
<1>8. ASSUME NEW id \in Known
      PROVE  Holds(flash', table[id])
  <2>1. Sound(table[id]) /\ table[id].data_addr \in Nat /\ table[id].length \in Nat
    <3>1. Sound(table[id])
      BY <1>1 DEF Saved, Described, Known
    <3> QED BY <3>1, SoundIs
  <2>2. ASSUME NEW m \in 1 .. table[id].length
        PROVE  flash'[table[id].data_addr + m - 1] = table[id].crc[m]
    <3>1. PICK a \in Nat : a = table[id].data_addr + m - 1
      BY <2>1
    <3>2. IF a < s THEN flash[a] = table[id].crc[m]
          ELSE a < p_info /\ read_buf[a - s + 1] = table[id].crc[m]
      BY <1>1, <1>4, <3>1 DEF Saved
    <3>3. a \in Addr
      BY <1>4, <3>2, Geometry DEF Addr
    <3>4. CASE a < s
      BY <1>6, <3>1, <3>2, <3>3, <3>4
    <3>5. CASE ~(a < s)
      BY <1>4, <1>6, <3>1, <3>2, <3>3, <3>5
    <3> QED BY <3>4, <3>5
  <2> QED BY <2>2 DEF Holds
<1>9. ASSUME NEW a \in AreaSize - EraseSize .. AreaSize - 1
      PROVE  flash'[a] = Erased
  <2>1. a \in Addr /\ s <= a
    BY <1>4, Geometry DEF Addr
  <2>2. CASE a < s + n
    <3>1. PICK m \in 1 .. Len(read_buf) : m = a - s + 1 /\ s + m - 1 = a
      <4>1. a - s + 1 \in 1 .. Len(read_buf) /\ s + (a - s + 1) - 1 = a
        BY <1>4, <2>1, <2>2 DEF Addr
      <4> QED BY <4>1
    <3>2. AreaSize - EraseSize <= InfoSector + m - 1
      BY <1>4, <3>1
    <3> QED BY <1>1, <1>6, <2>1, <2>2, <3>1, <3>2 DEF Saved
  <2>3. CASE ~(a < s + n)
    <3>1. a \in s .. AreaSize - 1
      BY <2>1, <1>4
    <3> QED BY <1>1, <1>4, <1>6, <2>1, <2>3, <3>1 DEF Saved, Clear
  <2> QED BY <2>2, <2>3
<1>10. Clear(flash', AreaSize - EraseSize, AreaSize)
  BY <1>9 DEF Clear
<1>11. StoreInv'
  BY <1>1, <1>2, <1>3, <1>8, <1>10, BeginLoopStore DEF Saved
<1> QED BY <1>7, <1>11
-----------------------------------------------------------------------------
(* The read loop and the erase loop *)

\* An entry of the sorted table.
LEMMA EntryIs ==
    ASSUME Sized, IInv, Walk, NEW n \in 0 .. Len(order) - 1
    PROVE  /\ order[n + 1] \in Known /\ order[n + 1] \in Id
           /\ Entry(n) = table[order[n + 1]] /\ Sound(Entry(n))
           /\ Entry(n).block_id = order[n + 1] /\ Entry(n).crc = acked[order[n + 1]]
           /\ Entry(n).length \in Lengths /\ Entry(n).length \in Nat \ {0}
           /\ MaxVar * Entry(n).length <= EraseSize /\ Entry(n).length <= EraseSize
<1>1. Len(order) \in Nat
  BY DEF IInv, TypeOK
<1>2. order[n + 1] \in Known /\ Described
  BY <1>1 DEF Walk
<1>3. Entry(n) = table[order[n + 1]]
  BY DEF Entry
<1>4. order[n + 1] \in Id /\ table[order[n + 1]] # Blank
  BY <1>2 DEF Known
<1>5. /\ Sound(Entry(n)) /\ Entry(n).block_id = order[n + 1]
      /\ Entry(n).crc = acked[order[n + 1]]
  BY <1>2, <1>3, <1>4 DEF Described
<1> QED BY <1>2, <1>3, <1>4, <1>5, SoundIs DEF Sound

\* What a walk and the erased top need of the state.
LEMMA WalkSame ==
    ASSUME Walk, UNCHANGED <<order, table, acked>>
    PROVE  Walk' /\ Known' = Known /\ \A n : Entry(n)' = Entry(n)
<1>1. Known' = Known /\ \A n : Entry(n)' = Entry(n)
  BY DEF Known, Entry
<1>2. Described'
  BY DEF Walk, Described
<1> QED BY <1>1, <1>2 DEF Walk

LEMMA ReadFits ==
    ASSUME NEW E \in Nat \ {0}, NEW x \in Nat, NEW v \in Nat \ {0}, NEW k \in Nat, k + 1 <= v,
           NEW l \in Nat, v * x <= k * E, v * l <= E
    PROVE  /\ v * (x + l) <= (k + 1) * E /\ x + l <= E
           /\ x + l >= E => k + 1 = v
<1>1. v * (x + l) = v * x + v * l /\ (k + 1) * E = k * E + E
  OBVIOUS
<1>2. v * x \in Nat /\ v * l \in Nat /\ k * E \in Nat /\ (k + 1) * E \in Nat /\ v * (x + l) \in Nat
  OBVIOUS
<1>3. v * (x + l) <= (k + 1) * E
  BY <1>1, <1>2
<1>4. (k + 1) * E <= v * E /\ v * E \in Nat
  BY Fewer
<1>5. (x + l) * v = v * (x + l) /\ E * v = v * E
  OBVIOUS
<1>6. x + l <= E
  <2>1. E < x + l => E * v + v <= (x + l) * v
    BY Fewer
  <2> QED BY <1>2, <1>3, <1>4, <1>5, <2>1
<1>7. ASSUME x + l >= E
      PROVE  k + 1 = v
  <2>1. E * v <= (x + l) * v
    BY <1>7, Fewer
  <2>2. v * E < (k + 1) * E + E
    BY <1>2, <1>3, <1>4, <1>5, <2>1
  <2>3. v <= k + 1
    BY <2>2, Fewer
  <2> QED BY <2>3
<1> QED BY <1>3, <1>6, <1>7

\* No entry of the sorted table is empty.
Lengthy == \A n \in 0 .. Len(order) - 1 : Entry(n).length \in Nat \ {0}

LEMMA WalkLengthy == ASSUME Sized, IInv, Walk PROVE Lengthy
BY EntryIs DEF Lengthy

\* One more entry is read into the buffer.
LEMMA PackedGrows ==
    ASSUME IInv, Lengthy, NEW S, Packed(0, S), p_data = 0, i < Len(order), i' = i + 1,
           UNCHANGED <<order, p_data, table, acked>>,
           NEW cells \in Seq(Cell), NEW len, len = Entry(i).length, Len(cells) = len,
           read_buf' = read_buf \o cells, Len(read_buf) + len <= EraseSize,
           order[i + 1] \in S => \A m \in 1 .. len : cells[m] = acked[order[i + 1]][m]
    PROVE  Packed(0, S)'
<1>1. /\ i \in Nat /\ Len(order) \in Nat /\ read_buf \in Seq(Cell) /\ Len(read_buf) \in Nat
      /\ len \in Nat \ {0}
  <2>1. i \in Nat /\ Len(order) \in Nat /\ read_buf \in Seq(Cell) /\ Len(read_buf) \in Nat
    BY DEF IInv, TypeOK
  <2>2. i \in 0 .. Len(order) - 1
    BY <2>1
  <2> QED BY <2>1, <2>2 DEF Lengthy
<1>2. /\ Len(read_buf') = Len(read_buf) + len
      /\ \A m \in 1 .. Len(read_buf) : read_buf'[m] = read_buf[m]
      /\ \A m \in 1 .. len : read_buf'[Len(read_buf) + m] = cells[m]
  <2>1. PICK old \in Seq(Cell) : old = read_buf
    BY <1>1
  <2>2. PICK new : new = read_buf' /\ new = old \o cells
    BY <2>1
  <2>3. /\ Len(new) = Len(old) + Len(cells)
        /\ \A m \in 1 .. Len(old) : new[m] = old[m]
        /\ \A m \in 1 .. Len(cells) : new[Len(old) + m] = cells[m]
    BY ONLY <2>1, <2>2, cells \in Seq(Cell)
  <2> QED BY <2>1, <2>2, <2>3
<1>3. PICK pos \in [0 .. Len(order) -> 0 .. EraseSize] :
          /\ pos[0] = 0
          /\ \A n \in 0 .. i - 1 : pos[n + 1] = pos[n] + Entry(n).length
          /\ \A m, n \in 0 .. i : m <= n => pos[m] <= pos[n]
          /\ pos[0] = p_data
          /\ Len(read_buf) = pos[i] - pos[0]
          /\ \A n \in 0 .. i - 1 : order[n + 1] \in S => \A m \in 1 .. Entry(n).length :
                read_buf[pos[n] - pos[0] + m] = acked[order[n + 1]][m]
  BY DEF Packed
<1>4. PICK next : next = [pos EXCEPT ![i + 1] = Len(read_buf) + len]
  OBVIOUS
<1>5. /\ next \in [0 .. Len(order) -> 0 .. EraseSize]
      /\ \A n \in 0 .. i : next[n] = pos[n]
      /\ next[i + 1] = Len(read_buf) + len /\ pos[i] = Len(read_buf)
  <2>1. i + 1 \in 0 .. Len(order) /\ Len(read_buf) + len \in 0 .. EraseSize /\ i + 1 \notin 0 .. i
        /\ 0 .. i \subseteq 0 .. Len(order) /\ 0 \in 0 .. Len(order) /\ i \in 0 .. Len(order)
    <3>1. Len(read_buf) + len \in 0 .. EraseSize
      BY <1>1, Geometry
    <3>2. PICK j \in Nat, l \in Nat : j = i /\ l = Len(order) /\ j < l
      BY <1>1
    <3> QED BY <3>1, <3>2
  <2>2. next \in [0 .. Len(order) -> 0 .. EraseSize]
    BY <2>1, <1>4
  <2>3. \A n \in 0 .. i : next[n] = pos[n]
    BY <2>1, <1>4
  <2>4. next[i + 1] = Len(read_buf) + len
    BY <2>1, <1>4
  <2>5. pos[i] \in 0 .. EraseSize
    BY <2>1
  <2> QED BY <1>1, <1>3, <2>2, <2>3, <2>4, <2>5
<1>6. ASSUME NEW n \in 0 .. i
      PROVE  next[n + 1] = next[n] + Entry(n).length
  <2>1. CASE n = i
    BY <1>1, <1>5, <2>1
  <2>2. CASE n # i
    <3>1. n \in 0 .. i - 1 /\ n + 1 \in 0 .. i
      BY <1>1, <2>2
    <3> QED BY <1>3, <1>5, <3>1
  <2> QED BY <2>1, <2>2
<1>7. ASSUME NEW m \in 0 .. i + 1, NEW n \in 0 .. i + 1, m <= n
      PROVE  next[m] <= next[n]
  <2>1. CASE n \in 0 .. i
    <3>1. m \in 0 .. i
      BY <1>1, <1>7, <2>1
    <3> QED BY <1>3, <1>5, <1>7, <2>1, <3>1
  <2>2. CASE n = i + 1 /\ m \in 0 .. i
    <3>1. i \in 0 .. i /\ m <= i
      BY <1>1, <2>2
    <3>2. pos[m] <= pos[i] /\ pos[m] \in Int
      <4>1. m \in 0 .. Len(order)
        BY <1>1, <2>2
      <4>2. pos[m] \in 0 .. EraseSize
        BY <4>1
      <4> QED BY <1>3, <2>2, <3>1, <4>2
    <3> QED BY <1>1, <1>5, <2>2, <3>2
  <2>3. CASE m = i + 1 /\ n = i + 1
    <3>1. next[i + 1] \in Int
      BY <1>1, <1>5
    <3> QED BY <2>3, <3>1
  <2> QED BY <1>1, <1>7, <2>1, <2>2, <2>3
<1>8. ASSUME NEW n \in 0 .. i, order[n + 1] \in S, NEW m \in 1 .. Entry(n).length
      PROVE  read_buf'[next[n] - next[0] + m] = acked[order[n + 1]][m]
  <2>1. next[n] = pos[n] /\ next[0] = 0 /\ pos[n] \in Nat /\ pos[0] = 0
    <3>1. n \in 0 .. Len(order) /\ 0 \in 0 .. i
      BY <1>1
    <3>2. pos[n] \in 0 .. EraseSize
      BY <3>1
    <3> QED BY <1>3, <1>5, <3>1, <3>2
  <2>2. CASE n = i
    <3>1. m \in Int /\ next[n] = Len(read_buf) /\ next[0] = 0
      BY <1>1, <1>5, <2>1, <2>2
    <3>2. next[n] - next[0] + m = Len(read_buf) + m
      BY <1>1, <3>1
    <3> QED BY <1>2, <1>8, <2>2, <3>2
  <2>3. CASE n # i
    <3>1. n \in 0 .. i - 1 /\ n + 1 \in 0 .. i /\ i \in 0 .. i /\ n \in 0 .. Len(order) - 1
      BY <1>1, <2>3
    <3>2. /\ pos[n + 1] = pos[n] + Entry(n).length /\ pos[n + 1] <= pos[i]
          /\ Entry(n).length \in Nat
      <4>1. Entry(n).length \in Nat
        BY <3>1 DEF Lengthy
      <4>2. n + 1 <= i
        BY <1>1, <3>1
      <4> QED BY <1>3, <3>1, <4>1, <4>2
    <3>3. pos[n] - pos[0] + m \in 1 .. Len(read_buf) /\ next[n] - next[0] + m = pos[n] - pos[0] + m
      BY <1>1, <1>5, <2>1, <3>2, SMTT(30)
    <3> QED BY <1>2, <1>3, <1>8, <3>1, <3>3
  <2> QED BY <2>2, <2>3
<1>9. \A n : Entry(n)' = Entry(n)
  BY DEF Entry
<1>10. next[0] = 0 /\ next[0] = p_data /\ Len(read_buf') = next[i + 1] - next[0]
  BY <1>1, <1>2, <1>3, <1>5
<1>11. (i + 1) - 1 = i
  BY <1>1
<1>12. /\ \A n \in 0 .. i' - 1 : next[n + 1] = next[n] + Entry(n)'.length
       /\ \A m, n \in 0 .. i' : m <= n => next[m] <= next[n]
       /\ \A n \in 0 .. i' - 1 : order'[n + 1] \in S => \A m \in 1 .. Entry(n)'.length :
             read_buf'[next[n] - next[0] + m] = acked'[order'[n + 1]][m]
  <2>1. i' = i + 1 /\ i' - 1 = i /\ order' = order /\ acked' = acked
    BY <1>1, <1>11
  <2>2. \A n \in 0 .. i' - 1 : next[n + 1] = next[n] + Entry(n)'.length
    BY ONLY <1>6, <1>9, <2>1
  <2>3. \A m, n \in 0 .. i' : m <= n => next[m] <= next[n]
    BY ONLY <1>7, <2>1
  <2>4. \A n \in 0 .. i' - 1 : order'[n + 1] \in S => \A m \in 1 .. Entry(n)'.length :
            read_buf'[next[n] - next[0] + m] = acked'[order'[n + 1]][m]
    BY ONLY <1>8, <1>9, <2>1
  <2> QED BY ONLY <2>2, <2>3, <2>4
<1>13. next \in [0 .. Len(order') -> 0 .. EraseSize] /\ next[0] = p_data'
       /\ Len(read_buf') = next[i'] - next[0]
  BY <1>1, <1>5, <1>10
<1> QED BY <1>10, <1>12, <1>13 DEF Packed

LEMMA FlushReadStore ==
    ASSUME Sized, IInv, IInv', StoreInv, FlushRead
    PROVE  StoreInv'
<1>1. /\ Reading /\ i < Len(order) /\ i \in Nat /\ Len(order) \in Nat /\ i' = i + 1
      /\ UNCHANGED <<flash, p_data, p_info, table, req, order, count, head, acked>> /\ Ask
      /\ read_buf \in Seq(Cell) /\ Len(read_buf) \in Nat
  BY DEF FlushRead, area, hist, StoreInv, IInv, FlowOK, TypeOK
<1>2. Walk /\ TopClear /\ Packed(0, Id) /\ MaxVar * Len(read_buf) <= i * EraseSize
      /\ Len(order) <= MaxVar
  BY <1>1 DEF Reading, Walk
<1> DEFINE b == Entry(i)
<1>3. PICK id \in Known, len \in Nat \ {0} :
          /\ id = order[i + 1] /\ len = b.length /\ b = table[id]
          /\ Sound(b) /\ b.crc = acked[id] /\ MaxVar * len <= EraseSize
  <2>1. i \in 0 .. Len(order) - 1
    BY <1>1
  <2> QED BY <1>2, <2>1, EntryIs
<1> HIDE DEF b
<1>4. b.data_addr \in Nat /\ b.data_addr + len <= AreaSize /\ Holds(flash, b)
  BY <1>1, <1>3, SoundIs DEF Reading, Sound
<1>5. PICK cells \in Seq(Cell) :
          /\ cells = ReadCells(flash, b.data_addr, len) /\ Len(cells) = len
          /\ \A m \in 1 .. len : cells[m] = acked[id][m]
  <2>1. DOMAIN flash = Addr
    BY Typed
  <2>2. ASSUME NEW m \in 1 .. len
        PROVE  ReadCells(flash, b.data_addr, len)[m] = acked[id][m]
    <3>1. b.data_addr + m - 1 \in Addr
      BY <1>4, Geometry DEF Addr
    <3>2. flash[b.data_addr + m - 1] = acked[id][m]
      BY <1>3, <1>4 DEF Holds
    <3> QED BY <2>1, <3>1, <3>2 DEF ReadCells
  <2> QED BY <2>2, ReadType, Typed
<1>6. /\ read_buf' = read_buf \o cells /\ tail' = b.data_addr + len
      /\ pc' = IF Len(read_buf') >= EraseSize \/ i' = Len(order) THEN "fl_erase" ELSE "fl_read"
  BY <1>3, <1>5 DEF FlushRead, validNum, b
<1>7. /\ Len(read_buf') = Len(read_buf) + len
      /\ \A m \in 1 .. Len(read_buf) : read_buf'[m] = read_buf[m]
      /\ \A m \in 1 .. len : read_buf'[Len(read_buf) + m] = acked[id][m]
  BY <1>1, <1>5, <1>6
<1>8. /\ MaxVar * Len(read_buf') <= (i + 1) * EraseSize
      /\ Len(read_buf) + len <= EraseSize
      /\ Len(read_buf') >= EraseSize => i + 1 = MaxVar
  <2>1. PICK v \in Nat \ {0}, k \in Nat, x \in Nat, l \in Nat, E \in Nat \ {0} :
            v = MaxVar /\ k = i /\ x = Len(read_buf) /\ l = len /\ E = EraseSize /\ k + 1 <= v
    <3>1. MaxVar \in Nat \ {0} /\ i + 1 <= MaxVar /\ EraseSize \in Nat \ {0}
      BY <1>1, <1>2, E2PAssumption
    <3> QED BY <1>1, <1>3, <3>1
  <2>2. v * x <= k * E /\ v * l <= E
    BY <1>2, <1>3, <2>1
  <2>3. v * (x + l) <= (k + 1) * E /\ x + l <= E /\ (x + l >= E => k + 1 = v)
    BY ONLY <2>1, <2>2, ReadFits
  <2>4. Len(read_buf') = x + l
    BY <1>7, <2>1
  <2> QED BY <2>1, <2>3, <2>4
<1>12. Packed(0, Id)'
  <2>1. Len(read_buf) + len <= EraseSize /\ p_data = 0 /\ Lengthy
    BY <1>1, <1>2, <1>8, WalkLengthy DEF Reading
  <2>2. /\ len = Entry(i).length
        /\ order[i + 1] \in Id => \A m \in 1 .. len : cells[m] = acked[order[i + 1]][m]
    BY <1>3, <1>5 DEF b
  <2> QED BY <1>1, <1>2, <1>5, <1>6, <2>1, <2>2, PackedGrows
<1>13. Walk' /\ TopClear' /\ Ask' /\ Known' = Known
  BY <1>1, <1>2, <1>6, WalkSame DEF TopClear, Ask
<1>14. CASE pc' = "fl_read"
  <2>1. Reading'
    BY <1>1, <1>8, <1>12, <1>13 DEF Reading
  <2> QED BY <1>13, <1>14, <2>1 DEF StoreInv
<1>15. CASE pc' = "fl_erase"
  <2>1. i' = Len(order')
    BY <1>1, <1>2, <1>6, <1>8, <1>15, E2PAssumption
  <2>2. head' = 0 /\ 0 % EraseSize = 0 /\ head' + EraseSize <= AreaSize
    <3>1. 0 = 0 * EraseSize /\ EraseSize <= AreaSize
      <4>1. AreaSize = SectorCnt * EraseSize /\ 1 <= SectorCnt
        BY E2PAssumption DEF AreaSize
      <4>2. 1 * EraseSize <= SectorCnt * EraseSize
        BY <4>1, Fewer, E2PAssumption
      <4> QED BY <4>1, <4>2, Geometry
    <3> QED BY <1>1, <3>1, MultipleIs, Geometry DEF Reading
  <2>3. Clear(flash', 0, head')
    BY <2>2 DEF Clear
  <2>4. tail' <= AreaSize
    BY <1>4, <1>6
  <2>5. Erasing'
    BY <1>1, <1>12, <1>13, <2>1, <2>2, <2>3, <2>4 DEF Erasing, Reading
  <2> QED BY <1>13, <1>15, <2>5 DEF StoreInv
<1> QED BY <1>6, <1>14, <1>15

LEMMA PackedSame ==
    ASSUME UNCHANGED <<order, i, read_buf, p_data, table, acked>>, NEW c, NEW S, Packed(c, S)
    PROVE  Packed(c, S)'
<1>1. \A n : Entry(n)' = Entry(n)
  BY DEF Entry
<1> QED BY <1>1 DEF Packed

\* What is erased stays erased if no more is programmed.
LEMMA ClearKeeps ==
    ASSUME NEW f, NEW g, NEW lo \in Nat, NEW hi \in Int, hi <= AreaSize, Clear(f, lo, hi),
           \A a \in Addr : lo <= a /\ a < hi /\ f[a] = Erased => g[a] = Erased
    PROVE  Clear(g, lo, hi)
<1>1. ASSUME NEW a \in lo .. hi - 1
      PROVE  g[a] = Erased
  <2>1. a \in Addr /\ lo <= a /\ a < hi
    BY Geometry DEF Addr
  <2> QED BY <2>1 DEF Clear
<1> QED BY <1>1 DEF Clear

LEMMA TopClearKeeps ==
    ASSUME Sized, IInv, TopClear, p_info' \in Int, p_info' <= p_info,
           \A a \in Addr :
               /\ (AreaSize - EraseSize <= a /\ a < p_info' + BLK) \/ FirstInfo + BLK <= a
               /\ flash[a] = Erased
               => flash'[a] = Erased
    PROVE  TopClear'
<1>1. EraseSize <= AreaSize - EraseSize
  <2>1. 0 \in 0 .. MaxVar
    BY E2PAssumption
  <2> QED BY <2>1, SlotHigh
<1>2. PICK lo \in Nat, hi \in Int, mid \in Nat, top \in Int :
          lo = AreaSize - EraseSize /\ hi = p_info' + BLK /\ mid = FirstInfo + BLK /\ top = AreaSize
  <2>1. /\ AreaSize - EraseSize \in Nat /\ p_info' + BLK \in Int
        /\ FirstInfo + BLK \in Nat /\ AreaSize \in Int
    BY <1>1, Geometry
  <2> QED BY <2>1
<1>3. PICK old \in Int : old = p_info + BLK /\ hi <= old /\ hi <= AreaSize
  <2>1. p_info + BLK \in Int /\ p_info + BLK <= AreaSize /\ AreaSize \in Int
    BY Numbers, Geometry
  <2>2. p_info' + BLK <= p_info + BLK
    BY Numbers, Geometry
  <2>3. hi <= p_info + BLK /\ hi <= AreaSize
    BY <1>2, <2>1, <2>2
  <2> QED BY <2>1, <2>3
<1>4. Clear(flash, lo, hi)
  <2>1. Clear(flash, lo, old)
    BY <1>2, <1>3 DEF TopClear
  <2> QED BY <1>3, <2>1 DEF Clear
<1>5. Clear(flash, mid, top)
  BY <1>2 DEF TopClear
<1>6. Clear(flash', lo, hi)
  <2>1. \A a \in Addr : lo <= a /\ a < hi /\ flash[a] = Erased => flash'[a] = Erased
    BY <1>2
  <2> QED BY ONLY <1>2, <1>3, <1>4, <2>1, ClearKeeps
<1>7. Clear(flash', mid, top)
  <2>1. \A a \in Addr : mid <= a /\ a < top /\ flash[a] = Erased => flash'[a] = Erased
    BY <1>2
  <2>2. top <= AreaSize
    BY <1>2
  <2> QED BY ONLY <1>2, <1>5, <2>1, <2>2, ClearKeeps
<1> QED BY <1>2, <1>6, <1>7 DEF TopClear

LEMMA FlushEraseStore ==
    ASSUME Sized, IInv, IInv', StoreInv, FlushErase
    PROVE  StoreInv'
<1>1. /\ Erasing /\ Ask /\ flash' = EraseRange(flash, head, EraseSize) /\ head' = head + EraseSize
      /\ UNCHANGED <<p_data, p_info, table, req, order, i, count, read_buf, acked>>
      /\ head \in Nat /\ tail \in Nat
      /\ \/ head' + EraseSize <= tail /\ pc' = "fl_erase" /\ tail' = tail
         \/ pc' = "fl_back" /\ tail' = head'
  BY DEF FlushErase, EraseHead, area, hist, StoreInv, IInv, TypeOK
<1>2. \A a \in Addr : flash'[a] = IF head <= a /\ a < head + EraseSize THEN Erased ELSE flash[a]
  BY <1>1, EraseIs, Typed, Geometry
<1>3. head' % EraseSize = 0
  <2>1. EraseSize % EraseSize = 0
    <3>1. EraseSize = 1 * EraseSize
      BY Geometry
    <3> QED BY <3>1, MultipleIs, Geometry
  <2> QED BY <1>1, <2>1, MultiplesAdd, Geometry DEF Erasing
<1>4. ASSUME NEW a \in Addr, flash[a] = Erased
      PROVE  flash'[a] = Erased
  BY <1>2, <1>4
<1>5. Clear(flash', 0, head')
  <2>1. ASSUME NEW a \in 0 .. head' - 1
        PROVE  flash'[a] = Erased
    <3>1. a \in Addr /\ a < head + EraseSize
      BY <1>1, Geometry DEF Addr, Erasing
    <3>2. CASE head <= a
      BY <1>2, <3>1, <3>2
    <3>3. CASE ~(head <= a)
      <4>1. a \in 0 .. head - 1
        BY <1>1, <3>3
      <4> QED BY <1>1, <1>4, <3>1, <4>1 DEF Erasing, Clear
    <3> QED BY <3>2, <3>3
  <2> QED BY <2>1 DEF Clear
<1>6. TopClear'
  <2>1. p_info' \in Int /\ p_info' <= p_info
    BY <1>1, Typed
  <2> QED BY <1>1, <1>4, <2>1, TopClearKeeps DEF Erasing
<1>7. Walk' /\ Packed(0, Id)'
  BY <1>1, WalkSame, PackedSame DEF Erasing
<1>8. Ask'
  BY <1>1 DEF Ask
<1>9. CASE head' + EraseSize <= tail /\ pc' = "fl_erase" /\ tail' = tail
  <2>1. head' + EraseSize <= AreaSize /\ tail' <= AreaSize
    BY <1>1, <1>9, Geometry DEF Erasing
  <2>2. Erasing'
    BY <1>1, <1>3, <1>5, <1>6, <1>7, <2>1 DEF Erasing
  <2> QED BY <1>8, <1>9, <2>2 DEF StoreInv
<1>10. CASE pc' = "fl_back" /\ tail' = head'
  <2>1. Chain(flash', 0) /\ End(flash', 0) = 0 /\ Slot(0) = FirstInfo
    BY EmptyArea, TypedNext
  <2>2. Rewritten(0)'
    BY <1>1, <2>1 DEF Rewritten, Erasing
  <2>3. i \in Nat
    BY DEF IInv, TypeOK
  <2>4. Between'
    BY <1>1, <1>6, <1>7, <2>1, <2>2, <2>3 DEF Between, Erasing
  <2>5. EraseSize <= tail' /\ tail' \in Nat /\ p_data' = 0
    BY <1>1, <1>10, Geometry DEF Erasing
  <2>6. \A a \in p_data' .. p_info' - 1 : a < tail' => flash'[a] = Erased
    <3>1. PICK h \in Int, top \in Int : h = head' /\ top = p_info'
      BY <1>1, TypedNext, Geometry
    <3>2. Clear(flash', 0, h)
      BY <1>5, <3>1
    <3>3. ASSUME NEW a \in 0 .. top - 1, a < h
          PROVE  flash'[a] = Erased
      <4>1. a \in 0 .. h - 1
        BY ONLY <3>3, h \in Int, top \in Int, a \in 0 .. top - 1
      <4> QED BY <3>2, <4>1 DEF Clear
    <3> QED BY <1>10, <2>5, <3>1, <3>3
  <2>7. BelowTail'
    BY <1>3, <1>10, <2>5, <2>6 DEF BelowTail
  <2> QED BY <1>8, <1>10, <2>4, <2>7 DEF StoreInv
<1> QED BY <1>1, <1>9, <1>10

LEMMA FlushSuspendStore ==
    ASSUME Sized, IInv, IInv', StoreInv, FlushSuspend
    PROVE  StoreInv'
<1>1. /\ Between /\ BelowTail /\ Ask /\ i = Len(order) /\ pc' = "fl_tail"
      /\ UNCHANGED <<flash, p_data, p_info, table, req, order, i, count, tail, read_buf, acked>>
  BY DEF FlushSuspend, area, hist, StoreInv, Between, validNum
<1>2. Walk' /\ Packed(count, Id)' /\ Rewritten(count)'
  <2>1. PICK c : c = count
    OBVIOUS
  <2>2. Packed(c, Id)'
    BY <1>1, <2>1, PackedSame DEF Between
  <2>3. count' = c
    BY <1>1, <2>1
  <2>4. Packed(count, Id)'
    BY ONLY <2>2, <2>3 DEF Packed
  <2>5. Rewritten(count)'
    BY <1>1 DEF Between, Rewritten
  <2> QED BY <1>1, <2>4, <2>5, WalkSame DEF Between
<1>3. Between'
  BY <1>1, <1>2 DEF Between, TopClear
<1>4. BelowTail' /\ Ask'
  BY <1>1 DEF BelowTail, Ask
<1> QED BY <1>1, <1>3, <1>4 DEF StoreInv
-----------------------------------------------------------------------------
(* The write-back loops *)

\* Where the entries go, and that the next one is first in the buffer.
LEMMA PackedFirst ==
    ASSUME IInv, Lengthy, i = Len(order), NEW c \in Nat, c < i, NEW S, Packed(c, S)
    PROVE  /\ p_data + Entry(c).length <= EraseSize
           /\ Entry(c).length <= Len(read_buf) /\ Len(read_buf) \in Nat
           /\ order[c + 1] \in S => \A m \in 1 .. Entry(c).length : read_buf[m] = acked[order[c + 1]][m]
<1>1. i \in Nat /\ Len(order) \in Nat /\ c \in 0 .. i - 1 /\ c \in 0 .. i /\ c + 1 \in 0 .. i
      /\ i \in 0 .. i /\ c \in 0 .. Len(order) - 1 /\ c \in c .. i - 1
  BY DEF IInv, TypeOK
<1>2. PICK pos \in [0 .. Len(order) -> 0 .. EraseSize] :
        /\ pos[0] = 0
        /\ \A n \in 0 .. i - 1 : pos[n + 1] = pos[n] + Entry(n).length
        /\ \A m, n \in 0 .. i : m <= n => pos[m] <= pos[n]
        /\ pos[c] = p_data
        /\ Len(read_buf) = pos[i] - pos[c]
        /\ \A n \in c .. i - 1 : order[n + 1] \in S => \A m \in 1 .. Entry(n).length :
              read_buf[pos[n] - pos[c] + m] = acked[order[n + 1]][m]
  BY DEF Packed
<1>3. PICK len \in Nat : len = Entry(c).length
  BY <1>1 DEF Lengthy
<1>4. pos[c] \in 0 .. EraseSize /\ pos[c + 1] \in 0 .. EraseSize /\ pos[i] \in 0 .. EraseSize
  BY <1>1
<1>5. pos[c + 1] = pos[c] + len /\ pos[c + 1] <= pos[i]
  BY <1>1, <1>2, <1>3
<1>6. p_data + len <= EraseSize /\ len <= Len(read_buf) /\ Len(read_buf) \in Nat
  BY <1>2, <1>4, <1>5, Geometry
<1>7. ASSUME order[c + 1] \in S, NEW m \in 1 .. len
      PROVE  read_buf[m] = acked[order[c + 1]][m]
  <2>1. read_buf[pos[c] - pos[c] + m] = acked[order[c + 1]][m]
    BY <1>1, <1>2, <1>3, <1>7
  <2>2. pos[c] - pos[c] + m = m
    BY <1>4
  <2> QED BY <2>1, <2>2
<1> QED BY <1>3, <1>6, <1>7

\* The buffer is empty when everything has been taken out of it.
LEMMA PackedEmpty ==
    ASSUME IInv, Lengthy, i = Len(order), NEW c \in Nat, c <= i, NEW S, Packed(c, S)
    PROVE  read_buf = << >> <=> c = i
<1>1. CASE c < i
  <2>1. c \in 0 .. Len(order) - 1
    BY <1>1 DEF IInv, TypeOK
  <2>2. PICK len \in Nat \ {0}, all \in Nat : len = Entry(c).length /\ all = Len(read_buf) /\ len <= all
    BY <1>1, <2>1, PackedFirst DEF Lengthy
  <2>3. Len(read_buf) # 0
    BY <2>2
  <2>4. read_buf # << >>
    BY <2>3
  <2> QED BY <1>1, <2>4
<1>2. CASE c = i
  <2>1. Len(read_buf) = 0
    <3>1. PICK pos \in [0 .. Len(order) -> 0 .. EraseSize] : Len(read_buf) = pos[i] - pos[c]
      BY DEF Packed
    <3>2. pos[i] \in 0 .. EraseSize
      BY DEF IInv, TypeOK
    <3> QED BY <1>2, <3>1, <3>2, Geometry
  <2>2. read_buf \in Seq(Cell)
    BY DEF IInv, TypeOK
  <2> QED BY <1>2, <2>1, <2>2, EmptySeq
<1> QED BY <1>1, <1>2 DEF IInv, TypeOK

\* Without it the buffer has the entries behind it.
LEMMA PackedNext ==
    ASSUME IInv, Lengthy, i = Len(order), NEW c \in Nat, c < i, NEW S, Packed(c, S),
           UNCHANGED <<order, i, table, acked>>, p_data' = p_data + Entry(c).length,
           read_buf' = SubSeq(read_buf, Entry(c).length + 1, Len(read_buf))
    PROVE  Packed(c + 1, S)'
<1>1. i \in Nat /\ Len(order) \in Nat /\ c \in 0 .. i - 1 /\ c \in 0 .. i /\ c + 1 \in 0 .. i
      /\ i \in 0 .. i /\ c \in 0 .. Len(order) - 1 /\ read_buf \in Seq(Cell)
  BY DEF IInv, TypeOK
<1>2. PICK pos \in [0 .. Len(order) -> 0 .. EraseSize] :
        /\ pos[0] = 0
        /\ \A n \in 0 .. i - 1 : pos[n + 1] = pos[n] + Entry(n).length
        /\ \A m, n \in 0 .. i : m <= n => pos[m] <= pos[n]
        /\ pos[c] = p_data
        /\ Len(read_buf) = pos[i] - pos[c]
        /\ \A n \in c .. i - 1 : order[n + 1] \in S => \A m \in 1 .. Entry(n).length :
              read_buf[pos[n] - pos[c] + m] = acked[order[n + 1]][m]
  BY DEF Packed
<1>3. PICK len \in Nat : len = Entry(c).length
  BY <1>1 DEF Lengthy
<1>4. pos[c] \in 0 .. EraseSize /\ pos[c + 1] \in 0 .. EraseSize /\ pos[i] \in 0 .. EraseSize
  BY <1>1
<1>5. pos[c + 1] = pos[c] + len /\ pos[c + 1] <= pos[i]
  BY <1>1, <1>2, <1>3
<1>6. PICK rest \in Seq(Cell), all \in Nat :
          /\ rest = read_buf' /\ all = Len(read_buf) /\ Len(rest) = all - len /\ len <= all
          /\ \A k \in 1 .. all - len : rest[k] = read_buf[k + len]
  <2>1. PICK all \in Nat : all = Len(read_buf) /\ len <= all
    BY <1>2, <1>4, <1>5
  <2>2. PICK rest : rest = SubSeq(read_buf, len + 1, all)
    OBVIOUS
  <2>3. len + 1 \in 1 .. Len(read_buf) + 1 /\ all \in (len + 1) - 1 .. Len(read_buf)
    BY <2>1
  <2>4. /\ rest \in Seq(Cell) /\ Len(rest) = all - (len + 1) + 1
        /\ \A k \in 1 .. all - (len + 1) + 1 : rest[k] = read_buf[len + 1 + k - 1]
    BY <1>1, <2>2, <2>3, SubSeqProperties
  <2>5. \A k \in 1 .. all - len : rest[k] = read_buf[k + len]
    <3>1. ASSUME NEW k \in 1 .. all - len
          PROVE  rest[k] = read_buf[k + len]
      <4>1. k \in 1 .. all - (len + 1) + 1 /\ len + 1 + k - 1 = k + len
        BY <2>1
      <4> QED BY <2>4, <4>1
    <3> QED BY <3>1
  <2>6. Len(rest) = all - len
    BY <2>1, <2>4
  <2>7. rest = read_buf'
    BY <1>3, <2>1, <2>2
  <2> QED BY <2>1, <2>4, <2>5, <2>6, <2>7
<1>7. pos[c + 1] = p_data' /\ Len(read_buf') = pos[i] - pos[c + 1]
  <2>1. Len(rest) = pos[i] - pos[c + 1] /\ pos[c + 1] = p_data + len
    BY <1>2, <1>4, <1>5, <1>6, SMTT(30)
  <2> QED BY <1>3, <1>6, <2>1
<1>8. ASSUME NEW n \in c + 1 .. i - 1, order[n + 1] \in S, NEW m \in 1 .. Entry(n).length
      PROVE  rest[pos[n] - pos[c + 1] + m] = acked[order[n + 1]][m]
  <2>1. n \in c .. i - 1 /\ n \in 0 .. i - 1 /\ n \in 0 .. i /\ n + 1 \in 0 .. i /\ c + 1 <= n
        /\ n \in 0 .. Len(order) - 1
    BY <1>1
  <2>2. PICK l \in Nat : l = Entry(n).length
    BY <2>1 DEF Lengthy
  <2>3. pos[n] \in 0 .. EraseSize /\ pos[n + 1] \in 0 .. EraseSize
    BY <1>1, <2>1
  <2>4. pos[n + 1] = pos[n] + Entry(n).length /\ pos[n + 1] <= pos[i] /\ pos[c + 1] <= pos[n]
    <3>1. n + 1 <= i
      BY <2>1
    <3> QED BY <1>1, <1>2, <2>1, <3>1
  <2>5. PICK here \in Int, next \in Int, first \in Int, second \in Int, end \in Int :
            /\ here = pos[n] /\ next = pos[n + 1] /\ first = pos[c] /\ second = pos[c + 1]
            /\ end = pos[i]
    <3>1. /\ pos[n] \in Int /\ pos[n + 1] \in Int /\ pos[c] \in Int /\ pos[c + 1] \in Int
          /\ pos[i] \in Int
      BY <1>4, <2>3
    <3> QED BY <3>1
  <2>6. /\ next = here + l /\ next <= end /\ second <= here /\ second = first + len
        /\ all = end - first
    BY <1>2, <1>5, <1>6, <2>2, <2>4, <2>5
  <2>7. PICK k \in Int : k = here - second + m /\ k \in 1 .. all - len /\ k + len = here - first + m
    <3>1. m \in Int /\ 1 <= m /\ m <= l
      BY <2>2
    <3> QED BY <2>6, <3>1
  <2>8. read_buf[here - first + m] = acked[order[n + 1]][m]
    BY <1>2, <1>8, <2>1, <2>5
  <2>9. rest[k] = read_buf[k + len]
    BY <1>6, <2>7
  <2> QED BY <2>5, <2>7, <2>8, <2>9
<1>9. \A n : Entry(n)' = Entry(n)
  BY DEF Entry
<1>10. \A n \in c + 1 .. i' - 1 : order'[n + 1] \in S => \A m \in 1 .. Entry(n)'.length :
          read_buf'[pos[n] - pos[c + 1] + m] = acked'[order'[n + 1]][m]
  BY <1>6, <1>8, <1>9
<1>11. /\ pos \in [0 .. Len(order') -> 0 .. EraseSize] /\ pos[0] = 0
       /\ \A n \in 0 .. i' - 1 : pos[n + 1] = pos[n] + Entry(n)'.length
       /\ \A m, n \in 0 .. i' : m <= n => pos[m] <= pos[n]
       /\ pos[c + 1] = p_data' /\ Len(read_buf') = pos[i'] - pos[c + 1]
  BY <1>2, <1>7, <1>9
<1> QED BY <1>10, <1>11 DEF Packed

\* Entry count is taken out of the buffer; what is to have it is erased.
LEMMA TakeEntryStore ==
    ASSUME Sized, IInv, IInv', Between, count < i, TakeEntry, UNCHANGED <<table, acked>>,
           Clear(flash, p_data, p_data + Entry(count).length)
    PROVE  /\ Within' /\ PrivateFits(Entry(count).length)
           /\ p_data + Entry(count).length <= EraseSize
           /\ p_data' = p_data + Entry(count).length /\ p_info' = p_info
           /\ UNCHANGED <<order, i, tail, count>>
           /\ \A a \in Addr : ~(p_data <= a /\ a < p_data') => flash'[a] = flash[a]
           /\ \A a \in Addr : flash'[a] = Mixed => flash[a] = Mixed
<1>1. PICK c \in Nat : c = count
  BY DEF IInv, TypeOK
<1>2. /\ Walk /\ TopClear /\ i = Len(order) /\ c < i /\ i \in Nat /\ Len(order) <= MaxVar
      /\ Rewritten(c) /\ p_data = End(flash, c) /\ Packed(c, Id)
  <2>1. /\ Walk /\ TopClear /\ i = Len(order) /\ c < i
        /\ Rewritten(c) /\ p_data = End(flash, c) /\ Packed(c, Id)
    BY <1>1, Zenon DEF Between
  <2>2. Len(order) <= MaxVar
    BY <2>1 DEF Walk
  <2>3. i \in Nat
    BY DEF IInv, TypeOK
  <2> QED BY <2>1, <2>2, <2>3
<1>3. c \in 0 .. Len(order) - 1 /\ c + 1 \in 0 .. MaxVar /\ c \in 0 .. MaxVar
  BY <1>2, E2PAssumption
<1>4. PICK len \in Lengths, id \in Id :
          /\ len = Entry(c).length /\ id = order[c + 1] /\ len \in Nat
          /\ Entry(c).crc = acked[id] /\ Sound(Entry(c)) /\ Entry(c).block_id = id
  BY <1>2, <1>3, EntryIs
<1>5. /\ p_data + len <= EraseSize /\ len <= Len(read_buf) /\ Len(read_buf) \in Nat
      /\ \A m \in 1 .. len : read_buf[m] = acked[id][m]
  BY <1>2, <1>4, PackedFirst, WalkLengthy
<1>6. /\ Chain(flash, c) /\ p_info = Slot(c)
      /\ \A k \in 0 .. c - 1 : /\ BlkAt(flash, k).block_id = order[k + 1]
                               /\ table[order[k + 1]] = BlkAt(flash, k)
  BY <1>2 DEF Rewritten
<1>7. /\ p_data + len + BLK <= p_info /\ EraseSize <= AreaSize - EraseSize
      /\ p_data + len <= FirstInfo /\ p_data + len <= AreaSize - EraseSize
  <2>1. AreaSize - EraseSize < Slot(c + 1) /\ EraseSize <= AreaSize - EraseSize
    BY <1>3, SlotHigh
  <2>2. Slot(c + 1) = p_info - BLK
    BY <1>6, SlotFacts
  <2>3. p_info \in Int /\ p_data + len <= AreaSize - EraseSize
    BY <1>4, <1>5, <2>1, Numbers, Geometry, SMTT(30)
  <2>4. p_data + len <= p_info - BLK
    BY <1>4, <2>1, <2>2, <2>3, Numbers, Geometry, SMTT(30)
  <2>5. p_data + len <= FirstInfo
    BY <1>4, <2>4, Numbers, Geometry, SMTT(30)
  <2> QED BY <1>4, <2>1, <2>3, <2>4, <2>5, Numbers, Geometry, SMTT(30)
<1>8. PrivateFits(len)
  <2>1. remain_size = p_info - p_data /\ p_info \in Int /\ p_data \in Int
    BY Typed
  <2>2. p_info - p_data >= len + BLK
    BY <1>4, <1>7, <2>1, Geometry
  <2> QED BY <2>1, <2>2 DEF PrivateFits
<1>9. /\ PrivateData(order[count + 1], BufCells(len)) /\ count' = count
      /\ read_buf' = SubSeq(read_buf, len + 1, Len(read_buf))
      /\ UNCHANGED <<order, i, head, tail>>
  BY <1>1, <1>4, <1>8 DEF TakeEntry
<1>10. acked[id] \in Seq(Cell) /\ Len(acked[id]) = len /\ \A m \in 1 .. len : Plain(acked[id][m])
  <2>1. acked[id] \in Seq(Byte) /\ Byte \subseteq Cell
    BY Typed DEF Cell
  <2>2. acked[id] \in Seq(Cell)
    BY <2>1, SeqMonotonic
  <2> QED BY <1>4, <2>2 DEF Sound
<1>11. BufCells(len) = acked[id]
  <2>1. \A k \in 1 .. len : k <= Len(read_buf)
    BY <1>4, <1>5
  <2>2. BufCells(len) = [k \in 1 .. len |-> acked[id][k]]
    BY <1>5, <2>1 DEF BufCells
  <2>3. acked[id] = [k \in 1 .. Len(acked[id]) |-> acked[id][k]]
    BY <1>10
  <2> QED BY <1>10, <2>2, <2>3
<1>12. PrivateData(id, acked[id])
  BY <1>1, <1>4, <1>9, <1>11
<1>13. /\ Chain(flash', c) /\ Half(c)'
       /\ \A k \in 0 .. c - 1 : BlkAt(flash', k) = BlkAt(flash, k)
       /\ \A a \in Addr : ~(p_data <= a /\ a < p_data + len) => flash'[a] = flash[a]
       /\ \A a \in Addr : flash'[a] = Mixed => flash[a] = Mixed
       /\ block'.block_id = id /\ block'.crc = acked[id]
       /\ p_data' = p_data + len /\ p_info' = p_info
  <2>1. Clear(flash, p_data, p_data + len)
    BY <1>1, <1>4
  <2> QED BY <1>2, <1>4, <1>6, <1>7, <1>10, <1>12, <2>1, DataWritten
<1>14. Walk' /\ Packed(c + 1, Id)'
  <2>1. /\ UNCHANGED <<order, i, table, acked>> /\ p_data' = p_data + Entry(c).length
        /\ read_buf' = SubSeq(read_buf, Entry(c).length + 1, Len(read_buf))
    BY <1>4, <1>9, <1>13
  <2>2. Packed(c + 1, Id)'
    BY <1>2, <2>1, PackedNext, WalkLengthy
  <2> QED BY <1>2, <2>1, <2>2, WalkSame
<1>15. TopClear'
  <2>1. \A a \in Addr :
            /\ (AreaSize - EraseSize <= a /\ a < p_info' + BLK) \/ FirstInfo + BLK <= a
            /\ flash[a] = Erased
            => flash'[a] = Erased
    <3>1. ASSUME NEW a \in Addr, AreaSize - EraseSize <= a \/ FirstInfo + BLK <= a
          PROVE  ~(a < p_data + len)
      <4>1. PICK e \in Int, w \in Int : e = p_data + len /\ w = AreaSize - EraseSize
        BY <1>4, Numbers, Geometry
      <4>2. e <= w /\ e <= FirstInfo
        <5>1. p_data + len <= FirstInfo /\ p_data + len <= AreaSize - EraseSize
          BY <1>7
        <5> QED BY <4>1, <5>1
      <4>3. a \in Int /\ (w <= a \/ FirstInfo + BLK <= a)
        BY <3>1, <4>1, Geometry DEF Addr
      <4>4. ~(a < e)
        BY <4>2, <4>3, Geometry
      <4> QED BY <4>1, <4>4
    <3> QED BY <1>13, <3>1
  <2>2. p_info' \in Int /\ p_info' <= p_info
    BY <1>13, Typed
  <2> QED BY <1>2, <2>1, <2>2, TopClearKeeps
<1>16. Rewritten(c)'
  <2>1. UNCHANGED <<order, table>>
    BY <1>9
  <2> QED BY <1>6, <1>13, <2>1 DEF Rewritten
<1>17. Within'
  <2>1. count' = c /\ i' = i /\ order' = order /\ acked' = acked
    BY <1>1, <1>9
  <2>2. Packed(count + 1, Id)'
    <3>1. Packed(c + 1, Id)'
      BY <1>14
    <3>2. count' = c
      BY <2>1
    <3> QED BY ONLY <3>1, <3>2 DEF Packed
  <2>3. Rewritten(count)' /\ Half(count)'
    BY <1>13, <1>16, <2>1 DEF Rewritten, Half
  <2> QED BY <1>2, <1>4, <1>13, <1>14, <1>15, <2>1, <2>2, <2>3 DEF Within
<1>18. Entry(count).length = len
  BY <1>1, <1>4
<1> QED BY <1>1, <1>5, <1>8, <1>9, <1>13, <1>17, <1>18

\* There is room for it, far below the info blocks.
LEMMA EntryFits ==
    ASSUME Sized, IInv, Between, count < i
    PROVE  /\ Entry(count).length \in Nat
           /\ p_data + Entry(count).length <= EraseSize
           /\ p_data + Entry(count).length <= p_info
<1>1. PICK c \in Nat : c = count
  BY DEF IInv, TypeOK
<1>2. /\ Walk /\ i = Len(order) /\ c < i /\ i \in Nat /\ Len(order) <= MaxVar /\ Packed(c, Id)
      /\ p_info = Slot(c)
  <2>1. Walk /\ i = Len(order) /\ c < i /\ Rewritten(c) /\ Packed(c, Id)
    BY <1>1, Zenon DEF Between
  <2>2. Len(order) <= MaxVar
    BY <2>1 DEF Walk
  <2>3. p_info = Slot(c)
    BY <2>1 DEF Rewritten
  <2>4. i \in Nat
    BY DEF IInv, TypeOK
  <2> QED BY <2>1, <2>2, <2>3, <2>4
<1>3. c \in 0 .. Len(order) - 1 /\ c \in 0 .. MaxVar
  BY <1>2, E2PAssumption
<1>4. PICK len \in Nat : len = Entry(c).length
  BY <1>2, <1>3, EntryIs
<1>5. p_data + len <= EraseSize
  BY <1>2, <1>4, PackedFirst, WalkLengthy
<1>6. AreaSize - EraseSize < p_info /\ EraseSize <= AreaSize - EraseSize
  BY <1>2, <1>3, SlotHigh
<1>7. p_data + len <= p_info
  BY <1>4, <1>5, <1>6, Numbers, Geometry
<1> QED BY <1>1, <1>4, <1>5, <1>7

LEMMA FlushBackDataStore ==
    ASSUME Sized, IInv, IInv', StoreInv, FlushBackData
    PROVE  StoreInv' /\ \A a \in Addr : flash'[a] = Mixed => flash[a] = Mixed
<1>1. /\ Between /\ BelowTail /\ Ask /\ count < i /\ TakeEntry
      /\ UNCHANGED <<table, acked, req>>
      /\ pc' = IF PrivateFits(Entry(count).length) THEN "wb_info" ELSE "fl_back"
  BY DEF FlushBackData, hist, StoreInv
<1>2. PICK len \in Nat : len = Entry(count).length /\ p_data + len <= EraseSize /\ p_data + len <= p_info
  BY <1>1, EntryFits
<1>3. EraseSize <= tail /\ tail \in Nat
  BY <1>1, Counters DEF BelowTail
<1>4. Clear(flash, p_data, p_data + len)
  <2>1. PICK top \in Nat : top = p_data + len /\ top <= p_info /\ top <= tail
    BY <1>2, <1>3, Numbers, Geometry
  <2>2. ASSUME NEW a \in p_data .. top - 1
        PROVE  a \in p_data .. p_info - 1 /\ a < tail
    BY <2>1, <1>3, Typed
  <2>3. Clear(flash, p_data, top)
    BY <1>1, <2>2 DEF Clear, BelowTail
  <2> QED BY <2>1, <2>3
<1>5. /\ Within' /\ PrivateFits(Entry(count).length)
      /\ p_data' = p_data + len /\ p_info' = p_info
      /\ UNCHANGED <<order, i, tail, count>>
      /\ \A a \in Addr : ~(p_data <= a /\ a < p_data') => flash'[a] = flash[a]
      /\ \A a \in Addr : flash'[a] = Mixed => flash[a] = Mixed
  BY <1>1, <1>2, <1>4, TakeEntryStore
<1>6. BelowTail'
  <2>1. PICK from \in Nat, to \in Nat : from = p_data' /\ to = p_info' /\ p_data <= from /\ to = p_info
        /\ from <= EraseSize
    <3>1. p_data + len \in Nat /\ p_info \in Nat /\ p_data <= p_data + len
      BY <1>2, Typed
    <3> QED BY <1>2, <1>5, <3>1
  <2>2. ASSUME NEW a \in from .. to - 1, a < tail
        PROVE  flash'[a] = Erased
    <3>1. a \in Addr /\ a \in p_data .. p_info - 1 /\ ~(a < from)
      BY <2>1, Numbers, Geometry DEF Addr
    <3>2. flash[a] = Erased
      BY <1>1, <2>2, <3>1 DEF BelowTail
    <3>3. flash'[a] = flash[a]
      BY <1>5, <2>1, <3>1
    <3> QED BY <3>2, <3>3
  <2>3. from <= tail
    BY <1>3, <2>1, Geometry
  <2>4. tail % EraseSize = 0
    BY <1>1 DEF BelowTail
  <2> QED BY <1>3, <1>5, <2>1, <2>2, <2>3, <2>4 DEF BelowTail
<1>7. Ask' /\ pc' = "wb_info"
  BY <1>1, <1>5 DEF Ask
<1> QED BY <1>5, <1>6, <1>7 DEF StoreInv

LEMMA FlushRestDataStore ==
    ASSUME Sized, IInv, IInv', StoreInv, FlushRestData
    PROVE  StoreInv' /\ \A a \in Addr : flash'[a] = Mixed => flash[a] = Mixed
<1>1. /\ Between /\ Clear(flash, p_data, p_info) /\ Ask /\ count < i /\ TakeEntry
      /\ UNCHANGED <<table, acked, req>>
      /\ PrivateFits(Entry(count).length) => pc' = "rw_info"
  BY DEF FlushRestData, hist, StoreInv
<1>2. PICK len \in Nat : len = Entry(count).length /\ p_data + len <= EraseSize /\ p_data + len <= p_info
  BY <1>1, EntryFits
<1>3. Clear(flash, p_data, p_data + len)
  <2>1. PICK top \in Nat : top = p_data + len /\ top <= p_info
    BY <1>2, Numbers, Geometry
  <2>2. ASSUME NEW a \in p_data .. top - 1
        PROVE  a \in p_data .. p_info - 1
    BY <2>1, Typed
  <2>3. Clear(flash, p_data, top)
    BY <1>1, <2>2 DEF Clear
  <2> QED BY <2>1, <2>3
<1>4. /\ Within' /\ PrivateFits(Entry(count).length)
      /\ p_data' = p_data + len /\ p_info' = p_info
      /\ \A a \in Addr : ~(p_data <= a /\ a < p_data') => flash'[a] = flash[a]
      /\ \A a \in Addr : flash'[a] = Mixed => flash[a] = Mixed
  BY <1>1, <1>2, <1>3, TakeEntryStore
<1>5. Clear(flash', p_data', p_info')
  <2>1. PICK from \in Nat, to \in Nat : from = p_data' /\ to = p_info' /\ p_data <= from /\ to = p_info
    <3>1. p_data + len \in Nat /\ p_info \in Nat /\ p_data <= p_data + len
      BY <1>2, Typed
    <3> QED BY <1>4, <3>1
  <2>2. /\ Clear(flash, p_data, to) /\ p_data \in Nat /\ to <= AreaSize
    BY <1>1, <2>1, Numbers, Geometry
  <2>3. \A a \in Addr : from <= a /\ a < to => flash'[a] = flash[a]
    BY <1>4, <2>1, AddrIs DEF Addr
  <2>4. to <= to /\ to \in Int
    BY <2>1
  <2>5. Clear(flash', from, to)
    BY ONLY <2>1, <2>2, <2>3, <2>4, ClearSame
  <2> QED BY <2>1, <2>5
<1>6. Ask' /\ pc' = "rw_info"
  BY <1>1, <1>4 DEF Ask
<1> QED BY <1>4, <1>5, <1>6 DEF StoreInv

\* The buffer does not change with the table while the lengths do not.
LEMMA PackedLengths ==
    ASSUME NEW c \in Nat, NEW S, Packed(c, S), UNCHANGED <<order, i, read_buf, p_data, acked>>,
           \A n \in 0 .. i - 1 : Entry(n)'.length = Entry(n).length
    PROVE  Packed(c, S)'
<1>1. PICK pos \in [0 .. Len(order) -> 0 .. EraseSize] :
        /\ pos[0] = 0
        /\ \A n \in 0 .. i - 1 : pos[n + 1] = pos[n] + Entry(n).length
        /\ \A m, n \in 0 .. i : m <= n => pos[m] <= pos[n]
        /\ pos[c] = p_data
        /\ Len(read_buf) = pos[i] - pos[c]
        /\ \A n \in c .. i - 1 : order[n + 1] \in S => \A m \in 1 .. Entry(n).length :
              read_buf[pos[n] - pos[c] + m] = acked[order[n + 1]][m]
  BY DEF Packed
<1>2. \A n \in 0 .. i' - 1 : pos[n + 1] = pos[n] + Entry(n)'.length
  BY <1>1
<1>3. ASSUME NEW n \in c .. i - 1, order[n + 1] \in S, NEW m \in 1 .. Entry(n)'.length
      PROVE  read_buf'[pos[n] - pos[c] + m] = acked'[order'[n + 1]][m]
  <2>1. n \in 0 .. i - 1
    OBVIOUS
  <2>2. m \in 1 .. Entry(n).length
    BY <2>1
  <2> QED BY <1>1, <1>3, <2>2
<1> QED BY <1>1, <1>2, <1>3 DEF Packed

\* The block of entry count is written and the table refers to it.
LEMMA InfoStore ==
    ASSUME Sized, IInv, IInv', Within, p_data + BLK <= p_info, PrivateInfo, count' = count + 1,
           UNCHANGED <<order, i, read_buf, acked>>
    PROVE  /\ Between' /\ p_data' = p_data /\ p_info' <= p_info
           /\ count + 1 <= i /\ (read_buf = << >> <=> count + 1 = i)
           /\ \A a \in Addr : a < p_info => flash'[a] = flash[a]
           /\ \A a \in Addr : flash'[a] = Mixed => flash[a] = Mixed
<1>1. PICK c \in Nat, d \in Nat : c = count /\ d = c + 1
  BY DEF IInv, TypeOK
<1>2. /\ Walk /\ TopClear /\ i = Len(order) /\ c < i /\ i \in Nat /\ Len(order) <= MaxVar
      /\ Chain(flash, c) /\ Half(c) /\ p_info = Slot(c)
      /\ \A k \in 0 .. c - 1 : /\ BlkAt(flash, k).block_id = order[k + 1]
                               /\ table[order[k + 1]] = BlkAt(flash, k)
      /\ Packed(d, Id)
      /\ block.block_id = order[c + 1] /\ block.crc = acked[order[c + 1]]
  <2>1. Packed(d, Id)
    BY <1>1 DEF Within
  <2> QED BY <1>1, <2>1 DEF Within, Rewritten, Walk, IInv, TypeOK
<1>3. c \in 0 .. Len(order) - 1 /\ c \in 0 .. MaxVar /\ d <= i
  BY <1>1, <1>2, E2PAssumption
<1>4. /\ Slot(c) \in Nat /\ Slot(c) <= FirstInfo /\ AreaSize - EraseSize < Slot(c)
      /\ Slot(c + 1) = Slot(c) - BLK
  BY <1>2, <1>3, SlotHigh, SlotFacts, Typed
<1>5. Clear(flash, Slot(c), Slot(c) + BLK)
  <2>1. PICK lo \in Int, hi \in Int, from \in Int :
            lo = AreaSize - EraseSize /\ hi = p_info + BLK /\ from = p_info /\ lo <= from
    <3>1. AreaSize - EraseSize \in Int /\ p_info + BLK \in Int /\ p_info \in Int
      BY Numbers, Geometry
    <3>2. AreaSize - EraseSize <= p_info
      BY <1>2, <1>4, <3>1
    <3> QED BY <3>1, <3>2
  <2>2. Clear(flash, lo, hi)
    BY <1>2, <2>1 DEF TopClear
  <2>3. Clear(flash, from, hi)
    BY <2>1, <2>2 DEF Clear
  <2> QED BY <1>2, <2>1, <2>3
<1>6. /\ Chain(flash', c + 1) /\ BlkAt(flash', c) = block
      /\ \A k \in 0 .. c - 1 : BlkAt(flash', k) = BlkAt(flash, k)
      /\ End(flash', c + 1) = p_data /\ p_data' = p_data /\ p_info' = Slot(c + 1)
      /\ table' = TableUpdate(block)
      /\ \A a \in Addr : ~(Slot(c) <= a /\ a < Slot(c) + BLK) => flash'[a] = flash[a]
      /\ \A a \in Addr : flash'[a] = Mixed => flash[a] = Mixed
  BY <1>2, <1>5, InfoWritten
<1>7. PICK id \in Id : id = order[c + 1] /\ id \in Known /\ Sound(Entry(c)) /\ Entry(c).crc = acked[id]
  BY <1>2, <1>3, EntryIs
<1>8. Sound(block) /\ block.block_id = id /\ block.crc = acked[id] /\ block # Blank
  BY <1>2, <1>7, SoundIs DEF Half
<1>9. /\ table'[id] = block
      /\ \A x \in Id : x # id => table'[x] = table[x]
  BY <1>6, <1>8, Typed DEF TableUpdate
<1>10. Known' = Known
  BY <1>7, <1>8, <1>9 DEF Known
<1>11. Walk'
  <2>1. Described'
    BY <1>2, <1>8, <1>9 DEF Walk, Described
  <2> QED BY <1>2, <1>10, <2>1 DEF Walk
<1>12. ASSUME NEW n \in 0 .. i - 1
       PROVE  Entry(n)'.length = Entry(n).length
  <2>1. n \in 0 .. Len(order) - 1
    BY <1>2
  <2>2. order[n + 1] \in Id
    BY <1>2, <2>1, EntryIs
  <2>3. CASE n = c
    <3>1. Entry(n)' = block
      BY <1>7, <1>9, <2>3 DEF Entry
    <3>2. Len(acked[id]) = block.length /\ Len(acked[id]) = Entry(n).length
      BY <1>7, <1>8, <2>3 DEF Sound
    <3> QED BY <3>1, <3>2
  <2>4. CASE n # c
    <3>1. n + 1 \in 1 .. Len(order) /\ c + 1 \in 1 .. Len(order) /\ n + 1 # c + 1
      BY <1>2, <1>3, <2>1, <2>4
    <3>2. order[n + 1] # id
      BY <1>2, <1>7, <3>1 DEF Walk
    <3> QED BY <1>9, <2>2, <3>2 DEF Entry
  <2> QED BY <2>3, <2>4
<1>13. Packed(d, Id)'
  <2>1. UNCHANGED <<order, i, read_buf, p_data, acked>>
    BY <1>6
  <2> QED BY <1>2, <1>12, <2>1, PackedLengths
<1>14. Rewritten(d)'
  <2>1. Chain(flash', d) /\ p_info' = Slot(d)
    BY <1>1, <1>6
  <2>2. ASSUME NEW k \in 0 .. d - 1
        PROVE  BlkAt(flash', k).block_id = order[k + 1] /\ table'[order[k + 1]] = BlkAt(flash', k)
    <3>1. CASE k = c
      BY <1>2, <1>6, <1>7, <1>9, <3>1
    <3>2. CASE k # c
      <4>1. k \in 0 .. c - 1 /\ k + 1 \in 1 .. Len(order) /\ c + 1 \in 1 .. Len(order)
            /\ k + 1 # c + 1 /\ k \in 0 .. Len(order) - 1
        BY <1>1, <1>2, <3>2
      <4>2. order[k + 1] # id
        BY <1>2, <1>7, <4>1 DEF Walk
      <4>3. order[k + 1] \in Id
        BY <1>2, <4>1, EntryIs
      <4> QED BY <1>2, <1>6, <1>9, <4>1, <4>2, <4>3
    <3> QED BY <3>1, <3>2
  <2> QED BY <2>1, <2>2 DEF Rewritten
<1>15. ASSUME NEW a \in Addr, a < p_info \/ FirstInfo + BLK <= a
       PROVE  flash'[a] = flash[a]
  <2>1. ~(Slot(c) <= a /\ a < Slot(c) + BLK)
    BY <1>2, <1>4, <1>15, Geometry, SMTT(30) DEF Addr
  <2> QED BY <1>6, <2>1
<1>16. p_info' = p_info - BLK /\ p_info' <= p_info /\ p_info' \in Int /\ p_info' + BLK = p_info
  <2>1. p_info' = p_info - BLK
    BY <1>2, <1>4, <1>6
  <2> QED BY <2>1, Numbers, Geometry
<1>17. TopClear'
  <2>1. \A a \in Addr :
            /\ (AreaSize - EraseSize <= a /\ a < p_info' + BLK) \/ FirstInfo + BLK <= a
            /\ flash[a] = Erased
            => flash'[a] = Erased
    BY <1>15, <1>16
  <2> QED BY <1>2, <1>16, <2>1, TopClearKeeps
<1>18. Between'
  <2>1. count' = d /\ i' = i /\ order' = order
    BY <1>1
  <2>2. Packed(count, Id)'
    <3>1. count' = d
      BY <2>1
    <3> QED BY ONLY <1>13, <3>1 DEF Packed
  <2>3. Rewritten(count)'
    BY <1>14, <2>1 DEF Rewritten
  <2>4. p_data' = End(flash', count')
    BY <1>1, <1>6, <2>1
  <2> QED BY <1>2, <1>3, <1>11, <1>17, <2>1, <2>2, <2>3, <2>4 DEF Between
<1>19. read_buf = << >> <=> d = i
  BY <1>2, <1>3, PackedEmpty, WalkLengthy
<1> QED BY <1>1, <1>3, <1>6, <1>15, <1>16, <1>18, <1>19

\* Nothing but the blocks changes on the flash.
LEMMA BelowKeeps ==
    ASSUME IInv, IInv', p_data' = p_data, p_info' <= p_info,
           \A a \in Addr : a < p_info => flash'[a] = flash[a]
    PROVE  \A a \in p_data' .. p_info' - 1 : a \in p_data .. p_info - 1 /\ flash'[a] = flash[a]
<1>1. PICK from \in Nat, to \in Nat : from = p_data' /\ to = p_info'
  BY TypedNext
<1>2. from = p_data /\ to <= p_info
  BY <1>1
<1>3. ASSUME NEW a \in from .. to - 1
      PROVE  a \in p_data .. p_info - 1 /\ a < p_info /\ a \in Addr
  BY <1>2, Numbers, Geometry DEF Addr
<1> QED BY <1>1, <1>3

LEMMA FlushBackInfoStore ==
    ASSUME Sized, IInv, IInv', StoreInv, FlushBackInfo
    PROVE  StoreInv' /\ \A a \in Addr : flash'[a] = Mixed => flash[a] = Mixed
<1>1. /\ Within /\ BelowTail /\ Ask /\ PrivateInfo /\ count' = count + 1 /\ pc' = "fl_back"
      /\ UNCHANGED <<order, i, read_buf, acked, tail, req>>
  BY DEF FlushBackInfo, hist, StoreInv
<1>2. p_data + BLK <= p_info
  <2>1. remain_size >= BLK
    BY DEF IInv, LayoutOK, Pending, FlushBackInfo
  <2> QED BY <2>1, Typed, Geometry
<1>3. /\ Between' /\ p_data' = p_data /\ p_info' <= p_info
      /\ \A a \in Addr : a < p_info => flash'[a] = flash[a]
      /\ \A a \in Addr : flash'[a] = Mixed => flash[a] = Mixed
  BY <1>1, <1>2, InfoStore
<1>4. \A a \in p_data' .. p_info' - 1 : a \in p_data .. p_info - 1 /\ flash'[a] = flash[a]
  BY <1>3, BelowKeeps
<1>5. BelowTail'
  BY <1>1, <1>3, <1>4 DEF BelowTail
<1>6. Ask'
  BY <1>1 DEF Ask
<1> QED BY <1>1, <1>3, <1>5, <1>6 DEF StoreInv

LEMMA FlushRestInfoStore ==
    ASSUME Sized, IInv, IInv', StoreInv, FlushRestInfo
    PROVE  StoreInv' /\ \A a \in Addr : flash'[a] = Mixed => flash[a] = Mixed
<1>1. /\ Within /\ Clear(flash, p_data, p_info) /\ Ask /\ PrivateInfo /\ count' = count + 1
      /\ pc' = IF read_buf = << >> THEN "fl_cfg" ELSE "fl_rest"
      /\ UNCHANGED <<order, i, read_buf, acked, req>> /\ i \in Nat /\ count \in Nat
  BY DEF FlushRestInfo, RestPc, hist, StoreInv, IInv, TypeOK
<1>2. p_data + BLK <= p_info
  <2>1. remain_size >= BLK
    BY DEF IInv, LayoutOK, Pending, FlushRestInfo
  <2> QED BY <2>1, Typed, Geometry
<1>3. /\ Between' /\ p_data' = p_data /\ p_info' <= p_info
      /\ count + 1 <= i /\ (read_buf = << >> <=> count + 1 = i)
      /\ \A a \in Addr : a < p_info => flash'[a] = flash[a]
      /\ \A a \in Addr : flash'[a] = Mixed => flash[a] = Mixed
  BY <1>1, <1>2, InfoStore
<1>4. \A a \in p_data' .. p_info' - 1 : a \in p_data .. p_info - 1 /\ flash'[a] = flash[a]
  BY <1>3, BelowKeeps
<1>5. Clear(flash', p_data', p_info')
  BY <1>1, <1>4 DEF Clear
<1>6. Ask'
  BY <1>1 DEF Ask
<1>7. CASE read_buf = << >>
  <2>1. pc' = "fl_cfg" /\ count' = i'
    BY <1>1, <1>3, <1>7
  <2> QED BY <1>3, <1>5, <1>6, <2>1 DEF StoreInv
<1>8. CASE read_buf # << >>
  <2>1. pc' = "fl_rest" /\ count' < i'
    <3>1. count + 1 < i
      BY <1>1, <1>3, <1>8
    <3> QED BY <1>1, <1>8, <3>1
  <2> QED BY <1>3, <1>5, <1>6, <2>1 DEF StoreInv
<1> QED BY <1>3, <1>7, <1>8
-----------------------------------------------------------------------------
(* The end of e2p_flush *)

LEMMA FlushEraseTailStore ==
    ASSUME Sized, IInv, IInv', StoreInv, FlushEraseTail
    PROVE  StoreInv'
<1>1. /\ Between /\ BelowTail /\ Ask /\ tail < p_info - EraseSize /\ pc' = "fl_tail"
      /\ flash' = EraseRange(flash, tail, EraseSize) /\ tail' = tail + EraseSize
      /\ UNCHANGED <<p_data, p_info, table, req, order, i, count, read_buf, acked>>
      /\ tail \in Nat
  BY DEF FlushEraseTail, EraseTail, area, hist, StoreInv, IInv, TypeOK
<1>2. \A a \in Addr : flash'[a] = IF tail <= a /\ a < tail + EraseSize THEN Erased ELSE flash[a]
  <2>1. tail \in Int /\ EraseSize \in Int /\ flash \in [Addr -> Cell]
    BY <1>1, Typed, Geometry
  <2>2. flash' = EraseRange(flash, tail, EraseSize)
    BY <1>1
  <2> QED BY ONLY <2>1, <2>2, EraseIs
<1>3. PICK c \in Nat : c = count
  BY DEF IInv, TypeOK
<1>4. /\ Walk /\ TopClear /\ i = Len(order) /\ c <= i
      /\ Rewritten(c) /\ p_data = End(flash, c) /\ Packed(c, Id)
  <2>1. Packed(c, Id) /\ Rewritten(c)
    BY <1>1, <1>3 DEF Between
  <2> QED BY <1>1, <1>3, <2>1 DEF Between
<1>5. Chain(flash, c) /\ p_info = Slot(c)
  BY <1>4 DEF Rewritten
<1>6. p_data <= tail /\ tail % EraseSize = 0 /\ (i > 0 => EraseSize <= tail)
  BY <1>1 DEF BelowTail
<1>7. /\ Chain(flash', c) /\ End(flash', c) = p_data
      /\ \A k \in 0 .. c - 1 : BlkAt(flash', k) = BlkAt(flash, k)
  <2>1. \A a \in Addr : a < End(flash, c) \/ (Slot(c) + BLK <= a /\ a < FirstInfo + BLK)
                         => flash'[a] = flash[a]
    <3>1. ASSUME NEW a \in Addr, a < p_data \/ p_info + BLK <= a
          PROVE  ~(tail <= a /\ a < tail + EraseSize)
      BY <1>1, <1>6, <3>1, Numbers, Geometry DEF Addr
    <3> QED BY <1>2, <1>4, <1>5, <3>1
  <2>2. /\ Chain(flash', c)
        /\ \A k \in 0 .. c : End(flash', k) = End(flash, k)
        /\ \A k \in 0 .. c - 1 : BlkAt(flash', k) = BlkAt(flash, k)
    BY <1>5, <2>1, ChainSame, Typed, TypedNext
  <2> QED BY <1>4, <2>2
<1>8. Walk' /\ Packed(c, Id)'
  BY <1>1, <1>4, WalkSame, PackedSame
<1>9. ASSUME NEW a \in Addr, flash[a] = Erased
      PROVE  flash'[a] = Erased
  BY <1>2, <1>9
<1>10. TopClear'
  <2>1. p_info' \in Int /\ p_info' <= p_info
    BY <1>1, Typed
  <2> QED BY <1>4, <1>9, <2>1, TopClearKeeps
<1>11. Between'
  <2>1. count' = c /\ p_data' = p_data /\ p_info' = p_info /\ i' = i /\ order' = order /\ table' = table
    BY <1>1, <1>3
  <2>2. Packed(count, Id)'
    <3>1. count' = c
      BY <2>1
    <3> QED BY ONLY <1>8, <3>1 DEF Packed
  <2>3. Rewritten(count)'
    BY <1>4, <1>7, <2>1 DEF Rewritten
  <2> QED BY <1>4, <1>7, <1>8, <1>10, <2>1, <2>2, <2>3 DEF Between
<1>12. BelowTail'
  <2>1. (tail + EraseSize) % EraseSize = 0
    <3>1. EraseSize % EraseSize = 0
      <4>1. EraseSize = 1 * EraseSize
        BY Geometry
      <4> QED BY <4>1, MultipleIs, Geometry
    <3> QED BY <1>1, <1>6, <3>1, MultiplesAdd, Geometry
  <2>2. ASSUME NEW a \in p_data .. p_info - 1, a < tail + EraseSize
        PROVE  flash'[a] = Erased
    <3>1. a \in Addr
      BY Numbers, Geometry DEF Addr
    <3>2. CASE tail <= a
      BY <1>2, <2>2, <3>1, <3>2
    <3>3. CASE ~(tail <= a)
      <4>1. a < tail
        BY <1>1, <3>1, <3>3, Geometry DEF Addr
      <4> QED BY <1>1, <1>9, <3>1, <4>1 DEF BelowTail
    <3> QED BY <3>2, <3>3
  <2>3. p_data <= tail + EraseSize /\ EraseSize <= tail + EraseSize
    BY <1>1, <1>6, Numbers, Geometry
  <2> QED BY <1>1, <2>1, <2>2, <2>3 DEF BelowTail
<1>13. Ask'
  BY <1>1 DEF Ask
<1> QED BY <1>1, <1>11, <1>12, <1>13 DEF StoreInv

LEMMA FlushTailDoneStore ==
    ASSUME Sized, IInv, IInv', StoreInv, FlushTailDone
    PROVE  StoreInv'
<1>1. /\ Between /\ BelowTail /\ Ask /\ tail >= p_info - EraseSize
      /\ pc' = IF read_buf = << >> THEN "fl_cfg" ELSE "fl_rest"
      /\ UNCHANGED <<flash, version, p_data, p_info, table, req, order, i, count, tail,
                     read_buf, acked>>
      /\ tail \in Nat
  BY DEF FlushTailDone, area, locals, hist, StoreInv, IInv, TypeOK
<1>2. PICK c \in Nat : c = count
  BY DEF IInv, TypeOK
<1>3. /\ Walk /\ TopClear /\ i = Len(order) /\ c <= i /\ i \in Nat /\ Len(order) <= MaxVar
      /\ Rewritten(c) /\ Packed(c, Id)
  <2>1. Packed(c, Id) /\ Rewritten(c)
    BY <1>1, <1>2 DEF Between
  <2>2. Walk /\ TopClear /\ i = Len(order) /\ c <= i
    BY <1>1, <1>2 DEF Between
  <2>3. i \in Nat
    BY DEF IInv, TypeOK
  <2> QED BY <2>1, <2>2, <2>3 DEF Walk
<1>4. AreaSize - EraseSize < p_info /\ EraseSize <= AreaSize - EraseSize
  <2>1. c \in 0 .. MaxVar
    BY <1>3, E2PAssumption
  <2> QED BY <1>3, <2>1, SlotHigh DEF Rewritten
<1>5. AreaSize - EraseSize <= tail
  <2>1. AreaSize % EraseSize = 0
    <3>1. AreaSize = SectorCnt * EraseSize /\ SectorCnt \in Nat
      BY E2PAssumption DEF AreaSize
    <3> QED BY <3>1, MultipleIs, Geometry
  <2>2. EraseSize % EraseSize = 0
    <3>1. EraseSize = 1 * EraseSize
      BY Geometry
    <3> QED BY <3>1, MultipleIs, Geometry
  <2>3. PICK next \in Nat : next = tail + EraseSize
    BY <1>1, Geometry
  <2>4. next % EraseSize = 0
    BY <1>1, <2>2, <2>3, MultiplesAdd, Geometry DEF BelowTail
  <2>5. AreaSize < next + EraseSize
    BY <1>1, <1>4, <2>3, Numbers, Geometry
  <2>6. AreaSize <= next
    <3>1. ASSUME next < AreaSize
          PROVE  next + EraseSize <= AreaSize
      <4>1. PICK E \in Nat \ {0}, A \in Nat : E = EraseSize /\ A = AreaSize
        BY Geometry
      <4>2. next % E = 0 /\ A % E = 0 /\ next <= A /\ next < A
        BY <2>1, <2>3, <2>4, <3>1, <4>1
      <4>3. next + E <= A
        BY ONLY <2>3, <4>1, <4>2, MultiplesApart
      <4> QED BY <4>1, <4>3
    <3> QED BY <2>5, <3>1, Geometry
  <2> QED BY <1>1, <2>3, <2>6, Geometry
<1>6. Clear(flash, p_data, p_info)
  <2>1. PICK lo \in Int, hi \in Int : lo = AreaSize - EraseSize /\ hi = p_info + BLK
    BY Numbers, Geometry
  <2>2. Clear(flash, lo, hi)
    BY <1>3, <2>1 DEF TopClear
  <2>3. ASSUME NEW a \in p_data .. p_info - 1
        PROVE  flash[a] = Erased
    <3>1. CASE a < tail
      BY <1>1, <3>1 DEF BelowTail
    <3>2. CASE ~(a < tail)
      <4>1. a \in lo .. hi - 1
        BY <1>1, <1>5, <2>1, <3>2, Numbers, Geometry, SMTT(30)
      <4> QED BY <2>2, <4>1 DEF Clear
    <3> QED BY <3>1, <3>2
  <2> QED BY <2>3 DEF Clear
<1>7. read_buf = << >> <=> c = i
  BY <1>3, PackedEmpty, WalkLengthy
<1>8. Clear(flash', p_data', p_info')
  BY <1>1, <1>6
<1>9. Walk' /\ Packed(c, Id)'
  BY <1>1, <1>3, WalkSame, PackedSame
<1>10. Between'
  <2>1. Packed(count, Id)'
    <3>1. count' = c
      BY <1>1, <1>2
    <3> QED BY ONLY <1>9, <3>1 DEF Packed
  <2>2. Rewritten(count)' /\ TopClear'
    BY <1>1 DEF Between, Rewritten, TopClear
  <2> QED BY <1>1, <1>9, <2>1, <2>2 DEF Between
<1>11. Ask'
  BY <1>1 DEF Ask
<1>12. CASE read_buf = << >>
  BY <1>1, <1>2, <1>7, <1>8, <1>10, <1>11, <1>12 DEF StoreInv
<1>13. CASE read_buf # << >>
  <2>1. count' < i'
    BY <1>1, <1>2, <1>3, <1>7, <1>13
  <2> QED BY <1>1, <1>8, <1>10, <1>11, <1>13, <2>1 DEF StoreInv
<1> QED BY <1>12, <1>13

\* The cells of the version block are the block's.
LEMMA MarkedCells ==
    ASSUME Marked', NEW a \in Addr, ~(a < FirstInfo + BLK)
    PROVE  flash'[a] # Mixed
<1>1. PICK p \in 1 .. BLK : a = FirstInfo + BLK + p - 1
  <2>1. PICK top \in Int : top = FirstInfo + BLK
    BY Geometry
  <2>2. a \in Int /\ top <= a /\ a < top + BLK
    BY <2>1, Geometry DEF Addr
  <2>3. PICK p \in Int : p = a - top + 1
    BY <2>1, <2>2
  <2>4. p \in 1 .. BLK /\ a = top + p - 1
    BY <2>1, <2>2, <2>3, Geometry
  <2> QED BY <2>1, <2>4
<1>2. flash'[a] = InfoCell(VersionBlk(version'), p)
  BY <1>1 DEF Marked
<1> QED BY <1>2, InfoIs

\* With all entries written back the flash has the latest value of each
\* variable, and the table refers to it.
LEMMA AllRewritten ==
    ASSUME Sized, IInv, Walk, NEW n \in Nat, n = Len(order), Rewritten(n)
    PROVE  \A id \in Id : Recorded(flash, n, id, acked[id]) /\ Newest(flash, n, id, table[id])
<1>1. ASSUME NEW k \in 0 .. n - 1
      PROVE  /\ k + 1 \in 1 .. Len(order) /\ order[k + 1] \in Known
             /\ BlkAt(flash, k).block_id = order[k + 1]
             /\ table[order[k + 1]] = BlkAt(flash, k)
  BY DEF Walk, Rewritten
<1>2. ASSUME NEW id \in Id, id \notin Known
      PROVE  Recorded(flash, n, id, acked[id]) /\ Newest(flash, n, id, table[id])
  <2>1. table[id] = Blank
    BY <1>2 DEF Known
  <2>2. acked[id] = << >>
    <3>1. Blank.crc = << >>
      BY DEF Blank, Block
    <3> QED BY <2>1, <3>1 DEF Walk, Described
  <2>3. Absent(flash, n, id)
    BY <1>1, <1>2 DEF Absent
  <2> QED BY <2>1, <2>2, <2>3 DEF Recorded, Newest
<1>3. ASSUME NEW id \in Known
      PROVE  Recorded(flash, n, id, acked[id]) /\ Newest(flash, n, id, table[id])
  <2>1. PICK m \in 1 .. Len(order) : order[m] = id
    BY DEF Walk
  <2>2. PICK k \in 0 .. n - 1 : k + 1 = m
    <3>1. m - 1 \in 0 .. n - 1 /\ (m - 1) + 1 = m
      OBVIOUS
    <3> QED BY <3>1
  <2>3. BlkAt(flash, k).block_id = id /\ table[id] = BlkAt(flash, k)
    BY <1>1, <2>1, <2>2
  <2>4. ASSUME NEW j \in k + 1 .. n - 1
        PROVE  BlkAt(flash, j).block_id # id
    <3>1. j \in 0 .. n - 1 /\ j + 1 \in 1 .. Len(order) /\ j + 1 # m
      BY <2>2
    <3>2. order[j + 1] # order[m]
      BY <3>1 DEF Walk
    <3> QED BY <1>1, <2>1, <3>1, <3>2
  <2>5. Last(flash, n, id, k)
    BY <2>3, <2>4 DEF Last
  <2>6. table[id].crc = acked[id]
    BY DEF Walk, Described, Known
  <2>7. acked[id] = BlkAt(flash, k).crc
    BY <2>3, <2>6
  <2> QED BY <2>3, <2>5, <2>7 DEF Recorded, Newest
<1> QED BY <1>2, <1>3

LEMMA FlushConfigInfoStore ==
    ASSUME Sized, IInv, IInv', StoreInv, FlushConfigInfo
    PROVE  StoreInv' /\ \A a \in Addr : flash'[a] = Mixed => flash[a] = Mixed
<1>1. /\ Between /\ Clear(flash, p_data, p_info) /\ count = i /\ Ask
      /\ flash' = Program(flash, AreaSize - BLK, InfoCells(VersionBlk(version)))
      /\ UNCHANGED <<version, p_data, p_info, table, order, acked>>
      /\ \/ pc' = "idle" /\ req' = NoReq
         \/ pc' = "wr_data" /\ req' = req
  BY DEF FlushConfigInfo, area, locals, hist, StoreInv
<1>2. PICK n \in Nat : n = count /\ n = Len(order)
  BY <1>1 DEF Between, IInv, TypeOK
<1>3. /\ Walk /\ TopClear /\ Rewritten(n) /\ p_data = End(flash, n)
      /\ Chain(flash, n) /\ p_info = Slot(n) /\ n \in 0 .. MaxVar
  <2>1. Walk /\ TopClear /\ Rewritten(n) /\ p_data = End(flash, n)
    BY <1>1, <1>2 DEF Between
  <2> QED BY <1>2, <2>1, E2PAssumption DEF Rewritten, Walk
<1>4. Marked' /\ \A a \in Addr : a < FirstInfo + BLK => flash'[a] = flash[a]
  BY <1>1, <1>3, VersionWritten DEF TopClear
<1>5. /\ Chain(flash', n) /\ End(flash', n) = p_data
      /\ \A k \in 0 .. n - 1 : BlkAt(flash', k) = BlkAt(flash, k)
  <2>1. \A a \in Addr : a < End(flash, n) \/ (Slot(n) + BLK <= a /\ a < FirstInfo + BLK)
                         => flash'[a] = flash[a]
    <3>1. ASSUME NEW a \in Addr, a < p_data
          PROVE  a < FirstInfo + BLK
      BY <3>1, Numbers, Geometry DEF Addr
    <3> QED BY <1>3, <1>4, <3>1
  <2>2. /\ Chain(flash', n)
        /\ \A k \in 0 .. n : End(flash', k) = End(flash, k)
        /\ \A k \in 0 .. n - 1 : BlkAt(flash', k) = BlkAt(flash, k)
    BY <1>3, <2>1, ChainSame, Typed, TypedNext
  <2> QED BY <1>3, <2>2
<1>6. \A id \in Id : Recorded(flash', n, id, acked'[id]) /\ Newest(flash', n, id, table'[id])
  <2>1. \A id \in Id : Recorded(flash, n, id, acked[id]) /\ Newest(flash, n, id, table[id])
    BY <1>2, <1>3, AllRewritten
  <2> QED BY <1>1, <1>5, <2>1, NewestSame
<1>7. Clear(flash', p_data, Slot(n) + BLK)
  <2>1. PICK lo \in Int, hi \in Int : lo = AreaSize - EraseSize /\ hi = p_info + BLK
    BY Numbers, Geometry
  <2>2. Clear(flash, lo, hi)
    BY <1>3, <2>1 DEF TopClear
  <2>3. lo < p_info
    BY <1>3, <2>1, SlotHigh
  <2>4. ASSUME NEW a \in p_data .. hi - 1
        PROVE  flash'[a] = Erased
    <3>1. a \in Addr /\ a < FirstInfo + BLK
      BY <2>1, Numbers, Geometry, SMTT(30) DEF Addr
    <3>2. CASE a < p_info
      <4>1. a \in p_data .. p_info - 1
        BY <2>4, <3>2, Typed
      <4> QED BY <1>1, <1>4, <3>1, <4>1 DEF Clear
    <3>3. CASE ~(a < p_info)
      <4>1. a \in lo .. hi - 1
        BY <2>1, <2>3, <3>3, Typed
      <4> QED BY <1>4, <2>2, <3>1, <4>1 DEF Clear
    <3> QED BY <3>2, <3>3
  <2>5. Clear(flash', p_data, hi)
    BY <2>4 DEF Clear
  <2> QED BY <1>3, <2>1, <2>5
<1>8. Complete(n)' /\ Loaded(n)' /\ p_data' = End(flash', n)
  BY <1>1, <1>3, <1>4, <1>5, <1>6, <1>7 DEF Complete, Loaded
<1>9. Resting'
  BY <1>8 DEF Resting
<1>10. Ask'
  BY <1>1 DEF Ask
<1>11. ASSUME NEW a \in Addr, flash'[a] = Mixed
       PROVE  flash[a] = Mixed
  <2>1. CASE a < FirstInfo + BLK
    BY <1>4, <1>11, <2>1
  <2>2. CASE ~(a < FirstInfo + BLK)
    BY <1>4, <1>11, <2>2, MarkedCells DEF Addr
  <2> QED BY <2>1, <2>2
<1> QED BY <1>1, <1>9, <1>10, <1>11 DEF StoreInv
-----------------------------------------------------------------------------
(* Every step keeps the invariant and programs only erased cells *)

\* An erase leaves no cell with two contents.
LEMMA ErasureMixes ==
    ASSUME IInv, NEW from \in Int, NEW size \in Int, flash' = EraseRange(flash, from, size)
    PROVE  \A a \in Addr : flash'[a] = Mixed => flash[a] = Mixed
<1>1. ASSUME NEW a \in Addr, flash'[a] = Mixed
      PROVE  flash[a] = Mixed
  <2>1. EraseRange(flash, from, size)[a] = IF from <= a /\ a < from + size THEN Erased ELSE flash[a]
    BY EraseIs, Typed
  <2>2. Erased # Mixed
    BY DEF Erased, Mixed
  <2> QED BY <1>1, <2>1, <2>2
<1> QED BY <1>1

LEMMA StepStore ==
    ASSUME Sized, Careful \/ ~GoesOn, IInv, IInv', StoreInv, [Step \/ Call]_vars
    PROVE  StoreInv' /\ \A a \in Addr : flash'[a] = Mixed => flash[a] = Mixed
<1> DEFINE Clean == \A a \in Addr : flash'[a] = Mixed => flash[a] = Mixed
<1> USE Geometry
<1>1. CASE \E v \in Version : Config(v)
  BY <1>1, ConfigStore DEF Config
<1>2. CASE ConfigErase
  BY <1>2, ConfigEraseStore, ErasureMixes DEF ConfigErase
<1>3. CASE ConfigInfo
  <2>1. Clean
    <3>1. /\ flash' = Program(flash, AreaSize - BLK, InfoCells(VersionBlk(version)))
          /\ version' = version /\ Wiped
      BY <1>3 DEF ConfigInfo, StoreInv
    <3>2. Clear(flash, FirstInfo + BLK, AreaSize)
      BY <3>1 DEF Wiped, Clear
    <3>3. Marked' /\ \A a \in Addr : a < FirstInfo + BLK => flash'[a] = flash[a]
      BY <3>1, <3>2, VersionWritten
    <3> QED BY <3>3, MarkedCells
  <2> QED BY <1>3, <2>1, ConfigInfoStore
<1>4. CASE ScanEnd
  BY <1>4, ScanEndStore DEF ScanEnd
<1>5. CASE ScanBlock
  BY <1>5, ScanBlockStore DEF ScanBlock
<1>7. CASE WriteData
  BY <1>7, WriteDataStore
<1>8. CASE WriteInfo
  BY <1>8, WriteInfoStore
<1>9. CASE FlushEraseInfo
  <2>1. flash' = EraseRange(flash, InfoSector, AreaSize - InfoSector)
    BY <1>9 DEF FlushEraseInfo, EraseFrom
  <2> QED BY <1>9, <2>1, FlushEraseInfoStore, ErasureMixes, SectorIs
<1>10. CASE FlushEraseShared
  <2>1. flash' = EraseRange(flash, InfoSector, AreaSize - InfoSector)
    BY <1>10 DEF FlushEraseShared, EraseFrom
  <2> QED BY <1>10, <2>1, FlushEraseSharedStore, ErasureMixes, SectorIs
<1>11. CASE FlushRestore
  BY <1>11, FlushRestoreStore
<1>12. CASE FlushRead
  BY <1>12, FlushReadStore DEF FlushRead
<1>13. CASE FlushErase
  <2>1. flash' = EraseRange(flash, head, EraseSize) /\ head \in Int
    BY <1>13 DEF FlushErase, EraseHead, IInv, TypeOK
  <2> QED BY <1>13, <2>1, FlushEraseStore, ErasureMixes
<1>14. CASE FlushSuspend
  BY <1>14, FlushSuspendStore DEF FlushSuspend
<1>15. CASE FlushBackData
  BY <1>15, FlushBackDataStore
<1>16. CASE FlushBackInfo
  BY <1>16, FlushBackInfoStore
<1>17. CASE FlushEraseTail
  <2>1. flash' = EraseRange(flash, tail, EraseSize) /\ tail \in Int
    BY <1>17 DEF FlushEraseTail, EraseTail, IInv, TypeOK
  <2> QED BY <1>17, <2>1, FlushEraseTailStore, ErasureMixes
<1>18. CASE FlushTailDone
  BY <1>18, FlushTailDoneStore DEF FlushTailDone
<1>19. CASE FlushRestData
  BY <1>19, FlushRestDataStore
<1>20. CASE FlushRestInfo
  BY <1>20, FlushRestInfoStore
<1>21. CASE FlushConfigInfo
  BY <1>21, FlushConfigInfoStore
<1>22. CASE \E id \in Id, v \in Val, len \in Lengths : Write(id, Payload(v, len))
  BY <1>22, WriteStore DEF Write
<1>23. CASE FlushTry \/ FlushBegin \/ Restart
  BY <1>23, QuietStore DEF FlushTry, FlushBegin, Restart
<1>24. CASE Format
  BY <1>24, FormatStore, ErasureMixes DEF Format
<1>25. CASE UNCHANGED vars
  <2>1. UNCHANGED <<flash, version, p_data, p_info, table, pc, req, block, order, i, count, head,
                    tail, read_buf, acked>>
    BY <1>25 DEF vars, area, locals, hist
  <2>2. StoreInv'
    <3> USE <2>1
    <3>1. Known' = Known /\ Described' = Described /\ \A n : Entry(n)' = Entry(n)
      BY DEF Known, Described, Entry
    <3>2. Ask' /\ pc' # "wild"
      BY DEF StoreInv, Ask
    <3>3. pc' = "off" => Off'
      BY DEF StoreInv, Off, Complete, Marked
    <3>4. pc' = "cfg_erase" => Reset'
      BY DEF StoreInv, Reset
    <3>5. pc' = "cfg_info" => Wiped'
      BY DEF StoreInv, Wiped, Reset
    <3>6. pc' = "cfg_scan" => Scanning'
      BY DEF StoreInv, Scanning, Complete, Marked, Loaded
    <3>7. pc' \in {"idle", "wr_data", "fl_start"} => Resting'
      BY DEF StoreInv, Resting, Complete, Marked, Loaded
    <3>8. pc' = "wr_info" => Halfway'
      BY DEF StoreInv, Halfway, Marked, Loaded, Half
    <3>9. pc' = "fl_restore" => Saved'
      BY <3>1 DEF StoreInv, Saved, InfoSector
    <3>10. (Walk => Walk') /\ (TopClear => TopClear') /\ \A c : Packed(c, Id) => Packed(c, Id)'
      <4>1. (Walk => Walk') /\ (TopClear => TopClear')
        BY WalkSame DEF TopClear
      <4> QED BY <4>1, PackedSame
    <3>11. pc' = "fl_read" => Reading'
      BY <3>1, <3>10 DEF StoreInv, Reading
    <3>12. pc' = "fl_erase" => Erasing'
      BY <3>10 DEF StoreInv, Erasing
    <3>13. (Between => Between') /\ (Within => Within') /\ (BelowTail => BelowTail')
      BY <3>10 DEF Between, Within, BelowTail, Rewritten, Half
    <3> QED BY <3>2, <3>3, <3>4, <3>5, <3>6, <3>7, <3>8, <3>9, <3>11, <3>12, <3>13 DEF StoreInv
  <2> QED BY <2>1, <2>2
<1> QED BY <1>1, <1>2, <1>3, <1>4, <1>5, <1>7, <1>8, <1>9, <1>10, <1>11, <1>12, <1>13, <1>14,
           <1>15, <1>16, <1>17, <1>18, <1>19, <1>20, <1>21, <1>22, <1>23, <1>24, <1>25
        DEF Step, Call

LEMMA NextStore ==
    ASSUME MaxFaults = 0, Sized, Careful \/ ~GoesOn, IInv, IInv', StoreInv, [FaultyNext]_vars
    PROVE  StoreInv' /\ \A a \in Addr : flash'[a] = Mixed => flash[a] = Mixed
<1>1. ~Fault
  <2> SUFFICES ASSUME Fault PROVE FALSE
    OBVIOUS
  <2>1. faults < 0 /\ faults \in Nat
    BY DEF Fault, IInv, TypeOK
  <2> QED BY <2>1
<1>2. [Step \/ Call]_vars
  BY <1>1, ScanTornNever DEF FaultyNext, Next, PowerLoss, WriteFails
<1> QED BY <1>2, StepStore
-----------------------------------------------------------------------------
(* What the invariant says of the calls *)

\* A value is found where the table says and its checksum is right.
LEMMA ValueRead ==
    ASSUME Sized, IInv, NEW b, Sound(b), Holds(flash, b)
    PROVE  ReadCells(flash, b.data_addr, b.length) = b.crc /\ Crc(b.crc) = b.crc
<1>1. PICK len \in Nat, from \in Nat : len = b.length /\ from = b.data_addr /\ from + len <= AreaSize
  BY SoundIs DEF Sound
<1>2. b.crc \in Seq(Byte) /\ Len(b.crc) = len /\ \A m \in 1 .. len : Plain(b.crc[m])
  BY <1>1, SoundIs DEF Sound
<1>3. b.crc = [m \in 1 .. len |-> b.crc[m]]
  BY <1>2
<1>4. \A m \in 1 .. len : from + m - 1 \in DOMAIN flash /\ flash[from + m - 1] = b.crc[m]
  <2>1. ASSUME NEW m \in 1 .. len
        PROVE  from + m - 1 \in Addr
    BY <1>1, Geometry DEF Addr
  <2> QED BY <1>1, <2>1, Typed DEF Holds
<1>5. ReadCells(flash, from, len) = [m \in 1 .. len |-> b.crc[m]]
  BY <1>4 DEF ReadCells
<1>6. Crc(b.crc) = [m \in 1 .. len |-> b.crc[m]]
  <2>1. \A m \in 1 .. len : b.crc[m].kind # "info"
    BY <1>2 DEF Plain
  <2> QED BY <1>2, <2>1 DEF Crc
<1> QED BY <1>1, <1>3, <1>5, <1>6

\* Between two calls a read returns what was last written.
LEMMA RestingReads ==
    ASSUME Sized, IInv, Resting, NEW id \in Id
    PROVE  /\ acked[id] = << >> => E2pRead(id, AreaSize).st = "bad_id"
           /\ acked[id] # << >> => /\ E2pRead(id, AreaSize).st = "ok"
                                   /\ E2pRead(id, AreaSize).data = acked[id]
           /\ Visible(id) = acked[id]
<1>1. CASE table[id] = Blank
  <2>1. acked[id] = << >>
    <3>1. Blank.crc = << >>
      BY DEF Blank, Block
    <3> QED BY <1>1, <3>1, RestingFacts DEF Described
  <2>2. E2pRead(id, AreaSize).st = "bad_id"
    BY <1>1 DEF E2pRead
  <2> QED BY <2>1, <2>2 DEF Visible
<1>2. CASE table[id] # Blank
  <2>1. /\ Sound(table[id]) /\ table[id].crc = acked[id] /\ Holds(flash, table[id])
    BY <1>2, RestingFacts DEF Described, Known
  <2>2. PICK len, from, crc :
            /\ len = table[id].length /\ from = table[id].data_addr /\ crc = table[id].crc
            /\ len \in Nat /\ crc \in Seq(Byte) /\ Len(crc) = len /\ len <= AreaSize /\ crc # << >>
    <3>1. PICK len, from, crc : len = table[id].length /\ from = table[id].data_addr /\ crc = table[id].crc
      OBVIOUS
    <3>2. /\ len \in Nat /\ from \in Nat /\ crc \in Seq(Byte) /\ Len(crc) = len /\ crc # << >>
          /\ from + len <= AreaSize
      BY <2>1, <3>1, SoundIs DEF Sound
    <3>3. len <= AreaSize
      BY <3>2, Geometry
    <3> QED BY <3>1, <3>2, <3>3
  <2>3. ReadCells(flash, from, len) = crc /\ Crc(crc) = crc
    BY <2>1, <2>2, ValueRead
  <2>4. E2pRead(id, AreaSize) =
            [st |-> "ok", data |-> SubSeq(crc, 1, IF AreaSize > len THEN len ELSE AreaSize)]
    BY <1>2, <2>2, <2>3 DEF E2pRead
  <2>5. (IF AreaSize > len THEN len ELSE AreaSize) = len
    BY <2>2, Geometry
  <2>6. SubSeq(crc, 1, len) = crc
    BY <2>2
  <2>7. E2pRead(id, AreaSize) = [st |-> "ok", data |-> crc]
    BY <2>4, <2>5, <2>6
  <2> QED BY <2>1, <2>2, <2>7 DEF Visible
<1> QED BY <1>1, <1>2

LEMMA StoreReads == ASSUME Sized, IInv, StoreInv PROVE ReadsLatest
<1> SUFFICES ASSUME pc = "idle", NEW id \in Id
             PROVE  IF acked[id] = << >> THEN E2pRead(id, AreaSize).st = "bad_id"
                    ELSE E2pRead(id, AreaSize).st = "ok" /\ E2pRead(id, AreaSize).data = acked[id]
  BY DEF ReadsLatest
<1> QED BY RestingReads DEF StoreInv

LEMMA StoreErased == ASSUME Sized, IInv, StoreInv PROVE FreeSpaceErased
<1> SUFFICES ASSUME pc \in {"idle", "wr_data"}
             PROVE  \A a \in p_data .. p_info + BLK - 1 : flash[a] = Erased
  BY DEF FreeSpaceErased
<1>1. PICK hi \in Int : hi = p_info + BLK
  BY Numbers, Geometry
<1>2. Clear(flash, p_data, hi)
  BY <1>1, RestingFacts DEF StoreInv
<1>3. p_info + BLK - 1 = hi - 1
  BY <1>1, Numbers, Geometry
<1> QED BY <1>2, <1>3 DEF Clear

-----------------------------------------------------------------------------
(* What a flush leaves *)

\* The info blocks of the table, one for each of its variables.
LEMMA WalkCounts ==
    ASSUME IInv, Walk
    PROVE  Cardinality(Known) = Len(order)
<1>1. Len(order) \in Nat /\ order \in [1 .. Len(order) -> Known]
  <2>1. order \in Seq(Id) /\ Len(order) \in Nat
    BY DEF IInv, TypeOK
  <2>2. \A m \in 1 .. Len(order) : order[m] \in Known
    BY DEF Walk
  <2> QED BY <2>1, <2>2
<1>2. order \in Bijection(1 .. Len(order), Known)
  <2>1. \A m, n \in 1 .. Len(order) : order[m] = order[n] => m = n
    BY DEF Walk
  <2>2. \A id \in Known : \E m \in 1 .. Len(order) : order[m] = id
    BY DEF Walk
  <2> QED BY <1>1, <2>1, <2>2 DEF Bijection, Injection, Surjection, IsInjective
<1> QED BY <1>1, <1>2, FS_CountingElements DEF ExistsBijection

\* Where the flush has put the values: one behind the other.
LEMMA RewrittenTiles ==
    ASSUME Sized, IInv, Walk, NEW n \in Nat, n = Len(order), Rewritten(n), p_data = End(flash, n)
    PROVE  /\ UNION {Extent(id) : id \in Known} = 0 .. p_data - 1
           /\ \A id, other \in Known : id # other => Extent(id) \cap Extent(other) = {}
<1>1. Chain(flash, n)
  BY DEF Rewritten
<1>2. PICK e \in [0 .. n -> Nat] : \A k \in 0 .. n : e[k] = End(flash, k)
  <2>1. \A k \in 0 .. n : End(flash, k) \in Nat
    BY <1>1 DEF Chain
  <2>2. [k \in 0 .. n |-> End(flash, k)] \in [0 .. n -> Nat]
    BY <2>1
  <2> QED BY <2>2
<1>3. ASSUME NEW k \in 0 .. n - 1
      PROVE  /\ order[k + 1] \in Known
             /\ Extent(order[k + 1]) = e[k] .. e[k + 1] - 1
             /\ e[k] <= e[k + 1]
  <2>1. /\ k + 1 \in 1 .. Len(order) /\ k \in 0 .. n /\ k + 1 \in 0 .. n
        /\ table[order[k + 1]] = BlkAt(flash, k)
    BY DEF Rewritten
  <2>2. /\ BlkAt(flash, k).data_addr = e[k]
        /\ e[k + 1] = e[k] + BlkAt(flash, k).length
        /\ Sound(BlkAt(flash, k))
    BY <1>1, <1>2, <2>1, ChainPlaces
  <2>3. BlkAt(flash, k).length \in Nat
    BY <2>2, SoundIs
  <2>4. Extent(order[k + 1]) = e[k] .. e[k] + BlkAt(flash, k).length - 1
    BY <2>1, <2>2 DEF Extent
  <2>5. order[k + 1] \in Known
    BY <2>1 DEF Walk
  <2> QED BY <2>1, <2>2, <2>3, <2>4, <2>5
<1>4. e[0] = 0 /\ e[n] = p_data
  BY <1>2 DEF End
<1>5. /\ \A j, k \in 0 .. n : j <= k => e[j] <= e[k]
      /\ \A a \in 0 .. e[n] - 1 : \E k \in 0 .. n - 1 : a \in e[k] .. e[k + 1] - 1
  BY <1>3, <1>4, Tiling
<1>6. ASSUME NEW id \in Known
      PROVE  \E k \in 0 .. n - 1 : order[k + 1] = id
  <2>1. PICK m \in 1 .. Len(order) : order[m] = id
    BY DEF Walk
  <2>2. m - 1 \in 0 .. n - 1 /\ (m - 1) + 1 = m
    OBVIOUS
  <2> QED BY <2>1, <2>2
<1>7. ASSUME NEW id \in Known, NEW a \in Extent(id)
      PROVE  a \in 0 .. p_data - 1
  <2>1. PICK k \in 0 .. n - 1 : order[k + 1] = id
    BY <1>6
  <2>2. a \in e[k] .. e[k + 1] - 1
    BY <1>3, <1>7, <2>1
  <2>3. k + 1 \in 0 .. n /\ n \in 0 .. n /\ k + 1 <= n
    OBVIOUS
  <2>4. e[k + 1] <= e[n]
    BY <1>5, <2>3
  <2> QED BY <1>4, <2>2, <2>4
<1>8. ASSUME NEW a \in 0 .. p_data - 1
      PROVE  \E id \in Known : a \in Extent(id)
  <2>1. PICK k \in 0 .. n - 1 : a \in e[k] .. e[k + 1] - 1
    BY <1>4, <1>5
  <2> QED BY <1>3, <2>1
<1>9. ASSUME NEW id \in Known, NEW other \in Known, id # other, NEW a \in Extent(id), a \in Extent(other)
      PROVE  FALSE
  <2>1. PICK j \in 0 .. n - 1, k \in 0 .. n - 1 : order[j + 1] = id /\ order[k + 1] = other
    BY <1>6
  <2>2. a \in e[j] .. e[j + 1] - 1 /\ a \in e[k] .. e[k + 1] - 1
    BY <1>3, <1>9, <2>1
  <2>3. j # k
    BY <1>9, <2>1
  <2>4. CASE j < k
    <3>1. e[j + 1] <= e[k]
      BY <1>5, <2>4
    <3> QED BY <2>2, <3>1
  <2>5. CASE k < j
    <3>1. e[k + 1] <= e[j]
      BY <1>5, <2>5
    <3> QED BY <2>2, <3>1
  <2> QED BY <2>3, <2>4, <2>5
<1> QED BY <1>7, <1>8, <1>9

\* At its end a flush has compacted the area.
LEMMA FlushLeaves ==
    ASSUME Sized, IInv, StoreInv, pc = "fl_cfg"
    PROVE  /\ UNION {Extent(id) : id \in Known} = 0 .. p_data - 1
           /\ \A id, other \in Known : id # other => Extent(id) \cap Extent(other) = {}
           /\ FirstInfo - p_info = BLK * Cardinality(Known)
           /\ \A a \in p_data .. p_info + BLK - 1 : flash[a] = Erased
<1>1. Between /\ Clear(flash, p_data, p_info) /\ count = i
  BY DEF StoreInv
<1>2. PICK n \in Nat : n = count /\ n = Len(order)
  BY <1>1 DEF Between, IInv, TypeOK
<1>3. /\ Walk /\ TopClear /\ Rewritten(n) /\ p_data = End(flash, n) /\ p_info = Slot(n)
      /\ n \in 0 .. MaxVar
  BY <1>1, <1>2, E2PAssumption DEF Between, Walk, Rewritten
<1>4. FirstInfo - p_info = BLK * Cardinality(Known)
  <2>1. Cardinality(Known) = n
    BY <1>2, <1>3, WalkCounts
  <2>2. n * BLK \in Nat /\ n * BLK = BLK * n
    BY Geometry
  <2> QED BY <1>3, <2>1, <2>2, Geometry DEF Slot
<1>5. \A a \in p_data .. p_info + BLK - 1 : flash[a] = Erased
  <2>1. PICK lo \in Int, hi \in Int : lo = AreaSize - EraseSize /\ hi = p_info + BLK
    BY Numbers, Geometry
  <2>2. Clear(flash, lo, hi)
    BY <1>3, <2>1 DEF TopClear
  <2>3. lo < p_info
    BY <1>3, <2>1, SlotHigh
  <2>4. ASSUME NEW a \in p_data .. hi - 1
        PROVE  flash[a] = Erased
    <3>1. CASE a < p_info
      <4>1. a \in p_data .. p_info - 1
        BY <2>4, <3>1, Typed
      <4> QED BY <1>1, <4>1 DEF Clear
    <3>2. CASE ~(a < p_info)
      <4>1. a \in lo .. hi - 1
        BY <2>1, <2>3, <3>2, Typed
      <4> QED BY <2>2, <4>1 DEF Clear
    <3> QED BY <3>1, <3>2
  <2>5. p_info + BLK - 1 = hi - 1
    BY <2>1, Numbers, Geometry
  <2> QED BY <2>4, <2>5
<1> QED BY <1>2, <1>3, <1>4, <1>5, RewrittenTiles

-----------------------------------------------------------------------------
(* The store the application sees *)

\* Three sectors: after a flush, which leaves less than one of data, every
\* value fits.
Roomy == \A len \in Lengths : EraseSize + len + (MaxVar + 1) * BLK <= FirstInfo

\* What the emulation shows of its values.
Shown == IF pc = "idle" THEN [id \in Id |-> Visible(id)] ELSE acked

LEMMA ShownIs == ASSUME Sized, IInv, StoreInv PROVE Shown = acked
<1>1. CASE pc = "idle"
  <2>1. \A id \in Id : Visible(id) = acked[id]
    BY <1>1, RestingReads DEF StoreInv
  <2>2. acked \in [Id -> Seq(Byte)]
    BY Typed
  <2>3. acked = [id \in Id |-> acked[id]]
    BY <2>2
  <2>4. [id \in Id |-> Visible(id)] = [id \in Id |-> acked[id]]
    BY <2>1
  <2> QED BY <1>1, <2>3, <2>4 DEF Shown
<1> QED BY <1>1 DEF Shown

\* A variable more still has room in the table.
LEMMA StoreHasRoom ==
    ASSUME Sized, NEW id \in Id, NEW S, S \subseteq Id \ {id}
    PROVE  Cardinality(S) < MaxVar
<1>1. IsFiniteSet(Id) /\ IsFiniteSet(Id \ {id})
  BY E2PAssumption, FS_RemoveElement
<1>2. Cardinality(Id \ {id}) = Cardinality(Id) - 1 /\ Cardinality(Id) \in Nat
  BY <1>1, FS_RemoveElement, FS_CardinalityType
<1>3. Cardinality(S) <= Cardinality(Id \ {id}) /\ Cardinality(S) \in Nat
  BY <1>1, FS_Subset, FS_CardinalityType
<1> QED BY <1>2, <1>3, E2PAssumption DEF Sized

\* A flush makes room for any value.
LEMMA FlushMakesRoom ==
    ASSUME Sized, Roomy, IInv, Between, NEW len \in Lengths
    PROVE  PrivateFits(len)
<1>1. PICK c \in Nat : c = count
  BY DEF IInv, TypeOK
<1>2. c <= MaxVar /\ p_info = Slot(c)
  BY <1>1, E2PAssumption DEF Between, Walk, Rewritten, IInv, TypeOK
<1>3. p_data <= EraseSize
  <2>1. PICK pos \in [0 .. Len(order) -> 0 .. EraseSize] : pos[c] = p_data
    BY <1>1 DEF Between, Packed
  <2>2. c \in 0 .. Len(order)
    BY <1>1 DEF Between, IInv, TypeOK
  <2>3. pos[c] \in 0 .. EraseSize
    BY <2>2
  <2> QED BY <2>1, <2>3, Geometry
<1>4. c * BLK <= MaxVar * BLK /\ c * BLK \in Nat /\ MaxVar * BLK \in Nat
  BY <1>2, Fewer, Geometry, E2PAssumption
<1>5. (MaxVar + 1) * BLK = MaxVar * BLK + BLK
  BY Geometry, E2PAssumption
<1>6. EraseSize + len + (MaxVar + 1) * BLK <= FirstInfo /\ len \in Nat
  BY E2PAssumption DEF Roomy
<1>7. p_info = FirstInfo - c * BLK
  BY <1>2 DEF Slot
<1>8. p_info - p_data >= len + BLK
  BY <1>3, <1>4, <1>5, <1>6, <1>7, Numbers, Geometry
<1> QED BY <1>8, Typed DEF PrivateFits

\* No request has no cells.
LEMMA ReqIs ==
    ASSUME Sized, Ask
    PROVE  req = NoReq <=> req.cells = << >>
<1>1. NoReq.cells = << >>
  BY DEF NoReq
<1>2. ASSUME req # NoReq
      PROVE  req.cells # << >>
  <2>1. Len(req.cells) \in Nat \ {0}
    BY <1>2, E2PAssumption DEF Ask
  <2> QED BY <2>1
<1> QED BY <1>1, <1>2

\* What is shown is what was written.
Faithful == Shown = acked

LEMMA KvInit ==
    ASSUME Faithful, Init
    PROVE  Store!Init
<1>1. Shown = [id \in Id |-> << >>]
  BY DEF Faithful, Init, Empty
<1>2. req.cells = << >>
  BY DEF Init, NoReq
<1> QED BY <1>1, <1>2 DEF Init, Store!Init, Store!None, Store!Idle, Shown

\* The store counts as the emulation does.
LEMMA StoreCounts == ASSUME NEW S PROVE Store!Cardinality(S) = Cardinality(S)
BY DEF Store!Cardinality, Cardinality

\* Writes, and the calls that leave the values alone.
LEMMA KvKinds ==
    ASSUME Sized, Faithful, Faithful', StoreInv
    PROVE  /\ UNCHANGED <<acked, req, ret>> => UNCHANGED <<Shown, req, ret>>
           /\ (/\ req = NoReq /\ UNCHANGED <<acked, req>>
               /\ \/ \E st \in {"ok", "no_mem"} : Return("config", st)
                  \/ Return("flush", "ok")) => Store!Maintain
           /\ req = NoReq /\ acked' = Empty /\ UNCHANGED <<req, ret>> => Store!Wipe
           /\ (/\ req = NoReq /\ UNCHANGED <<acked, ret>>
               /\ req'.id \in Id /\ req'.cells # << >>) => Store!Ask
           /\ (/\ req.id \in Id /\ req # NoReq /\ req' = NoReq
               /\ acked' = [acked EXCEPT ![req.id] = req.cells]
               /\ Return("write", "ok")) => Store!Put
<1>1. Shown = acked /\ Shown' = acked'
  BY DEF Faithful
<1>2. req = NoReq <=> req.cells = << >>
  BY ReqIs DEF StoreInv
<1>3. NoReq.cells = << >>
  BY DEF NoReq
<1>4. ASSUME req = NoReq, UNCHANGED <<acked, req>>,
             (\E st \in {"ok", "no_mem"} : Return("config", st)) \/ Return("flush", "ok")
      PROVE  Store!Maintain
  BY <1>1, <1>2, <1>4 DEF Store!Maintain, Store!Idle, Store!None, Store!Return, Return, Shown
<1>5. ASSUME req = NoReq, acked' = Empty, UNCHANGED <<req, ret>>
      PROVE  Store!Wipe
  BY <1>1, <1>2, <1>5 DEF Store!Wipe, Store!Idle, Store!None, Shown, Empty
<1>6. ASSUME req = NoReq, UNCHANGED <<acked, ret>>, req'.id \in Id, req'.cells # << >>
      PROVE  Store!Ask
  BY <1>1, <1>2, <1>6 DEF Store!Ask, Store!Idle, Store!None, Shown
<1>7. ASSUME req.id \in Id, req # NoReq, req' = NoReq,
             acked' = [acked EXCEPT ![req.id] = req.cells], Return("write", "ok")
      PROVE  Store!Put
  <2>1. req.id \in Store!Stored \/ Cardinality(Store!Stored) < MaxVar
    <3>1. CASE req.id \notin Store!Stored
      <4>1. Store!Stored \subseteq Id \ {req.id}
        BY <3>1 DEF Store!Stored
      <4> QED BY <1>7, <4>1, StoreHasRoom
    <3> QED BY <3>1
  <2>2. Shown' = [Shown EXCEPT ![req.id] = req.cells]
    BY <1>1, <1>7
  <2> QED BY <1>2, <1>3, <1>7, <2>1, <2>2, StoreCounts DEF Store!Put, Store!Idle, Store!None, Store!Return, Return, Shown
<1> QED BY <1>1, <1>4, <1>5, <1>6, <1>7

\* A step is one of the store's on what is shown, or shows nothing.
LEMMA KvStep ==
    ASSUME Sized, Roomy, IInv, StoreInv, Faithful, Faithful', [Next]_vars
    PROVE  Store!Next \/ UNCHANGED <<Shown, req, ret>>
<1> DEFINE Stutters == UNCHANGED <<acked, req, ret>>
<1> SUFFICES Stutters \/ Store!Maintain \/ Store!Wipe \/ Store!Ask \/ Store!Put
  BY KvKinds DEF Store!Next
<1>1. ASSUME pc \in {"off", "idle", "cfg_scan", "cfg_erase", "cfg_info"}
      PROVE  req = NoReq
  BY <1>1 DEF StoreInv, Ask
<1>2. CASE ConfigErase
  <2>1. req = NoReq /\ acked' = Empty /\ UNCHANGED <<req, ret>>
    BY <1>1, <1>2 DEF ConfigErase
  <2> QED BY <2>1, KvKinds
<1>3. CASE ConfigInfo \/ ScanEnd
  <2>1. req = NoReq /\ UNCHANGED <<acked, req>> /\ Return("config", "ok")
    BY <1>1, <1>3 DEF ConfigInfo, ScanEnd, hist
  <2> QED BY <2>1, KvKinds
<1>4. CASE ScanBlock
  <2>1. req = NoReq /\ UNCHANGED <<acked, req>>
    BY <1>1, <1>4 DEF ScanBlock, hist
  <2>2. TableRoom(SlotBlock(p_info).block_id)
    BY <1>4, TableHasRoom DEF ScanBlock, SlotWhole
  <2>3. Return("config", "no_mem") \/ UNCHANGED ret
    BY <1>4, <2>2 DEF ScanBlock, Refuse
  <2> QED BY <2>1, <2>3, KvKinds
<1>6. CASE WriteInfo
  <2>1. Halfway /\ Ask
    BY <1>6 DEF WriteInfo, StoreInv
  <2>2. req # NoReq /\ block.block_id = req.id /\ req.id \in Id
    BY <2>1 DEF Halfway, Ask
  <2>3. /\ req' = NoReq /\ acked' = [acked EXCEPT ![req.id] = req.cells]
        /\ Return("write", "ok")
    BY <1>6, <2>2, TableHasRoom DEF WriteInfo
  <2> QED BY <2>2, <2>3, KvKinds
<1>7. CASE FlushConfigInfo
  <2>1. Between /\ Ask /\ acked' = acked
    BY <1>7 DEF FlushConfigInfo, StoreInv, hist
  <2>2. CASE req = NoReq
    <3>1. Return("flush", "ok") /\ req' = req
      BY <1>7, <2>2 DEF FlushConfigInfo
    <3> QED BY <2>1, <2>2, <3>1, KvKinds
  <2>3. CASE req # NoReq
    <3>1. Len(req.cells) \in Lengths
      BY <2>1, <2>3 DEF Ask
    <3>2. PrivateFits(Len(req.cells))
      BY <2>1, <3>1, FlushMakesRoom
    <3> QED BY <1>7, <2>1, <2>3, <3>2 DEF FlushConfigInfo, WriteFitsNow
  <2> QED BY <2>2, <2>3
<1>8. CASE \E id \in Id, v \in Val, len \in Lengths : Write(id, Payload(v, len))
  <2>1. PICK id \in Id, v \in Val, len \in Lengths : Write(id, Payload(v, len))
    BY <1>8
  <2>2. /\ req = NoReq /\ UNCHANGED <<acked, ret>>
        /\ req' = [id |-> id, cells |-> Payload(v, len)]
    BY <1>1, <2>1 DEF Write
  <2>3. Payload(v, len) # << >>
    <3>1. Len(Payload(v, len)) = len /\ len \in Nat \ {0}
      BY E2PAssumption DEF Payload
    <3> QED BY <3>1
  <2>4. req'.id \in Id /\ req'.cells # << >>
    BY <2>2, <2>3
  <2> QED BY <2>2, <2>4, KvKinds
<1>9. CASE FlushTry
  <2>1. req = NoReq /\ UNCHANGED <<acked, req>> /\ Return("flush", "ok")
    BY <1>1, <1>9 DEF FlushTry, hist
  <2> QED BY <2>1, KvKinds
<1>10. CASE Format
  <2>1. req = NoReq /\ acked' = Empty /\ UNCHANGED <<req, ret>>
    BY <1>1, <1>10 DEF Format
  <2> QED BY <2>1, KvKinds
<1>12. CASE (\E v \in Version : Config(v)) \/ FlushBegin \/ Restart \/ UNCHANGED vars
  BY <1>12 DEF Config, FlushBegin, Restart, vars, hist
<1>13. CASE WriteData \/ FlushEraseInfo \/ FlushEraseShared \/ FlushRestore
  BY <1>13 DEF WriteData, FlushEraseInfo, FlushEraseShared, FlushRestore, hist
<1>14. CASE FlushRead \/ FlushErase \/ FlushSuspend \/ FlushBackData \/ FlushBackInfo
  BY <1>14 DEF FlushRead, FlushErase, FlushSuspend, FlushBackData, FlushBackInfo, hist
<1>15. CASE FlushEraseTail \/ FlushTailDone \/ FlushRestData \/ FlushRestInfo
  BY <1>15 DEF FlushEraseTail, FlushTailDone, FlushRestData, FlushRestInfo, hist
<1> QED BY <1>2, <1>3, <1>4, <1>6, <1>7, <1>8, <1>9, <1>10, <1>12, <1>13, <1>14, <1>15
        DEF Next, Step, Call

-----------------------------------------------------------------------------
(* The theorems on the values *)

\* The invariant of the flash holds in every behaviour.
THEOREM StoreInvariance == ASSUME Fit PROVE Spec => []StoreInv
<1>1. Init => StoreInv
  BY InitStore
<1>2. IInv /\ IInv' /\ StoreInv /\ [Next]_vars => StoreInv'
  BY StepStore DEF Fit, Next
<1> QED BY <1>1, <1>2, Invariance, PTL DEF Spec

\* Between two calls e2p_read returns, for every variable, the value that was
\* last written with success, and bad_id if there is none: through any number
\* of writes, flushes, restarts and formats (eeprom_emulation.c l.210, l.263, l.363).
THEOREM LatestRead == ASSUME Fit PROVE Spec => []ReadsLatest
<1>1. IInv /\ StoreInv => ReadsLatest
  BY StoreReads DEF Fit
<1> QED BY <1>1, Invariance, StoreInvariance, PTL

\* Whenever a write may begin, everything between the data and the info blocks
\* is erased (eeprom_emulation.c l.121-139, l.331-334).
THEOREM FreeErased == ASSUME Fit PROVE Spec => []FreeSpaceErased
<1>1. IInv /\ StoreInv => FreeSpaceErased
  BY StoreErased DEF Fit
<1> QED BY <1>1, Invariance, StoreInvariance, PTL

\* No write and no step of a flush programs a cell that is not erased with
\* other content (eeprom_emulation.c l.82, l.127, l.134, l.204).
THEOREM ProgramsErased == ASSUME Fit PROVE Spec => NeverReprograms
<1>1. IInv /\ IInv' /\ StoreInv /\ [Next]_vars
          => [\A a \in Addr : flash'[a] = Mixed => flash[a] = Mixed]_vars
  BY StepStore DEF Fit, Next
<1> QED BY <1>1, Invariance, StoreInvariance, PTL DEF Spec, NeverReprograms

\* A flush leaves one block per variable and nothing else: the values lie side
\* by side from the start of the area and the rest is erased
\* (eeprom_emulation.h l.128, eeprom_emulation.c l.288-347).
THEOREM FlushesCompact == ASSUME Fit PROVE Spec => FlushCompacts
<1>1. IInv /\ StoreInv =>
          (pc = "fl_cfg" =>
              /\ UNION {Extent(id) : id \in Known} = 0 .. p_data - 1
              /\ \A id, other \in Known : id # other => Extent(id) \cap Extent(other) = {}
              /\ FirstInfo - p_info = BLK * Cardinality(Known)
              /\ \A a \in p_data .. p_info + BLK - 1 : flash[a] = Erased)
  BY FlushLeaves DEF Fit
<1> QED BY <1>1, Invariance, StoreInvariance, PTL DEF FlushCompacts

\* With three sectors the emulation is the key-value store of KVStore and
\* refuses no write (eeprom_emulation.h l.120-171).
THEOREM StoreImplemented == ASSUME Fit, Roomy PROVE Spec => RefinesKVStore
<1>1. IInv /\ StoreInv => Faithful
  BY ShownIs DEF Fit, Faithful
<1>2. Faithful /\ Init => Store!Init
  BY KvInit DEF Fit
<1>3. IInv /\ StoreInv /\ Faithful /\ Faithful' /\ [Next]_vars => [Store!Next]_(<<Shown, req, ret>>)
  BY KvStep DEF Fit
<1> QED BY <1>1, <1>2, <1>3, Invariance, StoreInvariance, PTL
        DEF Spec, RefinesKVStore, Store!KVSpec, Shown
=============================================================================
