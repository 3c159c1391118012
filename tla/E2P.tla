--------------------------------- MODULE E2P ---------------------------------
(***************************************************************************)
(* The EEPROM emulation of components/eeprom_emulation/eeprom_emulation.c. *)
(*                                                                         *)
(* The area is SectorCnt sectors of EraseSize cells at addresses 0, 1, ... *)
(* (config.start_addr is address 0 here).  User data grows up from address *)
(* 0, info blocks of BLK cells grow down from the top; the topmost block   *)
(* holds the version and the magic number, the slot below it is the first  *)
(* info slot.  p_data is where the next data goes, p_info the next slot.   *)
(*                                                                         *)
(* Every call of config.flash_write or config.flash_erase is a step of its *)
(* own, so a power loss can fall between any two of them and, for a        *)
(* fraction of the call's cells, inside one.  Next has no such fault,      *)
(* FaultyNext has; E2PAstray carries the latter on behind a torn block.    *)
(***************************************************************************)
EXTENDS NorFlash, FiniteSets

CONSTANTS
    Id,          \* the block ids of the application's variables
    Val,         \* the contents it writes
    Lengths,     \* the lengths it writes
    Version,     \* the values of config.version
    BLK,         \* sizeof(e2p_block)
    EraseSize,   \* config.erase_size
    SectorCnt,   \* config.sector_cnt
    MaxVar,      \* E2P_MAX_VAR_CNT
    BlankLen,    \* the length of a blank table entry, 0xFFFF
    NoId,        \* no block id
    Heeds,       \* does the application leave a store alone that e2p_config refused
    FaultAt,     \* the steps a fault of FaultyNext may hit
    MaxFaults    \* bound on the number of faults

ASSUME E2PAssumption ==
    /\ BLK \in Nat \ {0} /\ EraseSize \in Nat \ {0} /\ SectorCnt \in Nat \ {0}
    /\ 2 * BLK <= EraseSize * SectorCnt
    /\ MaxVar \in Nat /\ BlankLen \in Nat /\ MaxFaults \in Nat
    /\ Lengths \subseteq Nat \ {0}
    /\ NoId \notin Id /\ IsFiniteSet(Id)
    /\ Heeds \in BOOLEAN

VARIABLES
    flash,                      \* the area
    version,                    \* config.version
    p_data, p_info, remain_size,\* e2p_t
    table,                      \* e2p_info_table, by block id
    pc,                         \* the step of the call in progress
    req,                        \* the arguments of the e2p_write in progress
    block,                      \* the block being written by e2p_write_private
    order,                      \* the sorted table walked by e2p_flush
    i, count, head, tail,       \* locals of e2p_flush
    read_buf,                   \* read_buf[0 .. read_len) of e2p_flush
    ret,                        \* the last call that returned, and what
    faults,                     \* faults so far
    acked,                      \* history: what was written with success
    dirty                       \* history: ids written since the first fault

area   == <<p_data, p_info, remain_size>>
locals == <<order, i, count, head, tail, read_buf>>
hist   == <<acked, dirty>>
vars   == <<flash, version, area, table, pc, req, block, locals, ret, faults, hist>>

-----------------------------------------------------------------------------
\* The layout.
AreaSize  == EraseSize * SectorCnt
Addr      == 0 .. AreaSize - 1
FirstInfo == AreaSize - 2 * BLK          \* e2p_config l.225
MagicAddr == AreaSize + 1                \* E2P_MAGIC_ID: no address of the area

\* e2p_block, a blank table entry, and the block e2p_config_info writes.
Block(id, addr, len, crc) ==
    [block_id |-> id, data_addr |-> addr, length |-> len, crc |-> crc]
Blank         == Block(NoId, MagicAddr, BlankLen, << >>)
VersionBlk(v) == Block(v, MagicAddr, BlankLen, << >>)

\* The cells of an info block.
InfoCells(blk) == [part \in 1 .. BLK |-> InfoCell(blk, part)]

\* e2p_data_crc_calc: two reads have the same checksum if they have the same
\* content.  Info blocks read as data are content no value has.
Crc(cells) == [k \in 1 .. Len(cells) |->
                  IF cells[k].kind = "info" THEN Mixed ELSE cells[k]]

\* What an e2p_config read of BLK cells at a finds: an erased id, a block, or
\* cells that no single e2p_write_private wrote.
SlotErased(a)   == flash[a] = Erased
SlotHolds(a, blk) == ReadCells(flash, a, BLK) = InfoCells(blk)
SlotBlock(a)    == flash[a].blk
SlotTorn(a)     == /\ ~SlotErased(a)
                   /\ flash[a].kind = "info" => ~SlotHolds(a, flash[a].blk)

\* The ids in the table; e2p_table_update finds a slot for id or returns
\* E2P_ERROR_MUL_VAR.
Known          == {id \in Id : table[id] # Blank}
TableRoom(id)  == id \in Known \/ Cardinality(Known) < MaxVar
TableUpdateKeepsFirst(b) ==
    [table EXCEPT ![b.block_id] = IF @ = Blank THEN b ELSE @]
TableUpdate(b) == [table EXCEPT ![b.block_id] = b]

\* e2p_read: BAD_ID, ERROR on a wrong checksum, or the first len bytes.
E2pRead(id, len) ==
    LET b == table[id]
        tmp == ReadCells(flash, b.data_addr, b.length)
        n == IF len > b.length THEN b.length ELSE len
    IN  IF b = Blank THEN [st |-> "bad_id", data |-> << >>]
        ELSE IF Crc(tmp) # b.crc THEN [st |-> "error", data |-> << >>]
        ELSE [st |-> "ok", data |-> SubSeq(tmp, 1, n)]

\* A payload of the application, and no e2p_write in progress.
Payload(v, len) == [k \in 1 .. len |-> DataCell(v, k)]
NoReq == [id |-> NoId, cells |-> << >>]
Empty == [id \in Id |-> << >>]

Return(api, st) == ret' = [api |-> api, st |-> st]

-----------------------------------------------------------------------------
(* e2p_config *)

\* The pointers of an empty area.
ResetInfoOnly ==
    /\ p_data' = p_data
    /\ p_info' = FirstInfo
    /\ remain_size' = p_info' - p_data'
ResetPointers ==
    /\ p_data' = 0
    /\ p_info' = FirstInfo
    /\ remain_size' = FirstInfo

\* e2p_config up to the version check (l.210-239).
Config(v) ==
    /\ pc = "off"
    /\ version' = v
    /\ ResetPointers
    /\ table' = [id \in Id |-> Blank]
    /\ pc' = IF SlotHolds(FirstInfo + BLK, VersionBlk(v)) THEN "cfg_scan" ELSE "cfg_erase"
    /\ UNCHANGED <<flash, req, block, locals, ret, faults, hist>>

\* The version does not match: everything is erased (l.235) ...
ConfigErase ==
    /\ pc = "cfg_erase"
    /\ flash' = EraseRange(flash, 0, AreaSize)
    /\ pc' = "cfg_info"
    /\ acked' = Empty
    /\ UNCHANGED <<version, area, table, req, block, locals, ret, faults, dirty>>

\* ... and e2p_config_info writes the version block (l.236-238).
ConfigInfo ==
    /\ pc = "cfg_info"
    /\ flash' = Program(flash, AreaSize - BLK, InfoCells(VersionBlk(version)))
    /\ pc' = "idle"
    /\ Return("config", "ok")
    /\ UNCHANGED <<version, area, table, req, block, locals, faults, hist>>

\* The scan meets an erased id and is done (l.246).
ScanEnd ==
    /\ pc = "cfg_scan"
    /\ SlotErased(p_info)
    /\ pc' = "idle"
    /\ Return("config", "ok")
    /\ UNCHANGED <<flash, version, area, table, req, block, locals, faults, hist>>

\* The pointers move past a block that was taken (l.253-255).
ScanAdvanceSkipsOld(b) ==
    /\ p_data' = IF b.block_id \in Known THEN p_data ELSE p_data + b.length
    /\ p_info' = p_info - BLK
    /\ remain_size' = p_info' - p_data'
ScanAdvance(b) ==
    /\ p_data' = p_data + b.length
    /\ p_info' = p_info - BLK
    /\ remain_size' = remain_size - (b.length + BLK)

\* An error ends the scan before the blocks below are read (l.251, l.259): an
\* application that heeds it formats the area or configures once more, any
\* other goes on with the pointers as they are.
Refuse(st) ==
    /\ pc' = IF Heeds THEN "off" ELSE "idle"
    /\ Return("config", st)

\* A slot that one e2p_write_private has written and left room for.
SlotWhole(a) ==
    /\ ~SlotTorn(a)
    /\ LET b == SlotBlock(a) IN b.block_id \in Id /\ b.length + BLK <= remain_size

\* The scan takes one info block (l.249-260).
ScanBlock ==
    /\ pc = "cfg_scan"
    /\ ~SlotErased(p_info) /\ SlotWhole(p_info)
    /\ LET b == SlotBlock(p_info) IN
           IF ~TableRoom(b.block_id)
             THEN Refuse("mul_var") /\ UNCHANGED <<area, table>>
             ELSE /\ table' = TableUpdate(b)
                  /\ ScanAdvance(b)
                  /\ IF remain_size' < 2 * BLK
                       THEN Refuse("no_mem")
                       ELSE pc' = "cfg_scan" /\ UNCHANGED ret
    /\ UNCHANGED <<flash, version, req, block, locals, faults, hist>>

\* The scan meets a slot that no e2p_write_private wrote as it stands: id,
\* length and so the pointers will be whatever the programmed bits say.  How
\* the code goes on from here is ScanTakesTorn of E2PAstray.
ScanTorn ==
    /\ pc = "cfg_scan"
    /\ ~SlotErased(p_info) /\ ~SlotWhole(p_info)
    /\ pc' = "wild"
    /\ UNCHANGED <<flash, version, area, table, req, block, locals, ret, faults, hist>>

-----------------------------------------------------------------------------
(* e2p_write_private, called from e2p_write and from both write-back loops *)

PrivateFitsForgetsInfo(len) == remain_size >= len
PrivateFits(len) == remain_size >= len + BLK

\* Up to the data write and the pointers behind it (l.121-132).
PrivateData(id, cells) ==
    /\ block' = Block(id, p_data, Len(cells), Crc(cells))
    /\ flash' = Program(flash, p_data, cells)
    /\ p_data' = p_data + Len(cells)
    /\ remain_size' = remain_size - Len(cells)
    /\ UNCHANGED p_info

\* The info write, the pointers behind it and e2p_table_update (l.134-143).
PrivateInfo ==
    /\ flash' = Program(flash, p_info, InfoCells(block))
    /\ p_info' = p_info - BLK
    /\ remain_size' = remain_size - BLK
    /\ table' = IF TableRoom(block.block_id) THEN TableUpdate(block) ELSE table
    /\ UNCHANGED p_data

-----------------------------------------------------------------------------
(* e2p_write *)

\* The call: flush first if the value does not fit (l.352-353).
Write(id, cells) ==
    /\ pc = "idle"
    /\ req' = [id |-> id, cells |-> cells]
    /\ pc' = IF PrivateFits(Len(cells)) THEN "wr_data" ELSE "fl_start"
    /\ dirty' = IF faults > 0 THEN dirty \cup {id} ELSE dirty
    /\ UNCHANGED <<flash, version, area, table, block, locals, ret, faults, acked>>

WriteData ==
    /\ pc = "wr_data"
    /\ PrivateData(req.id, req.cells)
    /\ pc' = "wr_info"
    /\ UNCHANGED <<version, table, req, locals, ret, faults, hist>>

WriteInfo ==
    /\ pc = "wr_info"
    /\ PrivateInfo
    /\ pc' = "idle"
    /\ req' = NoReq
    /\ IF TableRoom(block.block_id)
         THEN Return("write", "ok") /\ acked' = [acked EXCEPT ![req.id] = req.cells]
         ELSE Return("write", "mul_var") /\ UNCHANGED acked
    /\ UNCHANGED <<version, block, locals, faults, dirty>>

-----------------------------------------------------------------------------
(* e2p_flush *)

\* e2p_earse_info_sector: the sector of the next info slot, and all above.
InfoSector    == p_info - (p_info % EraseSize)
EraseFromOneSector(a) == EraseRange(flash, a, EraseSize)
EraseFrom(a)  == EraseRange(flash, a, AreaSize - a)
DataInSameSector == p_data \div EraseSize >= p_info \div EraseSize

\* e2p_info_table_sort: the ids of the table by ascending data address.
Sorted(q) ==
    \A m, n \in DOMAIN q :
        m < n => q[m] # q[n] /\ table[q[m]].data_addr <= table[q[n]].data_addr

\* The entry at index n of the sorted table; the entries behind the last one
\* are blank, and there is nothing behind entry MaxVar - 1: the code reads on
\* past the array, where any length may stand (l.314).
Entry(n) == table[order[n + 1]]
validNum == Len(order)
EntryLengths(n) ==
    IF n < validNum THEN {Entry(n).length}
    ELSE IF n < MaxVar THEN {BlankLen} ELSE {0, BlankLen}

\* l.277-288, once the info sectors are erased.
BeginLoop(q) ==
    /\ ResetPointers
    /\ order' = q
    /\ i' = 0 /\ count' = 0 /\ head' = 0 /\ tail' = 0
    /\ read_buf' = << >>
    /\ pc' = IF Len(q) = 0 THEN "fl_tail" ELSE "fl_read"

\* The orders e2p_info_table_sort may leave.
Orders == {q \in [1 .. Cardinality(Known) -> Known] : Sorted(q)}

\* The call: a conditional flush of a roomy area does nothing (l.269-272).
FlushTry ==
    /\ pc = "idle"
    /\ EraseSize < remain_size
    /\ Return("flush", "ok")
    /\ UNCHANGED <<flash, version, area, table, pc, req, block, locals, faults, hist>>

FlushBegin ==
    /\ pc = "idle"
    /\ pc' = "fl_start"
    /\ UNCHANGED <<flash, version, area, table, req, block, locals, ret, faults, hist>>

\* Erase the info sectors (l.194-195) ...
FlushEraseInfo ==
    /\ pc = "fl_start"
    /\ ~DataInSameSector
    /\ flash' = EraseFrom(InfoSector)
    /\ \E q \in Orders : BeginLoop(q)
    /\ UNCHANGED <<version, table, req, block, ret, faults, hist>>

\* ... saving the cells below p_info if data reaches into them (l.197-203);
\* data_buf is kept in read_buf, which is not in use yet.
FlushEraseShared ==
    /\ pc = "fl_start"
    /\ DataInSameSector
    /\ flash' = EraseFrom(InfoSector)
    /\ read_buf' = ReadCells(flash, InfoSector, p_info % EraseSize)
    /\ pc' = "fl_restore"
    /\ UNCHANGED <<version, area, table, req, block, order, i, count, head, tail,
                   ret, faults, hist>>

\* Write data_buf back (l.204).
FlushRestore ==
    /\ pc = "fl_restore"
    /\ flash' = Program(flash, InfoSector, read_buf)
    /\ \E q \in Orders : BeginLoop(q)
    /\ UNCHANGED <<version, table, req, block, ret, faults, hist>>

\* One turn of the read loop (l.291-302).
FlushRead ==
    /\ pc = "fl_read"
    /\ read_buf' = read_buf \o ReadCells(flash, Entry(i).data_addr, Entry(i).length)
    /\ tail' = Entry(i).data_addr + Entry(i).length
    /\ i' = i + 1
    /\ pc' = IF Len(read_buf') >= EraseSize \/ i' = validNum THEN "fl_erase" ELSE "fl_read"
    /\ UNCHANGED <<flash, version, area, table, req, block, order, count, head, ret, faults, hist>>

\* One turn of the erase loop (l.306-311).
EraseHeadTooLate ==
    /\ head' = head + EraseSize
    /\ flash' = EraseRange(flash, head', EraseSize)
EraseHead ==
    /\ flash' = EraseRange(flash, head, EraseSize)
    /\ head' = head + EraseSize
FlushErase ==
    /\ pc = "fl_erase"
    /\ EraseHead
    /\ IF head' + EraseSize <= tail
         THEN pc' = "fl_erase" /\ UNCHANGED tail
         ELSE pc' = "fl_back" /\ tail' = head'
    /\ UNCHANGED <<version, area, table, req, block, order, i, count, read_buf, ret, faults, hist>>

\* The write-back loop stops (l.313-317); the next turn of the outer loop
\* starts, or the loop ends (l.288-289).
FlushSuspend ==
    /\ pc = "fl_back"
    /\ \/ count = i
       \/ \E len \in EntryLengths(i) : p_data + len >= tail
    /\ IF i < validNum
         THEN pc' = "fl_read" /\ head' = tail
         ELSE pc' = "fl_tail" /\ UNCHANGED head
    /\ UNCHANGED <<flash, version, area, table, req, block, order, i, count, tail, read_buf,
                   ret, faults, hist>>

\* Take entry count out of the buffer and write it: the data (l.319-321).
BufCells(len) ==
    [k \in 1 .. len |-> IF k <= Len(read_buf) THEN read_buf[k] ELSE Mixed]
TakeEntry ==
    /\ read_buf' = SubSeq(read_buf, Entry(count).length + 1, Len(read_buf))
    /\ UNCHANGED <<order, i, head, tail>>
    /\ IF PrivateFits(Entry(count).length)
         THEN /\ PrivateData(order[count + 1], BufCells(Entry(count).length))
              /\ UNCHANGED count
         ELSE /\ count' = count + 1
              /\ UNCHANGED <<flash, area, block>>

FlushBackData ==
    /\ pc = "fl_back"
    /\ count < i
    /\ \E len \in EntryLengths(i) : p_data + len < tail
    /\ TakeEntry
    /\ pc' = IF PrivateFits(Entry(count).length) THEN "wb_info" ELSE "fl_back"
    /\ UNCHANGED <<version, table, req, ret, faults, hist>>

FlushBackInfo ==
    /\ pc = "wb_info"
    /\ PrivateInfo
    /\ count' = count + 1
    /\ pc' = "fl_back"
    /\ UNCHANGED <<version, req, block, order, i, head, tail, read_buf, ret, faults, hist>>

\* Erase the sectors between the data and the info blocks (l.331-334).
EraseTailInPlace ==
    /\ flash' = EraseRange(flash, tail, EraseSize)
    /\ tail' = tail
EraseTailTooLate ==
    /\ tail' = tail + EraseSize
    /\ flash' = EraseRange(flash, tail', EraseSize)
EraseTail ==
    /\ flash' = EraseRange(flash, tail, EraseSize)
    /\ tail' = tail + EraseSize
FlushEraseTail ==
    /\ pc = "fl_tail"
    /\ tail < p_info - EraseSize
    /\ EraseTail
    /\ UNCHANGED <<version, area, table, pc, req, block, order, i, count, head, read_buf,
                   ret, faults, hist>>

FlushTailDone ==
    /\ pc = "fl_tail"
    /\ tail >= p_info - EraseSize
    /\ pc' = IF read_buf = << >> THEN "fl_cfg" ELSE "fl_rest"
    /\ UNCHANGED <<flash, version, area, table, req, block, locals, ret, faults, hist>>

\* Write back what is left in the buffer (l.337-344).
RestPc == IF read_buf' = << >> THEN "fl_cfg" ELSE "fl_rest"

FlushRestData ==
    /\ pc = "fl_rest"
    /\ count < validNum
    /\ TakeEntry
    /\ pc' = IF PrivateFits(Entry(count).length) THEN "rw_info" ELSE RestPc
    /\ UNCHANGED <<version, table, req, ret, faults, hist>>

FlushRestInfo ==
    /\ pc = "rw_info"
    /\ PrivateInfo
    /\ count' = count + 1
    /\ UNCHANGED <<order, i, head, tail, read_buf>>
    /\ pc' = RestPc
    /\ UNCHANGED <<version, req, block, ret, faults, hist>>

\* e2p_config_info, and the return to the caller (l.346-347, l.354-357).
WriteFitsNever == Len(req.cells) = 0
WriteFitsNow   == PrivateFits(Len(req.cells))
FlushConfigInfo ==
    /\ pc = "fl_cfg"
    /\ flash' = Program(flash, AreaSize - BLK, InfoCells(VersionBlk(version)))
    /\ IF req = NoReq
         THEN pc' = "idle" /\ Return("flush", "ok") /\ UNCHANGED req
         ELSE IF WriteFitsNow
                THEN pc' = "wr_data" /\ UNCHANGED <<req, ret>>
                ELSE pc' = "idle" /\ Return("write", "no_mem") /\ req' = NoReq
    /\ UNCHANGED <<version, area, table, block, locals, faults, hist>>

-----------------------------------------------------------------------------
(* e2p_format, e2p_config on a running system, and faults *)

\* e2p_format erases everything and leaves e2p_t and the table alone; the
\* callers (samples/eeprom_emulation/perf/main.c) configure again after it.
\* It is also the way out for an application that heeds a refused e2p_config.
Format ==
    /\ pc \in {"idle", "off"}
    /\ flash' = EraseRange(flash, 0, AreaSize)
    /\ pc' = "off"
    /\ acked' = Empty
    /\ UNCHANGED <<version, area, table, req, block, locals, ret, faults, dirty>>

\* The application restarts, or configures once more, between two calls.
Restart ==
    /\ pc = "idle"
    /\ pc' = "off"
    /\ UNCHANGED <<flash, version, area, table, req, block, locals, ret, faults, hist>>

\* The flash call a step is about to make, broken off after n cells.
TornFlash(n) ==
    IF pc = "wr_data" THEN Program(flash, p_data, SubSeq(req.cells, 1, n))
    ELSE IF pc = "wr_info" THEN Program(flash, p_info, SubSeq(InfoCells(block), 1, n))
    ELSE flash
CallLen == IF pc = "wr_data" THEN Len(req.cells) ELSE IF pc = "wr_info" THEN BLK ELSE 0

Fault ==
    /\ pc \in FaultAt
    /\ faults < MaxFaults
    /\ faults' = faults + 1
    /\ \E n \in 0 .. CallLen : flash' = TornFlash(n)
    /\ dirty' = dirty \cup {req.id}
    /\ req' = NoReq

\* The power fails: the e2p_t, the table and the stack are lost.
PowerLoss ==
    /\ Fault
    /\ pc' = "off"
    /\ UNCHANGED <<version, area, table, block, locals, ret, acked>>

\* flash_write reports an error (l.127-130, l.134-137).
WriteFails ==
    /\ Fault
    /\ pc' = "idle"
    /\ Return("write", "error")
    /\ UNCHANGED <<version, area, table, block, locals, acked>>

-----------------------------------------------------------------------------
Init ==
    /\ flash \in {[a \in Addr |-> Erased], [a \in Addr |-> Mixed]}
    /\ version \in Version
    /\ p_data = 0 /\ p_info = FirstInfo /\ remain_size = FirstInfo
    /\ table = [id \in Id |-> Blank]
    /\ pc = "off"
    /\ req = NoReq
    /\ block = Blank
    /\ order = << >> /\ i = 0 /\ count = 0 /\ head = 0 /\ tail = 0 /\ read_buf = << >>
    /\ ret = [api |-> "none", st |-> "ok"]
    /\ faults = 0
    /\ acked = Empty /\ dirty = {}

\* What a call of the interface does once it is made.
Step ==
    \/ ConfigErase \/ ConfigInfo \/ ScanEnd \/ ScanBlock
    \/ WriteData \/ WriteInfo
    \/ FlushEraseInfo \/ FlushEraseShared \/ FlushRestore
    \/ FlushRead \/ FlushErase \/ FlushSuspend \/ FlushBackData \/ FlushBackInfo
    \/ FlushEraseTail \/ FlushTailDone \/ FlushRestData \/ FlushRestInfo \/ FlushConfigInfo

\* The calls of the application.
Call ==
    \/ \E v \in Version : Config(v)
    \/ \E id \in Id, v \in Val, len \in Lengths : Write(id, Payload(v, len))
    \/ FlushTry \/ FlushBegin
    \/ Format \/ Restart

Next == Step \/ Call

\* Beside it, what a fault brings about, at once or at a later restart.
FaultyNext == Next \/ PowerLoss \/ WriteFails \/ ScanTorn

\* A call that was made is carried on: the code has no other thread to wait for.
Fairness == WF_vars(Step)

Spec       == Init /\ [][Next]_vars
FairSpec   == Spec /\ Fairness
FaultySpec == Init /\ [][FaultyNext]_vars

-----------------------------------------------------------------------------
(* Properties *)

Pcs == {"off", "idle", "wild", "cfg_scan", "cfg_erase", "cfg_info", "wr_data", "wr_info",
        "fl_start", "fl_restore", "fl_read", "fl_erase", "fl_back", "wb_info", "fl_tail",
        "fl_rest", "rw_info", "fl_cfg"}

\* What may stand in a byte of data, in an info block and in a cell.
Byte == {Erased, Mixed} \cup [kind : {"data"}, val : Val, off : Nat]
Blk  == [block_id : Id \cup Version \cup {NoId}, data_addr : Nat, length : Nat, crc : Seq(Byte)]
Cell == Byte \cup [kind : {"info"}, blk : Blk, part : Nat]

\* The type invariant.  The unsigned counters of e2p_t are natural numbers:
\* they never wrap below zero (l.131-139, l.253-255).
TypeOK ==
    /\ flash \in [Addr -> Cell]
    /\ version \in Version
    /\ p_data \in Nat /\ p_info \in Nat /\ remain_size \in Nat
    /\ table \in [Id -> Blk]
    /\ pc \in Pcs
    /\ req \in [id : Id, cells : Seq(Byte)] \cup {NoReq}
    /\ block \in Blk
    /\ order \in Seq(Id)
    /\ i \in 0 .. Len(order) /\ count \in Nat /\ head \in Nat /\ tail \in Nat
    /\ read_buf \in Seq(Cell)
    /\ faults \in Nat
    /\ acked \in [Id -> Seq(Byte)] /\ dirty \subseteq Id \cup {NoId}

\* The cells e2p_write_private has still to pay for: between its two flash
\* writes (l.127-139) the info block is not yet taken from remain_size.
Pending == IF pc \in {"wr_info", "wb_info", "rw_info"} THEN BLK ELSE 0

\* Data and info blocks never meet: remain_size is exactly the gap between
\* p_data and p_info, and an info write that is due has its room (l.116-139).
LayoutOK ==
    /\ 0 <= p_data
    /\ p_info <= FirstInfo
    /\ remain_size = p_info - p_data
    /\ remain_size >= Pending

\* The values a read returns between two calls are the ones last written with
\* success, through flushes, restarts and version changes (e2p_read l.363).
ReadsLatest ==
    pc = "idle" =>
        \A id \in Id :
            LET r == E2pRead(id, AreaSize) IN
            IF acked[id] = << >> THEN r.st = "bad_id"
            ELSE r.st = "ok" /\ r.data = acked[id]

\* What LayoutOK needs to be inductive: e2p_write and the flush have checked
\* the room of the write they are about to make (l.116, l.352-354), and the
\* flush reads only entries that are in the table (l.288, l.292).
FlowOK ==
    /\ pc = "wr_data" => req # NoReq /\ PrivateFits(Len(req.cells))
    /\ pc = "fl_read" => i < Len(order)

\* What the next write will program is erased: a byte that is not would be
\* ANDed with the new one, and the write would still return OK (l.127).
FreeSpaceErased ==
    pc \in {"idle", "wr_data"} =>
        \A a \in p_data .. p_info + BLK - 1 : flash[a] = Erased

\* read_buf of 2 * erase_size is never overrun (l.284, l.296).
ReadBufFits == pc # "fl_restore" => Len(read_buf) <= 2 * EraseSize

\* Without a fault the scan of e2p_config never meets a slot that no
\* e2p_write_private wrote, nor one whose block is longer than the space the
\* scan has left: p_data stays below p_info (l.241-255).
ScanMeetsWhole == pc = "cfg_scan" => SlotErased(p_info) \/ SlotWhole(p_info)

\* No cell is programmed a second time with another content before it is
\* erased, in writes and in flushes (flash_write l.82, 127, 134, 204).
NeverReprograms ==
    [][\A a \in Addr : flash'[a] = Mixed => flash[a] = Mixed]_vars

\* A flush leaves one block per variable and nothing else: the data of the
\* variables lies side by side, with no byte between or in two of them, from
\* the start of the area up to p_data, and the rest is erased (header l.128).
Extent(id) == table[id].data_addr .. table[id].data_addr + table[id].length - 1
FlushCompacts ==
    [][pc = "fl_cfg" =>
          /\ UNION {Extent(id) : id \in Known} = 0 .. p_data - 1
          /\ \A id, other \in Known : id # other => Extent(id) \cap Extent(other) = {}
          /\ FirstInfo - p_info = BLK * Cardinality(Known)
          /\ \A a \in p_data .. p_info + BLK - 1 : flash[a] = Erased]_vars

\* The flush keeps the latest data: what a read returned before it, it still
\* returns after it (docs/en/sdk/samples/eeprom_emulation/base/README.md l.28).
FlushKeepsLatest ==
    [][pc = "fl_cfg" =>
          \A id \in Id : acked[id] # << >> =>
              /\ E2pRead(id, AreaSize).st = "ok"
              /\ E2pRead(id, AreaSize).data = acked[id]]_vars

\* Every call of the interface comes back: none of the loops of e2p_config
\* and e2p_flush (l.241, 288-334, 337) runs for ever.
CallReturns == (pc \notin {"idle", "off"}) ~> (pc \in {"idle", "off"})

\* The emulation is a key-value store: between two calls the map is what the
\* reads return; while a call runs it is what was there when it was made.
\* Used by KVStore's RefuseRoom, the refinement also says that e2p_write
\* returns NO_MEM (l.354) only if the latest values alone leave no room.
Visible(id) == LET r == E2pRead(id, AreaSize) IN
               IF r.st = "bad_id" THEN << >> ELSE r.data
Store == INSTANCE KVStore WITH
             kv <- IF pc = "idle" THEN [id \in Id |-> Visible(id)] ELSE acked,
             Room <- FirstInfo, PerValue <- BLK
RefinesKVStore == Store!KVSpec
=============================================================================
