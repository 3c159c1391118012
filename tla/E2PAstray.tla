------------------------------ MODULE E2PAstray ------------------------------
(***************************************************************************)
(* The EEPROM emulation behind an error of e2p_config or a torn block.     *)
(*                                                                         *)
(* E2P ends where the scan of e2p_config meets a slot that no single       *)
(* e2p_write_private wrote.  The code stops nowhere: it takes whatever id  *)
(* and length the programmed bits say, moves the pointers by them (the     *)
(* unsigned remain_size may wrap), scans on, and serves the calls made     *)
(* after it.  This module adds that step.  It also follows an application  *)
(* that goes on after e2p_config returned an error, as both SDK samples    *)
(* do: the blocks below the place where the scan ended stay unread.        *)
(*                                                                         *)
(* Assumptions: a flash_write that breaks off has programmed whole words   *)
(* from the block's first one on; an id read from bits that are nobody's   *)
(* takes no entry of the table; the memory below the area and the bytes    *)
(* behind read_buf are not modelled: behaviours end where they would be    *)
(* touched.                                                                *)
(***************************************************************************)
EXTENDS E2P

CONSTANTS
    Wrap,        \* 2^32, the range of remain_size
    MaxAstray    \* bound on the calls made on a store gone astray

VARIABLES
    astray,      \* 0: nothing went wrong yet; k + 1: k calls were begun since
    unread       \* the ids whose blocks the last e2p_config did not reach

varsA == <<vars, astray, unread>>

-----------------------------------------------------------------------------
\* What e2p_config reads from the slot at a (l.242-245): a whole block; one
\* whose write broke off behind its id, its address or its length; or bits of
\* several blocks or of data.
TornBlocks(b) ==
    {Block(b.block_id, MagicAddr, BlankLen, << >>),
     Block(b.block_id, b.data_addr, BlankLen, << >>),
     Block(b.block_id, b.data_addr, b.length, << >>)}
JunkBlocks ==
    {Block(id, MagicAddr, len, << >>) : id \in Id \cup {NoId}, len \in Lengths \cup {BlankLen}}
BrokenOff(a) ==
    /\ flash[a].kind = "info" /\ flash[a].part = 1
    /\ \A n \in 2 .. BLK : flash[a + n - 1] \in {Erased, InfoCell(SlotBlock(a), n)}
SlotSays(a) ==
    IF ~SlotTorn(a) THEN {SlotBlock(a)}
    ELSE IF BrokenOff(a) THEN TornBlocks(SlotBlock(a))
    ELSE JunkBlocks

\* The scan goes on with such a block as with any other (l.249-260).
TornAdvance(b) ==
    /\ p_data' = p_data + b.length
    /\ p_info' = p_info - BLK
    /\ remain_size' = (remain_size - (b.length + BLK)) % Wrap
ScanTakesTorn ==
    /\ pc = "wild"
    /\ \E b \in SlotSays(p_info) :
         IF b.block_id \in Id /\ ~TableRoom(b.block_id)
           THEN Refuse("mul_var") /\ UNCHANGED <<area, table>>
           ELSE /\ table' = IF b.block_id \in Id THEN TableUpdate(b) ELSE table
                /\ TornAdvance(b)
                /\ IF remain_size' < 2 * BLK
                     THEN Refuse("no_mem")
                     ELSE pc' = "cfg_scan" /\ UNCHANGED ret
    /\ UNCHANGED <<flash, version, req, block, locals, faults, hist>>

-----------------------------------------------------------------------------
\* e2p_config returns an error (l.251, l.259); the application does not heed it.
Unheeded == pc \in {"cfg_scan", "wild"} /\ pc' = "idle" /\ ret'.st # "ok"

\* The ids of the blocks from the slot at p_info down.
BlocksBelow(top) ==
    {id \in Id : \E a \in Addr : /\ a < top
                                 /\ flash[a].kind = "info" /\ flash[a].blk.block_id = id}

CallBegins == pc = "idle" /\ pc' \notin {"idle", "off"}

\* Behind these the memory is no longer the area's or read_buf's (l.245, l.296).
InArea     == pc \in {"cfg_scan", "wild"} => p_info >= 0
InReadBuf  == pc = "fl_read" => Len(read_buf) + Entry(i).length <= 2 * EraseSize

\* The bound: MaxAstray - 1 calls, and restarts only until the first of them.
Bounded    == astray' <= MaxAstray /\ (astray > 1 => pc # "off")

InitA == Init /\ astray = 0 /\ unread = {}

NextA ==
    /\ InArea /\ InReadBuf
    /\ FaultyNext \/ ScanTakesTorn
    /\ astray' = IF astray = 0 THEN (IF pc' = "wild" \/ Unheeded THEN 1 ELSE 0)
                 ELSE IF CallBegins THEN astray + 1 ELSE astray
    /\ unread' = IF pc = "off" THEN {}
                 ELSE IF Unheeded THEN BlocksBelow(p_info' + BLK) ELSE unread
    /\ Bounded

SpecA == InitA /\ [][NextA]_varsA

-----------------------------------------------------------------------------
(* Properties *)

Latest(id) ==
    LET r == E2pRead(id, AreaSize) IN
    IF acked[id] = << >> THEN r.st = "bad_id"
    ELSE r.st = "ok" /\ r.data = acked[id]

\* A fault in a write costs no other variable its value: an id that has not
\* been written since the first fault reads its last value, after any number
\* of restarts and further writes, until an e2p_config meets the torn block
\* or returns an error (l.127-139, l.241-261).
SettledSurvive == astray = 0 /\ pc = "idle" => \A id \in Id \ dirty : Latest(id)

\* Nor does the scan that goes on behind the torn block, or ends at it, cost
\* the others theirs, nor the calls made on the store it leaves: an id whose
\* block that scan reached and that was not written since the fault reads its
\* last value, as long as no write was programmed over another (l.241-261).
LossContained ==
    pc = "idle" /\ (\A a \in Addr : flash[a] # Mixed) =>
        \A id \in Id \ (dirty \cup unread) : Latest(id)
=============================================================================
