------------------------------ MODULE SerialNor ------------------------------
(***************************************************************************)
(* The serial NOR driver of components/serial_nor: hpm_serial_nor.c over   *)
(* the SPI host of interface/spi/hpm_serial_nor_host_spi.c, and the flash  *)
(* device they command.                                                    *)
(*                                                                         *)
(* One transfer of the host is one command to the device: code, address    *)
(* and data, ended by the chip select.  The device hears a program or      *)
(* erase command only when it is not busy and its write enable latch is    *)
(* set; it is then busy until the cells have changed.                      *)
(***************************************************************************)
EXTENDS NorFlash

CONSTANTS
    Size, Page, Sector, Block,   \* of the flash, in cells
    TransferMax,   \* host_param.param.transfer_max_size
    Starts, Lens,  \* bound: the addresses and lengths of the calls that take any
    Crossing,      \* may a page program cross the end of its page
    Requirements,  \* quad_enable_requirement of the devices that may be there
    CsAuto,        \* is the chip select driven by the SPI
    Cached,        \* is the data cache on
    MaxFaults,     \* bound: transfers that fail
    Idle, Ready    \* no call, a device that is not busy

Addr == 0 .. Size - 1

Ops == {"program", "page_program_noblocking", "erase", "erase_sector", "erase_block",
        "erase_sector_noblocking", "erase_block_noblocking", "erase_chip", "read"}
Noblocking == {"page_program_noblocking", "erase_sector_noblocking", "erase_block_noblocking"}
Programs   == {"program", "page_program_noblocking"}

ASSUME SizeAssumption ==
    /\ Size \in Nat \ {0} /\ Page \in Nat \ {0} /\ Sector \in Nat \ {0} /\ Block \in Nat \ {0}
    /\ Sector % Page = 0 /\ Block % Sector = 0 /\ Size % Block = 0
    /\ TransferMax \in Nat /\ TransferMax >= Page
ASSUME CallAssumption ==
    /\ Starts \subseteq Addr /\ Lens \subseteq Nat \ {0}
    /\ Crossing \in BOOLEAN /\ CsAuto \in BOOLEAN /\ Cached \in BOOLEAN /\ MaxFaults \in Nat

\* What a cell can hold, and what a device can be busy with.
Cell     == {Erased, Mixed} \cup [kind : {"data"}, val : Programs, off : 1 .. Size]
Commands == [kind : {"status"}]
            \cup [kind : {"erase"}, a : Addr, size : 1 .. Size]
            \cup [kind : {"program"}, a : Addr, data : Seq(Cell)]
ASSUME ReadyAssumption == Ready \notin Commands

\* The calls of the interface, within the flash and aligned as it asks.
Anywhere == {"program", "page_program_noblocking", "erase", "read"}
Aligned(op) == CASE op \in {"erase_sector", "erase_sector_noblocking"} -> Sector
                 [] op \in {"erase_block", "erase_block_noblocking"}   -> Block
                 [] OTHER -> Size
Calls == {c \in [op : Anywhere, a : Starts, len : Lens] :
              /\ c.a + c.len <= Size
              /\ c.op = "page_program_noblocking" /\ ~Crossing => (c.a % Page) + c.len <= Page}
         \cup {c \in [op : Ops \ Anywhere, a : Addr, len : {Sector, Block, Size}] :
                   c.len = Aligned(c.op) /\ c.a % Aligned(c.op) = 0}
ASSUME IdleAssumption == Idle \notin Calls

VARIABLES
    mem, wel, busy, qe,   \* the device: cells, write enable latch, command under way, quad enable bit
    requirement,          \* ... and what its SFDP table says of that bit
    selected,             \* the chip select was left active, the device goes on sending data
    pc, call,             \* the driver
    addr, left,           \* its address and remaining length
    quad,                 \* SERIAL_NOR_HOST_SUPPORT_QUAD_IO_MODE
    buf, line,            \* the read buffer in memory, and what the cache holds of it
    result,               \* what the last call returned
    before,               \* history: the flash when the call was made
    faults                \* history: transfers that have failed

device == <<mem, wel, busy, qe, requirement>>
work   == <<addr, left, buf>>
vars   == <<device, selected, pc, call, work, quad, line, result, before, faults>>
-----------------------------------------------------------------------------
\* THE DEVICE

\* A page program wraps at the end of its page.
PageProgram(cells, a, data) ==
    LET At(k) == a - (a % Page) + ((a + k - 1) % Page) IN
    [x \in Addr |-> IF \E k \in DOMAIN data : At(k) = x
                    THEN Nor(cells[x], data[CHOOSE k \in DOMAIN data : At(k) = x])
                    ELSE cells[x]]

\* The cells after the command the device is busy with; an erase clears the
\* sector or block around the address.
Settled ==
    IF busy = Ready THEN mem
    ELSE CASE busy.kind = "program" -> PageProgram(mem, busy.a, busy.data)
           [] busy.kind = "erase"   -> EraseRange(mem, busy.a - (busy.a % busy.size), busy.size)
           [] OTHER                 -> mem

Completes ==
    /\ busy # Ready
    /\ mem' = Settled
    /\ busy' = Ready /\ wel' = FALSE
    /\ UNCHANGED <<qe, requirement, selected, pc, call, work, quad, line, result, before, faults>>

Hears == busy = Ready /\ ~selected

\* A command that changes cells.
Obeys(command) ==
    /\ busy' = IF Hears /\ wel THEN command ELSE busy
    /\ UNCHANGED <<mem, wel, qe, requirement>>
-----------------------------------------------------------------------------
\* THE DRIVER

Fault == faults < MaxFaults /\ faults' = faults + 1
Sound == UNCHANGED faults

Return(stat, data) ==
    /\ pc' = "idle" /\ call' = Idle
    /\ result' = [stat |-> stat, data |-> data]
    /\ UNCHANGED <<work, quad, before>>

\* prepare_quad_mode_enable_sequence (l.401-515), as far as the quad enable
\* bit goes; it is called only when the quad flag is set (l.1150).  The value
\* written for the bit 1 of status register 2 is shifted out of its byte
\* (l.483), and the write clears that register.
QuadWritten == requirement # "shifted"

QuadEnable ==
    /\ pc = "init" /\ Sound
    /\ IF qe \/ ~quad THEN UNCHANGED <<busy, qe>>
                      ELSE qe' = QuadWritten /\ busy' = [kind |-> "status"]
    /\ pc' = "idle"
    /\ UNCHANGED <<mem, wel, requirement, selected, call, work, quad, line, result, before>>

\* A status transfer fails during the initialisation: the quad flag goes.
QuadEnableFails ==
    /\ pc = "init" /\ Fault
    /\ quad' = FALSE
    /\ pc' = "idle"
    /\ UNCHANGED <<device, selected, call, work, line, result, before>>

\* The range a call works on: an erase takes whole sectors (mutant: its length
\* is that up to the end's address).
Down(a, n) == a - (a % n)
Start(c)   == IF c.op = "erase" THEN Down(c.a, Sector) ELSE c.a
InPage(c)  == IF c.len <= Page - (c.a % Page) THEN c.len ELSE Page - (c.a % Page)
LengthToEnd(c) == IF c.op = "page_program_noblocking" THEN InPage(c)
                  ELSE IF c.op = "erase" THEN Down(c.a + c.len + Sector - 1, Sector) ELSE c.len
Length(c) ==
    CASE c.op = "page_program_noblocking" -> InPage(c)
      [] c.op = "erase" -> Down(c.a + c.len + Sector - 1, Sector) - Start(c)
      [] OTHER          -> c.len

Pending == [stat |-> "pending", data |-> << >>]

\* The caller makes a call.  It has polled hpm_serial_nor_is_busy before one
\* that does not wait for the device (hpm_serial_nor.h l.65, l.87).
Polled(c) == c.op \in Noblocking \cup {"read"} => busy = Ready

Call(c) ==
    /\ pc = "idle" /\ Polled(c)
    /\ call' = c /\ addr' = Start(c) /\ left' = Length(c) /\ buf' = << >>
    /\ pc' = IF c.op = "read" THEN "read" ELSE IF c.op \in Noblocking THEN "enable" ELSE "wait"
    /\ before' = Settled /\ result' = Pending
    /\ UNCHANGED <<device, selected, quad, line, faults>>

\* The next command, and how far it reaches.  A page program ends at the end
\* of its page (mutant: a page's length from wherever it is), a block erase
\* is for a whole aligned block.  (RoomBefore is a mutant: up to the last cell.)
Erases      == IF addr % Block # 0 \/ left < Block THEN Sector ELSE Block
RoomBefore  == Page - 1 - (addr % Page)
Room        == Page - (addr % Page)
PieceAcross == CASE call.op \in Programs -> IF left <= Page THEN left ELSE Page
                 [] call.op = "erase"    -> Erases
                 [] OTHER                -> left
Piece == CASE call.op \in Programs -> IF left <= Room THEN left ELSE Room
           [] call.op = "erase"    -> Erases
           [] OTHER                -> left

\* The source of the data: cell k of the caller's buffer.
Data(c, first, n) == [k \in 1 .. n |-> DataCell(c.op, first - c.a + k)]
OnTheWire(data) == IF quad /\ ~qe THEN [k \in DOMAIN data |-> Mixed] ELSE data

Command(n) ==
    IF call.op \in Programs
    THEN [kind |-> "program", a |-> addr, data |-> OnTheWire(Data(call, addr, n))]
    ELSE [kind |-> "erase", a |-> addr, size |-> Piece]

\* hpm_serial_nor_is_busy, in the loops before and after a command: a device
\* that is still selected sends anything.
Status == IF selected THEN BOOLEAN ELSE {busy # Ready}

PollBusy ==
    /\ pc \in {"wait", "settle"} /\ Sound
    /\ TRUE \in Status
    /\ selected' = FALSE
    /\ UNCHANGED <<device, pc, call, work, quad, line, result, before>>

\* A mutant looks once and goes on.
PollBeforeOnce ==
    /\ pc = "wait" /\ Sound
    /\ selected' = FALSE
    /\ pc' = "enable"
    /\ UNCHANGED <<device, call, work, quad, line, result, before>>

PollBefore ==
    /\ pc = "wait" /\ Sound
    /\ FALSE \in Status
    /\ selected' = FALSE
    /\ pc' = "enable"
    /\ UNCHANGED <<device, call, work, quad, line, result, before>>

\* The command is over: on to the next one, which for an erase begins with a
\* wait of its own.
PollAfter ==
    /\ pc = "settle" /\ Sound
    /\ FALSE \in Status
    /\ selected' = FALSE
    /\ IF left = Piece
       THEN Return("success", << >>)
       ELSE /\ addr' = addr + Piece /\ left' = left - Piece
            /\ pc' = IF call.op = "erase" THEN "wait" ELSE "enable"
            /\ UNCHANGED <<call, buf, quad, result, before>>
    /\ UNCHANGED <<device, line>>

\* A read of the host that fails leaves the chip select active (l.352).
PollFails ==
    /\ pc \in {"wait", "settle"} /\ Fault
    /\ selected' = ~CsAuto
    /\ Return("error", << >>)
    /\ UNCHANGED <<device, line>>

\* hpm_serial_nor_write_enable.
WriteEnable ==
    /\ pc = "enable" /\ Sound
    /\ wel' = (wel \/ Hears)
    /\ selected' = FALSE
    /\ pc' = "command"
    /\ UNCHANGED <<mem, busy, qe, requirement, call, work, quad, line, result, before>>

WriteEnableFails ==
    /\ pc = "enable" /\ Fault
    /\ wel' \in {wel, wel \/ Hears}
    /\ selected' = FALSE
    /\ Return("error", << >>)
    /\ UNCHANGED <<mem, busy, qe, requirement, line>>

\* The program or erase command.
SendCommand ==
    /\ pc = "command" /\ Sound
    /\ Obeys(Command(Piece))
    /\ selected' = FALSE
    /\ IF call.op \in Noblocking
       THEN Return("success", << >>)
       ELSE pc' = "settle" /\ UNCHANGED <<call, work, quad, result, before>>
    /\ UNCHANGED line

\* A transfer that times out has reached the device as a whole, not at all,
\* or, for a program, with the first n cells.
SendCommandFails ==
    /\ pc = "command" /\ Fault
    /\ \/ UNCHANGED device
       \/ \E n \in IF call.op \in Programs THEN 1 .. Piece ELSE {Piece} : Obeys(Command(n))
    /\ selected' = FALSE
    /\ Return("error", << >>)
    /\ UNCHANGED line
-----------------------------------------------------------------------------
\* hpm_serial_nor_read: the host reads in pieces of transfer_max_size.
Chunk == IF left <= TransferMax THEN left ELSE TransferMax
Sent(n) == IF Hears /\ (quad => qe) THEN ReadCells(mem, addr, n) ELSE [k \in 1 .. n |-> Mixed]

\* What the caller finds in the buffer.  The range that is invalidated ends
\* at the size of the transfer, not of the buffer (l.356), and is empty: lines
\* the cache holds of the buffer stay.
Invalidated(cells) == cells
Seen(data) == [k \in DOMAIN data |-> IF k \in DOMAIN Invalidated(line)
                                     THEN Invalidated(line)[k] ELSE data[k]]

ReadChunk ==
    /\ pc = "read" /\ Sound
    /\ selected' = FALSE
    /\ LET data == buf \o Sent(Chunk) IN
       IF left = Chunk
       THEN /\ Return("success", Seen(data))
            /\ line' = IF Cached THEN Seen(data) \o SubSeq(line, Len(data) + 1, Len(line))
                                 ELSE << >>
       ELSE /\ buf' = data /\ addr' = addr + Chunk /\ left' = left - Chunk
            /\ UNCHANGED <<pc, call, quad, line, result, before>>
    /\ UNCHANGED device

ReadFails ==
    /\ pc = "read" /\ Fault
    /\ selected' = ~CsAuto
    /\ Return("error", << >>)
    /\ UNCHANGED <<device, line>>
-----------------------------------------------------------------------------
Init ==
    /\ mem = [x \in Addr |-> Erased]
    /\ wel = FALSE /\ busy = Ready /\ selected = FALSE
    /\ requirement \in Requirements /\ qe \in {requirement = "none", TRUE}
    /\ pc = "init" /\ call = Idle
    /\ addr = 0 /\ left = 0 /\ buf = << >> /\ line = << >>
    /\ quad \in BOOLEAN
    /\ result = Pending
    /\ before = mem
    /\ faults = 0

Driver == \/ QuadEnable \/ PollBusy \/ PollBefore \/ PollAfter
          \/ WriteEnable \/ SendCommand \/ ReadChunk

Failing == \/ QuadEnableFails \/ PollFails \/ WriteEnableFails
           \/ SendCommandFails \/ ReadFails

Next == Completes \/ Driver \/ Failing \/ \E c \in Calls : Call(c)

Spec == Init /\ [][Next]_vars

\* The device comes to the end of what it does, and the driver runs.
FairSpec == Spec /\ WF_vars(Completes) /\ WF_vars(Driver)
-----------------------------------------------------------------------------
\* PROPERTIES

\* The type invariant of device and driver.
TypeOK ==
    /\ mem \in [Addr -> Cell] /\ before \in [Addr -> Cell]
    /\ busy \in Commands \cup {Ready}
    /\ wel \in BOOLEAN /\ qe \in BOOLEAN /\ selected \in BOOLEAN /\ quad \in BOOLEAN
    /\ requirement \in Requirements
    /\ pc \in {"init", "idle", "wait", "settle", "enable", "command", "read"}
    /\ call \in Calls \cup {Idle}
    /\ addr \in Addr /\ left \in 0 .. Size
    /\ faults \in 0 .. MaxFaults

\* No command is lost on a device that is busy or not write enabled: the
\* driver does not look, and would report success (hpm_serial_nor.c l.983,
\* l.1090).
CommandsHeard == pc = "command" => Hears /\ wel

\* A call's effect on the whole flash, from its arguments alone.
Touched(c) == {x \in Addr : \E y \in c.a .. c.a + c.len - 1 : x \div Sector = y \div Sector}
Effect(cells, c) ==
    CASE c.op \in Programs -> Program(cells, c.a, Data(c, c.a, c.len))
      [] c.op = "read"     -> cells
      [] OTHER             -> [x \in Addr |-> IF x \in Touched(c) THEN Erased ELSE cells[x]]
Covers(c) == CASE c.op \in Programs -> c.a .. c.a + c.len - 1
               [] c.op = "read"     -> {}
               [] OTHER             -> Touched(c)

\* The driver implements the flash it promises: whatever the lengths and the
\* alignment, over pages, sectors, blocks and transfers, with transfers that
\* fail, a call that succeeds has had exactly its effect or read what is
\* there, and one that fails has touched nothing else.
Store == INSTANCE NorStore WITH flash <- IF call = Idle THEN Settled ELSE before
RefinesStore == Store!Spec

\* Every call returns: neither the polls nor the loops over pages, sectors and
\* transfers go on for ever (hpm_serial_nor.c l.904-1026).
CallReturns == call # Idle ~> call = Idle

\* "read the data of specified serial nor flash address ... status_success if
\* read success" (hpm_serial_nor.h l.130-135): step by step, a read that
\* succeeds returns what the flash holds.
ReadsFlash == [][call # Idle /\ call.op = "read" /\ call' = Idle /\ result'.stat = "success"
                 => result'.data = ReadCells(mem, call.a, call.len)]_vars
=============================================================================
