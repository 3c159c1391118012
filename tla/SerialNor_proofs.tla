-------------------------- MODULE SerialNor_proofs --------------------------
(***************************************************************************)
(* Proofs about SerialNor, for every geometry of the flash, every length   *)
(* and alignment of the calls and any number of failing transfers.  They   *)
(* need the chip select driven by the SPI: with the one driven by a pin a  *)
(* failed read leaves the device selected and the claim is false.  The     *)
(* last part proves that the driver implements the flash of NorStore.      *)
(***************************************************************************)
EXTENDS SerialNor, Multiples, SequenceTheorems, TLAPS

\* Why a command is heard: the chip select is never left active, a driver
\* that has passed its poll knows the device is idle, and nothing makes the
\* device busy, which would take the write enable with it, before the command.
HearInv ==
    /\ selected = FALSE
    /\ pc \in {"enable", "command"} => busy = Ready
    /\ pc = "command" => wel = TRUE
-----------------------------------------------------------------------------
\* What the poll of a device that is not selected tells.
LEMMA StatusTells == ~selected /\ FALSE \in Status => busy = Ready
  BY DEF Status

LEMMA InitHear == Init => HearInv
  BY DEF Init, HearInv

LEMMA StepHear ==
    ASSUME CsAuto, HearInv, [Next]_vars
    PROVE  HearInv'
  <1> USE DEF HearInv
  <1>1. CASE Completes
    BY <1>1 DEF Completes
  <1>2. CASE QuadEnable
    BY <1>2 DEF QuadEnable
  <1>3. CASE PollBusy
    BY <1>3 DEF PollBusy, device
  <1>4. CASE PollBefore
    BY <1>4, StatusTells DEF PollBefore, device
  <1>5. CASE PollAfter
    <2>1. busy = Ready /\ UNCHANGED <<busy, wel>> /\ selected' = FALSE
      BY <1>5, StatusTells DEF PollAfter, device
    <2>2. pc' # "command"
      BY <1>5 DEF PollAfter, Return
    <2> QED BY <2>1, <2>2
  <1>6. CASE WriteEnable
    BY <1>6 DEF WriteEnable, Hears
  <1>7. CASE SendCommand
    <2>1. pc' \in {"idle", "settle"} /\ selected' = FALSE
      BY <1>7 DEF SendCommand, Return
    <2> QED BY <2>1
  <1>8. CASE ReadChunk
    <2>1. pc' \in {"idle", "read"} /\ selected' = FALSE
      BY <1>8 DEF ReadChunk, Return
    <2> QED BY <2>1
  <1>9. CASE QuadEnableFails
    BY <1>9 DEF QuadEnableFails
  <1>10. CASE PollFails \/ WriteEnableFails \/ SendCommandFails \/ ReadFails
    <2>1. pc' = "idle" /\ selected' = FALSE
      BY <1>10 DEF PollFails, WriteEnableFails, SendCommandFails, ReadFails, Return
    <2> QED BY <2>1
  <1>11. ASSUME NEW c \in Calls, Call(c) PROVE HearInv'
    <2>1. pc' \in {"read", "enable", "wait"} /\ UNCHANGED <<busy, selected>>
      BY <1>11 DEF Call, device
    <2>2. pc' = "enable" => busy = Ready
      BY <1>11 DEF Call, Polled
    <2> QED BY <2>1, <2>2
  <1>12. CASE UNCHANGED vars
    BY <1>12 DEF vars, device
  <1> QED BY <1>1, <1>2, <1>3, <1>4, <1>5, <1>6, <1>7, <1>8, <1>9, <1>10,
             <1>11, <1>12 DEF Next, Driver, Failing

\* No command is lost: whatever is called and whichever transfers fail, each
\* program and erase command finds the device idle and its write enable latch
\* set, so a call that reports success has been carried out
\* (hpm_serial_nor.c l.983, l.1090).
THEOREM CommandsAreHeard ==
    ASSUME CsAuto
    PROVE  Spec => []CommandsHeard
  <1>1. Init => HearInv
    BY InitHear
  <1>2. HearInv /\ [Next]_vars => HearInv'
    BY StepHear
  <1>3. HearInv => CommandsHeard
    BY DEF HearInv, CommandsHeard, Hears
  <1> QED BY <1>1, <1>2, <1>3, PTL DEF Spec
-----------------------------------------------------------------------------
\* What a read has in its buffer: the flash from its address up to where it
\* has got, of a device that has been idle all the time and is talked to in
\* a mode it is in.
Reading ==
    /\ call \in Calls /\ call.op = "read"
    /\ busy = Ready
    /\ addr \in Nat /\ addr >= call.a /\ addr < call.a + call.len
    /\ left = call.a + call.len - addr
    /\ buf = ReadCells(mem, call.a, addr - call.a)

ReadInv ==
    /\ selected = FALSE /\ line = << >>
    /\ requirement \in Requirements
    /\ pc # "init" => (quad => qe)
    /\ pc = "read" => Reading
    /\ pc # "read" => ~(call # Idle /\ call.op = "read")

LEMMA ReadCalls ==
    ASSUME NEW c \in Calls
    PROVE  c.op = "read" => c.a \in Nat /\ c.len \in Nat \ {0}
  <1>1. Starts \subseteq Nat /\ Lens \subseteq Nat \ {0}
    BY CallAssumption, SizeAssumption DEF Addr
  <1>2. c.op = "read" => c.op \notin Ops \ Anywhere
    BY DEF Ops, Anywhere
  <1> QED BY <1>1, <1>2 DEF Calls

\* Two reads that follow each other are one.
LEMMA ReadOn ==
    ASSUME NEW cells, NEW a \in Nat, NEW n \in Nat, NEW k \in Nat
    PROVE  ReadCells(cells, a, n) \o ReadCells(cells, a + n, k)
             = ReadCells(cells, a, n + k)
  <1> DEFINE S == {cells[x] : x \in DOMAIN cells} \cup {Mixed}
             r == ReadCells(cells, a, n)
             s == ReadCells(cells, a + n, k)
             t == ReadCells(cells, a, n + k)
  <1>1. r \in Seq(S) /\ Len(r) = n
    BY DEF ReadCells
  <1>2. s \in Seq(S) /\ Len(s) = k
    BY DEF ReadCells
  <1>3. t \in Seq(S) /\ Len(t) = n + k
    BY DEF ReadCells
  <1>4. r \o s \in Seq(S) /\ Len(r \o s) = n + k
    BY <1>1, <1>2, ConcatProperties
  <1>5. ASSUME NEW i \in 1 .. n + k PROVE (r \o s)[i] = t[i]
    <2>1. (r \o s)[i] = IF i <= Len(r) THEN r[i] ELSE s[i - Len(r)]
      BY <1>1, <1>2, <1>4, ConcatProperties
    <2>2. CASE i <= n
      <3>1. i \in 1 .. n BY <2>2
      <3> QED BY <2>1, <1>1, <3>1 DEF ReadCells
    <2>3. CASE i > n
      <3>1. i - n \in 1 .. k /\ (a + n) + (i - n) - 1 = a + i - 1 BY <2>3
      <3> QED BY <2>1, <1>1, <2>3, <3>1 DEF ReadCells
    <2>4. i <= n \/ i > n
      OBVIOUS
    <2> QED BY <2>2, <2>3, <2>4, Zenon
  <1> HIDE DEF S, r, s, t
  <1>6. Len(r \o s) = Len(t) /\ \A i \in 1 .. Len(r \o s) : (r \o s)[i] = t[i]
    BY <1>3, <1>4, <1>5
  <1>7. r \o s = t
    BY <1>3, <1>4, <1>6, SeqEqual
  <1> QED BY <1>7 DEF r, s, t

\* Nothing in the cache, nothing to be seen of it.
LEMMA SeesRead ==
    ASSUME line = << >>, NEW a, NEW n
    PROVE  Seen(ReadCells(mem, a, n)) = ReadCells(mem, a, n)
  BY DEF Seen, Invalidated, ReadCells

\* The next piece continues the buffer.
LEMMA NextPiece ==
    ASSUME ReadInv, pc = "read"
    PROVE  /\ Chunk \in Nat \ {0} /\ Chunk <= left
           /\ buf \o Sent(Chunk) = ReadCells(mem, call.a, addr + Chunk - call.a)
  <1>1. Reading /\ Hears /\ (quad => qe)
    BY DEF ReadInv, Reading, Hears
  <1>2. TransferMax \in Nat /\ TransferMax >= 1
    BY SizeAssumption
  <1>3. call.a \in Nat /\ call.len \in Nat
    BY <1>1, ReadCalls DEF Reading
  <1>4. left \in Nat \ {0} /\ addr \in Nat /\ addr - call.a \in Nat
    BY <1>1, <1>3 DEF Reading
  <1>5. Chunk \in Nat \ {0} /\ Chunk <= left
    BY <1>2, <1>4 DEF Chunk
  <1>6. PICK a \in Nat, n \in Nat, k \in Nat : a = call.a /\ n = addr - call.a /\ k = Chunk
    BY <1>3, <1>4, <1>5
  <1>7. buf = ReadCells(mem, a, n)
    BY <1>1, <1>6 DEF Reading
  <1>8. Sent(Chunk) = ReadCells(mem, a + n, k)
    <2>1. a + n = addr
      BY <1>3, <1>4, <1>6
    <2> QED BY <1>1, <1>6, <2>1 DEF Sent
  <1>9. buf \o Sent(Chunk) = ReadCells(mem, a, n + k)
    <2>1. ReadCells(mem, a, n) \o ReadCells(mem, a + n, k) = ReadCells(mem, a, n + k)
      BY ReadOn, Zenon
    <2> QED BY <1>7, <1>8, <2>1, Zenon
  <1>10. n + k = addr + Chunk - call.a
    BY <1>3, <1>4, <1>5, <1>6
  <1> QED BY <1>5, <1>6, <1>9, <1>10

\* A step that leaves a read alone keeps the invariant.
LEMMA ReadRests ==
    ASSUME ReadInv, selected' = FALSE, UNCHANGED <<line, requirement>>,
           pc' # "init" => (quad' => qe'),
           pc' # "read",
           pc # "read" \/ call' = Idle,
           call' \in {call, Idle}
    PROVE  ReadInv'
  BY DEF ReadInv

LEMMA InitRead == Init => ReadInv
  BY DEF Init, ReadInv

LEMMA CallRead ==
    ASSUME ReadInv, NEW c \in Calls, Call(c)
    PROVE  ReadInv'
  <1>1. selected' = FALSE /\ line' = << >> /\ requirement' \in Requirements /\ (quad' => qe')
    BY DEF Call, ReadInv, device
  <1>2. CASE c.op = "read"
    <2>1. c.a \in Nat /\ c.len \in Nat \ {0}
      BY <1>2, ReadCalls
    <2>2. call' = c /\ addr' = c.a /\ left' = c.len /\ pc' = "read"
      <3>1. Length(c) = c.len
        BY <1>2, Zenon DEF Length
      <3> QED BY <1>2, <3>1 DEF Call, Start
    <2>3. busy' = Ready /\ mem' = mem
      BY <1>2 DEF Call, Polled, device
    <2>4. buf' = ReadCells(mem', c.a, 0)
      BY DEF Call, ReadCells
    <2>5. Reading'
      BY <1>2, <2>1, <2>2, <2>3, <2>4 DEF Reading
    <2> QED BY <1>1, <2>2, <2>5 DEF ReadInv
  <1>3. CASE c.op # "read"
    BY <1>1, <1>3 DEF Call, ReadInv
  <1> QED BY <1>2, <1>3

LEMMA ChunkRead ==
    ASSUME ~Cached, ReadInv, ReadChunk
    PROVE  /\ ReadInv'
           /\ call # Idle /\ call' = Idle => result'.data = ReadCells(mem, call.a, call.len)
  <1>1. pc = "read" /\ Reading /\ selected' = FALSE /\ line = << >>
    BY DEF ReadChunk, ReadInv
  <1>2. UNCHANGED <<mem, busy, qe, quad, requirement>>
    BY DEF ReadChunk, Return, device
  <1>3. call.a \in Nat /\ call.len \in Nat /\ addr \in Nat /\ left \in Nat
    BY <1>1, ReadCalls DEF Reading
  <1>4. CASE left = Chunk
    <2>1. addr + Chunk - call.a = call.len
      BY <1>1, <1>3, <1>4 DEF Reading
    <2>2. result'.data = ReadCells(mem, call.a, call.len)
      <3>1. buf \o Sent(Chunk) = ReadCells(mem, call.a, call.len)
        BY <1>1, <2>1, NextPiece
      <3>2. result'.data = Seen(buf \o Sent(Chunk))
        BY <1>4 DEF ReadChunk, Return
      <3> QED BY <1>1, <3>1, <3>2, SeesRead
    <2>3. pc' = "idle" /\ call' = Idle /\ line' = << >>
      BY <1>4 DEF ReadChunk, Return
    <2> QED BY <1>1, <1>2, <2>2, <2>3 DEF ReadInv
  <1>5. CASE left # Chunk
    <2>1. /\ buf' = ReadCells(mem, call.a, addr + Chunk - call.a)
          /\ addr' = addr + Chunk /\ left' = left - Chunk
          /\ UNCHANGED <<pc, call, line>>
      BY <1>1, <1>5, NextPiece DEF ReadChunk
    <2>2. Chunk \in Nat \ {0} /\ Chunk < left
      BY <1>1, <1>3, <1>5, NextPiece
    <2>3. Reading'
      BY <1>1, <1>2, <1>3, <2>1, <2>2, SMTT(20) DEF Reading
    <2> QED BY <1>1, <1>2, <2>1, <2>3 DEF ReadInv
  <1> QED BY <1>4, <1>5

LEMMA StepRead ==
    ASSUME CsAuto, ~Cached, "shifted" \notin Requirements,
           ReadInv, [Next]_vars
    PROVE  ReadInv'
  <1>0. pc = "read" => busy = Ready
    BY DEF ReadInv, Reading
  <1>1. CASE Completes
    BY <1>0, <1>1, ReadRests DEF Completes, ReadInv
  <1>2. CASE QuadEnable
    BY <1>2, ReadRests DEF QuadEnable, QuadWritten, ReadInv
  <1>3. CASE PollBusy \/ PollBefore
    <2>1. pc # "read" /\ pc # "init" /\ pc' # "read" /\ pc' # "init"
      BY <1>3 DEF PollBusy, PollBefore
    <2>2. selected' = FALSE /\ UNCHANGED <<call, line, quad, qe, requirement>>
      BY <1>3 DEF PollBusy, PollBefore, device
    <2> QED BY <2>1, <2>2, ReadRests DEF ReadInv
  <1>4. CASE PollAfter
    <2>1. pc # "read" /\ pc # "init" /\ pc' # "read"
      BY <1>4 DEF PollAfter, Return
    <2>2. selected' = FALSE /\ call' \in {call, Idle} /\ UNCHANGED <<line, quad, qe, requirement>>
      BY <1>4 DEF PollAfter, Return, device
    <2> QED BY <2>1, <2>2, ReadRests DEF ReadInv
  <1>5. CASE WriteEnable
    BY <1>5, ReadRests DEF WriteEnable, ReadInv
  <1>6. CASE SendCommand
    <2>1. pc # "read" /\ pc # "init" /\ pc' # "read"
      BY <1>6 DEF SendCommand, Return
    <2>2. selected' = FALSE /\ call' \in {call, Idle} /\ UNCHANGED <<line, quad, qe, requirement>>
      BY <1>6 DEF SendCommand, Return, Obeys
    <2> QED BY <2>1, <2>2, ReadRests DEF ReadInv
  <1>7. CASE ReadChunk
    BY <1>7, ChunkRead
  <1>8. CASE QuadEnableFails
    BY <1>8, ReadRests DEF QuadEnableFails, ReadInv, device
  <1>9. CASE PollFails \/ WriteEnableFails \/ SendCommandFails \/ ReadFails
    <2>1. pc # "init" /\ pc' = "idle" /\ call' = Idle /\ selected' = FALSE
      BY <1>9 DEF PollFails, WriteEnableFails, SendCommandFails, ReadFails, Return
    <2>2. UNCHANGED <<line, quad, qe, requirement>>
      BY <1>9 DEF PollFails, WriteEnableFails, SendCommandFails, ReadFails,
                  Return, Obeys, device
    <2> QED BY <2>1, <2>2, ReadRests DEF ReadInv
  <1>10. ASSUME NEW c \in Calls, Call(c) PROVE ReadInv'
    BY <1>10, CallRead
  <1>11. CASE UNCHANGED vars
    BY <1>11 DEF vars, device, work, ReadInv, Reading
  <1> QED BY <1>1, <1>2, <1>3, <1>4, <1>5, <1>6, <1>7, <1>8, <1>9, <1>10,
             <1>11 DEF Next, Driver, Failing

\* A read that succeeds returns what the flash holds, for every length, split
\* into any transfers and whatever failed before it, as long as the buffer is
\* not cached and the flash does not want its quad enable bit in the second
\* status register.  The run nor_read shows what the cache makes of it
\* (hpm_serial_nor_host_spi.c l.356).
THEOREM ReadsAreTrue ==
    ASSUME CsAuto, ~Cached, "shifted" \notin Requirements
    PROVE  Spec => ReadsFlash
  <1>1. Init => ReadInv
    BY InitRead
  <1>2. ReadInv /\ [Next]_vars => ReadInv'
    BY StepRead
  <1>3. ReadInv /\ [Next]_vars =>
          [call # Idle /\ call.op = "read" /\ call' = Idle /\ result'.stat = "success"
             => result'.data = ReadCells(mem, call.a, call.len)]_vars
    <2> SUFFICES ASSUME ReadInv, [Next]_vars, call # Idle, call.op = "read",
                        call' = Idle, result'.stat = "success"
                 PROVE  result'.data = ReadCells(mem, call.a, call.len)
      OBVIOUS
    <2>1. pc = "read" /\ busy = Ready
      BY DEF ReadInv, Reading
    <2>2. CASE ReadChunk
      BY <2>2, ChunkRead
    <2>3. CASE ReadFails
      BY <2>3 DEF ReadFails, Return
    <2>4. ~(UNCHANGED vars)
      BY DEF vars
    <2> QED BY <2>1, <2>2, <2>3, <2>4
            DEF Next, Driver, Failing, Completes, QuadEnable, PollBusy, PollBefore,
                PollAfter, WriteEnable, SendCommand, QuadEnableFails, PollFails,
                WriteEnableFails, SendCommandFails, Call
  <1> QED BY <1>1, <1>2, <1>3, PTL DEF Spec, ReadsFlash
-----------------------------------------------------------------------------
\* Where a call has got to: what is before its address is done, what remains
\* reaches to the end of its range.
Under(c) ==
    /\ addr \in Nat /\ left \in Nat \ {0}
    /\ addr >= Start(c) /\ addr + left = Start(c) + Length(c)
    /\ c.op = "erase" => addr % Sector = 0 /\ left % Sector = 0
    /\ c.op \notin {"program", "erase", "read"} => addr = c.a

\* The control state, the call and its address belong together.
Place ==
    /\ call = Idle <=> pc \in {"init", "idle"}
    /\ call # Idle => Under(call)
    /\ pc = "read" <=> call # Idle /\ call.op = "read"
    /\ pc \in {"wait", "settle"} => call.op \notin Noblocking

TypeInv == TypeOK /\ Place

\* The flash with the range of call c written or erased up to address e.
Written(cells, c, e) ==
    [x \in Addr |-> IF x \in Start(c) .. e - 1
                    THEN IF c.op \in Programs THEN Nor(cells[x], DataCell(c.op, x - c.a + 1))
                         ELSE Erased
                    ELSE cells[x]]

\* The flash is what it was when the call was made, with the pieces done so far
\* (the device may still be at the last one).
FlashInv ==
    /\ pc = "init" => busy = Ready
    /\ pc \in {"wait", "enable", "command"} => Settled = Written(before, call, addr)
    /\ pc = "settle" => Settled = Written(before, call, addr + Piece)
    /\ pc = "read" => Settled = before

StoreInv == TypeInv /\ HearInv /\ ReadInv /\ FlashInv
-----------------------------------------------------------------------------
(* The calls, and the range each works on. *)

LEMMA Geometry ==
    /\ Size \in Nat \ {0} /\ Page \in Nat \ {0} /\ Sector \in Nat \ {0} /\ Block \in Nat \ {0}
    /\ Block % Sector = 0 /\ Size % Block = 0 /\ Size % Sector = 0
  BY SizeAssumption, MultipleOfMultiple

LEMMA AlignedIs ==
    ASSUME NEW op
    PROVE  /\ op \in {"erase_sector", "erase_sector_noblocking"} => Aligned(op) = Sector
           /\ op \in {"erase_block", "erase_block_noblocking"} => Aligned(op) = Block
           /\ op = "erase_chip" => Aligned(op) = Size
  <1>1. op \in {"erase_sector", "erase_sector_noblocking"} => Aligned(op) = Sector
    BY Zenon DEF Aligned
  <1>2. op \in {"erase_block", "erase_block_noblocking"} => Aligned(op) = Block
    BY Zenon DEF Aligned
  <1>3. op = "erase_chip" => Aligned(op) = Size
    BY Zenon DEF Aligned
  <1> QED BY <1>1, <1>2, <1>3

Fixed == Ops \ Anywhere

LEMMA FixedCall ==
    ASSUME NEW c \in Calls, c.op \in Fixed
    PROVE  /\ c.a \in Addr /\ c.len \in {Sector, Block, Size}
           /\ c.a % c.len = 0 /\ c.a % Sector = 0 /\ c.len % Sector = 0
           /\ c.a + c.len <= Size
  <1>1. c.a \in Addr /\ c.len \in {Sector, Block, Size} /\ c.a % c.len = 0
    BY DEF Calls, Fixed
  <1>2. c.a \in Nat /\ c.a < Size
    BY <1>1, Geometry DEF Addr
  <1>3. c.len \in Nat \ {0} /\ c.len % Sector = 0 /\ Size % c.len = 0
    <2>1. c.len = Aligned(c.op)
      BY DEF Calls, Fixed
    <2>2. Sector % Sector = 0 /\ Size % Size = 0
      BY Geometry, SMTT(20)
    <2> QED BY <1>1, <2>2, Geometry
  <1>4. c.a % Sector = 0
    BY <1>1, <1>2, <1>3, Geometry, MultipleOfMultiple
  <1>5. c.a + c.len <= Size
    BY <1>1, <1>2, <1>3, Geometry, MultiplesApart
  <1> QED BY <1>1, <1>3, <1>4, <1>5

LEMMA CallFacts ==
    ASSUME NEW c \in Calls
    PROVE  /\ c.op \in Ops /\ c.a \in Addr /\ c.a \in Nat
           /\ c.len \in Nat \ {0} /\ c.a + c.len <= Size
           /\ c.op = "page_program_noblocking" /\ ~Crossing => (c.a % Page) + c.len <= Page
           /\ c # Idle
  <1>1. c # Idle
    BY IdleAssumption
  <1>2. CASE c.op \in Fixed
    <2>1. c.a \in Addr /\ c.len \in {Sector, Block, Size} /\ c.a + c.len <= Size
      BY <1>2, FixedCall
    <2>2. c.a \in Nat /\ c.len \in Nat \ {0}
      BY ONLY <2>1, Geometry DEF Addr
    <2>3. c.op \in Ops /\ c.op # "page_program_noblocking"
      BY <1>2 DEF Fixed, Anywhere
    <2> QED BY <1>1, <2>1, <2>2, <2>3
  <1>3. CASE c.op \notin Fixed
    <2>1. /\ c.op \in Anywhere /\ c.a \in Starts /\ c.len \in Lens /\ c.a + c.len <= Size
          /\ c.op = "page_program_noblocking" /\ ~Crossing => (c.a % Page) + c.len <= Page
      BY <1>3 DEF Calls, Fixed
    <2>2. c.a \in Addr /\ c.a \in Nat /\ c.len \in Nat \ {0}
      <3>1. Starts \subseteq Addr /\ Lens \subseteq Nat \ {0}
        BY CallAssumption
      <3>2. Addr \subseteq Nat
        BY Geometry DEF Addr
      <3> QED BY <2>1, <3>1, <3>2
    <2>3. c.op \in Ops
      BY <2>1 DEF Ops, Anywhere
    <2> QED BY <1>1, <2>1, <2>2, <2>3
  <1> QED BY <1>2, <1>3

\* A call works on a part of the flash; an erase on whole sectors.
LEMMA RangeFacts ==
    ASSUME NEW c \in Calls
    PROVE  /\ Start(c) \in Nat /\ Length(c) \in Nat \ {0}
           /\ Start(c) + Length(c) <= Size
           /\ c.op = "erase" => Start(c) % Sector = 0 /\ Length(c) % Sector = 0
           /\ c.op # "erase" => Start(c) = c.a
           /\ c.op \notin {"erase", "page_program_noblocking"} => Length(c) = c.len
  <1>0. c.a \in Nat /\ c.len \in Nat \ {0} /\ c.a + c.len <= Size
    BY CallFacts
  <1> USE Geometry
  <1>1. CASE c.op = "erase"
    <2>1. Length(c) = Below(c.a + c.len + Sector - 1, Sector) - Start(c)
      BY <1>1, Zenon DEF Length, Down, Below
    <2>2. Start(c) = Below(c.a, Sector)
      BY <1>1 DEF Start, Down, Below
    <2>3. PICK b \in Nat : b = c.a + c.len + Sector - 1
      BY <1>0
    <2>4. PICK e \in Nat : e = Below(b, Sector) /\ e <= b /\ b < e + Sector /\ e % Sector = 0
      BY Geometry, BelowIs
    <2>5. PICK s \in Nat : s = Below(c.a, Sector) /\ s <= c.a /\ s % Sector = 0
      BY <1>0, Geometry, BelowIs
    <2>6. e > s
      BY <1>0, <2>3, <2>4, <2>5
    <2>7. e <= Size
      <3>1. Size < e => Size + Sector <= e
        BY <2>4, Geometry, MultiplesApart
      <3> QED BY <1>0, <2>3, <2>4, <3>1
    <2>8. (e - s) % Sector = 0
      BY <2>4, <2>5, <2>6, Geometry, MultiplesApart
    <2>9. Length(c) = e - s /\ Start(c) = s
      BY <2>1, <2>2, <2>3, <2>4, <2>5
    <2> QED BY <1>1, <2>5, <2>6, <2>7, <2>8, <2>9
  <1>2. CASE c.op = "page_program_noblocking"
    <2>1. Length(c) = InPage(c) /\ Start(c) = c.a
      BY <1>2 DEF Length, Start
    <2>2. c.a % Page \in 0 .. Page - 1
      BY <1>0, Division
    <2>3. InPage(c) \in Nat \ {0} /\ InPage(c) <= c.len
      BY <1>0, <2>2 DEF InPage
    <2> QED BY <1>0, <1>2, <2>1, <2>3
  <1>3. CASE c.op \notin {"erase", "page_program_noblocking"}
    <2>1. Length(c) = c.len /\ Start(c) = c.a
      BY <1>3, Zenon DEF Length, Start
    <2> QED BY <1>0, <1>3, <2>1
  <1> QED BY <1>1, <1>2, <1>3
-----------------------------------------------------------------------------
(* The pieces of a call. *)

LEMMA PieceCases ==
    /\ call.op \in Programs => Piece = IF left <= Room THEN left ELSE Room
    /\ call.op = "erase" => Piece = Erases
    /\ call.op \notin Programs \cup {"erase"} => Piece = left
  <1>1. call.op \in Programs /\ call.op # "erase" => Piece = IF left <= Room THEN left ELSE Room
    BY Zenon DEF Piece
  <1>2. call.op = "erase" /\ call.op \notin Programs => Piece = Erases
    BY Zenon DEF Piece
  <1>3. call.op \notin Programs \cup {"erase"} => Piece = left
    BY Zenon DEF Piece
  <1>4. "erase" \notin Programs
    BY DEF Programs
  <1> QED BY <1>1, <1>2, <1>3, <1>4

LEMMA PieceFacts ==
    ASSUME call \in Calls, Under(call), call.op # "read"
    PROVE  /\ Piece \in Nat \ {0} /\ Piece <= left
           /\ addr + left <= Size
           /\ call.op \in Programs => Piece <= Page - (addr % Page)
           /\ call.op \notin Programs => addr % Piece = 0
           /\ call.op = "erase" => /\ (addr + Piece) % Sector = 0
                                  /\ (left - Piece) % Sector = 0
           /\ call.op \notin Programs \cup {"erase"} => Piece = left
  <1>1. /\ addr \in Nat /\ left \in Nat \ {0} /\ addr + left <= Size
    BY RangeFacts DEF Under
  <1>2. CASE call.op \in Programs
    <2>1. addr % Page \in 0 .. Page - 1 /\ "erase" \notin Programs
      BY <1>1, Division, Geometry DEF Programs
    <2>2. Piece = IF left <= Page - (addr % Page) THEN left ELSE Page - (addr % Page)
      BY <1>2, PieceCases DEF Room
    <2> QED BY <1>1, <1>2, <2>1, <2>2, Geometry
  <1>3. CASE call.op = "erase"
    <2>1. "erase" \notin Programs
      BY DEF Programs
    <2>2. addr % Sector = 0 /\ left % Sector = 0
      BY <1>3 DEF Under
    <2>3. Piece \in {Sector, Block} /\ Piece <= left /\ addr % Piece = 0
      <3>1. left >= Sector
        <4>1. 0 % Sector = 0
          BY Geometry, SMTT(20)
        <4> QED BY <1>1, <2>2, <4>1, Geometry, MultiplesApart
      <3>2. Piece = IF addr % Block # 0 \/ left < Block THEN Sector ELSE Block
        BY <1>3, PieceCases DEF Erases
      <3> QED BY <1>1, <2>2, <3>1, <3>2, Geometry
    <2>4. Piece \in Nat \ {0} /\ Piece % Sector = 0
      <3>1. Sector % Sector = 0
        BY Geometry, SMTT(20)
      <3> QED BY <2>3, <3>1, Geometry
    <2>5. (addr + Piece) % Sector = 0 /\ (left - Piece) % Sector = 0
      <3>1. (addr + Piece) % Sector = 0
        BY <1>1, <2>2, <2>4, Geometry, MultiplesAdd
      <3>2. (left - Piece) % Sector = 0
        BY <1>1, <2>2, <2>3, <2>4, Geometry, MultiplesApart
      <3> QED BY <3>1, <3>2
    <2> QED BY <1>1, <1>3, <2>1, <2>3, <2>4, <2>5
  <1>4. CASE call.op \notin Programs \cup {"erase"}
    <2>1. Piece = left
      BY <1>4, PieceCases
    <2>2. call.op \in Fixed
      BY <1>4, CallFacts DEF Fixed, Anywhere, Programs
    <2>3. addr = call.a /\ left = call.len
      <3>1. Start(call) = call.a /\ Length(call) = call.len
        BY <1>4, RangeFacts DEF Programs
      <3>2. addr = call.a
        BY <1>4, <2>2 DEF Under, Fixed, Anywhere
      <3> QED BY <1>1, <3>1, <3>2, CallFacts DEF Under
    <2>4. addr % Piece = 0
      BY <2>1, <2>2, <2>3, FixedCall
    <2> QED BY <1>1, <1>4, <2>1, <2>4
  <1> QED BY <1>2, <1>3, <1>4

LEMMA CellFacts ==
    /\ Erased \in Cell /\ Mixed \in Cell
    /\ \A p \in Programs, k \in 1 .. Size : DataCell(p, k) \in Cell
    /\ \A old, new \in Cell : Nor(old, new) \in Cell
  BY DEF Cell, DataCell, Nor

\* What is on the wire is cells, those of the source unless the device hears
\* another mode.
LEMMA WireFacts ==
    ASSUME call \in Calls, Under(call), call.op \in Programs, NEW n \in 1 .. left
    PROVE  /\ DOMAIN OnTheWire(Data(call, addr, n)) = 1 .. n
           /\ OnTheWire(Data(call, addr, n)) \in Seq(Cell)
           /\ (quad => qe) => \A k \in 1 .. n : OnTheWire(Data(call, addr, n))[k]
                                                 = DataCell(call.op, addr - call.a + k)
  <1>1. /\ addr \in Nat /\ left \in Nat \ {0} /\ addr + left <= Size
        /\ call.a \in Nat /\ addr >= call.a
    BY RangeFacts, CallFacts DEF Under, Programs
  <1>2. \A k \in 1 .. n : addr - call.a + k \in 1 .. Size
    BY <1>1, Geometry
  <1>3. Data(call, addr, n) = [k \in 1 .. n |-> DataCell(call.op, addr - call.a + k)]
    BY DEF Data
  <1>4. \A k \in 1 .. n : DataCell(call.op, addr - call.a + k) \in Cell
    BY <1>2, CellFacts
  <1>5. OnTheWire(Data(call, addr, n)) \in [1 .. n -> Cell]
    BY <1>3, <1>4, CellFacts DEF OnTheWire
  <1>6. n \in Nat
    BY <1>1
  <1>7. OnTheWire(Data(call, addr, n)) \in Seq(Cell)
    BY <1>5, <1>6, SMTT(20)
  <1>8. (quad => qe) => OnTheWire(Data(call, addr, n)) = Data(call, addr, n)
    BY DEF OnTheWire
  <1> QED BY <1>3, <1>5, <1>7, <1>8

LEMMA CommandType ==
    ASSUME call \in Calls, Under(call), call.op # "read", NEW n \in 1 .. Piece
    PROVE  Command(n) \in Commands
  <1>1. Piece \in Nat \ {0} /\ Piece <= left /\ addr + left <= Size /\ addr \in Nat /\ left \in Nat
    BY PieceFacts DEF Under
  <1>2. addr \in Addr /\ Piece \in 1 .. Size
    BY <1>1, Geometry DEF Addr
  <1>3. CASE call.op \in Programs
    <2>1. n \in 1 .. left
      BY <1>1
    <2>2. OnTheWire(Data(call, addr, n)) \in Seq(Cell)
      BY <1>3, <2>1, WireFacts
    <2> QED BY <1>2, <1>3, <2>2 DEF Command, Commands
  <1>4. CASE call.op \notin Programs
    BY <1>2, <1>4 DEF Command, Commands
  <1> QED BY <1>3, <1>4

LEMMA SettledType ==
    ASSUME mem \in [Addr -> Cell], busy \in Commands \cup {Ready}
    PROVE  Settled \in [Addr -> Cell]
  <1>1. CASE busy = Ready
    BY <1>1 DEF Settled
  <1>2. CASE busy # Ready /\ busy.kind = "program"
    <2>1. Settled = PageProgram(mem, busy.a, busy.data)
      BY <1>2, Zenon DEF Settled
    <2>2. busy.data \in Seq(Cell)
      BY <1>2 DEF Commands
    <2>3. \A k \in DOMAIN busy.data : busy.data[k] \in Cell
      BY <2>2
    <2>4. PageProgram(mem, busy.a, busy.data) \in [Addr -> Cell]
      <3> DEFINE A(k) == busy.a - (busy.a % Page) + ((busy.a + k - 1) % Page)
                 K(x) == CHOOSE k \in DOMAIN busy.data : A(k) = x
      <3>1. \A x \in Addr : (\E k \in DOMAIN busy.data : A(k) = x) => K(x) \in DOMAIN busy.data
        BY Zenon
      <3>2. PageProgram(mem, busy.a, busy.data)
              = [x \in Addr |-> IF \E k \in DOMAIN busy.data : A(k) = x
                                THEN Nor(mem[x], busy.data[K(x)]) ELSE mem[x]]
        BY Zenon DEF PageProgram
      <3> HIDE DEF A, K
      <3> QED BY <2>3, <3>1, <3>2, CellFacts
    <2> QED BY <2>1, <2>4
  <1>3. CASE busy # Ready /\ busy.kind = "erase"
    <2>1. Settled = EraseRange(mem, busy.a - (busy.a % busy.size), busy.size)
      <3>1. busy.kind # "program"
        BY <1>3
      <3> QED BY <1>3, <3>1, Zenon DEF Settled
    <2> QED BY <2>1, CellFacts DEF EraseRange
  <1>4. CASE busy # Ready /\ busy.kind \notin {"program", "erase"}
    <2>1. Settled = mem
      BY <1>4, Zenon DEF Settled
    <2> QED BY <2>1
  <1> QED BY <1>1, <1>2, <1>3, <1>4
-----------------------------------------------------------------------------
(* The type invariant. *)

LEMMA InitType == Init => TypeInv
  <1> SUFFICES ASSUME Init PROVE TypeInv
    OBVIOUS
  <1>1. mem \in [Addr -> Cell] /\ before \in [Addr -> Cell]
    BY CellFacts DEF Init
  <1>2. addr \in Addr /\ left \in 0 .. Size /\ faults \in 0 .. MaxFaults
    BY Geometry, CallAssumption DEF Init, Addr
  <1>3. Place
    BY DEF Init, Place
  <1> QED BY <1>1, <1>2, <1>3 DEF Init, TypeInv, TypeOK

\* A call that has come to its end, and one that goes on where it is, with a
\* device that has at most heard a command.
LEMMA FaultType == TypeOK /\ (Fault \/ Sound) => faults' \in 0 .. MaxFaults
  BY CallAssumption DEF TypeOK, Fault, Sound

LEMMA RestType ==
    ASSUME TypeInv, Fault \/ Sound,
           mem' \in [Addr -> Cell], before' = before,
           busy' \in Commands \cup {Ready},
           wel' \in BOOLEAN, qe' \in BOOLEAN, selected' \in BOOLEAN, quad' \in BOOLEAN,
           requirement' = requirement, addr' = addr, left' = left,
           pc' \in {"init", "idle", "wait", "settle", "enable", "command", "read"},
           \/ call' = Idle /\ pc' = "idle"
           \/ call' = call /\ (call = Idle <=> pc' \in {"init", "idle"})
                           /\ (pc' = "read" <=> pc = "read")
                           /\ (pc' \in {"wait", "settle"} => call.op \notin Noblocking)
    PROVE  TypeInv'
  <1>1. faults' \in 0 .. MaxFaults
    BY FaultType DEF TypeInv
  <1>2. TypeOK'
    BY <1>1 DEF TypeInv, TypeOK
  <1>3. Place'
    BY DEF TypeInv, Place, Under
  <1> QED BY <1>2, <1>3 DEF TypeInv

LEMMA CallType ==
    ASSUME TypeInv, NEW c \in Calls, Call(c)
    PROVE  TypeInv'
  <1>1. Start(c) \in Nat /\ Length(c) \in Nat \ {0} /\ Start(c) + Length(c) <= Size
    BY RangeFacts
  <1>2. /\ UNCHANGED <<mem, busy, wel, qe, requirement, selected, quad, faults>>
        /\ call' = c /\ addr' = Start(c) /\ left' = Length(c) /\ before' = Settled
        /\ pc' \in {"read", "enable", "wait"} /\ (pc' = "read" <=> c.op = "read")
        /\ pc' = "wait" => c.op \notin Noblocking
    BY DEF Call, device
  <1>3. addr' \in Addr /\ left' \in 0 .. Size
    BY <1>1, <1>2, Geometry DEF Addr
  <1>4. TypeOK'
    BY <1>2, <1>3, SettledType DEF TypeInv, TypeOK
  <1>5. Place'
    <2>1. /\ c.op = "erase" => Start(c) % Sector = 0 /\ Length(c) % Sector = 0
          /\ c.op # "erase" => Start(c) = c.a
      BY RangeFacts
    <2> QED BY <1>1, <1>2, <2>1, CallFacts DEF Place, Under
  <1> QED BY <1>4, <1>5 DEF TypeInv

\* The call moves on by n cells, to which there are more.
LEMMA MoveType ==
    ASSUME TypeInv, call # Idle, Sound, UNCHANGED <<mem, busy, wel, qe, requirement>>,
           NEW n \in Nat \ {0}, n < left,
           call.op = "erase" => (addr + n) % Sector = 0 /\ (left - n) % Sector = 0,
           call.op \in {"program", "erase", "read"},
           addr' = addr + n, left' = left - n, selected' = FALSE,
           UNCHANGED <<call, quad, before>>,
           pc' \in {"wait", "enable", "read"}, pc' = "read" <=> pc = "read"
    PROVE  TypeInv'
  <1>1. call \in Calls /\ Under(call)
    BY DEF TypeInv, TypeOK, Place
  <1>2. addr' \in Nat /\ left' \in Nat \ {0} /\ addr' + left' = addr + left /\ addr' >= addr
    BY <1>1 DEF Under
  <1>3. Start(call) \in Nat /\ Length(call) \in Nat /\ Start(call) + Length(call) <= Size
    BY <1>1, RangeFacts
  <1>4. addr' \in Addr /\ left' \in 0 .. Size
    BY <1>1, <1>2, <1>3, Geometry DEF Under, Addr
  <1>5. TypeOK'
    BY <1>4, FaultType DEF TypeInv, TypeOK
  <1>6. Under(call)'
    BY <1>1, <1>2, <1>3 DEF Under, Start, Length
  <1>7. call.op \notin Noblocking
    BY DEF Noblocking
  <1> QED BY <1>5, <1>6, <1>7 DEF TypeInv, Place

LEMMA PollAfterType ==
    ASSUME TypeInv, PollAfter
    PROVE  TypeInv'
  <1>1. /\ pc = "settle" /\ Sound /\ selected' = FALSE
        /\ UNCHANGED <<mem, busy, wel, qe, requirement, quad, before>>
    BY DEF PollAfter, Return, device
  <1>2. call # Idle /\ call \in Calls /\ call.op # "read" /\ Under(call)
    BY <1>1 DEF TypeInv, TypeOK, Place
  <1>3. CASE left = Piece
    <2>1. pc' = "idle" /\ call' = Idle /\ addr' = addr /\ left' = left
      BY <1>3 DEF PollAfter, Return, work
    <2> QED BY <1>1, <2>1, RestType DEF TypeInv, TypeOK
  <1>4. CASE left # Piece
    <2>1. /\ addr' = addr + Piece /\ left' = left - Piece /\ call' = call
          /\ pc' \in {"wait", "enable"}
      BY <1>4 DEF PollAfter
    <2>2. PICK n \in Nat \ {0} : n = Piece /\ n < left
      BY <1>2, <1>4, PieceFacts DEF Under
    <2>3. /\ call.op = "erase" => (addr + n) % Sector = 0 /\ (left - n) % Sector = 0
          /\ call.op \in {"program", "erase", "read"}
      BY <1>1, <1>2, <1>4, <2>2, PieceFacts DEF TypeInv, Place, Programs, Noblocking
    <2> QED BY <1>1, <1>2, <2>1, <2>2, <2>3, MoveType
  <1> QED BY <1>3, <1>4

LEMMA ReadChunkType ==
    ASSUME TypeInv, ReadChunk
    PROVE  TypeInv'
  <1>1. /\ pc = "read" /\ Sound /\ selected' = FALSE
        /\ UNCHANGED <<mem, busy, wel, qe, requirement, quad, before>>
    BY DEF ReadChunk, Return, device
  <1>2. call # Idle /\ call \in Calls /\ call.op = "read" /\ Under(call)
    BY <1>1 DEF TypeInv, TypeOK, Place
  <1>3. CASE left = Chunk
    <2>1. pc' = "idle" /\ call' = Idle /\ addr' = addr /\ left' = left
      BY <1>3 DEF ReadChunk, Return, work
    <2> QED BY <1>1, <2>1, RestType DEF TypeInv, TypeOK
  <1>4. CASE left # Chunk
    <2>1. addr' = addr + Chunk /\ left' = left - Chunk /\ call' = call /\ pc' = "read"
      BY <1>1, <1>4 DEF ReadChunk
    <2>2. PICK n \in Nat \ {0} : n = Chunk /\ n < left
      BY <1>2, <1>4, SizeAssumption DEF Under, Chunk
    <2> QED BY <1>1, <1>2, <2>1, <2>2, MoveType
  <1> QED BY <1>3, <1>4

LEMMA StepType ==
    ASSUME TypeInv, [Next]_vars
    PROVE  TypeInv'
  <1>0. TypeOK /\ Place /\ Settled \in [Addr -> Cell]
    BY SettledType DEF TypeInv, TypeOK
  <1> USE DEF TypeOK
  <1>1. CASE Completes
    BY <1>0, <1>1, RestType DEF Completes, Sound, work, Place
  <1>2. CASE QuadEnable
    <2>1. busy' \in Commands \cup {Ready} /\ qe' \in BOOLEAN
      <3>1. [kind |-> "status"] \in Commands
        BY DEF Commands
      <3>2. QuadWritten \in BOOLEAN
        BY DEF QuadWritten
      <3> QED BY <1>0, <1>2, <3>1, <3>2 DEF QuadEnable
    <2> QED BY <1>0, <1>2, <2>1, RestType DEF QuadEnable, work, Place
  <1>3. CASE PollBusy \/ PollBefore
    BY <1>0, <1>3, RestType DEF PollBusy, PollBefore, device, work, Place
  <1>4. CASE PollAfter
    BY <1>4, PollAfterType
  <1>5. CASE WriteEnable
    BY <1>0, <1>5, RestType DEF WriteEnable, Hears, work, Place
  <1>6. CASE SendCommand
    <2>1. pc = "command" /\ call \in Calls /\ Under(call) /\ call.op # "read"
      BY <1>0, <1>6 DEF SendCommand, Place
    <2>2. busy' \in Commands \cup {Ready}
      <3>1. Command(Piece) \in Commands
        <4>1. PICK n \in 1 .. Piece : n = Piece
          BY <2>1, PieceFacts
        <4> QED BY <2>1, <4>1, CommandType
      <3> QED BY <1>0, <1>6, <3>1 DEF SendCommand, Obeys
    <2>3. /\ Sound /\ UNCHANGED <<mem, wel, qe, requirement, quad, before, addr, left>>
          /\ selected' = FALSE
          /\ \/ pc' = "idle" /\ call' = Idle
             \/ pc' = "settle" /\ call' = call /\ call.op \notin Noblocking
      BY <1>6 DEF SendCommand, Obeys, Return, work
    <2> QED BY <1>0, <2>1, <2>2, <2>3, RestType DEF Place
  <1>7. CASE ReadChunk
    BY <1>7, ReadChunkType
  <1>8. CASE QuadEnableFails
    BY <1>0, <1>8, RestType DEF QuadEnableFails, device, work, Place
  <1>9. CASE PollFails \/ ReadFails
    <2>1. /\ Fault /\ UNCHANGED <<mem, busy, wel, qe, requirement, quad, before, addr, left>>
          /\ selected' \in BOOLEAN /\ pc' = "idle" /\ call' = Idle
      BY <1>9 DEF PollFails, ReadFails, device, Return, work
    <2> QED BY <1>0, <2>1, RestType
  <1>10. CASE WriteEnableFails
    <2>1. /\ Fault /\ UNCHANGED <<mem, busy, qe, requirement, quad, before, addr, left>>
          /\ selected' \in BOOLEAN /\ pc' = "idle" /\ call' = Idle
          /\ wel' \in BOOLEAN
      BY <1>0, <1>10 DEF WriteEnableFails, Hears, Return, work
    <2> QED BY <1>0, <2>1, RestType
  <1>11. CASE SendCommandFails
    <2>1. pc = "command" /\ call \in Calls /\ Under(call) /\ call.op # "read"
      BY <1>0, <1>11 DEF SendCommandFails, Place
    <2>2. busy' \in Commands \cup {Ready} /\ UNCHANGED <<mem, wel, qe, requirement>>
      <3>1. \A n \in 1 .. Piece : Command(n) \in Commands
        BY <2>1, CommandType
      <3>2. Piece \in 1 .. Piece
        BY <2>1, PieceFacts
      <3> QED BY <1>0, <1>11, <3>1, <3>2 DEF SendCommandFails, Obeys, device
    <2>3. /\ Fault /\ UNCHANGED <<quad, before, addr, left>>
          /\ selected' \in BOOLEAN /\ pc' = "idle" /\ call' = Idle
      BY <1>11 DEF SendCommandFails, Return, work
    <2> QED BY <1>0, <2>2, <2>3, RestType
  <1>12. ASSUME NEW c \in Calls, Call(c) PROVE TypeInv'
    BY <1>12, CallType
  <1>13. CASE UNCHANGED vars
    BY <1>0, <1>13 DEF vars, device, work, TypeInv, Place, Under
  <1> QED BY <1>1, <1>2, <1>3, <1>4, <1>5, <1>6, <1>7, <1>8, <1>9, <1>10,
             <1>11, <1>12, <1>13 DEF Next, Driver, Failing

\* The types hold, whatever the geometry and whichever transfers fail: the
\* address and the length of the piece stay within the flash, so every command
\* is for cells of it (hpm_serial_nor.c l.896-1026).
THEOREM TypeCorrect == Spec => []TypeOK
  <1>1. Init => TypeInv
    BY InitType
  <1>2. TypeInv /\ [Next]_vars => TypeInv'
    BY StepType
  <1>3. TypeInv => TypeOK
    BY DEF TypeInv
  <1> QED BY <1>1, <1>2, <1>3, PTL DEF Spec
-----------------------------------------------------------------------------
(* What the flash holds while a call is under way. *)

LEMMA WrittenType ==
    ASSUME NEW cells, NEW c, NEW e
    PROVE  /\ DOMAIN Written(cells, c, e) = Addr
           /\ Written(cells, c, e) = [x \in Addr |-> Written(cells, c, e)[x]]
  BY DEF Written

\* A call that has not begun has written nothing.
LEMMA NothingWritten ==
    ASSUME NEW c \in Calls, NEW cells \in [Addr -> Cell]
    PROVE  Written(cells, c, Start(c)) = cells
  <1>1. Start(c) \in Nat
    BY RangeFacts
  <1>2. Start(c) .. Start(c) - 1 = {}
    BY <1>1
  <1> QED BY <1>2 DEF Written

\* An idle device that hears a command holds, once it is done, the next n
\* cells as well.
LEMMA PieceWritten ==
    ASSUME TypeInv, call \in Calls, Under(call), call.op # "read",
           quad => qe,
           mem = Written(before, call, addr),
           busy' = Command(Piece) \/ \E n \in 1 .. Piece : call.op \in Programs /\ busy' = Command(n),
           mem' = mem
    PROVE  \E n \in 1 .. Piece :
               /\ Settled' = Written(before, call, addr + n)
               /\ busy' = Command(Piece) => n = Piece
  <1>0. /\ Piece \in Nat \ {0} /\ Piece <= left /\ addr + left <= Size
        /\ addr \in Nat /\ left \in Nat \ {0} /\ Piece \in 1 .. Piece
        /\ Start(call) \in Nat /\ addr >= Start(call)
    BY PieceFacts, RangeFacts DEF Under
  <1>1. CASE call.op \in Programs
    <2>1. PICK n \in 1 .. Piece : busy' = Command(n) /\ (busy' = Command(Piece) => n = Piece)
      <3>1. CASE busy' = Command(Piece)
        BY <1>0, <3>1
      <3>2. CASE busy' # Command(Piece)
        BY <1>0, <3>2
      <3> QED BY <3>1, <3>2
    <2>2. n \in 1 .. left /\ Command(n) \in Commands /\ Command(n) # Ready
      BY <1>0, CommandType, ReadyAssumption
    <2> DEFINE data == OnTheWire(Data(call, addr, n))
               A(k) == addr - (addr % Page) + ((addr + k - 1) % Page)
    <2>3. busy' # Ready /\ busy'.kind = "program" /\ busy'.a = addr /\ busy'.data = data
      BY <1>1, <2>1, <2>2 DEF Command
    <2>4. Settled' = PageProgram(mem, addr, data)
      <3>1. Settled' = PageProgram(mem', busy'.a, busy'.data)
        BY <2>3, Zenon DEF Settled
      <3> QED BY <2>3, <3>1
    <2>5. /\ DOMAIN data = 1 .. n
          /\ \A k \in 1 .. n : data[k] = DataCell(call.op, addr - call.a + k)
      BY <1>1, <2>2, WireFacts
    <2>6. \A k \in 1 .. n : A(k) = addr + k - 1
      <3>1. n <= Page - (addr % Page) /\ addr % Page \in 0 .. Page - 1
        <4>1. Piece <= Page - (addr % Page)
          BY <1>1, PieceFacts
        <4> QED BY <1>0, <4>1, Division, Geometry
      <3> SUFFICES ASSUME NEW k \in 1 .. n PROVE A(k) = addr + k - 1
        OBVIOUS
      <3>2. PICK i \in Nat : i = k - 1 /\ (addr % Page) + i < Page
        BY <1>0, <3>1, Geometry
      <3>3. (addr + i) % Page = (addr % Page) + i
        BY <1>0, <3>2, Geometry, SameMultiple
      <3>4. addr + k - 1 = addr + i
        BY <1>0, <3>2
      <3> QED BY <1>0, <3>1, <3>3, <3>4
    <2> HIDE DEF A
    <2>7. \A x : (\E k \in 1 .. n : A(k) = x) <=> x \in addr .. addr + n - 1
      <3>1. ASSUME NEW x \in addr .. addr + n - 1 PROVE \E k \in 1 .. n : A(k) = x
        <4>1. PICK k \in 1 .. n : k = x - addr + 1
          BY <1>0
        <4>2. A(k) = x
          BY <1>0, <2>6, <4>1
        <4> QED BY <4>2
      <3> QED BY <1>0, <2>6, <3>1
    <2>8. \A x \in addr .. addr + n - 1 : (CHOOSE k \in 1 .. n : A(k) = x) = x - addr + 1
      <3> SUFFICES ASSUME NEW x \in addr .. addr + n - 1
                   PROVE  (CHOOSE k \in 1 .. n : A(k) = x) = x - addr + 1
        OBVIOUS
      <3> DEFINE K == CHOOSE k \in 1 .. n : A(k) = x
      <3>1. K \in 1 .. n /\ A(K) = x
        BY <2>7, Zenon
      <3> HIDE DEF K
      <3>2. K = x - addr + 1
        BY <1>0, <2>6, <3>1
      <3> QED BY <3>2 DEF K
    <2>9. PageProgram(mem, addr, data)
              = [x \in Addr |-> IF x \in addr .. addr + n - 1
                                THEN Nor(mem[x], DataCell(call.op, x - call.a + 1)) ELSE mem[x]]
      <3>1. PageProgram(mem, addr, data)
              = [x \in Addr |-> IF \E k \in 1 .. n : A(k) = x
                                THEN Nor(mem[x], data[CHOOSE k \in 1 .. n : A(k) = x]) ELSE mem[x]]
        BY <2>5, Zenon DEF PageProgram, A
      <3>2. \A x \in addr .. addr + n - 1 : data[x - addr + 1] = DataCell(call.op, x - call.a + 1)
        <4>1. call.a \in Nat
          BY CallFacts
        <4> SUFFICES ASSUME NEW x \in addr .. addr + n - 1
                     PROVE  data[x - addr + 1] = DataCell(call.op, x - call.a + 1)
          OBVIOUS
        <4>2. x - addr + 1 \in 1 .. n /\ addr - call.a + (x - addr + 1) = x - call.a + 1
          BY <1>0, <4>1
        <4> QED BY <2>5, <4>2
      <3> HIDE DEF data
      <3> QED BY <2>7, <2>8, <3>1, <3>2
    <2> HIDE DEF data
    <2>10. Settled' = Written(before, call, addr + n)
      <3>1. call.op # "erase" /\ Start(call) = call.a /\ call.a \in Nat
        BY <1>1, RangeFacts, CallFacts DEF Programs
      <3>2. mem = [x \in Addr |-> IF x \in call.a .. addr - 1
                                  THEN Nor(before[x], DataCell(call.op, x - call.a + 1)) ELSE before[x]]
        BY <1>1, <3>1 DEF Written
      <3>3. Written(before, call, addr + n)
              = [x \in Addr |-> IF x \in call.a .. (addr + n) - 1
                                THEN Nor(before[x], DataCell(call.op, x - call.a + 1)) ELSE before[x]]
        BY <1>1, <3>1 DEF Written
      <3>4. ASSUME NEW x \in Addr
            PROVE  (IF x \in addr .. addr + n - 1
                    THEN Nor(mem[x], DataCell(call.op, x - call.a + 1)) ELSE mem[x])
                   = (IF x \in call.a .. (addr + n) - 1
                      THEN Nor(before[x], DataCell(call.op, x - call.a + 1)) ELSE before[x])
        <4>1. x \in Int /\ addr >= call.a
          BY <1>0, <3>1, Geometry DEF Addr
        <4> QED BY <1>0, <3>1, <3>2, <4>1
      <3> QED BY <2>4, <2>9, <3>3, <3>4
    <2> QED BY <2>1, <2>10
  <1>2. CASE call.op \notin Programs
    <2>1. busy' = Command(Piece) /\ Command(Piece) # Ready
      BY <1>0, <1>2, CommandType, ReadyAssumption
    <2>2. Settled' = EraseRange(mem, addr - (addr % Piece), Piece)
      <3>1. busy' # Ready /\ busy'.kind = "erase" /\ busy'.a = addr /\ busy'.size = Piece
        BY <1>2, <2>1 DEF Command
      <3>2. Settled' = EraseRange(mem', busy'.a - (busy'.a % busy'.size), busy'.size)
        <4>1. busy'.kind # "program"
          BY <3>1
        <4> QED BY <3>1, <4>1, Zenon DEF Settled
      <3> QED BY <3>1, <3>2
    <2>3. addr - (addr % Piece) = addr
      BY <1>0, <1>2, PieceFacts
    <2>4. Settled' = Written(before, call, addr + Piece)
      <3>1. mem = [x \in Addr |-> IF x \in Start(call) .. addr - 1 THEN Erased ELSE before[x]]
        BY <1>2 DEF Written
      <3>2. Written(before, call, addr + Piece)
              = [x \in Addr |-> IF x \in Start(call) .. (addr + Piece) - 1 THEN Erased ELSE before[x]]
        BY <1>2 DEF Written
      <3>3. Settled' = [x \in Addr |-> IF x \in addr .. addr + Piece - 1 THEN Erased ELSE mem[x]]
        BY <2>2, <2>3, <3>1 DEF EraseRange
      <3>4. ASSUME NEW x \in Addr
            PROVE  (IF x \in addr .. addr + Piece - 1 THEN Erased ELSE mem[x])
                   = (IF x \in Start(call) .. (addr + Piece) - 1 THEN Erased ELSE before[x])
        <4>1. x \in Int
          BY Geometry DEF Addr
        <4> QED BY <1>0, <3>1, <4>1
      <3> QED BY <3>2, <3>3, <3>4
    <2> QED BY <1>0, <2>1, <2>4
  <1> QED BY <1>1, <1>2

\* The sectors a call touches are those it works on, from the first to the last.
LEMMA TouchedIs ==
    ASSUME NEW c \in Calls, c.op \notin Programs \cup {"read"}
    PROVE  Touched(c) = Start(c) .. Start(c) + Length(c) - 1
  <1>0. PICK a \in Nat, len \in Nat \ {0}, n \in Nat \ {0} :
            a = c.a /\ len = c.len /\ n = Sector /\ a + len <= Size
    BY CallFacts, Geometry
  <1>1. PICK b \in Nat : b = a + len + n - 1
    BY <1>0
  <1>2. PICK s \in Nat : s = Below(a, n) /\ s <= a /\ a < s + n /\ s % n = 0
    BY BelowIs
  <1>3. PICK e \in Nat : e = Below(b, n) /\ e <= b /\ b < e + n /\ e % n = 0
    BY BelowIs
  <1>4. Start(c) = s /\ Start(c) + Length(c) = e
    <2>1. CASE c.op = "erase"
      <3>1. Start(c) = s
        BY <1>0, <1>2, <2>1 DEF Start, Down, Below
      <3>2. Length(c) = Below(c.a + c.len + Sector - 1, Sector) - Start(c)
        BY <2>1, Zenon DEF Length, Down, Below
      <3> QED BY <1>0, <1>1, <1>2, <1>3, <3>1, <3>2
    <2>2. CASE c.op # "erase"
      <3>1. c.op \in Fixed
        BY <2>2, CallFacts DEF Fixed, Anywhere, Programs
      <3>2. a % n = 0 /\ len % n = 0
        BY <1>0, <3>1, FixedCall
      <3>3. s = a
        BY <1>2, <3>2, BelowIs
      <3>4. e = a + len
        <4>0. (a + len) % n = 0
          BY <3>2, MultiplesAdd
        <4>1. (a + len) % n = 0 /\ a + len <= b /\ b < a + len + n
          BY <1>1, <4>0
        <4>2. a + len <= e
          BY <1>1, <1>3, <4>1, Greatest
        <4>3. a + len < e => a + len + n <= e
          BY <1>3, <4>1, MultiplesApart
        <4> QED BY <1>3, <4>1, <4>2, <4>3
      <3>5. Start(c) = c.a /\ Length(c) = c.len
        BY <2>2, <3>1, RangeFacts DEF Fixed, Anywhere
      <3> QED BY <1>0, <3>3, <3>4, <3>5
    <2> QED BY <2>1, <2>2
  <1>5. e <= Size
    BY <1>4, RangeFacts
  <1>6. ASSUME NEW x \in Addr, NEW y \in c.a .. c.a + c.len - 1, x \div Sector = y \div Sector
        PROVE  x \in s .. e - 1
    <2>1. x \in Nat /\ y \in Nat /\ a <= y /\ y < a + len
      BY <1>0, Geometry DEF Addr
    <2>2. PICK d \in Nat : d = Below(x, n) /\ d = Below(y, n) /\ d % n = 0 /\ d <= x /\ x < d + n /\ d <= y
      <3>1. Below(x, n) = Below(y, n)
        BY <1>0, <1>6, <2>1, SameQuotient
      <3>2. Below(x, n) \in Nat /\ Below(x, n) % n = 0 /\ Below(x, n) <= x /\ x < Below(x, n) + n
        BY <2>1, BelowIs
      <3>3. Below(y, n) <= y
        BY <2>1, BelowIs
      <3> QED BY <3>1, <3>2, <3>3
    <2>3. s <= d
      BY <1>2, <2>1, <2>2, Greatest
    <2>4. d + n <= e
      <3>1. (d + n) % n = 0
        <4>1. n % n = 0
          BY SMTT(20)
        <4> QED BY <2>2, <4>1, MultiplesAdd
      <3>2. d + n <= b /\ d + n \in Nat
        BY <1>1, <2>1, <2>2
      <3>3. d + n <= Below(b, n)
        BY <3>1, <3>2, Greatest
      <3> QED BY <1>3, <3>3
    <2> QED BY <2>1, <2>2, <2>3, <2>4
  <1>7. ASSUME NEW x \in s .. e - 1
        PROVE  x \in Addr /\ \E y \in c.a .. c.a + c.len - 1 : x \div Sector = y \div Sector
    <2>1. x \in Nat /\ x \in Addr
      BY <1>5, Geometry DEF Addr
    <2>2. PICK d \in Nat : d = Below(x, n) /\ d % n = 0 /\ d <= x /\ x < d + n
      BY <2>1, BelowIs
    <2>3. s <= d
      BY <1>2, <2>1, <2>2, Greatest
    <2>4. d + n <= e
      BY <1>3, <2>2, MultiplesApart
    <2>5. CASE d <= a
      <3>1. d = s
        BY <1>2, <2>2, <2>3, <2>5, Greatest
      <3>2. x \div n = a \div n
        BY <1>2, <2>1, <2>2, <3>1, SameQuotient
      <3>3. a \in a .. a + len - 1
        OBVIOUS
      <3> QED BY <1>0, <2>1, <3>2, <3>3
    <2>6. CASE d > a
      <3>1. d \in a .. a + len - 1
        BY <1>1, <1>3, <2>4, <2>6
      <3>2. Below(d, n) = d
        BY <2>2, BelowIs
      <3>3. x \div n = d \div n
        BY <2>1, <2>2, <3>2, SameQuotient
      <3> QED BY <1>0, <2>1, <3>1, <3>3
    <2> QED BY <2>5, <2>6
  <1>8. Touched(c) = s .. e - 1
    BY <1>6, <1>7 DEF Touched
  <1>9. e - 1 = Start(c) + Length(c) - 1
    BY <1>4, RangeFacts
  <1> QED BY <1>4, <1>8, <1>9

\* A call that has come to its end has had its effect ...
LEMMA AllWritten ==
    ASSUME ~Crossing, NEW c \in Calls, c.op # "read", NEW cells \in [Addr -> Cell]
    PROVE  Written(cells, c, Start(c) + Length(c)) = Effect(cells, c)
  <1>1. CASE c.op \in Programs
    <2>0. c.a \in Nat /\ c.len \in Nat
      BY CallFacts
    <2>1. Start(c) = c.a /\ Length(c) = c.len
      <3>1. c.op = "page_program_noblocking" => Length(c) = c.len
        <4> SUFFICES ASSUME c.op = "page_program_noblocking" PROVE Length(c) = c.len
          OBVIOUS
        <4>1. Length(c) = InPage(c)
          BY Zenon DEF Length
        <4>2. c.a % Page \in 0 .. Page - 1
          BY <2>0, Geometry, Division
        <4>3. c.len <= Page - (c.a % Page)
          <5>1. (c.a % Page) + c.len <= Page
            BY CallFacts
          <5> QED BY <2>0, <4>2, <5>1, Geometry
        <4> QED BY <4>1, <4>3 DEF InPage
      <3> QED BY <1>1, <3>1, RangeFacts DEF Programs
    <2>2. Effect(cells, c) = Program(cells, c.a, Data(c, c.a, c.len))
      BY <1>1, Zenon DEF Effect, Programs
    <2>3. c.len \in Nat /\ c.a \in Nat
      BY CallFacts
    <2>4. Len(Data(c, c.a, c.len)) = c.len
      BY <2>3 DEF Data
    <2>5. \A x \in c.a .. c.a + c.len - 1 :
              Data(c, c.a, c.len)[x - c.a + 1] = DataCell(c.op, x - c.a + 1)
      <3> SUFFICES ASSUME NEW x \in c.a .. c.a + c.len - 1
                   PROVE  Data(c, c.a, c.len)[x - c.a + 1] = DataCell(c.op, x - c.a + 1)
        OBVIOUS
      <3>1. x - c.a + 1 \in 1 .. c.len /\ c.a - c.a + (x - c.a + 1) = x - c.a + 1
        BY <2>3
      <3> QED BY <3>1 DEF Data
    <2>6. Program(cells, c.a, Data(c, c.a, c.len))
            = [x \in Addr |-> IF x \in c.a .. c.a + c.len - 1
                              THEN Nor(cells[x], DataCell(c.op, x - c.a + 1)) ELSE cells[x]]
      BY <2>4, <2>5 DEF Program
    <2>7. Written(cells, c, Start(c) + Length(c))
            = [x \in Addr |-> IF x \in c.a .. (c.a + c.len) - 1
                              THEN Nor(cells[x], DataCell(c.op, x - c.a + 1)) ELSE cells[x]]
      BY <1>1, <2>1 DEF Written
    <2>8. (c.a + c.len) - 1 = c.a + c.len - 1
      BY <2>3
    <2> QED BY <2>2, <2>6, <2>7, <2>8
  <1>2. CASE c.op \notin Programs
    <2>1. Effect(cells, c) = [x \in Addr |-> IF x \in Touched(c) THEN Erased ELSE cells[x]]
      BY <1>2, Zenon DEF Effect
    <2>2. Written(cells, c, Start(c) + Length(c))
            = [x \in Addr |-> IF x \in Start(c) .. (Start(c) + Length(c)) - 1 THEN Erased ELSE cells[x]]
      BY <1>2 DEF Written
    <2>3. Touched(c) = Start(c) .. (Start(c) + Length(c)) - 1
      <3>1. (Start(c) + Length(c)) - 1 = Start(c) + Length(c) - 1
        BY RangeFacts
      <3> QED BY <1>2, <3>1, TouchedIs
    <2> QED BY <2>1, <2>2, <2>3
  <1> QED BY <1>1, <1>2

\* ... and one that has not has changed nothing else.
LEMMA OnlyCovered ==
    ASSUME NEW c \in Calls, c.op # "read", NEW cells \in [Addr -> Cell],
           NEW e \in Nat, e <= Start(c) + Length(c)
    PROVE  \A x \in Addr \ Covers(c) : Written(cells, c, e)[x] = cells[x]
  <1>0. Start(c) \in Nat /\ Length(c) \in Nat
    BY RangeFacts
  <1>1. Start(c) .. e - 1 \subseteq Start(c) .. Start(c) + Length(c) - 1
    BY <1>0
  <1>2. CASE c.op \in Programs
    <2>1. Covers(c) = c.a .. c.a + c.len - 1
      BY <1>2, Zenon DEF Covers
    <2>2. Start(c) = c.a /\ Length(c) <= c.len
      <3>1. c.op = "page_program_noblocking" => Length(c) <= c.len
        <4>1. c.op = "page_program_noblocking" => Length(c) = InPage(c)
          BY Zenon DEF Length
        <4>2. InPage(c) <= c.len
          <5>1. c.a \in Nat /\ c.len \in Nat
            BY CallFacts
          <5>2. c.a % Page \in 0 .. Page - 1
            BY <5>1, Geometry, Division
          <5> QED BY <5>1, <5>2, Geometry DEF InPage
        <4> QED BY <4>1, <4>2
      <3>2. Length(c) \in Nat /\ c.len \in Nat
        BY <1>0, CallFacts
      <3> QED BY <1>2, <3>1, <3>2, RangeFacts DEF Programs
    <2>3. Start(c) .. e - 1 \subseteq Covers(c)
      BY <1>0, <1>1, <2>1, <2>2, CallFacts
    <2> QED BY <2>3 DEF Written
  <1>3. CASE c.op \notin Programs
    <2>1. Covers(c) = Touched(c)
      BY <1>3, Zenon DEF Covers
    <2>2. Start(c) .. e - 1 \subseteq Covers(c)
      BY <1>1, <1>3, <2>1, TouchedIs
    <2> QED BY <2>2 DEF Written
  <1> QED BY <1>2, <1>3
-----------------------------------------------------------------------------
(* The driver implements NorStore. *)

LEMMA SettledSame == UNCHANGED <<mem, busy>> => Settled' = Settled
  BY Zenon DEF Settled

LEMMA SettledIdle == busy = Ready => Settled = mem
  BY DEF Settled

LEMMA PieceSame == UNCHANGED <<call, addr, left>> => Piece' = Piece
  BY Zenon DEF Piece, Erases, Room

\* The command that is sent is heard.
LEMMA CommandWritten ==
    ASSUME StoreInv, pc = "command", UNCHANGED mem,
           \/ Obeys(Command(Piece))
           \/ \E n \in 1 .. Piece : call.op \in Programs /\ Obeys(Command(n))
    PROVE  \E n \in 1 .. Piece :
               /\ Settled' = Written(before, call, addr + n)
               /\ Obeys(Command(Piece)) => n = Piece
  <1>1. call \in Calls /\ Under(call) /\ call.op # "read" /\ call # Idle
    BY DEF StoreInv, TypeInv, TypeOK, Place
  <1>2. busy = Ready /\ Hears /\ wel
    BY DEF StoreInv, HearInv, Hears
  <1>3. mem = Written(before, call, addr) /\ (quad => qe)
    BY <1>2, SettledIdle DEF StoreInv, FlashInv, ReadInv
  <1>4. \A command : Obeys(command) => busy' = command
    BY <1>2 DEF Obeys
  <1>5. PICK n \in 1 .. Piece :
            Settled' = Written(before, call, addr + n) /\ (busy' = Command(Piece) => n = Piece)
    BY <1>1, <1>3, <1>4, PieceWritten DEF StoreInv
  <1> QED BY <1>4, <1>5

LEMMA InitFlash == Init => FlashInv
  BY DEF Init, FlashInv

LEMMA StepFlash ==
    ASSUME StoreInv, [Next]_vars
    PROVE  FlashInv'
  <1> USE DEF FlashInv
  <1>0. TypeInv /\ HearInv /\ ReadInv /\ FlashInv
    BY DEF StoreInv
  <1>1. CASE Completes
    <2>1. Settled' = Settled
      BY <1>1 DEF Completes, Settled
    <2>2. UNCHANGED <<pc, call, before, addr, left>> /\ busy' = Ready
      BY <1>1 DEF Completes, work
    <2> QED BY <1>0, <2>1, <2>2, PieceSame DEF Written, Start
  <1>2. CASE QuadEnable \/ QuadEnableFails \/ PollFails \/ WriteEnableFails \/ SendCommandFails \/ ReadFails
    BY <1>2 DEF QuadEnable, QuadEnableFails, PollFails, WriteEnableFails, SendCommandFails,
                ReadFails, Return
  <1>3. CASE PollBusy \/ PollBefore \/ WriteEnable
    <2>1. /\ UNCHANGED <<mem, busy, call, before, addr, left>>
          /\ pc' = pc \/ (pc \in {"wait", "enable"} /\ pc' \in {"enable", "command"})
      BY <1>3 DEF PollBusy, PollBefore, WriteEnable, device, work
    <2> QED BY <1>0, <2>1, SettledSame, PieceSame DEF Written, Start
  <1>4. CASE PollAfter
    <2>1. pc = "settle" /\ UNCHANGED <<mem, busy, before>>
      BY <1>4 DEF PollAfter, Return, device
    <2>2. CASE left = Piece
      BY <1>4, <2>2 DEF PollAfter, Return
    <2>3. CASE left # Piece
      <3>1. addr' = addr + Piece /\ call' = call /\ pc' \in {"wait", "enable"}
        BY <1>4, <2>3 DEF PollAfter
      <3> QED BY <1>0, <2>1, <3>1, SettledSame DEF Written, Start
    <2> QED BY <2>2, <2>3
  <1>5. CASE SendCommand
    <2>1. pc = "command" /\ Obeys(Command(Piece)) /\ UNCHANGED mem
      BY <1>5 DEF SendCommand, Obeys
    <2>2. CASE call.op \in Noblocking
      BY <1>5, <2>2 DEF SendCommand, Return
    <2>3. CASE call.op \notin Noblocking
      <3>1. pc' = "settle" /\ UNCHANGED <<call, addr, left, before>>
        BY <1>5, <2>3 DEF SendCommand, work
      <3>2. Settled' = Written(before, call, addr + Piece)
        BY <2>1, CommandWritten
      <3> QED BY <3>1, <3>2, PieceSame DEF Written, Start
    <2> QED BY <2>2, <2>3
  <1>6. CASE ReadChunk
    <2>1. pc = "read" /\ pc' \in {"read", "idle"} /\ UNCHANGED <<mem, busy, before>>
      BY <1>6 DEF ReadChunk, Return, device
    <2> QED BY <1>0, <2>1, SettledSame
  <1>7. ASSUME NEW c \in Calls, Call(c) PROVE FlashInv'
    <2>1. /\ UNCHANGED <<mem, busy>> /\ before' = Settled /\ call' = c /\ addr' = Start(c)
          /\ pc' \in {"read", "wait", "enable"}
      BY <1>7 DEF Call, device
    <2>2. Settled' = before'
      BY <2>1, SettledSame
    <2>3. Settled \in [Addr -> Cell]
      BY <1>0, SettledType DEF TypeInv, TypeOK
    <2>4. Written(Settled, c, Start(c)) = Settled
      BY <2>3, NothingWritten
    <2>5. Written(before, call, addr)' = Written(Settled, c, Start(c))
      BY <2>1 DEF Written, Start
    <2> QED BY <2>1, <2>2, <2>4, <2>5
  <1>8. CASE UNCHANGED vars
    <2>1. UNCHANGED <<mem, busy, pc, call, before, addr, left>>
      BY <1>8 DEF vars, device, work
    <2> QED BY <1>0, <2>1, SettledSame, PieceSame DEF Written, Start
  <1> QED BY <1>1, <1>2, <1>3, <1>4, <1>5, <1>6, <1>7, <1>8 DEF Next, Driver, Failing

\* A step that answers nothing leaves the store alone.
LEMMA StoreRests ==
    ASSUME call' = call, result' = result, before' = before, Settled' = Settled
    PROVE  UNCHANGED Store!vars
  BY DEF Store!vars

\* A call that fails has changed only what it was asked to.
LEMMA StoreFails ==
    ASSUME StoreInv, call # Idle, call' = Idle,
           result' = [stat |-> "error", data |-> << >>],
           \/ Settled' = Settled
           \/ pc = "command" /\ \E n \in 1 .. Piece : Settled' = Written(before, call, addr + n)
    PROVE  Store!Fails
  <1>1. call \in Calls /\ Under(call) /\ before \in [Addr -> Cell]
    BY DEF StoreInv, TypeInv, TypeOK, Place
  <1>2. ASSUME NEW x \in Addr \ Covers(call) PROVE Settled'[x] = before[x]
    <2>1. CASE call.op = "read"
      <3>1. pc = "read" /\ Settled' = Settled
        BY <2>1 DEF StoreInv, TypeInv, Place
      <3> QED BY <3>1 DEF StoreInv, FlashInv
    <2>2. CASE call.op # "read"
      <3>0. /\ Piece \in Nat \ {0} /\ Piece <= left /\ addr \in Nat /\ left \in Nat
            /\ addr + left = Start(call) + Length(call)
            /\ pc \in {"wait", "enable", "command", "settle"}
        BY <1>1, <2>2, PieceFacts DEF Under, StoreInv, TypeInv, TypeOK, Place
      <3>1. \E e \in Nat : e <= Start(call) + Length(call) /\ Settled' = Written(before, call, e)
        <4>1. CASE Settled' = Settled /\ pc # "settle"
          <5>1. Settled' = Written(before, call, addr) /\ addr <= addr + left
            BY <3>0, <4>1 DEF StoreInv, FlashInv
          <5> QED BY <3>0, <5>1
        <4>2. CASE Settled' = Settled /\ pc = "settle"
          <5>1. Settled' = Written(before, call, addr + Piece) /\ addr + Piece <= addr + left
            BY <3>0, <4>2 DEF StoreInv, FlashInv
          <5>2. addr + Piece \in Nat
            BY <3>0
          <5> QED BY <3>0, <5>1, <5>2
        <4>3. ASSUME NEW n \in 1 .. Piece, Settled' = Written(before, call, addr + n)
              PROVE  \E e \in Nat : e <= Start(call) + Length(call) /\ Settled' = Written(before, call, e)
          <5>1. addr + n \in Nat /\ addr + n <= addr + left
            BY <3>0
          <5> QED BY <3>0, <4>3, <5>1
        <4> QED BY <4>1, <4>2, <4>3
      <3> QED BY <1>1, <2>2, <3>1, OnlyCovered
    <2> QED BY <2>1, <2>2
  <1>3. DOMAIN before = Addr
    BY <1>1
  <1> QED BY <1>2, <1>3 DEF Store!Fails

\* A program or erase that succeeds has had its effect.
LEMMA StoreSucceeds ==
    ASSUME ~Crossing, StoreInv, call # Idle, call.op # "read", call' = Idle,
           result' = [stat |-> "success", data |-> << >>],
           Settled' = Written(before, call, addr + Piece), left = Piece
    PROVE  Store!Succeeds
  <1>1. call \in Calls /\ Under(call) /\ before \in [Addr -> Cell]
    BY DEF StoreInv, TypeInv, TypeOK, Place
  <1>2. addr + Piece = Start(call) + Length(call)
    BY <1>1 DEF Under
  <1>3. Settled' = Effect(before, call)
    BY <1>1, <1>2, AllWritten
  <1> QED BY <1>3 DEF Store!Succeeds

LEMMA StoreStep ==
    ASSUME CsAuto, ~Cached, ~Crossing, StoreInv, [Next]_vars
    PROVE  [Store!Ask \/ Store!Answer]_(Store!vars)
  <1>0. TypeInv /\ HearInv /\ ReadInv /\ FlashInv
    BY DEF StoreInv
  <1> USE DEF Store!Answer
  <1>1. CASE Completes
    <2>1. Settled' = Settled
      BY <1>1 DEF Completes, Settled
    <2> QED BY <1>1, <2>1, StoreRests DEF Completes
  <1>2. CASE QuadEnable \/ QuadEnableFails
    <2>1. pc = "init" /\ UNCHANGED <<call, result, before>> /\ busy = Ready
      BY <1>0, <1>2 DEF QuadEnable, QuadEnableFails, FlashInv
    <2>2. Settled' = Settled
      <3>1. UNCHANGED <<mem, busy>> => Settled' = Settled
        BY SettledSame
      <3>2. mem' = mem /\ (busy' = busy \/ busy' = [kind |-> "status"])
        BY <1>2 DEF QuadEnable, QuadEnableFails, device
      <3>3. busy' = [kind |-> "status"] => Settled' = mem'
        <4> SUFFICES ASSUME busy' = [kind |-> "status"] PROVE Settled' = mem'
          OBVIOUS
        <4>1. [kind |-> "status"] # Ready
          BY ReadyAssumption DEF Commands
        <4>2. busy' # Ready /\ busy'.kind \notin {"program", "erase"}
          BY <4>1
        <4> QED BY <4>2, Zenon DEF Settled
      <3> QED BY <2>1, <3>1, <3>2, <3>3, SettledIdle
    <2> QED BY <2>1, <2>2, StoreRests
  <1>3. CASE PollBusy \/ PollBefore \/ WriteEnable
    BY <1>3, SettledSame, StoreRests DEF PollBusy, PollBefore, WriteEnable, device
  <1>4. CASE PollAfter
    <2>1. /\ pc = "settle" /\ UNCHANGED <<mem, busy, before>> /\ call # Idle /\ call.op # "read"
          /\ Settled' = Written(before, call, addr + Piece)
      BY <1>0, <1>4, SettledSame DEF PollAfter, Return, device, TypeInv, Place, FlashInv
    <2>2. CASE left = Piece
      BY <1>4, <2>1, <2>2, StoreSucceeds DEF PollAfter, Return
    <2>3. CASE left # Piece
      BY <1>4, <2>1, <2>3, SettledSame, StoreRests DEF PollAfter
    <2> QED BY <2>2, <2>3
  <1>5. CASE SendCommand
    <2>1. pc = "command" /\ Obeys(Command(Piece)) /\ UNCHANGED mem
      BY <1>5 DEF SendCommand, Obeys
    <2>2. call \in Calls /\ Under(call) /\ call.op # "read" /\ call # Idle
      BY <1>0, <2>1 DEF TypeInv, TypeOK, Place
    <2>3. Settled' = Written(before, call, addr + Piece)
      BY <2>1, CommandWritten
    <2>4. CASE call.op \in Noblocking
      <3>1. left = Piece
        <4>1. CASE call.op = "page_program_noblocking"
          <5>1. addr = call.a /\ Start(call) = call.a /\ Length(call) = InPage(call)
            <6>1. Length(call) = InPage(call)
              BY <4>1, Zenon DEF Length
            <6> QED BY <2>2, <4>1, <6>1 DEF Under, Start
          <5>2. call.a \in Nat /\ call.len \in Nat
            BY <2>2, CallFacts
          <5>3. call.a % Page \in 0 .. Page - 1
            BY <5>2, Geometry, Division
          <5>4. left = InPage(call)
            BY <2>2, <5>1, <5>2, <5>3, Geometry DEF Under, InPage
          <5>5. left <= Room
            BY <5>1, <5>2, <5>3, <5>4, Geometry DEF InPage, Room
          <5> QED BY <4>1, <5>5, PieceCases DEF Programs
        <4>2. CASE call.op # "page_program_noblocking"
          BY <2>4, <4>2, PieceCases DEF Noblocking, Programs
        <4> QED BY <4>1, <4>2
      <3> QED BY <1>5, <2>2, <2>3, <2>4, <3>1, StoreSucceeds DEF SendCommand, Return
    <2>5. CASE call.op \notin Noblocking
      BY <1>5, <2>2, <2>5 DEF SendCommand, Store!vars
    <2> QED BY <2>4, <2>5
  <1>6. CASE ReadChunk
    <2>1. /\ pc = "read" /\ UNCHANGED <<mem, busy, before>> /\ call # Idle /\ call.op = "read"
          /\ call \in Calls /\ before = mem /\ Settled' = before
      BY <1>0, <1>6, SettledSame, SettledIdle
         DEF ReadChunk, Return, device, TypeInv, Place, FlashInv, ReadInv, Reading
    <2>2. CASE left = Chunk
      <3>1. call' = Idle /\ result' = [stat |-> "success", data |-> result'.data]
        BY <1>6, <2>2 DEF ReadChunk, Return
      <3>2. result'.data = ReadCells(mem, call.a, call.len)
        BY <1>0, <1>6, <2>1, <3>1, ChunkRead
      <3>3. Effect(before, call) = before
        BY <2>1, Zenon DEF Effect, Programs
      <3>4. result' = [stat |-> "success", data |-> ReadCells(before, call.a, call.len)]
        BY <2>1, <3>1, <3>2, Zenon
      <3>5. Store!Succeeds
        <4>1. (IF call = Idle THEN Settled ELSE before) = before
          BY <2>1
        <4>2. (IF call' = Idle THEN Settled' ELSE before') = Effect(before, call)
          BY <2>1, <3>1, <3>3
        <4>3. Store!ReadCells(before, call.a, call.len) = ReadCells(before, call.a, call.len)
          BY Zenon DEF ReadCells, Store!ReadCells, Mixed, Store!Mixed
        <4> QED BY <2>1, <3>1, <3>4, <4>1, <4>2, <4>3, Zenon DEF Store!Succeeds
      <3> QED BY <3>5
    <2>3. CASE left # Chunk
      BY <1>6, <2>1, <2>3 DEF ReadChunk, Store!vars
    <2> QED BY <2>2, <2>3
  <1>7. CASE PollFails \/ WriteEnableFails \/ ReadFails
    <2>1. /\ call # Idle /\ call' = Idle /\ UNCHANGED <<mem, busy>>
          /\ result' = [stat |-> "error", data |-> << >>]
      BY <1>0, <1>7 DEF PollFails, WriteEnableFails, ReadFails, Return, device, TypeInv, Place
    <2> QED BY <2>1, SettledSame, StoreFails
  <1>8. CASE SendCommandFails
    <2>1. /\ pc = "command" /\ call # Idle /\ call' = Idle /\ UNCHANGED mem
          /\ result' = [stat |-> "error", data |-> << >>]
      BY <1>0, <1>8 DEF SendCommandFails, Return, device, Obeys, TypeInv, Place
    <2>2. CASE UNCHANGED device
      BY <2>1, <2>2, SettledSame, StoreFails DEF device
    <2>3. CASE ~UNCHANGED device
      <3>1. \/ Obeys(Command(Piece))
            \/ \E n \in 1 .. Piece : call.op \in Programs /\ Obeys(Command(n))
        BY <1>8, <2>3 DEF SendCommandFails
      <3> QED BY <2>1, <3>1, CommandWritten, StoreFails
    <2> QED BY <2>2, <2>3
  <1>9. ASSUME NEW c \in Calls, Call(c) PROVE [Store!Ask \/ Store!Answer]_(Store!vars)
    <2>1. call = Idle /\ c # Idle
      BY <1>0, <1>9, CallFacts DEF Call, TypeInv, Place
    <2> QED BY <1>9, <2>1 DEF Call, Pending, Store!Ask
  <1>10. CASE UNCHANGED vars
    BY <1>10, SettledSame, StoreRests DEF vars, device
  <1> QED BY <1>1, <1>2, <1>3, <1>4, <1>5, <1>6, <1>7, <1>8, <1>9, <1>10
          DEF Next, Driver, Failing

\* The driver implements the flash it promises, step by step: whatever the
\* geometry, the lengths and the alignment, split over pages, sectors, blocks
\* and transfers, with any number of transfers that fail, a call that succeeds
\* has had exactly its effect or has read what is there, and one that fails has
\* changed nothing it was not asked to (hpm_serial_nor.c l.896-1029).
THEOREM StoreImplemented ==
    ASSUME CsAuto, ~Cached, ~Crossing, "shifted" \notin Requirements
    PROVE  Spec => RefinesStore
  <1>1. Init => StoreInv
    BY InitType, InitHear, InitRead, InitFlash DEF StoreInv
  <1>2. StoreInv /\ [Next]_vars => StoreInv'
    BY StepType, StepHear, StepRead, StepFlash DEF StoreInv
  <1>3. StoreInv /\ [Next]_vars => [Store!Ask \/ Store!Answer]_(Store!vars)
    BY StoreStep
  <1>4. Init => call = Idle
    BY DEF Init
  <1> QED BY <1>1, <1>2, <1>3, <1>4, PTL DEF Spec, RefinesStore, Store!Spec
=============================================================================
