# Formal models of the HPM SDK with PikaPython

This directory holds TLA+ models of the stateful core of the repository (HPM SDK
1.3.0 with the PikaPython port under `samples/pikapython`), the TLC configurations
that check them on small instances, and TLAPS proofs about them.  Line numbers in
comments and below refer to the files of the repository.

1. [The system](#1-the-system)
2. [The modules](#2-the-modules)
3. [EEPROM emulation](#3-eeprom-emulation)
4. [DMA manager](#4-dma-manager)
5. [PikaPython event queue](#5-pikapython-event-queue)
6. [Ethernet port](#6-ethernet-port)
7. [Serial NOR flash](#7-serial-nor-flash)
8. [Two cores: events and remote calls](#8-two-cores-events-and-remote-calls)
9. [Fairness](#9-fairness)
10. [What is proved](#10-what-is-proved)
11. [Disagreements between code and documentation](#11-disagreements-between-code-and-documentation)
12. [What is not modelled](#12-what-is-not-modelled)
13. [Plan](#13-plan)

To check a run: `tlc -config E2P_base.cfg MC_E2P`; `PROJECT.json` names the module of
every `.cfg`.  To check the proofs: `tlapm E2P_proofs.tla`, and so on.

## 1. The system

The SDK is a set of drivers (`drivers/`), components on top of them
(`components/`), middleware that is mostly vendored (`middleware/`), and samples.
Nearly all drivers are register accesses.  State that lives from one call to the
next, and that more than one party touches, is in the components.

| component | state it keeps | operations | talks to | what is hard |
|---|---|---|---|---|
| EEPROM emulation (`components/eeprom_emulation`) | the flash area; `p_data`, `p_info`, `remain_size`; `e2p_info_table` | config, write, read, flush, format | NOR flash port, by the `flash_read/write/erase` callbacks | power loss between two flash calls, flush in place, boundaries of sectors and buffers |
| NOR flash port (`.../port/hpm_nor_flash.c`) | none; the flash | read, write, erase | ROM API | programming only clears bits |
| DMA manager (`components/dma_mgr`) | per channel: `is_allocated`, callbacks and their data | request, release, set up, install callback, enable, disable, abort, mask, poll; interrupt handler | DMA controller registers, callers' callbacks | tasks, handler and controller interleave; one status register for all channels; hand-over of a channel |
| DMA driver v1 (`drivers/inc/hpm_dma_drv.h`) | the controller's registers | set-up, start, stop, abort, status, interrupt masks | DMA controller | write-one-to-clear status, read-modify-write of control |
| PikaPython event queue and interpreter lock (`pikascript-core/PikaVM.c`, `PikaObj.c`) | `g_pikaGIL`; ring `cq`; `vm_cnt`; `event_pickup_cnt`; `event_thread` | send, send and await, pick up, lock and unlock | C tasks, scripts, FreeRTOS mutex and tasks | lock let go in the middle of scripts and handlers, unlocked reads, ring limits |
| PikaPython interpreter (rest of `pikascript-core`) | objects, byte code, heap | run scripts | event queue, device layer | sequential under the lock |
| PikaPython device layer (`PikaStdDevice`, `hpmicro`) | device objects | open, read, write | drivers, event queue | thin |
| Serial NOR (`components/serial_nor`) | geometry and command codes of the device, quad mode; a read buffer | init, program, page program, erases, read | SPI host, the device | split at pages, sectors, blocks and transfers; a device that ignores commands when busy; transfers that fail; the data cache |
| SPI component (`components/spi`) | transfer context, descriptors | DMA and blocking transfers | DMA driver | chunk arithmetic, linked descriptors |
| IPC event manager (`components/ipc_event_mgr`) | callback table | register, trigger, handle | mailbox of two cores | one word for all events, refused when full; registration against a remote interrupt |
| RPMsg-Lite link and eRPC (`middleware/erpc`, the SDK's port and the bare-metal sample) | virtqueues in shared memory, link state, endpoints, the transport's queue | start-up, request, one-way request, reply | IPC events, two cores | rings without a lock, doorbells that are thrown away, start-up in two programs |
| SDMMC (`middleware/hpm_sdmmc`) | card and host state | init, read, write, erase | SDXC driver, card | identification sequence, retries, timeouts |
| Ethernet driver and network port (`drivers/src/hpm_enet_drv.c`, `samples/lwip/common`) | descriptor rings, positions in them, semaphores | `low_level_output`, `ethernetif_input`, interrupt | controller, lwIP | ownership of descriptors, frames of several segments, a ring that fills, one semaphore for many frames |
| USB host (`components/usb/host`) | registers | port and schedule control | USB stacks | vendored users |
| serial bus components and console | none to speak of | blocking transfers | drivers | none |
| motor control, maths | controller variables | loops of arithmetic | PWM, ADC | numerical |
| other drivers | none | register access | peripherals | none |
| sensors, codecs, PHYs, touch | none | register tables | I2C, MDIO | none |
| vendored middleware | its own | | | third-party |
| samples, boards, SoC files, build, docs | | | | |

`PROJECT.json` lists every one of them with its sources and the reason where a
component is not modelled, and every hazard of the modelled ones at its line.

What makes the modelled components correct:

* **EEPROM emulation**: a read returns the value last written with success, through
  flushes and restarts; data and info blocks never meet; a write only programs
  erased cells; an interrupted write costs no *other* value; every call ends.
* **DMA manager**: a channel has one owner; a callback gets the data installed with
  it and is told of its own owner's transfers only; nobody clears or starts
  another's channel; a caller that waits is told.
* **Event queue**: accepted events are handled once, in order, all of them; the
  counters are exact; a caller that awaits a result gets the result of its event.
* **Ethernet port**: ownership of the descriptors goes round each ring in one piece;
  a frame reaches the stack, or the wire, once and in order; no complete frame waits
  for the next one.
* **Serial NOR**: a call that succeeds has had exactly its effect, one that fails has
  touched nothing outside its range; no command meets a device that would ignore it.
* **Two cores**: the link comes up; no message lies in a ring with nobody told; every
  buffer is in one place; every request is executed once, in order, and answered.

## 2. The modules

| module | what it is | extends / instantiates |
|---|---|---|
| `NorFlash` | cells, program (AND), erase, read | |
| `E2P` | the EEPROM emulation, each flash call a step | `NorFlash`; `KVStore` |
| `KVStore` | abstract: a map from ids to values | |
| `E2PAstray` | faults, and the emulation behind a torn block or an ignored error | `E2P` |
| `MC_E2P`, `MC_E2PAstray` | instances for TLC, `InfoFitsSector` | `E2P`, `E2PAstray` |
| `E2P_proofs` | proofs: layout; the values, without faults | `E2P`, `Multiples` |
| `E2PFault_proofs` | proofs: what is left after faults | `E2P_proofs`, `E2PAstray` |
| `DmaDrv` | registers of a v1 DMA controller | |
| `DmaMgr` | the manager, its callers, handler and controller | `DmaDrv` |
| `MC_DmaMgr` | instances for TLC | `DmaMgr` |
| `DmaMgr_proofs` | proofs | `DmaMgr` |
| `PikaEvents` | event ring, lock, event thread, senders, scripts | `EventBus` |
| `EventBus` | abstract: a bounded first-in-first-out bus | |
| `PikaEvents_proofs` | proofs | `PikaEvents`, `Multiples` |
| `EnetRx` | receive ring, interrupt, receiving task | `FrameQueue` |
| `EnetTx` | transmit ring, sending call | `FrameQueue` |
| `EnetPort` | both halves of the port | `EnetRx`, `EnetTx` |
| `FrameQueue` | abstract: a queue of frames, lossy or not | |
| `EnetPort_proofs` | proofs | `EnetPort`, `Multiples` |
| `SerialNor` | the driver, its SPI host and the device | `NorFlash`; `NorStore` |
| `NorStore` | abstract: calls with an effect on a flash | `NorFlash` |
| `SerialNor_proofs` | proofs | `SerialNor`, `Multiples` |
| `IpcEvents` | mailbox words and callback tables of two cores | |
| `RpmsgLink` | both programs, both handlers, the virtqueues | `IpcEvents`; `RpcChannel` |
| `RpcChannel` | abstract: requests and answers | |
| `RpmsgLink_proofs` | proofs: types, kicks, buffers, the channel | `RpmsgLink`, `Multiples` |
| `Multiples` | lemmas on multiples and remainders, going round a ring, and intervals cut into pieces | |

The abstract modules have a safety part (`Spec`) and what must happen in the end
(`Live` in `EventBus` and `RpcChannel`, `Fair` in `FrameQueue`): where
the first is proved, it is a property of its own, and TLC checks the other beside it.

`NorFlash` is shared: the emulation of section 3 and the driver of section 7 work on
the same cells, and what the first assumes of its port is what the second is shown
to give.  `EnetPort` puts both halves into one next-state relation; since they share
nothing, a run takes one of them at a time (`half`).  `RpmsgLink` composes the event
manager with the programs above it.

Operators named after a definition plus a suffix (`EraseTailTooLate` beside
`EraseTail`) are mutants: the definition with a plausible bug.  They stand in no
specification; each property is known to fail when its mutant replaces the
original.

## 3. EEPROM emulation

### Model

An area of `SectorCnt` sectors of `EraseSize` cells starts at address 0.  Data grows
up from 0, info blocks of `BLK` cells grow down from the top.  A cell holds a byte
of a value (`DataCell`), a part of an info block (`InfoCell`), `Erased`, or `Mixed`:
what is left when two different contents are programmed over each other.

| TLA+ | code |
|---|---|
| `flash` | the memory behind `config.flash_*` |
| `p_data`, `p_info`, `remain_size`, `version` | fields of `e2p_t` |
| `table` | `e2p_info_table`, by id |
| `order`, `i`, `count`, `head`, `tail`, `read_buf` | the sorted table and locals of `e2p_flush` |
| `block`, `req` | local of `e2p_write_private`, arguments of `e2p_write` |
| `pc` | where the call in progress stands |
| `acked`, `dirty`, `faults` | history: what was written with success, what was touched since the first fault |

| actions | code |
|---|---|
| `Config`, `ConfigErase`, `ConfigInfo`, `ScanEnd`, `ScanBlock`, `ScanTorn` | `e2p_config` (l.208-262) |
| `Write`, `WriteData`, `WriteInfo` | `e2p_write`, `e2p_write_private` (l.109-145, 350-361) |
| `FlushTry`, `FlushBegin` | the calls of `e2p_flush`, with and without the condition (l.267-275) |
| `FlushEraseInfo`, `FlushEraseShared`, `FlushRestore` | `e2p_earse_info_sector` (l.180-206) |
| `FlushRead`, `FlushErase`, `FlushSuspend`, `FlushBackData`, `FlushBackInfo` | the three inner loops (l.288-329) |
| `FlushEraseTail`, `FlushTailDone`, `FlushRestData`, `FlushRestInfo`, `FlushConfigInfo` | the rest of the flush (l.331-348) |
| `E2pRead` (an operator, reads change nothing) | `e2p_read` (l.363-383) |
| `Format`, `Restart` | `e2p_format` (l.385-390), a reset between two calls |
| `PowerLoss`, `WriteFails` | a fault before, after or inside a flash write of `e2p_write` |
| `E2PAstray!ScanTakesTorn` | the scan of `e2p_config` behind a slot that no write has written as it stands (l.241-261) |

Checksums are modelled as the content itself: two contents have the same checksum
iff they are equal.  `EntryLengths` lets the write-back loop, which reads the entry
*behind* the last one it has read (l.314), find any length past the end of the
table.

`e2p_config` can return an error before it has read all blocks (`Refuse`; l.251, l.259).
What happens next is up to the application, and the constant `Heeds` says which kind it is:
one that leaves the store alone until it has formatted it or configured it once more, or one
that goes on with the pointers as the scan left them.  Both SDK samples are of the second
kind: `samples/eeprom_emulation/perf/main.c` and `base` ignore the result.

`Next` is the emulation without faults, and `ScanMeetsWhole` says that its scan finds nothing but
slots that one `e2p_write_private` wrote (`SlotWhole`).  `FaultyNext` adds `PowerLoss` and
`WriteFails` and, at a later restart, `ScanTorn`: the scan meets any other slot, and `E2P` ends
there in `"wild"`.  `E2PAstray` takes the steps of `FaultyNext` and goes on from there as the code does: `SlotSays` is what the id, address and
length of a slot can be, `ScanTakesTorn` moves the pointers by them, with an unsigned
`remain_size` that wraps, sets the table, and scans on or returns an error.  Two variables are
added: `astray`, which is 0 until a torn slot is met or an error of `e2p_config` ignored and
counts the calls from then on, and `unread`, the ids of the blocks below the place where the
last `e2p_config` returned its error.  What `E2PAstray` takes for granted:

* a flash write that breaks off has programmed whole words, the block's first ones, so that
  a torn slot has the id, or the id and the address, or all but the checksum, of its block
  (`BrokenOff`); a slot in which different contents lie over each other has any id and any
  of the model's lengths (`JunkBlocks`);
* an id that is nobody's takes no entry of the table;
* the memory below the area and behind `read_buf`, which a scan or a flush that has gone
  astray can reach, is not modelled: behaviours end there (`InArea`, `InReadBuf`);
* after going astray `MaxAstray - 1` calls are followed, and restarts until the first of them.

### Runs

| run | bounds | shows |
|---|---|---|
| `e2p_base` | 3 sectors of 13, blocks of 3, 2 ids, lengths 2 and 6, 2 versions, `Heeds`; no faults; fair | `TypeOK`, `LayoutOK`, `ReadsLatest`, `FreeSpaceErased`, `ScanMeetsWhole`, `NeverReprograms`, `FlushCompacts`, `CallReturns`, and the refinement of `KVStore` |
| `e2p_fault` (of `E2PAstray`) | 2 sectors of 9, blocks of 2, 2 ids, lengths 1 and 3, 1 version, `~Heeds`, one fault in `e2p_write`, 2 calls after going astray | `SettledSurvive`, `LossContained` |
| `e2p_multi` | 3 sectors of 8, 4 ids of length 4 | violates `FlushKeepsLatest` |

*Why the bounds are enough.*  In three sectors the data ends below, inside or beside
the sector of the info blocks, both branches of `e2p_earse_info_sector` run, the
tail loop (l.331-334) has a sector between them to erase, and the area fills up
several times, so that flushes follow on flushes.  Values of two lengths, one shorter and one
longer than an info block, reach the boundaries at many offsets, and the scan is refused at
l.257 with a block unread.  A fault needs two sectors only: `e2p_write` does not look at
sectors.  `e2p_base` has 307,000 states, `e2p_fault` 2.1 million.

*What the passing runs and the theorems assume.*  Of sizes, what `Sized` says in `E2P_proofs`.
The instances of `MC_E2P` and `MC_E2PAstray` meet it, and so do the SDK's samples (128 sectors
of 4096 bytes, 100 variables, blocks of 20 bytes; values of 8 bytes in `perf`, of 4 to 12 in
`base`).  Of the application, `Careful`: it heeds an error of `e2p_config`, or writes no value
shorter than an info block.  The samples do *not* meet that.  `Fit` is `Sized` and `Careful`.

What becomes of an application that is not careful: without faults all is well until an
`e2p_config` returns `E2P_ERROR_NO_MEM` because fewer than two info blocks of room are left
(l.257) while another block lies below, which takes values shorter than a block.  In the
sizes of `perf` the first info slot is at 524248 of 128 * 4096, a write takes 28 bytes, and
524248 mod 28 = 4: the gap goes 60, 32, 4, both writes are accepted, and a restart
returns at the gap of 32.  The block below, which stays unread, holds the latest value: the
read returns an older one, and the next write goes over it.  With `Heeds = FALSE` in `E2P_base.cfg`, `ReadsLatest`
fails that way in 25 states.  `SettledSurvive` (`astray = 0`) says that it fails in no other,
and `LossContained` that nothing but unread blocks is lost then.  Each part of `Sized` is
needed too:

* latest values that fit one sector (`MaxVar * len <= EraseSize`): without, `e2p_multi`
  shows what happens; with single values up to the erase size, the limit of the
  documentation (4 sectors of 6, lengths 5 and 6), even `ReadBufFits` fails: the read
  buffer of two sectors is overrun;
* version and info blocks of all variables inside one sector (`(MaxVar + 2) * BLK <
  EraseSize`, `InfoFitsSector`): with equality the info blocks end exactly at a sector
  boundary, the tail loop stops one sector early and `FreeSpaceErased` fails;
* data that does not reach the last sector before info blocks have filled it
  (`(EraseSize - 2 * BLK) * len <= BLK * (AreaSize - EraseSize)`: values are small against
  blocks, or sectors are many).  Otherwise the flush erases that sector, writes what lies
  below the info blocks back at once (l.197-204), and neither the erase loop (l.306) nor the
  tail loop (l.331) erases it again: old values stay in free space, a later `e2p_write`
  programs over them, returns OK, and the value reads with a wrong checksum.  With two
  sectors of 10, blocks of 1 and values of 5 `ReadsLatest` fails in 29 states without any
  fault; of real sizes, two sectors of 4096 bytes, blocks of 20 and values of 40 meet it.
  This one was found by the proof: the invariant of the flush would not hold without it.

Only the first is kept as a run.  The others, and `Heeds`, are one constant away from the
given `.cfg` files, and the hazards in `PROJECT.json` point to them.

`FlushCompacts` says that a flush leaves one info block for each variable that has a
value and no other, that the extents of their data are disjoint and together exactly the
cells below `p_data`, and that everything between data and info blocks is erased.

`RefinesKVStore` says more than `ReadsLatest`: a write returns `E2P_ERROR_NO_MEM`
only if the latest values *alone*, each with its info block, leave no room for it,
so the flush in `e2p_write` recovers every byte an old version took.

`SettledSurvive` is weaker than `ReadsLatest` because the code promises less: after
a power loss between the two writes of `e2p_write_private` the next data is
programmed over the orphaned data and the write still returns OK.  The variable
that is written then is lost; the property is about all variables not written
since the fault, and it ends where an `e2p_config` meets the torn block or its error is
ignored.

`LossContained` is about what comes then: the scan takes the torn block for one of whatever
its bits say, with the pointers anywhere, or ends at it; the calls that follow work on such a
store.  A variable that was not written since the fault, and whose blocks the scan has
read, keeps its value.  It holds for as long as no write is programmed over another (no
cell is `Mixed`): from there on a slot may say anything, the id of a settled variable
included, and nothing is promised.  `ScanMeetsWhole` and `RefinesKVStore` are about the store
without faults; `RefinesKVStore` is of the careful application only.

## 4. DMA manager

### Model

`DmaDrv` has the two registers that matter.  `INTSTATUS` is a set of one-bits, and
a write clears the bits written as one (`W1C`).  Each bit carries, as a tag no
driver reads, the session that started the transfer which raised it.  `CTRL` is an
enable bit and the masked events.

`DmaMgr` is one core.  Tasks request channels, use them through the manager, and
release them; the time between is a *session* and stands for the callbacks and data
it installs.  A call that touches shared state twice is two steps
(`SetupStatus`/`SetupWrite`, `InstallData`/`InstallCb`, `CtrlRead`/`CtrlWrite`,
`ReleaseSearch`/`Release`).  What the manager does between `dma_mgr_enter_critical`
and `dma_mgr_exit_critical` is one step.  No task runs while the handler does
(`isr # NoSlot`); the controller always may.

| TLA+ | code |
|---|---|
| `alloc`, `cb`, `data` | `is_allocated` and the callback pairs of `dma_chn_context_t` |
| `intstatus`, `ctrl`, `irq` | registers of the controller, its interrupt enable |
| `isr` | the loop variable of `handle_dma_isr` (l.86-118) |
| `slot`, `arg`, `pc` | a task's `dma_resource_t`, the locals of the call, where it is |
| `stage`, `armed`, `done` | the caller's side, as in `samples/dma_manager`: set up, started, `has_done` |
| `job` | history: the session that started the channel last |

`CtrlRead`/`CtrlWrite` stand for all calls that read CTRL and write it back whole:
enabling and disabling channel interrupts and the setters of priority, modes,
widths, burst size and address control (l.480-568, l.600-628, l.660-688), and for
`dma_mgr_enable_channel` of a channel that runs already.

`EnableChannel` starts an idle channel, newly set up or not: the flag `has_done` and the
status may still have the end of the transfer before, and a caller can rely on its
callbacks (`armed`) only when neither has.  The controller may also refuse the start
(`status_fail`, `hpm_dma_drv.h` l.169-171).  A caller clears its flag in a step of its own
(`ClearDone`).  `Report` is the controller setting a status bit; one that is set already
stays as it is, with the tag of the transfer that set it.

What callers do is governed by six constants, because the interface leaves it to
them and the properties differ in what they need:

| constant | when TRUE, a caller may | what goes wrong |
|---|---|---|
| `EarlyCb` | install a callback before it sets the channel up | the callback is told of what the owner before has left in the status (`OwnCompletion`) |
| `Abandon` | release or set up a channel that runs | the next owner's callback is told of the old transfer (`OwnCompletion`) |
| `Reinstall` | replace a callback it has installed | an interrupt between the two stores pairs the old callback with the new data (`DataMatchesCallback`) |
| `LiveCtrl` | change a control field of a running channel | the write can set again the enable bit the controller has just cleared, and the transfer starts once more; no property fails, see below |
| `ShareIrq` | disable the controller's interrupt while others use it | their completions wait for ever (`WaitEnds`) |
| `RawClear` | call `dma_clear_transfer_status` | it clears the others' status and not its own (`ClearsItsChannel`, `NoForeignClear`) |

`OneOwner` needs none of them to be FALSE.

### Runs

| run | bounds | shows |
|---|---|---|
| `dma_handover` | 1 channel, 2 tasks, sessions numbered by 2, events tc, half, abort; `LiveCtrl`, `RawClear` | `DataMatchesCallback`, `OwnCompletion`, `DoneMeansOver` |
| `dma_live` | 1 controller of 2 channels, 2 tasks, event tc; fair | `TypeOK`, `OneOwner`, `WaitEnds`, `NoForeignClear` |

*Why the bounds are enough.*  The hazards are between one caller and the next on
the same channel, and between two callers on two channels of one controller: one
or two channels and two tasks have both.  Session numbers are reused in turn, so
runs are unbounded in length.  The proofs (section 10) cover every number of tasks,
channels, controllers and events for every safety property in the table.

`WaitEnds` is for callers that have a callback for every way a transfer can end
(`Covered`) and whose start the controller has taken.  The sample itself installs only
the TC callback and ignores the result of the start (`dma_manager.c` l.122): it would wait
for ever after an error or a refused start.

That no change of a control field starts a channel is not stated.  It is false of the code
when a caller changes a channel that runs (`hpm_dma_drv.h` l.509, l.520: read-modify-write
against the controller's clearing of the enable bit), and for all other callers it holds
because the channel is idle when CTRL is read.  `dma_handover` has `LiveCtrl = TRUE`, and
shows that callbacks, completions and `has_done` stay right through such a second transfer,
which counts as the caller's own.

`dma_clear_transfer_status` (`hpm_dma_drv.h` l.496) writes `&= ~mask` to a register that
is cleared by writing ones: it clears every channel but the one it is for.  The
manager never calls it.  With `RawClear` and two channels `ClearsItsChannel` fails in
two steps; `dma_handover` shows that the callbacks stay right even so.

## 5. PikaPython event queue

### Model

`PikaEvents` begins when a script has started its first thread, when the interpreter
lock becomes a mutex.  What a task does under the lock without letting go of it is
one step; the places where it lets go, and the two places where the queue is read
without it, separate steps.

| TLA+ | code |
|---|---|
| `gil` | the holder of `g_pikaGIL` |
| `head`, `tail`, `id`, `res` | `g_PikaVMSignal.cq` (`PikaVM.h` l.134-141) |
| `vm_cnt`, `event_pickup_cnt`, `event_thread` | the fields of that name of `g_PikaVMSignal` |
| `pc`, `job`, `slot` | a thread's position, the event it handles, and `cq.head` as read by `__VMEvent_pickupEvent` |
| `await`, `got` | `tail` and `res` of `pika_eventListener_sendSignalAwaitResult` |
| `sent`, `handled` | history |

| actions | code |
|---|---|
| `ScriptRuns`, `ScriptEnds` | the shell reads a line (lock free) and runs it (`PikaVM.c` l.4170-4246) |
| `Naps`, `Wakes` | `_time_sleep_ms` in a script or in a handler |
| `Send`, `SendAwait`, `Push`, `Poll` | `pika_eventListener_sendSignal`, `...AwaitResult`, `_do_pika_eventListener_send`, `__eventListener_pushEvent` |
| `ThreadPicks`, `SenderPicks`, `HandlerEnds` | `_thread_event`, `__VMEvent_pickupEvent`, `__eventListener_runEvent` |

The result of a callback is represented by the event it handled.  `Failing` senders
send ids with no handler, whose result is NULL.

`Solo` is the discipline a caller of `...AwaitResult` needs: the queue is empty and
nobody else sends while it waits.  Without it the property fails (`pika_await`),
because `cq.tail` is read before the lock is taken.

### Runs

| run | bounds | shows |
|---|---|---|
| `pika_base` | 1 script task, the event thread, 2 senders of 2 events, ring of 3, 2 handlers at once; fair; `Solo` | `TypeOK`, `CountsExact`, `AwaitGetsOwn`, the refinement `RefinesBus` of `EventBus`, `EventsEnd`, `AwaitReturns` |
| `pika_await` | the same without `Solo` | violates `AwaitGetsOwn` |

*Why the bounds are enough.*  A ring of 3 is full with 2 events and wraps with the
third of four.  Two handlers at once are one in the event thread and one in a
sender, one asleep while the other runs.  `PIKA_EVENT_LIST_SIZE` and
`PIKA_EVENT_PICKUP_MAX` are larger in the code; `CountsExact` is proved for every
value.

`RefinesBus` maps the ring to a sequence and the threads' jobs to a set of running
events: no accepted event is lost, overtaken or handled twice.  `EventsEnd` adds that
under the fairness below each of them is handled in the end.

## 6. Ethernet port

### Model

A descriptor is `Free` (its own bit set: the DMA's) or holds a segment of a frame with
its first and last bits.  The DMA closes descriptors one by one, flushes what finds
none, and raises an interrupt at the end of a frame.

| TLA+ | code |
|---|---|
| `rx`, `tx` | the descriptor lists of `hpm_enet_drv.c` |
| `rx_dma`, `left`, `name`; `tx_dma` | where the controller is, and the frame it is storing |
| `cur`, `fs_rx_desc`, `seg_count` | `rx_desc_list_cur` and `rx_frame_info` of `enet_desc_t` |
| `ri`, `rx_sem`; `tx_sem` | pending interrupt, `s_xSemaphore`; `xTxSemaphore` with its holder |
| `rx_pc`, `pbuf`, `input` | `ethernetif_input` and its local, what the stack has taken |
| `tx_cur`, `seen` | `tx_desc_list_cur`, and the copy `low_level_output` takes of it before it has the semaphore |

| actions | code |
|---|---|
| `Store` | the controller; a frame that runs out of descriptors is closed early |
| `RxIsr` | `isr_enet` (`common_lwip.c`) |
| `RxWake`, `Receive`, `ReceiveNone` | `ethernetif_input`, `low_level_input`, `enet_get_received_frame_interrupt`: the scan over the ring and the descriptors given back |
| `InputTakes`, `InputRefuses` | `netif->input` |
| `Output`, `TakeSemaphore`, `TimesOut`, `FillStops`, `Fill`, `Prepare` | `low_level_output`, `enet_prepare_tx_desc` |
| `Transmit` | the controller |

`Scans(n)` describes the scan by its result: it stops at a last segment, at a free
descriptor, or after one round.  `Count(n)` and `First(n)` are what it leaves in
`rx_frame_info` when it has begun on a frame in an earlier call.

### Runs

| run | bounds | shows |
|---|---|---|
| `enet_base` | receive ring of 3, frames of 1 and 3 buffers, names modulo 6; transmit ring of 3, two senders, packets of one pbuf and one buffer; fair | `RxTypeOK`, `RingInOnePiece`, the refinements `RefinesRxQueue` and `RefinesTxQueue` of `FrameQueue`, and `RxDrains` and `TxDrains`: what waits is passed on |
| `enet_output` | the same | violates `OkMeansQueued` |

*Why the bounds are enough.*  A ring of three holds a frame of one buffer beside the
beginning of one of three, so frames are cut short, begin anywhere in the ring, wrap
around, and are met half-way by the scan.  Names are reused in turn; a queue never
holds two frames of the same name.  `RingInOnePiece` is proved for every length.

A packet is named by its sender and a number; a sender gives the next number to the
packet after one it has handed over, and keeps it for the next call when a call was
turned away.  So the numbers in the ring are those of the hand-overs, and a ring of
`TxCount` never holds the same one twice (`Rounds > TxCount + 1`).

*What the passing run assumes.*  Packets of one pbuf and one buffer: the samples'
buffers hold a whole frame (`ENET_TX_BUFF_SIZE`), and lwipopts.h asks for one pbuf
(`LWIP_NETIF_TX_SINGLE_PBUF`).  `RefinesTxQueue` fails

* with `Buffers = {1, 2}`: only the last descriptor of a packet gets the own bit
  (`hpm_enet_drv.c` l.585);
* with `Chains = {1, 2}`: every pbuf of a chain overwrites the address of the one
  before (`ethernetif.c` l.209).

Two senders are no harm: the descriptor `low_level_output` looks at may be an old one,
because it copies the ring position before it waits for the semaphore
(`ethernetif.c` l.158), but with packets of one buffer *some* descriptor that is not the
DMA's means that the one at `tx_cur` is not either (`TxQueueImplemented`).  It may find the ring
full when it no longer is; the packet it then turns away was not handed over.

`RxDrains` excepts what the code gives up on: after a pbuf that could not be had, or a
stack that refused one, `ethernetif_input` stops reading until the next interrupt
(`gave_up`).

## 7. Serial NOR flash

### Model

`mem`, `wel`, `busy`, `qe` and `requirement` are the device; `selected` says that a failed
read has left it selected.  A transfer of the SPI host is one command.  The device
hears a program or erase only when it is idle and its write enable latch is set, and
is then busy until `Completes`.

| actions | code |
|---|---|
| `QuadEnable` | `prepare_quad_mode_enable_sequence` |
| `Call` | a call of the interface: `program_blocking`, `page_program_noblocking`, the erases, `read` |
| `PollBusy`, `PollBefore`, `PollAfter` | the loops on `hpm_serial_nor_is_busy` |
| `WriteEnable`, `SendCommand` | `hpm_serial_nor_write_enable`, and one program or erase command |
| `ReadChunk` | one transfer of `hpm_serial_nor_read`, and what the cache makes of the buffer |
| `...Fails` | the transfer of that step returns an error; a program may have reached the device in part |

`call`, `addr` and `left` are the call in progress; `before` keeps the flash as it was
when the call was made, which is what the refinement shows while it runs.

### Runs

| run | bounds | shows |
|---|---|---|
| `nor_base` | 8 cells, pages and sectors of 2, blocks of 4, transfers of 2, starts and lengths 1 and 4, one transfer that fails | `TypeOK`, `CommandsHeard`, the refinement `RefinesStore` of `NorStore`, and `CallReturns` |
| `nor_read` | the same, data cache on | violates `ReadsFlash` |

*Why the bounds are enough.*  Start 1 is inside a page, a sector and a block, start 4 at
the boundary of all; length 1 stays inside and length 4 reaches over two pages, two
sectors, a block's end and two transfers.  One failing transfer anywhere is what a
caller sees as one error; calls go on after it.

*What the passing run assumes*, and what fails without it:

* page programs within their page; `Crossing = TRUE`: the driver cuts the data at the
  end of the page and returns success (`hpm_serial_nor.c` l.1048-1052);
* a chip select driven by the SPI; `CsAuto = FALSE`: a failed read leaves the device
  selected (`hpm_serial_nor_host_spi.c` l.352);
* devices without a shifted quad enable bit; `Requirements = {"shifted"}`: the bit is
  shifted out of a byte (`hpm_serial_nor.c` l.483) and the write clears the register,
  after which quad transfers carry nothing;
* no data cache; `Cached = TRUE`: see `nor_read`;
* a caller that polls `hpm_serial_nor_is_busy` before a read or a call that does not wait
  (`Polled`).  The header asks for it behind the non-blocking erases only
  (`hpm_serial_nor.h` l.65, l.87); a read of a busy device returns success with no data of
  the flash.

## 8. Two cores: events and remote calls

### Model

`IpcEvents` is the event manager: for each core one mailbox word, the interrupt enable
and the types it has a callback for.  `ipc_tigger_event` on a full word changes nothing
and returns success.  `RpmsgLink` puts on top of it the two programs of
`erpc_matrix_multiply_rpmsg_bm`: each core runs its main program, one step at a time,
or, above it, the handler of one event, step by step too.

| TLA+ | code |
|---|---|
| `word`, `on`, `table` | MBX registers, `ipc_enable_event_interrupt`, the callback table |
| `ring[d].filled`, `ring[d].fresh` | the avail and used rings of the virtqueue of direction d |
| `link`, `bound`, `ept` | `link_state`, `isr_table`, the endpoint of each core |
| `inbox` | `m_messageQueue` of the transport (a static queue of one message less than the ring) |
| `hand` | the buffer a program works on |
| `ready`, `seq` | `eRPCReadyEventData`, request numbers |

| actions | code |
|---|---|
| `Enable`, `RegisterStart`, `Release`, `WaitReady`, `Open`, `Unmask`, `Announce`, `WaitLink`, `CreateEndpoint`, `PrintMatrices` | start-up of both cores |
| `CreateRequest`, `Send`, `KickPeer`, `Receive`, `VerifyReply` | the client: eRPC over `rpmsg_lite_send_nocopy` |
| `Process`, `CreateReply` | the server |
| `Interrupt`, `Note`, `Drain`, `Drained` | the mailbox handler and the callbacks of the virtqueues |

### Run

`rpmsg_base`: 4 buffers in each direction, as the sample configures; ring indices modulo
8, request numbers modulo 4, one one-way request between two calls; fair.  It shows
`TypeOK`, `BuffersOnce`, `NoLostKick`, `LinkComesUp`, the refinement `RefinesRpcChannel` of
`RpcChannel`, and `CallsEnd`: every call that was made returns.

*Why the bounds are enough.*  The number of buffers is the sample's own.  Indices and
request numbers wrap several times.  With `Burst = 2` the run passes as well, with
743,861 states; section 10 has the proof for every number of buffers N and every `Burst`
up to N - 2.

*What it assumes*, and what fails without it:

* `Burst` of at most N - 2, which is 2 here.  With three one-way requests in a row `BuffersOnce` fails: the
  transport's queue refuses the fourth message, nobody looks at the refusal, and the
  buffer is held for ever (`erpc_rpmsg_lite_transport.cpp` l.37);
* a client that calls when the server has its endpoint.  The sample prints two matrices
  in between and nothing else ensures it.  With `Hurried = TRUE` the kick of the first
  request can find the link-up kick still in the mailbox and is thrown away, and
  `NoLostKick` fails.

## 9. Fairness

| specification | assumed | because |
|---|---|---|
| `E2P` | weak, of the step of the call in progress | single-threaded code; a call goes on |
| `DmaMgr` | weak, of the end of a running transfer | the hardware finishes or reports an error |
| | strong, of entering the handler | a level interrupt stays pending; a task may turn the interrupt off and on in between |
| | weak, of each turn of the handler | nothing preempts it |
| | strong, of a task's next step inside a call and of the end of its wait | interrupts preempt tasks, again and again, but the core gets back to them |
| `PikaEvents` | weak, that a script sleeps or ends | a script that neither sleeps nor ends starves all others: the code has no preemption point without the lock |
| | strong, of taking the lock | a FreeRTOS mutex goes to the waiting task of highest priority, and among equals to the one that has waited longest; all PikaPython threads have `PIKA_THREAD_PRIO` |
| | strong, that a handler that runs again and again ends | it may sleep in its middle, but not for ever |
| | weak, of the sender's own polling and picking up | no other task can disable them |
| `EnetPort` | weak, of the interrupt and of the receiving task | the interrupt is enabled, and the task has the highest priority and no loop without a wait |
| | weak, of the controller sending | the line goes on |
| `SerialNor` | weak, of the device completing and of the driver | a device ends what it has begun; the driver runs to the end of its call |
| `RpmsgLink` | weak, of each core's program and of its handler | both cores run; a handler is left before the program goes on |

No fairness is assumed of requests, sends, set-ups, starts, frames or calls: nothing
has to happen that nobody asked for.  None is assumed of faults.

## 10. What is proved

All theorems hold for every value of the constants that satisfies the module's
named assumption (`E2PAssumption`, `DmaAssumption`, `PikaAssumption`, `RxAssumption`, `TxAssumption`,
`SizeAssumption`, `RingAssumption`), and under the discipline their statement names.

| theorem | states | needs |
|---|---|---|
| `E2P_proofs!TypeCorrect`, `LayoutCorrect` | `TypeOK`, `LayoutOK`, of `Spec` and of `FaultySpec` | |
| `E2P_proofs!LatestRead`, `FreeErased` | `ReadsLatest`, `FreeSpaceErased` | `Fit` |
| `E2P_proofs!ProgramsErased`, `FlushesCompact` | `NeverReprograms`, `FlushCompacts` | `Fit` |
| `E2P_proofs!StoreImplemented` | `RefinesKVStore` | `Fit`, `Roomy` |
| `E2PFault_proofs!SettledKept` | `SettledSurvive`, of `SpecA` | `Sized`, faults in `e2p_write` only |
| `E2PFault_proofs!HeedlessReadsLatest` | `ReadsLatest`, `FreeSpaceErased` and no reprogramming until an error of `e2p_config` is ignored, and no torn slot, of `SpecA` | `Sized`, no faults |
| `DmaMgr_proofs!TypeCorrect`, `OneOwnerCorrect` | `TypeOK`, `OneOwner` | |
| `DmaMgr_proofs!DataCorrect` | `DataMatchesCallback` | `~Reinstall` |
| `DmaMgr_proofs!CompletionCorrect`, `DoneCorrect` | `OwnCompletion`, `DoneMeansOver` | `~Abandon`, `~Reinstall`, `~EarlyCb` |
| `DmaMgr_proofs!ForeignClearNever` | `NoForeignClear` | `~RawClear` |
| `PikaEvents_proofs!TypeCorrect`, `CountsCorrect`, `LockExclusive` | `TypeOK`, `CountsExact`, `Exclusive` | |
| `PikaEvents_proofs!AwaitCorrect` | `AwaitGetsOwn` | `Solo` |
| `PikaEvents_proofs!BusImplemented` | `RefinesBus` | |
| `EnetPort_proofs!RxTypeCorrect`, `RingCorrect` | `RxTypeOK`, `RingInOnePiece` | |
| `EnetPort_proofs!RxQueueImplemented` | `RefinesRxQueue` | |
| `EnetPort_proofs!TxQueueImplemented` | `RefinesTxQueue` | `OneBuffer` |
| `SerialNor_proofs!TypeCorrect` | `TypeOK` | |
| `SerialNor_proofs!CommandsAreHeard` | `CommandsHeard` | `CsAuto` |
| `SerialNor_proofs!ReadsAreTrue` | `ReadsFlash` | `CsAuto`, `~Cached`, no shifted requirement |
| `SerialNor_proofs!StoreImplemented` | `RefinesStore` | `CsAuto`, `~Cached`, `~Crossing`, no shifted requirement |
| `RpmsgLink_proofs!TypeCorrect` | `TypeOK` | |
| `RpmsgLink_proofs!NoKickIsLost` | `NoLostKick` | `~Hurried` |
| `RpmsgLink_proofs!BuffersAreWhole` | `BuffersOnce` | `~Hurried`, `Burst <= N - 2` |
| `RpmsgLink_proofs!ChannelImplemented` | `RefinesRpcChannel` | `~Hurried`, `Burst <= N - 2` |

What a theorem needs is what the passing run of its property has as well, and each need
is shown there by what fails without it.  The code's own use meets them: the sample
prints two matrices before its first call and makes one one-way request between two
calls; a client of the NOR driver that programs pages stays within them;
the lwIP samples meet `OneBuffer` (section 6).  The EEPROM samples meet `Sized` and
`Roomy` and not `Careful` (section 3): of the theorems on values, `SettledKept` and
`HeedlessReadsLatest` hold for them, and the others, which need `Fit`, only while
`e2p_config` returns no error.

**`E2P_proofs`** (`TypeCorrect`, `LayoutCorrect`).  The inductive invariant is
`TypeOK /\ LayoutOK /\ FlowOK`.  `LayoutOK` alone is not inductive: the data write
of `e2p_write` happens a step after the room was checked, and the flush reads the
entry at index `i`; `FlowOK` carries both facts.  `LayoutOK` counts the info block
that is still to be paid for (`Pending`), so that `p_info - BLK` and the unsigned
`remain_size` stay above zero through both halves of `e2p_write_private`.  It holds
for every area, every set of lengths and, in `FaultySpec`, any number of faults, inside and
outside the assumptions of the passing runs; only the scan of a torn block is not in it.

*The values* (`Spec`, so no fault, and `Fit`: the sizes and the application of section 3).  Values may be
shorter than an info block.  What has to be kept is a
picture of the flash, `StoreInv`, and it is a different one at each point of a flush, the
only code that takes the store apart: at rest (`Resting`), with the data of a write down but
not its block (`Halfway`), during the scan of `e2p_config` (`Scanning`), after the info
sector is gone and what lay in it is in `read_buf` (`Saved`), while the values are read
(`Reading`), while sectors are erased (`Erasing`), while the values are written back
(`Between` two of them, `Within` one).  At rest the blocks are a `Chain`: in their slots
without a gap, the data of each beginning where that of the last one ended, the end of the
last one at `p_data`; and `acked` is, id by id, the content of the last block of that id
(`Newest`, `Recorded`).  During the flush the table alone knows the values (`Described`), and
the sort is a walk over it (`Walk`); the buffer has the values not yet written back side by
side, each where it will be on the flash (`Packed`).  Since the latest values fit one
sector, all of them are in the buffer before the first sector is erased: `Erasing` starts
with `i = Len(order)`.  `BelowTail` is what the erase loop and the tail loop leave to be
true, that below `tail` everything behind the data is erased.  `TopClear` says that the last
sector is erased but for the new info blocks; the last part of `Sized` is needed for it and
for nothing else.  `Careful` is needed at one step, where the scan returns an error with
a block unread and the application takes the store for complete (`GoesOn`): every lemma up to
`NextStore` asks only that this one step is not such a step, so that
`HeedlessReadsLatest` can use them all.

`ReadsLatest`, `FreeSpaceErased` and `NeverReprograms` are read off `StoreInv`.
`FlushesCompact` needs that consecutive extents cut `0 .. p_data - 1` into disjoint pieces
(`Multiples!Tiling`, by the least counterexample, since a sum over the blocks cannot be
reasoned about).  `StoreImplemented` adds that no write is refused: with three sectors
(`Roomy`) a flush always leaves room, so the abstract refusal, which compares sums, is never
taken.

**`E2PFault_proofs`** (`SettledKept`).  The run has one fault and two sectors; the theorem
any number of faults, at data and at info writes, with power losses and reported errors in
any order, any restarts, flushes, formats and further writes in between, and every area that
is `Sized`.  After a fault `StoreInv` is gone for good: a slot may hold part of a block, or a
whole one whose variable never heard of it; the next write goes over what is there, returns
OK, and its cells read as neither content.  What survives is stated for the variables that
have not been written since the first fault (`Settled`), and `FaultInv` is the picture of
the flash at each point again, with less in it.  There is a length `n` such that the first
`n` slots have blocks one behind the other (`Base`), those of settled variables with their
data; the last block of every settled variable is among them (`Keeps`).  The pointers of RAM may
be further on (`Filled`, `m >= n` slots; `End(flash, n) <= p_data`), because writes after a
fault move them past slots that no scan will accept.  Whatever else is on the flash is either no
info cell or one of a block of an unsettled variable (`Stray`): so a scan that meets it can at
most give an unsettled variable an old or a wrong value, and never one to a settled variable.
The theorem is about `E2PAstray`'s specification, up to the step on which a scan
meets a torn slot or an error of `e2p_config` is ignored (`NotAstray`); what the code does from
there on is in the run, by `LossContained`, and not proved.  The flush is again where this
is hard: an unsettled variable in the table has any address and any cells, but its length is
one of `Lengths`, so that the bounds on `read_buf` and on the sectors still hold (`Packed` speaks
of cells only for settled variables, of places for all).

The invariant of the theorem, `KeptSound`, is `KeptInv` until then, and `KeptInv` is `StoreInv` as long as there was no fault and
`FaultInv` from the first one on.  `RestingKept` and `HalfwayKept` are the passage: a whole store
is one that keeps what is settled.  `FaultKept` is the fault itself, the first or a later one.
TLC checked `FaultInv` as an invariant of an instance before it was proved.

**`DmaMgr_proofs`**.  `TypeCorrect` and `OneOwnerCorrect` from `TypeOK /\ OneOwner /\
ArgOK` (`ArgOK`: a call half done has the locals it will use), with no assumption on
callers.  `DataCorrect` needs `~Reinstall` and adds `Matched`: a callback that is in
place has its data, and one about to be stored finds its data there.
`CompletionCorrect` needs `~Abandon /\ ~Reinstall /\ ~EarlyCb` and adds `Owned`: a free channel is
idle with no callbacks, and a held channel's pending bits and running job belong to
its holder from set-up on.  The core of the argument is `OthersOwned`: what one task
does with its channel leaves every other task's channel alone, except that pending
bits may go.

`DoneCorrect` adds `Timely` to `Owned`: a channel that is set up and not started has no
pending bit that could end its next transfer, and while the transfer of an armed caller
runs there is none either and `has_done` is clear.  `ForeignClearNever` is about single steps and needs only that the task's slot
is its own.

**`PikaEvents_proofs`**.  The invariant is `TypeOK /\ Exclusive /\ Roles /\ RingOK /\
CountsExact`.  `Exclusive`: the threads in a position that needs the lock are exactly
the one that holds it.  `Roles`: which kind of thread can be in which position, and
that it has a job exactly where it handles one; without it a count could not be
matched with a thread.  `RingOK`: the places between head and tail have
been written, so what is picked up is an event.
`CountsCorrect` counts threads with `Cardinality` and rests on the lemmas of
`FiniteSetTheorems`.  `LockExclusive` is the commented-out assertion of
`PikaVM.c` l.81: no two threads run Python at once.
`AwaitCorrect` adds `Alone` (`AwaitOK` and `GotOK`): while a caller waits, no other sender
is in a call; before its push the ring is empty and the tail is still where it was read;
after it, its own event is the only one in the ring or under way, and the place holds
nothing or the result of that event.
`BusImplemented` needs no discipline.  The sequence the abstract bus keeps is the ring read
from `head` on, with its length taken from `tail - head` modulo the ring (`Cell`, `Span`):
`PendingGrows` and `PendingShrinks` are a push and a pick-up as `Append` and `Tail`.  Its set
is the events of the threads that handle one, and for `Start` not to meet an event twice the
proof carries `Once`: an event is in one place of the ring or with one thread, was sent
before, and the next event of each sender is a new one.

**`EnetPort_proofs`**.  `RingInOnePiece` is not inductive: whether the scan counts a
frame right depends on what the frames in the ring look like.  `RingOf(n)` adds that a
frame begins where the last one has ended, that the driver has walked past the
beginning of one frame only, and that the last frame is complete unless the DMA is in
the middle of it.  From that `ScanStaysBehindDma` shows that the scan does not go round
the ring into its own beginning (a full ring ends with a last segment), and
`ScanCounts` that it finds the first segment and the number of segments.  `AtFacts` is
the arithmetic of going round a ring of any length.

`RxQueueImplemented` needs the frames themselves.  `Frames(n, f, e)` says that of the n closed
descriptors the last segments are the ones before the places `e[1] .. e[f]`, and that the
names of the frames follow on each other up to the one the DMA is storing; `Taken(f)` puts the
frame in the task's hand in front of them.  `CompleteIs` reads the abstract queue off that.
A step of the DMA lengthens `e` by one place or leaves it alone (`SegmentFrames`); a frame
taken shifts it (`ReceiveFrames`), which needs that the scan stops at the first last
segment.  The queue never meets a frame twice because fewer than `Names` are in it
(`NamesApart`).

`TxQueueImplemented` is for packets of one pbuf and one buffer (`OneBuffer`), any number of
senders and a ring of any length.  `TxRingOf(n)`: the n packets to send lie behind the
descriptor the DMA is at, without a gap, and `tx_cur` is the place after them.  `Holder`: a
sender between its look at the ring and its hand-over has the semaphore, and the ring has room
even if the position it looked at is an old one.  That the abstract queue never meets
a packet twice needs the numbers: before the packet d places from the last one, at most d
others of the same sender have been handed over since (`Within`), which is less than `Rounds`.

**`SerialNor_proofs`**.  `HearInv`: the device is never left selected, a driver past its
poll knows it is idle, and one about to send a command has set the latch.  `ReadInv`:
during a read the device stays idle, and the buffer holds what the flash holds up to
the address reached, for any split into transfers.
`TypeCorrect` needs `Place`, where a call has got to: what is left of a program fits the flash,
and what is left of an erase ends at a boundary of its unit.  `StoreImplemented` adds
`FlashInv`: at every step of a call the flash is the flash at the time of the call with the
pieces done so far programmed or erased (`Written`), so at its return it is the flash with
the call's whole effect, however the length was cut at pages, sectors and blocks; and a
call that fails has left a part of that effect and nothing else.  The arithmetic of the
cuts is in `Multiples`.

**`RpmsgLink_proofs`**.  `NoLostKick` depends on the whole start-up: if the mailbox held
another event when a kick is refused, the kick would be lost.  `LinkInv` therefore says
how far one core is when the other is somewhere (`Phases`), what can be in each mailbox
and handler at each time (`Mail0`, `Mail1`), and that the rings are empty before their
sender talks (`Quiet`).  After start-up only kicks of one kind go in each direction, so
a full mailbox holds the kick that was refused.

*The messages* (`Calm`).  `BuffersOnce` says that the buffers of a direction lie in one
place each.  To show that none is lost either the proof counts them: a buffer is fresh,
filled, in the transport's queue, or in the hand of one of the two programs (`Hold`), and a
step moves at most one from one place to another (`Moved`).  `Kept` types every place and
bounds the number of buffers in it, for any `Burst`; `Whole` is that all N are there.  It could fail only where the queue refuses a message,
so `Pace` counts requests: what the client has sent and the server has not taken is at most
the `Burst` one-way requests and the one that waits for its reply, and of replies there is
at most one (`Asked`, `Answering`, `Unasked`).  With `Burst <= N - 2` the queue, which holds
N - 1, never refuses; `Burst = N - 1` is the smallest that breaks it.  `ChannelImplemented`
reads the abstract queue of requests off the same counts: the requests between the client's
and the server's sequence numbers, in the order of the ring and behind the transport's queue.

**Only model-checked.**  Liveness (`CallReturns` of `E2P` and of `SerialNor`, `WaitEnds`,
`AwaitReturns`, `EventsEnd`, `RxDrains`, `TxDrains`, `LinkComesUp`, `CallsEnd`), since the
prover handles neither fairness nor `ENABLED`; `LossContained`; `RefinesKVStore`
with two sectors, where a write may be refused rightly and the abstract condition is a
sum defined by recursion over a set.

## 11. Disagreements between code and documentation

| run | property | what |
|---|---|---|
| `e2p_multi` | `FlushKeepsLatest` | live data of more than one sector: the flush erases the sector in which an entry starts that it has not read yet, recomputes the checksum over erased cells, and reads return OK with them |
| `pika_await` | `AwaitGetsOwn` | `cq.tail` is read without the lock: a caller can be given the result of another sender's event |
| `enet_output` | `OkMeansQueued` | a full transmit ring: `low_level_output` returns with the semaphore taken, and every later call returns `ERR_OK` without having sent |
| `nor_read` | `ReadsFlash` | the cache lines to invalidate after a read are computed without the buffer's address: a second read into a buffer returns what the first one found |

The lines are in `PROJECT.json`.  More can be seen by changing one constant, as
sections 3, 4, 6, 7 and 8 say under what the runs assume.

## 12. What is not modelled

In the modelled components:

* EEPROM emulation: the flush under power loss (the code erases the version block
  first, so all values are lost and there is nothing weaker to state); one variable
  more than `MaxVar` (the block is programmed before the table is found full, l.66);
  the result of the writes of a flush, which the code ignores (l.340);
  `e2p_generate_id`; the set-up of the flash controller.
* EEPROM behind a torn block: the memory below the area and behind `read_buf`, ids of
  nobody in the table, words programmed out of order, and more calls than `MaxAstray`
  allows (section 3).
* DMA: linked descriptors, addresses and sizes of transfers; the v2 controller; a second
  release of the same resource (l.205); a second core with a manager of its own, which
  gives away the same channels.
* Event queue: the lock before the first thread (`bare_lock`), thread exit and
  `_VMEvent_deinit`; the life time of results, freed when their place is used again;
  a caller that awaits an event a full queue has dropped; events sent by a script's own C
  functions.
* Ethernet: set-up of MAC and PHY, PTP, the polling variant without an operating
  system; the moment between the interrupt's giving of the semaphore and its clearing
  of the status (`RxIsr` is one step; `common_lwip.c` l.208-216); what the stack
  does with a frame it has taken, whose buffer is the DMA's again.
* Serial NOR: reading the SFDP table, the choice of command codes and of address widths
  (l.223-226 of the host use `&&` where `&` is meant, so that the wait for the end of a read's
  DMA does not wait: the model takes a transfer that was begun without an error to be complete);
  the status of `spi_setup_dma_transfer`, which the DMA's overwrites (host l.208-209, 239-241); a length beyond the flash, for
  which `program_blocking` returns success (l.939); what a read writes past the end of a
  buffer whose length is no multiple of four (host l.203).
* Two cores: the moments inside `rpmsg_lite_master_init` and `..._remote_init`, which
  register and bind before they disable the interrupt (`Open` is one step; `rpmsg_lite.c`
  l.1022-1189; in the sample nothing can arrive in between); the RTOS environments, the name service, `deinit`, nested calls, error
  returns of the set-up, the contents of messages, and the order in which shared memory
  becomes visible, which the model takes to be that of the program (the boards map it
  as not cacheable).

Components that are not modelled at all, with the reason in `PROJECT.json`: the SPI
component (its descriptor chains are right or wrong by the order in which the SPI raises
DMA requests, which the sources do not say), the SDMMC middleware and USB host (half of
the protocol is in the card and in vendored stacks), the PikaPython interpreter and
devices (sequential under the lock), motor control and maths (numerical), drivers and
device tables without state, vendored middleware, samples and generated files.  They
make up nearly all of the repository's lines.

## 13. Plan

Done, in this order: `NorFlash`, `E2P`, `KVStore`, `E2P_proofs`; `DmaDrv`, `DmaMgr`,
`DmaMgr_proofs`; `EventBus`, `PikaEvents`, `PikaEvents_proofs`; `EnetRx`, `EnetTx`,
`EnetPort`, `FrameQueue`; `SerialNor`, `NorStore`; `IpcEvents`, `RpmsgLink`, `RpcChannel`;
`SerialNor_proofs`, `RpmsgLink_proofs`, `EnetPort_proofs`; `Multiples` and
the refinements of `NorStore`, `RpcChannel` and `EventBus`; the values of `E2P` and the
refinement of `KVStore`; both refinements of `EnetPort`; `E2PFault_proofs`.

`E2PAstray` and `HeedlessReadsLatest` came last.  Every invariant and every action property of
the passing runs but `LossContained` has its theorem; what is left to TLC is at the end of
section 10.

Next modules:

1. the life cycle of the PikaPython lock (`bare_lock`, first thread, `_VMEvent_deinit`);
   property: the shutdown returns, and no thread runs Python without the lock.
2. the ownership of `cq.data` and `cq.res`; property: no result is read after it was freed.
3. `E2P` over `SerialNor` in place of the memory it has now, each flash call a call of
   `NorStore`.
4. the card side of the SDMMC middleware, as far as its sources fix it.
