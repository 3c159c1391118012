------------------------------- MODULE DmaMgr -------------------------------
(***************************************************************************)
(* The DMA manager of components/dma_mgr/hpm_dma_mgr.c, its interrupt      *)
(* handler, the channels under it and the callers above it, on one core.   *)
(*                                                                         *)
(* A caller requests a channel, works with it through the manager and      *)
(* releases it; the time from the one to the other is a session.  A call   *)
(* that touches shared state twice is two steps, so that the handler, the  *)
(* hardware or another task can come in between.  What the manager does    *)
(* with interrupts off (l.132-140) is one step.  While the handler runs no *)
(* task does, and only the hardware moves.                                 *)
(*                                                                         *)
(* A callback and its user data are both represented by the session that   *)
(* installed them; the callback is the one of samples/dma_manager, which   *)
(* sets the has_done flag its data points to (the half-way callback, which *)
(* ends no transfer, sets none).                                           *)
(***************************************************************************)
EXTENDS DmaDrv, FiniteSets

CONSTANTS
    Task,        \* the callers
    Instances,   \* DMA_SOC_MAX_COUNT
    Channels,    \* DMA_SOC_CHANNEL_NUM
    Rounds,      \* bound: the session numbers of a task, reused in turn
    NoSlot,      \* a dma_resource_t never filled in
    Null,        \* no callback, no data
    EarlyCb,     \* may a caller install a callback before it sets the channel up
    Reinstall,   \* may it replace a callback it has installed
    LiveCtrl,    \* may it change a control field of a running channel
    Abandon,     \* may it release or set up a running channel
    ShareIrq,    \* may it disable an interrupt other callers depend on
    RawClear     \* may it call dma_clear_transfer_status of the v1 driver

Instance == 0 .. Instances - 1
Channel  == 0 .. Channels - 1
Round    == 0 .. Rounds - 1
Slot     == Instance \X Channel
Session  == Task \X Round

ASSUME DmaAssumption ==
    /\ {Instances, Channels, Rounds} \subseteq Nat \ {0}
    /\ Event \subseteq {"tc", "half", "error", "abort"}
    /\ NoSlot \notin Slot
    /\ Null \notin Session
    /\ {EarlyCb, Reinstall, LiveCtrl, Abandon, ShareIrq, RawClear} \subseteq BOOLEAN

VARIABLES
    alloc,       \* is_allocated of each channel
    cb, data,    \* the callbacks and their data, by channel and event
    intstatus,   \* the interrupt status register of each controller
    ctrl,        \* the control register of each channel
    job,         \* history: the session that last started the channel
    irq,         \* is the controller's interrupt enabled
    isr,         \* the channel the handler is about to serve
    pc,          \* what each task is doing
    slot,        \* its dma_resource_t
    round,       \* the number of its session
    arg,         \* the locals of the call it is in
    stage,       \* "new" until it is set up, "ready" while nothing of a transfer
                 \* can be left in the status, "started"
    armed,       \* does it rely on a callback to learn of the end
    done         \* its has_done flag

chns  == <<alloc, cb, data>>
regs  == <<intstatus, ctrl>>
calls == <<pc, slot, round, arg, stage, armed, done>>
vars  == <<chns, regs, job, irq, isr, calls>>

NoArg   == [event |-> Null, write |-> Null]

Mine(t) == <<t, round[t]>>
Chn(t)  == slot[t][2]
Inst(t) == slot[t][1]

\* dma_mgr_search_chn_context finds the context of an allocated channel.
Found(t) == slot[t] \in Slot /\ alloc[slot[t]]

\* A task between two calls on a channel it holds, the handler not running.
Ready(t) == isr = NoSlot /\ pc[t] = "own" /\ Found(t)

\* The events a transfer can end with when nobody aborts it.
Ends == Event \cap {"tc", "error"}
-----------------------------------------------------------------------------
\* After dma_mgr_init and a reset of the controllers.
Init ==
    /\ alloc = [s \in Slot |-> FALSE]
    /\ cb   = [s \in Slot |-> [e \in Event |-> Null]]
    /\ data = [s \in Slot |-> [e \in Event |-> Null]]
    /\ intstatus = [n \in Instance |-> {}]
    /\ ctrl = [s \in Slot |-> [enable |-> FALSE, mask |-> {}]]
    /\ job = [s \in Slot |-> Null]
    /\ irq = [n \in Instance |-> FALSE]
    /\ isr = NoSlot
    /\ pc = [t \in Task |-> "free"]
    /\ slot = [t \in Task |-> NoSlot]
    /\ round = [t \in Task |-> 0]
    /\ arg = [t \in Task |-> NoArg]
    /\ stage = [t \in Task |-> "new"]
    /\ armed = [t \in Task |-> FALSE]
    /\ done = [t \in Task |-> FALSE]
-----------------------------------------------------------------------------
\* dma_mgr_request_resource takes the first free channel of the first
\* controller that has one.  A refused request changes nothing.
Before(s, u) == s[1] < u[1] \/ (s[1] = u[1] /\ s[2] <= u[2])
\* A mutant: the first channel, free or not.
FirstOfAll(s) == \A u \in Slot : Before(s, u)
FirstFree(s) == ~alloc[s] /\ \A u \in Slot : ~alloc[u] => Before(s, u)

NextRound(n) == IF n + 1 < Rounds THEN n + 1 ELSE 0

Request(t) ==
    /\ isr = NoSlot /\ pc[t] = "free"
    /\ \E s \in Slot :
        /\ FirstFree(s)
        /\ alloc' = [alloc EXCEPT ![s] = TRUE]
        /\ slot' = [slot EXCEPT ![t] = s]
    /\ pc' = [pc EXCEPT ![t] = "own"]
    /\ round' = [round EXCEPT ![t] = NextRound(@)]
    /\ UNCHANGED <<cb, data, regs, job, irq, isr, arg, stage, armed, done>>

\* dma_mgr_release_resource: the search with interrupts on, the rest off.
MayRelease(t) == Abandon \/ ~ctrl[slot[t]].enable

ReleaseSearch(t) ==
    /\ Ready(t) /\ MayRelease(t)
    /\ pc' = [pc EXCEPT ![t] = "release"]
    /\ armed' = [armed EXCEPT ![t] = FALSE]
    /\ UNCHANGED <<chns, regs, job, irq, isr, slot, round, arg, stage, done>>

\* The caller has no more use for its bookkeeping.
Forget(t) ==
    /\ pc' = [pc EXCEPT ![t] = "free"]
    /\ slot' = [slot EXCEPT ![t] = NoSlot]
    /\ stage' = [stage EXCEPT ![t] = "new"]
    /\ done' = [done EXCEPT ![t] = FALSE]

\* A mutant: the callbacks are not reset.
ReleaseKeepsCb(t) ==
    /\ isr = NoSlot /\ pc[t] = "release"
    /\ alloc' = [alloc EXCEPT ![slot[t]] = FALSE]
    /\ data'  = [data EXCEPT ![slot[t]] = [e \in Event |-> Null]]
    /\ Forget(t)
    /\ UNCHANGED <<cb, regs, job, irq, isr, round, arg, armed>>

Release(t) ==
    /\ isr = NoSlot /\ pc[t] = "release"
    /\ alloc' = [alloc EXCEPT ![slot[t]] = FALSE]
    /\ cb'    = [cb EXCEPT ![slot[t]] = [e \in Event |-> Null]]
    /\ data'  = [data EXCEPT ![slot[t]] = [e \in Event |-> Null]]
    /\ Forget(t)
    /\ UNCHANGED <<regs, job, irq, isr, round, arg, armed>>
-----------------------------------------------------------------------------
\* dma_mgr_setup_channel: dma_setup_channel clears the channel's status, then
\* writes its control.  A configuration it rejects changes nothing.
MaySetup(t) == Abandon \/ ~ctrl[slot[t]].enable

SetupStatus(t) ==
    /\ Ready(t) /\ MaySetup(t)
    /\ intstatus' = [intstatus EXCEPT ![Inst(t)] = SetupClears(@, Chn(t))]
    /\ \E m \in {{}, Event} :
        arg' = [arg EXCEPT ![t].write = SetupCtrl(m)]
    /\ pc' = [pc EXCEPT ![t] = "setup"]
    /\ armed' = [armed EXCEPT ![t] = FALSE]
    /\ UNCHANGED <<chns, ctrl, job, irq, isr, slot, round, stage, done>>

SetupWrite(t) ==
    /\ isr = NoSlot /\ pc[t] = "setup"
    /\ ctrl' = [ctrl EXCEPT ![slot[t]] = arg[t].write]
    /\ arg' = [arg EXCEPT ![t] = NoArg]
    /\ stage' = [stage EXCEPT ![t] = "ready"]
    /\ pc' = [pc EXCEPT ![t] = "own"]
    /\ UNCHANGED <<chns, intstatus, job, irq, isr, slot, round, armed, done>>

\* dma_mgr_install_chn_..._callback: the data first, then the callback.  The
\* replacement of a callback gets a session number of its own.
MayInstall(t, e) ==
    /\ EarlyCb \/ stage[t] # "new"
    /\ Reinstall \/ cb[slot[t]][e] = Null

InstallData(t, e) ==
    /\ Ready(t) /\ MayInstall(t, e)
    /\ round' = IF cb[slot[t]][e] = Null THEN round
                ELSE [round EXCEPT ![t] = NextRound(@)]
    /\ data' = [data EXCEPT ![slot[t]][e] = <<t, round'[t]>>]
    /\ arg' = [arg EXCEPT ![t].event = e]
    /\ pc' = [pc EXCEPT ![t] = "install"]
    /\ UNCHANGED <<alloc, cb, regs, job, irq, isr, slot, stage, armed, done>>

InstallCb(t) ==
    /\ isr = NoSlot /\ pc[t] = "install"
    /\ cb' = [cb EXCEPT ![slot[t]][arg[t].event] = Mine(t)]
    /\ arg' = [arg EXCEPT ![t] = NoArg]
    /\ pc' = [pc EXCEPT ![t] = "own"]
    /\ UNCHANGED <<alloc, data, regs, job, irq, isr, slot, round, stage, armed, done>>
-----------------------------------------------------------------------------
\* The calls that change some fields of CTRL read the register, then write it
\* whole: dma_mgr_enable_chn_irq, dma_mgr_disable_chn_irq, and, with no field
\* that is modelled (m = {}), the setters of priority, modes and burst size
\* (l.510-568), of widths and address control (l.600-628, l.660-688), and
\* dma_mgr_enable_channel of a channel that runs already.
MayChange(t) == LiveCtrl \/ ~ctrl[slot[t]].enable

CtrlRead(t) ==
    /\ Ready(t) /\ MayChange(t)
    /\ \E m \in SUBSET Event : \E new \in {UnmaskCtrl(ctrl[slot[t]], m),
                                         MaskCtrl(ctrl[slot[t]], m)} :
        arg' = [arg EXCEPT ![t].write = new]
    /\ pc' = [pc EXCEPT ![t] = "ctrl"]
    /\ armed' = [armed EXCEPT ![t] = FALSE]
    /\ UNCHANGED <<chns, regs, job, irq, isr, slot, round, stage, done>>

CtrlWrite(t) ==
    /\ isr = NoSlot /\ pc[t] = "ctrl"
    /\ ctrl' = [ctrl EXCEPT ![slot[t]] = arg[t].write]
    /\ arg' = [arg EXCEPT ![t] = NoArg]
    /\ pc' = [pc EXCEPT ![t] = "own"]
    /\ UNCHANGED <<chns, intstatus, job, irq, isr, slot, round, stage, armed, done>>

\* dma_mgr_enable_dma_irq_with_priority, dma_mgr_disable_dma_irq: the
\* interrupt of the whole controller.
EnableDmaIrq(t) ==
    /\ Ready(t)
    /\ irq' = [irq EXCEPT ![Inst(t)] = TRUE]
    /\ UNCHANGED <<chns, regs, job, isr, calls>>

Alone(t) == \A u \in Task \ {t} : pc[u] # "free" => Inst(u) # Inst(t)

DisableDmaIrq(t) ==
    /\ Ready(t) /\ (ShareIrq \/ Alone(t))
    /\ irq' = [irq EXCEPT ![Inst(t)] = FALSE]
    /\ armed' = [armed EXCEPT ![t] = FALSE]
    /\ UNCHANGED <<chns, regs, job, isr, pc, slot, round, arg, stage, done>>

\* dma_mgr_enable_channel starts the transfer of an idle channel, or the
\* controller refuses it (status_fail, hpm_dma_drv.h l.169-171).  The caller
\* can rely on callbacks when every end has its own, nothing of a transfer
\* before is left in the status, and it has cleared its flag.
Covered(t) ==
    /\ irq[Inst(t)]
    /\ \A e \in Ends : /\ cb[slot[t]][e] = Mine(t)
                       /\ e \notin ctrl[slot[t]].mask

EnableChannel(t) ==
    /\ Ready(t) /\ ~ctrl[slot[t]].enable
    /\ \/ /\ ctrl' = [ctrl EXCEPT ![slot[t]] = EnableCtrl(@)]
          /\ job' = [job EXCEPT ![slot[t]] = Mine(t)]
          /\ stage' = [stage EXCEPT ![t] = IF @ = "ready" THEN "started" ELSE @]
          /\ armed' = [armed EXCEPT ![t] = Covered(t) /\ stage[t] = "ready" /\ ~done[t]]
       \/ /\ armed' = [armed EXCEPT ![t] = FALSE]
          /\ UNCHANGED <<ctrl, job, stage>>
    /\ UNCHANGED <<chns, intstatus, irq, isr, pc, slot, round, arg, done>>

\* The caller clears its has_done flag.
ClearDone(t) ==
    /\ Ready(t) /\ done[t]
    /\ done' = [done EXCEPT ![t] = FALSE]
    /\ armed' = [armed EXCEPT ![t] = FALSE]
    /\ UNCHANGED <<chns, regs, job, irq, isr, pc, slot, round, arg, stage>>

\* dma_mgr_disable_channel.
DisableChannel(t) ==
    /\ Ready(t)
    /\ ctrl' = [ctrl EXCEPT ![slot[t]] = DisableCtrl(@)]
    /\ armed' = [armed EXCEPT ![t] = FALSE]
    /\ UNCHANGED <<chns, intstatus, job, irq, isr, pc, slot, round, arg, stage, done>>

\* dma_mgr_abort_chn_transfer: the controller ignores it for a channel that
\* is not enabled (hpm_dma_regs.h l.179).
AbortTransfer(t) ==
    /\ Ready(t) /\ "abort" \in Event /\ ctrl[slot[t]].enable
    /\ ctrl' = [ctrl EXCEPT ![slot[t]] = DisableCtrl(@)]
    /\ intstatus' = [intstatus EXCEPT ![Inst(t)] = Report(@, "abort", Chn(t), job[slot[t]])]
    /\ armed' = [armed EXCEPT ![t] = FALSE]
    /\ UNCHANGED <<chns, job, irq, isr, pc, slot, round, arg, stage, done>>

\* dma_mgr_check_chn_transfer_status, by polling: it clears what it reports.
CheckStatus(t) ==
    /\ Ready(t)
    /\ intstatus' = [intstatus EXCEPT ![Inst(t)] = CheckClears(@, Chn(t))]
    /\ armed' = [armed EXCEPT ![t] = FALSE]
    /\ UNCHANGED <<chns, ctrl, job, irq, isr, pc, slot, round, arg, stage, done>>

\* dma_clear_transfer_status, called beside the manager as samples/drivers/i2s
\* calls it.
ClearTransferStatus(t) ==
    /\ RawClear /\ Ready(t)
    /\ intstatus' = [intstatus EXCEPT ![Inst(t)] = ClearStatusV1(@, Chn(t))]
    /\ armed' = [armed EXCEPT ![t] = FALSE]
    /\ UNCHANGED <<chns, ctrl, job, irq, isr, pc, slot, round, arg, stage, done>>

\* The caller waits for has_done, as dma_manager_test_execute does, and may
\* start the channel again as it is.
BeginWait(t) ==
    /\ Ready(t) /\ armed[t]
    /\ pc' = [pc EXCEPT ![t] = "wait"]
    /\ UNCHANGED <<chns, regs, job, irq, isr, slot, round, arg, stage, armed, done>>

EndWait(t) ==
    /\ isr = NoSlot /\ pc[t] = "wait" /\ done[t]
    /\ pc' = [pc EXCEPT ![t] = "own"]
    /\ stage' = [stage EXCEPT ![t] = IF @ = "started" THEN "ready" ELSE @]
    /\ armed' = [armed EXCEPT ![t] = FALSE]
    /\ UNCHANGED <<chns, regs, job, irq, isr, slot, round, arg, done>>
-----------------------------------------------------------------------------
\* The controller: a running channel ends its transfer, with an error or
\* without, and clears its enable bit; or it is half way.
Raise(s, e) ==
    /\ ctrl[s].enable
    /\ intstatus' = [intstatus EXCEPT ![s[1]] = Report(@, e, s[2], job[s])]
    /\ UNCHANGED <<chns, job, irq, isr, calls>>

TransferEnds(s) ==
    /\ \E e \in Ends : Raise(s, e)
    /\ ctrl' = [ctrl EXCEPT ![s].enable = FALSE]

HalfWay(s) ==
    /\ "half" \in Event
    /\ Raise(s, "half")
    /\ UNCHANGED ctrl
-----------------------------------------------------------------------------
\* handle_dma_isr of a controller, entered while one of its channels has an
\* event that is not masked: one step for each turn of the loop.
Pending(s)   == CheckEvents(intstatus[s[1]], s[2]) \ ctrl[s].mask
Called(s)    == {e \in Pending(s) : cb[s][e] # Null}
FlagsOf(s)   == {data[s][e] : e \in Called(s) \ {"half"}}

IsrEnter(n) ==
    /\ isr = NoSlot /\ irq[n]
    /\ \E s \in Slot : s[1] = n /\ Pending(s) # {}
    /\ isr' = <<n, 0>>
    /\ UNCHANGED <<chns, regs, job, irq, calls>>

\* Mutants: the loop ends one channel early, or one late.
NextButLast(s) == IF s[2] + 2 < Channels THEN <<s[1], s[2] + 1>> ELSE NoSlot
NextPastLast(s) == IF s[2] < Channels THEN <<s[1], s[2] + 1>> ELSE NoSlot

NextChannel(s) == IF s[2] + 1 < Channels THEN <<s[1], s[2] + 1>> ELSE NoSlot

IsrChannel ==
    /\ isr # NoSlot
    /\ intstatus' = [intstatus EXCEPT ![isr[1]] = CheckClears(@, isr[2])]
    /\ done' = [t \in Task |-> done[t] \/ \E f \in FlagsOf(isr) :
                                             f # Null /\ f[1] = t]
    /\ isr' = NextChannel(isr)
    /\ UNCHANGED <<chns, ctrl, job, irq, pc, slot, round, arg, stage, armed>>
-----------------------------------------------------------------------------
InCall(t) == SetupWrite(t) \/ CtrlWrite(t) \/ InstallCb(t) \/ Release(t)

TaskStep(t) ==
    \/ Request(t) \/ ReleaseSearch(t) \/ SetupStatus(t) \/ CtrlRead(t)
    \/ \E e \in Event : InstallData(t, e)
    \/ InCall(t)
    \/ EnableDmaIrq(t) \/ DisableDmaIrq(t)
    \/ EnableChannel(t) \/ ClearDone(t) \/ DisableChannel(t) \/ AbortTransfer(t)
    \/ CheckStatus(t) \/ ClearTransferStatus(t)
    \/ BeginWait(t) \/ EndWait(t)

Next ==
    \/ \E t \in Task : TaskStep(t)
    \/ \E s \in Slot : TransferEnds(s) \/ HalfWay(s)
    \/ \E n \in Instance : IsrEnter(n)
    \/ IsrChannel

Spec == Init /\ [][Next]_vars

\* A running transfer ends; the core takes an interrupt that stays pending
\* and the handler runs on; a task that the scheduler and the interrupts let
\* run again and again goes on with the call it is in.
Fairness ==
    /\ \A s \in Slot : WF_vars(TransferEnds(s))
    /\ \A n \in Instance : SF_vars(IsrEnter(n))
    /\ WF_vars(IsrChannel)
    /\ \A t \in Task : SF_vars(InCall(t) \/ EndWait(t))

FairSpec == Spec /\ Fairness
-----------------------------------------------------------------------------
\* PROPERTIES

\* The type invariant of the manager's context, the registers and the callers.
TypeOK ==
    /\ alloc \in [Slot -> BOOLEAN]
    /\ cb \in [Slot -> [Event -> Session \cup {Null}]]
    /\ data \in [Slot -> [Event -> Session \cup {Null}]]
    /\ intstatus \in [Instance -> SUBSET (Event \X Channel \X (Session \cup {Null}))]
    /\ ctrl \in [Slot -> Ctrl]
    /\ job \in [Slot -> Session \cup {Null}]
    /\ irq \in [Instance -> BOOLEAN]
    /\ isr \in Slot \cup {NoSlot}
    /\ pc \in [Task -> {"free", "own", "release", "setup", "install", "ctrl", "wait"}]
    /\ slot \in [Task -> Slot \cup {NoSlot}]
    /\ round \in [Task -> Round]
    /\ arg \in [Task -> [event : Event \cup {Null}, write : Ctrl \cup {Null}]]
    /\ stage \in [Task -> {"new", "ready", "started"}]
    /\ armed \in [Task -> BOOLEAN]
    /\ done \in [Task -> BOOLEAN]

\* Whatever the callers do with the channels they hold, two of them never
\* hold the same one, and a channel is allocated only while a caller holds
\* it: none is given away twice, none leaks (l.153-190, l.218-241).
OneOwner ==
    /\ \A t \in Task : pc[t] # "free" => slot[t] \in Slot /\ alloc[slot[t]]
    /\ \A t, u \in Task : pc[t] # "free" /\ pc[u] # "free" /\ t # u
                            => slot[t] # slot[u]
    /\ \A s \in Slot : alloc[s] => \E t \in Task : pc[t] # "free" /\ slot[t] = s

\* What is called where: the handler about to serve channel isr passes each
\* callback the data installed with it, never the data of another callback,
\* of an earlier owner, or none (l.97-116).
DataMatchesCallback ==
    isr # NoSlot => \A e \in Called(isr) : data[isr][e] = cb[isr][e]

\* A caller is only told about transfers it started: the handler never calls
\* a callback for an event that the channel's earlier owner left behind
\* (l.86-118 with dma_setup_channel's clearing of the status).
OwnCompletion ==
    isr # NoSlot =>
        \A b \in Bits(intstatus[isr[1]], isr[2]) :
            b[1] \in Called(isr) => b[3] = cb[isr][b[1]]

\* A caller that relies on has_done sees it only after its transfer is over:
\* never early, from an event of the transfer before.
DoneMeansOver ==
    \A t \in Task : armed[t] /\ done[t] => ~ctrl[slot[t]].enable

\* A task that works on its own channel never clears an event of another
\* channel, whose completion would be lost with it.
NoForeignClear ==
    [][\A t \in Task : TaskStep(t) =>
          \A n \in Instance : \A b \in intstatus[n] \ intstatus'[n] :
              <<n, b[2]>> = slot[t]]_vars

\* dma_clear_transfer_status clears the transfer status of the channel it is
\* given.
ClearsItsChannel ==
    [][\A t \in Task : ClearTransferStatus(t) =>
          Bits(intstatus'[Inst(t)], Chn(t)) = {}]_vars

\* A caller that started its transfer with a callback on every way to end,
\* and waits for has_done, is told: no completion is lost between the
\* controller, the handler and the other callers.
WaitEnds == \A t \in Task : pc[t] = "wait" ~> pc[t] # "wait"
=============================================================================
