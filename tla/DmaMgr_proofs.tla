--------------------------- MODULE DmaMgr_proofs ---------------------------
(***************************************************************************)
(* Proofs about DmaMgr, for every number of controllers, channels, callers *)
(* and events.  What the callers may do is as free as the constants allow: *)
(* OneOwner is proved for all of them.                                     *)
(***************************************************************************)
EXTENDS DmaMgr, TLAPS

\* The locals of a call in progress.
ArgOK ==
    \A t \in Task :
        /\ pc[t] = "install" => arg[t].event \in Event
        /\ pc[t] \in {"setup", "ctrl"} => arg[t].write \in Ctrl

IInv == TypeOK /\ OneOwner /\ ArgOK
-----------------------------------------------------------------------------
\* The registers: what the drivers write is again a register's content.
LEMMA CtrlOps ==
    ASSUME NEW c \in Ctrl, NEW m \in SUBSET Event
    PROVE  /\ UnmaskCtrl(c, m) \in Ctrl /\ MaskCtrl(c, m) \in Ctrl
           /\ EnableCtrl(c) \in Ctrl /\ DisableCtrl(c) \in Ctrl
           /\ SetupCtrl(m) \in Ctrl
BY DEF Ctrl, UnmaskCtrl, MaskCtrl, EnableCtrl, DisableCtrl, SetupCtrl

LEMMA StatusOps ==
    ASSUME NEW reg, NEW c
    PROVE  /\ SetupClears(reg, c) \subseteq reg /\ CheckClears(reg, c) \subseteq reg
           /\ ClearStatusV1(reg, c) \subseteq reg
BY DEF SetupClears, CheckClears, ClearStatusV1, W1C, Bits

\* A controller that reports an event adds its bit at most.
LEMMA ReportOps ==
    ASSUME NEW reg, NEW e, NEW c, NEW v
    PROVE  /\ reg \subseteq Report(reg, e, c, v)
           /\ Report(reg, e, c, v) \subseteq reg \cup {<<e, c, v>>}
BY DEF Report

LEMMA Constants ==
    /\ Null \notin Session /\ NoSlot \notin Slot
    /\ \A s \in Slot : s = <<s[1], s[2]>> /\ s[1] \in Instance /\ s[2] \in Channel
    /\ \A n \in Round : NextRound(n) \in Round
    /\ \A s \in Slot : NextChannel(s) \in Slot \cup {NoSlot}
    /\ \A n \in Instance : <<n, 0>> \in Slot
    /\ 0 \in Round
<1>1. Rounds \in Nat \ {0} /\ Channels \in Nat \ {0} /\ Instances \in Nat \ {0}
  BY DmaAssumption
<1>2. Null \notin Session /\ NoSlot \notin Slot
  BY DmaAssumption
<1>3. \A s \in Slot : s = <<s[1], s[2]>> /\ s[1] \in Instance /\ s[2] \in Channel
  BY DEF Slot
<1>4. (\A n \in Round : NextRound(n) \in Round) /\ 0 \in Round
  BY <1>1 DEF Round, NextRound
<1>5. 0 \in Channel
  BY <1>1 DEF Channel
<1>6. \A n \in Instance : <<n, 0>> \in Slot
  BY <1>5 DEF Slot
<1>7. ASSUME NEW s \in Slot PROVE NextChannel(s) \in Slot \cup {NoSlot}
  <2>1. CASE s[2] + 1 < Channels
    <3>1. s[2] + 1 \in Channel BY <1>1, <1>3, <2>1 DEF Channel
    <3> QED BY <1>3, <2>1, <3>1 DEF NextChannel, Slot
  <2>2. CASE ~(s[2] + 1 < Channels)
    BY <2>2 DEF NextChannel
  <2> QED BY <2>1, <2>2
<1> QED BY <1>2, <1>3, <1>4, <1>6, <1>7
-----------------------------------------------------------------------------
LEMMA InitIInv == Init => IInv
<1> SUFFICES ASSUME Init PROVE IInv
  OBVIOUS
<1>1. TypeOK
  <2>1. [enable |-> FALSE, mask |-> {}] \in Ctrl BY DEF Ctrl
  <2> QED BY <2>1, Constants DEF Init, TypeOK, NoArg
<1>2. OneOwner BY DEF Init, OneOwner
<1>3. ArgOK BY DEF Init, ArgOK
<1> QED BY <1>1, <1>2, <1>3 DEF IInv
-----------------------------------------------------------------------------
\* A step of a caller: it takes a channel nobody holds, gives its own one
\* back, or leaves the allocation and the other callers alone.
LEMMA RequestIInv ==
    ASSUME IInv, NEW t \in Task, Request(t)
    PROVE  IInv'
<1> USE DEF IInv
<1>1. PICK s \in Slot : /\ FirstFree(s)
                        /\ alloc' = [alloc EXCEPT ![s] = TRUE]
                        /\ slot' = [slot EXCEPT ![t] = s]
  BY DEF Request
<1>2. ~alloc[s]
  BY <1>1 DEF FirstFree
<1>3. TypeOK'
  <2>1. NextRound(round[t]) \in Round
    BY Constants DEF TypeOK
  <2> QED BY <1>1, <2>1 DEF Request, TypeOK, regs
<1>4. OneOwner'
  BY <1>1, <1>2 DEF Request, TypeOK, OneOwner
<1>5. ArgOK'
  BY DEF Request, ArgOK, TypeOK
<1> QED BY <1>3, <1>4, <1>5

LEMMA ReleaseIInv ==
    ASSUME IInv, NEW t \in Task, Release(t)
    PROVE  IInv'
<1> USE DEF IInv
<1>1. slot[t] \in Slot
  BY DEF Release, OneOwner
<1>2. TypeOK'
  BY <1>1 DEF Release, Forget, TypeOK, regs
<1>3. OneOwner'
  BY <1>1 DEF Release, Forget, TypeOK, OneOwner
<1>4. ArgOK'
  BY DEF Release, Forget, ArgOK, TypeOK
<1> QED BY <1>2, <1>3, <1>4

\* Every other step keeps who holds what.
LEMMA SameOwners ==
    ASSUME IInv, alloc' = alloc, slot' = slot,
           \A t \in Task : pc'[t] = "free" <=> pc[t] = "free"
    PROVE  OneOwner'
BY DEF IInv, OneOwner

\* The locals of a call keep their types when one of them is set.
LEMMA ArgTypes ==
    ASSUME TypeOK, NEW t \in Task
    PROVE  /\ \A w \in Ctrl : [arg EXCEPT ![t].write = w]
                  \in [Task -> [event : Event \cup {Null}, write : Ctrl \cup {Null}]]
           /\ \A e \in Event : [arg EXCEPT ![t].event = e]
                  \in [Task -> [event : Event \cup {Null}, write : Ctrl \cup {Null}]]
<1> DEFINE Args == [event : Event \cup {Null}, write : Ctrl \cup {Null}]
<1>1. arg \in [Task -> Args] /\ arg[t] \in Args
  BY DEF TypeOK
<1>2. \A w \in Ctrl : [arg[t] EXCEPT !.write = w] \in Args
  BY <1>1
<1>3. \A e \in Event : [arg[t] EXCEPT !.event = e] \in Args
  BY <1>1
<1> HIDE DEF Args
<1>4. \A a \in Args : [arg EXCEPT ![t] = a] \in [Task -> Args]
  BY <1>1
<1>5. /\ \A w \in Ctrl : [arg EXCEPT ![t] = [arg[t] EXCEPT !.write = w]] \in [Task -> Args]
      /\ \A e \in Event : [arg EXCEPT ![t] = [arg[t] EXCEPT !.event = e]] \in [Task -> Args]
  BY <1>2, <1>3, <1>4
<1> QED BY <1>5 DEF Args

LEMMA CallIInv ==
    ASSUME IInv, NEW t \in Task,
           ReleaseSearch(t) \/ SetupStatus(t) \/ CtrlRead(t)
             \/ (\E e \in Event : InstallData(t, e))
             \/ SetupWrite(t) \/ CtrlWrite(t) \/ InstallCb(t)
    PROVE  IInv'
<1> USE DEF IInv
<1>0. pc[t] # "free" => slot[t] \in Slot
  BY DEF OneOwner
<1>1. CASE ReleaseSearch(t)
  <2>1. TypeOK' BY <1>1 DEF ReleaseSearch, Ready, TypeOK, chns, regs
  <2>2. OneOwner' BY <1>1, SameOwners DEF ReleaseSearch, Ready, TypeOK, chns
  <2>3. ArgOK' BY <1>1 DEF ReleaseSearch, Ready, ArgOK, TypeOK
  <2> QED BY <2>1, <2>2, <2>3
<1>2. CASE SetupStatus(t)
  <2>1. PICK m \in {{}, Event} : arg' = [arg EXCEPT ![t].write = SetupCtrl(m)]
    BY <1>2 DEF SetupStatus
  <2>2. SetupCtrl(m) \in Ctrl
    <3>1. m \in SUBSET Event OBVIOUS
    <3> QED BY <3>1 DEF SetupCtrl, Ctrl
  <2>3. SetupClears(intstatus[Inst(t)], Chn(t)) \subseteq intstatus[Inst(t)]
    BY StatusOps
  <2>4. TypeOK'
    <3>1. intstatus' \in [Instance -> SUBSET (Event \X Channel \X (Session \cup {Null}))]
      BY <1>2, <2>3 DEF SetupStatus, TypeOK
    <3>2. arg' \in [Task -> [event : Event \cup {Null}, write : Ctrl \cup {Null}]]
      BY <2>1, <2>2, ArgTypes
    <3> QED BY <1>2, <3>1, <3>2 DEF SetupStatus, TypeOK, chns
  <2>5. OneOwner' BY <1>2, SameOwners DEF SetupStatus, Ready, TypeOK, chns
  <2>6. ArgOK' BY <1>2, <2>1, <2>2 DEF SetupStatus, Ready, ArgOK, TypeOK
  <2> QED BY <2>4, <2>5, <2>6
<1>3. CASE CtrlRead(t)
  <2>1. ctrl[slot[t]] \in Ctrl
    BY <1>0, <1>3 DEF CtrlRead, Ready, TypeOK
  <2>2. PICK new \in Ctrl : arg' = [arg EXCEPT ![t].write = new]
    BY <1>3, <2>1, CtrlOps DEF CtrlRead
  <2>3. TypeOK'
    <3>1. arg' \in [Task -> [event : Event \cup {Null}, write : Ctrl \cup {Null}]]
      BY <2>2, ArgTypes
    <3> QED BY <1>3, <3>1 DEF CtrlRead, TypeOK, chns, regs
  <2>4. OneOwner' BY <1>3, SameOwners DEF CtrlRead, Ready, TypeOK, chns
  <2>5. ArgOK' BY <1>3, <2>2 DEF CtrlRead, Ready, ArgOK, TypeOK
  <2> QED BY <2>3, <2>4, <2>5
<1>4. ASSUME NEW e \in Event, InstallData(t, e) PROVE IInv'
  <2>1. slot[t] \in Slot BY <1>0, <1>4 DEF InstallData, Ready
  <2>2. round' \in [Task -> Round]
    BY <1>4, Constants DEF InstallData, TypeOK
  <2>3. <<t, round'[t]>> \in Session
    BY <2>2 DEF Session
  <2>4. data' \in [Slot -> [Event -> Session \cup {Null}]]
    BY <1>4, <2>1, <2>3 DEF InstallData, TypeOK
  <2>5. TypeOK'
    <3>1. arg' = [arg EXCEPT ![t].event = e]
      BY <1>4 DEF InstallData
    <3>2. arg' \in [Task -> [event : Event \cup {Null}, write : Ctrl \cup {Null}]]
      BY <3>1, ArgTypes
    <3> QED BY <1>4, <2>2, <2>4, <3>2 DEF InstallData, TypeOK, regs
  <2>6. OneOwner' BY <1>4, SameOwners DEF InstallData, Ready, TypeOK
  <2>7. ArgOK' BY <1>4 DEF InstallData, Ready, ArgOK, TypeOK
  <2> QED BY <2>5, <2>6, <2>7
<1>5. CASE SetupWrite(t)
  <2>1. slot[t] \in Slot /\ arg[t].write \in Ctrl
    BY <1>0, <1>5 DEF SetupWrite, ArgOK
  <2>2. TypeOK' BY <1>5, <2>1 DEF SetupWrite, TypeOK, chns, NoArg
  <2>3. OneOwner' BY <1>5, SameOwners DEF SetupWrite, TypeOK, chns
  <2>4. ArgOK' BY <1>5 DEF SetupWrite, ArgOK, TypeOK
  <2> QED BY <2>2, <2>3, <2>4
<1>6. CASE CtrlWrite(t)
  <2>1. slot[t] \in Slot /\ arg[t].write \in Ctrl
    BY <1>0, <1>6 DEF CtrlWrite, ArgOK
  <2>2. TypeOK' BY <1>6, <2>1 DEF CtrlWrite, TypeOK, chns, NoArg
  <2>3. OneOwner' BY <1>6, SameOwners DEF CtrlWrite, TypeOK, chns
  <2>4. ArgOK' BY <1>6 DEF CtrlWrite, ArgOK, TypeOK
  <2> QED BY <2>2, <2>3, <2>4
<1>7. CASE InstallCb(t)
  <2>1. slot[t] \in Slot /\ arg[t].event \in Event
    BY <1>0, <1>7 DEF InstallCb, ArgOK
  <2>2. Mine(t) \in Session
    BY DEF Mine, Session, TypeOK
  <2>3. cb' \in [Slot -> [Event -> Session \cup {Null}]]
    BY <1>7, <2>1, <2>2 DEF InstallCb, TypeOK
  <2>4. TypeOK' BY <1>7, <2>3 DEF InstallCb, TypeOK, regs, NoArg
  <2>5. OneOwner' BY <1>7, SameOwners DEF InstallCb, TypeOK
  <2>6. ArgOK' BY <1>7 DEF InstallCb, ArgOK, TypeOK
  <2> QED BY <2>4, <2>5, <2>6
<1> QED BY <1>1, <1>2, <1>3, <1>4, <1>5, <1>6, <1>7

LEMMA ChannelIInv ==
    ASSUME IInv, NEW t \in Task,
           EnableDmaIrq(t) \/ DisableDmaIrq(t) \/ EnableChannel(t) \/ ClearDone(t)
             \/ DisableChannel(t) \/ AbortTransfer(t) \/ CheckStatus(t)
             \/ ClearTransferStatus(t) \/ BeginWait(t) \/ EndWait(t)
    PROVE  IInv'
<1> USE DEF IInv
<1> DEFINE StatusType == [Instance -> SUBSET (Event \X Channel \X (Session \cup {Null}))]
<1>0. pc[t] # "free" => slot[t] \in Slot /\ Inst(t) \in Instance /\ Chn(t) \in Channel
  BY Constants DEF OneOwner, Inst, Chn
<1>1. CASE EnableDmaIrq(t)
  BY <1>0, <1>1 DEF EnableDmaIrq, Ready, TypeOK, OneOwner, ArgOK, chns, regs, calls
<1>2. CASE DisableDmaIrq(t)
  <2>1. TypeOK' BY <1>0, <1>2 DEF DisableDmaIrq, Ready, TypeOK, chns, regs
  <2>2. OneOwner' /\ ArgOK' BY <1>2 DEF DisableDmaIrq, OneOwner, ArgOK, chns
  <2> QED BY <2>1, <2>2
<1>3. CASE EnableChannel(t)
  <2>1. slot[t] \in Slot /\ EnableCtrl(ctrl[slot[t]]) \in Ctrl
    BY <1>0, <1>3, CtrlOps DEF EnableChannel, Ready, TypeOK
  <2>2. Mine(t) \in Session BY DEF Mine, Session, TypeOK
  <2>3. Covered(t) \in BOOLEAN
    BY <1>0, <1>3 DEF Covered, EnableChannel, Ready, TypeOK
  <2>4. ctrl' \in [Slot -> Ctrl] /\ job' \in [Slot -> Session \cup {Null}]
    <3>1. CASE UNCHANGED <<ctrl, job>>
      BY <3>1 DEF TypeOK
    <3>2. CASE /\ ctrl' = [ctrl EXCEPT ![slot[t]] = EnableCtrl(@)]
               /\ job' = [job EXCEPT ![slot[t]] = Mine(t)]
      BY <2>1, <2>2, <3>2 DEF TypeOK
    <3> QED BY <1>3, <3>1, <3>2 DEF EnableChannel
  <2>5. stage' \in [Task -> {"new", "ready", "started"}] /\ armed' \in [Task -> BOOLEAN]
    BY <1>3, <2>3 DEF EnableChannel, TypeOK
  <2>6. TypeOK' BY <1>3, <2>4, <2>5 DEF EnableChannel, TypeOK, chns
  <2>7. OneOwner' /\ ArgOK' BY <1>3 DEF EnableChannel, OneOwner, ArgOK, chns
  <2> QED BY <2>6, <2>7
<1>4. CASE DisableChannel(t)
  <2>1. slot[t] \in Slot /\ DisableCtrl(ctrl[slot[t]]) \in Ctrl
    BY <1>0, <1>4, CtrlOps DEF DisableChannel, Ready, TypeOK
  <2>2. TypeOK' BY <1>4, <2>1 DEF DisableChannel, TypeOK, chns
  <2>3. OneOwner' /\ ArgOK' BY <1>4 DEF DisableChannel, OneOwner, ArgOK, chns
  <2> QED BY <2>2, <2>3
<1>5. CASE AbortTransfer(t)
  <2>1. slot[t] \in Slot /\ DisableCtrl(ctrl[slot[t]]) \in Ctrl
    BY <1>0, <1>5, CtrlOps DEF AbortTransfer, Ready, TypeOK
  <2>2. <<"abort", Chn(t), job[slot[t]]>> \in Event \X Channel \X (Session \cup {Null})
    BY <1>0, <1>5 DEF AbortTransfer, Ready, TypeOK
  <2>3. intstatus' \in StatusType
    <3>1. Report(intstatus[Inst(t)], "abort", Chn(t), job[slot[t]])
             \in SUBSET (Event \X Channel \X (Session \cup {Null}))
      BY <1>0, <1>5, <2>2, ReportOps DEF AbortTransfer, Ready, TypeOK
    <3> QED BY <1>5, <3>1 DEF AbortTransfer, TypeOK
  <2>4. TypeOK' BY <1>5, <2>1, <2>3 DEF AbortTransfer, TypeOK, chns
  <2>5. OneOwner' /\ ArgOK' BY <1>5 DEF AbortTransfer, OneOwner, ArgOK, chns
  <2> QED BY <2>4, <2>5
<1>6. CASE CheckStatus(t)
  <2>1. intstatus' \in StatusType
    BY <1>6, StatusOps DEF CheckStatus, TypeOK
  <2>2. TypeOK' BY <1>6, <2>1 DEF CheckStatus, TypeOK, chns
  <2>3. OneOwner' /\ ArgOK' BY <1>6 DEF CheckStatus, OneOwner, ArgOK, chns
  <2> QED BY <2>2, <2>3
<1>7. CASE ClearTransferStatus(t)
  <2>1. intstatus' \in StatusType
    BY <1>7, StatusOps DEF ClearTransferStatus, TypeOK
  <2>2. TypeOK' BY <1>7, <2>1 DEF ClearTransferStatus, TypeOK, chns
  <2>3. OneOwner' /\ ArgOK' BY <1>7 DEF ClearTransferStatus, OneOwner, ArgOK, chns
  <2> QED BY <2>2, <2>3
<1>8. CASE BeginWait(t)
  <2>1. TypeOK' BY <1>8 DEF BeginWait, TypeOK, chns, regs
  <2>2. OneOwner' BY <1>8, SameOwners DEF BeginWait, Ready, TypeOK, chns
  <2>3. ArgOK' BY <1>8 DEF BeginWait, ArgOK, TypeOK
  <2> QED BY <2>1, <2>2, <2>3
<1>9. CASE EndWait(t)
  <2>1. TypeOK' BY <1>9 DEF EndWait, TypeOK, chns, regs
  <2>2. OneOwner' BY <1>9, SameOwners DEF EndWait, TypeOK, chns
  <2>3. ArgOK' BY <1>9 DEF EndWait, ArgOK, TypeOK
  <2> QED BY <2>1, <2>2, <2>3
<1>10. CASE ClearDone(t)
  <2>1. TypeOK' BY <1>10 DEF ClearDone, TypeOK, chns, regs
  <2>2. OneOwner' /\ ArgOK' BY <1>10 DEF ClearDone, OneOwner, ArgOK, chns
  <2> QED BY <2>1, <2>2
<1> QED BY <1>1, <1>2, <1>3, <1>4, <1>5, <1>6, <1>7, <1>8, <1>9, <1>10

\* The controllers and the handler touch neither the allocation nor a call
\* in progress.
LEMMA HardwareIInv ==
    ASSUME IInv,
           (\E s \in Slot : TransferEnds(s) \/ HalfWay(s))
             \/ (\E n \in Instance : IsrEnter(n)) \/ IsrChannel
    PROVE  IInv'
<1> USE DEF IInv
<1> DEFINE StatusType == [Instance -> SUBSET (Event \X Channel \X (Session \cup {Null}))]
<1>1. ASSUME NEW s \in Slot, NEW e \in Event, Raise(s, e)
      PROVE  intstatus' \in StatusType /\ OneOwner' /\ ArgOK'
  <2>1. <<e, s[2], job[s]>> \in Event \X Channel \X (Session \cup {Null})
    BY Constants DEF TypeOK
  <2>2. intstatus' \in StatusType
    <3>1. Report(intstatus[s[1]], e, s[2], job[s])
             \in SUBSET (Event \X Channel \X (Session \cup {Null}))
      BY <2>1, Constants, ReportOps DEF TypeOK
    <3> QED BY <1>1, <3>1 DEF Raise, TypeOK
  <2>3. OneOwner' /\ ArgOK'
    BY <1>1 DEF Raise, OneOwner, ArgOK, chns, calls
  <2> QED BY <2>2, <2>3
<1>2. ASSUME NEW s \in Slot, TransferEnds(s) PROVE IInv'
  <2>1. PICK e \in Event : Raise(s, e)
    BY <1>2 DEF TransferEnds, Ends
  <2>2. ctrl' \in [Slot -> Ctrl]
    <3>1. ctrl' = [ctrl EXCEPT ![s] = DisableCtrl(@)]
      BY <1>2 DEF TransferEnds, DisableCtrl
    <3>2. DisableCtrl(ctrl[s]) \in Ctrl
      BY CtrlOps DEF TypeOK
    <3> QED BY <3>1, <3>2 DEF TypeOK
  <2>3. intstatus' \in StatusType /\ OneOwner' /\ ArgOK'
    BY <1>1, <2>1
  <2>4. TypeOK'
    BY <2>1, <2>2, <2>3 DEF Raise, TypeOK, chns, calls
  <2> QED BY <2>3, <2>4
<1>3. ASSUME NEW s \in Slot, HalfWay(s) PROVE IInv'
  <2>1. "half" \in Event /\ Raise(s, "half") /\ ctrl' = ctrl
    BY <1>3 DEF HalfWay
  <2>2. intstatus' \in StatusType /\ OneOwner' /\ ArgOK'
    BY <1>1, <2>1
  <2>3. TypeOK'
    BY <2>1, <2>2 DEF Raise, TypeOK, chns, calls
  <2> QED BY <2>2, <2>3
<1>4. ASSUME NEW n \in Instance, IsrEnter(n) PROVE IInv'
  <2>1. isr' \in Slot
    BY <1>4, Constants DEF IsrEnter
  <2>2. TypeOK' BY <1>4, <2>1 DEF IsrEnter, TypeOK, chns, regs, calls
  <2>3. OneOwner' /\ ArgOK' BY <1>4 DEF IsrEnter, OneOwner, ArgOK, chns, calls
  <2> QED BY <2>2, <2>3
<1>5. CASE IsrChannel
  <2>1. isr \in Slot
    BY <1>5 DEF IsrChannel, TypeOK
  <2>2. isr' \in Slot \cup {NoSlot}
    BY <1>5, <2>1, Constants DEF IsrChannel
  <2>3. intstatus' \in StatusType
    BY <1>5, StatusOps DEF IsrChannel, TypeOK
  <2>4. done' \in [Task -> BOOLEAN]
    BY <1>5 DEF IsrChannel, TypeOK
  <2>5. TypeOK' BY <1>5, <2>2, <2>3, <2>4 DEF IsrChannel, TypeOK, chns
  <2>6. OneOwner' /\ ArgOK' BY <1>5 DEF IsrChannel, OneOwner, ArgOK, chns
  <2> QED BY <2>5, <2>6
<1> QED BY <1>2, <1>3, <1>4, <1>5

LEMMA NextIInv == IInv /\ [Next]_vars => IInv'
<1> SUFFICES ASSUME IInv, [Next]_vars PROVE IInv'
  OBVIOUS
<1>1. ASSUME NEW t \in Task, TaskStep(t) PROVE IInv'
  BY <1>1, RequestIInv, ReleaseIInv, CallIInv, ChannelIInv DEF TaskStep, InCall
<1>2. CASE (\E s \in Slot : TransferEnds(s) \/ HalfWay(s))
             \/ (\E n \in Instance : IsrEnter(n)) \/ IsrChannel
  BY <1>2, HardwareIInv
<1>3. CASE UNCHANGED vars
  BY <1>3 DEF IInv, TypeOK, OneOwner, ArgOK, vars, chns, regs, calls
<1> QED BY <1>1, <1>2, <1>3 DEF Next

LEMMA Invariance == Spec => []IInv
<1>1. Init => IInv BY InitIInv
<1>2. IInv /\ [Next]_vars => IInv' BY NextIInv
<1> QED BY <1>1, <1>2, PTL DEF Spec

\* The manager's context, the registers and the callers stay well formed.
THEOREM TypeCorrect == Spec => []TypeOK
<1>1. IInv => TypeOK BY DEF IInv
<1> QED BY <1>1, Invariance, PTL

\* No channel of the manager is ever given to two callers, and none leaks,
\* whatever the callers do with the channels they hold.
THEOREM OneOwnerCorrect == Spec => []OneOwner
<1>1. IInv => OneOwner BY DEF IInv
<1> QED BY <1>1, Invariance, PTL
-----------------------------------------------------------------------------
(* What a callback is told.  Two more facts make it inductive when callers  *)
(* do not replace callbacks: a callback that is there has its data, and a   *)
(* callback about to be stored finds its data in place.                     *)

Matched ==
    /\ \A s \in Slot : \A e \in Event : cb[s][e] # Null => data[s][e] = cb[s][e]
    /\ \A t \in Task : pc[t] = "install" =>
                          data[slot[t]][arg[t].event] = Mine(t)

\* Steps that change neither callbacks nor data nor a call that installs one.
LEMMA MatchedSame ==
    ASSUME Matched, cb' = cb, data' = data, slot' = slot, round' = round,
           \A t \in Task : pc'[t] = "install" => pc[t] = "install" /\ arg'[t] = arg[t]
    PROVE  Matched'
BY DEF Matched, Mine

LEMMA NextMatched ==
    ASSUME ~Reinstall, IInv, Matched, [Next]_vars
    PROVE  Matched'
<1> USE DEF IInv
<1>0. \A t, u \in Task : pc[t] # "free" /\ pc[u] # "free" /\ t # u
                          => slot[t] # slot[u]
  BY DEF OneOwner
<1>1. ASSUME NEW t \in Task, Request(t) PROVE Matched'
  <2>1. \A u \in Task : pc'[u] = "install" => u # t /\ pc[u] = "install"
    BY <1>1 DEF Request, TypeOK
  <2>2. \A u \in Task : u # t => slot'[u] = slot[u] /\ round'[u] = round[u]
    BY <1>1 DEF Request, TypeOK
  <2> QED BY <1>1, <2>1, <2>2 DEF Request, Matched, Mine
<1>2. ASSUME NEW t \in Task, Release(t) PROVE Matched'
  <2>1. slot[t] \in Slot
    BY <1>2 DEF Release, OneOwner
  <2>2. \A u \in Task : pc'[u] = "install" =>
            /\ u # t /\ pc[u] = "install"
            /\ slot'[u] = slot[u] /\ slot[u] # slot[t] /\ slot[u] \in Slot
    BY <1>0, <1>2 DEF Release, Forget, TypeOK, OneOwner
  <2>3. \A s \in Slot \ {slot[t]} : cb'[s] = cb[s] /\ data'[s] = data[s]
    BY <1>2 DEF Release, TypeOK
  <2>4. \A e \in Event : cb'[slot[t]][e] = Null
    BY <1>2, <2>1 DEF Release, TypeOK
  <2>5. \A s \in Slot : \A e \in Event : cb'[s][e] # Null => data'[s][e] = cb'[s][e]
    BY <2>3, <2>4 DEF Matched
  <2>6. ASSUME NEW u \in Task, pc'[u] = "install"
        PROVE  data'[slot'[u]][arg'[u].event] = Mine(u)'
    <3>1. data[slot[u]][arg[u].event] = Mine(u)
      BY <2>2, <2>6 DEF Matched
    <3>2. slot'[u] = slot[u] /\ data'[slot[u]] = data[slot[u]]
      BY <2>2, <2>3, <2>6
    <3>3. arg' = arg /\ round' = round
      BY <1>2 DEF Release
    <3> QED BY <3>1, <3>2, <3>3 DEF Mine
  <2> QED BY <2>5, <2>6 DEF Matched
<1>3. ASSUME NEW t \in Task, NEW e \in Event, InstallData(t, e) PROVE Matched'
  <2>1. slot[t] \in Slot /\ cb[slot[t]][e] = Null
    BY <1>3 DEF InstallData, Ready, MayInstall, OneOwner
  <2>2. round' = round
    BY <1>3, <2>1 DEF InstallData
  <2>3. /\ data' = [data EXCEPT ![slot[t]][e] = Mine(t)]
        /\ cb' = cb /\ slot' = slot
    BY <1>3, <2>2 DEF InstallData, Mine
  <2>4. \A s \in Slot : \A f \in Event : cb'[s][f] # Null => data'[s][f] = cb'[s][f]
    BY <2>1, <2>3 DEF Matched, TypeOK
  <2>5. pc'[t] = "install" /\ arg'[t].event = e /\ data'[slot'[t]][e] = Mine(t)'
    BY <1>3, <2>1, <2>2, <2>3 DEF InstallData, TypeOK, Mine
  <2>6. ASSUME NEW u \in Task, u # t, pc'[u] = "install"
        PROVE  data'[slot'[u]][arg'[u].event] = Mine(u)'
    <3>1. pc[u] = "install" /\ arg'[u] = arg[u]
      BY <1>3, <2>6 DEF InstallData, TypeOK
    <3>2. slot[u] # slot[t] /\ slot[u] \in Slot
      BY <1>0, <1>3, <2>6, <3>1 DEF InstallData, Ready, OneOwner
    <3>3. data'[slot[u]] = data[slot[u]]
      BY <2>3, <3>2 DEF TypeOK
    <3> QED BY <2>2, <2>3, <3>1, <3>3 DEF Matched, Mine
  <2> QED BY <2>4, <2>5, <2>6 DEF Matched
<1>4. ASSUME NEW t \in Task, InstallCb(t) PROVE Matched'
  <2>1. slot[t] \in Slot /\ arg[t].event \in Event
    BY <1>4 DEF InstallCb, OneOwner, ArgOK
  <2>2. data[slot[t]][arg[t].event] = Mine(t)
    BY <1>4 DEF InstallCb, Matched
  <2>3. \A s \in Slot : \A f \in Event : cb'[s][f] # Null => data'[s][f] = cb'[s][f]
    BY <1>4, <2>1, <2>2 DEF InstallCb, Matched, TypeOK
  <2>4. \A u \in Task : pc'[u] = "install" =>
            pc[u] = "install" /\ arg'[u] = arg[u]
    BY <1>4 DEF InstallCb, TypeOK
  <2> QED BY <1>4, <2>3, <2>4 DEF InstallCb, Matched, Mine
<1>5. ASSUME NEW t \in Task,
             ReleaseSearch(t) \/ SetupStatus(t) \/ CtrlRead(t)
               \/ SetupWrite(t) \/ CtrlWrite(t) \/ BeginWait(t) \/ EndWait(t)
      PROVE  Matched'
  <2>1. cb' = cb /\ data' = data /\ slot' = slot /\ round' = round
    BY <1>5 DEF ReleaseSearch, SetupStatus, CtrlRead, SetupWrite, CtrlWrite,
                BeginWait, EndWait, chns
  <2>2. \A u \in Task : pc'[u] = "install" => pc[u] = "install" /\ arg'[u] = arg[u]
    <3>1. pc'[t] # "install"
      BY <1>5 DEF ReleaseSearch, SetupStatus, CtrlRead, SetupWrite, CtrlWrite,
                  BeginWait, EndWait, TypeOK
    <3>2. \A u \in Task \ {t} : pc'[u] = pc[u] /\ arg'[u] = arg[u]
      BY <1>5 DEF ReleaseSearch, SetupStatus, CtrlRead, SetupWrite, CtrlWrite,
                  BeginWait, EndWait, TypeOK
    <3> QED BY <3>1, <3>2
  <2> QED BY <2>1, <2>2, MatchedSame
<1>6. ASSUME NEW t \in Task,
             EnableDmaIrq(t) \/ DisableDmaIrq(t) \/ EnableChannel(t) \/ ClearDone(t)
               \/ DisableChannel(t) \/ AbortTransfer(t) \/ CheckStatus(t)
               \/ ClearTransferStatus(t)
      PROVE  Matched'
  <2>1. /\ cb' = cb /\ data' = data /\ slot' = slot /\ round' = round
        /\ pc' = pc /\ arg' = arg
    BY <1>6 DEF EnableDmaIrq, DisableDmaIrq, EnableChannel, ClearDone, DisableChannel,
                AbortTransfer, CheckStatus, ClearTransferStatus, chns, calls
  <2> QED BY <2>1, MatchedSame
<1>7. CASE \/ \E s \in Slot : TransferEnds(s) \/ HalfWay(s)
           \/ \E n \in Instance : IsrEnter(n)
           \/ IsrChannel
           \/ UNCHANGED vars
  <2>1. /\ cb' = cb /\ data' = data /\ slot' = slot /\ round' = round
        /\ pc' = pc /\ arg' = arg
    BY <1>7 DEF TransferEnds, HalfWay, Raise, IsrEnter, IsrChannel, vars,
                chns, calls
  <2> QED BY <2>1, MatchedSame
<1> QED
  BY <1>1, <1>2, <1>3, <1>4, <1>5, <1>6, <1>7 DEF Next, TaskStep, InCall

LEMMA CalledEvents ==
    ASSUME TypeOK, NEW s \in Slot PROVE Called(s) \subseteq Event
<1>1. intstatus[s[1]] \subseteq Event \X Channel \X (Session \cup {Null})
  BY Constants DEF TypeOK
<1> QED BY <1>1 DEF Called, Pending, CheckEvents, Bits

\* When callers do not replace callbacks, the handler passes every callback
\* the data that was installed with it: a new owner's callback never sees an
\* earlier owner's data, nor none at all.
THEOREM DataCorrect ==
    ASSUME ~Reinstall PROVE Spec => []DataMatchesCallback
<1>1. Init => Matched
  BY DEF Init, Matched
<1>2. IInv /\ Matched /\ [Next]_vars => Matched'
  BY NextMatched
<1>3. IInv /\ Matched => DataMatchesCallback
  <2> SUFFICES ASSUME IInv, Matched, isr # NoSlot, NEW e \in Called(isr)
               PROVE  data[isr][e] = cb[isr][e]
    BY DEF DataMatchesCallback
  <2>1. isr \in Slot /\ cb[isr][e] # Null
    BY DEF IInv, TypeOK, Called
  <2>2. e \in Event
    BY <2>1, CalledEvents DEF IInv
  <2> QED BY <2>1, <2>2 DEF Matched
<1> QED BY <1>1, <1>2, <1>3, Invariance, PTL DEF Spec
-----------------------------------------------------------------------------
(* Whose transfer a callback is told about.  A channel nobody holds is idle *)
(* and has no callbacks; one whose owner has not set it up has none either; *)
(* from then on everything pending on it comes from its owner's transfers.  *)

FreeOK(s) ==
    ~alloc[s] => ~ctrl[s].enable /\ \A e \in Event : cb[s][e] = Null

OwnBits(t) == Bits(intstatus[Inst(t)], Chn(t))

OwnOK(t) ==
    /\ pc[t] = "free" => stage[t] = "new"
    /\ pc[t] # "free" =>
        /\ ctrl[slot[t]].enable => job[slot[t]] = Mine(t)
        /\ stage[t] = "new" => /\ pc[t] # "install"
                               /\ \A e \in Event : cb[slot[t]][e] = Null
        /\ stage[t] # "new" => /\ \A b \in OwnBits(t) : b[3] = Mine(t)
                               /\ \A e \in Event : cb[slot[t]][e] \in {Null, Mine(t)}
        /\ pc[t] = "setup" => /\ ~ctrl[slot[t]].enable /\ ~arg[t].write.enable
                              /\ OwnBits(t) = {}
        /\ pc[t] = "ctrl" /\ arg[t].write.enable => job[slot[t]] = Mine(t)
        /\ pc[t] = "release" => ~ctrl[slot[t]].enable

Owned == (\A s \in Slot : FreeOK(s)) /\ (\A t \in Task : OwnOK(t))

\* A caller whose channel is left alone, except that pending bits may go.
LEMMA OwnSame ==
    ASSUME NEW u \in Task, OwnOK(u),
           pc'[u] = pc[u], slot'[u] = slot[u], round'[u] = round[u],
           stage'[u] = stage[u], arg'[u] = arg[u],
           pc[u] # "free" => /\ ctrl'[slot[u]] = ctrl[slot[u]]
                             /\ job'[slot[u]] = job[slot[u]]
                             /\ cb'[slot[u]] = cb[slot[u]]
                             /\ OwnBits(u)' \subseteq OwnBits(u)
    PROVE  OwnOK(u)'
BY DEF OwnOK, Mine

\* A bit is the bit of one channel only.
LEMMA BitsApart ==
    ASSUME NEW t \in Task, NEW u \in Task, IInv,
           pc[t] # "free", pc[u] # "free", t # u,
           NEW r, r \in [Instance -> SUBSET (Event \X Channel \X (Session \cup {Null}))],
           \A n \in Instance \ {Inst(t)} : r[n] \subseteq intstatus[n],
           \A b \in r[Inst(t)] : b \in intstatus[Inst(t)] \/ b[2] = Chn(t)
    PROVE  Bits(r[Inst(u)], Chn(u)) \subseteq OwnBits(u)
<1>1. slot[t] \in Slot /\ slot[u] \in Slot /\ slot[t] # slot[u]
  BY DEF IInv, OneOwner
<1>2. Inst(t) # Inst(u) \/ Chn(t) # Chn(u)
  BY <1>1, Constants DEF Inst, Chn
<1>3. Inst(u) \in Instance
  BY <1>1, Constants DEF Inst
<1>4. CASE Inst(u) # Inst(t)
  BY <1>3, <1>4 DEF Bits, OwnBits
<1>5. CASE Inst(u) = Inst(t)
  BY <1>2, <1>5 DEF Bits, OwnBits
<1> QED BY <1>4, <1>5

\* A caller's step leaves every other caller's channel alone.
LEMMA OthersAlone ==
    ASSUME IInv, NEW t \in Task, TaskStep(t), NEW u \in Task, u # t
    PROVE  /\ pc'[u] = pc[u] /\ slot'[u] = slot[u] /\ round'[u] = round[u]
           /\ stage'[u] = stage[u] /\ arg'[u] = arg[u]
           /\ armed'[u] = armed[u] /\ done'[u] = done[u]
           /\ pc[u] # "free" =>
                /\ ctrl'[slot[u]] = ctrl[slot[u]] /\ job'[slot[u]] = job[slot[u]]
                /\ cb'[slot[u]] = cb[slot[u]]
                /\ OwnBits(u)' \subseteq OwnBits(u)
<1> USE DEF IInv
<1>0. IInv'
  BY RequestIInv, ReleaseIInv, CallIInv, ChannelIInv DEF TaskStep, InCall
<1>1. /\ pc'[u] = pc[u] /\ slot'[u] = slot[u] /\ round'[u] = round[u]
      /\ stage'[u] = stage[u] /\ arg'[u] = arg[u]
      /\ armed'[u] = armed[u] /\ done'[u] = done[u]
  <2>1. CASE Request(t) BY <2>1 DEF Request, TypeOK
  <2>2. CASE ReleaseSearch(t) BY <2>2 DEF ReleaseSearch, TypeOK
  <2>3. CASE SetupStatus(t) BY <2>3 DEF SetupStatus, TypeOK
  <2>4. CASE CtrlRead(t) BY <2>4 DEF CtrlRead, TypeOK
  <2>5. ASSUME NEW e \in Event, InstallData(t, e)
        PROVE  /\ pc'[u] = pc[u] /\ slot'[u] = slot[u] /\ round'[u] = round[u]
               /\ stage'[u] = stage[u] /\ arg'[u] = arg[u]
               /\ armed'[u] = armed[u] /\ done'[u] = done[u]
    BY <2>5 DEF InstallData, TypeOK
  <2>6. CASE SetupWrite(t) BY <2>6 DEF SetupWrite, TypeOK
  <2>7. CASE CtrlWrite(t) BY <2>7 DEF CtrlWrite, TypeOK
  <2>8. CASE InstallCb(t) BY <2>8 DEF InstallCb, TypeOK
  <2>9. CASE Release(t) BY <2>9 DEF Release, Forget, TypeOK
  <2>10. CASE EnableDmaIrq(t) BY <2>10 DEF EnableDmaIrq, calls
  <2>11. CASE DisableDmaIrq(t) BY <2>11 DEF DisableDmaIrq, TypeOK
  <2>12. CASE EnableChannel(t) BY <2>12 DEF EnableChannel, TypeOK
  <2>13. CASE DisableChannel(t) BY <2>13 DEF DisableChannel, TypeOK
  <2>14. CASE AbortTransfer(t) BY <2>14 DEF AbortTransfer, TypeOK
  <2>15. CASE CheckStatus(t) BY <2>15 DEF CheckStatus, TypeOK
  <2>16. CASE ClearTransferStatus(t) BY <2>16 DEF ClearTransferStatus, TypeOK
  <2>17. CASE BeginWait(t) BY <2>17 DEF BeginWait, TypeOK
  <2>18. CASE EndWait(t) BY <2>18 DEF EndWait, TypeOK
  <2>19. CASE ClearDone(t) BY <2>19 DEF ClearDone, TypeOK
  <2> QED
    BY <2>1, <2>2, <2>3, <2>4, <2>5, <2>6, <2>7, <2>8, <2>9, <2>10, <2>11,
       <2>12, <2>13, <2>14, <2>15, <2>16, <2>17, <2>18, <2>19 DEF TaskStep, InCall
<1>2. ASSUME pc[u] # "free"
      PROVE  /\ ctrl'[slot[u]] = ctrl[slot[u]] /\ job'[slot[u]] = job[slot[u]]
             /\ cb'[slot[u]] = cb[slot[u]]
             /\ OwnBits(u)' \subseteq OwnBits(u)
  <2>0. slot[u] \in Slot /\ (pc[t] # "free" => slot[t] # slot[u])
    BY <1>2 DEF OneOwner
  <2>1. CASE \/ Request(t) \/ ReleaseSearch(t) \/ CtrlRead(t) \/ EnableDmaIrq(t)
             \/ DisableDmaIrq(t) \/ ClearDone(t) \/ BeginWait(t) \/ EndWait(t)
             \/ \E e \in Event : InstallData(t, e)
    <3>1. ctrl' = ctrl /\ job' = job /\ cb' = cb /\ intstatus' = intstatus
      BY <2>1 DEF Request, ReleaseSearch, CtrlRead, EnableDmaIrq, DisableDmaIrq,
                  ClearDone, BeginWait, EndWait, InstallData, chns, regs
    <3> QED BY <1>1, <3>1 DEF OwnBits, Inst, Chn
  <2>2. CASE Release(t) \/ InstallCb(t)
    <3>1. ctrl' = ctrl /\ job' = job /\ intstatus' = intstatus
      BY <2>2 DEF Release, InstallCb, regs
    <3>2. cb'[slot[u]] = cb[slot[u]]
      BY <2>0, <2>2 DEF Release, InstallCb, TypeOK
    <3> QED BY <1>1, <3>1, <3>2 DEF OwnBits, Inst, Chn
  <2>3. CASE SetupWrite(t) \/ CtrlWrite(t) \/ DisableChannel(t) \/ EnableChannel(t)
    <3>1. cb' = cb /\ intstatus' = intstatus
      BY <2>3 DEF SetupWrite, CtrlWrite, DisableChannel, EnableChannel, chns
    <3>2. ctrl'[slot[u]] = ctrl[slot[u]]
      BY <2>0, <2>3 DEF SetupWrite, CtrlWrite, DisableChannel, EnableChannel,
                        Ready, TypeOK
    <3>3. job'[slot[u]] = job[slot[u]]
      BY <2>0, <2>3 DEF SetupWrite, CtrlWrite, DisableChannel, EnableChannel,
                        Ready, TypeOK
    <3> QED BY <1>1, <3>1, <3>2, <3>3 DEF OwnBits, Inst, Chn
  <2>4. CASE \/ SetupStatus(t) \/ AbortTransfer(t) \/ CheckStatus(t)
             \/ ClearTransferStatus(t)
    <3>1. pc[t] # "free" /\ cb' = cb /\ job' = job
      BY <2>4 DEF SetupStatus, AbortTransfer, CheckStatus,
                  ClearTransferStatus, Ready, chns
    <3>2. ctrl'[slot[u]] = ctrl[slot[u]]
      BY <2>0, <2>4, <3>1 DEF SetupStatus, AbortTransfer, CheckStatus,
                  ClearTransferStatus, TypeOK
    <3>3. \A n \in Instance \ {Inst(t)} : intstatus'[n] \subseteq intstatus[n]
      BY <2>4 DEF SetupStatus, AbortTransfer, CheckStatus,
                  ClearTransferStatus, TypeOK
    <3>4. \A b \in intstatus'[Inst(t)] : b \in intstatus[Inst(t)] \/ b[2] = Chn(t)
      <4>1. Inst(t) \in Instance
        BY <3>1, Constants DEF OneOwner, Inst
      <4>2. CASE AbortTransfer(t)
        <5>1. intstatus'[Inst(t)] = Report(intstatus[Inst(t)], "abort", Chn(t), job[slot[t]])
          BY <4>1, <4>2 DEF AbortTransfer, TypeOK
        <5> QED BY <5>1, ReportOps
      <4>3. CASE SetupStatus(t) \/ CheckStatus(t) \/ ClearTransferStatus(t)
        BY <4>1, <4>3, StatusOps DEF SetupStatus, CheckStatus,
                                     ClearTransferStatus, TypeOK
      <4> QED BY <2>4, <4>2, <4>3
    <3>5. intstatus' \in [Instance -> SUBSET (Event \X Channel \X (Session \cup {Null}))]
      BY <1>0 DEF TypeOK
    <3>6. Bits(intstatus'[Inst(u)], Chn(u)) \subseteq OwnBits(u)
      BY <1>2, <3>1, <3>3, <3>4, <3>5, BitsApart
    <3> QED BY <1>1, <3>1, <3>2, <3>6 DEF OwnBits, Inst, Chn
  <2>5. \/ Request(t) \/ ReleaseSearch(t) \/ CtrlRead(t) \/ EnableDmaIrq(t)
        \/ DisableDmaIrq(t) \/ ClearDone(t) \/ BeginWait(t) \/ EndWait(t)
        \/ \E e \in Event : InstallData(t, e)
        \/ Release(t) \/ InstallCb(t)
        \/ SetupWrite(t) \/ CtrlWrite(t) \/ DisableChannel(t) \/ EnableChannel(t)
        \/ SetupStatus(t) \/ AbortTransfer(t) \/ CheckStatus(t)
        \/ ClearTransferStatus(t)
    BY DEF TaskStep, InCall
  <2> QED BY <2>1, <2>2, <2>3, <2>4, <2>5
<1> QED BY <1>1, <1>2

LEMMA OthersOwned ==
    ASSUME IInv, NEW t \in Task, TaskStep(t), NEW u \in Task, u # t, OwnOK(u)
    PROVE  OwnOK(u)'
BY OthersAlone, OwnSame

\* The caller's own channel.
LEMMA SelfOwned ==
    ASSUME ~Abandon, ~Reinstall, ~EarlyCb, IInv, NEW t \in Task, TaskStep(t),
           \A s \in Slot : FreeOK(s), OwnOK(t)
    PROVE  OwnOK(t)'
<1> USE DEF IInv
<1>1. CASE Request(t)
  <2>1. PICK s \in Slot : FirstFree(s) /\ slot' = [slot EXCEPT ![t] = s]
    BY <1>1 DEF Request
  <2>2. FreeOK(s) /\ ~alloc[s]
    BY <2>1 DEF FirstFree
  <2>3. slot'[t] = s /\ pc'[t] = "own" /\ ctrl' = ctrl /\ cb' = cb
    BY <1>1, <2>1 DEF Request, TypeOK, regs
  <2>4. stage'[t] = "new"
    BY <1>1 DEF Request, OwnOK
  <2> QED BY <2>2, <2>3, <2>4 DEF OwnOK, FreeOK
<1>2. CASE Release(t)
  <2>1. pc'[t] = "free" /\ stage'[t] = "new"
    BY <1>2 DEF Release, Forget, TypeOK
  <2> QED BY <2>1 DEF OwnOK
<1>3. ASSUME pc[t] # "free", slot' = slot
      PROVE  slot[t] \in Slot /\ Inst(t) \in Instance /\ Chn(t) \in Channel
             /\ Inst(t)' = Inst(t) /\ Chn(t)' = Chn(t)
  BY <1>3, Constants DEF OneOwner, Inst, Chn
<1>4. CASE ReleaseSearch(t)
  <2>1. pc'[t] = "release" /\ pc[t] = "own" /\ ~ctrl[slot[t]].enable
    BY <1>4 DEF ReleaseSearch, Ready, MayRelease, TypeOK
  <2>2. /\ slot' = slot /\ round' = round /\ stage' = stage /\ ctrl' = ctrl
        /\ cb' = cb /\ job' = job /\ intstatus' = intstatus
    BY <1>4 DEF ReleaseSearch, chns, regs
  <2> QED BY <1>3, <2>1, <2>2 DEF OwnOK, OwnBits, Mine
<1>5. CASE SetupStatus(t)
  <2>1. pc'[t] = "setup" /\ pc[t] = "own" /\ ~ctrl[slot[t]].enable
    BY <1>5 DEF SetupStatus, Ready, MaySetup, TypeOK
  <2>2. /\ slot' = slot /\ round' = round /\ stage' = stage /\ ctrl' = ctrl
        /\ cb' = cb /\ job' = job
    BY <1>5 DEF SetupStatus, chns
  <2>3. ~arg'[t].write.enable
    BY <1>5 DEF SetupStatus, SetupCtrl, TypeOK
  <2>4. OwnBits(t)' = {}
    BY <1>3, <1>5, <2>1, <2>2 DEF SetupStatus, SetupClears, W1C, Bits, OwnBits, TypeOK
  <2> QED BY <2>1, <2>2, <2>3, <2>4 DEF OwnOK, Mine
<1>6. CASE CtrlRead(t)
  <2>1. pc'[t] = "ctrl" /\ pc[t] = "own"
    BY <1>6 DEF CtrlRead, Ready, TypeOK
  <2>2. /\ slot' = slot /\ round' = round /\ stage' = stage /\ ctrl' = ctrl
        /\ cb' = cb /\ job' = job /\ intstatus' = intstatus
    BY <1>6 DEF CtrlRead, chns, regs
  <2>3. ctrl[slot[t]] \in Ctrl
    BY <1>3, <2>1, <2>2 DEF TypeOK
  <2>4. arg'[t].write.enable = ctrl[slot[t]].enable
    <3>1. PICK m \in SUBSET Event :
             \E new \in {UnmaskCtrl(ctrl[slot[t]], m), MaskCtrl(ctrl[slot[t]], m)} :
                arg' = [arg EXCEPT ![t].write = new]
      BY <1>6 DEF CtrlRead
    <3>2. UnmaskCtrl(ctrl[slot[t]], m).enable = ctrl[slot[t]].enable
      BY <2>3 DEF UnmaskCtrl, Ctrl
    <3>3. MaskCtrl(ctrl[slot[t]], m).enable = ctrl[slot[t]].enable
      BY <2>3 DEF MaskCtrl, Ctrl
    <3> QED BY <3>1, <3>2, <3>3 DEF TypeOK
  <2> QED BY <1>3, <2>1, <2>2, <2>4 DEF OwnOK, OwnBits, Mine
<1>7. ASSUME NEW e \in Event, InstallData(t, e) PROVE OwnOK(t)'
  <2>1. pc'[t] = "install" /\ pc[t] = "own" /\ stage[t] # "new"
    BY <1>7 DEF InstallData, Ready, MayInstall, TypeOK
  <2>2. /\ slot' = slot /\ round' = round /\ stage' = stage /\ ctrl' = ctrl
        /\ cb' = cb /\ job' = job /\ intstatus' = intstatus
    BY <1>7 DEF InstallData, MayInstall, regs
  <2> QED BY <1>3, <2>1, <2>2 DEF OwnOK, OwnBits, Mine
<1>8. CASE SetupWrite(t)
  <2>1. /\ pc'[t] = "own" /\ pc[t] = "setup" /\ stage'[t] = "ready"
        /\ ctrl' = [ctrl EXCEPT ![slot[t]] = arg[t].write]
    BY <1>8 DEF SetupWrite, TypeOK
  <2>2. /\ slot' = slot /\ round' = round
        /\ cb' = cb /\ job' = job /\ intstatus' = intstatus
    BY <1>8 DEF SetupWrite, chns
  <2>3. slot[t] \in Slot
    BY <1>3, <2>1, <2>2
  <2>4. ~ctrl'[slot[t]].enable /\ OwnBits(t)' = {}
    BY <1>3, <2>1, <2>2, <2>3 DEF OwnOK, OwnBits, TypeOK
  <2> QED BY <2>1, <2>2, <2>4 DEF OwnOK, Mine
<1>9. CASE CtrlWrite(t)
  <2>1. /\ pc'[t] = "own" /\ pc[t] = "ctrl"
        /\ ctrl' = [ctrl EXCEPT ![slot[t]] = arg[t].write]
    BY <1>9 DEF CtrlWrite, TypeOK
  <2>2. /\ slot' = slot /\ round' = round /\ stage' = stage
        /\ cb' = cb /\ job' = job /\ intstatus' = intstatus
    BY <1>9 DEF CtrlWrite, chns
  <2>3. ctrl'[slot[t]].enable = arg[t].write.enable
    BY <1>3, <2>1, <2>2 DEF TypeOK
  <2> QED BY <1>3, <2>1, <2>2, <2>3 DEF OwnOK, OwnBits, Mine
<1>10. CASE InstallCb(t)
  <2>1. pc'[t] = "own" /\ pc[t] = "install"
    BY <1>10 DEF InstallCb, TypeOK
  <2>2. /\ slot' = slot /\ round' = round /\ stage' = stage /\ ctrl' = ctrl
        /\ job' = job /\ intstatus' = intstatus
    BY <1>10 DEF InstallCb, regs
  <2>3. \A e \in Event : cb'[slot[t]][e] \in {cb[slot[t]][e], Mine(t)}
    BY <1>3, <1>10, <2>1, <2>2 DEF InstallCb, TypeOK
  <2> QED BY <1>3, <2>1, <2>2, <2>3 DEF OwnOK, OwnBits, Mine
<1>11. CASE EnableDmaIrq(t) \/ DisableDmaIrq(t) \/ ClearDone(t)
  <2>1. /\ slot' = slot /\ round' = round /\ stage' = stage /\ ctrl' = ctrl
        /\ cb' = cb /\ job' = job /\ intstatus' = intstatus
        /\ pc' = pc /\ arg' = arg
    BY <1>11 DEF EnableDmaIrq, DisableDmaIrq, ClearDone, chns, regs, calls
  <2> QED BY <2>1 DEF OwnOK, OwnBits, Inst, Chn, Mine
<1>12. CASE EnableChannel(t)
  <2>1. /\ pc[t] = "own" /\ pc' = pc /\ slot' = slot /\ round' = round
        /\ cb' = cb /\ intstatus' = intstatus
    BY <1>12 DEF EnableChannel, Ready, chns
  <2>2. stage'[t] = "new" <=> stage[t] = "new"
    BY <1>12 DEF EnableChannel, TypeOK
  <2>3. job'[slot[t]] = Mine(t) \/ (ctrl' = ctrl /\ job' = job)
    BY <1>3, <1>12, <2>1 DEF EnableChannel, TypeOK
  <2> QED BY <1>3, <2>1, <2>2, <2>3 DEF OwnOK, OwnBits, Mine
<1>13. CASE DisableChannel(t)
  <2>1. /\ pc[t] = "own" /\ pc' = pc /\ slot' = slot /\ round' = round
        /\ stage' = stage /\ cb' = cb /\ job' = job /\ intstatus' = intstatus
    BY <1>13 DEF DisableChannel, Ready, chns
  <2>2. ~ctrl'[slot[t]].enable
    BY <1>3, <1>13, <2>1 DEF DisableChannel, DisableCtrl, TypeOK, Ctrl
  <2> QED BY <1>3, <2>1, <2>2 DEF OwnOK, OwnBits, Mine
<1>14. CASE AbortTransfer(t)
  <2>1. /\ pc[t] = "own" /\ pc' = pc /\ slot' = slot /\ round' = round
        /\ stage' = stage /\ cb' = cb /\ job' = job
    BY <1>14 DEF AbortTransfer, Ready, chns
  <2>2. ~ctrl'[slot[t]].enable
    BY <1>3, <1>14, <2>1 DEF AbortTransfer, DisableCtrl, TypeOK, Ctrl
  <2>3. job[slot[t]] = Mine(t)
    BY <1>14, <2>1 DEF AbortTransfer, OwnOK
  <2>4. \A b \in OwnBits(t)' : b \in OwnBits(t) \/ b[3] = Mine(t)
    <3>1. intstatus'[Inst(t)] = Report(intstatus[Inst(t)], "abort", Chn(t), Mine(t))
      BY <1>3, <1>14, <2>1, <2>3 DEF AbortTransfer, TypeOK
    <3> QED BY <1>3, <2>1, <3>1, ReportOps DEF OwnBits, Bits
  <2> QED BY <2>1, <2>2, <2>3, <2>4 DEF OwnOK, Mine
<1>15. CASE CheckStatus(t) \/ ClearTransferStatus(t)
  <2>1. /\ pc[t] = "own" /\ pc' = pc /\ slot' = slot /\ round' = round
        /\ stage' = stage /\ cb' = cb /\ job' = job /\ ctrl' = ctrl
    BY <1>15 DEF CheckStatus, ClearTransferStatus, Ready, chns
  <2>2. OwnBits(t)' \subseteq OwnBits(t)
    BY <1>3, <1>15, <2>1, StatusOps
    DEF CheckStatus, ClearTransferStatus, OwnBits, Bits, TypeOK
  <2> QED BY <2>1, <2>2 DEF OwnOK, Mine
<1>16. CASE BeginWait(t) \/ EndWait(t)
  <2>1. /\ slot' = slot /\ round' = round /\ ctrl' = ctrl
        /\ cb' = cb /\ job' = job /\ intstatus' = intstatus
        /\ stage'[t] = "new" <=> stage[t] = "new"
    BY <1>16 DEF BeginWait, EndWait, chns, regs, TypeOK
  <2>2. pc[t] \in {"own", "wait"} /\ pc'[t] \in {"own", "wait"}
    BY <1>16 DEF BeginWait, EndWait, Ready, TypeOK
  <2> QED BY <2>1, <2>2 DEF OwnOK, OwnBits, Inst, Chn, Mine
<1> QED
  BY <1>1, <1>2, <1>4, <1>5, <1>6, <1>7, <1>8, <1>9, <1>10, <1>11, <1>12,
     <1>13, <1>14, <1>15, <1>16 DEF TaskStep, InCall

\* A channel that nobody holds stays idle: a caller gives back an idle one.
LEMMA FreeOwned ==
    ASSUME ~Abandon, IInv, NEW t \in Task, TaskStep(t), Owned,
           NEW s \in Slot
    PROVE  FreeOK(s)'
<1> USE DEF IInv
<1>0. pc[t] # "free" => slot[t] \in Slot /\ alloc[slot[t]]
  BY DEF OneOwner
<1>1. CASE Request(t)
  <2>1. ctrl' = ctrl /\ cb' = cb /\ (alloc[s] => alloc'[s])
    BY <1>1 DEF Request, TypeOK, regs
  <2> QED BY <2>1 DEF Owned, FreeOK
<1>2. CASE Release(t)
  <2>1. ctrl' = ctrl /\ pc[t] = "release" /\ slot[t] \in Slot
    BY <1>0, <1>2 DEF Release, regs
  <2>2. CASE s = slot[t]
    <3>1. ~ctrl[s].enable BY <2>1, <2>2 DEF Owned, OwnOK
    <3>2. \A e \in Event : cb'[s][e] = Null
      BY <1>2, <2>1, <2>2 DEF Release, TypeOK
    <3> QED BY <2>1, <3>1, <3>2 DEF FreeOK
  <2>3. CASE s # slot[t]
    <3>1. alloc'[s] = alloc[s] /\ cb'[s] = cb[s]
      BY <1>2, <2>3 DEF Release, TypeOK
    <3> QED BY <2>1, <3>1 DEF Owned, FreeOK
  <2> QED BY <2>2, <2>3
<1>3. CASE SetupWrite(t) \/ CtrlWrite(t) \/ InstallCb(t)
  <2>1. alloc' = alloc /\ pc[t] # "free"
    BY <1>3 DEF SetupWrite, CtrlWrite, InstallCb, chns
  <2>2. s # slot[t] => ctrl'[s] = ctrl[s] /\ cb'[s] = cb[s]
    BY <1>3 DEF SetupWrite, CtrlWrite, InstallCb, chns, regs, TypeOK
  <2> QED BY <1>0, <2>1, <2>2 DEF Owned, FreeOK
<1>4. CASE EnableChannel(t) \/ DisableChannel(t) \/ AbortTransfer(t)
  <2>1. alloc' = alloc /\ pc[t] # "free" /\ cb' = cb
    BY <1>4 DEF EnableChannel, DisableChannel, AbortTransfer, Ready, chns
  <2>2. s # slot[t] => ctrl'[s] = ctrl[s]
    BY <1>4 DEF EnableChannel, DisableChannel, AbortTransfer, TypeOK
  <2> QED BY <1>0, <2>1, <2>2 DEF Owned, FreeOK
<1>5. CASE \/ ReleaseSearch(t) \/ SetupStatus(t) \/ CtrlRead(t)
           \/ \E e \in Event : InstallData(t, e)
           \/ EnableDmaIrq(t) \/ DisableDmaIrq(t) \/ CheckStatus(t)
           \/ ClearTransferStatus(t) \/ ClearDone(t) \/ BeginWait(t) \/ EndWait(t)
  <2>1. alloc' = alloc /\ ctrl' = ctrl /\ cb' = cb
    BY <1>5 DEF ReleaseSearch, SetupStatus, CtrlRead, InstallData, EnableDmaIrq,
                DisableDmaIrq, CheckStatus, ClearTransferStatus, ClearDone,
                BeginWait, EndWait, chns, regs
  <2> QED BY <2>1 DEF Owned, FreeOK
<1> QED BY <1>1, <1>2, <1>3, <1>4, <1>5 DEF TaskStep, InCall

\* What a controller's step may add to the status: its channel's bit.
LEMMA RaiseBits ==
    ASSUME TypeOK, NEW s \in Slot, NEW e \in Event, Raise(s, e)
    PROVE  \A n \in Instance : \A b \in intstatus'[n] :
              b \in intstatus[n] \/ (n = s[1] /\ b = <<e, s[2], job[s]>>)
BY ReportOps DEF Raise, TypeOK

\* The controllers raise events for whoever started the transfer.
LEMMA RaiseOwned ==
    ASSUME IInv, Owned, NEW s \in Slot, NEW e \in Event, Raise(s, e),
           \A u \in Slot : ctrl'[u].enable => ctrl[u].enable
    PROVE  Owned'
<1> USE DEF IInv
<1>1. /\ alloc' = alloc /\ cb' = cb /\ job' = job
      /\ pc' = pc /\ slot' = slot /\ round' = round /\ stage' = stage
      /\ arg' = arg
  BY DEF Raise, chns, calls
<1>2. ASSUME NEW u \in Slot PROVE FreeOK(u)'
  BY <1>1 DEF Owned, FreeOK
<1>3. \A n \in Instance : \A b \in intstatus'[n] :
         b \in intstatus[n] \/ (n = s[1] /\ b = <<e, s[2], job[s]>>)
  BY RaiseBits
<1>4. ASSUME NEW u \in Task PROVE OwnOK(u)'
  <2>1. OwnOK(u)
    BY DEF Owned
  <2>2. CASE pc[u] = "free"
    BY <1>1, <2>1, <2>2 DEF OwnOK
  <2>3. CASE pc[u] # "free"
    <3>1. slot[u] \in Slot /\ Inst(u) \in Instance /\ slot[u] = <<Inst(u), Chn(u)>>
      BY <2>3, Constants DEF OneOwner, Inst, Chn
    <3>2. ctrl'[slot[u]].enable => ctrl[slot[u]].enable
      BY <3>1
    <3>3. CASE slot[u] = s
      <4>1. ctrl[slot[u]].enable
        BY <3>3 DEF Raise
      <4>2. job[s] = Mine(u) /\ pc[u] \notin {"setup", "release"}
        BY <2>1, <2>3, <3>3, <4>1 DEF OwnOK
      <4>3. \A b \in OwnBits(u)' : b \in OwnBits(u) \/ b[3] = Mine(u)
        BY <1>1, <1>3, <3>1, <3>3, <4>2 DEF OwnBits, Bits, Inst, Chn
      <4> QED BY <1>1, <2>1, <2>3, <3>2, <4>2, <4>3 DEF OwnOK, Mine
    <3>4. CASE slot[u] # s
      <4>1. Inst(u) # s[1] \/ Chn(u) # s[2]
        BY <3>1, <3>4, Constants
      <4>2. OwnBits(u)' \subseteq OwnBits(u)
        BY <1>1, <1>3, <3>1, <4>1 DEF OwnBits, Bits, Inst, Chn
      <4> QED BY <1>1, <2>1, <2>3, <3>2, <4>2 DEF OwnOK, Mine
    <3> QED BY <3>3, <3>4
  <2> QED BY <2>2, <2>3
<1> QED BY <1>2, <1>4 DEF Owned

LEMMA HardwareOwned ==
    ASSUME IInv, Owned,
           \/ \E s \in Slot : TransferEnds(s) \/ HalfWay(s)
           \/ \E n \in Instance : IsrEnter(n)
           \/ IsrChannel
           \/ UNCHANGED vars
    PROVE  Owned'
<1> USE DEF IInv
<1>1. ASSUME NEW s \in Slot, TransferEnds(s) PROVE Owned'
  <2>1. PICK e \in Event : Raise(s, e)
    BY <1>1 DEF TransferEnds, Ends
  <2>2. ctrl' = [ctrl EXCEPT ![s].enable = FALSE]
    BY <1>1 DEF TransferEnds
  <2>3. \A u \in Slot : ctrl'[u].enable => ctrl[u].enable
    BY <2>2 DEF TypeOK, Ctrl
  <2> QED BY <2>1, <2>3, RaiseOwned
<1>2. ASSUME NEW s \in Slot, HalfWay(s) PROVE Owned'
  BY <1>2, RaiseOwned DEF HalfWay
<1>3. CASE (\E n \in Instance : IsrEnter(n)) \/ UNCHANGED vars
  <2>1. /\ chns' = chns /\ regs' = regs /\ job' = job /\ calls' = calls
    BY <1>3 DEF IsrEnter, vars
  <2>2. \A s \in Slot : FreeOK(s)'
    BY <2>1 DEF Owned, FreeOK, chns, regs
  <2>3. \A u \in Task : OwnOK(u)'
    BY <2>1, OwnSame DEF Owned, OwnBits, Inst, Chn, chns, regs, calls
  <2> QED BY <2>2, <2>3 DEF Owned
<1>4. CASE IsrChannel
  <2>1. /\ alloc' = alloc /\ cb' = cb /\ job' = job /\ ctrl' = ctrl
        /\ pc' = pc /\ slot' = slot /\ round' = round /\ stage' = stage
        /\ arg' = arg
    BY <1>4 DEF IsrChannel, chns
  <2>2. \A n \in Instance : intstatus'[n] \subseteq intstatus[n]
    BY <1>4, StatusOps DEF IsrChannel, TypeOK
  <2>3. \A u \in Task : pc[u] # "free" => OwnBits(u)' \subseteq OwnBits(u)
    BY <2>1, <2>2, Constants DEF OwnBits, Bits, Inst, Chn, OneOwner
  <2>4. \A u \in Task : OwnOK(u)'
    BY <2>1, <2>3, OwnSame DEF Owned
  <2> QED BY <2>1, <2>4 DEF Owned, FreeOK
<1> QED BY <1>1, <1>2, <1>3, <1>4

LEMMA NextOwned ==
    ASSUME ~Abandon, ~Reinstall, ~EarlyCb, IInv, Owned, [Next]_vars
    PROVE  Owned'
<1>1. ASSUME NEW t \in Task, TaskStep(t) PROVE Owned'
  <2>1. \A u \in Task : OwnOK(u)'
    BY <1>1, OthersOwned, SelfOwned DEF Owned
  <2>2. \A s \in Slot : FreeOK(s)'
    BY <1>1, FreeOwned
  <2> QED BY <2>1, <2>2 DEF Owned
<1> QED BY <1>1, HardwareOwned DEF Next

\* When callers release and set up only idle channels, install callbacks after
\* they set the channel up and do not replace them, a callback is only ever
\* told about a transfer of the session that installed it, never about one the
\* channel's earlier owner started.  They may start the channel before they set
\* it up, start it again, and change the control of a running one.
THEOREM CompletionCorrect ==
    ASSUME ~Abandon, ~Reinstall, ~EarlyCb PROVE Spec => []OwnCompletion
<1>1. Init => Owned
  BY DEF Init, Owned, FreeOK, OwnOK
<1>2. IInv /\ Owned /\ [Next]_vars => Owned'
  BY NextOwned
<1>3. IInv /\ Owned => OwnCompletion
  <2> SUFFICES ASSUME IInv, Owned, isr # NoSlot,
                      NEW b \in Bits(intstatus[isr[1]], isr[2]), b[1] \in Called(isr)
               PROVE  b[3] = cb[isr][b[1]]
    BY DEF OwnCompletion
  <2>1. isr \in Slot /\ b[1] \in Event /\ cb[isr][b[1]] # Null
    BY CalledEvents DEF IInv, TypeOK, Called
  <2>2. alloc[isr]
    BY <2>1 DEF Owned, FreeOK
  <2>3. PICK t \in Task : pc[t] # "free" /\ slot[t] = isr
    BY <2>1, <2>2 DEF IInv, OneOwner
  <2>4. b \in OwnBits(t)
    BY <2>3 DEF OwnBits, Inst, Chn
  <2>5. OwnOK(t)
    BY DEF Owned
  <2> QED BY <2>1, <2>3, <2>4, <2>5 DEF OwnOK
<1> QED BY <1>1, <1>2, <1>3, Invariance, PTL DEF Spec
-----------------------------------------------------------------------------
(* When has_done is set.  A channel that has been set up and not started    *)
(* again, or whose transfer the caller was told the end of, has nothing     *)
(* pending, so what ends an armed caller's wait is an event of the transfer *)
(* it started, and that transfer is over.                                   *)

QuietBits(t) == \A b \in OwnBits(t) : b[1] = "half"

TimelyOK(t) ==
    /\ (armed[t] => pc[t] \in {"own", "install", "wait"}) /\ (pc[t] = "wait" => armed[t])
    /\ pc[t] # "free" /\ stage[t] = "ready" =>
           /\ ~ctrl[slot[t]].enable /\ QuietBits(t)
           /\ pc[t] = "ctrl" => ~arg[t].write.enable
    /\ armed[t] /\ ctrl[slot[t]].enable => ~done[t] /\ QuietBits(t)
    /\ armed[t] /\ done[t] => QuietBits(t)

Timely == \A t \in Task : TimelyOK(t)

LEMMA TimelySelf ==
    ASSUME IInv, NEW t \in Task, TaskStep(t), OwnOK(t), TimelyOK(t)
    PROVE  TimelyOK(t)'
<1> USE DEF IInv
<1>0. (pc[t] # "free" => slot[t] \in Slot) /\ ctrl \in [Slot -> Ctrl]
  BY DEF OneOwner, TypeOK
<1>1. CASE Request(t)
  <2>1. pc'[t] = "own" /\ stage'[t] = "new" /\ armed'[t] = FALSE
    BY <1>1 DEF Request, OwnOK, TimelyOK, TypeOK
  <2> QED BY <2>1 DEF TimelyOK
<1>2. CASE Release(t)
  <2>1. pc'[t] = "free" /\ armed'[t] = FALSE
    BY <1>2 DEF Release, Forget, TimelyOK, TypeOK
  <2> QED BY <2>1 DEF TimelyOK
<1>3. CASE ReleaseSearch(t) \/ DisableDmaIrq(t)
  <2>1. /\ armed'[t] = FALSE /\ pc[t] = "own" /\ pc'[t] \in {"own", "release"}
        /\ UNCHANGED <<slot, stage, ctrl, intstatus>>
    BY <1>3 DEF ReleaseSearch, DisableDmaIrq, Ready, regs, TypeOK
  <2> QED BY <2>1 DEF TimelyOK, QuietBits, OwnBits, Inst, Chn
<1>4. CASE SetupStatus(t)
  <2>1. /\ armed'[t] = FALSE /\ pc[t] = "own" /\ pc'[t] = "setup"
        /\ UNCHANGED <<slot, stage, ctrl>>
    BY <1>4 DEF SetupStatus, Ready, TypeOK
  <2>2. QuietBits(t)'
    BY <1>4, <2>1, <1>0, Constants
       DEF SetupStatus, SetupClears, W1C, Bits, QuietBits, OwnBits, Inst, Chn, TypeOK
  <2> QED BY <2>1, <2>2 DEF TimelyOK
<1>5. CASE SetupWrite(t)
  <2>1. /\ pc[t] = "setup" /\ pc'[t] = "own" /\ UNCHANGED <<slot, intstatus, armed>>
        /\ ctrl'[slot[t]] = arg[t].write
    BY <1>5, <1>0 DEF SetupWrite, TypeOK
  <2>2. ~arg[t].write.enable /\ OwnBits(t) = {} /\ armed[t] = FALSE
    BY <2>1 DEF OwnOK, TimelyOK, TypeOK
  <2>3. QuietBits(t)'
    BY <2>1, <2>2 DEF QuietBits, OwnBits, Inst, Chn
  <2> QED BY <2>1, <2>2, <2>3 DEF TimelyOK
<1>6. ASSUME NEW e \in Event, InstallData(t, e) PROVE TimelyOK(t)'
  <2>1. /\ pc[t] = "own" /\ pc'[t] = "install"
        /\ UNCHANGED <<slot, stage, armed, done, ctrl, intstatus>>
    BY <1>6 DEF InstallData, Ready, regs, TypeOK
  <2> QED BY <2>1 DEF TimelyOK, QuietBits, OwnBits, Inst, Chn
<1>7. CASE InstallCb(t)
  <2>1. /\ pc[t] = "install" /\ pc'[t] = "own"
        /\ UNCHANGED <<slot, stage, armed, done, ctrl, intstatus>>
    BY <1>7 DEF InstallCb, regs, TypeOK
  <2> QED BY <2>1 DEF TimelyOK, QuietBits, OwnBits, Inst, Chn
<1>8. CASE CtrlRead(t)
  <2>1. /\ armed'[t] = FALSE /\ pc[t] = "own" /\ pc'[t] = "ctrl"
        /\ UNCHANGED <<slot, stage, ctrl, intstatus>>
        /\ \E m \in SUBSET Event : arg'[t].write \in {UnmaskCtrl(ctrl[slot[t]], m),
                                                    MaskCtrl(ctrl[slot[t]], m)}
    BY <1>8 DEF CtrlRead, Ready, regs, TypeOK
  <2>2. arg'[t].write.enable = ctrl[slot[t]].enable
    BY <1>0, <2>1 DEF UnmaskCtrl, MaskCtrl, Ctrl
  <2> QED BY <2>1, <2>2 DEF TimelyOK, QuietBits, OwnBits, Inst, Chn
<1>9. CASE CtrlWrite(t)
  <2>1. /\ pc[t] = "ctrl" /\ pc'[t] = "own" /\ UNCHANGED <<slot, stage, intstatus, armed>>
        /\ ctrl'[slot[t]] = arg[t].write
    BY <1>9, <1>0 DEF CtrlWrite, TypeOK
  <2>2. armed[t] = FALSE
    BY <2>1 DEF TimelyOK, TypeOK
  <2> QED BY <2>1, <2>2 DEF TimelyOK, QuietBits, OwnBits, Inst, Chn
<1>10. CASE EnableDmaIrq(t)
  BY <1>10 DEF EnableDmaIrq, regs, calls, TimelyOK, QuietBits, OwnBits, Inst, Chn
<1>11. CASE EnableChannel(t)
  <2>1. /\ pc[t] = "own" /\ UNCHANGED <<slot, pc, intstatus, done>>
        /\ QuietBits(t)' <=> QuietBits(t)
    BY <1>11 DEF EnableChannel, Ready, QuietBits, OwnBits, Inst, Chn
  <2>2. CASE armed'[t] = FALSE /\ UNCHANGED <<ctrl, stage>>
    BY <2>1, <2>2 DEF TimelyOK
  <2>3. CASE /\ stage'[t] # "ready"
             /\ armed'[t] => stage[t] = "ready" /\ ~done[t]
    BY <2>1, <2>3 DEF TimelyOK
  <2>4. \/ armed'[t] = FALSE /\ UNCHANGED <<ctrl, stage>>
        \/ /\ stage'[t] # "ready"
           /\ armed'[t] => stage[t] = "ready" /\ ~done[t]
    BY <1>11 DEF EnableChannel, TypeOK
  <2> QED BY <2>2, <2>3, <2>4
<1>12. CASE DisableChannel(t)
  <2>1. /\ pc[t] = "own" /\ armed'[t] = FALSE /\ ctrl'[slot[t]].enable = FALSE
        /\ UNCHANGED <<slot, pc, stage, intstatus>>
    BY <1>12, <1>0 DEF DisableChannel, DisableCtrl, Ready, TypeOK, Ctrl
  <2> QED BY <2>1 DEF TimelyOK, QuietBits, OwnBits, Inst, Chn
<1>13. CASE AbortTransfer(t)
  <2>1. /\ pc[t] = "own" /\ armed'[t] = FALSE /\ ctrl[slot[t]].enable
        /\ UNCHANGED <<slot, pc, stage>>
    BY <1>13 DEF AbortTransfer, Ready, TypeOK
  <2> QED BY <2>1 DEF TimelyOK
<1>14. CASE CheckStatus(t) \/ ClearTransferStatus(t)
  <2>1. /\ pc[t] = "own" /\ armed'[t] = FALSE
        /\ UNCHANGED <<slot, pc, stage, ctrl>>
    BY <1>14 DEF CheckStatus, ClearTransferStatus, Ready, TypeOK
  <2>2. Inst(t) \in Instance
    BY <1>0, <2>1, Constants DEF Inst
  <2>3. intstatus'[Inst(t)] \subseteq intstatus[Inst(t)]
    BY <1>14, <2>2, StatusOps DEF CheckStatus, ClearTransferStatus, TypeOK
  <2> QED BY <2>1, <2>3 DEF TimelyOK, QuietBits, OwnBits, Bits, Inst, Chn
<1>15. CASE BeginWait(t)
  <2>1. /\ pc[t] = "own" /\ pc'[t] = "wait" /\ armed[t]
        /\ UNCHANGED <<slot, stage, armed, done, ctrl, intstatus>>
    BY <1>15 DEF BeginWait, Ready, regs, TypeOK
  <2> QED BY <2>1 DEF TimelyOK, QuietBits, OwnBits, Inst, Chn
<1>16. CASE EndWait(t)
  <2>1. /\ pc[t] = "wait" /\ pc'[t] = "own" /\ done[t] /\ armed'[t] = FALSE
        /\ UNCHANGED <<slot, done, ctrl, intstatus>>
    BY <1>16 DEF EndWait, regs, TypeOK
  <2>2. ~ctrl[slot[t]].enable /\ QuietBits(t)
    BY <2>1 DEF TimelyOK
  <2> QED BY <2>1, <2>2 DEF TimelyOK, QuietBits, OwnBits, Inst, Chn
<1>17. CASE ClearDone(t)
  <2>1. /\ pc[t] = "own" /\ armed'[t] = FALSE
        /\ UNCHANGED <<pc, slot, stage, ctrl, intstatus>>
    BY <1>17 DEF ClearDone, Ready, regs, TypeOK
  <2> QED BY <2>1 DEF TimelyOK, QuietBits, OwnBits, Inst, Chn
<1> QED BY <1>1, <1>2, <1>3, <1>4, <1>5, <1>6, <1>7, <1>8, <1>9, <1>10, <1>11,
           <1>12, <1>13, <1>14, <1>15, <1>16, <1>17 DEF TaskStep, InCall

\* The controllers.  A transfer that ends disables its channel; what comes
\* while it runs is the half-way event.
LEMMA RaiseTimely ==
    ASSUME IInv, Timely, NEW s \in Slot, NEW e \in Event, Raise(s, e),
           (e = "half" /\ ctrl' = ctrl) \/ ctrl' = [ctrl EXCEPT ![s].enable = FALSE],
           NEW u \in Task
    PROVE  TimelyOK(u)'
<1> USE DEF IInv
<1>1. /\ UNCHANGED <<armed, pc, stage, slot, arg, done>> /\ ctrl[s].enable
      /\ \A n \in Instance : \A b \in intstatus'[n] :
            b \in intstatus[n] \/ (n = s[1] /\ b = <<e, s[2], job[s]>>)
  BY RaiseBits DEF Raise, calls
<1>2. TimelyOK(u)
  BY DEF Timely
<1>3. CASE pc[u] = "free"
  BY <1>1, <1>2, <1>3 DEF TimelyOK
<1>4. CASE pc[u] # "free"
  <2>1. slot[u] \in Slot /\ Inst(u) \in Instance /\ slot[u] = <<Inst(u), Chn(u)>>
    BY <1>4, Constants DEF OneOwner, Inst, Chn
  <2>2. CASE slot[u] = s
    <3>1. stage[u] # "ready"
      BY <1>1, <1>2, <1>4, <2>2 DEF TimelyOK
    <3>2. CASE ctrl' = [ctrl EXCEPT ![s].enable = FALSE]
      <4>1. ~ctrl'[slot[u]].enable
        <5>1. ctrl[s] \in Ctrl /\ ctrl'[s] = [ctrl[s] EXCEPT !.enable = FALSE]
          BY <2>1, <2>2, <3>2 DEF TypeOK
        <5> QED BY <2>2, <5>1 DEF Ctrl
      <4> QED BY <1>1, <1>2, <2>2, <3>1, <4>1 DEF TimelyOK
    <3>3. CASE e = "half" /\ ctrl' = ctrl
      <4>1. QuietBits(u) => QuietBits(u)'
        BY <1>1, <2>1, <2>2, <3>3 DEF QuietBits, OwnBits, Bits, Inst, Chn
      <4> QED BY <1>1, <1>2, <3>1, <3>3, <4>1 DEF TimelyOK
    <3> QED BY <3>2, <3>3
  <2>3. CASE slot[u] # s
    <3>1. Inst(u) # s[1] \/ Chn(u) # s[2]
      BY <2>1, <2>3, Constants
    <3>2. OwnBits(u)' \subseteq OwnBits(u)
      BY <1>1, <2>1, <3>1 DEF OwnBits, Bits, Inst, Chn
    <3>3. ctrl'[slot[u]] = ctrl[slot[u]]
      BY <2>1, <2>3 DEF TypeOK
    <3> QED BY <1>1, <1>2, <3>2, <3>3 DEF TimelyOK, QuietBits
  <2> QED BY <2>2, <2>3
<1> QED BY <1>3, <1>4

\* The handler sets has_done for nobody whose transfer still runs.
LEMMA IsrTimely ==
    ASSUME IInv, Matched, Owned, Timely, IsrChannel, NEW u \in Task
    PROVE  TimelyOK(u)'
<1> USE DEF IInv
<1>1. /\ UNCHANGED <<armed, pc, stage, slot, arg, ctrl>> /\ isr \in Slot
      /\ done' = [t \in Task |-> done[t] \/ \E f \in FlagsOf(isr) : f # Null /\ f[1] = t]
  BY DEF IsrChannel, TypeOK
<1>2. TimelyOK(u) /\ done[u] \in BOOLEAN
  BY DEF Timely, TypeOK
<1>3. \A n \in Instance : intstatus'[n] \subseteq intstatus[n]
  BY StatusOps DEF IsrChannel, TypeOK
<1>4. pc[u] # "free" => OwnBits(u)' \subseteq OwnBits(u)
  BY <1>1, <1>3, Constants DEF OwnBits, Bits, Inst, Chn, OneOwner
<1>5. ASSUME pc[u] # "free", armed[u], done'[u], ~done[u]
      PROVE  OwnBits(u)' = {} /\ ~QuietBits(u)
  <2>1. PICK f \in FlagsOf(isr) : f # Null /\ f[1] = u
    BY <1>1, <1>5
  <2>2. PICK e \in Called(isr) \ {"half"} : f = data[isr][e]
    BY <2>1 DEF FlagsOf
  <2>3. e \in Event /\ cb[isr][e] # Null /\ e \in CheckEvents(intstatus[isr[1]], isr[2])
    BY <1>1, <2>2, CalledEvents DEF Called, Pending
  <2>4. f = cb[isr][e]
    BY <1>1, <2>2, <2>3 DEF Matched
  <2>5. alloc[isr]
    BY <1>1, <2>3 DEF Owned, FreeOK
  <2>6. PICK v \in Task : pc[v] # "free" /\ slot[v] = isr
    BY <1>1, <2>5 DEF OneOwner
  <2>7. cb[isr][e] = Mine(v)
    BY <2>3, <2>6 DEF Owned, OwnOK
  <2>8. v = u
    BY <2>1, <2>4, <2>7 DEF Mine
  <2>9. PICK b \in OwnBits(u) : b[1] = e
    BY <2>3, <2>6, <2>8 DEF CheckEvents, OwnBits, Inst, Chn
  <2>10. intstatus'[isr[1]] = CheckClears(intstatus[isr[1]], isr[2])
    BY <1>1, Constants DEF IsrChannel, TypeOK
  <2>11. OwnBits(u)' = {}
    BY <1>1, <2>6, <2>8, <2>10 DEF OwnBits, Bits, CheckClears, W1C, Inst, Chn
  <2> QED BY <2>2, <2>9, <2>11 DEF QuietBits
<1>6. armed[u] => pc[u] # "free"
  BY <1>2 DEF TimelyOK
<1>7. pc[u] # "free" /\ QuietBits(u) => QuietBits(u)'
  BY <1>4 DEF QuietBits
<1>8. armed[u] /\ done'[u] => ~ctrl[slot[u]].enable /\ QuietBits(u)'
  <2> SUFFICES ASSUME armed[u], done'[u] PROVE ~ctrl[slot[u]].enable /\ QuietBits(u)'
    OBVIOUS
  <2>1. CASE done[u]
    BY <1>2, <1>6, <1>7, <2>1 DEF TimelyOK
  <2>2. CASE ~done[u]
    <3>1. OwnBits(u)' = {} /\ ~QuietBits(u)
      BY <1>5, <1>6, <2>2
    <3>2. ~ctrl[slot[u]].enable
      BY <1>2, <3>1 DEF TimelyOK
    <3> QED BY <3>1, <3>2 DEF QuietBits
  <2> QED BY <2>1, <2>2
<1> QED BY <1>1, <1>2, <1>6, <1>7, <1>8 DEF TimelyOK

LEMMA NextTimely ==
    ASSUME IInv, Matched, Owned, Timely, [Next]_vars
    PROVE  Timely'
<1>1. ASSUME NEW t \in Task, TaskStep(t), NEW u \in Task PROVE TimelyOK(u)'
  <2>1. CASE u = t
    BY <1>1, <2>1, TimelySelf DEF Timely, Owned
  <2>2. CASE u # t
    <3>1. TimelyOK(u)
      BY DEF Timely
    <3> QED BY <1>1, <2>2, <3>1, OthersAlone DEF TimelyOK, QuietBits
  <2> QED BY <2>1, <2>2
<1>2. ASSUME NEW s \in Slot, TransferEnds(s) PROVE Timely'
  <2>1. PICK e \in Event : Raise(s, e)
    BY <1>2 DEF TransferEnds, Ends
  <2>2. ctrl' = [ctrl EXCEPT ![s].enable = FALSE]
    BY <1>2 DEF TransferEnds
  <2> QED BY <2>1, <2>2, RaiseTimely DEF Timely
<1>3. ASSUME NEW s \in Slot, HalfWay(s) PROVE Timely'
  <2>1. "half" \in Event /\ Raise(s, "half") /\ ctrl' = ctrl
    BY <1>3 DEF HalfWay
  <2> QED BY <2>1, RaiseTimely DEF Timely
<1>4. CASE IsrChannel
  BY <1>4, IsrTimely DEF Timely
<1>5. CASE (\E n \in Instance : IsrEnter(n)) \/ UNCHANGED vars
  <2>1. chns' = chns /\ regs' = regs /\ job' = job /\ calls' = calls
    BY <1>5 DEF IsrEnter, vars
  <2> QED BY <2>1 DEF Timely, TimelyOK, QuietBits, OwnBits, Inst, Chn, chns, regs, calls
<1> QED BY <1>1, <1>2, <1>3, <1>4, <1>5 DEF Next, Timely

\* A caller that relies on has_done never sees it while its transfer runs: not
\* from an event of an earlier transfer of its own or of the channel's last
\* owner, and not from the half-way event, under the callers' discipline of
\* CompletionCorrect.
THEOREM DoneCorrect ==
    ASSUME ~Abandon, ~Reinstall, ~EarlyCb PROVE Spec => []DoneMeansOver
<1>1. Init => Matched /\ Owned /\ Timely
  BY DEF Init, Matched, Owned, FreeOK, OwnOK, Timely, TimelyOK
<1>2. IInv /\ (Matched /\ Owned /\ Timely) /\ [Next]_vars => (Matched /\ Owned /\ Timely)'
  BY NextMatched, NextOwned, NextTimely
<1>3. Matched /\ Owned /\ Timely => DoneMeansOver
  BY DEF Timely, TimelyOK, DoneMeansOver
<1> QED BY <1>1, <1>2, <1>3, Invariance, PTL DEF Spec
-----------------------------------------------------------------------------
(* What a caller's step may do to the registers. *)

\* No caller clears an event of a channel that is not its own, whatever the
\* callers do, unless one goes round the manager with
\* dma_clear_transfer_status (hpm_dma_drv.h l.496).
THEOREM ForeignClearNever ==
    ASSUME ~RawClear PROVE Spec => NoForeignClear
<1>1. IInv => [\A t \in Task : TaskStep(t) =>
                   \A n \in Instance : \A b \in intstatus[n] \ intstatus'[n] :
                       <<n, b[2]>> = slot[t]]_vars
  <2> SUFFICES ASSUME IInv, NEW t \in Task, TaskStep(t), NEW n \in Instance,
                      NEW b \in intstatus[n] \ intstatus'[n]
               PROVE  <<n, b[2]>> = slot[t]
    OBVIOUS
  <2> USE DEF IInv
  <2>1. \/ SetupStatus(t) \/ CheckStatus(t) \/ AbortTransfer(t) \/ intstatus' = intstatus
    BY DEF TaskStep, InCall, Request, ReleaseSearch, CtrlRead, InstallData, SetupWrite,
           CtrlWrite, InstallCb, Release, EnableDmaIrq, DisableDmaIrq, EnableChannel,
           DisableChannel, ClearDone, ClearTransferStatus, BeginWait, EndWait, regs
  <2>2. SetupStatus(t) \/ CheckStatus(t) \/ AbortTransfer(t)
    BY <2>1
  <2>3. slot[t] \in Slot /\ slot[t] = <<Inst(t), Chn(t)>> /\ Inst(t) \in Instance
    BY <2>2, Constants DEF SetupStatus, CheckStatus, AbortTransfer, Ready, OneOwner, Inst, Chn
  <2>4. n = Inst(t) /\ b[2] = Chn(t)
    BY <2>2, <2>3 DEF SetupStatus, CheckStatus, AbortTransfer, SetupClears, CheckClears,
                      Report, W1C, Bits, TypeOK
  <2> QED BY <2>3, <2>4
<1> QED BY <1>1, Invariance, PTL DEF NoForeignClear
=============================================================================
