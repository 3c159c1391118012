------------------------------ MODULE RpmsgLink ------------------------------
(***************************************************************************)
(* Remote procedure calls between the two cores, as the sample             *)
(* erpc_matrix_multiply_rpmsg_bm builds them: the client on core 0, the    *)
(* server on core 1, the RPMsg-Lite port of this SDK and its virtqueues in *)
(* shared memory, and the events of IpcEvents as the doorbell.             *)
(*                                                                         *)
(* A direction ("call" or "reply") has N buffers and two rings of buffer   *)
(* numbers: "filled" carries messages to the receiver and "fresh" brings   *)
(* empty buffers back to the sender.  A core runs its main program, step   *)
(* by step, or, above it, the handler of one event.                        *)
(***************************************************************************)
EXTENDS IpcEvents, Naturals, Sequences, FiniteSets, SequencesExt

CONSTANTS N,        \* RL_BUFFER_COUNT, a power of two
          IdxMod,   \* the ring indices count modulo this (2^16 in the code)
          SeqNos,   \* request numbers count modulo this (2^32 in the code)
          Burst,    \* one-way requests the client makes between two calls
          Hurried   \* whether the client may call before core 1 is ready

ASSUME RingAssumption ==
    /\ N \in Nat \ {0} /\ IdxMod \in Nat /\ IdxMod > N /\ IdxMod % N = 0
    /\ SeqNos \in Nat \ {0} /\ Burst \in Nat /\ Hurried \in BOOLEAN

ASSUME NumberAssumption == Nothing \notin Nat

VARIABLES
    pc,      \* the next step of each core's main program
    isr,     \* the event whose handler each core is in, or Nothing
    ready,   \* eRPCReadyEventData of core 0
    link,    \* link_state of each core's RPMsg instance
    bound,   \* whether each core's isr_table holds its virtqueues
    ept,     \* whether each core has created its endpoint
    ring,    \* ring[d][k]: the ring of kind k of direction d
    mem,     \* mem[d][b]: the message in buffer b of direction d
    inbox,   \* inbox[c]: m_messageQueue of core c's transport
    hand,    \* hand[c]: the buffer core c's main program works on
    seq,     \* the number of the last request (core 0) or of the one served
    oneways  \* one-way requests since the last call

vars == <<ipcvars, pc, isr, ready, link, bound, ept, ring, mem, inbox, hand,
          seq, oneways>>
rings == <<ring, mem>>

Direction == {"call", "reply"}
Buffer == 0 .. N - 1
Sends(c) == IF c = "core0" THEN "call" ELSE "reply"
Receives(c) == Sends(Peer(c))
Kick(d) == [type |-> "rpmsg", data |-> d]
Ready == [type |-> "start", data |-> "ready"]

-----------------------------------------------------------------------------
(* The rings of virtqueue.c. *)

\* A plausible slip: the slot is chosen by the consumer's index.
PutAtConsumer(r, b) == [r EXCEPT !.slot[r.cons % N] = b, !.idx = (@ + 1) % IdxMod]

Put(r, b) == [r EXCEPT !.slot[r.idx % N] = b, !.idx = (@ + 1) % IdxMod]

Vacant(r) == r.idx = r.cons
First(r) == r.slot[r.cons % N]

\* A plausible slip: the consumer's index stays where it is.
RestAgain(r) == r

Rest(r) == [r EXCEPT !.cons = (@ + 1) % IdxMod]

\* The buffers in a ring, oldest first.
Listed(r) == [i \in 1 .. (r.idx + IdxMod - r.cons) % IdxMod |->
                  r.slot[(r.cons + i - 1) % N]]

NoBuffers == [slot |-> [i \in Buffer |-> 0], idx |-> 0, cons |-> 0]
AllBuffers == [slot |-> [i \in Buffer |-> i], idx |-> N, cons |-> 0]

\* The StaticQueue of N slots holds one message less.
Accepts(q) == Len(q) < N - 1

-----------------------------------------------------------------------------
Init ==
    /\ IpcInit
    /\ pc = [c \in Core |-> IF c = "core0" THEN "enable" ELSE "held"]
    /\ isr = [c \in Core |-> Nothing]
    /\ ready = FALSE
    /\ link = [c \in Core |-> FALSE]
    /\ bound = [c \in Core |-> FALSE]
    /\ ept = [c \in Core |-> FALSE]
    /\ ring = [d \in Direction |-> [k \in {"fresh", "filled"} |-> NoBuffers]]
    /\ mem = [d \in Direction |-> [b \in Buffer |-> [seq |-> 0, oneway |-> FALSE]]]
    /\ inbox = [c \in Core |-> <<>>]
    /\ hand = [c \in Core |-> Nothing]
    /\ seq = [c \in Core |-> 0]
    /\ oneways = 0

\* The main program of core c takes the step p; its handler is not running.
At(c, p) == pc[c] = p /\ isr[c] = Nothing
Goto(c, p) == pc' = [pc EXCEPT ![c] = p]

(* Start: ipc_init and the mailbox interrupt; core 0 registers the start   *)
(* event before it releases core 1.                                        *)
Enable(c) ==
    /\ At(c, "enable")
    /\ EnableEvents(c)
    /\ Goto(c, IF c = "core0" THEN "register" ELSE "open")
    /\ UNCHANGED <<word, table, isr, ready, link, bound, ept, rings, inbox,
                   hand, seq, oneways>>

\* A plausible slip: the event is registered under another type.
RegisterStartWrong ==
    /\ At("core0", "register")
    /\ Register("core0", "rpmsg")
    /\ Goto("core0", "release")
    /\ UNCHANGED <<word, on, isr, ready, link, bound, ept, rings, inbox, hand,
                   seq, oneways>>

RegisterStart ==
    /\ At("core0", "register")
    /\ Register("core0", "start")
    /\ Goto("core0", "release")
    /\ UNCHANGED <<word, on, isr, ready, link, bound, ept, rings, inbox, hand,
                   seq, oneways>>

Release ==
    /\ At("core0", "release")
    /\ pc' = [pc EXCEPT !["core0"] = "wait", !["core1"] = "enable"]
    /\ UNCHANGED <<ipcvars, isr, ready, link, bound, ept, rings, inbox, hand,
                   seq, oneways>>

\* Both sides wait in a loop.
WaitReady ==
    /\ At("core0", "wait")
    /\ pc' = IF ready THEN [pc EXCEPT !["core0"] = "open"] ELSE pc
    /\ UNCHANGED <<ipcvars, isr, ready, link, bound, ept, rings, inbox, hand,
                   seq, oneways>>

(* rpmsg_lite_master_init and rpmsg_lite_remote_init: the event is         *)
(* registered, core 0 fills the rings, the virtqueues are bound while the  *)
(* interrupt is off, and it is enabled again when the link state is set.   *)
Open(c) ==
    /\ At(c, "open")
    /\ Register(c, "rpmsg")
    /\ DisableEvents(c)
    /\ bound' = [bound EXCEPT ![c] = TRUE]
    /\ link' = [link EXCEPT ![c] = c = "core0"]
    /\ ring' = IF c = "core0" THEN [d \in Direction |->
                                       [fresh |-> AllBuffers, filled |-> NoBuffers]]
                              ELSE ring
    /\ Goto(c, "unmask")
    /\ UNCHANGED <<word, isr, ready, ept, mem, inbox, hand, seq, oneways>>

Unmask(c) ==
    /\ At(c, "unmask")
    /\ EnableEvents(c)
    /\ Goto(c, "announce")
    /\ UNCHANGED <<word, table, isr, ready, link, bound, ept, rings, inbox,
                   hand, seq, oneways>>

\* Core 0 kicks its receive queue once; core 1 says that it is ready.
Announce(c) ==
    /\ At(c, "announce")
    /\ Trigger(c, IF c = "core0" THEN Kick("reply") ELSE Ready)
    /\ Goto(c, IF c = "core0" THEN "endpoint" ELSE "linkwait")
    /\ UNCHANGED <<on, table, isr, ready, link, bound, ept, rings, inbox, hand,
                   seq, oneways>>

WaitLink ==
    /\ At("core1", "linkwait")
    /\ pc' = IF link["core1"] THEN [pc EXCEPT !["core1"] = "endpoint"] ELSE pc
    /\ UNCHANGED <<ipcvars, isr, ready, link, bound, ept, rings, inbox, hand,
                   seq, oneways>>

CreateEndpoint(c) ==
    /\ At(c, "endpoint")
    /\ ept' = [ept EXCEPT ![c] = TRUE]
    /\ Goto(c, IF c = "core0" THEN "print" ELSE "poll")
    /\ UNCHANGED <<ipcvars, isr, ready, link, bound, rings, inbox, hand, seq,
                   oneways>>

\* The sample prints two matrices before it calls: long enough for core 1.
PrintMatrices ==
    /\ At("core0", "print")
    /\ Hurried \/ ept["core1"]
    /\ Goto("core0", "call")
    /\ UNCHANGED <<ipcvars, isr, ready, link, bound, ept, rings, inbox, hand,
                   seq, oneways>>

-----------------------------------------------------------------------------
(* The client: createRequest takes a fresh buffer (and waits for one);     *)
(* send puts it on the ring and then kicks; a call waits for its reply and *)
(* gives the reply's buffer back.                                          *)

Fill(c, m) ==
    LET fresh == ring[Sends(c)].fresh
    IN  /\ ~Vacant(fresh)
        /\ hand' = [hand EXCEPT ![c] = First(fresh)]
        /\ mem' = [mem EXCEPT ![Sends(c)][First(fresh)] = m]
        /\ ring' = [ring EXCEPT ![Sends(c)].fresh = Rest(fresh)]

CreateRequest(oneway) ==
    /\ At("core0", "call")
    /\ oneway => oneways < Burst
    /\ seq' = [seq EXCEPT !["core0"] = (@ + 1) % SeqNos]
    /\ Fill("core0", [seq |-> seq'["core0"], oneway |-> oneway])
    /\ oneways' = IF oneway THEN oneways + 1 ELSE 0
    /\ Goto("core0", "send")
    /\ UNCHANGED <<ipcvars, isr, ready, link, bound, ept, inbox>>

\* rpmsg_lite_send_nocopy, first half
Send(c) ==
    /\ At(c, "send")
    /\ ring' = [ring EXCEPT ![Sends(c)].filled = Put(@, hand[c])]
    /\ Goto(c, "kick")
    /\ UNCHANGED <<ipcvars, isr, ready, link, bound, ept, mem, inbox, hand, seq,
                   oneways>>

\* rpmsg_lite_send_nocopy, second half
KickPeer(c) ==
    /\ At(c, "kick")
    /\ Trigger(c, Kick(Sends(c)))
    /\ hand' = [hand EXCEPT ![c] = Nothing]
    /\ Goto(c, IF c = "core1" THEN "poll" ELSE
               IF mem.call[hand.core0].oneway THEN "call" ELSE "receive")
    /\ UNCHANGED <<on, table, isr, ready, link, bound, ept, rings, inbox, seq,
                   oneways>>

\* A plausible slip: the inbox is read from the end it is written at.
TakeNewest(c) ==
    /\ inbox[c] # <<>>
    /\ hand' = [hand EXCEPT ![c] = Last(inbox[c])]
    /\ inbox' = [inbox EXCEPT ![c] = Front(@)]

\* The oldest message of the inbox comes into the hand.
Take(c) ==
    /\ inbox[c] # <<>>
    /\ hand' = [hand EXCEPT ![c] = Head(inbox[c])]
    /\ inbox' = [inbox EXCEPT ![c] = Tail(@)]

\* rpmsg_lite_release_rx_buffer
Dispose(c, b) == ring' = [ring EXCEPT ![Receives(c)].fresh = Put(@, b)]

Receive(c) ==
    /\ At(c, IF c = "core0" THEN "receive" ELSE "poll")
    /\ Take(c)
    /\ Goto(c, IF c = "core0" THEN "verify" ELSE "process")
    /\ UNCHANGED <<ipcvars, isr, ready, link, bound, ept, rings, seq, oneways>>

VerifyReply ==
    /\ At("core0", "verify")
    /\ Dispose("core0", hand.core0)
    /\ hand' = [hand EXCEPT !.core0 = Nothing]
    /\ Goto("core0", "call")
    /\ UNCHANGED <<ipcvars, isr, ready, link, bound, ept, mem, inbox, seq,
                   oneways>>

(* The server executes the request and gives its buffer back; a call gets  *)
(* a fresh buffer for the reply, which carries the request's number.       *)
Process ==
    LET m == mem.call[hand.core1]
    IN  /\ At("core1", "process")
        /\ seq' = [seq EXCEPT !.core1 = m.seq]
        /\ Dispose("core1", hand.core1)
        /\ hand' = [hand EXCEPT !.core1 = Nothing]
        /\ Goto("core1", IF m.oneway THEN "poll" ELSE "answer")
        /\ UNCHANGED <<ipcvars, isr, ready, link, bound, ept, mem, inbox,
                       oneways>>

CreateReply ==
    /\ At("core1", "answer")
    /\ Fill("core1", [seq |-> seq.core1, oneway |-> FALSE])
    /\ Goto("core1", "send")
    /\ UNCHANGED <<ipcvars, isr, ready, link, bound, ept, inbox, seq, oneways>>

-----------------------------------------------------------------------------
(* The interrupt handler. *)

Interrupt(c) ==
    /\ isr[c] = Nothing
    /\ Pending(c)
    /\ Retrieve(c)
    /\ isr' = [isr EXCEPT ![c] = word[c]]
    /\ UNCHANGED <<on, table, pc, ready, link, bound, ept, rings, inbox, hand,
                   seq, oneways>>

Leave(c) == isr' = [isr EXCEPT ![c] = Nothing]

\* eRPCReadyEventHandler, and rpmsg_lite_tx_callback
Note(c) ==
    /\ isr[c] # Nothing /\ isr[c] # Kick(Receives(c))
    /\ ready' = (ready \/ (isr[c] = Ready /\ Answered(c, isr[c])))
    /\ link' = [link EXCEPT ![c] = @ \/ (isr[c] = Kick(Sends(c))
                                         /\ Answered(c, isr[c]) /\ bound[c])]
    /\ Leave(c)
    /\ UNCHANGED <<ipcvars, pc, bound, ept, rings, inbox, hand, seq, oneways>>

\* A plausible slip: the callback releases what it keeps (RL_RELEASE).
ReturnedAlways(c, fresh, b) == Put(fresh, b)

\* A message with an endpoint to go to keeps its buffer (RL_HOLD).
Returned(c, fresh, b) == IF ept[c] THEN fresh ELSE Put(fresh, b)

(* rpmsg_lite_rx_callback: every message of the ring in turn goes to the   *)
(* endpoint, which keeps its buffer; a full inbox loses message and buffer,*)
(* and without an endpoint the buffer goes back unread.                    *)
Drain(c) ==
    LET filled == ring[Receives(c)].filled
        b == First(filled)
    IN  /\ isr[c] = Kick(Receives(c)) /\ Answered(c, isr[c]) /\ bound[c]
        /\ ~Vacant(filled)
        /\ inbox' = IF ept[c] /\ Accepts(inbox[c])
                    THEN [inbox EXCEPT ![c] = Append(@, b)] ELSE inbox
        /\ ring' = [ring EXCEPT ![Receives(c)] =
                       [filled |-> Rest(filled),
                        fresh |-> Returned(c, @.fresh, b)]]
        /\ UNCHANGED <<ipcvars, pc, isr, ready, link, bound, ept, mem, hand,
                       seq, oneways>>

\* A plausible slip: one message for each interrupt.
DrainDoneOnce(c) == Vacant(ring[Receives(c)].filled) \/ inbox[c] # <<>>

\* The handler returns when the ring is empty, or when nobody was called.
DrainDone(c) == Vacant(ring[Receives(c)].filled)

Drained(c) ==
    /\ isr[c] = Kick(Receives(c))
    /\ DrainDone(c) \/ ~Answered(c, isr[c]) \/ ~bound[c]
    /\ Leave(c)
    /\ UNCHANGED <<ipcvars, pc, ready, link, bound, ept, rings, inbox, hand,
                   seq, oneways>>

-----------------------------------------------------------------------------
Start(c) == Enable(c) \/ Open(c) \/ Unmask(c) \/ Announce(c) \/ CreateEndpoint(c)
Talk(c) == Send(c) \/ KickPeer(c) \/ Receive(c)
Client == RegisterStart \/ Release \/ WaitReady \/ PrintMatrices \/ VerifyReply
Server == WaitLink \/ Process \/ CreateReply

Main(c) == Start(c) \/ Talk(c) \/ (IF c = "core0" THEN Client ELSE Server)
Isr(c) == Interrupt(c) \/ Note(c) \/ Drain(c) \/ Drained(c)

Next == \/ \E c \in Core : Main(c) \/ Isr(c)
        \/ \E oneway \in BOOLEAN : CreateRequest(oneway)

Spec == Init /\ [][Next]_vars

\* Both cores run and serve their interrupts; nobody makes the client call.
FairSpec == Spec /\ \A c \in Core : WF_vars(Main(c)) /\ WF_vars(Isr(c))

-----------------------------------------------------------------------------
Ring == [slot : [Buffer -> Buffer], idx : 0 .. IdxMod - 1, cons : 0 .. IdxMod - 1]
Message == [seq : 0 .. SeqNos - 1, oneway : BOOLEAN]

\* The values the variables take: an inbox never holds more than the static
\* queue of rpmsg_read_cb has room for, and a ring never more than N buffers.
TypeOK ==
    /\ IpcTypeOK
    /\ isr \in [Core -> Event \cup {Nothing}]
    /\ ready \in BOOLEAN /\ link \in [Core -> BOOLEAN]
    /\ bound \in [Core -> BOOLEAN] /\ ept \in [Core -> BOOLEAN]
    /\ ring \in [Direction -> [{"fresh", "filled"} -> Ring]]
    /\ \A d \in Direction, k \in {"fresh", "filled"} : Len(Listed(ring[d][k])) <= N
    /\ mem \in [Direction -> [Buffer -> Message]]
    /\ \A c \in Core : inbox[c] \in Seq(Buffer) /\ Len(inbox[c]) < N
    /\ hand \in [Core -> Buffer \cup {Nothing}]
    /\ seq \in [Core -> 0 .. SeqNos - 1]
    /\ oneways \in 0 .. Burst

\* The buffers of direction d, wherever they are: on their way, with the
\* receiver's transport, or in the hands of either main program.
Held(c) == IF hand[c] = Nothing \/ pc[c] = "kick" THEN <<>> ELSE <<hand[c]>>
HandOf(c, d) ==
    IF (pc[c] = "send") = (d = Sends(c)) THEN Held(c) ELSE <<>>
Places(d) ==
    LET r == CHOOSE c \in Core : Receives(c) = d
    IN  Listed(ring[d].fresh) \o Listed(ring[d].filled) \o inbox[r]
          \o HandOf(r, d) \o HandOf(Peer(r), d)

\* Every buffer of a direction is in exactly one place once core 0 has filled
\* the rings: no message is written over before it is read and none is lost,
\* though the rings are written by both cores without a lock and a handler
\* may run between any two steps of either program (virtqueue.c).
BuffersOnce ==
    bound["core0"] =>
        \A d \in Direction : Len(Places(d)) = N /\ ToSet(Places(d)) = Buffer

\* A message on a ring has a doorbell on its way to the receiver: the sender
\* has yet to kick, the word waits in the mailbox, or the handler is still
\* reading the ring.  A kick the full mailbox refuses is therefore harmless
\* (platform_notify ignores the status), unless the mailbox holds another
\* event: see Hurried.
NoLostKick ==
    \A c \in Core :
        ~Vacant(ring[Receives(c)].filled) =>
            \/ pc[Peer(c)] = "kick"
            \/ word[c] = Kick(Receives(c))
            \/ isr[c] = Kick(Receives(c))

\* The start-up ends with both endpoints created: the ready event and the
\* link-up kick both arrive although nobody repeats them (main_core0.c waits
\* for eRPCReadyEventData and rpmsg_lite_wait_for_link_up for the link).
LinkComesUp == <>(\A c \in Core : ept[c])

\* The calls as the client sees them.
InOrder ==
    LET Messages(bs) == [i \in 1 .. Len(bs) |-> mem.call[bs[i]]]
        taken == IF pc["core1"] = "process" THEN <<hand.core1>> ELSE <<>>
    IN  Messages(taken \o inbox["core1"] \o Listed(ring["call"].filled))
Waits ==
    \/ pc["core0"] \in {"receive", "verify"}
    \/ pc["core0"] = "kick" /\ ~mem.call[hand.core0].oneway
Replies == (IF pc["core0"] = "verify" THEN <<hand.core0>> ELSE <<>>)
             \o inbox["core0"] \o Listed(ring["reply"].filled)
Answer ==
    IF Replies # <<>> THEN mem.reply[Head(Replies)].seq
    ELSE IF pc["core1"] = "answer" THEN seq.core1
    ELSE IF pc["core1"] = "send" THEN mem.reply[hand.core1].seq
    ELSE Nothing

Channel == INSTANCE RpcChannel WITH
    requests <- InOrder,
    answer <- Answer,
    waiting <- IF Waits THEN seq.core0 ELSE Nothing

\* Every request is executed once and in order, and a call gets its own
\* answer: the link implements RpcChannel (erpc_client_manager.cpp and
\* erpc_simple_server.cpp over erpc_rpmsg_lite_transport.cpp).
RefinesRpcChannel == Channel!Spec

\* A request is executed in the end and a call returns, however the kicks
\* meet the handlers and the waiting loops (ERPC has no timeout: a message
\* that stays on a ring would hang the client in receive).
CallsEnd == Channel!Live
=============================================================================
