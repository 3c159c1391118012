-------------------------- MODULE RpmsgLink_proofs --------------------------
(***************************************************************************)
(* Proofs about RpmsgLink, for any number of buffers, any width of the     *)
(* ring indices and any number of one-way requests: first where the two    *)
(* programs and the doorbells are, then the rings as lists of buffers,     *)
(* what every step does to the buffers, and the messages: no buffer is     *)
(* lost and the link implements RpcChannel, for a client that calls when   *)
(* the server is there and makes few enough one-way requests for the       *)
(* static queue (Calm below).                                              *)
(***************************************************************************)
EXTENDS RpmsgLink, Multiples, SequenceTheorems, FiniteSetTheorems, TLAPS

\* The main programs, in the order of the steps.
Begin0 == {"enable", "register", "release"}
Early0 == Begin0 \cup {"wait", "open", "unmask", "announce"}
Mid0   == {"endpoint", "print"}
Late0  == {"call", "send", "kick", "receive", "verify"}
Early1 == {"held", "enable", "open", "unmask", "announce"}
Late1  == {"poll", "process", "answer", "send", "kick"}

Shape ==
    /\ DOMAIN pc = Core
    /\ pc["core0"] \in Early0 \cup Mid0 \cup Late0
    /\ pc["core1"] \in Early1 \cup {"linkwait", "endpoint"} \cup Late1
    /\ word \in [Core -> Event \cup {Nothing}]
    /\ isr \in [Core -> Event \cup {Nothing}]
    /\ table \in [Core -> SUBSET Type]
    /\ ready \in BOOLEAN /\ link \in [Core -> BOOLEAN]
    /\ bound \in [Core -> BOOLEAN] /\ ept \in [Core -> BOOLEAN]
    /\ DOMAIN ring = Direction
    /\ \A d \in Direction : {"fresh", "filled"} \subseteq DOMAIN ring[d]

\* How far one core has got when the other has got somewhere, and what it has
\* set up by then.
Phases ==
    /\ pc["core0"] \in Begin0 => pc["core1"] = "held"
    /\ pc["core0"] \notin Begin0 \cup {"wait"} => ready
    /\ pc["core0"] \notin Begin0 \cup {"wait", "open"} =>
           bound["core0"] /\ "rpmsg" \in table["core0"]
    /\ pc["core0"] \in Late0 => ept["core1"]
    /\ link["core1"] => bound["core1"] /\ "rpmsg" \in table["core1"]
    /\ pc["core1"] \in {"endpoint"} \cup Late1 => link["core1"]
    /\ ept["core1"] => pc["core1"] \in Late1
    /\ pc["core1"] \in Early1 => ~ready

\* What can be on its way to core 0: the ready event once, then kicks.
Mail0 ==
    /\ pc["core1"] \in Early1 => word["core0"] = Nothing /\ isr["core0"] = Nothing
    /\ ready => {word["core0"], isr["core0"]} \subseteq {Nothing, Kick("reply")}
    /\ ~ready => /\ {word["core0"], isr["core0"]} \subseteq {Nothing, Ready}
                 /\ word["core0"] = Nothing \/ isr["core0"] = Nothing

\* ... and to core 1: the link-up kick once, then kicks for requests, which
\* begin when the first has been served.
Mail1 ==
    /\ pc["core0"] \in Early0 =>
           word["core1"] = Nothing /\ isr["core1"] = Nothing /\ ~link["core1"]
    /\ pc["core0"] \in Mid0 =>
           /\ {word["core1"], isr["core1"]} \subseteq {Nothing, Kick("reply")}
           /\ word["core1"] = Nothing \/ isr["core1"] = Nothing
           /\ link["core1"] => word["core1"] = Nothing /\ isr["core1"] = Nothing
    /\ pc["core0"] \in Late0 =>
           {word["core1"], isr["core1"]} \subseteq {Nothing, Kick("call")}

\* Nothing is on a ring before its sender talks.
Quiet ==
    /\ pc["core0"] \notin Late0 => Vacant(ring["call"].filled)
    /\ pc["core1"] \notin Late1 => Vacant(ring["reply"].filled)

\* NoLostKick, one core at a time.
Kicked ==
    /\ ~Vacant(ring["reply"].filled) =>
           pc["core1"] = "kick" \/ word["core0"] = Kick("reply") \/ isr["core0"] = Kick("reply")
    /\ ~Vacant(ring["call"].filled) =>
           pc["core0"] = "kick" \/ word["core1"] = Kick("call") \/ isr["core1"] = Kick("call")

LinkInv == Shape /\ Phases /\ Mail0 /\ Mail1 /\ Quiet /\ Kicked
-----------------------------------------------------------------------------
LEMMA EventFacts ==
    /\ Core = {"core0", "core1"} /\ Peer("core0") = "core1" /\ Peer("core1") = "core0"
    /\ Sends("core0") = "call" /\ Sends("core1") = "reply"
    /\ Receives("core0") = "reply" /\ Receives("core1") = "call"
    /\ Kick("call") \in Event /\ Kick("reply") \in Event /\ Ready \in Event
    /\ Kick("call") # Kick("reply") /\ Kick("call") # Ready /\ Kick("reply") # Ready
    /\ Nothing # Kick("call") /\ Nothing # Kick("reply") /\ Nothing # Ready
    /\ Kick("call").type = "rpmsg" /\ Kick("reply").type = "rpmsg"
  <1>1. Kick("call") \in Event /\ Kick("reply") \in Event /\ Ready \in Event
    BY DEF Kick, Ready, Event, Type
  <1>2. /\ Kick("call") # Kick("reply") /\ Kick("call") # Ready /\ Kick("reply") # Ready
        /\ Kick("call").type = "rpmsg" /\ Kick("reply").type = "rpmsg"
    BY DEF Kick, Ready
  <1> QED BY <1>1, <1>2, NothingAssumption DEF Core, Peer, Sends, Receives

LEMMA NoBuffersVacant == Vacant(NoBuffers)
  BY DEF Vacant, NoBuffers

LEMMA InitLink == Init => LinkInv
  <1> SUFFICES ASSUME Init PROVE LinkInv
    OBVIOUS
  <1>1. Shape /\ Phases /\ Mail0 /\ Mail1
    BY EventFacts DEF Init, IpcInit, Shape, Phases, Mail0, Mail1, Direction,
       Begin0, Early0, Mid0, Late0, Early1, Late1
  <1>2. Quiet /\ Kicked
    BY NoBuffersVacant DEF Init, Quiet, Kicked, Direction
  <1> QED BY <1>1, <1>2 DEF LinkInv

\* The start-up steps and the interrupt's entry and notes leave the rings
\* alone; a step of the talk leaves what is set up alone.
LEMMA StartLink ==
    ASSUME LinkInv, NEW c \in Core, Enable(c) \/ Unmask(c) \/ Announce(c) \/ CreateEndpoint(c)
    PROVE  LinkInv'
  <1> USE DEF LinkInv, Begin0, Early0, Mid0, Late0, Early1, Late1, At, Goto
  <1>0. UNCHANGED <<table, ring, bound, link, ready, isr>>
    BY DEF Enable, Unmask, Announce, CreateEndpoint, rings, ipcvars
  <1>1. CASE Enable(c)
    BY <1>0, <1>1, EventFacts
       DEF Enable, Shape, Phases, Mail0, Mail1, Quiet, Kicked
  <1>2. CASE Unmask(c)
    BY <1>0, <1>2, EventFacts
       DEF Unmask, Shape, Phases, Mail0, Mail1, Quiet, Kicked
  <1>3. CASE Announce(c)
    BY <1>0, <1>3, EventFacts
       DEF Announce, Trigger, Shape, Phases, Mail0, Mail1, Quiet, Kicked
  <1>4. CASE CreateEndpoint(c)
    BY <1>0, <1>4, EventFacts
       DEF CreateEndpoint, ipcvars, Shape, Phases, Mail0, Mail1, Quiet, Kicked
  <1> QED BY <1>1, <1>2, <1>3, <1>4

\* The rest of the start-up: core 0 lets core 1 go, waits for it and fills the
\* rings; each side waits for the other.
LEMMA OpenLink ==
    ASSUME LinkInv, NEW c \in Core, Open(c)
    PROVE  LinkInv'
  <1> USE EventFacts DEF LinkInv, Begin0, Early0, Mid0, Late0, Early1, Late1, At, Goto
  <1>0. /\ UNCHANGED <<word, isr, ready, ept>>
        /\ table' = [table EXCEPT ![c] = @ \cup {"rpmsg"}]
        /\ bound' = [bound EXCEPT ![c] = TRUE]
        /\ link' = [link EXCEPT ![c] = c = "core0"]
        /\ pc[c] = "open" /\ isr[c] = Nothing /\ pc' = [pc EXCEPT ![c] = "unmask"]
    BY DEF Open, Register
  <1>1. CASE c = "core0"
    <2>1. ring' = [d \in Direction |-> [fresh |-> AllBuffers, filled |-> NoBuffers]]
      BY <1>1 DEF Open
    <2>2. Vacant(ring["call"].filled)' /\ Vacant(ring["reply"].filled)'
      BY <2>1, NoBuffersVacant DEF Direction, Vacant
    <2>3. Shape'
      BY <1>0, <1>1, <2>1 DEF Shape, Type
    <2> QED BY <1>0, <1>1, <2>2, <2>3 DEF Shape, Phases, Mail0, Mail1, Quiet, Kicked
  <1>2. CASE c = "core1"
    <2>1. UNCHANGED ring
      BY <1>2 DEF Open
    <2>2. Shape'
      BY <1>0, <1>2, <2>1 DEF Shape, Type
    <2> QED BY <1>0, <1>2, <2>1, <2>2 DEF Shape, Phases, Mail0, Mail1, Quiet, Kicked
  <1> QED BY <1>1, <1>2

LEMMA WaitLinkUp ==
    ASSUME ~Hurried, LinkInv, RegisterStart \/ Release \/ WaitReady \/ WaitLink \/ PrintMatrices
    PROVE  LinkInv'
  <1> USE EventFacts DEF LinkInv, Begin0, Early0, Mid0, Late0, Early1, Late1, At, Goto
  <1>0. UNCHANGED <<word, ring, bound, link, ready, isr, ept>>
    BY DEF RegisterStart, Release, WaitReady, WaitLink, PrintMatrices, rings, ipcvars
  <1>1. CASE RegisterStart
    BY <1>0, <1>1
       DEF RegisterStart, Register, Type, Shape, Phases, Mail0, Mail1, Quiet, Kicked
  <1>2. CASE Release
    BY <1>0, <1>2 DEF Release, ipcvars, Shape, Phases, Mail0, Mail1, Quiet, Kicked
  <1>3. CASE WaitReady
    BY <1>0, <1>3 DEF WaitReady, ipcvars, Shape, Phases, Mail0, Mail1, Quiet, Kicked
  <1>4. CASE WaitLink
    BY <1>0, <1>4 DEF WaitLink, ipcvars, Shape, Phases, Mail0, Mail1, Quiet, Kicked
  <1>5. CASE PrintMatrices
    BY <1>0, <1>5 DEF PrintMatrices, ipcvars, Shape, Phases, Mail0, Mail1, Quiet, Kicked
  <1> QED BY <1>1, <1>2, <1>3, <1>4, <1>5


\* What a step of the talk may do: a core stays in its talk, leaves the state
\* of the kick alone and does not touch the ring its messages come from.
TalkStep(c) ==
    /\ UNCHANGED <<word, isr, table, bound, link, ready, ept>>
    /\ pc[c] \in (IF c = "core0" THEN Late0 ELSE Late1) \ {"kick"}
    /\ \E p \in (IF c = "core0" THEN Late0 ELSE Late1) : pc' = [pc EXCEPT ![c] = p]
    /\ DOMAIN ring' = DOMAIN ring
    /\ \A d \in Direction : DOMAIN ring'[d] = DOMAIN ring[d]
    /\ \A d \in Direction :
           \/ ring'[d].filled = ring[d].filled
           \/ d = Sends(c) /\ pc'[c] = "kick"

LEMMA TalkLink ==
    ASSUME LinkInv, NEW c \in Core, TalkStep(c)
    PROVE  LinkInv'
  <1> USE EventFacts DEF LinkInv, Begin0, Early0, Mid0, Late0, Early1, Late1, TalkStep, Direction
  <1>1. CASE c = "core0"
    BY <1>1 DEF Shape, Phases, Mail0, Mail1, Quiet, Kicked, Vacant
  <1>2. CASE c = "core1"
    BY <1>2 DEF Shape, Phases, Mail0, Mail1, Quiet, Kicked, Vacant
  <1> QED BY <1>1, <1>2

\* A buffer is taken from or given back to a ring of empty buffers, or a
\* message is put on a ring.
LEMMA TalkSteps ==
    ASSUME LinkInv, NEW c \in Core,
           \/ \E oneway \in BOOLEAN : CreateRequest(oneway) /\ c = "core0"
           \/ Send(c)
           \/ Receive(c)
           \/ VerifyReply /\ c = "core0"
           \/ (Process \/ CreateReply) /\ c = "core1"
    PROVE  TalkStep(c)
  <1> USE EventFacts DEF LinkInv, Shape, Late0, Late1, At, Goto, rings, ipcvars, Direction, TalkStep
  <1>1. ASSUME NEW oneway \in BOOLEAN, CreateRequest(oneway), c = "core0" PROVE TalkStep(c)
    BY <1>1 DEF CreateRequest, Fill
  <1>2. CASE Send(c)
    BY <1>2 DEF Send
  <1>3. CASE Receive(c)
    BY <1>3 DEF Receive, Take
  <1>4. CASE VerifyReply /\ c = "core0"
    BY <1>4 DEF VerifyReply, Dispose
  <1>5. CASE Process /\ c = "core1"
    BY <1>5 DEF Process, Dispose
  <1>6. CASE CreateReply /\ c = "core1"
    BY <1>6 DEF CreateReply, Fill
  <1> QED BY <1>1, <1>2, <1>3, <1>4, <1>5, <1>6

\* The kick that follows a message: the mailbox is empty or holds a kick of
\* the same kind.
LEMMA KickLink ==
    ASSUME LinkInv, NEW c \in Core, KickPeer(c)
    PROVE  LinkInv'
  <1> USE EventFacts DEF LinkInv, Begin0, Early0, Mid0, Late0, Early1, Late1, At, Goto
  <1>0. /\ UNCHANGED <<isr, table, bound, link, ready, ept, ring>>
        /\ pc[c] = "kick" /\ isr[c] = Nothing
        /\ \E p \in (IF c = "core0" THEN Late0 ELSE Late1) \ {"kick"} :
               pc' = [pc EXCEPT ![c] = p]
        /\ word' = [word EXCEPT ![Peer(c)] = IF @ = Nothing THEN Kick(Sends(c)) ELSE @]
    BY DEF KickPeer, Trigger, rings
  <1>1. CASE c = "core0"
    BY <1>0, <1>1 DEF Shape, Phases, Mail0, Mail1, Quiet, Kicked
  <1>2. CASE c = "core1"
    BY <1>0, <1>2 DEF Shape, Phases, Mail0, Mail1, Quiet, Kicked
  <1> QED BY <1>1, <1>2

\* The handler: the word becomes the event it serves; the callback of a kick
\* for messages stays until the ring is empty, since by the time there is a
\* message it is registered and the virtqueues are bound.
LEMMA IsrLink ==
    ASSUME LinkInv, NEW c \in Core, Isr(c)
    PROVE  LinkInv'
  <1> USE EventFacts DEF LinkInv, Begin0, Early0, Mid0, Late0, Early1, Late1
  <1>0. UNCHANGED <<pc, table, bound, ept>>
    BY DEF Isr, Interrupt, Note, Drain, Drained, ipcvars
  <1>1. CASE Interrupt(c)
    <2>1. /\ UNCHANGED <<link, ready, ring>> /\ isr[c] = Nothing /\ word[c] # Nothing
          /\ isr' = [isr EXCEPT ![c] = word[c]] /\ word' = [word EXCEPT ![c] = Nothing]
      BY <1>1 DEF Interrupt, Pending, Retrieve, rings
    <2> QED BY <1>0, <2>1 DEF Shape, Phases, Mail0, Mail1, Quiet, Kicked
  <1>2. CASE Note(c)
    <2>1. /\ UNCHANGED <<word, ring>> /\ isr[c] # Nothing /\ isr[c] # Kick(Receives(c))
          /\ isr' = [isr EXCEPT ![c] = Nothing]
          /\ ready' \in BOOLEAN /\ (ready => ready')
          /\ ready' # ready => isr[c] = Ready
      BY <1>2 DEF Note, Leave, rings, ipcvars, Shape
    <2>2. \/ link' = link
          \/ /\ link' = [link EXCEPT ![c] = TRUE]
             /\ isr[c] = Kick(Sends(c)) /\ bound[c] /\ "rpmsg" \in table[c]
      <3> DEFINE up == isr[c] = Kick(Sends(c)) /\ Answered(c, isr[c]) /\ bound[c]
      <3>1. link' = [link EXCEPT ![c] = @ \/ up]
        BY <1>2 DEF Note
      <3>2. up => bound[c] /\ "rpmsg" \in table[c] /\ isr[c] = Kick(Sends(c))
        BY DEF Answered
      <3>3. CASE up
        BY <3>1, <3>2, <3>3
      <3>4. CASE ~up
        <4> HIDE DEF up
        <4>1. (link[c] \/ up) = link[c]
          BY <3>4 DEF Shape
        <4>2. link' = [link EXCEPT ![c] = link[c]]
          BY <3>1, <4>1, Zenon
        <4> QED BY <4>2 DEF Shape
      <3> QED BY <3>3, <3>4
    <2>3. CASE c = "core0"
      BY <1>0, <2>1, <2>2, <2>3 DEF Shape, Phases, Mail0, Mail1, Quiet, Kicked
    <2>4. CASE c = "core1"
      BY <1>0, <2>1, <2>2, <2>4 DEF Shape, Phases, Mail0, Mail1, Quiet, Kicked
    <2> QED BY <2>3, <2>4
  <1>3. CASE Drain(c)
    <2>1. /\ UNCHANGED <<word, isr, link, ready>> /\ isr[c] = Kick(Receives(c))
          /\ ~Vacant(ring[Receives(c)].filled)
          /\ DOMAIN ring' = DOMAIN ring
          /\ DOMAIN ring'[Receives(c)] = {"fresh", "filled"}
          /\ \A d \in Direction : d # Receives(c) => ring'[d] = ring[d]
      BY <1>3 DEF Drain, ipcvars, Shape, Direction
    <2> QED BY <1>0, <2>1 DEF Shape, Phases, Mail0, Mail1, Quiet, Kicked, Direction, Vacant
  <1>4. CASE Drained(c)
    <2>1. /\ UNCHANGED <<word, link, ready, ring>> /\ isr[c] = Kick(Receives(c))
          /\ isr' = [isr EXCEPT ![c] = Nothing]
          /\ Vacant(ring[Receives(c)].filled) \/ "rpmsg" \notin table[c] \/ ~bound[c]
      BY <1>4 DEF Drained, DrainDone, Answered, Leave, rings, ipcvars
    <2>2. Vacant(ring[Receives(c)].filled)
      BY <2>1 DEF Shape, Phases, Quiet, Mail1
    <2> QED BY <1>0, <2>1, <2>2 DEF Shape, Phases, Mail0, Mail1, Quiet, Kicked
  <1> QED BY <1>1, <1>2, <1>3, <1>4 DEF Isr

LEMMA StepLink ==
    ASSUME ~Hurried, LinkInv, [Next]_vars
    PROVE  LinkInv'
  <1>1. ASSUME NEW c \in Core, Main(c) PROVE LinkInv'
    <2>1. CASE Start(c)
      BY <2>1, StartLink, OpenLink DEF Start
    <2>2. CASE Talk(c)
      BY <2>2, TalkSteps, TalkLink, KickLink DEF Talk
    <2>3. CASE c = "core0" /\ Client
      BY <2>3, WaitLinkUp, TalkSteps, TalkLink DEF Client
    <2>4. CASE c = "core1" /\ Server
      BY <2>4, WaitLinkUp, TalkSteps, TalkLink DEF Server
    <2> QED BY <1>1, <2>1, <2>2, <2>3, <2>4, EventFacts DEF Main
  <1>2. ASSUME NEW oneway \in BOOLEAN, CreateRequest(oneway) PROVE LinkInv'
    BY <1>2, TalkSteps, TalkLink, EventFacts
  <1>3. CASE UNCHANGED vars
    BY <1>3 DEF vars, rings, ipcvars, LinkInv, Shape, Phases, Mail0, Mail1, Quiet,
                Kicked, Vacant
  <1> QED BY <1>1, <1>2, <1>3, IsrLink DEF Next

\* No message is left on a ring with nobody told: a message has a kick to
\* come, a kick in the mailbox or a handler at work, whatever the number of
\* buffers and however the handlers and the programs of the two cores mix,
\* though a kick that finds the mailbox full is thrown away unseen
\* (rpmsg_platform.c platform_notify over ipc_tigger_event).
THEOREM NoKickIsLost ==
    ASSUME ~Hurried
    PROVE  Spec => []NoLostKick
  <1>1. Init => LinkInv
    BY InitLink
  <1>2. LinkInv /\ [Next]_vars => LinkInv'
    BY StepLink
  <1>3. LinkInv => NoLostKick
    BY EventFacts DEF LinkInv, Kicked, NoLostKick
  <1> QED BY <1>1, <1>2, <1>3, PTL DEF Spec
-----------------------------------------------------------------------------
(* The rings, as lists of buffers. *)

\* How many buffers a ring holds.
Count(r) == (r.idx + IdxMod - r.cons) % IdxMod

LEMMA RingConstants ==
    N \in Nat \ {0} /\ IdxMod \in Nat \ {0} /\ IdxMod > N
  BY RingAssumption

LEMMA OnceRound ==
    ASSUME NEW a \in Nat
    PROVE  (a + IdxMod) % N = a % N
  <1>1. N \in Nat \ {0} /\ IdxMod \in Nat /\ IdxMod % N = 0
    BY RingAssumption
  <1> QED BY ONLY <1>1, a \in Nat, OneMultipleMore

LEMMA Residue ==
    ASSUME NEW a \in Nat
    PROVE  a % N \in Buffer
  <1>1. N \in Nat \ {0}
    BY RingAssumption
  <1> QED BY ONLY <1>1, a \in Nat, Division DEF Buffer

\* A remainder of what is less than twice the modulus.
LEMMA Reduced ==
    ASSUME NEW m \in Nat \ {0}, NEW a \in 0 .. 2 * m - 1
    PROVE  a % m = IF a < m THEN a ELSE a - m
  BY SMTT(20)

\* The index after an index, and what lies between two of them.
LEMMA CountIs ==
    ASSUME NEW r \in Ring
    PROVE  /\ Count(r) \in 0 .. IdxMod - 1
           /\ r.idx = IF r.cons + Count(r) < IdxMod THEN r.cons + Count(r)
                      ELSE r.cons + Count(r) - IdxMod
           /\ Count(r) = IF r.cons <= r.idx THEN r.idx - r.cons
                         ELSE r.idx + IdxMod - r.cons
           /\ Vacant(r) <=> Count(r) = 0
  <1>1. r.idx \in 0 .. IdxMod - 1 /\ r.cons \in 0 .. IdxMod - 1
    BY DEF Ring
  <1>2. Count(r) = IF r.cons <= r.idx THEN r.idx - r.cons ELSE r.idx + IdxMod - r.cons
    <2>1. PICK a \in 0 .. 2 * IdxMod - 1 : a = r.idx + IdxMod - r.cons
      BY <1>1, RingConstants
    <2>2. a % IdxMod = IF a < IdxMod THEN a ELSE a - IdxMod
      BY RingConstants, Reduced
    <2>3. r.idx + IdxMod - r.cons = a
      BY <1>1, <2>1, RingConstants
    <2>4. Count(r) = a % IdxMod
      BY <2>3, Zenon DEF Count
    <2> QED BY <1>1, <2>1, <2>2, <2>4, RingConstants
  <1> QED BY <1>1, <1>2, RingConstants DEF Vacant

LEMMA NextIndex ==
    ASSUME NEW i \in 0 .. IdxMod - 1
    PROVE  (i + 1) % IdxMod = IF i + 1 = IdxMod THEN 0 ELSE i + 1
  <1>1. PICK a \in 0 .. 2 * IdxMod - 1 : a = i + 1
    BY RingConstants
  <1>2. a % IdxMod = IF a < IdxMod THEN a ELSE a - IdxMod
    BY RingConstants, Reduced
  <1> QED BY <1>1, <1>2, RingConstants

LEMMA ListedIs ==
    ASSUME NEW r \in Ring
    PROVE  /\ Listed(r) \in Seq(Buffer) /\ Len(Listed(r)) = Count(r)
           /\ \A i \in 1 .. Count(r) : Listed(r)[i] = r.slot[(r.cons + (i - 1)) % N]
           /\ Vacant(r) <=> Listed(r) = <<>>
  <1>1. Count(r) \in Nat /\ r.cons \in Nat /\ r.slot \in [Buffer -> Buffer]
    BY CountIs, RingConstants DEF Ring
  <1>2. \A i \in 1 .. Count(r) : (r.cons + i - 1) % N \in Buffer
    BY <1>1, Residue
  <1>3. Listed(r) = [i \in 1 .. Count(r) |-> r.slot[(r.cons + i - 1) % N]]
    BY DEF Listed, Count
  <1>4. \A i \in 1 .. Count(r) : r.slot[(r.cons + i - 1) % N] \in Buffer
    BY <1>1, <1>2
  <1>5. Listed(r) \in Seq(Buffer) /\ Len(Listed(r)) = Count(r)
    BY <1>1, <1>3, <1>4
  <1>6. \A i \in 1 .. Count(r) : r.cons + i - 1 = r.cons + (i - 1)
    BY <1>1
  <1> QED BY <1>3, <1>5, <1>6, CountIs, EmptySeq

\* A ring after a buffer is put on it, and after one is taken off.
LEMMA PutFields ==
    ASSUME NEW r \in Ring, NEW b \in Buffer
    PROVE  /\ Put(r, b) \in Ring
           /\ Put(r, b).cons = r.cons /\ Put(r, b).idx = (r.idx + 1) % IdxMod
           /\ Put(r, b).slot = [r.slot EXCEPT ![r.idx % N] = b]
  <1> DEFINE p == Put(r, b)
  <1>1. DOMAIN r = {"slot", "idx", "cons"}
    BY Zenon DEF Ring
  <1>2. DOMAIN p = {"slot", "idx", "cons"} /\ p = [x \in DOMAIN p |-> p[x]]
    BY <1>1, Zenon DEF Put
  <1>3. /\ p.cons = r.cons /\ p.idx = (r.idx + 1) % IdxMod
        /\ p.slot = [r.slot EXCEPT ![r.idx % N] = b]
    BY DEF Put, Ring
  <1> HIDE DEF p
  <1>4. p = [slot |-> p.slot, idx |-> p.idx, cons |-> p.cons]
    BY <1>2
  <1>5. r.idx \in 0 .. IdxMod - 1 /\ r.cons \in 0 .. IdxMod - 1 /\ r.slot \in [Buffer -> Buffer]
    BY DEF Ring
  <1>6. p.slot \in [Buffer -> Buffer]
    BY <1>3, <1>5
  <1>7. p.idx \in 0 .. IdxMod - 1
    BY <1>3, <1>5, NextIndex, RingConstants
  <1>8. p \in Ring
    BY <1>3, <1>4, <1>5, <1>6, <1>7 DEF Ring
  <1> QED BY <1>3, <1>8 DEF p

LEMMA RestFields ==
    ASSUME NEW r \in Ring
    PROVE  /\ Rest(r) \in Ring
           /\ Rest(r).cons = (r.cons + 1) % IdxMod
           /\ Rest(r).idx = r.idx /\ Rest(r).slot = r.slot
  <1>1. Rest(r) = [slot |-> r.slot, idx |-> r.idx, cons |-> (r.cons + 1) % IdxMod]
    BY DEF Ring, Rest
  <1>2. r.idx \in 0 .. IdxMod - 1 /\ r.cons \in 0 .. IdxMod - 1 /\ r.slot \in [Buffer -> Buffer]
    BY DEF Ring
  <1>3. (r.cons + 1) % IdxMod \in 0 .. IdxMod - 1
    BY <1>2, NextIndex, RingConstants
  <1> QED BY <1>1, <1>2, <1>3 DEF Ring

LEMMA PutIs ==
    ASSUME NEW r \in Ring, NEW b \in Buffer, Len(Listed(r)) < N
    PROVE  Put(r, b) \in Ring /\ Listed(Put(r, b)) = Append(Listed(r), b)
  <1>0. PICK p \in Ring : p = Put(r, b)
    BY PutFields
  <1>1. PICK n \in 0 .. N - 1 : n = Count(r)
    BY CountIs, ListedIs, RingConstants
  <1>2. /\ r.idx \in 0 .. IdxMod - 1 /\ r.cons \in 0 .. IdxMod - 1
        /\ r.slot \in [Buffer -> Buffer]
        /\ r.idx = IF r.cons + n < IdxMod THEN r.cons + n ELSE r.cons + n - IdxMod
    BY <1>1, CountIs DEF Ring
  <1>3. p.slot = [r.slot EXCEPT ![r.idx % N] = b]
    BY <1>0, PutFields
  <1>15. p.cons = r.cons /\ p.idx = IF r.idx + 1 = IdxMod THEN 0 ELSE r.idx + 1
    BY <1>0, <1>2, PutFields, NextIndex
  <1>4. r.idx % N \in Buffer
    <2>1. r.idx \in Nat
      BY <1>2, RingConstants
    <2> QED BY <2>1, Residue
  <1>5. Count(p) = n + 1
    <2>1. Count(p) = IF p.cons <= p.idx THEN p.idx - p.cons ELSE p.idx + IdxMod - p.cons
      BY CountIs
    <2>2. n + 1 <= N /\ n \in Nat
      BY RingConstants
    <2>3. PICK x \in Nat, y \in Nat, c \in Nat :
              /\ x = r.idx /\ y = p.idx /\ c = r.cons
              /\ x < IdxMod /\ c < IdxMod
              /\ x = IF c + n < IdxMod THEN c + n ELSE c + n - IdxMod
              /\ y = IF x + 1 = IdxMod THEN 0 ELSE x + 1
              /\ Count(p) = IF c <= y THEN y - c ELSE y + IdxMod - c
      <3>1. r.idx \in Nat /\ r.cons \in Nat /\ r.idx < IdxMod /\ r.cons < IdxMod
        BY <1>2, RingConstants
      <3>2. p.idx \in Nat /\ p.cons = r.cons
        BY <1>15, <3>1
      <3> QED BY ONLY <1>2, <1>15, <2>1, <3>1, <3>2
    <2>4. CASE c + n < IdxMod /\ x + 1 = IdxMod
      BY ONLY <2>2, <2>3, <2>4, RingConstants
    <2>5. CASE c + n < IdxMod /\ x + 1 < IdxMod
      BY ONLY <2>2, <2>3, <2>5, RingConstants
    <2>6. CASE c + n >= IdxMod
      BY ONLY <2>2, <2>3, <2>6, RingConstants
    <2> QED BY ONLY <2>2, <2>3, <2>4, <2>5, <2>6, RingConstants
  <1>6. (r.cons + n) % N = r.idx % N
    <2>1. r.cons + n \in Nat /\ r.idx \in Nat
      BY <1>2, RingConstants
    <2>2. r.cons + n = r.idx \/ r.cons + n = r.idx + IdxMod
      BY <1>2, RingConstants
    <2> QED BY <2>1, <2>2, OnceRound
  <1>7. ASSUME NEW i \in 1 .. n PROVE (r.cons + (i - 1)) % N # r.idx % N
    <2>1. PICK a \in Nat : a = r.cons + (i - 1)
      BY <1>2, RingConstants
    <2>2. PICK k \in 1 .. N - 1 : k = n - (i - 1)
      BY RingConstants
    <2>3. (a + k) % N # a % N
      BY RingConstants, Apart
    <2>4. a + k = r.cons + n
      BY <1>2, <2>1, <2>2, RingConstants
    <2> QED BY <1>6, <2>1, <2>3, <2>4
  <1>8. /\ Listed(p) \in Seq(Buffer) /\ Len(Listed(p)) = n + 1
        /\ \A i \in 1 .. n + 1 : Listed(p)[i] = p.slot[(r.cons + (i - 1)) % N]
    BY <1>5, <1>15, ListedIs
  <1>9. /\ Listed(r) \in Seq(Buffer) /\ Len(Listed(r)) = n
        /\ \A i \in 1 .. n : Listed(r)[i] = r.slot[(r.cons + (i - 1)) % N]
    BY <1>1, ListedIs
  <1>10. ASSUME NEW i \in 1 .. n PROVE Listed(p)[i] = Listed(r)[i]
    <2>1. PICK a \in Nat : a = r.cons + (i - 1)
      BY <1>2, RingConstants
    <2>2. a % N \in Buffer /\ a % N # r.idx % N
      BY <1>7, <2>1, Residue
    <2>3. p.slot[a % N] = r.slot[a % N]
      BY <1>2, <1>3, <2>2
    <2>4. i \in 1 .. n + 1
      OBVIOUS
    <2> QED BY <1>8, <1>9, <2>1, <2>3, <2>4
  <1>11. Listed(p)[n + 1] = b
    <2>1. n + 1 \in 1 .. n + 1 /\ (n + 1) - 1 = n
      BY RingConstants
    <2>2. Listed(p)[n + 1] = p.slot[(r.cons + n) % N]
      BY <1>8, <2>1
    <2> QED BY <1>2, <1>3, <1>4, <1>6, <2>2
  <1>12. /\ Append(Listed(r), b) \in Seq(Buffer) /\ Len(Append(Listed(r), b)) = n + 1
         /\ \A i \in 1 .. n : Append(Listed(r), b)[i] = Listed(r)[i]
         /\ Append(Listed(r), b)[n + 1] = b
    BY <1>9, AppendProperties
  <1>13. \A i \in 1 .. n + 1 : Listed(p)[i] = Append(Listed(r), b)[i]
    BY <1>10, <1>11, <1>12
  <1>14. Listed(p) = Append(Listed(r), b)
    BY <1>8, <1>12, <1>13, SeqEqual
  <1> QED BY <1>0, <1>14

LEMMA RestIs ==
    ASSUME NEW r \in Ring, ~Vacant(r)
    PROVE  /\ Rest(r) \in Ring
           /\ Listed(r) # <<>>
           /\ First(r) = Head(Listed(r)) /\ First(r) \in Buffer
           /\ Listed(Rest(r)) = Tail(Listed(r))
  <1>0. PICK p \in Ring : p = Rest(r)
    BY RestFields
  <1>1. PICK n \in 1 .. IdxMod - 1 : n = Count(r)
    BY CountIs, RingConstants
  <1>2. /\ r.idx \in 0 .. IdxMod - 1 /\ r.cons \in 0 .. IdxMod - 1
        /\ r.slot \in [Buffer -> Buffer]
        /\ r.idx = IF r.cons + n < IdxMod THEN r.cons + n ELSE r.cons + n - IdxMod
    BY <1>1, CountIs DEF Ring
  <1>3. /\ p.cons = IF r.cons + 1 = IdxMod THEN 0 ELSE r.cons + 1
        /\ p.idx = r.idx /\ p.slot = r.slot
    BY <1>0, <1>2, NextIndex, RestFields
  <1>4. Count(p) = n - 1
    <2>1. Count(p) = IF p.cons <= p.idx THEN p.idx - p.cons ELSE p.idx + IdxMod - p.cons
      BY CountIs
    <2> QED BY <1>1, <1>2, <1>3, <2>1, RingConstants
  <1>5. ASSUME NEW i \in 1 .. n - 1 PROVE (p.cons + (i - 1)) % N = (r.cons + i) % N
    <2>1. CASE p.cons = r.cons + 1
      <3>1. p.cons + (i - 1) = r.cons + i
        BY <1>2, <2>1, RingConstants
      <3> QED BY <3>1
    <2>2. CASE p.cons = 0 /\ r.cons + 1 = IdxMod
      <3>1. PICK a \in Nat : a = i - 1
        BY RingConstants
      <3>2. (a + IdxMod) % N = a % N
        BY OnceRound
      <3>3. r.cons + i = a + IdxMod /\ p.cons + (i - 1) = a
        BY <1>2, <2>2, <3>1, RingConstants
      <3> QED BY <3>2, <3>3
    <2> QED BY <1>3, <2>1, <2>2
  <1>6. /\ Listed(r) \in Seq(Buffer) /\ Len(Listed(r)) = n /\ Listed(r) # <<>>
        /\ \A i \in 1 .. n : Listed(r)[i] = r.slot[(r.cons + (i - 1)) % N]
    BY <1>1, ListedIs
  <1>7. /\ Listed(p) \in Seq(Buffer) /\ Len(Listed(p)) = n - 1
        /\ \A i \in 1 .. n - 1 : Listed(p)[i] = r.slot[(r.cons + i) % N]
    <2>1. /\ Listed(p) \in Seq(Buffer) /\ Len(Listed(p)) = n - 1
          /\ \A i \in 1 .. n - 1 : Listed(p)[i] = p.slot[(p.cons + (i - 1)) % N]
      BY <1>4, ListedIs
    <2> QED BY <1>3, <1>5, <2>1
  <1>8. /\ Tail(Listed(r)) \in Seq(Buffer) /\ Len(Tail(Listed(r))) = n - 1
        /\ \A i \in 1 .. n - 1 : Tail(Listed(r))[i] = Listed(r)[i + 1]
        /\ Head(Listed(r)) = Listed(r)[1] /\ Head(Listed(r)) \in Buffer
    BY <1>6, HeadTailProperties
  <1>9. ASSUME NEW i \in 1 .. n - 1 PROVE Listed(r)[i + 1] = r.slot[(r.cons + i) % N]
    <2>1. i + 1 \in 1 .. n /\ (i + 1) - 1 = i
      BY RingConstants
    <2> QED BY <1>6, <2>1
  <1>10. Listed(p) = Tail(Listed(r))
    <2>1. \A i \in 1 .. n - 1 : Listed(p)[i] = Tail(Listed(r))[i]
      BY <1>7, <1>8, <1>9
    <2> QED BY <1>7, <1>8, <2>1, SeqEqual
  <1>11. First(r) = Listed(r)[1]
    <2>1. 1 \in 1 .. n /\ r.cons + (1 - 1) = r.cons
      BY <1>2, RingConstants
    <2>2. Listed(r)[1] = r.slot[(r.cons + (1 - 1)) % N]
      BY <1>6, <2>1
    <2> QED BY <2>1, <2>2 DEF First
  <1> QED BY <1>0, <1>6, <1>8, <1>10, <1>11

LEMMA NewRings ==
    /\ NoBuffers \in Ring /\ Listed(NoBuffers) = <<>>
    /\ AllBuffers \in Ring /\ Len(Listed(AllBuffers)) = N
    /\ ToSet(Listed(AllBuffers)) = Buffer
  <1>1. NoBuffers \in Ring /\ AllBuffers \in Ring
    BY RingConstants DEF NoBuffers, AllBuffers, Ring, Buffer
  <1>2. Vacant(NoBuffers)
    BY NoBuffersVacant
  <1>3. Listed(NoBuffers) = <<>>
    BY <1>1, <1>2, ListedIs
  <1>4. Count(AllBuffers) = N
    <2>1. AllBuffers.cons = 0 /\ AllBuffers.idx = N
      BY DEF AllBuffers
    <2> QED BY <1>1, <2>1, CountIs, RingConstants
  <1>5. /\ Listed(AllBuffers) \in Seq(Buffer) /\ Len(Listed(AllBuffers)) = N
        /\ \A i \in 1 .. N : Listed(AllBuffers)[i] = i - 1
    <2>1. AllBuffers.cons = 0 /\ \A i \in Buffer : AllBuffers.slot[i] = i
      BY DEF AllBuffers
    <2>2. /\ Listed(AllBuffers) \in Seq(Buffer) /\ Len(Listed(AllBuffers)) = N
          /\ \A i \in 1 .. N : Listed(AllBuffers)[i] = AllBuffers.slot[(0 + (i - 1)) % N]
      BY <1>1, <1>4, <2>1, ListedIs
    <2>3. ASSUME NEW i \in 1 .. N PROVE Listed(AllBuffers)[i] = i - 1
      <3>1. PICK b \in Buffer : b = i - 1 /\ 0 + (i - 1) = b
        BY RingConstants DEF Buffer
      <3>2. b % N = b
        <4>1. b \in 0 .. 2 * N - 1 /\ b < N
          BY RingConstants DEF Buffer
        <4> QED BY <4>1, Reduced, RingConstants
      <3> QED BY <2>1, <2>2, <3>1, <3>2
    <2> QED BY <2>2, <2>3
  <1>6. \A b \in Buffer : b + 1 \in 1 .. N /\ (b + 1) - 1 = b
    BY RingConstants DEF Buffer
  <1>7. ToSet(Listed(AllBuffers)) = Buffer
    BY <1>5, <1>6 DEF ToSet
  <1> QED BY <1>1, <1>3, <1>5, <1>7
-----------------------------------------------------------------------------
(* Where the buffers that core c sends are: empty on the ring back to it,  *)
(* full on the ring to its peer, in the peer's inbox, or in a program's    *)
(* hands, before they are sent or after they are received.                 *)
Spot == {"fresh", "filled", "box", "out", "in"}
Hold(c, s) ==
    IF s = "fresh" THEN Listed(ring[Sends(c)].fresh)
    ELSE IF s = "filled" THEN Listed(ring[Sends(c)].filled)
    ELSE IF s = "box" THEN inbox[Peer(c)]
    ELSE IF s = "out" THEN IF pc[c] = "send" THEN <<hand[c]>> ELSE <<>>
    ELSE IF pc[Peer(c)] \in {"process", "verify"} THEN <<hand[Peer(c)]>> ELSE <<>>
Total(c) == Len(Hold(c, "fresh")) + (Len(Hold(c, "filled")) + (Len(Hold(c, "box"))
              + (Len(Hold(c, "out")) + Len(Hold(c, "in")))))
All(c) == UNION {ToSet(Hold(c, s)) : s \in Spot}

\* What a step does to them: nothing, or the oldest at s goes to t, or it is lost.
Resting(c) == \A s \in Spot : Hold(c, s)' = Hold(c, s)
Lost(c, s) ==
    /\ Hold(c, s) # <<>>
    /\ Hold(c, s)' = Tail(Hold(c, s))
    /\ \A u \in Spot \ {s} : Hold(c, u)' = Hold(c, u)
Moved(c, s, t) ==
    /\ Hold(c, s) # <<>>
    /\ Hold(c, s)' = Tail(Hold(c, s))
    /\ Hold(c, t)' = Append(Hold(c, t), Head(Hold(c, s)))
    /\ \A u \in Spot \ {s, t} : Hold(c, u)' = Hold(c, u)

Rings == [Direction -> [{"fresh", "filled"} -> Ring]]

\* The values of the variables, and when a program has a buffer in its hand.
Values ==
    /\ IpcTypeOK
    /\ isr \in [Core -> Event \cup {Nothing}]
    /\ ready \in BOOLEAN /\ link \in [Core -> BOOLEAN]
    /\ bound \in [Core -> BOOLEAN] /\ ept \in [Core -> BOOLEAN]
    /\ ring \in Rings
    /\ mem \in [Direction -> [Buffer -> Message]]
    /\ inbox \in [Core -> Seq(Buffer)]
    /\ hand \in [Core -> Buffer \cup {Nothing}]
    /\ seq \in [Core -> 0 .. SeqNos - 1]
    /\ oneways \in 0 .. Burst

Step == Early0 \cup Mid0 \cup Late0 \cup Early1 \cup {"linkwait"} \cup Late1
Hands ==
    /\ pc \in [Core -> Step]
    /\ pc["core0"] \in Early0 \cup Mid0 \cup Late0
    /\ pc["core1"] \in Early1 \cup {"linkwait", "endpoint"} \cup Late1
    /\ pc["core0"] \in Begin0 => pc["core1"] = "held"
    /\ \A c \in Core : hand[c] # Nothing <=> pc[c] \in {"send", "kick", "verify", "process"}

\* Core 0 fills the rings once; before that there is no buffer anywhere.
Opened ==
    /\ bound["core0"] <=> pc["core0"] \notin Begin0 \cup {"wait", "open"}
    /\ ~bound["core0"] => \A c \in Core, s \in Spot : Hold(c, s) = <<>>

Room == \A c \in Core : Total(c) <= N /\ Len(inbox[c]) < N
Kept == Values /\ Hands /\ Opened /\ Room
-----------------------------------------------------------------------------
LEMMA HoldIs ==
    ASSUME NEW c \in Core
    PROVE  /\ Hold(c, "fresh") = Listed(ring[Sends(c)].fresh)
           /\ Hold(c, "filled") = Listed(ring[Sends(c)].filled)
           /\ Hold(c, "box") = inbox[Peer(c)]
           /\ Hold(c, "out") = IF pc[c] = "send" THEN <<hand[c]>> ELSE <<>>
           /\ Hold(c, "in") = IF pc[Peer(c)] \in {"process", "verify"} THEN <<hand[Peer(c)]>>
                              ELSE <<>>
  BY DEF Hold

\* ... and after a step.
LEMMA HoldIsNext ==
    ASSUME NEW c \in Core
    PROVE  /\ Hold(c, "fresh")' = Listed(ring'[Sends(c)].fresh)
           /\ Hold(c, "filled")' = Listed(ring'[Sends(c)].filled)
           /\ Hold(c, "box")' = inbox'[Peer(c)]
           /\ Hold(c, "out")' = IF pc'[c] = "send" THEN <<hand'[c]>> ELSE <<>>
           /\ Hold(c, "in")' = IF pc'[Peer(c)] \in {"process", "verify"}
                               THEN <<hand'[Peer(c)]>> ELSE <<>>
  BY DEF Hold

LEMMA CoreFacts ==
    /\ Core = {"core0", "core1"} /\ Peer("core0") = "core1" /\ Peer("core1") = "core0"
    /\ Sends("core0") = "call" /\ Sends("core1") = "reply"
    /\ Receives("core0") = "reply" /\ Receives("core1") = "call"
    /\ Direction = {"call", "reply"}
    /\ \A c \in Core : /\ Peer(c) \in Core /\ Peer(Peer(c)) = c /\ Peer(c) # c
                       /\ Sends(c) \in Direction /\ Sends(Peer(c)) # Sends(c)
                       /\ Receives(c) = Sends(Peer(c))
  BY DEF Core, Peer, Sends, Receives, Direction

LEMMA HoldType ==
    ASSUME Values, Hands, NEW c \in Core, NEW s \in Spot
    PROVE  Hold(c, s) \in Seq(Buffer)
  <1>1. \A e \in Core : pc[e] \in {"send", "kick", "verify", "process"} => hand[e] \in Buffer
    BY DEF Values, Hands
  <1>2. \A d \in Direction : Listed(ring[d].fresh) \in Seq(Buffer)
                             /\ Listed(ring[d].filled) \in Seq(Buffer)
    BY ListedIs DEF Values, Rings
  <1>3. \A e \in Core : inbox[e] \in Seq(Buffer)
    BY DEF Values
  <1>4. \A b \in Buffer : <<b>> \in Seq(Buffer)
    OBVIOUS
  <1>5. <<>> \in Seq(Buffer)
    OBVIOUS
  <1>6. Sends(c) \in Direction /\ Peer(c) \in Core
    BY CoreFacts
  <1>7. CASE s \in {"fresh", "filled", "box"}
    BY <1>2, <1>3, <1>6, <1>7, HoldIs
  <1>8. CASE s \in {"out", "in"}
    BY <1>1, <1>4, <1>5, <1>6, <1>8, HoldIs
  <1> QED BY <1>7, <1>8 DEF Spot

\* A buffer that moves is still one of them; their number stays.
LEMMA ElementsOfTail ==
    ASSUME NEW B, NEW s \in Seq(B), s # <<>>
    PROVE  ToSet(s) = {Head(s)} \cup ToSet(Tail(s))
  <1>1. /\ Tail(s) \in Seq(B) /\ Len(Tail(s)) = Len(s) - 1 /\ Head(s) = s[1]
        /\ \A i \in 1 .. Len(s) - 1 : Tail(s)[i] = s[i + 1]
        /\ Len(s) \in Nat \ {0}
    BY HeadTailProperties, EmptySeq, LenProperties
  <1>2. ToSet(s) = {s[i] : i \in 1 .. Len(s)} /\ ToSet(Tail(s)) = {Tail(s)[i] : i \in 1 .. Len(s) - 1}
    BY <1>1, LenProperties DEF ToSet
  <1>3. ASSUME NEW x \in ToSet(s) PROVE x = s[1] \/ x \in ToSet(Tail(s))
    <2>1. PICK i \in 1 .. Len(s) : x = s[i]
      BY <1>2
    <2>2. CASE i = 1
      BY <2>1, <2>2
    <2>3. CASE i > 1
      <3>1. PICK j \in 1 .. Len(s) - 1 : i = j + 1
        BY <1>1, <2>3
      <3> QED BY <1>1, <1>2, <2>1, <3>1
    <2> QED BY <2>2, <2>3
  <1>4. ASSUME NEW x \in ToSet(Tail(s)) PROVE x \in ToSet(s)
    <2>1. PICK j \in 1 .. Len(s) - 1 : x = Tail(s)[j]
      BY <1>2
    <2>2. j + 1 \in 1 .. Len(s) /\ x = s[j + 1]
      BY <1>1, <2>1
    <2> QED BY <1>2, <2>2
  <1>5. s[1] \in ToSet(s)
    BY <1>1, <1>2
  <1> QED BY <1>1, <1>3, <1>4, <1>5

LEMMA ElementsOfAppend ==
    ASSUME NEW B, NEW s \in Seq(B), NEW b \in B
    PROVE  ToSet(Append(s, b)) = ToSet(s) \cup {b}
  <1>1. /\ Append(s, b) \in Seq(B) /\ Len(Append(s, b)) = Len(s) + 1 /\ Len(s) \in Nat
        /\ \A i \in 1 .. Len(s) : Append(s, b)[i] = s[i]
        /\ Append(s, b)[Len(s) + 1] = b
    BY AppendProperties, LenProperties
  <1>2. ToSet(s) = {s[i] : i \in 1 .. Len(s)}
        /\ ToSet(Append(s, b)) = {Append(s, b)[i] : i \in 1 .. Len(s) + 1}
    BY <1>1, LenProperties DEF ToSet
  <1>3. \A i \in 1 .. Len(s) + 1 : i \in 1 .. Len(s) \/ i = Len(s) + 1
    BY <1>1
  <1>4. \A i \in 1 .. Len(s) : i \in 1 .. Len(s) + 1
    BY <1>1
  <1>5. Len(s) + 1 \in 1 .. Len(s) + 1
    BY <1>1
  <1> QED BY <1>1, <1>2, <1>3, <1>4, <1>5

LEMMA MovedKeeps ==
    ASSUME NEW c \in Core, \A u \in Spot : Hold(c, u) \in Seq(Buffer),
           NEW s \in Spot, NEW t \in Spot, s # t, Moved(c, s, t)
    PROVE  Total(c)' = Total(c) /\ All(c)' = All(c)
  <1>1. /\ Len(Hold(c, s)) \in Nat \ {0} /\ Head(Hold(c, s)) \in Buffer
        /\ Len(Hold(c, s)') = Len(Hold(c, s)) - 1
        /\ ToSet(Hold(c, s)) = {Head(Hold(c, s))} \cup ToSet(Hold(c, s)')
    BY ElementsOfTail, HeadTailProperties, EmptySeq, LenProperties DEF Moved
  <1>2. /\ Len(Hold(c, t)') = Len(Hold(c, t)) + 1
        /\ ToSet(Hold(c, t)') = ToSet(Hold(c, t)) \cup {Head(Hold(c, s))}
    BY <1>1, ElementsOfAppend, AppendProperties DEF Moved
  <1>3. \A u \in Spot \ {s, t} : Hold(c, u)' = Hold(c, u)
    BY DEF Moved
  <1>4. \A u \in Spot : Len(Hold(c, u)) \in Nat
    BY LenProperties
  <1>5. /\ Total(c) = Len(Hold(c, "fresh")) + (Len(Hold(c, "filled")) + (Len(Hold(c, "box"))
                        + (Len(Hold(c, "out")) + Len(Hold(c, "in")))))
        /\ Total(c)' = Len(Hold(c, "fresh")') + (Len(Hold(c, "filled")') + (Len(Hold(c, "box")')
                        + (Len(Hold(c, "out")') + Len(Hold(c, "in")'))))
    BY DEF Total
  <1>6. Total(c)' = Total(c)
    <2> DEFINE l(u) == Len(Hold(c, u))
               m(u) == Len(Hold(c, u)')
    <2>1. /\ \A u \in Spot : l(u) \in Nat
          /\ m(s) = l(s) - 1 /\ m(t) = l(t) + 1
          /\ \A u \in Spot \ {s, t} : m(u) = l(u)
      BY <1>1, <1>2, <1>3, <1>4
    <2>2. /\ Total(c) = l("fresh") + (l("filled") + (l("box") + (l("out") + l("in"))))
          /\ Total(c)' = m("fresh") + (m("filled") + (m("box") + (m("out") + m("in"))))
      BY <1>5
    <2> HIDE DEF l, m
    <2>3. m("fresh") + (m("filled") + (m("box") + (m("out") + m("in"))))
           = l("fresh") + (l("filled") + (l("box") + (l("out") + l("in"))))
      BY ONLY <2>1, s \in Spot, t \in Spot, s # t DEF Spot
    <2> QED BY <2>2, <2>3
  <1>7. All(c)' = UNION {ToSet(Hold(c, u)') : u \in Spot}
    BY DEF All
  <1>8. All(c)' = All(c)
    BY <1>1, <1>2, <1>3, <1>7, Zenon DEF All
  <1> QED BY <1>6, <1>8

LEMMA LostLess ==
    ASSUME NEW c \in Core, \A u \in Spot : Hold(c, u) \in Seq(Buffer),
           NEW s \in Spot, Lost(c, s)
    PROVE  Total(c)' <= Total(c)
  <1> DEFINE l(u) == Len(Hold(c, u))
             m(u) == Len(Hold(c, u)')
  <1>1. /\ \A u \in Spot : l(u) \in Nat
        /\ m(s) = l(s) - 1
        /\ \A u \in Spot \ {s} : m(u) = l(u)
    BY HeadTailProperties, EmptySeq, LenProperties DEF Lost
  <1>2. /\ Total(c) = l("fresh") + (l("filled") + (l("box") + (l("out") + l("in"))))
        /\ Total(c)' = m("fresh") + (m("filled") + (m("box") + (m("out") + m("in"))))
    BY DEF Total
  <1> HIDE DEF l, m
  <1>3. m("fresh") + (m("filled") + (m("box") + (m("out") + m("in"))))
         <= l("fresh") + (l("filled") + (l("box") + (l("out") + l("in"))))
    BY ONLY <1>1, s \in Spot DEF Spot
  <1> QED BY <1>2, <1>3

LEMMA RestingKeeps ==
    ASSUME NEW c \in Core, Resting(c)
    PROVE  Total(c)' = Total(c) /\ All(c)' = All(c)
  BY DEF Resting, Total, All, Spot
-----------------------------------------------------------------------------
(* The steps, as moves. *)
LEMMA FillMoves ==
    ASSUME Values, Hands, NEW c \in Core, NEW m, Fill(c, m), UNCHANGED inbox,
           pc[c] \in {"call", "answer"}, pc' = [pc EXCEPT ![c] = "send"]
    PROVE  Moved(c, "fresh", "out") /\ Resting(Peer(c)) /\ ring' \in Rings
  <1> DEFINE d == Sends(c)
             r == ring[Sends(c)].fresh
  <1>1. /\ r \in Ring /\ d \in Direction /\ Sends(Peer(c)) \in Direction \ {d}
        /\ Peer(c) \in Core \ {c} /\ Peer(Peer(c)) = c
    BY CoreFacts DEF Values, Rings
  <1>2. /\ ~Vacant(r) /\ hand' = [hand EXCEPT ![c] = First(r)]
        /\ ring' = [ring EXCEPT ![d].fresh = Rest(r)]
    BY DEF Fill
  <1>3. /\ Listed(r) # <<>> /\ First(r) = Head(Listed(r)) /\ First(r) \in Buffer
        /\ Rest(r) \in Ring /\ Listed(Rest(r)) = Tail(Listed(r))
    BY <1>1, <1>2, RestIs
  <1>4. /\ ring'[d].fresh = Rest(r) /\ ring'[d].filled = ring[d].filled
        /\ \A e \in Direction \ {d} : ring'[e] = ring[e]
    BY <1>1, <1>2, <1>3 DEF Values, Rings
  <1>5. /\ pc'[c] = "send" /\ pc'[Peer(c)] = pc[Peer(c)]
        /\ hand'[c] = First(r) /\ hand'[Peer(c)] = hand[Peer(c)]
    BY <1>1, <1>2 DEF Values, Hands, Rings
  <1>6. Append(<<>>, First(r)) = <<First(r)>>
    OBVIOUS
  <1>7. Moved(c, "fresh", "out")
    <2>1. /\ Hold(c, "fresh") = Listed(r) /\ Hold(c, "fresh")' = Tail(Listed(r))
          /\ Hold(c, "out") = <<>> /\ Hold(c, "out")' = <<Head(Listed(r))>>
          /\ Hold(c, "filled")' = Hold(c, "filled")
          /\ Hold(c, "box")' = Hold(c, "box")
          /\ Hold(c, "in")' = Hold(c, "in")
      BY <1>1, <1>3, <1>4, <1>5, HoldIs, HoldIsNext
    <2>2. Append(<<>>, Head(Listed(r))) = <<Head(Listed(r))>>
      BY <1>3, <1>6
    <2> QED BY ONLY <1>3, <2>1, <2>2 DEF Moved, Spot
  <1>8. Resting(Peer(c))
    BY <1>1, <1>4, <1>5, HoldIs, HoldIsNext DEF Resting, Spot
  <1>9. ring' \in Rings
    BY <1>1, <1>2, <1>3 DEF Values, Rings
  <1> QED BY <1>7, <1>8, <1>9

LEMMA SendMoves ==
    ASSUME Values, Hands, Room, NEW c \in Core, Send(c)
    PROVE  Moved(c, "out", "filled") /\ Resting(Peer(c)) /\ ring' \in Rings
  <1> DEFINE d == Sends(c)
             r == ring[Sends(c)].filled
             b == hand[c]
  <1>1. /\ r \in Ring /\ d \in Direction /\ Sends(Peer(c)) \in Direction \ {d}
        /\ Peer(c) \in Core \ {c} /\ Peer(Peer(c)) = c
    BY CoreFacts DEF Values, Rings
  <1>2. /\ pc[c] = "send" /\ pc' = [pc EXCEPT ![c] = "kick"]
        /\ ring' = [ring EXCEPT ![d].filled = Put(r, b)]
        /\ UNCHANGED <<inbox, hand>>
    BY DEF Send, At, Goto
  <1>3. b \in Buffer
    BY <1>2 DEF Values, Hands, Rings
  <1>4. Len(Listed(r)) < N
    <2>1. \A u \in Spot : Len(Hold(c, u)) \in Nat
      BY HoldType, LenProperties
    <2>2. Len(Hold(c, "out")) = 1
      BY <1>2, HoldIs
    <2>3. Total(c) <= N /\ Len(Hold(c, "filled")) = Len(Listed(r))
      BY HoldIs DEF Room
    <2>4. Len(Hold(c, "filled")) + 1 <= Total(c) /\ Total(c) \in Nat
      <3>1. PICK x \in Nat, y \in Nat, z \in Nat, w \in Nat :
                /\ x = Len(Hold(c, "fresh")) /\ y = Len(Hold(c, "filled"))
                /\ z = Len(Hold(c, "box")) /\ w = Len(Hold(c, "in"))
        BY ONLY <2>1 DEF Spot
      <3>2. Total(c) = x + (y + (z + (1 + w)))
        BY ONLY <2>2, <3>1 DEF Total
      <3> QED BY <3>1, <3>2
    <2> QED BY ONLY <2>1, <2>3, <2>4, RingConstants DEF Spot
  <1>5. Put(r, b) \in Ring /\ Listed(Put(r, b)) = Append(Listed(r), b)
    BY <1>1, <1>3, <1>4, PutIs
  <1>6. /\ ring'[d].filled = Put(r, b) /\ ring'[d].fresh = ring[d].fresh
        /\ \A e \in Direction \ {d} : ring'[e] = ring[e]
    BY <1>1, <1>2, <1>5 DEF Values, Rings
  <1>7. pc'[c] = "kick" /\ pc'[Peer(c)] = pc[Peer(c)]
    BY <1>1, <1>2 DEF Hands
  <1>8. Head(<<b>>) = b /\ Tail(<<b>>) = <<>> /\ <<b>> # <<>>
    OBVIOUS
  <1>9. Moved(c, "out", "filled")
    <2>1. /\ Hold(c, "out") = <<b>> /\ Hold(c, "out")' = <<>>
          /\ Hold(c, "filled") = Listed(r) /\ Hold(c, "filled")' = Append(Listed(r), b)
          /\ Hold(c, "fresh")' = Hold(c, "fresh")
          /\ Hold(c, "box")' = Hold(c, "box")
          /\ Hold(c, "in")' = Hold(c, "in")
      BY <1>1, <1>2, <1>5, <1>6, <1>7, HoldIs, HoldIsNext
    <2> QED BY ONLY <1>8, <2>1 DEF Moved, Spot
  <1>10. Resting(Peer(c))
    BY <1>1, <1>2, <1>6, <1>7, HoldIs, HoldIsNext DEF Resting, Spot
  <1>11. ring' \in Rings
    BY <1>1, <1>2, <1>5 DEF Values, Rings
  <1> QED BY <1>9, <1>10, <1>11

LEMMA ReceiveMoves ==
    ASSUME Values, Hands, NEW c \in Core, Receive(c)
    PROVE  Moved(Peer(c), "box", "in") /\ Resting(c) /\ ring' \in Rings
  <1>1. Peer(c) \in Core \ {c} /\ Peer(Peer(c)) = c
    BY CoreFacts
  <1>2. /\ inbox[c] # <<>> /\ hand' = [hand EXCEPT ![c] = Head(inbox[c])]
        /\ inbox' = [inbox EXCEPT ![c] = Tail(@)]
        /\ pc[c] \in {"receive", "poll"}
        /\ pc' = [pc EXCEPT ![c] = IF c = "core0" THEN "verify" ELSE "process"]
        /\ UNCHANGED ring
    BY DEF Receive, Take, At, Goto, rings
  <1>3. /\ pc'[c] \in {"verify", "process"} /\ pc'[Peer(c)] = pc[Peer(c)]
        /\ hand'[c] = Head(inbox[c]) /\ hand'[Peer(c)] = hand[Peer(c)]
        /\ inbox'[c] = Tail(inbox[c]) /\ inbox'[Peer(c)] = inbox[Peer(c)]
    BY <1>1, <1>2 DEF Hands, Values
  <1>4. Append(<<>>, Head(inbox[c])) = <<Head(inbox[c])>>
    OBVIOUS
  <1>5. Moved(Peer(c), "box", "in")
    <2>1. /\ Hold(Peer(c), "box") = inbox[c] /\ Hold(Peer(c), "box")' = Tail(inbox[c])
      BY <1>1, <1>3, HoldIs, HoldIsNext
    <2>4. /\ Hold(Peer(c), "fresh")' = Hold(Peer(c), "fresh")
          /\ Hold(Peer(c), "filled")' = Hold(Peer(c), "filled")
      <3>1. ring' = ring
        BY <1>2
      <3> QED BY <1>1, <3>1, HoldIs, HoldIsNext
    <2>5. Hold(Peer(c), "out")' = Hold(Peer(c), "out")
      BY <1>1, <1>3, HoldIs, HoldIsNext
    <2>2. Hold(Peer(c), "in") = <<>>
      BY <1>1, <1>2, HoldIs
    <2>3. Hold(Peer(c), "in")' = <<Head(inbox[c])>>
      BY <1>1, <1>3, HoldIsNext
    <2> QED BY ONLY <1>2, <1>4, <2>1, <2>2, <2>3, <2>4, <2>5 DEF Moved, Spot
  <1>6. Resting(c)
    BY <1>1, <1>2, <1>3, HoldIs, HoldIsNext DEF Resting, Spot
  <1>7. ring' \in Rings
    BY <1>2 DEF Values
  <1> QED BY <1>5, <1>6, <1>7

LEMMA DisposeMoves ==
    ASSUME Values, Hands, Room, NEW c \in Core, Dispose(c, hand[c]), UNCHANGED inbox,
           pc[c] \in {"verify", "process"}, hand' = [hand EXCEPT ![c] = Nothing],
           NEW p \in {"call", "poll", "answer"}, pc' = [pc EXCEPT ![c] = p]
    PROVE  Moved(Peer(c), "in", "fresh") /\ Resting(c) /\ ring' \in Rings
  <1> DEFINE d == Receives(c)
             r == ring[Receives(c)].fresh
             b == hand[c]
  <1>1. /\ r \in Ring /\ d \in Direction /\ Sends(c) \in Direction \ {d}
        /\ Peer(c) \in Core \ {c} /\ Peer(Peer(c)) = c /\ Sends(Peer(c)) = d
    BY CoreFacts DEF Values, Rings
  <1>2. ring' = [ring EXCEPT ![d].fresh = Put(r, b)]
    BY DEF Dispose
  <1>3. b \in Buffer
    BY DEF Values, Hands, Rings
  <1>4. Len(Listed(r)) < N
    <2>1. \A u \in Spot : Len(Hold(Peer(c), u)) \in Nat
      BY <1>1, HoldType, LenProperties
    <2>2. Len(Hold(Peer(c), "in")) = 1
      BY <1>1, HoldIs
    <2>3. Total(Peer(c)) <= N /\ Len(Hold(Peer(c), "fresh")) = Len(Listed(r))
      BY <1>1, HoldIs DEF Room
    <2> QED BY <2>1, <2>2, <2>3, RingConstants DEF Total, Spot
  <1>5. Put(r, b) \in Ring /\ Listed(Put(r, b)) = Append(Listed(r), b)
    BY <1>1, <1>3, <1>4, PutIs
  <1>6. /\ ring'[d].fresh = Put(r, b) /\ ring'[d].filled = ring[d].filled
        /\ \A e \in Direction \ {d} : ring'[e] = ring[e]
    BY <1>1, <1>2, <1>5 DEF Values, Rings
  <1>7. pc'[c] = p /\ pc'[Peer(c)] = pc[Peer(c)] /\ hand'[Peer(c)] = hand[Peer(c)]
    BY <1>1 DEF Hands, Values
  <1>8. Head(<<b>>) = b /\ Tail(<<b>>) = <<>> /\ <<b>> # <<>>
    OBVIOUS
  <1>9. Moved(Peer(c), "in", "fresh")
    <2>1. /\ Hold(Peer(c), "in") = <<b>> /\ Hold(Peer(c), "in")' = <<>>
          /\ Hold(Peer(c), "fresh") = Listed(r)
          /\ Hold(Peer(c), "fresh")' = Append(Listed(r), b)
          /\ Hold(Peer(c), "filled")' = Hold(Peer(c), "filled")
          /\ Hold(Peer(c), "box")' = Hold(Peer(c), "box")
          /\ Hold(Peer(c), "out")' = Hold(Peer(c), "out")
      BY <1>1, <1>5, <1>6, <1>7, HoldIs, HoldIsNext
    <2> QED BY ONLY <1>8, <2>1 DEF Moved, Spot
  <1>10. Resting(c)
    BY <1>1, <1>6, <1>7, HoldIs, HoldIsNext DEF Resting, Spot
  <1>11. ring' \in Rings
    BY <1>1, <1>2, <1>5 DEF Values, Rings
  <1> QED BY <1>9, <1>10, <1>11

\* A message on the ring goes to the inbox, back unread, or is lost.
LEMMA DrainMoves ==
    ASSUME Values, Hands, Room, NEW c \in Core, Drain(c)
    PROVE  /\ IF ept[c] THEN IF Accepts(inbox[c]) THEN Moved(Peer(c), "filled", "box")
                             ELSE Lost(Peer(c), "filled")
              ELSE Moved(Peer(c), "filled", "fresh")
           /\ Resting(c) /\ ring' \in Rings
  <1> DEFINE d == Receives(c)
             f == ring[Receives(c)].filled
             r == ring[Receives(c)].fresh
             b == First(ring[Receives(c)].filled)
  <1>1. /\ f \in Ring /\ r \in Ring /\ d \in Direction /\ Sends(c) \in Direction \ {d}
        /\ Peer(c) \in Core \ {c} /\ Peer(Peer(c)) = c /\ Sends(Peer(c)) = d
    BY CoreFacts DEF Values, Rings
  <1>2. /\ ~Vacant(f)
        /\ inbox' = IF ept[c] /\ Accepts(inbox[c])
                    THEN [inbox EXCEPT ![c] = Append(@, b)] ELSE inbox
        /\ ring' = [ring EXCEPT ![d] = [filled |-> Rest(f), fresh |-> Returned(c, @.fresh, b)]]
        /\ UNCHANGED <<pc, hand>>
    BY DEF Drain
  <1>3. /\ Listed(f) # <<>> /\ b = Head(Listed(f)) /\ b \in Buffer
        /\ Rest(f) \in Ring /\ Listed(Rest(f)) = Tail(Listed(f))
    BY <1>1, <1>2, RestIs
  <1>4. Len(Listed(r)) < N
    <2>1. \A u \in Spot : Len(Hold(Peer(c), u)) \in Nat
      BY <1>1, HoldType, LenProperties
    <2>2. Len(Hold(Peer(c), "filled")) # 0
      BY <1>1, <1>3, HoldIs, HoldType, EmptySeq DEF Spot
    <2>3. Total(Peer(c)) <= N /\ Len(Hold(Peer(c), "fresh")) = Len(Listed(r))
      BY <1>1, HoldIs DEF Room
    <2> QED BY <2>1, <2>2, <2>3, RingConstants DEF Total, Spot
  <1>5. Put(r, b) \in Ring /\ Listed(Put(r, b)) = Append(Listed(r), b)
    BY <1>1, <1>3, <1>4, PutIs
  <1>6. /\ ring'[d].filled = Rest(f)
        /\ ring'[d].fresh = IF ept[c] THEN r ELSE Put(r, b)
        /\ \A e \in Direction \ {d} : ring'[e] = ring[e]
    <2>1. ring' = [ring EXCEPT ![d] = [filled |-> Rest(f), fresh |-> Returned(c, r, b)]]
      BY <1>2
    <2>2. ring'[d] = [filled |-> Rest(f), fresh |-> Returned(c, r, b)]
          /\ \A e \in Direction \ {d} : ring'[e] = ring[e]
      BY <1>1, <2>1 DEF Values, Rings
    <2> QED BY <2>2 DEF Returned
  <1> HIDE DEF f, r, b, d
  <1>7. Hold(Peer(c), "fresh") = Listed(r) /\ Hold(Peer(c), "filled") = Listed(f)
        /\ Hold(Peer(c), "box") = inbox[c]
    BY <1>1, HoldIs DEF d, r, f
  <1>8. /\ Hold(Peer(c), "fresh")' = IF ept[c] THEN Listed(r) ELSE Append(Listed(r), b)
        /\ Hold(Peer(c), "filled")' = Tail(Listed(f))
        /\ Hold(Peer(c), "box")' = inbox'[c]
        /\ Hold(Peer(c), "out")' = Hold(Peer(c), "out")
        /\ Hold(Peer(c), "in")' = Hold(Peer(c), "in")
    BY <1>1, <1>2, <1>3, <1>5, <1>6, HoldIs, HoldIsNext
  <1>9. inbox'[c] = (IF ept[c] /\ Accepts(inbox[c]) THEN Append(inbox[c], b) ELSE inbox[c])
        /\ inbox'[Peer(c)] = inbox[Peer(c)]
    <2>1. inbox[c] \in Seq(Buffer) /\ inbox \in [Core -> Seq(Buffer)]
      BY DEF Values, Rings
    <2>2. CASE ept[c] /\ Accepts(inbox[c])
      <3>1. inbox' = [inbox EXCEPT ![c] = Append(inbox[c], b)]
        BY <1>2, <2>2
      <3> QED BY <1>1, <2>1, <2>2, <3>1
    <2>3. CASE ~(ept[c] /\ Accepts(inbox[c]))
      <3>1. inbox' = inbox
        BY <1>2, <2>3
      <3> QED BY <2>3, <3>1
    <2> QED BY <2>2, <2>3
  <1>10. ept[c] /\ Accepts(inbox[c]) => Moved(Peer(c), "filled", "box")
    BY ONLY <1>3, <1>7, <1>8, <1>9 DEF Moved, Spot
  <1>11. ept[c] /\ ~Accepts(inbox[c]) => Lost(Peer(c), "filled")
    BY ONLY <1>3, <1>7, <1>8, <1>9 DEF Lost, Spot
  <1>12. ~ept[c] => Moved(Peer(c), "filled", "fresh")
    BY ONLY <1>3, <1>7, <1>8, <1>9 DEF Moved, Spot
  <1>13. Resting(c)
    BY <1>1, <1>2, <1>6, <1>9, HoldIs, HoldIsNext DEF Resting, Spot
  <1>14. ring' \in Rings
    <2>1. ring' = [ring EXCEPT ![d] = [filled |-> Rest(f), fresh |-> IF ept[c] THEN r ELSE Put(r, b)]]
      BY <1>2 DEF Returned, d, f, r, b
    <2> QED BY <1>1, <1>3, <1>5, <2>1 DEF Values, Rings
  <1> QED BY <1>10, <1>11, <1>12, <1>13, <1>14

\* A step that leaves the rings, the inboxes and the hands that count alone.
LEMMA SameHold ==
    ASSUME ring' = ring, inbox' = inbox,
           \A c \in Core : /\ pc[c] = "send" <=> pc'[c] = "send"
                           /\ pc[c] \in {"process", "verify"} <=> pc'[c] \in {"process", "verify"}
                           /\ pc[c] \in {"send", "process", "verify"} => hand'[c] = hand[c]
    PROVE  \A c \in Core : Resting(c)
  <1> SUFFICES ASSUME NEW c \in Core, NEW s \in Spot PROVE Hold(c, s)' = Hold(c, s)
    BY DEF Resting
  <1>1. Peer(c) \in Core
    BY CoreFacts
  <1> QED BY <1>1, HoldIs, HoldIsNext DEF Spot

\* The start-up, but for the filling of the rings, and the steps of the
\* handler that read no message.
Setup(c) ==
    \/ Enable(c) \/ Unmask(c) \/ Announce(c) \/ CreateEndpoint(c)
    \/ Open(c) /\ c = "core1"
    \/ (RegisterStart \/ Release \/ WaitReady \/ PrintMatrices) /\ c = "core0"
    \/ WaitLink /\ c = "core1"

Still == UNCHANGED <<ring, mem, inbox, hand, seq, oneways>>

LEMMA SetupStill ==
    ASSUME Values, Hands, NEW c \in Core, Setup(c)
    PROVE  Still /\ Values' /\ Hands' /\ \A e \in Core : Resting(e)
  <1> USE CoreFacts DEF At, Goto, Begin0, Early0, Mid0, Late0, Early1, Late1, Step
  <1>1. Still
    BY DEF Setup, Still, Enable, Unmask, Announce, CreateEndpoint, Open, RegisterStart, Release,
           WaitReady, PrintMatrices, WaitLink, rings
  <1>2. Hands' /\ \A e \in Core :
           /\ pc[e] = "send" <=> pc'[e] = "send"
           /\ pc[e] \in {"process", "verify"} <=> pc'[e] \in {"process", "verify"}
    <2>1. CASE Enable(c) \/ Unmask(c)
      BY <2>1, <1>1 DEF Enable, Unmask, Hands, Still
    <2>2. CASE Announce(c) \/ CreateEndpoint(c)
      BY <2>2, <1>1 DEF Announce, CreateEndpoint, Hands, Still
    <2>3. CASE Open(c)
      BY <2>3, <1>1 DEF Open, Hands, Still
    <2>4. CASE RegisterStart
      BY <2>4, <1>1 DEF RegisterStart, Hands, Still
    <2>8. CASE Release
      BY <2>8, <1>1 DEF Release, Hands, Still
    <2>5. CASE WaitReady
      BY <2>5, <1>1 DEF WaitReady, Hands, Still
    <2>7. CASE PrintMatrices
      BY <2>7, <1>1 DEF PrintMatrices, Hands, Still
    <2>6. CASE WaitLink
      BY <2>6, <1>1 DEF WaitLink, Hands, Still
    <2> QED BY <2>1, <2>2, <2>3, <2>4, <2>5, <2>6, <2>7, <2>8 DEF Setup
  <1>3. \A e \in Core : Resting(e)
    BY <1>1, <1>2, SameHold DEF Still
  <1>4. Values'
    <2>1. CASE Enable(c) \/ Unmask(c)
      BY <2>1, <1>1 DEF Enable, Unmask, Values, Still, EnableEvents, IpcTypeOK
    <2>2. CASE Announce(c)
      BY <2>2, <1>1, EventFacts DEF Announce, Values, Still, Trigger, IpcTypeOK
    <2>3. CASE CreateEndpoint(c)
      BY <2>3, <1>1 DEF CreateEndpoint, Values, Still, ipcvars, IpcTypeOK
    <2>4. CASE Open(c)
      BY <2>4, <1>1 DEF Open, Values, Still, Register, DisableEvents, IpcTypeOK, Type
    <2>5. CASE RegisterStart
      BY <2>5, <1>1 DEF RegisterStart, Values, Still, Register, IpcTypeOK, Type
    <2>6. CASE Release \/ WaitReady \/ PrintMatrices \/ WaitLink
      BY <2>6, <1>1 DEF Release, WaitReady, PrintMatrices, WaitLink, Values, Still, ipcvars, IpcTypeOK
    <2> QED BY <2>1, <2>2, <2>3, <2>4, <2>5, <2>6 DEF Setup
  <1> QED BY <1>1, <1>2, <1>3, <1>4

LEMMA HandlerStill ==
    ASSUME Values, Hands, NEW c \in Core, Interrupt(c) \/ Note(c) \/ Drained(c)
    PROVE  Still /\ UNCHANGED <<pc, bound, ept>> /\ Values' /\ Hands' /\ \A e \in Core : Resting(e)
  <1>1. Still /\ UNCHANGED <<pc, bound, ept>>
    BY DEF Still, Interrupt, Note, Drained, rings
  <1>2. Hands'
    BY <1>1 DEF Hands, Still
  <1>3. \A e \in Core : Resting(e)
    BY <1>1, SameHold DEF Still
  <1>4. Values'
    <2>1. CASE Interrupt(c)
      BY <2>1, <1>1 DEF Interrupt, Pending, Retrieve, Values, Still, IpcTypeOK
    <2>2. CASE Note(c)
      BY <2>2, <1>1 DEF Note, Leave, Values, Still, ipcvars, IpcTypeOK
    <2>3. CASE Drained(c)
      BY <2>3, <1>1 DEF Drained, Leave, Values, Still, ipcvars, IpcTypeOK
    <2> QED BY <2>1, <2>2, <2>3
  <1> QED BY <1>1, <1>2, <1>3, <1>4

LEMMA KickStill ==
    ASSUME Values, Hands, NEW c \in Core, KickPeer(c)
    PROVE  /\ UNCHANGED <<bound, ept, ring, mem, inbox, seq, oneways>>
           /\ Values' /\ Hands' /\ \A e \in Core : Resting(e)
  <1> USE CoreFacts DEF At, Goto
  <1>1. /\ UNCHANGED <<bound, ept, ring, mem, inbox, seq, oneways, on, table, isr, ready, link>>
        /\ hand' = [hand EXCEPT ![c] = Nothing] /\ pc[c] = "kick"
        /\ word' = [word EXCEPT ![Peer(c)] = IF @ = Nothing THEN Kick(Sends(c)) ELSE @]
    BY DEF KickPeer, Trigger, rings
  <1>2. PICK p \in {"poll", "call", "receive"} :
            pc' = [pc EXCEPT ![c] = p] /\ (p = "poll" <=> c = "core1")
    BY DEF KickPeer
  <1>3. Hands'
    <2>1. p \in Step /\ p \notin {"send", "kick", "verify", "process"}
      BY DEF Step, Late0, Late1
    <2>2. pc' \in [Core -> Step]
      BY <1>2, <2>1 DEF Hands
    <2>3. \A e \in Core : hand'[e] # Nothing <=> pc'[e] \in {"send", "kick", "verify", "process"}
      BY <1>1, <1>2, <2>1 DEF Hands, Values
    <2>4. CASE c = "core0"
      BY <1>1, <1>2, <2>2, <2>3, <2>4 DEF Hands, Begin0, Late0
    <2>5. CASE c = "core1"
      BY <1>1, <1>2, <2>2, <2>3, <2>5 DEF Hands, Begin0, Late1
    <2> QED BY <2>4, <2>5
  <1>4. Values'
    BY <1>1, EventFacts DEF Values, IpcTypeOK
  <1>5. \A e \in Core :
           /\ pc[e] = "send" <=> pc'[e] = "send"
           /\ pc[e] \in {"process", "verify"} <=> pc'[e] \in {"process", "verify"}
           /\ pc[e] \in {"send", "process", "verify"} => hand'[e] = hand[e]
    BY <1>1, <1>2 DEF Hands, Values
  <1>6. \A e \in Core : Resting(e)
    BY <1>1, <1>5, SameHold
  <1> QED BY <1>1, <1>3, <1>4, <1>6

\* The steps that move a buffer.
LEMMA FillValues ==
    ASSUME Values, Hands, NEW c \in Core, NEW m \in Message, Fill(c, m), ring' \in Rings,
           pc[c] = IF c = "core0" THEN "call" ELSE "answer", pc' = [pc EXCEPT ![c] = "send"]
    PROVE  /\ mem' \in [Direction -> [Buffer -> Message]]
           /\ hand' \in [Core -> Buffer \cup {Nothing}] /\ Hands'
  <1>1. /\ ~Vacant(ring[Sends(c)].fresh)
        /\ hand' = [hand EXCEPT ![c] = First(ring[Sends(c)].fresh)]
        /\ mem' = [mem EXCEPT ![Sends(c)][First(ring[Sends(c)].fresh)] = m]
    BY DEF Fill
  <1>2. First(ring[Sends(c)].fresh) \in Buffer
    BY <1>1, RestIs, CoreFacts DEF Values, Rings
  <1>3. First(ring[Sends(c)].fresh) # Nothing
    BY <1>2, NumberAssumption, RingConstants DEF Buffer
  <1>4. mem' \in [Direction -> [Buffer -> Message]] /\ hand' \in [Core -> Buffer \cup {Nothing}]
    BY <1>1, <1>2 DEF Values
  <1>5. Hands'
    BY <1>1, <1>3, CoreFacts DEF Hands, Values, Step, Begin0, Late0, Late1, Early0, Early1, Mid0
  <1> QED BY <1>4, <1>5
-----------------------------------------------------------------------------
(* What each step of the talk does. *)
Boxes == \A c \in Core : Len(inbox[c]) < N

LEMMA CreateRequestMoves ==
    ASSUME Values, Hands, Room, NEW oneway \in BOOLEAN, CreateRequest(oneway)
    PROVE  /\ Moved("core0", "fresh", "out") /\ Resting("core1")
           /\ Values' /\ Hands' /\ Boxes' /\ UNCHANGED <<bound, ept>>
  <1> DEFINE m == [seq |-> seq'["core0"], oneway |-> oneway]
  <1>1. /\ pc["core0"] = "call" /\ pc' = [pc EXCEPT !["core0"] = "send"]
        /\ seq' = [seq EXCEPT !["core0"] = (@ + 1) % SeqNos]
        /\ Fill("core0", m)
        /\ oneway => oneways < Burst
        /\ oneways' = IF oneway THEN oneways + 1 ELSE 0
        /\ UNCHANGED <<word, on, table, isr, ready, link, bound, ept, inbox>>
    BY DEF CreateRequest, At, Goto, ipcvars
  <1>2. seq' \in [Core -> 0 .. SeqNos - 1]
    <2>1. SeqNos \in Nat \ {0} /\ seq["core0"] + 1 \in Nat
      BY RingAssumption, CoreFacts DEF Values
    <2>2. (seq["core0"] + 1) % SeqNos \in 0 .. SeqNos - 1
      BY ONLY <2>1, Division
    <2> QED BY <1>1, <2>2 DEF Values
  <1>3. m \in Message
    BY <1>2, CoreFacts DEF Message
  <1> HIDE DEF m
  <1>4. Moved("core0", "fresh", "out") /\ Resting("core1") /\ ring' \in Rings
    BY <1>1, FillMoves, CoreFacts
  <1>5. /\ mem' \in [Direction -> [Buffer -> Message]]
        /\ hand' \in [Core -> Buffer \cup {Nothing}] /\ Hands'
    BY <1>1, <1>3, <1>4, FillValues, CoreFacts
  <1>6. oneways' \in 0 .. Burst
    BY <1>1, RingAssumption DEF Values
  <1>7. Values'
    BY <1>1, <1>2, <1>4, <1>5, <1>6 DEF Values, IpcTypeOK
  <1>8. Boxes'
    BY <1>1 DEF Boxes, Room
  <1> QED BY <1>1, <1>4, <1>5, <1>7, <1>8

LEMMA CreateReplyMoves ==
    ASSUME Values, Hands, Room, CreateReply
    PROVE  /\ Moved("core1", "fresh", "out") /\ Resting("core0")
           /\ Values' /\ Hands' /\ Boxes' /\ UNCHANGED <<bound, ept>>
  <1> DEFINE m == [seq |-> seq["core1"], oneway |-> FALSE]
  <1>1. /\ pc["core1"] = "answer" /\ pc' = [pc EXCEPT !["core1"] = "send"]
        /\ Fill("core1", m)
        /\ UNCHANGED <<word, on, table, isr, ready, link, bound, ept, inbox, seq, oneways>>
    BY DEF CreateReply, At, Goto, ipcvars
  <1>2. m \in Message
    BY CoreFacts DEF Message, Values
  <1> HIDE DEF m
  <1>3. Moved("core1", "fresh", "out") /\ Resting("core0") /\ ring' \in Rings
    BY <1>1, FillMoves, CoreFacts
  <1>4. /\ mem' \in [Direction -> [Buffer -> Message]]
        /\ hand' \in [Core -> Buffer \cup {Nothing}] /\ Hands'
    BY <1>1, <1>2, <1>3, FillValues, CoreFacts
  <1>5. Values'
    BY <1>1, <1>3, <1>4 DEF Values, IpcTypeOK
  <1>6. Boxes'
    BY <1>1 DEF Boxes, Room
  <1> QED BY <1>1, <1>3, <1>4, <1>5, <1>6

LEMMA SendKeeps ==
    ASSUME Values, Hands, Room, NEW c \in Core, Send(c)
    PROVE  Values' /\ Hands' /\ Boxes' /\ UNCHANGED <<bound, ept>>
  <1>1. /\ pc[c] = "send" /\ pc' = [pc EXCEPT ![c] = "kick"]
        /\ UNCHANGED <<word, on, table, isr, ready, link, bound, ept, mem, inbox, hand, seq, oneways>>
    BY DEF Send, At, Goto, ipcvars
  <1>2. ring' \in Rings
    BY SendMoves
  <1>3. Values'
    BY <1>1, <1>2 DEF Values, IpcTypeOK
  <1>4. Hands'
    BY <1>1, CoreFacts DEF Hands, Step, Begin0, Late0, Late1, Early0, Early1, Mid0
  <1>5. Boxes'
    BY <1>1 DEF Boxes, Room
  <1> QED BY <1>1, <1>3, <1>4, <1>5

LEMMA ReceiveKeeps ==
    ASSUME Values, Hands, Room, NEW c \in Core, Receive(c)
    PROVE  Values' /\ Hands' /\ Boxes' /\ UNCHANGED <<bound, ept>>
  <1>1. /\ inbox[c] # <<>> /\ hand' = [hand EXCEPT ![c] = Head(inbox[c])]
        /\ inbox' = [inbox EXCEPT ![c] = Tail(@)]
        /\ pc[c] = IF c = "core0" THEN "receive" ELSE "poll"
        /\ pc' = [pc EXCEPT ![c] = IF c = "core0" THEN "verify" ELSE "process"]
        /\ UNCHANGED <<word, on, table, isr, ready, link, bound, ept, ring, mem, seq, oneways>>
    BY DEF Receive, Take, At, Goto, rings, ipcvars
  <1>2. /\ Head(inbox[c]) \in Buffer /\ Tail(inbox[c]) \in Seq(Buffer)
        /\ Len(Tail(inbox[c])) = Len(inbox[c]) - 1 /\ Len(inbox[c]) \in Nat
    BY <1>1, HeadTailProperties, LenProperties DEF Values
  <1>3. Values'
    BY <1>1, <1>2 DEF Values, IpcTypeOK
  <1>4. Head(inbox[c]) # Nothing
    BY <1>2, NumberAssumption, RingConstants DEF Buffer
  <1>5. Hands'
    BY <1>1, <1>4, CoreFacts DEF Hands, Values, Step, Begin0, Late0, Late1, Early0, Early1, Mid0
  <1>6. Boxes'
    <2> SUFFICES ASSUME NEW e \in Core PROVE Len(inbox'[e]) < N
      BY DEF Boxes
    <2>1. Len(inbox[c]) < N /\ Len(inbox[e]) < N
      BY DEF Room
    <2>2. CASE e = c
      <3>1. inbox'[c] = Tail(inbox[c])
        BY <1>1 DEF Values
      <3> QED BY <1>2, <2>1, <2>2, <3>1, RingConstants
    <2>3. CASE e # c
      BY <1>1, <2>1, <2>3 DEF Values
    <2> QED BY <2>2, <2>3
  <1> QED BY <1>1, <1>3, <1>5, <1>6

LEMMA DisposeKeeps ==
    ASSUME Values, Hands, Room, ring' \in Rings, NEW c \in Core,
           UNCHANGED <<word, on, table, isr, ready, link, bound, ept, mem, inbox, oneways>>,
           pc[c] = IF c = "core0" THEN "verify" ELSE "process",
           hand' = [hand EXCEPT ![c] = Nothing],
           seq' \in [Core -> 0 .. SeqNos - 1],
           NEW p \in IF c = "core0" THEN {"call"} ELSE {"poll", "answer"},
           pc' = [pc EXCEPT ![c] = p]
    PROVE  Values' /\ Hands' /\ Boxes'
  <1>1. Values'
    BY DEF Values, IpcTypeOK
  <1>2. Boxes'
    BY DEF Boxes, Room
  <1>3. Hands'
    BY CoreFacts DEF Hands, Values, Step, Begin0, Late0, Late1, Early0, Early1, Mid0
  <1> QED BY <1>1, <1>2, <1>3

LEMMA VerifyMoves ==
    ASSUME Values, Hands, Room, VerifyReply
    PROVE  /\ Moved("core1", "in", "fresh") /\ Resting("core0")
           /\ Values' /\ Hands' /\ Boxes' /\ UNCHANGED <<bound, ept>>
  <1>1. /\ pc["core0"] = "verify" /\ pc' = [pc EXCEPT !["core0"] = "call"]
        /\ Dispose("core0", hand["core0"]) /\ hand' = [hand EXCEPT !["core0"] = Nothing]
        /\ UNCHANGED <<word, on, table, isr, ready, link, bound, ept, mem, inbox, seq, oneways>>
    BY DEF VerifyReply, At, Goto, ipcvars
  <1>2. Moved("core1", "in", "fresh") /\ Resting("core0") /\ ring' \in Rings
    BY <1>1, DisposeMoves, CoreFacts
  <1>3. seq' \in [Core -> 0 .. SeqNos - 1]
    BY <1>1 DEF Values
  <1> QED BY <1>1, <1>2, <1>3, DisposeKeeps, CoreFacts

LEMMA ProcessMoves ==
    ASSUME Values, Hands, Room, Process
    PROVE  /\ Moved("core0", "in", "fresh") /\ Resting("core1")
           /\ Values' /\ Hands' /\ Boxes' /\ UNCHANGED <<bound, ept>>
  <1> DEFINE m == mem["call"][hand["core1"]]
             p == IF m.oneway THEN "poll" ELSE "answer"
  <1>1. /\ pc["core1"] = "process" /\ pc' = [pc EXCEPT !["core1"] = p]
        /\ seq' = [seq EXCEPT !["core1"] = m.seq]
        /\ Dispose("core1", hand["core1"]) /\ hand' = [hand EXCEPT !["core1"] = Nothing]
        /\ UNCHANGED <<word, on, table, isr, ready, link, bound, ept, mem, inbox, oneways>>
    BY DEF Process, At, Goto, ipcvars
  <1>2. p \in {"poll", "answer"}
    OBVIOUS
  <1>3. Moved("core0", "in", "fresh") /\ Resting("core1") /\ ring' \in Rings
    BY <1>1, <1>2, DisposeMoves, CoreFacts
  <1>4. seq' \in [Core -> 0 .. SeqNos - 1]
    <2>1. hand["core1"] \in Buffer
      BY <1>1, CoreFacts DEF Values, Hands
    <2>2. m \in Message
      BY <2>1, CoreFacts DEF Values
    <2> QED BY <1>1, <2>2 DEF Values, Message
  <1> HIDE DEF p
  <1> QED BY <1>1, <1>2, <1>3, <1>4, DisposeKeeps, CoreFacts

LEMMA DrainKeeps ==
    ASSUME Values, Hands, Room, NEW c \in Core, Drain(c)
    PROVE  Values' /\ Hands' /\ Boxes' /\ UNCHANGED <<pc, hand, bound, ept, mem, seq, oneways>>
  <1> DEFINE f == ring[Receives(c)].filled
             b == First(f)
  <1>1. /\ ~Vacant(f)
        /\ inbox' = IF ept[c] /\ Accepts(inbox[c])
                    THEN [inbox EXCEPT ![c] = Append(@, b)] ELSE inbox
        /\ UNCHANGED <<word, on, table, isr, ready, link, bound, ept, pc, hand, mem, seq, oneways>>
    BY DEF Drain, ipcvars
  <1>2. b \in Buffer
    BY <1>1, RestIs, CoreFacts DEF Values, Rings
  <1>3. inbox[c] \in Seq(Buffer) /\ Append(inbox[c], b) \in Seq(Buffer)
        /\ Len(Append(inbox[c], b)) = Len(inbox[c]) + 1 /\ Len(inbox[c]) \in Nat
    BY <1>2, AppendProperties, LenProperties DEF Values
  <1> HIDE DEF b, f
  <1>4. inbox' \in [Core -> Seq(Buffer)]
    BY <1>1, <1>3 DEF Values
  <1>5. ring' \in Rings
    BY DrainMoves
  <1>6. Values'
    BY <1>1, <1>4, <1>5 DEF Values, IpcTypeOK
  <1>7. Hands'
    BY <1>1 DEF Hands
  <1>8. Boxes'
    <2> SUFFICES ASSUME NEW e \in Core PROVE Len(inbox'[e]) < N
      BY DEF Boxes
    <2>1. Len(inbox[e]) < N
      BY DEF Room
    <2>2. CASE e = c /\ ept[c] /\ Accepts(inbox[c])
      <3>1. inbox'[c] = Append(inbox[c], b)
        BY <1>1, <2>2 DEF Values
      <3> QED BY <1>3, <2>1, <2>2, <3>1, RingConstants DEF Accepts
    <2>3. CASE ~(e = c /\ ept[c] /\ Accepts(inbox[c]))
      <3>1. inbox'[e] = inbox[e]
        BY <1>1, <2>3 DEF Values
      <3> QED BY <2>1, <3>1
    <2> QED BY <2>2, <2>3
  <1> QED BY <1>1, <1>6, <1>7, <1>8

\* Core 0 fills the rings: every buffer is empty and with its sender.
LEMMA OpenFills ==
    ASSUME Kept, Open("core0")
    PROVE  /\ \A c \in Core : Total(c)' = N /\ All(c)' = Buffer
           /\ \A c \in Core, s \in Spot \ {"fresh"} : Hold(c, s)' = <<>>
           /\ Values' /\ Hands' /\ Boxes' /\ bound'["core0"]
           /\ UNCHANGED <<mem, seq, oneways, ept>>
  <1>1. /\ pc["core0"] = "open" /\ pc' = [pc EXCEPT !["core0"] = "unmask"]
        /\ table' = [table EXCEPT !["core0"] = @ \cup {"rpmsg"}]
        /\ on' = [on EXCEPT !["core0"] = FALSE]
        /\ bound' = [bound EXCEPT !["core0"] = TRUE]
        /\ link' = [link EXCEPT !["core0"] = TRUE]
        /\ ring' = [d \in Direction |-> [fresh |-> AllBuffers, filled |-> NoBuffers]]
        /\ UNCHANGED <<word, isr, ready, ept, mem, inbox, hand, seq, oneways>>
    BY DEF Open, At, Goto, Register, DisableEvents
  <1>2. ring' \in Rings
    BY <1>1, NewRings DEF Rings
  <1>3. Values'
    BY <1>1, <1>2, CoreFacts DEF Kept, Values, IpcTypeOK, Type
  <1>4. Hands'
    BY <1>1, CoreFacts DEF Kept, Hands, Step, Begin0, Late0, Late1, Early0, Early1, Mid0
  <1>5. Boxes' /\ bound'["core0"]
    BY <1>1, CoreFacts DEF Kept, Boxes, Room, Values
  <1>6. \A c \in Core, s \in Spot : Hold(c, s) = <<>>
    BY <1>1 DEF Kept, Opened
  <1>7. \A c \in Core : ring'[Sends(c)].fresh = AllBuffers /\ ring'[Sends(c)].filled = NoBuffers
    BY <1>1, CoreFacts
  <1>8. ASSUME NEW c \in Core
        PROVE  /\ Hold(c, "fresh")' = Listed(AllBuffers)
               /\ Hold(c, "filled")' = <<>> /\ Hold(c, "box")' = <<>>
               /\ Hold(c, "out")' = <<>> /\ Hold(c, "in")' = <<>>
    <2>1. Hold(c, "fresh")' = Listed(AllBuffers) /\ Hold(c, "filled")' = <<>>
      BY <1>7, HoldIsNext, NewRings
    <2>2. Hold(c, "box")' = Hold(c, "box")
      BY <1>1, HoldIs, HoldIsNext
    <2>3. pc'[c] = "send" <=> pc[c] = "send"
      BY <1>1 DEF Kept, Hands
    <2>4. pc'[Peer(c)] \in {"process", "verify"} <=> pc[Peer(c)] \in {"process", "verify"}
      BY <1>1, CoreFacts DEF Kept, Hands
    <2>5. Hold(c, "out")' = Hold(c, "out") /\ Hold(c, "in")' = Hold(c, "in")
      BY <1>1, <2>3, <2>4, HoldIs, HoldIsNext
    <2> QED BY <1>6, <2>1, <2>2, <2>5 DEF Spot
  <1>9. \A c \in Core, s \in Spot \ {"fresh"} : Hold(c, s)' = <<>>
    BY <1>8 DEF Spot
  <1>10. ASSUME NEW c \in Core PROVE Total(c)' = N
    <2>1. Total(c)' = Len(Hold(c, "fresh")') + (Len(Hold(c, "filled")') + (Len(Hold(c, "box")')
                       + (Len(Hold(c, "out")') + Len(Hold(c, "in")'))))
      BY DEF Total
    <2>2. Len(Listed(AllBuffers)) = N /\ Len(<<>>) = 0
      BY NewRings
    <2> QED BY <1>8, <2>1, <2>2, RingConstants
  <1>11. ASSUME NEW c \in Core PROVE All(c)' = Buffer
    <2>1. All(c)' = UNION {ToSet(Hold(c, s)') : s \in Spot}
      BY DEF All
    <2>2. ToSet(<<>>) = {} /\ ToSet(Listed(AllBuffers)) = Buffer
      BY NewRings DEF ToSet
    <2>3. \A s \in Spot : ToSet(Hold(c, s)') = IF s = "fresh" THEN Buffer ELSE {}
      BY <1>8, <2>2 DEF Spot
    <2> QED BY <2>1, <2>3 DEF Spot
  <1> QED BY <1>1, <1>3, <1>4, <1>5, <1>9, <1>10, <1>11

\* What any other step does to the buffers of a direction.
Flow(c) ==
    \/ Resting(c)
    \/ \E s \in Spot, t \in Spot : s # t /\ Moved(c, s, t)
    \/ Lost(c, "filled")

\* The steps of the talk and of the handler that reads messages.
Works(c) ==
    \/ Send(c) \/ Receive(c) \/ Drain(c)
    \/ VerifyReply /\ c = "core0"
    \/ (Process \/ CreateReply) /\ c = "core1"
    \/ c = "core0" /\ \E oneway \in BOOLEAN : CreateRequest(oneway)

LEMMA WorkFlows ==
    ASSUME Values, Hands, Room, NEW c \in Core, Works(c)
    PROVE  /\ Values' /\ Hands' /\ Boxes' /\ UNCHANGED <<bound, ept>>
           /\ \A e \in Core : pc'[e] = pc[e] \/ {pc[e], pc'[e]} \subseteq Late0 \cup Late1
           /\ \A e \in Core : Flow(e)
  <1> USE CoreFacts
  <1>1. CASE Send(c)
    <2>1. \A e \in Core : pc'[e] = pc[e] \/ {pc[e], pc'[e]} \subseteq Late0 \cup Late1
      BY <1>1 DEF Send, At, Goto, Hands, Late0, Late1
    <2> QED BY <1>1, <2>1, SendMoves, SendKeeps DEF Flow, Spot, Late0
  <1>2. CASE Receive(c)
    <2>1. \A e \in Core : pc'[e] = pc[e] \/ {pc[e], pc'[e]} \subseteq Late0 \cup Late1
      BY <1>2 DEF Receive, At, Goto, Hands, Late0, Late1
    <2> QED BY <1>2, <2>1, ReceiveMoves, ReceiveKeeps DEF Flow, Spot, Late0, Late1
  <1>3. CASE Drain(c)
    BY <1>3, DrainMoves, DrainKeeps DEF Flow, Spot
  <1>4. CASE VerifyReply /\ c = "core0"
    <2>1. \A e \in Core : pc'[e] = pc[e] \/ {pc[e], pc'[e]} \subseteq Late0 \cup Late1
      BY <1>4 DEF VerifyReply, At, Goto, Hands, Late0, Late1
    <2> QED BY <1>4, <2>1, VerifyMoves DEF Flow, Spot, Late0
  <1>5. CASE Process /\ c = "core1"
    <2>1. \A e \in Core : pc'[e] = pc[e] \/ {pc[e], pc'[e]} \subseteq Late0 \cup Late1
      BY <1>5 DEF Process, At, Goto, Hands, Late0, Late1
    <2> QED BY <1>5, <2>1, ProcessMoves DEF Flow, Spot, Late1
  <1>6. CASE CreateReply /\ c = "core1"
    <2>1. \A e \in Core : pc'[e] = pc[e] \/ {pc[e], pc'[e]} \subseteq Late0 \cup Late1
      BY <1>6 DEF CreateReply, At, Goto, Hands, Late0, Late1
    <2> QED BY <1>6, <2>1, CreateReplyMoves DEF Flow, Spot, Late1
  <1>7. ASSUME NEW oneway \in BOOLEAN, CreateRequest(oneway), c = "core0"
        PROVE  /\ Values' /\ Hands' /\ Boxes' /\ UNCHANGED <<bound, ept>>
               /\ \A e \in Core : pc'[e] = pc[e] \/ {pc[e], pc'[e]} \subseteq Late0 \cup Late1
               /\ \A e \in Core : Flow(e)
    <2>1. \A e \in Core : pc'[e] = pc[e] \/ {pc[e], pc'[e]} \subseteq Late0 \cup Late1
      BY <1>7 DEF CreateRequest, At, Goto, Hands, Late0, Late1
    <2> QED BY <1>7, <2>1, CreateRequestMoves DEF Flow, Spot, Late0
  <1> QED BY <1>1, <1>2, <1>3, <1>4, <1>5, <1>6, <1>7 DEF Works

\* Every step of the system is one of these.
LEMMA StepKinds ==
    ASSUME Next
    PROVE  \E c \in Core : \/ Setup(c) \/ Works(c) \/ KickPeer(c)
                           \/ Open(c) /\ c = "core0"
                           \/ Interrupt(c) \/ Note(c) \/ Drained(c)
  <1>1. ASSUME NEW c \in Core, Main(c) \/ Isr(c)
        PROVE  \/ Setup(c) \/ Works(c) \/ KickPeer(c)
               \/ Open(c) /\ c = "core0"
               \/ Interrupt(c) \/ Note(c) \/ Drained(c)
    BY <1>1, CoreFacts DEF Main, Isr, Start, Talk, Client, Server, Setup, Works
  <1>2. ASSUME NEW oneway \in BOOLEAN, CreateRequest(oneway) PROVE Works("core0")
    BY <1>2 DEF Works
  <1> QED BY <1>1, <1>2, CoreFacts DEF Next

LEMMA FlowRoom ==
    ASSUME Values, Hands, NEW c \in Core, Total(c) <= N, Flow(c)
    PROVE  Total(c)' <= N
  <1>1. \A u \in Spot : Hold(c, u) \in Seq(Buffer)
    BY HoldType
  <1>2. Total(c) \in Nat
    BY <1>1, LenProperties DEF Total, Spot
  <1>3. CASE Resting(c) \/ \E s \in Spot, t \in Spot : s # t /\ Moved(c, s, t)
    BY <1>1, <1>3, RestingKeeps, MovedKeeps
  <1>4. CASE Lost(c, "filled")
    <2>1. Total(c)' <= Total(c)
      BY <1>1, <1>4, LostLess DEF Spot
    <2>2. Total(c)' \in Nat
      <3>1. \A u \in Spot : Hold(c, u)' \in Seq(Buffer)
        BY <1>1, <1>4, HeadTailProperties DEF Lost
      <3> QED BY <3>1, LenProperties DEF Total, Spot
    <2> QED BY <1>2, <2>1, <2>2, RingConstants
  <1> QED BY <1>3, <1>4 DEF Flow

LEMMA FlowEmpty ==
    ASSUME NEW c \in Core, \A s \in Spot : Hold(c, s) = <<>>, Flow(c)
    PROVE  \A s \in Spot : Hold(c, s)' = <<>>
  BY DEF Flow, Resting, Moved, Lost, Spot

LEMMA SetupOpened ==
    ASSUME Values, Hands, Opened, NEW c \in Core, Setup(c)
    PROVE  /\ bound'["core0"] = bound["core0"]
           /\ bound["core0"] <=> pc'["core0"] \notin Begin0 \cup {"wait", "open"}
  <1> USE CoreFacts DEF At, Goto, Begin0, Opened
  <1>1. bound'["core0"] = bound["core0"]
    BY DEF Setup, Enable, Unmask, Announce, CreateEndpoint, Open, RegisterStart, Release,
           WaitReady, PrintMatrices, WaitLink, Values
  <1>2. CASE Enable(c) \/ Unmask(c) \/ Announce(c) \/ CreateEndpoint(c)
    BY <1>1, <1>2 DEF Enable, Unmask, Announce, CreateEndpoint, Hands
  <1>3. CASE Open(c) /\ c = "core1"
    BY <1>1, <1>3 DEF Open, Hands
  <1>4. CASE RegisterStart \/ Release
    BY <1>1, <1>4 DEF RegisterStart, Release, Hands
  <1>5. CASE WaitReady \/ PrintMatrices
    BY <1>1, <1>5 DEF WaitReady, PrintMatrices, Hands
  <1>6. CASE WaitLink
    BY <1>1, <1>6 DEF WaitLink, Hands
  <1> QED BY <1>1, <1>2, <1>3, <1>4, <1>5, <1>6 DEF Setup

LEMMA StepKept ==
    ASSUME Kept, [Next]_vars
    PROVE  Kept'
  <1> USE DEF Kept
  <1>1. ASSUME Values', Hands', Boxes', \A e \in Core : Flow(e),
               bound'["core0"] = bound["core0"],
               bound["core0"] <=> pc'["core0"] \notin Begin0 \cup {"wait", "open"}
        PROVE  Kept'
    <2>1. Opened'
      <3>1. ~bound["core0"] => \A c \in Core, s \in Spot : Hold(c, s)' = <<>>
        BY <1>1, FlowEmpty DEF Opened
      <3> QED BY <1>1, <3>1 DEF Opened
    <2>2. Room'
      <3>1. \A c \in Core : Total(c)' <= N
        BY <1>1, FlowRoom DEF Room
      <3> QED BY <1>1, <3>1 DEF Room, Boxes
    <2> QED BY <1>1, <2>1, <2>2
  <1>2. ASSUME NEW c \in Core, Setup(c) PROVE Kept'
    <2>1. Boxes'
      BY <1>2, SetupStill DEF Still, Boxes, Room
    <2>2. \A e \in Core : Flow(e)
      BY <1>2, SetupStill DEF Flow
    <2> QED BY <1>1, <1>2, <2>1, <2>2, SetupStill, SetupOpened
  <1>3. ASSUME NEW c \in Core, Works(c) PROVE Kept'
    <2>1. /\ Values' /\ Hands' /\ Boxes' /\ UNCHANGED bound
          /\ \A e \in Core : pc'[e] = pc[e] \/ {pc[e], pc'[e]} \subseteq Late0 \cup Late1
          /\ \A e \in Core : Flow(e)
      BY <1>3, WorkFlows
    <2>2. bound["core0"] <=> pc'["core0"] \notin Begin0 \cup {"wait", "open"}
      BY <2>1, CoreFacts DEF Opened, Begin0, Late0, Late1
    <2> QED BY <1>1, <2>1, <2>2
  <1>4. ASSUME NEW c \in Core, KickPeer(c) PROVE Kept'
    <2>1. /\ UNCHANGED <<bound, inbox>> /\ Values' /\ Hands' /\ \A e \in Core : Resting(e)
      BY <1>4, KickStill
    <2>2. bound["core0"] <=> pc'["core0"] \notin Begin0 \cup {"wait", "open"}
      BY <1>4, CoreFacts DEF KickPeer, At, Goto, Hands, Opened, Begin0
    <2>3. Boxes' /\ \A e \in Core : Flow(e)
      BY <2>1 DEF Boxes, Room, Flow
    <2> QED BY <1>1, <2>1, <2>2, <2>3
  <1>5. ASSUME Open("core0") PROVE Kept'
    <2>1. /\ Values' /\ Hands' /\ Boxes' /\ bound'["core0"] /\ \A c \in Core : Total(c)' = N
      BY <1>5, OpenFills
    <2>2. pc'["core0"] = "unmask"
      BY <1>5, CoreFacts DEF Open, Goto, Hands
    <2>3. Opened'
      BY <2>1, <2>2 DEF Opened, Begin0
    <2>4. Room'
      BY <2>1, RingConstants DEF Room, Boxes
    <2> QED BY <2>1, <2>3, <2>4
  <1>6. ASSUME NEW c \in Core, Interrupt(c) \/ Note(c) \/ Drained(c) PROVE Kept'
    <2>1. /\ UNCHANGED <<pc, bound, inbox>> /\ Values' /\ Hands' /\ \A e \in Core : Resting(e)
      BY <1>6, HandlerStill DEF Still
    <2>2. Boxes' /\ \A e \in Core : Flow(e)
      BY <2>1 DEF Boxes, Room, Flow
    <2> QED BY <1>1, <2>1, <2>2 DEF Opened
  <1>7. ASSUME UNCHANGED vars PROVE Kept'
    <2>1. Values' /\ Hands' /\ UNCHANGED <<pc, ring, inbox, hand, bound>>
      BY <1>7 DEF vars, rings, ipcvars, Values, Hands, IpcTypeOK
    <2>2. \A e \in Core : Flow(e)
      BY <2>1, SameHold DEF Flow
    <2>3. Boxes'
      BY <2>1 DEF Boxes, Room
    <2> QED BY <1>1, <2>1, <2>2, <2>3 DEF Opened
  <1> QED BY <1>2, <1>3, <1>4, <1>5, <1>6, <1>7, StepKinds

LEMMA InitKept == Init => Kept
  <1> SUFFICES ASSUME Init PROVE Kept
    OBVIOUS
  <1> USE CoreFacts
  <1>1. /\ word \in [Core -> Event \cup {Nothing}] /\ on \in [Core -> BOOLEAN]
        /\ table \in [Core -> SUBSET Type]
    BY DEF Init, IpcInit
  <1>2. ring \in Rings /\ \A d \in Direction : ring[d].fresh = NoBuffers /\ ring[d].filled = NoBuffers
    BY NewRings DEF Init, Rings
  <1>3. \A c \in Core : /\ inbox[c] = <<>> /\ hand[c] = Nothing /\ ~bound[c]
                        /\ pc[c] = IF c = "core0" THEN "enable" ELSE "held"
    BY DEF Init
  <1>4. Values
    <2>1. mem \in [Direction -> [Buffer -> Message]]
      BY RingAssumption DEF Init, Message
    <2>2. seq \in [Core -> 0 .. SeqNos - 1] /\ oneways \in 0 .. Burst
      BY RingAssumption DEF Init
    <2>3. /\ inbox \in [Core -> Seq(Buffer)] /\ hand \in [Core -> Buffer \cup {Nothing}]
          /\ isr \in [Core -> Event \cup {Nothing}] /\ ready \in BOOLEAN
          /\ link \in [Core -> BOOLEAN] /\ bound \in [Core -> BOOLEAN] /\ ept \in [Core -> BOOLEAN]
      <3>1. <<>> \in Seq(Buffer)
        OBVIOUS
      <3> QED BY <3>1 DEF Init
    <2> QED BY <1>1, <1>2, <2>1, <2>2, <2>3 DEF Values, IpcTypeOK
  <1>5. Hands
    <2>1. pc \in [Core -> Step]
      BY DEF Init, Step, Early0, Begin0, Early1
    <2> QED BY <1>3, <2>1 DEF Hands, Early0, Begin0, Early1
  <1>6. \A c \in Core, s \in Spot : Hold(c, s) = <<>>
    BY <1>2, <1>3, NewRings, HoldIs DEF Spot
  <1>7. Opened
    BY <1>3, <1>6 DEF Opened, Begin0
  <1>8. Room
    <2>1. Len(<<>>) = 0
      OBVIOUS
    <2>2. \A c \in Core : Total(c) = 0
      BY <1>6, <2>1 DEF Total, Spot
    <2> QED BY <1>3, <2>1, <2>2, RingConstants DEF Room
  <1> QED BY <1>4, <1>5, <1>7, <1>8 DEF Kept

\* The variables keep their types and no ring or inbox ever holds more than
\* it has room for, even when the client calls too early or too often: a
\* full inbox loses its message, and what is lost leaves room
\* (erpc_rpmsg_lite_transport.cpp rpmsg_read_cb, virtqueue.c).
THEOREM TypeCorrect == Spec => []TypeOK
  <1>1. Kept => TypeOK
    <2> SUFFICES ASSUME Kept PROVE TypeOK
      OBVIOUS
    <2> USE DEF Kept
    <2>1. ASSUME NEW c \in Core
          PROVE  Len(Listed(ring[Sends(c)].fresh)) <= N /\ Len(Listed(ring[Sends(c)].filled)) <= N
      <3>1. \A s \in Spot : Len(Hold(c, s)) \in Nat
        BY HoldType, LenProperties
      <3>2. Total(c) <= N
        BY DEF Room
      <3>3. Len(Hold(c, "fresh")) <= N /\ Len(Hold(c, "filled")) <= N
        BY <3>1, <3>2, RingConstants DEF Total, Spot
      <3> QED BY <3>3, HoldIs
    <2>2. ASSUME NEW d \in Direction, NEW k \in {"fresh", "filled"}
          PROVE  Len(Listed(ring[d][k])) <= N
      BY <2>1, CoreFacts
    <2>3. \A c \in Core : inbox[c] \in Seq(Buffer) /\ Len(inbox[c]) < N
      BY DEF Values, Room
    <2> QED BY <2>2, <2>3 DEF TypeOK, Values, Rings
  <1> QED BY <1>1, InitKept, StepKept, PTL DEF Spec
-----------------------------------------------------------------------------
LEMMA ElementsOfConcat ==
    ASSUME NEW B, NEW s \in Seq(B), NEW t \in Seq(B)
    PROVE  /\ s \o t \in Seq(B) /\ Len(s \o t) = Len(s) + Len(t)
           /\ ToSet(s \o t) = ToSet(s) \cup ToSet(t)
  <1>1. /\ s \o t \in Seq(B) /\ Len(s \o t) = Len(s) + Len(t)
        /\ \A i \in 1 .. Len(s) + Len(t) : (s \o t)[i] = IF i <= Len(s) THEN s[i] ELSE t[i - Len(s)]
        /\ Len(s) \in Nat /\ Len(t) \in Nat
    BY ConcatProperties, LenProperties
  <1>2. /\ ToSet(s) = {s[i] : i \in 1 .. Len(s)} /\ ToSet(t) = {t[i] : i \in 1 .. Len(t)}
        /\ ToSet(s \o t) = {(s \o t)[i] : i \in 1 .. Len(s) + Len(t)}
    BY <1>1, LenProperties DEF ToSet
  <1>3. ASSUME NEW x \in ToSet(s \o t) PROVE x \in ToSet(s) \cup ToSet(t)
    <2>1. PICK i \in 1 .. Len(s) + Len(t) : x = (s \o t)[i]
      BY <1>2
    <2>2. CASE i <= Len(s)
      BY <1>1, <1>2, <2>1, <2>2
    <2>3. CASE i > Len(s)
      <3>1. i - Len(s) \in 1 .. Len(t) /\ x = t[i - Len(s)]
        BY <1>1, <2>1, <2>3
      <3> QED BY <1>2, <3>1
    <2> QED BY <1>1, <2>2, <2>3
  <1>4. ASSUME NEW x \in ToSet(s) PROVE x \in ToSet(s \o t)
    <2>1. PICK i \in 1 .. Len(s) : x = s[i]
      BY <1>2
    <2>2. i \in 1 .. Len(s) + Len(t) /\ x = (s \o t)[i]
      BY <1>1, <2>1
    <2> QED BY <1>2, <2>2
  <1>5. ASSUME NEW x \in ToSet(t) PROVE x \in ToSet(s \o t)
    <2>1. PICK i \in 1 .. Len(t) : x = t[i]
      BY <1>2
    <2>2. PICK j \in 1 .. Len(s) + Len(t) : j = i + Len(s)
      BY <1>1
    <2>3. ~(j <= Len(s)) /\ j - Len(s) = i
      BY <1>1, <2>2
    <2>4. x = (s \o t)[j]
      BY <1>1, <2>1, <2>3
    <2> QED BY <1>2, <2>4
  <1> QED BY <1>1, <1>3, <1>4, <1>5

LEMMA FewElements ==
    ASSUME NEW B, NEW s \in Seq(B)
    PROVE  IsFiniteSet(ToSet(s)) /\ Cardinality(ToSet(s)) <= Len(s)
  <1>1. Len(s) \in Nat /\ DOMAIN s = 1 .. Len(s)
    BY LenProperties
  <1>2. IsFiniteSet(1 .. Len(s)) /\ Cardinality(1 .. Len(s)) = Len(s)
    <2>1. PICK n : n = Len(s) /\ n \in Nat
      BY <1>1
    <2>2. IsFiniteSet(1 .. n) /\ Cardinality(1 .. n) = n
      <3>1. n \in Int /\ 1 \in Int /\ (IF 1 > n THEN 0 ELSE n - 1 + 1) = n
        BY ONLY <2>1
      <3> QED BY ONLY <3>1, FS_Interval
    <2> QED BY ONLY <2>1, <2>2
  <1>3. s \in Surjection(1 .. Len(s), ToSet(s))
    BY <1>1 DEF ToSet, Surjection
  <1> QED BY <1>2, <1>3, FS_Surjection

LEMMA BufferCount == IsFiniteSet(Buffer) /\ Cardinality(Buffer) = N
  <1>1. 0 \in Int /\ N - 1 \in Int /\ Buffer = 0 .. N - 1 /\ ~(0 > N - 1)
    BY RingConstants DEF Buffer
  <1>2. IsFiniteSet(0 .. N - 1) /\ Cardinality(0 .. N - 1) = (N - 1) - 0 + 1
    BY <1>1, FS_Interval
  <1> QED BY <1>1, <1>2, RingConstants

\* Five lists in one.
LEMMA LineIs ==
    ASSUME NEW f \in Seq(Buffer), NEW g \in Seq(Buffer), NEW h \in Seq(Buffer),
           NEW j \in Seq(Buffer), NEW k \in Seq(Buffer)
    PROVE  /\ f \o g \o h \o j \o k \in Seq(Buffer)
           /\ Len(f \o g \o h \o j \o k) = Len(f) + (Len(g) + (Len(h) + (Len(j) + Len(k))))
           /\ ToSet(f \o g \o h \o j \o k)
                = ToSet(f) \cup ToSet(g) \cup ToSet(h) \cup ToSet(j) \cup ToSet(k)
  <1>1. PICK u \in Seq(Buffer) : u = f \o g /\ Len(u) = Len(f) + Len(g)
                                 /\ ToSet(u) = ToSet(f) \cup ToSet(g)
    <2>1. /\ f \o g \in Seq(Buffer) /\ Len(f \o g) = Len(f) + Len(g)
          /\ ToSet(f \o g) = ToSet(f) \cup ToSet(g)
      BY ElementsOfConcat
    <2> QED BY <2>1
  <1>2. PICK v \in Seq(Buffer) : v = u \o h /\ Len(v) = Len(u) + Len(h)
                                 /\ ToSet(v) = ToSet(u) \cup ToSet(h)
    <2>1. /\ u \o h \in Seq(Buffer) /\ Len(u \o h) = Len(u) + Len(h)
          /\ ToSet(u \o h) = ToSet(u) \cup ToSet(h)
      BY ElementsOfConcat
    <2> QED BY <2>1
  <1>3. PICK w \in Seq(Buffer) : w = v \o j /\ Len(w) = Len(v) + Len(j)
                                 /\ ToSet(w) = ToSet(v) \cup ToSet(j)
    <2>1. /\ v \o j \in Seq(Buffer) /\ Len(v \o j) = Len(v) + Len(j)
          /\ ToSet(v \o j) = ToSet(v) \cup ToSet(j)
      BY ElementsOfConcat
    <2> QED BY <2>1
  <1>4. PICK x \in Seq(Buffer) : x = w \o k /\ Len(x) = Len(w) + Len(k)
                                 /\ ToSet(x) = ToSet(w) \cup ToSet(k)
    <2>1. /\ w \o k \in Seq(Buffer) /\ Len(w \o k) = Len(w) + Len(k)
          /\ ToSet(w \o k) = ToSet(w) \cup ToSet(k)
      BY ElementsOfConcat
    <2> QED BY <2>1
  <1>5. Len(f) \in Nat /\ Len(g) \in Nat /\ Len(h) \in Nat /\ Len(j) \in Nat /\ Len(k) \in Nat
    BY LenProperties
  <1>6. Len(x) = Len(f) + (Len(g) + (Len(h) + (Len(j) + Len(k))))
    BY ONLY <1>1, <1>2, <1>3, <1>4, <1>5
  <1>7. ToSet(x) = ToSet(f) \cup ToSet(g) \cup ToSet(h) \cup ToSet(j) \cup ToSet(k)
    BY ONLY <1>1, <1>2, <1>3, <1>4
  <1>8. x = f \o g \o h \o j \o k
    BY ONLY <1>1, <1>2, <1>3, <1>4
  <1> QED BY <1>6, <1>7, <1>8

\* When no buffer is missing, none is in two places: an empty one that is
\* taken is not also on its way with a message.
LEMMA NotInTwoPlaces ==
    ASSUME Values, Hands, NEW c \in Core, Total(c) = N, All(c) = Buffer,
           Hold(c, "fresh") # <<>>, NEW s \in Spot \ {"fresh"}
    PROVE  Head(Hold(c, "fresh")) \notin ToSet(Hold(c, s))
  <1> SUFFICES ASSUME Head(Hold(c, "fresh")) \in ToSet(Hold(c, s)) PROVE FALSE
    OBVIOUS
  <1> DEFINE b == Head(Hold(c, "fresh"))
             t == Tail(Hold(c, "fresh"))
             q == t \o Hold(c, "filled") \o Hold(c, "box") \o Hold(c, "out") \o Hold(c, "in")
  <1>1. \A u \in Spot : Hold(c, u) \in Seq(Buffer) /\ Len(Hold(c, u)) \in Nat
    BY HoldType, LenProperties
  <1>2. /\ t \in Seq(Buffer) /\ Len(t) = Len(Hold(c, "fresh")) - 1 /\ Len(t) \in Nat
        /\ ToSet(Hold(c, "fresh")) = {b} \cup ToSet(t)
    BY <1>1, HeadTailProperties, ElementsOfTail, LenProperties DEF Spot
  <1>3. /\ q \in Seq(Buffer)
        /\ Len(q) = Len(t) + (Len(Hold(c, "filled")) + (Len(Hold(c, "box"))
                      + (Len(Hold(c, "out")) + Len(Hold(c, "in")))))
        /\ ToSet(q) = ToSet(t) \cup ToSet(Hold(c, "filled")) \cup ToSet(Hold(c, "box"))
                        \cup ToSet(Hold(c, "out")) \cup ToSet(Hold(c, "in"))
    <2> HIDE DEF t, b
    <2>1. PICK g \in Seq(Buffer), h \in Seq(Buffer), j \in Seq(Buffer), k \in Seq(Buffer) :
              /\ g = Hold(c, "filled") /\ h = Hold(c, "box")
              /\ j = Hold(c, "out") /\ k = Hold(c, "in")
      BY <1>1 DEF Spot
    <2>2. /\ t \o g \o h \o j \o k \in Seq(Buffer)
          /\ Len(t \o g \o h \o j \o k) = Len(t) + (Len(g) + (Len(h) + (Len(j) + Len(k))))
          /\ ToSet(t \o g \o h \o j \o k)
               = ToSet(t) \cup ToSet(g) \cup ToSet(h) \cup ToSet(j) \cup ToSet(k)
      <3>1. t \in Seq(Buffer)
        BY <1>2
      <3> QED BY ONLY <3>1, g \in Seq(Buffer), h \in Seq(Buffer), j \in Seq(Buffer),
                      k \in Seq(Buffer), LineIs, SMTT(30)
    <2> QED BY <2>1, <2>2
  <1>4. Len(q) = N - 1
    BY <1>1, <1>2, <1>3, RingConstants DEF Total, Spot
  <1>5. ToSet(q) = Buffer
    <2>1. Buffer = ToSet(Hold(c, "fresh")) \cup ToSet(Hold(c, "filled")) \cup ToSet(Hold(c, "box"))
                     \cup ToSet(Hold(c, "out")) \cup ToSet(Hold(c, "in"))
      BY DEF All, Spot
    <2>2. ToSet(Hold(c, s)) \subseteq ToSet(q)
      BY <1>3 DEF Spot
    <2> QED BY <1>2, <1>3, <2>1, <2>2
  <1>6. Cardinality(Buffer) <= N - 1
    BY <1>3, <1>4, <1>5, FewElements
  <1> QED BY <1>6, BufferCount, RingConstants

Whole == bound["core0"] => \A c \in Core : Total(c) = N /\ All(c) = Buffer

LEMMA PlacesIs ==
    ASSUME Values, Hands, Whole
    PROVE  BuffersOnce
  <1> SUFFICES ASSUME bound["core0"], NEW c \in Core
               PROVE  /\ Len(Places(Sends(c))) = N /\ ToSet(Places(Sends(c))) = Buffer
    BY CoreFacts DEF BuffersOnce
  <1>1. (CHOOSE e \in Core : Receives(e) = Sends(c)) = Peer(c)
    BY CoreFacts
  <1>2. HandOf(Peer(c), Sends(c)) = Hold(c, "in")
    BY CoreFacts, HoldIs DEF HandOf, Held, Hands, Step, Early0, Begin0, Mid0, Late0, Early1, Late1
  <1>3. HandOf(c, Sends(c)) = Hold(c, "out")
    BY CoreFacts, HoldIs DEF HandOf, Held, Hands
  <1>4. Places(Sends(c)) = Hold(c, "fresh") \o Hold(c, "filled") \o Hold(c, "box")
                             \o Hold(c, "in") \o Hold(c, "out")
    <2>1. Places(Sends(c)) = Listed(ring[Sends(c)].fresh) \o Listed(ring[Sends(c)].filled)
              \o inbox[Peer(c)] \o HandOf(Peer(c), Sends(c)) \o HandOf(Peer(Peer(c)), Sends(c))
      BY <1>1, Zenon DEF Places
    <2>2. /\ Peer(Peer(c)) = c /\ Hold(c, "fresh") = Listed(ring[Sends(c)].fresh)
          /\ Hold(c, "filled") = Listed(ring[Sends(c)].filled) /\ Hold(c, "box") = inbox[Peer(c)]
      BY CoreFacts, HoldIs
    <2> QED BY ONLY <1>2, <1>3, <2>1, <2>2
  <1>5. \A u \in Spot : Hold(c, u) \in Seq(Buffer) /\ Len(Hold(c, u)) \in Nat
    BY HoldType, LenProperties
  <1>6. /\ Len(Places(Sends(c))) = Len(Hold(c, "fresh")) + (Len(Hold(c, "filled"))
              + (Len(Hold(c, "box")) + (Len(Hold(c, "in")) + Len(Hold(c, "out")))))
        /\ ToSet(Places(Sends(c))) = ToSet(Hold(c, "fresh")) \cup ToSet(Hold(c, "filled"))
              \cup ToSet(Hold(c, "box")) \cup ToSet(Hold(c, "in")) \cup ToSet(Hold(c, "out"))
    BY <1>4, <1>5, LineIs DEF Spot
  <1>7. Len(Places(Sends(c))) = Total(c)
    BY <1>5, <1>6 DEF Total, Spot
  <1>8. ToSet(Places(Sends(c))) = All(c)
    BY <1>6 DEF All, Spot
  <1> QED BY <1>7, <1>8 DEF Whole
-----------------------------------------------------------------------------
(* The messages on their way, oldest first: the one the receiver works on, *)
(* those in its inbox and those on the ring.                               *)
Flight(c) == Hold(c, "in") \o Hold(c, "box") \o Hold(c, "filled")

LEMMA Single ==
    ASSUME NEW B, NEW x \in B
    PROVE  <<x>> \in Seq(B) /\ Len(<<x>>) = 1 /\ <<x>>[1] = x
  OBVIOUS

LEMMA HeadThenTail ==
    ASSUME NEW B, NEW s \in Seq(B), s # <<>>
    PROVE  s = <<Head(s)>> \o Tail(s)
  <1>1. /\ Head(s) \in B /\ Tail(s) \in Seq(B) /\ Len(Tail(s)) = Len(s) - 1 /\ Head(s) = s[1]
        /\ \A i \in 1 .. Len(Tail(s)) : Tail(s)[i] = s[i + 1]
        /\ Len(s) \in Nat \ {0}
    BY HeadTailProperties, LenProperties, EmptySeq
  <1>2. PICK h \in Seq(B), t \in Seq(B) : h = <<Head(s)>> /\ Len(h) = 1 /\ h[1] = s[1] /\ t = Tail(s)
    BY <1>1, Single
  <1>3. /\ h \o t \in Seq(B) /\ Len(h \o t) = Len(h) + Len(t)
        /\ \A i \in 1 .. 1 + Len(t) : (h \o t)[i] = IF i <= 1 THEN h[i] ELSE t[i - 1]
    BY <1>2, ConcatProperties
  <1>4. ASSUME NEW i \in 1 .. Len(s) PROVE (h \o t)[i] = s[i]
    <2>1. i \in 1 .. 1 + Len(t) /\ Len(t) \in Nat
      BY <1>1, <1>2
    <2>4. (h \o t)[i] = IF i <= 1 THEN h[i] ELSE t[i - 1]
      BY <1>3, <2>1
    <2>2. CASE i = 1
      BY <1>2, <2>2, <2>4
    <2>3. CASE i > 1
      <3>1. PICK j \in 1 .. Len(t) : i = j + 1
        BY <1>1, <1>2, <2>3
      <3>2. ~(i <= 1) /\ i - 1 = j
        BY <3>1
      <3>3. t[j] = s[j + 1]
        BY <1>1, <1>2, <3>1
      <3>4. (h \o t)[i] = t[j]
        BY <2>4, <3>2, Zenon
      <3> QED BY ONLY <3>1, <3>3, <3>4
    <2>5. i = 1 \/ i > 1
      BY <1>1
    <2> QED BY <2>2, <2>3, <2>5, Zenon
  <1>5. Len(h \o t) = Len(s)
    BY <1>1, <1>2, <1>3
  <1>6. h \o t = s
    BY <1>3, <1>4, <1>5, SeqEqual
  <1> QED BY <1>2, <1>6

\* Concatenation under a name of its own, for the provers to leave alone.
Join(s, t) == s \o t

LEMMA JoinAssociative ==
    ASSUME NEW B, NEW c \in Seq(B), NEW h \in Seq(B), NEW w \in Seq(B)
    PROVE  Join(Join(c, h), w) = Join(c, Join(h, w))
  BY ConcatAssociative DEF Join

\* Three lists in a row, when an element moves on.
LEMMA PassingOn ==
    ASSUME NEW p \in Seq(Buffer), NEW q \in Seq(Buffer), NEW r \in Seq(Buffer), r # <<>>
    PROVE  (p \o Append(q, Head(r))) \o Tail(r) = (p \o q) \o r
  <1>1. PICK x \in Buffer, w \in Seq(Buffer) : x = Head(r) /\ w = Tail(r)
    BY HeadTailProperties
  <1>2. PICK h \in Seq(Buffer) : h = <<x>>
    BY Single
  <1>3. r = h \o w
    BY <1>1, <1>2, HeadThenTail
  <1>4. Append(q, x) = q \o h
    BY <1>1, <1>2, AppendIsConcat
  <1>5. PICK c \in Seq(Buffer) : c = p \o q
    BY ConcatProperties
  <1>6. Join(Join(c, h), w) = Join(c, Join(h, w))
    BY JoinAssociative
  <1>7. Join(Join(p, q), h) = Join(p, Join(q, h))
    BY JoinAssociative
  <1> QED BY ONLY <1>1, <1>3, <1>4, <1>5, <1>6, <1>7 DEF Join

LEMMA Passing ==
    ASSUME NEW a \in Seq(Buffer), NEW b \in Seq(Buffer), NEW f \in Seq(Buffer), NEW x \in Buffer
    PROVE  /\ b # <<>> => (Append(<<>>, Head(b)) \o Tail(b)) \o f = (<<>> \o b) \o f
           /\ (a \o b) \o Append(f, x) = Append((a \o b) \o f, x)
           /\ (<<x>> \o b) \o f # <<>>
           /\ Head((<<x>> \o b) \o f) = x /\ Tail((<<x>> \o b) \o f) = (<<>> \o b) \o f
  <1>2. ASSUME b # <<>> PROVE (Append(<<>>, Head(b)) \o Tail(b)) \o f = (<<>> \o b) \o f
    <2>1. b = <<Head(b)>> \o Tail(b)
      BY <1>2, HeadThenTail
    <2>2. Append(<<>>, Head(b)) = <<Head(b)>> /\ <<>> \o b = b
      BY ConcatEmptySeq
    <2> QED BY <2>1, <2>2
  <1>3. (a \o b) \o Append(f, x) = Append((a \o b) \o f, x)
    <2>1. PICK c \in Seq(Buffer) : c = a \o b
      BY ConcatProperties
    <2>2. PICK d \in Seq(Buffer) : d = c \o f
      BY ConcatProperties
    <2>3. PICK h \in Seq(Buffer) : h = <<x>>
      BY Single
    <2>4. Append(f, x) = f \o h /\ Append(d, x) = d \o h
      BY <2>2, <2>3, AppendIsConcat
    <2>5. Join(Join(c, f), h) = Join(c, Join(f, h))
      BY JoinAssociative
    <2> QED BY ONLY <2>1, <2>2, <2>4, <2>5 DEF Join
  <1>4. /\ (<<x>> \o b) \o f # <<>>
        /\ Head((<<x>> \o b) \o f) = x /\ Tail((<<x>> \o b) \o f) = (<<>> \o b) \o f
    <2>1. PICK h \in Seq(Buffer) : h = <<x>> /\ Len(h) = 1 /\ h[1] = x
      BY Single
    <2>2. PICK r \in Seq(Buffer) : r = b \o f
      BY ConcatProperties
    <2>3. (h \o b) \o f = h \o r
      <3>1. Join(Join(h, b), f) = Join(h, Join(b, f))
        BY JoinAssociative
      <3> QED BY ONLY <2>2, <3>1 DEF Join
    <2>4. /\ h \o r \in Seq(Buffer) /\ Len(h \o r) = 1 + Len(r) /\ Len(r) \in Nat
          /\ \A i \in 1 .. 1 + Len(r) : (h \o r)[i] = IF i <= 1 THEN h[i] ELSE r[i - 1]
      BY <2>1, ConcatProperties, LenProperties
    <2>5. h \o r # <<>> /\ Head(h \o r) = x /\ Len(Tail(h \o r)) = Len(r) /\ Tail(h \o r) \in Seq(Buffer)
      BY <2>1, <2>4, EmptySeq, HeadTailProperties
    <2>6. ASSUME NEW i \in 1 .. Len(r) PROVE Tail(h \o r)[i] = r[i]
      <3>1. Tail(h \o r)[i] = (h \o r)[i + 1]
        BY <2>4, <2>5, HeadTailProperties
      <3>2. i + 1 \in 1 .. 1 + Len(r) /\ ~(i + 1 <= 1) /\ (i + 1) - 1 = i
        BY <2>4
      <3> QED BY <2>4, <3>1, <3>2
    <2>7. Tail(h \o r) = r
      BY <2>5, <2>6, SeqEqual
    <2>8. <<>> \o b = b
      BY ConcatEmptySeq
    <2> QED BY <2>1, <2>2, <2>3, <2>5, <2>7, <2>8
  <1> QED BY <1>2, <1>3, <1>4

LEMMA FlightSteps ==
    ASSUME Values, Hands, NEW c \in Core
    PROVE  /\ Resting(c) => Flight(c)' = Flight(c)
           /\ Moved(c, "fresh", "out") => Flight(c)' = Flight(c)
           /\ Moved(c, "filled", "box") => Flight(c)' = Flight(c)
           /\ Moved(c, "box", "in") /\ Hold(c, "in") = <<>> => Flight(c)' = Flight(c)
           /\ Moved(c, "out", "filled") => Flight(c)' = Append(Flight(c), Head(Hold(c, "out")))
           /\ \A b \in Buffer : Moved(c, "in", "fresh") /\ Hold(c, "in") = <<b>> =>
                  Flight(c) # <<>> /\ Head(Flight(c)) = b /\ Flight(c)' = Tail(Flight(c))
  <1>1. PICK a \in Seq(Buffer), b \in Seq(Buffer), f \in Seq(Buffer), o \in Seq(Buffer) :
            a = Hold(c, "in") /\ b = Hold(c, "box") /\ f = Hold(c, "filled") /\ o = Hold(c, "out")
    BY HoldType DEF Spot
  <1>2. Flight(c)' = (Hold(c, "in")' \o Hold(c, "box")') \o Hold(c, "filled")'
    BY DEF Flight
  <1>3. Flight(c) = (a \o b) \o f
    BY <1>1 DEF Flight
  <1>4. Resting(c) \/ Moved(c, "fresh", "out") => Flight(c)' = Flight(c)
    BY <1>1, <1>2, <1>3 DEF Resting, Moved, Spot
  <1>5. ASSUME Moved(c, "filled", "box") PROVE Flight(c)' = Flight(c)
    <2>1. /\ f # <<>> /\ Hold(c, "in")' = a /\ Hold(c, "box")' = Append(b, Head(f))
          /\ Hold(c, "filled")' = Tail(f)
      BY <1>1, <1>5 DEF Moved, Spot
    <2>3. (a \o Append(b, Head(f))) \o Tail(f) = (a \o b) \o f
      <3>1. f # <<>>
        BY <2>1
      <3> QED BY <3>1, PassingOn
    <2> QED BY <1>2, <1>3, <2>1, <2>3
  <1>6. ASSUME Moved(c, "box", "in"), a = <<>> PROVE Flight(c)' = Flight(c)
    <2>1. /\ b # <<>> /\ Hold(c, "in")' = Append(<<>>, Head(b)) /\ Hold(c, "box")' = Tail(b)
          /\ Hold(c, "filled")' = f
      BY <1>1, <1>6 DEF Moved, Spot
    <2>2. Head(b) \in Buffer
      BY <2>1, HeadTailProperties
    <2>3. (Append(<<>>, Head(b)) \o Tail(b)) \o f = (<<>> \o b) \o f
      BY <2>1, <2>2, Passing
    <2> QED BY <1>2, <1>3, <1>6, <2>1, <2>3
  <1>7. ASSUME Moved(c, "out", "filled") PROVE Flight(c)' = Append(Flight(c), Head(o))
    <2>1. /\ o # <<>> /\ Hold(c, "in")' = a /\ Hold(c, "box")' = b
          /\ Hold(c, "filled")' = Append(f, Head(o))
      BY <1>1, <1>7 DEF Moved, Spot
    <2>2. Head(o) \in Buffer
      BY <2>1, HeadTailProperties
    <2>3. (a \o b) \o Append(f, Head(o)) = Append((a \o b) \o f, Head(o))
      BY <2>2, Passing
    <2> QED BY <1>2, <1>3, <2>1, <2>3
  <1>8. ASSUME NEW x \in Buffer, Moved(c, "in", "fresh"), a = <<x>>
        PROVE  Flight(c) # <<>> /\ Head(Flight(c)) = x /\ Flight(c)' = Tail(Flight(c))
    <2>1. Hold(c, "in")' = Tail(a) /\ Hold(c, "box")' = b /\ Hold(c, "filled")' = f
      BY <1>1, <1>8 DEF Moved, Spot
    <2>2. Tail(a) = <<>>
      BY <1>8
    <2>3. /\ (<<x>> \o b) \o f # <<>>
          /\ Head((<<x>> \o b) \o f) = x /\ Tail((<<x>> \o b) \o f) = (<<>> \o b) \o f
      BY Passing
    <2> QED BY <1>2, <1>3, <1>8, <2>1, <2>2, <2>3
  <1> QED BY <1>1, <1>4, <1>5, <1>6, <1>7, <1>8

LEMMA FlightIs ==
    ASSUME Values, Hands, NEW c \in Core
    PROVE  /\ Flight(c) \in Seq(Buffer) /\ Len(Flight(c)) \in Nat
           /\ Len(Flight(c)) = Len(Hold(c, "in")) + (Len(Hold(c, "box")) + Len(Hold(c, "filled")))
           /\ ToSet(Flight(c)) = ToSet(Hold(c, "in")) \cup ToSet(Hold(c, "box"))
                                   \cup ToSet(Hold(c, "filled"))
  <1>1. PICK a \in Seq(Buffer), b \in Seq(Buffer), f \in Seq(Buffer) :
            a = Hold(c, "in") /\ b = Hold(c, "box") /\ f = Hold(c, "filled")
    BY HoldType DEF Spot
  <1>2. PICK g \in Seq(Buffer) : /\ g = a \o b /\ Len(g) = Len(a) + Len(b)
                                 /\ ToSet(g) = ToSet(a) \cup ToSet(b)
    <2>1. /\ a \o b \in Seq(Buffer) /\ Len(a \o b) = Len(a) + Len(b)
          /\ ToSet(a \o b) = ToSet(a) \cup ToSet(b)
      BY ElementsOfConcat
    <2> QED BY <2>1
  <1>3. /\ g \o f \in Seq(Buffer) /\ Len(g \o f) = Len(g) + Len(f)
        /\ ToSet(g \o f) = ToSet(g) \cup ToSet(f)
    BY ElementsOfConcat
  <1>4. Flight(c) = g \o f
    BY <1>1, <1>2 DEF Flight
  <1>5. Len(a) \in Nat /\ Len(b) \in Nat /\ Len(f) \in Nat
    BY LenProperties
  <1> QED BY <1>1, <1>2, <1>3, <1>4, <1>5
-----------------------------------------------------------------------------
(* Why no inbox is ever full: the client lets at most Burst one-way        *)
(* requests pass before a call, and a call waits for its answer.           *)
Calm == ~Hurried /\ Burst <= N - 2
Calls == Flight("core0")
Answers == Flight("core1")

\* A call is on its way, behind the one-way requests made before it ...
Asked ==
    /\ Calls # <<>> /\ Len(Calls) <= Burst + 1
    /\ \A i \in 1 .. Len(Calls) : mem["call"][Calls[i]].oneway <=> i < Len(Calls)
    /\ mem["call"][Calls[Len(Calls)]].seq = seq["core0"]
    /\ Answers = <<>> /\ pc["core1"] \notin {"answer", "send"}

\* ... or it has been executed, and the only answer there is has its number.
Answering ==
    /\ Calls = <<>>
    /\ \/ pc["core1"] = "answer" /\ Answers = <<>> /\ seq["core1"] = seq["core0"]
       \/ pc["core1"] = "send" /\ Answers = <<>> /\ mem["reply"][hand["core1"]].seq = seq["core0"]
       \/ /\ pc["core1"] \notin {"answer", "send"}
          /\ Len(Answers) = 1 /\ mem["reply"][Answers[1]].seq = seq["core0"]

\* Nobody waits: only one-way requests are on their way.
Unasked ==
    /\ \A i \in 1 .. Len(Calls) : mem["call"][Calls[i]].oneway
    /\ Answers = <<>> /\ pc["core1"] \notin {"answer", "send"}
    /\ pc["core0"] # "send" => Len(Calls) <= oneways
    /\ pc["core0"] = "send" =>
          /\ mem["call"][hand["core0"]].seq = seq["core0"]
          /\ mem["call"][hand["core0"]].oneway => Len(Calls) < oneways
          /\ ~mem["call"][hand["core0"]].oneway => Len(Calls) <= Burst /\ oneways = 0

Pace ==
    /\ Waits => oneways = 0 /\ (Asked \/ Answering)
    /\ ~Waits => Unasked
    /\ pc["core0"] \notin Late0 => oneways = 0
    /\ pc["core0"] \in {"print"} \cup Late0 => ept["core0"]

Sure == LinkInv /\ Kept /\ Whole /\ Pace
-----------------------------------------------------------------------------
\* What the handler reads has a place to go to.
LEMMA DrainDelivers ==
    ASSUME Calm, Sure, NEW c \in Core, Drain(c)
    PROVE  Moved(Peer(c), "filled", "box") /\ Resting(c)
  <1> USE DEF Sure, Kept
  <1>1. ~Vacant(ring[Receives(c)].filled)
    BY DEF Drain
  <1>2. PICK n \in Nat, m \in Nat, k \in Nat :
            /\ n = Len(Hold(Peer(c), "box")) /\ m = Len(Hold(Peer(c), "filled"))
            /\ k = Len(Hold(Peer(c), "in"))
            /\ Len(Flight(Peer(c))) = k + (n + m)
    <2>1. Peer(c) \in Core
      BY CoreFacts
    <2> QED BY <2>1, FlightIs, HoldType, LenProperties DEF Spot
  <1>3. Moved(Peer(c), "filled", "box") \/ Lost(Peer(c), "filled") \/ Moved(Peer(c), "filled", "fresh")
    BY DrainMoves
  <1>4. m > 0
    <2>1. Hold(Peer(c), "filled") # <<>> /\ Hold(Peer(c), "filled") \in Seq(Buffer)
      BY <1>3, HoldType, CoreFacts DEF Moved, Lost, Spot
    <2> QED BY <1>2, <2>1, EmptySeq
  <1>5. n = Len(inbox[c])
    BY <1>2, HoldIs, CoreFacts
  <1>6. ept[c] /\ n + m <= N - 1
    <2>1. N \in Nat /\ Burst \in Nat /\ Burst <= N - 2 /\ ~Hurried /\ oneways \in 0 .. Burst
      BY RingAssumption DEF Calm, Values
    <2>2. CASE c = "core1"
      <3>1. pc["core0"] \in Late0
        BY <1>1, <2>2, CoreFacts DEF LinkInv, Quiet
      <3>2. ept["core1"]
        BY <3>1 DEF LinkInv, Phases
      <3>3. Len(Calls) = k + (n + m)
        BY <1>2, <2>2, CoreFacts DEF Calls
      <3>4. Len(Calls) <= Burst + 1
        <4>1. CASE Waits
          <5>1. Calls # <<>>
            BY <1>4, <3>3
          <5> QED BY <4>1, <5>1 DEF Pace, Asked, Answering
        <4>2. CASE ~Waits
          BY <2>1, <3>3, <4>2 DEF Pace, Unasked
        <4> QED BY <4>1, <4>2
      <3>5. k + (n + m) <= Burst + 1
        BY <3>3, <3>4
      <3>6. n + m <= N - 1
        BY ONLY <2>1, <3>5, n \in Nat, m \in Nat, k \in Nat
      <3> QED BY <2>2, <3>2, <3>6
    <2>3. CASE c = "core0"
      <3>1. Len(Answers) = k + (n + m)
        BY <1>2, <2>3, CoreFacts DEF Answers
      <3>2. Answers # <<>>
        BY <1>4, <3>1
      <3>3. Waits /\ Answering
        BY <3>2 DEF Pace, Asked, Unasked
      <3>4. Len(Answers) = 1
        BY <3>2, <3>3 DEF Answering
      <3>5. ept["core0"]
        BY <3>3 DEF Pace, Waits, Late0
      <3>6. k + (n + m) = 1
        BY <3>1, <3>4
      <3>7. n + m <= N - 1
        BY ONLY <2>1, <3>6, n \in Nat, m \in Nat, k \in Nat
      <3> QED BY <2>3, <3>5, <3>7, Zenon
    <2> QED BY <2>2, <2>3 DEF Core
  <1>7. Accepts(inbox[c])
    <2>1. N \in Nat
      BY RingAssumption
    <2> QED BY <1>4, <1>5, <1>6, <2>1 DEF Accepts
  <1> QED BY <1>6, <1>7, DrainMoves
-----------------------------------------------------------------------------
(* Pace, step by step. *)

\* A step that does not touch what the pace is about.
Unnoticed ==
    /\ UNCHANGED <<mem, seq, oneways>> /\ Calls' = Calls /\ Answers' = Answers
    /\ Waits' = Waits
    /\ pc'["core1"] \in {"answer", "send"} <=> pc["core1"] \in {"answer", "send"}
    /\ pc["core1"] \in {"answer", "send"} =>
           pc'["core1"] = pc["core1"] /\ hand'["core1"] = hand["core1"]
    /\ pc'["core0"] = "send" <=> pc["core0"] = "send"
    /\ pc["core0"] = "send" => hand'["core0"] = hand["core0"]
    /\ pc'["core0"] \notin Late0 => pc["core0"] \notin Late0
    /\ pc'["core0"] \in {"print"} \cup Late0 => ept'["core0"]

LEMMA SamePace ==
    ASSUME Pace, Unnoticed
    PROVE  Pace'
  <1> USE DEF Unnoticed
  <1>1. Asked => Asked'
    BY DEF Asked
  <1>2. Answering => Answering'
    BY DEF Answering
  <1>3. Unasked => Unasked'
    BY DEF Unasked
  <1> QED BY <1>1, <1>2, <1>3 DEF Pace

LEMMA FlightRests ==
    ASSUME Values, Hands, \A e \in Core : Resting(e)
    PROVE  Calls' = Calls /\ Answers' = Answers
  BY FlightSteps, CoreFacts DEF Calls, Answers

LEMMA SetupUnnoticed ==
    ASSUME Sure, NEW c \in Core, Setup(c)
    PROVE  Unnoticed
  <1> USE CoreFacts DEF Sure, Kept
  <1>1. Still /\ Hands' /\ \A e \in Core : Resting(e)
    BY SetupStill
  <1>2. Calls' = Calls /\ Answers' = Answers
    BY <1>1, FlightRests
  <1>3. /\ pc'["core0"] = pc["core0"] \/ pc["core0"] \notin Late0
        /\ pc'["core0"] \notin {"send", "kick", "receive", "verify"} \/ pc'["core0"] = pc["core0"]
        /\ pc'["core0"] \in {"print"} \cup Late0 => ept'["core0"]
    <2> USE DEF At, Goto, Begin0, Early0, Mid0, Late0, Hands, Pace
    <2>1. CASE Enable(c)
      BY <2>1 DEF Enable
    <2>9. CASE Unmask(c)
      BY <2>9 DEF Unmask
    <2>2. CASE Announce(c)
      BY <2>2 DEF Announce
    <2>10. CASE CreateEndpoint(c)
      BY <2>10 DEF CreateEndpoint, Values
    <2>3. CASE Open(c)
      BY <2>3 DEF Open
    <2>4. CASE RegisterStart
      BY <2>4 DEF RegisterStart
    <2>5. CASE Release
      BY <2>5 DEF Release
    <2>6. CASE WaitReady
      BY <2>6 DEF WaitReady
    <2>7. CASE PrintMatrices
      BY <2>7 DEF PrintMatrices
    <2>8. CASE WaitLink
      BY <2>8 DEF WaitLink
    <2> QED BY <2>1, <2>2, <2>3, <2>4, <2>5, <2>6, <2>7, <2>8, <2>9, <2>10 DEF Setup
  <1>4. /\ pc'["core1"] = pc["core1"] \/ pc["core1"] \notin {"answer", "send"}
        /\ pc'["core1"] \notin {"answer", "send"} \/ pc'["core1"] = pc["core1"]
    <2> USE DEF At, Goto, Hands
    <2>1. CASE Enable(c)
      BY <2>1 DEF Enable
    <2>9. CASE Unmask(c)
      BY <2>9 DEF Unmask
    <2>2. CASE Announce(c)
      BY <2>2 DEF Announce
    <2>10. CASE CreateEndpoint(c)
      BY <2>10 DEF CreateEndpoint
    <2>3. CASE Open(c)
      BY <2>3 DEF Open
    <2>4. CASE RegisterStart
      BY <2>4 DEF RegisterStart
    <2>5. CASE Release
      BY <2>5, pc["core1"] = "held" DEF Release, Begin0
    <2>6. CASE WaitReady
      BY <2>6 DEF WaitReady
    <2>7. CASE PrintMatrices
      BY <2>7 DEF PrintMatrices
    <2>8. CASE WaitLink
      BY <2>8 DEF WaitLink
    <2> QED BY <2>1, <2>2, <2>3, <2>4, <2>5, <2>6, <2>7, <2>8, <2>9, <2>10 DEF Setup
  <1>5. hand' = hand /\ UNCHANGED <<mem, seq, oneways>>
    BY <1>1 DEF Still
  <1>6. pc'["core0"] = pc["core0"] \/ pc["core0"] \notin Late0
    BY <1>3
  <1>7. Waits' = Waits
    BY <1>3, <1>5 DEF Waits, Late0
  <1> QED BY <1>2, <1>3, <1>4, <1>5, <1>7 DEF Unnoticed, Late0

LEMMA HandlerUnnoticed ==
    ASSUME Sure, NEW c \in Core, Interrupt(c) \/ Note(c) \/ Drained(c)
    PROVE  Unnoticed
  <1> USE DEF Sure, Kept
  <1>1. Still /\ UNCHANGED <<pc, ept>> /\ \A e \in Core : Resting(e)
    BY HandlerStill
  <1>2. Calls' = Calls /\ Answers' = Answers
    BY <1>1, FlightRests
  <1>3. Waits' = Waits
    BY <1>1 DEF Still, Waits
  <1> QED BY <1>1, <1>2, <1>3 DEF Unnoticed, Still, Pace

LEMMA KickUnnoticed ==
    ASSUME Sure, NEW c \in Core, KickPeer(c)
    PROVE  Unnoticed
  <1> USE CoreFacts DEF Sure, Kept
  <1>1. UNCHANGED <<ept, mem, seq, oneways>> /\ \A e \in Core : Resting(e)
    BY KickStill
  <1>2. Calls' = Calls /\ Answers' = Answers
    BY <1>1, FlightRests
  <1>3. /\ pc[c] = "kick"
        /\ pc' = [pc EXCEPT ![c] = IF c = "core1" THEN "poll" ELSE
                      IF mem.call[hand.core0].oneway THEN "call" ELSE "receive"]
        /\ hand' = [hand EXCEPT ![c] = Nothing]
    BY DEF KickPeer, At, Goto
  <1>4. CASE c = "core0"
    <2>1. /\ pc'["core0"] = IF mem.call[hand.core0].oneway THEN "call" ELSE "receive"
          /\ pc'["core1"] = pc["core1"] /\ hand'["core1"] = hand["core1"]
      BY <1>3, <1>4 DEF Values, Hands
    <2>2. Waits' = Waits
      BY <1>3, <1>4, <2>1 DEF Waits
    <2> QED BY <1>1, <1>2, <1>3, <1>4, <2>1, <2>2 DEF Unnoticed, Late0, Pace
  <1>5. CASE c = "core1"
    <2>1. /\ pc'["core0"] = pc["core0"] /\ hand'["core0"] = hand["core0"]
          /\ pc'["core1"] = "poll" /\ pc["core1"] = "kick"
      BY <1>3, <1>5 DEF Values, Hands
    <2>2. Waits' = Waits
      BY <1>1, <2>1 DEF Waits
    <2> QED BY <1>1, <1>2, <2>1, <2>2 DEF Unnoticed, Pace
  <1> QED BY <1>4, <1>5 DEF Core

LEMMA DrainUnnoticed ==
    ASSUME Calm, Sure, NEW c \in Core, Drain(c)
    PROVE  Unnoticed
  <1> USE CoreFacts DEF Sure, Kept
  <1>1. Moved(Peer(c), "filled", "box") /\ Resting(c)
    BY DrainDelivers
  <1>2. Calls' = Calls /\ Answers' = Answers
    BY <1>1, FlightSteps DEF Calls, Answers, Core
  <1>3. UNCHANGED <<pc, hand, ept, mem, seq, oneways>>
    BY DEF Drain
  <1>4. Waits' = Waits
    BY <1>3 DEF Waits
  <1> QED BY <1>2, <1>3, <1>4 DEF Unnoticed, Pace

LEMMA ReceiveUnnoticed ==
    ASSUME Sure, NEW c \in Core, Receive(c)
    PROVE  Unnoticed
  <1> USE CoreFacts DEF Sure, Kept
  <1>1. /\ pc[c] = IF c = "core0" THEN "receive" ELSE "poll"
        /\ pc' = [pc EXCEPT ![c] = IF c = "core0" THEN "verify" ELSE "process"]
        /\ hand' = [hand EXCEPT ![c] = Head(inbox[c])]
        /\ UNCHANGED <<ept, mem, seq, oneways>>
    BY DEF Receive, At, Goto, Take, rings
  <1>2. Moved(Peer(c), "box", "in") /\ Resting(c)
    BY ReceiveMoves
  <1>3. Hold(Peer(c), "in") = <<>>
    BY <1>1, HoldIs
  <1>4. Calls' = Calls /\ Answers' = Answers
    BY <1>2, <1>3, FlightSteps DEF Calls, Answers, Core
  <1>5. /\ pc'[c] = IF c = "core0" THEN "verify" ELSE "process"
        /\ pc'[Peer(c)] = pc[Peer(c)] /\ hand'[Peer(c)] = hand[Peer(c)]
    BY <1>1 DEF Values, Hands
  <1>6. Waits' = Waits
    BY <1>1, <1>5 DEF Waits, Core
  <1> QED BY <1>1, <1>4, <1>5, <1>6 DEF Unnoticed, Late0, Pace, Core

LEMMA OpenUnnoticed ==
    ASSUME Sure, Open("core0")
    PROVE  Unnoticed
  <1> USE DEF Sure, Kept
  <1>1. /\ \A c \in Core, s \in Spot \ {"fresh"} : Hold(c, s)' = <<>>
        /\ UNCHANGED <<mem, seq, oneways, ept>>
    BY OpenFills
  <1>2. /\ pc["core0"] = "open" /\ pc'["core0"] = "unmask" /\ pc'["core1"] = pc["core1"]
        /\ hand' = hand
    BY CoreFacts DEF Open, At, Goto, Hands
  <1>3. ~bound["core0"]
    BY <1>2 DEF Opened
  <1>4. \A c \in Core, s \in Spot : Hold(c, s) = <<>>
    BY <1>3 DEF Opened
  <1>5. Calls' = Calls /\ Answers' = Answers
    BY <1>1, <1>4 DEF Calls, Answers, Flight, Spot, Core
  <1>6. Waits' = Waits
    BY <1>2 DEF Waits
  <1> QED BY <1>1, <1>2, <1>5, <1>6 DEF Unnoticed, Late0

LEMMA AppendIs ==
    ASSUME NEW B, NEW s \in Seq(B), NEW x \in B
    PROVE  /\ Append(s, x) \in Seq(B) /\ Len(Append(s, x)) = Len(s) + 1 /\ Append(s, x) # <<>>
           /\ Len(s) \in Nat
           /\ \A i \in 1 .. Len(s) + 1 : Append(s, x)[i] = IF i <= Len(s) THEN s[i] ELSE x
  BY AppendProperties, LenProperties

LEMMA TailIs ==
    ASSUME NEW B, NEW s \in Seq(B), s # <<>>
    PROVE  /\ Tail(s) \in Seq(B) /\ Len(Tail(s)) = Len(s) - 1 /\ Len(s) \in Nat \ {0}
           /\ Head(s) = s[1] /\ Head(s) \in B
           /\ \A i \in 1 .. Len(s) - 1 : Tail(s)[i] = s[i + 1]
  BY HeadTailProperties, LenProperties, EmptySeq

\* The client puts a request on the ring: it waits, if the request is a call.
LEMMA RequestPace ==
    ASSUME Sure, Send("core0")
    PROVE  /\ Pace' /\ ~Waits /\ Calls' = Append(Calls, hand["core0"]) /\ Answers' = Answers
           /\ hand["core0"] \in Buffer
           /\ Waits' <=> ~mem["call"][hand["core0"]].oneway
  <1> USE CoreFacts DEF Sure, Kept
  <1>1. /\ pc["core0"] = "send" /\ pc'["core0"] = "kick" /\ pc'["core1"] = pc["core1"]
        /\ UNCHANGED <<ept, mem, inbox, hand, seq, oneways>>
    BY DEF Send, At, Goto, Hands
  <1>2. /\ Hold("core0", "out") = <<hand["core0"]>> /\ hand["core0"] \in Buffer
    BY <1>1, HoldIs DEF Hands, Values
  <1>3. Calls' = Append(Calls, hand["core0"]) /\ Answers' = Answers
    BY <1>2, SendMoves, FlightSteps DEF Calls, Answers
  <1>4. ~Waits /\ Unasked
    BY <1>1 DEF Waits, Pace
  <1>5. Waits' <=> ~mem["call"][hand["core0"]].oneway
    BY <1>1 DEF Waits
  <1>6. /\ Len(Calls) \in Nat /\ Len(Calls') = Len(Calls) + 1 /\ Calls' # <<>>
        /\ \A i \in 1 .. Len(Calls) + 1 :
               Calls'[i] = IF i <= Len(Calls) THEN Calls[i] ELSE hand["core0"]
    <2>1. PICK s \in Seq(Buffer), x \in Buffer : s = Calls /\ x = hand["core0"]
      BY <1>2, FlightIs DEF Calls
    <2>2. /\ Len(Append(s, x)) = Len(s) + 1 /\ Append(s, x) # <<>> /\ Len(s) \in Nat
          /\ \A i \in 1 .. Len(s) + 1 : Append(s, x)[i] = IF i <= Len(s) THEN s[i] ELSE x
      BY AppendIs
    <2> QED BY <1>3, <2>1, <2>2
  <1>7. ASSUME mem["call"][hand["core0"]].oneway PROVE Unasked'
    <2>1. \A i \in 1 .. Len(Calls') : mem'["call"][Calls'[i]].oneway
      BY <1>1, <1>4, <1>6, <1>7 DEF Unasked
    <2>2. Len(Calls') <= oneways'
      BY <1>1, <1>4, <1>6, <1>7 DEF Unasked, Values
    <2> QED BY <1>1, <1>3, <1>4, <2>1, <2>2 DEF Unasked
  <1>8. ASSUME ~mem["call"][hand["core0"]].oneway PROVE Asked' /\ oneways' = 0
    <2>1. \A i \in 1 .. Len(Calls') : mem'["call"][Calls'[i]].oneway <=> i < Len(Calls')
      BY <1>1, <1>4, <1>6, <1>8 DEF Unasked
    <2>2. Len(Calls') <= Burst + 1 /\ oneways' = 0
      BY <1>1, <1>4, <1>6, <1>8, RingAssumption DEF Unasked
    <2>3. mem'["call"][Calls'[Len(Calls')]].seq = seq'["core0"]
      <3>1. Calls'[Len(Calls) + 1] = hand["core0"]
        BY <1>6
      <3> QED BY <1>1, <1>4, <1>6, <3>1 DEF Unasked
    <2> QED BY <1>1, <1>3, <1>4, <1>6, <2>1, <2>2, <2>3 DEF Unasked, Asked
  <1>9. Pace'
    BY <1>1, <1>5, <1>7, <1>8 DEF Pace, Late0
  <1> QED BY <1>2, <1>3, <1>4, <1>5, <1>9

\* The server puts the answer on the ring.
LEMMA AnswerPace ==
    ASSUME Sure, Send("core1")
    PROVE  /\ Pace' /\ Waits /\ Waits' /\ Calls' = <<>> /\ Calls = <<>>
           /\ Answers = <<>> /\ Answers' = <<hand["core1"]>>
  <1> USE CoreFacts DEF Sure, Kept
  <1>1. /\ pc["core1"] = "send" /\ pc'["core1"] = "kick" /\ pc'["core0"] = pc["core0"]
        /\ UNCHANGED <<ept, mem, inbox, hand, seq, oneways>>
    BY DEF Send, At, Goto, Hands
  <1>2. /\ Hold("core1", "out") = <<hand["core1"]>> /\ hand["core1"] \in Buffer
    BY <1>1, HoldIs DEF Hands, Values
  <1>3. Answers' = Append(Answers, hand["core1"]) /\ Calls' = Calls
    BY <1>2, SendMoves, FlightSteps DEF Calls, Answers
  <1>4. Waits /\ Answering
    BY <1>1 DEF Pace, Asked, Unasked
  <1>5. /\ Calls = <<>> /\ Answers = <<>>
        /\ mem["reply"][hand["core1"]].seq = seq["core0"]
    BY <1>1, <1>4 DEF Answering
  <1>6. Answers' = <<hand["core1"]>>
    BY <1>3, <1>5
  <1>7. Answering'
    BY <1>1, <1>3, <1>5, <1>6 DEF Answering
  <1>8. Waits'
    BY <1>1, <1>4 DEF Waits
  <1>9. Pace'
    BY <1>1, <1>4, <1>7, <1>8 DEF Pace
  <1> QED BY <1>3, <1>4, <1>5, <1>6, <1>8, <1>9

\* The client has its answer.
LEMMA VerifyPace ==
    ASSUME Sure, VerifyReply
    PROVE  /\ Pace' /\ Waits /\ ~Waits' /\ Calls = <<>> /\ Calls' = <<>>
           /\ Answers # <<>> /\ Answers' = <<>>
           /\ mem["reply"][Head(Answers)].seq = seq["core0"]
           /\ pc["core1"] \notin {"answer", "send"} /\ UNCHANGED <<seq, mem>>
  <1> USE CoreFacts DEF Sure, Kept
  <1>1. /\ pc["core0"] = "verify" /\ pc'["core0"] = "call" /\ pc'["core1"] = pc["core1"]
        /\ UNCHANGED <<ept, mem, inbox, seq, oneways>>
    BY DEF VerifyReply, At, Goto, Hands
  <1>2. hand["core0"] \in Buffer /\ Hold("core1", "in") = <<hand["core0"]>>
    BY <1>1, HoldIs DEF Hands, Values
  <1>3. Answers # <<>> /\ Answers' = Tail(Answers) /\ Calls' = Calls
    BY <1>2, VerifyMoves, FlightSteps DEF Calls, Answers
  <1>4. Waits /\ Answering
    BY <1>1, <1>3 DEF Waits, Pace, Asked
  <1>5. /\ Calls = <<>> /\ pc["core1"] \notin {"answer", "send"} /\ Len(Answers) = 1
        /\ mem["reply"][Answers[1]].seq = seq["core0"]
    BY <1>3, <1>4 DEF Answering
  <1>6. Answers \in Seq(Buffer)
    BY FlightIs DEF Answers
  <1>7. Head(Answers) = Answers[1] /\ Tail(Answers) = <<>>
    <2>1. Len(Tail(Answers)) = 0 /\ Tail(Answers) \in Seq(Buffer)
      BY <1>3, <1>5, <1>6, TailIs
    <2> QED BY <1>3, <1>6, <2>1, TailIs, EmptySeq
  <1>8. ~Waits'
    BY <1>1 DEF Waits
  <1>9. Unasked'
    <2>1. oneways' \in Nat /\ Len(<<>>) = 0
      BY <1>1, RingAssumption DEF Values
    <2> QED BY <1>1, <1>3, <1>5, <1>7, <2>1 DEF Unasked
  <1>10. Pace'
    BY <1>1, <1>8, <1>9 DEF Pace, Late0
  <1> QED BY <1>1, <1>3, <1>4, <1>5, <1>7, <1>8, <1>10

\* The server executes the oldest request.
LEMMA ProcessPace ==
    ASSUME Sure, Process
    PROVE  /\ Pace' /\ Waits' = Waits
           /\ Calls # <<>> /\ Calls' = Tail(Calls) /\ Head(Calls) = hand["core1"]
           /\ Answers = <<>> /\ Answers' = <<>> /\ pc["core1"] = "process"
           /\ UNCHANGED <<mem, seq["core0"]>>
           /\ seq'["core1"] = mem["call"][Head(Calls)].seq
           /\ pc'["core1"] = IF mem["call"][Head(Calls)].oneway THEN "poll" ELSE "answer"
  <1> USE CoreFacts DEF Sure, Kept
  <1>1. /\ pc["core1"] = "process" /\ pc'["core0"] = pc["core0"]
        /\ pc'["core1"] = IF mem["call"][hand["core1"]].oneway THEN "poll" ELSE "answer"
        /\ seq' = [seq EXCEPT !["core1"] = mem["call"][hand["core1"]].seq]
        /\ hand' = [hand EXCEPT !["core1"] = Nothing]
        /\ UNCHANGED <<ept, mem, inbox, oneways>>
    BY DEF Process, At, Goto, Hands
  <1>2. hand["core1"] \in Buffer /\ Hold("core0", "in") = <<hand["core1"]>>
    BY <1>1, HoldIs DEF Hands, Values
  <1>3. Calls # <<>> /\ Calls' = Tail(Calls) /\ Head(Calls) = hand["core1"] /\ Answers' = Answers
    BY <1>2, ProcessMoves, FlightSteps DEF Calls, Answers
  <1>4. /\ seq'["core0"] = seq["core0"] /\ seq'["core1"] = mem["call"][hand["core1"]].seq
        /\ hand'["core0"] = hand["core0"]
    BY <1>1 DEF Values
  <1>5. Waits' = Waits
    BY <1>1, <1>4 DEF Waits
  <1>6. IF Waits THEN Asked /\ oneways = 0 ELSE Unasked
    BY <1>3 DEF Pace, Answering
  <1>7. Answers = <<>> /\ Answers' = <<>>
    BY <1>3, <1>6 DEF Asked, Unasked
  <1>8. /\ Len(Calls') = Len(Calls) - 1 /\ Len(Calls) \in Nat \ {0}
        /\ hand["core1"] = Calls[1] /\ Calls' \in Seq(Buffer)
        /\ \A i \in 1 .. Len(Calls) - 1 : Calls'[i] = Calls[i + 1]
    <2>1. Calls \in Seq(Buffer)
      BY FlightIs DEF Calls
    <2> QED BY <1>3, <2>1, TailIs
  <1>9. ASSUME Waits PROVE Asked' \/ Answering'
    <2>1. \A i \in 1 .. Len(Calls) : mem["call"][Calls[i]].oneway <=> i < Len(Calls)
      BY <1>6, <1>9 DEF Asked
    <2>2. mem["call"][hand["core1"]].oneway <=> 1 < Len(Calls)
      BY <1>8, <2>1
    <2>3. CASE Len(Calls) > 1
      <3>1. pc'["core1"] = "poll"
        BY <1>1, <2>2, <2>3
      <3>2. \A i \in 1 .. Len(Calls') : mem'["call"][Calls'[i]].oneway <=> i < Len(Calls')
        <4>1. \A i \in 1 .. Len(Calls') : i + 1 \in 1 .. Len(Calls) /\ (i < Len(Calls') <=> i + 1 < Len(Calls))
          BY <1>8
        <4> QED BY <1>1, <1>8, <2>1, <4>1
      <3>3. Len(Calls') \in Nat /\ Calls' # <<>> /\ Len(Calls') <= Burst + 1
        BY <1>6, <1>8, <1>9, <2>3, RingAssumption DEF Asked
      <3>4. mem'["call"][Calls'[Len(Calls')]].seq = seq'["core0"]
        <4>1. Calls'[Len(Calls) - 1] = Calls[Len(Calls)]
          BY <1>8, <2>3
        <4> QED BY <1>1, <1>4, <1>6, <1>8, <1>9, <4>1 DEF Asked
      <3> QED BY <1>7, <3>1, <3>2, <3>3, <3>4 DEF Asked
    <2>4. CASE Len(Calls) = 1
      <3>1. pc'["core1"] = "answer"
        BY <1>1, <2>2, <2>4
      <3>2. Calls' = <<>>
        BY <1>8, <2>4, EmptySeq
      <3>3. seq'["core1"] = seq'["core0"]
        BY <1>4, <1>6, <1>8, <1>9, <2>4 DEF Asked
      <3> QED BY <1>7, <3>1, <3>2, <3>3 DEF Answering
    <2> QED BY <1>8, <2>3, <2>4
  <1>10. ASSUME ~Waits PROVE Unasked'
    <2>1. \A i \in 1 .. Len(Calls) : mem["call"][Calls[i]].oneway
      BY <1>6, <1>10 DEF Unasked
    <2>2. pc'["core1"] = "poll"
      BY <1>1, <1>8, <2>1
    <2>3. \A i \in 1 .. Len(Calls') : mem'["call"][Calls'[i]].oneway
      <3>1. \A i \in 1 .. Len(Calls') : i + 1 \in 1 .. Len(Calls)
        BY <1>8
      <3> QED BY <1>1, <1>8, <2>1, <3>1
    <2>4. Len(Calls') \in Nat /\ Len(Calls') <= Len(Calls) /\ oneways \in Nat /\ Burst \in Nat
      BY <1>8, RingAssumption DEF Values
    <2> QED BY <1>1, <1>4, <1>6, <1>7, <1>10, <2>2, <2>3, <2>4 DEF Unasked
  <1>11. Pace'
    BY <1>1, <1>5, <1>6, <1>9, <1>10 DEF Pace
  <1> QED BY <1>1, <1>3, <1>4, <1>5, <1>7, <1>11

\* The server writes the answer.
LEMMA CreateReplyPace ==
    ASSUME Sure, CreateReply
    PROVE  /\ Pace' /\ Waits /\ Waits' /\ Calls = <<>> /\ Calls' = <<>>
           /\ Answers = <<>> /\ Answers' = <<>> /\ seq' = seq
           /\ pc["core1"] = "answer" /\ pc'["core1"] = "send"
           /\ mem'["reply"][hand'["core1"]].seq = seq["core1"]
  <1> USE CoreFacts DEF Sure, Kept
  <1>1. /\ pc["core1"] = "answer" /\ pc'["core1"] = "send" /\ pc'["core0"] = pc["core0"]
        /\ hand' = [hand EXCEPT !["core1"] = First(ring["reply"].fresh)]
        /\ mem' = [mem EXCEPT !["reply"][First(ring["reply"].fresh)] =
                       [seq |-> seq["core1"], oneway |-> FALSE]]
        /\ UNCHANGED <<ept, inbox, seq, oneways>>
    BY DEF CreateReply, Fill, At, Goto, Hands
  <1>2. Moved("core1", "fresh", "out") /\ Resting("core0")
    BY CreateReplyMoves
  <1>3. Calls' = Calls /\ Answers' = Answers
    BY <1>2, FlightSteps DEF Calls, Answers
  <1>4. Waits /\ Answering
    BY <1>1 DEF Pace, Asked, Unasked
  <1>5. Calls = <<>> /\ Answers = <<>> /\ seq["core1"] = seq["core0"]
    BY <1>1, <1>4 DEF Answering
  <1>6. First(ring["reply"].fresh) \in Buffer
    <2>1. ring["reply"].fresh \in Ring
      BY DEF Values, Rings
    <2> QED BY <2>1, RingConstants, Residue DEF First, Ring
  <1>7. /\ hand'["core1"] = First(ring["reply"].fresh) /\ hand'["core0"] = hand["core0"]
        /\ mem'["call"] = mem["call"]
        /\ mem'["reply"][hand'["core1"]].seq = seq["core1"]
    BY <1>1, <1>6 DEF Values
  <1>8. Answering'
    BY <1>1, <1>3, <1>5, <1>7 DEF Answering
  <1>9. Waits'
    BY <1>1, <1>4, <1>7 DEF Waits
  <1>10. Pace'
    BY <1>1, <1>4, <1>8, <1>9 DEF Pace
  <1> QED BY <1>1, <1>3, <1>4, <1>5, <1>7, <1>9, <1>10

\* The client writes a request into an empty buffer: none that is on its way.
LEMMA CreateRequestPace ==
    ASSUME Sure, NEW oneway \in BOOLEAN, CreateRequest(oneway)
    PROVE  /\ Pace' /\ ~Waits /\ ~Waits' /\ Calls' = Calls /\ Answers = <<>> /\ Answers' = <<>>
           /\ pc["core1"] \notin {"answer", "send"} /\ UNCHANGED pc["core1"]
           /\ \A i \in 1 .. Len(Calls) : mem'["call"][Calls[i]] = mem["call"][Calls[i]]
  <1> USE CoreFacts DEF Sure, Kept
  <1> DEFINE b == First(ring["call"].fresh)
             n == (seq["core0"] + 1) % SeqNos
  <1>1. /\ pc["core0"] = "call" /\ pc'["core0"] = "send" /\ pc'["core1"] = pc["core1"]
        /\ oneway => oneways < Burst
        /\ seq' = [seq EXCEPT !["core0"] = n]
        /\ hand' = [hand EXCEPT !["core0"] = b]
        /\ mem' = [mem EXCEPT !["call"][b] = [seq |-> seq'["core0"], oneway |-> oneway]]
        /\ oneways' = IF oneway THEN oneways + 1 ELSE 0
        /\ UNCHANGED <<ept, inbox>>
    BY DEF CreateRequest, Fill, At, Goto, Hands
  <1>2. Moved("core0", "fresh", "out") /\ Resting("core1")
    BY CreateRequestMoves
  <1>3. Calls' = Calls /\ Answers' = Answers
    BY <1>2, FlightSteps DEF Calls, Answers
  <1>4. ~Waits /\ Unasked /\ ~Waits'
    BY <1>1 DEF Waits, Pace
  <1>5. /\ Answers = <<>> /\ pc["core1"] \notin {"answer", "send"} /\ Len(Calls) <= oneways
        /\ \A i \in 1 .. Len(Calls) : mem["call"][Calls[i]].oneway
    BY <1>1, <1>4 DEF Unasked
  <1>6. b \in Buffer /\ b = Head(Hold("core0", "fresh"))
    <2>1. ring["call"].fresh \in Ring
      BY DEF Values, Rings
    <2>2. b \in Buffer
      BY <2>1, RingConstants, Residue DEF First, Ring
    <2>3. Hold("core0", "out")' = <<b>> /\ Hold("core0", "out") = <<>>
      <3>1. hand'["core0"] = b
        BY <1>1 DEF Values
      <3> QED BY <1>1, <3>1, HoldIs, HoldIsNext
    <2>4. Hold("core0", "out")' = <<Head(Hold("core0", "fresh"))>>
      BY <1>2, <2>3 DEF Moved
    <2> QED BY <2>2, <2>3, <2>4
  <1>7. b \notin ToSet(Calls)
    <2>1. bound["core0"]
      BY <1>1 DEF Opened, Begin0
    <2>2. Total("core0") = N /\ All("core0") = Buffer
      BY <2>1 DEF Whole
    <2>3. Hold("core0", "fresh") # <<>>
      BY <1>2 DEF Moved
    <2>4. \A s \in Spot \ {"fresh"} : b \notin ToSet(Hold("core0", s))
      BY <1>6, <2>2, <2>3, NotInTwoPlaces
    <2> QED BY <2>4, FlightIs DEF Calls, Spot
  <1>8. /\ hand'["core0"] = b /\ hand'["core1"] = hand["core1"]
        /\ seq'["core0"] = n
        /\ mem'["call"][b] = [seq |-> n, oneway |-> oneway]
        /\ \A x \in Buffer \ {b} : mem'["call"][x] = mem["call"][x]
    BY <1>1, <1>6 DEF Values
  <1> HIDE DEF b, n
  <1>9. \A i \in 1 .. Len(Calls) : mem'["call"][Calls[i]] = mem["call"][Calls[i]]
    <2>1. \A i \in 1 .. Len(Calls) : Calls[i] \in Buffer /\ Calls[i] \in ToSet(Calls)
      <3>1. Calls \in Seq(Buffer)
        BY FlightIs DEF Calls
      <3> QED BY <3>1, LenProperties DEF ToSet
    <2> QED BY <1>7, <1>8, <2>1
  <1>10. Unasked'
    <2>1. oneways \in Nat /\ oneways <= Burst /\ Burst \in Nat
      BY RingAssumption DEF Values
    <2>2. mem'["call"][b].oneway = oneway /\ mem'["call"][b].seq = n
      BY <1>8
    <2>3. Len(Calls) \in Nat
      BY FlightIs DEF Calls
    <2>4. /\ oneway => Len(Calls) < oneways'
          /\ ~oneway => Len(Calls) <= Burst /\ oneways' = 0
      BY <1>1, <1>5, <2>1, <2>3
    <2> QED BY <1>1, <1>3, <1>5, <1>8, <1>9, <2>2, <2>4 DEF Unasked
  <1>11. Pace'
    BY <1>1, <1>4, <1>10 DEF Pace, Late0
  <1> QED BY <1>1, <1>3, <1>4, <1>5, <1>9, <1>11

-----------------------------------------------------------------------------
(* No buffer is ever lost. *)
LEMMA StepWhole ==
    ASSUME Calm, Sure, Next
    PROVE  Whole' /\ Pace'
  <1> USE DEF Sure, Kept
  <1>1. ASSUME bound'["core0"] = bound["core0"],
               \A e \in Core : \/ Resting(e)
                               \/ \E s \in Spot, t \in Spot : s # t /\ Moved(e, s, t)
        PROVE  Whole'
    <2>1. \A e \in Core : Total(e)' = Total(e) /\ All(e)' = All(e)
      <3>1. \A e \in Core, u \in Spot : Hold(e, u) \in Seq(Buffer)
        BY HoldType
      <3> QED BY <1>1, <3>1, RestingKeeps, MovedKeeps
    <2> QED BY <1>1, <2>1 DEF Whole
  <1>2. ASSUME NEW c \in Core, Setup(c) PROVE Whole' /\ Pace'
    BY <1>1, <1>2, SetupStill, SetupOpened, SetupUnnoticed, SamePace
  <1>3. ASSUME NEW c \in Core, KickPeer(c) PROVE Whole' /\ Pace'
    BY <1>1, <1>3, KickStill, KickUnnoticed, SamePace
  <1>4. ASSUME NEW c \in Core, Interrupt(c) \/ Note(c) \/ Drained(c) PROVE Whole' /\ Pace'
    BY <1>1, <1>4, HandlerStill, HandlerUnnoticed, SamePace
  <1>5. ASSUME Open("core0") PROVE Whole' /\ Pace'
    BY <1>5, OpenFills, OpenUnnoticed, SamePace DEF Whole
  <1>6. ASSUME NEW c \in Core, Works(c) PROVE Whole' /\ Pace'
    <2>1. bound'["core0"] = bound["core0"]
      BY <1>6, WorkFlows
    <2>2. CASE Send(c)
      BY <1>1, <2>1, <2>2, SendMoves, RequestPace, AnswerPace, CoreFacts DEF Spot
    <2>3. CASE Receive(c)
      BY <1>1, <2>1, <2>3, ReceiveMoves, ReceiveUnnoticed, SamePace, CoreFacts DEF Spot
    <2>4. CASE Drain(c)
      BY <1>1, <2>1, <2>4, DrainDelivers, DrainUnnoticed, SamePace, CoreFacts DEF Spot
    <2>5. CASE VerifyReply
      BY <1>1, <2>1, <2>5, VerifyMoves, VerifyPace, CoreFacts DEF Spot
    <2>6. CASE Process
      BY <1>1, <2>1, <2>6, ProcessMoves, ProcessPace, CoreFacts DEF Spot
    <2>7. CASE CreateReply
      BY <1>1, <2>1, <2>7, CreateReplyMoves, CreateReplyPace, CoreFacts DEF Spot
    <2>8. ASSUME NEW oneway \in BOOLEAN, CreateRequest(oneway) PROVE Whole' /\ Pace'
      BY <1>1, <2>1, <2>8, CreateRequestMoves, CreateRequestPace, CoreFacts DEF Spot
    <2> QED BY <1>6, <2>2, <2>3, <2>4, <2>5, <2>6, <2>7, <2>8 DEF Works
  <1> QED BY <1>2, <1>3, <1>4, <1>5, <1>6, StepKinds

LEMMA SureHolds ==
    ASSUME Calm
    PROVE  Spec => []Sure
  <1>1. Init => Sure
    <2> SUFFICES ASSUME Init PROVE Sure
      OBVIOUS
    <2>1. Kept /\ LinkInv
      BY InitKept, InitLink
    <2>2. ~bound["core0"] /\ pc["core0"] = "enable" /\ pc["core1"] = "held" /\ oneways = 0
      BY DEF Init, Core
    <2>3. \A c \in Core, s \in Spot : Hold(c, s) = <<>>
      BY <2>1, <2>2 DEF Kept, Opened
    <2>4. Calls = <<>> /\ Answers = <<>>
      BY <2>3, CoreFacts DEF Calls, Answers, Flight, Spot
    <2>5. Whole /\ Pace
      BY <2>2, <2>4 DEF Whole, Pace, Waits, Unasked, Late0
    <2> QED BY <2>1, <2>5 DEF Sure
  <1>2. Sure /\ [Next]_vars => Sure'
    <2> SUFFICES ASSUME Sure, [Next]_vars PROVE Sure'
      OBVIOUS
    <2>1. LinkInv' /\ Kept'
      BY StepLink, StepKept DEF Sure, Calm
    <2>2. CASE Next
      BY <2>1, <2>2, StepWhole DEF Sure
    <2>3. CASE UNCHANGED vars
      <3>1. Whole'
        <4>1. \A c \in Core : Resting(c) /\ bound' = bound
          BY <2>3, SameHold DEF vars, rings
        <4> QED BY <4>1, RestingKeeps DEF Sure, Whole
      <3>2. Pace'
        <4>1. UNCHANGED <<pc, hand, mem, seq, oneways, ept, ring, inbox>>
          BY <2>3 DEF vars, rings
        <4>2. \A c \in Core : Resting(c)
          BY <4>1, SameHold
        <4>3. Calls' = Calls /\ Answers' = Answers
          BY <4>2, FlightRests DEF Sure, Kept
        <4>4. Waits' = Waits
          BY <4>1 DEF Waits
        <4>5. Unnoticed
          BY <4>1, <4>3, <4>4 DEF Unnoticed, Sure, Pace
        <4> QED BY <4>5, SamePace DEF Sure
      <3> QED BY <2>1, <3>1, <3>2 DEF Sure
    <2> QED BY <2>2, <2>3
  <1> QED BY <1>1, <1>2, PTL DEF Spec

THEOREM BuffersAreWhole ==
    ASSUME ~Hurried, Burst <= N - 2
    PROVE  Spec => []BuffersOnce
  <1>1. Calm
    BY DEF Calm
  <1>2. Sure => BuffersOnce
    BY PlacesIs DEF Sure, Kept
  <1> QED BY <1>1, <1>2, SureHolds, PTL
-----------------------------------------------------------------------------
(* The link implements RpcChannel. *)
Told(bs) == [i \in 1 .. Len(bs) |-> mem.call[bs[i]]]
Waiting == IF Waits THEN seq.core0 ELSE Nothing

Coming ==
    IF Answers # <<>> THEN mem.reply[Head(Answers)].seq
    ELSE IF pc["core1"] = "answer" THEN seq.core1
    ELSE IF pc["core1"] = "send" THEN mem.reply[hand.core1].seq
    ELSE Nothing

\* What the channel sees, in terms of the messages in flight.
LEMMA Seen == Sure => InOrder = Told(Calls) /\ Answer = Coming
  <1> SUFFICES ASSUME Sure PROVE InOrder = Told(Calls) /\ Replies = Answers
    BY DEF Answer, Coming
  <1>1. pc["core1"] # "verify" /\ pc["core0"] # "process"
    BY DEF Sure, Kept, Hands, Early0, Begin0, Mid0, Late0, Early1, Late1
  <1>2. Calls = (IF pc["core1"] = "process" THEN <<hand.core1>> ELSE <<>>)
                  \o inbox["core1"] \o Listed(ring["call"].filled)
    BY <1>1, HoldIs, CoreFacts DEF Calls, Flight
  <1>3. Answers = (IF pc["core0"] = "verify" THEN <<hand.core0>> ELSE <<>>)
                    \o inbox["core0"] \o Listed(ring["reply"].filled)
    BY <1>1, HoldIs, CoreFacts DEF Answers, Flight
  <1> QED BY <1>2, <1>3 DEF InOrder, Told, Replies

LEMMA SeenNext == Sure' => (InOrder = Told(Calls) /\ Answer = Coming)'
  BY Seen, PTL

\* A list of requests that grows at one end or shrinks at the other.
LEMMA ToldIs ==
    ASSUME Sure
    PROVE  /\ Calls \in Seq(Buffer) /\ Len(Calls) \in Nat
           /\ \A b \in Buffer : mem.call[b] \in Message
           /\ Told(Calls) \in Seq(Message) /\ Len(Told(Calls)) = Len(Calls)
           /\ \A i \in 1 .. Len(Calls) : Told(Calls)[i] = mem.call[Calls[i]]
  <1>1. Calls \in Seq(Buffer) /\ Len(Calls) \in Nat
    BY FlightIs, CoreFacts DEF Sure, Kept, Calls
  <1>2. \A b \in Buffer : mem.call[b] \in Message
    BY CoreFacts DEF Sure, Kept, Values
  <1>3. \A i \in 1 .. Len(Calls) : Calls[i] \in Buffer
    BY <1>1, LenProperties
  <1>4. Told(Calls) = [i \in 1 .. Len(Calls) |-> mem.call[Calls[i]]]
    BY DEF Told
  <1>5. Told(Calls) \in Seq(Message) /\ Len(Told(Calls)) = Len(Calls)
    BY <1>1, <1>2, <1>3, <1>4
  <1> QED BY <1>1, <1>2, <1>4, <1>5

LEMMA ToldAppend ==
    ASSUME NEW s \in Seq(Buffer), NEW b \in Buffer, \A a \in Buffer : mem.call[a] \in Message
    PROVE  Told(Append(s, b)) = Append(Told(s), mem.call[b])
  <1> DEFINE t == Append(s, b)
             u == Told(s)
  <1>1. /\ t \in Seq(Buffer) /\ Len(t) = Len(s) + 1 /\ Len(s) \in Nat
        /\ \A i \in 1 .. Len(s) + 1 : t[i] = IF i <= Len(s) THEN s[i] ELSE b
    BY AppendIs
  <1>2. \A i \in 1 .. Len(s) : s[i] \in Buffer
    BY LenProperties
  <1>3. u \in Seq(Message) /\ Len(u) = Len(s) /\ \A i \in 1 .. Len(s) : u[i] = mem.call[s[i]]
    BY <1>1, <1>2 DEF Told
  <1>4. /\ Append(u, mem.call[b]) \in Seq(Message) /\ Len(Append(u, mem.call[b])) = Len(u) + 1
        /\ \A i \in 1 .. Len(u) + 1 :
               Append(u, mem.call[b])[i] = IF i <= Len(u) THEN u[i] ELSE mem.call[b]
    BY <1>3, AppendIs
  <1>5. /\ Told(t) \in Seq(Message) /\ Len(Told(t)) = Len(s) + 1
        /\ \A i \in 1 .. Len(s) + 1 : Told(t)[i] = mem.call[t[i]]
    <2> HIDE DEF t
    <2>1. \A i \in 1 .. Len(t) : t[i] \in Buffer
      BY <1>1, LenProperties
    <2> QED BY <1>1, <2>1 DEF Told
  <1> HIDE DEF t, u
  <1>6. \A i \in 1 .. Len(s) + 1 : Told(t)[i] = Append(u, mem.call[b])[i]
    BY <1>1, <1>3, <1>4, <1>5
  <1>7. Told(t) = Append(u, mem.call[b])
    BY <1>3, <1>4, <1>5, <1>6, SeqEqual
  <1> QED BY <1>7 DEF t, u

LEMMA ToldTail ==
    ASSUME NEW s \in Seq(Buffer), s # <<>>, \A a \in Buffer : mem.call[a] \in Message
    PROVE  /\ Told(s) # <<>> /\ Head(Told(s)) = mem.call[Head(s)]
           /\ Told(Tail(s)) = Tail(Told(s))
  <1> DEFINE t == Tail(s)
             u == Told(s)
  <1>1. /\ t \in Seq(Buffer) /\ Len(t) = Len(s) - 1 /\ Len(s) \in Nat \ {0} /\ Head(s) = s[1]
        /\ \A i \in 1 .. Len(s) - 1 : t[i] = s[i + 1]
    BY TailIs
  <1>2. \A i \in 1 .. Len(s) : s[i] \in Buffer
    BY LenProperties
  <1>3. u \in Seq(Message) /\ Len(u) = Len(s) /\ \A i \in 1 .. Len(s) : u[i] = mem.call[s[i]]
    BY <1>1, <1>2 DEF Told
  <1>4. u # <<>>
    BY <1>1, <1>3, EmptySeq
  <1>5. /\ Tail(u) \in Seq(Message) /\ Len(Tail(u)) = Len(u) - 1 /\ Head(u) = u[1]
        /\ \A i \in 1 .. Len(u) - 1 : Tail(u)[i] = u[i + 1]
    BY <1>3, <1>4, TailIs
  <1>6. /\ Told(t) \in Seq(Message) /\ Len(Told(t)) = Len(s) - 1
        /\ \A i \in 1 .. Len(s) - 1 : Told(t)[i] = mem.call[t[i]]
    <2> HIDE DEF t
    <2>1. \A i \in 1 .. Len(t) : t[i] \in Buffer
      BY <1>1, LenProperties
    <2> QED BY <1>1, <2>1 DEF Told
  <1> HIDE DEF t, u
  <1>7. ASSUME NEW i \in 1 .. Len(s) - 1 PROVE Told(t)[i] = Tail(u)[i]
    <2>1. i + 1 \in 1 .. Len(s)
      BY <1>1
    <2>2. Tail(u)[i] = u[i + 1]
      BY <1>3, <1>5
    <2>3. u[i + 1] = mem.call[s[i + 1]]
      BY <1>3, <2>1
    <2> QED BY <1>1, <1>6, <2>2, <2>3
  <1>8. Told(t) = Tail(u)
    BY <1>1, <1>3, <1>5, <1>6, <1>7, SeqEqual
  <1>9. Head(u) = mem.call[Head(s)]
    BY <1>1, <1>3, <1>5
  <1> QED BY <1>4, <1>8, <1>9 DEF t, u

Silent == Told(Calls)' = Told(Calls) /\ Coming' = Coming /\ Waiting' = Waiting

LEMMA UnnoticedSilent ==
    ASSUME Sure, Unnoticed
    PROVE  Silent
  <1> USE DEF Unnoticed
  <1>1. Told(Calls)' = Told(Calls)
    BY DEF Told
  <1>2. Coming' = Coming
    BY DEF Coming
  <1>3. Waiting' = Waiting
    BY DEF Waiting
  <1> QED BY <1>1, <1>2, <1>3 DEF Silent

\* What a step of the link is to the channel.
Asks ==
    \E m \in Message :
        /\ Waiting = Nothing
        /\ Told(Calls)' = Append(Told(Calls), m)
        /\ Waiting' = IF m.oneway THEN Nothing ELSE m.seq
        /\ Coming' = Coming
Serves ==
    /\ Told(Calls) # <<>>
    /\ Told(Calls)' = Tail(Told(Calls))
    /\ Coming' = IF Head(Told(Calls)).oneway THEN Coming ELSE Head(Told(Calls)).seq
    /\ Waiting' = Waiting
Returns ==
    /\ Waiting # Nothing /\ Coming = Waiting
    /\ Coming' = Nothing /\ Waiting' = Nothing
    /\ Told(Calls)' = Told(Calls)

LEMMA RequestAsks ==
    ASSUME Sure, Send("core0")
    PROVE  Asks
  <1>1. /\ ~Waits /\ Calls' = Append(Calls, hand["core0"]) /\ Answers' = Answers
        /\ hand["core0"] \in Buffer
        /\ Waits' <=> ~mem["call"][hand["core0"]].oneway
    BY RequestPace
  <1>2. /\ pc["core0"] = "send" /\ pc'["core1"] = pc["core1"] /\ UNCHANGED <<mem, seq>>
    BY DEF Send, At, Goto, Sure, Kept, Hands
  <1>3. /\ Answers = <<>> /\ pc["core1"] \notin {"answer", "send"}
        /\ mem["call"][hand["core0"]].seq = seq["core0"]
    BY <1>1, <1>2 DEF Sure, Pace, Unasked
  <1>4. Coming' = Coming
    BY <1>1, <1>2, <1>3 DEF Coming
  <1>5. PICK m \in Message : m = mem["call"][hand["core0"]]
    BY <1>1, ToldIs
  <1>6. Told(Calls)' = Append(Told(Calls), m)
    <2>1. Told(Append(Calls, hand["core0"])) = Append(Told(Calls), m)
      BY <1>1, <1>5, ToldIs, ToldAppend
    <2>2. Told(Calls)' = Told(Append(Calls, hand["core0"]))
      BY <1>1, <1>2 DEF Told
    <2> QED BY <2>1, <2>2
  <1>7. Waiting = Nothing /\ Waiting' = IF m.oneway THEN Nothing ELSE m.seq
    BY <1>1, <1>2, <1>3, <1>5 DEF Waiting
  <1> QED BY <1>4, <1>6, <1>7 DEF Asks

LEMMA ProcessServes ==
    ASSUME Sure, Process
    PROVE  Serves
  <1>1. /\ Waits' = Waits
        /\ Calls # <<>> /\ Calls' = Tail(Calls) /\ Head(Calls) = hand["core1"]
        /\ Answers = <<>> /\ Answers' = <<>> /\ pc["core1"] = "process"
        /\ mem' = mem /\ seq'["core0"] = seq["core0"]
        /\ seq'["core1"] = mem["call"][Head(Calls)].seq
        /\ pc'["core1"] = IF mem["call"][Head(Calls)].oneway THEN "poll" ELSE "answer"
    BY ProcessPace
  <1>2. /\ Told(Calls) # <<>> /\ Head(Told(Calls)) = mem["call"][Head(Calls)]
        /\ Told(Tail(Calls)) = Tail(Told(Calls))
    BY <1>1, ToldIs, ToldTail
  <1>3. Told(Calls)' = Tail(Told(Calls))
    <2>1. Told(Calls)' = Told(Tail(Calls))
      BY <1>1 DEF Told
    <2> QED BY <1>2, <2>1
  <1>4. Coming = Nothing
    BY <1>1 DEF Coming
  <1>5. Coming' = IF mem["call"][Head(Calls)].oneway THEN Nothing ELSE mem["call"][Head(Calls)].seq
    BY <1>1 DEF Coming
  <1>6. Waiting' = Waiting
    BY <1>1 DEF Waiting
  <1> QED BY <1>2, <1>3, <1>4, <1>5, <1>6 DEF Serves

LEMMA VerifyReturns ==
    ASSUME Sure, VerifyReply
    PROVE  Returns
  <1>1. /\ Waits /\ ~Waits' /\ Calls = <<>> /\ Calls' = <<>>
        /\ Answers # <<>> /\ Answers' = <<>>
        /\ mem["reply"][Head(Answers)].seq = seq["core0"]
        /\ pc["core1"] \notin {"answer", "send"} /\ UNCHANGED <<seq, mem>>
    BY VerifyPace
  <1>2. pc'["core1"] = pc["core1"]
    BY DEF VerifyReply, At, Goto, Sure, Kept, Hands
  <1>3. Told(Calls)' = Told(Calls)
    BY <1>1 DEF Told
  <1>4. Coming = seq["core0"] /\ Coming' = Nothing
    BY <1>1, <1>2 DEF Coming
  <1>5. Waiting = seq["core0"] /\ Waiting' = Nothing
    BY <1>1 DEF Waiting
  <1>6. seq["core0"] # Nothing
    <2>1. seq["core0"] \in 0 .. SeqNos - 1
      BY CoreFacts DEF Sure, Kept, Values
    <2>2. seq["core0"] \in Nat
      BY <2>1, RingAssumption
    <2> QED BY <2>2, NumberAssumption
  <1> QED BY <1>3, <1>4, <1>5, <1>6 DEF Returns

LEMMA ReplySilent ==
    ASSUME Sure, Send("core1") \/ CreateReply
    PROVE  Silent
  <1>1. CASE Send("core1")
    <2>1. /\ Waits /\ Waits' /\ Calls' = <<>> /\ Calls = <<>>
          /\ Answers = <<>> /\ Answers' = <<hand["core1"]>>
      BY <1>1, AnswerPace
    <2>2. pc["core1"] = "send" /\ UNCHANGED <<mem, seq>>
      BY <1>1 DEF Send, At
    <2>3. Answers' # <<>> /\ Head(Answers') = hand["core1"]
      BY <2>1
    <2>4. Coming = mem.reply[hand.core1].seq /\ Coming' = mem.reply[hand.core1].seq
      BY <2>1, <2>2, <2>3 DEF Coming
    <2> QED BY <2>1, <2>2, <2>4 DEF Silent, Told, Waiting
  <1>2. CASE CreateReply
    <2>1. /\ Waits /\ Waits' /\ Calls = <<>> /\ Calls' = <<>>
          /\ Answers = <<>> /\ Answers' = <<>> /\ seq' = seq
          /\ pc["core1"] = "answer" /\ pc'["core1"] = "send"
          /\ mem'["reply"][hand'["core1"]].seq = seq["core1"]
      BY <1>2, CreateReplyPace
    <2>2. Coming = seq.core1 /\ Coming' = seq.core1
      BY <2>1 DEF Coming
    <2>3. Told(Calls)' = Told(Calls)
      BY <2>1 DEF Told
    <2> QED BY <2>1, <2>2, <2>3 DEF Silent, Waiting
  <1> QED BY <1>1, <1>2

LEMMA CreateRequestSilent ==
    ASSUME Sure, NEW oneway \in BOOLEAN, CreateRequest(oneway)
    PROVE  Silent
  <1>1. /\ ~Waits /\ ~Waits' /\ Calls' = Calls /\ Answers = <<>> /\ Answers' = <<>>
        /\ pc["core1"] \notin {"answer", "send"} /\ pc'["core1"] = pc["core1"]
        /\ \A i \in 1 .. Len(Calls) : mem'["call"][Calls[i]] = mem["call"][Calls[i]]
    BY CreateRequestPace
  <1>2. Told(Calls)' = Told(Calls)
    BY <1>1 DEF Told
  <1>3. Coming' = Coming
    BY <1>1 DEF Coming
  <1>4. Waiting' = Waiting
    BY <1>1 DEF Waiting
  <1> QED BY <1>2, <1>3, <1>4 DEF Silent

LEMMA StepSeen ==
    ASSUME Calm, Sure, [Next]_vars
    PROVE  Silent \/ Asks \/ Serves \/ Returns
  <1>1. ASSUME NEW c \in Core, Setup(c) \/ KickPeer(c) \/ Open("core0") \/ Interrupt(c) \/ Note(c)
                               \/ Drained(c) \/ Drain(c) \/ Receive(c)
        PROVE  Silent
    BY <1>1, SetupUnnoticed, KickUnnoticed, OpenUnnoticed, HandlerUnnoticed, DrainUnnoticed,
       ReceiveUnnoticed, UnnoticedSilent
  <1>2. ASSUME NEW c \in Core, Works(c) PROVE Silent \/ Asks \/ Serves \/ Returns
    BY <1>1, <1>2, RequestAsks, ReplySilent, VerifyReturns, ProcessServes, CreateRequestSilent
       DEF Works, Core
  <1>3. CASE UNCHANGED vars
    BY <1>3 DEF vars, rings, Silent, Told, Coming, Waiting, Waits, Calls, Answers, Flight, Hold
  <1> QED BY <1>1, <1>2, <1>3, StepKinds

THEOREM ChannelImplemented ==
    ASSUME ~Hurried, Burst <= N - 2
    PROVE  Spec => RefinesRpcChannel
  <1>1. Calm
    BY DEF Calm
  <1>2. Init => Channel!Init
    <2> SUFFICES ASSUME Init PROVE Channel!Init
      OBVIOUS
    <2>1. /\ inbox["core0"] = <<>> /\ inbox["core1"] = <<>> /\ pc["core0"] = "enable"
          /\ pc["core1"] = "held"
          /\ \A d \in Direction : ring[d].filled = NoBuffers
      BY CoreFacts DEF Init
    <2>2. Listed(NoBuffers) = <<>>
      BY NewRings
    <2>3. ~Waits
      BY <2>1 DEF Waits
    <2>4. InOrder = <<>>
      BY <2>1, <2>2 DEF InOrder, Direction
    <2>5. Answer = Nothing
      BY <2>1, <2>2 DEF Answer, Replies, Direction
    <2> QED BY <2>3, <2>4, <2>5 DEF Channel!Init
  <1>3. Sure /\ Sure' /\ [Next]_vars => [Channel!Next]_Channel!rpcvars
    <2> SUFFICES ASSUME Sure, Sure', [Next]_vars PROVE [Channel!Next]_Channel!rpcvars
      OBVIOUS
    <2>1. /\ InOrder = Told(Calls) /\ Answer = Coming
          /\ InOrder' = Told(Calls)' /\ Answer' = Coming'
      BY Seen, SeenNext
    <2>2. CASE Silent
      BY <2>1, <2>2 DEF Silent, Waiting, Channel!rpcvars
    <2>3. CASE Asks
      <3>1. \E m \in Channel!Request : Channel!Ask(m)
        BY <2>1, <2>3 DEF Asks, Waiting, Channel!Ask, Channel!Request, Message
      <3> QED BY <3>1 DEF Channel!Next
    <2>4. CASE Serves
      BY <2>1, <2>4 DEF Serves, Waiting, Channel!Serve, Channel!Next
    <2>5. CASE Returns
      BY <2>1, <2>5 DEF Returns, Waiting, Channel!Return, Channel!Next
    <2> QED BY <1>1, <2>2, <2>3, <2>4, <2>5, StepSeen
  <1> QED BY <1>1, <1>2, <1>3, SureHolds, PTL DEF Spec, RefinesRpcChannel, Channel!Spec
=============================================================================
