------------------------------ MODULE IpcEvents ------------------------------
(***************************************************************************)
(* The events the two cores send each other through the mailbox            *)
(* (components/ipc_event_mgr): one register of one word in each direction, *)
(* and on each core a table of callbacks by event type.  An event is       *)
(* written to the register of the peer; when the register still holds the  *)
(* last one, the driver refuses and ipc_tigger_event says success all the  *)
(* same.  The receiving core takes the word in its interrupt handler.      *)
(***************************************************************************)
CONSTANT Nothing

Core == {"core0", "core1"}
Peer(c) == IF c = "core0" THEN "core1" ELSE "core0"

\* ipc_remote_start_event and ipc_remote_rpmsg_event, with their data
Type == {"start", "rpmsg"}
Event == [type : Type, data : {"ready", "call", "reply"}]

ASSUME NothingAssumption == Nothing \notin Event

VARIABLES word,  \* word[c]: the event in the register core c reads
          on,    \* on[c]: whether the mailbox interrupt of core c is enabled
          table  \* table[c]: the event types core c has a callback for

ipcvars == <<word, on, table>>

IpcTypeOK ==
    /\ word \in [Core -> Event \cup {Nothing}]
    /\ on \in [Core -> BOOLEAN]
    /\ table \in [Core -> SUBSET Type]

IpcInit ==
    /\ word = [c \in Core |-> Nothing]
    /\ on = [c \in Core |-> FALSE]
    /\ table = [c \in Core |-> {}]

\* ipc_enable_event_interrupt and ipc_disable_event_interrupt
EnableEvents(c) == on' = [on EXCEPT ![c] = TRUE]
DisableEvents(c) == on' = [on EXCEPT ![c] = FALSE]

\* ipc_register_event
Register(c, t) == table' = [table EXCEPT ![c] = @ \cup {t}]

\* ipc_tigger_event on core c: a full register keeps what it holds.
Trigger(c, e) == word' = [word EXCEPT ![Peer(c)] = IF @ = Nothing THEN e ELSE @]

\* mbx_isr: the word is taken, which frees the register.
Pending(c) == on[c] /\ word[c] # Nothing
Retrieve(c) == word' = [word EXCEPT ![c] = Nothing]

\* ipc_event_handler calls nobody for a type that is not registered.
Answered(c, e) == e.type \in table[c]
=============================================================================
