------------------------------ MODULE KVStore ------------------------------
(***************************************************************************)
(* What the EEPROM emulation promises its application: a map from ids to   *)
(* values in which a write either takes effect at once or is refused, and  *)
(* is refused for want of room only if the values that are stored, each    *)
(* with its bookkeeping, really leave none (eeprom_emulation.h l.120-171). *)
(***************************************************************************)
EXTENDS Integers, Sequences, FiniteSets

CONSTANTS
    Id,        \* the ids of the variables
    Room,      \* what values and bookkeeping share
    PerValue,  \* the bookkeeping of one value
    MaxVar     \* the number of variables

VARIABLES
    kv,        \* the value of each id, << >> for none
    req,       \* the write in progress, its cells << >> for none
    ret        \* the last call that returned, and what

None == << >>
Idle == req.cells = None
Stored == {id \in Id : kv[id] # None}
Return(api, st) == ret' = [api |-> api, st |-> st]

\* The room the stored values take.
Used == LET used[S \in SUBSET Id] ==
                IF S = {} THEN 0
                ELSE LET id == CHOOSE x \in S : TRUE
                     IN  Len(kv[id]) + PerValue + used[S \ {id}]
        IN  used[Stored]

Init ==
    /\ kv = [id \in Id |-> None]
    /\ Idle
    /\ ret = [api |-> "none", st |-> "ok"]

\* The application asks for a write.
Ask ==
    /\ Idle /\ req'.cells # None
    /\ req'.id \in Id
    /\ UNCHANGED <<kv, ret>>

\* The write is done ...
Put ==
    /\ ~Idle /\ req'.cells = None
    /\ req.id \in Stored \/ Cardinality(Stored) < MaxVar
    /\ kv' = [kv EXCEPT ![req.id] = req.cells]
    /\ Return("write", "ok")

\* ... or refused: one variable too many, or no room for the value.
RefuseCount ==
    /\ ~Idle /\ req'.cells = None
    /\ req.id \notin Stored /\ Cardinality(Stored) >= MaxVar
    /\ Return("write", "mul_var")
    /\ UNCHANGED kv

RefuseRoom ==
    /\ ~Idle /\ req'.cells = None
    /\ Used + Len(req.cells) + PerValue > Room
    /\ Return("write", "no_mem")
    /\ UNCHANGED kv

\* A format, or the first configuration with another version.
Wipe == Idle /\ kv' = [id \in Id |-> None] /\ UNCHANGED <<req, ret>>

\* Configuration and flush leave the values alone.
Maintain ==
    /\ Idle
    /\ \/ \E st \in {"ok", "no_mem"} : Return("config", st)
       \/ Return("flush", "ok")
    /\ UNCHANGED <<kv, req>>

Next == Ask \/ Put \/ RefuseCount \/ RefuseRoom \/ Wipe \/ Maintain

KVSpec == Init /\ [][Next]_<<kv, req, ret>>
=============================================================================
