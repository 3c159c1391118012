------------------------------ MODULE NorStore ------------------------------
(***************************************************************************)
(* What components/serial_nor promises its caller (hpm_serial_nor.h): a    *)
(* call that succeeds has had its whole effect on the flash, or has read   *)
(* what the flash holds; one that fails has changed nothing outside the    *)
(* range it was asked for.                                                 *)
(***************************************************************************)
EXTENDS NorFlash

CONSTANTS Effect(_, _),   \* the flash after a call that succeeds
          Covers(_),      \* the addresses a call may change
          Idle            \* no call

VARIABLES flash,    \* the cells
          call,     \* the call under way
          result    \* of the last one: [stat, data]

vars == <<flash, call, result>>

Ask == /\ call = Idle /\ call' # Idle
       /\ result' = [stat |-> "pending", data |-> << >>]
       /\ UNCHANGED flash

Succeeds ==
    /\ call # Idle /\ call' = Idle
    /\ flash' = Effect(flash, call)
    /\ result' = [stat |-> "success",
                  data |-> IF call.op = "read" THEN ReadCells(flash, call.a, call.len) ELSE << >>]

Fails ==
    /\ call # Idle /\ call' = Idle
    /\ \A x \in DOMAIN flash \ Covers(call) : flash'[x] = flash[x]
    /\ result' = [stat |-> "error", data |-> << >>]

Answer == Succeeds \/ Fails

Spec == call = Idle /\ [][Ask \/ Answer]_vars
=============================================================================
