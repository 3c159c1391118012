------------------------------ MODULE EnetPort ------------------------------
(***************************************************************************)
(* The network port of samples/lwip/common/arch/ethernetif.c: receiving    *)
(* and sending.  The two halves have their own descriptors, semaphores and *)
(* tasks and share no variable, so a behaviour of the port is one of each, *)
(* interleaved; TLC takes them one at a time, as half says.                *)
(***************************************************************************)
EXTENDS EnetRx, EnetTx

VARIABLE half   \* the half at work, chosen once

portvars == <<rxvars, txvars, half>>

\* low_level_init and the descriptor chains.
Init == RxInit /\ TxInit /\ half \in {"rx", "tx"}

Receiving == half = "rx" /\ RxNext /\ UNCHANGED <<txvars, half>>
Sending   == half = "tx" /\ TxNext /\ UNCHANGED <<rxvars, half>>
Next      == Receiving \/ Sending

Spec     == Init /\ [][Next]_portvars
FairSpec == Spec /\ RxFairness /\ TxFairness
=============================================================================
