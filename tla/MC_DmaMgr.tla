----------------------------- MODULE MC_DmaMgr -----------------------------
(***************************************************************************)
(* Small instances of DmaMgr: two callers, so that one can disturb the     *)
(* other or take over its channel.                                         *)
(***************************************************************************)
EXTENDS DmaMgr, TLC

\* The callers are interchangeable.
Symmetry == Permutations(Task)
=============================================================================
