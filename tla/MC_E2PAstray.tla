----------------------------- MODULE MC_E2PAstray -----------------------------
(***************************************************************************)
(* A small area for E2PAstray.                                             *)
(***************************************************************************)
EXTENDS E2PAstray, TLC

ASSUME InfoFitsSector == (MaxVar + 2) * BLK < EraseSize

\* Ids and values are interchangeable.
Symmetry == Permutations(Id) \cup Permutations(Val)
=============================================================================
