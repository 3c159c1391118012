------------------------------- MODULE MC_E2P -------------------------------
(***************************************************************************)
(* Small areas for E2P.  An area of two sectors is enough for every case   *)
(* of the layout: data below, beside and inside the info sector; a third   *)
(* sector gives the flush sectors between data and info to erase.          *)
(***************************************************************************)
EXTENDS E2P, TLC

\* The sizes of the real project leave room for a version block and a block
\* per variable inside one sector: (100 + 2) * 20 < 4096.
ASSUME InfoFitsSector == (MaxVar + 2) * BLK < EraseSize

\* Ids and values are interchangeable.
Symmetry == Permutations(Id) \cup Permutations(Val)
=============================================================================
