------------------------------ MODULE NorFlash ------------------------------
(***************************************************************************)
(* The serial NOR flash under components/eeprom_emulation, seen through    *)
(* the three calls of port/hpm_nor_flash.c: read, program, erase by        *)
(* sector.  A flash is a function from addresses to cells.  Programming    *)
(* only clears bits: a cell that is written twice without an erase in      *)
(* between keeps its content if the two contents agree and is Mixed (the   *)
(* bitwise AND of the two) otherwise.  Programming 0xFF changes nothing.   *)
(*                                                                         *)
(* The content of a cell is kept only as far as the properties tell it     *)
(* apart: a byte of user data is the value it belongs to and its offset    *)
(* in that value, a byte of an info block is the block and its part.       *)
(***************************************************************************)
EXTENDS Integers, Sequences

\* 0xFF, and the AND of two different programmed contents.
Erased == [kind |-> "erased"]
Mixed  == [kind |-> "mixed"]

\* Byte number off of a user value val.
DataCell(val, off) == [kind |-> "data", val |-> val, off |-> off]

\* Part number part of the info block blk.
InfoCell(blk, part) == [kind |-> "info", blk |-> blk, part |-> part]

\* One cell after programming new over old.
Nor(old, new) ==
    IF old = Erased THEN new
    ELSE IF new \in {Erased, old} THEN old
    ELSE Mixed

\* The flash after programming the sequence cells from address a on.
Program(flash, a, cells) ==
    [x \in DOMAIN flash |-> IF x \in a .. a + Len(cells) - 1
                              THEN Nor(flash[x], cells[x - a + 1])
                              ELSE flash[x]]

\* The flash after erasing size cells from address a on.
EraseRange(flash, a, size) ==
    [x \in DOMAIN flash |-> IF x \in a .. a + size - 1 THEN Erased ELSE flash[x]]

\* The cells read from address a on; what lies outside the area is unknown.
ReadCells(flash, a, len) ==
    [k \in 1 .. len |-> IF a + k - 1 \in DOMAIN flash THEN flash[a + k - 1] ELSE Mixed]
=============================================================================
