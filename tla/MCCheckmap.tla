---------------------------- MODULE MCCheckmap ----------------------------
(***************************************************************************)
(* Checkmap for TLC: the geometry of MCBlockmap, fewer volume sets and a   *)
(* few allocations after formatting, so that the state space left over     *)
(* goes to the ways of linking and damaging the filesystem.                *)
(***************************************************************************)
EXTENDS Checkmap

Arg(o, n, sfx) == [opt |-> o, num |-> n, suffix |-> sfx]
File(bytes)    == [kind |-> "regfile", size |-> bytes, sector_size |-> 0,
                   discards |-> FALSE]

\* A root volume of 5 big-blocks, the layer2 entries behind them
\* unavailable, and one of 7 with a second volume of 4, behind 12 bytes of
\* header areas;
\* newfs_hammer -f -L, with an UNDO FIFO of one big-block and of two.
MCStarts ==
    {[options |-> <<Arg("f", 0, ""), Arg("L", 0, "")>> \o undo, specials |-> specials] :
        undo \in {<< >>, <<Arg("u", 6, "k")>>},
        specials \in {<<File(52)>>, <<File(68), File(44)>>}}

\* A record that is rounded up, and one that fills a buffer.
MCAllocSizes == {3, 4}

MCVerboseOpts == 0..2

\* A record of the meta zone and data.
MCLinkRecTypes == {"DIRENTRY", "DATA"}

\* Bit 3 turns a free big-block into one of the B-Tree zone and back, and
\* every other zone into one the big-block cannot have.  Bit 2 turns a
\* big-block of small data into an unavailable one in the middle of its
\* table, and an unavailable entry behind the volume into one of small
\* data.
MCCorruptBits == {2, 3}

\* Bit 4 of the uint8_t makes a zone of 16 or more of every zone.
MCHighBits == {4}
=============================================================================
