--------------------------- MODULE MCBufferCache ---------------------------
(***************************************************************************)
(* BufferCache for TLC: two files, the programs that open them and the     *)
(* headers they find, two buffers a volume, a read-ahead window of one     *)
(* buffer each way, and a cache that keeps two buffers.                    *)
(***************************************************************************)
EXTENDS BufferCache

CONSTANTS f0, f1, h1, h2

MCFiles == {f0, f1}
MCHolders == {h1, h2}

\* One buffer is read behind (UseReadBehind is -4 in the program).
MCReadBehind == -1

Formatted(vol_no, id) ==
    [format |-> "ok", vol_no |-> vol_no, fsid |-> id, buf_end |-> NumBufs]

\* A filesystem of two volumes; the same with its second volume numbered as
\* the first; with a second volume of another filesystem; with a second
\* volume that has no HAMMER signature; and two blank files.
Good      == (f0 :> Formatted(0, 1)) @@ (f1 :> Formatted(1, 1))
Duplicate == (f0 :> Formatted(0, 1)) @@ (f1 :> Formatted(0, 1))
Foreign   == (f0 :> Formatted(0, 1)) @@ (f1 :> Formatted(1, 2))
Unsigned  == (f0 :> Formatted(0, 1)) @@ (f1 :> [Formatted(1, 1) EXCEPT !.format = "signature"])
Blank     == [f \in MCFiles |-> ZeroHeader(0)]

\* newfs_hammer; the commands that read (blockmap, checkmap); hammer strip.
Newfs   == [init |-> TRUE,  rdonly |-> FALSE, verify |-> FALSE]
Reader  == [init |-> FALSE, rdonly |-> TRUE,  verify |-> TRUE]
Strip   == [init |-> FALSE, rdonly |-> FALSE, verify |-> FALSE]

MCStarts ==
    {[tool |-> Newfs, hdr |-> Blank], [tool |-> Strip, hdr |-> Foreign]}
    \cup {[tool |-> Reader, hdr |-> h] : h \in {Good, Duplicate, Foreign, Unsigned}}

HolderSymmetry == Permutations(MCHolders)
=============================================================================
