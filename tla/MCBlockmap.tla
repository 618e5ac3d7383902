---------------------------- MODULE MCBlockmap ----------------------------
(***************************************************************************)
(* Blockmap for TLC: a big-block of two buffers of four bytes, six         *)
(* big-blocks under a layer1 entry, two layer1 entries per volume number.  *)
(* A volume header of three bytes, header junk, boot area and memory log   *)
(* of a buffer each by default, sectors of two bytes and a "kilo" of two.  *)
(***************************************************************************)
EXTENDS Blockmap

Flag(o)        == [opt |-> o, num |-> 0, suffix |-> ""]
Arg(o, n, sfx) == [opt |-> o, num |-> n, suffix |-> sfx]
File(bytes)    == [kind |-> "regfile", size |-> bytes, sector_size |-> 0,
                   discards |-> FALSE]
Disk(sectors, sector_size, discards) ==
    [kind |-> "device", size |-> sectors, sector_size |-> sector_size,
     discards |-> discards]
Newfs(options, specials) == [options |-> options, specials |-> specials]

OptL == Flag("L")
OptF == Flag("f")
OptE == Flag("E")

\* Root volumes of 1, 3, 5, 6 and 9 big-blocks behind 12 bytes of header
\* areas: too small to format, just large enough, with an unavailable tail;
\* then a second volume of 4 big-blocks, one of none, and a root volume of
\* 11, the most a volume number can address.  Most have a few bytes more
\* than their big-blocks need.
MCSpecials ==
    {<<File(23)>>, <<File(36)>>, <<Disk(26, 2, TRUE)>>, <<File(63)>>, <<File(84)>>,
     <<File(76), File(46)>>, <<File(68), File(17)>>, <<File(107), File(44)>>}

\* With and without -f; -u absent, and 12 bytes to be rounded up to two
\* big-blocks.
MCFormats ==
    {Newfs(force \o <<OptL>> \o undo, specials) :
        force \in {<< >>, <<OptF>>}, undo \in {<< >>, <<Arg("u", 6, "k")>>},
        specials \in MCSpecials}

V5 == <<File(52)>>

\* Command lines main() turns down.
MCRefused ==
    {Newfs(options, V5) : options \in
        {<<OptF>>, <<Flag("h")>>, <<Flag("?")>>, <<OptL, Arg("C", 0, "")>>,
         <<Arg("V", 8, "")>>, <<Arg("b", 4, "")>>, <<Arg("b", 1, "k")>>,
         <<OptL, Arg("b", 0, "k"), OptF>>, <<OptL, Arg("b", 16, "k")>>}}
    \cup {Newfs(<<OptL>>, << >>), Newfs(<<OptL>>, <<File(52), File(52), File(52)>>)}

\* Special files that cannot be formatted: not a file or a device, sectors
\* that do not divide a buffer, no TRIM, too small for the header areas (as
\* the first volume and as the second), too large for a volume number.
MCUnfit ==
    {Newfs(<<OptL>>, <<[File(52) EXCEPT !.kind = "other"]>>),
     Newfs(<<OptL>>, <<Disk(26, 0, TRUE)>>), Newfs(<<OptL>>, <<Disk(26, 3, TRUE)>>),
     Newfs(<<OptL>>, <<Disk(26, 8, TRUE)>>),
     Newfs(<<OptL, OptE>>, V5), Newfs(<<OptL, OptE>>, <<Disk(26, 2, FALSE)>>),
     Newfs(<<OptL>>, <<File(13)>>), Newfs(<<OptL>>, <<File(8)>>),
     Newfs(<<OptL>>, <<File(108)>>), Newfs(<<OptL>>, <<File(84), File(10)>>)}

\* Sizes given by hand, -f first where they are below the minimum: no boot
\* area, header junk below the header, the largest header junk and memory
\* log, an UNDO FIFO of one buffer, UNDO sizes and a boot area below zero;
\* TRIM of a device, and of a file under -f.
MCSized ==
    {Newfs(<<Flag("d"), Arg("C", 1, ""), Arg("V", 6, ""), OptF, OptL>> \o sizes, V5) :
        sizes \in {<<Arg("b", 0, "k")>>, <<Arg("j", 0, "k")>>,
                   <<Arg("j", 4, "k"), Arg("m", 4, "k")>>,
                   <<Arg("u", 2, "k")>>, <<Arg("u", -2, "k")>>,
                   <<Arg("u", -4, "k")>>, <<Arg("b", -2, "k")>>}}
    \cup {Newfs(<<OptL, OptE>>, <<Disk(26, 1, TRUE)>>), Newfs(<<OptF, OptL, OptE>>, V5)}

MCStarts == MCFormats \cup MCRefused \cup MCUnfit \cup MCSized

MCAllocSizes == 1..4
=============================================================================
