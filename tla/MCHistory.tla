----------------------------- MODULE MCHistory -----------------------------
(***************************************************************************)
(* History for TLC: two files, one of them with more versions than two     *)
(* pages of hist_ary hold, and the command lines that tell the ways of     *)
(* naming an offset apart.                                                 *)
(***************************************************************************)
EXTENDS History, TLC

At(p, off, len) == [prefix |-> p, attr |-> [offset |-> off, length |-> len]]

\* a: the inode has five versions, the data at offset 1 three, and there is
\* data beyond; b: one version, nothing at offset 1; and a file whose name
\* is "b@1".
MCFiles ==
    Plain("a") :> (NoKey :> {1, 2, 3, 4, 5} @@ 1 :> {1, 3, 4} @@ 2 :> {2, 5})
    @@ Plain("b") :> (NoKey :> {2} @@ 0 :> {2})
    @@ At("b", 1, Nil) :> (NoKey :> {4})

\* history a b c; history@1 a b; history a@1 b; a@-2 and a@1,-4; b@1,
\* which is a file; @1 with no path before it; a number strtoll() refuses.
MCStarts ==
    {[offset_str |-> NoAttr, av |-> <<Plain("a"), Plain("b"), Plain("c")>>],
     [offset_str |-> [offset |-> 1, length |-> Nil], av |-> <<Plain("a"), Plain("b")>>],
     [offset_str |-> NoAttr, av |-> <<At("a", 1, 8), Plain("b")>>],
     [offset_str |-> NoAttr, av |-> <<At("a", -2, Nil), At("a", 1, -4)>>],
     [offset_str |-> NoAttr, av |-> <<At("b", 1, Nil), At(Nil, 1, Nil), At("a", 0, ERANGE)>>],
     [offset_str |-> [offset |-> ERANGE, length |-> Nil], av |-> <<Plain("a")>>]}

MCPaths == {"a", "b", "c"}
=============================================================================
