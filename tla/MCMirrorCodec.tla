---------------------------- MODULE MCMirrorCodec ----------------------------
(***************************************************************************)
(* Values of the constants of MirrorCodec for model checking.              *)
(***************************************************************************)
EXTENDS MirrorCodec

\* The records hammer_cmd_mirror_read() writes with write_mrecord(): a PFS
\* header needs a word of padding, the control records need none.
Pfsd(first) == [type |-> "PFSD", size |-> 5, buf |-> 0, again |-> first, fits |-> TRUE]
Ctl(t) == [type |-> t, size |-> 4, buf |-> 0, again |-> FALSE, fits |-> TRUE]

\* A record of the n-th buffer MIRROR_READ has filled.
Rec(t, size, n) == [type |-> t, size |-> size, buf |-> n, again |-> FALSE, fits |-> TRUE]

Header == <<Pfsd(TRUE), Pfsd(FALSE)>>

\* A pass of two buffers: after the second PFS header the reader's buffer
\* has room for a header and none for the first B-Tree record, which has to
\* wait in pickup; that record and the next fill the buffer to the last word.
MCComplete ==
    Header \o <<Rec("REC", 5, 1), Rec("SKIP", 4, 1), Rec("PASS", 6, 2),
                Ctl("SYNC"), Ctl("TERM")>>

\* Nothing to do, then a pass after the wait.
MCIdleThenWork ==
    Header \o <<Ctl("IDLE")>> \o Header \o <<Rec("REC_BADCRC", 6, 1), Ctl("SYNC"), Ctl("TERM")>>

\* The timer has interrupted the pass: no termination record.
MCInterrupted == Header \o <<Rec("REC", 6, 1), Rec("REC", 5, 2), Ctl("TERM")>>

\* A B-Tree record whose data_len does not fit its rec_size.
MCIllFitting ==
    Header \o <<[Rec("REC", 5, 1) EXCEPT !.fits = FALSE], Ctl("SYNC"), Ctl("TERM")>>

\* Two chunks of a histogram, one after the other: the second pass begins
\* with what the first has used of the second's allowance.
MCTwoChunks ==
    Header \o <<Rec("REC", 6, 1), Ctl("SYNC")>> \o
    Header \o <<Rec("REC", 6, 1), Ctl("SYNC"), Ctl("TERM")>>

Command(s, b, h) == [stream |-> s, bandwidth |-> b, header_only |-> h]

MCCommands ==
    {Command(MCComplete, 0, FALSE), Command(MCComplete, 8, FALSE),
     Command(MCIdleThenWork, 0, FALSE), Command(MCInterrupted, 8, FALSE),
     Command(MCIllFitting, 0, FALSE), Command(MCComplete, 0, TRUE),
     Command(MCTwoChunks, 8, FALSE)}

MCGarbledSizes == {2, 3, 4, 5, 6, 8}
MCGarbledTypes == {"NONE", "REC", "PFSD", "SYNC", "TERM"}
=============================================================================
