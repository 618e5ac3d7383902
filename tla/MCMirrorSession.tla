-------------------------- MODULE MCMirrorSession --------------------------
(***************************************************************************)
(* Values of the constants of MirrorSession for model checking.            *)
(***************************************************************************)
EXTENDS MirrorSession

\* Two keys: a transfer that stops between them has a part left.
MCKeys == 1..2

\* What malloc() left in histogram_ary: zero pages.
MCFresh == {0}

\* What malloc() may also leave there: a value above every transaction id.
MCStale == {0, 9}

CommandLine(two, stream, B, t, c) ==
    [two_way |-> two, streaming |-> stream, bulk |-> B, timeout |-> t, cycle |-> c,
     remote |-> FALSE]

\* mirror-copy -c: two-way, with the histogram.
MCCopy == CommandLine(TRUE, 0, FALSE, FALSE, TRUE)

\* mirror-read -B -t piped into mirror-write.
MCOneWay == CommandLine(FALSE, 0, TRUE, TRUE, FALSE)

\* mirror-copy-stream -B -c.
MCStream == CommandLine(TRUE, 1, TRUE, FALSE, TRUE)

\* mirror-copy -B -c host:/source /target.
MCRemoteCopy == [CommandLine(TRUE, 0, TRUE, FALSE, TRUE) EXCEPT !.remote = TRUE]

\* The sessions that keep their promises: each command line to a slave of
\* the source, and targets that are not one: a path without a PFS, a slave
\* of another master (the source finds out in the handshake, or the target
\* alone without -2), a master (the target finds out, the source goes on).
MCStarts ==
    {<<MCCopy, "slave">>, <<MCOneWay, "slave">>, <<MCStream, "slave">>,
     <<MCRemoteCopy, "slave">>, <<MCCopy, "absent">>, <<MCCopy, "foreign">>,
     <<MCOneWay, "foreign">>, <<MCStream, "master">>}

\* mirror-copy -B -t -c: the timer and the acknowledgement.
MCTimedCopy == {<<CommandLine(TRUE, 0, TRUE, TRUE, TRUE), "slave">>}

\* mirror-copy to a target that is up to date, no cycle file.
MCPlainCopy == {<<CommandLine(TRUE, 0, FALSE, FALSE, FALSE), "slave">>}

\* mirror-copy-stream -c with the histogram.
MCHistogramStream == {<<CommandLine(TRUE, 1, FALSE, FALSE, TRUE), "slave">>}
=============================================================================
