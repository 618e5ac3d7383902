----------------------------- MODULE RecordPipe -----------------------------
(***************************************************************************)
(* What the record layer of a mirroring stream promises its callers: the   *)
(* records the writer has put on the pipe whole come out one by one, in    *)
(* order and unaltered; the end of the stream is reported once the writer  *)
(* is gone and every record has come out.  Only a damaged stream (a word   *)
(* altered on the way, a writer that ended within a record) may lose       *)
(* records or end early, and even then nothing comes out that was not put  *)
(* in.  MirrorSession reads and writes a pipe of this kind.                *)
(***************************************************************************)
EXTENDS Naturals, Sequences, SequencesExt

VARIABLES
    sent,       \* the records written whole, in order; sent[i].id = i
    delivered,  \* the records handed to the reader's caller, in order
    damaged,    \* the stream is no longer what the writer meant to send
    closed,     \* the writer has ended
    eof         \* the reader has been told the stream is over

vars == <<sent, delivered, damaged, closed, eof>>

\* The place in the stream of the record delivered last.
LastRead == IF delivered = << >> THEN 0 ELSE Last(delivered).id

Init ==
    /\ sent = << >> /\ delivered = << >>
    /\ damaged = FALSE /\ closed = FALSE /\ eof = FALSE

\* The writer completes one record or several.
Write ==
    /\ ~closed
    /\ IsStrictPrefix(sent, sent')
    /\ UNCHANGED <<delivered, damaged, closed, eof>>

\* The writer ends, perhaps within a record.
Close ==
    /\ ~closed /\ closed'
    /\ IsPrefix(sent, sent')
    /\ damaged => damaged'
    /\ UNCHANGED <<delivered, eof>>

\* The link alters what is on its way.
Damage ==
    /\ damaged' = TRUE
    /\ UNCHANGED <<sent, delivered, closed, eof>>

\* The next record comes out; records are passed over only in a damaged
\* stream.
Receive ==
    /\ \E i \in DOMAIN sent :
         /\ i > LastRead
         /\ i = LastRead + 1 \/ damaged
         /\ delivered' = Append(delivered, sent[i])
    /\ UNCHANGED <<sent, damaged, closed, eof>>

\* The reader is told the stream is over.
Eof ==
    /\ closed
    /\ damaged \/ LastRead = Len(sent)
    /\ eof' = TRUE
    /\ UNCHANGED <<sent, delivered, damaged, closed>>

Next == Write \/ Close \/ Damage \/ Receive \/ Eof

Spec == Init /\ [][Next]_vars
=============================================================================
