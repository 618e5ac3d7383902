---------------------------- MODULE MirrorCodec ----------------------------
(***************************************************************************)
(* The record layer of a mirroring stream (cmd_mirror.c): write_mrecord()  *)
(* and the bulk write()/writebw() of hammer_cmd_mirror_read() put framed   *)
(* records on a pipe word by word; read_mrecord() and read_mrecords() take *)
(* them off again for hammer_cmd_mirror_dump().  A word stands for four    *)
(* bytes: the header of a record is the four words signature, crc,         *)
(* rec_size and type.  The writer may end anywhere, the link may alter a   *)
(* word.  Each action is one blocking step of one process.                 *)
(***************************************************************************)
EXTENDS Integers, Sequences, FiniteSets, SequencesExt

CONSTANTS
    Commands,       \* what is run: [stream, bandwidth, header_only]
    HeadAlign,      \* HAMMER_HEAD_ALIGN, in words
    MaxRecSize,     \* sizeof(*mrec) + HAMMER_XBUFSIZE, in words
    BufSize,        \* SERIALBUF_SIZE, in words
    WriterMayDie,   \* the writer may end of an error, within a write too
    MaxGarbled,     \* bound: words the link alters
    GarbledSizes,   \* what an altered rec_size may read as
    GarbledTypes    \* what an altered type may read as

HeadSize == 4       \* HAMMER_MREC_HEADSIZE: signature, crc, rec_size, type

ASSUME /\ HeadAlign \in Nat \ {0} /\ HeadSize % HeadAlign = 0
       /\ MaxRecSize \in HeadSize..BufSize
       /\ WriterMayDie \in BOOLEAN /\ MaxGarbled \in Nat
       /\ GarbledSizes \subseteq Nat

VARIABLES
    cmd,            \* the command lines of both processes: it never changes
    wire,           \* the words in the pipe
    w,              \* the locals of the writer, hammer_cmd_mirror_read()
    rd,             \* the locals of the reader, hammer_cmd_mirror_dump()
    delivered,      \* the records the two readers have handed over
    printed,        \* the records mirror-dump has printed
    garbled         \* words altered so far

vars == <<cmd, wire, w, rd, delivered, printed, garbled>>

stream == cmd.stream
BandwidthOpt == cmd.bandwidth

\* HAMMER_HEAD_DOALIGN
DoAlign(n) == ((n + HeadAlign - 1) \div HeadAlign) * HeadAlign

-----------------------------------------------------------------------------
(* The writer: the write calls of hammer_cmd_mirror_read(). *)

\* write_mrecord(), and the kernel for the records of MIRROR_READ: the
\* header, the payload, zeros up to the alignment.  A word knows its record
\* and its place; num and type are what it reads as a size and as a type.
Frame(i) ==
    [k \in 1..DoAlign(stream[i].size) |->
        [id |-> i, off |-> k, ok |-> TRUE,
         num |-> IF k = 3 THEN stream[i].size ELSE 0,
         type |-> IF k = 4 THEN stream[i].type ELSE "NONE"]]

\* All the writer means to send.
Encoded == FlattenSeq([i \in DOMAIN stream |-> Frame(i)])

WriterLocals ==
    [state |-> "run", todo |-> Encoded, bwcount |-> 0, sleeping |-> FALSE]

Exited(p) == p.state # "run"

\* The record the next word belongs to.
Pending == stream[Head(w.todo).id]

\* The records that are on the pipe whole.
Whole == IF w.todo = << >> THEN Len(stream) ELSE Head(w.todo).id - 1

\* The length of the write() that starts at the next word: write_mrecord()
\* writes the record and then the padding, the bulk loop the whole buffer
\* MIRROR_READ has filled.
WriteLen ==
    LET next  == Head(w.todo)
        other == {p \in DOMAIN w.todo : stream[w.todo[p].id].buf # Pending.buf}
    IN  IF Pending.buf = 0
        THEN (IF next.off <= Pending.size THEN Pending.size ELSE DoAlign(Pending.size))
             - next.off + 1
        ELSE IF other = {} THEN Len(w.todo) ELSE Min(other) - 1

\* write(): n more words on the pipe; SIGPIPE when the reader is gone.
Put(n, next) ==
    IF Exited(rd)
    THEN w' = [w EXCEPT !.state = "killed"] /\ wire' = wire
    ELSE /\ wire' = wire \o SubSeq(w.todo, 1, n)
         /\ w' = [next EXCEPT !.todo = SubSeq(@, n + 1, Len(@))]

\* write_mrecord(), one write() of its two; the first record of a pass
\* comes after bwcount = 0.
WriteMrecord ==
    /\ w.state = "run" /\ ~w.sleeping /\ w.todo # << >>
    /\ Pending.buf = 0
    /\ Put(WriteLen, IF Pending.again /\ Head(w.todo).off = 1
                     THEN [w EXCEPT !.bwcount = 0] ELSE w)
    /\ UNCHANGED <<cmd, rd, delivered, printed, garbled>>

\* writebw(): "if (*bwcount + nbytes > BandwidthOpt) n = BandwidthOpt -
\* *bwcount; else n = nbytes".
Chunk(nbytes) ==
    IF w.bwcount + nbytes > BandwidthOpt THEN BandwidthOpt - w.bwcount ELSE nbytes

\* The bulk loop: write() of the buffer, or one chunk of writebw(), which
\* sleeps once the second's allowance is used.
WriteBulk ==
    /\ w.state = "run" /\ ~w.sleeping /\ w.todo # << >>
    /\ Pending.buf # 0
    /\ IF BandwidthOpt = 0
       THEN Put(WriteLen, w)
       ELSE \E n \in {Chunk(WriteLen)} :
              Put(n, [w EXCEPT !.bwcount = @ + n,
                               !.sleeping = w.bwcount + n >= BandwidthOpt])
    /\ UNCHANGED <<cmd, rd, delivered, printed, garbled>>

\* usleep() in writebw(): the next second begins.
Sleep ==
    /\ w.state = "run" /\ w.sleeping
    /\ w' = [w EXCEPT !.sleeping = FALSE, !.bwcount = @ - BandwidthOpt]
    /\ UNCHANGED <<cmd, wire, rd, delivered, printed, garbled>>

\* The TERM record is out: hammer_cmd_mirror_read() returns.
WriterExit ==
    /\ w.state = "run" /\ w.todo = << >>
    /\ w' = [w EXCEPT !.state = "exit"]
    /\ UNCHANGED <<cmd, wire, rd, delivered, printed, garbled>>

\* err(): an ioctl fails, or a write() comes back short.
WriterDies ==
    /\ WriterMayDie /\ w.state = "run" /\ ~w.sleeping
    /\ \E n \in 0..(IF w.todo # << >> THEN WriteLen - 1 ELSE 0) :
         /\ wire' = wire \o SubSeq(w.todo, 1, n)
         /\ w' = [w EXCEPT !.state = "killed", !.todo = SubSeq(@, n + 1, Len(@))]
    /\ UNCHANGED <<cmd, rd, delivered, printed, garbled>>

Writer == WriteMrecord \/ WriteBulk \/ Sleep \/ WriterExit

-----------------------------------------------------------------------------
(* The two readers. *)

BulkTypes == {"PFSD", "REC", "SKIP", "PASS"}    \* what read_mrecords() takes
NoPickup == << >>                               \* signature = 0, type = 0

\* type & HAMMER_MRECF_TYPE_LOMASK: "Ignore all flags."
LoType(t) == IF t = "REC_BADCRC" THEN "REC" ELSE t

Signature(h) == h[1].off = 1 /\ h[1].ok     \* HAMMER_IOC_MIRROR_SIGNATURE
RecSize(h) == h[3].num
Type(h) == IF h = << >> THEN "NONE" ELSE h[4].type

\* Mutant: the CRC is not looked at.
CrcOk_Unchecked(frame) == TRUE

\* hammer_crc_test_mrec_head(): the CRC covers rec_size bytes, the header
\* but for the CRC itself included; it matches when none of them was altered.
CrcOk(frame) == \A k \in 1..RecSize(frame) : frame[k].ok

\* The record a frame is handed over as.
Decoded(frame) == [id |-> frame[1].id, type |-> Type(frame), size |-> RecSize(frame)]

\* Mutant: the end of the pipe is not noticed and the read loop waits on.
Returns_IgnoresEof(n) == Len(wire) >= n

\* for (n = 0; n < want; n += i) { i = read(); if (i <= 0) break; }: the loop
\* ends when it has the words it wants or the writer is gone.
Returns(n) == Len(wire) >= n \/ Exited(w)

Got(n) == SubSeq(wire, 1, Min({n, Len(wire)}))
Rest(n) == SubSeq(wire, Min({n, Len(wire)}) + 1, Len(wire))

ReaderLocals ==
    [state |-> "run", pc |-> "header", phase |-> "head", pickup |-> NoPickup,
     hdr |-> << >>, buf |-> << >>, eof |-> FALSE]

Errx == [rd EXCEPT !.state = "exit_err"]

\* hammer_cmd_mirror_dump() after read_mrecord() has returned mrec, NULL
\* being << >>: the header, the termination record ("Did not get termination
\* sync record" is all that is said of another one), the first record of the
\* next pass, which is thrown away.
DumpGot(mrec, r) ==
    CASE r.pc = "header" /\ cmd.header_only /\ mrec # << >> -> [r EXCEPT !.state = "exit_ok"]
      [] r.pc = "header" /\ ~(cmd.header_only /\ mrec # << >>) -> [r EXCEPT !.pc = "bulk"]
      [] r.pc = "term" -> [r EXCEPT !.pc = "next"]
      [] r.pc = "next" /\ mrec # << >> -> [r EXCEPT !.pc = "bulk"]
      [] r.pc = "next" /\ mrec = << >> -> [r EXCEPT !.state = "exit_ok"]

\* read_mrecord() returns.
Returned(mrec, r) ==
    /\ rd' = DumpGot(mrec, [r EXCEPT !.phase = "head", !.hdr = << >>])
    /\ delivered' = IF mrec = << >> THEN delivered ELSE Append(delivered, Decoded(mrec))

\* read_mrecord() without a header in pickup: the header is read.  Nothing
\* at all is the end of the stream; a short header and a bad signature are
\* errors, and NULL all the same.
MrecordHead ==
    /\ rd.state = "run" /\ rd.pc # "bulk" /\ rd.phase = "head"
    /\ Type(rd.pickup) = "NONE"
    /\ Returns(HeadSize)
    /\ wire' = Rest(HeadSize)
    /\ LET h == Got(HeadSize) IN
         IF Len(h) = HeadSize /\ Signature(h)
         THEN rd' = [rd EXCEPT !.phase = "body", !.hdr = h] /\ UNCHANGED delivered
         ELSE Returned(<< >>, [rd EXCEPT !.eof = @ \/ h = << >>])
    /\ UNCHANGED <<cmd, w, printed, garbled>>

\* read_mrecord(): the rest of the record whose header was read, or was
\* waiting in pickup; assert(bytes >= sizeof(mrechd)), short read, CRC.
MrecordBody ==
    /\ rd.state = "run" /\ rd.pc # "bulk"
    /\ rd.phase = "body" \/ Type(rd.pickup) # "NONE"
    /\ LET h     == IF rd.phase = "body" THEN rd.hdr ELSE rd.pickup
           r     == IF rd.phase = "body" THEN rd ELSE [rd EXCEPT !.pickup = NoPickup]
           bytes == DoAlign(RecSize(h))
       IN  IF bytes < HeadSize
           THEN rd' = Errx /\ UNCHANGED <<wire, delivered>>
           ELSE /\ Returns(bytes - HeadSize)
                /\ wire' = Rest(bytes - HeadSize)
                /\ LET frame == h \o Got(bytes - HeadSize) IN
                     Returned(IF Len(frame) = bytes /\ CrcOk(frame) THEN frame ELSE << >>, r)
    /\ UNCHANGED <<cmd, w, printed, garbled>>

\* What hammer_cmd_mirror_dump() prints of a buffer.
Printable == {"REC", "REC_BADCRC", "PASS", "SKIP"}

\* hammer_cmd_mirror_dump() walks the buffer read_mrecords() has filled,
\* from record to record by the aligned rec_size: "Misaligned record" when
\* one reaches past the end.
RECURSIVE Walk(_)
Walk(b) ==
    IF b = << >> THEN [ok |-> TRUE, ids |-> << >>]
    ELSE IF DoAlign(RecSize(b)) > Len(b) THEN [ok |-> FALSE, ids |-> << >>]
    ELSE LET rest == Walk(SubSeq(b, DoAlign(RecSize(b)) + 1, Len(b)))
         IN  [rest EXCEPT !.ids = (IF Type(b) \in Printable THEN <<b[1].id>> ELSE << >>) \o @]

\* read_mrecords() returns: an empty buffer ends the bulk loop of
\* hammer_cmd_mirror_dump(), another one is printed and the call repeated.
Batch(r) ==
    IF r.buf = << >>
    THEN rd' = [r EXCEPT !.pc = "term"] /\ printed' = printed
    ELSE /\ rd' = [r EXCEPT !.buf = << >>,
                            !.state = IF Walk(r.buf).ok THEN @ ELSE "exit_err"]
         /\ printed' = printed \o Walk(r.buf).ids

\* Mutant: the record is taken although the buffer has no room for it.
Takes_NoRoom(h, buf) == LoType(Type(h)) \in BulkTypes

\* Mutant: a PFSD record ends the batch as a control record does.
Takes_NoPfsd(h, buf) ==
    /\ BufSize - Len(buf) >= DoAlign(RecSize(h))
    /\ LoType(Type(h)) \in BulkTypes \ {"PFSD"}

\* "Stop if we have insufficient space for the record and data", "Stop if
\* the record type is not a REC, SKIP, or PASS" (nor a PFSD).
Takes(h, buf) ==
    /\ BufSize - Len(buf) >= DoAlign(RecSize(h))
    /\ LoType(Type(h)) \in BulkTypes

\* read_mrecords(), up to the remainder of a record: the header waiting in
\* pickup or the next one of the pipe; the end of the pipe, a full buffer
\* and a record it does not take end the call, the header stays in pickup.
BatchHead ==
    /\ rd.state = "run" /\ rd.pc = "bulk" /\ rd.phase = "head"
    /\ LET room  == BufSize - Len(rd.buf) >= HeadSize
           fresh == room /\ rd.pickup = NoPickup
           h     == IF fresh THEN Got(HeadSize) ELSE rd.pickup
       IN  /\ fresh => Returns(HeadSize)
           /\ wire' = IF fresh THEN Rest(HeadSize) ELSE wire
           /\ IF ~room THEN Batch(rd)
              ELSE IF h = << >> THEN Batch([rd EXCEPT !.eof = TRUE])
              ELSE IF \/ fresh /\ (Len(h) < HeadSize \/ ~Signature(h))
                      \/ RecSize(h) \notin HeadSize..MaxRecSize
                   THEN rd' = Errx /\ printed' = printed
              ELSE IF Takes(h, rd.buf)
                   THEN rd' = [rd EXCEPT !.pickup = h, !.phase = "body"] /\ printed' = printed
              ELSE Batch([rd EXCEPT !.pickup = h])
    /\ UNCHANGED <<cmd, w, delivered, garbled>>

\* read_mrecords(): "Read the remainder and clear the pickup signature",
\* the CRC, and for a B-Tree record the data_len; the record joins the buffer.
BatchBody ==
    /\ rd.state = "run" /\ rd.pc = "bulk" /\ rd.phase = "body"
    /\ LET bytes == DoAlign(RecSize(rd.pickup))
           frame == rd.pickup \o Got(bytes - HeadSize)
       IN  /\ Returns(bytes - HeadSize)
           /\ wire' = Rest(bytes - HeadSize)
           /\ IF Len(frame) = bytes /\ CrcOk(frame) /\ stream[frame[1].id].fits
              THEN /\ rd' = [rd EXCEPT !.pickup = NoPickup, !.phase = "head",
                                       !.buf = @ \o frame]
                   /\ delivered' = Append(delivered, Decoded(frame))
              ELSE rd' = Errx /\ delivered' = delivered
    /\ UNCHANGED <<cmd, w, printed, garbled>>

Reader == MrecordHead \/ MrecordBody \/ BatchHead \/ BatchBody

-----------------------------------------------------------------------------
(* The link, and the whole. *)

\* What a word may become on the way.
Altered(word) ==
    CASE word.off = 3 ->
           {[word EXCEPT !.ok = FALSE, !.num = n] : n \in GarbledSizes \ {word.num}}
      [] word.off = 4 ->
           {[word EXCEPT !.ok = FALSE, !.type = t] : t \in GarbledTypes \ {word.type}}
      [] OTHER -> {[word EXCEPT !.ok = FALSE]}

\* A word in the pipe is altered.
Garble ==
    /\ garbled < MaxGarbled
    /\ \E p \in DOMAIN wire : \E word \in Altered(wire[p]) :
         wire' = [wire EXCEPT ![p] = word]
    /\ garbled' = garbled + 1
    /\ UNCHANGED <<cmd, w, rd, delivered, printed>>

\* Both processes have ended.
Done ==
    /\ Exited(w) /\ Exited(rd)
    /\ UNCHANGED vars

Init ==
    /\ cmd \in Commands
    /\ wire = << >>
    /\ w = WriterLocals /\ rd = ReaderLocals
    /\ delivered = << >> /\ printed = << >>
    /\ garbled = 0

Next == Writer \/ WriterDies \/ Reader \/ Garble \/ Done

Spec == Init /\ [][Next]_vars

\* Both processes are scheduled: a write that can be made and a read that
\* can return do so.  Nothing is assumed of the faults.
FairSpec == Spec /\ WF_vars(Writer) /\ WF_vars(Reader)

-----------------------------------------------------------------------------
(* Properties. *)

Types == {"PFSD", "REC", "REC_BADCRC", "PASS", "SKIP", "SYNC", "IDLE", "TERM", "UPDATE"}
Words ==
    [id : Nat, off : Nat, ok : BOOLEAN, num : Nat, type : Types \cup GarbledTypes \cup {"NONE"}]

TypeOK ==
    /\ cmd \in Commands
    /\ wire \in Seq(Words)
    /\ w.state \in {"run", "exit", "killed"} /\ w.todo \in Seq(Words)
    /\ w.bwcount \in Nat /\ w.sleeping \in BOOLEAN
    /\ rd.state \in {"run", "exit_ok", "exit_err"}
    /\ rd.pc \in {"header", "bulk", "term", "next"} /\ rd.phase \in {"head", "body"}
    /\ rd.pickup \in Seq(Words) /\ Len(rd.pickup) \in {0, HeadSize}
    /\ rd.hdr \in Seq(Words) /\ Len(rd.hdr) \in {0, HeadSize}
    /\ rd.buf \in Seq(Words) /\ Len(rd.buf) <= BufSize
    /\ rd.eof \in BOOLEAN
    /\ delivered \in Seq([id : DOMAIN stream, type : Types \cup GarbledTypes, size : Nat])
    /\ printed \in Seq(DOMAIN stream)
    /\ garbled \in 0..MaxGarbled

\* The writer stopped within a record: after the header and the payload and
\* before the padding, or within a write().
Truncated == Exited(w) /\ w.todo # << >> /\ Head(w.todo).off # 1

\* The stream as RecordPipe sees it.
Pipe == INSTANCE RecordPipe WITH
    sent <- [i \in 1..Whole |->
                [id |-> i, type |-> stream[i].type, size |-> stream[i].size]],
    damaged <- garbled > 0 \/ Truncated,
    closed <- Exited(w),
    eof <- rd.eof

\* The record layer implements RecordPipe.  Whatever read_mrecord() returns
\* and read_mrecords() puts in its buffer is a record write_mrecord() or the
\* kernel has written whole, with its type and size, and the next one in
\* order: the header left in pickup is neither lost nor read twice, a batch
\* that stops at a full buffer goes on where it stopped, the padding is
\* skipped by the reader exactly as the writer wrote it.  read() returning 0
\* is taken for the end of the stream only at a record boundary after the
\* last record.  A stream that was altered or cut within a record may lose
\* records, and still delivers none that was not written: signature,
\* rec_size and CRC are tested before a record is handed over.
ImplementsRecordPipe == Pipe!Spec

\* hammer_cmd_mirror_dump() prints every B-Tree, PASS and SKIP record of a
\* stream that was not altered, whatever the writer got to write, when it
\* ends without an error: the record it throws away after each termination
\* record is the first PFS header of the next pass or TERM, never a record
\* it should print, because read_mrecords() takes the second PFS header of
\* a pass along with the bulk records.
DumpPrintsEveryRecord ==
    rd.state = "exit_ok" /\ garbled = 0 /\ ~cmd.header_only =>
        printed = SelectSeq([i \in 1..Whole |-> i],
                            LAMBDA i : stream[i].type \in Printable)

\* Both processes end, whatever is altered and wherever the writer stops:
\* every read loop of read_mrecord() and read_mrecords() returns, with the
\* words it waits for or at the end of the pipe, and a writer whose reader
\* is gone is killed by its next write.
DumpTerminates == <>[](Exited(w) /\ Exited(rd))
=============================================================================
