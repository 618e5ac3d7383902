--------------------------- MODULE MirrorSession ---------------------------
(***************************************************************************)
(* A mirroring session (cmd_mirror.c): the source process                  *)
(* hammer_cmd_mirror_read(), the target process hammer_cmd_mirror_write(), *)
(* the pipe between them, and hammer_cmd_mirror_copy() (or the operator)   *)
(* that starts the pair again.  Each action is one blocking step of one    *)
(* process: everything the process does up to its next read from, or       *)
(* write to, the pipe.  The two filesystems are sets of records <<key,     *)
(* tid>>; the kernel's MIRROR_READ, MIRROR_WRITE, WAI_PSEUDOFS and the     *)
(* cycle file are modelled by what the session relies on.                  *)
(***************************************************************************)
EXTENDS Histogram, FiniteSets

CONSTANTS
    Starts,         \* how a session may start: <<command line, target path>>
    Keys,           \* 1..N, the key space the kernel scans in order
    MaxTid,         \* bound: transactions the source filesystem commits
    SyncBegTid,     \* sync_beg_tid of the source PFS
    PipeCap,        \* records the pipe holds before a write blocks
    BufCap,         \* records that fit SERIALBUF_SIZE
    MaxCrashes,     \* bound: processes that die of an I/O error
    MaxRestarts,    \* bound: times the pair is started again
    FreshTids       \* what a histogram entry nobody wrote may hold

\* A command line: -2 (the target answers on the pipe, as mirror-copy sets
\* it), mirror-read-stream (1) or mirror-read (0), -B (no histogram), -t (the
\* timer may interrupt the bulk loop), -c (a cycle file is kept), and
\* whether mirror-copy was given a source on another host.
OptionSpace ==
    [two_way : BOOLEAN, streaming : {0, 1}, bulk : BOOLEAN, timeout : BOOLEAN,
     cycle : BOOLEAN, remote : BOOLEAN]

\* The target path: no PFS yet, a slave with the shared-uuid of the source,
\* a master with it, a slave of another master.
PfsKinds == {"absent", "slave", "master", "foreign"}

ASSUME /\ Starts \subseteq OptionSpace \X PfsKinds /\ Starts # {}
       /\ \A st \in Starts : st[1].remote => st[1].two_way
       /\ Keys = 1..Cardinality(Keys)
       /\ {MaxTid, SyncBegTid, MaxCrashes, MaxRestarts} \subseteq Nat
       /\ PipeCap \in Nat \ {0} /\ BufCap \in Nat \ {0}
       /\ FreshTids \subseteq Nat

VARIABLES
    opt,            \* the command line of this session: it never changes
    src_recs,       \* the source filesystem: records [key, tid]
    src_end,        \* sync_end_tid of the source PFS
    tgt_recs,       \* the target filesystem
    tgt_end,        \* sync_end_tid of the target PFS: its snapshot
    tgt_pfs,        \* what the target path is: one of PfsKinds
    cycle,          \* the cycle file: [key, tid]
    s2t,            \* the pipe, source to target
    t2s,            \* the pipe, target to source (two-way mode)
    src,            \* the locals of hammer_cmd_mirror_read()
    tgt,            \* the locals of hammer_cmd_mirror_write()
    crashes,        \* processes killed so far
    restarts        \* times the pair was started again

vars == <<opt, tgt_pfs, src_recs, src_end, tgt_recs, tgt_end, cycle, s2t, t2s,
          src, tgt, crashes, restarts>>

\* hammer_cmd_mirror_copy() runs a source on another host through ssh, with
\* a command line it puts together: -2, -t and -S are passed on; -B and -c
\* are not.
RemoteRead(o) == [o EXCEPT !.bulk = FALSE, !.cycle = FALSE]

\* The options as hammer_cmd_mirror_read() sees them.
SrcOpt == IF opt.remote THEN RemoteRead(opt) ELSE opt

TwoWayPipeOpt == opt.two_way
Streaming     == opt.streaming
BulkOpt       == SrcOpt.bulk
TimeoutOpt    == SrcOpt.timeout
CyclePath     == SrcOpt.cycle

None == [type |-> "NONE"]           \* pickup.signature = 0, pickup.type = 0
Eof  == [type |-> "EOF"]            \* read() returned 0 at a record boundary
BulkTypes == {"PFSD", "REC"}        \* what read_mrecords() takes (SKIP, PASS: as REC)
KeyMin == 1                         \* hammer_key_beg_init()

\* generate_mrec_header(): the PFS data of the filesystem it is run on.
SrcUuid == "shared"
TgtUuid == IF tgt_pfs = "foreign" THEN "foreign" ELSE SrcUuid
Pfsd(uuid, beg, end) == [type |-> "PFSD", uuid |-> uuid, beg |-> beg, end |-> end]
Exited(p) == p.pc \in {"exit_ok", "exit_err", "killed"}

-----------------------------------------------------------------------------
(* The pipe and the record reader. *)

\* Mutant: the end of the pipe is not noticed and the reader waits on.
Readable_IgnoresExit(pickup, chan, peer) == pickup # None \/ chan # << >>

\* read_mrecord() can return: a header was picked up, the pipe holds a
\* record, or the writer is gone.
Readable(pickup, chan, peer) == pickup # None \/ chan # << >> \/ Exited(peer)

\* Mutant: the picked-up header is ignored and a record is read from the pipe.
ReadMrecord_NoPickup(pickup, chan) ==
    IF chan = << >> THEN [rec |-> Eof, chan |-> chan]
    ELSE [rec |-> Head(chan), chan |-> Tail(chan)]

\* read_mrecord(): the record whose header read_mrecords() left in pickup,
\* else the next record of the pipe, else end of file.
ReadMrecord(pickup, chan) ==
    IF pickup # None THEN [rec |-> pickup, chan |-> chan]
    ELSE IF chan = << >> THEN [rec |-> Eof, chan |-> chan]
    ELSE [rec |-> Head(chan), chan |-> Tail(chan)]

\* write_mrecord() and write() on the pipe by the source: SIGPIPE when the
\* reader is gone, blocked while the pipe is full.
SrcSend(msgs, next) ==
    IF msgs # << >> /\ Exited(tgt)
    THEN src' = [src EXCEPT !.pc = "killed"] /\ s2t' = s2t
    ELSE /\ Len(s2t) + Len(msgs) <= PipeCap
         /\ s2t' = s2t \o msgs
         /\ src' = next

TgtSend(msgs, next) ==
    IF msgs # << >> /\ Exited(src)
    THEN tgt' = [tgt EXCEPT !.pc = "killed"] /\ t2s' = t2s
    ELSE t2s' = t2s \o msgs /\ tgt' = next

\* Mutant: a master is written to as a slave is.
Validate_NoSlaveCheck(rec, uuid, is_target) ==
    CASE rec.type = "TERM" -> "term"
      [] rec.type = "PFSD" /\ rec.uuid = uuid -> "ok"
      [] OTHER -> "err"

\* validate_mrec_header(), once read_mrecord() has returned: TERM ends the
\* session; anything but a PFSD record, "source and target have different
\* shared-uuid's" and "target must be in slave mode" are fatal.
Validate(rec, uuid, is_target) ==
    CASE rec.type = "TERM" -> "term"
      [] /\ rec.type = "PFSD" /\ rec.uuid = uuid
         /\ ~(is_target /\ tgt_pfs = "master") -> "ok"
      [] OTHER -> "err"

ExitOf(verdict) == IF verdict = "term" THEN "exit_ok" ELSE "exit_err"

-----------------------------------------------------------------------------
(* The kernel and the cycle file, as the session uses them. *)

\* MIRROR_READ: the records of the key at the cursor whose transaction id is
\* in [tid_beg, tid_end], both inclusive; nothing past the last key.
MirrorRead(key, tid_beg, tid_end) ==
    {r \in src_recs : r.key = key /\ r.tid >= tid_beg /\ r.tid <= tid_end}

\* The no-data scan of generate_histogram(): the records in the range, in
\* key order.
PrescanRecords(tid_beg, tid_end) ==
    LET slot(i) == [key |-> ((i - 1) \div MaxTid) + 1, tid |-> ((i - 1) % MaxTid) + 1]
        all == [i \in 1..(Cardinality(Keys) * MaxTid) |->
                   [lo |-> "REC", nodata |-> TRUE, create_tid |-> slot(i).tid,
                    delete_tid |-> 0, head |-> 1, data |-> 0, key |-> slot(i).key]]
    IN  SelectSeq(all, LAMBDA r : [key |-> r.key, tid |-> r.create_tid]
                                      \in MirrorRead(r.key, tid_beg, tid_end))

\* Mutant: the record is taken although the buffer has no room for it.
Takes_NoSizeCheck(rec, buf) == rec.type \in BulkTypes

\* read_mrecords() takes a record into the buffer when it is a bulk record
\* and fits; otherwise its header stays in pickup.
Takes(rec, buf) == rec.type \in BulkTypes /\ Len(buf) < BufCap

\* MIRROR_WRITE of a buffer of records.
MirrorWrite(buf) ==
    tgt_recs \cup UNION {buf[i].recs : i \in {j \in DOMAIN buf : buf[j].type = "REC"}}

-----------------------------------------------------------------------------
(* hammer_cmd_mirror_read() *)

SrcLocals ==
    [pc |-> "start", streaming |-> Streaming, interrupted |-> FALSE, didwork |-> FALSE,
     tid_beg |-> 0, tid_end |-> 0, key_beg |-> KeyMin, key_cur |-> KeyMin,
     histogram |-> FALSE, histindex |-> 0, histmax |-> 0]

\* again: the initial header "for the purpose of determining the shared-uuid".
SrcHeader ==
    /\ src.pc = "start"
    /\ SrcSend(<<Pfsd(SrcUuid, SyncBegTid, src_end)>>,
               [src EXCEPT !.pc = IF TwoWayPipeOpt THEN "handshake" ELSE "range",
                           !.key_beg = KeyMin, !.key_cur = KeyMin])
    /\ UNCHANGED <<opt, tgt_pfs, src_recs, src_end, tgt_recs, tgt_end, cycle, t2s, tgt, crashes, restarts>>

\* Two-way mode: validate_mrec_header() reads the target's PFS record; the
\* target's snapshot plus one is the default begin TID.
SrcHandshake ==
    /\ src.pc = "handshake"
    /\ Readable(None, t2s, tgt)
    /\ LET in == ReadMrecord(None, t2s) IN
         /\ t2s' = in.chan
         /\ src' = LET verdict == Validate(in.rec, SrcUuid, FALSE) IN
                      IF verdict = "ok"
                      THEN [src EXCEPT !.pc = "range", !.tid_beg = in.rec.end + 1]
                      ELSE [src EXCEPT !.pc = ExitOf(verdict)]
    /\ UNCHANGED <<opt, tgt_pfs, src_recs, src_end, tgt_recs, tgt_end, cycle, s2t, tgt, crashes, restarts>>

\* Mutant: the header keeps the source's sync_end_tid when the pass stops
\* at the end of a chunk.
AnnouncedEnd_SourceEnd(s) == src_end

\* mrec_tmp.pfs.pfsd.sync_end_tid = mirror.tid_end: the header tells the
\* target where this pass ends.
AnnouncedEnd(s) == s.tid_end

\* Mutant: the begin TID is two past the target's snapshot.
BeginTid_SkipsOne(s) ==
    LET beg == IF TwoWayPipeOpt THEN s.tid_beg + 1
               ELSE IF s.streaming # 0 /\ s.histogram THEN s.ary[s.histindex].tid + 1
               ELSE 0
    IN  IF beg < SyncBegTid THEN SyncBegTid ELSE beg

\* The begin TID of this pass: the target's snapshot plus one in two-way
\* mode, one past the chunk just sent in histogram mode, else 0; never below
\* the sync_beg_tid of the source PFS.
BeginTid(s) ==
    LET beg == IF TwoWayPipeOpt THEN s.tid_beg
               ELSE IF s.streaming # 0 /\ s.histogram THEN s.ary[s.histindex].tid + 1
               ELSE 0
    IN  IF beg < SyncBegTid THEN SyncBegTid ELSE beg

\* "Initial bulk startup control": without a histogram and without -B the
\* range is prescanned; a mirror-read then streams the histogram and stops.
Prescanned(s, beg) ==
    IF s.histogram \/ BulkOpt THEN {s}
    ELSE {[s EXCEPT !.ary = gen.ary, !.histmax = gen.res, !.histindex = 0,
                    !.histogram = TRUE, !.streaming = IF @ = 0 THEN -1 ELSE @] :
            gen \in {GenerateHistogram(s.ary, recs, beg, src_end) :
                        recs \in {PrescanRecords(beg, src_end)}}}

\* The range of this pass: the end TID is "the latest source TID whose flush
\* cycle has completed", or the end of the next chunk of the histogram.
Negotiated(h, beg) ==
    IF h.streaming # 0 /\ h.histogram
    THEN [h EXCEPT !.tid_beg = beg, !.histindex = @ + 1,
                   !.tid_end = h.ary[h.histindex + 1].tid]
    ELSE [h EXCEPT !.tid_beg = beg, !.tid_end = src_end]

\* "A cycle file overrides the beginning TID only if we are not operating in
\* two-way or histogram mode."
WithCycle(s) ==
    IF ~TwoWayPipeOpt /\ ~s.histogram /\ CyclePath /\ cycle # None
    THEN [s EXCEPT !.key_beg = cycle.key, !.tid_beg = cycle.tid]
    ELSE s

\* The PFS header with the range, then "Nothing to do if begin equals end".
SrcRange ==
    /\ src.pc = "range"
    /\ src.histindex + 1 \in Entries
    /\ \E beg \in {BeginTid(src)} :
       \E h \in Prescanned(src, beg) :
       \E n \in {Negotiated(h, beg)} :
       \E c \in {WithCycle(n)} :
         SrcSend(<<Pfsd(SrcUuid, SyncBegTid, AnnouncedEnd(n))>>,
                 IF c.tid_beg >= c.tid_end
                 THEN [c EXCEPT !.pc = "done", !.didwork = FALSE, !.histogram = FALSE]
                 ELSE [c EXCEPT !.pc = "bulk", !.didwork = TRUE])
    /\ UNCHANGED <<opt, tgt_pfs, src_recs, src_end, tgt_recs, tgt_end, cycle, t2s, tgt, crashes, restarts>>

\* One pass of the bulk loop: MIRROR_READ at the cursor, the records written
\* to the pipe, the cursor moved to key_cur, the timer looked at.
SrcBulk ==
    /\ src.pc = "bulk"
    /\ \E timer \in IF TimeoutOpt THEN BOOLEAN ELSE {FALSE} :
         LET more == src.key_beg \in Keys
             cur  == IF more THEN src.key_beg + 1 ELSE src.key_beg
             out  == IF more
                     THEN <<[type |-> "REC", key |-> src.key_beg,
                             recs |-> MirrorRead(src.key_beg, src.tid_beg, src.tid_end)]>>
                     ELSE << >>
         IN  SrcSend(out, [src EXCEPT !.key_cur = cur, !.key_beg = cur,
                                      !.interrupted = timer,
                                      !.pc = IF timer \/ ~more THEN "done" ELSE "bulk"])
    /\ UNCHANGED <<opt, tgt_pfs, src_recs, src_end, tgt_recs, tgt_end, cycle, t2s, tgt, crashes, restarts>>

\* Mutant: a pass that did work ends with IDLE, as one that found nothing.
Termination_AlwaysIdle(s) ==
    IF s.interrupted THEN << >> ELSE <<[type |-> "IDLE"]>>

\* "Write out the termination sync record - only if not interrupted".
Termination(s) ==
    IF s.interrupted THEN << >>
    ELSE <<[type |-> IF s.didwork THEN "SYNC" ELSE "IDLE"]>>

\* done: the termination record; without -2 the cycle file is written here.
SrcDone ==
    /\ src.pc = "done"
    /\ SrcSend(Termination(src), [src EXCEPT !.pc = IF TwoWayPipeOpt THEN "ack" ELSE "tail"])
    /\ cycle' = IF ~TwoWayPipeOpt /\ CyclePath /\ ~Exited(src')
                THEN [key |-> src.key_beg, tid |-> src.tid_beg]
                ELSE cycle
    /\ UNCHANGED <<opt, tgt_pfs, src_recs, src_end, tgt_recs, tgt_end, t2s, tgt, crashes, restarts>>

\* Two-way mode: "we expect a response mrec from the target"; the cycle file
\* gets the interrupted cursor, or the acknowledged TID.
SrcAck ==
    /\ src.pc = "ack"
    /\ Readable(None, t2s, tgt)
    /\ LET in == ReadMrecord(None, t2s)
           ok == in.rec.type = "UPDATE"
       IN  /\ t2s' = in.chan
           /\ src' = [src EXCEPT !.pc = IF ok THEN "tail" ELSE "exit_err"]
           /\ cycle' = IF ~ok \/ ~CyclePath THEN cycle
                       ELSE IF src.interrupted
                       THEN [key |-> src.key_cur, tid |-> src.tid_beg]
                       ELSE [key |-> KeyMin, tid |-> in.rec.tid]
    /\ UNCHANGED <<opt, tgt_pfs, src_recs, src_end, tgt_recs, tgt_end, s2t, tgt, crashes, restarts>>

\* After the pass: the next chunk of the histogram at once, or the wait for
\* new transactions, or the TERM record and the end of the process.
SrcTail ==
    /\ src.pc = "tail"
    /\ LET loop  == src.streaming # 0 /\ ~src.interrupted
           chunk == loop /\ src.histogram /\ src.histindex # src.histmax
           wait  == loop /\ ~chunk /\ src.streaming > 0
       IN  SrcSend(IF chunk \/ wait THEN << >> ELSE <<[type |-> "TERM"]>>,
                   [src EXCEPT !.pc = CASE chunk -> "start"
                                         [] wait  -> "wait"
                                         [] OTHER -> "exit_ok",
                               !.streaming = IF loop /\ ~chunk /\ @ < 0 THEN 0 ELSE @])
    /\ UNCHANGED <<opt, tgt_pfs, src_recs, src_end, tgt_recs, tgt_end, cycle, t2s, tgt, crashes, restarts>>

\* WAI_PSEUDOFS returns when the source has synced past the TID handed in.
SrcWait ==
    /\ src.pc = "wait"
    /\ src_end > src.tid_end
    /\ src' = [src EXCEPT !.pc = "start"]
    /\ UNCHANGED <<opt, tgt_pfs, src_recs, src_end, tgt_recs, tgt_end, cycle, s2t, t2s, tgt, crashes, restarts>>

Source ==
    \/ SrcHeader \/ SrcHandshake \/ SrcRange \/ SrcBulk \/ SrcDone \/ SrcAck \/ SrcTail \/ SrcWait

-----------------------------------------------------------------------------
(* hammer_cmd_mirror_write() *)

TgtLocals ==
    [pc |-> "start", pickup |-> None, tid_beg |-> 0, tid_end |-> 0, buf |-> << >>]

\* create_pfs(): the operator agrees (or -y is given) and hammer pfs-slave
\* makes a slave with the shared-uuid of the header; or not, and the target
\* ends, at the question or in getpfs().
CreatePfs == IF tgt_pfs = "absent" THEN {"slave", "absent"} ELSE {tgt_pfs}

\* again: the initial packet; "Create slave PFS if it doesn't yet exist"; in
\* two-way mode the target's PFS record is written out for the source.
TgtHeader ==
    /\ tgt.pc = "start"
    /\ Readable(tgt.pickup, s2t, src)
    /\ LET in == ReadMrecord(tgt.pickup, s2t)
           got == [tgt EXCEPT !.pickup = None]
       IN  /\ s2t' = in.chan
           /\ IF in.rec.type = "PFSD"
              THEN /\ tgt_pfs' \in CreatePfs
                   /\ IF tgt_pfs' = "absent"
                      THEN tgt' = [got EXCEPT !.pc = "exit_err"] /\ t2s' = t2s
                      ELSE TgtSend(IF TwoWayPipeOpt
                                   THEN <<Pfsd(TgtUuid, 0, tgt_end)>> ELSE << >>,
                                   [got EXCEPT !.pc = "validate"])
              ELSE /\ tgt' = [got EXCEPT !.pc = IF in.rec.type = "TERM"
                                                THEN "exit_ok" ELSE "exit_err"]
                   /\ UNCHANGED <<t2s, tgt_pfs>>
    /\ UNCHANGED <<opt, src_recs, src_end, tgt_recs, tgt_end, cycle, src, crashes, restarts>>

\* validate_mrec_header(): "The source informs us of the TID range the
\* stream represents."
TgtValidate ==
    /\ tgt.pc = "validate"
    /\ Readable(tgt.pickup, s2t, src)
    /\ LET in == ReadMrecord(tgt.pickup, s2t)
           got == [tgt EXCEPT !.pickup = None]
       IN  /\ s2t' = in.chan
           /\ tgt' = LET verdict == Validate(in.rec, TgtUuid, TRUE) IN
                      IF verdict = "ok"
                      THEN [got EXCEPT !.pc = "bulk", !.tid_beg = in.rec.beg,
                                       !.tid_end = in.rec.end]
                      ELSE [got EXCEPT !.pc = ExitOf(verdict)]
    /\ UNCHANGED <<opt, tgt_pfs, src_recs, src_end, tgt_recs, tgt_end, cycle, t2s, src, crashes, restarts>>

\* read_mrecords(): the header waiting in pickup, or the next one of the pipe.
\* The record joins the buffer; a record of another type, a full buffer or
\* the end of the pipe ends the call, the header stays in pickup, and what
\* the buffer holds goes to MIRROR_WRITE.  An empty buffer ends the loop.
TgtBulk ==
    /\ tgt.pc = "bulk"
    /\ Readable(tgt.pickup, s2t, src)
    /\ LET in   == ReadMrecord(tgt.pickup, s2t)
           take == Takes(in.rec, tgt.buf)
       IN  /\ s2t' = in.chan
           /\ IF take
              THEN /\ tgt' = [tgt EXCEPT !.pickup = None, !.buf = Append(@, in.rec)]
                   /\ tgt_recs' = tgt_recs
              ELSE /\ tgt' = [tgt EXCEPT !.pickup = IF in.rec = Eof THEN None ELSE in.rec,
                                         !.buf = << >>,
                                         !.pc = IF tgt.buf = << >> THEN "term" ELSE "bulk"]
                   /\ tgt_recs' = MirrorWrite(tgt.buf)
    /\ UNCHANGED <<opt, tgt_pfs, src_recs, src_end, tgt_end, cycle, t2s, src, crashes, restarts>>

\* update_pfs_snapshot(): the PFS is rewritten when its sync_end_tid differs
\* from snapshot_tid, be it lower or higher.
UpdatePfsSnapshot(sync_end_tid, snapshot_tid) ==
    IF sync_end_tid # snapshot_tid THEN snapshot_tid ELSE sync_end_tid

\* The termination record: TERM ends the target; SYNC updates the snapshot
\* to the end of the range; SYNC and IDLE are acknowledged in two-way mode.
TgtTerm ==
    /\ tgt.pc = "term"
    /\ Readable(tgt.pickup, s2t, src)
    /\ LET in == ReadMrecord(tgt.pickup, s2t)
           got == [tgt EXCEPT !.pickup = None]
       IN  /\ s2t' = in.chan
           /\ CASE in.rec.type \in {"SYNC", "IDLE"} ->
                     /\ tgt_end' = IF in.rec.type = "SYNC"
                                THEN UpdatePfsSnapshot(tgt_end, tgt.tid_end)
                                ELSE tgt_end
                     /\ TgtSend(IF TwoWayPipeOpt
                                THEN <<[type |-> "UPDATE", tid |-> tgt.tid_end]>>
                                ELSE << >>,
                                [got EXCEPT !.pc = "start"])
                [] in.rec.type = "TERM" ->
                     tgt' = [got EXCEPT !.pc = "exit_ok"] /\ UNCHANGED <<tgt_end, t2s>>
                [] OTHER ->
                     tgt' = [got EXCEPT !.pc = "exit_err"] /\ UNCHANGED <<tgt_end, t2s>>
    /\ UNCHANGED <<opt, tgt_pfs, src_recs, src_end, tgt_recs, cycle, src, crashes, restarts>>

Target == TgtHeader \/ TgtValidate \/ TgtBulk \/ TgtTerm

-----------------------------------------------------------------------------
(* The environment: the filesystem being written, failures, restarts. *)

\* A transaction of the source filesystem is flushed.
Commit ==
    /\ src_end < MaxTid
    /\ \E keys \in SUBSET Keys \ {{}} :
         src_recs' = src_recs \cup {[key |-> k, tid |-> src_end + 1] : k \in keys}
    /\ src_end' = src_end + 1
    /\ UNCHANGED <<opt, tgt_pfs, tgt_recs, tgt_end, cycle, s2t, t2s, src, tgt, crashes, restarts>>

\* An ioctl or a write fails, the link is lost: err() ends the process.
CrashSource ==
    /\ crashes < MaxCrashes /\ ~Exited(src)
    /\ src' = [src EXCEPT !.pc = "exit_err"]
    /\ crashes' = crashes + 1
    /\ UNCHANGED <<opt, tgt_pfs, src_recs, src_end, tgt_recs, tgt_end, cycle, s2t, t2s, tgt, restarts>>

CrashTarget ==
    /\ crashes < MaxCrashes /\ ~Exited(tgt)
    /\ tgt' = [tgt EXCEPT !.pc = "exit_err"]
    /\ crashes' = crashes + 1
    /\ UNCHANGED <<opt, tgt_pfs, src_recs, src_end, tgt_recs, tgt_end, cycle, s2t, t2s, src, restarts>>

\* hammer_cmd_mirror_copy() has waited for both children and, streaming,
\* starts them again on a new pipe; or the operator runs the command again.
Restart ==
    /\ Exited(src) /\ Exited(tgt)
    /\ restarts < MaxRestarts
    /\ restarts' = restarts + 1
    /\ \E fresh \in [Entries -> [tid : FreshTids, bytes : {0}]] :
         src' = SrcLocals @@ [ary |-> fresh]
    /\ tgt' = TgtLocals
    /\ s2t' = << >> /\ t2s' = << >>
    /\ UNCHANGED <<opt, tgt_pfs, src_recs, src_end, tgt_recs, tgt_end, cycle, crashes>>

\* Both processes have ended and nobody starts them again.
Finished ==
    /\ Exited(src) /\ Exited(tgt)
    /\ restarts = MaxRestarts
    /\ UNCHANGED vars

Init ==
    /\ \E st \in Starts : opt = st[1] /\ tgt_pfs = st[2]
    /\ src_recs = {} /\ src_end = 0
    /\ tgt_recs = {} /\ tgt_end = 0
    /\ cycle = None
    /\ s2t = << >> /\ t2s = << >>
    /\ \E fresh \in [Entries -> [tid : FreshTids, bytes : {0}]] :
         src = SrcLocals @@ [ary |-> fresh]
    /\ tgt = TgtLocals
    /\ crashes = 0 /\ restarts = 0

Next == Source \/ Target \/ Commit \/ CrashSource \/ CrashTarget \/ Restart \/ Finished

Spec == Init /\ [][Next]_vars

\* Both processes are scheduled by the kernel: one that can take a step
\* takes it.  Nothing is assumed of the source filesystem (Commit) nor of
\* the failures.
FairSpec == Spec /\ WF_vars(Source) /\ WF_vars(Target)

\* Streaming, hammer_cmd_mirror_copy() sleeps and starts both again once it
\* has waited for them; nobody promises to run a command again that is not
\* streaming.
StreamSpec == FairSpec /\ WF_vars(Streaming = 1 /\ Restart)

-----------------------------------------------------------------------------
(* Properties. *)

Pcs == {"exit_ok", "exit_err", "killed"}
Msgs ==
    [type : {"PFSD"}, uuid : {SrcUuid, "foreign"}, beg : Nat, end : Nat]
    \cup [type : {"REC"}, key : Keys, recs : SUBSET [key : Keys, tid : 1..MaxTid]]
    \cup [type : {"SYNC", "IDLE", "TERM"}]
    \cup [type : {"UPDATE"}, tid : Nat]

TypeOK ==
    /\ opt \in OptionSpace /\ tgt_pfs \in PfsKinds
    /\ src_recs \subseteq [key : Keys, tid : 1..MaxTid]
    /\ tgt_recs \subseteq [key : Keys, tid : 1..MaxTid]
    /\ src_end \in 0..MaxTid /\ tgt_end \in Nat
    /\ cycle \in {None} \cup [key : Keys \cup {Cardinality(Keys) + 1}, tid : Nat]
    /\ s2t \in Seq(Msgs) /\ Len(s2t) <= PipeCap
    /\ t2s \in Seq(Msgs)
    /\ src.pc \in Pcs \cup {"start", "handshake", "range", "bulk", "done", "ack", "tail", "wait"}
    /\ src.streaming \in {-1, 0, 1}
    /\ src.histindex \in Entries /\ src.histmax \in 0..HIST_COUNT
    /\ src.key_beg \in Keys \cup {Cardinality(Keys) + 1}
    /\ tgt.pc \in Pcs \cup {"start", "validate", "bulk", "term"}
    /\ tgt.pickup \in Msgs \cup {None}
    /\ tgt.buf \in Seq(Msgs) /\ Len(tgt.buf) <= BufCap
    /\ crashes \in 0..MaxCrashes /\ restarts \in 0..MaxRestarts

\* The target's snapshot TID is a promise: whatever the source filesystem
\* holds at or below it is on the target, and it is no later than what the
\* source has synced.  update_pfs_snapshot() runs on a SYNC record alone; the
\* promise depends on the source writing SYNC only after the bulk loop has
\* passed the last key, on the header announcing the end of the chunk that
\* was really scanned, and on the next pass starting one past the snapshot.
SnapshotComplete ==
    /\ tgt_end <= src_end
    /\ \A r \in src_recs : r.tid <= tgt_end => r \in tgt_recs

\* "tid_end is set to the latest source TID whos flush cycle has completed":
\* the range a header announces ends at a transaction the source has
\* flushed, be it the end of a chunk of the histogram, whatever the memory
\* of the histogram held before generate_histogram() ran.
RangeEndsAtFlushedTid ==
    \A i \in DOMAIN s2t : s2t[i].type = "PFSD" => s2t[i].end <= src_end

\* While no process has been killed from outside, the two state machines of
\* a source and its slave stay in step: neither ends with a protocol error ("did not get expected PFSD
\* record type", "Did not get termination sync record", "Did not get final
\* acknowledgement packet") or dies of SIGPIPE, and no PFSD record reaches
\* MIRROR_WRITE through read_mrecords(), which would take it.
InStepWithoutFailure ==
    crashes = 0 /\ tgt_pfs = "slave" =>
        /\ src.pc \notin {"exit_err", "killed"}
        /\ tgt.pc \notin {"exit_err", "killed"}
        /\ \A i \in DOMAIN tgt.buf : tgt.buf[i].type = "REC"

\* The source waits for the target's record and the target for the source's.
SourceWaits == src.pc \in {"handshake", "ack"} /\ t2s = << >> /\ ~Exited(tgt)
TargetWaits == ~Exited(tgt) /\ tgt.pickup = None /\ s2t = << >> /\ ~Exited(src)

\* hammer_cmd_mirror_read() interrupted by the timer writes the cycle file
\* and ends: the two processes never wait for each other.
NoMutualWait == ~(SourceWaits /\ TargetWaits)

\* The two filesystems as MirrorAbstract sees them.
Promise == INSTANCE MirrorAbstract WITH
    master <- src_recs, master_tid <- src_end,
    slave <- tgt_recs, slave_tid <- tgt_end

\* A session implements MirrorAbstract: every step of a process, a failure
\* or a restart either leaves the two filesystems alone or is a flush of the
\* source, an arrival of records the source holds, or a move of the target's
\* snapshot forward to a transaction that has arrived in full.  A pass that
\* starts after a restart, or the next chunk of a histogram, never takes the
\* snapshot back, and update_pfs_snapshot() is never reached before
\* MIRROR_WRITE has taken the last buffer of the range.
ImplementsMirrorAbstract == Promise!Spec

\* A mirror-copy that is not streaming ends: both processes exit, whichever
\* of them is killed and wherever.  Every read of the pipe is eventually
\* answered by a record or by the end of the pipe.
CopyTerminates == Streaming = 0 => <>[](Exited(src) /\ Exited(tgt))

\* A stream to a slave of the source catches up: once the source filesystem
\* is left alone the target's snapshot comes to stand at the source's last transaction or one before it
\* (a range of a single transaction is "Nothing to do"), whatever was killed
\* on the way.
StreamCatchesUp ==
    Streaming = 1 /\ tgt_pfs = "slave" => <>[](tgt_end + 1 >= src_end)

\* "If you blow up this field you will blow up the mirror target": nothing
\* reaches MIRROR_WRITE or update_pfs_snapshot() unless the target is a
\* slave with the shared-uuid of the source.  In two-way mode the target
\* answers with its own PFS record before validate_mrec_header() has looked
\* at the source's, and the source, which does not ask whether the target
\* is a slave, goes on to send the range and the records: the target must
\* have ended before it reads them.
OnlyItsSlaveIsWritten == tgt_pfs # "slave" => tgt_recs = {} /\ tgt_end = 0
=============================================================================
