------------------------------ MODULE Prescan ------------------------------
(***************************************************************************)
(* generate_histogram() as it runs: the no-data MIRROR_READ calls over the *)
(* range [tid_beg, tid_end], every record of every call added to the       *)
(* buckets, and on the empty call the reduction to chunks.  The records    *)
(* the kernel returns are the input; `scanned' remembers them so that the  *)
(* chunks can be compared with what was scanned.                           *)
(***************************************************************************)
EXTENDS Histogram, FiniteSets, FiniteSetsExt

CONSTANTS
    MaxTid,         \* transaction ids are 0..MaxTid (0: no transaction)
    Records,        \* the records a MIRROR_READ call may return
    MaxScanned      \* bound: records returned before the empty call

ASSUME /\ MaxTid \in Nat
       /\ MaxScanned \in Nat
       /\ \A r \in Records :
            /\ r.lo \in {"REC", "PASS", "SKIP"} /\ r.nodata \in BOOLEAN
            /\ r.create_tid \in 0..MaxTid /\ r.delete_tid \in 0..MaxTid
            /\ r.head \in Nat \ {0} /\ r.data \in Nat

VARIABLES
    pc,             \* "scan" in the for (;;) loop, "done" after the return
    tid_beg,        \* mirror_base->tid_beg
    tid_end,        \* mirror_base->tid_end
    tid_bytes,      \* bucket |-> bytes
    failed,         \* assert(i >= 0 && i < HIST_COUNT) has failed
    histogram_ary,  \* entry |-> [tid, bytes]
    res,            \* the return value: index of the closing entry
    scanned         \* history: the records returned so far

vars == <<pc, tid_beg, tid_end, tid_bytes, failed, histogram_ary, res, scanned>>

\* The array as malloc() returns it; its 16 MiB come from fresh pages.
Fresh == [e \in Entries |-> [tid |-> 0, bytes |-> 0]]

Init ==
    /\ tid_beg \in 0..MaxTid
    /\ tid_end \in 0..MaxTid
    /\ pc = IF tid_beg >= tid_end THEN "done" ELSE "scan"
    /\ tid_bytes = [i \in Buckets |-> 0]
    /\ failed = FALSE
    /\ histogram_ary = Fresh
    /\ res = 0
    /\ scanned = << >>

\* One record of a MIRROR_READ call that returned something.
ScanRecord(rec) ==
    /\ pc = "scan" /\ ~failed
    /\ Len(scanned) < MaxScanned
    /\ LET acc == Accumulate([tid_bytes |-> tid_bytes, bad |-> FALSE],
                             rec, tid_beg, tid_end)
       IN  /\ tid_bytes' = acc.tid_bytes
           /\ failed' = acc.bad
    /\ scanned' = Append(scanned, rec)
    /\ UNCHANGED <<pc, tid_beg, tid_end, histogram_ary, res>>

\* mirror.count == 0: the loop ends, the buckets are reduced in place.
ScanEnd ==
    /\ pc = "scan" /\ ~failed
    /\ LET red == Reduce(histogram_ary, tid_bytes, tid_beg, tid_end) IN
         /\ histogram_ary' = red.ary
         /\ res' = red.res
    /\ pc' = "done"
    /\ UNCHANGED <<tid_beg, tid_end, tid_bytes, failed, scanned>>

Next == (\E rec \in Records : ScanRecord(rec)) \/ ScanEnd

Spec == Init /\ [][Next]_vars

-----------------------------------------------------------------------------
TypeOK ==
    /\ pc \in {"scan", "done"}
    /\ tid_beg \in 0..MaxTid /\ tid_end \in 0..MaxTid
    /\ tid_bytes \in [Buckets -> Nat]
    /\ failed \in BOOLEAN
    /\ histogram_ary \in [Entries -> [tid : 0..MaxTid, bytes : Nat \cup {-1}]]
    /\ res \in 0..HIST_COUNT
    /\ scanned \in Seq(Records)

\* The transaction ids chunk k of the result stands for: mirror-read sends
\* chunk k as the inclusive range that starts one past the entry's tid, the
\* first chunk at tid_beg itself.
ChunkRange(k) ==
    (IF k = 0 THEN tid_beg ELSE histogram_ary[k].tid + 1)..histogram_ary[k + 1].tid

\* The bytes the scanned records have with a transaction id in tids.
ScannedBytes(tids) ==
    LET InChunk(rec) ==
            SelectSeq(Contributions(rec, tid_beg, tid_end), LAMBDA c : c[1] \in tids)
        BytesOf(rec) == FoldLeft(LAMBDA sum, c : sum + c[2], 0, InChunk(rec))
    IN  FoldLeft(LAMBDA sum, rec : sum + BytesOf(rec), 0, scanned)

\* The estimate of a chunk is the bytes of exactly the records whose
\* transaction id the chunk's bulk transfer will cover: the bucket of a
\* transaction id (with its tie-break on a bucket boundary) and the first
\* transaction id of a chunk (generate_histogram's reduction) agree on where
\* one chunk ends and the next begins.
ChunkEstimateMatchesRange ==
    pc = "done" /\ res > 0 =>
        \A k \in 0..(res - 1) : histogram_ary[k].bytes = ScannedBytes(ChunkRange(k))

\* The chunks tile [tid_beg, tid_end]: the first entry is tid_beg, the closing
\* entry is tid_end with the marker -1, and a chunk that is not the last was
\* closed because it had reached SplitupOpt, so that no chunk but the last is
\* smaller than the operator asked for.  The scan gets there whatever it
\* reads: assert(i >= 0 && i < HIST_COUNT) holds also for tid = tid_end,
\* whose quotient is HIST_COUNT before the tie-break.
ChunksTileRange ==
    /\ ~failed
    /\ pc = "done" /\ res > 0 =>
        /\ histogram_ary[0].tid = tid_beg
        /\ histogram_ary[res] = [tid |-> tid_end, bytes |-> -1]
        /\ \A k \in 0..(res - 1) : histogram_ary[k].tid <= histogram_ary[k + 1].tid
        /\ \A k \in 0..(res - 2) : histogram_ary[k].bytes >= SplitupOpt
=============================================================================
