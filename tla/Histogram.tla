----------------------------- MODULE Histogram -----------------------------
(***************************************************************************)
(* The arithmetic of generate_histogram() (cmd_mirror.c): the bucket a     *)
(* transaction id falls in, the bytes a scanned record adds to the         *)
(* buckets, and the reduction of the buckets to chunks of about SplitupOpt *)
(* bytes.  Pure operators; Prescan runs them as generate_histogram() does, *)
(* MirrorSession uses them to cut a bulk transfer into chunks.             *)
(***************************************************************************)
EXTENDS Integers, Sequences, SequencesExt

CONSTANTS
    HIST_COUNT,     \* buckets of the prescan (1024 * 1024 in the code)
    SplitupOpt,     \* bytes after which a chunk is closed (-S option)
    Word            \* 2^w, w the width of the unsigned arithmetic (2^64)

ASSUME /\ HIST_COUNT \in Nat \ {0, 1}
       /\ SplitupOpt \in Nat
       /\ Word \in Nat /\ Word > HIST_COUNT

Buckets == 0..(HIST_COUNT - 1)
Entries == 0..(HIST_COUNT + 1)      \* "needs 2 extra"

\* Mutant: the product is not divided by the number of buckets.
BucketTid_Unscaled(i, tid_beg, tid_end) ==
    tid_beg + ((i * (tid_end - tid_beg)) % Word)

\* The lowest transaction id of bucket i: tid_beg + i * (tid_end - tid_beg) / HIST_COUNT.
BucketTid(i, tid_beg, tid_end) ==
    tid_beg + ((i * (tid_end - tid_beg)) % Word) \div HIST_COUNT

\* The bucket of tid.  "When tid is exactly on the boundary it really belongs
\* to the previous entry because scans are inclusive of the ending entry."
BucketOf(tid, tid_beg, tid_end) ==
    LET i == (((tid - tid_beg) * HIST_COUNT) % Word) \div (tid_end - tid_beg)
    IN  IF tid = BucketTid(i, tid_beg, tid_end) /\ i # 0 THEN i - 1 ELSE i

\* A record as the prescan sees it: its type without the flags (lo), whether
\* it carries its data (REC) or not (REC_NODATA), its two transaction ids and
\* the aligned sizes of its head and of its data.
Counted(rec) == rec.lo \in {"REC", "PASS"}

RecSize(rec) == rec.head + (IF rec.lo = "REC" /\ ~rec.nodata THEN rec.data ELSE 0)

\* Bytes the record adds for its delete_tid: the data belongs to create_tid.
DeleteLen(rec) ==
    RecSize(rec) - (IF rec.lo = "REC" /\ ~rec.nodata THEN rec.data ELSE 0)

\* Bytes the record adds for its create_tid: the data counts although the
\* prescan did not read it.
CreateLen(rec) ==
    RecSize(rec) + (IF rec.lo = "REC" /\ rec.nodata THEN rec.data ELSE 0)

InRange(tid, tid_beg, tid_end) == tid # 0 /\ tid >= tid_beg /\ tid <= tid_end

\* The <<tid, bytes>> pairs one record of the scan adds, delete_tid first.
Contributions(rec, tid_beg, tid_end) ==
    IF ~Counted(rec) THEN << >>
    ELSE SelectSeq(<< <<rec.delete_tid, DeleteLen(rec)>>,
                      <<rec.create_tid, CreateLen(rec)>> >>,
                   LAMBDA c : InRange(c[1], tid_beg, tid_end))

\* tid_bytes[] after one more record; a bucket outside the array is the
\* failure of assert(i >= 0 && i < HIST_COUNT), reported as bad = TRUE.
Accumulate(acc, rec, tid_beg, tid_end) ==
    LET Add(a, c) ==
            LET i == BucketOf(c[1], tid_beg, tid_end) IN
            IF i \in Buckets
            THEN [a EXCEPT !.tid_bytes[i] = @ + c[2]]
            ELSE [a EXCEPT !.bad = TRUE]
    IN  FoldLeft(Add, acc, Contributions(rec, tid_beg, tid_end))

\* Mutant: the chunk is closed after the bucket was added to it, and the
\* bucket is counted again in the chunk it opens.
ChunkStep_ClosesLate(a, i, bytes, tid_beg, tid_end) ==
    LET grown == [a.ary EXCEPT ![a.res].bytes = @ + bytes] IN
    IF grown[a.res].bytes >= SplitupOpt
    THEN [ary |-> [grown EXCEPT ![a.res + 1] =
                      [tid |-> BucketTid(i, tid_beg, tid_end), bytes |-> bytes]],
          res |-> a.res + 1]
    ELSE [ary |-> grown, res |-> a.res]

\* Mutant: the chunk is closed before the bucket that would fill it.
ChunkStep_ClosesEarly(a, i, bytes, tid_beg, tid_end) ==
    IF a.ary[a.res].bytes + bytes >= SplitupOpt
    THEN [ary |-> [a.ary EXCEPT ![a.res + 1] =
                      [tid |-> BucketTid(i, tid_beg, tid_end), bytes |-> bytes]],
          res |-> a.res + 1]
    ELSE [ary |-> [a.ary EXCEPT ![a.res].bytes = @ + bytes], res |-> a.res]

\* One bucket of the reduction: a chunk that has reached SplitupOpt is
\* closed, the next one starts at the bucket's first transaction id, and the
\* bucket's bytes go to the chunk that is open now.
ChunkStep(a, i, bytes, tid_beg, tid_end) ==
    LET split == a.ary[a.res].bytes >= SplitupOpt
        res   == IF split THEN a.res + 1 ELSE a.res
        open  == IF split
                 THEN [a.ary EXCEPT ![res] =
                          [tid |-> BucketTid(i, tid_beg, tid_end), bytes |-> 0]]
                 ELSE a.ary
    IN  [ary |-> [open EXCEPT ![res].bytes = @ + bytes], res |-> res]

\* "Reduce to SplitupOpt chunks ... Do the array in-place": entry res of the
\* result is the closing entry <<tid_end, -1>>, entries past it keep what
\* the array held before.
Reduce(ary, tid_bytes, tid_beg, tid_end) ==
    LET first == [ary |-> [ary EXCEPT ![0] = [tid |-> tid_beg, bytes |-> tid_bytes[0]]],
                  res |-> 0]
        last  == FoldLeft(LAMBDA a, i : ChunkStep(a, i, tid_bytes[i], tid_beg, tid_end),
                          first, [i \in 1..(HIST_COUNT - 1) |-> i])
    IN  [ary |-> [last.ary EXCEPT ![last.res + 1] = [tid |-> tid_end, bytes |-> -1]],
         res |-> last.res + 1]

\* The scan loop of generate_histogram() over the records of recs.
ScanBytes(recs, tid_beg, tid_end) ==
    FoldLeft(LAMBDA a, r : Accumulate(a, r, tid_beg, tid_end),
             [tid_bytes |-> [i \in Buckets |-> 0], bad |-> FALSE], recs)

\* generate_histogram() for a scan that saw the records of recs (a sequence):
\* nothing is written and 0 returned when the range is empty.  (The scan is
\* bound once, as an element of a singleton, before it is reduced.)
GenerateHistogram(ary, recs, tid_beg, tid_end) ==
    LET Reduced(acc) ==
            LET red == Reduce(ary, acc.tid_bytes, tid_beg, tid_end)
            IN  [ary |-> red.ary, res |-> red.res, bad |-> acc.bad]
    IN  IF tid_beg >= tid_end THEN [ary |-> ary, res |-> 0, bad |-> FALSE]
        ELSE CHOOSE gen \in {Reduced(acc) : acc \in {ScanBytes(recs, tid_beg, tid_end)}} : TRUE
=============================================================================
