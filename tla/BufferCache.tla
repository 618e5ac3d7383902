---------------------------- MODULE BufferCache ----------------------------
(***************************************************************************)
(* The volume list and the buffer cache of ondisk.c: volumes are opened    *)
(* and checked, 16 KiB buffers are looked up by their zone-2 offset, read  *)
(* on first access or zero-filled when new, counted by their users, read   *)
(* ahead, evicted when the cache is over its ceiling and written back.     *)
(* A buffer's 16 KiB are one value; a volume header is what the checks of  *)
(* __verify_volume() and the read-ahead window look at.                    *)
(***************************************************************************)
EXTENDS Integers, Sequences, FiniteSets, SequencesExt, TLC

CONSTANTS
    Files,          \* the backing stores named on the command line
    Starts,         \* how a program may start: [tool, hdr], the way it opens
                    \* its volumes [init, rdonly, verify] and the headers
                    \* the files hold
    NumBufs,        \* buffers between vol_buf_beg and vol_buf_end of a volume
    BufLists,       \* HAMMER_BUFLISTS, the hash lists of a volume
    UseReadBehind,  \* first buffer of the read-ahead window, relative (<= 0)
    UseReadAhead,   \* end of the read-ahead window, relative (exclusive)
    CacheMax,       \* resident buffers the cache keeps without evicting
    Holders,        \* the buffer pointers the callers keep (*bufferp)
    Values          \* what a buffer can hold

VARIABLES
    tool,       \* the way this process opens volumes
    hdr,        \* hdr[f]: the volume header stored in file f
    disk,       \* disk[f][i]: the i-th buffer stored in file f
    vol_list,   \* VolList: the volumes opened so far, in the order opened
    fsid,       \* Hammer_FSId
    cache,      \* cache[off]: the buffer_info of a resident buffer
    lists,      \* lists[<<vol_no, hi>>]: volume->buffer_lists[hi]
    lru,        \* the cache's list of resident buffers, least recently used first
    bufferp,    \* bufferp[h]: the buffer a caller holds, or NULL
    latest,     \* latest[off]: what the process last stored in a buffer (history)
    st          \* "open", "run", "flushed", or the way the process ended

vars == <<tool, hdr, disk, vol_list, fsid, cache, lists, lru, bufferp, latest, st>>

\* A zero-filled buffer, and the content of a buffer nobody wrote yet.
Zero == 0
NULL == << >>
NoFsid == -1
ROOT_VOLNO == 0

Formats == {"ok", "signature", "rootvol", "fstype", "version"}
FsIds   == {s.hdr[f].fsid : s \in Starts, f \in Files} \cup {NoFsid, 0}
VolNos  == {s.hdr[f].vol_no : s \in Starts, f \in Files} \cup 0..(Cardinality(Files) - 1)
Header  == [format : Formats \cup {"STRIPPED"}, vol_no : VolNos, fsid : FsIds,
            buf_end : {0, NumBufs}]
Offsets == VolNos \X (0..(NumBufs - 1))
BufferInfo == [ondisk : Values, refs : Nat, modified : BOOLEAN, delete : BOOLEAN]

\* calloc(1, HAMMER_BUFSIZE) of __alloc_volume(), with the number init_volume() sets.
ZeroHeader(vol_no) ==
    [format |-> "signature", vol_no |-> vol_no, fsid |-> NoFsid, buf_end |-> 0]

-----------------------------------------------------------------------------
(* Opening the volumes *)

\* get_volume(): the first volume of VolList with that number, 0 when none.
GetVolume(vol_no) ==
    LET hits == {k \in DOMAIN vol_list : vol_list[k].vol_no = vol_no}
    IN  IF hits = {} THEN 0 ELSE Min(hits)

Volume(off) == vol_list[GetVolume(off[1])]

\* __alloc_volume(): the file is opened; its header image starts zeroed.
AllocVolume(f) ==
    [name |-> f, vol_no |-> -1, rdonly |-> tool.rdonly, ondisk |-> ZeroHeader(0)]

\* __add_volume(): what the scan of VolList ends in.  The first volume of the
\* list that has the new one's number, or is the same file, ends the program.
AddVolume(volume) ==
    LET clash == {k \in DOMAIN vol_list : \/ vol_list[k].vol_no = volume.vol_no
                                          \/ vol_list[k].name = volume.name}
    IN  CASE clash = {} -> "open"
          [] clash # {} /\ vol_list[Min(clash)].vol_no = volume.vol_no -> "errx_duplicate"
          [] OTHER -> "errx_twice"

\* Mutant: the fsid of the volume is not compared with Hammer_FSId.
VerifyVolume_NoFsid(ondisk, expect) ==
    CASE ondisk.format \in {"signature", "rootvol", "fstype"} -> ondisk.format
      [] ondisk.format = "STRIPPED" -> "signature"
      [] OTHER -> ondisk.format

\* __verify_volume(): the first check that fails, "ok" when none does.
VerifyVolume(ondisk, expect) ==
    CASE ondisk.format \in {"signature", "rootvol", "fstype"} -> ondisk.format
      [] ondisk.format = "STRIPPED" -> "signature"
      [] ondisk.fsid # expect -> "fsid"
      [] OTHER -> ondisk.format

Opened(volume, how) ==
    /\ st' = how
    /\ vol_list' = IF how = "open" THEN Append(vol_list, volume) ELSE vol_list

\* init_volume()
InitVolume(f, vol_no) ==
    /\ st = "open" /\ tool.init
    /\ Opened([AllocVolume(f) EXCEPT !.vol_no = vol_no, !.ondisk = ZeroHeader(vol_no)],
              AddVolume([vol_no |-> vol_no, name |-> f]))
    /\ UNCHANGED <<tool, hdr, disk, fsid, cache, lists, lru, bufferp, latest>>

\* load_volume(): the header is read, the first volume gives Hammer_FSId,
\* and the header is verified before the volume joins the list.
LoadVolume(f) ==
    /\ st = "open" /\ ~tool.init
    /\ LET volume == [AllocVolume(f) EXCEPT !.vol_no = hdr[f].vol_no, !.ondisk = hdr[f]]
           expect == IF vol_list = << >> THEN hdr[f].fsid ELSE fsid
           verdict == IF tool.verify THEN VerifyVolume(hdr[f], expect) ELSE "ok"
       IN  /\ fsid' = expect
           /\ Opened(volume, IF verdict = "ok" THEN AddVolume(volume)
                             ELSE "errx_verify")
    /\ UNCHANGED <<tool, hdr, disk, cache, lists, lru, bufferp, latest>>

\* format_volume(): the header of a new volume is filled in, the root
\* volume's first.
FormatVolume(k) ==
    /\ st = "run" /\ tool.init
    /\ vol_list[k].ondisk.format # "ok"
    /\ vol_list[k].vol_no # ROOT_VOLNO => vol_list[GetVolume(ROOT_VOLNO)].ondisk.format = "ok"
    /\ vol_list' = [vol_list EXCEPT ![k].ondisk =
                       [format |-> "ok", vol_no |-> vol_list[k].vol_no,
                        fsid |-> fsid, buf_end |-> NumBufs]]
    /\ UNCHANGED <<tool, hdr, disk, fsid, cache, lists, lru, bufferp, latest, st>>

\* The volumes are open and the command begins.
Begin ==
    /\ st = "open" /\ vol_list # << >>
    /\ st' = "run"
    /\ latest' = [off \in {o \in Offsets : GetVolume(o[1]) # 0} |->
                      disk[Volume(off).name][off[2]]]
    /\ UNCHANGED <<tool, hdr, disk, vol_list, fsid, cache, lists, lru, bufferp>>

-----------------------------------------------------------------------------
(* The cache.  Its operations are functions of the record c of what they    *)
(* read and change, so that one call can use another; a failed assertion or *)
(* I/O error ends the program, and every later operation leaves c alone.    *)

Ok(c) == c.st = "run"
Fail(c, why) == [c EXCEPT !.st = why]

\* buffer_hash() and the list it selects
ListOf(off) == <<off[1], off[2] % BufLists>>

\* find_buffer(), once the volume is known to be open
FindBuffer(c, off) == \E i \in DOMAIN c.lists[ListOf(off)] : c.lists[ListOf(off)][i] = off

\* hammer_cache_add(), hammer_cache_used(), hammer_cache_del()
CacheAdd(c, off)  == [c EXCEPT !.lru = Append(@, off)]
CacheUsed(c, off) == [c EXCEPT !.lru = Append(Remove(@, off), off)]
CacheDel(c, off)  == [c EXCEPT !.lru = Remove(@, off)]

\* writehammerbuf() and __write(): nothing is written to a read-only volume,
\* and the call reports success.
WriteHammerBuf(c, off) ==
    IF Volume(off).rdonly THEN c
    ELSE [c EXCEPT !.disk[Volume(off).name][off[2]] = c.cache[off].ondisk]

\* flush_buffer()
FlushBuffer(c, off) == [WriteHammerBuf(c, off) EXCEPT !.cache[off].modified = FALSE]

\* Mutant: a buffer marked for deletion is freed without being written.
RelBuffer_NoFlush(c, off) ==
    IF ~Ok(c) \/ off = NULL THEN c
    ELSE LET d == [c EXCEPT !.cache[off].refs = @ - 1]
         IN  IF d.cache[off].refs = 0 /\ d.cache[off].delete
             THEN CacheDel([d EXCEPT !.lists[ListOf(off)] = Remove(@, off),
                                     !.cache = [o \in DOMAIN @ \ {off} |-> @[o]]], off)
             ELSE d

\* rel_buffer()
RelBuffer(c, off) ==
    IF ~Ok(c) \/ off = NULL THEN c
    ELSE IF c.cache[off].refs <= 0 THEN Fail(c, "assert_refs")
    ELSE LET d == [c EXCEPT !.cache[off].refs = @ - 1]
             f == IF d.cache[off].modified THEN FlushBuffer(d, off) ELSE d
         IN  IF d.cache[off].refs = 0 /\ d.cache[off].delete
             THEN CacheDel([f EXCEPT !.lists[ListOf(off)] = Remove(@, off),
                                     !.cache = [o \in DOMAIN @ \ {off} |-> @[o]]], off)
             ELSE d

\* hammer_cache_flush(): while the cache is over its ceiling, the least
\* recently used buffer nobody refers to is marked for deletion and released.
RECURSIVE CacheFlush(_)
CacheFlush(c) ==
    LET idle == SelectSeq(c.lru, LAMBDA o : c.cache[o].refs = 0)
    IN  IF Len(c.lru) <= CacheMax \/ idle = << >> THEN c
        ELSE CacheFlush(RelBuffer([c EXCEPT !.cache[Head(idle)].refs = 1,
                                            !.cache[Head(idle)].delete = TRUE],
                                  Head(idle)))

\* Mutant: the buffer joins the first hash list of its volume, unhashed.
AllocBuffer_Unhashed(c, off, isnew) ==
    CacheAdd([c EXCEPT
        !.cache = @ @@ (off :> [ondisk   |-> IF isnew <= 0
                                            THEN c.disk[Volume(off).name][off[2]]
                                            ELSE Zero,
                                refs |-> 0, modified |-> FALSE, delete |-> FALSE]),
        !.lists[<<off[1], 0>>] = Append(@, off)], off)

\* __alloc_buffer(): the buffer is read unless it is new, and joins the tail
\* of its hash list and of the cache.
AllocBuffer(c, off, isnew) ==
    CacheAdd([c EXCEPT
        !.cache = @ @@ (off :> [ondisk   |-> IF isnew <= 0
                                            THEN c.disk[Volume(off).name][off[2]]
                                            ELSE Zero,
                                refs |-> 0, modified |-> FALSE, delete |-> FALSE]),
        !.lists[ListOf(off)] = Append(@, off)], off)

\* get_buffer() up to its read-ahead: the buffer is found or allocated,
\* referenced, the cache is trimmed, and a new buffer is zero-filled.
GetBufferOnce(c, off, isnew) ==
    IF ~Ok(c) THEN c
    ELSE IF GetVolume(off[1]) = 0 THEN Fail(c, "assert_volume")
    ELSE IF FindBuffer(c, off) /\ isnew = -1 THEN Fail(c, "assert_isnew")
    ELSE LET found == IF FindBuffer(c, off) THEN CacheUsed(c, off)
                      ELSE AllocBuffer(c, off, isnew)
             kept  == CacheFlush([found EXCEPT !.cache[off].refs = @ + 1])
         IN  CASE isnew <= 0 -> kept
               [] isnew > 0 /\ kept.cache[off].modified -> Fail(kept, "assert_modified")
               [] OTHER -> [kept EXCEPT !.cache[off].ondisk = Zero,
                                        !.cache[off].modified = TRUE]

\* The buffers get_buffer_readahead() looks at, in its order: those of the
\* window around base that lie in the volume's buffer area, base left out.
\* The loop ends at the first buffer at or after vol_buf_end.
ReadAheadWindow(base) ==
    SelectSeq([k \in 1..(UseReadAhead - UseReadBehind) |-> base[2] + UseReadBehind + k - 1],
              LAMBDA i : i # base[2] /\ i >= 0 /\ i < Volume(base).ondisk.buf_end)

\* Mutant: the window is read whether its buffers are cached or not.
ReadAhead_NoFind(c, base) ==
    FoldLeft(LAMBDA acc, i : RelBuffer(GetBufferOnce(acc, <<base[1], i>>, -1), <<base[1], i>>),
             c, ReadAheadWindow(base))

\* get_buffer_readahead(): every buffer of the window that is not cached is
\* read and released at once.
ReadAhead(c, base) ==
    FoldLeft(LAMBDA acc, i :
                 IF ~Ok(acc) \/ FindBuffer(acc, <<base[1], i>>) THEN acc
                 ELSE RelBuffer(GetBufferOnce(acc, <<base[1], i>>, -1), <<base[1], i>>),
             c, ReadAheadWindow(base))

\* get_buffer(), for a zone-2 offset
GetBuffer(c, off, isnew) ==
    LET got == GetBufferOnce(c, off, isnew)
    IN  IF Ok(got) /\ ~FindBuffer(c, off) /\ isnew = 0 THEN ReadAhead(got, off) ELSE got

-----------------------------------------------------------------------------
(* The operations the commands call *)

Now == [disk |-> disk, hdr |-> hdr, cache |-> cache, lists |-> lists, lru |-> lru,
        st |-> st]

Becomes(c) ==
    /\ disk' = c.disk /\ hdr' = c.hdr /\ cache' = c.cache
    /\ lists' = c.lists /\ lru' = c.lru /\ st' = c.st

\* Mutant: a held buffer is given up without being released.
Unhold_NoRelease(c, held, keep) ==
    IF keep THEN CacheUsed(c, held) ELSE c

\* get_buffer_data(), the buffer the caller holds: it is kept and marked
\* used when it is the one asked for and not to be new, released otherwise.
Unhold(c, held, keep) ==
    CASE held = NULL -> c
      [] held # NULL /\ keep -> CacheUsed(c, held)
      [] OTHER -> RelBuffer(c, held)

\* get_buffer_data(): xlate says whether the offset translates to a zone-2
\* offset (__blockmap_xlate_to_zone2); a held buffer is returned unchecked.
GetBufferData(h, off, isnew, xlate) ==
    /\ st = "run"
    /\ LET keep == bufferp[h] = off /\ isnew <= 0
           free == Unhold(Now, bufferp[h], keep)
           got  == IF keep \/ ~xlate THEN free ELSE GetBuffer(free, off, isnew)
       IN  /\ Becomes(got)
           /\ bufferp' = [bufferp EXCEPT ![h] = IF xlate \/ keep THEN off ELSE NULL]
           /\ latest' = IF Ok(got) /\ xlate /\ isnew > 0
                        THEN [latest EXCEPT ![off] = Zero] ELSE latest
    /\ UNCHANGED <<tool, vol_list, fsid>>

\* A caller changes the buffer it holds and marks it modified, as
\* hammer_cmd_strip() does with a layer-2 entry; the commands that open
\* their volumes read-only change no buffer and ask for no new one.
Modify(h, v) ==
    /\ st = "run" /\ ~tool.rdonly /\ bufferp[h] # NULL
    /\ cache' = [cache EXCEPT ![bufferp[h]].ondisk = v, ![bufferp[h]].modified = TRUE]
    /\ latest' = [latest EXCEPT ![bufferp[h]] = v]
    /\ UNCHANGED <<tool, hdr, disk, vol_list, fsid, lists, lru, bufferp, st>>

\* rel_buffer() of a buffer a caller holds
Release(h) ==
    /\ st = "run" /\ bufferp[h] # NULL
    /\ Becomes(RelBuffer(Now, bufferp[h]))
    /\ bufferp' = [bufferp EXCEPT ![h] = NULL]
    /\ UNCHANGED <<tool, vol_list, fsid, latest>>

\* writehammervol(): the header image goes to the start of the file.
WriteHammerVol(c, volume) ==
    IF volume.rdonly THEN c ELSE [c EXCEPT !.hdr[volume.name] = volume.ondisk]

\* Mutant: the loop over the hash lists ends one list early.
BuffersOf_OneListShort(c, vol_no) ==
    FlattenSeq([hi \in 1..(BufLists - 1) |-> c.lists[<<vol_no, hi - 1>>]])

\* flush_volume(): the buffers of a volume in the order of its hash lists.
BuffersOf(c, vol_no) ==
    FlattenSeq([hi \in 1..BufLists |-> c.lists[<<vol_no, hi - 1>>]])

\* Mutant: the header of a volume is written before its buffers.
FlushSteps_HeaderFirst(c, volumes) ==
    FlattenSeq([k \in DOMAIN volumes |->
                   << <<k>> >> \o BuffersOf(c, volumes[k].vol_no)])

\* flush_all_volumes() and flush_volume(): the writes in their order, a
\* buffer <<vol_no, i>> or the header <<k>> of the k-th volume of VolList.
FlushSteps(c, volumes) ==
    FlattenSeq([k \in DOMAIN volumes |->
                   BuffersOf(c, volumes[k].vol_no) \o << <<k>> >>])

\* One write of the flush
FlushStep(c, volumes, step) ==
    IF Len(step) = 1 THEN WriteHammerVol(c, volumes[step[1]])
    ELSE FlushBuffer(c, step)

\* flush_all_volumes() over the header images given: all of its writes are
\* done, or the first n and the next one fails (pwrite() of a writable
\* volume), which ends the program.
FlushAll(volumes, n) ==
    LET steps == FlushSteps(Now, volumes)
        done  == FoldLeft(LAMBDA c, step : FlushStep(c, volumes, step), Now,
                          SubSeq(steps, 1, n))
    IN  /\ n \in 0..Len(steps)
        /\ n < Len(steps) => ~volumes[IF Len(steps[n + 1]) = 1 THEN steps[n + 1][1]
                                      ELSE GetVolume(steps[n + 1][1])].rdonly
        /\ Becomes([done EXCEPT !.st = IF n = Len(steps) THEN "flushed" ELSE "err_write"])

\* flush_all_volumes() at the end of newfs_hammer
FlushAllVolumes(n) ==
    /\ st = "run" /\ tool.init
    /\ \A k \in DOMAIN vol_list : vol_list[k].ondisk.format = "ok"
    /\ FlushAll(vol_list, n)
    /\ UNCHANGED <<tool, vol_list, fsid, bufferp, latest>>

\* The end of hammer_cmd_strip(): every header image is zeroed and signed
\* STRIPPED, and everything is flushed.
StripHeaders(n) ==
    /\ st = "run" /\ ~tool.init /\ ~tool.rdonly
    /\ vol_list' = [k \in DOMAIN vol_list |-> [vol_list[k] EXCEPT
                       !.ondisk = [ZeroHeader(0) EXCEPT !.format = "STRIPPED"]]]
    /\ FlushAll(vol_list', n)
    /\ UNCHANGED <<tool, fsid, bufferp, latest>>

-----------------------------------------------------------------------------
NewFsid == 0

Init ==
    /\ \E s \in Starts : tool = s.tool /\ hdr = s.hdr
    /\ disk = [f \in Files |-> [i \in 0..(NumBufs - 1) |-> 1]]
    /\ vol_list = << >>
    /\ fsid = IF tool.init THEN NewFsid ELSE NoFsid
    /\ cache = << >>
    /\ lists = [l \in VolNos \X (0..(BufLists - 1)) |-> << >>]
    /\ lru = << >>
    /\ bufferp = [h \in Holders |-> NULL]
    /\ latest = << >>
    /\ st = "open"

Next ==
    \/ \E f \in Files : InitVolume(f, Len(vol_list)) \/ LoadVolume(f)
    \/ Begin
    \/ \E k \in DOMAIN vol_list : FormatVolume(k)
    \/ \E h \in Holders, off \in Offsets, xlate \in BOOLEAN,
          isnew \in IF tool.rdonly THEN {0} ELSE {0, 1} :
           GetBufferData(h, off, isnew, xlate)
    \/ \E h \in Holders : (\E v \in Values : Modify(h, v)) \/ Release(h)
    \/ \E n \in 0..(Cardinality(Offsets) + Len(vol_list)) :
           FlushAllVolumes(n) \/ StripHeaders(n)

Spec == Init /\ [][Next]_vars

-----------------------------------------------------------------------------
(* Properties *)

Resident == DOMAIN cache
HeldBy(off) == {h \in Holders : bufferp[h] = off}

\* The state has its shape, and the three indexes of the resident buffers
\* agree: every buffer is once in the hash list of its offset and once in
\* the cache's list, which is what lets find_buffer() and the eviction of
\* hammer_cache_flush() speak of the same buffers.
CacheTypeOK ==
    /\ tool \in {s.tool : s \in Starts} /\ hdr \in [Files -> Header]
    /\ disk \in [Files -> [0..(NumBufs - 1) -> Values]]
    /\ \A k \in DOMAIN vol_list :
           vol_list[k] \in [name : Files, vol_no : VolNos, rdonly : BOOLEAN, ondisk : Header]
    /\ fsid \in FsIds
    /\ Resident \subseteq Offsets /\ \A off \in Resident : cache[off] \in BufferInfo
    /\ \A l \in DOMAIN lists : IsInjective(lists[l]) /\ \A i \in DOMAIN lists[l] :
           lists[l][i] \in Resident /\ ListOf(lists[l][i]) = l
    /\ IsInjective(lru) /\ ToSet(lru) = Resident
    /\ \A off \in Resident : \E i \in DOMAIN lists[ListOf(off)] : lists[ListOf(off)][i] = off
    /\ bufferp \in [Holders -> Offsets \cup {NULL}]
    /\ st \in {"open", "run", "flushed", "err_write", "errx_duplicate", "errx_twice",
               "errx_verify", "assert_volume", "assert_modified", "assert_isnew",
               "assert_refs"}

\* The volumes a verifying program works on are one filesystem: no two have
\* the same number or are the same file, and all carry the fsid of the first,
\* whatever the order the files were named in (load_volume, __add_volume).
VolumesAreOneFilesystem ==
    \A j, k \in DOMAIN vol_list :
        /\ j # k => vol_list[j].vol_no # vol_list[k].vol_no
                    /\ vol_list[j].name # vol_list[k].name
        /\ ~tool.init /\ tool.verify /\ st \in {"open", "run"} =>
               vol_list[j].ondisk.fsid = vol_list[k].ondisk.fsid

\* While the program runs, the reference count of a resident buffer is the
\* number of pointers the callers hold to it, and every pointer held is to
\* a resident buffer: get_buffer_data() releases what it replaces, and the
\* eviction and the read-ahead leave referenced buffers alone.
HoldersAreCounted ==
    st = "run" =>
        /\ \A off \in Resident : cache[off].refs = Cardinality(HeldBy(off))
        /\ \A h \in Holders : bufferp[h] # NULL => bufferp[h] \in Resident

\* What the process reads is what it last wrote: a resident buffer holds
\* the latest content of its offset, and the disk holds it whenever the buffer is clean or not resident, across eviction by
\* hammer_cache_flush(), read-ahead over cached neighbours and re-reading.
ReadsSeeLastWrite ==
    st = "run" =>
        \A off \in DOMAIN latest :
            /\ off \in Resident => cache[off].ondisk = latest[off]
            /\ off \notin Resident \/ ~cache[off].modified =>
                   disk[Volume(off).name][off[2]] = latest[off]

\* The assertions of get_buffer() on a read-ahead hit and of rel_buffer() on
\* the reference count never fail, whatever the callers ask for.
AssertionsHold == st \notin {"assert_isnew", "assert_refs"}

\* A volume's header is the last thing written to it: when a step changes the
\* header on disk, every buffer of that volume the cache holds is on disk
\* after the step, even if a later write of flush_all_volumes() fails.
HeaderWrittenLast ==
    [][\A k \in DOMAIN vol_list : hdr'[vol_list[k].name] # hdr[vol_list[k].name] =>
           \A off \in DOMAIN cache' : off[1] = vol_list[k].vol_no =>
               disk'[vol_list[k].name][off[2]] = cache'[off].ondisk]_vars

\* After a flush that succeeded the disk of every volume holds what
\* the process last stored, header and buffers (flush_all_volumes).
FlushedIsDurable ==
    st = "flushed" =>
        /\ \A off \in DOMAIN latest :
               disk[Volume(off).name][off[2]] = latest[off]
        /\ \A k \in DOMAIN vol_list :
               hdr[vol_list[k].name] = vol_list[k].ondisk
=============================================================================
