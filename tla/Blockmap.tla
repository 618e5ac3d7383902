----------------------------- MODULE Blockmap -----------------------------
(***************************************************************************)
(* The userspace blockmap/freemap allocator of the HAMMER utilities and    *)
(* the formatting sequence of newfs_hammer that builds the freemap it      *)
(* allocates from.                                                         *)
(*                                                                         *)
(*   src/src/sbin/hammer/blockmap.c        bootstrap_bigblock,             *)
(*       alloc_undo_bigblock, alloc_blockmap, blockmap_lookup_save         *)
(*   src/src/sbin/hammer/ondisk.c          format_freemap,                 *)
(*       initialize_freemap, count_freemap, format_blockmap,               *)
(*       format_undomap, alloc_btree_node, alloc_meta_element              *)
(*   src/src/sbin/newfs_hammer/newfs_hammer.c   format_volume,             *)
(*       format_root_directory                                             *)
(*                                                                         *)
(* A 64-bit HAMMER offset is  zone(4) | volume(8) | short offset(52).      *)
(* The model keeps that layout with small radices: an offset is the        *)
(* number  zone * ZoneSpan + vol * VolSpan + short,  so a carry out of the *)
(* short offset reaches the volume and then the zone exactly as in the     *)
(* code.  Sizes are in bytes; BigBlockSize, BufSize and DataAlign stand    *)
(* for 8 MiB, 16 KiB and 16.                                               *)
(*                                                                         *)
(* The program is sequential.  Every function is one action; the           *)
(* functions it calls are operators on an "image", the record of the       *)
(* in-memory volume state, so that a caller chains them in program order.  *)
(* An errx() or a failed assert() ends the process: the image keeps the    *)
(* tag of the failure in err, nothing runs after it.                       *)
(***************************************************************************)
EXTENDS Integers, FiniteSets, Sequences, SequencesExt

CONSTANTS
    BigBlockSize,       \* HAMMER_BIGBLOCK_SIZE
    BufSize,            \* HAMMER_BUFSIZE
    DataAlign,          \* quantum of HAMMER_DATA_DOALIGN
    UndoAlign,          \* HAMMER_UNDO_ALIGN
    Radix2,             \* big-blocks under one layer1 entry
    L1PerVol,           \* layer1 entries spanned by one volume number
    MaxVolumes,         \* volume numbers in an offset (HAMMER_MAX_VOLUMES)
    Starts,             \* the runs of newfs_hammer tried: [options, specials]
    Kilo,               \* the 1024 of a size suffix
    SectorBytes,        \* the unit of BLKGETSIZE (512)
    OffRange,           \* values of a hammer_off_t (2^64)
    HeaderBytes,        \* sizeof(struct hammer_volume_ondisk)
    MinVolJunk,         \* HAMMER_MIN_VOL_JUNK
    VolJunkSize,        \* HAMMER_VOL_JUNK_SIZE
    MaxVolJunk,         \* HAMMER_MAX_VOL_JUNK
    BootMin,            \* HAMMER_BOOT_MINBYTES
    BootNom,            \* HAMMER_BOOT_NOMBYTES
    BootMax,            \* HAMMER_BOOT_MAXBYTES
    MemMin,             \* HAMMER_MEM_MINBYTES
    MemNom,             \* HAMMER_MEM_NOMBYTES
    MemMax,             \* HAMMER_MEM_MAXBYTES
    UndoDivisor,        \* default UNDO size is vol_buf_size / UndoDivisor
    MinUndoBigBlocks,   \* HAMMER_MIN_UNDO_BIGBLOCKS
    MaxUndoBigBlocks,   \* HAMMER_MAX_UNDO_BIGBLOCKS
    MinFreeBytes,       \* the "10GB" below which newfs wants -f
    NodeBytes,          \* sizeof(struct hammer_node_ondisk)
    InodeBytes,         \* sizeof(struct hammer_inode_data)
    PfsBytes,           \* sizeof(struct hammer_pseudofs_data)
    AllocSizes,         \* byte counts callers of alloc_blockmap pass
    MaxAllocs           \* bound on the allocations made after formatting

ASSUME /\ BigBlockSize % BufSize = 0 /\ BufSize % DataAlign = 0
       /\ BigBlockSize % UndoAlign = 0
       /\ OffRange % BigBlockSize = 0
       \* main() asserts the first; the header constants give the others
       /\ HeaderBytes <= BufSize /\ HeaderBytes <= MinVolJunk
       /\ MinVolJunk <= VolJunkSize /\ VolJunkSize <= MaxVolJunk
       /\ BootMin <= BootNom /\ BootNom <= BootMax
       /\ MemMin <= MemNom /\ MemNom <= MemMax
       /\ \A st \in Starts : DOMAIN st = {"options", "specials"}
       \* the freemap and the UNDO big-blocks of a volume never fill the
       \* range of its first layer1 entry (2^19 big-blocks in the code)
       /\ Radix2 > 1 + L1PerVol + MaxUndoBigBlocks
       /\ AllocSizes \subseteq 1..BufSize

UNAVAIL == -1                   \* HAMMER_BLOCKMAP_UNAVAIL
ROOT_VOLNO == 0                 \* HAMMER_ROOT_VOLNO

ZONE_RAW_VOLUME == 1
ZONE_RAW_BUFFER == 2
ZONE_UNDO       == 3
ZONE_FREEMAP    == 4
ZONE_BTREE      == 8
ZONE_META       == 9
ZONE_LARGE_DATA == 10
ZONE_SMALL_DATA == 11
ZONE_UNAVAIL    == 15
MAX_ZONES       == 16

\* hammer_is_index_record(): the zones that are mapped onto zone 2.
IndexZones == ZONE_BTREE..ZONE_SMALL_DATA

-----------------------------------------------------------------------------
(* Offset arithmetic (the macros of hammer_disk.h). *)

Layer2Span == Radix2 * BigBlockSize     \* HAMMER_BLOCKMAP_LAYER2
VolSpan    == L1PerVol * Layer2Span     \* span of the short offset
ZoneSpan   == MaxVolumes * VolSpan      \* span of the long offset
Radix1     == MaxVolumes * L1PerVol     \* entries of the layer1 table

RoundUp(x, q)   == ((x + q - 1) \div q) * q
RoundDown(x, q) == (x \div q) * q

ZoneEncode(zone, long) == zone * ZoneSpan + long
ZoneDecode(off)        == off \div ZoneSpan
LongOffset(off)        == off % ZoneSpan
EncodeRawBuffer(vol, short) == ZoneEncode(ZONE_RAW_BUFFER, vol * VolSpan + short)
EncodeUndo(short)      == ZoneEncode(ZONE_UNDO, short)
XlateToZone2(off)      == ZoneEncode(ZONE_RAW_BUFFER, LongOffset(off))

Layer1Index(off)    == LongOffset(off) \div Layer2Span
Layer2Index(off)    == (off % Layer2Span) \div BigBlockSize
BigBlockOffset(off) == off % BigBlockSize          \* off & HAMMER_BIGBLOCK_MASK
DataDoAlign(bytes)  == RoundUp(bytes, DataAlign)

\* HAMMER_VOL_BUF_SIZE()
VolBufSize(vol) == vol.vol_buf_end - vol.vol_buf_beg

\* HAMMER_ZONE_LAYER2_NEXT_OFFSET
Layer2NextOffset(off) == RoundDown(off + BigBlockSize, BigBlockSize)

FullEntry(zone) == [zone |-> zone, append_off |-> BigBlockSize, bytes_free |-> 0]
FreeEntry       == [zone |-> 0, append_off |-> 0, bytes_free |-> BigBlockSize]

-----------------------------------------------------------------------------
VARIABLES
    pc,                 \* the call newfs_hammer makes next
    status,             \* "ok", or the errx()/assert() that ended the process
    av,                 \* the arguments getopt() has not consumed yet
    opts,               \* ForceOpt, HeaderJunkSize, ... : the option globals
    volume,             \* volume |-> its size and type, and the areas of
                        \* its header (vol_bot_beg ... vol_buf_end)
    vol_free_end,       \* volume |-> end of its big-block area (zone 2)
    vol_free_off,       \* volume |-> bootstrap cursor (zone 2)
    layer1,             \* layer1 index |-> [phys_offset, blocks_free]
    layer2,             \* layer2 table offset |-> (index |-> [zone, append_off, bytes_free])
    blockmap,           \* zone |-> vol0_blockmap[zone]
    undo_array,         \* vol0_undo_array
    undo_fifo,          \* UNDO offset |-> hdr_size of the head written there
    stat,               \* vol0_stat_freebigblocks, _bigblocks, _inodes
    btree_root,         \* vol0_btree_root
    btree,              \* node offset |-> the B-Tree node written there
    nformatted,         \* volumes format_volume() has returned for
    allocs              \* history: what alloc_blockmap has handed out

\* What main() keeps of the command line and of the devices.
mainvars == <<av, opts, volume>>

vars == <<pc, status, mainvars, vol_free_end, vol_free_off, layer1, layer2,
          blockmap, undo_array, undo_fifo, stat, btree_root, btree, nformatted,
          allocs>>

Volumes == DOMAIN vol_free_end

\* The in-memory volume state the allocator functions read and write.
Image ==
    [free_off |-> vol_free_off, layer1 |-> layer1, layer2 |-> layer2,
     blockmap |-> blockmap, undo_array |-> undo_array,
     freeblks |-> stat.freebigblocks, err |-> status, ret |-> 0]

Install(img) ==
    /\ vol_free_off' = img.free_off
    /\ layer1' = img.layer1
    /\ layer2' = img.layer2
    /\ blockmap' = img.blockmap
    /\ undo_array' = img.undo_array
    /\ status' = img.err

Fail(img, why) == [img EXCEPT !.err = why]

\* The layer2 entry of the big-block that holds off.
Layer2Of(img, off) ==
    img.layer2[img.layer1[Layer1Index(off)].phys_offset][Layer2Index(off)]

SetLayer2(img, off, entry) ==
    [img EXCEPT !.layer2[img.layer1[Layer1Index(off)].phys_offset][Layer2Index(off)] = entry]

-----------------------------------------------------------------------------
(* blockmap.c *)

\* Mutant: the cursor is bumped without assert_volume_offset().
BootstrapBigblock_Unchecked(img, vol) ==
    [img EXCEPT !.ret = img.free_off[vol], !.free_off[vol] = @ + BigBlockSize]

\* assert_volume_offset() and the bump of the bootstrap cursor.
BootstrapBigblock(img, vol) ==
    IF img.free_off[vol] >= vol_free_end[vol]
    THEN Fail(img, "ran_out_of_room")
    ELSE [img EXCEPT !.ret = img.free_off[vol],
                     !.free_off[vol] = @ + BigBlockSize]

\* Mutant: the big-block is counted as taken but keeps zone 0.
UndoClaim_LeavesZone(img, off) ==
    [img EXCEPT !.layer1[Layer1Index(off)].blocks_free = @ - 1,
                !.freeblks = @ - 1,
                !.ret = off]

\* The freemap side of alloc_undo_bigblock(), for the big-block at off.
UndoClaim(img, off) ==
    LET i == Layer1Index(off) IN
    IF img.layer1[i].phys_offset = UNAVAIL THEN Fail(img, "assert_undo_layer1")
    ELSE IF Layer2Of(img, off).zone # 0 THEN Fail(img, "assert_undo_layer2")
    ELSE [SetLayer2(img, off, FullEntry(ZONE_UNDO))
            EXCEPT !.layer1[i].blocks_free = @ - 1,
                   !.freeblks = @ - 1,
                   !.ret = off]

AllocUndoBigblock(img) ==
    LET b == BootstrapBigblock(img, ROOT_VOLNO) IN
    IF b.err # "ok" THEN b ELSE UndoClaim(b, b.ret)

\* Mutant: the buffer-boundary test is dropped.
SkipBuffer_Never(next, bytes) == next

\* "If the allocation would cross a buffer boundary we have to skip to the
\* next buffer": the cursor alloc_blockmap() goes on with.
SkipBuffer(next, bytes) ==
    LET tmp == next + bytes - 1 IN
    IF next \div BufSize # tmp \div BufSize THEN RoundDown(tmp, BufSize) ELSE next

\* Mutant: the claim forgets --layer1->blocks_free.
ClaimBigblock_KeepsLayer1Count(img, zone, next) ==
    LET l2 == Layer2Of(img, next) IN
    IF l2.bytes_free # BigBlockSize \/ l2.append_off # 0
    THEN Fail(img, "assert_claim")
    ELSE [SetLayer2(img, next, [l2 EXCEPT !.zone = zone])
            EXCEPT !.freeblks = @ - 1]

\* Entering a free big-block assigns it to the zone.
ClaimBigblock(img, zone, next) ==
    LET l2 == Layer2Of(img, next) IN
    IF l2.bytes_free # BigBlockSize \/ l2.append_off # 0
    THEN Fail(img, "assert_claim")
    ELSE [SetLayer2(img, next, [l2 EXCEPT !.zone = zone])
            EXCEPT !.layer1[Layer1Index(next)].blocks_free = @ - 1,
                   !.freeblks = @ - 1]

\* The append_off alloc_blockmap() leaves behind.
NewAppendOff(next) == BigBlockOffset(next)

\* Mutant: the record is handed out without layer2->bytes_free -= bytes.
AppendRecord_KeepsBytesFree(img, zone, bytes, next) ==
    LET l2 == Layer2Of(img, next) IN
    IF l2.append_off # BigBlockOffset(next) THEN Fail(img, "assert_append_off")
    ELSE [SetLayer2(img, next,
                    [l2 EXCEPT !.append_off = NewAppendOff(next + bytes)])
            EXCEPT !.blockmap[zone].next_offset = next + bytes,
                   !.ret = next]

\* The tail of alloc_blockmap(): take bytes at the cursor next.
AppendRecord(img, zone, bytes, next) ==
    LET l2 == Layer2Of(img, next) IN
    IF l2.append_off # BigBlockOffset(next) THEN Fail(img, "assert_append_off")
    ELSE [SetLayer2(img, next,
                    [l2 EXCEPT !.bytes_free = @ - bytes,
                               !.append_off = NewAppendOff(next + bytes)])
            EXCEPT !.blockmap[zone].next_offset = next + bytes,
                   !.ret = next]

\* The second assert of "Dive layer 1": the cursor enters a big-block of a
\* layer1 range that has no free big-block left.
Layer1Full(l1, next) == BigBlockOffset(next) = 0 /\ l1.blocks_free = 0

\* Whether alloc_blockmap() passes over the big-block of this layer2 entry.
SkipsBigblock(l2, zone) == l2.zone # zone

\* alloc_blockmap() from the label "again", bytes already aligned.
RECURSIVE AllocAgain(_, _, _)
AllocAgain(img, zone, bytes) ==
    IF img.blockmap[zone].next_offset = ZoneEncode(zone + 1, 0)
    THEN Fail(img, "assert_zone_end")
    ELSE
    LET next == SkipBuffer(img.blockmap[zone].next_offset, bytes)
        at   == [img EXCEPT !.blockmap[zone].next_offset = next]
        l1   == img.layer1[Layer1Index(next)]
    IN  IF l1.phys_offset = UNAVAIL THEN Fail(at, "assert_layer1_unavail")
        ELSE IF Layer1Full(l1, next) THEN Fail(at, "assert_layer1_full")
        ELSE IF Layer2Of(at, next).zone = ZONE_UNAVAIL
        THEN Fail(at, "layer2_ran_out_of_space")
        ELSE
        LET own == IF Layer2Of(at, next).zone = 0
                   THEN ClaimBigblock(at, zone, next) ELSE at
        IN  IF own.err # "ok" THEN own
            ELSE IF SkipsBigblock(Layer2Of(own, next), zone)
            THEN AllocAgain([own EXCEPT !.blockmap[zone].next_offset =
                                             Layer2NextOffset(next)],
                            zone, bytes)
            ELSE AppendRecord(own, zone, bytes, next)

\* Mutant: the byte count is used without HAMMER_DATA_DOALIGN.
AllocBlockmap_Unaligned(img, zone, nbytes) ==
    IF img.err # "ok" THEN img
    ELSE IF ZoneDecode(img.blockmap[zone].next_offset) # zone
    THEN Fail(img, "assert_zone")
    ELSE AllocAgain(img, zone, nbytes)

AllocBlockmap(img, zone, nbytes) ==
    IF img.err # "ok" THEN img
    ELSE IF ZoneDecode(img.blockmap[zone].next_offset) # zone
    THEN Fail(img, "assert_zone")
    ELSE AllocAgain(img, zone, DataDoAlign(nbytes))

\* hammer_xlate_to_undo()
XlateToUndo(array, off) ==
    array[(off % VolSpan) \div BigBlockSize + 1] + BigBlockOffset(off)

\* blockmap_lookup_save(): the error, the zone-2 offset and the two saved
\* entries (zeroed when the lookup fails before reaching them).
Zeroed1 == [phys_offset |-> 0, blocks_free |-> 0]
Zeroed2 == [zone |-> 0, append_off |-> 0, bytes_free |-> 0]

LookupSave(img, off) ==
    LET zone == ZoneDecode(off)
        bad(e, r) == [error |-> e, result |-> r, layer1 |-> Zeroed1, layer2 |-> Zeroed2]
    IN
    IF zone <= ZONE_RAW_VOLUME THEN bad(-1, UNAVAIL)
    ELSE IF zone >= MAX_ZONES THEN bad(-2, UNAVAIL)
    ELSE IF zone = ZONE_UNDO /\ off >= img.blockmap[zone].alloc_offset
    THEN bad(-3, UNAVAIL)
    ELSE
    LET result == IF zone \in IndexZones THEN XlateToZone2(off)
                  ELSE IF zone = ZONE_UNDO THEN XlateToUndo(img.undo_array, off)
                  ELSE off
    IN  IF zone \in IndexZones /\ ZoneDecode(img.blockmap[zone].alloc_offset) # zone
        THEN bad(-4, result)
        ELSE
        LET l1 == img.layer1[Layer1Index(result)] IN
        IF l1.phys_offset = UNAVAIL THEN bad(-6, result)
        ELSE
        LET l2 == Layer2Of(img, result) IN
        IF l2.zone # zone
        THEN [error |-> -8, result |-> result, layer1 |-> l1, layer2 |-> Zeroed2]
        ELSE [error |-> 0, result |-> result, layer1 |-> l1, layer2 |-> l2]

-----------------------------------------------------------------------------
(* ondisk.c *)

\* format_freemap(): a big-block for the layer1 table, every entry UNAVAIL.
FormatFreemapImage(img) ==
    LET b == BootstrapBigblock(img, ROOT_VOLNO) IN
    IF b.err # "ok" THEN b
    ELSE [b EXCEPT
            !.layer1 = [i \in 0..(Radix1 - 1) |->
                            [phys_offset |-> UNAVAIL, blocks_free |-> 0]],
            !.blockmap[ZONE_FREEMAP] =
                [phys_offset |-> b.ret, first_offset |-> 0,
                 next_offset |-> EncodeRawBuffer(0, 0),
                 alloc_offset |-> EncodeRawBuffer(MaxVolumes - 1, VolSpan - 1)]]

\* Mutant: the loops start at volume 0 whatever the volume is.
Layer1Slots_FromVolumeZero(vol) ==
    LET base == EncodeRawBuffer(0, 0)
        n    == (RoundUp(vol_free_end[vol], Layer2Span) - base) \div Layer2Span
    IN  [k \in 1..n |-> base + (k - 1) * Layer2Span]

\* The layer1 slots the loops of initialize_freemap() and count_freemap()
\* visit for a volume, as offsets, in loop order.
Layer1Slots(vol) ==
    LET base == EncodeRawBuffer(vol, 0)
        n    == (RoundUp(vol_free_end[vol], Layer2Span) - base) \div Layer2Span
    IN  [k \in 1..n |-> base + (k - 1) * Layer2Span]

\* First loop of initialize_freemap(): a big-block for each layer2 table.
PreallocLayer2(img, vol) ==
    LET Prealloc(im, phys) ==
            IF im.err # "ok" \/ im.layer1[Layer1Index(phys)].phys_offset # UNAVAIL
            THEN im
            ELSE LET b == BootstrapBigblock(im, vol) IN
                 IF b.err # "ok" THEN b
                 ELSE [b EXCEPT !.layer1[Layer1Index(phys)] =
                                    [phys_offset |-> b.ret, blocks_free |-> 0]]
    IN  FoldLeft(Prealloc, img, Layer1Slots(vol))

\* Mutant: the big-block at the bootstrap cursor is taken for a used one.
FreemapEntry_OffByOne(off, free_off, free_end) ==
    IF off <= free_off THEN FullEntry(ZONE_FREEMAP)
    ELSE IF off < free_end THEN FreeEntry
    ELSE FullEntry(ZONE_UNAVAIL)

\* What the second loop writes for the big-block at off.
FreemapEntry(off, free_off, free_end) ==
    IF off < free_off THEN FullEntry(ZONE_FREEMAP)
    ELSE IF off < free_end THEN FreeEntry
    ELSE FullEntry(ZONE_UNAVAIL)

\* Second loop of initialize_freemap(): fill the layer2 tables, count the
\* free big-blocks into layer1 and into the return value.
FillLayer2(img, vol) ==
    LET Fill(im, phys) ==
            LET table == [j \in 0..(Radix2 - 1) |->
                            FreemapEntry(phys + j * BigBlockSize,
                                         im.free_off[vol], vol_free_end[vol])]
                count == Cardinality({j \in DOMAIN table : table[j].zone = 0})
                at    == im.layer1[Layer1Index(phys)].phys_offset
            IN  [im EXCEPT
                    !.layer2 = [p \in DOMAIN im.layer2 \cup {at} |->
                                    IF p = at THEN table ELSE im.layer2[p]],
                    !.layer1[Layer1Index(phys)].blocks_free = @ + count,
                    !.ret = @ + count]
    IN  FoldLeft(Fill, [img EXCEPT !.ret = 0], Layer1Slots(vol))

InitializeFreemap(img, vol) ==
    IF img.free_off[vol] >= vol_free_end[vol] THEN Fail(img, "ran_out_of_room")
    ELSE LET pre == PreallocLayer2(img, vol) IN
         IF pre.err # "ok" THEN pre ELSE FillLayer2(pre, vol)

\* Mutant: the root volume's layer1 big-block is not counted.
CountedFreeOff_NoLayer1Table(vol) ==
    EncodeRawBuffer(vol, 0) + Len(Layer1Slots(vol)) * BigBlockSize

\* The bootstrap cursor count_freemap() predicts for a volume.
CountedFreeOff(vol) ==
    EncodeRawBuffer(vol, 0)
        + (IF vol = ROOT_VOLNO THEN BigBlockSize ELSE 0)
        + Len(Layer1Slots(vol)) * BigBlockSize

\* count_freemap(): the free big-blocks formatting will leave, computed
\* without formatting.
CountFreemap(vol) ==
    LET base == EncodeRawBuffer(vol, 0)
        n    == (RoundUp(vol_free_end[vol], Layer2Span) - base) \div BigBlockSize
    IN  Cardinality({k \in 0..(n - 1) :
            /\ base + k * BigBlockSize >= CountedFreeOff(vol)
            /\ base + k * BigBlockSize < vol_free_end[vol]})

\* format_blockmap()
FormattedBlockmap(zone) ==
    [phys_offset |-> 0, first_offset |-> ZoneEncode(zone, 0),
     next_offset |-> ZoneEncode(zone, 0),
     alloc_offset |-> ZoneEncode(zone, ZoneSpan - 1)]

\* The size format_undomap() settles on for a requested size, which it
\* takes as a hammer_off_t: a negative one is a very large one, and
\* rounding that up to a big-block may wrap to 0.
UndoLimit(requested) ==
    LET minbuf == BigBlockSize * MinUndoBigBlocks
        share  == VolBufSize(volume[ROOT_VOLNO]) \div UndoDivisor
        limit  == IF requested # 0 THEN requested % OffRange
                  ELSE IF share < minbuf THEN minbuf ELSE share
        align  == RoundUp(limit, BigBlockSize) % OffRange
    IN  IF align < BigBlockSize THEN BigBlockSize
        ELSE IF align > BigBlockSize * MaxUndoBigBlocks
        THEN BigBlockSize * MaxUndoBigBlocks
        ELSE align

\* format_undomap(): the UNDO blockmap and its big-blocks.
FormatUndomapImage(img, requested) ==
    LET limit == UndoLimit(requested)
        undo  == [phys_offset |-> UNAVAIL, first_offset |-> EncodeUndo(0),
                  next_offset |-> EncodeUndo(0), alloc_offset |-> EncodeUndo(limit)]
        Alloc(im, n) ==
            IF im.err # "ok" THEN im
            ELSE LET a == AllocUndoBigblock(im) IN
                 IF a.err # "ok" THEN a
                 ELSE [a EXCEPT !.undo_array = Append(@, a.ret)]
        done == FoldLeft(Alloc, [img EXCEPT !.blockmap[ZONE_UNDO] = undo],
                         [n \in 1..(limit \div BigBlockSize) |-> n])
    IN  IF done.err # "ok" THEN done
        ELSE [done EXCEPT !.undo_array =
                 @ \o [n \in 1..(MaxUndoBigBlocks - Len(@)) |-> UNAVAIL]]

\* The dummy heads format_undomap() writes over the whole FIFO.
DummyHeads(bm) ==
    [scan \in {bm.first_offset + k * UndoAlign :
                 k \in 0..((bm.alloc_offset - bm.first_offset) \div UndoAlign - 1)}
        |-> UndoAlign]

-----------------------------------------------------------------------------
(* newfs_hammer.c: the command line and the devices. *)

VOL_VERSION_MIN     == 1        \* HAMMER_VOL_VERSION_MIN
VOL_VERSION_DEFAULT == 7        \* HAMMER_VOL_VERSION_DEFAULT
VOL_VERSION_WIP     == 8        \* HAMMER_VOL_VERSION_WIP

\* The option globals as they are before getopt(): a size that was not
\* given is -1, the UNDO size 0.
Defaults ==
    [ForceOpt |-> FALSE, eflag |-> FALSE, label |-> FALSE,
     HeaderJunkSize |-> -1, BootAreaSize |-> -1, MemoryLogSize |-> -1,
     UndoBufferSize |-> 0, HammerVersion |-> -1]

\* How often a suffix multiplies by 1024: the cases fall through.
SuffixPower == [t |-> 4, g |-> 3, m |-> 2, k |-> 1]

\* What the test (val ^ (val - 1)) == ((val << 1) - 1) lets through.
PowersOf2 == {0} \cup {2 ^ e : e \in 0..30}

\* getsize(): a number and one suffix letter.  A number without a suffix
\* is an "Unknown suffix" too.
GetSize(arg, powerof2) ==
    LET val == arg.num * Kilo ^ SuffixPower[arg.suffix] IN
    IF arg.suffix \notin DOMAIN SuffixPower
    THEN [err |-> "unknown_suffix", val |-> 0]
    ELSE IF powerof2 \in {1, 3} /\ val \notin PowersOf2
    THEN [err |-> "not_power_of_2", val |-> val]
    ELSE IF powerof2 \in {2, 3} /\ val % BufSize # 0
    THEN [err |-> "not_bufsize_multiple", val |-> val]
    ELSE [err |-> "ok", val |-> val]

\* The global a size option sets and the limits its test_..._size() knows.
SizeOptions ==
    [j |-> [global |-> "HeaderJunkSize", min |-> MinVolJunk, max |-> MaxVolJunk],
     b |-> [global |-> "BootAreaSize", min |-> BootMin, max |-> BootMax],
     m |-> [global |-> "MemoryLogSize", min |-> MemMin, max |-> MemMax],
     u |-> [global |-> "UndoBufferSize",
            min |-> BigBlockSize * MinUndoBigBlocks,
            max |-> BigBlockSize * MaxUndoBigBlocks]]

\* test_header_junk_size(), test_boot_area_size(), test_memory_log_size()
\* and test_undo_buffer_size(): below the minimum is an error unless -f was
\* already seen, above the maximum always.
TestSize(size, lim, force) ==
    IF size < lim.min THEN (IF force THEN "ok" ELSE "below_minimum")
    ELSE IF size > lim.max THEN "above_maximum"
    ELSE "ok"

\* case 'j', 'b', 'm', 'u'
SizeOption(g, o) ==
    LET size == GetSize(o, 2)
        lim  == SizeOptions[o.opt]
        test == TestSize(size.val, lim, g.ForceOpt)
    IN  IF size.err # "ok" THEN Fail(g, size.err)
        ELSE IF test # "ok" THEN Fail(g, test)
        ELSE [g EXCEPT ![lim.global] = size.val]

\* One turn of the getopt() loop.
Getopt(g, o) ==
    IF g.err # "ok" THEN g
    ELSE CASE o.opt = "d" -> g
           [] o.opt = "f" -> [g EXCEPT !.ForceOpt = TRUE]
           [] o.opt = "E" -> [g EXCEPT !.eflag = TRUE]
           [] o.opt = "L" -> [g EXCEPT !.label = TRUE]
           [] o.opt \in DOMAIN SizeOptions -> SizeOption(g, o)
           [] o.opt = "h" -> Fail(g, "help")
           [] o.opt = "C" -> IF o.num > 0 THEN g ELSE Fail(g, "usage")
           [] o.opt = "V" ->
                IF o.num \in VOL_VERSION_MIN..(VOL_VERSION_WIP - 1)
                THEN [g EXCEPT !.HammerVersion = o.num]
                ELSE Fail(g, "bad_version")
           [] OTHER -> Fail(g, "usage")

\* main() between the getopt() loop and init_volume(): the version when -V
\* was not given (sysctlbyname() of this port always fails, which leaves the
\* default), the number of volumes and the label.
CheckArguments(g, nvols) ==
    IF g.err # "ok" THEN g
    ELSE IF nvols = 0 THEN Fail(g, "no_volume")
    ELSE IF nvols > MaxVolumes THEN Fail(g, "too_many_volumes")
    ELSE IF ~g.label THEN Fail(g, "no_label")
    ELSE IF g.HammerVersion # -1 THEN g
    ELSE [g EXCEPT !.HammerVersion = VOL_VERSION_DEFAULT]

\* check_volume(): a block device, whose size is in sectors, or a regular
\* file; sector_size 0 is the ioctl that fails.
CheckVolume(dev) ==
    IF dev.kind = "regfile"
    THEN [size |-> dev.size, type |-> "REGFILE", err |-> "ok"]
    ELSE IF dev.kind # "device"
    THEN [size |-> 0, type |-> "", err |-> "unsupported_file_type"]
    ELSE IF dev.sector_size = 0
    THEN [size |-> 0, type |-> "", err |-> "no_sector_size"]
    ELSE IF dev.sector_size > BufSize \/ BufSize % dev.sector_size # 0
    THEN [size |-> 0, type |-> "", err |-> "bad_sector_size"]
    ELSE [size |-> dev.size * SectorBytes, type |-> "DEVICE", err |-> "ok"]

\* trim_volume() under -E, and what main() makes of its result.
TrimVolume(vol, dev, force) ==
    IF vol.type = "REGFILE" THEN (IF force THEN "ok" ELSE "use_f_to_proceed")
    ELSE IF dev.discards THEN "ok" ELSE "trim_failed"

\* The volume_info of init_volume(): the header is calloc()'ed.
VolumeInfo(checked) ==
    [size |-> checked.size, type |-> checked.type,
     vol_bot_beg |-> 0, vol_mem_beg |-> 0, vol_buf_beg |-> 0, vol_buf_end |-> 0]

\* The loop of main() over the special files: init_volume(), then TRIM.
\* The first volume that fails ends the program.
OpenVolumes(specials, g) ==
    LET Open(acc, dev) ==
            LET checked == CheckVolume(dev)
                vol     == VolumeInfo(checked)
                trimmed == IF g.eflag THEN TrimVolume(vol, dev, g.ForceOpt)
                           ELSE "ok"
            IN  IF acc.err # "ok" THEN acc
                ELSE IF checked.err # "ok" THEN Fail(acc, checked.err)
                ELSE IF trimmed # "ok" THEN Fail(acc, trimmed)
                ELSE [acc EXCEPT !.vols = Append(@, vol),
                                 !.total = @ + vol.size]
    IN  FoldLeft(Open, [vols |-> << >>, total |-> 0, err |-> "ok"], specials)

\* The halving loop of init_boot_area_size() and init_memory_log_size().
RECURSIVE Halved(_, _)
Halved(value, limit) ==
    IF value > limit THEN Halved(value \div 2, limit) ELSE value

\* init_boot_area_size() and init_memory_log_size(): they scale the nominal
\* size to the volume only for a value of 0.
InitAreaSize(value, avg_vol_size, nom, min, max) ==
    LET v == IF value = 0 THEN Halved(nom, avg_vol_size \div MaxVolumes)
             ELSE value
    IN  IF v < min THEN min ELSE IF v > max THEN max ELSE v

\* Mutant: a header junk size forced below the header is taken as given.
SizeDefaults_NoJunkFloor(g, total, nvols) ==
    [g EXCEPT
       !.HeaderJunkSize = IF @ = -1 THEN VolJunkSize ELSE RoundUp(@, BufSize),
       !.BootAreaSize = IF @ = -1 THEN BootMin ELSE @,
       !.MemoryLogSize = IF @ = -1 THEN MemMin ELSE @]

\* main(): the header junk, boot area and memory log sizes every volume
\* gets.  main() calls the two init functions with the -1 of "not given".
SizeDefaults(g, total, nvols) ==
    LET avg_vol_size == total \div nvols IN
    [g EXCEPT
       !.HeaderJunkSize =
           RoundUp(IF @ = -1 THEN VolJunkSize
                   ELSE IF @ < HeaderBytes THEN HeaderBytes ELSE @, BufSize),
       !.BootAreaSize =
           IF @ = -1 THEN InitAreaSize(@, avg_vol_size, BootNom, BootMin, BootMax)
           ELSE @,
       !.MemoryLogSize =
           IF @ = -1 THEN InitAreaSize(@, avg_vol_size, MemNom, MemMin, MemMax)
           ELSE @]

\* volume->vol_free_end: the big-blocks that fit into the buffer area whole.
FreeEnd(vol_no, vol_buf_size) ==
    EncodeRawBuffer(vol_no, RoundDown(vol_buf_size, BigBlockSize))

\* format_volume(): the areas of a volume, in the order they lie on it.
HeaderAreas(vol, g) ==
    [vol EXCEPT !.vol_bot_beg = g.HeaderJunkSize,
                !.vol_mem_beg = g.HeaderJunkSize + g.BootAreaSize,
                !.vol_buf_beg = g.HeaderJunkSize + g.BootAreaSize + g.MemoryLogSize,
                !.vol_buf_end = RoundDown(vol.size, BufSize)]

-----------------------------------------------------------------------------
(* newfs_hammer.c: main() and format_volume(), one call at a time. *)

ZeroedBlockmap ==
    [phys_offset |-> 0, first_offset |-> 0, next_offset |-> 0, alloc_offset |-> 0]

Init ==
    /\ av \in Starts
    /\ opts = Defaults
    /\ volume = << >>
    /\ vol_free_end = << >>
    /\ vol_free_off = << >>
    /\ pc = "getopt"
    /\ status = "ok"
    /\ layer1 = << >>
    /\ layer2 = << >>
    /\ blockmap = [z \in {ZONE_UNDO, ZONE_FREEMAP} \cup IndexZones |-> ZeroedBlockmap]
    /\ undo_array = << >>
    /\ undo_fifo = << >>
    /\ stat = [freebigblocks |-> 0, bigblocks |-> 0, inodes |-> 0]
    /\ btree_root = 0
    /\ btree = << >>
    /\ nformatted = 0
    /\ allocs = {}

\* The step of main() named by pc is taken only while the process lives.
At(label) == pc = label /\ status = "ok"

\* What main() leaves alone before it formats.
formatvars == <<layer1, layer2, blockmap, undo_array, undo_fifo, stat,
               btree_root, btree, nformatted, allocs>>

\* main(): the getopt() loop and the checks that follow it; what is left
\* of the arguments are the special files.
ParseArguments ==
    /\ At("getopt")
    /\ LET g == CheckArguments(FoldLeft(Getopt, opts @@ [err |-> "ok"], av.options),
                               Len(av.specials))
       IN  /\ status' = g.err
           /\ opts' = Restrict(g, DOMAIN opts)
    /\ av' = [av EXCEPT !.options = << >>]
    /\ pc' = "init_volume"
    /\ UNCHANGED <<volume, vol_free_end, vol_free_off, formatvars>>

\* main(): the volumes are opened and numbered in the order given, and
\* the sizes of the header areas are settled.
InitVolumes ==
    /\ At("init_volume")
    /\ LET opened == OpenVolumes(av.specials, opts)
           nos    == 0..(Len(opened.vols) - 1)
       IN  /\ status' = opened.err
           /\ volume' = [v \in nos |-> opened.vols[v + 1]]
           /\ vol_free_off' = [v \in nos |-> 0]
           /\ vol_free_end' = [v \in nos |-> 0]
           /\ opts' = IF opened.err # "ok" THEN opts
                      ELSE SizeDefaults(opts, opened.total, Len(opened.vols))
    /\ pc' = "format_header"
    /\ UNCHANGED <<av, formatvars>>

\* format_volume(), of any volume, up to "Format the root volume": the
\* areas of the header and the big-block area the freemap will describe.
FormatHeader ==
    /\ At("format_header")
    /\ LET vol  == HeaderAreas(volume[nformatted], opts)
           size == VolBufSize(vol)
           err  == IF size < HeaderBytes THEN "volume_too_small"
                   ELSE IF size >= VolSpan THEN "volume_too_large"
                   ELSE "ok"
       IN  /\ volume' = [volume EXCEPT ![nformatted] = vol]
           /\ status' = err
           /\ vol_free_off' = IF err # "ok" THEN vol_free_off
                              ELSE [vol_free_off EXCEPT ![nformatted] =
                                        EncodeRawBuffer(nformatted, 0)]
           /\ vol_free_end' = IF err # "ok" THEN vol_free_end
                              ELSE [vol_free_end EXCEPT ![nformatted] =
                                        FreeEnd(nformatted, size)]
    /\ pc' = IF nformatted = ROOT_VOLNO THEN "count_freemap" ELSE "format_volume"
    /\ UNCHANGED <<av, opts, formatvars>>

\* format_volume(root): "Check freemap counts before formatting".
CheckFreemapCounts ==
    /\ At("count_freemap")
    /\ status' = IF vol_free_off[ROOT_VOLNO] >= vol_free_end[ROOT_VOLNO]
                 THEN "ran_out_of_room"
                 ELSE IF CountFreemap(ROOT_VOLNO) * BigBlockSize < MinFreeBytes
                         /\ ~opts.ForceOpt
                 THEN "too_small_without_force"
                 ELSE "ok"
    /\ pc' = "format_freemap"
    /\ UNCHANGED <<mainvars, vol_free_end, vol_free_off, formatvars>>

FormatFreemap ==
    /\ At("format_freemap")
    /\ Install(FormatFreemapImage(Image))
    /\ pc' = "initialize_freemap"
    /\ UNCHANGED <<mainvars, vol_free_end, undo_fifo, stat, btree_root, btree,
                   nformatted, allocs>>

\* vol0_stat_freebigblocks = initialize_freemap(root)
InitializeRootFreemap ==
    /\ At("initialize_freemap")
    /\ LET img == InitializeFreemap(Image, ROOT_VOLNO) IN
         /\ Install(img)
         /\ stat' = [stat EXCEPT !.freebigblocks = img.ret]
    /\ pc' = "format_blockmap"
    /\ UNCHANGED <<mainvars, vol_free_end, undo_fifo, btree_root, btree,
                   nformatted, allocs>>

FormatBlockmaps ==
    /\ At("format_blockmap")
    /\ blockmap' = [z \in DOMAIN blockmap |->
                       IF z \in IndexZones THEN FormattedBlockmap(z) ELSE blockmap[z]]
    /\ pc' = "format_undomap"
    /\ UNCHANGED <<status, mainvars, vol_free_end, vol_free_off, layer1, layer2,
                   undo_array, undo_fifo, stat, btree_root, btree, nformatted,
                   allocs>>

\* format_undomap(), which leaves the size it settled on in
\* UndoBufferSize, then vol0_stat_bigblocks = vol0_stat_freebigblocks.
FormatUndomap ==
    /\ At("format_undomap")
    /\ LET img == FormatUndomapImage(Image, opts.UndoBufferSize) IN
         /\ Install(img)
         /\ undo_fifo' = IF img.err = "ok" THEN DummyHeads(img.blockmap[ZONE_UNDO])
                         ELSE undo_fifo
         /\ stat' = [stat EXCEPT !.freebigblocks = img.freeblks,
                                 !.bigblocks = img.freeblks]
    /\ opts' = [opts EXCEPT !.UndoBufferSize = UndoLimit(@)]
    /\ pc' = "format_root_directory"
    /\ UNCHANGED <<av, volume, vol_free_end, btree_root, btree, nformatted, allocs>>

Allocation(zone, nbytes, img) ==
    [zone |-> zone, off |-> img.ret, bytes |-> DataDoAlign(nbytes)]

\* A leaf element and the record it points to; a B-Tree node.
LeafElm(rec_type, data_offset, data_len) ==
    [rec_type |-> rec_type, data_offset |-> data_offset, data_len |-> data_len]
LeafNode(elms) == [type |-> "LEAF", elms |-> elms]

\* The root of the B-Tree as format_root_directory() fills it in: a leaf
\* of two elements, the root inode and the root PFS record.
RootLeaf(idata_off, pfsd_off) ==
    LeafNode(<<LeafElm("INODE", idata_off, InodeBytes),
               LeafElm("PFS", pfsd_off, PfsBytes)>>)

\* format_root_directory(): the root B-Tree node, the root inode and the
\* root PFS record; then ++vol0_stat_inodes and format_volume(root) returns.
FormatRootDirectory ==
    /\ At("format_root_directory")
    /\ LET node  == AllocBlockmap(Image, ZONE_BTREE, NodeBytes)
           inode == AllocBlockmap(node, ZONE_META, InodeBytes)
           pfs   == AllocBlockmap(inode, ZONE_META, PfsBytes)
       IN  /\ Install(pfs)
           /\ stat' = [stat EXCEPT !.freebigblocks = pfs.freeblks,
                                   !.inodes = IF pfs.err = "ok" THEN @ + 1 ELSE @]
           /\ btree_root' = IF pfs.err = "ok" THEN node.ret ELSE btree_root
           /\ btree' = IF pfs.err = "ok"
                       THEN node.ret :> RootLeaf(inode.ret, pfs.ret)
                       ELSE btree
           /\ allocs' = IF pfs.err # "ok" THEN allocs
                        ELSE allocs \cup {Allocation(ZONE_BTREE, NodeBytes, node),
                                          Allocation(ZONE_META, InodeBytes, inode),
                                          Allocation(ZONE_META, PfsBytes, pfs)}
    /\ nformatted' = 1
    /\ pc' = IF Cardinality(Volumes) = 1 THEN "formatted" ELSE "format_header"
    /\ UNCHANGED <<mainvars, vol_free_end, undo_fifo>>

\* The rest of format_volume() for a volume that is not the root: its free
\* big-blocks are added to the root volume's counters.
FormatVolume ==
    /\ At("format_volume")
    /\ LET img == InitializeFreemap(Image, nformatted) IN
         /\ Install(img)
         /\ stat' = IF img.err # "ok" THEN stat
                    ELSE [stat EXCEPT !.freebigblocks = @ + img.ret,
                                      !.bigblocks = @ + img.ret]
    /\ nformatted' = nformatted + 1
    /\ pc' = IF nformatted + 1 = Cardinality(Volumes) THEN "formatted"
             ELSE "format_header"
    /\ UNCHANGED <<mainvars, vol_free_end, undo_fifo, btree_root, btree, allocs>>

\* alloc_btree_node(), alloc_meta_element() and any other caller of
\* alloc_blockmap() on the formatted filesystem.
Alloc(zone, nbytes) ==
    /\ At("formatted")
    /\ Cardinality(allocs) < MaxAllocs
    /\ LET img == AllocBlockmap(Image, zone, nbytes) IN
         /\ Install(img)
         /\ stat' = [stat EXCEPT !.freebigblocks = img.freeblks]
         /\ allocs' = IF img.err = "ok"
                      THEN allocs \cup {Allocation(zone, nbytes, img)}
                      ELSE allocs
    /\ UNCHANGED <<pc, mainvars, vol_free_end, undo_fifo, btree_root, btree,
                   nformatted>>

Next ==
    \/ ParseArguments
    \/ InitVolumes
    \/ FormatHeader
    \/ CheckFreemapCounts
    \/ FormatFreemap
    \/ InitializeRootFreemap
    \/ FormatBlockmaps
    \/ FormatUndomap
    \/ FormatRootDirectory
    \/ FormatVolume
    \/ \E zone \in IndexZones, nbytes \in AllocSizes : Alloc(zone, nbytes)

Spec == Init /\ [][Next]_vars

-----------------------------------------------------------------------------
(* Properties. *)

Labels == {"getopt", "init_volume", "format_header",
           "count_freemap", "format_freemap", "initialize_freemap",
           "format_blockmap", "format_undomap", "format_root_directory",
           "format_volume", "formatted"}

\* exits of main(): the command line is not one newfs_hammer accepts.
UsageFailures == {"usage", "help", "unknown_suffix", "not_power_of_2",
                  "not_bufsize_multiple", "below_minimum", "above_maximum",
                  "bad_version", "no_volume", "too_many_volumes", "no_label"}

\* err() and errx() exits: a special file cannot be formatted.
DeviceFailures == {"unsupported_file_type", "no_sector_size", "bad_sector_size",
                   "use_f_to_proceed", "trim_failed"}

\* errx() exits: the volume cannot hold what formatting or a caller asks.
SpaceFailures == {"volume_too_small", "volume_too_large", "ran_out_of_room",
                  "too_small_without_force", "layer2_ran_out_of_space"}

Options ==
    [opt : {"d", "f", "E", "L", "j", "b", "m", "u", "h", "C", "V", "?"},
     num : Int, suffix : {""} \cup DOMAIN SuffixPower]

Specials ==
    [kind : {"regfile", "device", "other"}, size : Nat, sector_size : Nat,
     discards : BOOLEAN]

VolumeInfos ==
    [size : Nat, type : {"REGFILE", "DEVICE"},
     vol_bot_beg : Nat, vol_mem_beg : Int, vol_buf_beg : Int, vol_buf_end : Nat]

\* assert()s on the allocation cursor, which a caller can run into.
CursorAsserts == {"assert_zone", "assert_zone_end", "assert_layer1_unavail",
                  "assert_layer1_full", "assert_append_off"}

\* assert()s on the freemap's own consistency.
ConsistencyAsserts == {"assert_undo_layer1", "assert_undo_layer2",
                       "assert_claim"}

Layer2Entries ==
    [zone : {0, ZONE_UNDO, ZONE_FREEMAP, ZONE_UNAVAIL} \cup IndexZones,
     append_off : 0..BigBlockSize, bytes_free : 0..BigBlockSize]

BlockmapEntries ==
    [phys_offset : {UNAVAIL} \cup Nat, first_offset : Nat,
     next_offset : Nat, alloc_offset : Nat]

\* The type invariant.  The bootstrap cursor of a volume stays inside the
\* volume's big-block area (bootstrap_bigblock() checks before it bumps),
\* and no counter of free space goes below zero.
TypeOK ==
    /\ pc \in Labels
    /\ status \in {"ok"} \cup UsageFailures \cup DeviceFailures \cup SpaceFailures
                      \cup CursorAsserts \cup ConsistencyAsserts
    /\ av \in [options : Seq(Options), specials : Seq(Specials)]
    /\ opts \in [ForceOpt : BOOLEAN, eflag : BOOLEAN, label : BOOLEAN,
                 HeaderJunkSize : Int, BootAreaSize : Int,
                 MemoryLogSize : Int, UndoBufferSize : Int,
                 HammerVersion : {-1} \cup VOL_VERSION_MIN..(VOL_VERSION_WIP - 1)]
    /\ Volumes \subseteq 0..(MaxVolumes - 1)
    /\ DOMAIN volume = Volumes /\ DOMAIN vol_free_off = Volumes
    /\ \A v \in Volumes :
         /\ volume[v] \in VolumeInfos
         /\ vol_free_end[v] \in Nat
         /\ \/ vol_free_off[v] \in EncodeRawBuffer(v, 0)..vol_free_end[v]
            \/ vol_free_end[v] = EncodeRawBuffer(v, 0)
            \/ vol_free_off[v] = 0 /\ vol_free_end[v] = 0
    /\ DOMAIN layer1 \in {{}, 0..(Radix1 - 1)}
    /\ \A i \in DOMAIN layer1 :
         layer1[i] \in [phys_offset : {UNAVAIL} \cup Nat, blocks_free : 0..Radix2]
    /\ \A p \in DOMAIN layer2 : layer2[p] \in [0..(Radix2 - 1) -> Layer2Entries]
    /\ blockmap \in [{ZONE_UNDO, ZONE_FREEMAP} \cup IndexZones -> BlockmapEntries]
    /\ undo_array \in Seq({UNAVAIL} \cup Nat) /\ Len(undo_array) <= MaxUndoBigBlocks
    /\ \A scan \in DOMAIN undo_fifo : undo_fifo[scan] = UndoAlign
    /\ stat \in [freebigblocks : Nat, bigblocks : Nat, inodes : 0..1]
    /\ btree_root \in Nat
    /\ DOMAIN btree \subseteq Nat
    /\ nformatted \in 0..Cardinality(Volumes)
    /\ allocs \subseteq [zone : IndexZones, off : Nat, bytes : 1..BufSize]

Running == status = "ok"

\* The big-blocks the freemap describes: layer1 index and layer2 index.
BigBlocks ==
    {b \in (DOMAIN layer1) \X (0..(Radix2 - 1)) :
        layer1[b[1]].phys_offset \in DOMAIN layer2}

EntryOf(b)   == layer2[layer1[b[1]].phys_offset][b[2]]
OffsetOf(b)  == ZoneEncode(ZONE_RAW_BUFFER, b[1] * Layer2Span + b[2] * BigBlockSize)
AllocsIn(b)  == {a \in allocs : RoundDown(XlateToZone2(a.off), BigBlockSize) = OffsetOf(b)}

\* The three counts of free big-blocks agree: vol0_stat_freebigblocks, the
\* sum of layer1->blocks_free, and the layer2 entries whose zone is 0.
\* initialize_freemap() sets them, alloc_undo_bigblock() and the claim in
\* alloc_blockmap() each decrement two of them with the third.
FreeCountsAgree ==
    Running /\ pc \notin {"count_freemap", "format_freemap", "initialize_freemap"} =>
        /\ \A i \in DOMAIN layer1 :
             layer1[i].blocks_free =
                Cardinality({b \in BigBlocks : b[1] = i /\ EntryOf(b).zone = 0})
        /\ stat.freebigblocks = Cardinality({b \in BigBlocks : EntryOf(b).zone = 0})

\* Conservation: the bytes_free of a big-block is the big-block size less
\* the aligned sizes of the records alloc_blockmap() handed out inside it,
\* a free big-block holds no record, and a freemap, UNDO or unavailable
\* one has nothing free.
BytesFreeConserved ==
    Running =>
        \A b \in BigBlocks :
            /\ EntryOf(b).bytes_free =
                 IF EntryOf(b).zone \in IndexZones \cup {0}
                 THEN BigBlockSize - MapThenSumSet(LAMBDA a : a.bytes, AllocsIn(b))
                 ELSE 0
            /\ \A a \in AllocsIn(b) : a.zone = EntryOf(b).zone

\* No two records alloc_blockmap() handed out, of the same zone or of two
\* zones, share a byte of the volume.
AllocationsDisjoint ==
    \A a, b \in allocs :
        a # b => \/ LongOffset(a.off) + a.bytes <= LongOffset(b.off)
                 \/ LongOffset(b.off) + b.bytes <= LongOffset(a.off)

\* Every record lies inside one buffer, aligned, so that get_buffer_data()
\* of its offset reaches all of it: what the boundary skip of
\* alloc_blockmap() is for.
AllocationsFitBuffers ==
    \A a \in allocs :
        /\ a.off % DataAlign = 0
        /\ a.off \div BufSize = (a.off + a.bytes - 1) \div BufSize

\* Round trip: blockmap_lookup_save() of an offset alloc_blockmap() handed
\* out, and of every head format_undomap() wrote, finds a big-block of the
\* zone of the offset, and two UNDO offsets never resolve to one place.
LookupRoundTrip ==
    Running =>
        /\ \A a \in allocs :
             LET r == LookupSave(Image, a.off) IN
                /\ r.error = 0
                /\ r.layer2.zone = a.zone
                /\ r.result = XlateToZone2(a.off)
        /\ \A u \in DOMAIN undo_fifo :
             LET r == LookupSave(Image, u) IN
                /\ r.error = 0
                /\ r.layer2.zone = ZONE_UNDO
        /\ \A u, w \in DOMAIN undo_fifo :
             LookupSave(Image, u).result = LookupSave(Image, w).result => u = w

\* count_freemap() predicts, without formatting, what formatting counts:
\* the vol0_stat_freebigblocks initialize_freemap() returns for the root
\* volume, and the vol0_stat_bigblocks of the formatted volumes once the
\* UNDO big-blocks are taken off.
CountFreemapPredicts ==
    LET counted == IF pc = "format_root_directory" THEN {ROOT_VOLNO}
                   ELSE 0..(nformatted - 1)
    IN  /\ Running /\ pc \in {"format_blockmap", "format_undomap"} =>
            stat.freebigblocks = CountFreemap(ROOT_VOLNO)
        /\ Running /\ pc \in {"format_root_directory", "format_volume", "formatted"} =>
            stat.bigblocks + Cardinality({n \in DOMAIN undo_array : undo_array[n] # UNAVAIL}) =
                MapThenSumSet(LAMBDA v : CountFreemap(v), counted)

\* The assertions of the allocator about the freemap itself never fire:
\* alloc_undo_bigblock() finds a free big-block at the bootstrap cursor,
\* and a big-block alloc_blockmap() claims is untouched.  Nor is running
\* out of big-blocks ever reported by the errx() of alloc_blockmap(),
\* "layer2 ran out of space": a cursor reaches an unavailable layer2 entry
\* only at the start of a big-block and only after every big-block before
\* it in the layer1 range was taken, so the assert on layer1->blocks_free
\* ends the process first.
FreemapAssertsHold ==
    status \notin ConsistencyAsserts \cup {"layer2_ran_out_of_space"}

\* No step takes a big-block away from its owner: once a layer2 entry has
\* a zone, formatting a further volume or allocating never changes it.
OwnershipIsStable ==
    [][\A p \in DOMAIN layer2 : \A j \in DOMAIN layer2[p] :
          layer2[p][j].zone # 0 =>
              /\ p \in DOMAIN layer2'
              /\ layer2'[p][j].zone = layer2[p][j].zone]_vars

\* Where a big-block of the freemap lies: its volume, and its offset in
\* the volume's buffer area.
VolumeOf(b) == b[1] \div L1PerVol
ShortOf(b)  == (b[1] % L1PerVol) * Layer2Span + b[2] * BigBlockSize

\* Every big-block the freemap offers or has handed out lies on its
\* device, whole, behind the volume header, the boot area and the memory
\* log, which follow one another in that order: what main() makes of -j,
\* -b and -m and of a forced size below the minimum, the masks of
\* format_volume() on the size of the device, and the bounds of the second
\* loop of initialize_freemap() agree.  A boot area or memory log below
\* zero, which -f lets through, is the one command line that is excepted.
BigBlocksOnDevice ==
    opts.BootAreaSize >= 0 /\ opts.MemoryLogSize >= 0 =>
        \A b \in BigBlocks :
            LET vol == volume[VolumeOf(b)] IN
            EntryOf(b).zone # ZONE_UNAVAIL =>
                /\ HeaderBytes <= vol.vol_bot_beg
                /\ vol.vol_bot_beg <= vol.vol_mem_beg
                /\ vol.vol_mem_beg <= vol.vol_buf_beg
                /\ vol.vol_buf_beg + ShortOf(b) + BigBlockSize <= vol.size

=============================================================================
