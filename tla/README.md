# HAMMER utilities: TLA+ models

Models of the userspace HAMMER tools of this repository (`hammer`,
`newfs_hammer` and their helpers), checked with TLC.  Every definition is
translated from the C source; `PROJECT.json` names, for each definition, the
lines it stands for.

## 1. The system

The repository is a port of DragonFly's HAMMER utilities.  Its parts:

| Part | Source | State it owns | Operations |
|---|---|---|---|
| Blockmap allocator | `sbin/hammer/blockmap.c` | layer1/layer2 freemap entries, the per-zone cursors `vol0_blockmap[zone]`, the bootstrap cursor `vol_free_off` of each volume | `bootstrap_bigblock`, `alloc_undo_bigblock`, `alloc_blockmap`, `blockmap_lookup(_save)` |
| Volume formatting | `sbin/newfs_hammer/newfs_hammer.c`, `sbin/hammer/ondisk.c` | the option globals (`ForceOpt`, `HeaderJunkSize`, `BootAreaSize`, `MemoryLogSize`, `UndoBufferSize`, `HammerVersion`), volume headers, the freemap, the UNDO FIFO, the root of the B-Tree | `main` with `getsize` and the four `test_*_size`, `check_volume`, `trim_volume`, `format_volume`, `count_freemap`, `format_freemap`, `initialize_freemap`, `format_blockmap`, `format_undomap`, `format_root_directory` |
| Mirror session | `sbin/hammer/cmd_mirror.c` | source: TID range, key cursor, histogram and its index, `streaming`, `interrupted`; target: pickup header, record buffer; shared: the pipe, the target PFS's `sync_end_tid`, the cycle file | `hammer_cmd_mirror_read`, `hammer_cmd_mirror_write`, `hammer_cmd_mirror_copy`, `read_mrecords`, `read_mrecord`, `write_mrecord`, `validate_mrec_header`, `update_pfs_snapshot` |
| Mirror record layer | `sbin/hammer/cmd_mirror.c` | the bytes in the pipe, the reader's pickup header and buffer, `bwcount` | `write_mrecord`, `writebw`, `read_mrecord`, `read_mrecords`, `hammer_cmd_mirror_dump` |
| Histogram prescan | `sbin/hammer/cmd_mirror.c` | `tid_bytes[]`, `histogram_ary[]` | `generate_histogram` |
| Blockmap checker | `sbin/hammer/cmd_blockmap.c` | the red-black tree of per-big-block byte counts | `hammer_cmd_blockmap`, `hammer_cmd_checkmap` |
| Volume list, buffer cache | `sbin/hammer/ondisk.c` | `VolList`, `Hammer_FSId`, the hash lists of cached buffers, reference counts, modified and delete flags | `init_volume`, `load_volume`, `get_buffer`, `get_buffer_data`, `rel_buffer`, `flush_buffer`, `flush_all_volumes` |
| strip | `sbin/hammer/cmd_strip.c` | none of its own: it changes layer-2 entries, big-blocks and volume headers through the cache | `hammer_cmd_strip`, `hammer_test_offset`, `hammer_strip_bigblock` |
| File history | `sbin/hammer/cmd_history.c` | the attributes `ca` carried from path to path, the request `hist` carried from page to page | `hammer_cmd_history`, `hammer_do_history`, `parse_attr`, `parse_attr_path` |
| helpers | `misc.c`, `uuid.c` | the zone statistics of the two blockmap commands | counters, conversions |
| fstyp, mount helpers, libutil, portability headers | `usr.sbin/fstyp`, `sbin/mount_hammer*`, `lib/libutil`, `sys/sys/dfly.h`, `lib/libdmsg`, `lib/libc` | none | parsing and one system call |

How they interact.  Every command opens its volumes through `ondisk.c`
(`newfs_hammer` with `init_volume`, the others with `load_volume`) and reads
and writes the filesystem through its buffer cache.  `newfs_hammer` formats
the volumes through the formatters of `ondisk.c`, which allocate from the
freemap through `blockmap.c`, and ends with `flush_all_volumes`; `hammer
blockmap` and `hammer checkmap` read what they wrote; `hammer strip`
overwrites it.  `hammer history` asks the kernel of a mounted filesystem for
the versions of a file, a page at a time, while the filesystem is in use.
`hammer mirror-copy` forks
`mirror-read` and `mirror-write`, joined by one bidirectional pipe; both talk
to the kernel through the mirror ioctls, and the only durable state of a
session is the target PFS's `sync_end_tid` (and, one-way, the cycle file).

What makes it hard.  In `newfs_hammer`: sizes that are tested one by one
as the options are read, set aside by `-f`, and only later added up into
the offsets of a volume.  In the allocator: four zones drawing big-blocks from one
freemap with forward-only cursors, counters kept at three levels that must
agree, and arithmetic at buffer and big-block boundaries.  In the cache:
pointers the callers keep across calls that evict, a read-ahead that runs
inside a lookup, and a flush that can fail between any two writes.  In the
checker: three sweeps whose sums must meet what the allocator left, on
images that may be damaged.  In mirroring: two
processes that both read and write one pipe, a timer that interrupts the
source between two ioctls, processes that die between any two records and are
restarted, a histogram whose chunks must cover a TID range exactly once, and a
snapshot TID that must move only over what was really written.  In the
record layer: reads that return any number of bytes, a header read ahead
and kept for the next call, a buffer that fills in the middle of a pass, a
writer that is throttled and may end within a record.  In `hammer history`:
a listing put together from several answers of a kernel whose state changes
between them.

What must hold.  Formatting: every big-block the freemap offers is on the
device, behind the header areas.  Allocator: records never overlap, never cross a buffer, the
free counters of headers, layer1 and layer2 agree, a lookup finds every record
handed out, and formatting a later volume never touches what the root volume
owns.  Cache: a buffer a caller holds is never freed, what is read is what
was last written, and a header reaches the disk after the buffers it
describes.  Checker: it reports the damaged big-blocks that are in use and
nothing else.  Mirroring: the target's `sync_end_tid` is never ahead of what the
target holds, never goes back, the two state machines never wait for each
other, a copy ends, a stream catches up after any failure, and nothing is
written to a target that is not a slave of the source.  Record layer: the
records come out as they were put in, or the reader ends.  History: a
listing holds every version that was there from beginning to end, and the
command ends.

## 2. Modules

| Module | Models | C source |
|---|---|---|
| `Blockmap` | the allocator and `newfs_hammer` from its command line to the formatted volumes | blockmap.c, ondisk.c 91-103, 231-288, 501-847, 1004-1036, newfs_hammer.c |
| `Checkmap` | `hammer blockmap`, `hammer checkmap` and `hammer strip` over the images of `Blockmap` | cmd_blockmap.c, cmd_strip.c, misc.c 219-366 |
| `BufferCache` | the volume list and the buffer cache, with `newfs_hammer`, `hammer strip` and a reading command as callers | ondisk.c 44-500 and 900-1001, cmd_strip.c, newfs_hammer.c 186-243 |
| `Histogram` | the arithmetic of `generate_histogram` as operators | cmd_mirror.c 502-698 |
| `Prescan` | `generate_histogram` run record by record | cmd_mirror.c 502-698 |
| `MirrorSession` | source, target, supervisor, pipe, kernel, record by record | cmd_mirror.c 85-483, 700-734, 761-950, 1083-1196, 1254-1628 |
| `MirrorAbstract` | what a mirror session promises of the two filesystems | the description of mirroring, no code |
| `MirrorCodec` | the record layer word by word: `mirror-read` as writer, `mirror-dump` as reader | cmd_mirror.c 128-154, 304-320, 952-1081, 1290-1497, 1633-1670 |
| `RecordPipe` | what the record layer promises its callers | no code |
| `History` | `hammer history` beside a filesystem that commits and prunes | cmd_history.c 39-208, 254-271 |
| `MCBlockmap`, `MCCheckmap`, `MCBufferCache`, `MCPrescan`, `MCMirrorSession`, `MCMirrorCodec`, `MCHistory` | constants for TLC | |

`Checkmap` extends `Blockmap`: the checker runs over every image the
formatting and the allocator can produce.  `Prescan` extends `Histogram`;
`MirrorSession` extends `Histogram` and calls `GenerateHistogram` where the
code calls `generate_histogram`, so the session is cut into the chunks the
real reduction produces.  `MirrorSession` instantiates `MirrorAbstract`,
`MirrorCodec` instantiates `RecordPipe` (section 6).  `MirrorSession` moves
whole records through its pipe; that a record arrives whole and unaltered or
not at all is what `MirrorCodec` shows of the code underneath.

### Blockmap

State: `av` (the options `getopt` has not consumed yet and the special
files), `opts` (the option globals of `newfs_hammer.c`), `volume` (of each
volume: size, type and the four offsets `vol_bot_beg`, `vol_mem_beg`,
`vol_buf_beg`, `vol_buf_end`), one variable per structure of the volume
header and freemap (`layer1`, `layer2`, `blockmap`, `undo_array`, `stat`,
`vol_free_off`, `vol_free_end`), `pc` for the call `newfs_hammer` makes
next, `status` for the `usage()`, `errx()` or `assert()` that ended the
process, and the history variable `allocs`.  Offsets keep their three fields (zone, volume, short offset) in
one integer as the code's 64-bit offsets do, with small radices.  Each
function is an operator from image to image (`AllocBlockmap`,
`InitializeFreemap`, ...), and each stage of `main()` is an action:

| Action | Code |
|---|---|
| `ParseArguments` | the `getopt` loop (`Getopt` folded over the options in the order given, with `GetSize` and `TestSize`), then the tests on the number of volumes, the label and the version (`CheckArguments`) |
| `InitVolumes` | `init_volume` of every special file with `check_volume` (`CheckVolume`: file type, sector size, device size) and the TRIM of `-E` (`TrimVolume`), stopping at the first that fails; then the defaults of the three header areas (`SizeDefaults`, `InitAreaSize`) |
| `FormatHeader` | the head of `format_volume`: the four offsets (`HeaderAreas`), the tests for a volume that is too small or too large, `vol_free_off` and `vol_free_end` |
| `CheckFreemapCounts`, `FormatFreemap`, `InitializeRootFreemap`, `FormatBlockmaps`, `FormatUndomap`, `FormatRootDirectory` | the rest of `format_volume` for the root volume |
| `FormatVolume` | `format_volume` of another volume |
| `Alloc` | a later caller of `alloc_blockmap` with any zone and size |

Every `usage`, `assert` and `errx` of the code is a value of `status`.  An
option is `[opt, num, suffix]`; `GetSize` multiplies by `Kilo` per suffix
step and rejects what the code rejects (no suffix, a size that is not a
multiple of the buffer size); a special file is `[kind, size, sector_size,
discards]`, a device's size being its sectors times `SectorBytes`.  Sizes
are signed as in the code (`int64_t`): a negative `-b`, `-m` or `-j` passes
its test under `-f`, and a negative `-u` becomes a `hammer_off_t` modulo
`OffRange`.

### Checkmap

`Checkmap` adds to the image of `Blockmap` the state of the two commands:
`dumped` (what `dump_blockmap` listed and counted), `collect` (the
`CollectTree` of tracks, keyed by layer2 table and index), `scan_offset`
(the cursor of `check_undo`), `num_bad_node`, and what `dump_collect`
reported.  The filesystem is first formatted and allocated from (`Format`,
the next-state relation of `Blockmap`); then the environment links
allocations into the B-Tree (`LinkRoot`, `LinkNode`, `LinkRecord`) or leaves
them lost, and may flip one bit of a layer2 zone field or damage one node
(`CorruptLayer2`, `CorruptNode`); then `hammer checkmap` runs, and `hammer
blockmap` after it when it came to its end:

| Action | Code |
|---|---|
| `HammerCmdBlockmap` | `hammer_cmd_blockmap`, `dump_blockmap` with its statistics |
| `CheckFreemap` | `check_freemap`, `collect_freemap_layer1/2` |
| `CheckBtree` | `check_btree_node` from the root, `collect_btree_*`; the walk (`NodeRefs`) returns at a node that cannot be read and goes on through one that fails its CRC |
| `CheckUndoHead`, `CheckUndoDone` | one head of `check_undo`'s loop; its end |
| `CheckUndoNullHead` | the same turn where `get_buffer_data` returns NULL: the head is used without a test, and the process ends (`ck_pc = "null_head"`) |
| `DumpCollectTable` | `dump_collect_table`, `dump_collect` |
| `HammerCmdStrip` | `hammer_cmd_strip`: the walk over the freemap (`StripTargets`, `StripRows`), `hammer_strip_bigblock` per chosen big-block, the entries rewritten and the headers zeroed (`Stripped`) |

`HammerCmdStrip` runs in place of the two reading commands, on the same
images, damaged ones included.  It is one step: the command holds the only
reference to the volumes, and what a failing write leaves on disk is the
subject of `BufferCache`.  A big-block is zero-filled as a whole, so the
nodes stored in it leave `btree`; the headers lose the blockmap, the UNDO
offsets, the statistics and the root of the B-Tree.

A buffer cannot be read (`BufferReadable`) when `blockmap_lookup_save`
turns its offset down, which it does once the zone field of the big-block's
layer2 entry is no longer the zone of the offset: `get_buffer` then returns
NULL.  `check_btree_node` counts such a node as bad and returns;
`check_undo` has no test, and neither has `check_freemap`, whose offsets
are of zone 2 and are never looked up.

The linking and the damage are the environment, modelled from the
description of the filesystem; the CRC tests are a predicate of the damage.

### BufferCache

A process of `BufferCache` is one command: `tool` says how it opens volumes
(`init`: `init_volume` or `load_volume`; `rdonly`; `verify`), `hdr` and
`disk` are the files, `vol_list` is `VolList`, `cache` the resident
`buffer_info`s by zone-2 offset, `lists` the hash lists of each volume,
`lru` the cache's own list, `bufferp` the buffer pointers the callers keep,
`st` the state of the process (`open`, `run`, `flushed`, or the `errx`,
`err` or `assert` that ended it).  `latest` is a history variable: the
content the process last stored at each offset.  A buffer's 16 KiB are one
value of `Values`; a header is the fields `__verify_volume` and the
read-ahead look at.

The functions of the cache call each other (`get_buffer_data` calls
`rel_buffer` and `get_buffer`, which calls `hammer_cache_flush` and the
read-ahead, which calls `get_buffer` again), so each is an operator from a
record of the state to the next (`RelBuffer`, `GetBufferOnce`, `CacheFlush`,
`ReadAhead`, `GetBuffer`, `FlushAll`) and an action is one call of a
command:

| Action | Code |
|---|---|
| `InitVolume`, `LoadVolume` | `init_volume`, `load_volume` with `__alloc_volume`, `__verify_volume`, `__add_volume` |
| `Begin` | the command starts once its volumes are open |
| `FormatVolume` | `format_volume`: the header fields, the root volume first |
| `GetBufferData` | `get_buffer_data`: the held buffer is kept or released, `get_buffer` with eviction and read-ahead; `xlate` is the result of `__blockmap_xlate_to_zone2` |
| `Modify` | a caller changes the buffer it holds and sets `cache.modified` (`cmd_strip.c:100-104`) |
| `Release` | `rel_buffer` of a held buffer |
| `FlushAllVolumes(n)` | `flush_all_volumes` at the end of `newfs_hammer`; the first `n` writes succeed |
| `StripHeaders(n)` | the end of `hammer_cmd_strip`: headers zeroed and signed `STRIPPED`, then the flush |

`hammer_cache_add`, `_used`, `_del` and `_flush` are called by `ondisk.c`
and defined in a file that is not part of this repository; they are
modelled from their use: a list in order of use from which, while it is
longer than `CacheMax`, the least recently used buffer nobody refers to is
marked `delete` and released.

### Histogram and Prescan

`BucketOf` and `BucketTid` are the two divisions of `generate_histogram`,
modulo `Word` as the code's `uint64_t`; `Accumulate` is the body of the scan
loop for one record (delete TID without the data, create TID with it);
`ChunkStep` and `Reduce` are the in-place reduction.  `Prescan` has the
variables of the function; `ScanRecord` is one record of a `MIRROR_READ`
call, `ScanEnd` the empty call and the reduction.

### MirrorSession

One action per blocking step of each process, so that every interleaving of
pipe reads and writes is a behaviour:

| Action | Code |
|---|---|
| `SrcHeader` | `hammer_cmd_mirror_read` up to the first `write_mrecord(PFSD)` |
| `SrcHandshake` | two-way: `validate_mrec_header` on the target's PFSD, `++tid_beg` |
| `SrcRange` | `tid_end` from the source PFS, histogram startup, chunk selection, second PFSD, cycle file, "No work to do" |
| `SrcBulk` | one `MIRROR_READ` and the write of its records; the timer check |
| `SrcDone` | SYNC or IDLE, unless interrupted; one-way: `hammer_set_cycle` |
| `SrcAck` | two-way: the blocking read of UPDATE |
| `SrcTail` | more chunks / end of histogram / stream / TERM |
| `SrcWait` | `HAMMERIOC_WAI_PSEUDOFS` |
| `TgtHeader` | `hammer_cmd_mirror_write` up to the target's own PFSD: the initial packet, `create_pfs` where the path holds no PFS (`CreatePfs`: a slave is made, or the target ends) |
| `TgtValidate` | `validate_mrec_header` of the target (`Validate`): the shared uuid, "target must be in slave mode" |
| `TgtBulk` | `read_mrecords` and `MIRROR_WRITE`: the buffer is written only once the next header has been read |
| `TgtTerm` | `read_mrecord`: TERM, SYNC (`update_pfs_snapshot`), IDLE, UPDATE |
| `Restart`, `Finished` | `hammer_cmd_mirror_copy`: `waitpid` of both, restart when streaming |
| `CrashSource`, `CrashTarget` | `err()`/`exit(1)` on an ioctl or a bad record; a killed process |
| `Commit` | the source filesystem completes a flush cycle (kernel) |

`opt` is the command line (`two_way`, `streaming`, `bulk` for `-B`,
`timeout` for `-t`, `cycle` for `-c`, `remote` for a source of the form
`host:path`) and `tgt_pfs` what the target path is when the session starts
(a slave of the source, nothing, a master, or a slave of another master);
both are chosen in `Init` from the pairs of `Starts`.  A remote source is
run through ssh with the command line `hammer_cmd_mirror_copy` puts
together, which passes `-2`, `-t`, `-S` and `-y` on and not `-B`, `-c`, `-b`
or `-d`: the source reads its options through `SrcOpt` (`RemoteRead`).

A record is `[type, key, tid]`; the source filesystem is a set of
`<<key, tid>>` pairs, `MIRROR_READ` returns those of one key in a TID range.
The pipe is a pair of bounded sequences; a closed end is seen as end of file
(`Readable`'s third disjunct).  `FreshTids` is what a histogram entry holds
that nobody wrote.

### MirrorCodec and RecordPipe

The same pipe one level down.  `cmd.stream` is the sequence of records the
source is about to send (type, size in words, the `MIRROR_READ` buffer it
belongs to); `wire` the words in the pipe, each knowing the record and the
place in it that it came from and whether it was altered; `w` the locals of
the writer (what is left to write and `bwcount`); `rd` those of the reader (pickup header, buffer, what it is
reading).  A word is four bytes; a header is the four words signature, crc,
rec_size, type.

| Action | Code |
|---|---|
| `WriteMrecord` | `write_mrecord`: the header and body in one `write`, the padding in a second |
| `WriteBulk` | the `write` or `writebw` of one `MIRROR_READ` buffer; with `-b`, `writebw` writes up to the rest of the allowance (`Chunk`) |
| `Sleep` | `writebw`: the allowance is used up, the second is slept out |
| `WriterExit`, `WriterDies` | the end of `hammer_cmd_mirror_read`; a writer that ends of an error, within a write too |
| `MrecordHead`, `MrecordBody` | `read_mrecord`: the pickup header or a header from the pipe, its tests (signature, `rec_size`), then the body and the CRC |
| `BatchHead`, `BatchBody` | `read_mrecords`: the same in a loop into the buffer, until a record of another type, a record the buffer has no room for, or the end of the pipe (`Takes`) |
| `Garble` | the link alters one word |
| `Done` | both processes have ended |

The reader is `hammer_cmd_mirror_dump`: the header, the bulk loop with its
walk over each buffer (`Walk`), the termination record, and the first record
of the next pass.  The CRC is abstracted to "no word it covers was altered";
what `mirror-dump` prints, to the sequence of records printed.

`RecordPipe` has no words: records are written whole, come out in order, and
the end of the stream is reported when the writer is gone.

### History

State: `offset_str` and `av` (what follows `history` on the command line,
and the paths), `i`, `old_behavior` and `ca` (the locals of
`hammer_cmd_history`), `hist` (the `struct hammer_ioc_history` that goes to
the kernel and comes back), `out` (what was printed: one entry a path, with
the transaction ids listed and how the listing ended), `fs` (of every file
the transaction ids of its versions, of the inode and of each data offset)
and `last_tid`.  A string of the command line is `[prefix, attr]`: what
stands before its first `@` and what `strtoll` and `strtol` make of what
follows, a number or `ERANGE`.

| Action | Code |
|---|---|
| `Main` | `hammer_cmd_history` up to its loop: `parse_attr` of `history@offset,length`, `old_behavior` |
| `NoHistory` | a turn of the loop that prints no listing: `err()` in `parse_attr`, `open` fails, the first ioctl fails |
| `FirstPage` | `parse_attr_path`, `open`, the request (`FirstRequest`: the key only for an offset that is not negative), the first ioctl |
| `PrintPage` | one turn of `for (;;)`: the page is printed, then one of the three breaks (`LastPage`), or the next request (`NextRequest`) and the ioctl, which may fail |
| `Return` | the loop over the paths is through |
| `Commit`, `Prune` | another process writes a file (a new version of the inode and of one data offset); `hammer prune` destroys a version |

The kernel's side of `HAMMERIOC_GETHISTORY` is not in this repository.
`GetHistory` is the interface the loop is written against: the transaction
ids of the key within `[beg_tid, end_tid)` in ascending order, at most
`HAMMER_MAX_HISTORY_ELMS` of them; `NEXT_TID` with the first that did not
fit in `nxt_tid` when there were more; otherwise `NEXT_KEY` when the file
has data beyond the key, and `EOF` when it has not.  `dumpat` and
`timestr32` print and are left out.

## 3. Runs

| Run | Module, cfg | Result | States (distinct) |
|---|---|---|---|
| `blockmap` | `MCBlockmap`, `MCBlockmap.cfg` | holds | 188,326 |
| `checkmap` | `MCCheckmap`, `MCCheckmap.cfg` | holds | 469,084 |
| `checkmap_completeness` | `MCCheckmap_CheckerCompleteness.cfg` | **violated** | |
| `checkmap_zone_stats` | `MCCheckmap_ZoneStatsStayInTheirArray.cfg` | **violated** | |
| `buffer_cache` | `MCBufferCache`, `MCBufferCache.cfg` | holds | 381,571 |
| `prescan` | `MCPrescan`, `MCPrescan.cfg` | holds | 544,580 |
| `mirror` | `MCMirrorSession`, `MCMirror.cfg` | holds | 1,778,039 |
| `mirror_timeout_wait` | `MCMirrorSession_NoMutualWait.cfg` | **violated** | |
| `mirror_stale_entry` | `MCMirrorSession_RangeEndsAtFlushedTid.cfg` | **violated** | |
| `mirror_stream_stall` | `MCMirrorSession_StreamCatchesUp.cfg` | **violated** | |
| `mirror_codec` | `MCMirrorCodec`, `MCMirrorCodec.cfg` | holds | 103,543 |
| `history` | `MCHistory`, `MCHistory.cfg` | holds | 125,762 |

### What the passing runs show

`blockmap`: `newfs_hammer` from its command line on, for 62 command lines
(section 4), followed by allocations of 1..4 bytes (`MaxAllocs` = 18 in
all, the three of the root directory included) in any of the four index
zones.  It keeps `FreeCountsAgree` (header, layer1 and layer2 counts),
`BytesFreeConserved` (a big-block's `bytes_free` plus its records is its
size), `AllocationsDisjoint`, `AllocationsFitBuffers`, `LookupRoundTrip`,
`CountFreemapPredicts` (the dry run of `count_freemap` equals what
formatting leaves free), `FreemapAssertsHold` (the assertions of the
allocator about the freemap itself never fail, and the `errx` "layer2 ran
out of space" is never reached: on a filesystem that is full the assertion
on `layer1->blocks_free`, `blockmap.c:157`, ends the process first),
`OwnershipIsStable` (no step changes the zone of an owned big-block) and
`BigBlocksOnDevice`: whatever sizes the options ask for and `-f` lets
through, the header areas come in their order after the header, and every
big-block the freemap offers lies within the device.  The last one is
stated for boot and memory areas of a size that is not negative; see the
observations for the others.

`checkmap`: on two volume sets with up to six allocations, each linked into
the B-Tree or lost, and at most one flipped zone bit (bit 2 or bit 3) or
damaged node: `ReportsAreTheDamage` (when checkmap comes to its end it has
printed BZ for every big-block its sweeps reach whose zone was flipped, BM
for every one that holds an allocation the walk of the B-Tree did not come
to, and nothing else; the walk stops at a node it cannot read and nowhere
else, so that what hangs below such a node counts as not referred to; the
number of bad nodes is the number of unreadable and CRC-failed nodes the
walk came to; and the command ends on a NULL head only where an UNDO
big-block was damaged),
`SweepsReachEveryUsedBigBlock` (on an intact filesystem `checkmap -v` and
`blockmap -v` print the same statistics for the zones in use),
`BlockmapListsEveryBigBlock`, `StripDestroysTheIndex` (after `hammer
strip` no big-block belongs to the B-Tree or the meta zone and every
allocation of those zones lies in a big-block that was overwritten, with
two exceptions a flipped bit makes: the big-block of the flipped entry, and
the big-blocks behind an entry that was flipped into an UNAVAIL one, which
the command never comes to; see the observations), and `UndoScanEnds` (the
loop of `check_undo` is left: the cursor reaches `alloc_offset`, or the
process has ended at a head it could not read).

`buffer_cache`: `newfs_hammer` over two blank files, `hammer strip` over two
volumes of different filesystems, and a reading command over four pairs of
files (well formed, with a duplicate volume number, of two filesystems,
one unsigned); two callers get, change and release buffers of two volumes
in every order through a cache with a ceiling of two buffers and a
read-ahead window of one buffer on each side; a flush fails at any of its
writes.  `CacheTypeOK` (hash lists, the cache's list and the resident
buffers name the same buffers, each once), `VolumesAreOneFilesystem`,
`HoldersAreCounted` (a reference count is the number of pointers held, and
no held buffer is freed), `ReadsSeeLastWrite` (across eviction and
re-reading), `AssertionsHold` (the assertions of the read-ahead and of
`rel_buffer`), `FlushedIsDurable`, and `HeaderWrittenLast` (no step puts a
header on disk before the buffers of its volume).

`prescan`: over every range of TIDs 0..7 and every sequence of up to three
of 21 records, each chunk's estimate is the bytes of exactly the records its
transfer will cover, and the function returns with chunks that tile the
range: the bucket assert holds for `tid == tid_end` too.

`mirror`: eight ways to start a session.  To a slave of the source:
`mirror-copy -c` (two-way, with the histogram), the same with the source on
another host, `mirror-read -B -t` piped into `mirror-write` (one-way, the
timer, no cycle file) and `mirror-copy-stream -B -c`; and `mirror-copy` to a
path without a PFS, `mirror-copy` and the one-way pair to a slave of another
master, and a stream to a master.  The source filesystem commits up to four
transactions meanwhile, one process is killed anywhere, the pair is started
again twice.  `SnapshotComplete` (every record of the source with a TID up
to the target's `sync_end_tid` is on the target, and that TID is one the
source has flushed), `InStepWithoutFailure` (no process dies of a protocol
error unless one was killed or the target is not a slave of the source),
`OnlyItsSlaveIsWritten` (neither a record nor a snapshot TID reaches a
target that is a master or belongs to another master, whichever of the two
processes finds out, and in one-way mode too, where the source never sees
the target's PFS), `ImplementsMirrorAbstract` (section 6), `CopyTerminates`
(a command that is not streaming ends) and `StreamCatchesUp` (once the
source stops committing, the target's snapshot reaches the last transaction
or the one before it).  Deadlock checking is off in this run because an
idle stream waits; that the other commands do not stop halfway is
`CopyTerminates`.

`mirror_codec`: `mirror-read` piped into `mirror-dump` over seven command
lines: a pass of two buffers, an idle pass followed by one with a record
whose data CRC is bad, a pass the timer interrupted, a record whose
`data_len` does not fit its `rec_size`, the first with `-b`, two histogram
passes with `-b`, and `mirror-dump header`.  The reader's buffer is ten words, so that a record has to wait in
pickup and the buffer fills to its last word; the writer may end anywhere,
within a write too; the link alters one word, a `rec_size` or a type
included.  `ImplementsRecordPipe` (section 6), `DumpPrintsEveryRecord`
(`mirror-dump` prints every B-Tree record of a stream that arrived
unaltered, once and in order), `DumpTerminates` (both processes end: no
reader waits for words that cannot come), and no deadlock.

`history`: six command lines (three plain paths, one of which does not
exist; `history@1`; `a@1,8` before a plain path; a negative offset and a negative length; a
file whose name is `b@1`, a string that begins with `@`, and a length out of
range; an offset out of range on the command), pages of two entries, a
filesystem that commits up to transaction id 7 and loses one version to
`hammer prune` at any moment, and one ioctl that fails.
`HistoryListsEveryVersion`: a listing that was closed without an error
holds its transaction ids in ascending order, none twice, and among them
every version of the key that was there when the file was opened and still
is.  `HistoryEnds`: the command ends, whatever the kernel answers; with
pages of two and a key of three versions followed by another key, the loop
meets `NEXT_TID` and then `NEXT_KEY` without `EOF`.

Between them the passing runs take every action of every module.  Every
property of a passing run is violated when the definition `PROJECT.json`
names for it is replaced by its mutated form (a dropped check, an
off-by-one, a swapped order), under the run's own configuration.

### Findings

1. **checkmap is blind to damage in unused big-blocks**
   (`cmd_blockmap.c:576`).  A single flipped zone bit is to be reported as
   one BZ mismatch; `dump_collect` compares only the big-blocks some sweep
   has collected a reference to, so a free big-block whose zone turns from
   0 into 8 is passed over.
2. **Two-way mirroring with `-t` hangs** (`cmd_mirror.c:386`).  An
   interrupted source sends neither SYNC nor IDLE and then waits for the
   target's UPDATE; the target waits for the next record.
3. **The histogram is read where it was never written**
   (`cmd_mirror.c:229`).  `generate_histogram` returns before writing the
   array when the target is up to date; the source still takes the end of
   its range from `histogram_ary[1].tid`.  With zero-filled memory the pass
   is "No work to do"; with any larger value the target records a
   `sync_end_tid` the source never reached.  The same entry-past-the-end is
   read by a stream after its last chunk.
4. **A one-TID chunk stalls the stream** (`cmd_mirror.c:268`).  Ranges are
   inclusive, yet `tid_beg >= tid_end` is "No work to do".  A histogram chunk
   one TID wide is dropped, the histogram is rebuilt identically, and the
   stream never passes it although the source is ahead.
5. **The zone statistics are written outside their array**
   (`misc.c:275`).  `hammer_init_zone_stat` allocates 16 entries;
   `_hammer_add_zone_stat` adds to `stats + zone`, and `zone` is the 8-bit
   field of a layer2 entry as the image holds it.  `hammer blockmap -v` on
   an image with a zone of 16 or more (one flipped bit) writes behind the
   array, where impossible field values are to be merely counted.
   `hammer checkmap -v` does not: `dump_collect` adds up the copies
   `blockmap_lookup_save` has saved, and a copy is zeroed where the zone is
   not the one asked for (`cmd_blockmap.c:569`, `585`).

### Observations

What the models reproduce and no run is spent on:

- An allocation that would cross a buffer boundary does not skip and
  allocate (`blockmap.c:147`, `190`): the cursor is moved to the next
  buffer, `layer2->append_off` stays where the last record ended, and the
  assert that compares the two ends the process.  `status` then is
  `assert_append_off`; the comment above the code promises the skip.
- `-b` is not a limit across passes (`cmd_mirror.c:146`): `bwcount` is set
  to zero at the beginning of every pass, and a histogram pass that is not
  the last is followed by the next at once, so two passes smaller than the
  limit go out within one second.
- `hammer history a@1 b` lists `b` at offset 1 (`cmd_history.c:69`, `194`):
  `parse_attr_path` returns before `parse_attr` for a path without `@` and
  for one that names a file, and `ca.offset` and `ca.length` are what the
  path before left in them.

- `append_off` wraps to 0 (`blockmap.c:195`): a record that ends at the end
  of its big-block leaves `append_off = 0` with `bytes_free = 0`, where
  every other writer stores `HAMMER_BIGBLOCK_SIZE` for a full big-block.
- One-way mirroring resumed from a cycle file scans only the keys past the
  saved cursor but announces the source's new `sync_end_tid`
  (`cmd_mirror.c:244`, `417`); the program warns of it.
- A one-way session with a histogram starts again at `sync_beg_tid`, and
  `update_pfs_snapshot` writes whatever differs (`cmd_mirror.c:1614`): the
  SYNC of the first chunk takes the target's snapshot back when an earlier
  session had brought it further.  It needs four transactions on the
  source; the refinement is checked for two-way sessions and one-way
  sessions with `-B`.
- The order of the options of `newfs_hammer` matters
  (`newfs_hammer.c:98-113`, `324-408`): each size is tested when its option
  is read, against `ForceOpt` as it is then.  `-b 0k -f` is turned down,
  `-f -b 0k` is not.
- `-f` lets negative sizes through: the tests compare signed values and
  return early under `ForceOpt`.  `newfs_hammer -f -b` with a negative size
  gives `vol_mem_beg < vol_bot_beg` (`newfs_hammer.c:546-550`): the memory
  log lies over the header.  A negative `-u` under `-f` is a very large
  `hammer_off_t` in `format_undomap` and is cut to the maximum, or wraps to
  0 in `HAMMER_BIGBLOCK_DOALIGN` and becomes one big-block.
- `init_boot_area_size` and `init_memory_log_size` are called only when no
  size was given (`newfs_hammer.c:225-228`), with the value -1: the branch
  that scales the nominal size to the volume (`ondisk.c:1007`, `value ==
  0`) never runs, and the default is always the minimum.
- `getsize` is never asked for a power of two (no caller sets bit 1 of
  `powerof2`), so "not a power of 2" cannot be printed; a number without a
  suffix is "Unknown suffix".  `sysctlbyname` is a stub that fails, so
  without `-V` the version is always the default.
- `mirror-dump` throws away one record after each termination record
  (`cmd_mirror.c:1075-1079`); it is the first PFS header of the next pass
  or TERM.  When it was TERM the command starts over at the end of the
  pipe, reads nothing three times and prints "Did not get termination sync
  record" (`cmd_mirror.c:1063-1069`) before it ends: the message appears
  at the end of every complete stream, as it does after a pass the timer
  interrupted.
- The CRC of a record covers `rec_size` bytes, not the padding
  (`cmd_mirror.c:1366`, `1461`, `1485`): an altered padding word goes
  unnoticed, and harms nothing.  `read()`'s result is kept in a `size_t`
  (`cmd_mirror.c:1285-1299`), so a failing read is a very long one; the
  model has the end of the pipe and no failing read.
- `hammer_cmd_mirror_copy` uses both ends of one `pipe()` in both
  directions (`cmd_mirror.c:1103`), as DragonFly allows; the models take
  the pipe to be two-way.
- `alloc_blockmap` asserts that a layer1 range the cursor enters has a free
  big-block (`blockmap.c:157`), before it looks whether the big-block is
  its own.  With the code's geometry a range is 2^18 big-blocks and
  `newfs_hammer` cannot fill one; in the checked geometry (six to a range)
  a volume of nine big-blocks with an UNDO FIFO of two fills the first
  range while formatting, and `format_root_directory` ends on the
  assertion.
- `get_buffer` with `isnew > 0` at an offset written before
  (`ondisk.c:393`): the assertion fails while the old buffer is cached and
  dirty, and the buffer is zero-filled without a word once it was evicted.
- `find_buffer` asserts that the volume of an offset is open
  (`ondisk.c:75`): an offset naming a volume that was not given aborts the
  command; `hammer strip` tests for it, `hammer blockmap` does not.
- `__write` reports success without writing on a read-only volume and
  `flush_buffer` then clears `modified` (`ondisk.c:980`, `941`); no command
  of this repository changes a buffer of a volume it opened read-only.
- `hammer strip` leaves a layer2 table at the first UNAVAIL entry
  (`cmd_strip.c:105`), and the entries it writes are UNAVAIL.  A strip that
  was killed after the cache had written some buffers of a table, run
  again, stops in that table where the first run began and never reaches
  the B-Tree and meta big-blocks further on.  A table is 512 buffers in the
  code and one in the checked geometry, so no run shows it.
- `hammer_strip_bigblock` never releases the last buffer it asked for
  (`cmd_strip.c:171-174`): one buffer per stripped big-block stays
  referenced.
- `hammer checkmap` ends on a NULL pointer when the zone field of an UNDO
  big-block was flipped (`cmd_blockmap.c:347-348`): `get_buffer_data`
  returns NULL for the first head of that big-block and `check_undo` reads
  `head->hdr_type`.  Nothing is reported, the BZ of that big-block
  included.  (`CheckUndoNullHead`; `ReportsAreTheDamage` shows that it
  happens on no other image.)
- A flipped zone bit under the root of the B-Tree hides everything else
  (`cmd_blockmap.c:299-302`): the root is unreadable, nothing below it is
  collected, and checkmap prints the BZ of that big-block and one bad
  node; lost space in other big-blocks is not reported.  When the
  unreadable node is not the root, a big-block that holds nodes or records
  from both sides of it is reported BM although nothing in it is lost.
- One flipped bit saves the index from `hammer strip`
  (`cmd_strip.c:105`): bit 2 turns the entry of a small-data big-block
  (zone 11) into an UNAVAIL one (15), the loop leaves the table there, and
  the big-blocks of the B-Tree and the meta zone behind it keep their
  content while the headers are signed STRIPPED.  It takes six
  allocations: those of the root directory, a record of small data, and
  two meta records of which the second claims the big-block after the
  data.  `StripDestroysTheIndex` names the exception (`BehindDamage`).
- `check_btree_node` walks the elements of a node whose CRC failed
  (`cmd_blockmap.c:313`), where the description of the checker has
  corrupted subtrees skipped; `dump_blockmap` prints `num_bad_layer1` under
  "bad layer2" (`cmd_blockmap.c:217`); `hammer_add_zone_stat` has no
  caller.

## 4. Bounds

| Constant | Value | Why it is enough |
|---|---|---|
| `BigBlockSize`, `BufSize`, `DataAlign` | 8, 4, 2 | a big-block of two buffers: records can end before, at and across a buffer and a big-block boundary |
| `Radix2`, `L1PerVol`, `MaxVolumes` | 6 (8 in the `checkmap` runs), 2, 2 | a volume spans two layer1 entries, so the end of a layer2 table and the change of volume number both occur; with eight entries to a table the freemap, the UNDO FIFO, the B-Tree, the meta zone, a data zone and a second meta big-block lie in one table, so that a data big-block stands before an index big-block |
| `NodeBytes`, `InodeBytes`, `PfsBytes` | 2 (4 in the `checkmap` runs), 1, 2 | a node of half a big-block puts the third node into a second B-Tree big-block: a tree whose root can be read and whose subtree cannot, and the other way round |
| `Kilo`, `SectorBytes` | 2, 2 | a suffix multiplies, and `k`, `m`, `g`, `t` differ; a device's size is a product of two numbers |
| `HeaderBytes`, `VolJunkSize`, `MinVolJunk`, `MaxVolJunk` | 3, 4, 4, 8 | the header is not a multiple of the buffer size, so a `-j` below it is raised and then rounded; the junk area has a minimum and a maximum that differ |
| `BootMin/Nom/Max`, `MemMin/Nom/Max` | 4, 8, 16; 4, 8, 8 | minimum, nominal and maximum as in the code, where the memory log's nominal size is its maximum; by default the three header areas take 12 bytes |
| `OffRange` | 65536 | the width of `hammer_off_t`: above every offset of the largest volume, a multiple of the big-block size, so that a negative `-u` wraps as in 64 bits |
| `UndoDivisor`, `MinUndoBigBlocks`, `MaxUndoBigBlocks` | 1000, 1, 2 | the divisor of the code; no checked volume is large enough for its share to exceed the minimum, so a FIFO of two big-blocks comes from `-u` (6k, 2k, and the negative sizes) |
| `Starts` (`blockmap`) | 62 command lines | 32 that format: eight volume sets (regular files of 23 to 107 bytes and a device of 26 sectors, alone and in pairs: too small, exactly large enough, with an unavailable tail, the largest a volume may be, an empty second volume), each with and without `-f` and `-u 6k`; 11 that `main` turns down (no volume, three volumes, no label, `-h`, `-?`, `-C 0`, `-V 8`, a size without suffix, a size that is not a multiple of the buffer size, `-b 0k` before `-f`, a boot area above its maximum); 10 whose special file is turned down (neither file nor device, a device without a sector size or with one that does not divide a buffer, `-E` on a regular file and on a device without TRIM, volumes too small for the header areas as first and as second volume, a volume too large for its volume number); 9 with sizes given by hand under `-f` (`-b 0k`, `-j 0k`, `-j 4k -m 4k`, `-u 2k`, negative `-u` and `-b`, with `-d`, `-C 1` and `-V 6`) and with a TRIM that is carried out |
| `Starts` (`checkmap`) | 4 | `-f -L` with and without `-u 6k` on a file of 52 bytes (five big-blocks, three unavailable entries behind them in the table) and on a pair of 68 and 44 (seven big-blocks and four) |
| `MaxAllocs` | 18 (`blockmap`), 6 (`checkmap`) | fills every big-block of the largest set and runs out of space; in `checkmap` a record is of 3 or 4 bytes (`AllocSizes`), rounded up or filling a buffer, and the three allocations after those of the root directory give a tree of three nodes in two big-blocks, records in three zones, linked and lost, and a meta big-block behind a data big-block |
| `CorruptBits`, `IntBits` | {2, 3} ({4} in `checkmap_zone_stats`), 5 | bit 3 turns zone 0 into 8 and back, every other zone into one its big-block cannot have; bit 2 turns small data (11) into UNAVAIL (15) and back, the only flip that puts an UNAVAIL entry into the middle of a table; bit 4 makes a zone of 16 or more of any; `int32_t` sums in 5 bits keep their sign and wrap |
| `Files`, `Holders` | 2, 2 (symmetric) | a root and a second volume in both orders; two pointers to one buffer and to two |
| `NumBufs`, `BufLists` | 2, 2 | both buffers of a volume hash to different lists; four buffers over two volumes for a cache of two |
| `CacheMax` | 2 | eviction starts with the third buffer, with zero, one or two of them held |
| `UseReadBehind`, `UseReadAhead` | -1, 2 | the window holds the buffer before and the one after the base, and is cut at both ends of the volume |
| `Starts` (`buffer_cache`) | 6 | `newfs_hammer` on blank files; `hammer strip` on volumes of two filesystems; a verifying reader on four pairs of headers |
| `Values` | {0, 1} | zero fill, and a content that differs from it |
| `HIST_COUNT`, `SplitupOpt` (prescan) | 4, 3 | ranges shorter and longer than the number of buckets; chunks of one and several buckets |
| `MaxScanned` | 3 | a delete and a create contribution in the same and in different buckets, a chunk closed and reopened |
| `Keys` | 1..2 | a transfer can stop between two keys |
| `MaxTid` | 4 | commits before, during and after a pass; a histogram with two chunks |
| `Starts` (`mirror`) | 8 pairs | each of the four command lines to a slave of the source; a target that is absent, foreign (two-way and one-way) or a master |
| `HIST_COUNT`, `SplitupOpt` (mirror) | 2, 2 | two buckets give multi-chunk histograms |
| `PipeCap`, `BufCap` | 2, 1 | writers block on a full pipe; the target's buffer fills, so a header stays in pickup |
| `MaxCrashes`, `MaxRestarts` | 1, 2 | a failure in either process at any point, and its recovery; a second restart after a pass that found no work |
| `Word` | 65536 | above every product the bounded TIDs reach: the arithmetic is exact, as it is in 64 bits for ranges below 2^44 |
| `FreshTids` | {0}; {0, 9} in `mirror_stale_entry` | zero pages from a large `malloc`; a value above every TID |
| `HeadAlign`, `MaxRecSize`, `BufSize` (codec) | 2, 6, 10 words | records of 4, 5 and 6 words: with and without padding; a buffer that holds two records and not three, and is filled to its last word |
| `Commands` | 7 | streams of 5 to 9 records covering every record type, one and two passes, one and two buffers in a pass |
| `MaxGarbled`, `GarbledSizes`, `GarbledTypes` | 1, {2, 3, 4, 5, 6, 8}, 5 types | one altered word anywhere; a `rec_size` below the header, not aligned, shorter, longer, and above the maximum; a type that turns a bulk record into a control record and back |
| bandwidth | 8 words | less than a buffer of two records, more than one record: `writebw` cuts a buffer in two |
| `HAMMER_MAX_HISTORY_ELMS` | 2 | a key of three versions takes two pages, one of five takes three; a page that is exactly full occurs |
| `MaxTid` (history) | 7 | the files begin with versions up to 5: two commits during a listing, into the page being read and behind it |
| `MaxPrunes`, `MaxFaults` | 1, 1 | one version destroyed anywhere, the one `nxt_tid` names included; one ioctl failing, the first of a file or a later one |
| `Files`, `Starts` (history) | 3, 6 | a file with versions under the inode and two data offsets, one with a single version, one whose name holds an `@`; the command lines of section 3 |

## 5. Fairness

`MirrorSession`: `FairSpec == Spec /\ WF_vars(Source) /\ WF_vars(Target)`: a
process that can take its next step takes it; both are ordinary processes
the scheduler runs.  Nothing is assumed of `Commit` (the filesystem may stay
idle) or of the crashes.  `StreamSpec` adds `WF_vars(Streaming = 1 /\
Restart)`: in streaming mode `hammer_cmd_mirror_copy` loops, sleeping and
forking again (lines 1259-1272); nothing starts the other commands again
unless the operator does.  The run `mirror` checks under `StreamSpec`.

`MirrorCodec`: `FairSpec == Spec /\ WF_vars(Writer) /\ WF_vars(Reader)`, for
the same reason; `Writer` includes the end of a sleep.  Nothing is assumed
of `WriterDies` or `Garble`.

`Checkmap`: weak fairness of `CheckUndoHead`, `CheckUndoNullHead`,
`CheckUndoDone` and `DumpCollectTable` only: checkmap is one sequential process, so once it is
in `check_undo` it goes on; nothing is assumed of the environment (linking,
damage) or of whether a command is run at all.

`History`: `FairSpec == Spec /\ WF_vars(Command)`: `hammer history` is one
sequential process that is not held up for ever.  Nothing is assumed of
`Commit` and `Prune`, and a failing ioctl is never required.

`Blockmap`, `BufferCache` and `Prescan` have safety and action properties
only, and no fairness.

Deadlock checking is on for `mirror_codec`; it is off
where stopping is legitimate: an idle stream waits in `WAI_PSEUDOFS`, and
`generate_histogram`, `newfs_hammer`, `hammer checkmap`, `hammer strip`,
`hammer history` and a command that failed return.

## 6. Refinement

`MirrorAbstract` is what mirroring promises, with no processes, pipe or
records in flight: a master that flushes transactions, records that arrive
on the slave in any order, and a snapshot of the slave that moves forward
only, and only to a transaction all of whose records, and all earlier ones,
have arrived.  `MirrorSession` instantiates it (`Promise`), mapping `master`
to the source's records, `master_tid` to its last flushed transaction,
`slave` to what `MIRROR_WRITE` has taken and `slave_tid` to the target's
`sync_end_tid`.  `ImplementsMirrorAbstract == Promise!Spec` is a property
of the run `mirror`: every step of a process, a kill or a restart is a
stuttering step, a `Flush`, a `Transfer` or a `Sync` of the abstract
specification, for every command line and every kind of target.

`RecordPipe` is what the record layer promises: the records written whole
come out in order, each once, and the end is reported after the last; a
damaged stream may lose records and end early, and delivers nothing that
was not written.  `MirrorCodec` instantiates it (`Pipe`), mapping `sent` to
the records whose last word the writer has written, `delivered` to what
`read_mrecord` and `read_mrecords` have handed over, `damaged` to "a word
was altered or the writer ended within a record", `closed` to the writer's
exit and `eof` to the reader having been told.  `ImplementsRecordPipe ==
Pipe!Spec` is a property of the run `mirror_codec`.  This is the
assumption `MirrorSession` makes of its pipe: a record is read whole, and
the end of the pipe is seen after the records before it.

## 7. Not modelled

- Volume header fields that bear neither on the freemap nor on
  `__verify_volume` (label, uuids, timestamps); signed overflow in
  `getsize`; a `sysctlbyname` that answers.
- The begin-TID argument of `mirror-read`; the one-way session that resumes
  from a cycle file with a histogram (section 3, Observations); the yes/no
  question of `create_pfs`, whose two answers are the two outcomes of
  `CreatePfs`.
- The data CRC of a B-Tree record, which only prints a warning; the CRC
  arithmetic itself.
- The failure of `open`, `fstat` and `pread`, which ends the command, and
  of a `pwrite` during an eviction.
- The yes/no question of `hammer strip` (`hammer_ask_yn`), and a strip
  that is killed and run again (section 3, Observations).
- Damage to the bytes of a B-Tree node or of an UNDO head: `CorruptNode`
  fails the CRC and leaves the elements as they are, and the heads of the
  FIFO are the ones `format_undomap` wrote.  By the code a head of an
  illegal size that starts on an UNDO boundary leaves the cursor of
  `check_undo` where it is (`cmd_blockmap.c:363`).
- `hammer blockmap` after a `hammer checkmap` that ended on the NULL head.
- Of `hammer history`: `dumpat` (the bytes of a version, printed with
  `-v`) and `timestr32`; the `UNSYNCED` flag, which chooses between two
  words of the header line.
- The sleeping of `writebw` as time: `Sleep` takes the allowance off `bwcount`, and how
  long a second is plays no part in any property.
- The mount helpers (`mount_hammer`, `mount_hammer2`) and `getmntopts`:
  the description of the system puts them outside it, and in this port the
  `mount(2)` call is compiled out (`#if 0`), so they parse options, build a
  list of volumes and change nothing.
- `fstyp`: it recognises HAMMER2 volume headers only (`fstyp/hammer2.c`), a
  single read-only pass over bytes of a device.
- The uuid helpers, the hammer2 declarations, the portability headers:
  conversions by way of a library, prototypes and macros, with no state
  that changes and no second actor.  Nothing in them has an ordering, a
  failure between two steps or a bound that a model checker would reach
  and a unit test would not.

## 8. Plan

Done: `Blockmap` (with the front end of `newfs_hammer`), `Checkmap`,
`BufferCache`, `Histogram`, `Prescan`, `MirrorSession`, `MirrorAbstract`,
`MirrorCodec`, `RecordPipe`, `History`; twelve runs and forty-five
properties: forty the passing runs keep, five the code violates.

Next, in this order:

1. What `checkmap` and `blockmap` say of a stripped filesystem; the
   buffers of a layer2 table as a dimension of the image, for a strip that
   is run twice.
2. The begin-TID argument and the one-way histogram session; the histogram
   arithmetic at the 64-bit wrap (`Word` reached by `MaxTid * HIST_COUNT`).
3. `mirror-write` as the reader of `MirrorCodec`, so that the record layer
   and the session are one specification.
4. The attributes of `hammer history` stated as an expectation (each path
   is listed at its own offset), which the code does not meet.
