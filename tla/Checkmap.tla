------------------------------ MODULE Checkmap ------------------------------
(***************************************************************************)
(* hammer blockmap and hammer checkmap (sbin/hammer/cmd_blockmap.c) on the *)
(* filesystem the Blockmap module formats and allocates from.              *)
(*                                                                         *)
(* blockmap lists the layer2 entries of the freemap.  checkmap adds up,    *)
(* big-block by big-block, what the freemap tables, the B-Tree and the     *)
(* UNDO FIFO refer to, and compares the sums with the layer2 entries:      *)
(*                                                                         *)
(*   hammer_cmd_checkmap                                                   *)
(*     check_freemap        CheckFreemap       (one step)                  *)
(*     check_btree_node     CheckBtree         (one step, the whole walk)  *)
(*     check_undo           CheckUndoHead      (one step per FIFO head)    *)
(*                          CheckUndoNullHead  (a head that cannot be read)*)
(*     dump_collect_table   DumpCollectTable   (one step)                  *)
(*   hammer_cmd_blockmap                                                   *)
(*     dump_blockmap        HammerCmdBlockmap  (one step)                  *)
(*                                                                         *)
(* The filesystem is not mounted while the commands run: the image is the  *)
(* one newfs_hammer wrote, with the records a filesystem in use has        *)
(* allocated since (Alloc), entered into the B-Tree or not (Link), and at  *)
(* most one damaged field (Corrupt).                                       *)
(***************************************************************************)
EXTENDS Blockmap

CONSTANTS
    HeadAlign,          \* HAMMER_HEAD_ALIGN
    IntBits,            \* width of the int32_t bytes_free of a track
    VerboseOpts,        \* the numbers of -v tried
    LinkRecTypes,       \* record types of the elements Link enters
    CorruptBits         \* bits of a layer2 zone field Corrupt may flip

RecTypes == {"INODE", "DIRENTRY", "EXT", "FIX", "PFS", "SNAPSHOT", "CONFIG",
             "DATA", "DB", "UNKNOWN"}

ASSUME /\ NodeBytes % DataAlign = 0 /\ UndoAlign % HeadAlign = 0
       /\ 2^(IntBits - 1) > BigBlockSize
       /\ VerboseOpts \subseteq 0..2
       /\ LinkRecTypes \subseteq RecTypes
       /\ CorruptBits \subseteq 0..7

VARIABLES
    ck_pc,              \* "image", then the call the two commands make next
    verbose,            \* VerboseOpt
    damage,             \* the field of the image that was corrupted, if any
    dumped,             \* what hammer blockmap listed and counted
    collect,            \* CollectTree: <<layer2 table, index>> |-> track
    scan_offset,        \* check_undo's cursor
    num_bad_node,
    ck_report,          \* the BZ and BM lines dump_collect() printed
    ck_error,           \* the errors dump_collect_table() counted
    ck_stats            \* the zone statistics of checkmap -v

ckvars == <<ck_pc, verbose, damage, dumped, collect, scan_offset,
            num_bad_node, ck_report, ck_error, ck_stats>>
allvars == <<vars, ckvars>>

NoDamage == [kind |-> "none"]
Layer2Damage(table, index, zone) ==
    [kind |-> "layer2", table |-> table, index |-> index, was |-> zone]
NodeDamage(node) == [kind |-> "node", node |-> node]

\* hammer_crc_test_layer2(), hammer_crc_test_btree(): a CRC fails where a
\* field was changed behind the filesystem's back.
Layer2CrcOk(table, index) ==
    ~(damage.kind = "layer2" /\ damage.table = table /\ damage.index = index)
BtreeCrcOk(node) == damage # NodeDamage(node)

-----------------------------------------------------------------------------
(* misc.c: zone statistics. *)

\* hammer_init_zone_stat()
ZeroStats == [z \in 0..(MAX_ZONES - 1) |-> [blocks |-> 0, items |-> 0, used |-> 0]]

\* _hammer_add_zone_stat(): "sp = stats + zone", whatever the zone.  A zone
\* of HAMMER_MAX_ZONES or more is memory behind the array; what stood there
\* is not known, what stands there afterwards is kept under that index.
AddZoneStat(stats, zone, bytes, new_block, new_item) ==
    LET sp == IF zone \in DOMAIN stats THEN stats[zone] ELSE ZeroStats[0] IN
    [z \in DOMAIN stats \cup {zone} |->
        IF z = zone THEN [blocks |-> sp.blocks + new_block,
                          items  |-> sp.items + new_item,
                          used   |-> sp.used + bytes]
        ELSE stats[z]]

\* hammer_add_zone_stat_layer2()
AddZoneStatLayer2(stats, l2) ==
    AddZoneStat(stats, l2.zone, BigBlockSize - l2.bytes_free, 1, 0)

\* _calc_used_percentage(), without the fraction the double keeps.
UsedPercentage(blocks, used) ==
    IF blocks # 0 THEN (used * 100) \div (blocks * BigBlockSize) ELSE 0

\* hammer_print_zone_stat(): the used[%] column of every zone, and of the
\* totals line.
PrintZoneStat(stats) ==
    [zone  |-> [z \in DOMAIN ZeroStats |-> UsedPercentage(stats[z].blocks, stats[z].used)],
     total |-> UsedPercentage(SumFunction([z \in DOMAIN ZeroStats |-> stats[z].blocks]),
                              SumFunction([z \in DOMAIN ZeroStats |-> stats[z].used]))]

-----------------------------------------------------------------------------
(* cmd_blockmap.c: hammer blockmap. *)

\* Mutant: an append offset at the end of the big-block counts as beyond it.
Layer2Faults_AppendAtEnd(table, index) ==
    LET l2 == layer2[table][index] IN
    Cardinality({f \in {"B", "A", "F"} :
        \/ f = "B" /\ ~Layer2CrcOk(table, index)
        \/ f = "A" /\ l2.append_off >= BigBlockSize
        \/ f = "F" /\ (l2.bytes_free < 0 \/ l2.bytes_free > BigBlockSize)})

\* The tests of one layer2 entry in dump_blockmap(): each of bad CRC, append
\* offset beyond the big-block and bytes_free out of range counts once.
Layer2Faults(table, index) ==
    LET l2 == layer2[table][index] IN
    Cardinality({f \in {"B", "A", "F"} :
        \/ f = "B" /\ ~Layer2CrcOk(table, index)
        \/ f = "A" /\ l2.append_off > BigBlockSize
        \/ f = "F" /\ (l2.bytes_free < 0 \/ l2.bytes_free > BigBlockSize)})

\* Mutant: the inner loop ends at the first entry that is not in use.
Layer2Rows_StopAtFree(table, v) ==
    LET ends == {j \in 0..(Radix2 - 1) :
                    /\ v < 2
                    /\ Layer2Faults(table, j) = 0
                    /\ layer2[table][j].zone \in {0, ZONE_UNAVAIL}}
        count == IF ends = {} THEN Radix2 ELSE Min(ends)
    IN  [k \in 1..count |-> <<table, k - 1>>]

\* The inner loop of dump_blockmap(): the entries of one layer2 table it
\* prints, up to the first faultless UNAVAIL entry unless -vv is given.
Layer2Rows(table, v) ==
    LET ends == {j \in 0..(Radix2 - 1) :
                    /\ v < 2
                    /\ Layer2Faults(table, j) = 0
                    /\ layer2[table][j].zone = ZONE_UNAVAIL}
        count == IF ends = {} THEN Radix2 ELSE Min(ends)
    IN  [k \in 1..count |-> <<table, k - 1>>]

\* The layer2 tables of the layer1 entries that are in use, in index order.
Layer2Tables ==
    SelectSeq([i \in 1..Radix1 |-> layer1[i - 1].phys_offset],
              LAMBDA phys_offset : phys_offset # UNAVAIL)

\* dump_blockmap(HAMMER_ZONE_FREEMAP_INDEX).  The layer1 entries have no
\* field Corrupt reaches, so num_bad_layer1 stays 0; the last line of the
\* function prints it a second time, as the number of bad layer2 entries.
DumpBlockmap(rows, v) ==
    LET num_bad_layer1 == 0
        stats == IF v > 0
                 THEN FoldLeft(LAMBDA st, r : AddZoneStatLayer2(st, layer2[r[1]][r[2]]),
                               ZeroStats, rows)
                 ELSE ZeroStats
    IN
    [rows |-> rows,
     stats |-> stats,
     printed |-> PrintZoneStat(stats),
     num_bad_layer1 |-> num_bad_layer1,
     num_bad_layer2 |-> FoldLeft(LAMBDA n, r : n + Layer2Faults(r[1], r[2]), 0, rows),
     printed_bad_layer2 |-> num_bad_layer1]

\* hammer blockmap, run after checkmap with the same -v.
HammerCmdBlockmap ==
    /\ ck_pc = "dump_blockmap"
    /\ dumped' = LET tables == Layer2Tables IN
                 DumpBlockmap(FlattenSeq([k \in DOMAIN tables |->
                                             Layer2Rows(tables[k], verbose)]),
                              verbose)
    /\ ck_pc' = "done"
    /\ UNCHANGED <<vars, verbose, damage, collect, scan_offset, num_bad_node,
                   ck_report, ck_error, ck_stats>>

-----------------------------------------------------------------------------
(* cmd_blockmap.c: hammer checkmap. *)

\* A reference a sweep hands to collect_blockmap().
Ref(offset, length, zone) == [offset |-> offset, length |-> length, zone |-> zone]

\* hammer_xlate_to_zoneX()
XlateToZoneX(zone, off) == ZoneEncode(zone, LongOffset(off))

\* hammer_data_zone_index()
DataZoneIndex(data_len) ==
    IF data_len >= BufSize THEN ZONE_LARGE_DATA
    ELSE IF data_len > 0 THEN ZONE_SMALL_DATA
    ELSE ZONE_UNAVAIL

\* collect_get() and collect_get_track(): the track of the big-block of
\* offset, loaded with the zone and the layer2 entry of the first reference.
CollectGetTrack(tree, phys_offset, offset, zone, l2) ==
    LET key == <<phys_offset, Layer2Index(offset)>> IN
    IF key \in DOMAIN tree THEN tree
    ELSE tree @@ (key :> [zone |-> zone, bytes_free |-> BigBlockSize,
                          layer2 |-> l2, offset |-> RoundDown(offset, BigBlockSize)])

\* A difference of two int32_t.
Int32Minus(a, b) == ((a - b + 2^(IntBits - 1)) % 2^IntBits) - 2^(IntBits - 1)

\* collect_blockmap()
CollectBlockmap(tree, ref) ==
    LET look == LookupSave(Image, ref.offset)
        key  == <<look.layer1.phys_offset, Layer2Index(look.result)>>
    IN  [CollectGetTrack(tree, look.layer1.phys_offset, look.result,
                         ref.zone, look.layer2)
            EXCEPT ![key].bytes_free = Int32Minus(@, ref.length)]

\* Mutant: the zone-2 offset of the table is collected as it is.
FreemapRef_Untranslated(phys_offset) ==
    Ref(phys_offset, BigBlockSize, ZONE_FREEMAP)

\* collect_freemap_layer1(), collect_freemap_layer2(): "this translation is
\* necessary to do checkmap properly as zone4 is really just zone2 address
\* space".
FreemapRef(phys_offset) ==
    Ref(XlateToZoneX(ZONE_FREEMAP, phys_offset), BigBlockSize, ZONE_FREEMAP)

\* collect_btree_root(), collect_btree_internal()
NodeRef(node_offset) == Ref(node_offset, NodeBytes, ZONE_BTREE)

\* Mutant: the length of the record is collected as the element gives it.
LeafRef_Unaligned(elm) ==
    Ref(elm.data_offset, elm.data_len,
        CASE elm.rec_type \in {"INODE", "DIRENTRY", "EXT", "FIX", "PFS",
                               "SNAPSHOT", "CONFIG"} -> ZONE_META
          [] elm.rec_type \in {"DATA", "DB"} -> DataZoneIndex(elm.data_len)
          [] OTHER -> ZONE_UNAVAIL)

\* collect_btree_leaf()
LeafRef(elm) ==
    Ref(elm.data_offset, DataDoAlign(elm.data_len),
        CASE elm.rec_type \in {"INODE", "DIRENTRY", "EXT", "FIX", "PFS",
                               "SNAPSHOT", "CONFIG"} -> ZONE_META
          [] elm.rec_type \in {"DATA", "DB"} -> DataZoneIndex(elm.data_len)
          [] OTHER -> ZONE_UNAVAIL)

\* collect_undo()
UndoRef(offset, hdr_size) == Ref(offset, hdr_size, ZONE_UNDO)

\* check_freemap(): the big-block of the layer1 table, then the big-block
\* of the layer2 table of every layer1 entry in use.
CheckFreemap ==
    /\ ck_pc = "image" /\ At("formatted")
    /\ collect' = LET tables == Layer2Tables IN
                  FoldLeft(CollectBlockmap, collect,
                           <<FreemapRef(blockmap[ZONE_FREEMAP].phys_offset)>>
                           \o [k \in DOMAIN tables |-> FreemapRef(tables[k])])
    /\ ck_pc' = "check_btree"
    /\ UNCHANGED <<vars, verbose, damage, dumped, scan_offset, num_bad_node,
                   ck_report, ck_error, ck_stats>>

\* get_buffer_data() for a buffer that is not held: get_buffer() returns
\* NULL where __blockmap_xlate_to_zone2() cannot look the offset up.
BufferReadable(offset) == LookupSave(Image, offset).error = 0

\* check_btree_node() from the read of the node on: what is collected below
\* it, in the order of the walk.  The node itself was collected before the
\* call.  At a node that cannot be read ("IO ERROR") the function returns
\* and nothing below is collected; a bad CRC does not stop it.
RECURSIVE NodeRefs(_)
NodeRefs(node_offset) ==
    LET node == btree[node_offset]
        ElmRefs(elm) ==
            CASE node.type = "INTERNAL" /\ elm.subtree_offset # 0 ->
                    <<NodeRef(elm.subtree_offset)>> \o NodeRefs(elm.subtree_offset)
              [] node.type = "LEAF" /\ elm.data_offset # 0 -> <<LeafRef(elm)>>
              [] OTHER -> << >>
    IN  IF BufferReadable(node_offset)
        THEN FlattenSeq([i \in DOMAIN node.elms |-> ElmRefs(node.elms[i])])
        ELSE << >>

\* check_btree_node(vol0_btree_root, 0): every node the walk comes to that
\* cannot be read or fails its CRC counts as a bad node.
CheckBtree ==
    /\ ck_pc = "check_btree"
    /\ LET refs == <<NodeRef(btree_root)>> \o NodeRefs(btree_root) IN
         /\ collect' = FoldLeft(CollectBlockmap, collect, refs)
         /\ num_bad_node' = Len(SelectSeq(refs, LAMBDA r :
                                /\ r.zone = ZONE_BTREE
                                /\ ~(BufferReadable(r.offset) /\ BtreeCrcOk(r.offset))))
    /\ ck_pc' = "check_undo"
    /\ UNCHANGED <<vars, verbose, damage, dumped, scan_offset, ck_report,
                   ck_error, ck_stats>>

\* HAMMER_UNDO_DOALIGN()
UndoDoAlign(offset) == RoundUp(offset, UndoAlign)

\* Mutant: a head that ends at the boundary is taken to cross it.
IllegalSize_AtBoundary(offset, hdr_size) ==
    \/ hdr_size % HeadAlign # 0
    \/ hdr_size = 0
    \/ hdr_size >= UndoAlign - (offset % UndoAlign)

\* "Illegal size": a head that is not aligned, is empty, or crosses the
\* next UNDO boundary.
IllegalSize(offset, hdr_size) ==
    \/ hdr_size % HeadAlign # 0
    \/ hdr_size = 0
    \/ hdr_size > UndoAlign - (offset % UndoAlign)

\* One turn of the loop of check_undo(): the head at the cursor is
\* collected, and the cursor moves by its size, or to the boundary when the
\* size is illegal.  (The buffer of the turn before is held: a new one is
\* looked up at the first head of every big-block, and the heads after it
\* lie in a big-block that could be looked up.)
CheckUndoHead ==
    /\ ck_pc = "check_undo"
    /\ scan_offset < blockmap[ZONE_UNDO].alloc_offset
    /\ BufferReadable(scan_offset)
    /\ LET hdr_size == undo_fifo[scan_offset] IN
         /\ collect' = CollectBlockmap(collect, UndoRef(scan_offset, hdr_size))
         /\ scan_offset' = IF IllegalSize(scan_offset, hdr_size)
                           THEN UndoDoAlign(scan_offset)
                           ELSE scan_offset + hdr_size
    /\ UNCHANGED <<vars, ck_pc, verbose, damage, dumped, num_bad_node,
                   ck_report, ck_error, ck_stats>>

\* The same turn where get_buffer_data() returns NULL: check_undo() reads
\* head->hdr_type without a test, and the process ends on the signal.
CheckUndoNullHead ==
    /\ ck_pc = "check_undo"
    /\ scan_offset < blockmap[ZONE_UNDO].alloc_offset
    /\ ~BufferReadable(scan_offset)
    /\ ck_pc' = "null_head"
    /\ UNCHANGED <<vars, verbose, damage, dumped, collect, scan_offset,
                   num_bad_node, ck_report, ck_error, ck_stats>>

CheckUndoDone ==
    /\ ck_pc = "check_undo"
    /\ scan_offset >= blockmap[ZONE_UNDO].alloc_offset
    /\ ck_pc' = "dump_collect_table"
    /\ UNCHANGED <<vars, verbose, damage, dumped, collect, scan_offset,
                   num_bad_node, ck_report, ck_error, ck_stats>>

\* dump_collect(): the line printed for a track, if one is.
TrackReport(track) ==
    IF track.zone # track.layer2.zone THEN {[tag |-> "BZ", block |-> track.offset]}
    ELSE IF track.bytes_free # track.layer2.bytes_free
    THEN {[tag |-> "BM", block |-> track.offset]}
    ELSE {}

\* dump_collect_table(): every track is compared with the layer2 entry it
\* was loaded with, and the tree is freed.  VerboseOpt is read here first.
DumpCollectTable ==
    /\ ck_pc = "dump_collect_table"
    /\ \E v \in VerboseOpts :
         /\ verbose' = v
         /\ ck_stats' = IF v > 0
                        THEN FoldFunction(LAMBDA track, st :
                                              AddZoneStatLayer2(st, track.layer2),
                                          ZeroStats, collect)
                        ELSE ZeroStats
    /\ ck_report' = UNION {TrackReport(collect[k]) : k \in DOMAIN collect}
    /\ ck_error' = SumFunction([k \in DOMAIN collect |->
                                   Cardinality(TrackReport(collect[k]))])
    /\ collect' = << >>
    /\ ck_pc' = "dump_blockmap"
    /\ UNCHANGED <<vars, damage, dumped, scan_offset, num_bad_node>>

-----------------------------------------------------------------------------
(* The filesystem in use and the damage done to it, before the commands run. *)

InternalNode(elms) == [type |-> "INTERNAL", elms |-> elms]
InternalElm(subtree_offset) == [subtree_offset |-> subtree_offset]

\* The offsets the B-Tree refers to: its nodes and the records of its leaves.
Linked ==
    DOMAIN btree \cup
    UNION {{elm.data_offset : elm \in Range(btree[n].elms)} :
             n \in {m \in DOMAIN btree : btree[m].type = "LEAF"}}

Mounted == ck_pc = "image" /\ At("formatted") /\ damage = NoDamage

imagevars == <<pc, status, mainvars, vol_free_end, vol_free_off, layer1, layer2, blockmap,
               undo_array, undo_fifo, stat, nformatted, allocs>>

\* A B-Tree node the filesystem allocated becomes the new root, above the
\* old one.
LinkRoot(a) ==
    /\ Mounted
    /\ a.off \notin Linked
    /\ a.zone = ZONE_BTREE /\ a.bytes = DataDoAlign(NodeBytes)
    /\ btree' = btree @@ (a.off :> InternalNode(<<InternalElm(btree_root)>>))
    /\ btree_root' = a.off
    /\ UNCHANGED <<imagevars, ckvars>>

\* ... or an empty leaf below an internal node.
LinkNode(a) ==
    /\ Mounted
    /\ a.off \notin Linked
    /\ a.zone = ZONE_BTREE /\ a.bytes = DataDoAlign(NodeBytes)
    /\ \E n \in DOMAIN btree :
         /\ btree[n].type = "INTERNAL"
         /\ btree' = [btree EXCEPT ![n].elms = Append(@, InternalElm(a.off))]
                     @@ (a.off :> LeafNode(<< >>))
    /\ UNCHANGED <<btree_root, imagevars, ckvars>>

\* A record the filesystem allocated is entered into a leaf: a record of
\* the meta zone under one of its types, data under the zone of its length.
LinkRecord(a) ==
    /\ Mounted
    /\ a.off \notin Linked
    /\ \E n \in DOMAIN btree, rec_type \in LinkRecTypes, data_len \in 1..a.bytes :
         /\ btree[n].type = "LEAF"
         /\ a.bytes = DataDoAlign(data_len)
         /\ \/ a.zone = ZONE_META /\ rec_type \notin {"DATA", "DB", "UNKNOWN"}
            \/ a.zone = DataZoneIndex(data_len) /\ rec_type \in {"DATA", "DB"}
         /\ btree' = [btree EXCEPT ![n].elms =
                         Append(@, LeafElm(rec_type, a.off, data_len))]
    /\ UNCHANGED <<btree_root, imagevars, ckvars>>

FlipBit(n, k) == IF (n \div 2^k) % 2 = 1 THEN n - 2^k ELSE n + 2^k

\* One bit of the zone field of one layer2 entry is flipped.
CorruptLayer2(b, k) ==
    /\ Mounted
    /\ LET table == layer1[b[1]].phys_offset IN
         /\ layer2' = [layer2 EXCEPT ![table][b[2]].zone = FlipBit(@, k)]
         /\ damage' = Layer2Damage(table, b[2], layer2[table][b[2]].zone)
    /\ UNCHANGED <<pc, status, mainvars, vol_free_end, vol_free_off, layer1, blockmap,
                   undo_array, undo_fifo, stat, btree_root, btree, nformatted,
                   allocs, ck_pc, verbose, dumped, collect, scan_offset,
                   num_bad_node, ck_report, ck_error, ck_stats>>

\* A bit of a B-Tree node is flipped, in a field the sweeps do not follow.
CorruptNode(n) ==
    /\ Mounted
    /\ damage' = NodeDamage(n)
    /\ UNCHANGED <<vars, ck_pc, verbose, dumped, collect, scan_offset,
                   num_bad_node, ck_report, ck_error, ck_stats>>

-----------------------------------------------------------------------------
(* cmd_strip.c: hammer strip. *)

\* hammer_test_offset(): the volume of the offset was given, and the offset
\* is one of zone 2.
HammerTestOffset(offset) ==
    /\ LongOffset(offset) \div VolSpan \in Volumes
    /\ ZoneDecode(offset) = ZONE_RAW_BUFFER

\* Mutant: only the big-blocks of the B-Tree are overwritten.
StripZones_BtreeOnly == {ZONE_BTREE}

\* The zones whose big-blocks hammer_cmd_strip() overwrites.
StripZones == {ZONE_BTREE, ZONE_META}

\* The inner loop of hammer_cmd_strip() over the layer2 table of layer1
\* entry i: the entries it visits, up to the first one that is UNAVAIL.
\* (An entry the command itself has made UNAVAIL is behind the cursor.)
StripRows(i) ==
    LET table == layer1[i].phys_offset
        ends  == {j \in 0..(Radix2 - 1) : layer2[table][j].zone = ZONE_UNAVAIL}
    IN  IF ~HammerTestOffset(table) THEN {}
        ELSE {<<i, j>> : j \in 0..((IF ends = {} THEN Radix2 ELSE Min(ends)) - 1)}

\* The big-blocks the two loops of hammer_cmd_strip() hand to
\* hammer_strip_bigblock().
StripTargets ==
    IF ~HammerTestOffset(blockmap[ZONE_FREEMAP].phys_offset) THEN {}
    ELSE {b \in UNION {StripRows(i) : i \in {k \in DOMAIN layer1 :
                                                layer1[k].phys_offset # UNAVAIL}} :
            EntryOf(b).zone \in StripZones}

\* hammer_strip_bigblock(): every buffer of the big-block is asked for as
\* new, by its offset in the zone of the entry; get_buffer_data() returns
\* NULL, and the assertion fails, when that offset cannot be looked up.
HammerStripBigblock(b) ==
    LookupSave(Image, XlateToZoneX(EntryOf(b).zone, OffsetOf(b))).error = 0

\* The volume headers and the freemap after the command: the big-blocks
\* handed to hammer_strip_bigblock() are zero-filled and their layer2
\* entries UNAVAIL and full; every header is zeroed and signed STRIPPED.
Stripped(targets) ==
    /\ layer2' = [t \in DOMAIN layer2 |-> [j \in DOMAIN layer2[t] |->
                    IF \E b \in targets : layer1[b[1]].phys_offset = t /\ b[2] = j
                    THEN FullEntry(ZONE_UNAVAIL) ELSE layer2[t][j]]]
    /\ btree' = Restrict(btree, {n \in DOMAIN btree :
                    \A b \in targets : RoundDown(XlateToZone2(n), BigBlockSize) # OffsetOf(b)})
    /\ blockmap' = [z \in DOMAIN blockmap |-> ZeroedBlockmap]
    /\ undo_array' = [k \in DOMAIN undo_array |-> 0]
    /\ stat' = [freebigblocks |-> 0, bigblocks |-> 0, inodes |-> 0]
    /\ btree_root' = 0

\* hammer strip, from hammer_cmd_strip() to flush_all_volumes().  A failed
\* assertion of hammer_strip_bigblock() ends the command before any header
\* is touched.
HammerCmdStrip ==
    /\ ck_pc = "image" /\ At("formatted")
    /\ LET targets == StripTargets IN
         IF \A b \in targets : HammerStripBigblock(b)
         THEN Stripped(targets) /\ ck_pc' = "stripped"
         ELSE /\ ck_pc' = "strip_assert"
              /\ UNCHANGED <<layer2, btree, blockmap, undo_array, stat, btree_root>>
    /\ UNCHANGED <<pc, status, mainvars, vol_free_end, vol_free_off, layer1, undo_fifo,
                   nformatted, allocs, verbose, damage, dumped, collect,
                   scan_offset, num_bad_node, ck_report, ck_error, ck_stats>>

-----------------------------------------------------------------------------
CheckInit ==
    /\ Init
    /\ ck_pc = "image"
    /\ verbose = 0
    /\ damage = NoDamage
    /\ dumped = DumpBlockmap(<< >>, 0)
    /\ collect = << >>
    /\ scan_offset = EncodeUndo(0)
    /\ num_bad_node = 0
    /\ ck_report = {}
    /\ ck_error = 0
    /\ ck_stats = ZeroStats

Format == ck_pc = "image" /\ damage = NoDamage /\ Next /\ UNCHANGED ckvars

HammerCmdCheckmap ==
    \/ CheckFreemap \/ CheckBtree
    \/ CheckUndoHead \/ CheckUndoNullHead \/ CheckUndoDone
    \/ DumpCollectTable

CheckNext ==
    \/ Format
    \/ \E a \in allocs : LinkRoot(a)
    \/ \E a \in allocs : LinkNode(a)
    \/ \E a \in allocs : LinkRecord(a)
    \/ \E b \in BigBlocks, k \in CorruptBits : CorruptLayer2(b, k)
    \/ \E n \in DOMAIN btree : CorruptNode(n)
    \/ HammerCmdBlockmap
    \/ HammerCmdCheckmap
    \/ HammerCmdStrip

\* checkmap is one process: once it has reached check_undo() it goes on
\* to the end of dump_collect_table().
CheckSpec ==
    /\ CheckInit /\ [][CheckNext]_allvars
    /\ WF_allvars(CheckUndoHead) /\ WF_allvars(CheckUndoNullHead)
    /\ WF_allvars(CheckUndoDone)
    /\ WF_allvars(DumpCollectTable)

-----------------------------------------------------------------------------
(* Properties. *)

CheckLabels == {"image", "check_btree", "check_undo", "dump_collect_table",
                "null_head", "dump_blockmap", "done", "stripped", "strip_assert"}

Tracks == [zone : 0..(MAX_ZONES - 1), bytes_free : Int,
           layer2 : [zone : 0..(MAX_ZONES - 1), append_off : 0..BigBlockSize,
                     bytes_free : 0..BigBlockSize],
           offset : Nat]

CheckTypeOK ==
    /\ ck_pc \in CheckLabels
    /\ verbose \in VerboseOpts \cup {0}
    /\ damage.kind \in {"none", "layer2", "node"}
    /\ dumped.rows \in Seq((DOMAIN layer2) \X (0..(Radix2 - 1)))
    /\ dumped.num_bad_layer2 \in 0..1
    /\ \A key \in DOMAIN collect : collect[key] \in Tracks
    /\ scan_offset \in EncodeUndo(0)..blockmap[ZONE_UNDO].alloc_offset
           \/ blockmap[ZONE_UNDO].alloc_offset = 0
    /\ num_bad_node \in 0..Cardinality(DOMAIN btree)
    /\ ck_report \subseteq [tag : {"BZ", "BM"}, block : Nat]
    /\ ck_error \in Nat
    /\ DOMAIN ck_stats = DOMAIN ZeroStats

\* The big-block an offset lies in, as its zone-2 offset.
BlockOf(off) == RoundDown(XlateToZone2(off), BigBlockSize)

\* The big-blocks of the freemap's tables and of the UNDO FIFO.
FreemapBlocks ==
    {BlockOf(blockmap[ZONE_FREEMAP].phys_offset)}
        \cup {BlockOf(table) : table \in Range(Layer2Tables)}
UndoBlocks == Range(undo_array) \ {UNAVAIL}

\* Allocations nothing refers to: space that is lost.
Leaked == {a \in allocs : a.off \notin Linked}

DamagedBlocks ==
    {OffsetOf(b) : b \in {c \in BigBlocks :
                            ~Layer2CrcOk(layer1[c[1]].phys_offset, c[2])}}

\* The nodes check_btree_node() comes to: the root, and the nodes an
\* internal node points to whose own big-block the freemap still gives to
\* the B-Tree.
RECURSIVE NodesFrom(_)
NodesFrom(n) ==
    {n} \cup IF btree[n].type = "INTERNAL" /\ BlockOf(n) \notin DamagedBlocks
             THEN UNION {NodesFrom(elm.subtree_offset) : elm \in Range(btree[n].elms)}
             ELSE {}

\* The offsets the sweep of the B-Tree can know of: the nodes it comes to
\* and the records of the leaves among them it can read.
Walked ==
    LET nodes == NodesFrom(btree_root) IN
    nodes \cup UNION {{elm.data_offset : elm \in Range(btree[n].elms)} :
                       n \in {m \in nodes : /\ btree[m].type = "LEAF"
                                            /\ BlockOf(m) \notin DamagedBlocks}}

\* The big-blocks the three sweeps have something to say about.
SweptBlocks == FreemapBlocks \cup UndoBlocks \cup {BlockOf(off) : off \in Walked}

\* checkmap, when it comes to its end, reports exactly the big-blocks that
\* are wrong among those its sweeps know of, each once: BZ for the one
\* whose zone field was flipped, BM for one that holds an allocation the
\* walk of the B-Tree did not come to, because nothing refers to it (lost
\* space) or because it hangs below a node check_btree_node() could not
\* read ("corrupted subtrees are skipped"); and nothing on a filesystem
\* without either.  The lengths collect_btree_leaf() and check_undo() add
\* up must be the ones alloc_blockmap() and format_undomap() subtracted,
\* the freemap's own big-blocks must have been marked full by the bootstrap
\* allocator, collect_get() must keep the big-blocks of two layer1 entries
\* apart, and the walk must stop at an unreadable node and nowhere else.
\* check_undo() uses the head get_buffer_data() returns without a test:
\* the process ends there only where the zone field of a big-block of the
\* UNDO FIFO was flipped, never on what format_undomap() has written.
ReportsAreTheDamage ==
    /\ ck_pc = "null_head" => UndoBlocks \cap DamagedBlocks # {}
    /\ ck_pc = "done" =>
        /\ {[r EXCEPT !.block = BlockOf(@)] : r \in ck_report} =
             {[tag |-> IF b \in DamagedBlocks THEN "BZ" ELSE "BM", block |-> b] :
                b \in {h \in SweptBlocks :
                         \/ h \in DamagedBlocks
                         \/ \E a \in allocs : a.off \notin Walked /\ BlockOf(a.off) = h}}
        /\ ck_error = Cardinality(ck_report)
        /\ num_bad_node = Cardinality({n \in NodesFrom(btree_root) :
                                          \/ BlockOf(n) \in DamagedBlocks
                                          \/ ~BtreeCrcOk(n)})

\* On a filesystem with no damage and no lost space the three sweeps of
\* checkmap reach every big-block that is in use: checkmap -v and
\* blockmap -v then print the same statistics for every zone but the free
\* and the unavailable one, which only dump_blockmap() walks.
SweepsReachEveryUsedBigBlock ==
    ck_pc = "done" /\ verbose > 0 /\ damage = NoDamage /\ Leaked = {} =>
        \A z \in DOMAIN ck_stats \ {0, ZONE_UNAVAIL} : ck_stats[z] = dumped.stats[z]

\* dump_blockmap() leaves the inner loop at the first UNAVAIL entry of a
\* layer2 table.  That hides no big-block of an undamaged filesystem:
\* initialize_freemap() puts UNAVAIL entries only behind the last big-block
\* of a volume.
BlockmapListsEveryBigBlock ==
    ck_pc = "done" /\ damage = NoDamage =>
        \A b \in BigBlocks :
            EntryOf(b).zone # ZONE_UNAVAIL =>
                <<layer1[b[1]].phys_offset, b[2]>> \in Range(dumped.rows)

\* The scan of check_undo() comes to its end: every head it reads moves
\* the cursor forward, until the sums are compared or the process has ended
\* at a head it could not read.  format_undomap() leaves a head of a legal
\* size at every boundary up to alloc_offset; at a head of an illegal size
\* that starts on a boundary the cursor would stay where it is.
UndoScanEnds == (ck_pc = "check_undo") ~> (ck_pc \in {"dump_blockmap", "null_head"})

\* The big-blocks whose layer2 entry stands, in its table, behind an entry
\* the damage has turned into an UNAVAIL one.
BehindDamage ==
    {b \in BigBlocks : /\ damage.kind = "layer2"
                       /\ layer1[b[1]].phys_offset = damage.table
                       /\ b[2] > damage.index
                       /\ layer2[damage.table][damage.index].zone = ZONE_UNAVAIL}

\* What hammer strip leaves to find a file by.  The loop of
\* hammer_cmd_strip() leaves a layer2 table at its first UNAVAIL entry.  On
\* the filesystem newfs_hammer and alloc_blockmap() make, that hides
\* nothing: initialize_freemap() writes such entries behind the last
\* big-block of a volume, and the four zones never share a big-block.  So
\* after the command no big-block is of the B-Tree or the meta zone, and
\* every B-Tree node and every meta record ever allocated lies in a
\* big-block that was zero-filled, with two exceptions, both made by a
\* flipped bit of a zone field: the big-block of the flipped entry itself,
\* and every big-block behind an entry flipped into an UNAVAIL one, which
\* the command does not come to although it signs the volumes STRIPPED.
StripDestroysTheIndex ==
    ck_pc = "stripped" =>
        /\ \A b \in BigBlocks \ BehindDamage :
               EntryOf(b).zone \notin {ZONE_BTREE, ZONE_META}
        /\ \A a \in allocs : a.zone \in {ZONE_BTREE, ZONE_META} =>
               \E b \in BigBlocks :
                   /\ OffsetOf(b) = BlockOf(a.off)
                   /\ \/ EntryOf(b) = FullEntry(ZONE_UNAVAIL) /\ a.off \notin DOMAIN btree
                      \/ OffsetOf(b) \in DamagedBlocks
                      \/ b \in BehindDamage

\* "For all single-bit corruptions injected into exactly one layer2 zone
\* field, the checker must report exactly one BZ mismatch identifying that
\* big-block."  dump_collect() looks only at the big-blocks a sweep has
\* collected something for.  The entries behind the end of a volume, which
\* stand for no big-block, are left out here.
CheckerCompleteness ==
    ck_pc = "done" /\ damage.kind = "layer2" /\ damage.was # ZONE_UNAVAIL =>
        {BlockOf(r.block) : r \in {q \in ck_report : q.tag = "BZ"}} = DamagedBlocks

\* Impossible field values, a layer2 zone out of range among them, are
\* "merely counted when encountered during the read-only Checker sweep":
\* the statistics of blockmap -v are written inside the HAMMER_MAX_ZONES
\* entries hammer_init_zone_stat() has allocated, whatever the zone field
\* of a layer2 entry holds.  (checkmap -v adds up the copies
\* blockmap_lookup_save() has saved, which are zeroed where the zone is not
\* the one asked for.)
ZoneStatsStayInTheirArray == DOMAIN dumped.stats = DOMAIN ZeroStats

=============================================================================
