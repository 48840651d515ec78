------------------------------ MODULE Journal ------------------------------
(***************************************************************************)
(* The journal region as built with ENABLE_JOURNAL: a ring of records, one *)
(* segment of it in a buffer, the unwritten tail written out block by block*)
(* at a segment's end, at a flush and at shutdown, and a window of records *)
(* in the superblock that a reload starts from.  The superblock is a block *)
(* of dm-bufio: writing it makes a buffer dirty, and the buffer reaches the*)
(* device later or, in a crash, never.                                     *)
(*                                                                         *)
(* Records are numbered in the order they are added, 0 is no record.  Calls*)
(* are taken one at a time; the allocation of a write buffer may fail.     *)
(***************************************************************************)
EXTENDS Integers, FiniteSets

CONSTANTS
  RecordsPerBlock,    \* RECORDS_PER_BLOCK
  BlocksPerSegment,   \* BLOCKS_PER_SEGMENT
  NrJournalSegment,   \* NR_JOURNAL_SEGMENT
  MaxIds,             \* bound: records added in a behaviour
  MaxFails,           \* bound: failed allocations
  MaxOpens            \* bound: times the device is set up

ASSUME JournalAssumption ==
  /\ {RecordsPerBlock, BlocksPerSegment, NrJournalSegment} \subseteq Nat \ {0}
  /\ RecordsPerBlock * BlocksPerSegment > 1
  /\ NrJournalSegment > 1
  /\ {MaxIds, MaxFails, MaxOpens} \subseteq Nat

RecordsPerSegment == RecordsPerBlock * BlocksPerSegment
MaxRecords == RecordsPerSegment * NrJournalSegment
Positions == 0 .. MaxRecords - 1
Beyond == MaxRecords   \* stands for every record number outside the ring

VARIABLES
  pc,        \* down, idle, or where flush_and_commit is: pack, sync
  j,         \* record_start, record_end, last_sync_record, jbuffer
  disk,      \* the record at each position on the device
  sb,        \* the superblock in dm-bufio, [start, end, ids]
  dsb,       \* the superblock on the device
  added,     \* history: the record added last at each position
  next,      \* number of the next record
  pending,   \* history: the DATA_COMMIT of the flush under way, ...
  committed, \* ... and of the last flush that returned, ...
  cut,       \* ... whose sync stopped at a failed allocation
  settled,   \* history: the last such commit whose superblock left dm-bufio
  dropped,   \* history: the buffer was given to a new segment with records unwritten
  unset,     \* nobody has assigned last_sync_record since the set-up
  misled,    \* history: synchronize went by such a value, and it was wrong
  fails,     \* allocations that failed
  opens      \* times the device was set up

flushed == <<pending, committed, cut, settled>>
vars == <<pc, j, disk, sb, dsb, added, next, flushed, dropped, unset, misled, fails, opens>>

Zeros == [p \in Positions |-> 0]
BlockOf(p) == p \div RecordsPerBlock
SegOf(p) == p \div RecordsPerSegment
SegOfBlock(b) == b \div BlocksPerSegment

(* The positions from s up to e around the ring.                           *)
Window(s, e) == IF s <= e THEN s .. e - 1 ELSE Positions \ (e .. s - 1)

(* The positions of a block, and their places in the buffer.               *)
InBlock(b) == b * RecordsPerBlock .. (b + 1) * RecordsPerBlock - 1
Place(p) == p % RecordsPerSegment

-----------------------------------------------------------------------------
(* journal_buffer_load: the buffer is given to the segment of s, and the   *)
(* blocks up to e, or to the end of the segment, are read and decrypted.   *)
Load(r, s, e) ==
  LET b0 == BlockOf(s)
      b1 == IF e > s /\ SegOf(s) = SegOf(e) THEN BlockOf(e - 1)
            ELSE (SegOf(s) + 1) * BlocksPerSegment - 1
      read == IF s = e THEN {} ELSE UNION {InBlock(b) : b \in b0 .. b1}
  IN [r EXCEPT !.segno = SegOf(s),
        !.buf = [k \in DOMAIN r.buf |->
                   IF \E p \in read : Place(p) = k
                   THEN disk[CHOOSE p \in read : Place(p) = k] ELSE r.buf[k]]]

(* journal_get_block for block b.                                          *)
GetBlock(r, b) ==
  IF SegOfBlock(b) # r.segno THEN Load(r, b * RecordsPerBlock, r.end) ELSE r

(* journal_add_record up to its test of should_sync.                       *)
(* Mutant: the record is stored before the buffer is given to its segment. *)
Store_NoGetBlock(r, id) ==
  LET to == (r.end + 1) % MaxRecords
  IN [r EXCEPT !.buf[Place(r.end)] = id, !.end = to,
        !.start = IF to = r.start THEN (r.start + 1) % MaxRecords ELSE r.start]

Store(r, id) ==
  LET g == GetBlock(r, BlockOf(r.end))
      to == (r.end + 1) % MaxRecords
  IN [g EXCEPT !.buf[Place(r.end)] = id, !.end = to,
        !.start = IF to = r.start THEN (r.start + 1) % MaxRecords ELSE r.start]

(* journal_should_sync.                                                    *)
(* Mutant: one record too late.                                            *)
ShouldSync_Late(r) == SegOf((r.end + MaxRecords - 1) % MaxRecords) # r.segno

ShouldSync(r) == SegOf(r.end) # r.segno

(* journal_synchronize: the blocks it sets out to write.  The count is a   *)
(* signed number: it is not positive once record_end has wrapped around.   *)
SyncCount(r) ==
  IF r.end % RecordsPerSegment # 0
  THEN BlockOf(r.end - 1) - BlockOf(r.lastSync) + 1
  ELSE BlocksPerSegment - (BlockOf(r.lastSync) % BlocksPerSegment)

(* The blocks written: all, or those before a failed allocation.           *)
Written(r) ==
  LET n == SyncCount(r) IN {i \in 0 .. n : i = n \/ fails < MaxFails}
                             \cup (IF n < 0 THEN {0} ELSE {})

(* journal_encrypt_block takes the block out of the buffer.  If the buffer *)
(* is given to another segment, get_block loads the block's segment, and   *)
(* load waits for the mutex that synchronize holds.                        *)
SelfLocks(r, i) == i > 0 /\ SegOfBlock(BlockOf(r.lastSync)) # r.segno

(* The state after synchronize has written i blocks of the buffer.         *)
(* Mutant: the superblock is written although the sync is not complete.    *)
Synchronize_Always(r, i) ==
  LET b0 == BlockOf(r.lastSync)
  IN /\ disk' = [p \in Positions |->
                   IF \E b \in b0 .. b0 + i - 1 : p \in InBlock(b) THEN r.buf[Place(p)] ELSE disk[p]]
     /\ fails' = IF i < SyncCount(r) THEN fails + 1 ELSE fails
     /\ j' = [r EXCEPT !.lastSync = r.end]
     /\ sb' = [start |-> r.start, end |-> r.end, ids |-> added']

Synchronize(r, i) ==
  IF SelfLocks(r, i)
  THEN j' = [r EXCEPT !.status = "stuck"] /\ UNCHANGED <<disk, sb, fails>>
  ELSE LET b0 == BlockOf(r.lastSync)
           done == i = SyncCount(r)
           to == IF done THEN r.end ELSE (b0 + i) * RecordsPerBlock
       IN /\ disk' = [p \in Positions |->
                        IF \E b \in b0 .. b0 + i - 1 : p \in InBlock(b) THEN r.buf[Place(p)] ELSE disk[p]]
          /\ fails' = IF i < SyncCount(r) THEN fails + 1 ELSE fails
          /\ j' = [r EXCEPT !.lastSync = to]
          /\ IF to = r.end
             THEN sb' = [start |-> r.start, end |-> r.end, ids |-> added']
             ELSE UNCHANGED sb

(* From a last_sync_record outside the ring the number of blocks, cut to an*)
(* int, may have any sign, and what is written goes outside the region:    *)
(* synchronize completes, stops short, or waits for its own mutex.         *)
SynchronizeBeyond(r) ==
  /\ \/ /\ j' = [r EXCEPT !.lastSync = r.end]
        /\ sb' = [start |-> r.start, end |-> r.end, ids |-> added']
     \/ j' = r /\ UNCHANGED sb
     \/ j' = [r EXCEPT !.status = "stuck"] /\ UNCHANGED sb
  /\ UNCHANGED <<disk, fails>>

(* synchronize is called: it returns at once, or writes.  While `unset`,   *)
(* last_sync_record is what kmalloc left there, whatever that is, and is   *)
(* chosen here, where it is first read; r.lastSync is what it should be.   *)
Sync(r) ==
  \E g \in IF unset THEN Positions \cup {Beyond} ELSE {r.lastSync} :
    LET q == [r EXCEPT !.lastSync = g]
    IN /\ unset' = FALSE
       /\ misled' = (misled \/ g # r.lastSync)
       /\ \/ g = r.end /\ j' = q /\ UNCHANGED <<disk, sb, fails>>
          \/ g = Beyond /\ SynchronizeBeyond(q)
          \/ g \notin {r.end, Beyond} /\ \E i \in Written(q) : Synchronize(q, i)

(* journal_add_record, whole.                                              *)
AddRecord ==
  LET r == Store(j, next)
  IN /\ next <= MaxIds
     /\ next' = next + 1
     /\ added' = [added EXCEPT ![j.end] = next]
     /\ dropped' = (dropped \/ (r.segno # j.segno /\ j.lastSync # j.end))
     /\ IF ShouldSync(r)
        THEN Sync(r)
        ELSE j' = r /\ UNCHANGED <<disk, sb, unset, misled, fails>>

-----------------------------------------------------------------------------
Fresh == [start |-> 0, end |-> 0, lastSync |-> 0, segno |-> 0, status |-> "ready",
          buf |-> [k \in 0 .. RecordsPerSegment - 1 |-> 0]]

(* A device that was formatted: the window is empty.                       *)
Init ==
  /\ pc = "down" /\ j = Fresh /\ disk = Zeros
  /\ sb = [start |-> 0, end |-> 0, ids |-> Zeros] /\ dsb = sb
  /\ added = Zeros /\ next = 1 /\ pending = 0 /\ committed = 0 /\ cut = FALSE /\ settled = 0
  /\ dropped = FALSE /\ unset = FALSE /\ misled = FALSE /\ fails = 0 /\ opens = 0

(* journal_recover walks the window through get_block: the segments after  *)
(* the first are loaded one after the other, and each but the last fills   *)
(* the buffer.                                                             *)
Recover(r) ==
  LET last == (r.end + MaxRecords - 1) % MaxRecords
      moves == IF SegOf(last) = SegOf(r.start) /\ last < r.start THEN NrJournalSegment
               ELSE (SegOf(last) - SegOf(r.start) + NrJournalSegment) % NrJournalSegment
      LoadSeg(q, g) == Load(q, g * RecordsPerSegment, q.end)
      before == IF moves < 2 THEN r
                ELSE LoadSeg(r, (SegOf(last) + NrJournalSegment - 1) % NrJournalSegment)
  IN [(IF moves = 0 THEN r ELSE LoadSeg(before, SegOf(last))) EXCEPT !.lastSync = r.end]

(* journal_region_init: an empty window gets its first record, ...         *)
OpenEmpty ==
  /\ pc = "down" /\ opens < MaxOpens
  /\ dsb.start = dsb.end
  /\ next <= MaxIds
  /\ LET r == [Fresh EXCEPT !.start = dsb.start, !.end = dsb.end, !.segno = SegOf(dsb.start)]
     IN j' = [Store(r, next) EXCEPT !.lastSync = r.start]
  /\ added' = [dsb.ids EXCEPT ![dsb.end] = next]
  /\ next' = next + 1
  /\ pc' = "idle" /\ opens' = opens + 1 /\ sb' = dsb /\ unset' = FALSE
  /\ UNCHANGED <<disk, dsb, flushed, dropped, misled, fails>>

(* ... another one is loaded, and walked unless it is one record long, as  *)
(* after every flush: journal_should_recover says no and last_sync_record  *)
(* keeps what kmalloc left there.                                          *)
OpenLoad ==
  /\ pc = "down" /\ opens < MaxOpens
  /\ dsb.start # dsb.end
  /\ LET r == Load([Fresh EXCEPT !.start = dsb.start, !.end = dsb.end], dsb.start, dsb.end)
     IN IF r.end = (r.start + 1) % MaxRecords
        THEN j' = [r EXCEPT !.lastSync = r.end] /\ unset' = TRUE
        ELSE j' = Recover(r) /\ unset' = FALSE
  /\ added' = dsb.ids
  /\ pc' = "idle" /\ opens' = opens + 1 /\ sb' = dsb
  /\ UNCHANGED <<disk, dsb, next, flushed, dropped, misled, fails>>

Ready(at) == pc = at /\ j.status = "ready"

(* A data log, a node of an index file or a compaction is journalled.      *)
Log == Ready("idle") /\ AddRecord /\ UNCHANGED <<pc, dsb, flushed, opens>>

(* The superblock leaves dm-bufio, and with it the commit of a flush whose *)
(* sync was complete.                                                      *)
Settle == settled' = IF cut \/ committed = 0 THEN settled ELSE committed

(* dm-bufio writes the superblock on its own.                              *)
WriteBack ==
  /\ pc # "down" /\ dsb # sb
  /\ dsb' = sb /\ Settle
  /\ UNCHANGED <<pc, j, disk, sb, added, next, pending, committed, cut, dropped, unset, misled,
                 fails, opens>>

(* flush_and_commit: the dirty buffers are written, DATA_COMMIT is added,  *)
FlushCommit ==
  /\ Ready("idle")
  /\ dsb' = sb /\ Settle
  /\ AddRecord
  /\ pending' = next
  /\ pc' = "pack"
  /\ UNCHANGED <<committed, cut, opens>>

(* add_checkpoint_pack_record: the pack is added and the window starts     *)
(* there; without memory nothing happens.  The copies of the tables that   *)
(* the pack names are written and never read back, and are left out ...    *)
FlushPack ==
  /\ Ready("pack")
  /\ \/ /\ AddRecord
        /\ pc' = "start"
     \/ /\ fails < MaxFails /\ fails' = fails + 1
        /\ pc' = "sync"
        /\ UNCHANGED <<j, disk, sb, added, next, dropped, unset, misled>>
  /\ UNCHANGED <<dsb, flushed, opens>>

(* Mutant: the window starts behind the pack.                              *)
FlushStart_Behind ==
  /\ Ready("start")
  /\ j' = [j EXCEPT !.start = j.end]
  /\ pc' = "sync"
  /\ UNCHANGED <<disk, sb, dsb, added, next, flushed, dropped, unset, misled, fails, opens>>

FlushStart ==
  /\ Ready("start")
  /\ j' = [j EXCEPT !.start = (j.end + MaxRecords - 1) % MaxRecords]
  /\ pc' = "sync"
  /\ UNCHANGED <<disk, sb, dsb, added, next, flushed, dropped, unset, misled, fails, opens>>

(* ... and the journal is synchronized.  The flush returns, whether or not *)
(* the sync was complete.                                                  *)
FlushSync ==
  /\ Ready("sync")
  /\ UNCHANGED <<dsb, added, next, pending, settled, dropped, opens>>
  /\ Sync(j)
  /\ IF j'.status = "ready"
     THEN pc' = "idle" /\ committed' = pending /\ cut' = (j'.lastSync # j'.end)
     ELSE UNCHANGED <<pc, committed, cut>>

(* journal_region_destroy synchronizes; dm-bufio is closed after it.       *)
Destroy ==
  /\ Ready("idle")
  /\ UNCHANGED <<added, next, pending, committed, cut, dropped, opens>>
  /\ Sync(j)
  /\ IF j'.status = "ready" THEN pc' = "down" /\ dsb' = sb' /\ Settle
     ELSE UNCHANGED <<pc, dsb, settled>>

Crash ==
  /\ pc # "down"
  /\ pc' = "down" /\ j' = Fresh /\ pending' = 0 /\ committed' = 0 /\ cut' = FALSE
  /\ UNCHANGED <<disk, sb, dsb, added, next, settled, dropped, unset, misled, fails, opens>>

Next ==
  \/ OpenEmpty \/ OpenLoad \/ Log \/ WriteBack
  \/ FlushCommit \/ FlushPack \/ FlushStart \/ FlushSync \/ Destroy \/ Crash

Spec == Init /\ [][Next]_vars

-----------------------------------------------------------------------------
(* The two things that lose records.  The buffer is given to the next      *)
(* segment after the sync at a segment's end failed: once record_end has   *)
(* come round to last_sync_record nothing seems unwritten.  Or synchronize *)
(* goes by a last_sync_record that nobody has set.                         *)
Astray == dropped \/ misled

(* The superblock on the device never claims a record that was not written:*)
(* each position of its window holds the record added there or, when the   *)
(* ring has come round since, a later one, which may be the rest of a block*)
(* that was still in the buffer from the segment before.                   *)
WindowWrittenUnlessAstray ==
  Astray \/ \A p \in Window(dsb.start, dsb.end) : disk[p] >= dsb.ids[p] /\ disk[p] # 0

(* The records that are not written yet are all in the segment that is in  *)
(* the buffer, and in the buffer, also where last_sync_record, which should*)
(* say where they begin, is not set.  A failed sync goes back to the start *)
(* of a block, and there the buffer may hold what was read from the device:*)
(* a later record, when the ring came round before a crash.                *)
UnsyncedBufferedUnlessAstray ==
  pc # "down" /\ j.status = "ready" /\ ~Astray =>
    \A p \in Window(j.lastSync, j.end) :
      /\ SegOf(p) = j.segno
      /\ \/ j.buf[Place(p)] = added[p]
         \/ j.buf[Place(p)] = disk[p] /\ disk[p] > added[p]

(* synchronize waits for the mutex it holds only if it goes by a           *)
(* last_sync_record nobody has set, or after the buffer was given away, and*)
(* that happens only after an allocation failed.                           *)
StuckOnlyAstray ==
  /\ j.status = "stuck" => Astray
  /\ dropped => fails > 0 \/ misled

(* A flush that returned, unless its sync stopped at a failed allocation,  *)
(* has its DATA_COMMIT, or a later record, in the window of the superblock *)
(* that waits in dm-bufio.  On the device the commit is once that          *)
(* superblock was written back, at the latest by the next flush, and no    *)
(* crash and no reload takes it away again.                                *)
CommitKeptUnlessAstray ==
  ~Astray =>
    /\ pc # "down" /\ committed # 0 /\ ~cut =>
         \E p \in Window(sb.start, sb.end) : sb.ids[p] >= committed
    /\ settled # 0 => \E p \in Window(dsb.start, dsb.end) : dsb.ids[p] >= settled
=============================================================================
