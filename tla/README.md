# Verification of dm-jindisk

TLA+ models of JinDisk's kernel module (`kernel-module/c`), TLC configurations
that check them on small instances, and TLAPS proofs, for all sizes, about the
tables of the data region, the segment buffer, the request path, the layout of the
device, the node cache and the journal.

## The system

JinDisk is a device-mapper target that stores encrypted 4 KiB blocks in a log.
A write goes to an in-memory buffer; a full buffer becomes one segment of the
data region; an LSM tree maps a logical block (lba) to its newest physical block
(pba) with key and MAC. All of it is one C kernel module.

| Component | State | Operations | Talks to |
|---|---|---|---|
| request path (`dm-jindisk.c`) | deferred bios, worker, reader semaphore, per-read `wait_cnt` and completion | `target_map`, `process_deferred_bios`, `do_read`, `do_write`, `read_iocb`, `decrypt_work` | segment buffer, index, raw device |
| segment buffer (`segment_buffer.c`) | ring of `POOL_SIZE` buffers, `cur_buffer`, flush workqueue, `lock`, `rw_lock[]` | `push_bio`, `push_block`, `query_block`, `flush_bios`, `threaded_logging`, `destroy` | allocator, tables, index |
| segment allocator and collector (`segment_allocator.c`) | `nr_valid_segment`, `gc_lock`, timer | `sa_alloc`, `sa_background_gc`, `gc_one_segment` | tables, index, segment buffer |
| SVT, DST, RIT (`metadata.c`) | validity bit per segment; valid-block count, bitmap and victim per segment, logging segment; lba per pba | `next`, `take`, `test_and_return`; `take_segment`, `return_segment`, `return_block`, `find_logging_block`, `pop_victim`, `load`; `reset`, `set` | on-disk arrays |
| LSM tree (`lsm_tree.c`, `memtable.c`) | memtable, immutable memtable, levels of block index tables | `put`, `search`, `range_search`, minor and major compaction | RIT, DST, catalogue, node cache |
| catalogue (`metadata.c`) | index file slots, their statistics, `max_version` | `alloc_file`, `release_file`, `set_file_stats`, versions | index |
| superblock and layout (`metadata.c`, `dm-jindisk.c`) | sizes and starts of the regions, copies of the tables | `calc_avail_sectors`, `superblock_init/read/write`, `metadata_format` | all |
| journal (`journal.c`) | ring of records, one segment of it buffered, window in the superblock, valid fields | `add_record`, `load`, `synchronize`, `recover`; compiled out (`ENABLE_JOURNAL 0`) but created and consulted at start | metadata |
| node cache (`cache.c`) | LRU list and radix tree | `get`, `put`, `delete` | index |
| cipher, disk structures, threads (`crypto.c`, `disk_structs.c`, `async.c`) | none of interest | | all |
| user-space tools (`user-cli`) | none | set-up commands | device mapper |

What is hard here: five kinds of thread (request worker, readers, flush worker,
collector, compaction) and the thread that removes the device share tables
through many short critical sections; decisions taken in one section are carried
out in another; buffers are also the read cache; completion is counted while work
is still being submitted; values are read after the lock that protects them is
released; what dm-bufio has "written" reaches the device later. Correctness means: a completed write is not lost, a
read is up to date, a live block is never marked free, no segment is lost, every
bio ends, no region reaches into another one. `PROJECT.json` lists these hazards line by line.

## Modules

| Module | Models | Its state |
|---|---|---|
| `SegmentTables` | SVT, DST with victim tree and logging segment, RIT, allocator, collector, and their users: flushing threads and compaction | the tables under their C names; locals and place of each flusher and of the collector |
| `SegmentBuffer` | ring of buffers, flush worker, writes, one read, relocation, removal | payloads are write numbers, so "older" and "newer" can be told apart |
| `RequestQueue` | deferred list, worker, semaphore with `down_timeout`, reads with their I/O, decryption and completion | one function per local of `jindisk_do_read`, indexed by bio |
| `Index` | what the LSM tree promises: a map from lba to the record put last | `idx` |
| `LsmTree` | memtables, rotation, minor and major compaction, both levels, catalogue, search, range search, close and open; implements `Index` | records are numbers; per file its level, version and, per lba, a value and a negative record |
| `BitTree` | one block index table: builder with its buffer, search, range search, iterator | nodes with their byte positions |
| `LeafCache` | LRU cache of leaves of one file, used by concurrent searches | heap objects are numbers, with who owns them |
| `Journal` | record ring, buffer, synchronize, recover, `flush_and_commit`, crash, as built with `ENABLE_JOURNAL` | records are numbered; superblock in dm-bufio and on the device |
| `Layout` | region sizes, `calc_avail_sectors`, constructor, format, crash, reload | superblock, blocks written by each format |

A step is what a thread does in one critical section, or between two points where
another thread can come in.

`SegmentTables`. The index is `idx`, the newest pba per lba, and `stale`, the
superseded records that compaction will meet; whether a replaced record is still in
the memtable (its block is returned by `lsm_tree_put`) or not (by compaction) is a
free choice. Any number of threads may flush: the flush worker is one thread
(`alloc_workqueue("jindisk-buf", WQ_UNBOUND, 1)`, `segment_buffer.c:337`), and at removal
`segbuf_destroy` flushes beside it. `nr_valid_segment += 1` is a load and a store because nothing protects
it. `Reopen` closes the device, which drains every worker, and opens it: `dst_init`,
`dst_load`, `valid_segment_count`. The uninitialised record that `gc_one_segment`
compares after a failed search may compare either way.

`SegmentBuffer`. `rec[l]` is what the newest record of `l` decrypts to. Blocks whose
record is put and whose data is not on disk yet are in `unwritten`; a read that goes
to disk for one of them gets nothing, and a collector that reads one cannot decrypt it
and drops it (`GcTorn`); the collector does not meet blocks of a segment that is being
flushed as a whole, which is full, but does meet those of threaded logging. Nothing
pins the block of a record that a read has found: once the record is replaced or the
block relocated (`Loosen`), the block may be given to other data before the read gets
to it, and `ReadDisk` may then return nothing. Whether the allocator gives a segment or the
flush falls back on threaded logging is a free choice (SegmentTables models it).

`LsmTree`. The memtable keeps a value and a negative record per key, as
`rbtree_memtable_put` does, and counts both. `lsm_tree_put` is one step up to the
point where it waits for `im_lock` (`Put`, `PutNegative`), and one after it
(`Rotate`). A compaction is cut where it takes `l_lock` to change a level: `MoveAdd`,
`MoveRemove`, `Install`, `DropDemoted`, `DropRelative`, `Minor`. The merge itself
(`MergeFiles`) is one step: it touches no level, and which of two equal keys the heap
yields first is a free choice. In the code a full output is installed while the merge
goes on; the model installs it after the merge, in the same order. Where the code's
behaviour is undefined (a level that does not exist, no file slot, a file without
entries) the job ends in a state of its own and goes no further. Binary searches are
written as the code does them, because during a compaction level 1 is not sorted.

If a minor compaction is still queued when the next memtable is full, `lsm_tree_put`
destroys the immutable memtable unread (`lsm_tree.c:1797`) and its records are gone.
`Rotate` does the same, for any timing of the worker, and counts it in `lost`; `Index`
has an action for it (`Lose`).

The collector's reset of the reverse index, its search and its `put(NULL)` are one step
here (`PutNegative`); `SegmentTables` has them apart.

`BitTree` knows trees of exactly three levels, as `bit_file_build_cached_root` does
(`HeightAssumption`). `LeafCache` names a node after the leaf it was made for; a
reader that uses a freed object records it.

`Journal` models the other build: `ENABLE_JOURNAL` is 0 in the repository, and the
`nop_jops` do nothing. After a reload of a window of one record, as every flush leaves
it, `journal_should_recover` says no and nobody sets `last_sync_record` before
`journal_synchronize` goes by it (`journal.c:251`, `292`). Its value is then a free choice
at its first use (`Sync`): a position of the ring, from which the model goes on as the
code does, or a number outside it (`SynchronizeBeyond`), from which the block count,
cut to an `int`, may be anything. `flush_and_commit` returns whether or not its sync was
complete; `cut` says which. Calls are taken one at a time; nothing in the code orders them.
`flush_and_commit` is reached through `REQ_OP_FLUSH`, which the kernel does not send
to a bio-based target.

`Layout` uses the sizes of the code. What the uninitialised `valid_fields` of the
default build selects is a free choice per table and per set-up.

The `MC...` modules instantiate these. The `...Proofs` modules hold the proofs.

Definitions that end in a suffix such as `_NoWrap` and are commented "Mutant" are
deliberately wrong versions of the definition after them; `PROJECT.json` says which
property each one breaks.

### Hazards as history

Several interleavings of this code lose data. So that the rest can still be checked,
history variables record that one of them has occurred; no action reads them. The
passing properties named `...Unless...` say that nothing else goes wrong:

| Module | Exceptions | In |
|---|---|---|
| `SegmentTables` | threaded logging into a segment that is a victim, free, or in the hands of the collector or of another flush (`logged`); a segment taken twice (`twice`); the collection of a segment that is being filled (`filling`); a late `return_block` (`late`); a block given again to an lba with a superseded record of it (`reuse`); a record replaced before its reverse index was set, which already read as if it were (`unset`) | `LiveUnlessRaced` |
| `SegmentBuffer` | a queued buffer overrun, a cached block that was hidden, a hidden newer record, removal out of order, a logged block collected before it was written, no space; for reads also a read during relocation, a slow read, a block reused before it was read | `KeptUnlessHazard`, `FreshUnlessHazard`, `NoRollback` |
| `RequestQueue` | a completion before the last submission | `CompleteUnlessEarly` |
| `LsmTree` | a record freed before it is copied; level 1 searched while a merge replaces its files; a record and a negative one in an uncached leaf; records the collector hid; a memtable destroyed unread (`lost`) | `FreshUnlessHazard`, `RangeFreshUnlessHazard`, `LiveUnlessLost`, `LeakOnlyNegatedOrLost`; in `IndexSpec` the step `Lose` |
| `LeafCache` | another thread's put since the mutex was released | `UseLiveUnlessRaced` |
| `Journal` | the buffer given away after a failed sync (`dropped`); a sync that goes by a `last_sync_record` nobody set, and wrong (`misled`) | `...UnlessAstray`, `StuckOnlyAstray` |
| `Journal` | the sync of the flush itself stopped at a failed allocation (`cut`) | `CommitKeptUnlessAstray` |
| `Layout` | a crash in a format, a reload that selects the other copy | `OwnFormatUnlessHazard` |

Each exception was seen to be necessary: without it TLC finds the property violated, in
the instance of the run, except for the race `unset`, which costs a block only with a
fourth flush and was tried on an instance of its own.
Two of them, where the repository's own text says otherwise, have a run and a finding
of their own.

## Runs

| Run | Bounds | Shows |
|---|---|---|
| `tables` | 2 segments of 2 blocks, 2 lbas, 2 flushers (symmetric), 3 flushes, 1 reopen; after two flushes races only of one kind and with one flusher busy (`RacesBound`) | type, exact counts, exact victims, no leaked segment, live blocks valid unless raced |
| `buffer` | ring of 2 buffers of 2 blocks, 3 lbas, 4 writes; at most two kinds of hazard (`HazardsBound`) | younger buffers are newer, writes are kept, reads are fresh, records do not roll back |
| `buffer_live` | ring of 2 buffers of 1 block, 2 lbas, 2 writes | a push returns, removal ends |
| `requests` | 2 bios, 1 semaphore unit, 3 ranges per read, 1 I/O error | order, completion, reader count, every bio ends |
| `lsm` | 3 lbas, files of 2 records, 4 puts, 2 hidden records, 1 restart | the tree implements `Index`; live blocks kept and nothing leaked unless a memtable was lost, files and levels in order, slots suffice |
| `lsm_search` | 2 lbas, files of 2 records, 4 puts, 1 hidden record, 3 restarts, one search | stale answers only in the named windows; when level 1 overflows or an output is empty |
| `bittree` | 8 entries of 6 keys, leaves of 2, degree 2 | search, range search and iterator agree with the input; buffer, slot and node bounds |
| `cache` | 2 readers, 3 leaves, capacity 2, ranges of 2 keys, 4 buffers | one owner per leaf, use after free only in a race, LRU order |
| `journal` | 2 segments of 2 blocks of 2 records, 14 records, 1 failure, 3 set-ups | the window is written, unwritten records are buffered, when a sync waits for itself, a flush's commit is in the window and stays |
| `layout` | the code's sizes, devices next to the boundary of every table | maximum size, regions in the device, formats |
| `CachedBlockSurvivesGc` | ring of 2, 3 lbas, 5 writes | violated: a completed write is lost |
| `ReadComplete` | 3 bios, 2 ranges | violated: a read ends before its data is there |

Two segments suffice for every pair of a segment being collected and one being
filled or logged into; two blocks per segment distinguish empty, partial and full;
with two lbas and three flushes every segment is taken, partly returned, logged
into and collected, also across a reopen. A ring of two buffers is the smallest in
which the writer laps the worker; with three lbas a buffer can hold blocks the
next one does not. With files of two records and three lbas a merge has one, two or
no relatives, splits its output, and meets a key twice; closing with a memtable that
is not full makes small files, which is how level 1 fills up. Eight entries are the
capacity of a three-level tree with leaves and nodes of two, so that every shape of
tree, also the full one, is built. Fourteen records let the ring of eight come round,
be reopened after a crash, and be filled on: the buffer may then hold what was read
from the device, records later than the reopened window's (see
`UnsyncedBufferedUnlessAstray`), which eleven records are too few for.
Deadlock checking is off since every workload is finite and the system may then rest.

`RacesBound` and `HazardsBound` only cut off behaviours in which a race or a hazard has
happened: there `LiveUnlessRaced` and the `...UnlessHazard` properties say nothing any more
(but for the three hazards of reads, which `KeptUnlessHazard` allows), and the other
invariants are proved.
The flushing threads may be permuted since no action tells them apart. One failed
allocation in `journal` is enough to give the buffer away, to cut the sync of a flush,
or to go without a checkpoint pack; the proofs have any number.

### Refinement

`LsmTree` implements `Index` (`IndexSpec`): under the mapping `idx[k] = View(k)`, the
record an undisturbed search would find through memtables and levels, every put and
every hiding of a record is a step of `Index`, a rotation that destroys a memtable whose
compaction is still queued is the step `Lose`, and everything else, other rotations,
compaction, closing and opening, is a stutter. While a merge replaces its input,
`View` leaves the input out from the moment the last output is installed.

### Fairness

`SegmentBuffer`: weak fairness of the flush worker (a work that is queued runs, a
running one goes on), of the push that waits for an rwsem nobody holds, and of the
thread that removes the device. Nothing is assumed of new writes, reads or the
collector. `RequestQueue`: weak fairness of the worker, of every reader thread, of
the raw device's answer and of the decryption works; nothing is assumed of new
bios, and an I/O may fail. These are what the Linux workqueue, scheduler and block
layer give.

## Proofs

`SegmentTablesProofs` proves, for every number of segments, blocks per segment,
lbas and flushing threads (`SizesAssumption`: positive sizes):

* `TypeCorrect`: `TypeOK`, from `Typing` (TypeOK, the shape of each thread's locals)
  and `LockShape` (`dst_lock` excludes, and its holder that is about to call
  `svt->take` has a logging segment). `FlShape` is needed because `pba = start + i`
  stays in its segment only if the blocks left fit in the offsets left.
* `CountCorrect`: `CountExact`, inductive with `Typing`.
* `VictimCorrect`: `VictimExact`, inductive with `Typing`.
* `NoLeak`: `NoSegmentLeak`. It is not inductive: a partly valid segment must be
  reachable whether or not it is taken, because the collector clears the SVT after
  the DST. The invariant is `Typing`, `LockShape`, `CountExact`, `PartialReachable`
  and `EmptyReachable`.

`TableStep` and `OutsideStep` reduce every action to one of eight changes of the
three tables, so that the invariants are checked per change and not per action.

`RequestQueueProofs` proves, for every set of bios, number of readers, ranges and
failures (`RequestAssumption`):

* `RequestTypes`: `TypeOK`.
* `WritesBeforeReads`: `WritesFirst`. The invariant `Order` says where an arrived bio
  is: ended or handed to a reader, then the worker's list, then the deferred list, in
  the order of arrival.
* `ReadsComplete`: `CompleteUnlessEarly`. The invariant `Counts` relates `wait_cnt`
  to the I/Os in flight, being decrypted and failed, and the completion's count to
  them.
* `ReadersBounded`: `ReadersCounted`. The invariant `Readers` also says that the set of
  active readers is finite, since the set of bios need not be.

The second half of `SegmentTablesProofs` proves `LiveCorrect`: `LiveUnlessRaced`, for every
number of flushing threads, segments, blocks and lbas, without a hypothesis.
`LiveInv` says that until the first race the state is `Sound`: the tables agree
(`TablesAgree`); the collector's place says what is known of the segment it holds, and
past its check no flush is filling it (`GcHolds`); a live block, a block that a superseded
record still names and a block on its way back each have their bit and no other user
(`LiveHeld`, `DoomedHeld`, `ReturningHeld`), and the collector, which works from a copy of
the bitmap, has still to visit it (`Unvisited`); a segment just taken is empty and one
flusher's (`Allocated`); and the blocks a flush has been given and has not put a record
for are its own (`OwnHeld`). A live block may be `Named` by the reverse index, by the flush
that is about to set it, or by the collector that has just reset it.

`SegmentBufferProofs` proves, for every ring, buffer size, set of lbas and number of
writes:

* `BufferTypes`: `TypeOK`; `YoungerNewer`: `YoungerIsNewer`, inductive with `Places`
  (what a thread's place says about its locals and the phase), `Owned` (a payload
  belongs to one lba and is no later than its latest write) and `Sorted`.
* `BufferInvariant`: `IInv`, which adds, until the first hazard, that full buffers are
  flushed in the order they filled and removal begins with none left (`Queue`), that
  what is still to be flushed is at least as new as the record and as the block the
  collector carries (`Ahead`), that an lba cached at all is cached with its last write
  (`Cached`), that a record whose data is not on disk has its block in the buffer
  being flushed (`Backed`), and `WriteKept`.
* `WritesKept`: `KeptUnlessHazard`; `RecordsNewer`: the action property `NoRollback`;
  `ReadsFresh`: `FreshUnlessHazard`, with `Reading`, what a read that has looked in
  the index and not yet in the buffers can still find.

`LayoutProofs` proves, for every device and all sizes (`LayoutAssumption`; the journal
has at least one segment, 16 in `journal.h:22`):

* `LayoutAgrees`: the start of the data region that `superblock_init` computes region
  by region is what `calc_metadata_blocks` adds up.
* `DataRegionInDevice`: `DataInDevice`. The invariant keeps `Room`, that the size check
  of the constructor held, for the superblock in memory and for the one on the
  device, which a reload trusts.
* `LayoutTypes`: `TypeOK`.
* `AvailMaximum`: `AvailIsMaximum` whenever `avail <= real`. `ProbeInv` says that the
  size accepted so far is a whole number of segments and fits and that, once the step
  is zero, one more segment does not fit; the total is monotone in their number. The condition is the code's: past the end of
  the device the unsigned `real - avail` wraps and the probe counts as a fit. No
  device of the run gets there.
* `OwnFormat`: `OwnFormatUnlessHazard`. `FormatInv` follows which blocks each table's
  format has written, although two of them write a block too many.

`LeafCacheProofs` proves, for any number of readers, leaves, buffers and any capacity:

* `CacheInvariant`: `IInv`: no two nodes share a key, a leaf or an identity (`Apart`),
  every live leaf has its owner (`Owner`), what an unraced reader is about to touch
  belongs to the cache (`Pinned`), and the list is the front of the
  order of use (`Lru`).
* `LeavesOwned`: `OneOwner`; `ReadsLive`: `UseLiveUnlessRaced`; `LruOrder`: `LruExact`.

`JournalProofs` proves, for every ring of at least two segments of at least two
records (`JournalAssumption`; with one segment the properties fail, the code has 16):

* `StuckAstray`: `StuckOnlyAstray`; `CommitKept`: `CommitKeptUnlessAstray`, both from
  `JournalInvariant`, `misled \/ IInv`: nothing is claimed once a sync has gone by a value
  nobody set, and until then `j.lastSync` is where the unwritten records begin, also
  while `unset` says that the code's variable need not be. `IInv` leaves the contents of the buffer open. `Tail`
  says where `last_sync_record` may be: in the segment of the buffer and not ahead of
  `record_end`, from which `SyncCounts` follows: the signed block count is positive
  and a sync that fails stops inside the tail. `Behind` says that only a failure
  leaves the tail at the end of its segment, `Clean` that with nothing unwritten the
  superblock is the region's, `Due`, in terms of `Holds`, that a flush that returned and was
  not cut has its record last in the window or before a later one, and a settled one
  also on the device.
* `ContentInvariant`: `misled \/ CInv`, the contents of the buffer and of the device, for as long
  as the buffer was not given away. Record numbers grow around the ring from the end of
  a superblock (`Ordered`, by `Dist`). A superblock, in memory or on the device, is
  `Sound` and `OnDisk`, for its window and for the block of its end before it (`Wide`):
  a reload reads that block back and goes on writing into it. `Buffered` is what makes
  it inductive: a sync writes whole blocks, among them positions of an older window
  and positions where the ring has come round, so for each of the three superblocks in
  play (the device's, dm-bufio's, and the one the region would write) the buffer has
  its record or a later one, and past its end something later than all of it.
  `TailHeld` and `RestWritten` split the window at `last_sync_record`: the tail is in
  the buffer, from the start of its first block since a sync that fails goes back to
  it, and the rest is on the device.
* From it `WindowWritten`: `WindowWrittenUnlessAstray`; `UnsyncedBuffered`:
  `UnsyncedBufferedUnlessAstray`.

`BitTreeProofs` proves `NodesInPlace`: `NodesPlaced`, for every leaf length, degree,
capacity, node and buffer size that give a tree of three levels. `Growing` says that
until the tree is complete it is `Balanced`: the numbers of leaves and of the nodes
above them give what waits at each level and where the next node goes. `ThreeLevels`
computes `calculate_bit_size` for three levels, from the loops of `__bit_height` and
`__bit_array_len`: that these end, and what they count, is an induction, done with
the least number principle (`Least`, from `NatLessThanWellFounded`).

`FileReads`: `FileReadsBack`, for the same sizes. Its second inductive invariant,
`Filled`, says what the nodes hold. A span `<<pos, lo, hi>>` says that the node at `pos`
has the entries `lo + 1 .. hi` below it: `LeafSpans`, and level by level `MidSpans` and
`RootSpans`, whose children are a `Chain` of spans, one after the other, each with the key of
its last entry. While the file grows, the full leaves are a list along `next_pos`
(`Linked`) and the nodes that wait for a parent span them, or the root does (`Grown`);
`FullTree` says that the root is only built early when the file is full, so nothing is
added after it. Once complete, the root spans all entries and the list has them all
(`Threaded`). `ChainFinds` is a step of the search: the first child whose key is not
smaller than the one looked for spans its first entry. That the iterator follows
the list to its end (`IterateReads`) is an induction, again with `Least`.

What the proof attempts changed: `UnsyncedBufferedUnlessAstray` was stated as "the
buffer holds the record added", which is false once the ring has come round before a
crash, and held only because the run added too few records; `JournalAssumption` and
`LayoutAssumption` lacked the lower bounds named above.

`LsmTreeProofs` proves, for every number of lbas, capacity of a file, size of the data
region and number of puts, restarts and searches (`LsmAssumption`; the data region has
a block for every lba), and for any timing of the worker:

* `Invariance`: `Inv`. `MemOK` says the memtables' sizes are exact and when a put waits;
  `DiskTypes` and `CountsOK` that the levels and the job name slots in use and how many
  there are; `LevelsOK` and `FilesOK` that no file is in two places, that the
  files of level 1 and the written output of a merge have disjoint ranges of keys (`AllApart`) and fit
  their slots; `JobOK` what a merge's place says about its input and output;
  `VersionsOK` that what is in level 0, and the next file written, is newer than level 1.
* From it `TreeTypes`: `TypeOK`; `LevelsInOrder`: `LevelsOrdered`; `VersionsInOrder`:
  `VersionsOrdered`; `SlotsEnough`: `SlotsSuffice`.

They rest on lemmas about the operators, for every level and file: where
`bit_level_search_file` puts a file and `bit_level_lower_bound` starts
(`InsertPlace`, `LowerBoundIs`: the searches are recursive functions, and what they
compute is shown by the least number principle); that `bit_level_find_relative_files`
finds every file that overlaps; that the merge adds per key one value or nothing; and how many files
its output fills (`MergeFits`): no more than the input, plus the slots `__extra_bit` adds.

What the tree holds is proved on top of it, with the contents of the files:

* `ViewInvariance`: `ViewInv`, which adds to `Inv` that the output of a merge has, per
  key, the value of the demoted file or else of the merged file of level 1, and leaves
  out only keys whose record is negative alone (`MergeOut`), and that once the immutable
  memtable is written the file of level 0 has its entries (`Backed`).
* `TreeIsIndex`: `Spec => IndexSpec`. What the levels answer for a key is stated as a
  relation between key and value (`Shows`), since between two steps of a merge a key may
  be in an input and an output at once; each step of a compaction keeps it by `MergeOut`,
  dropping the immutable memtable keeps it by `Backed`, and only a put, or a memtable
  dropped while its work is queued, changes it.
* `LiveBlocksKept`: `LiveUnlessLost`. Needs `Order`: of one lba the records in the memtable,
  the immutable memtable, level 0 and level 1 are numbered downwards, so that what a
  merge or a put gives back is older than what `View` finds.
* `BlocksNamed`: `LeakOnlyNegatedOrLost`. Needs `NoNeg` (without hiding there is no negative
  record), `MergeKept` (a record of the input that was not given back is in the output)
  and `Leaks`.
* `UndefinedWhen`: `UndefinedOnlyIf`, by counting: if every file of level 1 is full,
  their disjoint keys would be more than the lbas (`FullKeys`); and a merge without
  hidden records puts a key into every file it opens (`BuilderUsed`).
* `SearchFresh`: `FreshUnlessHazard`. A search looks at the memtables and the levels one
  lock at a time, and a rotation or a compaction may carry its record past it. The
  invariant is `Ahead`: from the place where the search is now, what it has yet to look
  at still holds one of the answers it may give. Every step of every other thread keeps it
  (`AheadNext`): a rotation and a minor compaction move records down, towards the search,
  and a merge leaves the demoted file in level 0 until its output is installed. While the
  output is being installed level 1 may lack the newest record (`BelowIn`), which is the
  window the property excludes. Outside it level 1 is sorted, also after a merge that
  stopped at an empty output (`EmptyApart`), and `bit_level_locate_file` finds the only
  file that has the key (`LocateFinds`).
* `RangeFresh`: `RangeFreshUnlessHazard`, with the same `Ahead` for each key still
  missing, and for each key found that its record is an answer (`RgOK`);
  `RangeOverResult` says what the loop over the missing keys of level 1 finds.

None of them assumes when the worker runs: until `lost` counts a first time at most one
compaction is queued or runs (`Queue`), and the invariants about contents are claimed
until then.

Every safety invariant that a passing run checks is stated by a theorem. Only
model-checked: all liveness, since TLAPS does not handle fairness here.

## Not modelled

Failures of kernel memory allocation, except in the journal, and of metadata I/O;
reads and writes of less than a block; encryption, checksums and key derivation;
`valid_fields_lock` of a journal that is compiled out, which `jindisk_do_write` takes at
`dm-jindisk.c:363` although nothing in the default build initialises it;
the statistics, sysfs and ioctl interfaces, which hold no state the data depends on;
the copies of the tables that `add_checkpoint_pack_record` writes, which nothing
reads back; concurrent `journal_add_record`, which no lock orders, so that no
property would hold; `sa_foreground_gc`, `dst_take_block`, `lru_cache_delete`,
`rbtree_memtable_remove` and `contains`, which have no caller; the user-space tools.

Known and without a property: the counter `nr_valid_segment` loses updates
(`segment_allocator.c:194`; the model has them, and only the moment a collection
starts depends on it); a target of fewer than 320 segments is never collected, since
the threshold is an unsigned difference (`segment_allocator.h:11`);
`bit_file_search_leaf` leaks its node when the key is outside the file
(`lsm_tree.c:579`); `record_end` of the journal is advanced under no lock
(`journal.c:387`).

The composition of `SegmentTables` and `SegmentBuffer`, which would show that the
preserved segments keep a flush from running out of space, is not built: both modules
leave the choice open instead, so that their properties hold either way.

## Open

The composition named above, and liveness of collection.
