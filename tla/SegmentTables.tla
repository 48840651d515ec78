--------------------------- MODULE SegmentTables ---------------------------
(***************************************************************************)
(* The data-region bookkeeping of dm-jindisk: the segment validity table   *)
(* (SVT), the data segment table (DST) with its victim tree and its        *)
(* logging segment, the reverse index table (RIT), the segment allocator,  *)
(* the garbage collector, and the two users of these tables that race with *)
(* it: the threads that flush a segment buffer and the index's compaction. *)
(*                                                                         *)
(* A step is what a thread does inside one critical section (svt_lock,     *)
(* dst_lock, rit_lock, m_lock) or between two of them.  A physical block   *)
(* address is the pair <<segment, offset>> that __block_to_segment and     *)
(* __block_offset_whthin_segment compute from it.                          *)
(***************************************************************************)
EXTENDS Integers, FiniteSets, FiniteSetsExt

CONSTANTS
  NrSegment,         \* segments of the data region (svt->nr_segment)
  BlocksPerSegment,  \* BLOCKS_PER_SEGMENT
  NrLba,             \* logical blocks the workload writes
  Flushers,          \* threads that may be inside segbuf_flush_bios
  GcThreshold,       \* BACKGROUND_GC_THRESHOLD
  GcTarget,          \* LEAST_CLEAN_SEGMENT_ONCE * BLOCKS_PER_SEGMENT
  MaxFlush,          \* bound: buffers flushed in a behaviour
  MaxReopen          \* bound: times the device is closed and opened again

ASSUME SizesAssumption ==
  /\ NrSegment \in Nat \ {0}
  /\ BlocksPerSegment \in Nat \ {0}
  /\ NrLba \in Nat \ {0}
  /\ GcThreshold \in Nat
  /\ GcTarget \in Nat \ {0}
  /\ MaxFlush \in Nat
  /\ MaxReopen \in Nat

INF == -1                           \* INF_ADDR, outside every table
Segments == 0 .. NrSegment - 1
Offsets == 0 .. BlocksPerSegment - 1
Lbas == 0 .. NrLba - 1
Pbas == Segments \X Offsets
NoPba == <<INF, INF>>               \* the pba of a negative or missing record

(* struct dst_entry: the count of valid blocks and the bitmap, kept apart. *)
Entry == [nr : 0 .. BlocksPerSegment, map : SUBSET Offsets]
EmptyEntry == [nr |-> 0, map |-> {}]
FullEntry == [nr |-> BlocksPerSegment, map |-> Offsets]

(* A victim is a copy of its segment's entry; NoVictim: node_list[s] NULL. *)
NoVictim == [nr |-> INF, map |-> {}]

VARIABLES
  svt,               \* segments whose validity bit is set
  cur_segment,       \* where seg_validator_next starts to scan
  nr_valid_segment,  \* the allocator's unlocked count of valid segments
  dst,               \* the data segment table
  victims,           \* per segment, its node in the victim tree
  logging_segno,     \* segment that threaded logging fills, or INF
  rit,               \* reverse index: pba -> lba
  idx,               \* newest index record: lba -> pba
  stale,             \* superseded <<lba, pba>> records compaction will meet
  fl,                \* per flusher: its place in segbuf_flush_bios
  gc,                \* the collector's place in sa_background_gc
  cp,                \* block compaction is about to return, or NoPba
  flushes,           \* buffers flushed so far
  reopens,           \* times the device was reopened
  (* history, read by no action *)
  forgotten,         \* taken segments dst_load gave no victim at the last open
  hazards            \* the races so far that may cost a live block its bit

tables == <<svt, cur_segment, nr_valid_segment, dst, victims, logging_segno>>
index == <<rit, idx, stale>>
history == <<flushes, reopens, forgotten, hazards>>
vars == <<tables, index, fl, gc, cp, history>>

----------------------------------------------------------------------------
FlPc == {"idle", "next", "take", "fill", "put", "return", "set",
         "log", "relog", "logtake", "account"}
GcPc == {"idle", "pop", "check", "reset", "search", "negate", "return",
         "clear", "load", "store"}

FlState == [pc : FlPc, mode : {"segment", "logging"}, seg : Segments \cup {INF},
            off : 0 .. BlocksPerSegment, todo : SUBSET Lbas,
            old : Pbas \cup {NoPba}, tmp : Int]
GcState == [pc : GcPc, seg : Segments \cup {INF}, nr : Int,
            todo : SUBSET Offsets, lba : Lbas \cup {INF}, count : Nat, clean : Nat, tmp : Int]

IdleFl == [pc |-> "idle", mode |-> "segment", seg |-> INF, off |-> 0,
           todo |-> {}, old |-> NoPba, tmp |-> 0]
IdleGc == [pc |-> "idle", seg |-> INF, nr |-> 0, todo |-> {}, lba |-> INF,
           count |-> 0, clean |-> 0, tmp |-> 0]

(* The races that may cost a live block its bit, each recorded in the step *)
(* that completes it: threaded logging takes a block of a segment somebody *)
(* else has a claim on (logged); a segment is taken that is taken already  *)
(* (twice); the collector goes on with a segment a flush is filling        *)
(* (filling), or empties one with a block on its way back (late); a record *)
(* is put whose superseded twin compaction will still meet (reuse), or     *)
(* replaces one whose RIT entry is not set yet but reads as if (unset).    *)
Races == {"logged", "twice", "filling", "late", "reuse", "unset"}

(* Every table of a formatted device holds zeroes, the RIT too: until a    *)
(* block is written its entry reads as lba 0.                              *)
Init ==
  /\ svt = {}
  /\ cur_segment = 0
  /\ nr_valid_segment = 0
  /\ dst = [s \in Segments |-> EmptyEntry]
  /\ victims = [s \in Segments |-> NoVictim]
  /\ logging_segno = INF
  /\ rit = [p \in Pbas |-> 0]
  /\ idx = [l \in Lbas |-> NoPba]
  /\ stale = {}
  /\ fl = [f \in Flushers |-> IdleFl]
  /\ gc = IdleGc
  /\ cp = NoPba
  /\ flushes = 0
  /\ reopens = 0
  /\ forgotten = {}
  /\ hazards = {}

(* find_logging_block keeps dst_lock over its retries; lsm_tree_put keeps  *)
(* m_lock until the block of the record it replaced is returned.           *)
DstLocked == {"relog", "logtake", "account"}
DstUnlocked == \A f \in Flushers : fl[f].pc \notin DstLocked
MUnlocked == \A f \in Flushers : fl[f].pc # "return"

(* The collector is working on s and will give it back.                    *)
InGc(s) ==
  /\ gc.seg = s
  /\ gc.pc \in {"check", "reset", "search", "negate", "return", "clear"}

(* A flush is writing records for blocks of s.                             *)
Putting == {"put", "return", "set"}
Filling(s) == \E f \in Flushers : fl[f].pc \in Putting /\ fl[f].seg = s

(* The record of block p is in the index and its flush has still to set    *)
(* the RIT.                                                                *)
Unset(p) == \E f \in Flushers : fl[f].pc = "set" /\ p = <<fl[f].seg, fl[f].off>>

(* History: the race h happens in this step if it is so.                   *)
Race(h, so) == hazards' = IF so THEN hazards \cup {h} ELSE hazards

----------------------------------------------------------------------------
(* Segment validity table.                                                 *)

(* Mutant: the scan runs one bit past the end.                             *)
FreeSegments_PastEnd == (0 .. NrSegment) \ svt

FreeSegments == Segments \ svt

(* The segment seg_validator_next stops at: the scan goes from cur_segment *)
(* to the end and then once from 0.                                        *)
NextSegment ==
  LET ahead == {s \in FreeSegments : s >= cur_segment}
  IN Min(IF ahead # {} THEN ahead ELSE FreeSegments)

seg_validator_take(s) ==
  /\ svt' = svt \cup {s}
  /\ cur_segment' = cur_segment + 1

(* Data segment table.                                                     *)

VictimSet == {s \in Segments : victims[s] # NoVictim}
DestroyVictim(s) == victims' = [victims EXCEPT ![s] = NoVictim]

(* Mutant: an empty segment is no victim either.                           *)
VictimOf_NoEmpty(e) ==
  IF e.nr >= BlocksPerSegment \/ e.nr = 0 THEN NoVictim ELSE e

(* dst_update_victim: a full segment is no victim.                         *)
VictimOf(e) == IF e.nr >= BlocksPerSegment THEN NoVictim ELSE e

(* Mutant: the count is decremented even if the bit was clear.             *)
ClearBlock_Always(e, o) == [nr |-> e.nr - 1, map |-> e.map \ {o}]

(* test_and_clear_bit, and the count only if the bit was set.              *)
ClearBlock(e, o) ==
  IF o \in e.map THEN [nr |-> e.nr - 1, map |-> e.map \ {o}] ELSE e

(* Mutant: a segment that is a victim already keeps its old node.          *)
dst_return_block_OldNode(p) ==
  LET s == p[1]
      e == ClearBlock(dst[s], p[2])
  IN IF dst[s].nr = 0
     THEN UNCHANGED <<dst, victims>>
     ELSE /\ dst' = [dst EXCEPT ![s] = e]
          /\ victims' = IF victims[s] # NoVictim THEN victims
                        ELSE [victims EXCEPT ![s] = VictimOf(e)]

dst_return_block(p) ==
  LET s == p[1]
      e == ClearBlock(dst[s], p[2])
  IN IF dst[s].nr = 0
     THEN UNCHANGED <<dst, victims>>
     ELSE /\ dst' = [dst EXCEPT ![s] = e]
          /\ victims' = [victims EXCEPT ![s] = VictimOf(e)]

dst_return_segment(s) ==
  /\ dst' = [dst EXCEPT ![s] = EmptyEntry]
  /\ DestroyVictim(s)

(* The block find_logging_block takes: the first zero bit.                 *)
TakeBlock(e, o) == [nr |-> e.nr + 1, map |-> e.map \cup {o}]

(* dst_load: the victim tree of a device just opened.                      *)
dst_load(s) == IF dst[s].nr # 0 THEN VictimOf(dst[s]) ELSE NoVictim

----------------------------------------------------------------------------
(* segbuf_flush_bios, one flusher.  The buffer holds at most one block per *)
(* offset of a segment; which blocks, and whether it is full, is free.     *)

At(f, pc) == fl[f].pc = pc
Goto(f, pc) == fl' = [fl EXCEPT ![f].pc = pc]

FlushStart(f) ==
  /\ At(f, "idle")
  /\ flushes < MaxFlush
  /\ \E batch \in SUBSET Lbas :
       /\ batch # {}
       /\ Cardinality(batch) <= BlocksPerSegment
       /\ fl' = [fl EXCEPT ![f] = [IdleFl EXCEPT !.pc = "next", !.todo = batch]]
  /\ flushes' = flushes + 1
  /\ UNCHANGED <<tables, index, gc, cp, reopens, forgotten, hazards>>

(* sa_alloc, first call: svt->next.  With no free segment the flush falls  *)
(* back on threaded logging.                                               *)
AllocNext(f) ==
  /\ At(f, "next")
  /\ IF FreeSegments # {}
     THEN /\ cur_segment' = NextSegment
          /\ fl' = [fl EXCEPT ![f].pc = "take", ![f].seg = NextSegment]
     ELSE /\ cur_segment' = NrSegment
          /\ fl' = [fl EXCEPT ![f].pc = "log", ![f].mode = "logging"]
  /\ UNCHANGED <<svt, nr_valid_segment, dst, victims, logging_segno, index,
                 gc, cp, history>>

(* svt->take, and the load half of nr_valid_segment += 1.                  *)
AllocTake(f) ==
  /\ At(f, "take")
  /\ seg_validator_take(fl[f].seg)
  /\ fl' = [fl EXCEPT ![f].pc = "fill", ![f].tmp = nr_valid_segment]
  /\ Race("twice", fl[f].seg \in svt)
  /\ UNCHANGED <<nr_valid_segment, dst, victims, logging_segno, index, gc, cp,
                 flushes, reopens, forgotten>>

(* The store half, then dst->take_segment, refused if the entry has blocks.*)
AllocFill(f) ==
  LET s == fl[f].seg
  IN /\ At(f, "fill")
     /\ DstUnlocked
     /\ nr_valid_segment' = fl[f].tmp + 1
     /\ IF dst[s].nr = 0
        THEN /\ dst' = [dst EXCEPT ![s] = FullEntry]
             /\ DestroyVictim(s)
             /\ Goto(f, "put")
        ELSE /\ UNCHANGED <<dst, victims>>
             /\ fl' = [fl EXCEPT ![f].pc = "log", ![f].mode = "logging"]
     /\ UNCHANGED <<svt, cur_segment, logging_segno, index, gc, cp, history>>

(* lsm_tree->put of the record of the first block not yet written.  If the *)
(* replaced record is still in the memtable its block is returned, when    *)
(* the RIT agrees; otherwise compaction meets that record later.           *)
Put(f) ==
  LET l == Min(fl[f].todo)
      p == <<fl[f].seg, fl[f].off>>
      old == idx[l]
  IN /\ At(f, "put")
     /\ MUnlocked
     /\ idx' = [idx EXCEPT ![l] = p]
     /\ \/ /\ old = NoPba
           /\ UNCHANGED <<rit, stale>>
           /\ Goto(f, "set")
        \/ /\ old # NoPba               \* not in the memtable any more
           /\ stale' = stale \cup {<<l, old>>}
           /\ UNCHANGED rit
           /\ Goto(f, "set")
        \/ /\ old # NoPba               \* in the memtable, RIT disagrees
           /\ rit[old] # l
           /\ UNCHANGED <<rit, stale>>
           /\ Goto(f, "set")
        \/ /\ old # NoPba               \* in the memtable, RIT agrees
           /\ rit[old] = l
           /\ rit' = [rit EXCEPT ![old] = INF]
           /\ UNCHANGED stale
           /\ fl' = [fl EXCEPT ![f].pc = "return", ![f].old = old]
     /\ hazards' = hazards
                     \cup {h \in {"reuse"} : <<l, p>> \in stale}
                     \cup {h \in {"unset"} : old # NoPba /\ rit[old] = l /\ Unset(old)}
     /\ UNCHANGED <<tables, gc, cp, flushes, reopens, forgotten>>

(* dst->return_block of the replaced record, still under m_lock.           *)
ReturnOld(f) ==
  /\ At(f, "return")
  /\ DstUnlocked
  /\ dst_return_block(fl[f].old)
  /\ fl' = [fl EXCEPT ![f].pc = "set", ![f].old = NoPba]
  /\ UNCHANGED <<svt, cur_segment, nr_valid_segment, logging_segno, index, gc,
                 cp, history>>

(* After a block: the next one, or the end of the flush.                   *)
Advance(f, pc) ==
  LET r == fl[f]
      rest == r.todo \ {Min(r.todo)}
      more == [r EXCEPT !.pc = pc, !.todo = rest,
                        !.off = IF pc = "put" THEN r.off + 1 ELSE r.off]
  IN fl' = [fl EXCEPT ![f] = IF rest = {} THEN IdleFl ELSE more]

(* rit->set, only after the record is in the index.                        *)
SetRit(f) ==
  /\ At(f, "set")
  /\ rit' = [rit EXCEPT ![<<fl[f].seg, fl[f].off>>] = Min(fl[f].todo)]
  /\ Advance(f, IF fl[f].mode = "segment" THEN "put" ELSE "log")
  /\ UNCHANGED <<tables, idx, stale, gc, cp, history>>

----------------------------------------------------------------------------
(* dst_find_logging_block, called by segbuf_threaded_logging per block.    *)
(* "log" is its entry; from then on it keeps dst_lock (DstLocked).         *)

Logging(f) == At(f, "relog") \/ (At(f, "log") /\ DstUnlocked)
NoRoom(e) == e.nr >= BlocksPerSegment \/ e.map = Offsets

(* The logging segment is full: give it up and retry.                      *)
LogLeave(f) ==
  /\ Logging(f)
  /\ logging_segno # INF
  /\ NoRoom(dst[logging_segno])
  /\ DestroyVictim(logging_segno)
  /\ logging_segno' = INF
  /\ Goto(f, "relog")
  /\ UNCHANGED <<svt, cur_segment, nr_valid_segment, dst, index, gc, cp, history>>

(* rb_last: a victim with most valid blocks becomes the logging segment.   *)
LogPickVictim(f) ==
  /\ Logging(f)
  /\ logging_segno = INF
  /\ \E v \in VictimSet :
       /\ \A u \in VictimSet : victims[u].nr <= victims[v].nr
       /\ logging_segno' = v
       /\ DestroyVictim(v)
  /\ Goto(f, "relog")
  /\ UNCHANGED <<svt, cur_segment, nr_valid_segment, dst, index, gc, cp, history>>

(* No victim: svt->next names the next logging segment ...                 *)
LogPickFree(f) ==
  /\ Logging(f)
  /\ logging_segno = INF
  /\ VictimSet = {}
  /\ FreeSegments # {}
  /\ logging_segno' = NextSegment
  /\ cur_segment' = NextSegment
  /\ Goto(f, "logtake")
  /\ UNCHANGED <<svt, nr_valid_segment, dst, victims, index, gc, cp, history>>

(* ... svt->take marks it, and the counter is loaded and stored.           *)
LogTake(f) ==
  /\ At(f, "logtake")
  /\ seg_validator_take(logging_segno)
  /\ fl' = [fl EXCEPT ![f].pc = "account", ![f].tmp = nr_valid_segment]
  /\ Race("twice", logging_segno \in svt)
  /\ UNCHANGED <<nr_valid_segment, dst, victims, logging_segno, index, gc, cp,
                 flushes, reopens, forgotten>>

LogAccount(f) ==
  /\ At(f, "account")
  /\ nr_valid_segment' = fl[f].tmp + 1
  /\ Goto(f, "relog")
  /\ UNCHANGED <<svt, cur_segment, dst, victims, logging_segno, index, gc, cp,
                 history>>

(* Neither a victim nor a free segment: the block is skipped.              *)
LogFail(f) ==
  /\ Logging(f)
  /\ logging_segno = INF
  /\ VictimSet = {}
  /\ FreeSegments = {}
  /\ cur_segment' = NrSegment
  /\ Advance(f, "log")
  /\ UNCHANGED <<svt, nr_valid_segment, dst, victims, logging_segno, index, gc,
                 cp, history>>

(* Somebody else has a claim on s: the collector holds it or may pick it,  *)
(* it is free, or another flush is about to fill it.                       *)
Contested(s) ==
  \/ InGc(s)
  \/ victims[s] # NoVictim
  \/ s \notin svt
  \/ \E f \in Flushers : fl[f].pc = "fill" /\ fl[f].seg = s

(* Take the first free block; the victim tree is not told.                 *)
LogTakeBlock(f) ==
  LET s == logging_segno
      o == Min(Offsets \ dst[s].map)
  IN /\ Logging(f)
     /\ s # INF
     /\ ~NoRoom(dst[s])
     /\ dst' = [dst EXCEPT ![s] = TakeBlock(dst[s], o)]
     /\ fl' = [fl EXCEPT ![f].pc = "put", ![f].seg = s, ![f].off = o]
     /\ Race("logged", Contested(s))
     /\ UNCHANGED <<svt, cur_segment, nr_valid_segment, victims, logging_segno,
                    index, gc, cp, flushes, reopens, forgotten>>

find_logging_block(f) ==
  \/ LogLeave(f) \/ LogPickVictim(f) \/ LogPickFree(f) \/ LogTake(f)
  \/ LogAccount(f) \/ LogFail(f) \/ LogTakeBlock(f)

----------------------------------------------------------------------------
(* sa_background_gc and gc_one_segment.                                    *)

GcAt(pc) == gc.pc = pc

(* nr_valid_segment is a size_t: below zero it is a huge count.            *)
AboveThreshold == nr_valid_segment \notin 0 .. GcThreshold - 1

GcStart ==
  /\ GcAt("idle")
  /\ AboveThreshold
  /\ gc' = [IdleGc EXCEPT !.pc = "pop"]
  /\ UNCHANGED <<tables, index, fl, cp, history>>

(* rb_first: a victim with fewest valid blocks leaves the tree with the    *)
(* bitmap it was inserted with.  No victim ends the collection.            *)
GcPop ==
  /\ GcAt("pop")
  /\ DstUnlocked
  /\ \/ /\ VictimSet = {}
        /\ gc' = IdleGc
        /\ UNCHANGED victims
     \/ \E v \in VictimSet :
          /\ \A u \in VictimSet : victims[v].nr <= victims[u].nr
          /\ gc' = [gc EXCEPT !.pc = "check", !.seg = v, !.nr = victims[v].nr,
                              !.todo = victims[v].map, !.count = 0]
          /\ DestroyVictim(v)
  /\ UNCHANGED <<svt, cur_segment, nr_valid_segment, dst, logging_segno, index,
                 fl, cp, history>>

(* An empty victim goes straight to the end; only then is the victim       *)
(* compared with the logging segment, which no lock keeps still.           *)
GcCheck ==
  /\ GcAt("check")
  /\ gc' = IF gc.nr = 0 THEN [gc EXCEPT !.pc = "return"]
           ELSE IF gc.seg = logging_segno
           THEN [IdleGc EXCEPT !.pc = "pop", !.clean = gc.clean]
           ELSE [gc EXCEPT !.pc = "reset"]
  /\ Race("filling", gc'.seg = gc.seg /\ Filling(gc.seg))
  /\ UNCHANGED <<tables, index, fl, cp, flushes, reopens, forgotten>>

GcBlock == <<gc.seg, Min(gc.todo)>>
GcSkip == [gc EXCEPT !.pc = "reset", !.todo = gc.todo \ {Min(gc.todo)},
                     !.lba = INF]

(* rit->reset with INF_ADDR: read the owner and forget it.                 *)
GcReset ==
  /\ GcAt("reset")
  /\ IF gc.todo = {}
     THEN /\ gc' = [gc EXCEPT !.pc = "return"]
          /\ UNCHANGED rit
     ELSE /\ gc' = [gc EXCEPT !.pc = "search", !.lba = rit[GcBlock]]
          /\ rit' = [rit EXCEPT ![GcBlock] = INF]
  /\ UNCHANGED <<tables, idx, stale, fl, cp, history>>

(* Mutant: the comparison with the newest record is inverted.              *)
GcSearch_Inverted ==
  /\ GcAt("search")
  /\ MUnlocked
  /\ gc' = IF gc.lba # INF /\ idx[gc.lba] # GcBlock
           THEN [gc EXCEPT !.pc = "negate"]
           ELSE GcSkip
  /\ UNCHANGED <<tables, index, fl, cp, history>>

(* lsm_tree->search of the owner: is the block still its newest one?  A    *)
(* search that finds no record leaves `old` uninitialised, and the         *)
(* comparison may come out either way.                                     *)
GcSearch ==
  /\ GcAt("search")
  /\ MUnlocked
  /\ \/ /\ gc.lba # INF
        /\ idx[gc.lba] \in {GcBlock, NoPba}
        /\ gc' = [gc EXCEPT !.pc = "negate"]
     \/ /\ gc.lba # INF => idx[gc.lba] # GcBlock
        /\ gc' = GcSkip
  /\ UNCHANGED <<tables, index, fl, cp, history>>

(* lsm_tree->put(lba, NULL): whatever record is the newest by now is       *)
(* hidden and its block is not returned.  Then the block is copied to the  *)
(* segment buffer (SegmentBuffer models what becomes of it) and counted if *)
(* it decrypts.                                                            *)
GcNegate ==
  /\ GcAt("negate")
  /\ MUnlocked
  /\ idx' = [idx EXCEPT ![gc.lba] = NoPba]
  /\ \E copied \in {0, 1} : gc' = [GcSkip EXCEPT !.count = gc.count + copied]
  /\ UNCHANGED <<tables, rit, stale, fl, cp, history>>

(* Blocks some thread has decided to return and not returned yet.          *)
Returning == {fl[f].old : f \in Flushers} \cup {cp}

GcReturnSegment ==
  /\ GcAt("return")
  /\ DstUnlocked
  /\ dst_return_segment(gc.seg)
  /\ gc' = [gc EXCEPT !.pc = "clear"]
  /\ Race("late", \E p \in Returning : p[1] = gc.seg)
  /\ UNCHANGED <<svt, cur_segment, nr_valid_segment, logging_segno, index, fl,
                 cp, flushes, reopens, forgotten>>

(* svt->test_and_return.                                                   *)
GcClear ==
  /\ GcAt("clear")
  /\ svt' = svt \ {gc.seg}
  /\ gc' = [gc EXCEPT !.pc = "load"]
  /\ UNCHANGED <<cur_segment, nr_valid_segment, dst, victims, logging_segno,
                 index, fl, cp, history>>

(* nr_valid_segment -= 1, under no lock the flushers take.                 *)
GcLoad ==
  /\ GcAt("load")
  /\ gc' = [gc EXCEPT !.pc = "store", !.tmp = nr_valid_segment]
  /\ UNCHANGED <<tables, index, fl, cp, history>>

GcStore ==
  /\ GcAt("store")
  /\ nr_valid_segment' = gc.tmp - 1
  /\ gc' = IF gc.clean + gc.count >= GcTarget THEN IdleGc
           ELSE [IdleGc EXCEPT !.pc = "pop", !.clean = gc.clean + gc.count]
  /\ UNCHANGED <<svt, cur_segment, dst, victims, logging_segno, index, fl, cp,
                 history>>

Gc == \/ GcStart \/ GcPop \/ GcCheck \/ GcReset \/ GcSearch \/ GcNegate
      \/ GcReturnSegment \/ GcClear \/ GcLoad \/ GcStore

----------------------------------------------------------------------------
(* compaction_job_run meets a superseded record.                           *)

CompactReset ==
  /\ cp = NoPba
  /\ \E r \in stale :
       /\ stale' = stale \ {r}
       /\ \/ /\ rit[r[2]] = r[1]
             /\ rit' = [rit EXCEPT ![r[2]] = INF]
             /\ cp' = r[2]
          \/ /\ rit[r[2]] # r[1]        \* the block has another owner
             /\ UNCHANGED <<rit, cp>>
          \/ /\ idx[r[1]] = NoPba       \* merged with a negative record
             /\ UNCHANGED <<rit, cp>>
  /\ UNCHANGED <<tables, idx, fl, gc, history>>

CompactReturn ==
  /\ cp # NoPba
  /\ DstUnlocked
  /\ dst_return_block(cp)
  /\ cp' = NoPba
  /\ UNCHANGED <<svt, cur_segment, nr_valid_segment, logging_segno, index, fl,
                 gc, history>>

----------------------------------------------------------------------------
(* The device is closed, which drains every worker, and opened again.      *)
Reopen ==
  /\ reopens < MaxReopen
  /\ \A f \in Flushers : At(f, "idle")
  /\ GcAt("idle")
  /\ cp = NoPba
  /\ cur_segment' = 0
  /\ nr_valid_segment' = Cardinality(svt)
  /\ victims' = [s \in Segments |-> dst_load(s)]
  /\ logging_segno' = INF
  /\ reopens' = reopens + 1
  /\ forgotten' = {s \in svt : dst[s].nr = 0}
  /\ UNCHANGED <<svt, dst, index, fl, gc, cp, flushes, hazards>>

Flush(f) == \/ FlushStart(f) \/ AllocNext(f) \/ AllocTake(f) \/ AllocFill(f)
            \/ Put(f) \/ ReturnOld(f) \/ SetRit(f) \/ find_logging_block(f)

Next == \/ \E f \in Flushers : Flush(f)
        \/ Gc
        \/ CompactReset \/ CompactReturn
        \/ Reopen

Spec == Init /\ [][Next]_vars

----------------------------------------------------------------------------
(* Properties.                                                             *)

(* Every table and every thread's local state has the type its C           *)
(* declaration and its bounds give it.                                     *)
TypeOK ==
  /\ svt \subseteq Segments
  /\ cur_segment \in Nat
  /\ nr_valid_segment \in Int
  /\ dst \in [Segments -> Entry]
  /\ victims \in [Segments -> Entry \cup {NoVictim}]
  /\ logging_segno \in Segments \cup {INF}
  /\ rit \in [Pbas -> Lbas \cup {INF}]
  /\ idx \in [Lbas -> Pbas \cup {NoPba}]
  /\ stale \subseteq Lbas \X Pbas
  /\ fl \in [Flushers -> FlState]
  /\ gc \in GcState
  /\ cp \in Pbas \cup {NoPba}
  /\ flushes \in Nat
  /\ reopens \in Nat
  /\ forgotten \subseteq Segments
  /\ hazards \subseteq Races

(* nr_valid_block of a data segment table entry always equals the number   *)
(* of bits set in its bitmap, whatever mix of take_segment,                *)
(* find_logging_block, return_block (also of a block already returned) and *)
(* return_segment has run.                                                 *)
CountExact == \A s \in Segments : dst[s].nr = Cardinality(dst[s].map)

(* A victim other than the logging segment carries exactly the entry its   *)
(* segment has now: the collector never works from an outdated bitmap      *)
(* unless the segment is being logged into.                                *)
VictimExact ==
  \A s \in Segments \ {logging_segno} : victims[s] \in {NoVictim, dst[s]}

(* No segment is lost while the device is open: one that is marked taken   *)
(* is full, a victim, the logging segment, in the collector's hands, in    *)
(* the hands of a thread that is allocating it, or was already forgotten   *)
(* when the device was opened.                                             *)
NoSegmentLeak ==
  \A s \in svt :
    \/ dst[s].nr = BlocksPerSegment
    \/ victims[s] # NoVictim
    \/ s = logging_segno
    \/ InGc(s)
    \/ \E f \in Flushers : fl[f].pc = "fill" /\ fl[f].seg = s
    \/ s \in forgotten

(* A block that the newest record of some lba points to is valid in its    *)
(* segment's bitmap, its segment is taken, and no other lba has it.        *)
LiveBlockValid ==
  \A l \in Lbas : idx[l] # NoPba =>
    /\ idx[l][2] \in dst[idx[l][1]].map
    /\ idx[l][1] \in svt
    /\ \A m \in Lbas : idx[m] = idx[l] => m = l

(* As long as none of the races of Races has occurred, whatever the        *)
(* flushers, the collector and compaction did between them, threaded       *)
(* logging included, every live block is valid, taken and unshared.        *)
LiveUnlessRaced == hazards = {} => LiveBlockValid
============================================================================
