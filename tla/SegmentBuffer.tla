--------------------------- MODULE SegmentBuffer ---------------------------
(***************************************************************************)
(* The segment buffer: a ring of POOL_SIZE write buffers that is also the  *)
(* read cache, the workqueue that flushes full buffers, and everything     *)
(* that moves data through it: writes, reads, the collector's relocations  *)
(* and the flush of the current buffer when the device is removed.         *)
(*                                                                         *)
(* A payload is the number of the write that produced it; 0 stands for no  *)
(* data.  The layer below is the index as the buffer uses it: the payload  *)
(* that the newest record of an lba decrypts to (see SegmentTables for     *)
(* where blocks are placed).                                               *)
(***************************************************************************)
EXTENDS Integers, Sequences, FiniteSets, FiniteSetsExt

CONSTANTS
  PoolSize,          \* POOL_SIZE
  BlocksPerSegment,  \* BLOCKS_PER_SEGMENT: blocks that fill a buffer
  NrLba,             \* logical blocks of the device
  MaxWrite           \* bound: blocks written in a behaviour

ASSUME PoolAssumption ==
  /\ PoolSize \in Nat \ {0, 1}
  /\ BlocksPerSegment \in Nat \ {0}
  /\ NrLba \in Nat \ {0}
  /\ MaxWrite \in Nat

NoBuffer == -1
Pool == 0 .. PoolSize - 1
Lbas == 0 .. NrLba - 1
Payload == 0 .. MaxWrite            \* 0: no data
Threads == {"worker", "closer"}     \* the two callers of segbuf_flush_bios

VARIABLES
  buffer,      \* per buffer and lba, the block in its rb tree, or 0
  cur_buffer,  \* the buffer that takes writes
  rotating,    \* whose push holds `lock` and waits for rw_lock[cur_buffer]
  wq,          \* bufferio works queued and not started (one runs at a time)
  fl,          \* per thread: its place in segbuf_flush_bios
  rec,         \* payload of the newest record of each lba, 0 if negative
  gc,          \* the block the collector is relocating
  rd,          \* the read in progress
  phase,       \* "open", then segbuf_destroy: "flush", "drain", "closed"
  (* history, read by no action *)
  latest,      \* last payload written to each lba
  writes,      \* number of the last write
  hazards      \* what has happened that may cost a write

pool == <<buffer, cur_buffer, rotating, wq>>
history == <<latest, writes>>
vars == <<pool, fl, rec, gc, rd, phase, history, hazards>>

Causes == {"overrun", "full", "cached", "negated", "late", "closing",
           "gc_closing", "gc_torn", "gc_read", "slow_read", "reused"}

IdleFlush == [buf |-> NoBuffer, mode |-> "segment", pos |-> -1, unwritten |-> {}]
IdleGc == [pc |-> "idle", lba |-> 0, payload |-> 0]
IdleRd == [pc |-> "idle", lba |-> 0, payload |-> 0, torn |-> FALSE,
           loose |-> FALSE, start |-> 0]

Empty == [l \in Lbas |-> 0]

Init ==
  /\ buffer = [b \in Pool |-> Empty]
  /\ cur_buffer = 0
  /\ rotating = "no"
  /\ wq = <<>>
  /\ fl = [t \in Threads |-> IdleFlush]
  /\ rec = Empty
  /\ gc = IdleGc
  /\ rd = IdleRd
  /\ phase = "open"
  /\ latest = Empty
  /\ writes = 0
  /\ hazards = {}

----------------------------------------------------------------------------
(* The ring.                                                               *)

Rotating == rotating # "no"

(* Mutant: the index does not wrap around.                                 *)
NextBuffer_NoWrap(b) == b + 1

NextBuffer(b) == (b + 1) % PoolSize
Age(b) == (cur_buffer + PoolSize - b) % PoolSize  \* 0 for the current one
Blocks(b) == {l \in Lbas : buffer[b][l] # 0}
Holders(l) == {b \in Pool : buffer[b][l] # 0}

(* Mutant: the scan goes from the oldest buffer on.                        *)
Newest_Oldest(l) == CHOOSE b \in Holders(l) : \A c \in Holders(l) : Age(b) >= Age(c)

(* query_block and the collector's scan go from the newest buffer back.    *)
Newest(l) == CHOOSE b \in Holders(l) : \A c \in Holders(l) : Age(b) <= Age(c)

Running(t) == fl[t].buf # NoBuffer
Rest(t) == {l \in Blocks(fl[t].buf) : l > fl[t].pos}

(* The block of l in buffer b is still going to be put in the index.       *)
WillFlush(b, l) ==
  \/ b = cur_buffer /\ ~Rotating /\ phase = "open"
  \/ \E i \in 1 .. Len(wq) : wq[i] = b
  \/ \E t \in Threads : fl[t].buf = b /\ l \in Rest(t)

(* Nothing pins the block of a record that a read has found: from now on   *)
(* the block of l with payload v may be given to other data.               *)
Loosen(l, v) ==
  rd' = IF rd.pc \in {"query", "disk"} /\ rd.lba = l /\ rd.payload = v /\ v # 0
        THEN [rd EXCEPT !.loose = TRUE] ELSE rd

----------------------------------------------------------------------------
(* segbuf_push_block.  The lock is held from the start to the end; if the  *)
(* block fills the buffer, its flush is queued and the push goes on to     *)
(* recycle the next buffer, for which it needs that buffer's rw_lock.  A   *)
(* workqueue that destroy_workqueue is draining accepts no work.           *)

AddBlock(who, l, v) ==
  LET full == Cardinality(Blocks(cur_buffer) \cup {l}) >= BlocksPerSegment
  IN /\ buffer' = [buffer EXCEPT ![cur_buffer][l] = v]
     /\ wq' = IF full /\ phase # "drain" THEN Append(wq, cur_buffer) ELSE wq
     /\ cur_buffer' = IF full THEN NextBuffer(cur_buffer) ELSE cur_buffer
     /\ rotating' = IF full THEN who ELSE "no"

(* A block of a write bio, which is completed once it is pushed.           *)
WriteBlock(l) ==
  /\ phase = "open"
  /\ ~Rotating
  /\ writes < MaxWrite
  /\ AddBlock("write", l, writes + 1)
  /\ writes' = writes + 1
  /\ latest' = [latest EXCEPT ![l] = writes + 1]
  /\ UNCHANGED <<fl, rec, gc, rd, phase, hazards>>

(* Mutant: the buffer is recycled without taking its rw_lock.              *)
Rotate_NoLock ==
  /\ Rotating
  /\ buffer' = [buffer EXCEPT ![cur_buffer] = Empty]
  /\ rotating' = "no"
  /\ hazards' = hazards
       \cup (IF \E i \in 1 .. Len(wq) : wq[i] = cur_buffer THEN {"overrun"} ELSE {})
  /\ UNCHANGED <<cur_buffer, wq, fl, rec, gc, rd, phase, history>>

(* down_write(rw_lock[cur]): only the worker takes that lock, and only     *)
(* once it has started; a buffer whose work is still queued is destroyed.  *)
Rotate ==
  /\ Rotating
  /\ fl["worker"].buf # cur_buffer
  /\ buffer' = [buffer EXCEPT ![cur_buffer] = Empty]
  /\ rotating' = "no"
  /\ hazards' = hazards
       \cup (IF \E i \in 1 .. Len(wq) : wq[i] = cur_buffer THEN {"overrun"} ELSE {})
       \cup (IF rd.pc = "query" /\ buffer[cur_buffer][rd.lba] # 0
             THEN {"slow_read"} ELSE {})
  /\ UNCHANGED <<cur_buffer, wq, fl, rec, gc, rd, phase, history>>

----------------------------------------------------------------------------
(* segbuf_flush_bios, run by the worker under rw_lock[index] held for      *)
(* reading and by segbuf_destroy under no lock.  With a segment from the   *)
(* allocator all records are put first and the data is written at the      *)
(* end; by threaded logging each block is put and written in turn.         *)

StartFlush(t, b) ==
  \/ /\ Blocks(b) = {}                \* size 0: return at once
     /\ UNCHANGED fl
  \/ /\ Blocks(b) # {}
     /\ \E m \in {"segment", "logging"} :
          fl' = [fl EXCEPT ![t] = [IdleFlush EXCEPT !.buf = b, !.mode = m]]

(* Mutant: the queue is served last in, first out.                         *)
bufferio_handler_Lifo ==
  /\ ~Running("worker")
  /\ wq # <<>>
  /\ StartFlush("worker", wq[Len(wq)])
  /\ wq' = SubSeq(wq, 1, Len(wq) - 1)
  /\ UNCHANGED <<buffer, cur_buffer, rotating, rec, gc, rd, phase, history, hazards>>

bufferio_handler ==
  /\ ~Running("worker")
  /\ wq # <<>>
  /\ StartFlush("worker", Head(wq))
  /\ wq' = Tail(wq)
  /\ UNCHANGED <<buffer, cur_buffer, rotating, rec, gc, rd, phase, history, hazards>>

(* The next block in lba order, read from the live tree; the block of the  *)
(* record it replaces is given back, at once or by a later compaction.     *)
FlushPut(t) ==
  LET l == Min(Rest(t))
      v == buffer[fl[t].buf][l]
  IN /\ Running(t)
     /\ Rest(t) # {}
     /\ fl[t].mode = "logging" => fl[t].unwritten = {}
     /\ rec' = [rec EXCEPT ![l] = v]
     /\ fl' = [fl EXCEPT ![t].pos = l, ![t].unwritten = @ \cup {v}]
     /\ Loosen(l, rd.payload)
     /\ UNCHANGED <<pool, gc, phase, history, hazards>>

(* find_logging_block found no room: the block is skipped.                 *)
FlushSkip(t) ==
  /\ Running(t)
  /\ Rest(t) # {}
  /\ fl[t].mode = "logging"
  /\ fl[t].unwritten = {}
  /\ fl' = [fl EXCEPT ![t].pos = Min(Rest(t))]
  /\ hazards' = hazards \cup {"full"}
  /\ UNCHANGED <<pool, rec, gc, rd, phase, history>>

(* The data of t's records is on disk, for a read that found one too.      *)
Landed(t) == rd' = [rd EXCEPT !.torn = @ /\ rd.payload \notin fl[t].unwritten]

(* jindisk_write_blocks of one logged block.                               *)
FlushWrite(t) ==
  /\ Running(t)
  /\ fl[t].mode = "logging"
  /\ fl[t].unwritten # {}
  /\ fl' = [fl EXCEPT ![t].unwritten = {}]
  /\ Landed(t)
  /\ UNCHANGED <<pool, rec, gc, phase, history, hazards>>

(* Mutant: the return after threaded logging keeps the rw_lock.            *)
FlushEnd_KeepsLock(t) ==
  /\ Running(t)
  /\ Rest(t) = {}
  /\ fl[t].mode = "segment"
  /\ fl' = [fl EXCEPT ![t] = IdleFlush]
  /\ Landed(t)
  /\ UNCHANGED <<pool, rec, gc, phase, history, hazards>>

(* The end: in a whole segment the data is written now.                    *)
FlushEnd(t) ==
  /\ Running(t)
  /\ Rest(t) = {}
  /\ fl[t].mode = "logging" => fl[t].unwritten = {}
  /\ fl' = [fl EXCEPT ![t] = IdleFlush]
  /\ Landed(t)
  /\ UNCHANGED <<pool, rec, gc, phase, history, hazards>>

flush_bios(t) == FlushPut(t) \/ FlushSkip(t) \/ FlushWrite(t) \/ FlushEnd(t)

----------------------------------------------------------------------------
(* gc_one_segment relocates the block of one lba.                          *)

Unwritten == UNION {fl[t].unwritten : t \in Threads}

(* The record it finds is the one of the block it collects; a segment that *)
(* is being flushed as a whole is full in the DST and so no victim, one    *)
(* that is being logged into may be.                                       *)
GcSearch(l) ==
  /\ gc.pc = "idle"
  /\ rec[l] # 0
  /\ \A t \in Threads : fl[t].mode = "segment" => rec[l] \notin fl[t].unwritten
  /\ gc' = [pc |-> "negate", lba |-> l, payload |-> rec[l]]
  /\ UNCHANGED <<pool, fl, rec, rd, phase, history, hazards>>

GcNegate ==
  /\ gc.pc = "negate"
  /\ rec' = [rec EXCEPT ![gc.lba] = 0]
  /\ gc' = [gc EXCEPT !.pc = "push"]
  /\ hazards' = IF rec[gc.lba] # gc.payload THEN hazards \cup {"negated"} ELSE hazards
  /\ UNCHANGED <<pool, fl, rd, phase, history>>

(* The block was read before its data was written and does not decrypt: it *)
(* is not pushed.                                                          *)
GcTorn ==
  /\ gc.pc = "push"
  /\ gc.payload \in Unwritten
  /\ gc' = IdleGc
  /\ Loosen(gc.lba, gc.payload)
  /\ hazards' = hazards \cup {"gc_torn"}
  /\ UNCHANGED <<pool, fl, rec, phase, history>>

(* push_block with rflag false: some buffer has the lba, so it is taken to *)
(* be newer and the copy is dropped.                                       *)
GcDrop ==
  /\ gc.pc = "push"
  /\ gc.payload \notin Unwritten
  /\ ~Rotating
  /\ phase # "closed"
  /\ Holders(gc.lba) # {}
  /\ gc' = IdleGc
  /\ hazards' = IF WillFlush(Newest(gc.lba), gc.lba) THEN hazards
                ELSE hazards \cup {"cached"}
  /\ Loosen(gc.lba, gc.payload)
  /\ UNCHANGED <<pool, fl, rec, phase, history>>

(* Mutant: only the current buffer is searched for newer data.             *)
GcPush_CurrentOnly ==
  /\ gc.pc = "push"
  /\ ~Rotating
  /\ phase # "closed"
  /\ buffer[cur_buffer][gc.lba] = 0
  /\ AddBlock("gc", gc.lba, gc.payload)
  /\ gc' = IdleGc
  /\ UNCHANGED <<fl, rec, rd, phase, history, hazards>>

GcPush ==
  /\ gc.pc = "push"
  /\ gc.payload \notin Unwritten
  /\ ~Rotating
  /\ phase # "closed"
  /\ Holders(gc.lba) = {}
  /\ AddBlock("gc", gc.lba, gc.payload)
  /\ gc' = IdleGc
  /\ hazards' = hazards
       \cup (IF latest[gc.lba] # gc.payload THEN {"late"} ELSE {})
       \cup (IF phase # "open" THEN {"gc_closing"} ELSE {})
  /\ Loosen(gc.lba, gc.payload)
  /\ UNCHANGED <<fl, rec, phase, history>>

(* The buffers have been freed: what is pushed into them is gone.          *)
GcFreed ==
  /\ gc.pc = "push"
  /\ phase = "closed"
  /\ gc' = IdleGc
  /\ hazards' = hazards \cup {"gc_closing"}
  /\ UNCHANGED <<pool, fl, rec, rd, phase, history>>

Gc == \/ \E l \in Lbas : GcSearch(l)
      \/ GcNegate \/ GcTorn \/ GcDrop \/ GcPush \/ GcFreed

----------------------------------------------------------------------------
(* jindisk_do_read of one block: the index first, the buffers second, and  *)
(* only then the disk.                                                     *)

ReadSearch(l) ==
  /\ phase = "open"
  /\ rd.pc = "idle"
  /\ rd' = [pc |-> "query", lba |-> l, payload |-> rec[l],
            torn |-> rec[l] \in Unwritten, loose |-> FALSE, start |-> latest[l]]
  /\ hazards' = IF gc.pc = "push" /\ gc.lba = l THEN hazards \cup {"gc_read"} ELSE hazards
  /\ UNCHANGED <<pool, fl, rec, gc, phase, history>>

query_block ==
  /\ rd.pc = "query"
  /\ ~Rotating
  /\ rd' = IF Holders(rd.lba) # {}
           THEN [rd EXCEPT !.pc = "done", !.loose = FALSE,
                           !.payload = buffer[Newest(rd.lba)][rd.lba]]
           ELSE [rd EXCEPT !.pc = "disk"]
  /\ UNCHANGED <<pool, fl, rec, gc, phase, history, hazards>>

(* A record whose data has not reached the disk, or whose block holds other*)
(* data by now, does not decrypt: that is logged and the bio ends well.    *)
ReadDisk ==
  /\ rd.pc = "disk"
  /\ \E reused \in {FALSE, rd.loose} :
       /\ rd' = [rd EXCEPT !.pc = "done", !.loose = FALSE,
                           !.payload = IF rd.torn \/ reused THEN 0 ELSE @]
       /\ hazards' = IF reused THEN hazards \cup {"reused"} ELSE hazards
  /\ UNCHANGED <<pool, fl, rec, gc, phase, history>>

ReadEnd ==
  /\ rd.pc = "done"
  /\ rd' = IdleRd
  /\ UNCHANGED <<pool, fl, rec, gc, phase, history, hazards>>

Read == (\E l \in Lbas : ReadSearch(l)) \/ query_block \/ ReadDisk \/ ReadEnd

----------------------------------------------------------------------------
(* segbuf_destroy, when no request is left: flush the current buffer, then *)
(* let the workqueue run dry, then free the buffers.  The collector's      *)
(* timer is stopped only afterwards.                                       *)

DestroyFlush ==
  /\ phase = "open"
  /\ rd.pc = "idle"
  /\ rotating # "write"
  /\ phase' = "flush"
  /\ StartFlush("closer", cur_buffer)
  /\ hazards' = hazards
       \cup (IF Running("worker") \/ wq # <<>> THEN {"closing"} ELSE {})
       \cup (IF gc.pc # "idle" \/ Rotating THEN {"gc_closing"} ELSE {})
  /\ UNCHANGED <<pool, rec, gc, rd, history>>

DestroyDrain ==
  /\ phase = "flush"
  /\ ~Running("closer")
  /\ phase' = "drain"
  /\ UNCHANGED <<pool, fl, rec, gc, rd, history, hazards>>

DestroyFree ==
  /\ phase = "drain"
  /\ ~Running("worker")
  /\ wq = <<>>
  /\ buffer' = [b \in Pool |-> Empty]
  /\ phase' = "closed"
  /\ UNCHANGED <<cur_buffer, rotating, wq, fl, rec, gc, rd, history, hazards>>

Destroy == DestroyFlush \/ DestroyDrain \/ DestroyFree

Worker == bufferio_handler \/ flush_bios("worker")
Closer == flush_bios("closer") \/ DestroyDrain \/ DestroyFree

Next ==
  \/ \E l \in Lbas : WriteBlock(l)
  \/ Rotate
  \/ bufferio_handler
  \/ \E t \in Threads : flush_bios(t)
  \/ Gc
  \/ Read
  \/ Destroy

Spec == Init /\ [][Next]_vars

(* The kernel runs a queued work, grants a free rwsem and lets the thread  *)
(* that removes the device go on.                                          *)
Fairness == WF_vars(Worker) /\ WF_vars(Rotate) /\ WF_vars(Closer)
FairSpec == Spec /\ Fairness

----------------------------------------------------------------------------
(* Properties.                                                             *)

(* Buffers, threads and requests have the types of their declarations.     *)
TypeOK ==
  /\ buffer \in [Pool -> [Lbas -> Payload]]
  /\ cur_buffer \in Pool
  /\ rotating \in {"no", "write", "gc"}
  /\ wq \in Seq(Pool)
  /\ fl \in [Threads -> [buf : Pool \cup {NoBuffer}, mode : {"segment", "logging"},
                         pos : Lbas \cup {-1}, unwritten : SUBSET Payload]]
  /\ rec \in [Lbas -> Payload]
  /\ gc \in [pc : {"idle", "negate", "push"}, lba : Lbas, payload : Payload]
  /\ rd \in [pc : {"idle", "query", "disk", "done"}, lba : Lbas,
             payload : Payload, torn : BOOLEAN, loose : BOOLEAN, start : Payload]
  /\ phase \in {"open", "flush", "drain", "closed"}
  /\ latest \in [Lbas -> Payload]
  /\ writes \in Payload
  /\ hazards \subseteq Causes

(* Of two buffers that hold the same lba the younger one holds the later   *)
(* write, so the scan of query_block, which stops at the first hit, finds  *)
(* the newest buffered block.                                              *)
YoungerIsNewer ==
  ~Rotating => \A l \in Lbas : \A b, c \in Holders(l) :
    Age(b) < Age(c) => buffer[b][l] > buffer[c][l]

(* The last write to l is in the index, in the collector's hands, or in a  *)
(* buffer that is still going to be flushed.                               *)
Kept(l) ==
  \/ latest[l] = 0
  \/ rec[l] = latest[l]
  \/ gc.pc = "push" /\ gc.lba = l /\ gc.payload = latest[l]
  \/ \E b \in Holders(l) : buffer[b][l] = latest[l] /\ WillFlush(b, l)

WriteKept == \A l \in Lbas : Kept(l)
ReadHazards == {"gc_read", "slow_read", "reused"}

(* Unless one of the known hazards has occurred, no completed write is     *)
(* ever lost, whatever the interleaving of writes, flushes, relocations    *)
(* and removal.                                                            *)
KeptUnlessHazard == hazards \subseteq ReadHazards => WriteKept

(* A finished read returns data at least as new as the last write that was *)
(* completed when it began.                                                *)
ReadFresh == rd.pc = "done" => rd.payload >= rd.start
FreshUnlessHazard == hazards = {} => ReadFresh

(* As long as no known hazard has occurred, a step that is not the         *)
(* collector hiding a record never replaces the newest record of an lba by *)
(* one of an older write: buffers are flushed in the order they filled.    *)
NoRollback ==
  [][hazards' = {} => \A l \in Lbas : rec'[l] = 0 \/ rec'[l] >= rec[l]]_vars

(* A push that waits for the next buffer gets it: the writer never waits   *)
(* for the worker for ever.                                                *)
PushReturns == Rotating ~> ~Rotating

(* Once removal has begun every buffer is flushed and freed.               *)
RemovalEnds == (phase = "flush") ~> (phase = "closed")

----------------------------------------------------------------------------
(* The project's promise that reads are up to date needs KeptUnlessHazard  *)
(* without its exceptions; the property below allows one back, alone.      *)

(* A relocated block whose lba is still cached in an already flushed       *)
(* buffer must not be lost: gc_one_segment hides its record, and           *)
(* push_block takes the cached copy for a newer one and drops the block.   *)
CachedBlockSurvivesGc ==
  phase = "open" /\ hazards \subseteq {"cached"} \cup ReadHazards => WriteKept
=============================================================================
