------------------------ MODULE SegmentTablesProofs ------------------------
(***************************************************************************)
(* Proofs about SegmentTables, for every number of segments, blocks per    *)
(* segment, logical blocks and flushing threads.                           *)
(***************************************************************************)
EXTENDS SegmentTables, FiniteSetTheorems, WellFoundedInduction, TLAPS

----------------------------------------------------------------------------
(* The shape of each thread's local state, which typing rests on.          *)

(* A flusher past its start has blocks left; it has a segment and an       *)
(* offset when it is about to use them; and what is left of the buffer     *)
(* fits in what is left of an allocated segment.                           *)
FlShape(r) ==
  /\ r.pc # "idle" => r.todo # {}
  /\ r.pc \in {"take", "fill", "put", "return", "set"} => r.seg \in Segments
  /\ r.pc \in {"put", "return", "set"} => r.off \in Offsets
  /\ r.pc \in {"next", "take", "fill"} => r.mode = "segment" /\ r.off = 0
  /\ r.pc \in {"log", "relog", "logtake", "account"} => r.mode = "logging"
  /\ r.pc = "return" => r.old \in Pbas
  /\ r.mode = "segment" =>
       r.off + Cardinality(r.todo) <= BlocksPerSegment

GcShape ==
  /\ gc.pc \notin {"idle", "pop"} => gc.seg \in Segments
  /\ gc.pc \in {"search", "negate"} => gc.todo # {}
  /\ gc.pc = "negate" => gc.lba \in Lbas

(* dst_lock has one holder, and a holder about to take the logging segment *)
(* has one.                                                                *)
LockShape ==
  \A f \in Flushers : fl[f].pc \in DstLocked =>
    /\ \A g \in Flushers \ {f} : fl[g].pc \notin DstLocked
    /\ fl[f].pc = "logtake" => logging_segno \in Segments

Typing ==
  /\ TypeOK
  /\ \A f \in Flushers : FlShape(fl[f])
  /\ GcShape

(* A non-empty set of naturals has a minimum, and Min names it.            *)
LEMMA MinNat ==
  ASSUME NEW S, S \subseteq Nat, S # {}
  PROVE  Min(S) \in S
<1> DEFINE R == {r \in Nat \X Nat : r[1] < r[2]}
<1>1. IsWellFoundedOn(OpToRel(<, Nat), Nat)
  BY NatLessThanWellFounded
<1>2. OpToRel(<, Nat) = R
  BY DEF OpToRel
<1>3. PICK x \in S : \A y \in S : ~ (<<y, x>> \in R)
  BY <1>1, <1>2, WFMin
<1>4. ASSUME NEW y \in S
      PROVE  x =< y
  <2>1. <<y, x>> \in Nat \X Nat /\ <<y, x>>[1] = y /\ <<y, x>>[2] = x
    OBVIOUS
  <2>2. ~ (y < x)
    BY <1>3, <2>1
  <2> QED
    BY <2>2
<1> QED
  BY <1>4 DEF Min

(* A buffer, a set of lbas, is finite.                                     *)
LEMMA FiniteLbas ==
  ASSUME NEW S \in SUBSET Lbas
  PROVE  IsFiniteSet(S) /\ Cardinality(S) \in Nat
<1>1. IsFiniteSet(Lbas)
  BY SizesAssumption, FS_Interval DEF Lbas
<1> QED
  BY <1>1, FS_Subset, FS_CardinalityType

(* The first block of a non-empty buffer (rb_first) is one of its blocks.  *)
LEMMA MinLbas ==
  ASSUME NEW S \in SUBSET Lbas, S # {}
  PROVE  Min(S) \in S /\ Min(S) \in Lbas
<1>1. S \subseteq Nat
  BY SizesAssumption DEF Lbas
<1> QED
  BY <1>1, MinNat

(* The first bit found in a non-empty bitmap is one of its offsets.        *)
LEMMA MinOffsets ==
  ASSUME NEW S \in SUBSET Offsets, S # {}
  PROVE  Min(S) \in S /\ Min(S) \in Offsets
<1>1. S \subseteq Nat
  BY SizesAssumption DEF Offsets
<1> QED
  BY <1>1, MinNat

(* seg_validator_next stops at a free segment whenever there is one.       *)
LEMMA NextSegmentFree ==
  ASSUME TypeOK, FreeSegments # {}
  PROVE  NextSegment \in FreeSegments /\ NextSegment \in Segments
<1> DEFINE ahead == {s \in FreeSegments : s >= cur_segment}
<1>1. ahead \subseteq Nat /\ FreeSegments \subseteq Nat
  BY SizesAssumption DEF FreeSegments, Segments
<1>2. Min(IF ahead # {} THEN ahead ELSE FreeSegments) \in FreeSegments
  BY <1>1, MinNat
<1> QED
  BY <1>2 DEF NextSegment, FreeSegments

(* The operators on entries keep an entry an entry.                        *)
LEMMA EntryOps ==
  /\ EmptyEntry \in Entry
  /\ FullEntry \in Entry
  /\ NoVictim \notin Entry
  /\ \A e \in Entry : VictimOf(e) \in Entry \cup {NoVictim}
  /\ \A e \in Entry, o \in Offsets : e.nr # 0 => ClearBlock(e, o) \in Entry
  /\ \A e \in Entry, o \in Offsets : ~ NoRoom(e) => TakeBlock(e, o) \in Entry
BY SizesAssumption DEF Entry, EmptyEntry, FullEntry, NoVictim, VictimOf,
  ClearBlock, TakeBlock, NoRoom, Offsets, INF

(* dst_return_block keeps the table and the victim tree well-typed.        *)
LEMMA ReturnBlockType ==
  ASSUME TypeOK, NEW p \in Pbas, dst_return_block(p)
  PROVE  /\ dst' \in [Segments -> Entry]
         /\ victims' \in [Segments -> Entry \cup {NoVictim}]
<1>1. p[1] \in Segments /\ p[2] \in Offsets
  BY DEF Pbas
<1>2. CASE dst[p[1]].nr = 0
  BY <1>2 DEF dst_return_block, TypeOK
<1>3. CASE dst[p[1]].nr # 0
  <2> DEFINE e == ClearBlock(dst[p[1]], p[2])
  <2>1. e \in Entry
    BY <1>1, <1>3, EntryOps DEF TypeOK
  <2>2. VictimOf(e) \in Entry \cup {NoVictim}
    BY <2>1, EntryOps
  <2>3. /\ dst' = [dst EXCEPT ![p[1]] = e]
        /\ victims' = [victims EXCEPT ![p[1]] = VictimOf(e)]
    BY <1>3 DEF dst_return_block
  <2> HIDE DEF e
  <2> QED
    BY <1>1, <2>1, <2>2, <2>3 DEF TypeOK
<1> QED
  BY <1>2, <1>3

----------------------------------------------------------------------------
(* A flusher whose state changes to a well-shaped one.                     *)
LEMMA FlusherStep ==
  ASSUME Typing, NEW f \in Flushers, NEW r \in FlState, FlShape(r),
         fl' = [fl EXCEPT ![f] = r]
  PROVE  /\ fl' \in [Flushers -> FlState]
         /\ \A g \in Flushers : FlShape(fl'[g])
<1>1. fl' \in [Flushers -> FlState]
  BY DEF Typing, TypeOK
<1>2. ASSUME NEW g \in Flushers
      PROVE  FlShape(fl'[g])
  <2>1. CASE g = f
    BY <2>1 DEF Typing, TypeOK
  <2>2. CASE g # f
    BY <2>2 DEF Typing, TypeOK
  <2> QED
    BY <2>1, <2>2
<1> QED
  BY <1>1, <1>2

(* Taking one block out of a buffer.                                       *)
LEMMA RemoveBlock ==
  ASSUME NEW S \in SUBSET Lbas, NEW x \in S
  PROVE  /\ Cardinality(S) \in Nat
         /\ Cardinality(S \ {x}) = Cardinality(S) - 1
         /\ S \ {x} # {} => Cardinality(S \ {x}) >= 1
<1>1. IsFiniteSet(S) /\ Cardinality(S) \in Nat
  BY FiniteLbas
<1>2. IsFiniteSet(S \ {x}) /\ Cardinality(S \ {x}) = Cardinality(S) - 1
  BY <1>1, FS_RemoveElement
<1>3. S \ {x} # {} => Cardinality(S \ {x}) # 0
  BY <1>2, FS_EmptySet
<1>4. Cardinality(S \ {x}) \in Nat
  BY <1>2, FS_CardinalityType
<1> QED
  BY <1>1, <1>2, <1>3, <1>4

(* A thread that has left segbuf_flush_bios.                               *)
LEMMA IdleShape == IdleFl \in FlState /\ FlShape(IdleFl)
<1>1. Cardinality({}) = 0
  BY FS_EmptySet
<1> QED
  BY <1>1, SizesAssumption DEF IdleFl, FlState, FlPc, FlShape, INF

(* Advance ends the flush or moves to a well-shaped state.                 *)
LEMMA AdvanceStep ==
  ASSUME Typing, NEW f \in Flushers, NEW pc \in {"put", "log"}, Advance(f, pc),
         fl[f].pc # "idle",
         pc = "put" => fl[f].mode = "segment" /\ fl[f].seg \in Segments,
         pc = "log" => fl[f].mode = "logging"
  PROVE  /\ fl' \in [Flushers -> FlState]
         /\ \A g \in Flushers : FlShape(fl'[g])
<1> DEFINE r == fl[f]
           rest == r.todo \ {Min(r.todo)}
           more == [r EXCEPT !.pc = pc, !.todo = rest,
                             !.off = IF pc = "put" THEN r.off + 1 ELSE r.off]
<1>1. fl' = [fl EXCEPT ![f] = IF rest = {} THEN IdleFl ELSE more]
  BY DEF Advance
<1>2. /\ r \in FlState
      /\ FlShape(r)
      /\ r.todo \in SUBSET Lbas
      /\ r.todo # {}
  BY DEF Typing, TypeOK, FlShape, FlState
<1>3. Min(r.todo) \in r.todo
  BY <1>2, MinLbas
<1>4. /\ Cardinality(r.todo) \in Nat
      /\ Cardinality(rest) = Cardinality(r.todo) - 1
      /\ rest # {} => Cardinality(rest) >= 1
  BY <1>2, <1>3, RemoveBlock
<1>5. CASE rest = {}
  BY <1>1, <1>5, IdleShape, FlusherStep
<1>6. CASE rest # {}
  <2>1. pc = "put" => r.off + 1 \in Offsets
    BY <1>2, <1>4, <1>6, SizesAssumption DEF FlShape, FlState, Offsets
  <2>2. r.off + 1 \in 0 .. BlocksPerSegment \/ pc = "log"
    BY <2>1, SizesAssumption DEF Offsets
  <2>3. more \in FlState
    BY <1>2, <2>2 DEF FlState, FlPc
  <2>4. /\ more.pc = pc /\ more.todo = rest /\ more.seg = r.seg
        /\ more.mode = r.mode
        /\ more.off = IF pc = "put" THEN r.off + 1 ELSE r.off
    BY <1>2 DEF FlState
  <2>5. FlShape(more)
    <3> HIDE DEF more
    <3> QED
      BY <1>2, <1>4, <1>6, <2>1, <2>4 DEF FlShape, FlState
  <2> QED
    <3> HIDE DEF more
    <3> QED
      BY <1>1, <1>6, <2>3, <2>5, FlusherStep
<1> QED
  BY <1>5, <1>6

----------------------------------------------------------------------------
(* Every action of a flusher keeps Typing.                                 *)
LEMMA FlushTyping ==
  ASSUME Typing, LockShape, NEW f \in Flushers, Flush(f)
  PROVE  Typing'
<1> DEFINE r == fl[f]
<1>0. r \in FlState /\ FlShape(r)
  BY DEF Typing, TypeOK
<1>1. CASE FlushStart(f)
  <2>1. PICK batch \in SUBSET Lbas :
          /\ batch # {}
          /\ Cardinality(batch) <= BlocksPerSegment
          /\ fl' = [fl EXCEPT ![f] = [IdleFl EXCEPT !.pc = "next", !.todo = batch]]
    BY <1>1 DEF FlushStart
  <2> DEFINE new == [IdleFl EXCEPT !.pc = "next", !.todo = batch]
  <2>2. new \in FlState /\ FlShape(new)
    <3>1. Cardinality(batch) \in Nat
      BY FiniteLbas
    <3>2. IdleFl.mode = "segment" /\ IdleFl.off = 0
      BY DEF IdleFl
    <3>3. /\ new \in FlState
          /\ new.pc = "next" /\ new.todo = batch
          /\ new.mode = IdleFl.mode /\ new.off = IdleFl.off
      BY IdleShape DEF FlState, FlPc
    <3> HIDE DEF new
    <3> QED
      BY <2>1, <3>1, <3>2, <3>3, SizesAssumption DEF FlShape
  <2>3. fl' \in [Flushers -> FlState] /\ \A g \in Flushers : FlShape(fl'[g])
    BY <2>1, <2>2, FlusherStep
  <2> QED
    BY <1>1, <2>3 DEF FlushStart, Typing, TypeOK, GcShape, tables, index
<1>2. CASE AllocNext(f)
  <2>1. CASE FreeSegments # {}
    <3> DEFINE new == [r EXCEPT !.pc = "take", !.seg = NextSegment]
    <3>1. fl' = [fl EXCEPT ![f] = new]
      BY <1>2, <2>1 DEF AllocNext
    <3>2. new \in FlState /\ FlShape(new)
      BY <1>0, <1>2, <2>1, NextSegmentFree DEF AllocNext, At, FlState, FlPc, FlShape, Typing
    <3>3. fl' \in [Flushers -> FlState] /\ \A g \in Flushers : FlShape(fl'[g])
      BY <3>1, <3>2, FlusherStep
    <3>4. cur_segment' \in Nat
      BY <1>2, <2>1, NextSegmentFree, SizesAssumption DEF AllocNext, Segments, Typing
    <3> QED
      BY <1>2, <3>3, <3>4 DEF AllocNext, Typing, TypeOK, GcShape, index, history
  <2>2. CASE FreeSegments = {}
    <3> DEFINE new == [r EXCEPT !.pc = "log", !.mode = "logging"]
    <3>1. fl' = [fl EXCEPT ![f] = new]
      BY <1>2, <2>2 DEF AllocNext
    <3>2. new \in FlState /\ FlShape(new)
      BY <1>0, <1>2 DEF AllocNext, At, FlState, FlPc, FlShape
    <3>3. fl' \in [Flushers -> FlState] /\ \A g \in Flushers : FlShape(fl'[g])
      BY <3>1, <3>2, FlusherStep
    <3> QED
      BY <1>2, <2>2, <3>3, SizesAssumption DEF AllocNext, Typing, TypeOK, GcShape, index, history
  <2> QED
    BY <2>1, <2>2
<1>3. CASE AllocTake(f)
  <2> DEFINE new == [r EXCEPT !.pc = "fill", !.tmp = nr_valid_segment]
  <2>1. fl' = [fl EXCEPT ![f] = new]
    BY <1>3 DEF AllocTake
  <2>2. new \in FlState /\ FlShape(new)
    BY <1>0, <1>3 DEF AllocTake, At, FlState, FlPc, FlShape, Typing, TypeOK
  <2>3. fl' \in [Flushers -> FlState] /\ \A g \in Flushers : FlShape(fl'[g])
    BY <2>1, <2>2, FlusherStep
  <2>4. svt' \subseteq Segments /\ cur_segment' \in Nat
    BY <1>0, <1>3 DEF AllocTake, seg_validator_take, At, FlShape, Typing, TypeOK
  <2>5. hazards' \subseteq Races
    BY <1>3 DEF AllocTake, Typing, TypeOK, Race, Races
  <2> QED
    BY <1>3, <2>3, <2>4, <2>5 DEF AllocTake, Typing, TypeOK, GcShape, index, history
<1>4. CASE AllocFill(f)
  <2>1. r.seg \in Segments /\ r.tmp \in Int
    BY <1>0, <1>4 DEF AllocFill, At, FlShape, FlState
  <2>2. /\ dst' \in [Segments -> Entry]
        /\ victims' \in [Segments -> Entry \cup {NoVictim}]
        /\ nr_valid_segment' \in Int
    BY <1>4, <2>1, EntryOps DEF AllocFill, DestroyVictim, Typing, TypeOK
  <2>3. \E new \in FlState : FlShape(new) /\ fl' = [fl EXCEPT ![f] = new]
    <3>1. CASE dst[r.seg].nr = 0
      <4> DEFINE new == [r EXCEPT !.pc = "put"]
      <4>1. new \in FlState /\ FlShape(new)
        BY <1>0, <1>4, SizesAssumption DEF AllocFill, At, FlState, FlPc, FlShape, Offsets
      <4>2. fl' = [fl EXCEPT ![f] = new]
        BY <1>4, <3>1 DEF AllocFill, Goto
      <4> QED
        BY <4>1, <4>2
    <3>2. CASE dst[r.seg].nr # 0
      <4> DEFINE new == [r EXCEPT !.pc = "log", !.mode = "logging"]
      <4>1. new \in FlState /\ FlShape(new)
        BY <1>0, <1>4 DEF AllocFill, At, FlState, FlPc, FlShape
      <4>2. fl' = [fl EXCEPT ![f] = new]
        BY <1>4, <3>2 DEF AllocFill
      <4> QED
        BY <4>1, <4>2
    <3> QED
      BY <3>1, <3>2
  <2>4. fl' \in [Flushers -> FlState] /\ \A g \in Flushers : FlShape(fl'[g])
    BY <2>3, FlusherStep
  <2> QED
    BY <1>4, <2>2, <2>4 DEF AllocFill, Typing, TypeOK, GcShape, index, history
<1>5. CASE Put(f)
  <2> DEFINE l == Min(r.todo)
             p == <<r.seg, r.off>>
             old == idx[l]
  <2>1. l \in Lbas
    BY <1>0, <1>5, MinLbas DEF Put, At, FlShape, FlState
  <2>2. p \in Pbas
    BY <1>0, <1>5 DEF Put, At, FlShape, Pbas
  <2>3. old \in Pbas \cup {NoPba}
    BY <2>1 DEF Typing, TypeOK
  <2>4. idx' \in [Lbas -> Pbas \cup {NoPba}]
    BY <1>5, <2>1, <2>2 DEF Put, Typing, TypeOK
  <2>5. hazards' \subseteq Races
    BY <1>5 DEF Put, Typing, TypeOK, Races
  <2>6. /\ rit' \in [Pbas -> Lbas \cup {INF}]
        /\ stale' \subseteq Lbas \X Pbas
    <3>1. \/ rit' = rit /\ stale' = stale
          \/ old # NoPba /\ rit' = rit /\ stale' = stale \cup {<<l, old>>}
          \/ old # NoPba /\ rit' = [rit EXCEPT ![old] = INF] /\ stale' = stale
      BY <1>5 DEF Put
    <3> HIDE DEF l, old
    <3> QED
      BY <2>1, <2>3, <3>1 DEF Typing, TypeOK
  <2>7. \E new \in FlState : FlShape(new) /\ fl' = [fl EXCEPT ![f] = new]
    <3>1. CASE fl' = [fl EXCEPT ![f].pc = "set"]
      <4> DEFINE new == [r EXCEPT !.pc = "set"]
      <4>1. new \in FlState /\ FlShape(new)
        BY <1>0, <1>5 DEF Put, At, FlState, FlPc, FlShape
      <4> QED
        BY <3>1, <4>1
    <3>2. CASE old # NoPba /\ fl' = [fl EXCEPT ![f].pc = "return", ![f].old = old]
      <4> DEFINE new == [r EXCEPT !.pc = "return", !.old = old]
      <4>1. new \in FlState /\ FlShape(new)
        <5> HIDE DEF old
        <5> QED
          BY <1>0, <1>5, <2>3, <3>2 DEF Put, At, FlState, FlPc, FlShape
      <4> QED
        BY <3>2, <4>1
    <3> QED
      BY <1>5, <3>1, <3>2 DEF Put, Goto
  <2>8. fl' \in [Flushers -> FlState] /\ \A g \in Flushers : FlShape(fl'[g])
    BY <2>7, FlusherStep
  <2> QED
    BY <1>5, <2>4, <2>5, <2>6, <2>8 DEF Put, Typing, TypeOK, GcShape, tables
<1>6. CASE ReturnOld(f)
  <2> DEFINE new == [r EXCEPT !.pc = "set", !.old = NoPba]
  <2>1. fl' = [fl EXCEPT ![f] = new]
    BY <1>6 DEF ReturnOld
  <2>2. new \in FlState /\ FlShape(new)
    BY <1>0, <1>6 DEF ReturnOld, At, FlState, FlPc, FlShape
  <2>3. fl' \in [Flushers -> FlState] /\ \A g \in Flushers : FlShape(fl'[g])
    BY <2>1, <2>2, FlusherStep
  <2>4. r.old \in Pbas /\ dst_return_block(r.old)
    BY <1>0, <1>6 DEF ReturnOld, At, FlShape
  <2>5. /\ dst' \in [Segments -> Entry]
        /\ victims' \in [Segments -> Entry \cup {NoVictim}]
    BY <2>4, ReturnBlockType DEF Typing
  <2> QED
    BY <1>6, <2>3, <2>5 DEF ReturnOld, Typing, TypeOK, GcShape, index, history
<1>7. CASE SetRit(f)
  <2>1. /\ r.pc = "set" /\ r.mode \in {"segment", "logging"}
        /\ r.seg \in Segments
        /\ <<r.seg, r.off>> \in Pbas
    BY <1>0, <1>7 DEF SetRit, At, FlShape, FlState, Pbas
  <2>2. Min(r.todo) \in Lbas
    BY <1>0, <2>1, MinLbas DEF FlShape, FlState
  <2>3. rit' \in [Pbas -> Lbas \cup {INF}]
    BY <1>7, <2>1, <2>2 DEF SetRit, Typing, TypeOK
  <2>4. fl' \in [Flushers -> FlState] /\ \A g \in Flushers : FlShape(fl'[g])
    <3>1. CASE r.mode = "segment"
      BY <1>7, <2>1, <3>1, AdvanceStep DEF SetRit
    <3>2. CASE r.mode = "logging"
      BY <1>7, <2>1, <3>2, AdvanceStep DEF SetRit
    <3> QED
      BY <2>1, <3>1, <3>2
  <2> QED
    BY <1>7, <2>3, <2>4 DEF SetRit, Typing, TypeOK, GcShape, tables, history
<1>8. CASE LogLeave(f)
  <2> DEFINE new == [r EXCEPT !.pc = "relog"]
  <2>1. fl' = [fl EXCEPT ![f] = new]
    BY <1>8 DEF LogLeave, Goto
  <2>2. new \in FlState /\ FlShape(new)
    BY <1>0, <1>8 DEF LogLeave, Logging, At, FlState, FlPc, FlShape
  <2>3. fl' \in [Flushers -> FlState] /\ \A g \in Flushers : FlShape(fl'[g])
    BY <2>1, <2>2, FlusherStep
  <2>4. victims' \in [Segments -> Entry \cup {NoVictim}]
    BY <1>8 DEF LogLeave, DestroyVictim, Typing, TypeOK
  <2> QED
    BY <1>8, <2>3, <2>4 DEF LogLeave, Typing, TypeOK, GcShape, index, history
<1>9. CASE LogPickVictim(f)
  <2> DEFINE new == [r EXCEPT !.pc = "relog"]
  <2>1. fl' = [fl EXCEPT ![f] = new]
    BY <1>9 DEF LogPickVictim, Goto
  <2>2. new \in FlState /\ FlShape(new)
    BY <1>0, <1>9 DEF LogPickVictim, Logging, At, FlState, FlPc, FlShape
  <2>3. fl' \in [Flushers -> FlState] /\ \A g \in Flushers : FlShape(fl'[g])
    BY <2>1, <2>2, FlusherStep
  <2>4. /\ victims' \in [Segments -> Entry \cup {NoVictim}]
        /\ logging_segno' \in Segments
    BY <1>9 DEF LogPickVictim, DestroyVictim, VictimSet, Typing, TypeOK
  <2> QED
    BY <1>9, <2>3, <2>4 DEF LogPickVictim, Typing, TypeOK, GcShape, index, history
<1>10. CASE LogPickFree(f)
  <2> DEFINE new == [r EXCEPT !.pc = "logtake"]
  <2>1. fl' = [fl EXCEPT ![f] = new]
    BY <1>10 DEF LogPickFree, Goto
  <2>2. new \in FlState /\ FlShape(new)
    BY <1>0, <1>10 DEF LogPickFree, Logging, At, FlState, FlPc, FlShape
  <2>3. fl' \in [Flushers -> FlState] /\ \A g \in Flushers : FlShape(fl'[g])
    BY <2>1, <2>2, FlusherStep
  <2>4. NextSegment \in Segments /\ NextSegment \in Nat
    BY <1>10, NextSegmentFree, SizesAssumption DEF LogPickFree, Typing, Segments
  <2>5. cur_segment' \in Nat /\ logging_segno' \in Segments
    BY <1>10, <2>4 DEF LogPickFree
  <2> QED
    BY <1>10, <2>3, <2>5 DEF LogPickFree, Typing, TypeOK, GcShape, index, history
<1>14. CASE LogTake(f)
  <2> DEFINE new == [r EXCEPT !.pc = "account", !.tmp = nr_valid_segment]
  <2>1. fl' = [fl EXCEPT ![f] = new]
    BY <1>14 DEF LogTake
  <2>2. new \in FlState /\ FlShape(new)
    BY <1>0, <1>14 DEF LogTake, At, FlState, FlPc, FlShape, Typing, TypeOK
  <2>3. fl' \in [Flushers -> FlState] /\ \A g \in Flushers : FlShape(fl'[g])
    BY <2>1, <2>2, FlusherStep
  <2>4. logging_segno \in Segments
    BY <1>14 DEF LogTake, At, LockShape, DstLocked
  <2>5. svt' \subseteq Segments /\ cur_segment' \in Nat
    BY <1>14, <2>4 DEF LogTake, seg_validator_take, Typing, TypeOK
  <2>6. hazards' \subseteq Races
    BY <1>14 DEF LogTake, Typing, TypeOK, Race, Races
  <2> QED
    BY <1>14, <2>3, <2>5, <2>6 DEF LogTake, Typing, TypeOK, GcShape, index, history
<1>11. CASE LogAccount(f)
  <2> DEFINE new == [r EXCEPT !.pc = "relog"]
  <2>1. fl' = [fl EXCEPT ![f] = new]
    BY <1>11 DEF LogAccount, Goto
  <2>2. new \in FlState /\ FlShape(new) /\ nr_valid_segment' \in Int
    BY <1>0, <1>11 DEF LogAccount, At, FlState, FlPc, FlShape
  <2>3. fl' \in [Flushers -> FlState] /\ \A g \in Flushers : FlShape(fl'[g])
    BY <2>1, <2>2, FlusherStep
  <2> QED
    BY <1>11, <2>2, <2>3 DEF LogAccount, Typing, TypeOK, GcShape, index, history
<1>12. CASE LogFail(f)
  <2>1. fl' \in [Flushers -> FlState] /\ \A g \in Flushers : FlShape(fl'[g])
    <3>1. r.pc # "idle" /\ r.mode = "logging"
      BY <1>0, <1>12 DEF LogFail, Logging, At, FlShape
    <3> QED
      BY <1>12, <3>1, AdvanceStep DEF LogFail
  <2> QED
    BY <1>12, <2>1, SizesAssumption DEF LogFail, Typing, TypeOK, GcShape, index, history
<1>13. CASE LogTakeBlock(f)
  <2> DEFINE s == logging_segno
             o == Min(Offsets \ dst[s].map)
             new == [r EXCEPT !.pc = "put", !.seg = s, !.off = o]
  <2>1. s \in Segments /\ ~ NoRoom(dst[s]) /\ dst[s] \in Entry
    BY <1>13 DEF LogTakeBlock, Typing, TypeOK
  <2>2. o \in Offsets
    <3>1. Offsets \ dst[s].map # {}
      BY <2>1 DEF NoRoom, Entry
    <3> QED
      BY <3>1, MinOffsets
  <2>3. fl' = [fl EXCEPT ![f] = new]
    BY <1>13 DEF LogTakeBlock
  <2>4. new \in FlState /\ FlShape(new)
    <3>1. r.mode = "logging" /\ r.todo # {}
      BY <1>0, <1>13 DEF LogTakeBlock, Logging, At, FlShape
    <3>2. o \in 0 .. BlocksPerSegment
      BY <2>2, SizesAssumption DEF Offsets
    <3> HIDE DEF s, o
    <3> QED
      BY <1>0, <2>1, <2>2, <3>1, <3>2 DEF FlState, FlPc, FlShape
  <2>5. fl' \in [Flushers -> FlState] /\ \A g \in Flushers : FlShape(fl'[g])
    BY <2>3, <2>4, FlusherStep
  <2>6. dst' \in [Segments -> Entry]
    <3>1. TakeBlock(dst[s], o) \in Entry
      BY <2>1, <2>2, EntryOps
    <3> QED
      BY <1>13, <2>1, <3>1 DEF LogTakeBlock, Typing, TypeOK
  <2>7. hazards' \subseteq Races
    BY <1>13 DEF LogTakeBlock, Typing, TypeOK, Race, Races
  <2> QED
    BY <1>13, <2>5, <2>6, <2>7 DEF LogTakeBlock, Typing, TypeOK, GcShape, index, history
<1> QED
  BY <1>1, <1>2, <1>3, <1>4, <1>5, <1>6, <1>7, <1>8, <1>9, <1>10, <1>11, <1>12,
     <1>13, <1>14 DEF Flush, find_logging_block

(* Every action of the collector keeps Typing.                             *)
LEMMA GcTyping ==
  ASSUME Typing, Gc
  PROVE  Typing'
<1>0. gc \in GcState /\ IdleGc \in GcState
  BY DEF Typing, TypeOK, IdleGc, GcState, GcPc, INF
<1>1. CASE GcStart
  <2>1. gc' \in GcState /\ GcShape'
    BY <1>0, <1>1 DEF GcStart, GcState, GcPc, GcShape
  <2> QED
    BY <1>1, <2>1 DEF GcStart, Typing, TypeOK, tables, index, history
<1>2. CASE GcPop
  <2>1. CASE VictimSet = {} /\ gc' = IdleGc /\ UNCHANGED victims
    <3>1. GcShape'
      BY <2>1 DEF GcShape, IdleGc
    <3> QED
      BY <1>0, <1>2, <2>1, <3>1 DEF GcPop, Typing, TypeOK, index, history
  <2>2. ASSUME NEW v \in VictimSet,
               gc' = [gc EXCEPT !.pc = "check", !.seg = v, !.nr = victims[v].nr,
                                !.todo = victims[v].map, !.count = 0],
               DestroyVictim(v)
        PROVE  Typing'
    <3>1. v \in Segments /\ victims[v] \in Entry
      BY DEF VictimSet, Typing, TypeOK
    <3>2. victims[v].nr \in Int /\ victims[v].map \in SUBSET Offsets
      BY <3>1, SizesAssumption DEF Entry
    <3>3. gc' \in GcState /\ GcShape'
      BY <1>0, <2>2, <3>1, <3>2 DEF GcState, GcPc, GcShape
    <3>4. victims' \in [Segments -> Entry \cup {NoVictim}]
      BY <2>2, <3>1 DEF DestroyVictim, Typing, TypeOK
    <3> QED
      BY <1>2, <3>3, <3>4 DEF GcPop, Typing, TypeOK, index, history
  <2> QED
    BY <1>2, <2>1, <2>2 DEF GcPop
<1>3. CASE GcCheck
  <2>1. gc' \in GcState /\ GcShape'
    BY <1>0, <1>3 DEF GcCheck, GcAt, GcState, GcPc, GcShape, Typing
  <2>2. hazards' \subseteq Races
    BY <1>3 DEF GcCheck, Typing, TypeOK, Race, Races
  <2> QED
    BY <1>3, <2>1, <2>2 DEF GcCheck, Typing, TypeOK, tables, index, history
<1>4. CASE GcReset
  <2>1. CASE gc.todo = {}
    <3>1. gc' \in GcState /\ GcShape'
      BY <1>0, <1>4, <2>1 DEF GcReset, GcAt, GcState, GcPc, GcShape, Typing
    <3> QED
      BY <1>4, <2>1, <3>1 DEF GcReset, Typing, TypeOK, tables, index, history
  <2>2. CASE gc.todo # {}
    <3>1. Min(gc.todo) \in Offsets /\ gc.seg \in Segments
      BY <1>0, <1>4, <2>2, MinOffsets DEF GcReset, GcAt, GcState, GcShape, Typing
    <3>2. GcBlock \in Pbas
      BY <3>1 DEF GcBlock, Pbas
    <3>3. rit[GcBlock] \in Lbas \cup {INF}
      BY <3>2 DEF Typing, TypeOK
    <3>4. gc' \in GcState /\ GcShape'
      BY <1>0, <1>4, <2>2, <3>1, <3>3 DEF GcReset, GcState, GcPc, GcShape
    <3>5. rit' \in [Pbas -> Lbas \cup {INF}]
      BY <1>4, <2>2, <3>2 DEF GcReset, Typing, TypeOK
    <3> QED
      BY <1>4, <3>4, <3>5 DEF GcReset, Typing, TypeOK, tables, history
  <2> QED
    BY <2>1, <2>2
<1>5. CASE GcSearch
  <2>1. GcSkip \in GcState /\ GcSkip.pc = "reset" /\ GcSkip.seg = gc.seg
    BY <1>0 DEF GcSkip, GcState, GcPc
  <2>2. gc' \in GcState /\ GcShape'
    BY <1>0, <1>5, <2>1 DEF GcSearch, GcAt, GcState, GcPc, GcShape, Typing, TypeOK
  <2> QED
    BY <1>5, <2>2 DEF GcSearch, Typing, TypeOK, tables, index, history
<1>6. CASE GcNegate
  <2>1. GcSkip \in GcState /\ GcSkip.pc = "reset" /\ GcSkip.seg = gc.seg
    BY <1>0 DEF GcSkip, GcState, GcPc
  <2>2. gc' \in GcState /\ GcShape'
    BY <1>0, <1>6, <2>1 DEF GcNegate, GcAt, GcState, GcPc, GcShape, Typing, TypeOK
  <2>3. idx' \in [Lbas -> Pbas \cup {NoPba}]
    BY <1>6 DEF GcNegate, Typing, TypeOK
  <2> QED
    BY <1>6, <2>2, <2>3 DEF GcNegate, Typing, TypeOK, tables, history
<1>7. CASE GcReturnSegment
  <2>1. gc.seg \in Segments
    BY <1>7 DEF GcReturnSegment, GcAt, GcShape, Typing
  <2>2. gc' \in GcState /\ GcShape'
    BY <1>0, <1>7, <2>1 DEF GcReturnSegment, GcState, GcPc, GcShape
  <2>3. /\ dst' \in [Segments -> Entry]
        /\ victims' \in [Segments -> Entry \cup {NoVictim}]
    BY <1>7, EntryOps DEF GcReturnSegment, dst_return_segment, DestroyVictim, Typing, TypeOK
  <2>4. hazards' \subseteq Races
    BY <1>7 DEF GcReturnSegment, Typing, TypeOK, Race, Races
  <2> QED
    BY <1>7, <2>2, <2>3, <2>4 DEF GcReturnSegment, Typing, TypeOK, index, history
<1>8. CASE GcClear
  <2>1. gc' \in GcState /\ GcShape'
    BY <1>0, <1>8 DEF GcClear, GcAt, GcState, GcPc, GcShape, Typing
  <2> QED
    BY <1>8, <2>1 DEF GcClear, Typing, TypeOK, index, history
<1>9. CASE GcLoad
  <2>1. gc' \in GcState /\ GcShape'
    BY <1>0, <1>9 DEF GcLoad, GcAt, GcState, GcPc, GcShape, Typing, TypeOK
  <2> QED
    BY <1>9, <2>1 DEF GcLoad, Typing, TypeOK, tables, index, history
<1>10. CASE GcStore
  <2>1. gc' \in GcState /\ GcShape'
    <3>1. gc.clean + gc.count \in Nat
      BY <1>0 DEF GcState
    <3>2. IdleGc.pc = "idle"
      BY DEF IdleGc
    <3> QED
      BY <1>0, <1>10, <3>1, <3>2 DEF GcStore, GcState, GcPc, GcShape
  <2>2. nr_valid_segment' \in Int
    BY <1>0, <1>10 DEF GcStore, GcState
  <2> QED
    BY <1>10, <2>1, <2>2 DEF GcStore, Typing, TypeOK, index, history
<1> QED
  BY <1>1, <1>2, <1>3, <1>4, <1>5, <1>6, <1>7, <1>8, <1>9, <1>10 DEF Gc

(* Compaction and a reopening keep Typing.                                 *)
LEMMA RestTyping ==
  ASSUME Typing, CompactReset \/ CompactReturn \/ Reopen
  PROVE  Typing'
<1>1. CASE CompactReset
  <2>1. PICK x \in stale :
          /\ stale' = stale \ {x}
          /\ \/ rit' = [rit EXCEPT ![x[2]] = INF] /\ cp' = x[2]
             \/ UNCHANGED <<rit, cp>>
    BY <1>1 DEF CompactReset
  <2>2. x[2] \in Pbas
    BY DEF Typing, TypeOK
  <2>3. /\ stale' \subseteq Lbas \X Pbas
        /\ rit' \in [Pbas -> Lbas \cup {INF}]
        /\ cp' \in Pbas \cup {NoPba}
    BY <2>1, <2>2 DEF Typing, TypeOK
  <2> QED
    BY <1>1, <2>3 DEF CompactReset, Typing, TypeOK, GcShape, tables, history
<1>2. CASE CompactReturn
  <2>1. cp \in Pbas
    BY <1>2 DEF CompactReturn, Typing, TypeOK
  <2>2. /\ dst' \in [Segments -> Entry]
        /\ victims' \in [Segments -> Entry \cup {NoVictim}]
    BY <1>2, <2>1, ReturnBlockType DEF CompactReturn, Typing
  <2> QED
    BY <1>2, <2>2 DEF CompactReturn, Typing, TypeOK, GcShape, index, history
<1>3. CASE Reopen
  <2>1. victims' \in [Segments -> Entry \cup {NoVictim}]
    <3>1. \A s \in Segments : dst_load(s) \in Entry \cup {NoVictim}
      BY EntryOps DEF dst_load, Typing, TypeOK
    <3> QED
      BY <1>3, <3>1 DEF Reopen
  <2>2. nr_valid_segment' \in Int
    <3>1. IsFiniteSet(Segments)
      BY SizesAssumption, FS_Interval DEF Segments
    <3>2. IsFiniteSet(svt)
      BY <3>1, FS_Subset DEF Typing, TypeOK
    <3> QED
      BY <1>3, <3>2, FS_CardinalityType DEF Reopen
  <2> QED
    BY <1>3, <2>1, <2>2 DEF Reopen, Typing, TypeOK, GcShape, index
<1> QED
  BY <1>1, <1>2, <1>3

(* The initial state is well-typed.                                        *)
LEMMA InitTyping == Init => Typing
<1> SUFFICES ASSUME Init PROVE Typing
  OBVIOUS
<1>1. IdleGc \in GcState /\ IdleGc.pc = "idle"
  BY DEF IdleGc, GcState, GcPc, INF
<1>2. 0 \in Lbas
  BY SizesAssumption DEF Lbas
<1>3. TypeOK
  BY <1>1, <1>2, EntryOps, IdleShape DEF Init, TypeOK
<1>4. \A f \in Flushers : FlShape(fl[f])
  BY IdleShape DEF Init
<1>5. GcShape
  BY <1>1 DEF Init, GcShape
<1> QED
  BY <1>3, <1>4, <1>5 DEF Typing

(* Every step keeps Typing.                                                *)
LEMMA StepTyping == Typing /\ LockShape /\ [Next]_vars => Typing'
<1> SUFFICES ASSUME Typing, LockShape, [Next]_vars PROVE Typing'
  OBVIOUS
<1>1. CASE Next
  BY <1>1, FlushTyping, GcTyping, RestTyping DEF Next
<1>2. CASE UNCHANGED vars
  BY <1>2 DEF vars, tables, index, history, Typing, TypeOK, GcShape
<1> QED
  BY <1>1, <1>2

(* dst_lock excludes: a flusher gets it only when nobody has it, and the   *)
(* logging segment changes only under it.                                  *)
LEMMA StepLock == Typing /\ LockShape /\ [Next]_vars => LockShape'
<1> SUFFICES ASSUME Typing, LockShape, [Next]_vars PROVE LockShape'
  OBVIOUS
<1>0. fl \in [Flushers -> FlState]
  BY DEF Typing, TypeOK
<1>1. ASSUME NEW f \in Flushers, Flush(f)
      PROVE  LockShape'
  <2>1. \A g \in Flushers \ {f} : fl'[g] = fl[g]
    BY <1>0, <1>1 DEF Flush, FlushStart, AllocNext, AllocTake, AllocFill, Put,
         ReturnOld, SetRit, find_logging_block, LogLeave, LogPickVictim,
         LogPickFree, LogTake, LogAccount, LogFail, LogTakeBlock, Goto, Advance
  <2>2. CASE LogLeave(f) \/ LogPickVictim(f) \/ LogPickFree(f)
    <3>1. \A g \in Flushers \ {f} : fl[g].pc \notin DstLocked
      BY <2>2 DEF LogLeave, LogPickVictim, LogPickFree, Logging, At, DstUnlocked,
           DstLocked, LockShape
    <3>2. fl'[f].pc = "logtake" => logging_segno' \in Segments
      BY <1>0, <2>2, NextSegmentFree DEF LogLeave, LogPickVictim, LogPickFree, Goto,
           FlState, Typing
    <3> QED
      BY <2>1, <3>1, <3>2 DEF LockShape
  <2>3. CASE LogTake(f) \/ LogAccount(f)
    <3>1. logging_segno' = logging_segno
      BY <2>3 DEF LogTake, LogAccount
    <3>2. fl[f].pc \in DstLocked
      BY <2>3 DEF LogTake, LogAccount, At, DstLocked
    <3>3. fl'[f].pc # "logtake"
      BY <1>0, <2>3 DEF LogTake, LogAccount, Goto, FlState
    <3> QED
      BY <2>1, <3>1, <3>2, <3>3 DEF LockShape
  <2>4. CASE FlushStart(f) \/ AllocNext(f) \/ AllocTake(f) \/ AllocFill(f)
             \/ Put(f) \/ ReturnOld(f) \/ SetRit(f) \/ LogFail(f) \/ LogTakeBlock(f)
    <3>1. logging_segno' = logging_segno
      BY <2>4 DEF FlushStart, AllocNext, AllocTake, AllocFill, Put, ReturnOld, SetRit,
           LogFail, LogTakeBlock, tables
    <3>2. fl'[f].pc \in {"idle", "next", "take", "fill", "put", "return", "set", "log"}
      <4>1. CASE FlushStart(f)
        BY <1>0, <4>1 DEF FlushStart, IdleFl, FlState
      <4>2. CASE AllocNext(f) \/ AllocTake(f) \/ AllocFill(f)
        BY <1>0, <4>2 DEF AllocNext, AllocTake, AllocFill, Goto, FlState
      <4>3. CASE Put(f) \/ ReturnOld(f) \/ LogTakeBlock(f)
        BY <1>0, <4>3 DEF Put, ReturnOld, LogTakeBlock, Goto, FlState
      <4>4. CASE SetRit(f) \/ LogFail(f)
        <5>1. PICK pc \in {"put", "log"} : Advance(f, pc)
          BY <4>4 DEF SetRit, LogFail
        <5> DEFINE rest == fl[f].todo \ {Min(fl[f].todo)}
                   more == [fl[f] EXCEPT !.pc = pc, !.todo = rest,
                              !.off = IF pc = "put" THEN fl[f].off + 1 ELSE fl[f].off]
        <5>2. fl' = [fl EXCEPT ![f] = IF rest = {} THEN IdleFl ELSE more]
          BY <5>1 DEF Advance
        <5>3. more.pc = pc /\ IdleFl.pc = "idle"
          BY <1>0 DEF FlState, IdleFl
        <5> HIDE DEF rest, more
        <5> QED
          BY <1>0, <5>2, <5>3
      <4> QED
        BY <2>4, <4>1, <4>2, <4>3, <4>4
    <3>3. fl'[f].pc \notin DstLocked
      BY <3>2 DEF DstLocked
    <3> QED
      BY <2>1, <3>1, <3>3 DEF LockShape
  <2> QED
    BY <1>1, <2>2, <2>3, <2>4 DEF Flush, find_logging_block
<1>2. CASE Gc \/ CompactReset \/ CompactReturn
  <2>1. UNCHANGED <<fl, logging_segno>>
    BY <1>2 DEF Gc, GcStart, GcPop, GcCheck, GcReset, GcSearch, GcNegate,
         GcReturnSegment, GcClear, GcLoad, GcStore, CompactReset, CompactReturn, tables
  <2> QED
    BY <2>1 DEF LockShape
<1>3. CASE Reopen
  BY <1>3 DEF Reopen, At, LockShape, DstLocked
<1>4. CASE UNCHANGED vars
  BY <1>4 DEF vars, tables, LockShape
<1> QED
  BY <1>1, <1>2, <1>3, <1>4 DEF Next

(* Nobody holds dst_lock at first.                                         *)
LEMMA InitLock == Init => LockShape
BY DEF Init, IdleFl, LockShape, DstLocked

(* The tables, the index and every thread's local state keep their types:  *)
(* in particular no flush writes past the end of its segment, and no       *)
(* offset or segment number leaves its table, for any number of threads.   *)
THEOREM TypeCorrect == Spec => []TypeOK
<1>1. Typing => TypeOK
  BY DEF Typing
<1> QED
  BY <1>1, InitTyping, InitLock, StepTyping, StepLock, PTL DEF Spec

----------------------------------------------------------------------------
(* What one step can do to the data segment table, the victim tree and the *)
(* logging segment.                                                        *)

Filled(s) ==
  /\ dst' = [dst EXCEPT ![s] = FullEntry]
  /\ victims' = [victims EXCEPT ![s] = NoVictim]
  /\ logging_segno' = logging_segno

Emptied(s) ==
  /\ dst' = [dst EXCEPT ![s] = EmptyEntry]
  /\ victims' = [victims EXCEPT ![s] = NoVictim]
  /\ logging_segno' = logging_segno

Returned(p) ==
  /\ dst_return_block(p)
  /\ logging_segno' = logging_segno

Logged(o) ==
  /\ logging_segno \in Segments
  /\ ~ NoRoom(dst[logging_segno])
  /\ o \in Offsets \ dst[logging_segno].map
  /\ dst' = [dst EXCEPT ![logging_segno] = TakeBlock(dst[logging_segno], o)]
  /\ UNCHANGED <<victims, logging_segno>>

Popped(s) ==
  /\ victims' = [victims EXCEPT ![s] = NoVictim]
  /\ UNCHANGED <<dst, logging_segno>>

Left ==
  /\ logging_segno \in Segments
  /\ NoRoom(dst[logging_segno])
  /\ victims' = [victims EXCEPT ![logging_segno] = NoVictim]
  /\ logging_segno' = INF
  /\ UNCHANGED dst

Picked(s) ==
  /\ logging_segno = INF
  /\ logging_segno' = s
  /\ victims' = [victims EXCEPT ![s] = NoVictim]
  /\ UNCHANGED dst

Reloaded ==
  /\ victims' = [s \in Segments |-> dst_load(s)]
  /\ logging_segno' = INF
  /\ UNCHANGED dst

(* What a flusher or compaction can do to them, the collector standing     *)
(* still.                                                                  *)
Outside ==
  /\ gc' = gc
  /\ \/ UNCHANGED <<dst, victims, logging_segno>>
     \/ \E s \in Segments : Filled(s) \/ Picked(s)
     \/ \E p \in Pbas : Returned(p)
     \/ \E o \in Offsets : Logged(o)
     \/ Left

(* Every step of a flusher and of compaction is such a change.             *)
LEMMA OutsideStep ==
  ASSUME Typing,
         (\E f \in Flushers : Flush(f)) \/ CompactReset \/ CompactReturn
  PROVE  Outside
<1>1. ASSUME NEW f \in Flushers, Flush(f)
      PROVE  Outside
  <2>0. fl[f] \in FlState /\ FlShape(fl[f])
    BY DEF Typing, TypeOK
  <2>1. CASE FlushStart(f) \/ AllocNext(f) \/ AllocTake(f) \/ Put(f) \/ SetRit(f)
             \/ LogTake(f) \/ LogAccount(f) \/ LogFail(f)
    BY <2>1 DEF FlushStart, AllocNext, AllocTake, Put, SetRit, LogTake, LogAccount,
                LogFail, tables, Outside
  <2>2. CASE AllocFill(f)
    BY <2>0, <2>2 DEF AllocFill, At, FlShape, DestroyVictim, Filled, Outside
  <2>3. CASE ReturnOld(f)
    BY <2>0, <2>3 DEF ReturnOld, At, FlShape, Returned, Outside
  <2>4. CASE LogLeave(f)
    BY <2>4 DEF LogLeave, DestroyVictim, Left, Typing, TypeOK, Outside
  <2>5. CASE LogPickVictim(f)
    BY <2>5 DEF LogPickVictim, DestroyVictim, Picked, VictimSet, Outside
  <2>6. CASE LogPickFree(f)
    <3>1. NextSegment \in Segments
      BY <2>6, NextSegmentFree DEF LogPickFree, Typing
    <3>2. victims' = [victims EXCEPT ![NextSegment] = NoVictim]
      BY <2>6, <3>1 DEF LogPickFree, VictimSet, Typing, TypeOK
    <3> QED
      BY <2>6, <3>1, <3>2 DEF LogPickFree, Picked, Outside
  <2>7. CASE LogTakeBlock(f)
    <3>1. logging_segno \in Segments /\ ~ NoRoom(dst[logging_segno])
      BY <2>7 DEF LogTakeBlock, Typing, TypeOK
    <3>2. Offsets \ dst[logging_segno].map # {}
      BY <3>1 DEF NoRoom, Typing, TypeOK, Entry
    <3>3. Min(Offsets \ dst[logging_segno].map) \in Offsets \ dst[logging_segno].map
      BY <3>2, MinOffsets
    <3>4. Logged(Min(Offsets \ dst[logging_segno].map))
      BY <2>7, <3>1, <3>3 DEF LogTakeBlock, Logged
    <3> QED
      BY <2>7, <3>3, <3>4 DEF LogTakeBlock, Outside
  <2> QED
    BY <1>1, <2>1, <2>2, <2>3, <2>4, <2>5, <2>6, <2>7 DEF Flush, find_logging_block
<1>2. CASE CompactReset
  BY <1>2 DEF CompactReset, tables, Outside
<1>3. CASE CompactReturn
  BY <1>3 DEF CompactReturn, Returned, Typing, TypeOK, Outside
<1> QED
  BY <1>1, <1>2, <1>3

(* Every step changes the three tables in one of these ways or not at all. *)
LEMMA TableStep ==
  ASSUME Typing, [Next]_vars
  PROVE  \/ UNCHANGED <<dst, victims, logging_segno>>
         \/ \E s \in Segments : Filled(s) \/ Emptied(s) \/ Popped(s) \/ Picked(s)
         \/ \E p \in Pbas : Returned(p)
         \/ \E o \in Offsets : Logged(o)
         \/ Left
         \/ Reloaded
<1>1. CASE (\E f \in Flushers : Flush(f)) \/ CompactReset \/ CompactReturn
  BY <1>1, OutsideStep DEF Outside
<1>2. CASE Gc
  <2>1. CASE GcStart \/ GcCheck \/ GcReset \/ GcSearch \/ GcNegate \/ GcClear
             \/ GcLoad \/ GcStore
    BY <2>1 DEF GcStart, GcCheck, GcReset, GcSearch, GcNegate, GcClear, GcLoad,
                GcStore, tables
  <2>2. CASE GcPop
    BY <2>2 DEF GcPop, DestroyVictim, Popped, VictimSet
  <2>3. CASE GcReturnSegment
    BY <2>3 DEF GcReturnSegment, GcAt, GcShape, Typing, dst_return_segment,
                DestroyVictim, Emptied
  <2> QED
    BY <1>2, <2>1, <2>2, <2>3 DEF Gc
<1>3. CASE Reopen
  BY <1>3 DEF Reopen, Reloaded
<1>4. CASE UNCHANGED vars
  BY <1>4 DEF vars, tables
<1> QED
  BY <1>1, <1>2, <1>3, <1>4 DEF Next

(* A bitmap is finite, and its bits are counted one by one.                *)
LEMMA BitmapCount ==
  ASSUME NEW m \in SUBSET Offsets, NEW o \in Offsets
  PROVE  /\ Cardinality(m) \in Nat
         /\ Cardinality(m \ {o}) = IF o \in m THEN Cardinality(m) - 1 ELSE Cardinality(m)
         /\ Cardinality(m \cup {o}) = IF o \in m THEN Cardinality(m) ELSE Cardinality(m) + 1
         /\ Cardinality(Offsets) = BlocksPerSegment
<1>1. IsFiniteSet(Offsets) /\ Cardinality(Offsets) = BlocksPerSegment
  BY SizesAssumption, FS_Interval DEF Offsets
<1>2. IsFiniteSet(m) /\ Cardinality(m) \in Nat
  BY <1>1, FS_Subset, FS_CardinalityType
<1> QED
  BY <1>1, <1>2, FS_AddElement, FS_RemoveElement

(* The count of an entry and the number of its bits agree after a step if  *)
(* they agreed before it.                                                  *)
LEMMA StepCount == Typing /\ CountExact /\ [Next]_vars => CountExact'
<1> SUFFICES ASSUME Typing, CountExact, [Next]_vars PROVE CountExact'
  OBVIOUS
<1>0. dst \in [Segments -> Entry]
  BY DEF Typing, TypeOK
<1>1. CASE dst' = dst
  BY <1>1 DEF CountExact
<1>2. ASSUME NEW s \in Segments, NEW e, dst' = [dst EXCEPT ![s] = e],
             e.nr = Cardinality(e.map)
      PROVE  CountExact'
  BY <1>0, <1>2 DEF CountExact
<1>3. ASSUME NEW s \in Segments, Filled(s)
      PROVE  CountExact'
  <2>1. FullEntry.nr = Cardinality(FullEntry.map)
    <3>1. Offsets # {}
      BY SizesAssumption DEF Offsets
    <3> QED
      BY <3>1, BitmapCount DEF FullEntry
  <2> QED
    BY <1>2, <1>3, <2>1 DEF Filled
<1>4. ASSUME NEW s \in Segments, Emptied(s)
      PROVE  CountExact'
  <2>1. EmptyEntry.nr = Cardinality(EmptyEntry.map)
    BY FS_EmptySet DEF EmptyEntry
  <2> QED
    BY <1>2, <1>4, <2>1 DEF Emptied
<1>5. ASSUME NEW p \in Pbas, Returned(p)
      PROVE  CountExact'
  <2> DEFINE e == dst[p[1]]
  <2>1. p[1] \in Segments /\ p[2] \in Offsets /\ e \in Entry
    BY <1>0 DEF Pbas
  <2>2. e.map \in SUBSET Offsets /\ e.nr = Cardinality(e.map)
    BY <2>1 DEF Entry, CountExact
  <2>3. CASE e.nr = 0
    BY <1>1, <1>5, <2>3 DEF Returned, dst_return_block
  <2>4. CASE e.nr # 0
    <3>1. ClearBlock(e, p[2]).nr = Cardinality(ClearBlock(e, p[2]).map)
      BY <2>1, <2>2, BitmapCount DEF ClearBlock
    <3>2. dst' = [dst EXCEPT ![p[1]] = ClearBlock(e, p[2])]
      BY <1>5, <2>4 DEF Returned, dst_return_block
    <3> QED
      BY <1>2, <2>1, <3>1, <3>2
  <2> QED
    BY <2>3, <2>4
<1>6. ASSUME NEW o \in Offsets, Logged(o)
      PROVE  CountExact'
  <2> DEFINE e == dst[logging_segno]
  <2>1. logging_segno \in Segments /\ e \in Entry /\ o \notin e.map
    BY <1>0, <1>6 DEF Logged
  <2>2. e.map \in SUBSET Offsets /\ e.nr = Cardinality(e.map)
    BY <2>1 DEF Entry, CountExact
  <2>3. TakeBlock(e, o).nr = Cardinality(TakeBlock(e, o).map)
    BY <2>1, <2>2, BitmapCount DEF TakeBlock
  <2> QED
    BY <1>2, <1>6, <2>1, <2>3 DEF Logged
<1> QED
  BY <1>1, <1>3, <1>4, <1>5, <1>6, TableStep DEF Popped, Picked, Left, Reloaded

(* nr_valid_block always equals the number of bits set.                    *)
THEOREM CountCorrect == Spec => []CountExact
<1>1. Init => CountExact
  <2>1. Cardinality({}) = 0
    BY FS_EmptySet
  <2>2. ASSUME Init, NEW s \in Segments PROVE dst[s].nr = 0 /\ dst[s].map = {}
    BY <2>2 DEF Init, EmptyEntry
  <2> QED BY <2>1, <2>2 DEF CountExact
<1> QED
  BY <1>1, InitTyping, InitLock, StepTyping, StepLock, StepCount, PTL DEF Spec
----------------------------------------------------------------------------
(* A victim stays a copy of its segment's entry.                           *)
LEMMA StepVictim == Typing /\ VictimExact /\ [Next]_vars => VictimExact'
<1> SUFFICES ASSUME Typing, VictimExact, [Next]_vars PROVE VictimExact'
  OBVIOUS
<1>0. /\ dst \in [Segments -> Entry]
      /\ victims \in [Segments -> Entry \cup {NoVictim}]
      /\ INF \notin Segments
  BY SizesAssumption DEF Typing, TypeOK, INF, Segments
<1>1. CASE UNCHANGED <<dst, victims, logging_segno>>
  BY <1>1 DEF VictimExact
<1>2. ASSUME NEW s \in Segments,
             Filled(s) \/ Emptied(s) \/ Popped(s) \/ Picked(s)
      PROVE  VictimExact'
  BY <1>0, <1>2 DEF Filled, Emptied, Popped, Picked, VictimExact
<1>3. ASSUME NEW p \in Pbas, Returned(p)
      PROVE  VictimExact'
  <2> DEFINE e == ClearBlock(dst[p[1]], p[2])
  <2>1. p[1] \in Segments
    BY DEF Pbas
  <2>2. VictimOf(e) \in {NoVictim, e}
    BY DEF VictimOf
  <2>3. CASE dst[p[1]].nr = 0
    BY <1>1, <1>3, <2>3 DEF Returned, dst_return_block
  <2>4. CASE dst[p[1]].nr # 0
    <3>1. /\ dst' = [dst EXCEPT ![p[1]] = e]
          /\ victims' = [victims EXCEPT ![p[1]] = VictimOf(e)]
          /\ logging_segno' = logging_segno
      BY <1>3, <2>4 DEF Returned, dst_return_block
    <3> HIDE DEF e
    <3> QED
      BY <1>0, <2>1, <2>2, <3>1 DEF VictimExact
  <2> QED
    BY <2>3, <2>4
<1>4. ASSUME NEW o \in Offsets, Logged(o)
      PROVE  VictimExact'
  BY <1>0, <1>4 DEF Logged, VictimExact
<1>5. CASE Left
  BY <1>0, <1>5 DEF Left, VictimExact
<1>6. CASE Reloaded
  <2>1. \A s \in Segments : dst_load(s) \in {NoVictim, dst[s]}
    BY DEF dst_load, VictimOf
  <2> QED
    BY <1>6, <2>1 DEF Reloaded, VictimExact
<1> QED
  BY <1>1, <1>2, <1>3, <1>4, <1>5, <1>6, TableStep

(* The collector pops a victim with its segment's present bitmap unless    *)
(* the segment is the logging segment.                                     *)
THEOREM VictimCorrect == Spec => []VictimExact
<1>1. Init => VictimExact
  BY DEF Init, VictimExact
<1> QED
  BY <1>1, InitTyping, InitLock, StepTyping, StepLock, StepVictim, PTL DEF Spec

----------------------------------------------------------------------------
(* Where a segment is while it is neither full nor free.                   *)

(* The collector has popped s and not yet emptied it.                      *)
Held(s) ==
  /\ gc.seg = s
  /\ gc.pc \in {"check", "reset", "search", "negate", "return"}

(* A segment with some valid blocks and some free ones is reachable.       *)
PartialReachable ==
  \A s \in Segments : dst[s].nr \notin {0, BlocksPerSegment} =>
    \/ victims[s] # NoVictim
    \/ s = logging_segno
    \/ Held(s)

(* A taken segment without a valid block is reachable.                     *)
Allocating(s) == \E f \in Flushers : fl[f].pc = "fill" /\ fl[f].seg = s
EmptyReachable ==
  \A s \in svt : dst[s].nr = 0 =>
    \/ victims[s] # NoVictim
    \/ s = logging_segno
    \/ InGc(s)
    \/ Allocating(s)
    \/ s \in forgotten

(* dst_return_block makes a victim of a segment that is not full.          *)
LEMMA ReturnReaches ==
  ASSUME Typing, NEW p \in Pbas, dst_return_block(p), NEW s \in Segments,
         dst'[s].nr # BlocksPerSegment
  PROVE  (dst'[s] = dst[s] /\ victims'[s] = victims[s]) \/ victims'[s] # NoVictim
<1> DEFINE e == ClearBlock(dst[p[1]], p[2])
<1>1. p[1] \in Segments /\ p[2] \in Offsets
  BY DEF Pbas
<1>2. CASE dst[p[1]].nr = 0
  BY <1>2 DEF dst_return_block
<1>3. CASE dst[p[1]].nr # 0
  <2>1. e \in Entry
    BY <1>1, <1>3, EntryOps DEF Typing, TypeOK
  <2>2. /\ dst' = [dst EXCEPT ![p[1]] = e]
        /\ victims' = [victims EXCEPT ![p[1]] = VictimOf(e)]
    BY <1>3 DEF dst_return_block
  <2>3. e.nr # BlocksPerSegment => VictimOf(e) # NoVictim
    BY <2>1, EntryOps, SizesAssumption DEF VictimOf, Entry
  <2> HIDE DEF e
  <2> QED
    BY <1>1, <2>2, <2>3 DEF Typing, TypeOK
<1> QED
  BY <1>2, <1>3

(* An entry without room counts as full.                                   *)
LEMMA NoRoomFull ==
  ASSUME Typing, CountExact, NEW s \in Segments, NoRoom(dst[s])
  PROVE  dst[s].nr = BlocksPerSegment
<1>1. dst[s] \in Entry /\ dst[s].nr = Cardinality(dst[s].map)
  BY DEF Typing, TypeOK, CountExact
<1>2. Cardinality(Offsets) = BlocksPerSegment
  BY SizesAssumption, FS_Interval DEF Offsets
<1> QED
  BY <1>1, <1>2, SizesAssumption DEF NoRoom, Entry

(* No step makes a partly valid segment unreachable.                       *)
LEMMA StepPartial ==
  Typing /\ CountExact /\ PartialReachable /\ [Next]_vars => PartialReachable'
<1> SUFFICES ASSUME Typing, CountExact, PartialReachable, [Next]_vars,
                    NEW s \in Segments, dst'[s].nr \notin {0, BlocksPerSegment}
             PROVE  \/ victims'[s] # NoVictim
                    \/ s = logging_segno'
                    \/ Held(s)'
  BY DEF PartialReachable
<1>0. /\ dst \in [Segments -> Entry]
      /\ victims \in [Segments -> Entry \cup {NoVictim}]
      /\ INF \notin Segments
  BY SizesAssumption DEF Typing, TypeOK, INF, Segments
<1>1. CASE (\E f \in Flushers : Flush(f)) \/ CompactReset \/ CompactReturn
  <2>0. Outside
    BY <1>1, OutsideStep
  <2>1. gc' = gc
    BY <2>0 DEF Outside
  <2>2. CASE UNCHANGED <<dst, victims, logging_segno>>
    BY <2>1, <2>2 DEF PartialReachable, Held
  <2>3. ASSUME NEW t \in Segments, Filled(t)
        PROVE  \/ victims'[s] # NoVictim \/ s = logging_segno' \/ Held(s)'
    BY <1>0, <2>1, <2>3 DEF Filled, FullEntry, PartialReachable, Held
  <2>4. ASSUME NEW t \in Segments, Picked(t)
        PROVE  \/ victims'[s] # NoVictim \/ s = logging_segno' \/ Held(s)'
    BY <1>0, <2>1, <2>4 DEF Picked, PartialReachable, Held
  <2>5. ASSUME NEW p \in Pbas, Returned(p)
        PROVE  \/ victims'[s] # NoVictim \/ s = logging_segno' \/ Held(s)'
    BY <2>1, <2>5, ReturnReaches DEF Returned, PartialReachable, Held
  <2>6. ASSUME NEW o \in Offsets, Logged(o)
        PROVE  \/ victims'[s] # NoVictim \/ s = logging_segno' \/ Held(s)'
    BY <1>0, <2>1, <2>6 DEF Logged, PartialReachable, Held
  <2>7. CASE Left
    <3>1. s # logging_segno
      BY <2>7, NoRoomFull DEF Left
    <3> QED
      BY <1>0, <2>1, <2>7, <3>1 DEF Left, PartialReachable, Held
  <2> QED
    BY <2>0, <2>2, <2>3, <2>4, <2>5, <2>6, <2>7 DEF Outside
<1>2. CASE Gc
  <2>0. gc \in GcState
    BY DEF Typing, TypeOK
  <2>1. CASE GcStart
    BY <2>1 DEF GcStart, GcAt, tables, PartialReachable, Held
  <2>2. CASE GcPop
    <3>1. CASE victims' = victims
      BY <2>2, <3>1 DEF GcPop, GcAt, PartialReachable, Held
    <3>2. CASE \E v \in VictimSet :
                 /\ gc' = [gc EXCEPT !.pc = "check", !.seg = v, !.nr = victims[v].nr,
                                     !.todo = victims[v].map, !.count = 0]
                 /\ DestroyVictim(v)
      <4>1. PICK v \in VictimSet :
              /\ gc' = [gc EXCEPT !.pc = "check", !.seg = v, !.nr = victims[v].nr,
                                  !.todo = victims[v].map, !.count = 0]
              /\ DestroyVictim(v)
        BY <3>2
      <4>2. gc'.pc = "check" /\ gc'.seg = v
        BY <2>0, <4>1 DEF GcState
      <4>3. s # v => victims'[s] = victims[s]
        BY <1>0, <4>1 DEF DestroyVictim, VictimSet
      <4>4. dst' = dst /\ logging_segno' = logging_segno /\ gc.pc = "pop"
        BY <2>2 DEF GcPop, GcAt
      <4> QED
        BY <4>2, <4>3, <4>4 DEF PartialReachable, Held
    <3> QED
      BY <2>2, <3>1, <3>2 DEF GcPop
  <2>3. CASE GcCheck
    BY <2>0, <2>3 DEF GcCheck, GcAt, tables, PartialReachable, Held, GcState
  <2>4. CASE GcReset
    BY <2>0, <2>4 DEF GcReset, GcAt, tables, PartialReachable, Held, GcState
  <2>5. CASE GcSearch
    BY <2>0, <2>5 DEF GcSearch, GcSkip, GcAt, tables, PartialReachable, Held, GcState
  <2>6. CASE GcNegate
    BY <2>0, <2>6 DEF GcNegate, GcSkip, GcAt, tables, PartialReachable, Held, GcState
  <2>7. CASE GcReturnSegment
    BY <1>0, <2>0, <2>7 DEF GcReturnSegment, dst_return_segment, DestroyVictim,
         EmptyEntry, PartialReachable, Held
  <2>8. CASE GcClear \/ GcLoad \/ GcStore
    BY <2>8 DEF GcClear, GcLoad, GcStore, GcAt, tables, PartialReachable, Held
  <2> QED
    BY <1>2, <2>1, <2>2, <2>3, <2>4, <2>5, <2>6, <2>7, <2>8 DEF Gc
<1>3. CASE Reopen
  <2>1. dst[s].nr \notin {0, BlocksPerSegment} /\ dst[s] \in Entry
    BY <1>0, <1>3 DEF Reopen
  <2>2. dst_load(s) # NoVictim
    BY <2>1, EntryOps, SizesAssumption DEF dst_load, VictimOf, Entry
  <2> QED
    BY <1>3, <2>2 DEF Reopen
<1>4. CASE UNCHANGED vars
  BY <1>4 DEF vars, tables, PartialReachable, Held
<1> QED
  BY <1>1, <1>2, <1>3, <1>4 DEF Next

(* No step makes a taken segment without a valid block unreachable: while  *)
(* a flusher fills it, only its own take_segment ends the allocation.      *)
LEMMA StepEmpty ==
  Typing /\ LockShape /\ CountExact /\ EmptyReachable /\ [Next]_vars
    => EmptyReachable'
<1> DEFINE Reach(s) == \/ victims[s] # NoVictim
                       \/ s = logging_segno
                       \/ InGc(s)
                       \/ Allocating(s)
                       \/ s \in forgotten
<1> SUFFICES ASSUME Typing, LockShape, CountExact, EmptyReachable, [Next]_vars,
                    NEW s \in svt', dst'[s].nr = 0
             PROVE  Reach(s)'
  BY DEF EmptyReachable
<1>0. /\ dst \in [Segments -> Entry]
      /\ victims \in [Segments -> Entry \cup {NoVictim}]
      /\ INF \notin Segments
      /\ svt \subseteq Segments
      /\ s \in Segments
      /\ fl \in [Flushers -> FlState]
      /\ \A f \in Flushers : FlShape(fl[f])
      /\ BlocksPerSegment # 0
  BY SizesAssumption, StepTyping DEF Typing, TypeOK, INF, Segments
<1>1. s \in svt /\ dst[s].nr = 0 => Reach(s)
  BY DEF EmptyReachable
<1>2. ASSUME NEW f \in Flushers, Flush(f)
      PROVE  Reach(s)'
  <2>0. Outside
    BY <1>2, OutsideStep
  <2>1. gc' = gc /\ forgotten' = forgotten
    BY <1>2, <2>0 DEF Outside, Flush, FlushStart, AllocNext, AllocTake,
         AllocFill, Put, ReturnOld, SetRit, find_logging_block, LogLeave,
         LogPickVictim, LogPickFree, LogTake, LogAccount, LogFail, LogTakeBlock,
         history
  <2>2. (svt' = svt /\ (Allocating(s) => Allocating(s)')) \/ AllocTake(f)
        \/ AllocFill(f) \/ LogTake(f)
    <3>1. CASE svt' = svt /\ fl[f].pc # "fill"
               /\ \A g \in Flushers \ {f} : fl'[g] = fl[g]
      BY <3>1 DEF Allocating
    <3>2. CASE FlushStart(f) \/ AllocNext(f) \/ Put(f) \/ ReturnOld(f) \/ SetRit(f)
      BY <1>0, <3>1, <3>2 DEF FlushStart, AllocNext, Put, ReturnOld, SetRit, At,
           Goto, Advance, tables
    <3>3. CASE LogLeave(f) \/ LogPickVictim(f) \/ LogPickFree(f) \/ LogAccount(f)
               \/ LogFail(f) \/ LogTakeBlock(f)
      BY <1>0, <3>1, <3>3 DEF LogLeave, LogPickVictim, LogPickFree, LogAccount, LogFail,
           LogTakeBlock, Logging, At, Goto, Advance
    <3> QED
      BY <1>2, <3>2, <3>3 DEF Flush, find_logging_block
  <2>3. CASE svt' = svt /\ (Allocating(s) => Allocating(s)')
    <3>1. CASE UNCHANGED <<dst, victims, logging_segno>>
      BY <1>1, <2>1, <2>3, <3>1 DEF InGc
    <3>2. ASSUME NEW t \in Segments, Filled(t)
          PROVE  Reach(s)'
      BY <1>0, <1>1, <2>1, <2>3, <3>2 DEF Filled, FullEntry, InGc
    <3>3. ASSUME NEW t \in Segments, Picked(t)
          PROVE  Reach(s)'
      BY <1>0, <1>1, <2>1, <2>3, <3>3 DEF Picked, InGc
    <3>4. ASSUME NEW p \in Pbas, Returned(p)
          PROVE  Reach(s)'
      BY <1>0, <1>1, <2>1, <2>3, <3>4, ReturnReaches DEF Returned, InGc
    <3>5. ASSUME NEW o \in Offsets, Logged(o)
          PROVE  Reach(s)'
      BY <1>0, <1>1, <2>1, <2>3, <3>5 DEF Logged, InGc
    <3>6. CASE Left
      <4>1. s # logging_segno
        BY <1>0, <3>6, NoRoomFull DEF Left
      <4> QED
        BY <1>0, <1>1, <2>1, <2>3, <3>6, <4>1 DEF Left, InGc
    <3> QED
      BY <2>0, <3>1, <3>2, <3>3, <3>4, <3>5, <3>6 DEF Outside
  <2>4. CASE AllocTake(f)
    <3>1. /\ svt' = svt \cup {fl[f].seg}
          /\ UNCHANGED <<dst, victims, logging_segno>>
          /\ fl[f].pc = "take"
      BY <2>4 DEF AllocTake, seg_validator_take, At
    <3>2. fl'[f].pc = "fill" /\ fl'[f].seg = fl[f].seg
      BY <1>0, <2>4 DEF AllocTake, FlState
    <3>3. \A g \in Flushers \ {f} : fl'[g] = fl[g]
      BY <1>0, <2>4 DEF AllocTake
    <3>4. Allocating(s) => Allocating(s)'
      BY <3>1, <3>3 DEF Allocating
    <3>5. s = fl[f].seg => Allocating(s)'
      BY <3>2 DEF Allocating
    <3> QED
      BY <1>1, <2>1, <3>1, <3>4, <3>5 DEF InGc
  <2>5. CASE AllocFill(f)
    <3>1. fl[f].seg \in Segments /\ svt' = svt /\ logging_segno' = logging_segno
      BY <1>0, <2>5 DEF AllocFill, At, FlShape
    <3>2. \A g \in Flushers \ {f} : fl'[g] = fl[g]
      BY <1>0, <2>5 DEF AllocFill, Goto
    <3>3. s # fl[f].seg
      BY <1>0, <2>5, <3>1 DEF AllocFill, FullEntry
    <3>4. dst'[s] = dst[s] /\ victims'[s] = victims[s]
      BY <1>0, <2>5, <3>1, <3>3 DEF AllocFill, DestroyVictim
    <3>5. Allocating(s) => Allocating(s)'
      BY <3>2, <3>3 DEF Allocating
    <3> QED
      BY <1>1, <2>1, <3>1, <3>4, <3>5 DEF InGc
  <2>6. CASE LogTake(f)
    <3>1. /\ svt' = svt \cup {logging_segno}
          /\ UNCHANGED <<dst, victims, logging_segno>>
          /\ fl[f].pc = "logtake"
      BY <2>6 DEF LogTake, seg_validator_take, At
    <3>2. \A g \in Flushers \ {f} : fl'[g] = fl[g]
      BY <1>0, <2>6 DEF LogTake
    <3>3. Allocating(s) => Allocating(s)'
      BY <3>1, <3>2 DEF Allocating
    <3> QED
      BY <1>1, <2>1, <3>1, <3>3 DEF InGc
  <2> QED
    BY <2>2, <2>3, <2>4, <2>5, <2>6
<1>3. CASE CompactReset
  BY <1>1, <1>3 DEF CompactReset, tables, history, InGc, Allocating
<1>4. CASE CompactReturn
  <2>1. cp \in Pbas /\ dst_return_block(cp)
    BY <1>4 DEF CompactReturn, Typing, TypeOK
  <2>2. UNCHANGED <<svt, logging_segno, gc, fl, forgotten>>
    BY <1>4 DEF CompactReturn, history
  <2> QED
    BY <1>0, <1>1, <2>1, <2>2, ReturnReaches DEF InGc, Allocating
<1>5. CASE Gc
  <2>0. gc \in GcState
    BY DEF Typing, TypeOK
  <2>1. UNCHANGED <<fl, forgotten, logging_segno>>
    BY <1>5 DEF Gc, GcStart, GcPop, GcCheck, GcReset, GcSearch, GcNegate,
         GcReturnSegment, GcClear, GcLoad, GcStore, tables, history
  <2>2. Allocating(s) => Allocating(s)'
    BY <2>1 DEF Allocating
  <2>3. CASE UNCHANGED <<svt, dst, victims>> /\ (InGc(s) => InGc(s)' \/ s = logging_segno)
    BY <1>1, <2>1, <2>2, <2>3
  <2>4. CASE GcStart \/ GcCheck \/ GcReset \/ GcSearch \/ GcNegate \/ GcLoad
    BY <2>0, <2>3, <2>4 DEF GcStart, GcCheck, GcReset, GcSearch, GcNegate, GcLoad,
         GcSkip, GcAt, tables, InGc, GcState
  <2>5. CASE GcStore
    BY <2>3, <2>5 DEF GcStore, GcAt, InGc
  <2>6. CASE GcPop
    <3>1. CASE victims' = victims
      BY <2>3, <2>6, <3>1 DEF GcPop, GcAt, InGc
    <3>2. CASE \E v \in VictimSet :
                 /\ gc' = [gc EXCEPT !.pc = "check", !.seg = v, !.nr = victims[v].nr,
                                     !.todo = victims[v].map, !.count = 0]
                 /\ DestroyVictim(v)
      <4>1. PICK v \in VictimSet :
              /\ gc' = [gc EXCEPT !.pc = "check", !.seg = v, !.nr = victims[v].nr,
                                  !.todo = victims[v].map, !.count = 0]
              /\ DestroyVictim(v)
        BY <3>2
      <4>2. gc'.pc = "check" /\ gc'.seg = v
        BY <2>0, <4>1 DEF GcState
      <4>3. s # v => victims'[s] = victims[s]
        BY <1>0, <4>1 DEF DestroyVictim, VictimSet
      <4>4. dst' = dst /\ svt' = svt /\ gc.pc = "pop"
        BY <2>6 DEF GcPop, GcAt
      <4> QED
        BY <1>1, <2>1, <2>2, <4>2, <4>3, <4>4 DEF InGc
    <3> QED
      BY <2>6, <3>1, <3>2 DEF GcPop
  <2>7. CASE GcReturnSegment
    <3>1. gc'.pc = "clear" /\ gc'.seg = gc.seg /\ svt' = svt
      BY <2>0, <2>7 DEF GcReturnSegment, GcState
    <3>2. s # gc.seg => dst'[s] = dst[s] /\ victims'[s] = victims[s]
      BY <1>0, <2>7 DEF GcReturnSegment, dst_return_segment, DestroyVictim
    <3> QED
      BY <1>1, <2>1, <2>2, <3>1, <3>2 DEF InGc
  <2>8. CASE GcClear
    <3>1. svt' = svt \ {gc.seg} /\ UNCHANGED <<dst, victims>>
      BY <2>8 DEF GcClear
    <3> QED
      BY <1>1, <2>1, <2>2, <3>1 DEF InGc
  <2> QED
    BY <1>5, <2>4, <2>5, <2>6, <2>7, <2>8 DEF Gc
<1>6. CASE Reopen
  BY <1>0, <1>6 DEF Reopen
<1>7. CASE UNCHANGED vars
  BY <1>1, <1>7 DEF vars, tables, history, InGc, Allocating
<1> QED
  BY <1>2, <1>3, <1>4, <1>5, <1>6, <1>7 DEF Next

(* While the device is open no taken segment is lost: garbage collection   *)
(* or threaded logging will find every one that is not full, except those  *)
(* dst_load had already left without a victim.                             *)
THEOREM NoLeak == Spec => []NoSegmentLeak
<1>1. Init => CountExact /\ PartialReachable /\ EmptyReachable
  <2>1. ASSUME Init PROVE \A s \in Segments : dst[s].nr = 0 /\ dst[s].map = {}
    BY <2>1 DEF Init, EmptyEntry
  <2> QED
    BY <2>1, FS_EmptySet DEF Init, CountExact, PartialReachable, EmptyReachable
<1>2. Typing /\ PartialReachable /\ EmptyReachable => NoSegmentLeak
  BY DEF Typing, TypeOK, PartialReachable, EmptyReachable, NoSegmentLeak, Held,
         InGc, Allocating
<1> QED
  BY <1>1, <1>2, InitTyping, InitLock, StepTyping, StepLock, StepCount, StepPartial, StepEmpty,
     PTL
     DEF Spec

-----------------------------------------------------------------------------
(* The data segment table never marks a live block free, whatever number   *)
(* of threads flush buffers, until one of the races has happened.          *)

Valid(p) == p[2] \in dst[p[1]].map

(* A superseded record that makes compaction return p: the RIT still names *)
(* the record's lba.                                                       *)
Doomed(p) == \E l \in Lbas : <<l, p>> \in stale /\ rit[p] = l

Collecting == {"check", "reset", "search", "negate"}

(* The block flusher f is writing a record for.                            *)
Target(f) == <<fl[f].seg, fl[f].off>>

(* The blocks that are f's to use: the rest of the segment it allocated,   *)
(* or the one block threaded logging gave it.                              *)
Own(f, p) ==
  /\ fl[f].pc \in Putting
  /\ p[1] = fl[f].seg
  /\ IF fl[f].mode = "segment" THEN p[2] >= fl[f].off ELSE p[2] = fl[f].off
Owned(p) == \E f \in Flushers : Own(f, p)

(* If the collector holds the segment of p it has p still to visit.        *)
Unvisited(p) == InGc(p[1]) => gc.pc \in Collecting /\ p[2] \in gc.todo

(* A free segment is empty, a victim is taken and its copy is exact.       *)
TablesAgree ==
  /\ \A s \in Segments \ svt : dst[s].nr = 0
  /\ \A s \in Segments : victims[s] # NoVictim => s \in svt /\ victims[s] = dst[s]

(* What the collector's place says about the segment it holds.             *)
GcHolds ==
  /\ \A s \in Segments : InGc(s) => s \in svt /\ (Filling(s) => gc.pc = "check")
  /\ gc.pc = "check" /\ gc.nr = 0 => gc.todo = {}
  /\ gc.pc = "clear" => dst[gc.seg].nr = 0 /\ victims[gc.seg] = NoVictim
  /\ gc.pc \in {"search", "negate"} => rit[GcBlock] = INF

(* Why the reverse index leads the collector to a live block's lba.        *)
Named(l, p) ==
  \/ rit[p] = l
  \/ \E f \in Flushers : fl[f].pc \in {"return", "set"} /\ p = Target(f) /\ l = Min(fl[f].todo)
  \/ gc.pc \in {"search", "negate"} /\ GcBlock = p /\ gc.lba = l

LiveHeld ==
  \A l \in Lbas, p \in Pbas : idx[l] = p =>
    /\ Valid(p) /\ Named(l, p) /\ Unvisited(p)
    /\ \A m \in Lbas : idx[m] = p => m = l
    /\ p \notin Returning /\ ~Doomed(p) /\ <<l, p>> \notin stale

DoomedHeld ==
  \A p \in Pbas : Doomed(p) => Valid(p) /\ ~Owned(p) /\ Unvisited(p)

(* A block on its way back is still marked valid, and nobody else will     *)
(* return it.                                                              *)
ReturningHeld ==
  /\ \A p \in Pbas : p \in Returning => Valid(p) /\ rit[p] = INF /\ ~Owned(p)
  /\ \A f \in Flushers : fl[f].old # NoPba =>
       /\ fl[f].pc = "return" /\ fl[f].old # cp
       /\ \A g \in Flushers : fl[g].old = fl[f].old => g = f

(* A segment taken and not yet filled is empty and nobody else's.          *)
Allocated ==
  \A f \in Flushers : fl[f].pc = "fill" =>
    /\ fl[f].seg \in svt /\ dst[fl[f].seg].nr = 0
    /\ victims[fl[f].seg] = NoVictim /\ ~InGc(fl[f].seg)
    /\ \A g \in Flushers : fl[g].pc = "fill" /\ fl[g].seg = fl[f].seg => g = f

(* A flusher's own blocks are valid and its alone, the collector has them  *)
(* still to visit, and no record but the one it has just put names them.   *)
OwnHeld ==
  \A f \in Flushers, p \in Pbas : Own(f, p) =>
    /\ Valid(p) /\ Unvisited(p)
    /\ \A g \in Flushers : Own(g, p) => g = f
    /\ \A l \in Lbas : idx[l] = p =>
         fl[f].pc \in {"return", "set"} /\ p = Target(f) /\ l = Min(fl[f].todo)

Sound == /\ TablesAgree /\ GcHolds /\ LiveHeld /\ DoomedHeld /\ ReturningHeld
         /\ Allocated /\ OwnHeld

LiveInv == hazards = {} => Sound

-----------------------------------------------------------------------------
(* Facts about entries, blocks and flushers.                               *)

LEMMA EmptyMap ==
  ASSUME TypeOK, CountExact, NEW s \in Segments
  PROVE  /\ dst[s].nr = 0 <=> dst[s].map = {}
         /\ dst[s] \in Entry /\ dst[s].map \in SUBSET Offsets
<1>1. dst[s] \in Entry /\ dst[s].map \in SUBSET Offsets
  BY DEF TypeOK, Entry
<1>2. IsFiniteSet(Offsets)
  BY SizesAssumption, FS_Interval DEF Offsets
<1>3. IsFiniteSet(dst[s].map)
  BY <1>1, <1>2, FS_Subset
<1> QED BY <1>1, <1>3, FS_EmptySet DEF CountExact

LEMMA PbaFacts ==
  /\ \A p \in Pbas : p[1] \in Segments /\ p[2] \in Offsets /\ p = <<p[1], p[2]>>
  /\ \A s \in Segments, o \in Offsets : <<s, o>> \in Pbas /\ <<s, o>>[1] = s /\ <<s, o>>[2] = o
  /\ NoPba \notin Pbas /\ NoPba[1] = INF /\ INF \notin Segments /\ INF \notin Lbas
BY SizesAssumption DEF Pbas, NoPba, INF, Segments, Lbas

(* dst_return_block of a block whose bit is set.                           *)
LEMMA ReturnFacts ==
  ASSUME TypeOK, CountExact, NEW p \in Pbas, Valid(p), dst_return_block(p)
  PROVE  /\ dst[p[1]].nr # 0
         /\ \A s \in Segments : s # p[1] => dst'[s] = dst[s] /\ victims'[s] = victims[s]
         /\ victims'[p[1]] = NoVictim \/ victims'[p[1]] = dst'[p[1]]
         /\ \A q \in Pbas : Valid(q)' <=> Valid(q) /\ q # p
<1>1. p[1] \in Segments /\ p[2] \in Offsets
  BY PbaFacts
<1>2. dst[p[1]].nr # 0 /\ dst[p[1]] \in Entry
  BY <1>1, EmptyMap DEF Valid
<1> DEFINE e == ClearBlock(dst[p[1]], p[2])
<1>3. /\ dst' = [dst EXCEPT ![p[1]] = e]
      /\ victims' = [victims EXCEPT ![p[1]] = VictimOf(e)]
  BY <1>2 DEF dst_return_block
<1>4. e.map = dst[p[1]].map \ {p[2]}
  BY <1>1, <1>2 DEF ClearBlock, Valid, Entry
<1>5. VictimOf(e) = NoVictim \/ VictimOf(e) = e
  BY DEF VictimOf
<1> HIDE DEF e
<1>6. /\ dst'[p[1]] = e /\ victims'[p[1]] = VictimOf(e)
      /\ \A s \in Segments : s # p[1] => dst'[s] = dst[s] /\ victims'[s] = victims[s]
  BY <1>1, <1>3 DEF TypeOK
<1>7. ASSUME NEW q \in Pbas PROVE Valid(q)' <=> Valid(q) /\ q # p
  <2>1. q[1] \in Segments /\ q = <<q[1], q[2]>> /\ p = <<p[1], p[2]>>
    BY PbaFacts
  <2>2. CASE q[1] = p[1]
    BY <1>4, <1>6, <2>1, <2>2 DEF Valid
  <2>3. CASE q[1] # p[1]
    BY <1>6, <2>1, <2>3 DEF Valid
  <2> QED BY <2>2, <2>3
<1> QED BY <1>2, <1>5, <1>6, <1>7

(* A flusher that writes records has a block of its own.                   *)
LEMMA OwnTarget ==
  ASSUME Typing, NEW f \in Flushers, fl[f].pc \in Putting
  PROVE  /\ Target(f) \in Pbas /\ Target(f)[1] = fl[f].seg /\ Target(f)[2] = fl[f].off
         /\ Own(f, Target(f)) /\ fl[f].seg \in Segments /\ fl[f].off \in Offsets
<1>1. fl[f].seg \in Segments /\ fl[f].off \in Offsets
  BY DEF Typing, FlShape, Putting
<1>2. fl[f].off >= fl[f].off
  BY <1>1, SizesAssumption DEF Offsets
<1> QED BY <1>1, <1>2, PbaFacts DEF Target, Own

(* A step of flusher f while it writes no record, which of the tables at   *)
(* most takes a segment or drops a victim.                                 *)
LEMMA QuietFlush ==
  ASSUME Typing, Sound, NEW f \in Flushers,
         UNCHANGED <<dst, rit, idx, stale, gc, cp>>, svt \subseteq svt',
         \A s \in Segments : victims'[s] \in {victims[s], NoVictim},
         \A g \in Flushers \ {f} : fl'[g] = fl[g],
         fl[f].pc \notin Putting, fl'[f].pc \notin Putting, fl'[f].pc # "fill",
         fl'[f].old = NoPba \/ fl'[f].old = fl[f].old
  PROVE  Sound'
<1>1. \A g \in Flushers : fl[g].pc \in Putting \/ fl'[g].pc \in Putting => g # f /\ fl'[g] = fl[g]
  OBVIOUS
<1>2. \A s : Filling(s)' <=> Filling(s)
  BY <1>1 DEF Filling
<1>3. fl[f].old = NoPba /\ fl'[f].old = NoPba
  BY DEF Sound, ReturningHeld, Putting
<1>4. Returning' = Returning
  BY <1>3 DEF Returning
<1>5. /\ \A p : (Valid(p)' <=> Valid(p)) /\ (Doomed(p)' <=> Doomed(p))
      /\ \A p : Unvisited(p)' <=> Unvisited(p)
      /\ \A s : InGc(s)' <=> InGc(s)
  BY DEF Valid, Doomed, Unvisited, InGc, Collecting
<1>6. \A l, p : Named(l, p) => Named(l, p)'
  <2> SUFFICES ASSUME NEW l, NEW p, Named(l, p) PROVE Named(l, p)'
    OBVIOUS
  <2>1. ASSUME NEW g \in Flushers, fl[g].pc \in {"return", "set"}, p = Target(g),
               l = Min(fl[g].todo)
        PROVE  Named(l, p)'
    <3>1. fl'[g] = fl[g]
      BY <1>1, <2>1 DEF Putting
    <3> QED BY <2>1, <3>1 DEF Named, Target
  <2> QED BY <2>1 DEF Named, GcBlock
<1>7. \A g \in Flushers : \A p : Own(g, p)' <=> Own(g, p)
  BY <1>1 DEF Own
<1>8. TablesAgree'
  BY DEF Sound, TablesAgree
<1>9. GcHolds'
  <2>1. gc.pc = "clear" => gc.seg \in Segments
    BY DEF Typing, GcShape
  <2> QED BY <1>2, <1>5, <2>1 DEF Sound, GcHolds, GcBlock
<1>10. LiveHeld'
  BY <1>4, <1>5, <1>6 DEF Sound, LiveHeld
<1>11. DoomedHeld'
  BY <1>5, <1>7 DEF Sound, DoomedHeld, Owned
<1>12. ReturningHeld'
  <2>1. \A p \in Pbas : p \in Returning' => Valid(p)' /\ rit'[p] = INF /\ ~Owned(p)'
    BY <1>4, <1>5, <1>7 DEF Sound, ReturningHeld, Owned
  <2>2. \A g \in Flushers : fl'[g].old = fl[g].old /\ (fl[g].old # NoPba => fl'[g] = fl[g])
    BY <1>3
  <2> QED BY <2>1, <2>2 DEF Sound, ReturningHeld
<1>13. Allocated'
  <2> SUFFICES ASSUME NEW g \in Flushers, fl'[g].pc = "fill"
               PROVE  /\ fl'[g].seg \in svt' /\ dst'[fl'[g].seg].nr = 0
                      /\ victims'[fl'[g].seg] = NoVictim /\ ~InGc(fl'[g].seg)
                      /\ \A h \in Flushers : fl'[h].pc = "fill" /\ fl'[h].seg = fl'[g].seg => h = g
    BY DEF Allocated, InGc
  <2>1. g # f /\ fl'[g] = fl[g] /\ \A h \in Flushers : fl'[h].pc = "fill" => fl'[h] = fl[h]
    OBVIOUS
  <2>2. fl[g].seg \in Segments
    BY <2>1 DEF Typing, FlShape
  <2> QED BY <2>1, <2>2 DEF Sound, Allocated
<1>14. OwnHeld'
  <2>1. \A g \in Flushers : \A p : Own(g, p) => fl'[g] = fl[g] /\ Target(g)' = Target(g)
    BY <1>1 DEF Own, Target
  <2> QED BY <1>5, <1>7, <2>1 DEF Sound, OwnHeld
<1> QED BY <1>8, <1>9, <1>10, <1>11, <1>12, <1>13, <1>14 DEF Sound

-----------------------------------------------------------------------------
(* The flusher's steps.                                                    *)

LEMMA FlushOutside ==
  ASSUME Typing, Sound, NEW f \in Flushers,
         \/ FlushStart(f) \/ AllocNext(f) \/ LogLeave(f) \/ LogPickVictim(f)
         \/ LogPickFree(f) \/ LogTake(f) \/ LogAccount(f) \/ LogFail(f)
  PROVE  Sound'
<1> USE DEF tables, index, history
<1>0. fl \in [Flushers -> FlState] /\ victims \in [Segments -> Entry \cup {NoVictim}] /\ TypeOK
  BY DEF Typing, TypeOK
<1>1. UNCHANGED <<dst, rit, idx, stale, gc, cp>>
  BY DEF FlushStart, AllocNext, LogLeave, LogPickVictim, LogPickFree, LogTake, LogAccount, LogFail
<1>2. svt \subseteq svt'
  BY DEF FlushStart, AllocNext, LogLeave, LogPickVictim, LogPickFree, LogTake, LogAccount,
         LogFail, seg_validator_take
<1>3. \A s \in Segments : victims'[s] \in {victims[s], NoVictim}
  BY <1>0 DEF FlushStart, AllocNext, LogLeave, LogPickVictim, LogPickFree, LogTake, LogAccount,
         LogFail, DestroyVictim
<1>4. fl[f].pc \notin Putting
  BY DEF FlushStart, AllocNext, LogLeave, LogPickVictim, LogPickFree, LogTake, LogAccount,
         LogFail, Logging, At, Putting
<1>5. /\ fl'[f].pc \notin Putting /\ fl'[f].pc # "fill"
      /\ fl'[f].old = NoPba \/ fl'[f].old = fl[f].old
      /\ \A g \in Flushers \ {f} : fl'[g] = fl[g]
  <2>1. CASE FlushStart(f)
    BY <1>0, <2>1 DEF FlushStart, IdleFl, Putting
  <2>2. CASE AllocNext(f)
    <3>1. CASE FreeSegments # {}
      <4>1. fl' = [fl EXCEPT ![f].pc = "take", ![f].seg = NextSegment]
        BY <2>2, <3>1 DEF AllocNext
      <4> QED BY <1>0, <4>1 DEF FlState, Putting
    <3>2. CASE FreeSegments = {}
      <4>1. fl' = [fl EXCEPT ![f].pc = "log", ![f].mode = "logging"]
        BY <2>2, <3>2 DEF AllocNext
      <4> QED BY <1>0, <4>1 DEF FlState, Putting
    <3> QED BY <3>1, <3>2
  <2>3. CASE LogLeave(f) \/ LogPickVictim(f) \/ LogPickFree(f) \/ LogAccount(f)
    <3>1. \E pc \in {"relog", "logtake"} : fl' = [fl EXCEPT ![f].pc = pc]
      BY <2>3 DEF LogLeave, LogPickVictim, LogPickFree, LogAccount, Goto
    <3> QED BY <1>0, <3>1 DEF FlState, Putting
  <2>4. CASE LogTake(f)
    <3>1. fl' = [fl EXCEPT ![f].pc = "account", ![f].tmp = nr_valid_segment]
      BY <2>4 DEF LogTake
    <3> QED BY <1>0, <3>1 DEF FlState, Putting
  <2>5. CASE LogFail(f)
    <3> DEFINE r == fl[f]
               rest == r.todo \ {Min(r.todo)}
               more == [r EXCEPT !.pc = "log", !.todo = rest, !.off = r.off]
    <3>1. fl' = [fl EXCEPT ![f] = IF rest = {} THEN IdleFl ELSE more]
      BY <2>5 DEF LogFail, Advance
    <3>2. more.pc = "log" /\ more.old = r.old /\ IdleFl.pc = "idle" /\ IdleFl.old = NoPba
      BY <1>0 DEF FlState, IdleFl
    <3>3. /\ fl'[f] = IdleFl \/ fl'[f] = more
          /\ \A g \in Flushers \ {f} : fl'[g] = fl[g]
      BY <1>0, <3>1
    <3> HIDE DEF more
    <3> QED BY <3>2, <3>3 DEF Putting
  <2> QED BY <2>1, <2>2, <2>3, <2>4, <2>5
<1> QED BY <1>1, <1>2, <1>3, <1>4, <1>5, QuietFlush

(* svt->take of a segment that is still free.                              *)
LEMMA SoundTake ==
  ASSUME Typing, Sound, NEW f \in Flushers, AllocTake(f), hazards' = {}
  PROVE  Sound'
<1> USE DEF tables, index, history
<1>0. fl \in [Flushers -> FlState]
  BY DEF Typing, TypeOK
<1> DEFINE s == fl[f].seg
<1>1. /\ fl' = [fl EXCEPT ![f].pc = "fill", ![f].tmp = nr_valid_segment]
      /\ svt' = svt \cup {s} /\ fl[f].pc = "take"
      /\ UNCHANGED <<dst, victims, rit, idx, stale, gc, cp>>
  BY DEF AllocTake, seg_validator_take, At
<1>2. /\ fl'[f].pc = "fill" /\ fl'[f].seg = s /\ fl'[f].old = fl[f].old
      /\ \A g \in Flushers : g # f => fl'[g] = fl[g]
  BY <1>0, <1>1 DEF FlState
<1>3. s \in Segments /\ s \notin svt
  BY <1>1 DEF Typing, FlShape, AllocTake, Race
<1>4. dst[s].nr = 0 /\ victims[s] = NoVictim /\ ~InGc(s)
  BY <1>3 DEF Sound, TablesAgree, GcHolds
<1>5. \A x : Filling(x)' <=> Filling(x)
  BY <1>1, <1>2 DEF Filling, Putting
<1>6. Returning' = Returning /\ \A g \in Flushers : fl'[g].old = fl[g].old
  <2>1. \A g \in Flushers : fl'[g].old = fl[g].old
    BY <1>2
  <2> QED BY <1>1, <2>1 DEF Returning
<1>7. /\ \A p : (Valid(p)' <=> Valid(p)) /\ (Doomed(p)' <=> Doomed(p))
      /\ \A p : Unvisited(p)' <=> Unvisited(p)
      /\ \A x : InGc(x)' <=> InGc(x)
  BY <1>1 DEF Valid, Doomed, Unvisited, InGc, Collecting
<1>8. \A l, p : Named(l, p) => Named(l, p)'
  BY <1>1, <1>2 DEF Named, GcBlock, Target
<1>9. \A g \in Flushers : \A p : /\ Own(g, p)' <=> Own(g, p)
                                 /\ Own(g, p) => g # f
  BY <1>1, <1>2 DEF Own, Putting
<1> HIDE DEF s
<1>10. TablesAgree'
  BY <1>1 DEF Sound, TablesAgree
<1>11. GcHolds'
  BY <1>1, <1>5, <1>7 DEF Sound, GcHolds, GcBlock
<1>12. LiveHeld'
  BY <1>1, <1>6, <1>7, <1>8 DEF Sound, LiveHeld
<1>13. DoomedHeld'
  BY <1>7, <1>9 DEF Sound, DoomedHeld, Owned
<1>14. ReturningHeld'
  <2>1. \A p \in Pbas : p \in Returning' => Valid(p)' /\ rit'[p] = INF /\ ~Owned(p)'
    BY <1>1, <1>6, <1>7, <1>9 DEF Sound, ReturningHeld, Owned
  <2>2. fl[f].old = NoPba
    BY <1>1 DEF Sound, ReturningHeld
  <2>3. \A g \in Flushers : fl'[g].old # NoPba => fl'[g] = fl[g]
    BY <1>2, <2>2
  <2>4. cp' = cp
    BY <1>1
  <2>5. ASSUME NEW g \in Flushers, fl'[g].old # NoPba
        PROVE  /\ fl'[g].pc = "return" /\ fl'[g].old # cp'
               /\ \A h \in Flushers : fl'[h].old = fl'[g].old => h = g
    BY <1>6, <2>3, <2>4, <2>5 DEF Sound, ReturningHeld
  <2> QED BY <2>1, <2>5 DEF ReturningHeld
<1>15. Allocated'
  <2>1. \A g \in Flushers : fl[g].pc = "fill" => fl[g].seg # s
    BY <1>3 DEF Sound, Allocated
  <2>2. \A g \in Flushers : fl'[g].pc = "fill" => g = f \/ (fl'[g] = fl[g] /\ fl[g].seg # s)
    BY <1>2, <2>1
  <2> SUFFICES ASSUME NEW g \in Flushers, fl'[g].pc = "fill"
               PROVE  /\ fl'[g].seg \in svt' /\ dst'[fl'[g].seg].nr = 0
                      /\ victims'[fl'[g].seg] = NoVictim /\ ~InGc(fl'[g].seg)
                      /\ \A h \in Flushers : fl'[h].pc = "fill" /\ fl'[h].seg = fl'[g].seg => h = g
    BY <1>1 DEF Allocated, InGc
  <2>3. svt' = svt \cup {s} /\ UNCHANGED <<dst, victims>> /\ fl'[f].seg = s
    BY <1>1, <1>2
  <2>4. CASE g = f
    BY <1>4, <2>2, <2>3, <2>4
  <2>5. CASE g # f
    BY <2>2, <2>3, <2>5 DEF Sound, Allocated
  <2> QED BY <2>4, <2>5
<1>16. OwnHeld'
  <2>1. \A g \in Flushers : \A p : Own(g, p) => fl'[g] = fl[g] /\ Target(g)' = Target(g)
    BY <1>2, <1>9 DEF Target
  <2>2. idx' = idx
    BY <1>1
  <2> QED BY <1>7, <1>9, <2>1, <2>2 DEF Sound, OwnHeld
<1> QED BY <1>10, <1>11, <1>12, <1>13, <1>14, <1>15, <1>16 DEF Sound

(* dst->take_segment: the whole of an empty segment becomes f's own.       *)
LEMMA SoundFill ==
  ASSUME Typing, CountExact, Sound, NEW f \in Flushers, AllocFill(f)
  PROVE  Sound'
<1> USE DEF tables, index, history
<1>0. /\ fl \in [Flushers -> FlState]
      /\ TypeOK /\ dst \in [Segments -> Entry]
      /\ victims \in [Segments -> Entry \cup {NoVictim}]
  BY DEF Typing, TypeOK
<1> DEFINE s == fl[f].seg
<1>1. /\ s \in Segments /\ s \in svt /\ dst[s].nr = 0 /\ ~InGc(s) /\ fl[f].pc = "fill"
      /\ fl[f].mode = "segment" /\ fl[f].off = 0
  BY <1>0 DEF AllocFill, At, Typing, FlShape, Sound, Allocated
<1>2. /\ fl' = [fl EXCEPT ![f].pc = "put"]
      /\ dst' = [dst EXCEPT ![s] = FullEntry] /\ victims' = [victims EXCEPT ![s] = NoVictim]
      /\ UNCHANGED <<svt, rit, idx, stale, gc, cp>>
  BY <1>1 DEF AllocFill, DestroyVictim, Goto
<1>3. /\ fl'[f].pc = "put" /\ fl'[f].seg = s /\ fl'[f].old = fl[f].old
      /\ fl'[f].mode = "segment" /\ fl'[f].off = 0
      /\ \A g \in Flushers : g # f => fl'[g] = fl[g]
  BY <1>0, <1>1, <1>2 DEF FlState
<1>4. dst[s].map = {}
  BY <1>0, <1>1, EmptyMap
<1>5. /\ \A x \in Segments : x # s => dst'[x] = dst[x] /\ victims'[x] = victims[x]
      /\ dst'[s] = FullEntry /\ victims'[s] = NoVictim
  BY <1>0, <1>1, <1>2
<1>6. \A x : Filling(x)' => Filling(x) \/ x = s
  BY <1>1, <1>3 DEF Filling, Putting
<1>7. Returning' = Returning /\ \A g \in Flushers : fl'[g].old = fl[g].old
  BY <1>2, <1>3 DEF Returning
<1>8. \A p \in Pbas : Valid(p) => p[1] # s /\ Valid(p)'
  <2> SUFFICES ASSUME NEW p \in Pbas, Valid(p) PROVE p[1] # s /\ Valid(p)'
    OBVIOUS
  <2>1. p[1] # s
    BY <1>4 DEF Valid
  <2> QED BY <1>5, <2>1, PbaFacts DEF Valid
<1>9. /\ \A p : Doomed(p)' <=> Doomed(p)
      /\ \A p : Unvisited(p)' <=> Unvisited(p)
      /\ \A x : InGc(x)' <=> InGc(x)
  BY <1>2 DEF Doomed, Unvisited, InGc, Collecting
<1>10. \A l, p : Named(l, p) => Named(l, p)'
  BY <1>1, <1>2, <1>3 DEF Named, GcBlock, Target
<1>11. \A g \in Flushers : \A p : Own(g, p)' => (g # f /\ Own(g, p)) \/ (g = f /\ p[1] = s)
  BY <1>3 DEF Own
<1>12. \A g \in Flushers, p \in Pbas : Own(g, p) => p[1] # s
  BY <1>8 DEF Sound, OwnHeld
<1> HIDE DEF s
<1>13. TablesAgree'
  BY <1>1, <1>2, <1>5 DEF Sound, TablesAgree
<1>14. GcHolds'
  <2>1. gc.pc = "clear" => gc.seg # s /\ gc.seg \in Segments
    BY <1>1 DEF InGc, Typing, GcShape
  <2> QED BY <1>1, <1>2, <1>5, <1>6, <1>9, <2>1 DEF Sound, GcHolds, GcBlock
<1>15. LiveHeld'
  BY <1>2, <1>7, <1>8, <1>9, <1>10 DEF Sound, LiveHeld
<1>16. DoomedHeld'
  BY <1>8, <1>9, <1>11 DEF Sound, DoomedHeld, Owned
<1>17. ReturningHeld'
  <2>1. \A p \in Pbas : p \in Returning' => Valid(p)' /\ rit'[p] = INF /\ ~Owned(p)'
    BY <1>2, <1>7, <1>8, <1>11 DEF Sound, ReturningHeld, Owned
  <2>2. fl[f].old = NoPba
    BY <1>1 DEF Sound, ReturningHeld
  <2> QED BY <1>2, <1>3, <1>7, <2>1, <2>2 DEF Sound, ReturningHeld
<1>18. Allocated'
  <2> SUFFICES ASSUME NEW g \in Flushers, fl'[g].pc = "fill"
               PROVE  /\ fl'[g].seg \in svt' /\ dst'[fl'[g].seg].nr = 0
                      /\ victims'[fl'[g].seg] = NoVictim /\ ~InGc(fl'[g].seg)
                      /\ \A h \in Flushers : fl'[h].pc = "fill" /\ fl'[h].seg = fl'[g].seg => h = g
    BY <1>2 DEF Allocated, InGc
  <2>1. g # f /\ fl'[g] = fl[g] /\ \A h \in Flushers : fl'[h].pc = "fill" => fl'[h] = fl[h]
    BY <1>3
  <2>2. fl[g].seg \in Segments
    BY <2>1 DEF Typing, FlShape
  <2>3. fl[g].seg # s
    BY <1>1, <2>1 DEF Sound, Allocated, s
  <2> QED BY <1>2, <1>5, <2>1, <2>2, <2>3 DEF Sound, Allocated
<1>19. OwnHeld'
  <2> SUFFICES ASSUME NEW g \in Flushers, NEW p \in Pbas, Own(g, p)'
               PROVE  /\ Valid(p)' /\ Unvisited(p)'
                      /\ \A h \in Flushers : Own(h, p)' => h = g
                      /\ \A l \in Lbas : idx'[l] = p =>
                           /\ fl'[g].pc \in {"return", "set"} /\ p = Target(g)'
                           /\ l = Min(fl'[g].todo)
    BY DEF OwnHeld
  <2>1. CASE g = f
    <3>1. p[1] = s /\ p[2] \in Offsets
      BY <1>11, <2>1, PbaFacts
    <3>2. Valid(p)' /\ Unvisited(p)'
      BY <1>1, <1>5, <1>9, <3>1 DEF Valid, FullEntry, Unvisited
    <3>3. \A h \in Flushers : Own(h, p)' => h = g
      BY <1>11, <1>12, <2>1, <3>1
    <3>4. \A l \in Lbas : idx'[l] # p
      BY <1>2, <1>8, <3>1 DEF Sound, LiveHeld
    <3> QED BY <3>2, <3>3, <3>4
  <2>2. CASE g # f
    <3>1. Own(g, p) /\ fl'[g] = fl[g] /\ Target(g)' = Target(g) /\ p[1] # s
      BY <1>3, <1>11, <1>12, <2>2 DEF Target
    <3>2. Valid(p)' /\ Unvisited(p)'
      BY <1>8, <1>9, <3>1 DEF Sound, OwnHeld
    <3>3. \A h \in Flushers : Own(h, p)' => h = g
      BY <1>11, <3>1 DEF Sound, OwnHeld
    <3> QED BY <1>2, <3>1, <3>2, <3>3 DEF Sound, OwnHeld
  <2> QED BY <2>1, <2>2
<1> QED BY <1>13, <1>14, <1>15, <1>16, <1>17, <1>18, <1>19 DEF Sound

(* Threaded logging takes a free block of a segment nobody else claims.    *)
LEMMA SoundLogTakeBlock ==
  ASSUME Typing, Sound, NEW f \in Flushers, LogTakeBlock(f), hazards' = {}
  PROVE  Sound'
<1> USE DEF tables, index, history
<1> DEFINE s == logging_segno
           o == Min(Offsets \ dst[s].map)
           b == <<s, o>>
<1>0. fl \in [Flushers -> FlState] /\ dst \in [Segments -> Entry]
  BY DEF Typing, TypeOK
<1>1. s \in Segments /\ ~NoRoom(dst[s]) /\ ~Contested(s) /\ fl[f].pc \in {"log", "relog"}
  BY DEF LogTakeBlock, Logging, At, Typing, TypeOK, Race
<1>2. o \in Offsets /\ o \notin dst[s].map
  <2>1. Offsets \ dst[s].map # {}
    BY <1>0, <1>1 DEF NoRoom, Entry
  <2>2. (Offsets \ dst[s].map) \in SUBSET Offsets
    OBVIOUS
  <2> HIDE DEF s
  <2> QED BY <2>1, <2>2, MinOffsets
<1>3. /\ ~InGc(s) /\ victims[s] = NoVictim /\ s \in svt
      /\ \A g \in Flushers : fl[g].pc = "fill" => fl[g].seg # s
  BY <1>1 DEF Contested
<1>4. /\ dst' = [dst EXCEPT ![s] = TakeBlock(dst[s], o)]
      /\ fl' = [fl EXCEPT ![f].pc = "put", ![f].seg = s, ![f].off = o]
      /\ UNCHANGED <<svt, victims, rit, idx, stale, gc, cp>>
  BY DEF LogTakeBlock
<1>5. /\ fl'[f].pc = "put" /\ fl'[f].seg = s /\ fl'[f].off = o /\ fl'[f].old = fl[f].old
      /\ fl'[f].mode = "logging"
      /\ \A g \in Flushers : g # f => fl'[g] = fl[g]
  <2>1. fl[f].mode = "logging"
    BY <1>1 DEF Typing, FlShape
  <2> HIDE DEF s, o
  <2> QED BY <1>0, <1>4, <2>1 DEF FlState
<1>6. b \in Pbas /\ b[1] = s /\ b[2] = o /\ ~Valid(b)
  BY <1>1, <1>2, PbaFacts DEF Valid
<1>7. /\ \A x \in Segments : x # s => dst'[x] = dst[x]
      /\ dst'[s].map = dst[s].map \cup {o}
  BY <1>0, <1>1, <1>4 DEF TakeBlock
<1>8. UNCHANGED <<svt, victims, rit, idx, stale, gc, cp>>
  BY <1>4
<1> HIDE DEF s, o, b
<1>9. \A p \in Pbas : Valid(p)' <=> Valid(p) \/ p = b
  <2> SUFFICES ASSUME NEW p \in Pbas PROVE Valid(p)' <=> Valid(p) \/ p = b
    OBVIOUS
  <2>1. p[1] \in Segments /\ p = <<p[1], p[2]>> /\ b = <<s, o>>
    BY PbaFacts DEF b
  <2>2. CASE p[1] = s
    BY <1>7, <2>1, <2>2 DEF Valid
  <2>3. CASE p[1] # s
    BY <1>6, <1>7, <2>1, <2>3 DEF Valid
  <2> QED BY <2>2, <2>3
<1>10. \A x : Filling(x)' => Filling(x) \/ x = s
  BY <1>5 DEF Filling
<1>11. Returning' = Returning /\ \A g \in Flushers : fl'[g].old = fl[g].old
  <2>1. \A g \in Flushers : fl'[g].old = fl[g].old
    BY <1>5
  <2> QED BY <1>8, <2>1 DEF Returning
<1>12. /\ \A p : Doomed(p)' <=> Doomed(p)
       /\ \A p : Unvisited(p)' <=> Unvisited(p)
       /\ \A x : InGc(x)' <=> InGc(x)
  BY <1>8 DEF Doomed, Unvisited, InGc, Collecting
<1>13. \A l, p : Named(l, p) => Named(l, p)'
  <2> SUFFICES ASSUME NEW l, NEW p, Named(l, p) PROVE Named(l, p)'
    OBVIOUS
  <2>1. ASSUME NEW g \in Flushers, fl[g].pc \in {"return", "set"}, p = Target(g),
               l = Min(fl[g].todo)
        PROVE  Named(l, p)'
    <3>1. fl'[g] = fl[g]
      BY <1>1, <1>5, <2>1
    <3> QED BY <2>1, <3>1 DEF Named, Target
  <2> QED BY <1>8, <2>1 DEF Named, GcBlock
<1>14. \A g \in Flushers, p \in Pbas : Own(g, p)' => (g # f /\ Own(g, p)) \/ (g = f /\ p = b)
  <2>1. ASSUME NEW p \in Pbas, Own(f, p)' PROVE p = b
    BY <1>5, <2>1, PbaFacts DEF Own, b
  <2>2. ASSUME NEW g \in Flushers, NEW p \in Pbas, g # f, Own(g, p)' PROVE Own(g, p)
    BY <1>5, <2>2 DEF Own
  <2> QED BY <2>1, <2>2
<1>15. \A g \in Flushers : ~Own(g, b)
  BY <1>6 DEF Sound, OwnHeld
<1>16. \A g \in Flushers, p \in Pbas : Own(g, p) => g # f
  BY <1>1 DEF Own, Putting
<1>17. TablesAgree'
  BY <1>3, <1>7, <1>8 DEF Sound, TablesAgree
<1>18. GcHolds'
  <2>1. gc.pc = "clear" => gc.seg # s /\ gc.seg \in Segments
    BY <1>3 DEF InGc, Typing, GcShape
  <2> QED BY <1>3, <1>7, <1>8, <1>10, <1>12, <2>1 DEF Sound, GcHolds, GcBlock
<1>19. LiveHeld'
  BY <1>8, <1>9, <1>11, <1>12, <1>13 DEF Sound, LiveHeld
<1>20. DoomedHeld'
  <2>1. ~Doomed(b)
    BY <1>6 DEF Sound, DoomedHeld
  <2> QED BY <1>9, <1>12, <1>14, <2>1 DEF Sound, DoomedHeld, Owned
<1>21. ReturningHeld'
  <2>0. b \notin Returning
    BY <1>6 DEF Sound, ReturningHeld
  <2>1. \A p \in Pbas : p \in Returning' => Valid(p)' /\ rit'[p] = INF /\ ~Owned(p)'
    BY <1>8, <1>9, <1>11, <1>14, <2>0 DEF Sound, ReturningHeld, Owned
  <2>2. fl[f].old = NoPba
    BY <1>1 DEF Sound, ReturningHeld
  <2>3. \A g \in Flushers : fl'[g].old # NoPba => fl'[g] = fl[g]
    BY <1>5, <2>2
  <2>4. ASSUME NEW g \in Flushers, fl'[g].old # NoPba
        PROVE  /\ fl'[g].pc = "return" /\ fl'[g].old # cp'
               /\ \A h \in Flushers : fl'[h].old = fl'[g].old => h = g
    BY <1>8, <1>11, <2>3, <2>4 DEF Sound, ReturningHeld
  <2> QED BY <2>1, <2>4 DEF ReturningHeld
<1>22. Allocated'
  <2>1. \A g \in Flushers : fl'[g].pc = "fill" =>
          fl'[g] = fl[g] /\ fl[g].seg # s /\ fl[g].seg \in Segments
    BY <1>3, <1>5 DEF Typing, FlShape
  <2> SUFFICES ASSUME NEW g \in Flushers, fl'[g].pc = "fill"
               PROVE  /\ fl'[g].seg \in svt' /\ dst'[fl'[g].seg].nr = 0
                      /\ victims'[fl'[g].seg] = NoVictim /\ ~InGc(fl'[g].seg)
                      /\ \A h \in Flushers : fl'[h].pc = "fill" /\ fl'[h].seg = fl'[g].seg => h = g
    BY <1>8 DEF Allocated, InGc
  <2> QED BY <1>7, <1>8, <2>1 DEF Sound, Allocated
<1>23. OwnHeld'
  <2> SUFFICES ASSUME NEW g \in Flushers, NEW p \in Pbas, Own(g, p)'
               PROVE  /\ Valid(p)' /\ Unvisited(p)'
                      /\ \A h \in Flushers : Own(h, p)' => h = g
                      /\ \A l \in Lbas : idx'[l] = p =>
                           /\ fl'[g].pc \in {"return", "set"} /\ p = Target(g)'
                           /\ l = Min(fl'[g].todo)
    BY DEF OwnHeld
  <2>1. CASE g = f
    <3>1. p = b
      BY <1>14, <2>1
    <3>2. Valid(p)' /\ Unvisited(p)'
      BY <1>3, <1>6, <1>9, <1>12, <3>1 DEF Unvisited
    <3>3. \A h \in Flushers : Own(h, p)' => h = g
      BY <1>14, <1>15, <2>1, <3>1
    <3>4. \A l \in Lbas : idx'[l] # p
      BY <1>6, <1>8, <3>1 DEF Sound, LiveHeld
    <3> QED BY <3>2, <3>3, <3>4
  <2>2. CASE g # f
    <3>1. Own(g, p) /\ fl'[g] = fl[g] /\ Target(g)' = Target(g) /\ p # b
      BY <1>5, <1>14, <1>15, <2>2 DEF Target
    <3>2. Valid(p)' /\ Unvisited(p)'
      BY <1>9, <1>12, <3>1 DEF Sound, OwnHeld
    <3>3. \A h \in Flushers : Own(h, p)' => h = g
      BY <1>14, <3>1 DEF Sound, OwnHeld
    <3> QED BY <1>8, <3>1, <3>2, <3>3 DEF Sound, OwnHeld
  <2> QED BY <2>1, <2>2
<1> QED BY <1>17, <1>18, <1>19, <1>20, <1>21, <1>22, <1>23 DEF Sound

(* lsm_tree->put of a record: its block was nobody's, and the block of the *)
(* record it replaces is no flusher's, or compaction will not return it    *)
(* before its RIT entry is set.                                            *)
LEMMA SoundPut ==
  ASSUME Typing, Sound, NEW f \in Flushers, Put(f), hazards' = {}
  PROVE  Sound'
<1> USE DEF tables, index, history
<1> DEFINE s == fl[f].seg
           o == fl[f].off
           p == <<s, o>>
           l == Min(fl[f].todo)
           old == idx[l]
<1>0. /\ fl \in [Flushers -> FlState]
      /\ TypeOK /\ dst \in [Segments -> Entry] /\ rit \in [Pbas -> Lbas \cup {INF}]
      /\ idx \in [Lbas -> Pbas \cup {NoPba}]
  BY DEF Typing, TypeOK
<1>1. fl[f].pc = "put" /\ s \in Segments /\ o \in Offsets /\ l \in fl[f].todo /\ l \in Lbas
  <2>1. fl[f].todo \in SUBSET Lbas /\ fl[f].todo # {}
    BY <1>0 DEF Put, At, Typing, FlShape, FlState
  <2> QED BY <2>1, MinLbas DEF Put, At, Typing, FlShape
<1>2. p \in Pbas /\ p[1] = s /\ p[2] = o /\ Own(f, p) /\ p = Target(f)
  BY <1>1, OwnTarget DEF Putting, Target
<1>3. /\ idx' = [idx EXCEPT ![l] = p]
      /\ UNCHANGED <<svt, dst, victims, gc, cp>>
      /\ \/ UNCHANGED <<rit, stale>> /\ fl' = [fl EXCEPT ![f].pc = "set"]
         \/ /\ old # NoPba /\ rit' = rit /\ stale' = stale \cup {<<l, old>>}
            /\ fl' = [fl EXCEPT ![f].pc = "set"]
         \/ /\ old # NoPba /\ rit[old] = l /\ rit' = [rit EXCEPT ![old] = INF] /\ stale' = stale
            /\ fl' = [fl EXCEPT ![f].pc = "return", ![f].old = old]
  BY DEF Put, Goto
<1>4. <<l, p>> \notin stale /\ (old # NoPba /\ rit[old] = l => ~Unset(old))
  BY DEF Put
<1>5. \A g \in Flushers : fl[g].pc # "return"
  BY DEF Put, MUnlocked
<1>6. \A g \in Flushers : fl[g].old = NoPba
  BY <1>5 DEF Sound, ReturningHeld
<1>7. /\ fl'[f].pc \in {"return", "set"} /\ fl'[f].seg = s /\ fl'[f].off = o
      /\ fl'[f].todo = fl[f].todo /\ fl'[f].mode = fl[f].mode
      /\ fl'[f].old # NoPba => /\ fl'[f].pc = "return" /\ fl'[f].old = old /\ rit[old] = l
                               /\ rit' = [rit EXCEPT ![old] = INF] /\ old # NoPba
      /\ \A g \in Flushers : g # f => fl'[g] = fl[g]
  BY <1>0, <1>3, <1>6 DEF FlState
<1>8. UNCHANGED <<svt, dst, victims, gc, cp>>
  BY <1>3
<1>9. \A m \in Lbas : idx'[m] = IF m = l THEN p ELSE idx[m]
  BY <1>0, <1>1, <1>3
<1>10. old \in Pbas \cup {NoPba} /\ old # p
  <2>1. idx[l] # p
    BY <1>1, <1>2 DEF Sound, OwnHeld
  <2> QED BY <1>0, <1>1, <2>1
<1>11. old # NoPba =>
         /\ Valid(old) /\ Unvisited(old) /\ old \notin Returning /\ ~Doomed(old)
         /\ \A m \in Lbas : idx[m] = old => m = l
  BY <1>1, <1>10 DEF Sound, LiveHeld
<1>12. old # NoPba /\ rit[old] = l => ~Owned(old)
  <2> SUFFICES ASSUME old # NoPba, rit[old] = l, NEW g \in Flushers, Own(g, old) PROVE FALSE
    BY DEF Owned
  <2>1. fl[g].pc \in {"return", "set"} /\ old = Target(g)
    BY <1>1, <1>10 DEF Sound, OwnHeld
  <2> QED BY <1>4, <1>5, <2>1 DEF Unset, Target
<1>13. \A q \in Pbas : rit'[q] = rit[q] \/ (q = old /\ rit'[q] = INF)
  BY <1>0, <1>3
<1>14. /\ \A q : Valid(q)' <=> Valid(q)
       /\ \A q : Unvisited(q)' <=> Unvisited(q)
       /\ \A x : InGc(x)' <=> InGc(x)
  BY <1>8 DEF Valid, Unvisited, InGc, Collecting
<1>15. \A q \in Pbas : Doomed(q)' => Doomed(q) \/ (q = old /\ old # NoPba /\ rit[old] = l)
  <2> SUFFICES ASSUME NEW q \in Pbas, NEW m \in Lbas, <<m, q>> \in stale', rit'[q] = m,
                      ~Doomed(q)
               PROVE  q = old /\ old # NoPba /\ rit[old] = l
    BY DEF Doomed
  <2>1. m # INF
    BY PbaFacts
  <2>2. rit[q] = m
    BY <1>13, <2>1
  <2>3. <<m, q>> \notin stale
    BY <2>2 DEF Doomed
  <2>4. stale' = stale \/ (stale' = stale \cup {<<l, old>>} /\ old # NoPba)
    BY <1>3
  <2> HIDE DEF l, old
  <2> QED BY <2>2, <2>3, <2>4
<1>16. cp \in Returning /\ Returning' \subseteq {NoPba, fl'[f].old, cp}
  <2>1. \A g \in Flushers : g # f => fl'[g].old = NoPba
    BY <1>6, <1>7
  <2> HIDE DEF s, o, p, l, old
  <2> QED BY <1>8, <2>1 DEF Returning
<1>17. \A x : Filling(x)' <=> Filling(x)
  <2>1. \A g \in Flushers : (fl'[g].pc \in Putting <=> fl[g].pc \in Putting) /\ fl'[g].seg = fl[g].seg
    BY <1>1, <1>7 DEF Putting
  <2> HIDE DEF s, o, p, l, old
  <2> QED BY <2>1 DEF Filling
<1>18. \A g \in Flushers : /\ \A q : Own(g, q)' <=> Own(g, q)
                           /\ Target(g)' = Target(g) /\ fl'[g].todo = fl[g].todo
  <2>1. \A g \in Flushers : /\ fl'[g].pc \in Putting <=> fl[g].pc \in Putting
                            /\ fl'[g].seg = fl[g].seg /\ fl'[g].off = fl[g].off
                            /\ fl'[g].mode = fl[g].mode /\ fl'[g].todo = fl[g].todo
    BY <1>1, <1>7 DEF Putting
  <2> HIDE DEF s, o, p, l, old
  <2> QED BY <2>1 DEF Own, Target
<1>19. \A q : Owned(q)' <=> Owned(q)
  BY <1>18 DEF Owned
<1>20. Valid(p) /\ Unvisited(p) /\ \A m \in Lbas : idx[m] # p
  BY <1>1, <1>2 DEF Sound, OwnHeld
<1>21. p # cp /\ ~Doomed(p)
  BY <1>2, <1>16 DEF Sound, ReturningHeld, DoomedHeld, Owned
<1>22. \A r : r \in stale' => r \in stale \/ (r = <<l, old>> /\ old # NoPba)
  BY <1>3
<1> HIDE DEF s, o, p, l, old
<1>23. TablesAgree'
  BY <1>8 DEF Sound, TablesAgree
<1>24. GcHolds'
  <2>1. gc.pc \in {"search", "negate"} => GcBlock \in Pbas
    <3>1. gc.pc \in {"search", "negate"} => gc.seg \in Segments /\ gc.todo # {} /\ gc.todo \in SUBSET Offsets
      BY DEF Typing, TypeOK, GcShape, GcState
    <3> QED BY <3>1, MinOffsets, PbaFacts DEF GcBlock
  <2> QED BY <1>8, <1>13, <1>14, <1>17, <2>1 DEF Sound, GcHolds, GcBlock
<1>25. LiveHeld'
  <2> SUFFICES ASSUME NEW m \in Lbas, NEW q \in Pbas, idx'[m] = q
               PROVE  /\ Valid(q)' /\ Named(m, q)' /\ Unvisited(q)'
                      /\ \A n \in Lbas : idx'[n] = q => n = m
                      /\ q \notin Returning' /\ ~Doomed(q)' /\ <<m, q>> \notin stale'
    BY DEF LiveHeld
  <2>1. CASE m = l
    <3>1. q = p
      BY <1>9, <2>1
    <3>2. Valid(q)' /\ Unvisited(q)'
      BY <1>14, <1>20, <3>1
    <3>3. Named(m, q)'
      <4>1. p = Target(f)' /\ l = Min(fl'[f].todo)
        BY <1>2, <1>7, <1>18 DEF l
      <4> QED BY <1>7, <2>1, <3>1, <4>1 DEF Named
    <3>4. \A n \in Lbas : idx'[n] = q => n = m
      BY <1>9, <1>20, <2>1, <3>1
    <3>5. q \notin Returning'
      BY <1>2, <1>7, <1>10, <1>16, <1>21, <3>1, PbaFacts
    <3>6. ~Doomed(q)' /\ <<m, q>> \notin stale'
      BY <1>2, <1>4, <1>10, <1>15, <1>21, <1>22, <2>1, <3>1
    <3> QED BY <3>2, <3>3, <3>4, <3>5, <3>6
  <2>2. CASE m # l
    <3>1. idx[m] = q /\ q # old /\ q # p
      BY <1>9, <1>11, <1>20, <2>2, PbaFacts
    <3>2. /\ Valid(q) /\ Named(m, q) /\ Unvisited(q)
          /\ \A n \in Lbas : idx[n] = q => n = m
          /\ q \notin Returning /\ ~Doomed(q) /\ <<m, q>> \notin stale
      BY <3>1 DEF Sound, LiveHeld
    <3>3. Named(m, q)'
      <4>1. ASSUME NEW g \in Flushers, fl[g].pc \in {"return", "set"}, q = Target(g),
                   m = Min(fl[g].todo)
            PROVE  Named(m, q)'
        <5>1. fl'[g] = fl[g]
          BY <1>1, <1>7, <4>1
        <5> QED BY <4>1, <5>1 DEF Named, Target
      <4> QED BY <1>8, <1>13, <3>1, <3>2, <4>1 DEF Named, GcBlock
    <3>4. q \notin Returning'
      BY <1>7, <1>16, <3>1, <3>2, PbaFacts
    <3>5. <<m, q>> \notin stale'
      BY <1>22, <2>2, <3>2
    <3>6. \A n \in Lbas : idx'[n] = q => n = m
      BY <1>9, <3>1, <3>2
    <3> QED BY <1>14, <1>15, <3>1, <3>2, <3>3, <3>4, <3>5, <3>6
  <2> QED BY <2>1, <2>2
<1>26. DoomedHeld'
  <2> SUFFICES ASSUME NEW q \in Pbas, Doomed(q)'
               PROVE  Valid(q)' /\ ~Owned(q)' /\ Unvisited(q)'
    BY DEF DoomedHeld
  <2>1. CASE Doomed(q)
    BY <1>14, <1>19, <2>1 DEF Sound, DoomedHeld
  <2>2. CASE q = old /\ old # NoPba /\ rit[old] = l
    BY <1>11, <1>12, <1>14, <1>19, <2>2
  <2> QED BY <1>15, <2>1, <2>2
<1>27. ReturningHeld'
  <2>1. ASSUME NEW q \in Pbas, q \in Returning'
        PROVE  Valid(q)' /\ rit'[q] = INF /\ ~Owned(q)'
    <3>1. CASE q = cp
      BY <1>13, <1>14, <1>16, <1>19, <3>1 DEF Sound, ReturningHeld
    <3>2. CASE q # cp
      <4>1. q = old /\ old # NoPba /\ rit[old] = l /\ rit'[q] = INF
        BY <1>0, <1>7, <1>16, <2>1, <3>2, PbaFacts
      <4> QED BY <1>11, <1>12, <1>14, <1>19, <4>1
    <3> QED BY <3>1, <3>2
  <2>2. ASSUME NEW g \in Flushers, fl'[g].old # NoPba
        PROVE  /\ fl'[g].pc = "return" /\ fl'[g].old # cp'
               /\ \A h \in Flushers : fl'[h].old = fl'[g].old => h = g
    <3>1. \A h \in Flushers : h # f => fl'[h].old = NoPba
      BY <1>6, <1>7
    <3>2. g = f
      BY <2>2, <3>1
    <3>3. old # cp
      BY <1>7, <1>11, <1>16, <2>2, <3>2
    <3> QED BY <1>7, <1>8, <2>2, <3>1, <3>2, <3>3
  <2> QED BY <2>1, <2>2 DEF ReturningHeld
<1>28. Allocated'
  <2>1. \A g \in Flushers : fl'[g].pc = "fill" => fl'[g] = fl[g]
    BY <1>7
  <2> SUFFICES ASSUME NEW g \in Flushers, fl'[g].pc = "fill"
               PROVE  /\ fl'[g].seg \in svt' /\ dst'[fl'[g].seg].nr = 0
                      /\ victims'[fl'[g].seg] = NoVictim /\ ~InGc(fl'[g].seg)
                      /\ \A h \in Flushers : fl'[h].pc = "fill" /\ fl'[h].seg = fl'[g].seg => h = g
    BY <1>8 DEF Allocated, InGc
  <2> QED BY <1>8, <2>1 DEF Sound, Allocated
<1>29. OwnHeld'
  <2> SUFFICES ASSUME NEW g \in Flushers, NEW q \in Pbas, Own(g, q)'
               PROVE  /\ Valid(q)' /\ Unvisited(q)'
                      /\ \A h \in Flushers : Own(h, q)' => h = g
                      /\ \A m \in Lbas : idx'[m] = q =>
                           /\ fl'[g].pc \in {"return", "set"} /\ q = Target(g)'
                           /\ m = Min(fl'[g].todo)
    BY DEF OwnHeld
  <2>1. Own(g, q) /\ Target(g)' = Target(g) /\ fl'[g].todo = fl[g].todo
    BY <1>18
  <2>2. Valid(q)' /\ Unvisited(q)' /\ \A h \in Flushers : Own(h, q)' => h = g
    BY <1>14, <1>18, <2>1 DEF Sound, OwnHeld
  <2>3. ASSUME NEW m \in Lbas, idx'[m] = q
        PROVE  /\ fl'[g].pc \in {"return", "set"} /\ q = Target(g) /\ m = Min(fl[g].todo)
    <3>1. CASE m = l
      <4>1. q = p /\ g = f
        BY <1>2, <1>9, <2>1, <2>3, <3>1 DEF Sound, OwnHeld
      <4> QED BY <1>2, <1>7, <3>1, <4>1 DEF l
    <3>2. CASE m # l
      <4>1. idx[m] = q
        BY <1>9, <2>3, <3>2
      <4>2. fl[g].pc \in {"return", "set"} /\ q = Target(g) /\ m = Min(fl[g].todo)
        BY <2>1, <4>1 DEF Sound, OwnHeld
      <4>3. fl'[g] = fl[g]
        BY <1>1, <1>7, <4>2
      <4> QED BY <4>2, <4>3
    <3> QED BY <3>1, <3>2
  <2> QED BY <2>1, <2>2, <2>3
<1> QED BY <1>23, <1>24, <1>25, <1>26, <1>27, <1>28, <1>29 DEF Sound

(* A block on its way back is returned, by a flusher or by compaction.     *)
LEMMA SoundReturn ==
  ASSUME Typing, CountExact, Sound, NEW p \in Pbas, p \in Returning,
         dst_return_block(p), UNCHANGED <<svt, rit, idx, stale, gc>>,
         \A g \in Flushers : /\ fl'[g].seg = fl[g].seg /\ fl'[g].off = fl[g].off
                             /\ fl'[g].todo = fl[g].todo /\ fl'[g].mode = fl[g].mode,
         \A g \in Flushers : \/ fl'[g].pc = fl[g].pc /\ fl'[g].old = fl[g].old
                             \/ fl[g].pc = "return" /\ fl'[g].pc = "set" /\ fl'[g].old = NoPba,
         cp' \in {cp, NoPba}, p \notin Returning'
  PROVE  Sound'
<1>0. TypeOK
  BY DEF Typing
<1>1. p[1] \in Segments /\ Valid(p) /\ rit[p] = INF /\ ~Owned(p)
  BY PbaFacts DEF Sound, ReturningHeld
<1>2. /\ dst[p[1]].nr # 0
      /\ \A s \in Segments : s # p[1] => dst'[s] = dst[s] /\ victims'[s] = victims[s]
      /\ victims'[p[1]] = NoVictim \/ victims'[p[1]] = dst'[p[1]]
      /\ \A q \in Pbas : Valid(q)' <=> Valid(q) /\ q # p
  BY <1>0, <1>1, ReturnFacts
<1>3. p[1] \in svt
  BY <1>1, <1>2 DEF Sound, TablesAgree
<1>4. /\ \A x : Filling(x)' <=> Filling(x)
      /\ \A g \in Flushers : \A q : Own(g, q)' <=> Own(g, q)
      /\ \A q : Owned(q)' <=> Owned(q)
  BY DEF Filling, Putting, Own, Owned
<1>5. Returning' \subseteq Returning \cup {NoPba}
  BY DEF Returning
<1>6. /\ \A q : Unvisited(q)' <=> Unvisited(q)
      /\ \A x : InGc(x)' <=> InGc(x)
      /\ \A q : Doomed(q)' <=> Doomed(q)
  BY DEF Unvisited, InGc, Collecting, Doomed
<1>7. \A l, q : Named(l, q) => Named(l, q)'
  BY DEF Named, GcBlock, Target
<1>8. ~Doomed(p)
  <2>1. \A l \in Lbas : l # INF
    BY PbaFacts
  <2> QED BY <1>1, <2>1 DEF Doomed
<1>9. TablesAgree'
  BY <1>1, <1>2, <1>3 DEF Sound, TablesAgree
<1>10. GcHolds'
  <2>1. gc.pc = "clear" => gc.seg # p[1] /\ gc.seg \in Segments
    BY <1>2 DEF Sound, GcHolds, Typing, GcShape
  <2> QED BY <1>2, <1>4, <1>6, <2>1 DEF Sound, GcHolds, GcBlock
<1>11. LiveHeld'
  <2>1. \A l \in Lbas : idx[l] # p
    BY DEF Sound, LiveHeld
  <2> QED BY <1>2, <1>5, <1>6, <1>7, <2>1, PbaFacts DEF Sound, LiveHeld
<1>12. DoomedHeld'
  BY <1>2, <1>4, <1>6, <1>8 DEF Sound, DoomedHeld
<1>13. ReturningHeld'
  <2>1. \A q \in Pbas : q \in Returning' => Valid(q)' /\ rit'[q] = INF /\ ~Owned(q)'
    BY <1>2, <1>4, <1>5, PbaFacts DEF Sound, ReturningHeld
  <2>2. ASSUME NEW g \in Flushers, fl'[g].old # NoPba
        PROVE  /\ fl'[g].pc = "return" /\ fl'[g].old # cp'
               /\ \A h \in Flushers : fl'[h].old = fl'[g].old => h = g
    BY <2>2 DEF Sound, ReturningHeld
  <2> QED BY <2>1, <2>2 DEF ReturningHeld
<1>14. Allocated'
  <2> SUFFICES ASSUME NEW f \in Flushers, fl'[f].pc = "fill"
               PROVE  /\ fl'[f].seg \in svt' /\ dst'[fl'[f].seg].nr = 0
                      /\ victims'[fl'[f].seg] = NoVictim /\ ~InGc(fl'[f].seg)
                      /\ \A g \in Flushers : fl'[g].pc = "fill" /\ fl'[g].seg = fl'[f].seg => g = f
    BY DEF Allocated, InGc
  <2>1. \A g \in Flushers : fl'[g].pc = "fill" => fl[g].pc = "fill" /\ fl'[g].seg = fl[g].seg
    OBVIOUS
  <2>2. /\ fl[f].seg \in svt /\ dst[fl[f].seg].nr = 0
        /\ victims[fl[f].seg] = NoVictim /\ ~InGc(fl[f].seg)
        /\ \A g \in Flushers : fl[g].pc = "fill" /\ fl[g].seg = fl[f].seg => g = f
    BY <2>1 DEF Sound, Allocated
  <2>3. fl[f].seg \in Segments /\ fl[f].seg # p[1]
    BY <1>2, <2>1, <2>2 DEF Typing, FlShape
  <2> QED BY <1>2, <2>1, <2>2, <2>3
<1>15. OwnHeld'
  <2>1. \A g \in Flushers : Target(g)' = Target(g)
    BY DEF Target
  <2>2. \A g \in Flushers : fl[g].pc \in {"return", "set"} => fl'[g].pc \in {"return", "set"}
    OBVIOUS
  <2>3. \A g \in Flushers, q \in Pbas : Own(g, q)' => Own(g, q) /\ q # p
    BY <1>1, <1>4 DEF Owned
  <2>4. \A g \in Flushers, q \in Pbas : Own(g, q)' => Valid(q)' /\ Unvisited(q)'
    BY <1>2, <1>6, <2>3 DEF Sound, OwnHeld
  <2> QED BY <1>4, <2>1, <2>2, <2>3, <2>4 DEF Sound, OwnHeld
<1> QED BY <1>9, <1>10, <1>11, <1>12, <1>13, <1>14, <1>15 DEF Sound

LEMMA SoundReturnOld ==
  ASSUME Typing, CountExact, Sound, NEW f \in Flushers, ReturnOld(f)
  PROVE  Sound'
<1> USE DEF tables, index, history
<1>0. fl \in [Flushers -> FlState]
  BY DEF Typing, TypeOK
<1> DEFINE p == fl[f].old
<1>1. p \in Pbas /\ fl[f].pc = "return"
  BY DEF ReturnOld, At, Typing, FlShape
<1>2. /\ dst_return_block(p) /\ fl' = [fl EXCEPT ![f].pc = "set", ![f].old = NoPba]
      /\ UNCHANGED <<svt, rit, idx, stale, gc, cp>>
  BY DEF ReturnOld
<1>3. /\ fl'[f].pc = "set" /\ fl'[f].old = NoPba /\ fl'[f].seg = fl[f].seg
      /\ fl'[f].off = fl[f].off /\ fl'[f].todo = fl[f].todo /\ fl'[f].mode = fl[f].mode
      /\ \A g \in Flushers : g # f => fl'[g] = fl[g]
  BY <1>0, <1>2 DEF FlState
<1>4. p \in Returning /\ p # cp /\ p # NoPba /\ \A g \in Flushers : fl[g].old = p => g = f
  BY <1>1, PbaFacts DEF Returning, Sound, ReturningHeld
<1>5. p \notin Returning'
  <2>1. \A g \in Flushers : fl'[g].old # p
    BY <1>3, <1>4
  <2>2. cp' = cp
    BY <1>2
  <2> HIDE DEF p
  <2> QED BY <1>4, <2>1, <2>2 DEF Returning
<1>6. /\ \A g \in Flushers : /\ fl'[g].seg = fl[g].seg /\ fl'[g].off = fl[g].off
                             /\ fl'[g].todo = fl[g].todo /\ fl'[g].mode = fl[g].mode
      /\ \A g \in Flushers : \/ fl'[g].pc = fl[g].pc /\ fl'[g].old = fl[g].old
                             \/ fl[g].pc = "return" /\ fl'[g].pc = "set" /\ fl'[g].old = NoPba
  BY <1>1, <1>3
<1>7. dst_return_block(p) /\ UNCHANGED <<svt, rit, idx, stale, gc>> /\ cp' \in {cp, NoPba}
  BY <1>2
<1> HIDE DEF p
<1> QED BY <1>1, <1>4, <1>5, <1>6, <1>7, SoundReturn

LEMMA SoundCompactReturn ==
  ASSUME Typing, CountExact, Sound, CompactReturn
  PROVE  Sound'
<1> USE DEF tables, index, history
<1>1. /\ cp \in Pbas /\ dst_return_block(cp) /\ cp' = NoPba
      /\ UNCHANGED <<svt, rit, idx, stale, gc, fl>>
  BY DEF CompactReturn, Typing, TypeOK
<1>2. cp \in Returning
  BY DEF Returning
<1>3. cp \notin Returning'
  <2>1. \A g \in Flushers : fl[g].old # cp
    BY <1>1, PbaFacts DEF Sound, ReturningHeld
  <2> QED BY <1>1, <2>1, PbaFacts DEF Returning
<1> QED BY <1>1, <1>2, <1>3, SoundReturn

(* compaction takes a superseded record.                                   *)
LEMMA SoundCompactReset ==
  ASSUME Typing, Sound, CompactReset
  PROVE  Sound'
<1> USE DEF tables, index, history
<1>0. rit \in [Pbas -> Lbas \cup {INF}] /\ stale \subseteq Lbas \X Pbas
  BY DEF Typing, TypeOK
<1>1. PICK r \in stale :
        /\ cp = NoPba /\ stale' = stale \ {r} /\ UNCHANGED <<svt, dst, victims, idx, fl, gc>>
        /\ \/ rit[r[2]] = r[1] /\ rit' = [rit EXCEPT ![r[2]] = INF] /\ cp' = r[2]
           \/ rit' = rit /\ cp' = cp
  BY DEF CompactReset
<1> DEFINE l == r[1]
           p == r[2]
<1>2. l \in Lbas /\ p \in Pbas /\ r = <<l, p>>
  BY <1>0
<1> HIDE DEF l, p
<1>3. \/ rit[p] = l /\ rit' = [rit EXCEPT ![p] = INF] /\ cp' = p
      \/ rit' = rit /\ cp' = cp
  BY <1>1 DEF l, p
<1>4. \A q \in Pbas : rit'[q] = rit[q] \/ (q = p /\ rit'[q] = INF /\ cp' = p /\ rit[p] = l)
  BY <1>0, <1>2, <1>3
<1>5. rit[p] = l => Doomed(p)
  BY <1>1, <1>2 DEF Doomed
<1>6. /\ \A x : (Filling(x)' <=> Filling(x)) /\ (InGc(x)' <=> InGc(x))
      /\ \A q : (Valid(q)' <=> Valid(q)) /\ (Unvisited(q)' <=> Unvisited(q))
      /\ \A g \in Flushers : \A q : (Own(g, q)' <=> Own(g, q)) /\ Target(g)' = Target(g)
      /\ \A q : Owned(q)' <=> Owned(q)
  BY <1>1 DEF Filling, InGc, Valid, Unvisited, Own, Owned, Target
<1>7. \A q \in Pbas : Doomed(q)' => Doomed(q)
  BY <1>1, <1>4, PbaFacts DEF Doomed
<1>8. \A q \in Pbas : q \in Returning' => q \in Returning \/ (q = p /\ cp' = p /\ Doomed(p) /\ rit'[p] = INF)
  BY <1>0, <1>1, <1>2, <1>3, <1>5, PbaFacts DEF Returning
<1>9. TablesAgree'
  BY <1>1 DEF Sound, TablesAgree
<1>10. GcHolds'
  <2>1. gc.pc \in {"search", "negate"} => GcBlock \in Pbas
    <3>1. gc.pc \in {"search", "negate"} => gc.seg \in Segments /\ gc.todo # {} /\ gc.todo \in SUBSET Offsets
      BY DEF Typing, TypeOK, GcShape, GcState
    <3> QED BY <3>1, MinOffsets, PbaFacts DEF GcBlock
  <2> QED BY <1>1, <1>4, <1>6, <2>1 DEF Sound, GcHolds, GcBlock
<1>11. LiveHeld'
  <2> SUFFICES ASSUME NEW m \in Lbas, NEW q \in Pbas, idx[m] = q
               PROVE  /\ Valid(q)' /\ Named(m, q)' /\ Unvisited(q)'
                      /\ \A n \in Lbas : idx[n] = q => n = m
                      /\ q \notin Returning' /\ ~Doomed(q)' /\ <<m, q>> \notin stale'
    BY <1>1 DEF LiveHeld
  <2>1. /\ Valid(q) /\ Named(m, q) /\ Unvisited(q)
        /\ \A n \in Lbas : idx[n] = q => n = m
        /\ q \notin Returning /\ ~Doomed(q) /\ <<m, q>> \notin stale
    BY DEF Sound, LiveHeld
  <2>2. rit'[q] = rit[q]
    BY <1>4, <1>5, <2>1
  <2>3. Named(m, q)'
    BY <1>1, <2>1, <2>2 DEF Named, GcBlock, Target
  <2>4. <<m, q>> \notin stale'
    BY <1>1, <2>1
  <2> QED BY <1>6, <1>7, <1>8, <2>1, <2>3, <2>4
<1>12. DoomedHeld'
  BY <1>6, <1>7 DEF Sound, DoomedHeld
<1>13. ReturningHeld'
  <2>1. \A q \in Pbas : q \in Returning' => Valid(q)' /\ rit'[q] = INF /\ ~Owned(q)'
    BY <1>4, <1>6, <1>8 DEF Sound, ReturningHeld, DoomedHeld
  <2>2. ASSUME NEW f \in Flushers, fl[f].old # NoPba
        PROVE  /\ fl[f].pc = "return" /\ fl[f].old # cp'
               /\ \A g \in Flushers : fl[g].old = fl[f].old => g = f
    <3>1. /\ fl[f].pc = "return" /\ fl[f].old # cp
          /\ \A g \in Flushers : fl[g].old = fl[f].old => g = f
      BY <2>2 DEF Sound, ReturningHeld
    <3>2. fl[f].old \in Pbas /\ fl[f].old \in Returning
      BY <3>1 DEF Typing, FlShape, Returning
    <3>3. rit[fl[f].old] = INF
      BY <3>2 DEF Sound, ReturningHeld
    <3> QED BY <1>2, <1>3, <3>1, <3>3, PbaFacts
  <2> QED BY <1>1, <2>1, <2>2 DEF ReturningHeld
<1>14. Allocated'
  BY <1>1 DEF Sound, Allocated, InGc
<1>15. OwnHeld'
  BY <1>1, <1>6 DEF Sound, OwnHeld
<1> QED BY <1>9, <1>10, <1>11, <1>12, <1>13, <1>14, <1>15 DEF Sound

(* rit->set of a block, which leaves it to the index and the RIT.          *)
LEMMA SoundSetRit ==
  ASSUME Typing, Sound, NEW f \in Flushers, SetRit(f)
  PROVE  Sound'
<1> USE DEF tables, index, history
<1>0. fl \in [Flushers -> FlState] /\ rit \in [Pbas -> Lbas \cup {INF}]
  BY DEF Typing, TypeOK
<1> DEFINE l == Min(fl[f].todo)
           p == Target(f)
           r == fl[f]
           rest == r.todo \ {l}
           pc == IF r.mode = "segment" THEN "put" ELSE "log"
           more == [r EXCEPT !.pc = pc, !.todo = rest,
                             !.off = IF pc = "put" THEN r.off + 1 ELSE r.off]
<1>1. fl[f].pc = "set" /\ l \in Lbas
  <2>1. fl[f].todo \in SUBSET Lbas /\ fl[f].todo # {}
    BY <1>0 DEF SetRit, At, Typing, FlShape, FlState
  <2> QED BY <2>1, MinLbas DEF SetRit, At
<1>2. /\ p \in Pbas /\ p[1] = r.seg /\ p[2] = r.off /\ Own(f, p)
      /\ r.off \in Offsets /\ r.old = NoPba
  BY <1>1, OwnTarget DEF Putting, Sound, ReturningHeld
<1>3. /\ rit' = [rit EXCEPT ![p] = l] /\ UNCHANGED <<svt, dst, victims, idx, stale, gc, cp>>
      /\ fl' = [fl EXCEPT ![f] = IF rest = {} THEN IdleFl ELSE more]
  BY DEF SetRit, Advance, Target
<1>4. /\ more.pc = pc /\ more.seg = r.seg /\ more.old = NoPba /\ more.mode = r.mode
      /\ more.off = IF pc = "put" THEN r.off + 1 ELSE r.off
      /\ IdleFl.pc = "idle" /\ IdleFl.old = NoPba
  BY <1>0, <1>2 DEF FlState, IdleFl
<1>5. /\ fl'[f] = IdleFl \/ fl'[f] = more
      /\ \A g \in Flushers : g # f => fl'[g] = fl[g]
  BY <1>0, <1>3
<1> HIDE DEF more, rest
<1>6. /\ fl'[f].old = NoPba /\ fl'[f].pc \in {"idle", "put", "log"}
      /\ fl'[f].pc = "put" => /\ fl'[f].seg = r.seg /\ fl'[f].off = r.off + 1
                              /\ r.mode = "segment" /\ fl'[f].mode = "segment"
  BY <1>4, <1>5
<1>7. UNCHANGED <<svt, dst, victims, idx, stale, gc, cp>>
  BY <1>3
<1>8. \A q \in Pbas : rit'[q] = IF q = p THEN l ELSE rit[q]
  BY <1>0, <1>2, <1>3
<1>9. /\ Filling(p[1]) /\ \A x : Filling(x)' => Filling(x)
  <2>1. \A g \in Flushers : fl'[g].pc \in Putting => fl[g].pc \in Putting /\ fl'[g].seg = fl[g].seg
    BY <1>1, <1>5, <1>6 DEF Putting
  <2> QED BY <1>1, <1>2, <2>1 DEF Filling, Putting
<1>10. Returning' = Returning /\ \A g \in Flushers : fl'[g].old = fl[g].old
  <2>1. \A g \in Flushers : fl'[g].old = fl[g].old
    BY <1>2, <1>5, <1>6
  <2> QED BY <1>7, <2>1 DEF Returning
<1>11. /\ \A q : (Valid(q)' <=> Valid(q)) /\ (Unvisited(q)' <=> Unvisited(q))
       /\ \A x : InGc(x)' <=> InGc(x)
  BY <1>7 DEF Valid, Unvisited, InGc
<1>12. \A g \in Flushers, q \in Pbas : Own(g, q)' => Own(g, q) /\ q # p
  <2>1. ASSUME NEW q \in Pbas, Own(f, q)' PROVE Own(f, q) /\ q # p
    <3>1. fl'[f].pc = "put" /\ q[1] = r.seg /\ q[2] >= r.off + 1 /\ r.mode = "segment"
      BY <1>6, <2>1 DEF Own, Putting
    <3>2. q[2] \in Int /\ r.off \in Int
      BY <1>2, PbaFacts, SizesAssumption DEF Offsets
    <3>3. q[2] >= r.off /\ q[2] # r.off
      BY <3>1, <3>2
    <3> QED BY <1>1, <1>2, <3>1, <3>3 DEF Own, Putting
  <2>2. ASSUME NEW g \in Flushers, NEW q \in Pbas, g # f, Own(g, q)' PROVE Own(g, q)
    BY <1>5, <2>2 DEF Own
  <2>3. \A g \in Flushers : Own(g, p) => g = f
    BY <1>2 DEF Sound, OwnHeld
  <2> QED BY <2>1, <2>2, <2>3
<1>13. /\ \A m \in Lbas : idx[m] = p => m = l
       /\ Valid(p) /\ Unvisited(p)
  BY <1>2 DEF Sound, OwnHeld
<1> HIDE DEF p, l, r, pc
<1>14. \A q \in Pbas : Doomed(q)' => Doomed(q) \/ (q = p /\ <<l, p>> \in stale)
  BY <1>1, <1>7, <1>8 DEF Doomed
<1>15. TablesAgree'
  BY <1>7 DEF Sound, TablesAgree
<1>16. GcHolds'
  <2>1. gc.pc \in {"search", "negate"} => GcBlock \in Pbas /\ GcBlock[1] = gc.seg /\ InGc(gc.seg)
    <3>1. gc.pc \in {"search", "negate"} => gc.seg \in Segments /\ gc.todo # {} /\ gc.todo \in SUBSET Offsets
      BY DEF Typing, TypeOK, GcShape, GcState
    <3> QED BY <3>1, MinOffsets, PbaFacts DEF GcBlock, InGc
  <2>2. gc.pc \in {"search", "negate"} => GcBlock # p
    BY <1>2, <1>9, <2>1, PbaFacts DEF Sound, GcHolds
  <2> QED BY <1>7, <1>8, <1>9, <1>11, <2>1, <2>2 DEF Sound, GcHolds, GcBlock
<1>17. LiveHeld'
  <2> SUFFICES ASSUME NEW m \in Lbas, NEW q \in Pbas, idx[m] = q
               PROVE  /\ Valid(q)' /\ Named(m, q)' /\ Unvisited(q)'
                      /\ \A n \in Lbas : idx[n] = q => n = m
                      /\ q \notin Returning' /\ ~Doomed(q)' /\ <<m, q>> \notin stale'
    BY <1>7 DEF LiveHeld
  <2>1. /\ Valid(q) /\ Named(m, q) /\ Unvisited(q)
        /\ \A n \in Lbas : idx[n] = q => n = m
        /\ q \notin Returning /\ ~Doomed(q) /\ <<m, q>> \notin stale
    BY DEF Sound, LiveHeld
  <2>2. Named(m, q)'
    <3>1. CASE q = p
      BY <1>2, <1>8, <1>13, <3>1 DEF Named
    <3>2. CASE q # p
      <4>1. ASSUME NEW g \in Flushers, fl[g].pc \in {"return", "set"}, q = Target(g),
                   m = Min(fl[g].todo)
            PROVE  Named(m, q)'
        <5>1. fl'[g] = fl[g]
          BY <1>5, <3>2, <4>1 DEF p
        <5> QED BY <4>1, <5>1 DEF Named, Target
      <4> QED BY <1>7, <1>8, <2>1, <3>2, <4>1 DEF Named, GcBlock
    <3> QED BY <3>1, <3>2
  <2>3. ~Doomed(q)'
    BY <1>13, <1>14, <2>1
  <2> QED BY <1>7, <1>10, <1>11, <2>1, <2>2, <2>3
<1>18. DoomedHeld'
  <2>1. \A q \in Pbas : q = p => ~Owned(q)'
    BY <1>12 DEF Owned
  <2>2. \A q \in Pbas : Doomed(q) => ~Owned(q)'
    BY <1>12 DEF Sound, DoomedHeld, Owned
  <2> QED BY <1>11, <1>13, <1>14, <2>1, <2>2 DEF Sound, DoomedHeld
<1>19. ReturningHeld'
  <2>1. ASSUME NEW q \in Pbas, q \in Returning'
        PROVE  Valid(q)' /\ rit'[q] = INF /\ ~Owned(q)'
    <3>1. Valid(q) /\ rit[q] = INF /\ ~Owned(q)
      BY <1>10, <2>1 DEF Sound, ReturningHeld
    <3>2. q # p
      BY <1>2, <3>1 DEF Owned
    <3> QED BY <1>8, <1>11, <1>12, <3>1, <3>2 DEF Owned
  <2>2. \A g \in Flushers : fl'[g].old # NoPba => fl'[g] = fl[g]
    BY <1>5, <1>6
  <2>3. ASSUME NEW g \in Flushers, fl'[g].old # NoPba
        PROVE  /\ fl'[g].pc = "return" /\ fl'[g].old # cp'
               /\ \A h \in Flushers : fl'[h].old = fl'[g].old => h = g
    BY <1>7, <1>10, <2>2, <2>3 DEF Sound, ReturningHeld
  <2> QED BY <2>1, <2>3 DEF ReturningHeld
<1>20. Allocated'
  <2>1. \A g \in Flushers : fl'[g].pc = "fill" => fl'[g] = fl[g]
    BY <1>5, <1>6
  <2> SUFFICES ASSUME NEW g \in Flushers, fl'[g].pc = "fill"
               PROVE  /\ fl'[g].seg \in svt' /\ dst'[fl'[g].seg].nr = 0
                      /\ victims'[fl'[g].seg] = NoVictim /\ ~InGc(fl'[g].seg)
                      /\ \A h \in Flushers : fl'[h].pc = "fill" /\ fl'[h].seg = fl'[g].seg => h = g
    BY <1>7 DEF Allocated, InGc
  <2> QED BY <1>7, <2>1 DEF Sound, Allocated
<1>21. OwnHeld'
  <2> SUFFICES ASSUME NEW g \in Flushers, NEW q \in Pbas, Own(g, q)'
               PROVE  /\ Valid(q)' /\ Unvisited(q)'
                      /\ \A h \in Flushers : Own(h, q)' => h = g
                      /\ \A m \in Lbas : idx[m] = q =>
                           /\ fl'[g].pc \in {"return", "set"} /\ q = Target(g)'
                           /\ m = Min(fl'[g].todo)
    BY <1>7 DEF OwnHeld
  <2>1. Own(g, q) /\ q # p
    BY <1>12
  <2>2. /\ Valid(q)' /\ Unvisited(q)'
        /\ \A h \in Flushers : Own(h, q)' => h = g
    BY <1>11, <1>12, <2>1 DEF Sound, OwnHeld
  <2>3. ASSUME NEW m \in Lbas, idx[m] = q
        PROVE  /\ fl'[g].pc \in {"return", "set"} /\ q = Target(g)'
               /\ m = Min(fl'[g].todo)
    <3>1. fl[g].pc \in {"return", "set"} /\ q = Target(g) /\ m = Min(fl[g].todo)
      BY <2>1, <2>3 DEF Sound, OwnHeld
    <3>2. fl'[g] = fl[g]
      BY <1>5, <2>1, <3>1 DEF p
    <3> QED BY <3>1, <3>2 DEF Target
  <2> QED BY <2>2, <2>3
<1> QED BY <1>15, <1>16, <1>17, <1>18, <1>19, <1>20, <1>21 DEF Sound

-----------------------------------------------------------------------------
(* The collector's steps.                                                  *)

(* A step that hides at most index records and reverse records, and leaves *)
(* every block that still counts to be visited.                            *)
LEMMA GcMove ==
  ASSUME Typing, Sound, UNCHANGED <<svt, dst, stale, fl, cp>>,
         \A l \in Lbas : idx'[l] \in {idx[l], NoPba},
         \A q \in Pbas : rit'[q] \in {rit[q], INF},
         \A s \in Segments : victims'[s] \in {victims[s], NoVictim},
         \A s \in Segments : InGc(s)' => \/ InGc(s) /\ (Filling(s) => gc'.pc = "check")
                                         \/ victims[s] # NoVictim /\ gc'.pc = "check",
         gc'.pc = "check" /\ gc'.nr = 0 => gc'.todo = {}, gc'.pc # "clear",
         gc'.pc \in {"search", "negate"} => (rit[GcBlock])' = INF,
         \A l \in Lbas, q \in Pbas : idx'[l] = q => Named(l, q)' /\ Unvisited(q)',
         \A q \in Pbas : Doomed(q)' \/ Owned(q) => Unvisited(q)'
  PROVE  Sound'
<1>1. \A x : Filling(x)' <=> Filling(x)
  BY DEF Filling
<1>2. Returning' = Returning
  BY DEF Returning
<1>3. /\ \A q : (Valid(q)' <=> Valid(q)) /\ (Owned(q)' <=> Owned(q))
      /\ \A g \in Flushers : \A q : (Own(g, q)' <=> Own(g, q)) /\ Target(g)' = Target(g)
  BY DEF Valid, Own, Owned, Target
<1>4. \A l \in Lbas : l # INF
  BY PbaFacts
<1>5. \A q \in Pbas : Doomed(q)' => Doomed(q)
  BY <1>4 DEF Doomed
<1>6. \A l \in Lbas, q \in Pbas : idx'[l] = q => idx[l] = q
  BY PbaFacts
<1>7. \A s \in Segments : victims[s] # NoVictim => s \in svt
  BY DEF Sound, TablesAgree
<1>8. \A f \in Flushers : fl[f].pc = "fill" => fl[f].seg \in Segments
  BY DEF Typing, FlShape
<1>9. TablesAgree'
  BY DEF Sound, TablesAgree
<1>10. GcHolds'
  BY <1>1, <1>7 DEF Sound, GcHolds
<1>11. LiveHeld'
  BY <1>2, <1>3, <1>5, <1>6 DEF Sound, LiveHeld
<1>12. DoomedHeld'
  BY <1>3, <1>5 DEF Sound, DoomedHeld
<1>13. ReturningHeld'
  BY <1>2, <1>3 DEF Sound, ReturningHeld
<1>14. Allocated'
  <2>1. \A f \in Flushers : fl[f].pc = "fill" => ~InGc(fl[f].seg)'
    BY <1>8 DEF Sound, Allocated
  <2> QED BY <1>8, <2>1 DEF Sound, Allocated
<1>15. OwnHeld'
  BY <1>3, <1>6 DEF Sound, OwnHeld, Owned
<1> QED BY <1>9, <1>10, <1>11, <1>12, <1>13, <1>14, <1>15 DEF Sound

(* The same for a step past the check, whose segment no flusher fills.      *)
LEMMA GcMovePast ==
  ASSUME Typing, Sound, UNCHANGED <<svt, dst, victims, stale, fl, cp>>,
         \A l \in Lbas : idx'[l] \in {idx[l], NoPba},
         \A q \in Pbas : rit'[q] \in {rit[q], INF},
         \A s \in Segments : InGc(s)' => InGc(s) /\ ~Filling(s),
         gc'.pc \notin {"check", "clear"},
         gc'.pc \in {"search", "negate"} => (rit[GcBlock])' = INF,
         \A l \in Lbas, q \in Pbas : idx'[l] = q => Named(l, q)' /\ Unvisited(q)',
         \A q \in Pbas : Doomed(q)' \/ Owned(q) => Unvisited(q)'
  PROVE  Sound'
<1>1. \A s \in Segments : InGc(s)' => \/ InGc(s) /\ (Filling(s) => gc'.pc = "check")
                                      \/ victims[s] # NoVictim /\ gc'.pc = "check"
  OBVIOUS
<1>2. \A s \in Segments : victims'[s] \in {victims[s], NoVictim}
  OBVIOUS
<1>3. (gc'.pc = "check" /\ gc'.nr = 0 => gc'.todo = {}) /\ gc'.pc # "clear"
  OBVIOUS
<1> QED BY <1>1, <1>2, <1>3, GcMove

(* The block the collector is at.                                          *)
LEMMA GcBlockFacts ==
  ASSUME Typing, gc.todo # {}, gc.seg \in Segments
  PROVE  /\ GcBlock \in Pbas /\ GcBlock[1] = gc.seg /\ GcBlock[2] = Min(gc.todo)
         /\ Min(gc.todo) \in gc.todo
<1>1. gc.todo \in SUBSET Offsets
  BY DEF Typing, TypeOK, GcState
<1> QED BY <1>1, MinOffsets, PbaFacts DEF GcBlock

(* Own blocks the collector has still to visit; past its check none is in  *)
(* the segment it holds.                                                   *)
LEMMA GcApart ==
  ASSUME Typing, Sound
  PROVE  /\ \A q \in Pbas : Owned(q) => Valid(q) /\ Unvisited(q) /\ Filling(q[1])
         /\ \A s \in Segments : InGc(s) /\ gc.pc # "check" => ~Filling(s)
<1>1. \A q : Owned(q) => Filling(q[1])
  BY DEF Owned, Own, Filling
<1> QED BY <1>1 DEF Sound, OwnHeld, Owned, GcHolds

(* While the collector holds nothing no block depends on its place.        *)
LEMMA GcOutside ==
  ASSUME Typing, Sound,
         \/ GcStart \/ GcLoad \/ GcStore
         \/ (GcPop /\ gc' = IdleGc /\ UNCHANGED victims)
  PROVE  Sound'
<1> USE DEF tables, index, history
<1>1. UNCHANGED <<svt, dst, victims, rit, idx, stale, fl, cp>>
  BY DEF GcStart, GcLoad, GcStore, GcPop
<1>2. gc.pc \in {"idle", "load", "store", "pop"}
  BY DEF GcStart, GcLoad, GcStore, GcPop, GcAt
<1>3. gc'.pc \in {"idle", "store", "pop"}
  <2>1. gc \in GcState
    BY DEF Typing, TypeOK
  <2>2. CASE GcStart \/ gc' = IdleGc
    BY <2>2 DEF GcStart, IdleGc
  <2>3. CASE GcLoad
    BY <2>1, <2>3 DEF GcLoad, GcState
  <2>4. CASE GcStore
    <3>1. gc' = IdleGc \/ gc' = [IdleGc EXCEPT !.pc = "pop", !.clean = gc.clean + gc.count]
      BY <2>4 DEF GcStore
    <3>2. [IdleGc EXCEPT !.pc = "pop", !.clean = gc.clean + gc.count].pc = "pop"
      BY DEF IdleGc
    <3>3. IdleGc.pc = "idle"
      BY DEF IdleGc
    <3> QED BY <3>1, <3>2, <3>3
  <2> QED BY <2>2, <2>3, <2>4
<1>4. \A s : ~InGc(s)'
  BY <1>3 DEF InGc
<1>5. \A q : Unvisited(q)'
  BY <1>4 DEF Unvisited
<1>6. \A l, q : Named(l, q) => Named(l, q)'
  BY <1>1, <1>2 DEF Named, Target
<1>7. \A l \in Lbas, q \in Pbas : idx'[l] = q => Named(l, q)'
  BY <1>1, <1>6 DEF Sound, LiveHeld
<1> QED BY <1>1, <1>3, <1>4, <1>5, <1>7, GcMove

LEMMA SoundGcPop ==
  ASSUME Typing, CountExact, Sound, GcPop
  PROVE  Sound'
<1> USE DEF tables, index, history
<1>1. CASE gc' = IdleGc /\ UNCHANGED victims
  BY <1>1, GcOutside
<1>2. ASSUME NEW v \in VictimSet,
             gc' = [gc EXCEPT !.pc = "check", !.seg = v, !.nr = victims[v].nr,
                              !.todo = victims[v].map, !.count = 0],
             DestroyVictim(v)
      PROVE  Sound'
  <2>0. gc \in GcState /\ victims \in [Segments -> Entry \cup {NoVictim}] /\ TypeOK
    BY DEF Typing, TypeOK
  <2>1. v \in Segments /\ victims[v] = dst[v] /\ victims[v] # NoVictim
    BY DEF VictimSet, Sound, TablesAgree
  <2>2. /\ gc'.pc = "check" /\ gc'.seg = v /\ gc'.nr = dst[v].nr /\ gc'.todo = dst[v].map
    BY <1>2, <2>0, <2>1 DEF GcState
  <2>3. UNCHANGED <<svt, dst, stale, fl, cp, idx, rit>> /\ gc.pc = "pop"
    BY DEF GcPop, GcAt
  <2>4. \A s \in Segments : victims'[s] \in {victims[s], NoVictim}
    BY <1>2, <2>0, <2>1 DEF DestroyVictim
  <2>5. \A s \in Segments : InGc(s)' => victims[s] # NoVictim
    BY <2>1, <2>2 DEF InGc
  <2>6. gc'.nr = 0 => gc'.todo = {}
    BY <2>0, <2>1, <2>2, EmptyMap
  <2>7. \A q \in Pbas : Valid(q) => Unvisited(q)'
    BY <2>2 DEF Valid, Unvisited, InGc, Collecting
  <2>8. \A l, q : Named(l, q) => Named(l, q)'
    BY <2>3 DEF Named, Target
  <2>9. \A l \in Lbas, q \in Pbas : idx'[l] = q => Named(l, q)' /\ Unvisited(q)'
    BY <2>3, <2>7, <2>8 DEF Sound, LiveHeld
  <2>10. \A q \in Pbas : Doomed(q)' \/ Owned(q) => Unvisited(q)'
    <3>1. \A q \in Pbas : Doomed(q)' => Doomed(q)
      BY <2>3 DEF Doomed
    <3> QED BY <2>7, <3>1, GcApart DEF Sound, DoomedHeld
  <2> QED BY <2>2, <2>3, <2>4, <2>5, <2>6, <2>9, <2>10, GcMove
<1> QED BY <1>1, <1>2 DEF GcPop

LEMMA SoundGcCheck ==
  ASSUME Typing, Sound, GcCheck, hazards' = {}
  PROVE  Sound'
<1> USE DEF tables, index, history
<1>0. gc \in GcState
  BY DEF Typing, TypeOK
<1>1. UNCHANGED <<svt, dst, victims, rit, idx, stale, fl, cp>> /\ gc.pc = "check"
  BY DEF GcCheck, GcAt
<1>2. \/ gc.nr = 0 /\ gc' = [gc EXCEPT !.pc = "return"]
      \/ gc' = [IdleGc EXCEPT !.pc = "pop", !.clean = gc.clean]
      \/ gc' = [gc EXCEPT !.pc = "reset"]
  BY DEF GcCheck
<1>3. \/ gc'.pc = "pop"
      \/ gc'.seg = gc.seg /\ gc'.todo = gc.todo /\ gc'.pc = "reset"
      \/ gc'.seg = gc.seg /\ gc.nr = 0 /\ gc'.pc = "return"
  <2>1. CASE gc.nr = 0 /\ gc' = [gc EXCEPT !.pc = "return"]
    BY <1>0, <2>1 DEF GcState
  <2>2. CASE gc' = [IdleGc EXCEPT !.pc = "pop", !.clean = gc.clean]
    BY <2>2 DEF IdleGc
  <2>3. CASE gc' = [gc EXCEPT !.pc = "reset"]
    BY <1>0, <2>3 DEF GcState
  <2> QED BY <1>2, <2>1, <2>2, <2>3
<1>4. \A s : InGc(s)' => InGc(s) /\ ~Filling(s)
  <2>1. gc'.seg = gc.seg => ~Filling(gc.seg)
    BY DEF GcCheck, Race
  <2> QED BY <1>1, <1>3, <2>1 DEF InGc
<1>5. \A q : Unvisited(q) => Unvisited(q)'
  BY <1>1, <1>3 DEF Unvisited, InGc, Collecting, Sound, GcHolds
<1>6. \A l, q : Named(l, q) => Named(l, q)'
  BY <1>1 DEF Named, Target
<1>7. \A l \in Lbas, q \in Pbas : idx'[l] = q => Named(l, q)' /\ Unvisited(q)'
  BY <1>1, <1>5, <1>6 DEF Sound, LiveHeld
<1>8. \A q \in Pbas : Doomed(q)' \/ Owned(q) => Unvisited(q)'
  BY <1>1, <1>5, GcApart DEF Sound, DoomedHeld, Doomed
<1> QED BY <1>1, <1>3, <1>4, <1>7, <1>8, GcMovePast

LEMMA SoundGcReset ==
  ASSUME Typing, Sound, GcReset
  PROVE  Sound'
<1> USE DEF tables, index, history
<1>0. gc \in GcState /\ rit \in [Pbas -> Lbas \cup {INF}] /\ \A l \in Lbas : l # INF
  BY PbaFacts DEF Typing, TypeOK
<1>1. UNCHANGED <<svt, dst, victims, idx, stale, fl, cp>> /\ gc.pc = "reset" /\ gc.seg \in Segments
  BY DEF GcReset, GcAt, Typing, GcShape
<1>2. CASE gc.todo = {}
  <2>1. gc'.pc = "return" /\ gc'.seg = gc.seg /\ rit' = rit
    BY <1>0, <1>2 DEF GcReset, GcState
  <2>2. \A s : InGc(s)' => InGc(s)
    BY <1>1, <2>1 DEF InGc
  <2>3. \A q : Unvisited(q) => Unvisited(q)'
    BY <1>1, <1>2, <2>1 DEF Unvisited, InGc
  <2>4. \A l, q : Named(l, q) => Named(l, q)'
    BY <1>1, <2>1 DEF Named, Target
  <2>5. \A l \in Lbas, q \in Pbas : idx'[l] = q => Named(l, q)' /\ Unvisited(q)'
    BY <1>1, <2>3, <2>4 DEF Sound, LiveHeld
  <2>6. \A q \in Pbas : Doomed(q)' \/ Owned(q) => Unvisited(q)'
    BY <1>1, <2>1, <2>3, GcApart DEF Sound, DoomedHeld, Doomed
  <2>7. \A s \in Segments : InGc(s)' => InGc(s) /\ ~Filling(s)
    BY <1>1, <2>2, GcApart
  <2> QED BY <1>1, <2>1, <2>5, <2>6, <2>7, GcMovePast
<1>3. CASE gc.todo # {}
  <2> DEFINE b == GcBlock
  <2>1. b \in Pbas /\ b[1] = gc.seg
    BY <1>1, <1>3, GcBlockFacts
  <2>2. /\ gc'.pc = "search" /\ gc'.seg = gc.seg /\ gc'.todo = gc.todo /\ gc'.lba = rit[b]
        /\ rit' = [rit EXCEPT ![b] = INF]
    BY <1>0, <1>3 DEF GcReset, GcState
  <2>3. \A q \in Pbas : rit'[q] = IF q = b THEN INF ELSE rit[q]
    BY <1>0, <2>1, <2>2
  <2>4. GcBlock' = b
    BY <2>2 DEF GcBlock
  <2> HIDE DEF b
  <2>5. \A s : InGc(s)' => InGc(s)
    BY <1>1, <2>2 DEF InGc
  <2>6. \A s \in Segments : InGc(s)' => InGc(s) /\ ~Filling(s)
    BY <1>1, <2>5, GcApart
  <2>7. \A q : Unvisited(q) => Unvisited(q)'
    BY <1>1, <2>2 DEF Unvisited, InGc, Collecting
  <2>8. ASSUME NEW l \in Lbas, NEW q \in Pbas, Named(l, q) PROVE Named(l, q)'
    <3>1. CASE rit[q] = l
      BY <2>2, <2>3, <2>4, <3>1 DEF Named
    <3>2. CASE \E f \in Flushers : fl[f].pc \in {"return", "set"} /\ q = Target(f) /\ l = Min(fl[f].todo)
      BY <1>1, <3>2 DEF Named, Target
    <3> QED BY <1>1, <2>8, <3>1, <3>2 DEF Named
  <2>9. \A l \in Lbas, q \in Pbas : idx'[l] = q => Named(l, q)' /\ Unvisited(q)'
    BY <1>1, <2>7, <2>8 DEF Sound, LiveHeld
  <2>10. \A q \in Pbas : Doomed(q)' \/ Owned(q) => Unvisited(q)'
    <3>1. \A q \in Pbas : Doomed(q)' => Doomed(q)
      BY <1>0, <1>1, <2>3 DEF Doomed
    <3> QED BY <2>7, <3>1, GcApart DEF Sound, DoomedHeld
  <2>11. (rit[GcBlock])' = INF
    BY <2>1, <2>3, <2>4
  <2> QED BY <1>1, <2>2, <2>3, <2>6, <2>9, <2>10, <2>11, GcMovePast
<1> QED BY <1>2, <1>3

(* The collector leaves the block it is at, which by then is not live.     *)
LEMMA GcLeaves ==
  ASSUME Typing, Sound, gc.pc \in {"search", "negate"},
         UNCHANGED <<svt, dst, victims, rit, stale, fl, cp>>,
         \A l \in Lbas : idx'[l] \in {idx[l], NoPba} /\ idx'[l] # GcBlock,
         gc'.pc = "reset", gc'.seg = gc.seg, gc'.todo = gc.todo \ {Min(gc.todo)}
  PROVE  Sound'
<1>1. /\ GcBlock \in Pbas /\ GcBlock[1] = gc.seg /\ GcBlock[2] = Min(gc.todo)
      /\ rit[GcBlock] = INF
  BY GcBlockFacts DEF Typing, GcShape, Sound, GcHolds
<1>2. \A s \in Segments : InGc(s)' => InGc(s) /\ ~Filling(s)
  BY GcApart DEF InGc
<1>3. ASSUME NEW q \in Pbas, Unvisited(q), q # GcBlock PROVE Unvisited(q)'
  BY <1>1, <1>3, PbaFacts DEF Unvisited, InGc, Collecting
<1>4. ASSUME NEW l \in Lbas, NEW q \in Pbas, idx'[l] = q
      PROVE  Named(l, q)' /\ Unvisited(q)'
  <2>1. idx[l] = q /\ q # GcBlock
    BY <1>4, PbaFacts
  <2>2. Named(l, q) /\ Unvisited(q)
    BY <2>1 DEF Sound, LiveHeld
  <2>3. Named(l, q)'
    BY <2>1, <2>2 DEF Named, Target
  <2> QED BY <1>3, <2>1, <2>2, <2>3
<1>5. ASSUME NEW q \in Pbas, Doomed(q)' PROVE Unvisited(q)'
  <2>1. Doomed(q) /\ q # GcBlock
    <3>1. \A l \in Lbas : l # INF
      BY PbaFacts
    <3> QED BY <1>1, <1>5, <3>1 DEF Doomed
  <2> QED BY <1>3, <2>1 DEF Sound, DoomedHeld
<1>6. ASSUME NEW q \in Pbas, Owned(q) PROVE Unvisited(q)'
  <2>1. Unvisited(q) /\ Filling(q[1])
    BY <1>6, GcApart
  <2>2. gc.seg \in Segments /\ InGc(gc.seg) /\ ~Filling(gc.seg)
    BY GcApart DEF Typing, GcShape, InGc
  <2> QED BY <1>1, <1>3, <2>1, <2>2
<1> QED BY <1>2, <1>4, <1>5, <1>6, GcMovePast

LEMMA SoundGcSearch ==
  ASSUME Typing, Sound, GcSearch
  PROVE  Sound'
<1> USE DEF tables, index, history
<1>0. gc \in GcState
  BY DEF Typing, TypeOK
<1>1. UNCHANGED <<svt, dst, victims, rit, idx, stale, fl, cp>> /\ gc.pc = "search"
  BY DEF GcSearch, GcAt
<1>2. GcBlock \in Pbas /\ GcBlock[1] = gc.seg /\ rit[GcBlock] = INF /\ ~Filling(gc.seg)
  BY <1>1, GcBlockFacts, GcApart DEF Typing, GcShape, Sound, GcHolds, InGc
<1>3. CASE gc' = [gc EXCEPT !.pc = "negate"]
  <2>1. gc'.pc = "negate" /\ gc'.seg = gc.seg /\ gc'.todo = gc.todo /\ gc'.lba = gc.lba
    BY <1>0, <1>3 DEF GcState
  <2>2. GcBlock' = GcBlock
    BY <2>1 DEF GcBlock
  <2>3. \A s : InGc(s)' => InGc(s)
    BY <1>1, <2>1 DEF InGc
  <2>4. \A q : Unvisited(q) => Unvisited(q)'
    BY <1>1, <2>1 DEF Unvisited, InGc, Collecting
  <2>5. \A l, q : Named(l, q) => Named(l, q)'
    BY <1>1, <2>1, <2>2 DEF Named, Target
  <2>6. \A l \in Lbas, q \in Pbas : idx'[l] = q => Named(l, q)' /\ Unvisited(q)'
    BY <1>1, <2>4, <2>5 DEF Sound, LiveHeld
  <2>7. \A q \in Pbas : Doomed(q)' \/ Owned(q) => Unvisited(q)'
    BY <1>1, <2>4, GcApart DEF Sound, DoomedHeld, Doomed
  <2>8. \A s \in Segments : InGc(s)' => InGc(s) /\ ~Filling(s)
    BY <1>1, <2>3, GcApart
  <2> QED BY <1>1, <1>2, <2>1, <2>2, <2>6, <2>7, <2>8, GcMovePast
<1>4. CASE (gc.lba # INF => idx[gc.lba] # GcBlock) /\ gc' = GcSkip
  <2>1. gc'.pc = "reset" /\ gc'.seg = gc.seg /\ gc'.todo = gc.todo \ {Min(gc.todo)}
    BY <1>0, <1>4 DEF GcSkip, GcState
  <2>2. ASSUME NEW l \in Lbas, idx[l] = GcBlock PROVE FALSE
    <3>1. Named(l, GcBlock)
      BY <1>2, <2>2 DEF Sound, LiveHeld
    <3>2. l # INF
      BY PbaFacts
    <3>3. ASSUME NEW f \in Flushers, fl[f].pc \in {"return", "set"}, GcBlock = Target(f)
          PROVE  FALSE
      <4>1. fl[f].seg \in Segments /\ fl[f].off \in Offsets
        BY <3>3 DEF Typing, FlShape
      <4>2. fl[f].seg = gc.seg
        BY <1>2, <3>3, <4>1, PbaFacts DEF Target
      <4> QED BY <1>2, <3>3, <4>2 DEF Filling, Putting
    <3>4. gc.lba = l
      BY <1>2, <3>1, <3>2, <3>3 DEF Named
    <3> QED BY <1>4, <2>2, <3>2, <3>4
  <2> QED BY <1>1, <2>1, <2>2, GcLeaves
<1> QED BY <1>3, <1>4 DEF GcSearch

LEMMA SoundGcNegate ==
  ASSUME Typing, Sound, GcNegate
  PROVE  Sound'
<1> USE DEF tables, index, history
<1>0. gc \in GcState /\ idx \in [Lbas -> Pbas \cup {NoPba}]
  BY DEF Typing, TypeOK
<1>1. /\ UNCHANGED <<svt, dst, victims, rit, stale, fl, cp>> /\ gc.pc = "negate"
      /\ idx' = [idx EXCEPT ![gc.lba] = NoPba]
  BY DEF GcNegate, GcAt
<1>2. /\ GcBlock \in Pbas /\ GcBlock[1] = gc.seg /\ rit[GcBlock] = INF /\ ~Filling(gc.seg)
      /\ gc.lba \in Lbas
  BY <1>1, GcBlockFacts, GcApart DEF Typing, GcShape, Sound, GcHolds, InGc
<1>3. gc'.pc = "reset" /\ gc'.seg = gc.seg /\ gc'.todo = gc.todo \ {Min(gc.todo)}
  BY <1>0 DEF GcNegate, GcSkip, GcState
<1>4. \A l \in Lbas : idx'[l] = IF l = gc.lba THEN NoPba ELSE idx[l]
  BY <1>0, <1>1, <1>2
<1>5. ASSUME NEW l \in Lbas, l # gc.lba, idx[l] = GcBlock PROVE FALSE
  <2>1. Named(l, GcBlock)
    BY <1>2, <1>5 DEF Sound, LiveHeld
  <2>2. l # INF
    BY PbaFacts
  <2>3. ASSUME NEW f \in Flushers, fl[f].pc \in {"return", "set"}, GcBlock = Target(f)
        PROVE  FALSE
    <3>1. fl[f].seg \in Segments /\ fl[f].off \in Offsets
      BY <2>3 DEF Typing, FlShape
    <3>2. fl[f].seg = gc.seg
      BY <1>2, <2>3, <3>1, PbaFacts DEF Target
    <3> QED BY <1>2, <2>3, <3>2 DEF Filling, Putting
  <2> QED BY <1>2, <1>5, <2>1, <2>2, <2>3 DEF Named
<1>6. \A l \in Lbas : idx'[l] \in {idx[l], NoPba} /\ idx'[l] # GcBlock
  BY <1>2, <1>4, <1>5, PbaFacts
<1> QED BY <1>1, <1>3, <1>6, GcLeaves

(* dst_return_segment of a segment in which nothing is live.               *)
LEMMA SoundGcReturnSegment ==
  ASSUME Typing, Sound, GcReturnSegment, hazards' = {}
  PROVE  Sound'
<1> USE DEF tables, index, history
<1>0. /\ gc \in GcState /\ dst \in [Segments -> Entry]
      /\ victims \in [Segments -> Entry \cup {NoVictim}]
  BY DEF Typing, TypeOK
<1> DEFINE s == gc.seg
<1>1. /\ UNCHANGED <<svt, rit, idx, stale, fl, cp>> /\ gc.pc = "return" /\ s \in Segments
      /\ dst' = [dst EXCEPT ![s] = EmptyEntry] /\ victims' = [victims EXCEPT ![s] = NoVictim]
      /\ \A p \in Returning : p[1] # s
  BY DEF GcReturnSegment, GcAt, dst_return_segment, DestroyVictim, Typing, GcShape, Race
<1>2. gc'.pc = "clear" /\ gc'.seg = s
  BY <1>0 DEF GcReturnSegment, GcState
<1>3. /\ \A x \in Segments : x # s => dst'[x] = dst[x] /\ victims'[x] = victims[x]
      /\ dst'[s] = EmptyEntry /\ victims'[s] = NoVictim /\ EmptyEntry.nr = 0
  BY <1>0, <1>1 DEF EmptyEntry
<1>4. \A x : InGc(x)' <=> InGc(x)
  BY <1>1, <1>2 DEF InGc
<1>5. InGc(s) /\ s \in svt /\ ~Filling(s)
  BY <1>1, GcApart DEF InGc, Sound, GcHolds
<1>6. \A q \in Pbas : Unvisited(q) => q[1] # s /\ Unvisited(q)'
  BY <1>1, <1>2, <1>5 DEF Unvisited, InGc, Collecting
<1>7. \A q \in Pbas : q[1] # s => (Valid(q)' <=> Valid(q))
  BY <1>3, PbaFacts DEF Valid
<1>8. /\ \A x : Filling(x)' <=> Filling(x)
      /\ \A q : Doomed(q)' <=> Doomed(q)
      /\ Returning' = Returning
      /\ \A q : Owned(q)' <=> Owned(q)
      /\ \A g \in Flushers : \A q : (Own(g, q)' <=> Own(g, q)) /\ Target(g)' = Target(g)
  BY <1>1 DEF Filling, Doomed, Returning, Own, Owned, Target
<1>9. \A l, q : Named(l, q) => Named(l, q)'
  BY <1>1 DEF Named, Target
<1> HIDE DEF s
<1>10. TablesAgree'
  BY <1>1, <1>3, <1>5 DEF Sound, TablesAgree
<1>11. GcHolds'
  BY <1>1, <1>2, <1>3, <1>4, <1>8 DEF Sound, GcHolds
<1>12. LiveHeld'
  BY <1>1, <1>6, <1>7, <1>8, <1>9 DEF Sound, LiveHeld
<1>13. DoomedHeld'
  BY <1>6, <1>7, <1>8 DEF Sound, DoomedHeld
<1>14. ReturningHeld'
  BY <1>1, <1>7, <1>8 DEF Sound, ReturningHeld
<1>15. Allocated'
  <2>1. \A f \in Flushers : fl[f].pc = "fill" => fl[f].seg \in Segments /\ fl[f].seg # s
    BY <1>5 DEF Typing, FlShape, Sound, Allocated
  <2> SUFFICES ASSUME NEW g \in Flushers, fl[g].pc = "fill"
               PROVE  /\ fl[g].seg \in svt' /\ dst'[fl[g].seg].nr = 0
                      /\ victims'[fl[g].seg] = NoVictim /\ ~InGc(fl[g].seg)
                      /\ \A h \in Flushers : fl[h].pc = "fill" /\ fl[h].seg = fl[g].seg => h = g
    BY <1>1, <1>4 DEF Allocated
  <2> QED BY <1>1, <1>3, <2>1 DEF Sound, Allocated
<1>16. OwnHeld'
  <2>1. \A q \in Pbas : Owned(q) => Valid(q)' /\ Unvisited(q)'
    BY <1>6, <1>7, GcApart
  <2> QED BY <1>1, <1>8, <2>1 DEF Sound, OwnHeld, Owned
<1> QED BY <1>10, <1>11, <1>12, <1>13, <1>14, <1>15, <1>16 DEF Sound

(* svt->test_and_return of the emptied segment.                            *)
LEMMA SoundGcClear ==
  ASSUME Typing, Sound, GcClear
  PROVE  Sound'
<1> USE DEF tables, index, history
<1>0. gc \in GcState
  BY DEF Typing, TypeOK
<1>1. /\ UNCHANGED <<dst, victims, rit, idx, stale, fl, cp>> /\ gc.pc = "clear"
      /\ svt' = svt \ {gc.seg}
  BY DEF GcClear, GcAt
<1>2. gc'.pc = "load"
  BY <1>0 DEF GcClear, GcState
<1>3. /\ InGc(gc.seg) /\ gc.seg \in Segments
      /\ dst[gc.seg].nr = 0 /\ victims[gc.seg] = NoVictim
  BY <1>1 DEF InGc, Sound, GcHolds, Typing, GcShape
<1>4. \A x : ~InGc(x)'
  BY <1>2 DEF InGc
<1>5. \A q : Unvisited(q)'
  BY <1>4 DEF Unvisited
<1>6. /\ \A x : Filling(x)' <=> Filling(x)
      /\ \A q : (Doomed(q)' <=> Doomed(q)) /\ (Valid(q)' <=> Valid(q))
      /\ Returning' = Returning
      /\ \A q : Owned(q)' <=> Owned(q)
      /\ \A g \in Flushers : \A q : (Own(g, q)' <=> Own(g, q)) /\ Target(g)' = Target(g)
  BY <1>1 DEF Filling, Doomed, Returning, Valid, Own, Owned, Target
<1>7. \A l, q : Named(l, q) => Named(l, q)'
  BY <1>1 DEF Named, Target
<1>8. TablesAgree'
  BY <1>1, <1>3 DEF Sound, TablesAgree
<1>9. GcHolds'
  BY <1>2, <1>4 DEF GcHolds
<1>10. LiveHeld'
  BY <1>1, <1>5, <1>6, <1>7 DEF Sound, LiveHeld
<1>11. DoomedHeld'
  BY <1>5, <1>6 DEF Sound, DoomedHeld
<1>12. ReturningHeld'
  BY <1>1, <1>6 DEF Sound, ReturningHeld
<1>13. Allocated'
  <2>1. \A f \in Flushers : fl[f].pc = "fill" => fl[f].seg # gc.seg
    BY <1>3 DEF Sound, Allocated
  <2> QED BY <1>1, <1>4, <2>1 DEF Sound, Allocated
<1>14. OwnHeld'
  BY <1>1, <1>5, <1>6 DEF Sound, OwnHeld
<1> QED BY <1>8, <1>9, <1>10, <1>11, <1>12, <1>13, <1>14 DEF Sound

(* dst_load gives victims to segments with valid blocks only.              *)
LEMMA SoundReopen ==
  ASSUME Typing, Sound, Reopen
  PROVE  Sound'
<1> USE DEF tables, index, history
<1>1. /\ UNCHANGED <<svt, dst, rit, idx, stale, fl, gc, cp>>
      /\ victims' = [s \in Segments |-> dst_load(s)]
      /\ gc.pc = "idle" /\ \A f \in Flushers : fl[f].pc = "idle"
  BY DEF Reopen, At, GcAt
<1>2. ASSUME NEW s \in Segments, victims'[s] # NoVictim
      PROVE  victims'[s] = dst[s] /\ dst[s].nr # 0
  BY <1>1, <1>2 DEF dst_load, VictimOf
<1>3. TablesAgree'
  BY <1>1, <1>2 DEF Sound, TablesAgree
<1>4. /\ \A x : (Filling(x)' <=> Filling(x)) /\ (InGc(x)' <=> InGc(x)) /\ ~InGc(x)
      /\ \A q : /\ Doomed(q)' <=> Doomed(q)
                /\ Valid(q)' <=> Valid(q)
                /\ Unvisited(q)' <=> Unvisited(q)
      /\ Returning' = Returning
  BY <1>1 DEF Filling, Doomed, Returning, Valid, Unvisited, InGc
<1>5. \A g \in Flushers : \A q : ~Own(g, q)'
  BY <1>1 DEF Own, Putting
<1>6. \A l, q : Named(l, q) => Named(l, q)'
  BY <1>1 DEF Named, Target, GcBlock
<1>7. GcHolds'
  BY <1>1, <1>4 DEF GcHolds
<1>8. LiveHeld'
  BY <1>1, <1>4, <1>6 DEF Sound, LiveHeld
<1>9. DoomedHeld'
  BY <1>4, <1>5 DEF Sound, DoomedHeld, Owned
<1>10. ReturningHeld'
  BY <1>1, <1>4, <1>5 DEF Sound, ReturningHeld, Owned
<1>11. Allocated'
  BY <1>1 DEF Allocated
<1>12. OwnHeld'
  BY <1>5 DEF OwnHeld
<1> QED BY <1>3, <1>7, <1>8, <1>9, <1>10, <1>11, <1>12 DEF Sound

-----------------------------------------------------------------------------
LEMMA InitLive == Init => LiveInv
<1> SUFFICES ASSUME Init PROVE Sound
  BY DEF LiveInv
<1>1. /\ \A f \in Flushers : fl[f].pc = "idle" /\ fl[f].old = NoPba
      /\ gc.pc = "idle" /\ cp = NoPba /\ stale = {}
      /\ \A s \in Segments : dst[s].nr = 0 /\ victims[s] = NoVictim
      /\ \A l \in Lbas : idx[l] = NoPba
  BY DEF Init, IdleFl, IdleGc, EmptyEntry
<1>2. \A x : ~InGc(x)
  BY <1>1 DEF InGc
<1>3. TablesAgree
  BY <1>1 DEF TablesAgree
<1>4. GcHolds
  BY <1>1, <1>2 DEF GcHolds
<1>5. LiveHeld
  BY <1>1, PbaFacts DEF LiveHeld
<1>6. DoomedHeld
  BY <1>1 DEF DoomedHeld, Doomed
<1>7. ReturningHeld
  BY <1>1, PbaFacts DEF ReturningHeld, Returning
<1>8. Allocated /\ OwnHeld
  BY <1>1 DEF Allocated, OwnHeld, Own, Putting
<1> QED BY <1>3, <1>4, <1>5, <1>6, <1>7, <1>8 DEF Sound

(* A race is never forgotten.                                              *)
LEMMA HazardsGrow == [Next]_vars => hazards \subseteq hazards'
<1> USE DEF vars, tables, index, history
<1> SUFFICES ASSUME [Next]_vars PROVE hazards \subseteq hazards'
  OBVIOUS
<1>1. ASSUME NEW f \in Flushers, Flush(f) PROVE hazards \subseteq hazards'
  BY <1>1 DEF Flush, FlushStart, AllocNext, AllocTake, AllocFill, Put, ReturnOld, SetRit,
     find_logging_block, LogLeave, LogPickVictim, LogPickFree, LogTake, LogAccount, LogFail,
     LogTakeBlock, Race
<1>2. CASE Gc
  BY <1>2 DEF Gc, GcStart, GcPop, GcCheck, GcReset, GcSearch, GcNegate, GcReturnSegment,
     GcClear, GcLoad, GcStore, Race
<1>3. CASE CompactReset \/ CompactReturn \/ Reopen
  BY <1>3 DEF CompactReset, CompactReturn, Reopen
<1> QED BY <1>1, <1>2, <1>3 DEF Next

(* As long as no race has occurred every step keeps the live blocks valid. *)
LEMMA StepLive == Typing /\ CountExact /\ LiveInv /\ [Next]_vars => LiveInv'
<1> SUFFICES ASSUME Typing, CountExact, LiveInv, [Next]_vars, hazards' = {}
             PROVE  Sound'
  BY DEF LiveInv
<1>1. Sound
  BY HazardsGrow DEF LiveInv
<1>2. ASSUME NEW f \in Flushers, Flush(f) PROVE Sound'
  BY <1>1, <1>2, FlushOutside, SoundTake, SoundFill, SoundLogTakeBlock, SoundPut,
     SoundReturnOld, SoundSetRit DEF Flush, find_logging_block
<1>3. CASE Gc
  BY <1>1, <1>3, GcOutside, SoundGcPop, SoundGcCheck, SoundGcReset, SoundGcSearch,
     SoundGcNegate, SoundGcReturnSegment, SoundGcClear DEF Gc
<1>4. CASE CompactReset \/ CompactReturn \/ Reopen
  BY <1>1, <1>4, SoundCompactReset, SoundCompactReturn, SoundReopen
<1>5. CASE UNCHANGED vars
  <2>1. UNCHANGED <<svt, dst, victims, rit, idx, stale, fl, gc, cp>>
    BY <1>5 DEF vars, tables, index, history
  <2>2. /\ \A x : (Filling(x)' <=> Filling(x)) /\ (InGc(x)' <=> InGc(x))
        /\ \A q : /\ Doomed(q)' <=> Doomed(q)
                  /\ Valid(q)' <=> Valid(q)
                  /\ Unvisited(q)' <=> Unvisited(q)
        /\ \A l, q : Named(l, q)' <=> Named(l, q)
        /\ Returning' = Returning
        /\ \A g \in Flushers : \A q : (Own(g, q)' <=> Own(g, q)) /\ Target(g)' = Target(g)
        /\ \A q : Owned(q)' <=> Owned(q)
    BY <2>1 DEF Filling, Doomed, Returning, Valid, Unvisited, InGc, Named, Target, GcBlock,
                Own, Owned
  <2>3. TablesAgree' /\ GcHolds' /\ Allocated' /\ OwnHeld'
    BY <1>1, <2>1, <2>2 DEF Sound, TablesAgree, GcHolds, Allocated, OwnHeld, InGc, GcBlock
  <2>4. LiveHeld' /\ DoomedHeld' /\ ReturningHeld'
    BY <1>1, <2>1, <2>2 DEF Sound, LiveHeld, DoomedHeld, ReturningHeld
  <2> QED BY <2>3, <2>4 DEF Sound
<1> QED BY <1>2, <1>3, <1>4, <1>5 DEF Next

(* With any number of threads flushing buffers beside the collector and    *)
(* compaction, threaded logging included, and until one of the races       *)
(* Races names has happened, every block that the newest record of an lba  *)
(* points to is marked valid in the data segment table, its segment is     *)
(* taken, and no other lba has it.                                         *)
THEOREM LiveCorrect == Spec => []LiveUnlessRaced
<1>1. Init => CountExact
  <2>1. ASSUME Init PROVE \A s \in Segments : dst[s].nr = 0 /\ dst[s].map = {}
    BY <2>1 DEF Init, EmptyEntry
  <2>2. Cardinality({}) = 0
    BY FS_EmptySet
  <2> QED BY <2>1, <2>2 DEF CountExact
<1>2. Typing /\ CountExact /\ LiveInv => LiveUnlessRaced
  <2> SUFFICES ASSUME Typing, CountExact, LiveInv, hazards = {}, NEW l \in Lbas, idx[l] # NoPba
               PROVE  /\ idx[l][2] \in dst[idx[l][1]].map
                      /\ idx[l][1] \in svt
                      /\ \A m \in Lbas : idx[m] = idx[l] => m = l
    BY DEF LiveUnlessRaced, LiveBlockValid
  <2>1. idx[l] \in Pbas /\ idx[l][1] \in Segments /\ TypeOK
    BY PbaFacts DEF Typing, TypeOK
  <2>2. Valid(idx[l]) /\ \A m \in Lbas : idx[m] = idx[l] => m = l
    BY <2>1 DEF LiveInv, Sound, LiveHeld
  <2>3. dst[idx[l][1]].nr # 0
    BY <2>1, <2>2, EmptyMap DEF Valid
  <2>4. idx[l][1] \in svt
    BY <2>1, <2>3 DEF LiveInv, Sound, TablesAgree
  <2> QED BY <2>2, <2>4 DEF Valid
<1>3. Typing /\ CountExact /\ LiveInv /\ [Next]_vars => LiveInv'
  BY StepLive
<1> QED
  BY <1>1, <1>2, <1>3, InitTyping, InitLock, InitLive, StepTyping, StepLock, StepCount, PTL
     DEF Spec
=============================================================================
