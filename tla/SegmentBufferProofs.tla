------------------------ MODULE SegmentBufferProofs ------------------------
(***************************************************************************)
(* Proofs about SegmentBuffer, for every number of buffers, blocks per     *)
(* buffer, logical blocks and writes.                                      *)
(***************************************************************************)
EXTENDS SegmentBuffer, WellFoundedInduction, TLAPS

(* How long ago a buffer was started.  While a push waits to recycle the   *)
(* next buffer, that one is current by number and still the oldest.        *)
Seniority(b) == IF Rotating /\ b = cur_buffer THEN PoolSize ELSE Age(b)

(* YoungerIsNewer in the form that also holds during a rotation.           *)
Sorted ==
  \A l \in Lbas : \A b, c \in Holders(l) :
    Seniority(b) < Seniority(c) => buffer[b][l] > buffer[c][l]

(* The lba a payload was written to: the same wherever the payload is.     *)
Belongs(v, l) ==
  /\ v # 0
  /\ \/ rec[l] = v
     \/ latest[l] = v
     \/ \E b \in Pool : buffer[b][l] = v
     \/ gc.lba = l /\ gc.payload = v

Owned ==
  /\ \A v \in Payload, l \in Lbas : Belongs(v, l) => v <= latest[l]
  /\ \A l \in Lbas : latest[l] <= writes
  /\ \A v \in Payload, l, m \in Lbas : Belongs(v, l) /\ Belongs(v, m) => l = m

(* What each thread's place says about its locals and the phase.           *)
Places ==
  /\ \A t \in Threads : ~Running(t) => fl[t] = IdleFlush
  /\ \A t \in Threads : 0 \notin fl[t].unwritten
  /\ Running("closer") => phase = "flush"
  /\ rd.pc # "idle" => phase = "open"
  /\ gc.pc # "idle" => gc.payload # 0

(* None of the hazards that may cost a write has occurred.                 *)
Safe == hazards \subseteq ReadHazards

(* Full buffers are flushed in the order they filled, and removal begins   *)
(* with none left.                                                         *)
Queue ==
  /\ \A i \in 1 .. Len(wq) : Seniority(wq[i]) >= 1
  /\ \A i, k \in 1 .. Len(wq) : i < k => Seniority(wq[i]) > Seniority(wq[k])
  /\ Running("worker") =>
       /\ Seniority(fl["worker"].buf) >= 1
       /\ \A i \in 1 .. Len(wq) : Seniority(fl["worker"].buf) > Seniority(wq[i])
  /\ Running("closer") => fl["closer"].buf = cur_buffer
  /\ phase # "open" => wq = <<>> /\ ~Running("worker") /\ ~Rotating

(* What is still to be flushed is at least as new as the record and as the *)
(* block the collector carries.                                            *)
Ahead ==
  \A l \in Lbas : \A b \in Holders(l) :
    WillFlush(b, l) => /\ buffer[b][l] >= rec[l]
                       /\ gc.pc # "idle" /\ gc.lba = l => buffer[b][l] >= gc.payload

(* An lba that is cached at all is cached with its last write.             *)
Cached ==
  \A l \in Lbas : Holders(l) # {} => \E b \in Holders(l) : buffer[b][l] = latest[l]

(* A record whose data is not on disk has its block in the buffer that is  *)
(* being flushed.                                                          *)
Backed ==
  Running("worker") =>
    \A l \in Lbas : rec[l] \in fl["worker"].unwritten => buffer[fl["worker"].buf][l] = rec[l]

IInv ==
  /\ TypeOK /\ Places /\ Owned /\ Sorted
  /\ Safe => Queue /\ Ahead /\ Cached /\ Backed /\ WriteKept

(* The read under way will return something at least as new as its start.  *)
Reading ==
  /\ rd.pc # "idle" => rd.start <= latest[rd.lba]
  /\ rd.pc = "query" =>
       \/ rd.start = 0
       \/ rd.payload >= rd.start /\ ~rd.torn
       \/ Holders(rd.lba) # {}
  /\ rd.pc = "disk" => rd.start = 0 \/ (rd.payload >= rd.start /\ ~rd.torn)
  /\ rd.pc = "done" => rd.payload >= rd.start

FreshInv == hazards = {} => Reading

-----------------------------------------------------------------------------
(* Arithmetic of the ring.                                                 *)

LEMMA ModRing ==
  ASSUME NEW p \in Nat \ {0}, NEW x \in 0 .. p - 1
  PROVE  x % p = x /\ (x + p) % p = x
BY SMTT(60)

LEMMA PoolFacts ==
  /\ PoolSize \in Nat /\ PoolSize >= 2
  /\ Pool \subseteq Nat /\ NoBuffer \notin Pool
  /\ Lbas \subseteq Nat /\ Lbas # {}
  /\ MaxWrite \in Nat /\ 0 \in Payload /\ Payload \subseteq Nat
BY PoolAssumption DEF Pool, NoBuffer, Lbas, Payload

LEMMA NextInPool ==
  ASSUME NEW b \in Pool
  PROVE  /\ NextBuffer(b) \in Pool
         /\ NextBuffer(b) = IF b = PoolSize - 1 THEN 0 ELSE b + 1
<1>1. b \in 0 .. PoolSize - 1 /\ PoolSize \in Nat \ {0}
  BY PoolFacts DEF Pool
<1>2. CASE b = PoolSize - 1
  <2>1. (0 + PoolSize) % PoolSize = 0
    BY <1>1, ModRing
  <2> QED BY <1>1, <1>2, <2>1 DEF NextBuffer, Pool
<1>3. CASE b # PoolSize - 1
  <2>1. b + 1 \in 0 .. PoolSize - 1
    BY <1>1, <1>3
  <2>2. (b + 1) % PoolSize = b + 1
    BY <1>1, <2>1, ModRing
  <2> QED BY <1>1, <1>3, <2>1, <2>2 DEF NextBuffer, Pool
<1> QED BY <1>2, <1>3

LEMMA AgeIs ==
  ASSUME cur_buffer \in Pool, NEW b \in Pool
  PROVE  Age(b) = IF b <= cur_buffer THEN cur_buffer - b ELSE cur_buffer + PoolSize - b
<1>1. b \in 0 .. PoolSize - 1 /\ PoolSize \in Nat \ {0} /\ cur_buffer \in 0 .. PoolSize - 1
  BY PoolFacts DEF Pool
<1>2. CASE b <= cur_buffer
  <2>1. cur_buffer - b \in 0 .. PoolSize - 1
    BY <1>1, <1>2
  <2>2. ((cur_buffer - b) + PoolSize) % PoolSize = cur_buffer - b
    BY <1>1, <2>1, ModRing
  <2>3. (cur_buffer - b) + PoolSize = cur_buffer + PoolSize - b
    BY <1>1
  <2> QED BY <1>2, <2>2, <2>3 DEF Age
<1>3. CASE ~(b <= cur_buffer)
  <2>1. cur_buffer + PoolSize - b \in 0 .. PoolSize - 1
    BY <1>1, <1>3
  <2>2. (cur_buffer + PoolSize - b) % PoolSize = cur_buffer + PoolSize - b
    BY <1>1, <2>1, ModRing
  <2> QED BY <1>3, <2>2 DEF Age
<1> QED BY <1>2, <1>3

(* Different buffers have different seniorities, the current one has 0.    *)
LEMMA SeniorityFacts ==
  ASSUME cur_buffer \in Pool
  PROVE  /\ \A b \in Pool : Seniority(b) \in 0 .. PoolSize
         /\ \A b, c \in Pool : Seniority(b) = Seniority(c) => b = c
         /\ ~Rotating => Seniority(cur_buffer) = 0
         /\ Rotating => Seniority(cur_buffer) = PoolSize
         /\ \A b \in Pool : b # cur_buffer => Seniority(b) \in 1 .. PoolSize - 1
<1> DEFINE A(b) == IF b <= cur_buffer THEN cur_buffer - b ELSE cur_buffer + PoolSize - b
<1>1. \A b \in Pool : Seniority(b) = IF Rotating /\ b = cur_buffer THEN PoolSize ELSE A(b)
  BY AgeIs DEF Seniority
<1> QED BY <1>1, PoolFacts DEF Pool

(* A buffer has filled: all others are one older.                          *)
LEMMA SeniorityFull ==
  ASSUME cur_buffer \in Pool, ~Rotating,
         cur_buffer' = NextBuffer(cur_buffer), Rotating'
  PROVE  \A b \in Pool : Seniority(b)' = Seniority(b) + 1
<1> DEFINE A(b, c) == IF b <= c THEN c - b ELSE c + PoolSize - b
<1>1. cur_buffer' \in Pool
      /\ cur_buffer' = IF cur_buffer = PoolSize - 1 THEN 0 ELSE cur_buffer + 1
  BY NextInPool
<1>2. \A b \in Pool : Seniority(b) = A(b, cur_buffer)
  BY AgeIs DEF Seniority
<1>3. \A b \in Pool : Age(b)' = A(b, cur_buffer')
  <2> DEFINE x == cur_buffer'
  <2> SUFFICES ASSUME NEW b \in Pool PROVE (x + PoolSize - b) % PoolSize = A(b, x)
    BY DEF Age
  <2>1. b \in 0 .. PoolSize - 1 /\ PoolSize \in Nat \ {0} /\ x \in 0 .. PoolSize - 1
    BY <1>1, PoolFacts DEF Pool
  <2> HIDE DEF x
  <2>2. CASE b <= x
    <3>1. ((x - b) + PoolSize) % PoolSize = x - b
      BY <2>1, <2>2, x - b \in 0 .. PoolSize - 1, ModRing
    <3>2. (x - b) + PoolSize = x + PoolSize - b
      BY <2>1
    <3> QED BY <2>2, <3>1, <3>2
  <2>3. CASE ~(b <= x)
    <3>1. x + PoolSize - b \in 0 .. PoolSize - 1
      BY <2>1, <2>3
    <3> QED BY <2>1, <2>3, <3>1, ModRing
  <2> QED BY <2>2, <2>3
<1>4. \A b \in Pool : Seniority(b)' = IF b = cur_buffer' THEN PoolSize ELSE A(b, cur_buffer')
  BY <1>3 DEF Seniority
<1> QED BY <1>1, <1>2, <1>4, PoolFacts DEF Pool

(* The next buffer is recycled: it is the youngest now.                    *)
LEMMA SeniorityRotate ==
  ASSUME cur_buffer \in Pool, Rotating, ~Rotating', cur_buffer' = cur_buffer
  PROVE  /\ Seniority(cur_buffer)' = 0
         /\ \A b \in Pool : b # cur_buffer => Seniority(b)' = Seniority(b)
<1>1. \A b \in Pool : Age(b)' = Age(b)
  BY DEF Age
<1>2. Age(cur_buffer) = 0
  BY AgeIs, PoolFacts DEF Pool
<1> QED BY <1>1, <1>2 DEF Seniority

(* Nothing of the ring's order changes.                                    *)
LEMMA SenioritySame ==
  ASSUME cur_buffer' = cur_buffer, Rotating' <=> Rotating
  PROVE  \A b \in Pool : Seniority(b)' = Seniority(b)
BY DEF Seniority, Age

(* A non-empty set of naturals has a minimum, and Min names it.            *)
LEMMA MinNat ==
  ASSUME NEW S, S \subseteq Nat, S # {}
  PROVE  Min(S) \in S /\ \A x \in S : Min(S) <= x
<1> DEFINE R == {r \in Nat \X Nat : r[1] < r[2]}
<1>1. IsWellFoundedOn(OpToRel(<, Nat), Nat)
  BY NatLessThanWellFounded
<1>2. OpToRel(<, Nat) = R
  BY DEF OpToRel
<1>3. PICK x \in S : \A y \in S : ~ (<<y, x>> \in R)
  BY <1>1, <1>2, WFMin
<1>4. ASSUME NEW y \in S
      PROVE  x =< y
  <2>1. <<y, x>> \in Nat \X Nat /\ <<y, x>>[1] = y /\ <<y, x>>[2] = x
    OBVIOUS
  <2>2. ~ (y < x)
    BY <1>3, <2>1
  <2> QED BY <2>2
<1> QED BY <1>4 DEF Min

(* The block a flush takes next.                                           *)
LEMMA NextBlock ==
  ASSUME TypeOK, NEW t \in Threads, Running(t), Rest(t) # {}
  PROVE  /\ fl[t].buf \in Pool
         /\ Min(Rest(t)) \in Rest(t) /\ Min(Rest(t)) \in Lbas
         /\ buffer[fl[t].buf][Min(Rest(t))] \in Payload \ {0}
         /\ \A x \in Rest(t) : Min(Rest(t)) <= x
<1>1. fl[t].buf \in Pool
  BY DEF TypeOK, Running
<1>2. Rest(t) \subseteq Lbas /\ Rest(t) \subseteq Nat
  BY PoolFacts DEF Rest, Blocks
<1>3. Min(Rest(t)) \in Rest(t) /\ \A x \in Rest(t) : Min(Rest(t)) <= x
  BY <1>2, MinNat
<1>4. buffer[fl[t].buf][Min(Rest(t))] # 0
  BY <1>3 DEF Rest, Blocks
<1> QED BY <1>1, <1>2, <1>3, <1>4 DEF TypeOK

(* query_block's scan from the newest buffer back finds the youngest one   *)
(* that holds the lba.                                                     *)
LEMMA NewestHolds ==
  ASSUME TypeOK, NEW l \in Lbas, Holders(l) # {}
  PROVE  Newest(l) \in Holders(l) /\ \A c \in Holders(l) : Age(Newest(l)) <= Age(c)
<1> DEFINE S == {Age(b) : b \in Holders(l)}
<1>1. ASSUME NEW b \in Pool PROVE Age(b) \in Nat
  <2>1. cur_buffer \in Pool
    BY DEF TypeOK
  <2>2. Age(b) = IF b <= cur_buffer THEN cur_buffer - b ELSE cur_buffer + PoolSize - b
    BY <2>1, AgeIs
  <2> QED BY <2>1, <2>2, PoolFacts DEF Pool
<1>2. Holders(l) \subseteq Pool
  BY DEF Holders
<1>3. S \subseteq Nat /\ S # {}
  BY <1>1, <1>2
<1>4. Min(S) \in S /\ \A x \in S : Min(S) <= x
  BY <1>3, MinNat
<1>5. PICK b \in Holders(l) : Age(b) = Min(S)
  BY <1>4
<1>6. \A c \in Holders(l) : Age(b) <= Age(c)
  BY <1>4, <1>5
<1>7. \E x \in Holders(l) : \A c \in Holders(l) : Age(x) <= Age(c)
  BY <1>6
<1> QED BY <1>7, Zenon DEF Newest

(* segbuf_push_block: what it does to the ring, filled or not.             *)
LEMMA AddFacts ==
  ASSUME TypeOK, ~Rotating, NEW who \in {"write", "gc"}, NEW l \in Lbas, NEW v \in Payload,
         AddBlock(who, l, v)
  PROVE  /\ buffer' \in [Pool -> [Lbas -> Payload]]
         /\ cur_buffer' \in Pool /\ rotating' \in {"no", "write", "gc"} /\ wq' \in Seq(Pool)
         /\ \A b \in Pool, m \in Lbas :
              buffer'[b][m] = IF b = cur_buffer /\ m = l THEN v ELSE buffer[b][m]
         /\ \/ /\ cur_buffer' = cur_buffer /\ ~Rotating' /\ wq' = wq
               /\ \A b \in Pool : Seniority(b)' = Seniority(b)
            \/ /\ cur_buffer' = NextBuffer(cur_buffer) /\ Rotating'
               /\ wq' = IF phase # "drain" THEN Append(wq, cur_buffer) ELSE wq
               /\ \A b \in Pool : Seniority(b)' = Seniority(b) + 1
<1> DEFINE full == Cardinality(Blocks(cur_buffer) \cup {l}) >= BlocksPerSegment
<1>1. /\ buffer' = [buffer EXCEPT ![cur_buffer][l] = v]
      /\ wq' = IF full /\ phase # "drain" THEN Append(wq, cur_buffer) ELSE wq
      /\ cur_buffer' = IF full THEN NextBuffer(cur_buffer) ELSE cur_buffer
      /\ rotating' = IF full THEN who ELSE "no"
  BY DEF AddBlock
<1> HIDE DEF full
<1>2. buffer \in [Pool -> [Lbas -> Payload]] /\ cur_buffer \in Pool /\ wq \in Seq(Pool)
  BY DEF TypeOK
<1>3. buffer' \in [Pool -> [Lbas -> Payload]]
  BY <1>1, <1>2
<1>4. \A b \in Pool, m \in Lbas :
        buffer'[b][m] = IF b = cur_buffer /\ m = l THEN v ELSE buffer[b][m]
  BY <1>1, <1>2
<1>5. CASE full
  <2>1. Rotating'
    BY <1>1, <1>5 DEF Rotating
  <2>2. \A b \in Pool : Seniority(b)' = Seniority(b) + 1
    BY <1>1, <1>2, <1>5, <2>1, SeniorityFull
  <2>3. wq' \in Seq(Pool) /\ cur_buffer' \in Pool
    BY <1>1, <1>2, <1>5, NextInPool
  <2> QED BY <1>1, <1>3, <1>4, <1>5, <2>1, <2>2, <2>3
<1>6. CASE ~full
  <2>1. ~Rotating' /\ cur_buffer' = cur_buffer /\ wq' = wq
    BY <1>1, <1>6 DEF Rotating
  <2>2. \A b \in Pool : Seniority(b)' = Seniority(b)
    BY <2>1, SenioritySame
  <2> QED BY <1>1, <1>2, <1>3, <1>4, <1>6, <2>1, <2>2
<1> QED BY <1>5, <1>6

FlushStates == [buf : Pool \cup {NoBuffer}, mode : {"segment", "logging"},
                pos : Lbas \cup {-1}, unwritten : SUBSET Payload]

LEMMA StartType ==
  ASSUME TypeOK, NEW t \in Threads, NEW b \in Pool, StartFlush(t, b)
  PROVE  fl' \in [Threads -> [buf : Pool \cup {NoBuffer}, mode : {"segment", "logging"},
                              pos : Lbas \cup {-1}, unwritten : SUBSET Payload]]
<1>1. CASE UNCHANGED fl
  BY <1>1 DEF TypeOK
<1>2. CASE \E m \in {"segment", "logging"} :
             fl' = [fl EXCEPT ![t] = [IdleFlush EXCEPT !.buf = b, !.mode = m]]
  <2>1. PICK m \in {"segment", "logging"} :
          fl' = [fl EXCEPT ![t] = [IdleFlush EXCEPT !.buf = b, !.mode = m]]
    BY <1>2
  <2>2. [IdleFlush EXCEPT !.buf = b, !.mode = m] \in
          [buf : Pool \cup {NoBuffer}, mode : {"segment", "logging"},
           pos : Lbas \cup {-1}, unwritten : SUBSET Payload]
    BY DEF IdleFlush
  <2> QED BY <2>1, <2>2 DEF TypeOK
<1> QED BY <1>1, <1>2 DEF StartFlush

(* All that a block given away changes in a read is that it may fail.      *)
SameRead ==
  /\ rd'.pc = rd.pc /\ rd'.lba = rd.lba /\ rd'.payload = rd.payload
  /\ rd'.torn = rd.torn /\ rd'.start = rd.start

LEMMA LoosenFacts ==
  ASSUME TypeOK, NEW l, NEW v, Loosen(l, v)
  PROVE  /\ rd' \in [pc : {"idle", "query", "disk", "done"}, lba : Lbas,
                     payload : Payload, torn : BOOLEAN, loose : BOOLEAN, start : Payload]
         /\ SameRead
BY DEF TypeOK, Loosen, SameRead

LEMMA EmptyType == Empty \in [Lbas -> Payload]
BY PoolFacts DEF Empty

LEMMA InitType == Init => TypeOK
<1> SUFFICES ASSUME Init PROVE TypeOK
  OBVIOUS
<1>1. 0 \in Pool /\ 0 \in Lbas /\ 0 \in Payload
  BY PoolAssumption DEF Pool, Lbas, Payload
<1>2. IdleFlush \in [buf : Pool \cup {NoBuffer}, mode : {"segment", "logging"},
                     pos : Lbas \cup {-1}, unwritten : SUBSET Payload]
  BY DEF IdleFlush
<1>3. IdleGc \in [pc : {"idle", "negate", "push"}, lba : Lbas, payload : Payload]
  BY <1>1 DEF IdleGc
<1>4. IdleRd \in [pc : {"idle", "query", "disk", "done"}, lba : Lbas,
                  payload : Payload, torn : BOOLEAN, loose : BOOLEAN, start : Payload]
  BY <1>1 DEF IdleRd
<1> QED BY <1>1, <1>2, <1>3, <1>4, EmptyType DEF Init, TypeOK, Causes

LEMMA StepType == TypeOK /\ [Next]_vars => TypeOK'
<1> SUFFICES ASSUME TypeOK, [Next]_vars PROVE TypeOK'
  OBVIOUS
<1> USE DEF pool, history
<1>1. ASSUME NEW l \in Lbas, WriteBlock(l) PROVE TypeOK'
  <2>1. writes + 1 \in Payload
    BY <1>1, PoolFacts DEF WriteBlock, TypeOK, Payload
  <2>2. /\ buffer' \in [Pool -> [Lbas -> Payload]]
        /\ cur_buffer' \in Pool /\ rotating' \in {"no", "write", "gc"} /\ wq' \in Seq(Pool)
    BY <1>1, <2>1, AddFacts DEF WriteBlock
  <2> QED BY <1>1, <2>1, <2>2 DEF WriteBlock, TypeOK
<1>2. CASE Rotate
  BY <1>2, EmptyType DEF Rotate, TypeOK, Causes
<1>3. CASE bufferio_handler
  <2>1. Head(wq) \in Pool /\ wq' \in Seq(Pool)
    BY <1>3 DEF bufferio_handler, TypeOK
  <2>2. fl' \in [Threads -> [buf : Pool \cup {NoBuffer}, mode : {"segment", "logging"},
                              pos : Lbas \cup {-1}, unwritten : SUBSET Payload]]
    BY <1>3, <2>1, StartType, "worker" \in Threads DEF bufferio_handler, Threads
  <2> QED BY <1>3, <2>1, <2>2 DEF bufferio_handler, TypeOK
<1>4. ASSUME NEW t \in Threads, FlushPut(t) PROVE TypeOK'
  <2> DEFINE l == Min(Rest(t))
             v == buffer[fl[t].buf][l]
             f == [fl[t] EXCEPT !.pos = l, !.unwritten = @ \cup {v}]
  <2>1. l \in Lbas /\ v \in Payload
    BY <1>4, NextBlock DEF FlushPut
  <2>2. /\ rec' = [rec EXCEPT ![l] = v]
        /\ fl' = [fl EXCEPT ![t] = f]
    BY <1>4 DEF FlushPut
  <2> HIDE DEF l, v
  <2>3. fl \in [Threads -> FlushStates] /\ fl[t] \in FlushStates
    BY DEF TypeOK, FlushStates
  <2>5. f \in FlushStates
    BY <2>1, <2>3 DEF FlushStates
  <2> HIDE DEF f
  <2>6. fl' \in [Threads -> FlushStates]
    BY <2>2, <2>3, <2>5
  <2>4. rec' \in [Lbas -> Payload]
    BY <2>1, <2>2 DEF TypeOK
  <2>7. rd' \in [pc : {"idle", "query", "disk", "done"}, lba : Lbas,
                 payload : Payload, torn : BOOLEAN, loose : BOOLEAN, start : Payload]
    BY <1>4, LoosenFacts DEF FlushPut
  <2> QED BY <1>4, <2>4, <2>6, <2>7 DEF FlushPut, TypeOK, FlushStates
<1>5. ASSUME NEW t \in Threads, FlushSkip(t) PROVE TypeOK'
  <2>1. Min(Rest(t)) \in Lbas
    BY <1>5, NextBlock DEF FlushSkip
  <2>2. fl \in [Threads -> FlushStates] /\ fl' = [fl EXCEPT ![t].pos = Min(Rest(t))]
    BY <1>5 DEF FlushSkip, TypeOK, FlushStates
  <2>3. fl' \in [Threads -> FlushStates]
    BY <2>1, <2>2 DEF FlushStates
  <2> QED BY <1>5, <2>3 DEF FlushSkip, TypeOK, FlushStates, Causes
<1>6. ASSUME NEW t \in Threads, FlushWrite(t) \/ FlushEnd(t) PROVE TypeOK'
  <2>1. IdleFlush \in [buf : Pool \cup {NoBuffer}, mode : {"segment", "logging"},
                       pos : Lbas \cup {-1}, unwritten : SUBSET Payload]
    BY DEF IdleFlush
  <2>2. rd' \in [pc : {"idle", "query", "disk", "done"}, lba : Lbas,
                 payload : Payload, torn : BOOLEAN, loose : BOOLEAN, start : Payload]
    BY <1>6 DEF FlushWrite, FlushEnd, Landed, TypeOK
  <2>3. fl \in [Threads -> FlushStates] /\ fl[t] \in FlushStates
    BY DEF TypeOK, FlushStates
  <2>4. [fl[t] EXCEPT !.unwritten = {}] \in FlushStates
    BY <2>3 DEF FlushStates
  <2>5. fl' \in [Threads -> FlushStates]
    BY <1>6, <2>1, <2>3, <2>4 DEF FlushWrite, FlushEnd, FlushStates
  <2> QED BY <1>6, <2>2, <2>5 DEF FlushWrite, FlushEnd, TypeOK, FlushStates
<1>7. ASSUME NEW l \in Lbas, GcSearch(l) PROVE TypeOK'
  BY <1>7 DEF GcSearch, TypeOK
<1>8. CASE GcNegate
  BY <1>8, PoolFacts DEF GcNegate, TypeOK, Causes
<1>9. CASE GcTorn \/ GcDrop \/ GcFreed
  <2>1. IdleGc \in [pc : {"idle", "negate", "push"}, lba : Lbas, payload : Payload]
    BY PoolAssumption DEF IdleGc, Lbas, Payload
  <2>2. rd' \in [pc : {"idle", "query", "disk", "done"}, lba : Lbas,
                 payload : Payload, torn : BOOLEAN, loose : BOOLEAN, start : Payload]
    BY <1>9, LoosenFacts DEF GcTorn, GcDrop, GcFreed, TypeOK
  <2> QED BY <1>9, <2>1, <2>2 DEF GcTorn, GcDrop, GcFreed, TypeOK, Causes
<1>10. CASE GcPush
  <2>1. IdleGc \in [pc : {"idle", "negate", "push"}, lba : Lbas, payload : Payload]
    BY PoolAssumption DEF IdleGc, Lbas, Payload
  <2>2. gc.lba \in Lbas /\ gc.payload \in Payload
    BY DEF TypeOK
  <2>3. /\ buffer' \in [Pool -> [Lbas -> Payload]]
        /\ cur_buffer' \in Pool /\ rotating' \in {"no", "write", "gc"} /\ wq' \in Seq(Pool)
    BY <1>10, <2>2, AddFacts DEF GcPush
  <2>4. rd' \in [pc : {"idle", "query", "disk", "done"}, lba : Lbas,
                 payload : Payload, torn : BOOLEAN, loose : BOOLEAN, start : Payload]
    BY <1>10, LoosenFacts DEF GcPush
  <2> QED BY <1>10, <2>1, <2>3, <2>4 DEF GcPush, TypeOK, Causes
<1>11. ASSUME NEW l \in Lbas, ReadSearch(l) PROVE TypeOK'
  BY <1>11 DEF ReadSearch, TypeOK, Causes
<1>12. CASE query_block
  <2>1. rd' \in [pc : {"idle", "query", "disk", "done"}, lba : Lbas,
                 payload : Payload, torn : BOOLEAN, loose : BOOLEAN, start : Payload]
    <3>1. CASE Holders(rd.lba) # {}
      <4>1. Newest(rd.lba) \in Pool
        BY <3>1, rd.lba \in Lbas, NewestHolds DEF TypeOK, Holders
      <4>2. buffer[Newest(rd.lba)][rd.lba] \in Payload
        BY <4>1 DEF TypeOK
      <4> QED BY <1>12, <3>1, <4>2 DEF query_block, TypeOK
    <3>2. CASE Holders(rd.lba) = {}
      BY <1>12, <3>2 DEF query_block, TypeOK
    <3> QED BY <3>1, <3>2
  <2> QED BY <1>12, <2>1 DEF query_block, TypeOK
<1>13. CASE ReadDisk
  <2>1. PICK reused \in {FALSE, rd.loose} :
          /\ rd' = [rd EXCEPT !.pc = "done", !.loose = FALSE,
                              !.payload = IF rd.torn \/ reused THEN 0 ELSE @]
          /\ hazards' = IF reused THEN hazards \cup {"reused"} ELSE hazards
    BY <1>13 DEF ReadDisk
  <2>2. hazards' \subseteq Causes
    BY <2>1 DEF TypeOK, Causes
  <2>3. rd' \in [pc : {"idle", "query", "disk", "done"}, lba : Lbas,
                 payload : Payload, torn : BOOLEAN, loose : BOOLEAN, start : Payload]
    BY <2>1, PoolFacts DEF TypeOK
  <2> QED BY <1>13, <2>2, <2>3 DEF ReadDisk, TypeOK
<1>14. CASE ReadEnd
  <2>1. IdleRd \in [pc : {"idle", "query", "disk", "done"}, lba : Lbas,
                    payload : Payload, torn : BOOLEAN, loose : BOOLEAN, start : Payload]
    BY PoolAssumption DEF IdleRd, Lbas, Payload
  <2> QED BY <1>14, <2>1 DEF ReadEnd, TypeOK
<1>15. CASE DestroyFlush
  <2>1. fl' \in [Threads -> [buf : Pool \cup {NoBuffer}, mode : {"segment", "logging"},
                              pos : Lbas \cup {-1}, unwritten : SUBSET Payload]]
    BY <1>15, StartType, "closer" \in Threads DEF DestroyFlush, Threads, TypeOK
  <2> QED BY <1>15, <2>1 DEF DestroyFlush, TypeOK, Causes
<1>16. CASE DestroyDrain
  BY <1>16 DEF DestroyDrain, TypeOK
<1>17. CASE DestroyFree
  BY <1>17, EmptyType DEF DestroyFree, TypeOK
<1>18. CASE UNCHANGED vars
  BY <1>18 DEF vars, TypeOK
<1> QED BY <1>1, <1>2, <1>3, <1>4, <1>5, <1>6, <1>7, <1>8, <1>9, <1>10, <1>11, <1>12,
           <1>13, <1>14, <1>15, <1>16, <1>17, <1>18
        DEF Next, Gc, Read, Destroy, flush_bios

(* Every buffer, thread and request keeps the type of its declaration,     *)
(* also when an index wraps and a buffer is recycled under a reader.       *)
THEOREM BufferTypes == Spec => []TypeOK
BY InitType, StepType, PTL DEF Spec

-----------------------------------------------------------------------------
(* What the steps do, point by point.                                      *)

(* The hazards that have occurred are never forgotten.                     *)
LEMMA HazardsGrow == ASSUME [Next]_vars PROVE hazards \subseteq hazards'
<1> USE DEF pool, history
<1>1. CASE UNCHANGED vars
  BY <1>1 DEF vars
<1>2. CASE \/ \E l \in Lbas : WriteBlock(l)
           \/ Rotate
           \/ bufferio_handler
  BY <1>2 DEF WriteBlock, Rotate, bufferio_handler
<1>3. CASE \E t \in Threads : flush_bios(t)
  BY <1>3 DEF flush_bios, FlushPut, FlushSkip, FlushWrite, FlushEnd
<1>4. CASE Gc
  BY <1>4 DEF Gc, GcSearch, GcNegate, GcTorn, GcDrop, GcPush, GcFreed
<1>5. CASE Read \/ Destroy
  BY <1>5 DEF Read, ReadSearch, query_block, ReadDisk, ReadEnd,
              Destroy, DestroyFlush, DestroyDrain, DestroyFree
<1> QED BY <1>1, <1>2, <1>3, <1>4, <1>5 DEF Next

LEMMA StartFacts ==
  ASSUME TypeOK, NEW t \in Threads, NEW b \in Pool, StartFlush(t, b)
  PROVE  /\ \A s \in Threads : s # t => fl'[s] = fl[s]
         /\ \/ fl' = fl /\ Blocks(b) = {}
            \/ /\ fl'[t].buf = b /\ fl'[t].pos = -1 /\ fl'[t].unwritten = {}
               /\ Blocks(b) # {}
<1>1. fl \in [Threads -> FlushStates]
  BY DEF TypeOK, FlushStates
<1> QED BY <1>1 DEF StartFlush, IdleFlush

LEMMA PutFacts ==
  ASSUME TypeOK, NEW t \in Threads, FlushPut(t),
         NEW l, l = Min(Rest(t)), NEW v, v = buffer[fl[t].buf][l]
  PROVE  /\ \A s \in Threads : s # t => fl'[s] = fl[s]
         /\ fl'[t].buf = fl[t].buf /\ fl'[t].pos = l
         /\ fl'[t].unwritten = fl[t].unwritten \cup {v}
         /\ \A m \in Lbas : rec'[m] = IF m = l THEN v ELSE rec[m]
         /\ fl[t].buf \in Pool /\ l \in Lbas /\ l \in Rest(t) /\ v \in Payload \ {0}
         /\ \A x \in Rest(t) : l <= x
<1>1. fl \in [Threads -> FlushStates]
  BY DEF TypeOK, FlushStates
<1>2. /\ rec' = [rec EXCEPT ![l] = v]
      /\ fl' = [fl EXCEPT ![t].pos = l, ![t].unwritten = @ \cup {v}]
      /\ Running(t) /\ Rest(t) # {}
  BY DEF FlushPut
<1>3. /\ fl[t].buf \in Pool /\ l \in Lbas /\ l \in Rest(t) /\ v \in Payload \ {0}
      /\ \A x \in Rest(t) : l <= x
  BY <1>2, NextBlock
<1>4. rec \in [Lbas -> Payload]
  BY DEF TypeOK
<1>5. /\ \A s \in Threads : s # t => fl'[s] = fl[s]
      /\ fl'[t].buf = fl[t].buf /\ fl'[t].pos = l
      /\ fl'[t].unwritten = fl[t].unwritten \cup {v}
  BY <1>1, <1>2 DEF FlushStates
<1>6. \A m \in Lbas : rec'[m] = IF m = l THEN v ELSE rec[m]
  BY <1>2, <1>3, <1>4
<1> QED BY <1>3, <1>5, <1>6

LEMMA EndFacts ==
  ASSUME TypeOK, NEW t \in Threads, FlushWrite(t) \/ FlushEnd(t)
  PROVE  /\ \A s \in Threads : s # t => fl'[s] = fl[s]
         /\ \/ FlushWrite(t) /\ fl'[t].buf = fl[t].buf /\ fl'[t].pos = fl[t].pos
            \/ FlushEnd(t) /\ fl'[t] = IdleFlush /\ Rest(t) = {}
         /\ fl'[t].unwritten = {}
<1>1. fl \in [Threads -> FlushStates]
  BY DEF TypeOK, FlushStates
<1>2. CASE FlushWrite(t)
  <2>1. fl' = [fl EXCEPT ![t].unwritten = {}]
    BY <1>2 DEF FlushWrite
  <2> QED BY <1>1, <1>2, <2>1 DEF FlushStates
<1>3. CASE FlushEnd(t)
  BY <1>1, <1>3 DEF FlushEnd, IdleFlush
<1> QED BY <1>2, <1>3

(* A recycled buffer is empty, the others are as they were.                *)
LEMMA RotateFacts ==
  ASSUME TypeOK, Rotate
  PROVE  /\ \A b \in Pool, m \in Lbas :
              buffer'[b][m] = IF b = cur_buffer THEN 0 ELSE buffer[b][m]
         /\ Seniority(cur_buffer)' = 0 /\ Seniority(cur_buffer) = PoolSize
         /\ \A b \in Pool : b # cur_buffer => /\ Seniority(b)' = Seniority(b)
                                              /\ Seniority(b) < PoolSize
         /\ ~Rotating'
<1>1. Rotating /\ ~Rotating' /\ cur_buffer' = cur_buffer /\ cur_buffer \in Pool
  BY DEF Rotate, Rotating, TypeOK
<1>2. \A b \in Pool, m \in Lbas :
        buffer'[b][m] = IF b = cur_buffer THEN 0 ELSE buffer[b][m]
  BY DEF Rotate, TypeOK, Empty
<1>3. /\ Seniority(cur_buffer)' = 0
      /\ \A b \in Pool : b # cur_buffer => Seniority(b)' = Seniority(b)
  BY <1>1, SeniorityRotate
<1>4. /\ Seniority(cur_buffer) = PoolSize
      /\ \A b \in Pool : b # cur_buffer => Seniority(b) \in 1 .. PoolSize - 1
  BY <1>1, SeniorityFacts
<1> QED BY <1>1, <1>2, <1>3, <1>4, PoolFacts

-----------------------------------------------------------------------------
(* Places.                                                                 *)

LEMMA InitPlaces == Init => Places
BY DEF Init, Places, Running, IdleFlush, IdleRd, IdleGc, Threads

LEMMA StepPlaces == ASSUME TypeOK, Places, [Next]_vars PROVE Places'
<1> USE DEF pool, history
<1> DEFINE F == /\ \A t \in Threads : ~Running(t) => fl[t] = IdleFlush
                /\ \A t \in Threads : 0 \notin fl[t].unwritten
           C == Running("closer") => phase = "flush"
           R == rd.pc # "idle" => phase = "open"
           G == gc.pc # "idle" => gc.payload # 0
<1>0. Threads = {"worker", "closer"}
  BY DEF Threads
<1>1. F /\ C /\ R /\ G
  BY DEF Places
<1> SUFFICES F' /\ C' /\ R' /\ G'
  BY DEF Places
<1>2. CASE UNCHANGED <<fl, phase, gc>> /\ (rd' = rd \/ (rd.pc # "idle" \/ phase = "open"))
  BY <1>1, <1>2 DEF Running
<1>3. ASSUME NEW l \in Lbas, WriteBlock(l) PROVE F' /\ C' /\ R' /\ G'
  BY <1>2, <1>3 DEF WriteBlock
<1>4. CASE Rotate
  BY <1>2, <1>4 DEF Rotate
<1>5. CASE bufferio_handler
  <2>1. StartFlush("worker", Head(wq)) /\ UNCHANGED <<phase, gc, rd>>
    BY <1>5 DEF bufferio_handler
  <2>2. Head(wq) \in Pool
    BY <1>5 DEF bufferio_handler, TypeOK
  <2>3. /\ fl'["closer"] = fl["closer"]
        /\ \/ fl' = fl
           \/ fl'["worker"].buf = Head(wq) /\ fl'["worker"].unwritten = {}
    BY <1>0, <2>1, <2>2, StartFacts
  <2>4. F' /\ C'
    BY <1>0, <1>1, <2>1, <2>2, <2>3, PoolFacts DEF Running
  <2> QED BY <1>1, <2>1, <2>4
<1>6. ASSUME NEW t \in Threads, FlushPut(t) PROVE F' /\ C' /\ R' /\ G'
  <2> DEFINE l == Min(Rest(t))
             v == buffer[fl[t].buf][l]
  <2>1. /\ \A s \in Threads : s # t => fl'[s] = fl[s]
        /\ fl'[t].buf = fl[t].buf /\ fl'[t].unwritten = fl[t].unwritten \cup {v}
        /\ v # 0
    BY <1>6, PutFacts
  <2> HIDE DEF v
  <2>2. UNCHANGED <<phase, gc>> /\ rd'.pc = rd.pc /\ Running(t)
    BY <1>6, LoosenFacts DEF FlushPut, SameRead
  <2>3. \A s \in Threads : Running(s)' <=> Running(s)
    BY <2>1 DEF Running
  <2> QED BY <1>0, <1>1, <2>1, <2>2, <2>3
<1>7. ASSUME NEW t \in Threads, FlushSkip(t) PROVE F' /\ C' /\ R' /\ G'
  <2>1. fl' = [fl EXCEPT ![t].pos = Min(Rest(t))] /\ UNCHANGED <<phase, gc, rd>> /\ Running(t)
    BY <1>7 DEF FlushSkip
  <2>2. fl \in [Threads -> FlushStates]
    BY DEF TypeOK, FlushStates
  <2>3. /\ \A s \in Threads : s # t => fl'[s] = fl[s]
        /\ fl'[t].buf = fl[t].buf /\ fl'[t].unwritten = fl[t].unwritten
    BY <2>1, <2>2 DEF FlushStates
  <2>4. \A s \in Threads : Running(s)' <=> Running(s)
    BY <2>3 DEF Running
  <2> QED BY <1>0, <1>1, <2>1, <2>3, <2>4
<1>8. ASSUME NEW t \in Threads, FlushWrite(t) \/ FlushEnd(t) PROVE F' /\ C' /\ R' /\ G'
  <2>1. /\ \A s \in Threads : s # t => fl'[s] = fl[s]
        /\ fl'[t].buf = fl[t].buf \/ fl'[t] = IdleFlush
        /\ fl'[t].unwritten = {}
    BY <1>8, EndFacts
  <2>2. UNCHANGED <<phase, gc>> /\ rd'.pc = rd.pc /\ Running(t)
    BY <1>8 DEF FlushWrite, FlushEnd, Landed, TypeOK
  <2>3. \A s \in Threads : Running(s)' => Running(s)
    BY <2>1, <2>2 DEF Running, IdleFlush
  <2>4. \A s \in Threads : ~Running(s)' => fl'[s] = IdleFlush
    BY <1>1, <2>1, <2>2 DEF Running
  <2> QED BY <1>0, <1>1, <2>1, <2>2, <2>3, <2>4
<1>9. CASE Gc
  <2>1. UNCHANGED <<fl, phase>> /\ rd'.pc = rd.pc
    BY <1>9, LoosenFacts DEF Gc, GcSearch, GcNegate, GcTorn, GcDrop, GcPush, GcFreed, SameRead
  <2>2. G'
    BY <1>1, <1>9 DEF Gc, GcSearch, GcNegate, GcTorn, GcDrop, GcPush, GcFreed, IdleGc, TypeOK
  <2> QED BY <1>1, <2>1, <2>2 DEF Running
<1>10. CASE Read
  <2>1. UNCHANGED <<fl, gc, phase>> /\ (rd.pc # "idle" \/ phase = "open")
    BY <1>10 DEF Read, ReadSearch, query_block, ReadDisk, ReadEnd
  <2> QED BY <1>2, <2>1
<1>11. CASE DestroyFlush
  <2>1. /\ StartFlush("closer", cur_buffer) /\ UNCHANGED <<gc, rd>>
        /\ rd.pc = "idle" /\ phase = "open" /\ phase' = "flush" /\ cur_buffer \in Pool
    BY <1>11 DEF DestroyFlush, TypeOK
  <2>2. /\ fl'["worker"] = fl["worker"]
        /\ \/ fl' = fl
           \/ fl'["closer"].buf = cur_buffer /\ fl'["closer"].unwritten = {}
    BY <1>0, <2>1, StartFacts
  <2> QED BY <1>0, <1>1, <2>1, <2>2, PoolFacts DEF Running
<1>12. CASE DestroyDrain \/ DestroyFree
  BY <1>1, <1>12 DEF DestroyDrain, DestroyFree, Running
<1>13. CASE UNCHANGED vars
  BY <1>2, <1>13 DEF vars
<1> QED BY <1>3, <1>4, <1>5, <1>6, <1>7, <1>8, <1>9, <1>10, <1>11, <1>12, <1>13
        DEF Next, flush_bios, Destroy

-----------------------------------------------------------------------------
(* A payload stays with its lba: only a write brings a new one.            *)

LEMMA InitOwned == Init => Owned
<1> SUFFICES ASSUME Init PROVE Owned
  OBVIOUS
<1>1. \A l \in Lbas : rec[l] = 0 /\ latest[l] = 0 /\ \A b \in Pool : buffer[b][l] = 0
  BY DEF Init, Empty
<1>2. gc.payload = 0 /\ writes = 0
  BY DEF Init, IdleGc
<1> QED BY <1>1, <1>2 DEF Owned, Belongs

LEMMA OwnedKept ==
  ASSUME Owned, latest' = latest, writes' = writes,
         \A v \in Payload, l \in Lbas : Belongs(v, l)' => Belongs(v, l)
  PROVE  Owned'
BY DEF Owned

(* A block of a write bio: it is new, and all else stays where it was.     *)
LEMMA WriteFacts ==
  ASSUME TypeOK, NEW l \in Lbas, WriteBlock(l)
  PROVE  /\ writes + 1 \in Payload \ {0} /\ writes' = writes + 1
         /\ \A m \in Lbas : latest'[m] = IF m = l THEN writes + 1 ELSE latest[m]
         /\ \A b \in Pool, m \in Lbas :
              buffer'[b][m] = IF b = cur_buffer /\ m = l THEN writes + 1 ELSE buffer[b][m]
         /\ AddBlock("write", l, writes + 1) /\ ~Rotating /\ phase = "open"
         /\ UNCHANGED <<fl, rec, gc, rd, phase, hazards>>
<1>1. /\ AddBlock("write", l, writes + 1) /\ ~Rotating /\ phase = "open"
      /\ writes < MaxWrite /\ writes' = writes + 1
      /\ latest' = [latest EXCEPT ![l] = writes + 1]
      /\ UNCHANGED <<fl, rec, gc, rd, phase, hazards>>
  BY DEF WriteBlock
<1>2. writes + 1 \in Payload \ {0}
  BY <1>1, PoolFacts DEF TypeOK, Payload
<1>3. \A b \in Pool, m \in Lbas :
        buffer'[b][m] = IF b = cur_buffer /\ m = l THEN writes + 1 ELSE buffer[b][m]
  BY <1>1, <1>2, AddFacts
<1>4. \A m \in Lbas : latest'[m] = IF m = l THEN writes + 1 ELSE latest[m]
  BY <1>1 DEF TypeOK
<1> QED BY <1>1, <1>2, <1>3, <1>4

LEMMA StepOwned == ASSUME TypeOK, Owned, [Next]_vars PROVE Owned'
<1> USE DEF pool, history
<1>1. CASE UNCHANGED <<buffer, rec, gc, latest, writes>>
  BY <1>1 DEF Owned, Belongs
<1>2. ASSUME NEW l \in Lbas, WriteBlock(l) PROVE Owned'
  <2>1. /\ writes + 1 \in Payload \ {0} /\ writes' = writes + 1
        /\ \A m \in Lbas : latest'[m] = IF m = l THEN writes + 1 ELSE latest[m]
        /\ \A b \in Pool, m \in Lbas :
             buffer'[b][m] = IF b = cur_buffer /\ m = l THEN writes + 1 ELSE buffer[b][m]
        /\ UNCHANGED <<rec, gc>>
    BY <1>2, WriteFacts
  <2>2. \A v \in Payload, m \in Lbas :
          Belongs(v, m)' => Belongs(v, m) \/ (v = writes + 1 /\ m = l)
    BY <2>1 DEF Belongs
  <2>3. writes \in Nat /\ Payload \subseteq Nat /\ \A m \in Lbas : latest[m] \in Nat
    BY PoolFacts DEF TypeOK
  <2>4. \A v \in Payload, m \in Lbas : Belongs(v, m) => v <= latest[m] /\ v <= writes
    BY <2>3 DEF Owned
  <2>5. \A v \in Payload, m \in Lbas : Belongs(v, m)' => v <= latest'[m]
    BY <2>1, <2>2, <2>3, <2>4
  <2>6. \A m \in Lbas : latest'[m] <= writes'
    BY <2>1, <2>3 DEF Owned
  <2>7. \A v \in Payload, m, n \in Lbas : Belongs(v, m)' /\ Belongs(v, n)' => m = n
    BY <2>2, <2>3, <2>4 DEF Owned
  <2> QED BY <2>5, <2>6, <2>7 DEF Owned
<1>3. CASE Rotate
  <2>1. \A b \in Pool, m \in Lbas : buffer'[b][m] \in {0, buffer[b][m]}
    BY <1>3, RotateFacts
  <2>2. UNCHANGED <<rec, gc, latest, writes>>
    BY <1>3 DEF Rotate
  <2>3. \A v \in Payload, l \in Lbas : Belongs(v, l)' => Belongs(v, l)
    BY <2>1, <2>2 DEF Belongs
  <2> QED BY <2>2, <2>3, OwnedKept
<1>4. CASE bufferio_handler
  BY <1>1, <1>4 DEF bufferio_handler
<1>5. ASSUME NEW t \in Threads, FlushPut(t) PROVE Owned'
  <2> DEFINE l == Min(Rest(t))
             w == buffer[fl[t].buf][l]
  <2>1. /\ \A m \in Lbas : rec'[m] = IF m = l THEN w ELSE rec[m]
        /\ fl[t].buf \in Pool
    BY <1>5, PutFacts
  <2>2. UNCHANGED <<buffer, gc, latest, writes>>
    BY <1>5 DEF FlushPut
  <2>3. \A v \in Payload, m \in Lbas : Belongs(v, m)' => Belongs(v, m)
    BY <2>1, <2>2 DEF Belongs
  <2> QED BY <2>2, <2>3, OwnedKept
<1>6. ASSUME NEW t \in Threads, FlushSkip(t) \/ FlushWrite(t) \/ FlushEnd(t) PROVE Owned'
  BY <1>1, <1>6 DEF FlushSkip, FlushWrite, FlushEnd
<1>7. ASSUME NEW l \in Lbas, GcSearch(l) PROVE Owned'
  <2>1. \A v \in Payload, m \in Lbas : Belongs(v, m)' => Belongs(v, m)
    BY <1>7 DEF GcSearch, Belongs
  <2> QED BY <1>7, <2>1, OwnedKept DEF GcSearch
<1>8. CASE GcNegate
  <2>1. \A m \in Lbas : rec'[m] \in {0, rec[m]}
    BY <1>8 DEF GcNegate, TypeOK
  <2>2. gc'.lba = gc.lba /\ gc'.payload = gc.payload /\ UNCHANGED <<buffer, latest, writes>>
    BY <1>8 DEF GcNegate, TypeOK
  <2>3. \A v \in Payload, m \in Lbas : Belongs(v, m)' => Belongs(v, m)
    BY <2>1, <2>2 DEF Belongs
  <2> QED BY <2>2, <2>3, OwnedKept
<1>9. CASE GcTorn \/ GcDrop \/ GcFreed
  <2>1. gc'.payload = 0 /\ UNCHANGED <<buffer, rec, latest, writes>>
    BY <1>9 DEF GcTorn, GcDrop, GcFreed, IdleGc
  <2>2. \A v \in Payload, m \in Lbas : Belongs(v, m)' => Belongs(v, m)
    BY <2>1 DEF Belongs
  <2> QED BY <2>1, <2>2, OwnedKept
<1>10. CASE GcPush
  <2>1. gc.lba \in Lbas /\ gc.payload \in Payload /\ AddBlock("gc", gc.lba, gc.payload) /\ ~Rotating
    BY <1>10 DEF GcPush, TypeOK
  <2>2. \A b \in Pool, m \in Lbas :
          buffer'[b][m] = IF b = cur_buffer /\ m = gc.lba THEN gc.payload ELSE buffer[b][m]
    BY <2>1, AddFacts
  <2>3. gc'.payload = 0 /\ UNCHANGED <<rec, latest, writes>>
    BY <1>10 DEF GcPush, IdleGc
  <2>4. \A v \in Payload, m \in Lbas : Belongs(v, m)' => Belongs(v, m)
    BY <2>2, <2>3 DEF Belongs
  <2> QED BY <2>3, <2>4, OwnedKept
<1>11. CASE Read
  BY <1>1, <1>11 DEF Read, ReadSearch, query_block, ReadDisk, ReadEnd
<1>12. CASE DestroyFlush \/ DestroyDrain
  BY <1>1, <1>12 DEF DestroyFlush, DestroyDrain
<1>13. CASE DestroyFree
  <2>1. UNCHANGED <<rec, gc, latest, writes>> /\ \A b \in Pool, m \in Lbas : buffer'[b][m] = 0
    BY <1>13 DEF DestroyFree, Empty
  <2>2. \A v \in Payload, m \in Lbas : Belongs(v, m)' => Belongs(v, m)
    BY <2>1 DEF Belongs
  <2> QED BY <2>1, <2>2, OwnedKept
<1>14. CASE UNCHANGED vars
  BY <1>1, <1>14 DEF vars
<1> QED BY <1>2, <1>3, <1>4, <1>5, <1>6, <1>7, <1>8, <1>9, <1>10, <1>11, <1>12, <1>13, <1>14
        DEF Next, Gc, flush_bios, Destroy

-----------------------------------------------------------------------------
(* The ring stays sorted by age.                                           *)

LEMMA InitSorted == Init => Sorted
BY DEF Init, Sorted, Holders, Empty

LEMMA SortedSame ==
  ASSUME Sorted, UNCHANGED <<buffer, cur_buffer, rotating>>
  PROVE  Sorted'
<1>1. \A b \in Pool : Seniority(b)' = Seniority(b)
  BY SenioritySame DEF Rotating
<1>2. \A l : Holders(l)' = Holders(l)
  BY DEF Holders
<1> QED BY <1>1, <1>2 DEF Sorted, Holders

(* A push keeps the ring sorted if what it adds is newer than the lba's    *)
(* other blocks.                                                           *)
LEMMA SortedAdd ==
  ASSUME TypeOK, Sorted, ~Rotating, NEW who \in {"write", "gc"}, NEW l \in Lbas,
         NEW v \in Payload, AddBlock(who, l, v),
         \A c \in Holders(l) : c # cur_buffer => v > buffer[c][l]
  PROVE  Sorted'
<1>1. /\ \A b \in Pool, m \in Lbas :
           buffer'[b][m] = IF b = cur_buffer /\ m = l THEN v ELSE buffer[b][m]
      /\ \/ \A b \in Pool : Seniority(b)' = Seniority(b)
         \/ \A b \in Pool : Seniority(b)' = Seniority(b) + 1
  BY AddFacts
<1>2. /\ cur_buffer \in Pool /\ Seniority(cur_buffer) = 0
      /\ \A b \in Pool : Seniority(b) \in Nat
  BY SeniorityFacts, PoolFacts DEF TypeOK
<1>3. \A b, c \in Pool : Seniority(b)' < Seniority(c)' => Seniority(b) < Seniority(c)
  BY <1>1, <1>2
<1> SUFFICES ASSUME NEW m \in Lbas, NEW b \in Holders(m)', NEW c \in Holders(m)',
                    Seniority(b)' < Seniority(c)'
             PROVE  buffer'[b][m] > buffer'[c][m]
  BY DEF Sorted
<1>4. b \in Pool /\ c \in Pool /\ buffer'[b][m] # 0 /\ buffer'[c][m] # 0
  BY DEF Holders
<1>5. Seniority(b) < Seniority(c) /\ c # cur_buffer
  BY <1>2, <1>3, <1>4
<1>6. c \in Holders(m) /\ buffer'[c][m] = buffer[c][m]
  BY <1>1, <1>4, <1>5 DEF Holders
<1>7. CASE b = cur_buffer /\ m = l
  BY <1>1, <1>2, <1>5, <1>6, <1>7
<1>8. CASE ~(b = cur_buffer /\ m = l)
  <2>1. b \in Holders(m) /\ buffer'[b][m] = buffer[b][m]
    BY <1>1, <1>4, <1>8 DEF Holders
  <2> QED BY <1>5, <1>6, <2>1 DEF Sorted
<1> QED BY <1>7, <1>8

LEMMA StepSorted == ASSUME TypeOK, Owned, Sorted, [Next]_vars PROVE Sorted'
<1> USE DEF pool, history
<1>1. ASSUME NEW l \in Lbas, WriteBlock(l) PROVE Sorted'
  <2>1. /\ writes + 1 \in Payload /\ AddBlock("write", l, writes + 1) /\ ~Rotating
    BY <1>1, WriteFacts
  <2>2. ASSUME NEW c \in Holders(l) PROVE writes + 1 > buffer[c][l]
    <3>1. c \in Pool /\ buffer[c][l] # 0
      BY DEF Holders
    <3>2. buffer[c][l] \in Payload /\ latest[l] \in Payload /\ writes \in Payload
      BY <3>1 DEF TypeOK
    <3>3. buffer[c][l] <= latest[l] /\ latest[l] <= writes
      BY <3>1, <3>2 DEF Owned, Belongs
    <3>4. buffer[c][l] \in Nat /\ latest[l] \in Nat /\ writes \in Nat
      BY <3>2, PoolFacts
    <3> QED BY <3>3, <3>4
  <2> QED BY <2>1, <2>2, SortedAdd
<1>2. CASE Rotate
  <2>1. /\ \A b \in Pool, m \in Lbas :
             buffer'[b][m] = IF b = cur_buffer THEN 0 ELSE buffer[b][m]
        /\ \A b \in Pool : b # cur_buffer => Seniority(b)' = Seniority(b)
    BY <1>2, RotateFacts
  <2>2. \A m \in Lbas : \A b \in Holders(m)' :
          b \in Holders(m) /\ b # cur_buffer /\ buffer'[b][m] = buffer[b][m]
    BY <2>1 DEF Holders
  <2>3. \A m \in Lbas : Holders(m)' \subseteq Pool
    BY DEF Holders
  <2> QED BY <2>1, <2>2, <2>3 DEF Sorted
<1>3. CASE bufferio_handler
  BY <1>3, SortedSame DEF bufferio_handler
<1>4. CASE \E t \in Threads : flush_bios(t)
  BY <1>4, SortedSame DEF flush_bios, FlushPut, FlushSkip, FlushWrite, FlushEnd
<1>5. CASE GcPush
  <2>1. /\ gc.lba \in Lbas /\ gc.payload \in Payload /\ AddBlock("gc", gc.lba, gc.payload)
        /\ ~Rotating /\ Holders(gc.lba) = {}
    BY <1>5 DEF GcPush, TypeOK
  <2> QED BY <2>1, SortedAdd
<1>6. CASE (\E l \in Lbas : GcSearch(l)) \/ GcNegate \/ GcTorn \/ GcDrop \/ GcFreed
  BY <1>6, SortedSame DEF GcSearch, GcNegate, GcTorn, GcDrop, GcFreed
<1>7. CASE Read
  BY <1>7, SortedSame DEF Read, ReadSearch, query_block, ReadDisk, ReadEnd
<1>8. CASE DestroyFlush \/ DestroyDrain
  BY <1>8, SortedSame DEF DestroyFlush, DestroyDrain
<1>9. CASE DestroyFree
  BY <1>9 DEF DestroyFree, Sorted, Holders, Empty
<1>10. CASE UNCHANGED vars
  BY <1>10, SortedSame DEF vars
<1> QED BY <1>1, <1>2, <1>3, <1>4, <1>5, <1>6, <1>7, <1>8, <1>9, <1>10
        DEF Next, Gc, Destroy

LEMMA SortedIsYounger == Sorted => YoungerIsNewer
BY DEF Sorted, YoungerIsNewer, Seniority

(* The scan of query_block finds the newest buffered block: whatever       *)
(* order writes, relocations and flushes come in, of two buffers that hold *)
(* an lba the younger one holds the later write.                           *)
THEOREM YoungerNewer == Spec => []YoungerIsNewer
<1> DEFINE I == TypeOK /\ Owned /\ Sorted
<1>1. Init => I
  BY InitType, InitOwned, InitSorted
<1>2. I /\ [Next]_vars => I'
  BY StepType, StepOwned, StepSorted
<1>3. I => YoungerIsNewer
  BY SortedIsYounger
<1> QED BY <1>1, <1>2, <1>3, PTL DEF Spec

-----------------------------------------------------------------------------
(* Full buffers are flushed in the order they filled.                      *)

LEMMA InitQueue == Init => Queue
BY DEF Init, Queue, Running, Rotating, IdleFlush, Threads

(* The ring and the queue are as they were and no flush has started.       *)
LEMMA QueueSame ==
  ASSUME Queue, UNCHANGED <<cur_buffer, rotating, wq, phase>>,
         \A t \in Threads : fl'[t].buf \in {fl[t].buf, NoBuffer},
         TypeOK
  PROVE  Queue'
<1>1. \A b \in Pool : Seniority(b)' = Seniority(b)
  BY SenioritySame DEF Rotating
<1>2. \A i \in 1 .. Len(wq) : wq[i] \in Pool
  BY DEF TypeOK
<1>3. \A t \in Threads : Running(t)' => Running(t) /\ fl'[t].buf = fl[t].buf /\ fl[t].buf \in Pool
  BY DEF Running, TypeOK
<1>4. "worker" \in Threads /\ "closer" \in Threads
  BY DEF Threads
<1>5. Rotating' <=> Rotating
  BY DEF Rotating
<1> QED BY <1>1, <1>2, <1>3, <1>4, <1>5 DEF Queue

LEMMA QueueAdd ==
  ASSUME TypeOK, Places, Queue, ~Rotating, phase = "open", UNCHANGED <<phase, fl>>,
         NEW who \in {"write", "gc"}, NEW l \in Lbas, NEW v \in Payload, AddBlock(who, l, v)
  PROVE  Queue'
<1>1. \/ /\ cur_buffer' = cur_buffer /\ ~Rotating' /\ wq' = wq
         /\ \A b \in Pool : Seniority(b)' = Seniority(b)
      \/ /\ Rotating' /\ wq' = Append(wq, cur_buffer)
         /\ \A b \in Pool : Seniority(b)' = Seniority(b) + 1
  BY AddFacts
<1>2. /\ wq \in Seq(Pool) /\ cur_buffer \in Pool /\ Seniority(cur_buffer) = 0
      /\ \A b \in Pool : Seniority(b) \in Nat
  BY SeniorityFacts, PoolFacts DEF TypeOK
<1>3. ~Running("closer") /\ ~Running("closer")' /\ (Running("worker")' <=> Running("worker"))
  BY DEF Places, Running
<1>4. Running("worker") => fl["worker"].buf \in Pool
  BY DEF Running, TypeOK, Threads
<1>5. \A i \in 1 .. Len(wq) : wq[i] \in Pool
  BY <1>2
<1>6. CASE cur_buffer' = cur_buffer /\ ~Rotating' /\ wq' = wq
         /\ \A b \in Pool : Seniority(b)' = Seniority(b)
  BY <1>3, <1>4, <1>5, <1>6 DEF Queue
<1>7. CASE /\ Rotating' /\ wq' = Append(wq, cur_buffer)
           /\ \A b \in Pool : Seniority(b)' = Seniority(b) + 1
  <2>1. /\ Len(wq') = Len(wq) + 1 /\ Len(wq) \in Nat
        /\ \A i \in 1 .. Len(wq) : wq'[i] = wq[i] /\ wq[i] \in Pool
        /\ wq'[Len(wq) + 1] = cur_buffer
    BY <1>2, <1>7
  <2>2. \A i \in 1 .. Len(wq') : IF i = Len(wq) + 1 THEN Seniority(wq[i])' = 1
                                 ELSE /\ i \in 1 .. Len(wq)
                                      /\ Seniority(wq[i])' = Seniority(wq[i]) + 1
                                      /\ Seniority(wq[i]) \in Nat
    BY <1>2, <1>7, <2>1
  <2>3. \A i \in 1 .. Len(wq') : Seniority(wq[i])' >= 1
    BY <2>1, <2>2 DEF Queue
  <2>4. \A i, k \in 1 .. Len(wq') : i < k => Seniority(wq[i])' > Seniority(wq[k])'
    BY <2>1, <2>2 DEF Queue
  <2>5. Running("worker")' =>
          /\ Seniority(fl["worker"].buf)' >= 1
          /\ \A i \in 1 .. Len(wq') : Seniority(fl["worker"].buf)' > Seniority(wq[i])'
    BY <1>2, <1>3, <1>4, <1>7, <2>1, <2>2 DEF Queue
  <2> QED BY <1>3, <2>3, <2>4, <2>5 DEF Queue
<1> QED BY <1>1, <1>6, <1>7

LEMMA StepQueue == ASSUME TypeOK, Places, Queue, [Next]_vars, Safe' PROVE Queue'
<1> USE DEF pool, history
<1>0. "worker" \in Threads /\ "closer" \in Threads /\ Threads = {"worker", "closer"}
  BY DEF Threads
<1>1. CASE UNCHANGED <<cur_buffer, rotating, wq, phase, fl>>
  BY <1>1, QueueSame
<1>2. ASSUME NEW l \in Lbas, WriteBlock(l) PROVE Queue'
  <2>1. /\ writes + 1 \in Payload /\ AddBlock("write", l, writes + 1) /\ ~Rotating
        /\ phase = "open" /\ UNCHANGED <<phase, fl>>
    BY <1>2, WriteFacts
  <2> QED BY <2>1, QueueAdd
<1>3. CASE Rotate
  <2>1. /\ Rotating /\ UNCHANGED <<cur_buffer, wq, fl, phase>>
        /\ fl["worker"].buf # cur_buffer
        /\ \A i \in 1 .. Len(wq) : wq[i] # cur_buffer
    BY <1>3 DEF Rotate, Safe, ReadHazards
  <2>2. /\ \A b \in Pool : b # cur_buffer => Seniority(b)' = Seniority(b)
        /\ ~Rotating'
    BY <1>3, RotateFacts
  <2>3. \A i \in 1 .. Len(wq) : wq[i] \in Pool
    BY DEF TypeOK
  <2>4. Running("worker") => fl["worker"].buf \in Pool
    BY <1>0 DEF Running, TypeOK
  <2>5. phase = "open" /\ ~Running("closer")
    BY <2>1 DEF Queue, Places
  <2>6. \A t \in Threads : Running(t)' <=> Running(t)
    BY <2>1 DEF Running
  <2> QED BY <1>0, <2>1, <2>2, <2>3, <2>4, <2>5, <2>6 DEF Queue
<1>4. CASE bufferio_handler
  <2>1. /\ ~Running("worker") /\ wq # <<>> /\ wq' = Tail(wq)
        /\ StartFlush("worker", Head(wq)) /\ UNCHANGED <<cur_buffer, rotating, phase>>
    BY <1>4 DEF bufferio_handler
  <2>2. /\ wq \in Seq(Pool) /\ Head(wq) = wq[1] /\ Head(wq) \in Pool
        /\ Len(wq) \in Nat /\ Len(wq) >= 1 /\ Len(wq') = Len(wq) - 1
        /\ \A i \in 1 .. Len(wq') : wq'[i] = wq[i + 1] /\ wq[i + 1] \in Pool
    BY <2>1 DEF TypeOK
  <2>3. /\ fl'["closer"] = fl["closer"]
        /\ fl' = fl \/ fl'["worker"].buf = Head(wq)
    BY <1>0, <2>1, <2>2, StartFacts
  <2>4. \A b \in Pool : Seniority(b)' = Seniority(b) /\ Seniority(b) \in Nat
    BY <2>1, SenioritySame, SeniorityFacts, PoolFacts DEF Rotating, TypeOK
  <2>5. phase = "open" /\ ~Running("closer") /\ ~Running("closer")'
    BY <2>1, <2>3 DEF Queue, Places, Running
  <2>6. \A i \in 1 .. Len(wq') : Seniority(wq[i])' = Seniority(wq[i + 1]) /\ i + 1 \in 1 .. Len(wq)
    BY <2>2, <2>4
  <2>7. \A i \in 1 .. Len(wq') : Seniority(wq[i])' >= 1
    BY <2>2, <2>6 DEF Queue
  <2>8. \A i, k \in 1 .. Len(wq') : i < k => Seniority(wq[i])' > Seniority(wq[k])'
    BY <2>2, <2>6 DEF Queue
  <2>9. Running("worker")' =>
          /\ fl'["worker"].buf = wq[1]
          /\ Seniority(fl["worker"].buf)' = Seniority(wq[1])
    BY <2>1, <2>2, <2>3, <2>4 DEF Running
  <2>10. Running("worker")' =>
          /\ Seniority(fl["worker"].buf)' >= 1
          /\ \A i \in 1 .. Len(wq') : Seniority(fl["worker"].buf)' > Seniority(wq[i])'
    BY <2>2, <2>6, <2>9 DEF Queue
  <2> QED BY <2>1, <2>5, <2>7, <2>8, <2>10 DEF Queue
<1>5. ASSUME NEW t \in Threads, flush_bios(t) PROVE Queue'
  <2>1. UNCHANGED <<cur_buffer, rotating, wq, phase>>
    BY <1>5 DEF flush_bios, FlushPut, FlushSkip, FlushWrite, FlushEnd
  <2>2. CASE FlushPut(t)
    <3>1. \A s \in Threads : fl'[s].buf = fl[s].buf
      BY <2>2, PutFacts
    <3> QED BY <2>1, <3>1, QueueSame
  <2>3. CASE FlushWrite(t) \/ FlushEnd(t)
    <3>1. \A s \in Threads : fl'[s].buf \in {fl[s].buf, NoBuffer}
      BY <2>3, EndFacts DEF IdleFlush
    <3> QED BY <2>1, <3>1, QueueSame
  <2>4. ~FlushSkip(t)
    BY DEF FlushSkip, Safe, ReadHazards
  <2> QED BY <1>5, <2>2, <2>3, <2>4 DEF flush_bios
<1>6. CASE GcPush
  <2>1. /\ gc.lba \in Lbas /\ gc.payload \in Payload /\ AddBlock("gc", gc.lba, gc.payload)
        /\ ~Rotating /\ UNCHANGED <<phase, fl>>
    BY <1>6 DEF GcPush, TypeOK
  <2>2. phase = "open"
    BY <1>6 DEF GcPush, Safe, ReadHazards
  <2> QED BY <2>1, <2>2, QueueAdd
<1>7. CASE (\E l \in Lbas : GcSearch(l)) \/ GcNegate \/ GcTorn \/ GcDrop \/ GcFreed
  BY <1>1, <1>7 DEF GcSearch, GcNegate, GcTorn, GcDrop, GcFreed
<1>8. CASE Read
  BY <1>1, <1>8 DEF Read, ReadSearch, query_block, ReadDisk, ReadEnd
<1>9. CASE DestroyFlush
  <2>1. /\ StartFlush("closer", cur_buffer) /\ UNCHANGED <<cur_buffer, rotating, wq>>
        /\ ~Running("worker") /\ wq = <<>> /\ ~Rotating /\ phase = "open" /\ cur_buffer \in Pool
    BY <1>9 DEF DestroyFlush, Safe, ReadHazards, TypeOK
  <2>2. fl'["worker"] = fl["worker"] /\ (fl' = fl \/ fl'["closer"].buf = cur_buffer)
    BY <1>0, <2>1, StartFacts
  <2>3. ~Running("closer")
    BY <2>1 DEF Places
  <2>4. ~Running("worker")' /\ (Running("closer")' => fl'["closer"].buf = cur_buffer') /\ ~Rotating'
    BY <2>1, <2>2, <2>3 DEF Running, Rotating
  <2> QED BY <2>1, <2>4 DEF Queue
<1>10. CASE DestroyDrain \/ DestroyFree
  <2>1. UNCHANGED <<cur_buffer, rotating, wq, fl>> /\ phase # "open"
    BY <1>10 DEF DestroyDrain, DestroyFree
  <2> QED BY <2>1 DEF Queue, Running, Rotating
<1>11. CASE UNCHANGED vars
  BY <1>1, <1>11 DEF vars
<1> QED BY <1>2, <1>3, <1>4, <1>5, <1>6, <1>7, <1>8, <1>9, <1>10, <1>11
        DEF Next, Gc, Destroy

-----------------------------------------------------------------------------
(* Which blocks are still going to be put in the index, step by step.      *)

LEMMA RestIs ==
  ASSUME NEW t \in Threads, NEW m \in Lbas
  PROVE  /\ m \in Rest(t) <=> buffer[fl[t].buf][m] # 0 /\ m > fl[t].pos
         /\ m \in Rest(t)' <=> buffer'[fl'[t].buf][m] # 0 /\ m > fl'[t].pos
BY DEF Rest, Blocks

LEMMA PendingSame ==
  ASSUME UNCHANGED <<buffer, cur_buffer, rotating, wq, fl>>,
         phase' = phase \/ (phase # "open" /\ phase' # "open"),
         NEW b \in Pool, NEW m \in Lbas
  PROVE  WillFlush(b, m)' <=> WillFlush(b, m)
<1>1. (Rotating' <=> Rotating) /\ \A t \in Threads : Rest(t)' = Rest(t)
  BY DEF Rotating, Rest, Blocks
<1> QED BY <1>1 DEF WillFlush

LEMMA PendingAdd ==
  ASSUME TypeOK, ~Rotating, phase = "open", UNCHANGED <<phase, fl>>,
         NEW who \in {"write", "gc"}, NEW l \in Lbas, NEW v \in Payload, AddBlock(who, l, v),
         NEW b \in Pool, NEW m \in Lbas
  PROVE  /\ b = cur_buffer => WillFlush(b, m) /\ WillFlush(b, m)'
         /\ b # cur_buffer => (WillFlush(b, m)' <=> WillFlush(b, m))
<1>1. /\ \A c \in Pool, n \in Lbas :
           buffer'[c][n] = IF c = cur_buffer /\ n = l THEN v ELSE buffer[c][n]
      /\ \/ cur_buffer' = cur_buffer /\ ~Rotating' /\ wq' = wq
         \/ Rotating' /\ wq' = Append(wq, cur_buffer)
  BY AddFacts
<1>2. wq \in Seq(Pool) /\ cur_buffer \in Pool /\ Len(wq) \in Nat
  BY DEF TypeOK
<1>3. \/ wq' = wq
      \/ /\ Len(wq') = Len(wq) + 1 /\ wq'[Len(wq) + 1] = cur_buffer
         /\ \A i \in 1 .. Len(wq) : wq'[i] = wq[i]
  BY <1>1, <1>2
<1>4. CASE b = cur_buffer
  <2>1. WillFlush(b, m)
    BY <1>4 DEF WillFlush
  <2>2. CASE cur_buffer' = cur_buffer /\ ~Rotating' /\ wq' = wq
    BY <1>4, <2>2 DEF WillFlush
  <2>3. CASE Rotating' /\ wq' = Append(wq, cur_buffer)
    <3>1. Len(wq) + 1 \in 1 .. Len(wq') /\ wq'[Len(wq) + 1] = b
      BY <1>2, <1>4, <2>3
    <3> QED BY <1>4, <2>1, <3>1 DEF WillFlush
  <2> QED BY <1>1, <1>4, <2>1, <2>2, <2>3
<1>5. CASE b # cur_buffer
  <2>1. (\E i \in 1 .. Len(wq') : wq'[i] = b) <=> (\E i \in 1 .. Len(wq) : wq[i] = b)
    BY <1>2, <1>3, <1>5
  <2>2. ~(b = cur_buffer' /\ ~Rotating' /\ phase' = "open")
    BY <1>1, <1>5
  <2>3. \A t \in Threads : (fl'[t].buf = b /\ m \in Rest(t)') <=> (fl[t].buf = b /\ m \in Rest(t))
    BY <1>1, <1>5, RestIs
  <2> QED BY <1>5, <2>1, <2>2, <2>3 DEF WillFlush
<1> QED BY <1>4, <1>5

LEMMA PendingRotate ==
  ASSUME TypeOK, Places, Queue, Rotate, Safe', NEW b \in Pool, NEW m \in Lbas
  PROVE  /\ ~WillFlush(cur_buffer, m)
         /\ b # cur_buffer => (WillFlush(b, m)' <=> WillFlush(b, m))
<1>1. /\ Rotating /\ UNCHANGED <<cur_buffer, wq, fl, phase>>
      /\ fl["worker"].buf # cur_buffer
      /\ \A i \in 1 .. Len(wq) : wq[i] # cur_buffer
  BY DEF Rotate, Safe, ReadHazards
<1>2. \A c \in Pool, n \in Lbas :
        buffer'[c][n] = IF c = cur_buffer THEN 0 ELSE buffer[c][n]
  BY RotateFacts
<1>3. fl["closer"].buf = NoBuffer /\ cur_buffer \in Pool
  BY <1>1 DEF Queue, Places, Running, TypeOK
<1>4. ~WillFlush(cur_buffer, m)
  BY <1>1, <1>3, PoolFacts DEF WillFlush, Threads
<1>5. ASSUME b # cur_buffer PROVE WillFlush(b, m)' <=> WillFlush(b, m)
  <2>1. \A t \in Threads : (fl'[t].buf = b /\ m \in Rest(t)') <=> (fl[t].buf = b /\ m \in Rest(t))
    BY <1>1, <1>2, <1>5, RestIs
  <2> QED BY <1>1, <1>5, <2>1 DEF WillFlush
<1> QED BY <1>4, <1>5

LEMMA PendingTake ==
  ASSUME TypeOK, bufferio_handler, NEW m \in Lbas, NEW b \in Holders(m)
  PROVE  WillFlush(b, m)' <=> WillFlush(b, m)
<1> USE DEF pool, history
<1>0. "worker" \in Threads /\ "closer" \in Threads /\ Threads = {"worker", "closer"}
  BY DEF Threads
<1>1. /\ ~Running("worker") /\ wq # <<>> /\ wq' = Tail(wq)
      /\ StartFlush("worker", Head(wq)) /\ UNCHANGED <<buffer, cur_buffer, rotating, phase>>
  BY DEF bufferio_handler
<1>2. /\ Head(wq) = wq[1] /\ Head(wq) \in Pool
      /\ Len(wq) \in Nat /\ Len(wq) >= 1 /\ Len(wq') = Len(wq) - 1
      /\ \A i \in 1 .. Len(wq') : wq'[i] = wq[i + 1]
  BY <1>1 DEF TypeOK
<1>3. /\ fl'["closer"] = fl["closer"]
      /\ \/ fl' = fl /\ Blocks(wq[1]) = {}
         \/ fl'["worker"].buf = wq[1] /\ fl'["worker"].pos = -1
  BY <1>0, <1>1, <1>2, StartFacts
<1>4. b \in Pool /\ buffer[b][m] # 0 /\ m \in Blocks(b) /\ b # NoBuffer /\ m > -1
  BY PoolFacts DEF Holders, Blocks, Lbas
<1>5. fl["worker"].buf = NoBuffer
  BY <1>1 DEF Running
<1>6. Rotating' <=> Rotating
  BY <1>1 DEF Rotating
<1>7. (fl'["closer"].buf = b /\ m \in Rest("closer")') <=> (fl["closer"].buf = b /\ m \in Rest("closer"))
  BY <1>0, <1>1, <1>3, RestIs
<1>8. (fl'["worker"].buf = b /\ m \in Rest("worker")') <=> wq[1] = b
  <2>1. CASE fl' = fl /\ Blocks(wq[1]) = {}
    BY <1>4, <1>5, <2>1
  <2>2. CASE fl'["worker"].buf = wq[1] /\ fl'["worker"].pos = -1
    BY <1>0, <1>1, <1>4, <2>2, RestIs
  <2> QED BY <1>3, <2>1, <2>2
<1>9. (\E i \in 1 .. Len(wq) : wq[i] = b) <=> (wq[1] = b \/ \E i \in 1 .. Len(wq') : wq'[i] = b)
  <2>1. ASSUME NEW i \in 1 .. Len(wq), wq[i] = b, wq[1] # b
        PROVE  \E k \in 1 .. Len(wq') : wq'[k] = b
    <3>1. i - 1 \in 1 .. Len(wq') /\ (i - 1) + 1 = i
      BY <1>2, <2>1
    <3> QED BY <1>2, <2>1, <3>1
  <2>2. \A i \in 1 .. Len(wq') : i + 1 \in 1 .. Len(wq)
    BY <1>2
  <2>3. 1 \in 1 .. Len(wq)
    BY <1>2
  <2> QED BY <1>2, <2>1, <2>2, <2>3
<1> QED BY <1>0, <1>1, <1>4, <1>5, <1>6, <1>7, <1>8, <1>9 DEF WillFlush

LEMMA PendingPut ==
  ASSUME TypeOK, NEW t \in Threads, FlushPut(t), NEW b \in Pool, NEW m \in Lbas
  PROVE  /\ WillFlush(b, m)' => WillFlush(b, m)
         /\ WillFlush(b, m) => \/ WillFlush(b, m)'
                               \/ b = fl[t].buf /\ m = Min(Rest(t))
         /\ WillFlush(fl[t].buf, Min(Rest(t)))
<1> USE DEF pool, history
<1> DEFINE l == Min(Rest(t))
<1>1. /\ \A s \in Threads : s # t => fl'[s] = fl[s]
      /\ fl'[t].buf = fl[t].buf /\ fl'[t].pos = l
      /\ l \in Lbas /\ l \in Rest(t) /\ \A x \in Rest(t) : l <= x
  BY PutFacts
<1>2. UNCHANGED <<buffer, cur_buffer, rotating, wq, phase>>
  BY DEF FlushPut
<1> HIDE DEF l
<1>3. m \in Int /\ l \in Int /\ fl[t].pos \in Int
  <2>1. fl[t].pos \in Lbas \cup {-1}
    BY DEF TypeOK
  <2> QED BY <1>1, <2>1, PoolFacts
<1>4. m \in Rest(t)' <=> m \in Rest(t) /\ m > l
  BY <1>1, <1>2, <1>3, RestIs
<1>5. \A s \in Threads : s # t => (m \in Rest(s)' <=> m \in Rest(s))
  BY <1>1, <1>2, RestIs
<1>6. m \in Rest(t) /\ m # l => m \in Rest(t)'
  BY <1>1, <1>3, <1>4
<1>7. Rotating' <=> Rotating
  BY <1>2 DEF Rotating
<1>8. WillFlush(b, m)' => WillFlush(b, m)
  BY <1>1, <1>2, <1>4, <1>5, <1>7 DEF WillFlush
<1>9. WillFlush(b, m) /\ ~(b = fl[t].buf /\ m = l) => WillFlush(b, m)'
  BY <1>1, <1>2, <1>5, <1>6, <1>7 DEF WillFlush
<1>10. WillFlush(fl[t].buf, l)
  BY <1>1 DEF WillFlush
<1> QED BY <1>8, <1>9, <1>10 DEF l

LEMMA PendingEnd ==
  ASSUME TypeOK, NEW t \in Threads, FlushWrite(t) \/ FlushEnd(t), NEW b \in Pool, NEW m \in Lbas
  PROVE  WillFlush(b, m)' <=> WillFlush(b, m)
<1> USE DEF pool, history
<1>1. /\ \A s \in Threads : s # t => fl'[s] = fl[s]
      /\ \/ fl'[t].buf = fl[t].buf /\ fl'[t].pos = fl[t].pos
         \/ fl'[t] = IdleFlush /\ Rest(t) = {}
  BY EndFacts
<1>2. UNCHANGED <<buffer, cur_buffer, rotating, wq, phase>>
  BY DEF FlushWrite, FlushEnd
<1>3. \A s \in Threads : (fl'[s].buf = b /\ m \in Rest(s)') <=> (fl[s].buf = b /\ m \in Rest(s))
  BY <1>1, <1>2, RestIs, PoolFacts DEF IdleFlush
<1>4. Rotating' <=> Rotating
  BY <1>2 DEF Rotating
<1> QED BY <1>2, <1>3, <1>4 DEF WillFlush

LEMMA PendingDestroy ==
  ASSUME TypeOK, Places, DestroyFlush, Safe', NEW m \in Lbas, NEW b \in Holders(m)
  PROVE  WillFlush(b, m)' <=> WillFlush(b, m)
<1> USE DEF pool, history
<1>0. "worker" \in Threads /\ "closer" \in Threads /\ Threads = {"worker", "closer"}
  BY DEF Threads
<1>1. /\ StartFlush("closer", cur_buffer) /\ UNCHANGED <<buffer, cur_buffer, rotating, wq>>
      /\ ~Running("worker") /\ wq = <<>> /\ ~Rotating /\ phase = "open" /\ cur_buffer \in Pool
      /\ phase' = "flush"
  BY DEF DestroyFlush, Safe, ReadHazards, TypeOK
<1>2. /\ fl'["worker"] = fl["worker"]
      /\ \/ fl' = fl /\ Blocks(cur_buffer) = {}
         \/ fl'["closer"].buf = cur_buffer /\ fl'["closer"].pos = -1
  BY <1>0, <1>1, StartFacts
<1>3. b \in Pool /\ buffer[b][m] # 0 /\ m \in Blocks(b) /\ b # NoBuffer /\ m > -1
  BY PoolFacts DEF Holders, Blocks, Lbas
<1>4. fl["worker"].buf = NoBuffer /\ fl["closer"].buf = NoBuffer
  BY <1>1 DEF Running, Places
<1>5. (fl'["closer"].buf = b /\ m \in Rest("closer")') <=> b = cur_buffer
  <2>1. CASE fl' = fl /\ Blocks(cur_buffer) = {}
    BY <1>3, <1>4, <2>1
  <2>2. CASE fl'["closer"].buf = cur_buffer /\ fl'["closer"].pos = -1
    BY <1>0, <1>1, <1>3, <2>2, RestIs
  <2> QED BY <1>2, <2>1, <2>2
<1> QED BY <1>0, <1>1, <1>2, <1>3, <1>4, <1>5 DEF WillFlush

LEMMA PendingFree ==
  ASSUME Places, DestroyFree, NEW b \in Pool, NEW m
  PROVE  ~WillFlush(b, m)
BY PoolFacts DEF Places, DestroyFree, WillFlush, Running, Threads

-----------------------------------------------------------------------------
(* What is still to be flushed is never older than what it will replace.   *)

(* The collector gives a block back, when that is no hazard.               *)
LEMMA PushFacts ==
  ASSUME TypeOK, Places, GcPush, Safe'
  PROVE  /\ gc.lba \in Lbas /\ gc.payload \in Payload \ {0} /\ gc.payload = latest[gc.lba]
         /\ AddBlock("gc", gc.lba, gc.payload) /\ ~Rotating /\ phase = "open"
         /\ Holders(gc.lba) = {} /\ gc'.pc = "idle"
         /\ UNCHANGED <<fl, rec, phase, latest, writes>>
         /\ \A b \in Pool, m \in Lbas :
              buffer'[b][m] = IF b = cur_buffer /\ m = gc.lba THEN gc.payload ELSE buffer[b][m]
<1>1. gc.lba \in Lbas /\ gc.payload \in Payload \ {0}
  BY DEF GcPush, Places, TypeOK
<1>2. gc.payload = latest[gc.lba] /\ phase = "open"
  BY DEF GcPush, Safe, ReadHazards
<1>3. /\ AddBlock("gc", gc.lba, gc.payload) /\ ~Rotating /\ Holders(gc.lba) = {}
      /\ gc'.pc = "idle" /\ UNCHANGED <<fl, rec, phase, latest, writes>>
  BY DEF GcPush, IdleGc, history
<1>4. \A b \in Pool, m \in Lbas :
        buffer'[b][m] = IF b = cur_buffer /\ m = gc.lba THEN gc.payload ELSE buffer[b][m]
  BY <1>1, <1>3, AddFacts
<1> QED BY <1>1, <1>2, <1>3, <1>4

(* No payload is newer than the last write to its lba.                     *)
LEMMA LatestIsLast ==
  ASSUME TypeOK, Owned, NEW l \in Lbas
  PROVE  /\ rec[l] \in Nat /\ latest[l] \in Nat /\ writes \in Nat /\ gc.payload \in Nat
         /\ rec[l] <= latest[l] /\ latest[l] <= writes
         /\ \A b \in Pool : buffer[b][l] \in Nat /\ buffer[b][l] <= latest[l]
         /\ gc.lba = l => gc.payload <= latest[l]
<1>1. /\ rec[l] \in Payload /\ latest[l] \in Payload /\ writes \in Payload
      /\ gc.payload \in Payload /\ \A b \in Pool : buffer[b][l] \in Payload
  BY DEF TypeOK
<1>2. \A v \in Payload : v # 0 /\ Belongs(v, l) => v <= latest[l]
  BY DEF Owned
<1>3. rec[l] # 0 => rec[l] <= latest[l]
  BY <1>1, <1>2 DEF Belongs
<1>4. \A b \in Pool : buffer[b][l] # 0 => buffer[b][l] <= latest[l]
  BY <1>1, <1>2 DEF Belongs
<1>5. gc.lba = l /\ gc.payload # 0 => gc.payload <= latest[l]
  BY <1>1, <1>2 DEF Belongs
<1>6. latest[l] <= writes
  BY DEF Owned
<1>7. \A v \in Nat : 0 <= v
  OBVIOUS
<1> QED BY <1>1, <1>3, <1>4, <1>5, <1>6, <1>7, PoolFacts

(* Of the buffers to be flushed, the one whose turn it is is the oldest.   *)
LEMMA OldestFirst ==
  ASSUME TypeOK, Places, Queue, NEW t \in Threads, Running(t),
         NEW b \in Pool, NEW m \in Lbas, WillFlush(b, m), b # fl[t].buf
  PROVE  Seniority(b) < Seniority(fl[t].buf)
<1>0. Threads = {"worker", "closer"}
  BY DEF Threads
<1>1. fl[t].buf \in Pool
  BY DEF Running, TypeOK
<1>2. cur_buffer \in Pool
  BY DEF TypeOK
<1>3. \A c \in Pool : Seniority(c) \in Nat
  BY <1>2, SeniorityFacts, PoolFacts
<1>4. CASE t = "worker"
  <2>1. ~Running("closer")
    BY <1>4 DEF Queue, Places
  <2>2. ~(\E s \in Threads : fl[s].buf = b)
    BY <1>0, <1>4, <2>1, PoolFacts DEF Running
  <2>3. CASE b = cur_buffer /\ ~Rotating
    <3>1. Seniority(b) = 0 /\ Seniority(fl[t].buf) >= 1
      BY <1>2, <1>4, <2>3, SeniorityFacts DEF Queue
    <3> QED BY <1>1, <1>3, <3>1
  <2>4. CASE \E i \in 1 .. Len(wq) : wq[i] = b
    <3>1. Seniority(fl[t].buf) > Seniority(b)
      BY <1>4, <2>4 DEF Queue
    <3> QED BY <1>1, <1>3, <3>1
  <2> QED BY <2>2, <2>3, <2>4 DEF WillFlush
<1>5. CASE t = "closer"
  <2>1. phase = "flush"
    BY <1>5 DEF Places
  <2>2. wq = <<>> /\ ~Running("worker")
    BY <2>1 DEF Queue
  <2>3. ~(\E s \in Threads : fl[s].buf = b)
    BY <1>0, <1>5, <2>2, PoolFacts DEF Running
  <2> QED BY <2>1, <2>2, <2>3 DEF WillFlush
<1> QED BY <1>0, <1>4, <1>5

LEMMA InitAhead == Init => Ahead /\ Cached /\ Backed /\ WriteKept
<1> SUFFICES ASSUME Init PROVE Ahead /\ Cached /\ Backed /\ WriteKept
  OBVIOUS
<1>1. \A l \in Lbas : Holders(l) = {} /\ latest[l] = 0
  BY DEF Init, Holders, Empty
<1>2. ~Running("worker")
  BY DEF Init, Running, IdleFlush, Threads
<1> QED BY <1>1, <1>2 DEF Ahead, Cached, Backed, WriteKept, Kept

(* A step that brings no block to be flushed and no newer record.          *)
LEMMA AheadKept ==
  ASSUME Ahead,
         \A l \in Lbas : \A b \in Holders(l)' :
           WillFlush(b, l)' => /\ b \in Holders(l) /\ WillFlush(b, l)
                               /\ buffer'[b][l] = buffer[b][l],
         UNCHANGED <<rec, gc>>
  PROVE  Ahead'
BY DEF Ahead

LEMMA StepAhead ==
  ASSUME TypeOK, Places, Owned, Sorted, Queue, Ahead, [Next]_vars, Safe'
  PROVE  Ahead'
<1> USE DEF pool, history
<1>1. CASE UNCHANGED <<buffer, cur_buffer, rotating, wq, fl, phase, rec, gc>>
  <2>1. \A l \in Lbas : \A b \in Holders(l)' :
          WillFlush(b, l)' => b \in Holders(l) /\ WillFlush(b, l) /\ buffer'[b][l] = buffer[b][l]
    BY <1>1, PendingSame DEF Holders
  <2> QED BY <1>1, <2>1, AheadKept
<1>2. ASSUME NEW l \in Lbas, WriteBlock(l) PROVE Ahead'
  <2>1. /\ writes + 1 \in Payload /\ AddBlock("write", l, writes + 1) /\ ~Rotating
        /\ phase = "open" /\ UNCHANGED <<phase, fl, rec, gc>>
        /\ \A b \in Pool, m \in Lbas :
             buffer'[b][m] = IF b = cur_buffer /\ m = l THEN writes + 1 ELSE buffer[b][m]
    BY <1>2, WriteFacts
  <2> SUFFICES ASSUME NEW m \in Lbas, NEW b \in Holders(m)', WillFlush(b, m)'
               PROVE  /\ buffer'[b][m] >= rec[m]
                      /\ gc.pc # "idle" /\ gc.lba = m => buffer'[b][m] >= gc.payload
    BY <2>1 DEF Ahead
  <2>2. b \in Pool /\ buffer'[b][m] # 0
    BY DEF Holders
  <2>3. WillFlush(b, m)
    BY <2>1, <2>2, PendingAdd
  <2>4. CASE b = cur_buffer /\ m = l
    BY <2>1, <2>2, <2>4, LatestIsLast
  <2>5. CASE ~(b = cur_buffer /\ m = l)
    <3>1. buffer'[b][m] = buffer[b][m] /\ b \in Holders(m)
      BY <2>1, <2>2, <2>5 DEF Holders
    <3> QED BY <2>3, <3>1 DEF Ahead
  <2> QED BY <2>4, <2>5
<1>3. CASE Rotate
  <2>1. \A c \in Pool, n \in Lbas :
          buffer'[c][n] = IF c = cur_buffer THEN 0 ELSE buffer[c][n]
    BY <1>3, RotateFacts
  <2>2. \A l \in Lbas : \A b \in Holders(l)' :
          b \in Pool /\ b # cur_buffer /\ b \in Holders(l) /\ buffer'[b][l] = buffer[b][l]
    BY <2>1 DEF Holders
  <2>3. \A l \in Lbas : \A b \in Holders(l)' : WillFlush(b, l)' => WillFlush(b, l)
    BY <1>3, <2>2, PendingRotate
  <2> QED BY <1>3, <2>2, <2>3, AheadKept DEF Rotate
<1>4. CASE bufferio_handler
  <2>1. UNCHANGED <<buffer, rec, gc>>
    BY <1>4 DEF bufferio_handler
  <2>2. \A l \in Lbas : Holders(l)' = Holders(l)
    BY <2>1 DEF Holders
  <2> QED BY <1>4, <2>1, <2>2, PendingTake, AheadKept
<1>5. ASSUME NEW t \in Threads, FlushPut(t) PROVE Ahead'
  <2> DEFINE l == Min(Rest(t))
             v == buffer[fl[t].buf][l]
  <2>1. /\ \A m \in Lbas : rec'[m] = IF m = l THEN v ELSE rec[m]
        /\ fl[t].buf \in Pool /\ l \in Lbas /\ v \in Payload \ {0}
    BY <1>5, PutFacts
  <2>2. UNCHANGED <<buffer, gc>> /\ Running(t)
    BY <1>5 DEF FlushPut
  <2> HIDE DEF l
  <2> SUFFICES ASSUME NEW m \in Lbas, NEW b \in Holders(m)', WillFlush(b, m)'
               PROVE  /\ buffer[b][m] >= rec'[m]
                      /\ gc.pc # "idle" /\ gc.lba = m => buffer[b][m] >= gc.payload
    BY <2>2 DEF Ahead
  <2>3. b \in Holders(m) /\ b \in Pool
    BY <2>2 DEF Holders
  <2>4. WillFlush(b, m)
    BY <1>5, <2>3, PendingPut
  <2>5. CASE m = l
    <3>1. CASE b = fl[t].buf
      BY <2>1, <2>3, <2>4, <2>5, <3>1, LatestIsLast DEF Ahead
    <3>2. CASE b # fl[t].buf
      <4>1. Seniority(b) < Seniority(fl[t].buf)
        BY <2>2, <2>3, <2>4, <3>2, OldestFirst
      <4>2. fl[t].buf \in Holders(l)
        BY <2>1 DEF Holders
      <4>3. buffer[b][m] > v
        BY <2>3, <2>5, <4>1, <4>2 DEF Sorted
      <4>4. buffer[b][m] \in Nat /\ v \in Nat
        BY <2>1, <2>3, <2>5, LatestIsLast
      <4> QED BY <2>1, <2>3, <2>4, <2>5, <4>3, <4>4 DEF Ahead
    <3> QED BY <3>1, <3>2
  <2>6. CASE m # l
    BY <2>1, <2>3, <2>4, <2>6 DEF Ahead
  <2> QED BY <2>5, <2>6
<1>6. ASSUME NEW t \in Threads, FlushWrite(t) \/ FlushEnd(t) PROVE Ahead'
  <2>1. UNCHANGED <<buffer, rec, gc>>
    BY <1>6 DEF FlushWrite, FlushEnd
  <2>2. \A l \in Lbas : Holders(l)' = Holders(l) /\ Holders(l) \subseteq Pool
    BY <2>1 DEF Holders
  <2> QED BY <1>6, <2>1, <2>2, PendingEnd, AheadKept
<1>7. CASE \E t \in Threads : FlushSkip(t)
  BY <1>7 DEF FlushSkip, Safe, ReadHazards
<1>8. CASE (\E l \in Lbas : GcSearch(l)) \/ GcNegate \/ GcTorn \/ GcDrop \/ GcFreed
  <2>1. UNCHANGED <<buffer, cur_buffer, rotating, wq, fl, phase>>
    BY <1>8 DEF GcSearch, GcNegate, GcTorn, GcDrop, GcFreed
  <2>2. \A l \in Lbas : rec'[l] \in {0, rec[l]}
    BY <1>8 DEF GcSearch, GcNegate, GcTorn, GcDrop, GcFreed, TypeOK
  <2>3. gc'.pc # "idle" =>
          \/ gc'.payload = rec[gc'.lba]
          \/ gc.pc # "idle" /\ gc'.lba = gc.lba /\ gc'.payload = gc.payload
    BY <1>8 DEF GcSearch, GcNegate, GcTorn, GcDrop, GcFreed, IdleGc, TypeOK
  <2> SUFFICES ASSUME NEW m \in Lbas, NEW b \in Holders(m)', WillFlush(b, m)'
               PROVE  /\ buffer[b][m] >= rec'[m]
                      /\ gc'.pc # "idle" /\ gc'.lba = m => buffer[b][m] >= gc'.payload
    BY <2>1 DEF Ahead
  <2>4. b \in Holders(m) /\ b \in Pool /\ WillFlush(b, m)
    BY <2>1, PendingSame DEF Holders
  <2>5. buffer[b][m] \in Nat
    BY <2>4, LatestIsLast
  <2> QED BY <2>2, <2>3, <2>4, <2>5 DEF Ahead
<1>9. CASE GcPush
  <2>1. /\ gc.lba \in Lbas /\ gc.payload \in Payload \ {0} /\ gc.payload = latest[gc.lba]
        /\ AddBlock("gc", gc.lba, gc.payload) /\ ~Rotating /\ phase = "open"
        /\ gc'.pc = "idle" /\ UNCHANGED <<fl, rec, phase>>
        /\ \A b \in Pool, m \in Lbas :
             buffer'[b][m] = IF b = cur_buffer /\ m = gc.lba THEN gc.payload ELSE buffer[b][m]
    BY <1>9, PushFacts
  <2> SUFFICES ASSUME NEW m \in Lbas, NEW b \in Holders(m)', WillFlush(b, m)'
               PROVE  buffer'[b][m] >= rec[m]
    BY <2>1 DEF Ahead
  <2>2. b \in Pool /\ buffer'[b][m] # 0
    BY DEF Holders
  <2>3. WillFlush(b, m)
    BY <2>1, <2>2, PendingAdd
  <2>4. CASE b = cur_buffer /\ m = gc.lba
    BY <2>1, <2>2, <2>4, LatestIsLast
  <2>5. CASE ~(b = cur_buffer /\ m = gc.lba)
    <3>1. buffer'[b][m] = buffer[b][m] /\ b \in Holders(m)
      BY <2>1, <2>2, <2>5 DEF Holders
    <3> QED BY <2>3, <3>1 DEF Ahead
  <2> QED BY <2>4, <2>5
<1>10. CASE Read
  BY <1>1, <1>10 DEF Read, ReadSearch, query_block, ReadDisk, ReadEnd
<1>11. CASE DestroyFlush
  <2>1. UNCHANGED <<buffer, rec, gc>>
    BY <1>11 DEF DestroyFlush
  <2>2. \A l \in Lbas : Holders(l)' = Holders(l)
    BY <2>1 DEF Holders
  <2> QED BY <1>11, <2>1, <2>2, PendingDestroy, AheadKept
<1>12. CASE DestroyDrain
  <2>1. /\ UNCHANGED <<buffer, cur_buffer, rotating, wq, fl, rec, gc>>
        /\ phase # "open" /\ phase' # "open"
    BY <1>12 DEF DestroyDrain
  <2>2. \A l \in Lbas : Holders(l)' = Holders(l) /\ Holders(l) \subseteq Pool
    BY <2>1 DEF Holders
  <2> QED BY <2>1, <2>2, PendingSame, AheadKept
<1>13. CASE DestroyFree
  BY <1>13 DEF DestroyFree, Ahead, Holders, Empty
<1>14. CASE UNCHANGED vars
  BY <1>1, <1>14 DEF vars
<1> QED BY <1>2, <1>3, <1>4, <1>5, <1>6, <1>7, <1>8, <1>9, <1>10, <1>11, <1>12, <1>13, <1>14
        DEF Next, Gc, flush_bios, Destroy

-----------------------------------------------------------------------------
(* The pool as a cache, and records that run ahead of their data.          *)

LEMMA StepCached ==
  ASSUME TypeOK, Places, Owned, Sorted, Cached, [Next]_vars, Safe'
  PROVE  Cached'
<1> USE DEF pool, history
<1>1. CASE UNCHANGED <<buffer, latest>>
  <2>1. \A l \in Lbas : Holders(l)' = Holders(l)
    BY <1>1 DEF Holders
  <2> QED BY <1>1, <2>1 DEF Cached
<1>2. ASSUME NEW l \in Lbas, NEW v \in Payload \ {0},
             \A b \in Pool, m \in Lbas :
               buffer'[b][m] = IF b = cur_buffer /\ m = l THEN v ELSE buffer[b][m],
             \A m \in Lbas : latest'[m] = IF m = l THEN v ELSE latest[m]
      PROVE  Cached'
  <2>1. cur_buffer \in Pool
    BY DEF TypeOK
  <2> SUFFICES ASSUME NEW m \in Lbas, Holders(m)' # {}
               PROVE  \E b \in Holders(m)' : buffer'[b][m] = latest'[m]
    BY DEF Cached
  <2>2. CASE m = l
    <3>1. buffer'[cur_buffer][m] = v /\ latest'[m] = v
      BY <1>2, <2>1, <2>2
    <3>2. cur_buffer \in Holders(m)'
      BY <2>1, <3>1 DEF Holders
    <3> QED BY <3>1, <3>2
  <2>3. CASE m # l
    <3>1. Holders(m)' = Holders(m)
      BY <1>2, <2>3 DEF Holders
    <3>2. PICK b \in Holders(m) : buffer[b][m] = latest[m]
      BY <3>1 DEF Cached
    <3> QED BY <1>2, <2>3, <3>1, <3>2 DEF Holders
  <2> QED BY <2>2, <2>3
<1>3. ASSUME NEW l \in Lbas, WriteBlock(l) PROVE Cached'
  BY <1>2, <1>3, WriteFacts
<1>4. CASE Rotate
  <2>1. /\ \A b \in Pool, m \in Lbas :
             buffer'[b][m] = IF b = cur_buffer THEN 0 ELSE buffer[b][m]
        /\ Seniority(cur_buffer) = PoolSize
        /\ \A b \in Pool : b # cur_buffer => Seniority(b) < PoolSize
    BY <1>4, RotateFacts
  <2>2. latest' = latest /\ cur_buffer \in Pool
    BY <1>4 DEF Rotate, TypeOK
  <2> SUFFICES ASSUME NEW m \in Lbas, NEW c \in Holders(m)'
               PROVE  \E b \in Holders(m)' : buffer'[b][m] = latest[m]
    BY <2>2 DEF Cached
  <2>3. c \in Holders(m) /\ c # cur_buffer /\ c \in Pool
    BY <2>1 DEF Holders
  <2>4. PICK b \in Holders(m) : buffer[b][m] = latest[m]
    BY <2>3 DEF Cached
  <2>5. b # cur_buffer
    <3> SUFFICES ASSUME b = cur_buffer PROVE FALSE
      OBVIOUS
    <3>1. buffer[c][m] > latest[m]
      BY <2>1, <2>3, <2>4 DEF Sorted
    <3>2. buffer[c][m] <= latest[m] /\ buffer[c][m] \in Nat /\ latest[m] \in Nat
      BY <2>3, LatestIsLast
    <3> QED BY <3>1, <3>2
  <2>6. b \in Holders(m)' /\ buffer'[b][m] = latest[m]
    BY <2>1, <2>4, <2>5 DEF Holders
  <2> QED BY <2>6
<1>5. CASE bufferio_handler \/ \E t \in Threads : flush_bios(t)
  BY <1>1, <1>5 DEF bufferio_handler, flush_bios, FlushPut, FlushSkip, FlushWrite, FlushEnd
<1>6. CASE (\E l \in Lbas : GcSearch(l)) \/ GcNegate \/ GcTorn \/ GcDrop \/ GcFreed
  BY <1>1, <1>6 DEF GcSearch, GcNegate, GcTorn, GcDrop, GcFreed
<1>7. CASE GcPush
  <2>1. /\ gc.lba \in Lbas /\ gc.payload \in Payload \ {0} /\ gc.payload = latest[gc.lba]
        /\ latest' = latest
        /\ \A b \in Pool, m \in Lbas :
             buffer'[b][m] = IF b = cur_buffer /\ m = gc.lba THEN gc.payload ELSE buffer[b][m]
    BY <1>7, PushFacts
  <2> QED BY <1>2, <2>1
<1>8. CASE Read \/ DestroyFlush \/ DestroyDrain
  BY <1>1, <1>8 DEF Read, ReadSearch, query_block, ReadDisk, ReadEnd, DestroyFlush, DestroyDrain
<1>9. CASE DestroyFree
  BY <1>9 DEF DestroyFree, Cached, Holders, Empty
<1>10. CASE UNCHANGED vars
  BY <1>1, <1>10 DEF vars
<1> QED BY <1>3, <1>4, <1>5, <1>6, <1>7, <1>8, <1>9, <1>10 DEF Next, Gc, Destroy

LEMMA StepBacked ==
  ASSUME TypeOK, Places, Owned, Queue, Backed, [Next]_vars, Safe'
  PROVE  Backed'
<1> USE DEF pool, history
<1> DEFINE w == fl["worker"]
<1>0. "worker" \in Threads /\ "closer" \in Threads /\ Threads = {"worker", "closer"}
  BY DEF Threads
<1>1. ASSUME w' = w, rec' = rec,
             Running("worker") => \A l \in Lbas : buffer'[w.buf][l] = buffer[w.buf][l]
      PROVE  Backed'
  BY <1>1 DEF Backed, Running
<1>2. ASSUME NEW l \in Lbas, NEW v \in Payload, ~Rotating, UNCHANGED <<fl, rec>>,
             \A b \in Pool, m \in Lbas :
               buffer'[b][m] = IF b = cur_buffer /\ m = l THEN v ELSE buffer[b][m]
      PROVE  Backed'
  <2>1. cur_buffer \in Pool /\ (Running("worker") => w.buf \in Pool)
    BY <1>0 DEF TypeOK, Running
  <2>2. Seniority(cur_buffer) = 0
    BY <1>2, <2>1, SeniorityFacts
  <2>3. Running("worker") => w.buf # cur_buffer
    BY <2>2 DEF Queue
  <2>4. Running("worker") => \A m \in Lbas : buffer'[w.buf][m] = buffer[w.buf][m]
    BY <1>2, <2>1, <2>3
  <2> QED BY <1>1, <1>2, <2>4
<1>3. ASSUME NEW l \in Lbas, WriteBlock(l) PROVE Backed'
  <2>1. /\ writes + 1 \in Payload /\ ~Rotating /\ UNCHANGED <<fl, rec>>
        /\ \A b \in Pool, m \in Lbas :
             buffer'[b][m] = IF b = cur_buffer /\ m = l THEN writes + 1 ELSE buffer[b][m]
    BY <1>3, WriteFacts
  <2> QED BY <1>2, <2>1
<1>4. CASE Rotate
  <2>1. \A b \in Pool, m \in Lbas :
          buffer'[b][m] = IF b = cur_buffer THEN 0 ELSE buffer[b][m]
    BY <1>4, RotateFacts
  <2>2. w.buf # cur_buffer /\ w' = w /\ rec' = rec
    BY <1>4 DEF Rotate
  <2>3. Running("worker") => w.buf \in Pool
    BY <1>0 DEF TypeOK, Running
  <2> QED BY <1>1, <2>1, <2>2, <2>3
<1>5. CASE bufferio_handler
  <2>1. ~Running("worker") /\ StartFlush("worker", Head(wq)) /\ Head(wq) \in Pool
    BY <1>5 DEF bufferio_handler, TypeOK
  <2>2. fl' = fl \/ w'.unwritten = {}
    BY <1>0, <2>1, StartFacts
  <2> QED BY <2>1, <2>2 DEF Backed, Running
<1>6. ASSUME NEW t \in Threads, FlushPut(t) PROVE Backed'
  <2> DEFINE l == Min(Rest(t))
             v == buffer[fl[t].buf][l]
  <2>1. /\ \A s \in Threads : s # t => fl'[s] = fl[s]
        /\ fl'[t].buf = fl[t].buf /\ fl'[t].unwritten = fl[t].unwritten \cup {v}
        /\ \A m \in Lbas : rec'[m] = IF m = l THEN v ELSE rec[m]
        /\ fl[t].buf \in Pool /\ l \in Lbas /\ v \in Payload \ {0}
    BY <1>6, PutFacts
  <2>2. buffer' = buffer /\ Running(t)
    BY <1>6 DEF FlushPut
  <2>3. CASE t = "closer"
    <3>1. ~Running("worker")
      BY <2>2, <2>3 DEF Places, Queue
    <3> QED BY <1>0, <2>1, <2>3, <3>1 DEF Backed, Running
  <2>4. CASE t = "worker"
    <3> SUFFICES ASSUME NEW m \in Lbas, rec'[m] \in fl'[t].unwritten
                 PROVE  buffer[fl[t].buf][m] = rec'[m]
      BY <2>1, <2>2, <2>4 DEF Backed
    <3>1. CASE m = l
      BY <2>1, <3>1
    <3>2. CASE m # l
      <4>1. rec'[m] = rec[m] /\ rec[m] \in Payload
        BY <2>1, <3>2 DEF TypeOK
      <4>2. rec[m] # v
        <5> SUFFICES ASSUME rec[m] = v PROVE FALSE
          OBVIOUS
        <5>1. Belongs(v, m) /\ Belongs(v, l)
          BY <2>1 DEF Belongs
        <5> QED BY <2>1, <3>2, <5>1 DEF Owned
      <4>3. rec[m] \in w.unwritten
        BY <2>1, <2>4, <4>1, <4>2
      <4> QED BY <2>2, <2>4, <4>1, <4>3 DEF Backed
    <3> QED BY <3>1, <3>2
  <2> QED BY <1>0, <2>3, <2>4
<1>7. ASSUME NEW t \in Threads, FlushWrite(t) \/ FlushEnd(t) PROVE Backed'
  <2>1. /\ \A s \in Threads : s # t => fl'[s] = fl[s]
        /\ fl'[t].unwritten = {}
    BY <1>7, EndFacts
  <2>2. UNCHANGED <<buffer, rec>>
    BY <1>7 DEF FlushWrite, FlushEnd
  <2>3. CASE t = "worker"
    BY <2>1, <2>3 DEF Backed
  <2>4. CASE t = "closer"
    BY <1>0, <1>1, <2>1, <2>2, <2>4
  <2> QED BY <1>0, <2>3, <2>4
<1>8. CASE \E t \in Threads : FlushSkip(t)
  BY <1>8 DEF FlushSkip, Safe, ReadHazards
<1>9. CASE (\E l \in Lbas : GcSearch(l)) \/ GcTorn \/ GcDrop \/ GcFreed
  BY <1>1, <1>9 DEF GcSearch, GcTorn, GcDrop, GcFreed
<1>10. CASE GcNegate
  <2>1. UNCHANGED <<buffer, fl>> /\ \A l \in Lbas : rec'[l] \in {0, rec[l]}
    BY <1>10 DEF GcNegate, TypeOK
  <2>2. 0 \notin w.unwritten
    BY <1>0 DEF Places
  <2> QED BY <2>1, <2>2 DEF Backed, Running
<1>11. CASE GcPush
  <2>1. /\ gc.lba \in Lbas /\ gc.payload \in Payload /\ ~Rotating /\ UNCHANGED <<fl, rec>>
        /\ \A b \in Pool, m \in Lbas :
             buffer'[b][m] = IF b = cur_buffer /\ m = gc.lba THEN gc.payload ELSE buffer[b][m]
    BY <1>11, PushFacts
  <2> QED BY <1>2, <2>1
<1>12. CASE Read \/ DestroyDrain
  BY <1>1, <1>12 DEF Read, ReadSearch, query_block, ReadDisk, ReadEnd, DestroyDrain
<1>13. CASE DestroyFlush
  <2>1. StartFlush("closer", cur_buffer) /\ cur_buffer \in Pool /\ UNCHANGED <<buffer, rec>>
    BY <1>13 DEF DestroyFlush, TypeOK
  <2>2. w' = w
    BY <1>0, <2>1, StartFacts
  <2> QED BY <1>1, <2>1, <2>2
<1>14. CASE DestroyFree
  BY <1>14 DEF DestroyFree, Backed, Running
<1>15. CASE UNCHANGED vars
  BY <1>1, <1>15 DEF vars
<1> QED BY <1>3, <1>4, <1>5, <1>6, <1>7, <1>8, <1>9, <1>10, <1>11, <1>12, <1>13, <1>14, <1>15
        DEF Next, Gc, flush_bios, Destroy

-----------------------------------------------------------------------------
(* No completed write is lost.                                             *)

(* The block of the last write to l waits in a buffer.                     *)
Waiting(l) == \E b \in Holders(l) : buffer[b][l] = latest[l] /\ WillFlush(b, l)

LEMMA KeptIs ==
  ASSUME NEW l
  PROVE  Kept(l) <=> \/ latest[l] = 0
                     \/ rec[l] = latest[l]
                     \/ gc.pc = "push" /\ gc.lba = l /\ gc.payload = latest[l]
                     \/ Waiting(l)
BY DEF Kept, Waiting

(* A step that leaves the records, the collector and what waits alone.     *)
LEMMA KeptKept ==
  ASSUME WriteKept, UNCHANGED <<rec, gc, latest>>,
         \A l \in Lbas : Waiting(l) => Waiting(l)'
  PROVE  WriteKept'
BY DEF WriteKept, Kept, Waiting

LEMMA StepKept ==
  ASSUME TypeOK, Places, Owned, Queue, Ahead, WriteKept, [Next]_vars, Safe'
  PROVE  WriteKept'
<1> USE DEF pool, history
<1>1. CASE UNCHANGED <<buffer, cur_buffer, rotating, wq, fl, rec, gc, latest>>
           /\ (phase' = phase \/ (phase # "open" /\ phase' # "open"))
  <2>1. \A l \in Lbas : Holders(l)' = Holders(l) /\ Holders(l) \subseteq Pool
    BY <1>1 DEF Holders
  <2>2. \A l \in Lbas : Waiting(l) => Waiting(l)'
    BY <1>1, <2>1, PendingSame DEF Waiting
  <2> QED BY <1>1, <2>2, KeptKept
<1>2. ASSUME NEW l \in Lbas, NEW v \in Payload \ {0}, NEW who \in {"write", "gc"},
             AddBlock(who, l, v), ~Rotating, phase = "open", UNCHANGED <<phase, fl, rec>>,
             \A b \in Pool, m \in Lbas :
               buffer'[b][m] = IF b = cur_buffer /\ m = l THEN v ELSE buffer[b][m],
             \A m \in Lbas : latest'[m] = IF m = l THEN v ELSE latest[m],
             gc' = gc \/ gc.lba = l
      PROVE  WriteKept'
  <2>1. cur_buffer \in Pool
    BY DEF TypeOK
  <2> SUFFICES ASSUME NEW m \in Lbas PROVE Kept(m)'
    BY DEF WriteKept
  <2>2. CASE m = l
    <3>1. cur_buffer \in Holders(m)' /\ buffer'[cur_buffer][m] = latest'[m]
      BY <1>2, <2>1, <2>2 DEF Holders
    <3>2. \A b \in Pool : b = cur_buffer => WillFlush(b, m)'
      BY <1>2, PendingAdd
    <3>3. PICK b \in Pool : b = cur_buffer
      BY <2>1
    <3> QED BY <3>1, <3>2, <3>3 DEF Kept
  <2>3. CASE m # l
    <3>1. Holders(m)' = Holders(m) /\ latest'[m] = latest[m] /\ Holders(m) \subseteq Pool
      BY <1>2, <2>3 DEF Holders
    <3>2. \A b \in Pool : WillFlush(b, m) => WillFlush(b, m)'
      BY <1>2, PendingAdd
    <3>3. Waiting(m) => Waiting(m)'
      BY <1>2, <2>3, <3>1, <3>2 DEF Waiting
    <3>4. Kept(m)
      BY DEF WriteKept
    <3> QED BY <1>2, <2>3, <3>1, <3>3, <3>4 DEF Kept, Waiting
  <2> QED BY <2>2, <2>3
<1>3. ASSUME NEW l \in Lbas, WriteBlock(l) PROVE WriteKept'
  <2>1. /\ writes + 1 \in Payload \ {0} /\ AddBlock("write", l, writes + 1) /\ ~Rotating
        /\ phase = "open" /\ UNCHANGED <<phase, fl, rec, gc>>
        /\ \A m \in Lbas : latest'[m] = IF m = l THEN writes + 1 ELSE latest[m]
        /\ \A b \in Pool, m \in Lbas :
             buffer'[b][m] = IF b = cur_buffer /\ m = l THEN writes + 1 ELSE buffer[b][m]
    BY <1>3, WriteFacts
  <2> QED BY <1>2, <2>1
<1>4. CASE Rotate
  <2>1. \A c \in Pool, n \in Lbas :
          buffer'[c][n] = IF c = cur_buffer THEN 0 ELSE buffer[c][n]
    BY <1>4, RotateFacts
  <2>2. UNCHANGED <<rec, gc, latest>> /\ cur_buffer \in Pool
    BY <1>4 DEF Rotate, TypeOK
  <2>3. ASSUME NEW l \in Lbas, Waiting(l) PROVE Waiting(l)'
    <3>1. PICK b \in Holders(l) : buffer[b][l] = latest[l] /\ WillFlush(b, l)
      BY <2>3 DEF Waiting
    <3>2. b \in Pool /\ b # cur_buffer
      BY <1>4, <2>2, <3>1, PendingRotate DEF Holders
    <3>3. b \in Holders(l)' /\ buffer'[b][l] = latest'[l]
      BY <2>1, <2>2, <3>1, <3>2 DEF Holders
    <3>4. WillFlush(b, l)'
      BY <1>4, <3>1, <3>2, PendingRotate
    <3> QED BY <3>3, <3>4 DEF Waiting
  <2> QED BY <2>2, <2>3, KeptKept
<1>5. CASE bufferio_handler
  <2>1. UNCHANGED <<buffer, rec, gc, latest>>
    BY <1>5 DEF bufferio_handler
  <2>2. \A l \in Lbas : Holders(l)' = Holders(l)
    BY <2>1 DEF Holders
  <2>3. \A l \in Lbas : Waiting(l) => Waiting(l)'
    BY <1>5, <2>1, <2>2, PendingTake DEF Waiting
  <2> QED BY <2>1, <2>3, KeptKept
<1>6. ASSUME NEW t \in Threads, FlushPut(t) PROVE WriteKept'
  <2> DEFINE l == Min(Rest(t))
             v == buffer[fl[t].buf][l]
  <2>1. /\ \A m \in Lbas : rec'[m] = IF m = l THEN v ELSE rec[m]
        /\ fl[t].buf \in Pool /\ l \in Lbas /\ v \in Payload \ {0}
    BY <1>6, PutFacts
  <2>2. UNCHANGED <<buffer, gc, latest>>
    BY <1>6 DEF FlushPut
  <2>3. WillFlush(fl[t].buf, l) /\ fl[t].buf \in Holders(l)
    <3>1. fl[t].buf \in Holders(l)
      BY <2>1 DEF Holders
    <3> QED BY <1>6, <2>1, <3>1, PendingPut
  <2>4. \A b \in Pool, m \in Lbas :
          WillFlush(b, m) => WillFlush(b, m)' \/ (b = fl[t].buf /\ m = l)
    BY <1>6, PendingPut
  <2> HIDE DEF l
  <2> SUFFICES ASSUME NEW m \in Lbas PROVE Kept(m)'
    BY DEF WriteKept
  <2>5. Kept(m) /\ Holders(m)' = Holders(m) /\ Holders(m) \subseteq Pool
    BY <2>2 DEF WriteKept, Holders
  <2>6. Waiting(m) => Waiting(m)' \/ (m = l /\ v = latest[m])
    BY <2>2, <2>4, <2>5 DEF Waiting
  <2>7. CASE m = l
    <3>1. /\ v >= rec[m]
          /\ gc.pc # "idle" /\ gc.lba = m => v >= gc.payload
      BY <2>3, <2>7 DEF Ahead
    <3>2. v <= latest[m] /\ v \in Nat /\ latest[m] \in Nat
      BY <2>1, <2>7, LatestIsLast
    <3>3. v = latest[m] => Kept(m)'
      BY <2>1, <2>2, <2>7 DEF Kept
    <3>4. CASE latest[m] = 0
      BY <2>2, <3>4 DEF Kept
    <3>5. CASE rec[m] = latest[m]
      BY <3>1, <3>2, <3>3, <3>5
    <3>6. CASE gc.pc = "push" /\ gc.lba = m /\ gc.payload = latest[m]
      BY <3>1, <3>2, <3>3, <3>6
    <3>7. CASE Waiting(m)
      BY <2>6, <3>3, <3>7 DEF Kept, Waiting
    <3> QED BY <2>5, <3>4, <3>5, <3>6, <3>7, KeptIs
  <2>8. CASE m # l
    BY <2>1, <2>2, <2>5, <2>6, <2>8 DEF Kept, Waiting
  <2> QED BY <2>7, <2>8
<1>7. ASSUME NEW t \in Threads, FlushWrite(t) \/ FlushEnd(t) PROVE WriteKept'
  <2>1. UNCHANGED <<buffer, rec, gc, latest>>
    BY <1>7 DEF FlushWrite, FlushEnd
  <2>2. \A l \in Lbas : Holders(l)' = Holders(l) /\ Holders(l) \subseteq Pool
    BY <2>1 DEF Holders
  <2>3. \A l \in Lbas : Waiting(l) => Waiting(l)'
    BY <1>7, <2>1, <2>2, PendingEnd DEF Waiting
  <2> QED BY <2>1, <2>3, KeptKept
<1>8. CASE \E t \in Threads : FlushSkip(t)
  BY <1>8 DEF FlushSkip, Safe, ReadHazards
<1>9. CASE (\E l \in Lbas : GcSearch(l)) \/ GcNegate \/ GcDrop
  <2>1. UNCHANGED <<buffer, cur_buffer, rotating, wq, fl, phase, latest>>
    BY <1>9 DEF GcSearch, GcNegate, GcDrop
  <2>2. \A l \in Lbas : Holders(l)' = Holders(l) /\ Holders(l) \subseteq Pool
    BY <2>1 DEF Holders
  <2>3. \A l \in Lbas : Waiting(l) => Waiting(l)'
    BY <2>1, <2>2, PendingSame DEF Waiting
  <2> SUFFICES ASSUME NEW m \in Lbas PROVE Kept(m)'
    BY DEF WriteKept
  <2>4. Kept(m)
    BY DEF WriteKept
  <2>5. CASE \E l \in Lbas : GcSearch(l)
    <3>1. gc.pc = "idle" /\ rec' = rec
      BY <2>5 DEF GcSearch
    <3> QED BY <2>1, <2>3, <2>4, <3>1 DEF Kept, Waiting
  <2>6. CASE GcNegate
    <3>1. /\ gc.pc = "negate" /\ rec[gc.lba] = gc.payload /\ gc.lba \in Lbas
          /\ \A l \in Lbas : l # gc.lba => rec'[l] = rec[l]
          /\ gc'.pc = "push" /\ gc'.lba = gc.lba /\ gc'.payload = gc.payload
      BY <2>6 DEF GcNegate, Safe, ReadHazards, TypeOK
    <3> QED BY <2>1, <2>3, <2>4, <3>1 DEF Kept, Waiting
  <2>7. CASE GcDrop
    <3> DEFINE b == Newest(gc.lba)
    <3>1. /\ gc.pc = "push" /\ rec' = rec /\ gc.lba \in Lbas /\ Holders(gc.lba) # {}
          /\ WillFlush(b, gc.lba)
      BY <2>7 DEF GcDrop, Safe, ReadHazards, TypeOK
    <3>2. b \in Holders(gc.lba) /\ b \in Pool
      BY <2>2, <3>1, NewestHolds
    <3> HIDE DEF b
    <3>3. CASE gc.lba = m /\ gc.payload = latest[m]
      <4>1. buffer[b][m] >= gc.payload
        BY <3>1, <3>2, <3>3 DEF Ahead
      <4>2. buffer[b][m] <= latest[m] /\ buffer[b][m] \in Nat /\ latest[m] \in Nat
        BY <3>2, LatestIsLast
      <4>3. Waiting(m)
        BY <3>1, <3>2, <3>3, <4>1, <4>2 DEF Waiting
      <4> QED BY <2>3, <4>3 DEF Kept, Waiting
    <3>4. CASE ~(gc.lba = m /\ gc.payload = latest[m])
      BY <2>1, <2>3, <2>4, <3>1, <3>4 DEF Kept, Waiting
    <3> QED BY <3>3, <3>4
  <2> QED BY <1>9, <2>5, <2>6, <2>7
<1>10. CASE GcTorn \/ GcFreed
  BY <1>10 DEF GcTorn, GcFreed, Safe, ReadHazards
<1>11. CASE GcPush
  <2>1. /\ gc.lba \in Lbas /\ gc.payload \in Payload \ {0} /\ gc.payload = latest[gc.lba]
        /\ AddBlock("gc", gc.lba, gc.payload) /\ ~Rotating /\ phase = "open"
        /\ UNCHANGED <<fl, rec, phase, latest>>
        /\ \A b \in Pool, m \in Lbas :
             buffer'[b][m] = IF b = cur_buffer /\ m = gc.lba THEN gc.payload ELSE buffer[b][m]
    BY <1>11, PushFacts
  <2> QED BY <1>2, <2>1
<1>12. CASE Read
  BY <1>1, <1>12 DEF Read, ReadSearch, query_block, ReadDisk, ReadEnd
<1>13. CASE DestroyFlush
  <2>1. UNCHANGED <<buffer, rec, gc, latest>>
    BY <1>13 DEF DestroyFlush
  <2>2. \A l \in Lbas : Holders(l)' = Holders(l)
    BY <2>1 DEF Holders
  <2>3. \A l \in Lbas : Waiting(l) => Waiting(l)'
    BY <1>13, <2>1, <2>2, PendingDestroy DEF Waiting
  <2> QED BY <2>1, <2>3, KeptKept
<1>14. CASE DestroyDrain
  BY <1>1, <1>14 DEF DestroyDrain
<1>15. CASE DestroyFree
  <2>1. UNCHANGED <<rec, gc, latest>>
    BY <1>15 DEF DestroyFree
  <2>2. \A l \in Lbas : ~Waiting(l)
    BY <1>15, PendingFree DEF Waiting, Holders
  <2> QED BY <2>1, <2>2, KeptKept
<1>16. CASE UNCHANGED vars
  BY <1>1, <1>16 DEF vars
<1> QED BY <1>3, <1>4, <1>5, <1>6, <1>7, <1>8, <1>9, <1>10, <1>11, <1>12, <1>13, <1>14, <1>15, <1>16
        DEF Next, Gc, flush_bios, Destroy

LEMMA InitInv == Init => IInv
BY InitType, InitPlaces, InitOwned, InitSorted, InitQueue, InitAhead DEF IInv

LEMMA StepInv == IInv /\ [Next]_vars => IInv'
<1> SUFFICES ASSUME IInv, [Next]_vars PROVE IInv'
  OBVIOUS
<1>1. TypeOK /\ Places /\ Owned /\ Sorted
  BY DEF IInv
<1>2. TypeOK' /\ Places' /\ Owned' /\ Sorted'
  BY <1>1, StepType, StepPlaces, StepOwned, StepSorted
<1>3. ASSUME Safe' PROVE (Queue /\ Ahead /\ Cached /\ Backed /\ WriteKept)'
  <2>1. Safe
    BY <1>3, HazardsGrow DEF Safe
  <2>2. Queue /\ Ahead /\ Cached /\ Backed /\ WriteKept
    BY <2>1 DEF IInv
  <2>3. Queue'
    BY <1>1, <1>3, <2>2, StepQueue
  <2>4. Ahead'
    BY <1>1, <1>3, <2>2, StepAhead
  <2>5. Cached'
    BY <1>1, <1>3, <2>2, StepCached
  <2>6. Backed'
    BY <1>1, <1>3, <2>2, StepBacked
  <2>7. WriteKept'
    BY <1>1, <1>3, <2>2, StepKept
  <2> QED BY <2>3, <2>4, <2>5, <2>6, <2>7
<1> QED BY <1>2, <1>3 DEF IInv

(* The inductive invariant of the segment buffer.                          *)
THEOREM BufferInvariant == Spec => []IInv
BY InitInv, StepInv, PTL DEF Spec

(* For any number of buffers, blocks and writes, and whatever the          *)
(* interleaving of writes, flushes, relocations and removal: until one of  *)
(* the hazards occurs, the last completed write of every lba is in the     *)
(* index, in the collector's hands, or in a buffer whose flush is to come. *)
THEOREM WritesKept == Spec => []KeptUnlessHazard
<1>1. IInv => KeptUnlessHazard
  BY DEF IInv, Safe, KeptUnlessHazard
<1> QED BY <1>1, BufferInvariant, PTL

(* A flush never puts a record over a newer one, whatever the two flushing *)
(* threads and the collector do: the action property NoRollback.           *)
THEOREM RecordsNewer == Spec => NoRollback
<1> USE DEF pool, history
<1> DEFINE A == hazards' = {} => \A l \in Lbas : rec'[l] = 0 \/ rec'[l] >= rec[l]
<1>1. ASSUME IInv, [Next]_vars PROVE [A]_vars
  <2> SUFFICES ASSUME hazards' = {}, NEW l \in Lbas PROVE rec'[l] = 0 \/ rec'[l] >= rec[l]
    OBVIOUS
  <2>1. TypeOK /\ Owned /\ Ahead
    BY <1>1, HazardsGrow DEF IInv, Safe
  <2>2. rec[l] \in Nat
    BY <2>1, LatestIsLast
  <2>3. CASE rec' = rec
    BY <2>2, <2>3
  <2>4. ASSUME NEW t \in Threads, FlushPut(t) PROVE rec'[l] = 0 \/ rec'[l] >= rec[l]
    <3> DEFINE m == Min(Rest(t))
               v == buffer[fl[t].buf][m]
    <3>1. /\ \A n \in Lbas : rec'[n] = IF n = m THEN v ELSE rec[n]
          /\ fl[t].buf \in Pool /\ m \in Lbas /\ v # 0
      BY <2>1, <2>4, PutFacts
    <3>2. WillFlush(fl[t].buf, m)
      BY <2>1, <2>4, <3>1, PendingPut
    <3>3. v >= rec[m]
      BY <2>1, <3>1, <3>2 DEF Ahead, Holders
    <3> HIDE DEF m, v
    <3> QED BY <2>2, <3>1, <3>3
  <2>5. CASE GcNegate
    BY <2>1, <2>2, <2>5 DEF GcNegate, TypeOK
  <2>6. CASE \/ \E k \in Lbas : WriteBlock(k)
             \/ Rotate \/ bufferio_handler \/ Read \/ Destroy
    BY <2>3, <2>6 DEF WriteBlock, Rotate, bufferio_handler, Read, ReadSearch, query_block,
                      ReadDisk, ReadEnd, Destroy, DestroyFlush, DestroyDrain, DestroyFree
  <2>7. CASE \/ \E t \in Threads : FlushSkip(t) \/ FlushWrite(t) \/ FlushEnd(t)
             \/ \E k \in Lbas : GcSearch(k)
             \/ GcTorn \/ GcDrop \/ GcPush \/ GcFreed
    BY <2>3, <2>7 DEF FlushSkip, FlushWrite, FlushEnd, GcSearch, GcTorn, GcDrop, GcPush, GcFreed
  <2>8. CASE UNCHANGED vars
    BY <2>3, <2>8 DEF vars
  <2> QED BY <1>1, <2>4, <2>5, <2>6, <2>7, <2>8 DEF Next, Gc, flush_bios
<1> QED BY <1>1, BufferInvariant, PTL DEF Spec, NoRollback

-----------------------------------------------------------------------------
(* Reads are up to date.                                                   *)

(* The block that query_block's scan stops at is the lba's last write.     *)
LEMMA NewestIsLatest ==
  ASSUME TypeOK, Owned, Sorted, Cached, ~Rotating, NEW l \in Lbas, Holders(l) # {}
  PROVE  Newest(l) \in Pool /\ buffer[Newest(l)][l] = latest[l]
<1> DEFINE n == Newest(l)
<1>1. n \in Holders(l) /\ \A c \in Holders(l) : Age(n) <= Age(c)
  BY NewestHolds
<1> HIDE DEF n
<1>2. PICK b \in Holders(l) : buffer[b][l] = latest[l]
  BY DEF Cached
<1>3. n \in Pool /\ b \in Pool
  BY <1>1, <1>2 DEF Holders
<1>4. cur_buffer \in Pool
  BY DEF TypeOK
<1>5. Seniority(n) <= Seniority(b)
  BY <1>1, <1>2 DEF Seniority
<1>6. Seniority(n) \in Int /\ Seniority(b) \in Int /\ (Seniority(n) = Seniority(b) => n = b)
  BY <1>3, <1>4, SeniorityFacts, PoolFacts
<1>7. CASE Seniority(n) = Seniority(b)
  BY <1>2, <1>3, <1>6, <1>7 DEF n
<1>8. CASE Seniority(n) < Seniority(b)
  <2>1. buffer[n][l] > latest[l]
    BY <1>1, <1>2, <1>8 DEF Sorted
  <2>2. buffer[n][l] <= latest[l] /\ buffer[n][l] \in Nat /\ latest[l] \in Nat
    BY <1>3, LatestIsLast
  <2> QED BY <2>1, <2>2
<1> QED BY <1>5, <1>6, <1>7, <1>8

LEMMA InitReading == Init => Reading
BY DEF Init, Reading, IdleRd

(* A step other than the reader's own that takes no block from its lba.    *)
LEMMA ReadingKept ==
  ASSUME TypeOK, Reading, SameRead,
         \A l \in Lbas : latest[l] \in Nat /\ latest'[l] \in Nat /\ latest[l] <= latest'[l],
         rd.pc = "query" /\ Holders(rd.lba) # {} => Holders(rd.lba)' # {}
  PROVE  Reading'
<1>1. rd.lba \in Lbas /\ rd.start \in Nat
  BY PoolFacts DEF TypeOK
<1>2. rd'.pc # "idle" => rd'.start <= latest'[rd'.lba]
  <2>1. rd.pc # "idle" => rd.start <= latest[rd.lba]
    BY DEF Reading
  <2> QED BY <1>1, <2>1 DEF SameRead
<1> QED BY <1>1, <1>2 DEF Reading, SameRead, Holders

LEMMA StepReading ==
  ASSUME IInv, Reading, [Next]_vars, hazards' = {}
  PROVE  Reading'
<1> USE DEF pool, history
<1>0. /\ TypeOK /\ Places /\ Owned /\ Sorted /\ Safe'
      /\ Queue /\ Ahead /\ Cached /\ Backed /\ WriteKept
  BY HazardsGrow DEF IInv, Safe
<1>1. rd.lba \in Lbas /\ rd.start \in Nat /\ rd.payload \in Nat /\ rd.torn \in BOOLEAN
  BY <1>0, PoolFacts DEF TypeOK
<1>2. \A l \in Lbas : latest[l] \in Nat /\ latest[l] <= writes /\ writes \in Nat
  BY <1>0, LatestIsLast
<1>3. CASE UNCHANGED <<buffer, latest>> /\ SameRead
  <2>1. Holders(rd.lba)' = Holders(rd.lba)
    BY <1>3 DEF Holders, SameRead
  <2> QED BY <1>0, <1>2, <1>3, <2>1, ReadingKept
<1>4. ASSUME NEW l \in Lbas, WriteBlock(l) PROVE Reading'
  <2>1. /\ writes + 1 \in Payload \ {0} /\ rd' = rd
        /\ \A m \in Lbas : latest'[m] = IF m = l THEN writes + 1 ELSE latest[m]
        /\ \A b \in Pool, m \in Lbas :
             buffer'[b][m] = IF b = cur_buffer /\ m = l THEN writes + 1 ELSE buffer[b][m]
    BY <1>0, <1>4, WriteFacts
  <2>2. Holders(rd.lba) # {} => Holders(rd.lba)' # {}
    BY <1>1, <2>1 DEF Holders
  <2>3. \A m \in Lbas : latest'[m] \in Nat /\ latest[m] <= latest'[m]
    BY <1>2, <2>1
  <2> QED BY <1>0, <1>2, <2>1, <2>2, <2>3, ReadingKept DEF SameRead
<1>5. CASE Rotate
  <2>1. \A c \in Pool, n \in Lbas :
          buffer'[c][n] = IF c = cur_buffer THEN 0 ELSE buffer[c][n]
    BY <1>0, <1>5, RotateFacts
  <2>2. /\ UNCHANGED <<rd, latest>>
        /\ rd.pc = "query" => buffer[cur_buffer][rd.lba] = 0
    BY <1>5 DEF Rotate
  <2>3. rd.pc = "query" /\ Holders(rd.lba) # {} => Holders(rd.lba)' # {}
    BY <1>1, <2>1, <2>2 DEF Holders
  <2> QED BY <1>0, <1>2, <2>2, <2>3, ReadingKept DEF SameRead
<1>6. CASE bufferio_handler \/ \E t \in Threads : FlushPut(t) \/ FlushSkip(t)
  <2>1. SameRead
    BY <1>0, <1>6, LoosenFacts DEF bufferio_handler, FlushPut, FlushSkip, SameRead
  <2> QED BY <1>3, <1>6, <2>1 DEF bufferio_handler, FlushPut, FlushSkip
<1>7. ASSUME NEW t \in Threads, FlushWrite(t) \/ FlushEnd(t) PROVE Reading'
  <2>1. UNCHANGED <<buffer, latest>> /\ rd' = [rd EXCEPT !.torn = @ /\ rd.payload \notin fl[t].unwritten]
    BY <1>7 DEF FlushWrite, FlushEnd, Landed
  <2>2. /\ rd'.pc = rd.pc /\ rd'.lba = rd.lba /\ rd'.payload = rd.payload /\ rd'.start = rd.start
        /\ rd'.torn => rd.torn
    BY <1>0, <2>1 DEF TypeOK
  <2>3. Holders(rd.lba)' = Holders(rd.lba)
    BY <2>1, <2>2 DEF Holders
  <2> QED BY <2>1, <2>2, <2>3 DEF Reading
<1>8. CASE (\E l \in Lbas : GcSearch(l)) \/ GcNegate \/ GcTorn \/ GcDrop \/ GcFreed
  <2>1. SameRead
    BY <1>0, <1>8, LoosenFacts DEF GcSearch, GcNegate, GcTorn, GcDrop, GcFreed, SameRead
  <2> QED BY <1>3, <1>8, <2>1 DEF GcSearch, GcNegate, GcTorn, GcDrop, GcFreed
<1>9. CASE GcPush
  <2>0. SameRead
    BY <1>0, <1>9, LoosenFacts DEF GcPush
  <2>1. /\ gc.lba \in Lbas /\ gc.payload \in Payload \ {0} /\ UNCHANGED latest
        /\ \A b \in Pool, m \in Lbas :
             buffer'[b][m] = IF b = cur_buffer /\ m = gc.lba THEN gc.payload ELSE buffer[b][m]
    BY <1>0, <1>9, PushFacts
  <2>2. Holders(rd.lba) # {} => Holders(rd.lba)' # {}
    BY <1>1, <2>0, <2>1 DEF Holders, SameRead
  <2> QED BY <1>0, <1>2, <2>0, <2>1, <2>2, ReadingKept
<1>10. ASSUME NEW l \in Lbas, ReadSearch(l) PROVE Reading'
  <2>1. /\ phase = "open" /\ UNCHANGED <<buffer, latest>>
        /\ rd'.pc = "query" /\ rd'.lba = l /\ rd'.payload = rec[l]
        /\ rd'.torn = (rec[l] \in Unwritten) /\ rd'.start = latest[l]
        /\ ~(gc.pc = "push" /\ gc.lba = l)
    BY <1>10 DEF ReadSearch
  <2>2. Holders(l)' = Holders(l)
    BY <2>1 DEF Holders
  <2>3. \/ latest[l] = 0
        \/ rec[l] >= latest[l] /\ rec[l] \notin Unwritten
        \/ Holders(l) # {}
    <3> SUFFICES ASSUME latest[l] # 0, Holders(l) = {}
                 PROVE  rec[l] >= latest[l] /\ rec[l] \notin Unwritten
      OBVIOUS
    <3>1. rec[l] = latest[l]
      BY <1>0, <2>1 DEF WriteKept, Kept
    <3>2. fl["closer"].unwritten = {} /\ (~Running("worker") => fl["worker"].unwritten = {})
      BY <1>0, <2>1 DEF Places, Threads, IdleFlush
    <3>3. Running("worker") => fl["worker"].buf \in Pool
      BY <1>0 DEF Running, TypeOK, Threads
    <3>4. rec[l] \notin fl["worker"].unwritten
      BY <1>0, <3>1, <3>2, <3>3 DEF Backed, Holders
    <3>5. rec[l] \notin Unwritten
      BY <3>2, <3>4 DEF Unwritten, Threads
    <3> QED BY <1>2, <3>1, <3>5
  <2>4. latest[l] <= latest[l]
    BY <1>2
  <2> QED BY <2>1, <2>2, <2>3, <2>4 DEF Reading
<1>11. CASE query_block
  <2>1. /\ UNCHANGED <<buffer, latest>> /\ ~Rotating /\ rd.pc = "query"
        /\ rd'.lba = rd.lba /\ rd'.start = rd.start /\ rd'.torn = rd.torn
    BY <1>0, <1>11 DEF query_block, TypeOK
  <2>2. rd.start <= latest[rd.lba]
    BY <2>1 DEF Reading
  <2>3. CASE Holders(rd.lba) # {}
    <3>1. rd'.pc = "done" /\ rd'.payload = buffer[Newest(rd.lba)][rd.lba]
      BY <1>0, <1>11, <2>3 DEF query_block, TypeOK
    <3>2. rd'.payload = latest[rd.lba]
      BY <1>0, <1>1, <2>1, <2>3, <3>1, NewestIsLatest
    <3> QED BY <1>1, <1>2, <2>1, <2>2, <3>1, <3>2 DEF Reading
  <2>4. CASE Holders(rd.lba) = {}
    <3>1. rd'.pc = "disk" /\ rd'.payload = rd.payload
      BY <1>0, <1>11, <2>4 DEF query_block, TypeOK
    <3>2. rd.start = 0 \/ (rd.payload >= rd.start /\ ~rd.torn)
      BY <2>1, <2>4 DEF Reading
    <3> QED BY <2>1, <2>2, <3>1, <3>2 DEF Reading
  <2> QED BY <2>3, <2>4
<1>12. CASE ReadDisk
  <2>1. /\ UNCHANGED latest /\ rd.pc = "disk" /\ rd'.pc = "done"
        /\ rd'.lba = rd.lba /\ rd'.start = rd.start
        /\ rd'.payload = IF rd.torn THEN 0 ELSE rd.payload
    <3>1. PICK reused \in {FALSE, rd.loose} :
            /\ rd' = [rd EXCEPT !.pc = "done", !.loose = FALSE,
                                !.payload = IF rd.torn \/ reused THEN 0 ELSE @]
            /\ hazards' = IF reused THEN hazards \cup {"reused"} ELSE hazards
      BY <1>12 DEF ReadDisk
    <3>2. ~reused
      BY <3>1
    <3> QED BY <1>0, <1>12, <3>1, <3>2 DEF ReadDisk, TypeOK
  <2>2. rd.start = 0 \/ (rd.payload >= rd.start /\ ~rd.torn)
    BY <2>1 DEF Reading
  <2>3. rd'.payload >= rd'.start
    BY <1>1, <2>1, <2>2
  <2> QED BY <2>1, <2>3 DEF Reading
<1>13. CASE ReadEnd
  BY <1>13 DEF ReadEnd, IdleRd, Reading
<1>14. CASE Destroy
  <2>1. rd' = rd /\ rd.pc = "idle"
    BY <1>0, <1>14 DEF Destroy, DestroyFlush, DestroyDrain, DestroyFree, Places
  <2> QED BY <2>1 DEF Reading
<1>15. CASE UNCHANGED vars
  BY <1>3, <1>15 DEF vars, SameRead
<1> QED BY <1>4, <1>5, <1>6, <1>7, <1>8, <1>9, <1>10, <1>11, <1>12, <1>13, <1>14, <1>15
        DEF Next, Gc, Read, flush_bios

(* Until a hazard occurs a finished read returns the last write completed  *)
(* when it began, or a later one, although it looks in the index before it *)
(* looks in the buffers and holds no lock in between.                      *)
THEOREM ReadsFresh == Spec => []FreshUnlessHazard
<1>1. Init => IInv /\ FreshInv
  BY InitInv, InitReading DEF FreshInv
<1>2. IInv /\ FreshInv /\ [Next]_vars => IInv' /\ FreshInv'
  <2> SUFFICES ASSUME IInv, FreshInv, [Next]_vars PROVE IInv' /\ FreshInv'
    OBVIOUS
  <2>1. hazards' = {} => hazards = {}
    BY HazardsGrow
  <2>2. hazards' = {} => Reading'
    BY <2>1, StepReading DEF FreshInv
  <2> QED BY <2>2, StepInv DEF FreshInv
<1>3. FreshInv => FreshUnlessHazard
  BY DEF FreshInv, Reading, FreshUnlessHazard, ReadFresh
<1> QED BY <1>1, <1>2, <1>3, PTL DEF Spec
=============================================================================
