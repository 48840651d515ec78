--------------------------- MODULE JournalProofs ---------------------------
(***************************************************************************)
(* Proofs about Journal for every geometry of the ring with at least two   *)
(* segments and for any number of records, failures and restarts: when     *)
(* journal_synchronize waits for its own mutex, where the record of a flush*)
(* that returned is, and what the buffer and the device hold.              *)
(***************************************************************************)
EXTENDS Journal, TLAPS

-----------------------------------------------------------------------------
(* Products and quotients.                                                 *)

LEMMA MulMono ==
  ASSUME NEW a \in Nat, NEW b \in Nat, NEW c \in Nat, a <= b
  PROVE  a * c <= b * c /\ a * c \in Nat /\ b * c \in Nat
OBVIOUS

LEMMA MulPos ==
  ASSUME NEW a \in Nat \ {0}, NEW b \in Nat \ {0}
  PROVE  a * b \in Nat \ {0}
OBVIOUS

LEMMA MulAssoc ==
  ASSUME NEW a \in Nat, NEW b \in Nat, NEW c \in Nat
  PROVE  (a * b) * c = a * (b * c) /\ (a * b) * c = a * (c * b)
OBVIOUS

LEMMA MulComm ==
  ASSUME NEW a \in Nat, NEW b \in Nat
  PROVE  a * b = b * a
OBVIOUS

LEMMA Div ==
  ASSUME NEW a \in Nat, NEW d \in Nat \ {0}
  PROVE  a \div d \in Nat /\ (a \div d) * d <= a /\ a < (a \div d + 1) * d
<1>1. a \div d \in Nat
  OBVIOUS
<1>2. (a \div d) * d <= a
  OBVIOUS
<1>3. a < (a \div d + 1) * d
  OBVIOUS
<1> QED BY <1>1, <1>2, <1>3

LEMMA DivUnique ==
  ASSUME NEW a \in Nat, NEW d \in Nat \ {0}, NEW q \in Nat, q * d <= a, a < (q + 1) * d
  PROVE  a \div d = q
OBVIOUS

LEMMA DivMono ==
  ASSUME NEW a \in Nat, NEW b \in Nat, NEW d \in Nat \ {0}, a <= b
  PROVE  a \div d <= b \div d
OBVIOUS

LEMMA DivSame ==
  ASSUME NEW a \in Nat, NEW d \in Nat \ {0}, NEW i \in Nat, (a % d) + i < d
  PROVE  (a + i) \div d = a \div d
OBVIOUS

LEMMA DivDiv ==
  ASSUME NEW p \in Nat, NEW b \in Nat \ {0}, NEW k \in Nat \ {0}
  PROVE  (p \div b) \div k = p \div (b * k)
<1> DEFINE x == p \div b
           y == x \div k
           z == (y + 1) * k
<1>1. x \in Nat /\ x * b <= p /\ p < (x + 1) * b
  BY Div
<1>2. y \in Nat /\ y * k <= x /\ x < z
  BY <1>1, Div
<1>a. z \in Nat
  BY <1>2
<1> HIDE DEF x, y
<1>3. (y * k) * b <= x * b
  BY <1>1, <1>2, MulMono
<1>4. x + 1 <= z
  <2> HIDE DEF z
  <2> QED BY <1>1, <1>2, <1>a
<1>5. (x + 1) * b <= z * b
  <2> HIDE DEF z
  <2> QED BY <1>1, <1>4, <1>a, MulMono
<1>6. /\ (y * k) * b = y * (b * k)
      /\ z * b = (y + 1) * (b * k)
  BY <1>2, MulAssoc
<1>b. b * k \in Nat \ {0}
  BY MulPos
<1> DEFINE d == b * k
           u == (x + 1) * b
           v == z * b
<1>7. y * d <= p
  <2> DEFINE t == (y * k) * b
             w == x * b
  <2>1. t \in Nat /\ w \in Nat /\ t <= w /\ w <= p
    BY <1>1, <1>2, <1>3
  <2>2. t = y * d
    BY <1>6
  <2> HIDE DEF t, w, d
  <2> QED BY <2>1, <2>2
<1>c. u \in Nat /\ v \in Nat /\ u <= v /\ p < u
  BY <1>1, <1>5, <1>a, <1>2
<1>d. v = (y + 1) * d
  BY <1>6
<1>9. p < (y + 1) * d
  <2>1. p < v
    <3> HIDE DEF u, v
    <3> QED BY <1>c
  <2> HIDE DEF d, v
  <2> QED BY <2>1, <1>d
<1> HIDE DEF d
<1>8. p \div d = y
  BY <1>2, <1>b, <1>7, <1>9, DivUnique DEF d
<1> QED BY <1>8 DEF x, y, d

-----------------------------------------------------------------------------
(* The inductive invariant.                                                *)

Prev(e) == (e + MaxRecords - 1) % MaxRecords

(* The fields of journal_region; what the buffer holds does not matter.    *)
Region(r) ==
  /\ r = [start |-> r.start, end |-> r.end, lastSync |-> r.lastSync,
          segno |-> r.segno, status |-> r.status, buf |-> r.buf]
  /\ r.start \in Positions /\ r.end \in Positions

(* A superblock: its window is empty only as it was formatted.             *)
Super(x) ==
  /\ x.start \in Positions /\ x.end \in Positions
  /\ x.ids \in [Positions -> Nat]
  /\ x.start = x.end => x.end = 0

Typing ==
  /\ pc \in {"down", "idle", "pack", "start", "sync"}
  /\ Region(j) /\ Super(sb) /\ Super(dsb)
  /\ added \in [Positions -> Nat]
  /\ next \in Nat \ {0}
  /\ pending \in Nat /\ pending < next
  /\ committed \in Nat /\ committed < next
  /\ settled \in Nat /\ settled < next
  /\ fails \in Nat /\ dropped \in BOOLEAN

(* A region in use holds a record, and its buffer is that of the last one. *)
InUse(r) == r.start # r.end /\ r.segno = SegOf(Prev(r.end))

(* The unwritten tail begins at l, in the segment of the buffer, and does  *)
(* not reach round the ring.                                               *)
Halted(r, l) ==
  /\ l \in Positions /\ l # r.end
  /\ SegOf(l) = r.segno
  /\ SegOf(r.end) = r.segno => l < r.end

Tail(r) == r.lastSync = r.end \/ Halted(r, r.lastSync)

(* After a failed sync only, the tail may reach to the end of its segment. *)
Behind ==
  j.lastSync # j.end /\ SegOf(j.end) # j.segno => fails > 0

(* When nothing is unwritten, the superblock is the region's.              *)
Clean ==
  j.lastSync = j.end => sb.end = j.end /\ sb.ids = added /\ sb.start # sb.end

(* A superblock has record c, or a later one, last in its window.          *)
Holds(x, c) == c # 0 => x.start # x.end /\ c <= x.ids[Prev(x.end)]

(* A superblock has the commits that were written back, and that of the    *)
(* last flush that was complete.                                           *)
Due(x) == Holds(x, settled) /\ (~cut => Holds(x, committed))

(* The records of flushes are no later than the last record added.         *)
Flushed ==
  /\ pc \in {"pack", "start", "sync"} => pending <= added[Prev(j.end)]
  /\ ~dropped => settled <= added[Prev(j.end)] /\ (~cut => committed <= added[Prev(j.end)])

StuckOnlyAfterFailure ==
  /\ j.status = "stuck" => dropped
  /\ dropped => fails > 0

(* It holds until synchronize goes by a last_sync_record nobody has set.   *)
IInv ==
  /\ Typing
  /\ StuckOnlyAfterFailure
  /\ pc # "down" => j.start # j.end
  /\ pc # "down" => Flushed
  /\ pc # "down" /\ j.status = "ready" => InUse(j)
  /\ pc # "down" /\ j.status = "ready" /\ ~dropped => Tail(j) /\ Behind /\ Clean
  /\ ~dropped => Due(IF pc = "down" THEN dsb ELSE sb) /\ Holds(dsb, settled)

-----------------------------------------------------------------------------
(* Positions, blocks and segments.                                         *)

LEMMA Sizes ==
  /\ RecordsPerBlock \in Nat \ {0} /\ BlocksPerSegment \in Nat \ {0}
  /\ NrJournalSegment \in Nat \ {0, 1}
  /\ RecordsPerSegment \in Nat \ {0, 1}
  /\ MaxRecords \in Nat \ {0, 1}
  /\ RecordsPerSegment < MaxRecords
  /\ Positions \subseteq Nat
<1>1. /\ RecordsPerBlock \in Nat \ {0} /\ BlocksPerSegment \in Nat \ {0}
      /\ NrJournalSegment \in Nat \ {0, 1}
  BY JournalAssumption
<1>2. RecordsPerSegment \in Nat \ {0, 1}
  <2>1. RecordsPerSegment \in Nat \ {0}
    BY <1>1, MulPos DEF RecordsPerSegment
  <2>2. RecordsPerSegment > 1
    BY JournalAssumption DEF RecordsPerSegment
  <2> QED BY <2>1, <2>2
<1> DEFINE R == RecordsPerSegment
           k == NrJournalSegment
<1>3. R * k \in Nat /\ R * 2 <= R * k
  <2> HIDE DEF R, k
  <2>1. 2 <= k /\ k \in Nat /\ R \in Nat
    BY <1>1, <1>2 DEF R, k
  <2>2. 2 * R <= k * R /\ k * R \in Nat
    BY <2>1, MulMono
  <2>3. k * R = R * k /\ 2 * R = R * 2
    BY <2>1, MulComm
  <2> QED BY <2>2, <2>3
<1>4. MaxRecords = R * k
  BY DEF MaxRecords
<1>5. MaxRecords \in Nat \ {0, 1} /\ R < MaxRecords
  <2> HIDE DEF R
  <2>1. R \in Nat \ {0, 1}
    BY <1>2 DEF R
  <2> QED BY <2>1, <1>3, <1>4
<1>6. Positions \subseteq Nat
  BY <1>5 DEF Positions
<1> QED BY <1>1, <1>2, <1>5, <1>6

LEMMA BlockSeg ==
  ASSUME NEW p \in Nat
  PROVE  SegOfBlock(BlockOf(p)) = SegOf(p) /\ BlockOf(p) \in Nat /\ SegOf(p) \in Nat
<1>1. (p \div RecordsPerBlock) \div BlocksPerSegment = p \div (RecordsPerBlock * BlocksPerSegment)
  BY Sizes, DivDiv
<1>2. BlockOf(p) \in Nat
  BY Sizes, Div DEF BlockOf
<1>3. SegOf(p) \in Nat
  BY Sizes, Div DEF SegOf
<1> QED BY <1>1, <1>2, <1>3 DEF SegOfBlock, BlockOf, SegOf, RecordsPerSegment

LEMMA BlockStart ==
  ASSUME NEW b \in Nat
  PROVE  b * RecordsPerBlock \in Nat /\ BlockOf(b * RecordsPerBlock) = b
         /\ SegOf(b * RecordsPerBlock) = SegOfBlock(b)
<1> DEFINE p == b * RecordsPerBlock
<1>1. p \in Nat
  BY Sizes
<1>2. p \div RecordsPerBlock = b
  BY Sizes
<1> HIDE DEF p
<1>3. BlockOf(p) = b
  BY <1>2 DEF BlockOf
<1>4. SegOfBlock(BlockOf(p)) = SegOf(p)
  BY <1>1, BlockSeg
<1> QED BY <1>1, <1>3, <1>4 DEF p

LEMMA SegStart ==
  ASSUME NEW g \in Nat
  PROVE  SegOf(g * RecordsPerSegment) = g /\ g * RecordsPerSegment \in Nat
<1>1. (g * RecordsPerSegment) \div RecordsPerSegment = g
  BY Sizes
<1> QED BY <1>1, Sizes DEF SegOf

LEMMA SegMono ==
  ASSUME NEW p \in Nat, NEW q \in Nat, p <= q
  PROVE  SegOf(p) <= SegOf(q)
BY Sizes, DivMono DEF SegOf

LEMMA SegBounds ==
  ASSUME NEW p \in Positions
  PROVE  SegOf(p) \in 0 .. NrJournalSegment - 1
<1> DEFINE R == RecordsPerSegment
           k == NrJournalSegment
           x == p \div R
<1>1. p \in Nat /\ p < R * k /\ R \in Nat \ {0} /\ k \in Nat
  BY Sizes DEF Positions, MaxRecords
<1>2. x \in Nat /\ x * R <= p
  BY <1>1, Div
<1> HIDE DEF x, R, k
<1>3. x < k
  <2> SUFFICES ASSUME k <= x PROVE FALSE
    BY <1>1, <1>2
  <2>1. k * R <= x * R /\ k * R \in Nat /\ x * R \in Nat
    BY <1>1, <1>2, MulMono
  <2>2. k * R = R * k
    BY <1>1, MulComm
  <2> QED BY <1>1, <1>2, <2>1, <2>2
<1> QED BY <1>2, <1>3, Sizes DEF x, R, k, SegOf

(* The first and the last position of the ring.                            *)
LEMMA Ends ==
  /\ 0 \in Positions /\ SegOf(0) = 0
  /\ MaxRecords - 1 \in Positions /\ SegOf(MaxRecords - 1) # 0
<1>1. 0 \in Positions /\ MaxRecords - 1 \in Positions
  BY Sizes DEF Positions
<1>2. SegOf(0) = 0
  BY Sizes DEF SegOf
<1>3. SegOf(RecordsPerSegment) = 1
  BY Sizes DEF SegOf
<1>4. SegOf(RecordsPerSegment) <= SegOf(MaxRecords - 1)
  BY Sizes, SegMono
<1>5. SegOf(MaxRecords - 1) \in Nat
  BY Sizes, BlockSeg
<1> QED BY <1>1, <1>2, <1>3, <1>4, <1>5

(* Adding a record moves record_end to the next position.                  *)
LEMMA Advance ==
  ASSUME NEW e \in Positions, NEW f, f = (e + 1) % MaxRecords
  PROVE  /\ f \in Positions /\ f # e /\ Prev(f) = e
         /\ f = e + 1 \/ (f = 0 /\ e = MaxRecords - 1)
         /\ SegOf(f) = SegOf(e) => f = e + 1
<1> DEFINE M == MaxRecords
<1>1. M \in Nat \ {0, 1} /\ e \in 0 .. M - 1
  BY Sizes DEF Positions
<1>2. CASE e = M - 1
  <2>1. f = 0
    BY <1>1, <1>2
  <2>2. Prev(f) = M - 1
    BY <1>1, <2>1 DEF Prev
  <2>3. SegOf(f) # SegOf(e)
    BY <2>1, <1>2, Ends
  <2> QED BY <1>1, <1>2, <2>1, <2>2, <2>3, Ends
<1>3. CASE e # M - 1
  <2>1. f = e + 1
    BY <1>1, <1>3
  <2>2. Prev(f) = e
    <3>1. Prev(f) = (e + M) % M
      BY <1>1, <2>1 DEF Prev
    <3>2. (e + M) % M = e
      BY <1>1
    <3> QED BY <3>1, <3>2
  <2> QED BY <1>1, <1>3, <2>1, <2>2 DEF Positions
<1> QED BY <1>2, <1>3

(* The record before record_end, and where it is.                          *)
LEMMA Before ==
  ASSUME NEW e \in Positions
  PROVE  /\ Prev(e) \in Positions /\ Prev(e) # e
         /\ (Prev(e) + 1) % MaxRecords = e
         /\ e % RecordsPerSegment # 0 => e > 0 /\ SegOf(e - 1) = SegOf(e)
         /\ SegOf(e) = SegOf(Prev(e)) => e % RecordsPerSegment # 0 /\ e > 0
         /\ e % RecordsPerSegment # 0 => SegOf(e) = SegOf(Prev(e))
         /\ e > 0 => Prev(e) = e - 1
<1> DEFINE M == MaxRecords
           R == RecordsPerSegment
<1>1. M \in Nat \ {0, 1} /\ e \in 0 .. M - 1 /\ R \in Nat \ {0, 1}
  BY Sizes DEF Positions
<1>2. CASE e = 0
  <2>1. Prev(e) = M - 1
    BY <1>1, <1>2 DEF Prev
  <2>2. e % R = 0
    BY <1>1, <1>2
  <2>3. SegOf(e) # SegOf(Prev(e))
    BY <1>2, <2>1, Ends
  <2>4. (Prev(e) + 1) % M = e
    BY <1>1, <1>2, <2>1
  <2> QED BY <1>1, <1>2, <2>1, <2>2, <2>3, <2>4, Ends
<1>3. CASE e > 0
  <2>1. Prev(e) = e - 1
    <3>1. (e + M - 1) % M = e - 1
      BY <1>1, <1>3
    <3> QED BY <3>1 DEF Prev
  <2>2. (e % R # 0) <=> ((e - 1) \div R = e \div R)
    BY <1>1, <1>3
  <2>3. (e % R # 0) <=> (SegOf(e - 1) = SegOf(e))
    BY <2>2 DEF SegOf
  <2>4. (e - 1 + 1) % M = e
    BY <1>1, <1>3
  <2>5. e - 1 \in Positions
    BY <1>1, <1>3 DEF Positions
  <2> HIDE DEF M, R
  <2> QED BY <1>1, <1>3, <2>1, <2>3, <2>4, <2>5 DEF M, R
<1> QED BY <1>1, <1>2, <1>3

-----------------------------------------------------------------------------
(* What the functions of the journal do to the fields of the region.       *)

LEMMA LoadFields ==
  ASSUME NEW r, Region(r), NEW s, NEW e, NEW t, t = Load(r, s, e)
  PROVE  /\ Region(t) /\ t.segno = SegOf(s)
         /\ t.start = r.start /\ t.end = r.end
         /\ t.lastSync = r.lastSync /\ t.status = r.status
<1>1. PICK b : t = [r EXCEPT !.segno = SegOf(s), !.buf = b]
  BY DEF Load
<1> QED BY <1>1 DEF Region

LEMMA StoreFields ==
  ASSUME NEW r, Region(r), NEW id, NEW t, t = Store(r, id)
  PROVE  /\ Region(t) /\ t.end = (r.end + 1) % MaxRecords /\ t.start # t.end
         /\ t.lastSync = r.lastSync /\ t.status = r.status
         /\ t.segno = SegOf(r.end)
<1> DEFINE e == r.end
           b == BlockOf(e)
           g == GetBlock(r, b)
           to == (e + 1) % MaxRecords
           s == IF to = r.start THEN (r.start + 1) % MaxRecords ELSE r.start
<1>1. e \in Positions /\ e \in Nat /\ r.start \in Positions
  BY Sizes DEF Region
<1>2. b \in Nat /\ SegOfBlock(b) = SegOf(e)
  BY <1>1, BlockSeg
<1>3. /\ Region(g) /\ g.segno = SegOf(e)
      /\ g.start = r.start /\ g.end = r.end
      /\ g.lastSync = r.lastSync /\ g.status = r.status
  <2>1. CASE SegOfBlock(b) = r.segno
    BY <2>1, <1>2 DEF GetBlock
  <2>2. CASE SegOfBlock(b) # r.segno
    <3>1. g = Load(r, b * RecordsPerBlock, e)
      BY <2>2 DEF GetBlock
    <3>2. SegOf(b * RecordsPerBlock) = SegOf(e)
      BY <1>2, BlockStart
    <3> HIDE DEF g, b
    <3> QED BY <3>1, <3>2, LoadFields
  <2> QED BY <2>1, <2>2
<1>4. to \in Positions
  BY <1>1, Advance
<1>5. s \in Positions /\ s # to
  BY <1>1, <1>4, Advance
<1>6. PICK c : t = [g EXCEPT !.buf = c, !.end = to, !.start = s]
  <2>1. t = [g EXCEPT !.buf[Place(e)] = id, !.end = to, !.start = s]
    BY DEF Store
  <2> HIDE DEF g, to, s
  <2>2. t = [g EXCEPT !.buf = [g.buf EXCEPT ![Place(e)] = id], !.end = to, !.start = s]
    BY <2>1, <1>3 DEF Region
  <2> QED BY <2>2
<1> HIDE DEF g, to, s
<1>7. /\ t.end = to /\ t.start = s /\ t.lastSync = g.lastSync /\ t.status = g.status
      /\ t.segno = g.segno
      /\ t = [start |-> t.start, end |-> t.end, lastSync |-> t.lastSync,
              segno |-> t.segno, status |-> t.status, buf |-> t.buf]
  BY <1>6, <1>3 DEF Region
<1>8. Region(t)
  BY <1>3, <1>4, <1>5, <1>7 DEF Region
<1>9. t.end = (r.end + 1) % MaxRecords
  BY <1>7 DEF to
<1> QED BY <1>3, <1>5, <1>7, <1>8, <1>9

(* journal_recover leaves the buffer with the segment of the last record.  *)
LEMMA RecoverFields ==
  ASSUME NEW r, Region(r), r.segno = SegOf(r.start), NEW t, t = Recover(r)
  PROVE  /\ Region(t) /\ t.segno = SegOf(Prev(r.end))
         /\ t.start = r.start /\ t.end = r.end
         /\ t.lastSync = r.end /\ t.status = r.status
<1> DEFINE last == Prev(r.end)
           a == SegOf(last)
           b == SegOf(r.start)
           k == NrJournalSegment
           moves == IF a = b /\ last < r.start THEN k ELSE (a - b + k) % k
           x == (a + k - 1) % k
           before == IF moves < 2 THEN r ELSE Load(r, x * RecordsPerSegment, r.end)
           u == IF moves = 0 THEN r ELSE Load(before, a * RecordsPerSegment, before.end)
<1>1. t = [u EXCEPT !.lastSync = r.end]
  BY DEF Recover, Prev
<1>2. last \in Positions /\ r.start \in Positions /\ r.end \in Positions
  BY Before DEF Region
<1>3. a \in 0 .. k - 1 /\ b \in 0 .. k - 1 /\ k \in Nat \ {0, 1}
  BY <1>2, SegBounds, Sizes
<1>4. moves = 0 => a = b
  <2> HIDE DEF a, b, k, last
  <2>1. (a - b + k) % k = 0 => a = b
    BY <1>3
  <2> QED BY <1>3, <2>1
<1>5. /\ Region(before) /\ before.start = r.start /\ before.end = r.end
      /\ before.lastSync = r.lastSync /\ before.status = r.status
  <2> DEFINE s == x * RecordsPerSegment
  <2> HIDE DEF moves, s
  <2>1. CASE moves < 2
    BY <2>1
  <2>2. CASE ~(moves < 2)
    <3>1. before = Load(r, s, r.end)
      BY <2>2 DEF s
    <3> HIDE DEF before
    <3> QED BY <3>1, LoadFields
  <2> QED BY <2>1, <2>2
<1>6. /\ Region(u) /\ u.start = r.start /\ u.end = r.end
      /\ u.status = r.status /\ u.segno = a
  <2> HIDE DEF moves, before
  <2>1. CASE moves = 0
    BY <2>1, <1>4
  <2>2. CASE moves # 0
    <3>1. u = Load(before, a * RecordsPerSegment, before.end)
      BY <2>2
    <3>2. SegOf(a * RecordsPerSegment) = a
      BY <1>3, SegStart
    <3> HIDE DEF u, a
    <3> QED BY <3>1, <3>2, <1>5, LoadFields
  <2> QED BY <2>1, <2>2
<1> HIDE DEF u
<1> QED BY <1>1, <1>2, <1>6 DEF Region

-----------------------------------------------------------------------------
(* journal_synchronize.                                                    *)

LEMMA InRing ==
  ASSUME NEW p \in Nat, NEW q \in Positions, SegOf(p) = SegOf(q)
  PROVE  p \in Positions
<1> DEFINE R == RecordsPerSegment
           k == NrJournalSegment
           x == p \div R
<1>1. R \in Nat \ {0} /\ k \in Nat \ {0} /\ MaxRecords = R * k
  BY Sizes DEF MaxRecords
<1>2. x = SegOf(q)
  BY DEF SegOf
<1>3. x \in 0 .. k - 1
  BY <1>2, SegBounds
<1>4. p < (x + 1) * R
  BY <1>1, Div
<1> HIDE DEF x, R, k
<1>5. (x + 1) * R <= k * R /\ k * R \in Nat /\ (x + 1) * R \in Nat
  BY <1>1, <1>3, MulMono
<1>6. k * R = MaxRecords
  BY <1>1, MulComm
<1>7. p < MaxRecords
  <2> DEFINE u == (x + 1) * R
             v == k * R
  <2> HIDE DEF u, v
  <2>1. u \in Nat /\ v \in Nat /\ p < u /\ u <= v /\ v = MaxRecords
    BY <1>4, <1>5, <1>6 DEF u, v
  <2> QED BY <2>1
<1> QED BY <1>7, Sizes DEF Positions

(* With the tail as it should be the count is positive, and each block     *)
(* before the last begins inside the tail.                                 *)
LEMMA SyncCounts ==
  ASSUME NEW r, Region(r), InUse(r), Halted(r, r.lastSync),
         NEW n, n = SyncCount(r)
  PROVE  /\ n \in Nat \ {0}
         /\ \A i \in 0 .. n - 1 : Halted(r, (BlockOf(r.lastSync) + i) * RecordsPerBlock)
<1> DEFINE e == r.end
           l == r.lastSync
           g == r.segno
           b == BlockOf(l)
           B == RecordsPerBlock
           K == BlocksPerSegment
<1>1. /\ e \in Positions /\ l \in Positions /\ e \in Nat /\ l \in Nat
      /\ g = SegOf(Prev(e)) /\ g = SegOf(l) /\ (SegOf(e) = g => l < e)
  BY Sizes DEF Region, InUse, Halted
<1>2. b \in Nat /\ SegOfBlock(b) = g /\ g \in Nat
  BY <1>1, BlockSeg
<1>3. B \in Nat \ {0} /\ K \in Nat \ {0}
  BY Sizes
<1>4. CASE e % RecordsPerSegment = 0
  <2>1. n = K - (b % K)
    <3>1. ~(r.end % RecordsPerSegment # 0)
      BY <1>4
    <3> QED BY <3>1, Zenon DEF SyncCount
  <2>2. b % K \in 0 .. K - 1
    <3> HIDE DEF b, K
    <3> QED BY <1>2, <1>3
  <2>3. n \in Nat \ {0}
    <3> DEFINE m == b % K
    <3> HIDE DEF K
    <3>1. m \in 0 .. K - 1 /\ n = K - m
      BY <1>2, <1>3, <2>1, <2>2
    <3> HIDE DEF m
    <3> QED BY <1>3, <3>1
  <2>4. SegOf(e) # g
    BY <1>1, <1>4, Before
  <2>5. ASSUME NEW i \in 0 .. n - 1
        PROVE  Halted(r, (b + i) * B)
    <3> DEFINE c == b + i
               to == c * B
    <3>0. i \in Nat /\ c \in Nat
      BY <1>2, <2>3
    <3>1. (b % K) + i < K
      <4> DEFINE m == b % K
      <4> HIDE DEF b, K
      <4>1. m \in 0 .. K - 1 /\ n = K - m
        BY <1>2, <1>3, <2>1, <2>2
      <4> HIDE DEF m
      <4>2. m + i < K
        BY <1>3, <3>0, <4>1
      <4> QED BY <4>2 DEF m
    <3>2. c \div K = b \div K
      <4> HIDE DEF b, K
      <4> QED BY <1>2, <1>3, <3>0, <3>1, DivSame
    <3>3. SegOfBlock(c) = g
      BY <1>2, <3>2 DEF SegOfBlock
    <3>4. to \in Nat /\ SegOf(to) = g
      <4> HIDE DEF c
      <4> QED BY <3>0, <3>3, BlockStart
    <3> HIDE DEF to
    <3>5. to \in Positions
      BY <1>1, <3>4, InRing
    <3>6. Halted(r, to)
      BY <1>1, <2>4, <3>4, <3>5 DEF Halted
    <3> QED BY <3>6 DEF to
  <2> QED BY <2>3, <2>5
<1>5. CASE e % RecordsPerSegment # 0
  <2> DEFINE f == BlockOf(e - 1)
  <2>1. e > 0 /\ Prev(e) = e - 1 /\ SegOf(e) = g /\ SegOf(e - 1) = g /\ e - 1 \in Nat
    <3> HIDE DEF e, g
    <3>1. e > 0 /\ SegOf(e - 1) = SegOf(e) /\ SegOf(e) = SegOf(Prev(e)) /\ Prev(e) = e - 1
      BY <1>1, <1>5, Before
    <3>2. e - 1 \in Nat
      BY <1>1, <3>1
    <3> QED BY <1>1, <3>1, <3>2, Zenon
  <2>2. l <= e - 1
    BY <1>1, <2>1
  <2>3. f \in Nat /\ b <= f
    <3>1. f \in Nat
      BY <2>1, BlockSeg
    <3>2. l \div B <= (e - 1) \div B
      BY <1>1, <1>3, <2>1, <2>2, DivMono
    <3> QED BY <3>1, <3>2 DEF BlockOf
  <2>4. n = f - b + 1
    BY <1>5 DEF SyncCount
  <2>5. f * B <= e - 1
    BY <1>3, <2>1, Div DEF BlockOf
  <2> HIDE DEF b, f
  <2>6. n \in Nat \ {0}
    BY <1>2, <2>3, <2>4
  <2>7. ASSUME NEW i \in 0 .. n - 1
        PROVE  Halted(r, (b + i) * B)
    <3> DEFINE c == b + i
               to == c * B
    <3>1. c \in Nat /\ b <= c /\ c <= f
      BY <1>2, <2>3, <2>4, <2>6
    <3> HIDE DEF c
    <3>2. b * B <= to /\ to <= f * B /\ b * B \in Nat /\ to \in Nat /\ f * B \in Nat
      BY <1>2, <1>3, <2>3, <3>1, MulMono
    <3>3. SegOf(b * B) = g
      BY <1>2, BlockStart
    <3> DEFINE u == b * B
               v == f * B
    <3> HIDE DEF to, u, v
    <3>4. u \in Nat /\ v \in Nat /\ to \in Nat /\ u <= to /\ to <= v /\ v <= e - 1
      BY <3>2, <2>5 DEF u, v
    <3>5. to <= e - 1 /\ to < e
      BY <3>4, <1>1, <2>1
    <3>6. SegOf(u) <= SegOf(to) /\ SegOf(to) <= SegOf(e - 1)
      BY <3>4, <3>5, <2>1, SegMono
    <3>7. SegOf(u) = g
      BY <3>3 DEF u
    <3>8. SegOf(to) \in Nat
      BY <3>4, BlockSeg
    <3>9. SegOf(to) = g
      BY <3>6, <3>7, <3>8, <2>1, <1>2
    <3>10. to \in Positions
      BY <1>1, <3>4, <3>9, InRing
    <3>11. Halted(r, to)
      BY <1>1, <3>5, <3>9, <3>10 DEF Halted
    <3> QED BY <3>11 DEF to, c
  <2> QED BY <2>6, <2>7 DEF b
<1> QED BY <1>4, <1>5

(* What any call of synchronize leaves alone.                              *)
Kept(r) ==
  /\ Region(j') /\ j'.start = r.start /\ j'.end = r.end /\ j'.segno = r.segno
  /\ fails' \in {fails, fails + 1}
  /\ \/ sb' = sb
     \/ sb' = [start |-> r.start, end |-> r.end, ids |-> added']

(* A sync that goes by the right last_sync_record.                         *)
Synced(r) ==
  \/ r.lastSync = r.end /\ j' = r /\ UNCHANGED <<disk, sb, fails>>
  \/ r.lastSync = Beyond /\ SynchronizeBeyond(r)
  \/ r.lastSync # r.end /\ \E i \in Written(r) : Synchronize(r, i)

LEMMA SyncFollows ==
  ASSUME NEW r, Region(r), Sync(r), ~misled'
  PROVE  Synced(r)
<1>1. PICK g : /\ misled' = (misled \/ g # r.lastSync)
               /\ LET q == [r EXCEPT !.lastSync = g]
                  IN \/ g = r.end /\ j' = q /\ UNCHANGED <<disk, sb, fails>>
                     \/ g = Beyond /\ SynchronizeBeyond(q)
                     \/ g \notin {r.end, Beyond} /\ \E i \in Written(q) : Synchronize(q, i)
  BY DEF Sync
<1>2. g = r.lastSync
  BY <1>1
<1>3. [r EXCEPT !.lastSync = g] = r
  BY <1>2 DEF Region
<1> QED BY <1>1, <1>2, <1>3 DEF Synced

LEMMA SyncKeeps ==
  ASSUME NEW r, Region(r), Synced(r)
  PROVE  Kept(r)
<1>1. CASE j' = r /\ UNCHANGED <<disk, sb, fails>>
  BY <1>1 DEF Kept
<1>2. CASE \E x : j' = [r EXCEPT !.status = x] /\ UNCHANGED <<disk, sb, fails>>
  <2>1. PICK x : j' = [r EXCEPT !.status = x]
    BY <1>2
  <2>2. /\ Region(j') /\ j'.start = r.start /\ j'.end = r.end /\ j'.segno = r.segno
    BY <2>1 DEF Region
  <2> QED BY <1>2, <2>2 DEF Kept
<1>3. ASSUME NEW i \in Written(r), ~SelfLocks(r, i), Synchronize(r, i)
      PROVE  Kept(r)
  <2>1. PICK to : j' = [r EXCEPT !.lastSync = to]
    BY <1>3 DEF Synchronize
  <2>2. /\ Region(j') /\ j'.start = r.start /\ j'.end = r.end /\ j'.segno = r.segno
    BY <2>1 DEF Region
  <2>3. fails' \in {fails, fails + 1}
    BY <1>3 DEF Synchronize
  <2>4. \/ sb' = sb
        \/ sb' = [start |-> r.start, end |-> r.end, ids |-> added']
    BY <1>3 DEF Synchronize
  <2> QED BY <2>2, <2>3, <2>4 DEF Kept
<1>4. ASSUME NEW i \in Written(r), SelfLocks(r, i), Synchronize(r, i)
      PROVE  j' = [r EXCEPT !.status = "stuck"] /\ UNCHANGED <<disk, sb, fails>>
  BY <1>4 DEF Synchronize
<1>5. CASE SynchronizeBeyond(r)
  <2>1. j' = r \/ (\E x : j' = [r EXCEPT !.lastSync = x]) \/ (\E x : j' = [r EXCEPT !.status = x])
    BY <1>5 DEF SynchronizeBeyond
  <2>2. /\ Region(j') /\ j'.start = r.start /\ j'.end = r.end /\ j'.segno = r.segno
    BY <2>1 DEF Region
  <2> QED BY <1>5, <2>2 DEF SynchronizeBeyond, Kept
<1> QED BY <1>1, <1>2, <1>3, <1>4, <1>5 DEF Synced

(* With the tail as it should be, synchronize does not wait for itself, and*)
(* ends with everything written and the superblock the region's, or, after *)
(* a failure, with the tail still as it should be.                         *)
Outcome(r) ==
  \/ j'.lastSync = r.end /\ sb' = [start |-> r.start, end |-> r.end, ids |-> added']
  \/ j' = r /\ r.lastSync = r.end /\ sb' = sb /\ fails' = fails
  \/ Halted(r, j'.lastSync) /\ sb' = sb /\ fails' = fails + 1

LEMMA SyncOutcome ==
  ASSUME NEW r, Region(r), InUse(r), Tail(r), r.status = "ready", Synced(r)
  PROVE  j'.status = "ready" /\ Outcome(r)
<1>1. CASE r.lastSync = r.end /\ j' = r /\ UNCHANGED <<disk, sb, fails>>
  BY <1>1 DEF Outcome
<1>2. r.lastSync # Beyond
  BY Sizes DEF Tail, Halted, Region, Positions, Beyond
<1>3. ASSUME r.lastSync # r.end, NEW i \in Written(r), Synchronize(r, i)
      PROVE  j'.status = "ready" /\ Outcome(r)
  <2> DEFINE n == SyncCount(r)
             b == BlockOf(r.lastSync)
             l == (b + i) * RecordsPerBlock
  <2>1. Halted(r, r.lastSync)
    BY <1>3 DEF Tail
  <2>2. /\ n \in Nat \ {0}
        /\ \A k \in 0 .. n - 1 : Halted(r, (b + k) * RecordsPerBlock)
    BY <2>1, SyncCounts
  <2>3. ~SelfLocks(r, i)
    <3>1. r.lastSync \in Nat /\ SegOf(r.lastSync) = r.segno
      BY <2>1, Sizes DEF Halted
    <3>2. SegOfBlock(BlockOf(r.lastSync)) = r.segno
      BY <3>1, BlockSeg
    <3> QED BY <3>2 DEF SelfLocks
  <2>4. i \in 0 .. n
    <3> HIDE DEF n
    <3>1. ~(n < 0)
      BY <2>2
    <3>2. i \in (0 .. n) \cup (IF n < 0 THEN {0} ELSE {})
      BY <1>3 DEF Written, n
    <3> QED BY <3>1, <3>2
  <2>5. CASE i = n
    <3>1. j' = [r EXCEPT !.lastSync = r.end]
          /\ sb' = [start |-> r.start, end |-> r.end, ids |-> added']
      BY <1>3, <2>3, <2>5 DEF Synchronize
    <3>2. j'.lastSync = r.end /\ j'.status = "ready"
      BY <3>1 DEF Region
    <3> QED BY <3>1, <3>2 DEF Outcome
  <2>6. CASE i # n
    <3>1. i \in 0 .. n - 1 /\ i < n
      <4> HIDE DEF n
      <4> QED BY <2>2, <2>4, <2>6
    <3>2. Halted(r, l)
      BY <2>2, <3>1
    <3>3. l # r.end
      BY <3>2 DEF Halted
    <3>4. j' = [r EXCEPT !.lastSync = l] /\ sb' = sb
      BY <1>3, <2>3, <2>6, <3>3 DEF Synchronize
    <3>5. fails' = fails + 1
      BY <1>3, <2>3, <3>1 DEF Synchronize
    <3> HIDE DEF l
    <3>6. j'.lastSync = l /\ j'.status = "ready"
      BY <3>4 DEF Region
    <3> QED BY <3>2, <3>4, <3>5, <3>6 DEF Outcome
  <2> QED BY <2>5, <2>6
<1> QED BY <1>1, <1>2, <1>3 DEF Synced

-----------------------------------------------------------------------------
(* journal_add_record.                                                     *)

LEMMA StoreTail ==
  ASSUME NEW q, Region(q), InUse(q), Tail(q), NEW id, NEW r, r = Store(q, id),
         r.segno = q.segno \/ q.lastSync = q.end
  PROVE  InUse(r) /\ Halted(r, r.lastSync)
<1> DEFINE e == q.end
           f == r.end
           l == q.lastSync
<1>1. /\ f = (e + 1) % MaxRecords /\ r.start # f /\ r.lastSync = l /\ r.segno = SegOf(e)
  BY StoreFields
<1>2. e \in Positions /\ e \in Nat
  BY Sizes DEF Region
<1>3. /\ f \in Positions /\ f # e /\ Prev(f) = e
      /\ f = e + 1 \/ (f = 0 /\ e = MaxRecords - 1)
      /\ SegOf(f) = SegOf(e) => f = e + 1
  BY <1>1, <1>2, Advance
<1>4. InUse(r)
  BY <1>1, <1>3 DEF InUse
<1>5. CASE l = e
  <2>1. Halted(r, e)
    BY <1>1, <1>2, <1>3 DEF Halted
  <2> QED BY <1>1, <1>4, <1>5, <2>1
<1>7. CASE l # e /\ r.segno = q.segno
  <2>1. /\ l \in Positions /\ SegOf(l) = SegOf(e) /\ l < e /\ l \in Nat
    BY <1>1, <1>7, Sizes DEF Tail, Halted
  <2>2. l # f
    <3>1. CASE f = e + 1
      BY <1>2, <2>1, <3>1
    <3>2. CASE f = 0 /\ e = MaxRecords - 1
      BY <2>1, <3>2, Ends
    <3> QED BY <1>3, <3>1, <3>2
  <2>3. SegOf(f) = r.segno => l < f
    BY <1>1, <1>2, <1>3, <2>1
  <2>4. Halted(r, l)
    BY <1>1, <2>1, <2>2, <2>3 DEF Halted
  <2> QED BY <1>1, <1>4, <2>4
<1> QED BY <1>5, <1>7

(* What adding a record leaves.                                            *)
Grown ==
  /\ Region(j') /\ j'.start # j'.end /\ Prev(j'.end) = j.end
  /\ Super(sb')
  /\ added' \in [Positions -> Nat] /\ added'[j.end] = next
  /\ next' = next + 1 /\ fails' \in Nat
  /\ dropped' \in BOOLEAN /\ (dropped => dropped')
  /\ (j'.status = "stuck" => dropped') /\ (dropped' => fails' > 0)
  /\ j'.status = "ready" => InUse(j')
  /\ j'.status = "ready" /\ ~dropped' => Tail(j') /\ Behind' /\ Clean'
  /\ \A c \in 0 .. next - 1 : Holds(sb, c) => Holds(sb', c)

LEMMA AddGrows ==
  ASSUME IInv, pc # "down", j.status = "ready", AddRecord, ~misled'
  PROVE  Grown
<1> DEFINE r == Store(j, next)
           e == j.end
<1>1. /\ Region(j) /\ Super(sb) /\ added \in [Positions -> Nat] /\ next \in Nat \ {0}
      /\ committed \in Nat /\ committed < next /\ fails \in Nat /\ dropped \in BOOLEAN
  BY DEF IInv, Typing
<1>2. InUse(j) /\ e \in Positions
  BY <1>1 DEF IInv, Region
<1>3. /\ Region(r) /\ r.end = (e + 1) % MaxRecords /\ r.start # r.end
      /\ r.lastSync = j.lastSync /\ r.status = "ready" /\ r.segno = SegOf(e)
  BY <1>1, StoreFields
<1>4. r.end \in Positions /\ r.end # e /\ Prev(r.end) = e
  BY <1>2, <1>3, Advance
<1>5. InUse(r)
  BY <1>3, <1>4 DEF InUse
<1>6. /\ next' = next + 1 /\ added' = [added EXCEPT ![e] = next]
      /\ dropped' = (dropped \/ (r.segno # j.segno /\ j.lastSync # e))
  BY DEF AddRecord
<1>7. added' \in [Positions -> Nat] /\ added'[e] = next
  BY <1>1, <1>2, <1>6
<1> HIDE DEF r
<1>8. IF ShouldSync(r) THEN Synced(r) ELSE j' = r /\ UNCHANGED <<disk, sb, fails>>
  BY <1>3, SyncFollows DEF AddRecord, r
<1>9. Kept(r)
  <2>1. CASE ShouldSync(r)
    BY <1>3, <1>8, <2>1, SyncKeeps
  <2>2. CASE ~ShouldSync(r)
    BY <1>3, <1>8, <2>2 DEF Kept
  <2> QED BY <2>1, <2>2
<1>10. Region(j') /\ j'.start # j'.end /\ Prev(j'.end) = e
  BY <1>3, <1>4, <1>9 DEF Kept
<1>11. j'.status = "ready" => InUse(j')
  BY <1>5, <1>9 DEF Kept, InUse
<1>12. Super(sb')
  BY <1>1, <1>3, <1>4, <1>7, <1>9 DEF Kept, Super, Region
<1>13. fails' \in Nat /\ fails' >= fails
  BY <1>1, <1>9 DEF Kept
<1>14. dropped' \in BOOLEAN /\ (dropped => dropped')
  BY <1>1, <1>6
<1>15. dropped' => fails' > 0
  <2>1. CASE dropped
    BY <1>1, <1>13, <2>1 DEF IInv, StuckOnlyAfterFailure
  <2>2. CASE ~dropped /\ r.segno # j.segno /\ j.lastSync # e
    <3>1. fails > 0
      BY <1>3, <2>2 DEF IInv, Behind
    <3> QED BY <1>1, <1>13, <3>1
  <2> QED BY <1>1, <1>6, <2>1, <2>2
<1>16. ASSUME ~dropped'
       PROVE  ~dropped /\ Tail(j) /\ Halted(r, r.lastSync)
  <2>1. ~dropped /\ (r.segno = j.segno \/ j.lastSync = e)
    BY <1>6, <1>16
  <2>2. Tail(j)
    BY <2>1 DEF IInv
  <2> QED BY <1>1, <1>2, <2>1, <2>2, StoreTail DEF r
<1>17. ASSUME ~dropped', ~ShouldSync(r)
       PROVE  j'.status # "stuck" /\ Tail(j') /\ Behind' /\ Clean'
  <2>1. j' = r /\ sb' = sb /\ fails' = fails /\ SegOf(r.end) = r.segno
    BY <1>8, <1>17 DEF ShouldSync
  <2>2. r.lastSync # r.end
    BY <1>16, <1>17 DEF Halted
  <2>3. Tail(j')
    BY <1>16, <1>17, <2>1 DEF Tail
  <2>4. Behind' /\ Clean'
    BY <2>1, <2>2 DEF Behind, Clean
  <2> QED BY <1>3, <1>16, <1>17, <2>1, <2>3, <2>4
<1>18. ASSUME ~dropped', ShouldSync(r)
       PROVE  /\ j'.status # "stuck"
              /\ j'.status = "ready" => Tail(j') /\ Behind' /\ Clean'
  <2>1. r.lastSync # r.end /\ Tail(r)
    BY <1>16, <1>18 DEF Halted, Tail
  <2>2. j'.status = "ready" /\ Outcome(r)
    BY <1>3, <1>5, <1>8, <1>18, <2>1, SyncOutcome
  <2>4. ASSUME j'.status = "ready"
        PROVE  Tail(j') /\ Behind' /\ Clean'
    <3>1. CASE j'.lastSync = r.end /\ sb' = [start |-> r.start, end |-> r.end, ids |-> added']
      BY <1>3, <1>9, <3>1 DEF Kept, Tail, Behind, Clean
    <3>2. CASE Halted(r, j'.lastSync) /\ fails' = fails + 1
      <4>1. Halted(j', j'.lastSync)
        BY <1>9, <3>2 DEF Kept, Halted
      <4>2. j'.lastSync # j'.end
        BY <4>1 DEF Halted
      <4> QED BY <1>1, <3>2, <4>1, <4>2 DEF Tail, Behind, Clean
    <3> QED BY <2>1, <2>2, <2>4, <3>1, <3>2 DEF Outcome
  <2> QED BY <2>2, <2>4
<1>19. ASSUME NEW c \in 0 .. next - 1, Holds(sb, c)
       PROVE  Holds(sb', c)
  <2>1. CASE sb' = sb
    BY <1>19, <2>1
  <2>2. CASE sb' = [start |-> r.start, end |-> r.end, ids |-> added']
    <3>1. /\ sb'.start # sb'.end /\ sb'.ids[Prev(sb'.end)] = next
      BY <1>3, <1>4, <1>7, <2>2
    <3> QED BY <1>1, <3>1 DEF Holds
  <2> QED BY <1>9, <2>1, <2>2 DEF Kept
<1> QED BY <1>6, <1>7, <1>10, <1>11, <1>12, <1>13, <1>14, <1>15, <1>17, <1>18, <1>19 DEF Grown

-----------------------------------------------------------------------------
(* The actions.                                                            *)

LEMMA InitInv == Init => IInv
<1> SUFFICES ASSUME Init PROVE IInv
  OBVIOUS
<1>1. Region(j)
  BY Ends DEF Init, Fresh, Region
<1>2. Super(sb) /\ Super(dsb) /\ added \in [Positions -> Nat]
  BY Ends DEF Init, Super, Zeros
<1>3. Typing
  <2>1. dropped \in BOOLEAN
    BY Zenon DEF Init
  <2>2. /\ next \in Nat \ {0} /\ pending \in Nat /\ pending < next
        /\ committed \in Nat /\ committed < next /\ fails \in Nat
        /\ settled \in Nat /\ settled < next
        /\ pc \in {"down", "idle", "pack", "start", "sync"}
    BY DEF Init
  <2> QED BY <1>1, <1>2, <2>1, <2>2 DEF Typing
<1>4. StuckOnlyAfterFailure
  BY DEF Init, Fresh, StuckOnlyAfterFailure
<1> QED BY <1>3, <1>4 DEF Init, IInv, Due, Holds

(* When the superblock is written back, the device holds what it held.     *)
LEMMA SettleHolds ==
  ASSUME Due(sb), Holds(dsb, settled),
         (dsb' = dsb /\ settled' = settled) \/ (dsb' = sb /\ Settle)
  PROVE  Holds(sb, settled') /\ Holds(dsb', settled')
BY DEF Due, Settle

(* The steps that add a record and leave the rest to what Grown says.      *)
LEMMA GrownInv ==
  ASSUME IInv, pc # "down", Grown,
         pc' \in {"idle", "pack", "start", "sync"},
         (dsb' = dsb /\ settled' = settled) \/ (dsb' = sb /\ Settle),
         committed' = committed, cut' = cut, pending' \in {pending, next}
  PROVE  IInv'
<1>1. /\ pending \in Nat /\ pending < next /\ committed \in Nat /\ committed < next
      /\ settled \in Nat /\ settled < next
      /\ next \in Nat \ {0} /\ Super(sb) /\ Super(dsb)
  BY DEF IInv, Typing
<1>a. settled' \in {settled, committed} /\ settled' \in 0 .. next - 1 /\ committed \in 0 .. next - 1
  BY <1>1 DEF Settle
<1>2. next' \in Nat \ {0} /\ pending' \in Nat /\ pending' < next' /\ committed < next'
      /\ pending' <= next /\ committed <= next
      /\ settled' \in Nat /\ settled' < next' /\ settled' <= next
  BY <1>1, <1>a DEF Grown
<1>3. Super(dsb')
  BY <1>1
<1>4. Typing'
  <2>1. Region(j') /\ Super(sb') /\ added' \in [Positions -> Nat] /\ fails' \in Nat /\ dropped' \in BOOLEAN
    BY DEF Grown
  <2>2. Region(j)' /\ Super(sb)' /\ Super(dsb)'
    BY <1>3, <2>1 DEF Region, Super
  <2> QED BY <1>1, <1>2, <2>1, <2>2 DEF Typing
<1>5. StuckOnlyAfterFailure'
  BY DEF Grown, StuckOnlyAfterFailure
<1>6. Flushed'
  <2>1. added'[Prev(j'.end)] = next
    BY DEF Grown
  <2> QED BY <1>2, <2>1 DEF Flushed, Prev
<1>7. InUse(j') => InUse(j)'
  BY DEF InUse, Prev
<1>8. Tail(j') => Tail(j)'
  BY DEF Tail, Halted
<1>9. ASSUME ~dropped'
      PROVE  Due(sb)' /\ Holds(dsb, settled)'
  <2>1. ~dropped /\ Due(sb) /\ Holds(dsb, settled)
    BY <1>9 DEF IInv, Grown
  <2>2. Holds(sb, settled') /\ Holds(dsb', settled')
    BY <2>1, SettleHolds DEF Due
  <2>3. Holds(sb', settled') /\ (~cut => Holds(sb', committed))
    BY <1>a, <2>1, <2>2 DEF Grown, Due
  <2> QED BY <2>2, <2>3 DEF Due, Holds, Prev
<1>10. pc' # "down"
  OBVIOUS
<1>11. /\ j'.start # j'.end
       /\ j'.status = "ready" => InUse(j)'
       /\ j'.status = "ready" /\ ~dropped' => Tail(j)' /\ Behind' /\ Clean'
  BY <1>7, <1>8 DEF Grown
<1>12. ~dropped' => Due(IF pc = "down" THEN dsb ELSE sb)' /\ Holds(dsb, settled)'
  BY <1>9, <1>10 DEF Due, Holds
<1> QED BY <1>4, <1>5, <1>6, <1>11, <1>12 DEF IInv

LEMMA LogInv == ASSUME IInv, Log, ~misled' PROVE IInv'
<1>1. Grown
  BY AddGrows DEF Log, Ready
<1> QED BY <1>1, GrownInv DEF Log, Ready, flushed

LEMMA FlushCommitInv == ASSUME IInv, FlushCommit, ~misled' PROVE IInv'
<1>1. Grown
  BY AddGrows DEF FlushCommit, Ready
<1> QED BY <1>1, GrownInv DEF FlushCommit, Ready

(* The steps that change neither the region nor the records.               *)
LEMMA QuietInv ==
  ASSUME IInv, UNCHANGED <<j, sb, added, next, pending, committed, cut, dropped>>,
         fails' \in {fails, fails + 1},
         (dsb' = dsb /\ settled' = settled) \/ (dsb' = sb /\ Settle),
         pc # "down", pc' # "down",
         pc' = pc \/ (pc \in {"pack", "start"} /\ pc' = "sync")
  PROVE  IInv'
<1>1. Typing
  BY DEF IInv
<1>2. fails \in Nat /\ fails' \in Nat /\ fails' >= fails
  BY <1>1 DEF Typing
<1>a. settled' \in {settled, committed} /\ (settled' # settled => settled' = committed /\ ~cut)
  BY DEF Settle
<1>3. Typing'
  BY <1>1, <1>2, <1>a DEF Typing, Region, Super
<1>4. StuckOnlyAfterFailure'
  BY <1>2 DEF IInv, StuckOnlyAfterFailure
<1>5. Flushed'
  BY <1>a DEF IInv, Flushed, Prev
<1>6. /\ j'.start # j'.end
      /\ j'.status = "ready" => InUse(j)'
  BY DEF IInv, InUse, Prev
<1>7. j'.status = "ready" /\ ~dropped' => Tail(j)' /\ Behind' /\ Clean'
  BY <1>2 DEF IInv, Tail, Halted, Behind, Clean
<1>8. ASSUME ~dropped'
      PROVE  Due(IF pc = "down" THEN dsb ELSE sb)' /\ Holds(dsb, settled)'
  <2>1. Due(sb) /\ Holds(dsb, settled)
    BY <1>8 DEF IInv
  <2>2. Holds(sb, settled') /\ Holds(dsb', settled')
    BY <2>1, SettleHolds
  <2> QED BY <2>1, <2>2 DEF Due, Holds, Prev
<1> QED BY <1>3, <1>4, <1>5, <1>6, <1>7, <1>8 DEF IInv

LEMMA WriteBackInv == ASSUME IInv, WriteBack PROVE IInv'
BY QuietInv DEF WriteBack

LEMMA FlushPackInv == ASSUME IInv, FlushPack, ~misled' PROVE IInv'
<1>1. CASE AddRecord /\ pc' = "start"
  <2>1. Grown
    BY <1>1, AddGrows DEF FlushPack, Ready
  <2> QED BY <1>1, <2>1, GrownInv DEF FlushPack, Ready, flushed
<1>2. CASE fails' = fails + 1 /\ pc' = "sync" /\ UNCHANGED <<j, disk, sb, added, next, dropped>>
  BY <1>2, QuietInv DEF FlushPack, Ready, flushed
<1> QED BY <1>1, <1>2 DEF FlushPack

LEMMA FlushStartInv == ASSUME IInv, FlushStart PROVE IInv'
<1>1. Region(j) /\ Typing
  BY DEF IInv, Typing
<1>2. /\ pc = "start" /\ pc' = "sync" /\ j.status = "ready"
      /\ j' = [j EXCEPT !.start = Prev(j.end)]
      /\ UNCHANGED <<sb, dsb, added, next, pending, committed, cut, settled, dropped, fails>>
  BY DEF FlushStart, Ready, Prev, flushed
<1>3. Prev(j.end) \in Positions /\ Prev(j.end) # j.end
  BY <1>1, Before DEF Region
<1>4. /\ j'.start = Prev(j.end) /\ j'.end = j.end /\ j'.lastSync = j.lastSync
      /\ j'.segno = j.segno /\ j'.status = j.status /\ Region(j')
  BY <1>1, <1>2, <1>3 DEF Region
<1>5. Typing'
  BY <1>1, <1>2, <1>4 DEF Typing, Region, Super
<1>6. StuckOnlyAfterFailure'
  BY <1>2, <1>4 DEF IInv, StuckOnlyAfterFailure
<1>7. Flushed'
  BY <1>2, <1>4 DEF IInv, Flushed, Prev
<1>8. j'.start # j'.end /\ InUse(j)'
  BY <1>2, <1>3, <1>4 DEF IInv, InUse, Prev
<1>9. ~dropped' => Tail(j)' /\ Behind' /\ Clean'
  BY <1>2, <1>4 DEF IInv, Tail, Halted, Behind, Clean
<1>10. ~dropped' => Due(IF pc = "down" THEN dsb ELSE sb)' /\ Holds(dsb, settled)'
  BY <1>2 DEF IInv, Due, Holds, Prev
<1> QED BY <1>5, <1>6, <1>7, <1>8, <1>9, <1>10 DEF IInv

LEMMA CrashInv == ASSUME IInv, Crash PROVE IInv'
<1>1. Typing
  BY DEF IInv
<1>2. /\ pc' = "down" /\ j' = Fresh /\ pending' = 0 /\ committed' = 0
      /\ UNCHANGED <<sb, dsb, added, next, settled, dropped, fails>>
  BY DEF Crash
<1>3. Region(j)' /\ j'.status = "ready"
  BY <1>2, Ends DEF Region, Fresh
<1>4. Typing'
  <2>1. 0 < next
    BY <1>1 DEF Typing
  <2> QED BY <1>1, <1>2, <1>3, <2>1 DEF Typing, Super
<1>5. StuckOnlyAfterFailure'
  BY <1>2, <1>3 DEF IInv, StuckOnlyAfterFailure
<1>6. ~dropped' => Due(IF pc = "down" THEN dsb ELSE sb)' /\ Holds(dsb, settled)'
  BY <1>2 DEF IInv, Due, Holds, Prev
<1> QED BY <1>2, <1>4, <1>5, <1>6 DEF IInv

(* What a sync of the region itself leaves, for flush and shutdown.        *)
LEMMA SyncRegion ==
  ASSUME IInv, pc # "down", j.status = "ready", Sync(j), ~misled',
         UNCHANGED <<added, next, dropped>>
  PROVE  /\ Kept(j) /\ Region(j') /\ Super(sb') /\ fails' \in Nat /\ fails' >= fails
         /\ j'.start # j'.end /\ j'.end = j.end /\ InUse(j')
         /\ StuckOnlyAfterFailure'
         /\ ~dropped => j'.status # "stuck"
         /\ ~dropped /\ j'.status = "ready" => Tail(j') /\ Behind' /\ Clean'
         /\ \A c \in Nat : Holds(sb, c) /\ c <= added[Prev(j.end)] => Holds(sb', c)
<1>1. Region(j) /\ Super(sb) /\ added \in [Positions -> Nat] /\ fails \in Nat /\ dropped \in BOOLEAN
  BY DEF IInv, Typing
<1>2. InUse(j) /\ j.start # j.end /\ (~dropped => Tail(j) /\ Behind /\ Clean)
  BY DEF IInv
<1>a. Synced(j)
  BY <1>1, SyncFollows
<1>3. Kept(j)
  BY <1>1, <1>a, SyncKeeps
<1>4. Region(j') /\ j'.start # j'.end /\ j'.end = j.end /\ InUse(j')
  BY <1>2, <1>3 DEF Kept, InUse
<1>5. fails' \in Nat /\ fails' >= fails
  BY <1>1, <1>3 DEF Kept
<1>6. Super(sb')
  BY <1>1, <1>2, <1>3 DEF Kept, Super, Region
<1>7. ASSUME ~dropped
      PROVE  j'.status = "ready" /\ Outcome(j)
  BY <1>1, <1>2, <1>7, <1>a, SyncOutcome
<1>8. ASSUME ~dropped, j'.status = "ready"
      PROVE  Tail(j') /\ Behind' /\ Clean'
  <2>1. CASE j'.lastSync = j.end /\ sb' = [start |-> j.start, end |-> j.end, ids |-> added']
    BY <1>2, <1>3, <2>1 DEF Kept, Tail, Behind, Clean
  <2>2. CASE j' = j /\ sb' = sb /\ fails' = fails
    BY <1>2, <1>8, <2>2 DEF Tail, Halted, Behind, Clean
  <2>3. CASE Halted(j, j'.lastSync) /\ fails' = fails + 1
    <3>1. Halted(j', j'.lastSync)
      BY <1>3, <2>3 DEF Kept, Halted
    <3>2. j'.lastSync # j'.end
      BY <3>1 DEF Halted
    <3> QED BY <1>1, <2>3, <3>1, <3>2 DEF Tail, Behind, Clean
  <2> QED BY <1>7, <1>8, <2>1, <2>2, <2>3 DEF Outcome
<1>9. StuckOnlyAfterFailure'
  <2>1. dropped => fails > 0
    BY DEF IInv, StuckOnlyAfterFailure
  <2>2. dropped' => fails' > 0
    BY <1>1, <1>5, <2>1
  <2>3. j'.status = "stuck" => dropped'
    BY <1>7
  <2> QED BY <2>2, <2>3 DEF StuckOnlyAfterFailure
<1>10. ASSUME NEW c \in Nat, Holds(sb, c), c <= added[Prev(j.end)]
       PROVE  Holds(sb', c)
  <2>1. CASE sb' = sb
    BY <1>10, <2>1
  <2>2. CASE sb' = [start |-> j.start, end |-> j.end, ids |-> added']
    <3>1. sb'.end = j.end /\ sb'.ids = added /\ sb'.start # sb'.end
      BY <1>2, <2>2
    <3> QED BY <1>10, <3>1 DEF Holds
  <2> QED BY <1>3, <2>1, <2>2 DEF Kept
<1> QED BY <1>3, <1>4, <1>5, <1>6, <1>7, <1>8, <1>9, <1>10

LEMMA FlushSyncInv == ASSUME IInv, FlushSync, ~misled' PROVE IInv'
<1>1. /\ pc = "sync" /\ j.status = "ready" /\ Sync(j)
      /\ UNCHANGED <<dsb, added, next, pending, settled, dropped>>
      /\ IF j'.status = "ready"
         THEN pc' = "idle" /\ committed' = pending /\ cut' = (j'.lastSync # j'.end)
         ELSE UNCHANGED <<pc, committed, cut>>
  BY DEF FlushSync, Ready
<1>2. /\ Kept(j) /\ Region(j') /\ Super(sb') /\ fails' \in Nat
      /\ j'.start # j'.end /\ j'.end = j.end /\ InUse(j')
      /\ StuckOnlyAfterFailure'
      /\ ~dropped => j'.status # "stuck"
      /\ ~dropped /\ j'.status = "ready" => Tail(j') /\ Behind' /\ Clean'
      /\ \A c \in Nat : Holds(sb, c) /\ c <= added[Prev(j.end)] => Holds(sb', c)
  BY <1>1, SyncRegion
<1>3. Typing /\ Flushed
  BY <1>1 DEF IInv
<1>4. Typing'
  <2>1. pc' \in {"sync", "idle"} /\ committed' \in {committed, pending}
    BY <1>1
  <2> QED BY <1>1, <1>2, <1>3, <2>1 DEF Typing, Region, Super
<1> DEFINE top == added[Prev(j.end)]
<1>5. pending <= top /\ (~dropped => settled <= top /\ (~cut => committed <= top))
  BY <1>1, <1>3 DEF Flushed
<1>6. Flushed'
  <2>1. added'[Prev(j'.end)] = top
    BY <1>1, <1>2
  <2>2. CASE j'.status = "ready"
    BY <1>1, <1>5, <2>1, <2>2 DEF Flushed, Prev
  <2>3. CASE j'.status # "ready"
    BY <1>1, <1>5, <2>1, <2>3 DEF Flushed, Prev
  <2> QED BY <2>2, <2>3
<1>7. ASSUME ~dropped
      PROVE  Holds(sb', settled) /\ (~cut' => Holds(sb', committed'))
  <2>1. Holds(sb, settled) /\ (~cut => Holds(sb, committed)) /\ settled \in Nat /\ committed \in Nat
    BY <1>1, <1>3, <1>7 DEF IInv, Due, Typing
  <2>2. Holds(sb', settled) /\ (~cut => Holds(sb', committed))
    BY <1>2, <1>5, <1>7, <2>1
  <2>3. CASE j'.status = "ready" /\ j'.lastSync = j'.end
    <3>1. Clean'
      BY <1>2, <1>7, <2>3
    <3>2. sb'.end = j.end /\ sb'.ids = added /\ sb'.start # sb'.end
      BY <1>1, <1>2, <2>3, <3>1 DEF Clean
    <3> QED BY <1>1, <1>5, <2>2, <2>3, <3>2 DEF Holds
  <2>4. CASE j'.status = "ready" /\ j'.lastSync # j'.end
    BY <1>1, <2>2, <2>4
  <2>5. CASE j'.status # "ready"
    BY <1>1, <2>2, <2>5
  <2> QED BY <2>3, <2>4, <2>5
<1>8. ASSUME ~dropped'
      PROVE  Due(IF pc = "down" THEN dsb ELSE sb)' /\ Holds(dsb, settled)'
  <2>1. pc' # "down"
    BY <1>1
  <2>2. Holds(dsb, settled)
    BY <1>1, <1>8 DEF IInv
  <2> QED BY <1>1, <1>7, <1>8, <2>1, <2>2 DEF Due, Holds, Prev
<1>9. j'.status = "ready" => InUse(j)'
  BY <1>2 DEF InUse, Prev
<1>10. j'.status = "ready" /\ ~dropped' => Tail(j)' /\ Behind' /\ Clean'
  BY <1>1, <1>2 DEF Tail, Halted
<1> QED BY <1>2, <1>4, <1>6, <1>8, <1>9, <1>10 DEF IInv

LEMMA DestroyInv == ASSUME IInv, Destroy, ~misled' PROVE IInv'
<1>1. /\ pc = "idle" /\ j.status = "ready" /\ Sync(j)
      /\ UNCHANGED <<added, next, pending, committed, cut, dropped>>
      /\ IF j'.status = "ready" THEN pc' = "down" /\ dsb' = sb' /\ Settle
         ELSE UNCHANGED <<pc, dsb, settled>>
  BY DEF Destroy, Ready
<1>2. /\ Kept(j) /\ Region(j') /\ Super(sb') /\ fails' \in Nat
      /\ j'.start # j'.end /\ j'.end = j.end /\ InUse(j')
      /\ StuckOnlyAfterFailure'
      /\ ~dropped /\ j'.status = "ready" => Tail(j') /\ Behind' /\ Clean'
      /\ \A c \in Nat : Holds(sb, c) /\ c <= added[Prev(j.end)] => Holds(sb', c)
  BY <1>1, SyncRegion
<1>3. Typing /\ Flushed
  BY <1>1 DEF IInv
<1>a. settled' \in {settled, committed} /\ (settled' # settled => settled' = committed /\ ~cut)
  BY <1>1 DEF Settle
<1>4. Typing'
  <2>1. pc' \in {"down", "idle"} /\ dsb' \in {dsb, sb'}
    BY <1>1
  <2>2. Super(dsb')
    BY <1>2, <1>3, <2>1 DEF Typing
  <2>3. Region(j)' /\ Super(sb)' /\ Super(dsb)'
    BY <1>2, <2>2 DEF Region, Super
  <2> QED BY <1>1, <1>2, <1>3, <1>a, <2>1, <2>3 DEF Typing
<1>5. ~dropped => /\ settled <= added[Prev(j.end)] /\ settled' <= added[Prev(j.end)]
                  /\ (~cut => committed <= added[Prev(j.end)])
  BY <1>3, <1>a DEF Flushed
<1>6. Flushed'
  BY <1>1, <1>2, <1>5 DEF Flushed, Prev
<1>7. ASSUME ~dropped
      PROVE  /\ Holds(sb', settled') /\ Holds(dsb', settled')
             /\ ~cut => Holds(sb', committed)
  <2>1. /\ Holds(sb, settled) /\ (~cut => Holds(sb, committed)) /\ Holds(dsb, settled)
        /\ settled \in Nat /\ committed \in Nat
    BY <1>1, <1>3, <1>7 DEF IInv, Due, Typing
  <2>2. Holds(sb', settled) /\ (~cut => Holds(sb', committed))
    BY <1>2, <1>5, <1>7, <2>1
  <2>3. Holds(sb', settled')
    BY <1>a, <2>2
  <2> QED BY <1>1, <2>1, <2>2, <2>3
<1>8. ASSUME ~dropped'
      PROVE  Due(IF pc = "down" THEN dsb ELSE sb)' /\ Holds(dsb, settled)'
  <2>1. (IF pc = "down" THEN dsb ELSE sb)' = sb'
    BY <1>1
  <2> QED BY <1>1, <1>7, <1>8, <2>1 DEF Due, Holds, Prev
<1>9. j'.status = "ready" => InUse(j)'
  BY <1>2 DEF InUse, Prev
<1>10. j'.status = "ready" /\ ~dropped' => Tail(j)' /\ Behind' /\ Clean'
  BY <1>1, <1>2 DEF Tail, Halted
<1> QED BY <1>2, <1>4, <1>6, <1>8, <1>9, <1>10 DEF IInv

LEMMA FreshFields == Region(Fresh) /\ Fresh.status = "ready"
BY Ends DEF Region, Fresh

LEMMA OpenEmptyInv == ASSUME IInv, OpenEmpty PROVE IInv'
<1> DEFINE r == [Fresh EXCEPT !.start = dsb.start, !.end = dsb.end, !.segno = SegOf(dsb.start)]
           t == Store(r, next)
<1>1. /\ pc = "down" /\ dsb.start = dsb.end /\ pc' = "idle" /\ sb' = dsb /\ dsb' = dsb
      /\ j' = [t EXCEPT !.lastSync = r.start]
      /\ added' = [dsb.ids EXCEPT ![dsb.end] = next] /\ next' = next + 1
      /\ UNCHANGED <<pending, committed, cut, settled, dropped, fails>>
  BY DEF OpenEmpty, flushed
<1>2. Typing
  BY DEF IInv
<1>3. Super(dsb) /\ dsb.start = 0 /\ dsb.end = 0 /\ dsb.ids \in [Positions -> Nat]
  BY <1>1, <1>2 DEF Typing, Super
<1>4. /\ Region(r) /\ r.start = 0 /\ r.end = 0 /\ r.status = "ready"
  <2>1. r = [Fresh EXCEPT !.start = dsb.start, !.end = dsb.end, !.segno = SegOf(dsb.start)]
    OBVIOUS
  <2>2. dsb.start \in Positions /\ dsb.end \in Positions
    BY <1>3 DEF Super
  <2> HIDE DEF r
  <2> QED BY <1>3, <2>1, <2>2, FreshFields DEF Region
<1> HIDE DEF r
<1>5. /\ Region(t) /\ t.end = (0 + 1) % MaxRecords /\ t.start # t.end
      /\ t.status = "ready" /\ t.segno = SegOf(0)
  BY <1>4, StoreFields
<1>6. t.end = 1 /\ Prev(1) = 0 /\ 1 \in Positions
  <2>1. t.end = 1
    BY <1>5, Sizes
  <2> QED BY <2>1, <1>5, Ends, Advance
<1>7. SegOf(1) = 0 /\ SegOf(0) = 0 /\ 0 \in Positions
  <2>1. SegOf(1) = 0
    BY Sizes DEF SegOf
  <2> QED BY <2>1, Ends
<1> HIDE DEF t
<1>8. /\ Region(j') /\ j'.start # j'.end /\ j'.end = 1 /\ j'.segno = 0
      /\ j'.status = "ready" /\ j'.lastSync = 0
  BY <1>1, <1>4, <1>5, <1>6, <1>7 DEF Region
<1>9. added' \in [Positions -> Nat] /\ added'[0] = next
  BY <1>1, <1>2, <1>3, <1>7 DEF Typing
<1>10. next' \in Nat \ {0} /\ pending < next' /\ committed < next' /\ committed <= next
       /\ settled < next' /\ settled <= next
  BY <1>1, <1>2 DEF Typing
<1>11. Typing'
  BY <1>1, <1>2, <1>8, <1>9, <1>10 DEF Typing, Region, Super
<1>12. StuckOnlyAfterFailure'
  BY <1>1, <1>8 DEF IInv, StuckOnlyAfterFailure
<1>13. Flushed'
  <2>1. added'[Prev(j'.end)] = next
    BY <1>6, <1>8, <1>9
  <2> QED BY <1>1, <1>10, <2>1 DEF Flushed, Prev
<1>14. InUse(j)'
  BY <1>6, <1>7, <1>8 DEF InUse, Prev
<1>15. Tail(j)' /\ Behind' /\ Clean'
  BY <1>6, <1>7, <1>8 DEF Tail, Halted, Behind, Clean
<1>16. ~dropped' => Due(IF pc = "down" THEN dsb ELSE sb)' /\ Holds(dsb, settled)'
  BY <1>1 DEF IInv, Due, Holds, Prev
<1> QED BY <1>8, <1>11, <1>12, <1>13, <1>14, <1>15, <1>16 DEF IInv

LEMMA OpenLoadInv == ASSUME IInv, OpenLoad PROVE IInv'
<1> DEFINE q == [Fresh EXCEPT !.start = dsb.start, !.end = dsb.end]
           r == Load(q, dsb.start, dsb.end)
           one == r.end = (r.start + 1) % MaxRecords
<1>1. /\ pc = "down" /\ dsb.start # dsb.end /\ pc' = "idle" /\ sb' = dsb /\ dsb' = dsb
      /\ j' = IF one THEN [r EXCEPT !.lastSync = r.end] ELSE Recover(r)
      /\ added' = dsb.ids
      /\ UNCHANGED <<next, pending, committed, cut, settled, dropped, fails>>
  BY DEF OpenLoad, flushed
<1>2. Typing
  BY DEF IInv
<1>3. /\ dsb.start \in Positions /\ dsb.end \in Positions /\ dsb.ids \in [Positions -> Nat]
      /\ Super(dsb)
  BY <1>2 DEF Typing, Super
<1>4. /\ Region(q) /\ q.start = dsb.start /\ q.end = dsb.end /\ q.status = "ready"
  <2>1. q = [Fresh EXCEPT !.start = dsb.start, !.end = dsb.end]
    OBVIOUS
  <2> HIDE DEF q
  <2> QED BY <1>3, <2>1, FreshFields DEF Region
<1> HIDE DEF q
<1>5. /\ Region(r) /\ r.start = dsb.start /\ r.end = dsb.end /\ r.status = "ready"
      /\ r.segno = SegOf(dsb.start)
  BY <1>4, LoadFields
<1> HIDE DEF r
<1>6. /\ Region(j') /\ j'.start = dsb.start /\ j'.end = dsb.end /\ j'.status = "ready"
      /\ j'.lastSync = dsb.end /\ j'.segno = SegOf(Prev(dsb.end))
  <2>1. CASE one
    <3>1. Prev(dsb.end) = dsb.start
      BY <1>3, <1>5, <2>1, Advance
    <3>2. j' = [r EXCEPT !.lastSync = r.end]
      BY <1>1, <2>1
    <3> QED BY <1>3, <1>5, <3>1, <3>2 DEF Region
  <2>2. CASE ~one
    <3>1. j' = Recover(r)
      BY <1>1, <2>2
    <3>2. /\ Region(j') /\ j'.segno = SegOf(Prev(r.end))
          /\ j'.start = r.start /\ j'.end = r.end
          /\ j'.lastSync = r.end /\ j'.status = r.status
      BY <1>5, <3>1, RecoverFields
    <3> QED BY <1>5, <3>2
  <2> QED BY <2>1, <2>2
<1>7. Typing'
  BY <1>1, <1>2, <1>3, <1>6 DEF Typing, Region, Super
<1>8. StuckOnlyAfterFailure'
  BY <1>1, <1>6 DEF IInv, StuckOnlyAfterFailure
<1>9. ~dropped => Holds(dsb, settled) /\ (~cut => Holds(dsb, committed))
  BY <1>1 DEF IInv, Due
<1>10. Flushed'
  <2>1. dsb.ids[Prev(dsb.end)] \in Nat
    BY <1>3, Before
  <2>2. ~dropped => /\ settled <= dsb.ids[Prev(dsb.end)]
                    /\ ~cut => committed <= dsb.ids[Prev(dsb.end)]
    BY <1>2, <1>9, <2>1 DEF Holds, Typing
  <2> QED BY <1>1, <1>6, <2>2 DEF Flushed, Prev
<1>11. j'.start # j'.end /\ InUse(j)'
  BY <1>1, <1>6 DEF InUse, Prev
<1>12. Tail(j)' /\ Behind' /\ Clean'
  BY <1>1, <1>6 DEF Tail, Behind, Clean
<1>13. ~dropped' => Due(IF pc = "down" THEN dsb ELSE sb)' /\ Holds(dsb, settled)'
  BY <1>1, <1>9 DEF Due, Holds, Prev
<1> QED BY <1>7, <1>8, <1>10, <1>11, <1>12, <1>13 DEF IInv

LEMMA StutterInv == ASSUME IInv, UNCHANGED vars PROVE IInv'
BY DEF vars, IInv, Typing, Region, Super, StuckOnlyAfterFailure, Flushed, InUse, Tail, Halted,
       Behind, Clean, Due, Holds, Prev, flushed

LEMMA MisledStays == ASSUME misled, [Next]_vars PROVE misled'
<1>1. \A r : Sync(r) => misled'
  BY DEF Sync
<1>2. AddRecord => misled'
  BY <1>1 DEF AddRecord
<1> QED BY <1>1, <1>2 DEF Next, vars, OpenEmpty, OpenLoad, Log, WriteBack, FlushCommit, FlushPack,
          FlushStart, FlushSync, Destroy, Crash

(* The inductive invariant holds until a sync is misled.                   *)
THEOREM JournalInvariant == Spec => [](misled \/ IInv)
<1>1. Init => IInv
  BY InitInv
<1>2. IInv /\ ~misled' /\ [Next]_vars => IInv'
  BY OpenEmptyInv, OpenLoadInv, LogInv, WriteBackInv, FlushCommitInv, FlushPackInv,
     FlushStartInv, FlushSyncInv, DestroyInv, CrashInv, StutterInv DEF Next
<1>3. misled /\ [Next]_vars => misled'
  BY MisledStays
<1> QED BY <1>1, <1>2, <1>3, PTL DEF Spec

-----------------------------------------------------------------------------
(* The results.                                                            *)

(* journal_synchronize waits for the mutex that it holds only if it went by*)
(* a last_sync_record that nobody has set, or after the buffer was given to*)
(* another segment with records unwritten, and that only after an          *)
(* allocation failed: for every geometry of the ring.                      *)
THEOREM StuckAstray == Spec => []StuckOnlyAstray
<1>1. misled \/ IInv => StuckOnlyAstray
  BY DEF IInv, StuckOnlyAfterFailure, StuckOnlyAstray, Astray
<1> QED BY <1>1, JournalInvariant, PTL

(* The last record before the end of a window that is not empty is in it.  *)
LEMMA LastInWindow ==
  ASSUME NEW s \in Positions, NEW e \in Positions, s # e
  PROVE  Prev(e) \in Window(s, e)
<1>1. Prev(e) \in Positions /\ (e > 0 => Prev(e) = e - 1) /\ s \in Nat /\ e \in Nat
  BY Before, Sizes
<1>2. CASE s <= e
  <2>1. Prev(e) = e - 1
    BY <1>1, <1>2
  <2> QED BY <1>1, <1>2, <2>1 DEF Window
<1>3. CASE ~(s <= e)
  <2>1. Prev(e) \notin e .. s - 1
    <3>1. CASE e > 0
      BY <1>1, <3>1
    <3>2. CASE e = 0
      <4>1. Prev(e) = MaxRecords - 1
        BY <3>2, Sizes DEF Prev
      <4>2. s - 1 < MaxRecords - 1
        BY Sizes DEF Positions
      <4> QED BY <1>1, <4>1, <4>2, Sizes
    <3> QED BY <1>1, <3>1, <3>2
  <2> QED BY <1>1, <1>3, <2>1 DEF Window
<1> QED BY <1>2, <1>3

(* The DATA_COMMIT of a flush whose sync was complete, or a later record,  *)
(* is in the window of the superblock in dm-bufio until the power fails and,*)
(* once that superblock is written back, in the window on the device       *)
(* through every crash and reload, however many syncs failed, unless the   *)
(* journal went astray: for every geometry of the ring.                    *)
THEOREM CommitKept == Spec => []CommitKeptUnlessAstray
<1>1. ASSUME NEW x, Super(x), NEW c \in Nat, c # 0, Holds(x, c)
      PROVE  \E p \in Window(x.start, x.end) : x.ids[p] >= c
  <2>1. x.start # x.end /\ c <= x.ids[Prev(x.end)]
    BY <1>1 DEF Holds
  <2>2. x.start \in Positions /\ x.end \in Positions /\ x.ids \in [Positions -> Nat]
    BY <1>1 DEF Super
  <2>3. Prev(x.end) \in Window(x.start, x.end) /\ Prev(x.end) \in Positions
    BY <2>1, <2>2, LastInWindow, Before
  <2> QED BY <2>1, <2>2, <2>3
<1>2. IInv => CommitKeptUnlessAstray
  <2> SUFFICES ASSUME IInv, ~dropped
               PROVE  /\ pc # "down" /\ committed # 0 /\ ~cut =>
                           \E p \in Window(sb.start, sb.end) : sb.ids[p] >= committed
                      /\ settled # 0 => \E p \in Window(dsb.start, dsb.end) : dsb.ids[p] >= settled
    BY DEF CommitKeptUnlessAstray, Astray
  <2>1. Super(sb) /\ Super(dsb) /\ committed \in Nat /\ settled \in Nat
    BY DEF IInv, Typing
  <2>2. /\ pc # "down" /\ ~cut => Holds(sb, committed)
        /\ Holds(dsb, settled)
    BY DEF IInv, Due
  <2> QED BY <1>1, <2>1, <2>2
<1>3. misled => CommitKeptUnlessAstray
  BY DEF CommitKeptUnlessAstray, Astray
<1> QED BY <1>2, <1>3, JournalInvariant, PTL

-----------------------------------------------------------------------------
(* What the buffer and the device hold.                                    *)

(* How far p is from e around the ring: the oldest record is at e.         *)
Dist(e, p) == IF p >= e THEN p - e ELSE p - e + MaxRecords

(* The window of a superblock, and the block of its end up to there: what  *)
(* a reload reads before it goes on writing.                               *)
Wide(x) ==
  Window(x.start, x.end) \cup {p \in Positions : BlockOf(p) = BlockOf(x.end) /\ p < x.end}

Ordered(ids, e) == \A p, q \in Positions : Dist(e, p) <= Dist(e, q) => ids[p] <= ids[q]

(* A superblock lists records that were added, in their order.             *)
Sound(x, n) ==
  /\ x.ids \in [Positions -> 0 .. n - 1]
  /\ x.start = x.end => x.ids = Zeros
  /\ Ordered(x.ids, x.end)
  /\ \A p \in Window(x.start, x.end) : x.ids[p] # 0

OnDisk(x, dk) == \A p \in Wide(x) : dk[p] >= x.ids[p]

(* The latest record of a superblock.                                      *)
Top(x) == x.ids[Prev(x.end)]

(* Writing any block of the buffer takes nothing from superblock x: where  *)
(* x has a record the buffer has that one or a later one, and where records*)
(* were added since x the buffer has one later than all of x.              *)
Buffered(r, x) ==
  \A p \in Positions : SegOf(p) = r.segno =>
    /\ p \in Wide(x) => r.buf[Place(p)] >= x.ids[p]
    /\ p \in Window(x.end, r.end) => r.buf[Place(p)] >= Top(x)

(* The superblock that a sync would write.                                 *)
Current(r, ad) == [start |-> r.start, end |-> r.end, ids |-> ad]

(* Before record_end in the segment in the buffer, with last_sync_record in*)
(* that segment.                                                           *)
Until(r, p) ==
  /\ SegOf(p) = r.segno /\ SegOf(r.lastSync) = r.segno
  /\ SegOf(r.end) = r.segno => p < r.end

(* The unwritten tail, from the start of its first block, is in the buffer.*)
TailHeld(r, ad, dk) ==
  \A p \in Positions : Until(r, p) /\ BlockOf(p) >= BlockOf(r.lastSync) =>
    \/ r.buf[Place(p)] = ad[p]
    \/ r.buf[Place(p)] = dk[p] /\ dk[p] > ad[p]

(* The rest of the window is on the device.                                *)
RestWritten(r, ad, dk) ==
  \A p \in Wide(Current(r, ad)) : (Until(r, p) /\ p >= r.lastSync) \/ dk[p] >= ad[p]

BufferTyped(r) == r.buf \in [0 .. RecordsPerSegment - 1 -> Nat]

Content(r, ad, dk, n) ==
  /\ BufferTyped(r)
  /\ Sound(Current(r, ad), n)
  /\ Buffered(r, Current(r, ad))
  /\ TailHeld(r, ad, dk) /\ RestWritten(r, ad, dk)

(* The inductive invariant.                                                *)
CInv ==
  ~dropped =>
    /\ disk \in [Positions -> Nat]
    /\ Sound(dsb, next) /\ OnDisk(dsb, disk)
    /\ pc # "down" => Sound(sb, next) /\ OnDisk(sb, disk)
    /\ pc # "down" /\ j.status = "ready" =>
         Content(j, added, disk, next) /\ Buffered(j, dsb) /\ Buffered(j, sb)

-----------------------------------------------------------------------------
(* Distances around the ring.                                              *)

LEMMA TwoSegments == 2 * RecordsPerSegment <= MaxRecords
<1> DEFINE R == RecordsPerSegment
           k == NrJournalSegment
<1>1. R \in Nat /\ k \in Nat /\ 2 <= k /\ MaxRecords = R * k
  BY Sizes DEF MaxRecords
<1> HIDE DEF R, k
<1>2. 2 * R <= k * R
  BY <1>1, MulMono
<1>3. k * R = R * k
  BY <1>1, MulComm
<1>4. 2 * R <= MaxRecords
  BY <1>1, <1>2, <1>3
<1> QED BY <1>4 DEF R

LEMMA DistRange ==
  ASSUME NEW e \in Positions, NEW p \in Positions
  PROVE  Dist(e, p) \in Nat /\ Dist(e, p) < MaxRecords
BY Sizes DEF Dist, Positions

LEMMA WindowDist ==
  ASSUME NEW s \in Positions, NEW e \in Positions, NEW p
  PROVE  p \in Window(s, e) <=> p \in Positions /\ s # e /\ Dist(e, p) >= Dist(e, s)
BY Sizes DEF Dist, Positions, Window

LEMMA DistPrev ==
  ASSUME NEW e \in Positions
  PROVE  Dist(e, Prev(e)) = MaxRecords - 1
<1>1. Prev(e) \in Positions /\ (e > 0 => Prev(e) = e - 1)
  BY Before
<1>2. e = 0 => Prev(e) = MaxRecords - 1
  BY Sizes DEF Prev
<1> QED BY <1>1, <1>2, Sizes DEF Dist, Positions

LEMMA DistNext ==
  ASSUME NEW e \in Positions, NEW p \in Positions, NEW f, f = (e + 1) % MaxRecords
  PROVE  Dist(f, p) = IF p = e THEN MaxRecords - 1 ELSE Dist(e, p) - 1
<1>1. f \in Positions /\ (f = e + 1 \/ (f = 0 /\ e = MaxRecords - 1))
  BY Advance
<1> QED BY <1>1, Sizes DEF Dist, Positions

(* The record before the end is the latest.                                *)
LEMMA TopMost ==
  ASSUME NEW e \in Positions, NEW ids, Ordered(ids, e), NEW p \in Positions
  PROVE  ids[p] <= ids[Prev(e)]
<1>1. Prev(e) \in Positions /\ Dist(e, Prev(e)) = MaxRecords - 1
  BY Before, DistPrev
<1>2. Dist(e, p) <= MaxRecords - 1
  BY DistRange, Sizes
<1> QED BY <1>1, <1>2 DEF Ordered

LEMMA OrderedAdd ==
  ASSUME NEW e \in Positions, NEW n \in Nat, NEW ids \in [Positions -> 0 .. n - 1],
         Ordered(ids, e), NEW f, f = (e + 1) % MaxRecords,
         NEW new, new = [ids EXCEPT ![e] = n]
  PROVE  Ordered(new, f) /\ new \in [Positions -> 0 .. (n + 1) - 1]
<1>1. new \in [Positions -> 0 .. (n + 1) - 1]
  OBVIOUS
<1>2. ASSUME NEW p \in Positions, NEW q \in Positions, Dist(f, p) <= Dist(f, q)
      PROVE  new[p] <= new[q]
  <2>1. /\ Dist(f, p) = IF p = e THEN MaxRecords - 1 ELSE Dist(e, p) - 1
        /\ Dist(f, q) = IF q = e THEN MaxRecords - 1 ELSE Dist(e, q) - 1
    BY DistNext
  <2>2. Dist(e, p) \in Nat /\ Dist(e, q) \in Nat /\ Dist(e, p) < MaxRecords /\ Dist(e, q) < MaxRecords
    BY DistRange
  <2>3. CASE q = e
    BY <2>3
  <2>4. CASE q # e
    <3>1. p # e /\ Dist(e, p) <= Dist(e, q)
      BY <1>2, <2>1, <2>2, <2>4, Sizes
    <3>2. ids[p] <= ids[q]
      BY <3>1 DEF Ordered
    <3> QED BY <3>1, <3>2, <2>4
  <2> QED BY <2>3, <2>4
<1> QED BY <1>1, <1>2 DEF Ordered

(* Growing the window by one record.                                       *)
LEMMA WindowAdd ==
  ASSUME NEW s \in Positions, NEW e \in Positions, s # e, NEW f, f = (e + 1) % MaxRecords,
         NEW t, t = IF f = s THEN (s + 1) % MaxRecords ELSE s,
         NEW p \in Window(t, f), p # e
  PROVE  p \in Window(s, e)
<1>1. f \in Positions /\ f # e /\ (f = e + 1 \/ (f = 0 /\ e = MaxRecords - 1))
  BY Advance
<1>2. t \in Positions /\ (f = s => t = s + 1 \/ (t = 0 /\ s = MaxRecords - 1))
  BY Advance
<1>3. p \in Positions /\ t # f /\ Dist(f, p) >= Dist(f, t)
  BY <1>1, <1>2, WindowDist
<1>4. Dist(e, p) >= Dist(e, s)
  BY <1>1, <1>2, <1>3, Sizes, TwoSegments DEF Dist, Positions
<1> QED BY <1>3, <1>4, WindowDist

(* A window that begins elsewhere, at its end.                             *)
LEMMA WindowBefore ==
  ASSUME NEW x \in Positions, NEW e \in Positions, NEW f, f = (e + 1) % MaxRecords,
         NEW p \in Window(x, f), p # e
  PROVE  p \in Window(x, e)
<1>1. f \in Positions /\ f # e /\ (f = e + 1 \/ (f = 0 /\ e = MaxRecords - 1))
  BY Advance
<1>3. p \in Positions /\ x # f /\ Dist(f, p) >= Dist(f, x)
  BY <1>1, WindowDist
<1>4. x # e /\ Dist(e, p) >= Dist(e, x)
  BY <1>1, <1>3, Sizes DEF Dist, Positions
<1> QED BY <1>3, <1>4, WindowDist

-----------------------------------------------------------------------------
(* Places in the buffer.                                                   *)

LEMMA Places ==
  ASSUME NEW p \in Positions
  PROVE  /\ Place(p) \in 0 .. RecordsPerSegment - 1
         /\ p = SegOf(p) * RecordsPerSegment + Place(p)
<1>1. p \in Nat /\ RecordsPerSegment \in Nat \ {0}
  BY Sizes
<1>2. p % RecordsPerSegment \in 0 .. RecordsPerSegment - 1
  BY <1>1
<1>3. p = (p \div RecordsPerSegment) * RecordsPerSegment + (p % RecordsPerSegment)
  BY <1>1
<1> QED BY <1>2, <1>3 DEF Place, SegOf

LEMMA SamePlace ==
  ASSUME NEW p \in Positions, NEW q \in Positions, SegOf(p) = SegOf(q), Place(p) = Place(q)
  PROVE  p = q
BY Places

(* One segment back from p.                                                *)
Back(p) ==
  IF p >= RecordsPerSegment THEN p - RecordsPerSegment ELSE p - RecordsPerSegment + MaxRecords

SegBack(g) == (g + NrJournalSegment - 1) % NrJournalSegment

LEMMA Compose ==
  ASSUME NEW h \in Nat, NEW d \in Nat \ {0}, NEW c \in 0 .. d - 1, NEW q, q = h * d + c
  PROVE  q \in Nat /\ q \div d = h /\ q % d = c
<1>1. h * d \in Nat /\ (h + 1) * d = h * d + d
  OBVIOUS
<1> DEFINE u == h * d
<1>2. u \in Nat /\ q = u + c
  BY <1>1
<1>3. u <= q /\ q < u + d /\ q \in Nat
  <2> HIDE DEF u
  <2> QED BY <1>2
<1>4. q \div d = h
  BY <1>1, <1>3, DivUnique
<1>5. q = (q \div d) * d + (q % d) /\ q % d \in Nat
  BY <1>3
<1>6. q = u + (q % d)
  BY <1>4, <1>5
<1>7. q % d = c
  <2> DEFINE m == q % d
  <2> HIDE DEF u, m
  <2>1. m \in Nat /\ q = u + m
    BY <1>5, <1>6 DEF m
  <2>2. m = c
    BY <1>2, <2>1
  <2> QED BY <2>2 DEF m
<1> QED BY <1>3, <1>4, <1>7

LEMMA SegBackValue ==
  ASSUME NEW g \in 0 .. NrJournalSegment - 1
  PROVE  SegBack(g) = IF g = 0 THEN NrJournalSegment - 1 ELSE g - 1
<1> DEFINE k == NrJournalSegment
           x == g + k - 1
           d == g - 1
<1>1. k \in Nat \ {0, 1}
  BY Sizes
<1> HIDE DEF k
<1>2. CASE g = 0
  <2>1. (0 + k - 1) % k = k - 1
    BY <1>1
  <2> QED BY <1>2, <2>1 DEF SegBack, k
<1>3. CASE g # 0
  <2>1. d \in 0 .. k - 1 /\ x = 1 * k + d /\ k \in Nat \ {0} /\ 1 \in Nat
    BY <1>1, <1>3 DEF k
  <2> HIDE DEF d, x
  <2>2. x % k = d
    BY <2>1, Compose
  <2> QED BY <1>3, <2>2 DEF d, x, k, SegBack
<1> QED BY <1>2, <1>3

LEMMA BackSegment ==
  ASSUME NEW p \in Positions
  PROVE  /\ Back(p) \in Positions /\ Place(Back(p)) = Place(p)
         /\ SegOf(Back(p)) = SegBack(SegOf(p))
<1> DEFINE R == RecordsPerSegment
           k == NrJournalSegment
           g == SegOf(p)
           c == Place(p)
           h == IF g = 0 THEN k - 1 ELSE g - 1
           q == Back(p)
<1>1. p \in Nat /\ R \in Nat \ {0} /\ k \in Nat \ {0, 1} /\ MaxRecords = k * R
      /\ p < MaxRecords /\ MaxRecords \in Nat /\ R < MaxRecords
  <2>1. R * k = k * R
    BY Sizes, MulComm
  <2> QED BY <2>1, Sizes DEF MaxRecords, Positions
<1>2. g \in 0 .. k - 1 /\ c \in 0 .. R - 1 /\ p = g * R + c
  BY SegBounds, Places
<1>3. q \in Positions
  BY <1>1 DEF Back, Positions
<1>4. h \in Nat
  BY <1>1, <1>2
<1>5. q = h * R + c
  <2> HIDE DEF g, c, k, R
  <2>1. CASE g = 0
    <3>1. p = c
      BY <1>1, <1>2, <2>1
    <3>2. q = p - R + MaxRecords
      BY <1>1, <1>2, <3>1 DEF Back, R
    <3>3. (k - 1) * R = k * R - R
      BY <1>1
    <3> DEFINE u == k * R
    <3> HIDE DEF u
    <3>4. MaxRecords = u /\ (k - 1) * R = u - R
      BY <1>1, <3>3 DEF u
    <3>5. q = (u - R) + c
      BY <1>1, <1>2, <3>1, <3>2, <3>4
    <3> QED BY <2>1, <3>4, <3>5
  <2>2. CASE g # 0
    <3>1. (g - 1) * R = g * R - R /\ (g - 1) * R \in Nat /\ g * R \in Nat
      BY <1>1, <1>2, <2>2
    <3> DEFINE u == g * R
               v == (g - 1) * R
    <3> HIDE DEF u, v
    <3>2. v = u - R /\ v \in Nat /\ u \in Nat /\ p = u + c
      BY <1>2, <3>1 DEF u, v
    <3>3. p >= R
      BY <1>1, <1>2, <3>2
    <3>4. q = p - R
      BY <3>3 DEF Back, R
    <3>5. q = v + c
      BY <1>1, <1>2, <3>2, <3>4
    <3> QED BY <2>2, <3>5 DEF v
  <2> QED BY <2>1, <2>2
<1>6. q \div R = h /\ q % R = c
  <2> HIDE DEF q, h, c, R
  <2>1. R \in Nat \ {0} /\ c \in 0 .. R - 1
    BY <1>1, <1>2
  <2> QED BY <1>4, <1>5, <2>1, Compose
<1>7. SegBack(g) = h
  BY <1>2, SegBackValue
<1> QED BY <1>3, <1>6, <1>7 DEF Place, SegOf

(* The first and the last position of a segment.                           *)
LEMMA FirstInSegment ==
  ASSUME NEW e \in Positions, SegOf(e) # SegOf(Prev(e)), NEW p \in Positions, SegOf(p) = SegOf(e)
  PROVE  p >= e
<1>1. e \in Nat /\ p \in Nat /\ (e > 0 => Prev(e) = e - 1)
  BY Before, Sizes
<1> SUFFICES ASSUME p < e PROVE FALSE
  BY <1>1
<1>2. e - 1 \in Nat /\ p <= e - 1 /\ Prev(e) = e - 1
  BY <1>1
<1>3. SegOf(p) <= SegOf(e - 1) /\ SegOf(e - 1) <= SegOf(e) /\ SegOf(e - 1) \in Nat /\ SegOf(e) \in Nat
  BY <1>1, <1>2, SegMono, BlockSeg
<1> QED BY <1>2, <1>3

LEMMA LastInSegment ==
  ASSUME NEW e \in Positions, NEW f, f = (e + 1) % MaxRecords, SegOf(f) # SegOf(e),
         NEW p \in Positions, SegOf(p) = SegOf(e)
  PROVE  p <= e
<1>1. e \in Nat /\ p \in Nat /\ p < MaxRecords /\ (f = e + 1 \/ (f = 0 /\ e = MaxRecords - 1))
  BY Advance, Sizes DEF Positions
<1> SUFFICES ASSUME p > e PROVE FALSE
  BY <1>1
<1>2. f = e + 1 /\ f \in Nat /\ f <= p /\ e <= f
  BY <1>1, Sizes
<1>3. SegOf(e) <= SegOf(f) /\ SegOf(f) <= SegOf(p) /\ SegOf(f) \in Nat /\ SegOf(e) \in Nat
  BY <1>1, <1>2, SegMono, BlockSeg
<1> QED BY <1>3

(* When record_end is the first position of a segment.                     *)
LEMMA AtSegment ==
  ASSUME NEW e \in Positions, SegOf(e) # SegOf(Prev(e))
  PROVE  /\ BlockOf(e) * RecordsPerBlock = e
         /\ SegOf(Prev(e)) = SegBack(SegOf(e))
         /\ \A p \in Positions : SegOf(p) = SegOf(e) => e <= p /\ p < e + RecordsPerSegment
<1> DEFINE R == RecordsPerSegment
           g == SegOf(e)
           B == RecordsPerBlock
           K == BlocksPerSegment
<1>1. e \in Nat /\ R \in Nat \ {0} /\ R = B * K /\ B \in Nat \ {0} /\ K \in Nat \ {0} /\ g \in Nat
  BY Sizes, BlockSeg DEF RecordsPerSegment
<1>2. Place(e) = 0
  BY Before DEF Place
<1>3. e = g * R
  <2>1. e = g * R + 0
    BY <1>2, Places
  <2>2. g * R \in Nat
    BY <1>1
  <2> QED BY <2>1, <2>2
<1>4. BlockOf(e) * B = e
  <2> DEFINE b == g * K
  <2>1. b \in Nat
    BY <1>1
  <2>2. b * B = g * (B * K)
    BY <1>1, MulAssoc
  <2>3. b * B = e
    BY <1>1, <1>3, <2>2
  <2> HIDE DEF b
  <2>4. BlockOf(b * B) = b
    BY <2>1, BlockStart
  <2> QED BY <2>3, <2>4
<1>5. ASSUME NEW p \in Positions, SegOf(p) = g
      PROVE  e <= p /\ p < e + R
  <2>1. p = g * R + Place(p) /\ Place(p) \in 0 .. R - 1
    BY <1>5, Places
  <2> DEFINE u == g * R
  <2>2. u \in Nat /\ u = e
    BY <1>1, <1>3
  <2> HIDE DEF u
  <2>3. p = u + Place(p)
    BY <2>1 DEF u
  <2> QED BY <1>1, <2>1, <2>2, <2>3
<1>6. SegOf(Prev(e)) = SegBack(g)
  <2> DEFINE q == Back(e)
             l == Prev(e)
  <2>1. q \in Positions /\ SegOf(q) = SegBack(g)
    BY BackSegment
  <2>2. l \in Positions /\ (e > 0 => l = e - 1) /\ (e = 0 => l = MaxRecords - 1)
    <3>1. e = 0 => l = MaxRecords - 1
      BY Sizes DEF Prev
    <3> QED BY <3>1, Before
  <2>3. (l + 1) % MaxRecords = e /\ SegOf(e) # SegOf(l)
    BY Before
  <2>4. \A x \in Positions : SegOf(x) = SegOf(l) => x <= l
    BY <2>2, <2>3, LastInSegment
  <2>5. q <= l /\ l < q + R
    <3>1. e = 0 \/ e >= R
      BY <1>1, <1>3
    <3> QED BY <1>1, <2>2, <3>1, Sizes DEF Back, Positions
  <2>6. Place(q) = 0
    BY <1>2, BackSegment
  <2>7. SegOf(l) = SegOf(q)
    <3> DEFINE h == SegOf(q)
    <3>1. q = h * R + 0 /\ h \in Nat /\ q \in Nat
      BY <2>1, <2>6, Places, BlockSeg, Sizes
    <3>2. h * R = q
      BY <1>1, <3>1
    <3>3. (h + 1) * R = q + R
      BY <1>1, <3>1, <3>2
    <3>4. h * R <= l /\ l < (h + 1) * R /\ l \in Nat
      BY <2>2, <2>5, <3>2, <3>3, Sizes
    <3> HIDE DEF h, l, q
    <3>5. l \div R = h
      BY <1>1, <3>1, <3>4, DivUnique
    <3> QED BY <3>5 DEF SegOf, h
  <2> QED BY <2>1, <2>7
<1> QED BY <1>4, <1>5, <1>6

LEMMA InBlockOf ==
  ASSUME NEW b \in Nat, NEW p \in Nat
  PROVE  p \in InBlock(b) <=> BlockOf(p) = b
<1> DEFINE B == RecordsPerBlock
           u == b * B
           v == (b + 1) * B
<1>1. B \in Nat \ {0}
  BY Sizes
<1>2. u \in Nat /\ v \in Nat
  BY <1>1
<1>3. ASSUME p \in InBlock(b)
      PROVE  BlockOf(p) = b
  <2>1. p \in u .. v - 1
    BY <1>3 DEF InBlock
  <2>2. u <= p /\ p < v
    <3> HIDE DEF u, v
    <3> QED BY <1>2, <2>1
  <2>3. p \div B = b
    BY <1>1, <2>2, DivUnique
  <2> QED BY <2>3 DEF BlockOf
<1>4. ASSUME BlockOf(p) = b
      PROVE  p \in InBlock(b)
  <2>1. u <= p /\ p < v
    BY <1>1, <1>4, Div DEF BlockOf
  <2>2. p \in u .. v - 1
    <3> HIDE DEF u, v
    <3> QED BY <1>2, <2>1
  <2> QED BY <2>2 DEF InBlock
<1> QED BY <1>3, <1>4

LEMMA BlockMono ==
  ASSUME NEW p \in Nat, NEW q \in Nat, p <= q
  PROVE  BlockOf(p) <= BlockOf(q)
BY Sizes, DivMono DEF BlockOf

LEMMA SameBlock ==
  ASSUME NEW p \in Nat, NEW q \in Nat, BlockOf(p) = BlockOf(q)
  PROVE  SegOf(p) = SegOf(q)
BY BlockSeg

-----------------------------------------------------------------------------
(* journal_add_record: the buffer is given to the next segment as it is.   *)

LEMMA StoreBuffer ==
  ASSUME NEW r, Region(r), BufferTyped(r), r.segno \in {SegOf(r.end), SegOf(Prev(r.end))},
         NEW id \in Nat, NEW t, t = Store(r, id)
  PROVE  t.buf = [r.buf EXCEPT ![Place(r.end)] = id] /\ BufferTyped(t)
         /\ t.start = IF t.end = r.start THEN (r.start + 1) % MaxRecords ELSE r.start
<1> DEFINE e == r.end
           b == BlockOf(e)
           g == GetBlock(r, b)
           to == (e + 1) % MaxRecords
           s == IF to = r.start THEN (r.start + 1) % MaxRecords ELSE r.start
<1>1. e \in Positions /\ e \in Nat
  BY Sizes DEF Region
<1>2. b \in Nat /\ SegOfBlock(b) = SegOf(e)
  BY <1>1, BlockSeg
<1>3. Region(g) /\ g.buf = r.buf
  <2>1. CASE SegOfBlock(b) = r.segno
    BY <2>1 DEF GetBlock
  <2>2. CASE SegOfBlock(b) # r.segno
    <3>1. g = Load(r, b * RecordsPerBlock, e)
      BY <2>2 DEF GetBlock
    <3>2. b * RecordsPerBlock = e
      BY <1>1, <1>2, <2>2, AtSegment
    <3>3. g = Load(r, e, e)
      BY <3>1, <3>2
    <3>4. Region(g)
      BY <3>3, LoadFields
    <3>5. g = [r EXCEPT !.segno = SegOf(e), !.buf = [k \in DOMAIN r.buf |-> r.buf[k]]]
      BY <3>3 DEF Load
    <3>6. g.buf = [k \in DOMAIN r.buf |-> r.buf[k]]
      <4> HIDE DEF g
      <4> QED BY <3>5 DEF Region
    <3>7. r.buf = [k \in DOMAIN r.buf |-> r.buf[k]]
      BY DEF BufferTyped
    <3> QED BY <3>4, <3>6, <3>7
  <2> QED BY <2>1, <2>2
<1>6. t.buf = [r.buf EXCEPT ![Place(r.end)] = id] /\ t.start = s /\ t.end = to
  <2>1. t = [g EXCEPT !.buf[Place(e)] = id, !.end = to, !.start = s]
    BY DEF Store
  <2> HIDE DEF g, to, s
  <2>2. t = [g EXCEPT !.buf = [g.buf EXCEPT ![Place(e)] = id], !.end = to, !.start = s]
    BY <2>1, <1>3 DEF Region
  <2>3. t.buf = [g.buf EXCEPT ![Place(e)] = id] /\ t.start = s /\ t.end = to
    BY <2>2, <1>3 DEF Region
  <2> QED BY <1>3, <2>3
<1>7. Place(e) \in 0 .. RecordsPerSegment - 1
  BY <1>1, Places
<1>8. BufferTyped(t)
  BY <1>6, <1>7 DEF BufferTyped
<1> QED BY <1>6, <1>8

(* What the buffer keeps of a superblock when a record is added.           *)
LEMMA BackWindow ==
  ASSUME NEW e \in Positions, NEW p \in Positions, e <= p, p < e + RecordsPerSegment,
         NEW x \in Positions
  PROVE  /\ Back(p) \notin Window(x, e) => Dist(x, Back(p)) >= Dist(x, p)
         /\ p \in Window(x, e) => Back(p) \in Window(x, e)
         /\ p < x /\ x < e + RecordsPerSegment => Back(p) \in Window(x, e)
<1> DEFINE q == Back(p)
<1>1. q \in Positions
  BY BackSegment
<1>2. q = IF p >= RecordsPerSegment THEN p - RecordsPerSegment ELSE p - RecordsPerSegment + MaxRecords
  BY DEF Back
<1> HIDE DEF q
<1>3. /\ q \in Window(x, e) <=> x # e /\ Dist(e, q) >= Dist(e, x)
      /\ p \in Window(x, e) <=> x # e /\ Dist(e, p) >= Dist(e, x)
  BY <1>1, WindowDist
<1>4. q \notin Window(x, e) => Dist(x, q) >= Dist(x, p)
  BY <1>1, <1>2, <1>3, Sizes, TwoSegments DEF Dist, Positions
<1>5. p \in Window(x, e) => q \in Window(x, e)
  BY <1>1, <1>2, <1>3, Sizes, TwoSegments DEF Dist, Positions
<1>6. p < x /\ x < e + RecordsPerSegment => q \in Window(x, e)
  BY <1>1, <1>2, <1>3, Sizes, TwoSegments DEF Dist, Positions
<1> QED BY <1>4, <1>5, <1>6 DEF q

Placed(x) == x.start \in Positions /\ x.end \in Positions

LEMMA StoreBuffered ==
  ASSUME NEW r, Region(r), InUse(r), BufferTyped(r), NEW n \in Nat,
         NEW x, Placed(x), Sound(x, n), Buffered(r, x), NEW t, t = Store(r, n)
  PROVE  Buffered(t, x)
<1> DEFINE e == r.end
           f == t.end
<1>1. e \in Positions /\ e \in Nat /\ r.segno = SegOf(Prev(e))
  BY Sizes DEF Region, InUse
<1>2. f = (e + 1) % MaxRecords /\ t.segno = SegOf(e)
  BY StoreFields
<1>3. t.buf = [r.buf EXCEPT ![Place(e)] = n] /\ r.buf \in [0 .. RecordsPerSegment - 1 -> Nat]
  BY <1>1, StoreBuffer DEF BufferTyped
<1>4. /\ x.start \in Positions /\ x.end \in Positions /\ x.ids \in [Positions -> 0 .. n - 1]
      /\ Prev(x.end) \in Positions /\ Ordered(x.ids, x.end)
  BY Before DEF Sound, Placed
<1>5. Top(x) \in 0 .. n - 1 /\ \A p \in Positions : x.ids[p] \in 0 .. n - 1 /\ x.ids[p] <= Top(x)
  BY <1>4, TopMost DEF Top
<1> SUFFICES ASSUME NEW p \in Positions, SegOf(p) = SegOf(e)
             PROVE  /\ p \in Wide(x) => t.buf[Place(p)] >= x.ids[p]
                    /\ p \in Window(x.end, f) => t.buf[Place(p)] >= Top(x)
  BY <1>2 DEF Buffered
<1>6. Place(p) \in 0 .. RecordsPerSegment - 1 /\ Place(e) \in 0 .. RecordsPerSegment - 1
  BY <1>1, Places
<1>7. CASE p = e
  <2>1. t.buf[Place(p)] = n
    BY <1>3, <1>6, <1>7
  <2> QED BY <2>1, <1>5
<1>8. CASE p # e /\ SegOf(e) = r.segno
  <2>1. Place(p) # Place(e)
    BY <1>1, <1>8, SamePlace
  <2>2. t.buf[Place(p)] = r.buf[Place(p)]
    BY <1>3, <1>6, <2>1
  <2>3. p \in Window(x.end, f) => p \in Window(x.end, e)
    BY <1>1, <1>2, <1>4, <1>8, WindowBefore
  <2> QED BY <1>8, <2>2, <2>3 DEF Buffered
<1>9. CASE p # e /\ SegOf(e) # r.segno
  <2> DEFINE q == Back(p)
             o == r.buf[Place(q)]
  <2>1. e <= p /\ p < e + RecordsPerSegment /\ r.segno = SegBack(SegOf(e))
    BY <1>1, <1>9, AtSegment
  <2>2. q \in Positions /\ Place(q) = Place(p) /\ SegOf(q) = r.segno
    BY <2>1, BackSegment
  <2>3. Place(p) # Place(e)
    BY <1>1, <1>9, SamePlace
  <2>4. t.buf[Place(p)] = o /\ o \in Nat
    BY <1>3, <1>6, <2>2, <2>3
  <2>5. /\ q \notin Window(x.end, e) => Dist(x.end, q) >= Dist(x.end, p)
        /\ p \in Window(x.end, e) => q \in Window(x.end, e)
        /\ p < x.end /\ x.end < e + RecordsPerSegment => q \in Window(x.end, e)
    BY <1>1, <1>4, <2>1, BackWindow
  <2>6. /\ q \in Wide(x) => o >= x.ids[q]
        /\ q \in Window(x.end, e) => o >= Top(x)
    BY <2>2 DEF Buffered
  <2>7. p \in Window(x.end, f) => o >= Top(x)
    BY <1>1, <1>2, <1>4, <1>9, <2>5, <2>6, WindowBefore
  <2> HIDE DEF q, o
  <2>8. ASSUME p \in Wide(x), q \notin Window(x.end, e)
        PROVE  o >= x.ids[p]
    <3>1. CASE p \in Window(x.start, x.end)
      <4>1. x.start # x.end /\ Dist(x.end, p) >= Dist(x.end, x.start)
        BY <1>4, <3>1, WindowDist
      <4>2. Dist(x.end, q) >= Dist(x.end, x.start)
        BY <1>4, <2>2, <2>5, <2>8, <4>1, DistRange
      <4>3. q \in Wide(x)
        BY <1>4, <2>2, <4>1, <4>2, WindowDist DEF Wide
      <4>4. x.ids[p] <= x.ids[q]
        BY <1>4, <2>2, <2>5, <2>8, DistRange DEF Ordered
      <4> QED BY <2>2, <2>4, <2>6, <4>3, <4>4, <1>5
    <3>2. CASE BlockOf(p) = BlockOf(x.end) /\ p < x.end
      <4>1. SegOf(x.end) = SegOf(e)
        BY <1>4, <3>2, SameBlock, Sizes
      <4>2. x.end < e + RecordsPerSegment
        BY <1>1, <1>4, <1>9, <4>1, AtSegment
      <4> QED BY <2>5, <2>8, <3>2, <4>2
    <3> QED BY <2>8, <3>1, <3>2 DEF Wide
  <2>9. p \in Wide(x) => o >= x.ids[p]
    <3>1. q \in Window(x.end, e) => o >= x.ids[p]
      BY <1>5, <2>4, <2>6
    <3> QED BY <2>8, <3>1
  <2> QED BY <2>4, <2>7, <2>9
<1> QED BY <1>7, <1>8, <1>9

LEMMA StoreContent ==
  ASSUME NEW r, Region(r), InUse(r), Tail(r), NEW n \in Nat \ {0},
         NEW ad, NEW dk, Content(r, ad, dk, n),
         NEW t, t = Store(r, n), NEW new, new = [ad EXCEPT ![r.end] = n],
         t.segno = r.segno \/ r.lastSync = r.end
  PROVE  Content(t, new, dk, n + 1)
<1> DEFINE e == r.end
           f == t.end
           l == r.lastSync
           x == Current(r, ad)
           y == Current(t, new)
<1>1. e \in Positions /\ e \in Nat /\ r.start \in Positions /\ r.segno = SegOf(Prev(e)) /\ r.start # e
  BY Sizes DEF Region, InUse
<1>2. f = (e + 1) % MaxRecords /\ t.segno = SegOf(e) /\ t.lastSync = l /\ t.start # f /\ Region(t)
  BY StoreFields
<1>3. /\ t.buf = [r.buf EXCEPT ![Place(e)] = n] /\ r.buf \in [0 .. RecordsPerSegment - 1 -> Nat]
      /\ BufferTyped(t)
      /\ t.start = IF f = r.start THEN (r.start + 1) % MaxRecords ELSE r.start
  BY <1>1, StoreBuffer DEF BufferTyped, Content
<1>4. x.start = r.start /\ x.end = e /\ x.ids = ad /\ y.start = t.start /\ y.end = f /\ y.ids = new
  BY DEF Current
<1>5. Sound(x, n) /\ Buffered(r, x)
  BY DEF Content
<1>6. ad \in [Positions -> 0 .. n - 1] /\ Ordered(ad, e)
      /\ \A p \in Window(r.start, e) : ad[p] # 0
  BY <1>4, <1>5 DEF Sound
<1>7. /\ f \in Positions /\ f # e /\ (f = e + 1 \/ (f = 0 /\ e = MaxRecords - 1))
      /\ SegOf(f) = SegOf(e) => f = e + 1
  BY <1>1, <1>2, Advance
<1>8. Ordered(new, f) /\ new \in [Positions -> 0 .. (n + 1) - 1]
  BY <1>1, <1>2, <1>6, OrderedAdd
<1>9. new[e] = n /\ \A p \in Positions : p # e => new[p] = ad[p]
  BY <1>1, <1>6
<1>10. ASSUME NEW p \in Window(t.start, f), p # e
       PROVE  p \in Window(r.start, e)
  BY <1>1, <1>2, <1>3, <1>10, WindowAdd
<1>11. t.start \in Positions
  BY <1>2 DEF Region
<1> HIDE DEF x, y
<1>12. Sound(y, n + 1)
  <2>1. ASSUME NEW p \in Window(t.start, f)
        PROVE  new[p] # 0
    <3>1. p \in Positions
      BY <1>7, <1>11, WindowDist
    <3> QED BY <1>6, <1>9, <1>10, <3>1
  <2> QED BY <1>2, <1>4, <1>8, <2>1 DEF Sound
<1>13. ASSUME NEW p \in Wide(y), p # e
       PROVE  p \in Wide(x) /\ p \in Positions
  <2>1. CASE p \in Window(t.start, f)
    BY <1>1, <1>4, <1>10, <1>13, <2>1, WindowDist DEF Wide
  <2>2. CASE p \in Positions /\ BlockOf(p) = BlockOf(f) /\ p < f
    <3>1. p \in Nat /\ f = e + 1 /\ p <= e /\ p < e /\ f \in Nat
      BY <1>1, <1>7, <1>13, <2>2, Sizes
    <3>2. BlockOf(p) <= BlockOf(e) /\ BlockOf(e) <= BlockOf(f) /\ BlockOf(e) \in Nat /\ BlockOf(f) \in Nat
      BY <1>1, <3>1, BlockMono, BlockSeg
    <3>3. BlockOf(p) = BlockOf(e)
      BY <2>2, <3>2
    <3> QED BY <1>4, <2>2, <3>1, <3>3 DEF Wide
  <2> QED BY <1>4, <1>13, <2>1, <2>2 DEF Wide
<1>14. Placed(x)
  BY <1>1, <1>4 DEF Placed
<1>15. Buffered(t, x)
  BY <1>5, <1>14, StoreBuffered DEF Content
<1>16. Place(e) \in 0 .. RecordsPerSegment - 1
       /\ \A p \in Positions : Place(p) \in 0 .. RecordsPerSegment - 1
  BY <1>1, Places
<1>17. t.buf[Place(e)] = n
  BY <1>3, <1>16
<1>18. Buffered(t, y)
  <2>1. ASSUME NEW p \in Positions, SegOf(p) = t.segno, p \in Wide(y)
        PROVE  t.buf[Place(p)] >= new[p]
    <3>1. CASE p = e
      BY <1>9, <1>17, <3>1
    <3>2. CASE p # e
      <4>1. t.buf[Place(p)] >= ad[p]
        BY <1>4, <1>13, <1>15, <2>1, <3>2 DEF Buffered
      <4> QED BY <1>9, <3>2, <4>1
    <3> QED BY <3>1, <3>2
  <2>2. \A p : p \notin Window(f, f)
    BY <1>7, WindowDist
  <2> QED BY <1>4, <2>1, <2>2 DEF Buffered
<1>19. TailHeld(t, new, dk) /\ RestWritten(t, new, dk)
  <2>1. Halted(t, l)
    BY <1>2, StoreTail
  <2>2. l \in Positions /\ l \in Nat /\ SegOf(l) = t.segno /\ (SegOf(f) = t.segno => l < f)
    BY <2>1, Sizes DEF Halted
  <2>3. TailHeld(r, ad, dk) /\ RestWritten(r, ad, dk)
    BY DEF Content
  <2>4. \A p \in Positions : SegOf(p) = SegOf(e) /\ SegOf(f) # SegOf(e) => p <= e
    BY <1>1, <1>2, LastInSegment
  <2>5. l <= e
    BY <1>1, <1>2, <1>7, <2>2, <2>4
  <2>6. ASSUME NEW p \in Positions, Until(t, p), p # e
        PROVE  Until(r, p)
    <3>1. SegOf(p) = SegOf(e) /\ (SegOf(f) = SegOf(e) => p < f)
      BY <1>2, <2>6 DEF Until
    <3>2. p < e
      BY <1>1, <1>7, <2>4, <2>6, <3>1, Sizes
    <3>3. CASE t.segno = r.segno
      BY <1>2, <2>2, <3>1, <3>2, <3>3 DEF Until
    <3>4. CASE t.segno # r.segno
      BY <1>1, <1>2, <3>1, <3>2, <3>4, FirstInSegment, Sizes
    <3> QED BY <3>3, <3>4
  <2>7. ASSUME NEW p \in Positions, Until(t, p), BlockOf(p) >= BlockOf(l)
        PROVE  t.buf[Place(p)] = new[p] \/ (t.buf[Place(p)] = dk[p] /\ dk[p] > new[p])
    <3>1. CASE p = e
      BY <1>9, <1>17, <3>1
    <3>2. CASE p # e
      <4>1. r.buf[Place(p)] = ad[p] \/ (r.buf[Place(p)] = dk[p] /\ dk[p] > ad[p])
        BY <2>3, <2>6, <2>7, <3>2 DEF TailHeld
      <4>2. SegOf(p) = SegOf(e)
        BY <1>2, <2>7 DEF Until
      <4>3. Place(p) # Place(e)
        BY <1>1, <3>2, <4>2, SamePlace
      <4>4. t.buf[Place(p)] = r.buf[Place(p)]
        BY <1>3, <1>16, <4>3
      <4> QED BY <1>9, <3>2, <4>1, <4>4
    <3> QED BY <3>1, <3>2
  <2>8. TailHeld(t, new, dk)
    BY <1>2, <2>7 DEF TailHeld
  <2>9. Until(t, e) /\ e >= l
    BY <1>1, <1>2, <1>7, <2>2, <2>5 DEF Until
  <2>10. ASSUME NEW p \in Positions, Until(r, p), p >= l
         PROVE  Until(t, p)
    <3>1. SegOf(p) = r.segno /\ SegOf(l) = r.segno /\ (SegOf(e) = r.segno => p < e)
      BY <2>10 DEF Until
    <3>2. t.segno = r.segno
      BY <2>2, <3>1
    <3>3. SegOf(f) = t.segno => p < f
      BY <1>1, <1>2, <1>7, <3>1, <3>2, Sizes
    <3> QED BY <1>2, <3>1, <3>2, <3>3 DEF Until
  <2>11. ASSUME NEW p \in Wide(y), ~(Until(t, p) /\ p >= l)
         PROVE  dk[p] >= new[p]
    <3>1. p # e
      BY <2>9, <2>11
    <3>2. p \in Positions /\ p \in Wide(x)
      BY <1>13, <3>1
    <3>3. ~(Until(r, p) /\ p >= l)
      BY <2>10, <2>11, <3>2
    <3>4. dk[p] >= ad[p]
      BY <2>3, <3>2, <3>3 DEF RestWritten, x
    <3> QED BY <1>9, <3>1, <3>2, <3>4
  <2>12. RestWritten(t, new, dk)
    BY <1>2, <2>11 DEF RestWritten, y
  <2> QED BY <2>8, <2>12
<1> QED BY <1>2, <1>3, <1>12, <1>18, <1>19 DEF Content, y

(* A longer history leaves a superblock as it is.                          *)
LEMMA SoundLater ==
  ASSUME NEW n \in Nat, NEW x, Sound(x, n)
  PROVE  Sound(x, n + 1)
<1>1. x.ids \in [Positions -> 0 .. (n + 1) - 1]
  <2>1. x.ids \in [Positions -> 0 .. n - 1]
    BY DEF Sound
  <2>2. 0 .. n - 1 \subseteq 0 .. (n + 1) - 1
    OBVIOUS
  <2> QED BY <2>1, <2>2
<1> QED BY <1>1 DEF Sound

-----------------------------------------------------------------------------
(* journal_synchronize.                                                    *)

(* The positions in the i blocks written from block b on.                  *)
Blocks(b, i) == {p \in Positions : b <= BlockOf(p) /\ BlockOf(p) < b + i}

Put(r, dk, b, i) == [p \in Positions |-> IF p \in Blocks(b, i) THEN r.buf[Place(p)] ELSE dk[p]]

(* What a sync that is not stuck does.                                     *)
Wrote(r, i, to) ==
  /\ Halted(r, r.lastSync) /\ i \in Nat
  /\ disk' = Put(r, disk, BlockOf(r.lastSync), i)
  /\ j' = [r EXCEPT !.lastSync = to]
  /\ \A p \in Blocks(BlockOf(r.lastSync), i) : SegOf(p) = r.segno
  /\ \/ /\ to = r.end /\ sb' = Current(r, added')
        /\ \A p \in Positions : Until(r, p) /\ p >= r.lastSync => p \in Blocks(BlockOf(r.lastSync), i)
     \/ /\ Halted(r, to) /\ sb' = sb
        /\ BlockOf(to) = BlockOf(r.lastSync) + i /\ to = BlockOf(to) * RecordsPerBlock

LEMMA SyncAll ==
  ASSUME NEW r, Region(r), InUse(r), Halted(r, r.lastSync),
         NEW p \in Positions, Until(r, p), p >= r.lastSync
  PROVE  p \in Blocks(BlockOf(r.lastSync), SyncCount(r))
<1> DEFINE e == r.end
           l == r.lastSync
           b == BlockOf(l)
           c == BlockOf(p)
           K == BlocksPerSegment
           n == SyncCount(r)
<1>1. /\ e \in Positions /\ l \in Positions /\ e \in Nat /\ l \in Nat /\ p \in Nat
      /\ r.segno = SegOf(Prev(e)) /\ SegOf(l) = r.segno /\ SegOf(p) = r.segno
      /\ (SegOf(e) = r.segno => p < e)
  BY Sizes DEF Region, InUse, Halted, Until
<1>2. b \in Nat /\ c \in Nat /\ b <= c /\ SegOfBlock(b) = SegOfBlock(c)
  BY <1>1, BlockSeg, BlockMono
<1>3. CASE e % RecordsPerSegment = 0
  <2>1. n = K - (b % K)
    <3>1. ~(r.end % RecordsPerSegment # 0)
      BY <1>3
    <3> QED BY <3>1, Zenon DEF SyncCount
  <2>2. K \in Nat \ {0} /\ b \div K = c \div K
    BY <1>2, Sizes DEF SegOfBlock
  <2> HIDE DEF b, c, K, n
  <2> DEFINE d == b \div K
             u == d * K
  <2>3. b = u + (b % K) /\ u \in Nat /\ b % K \in Nat /\ b % K < K
    BY <1>2, <2>2
  <2>4. c = u + (c % K) /\ c % K \in Nat /\ c % K < K
    <3>1. c = (c \div K) * K + (c % K) /\ c % K \in Nat /\ c % K < K
      BY <1>2, <2>2
    <3> QED BY <2>2, <3>1
  <2> HIDE DEF u
  <2> DEFINE m == b % K
             h == c % K
  <2> HIDE DEF m, h
  <2>5. b = u + m /\ c = u + h /\ m \in Nat /\ h \in Nat /\ u \in Nat /\ h < K /\ n = K - m
    BY <2>1, <2>3, <2>4 DEF m, h
  <2>6. c < b + n
    BY <2>2, <2>5
  <2> QED BY <1>2, <2>6 DEF Blocks, b, c, n
<1>4. CASE e % RecordsPerSegment # 0
  <2>1. e > 0 /\ SegOf(e) = r.segno
    BY <1>1, <1>4, Before
  <2>2. e - 1 \in Nat /\ p <= e - 1
    BY <1>1, <2>1
  <2>3. c <= BlockOf(e - 1) /\ BlockOf(e - 1) \in Nat
    BY <1>1, <2>2, BlockMono, BlockSeg
  <2>4. n = BlockOf(e - 1) - b + 1
    BY <1>4 DEF SyncCount
  <2> HIDE DEF b, c, n
  <2>5. c < b + n
    BY <1>2, <2>3, <2>4
  <2> QED BY <1>2, <2>5 DEF Blocks, b, c, n
<1> QED BY <1>3, <1>4

LEMMA SyncWrote ==
  ASSUME NEW r, Region(r), InUse(r), Tail(r), r.status = "ready", Synced(r)
  PROVE  \/ j' = r /\ disk' = disk /\ sb' = sb
         \/ \E i, to : Wrote(r, i, to)
<1>1. CASE r.lastSync = r.end /\ j' = r /\ UNCHANGED <<disk, sb, fails>>
  BY <1>1
<1>2. r.lastSync # Beyond
  BY Sizes DEF Tail, Halted, Region, Positions, Beyond
<1>3. ASSUME r.lastSync # r.end, NEW i \in Written(r), Synchronize(r, i)
      PROVE  \E k, to : Wrote(r, k, to)
  <2> DEFINE n == SyncCount(r)
             b == BlockOf(r.lastSync)
             l == (b + i) * RecordsPerBlock
  <2>1. Halted(r, r.lastSync)
    BY <1>3 DEF Tail
  <2>2. /\ n \in Nat \ {0}
        /\ \A k \in 0 .. n - 1 : Halted(r, (b + k) * RecordsPerBlock)
    BY <2>1, SyncCounts
  <2>a. r.lastSync \in Nat /\ SegOf(r.lastSync) = r.segno /\ b \in Nat /\ SegOfBlock(b) = r.segno
    <3>1. r.lastSync \in Nat /\ SegOf(r.lastSync) = r.segno
      BY <2>1, Sizes DEF Halted
    <3> QED BY <3>1, BlockSeg
  <2>3. ~SelfLocks(r, i)
    BY <2>a DEF SelfLocks
  <2>4. i \in 0 .. n /\ i \in Nat
    <3> HIDE DEF n
    <3>1. ~(n < 0)
      BY <2>2
    <3>2. i \in (0 .. n) \cup (IF n < 0 THEN {0} ELSE {})
      BY <1>3 DEF Written, n
    <3> QED BY <2>2, <3>1, <3>2
  <2>5. ASSUME NEW p \in Positions
        PROVE  (\E c \in b .. b + i - 1 : p \in InBlock(c)) <=> p \in Blocks(b, i)
    <3>1. p \in Nat /\ BlockOf(p) \in Nat
      BY Sizes, BlockSeg
    <3>2. \A c \in b .. b + i - 1 : c \in Nat /\ (p \in InBlock(c) <=> BlockOf(p) = c)
      BY <2>4, <2>a, <3>1, InBlockOf
    <3> HIDE DEF b
    <3>3. BlockOf(p) \in b .. b + i - 1 <=> b <= BlockOf(p) /\ BlockOf(p) < b + i
      BY <2>4, <2>a, <3>1
    <3> QED BY <3>2, <3>3 DEF Blocks
  <2>6. disk' = Put(r, disk, b, i)
    <3>1. disk' = [p \in Positions |->
                     IF \E c \in b .. b + i - 1 : p \in InBlock(c) THEN r.buf[Place(p)] ELSE disk[p]]
      BY <1>3, <2>3 DEF Synchronize
    <3> HIDE DEF b
    <3> QED BY <2>5, <3>1 DEF Put
  <2>7. ASSUME NEW p \in Blocks(b, i)
        PROVE  SegOf(p) = r.segno
    <3> DEFINE k == BlockOf(p) - b
               c == b + k
    <3>1. p \in Nat /\ BlockOf(p) \in Nat /\ b <= BlockOf(p) /\ BlockOf(p) < b + i
      BY Sizes, BlockSeg DEF Blocks
    <3>2. k \in 0 .. n - 1 /\ c = BlockOf(p)
      <4> HIDE DEF n, b
      <4> QED BY <2>2, <2>4, <2>a, <3>1
    <3>3. Halted(r, c * RecordsPerBlock)
      BY <2>2, <3>2
    <3>4. SegOf(BlockOf(p) * RecordsPerBlock) = r.segno
      BY <3>2, <3>3 DEF Halted
    <3> QED BY <3>1, <3>4, BlockStart, BlockSeg
  <2>8. CASE i = n
    <3>1. j' = [r EXCEPT !.lastSync = r.end]
          /\ sb' = [start |-> r.start, end |-> r.end, ids |-> added']
      BY <1>3, <2>3, <2>8 DEF Synchronize
    <3>2. \A p \in Positions : Until(r, p) /\ p >= r.lastSync => p \in Blocks(b, i)
      BY <2>1, <2>8, SyncAll
    <3>3. Wrote(r, i, r.end)
      BY <2>1, <2>4, <2>6, <2>7, <3>1, <3>2 DEF Wrote, Current
    <3> QED BY <3>3
  <2>9. CASE i # n
    <3>1. i \in 0 .. n - 1 /\ i < n
      <4> HIDE DEF n
      <4> QED BY <2>2, <2>4, <2>9
    <3>2. Halted(r, l)
      BY <2>2, <3>1
    <3>3. l # r.end
      BY <3>2 DEF Halted
    <3>4. j' = [r EXCEPT !.lastSync = l] /\ sb' = sb
      BY <1>3, <2>3, <2>9, <3>3 DEF Synchronize
    <3>5. BlockOf(l) = b + i
      <4> DEFINE c == b + i
      <4>1. c \in Nat
        BY <2>4, <2>a
      <4> HIDE DEF c
      <4>2. BlockOf(c * RecordsPerBlock) = c
        BY <4>1, BlockStart
      <4> QED BY <4>2 DEF c
    <3>6. l = BlockOf(l) * RecordsPerBlock
      BY <3>5
    <3> HIDE DEF l
    <3>7. Wrote(r, i, l)
      BY <2>1, <2>4, <2>6, <2>7, <3>2, <3>4, <3>5, <3>6 DEF Wrote
    <3> QED BY <3>7
  <2> QED BY <2>8, <2>9
<1> QED BY <1>1, <1>2, <1>3 DEF Synced

(* Writing blocks of the buffer keeps what is on the device for a          *)
(* superblock.                                                             *)
LEMMA PutOnDisk ==
  ASSUME NEW r, NEW dk, NEW b, NEW i, NEW x, Placed(x), OnDisk(x, dk), Buffered(r, x),
         \A p \in Blocks(b, i) : SegOf(p) = r.segno
  PROVE  OnDisk(x, Put(r, dk, b, i))
<1> SUFFICES ASSUME NEW p \in Wide(x)
             PROVE  Put(r, dk, b, i)[p] >= x.ids[p]
  BY DEF OnDisk
<1>1. p \in Positions
  BY WindowDist DEF Wide, Placed
<1>2. CASE p \in Blocks(b, i)
  <2>1. Put(r, dk, b, i)[p] = r.buf[Place(p)]
    BY <1>1, <1>2 DEF Put
  <2> QED BY <1>1, <1>2, <2>1 DEF Buffered
<1>3. CASE p \notin Blocks(b, i)
  <2>1. Put(r, dk, b, i)[p] = dk[p]
    BY <1>1, <1>3 DEF Put
  <2> QED BY <2>1 DEF OnDisk
<1> QED BY <1>2, <1>3

LEMMA BufferedSame ==
  ASSUME NEW r, NEW t, t.segno = r.segno, t.end = r.end, t.buf = r.buf, NEW x, Buffered(r, x)
  PROVE  Buffered(t, x)
BY DEF Buffered

LEMMA WroteContent ==
  ASSUME NEW r, Region(r), InUse(r), disk \in [Positions -> Nat], NEW n \in Nat,
         NEW ad, ad = added', Content(r, ad, disk, n),
         NEW i, NEW to, Wrote(r, i, to)
  PROVE  /\ disk' \in [Positions -> Nat]
         /\ Content(j', ad, disk', n)
         /\ \/ sb' = sb
            \/ /\ sb' = Current(r, ad) /\ Placed(sb') /\ Sound(sb', n) /\ OnDisk(sb', disk')
               /\ Buffered(j', sb')
         /\ \A x : Placed(x) /\ OnDisk(x, disk) /\ Buffered(r, x) => OnDisk(x, disk') /\ Buffered(j', x)
<1> DEFINE e == r.end
           l == r.lastSync
           b == BlockOf(l)
           W == Blocks(b, i)
           x == Current(r, ad)
<1>1. PICK t : t = j'
  OBVIOUS
<1>2. PICK dk : dk = disk
  OBVIOUS
<1>3. PICK ek : ek = disk'
  OBVIOUS
<1>4. /\ Halted(r, l) /\ i \in Nat /\ ek = Put(r, dk, b, i) /\ t = [r EXCEPT !.lastSync = to]
      /\ \A p \in W : SegOf(p) = r.segno
      /\ \/ /\ to = e /\ sb' = x
            /\ \A p \in Positions : Until(r, p) /\ p >= l => p \in W
         \/ /\ Halted(r, to) /\ sb' = sb
            /\ BlockOf(to) = b + i /\ to = BlockOf(to) * RecordsPerBlock
  BY <1>1, <1>2, <1>3 DEF Wrote
<1>5. /\ t.start = r.start /\ t.end = e /\ t.segno = r.segno /\ t.buf = r.buf /\ t.lastSync = to
  BY <1>4 DEF Region
<1>6. /\ e \in Positions /\ e \in Nat /\ l \in Positions /\ l \in Nat /\ l # e /\ SegOf(l) = r.segno
      /\ (SegOf(e) = r.segno => l < e) /\ to \in Positions /\ to \in Nat /\ r.start \in Positions
  BY <1>4, Sizes DEF Halted, Region
<1>7. /\ BufferTyped(r) /\ Sound(x, n) /\ Buffered(r, x)
      /\ TailHeld(r, ad, dk) /\ RestWritten(r, ad, dk)
  BY <1>2 DEF Content
<1>8. r.buf \in [0 .. RecordsPerSegment - 1 -> Nat] /\ dk \in [Positions -> Nat]
  BY <1>2, <1>7 DEF BufferTyped
<1>9. ASSUME NEW p \in Positions
      PROVE  /\ p \in W => ek[p] = r.buf[Place(p)]
             /\ p \notin W => ek[p] = dk[p]
  BY <1>4, <1>9 DEF Put
<1>10. ek \in [Positions -> Nat]
  <2>1. \A p \in Positions : r.buf[Place(p)] \in Nat /\ dk[p] \in Nat
    BY <1>8, Places
  <2> QED BY <1>4, <2>1 DEF Put
<1>11. ASSUME NEW y, Placed(y), OnDisk(y, dk), Buffered(r, y)
       PROVE  OnDisk(y, ek) /\ Buffered(t, y)
  BY <1>4, <1>5, <1>11, PutOnDisk, BufferedSame
<1>12. Current(t, ad) = x
  BY <1>5 DEF Current
<1>13. Buffered(t, x) /\ BufferTyped(t)
  BY <1>5, <1>7, BufferedSame DEF BufferTyped
<1>14. x.start = r.start /\ x.end = e /\ x.ids = ad /\ Placed(x)
  BY <1>6 DEF Current, Placed
<1> HIDE DEF W, x
<1>15. \A p \in Wide(x) : p \in Positions
  BY <1>6, <1>14, WindowDist DEF Wide
<1>16. ASSUME NEW p \in Positions, Until(r, p), p >= l, p \notin W
       PROVE  Until(t, p) /\ p >= to
  <2>1. Halted(r, to) /\ BlockOf(to) = b + i /\ to = BlockOf(to) * RecordsPerBlock
    BY <1>4, <1>16
  <2>2. p \in Nat /\ BlockOf(p) \in Nat /\ b \in Nat /\ b <= BlockOf(p) /\ BlockOf(to) \in Nat
    BY <1>6, <1>16, BlockSeg, BlockMono, Sizes
  <2>3. BlockOf(to) <= BlockOf(p)
    <3>1. ~(BlockOf(p) < b + i)
      BY <1>16, <2>2 DEF W, Blocks
    <3> HIDE DEF b
    <3> QED BY <1>4, <2>1, <2>2, <3>1
  <2>4. p >= to
    <3> DEFINE u == BlockOf(to) * RecordsPerBlock
               v == BlockOf(p) * RecordsPerBlock
    <3>1. u <= v /\ u \in Nat /\ v \in Nat
      BY <2>2, <2>3, MulMono, Sizes
    <3>2. v <= p
      BY <2>2, Div, Sizes DEF BlockOf
    <3> HIDE DEF u, v
    <3>3. to = u
      BY <2>1 DEF u
    <3> QED BY <2>2, <3>1, <3>2, <3>3
  <2>5. Until(t, p)
    BY <1>5, <1>16, <2>1 DEF Until, Halted
  <2> QED BY <2>4, <2>5
<1>17. RestWritten(t, ad, ek)
  <2> SUFFICES ASSUME NEW p \in Wide(x), ~(Until(t, p) /\ p >= to)
               PROVE  ek[p] >= ad[p]
    BY <1>5, <1>12 DEF RestWritten
  <2>1. p \in Positions
    BY <1>15
  <2>2. CASE p \in W
    <3>1. r.buf[Place(p)] >= ad[p]
      BY <1>4, <1>7, <1>14, <2>1, <2>2 DEF Buffered
    <3> QED BY <1>9, <2>1, <2>2, <3>1
  <2>3. CASE p \notin W
    <3>1. ~(Until(r, p) /\ p >= l)
      BY <1>16, <2>1, <2>3
    <3>2. dk[p] >= ad[p]
      BY <1>7, <3>1 DEF RestWritten, x
    <3> QED BY <1>9, <2>1, <2>3, <3>2
  <2> QED BY <2>2, <2>3
<1>18. TailHeld(t, ad, ek)
  <2> SUFFICES ASSUME NEW p \in Positions, Until(t, p), BlockOf(p) >= BlockOf(to)
               PROVE  r.buf[Place(p)] = ad[p] \/ (r.buf[Place(p)] = ek[p] /\ ek[p] > ad[p])
    BY <1>5 DEF TailHeld
  <2>1. Until(r, p) /\ SegOf(to) = r.segno
    BY <1>5, <1>6 DEF Until
  <2>2. BlockOf(to) >= BlockOf(l)
    <3>1. b \in Nat /\ BlockOf(to) \in Nat
      BY <1>6, BlockSeg
    <3>2. CASE to = e
      BY <1>6, <2>1, <3>2, BlockMono
    <3>3. CASE BlockOf(to) = b + i
      <4> HIDE DEF b
      <4>1. BlockOf(to) >= b
        BY <1>4, <3>1, <3>3
      <4> QED BY <4>1 DEF b
    <3> QED BY <1>4, <3>2, <3>3
  <2>3. BlockOf(p) >= BlockOf(l)
    BY <1>6, <2>2, BlockSeg, Sizes
  <2>4. r.buf[Place(p)] = ad[p] \/ (r.buf[Place(p)] = dk[p] /\ dk[p] > ad[p])
    BY <1>7, <2>1, <2>3 DEF TailHeld
  <2>5. ek[p] = r.buf[Place(p)] \/ ek[p] = dk[p]
    BY <1>9
  <2> QED BY <2>4, <2>5
<1>19. Content(t, ad, ek, n)
  BY <1>7, <1>12, <1>13, <1>17, <1>18 DEF Content, x
<1>20. ASSUME sb' # sb
       PROVE  /\ sb' = x /\ OnDisk(x, ek)
  <2>1. to = e /\ sb' = x
    BY <1>4, <1>20
  <2>2. ASSUME NEW p \in Wide(x)
        PROVE  ek[p] >= x.ids[p]
    <3>1. p \in Positions /\ p \in Nat
      BY <1>15, Sizes
    <3>2. ~(Until(t, p) /\ p >= to)
      BY <1>5, <1>6, <2>1, <3>1 DEF Until
    <3>3. ek[p] >= ad[p]
      BY <1>5, <1>12, <1>17, <3>2 DEF RestWritten
    <3> QED BY <1>14, <3>3
  <2> QED BY <2>1, <2>2 DEF OnDisk
<1>21. \/ sb' = sb
       \/ sb' = x /\ Placed(sb') /\ Sound(sb', n) /\ OnDisk(sb', ek) /\ Buffered(t, sb')
  BY <1>7, <1>13, <1>14, <1>20
<1> QED BY <1>1, <1>2, <1>3, <1>10, <1>11, <1>19, <1>21 DEF x

(* What a step leaves of the contents: n records were added, ad is the last*)
(* one at each position, and superblock x is as good as before.            *)
Left(n, ad) ==
  /\ disk' \in [Positions -> Nat]
  /\ j'.status = "ready" => Content(j', ad, disk', n)

LeftFor(x) == OnDisk(x, disk') /\ (j'.status = "ready" => Buffered(j', x))

LEMMA SyncContent ==
  ASSUME NEW r, Region(r), InUse(r), Tail(r), r.status = "ready", Synced(r),
         disk \in [Positions -> Nat], NEW n \in Nat, NEW ad, ad = added', Content(r, ad, disk, n)
  PROVE  /\ Left(n, ad)
         /\ \A x : Placed(x) /\ OnDisk(x, disk) /\ Buffered(r, x) => LeftFor(x)
         /\ sb' = sb \/ (Sound(sb', n) /\ LeftFor(sb'))
<1>1. CASE j' = r /\ disk' = disk /\ sb' = sb
  BY <1>1 DEF Left, LeftFor
<1>3. CASE \E i, to : Wrote(r, i, to)
  <2>1. PICK i, to : Wrote(r, i, to)
    BY <1>3
  <2>2. /\ disk' \in [Positions -> Nat]
        /\ Content(j', ad, disk', n)
        /\ \/ sb' = sb
           \/ /\ sb' = Current(r, ad) /\ Placed(sb') /\ Sound(sb', n) /\ OnDisk(sb', disk')
              /\ Buffered(j', sb')
        /\ \A x : Placed(x) /\ OnDisk(x, disk) /\ Buffered(r, x) => OnDisk(x, disk') /\ Buffered(j', x)
    BY <2>1, WroteContent
  <2>3. Left(n, ad)
    BY <2>2 DEF Left
  <2>4. sb' = sb \/ (Sound(sb', n) /\ LeftFor(sb'))
    BY <2>2 DEF LeftFor
  <2>5. \A x : Placed(x) /\ OnDisk(x, disk) /\ Buffered(r, x) => LeftFor(x)
    BY <2>2 DEF LeftFor
  <2> QED BY <2>3, <2>4, <2>5
<1> QED BY <1>1, <1>3, SyncWrote

LEMMA AddContent ==
  ASSUME IInv, CInv, pc # "down", j.status = "ready", AddRecord, ~dropped', ~misled'
  PROVE  /\ ~dropped
         /\ Left(next + 1, added')
         /\ Sound(sb, next + 1) /\ LeftFor(sb)
         /\ Sound(dsb, next + 1) /\ LeftFor(dsb)
         /\ sb' = sb \/ (Sound(sb', next + 1) /\ LeftFor(sb'))
<1>1. /\ Region(j) /\ Super(sb) /\ Super(dsb) /\ next \in Nat \ {0} /\ added \in [Positions -> Nat]
      /\ dropped \in BOOLEAN
  BY DEF IInv, Typing
<1>2. PICK r : r = Store(j, next)
  OBVIOUS
<1>3. PICK ad : ad = added'
  OBVIOUS
<1>4. PICK n : n = next
  OBVIOUS
<1>5. /\ ad = [added EXCEPT ![j.end] = n]
      /\ ~dropped /\ (r.segno = j.segno \/ j.lastSync = j.end)
      /\ IF ShouldSync(r) THEN Sync(r) ELSE j' = r /\ UNCHANGED <<disk, sb, fails>>
  BY <1>2, <1>3, <1>4 DEF AddRecord
<1>6. InUse(j) /\ Tail(j)
  BY <1>5 DEF IInv
<1>7. /\ disk \in [Positions -> Nat] /\ Sound(dsb, n) /\ OnDisk(dsb, disk)
      /\ Sound(sb, n) /\ OnDisk(sb, disk)
      /\ Content(j, added, disk, n) /\ Buffered(j, dsb) /\ Buffered(j, sb)
  BY <1>4, <1>5 DEF CInv
<1>8. /\ Region(r) /\ r.status = "ready"
  BY <1>1, <1>2, StoreFields
<1>9. InUse(r) /\ Tail(r)
  <2>1. InUse(r) /\ Halted(r, r.lastSync)
    BY <1>1, <1>2, <1>5, <1>6, StoreTail
  <2> QED BY <2>1 DEF Tail
<1>10. Content(r, ad, disk, n + 1)
  BY <1>1, <1>2, <1>4, <1>5, <1>6, <1>7, StoreContent
<1>11. Placed(sb) /\ Placed(dsb) /\ BufferTyped(j)
  BY <1>1, <1>7 DEF Placed, Super, Content
<1>12. Buffered(r, sb) /\ Buffered(r, dsb)
  BY <1>1, <1>2, <1>4, <1>6, <1>7, <1>11, StoreBuffered
<1>13. Sound(sb, n + 1) /\ Sound(dsb, n + 1) /\ n + 1 \in Nat
  BY <1>1, <1>4, <1>7, SoundLater
<1>14. CASE ShouldSync(r)
  <2>1. Synced(r)
    BY <1>5, <1>8, <1>14, SyncFollows
  <2>2. /\ Left(n + 1, ad)
        /\ \A x : Placed(x) /\ OnDisk(x, disk) /\ Buffered(r, x) => LeftFor(x)
        /\ sb' = sb \/ (Sound(sb', n + 1) /\ LeftFor(sb'))
    BY <1>3, <1>7, <1>8, <1>9, <1>10, <1>13, <2>1, SyncContent
  <2> QED BY <1>3, <1>4, <1>5, <1>7, <1>11, <1>12, <1>13, <2>2
<1>15. CASE ~ShouldSync(r)
  <2>1. j' = r /\ disk' = disk /\ sb' = sb
    BY <1>5, <1>15
  <2>2. Left(n + 1, ad)
    BY <1>7, <1>10, <2>1 DEF Left
  <2>3. LeftFor(sb) /\ LeftFor(dsb)
    BY <1>7, <1>12, <2>1 DEF LeftFor
  <2> QED BY <1>3, <1>4, <1>5, <1>13, <2>1, <2>2, <2>3
<1> QED BY <1>14, <1>15

-----------------------------------------------------------------------------
(* The actions.                                                            *)

LEMMA LeftInv ==
  ASSUME ~dropped' =>
           /\ disk' \in [Positions -> Nat]
           /\ Sound(dsb', next') /\ OnDisk(dsb', disk')
           /\ pc' # "down" => Sound(sb', next') /\ OnDisk(sb', disk')
           /\ pc' # "down" /\ j'.status = "ready" =>
                Content(j', added', disk', next') /\ Buffered(j', dsb') /\ Buffered(j', sb')
  PROVE  CInv'
<1>1. Sound(dsb', next') => Sound(dsb, next)'
  BY DEF Sound, Ordered, Zeros, Window, Dist, Prev
<1>2. Sound(sb', next') => Sound(sb, next)'
  BY DEF Sound, Ordered, Zeros, Window, Dist, Prev
<1>3. OnDisk(dsb', disk') => OnDisk(dsb, disk)'
  BY DEF OnDisk, Wide, Window
<1>4. OnDisk(sb', disk') => OnDisk(sb, disk)'
  BY DEF OnDisk, Wide, Window
<1>5. Buffered(j', dsb') => Buffered(j, dsb)'
  BY DEF Buffered, Wide, Window, Top, Prev
<1>6. Buffered(j', sb') => Buffered(j, sb)'
  BY DEF Buffered, Wide, Window, Top, Prev
<1>7. Content(j', added', disk', next') => Content(j, added, disk, next)'
  BY DEF Content, Buffered, Wide, Window, Top, Prev, Sound, Ordered, Zeros, Dist, Current,
         BufferTyped, TailHeld, RestWritten, Until
<1> QED BY <1>1, <1>2, <1>3, <1>4, <1>5, <1>6, <1>7 DEF CInv

LEMMA InitContent == Init => CInv
<1> SUFFICES ASSUME Init PROVE CInv
  OBVIOUS
<1>1. disk = Zeros /\ sb = [start |-> 0, end |-> 0, ids |-> Zeros] /\ dsb = sb /\ next = 1 /\ pc = "down"
  BY DEF Init
<1>2. Zeros \in [Positions -> Nat] /\ Zeros \in [Positions -> 0 .. 1 - 1] /\ \A p \in Positions : Zeros[p] = 0
  BY DEF Zeros
<1>3. \A p : p \notin Window(0, 0)
  BY Ends, WindowDist
<1>4. Sound(dsb, 1)
  BY <1>1, <1>2, <1>3 DEF Sound, Ordered
<1>5. OnDisk(dsb, disk)
  BY <1>1, <1>2, <1>3 DEF OnDisk, Wide
<1> QED BY <1>1, <1>2, <1>4, <1>5 DEF CInv

(* The steps that add a record.                                            *)
LEMMA AddedContent ==
  ASSUME IInv, CInv, pc # "down", j.status = "ready", AddRecord, dsb' \in {dsb, sb}, ~misled'
  PROVE  CInv'
<1>1. next' = next + 1
  BY DEF AddRecord
<1>2. ASSUME ~dropped'
      PROVE  /\ Left(next', added') /\ Sound(dsb', next') /\ LeftFor(dsb')
             /\ Sound(sb', next') /\ LeftFor(sb')
  <2>1. /\ Left(next', added') /\ Sound(sb, next') /\ LeftFor(sb)
        /\ Sound(dsb, next') /\ LeftFor(dsb)
        /\ sb' = sb \/ (Sound(sb', next') /\ LeftFor(sb'))
    BY <1>1, <1>2, AddContent
  <2> QED BY <2>1
<1> QED BY <1>2, LeftInv DEF Left, LeftFor

LEMMA LogContent == ASSUME IInv, CInv, Log, ~misled' PROVE CInv'
BY AddedContent DEF Log, Ready

LEMMA FlushCommitContent == ASSUME IInv, CInv, FlushCommit, ~misled' PROVE CInv'
BY AddedContent DEF FlushCommit, Ready

(* The steps that change neither the region nor the device's records.      *)
LEMMA QuietContent ==
  ASSUME CInv, UNCHANGED <<j, disk, sb, added, next, dropped>>, dsb' \in {dsb, sb},
         pc # "down"
  PROVE  CInv'
BY LeftInv DEF CInv

LEMMA WriteBackContent == ASSUME IInv, CInv, WriteBack PROVE CInv'
BY QuietContent DEF WriteBack

LEMMA FlushPackContent == ASSUME IInv, CInv, FlushPack, ~misled' PROVE CInv'
<1>1. CASE AddRecord
  BY <1>1, AddedContent DEF FlushPack, Ready
<1>2. CASE UNCHANGED <<j, disk, sb, added, next, dropped>>
  BY <1>2, QuietContent DEF FlushPack, Ready
<1> QED BY <1>1, <1>2 DEF FlushPack

LEMMA CrashContent == ASSUME IInv, CInv, Crash PROVE CInv'
BY LeftInv DEF CInv, Crash

LEMMA StutterContent == ASSUME CInv, UNCHANGED vars PROVE CInv'
BY LeftInv DEF CInv, vars

(* A window that is only its last record.                                  *)
LEMMA StartContent ==
  ASSUME NEW r, Region(r), InUse(r), NEW ad, NEW dk, NEW n, Content(r, ad, dk, n),
         NEW t, t = [r EXCEPT !.start = Prev(r.end)]
  PROVE  Content(t, ad, dk, n) /\ \A x : Buffered(r, x) => Buffered(t, x)
<1> DEFINE e == r.end
           x == Current(r, ad)
           y == Current(t, ad)
<1>1. /\ t.start = Prev(e) /\ t.end = e /\ t.segno = r.segno /\ t.buf = r.buf
      /\ t.lastSync = r.lastSync
  BY DEF Region
<1>2. e \in Positions /\ r.start \in Positions /\ r.start # e /\ Prev(e) \in Positions /\ Prev(e) # e
  BY Before DEF Region, InUse
<1>3. x.start = r.start /\ x.end = e /\ x.ids = ad /\ y.start = Prev(e) /\ y.end = e /\ y.ids = ad
  BY <1>1 DEF Current
<1>4. ASSUME NEW p \in Window(Prev(e), e)
      PROVE  p \in Window(r.start, e)
  <2>1. p \in Positions /\ Dist(e, p) >= MaxRecords - 1
    BY <1>2, WindowDist, DistPrev
  <2>2. Dist(e, r.start) < MaxRecords /\ Dist(e, r.start) \in Nat /\ Dist(e, p) \in Nat
    BY <1>2, <2>1, DistRange
  <2>3. Dist(e, p) >= Dist(e, r.start)
    BY <2>1, <2>2, Sizes
  <2> QED BY <1>2, <2>1, <2>3, WindowDist
<1> HIDE DEF x, y
<1>5. \A p \in Wide(y) : p \in Wide(x)
  BY <1>3, <1>4 DEF Wide
<1>6. Sound(x, n) /\ Buffered(r, x)
  BY DEF Content, x
<1>7. Sound(y, n)
  BY <1>2, <1>3, <1>4, <1>6 DEF Sound
<1>8. Buffered(t, y)
  BY <1>1, <1>3, <1>5, <1>6 DEF Buffered, Top
<1>9. TailHeld(t, ad, dk) /\ RestWritten(t, ad, dk)
  <2>1. TailHeld(r, ad, dk) /\ RestWritten(r, ad, dk)
    BY DEF Content
  <2>2. \A p : Until(t, p) <=> Until(r, p)
    BY <1>1 DEF Until
  <2>3. TailHeld(t, ad, dk)
    BY <1>1, <2>1, <2>2 DEF TailHeld
  <2>4. RestWritten(t, ad, dk)
    BY <1>1, <1>5, <2>1, <2>2 DEF RestWritten, x, y
  <2> QED BY <2>3, <2>4
<1>10. BufferTyped(t)
  BY <1>1 DEF Content, BufferTyped
<1>11. Content(t, ad, dk, n)
  BY <1>1, <1>7, <1>8, <1>9, <1>10 DEF Content, y
<1>12. \A z : Buffered(r, z) => Buffered(t, z)
  BY <1>1, BufferedSame
<1> QED BY <1>11, <1>12

LEMMA FlushStartContent == ASSUME IInv, CInv, FlushStart PROVE CInv'
<1>1. /\ pc = "start" /\ j.status = "ready" /\ j' = [j EXCEPT !.start = Prev(j.end)]
      /\ UNCHANGED <<disk, sb, dsb, added, next, dropped>>
  BY DEF FlushStart, Ready, Prev
<1>2. Region(j) /\ InUse(j)
  BY <1>1 DEF IInv, Typing
<1>3. ASSUME ~dropped
      PROVE  Content(j', added, disk, next) /\ Buffered(j', sb) /\ Buffered(j', dsb)
  <2>1. Content(j, added, disk, next) /\ Buffered(j, sb) /\ Buffered(j, dsb)
    BY <1>1, <1>3 DEF CInv
  <2> QED BY <1>1, <1>2, <2>1, StartContent
<1> QED BY <1>1, <1>3, LeftInv DEF CInv

(* Flush and shutdown.                                                     *)
LEMMA SyncedContent ==
  ASSUME IInv, CInv, pc # "down", j.status = "ready", Sync(j), UNCHANGED <<added, next, dropped>>,
         ~dropped, ~misled'
  PROVE  /\ Left(next, added) /\ Sound(sb', next) /\ LeftFor(sb')
         /\ Sound(dsb, next) /\ LeftFor(dsb)
<1>1. Region(j) /\ InUse(j) /\ Tail(j) /\ Super(sb) /\ Super(dsb) /\ next \in Nat
  BY DEF IInv, Typing
<1>2. /\ disk \in [Positions -> Nat] /\ Sound(dsb, next) /\ OnDisk(dsb, disk)
      /\ Sound(sb, next) /\ OnDisk(sb, disk)
      /\ Content(j, added, disk, next) /\ Buffered(j, dsb) /\ Buffered(j, sb)
  BY DEF CInv
<1>3. Placed(sb) /\ Placed(dsb)
  BY <1>1 DEF Placed, Super
<1>4. /\ Left(next, added)
      /\ \A x : Placed(x) /\ OnDisk(x, disk) /\ Buffered(j, x) => LeftFor(x)
      /\ sb' = sb \/ (Sound(sb', next) /\ LeftFor(sb'))
  BY <1>1, <1>2, SyncContent, SyncFollows
<1> QED BY <1>2, <1>3, <1>4

LEMMA FlushSyncContent == ASSUME IInv, CInv, FlushSync, ~misled' PROVE CInv'
<1>1. /\ pc # "down" /\ j.status = "ready" /\ Sync(j) /\ UNCHANGED <<dsb, added, next, dropped>>
  BY DEF FlushSync, Ready
<1>2. ~dropped => /\ Left(next, added) /\ Sound(sb', next) /\ LeftFor(sb')
                  /\ Sound(dsb, next) /\ LeftFor(dsb)
  BY <1>1, SyncedContent
<1> QED BY <1>1, <1>2, LeftInv DEF Left, LeftFor

LEMMA DestroyContent == ASSUME IInv, CInv, Destroy, ~misled' PROVE CInv'
<1>1. /\ pc # "down" /\ j.status = "ready" /\ Sync(j) /\ UNCHANGED <<added, next, dropped>>
      /\ dsb' \in {dsb, sb'}
  BY DEF Destroy, Ready
<1>2. ~dropped => /\ Left(next, added) /\ Sound(sb', next) /\ LeftFor(sb')
                  /\ Sound(dsb, next) /\ LeftFor(dsb)
  BY <1>1, SyncedContent
<1> QED BY <1>1, <1>2, LeftInv DEF Left, LeftFor

-----------------------------------------------------------------------------
(* journal_buffer_load.                                                    *)

(* The positions it reads, from s on and, in the segment of e, up to e.    *)
Reads(s, e, p) ==
  /\ SegOf(p) = SegOf(s) /\ BlockOf(s) <= BlockOf(p)
  /\ e > s /\ SegOf(s) = SegOf(e) => BlockOf(p) <= BlockOf(e - 1)

LEMMA ReadSet ==
  ASSUME NEW s \in Positions, NEW e \in Positions, NEW p,
         NEW b1, b1 = IF e > s /\ SegOf(s) = SegOf(e) THEN BlockOf(e - 1)
                      ELSE (SegOf(s) + 1) * BlocksPerSegment - 1
  PROVE  (\E b \in BlockOf(s) .. b1 : p \in InBlock(b)) <=> p \in Positions /\ Reads(s, e, p)
<1> DEFINE b0 == BlockOf(s)
           g == SegOf(s)
           K == BlocksPerSegment
           near == e > s /\ SegOf(s) = SegOf(e)
           z == (g + 1) * K
<1>1. s \in Nat /\ e \in Nat /\ b0 \in Nat /\ g \in Nat /\ K \in Nat \ {0} /\ SegOfBlock(b0) = g
  BY Sizes, BlockSeg
<1>2. g * K <= b0 /\ g * K \in Nat /\ z \in Nat /\ b0 < z
  <2>1. g = b0 \div K
    BY <1>1 DEF SegOfBlock
  <2> HIDE DEF b0, g, K
  <2>2. (b0 \div K) * K <= b0 /\ b0 < (b0 \div K + 1) * K
    BY <1>1, Div
  <2> QED BY <1>1, <2>1, <2>2
<1>3. near => e - 1 \in Nat /\ s <= e - 1 /\ SegOf(e - 1) = g /\ BlockOf(e - 1) \in Nat
  <2> SUFFICES ASSUME near
               PROVE  e - 1 \in Nat /\ s <= e - 1 /\ SegOf(e - 1) = g /\ BlockOf(e - 1) \in Nat
    OBVIOUS
  <2>1. e - 1 \in Nat /\ s <= e - 1 /\ e - 1 <= e
    BY <1>1
  <2>2. SegOf(s) <= SegOf(e - 1) /\ SegOf(e - 1) <= SegOf(e) /\ SegOf(e - 1) \in Nat
    BY <1>1, <2>1, SegMono, BlockSeg
  <2>3. SegOf(e - 1) = g
    BY <1>1, <2>2
  <2> QED BY <2>1, <2>3, BlockSeg
<1>4. b1 \in Int
  <2>1. CASE near
    BY <1>3, <2>1
  <2>2. CASE ~near
    <3>1. b1 = z - 1
      BY <2>2
    <3> HIDE DEF z
    <3> QED BY <1>2, <3>1
  <2> QED BY <2>1, <2>2
<1>5. ASSUME NEW b \in b0 .. b1
      PROVE  b \in Nat /\ SegOfBlock(b) = g
  <2>1. b \in Nat /\ b0 <= b /\ b <= b1
    BY <1>1, <1>4
  <2>2. CASE near
    <3>1. b1 = BlockOf(e - 1) /\ b1 \in Nat /\ SegOfBlock(b1) = g
      BY <1>3, <2>2, BlockSeg
    <3>2. b0 \div K <= b \div K /\ b \div K <= b1 \div K
      BY <1>1, <2>1, <3>1, DivMono
    <3>3. b \div K \in Nat
      BY <1>1, <2>1, Div
    <3>4. b \div K = g
      BY <1>1, <3>1, <3>2, <3>3 DEF SegOfBlock
    <3> QED BY <2>1, <3>4 DEF SegOfBlock
  <2>3. CASE ~near
    <3>1. b1 = z - 1
      BY <2>3
    <3>2. b < z
      <4> HIDE DEF z
      <4> QED BY <1>2, <2>1, <3>1
    <3>3. g * K <= b
      <4> DEFINE u == g * K
      <4> HIDE DEF u
      <4>1. u <= b0 /\ u \in Nat
        BY <1>2 DEF u
      <4>2. u <= b
        BY <1>1, <2>1, <4>1
      <4> QED BY <4>2 DEF u
    <3> HIDE DEF g, K
    <3>4. b \div K = g
      BY <1>1, <2>1, <3>2, <3>3, DivUnique
    <3> QED BY <2>1, <3>4 DEF SegOfBlock, K
  <2> QED BY <2>2, <2>3
<1>6. ASSUME NEW b \in b0 .. b1, p \in InBlock(b)
      PROVE  p \in Positions /\ Reads(s, e, p)
  <2>1. b \in Nat /\ SegOfBlock(b) = g
    BY <1>5
  <2>2. p \in Nat
    BY <1>6, <2>1, Sizes DEF InBlock
  <2>3. BlockOf(p) = b
    BY <1>6, <2>1, <2>2, InBlockOf
  <2>4. SegOf(p) = g
    BY <2>1, <2>2, <2>3, BlockSeg
  <2>5. p \in Positions
    BY <2>2, <2>4, InRing
  <2>6. b0 <= b /\ b <= b1
    BY <1>1, <1>4, <2>1
  <2> QED BY <2>3, <2>4, <2>5, <2>6 DEF Reads
<1>7. ASSUME p \in Positions, Reads(s, e, p)
      PROVE  \E b \in b0 .. b1 : p \in InBlock(b)
  <2> DEFINE b == BlockOf(p)
  <2>1. p \in Nat /\ b \in Nat /\ b0 <= b /\ SegOfBlock(b) = g
    BY <1>7, Sizes, BlockSeg DEF Reads
  <2>2. b <= b1
    <3>1. CASE near
      BY <1>7, <3>1 DEF Reads
    <3>2. CASE ~near
      <4>1. b1 = z - 1
        BY <3>2
      <4>2. b < (b \div K + 1) * K
        <5> HIDE DEF b, K
        <5> QED BY <1>1, <2>1, Div
      <4>3. b < z
        BY <2>1, <4>2 DEF SegOfBlock
      <4> HIDE DEF z, b
      <4> QED BY <1>2, <2>1, <4>1, <4>3
    <3> QED BY <3>1, <3>2
  <2>3. p \in InBlock(b)
    BY <2>1, InBlockOf
  <2>4. b \in b0 .. b1
    <3> HIDE DEF b, b0
    <3> QED BY <1>1, <1>4, <2>1, <2>2
  <2> QED BY <2>3, <2>4
<1> QED BY <1>6, <1>7

LEMMA LoadBuffer ==
  ASSUME NEW r, Region(r), BufferTyped(r), disk \in [Positions -> Nat],
         NEW s \in Positions, NEW e \in Positions, s # e, NEW t, t = Load(r, s, e)
  PROVE  /\ BufferTyped(t)
         /\ \A p \in Positions : SegOf(p) = SegOf(s) =>
              t.buf[Place(p)] = IF Reads(s, e, p) THEN disk[p] ELSE r.buf[Place(p)]
<1> DEFINE b1 == IF e > s /\ SegOf(s) = SegOf(e) THEN BlockOf(e - 1)
                 ELSE (SegOf(s) + 1) * BlocksPerSegment - 1
           read == UNION {InBlock(b) : b \in BlockOf(s) .. b1}
           buf == [k \in DOMAIN r.buf |->
                     IF \E p \in read : Place(p) = k
                     THEN disk[CHOOSE p \in read : Place(p) = k] ELSE r.buf[k]]
<1>1. t = [r EXCEPT !.segno = SegOf(s), !.buf = buf]
  BY DEF Load
<1>2. \A p : p \in read <=> p \in Positions /\ Reads(s, e, p)
  <2>1. ASSUME NEW p
        PROVE  p \in read <=> p \in Positions /\ Reads(s, e, p)
    <3>1. p \in read <=> \E b \in BlockOf(s) .. b1 : p \in InBlock(b)
      OBVIOUS
    <3> QED BY <3>1, ReadSet
  <2> QED BY <2>1
<1> HIDE DEF read
<1>3. t.buf = buf
  <2> HIDE DEF buf
  <2> QED BY <1>1 DEF Region
<1>4. DOMAIN r.buf = 0 .. RecordsPerSegment - 1 /\ r.buf \in [0 .. RecordsPerSegment - 1 -> Nat]
  BY DEF BufferTyped
<1>5. BufferTyped(t)
  <2>1. ASSUME NEW k \in 0 .. RecordsPerSegment - 1
        PROVE  buf[k] \in Nat
    <3>1. CASE \E p \in read : Place(p) = k
      <4> DEFINE c == CHOOSE p \in read : Place(p) = k
      <4>1. c \in read
        BY <3>1
      <4>2. buf[k] = disk[c]
        BY <1>4, <3>1
      <4> HIDE DEF c, buf
      <4> QED BY <1>2, <4>1, <4>2
    <3>2. CASE ~\E p \in read : Place(p) = k
      BY <1>4, <3>2
    <3> QED BY <3>1, <3>2
  <2>2. buf \in [0 .. RecordsPerSegment - 1 -> Nat]
    BY <1>4, <2>1
  <2> QED BY <1>3, <2>2 DEF BufferTyped
<1>6. ASSUME NEW p \in Positions, SegOf(p) = SegOf(s)
      PROVE  t.buf[Place(p)] = IF Reads(s, e, p) THEN disk[p] ELSE r.buf[Place(p)]
  <2>1. Place(p) \in 0 .. RecordsPerSegment - 1
    BY Places
  <2>2. \A q \in read : Place(q) = Place(p) => q = p
    <3>1. ASSUME NEW q \in read, Place(q) = Place(p)
          PROVE  q = p
      <4>1. q \in Positions /\ SegOf(q) = SegOf(s)
        BY <1>2 DEF Reads
      <4> QED BY <1>6, <3>1, <4>1, SamePlace
    <3> QED BY <3>1
  <2>3. CASE Reads(s, e, p)
    <3> DEFINE c == CHOOSE q \in read : Place(q) = Place(p)
    <3>1. p \in read
      BY <1>2, <2>3
    <3>2. c \in read /\ Place(c) = Place(p)
      BY <3>1
    <3>3. buf[Place(p)] = disk[c]
      BY <1>4, <2>1, <3>1
    <3> HIDE DEF c, buf
    <3> QED BY <1>3, <2>2, <2>3, <3>2, <3>3
  <2>4. CASE ~Reads(s, e, p)
    <3>1. ~\E q \in read : Place(q) = Place(p)
      BY <1>2, <2>2, <2>4
    <3>2. buf[Place(p)] = r.buf[Place(p)]
      BY <1>4, <2>1, <3>1
    <3> HIDE DEF buf
    <3> QED BY <1>3, <2>4, <3>2
  <2> QED BY <2>3, <2>4
<1> QED BY <1>5, <1>6

(* A reload: where the superblock has a record the buffer has that one or a*)
(* later one, and up to the end in its segment what is on the device.      *)
Loaded(t, x) ==
  \A p \in Wide(x) : SegOf(p) = t.segno =>
    /\ t.buf[Place(p)] >= x.ids[p]
    /\ SegOf(x.end) = t.segno /\ p < x.end => t.buf[Place(p)] = disk[p]

LEMMA LoadedContent ==
  ASSUME NEW x, Placed(x), x.start # x.end, NEW n \in Nat, Sound(x, n), OnDisk(x, disk),
         disk \in [Positions -> Nat],
         NEW t, BufferTyped(t), t.start = x.start, t.end = x.end, Loaded(t, x),
         t.lastSync = x.end
  PROVE  Content(t, x.ids, disk, n) /\ Buffered(t, x)
<1> DEFINE e == x.end
           y == Current(t, x.ids)
<1>1. y.start = x.start /\ y.end = e /\ y.ids = x.ids
  BY DEF Current
<1>2. e \in Positions /\ x.start \in Positions /\ e \in Nat /\ x.ids \in [Positions -> 0 .. n - 1]
  BY Sizes DEF Placed, Sound
<1> HIDE DEF y
<1>3. Sound(y, n)
  BY <1>1 DEF Sound
<1>4. Wide(y) = Wide(x)
  BY <1>1 DEF Wide
<1>5. \A p : p \notin Window(e, e)
  BY <1>2, WindowDist
<1>6. Buffered(t, x) /\ Buffered(t, y)
  BY <1>1, <1>4, <1>5 DEF Buffered, Loaded
<1>7. TailHeld(t, x.ids, disk) /\ RestWritten(t, x.ids, disk)
  <2>1. t.lastSync = e
    OBVIOUS
  <2>2. ASSUME NEW p \in Positions, Until(t, p), BlockOf(p) >= BlockOf(e)
        PROVE  \/ t.buf[Place(p)] = x.ids[p]
               \/ t.buf[Place(p)] = disk[p] /\ disk[p] > x.ids[p]
    <3>1. SegOf(p) = t.segno /\ SegOf(e) = t.segno /\ p < e /\ p \in Nat
      BY <2>1, <2>2, Sizes DEF Until
    <3>2. BlockOf(p) <= BlockOf(e) /\ BlockOf(p) \in Nat /\ BlockOf(e) \in Nat
      BY <1>2, <3>1, BlockMono, BlockSeg
    <3>3. p \in Wide(x)
      BY <2>2, <3>1, <3>2 DEF Wide
    <3>4. t.buf[Place(p)] = disk[p] /\ disk[p] >= x.ids[p]
      BY <3>1, <3>3 DEF Loaded, OnDisk
    <3>5. disk[p] \in Nat /\ x.ids[p] \in Nat
      BY <1>2
    <3> QED BY <3>4, <3>5
  <2>3. TailHeld(t, x.ids, disk)
    BY <2>1, <2>2 DEF TailHeld
  <2>4. RestWritten(t, x.ids, disk)
    BY <1>4 DEF RestWritten, OnDisk, y
  <2> QED BY <2>3, <2>4
<1> QED BY <1>3, <1>6, <1>7 DEF Content, y

(* A window within one segment is read as a whole.                         *)
LEMMA LoadOne ==
  ASSUME NEW x, Placed(x), x.start # x.end, OnDisk(x, disk), disk \in [Positions -> Nat],
         SegOf(x.start) = SegOf(Prev(x.end)), x.start <= Prev(x.end),
         NEW r, Region(r), BufferTyped(r), NEW t, t = Load(r, x.start, x.end)
  PROVE  Loaded(t, x)
<1> DEFINE s == x.start
           e == x.end
<1>1. /\ s \in Positions /\ e \in Positions /\ s \in Nat /\ e \in Nat /\ Prev(e) \in Nat
      /\ (e > 0 => Prev(e) = e - 1)
  BY Before, Sizes DEF Placed
<1>2. t.segno = SegOf(s)
  BY LoadFields
<1>3. \A p \in Positions : SegOf(p) = SegOf(s) =>
        t.buf[Place(p)] = IF Reads(s, e, p) THEN disk[p] ELSE r.buf[Place(p)]
  BY <1>1, LoadBuffer
<1>4. ASSUME NEW p \in Wide(x), SegOf(p) = SegOf(s)
      PROVE  p \in Positions /\ Reads(s, e, p)
  <2>1. CASE p \in Window(s, e)
    <3>1. p \in Positions /\ p \in Nat
      BY <1>1, <2>1, WindowDist, Sizes
    <3>2. CASE e > 0
      <4>1. s <= e - 1 /\ e - 1 \in Nat /\ s < e
        BY <1>1, <3>2
      <4>2. s <= p /\ p <= e - 1
        BY <1>1, <2>1, <4>1 DEF Window
      <4>3. BlockOf(s) <= BlockOf(p) /\ BlockOf(p) <= BlockOf(e - 1)
        BY <1>1, <3>1, <4>1, <4>2, BlockMono
      <4> QED BY <1>4, <3>1, <4>3 DEF Reads
    <3>3. CASE e = 0
      <4>1. s <= p
        BY <1>1, <2>1, <3>3, <3>1 DEF Window
      <4>2. BlockOf(s) <= BlockOf(p) /\ ~(e > s)
        BY <1>1, <3>1, <3>3, <4>1, BlockMono
      <4> QED BY <1>4, <3>1, <4>2 DEF Reads
    <3> QED BY <1>1, <3>2, <3>3
  <2>2. CASE p \in Positions /\ BlockOf(p) = BlockOf(e) /\ p < e
    <3>1. p \in Nat /\ p <= e - 1 /\ e - 1 \in Nat /\ e - 1 <= e /\ s <= e - 1
      BY <1>1, <2>2, Sizes
    <3>2. /\ BlockOf(p) <= BlockOf(e - 1) /\ BlockOf(e - 1) <= BlockOf(e) /\ BlockOf(s) <= BlockOf(e - 1)
          /\ BlockOf(s) \in Nat /\ BlockOf(e) \in Nat /\ BlockOf(e - 1) \in Nat
      BY <1>1, <3>1, BlockMono, BlockSeg
    <3> QED BY <1>4, <2>2, <3>2 DEF Reads
  <2> QED BY <2>1, <2>2 DEF Wide
<1> QED BY <1>2, <1>3, <1>4 DEF Loaded, OnDisk

(* The first position of a segment.                                        *)
LEMMA SegFirst ==
  ASSUME NEW g \in 0 .. NrJournalSegment - 1, NEW s, s = g * RecordsPerSegment
  PROVE  s \in Positions /\ SegOf(s) = g /\ \A p \in Positions : SegOf(p) = g => s <= p
<1> DEFINE R == RecordsPerSegment
           k == NrJournalSegment
<1>1. R \in Nat \ {0} /\ MaxRecords = R * k /\ g + 1 <= k /\ g \in Nat /\ k \in Nat
  BY Sizes DEF MaxRecords
<1>2. SegOf(s) = g /\ s \in Nat
  BY <1>1, SegStart
<1>3. s \in Positions
  <2> HIDE DEF R, k
  <2>1. (g + 1) * R <= k * R /\ k * R = R * k /\ (g + 1) * R = g * R + R
    BY <1>1, MulMono, MulComm
  <2> DEFINE v == k * R
  <2>2. v \in Nat /\ s + R <= v /\ v = MaxRecords
    BY <1>1, <2>1 DEF R
  <2> HIDE DEF v
  <2>3. s < MaxRecords
    BY <1>1, <1>2, <2>2
  <2> QED BY <1>2, <2>3, Sizes DEF Positions
<1>4. ASSUME NEW p \in Positions, SegOf(p) = g
      PROVE  s <= p
  <2>1. p = s + Place(p) /\ Place(p) \in 0 .. R - 1
    BY <1>4, Places
  <2> QED BY <1>1, <1>2, <2>1
<1> QED BY <1>2, <1>3, <1>4

(* journal_recover ends with the segment of the last record in the buffer. *)
LEMMA LoadLast ==
  ASSUME NEW x, Placed(x), x.start # x.end, NEW n \in Nat, Sound(x, n), OnDisk(x, disk),
         disk \in [Positions -> Nat],
         NEW a, a = SegOf(Prev(x.end)),
         NEW r, Region(r), BufferTyped(r),
         SegOf(x.start) = a /\ Prev(x.end) < x.start =>
           \E o : Region(o) /\ BufferTyped(o) /\ r = Load(o, SegBack(a) * RecordsPerSegment, x.end),
         NEW t, t = Load(r, a * RecordsPerSegment, x.end)
  PROVE  BufferTyped(t) /\ Loaded(t, x)
<1> DEFINE s == x.start
           e == x.end
           R == RecordsPerSegment
           k == NrJournalSegment
           S(g) == g * R
<1>1. /\ s \in Positions /\ e \in Positions /\ s \in Nat /\ e \in Nat /\ Prev(e) \in Positions
      /\ (e > 0 => Prev(e) = e - 1) /\ x.ids \in [Positions -> 0 .. n - 1] /\ Ordered(x.ids, e)
  BY Before, Sizes DEF Placed, Sound
<1>2. a \in 0 .. k - 1 /\ k \in Nat \ {0, 1} /\ a \in Nat
  <2>1. SegOf(Prev(e)) \in 0 .. k - 1
    BY <1>1, SegBounds
  <2>2. a \in 0 .. k - 1
    BY <2>1
  <2>3. k \in Nat \ {0, 1}
    BY Sizes
  <2> HIDE DEF k
  <2> QED BY <2>2, <2>3
<1>3. ASSUME NEW g \in 0 .. k - 1
      PROVE  S(g) \in Positions /\ SegOf(S(g)) = g /\ \A p \in Positions : SegOf(p) = g => S(g) <= p
  BY SegFirst
<1>4. S(a) # e
  <2>1. CASE e = 0
    <3>1. Prev(e) = MaxRecords - 1
      BY <2>1, Sizes DEF Prev
    <3>2. SegOf(e) # a
      BY <2>1, <3>1, Ends
    <3> QED BY <1>2, <1>3, <3>2
  <2>2. CASE e > 0
    <3>1. S(a) <= Prev(e) /\ Prev(e) = e - 1
      BY <1>1, <1>2, <1>3, <2>2
    <3> DEFINE u == S(a)
    <3>2. u \in Nat /\ u <= e - 1
      BY <1>2, <1>3, <3>1, Sizes
    <3> HIDE DEF u
    <3>3. u # e
      BY <1>1, <3>2
    <3> QED BY <3>3 DEF u
  <2> QED BY <1>1, <2>1, <2>2
<1> DEFINE sa == S(a)
<1>5. sa \in Positions /\ SegOf(sa) = a /\ sa # e /\ t = Load(r, sa, e) /\ sa \in Nat
      /\ \A p \in Positions : SegOf(p) = a => sa <= p
  BY <1>2, <1>3, <1>4, Sizes
<1> HIDE DEF sa
<1>6. t.segno = a
  BY <1>5, LoadFields
<1>7. /\ BufferTyped(t)
      /\ \A p \in Positions : SegOf(p) = a =>
           t.buf[Place(p)] = IF Reads(sa, e, p) THEN disk[p] ELSE r.buf[Place(p)]
  BY <1>1, <1>5, LoadBuffer
<1>8. ASSUME NEW p \in Positions, SegOf(p) = a, ~Reads(sa, e, p)
      PROVE  SegOf(e) = a /\ p >= e
  <2>1. sa <= p /\ p \in Nat
    BY <1>5, <1>8, Sizes
  <2>2. BlockOf(sa) <= BlockOf(p)
    BY <1>5, <2>1, BlockMono
  <2>3. e > sa /\ SegOf(e) = a /\ ~(BlockOf(p) <= BlockOf(e - 1))
    BY <1>5, <1>8, <2>2 DEF Reads
  <2>4. e - 1 \in Nat
    BY <1>1, <1>5, <2>3
  <2>5. ~(p <= e - 1)
    BY <2>1, <2>3, <2>4, BlockMono
  <2> QED BY <1>1, <2>1, <2>3, <2>5
<1>9. ASSUME NEW p \in Wide(x), SegOf(p) = a, ~Reads(sa, e, p)
      PROVE  r.buf[Place(p)] >= x.ids[p]
  <2> DEFINE q == Back(p)
             sq == S(SegBack(a))
  <2>1. p \in Positions /\ p \in Nat
    BY <1>1, WindowDist, Sizes DEF Wide
  <2>2. SegOf(e) = a /\ p >= e
    BY <1>8, <1>9, <2>1
  <2>3. p \in Window(s, e)
    BY <1>1, <2>1, <2>2 DEF Wide
  <2>4. s > e /\ p >= s
    BY <1>1, <2>1, <2>2, <2>3 DEF Window
  <2>5. SegOf(s) = a
    <3>1. SegOf(e) <= SegOf(s) /\ SegOf(s) <= SegOf(p) /\ SegOf(s) \in Nat
      BY <1>1, <2>1, <2>4, SegMono, BlockSeg
    <3> QED BY <1>2, <1>9, <2>2, <3>1
  <2>6. Prev(e) < s
    <3>1. e > 0
      BY <1>1, <2>2, Before
    <3> QED BY <1>1, <2>4, <3>1
  <2>7. PICK o : Region(o) /\ BufferTyped(o) /\ r = Load(o, sq, e)
    BY <2>5, <2>6
  <2>8. SegBack(a) \in 0 .. k - 1 /\ SegBack(a) # a
    <3>1. SegBack(a) = IF a = 0 THEN k - 1 ELSE a - 1
      BY <1>2, SegBackValue
    <3> HIDE DEF k
    <3> QED BY <1>2, <3>1
  <2>9. sq \in Positions /\ SegOf(sq) = SegBack(a) /\ sq # e /\ sq \in Nat
        /\ \A z \in Positions : SegOf(z) = SegBack(a) => sq <= z
    BY <1>3, <2>2, <2>8, Sizes
  <2>10. q \in Positions /\ Place(q) = Place(p) /\ SegOf(q) = SegBack(a)
    BY <1>9, <2>1, BackSegment
  <2> HIDE DEF q, sq
  <2>11. Reads(sq, e, q)
    <3>1. sq <= q /\ q \in Nat
      BY <2>9, <2>10, Sizes
    <3>2. BlockOf(sq) <= BlockOf(q)
      BY <2>9, <3>1, BlockMono
    <3> QED BY <2>2, <2>8, <2>9, <2>10, <3>2 DEF Reads
  <2>12. r.buf[Place(q)] = disk[q]
    BY <1>1, <2>7, <2>9, <2>10, <2>11, LoadBuffer
  <2>13. p < e + R
    <3>1. p = a * R + Place(p) /\ e = a * R + Place(e) /\ Place(p) \in 0 .. R - 1 /\ Place(e) \in 0 .. R - 1
      BY <1>1, <1>9, <2>1, <2>2, Places
    <3> DEFINE u == a * R
    <3>2. u \in Nat /\ p = u + Place(p) /\ e = u + Place(e) /\ R \in Nat
      BY <1>2, <3>1, Sizes
    <3> HIDE DEF u
    <3> QED BY <3>1, <3>2
  <2>14. Dist(e, q) >= Dist(e, p)
    <3>1. Back(p) \notin Window(e, e) => Dist(e, Back(p)) >= Dist(e, p)
      BY <1>1, <2>1, <2>2, <2>13, BackWindow
    <3> QED BY <1>1, <3>1, WindowDist DEF q
  <2>15. q \in Wide(x) /\ x.ids[q] >= x.ids[p]
    <3>1. Dist(e, p) >= Dist(e, s) /\ Dist(e, p) \in Nat /\ Dist(e, q) \in Nat /\ Dist(e, s) \in Nat
      BY <1>1, <2>1, <2>3, <2>10, WindowDist, DistRange
    <3>2. q \in Window(s, e)
      BY <1>1, <2>10, <2>14, <3>1, WindowDist
    <3>3. x.ids[p] <= x.ids[q]
      BY <1>1, <2>1, <2>10, <2>14, <3>1 DEF Ordered
    <3> QED BY <1>1, <2>1, <2>10, <3>2, <3>3 DEF Wide
  <2>16. disk[q] >= x.ids[q] /\ disk[q] \in Nat /\ x.ids[q] \in Nat /\ x.ids[p] \in Nat
    <3>1. disk[q] >= x.ids[q]
      BY <2>15 DEF OnDisk
    <3>2. disk[q] \in Nat
      BY <2>10
    <3>3. x.ids[q] \in 0 .. n - 1 /\ x.ids[p] \in 0 .. n - 1
      BY <1>1, <2>1, <2>10
    <3> QED BY <3>1, <3>2, <3>3
  <2> QED BY <2>10, <2>12, <2>15, <2>16
<1>10. Loaded(t, x)
  <2> SUFFICES ASSUME NEW p \in Wide(x), SegOf(p) = a
               PROVE  /\ t.buf[Place(p)] >= x.ids[p]
                      /\ SegOf(e) = a /\ p < e => t.buf[Place(p)] = disk[p]
    BY <1>6 DEF Loaded
  <2>1. p \in Positions /\ p \in Nat
    BY <1>1, WindowDist, Sizes DEF Wide
  <2>2. CASE Reads(sa, e, p)
    BY <1>7, <2>1, <2>2 DEF OnDisk
  <2>3. CASE ~Reads(sa, e, p)
    BY <1>1, <1>7, <1>8, <1>9, <2>1, <2>3
  <2> QED BY <2>2, <2>3
<1> QED BY <1>7, <1>10

LEMMA LoadTyped ==
  ASSUME NEW r, Region(r), BufferTyped(r), disk \in [Positions -> Nat],
         NEW s \in Positions, NEW e \in Positions, NEW t, t = Load(r, s, e)
  PROVE  BufferTyped(t)
<1>1. CASE s # e
  BY <1>1, LoadBuffer
<1>2. CASE s = e
  <2>1. t = [r EXCEPT !.segno = SegOf(s), !.buf = [k \in DOMAIN r.buf |-> r.buf[k]]]
    BY <1>2 DEF Load
  <2>2. t.buf = [k \in DOMAIN r.buf |-> r.buf[k]]
    BY <2>1 DEF Region
  <2>3. t.buf = r.buf
    BY <2>2 DEF BufferTyped
  <2> QED BY <2>3 DEF BufferTyped
<1> QED BY <1>1, <1>2

LEMMA RecoverLoaded ==
  ASSUME NEW x, Placed(x), x.start # x.end, NEW n \in Nat, Sound(x, n), OnDisk(x, disk),
         disk \in [Positions -> Nat],
         NEW q, Region(q), BufferTyped(q), q.start = x.start, q.end = x.end,
         NEW r, r = Load(q, x.start, x.end), NEW t, t = Recover(r)
  PROVE  BufferTyped(t) /\ Loaded(t, x)
<1> DEFINE e == x.end
           last == Prev(e)
           a == SegOf(last)
           b == SegOf(x.start)
           k == NrJournalSegment
           moves == IF a = b /\ last < x.start THEN k ELSE (a - b + k) % k
           sz == SegBack(a) * RecordsPerSegment
           sa == a * RecordsPerSegment
           before == IF moves < 2 THEN r ELSE Load(r, sz, e)
           u == IF moves = 0 THEN r ELSE Load(before, sa, before.end)
<1>1. /\ Region(r) /\ r.segno = b /\ r.start = x.start /\ r.end = e
  BY LoadFields
<1>2. x.start \in Positions /\ e \in Positions /\ last \in Positions
  BY Before DEF Placed
<1>3. BufferTyped(r)
  BY <1>2, LoadTyped
<1>4. t = [u EXCEPT !.lastSync = e]
  BY <1>1 DEF Recover, Prev, SegBack
<1>5. a \in 0 .. k - 1 /\ b \in 0 .. k - 1 /\ k \in Nat \ {0, 1}
  BY <1>2, SegBounds, Sizes
<1>6. moves = 0 => a = b /\ ~(last < x.start)
  <2> HIDE DEF a, b, k, last
  <2>1. (a - b + k) % k = 0 => a = b
    BY <1>5
  <2> QED BY <1>5, <2>1
<1>7. SegBack(a) \in 0 .. k - 1
  <2>1. SegBack(a) = IF a = 0 THEN k - 1 ELSE a - 1
    BY <1>5, SegBackValue
  <2> HIDE DEF a, k
  <2> QED BY <1>5, <2>1
<1>8. a = b /\ last < x.start => ~(moves < 2)
  <2> HIDE DEF a, b, k, last
  <2> QED BY <1>5
<1>9. sz \in Positions /\ sa \in Positions
  BY <1>5, <1>7, SegFirst
<1> HIDE DEF moves, sz
<1>10. Region(before) /\ BufferTyped(before) /\ before.end = e
  <2>1. CASE moves < 2
    BY <1>1, <1>3, <2>1
  <2>2. CASE ~(moves < 2)
    <3>1. before = Load(r, sz, e)
      BY <2>2
    <3> HIDE DEF before
    <3> QED BY <1>1, <1>2, <1>3, <1>9, <3>1, LoadFields, LoadTyped
  <2> QED BY <2>1, <2>2
<1>11. SegOf(x.start) = a /\ last < x.start =>
         \E o : Region(o) /\ BufferTyped(o) /\ before = Load(o, SegBack(a) * RecordsPerSegment, e)
  BY <1>1, <1>3, <1>8 DEF sz
<1> HIDE DEF before
<1>12. Region(u) /\ BufferTyped(u) /\ Loaded(u, x)
  <2>1. CASE moves = 0
    <3>1. u = r
      BY <2>1
    <3>2. x.start <= last
      <4>1. x.start \in Nat /\ last \in Nat /\ ~(last < x.start)
        BY <1>2, <1>6, <2>1, Sizes
      <4> HIDE DEF last
      <4> QED BY <4>1
    <3>3. Loaded(r, x)
      BY <1>6, <2>1, <3>2, LoadOne
    <3> QED BY <1>1, <1>3, <3>1, <3>3
  <2>2. CASE moves # 0
    <3>1. u = Load(before, sa, e)
      BY <1>10, <2>2
    <3> HIDE DEF u
    <3>2. Region(u)
      BY <1>10, <3>1, LoadFields
    <3> DEFINE c == a
    <3>3. c = SegOf(Prev(x.end))
      OBVIOUS
    <3>4. u = Load(before, c * RecordsPerSegment, x.end)
      BY <3>1
    <3>5. SegOf(x.start) = c /\ Prev(x.end) < x.start =>
            \E o : Region(o) /\ BufferTyped(o) /\ before = Load(o, SegBack(c) * RecordsPerSegment, x.end)
      BY <1>11
    <3> HIDE DEF c
    <3>6. BufferTyped(u) /\ Loaded(u, x)
      BY <1>10, <3>3, <3>4, <3>5, LoadLast
    <3> QED BY <3>2, <3>6
  <2> QED BY <2>1, <2>2
<1> HIDE DEF u
<1>13. t.buf = u.buf /\ t.segno = u.segno
  BY <1>4, <1>12 DEF Region
<1> QED BY <1>12, <1>13 DEF BufferTyped, Loaded

LEMMA FreshTyped ==
  ASSUME NEW q, NEW s \in Positions, NEW e \in Positions, NEW g,
         q = [start |-> s, end |-> e, lastSync |-> 0, segno |-> g, status |-> "ready",
              buf |-> [k \in 0 .. RecordsPerSegment - 1 |-> 0]]
  PROVE  Region(q) /\ BufferTyped(q) /\ q.start = s /\ q.end = e /\ q.segno = g
         /\ q.status = "ready"
         /\ \A k \in 0 .. RecordsPerSegment - 1 : q.buf[k] = 0
BY DEF Region, BufferTyped

LEMMA OpenLoadContent == ASSUME IInv, CInv, OpenLoad PROVE CInv'
<1> SUFFICES ASSUME ~dropped' PROVE CInv'
  BY LeftInv
<1> DEFINE s == dsb.start
           e == dsb.end
<1>1. PICK q : q = [Fresh EXCEPT !.start = s, !.end = e]
  OBVIOUS
<1>2. PICK r : r = Load(q, s, e)
  OBVIOUS
<1>3. /\ pc = "down" /\ s # e /\ sb' = dsb /\ dsb' = dsb /\ disk' = disk /\ next' = next
      /\ j' = IF r.end = (r.start + 1) % MaxRecords THEN [r EXCEPT !.lastSync = r.end]
              ELSE Recover(r)
      /\ added' = dsb.ids /\ dropped' = dropped
  BY <1>1, <1>2 DEF OpenLoad
<1>4. Super(dsb) /\ next \in Nat
  BY DEF IInv, Typing
<1>5. Placed(dsb) /\ s \in Positions /\ e \in Positions
  BY <1>4 DEF Placed, Super
<1>6. disk \in [Positions -> Nat] /\ Sound(dsb, next) /\ OnDisk(dsb, disk)
  BY <1>3 DEF CInv
<1>7. Region(q) /\ BufferTyped(q) /\ q.start = s /\ q.end = e
  <2>1. q = [start |-> s, end |-> e, lastSync |-> 0, segno |-> 0, status |-> "ready",
             buf |-> [k \in 0 .. RecordsPerSegment - 1 |-> 0]]
    BY <1>1 DEF Fresh
  <2> QED BY <1>5, <2>1, FreshTyped
<1>8. Region(r) /\ r.segno = SegOf(s) /\ r.start = s /\ r.end = e
  BY <1>2, <1>7, LoadFields
<1>9. PICK t : t = j'
  OBVIOUS
<1>10. /\ BufferTyped(t) /\ Loaded(t, dsb) /\ t.start = s /\ t.end = e /\ t.lastSync = e
  <2>1. CASE e = (s + 1) % MaxRecords
    <3>1. t = [r EXCEPT !.lastSync = e] /\ Prev(e) = s
      BY <1>3, <1>5, <1>8, <1>9, <2>1, Advance
    <3>2. BufferTyped(r)
      BY <1>2, <1>3, <1>5, <1>6, <1>7, LoadTyped
    <3>3. s <= Prev(e) /\ SegOf(s) = SegOf(Prev(e))
      <4>1. s \in Nat
        BY <1>5, Sizes
      <4> QED BY <3>1, <4>1
    <3>4. Loaded(r, dsb)
      BY <1>2, <1>3, <1>5, <1>6, <1>7, <3>3, LoadOne
    <3>5. t.start = s /\ t.end = e /\ t.lastSync = e /\ t.buf = r.buf /\ t.segno = r.segno
      BY <1>8, <3>1 DEF Region
    <3> QED BY <3>2, <3>4, <3>5 DEF BufferTyped, Loaded
  <2>2. CASE e # (s + 1) % MaxRecords
    <3>1. t = Recover(r)
      BY <1>3, <1>8, <1>9, <2>2
    <3>2. BufferTyped(t) /\ Loaded(t, dsb)
      BY <1>2, <1>3, <1>4, <1>5, <1>6, <1>7, <3>1, RecoverLoaded
    <3>3. t.start = r.start /\ t.end = r.end /\ t.lastSync = r.end
      BY <1>8, <3>1, RecoverFields
    <3> QED BY <1>8, <3>2, <3>3
  <2> QED BY <2>1, <2>2
<1>11. Content(t, dsb.ids, disk, next) /\ Buffered(t, dsb)
  BY <1>3, <1>4, <1>5, <1>6, <1>10, LoadedContent
<1> QED BY <1>3, <1>6, <1>9, <1>11, LeftInv

LEMMA OpenEmptyContent == ASSUME IInv, CInv, OpenEmpty PROVE CInv'
<1> SUFFICES ASSUME ~dropped' PROVE CInv'
  BY LeftInv
<1>1. PICK q : q = [Fresh EXCEPT !.start = dsb.start, !.end = dsb.end, !.segno = SegOf(dsb.start)]
  OBVIOUS
<1>2. PICK n : n = next
  OBVIOUS
<1>3. PICK t : t = Store(q, n)
  OBVIOUS
<1>4. PICK ad : ad = added'
  OBVIOUS
<1>5. PICK u : u = j'
  OBVIOUS
<1>6. /\ pc = "down" /\ dsb.start = dsb.end /\ sb' = dsb /\ dsb' = dsb /\ disk' = disk
      /\ next' = n + 1 /\ u = [t EXCEPT !.lastSync = q.start]
      /\ ad = [dsb.ids EXCEPT ![dsb.end] = n] /\ dropped' = dropped
  BY <1>1, <1>2, <1>3, <1>4, <1>5 DEF OpenEmpty
<1>7. Super(dsb) /\ n \in Nat \ {0} /\ dsb.start = 0 /\ dsb.end = 0
  BY <1>2, <1>6 DEF IInv, Typing, Super
<1>8. disk \in [Positions -> Nat] /\ Sound(dsb, n) /\ OnDisk(dsb, disk) /\ dsb.ids = Zeros
  BY <1>2, <1>6 DEF CInv, Sound
<1>9. 0 \in Positions /\ SegOf(0) = 0 /\ BlockOf(0) = 0 /\ Place(0) = 0
      /\ 0 \in 0 .. RecordsPerSegment - 1
  <2>1. BlockOf(0) = 0 /\ Place(0) = 0
    BY Sizes DEF BlockOf, Place
  <2> QED BY <2>1, Ends, Sizes
<1>10. /\ Region(q) /\ BufferTyped(q) /\ q.start = 0 /\ q.end = 0 /\ q.segno = 0 /\ q.status = "ready"
       /\ \A k \in 0 .. RecordsPerSegment - 1 : q.buf[k] = 0
  <2>1. q = [start |-> 0, end |-> 0, lastSync |-> 0, segno |-> 0, status |-> "ready",
             buf |-> [k \in 0 .. RecordsPerSegment - 1 |-> 0]]
    BY <1>1, <1>7, <1>9 DEF Fresh
  <2> QED BY <1>9, <2>1, FreshTyped
<1>11. Region(t) /\ t.end = (0 + 1) % MaxRecords /\ t.segno = 0
  BY <1>3, <1>9, <1>10, StoreFields
<1>12. /\ t.buf = [q.buf EXCEPT ![0] = n] /\ BufferTyped(t)
       /\ t.start = IF t.end = 0 THEN (0 + 1) % MaxRecords ELSE 0
  <2>1. /\ t.buf = [q.buf EXCEPT ![Place(q.end)] = n] /\ BufferTyped(t)
        /\ t.start = IF t.end = q.start THEN (q.start + 1) % MaxRecords ELSE q.start
    BY <1>3, <1>7, <1>9, <1>10, StoreBuffer
  <2> QED BY <1>9, <1>10, <2>1
<1>13. (0 + 1) % MaxRecords = 1 /\ SegOf(1) = 0
  <2>1. (0 + 1) % MaxRecords = 1
    BY Sizes
  <2>2. SegOf(1) = 0
    BY Sizes DEF SegOf
  <2> QED BY <2>1, <2>2
<1>14. /\ u.start = 0 /\ u.end = 1 /\ u.segno = 0 /\ u.buf = t.buf /\ u.lastSync = 0
  BY <1>6, <1>10, <1>11, <1>12, <1>13 DEF Region
<1>15. Zeros \in [Positions -> 0 .. n - 1] /\ \A p \in Positions : Zeros[p] = 0
  BY <1>7 DEF Zeros
<1>16. ad[0] = n /\ \A p \in Positions : p # 0 => ad[p] = 0
  BY <1>6, <1>7, <1>8, <1>9, <1>15
<1>17. /\ u.buf[0] = n /\ BufferTyped(u)
       /\ \A p \in Positions : u.buf[Place(p)] \in Nat
  <2>1. u.buf[0] = n
    BY <1>9, <1>10, <1>12, <1>14 DEF BufferTyped
  <2>2. BufferTyped(u)
    BY <1>12, <1>14 DEF BufferTyped
  <2> QED BY <2>1, <2>2, Places DEF BufferTyped
<1>18. 1 \in Positions /\ Window(0, 1) = {0} /\ \A p : p \notin Window(1, 1) /\ p \notin Window(0, 0)
  <2>1. 1 \in Positions
    BY Sizes DEF Positions
  <2>2. Window(0, 1) = {0}
    BY DEF Window
  <2> QED BY <1>9, <2>1, <2>2, WindowDist
<1> DEFINE y == Current(u, ad)
<1>19. y.start = 0 /\ y.end = 1 /\ y.ids = ad
  BY <1>14 DEF Current
<1>20. Ordered(ad, 1) /\ ad \in [Positions -> 0 .. (n + 1) - 1]
  <2>1. Ordered(Zeros, 0)
    BY <1>15 DEF Ordered
  <2>2. ad = [Zeros EXCEPT ![0] = n]
    BY <1>6, <1>7, <1>8
  <2>3. n \in Nat
    BY <1>7
  <2> QED BY <1>9, <1>13, <1>15, <2>1, <2>2, <2>3, OrderedAdd
<1> HIDE DEF y
<1>21. Sound(y, n + 1)
  BY <1>7, <1>16, <1>18, <1>19, <1>20 DEF Sound
<1>22. \A p \in Wide(y) : p \in Positions
  BY <1>9, <1>18, <1>19 DEF Wide
<1>23. Buffered(u, y)
  BY <1>7, <1>9, <1>14, <1>16, <1>17, <1>18, <1>19 DEF Buffered
<1>24. Buffered(u, dsb)
  <2>1. Prev(dsb.end) \in Positions
    BY <1>7, <1>9, Before
  <2>2. Top(dsb) = 0 /\ \A p \in Positions : dsb.ids[p] = 0
    BY <1>8, <1>15, <2>1 DEF Top
  <2> QED BY <1>17, <2>2 DEF Buffered
<1>25. TailHeld(u, ad, disk)
  <2> SUFFICES ASSUME NEW p \in Positions, Until(u, p)
               PROVE  u.buf[Place(p)] = ad[p]
    BY DEF TailHeld
  <2>1. p < 1 /\ p \in Nat
    BY <1>13, <1>14, Sizes DEF Until
  <2>2. p = 0
    BY <2>1
  <2> QED BY <1>9, <1>16, <1>17, <2>2
<1>26. RestWritten(u, ad, disk)
  <2> SUFFICES ASSUME NEW p \in Wide(y)
               PROVE  (Until(u, p) /\ p >= 0) \/ disk[p] >= ad[p]
    BY <1>14 DEF RestWritten, y
  <2>1. CASE p = 0
    BY <1>9, <1>13, <1>14, <2>1 DEF Until
  <2>2. CASE p # 0
    BY <1>8, <1>16, <1>22, <2>2
  <2> QED BY <2>1, <2>2
<1>27. Content(u, ad, disk, n + 1)
  BY <1>17, <1>21, <1>23, <1>25, <1>26 DEF Content, y
<1>28. Sound(dsb, n + 1)
  BY <1>7, <1>8, SoundLater
<1> QED BY <1>4, <1>5, <1>6, <1>8, <1>24, <1>27, <1>28, LeftInv

(* The second inductive invariant holds until a sync is misled.            *)
THEOREM ContentInvariant == Spec => [](misled \/ CInv)
<1>1. Init => CInv
  BY InitContent
<1>2. IInv /\ CInv /\ ~misled' /\ [Next]_vars => CInv'
  BY OpenEmptyContent, OpenLoadContent, LogContent, WriteBackContent, FlushCommitContent,
     FlushPackContent, FlushStartContent, FlushSyncContent, DestroyContent, CrashContent,
     StutterContent DEF Next
<1>3. misled /\ [Next]_vars => misled'
  BY MisledStays
<1> QED BY <1>1, <1>2, <1>3, JournalInvariant, PTL DEF Spec

(* The superblock on the device never claims a record that was not written,*)
(* however syncs fail, the ring comes round and the power fails, unless    *)
(* journal_get_block gave the buffer away with records unwritten or a sync *)
(* went by a last_sync_record nobody has set: for every geometry of the    *)
(* ring.                                                                   *)
THEOREM WindowWritten == Spec => []WindowWrittenUnlessAstray
<1>1. IInv /\ CInv => WindowWrittenUnlessAstray
  <2> SUFFICES ASSUME IInv, CInv, ~dropped, NEW p \in Window(dsb.start, dsb.end)
               PROVE  disk[p] >= dsb.ids[p] /\ disk[p] # 0
    BY DEF WindowWrittenUnlessAstray, Astray
  <2>1. disk \in [Positions -> Nat] /\ Sound(dsb, next) /\ OnDisk(dsb, disk)
    BY DEF CInv
  <2>2. dsb.start \in Positions /\ dsb.end \in Positions /\ dsb.ids \in [Positions -> Nat]
    BY DEF IInv, Typing, Super
  <2>3. p \in Positions /\ p \in Wide(dsb)
    BY <2>2, WindowDist DEF Wide
  <2>4. disk[p] >= dsb.ids[p] /\ dsb.ids[p] # 0
    BY <2>1, <2>3 DEF OnDisk, Sound
  <2>5. disk[p] \in Nat /\ dsb.ids[p] \in Nat
    BY <2>1, <2>2, <2>3
  <2> QED BY <2>4, <2>5
<1>2. misled => WindowWrittenUnlessAstray
  BY DEF WindowWrittenUnlessAstray, Astray
<1> QED BY <1>1, <1>2, JournalInvariant, ContentInvariant, PTL

(* The unwritten tail lies in the segment in the buffer.                   *)
LEMMA TailWindow ==
  ASSUME NEW r, Region(r), InUse(r), Halted(r, r.lastSync), NEW p \in Window(r.lastSync, r.end)
  PROVE  p \in Positions /\ Until(r, p) /\ p >= r.lastSync
<1> DEFINE l == r.lastSync
           e == r.end
           g == r.segno
           z == Prev(e)
<1>1. /\ l \in Positions /\ e \in Positions /\ l \in Nat /\ e \in Nat /\ l # e /\ SegOf(l) = g
      /\ SegOf(e) = g => l < e
      /\ g = SegOf(z) /\ z \in Positions /\ z \in Nat /\ (e > 0 => z = e - 1)
  BY Before, Sizes DEF Region, InUse, Halted
<1>2. p \in Positions /\ p \in Nat
  BY <1>1, WindowDist, Sizes
<1>3. SegOf(p) \in Nat /\ SegOf(e) \in Nat /\ g \in Nat
  BY <1>1, <1>2, BlockSeg
<1>4. l <= p /\ p <= z /\ (e > 0 => p < e)
  <2>1. CASE l < e
    <3>1. p \in l .. e - 1
      BY <1>1, <2>1 DEF Window
    <3> QED BY <1>1, <1>2, <2>1, <3>1
  <2>2. CASE ~(l < e)
    <3>1. e = 0
      <4> SUFFICES ASSUME e > 0 PROVE FALSE
        BY <1>1
      <4>1. e <= l /\ z <= e /\ SegOf(e) # g
        BY <1>1, <2>2
      <4>2. SegOf(z) <= SegOf(e) /\ SegOf(e) <= SegOf(l)
        BY <1>1, <4>1, SegMono
      <4> QED BY <1>1, <1>3, <4>1, <4>2
    <3>2. z = MaxRecords - 1
      BY <3>1, Sizes DEF Prev
    <3>3. l <= p
      BY <1>1, <1>2, <2>2, <3>1 DEF Window
    <3>4. p <= z
      BY <1>2, <3>2, Sizes DEF Positions
    <3> QED BY <3>1, <3>3, <3>4
  <2> QED BY <2>1, <2>2
<1>5. SegOf(l) <= SegOf(p) /\ SegOf(p) <= SegOf(z)
  BY <1>1, <1>2, <1>4, SegMono
<1>6. SegOf(p) = g
  BY <1>1, <1>3, <1>5
<1>7. SegOf(e) = g => p < e
  BY <1>1, <1>4
<1> QED BY <1>1, <1>2, <1>4, <1>6, <1>7 DEF Until

(* Every record that is not written yet is in the buffer, which belongs to *)
(* the segment of all of them, so that the next sync can write it: for     *)
(* every geometry of the ring.                                             *)
THEOREM UnsyncedBuffered == Spec => []UnsyncedBufferedUnlessAstray
<1>1. IInv /\ CInv => UnsyncedBufferedUnlessAstray
  <2> SUFFICES ASSUME IInv, CInv, pc # "down", j.status = "ready", ~dropped,
                      NEW p \in Window(j.lastSync, j.end)
               PROVE  /\ SegOf(p) = j.segno
                      /\ \/ j.buf[Place(p)] = added[p]
                         \/ j.buf[Place(p)] = disk[p] /\ disk[p] > added[p]
    BY DEF UnsyncedBufferedUnlessAstray, Astray
  <2>1. Region(j) /\ InUse(j) /\ Tail(j)
    BY DEF IInv, Typing
  <2>2. TailHeld(j, added, disk)
    BY DEF CInv, Content
  <2>3. Halted(j, j.lastSync)
    <3>1. j.lastSync # j.end
      BY <2>1, WindowDist DEF Region
    <3> QED BY <2>1, <3>1 DEF Tail
  <2>4. p \in Positions /\ Until(j, p) /\ p >= j.lastSync
    BY <2>1, <2>3, TailWindow
  <2>5. BlockOf(p) >= BlockOf(j.lastSync)
    <3>1. p \in Nat /\ j.lastSync \in Nat /\ j.lastSync <= p
      BY <2>3, <2>4, Sizes DEF Halted
    <3>2. BlockOf(j.lastSync) <= BlockOf(p) /\ BlockOf(p) \in Nat /\ BlockOf(j.lastSync) \in Nat
      BY <3>1, BlockMono, BlockSeg
    <3> QED BY <3>2
  <2> QED BY <2>2, <2>4, <2>5 DEF TailHeld, Until
<1>2. misled => UnsyncedBufferedUnlessAstray
  BY DEF UnsyncedBufferedUnlessAstray, Astray
<1> QED BY <1>1, <1>2, JournalInvariant, ContentInvariant, PTL
=============================================================================
