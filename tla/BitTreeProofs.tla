--------------------------- MODULE BitTreeProofs ---------------------------
(***************************************************************************)
(* Proofs about BitTree, for every length of leaves, degree, capacity and  *)
(* node size that give a tree of three levels: where the nodes of a file   *)
(* go, and that a complete file reads back as what was added.              *)
(***************************************************************************)
EXTENDS BitTree, TLAPS, WellFoundedInduction, FiniteSetTheorems

(* The least number principle, for the inductions below.                   *)
LEMMA Least ==
  ASSUME NEW T \in SUBSET Nat, T # {}
  PROVE  \E x \in T : \A y \in T : x <= y
<1> DEFINE R == {ss \in Nat \X Nat : ss[1] < ss[2]}
<1>1. IsWellFoundedOn(R, Nat)
  BY NatLessThanWellFounded DEF OpToRel
<1>2. PICK x \in T : \A y \in T : ~(<<y, x>> \in R)
  <2> HIDE DEF R
  <2>1. \E x \in T : \A y \in T : ~(<<y, x>> \in R)
    BY <1>1, WFMin
  <2> QED BY <2>1
<1>3. ASSUME NEW y \in T PROVE x <= y
  <2>1. y \in Nat /\ x \in Nat
    OBVIOUS
  <2>2. y < x => <<y, x>> \in R
    BY <2>1
  <2>3. ~(y < x)
    <3> HIDE DEF R
    <3> QED BY <1>2, <2>2
  <2> QED BY <2>1, <2>3
<1> QED BY <1>3

-----------------------------------------------------------------------------
(* The sizes.  The loops of __bit_height and __bit_array_len end: a level  *)
(* has Degree times the nodes of the one above it.                         *)

Climbs(f, lo, D, m, a, z) ==
  f = [s \in lo .. D * m |-> IF s < m THEN a[s] + f[s * D] ELSE z]

LEMMA Step ==
  ASSUME NEW D \in Nat \ {0, 1}, NEW m \in Nat \ {0}, NEW s \in Nat \ {0}, s < m
  PROVE  s * D \in Nat /\ s < s * D /\ s * D <= D * m
<1>1. s * D \in Nat
  OBVIOUS
<1>2. s < s * D
  OBVIOUS
<1>3. s * D <= m * D
  OBVIOUS
<1>4. m * D = D * m
  OBVIOUS
<1> QED BY <1>1, <1>2, <1>3, <1>4

LEMMA LoopEnds ==
  ASSUME NEW D \in Nat \ {0, 1}, NEW m \in Nat \ {0}, NEW a \in [Nat -> Nat], NEW z \in Nat
  PROVE  \E f : Climbs(f, 1, D, m, a, z)
<1> DEFINE N == D * m
           T == {k \in Nat : k < N /\ ~\E f : Climbs(f, N - k, D, m, a, z)}
<1>1. N \in Nat \ {0} /\ m <= N
  OBVIOUS
<1> SUFFICES ASSUME T # {} PROVE FALSE
  <2>1. N - 1 \in Nat /\ N - 1 < N /\ N - (N - 1) = 1
    BY <1>1
  <2>2. N - 1 \notin T
    OBVIOUS
  <2> HIDE DEF N
  <2> QED BY <2>1, <2>2
<1> HIDE DEF N
<1>2. PICK k \in T : \A x \in T : k <= x
  <2> HIDE DEF T
  <2>1. T \in SUBSET Nat
    BY DEF T
  <2> QED BY <2>1, Least
<1> DEFINE lo == N - k
<1>3. k \in Nat /\ k < N /\ lo \in Nat \ {0} /\ lo <= N
  BY <1>1, <1>2
<1>4. ~\E f : Climbs(f, lo, D, m, a, z)
  BY <1>2
<1>5. CASE k = 0
  <2> DEFINE g == [s \in lo .. D * m |-> z]
  <2>1. lo = N /\ ~(N < m)
    BY <1>1, <1>5
  <2>2. \A s \in lo .. D * m : s = N
    BY <2>1, <1>1 DEF N
  <2>4. \A s \in lo .. D * m : ~(s < m)
    BY <2>1, <2>2
  <2>5. \A s \in lo .. D * m : g[s] = IF s < m THEN a[s] + g[s * D] ELSE z
    BY <2>4
  <2>6. g = [s \in lo .. D * m |-> g[s]]
    OBVIOUS
  <2>3. Climbs(g, lo, D, m, a, z)
    <3> HIDE DEF g
    <3> QED BY <2>5, <2>6 DEF Climbs
  <2> QED BY <2>3, <1>4
<1>6. CASE k # 0
  <2>1. k - 1 \in Nat /\ k - 1 < N /\ k - 1 \notin T
    <3> HIDE DEF T
    <3>1. k - 1 \in Nat /\ k - 1 < N /\ ~(k <= k - 1)
      BY <1>1, <1>3, <1>6
    <3> QED BY <1>2, <3>1
  <2>2. PICK f : Climbs(f, lo + 1, D, m, a, z)
    <3>1. N - (k - 1) = lo + 1
      BY <1>1, <1>3
    <3> QED BY <2>1, <3>1
  <2> DEFINE v == IF lo < m THEN a[lo] + f[lo * D] ELSE z
             g == [s \in lo .. D * m |-> IF s = lo THEN v ELSE f[s]]
  <2>3. ASSUME NEW s \in lo .. D * m
        PROVE  g[s] = IF s < m THEN a[s] + g[s * D] ELSE z
    <3>1. s \in Nat \ {0} /\ lo <= s
      BY <1>3
    <3>2. s < m => s * D \in lo .. D * m /\ s * D # lo
      BY <1>1, <1>3, <3>1, Step DEF N
    <3>3. s < m => g[s * D] = f[s * D]
      BY <3>2
    <3>4. CASE s = lo
      BY <3>3, <3>4
    <3>5. CASE s # lo
      <4>1. s \in lo + 1 .. D * m
        BY <1>1, <1>3, <3>1, <3>5 DEF N
      <4>2. f[s] = IF s < m THEN a[s] + f[s * D] ELSE z
        BY <2>2, <4>1 DEF Climbs
      <4>3. g[s] = f[s]
        BY <3>5
      <4> QED BY <3>3, <4>2, <4>3
    <3> QED BY <3>4, <3>5
  <2>4. g = [s \in lo .. D * m |-> g[s]]
    OBVIOUS
  <2>5. Climbs(g, lo, D, m, a, z)
    <3> HIDE DEF g
    <3> QED BY <2>3, <2>4 DEF Climbs
  <2> QED BY <2>5, <1>4
<1> QED BY <1>5, <1>6

LEMMA LoopCounts ==
  ASSUME NEW D \in Nat \ {0, 1}, NEW m \in Nat \ {0}, NEW a \in [Nat -> Nat], NEW z \in Nat,
         NEW f, Climbs(f, 1, D, m, a, z)
  PROVE  \A s \in 1 .. D * m : f[s] \in Nat /\ f[s] >= z
<1> DEFINE N == D * m
           Good(s) == f[s] \in Nat /\ f[s] >= z
           T == {k \in Nat : k < N /\ ~Good(N - k)}
<1>1. N \in Nat \ {0} /\ m <= N
  OBVIOUS
<1>2. \A s \in 1 .. N : f[s] = IF s < m THEN a[s] + f[s * D] ELSE z
  BY DEF Climbs
<1> SUFFICES ASSUME NEW s0 \in 1 .. N, ~Good(s0) PROVE FALSE
  OBVIOUS
<1> HIDE DEF N, Good
<1>3. N - s0 \in T
  <2>1. N - s0 \in Nat /\ N - s0 < N /\ N - (N - s0) = s0
    BY <1>1
  <2> QED BY <2>1
<1>4. PICK k \in T : \A x \in T : k <= x
  <2>1. T \in SUBSET Nat /\ T # {}
    BY <1>3
  <2> HIDE DEF T
  <2> QED BY <2>1, Least
<1> DEFINE s == N - k
<1>5. k \in Nat /\ k < N /\ s \in 1 .. N /\ ~Good(s) /\ s \in Nat \ {0}
  BY <1>1, <1>4
<1>6. CASE ~(s < m)
  <2>1. f[s] = z
    BY <1>2, <1>5, <1>6
  <2> QED BY <1>5, <2>1 DEF Good
<1>7. CASE s < m
  <2> DEFINE t == s * D
  <2>1. t \in Nat /\ s < t /\ t <= N
    <3> HIDE DEF s
    <3> QED BY <1>5, <1>7, Step DEF N
  <2>2. f[s] = a[s] + f[t]
    BY <1>2, <1>5, <1>7
  <2> HIDE DEF t
  <2>3. N - t \in Nat /\ N - t < N /\ ~(k <= N - t) /\ N - (N - t) = t
    BY <1>1, <1>5, <2>1
  <2>4. Good(t)
    <3>1. N - t \notin T
      <4> HIDE DEF T
      <4> QED BY <1>4, <2>3
    <3> QED BY <2>3, <3>1
  <2>5. a[s] \in Nat
    BY <1>5
  <2>6. Good(s)
    <3> HIDE DEF s
    <3> QED BY <2>2, <2>4, <2>5 DEF Good
  <2> QED BY <1>5, <2>6
<1> QED BY <1>6, <1>7

LEMMA SizesNat ==
  /\ LeafLen \in Nat \ {0} /\ Degree \in Nat \ {0, 1} /\ Capacity \in Nat \ {0}
  /\ LeafSize \in Nat \ {0} /\ InnerSize \in Nat \ {0} /\ NrKey \in Nat \ {0}
  /\ BufferSize \in Nat \ {0} /\ InnerSize <= LeafSize /\ 3 * LeafSize <= BufferSize
BY SizesAssumption

Leaves == NrLeaf(Capacity)

(* Nodes are enough for the entries.                                       *)
LEMMA LeavesSuffice ==
  /\ Leaves \in Nat \ {0}
  /\ \A q \in Nat : q * LeafLen <= Capacity => q <= Leaves
  /\ \A q \in Nat : q * LeafLen < Capacity => q < Leaves
<1> DEFINE c == Capacity
           d == LeafLen
           x == c \div d
           y == c % d
<1>1. c \in Nat \ {0} /\ d \in Nat \ {0}
  BY SizesNat
<1>2. x \in Nat /\ y \in 0 .. d - 1
  BY <1>1
<1>3. c = x * d + y
  <2>1. y = c - x * d
    BY <1>1
  <2> QED BY <1>1, <1>2, <2>1
<1>4. Leaves = x + (IF y # 0 THEN 1 ELSE 0)
  BY DEF Leaves, NrLeaf
<1> HIDE DEF c, d, x, y
<1>5. Leaves \in Nat
  BY <1>2, <1>4
<1>6. ASSUME NEW q \in Nat, q * d <= c
      PROVE  q <= x
  <2> SUFFICES ASSUME x + 1 <= q PROVE FALSE
    BY <1>2
  <2>1. (x + 1) * d <= q * d
    BY <1>1, <1>2
  <2>2. (x + 1) * d = x * d + d
    BY <1>1, <1>2
  <2> DEFINE u == x * d
             v == q * d
  <2>3. u \in Nat /\ v \in Nat
    BY <1>1, <1>2
  <2>4. u + d <= v /\ v <= c /\ c = u + y
    BY <1>3, <1>6, <2>1, <2>2
  <2> HIDE DEF u, v
  <2> QED BY <1>1, <1>2, <2>3, <2>4
<1>7. ASSUME NEW q \in Nat, q * d < c
      PROVE  q < Leaves
  <2>1. CASE y # 0
    <3>1. q * d <= c
      BY <1>1, <1>7
    <3> QED BY <1>2, <1>4, <1>6, <2>1, <3>1
  <2>2. CASE y = 0
    <3>1. q * d <= c
      BY <1>1, <1>7
    <3>2. q <= x
      BY <1>6, <3>1
    <3>3. q # x
      BY <1>1, <1>2, <1>3, <1>7, <2>2
    <3> QED BY <1>2, <1>4, <2>2, <3>2, <3>3
  <2> QED BY <2>1, <2>2
<1>8. Leaves # 0
  <2>1. 0 * d < c
    BY <1>1
  <2>2. 0 < Leaves
    BY <1>7, <2>1
  <2> QED BY <2>2, <1>5
<1> QED BY <1>2, <1>4, <1>5, <1>6, <1>7, <1>8 DEF c, d

(* A tree of three levels has more leaves than one inner node can have and *)
(* no more than a full level of them, and its slot room for a root and     *)
(* Degree nodes between.                                                   *)
LEMMA ThreeLevels ==
  /\ Leaves <= Degree * Degree
  /\ BitSize(Capacity) = (1 + Degree) * InnerSize + Leaves * LeafSize
<1> DEFINE D == Degree
           m == Leaves
           a == [k \in Nat |-> 1]
           b == [k \in Nat |-> k]
           h == CHOOSE f : f = [size \in 1 .. D * m |-> IF size < m THEN 1 + f[size * D] ELSE 1]
           l == CHOOSE f : f = [size \in 1 .. D * m |-> IF size < m THEN size + f[size * D] ELSE 0]
<1>1. D \in Nat \ {0, 1} /\ m \in Nat \ {0}
  BY SizesNat, LeavesSuffice
<1>2. h = [size \in 1 .. D * m |-> IF size < m THEN 1 + h[size * D] ELSE 1]
  <2>1. a \in [Nat -> Nat]
    OBVIOUS
  <2>2. PICK f : Climbs(f, 1, D, m, a, 1)
    <3> HIDE DEF a, D, m
    <3> QED BY <1>1, <2>1, LoopEnds
  <2>3. \A s \in 1 .. D * m : a[s] = 1
    BY <1>1
  <2>4. f = [size \in 1 .. D * m |-> IF size < m THEN 1 + f[size * D] ELSE 1]
    <3> HIDE DEF a, D, m
    <3> QED BY <2>2, <2>3 DEF Climbs
  <2> HIDE DEF a, D, m
  <2> QED BY <2>4
<1>3. l = [size \in 1 .. D * m |-> IF size < m THEN size + l[size * D] ELSE 0]
  <2>1. b \in [Nat -> Nat]
    OBVIOUS
  <2>2. PICK f : Climbs(f, 1, D, m, b, 0)
    <3> HIDE DEF b, D, m
    <3> QED BY <1>1, <2>1, LoopEnds
  <2>3. \A s \in 1 .. D * m : b[s] = s
    BY <1>1
  <2>4. f = [size \in 1 .. D * m |-> IF size < m THEN size + f[size * D] ELSE 0]
    <3> HIDE DEF b, D, m
    <3> QED BY <2>2, <2>3 DEF Climbs
  <2> HIDE DEF b, D, m
  <2> QED BY <2>4
<1>4. Top = h[1]
  <2>1. Capacity # 0
    BY SizesNat
  <2> QED BY <2>1 DEF Top, Height, Leaves
<1>5. ArrayLen(Capacity) = l[1] + m
  <2>1. Capacity # 0
    BY SizesNat
  <2> QED BY <2>1 DEF ArrayLen, Leaves
<1>a. \A s \in 1 .. D * m : h[s] \in Nat /\ h[s] >= 1
  <2>1. a \in [Nat -> Nat] /\ \A s \in 1 .. D * m : a[s] = 1
    BY <1>1
  <2> HIDE DEF a, D, m, h
  <2>2. Climbs(h, 1, D, m, a, 1)
    BY <1>2, <2>1 DEF Climbs
  <2> QED BY <1>1, <2>1, <2>2, LoopCounts
<1> HIDE DEF h, l, D, m
<1>6. h[1] = 3
  BY <1>4, HeightAssumption
<1>7. 1 < m /\ 1 \in 1 .. D * m
  <2>1. 1 \in 1 .. D * m
    BY <1>1
  <2> QED BY <1>1, <1>2, <1>6, <2>1
<1>8. 1 * D = D /\ D \in 1 .. D * m
  BY <1>1
<1>9. h[D] = 2 /\ l[1] = 1 + l[D]
  <2>1. h[1] = 1 + h[D] /\ l[1] = 1 + l[D]
    BY <1>2, <1>3, <1>7, <1>8
  <2>2. h[D] \in Nat
    BY <1>a, <1>8
  <2> QED BY <1>6, <2>1, <2>2
<1> DEFINE e == D * D
<1>10. D < m /\ h[D] = 1 + h[e] /\ l[D] = D + l[e]
  <2>1. h[D] = IF D < m THEN 1 + h[e] ELSE 1
    BY <1>2, <1>8
  <2>2. D < m
    BY <1>9, <2>1
  <2> QED BY <1>3, <1>8, <2>1, <2>2
<1>11. e \in 1 .. D * m
  BY <1>1, <1>10, Step
<1> HIDE DEF e
<1>12. h[e] = 1
  <2>1. h[e] \in Nat
    BY <1>a, <1>11
  <2> QED BY <1>9, <1>10, <2>1
<1>13. ~(e < m)
  <2> SUFFICES ASSUME e < m PROVE FALSE
    OBVIOUS
  <2>1. h[e] = 1 + h[e * D]
    BY <1>2, <1>11
  <2>2. e * D \in 1 .. D * m
    <3>1. e \in Nat \ {0}
      BY <1>11
    <3>2. e * D \in Nat /\ e < e * D /\ e * D <= D * m
      BY <1>1, <3>1, Step
    <3> QED BY <3>1, <3>2
  <2>3. h[e * D] \in Nat /\ h[e * D] >= 1
    BY <1>a, <2>2
  <2> DEFINE w == h[e * D]
  <2> HIDE DEF w
  <2> QED BY <1>12, <2>1, <2>3 DEF w
<1>14. l[e] = 0 /\ l[1] = 1 + D
  <2>1. l[e] = 0
    BY <1>3, <1>11, <1>13
  <2> QED BY <1>1, <1>9, <1>10, <2>1
<1>15. m <= e
  BY <1>1, <1>11, <1>13
<1>16. ArrayLen(Capacity) - m = 1 + D
  BY <1>1, <1>5, <1>14
<1>17. BitSize(Capacity) = (1 + D) * InnerSize + m * LeafSize
  BY <1>16 DEF BitSize, m, Leaves
<1> QED BY <1>15, <1>17 DEF e, D, m

-----------------------------------------------------------------------------
(* Nodes one after the other between two positions.                        *)

Packed(S, lo, hi) ==
  /\ \A x \in S : x.pos \in Nat /\ x.leaf \in BOOLEAN /\ lo <= x.pos /\ x.pos + Size(x) <= hi
  /\ \A x, y \in S : x # y => x.pos + Size(x) <= y.pos \/ y.pos + Size(y) <= x.pos

LEMMA PackedUnion ==
  ASSUME NEW S, NEW T, NEW lo \in Nat, NEW mid \in Nat, NEW hi \in Nat, lo <= mid, mid <= hi,
         Packed(S, lo, mid), Packed(T, mid, hi)
  PROVE  Packed(S \cup T, lo, hi)
<1>1. \A x \in S \cup T : x.pos \in Nat /\ x.leaf \in BOOLEAN /\ Size(x) \in Nat
  BY SizesNat DEF Packed, Size
<1>2. ASSUME NEW x \in S \cup T
      PROVE  lo <= x.pos /\ x.pos + Size(x) <= hi
  <2>1. CASE x \in S
    BY <1>1, <2>1 DEF Packed
  <2>2. CASE x \in T
    BY <1>1, <2>2 DEF Packed
  <2> QED BY <2>1, <2>2
<1>3. ASSUME NEW x \in S \cup T, NEW y \in S \cup T, x # y
      PROVE  x.pos + Size(x) <= y.pos \/ y.pos + Size(y) <= x.pos
  <2>1. CASE x \in S /\ y \in S
    BY <1>3, <2>1 DEF Packed
  <2>2. CASE x \in T /\ y \in T
    BY <1>3, <2>2 DEF Packed
  <2>3. CASE x \in S /\ y \in T
    BY <1>1, <2>3 DEF Packed
  <2>4. CASE x \in T /\ y \in S
    BY <1>1, <2>4 DEF Packed
  <2> QED BY <2>1, <2>2, <2>3, <2>4
<1> QED BY <1>1, <1>2, <1>3 DEF Packed

LEMMA PackedOne ==
  ASSUME NEW x, NEW lo \in Nat, NEW hi \in Nat, x.pos = lo, x.leaf \in BOOLEAN, lo + Size(x) <= hi
  PROVE  Packed({x}, lo, hi)
BY DEF Packed

LEMMA PackedNone ==
  ASSUME NEW lo, NEW hi
  PROVE  Packed({}, lo, hi)
BY DEF Packed

-----------------------------------------------------------------------------
(* Building a level.                                                       *)

Entry == (0 .. NrKey - 1) \X {"val", "neg"}
Kid == [key : 0 .. NrKey - 1, pos : Nat]

Tower(t, lo) ==
  /\ t.ctx \in [0 .. 2 -> Seq(Kid)]
  /\ t.at \in Nat /\ lo <= t.at
  /\ Packed(t.new, lo, t.at)

Due(t, i, complete) ==
  IF complete THEN t.ctx[i - 1] # <<>> ELSE Len(t.ctx[i - 1]) = Degree

LEMMA TwoLevels ==
  ASSUME NEW S, NEW c \in [0 .. 2 -> S], NEW a \in S, NEW b \in S, NEW i \in {1, 2},
         NEW d, d = [c EXCEPT ![i - 1] = a, ![i] = b]
  PROVE  /\ d \in [0 .. 2 -> S] /\ d[i - 1] = a /\ d[i] = b
         /\ \A j \in 0 .. 2 : j # i /\ j # i - 1 => d[j] = c[j]
<1>1. i - 1 \in 0 .. 2 /\ i \in 0 .. 2 /\ i # i - 1
  OBVIOUS
<1>2. d = [[c EXCEPT ![i - 1] = a] EXCEPT ![i] = b]
  OBVIOUS
<1> QED BY <1>1, <1>2

(* A level that is due gets one parent, its own list is empty again.       *)
LEMMA LevelBuilt ==
  ASSUME NEW t, NEW lo \in Nat, Tower(t, lo), NEW i \in {1, 2}, NEW complete \in BOOLEAN,
         Due(t, i, complete)
  PROVE  LET u == BuildLevel(t, i, complete)
         IN /\ Tower(u, lo)
            /\ u.at = t.at + InnerSize
            /\ Len(u.ctx[i - 1]) = 0
            /\ Len(u.ctx[i]) = Len(t.ctx[i]) + 1
            /\ \A j \in 0 .. 2 : j # i /\ j # i - 1 => u.ctx[j] = t.ctx[j]
<1> DEFINE u == BuildLevel(t, i, complete)
           below == t.ctx[i - 1]
           kid == [key |-> LastOf(below).key, pos |-> t.at]
           node == InnerNode(t.at, below)
           ctx2 == [t.ctx EXCEPT ![i - 1] = <<>>, ![i] = Append(t.ctx[i], kid)]
<1>1. u = [ctx |-> ctx2, at |-> t.at + InnerSize, new |-> t.new \cup {node}]
  BY DEF BuildLevel, Due
<1>2. u.ctx = ctx2 /\ u.at = t.at + InnerSize /\ u.new = t.new \cup {node}
  BY <1>1
<1>3. below \in Seq(Kid) /\ below # <<>> /\ t.ctx[i] \in Seq(Kid) /\ t.at \in Nat /\ lo <= t.at
  BY SizesNat DEF Due, Tower
<1>4. kid \in Kid
  <2>1. LastOf(below) \in Kid
    BY <1>3 DEF LastOf
  <2> QED BY <1>3, <2>1 DEF Kid
<1> HIDE DEF u, kid, node
<1>5. ctx2 \in [0 .. 2 -> Seq(Kid)] /\ ctx2[i - 1] = <<>> /\ ctx2[i] = Append(t.ctx[i], kid)
      /\ \A j \in 0 .. 2 : j # i /\ j # i - 1 => ctx2[j] = t.ctx[j]
  <2> DEFINE v == Append(t.ctx[i], kid)
  <2>1. t.ctx \in [0 .. 2 -> Seq(Kid)] /\ v \in Seq(Kid) /\ <<>> \in Seq(Kid)
    BY <1>3, <1>4 DEF Tower
  <2> HIDE DEF v
  <2>2. ctx2 = [t.ctx EXCEPT ![i - 1] = <<>>, ![i] = v]
    BY DEF v
  <2> HIDE DEF ctx2
  <2>3. ctx2 \in [0 .. 2 -> Seq(Kid)] /\ ctx2[i - 1] = <<>> /\ ctx2[i] = v
        /\ \A j \in 0 .. 2 : j # i /\ j # i - 1 => ctx2[j] = t.ctx[j]
    <3> DEFINE S == Seq(Kid)
               c == t.ctx
               e == <<>>
    <3>1. c \in [0 .. 2 -> S] /\ v \in S /\ e \in S /\ ctx2 = [c EXCEPT ![i - 1] = e, ![i] = v]
      BY <2>1, <2>2
    <3> HIDE DEF S, c, e
    <3>2. /\ ctx2 \in [0 .. 2 -> S] /\ ctx2[i - 1] = e /\ ctx2[i] = v
          /\ \A j \in 0 .. 2 : j # i /\ j # i - 1 => ctx2[j] = c[j]
      BY <3>1, TwoLevels
    <3> QED BY <3>2 DEF S, c, e
  <2> QED BY <2>3 DEF v
<1>6. Packed(t.new \cup {node}, lo, t.at + InnerSize)
  <2>1. node.pos = t.at /\ node.leaf = FALSE /\ node.leaf \in BOOLEAN /\ Size(node) = InnerSize
    BY DEF node, InnerNode, Size
  <2>2. Packed({node}, t.at, t.at + InnerSize)
    <3> DEFINE p == t.at
               q == t.at + InnerSize
    <3>1. p \in Nat /\ q \in Nat /\ node.pos = p /\ p + Size(node) <= q
      BY <1>3, <2>1, SizesNat
    <3> HIDE DEF p, q
    <3>2. Packed({node}, p, q)
      BY <2>1, <3>1, PackedOne
    <3> QED BY <3>2 DEF p, q
  <2>3. t.at + InnerSize \in Nat /\ t.at <= t.at + InnerSize
    BY <1>3, SizesNat
  <2>4. Packed(t.new, lo, t.at)
    BY DEF Tower
  <2> QED BY <1>3, <2>2, <2>3, <2>4, PackedUnion
<1>7. t.at + InnerSize \in Nat /\ lo <= t.at + InnerSize
  BY <1>3, SizesNat
<1>8. Tower(u, lo)
  BY <1>2, <1>5, <1>6, <1>7 DEF Tower
<1> QED BY <1>2, <1>3, <1>4, <1>5, <1>8 DEF u

LEMMA LevelKept ==
  ASSUME NEW t, NEW i, NEW complete \in BOOLEAN, ~Due(t, i, complete)
  PROVE  BuildLevel(t, i, complete) = t
BY DEF BuildLevel, Due

(* The loop over the levels is its two turns.                              *)
LEMMA BuildUnrolled ==
  ASSUME NEW s, NEW complete
  PROVE  Build(s, complete) = BuildLevel(BuildLevel(s, 1, complete), 2, complete)
<1> DEFINE b1 == BuildLevel(s, 1, complete)
           b2 == BuildLevel(b1, 2, complete)
           g == [i \in 0 .. 2 |-> IF i = 0 THEN s ELSE IF i = 1 THEN b1 ELSE b2]
           up == CHOOSE f : f = [i \in 0 .. Top - 1 |-> IF i = 0 THEN s ELSE BuildLevel(f[i - 1], i, complete)]
<1>1. Top - 1 = 2
  BY HeightAssumption
<1>2. \A i \in 0 .. 2 : g[i] = IF i = 0 THEN s ELSE BuildLevel(g[i - 1], i, complete)
  <2>1. g[0] = s /\ g[1] = b1 /\ g[2] = b2
    BY DEF g
  <2>2. \A i \in 0 .. 2 : i = 0 \/ i = 1 \/ i = 2
    OBVIOUS
  <2> HIDE DEF g
  <2> QED BY <2>1, <2>2
<1>3. g = [i \in 0 .. 2 |-> IF i = 0 THEN s ELSE BuildLevel(g[i - 1], i, complete)]
  <2>1. g = [i \in 0 .. 2 |-> g[i]]
    BY DEF g
  <2> HIDE DEF g
  <2> QED BY <1>2, <2>1
<1>4. up = [i \in 0 .. 2 |-> IF i = 0 THEN s ELSE BuildLevel(up[i - 1], i, complete)]
  <2> HIDE DEF g
  <2> QED BY <1>1, <1>3
<1>5. Build(s, complete) = up[2]
  BY <1>1 DEF Build
<1> HIDE DEF up, g
<1>6. up[0] = s
  BY <1>4
<1>7. up[1] = b1
  <2>1. up[1] = BuildLevel(up[1 - 1], 1, complete)
    BY <1>4
  <2> QED BY <1>6, <2>1
<1>8. up[2] = b2
  <2>1. up[2] = BuildLevel(up[2 - 1], 2, complete)
    BY <1>4
  <2> QED BY <1>7, <2>1
<1> QED BY <1>5, <1>8

-----------------------------------------------------------------------------
(* The tree so far: the numbers of leaves, nl, and of nodes above them, a, *)
(* give what waits at each level and, after base bytes of leaves, where the*)
(* next node goes.                                                         *)

Balanced(c, at, nl, a, base) ==
  /\ nl = a * Degree + Len(c[0])
  /\ a = Len(c[2]) * Degree + Len(c[1])
  /\ at = base + (a + Len(c[2])) * InnerSize

LEMMA LensNat ==
  ASSUME NEW c \in [0 .. 2 -> Seq(Kid)]
  PROVE  \A j \in 0 .. 2 : Len(c[j]) \in Nat /\ (c[j] = <<>> <=> Len(c[j]) = 0)
<1> SUFFICES ASSUME NEW j \in 0 .. 2 PROVE Len(c[j]) \in Nat /\ (c[j] = <<>> <=> Len(c[j]) = 0)
  OBVIOUS
<1>1. c[j] \in Seq(Kid)
  OBVIOUS
<1> QED BY <1>1

(* What add_entry's loop leaves of a balanced tree.                        *)
LEMMA AddBuilds ==
  ASSUME NEW s, NEW lo \in Nat, Tower(s, lo), Len(s.ctx[0]) <= Degree, Len(s.ctx[1]) < Degree,
         NEW nl \in Nat, NEW a \in Nat, NEW base \in Nat, Balanced(s.ctx, s.at, nl, a, base)
  PROVE  LET u == Build(s, FALSE)
         IN /\ Tower(u, lo)
            /\ Len(u.ctx[0]) < Degree /\ Len(u.ctx[1]) < Degree
            /\ u.at <= s.at + 2 * InnerSize
            /\ \E b \in Nat : Balanced(u.ctx, u.at, nl, b, base)
<1> DEFINE b1 == BuildLevel(s, 1, FALSE)
           b2 == BuildLevel(b1, 2, FALSE)
           n0 == Len(s.ctx[0])
           n1 == Len(s.ctx[1])
           n2 == Len(s.ctx[2])
           D == Degree
           I == InnerSize
<1>1. Build(s, FALSE) = b2
  BY BuildUnrolled
<1>2. n0 \in Nat /\ n1 \in Nat /\ n2 \in Nat /\ D \in Nat \ {0, 1} /\ I \in Nat \ {0} /\ s.at \in Nat
  BY LensNat, SizesNat DEF Tower
<1>3. nl = a * D + n0 /\ a = n2 * D + n1 /\ s.at = base + (a + n2) * I
  BY DEF Balanced
<1>4. Due(s, 1, FALSE) <=> n0 = D
  BY DEF Due
<1>5. \A t : Due(t, 2, FALSE) <=> Len(t.ctx[1]) = Degree
  BY DEF Due
<1>a. D = Degree /\ I = InnerSize /\ n0 <= D /\ n1 < D
  OBVIOUS
<1>b. n0 = Len(s.ctx[0]) /\ n1 = Len(s.ctx[1]) /\ n2 = Len(s.ctx[2])
  OBVIOUS
<1>c. ASSUME NEW u, u = b2, Tower(u, lo), Len(u.ctx[0]) < D, Len(u.ctx[1]) < D, u.at <= s.at + 2 * I,
             NEW b \in Nat, Balanced(u.ctx, u.at, nl, b, base)
      PROVE  /\ Tower(Build(s, FALSE), lo)
             /\ Len(Build(s, FALSE).ctx[0]) < Degree /\ Len(Build(s, FALSE).ctx[1]) < Degree
             /\ Build(s, FALSE).at <= s.at + 2 * InnerSize
             /\ \E k \in Nat : Balanced(Build(s, FALSE).ctx, Build(s, FALSE).at, nl, k, base)
  BY <1>1, <1>c
<1> HIDE DEF n0, n1, n2, D, I
<1>6. CASE n0 # D
  <2>1. b1 = s
    BY <1>4, <1>6, LevelKept
  <2>2. b2 = s
    <3>1. ~Due(s, 2, FALSE)
      <4>1. Len(s.ctx[1]) # Degree
        BY <1>2, <1>a, <1>b
      <4> QED BY <1>5, <4>1
    <3> QED BY <2>1, <3>1, LevelKept
  <2>3. n0 < D /\ s.at <= s.at + 2 * I
    BY <1>2, <1>6, <1>a
  <2> QED BY <1>c, <1>a, <1>b, <2>2, <2>3
<1>7. CASE n0 = D
  <2>1. /\ Tower(b1, lo) /\ b1.at = s.at + I /\ Len(b1.ctx[0]) = 0
        /\ Len(b1.ctx[1]) = n1 + 1 /\ b1.ctx[2] = s.ctx[2]
    <3>1. Due(s, 1, FALSE)
      BY <1>4, <1>7
    <3>2. 1 - 1 = 0 /\ 2 \in 0 .. 2 /\ 2 # 1 /\ 2 # 0
      OBVIOUS
    <3>3. /\ Tower(b1, lo) /\ b1.at = s.at + InnerSize /\ Len(b1.ctx[1 - 1]) = 0
          /\ Len(b1.ctx[1]) = Len(s.ctx[1]) + 1
          /\ \A j \in 0 .. 2 : j # 1 /\ j # 1 - 1 => b1.ctx[j] = s.ctx[j]
      BY <3>1, LevelBuilt
    <3> HIDE DEF b1
    <3> QED BY <1>a, <1>b, <3>2, <3>3
  <2> HIDE DEF b1
  <2>2. b1.at \in Nat
    BY <2>1 DEF Tower
  <2>3. nl = (a + 1) * D + 0 /\ a + 1 = n2 * D + (n1 + 1) /\ b1.at = base + (a + 1 + n2) * I
    <3>1. (a + 1) * D = a * D + D /\ (a + 1 + n2) * I = (a + n2) * I + I
      BY <1>2
    <3> DEFINE x == a * D
               y == n2 * D
               z == (a + n2) * I
    <3>2. x \in Nat /\ y \in Nat /\ z \in Nat
      BY <1>2
    <3>3. nl = x + n0 /\ a = y + n1 /\ s.at = base + z /\ (a + 1) * D = x + D /\ (a + 1 + n2) * I = z + I
      BY <1>3, <3>1
    <3> HIDE DEF x, y, z
    <3>4. nl = (a + 1) * D + 0
      BY <1>2, <1>7, <3>2, <3>3
    <3>5. a + 1 = y + (n1 + 1)
      BY <1>2, <3>2, <3>3
    <3>6. b1.at = base + (z + I)
      BY <1>2, <2>1, <3>2, <3>3
    <3> QED BY <3>3, <3>4, <3>5, <3>6 DEF y
  <2>4. CASE n1 + 1 # D
    <3>1. b2 = b1
      BY <1>5, <1>a, <2>1, <2>4, LevelKept
    <3>2. n1 + 1 < D /\ 0 < D /\ b1.at <= s.at + 2 * I
      BY <1>2, <1>a, <2>1, <2>4
    <3>3. Balanced(b1.ctx, b1.at, nl, a + 1, base)
      BY <1>a, <1>b, <2>1, <2>3 DEF Balanced
    <3>4. a + 1 \in Nat
      OBVIOUS
    <3> QED BY <1>c, <2>1, <3>1, <3>2, <3>3, <3>4
  <2>5. CASE n1 + 1 = D
    <3>1. /\ Tower(b2, lo) /\ b2.at = b1.at + I /\ Len(b2.ctx[1]) = 0
          /\ Len(b2.ctx[2]) = n2 + 1 /\ b2.ctx[0] = b1.ctx[0]
      <4>1. Due(b1, 2, FALSE)
        BY <1>5, <1>a, <2>1, <2>5
      <4>2. 2 - 1 = 1 /\ 0 \in 0 .. 2 /\ 0 # 1 /\ 0 # 2
        OBVIOUS
      <4>3. /\ Tower(b2, lo) /\ b2.at = b1.at + InnerSize /\ Len(b2.ctx[2 - 1]) = 0
            /\ Len(b2.ctx[2]) = Len(b1.ctx[2]) + 1
            /\ \A j \in 0 .. 2 : j # 2 /\ j # 2 - 1 => b2.ctx[j] = b1.ctx[j]
        BY <2>1, <4>1, LevelBuilt
      <4> HIDE DEF b2
      <4> QED BY <1>a, <1>b, <2>1, <4>2, <4>3
    <3> HIDE DEF b2
    <3>2. a + 1 = (n2 + 1) * D + 0 /\ b2.at = base + (a + 1 + (n2 + 1)) * I /\ b2.at <= s.at + 2 * I
      <4>1. (n2 + 1) * D = n2 * D + D /\ (a + 1 + (n2 + 1)) * I = (a + 1 + n2) * I + I
        BY <1>2
      <4> DEFINE y == n2 * D
                 z == (a + 1 + n2) * I
      <4>2. y \in Nat /\ z \in Nat
        BY <1>2
      <4>3. a + 1 = y + (n1 + 1) /\ b1.at = base + z
            /\ (n2 + 1) * D = y + D /\ (a + 1 + (n2 + 1)) * I = z + I
        BY <2>3, <4>1
      <4> HIDE DEF y, z
      <4>4. a + 1 = (n2 + 1) * D + 0
        BY <1>2, <2>5, <4>2, <4>3
      <4>5. b2.at = base + (z + I)
        BY <1>2, <3>1, <4>2, <4>3
      <4>6. b2.at <= s.at + 2 * I
        BY <1>2, <2>1, <3>1
      <4> QED BY <4>3, <4>4, <4>5, <4>6
    <3>3. Balanced(b2.ctx, b2.at, nl, a + 1, base)
      BY <1>a, <1>b, <2>1, <2>3, <3>1, <3>2 DEF Balanced
    <3>4. a + 1 \in Nat /\ 0 < D
      BY <1>2
    <3> QED BY <1>c, <2>1, <3>1, <3>2, <3>3, <3>4
  <2> QED BY <2>4, <2>5
<1> QED BY <1>6, <1>7

(* complete's loop adds at most one node per level.                        *)
LEMMA CompleteBuilds ==
  ASSUME NEW s, NEW lo \in Nat, Tower(s, lo)
  PROVE  LET u == Build(s, TRUE)
         IN /\ Tower(u, lo)
            /\ s.at <= u.at /\ u.at <= s.at + 2 * InnerSize
<1> DEFINE b1 == BuildLevel(s, 1, TRUE)
           b2 == BuildLevel(b1, 2, TRUE)
           I == InnerSize
<1>1. Build(s, TRUE) = b2
  BY BuildUnrolled
<1>2. s.at \in Nat /\ I \in Nat \ {0}
  BY SizesNat DEF Tower
<1>3. Tower(b1, lo) /\ (b1.at = s.at \/ b1.at = s.at + I)
  <2>1. CASE Due(s, 1, TRUE)
    BY <2>1, LevelBuilt
  <2>2. CASE ~Due(s, 1, TRUE)
    BY <2>2, LevelKept
  <2> QED BY <2>1, <2>2
<1> HIDE DEF b1
<1>4. Tower(b2, lo) /\ (b2.at = b1.at \/ b2.at = b1.at + I)
  <2>1. CASE Due(b1, 2, TRUE)
    BY <1>3, <2>1, LevelBuilt
  <2>2. CASE ~Due(b1, 2, TRUE)
    BY <1>3, <2>2, LevelKept
  <2> QED BY <2>1, <2>2
<1> HIDE DEF b2
<1>5. b1.at \in Nat /\ b2.at \in Nat
  BY <1>3, <1>4 DEF Tower
<1>6. s.at <= b2.at /\ b2.at <= s.at + 2 * I
  BY <1>2, <1>3, <1>4, <1>5
<1> QED BY <1>1, <1>4, <1>6

(* A balanced tree of no more than Leaves leaves is within its slot, also  *)
(* with the two nodes that complete may add when there is no root yet.     *)
LEMMA InSlot ==
  ASSUME NEW c \in [0 .. 2 -> Seq(Kid)], NEW at, NEW nl \in Nat, NEW a \in Nat,
         Balanced(c, at, nl, a, nl * LeafSize), nl <= Leaves
  PROVE  /\ at <= BitSize(Capacity)
         /\ c[2] = <<>> /\ Len(c[1]) < Degree => at + 2 * InnerSize <= nl * LeafSize + (1 + Degree) * InnerSize
<1> DEFINE D == Degree
           I == InnerSize
           L == LeafSize
           m == Leaves
           n0 == Len(c[0])
           n1 == Len(c[1])
           n2 == Len(c[2])
<1>1. /\ n0 \in Nat /\ n1 \in Nat /\ n2 \in Nat /\ D \in Nat \ {0, 1} /\ I \in Nat \ {0} /\ L \in Nat \ {0}
      /\ m \in Nat \ {0} /\ (c[2] = <<>> => n2 = 0)
  BY LensNat, SizesNat, LeavesSuffice
<1>2. nl = a * D + n0 /\ a = n2 * D + n1 /\ at = nl * L + (a + n2) * I
  BY DEF Balanced
<1>3. m <= D * D /\ BitSize(Capacity) = (1 + D) * I + m * L
  BY ThreeLevels
<1> HIDE DEF n0, n1, n2, D, I, L, m
<1>4. a <= D
  <2> SUFFICES ASSUME D + 1 <= a PROVE FALSE
    BY <1>1
  <2>1. (D + 1) * D <= a * D
    BY <1>1
  <2>2. (D + 1) * D = D * D + D
    BY <1>1
  <2> DEFINE e == D * D
             f == a * D
  <2>3. e \in Nat /\ f \in Nat /\ e + D <= f /\ nl = f + n0 /\ m <= e
    BY <1>1, <1>2, <1>3, <2>1, <2>2
  <2> HIDE DEF e, f
  <2> QED BY <1>1, <2>3 DEF m
<1>5. n2 <= 1
  <2> SUFFICES ASSUME 2 <= n2 PROVE FALSE
    BY <1>1
  <2>1. 2 * D <= n2 * D
    BY <1>1
  <2> DEFINE f == n2 * D
  <2>2. f \in Nat /\ 2 * D <= f /\ a = f + n1
    BY <1>1, <1>2, <2>1
  <2> HIDE DEF f
  <2> QED BY <1>1, <1>4, <2>2
<1>6. (a + n2) * I <= (1 + D) * I
  <2>1. a + n2 <= 1 + D /\ a + n2 \in Nat /\ 1 + D \in Nat
    BY <1>1, <1>4, <1>5
  <2> QED BY <1>1, <2>1
<1>7. nl * L <= m * L
  BY <1>1 DEF m
<1>8. at <= BitSize(Capacity)
  <2> DEFINE p == nl * L
             q == m * L
             r == (a + n2) * I
             t == (1 + D) * I
  <2>1. p \in Nat /\ q \in Nat /\ r \in Nat /\ t \in Nat
    BY <1>1
  <2>2. at = p + r /\ BitSize(Capacity) = t + q /\ p <= q /\ r <= t
    BY <1>2, <1>3, <1>6, <1>7
  <2> HIDE DEF p, q, r, t
  <2> QED BY <2>1, <2>2
<1>9. ASSUME n2 = 0, n1 < D
      PROVE  at + 2 * I <= nl * L + (1 + D) * I
  <2>1. n2 * D = 0
    BY <1>1, <1>9
  <2>2. a + 2 <= 1 + D /\ a + n2 = a
    BY <1>1, <1>2, <1>9, <2>1
  <2>3. (a + 2) * I <= (1 + D) * I
    BY <1>1, <2>2
  <2>4. (a + 2) * I = a * I + 2 * I
    BY <1>1
  <2> DEFINE p == nl * L
             r == a * I
             t == (1 + D) * I
  <2>5. p \in Nat /\ r \in Nat /\ t \in Nat /\ at = p + r /\ r + 2 * I <= t
    BY <1>1, <1>2, <2>2, <2>3, <2>4
  <2> HIDE DEF p, r, t
  <2>6. at + 2 * I <= p + t
    BY <1>1, <2>5
  <2> QED BY <2>6 DEF p, t
<1> QED BY <1>1, <1>8, <1>9 DEF n1, D, I, L

-----------------------------------------------------------------------------
(* NodesPlaced.                                                            *)

Types ==
  /\ ents \in Seq(Entry) /\ leaf \in Seq(Entry) /\ ctx \in [0 .. 2 -> Seq(Kid)]
  /\ begin \in Nat /\ cur \in Nat /\ peak \in Nat

(* Until the tree is complete it is balanced, with the last leaf and every *)
(* level below the root short of full.                                     *)
Growing ==
  root = -1 =>
    /\ Len(ents) <= Capacity
    /\ Len(leaf) < LeafLen /\ Len(ctx[0]) < Degree /\ Len(ctx[1]) < Degree
    /\ \E nl, a \in Nat :
         /\ Len(ents) = nl * LeafLen + Len(leaf)
         /\ Balanced(ctx, begin + cur, nl, a, nl * LeafSize)

Inv ==
  /\ Types
  /\ Packed(nodes, 0, begin + cur)
  /\ peak <= BufferSize
  /\ begin + cur <= BitSize(Capacity)
  /\ Growing

LEMMA MaxOfTwo ==
  ASSUME NEW a \in Nat, NEW b \in Nat
  PROVE  Max({a, b}) \in {a, b}
<1>1. \E x \in {a, b} : \A y \in {a, b} : x >= y
  BY DEF Max
<1> QED BY <1>1 DEF Max

(* A flush keeps the position, and there is room for a node of each level. *)
LEMMA FlushRoom ==
  ASSUME NEW b \in Nat, NEW c \in Nat
  PROVE  LET fl == FlushIfFull(b, c)
         IN /\ fl[1] \in Nat /\ fl[2] \in Nat /\ fl[1] + fl[2] = b + c
            /\ fl[2] + 3 * LeafSize <= BufferSize
<1>1. Top = 3
  BY HeightAssumption
<1>2. FlushIfFull(b, c) = IF c + 3 * LeafSize > BufferSize THEN <<b + c, 0>> ELSE <<b, c>>
  BY <1>1 DEF FlushIfFull
<1>3. LeafSize \in Nat /\ BufferSize \in Int /\ 3 * LeafSize <= BufferSize
  BY SizesNat
<1>4. CASE c + 3 * LeafSize > BufferSize
  BY <1>2, <1>3, <1>4
<1>5. CASE ~(c + 3 * LeafSize > BufferSize)
  BY <1>2, <1>3, <1>5
<1> QED BY <1>4, <1>5

(* What both actions do with the nodes they build.                         *)
LEMMA NodesAppended ==
  ASSUME Inv, NEW last, NEW s, NEW lo \in Nat, Tower(s, lo),
         Packed(last, begin + cur, lo), begin + cur <= lo,
         s.at <= begin + cur + LeafSize + 2 * InnerSize,
         LET fl == FlushIfFull(begin, cur)
         IN begin' = fl[1] /\ cur' = s.at - fl[1] /\ peak' = Max({peak, cur'}),
         nodes' = nodes \cup s.new \cup last
  PROVE  /\ begin' \in Nat /\ cur' \in Nat /\ peak' \in Nat /\ begin' + cur' = s.at
         /\ Packed(nodes', 0, begin' + cur')
         /\ peak' <= BufferSize
<1> DEFINE fl == FlushIfFull(begin, cur)
           b == fl[1]
           c == fl[2]
           p == begin + cur
<1>1. begin \in Nat /\ cur \in Nat /\ peak \in Nat /\ p \in Nat /\ s.at \in Nat /\ lo <= s.at
  <2>1. begin \in Nat /\ cur \in Nat /\ peak \in Nat
    BY DEF Inv, Types
  <2>2. s.at \in Nat /\ lo <= s.at
    BY DEF Tower
  <2> QED BY <2>1, <2>2
<1>2. b \in Nat /\ c \in Nat /\ b + c = p /\ c + 3 * LeafSize <= BufferSize
  BY <1>1, FlushRoom
<1>3. /\ begin' = b /\ cur' = s.at - b /\ peak' = Max({peak, cur'})
      /\ p <= lo /\ s.at <= p + LeafSize + 2 * InnerSize /\ Packed(last, p, lo)
      /\ peak <= BufferSize /\ Packed(nodes, 0, p) /\ Packed(s.new, lo, s.at)
  BY DEF Inv, Tower
<1> HIDE DEF b, c, p, fl
<1>4. cur' \in Nat /\ begin' + cur' = s.at /\ cur' <= BufferSize
  BY <1>1, <1>2, <1>3, SizesNat
<1>5. peak' \in Nat /\ peak' <= BufferSize
  <2>1. peak' \in {peak, cur'}
    BY <1>1, <1>3, <1>4, MaxOfTwo
  <2> QED BY <1>1, <1>3, <1>4, <2>1
<1>6. Packed(nodes', 0, s.at)
  <2>1. Packed(nodes \cup last, 0, lo)
    BY <1>1, <1>3, PackedUnion
  <2>2. Packed((nodes \cup last) \cup s.new, 0, s.at)
    <3> DEFINE S == nodes \cup last
               T == s.new
               h == s.at
    <3>1. Packed(S, 0, lo) /\ Packed(T, lo, h) /\ h \in Nat /\ lo <= h
      BY <1>1, <1>3, <2>1
    <3> HIDE DEF S, T, h
    <3>2. Packed(S \cup T, 0, h)
      BY <3>1, PackedUnion
    <3> QED BY <3>2 DEF S, T, h
  <2>3. nodes' = (nodes \cup last) \cup s.new
    OBVIOUS
  <2> QED BY <2>2, <2>3
<1> QED BY <1>2, <1>3, <1>4, <1>5, <1>6

LEMMA InitInv == Init => Inv
<1> SUFFICES ASSUME Init PROVE Inv
  OBVIOUS
<1>1. ctx = [h \in 0 .. 2 |-> <<>>]
  BY HeightAssumption DEF Init
<1>2. Types
  BY <1>1 DEF Init, Types
<1>3. Packed(nodes, 0, begin + cur)
  BY PackedNone DEF Init
<1>4. 0 <= BitSize(Capacity) /\ 0 <= BufferSize
  <2> DEFINE p == (1 + Degree) * InnerSize
             q == Leaves * LeafSize
  <2>1. p \in Nat /\ q \in Nat /\ BitSize(Capacity) = p + q
    BY ThreeLevels, LeavesSuffice, SizesNat
  <2> HIDE DEF p, q
  <2> QED BY <2>1, SizesNat
<1>5. Growing
  <2>1. Len(ents) = 0 /\ Len(leaf) = 0 /\ Len(ctx[0]) = 0 /\ Len(ctx[1]) = 0 /\ Len(ctx[2]) = 0 /\ begin + cur = 0
    BY <1>1 DEF Init
  <2>2. 0 * LeafLen = 0 /\ 0 * LeafSize = 0 /\ 0 * Degree = 0 /\ (0 + 0) * InnerSize = 0
    BY SizesNat
  <2>3. Balanced(ctx, begin + cur, 0, 0, 0 * LeafSize)
    BY <2>1, <2>2 DEF Balanced
  <2> QED BY <2>1, <2>2, <2>3, SizesNat DEF Growing
<1> QED BY <1>2, <1>3, <1>4, <1>5 DEF Inv, Init

LEMMA AddInv ==
  ASSUME Inv, NEW e \in Entry, AddEntry(e)
  PROVE  Inv'
<1> DEFINE L == LeafLen
           p == begin + cur
           nE == Len(ents)
           nF == Len(leaf)
<1>1. /\ ents \in Seq(Entry) /\ leaf \in Seq(Entry) /\ ctx \in [0 .. 2 -> Seq(Kid)]
      /\ begin \in Nat /\ cur \in Nat /\ peak \in Nat /\ p \in Nat /\ nE \in Nat /\ nF \in Nat
  BY DEF Inv, Types
<1>2. root = -1 /\ nE < Capacity /\ ents' = Append(ents, e) /\ root' = root
  BY DEF AddEntry
<1>3. nF < L /\ Len(ctx[0]) < Degree /\ Len(ctx[1]) < Degree
  BY <1>2 DEF Inv, Growing
<1>4. PICK nl \in Nat, a \in Nat : nE = nl * L + nF /\ Balanced(ctx, p, nl, a, nl * LeafSize)
  BY <1>2 DEF Inv, Growing
<1>5. ents' \in Seq(Entry) /\ Len(ents') = nE + 1 /\ Len(ents') <= Capacity
  BY <1>1, <1>2, SizesNat
<1>6. Append(leaf, e) \in Seq(Entry) /\ Len(Append(leaf, e)) = nF + 1
  BY <1>1
<1>7. L \in Nat \ {0}
  BY SizesNat
<1>8. CASE nF + 1 < L
  <2>1. leaf' = Append(leaf, e) /\ UNCHANGED <<ctx, begin, cur, peak, nodes>>
    BY <1>8 DEF AddEntry
  <2>2. Types'
    BY <1>1, <1>5, <1>6, <2>1 DEF Types
  <2>3. Len(leaf') = nF + 1 /\ Len(ents') = nl * L + Len(leaf')
    <3> DEFINE x == nl * L
    <3>1. x \in Nat /\ nE = x + nF
      BY <1>4, <1>7
    <3> HIDE DEF x, nE, nF
    <3> QED BY <1>1, <1>5, <1>6, <2>1, <3>1 DEF x
  <2>4. Growing'
    BY <1>3, <1>4, <1>5, <1>8, <2>1, <2>3 DEF Growing
  <2> QED BY <2>1, <2>2, <2>4 DEF Inv
<1>9. CASE ~(nF + 1 < L)
  <2> DEFINE fl == FlushIfFull(begin, cur)
             kid == [key |-> e[1], pos |-> p]
             up == [ctx EXCEPT ![0] = Append(ctx[0], kid)]
             s0 == [ctx |-> up, at |-> fl[1] + fl[2] + LeafSize, new |-> {}]
             s == Build(s0, FALSE)
             last == {LeafNode(p, Append(leaf, e), s.at)}
             lo == p + LeafSize
             m == nl + 1
  <2>1. /\ leaf' = <<>> /\ ctx' = s.ctx /\ begin' = fl[1] /\ cur' = s.at - fl[1]
        /\ peak' = Max({peak, cur'}) /\ nodes' = nodes \cup s.new \cup last
    BY <1>9 DEF AddEntry
  <2>2. fl[1] + fl[2] = p
    BY <1>1, FlushRoom
  <2>3. lo \in Nat /\ p <= lo
    BY <1>1, SizesNat
  <2>4. s0.ctx = up /\ s0.at = lo /\ s0.new = {}
    BY <2>2
  <2>5. kid \in Kid
    BY <1>1 DEF Kid, Entry
  <2> HIDE DEF kid
  <2>6. /\ up \in [0 .. 2 -> Seq(Kid)] /\ Len(up[0]) = Len(ctx[0]) + 1
        /\ up[1] = ctx[1] /\ up[2] = ctx[2]
    <3>1. ctx[0] \in Seq(Kid)
      BY <1>1
    <3>2. Append(ctx[0], kid) \in Seq(Kid) /\ Len(Append(ctx[0], kid)) = Len(ctx[0]) + 1
      BY <2>5, <3>1
    <3> QED BY <1>1, <3>2
  <2>7. m * L = nl * L + L /\ m * LeafSize = nl * LeafSize + LeafSize /\ m \in Nat
    BY <1>7, SizesNat
  <2>8. Len(ents') = m * L + 0 /\ m * L <= Capacity
    <3> DEFINE x == nl * L
               y == m * L
    <3>1. x \in Nat /\ nE = x + nF /\ y = x + L /\ nF + 1 = L
      BY <1>1, <1>3, <1>4, <1>7, <1>9, <2>7
    <3> HIDE DEF x, y, nE, nF, m
    <3>2. Len(ents') = y + 0 /\ y <= Capacity
      BY <1>1, <1>5, <1>7, <3>1, SizesNat
    <3> QED BY <3>2 DEF y
  <2>9. m <= Leaves
    BY <2>7, <2>8, LeavesSuffice
  <2> HIDE DEF up, m
  <2>10. Len(ctx[0]) \in Nat /\ Len(ctx[1]) \in Nat /\ Len(ctx[2]) \in Nat
    BY <1>1, LensNat
  <2>11. Balanced(up, lo, m, a, m * LeafSize)
    <3> DEFINE x == a * Degree
               y == nl * LeafSize
               z == (a + Len(ctx[2])) * InnerSize
               n0 == Len(ctx[0])
    <3>1. x \in Nat /\ y \in Nat /\ z \in Nat
      BY <2>10, SizesNat
    <3>2. nl = x + n0 /\ a = Len(ctx[2]) * Degree + Len(ctx[1]) /\ p = y + z
      BY <1>4 DEF Balanced
    <3>3. m = nl + 1 /\ m * LeafSize = y + LeafSize /\ n0 \in Nat
      BY <2>7, <2>10 DEF m
    <3> HIDE DEF x, y, z, n0, p
    <3>4. m = x + (n0 + 1)
      BY <3>1, <3>2, <3>3
    <3>5. lo = (y + LeafSize) + z
      BY <3>1, <3>2, SizesNat
    <3> HIDE DEF lo
    <3>6. /\ m = a * Degree + Len(up[0]) /\ a = Len(up[2]) * Degree + Len(up[1])
          /\ lo = m * LeafSize + (a + Len(up[2])) * InnerSize
      BY <2>6, <3>2, <3>3, <3>4, <3>5 DEF x, y, z, n0
    <3> QED BY <3>6 DEF Balanced
  <2>12. Tower(s0, lo)
    BY <2>3, <2>4, <2>6, PackedNone DEF Tower
  <2> HIDE DEF s0, lo
  <2>13. /\ Tower(s, lo) /\ Len(s.ctx[0]) < Degree /\ Len(s.ctx[1]) < Degree
         /\ s.at <= lo + 2 * InnerSize
         /\ \E b \in Nat : Balanced(s.ctx, s.at, m, b, m * LeafSize)
    <3> DEFINE base == m * LeafSize
    <3>1. base \in Nat /\ m \in Nat
      BY <2>7, SizesNat
    <3>2. Len(s0.ctx[0]) <= Degree /\ Len(s0.ctx[1]) < Degree /\ Balanced(s0.ctx, s0.at, m, a, base)
      BY <1>3, <2>4, <2>6, <2>10, <2>11, SizesNat
    <3> HIDE DEF base
    <3>3. /\ Tower(s, lo) /\ Len(s.ctx[0]) < Degree /\ Len(s.ctx[1]) < Degree
          /\ s.at <= s0.at + 2 * InnerSize
          /\ \E b \in Nat : Balanced(s.ctx, s.at, m, b, base)
      BY <2>3, <2>12, <3>1, <3>2, AddBuilds
    <3> HIDE DEF s
    <3> QED BY <2>4, <3>3 DEF base
  <2> HIDE DEF s
  <2>14. PICK b \in Nat : Balanced(s.ctx, s.at, m, b, m * LeafSize)
    BY <2>13
  <2>15. Packed(last, p, lo)
    <3> DEFINE x == LeafNode(p, Append(leaf, e), s.at)
    <3>1. x.pos = p /\ x.leaf = TRUE /\ x.leaf \in BOOLEAN /\ Size(x) = LeafSize
      BY DEF LeafNode, Size
    <3>2. p + Size(x) <= lo
      BY <1>1, <3>1, SizesNat DEF lo
    <3> HIDE DEF x, p
    <3>3. Packed({x}, p, lo)
      BY <1>1, <2>3, <3>1, <3>2, PackedOne
    <3> QED BY <3>3 DEF x
  <2>16. s.at <= begin + cur + LeafSize + 2 * InnerSize
    BY <2>13 DEF lo
  <2> HIDE DEF last
  <2>17. /\ begin' \in Nat /\ cur' \in Nat /\ peak' \in Nat /\ begin' + cur' = s.at
         /\ Packed(nodes', 0, begin' + cur') /\ peak' <= BufferSize
    BY <2>1, <2>3, <2>13, <2>15, <2>16, NodesAppended
  <2>18. s.ctx \in [0 .. 2 -> Seq(Kid)]
    BY <2>13 DEF Tower
  <2>19. Types'
    BY <1>5, <2>1, <2>17, <2>18 DEF Types
  <2>20. begin' + cur' <= BitSize(Capacity)
    BY <2>7, <2>9, <2>14, <2>17, <2>18, InSlot
  <2>21. Growing'
    <3>1. leaf' = <<>> /\ Len(leaf') = 0 /\ 0 < L
      BY <2>1, <1>7
    <3>2. Len(ents') = m * L + Len(leaf')
      BY <2>8, <3>1
    <3>3. Balanced(ctx', begin' + cur', m, b, m * LeafSize)
      BY <2>1, <2>14, <2>17
    <3> QED BY <1>5, <2>1, <2>7, <2>13, <3>1, <3>2, <3>3 DEF Growing
  <2> QED BY <2>17, <2>19, <2>20, <2>21 DEF Inv
<1> QED BY <1>8, <1>9

LEMMA CompleteInv ==
  ASSUME Inv, Complete
  PROVE  Inv'
<1> DEFINE L == LeafLen
           I == InnerSize
           p == begin + cur
           nE == Len(ents)
           nF == Len(leaf)
<1>1. /\ ents \in Seq(Entry) /\ leaf \in Seq(Entry) /\ ctx \in [0 .. 2 -> Seq(Kid)]
      /\ begin \in Nat /\ cur \in Nat /\ peak \in Nat /\ p \in Nat /\ nE \in Nat /\ nF \in Nat
  BY DEF Inv, Types
<1>2. root = -1 /\ ents # <<>> /\ UNCHANGED <<ents, leaf>>
  BY DEF Complete
<1>3. nE <= Capacity /\ nF < L /\ Len(ctx[1]) < Degree
  BY <1>2 DEF Inv, Growing
<1>4. PICK nl \in Nat, a \in Nat : nE = nl * L + nF /\ Balanced(ctx, p, nl, a, nl * LeafSize)
  BY <1>2 DEF Inv, Growing
<1>5. Top - 1 = 2
  BY HeightAssumption
<1>6. L \in Nat \ {0} /\ I \in Nat \ {0} /\ LeafSize \in Nat \ {0} /\ I <= LeafSize /\ Capacity \in Nat
  BY SizesNat
<1>7. nE # 0 /\ (leaf = <<>> <=> nF = 0)
  BY <1>1, <1>2
<1> DEFINE x == nl * L
           y == nl * LeafSize
           z == (a + Len(ctx[2])) * I
<1>8. x \in Nat /\ y \in Nat /\ z \in Nat /\ nE = x + nF /\ p = y + z /\ Len(ctx[2]) \in Nat
  <2>1. Len(ctx[2]) \in Nat
    BY <1>1, LensNat
  <2>2. x \in Nat /\ y \in Nat
    BY <1>6
  <2>3. z \in Nat
    BY <1>6, <2>1
  <2>4. nE = x + nF /\ p = y + z
    BY <1>4 DEF Balanced
  <2> QED BY <2>1, <2>2, <2>3, <2>4
<1>9. nl <= Leaves /\ (nF # 0 => nl + 1 <= Leaves) /\ Leaves \in Nat
  <2> HIDE DEF x, nE, nF
  <2>1. x <= Capacity /\ (nF # 0 => x < Capacity)
    BY <1>1, <1>3, <1>6, <1>8
  <2> QED BY <2>1, LeavesSuffice DEF x
<1>10. nl # 0 \/ nF # 0
  <2>1. nl = 0 => x = 0
    BY <1>6
  <2> HIDE DEF x, nE, nF
  <2> QED BY <1>1, <1>7, <1>8, <2>1
<1>11. nl # 0 => y >= LeafSize
  BY <1>6
<1>12. CASE ctx[2] # <<>>
  <2>1. root' = p - I /\ UNCHANGED <<ctx, begin, cur, peak, nodes>>
    <3>1. ctx[Top - 1] # <<>>
      BY <1>5, <1>12
    <3>2. UNCHANGED <<ctx, begin, cur, peak, nodes>>
      BY <3>1, Zenon DEF Complete
    <3>3. root' = begin + cur - InnerSize
      BY <3>1, Zenon DEF Complete
    <3>4. begin + cur - InnerSize = p - I
      BY <1>1, <1>6
    <3> QED BY <3>2, <3>3, <3>4
  <2>2. p >= I
    <3>1. Len(ctx[2]) # 0
      BY <1>1, <1>12, LensNat
    <3>2. a + Len(ctx[2]) >= 1
      BY <1>8, <3>1
    <3>3. z >= I
      <4> DEFINE w == a + Len(ctx[2])
      <4>1. w \in Nat /\ w >= 1
        BY <1>8, <3>2
      <4> HIDE DEF w
      <4>2. w * I >= I
        BY <1>6, <4>1
      <4> QED BY <4>2 DEF w
    <3> HIDE DEF y, z, p
    <3> QED BY <1>6, <1>8, <3>3
  <2>3. root' # -1
    BY <1>1, <1>6, <2>1, <2>2
  <2>4. Growing'
    BY <2>3 DEF Growing
  <2>5. Types'
    BY <1>1, <1>2, <2>1 DEF Types
  <2> QED BY <2>1, <2>4, <2>5 DEF Inv
<1>13. CASE ctx[2] = <<>>
  <2> DEFINE fl == FlushIfFull(begin, cur)
             last == IF leaf = <<>> THEN {} ELSE {LeafNode(p, leaf, 0)}
             kid == [key |-> LastOf(leaf)[1], pos |-> p]
             up == IF leaf = <<>> THEN ctx ELSE [ctx EXCEPT ![0] = Append(ctx[0], kid)]
             d == IF leaf = <<>> THEN 0 ELSE LeafSize
             lo == p + d
             s0 == [ctx |-> up, at |-> lo, new |-> {}]
             s == Build(s0, TRUE)
  <2>1. /\ ctx' = s.ctx /\ begin' = fl[1] /\ cur' = s.at - fl[1] /\ peak' = Max({peak, cur'})
        /\ nodes' = nodes \cup s.new \cup last /\ root' = s.at - I
    BY <1>5, <1>13 DEF Complete
  <2>2. d \in Nat /\ d <= LeafSize /\ lo \in Nat /\ p <= lo
    BY <1>1, <1>6
  <2>3. s0.ctx = up /\ s0.at = lo /\ s0.new = {}
    OBVIOUS
  <2>4. up \in [0 .. 2 -> Seq(Kid)]
    <3>1. CASE leaf = <<>>
      BY <1>1, <3>1
    <3>2. CASE leaf # <<>>
      <4>1. LastOf(leaf) \in Entry
        BY <1>1, <3>2 DEF LastOf
      <4>2. kid \in Kid
        BY <1>1, <4>1 DEF Kid, Entry
      <4> HIDE DEF kid
      <4>3. ctx[0] \in Seq(Kid)
        BY <1>1
      <4> DEFINE v == Append(ctx[0], kid)
      <4>4. v \in Seq(Kid) /\ up = [ctx EXCEPT ![0] = v]
        BY <3>2, <4>2, <4>3
      <4> HIDE DEF v, up
      <4> QED BY <1>1, <4>4
    <3> QED BY <3>1, <3>2
  <2>5. Tower(s0, lo)
    <3> HIDE DEF up, lo
    <3> QED BY <2>2, <2>3, <2>4, PackedNone DEF Tower
  <2>6. Tower(s, lo) /\ lo <= s.at /\ s.at <= lo + 2 * I
    <3>1. Tower(s, lo) /\ s0.at <= s.at /\ s.at <= s0.at + 2 * InnerSize
      <4> HIDE DEF s0, lo
      <4> QED BY <2>2, <2>5, CompleteBuilds
    <3> HIDE DEF s, s0
    <3> QED BY <2>3, <3>1
  <2>7. Packed(last, p, lo)
    <3>1. CASE leaf = <<>>
      BY <3>1, PackedNone
    <3>2. CASE leaf # <<>>
      <4> DEFINE n == LeafNode(p, leaf, 0)
      <4>1. n.pos = p /\ n.leaf = TRUE /\ n.leaf \in BOOLEAN /\ Size(n) = LeafSize
        BY DEF LeafNode, Size
      <4>2. p + Size(n) <= lo /\ last = {n}
        BY <1>1, <1>6, <3>2, <4>1
      <4> HIDE DEF n, p, lo
      <4>3. Packed({n}, p, lo)
        BY <1>1, <2>2, <4>1, <4>2, PackedOne
      <4> QED BY <4>2, <4>3
    <3> QED BY <3>1, <3>2
  <2> HIDE DEF s0, s, last, up
  <2>8. s.at \in Nat /\ s.ctx \in [0 .. 2 -> Seq(Kid)]
    BY <2>6 DEF Tower
  <2>9. s.at <= begin + cur + LeafSize + 2 * InnerSize
    BY <1>1, <1>6, <2>2, <2>6, <2>8
  <2>10. /\ begin' \in Nat /\ cur' \in Nat /\ peak' \in Nat /\ begin' + cur' = s.at
         /\ Packed(nodes', 0, begin' + cur') /\ peak' <= BufferSize
    <3> HIDE DEF lo
    <3> QED BY <2>1, <2>2, <2>6, <2>7, <2>9, NodesAppended
  <2>11. begin' + cur' <= BitSize(Capacity)
    <3> DEFINE t == (1 + Degree) * I
               q == Leaves * LeafSize
    <3>1. p + 2 * I <= y + t
      BY <1>1, <1>3, <1>4, <1>9, <1>13, InSlot
    <3>2. y + d <= q
      <4>1. nl * LeafSize <= Leaves * LeafSize
        BY <1>6, <1>9
      <4>2. nF # 0 => (nl + 1) * LeafSize <= Leaves * LeafSize
        BY <1>6, <1>9
      <4>3. (nl + 1) * LeafSize = nl * LeafSize + LeafSize
        BY <1>6
      <4> QED BY <1>7, <1>8, <4>1, <4>2, <4>3
    <3>3. t \in Nat /\ q \in Nat /\ BitSize(Capacity) = t + q
      BY <1>6, <1>9, SizesNat, ThreeLevels
    <3>4. s.at <= p + d + 2 * I
      BY <2>6
    <3> HIDE DEF t, q, y, d, p, lo
    <3>5. s.at <= t + q
      <4> HIDE DEF I, x, z, nE, nF, L, kid, fl
      <4>1. p \in Nat /\ d \in Nat /\ I \in Nat /\ y \in Nat /\ s.at \in Nat
        BY <1>1, <1>6, <1>8, <2>2, <2>8
      <4>2. p + d + 2 * I <= y + d + t
        BY <3>1, <3>3, <4>1
      <4>3. y + d + t <= t + q
        BY <3>2, <3>3, <4>1
      <4> QED BY <3>3, <3>4, <4>1, <4>2, <4>3
    <3> QED BY <2>10, <3>3, <3>5
  <2>12. root' # -1
    <3>1. lo >= LeafSize
      <4>1. CASE nF # 0
        BY <1>1, <1>6, <1>7, <4>1
      <4>2. CASE nF = 0
        <5>1. y >= LeafSize
          BY <1>10, <1>11, <4>2
        <5> HIDE DEF y, z, p, d
        <5> QED BY <1>1, <1>6, <1>8, <2>2, <5>1
      <4> QED BY <4>1, <4>2
    <3> HIDE DEF lo
    <3> QED BY <1>6, <2>1, <2>2, <2>6, <2>8, <3>1
  <2>13. Types'
    BY <1>1, <1>2, <2>1, <2>8, <2>10 DEF Types
  <2>14. Growing'
    BY <2>12 DEF Growing
  <2> QED BY <2>10, <2>11, <2>13, <2>14 DEF Inv
<1> QED BY <1>12, <1>13

LEMMA NextInv == Inv /\ [Next]_vars => Inv'
<1> SUFFICES ASSUME Inv, [Next]_vars PROVE Inv'
  OBVIOUS
<1>1. CASE Add
  <2>1. PICK e \in Entry : AddEntry(e)
    BY <1>1 DEF Add, Entry
  <2> QED BY <2>1, AddInv
<1>2. CASE Complete
  BY <1>2, CompleteInv
<1>3. CASE UNCHANGED vars
  <2>1. Types' /\ Growing'
    BY <1>3 DEF vars, Inv, Types, Growing
  <2> QED BY <1>3, <2>1 DEF vars, Inv
<1> QED BY <1>1, <1>2, <1>3 DEF Next

(* The builder's buffer, a file's slot and every node in it: whatever the  *)
(* length of leaves, degree, capacity and node sizes, as long as the tree  *)
(* has three levels, nodes placed without a check stay within the buffer   *)
(* and the slot and never overlap.                                         *)
THEOREM NodesInPlace == Spec => []NodesPlaced
<1>1. Init => Inv
  BY InitInv
<1>2. Inv /\ [Next]_vars => Inv'
  BY NextInv
<1>3. Inv => NodesPlaced
  BY DEF Inv, NodesPlaced, Packed
<1> QED BY <1>1, <1>2, <1>3, PTL DEF Spec

-----------------------------------------------------------------------------
(* What the nodes hold.  A span <<pos, lo, hi>> says that the node at pos  *)
(* has the entries lo + 1 .. hi below it.                                  *)

Holds(x, E, lo, hi) ==
  /\ x.leaf = TRUE /\ x.ents \in Seq(Entry) /\ Len(x.ents) = hi - lo
  /\ \A i \in 1 .. hi - lo : x.ents[i] = E[lo + i]

Span(E) == Nat \X (0 .. Len(E)) \X (0 .. Len(E))

(* The leaves; the first one is at the start of the file.                  *)
LeafSpans(S, E) ==
  {t \in Span(E) : /\ t[2] = 0 => t[1] = 0
                   /\ \E x \in S : x.pos = t[1] /\ Holds(x, E, t[2], t[3])}

(* A list of children, whose spans R has, one after the other, with the key*)
(* of the last entry of each.                                              *)
Chain(R, E, kids, lo, hi) ==
  \E c \in [0 .. Len(kids) -> 0 .. Len(E)] :
    /\ c[0] = lo /\ c[Len(kids)] = hi
    /\ \A j \in 1 .. Len(kids) :
         /\ c[j] # 0 /\ kids[j].key = E[c[j]][1]
         /\ <<kids[j].pos, c[j - 1], c[j]>> \in R

(* The inner nodes whose children have the spans R.                        *)
InnerSpans(R, S, E) ==
  {t \in Span(E) :
     \E x \in S : /\ x.pos = t[1] /\ x.leaf = FALSE /\ x.kids \in Seq(Kid)
                  /\ Chain(R, E, x.kids, t[2], t[3])}

MidSpans(S, E) == InnerSpans(LeafSpans(S, E), S, E)
RootSpans(S, E) == InnerSpans(MidSpans(S, E), S, E)

Sorted(E) == \A i, j \in 1 .. Len(E) : i < j => E[i][1] <= E[j][1]

Longer(E, F) ==
  /\ E \in Seq(Entry) /\ F \in Seq(Entry) /\ Len(E) <= Len(F)
  /\ \A i \in 1 .. Len(E) : F[i] = E[i]

(* More nodes and more entries take nothing from a node.                   *)
LEMMA HoldsLater ==
  ASSUME NEW x, NEW E, NEW F, Longer(E, F), NEW lo \in 0 .. Len(E), NEW hi \in 0 .. Len(E),
         Holds(x, E, lo, hi)
  PROVE  Holds(x, F, lo, hi)
<1>1. Len(E) \in Nat
  BY DEF Longer
<1>2. ASSUME NEW i \in 1 .. hi - lo PROVE F[lo + i] = E[lo + i]
  <2>1. lo + i \in 1 .. Len(E)
    BY <1>1
  <2> QED BY <2>1 DEF Longer
<1> QED BY <1>2 DEF Holds

LEMMA SpanLater ==
  ASSUME NEW E, NEW F, Longer(E, F)
  PROVE  Span(E) \subseteq Span(F)
<1>1. Len(E) \in Nat /\ Len(F) \in Nat /\ Len(E) <= Len(F)
  BY DEF Longer
<1>2. 0 .. Len(E) \subseteq 0 .. Len(F)
  BY <1>1
<1> DEFINE A == 0 .. Len(E)
           B == 0 .. Len(F)
<1> HIDE DEF A, B
<1>3. A \subseteq B
  BY <1>2 DEF A, B
<1>4. Nat \X A \X A \subseteq Nat \X B \X B
  BY <1>3
<1> QED BY <1>4 DEF Span, A, B

LEMMA SpanParts ==
  ASSUME NEW E, NEW t \in Span(E)
  PROVE  t[1] \in Nat /\ t[2] \in 0 .. Len(E) /\ t[3] \in 0 .. Len(E)
BY DEF Span

LEMMA LeafSpansLater ==
  ASSUME NEW E, NEW F, Longer(E, F), NEW S, NEW T, S \subseteq T
  PROVE  LeafSpans(S, E) \subseteq LeafSpans(T, F)
<1> SUFFICES ASSUME NEW t \in LeafSpans(S, E) PROVE t \in LeafSpans(T, F)
  OBVIOUS
<1>1. t \in Span(E) /\ t \in Span(F) /\ (t[2] = 0 => t[1] = 0)
  BY SpanLater DEF LeafSpans
<1>2. PICK x \in S : x.pos = t[1] /\ Holds(x, E, t[2], t[3])
  BY DEF LeafSpans
<1>3. t[2] \in 0 .. Len(E) /\ t[3] \in 0 .. Len(E)
  BY <1>1, SpanParts
<1>4. Holds(x, F, t[2], t[3])
  BY <1>2, <1>3, HoldsLater
<1>5. x \in T /\ x.pos = t[1]
  BY <1>2
<1> QED BY <1>1, <1>4, <1>5 DEF LeafSpans

LEMMA ChainLater ==
  ASSUME NEW E, NEW F, Longer(E, F), NEW R, NEW Q, R \subseteq Q,
         NEW kids, NEW lo, NEW hi, Chain(R, E, kids, lo, hi)
  PROVE  Chain(Q, F, kids, lo, hi)
<1>1. PICK c \in [0 .. Len(kids) -> 0 .. Len(E)] :
           /\ c[0] = lo /\ c[Len(kids)] = hi
           /\ \A j \in 1 .. Len(kids) :
                /\ c[j] # 0 /\ kids[j].key = E[c[j]][1]
                /\ <<kids[j].pos, c[j - 1], c[j]>> \in R
  BY DEF Chain
<1>2. Len(E) \in Nat /\ Len(F) \in Nat /\ Len(E) <= Len(F)
  BY DEF Longer
<1>3. c \in [0 .. Len(kids) -> 0 .. Len(F)]
  BY <1>2
<1>4. ASSUME NEW j \in 1 .. Len(kids)
      PROVE  /\ c[j] # 0 /\ kids[j].key = F[c[j]][1]
             /\ <<kids[j].pos, c[j - 1], c[j]>> \in Q
  <2>1. c[j] # 0 /\ kids[j].key = E[c[j]][1] /\ <<kids[j].pos, c[j - 1], c[j]>> \in R
    BY <1>1
  <2>2. c[j] \in 0 .. Len(E)
    <3> DEFINE n == Len(kids)
    <3>1. j \in 1 .. n /\ c \in [0 .. n -> 0 .. Len(E)]
      OBVIOUS
    <3> HIDE DEF n
    <3>2. j \in 0 .. n
      BY <3>1
    <3> QED BY <3>1, <3>2
  <2>3. F[c[j]] = E[c[j]]
    <3>1. c[j] \in 1 .. Len(E)
      BY <1>2, <2>1, <2>2
    <3> QED BY <3>1 DEF Longer
  <2> QED BY <2>1, <2>3
<1> QED BY <1>1, <1>3, <1>4 DEF Chain

LEMMA InnerSpansLater ==
  ASSUME NEW E, NEW F, Longer(E, F), NEW R, NEW Q, R \subseteq Q, NEW S, NEW T, S \subseteq T
  PROVE  InnerSpans(R, S, E) \subseteq InnerSpans(Q, T, F)
<1> SUFFICES ASSUME NEW t \in InnerSpans(R, S, E) PROVE t \in InnerSpans(Q, T, F)
  OBVIOUS
<1>1. t \in Span(F)
  BY SpanLater DEF InnerSpans
<1>2. PICK x \in S : /\ x.pos = t[1] /\ x.leaf = FALSE /\ x.kids \in Seq(Kid)
                     /\ Chain(R, E, x.kids, t[2], t[3])
  BY DEF InnerSpans
<1>3. Chain(Q, F, x.kids, t[2], t[3])
  BY <1>2, ChainLater
<1> QED BY <1>1, <1>2, <1>3 DEF InnerSpans

LEMMA SpansLater ==
  ASSUME NEW E, NEW F, Longer(E, F), NEW S, NEW T, S \subseteq T
  PROVE  /\ LeafSpans(S, E) \subseteq LeafSpans(T, F)
         /\ MidSpans(S, E) \subseteq MidSpans(T, F)
         /\ RootSpans(S, E) \subseteq RootSpans(T, F)
<1>1. LeafSpans(S, E) \subseteq LeafSpans(T, F)
  BY LeafSpansLater
<1>2. MidSpans(S, E) \subseteq MidSpans(T, F)
  BY <1>1, InnerSpansLater DEF MidSpans
<1>3. RootSpans(S, E) \subseteq RootSpans(T, F)
  BY <1>2, InnerSpansLater DEF RootSpans
<1> QED BY <1>1, <1>2, <1>3

LEMMA ChainNone ==
  ASSUME NEW R, NEW E, NEW lo \in 0 .. Len(E)
  PROVE  Chain(R, E, <<>>, lo, lo)
<1> DEFINE c == [i \in 0 .. Len(<<>>) |-> lo]
<1>1. Len(<<>>) = 0 /\ 0 \in 0 .. 0
  OBVIOUS
<1>2. c \in [0 .. Len(<<>>) -> 0 .. Len(E)] /\ c[0] = lo /\ c[Len(<<>>)] = lo
  BY <1>1
<1>3. \A j \in 1 .. Len(<<>>) : FALSE
  BY <1>1
<1> HIDE DEF c
<1> QED BY <1>2, <1>3 DEF Chain

(* The list of a chain that is not empty ends with the key of its last     *)
(* entry, and an empty one spans nothing.                                  *)
LEMMA ChainEnds ==
  ASSUME NEW R, NEW E, NEW kids \in Seq(Kid), NEW lo, NEW hi, Chain(R, E, kids, lo, hi)
  PROVE  /\ lo \in 0 .. Len(E) /\ hi \in 0 .. Len(E)
         /\ kids = <<>> => lo = hi
         /\ kids # <<>> => hi # 0 /\ LastOf(kids).key = E[hi][1]
<1> DEFINE n == Len(kids)
<1>1. n \in Nat /\ (kids = <<>> <=> n = 0)
  OBVIOUS
<1>2. PICK c \in [0 .. n -> 0 .. Len(E)] :
           /\ c[0] = lo /\ c[n] = hi
           /\ \A j \in 1 .. n : c[j] # 0 /\ kids[j].key = E[c[j]][1]
  BY DEF Chain
<1>3. LastOf(kids) = kids[n]
  BY DEF LastOf
<1> HIDE DEF n
<1>4. 0 \in 0 .. n /\ n \in 0 .. n /\ (n # 0 => n \in 1 .. n)
  BY <1>1
<1> QED BY <1>1, <1>2, <1>3, <1>4

LEMMA ChainAppend ==
  ASSUME NEW R, NEW E, NEW kids \in Seq(Kid), NEW lo, NEW mid, Chain(R, E, kids, lo, mid),
         NEW kid, NEW hi \in 0 .. Len(E), hi # 0, kid.key = E[hi][1], <<kid.pos, mid, hi>> \in R
  PROVE  Chain(R, E, Append(kids, kid), lo, hi)
<1> DEFINE n == Len(kids)
           ks == Append(kids, kid)
<1>1. n \in Nat /\ Len(ks) = n + 1 /\ ks[n + 1] = kid /\ \A j \in 1 .. n : ks[j] = kids[j]
  OBVIOUS
<1>2. PICK c \in [0 .. n -> 0 .. Len(E)] :
           /\ c[0] = lo /\ c[n] = mid
           /\ \A j \in 1 .. n :
                /\ c[j] # 0 /\ kids[j].key = E[c[j]][1]
                /\ <<kids[j].pos, c[j - 1], c[j]>> \in R
  BY DEF Chain
<1> HIDE DEF n, ks
<1> DEFINE d == [j \in 0 .. n + 1 |-> IF j = n + 1 THEN hi ELSE c[j]]
<1>3. /\ d \in [0 .. n + 1 -> 0 .. Len(E)] /\ d[n + 1] = hi
      /\ \A j \in 0 .. n : d[j] = c[j]
  <2>1. ASSUME NEW j \in 0 .. n + 1 PROVE j = n + 1 \/ j \in 0 .. n
    BY <1>1
  <2>2. \A j \in 0 .. n : j \in 0 .. n + 1 /\ j # n + 1
    BY <1>1
  <2>3. n + 1 \in 0 .. n + 1
    BY <1>1
  <2> QED BY <2>1, <2>2, <2>3
<1> HIDE DEF d
<1>4. d[0] = lo /\ 0 \in 0 .. n /\ n \in 0 .. n /\ d[n] = mid
  BY <1>1, <1>2, <1>3
<1>5. ASSUME NEW j \in 1 .. n + 1
      PROVE  d[j] # 0 /\ ks[j].key = E[d[j]][1] /\ <<ks[j].pos, d[j - 1], d[j]>> \in R
  <2>1. CASE j = n + 1
    <3>1. j - 1 = n
      BY <1>1, <2>1
    <3> QED BY <1>1, <1>3, <1>4, <2>1, <3>1
  <2>2. CASE j # n + 1
    <3>1. j \in 1 .. n /\ j \in 0 .. n /\ j - 1 \in 0 .. n
      BY <1>1, <2>2
    <3> QED BY <1>1, <1>2, <1>3, <3>1
  <2> QED BY <2>1, <2>2
<1>6. Chain(R, E, ks, lo, hi)
  <2>1. d \in [0 .. Len(ks) -> 0 .. Len(E)] /\ d[Len(ks)] = hi
    BY <1>1, <1>3
  <2>2. \A j \in 1 .. Len(ks) : d[j] # 0 /\ ks[j].key = E[d[j]][1] /\ <<ks[j].pos, d[j - 1], d[j]>> \in R
    BY <1>1, <1>5
  <2> QED BY <1>4, <2>1, <2>2 DEF Chain
<1> QED BY <1>6 DEF ks

(* bit_file_search_leaf_key_pos, in a list that spans the first entry that *)
(* is not below the key, goes to the child that spans it.                  *)
LEMMA ChainFinds ==
  ASSUME NEW R, NEW E \in Seq(Entry), Sorted(E), NEW kids \in Seq(Kid), NEW lo, NEW hi,
         Chain(R, E, kids, lo, hi),
         NEW k \in Nat, NEW f \in 1 .. Len(E), lo < f, f <= hi, k <= E[f][1],
         \A i \in 1 .. Len(E) : i < f => E[i][1] < k
  PROVE  \E a, b : <<PosFor(kids, k), a, b>> \in R /\ a < f /\ f <= b
<1> DEFINE n == Len(kids)
           N == Len(E)
<1>1. n \in Nat /\ N \in Nat /\ \A j \in 1 .. n : kids[j].key \in Nat
  <2>1. \A j \in 1 .. n : kids[j] \in Kid
    OBVIOUS
  <2>2. \A y \in Kid : y.key \in Nat
    BY SizesNat DEF Kid
  <2> QED BY <2>1, <2>2
<1>2. PICK c \in [0 .. n -> 0 .. N] :
           /\ c[0] = lo /\ c[n] = hi
           /\ \A j \in 1 .. n :
                /\ c[j] # 0 /\ kids[j].key = E[c[j]][1]
                /\ <<kids[j].pos, c[j - 1], c[j]>> \in R
  BY DEF Chain
<1>a. \A i \in 1 .. N : E[i][1] \in Nat
  <2> SUFFICES ASSUME NEW i \in 1 .. N PROVE E[i][1] \in Nat
    OBVIOUS
  <2>1. E[i] \in Entry
    OBVIOUS
  <2> QED BY <2>1, SizesNat DEF Entry
<1>b. \A i, j \in 1 .. N : i < j => E[i][1] <= E[j][1]
  BY DEF Sorted
<1> DEFINE A == {i \in 1 .. n : k <= kids[i].key}
           T == A \cup {n + 1}
           j == Min(T)
<1>p. PosFor(kids, k) = IF j > n THEN -1 ELSE kids[j].pos
  BY DEF PosFor, ChildFor
<1> HIDE DEF n, N
<1>3. f \in Nat /\ f \in 1 .. N
  BY <1>1 DEF N
<1>4. \A i \in 0 .. n : c[i] \in Nat /\ c[i] <= N
  BY <1>1, <1>2
<1>c. \A i \in 1 .. n :
        /\ c[i] \in 1 .. N /\ c[i] \in Nat /\ kids[i].key = E[c[i]][1]
        /\ <<kids[i].pos, c[i - 1], c[i]>> \in R
  <2> SUFFICES ASSUME NEW i \in 1 .. n
               PROVE  /\ c[i] \in 1 .. N /\ c[i] \in Nat /\ kids[i].key = E[c[i]][1]
                      /\ <<kids[i].pos, c[i - 1], c[i]>> \in R
    OBVIOUS
  <2>1. c[i] # 0 /\ kids[i].key = E[c[i]][1] /\ <<kids[i].pos, c[i - 1], c[i]>> \in R
    BY <1>2
  <2>2. i \in 0 .. n
    BY <1>1
  <2>3. c[i] \in Nat /\ c[i] <= N
    BY <1>4, <2>2
  <2>4. c[i] \in 1 .. N
    BY <1>1, <2>1, <2>3
  <2> QED BY <2>1, <2>3, <2>4
<1>5. n # 0
  <2> SUFFICES ASSUME n = 0 PROVE FALSE
    OBVIOUS
  <2>1. lo = hi /\ hi \in Nat
    BY <1>2, <1>4
  <2> QED BY <1>3, <2>1
<1>6. n \in A
  <2>1. n \in 1 .. n /\ n \in 0 .. n
    BY <1>1, <1>5
  <2>2. hi \in 1 .. N /\ kids[n].key = E[hi][1] /\ hi \in Nat
    BY <1>2, <1>c, <2>1
  <2>3. E[f][1] <= E[hi][1]
    <3>1. CASE f = hi
      BY <1>a, <1>3, <3>1
    <3>2. CASE f # hi
      BY <1>b, <1>3, <2>2, <3>2
    <3> QED BY <3>1, <3>2
  <2>4. k <= E[hi][1]
    BY <1>a, <1>3, <2>2, <2>3
  <2> QED BY <2>1, <2>2, <2>4
<1>7. j \in T /\ \A y \in T : j <= y
  <2>1. T \in SUBSET Nat /\ T # {}
    BY <1>1
  <2> HIDE DEF T
  <2>2. \E x \in T : \A y \in T : x <= y
    BY <2>1, Least
  <2> QED BY <2>2 DEF Min
<1> HIDE DEF j
<1>8. j \in A /\ j \in 1 .. n
  <2>1. j <= n
    BY <1>6, <1>7
  <2> QED BY <1>1, <1>7, <2>1
<1>9. kids[j].key = E[c[j]][1] /\ c[j] \in 1 .. N /\ <<kids[j].pos, c[j - 1], c[j]>> \in R /\ c[j] \in Nat
  BY <1>c, <1>8
<1>10. f <= c[j]
  <2> SUFFICES ASSUME c[j] < f PROVE FALSE
    BY <1>3, <1>9
  <2>1. E[c[j]][1] < k
    BY <1>9 DEF N
  <2>2. k <= E[c[j]][1]
    BY <1>8, <1>9
  <2> QED BY <1>a, <1>9, <2>1, <2>2
<1>11. c[j - 1] < f
  <2>1. CASE j = 1
    BY <1>2, <2>1
  <2>2. CASE j # 1
    <3> DEFINE i == j - 1
    <3>1. i \in 1 .. n /\ i \in 0 .. n /\ ~(j <= i)
      BY <1>1, <1>8, <2>2
    <3>2. i \notin A
      BY <1>7, <3>1
    <3>3. kids[i].key < k
      BY <1>1, <3>1, <3>2
    <3>4. c[i] \in 1 .. N /\ kids[i].key = E[c[i]][1] /\ c[i] \in Nat
      BY <1>c, <3>1
    <3> HIDE DEF i
    <3>5. ~(f <= c[i])
      <4> SUFFICES ASSUME f <= c[i] PROVE FALSE
        OBVIOUS
      <4>1. E[f][1] <= E[c[i]][1]
        <5>1. CASE f = c[i]
          BY <1>a, <1>3, <5>1
        <5>2. CASE f # c[i]
          BY <1>b, <1>3, <3>4, <5>2
        <5> QED BY <5>1, <5>2
      <4> QED BY <1>a, <1>3, <3>3, <3>4, <4>1
    <3>6. c[i] < f
      BY <1>3, <3>4, <3>5
    <3> QED BY <3>6 DEF i
  <2> QED BY <2>1, <2>2
<1>12. PosFor(kids, k) = kids[j].pos
  <2>1. ~(j > n)
    BY <1>1, <1>8
  <2> QED BY <1>p, <2>1
<1> QED BY <1>9, <1>10, <1>11, <1>12


-----------------------------------------------------------------------------
(* Searching a file.                                                       *)

LEMMA MinIs ==
  ASSUME NEW S \in SUBSET Nat, NEW a \in S, \A y \in S : a <= y
  PROVE  Min(S) = a
<1>1. \E x \in S : \A y \in S : x <= y
  OBVIOUS
<1>2. Min(S) \in S /\ \A y \in S : Min(S) <= y
  BY <1>1 DEF Min
<1>3. Min(S) \in Nat /\ a \in Nat
  BY <1>2
<1> QED BY <1>2, <1>3

LEMMA MaxIs ==
  ASSUME NEW S \in SUBSET Nat, NEW a \in S, \A y \in S : y <= a
  PROVE  Max(S) = a
<1>1. \A y \in S : a >= y
  OBVIOUS
<1>2. \E x \in S : \A y \in S : x >= y
  BY <1>1
<1>3. Max(S) \in S /\ \A y \in S : Max(S) >= y
  BY <1>2 DEF Max
<1>4. Max(S) \in Nat /\ a \in Nat
  BY <1>3
<1> QED BY <1>3, <1>4

(* No two nodes share a position.                                          *)
LEMMA NodeThere ==
  ASSUME NEW h, Packed(nodes, 0, h), NEW x \in nodes, NEW kind, x.leaf = kind
  PROVE  NodeAt(x.pos, kind) = x
<1>1. \A y \in nodes : y.pos \in Nat /\ Size(y) \in Nat \ {0}
  BY SizesNat DEF Packed, Size
<1>2. \A y \in nodes : y.pos = x.pos => y = x
  <2> SUFFICES ASSUME NEW y \in nodes, y.pos = x.pos, y # x PROVE FALSE
    OBVIOUS
  <2>1. x.pos + Size(x) <= y.pos \/ y.pos + Size(y) <= x.pos
    BY DEF Packed
  <2>2. /\ x.pos \in Nat /\ y.pos \in Nat /\ Size(x) \in Nat \ {0} /\ Size(y) \in Nat \ {0}
    BY <1>1
  <2> QED BY <2>1, <2>2
<1>3. \E y \in nodes : y.pos = x.pos /\ y.leaf = kind
  OBVIOUS
<1> DEFINE z == CHOOSE y \in nodes : y.pos = x.pos /\ y.leaf = kind
<1>4. z \in nodes /\ z.pos = x.pos
  BY <1>3
<1>5. NodeAt(x.pos, kind) = z
  BY <1>3 DEF NodeAt
<1> QED BY <1>2, <1>4, <1>5

(* The first entry of E that is not below k.                               *)
First(E, k, f) ==
  /\ f \in 1 .. Len(E) /\ k <= E[f][1]
  /\ \A i \in 1 .. Len(E) : i < f => E[i][1] < k

LEMMA InnerFinds ==
  ASSUME NEW h, Packed(nodes, 0, h), NEW E \in Seq(Entry), Sorted(E), NEW R,
         NEW k \in Nat, NEW f, First(E, k, f),
         NEW p, NEW lo, NEW hi, <<p, lo, hi>> \in InnerSpans(R, nodes, E), lo < f, f <= hi
  PROVE  \E a, b : <<PosFor(NodeAt(p, FALSE).kids, k), a, b>> \in R /\ a < f /\ f <= b
<1>1. PICK x \in nodes : /\ x.pos = p /\ x.leaf = FALSE /\ x.kids \in Seq(Kid)
                         /\ Chain(R, E, x.kids, lo, hi)
  BY DEF InnerSpans
<1>2. NodeAt(p, FALSE) = x
  BY <1>1, NodeThere
<1>3. f \in 1 .. Len(E) /\ k <= E[f][1] /\ \A i \in 1 .. Len(E) : i < f => E[i][1] < k
  BY DEF First
<1>4. \E a, b : <<PosFor(x.kids, k), a, b>> \in R /\ a < f /\ f <= b
  <2>1. PICK ks : ks = x.kids
    OBVIOUS
  <2>2. ks \in Seq(Kid) /\ Chain(R, E, ks, lo, hi)
    BY <1>1, <2>1
  <2>3. \E a, b : <<PosFor(ks, k), a, b>> \in R /\ a < f /\ f <= b
    BY <1>3, <2>2, ChainFinds
  <2> QED BY <2>1, <2>3
<1> QED BY <1>2, <1>4

(* bit_file_search_leaf reaches the leaf that has the first entry that is  *)
(* not below the key.                                                      *)
LEMMA LeafFound ==
  ASSUME NEW h, Packed(nodes, 0, h), ents \in Seq(Entry), Sorted(ents),
         <<root, 0, Len(ents)>> \in RootSpans(nodes, ents),
         NEW k \in Nat, NEW f, First(ents, k, f)
  PROVE  /\ LeafFor(k) \in nodes
         /\ \E lo, hi \in 0 .. Len(ents) :
              /\ lo < f /\ f <= hi /\ Holds(LeafFor(k), ents, lo, hi)
              /\ lo = 0 => LeafFor(k).pos = 0
<1> DEFINE r == NodeAt(root, FALSE)
           p == PosFor(r.kids, k)
           q == PosFor(NodeAt(p, FALSE).kids, k)
<1>1. 0 < f /\ f <= Len(ents)
  BY DEF First
<1>2. PICK a, b : <<p, a, b>> \in MidSpans(nodes, ents) /\ a < f /\ f <= b
  BY <1>1, InnerFinds DEF RootSpans
<1> HIDE DEF p
<1>3. PICK c, d : <<q, c, d>> \in LeafSpans(nodes, ents) /\ c < f /\ f <= d
  BY <1>2, InnerFinds DEF MidSpans
<1>4. LeafFor(k) = NodeAt(q, TRUE)
  BY DEF LeafFor, p
<1> HIDE DEF q
<1>5. PICK x \in nodes : x.pos = q /\ Holds(x, ents, c, d)
  BY <1>3 DEF LeafSpans
<1>6. (c = 0 => q = 0) /\ c \in 0 .. Len(ents) /\ d \in 0 .. Len(ents)
  <2>1. <<q, c, d>> \in Span(ents) /\ (c = 0 => q = 0)
    BY <1>3 DEF LeafSpans
  <2> QED BY <2>1 DEF Span
<1>7. NodeAt(q, TRUE) = x
  BY <1>5, NodeThere DEF Holds
<1> QED BY <1>3, <1>4, <1>5, <1>6, <1>7

LEMMA KeysNat ==
  ASSUME NEW E \in Seq(Entry)
  PROVE  Len(E) \in Nat /\ \A i \in 1 .. Len(E) : E[i] \in Entry /\ E[i][1] \in Nat
<1>1. \A i \in 1 .. Len(E) : E[i] \in Entry
  OBVIOUS
<1>2. \A e \in Entry : e[1] \in Nat
  BY SizesNat DEF Entry
<1> QED BY <1>1, <1>2

(* A key within the range of the file has a first entry not below it.      *)
LEMMA FirstThere ==
  ASSUME NEW E \in Seq(Entry), E # <<>>, NEW k \in Nat, k <= LastOf(E)[1]
  PROVE  \E f : First(E, k, f)
<1> DEFINE n == Len(E)
           T == {i \in 1 .. n : k <= E[i][1]}
<1>1. n \in Nat \ {0} /\ LastOf(E) = E[n] /\ \A i \in 1 .. n : E[i][1] \in Nat
  BY KeysNat DEF LastOf
<1>2. n \in T /\ T \in SUBSET Nat
  <2> HIDE DEF n
  <2> QED BY <1>1
<1>3. PICK f \in T : \A y \in T : f <= y
  <2> HIDE DEF T
  <2> QED BY <1>2, Least
<1>4. ASSUME NEW i \in 1 .. n, i < f PROVE E[i][1] < k
  <2>1. i \in Nat /\ f \in Nat
    BY <1>1, <1>3
  <2>2. i \notin T
    <3> HIDE DEF T
    <3> QED BY <1>3, <1>4, <2>1
  <2> QED BY <1>1, <2>2
<1> QED BY <1>3, <1>4 DEF First

(* What the leaf tells of the key is what all entries do.                  *)
LEMMA LeafAnswers ==
  ASSUME NEW E \in Seq(Entry), Sorted(E), NEW k \in Nat, NEW f, First(E, k, f),
         NEW lo \in 0 .. Len(E), NEW hi \in 0 .. Len(E), lo < f, f <= hi,
         NEW x, Holds(x, E, lo, hi)
  PROVE  /\ E[f][1] # k => Hits(E, k) = {} /\ Hits(x.ents, k) = {}
         /\ E[f][1] = k =>
              /\ f \in Hits(E, k) /\ Min(Hits(E, k)) = f
              /\ f - lo \in Hits(x.ents, k) /\ Min(Hits(x.ents, k)) = f - lo
              /\ x.ents[f - lo] = E[f]
         /\ \A i \in Hits(x.ents, k) : i \in Nat /\ lo + i \in Hits(E, k)
<1> DEFINE n == Len(E)
           es == x.ents
<1>1. n \in Nat /\ \A i \in 1 .. n : E[i][1] \in Nat
  BY KeysNat
<1>2. f \in 1 .. n /\ k <= E[f][1] /\ \A i \in 1 .. n : i < f => E[i][1] < k
  BY DEF First
<1>3. \A i, j \in 1 .. n : i < j => E[i][1] <= E[j][1]
  BY DEF Sorted
<1>4. Len(es) = hi - lo /\ \A i \in 1 .. hi - lo : es[i] = E[lo + i]
  BY DEF Holds
<1>5. Hits(E, k) = {i \in 1 .. n : E[i][1] = k} /\ Hits(es, k) = {i \in 1 .. hi - lo : es[i][1] = k}
  BY <1>4 DEF Hits
<1>6. lo \in 0 .. n /\ hi \in 0 .. n /\ lo < f /\ f <= hi
  OBVIOUS
<1> HIDE DEF n, es
<1>7. \A i \in 1 .. hi - lo : lo + i \in 1 .. n /\ i \in Nat
  BY <1>1, <1>6
<1>8. \A i \in Hits(es, k) : i \in Nat /\ i \in 1 .. hi - lo /\ lo + i \in Hits(E, k)
  BY <1>4, <1>5, <1>7
<1>9. \A i \in Hits(E, k) : i \in Nat /\ f <= i
  <2> SUFFICES ASSUME NEW i \in Hits(E, k) PROVE i \in Nat /\ f <= i
    OBVIOUS
  <2>1. i \in 1 .. n /\ E[i][1] = k
    BY <1>5
  <2>2. ~(E[i][1] < k)
    BY <2>1
  <2>3. ~(i < f)
    BY <1>2, <2>1, <2>2
  <2> QED BY <1>1, <1>2, <2>1, <2>3
<1>10. ASSUME E[f][1] # k PROVE Hits(E, k) = {} /\ Hits(es, k) = {}
  <2>1. ASSUME NEW i \in Hits(E, k) PROVE FALSE
    <3>1. i \in 1 .. n /\ E[i][1] = k /\ f <= i /\ i \in Nat
      BY <1>5, <1>9
    <3>2. f # i
      BY <1>10, <3>1
    <3>3. E[f][1] <= E[i][1]
      <4>1. f < i
        BY <1>1, <1>2, <3>1, <3>2
      <4> QED BY <1>2, <1>3, <3>1, <4>1
    <3> QED BY <1>1, <1>2, <1>10, <3>1, <3>3
  <2> QED BY <1>8, <2>1
<1>11. ASSUME E[f][1] = k
       PROVE  /\ f \in Hits(E, k) /\ Min(Hits(E, k)) = f
              /\ f - lo \in Hits(es, k) /\ Min(Hits(es, k)) = f - lo
              /\ es[f - lo] = E[f]
  <2>1. f \in Hits(E, k)
    BY <1>2, <1>5, <1>11
  <2>2. Min(Hits(E, k)) = f
    <3> DEFINE T == Hits(E, k)
    <3>1. T \in SUBSET Nat /\ f \in T /\ \A y \in T : f <= y
      BY <1>9, <2>1
    <3> HIDE DEF T
    <3>2. Min(T) = f
      BY <3>1, MinIs
    <3> QED BY <3>2 DEF T
  <2> DEFINE g == f - lo
  <2>3. g \in 1 .. hi - lo /\ lo + g = f /\ g \in Nat
    BY <1>1, <1>2, <1>6
  <2> HIDE DEF g
  <2>4. es[g] = E[f]
    BY <1>4, <2>3
  <2>5. g \in Hits(es, k)
    BY <1>5, <1>11, <2>3, <2>4
  <2>6. ASSUME NEW y \in Hits(es, k) PROVE g <= y
    <3>1. f <= lo + y /\ y \in Nat
      BY <1>8, <1>9
    <3> QED BY <1>6, <2>3, <3>1
  <2>7. Min(Hits(es, k)) = g
    <3> DEFINE T == Hits(es, k)
    <3>1. T \in SUBSET Nat /\ g \in T /\ \A y \in T : g <= y
      BY <1>8, <2>5, <2>6
    <3> HIDE DEF T
    <3>2. Min(T) = g
      BY <3>1, MinIs
    <3> QED BY <3>2 DEF T
  <2> QED BY <2>1, <2>2, <2>4, <2>5, <2>7 DEF g
<1> QED BY <1>8, <1>10, <1>11 DEF es

LEMMA TwoHits ==
  ASSUME NEW E \in Seq(Entry), NEW k, Cardinality(Hits(E, k)) < 2,
         NEW i \in Hits(E, k), NEW j \in Hits(E, k)
  PROVE  i = j
<1> DEFINE T == Hits(E, k)
<1>1. T \subseteq 1 .. Len(E) /\ Len(E) \in Int /\ 1 \in Int
  BY DEF Hits
<1>2. IsFiniteSet(1 .. Len(E))
  BY <1>1, FS_Interval
<1>3. IsFiniteSet(T)
  BY <1>1, <1>2, FS_Subset
<1> SUFFICES ASSUME i # j PROVE FALSE
  OBVIOUS
<1>4. IsFiniteSet({i}) /\ Cardinality({i}) = 1
  BY FS_Singleton
<1>5. IsFiniteSet({i} \cup {j}) /\ Cardinality({i} \cup {j}) = 2
  <2> DEFINE U == {i}
  <2>1. IsFiniteSet(U) /\ Cardinality(U) = 1 /\ j \notin U
    BY <1>4
  <2> HIDE DEF U
  <2>2. IsFiniteSet(U \cup {j}) /\ Cardinality(U \cup {j}) = 2
    <3>1. IsFiniteSet(U \cup {j}) /\ (j \notin U => Cardinality(U \cup {j}) = Cardinality(U) + 1)
      BY <2>1, FS_AddElement
    <3> QED BY <2>1, <3>1
  <2> QED BY <2>2 DEF U
<1>6. {i} \cup {j} \subseteq T
  OBVIOUS
<1>7. 2 <= Cardinality(T) /\ Cardinality(T) \in Nat
  <2> HIDE DEF T
  <2> DEFINE U == {i} \cup {j}
  <2>1. U \in SUBSET T /\ Cardinality(U) = 2
    BY <1>5, <1>6
  <2> HIDE DEF U
  <2>2. Cardinality(U) <= Cardinality(T)
    BY <1>3, <2>1, FS_Subset
  <2>3. Cardinality(T) \in Nat
    BY <1>3, FS_CardinalityType
  <2> QED BY <2>1, <2>2, <2>3
<1>8. Cardinality(T) < 2
  OBVIOUS
<1> HIDE DEF T
<1> QED BY <1>7, <1>8

(* bit_file_search and bit_file_range_search.                              *)
LEMMA SearchReads ==
  ASSUME NEW h, Packed(nodes, 0, h), ents \in Seq(Entry), Sorted(ents), ents # <<>>,
         <<root, 0, Len(ents)>> \in RootSpans(nodes, ents), NEW k \in Nat
  PROVE  /\ Search(k) = IF Hits(ents, k) = {} THEN "none" ELSE ents[Min(Hits(ents, k))][2]
         /\ Cardinality(Hits(ents, k)) < 2 => RangeSearch(k) = Search(k)
<1> DEFINE n == Len(ents)
<1>1. n \in Nat \ {0} /\ LastOf(ents) = ents[n] /\ \A i \in 1 .. n : ents[i][1] \in Nat
  BY KeysNat DEF LastOf
<1>2. CASE ~InRange(k)
  <2>1. ASSUME NEW i \in Hits(ents, k) PROVE FALSE
    <3>1. i \in 1 .. n /\ ents[i][1] = k
      BY DEF Hits
    <3>2. \A a, b \in 1 .. n : a < b => ents[a][1] <= ents[b][1]
      BY DEF Sorted
    <3> HIDE DEF n
    <3>3. 1 \in 1 .. n /\ n \in 1 .. n
      BY <1>1
    <3>4. ents[1][1] <= k
      <4>1. CASE i = 1
        BY <1>1, <3>1, <4>1
      <4>2. CASE i # 1
        BY <1>1, <3>1, <3>2, <3>3, <4>2
      <4> QED BY <4>1, <4>2
    <3>5. k <= ents[n][1]
      <4>1. CASE i = n
        BY <1>1, <3>1, <4>1
      <4>2. CASE i # n
        BY <1>1, <3>1, <3>2, <3>3, <4>2
      <4> QED BY <4>1, <4>2
    <3> QED BY <1>1, <1>2, <3>4, <3>5 DEF InRange
  <2>2. Hits(ents, k) = {}
    BY <2>1
  <2>3. Search(k) = "none" /\ RangeSearch(k) = "none"
    BY <1>2 DEF Search, RangeSearch
  <2> QED BY <2>2, <2>3
<1>3. CASE InRange(k)
  <2>1. PICK f : First(ents, k, f)
    <3>1. k <= LastOf(ents)[1]
      BY <1>3 DEF InRange
    <3> QED BY <3>1, FirstThere
  <2> DEFINE x == LeafFor(k)
             es == x.ents
  <2>2. PICK lo \in 0 .. n, hi \in 0 .. n : lo < f /\ f <= hi /\ Holds(x, ents, lo, hi)
    BY <2>1, LeafFound
  <2>3. /\ Search(k) = IF Hits(es, k) = {} THEN "none" ELSE es[Min(Hits(es, k))][2]
        /\ RangeSearch(k) = IF Hits(es, k) = {} THEN "none" ELSE es[Max(Hits(es, k))][2]
    BY <1>3 DEF Search, RangeSearch
  <2> HIDE DEF x
  <2>4. /\ ents[f][1] # k => Hits(ents, k) = {} /\ Hits(es, k) = {}
        /\ ents[f][1] = k =>
             /\ f \in Hits(ents, k) /\ Min(Hits(ents, k)) = f
             /\ f - lo \in Hits(es, k) /\ Min(Hits(es, k)) = f - lo
             /\ es[f - lo] = ents[f]
        /\ \A i \in Hits(es, k) : i \in Nat /\ lo + i \in Hits(ents, k)
    BY <2>1, <2>2, LeafAnswers
  <2> HIDE DEF es
  <2>5. CASE ents[f][1] # k
    BY <2>3, <2>4, <2>5
  <2>6. CASE ents[f][1] = k
    <3>1. Hits(es, k) # {} /\ Hits(ents, k) # {}
      BY <2>4, <2>6
    <3>2. Search(k) = ents[f][2] /\ ents[Min(Hits(ents, k))][2] = ents[f][2]
      BY <2>3, <2>4, <2>6, <3>1
    <3>3. ASSUME Cardinality(Hits(ents, k)) < 2 PROVE RangeSearch(k) = Search(k)
      <4> DEFINE g == f - lo
      <4>1. f \in Nat /\ lo \in Nat
        BY <1>1, <2>1, <2>2 DEF First
      <4>2. g \in Hits(es, k) /\ g \in Nat /\ lo + g = f /\ es[g] = ents[f]
        BY <2>4, <2>6, <4>1
      <4>3. ASSUME NEW i \in Hits(es, k) PROVE i = g
        <5>1. i \in Nat /\ lo + i \in Hits(ents, k) /\ f \in Hits(ents, k)
          BY <2>4, <2>6
        <5>2. lo + i = f
          BY <3>3, <5>1, TwoHits
        <5> QED BY <4>1, <4>2, <5>1, <5>2
      <4> HIDE DEF g
      <4>4. Max(Hits(es, k)) = g
        <5> DEFINE T == Hits(es, k)
        <5>1. T \in SUBSET Nat /\ g \in T /\ \A y \in T : y <= g
          <6>1. T \in SUBSET Nat
            BY <2>4
          <6>2. \A y \in T : y <= g
            <7> SUFFICES ASSUME NEW y \in T PROVE y <= g
              OBVIOUS
            <7>1. y = g
              BY <4>3
            <7> QED BY <4>2, <7>1
          <6> QED BY <4>2, <6>1, <6>2
        <5> HIDE DEF T
        <5>2. Max(T) = g
          BY <5>1, MaxIs
        <5> QED BY <5>2 DEF T
      <4> QED BY <2>3, <3>1, <3>2, <4>2, <4>4
    <3> QED BY <3>1, <3>2, <3>3
  <2> QED BY <2>5, <2>6
<1> QED BY <1>2, <1>3


-----------------------------------------------------------------------------
(* Iterating over a file.                                                  *)

(* Where the leaf starts that has the entry after the first i.             *)
Cell(i) == i - (i % LeafLen)

LEMMA ModUnique ==
  ASSUME NEW d \in Nat \ {0}, NEW q \in Nat, NEW r \in Nat, r < d
  PROVE  (q * d + r) % d = r
OBVIOUS

LEMMA ModParts ==
  ASSUME NEW a \in Nat, NEW d \in Nat \ {0}
  PROVE  /\ a \div d \in Nat /\ a % d \in Nat /\ a % d < d
         /\ a = (a \div d) * d + (a % d)
<1>1. a \div d \in Nat /\ a % d \in 0 .. d - 1
  OBVIOUS
<1>2. a % d = a - (a \div d) * d
  OBVIOUS
<1> DEFINE u == (a \div d) * d
           v == a % d
<1>3. u \in Nat /\ v = a - u /\ v \in Nat /\ v < d
  BY <1>1, <1>2
<1>4. a = u + v
  <2> HIDE DEF u, v
  <2> QED BY <1>3
<1> QED BY <1>1, <1>3, <1>4

LEMMA CellFacts ==
  ASSUME NEW i \in Nat
  PROVE  /\ i % LeafLen \in Nat /\ i % LeafLen < LeafLen /\ Cell(i) \in Nat
         /\ Cell(i) + (i % LeafLen) = i /\ Cell(i) % LeafLen = 0
<1> DEFINE d == LeafLen
           q == i \div d
           r == i % d
           z == q * d
<1>1. d \in Nat \ {0}
  BY SizesNat
<1>2. q \in Nat /\ r \in Nat /\ r < d /\ i = q * d + r
  BY <1>1, ModParts
<1>3. z \in Nat /\ (q * d + 0) % d = 0 /\ q * d + 0 = z
  BY <1>1, <1>2, ModUnique
<1>4. Cell(i) = i - r
  BY Zenon DEF Cell
<1>5. i = z + r
  BY <1>2
<1>6. z % d = 0
  BY <1>3
<1> HIDE DEF d, q, r, z
<1>7. Cell(i) = z
  BY <1>2, <1>3, <1>4, <1>5
<1>8. r \in Nat /\ r < d /\ Cell(i) \in Nat /\ Cell(i) + r = i /\ Cell(i) % d = 0
  BY <1>2, <1>3, <1>5, <1>6, <1>7
<1> QED BY <1>8, Zenon DEF d, r

LEMMA CellBefore ==
  ASSUME NEW i \in Nat \ {0}
  PROVE  /\ i % LeafLen = 0 => Cell(i) = i /\ Cell(i - 1) + LeafLen = i
         /\ i % LeafLen # 0 => Cell(i - 1) = Cell(i)
<1> DEFINE d == LeafLen
           q == i \div d
           r == i % d
           z == q * d
<1>1. d \in Nat \ {0}
  BY SizesNat
<1>2. q \in Nat /\ r \in Nat /\ r < d /\ i = z + r /\ z \in Nat
  BY <1>1, ModParts
<1>3. Cell(i) = i - r /\ Cell(i - 1) = (i - 1) - ((i - 1) % d)
  BY Zenon DEF Cell
<1>4. CASE r # 0
  <2>1. (q * d + (r - 1)) % d = r - 1
    <3>1. r - 1 \in Nat /\ r - 1 < d
      BY <1>1, <1>2, <1>4
    <3> HIDE DEF d, q, r, z
    <3> QED BY <1>1, <1>2, <3>1, ModUnique
  <2>2. q * d + (r - 1) = i - 1
    <3> HIDE DEF d, q, r
    <3> QED BY <1>2
  <2>3. (i - 1) % d = r - 1
    BY <2>1, <2>2
  <2> DEFINE v == (i - 1) % d
  <2>4. v = r - 1 /\ Cell(i - 1) = (i - 1) - v
    BY <1>3, <2>3, Zenon
  <2>5. Cell(i - 1) = i - r
    <3> HIDE DEF d, q, r, z, v
    <3> QED BY <1>2, <2>4
  <2> QED BY <1>3, <1>4, <2>5
<1>5. CASE r = 0
  <2>1. q # 0
    BY <1>1, <1>2, <1>5
  <2>2. q - 1 \in Nat /\ (q - 1) * d + (d - 1) = i - 1 /\ d - 1 \in Nat /\ d - 1 < d
    <3>1. q - 1 \in Nat /\ d - 1 \in Nat /\ d - 1 < d
      BY <1>1, <1>2, <2>1
    <3>2. (q - 1) * d = q * d - d
      <4> HIDE DEF d, q, r
      <4> QED BY <1>1, <1>2, <2>1
    <3>3. q * d = i
      BY <1>2, <1>5
    <3> DEFINE y == (q - 1) * d
    <3>4. y = i - d
      BY <3>2, <3>3
    <3>5. y + (d - 1) = i - 1
      <4> HIDE DEF y, d
      <4> QED BY <1>1, <3>4
    <3> QED BY <3>1, <3>5
  <2>3. ((q - 1) * d + (d - 1)) % d = d - 1
    <3> DEFINE y == q - 1
    <3>1. y \in Nat /\ d - 1 \in Nat /\ d - 1 < d
      BY <2>2
    <3> HIDE DEF y, d
    <3>2. (y * d + (d - 1)) % d = d - 1
      BY <1>1, <3>1, ModUnique
    <3> QED BY <3>2 DEF y
  <2>4. (i - 1) % d = d - 1
    BY <2>2, <2>3
  <2> DEFINE v == (i - 1) % d
  <2>5. v = d - 1 /\ Cell(i - 1) = (i - 1) - v
    BY <1>3, <2>4, Zenon
  <2>6. Cell(i - 1) + d = i /\ i - r = i
    <3> HIDE DEF d, q, r, z, v
    <3> QED BY <1>1, <1>2, <1>5, <2>5
  <2> QED BY <1>3, <1>5, <2>6
<1> QED BY <1>4, <1>5

LeafEnd(E, lo) == IF lo + LeafLen <= Len(E) THEN lo + LeafLen ELSE Len(E)

(* The leaves of a file are a list from the start of it: P gives where each*)
(* is by the entries before it.                                            *)
Threaded(S, E, P) ==
  /\ P[0] = 0
  /\ \A lo \in 0 .. Len(E) - 1 : lo % LeafLen = 0 =>
       \E x \in S :
         /\ x.pos = P[lo] /\ Holds(x, E, lo, LeafEnd(E, lo))
         /\ lo + LeafLen < Len(E) => x.next = P[lo + LeafLen]

Prefix(E, c) == [i \in 1 .. c |-> E[i]]

LEMMA PrefixNext ==
  ASSUME NEW E \in Seq(Entry), NEW c \in 1 .. Len(E)
  PROVE  Prefix(E, c) = Prefix(E, c - 1) \o <<E[c]>>
<1> DEFINE A == Prefix(E, c - 1)
           B == Prefix(E, c)
           n == Len(E)
<1>1. n \in Nat /\ c \in Nat /\ c - 1 \in Nat /\ c <= n /\ 1 <= c
  OBVIOUS
<1>2. \A i \in 1 .. n : E[i] \in Entry
  OBVIOUS
<1> HIDE DEF n
<1>3. \A i \in 1 .. c : i \in 1 .. n
  BY <1>1
<1>4. A = [i \in 1 .. c - 1 |-> E[i]] /\ B = [i \in 1 .. c |-> E[i]]
  BY DEF Prefix
<1>5. A \in Seq(Entry) /\ Len(A) = c - 1
  <2>1. \A i \in 1 .. c - 1 : i \in 1 .. n
    BY <1>1
  <2> HIDE DEF A, B
  <2> QED BY <1>1, <1>2, <1>4, <2>1
<1>6. E[c] \in Entry /\ <<E[c]>> \in Seq(Entry) /\ Len(<<E[c]>>) = 1 /\ <<E[c]>>[1] = E[c]
  <2>1. E[c] \in Entry
    BY <1>1, <1>2
  <2> QED BY <2>1
<1> DEFINE C == A \o <<E[c]>>
<1>7. C = [i \in 1 .. c |-> IF i <= c - 1 THEN A[i] ELSE E[c]]
  <2> HIDE DEF A, B
  <2> QED BY <1>1, <1>5, <1>6
<1>8. \A i \in 1 .. c : (IF i <= c - 1 THEN A[i] ELSE E[c]) = E[i]
  <2> SUFFICES ASSUME NEW i \in 1 .. c PROVE (IF i <= c - 1 THEN A[i] ELSE E[c]) = E[i]
    OBVIOUS
  <2> HIDE DEF A, B
  <2>1. CASE i <= c - 1
    BY <1>1, <1>4, <2>1
  <2>2. CASE ~(i <= c - 1)
    <3>1. i = c
      BY <1>1, <2>2
    <3> QED BY <2>2, <3>1
  <2> QED BY <2>1, <2>2
<1> HIDE DEF A, B, C
<1>9. C = B
  BY <1>4, <1>7, <1>8
<1> QED BY <1>9 DEF A, B, C

(* The leaf at a place of the list.                                        *)
LEMMA ThreadLeaf ==
  ASSUME NEW h, Packed(nodes, 0, h), NEW E, NEW P, Threaded(nodes, E, P),
         NEW lo \in 0 .. Len(E) - 1, lo % LeafLen = 0
  PROVE  LET x == NodeAt(P[lo], TRUE)
         IN /\ x \in nodes /\ x.pos = P[lo] /\ Holds(x, E, lo, LeafEnd(E, lo))
            /\ lo + LeafLen < Len(E) => x.next = P[lo + LeafLen]
<1>1. PICK x \in nodes :
         /\ x.pos = P[lo] /\ Holds(x, E, lo, LeafEnd(E, lo))
         /\ lo + LeafLen < Len(E) => x.next = P[lo + LeafLen]
  BY DEF Threaded
<1>2. NodeAt(P[lo], TRUE) = x
  BY <1>1, NodeThere DEF Holds
<1> QED BY <1>1, <1>2

(* The iterator starts at the first leaf of the list.                      *)
LEMMA FirstLeaf ==
  ASSUME NEW h, Packed(nodes, 0, h), ents \in Seq(Entry), Sorted(ents), ents # <<>>,
         <<root, 0, Len(ents)>> \in RootSpans(nodes, ents), NEW P, Threaded(nodes, ents, P)
  PROVE  LeafFor(ents[1][1]) = NodeAt(P[0], TRUE)
<1> DEFINE k == ents[1][1]
           n == Len(ents)
<1>1. n \in Nat \ {0}
  OBVIOUS
<1>2. 1 \in 1 .. n
  BY <1>1
<1>3. k \in Nat
  BY <1>2, KeysNat
<1>4. First(ents, k, 1)
  BY <1>2, <1>3 DEF First
<1> HIDE DEF k, n
<1>5. PICK lo \in 0 .. n, hi \in 0 .. n :
        /\ LeafFor(k) \in nodes /\ lo < 1 /\ 1 <= hi /\ Holds(LeafFor(k), ents, lo, hi)
        /\ lo = 0 => LeafFor(k).pos = 0
  BY <1>3, <1>4, LeafFound DEF n
<1>6. LeafFor(k) \in nodes /\ LeafFor(k).pos = 0 /\ LeafFor(k).leaf = TRUE
  <2>1. lo = 0
    BY <1>1, <1>5
  <2> QED BY <1>5, <2>1 DEF Holds
<1>7. NodeAt(0, TRUE) = LeafFor(k)
  BY <1>6, NodeThere
<1>8. P[0] = 0
  BY DEF Threaded
<1> QED BY <1>7, <1>8 DEF k

(* One step of the iterator.                                               *)
LEMMA WalkStep ==
  ASSUME NEW h, Packed(nodes, 0, h), ents \in Seq(Entry), NEW P, Threaded(nodes, ents, P),
         NEW c \in 1 .. Len(ents), NEW prev,
         prev = NodeAt(P[IF c = 1 THEN 0 ELSE Cell(c - 2)], TRUE)
  PROVE  LET i == ((c - 1) % LeafLen) + 1
             lf == IF i = 1 /\ c > 1 THEN NodeAt(prev.next, TRUE) ELSE prev
         IN lf = NodeAt(P[Cell(c - 1)], TRUE) /\ SubSeq(lf.ents, i, Min({i, Len(lf.ents)})) = <<ents[c]>>
<1> DEFINE n == Len(ents)
           d == LeafLen
           r == (c - 1) % d
           i == r + 1
           lo == Cell(c - 1)
           x == NodeAt(P[lo], TRUE)
           lf == IF i = 1 /\ c > 1 THEN NodeAt(prev.next, TRUE) ELSE prev
<1>1. n \in Nat /\ c \in Nat /\ 1 <= c /\ c <= n /\ c - 1 \in Nat /\ d \in Nat \ {0}
  BY SizesNat
<1>2. r \in Nat /\ r < d /\ lo \in Nat /\ lo + r = c - 1 /\ lo % d = 0
  <2>1. PICK e \in Nat : e = c - 1
    BY <1>1
  <2>2. /\ e % LeafLen \in Nat /\ e % LeafLen < LeafLen /\ Cell(e) \in Nat
        /\ Cell(e) + (e % LeafLen) = e /\ Cell(e) % LeafLen = 0
    BY CellFacts
  <2> QED BY <2>1, <2>2, Zenon
<1>3. lo \in 0 .. n - 1
  <2> HIDE DEF n, r, lo
  <2> QED BY <1>1, <1>2
<1>4. lf = x
  <2>1. CASE c = 1
    <3>1. lo = 0
      <4> HIDE DEF r, lo, d
      <4> QED BY <1>2, <2>1
    <3>2. lf = prev /\ prev = NodeAt(P[0], TRUE)
      <4>1. ~(c > 1)
        BY <2>1
      <4> HIDE DEF i
      <4> QED BY <2>1, <4>1
    <3> QED BY <3>1, <3>2
  <2>2. CASE c # 1 /\ r # 0
    <3>1. c - 1 \in Nat \ {0} /\ (c - 1) - 1 = c - 2
      BY <1>1, <2>2
    <3>2. Cell(c - 2) = lo
      BY <2>2, <3>1, CellBefore
    <3>3. lf = prev
      <4>1. i # 1
        <5> HIDE DEF r
        <5> QED BY <1>2, <2>2
      <4> HIDE DEF i
      <4> QED BY <4>1
    <3> QED BY <2>2, <3>2, <3>3
  <2>3. CASE c # 1 /\ r = 0
    <3>1. c - 1 \in Nat \ {0} /\ (c - 1) - 1 = c - 2 /\ c > 1 /\ c - 2 \in Nat
      BY <1>1, <2>3
    <3> DEFINE m == Cell(c - 2)
    <3>2. lo = c - 1 /\ m + d = c - 1
      BY <2>3, <3>1, CellBefore
    <3>3. m \in Nat /\ m % d = 0
      BY <3>1, CellFacts
    <3>4. m \in 0 .. n - 1 /\ m + d < n
      <4> HIDE DEF m, d, n, lo
      <4> QED BY <1>1, <3>2, <3>3
    <3>5. prev = NodeAt(P[m], TRUE)
      BY <2>3
    <3> HIDE DEF m
    <3>6. prev.next = P[m + d]
      <4>1. m \in 0 .. Len(ents) - 1 /\ m % LeafLen = 0 /\ m + LeafLen < Len(ents)
        BY <3>3, <3>4
      <4>2. NodeAt(P[m], TRUE).next = P[m + LeafLen]
        BY <4>1, ThreadLeaf
      <4> QED BY <3>5, <4>2
    <3>7. lf = NodeAt(prev.next, TRUE)
      <4>1. i = 1
        <5> HIDE DEF r
        <5> QED BY <2>3
      <4> HIDE DEF i
      <4> QED BY <3>1, <4>1
    <3> QED BY <3>2, <3>6, <3>7
  <2> QED BY <2>1, <2>2, <2>3
<1>5. Holds(x, ents, lo, LeafEnd(ents, lo))
  BY <1>2, <1>3, ThreadLeaf
<1>6. /\ x.ents \in Seq(Entry) /\ Len(x.ents) = LeafEnd(ents, lo) - lo
      /\ \A j \in 1 .. LeafEnd(ents, lo) - lo : x.ents[j] = ents[lo + j]
  BY <1>5 DEF Holds
<1>7. i \in 1 .. LeafEnd(ents, lo) - lo /\ lo + i = c /\ LeafEnd(ents, lo) \in Nat
  <2>1. LeafEnd(ents, lo) = IF lo + d <= n THEN lo + d ELSE n
    BY DEF LeafEnd
  <2> HIDE DEF n, r, lo, d
  <2> QED BY <1>1, <1>2, <2>1
<1> DEFINE es == x.ents
<1>8. es \in Seq(Entry) /\ i \in 1 .. Len(es) /\ es[i] = ents[c]
  BY <1>6, <1>7
<1> HIDE DEF es, i
<1>9. Min({i, Len(es)}) = i
  <2> DEFINE T == {i, Len(es)}
  <2>1. T \in SUBSET Nat /\ i \in T /\ \A y \in T : i <= y
    BY <1>8
  <2> HIDE DEF T
  <2>2. Min(T) = i
    BY <2>1, MinIs
  <2> QED BY <2>2 DEF T
<1>10. SubSeq(es, i, i) = <<es[i]>>
  <2> DEFINE s == SubSeq(es, i, i)
  <2>1. s = [j \in 1 .. 1 |-> es[i]]
    <3>1. s = [j \in 1 .. (i - i) + 1 |-> es[(i + j) - 1]]
      BY <1>8
    <3>2. (i - i) + 1 = 1 /\ \A j \in 1 .. 1 : (i + j) - 1 = i
      BY <1>8
    <3> QED BY <3>1, <3>2
  <2>2. <<es[i]>> = [j \in 1 .. 1 |-> es[i]]
    OBVIOUS
  <2> QED BY <2>1, <2>2
<1> QED BY <1>4, <1>8, <1>9, <1>10 DEF es, i

(* bit_iterator_next returns the entries in order.                         *)
LEMMA IterateReads ==
  ASSUME NEW h, Packed(nodes, 0, h), ents \in Seq(Entry), Sorted(ents), ents # <<>>,
         <<root, 0, Len(ents)>> \in RootSpans(nodes, ents), NEW P, Threaded(nodes, ents, P)
  PROVE  Iterate = ents
<1> DEFINE n == Len(ents)
           start == [out |-> <<>>, at |-> LeafFor(ents[1][1])]
           Go(w, c) ==
             LET i == ((c - 1) % LeafLen) + 1
                 lf == IF i = 1 /\ c > 1 THEN NodeAt(w.at.next, TRUE) ELSE w.at
             IN [out |-> w.out \o SubSeq(lf.ents, i, Min({i, Len(lf.ents)})), at |-> lf]
           walk == CHOOSE f : f = [c \in 0 .. n |-> IF c = 0 THEN start ELSE Go(f[c - 1], c)]
           Leaf(c) == NodeAt(P[IF c = 0 THEN 0 ELSE Cell(c - 1)], TRUE)
           g == [c \in 0 .. n |-> [out |-> Prefix(ents, c), at |-> Leaf(c)]]
<1>1. Iterate = walk[n].out
  BY DEF Iterate
<1>2. n \in Nat \ {0}
  OBVIOUS
<1>3. g[0] = start
  <2>1. 0 \in 0 .. n
    BY <1>2
  <2>2. g[0] = [out |-> Prefix(ents, 0), at |-> Leaf(0)]
    BY <2>1
  <2>3. Leaf(0) = LeafFor(ents[1][1])
    BY FirstLeaf
  <2>4. Prefix(ents, 0) = <<>>
    BY DEF Prefix
  <2> HIDE DEF Leaf, g
  <2> QED BY <2>2, <2>3, <2>4
<1>4. ASSUME NEW c \in 0 .. n, c # 0
      PROVE  g[c] = Go(g[c - 1], c)
  <2>1. c \in 1 .. n /\ c - 1 \in 0 .. n /\ c \in Nat
    BY <1>2, <1>4
  <2> DEFINE w == g[c - 1]
             prev == w.at
             i == ((c - 1) % LeafLen) + 1
             lf == IF i = 1 /\ c > 1 THEN NodeAt(prev.next, TRUE) ELSE prev
  <2>2. w = [out |-> Prefix(ents, c - 1), at |-> Leaf(c - 1)]
    BY <2>1
  <2>3. prev = Leaf(c - 1) /\ w.out = Prefix(ents, c - 1)
    <3> HIDE DEF w, Leaf
    <3> QED BY <2>2
  <2>4. (c - 1 = 0 <=> c = 1) /\ (c - 1) - 1 = c - 2
    BY <2>1
  <2>5. prev = NodeAt(P[IF c = 1 THEN 0 ELSE Cell(c - 2)], TRUE)
    <3> HIDE DEF w, prev
    <3> QED BY <2>3, <2>4
  <2> HIDE DEF prev
  <2>6. lf = NodeAt(P[Cell(c - 1)], TRUE) /\ SubSeq(lf.ents, i, Min({i, Len(lf.ents)})) = <<ents[c]>>
    <3> HIDE DEF n
    <3> QED BY <2>1, <2>5, WalkStep DEF n
  <2>7. Go(w, c) = [out |-> w.out \o SubSeq(lf.ents, i, Min({i, Len(lf.ents)})), at |-> lf]
    <3> HIDE DEF w
    <3> QED BY DEF prev
  <2>8. g[c] = [out |-> Prefix(ents, c), at |-> Leaf(c)]
    OBVIOUS
  <2>9. Leaf(c) = NodeAt(P[Cell(c - 1)], TRUE)
    BY <1>4
  <2>10. Prefix(ents, c) = Prefix(ents, c - 1) \o <<ents[c]>>
    BY <2>1, PrefixNext
  <2> HIDE DEF w, lf, i, Leaf, g, Go
  <2> QED BY <2>3, <2>6, <2>7, <2>8, <2>9, <2>10 DEF w
<1> HIDE DEF Go, start
<1>5. g = [c \in 0 .. n |-> IF c = 0 THEN start ELSE Go(g[c - 1], c)]
  <2>1. g = [c \in 0 .. n |-> g[c]]
    OBVIOUS
  <2> HIDE DEF g, n
  <2> QED BY <1>3, <1>4, <2>1
<1>6. walk = [c \in 0 .. n |-> IF c = 0 THEN start ELSE Go(walk[c - 1], c)]
  <2> HIDE DEF g, n
  <2> QED BY <1>5
<1>a. g[n] = [out |-> Prefix(ents, n), at |-> Leaf(n)]
  <2>1. n \in 0 .. n
    BY <1>2
  <2> HIDE DEF n, Leaf
  <2> QED BY <2>1
<1> HIDE DEF walk, g, n
<1> DEFINE T == {c \in 0 .. n : walk[c] # g[c]}
<1>7. T = {}
  <2> SUFFICES ASSUME T # {} PROVE FALSE
    OBVIOUS
  <2>1. T \in SUBSET Nat
    BY <1>2
  <2>2. PICK c \in T : \A y \in T : c <= y
    <3> HIDE DEF T
    <3> QED BY <2>1, Least
  <2>3. c \in 0 .. n /\ walk[c] # g[c]
    OBVIOUS
  <2>4. c # 0
    BY <1>3, <1>6, <2>3
  <2>5. c - 1 \in 0 .. n /\ ~(c <= c - 1)
    BY <1>2, <2>3, <2>4
  <2>6. walk[c - 1] = g[c - 1]
    BY <2>2, <2>5
  <2>7. walk[c] = Go(walk[c - 1], c)
    BY <1>6, <2>3, <2>4
  <2> QED BY <1>4, <2>3, <2>4, <2>6, <2>7
<1>8. walk[n] = g[n]
  <2>1. n \in 0 .. n
    BY <1>2
  <2> QED BY <1>7, <2>1
<1>9. Iterate = Prefix(ents, n)
  <2> HIDE DEF Leaf
  <2> QED BY <1>1, <1>8, <1>a
<1>10. Prefix(ents, n) = ents
  BY DEF Prefix, n
<1> QED BY <1>9, <1>10


-----------------------------------------------------------------------------
(* Writing a file.                                                         *)

(* The full leaves, m entries in all, are a list from the start of the file*)
(* that ends where the next node goes.                                     *)
Linked(S, E, m, P, at) ==
  /\ m \in 0 .. Len(E) /\ m % LeafLen = 0 /\ P[0] = 0 /\ P[m] = at
  /\ \A lo \in 0 .. m - 1 : lo % LeafLen = 0 =>
       /\ lo + LeafLen <= m
       /\ \E x \in S : x.pos = P[lo] /\ Holds(x, E, lo, lo + LeafLen) /\ x.next = P[lo + LeafLen]

(* The nodes that wait for a parent span the full leaves, in the order of  *)
(* the entries, or the root does, which is then the last node.             *)
Grown(c, S, E, m, at) ==
  IF c[2] = <<>>
  THEN \E k : Chain(MidSpans(S, E), E, c[1], 0, k) /\ Chain(LeafSpans(S, E), E, c[0], k, m)
  ELSE m # 0 /\ <<at - InnerSize, 0, m>> \in RootSpans(S, E)

(* The second inductive invariant: the nodes hold what was added.          *)
Filled ==
  /\ Sorted(ents)
  /\ root = -1 =>
       \E m, P : /\ Linked(nodes, ents, m, P, begin + cur) /\ m + Len(leaf) = Len(ents)
                 /\ \A i \in 1 .. Len(leaf) : leaf[i] = ents[m + i]
                 /\ Grown(ctx, nodes, ents, m, begin + cur)
  /\ root # -1 =>
       /\ ents # <<>> /\ <<root, 0, Len(ents)>> \in RootSpans(nodes, ents)
       /\ \E P : Threaded(nodes, ents, P)

LEMMA LinkedLater ==
  ASSUME NEW E, NEW F, Longer(E, F), NEW S, NEW T, S \subseteq T, NEW m, NEW P, NEW at,
         Linked(S, E, m, P, at)
  PROVE  Linked(T, F, m, P, at)
<1>1. Len(E) \in Nat /\ Len(F) \in Nat /\ Len(E) <= Len(F) /\ LeafLen \in Nat
  BY SizesNat DEF Longer
<1>2. m \in 0 .. Len(E) /\ m % LeafLen = 0 /\ P[0] = 0 /\ P[m] = at
  BY DEF Linked
<1>3. m \in 0 .. Len(F)
  BY <1>1, <1>2
<1>4. ASSUME NEW lo \in 0 .. m - 1, lo % LeafLen = 0
      PROVE  /\ lo + LeafLen <= m
             /\ \E x \in T : x.pos = P[lo] /\ Holds(x, F, lo, lo + LeafLen) /\ x.next = P[lo + LeafLen]
  <2>1. lo + LeafLen <= m
    BY <1>4 DEF Linked
  <2>2. PICK x \in S : x.pos = P[lo] /\ Holds(x, E, lo, lo + LeafLen) /\ x.next = P[lo + LeafLen]
    BY <1>4 DEF Linked
  <2>3. lo \in 0 .. Len(E) /\ lo + LeafLen \in 0 .. Len(E)
    BY <1>1, <1>2, <2>1
  <2>4. Holds(x, F, lo, lo + LeafLen)
    BY <2>2, <2>3, HoldsLater
  <2> QED BY <2>1, <2>2, <2>4
<1> QED BY <1>2, <1>3, <1>4 DEF Linked

LEMMA GrownLater ==
  ASSUME NEW E, NEW F, Longer(E, F), NEW S, NEW T, S \subseteq T, NEW m, NEW c, NEW at,
         Grown(c, S, E, m, at)
  PROVE  Grown(c, T, F, m, at)
<1>1. /\ LeafSpans(S, E) \subseteq LeafSpans(T, F) /\ MidSpans(S, E) \subseteq MidSpans(T, F)
      /\ RootSpans(S, E) \subseteq RootSpans(T, F)
  BY SpansLater
<1>2. CASE c[2] = <<>>
  <2>1. PICK k : Chain(MidSpans(S, E), E, c[1], 0, k) /\ Chain(LeafSpans(S, E), E, c[0], k, m)
    BY <1>2 DEF Grown
  <2>2. Chain(MidSpans(T, F), F, c[1], 0, k) /\ Chain(LeafSpans(T, F), F, c[0], k, m)
    BY <1>1, <2>1, ChainLater
  <2> QED BY <1>2, <2>2 DEF Grown
<1>3. CASE c[2] # <<>>
  BY <1>1, <1>3 DEF Grown
<1> QED BY <1>2, <1>3

(* Multiples of the length of a leaf.                                      *)
LEMMA CellsApart ==
  ASSUME NEW m \in Nat, m % LeafLen = 0
  PROVE  /\ (m + LeafLen) % LeafLen = 0
         /\ \A lo \in Nat : lo % LeafLen = 0 /\ m <= lo /\ lo < m + LeafLen => lo = m
<1> DEFINE d == LeafLen
           q == m \div d
<1>1. d \in Nat \ {0}
  BY SizesNat
<1>2. q \in Nat /\ m = q * d
  <2>1. q \in Nat /\ m = q * d + (m % d)
    BY <1>1, ModParts
  <2>2. q * d \in Nat /\ m % d = 0
    BY <1>1, <2>1
  <2> QED BY <2>1, <2>2
<1>3. (m + d) % d = 0
  <2>1. (q + 1) * d + 0 = m + d
    BY <1>1, <1>2
  <2>2. ((q + 1) * d + 0) % d = 0
    <3> DEFINE y == q + 1
    <3>1. y \in Nat
      BY <1>2
    <3> HIDE DEF y, d, q
    <3>2. (y * d + 0) % d = 0
      BY <1>1, <3>1, ModUnique
    <3> QED BY <3>2 DEF y
  <2> QED BY <2>1, <2>2
<1>4. ASSUME NEW lo \in Nat, lo % d = 0, m <= lo, lo < m + d
      PROVE  lo = m
  <2> DEFINE r == lo - m
  <2>1. r \in Nat /\ r < d /\ lo = m + r
    BY <1>1, <1>4
  <2>2. (q * d + r) % d = r
    <3> HIDE DEF r, d, q
    <3> QED BY <1>1, <1>2, <2>1, ModUnique
  <2>3. lo % d = r
    BY <1>2, <2>1, <2>2
  <2> HIDE DEF d, r
  <2> QED BY <1>4, <2>1, <2>3
<1> QED BY <1>3, <1>4 DEF d

LEMMA LinkedAdd ==
  ASSUME NEW E \in Seq(Entry), NEW S, NEW m, NEW P, NEW at, Linked(S, E, m, P, at),
         m + LeafLen <= Len(E), NEW T, S \subseteq T,
         NEW x \in T, x.pos = at, Holds(x, E, m, m + LeafLen), NEW to, x.next = to
  PROVE  \E Q : Linked(T, E, m + LeafLen, Q, to)
<1> DEFINE d == LeafLen
           Q == [i \in Nat |-> IF i = m + d THEN to ELSE P[i]]
<1>1. d \in Nat \ {0} /\ m \in Nat /\ Len(E) \in Nat /\ m + d \in 0 .. Len(E) /\ m + d \in Nat
  BY SizesNat DEF Linked
<1>2. m % d = 0 /\ P[0] = 0 /\ P[m] = at
  BY DEF Linked
<1>3. Q[m + d] = to /\ \A i \in Nat : i # m + d => Q[i] = P[i]
  BY <1>1
<1> HIDE DEF Q
<1>4. Q[0] = 0 /\ Q[m] = at
  BY <1>1, <1>2, <1>3
<1>5. (m + d) % d = 0 /\ \A lo \in Nat : lo % d = 0 /\ m <= lo /\ lo < m + d => lo = m
  BY <1>1, <1>2, CellsApart
<1>6. ASSUME NEW lo \in 0 .. (m + d) - 1, lo % d = 0
      PROVE  /\ lo + d <= m + d
             /\ \E y \in T : y.pos = Q[lo] /\ Holds(y, E, lo, lo + d) /\ y.next = Q[lo + d]
  <2>0. lo \in Nat /\ lo < m + d
    BY <1>1
  <2>1. CASE lo < m
    <3>1. lo \in 0 .. m - 1
      BY <1>1, <2>0, <2>1
    <3>2. lo + d <= m
      BY <1>6, <3>1 DEF Linked
    <3>3. PICK y \in S : y.pos = P[lo] /\ Holds(y, E, lo, lo + d) /\ y.next = P[lo + d]
      BY <1>6, <3>1 DEF Linked
    <3>4. lo # m + d /\ lo + d # m + d /\ lo + d \in Nat /\ lo + d <= m + d
      BY <1>1, <2>0, <2>1, <3>2
    <3>5. Q[lo] = P[lo] /\ Q[lo + d] = P[lo + d]
      BY <1>3, <2>0, <3>4
    <3> QED BY <3>3, <3>4, <3>5
  <2>2. CASE ~(lo < m)
    <3>1. lo = m
      <4>1. m <= lo
        BY <1>1, <2>0, <2>2
      <4> QED BY <1>5, <1>6, <2>0, <4>1
    <3>2. m + d <= m + d
      BY <1>1
    <3> QED BY <1>3, <1>4, <3>1, <3>2
  <2> QED BY <2>1, <2>2
<1> QED BY <1>1, <1>3, <1>4, <1>5, <1>6 DEF Linked

(* The list is complete when its last leaf, which may be short, is there.  *)
LEMMA ThreadedDone ==
  ASSUME NEW E \in Seq(Entry), NEW S, NEW m, NEW P, NEW at, Linked(S, E, m, P, at),
         NEW T, S \subseteq T,
         \/ m = Len(E)
         \/ Len(E) < m + LeafLen /\ \E x \in T : x.pos = at /\ Holds(x, E, m, Len(E))
  PROVE  Threaded(T, E, P)
<1> DEFINE d == LeafLen
           n == Len(E)
<1>1. d \in Nat \ {0} /\ m \in Nat /\ n \in Nat /\ m <= n
  BY SizesNat DEF Linked
<1>2. m % d = 0 /\ P[0] = 0 /\ P[m] = at
  BY DEF Linked
<1>3. \A lo \in Nat : lo % d = 0 /\ m <= lo /\ lo < m + d => lo = m
  BY <1>1, <1>2, CellsApart
<1>4. ASSUME NEW lo \in 0 .. n - 1, lo % d = 0
      PROVE  \E x \in T : /\ x.pos = P[lo] /\ Holds(x, E, lo, LeafEnd(E, lo))
                          /\ lo + d < n => x.next = P[lo + d]
  <2>0. lo \in Nat /\ lo < n
    BY <1>1
  <2>e. LeafEnd(E, lo) = IF lo + d <= n THEN lo + d ELSE n
    BY DEF LeafEnd
  <2>1. CASE lo < m
    <3>1. lo \in 0 .. m - 1
      BY <1>1, <2>0, <2>1
    <3>2. lo + d <= m
      BY <1>4, <3>1 DEF Linked
    <3>3. PICK x \in S : x.pos = P[lo] /\ Holds(x, E, lo, lo + d) /\ x.next = P[lo + d]
      BY <1>4, <3>1 DEF Linked
    <3>4. LeafEnd(E, lo) = lo + d
      BY <1>1, <2>0, <2>e, <3>2
    <3> QED BY <3>3, <3>4
  <2>2. CASE ~(lo < m)
    <3>1. n < m + d /\ m # n
      BY <1>1, <2>0, <2>2
    <3>2. PICK x \in T : x.pos = at /\ Holds(x, E, m, n)
      BY <3>1
    <3>3. lo = m
      BY <1>1, <1>3, <1>4, <2>0, <2>2, <3>1
    <3>4. LeafEnd(E, lo) = n /\ ~(lo + d < n)
      BY <1>1, <2>e, <3>1, <3>3
    <3> QED BY <1>2, <3>2, <3>3, <3>4
  <2> QED BY <2>1, <2>2
<1> QED BY <1>2, <1>4 DEF Threaded

-----------------------------------------------------------------------------
(* Building a level over nodes that span entries.                          *)

LEMMA LevelIs ==
  ASSUME NEW t, NEW lo \in Nat, Tower(t, lo), NEW i \in {1, 2}, NEW complete \in BOOLEAN,
         Due(t, i, complete)
  PROVE  LET u == BuildLevel(t, i, complete)
         IN /\ u.ctx[i - 1] = <<>>
            /\ InnerNode(t.at, t.ctx[i - 1]) \in u.new
            /\ u.ctx[i] = Append(t.ctx[i], [key |-> LastOf(t.ctx[i - 1]).key, pos |-> t.at])
<1> DEFINE u == BuildLevel(t, i, complete)
           below == t.ctx[i - 1]
           kid == [key |-> LastOf(below).key, pos |-> t.at]
           node == InnerNode(t.at, below)
           v == Append(t.ctx[i], kid)
           ctx2 == [t.ctx EXCEPT ![i - 1] = <<>>, ![i] = v]
<1>1. u = [ctx |-> ctx2, at |-> t.at + InnerSize, new |-> t.new \cup {node}]
  BY DEF BuildLevel, Due
<1>2. u.ctx = ctx2 /\ u.new = t.new \cup {node}
  <2> HIDE DEF ctx2, node, u
  <2> QED BY <1>1
<1>3. DOMAIN t.ctx = 0 .. 2
  BY DEF Tower
<1>4. ctx2[i - 1] = <<>> /\ ctx2[i] = v
  <2>1. i \in 0 .. 2 /\ i - 1 \in 0 .. 2 /\ i # i - 1
    OBVIOUS
  <2> HIDE DEF v
  <2> QED BY <1>3, <2>1
<1> HIDE DEF ctx2, node, v, u
<1>5. u.ctx[i - 1] = <<>> /\ node \in u.new /\ u.ctx[i] = v
  BY <1>2, <1>4
<1> QED BY <1>5, Zenon DEF u, v, node

LEMMA NodeSpans ==
  ASSUME NEW E, NEW R, NEW below \in Seq(Kid), below # <<>>, NEW a, NEW b, Chain(R, E, below, a, b),
         NEW at \in Nat, NEW S, InnerNode(at, below) \in S
  PROVE  /\ b \in 0 .. Len(E) /\ b # 0 /\ LastOf(below).key = E[b][1]
         /\ <<at, a, b>> \in InnerSpans(R, S, E)
<1> DEFINE node == InnerNode(at, below)
           w == <<at, a, b>>
<1>1. a \in 0 .. Len(E) /\ b \in 0 .. Len(E) /\ b # 0 /\ LastOf(below).key = E[b][1]
  BY ChainEnds
<1>2. node.pos = at /\ node.leaf = FALSE /\ node.kids = below /\ node \in S
  BY DEF InnerNode
<1>3. w[1] = at /\ w[2] = a /\ w[3] = b /\ w \in Span(E)
  BY <1>1 DEF Span
<1> HIDE DEF node, w
<1>4. w \in InnerSpans(R, S, E)
  BY <1>2, <1>3 DEF InnerSpans
<1> QED BY <1>1, <1>4 DEF w

(* The level of the leaves gets its parent.                                *)
LEMMA MidBuilt ==
  ASSUME NEW s, NEW lo \in Nat, Tower(s, lo), NEW complete \in BOOLEAN, Due(s, 1, complete),
         NEW E \in Seq(Entry), NEW S, NEW u, u = BuildLevel(s, 1, complete), u.new \subseteq S,
         NEW k, NEW m, Chain(MidSpans(S, E), E, s.ctx[1], 0, k), Chain(LeafSpans(S, E), E, s.ctx[0], k, m)
  PROVE  /\ Tower(u, lo) /\ u.ctx[0] = <<>> /\ u.ctx[2] = s.ctx[2]
         /\ Len(u.ctx[1]) = Len(s.ctx[1]) + 1
         /\ m # 0 /\ m \in 0 .. Len(E) /\ Chain(MidSpans(S, E), E, u.ctx[1], 0, m)
<1>1. 1 \in {1, 2} /\ 1 - 1 = 0 /\ 2 \in 0 .. 2 /\ 2 # 1 /\ 2 # 0
  OBVIOUS
<1>2. /\ Tower(u, lo) /\ Len(u.ctx[1]) = Len(s.ctx[1]) + 1
      /\ \A j \in 0 .. 2 : j # 1 /\ j # 1 - 1 => u.ctx[j] = s.ctx[j]
  BY <1>1, LevelBuilt
<1>3. /\ u.ctx[1 - 1] = <<>> /\ InnerNode(s.at, s.ctx[1 - 1]) \in u.new
      /\ u.ctx[1] = Append(s.ctx[1], [key |-> LastOf(s.ctx[1 - 1]).key, pos |-> s.at])
  BY <1>1, LevelIs
<1>a. s.ctx[0] \in Seq(Kid) /\ s.ctx[0] # <<>> /\ s.at \in Nat
  BY SizesNat DEF Due, Tower
<1>4. /\ u.ctx[0] = <<>> /\ m \in 0 .. Len(E) /\ m # 0
      /\ <<s.at, k, m>> \in InnerSpans(LeafSpans(S, E), S, E)
      /\ u.ctx[1] = Append(s.ctx[1], [key |-> E[m][1], pos |-> s.at])
  <2>1. PICK R, below, at : R = LeafSpans(S, E) /\ below = s.ctx[0] /\ at = s.at
    OBVIOUS
  <2>2. /\ below \in Seq(Kid) /\ below # <<>> /\ at \in Nat /\ Chain(R, E, below, k, m)
        /\ InnerNode(at, below) \in S
    BY <1>1, <1>3, <1>a, <2>1
  <2>3. /\ m \in 0 .. Len(E) /\ m # 0 /\ LastOf(below).key = E[m][1]
        /\ <<at, k, m>> \in InnerSpans(R, S, E)
    BY <2>2, NodeSpans
  <2> QED BY <1>1, <1>3, <2>1, <2>3
<1>5. s.ctx[1] \in Seq(Kid)
  BY DEF Tower
<1>6. Chain(MidSpans(S, E), E, u.ctx[1], 0, m)
  <2> DEFINE kid == [key |-> E[m][1], pos |-> s.at]
             kids == s.ctx[1]
  <2>1. kid.key = E[m][1] /\ kid.pos = s.at
    OBVIOUS
  <2>2. <<kid.pos, k, m>> \in MidSpans(S, E)
    BY <1>4, <2>1 DEF MidSpans
  <2>3. kids \in Seq(Kid) /\ Chain(MidSpans(S, E), E, kids, 0, k) /\ u.ctx[1] = Append(kids, kid)
    BY <1>4, <1>5
  <2> HIDE DEF kid, kids
  <2>4. Chain(MidSpans(S, E), E, Append(kids, kid), 0, m)
    BY <1>4, <2>1, <2>2, <2>3, ChainAppend
  <2> QED BY <2>3, <2>4
<1> QED BY <1>1, <1>2, <1>4, <1>6

(* So does the level above, and that is the root.                          *)
LEMMA RootBuilt ==
  ASSUME NEW s, NEW lo \in Nat, Tower(s, lo), NEW complete \in BOOLEAN, Due(s, 2, complete),
         NEW E \in Seq(Entry), NEW S, NEW u, u = BuildLevel(s, 2, complete), u.new \subseteq S,
         NEW m, Chain(MidSpans(S, E), E, s.ctx[1], 0, m)
  PROVE  /\ u.ctx[2] # <<>> /\ m # 0 /\ u.at \in Nat
         /\ <<u.at - InnerSize, 0, m>> \in RootSpans(S, E)
<1>1. 2 \in {1, 2} /\ 2 - 1 = 1
  OBVIOUS
<1>2. Tower(u, lo) /\ u.at = s.at + InnerSize /\ Len(u.ctx[2]) = Len(s.ctx[2]) + 1
  BY <1>1, LevelBuilt
<1>3. InnerNode(s.at, s.ctx[2 - 1]) \in u.new
  BY <1>1, LevelIs
<1>a. s.ctx[1] \in Seq(Kid) /\ s.ctx[1] # <<>> /\ s.at \in Nat
  BY SizesNat DEF Due, Tower
<1>4. m # 0 /\ <<s.at, 0, m>> \in InnerSpans(MidSpans(S, E), S, E)
  <2>1. PICK R, below, at, z : R = MidSpans(S, E) /\ below = s.ctx[1] /\ at = s.at /\ z = 0
    OBVIOUS
  <2>2. /\ below \in Seq(Kid) /\ below # <<>> /\ at \in Nat /\ Chain(R, E, below, z, m)
        /\ InnerNode(at, below) \in S
    BY <1>1, <1>3, <1>a, <2>1
  <2>3. m # 0 /\ <<at, z, m>> \in InnerSpans(R, S, E)
    BY <2>2, NodeSpans
  <2> QED BY <2>1, <2>3
<1>5. u.at - InnerSize = s.at /\ u.at \in Nat
  <2>1. s.at \in Nat /\ u.at \in Nat
    BY <1>2 DEF Tower
  <2> QED BY <1>2, <2>1, SizesNat
<1>6. u.ctx[2] # <<>>
  <2>1. Len(s.ctx[2]) \in Nat /\ u.ctx[2] \in Seq(Kid)
    BY <1>2 DEF Tower
  <2> QED BY <1>2, <2>1
<1> QED BY <1>4, <1>5, <1>6 DEF RootSpans

LEMMA BuildKeepsNew ==
  ASSUME NEW t, NEW i, NEW complete
  PROVE  t.new \subseteq BuildLevel(t, i, complete).new
BY DEF BuildLevel

(* add_entry's loop.                                                       *)
LEMMA AddGrows ==
  ASSUME NEW s, NEW lo \in Nat, Tower(s, lo), Len(s.ctx[1]) < Degree, s.ctx[2] = <<>>,
         NEW E \in Seq(Entry), NEW S, NEW u, u = Build(s, FALSE), u.new \subseteq S,
         NEW k, NEW m, Chain(MidSpans(S, E), E, s.ctx[1], 0, k), Chain(LeafSpans(S, E), E, s.ctx[0], k, m)
  PROVE  Grown(u.ctx, S, E, m, u.at)
<1> DEFINE b1 == BuildLevel(s, 1, FALSE)
<1>1. u = BuildLevel(b1, 2, FALSE)
  BY BuildUnrolled
<1>2. b1.new \subseteq u.new
  BY <1>1, BuildKeepsNew
<1>3. \A t : Due(t, 2, FALSE) <=> Len(t.ctx[1]) = Degree
  BY DEF Due
<1>4. Len(s.ctx[1]) \in Nat /\ Degree \in Nat
  BY SizesNat DEF Tower
<1>5. CASE ~Due(s, 1, FALSE)
  <2>1. b1 = s
    BY <1>5, LevelKept
  <2>2. ~Due(s, 2, FALSE)
    <3>1. Len(s.ctx[1]) # Degree
      BY <1>4
    <3> QED BY <1>3, <3>1
  <2>3. u = s
    BY <1>1, <2>1, <2>2, LevelKept
  <2> QED BY <2>3 DEF Grown
<1>6. CASE Due(s, 1, FALSE)
  <2>1. b1.new \subseteq S
    BY <1>2
  <2>2. PICK b : b = b1
    OBVIOUS
  <2>3. b = BuildLevel(s, 1, FALSE) /\ b.new \subseteq S /\ u = BuildLevel(b, 2, FALSE)
    BY <1>1, <2>1, <2>2
  <2> HIDE DEF b1
  <2>4. /\ Tower(b, lo) /\ b.ctx[0] = <<>> /\ b.ctx[2] = s.ctx[2]
        /\ m # 0 /\ m \in 0 .. Len(E) /\ Chain(MidSpans(S, E), E, b.ctx[1], 0, m)
    <3>1. Tower(b, lo) /\ Chain(MidSpans(S, E), E, b.ctx[1], 0, m)
      BY <1>6, <2>3, MidBuilt
    <3>a. 1 \in {1, 2} /\ 1 - 1 = 0 /\ 2 \in 0 .. 2 /\ 2 # 1 /\ 2 # 0
      OBVIOUS
    <3>2. b.ctx[1 - 1] = <<>>
      BY <1>6, <2>3, <3>a, LevelIs
    <3>3. \A j \in 0 .. 2 : j # 1 /\ j # 1 - 1 => b.ctx[j] = s.ctx[j]
      BY <1>6, <2>3, <3>a, LevelBuilt
    <3>4. m # 0 /\ m \in 0 .. Len(E)
      <4>1. s.ctx[0] \in Seq(Kid) /\ s.ctx[0] # <<>>
        BY <1>6, SizesNat DEF Due, Tower
      <4>2. PICK R, ks : R = LeafSpans(S, E) /\ ks = s.ctx[0]
        OBVIOUS
      <4>3. ks \in Seq(Kid) /\ ks # <<>> /\ Chain(R, E, ks, k, m)
        BY <4>1, <4>2
      <4> QED BY <4>3, ChainEnds
    <3> QED BY <3>1, <3>2, <3>3, <3>4, <3>a
  <2>5. CASE ~Due(b, 2, FALSE)
    <3>1. u = b
      BY <2>3, <2>5, LevelKept
    <3>2. Chain(LeafSpans(S, E), E, b.ctx[0], m, m)
      BY <2>4, ChainNone
    <3> QED BY <2>4, <3>1, <3>2 DEF Grown
  <2>6. CASE Due(b, 2, FALSE)
    <3>1. u.ctx[2] # <<>> /\ m # 0 /\ <<u.at - InnerSize, 0, m>> \in RootSpans(S, E)
      BY <2>3, <2>4, <2>6, RootBuilt
    <3> QED BY <3>1 DEF Grown
  <2> QED BY <2>5, <2>6
<1> QED BY <1>5, <1>6

(* complete's loop.                                                        *)
LEMMA CompleteGrows ==
  ASSUME NEW s, NEW lo \in Nat, Tower(s, lo),
         NEW E \in Seq(Entry), NEW S, NEW u, u = Build(s, TRUE), u.new \subseteq S,
         NEW k, NEW m, Chain(MidSpans(S, E), E, s.ctx[1], 0, k), Chain(LeafSpans(S, E), E, s.ctx[0], k, m),
         m # 0
  PROVE  <<u.at - InnerSize, 0, m>> \in RootSpans(S, E)
<1> DEFINE b1 == BuildLevel(s, 1, TRUE)
<1>1. u = BuildLevel(b1, 2, TRUE)
  BY BuildUnrolled
<1>2. b1.new \subseteq u.new
  BY <1>1, BuildKeepsNew
<1>3. \A t : (Due(t, 2, TRUE) <=> t.ctx[1] # <<>>) /\ (Due(t, 1, TRUE) <=> t.ctx[0] # <<>>)
  BY DEF Due
<1>4. PICK b : b = b1
  OBVIOUS
<1>5. b = BuildLevel(s, 1, TRUE) /\ b.new \subseteq S /\ u = BuildLevel(b, 2, TRUE)
  BY <1>1, <1>2, <1>4
<1> HIDE DEF b1
<1>6. Tower(b, lo) /\ Chain(MidSpans(S, E), E, b.ctx[1], 0, m)
  <2>1. CASE Due(s, 1, TRUE)
    BY <1>5, <2>1, MidBuilt
  <2>2. CASE ~Due(s, 1, TRUE)
    <3>1. b = s
      BY <1>5, <2>2, LevelKept
    <3>2. s.ctx[0] = <<>>
      BY <1>3, <2>2
    <3>3. k = m
      <4>1. PICK R, ks : R = LeafSpans(S, E) /\ ks = s.ctx[0]
        OBVIOUS
      <4>2. ks \in Seq(Kid) /\ ks = <<>> /\ Chain(R, E, ks, k, m)
        BY <3>2, <4>1
      <4> QED BY <4>2, ChainEnds
    <3> QED BY <3>1, <3>3
  <2> QED BY <2>1, <2>2
<1>7. Due(b, 2, TRUE)
  <2>1. b.ctx[1] \in Seq(Kid)
    BY <1>6 DEF Tower
  <2>2. b.ctx[1] # <<>>
    <3>1. PICK R, ks, z : R = MidSpans(S, E) /\ ks = b.ctx[1] /\ z = 0
      OBVIOUS
    <3>2. ks \in Seq(Kid) /\ Chain(R, E, ks, z, m)
      BY <1>6, <2>1, <3>1
    <3>3. ks = <<>> => z = m
      BY <3>2, ChainEnds
    <3> QED BY <3>1, <3>3
  <2> QED BY <1>3, <2>2
<1> QED BY <1>5, <1>6, <1>7, RootBuilt


-----------------------------------------------------------------------------
(* FileReadsBack.                                                          *)

(* The tree has its root only when the file is full.                       *)
LEMMA FullTree ==
  ASSUME Inv, root = -1, ctx[2] # <<>>
  PROVE  Len(leaf) = 0 /\ ~(Len(ents) < Capacity)
<1> DEFINE D == Degree
           L == LeafLen
           n0 == Len(ctx[0])
           n1 == Len(ctx[1])
           n2 == Len(ctx[2])
           nE == Len(ents)
           nF == Len(leaf)
<1>1. /\ n0 \in Nat /\ n1 \in Nat /\ n2 \in Nat \ {0} /\ nE \in Nat /\ nF \in Nat
      /\ D \in Nat \ {0, 1} /\ L \in Nat \ {0} /\ Capacity \in Nat /\ Leaves \in Nat
  <2>1. ctx \in [0 .. 2 -> Seq(Kid)] /\ ents \in Seq(Entry) /\ leaf \in Seq(Entry)
    BY DEF Inv, Types
  <2>2. n0 \in Nat /\ n1 \in Nat /\ n2 \in Nat /\ n2 # 0
    BY <2>1, LensNat
  <2> QED BY <2>1, <2>2, SizesNat, LeavesSuffice
<1>2. nE <= Capacity
  BY DEF Inv, Growing
<1>3. PICK nl \in Nat, a \in Nat : nE = nl * L + nF /\ Balanced(ctx, begin + cur, nl, a, nl * LeafSize)
  BY DEF Inv, Growing
<1>4. nl = a * D + n0 /\ a = n2 * D + n1
  BY <1>3 DEF Balanced
<1>5. Leaves <= D * D
  BY ThreeLevels
<1> HIDE DEF D, L, n0, n1, n2, nE, nF
<1>6. D <= a
  <2> DEFINE y == n2 * D
  <2>1. y \in Nat /\ D <= y /\ a = y + n1
    BY <1>1, <1>4
  <2> HIDE DEF y
  <2> QED BY <1>1, <2>1
<1>7. Leaves <= nl
  <2>1. D * D <= a * D
    BY <1>1, <1>6
  <2> DEFINE x == D * D
             y == a * D
  <2>2. x \in Nat /\ y \in Nat /\ x <= y /\ nl = y + n0 /\ Leaves <= x
    BY <1>1, <1>4, <1>5, <2>1
  <2> HIDE DEF x, y
  <2> QED BY <1>1, <2>2
<1>8. ~(nl * L < Capacity)
  <2>1. \A q \in Nat : q * LeafLen < Capacity => q < Leaves
    BY LeavesSuffice
  <2>2. ~(nl < Leaves)
    BY <1>1, <1>7
  <2> QED BY <2>1, <2>2 DEF L
<1> DEFINE z == nl * L
<1>9. z \in Nat /\ nE = z + nF /\ ~(z < Capacity)
  BY <1>1, <1>3, <1>8
<1> HIDE DEF z
<1>10. nF = 0 /\ ~(nE < Capacity)
  BY <1>1, <1>2, <1>9
<1> QED BY <1>10 DEF nF, nE

LEMMA LongerAppend ==
  ASSUME NEW E \in Seq(Entry), NEW e \in Entry
  PROVE  /\ Longer(E, Append(E, e)) /\ Len(Append(E, e)) = Len(E) + 1
         /\ Append(E, e)[Len(E) + 1] = e
<1>1. Append(E, e) \in Seq(Entry) /\ Len(Append(E, e)) = Len(E) + 1 /\ Len(E) \in Nat
  OBVIOUS
<1>2. \A i \in 1 .. Len(E) : Append(E, e)[i] = E[i]
  OBVIOUS
<1>3. Append(E, e)[Len(E) + 1] = e
  OBVIOUS
<1> QED BY <1>1, <1>2, <1>3 DEF Longer

LEMMA LongerSame ==
  ASSUME NEW E \in Seq(Entry)
  PROVE  Longer(E, E)
BY DEF Longer

LEMMA SortedAppend ==
  ASSUME NEW E \in Seq(Entry), Sorted(E), NEW e \in Entry, E # <<>> => Follows(LastOf(E), e)
  PROVE  Sorted(Append(E, e))
<1> DEFINE n == Len(E)
           F == Append(E, e)
<1>1. n \in Nat /\ \A i \in 1 .. n : E[i][1] \in Nat
  BY KeysNat
<1>2. Len(F) = n + 1 /\ F[n + 1] = e /\ \A i \in 1 .. n : F[i] = E[i]
  BY LongerAppend DEF Longer
<1>3. e[1] \in Nat
  BY SizesNat DEF Entry
<1>4. \A i, j \in 1 .. n : i < j => E[i][1] <= E[j][1]
  BY DEF Sorted
<1>5. n # 0 => E[n][1] <= e[1]
  <2> SUFFICES ASSUME n # 0 PROVE E[n][1] <= e[1]
    OBVIOUS
  <2>1. E # <<>> /\ LastOf(E) = E[n] /\ n \in 1 .. n
    BY <1>1 DEF LastOf
  <2>2. e[1] > E[n][1] \/ e[1] = E[n][1]
    BY <2>1 DEF Follows
  <2> QED BY <1>1, <1>3, <2>1, <2>2
<1> HIDE DEF n, F
<1>6. ASSUME NEW i \in 1 .. n + 1, NEW j \in 1 .. n + 1, i < j
      PROVE  F[i][1] <= F[j][1]
  <2>1. i \in 1 .. n
    BY <1>1, <1>6
  <2>2. CASE j # n + 1
    <3>1. j \in 1 .. n
      BY <1>1, <2>2
    <3> QED BY <1>2, <1>4, <1>6, <2>1, <3>1
  <2>3. CASE j = n + 1
    <3>1. E[i][1] <= E[n][1] /\ n \in 1 .. n
      <4>1. n \in 1 .. n
        BY <1>1, <2>1
      <4>2. CASE i = n
        BY <1>1, <4>1, <4>2
      <4>3. CASE i # n
        <5>1. i < n
          BY <1>1, <2>1, <4>3
        <5> QED BY <1>4, <2>1, <4>1, <5>1
      <4> QED BY <4>1, <4>2, <4>3
    <3>2. E[n][1] <= e[1]
      BY <1>1, <1>5, <3>1
    <3>3. E[i][1] <= e[1]
      BY <1>1, <1>3, <2>1, <3>1, <3>2
    <3> QED BY <1>2, <2>1, <2>3, <3>3
  <2> QED BY <2>2, <2>3
<1>7. Sorted(F)
  BY <1>2, <1>6 DEF Sorted
<1> QED BY <1>7 DEF F

(* A leaf that is written joins the ones that wait for a parent.           *)
LEMMA LeafJoins ==
  ASSUME NEW E \in Seq(Entry), NEW S, NEW kids \in Seq(Kid), NEW k, NEW m, NEW hi \in 0 .. Len(E), hi # 0,
         Chain(LeafSpans(S, E), E, kids, k, m), NEW x \in S, x.pos \in Nat, Holds(x, E, m, hi),
         m = 0 => x.pos = 0, NEW kid, kid.key = E[hi][1], kid.pos = x.pos
  PROVE  Chain(LeafSpans(S, E), E, Append(kids, kid), k, hi)
<1>1. PICK R, p : R = LeafSpans(S, E) /\ p = x.pos
  OBVIOUS
<1>2. Chain(R, E, kids, k, m)
  BY <1>1
<1>3. m \in 0 .. Len(E)
  BY <1>2, ChainEnds
<1> DEFINE w == <<p, m, hi>>
<1>4. w[1] = p /\ w[2] = m /\ w[3] = hi /\ w \in Span(E)
  BY <1>1, <1>3 DEF Span
<1> HIDE DEF w
<1>5. w \in LeafSpans(S, E)
  BY <1>1, <1>4 DEF LeafSpans
<1>6. <<kid.pos, m, hi>> \in R
  BY <1>1, <1>5 DEF w
<1>7. Chain(R, E, Append(kids, kid), k, hi)
  BY <1>2, <1>6, ChainAppend
<1> QED BY <1>1, <1>7

LEMMA InitFilled == Init => Filled
<1> SUFFICES ASSUME Init PROVE Filled
  OBVIOUS
<1>1. ents = <<>> /\ leaf = <<>> /\ nodes = {} /\ root = -1 /\ begin + cur = 0 /\ Len(<<>>) = 0
  BY DEF Init
<1>2. ctx[0] = <<>> /\ ctx[1] = <<>> /\ ctx[2] = <<>>
  BY HeightAssumption DEF Init
<1>3. Sorted(ents)
  BY <1>1 DEF Sorted
<1> DEFINE P == [i \in Nat |-> 0]
<1>4. Linked(nodes, ents, 0, P, 0)
  <2>1. 0 % LeafLen = 0 /\ P[0] = 0 /\ 0 \in 0 .. Len(ents)
    BY <1>1, SizesNat
  <2>2. \A lo \in 0 .. 0 - 1 : FALSE
    OBVIOUS
  <2> QED BY <2>1, <2>2 DEF Linked
<1>5. Grown(ctx, nodes, ents, 0, 0)
  <2>1. 0 \in 0 .. Len(ents)
    BY <1>1
  <2>2. Chain(MidSpans(nodes, ents), ents, ctx[1], 0, 0) /\ Chain(LeafSpans(nodes, ents), ents, ctx[0], 0, 0)
    BY <1>2, <2>1, ChainNone
  <2> QED BY <1>2, <2>2 DEF Grown
<1>6. 0 + Len(leaf) = Len(ents) /\ \A i \in 1 .. Len(leaf) : FALSE
  BY <1>1
<1> HIDE DEF P
<1> QED BY <1>1, <1>3, <1>4, <1>5, <1>6 DEF Filled

LEMMA AddFilled ==
  ASSUME Inv, Filled, NEW e \in Entry, ents # <<>> => Follows(LastOf(ents), e), AddEntry(e)
  PROVE  Filled'
<1> DEFINE L == LeafLen
           p == begin + cur
           nE == Len(ents)
           nF == Len(leaf)
           F == Append(ents, e)
           lf == Append(leaf, e)
<1>1. /\ ents \in Seq(Entry) /\ leaf \in Seq(Entry) /\ ctx \in [0 .. 2 -> Seq(Kid)]
      /\ begin \in Nat /\ cur \in Nat /\ p \in Nat /\ nE \in Nat /\ nF \in Nat
  BY DEF Inv, Types
<1>2. root = -1 /\ nE < Capacity /\ ents' = F /\ root' = -1
  BY DEF AddEntry
<1>3. nF < L /\ Len(ctx[1]) < Degree /\ L \in Nat \ {0}
  BY <1>2, SizesNat DEF Inv, Growing
<1>4. Longer(ents, F) /\ Len(F) = nE + 1 /\ F[nE + 1] = e /\ F \in Seq(Entry)
  BY <1>1, LongerAppend
<1>5. Sorted(F)
  BY <1>1, SortedAppend DEF Filled
<1>6. ctx[2] = <<>>
  BY <1>2, FullTree
<1>7. PICK m, P : /\ Linked(nodes, ents, m, P, p) /\ m + nF = nE
                  /\ \A i \in 1 .. nF : leaf[i] = ents[m + i]
                  /\ Grown(ctx, nodes, ents, m, p)
  BY <1>2 DEF Filled
<1>8. m \in Nat /\ m <= nE /\ P[0] = 0 /\ P[m] = p
  BY <1>1, <1>7 DEF Linked
<1>9. /\ lf \in Seq(Entry) /\ Len(lf) = nF + 1 /\ m + (nF + 1) = nE + 1
      /\ \A i \in 1 .. nF + 1 : lf[i] = F[m + i]
  <2>1. lf \in Seq(Entry) /\ Len(lf) = nF + 1 /\ lf[nF + 1] = e /\ \A i \in 1 .. nF : lf[i] = leaf[i]
    BY <1>1, LongerAppend DEF Longer
  <2>2. ASSUME NEW i \in 1 .. nF + 1 PROVE lf[i] = F[m + i]
    <3> HIDE DEF lf, F, nF, nE
    <3>1. CASE i = nF + 1
      <4>1. m + i = nE + 1
        BY <1>1, <1>7, <1>8, <3>1
      <4> QED BY <1>4, <2>1, <3>1, <4>1
    <3>2. CASE i # nF + 1
      <4>1. i \in 1 .. nF
        BY <1>1, <3>2
      <4>2. m + i \in 1 .. nE
        BY <1>1, <1>7, <1>8, <4>1
      <4>3. F[m + i] = ents[m + i]
        BY <1>4, <4>2 DEF Longer, nE
      <4> QED BY <1>7, <2>1, <4>1, <4>3
    <3> QED BY <3>1, <3>2
  <2>3. m + (nF + 1) = nE + 1
    BY <1>1, <1>7, <1>8
  <2> QED BY <2>1, <2>2, <2>3
<1> HIDE DEF F, lf
<1>10. CASE nF + 1 < L
  <2>1. leaf' = lf /\ UNCHANGED <<ctx, begin, cur, nodes>>
    BY <1>10 DEF AddEntry, lf
  <2>2. Linked(nodes, F, m, P, p) /\ Grown(ctx, nodes, F, m, p)
    BY <1>4, <1>7, LinkedLater, GrownLater
  <2>3. /\ Linked(nodes', ents', m, P, begin' + cur') /\ Grown(ctx', nodes', ents', m, begin' + cur')
    BY <1>2, <2>1, <2>2
  <2>4. m + Len(leaf') = Len(ents') /\ \A i \in 1 .. Len(leaf') : leaf'[i] = ents'[m + i]
    BY <1>2, <1>4, <1>9, <2>1
  <2> QED BY <1>2, <1>5, <2>3, <2>4 DEF Filled
<1>11. CASE ~(nF + 1 < L)
  <2> DEFINE fl == FlushIfFull(begin, cur)
             kid == [key |-> e[1], pos |-> p]
             kids == ctx[0]
             up == [ctx EXCEPT ![0] = Append(kids, kid)]
             lo == p + LeafSize
             s0 == [ctx |-> up, at |-> fl[1] + fl[2] + LeafSize, new |-> {}]
             s == Build(s0, FALSE)
             x == LeafNode(p, lf, s.at)
             S == nodes \cup s.new \cup {x}
  <2>1. /\ leaf' = <<>> /\ ctx' = s.ctx /\ begin' = fl[1] /\ cur' = s.at - fl[1] /\ nodes' = S
    BY <1>11 DEF AddEntry, lf
  <2>2. fl[1] + fl[2] = p /\ fl[1] \in Nat
    BY <1>1, FlushRoom
  <2>3. lo \in Nat /\ p <= lo /\ kids \in Seq(Kid)
    BY <1>1, SizesNat
  <2>4. s0.ctx = up /\ s0.at = lo /\ s0.new = {}
    BY <2>2
  <2>5. kid \in Kid /\ kid.key = e[1] /\ kid.pos = p
    BY <1>1 DEF Kid, Entry
  <2> HIDE DEF kid
  <2>6. up \in [0 .. 2 -> Seq(Kid)] /\ up[0] = Append(kids, kid) /\ up[1] = ctx[1] /\ up[2] = ctx[2]
    <3>1. Append(kids, kid) \in Seq(Kid)
      BY <2>3, <2>5
    <3> QED BY <1>1, <3>1
  <2> HIDE DEF up
  <2>7. Tower(s0, lo)
    BY <2>3, <2>4, <2>6, PackedNone DEF Tower
  <2> HIDE DEF s0, lo, kids
  <2>8. PICK u : u = s
    OBVIOUS
  <2>9. u = Build(s0, FALSE)
    BY <2>8
  <2>10. x.pos = p /\ x.next = u.at /\ x.leaf = TRUE /\ x.ents = lf
    BY <2>8 DEF LeafNode
  <2>11. x \in S /\ nodes \subseteq S /\ u.new \subseteq S
    BY <2>8
  <2> HIDE DEF s, x, S
  <2>12. nE + 1 = m + L /\ nF + 1 = L /\ m + L \in 0 .. Len(F) /\ m + L # 0 /\ (m + L) - m = L
    <3> HIDE DEF nE, nF, L
    <3>1. nF + 1 = L
      BY <1>1, <1>3, <1>11
    <3> QED BY <1>1, <1>3, <1>4, <1>9, <1>8, <3>1
  <2>13. Holds(x, F, m, m + L)
    <3> HIDE DEF nE, nF, L
    <3> QED BY <1>9, <2>10, <2>12 DEF Holds
  <2>14. PICK k : Chain(MidSpans(nodes, ents), ents, ctx[1], 0, k) /\ Chain(LeafSpans(nodes, ents), ents, ctx[0], k, m)
    BY <1>6, <1>7 DEF Grown
  <2>15. Chain(MidSpans(S, F), F, ctx[1], 0, k) /\ Chain(LeafSpans(S, F), F, kids, k, m)
    <3>1. LeafSpans(nodes, ents) \subseteq LeafSpans(S, F) /\ MidSpans(nodes, ents) \subseteq MidSpans(S, F)
      BY <1>4, <2>11, SpansLater
    <3>2. Chain(MidSpans(S, F), F, ctx[1], 0, k) /\ Chain(LeafSpans(S, F), F, ctx[0], k, m)
      BY <1>4, <2>14, <3>1, ChainLater
    <3> QED BY <3>2 DEF kids
  <2>16. Chain(LeafSpans(S, F), F, Append(kids, kid), k, m + L)
    <3>1. PICK hi : hi = m + L
      OBVIOUS
    <3>2. hi \in 0 .. Len(F) /\ hi # 0 /\ F[hi] = e /\ Holds(x, F, m, hi)
      BY <1>4, <2>12, <2>13, <3>1
    <3>3. kid.key = F[hi][1] /\ kid.pos = x.pos /\ x.pos \in Nat /\ (m = 0 => x.pos = 0)
      BY <1>1, <1>8, <2>5, <2>10, <3>2
    <3> HIDE DEF L
    <3>4. Chain(LeafSpans(S, F), F, Append(kids, kid), k, hi)
      BY <1>4, <2>3, <2>11, <2>15, <3>2, <3>3, LeafJoins
    <3> QED BY <3>1, <3>4
  <2>17. Grown(u.ctx, S, F, m + L, u.at)
    <3>1. PICK hi : hi = m + L
      OBVIOUS
    <3>2. /\ Chain(MidSpans(S, F), F, s0.ctx[1], 0, k) /\ Chain(LeafSpans(S, F), F, s0.ctx[0], k, hi)
          /\ Len(s0.ctx[1]) < Degree /\ s0.ctx[2] = <<>>
      BY <1>3, <1>6, <2>4, <2>6, <2>15, <2>16, <3>1
    <3>3. Grown(u.ctx, S, F, hi, u.at)
      BY <1>4, <2>3, <2>7, <2>9, <2>11, <3>2, AddGrows
    <3> QED BY <3>1, <3>3
  <2>18. PICK Q : Linked(S, F, m + L, Q, u.at)
    <3>1. Linked(nodes, F, m, P, p)
      BY <1>4, <1>7, LinkedLater
    <3>2. m + L <= Len(F)
      BY <2>12
    <3> QED BY <1>4, <2>10, <2>11, <2>13, <3>1, <3>2, LinkedAdd
  <2>19. begin' + cur' = u.at
    <3>1. u.at \in Nat
      <4>1. Tower(u, lo)
        <5>1. PICK b1 : b1 = BuildLevel(s0, 1, FALSE)
          OBVIOUS
        <5>2. u = BuildLevel(b1, 2, FALSE)
          BY <2>9, <5>1, BuildUnrolled
        <5>3. Tower(b1, lo)
          BY <2>3, <2>7, <5>1, LevelBuilt, LevelKept
        <5> QED BY <2>3, <5>2, <5>3, LevelBuilt, LevelKept
      <4> QED BY <4>1 DEF Tower
    <3>2. begin' = fl[1] /\ cur' = u.at - fl[1]
      BY <2>1, <2>8
    <3> HIDE DEF fl
    <3> QED BY <2>2, <3>1, <3>2
  <2>20. Linked(nodes', ents', m + L, Q, begin' + cur') /\ Grown(ctx', nodes', ents', m + L, begin' + cur')
    BY <1>2, <2>1, <2>8, <2>17, <2>18, <2>19
  <2>21. (m + L) + Len(leaf') = Len(ents') /\ \A i \in 1 .. Len(leaf') : FALSE
    <3>1. Len(leaf') = 0
      BY <2>1
    <3>2. Len(ents') = m + L /\ m + L \in Nat
      BY <1>2, <1>4, <2>12
    <3> QED BY <3>1, <3>2
  <2> HIDE DEF L
  <2> QED BY <1>2, <1>5, <2>20, <2>21 DEF Filled
<1> QED BY <1>10, <1>11


LEMMA CompleteFilled ==
  ASSUME Inv, Filled, Complete
  PROVE  Filled'
<1> DEFINE L == LeafLen
           p == begin + cur
           nE == Len(ents)
           nF == Len(leaf)
<1>1. /\ ents \in Seq(Entry) /\ leaf \in Seq(Entry) /\ ctx \in [0 .. 2 -> Seq(Kid)]
      /\ begin \in Nat /\ cur \in Nat /\ p \in Nat /\ nE \in Nat /\ nF \in Nat
  BY DEF Inv, Types
<1>2. root = -1 /\ ents # <<>> /\ UNCHANGED <<ents, leaf>> /\ nE # 0 /\ (leaf = <<>> <=> nF = 0)
  BY <1>1 DEF Complete
<1>3. nF < L /\ L \in Nat \ {0}
  BY <1>2, SizesNat DEF Inv, Growing
<1>4. Longer(ents, ents) /\ Sorted(ents)
  BY <1>1, LongerSame DEF Filled
<1>5. Top - 1 = 2
  BY HeightAssumption
<1>6. PICK m, P : /\ Linked(nodes, ents, m, P, p) /\ m + nF = nE
                  /\ \A i \in 1 .. nF : leaf[i] = ents[m + i]
                  /\ Grown(ctx, nodes, ents, m, p)
  BY <1>2 DEF Filled
<1>7. m \in Nat /\ m <= nE /\ P[0] = 0 /\ P[m] = p
  BY <1>1, <1>6 DEF Linked
<1>8. ASSUME NEW r, r = root', NEW S, S = nodes', <<r, 0, nE>> \in RootSpans(S, ents), NEW Q, Threaded(S, ents, Q)
      PROVE  Filled'
  <2>1. r \in Nat
    <3>1. <<r, 0, nE>> \in Span(ents)
      BY <1>8 DEF RootSpans, InnerSpans
    <3> QED BY <3>1 DEF Span
  <2>2. root' # -1
    BY <1>8, <2>1
  <2>3. ents' = ents
    BY <1>2
  <2>4. <<root', 0, Len(ents')>> \in RootSpans(nodes', ents') /\ Threaded(nodes', ents', Q) /\ ents' # <<>>
    BY <1>2, <1>8, <2>3
  <2>5. Sorted(ents')
    BY <1>4, <2>3
  <2> QED BY <2>2, <2>4, <2>5 DEF Filled
<1>9. CASE ctx[2] # <<>>
  <2>1. root' = p - InnerSize /\ nodes' = nodes
    <3>1. ctx[Top - 1] # <<>>
      BY <1>5, <1>9
    <3>2. UNCHANGED nodes
      BY <3>1, Zenon DEF Complete
    <3>3. root' = begin + cur - InnerSize
      BY <3>1, Zenon DEF Complete
    <3> QED BY <1>1, <3>2, <3>3, SizesNat
  <2>2. m = nE
    BY <1>1, <1>2, <1>6, <1>7, <1>9, FullTree
  <2>3. <<p - InnerSize, 0, m>> \in RootSpans(nodes, ents)
    BY <1>6, <1>9 DEF Grown
  <2>4. Threaded(nodes, ents, P)
    BY <1>1, <1>6, <2>2, ThreadedDone
  <2>5. <<root', 0, nE>> \in RootSpans(nodes, ents)
    BY <2>1, <2>2, <2>3
  <2> QED BY <1>8, <2>1, <2>4, <2>5
<1>10. CASE ctx[2] = <<>>
  <2> DEFINE fl == FlushIfFull(begin, cur)
             x == LeafNode(p, leaf, 0)
             last == IF leaf = <<>> THEN {} ELSE {x}
             kid == [key |-> LastOf(leaf)[1], pos |-> p]
             kids == ctx[0]
             up == IF leaf = <<>> THEN ctx ELSE [ctx EXCEPT ![0] = Append(kids, kid)]
             d == IF leaf = <<>> THEN 0 ELSE LeafSize
             lo == p + d
             s0 == [ctx |-> up, at |-> lo, new |-> {}]
             s == Build(s0, TRUE)
             S == nodes \cup s.new \cup last
  <2>1. nodes' = S /\ root' = s.at - InnerSize
    BY <1>5, <1>10 DEF Complete
  <2>2. d \in Nat /\ lo \in Nat /\ p <= lo /\ kids \in Seq(Kid)
    BY <1>1, SizesNat
  <2>3. s0.ctx = up /\ s0.at = lo /\ s0.new = {}
    OBVIOUS
  <2>4. leaf # <<>> => kid \in Kid /\ kid.key = leaf[nF][1] /\ kid.pos = p
    <3> SUFFICES ASSUME leaf # <<>> PROVE kid \in Kid /\ kid.key = leaf[nF][1] /\ kid.pos = p
      OBVIOUS
    <3>1. LastOf(leaf) \in Entry /\ LastOf(leaf) = leaf[nF]
      BY <1>1 DEF LastOf
    <3> QED BY <1>1, <3>1 DEF Kid, Entry
  <2> HIDE DEF kid
  <2>5. /\ up \in [0 .. 2 -> Seq(Kid)] /\ up[1] = ctx[1]
        /\ up[0] = IF leaf = <<>> THEN kids ELSE Append(kids, kid)
    <3>1. CASE leaf = <<>>
      BY <1>1, <3>1
    <3>2. CASE leaf # <<>>
      <4> DEFINE v == Append(kids, kid)
      <4>1. v \in Seq(Kid) /\ up = [ctx EXCEPT ![0] = v]
        BY <2>2, <2>4, <3>2
      <4> HIDE DEF v, up
      <4>2. up \in [0 .. 2 -> Seq(Kid)] /\ up[1] = ctx[1] /\ up[0] = v
        BY <1>1, <4>1
      <4> QED BY <3>2, <4>2 DEF v
    <3> QED BY <3>1, <3>2
  <2> HIDE DEF up
  <2>6. Tower(s0, lo)
    <3> HIDE DEF lo
    <3> QED BY <2>2, <2>3, <2>5, PackedNone DEF Tower
  <2> HIDE DEF s0, lo, kids, d
  <2>7. PICK u : u = s
    OBVIOUS
  <2>8. u = Build(s0, TRUE)
    BY <2>7
  <2>9. nodes \subseteq S /\ u.new \subseteq S /\ (leaf # <<>> => x \in S)
    BY <2>7
  <2>10. x.pos = p /\ x.leaf = TRUE /\ x.ents = leaf
    BY DEF LeafNode
  <2> HIDE DEF s, x, last, S
  <2>11. PICK k : Chain(MidSpans(nodes, ents), ents, ctx[1], 0, k) /\ Chain(LeafSpans(nodes, ents), ents, ctx[0], k, m)
    BY <1>6, <1>10 DEF Grown
  <2>12. Chain(MidSpans(S, ents), ents, ctx[1], 0, k) /\ Chain(LeafSpans(S, ents), ents, kids, k, m)
    <3>1. LeafSpans(nodes, ents) \subseteq LeafSpans(S, ents) /\ MidSpans(nodes, ents) \subseteq MidSpans(S, ents)
      BY <1>4, <2>9, SpansLater
    <3>2. Chain(MidSpans(S, ents), ents, ctx[1], 0, k) /\ Chain(LeafSpans(S, ents), ents, ctx[0], k, m)
      BY <1>4, <2>11, <3>1, ChainLater
    <3> QED BY <3>2 DEF kids
  <2>13. leaf # <<>> => Holds(x, ents, m, nE)
    <3>1. nE - m = nF
      <4> HIDE DEF nE, nF
      <4> QED BY <1>1, <1>6, <1>7
    <3> HIDE DEF nE
    <3> QED BY <1>1, <1>6, <2>10, <3>1 DEF Holds
  <2>14. Chain(LeafSpans(S, ents), ents, up[0], k, nE)
    <3>1. CASE leaf = <<>>
      <4>1. m = nE
        <5> HIDE DEF nE, nF
        <5> QED BY <1>1, <1>2, <1>6, <1>7, <3>1
      <4> QED BY <2>5, <2>12, <3>1, <4>1
    <3>2. CASE leaf # <<>>
      <4>1. PICK E, hi : E = ents /\ hi = nE
        OBVIOUS
      <4>2. E \in Seq(Entry) /\ hi \in 0 .. Len(E) /\ hi # 0 /\ Holds(x, E, m, hi)
        BY <1>1, <1>2, <2>13, <3>2, <4>1
      <4>3. leaf[nF] = E[hi]
        <5>1. nF \in 1 .. nF /\ m + nF = hi
          <6> HIDE DEF nF, nE
          <6> QED BY <1>1, <1>2, <1>6, <3>2, <4>1
        <5> QED BY <1>6, <4>1, <5>1
      <4>4. kid.key = E[hi][1] /\ kid.pos = x.pos /\ x.pos \in Nat /\ (m = 0 => x.pos = 0)
        BY <1>1, <1>7, <2>4, <2>10, <3>2, <4>3
      <4>5. Chain(LeafSpans(S, E), E, kids, k, m)
        BY <2>12, <4>1
      <4>6. Chain(LeafSpans(S, E), E, Append(kids, kid), k, hi)
        BY <2>2, <2>9, <3>2, <4>2, <4>4, <4>5, LeafJoins
      <4> QED BY <2>5, <3>2, <4>1, <4>6
    <3> QED BY <3>1, <3>2
  <2>15. <<u.at - InnerSize, 0, nE>> \in RootSpans(S, ents)
    <3>1. PICK E, hi : E = ents /\ hi = nE
      OBVIOUS
    <3>2. /\ E \in Seq(Entry) /\ hi # 0
          /\ Chain(MidSpans(S, E), E, s0.ctx[1], 0, k) /\ Chain(LeafSpans(S, E), E, s0.ctx[0], k, hi)
      BY <1>1, <1>2, <2>3, <2>5, <2>12, <2>14, <3>1
    <3>3. <<u.at - InnerSize, 0, hi>> \in RootSpans(S, E)
      BY <2>2, <2>6, <2>8, <2>9, <3>2, CompleteGrows
    <3> QED BY <3>1, <3>3
  <2>16. Threaded(S, ents, P)
    <3>1. CASE leaf = <<>>
      <4>1. m = nE
        <5> HIDE DEF nE, nF
        <5> QED BY <1>1, <1>2, <1>6, <1>7, <3>1
      <4> QED BY <1>1, <1>6, <2>9, <4>1, ThreadedDone
    <3>2. CASE leaf # <<>>
      <4>1. nE < m + L
        <5> HIDE DEF nE, nF, L
        <5> QED BY <1>1, <1>3, <1>6, <1>7
      <4>2. \E y \in S : y.pos = p /\ Holds(y, ents, m, nE)
        BY <2>9, <2>10, <2>13, <3>2
      <4> QED BY <1>1, <1>6, <2>9, <4>1, <4>2, ThreadedDone
    <3> QED BY <3>1, <3>2
  <2>17. root' = u.at - InnerSize
    BY <2>1, <2>7
  <2>18. <<root', 0, nE>> \in RootSpans(S, ents)
    BY <2>15, <2>17
  <2> QED BY <1>8, <2>1, <2>16, <2>18
<1> QED BY <1>9, <1>10

LEMMA NextFilled == Inv /\ Filled /\ [Next]_vars => Filled'
<1> SUFFICES ASSUME Inv, Filled, [Next]_vars PROVE Filled'
  OBVIOUS
<1>1. CASE Add
  <2>1. PICK e \in Entry : (ents # <<>> => Follows(LastOf(ents), e)) /\ AddEntry(e)
    BY <1>1 DEF Add, Entry
  <2> QED BY <2>1, AddFilled
<1>2. CASE Complete
  BY <1>2, CompleteFilled
<1>3. CASE UNCHANGED vars
  BY <1>3 DEF vars, Filled
<1> QED BY <1>1, <1>2, <1>3 DEF Next

(* A complete file reads back as what was added: whatever the length of    *)
(* leaves, degree, capacity and node sizes that give three levels, and     *)
(* however often the buffer was flushed on the way, bit_file_search finds  *)
(* the first entry of every key and nothing for the others, a range search *)
(* agrees with it, and the iterator returns the entries in order.          *)
THEOREM FileReads == Spec => []FileReadsBack
<1>1. Init => Inv /\ Filled
  BY InitInv, InitFilled
<1>2. (Inv /\ Filled) /\ [Next]_vars => (Inv /\ Filled)'
  BY NextInv, NextFilled
<1>3. Inv /\ Filled => FileReadsBack
  <2> SUFFICES ASSUME Inv, Filled, root # -1
               PROVE  /\ \A k \in 0 .. NrKey - 1 :
                           /\ Search(k) = IF Hits(ents, k) = {} THEN "none" ELSE ents[Min(Hits(ents, k))][2]
                           /\ Cardinality(Hits(ents, k)) < 2 => RangeSearch(k) = Search(k)
                      /\ Iterate = ents
    BY DEF FileReadsBack
  <2>1. Packed(nodes, 0, begin + cur) /\ ents \in Seq(Entry)
    BY DEF Inv, Types
  <2>2. Sorted(ents) /\ ents # <<>> /\ <<root, 0, Len(ents)>> \in RootSpans(nodes, ents)
    BY DEF Filled
  <2>3. PICK P : Threaded(nodes, ents, P)
    BY DEF Filled
  <2>4. PICK h : h = begin + cur
    OBVIOUS
  <2>5. Packed(nodes, 0, h)
    BY <2>1, <2>4
  <2>6. Iterate = ents
    BY <2>1, <2>2, <2>3, <2>5, IterateReads
  <2>7. ASSUME NEW k \in 0 .. NrKey - 1
        PROVE  /\ Search(k) = IF Hits(ents, k) = {} THEN "none" ELSE ents[Min(Hits(ents, k))][2]
               /\ Cardinality(Hits(ents, k)) < 2 => RangeSearch(k) = Search(k)
    <3>1. k \in Nat
      BY SizesNat
    <3> QED BY <2>1, <2>2, <2>5, <3>1, SearchReads
  <2> QED BY <2>6, <2>7
<1> QED BY <1>1, <1>2, <1>3, PTL DEF Spec
=============================================================================
