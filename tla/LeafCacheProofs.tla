-------------------------- MODULE LeafCacheProofs --------------------------
(***************************************************************************)
(* Proofs about LeafCache, for any number of readers and leaves and for    *)
(* every capacity: who owns a leaf, when a freed one is read, and that the *)
(* list is the order of last use.                                          *)
(***************************************************************************)
EXTENDS LeafCache, SequenceTheorems, TLAPS

Objects == Nat \ {NoObj}
Entry == [key : Leaves, id : Objects, val : Objects]
RdPc == {"idle", "get", "val", "use", "miss", "put", "scan", "end"}
RdState == [pc : RdPc, todo : Seq(Keys), buf : Nat, nd : Nat, val : Nat,
            raced : BOOLEAN, uaf : BOOLEAN]

IdsOf(s) == {s[i].id : i \in DOMAIN s}
ValsOf(s) == {s[i].val : i \in DOMAIN s}
Ids == IdsOf(entries)

Typing ==
  /\ entries \in Seq(Entry) /\ recent \in Seq(Leaves)
  /\ next \in Objects /\ size \in Nat /\ up \in BOOLEAN
  /\ rd \in [Readers -> RdState]
  /\ \A r \in Readers : /\ rd[r].pc \notin {"idle", "end"} => rd[r].todo # <<>>
                        /\ rd[r].pc = "put" => rd[r].buf # NoObj
                        /\ rd[r].pc = "idle" => rd[r].buf = NoObj
                        /\ rd[r].buf < next
  /\ \A x \in Ids \cup Cached : x < next

(* The radix tree has one node per key, and no two nodes share an object.  *)
Apart(s) ==
  \A i, j \in DOMAIN s : i # j =>
    s[i].key # s[j].key /\ s[i].id # s[j].id /\ s[i].val # s[j].val
Once(s) == \A i, j \in DOMAIN s : i # j => s[i] # s[j]

Owner ==
  /\ live = Cached \cup UNION {Private(r) : r \in Readers}
  /\ \A r \in Readers : Private(r) \cap Cached = {} /\ Private(r) \cap Ids = {}
  /\ \A r, q \in Readers : r # q => Private(r) \cap Private(q) = {}
  /\ nodes = Ids

(* What a reader is about to touch belongs to the cache: another reader's  *)
(* buffer would be freed without a race.                                   *)
Pinned ==
  \A r \in Readers : ~rd[r].raced =>
    /\ rd[r].pc = "val" => rd[r].nd \in Ids
    /\ rd[r].pc = "use" => rd[r].val \in Cached
    /\ rd[r].pc = "scan" => rd[r].buf \in Cached

(* The list is a prefix of the leaves in the order of their last use.      *)
Lru ==
  /\ Once(recent)
  /\ ~up => \A r \in Readers : rd[r].pc = "idle"
  /\ up => /\ size = Len(entries)
           /\ Len(entries) <= Capacity /\ Len(entries) <= Len(recent)
           /\ Len(entries) = Capacity \/ Len(entries) = Len(recent)
           /\ \A i \in DOMAIN entries : entries[i].key = recent[i]

IInv == Typing /\ Apart(entries) /\ Owner /\ Pinned /\ Lru

-----------------------------------------------------------------------------
(* The list operations.                                                    *)

LEMMA SeqFacts ==
  ASSUME NEW S, NEW s \in Seq(S)
  PROVE  /\ Len(s) \in Nat /\ DOMAIN s = 1 .. Len(s)
         /\ \A i \in 1 .. Len(s) : s[i] \in S
BY LenProperties

(* Where the elements of a list come from and go to, when element i moves  *)
(* to the front.                                                           *)
From(i, j) == IF j <= i THEN j - 1 ELSE j
To(i, k) == IF k < i THEN k + 1 ELSE k

LEMMA ToFrontFacts ==
  ASSUME NEW S, NEW s \in Seq(S), NEW i \in 1 .. Len(s), NEW e \in S, NEW t, t = ToFront(s, i, e)
  PROVE  t \in Seq(S) /\ Len(t) = Len(s)
<1>1. Len(s) \in Nat /\ DOMAIN s = 1 .. Len(s) /\ \A j \in 1 .. Len(s) : s[j] \in S
  BY SeqFacts
<1>2. /\ t = [j \in 1 .. Len(s) |-> t[j]] /\ DOMAIN t = 1 .. Len(s)
      /\ \A j \in 1 .. Len(s) : t[j] = IF j = 1 THEN e ELSE IF j <= i THEN s[j - 1] ELSE s[j]
  BY DEF ToFront
<1>3. ASSUME NEW j \in 1 .. Len(s) PROVE t[j] \in S
  <2>1. j = 1 \/ j - 1 \in 1 .. Len(s)
    BY <1>1
  <2> QED BY <1>1, <1>2, <2>1
<1>4. t \in [1 .. Len(s) -> S]
  BY <1>2, <1>3
<1>5. t \in Seq(S) /\ Len(t) = Len(s)
  BY <1>1, <1>4
<1> QED BY <1>5

Moved(s, n, i, e, t) == n \in Nat /\ Len(s) = n /\ i \in 1 .. n /\ t = ToFront(s, i, e)

LEMMA ToFrontMoves ==
  ASSUME NEW s, NEW n, NEW i, NEW e, NEW t, Moved(s, n, i, e, t)
  PROVE  /\ DOMAIN t = 1 .. n /\ t[1] = e /\ 1 \in 1 .. n
         /\ \A j \in 1 .. n : j # 1 => From(i, j) \in 1 .. n /\ From(i, j) # i /\ t[j] = s[From(i, j)]
         /\ \A j, h \in 1 .. n : j # 1 /\ h # 1 /\ j # h => From(i, j) # From(i, h)
         /\ \A k \in 1 .. n : k # i => To(i, k) \in 1 .. n /\ To(i, k) # 1 /\ t[To(i, k)] = s[k]
<1>0. n \in Nat /\ Len(s) = n /\ i \in 1 .. n /\ t = ToFront(s, i, e)
  BY DEF Moved
<1> USE <1>0
<1>1. /\ DOMAIN t = 1 .. n
      /\ \A j \in 1 .. n : t[j] = IF j = 1 THEN e ELSE IF j <= i THEN s[j - 1] ELSE s[j]
  BY DEF ToFront
<1>2. 1 \in 1 .. n /\ t[1] = e
  BY <1>1
<1>3. \A j \in 1 .. n : j # 1 => From(i, j) \in 1 .. n /\ From(i, j) # i /\ t[j] = s[From(i, j)]
  BY <1>1 DEF From
<1>4. \A j, h \in 1 .. n : j # 1 /\ h # 1 /\ j # h => From(i, j) # From(i, h)
  BY DEF From
<1>5. \A k \in 1 .. n : k # i => To(i, k) \in 1 .. n /\ To(i, k) # 1 /\ t[To(i, k)] = s[k]
  <2> SUFFICES ASSUME NEW k \in 1 .. n, k # i
               PROVE  To(i, k) \in 1 .. n /\ To(i, k) # 1 /\ t[To(i, k)] = s[k]
    OBVIOUS
  <2>1. CASE k < i
    <3>1. k + 1 \in 1 .. n /\ k + 1 # 1 /\ k + 1 <= i /\ (k + 1) - 1 = k /\ To(i, k) = k + 1
      BY <2>1 DEF To
    <3> QED BY <1>1, <3>1
  <2>2. CASE k > i
    <3>1. k # 1 /\ ~(k <= i) /\ To(i, k) = k
      BY <2>2 DEF To
    <3> QED BY <1>1, <3>1
  <2> QED BY <2>1, <2>2
<1> QED BY <1>1, <1>2, <1>3, <1>4, <1>5

(* The first m elements behind a new one.                                  *)
LEMMA PushFacts ==
  ASSUME NEW S, NEW s \in Seq(S), NEW e \in S, NEW m \in 0 .. Len(s),
         NEW t, t = <<e>> \o SubSeq(s, 1, m)
  PROVE  /\ t \in Seq(S) /\ Len(t) = m + 1 /\ DOMAIN t = 1 .. m + 1
         /\ t[1] = e /\ \A j \in 2 .. m + 1 : t[j] = s[j - 1]
<1>1. Len(s) \in Nat /\ DOMAIN s = 1 .. Len(s)
  BY SeqFacts
<1>2. /\ SubSeq(s, 1, m) \in Seq(S) /\ Len(SubSeq(s, 1, m)) = m
      /\ \A j \in 1 .. m : SubSeq(s, 1, m)[j] = s[j]
  BY <1>1
<1>3. <<e>> \in Seq(S) /\ Len(<<e>>) = 1 /\ <<e>>[1] = e
  OBVIOUS
<1> QED BY <1>1, <1>2, <1>3

LEMMA OnceFront ==
  ASSUME NEW S, NEW s \in Seq(S), NEW i \in 1 .. Len(s), Once(s), NEW t, t = ToFront(s, i, s[i])
  PROVE  Once(t)
<1> DEFINE n == Len(s)
           e == s[i]
<1>1. n \in Nat /\ DOMAIN s = 1 .. n /\ i \in 1 .. n /\ Len(s) = n /\ t = ToFront(s, i, e)
  BY SeqFacts
<1> HIDE DEF n, e
<1>6. Moved(s, n, i, e, t)
  BY <1>1 DEF Moved
<1>2. DOMAIN t = 1 .. n /\ t[1] = e
  BY <1>6, ToFrontMoves
<1>3. \A h \in 1 .. n : h # 1 => From(i, h) \in 1 .. n /\ From(i, h) # i /\ t[h] = s[From(i, h)]
  BY <1>6, ToFrontMoves
<1>4. \A g, h \in 1 .. n : g # 1 /\ h # 1 /\ g # h => From(i, g) # From(i, h)
  BY <1>6, ToFrontMoves
<1>5. \A g, h \in 1 .. n : g # h => s[g] # s[h]
  BY <1>1 DEF Once
<1> QED BY <1>1, <1>2, <1>3, <1>4, <1>5 DEF Once, e

LEMMA Prefix ==
  ASSUME NEW S, NEW s \in Seq(S), NEW m \in 0 .. Len(s)
  PROVE  SubSeq(s, 1, m) = [j \in 1 .. m |-> s[j]]
<1> DEFINE q == SubSeq(s, 1, m)
<1>1. Len(s) \in Nat /\ DOMAIN s = 1 .. Len(s)
  BY SeqFacts
<1>2. q \in Seq(S) /\ Len(q) = m /\ \A j \in 1 .. m : q[j] = s[j]
  BY <1>1
<1> HIDE DEF q
<1>3. q \in [1 .. m -> S]
  BY <1>2, LenProperties
<1>4. q = [j \in 1 .. m |-> s[j]]
  BY <1>2, <1>3
<1> QED BY <1>4 DEF q

LEMMA OncePush ==
  ASSUME NEW S, NEW s \in Seq(S), NEW e \in S, Once(s), \A i \in DOMAIN s : s[i] # e,
         NEW t, t = <<e>> \o s
  PROVE  Once(t) /\ t \in Seq(S) /\ Len(t) = Len(s) + 1
<1>1. Len(s) \in Nat /\ DOMAIN s = 1 .. Len(s)
  BY SeqFacts
<1>2. /\ t \in Seq(S) /\ Len(t) = Len(s) + 1 /\ DOMAIN t = 1 .. Len(s) + 1
      /\ t[1] = e /\ \A j \in 2 .. Len(s) + 1 : t[j] = s[j - 1]
  BY <1>1
<1>3. \A j \in 2 .. Len(s) + 1 : j - 1 \in 1 .. Len(s)
  BY <1>1
<1>4. ASSUME NEW j \in DOMAIN t, NEW h \in DOMAIN t, j # h PROVE t[j] # t[h]
  <2>1. CASE j = 1
    <3>1. h \in 2 .. Len(s) + 1
      BY <1>1, <1>2, <1>4, <2>1
    <3> QED BY <1>1, <1>2, <1>3, <2>1, <3>1
  <2>2. CASE h = 1
    <3>1. j \in 2 .. Len(s) + 1
      BY <1>1, <1>2, <1>4, <2>2
    <3> QED BY <1>1, <1>2, <1>3, <2>2, <3>1
  <2>3. CASE j # 1 /\ h # 1
    <3>1. j \in 2 .. Len(s) + 1 /\ h \in 2 .. Len(s) + 1 /\ j - 1 # h - 1
      BY <1>1, <1>2, <1>4, <2>3
    <3>2. t[j] = s[j - 1] /\ t[h] = s[h - 1] /\ j - 1 \in DOMAIN s /\ h - 1 \in DOMAIN s
      BY <1>1, <1>2, <1>3, <3>1
    <3> QED BY <3>1, <3>2 DEF Once
  <2> QED BY <2>1, <2>2, <2>3
<1> QED BY <1>2, <1>4 DEF Once

(* A node moves to the front, with its leaf or with another one.           *)
LEMMA EntriesFront ==
  ASSUME NEW s \in Seq(Entry), Apart(s), NEW i \in 1 .. Len(s), NEW e \in Entry,
         e.key = s[i].key, e.id = s[i].id, e.val = s[i].val \/ e.val \notin ValsOf(s),
         NEW t, t = ToFront(s, i, e)
  PROVE  /\ Apart(t) /\ IdsOf(t) = IdsOf(s)
         /\ ValsOf(t) = (ValsOf(s) \ {s[i].val}) \cup {e.val}
<1>1. Len(s) \in Nat /\ DOMAIN s = 1 .. Len(s)
  BY SeqFacts
<1>3. Moved(s, Len(s), i, e, t)
  BY <1>1 DEF Moved
<1>2. /\ DOMAIN t = 1 .. Len(s) /\ t[1] = e /\ 1 \in 1 .. Len(s)
      /\ \A j \in 1 .. Len(s) : j # 1 =>
           From(i, j) \in 1 .. Len(s) /\ From(i, j) # i /\ t[j] = s[From(i, j)]
      /\ \A j, h \in 1 .. Len(s) : j # 1 /\ h # 1 /\ j # h => From(i, j) # From(i, h)
      /\ \A k \in 1 .. Len(s) : k # i =>
           To(i, k) \in 1 .. Len(s) /\ To(i, k) # 1 /\ t[To(i, k)] = s[k]
  BY <1>3, ToFrontMoves
<1>4. \A k \in 1 .. Len(s) : k # i => s[k].key # e.key /\ s[k].id # e.id /\ s[k].val # e.val
  BY <1>1 DEF Apart, ValsOf
<1>5. Apart(t)
  <2> SUFFICES ASSUME NEW j \in 1 .. Len(s), NEW h \in 1 .. Len(s), j # h
               PROVE  t[j].key # t[h].key /\ t[j].id # t[h].id /\ t[j].val # t[h].val
    BY <1>2 DEF Apart
  <2>1. CASE j = 1
    BY <1>2, <1>4, <2>1
  <2>2. CASE h = 1
    BY <1>2, <1>4, <2>2
  <2>3. CASE j # 1 /\ h # 1
    BY <1>1, <1>2, <2>3 DEF Apart
  <2> QED BY <2>1, <2>2, <2>3
<1>6. ASSUME NEW x PROVE x \in IdsOf(t) <=> x \in IdsOf(s)
  <2>1. ASSUME NEW j \in 1 .. Len(s) PROVE t[j].id \in IdsOf(s)
    BY <1>1, <1>2 DEF IdsOf
  <2>2. ASSUME NEW k \in 1 .. Len(s) PROVE s[k].id \in IdsOf(t)
    BY <1>1, <1>2 DEF IdsOf
  <2>3. x \in IdsOf(t) => x \in IdsOf(s)
    <3> SUFFICES ASSUME NEW j \in 1 .. Len(s), x = t[j].id PROVE x \in IdsOf(s)
      BY <1>2 DEF IdsOf
    <3> QED BY <2>1
  <2>4. x \in IdsOf(s) => x \in IdsOf(t)
    <3> SUFFICES ASSUME NEW k \in 1 .. Len(s), x = s[k].id PROVE x \in IdsOf(t)
      BY <1>1 DEF IdsOf
    <3> QED BY <2>2
  <2> QED BY <2>3, <2>4
<1>7. ASSUME NEW x PROVE x \in ValsOf(t) <=> x \in (ValsOf(s) \ {s[i].val}) \cup {e.val}
  <2>1. ASSUME NEW j \in 1 .. Len(s), t[j].val # e.val
        PROVE  t[j].val \in ValsOf(s) /\ t[j].val # s[i].val
    BY <1>1, <1>2, <2>1 DEF ValsOf, Apart
  <2>2. ASSUME NEW k \in 1 .. Len(s), s[k].val # s[i].val PROVE s[k].val \in ValsOf(t)
    BY <1>1, <1>2, <2>2 DEF ValsOf
  <2>3. e.val \in ValsOf(t)
    BY <1>2 DEF ValsOf
  <2>4. x \in ValsOf(t) => x \in (ValsOf(s) \ {s[i].val}) \cup {e.val}
    <3> SUFFICES ASSUME NEW j \in 1 .. Len(s), x = t[j].val
                 PROVE  x \in (ValsOf(s) \ {s[i].val}) \cup {e.val}
      BY <1>2 DEF ValsOf
    <3> QED BY <2>1
  <2>5. x \in (ValsOf(s) \ {s[i].val}) => x \in ValsOf(t)
    <3> SUFFICES ASSUME NEW k \in 1 .. Len(s), x = s[k].val, x # s[i].val PROVE x \in ValsOf(t)
      BY <1>1 DEF ValsOf
    <3> QED BY <2>2
  <2> QED BY <2>3, <2>4, <2>5
<1>8. IdsOf(t) = IdsOf(s)
  BY <1>6
<1>9. ValsOf(t) = (ValsOf(s) \ {s[i].val}) \cup {e.val}
  BY <1>7
<1> QED BY <1>5, <1>8, <1>9

LEMMA TailFacts ==
  ASSUME NEW S, NEW s \in Seq(S), NEW m \in 0 .. Len(s)
  PROVE  /\ Len(SubSeq(s, m + 1, Len(s))) = Len(s) - m
         /\ DOMAIN SubSeq(s, m + 1, Len(s)) = 1 .. Len(s) - m
         /\ \A j \in 1 .. Len(s) - m : SubSeq(s, m + 1, Len(s))[j] = s[m + j]
<1>1. Len(s) \in Nat /\ DOMAIN s = 1 .. Len(s) /\ m \in Nat /\ m <= Len(s)
  BY SeqFacts
<1>2. CASE m < Len(s)
  <2>1. m + 1 \in 1 .. Len(s) /\ Len(s) - (m + 1) + 1 = Len(s) - m
    BY <1>1, <1>2
  <2> QED BY <1>1, <1>2, <2>1
<1>3. CASE m = Len(s)
  BY <1>1, <1>3
<1>4. ASSUME NEW l \in Nat, m <= l PROVE m < l \/ m = l
  BY <1>1, <1>4
<1>5. m < Len(s) \/ m = Len(s)
  BY <1>1, <1>4
<1> QED BY <1>2, <1>3, <1>5

(* t is s with a new node e first and without g, the nodes behind place m. *)
Pushed(s, n, m, e, t, g) ==
  /\ n \in Nat /\ DOMAIN s = 1 .. n /\ Apart(s) /\ m \in Nat /\ m <= n
  /\ \A i \in DOMAIN s : s[i].key # e.key
  /\ e.id \notin IdsOf(s) /\ e.val \notin ValsOf(s)
  /\ DOMAIN t = 1 .. m + 1 /\ t[1] = e /\ \A j \in 2 .. m + 1 : t[j] = s[j - 1]
  /\ DOMAIN g = 1 .. n - m /\ \A j \in 1 .. n - m : g[j] = s[m + j]

LEMMA EntriesPush ==
  ASSUME NEW s, NEW n, NEW m, NEW e, NEW t, NEW g, Pushed(s, n, m, e, t, g)
  PROVE  /\ Apart(t)
         /\ IdsOf(t) = (IdsOf(s) \ IdsOf(g)) \cup {e.id}
         /\ ValsOf(t) = (ValsOf(s) \ ValsOf(g)) \cup {e.val}
<1>0. /\ n \in Nat /\ Apart(s) /\ m \in Nat /\ m <= n
      /\ \A i \in DOMAIN s : s[i].key # e.key
      /\ e.id \notin IdsOf(s) /\ e.val \notin ValsOf(s)
  BY DEF Pushed
<1> USE <1>0
<1>1. DOMAIN s = 1 .. n
  BY DEF Pushed
<1>2. DOMAIN t = 1 .. m + 1 /\ t[1] = e /\ \A j \in 2 .. m + 1 : t[j] = s[j - 1]
  BY DEF Pushed
<1>3. DOMAIN g = 1 .. n - m /\ \A j \in 1 .. n - m : g[j] = s[m + j]
  BY DEF Pushed
<1>4. \A j \in 2 .. m + 1 : j - 1 \in 1 .. n /\ j - 1 <= m
  BY <1>1
<1>5. \A j \in 1 .. n - m : m + j \in 1 .. n /\ m + j > m
  BY <1>1
<1>6. \A k \in 1 .. n : k <= m => k + 1 \in 2 .. m + 1 /\ (k + 1) - 1 = k /\ k + 1 \in DOMAIN t
  BY <1>1, <1>2
<1>7. \A k \in 1 .. n : k > m => k - m \in 1 .. n - m /\ m + (k - m) = k
  BY <1>1
<1>8. 1 \in DOMAIN t /\ \A j \in DOMAIN t : j = 1 \/ j \in 2 .. m + 1
  BY <1>1, <1>2
<1>9. Apart(t)
  <2> SUFFICES ASSUME NEW j \in DOMAIN t, NEW h \in DOMAIN t, j # h
               PROVE  t[j].key # t[h].key /\ t[j].id # t[h].id /\ t[j].val # t[h].val
    BY DEF Apart
  <2>0. \A k \in 1 .. n : s[k].key # e.key /\ s[k].id # e.id /\ s[k].val # e.val
    BY <1>1 DEF IdsOf, ValsOf
  <2>1. CASE j = 1
    BY <1>2, <1>4, <1>8, <2>0, <2>1
  <2>2. CASE h = 1
    BY <1>2, <1>4, <1>8, <2>0, <2>2
  <2>3. CASE j # 1 /\ h # 1
    <3>1. j - 1 \in DOMAIN s /\ h - 1 \in DOMAIN s /\ j - 1 # h - 1 /\ t[j] = s[j - 1] /\ t[h] = s[h - 1]
      BY <1>1, <1>2, <1>4, <1>8, <2>3
    <3> QED BY <3>1 DEF Apart
  <2> QED BY <2>1, <2>2, <2>3
<1>10. \A k \in 1 .. n : k <= m => s[k].id \in IdsOf(t) /\ s[k].val \in ValsOf(t)
  <2> SUFFICES ASSUME NEW k \in 1 .. n, k <= m PROVE s[k].id \in IdsOf(t) /\ s[k].val \in ValsOf(t)
    OBVIOUS
  <2>1. k + 1 \in DOMAIN t /\ t[k + 1] = s[k]
    BY <1>2, <1>6
  <2> QED BY <2>1 DEF IdsOf, ValsOf
<1>11. \A k \in 1 .. n : k > m => s[k].id \in IdsOf(g) /\ s[k].val \in ValsOf(g)
  <2> SUFFICES ASSUME NEW k \in 1 .. n, k > m PROVE s[k].id \in IdsOf(g) /\ s[k].val \in ValsOf(g)
    OBVIOUS
  <2>1. k - m \in DOMAIN g /\ g[k - m] = s[k]
    BY <1>3, <1>7
  <2> QED BY <2>1 DEF IdsOf, ValsOf
<1>12. \A j \in DOMAIN g : \E k \in 1 .. n : k > m /\ g[j] = s[k]
  <2> SUFFICES ASSUME NEW j \in 1 .. n - m PROVE \E k \in 1 .. n : k > m /\ g[j] = s[k]
    BY <1>3
  <2>1. m + j \in 1 .. n /\ m + j > m /\ g[j] = s[m + j]
    BY <1>3, <1>5
  <2> QED BY <2>1
<1>13. \A j \in DOMAIN t : j = 1 \/ \E k \in 1 .. n : k <= m /\ t[j] = s[k]
  <2> SUFFICES ASSUME NEW j \in 2 .. m + 1 PROVE \E k \in 1 .. n : k <= m /\ t[j] = s[k]
    BY <1>8
  <2>1. j - 1 \in 1 .. n /\ j - 1 <= m /\ t[j] = s[j - 1]
    BY <1>2, <1>4
  <2> QED BY <2>1
<1>14. \A k, l \in 1 .. n : k <= m /\ l > m => s[k].id # s[l].id /\ s[k].val # s[l].val
  <2> SUFFICES ASSUME NEW k \in 1 .. n, NEW l \in 1 .. n, k <= m, l > m
               PROVE  s[k].id # s[l].id /\ s[k].val # s[l].val
    OBVIOUS
  <2>1. k # l
    OBVIOUS
  <2> QED BY <1>1, <2>1 DEF Apart
<1>15. \A k \in 1 .. n : k <= m => s[k].id \notin IdsOf(g) /\ s[k].val \notin ValsOf(g)
  <2> SUFFICES ASSUME NEW k \in 1 .. n, k <= m, NEW j \in DOMAIN g
               PROVE  s[k].id # g[j].id /\ s[k].val # g[j].val
    BY DEF IdsOf, ValsOf
  <2>1. PICK l \in 1 .. n : l > m /\ g[j] = s[l]
    BY <1>12
  <2> QED BY <1>14, <2>1
<1>16. \A k \in 1 .. n : k <= m \/ k > m
  BY <1>1
<1>17. IdsOf(t) = (IdsOf(s) \ IdsOf(g)) \cup {e.id}
  <2>1. ASSUME NEW j \in DOMAIN t PROVE t[j].id \in (IdsOf(s) \ IdsOf(g)) \cup {e.id}
    BY <1>1, <1>2, <1>13, <1>15 DEF IdsOf
  <2>2. e.id \in IdsOf(t)
    BY <1>2, <1>8 DEF IdsOf
  <2>3. ASSUME NEW k \in DOMAIN s, s[k].id \notin IdsOf(g) PROVE s[k].id \in IdsOf(t)
    BY <1>1, <1>10, <1>11, <1>16, <2>3
  <2>4. ASSUME NEW x \in IdsOf(t) PROVE x \in (IdsOf(s) \ IdsOf(g)) \cup {e.id}
    BY <2>1 DEF IdsOf
  <2>5. ASSUME NEW x \in IdsOf(s), x \notin IdsOf(g) PROVE x \in IdsOf(t)
    <3>1. PICK k \in DOMAIN s : x = s[k].id
      BY DEF IdsOf
    <3> QED BY <2>3, <2>5, <3>1
  <2> QED BY <2>2, <2>4, <2>5
<1>18. ValsOf(t) = (ValsOf(s) \ ValsOf(g)) \cup {e.val}
  <2>1. ASSUME NEW j \in DOMAIN t PROVE t[j].val \in (ValsOf(s) \ ValsOf(g)) \cup {e.val}
    BY <1>1, <1>2, <1>13, <1>15 DEF ValsOf
  <2>2. e.val \in ValsOf(t)
    BY <1>2, <1>8 DEF ValsOf
  <2>3. ASSUME NEW k \in DOMAIN s, s[k].val \notin ValsOf(g) PROVE s[k].val \in ValsOf(t)
    BY <1>1, <1>10, <1>11, <1>16, <2>3
  <2>4. ASSUME NEW x \in ValsOf(t) PROVE x \in (ValsOf(s) \ ValsOf(g)) \cup {e.val}
    BY <2>1 DEF ValsOf
  <2>5. ASSUME NEW x \in ValsOf(s), x \notin ValsOf(g) PROVE x \in ValsOf(t)
    <3>1. PICK k \in DOMAIN s : x = s[k].val
      BY DEF ValsOf
    <3> QED BY <2>3, <2>5, <3>1
  <2> QED BY <2>2, <2>4, <2>5
<1> QED BY <1>9, <1>17, <1>18

-----------------------------------------------------------------------------
(* Who owns a leaf.  A step of reader r takes leaves from its own buffer,  *)
(* from the cache and from the heap only, and gives back what it drops.    *)
LEMMA OwnerStep ==
  ASSUME Typing, Owner, NEW r \in Readers,
         \A q \in Readers : q # r => (Private(q))' = Private(q),
         Cached' \cup (Private(r))' \subseteq Cached \cup Private(r) \cup {next},
         Ids' \subseteq Ids \cup Private(r) \cup {next},
         (Private(r))' \cap Cached' = {}, (Private(r))' \cap Ids' = {},
         live' = (live \ (Cached \cup Private(r))) \cup Cached' \cup (Private(r))',
         nodes' = Ids'
  PROVE  Owner'
<1>1. \A q \in Readers : next \notin Private(q)
  BY DEF Typing, Private, RdState, Objects
<1>2. ASSUME NEW q \in Readers, q # r
      PROVE  /\ (Private(q))' \cap Cached' = {} /\ (Private(q))' \cap Ids' = {}
             /\ (Private(q))' \cap (Private(r))' = {}
  BY <1>1, <1>2 DEF Owner
<1>3. ASSUME NEW p \in Readers, NEW q \in Readers, p # q PROVE (Private(p))' \cap (Private(q))' = {}
  <2>1. CASE p = r
    BY <1>2, <1>3, <2>1
  <2>2. CASE q = r
    BY <1>2, <1>3, <2>2
  <2>3. CASE p # r /\ q # r
    BY <1>3, <2>3 DEF Owner
  <2> QED BY <2>1, <2>2, <2>3
<1>4. live' = Cached' \cup UNION {(Private(q))' : q \in Readers}
  <2>1. ASSUME NEW x \in live' PROVE x \in Cached' \/ \E q \in Readers : x \in (Private(q))'
    <3>1. CASE x \in Cached' \/ x \in (Private(r))'
      BY <3>1
    <3>2. CASE x \in live /\ x \notin Cached /\ x \notin Private(r)
      <4>1. PICK q \in Readers : x \in Private(q)
        BY <3>2 DEF Owner
      <4>2. q # r
        BY <3>2, <4>1
      <4> QED BY <4>1, <4>2
    <3> QED BY <2>1, <3>1, <3>2
  <2>2. ASSUME NEW q \in Readers, NEW x \in (Private(q))' PROVE x \in live'
    <3>1. CASE q = r
      BY <3>1
    <3>2. CASE q # r
      <4>1. x \in live /\ x \notin Cached /\ x \notin Private(r)
        BY <3>2 DEF Owner
      <4> QED BY <4>1
    <3> QED BY <3>1, <3>2
  <2> QED BY <2>1, <2>2
<1>5. /\ \A q \in Readers : (Private(q))' \cap Cached' = {} /\ (Private(q))' \cap Ids' = {}
      /\ \A p, q \in Readers : p # q => (Private(p))' \cap (Private(q))' = {}
  BY <1>2, <1>3
<1> QED BY <1>4, <1>5 DEF Owner

PrivateOf(x) == IF x.pc = "scan" THEN {} ELSE {x.buf} \ {NoObj}

LEMMA PrivatePrimed ==
  ASSUME NEW q \in Readers
  PROVE  Private(q) = PrivateOf(rd[q]) /\ (Private(q))' = PrivateOf(rd'[q])
BY DEF Private, PrivateOf

(* What the state of one reader must satisfy.                              *)
ReaderOK(x, n) ==
  /\ x \in RdState
  /\ x.pc \notin {"idle", "end"} => x.todo # <<>>
  /\ x.pc = "put" => x.buf # NoObj
  /\ x.pc = "idle" => x.buf = NoObj
  /\ x.buf < n

PinnedTo(x, ids, vals) ==
  ~x.raced => /\ x.pc = "val" => x.nd \in ids
              /\ x.pc = "use" => x.val \in vals
              /\ x.pc = "scan" => x.buf \in vals

LEMMA ReaderTyping ==
  ASSUME Typing, NEW r \in Readers
  PROVE  ReaderOK(rd[r], next)
BY DEF Typing, ReaderOK

LEMMA TypingReaders ==
  ASSUME entries' \in Seq(Entry), recent' \in Seq(Leaves), next' \in Objects, size' \in Nat,
         up' \in BOOLEAN, NEW f \in [Readers -> RdState], rd' = f,
         \A r \in Readers : ReaderOK(f[r], next'), \A x \in Ids' \cup Cached' : x < next'
  PROVE  Typing'
BY DEF Typing, ReaderOK

LEMMA PinnedReaders ==
  /\ Pinned <=> \A r \in Readers : PinnedTo(rd[r], Ids, Cached)
  /\ Pinned' <=> \A r \in Readers : PinnedTo(rd'[r], Ids', Cached')
BY DEF Pinned, PinnedTo

(* A step that leaves the list alone.                                      *)
LEMMA QuietStep ==
  ASSUME IInv, up, NEW r \in Readers, NEW x, rd' = [rd EXCEPT ![r] = x],
         UNCHANGED <<entries, size, nodes, recent, up>>,
         next' \in Objects, next <= next', ReaderOK(x, next'), PinnedTo(x, Ids, Cached),
         PrivateOf(x) \subseteq Private(r) \cup {next},
         live' = (live \ Private(r)) \cup PrivateOf(x)
  PROVE  IInv'
<1>1. Typing /\ Apart(entries) /\ Owner /\ Pinned /\ Lru
  BY DEF IInv
<1>2. Ids' = Ids /\ Cached' = Cached
  BY DEF Ids, IdsOf, Cached
<1>3. rd \in [Readers -> RdState] /\ x \in RdState
  BY <1>1 DEF Typing, ReaderOK
<1>4. rd' \in [Readers -> RdState] /\ rd'[r] = x /\ \A q \in Readers : q # r => rd'[q] = rd[q]
  BY <1>3
<1>5. next \in Nat /\ next' \in Nat /\ next \notin Ids /\ next \notin Cached
  BY <1>1 DEF Typing, Objects
<1>6. \A q \in Readers : ReaderOK(rd'[q], next')
  <2> SUFFICES ASSUME NEW q \in Readers, q # r PROVE ReaderOK(rd'[q], next')
    BY <1>4
  <2>1. ReaderOK(rd[q], next) /\ rd[q].buf \in Nat
    BY <1>1, <1>3, ReaderTyping DEF RdState
  <2> QED BY <1>4, <1>5, <2>1 DEF ReaderOK
<1>7. \A y \in Ids' \cup Cached' : y < next'
  <2> SUFFICES ASSUME NEW y \in Ids \cup Cached PROVE y < next'
    BY <1>2
  <2>1. y \in Nat
    <3>1. PICK i \in DOMAIN entries : y = entries[i].id \/ y = entries[i].val
      BY DEF Ids, IdsOf, Cached
    <3>2. entries[i] \in Entry
      BY <1>1 DEF Typing
    <3> QED BY <3>1, <3>2 DEF Entry, Objects
  <2>2. y < next
    BY <1>1 DEF Typing
  <2> QED BY <1>5, <2>1, <2>2
<1>8. Typing'
  BY <1>1, <1>4, <1>6, <1>7, TypingReaders DEF Typing
<1>9. Owner'
  <2>1. \A q \in Readers : q # r => (Private(q))' = Private(q)
    BY <1>4, PrivatePrimed
  <2>2. (Private(r))' = PrivateOf(x)
    BY <1>4, PrivatePrimed
  <2>3. Private(r) \cap Cached = {} /\ Private(r) \cap Ids = {} /\ Cached \subseteq live /\ nodes = Ids
    BY <1>1 DEF Owner
  <2>4. live' = (live \ (Cached \cup Private(r))) \cup Cached' \cup (Private(r))'
    BY <1>2, <2>2, <2>3
  <2> HIDE DEF Owner
  <2> QED BY <1>1, <1>2, <1>5, <2>1, <2>2, <2>3, <2>4, OwnerStep
<1>10. Pinned'
  BY <1>1, <1>2, <1>4, PinnedReaders
<1>11. Lru'
  BY <1>1 DEF Lru, Once
<1>12. Apart(entries)'
  BY <1>1 DEF Apart
<1> QED BY <1>8, <1>9, <1>10, <1>11, <1>12 DEF IInv

LEMMA UpWhileBusy ==
  ASSUME IInv, NEW r \in Readers, rd[r].pc # "idle"
  PROVE  up
BY DEF IInv, Lru, Typing

LEMMA NextNat ==
  ASSUME IInv
  PROVE  next \in Nat /\ next # NoObj /\ next + 1 \in Objects /\ next < next + 1 /\ next <= next
BY DEF IInv, Typing, Objects, NoObj

LEMMA TailSeq ==
  ASSUME NEW S, NEW w \in Seq(S), w # <<>>
  PROVE  Tail(w) \in Seq(S) /\ (Len(w) # 1 => Tail(w) # <<>>)
<1>1. Tail(w) \in Seq(S) /\ Len(Tail(w)) = Len(w) - 1 /\ Len(w) \in Nat
  BY HeadTailProperties
<1>2. Len(w) # 1 => Len(Tail(w)) # 0
  BY <1>1
<1>3. Len(<<>>) = 0
  OBVIOUS
<1> QED BY <1>1, <1>2, <1>3

LEMMA AdvanceFacts ==
  ASSUME IInv, NEW r \in Readers, rd[r].pc \notin {"idle", "end"}, NEW n \in Nat, NEW b \in Nat, b < n,
         NEW x, x = Advance(r, b)
  PROVE  ReaderOK(x, n) /\ x.pc \in {"get", "end"} /\ x.buf = b
<1>1. rd[r] \in RdState /\ rd[r].todo # <<>>
  BY DEF IInv, Typing
<1>2. rd[r].todo \in Seq(Keys)
  BY <1>1 DEF RdState
<1>3. Tail(rd[r].todo) \in Seq(Keys) /\ (Len(rd[r].todo) # 1 => Tail(rd[r].todo) # <<>>)
  BY <1>1, <1>2, TailSeq
<1>4. /\ x.pc = IF Len(rd[r].todo) = 1 THEN "end" ELSE "get"
      /\ x.todo = Tail(rd[r].todo) /\ x.buf = b /\ x \in RdState
  <2> DEFINE p == IF Len(rd[r].todo) = 1 THEN "end" ELSE "get"
             w == Tail(rd[r].todo)
  <2>1. x = [rd[r] EXCEPT !.todo = w, !.buf = b, !.nd = NoObj, !.val = NoObj, !.raced = FALSE, !.pc = p]
    BY <1>1 DEF Advance, RdState
  <2>2. p \in RdPc /\ w \in Seq(Keys) /\ NoObj \in Nat
    BY <1>3 DEF RdPc, NoObj
  <2> HIDE DEF p, w
  <2>3. x.pc = p /\ x.todo = w /\ x.buf = b /\ x \in RdState
    BY <1>1, <2>1, <2>2 DEF RdState
  <2> QED BY <2>3 DEF p, w
<1> QED BY <1>3, <1>4 DEF ReaderOK

LEMMA UafFacts ==
  ASSUME NEW x, NEW n, ReaderOK(x, n), NEW u \in BOOLEAN, NEW y, y = [x EXCEPT !.uaf = u]
  PROVE  ReaderOK(y, n) /\ y.pc = x.pc /\ y.buf = x.buf
<1>1. x \in RdState
  BY DEF ReaderOK
<1>2. y.pc = x.pc /\ y.todo = x.todo /\ y.buf = x.buf /\ y \in RdState
  BY <1>1 DEF RdState
<1> QED BY <1>1, <1>2 DEF ReaderOK

LEMMA StartStep ==
  ASSUME IInv, NEW r \in Readers, NEW ks \in Ranges, Start(r, ks)
  PROVE  IInv'
<1>1. ks \in Seq(Keys) /\ ks # <<>>
  BY CacheAssumption DEF Ranges
<1>2. rd[r] \in RdState /\ rd[r].pc = "idle" /\ rd[r].buf = NoObj /\ rd[r].uaf \in BOOLEAN /\ up
  BY DEF IInv, Typing, Start, At, RdState
<1> DEFINE x == [IdleRd EXCEPT !.pc = "get", !.todo = ks, !.buf = next, !.uaf = rd[r].uaf]
<1>3. next \in Nat /\ next # NoObj /\ next + 1 \in Objects /\ next < next + 1
  BY NextNat
<1>4. x.pc = "get" /\ x.todo = ks /\ x.buf = next /\ x \in RdState
  BY <1>1, <1>2, <1>3 DEF IdleRd, RdState, RdPc, NoObj
<1>5. rd' = [rd EXCEPT ![r] = x]
  BY DEF Start
<1> HIDE DEF x
<1>6. ReaderOK(x, next + 1) /\ PinnedTo(x, Ids, Cached)
  BY <1>1, <1>3, <1>4 DEF ReaderOK, PinnedTo
<1>7. PrivateOf(x) = {next} /\ Private(r) = {}
  BY <1>2, <1>3, <1>4 DEF PrivateOf, Private
<1>8. next' = next + 1 /\ live' = live \cup {next} /\ UNCHANGED <<entries, size, nodes, recent, up>>
  BY DEF Start
<1>9. next <= next'
  BY <1>3, <1>8
<1> QED BY <1>2, <1>3, <1>5, <1>6, <1>7, <1>8, <1>9, QuietStep

LEMMA GetValStep ==
  ASSUME IInv, NEW r \in Readers, GetVal(r)
  PROVE  IInv'
<1>1. /\ rd \in [Readers -> RdState] /\ rd[r] \in RdState /\ rd[r].pc = "val"
      /\ entries \in Seq(Entry) /\ rd[r].todo # <<>> /\ ReaderOK(rd[r], next)
  BY ReaderTyping DEF IInv, Typing, GetVal, At
<1> DEFINE is == {i \in DOMAIN entries : entries[i].id = rd[r].nd}
           v == IF is = {} THEN NoObj ELSE entries[CHOOSE i \in is : TRUE].val
           u == rd[r].uaf \/ rd[r].nd \notin nodes
           x == [rd[r] EXCEPT !.pc = "use", !.uaf = u, !.val = v]
<1>2. is # {} => v \in Cached /\ v \in Objects
  <2> SUFFICES ASSUME is # {} PROVE v \in Cached /\ v \in Objects
    OBVIOUS
  <2>1. PICK i \in is : v = entries[i].val
    OBVIOUS
  <2>2. entries[i] \in Entry
    BY <1>1
  <2> QED BY <2>1, <2>2 DEF Cached, Entry
<1>3. v \in Nat /\ u \in BOOLEAN
  BY <1>1, <1>2 DEF NoObj, Objects, RdState
<1>4. ~rd[r].raced => is # {}
  BY <1>1 DEF IInv, Pinned, Ids, IdsOf
<1>5. rd' = [rd EXCEPT ![r] = x]
  BY <1>1 DEF GetVal
<1> HIDE DEF v, u, is
<1>6. /\ x.pc = "use" /\ x.val = v /\ x.raced = rd[r].raced /\ x.buf = rd[r].buf
      /\ x.todo = rd[r].todo /\ x \in RdState
  BY <1>1, <1>3 DEF RdState, RdPc
<1> HIDE DEF x
<1>7. ReaderOK(x, next)
  BY <1>1, <1>6 DEF ReaderOK
<1>8. PinnedTo(x, Ids, Cached)
  BY <1>2, <1>4, <1>6 DEF PinnedTo
<1>9. PrivateOf(x) = Private(r)
  BY <1>1, <1>6 DEF PrivateOf, Private
<1>10. Private(r) \subseteq live
  BY DEF IInv, Owner
<1>11. UNCHANGED <<entries, size, nodes, recent, up>> /\ next' = next /\ live' = live
  BY DEF GetVal
<1>12. live' = (live \ Private(r)) \cup PrivateOf(x)
  BY <1>9, <1>10, <1>11
<1>13. next' \in Objects /\ next <= next'
  BY <1>11, NextNat DEF IInv, Typing
<1>14. up
  BY <1>1, UpWhileBusy
<1> QED BY <1>5, <1>7, <1>8, <1>9, <1>11, <1>12, <1>13, <1>14, QuietStep

LEMMA UseStep ==
  ASSUME IInv, NEW r \in Readers, Use(r)
  PROVE  IInv'
<1>1. /\ rd \in [Readers -> RdState] /\ rd[r] \in RdState /\ rd[r].pc = "use"
      /\ rd[r].todo # <<>> /\ ReaderOK(rd[r], next) /\ rd[r].buf \in Nat /\ rd[r].buf < next
  BY ReaderTyping DEF IInv, Typing, Use, At, RdState
<1> DEFINE u == rd[r].uaf \/ rd[r].val \notin live
           a == [Advance(r, rd[r].buf) EXCEPT !.uaf = u]
           b == [rd[r] EXCEPT !.pc = "miss", !.raced = FALSE, !.uaf = u]
           x == IF Head(rd[r].todo).present THEN a ELSE b
<1>2. rd' = [rd EXCEPT ![r] = x]
  BY DEF Use
<1>3. next \in Nat /\ u \in BOOLEAN
  BY <1>1, NextNat DEF RdState
<1> HIDE DEF u
<1>4. ReaderOK(a, next) /\ a.pc \in {"get", "end"} /\ a.buf = rd[r].buf
  <2> DEFINE z == Advance(r, rd[r].buf)
  <2>1. ReaderOK(z, next) /\ z.pc \in {"get", "end"} /\ z.buf = rd[r].buf
    BY <1>1, <1>3, AdvanceFacts
  <2>2. a = [z EXCEPT !.uaf = u]
    OBVIOUS
  <2> HIDE DEF z, a
  <2> QED BY <1>3, <2>1, <2>2, UafFacts
<1>5. b.pc = "miss" /\ b.todo = rd[r].todo /\ b.buf = rd[r].buf /\ b \in RdState
  BY <1>1, <1>3 DEF RdState, RdPc
<1> HIDE DEF a, b
<1>6. ReaderOK(b, next)
  BY <1>1, <1>5 DEF ReaderOK
<1>7. ReaderOK(x, next) /\ x.pc \in {"get", "end", "miss"} /\ x.buf = rd[r].buf
  BY <1>4, <1>5, <1>6
<1> HIDE DEF x
<1>8. PinnedTo(x, Ids, Cached)
  BY <1>7 DEF PinnedTo
<1>9. PrivateOf(x) = Private(r)
  BY <1>1, <1>7 DEF PrivateOf, Private
<1>10. Private(r) \subseteq live
  BY DEF IInv, Owner
<1>11. UNCHANGED <<entries, size, nodes, recent, up>> /\ next' = next /\ live' = live
  BY DEF Use
<1>12. live' = (live \ Private(r)) \cup PrivateOf(x)
  BY <1>9, <1>10, <1>11
<1>13. next' \in Objects /\ next <= next'
  BY <1>11, NextNat DEF IInv, Typing
<1>14. up
  BY <1>1, UpWhileBusy
<1> QED BY <1>2, <1>7, <1>8, <1>9, <1>11, <1>12, <1>13, <1>14, QuietStep

LEMMA MissStep ==
  ASSUME IInv, NEW r \in Readers, Miss(r)
  PROVE  IInv'
<1>1. /\ rd \in [Readers -> RdState] /\ rd[r] \in RdState /\ rd[r].pc = "miss"
      /\ rd[r].todo # <<>> /\ ReaderOK(rd[r], next) /\ rd[r].buf \in Nat /\ rd[r].buf < next
  BY ReaderTyping DEF IInv, Typing, Miss, At, RdState
<1>2. next \in Nat /\ next # NoObj /\ next + 1 \in Objects /\ next < next + 1 /\ next \in Objects
  BY NextNat DEF IInv, Typing
<1> DEFINE buf == IF rd[r].buf = NoObj THEN next ELSE rd[r].buf
           a == [rd[r] EXCEPT !.pc = "put", !.buf = buf]
           x == IF Head(rd[r].todo).present THEN a ELSE Advance(r, buf)
<1>3. /\ rd' = [rd EXCEPT ![r] = x] /\ live' = live \cup {buf}
      /\ next' = IF rd[r].buf = NoObj THEN next + 1 ELSE next
      /\ UNCHANGED <<entries, size, nodes, recent, up>>
  BY DEF Miss
<1>4. next' \in Objects /\ next' \in Nat /\ next <= next'
  BY <1>2, <1>3 DEF Objects
<1>5. buf \in Nat /\ buf # NoObj /\ buf < next' /\ Private(r) \cup {buf} \subseteq live \cup {buf}
  BY <1>1, <1>2, <1>3 DEF IInv, Owner
<1>6. {buf} \subseteq Private(r) \cup {next} /\ Private(r) \subseteq {buf} /\ Private(r) \subseteq live
  BY <1>1 DEF Private, IInv, Owner
<1> HIDE DEF buf
<1>7. a.pc = "put" /\ a.buf = buf /\ a.todo = rd[r].todo /\ a \in RdState
  BY <1>1, <1>5 DEF RdState, RdPc
<1>8. ReaderOK(a, next')
  BY <1>1, <1>5, <1>7 DEF ReaderOK
<1>9. ReaderOK(Advance(r, buf), next') /\ Advance(r, buf).pc \in {"get", "end"} /\ Advance(r, buf).buf = buf
  <2>1. ASSUME NEW y, y = Advance(r, buf), NEW n, n = next'
        PROVE  ReaderOK(y, n) /\ y.pc \in {"get", "end"} /\ y.buf = buf
    <3>1. rd[r].pc \notin {"idle", "end"} /\ n \in Nat /\ buf < n
      BY <1>1, <1>4, <1>5, <2>1
    <3> QED BY <1>5, <2>1, <3>1, AdvanceFacts
  <2> QED BY <2>1
<1> HIDE DEF a
<1>10. ReaderOK(x, next') /\ x.pc \in {"put", "get", "end"} /\ x.buf = buf
  BY <1>7, <1>8, <1>9
<1> HIDE DEF x
<1>11. PinnedTo(x, Ids, Cached)
  BY <1>10 DEF PinnedTo
<1>12. PrivateOf(x) = {buf}
  BY <1>5, <1>10 DEF PrivateOf
<1>13. live' = (live \ Private(r)) \cup PrivateOf(x)
  BY <1>3, <1>6, <1>12
<1>14. up
  BY <1>1, UpWhileBusy
<1> QED BY <1>3, <1>4, <1>6, <1>10, <1>11, <1>12, <1>13, <1>14, QuietStep

LEMMA ScanStep ==
  ASSUME IInv, NEW r \in Readers, Scan(r)
  PROVE  IInv'
<1>1. /\ rd \in [Readers -> RdState] /\ rd[r] \in RdState /\ rd[r].pc = "scan"
      /\ rd[r].todo # <<>> /\ rd[r].buf \in Nat
  BY DEF IInv, Typing, Scan, At, RdState
<1>2. next \in Nat /\ next # NoObj /\ next \in Objects /\ NoObj \in Nat /\ NoObj < next
  BY NextNat DEF IInv, Typing, NoObj, Objects
<1> DEFINE u == rd[r].uaf \/ rd[r].buf \notin live
           x == [Advance(r, NoObj) EXCEPT !.uaf = u]
<1>3. /\ rd' = [rd EXCEPT ![r] = x] /\ live' = live /\ next' = next
      /\ UNCHANGED <<entries, size, nodes, recent, up>>
  BY DEF Scan
<1>4. u \in BOOLEAN
  BY <1>1 DEF RdState
<1> HIDE DEF u
<1>5. ReaderOK(x, next) /\ x.pc \in {"get", "end"} /\ x.buf = NoObj
  <2> DEFINE z == Advance(r, NoObj)
  <2>1. ReaderOK(z, next) /\ z.pc \in {"get", "end"} /\ z.buf = NoObj
    BY <1>1, <1>2, AdvanceFacts
  <2>2. x = [z EXCEPT !.uaf = u]
    OBVIOUS
  <2> HIDE DEF z, x
  <2> QED BY <1>4, <2>1, <2>2, UafFacts
<1> HIDE DEF x
<1>6. PinnedTo(x, Ids, Cached)
  BY <1>5 DEF PinnedTo
<1>7. PrivateOf(x) = {} /\ Private(r) = {}
  BY <1>1, <1>5 DEF PrivateOf, Private
<1>8. next' \in Objects /\ next <= next'
  BY <1>2, <1>3
<1>9. up
  BY <1>1, UpWhileBusy
<1> QED BY <1>3, <1>5, <1>6, <1>7, <1>8, <1>9, QuietStep

LEMMA EndStep ==
  ASSUME IInv, NEW r \in Readers, End(r)
  PROVE  IInv'
<1>1. rd \in [Readers -> RdState] /\ rd[r] \in RdState /\ rd[r].pc = "end"
  BY DEF IInv, Typing, End, At, RdState
<1>2. next \in Nat /\ next # NoObj /\ next \in Objects /\ NoObj \in Nat /\ NoObj < next
  BY NextNat DEF IInv, Typing, NoObj, Objects
<1> DEFINE x == [rd[r] EXCEPT !.pc = "idle", !.buf = NoObj]
<1>3. rd' = [rd EXCEPT ![r] = x]
  BY <1>1 DEF End
<1>4. live' = live \ {rd[r].buf} /\ next' = next /\ UNCHANGED <<entries, size, nodes, recent, up>>
  BY DEF End
<1>5. x.pc = "idle" /\ x.buf = NoObj /\ x \in RdState
  BY <1>1, <1>2 DEF RdState, RdPc
<1> HIDE DEF x
<1>6. ReaderOK(x, next) /\ PinnedTo(x, Ids, Cached)
  BY <1>2, <1>5 DEF ReaderOK, PinnedTo
<1>7. PrivateOf(x) = {} /\ Private(r) = {rd[r].buf} \ {NoObj}
  BY <1>1, <1>5 DEF PrivateOf, Private
<1>8. NoObj \notin live
  <2>1. NoObj \notin Cached
    <3> SUFFICES ASSUME NEW i \in DOMAIN entries PROVE entries[i].val # NoObj
      BY DEF Cached
    <3>1. entries[i] \in Entry
      BY DEF IInv, Typing
    <3> QED BY <3>1 DEF Entry, Objects
  <2>2. \A q \in Readers : NoObj \notin Private(q)
    BY DEF Private
  <2> QED BY <2>1, <2>2 DEF IInv, Owner
<1>9. live' = (live \ Private(r)) \cup PrivateOf(x)
  BY <1>4, <1>7, <1>8
<1>10. next' \in Objects /\ next <= next'
  BY <1>2, <1>4
<1>11. up
  BY <1>1, UpWhileBusy
<1> QED BY <1>3, <1>4, <1>6, <1>7, <1>9, <1>10, <1>11, QuietStep

LEMMA GetMissStep ==
  ASSUME IInv, NEW r \in Readers, Get(r), Nodes(Leaf(r)) = {}
  PROVE  IInv'
<1>1. /\ rd \in [Readers -> RdState] /\ rd[r] \in RdState /\ rd[r].pc = "get"
      /\ rd[r].todo # <<>> /\ ReaderOK(rd[r], next)
  BY ReaderTyping DEF IInv, Typing, Get, At, RdState
<1>2. next \in Nat /\ next \in Objects
  BY NextNat DEF IInv, Typing
<1> DEFINE x == [rd[r] EXCEPT !.pc = "miss"]
<1>3. /\ rd' = [rd EXCEPT ![r] = x] /\ live' = live /\ next' = next
      /\ UNCHANGED <<entries, size, nodes, recent, up>>
  BY <1>1 DEF Get
<1>4. x.pc = "miss" /\ x.buf = rd[r].buf /\ x.todo = rd[r].todo /\ x \in RdState
  BY <1>1 DEF RdState, RdPc
<1> HIDE DEF x
<1>5. ReaderOK(x, next) /\ PinnedTo(x, Ids, Cached)
  BY <1>1, <1>4 DEF ReaderOK, PinnedTo
<1>6. PrivateOf(x) = Private(r)
  BY <1>1, <1>4 DEF PrivateOf, Private
<1>7. Private(r) \subseteq live
  BY DEF IInv, Owner
<1>8. live' = (live \ Private(r)) \cup PrivateOf(x)
  BY <1>3, <1>6, <1>7
<1>9. next' \in Objects /\ next <= next'
  BY <1>2, <1>3
<1>10. up
  BY <1>1, UpWhileBusy
<1> QED BY <1>3, <1>5, <1>6, <1>8, <1>9, <1>10, QuietStep

-----------------------------------------------------------------------------
(* Steps that change the list.                                             *)

LEMMA RaceFacts ==
  ASSUME Typing, NEW r \in Readers, NEW freed, NEW q \in Readers, NEW x, x = Race(r, freed)[q]
  PROVE  /\ x \in RdState /\ x.pc = rd[q].pc /\ x.todo = rd[q].todo
         /\ x.buf = rd[q].buf /\ x.nd = rd[q].nd /\ x.val = rd[q].val
         /\ rd[q].raced => x.raced
         /\ q # r /\ ~x.raced /\ rd[q].pc \in {"val", "use", "scan"} =>
              rd[q].nd \notin freed /\ rd[q].val \notin freed /\ rd[q].buf \notin freed
<1> DEFINE hit == /\ q # r /\ rd[q].pc \in {"val", "use", "scan"}
                  /\ freed \cap {rd[q].nd, rd[q].val, rd[q].buf} # {}
<1>1. x = IF hit THEN [rd[q] EXCEPT !.raced = TRUE] ELSE rd[q]
  BY DEF Race
<1>2. rd[q] \in RdState
  BY DEF Typing
<1>3. CASE hit
  <2> HIDE DEF hit
  <2> QED BY <1>1, <1>2, <1>3 DEF RdState
<1>4. CASE ~hit
  BY <1>1, <1>2, <1>4
<1> QED BY <1>3, <1>4

LEMMA ListStep ==
  ASSUME IInv, up, NEW r \in Readers, UNCHANGED <<up, next>>,
         entries' \in Seq(Entry), Apart(entries'), recent' \in Seq(Leaves), Once(recent'),
         size' = Len(entries'), Len(entries') <= Capacity, Len(entries') <= Len(recent'),
         Len(entries') = Capacity \/ Len(entries') = Len(recent'),
         \A i \in 1 .. Len(entries') : entries'[i].key = recent'[i],
         NEW freed, NEW x, ReaderOK(x, next), rd' = [Race(r, freed) EXCEPT ![r] = x],
         PinnedTo(x, Ids', Cached'), Ids \ freed \subseteq Ids', Cached \ freed \subseteq Cached',
         Ids' \subseteq Ids \cup Private(r), Cached' \subseteq Cached \cup Private(r),
         PrivateOf(x) \subseteq Private(r), PrivateOf(x) \cap Cached' = {}, PrivateOf(x) \cap Ids' = {},
         live' = (live \ (Cached \cup Private(r))) \cup Cached' \cup PrivateOf(x), nodes' = Ids'
  PROVE  IInv'
<1>1. Typing /\ Owner /\ Pinned /\ next \in Nat
  BY NextNat DEF IInv
<1>2. rd'[r] = x /\ \A q \in Readers : q # r => rd'[q] = Race(r, freed)[q]
  BY DEF Race
<1>3. \A q \in Readers : ReaderOK(rd'[q], next)
  <2> SUFFICES ASSUME NEW q \in Readers, q # r PROVE ReaderOK(rd'[q], next)
    BY <1>2
  <2>1. ReaderOK(rd[q], next)
    BY <1>1, ReaderTyping
  <2>2. rd'[q] \in RdState /\ rd'[q].pc = rd[q].pc /\ rd'[q].todo = rd[q].todo /\ rd'[q].buf = rd[q].buf
    BY <1>1, <1>2, RaceFacts
  <2> QED BY <2>1, <2>2 DEF ReaderOK
<1>4. rd' \in [Readers -> RdState]
  <2>1. rd' = [q \in Readers |-> rd'[q]]
    BY DEF Race
  <2> QED BY <1>3, <2>1 DEF ReaderOK
<1>5. \A y \in Ids' \cup Cached' : y < next
  <2>1. \A y \in Ids \cup Cached : y < next
    BY <1>1 DEF Typing
  <2>2. \A y \in Private(r) : y < next
    BY <1>1 DEF Typing, Private
  <2> QED BY <2>1, <2>2
<1>6. Typing'
  <2>1. next' \in Objects /\ size' \in Nat /\ up' \in BOOLEAN /\ next' = next
    BY <1>1, SeqFacts DEF Typing
  <2> QED BY <1>3, <1>4, <1>5, <2>1, TypingReaders
<1>7. Owner'
  <2>1. \A q \in Readers : q # r => (Private(q))' = Private(q)
    <3> SUFFICES ASSUME NEW q \in Readers, q # r PROVE (Private(q))' = Private(q)
      OBVIOUS
    <3>1. rd'[q].pc = rd[q].pc /\ rd'[q].buf = rd[q].buf
      BY <1>1, <1>2, RaceFacts
    <3> QED BY <3>1, PrivatePrimed DEF PrivateOf
  <2>2. (Private(r))' = PrivateOf(x)
    BY <1>2, PrivatePrimed
  <2> QED BY <1>1, <2>1, <2>2, OwnerStep
<1>8. Pinned'
  <2> SUFFICES ASSUME NEW q \in Readers, q # r PROVE PinnedTo(rd'[q], Ids', Cached')
    BY <1>2, PinnedReaders
  <2>1. /\ rd'[q].pc = rd[q].pc /\ rd'[q].buf = rd[q].buf /\ rd'[q].nd = rd[q].nd /\ rd'[q].val = rd[q].val
        /\ rd[q].raced => rd'[q].raced
        /\ ~rd'[q].raced /\ rd[q].pc \in {"val", "use", "scan"} =>
             rd[q].nd \notin freed /\ rd[q].val \notin freed /\ rd[q].buf \notin freed
    BY <1>1, <1>2, RaceFacts
  <2>2. PinnedTo(rd[q], Ids, Cached)
    BY <1>1, PinnedReaders
  <2> QED BY <2>1, <2>2 DEF PinnedTo
<1>9. Lru'
  <2>1. DOMAIN entries' = 1 .. Len(entries')
    OBVIOUS
  <2> QED BY <2>1 DEF Lru, Once
<1> QED BY <1>6, <1>7, <1>8, <1>9 DEF IInv, Apart

LEMMA LruFacts ==
  ASSUME IInv, up
  PROVE  /\ entries \in Seq(Entry) /\ Len(entries) \in Nat /\ DOMAIN entries = 1 .. Len(entries)
         /\ recent \in Seq(Leaves) /\ Len(recent) \in Nat /\ DOMAIN recent = 1 .. Len(recent)
         /\ Once(recent) /\ Apart(entries) /\ size = Len(entries)
         /\ Len(entries) <= Capacity /\ Len(entries) <= Len(recent)
         /\ Len(entries) = Capacity \/ Len(entries) = Len(recent)
         /\ \A i \in 1 .. Len(entries) : entries[i].key = recent[i] /\ entries[i] \in Entry
<1>1. entries \in Seq(Entry) /\ recent \in Seq(Leaves)
  BY DEF IInv, Typing
<1>2. /\ Len(entries) \in Nat /\ DOMAIN entries = 1 .. Len(entries)
      /\ \A i \in 1 .. Len(entries) : entries[i] \in Entry
  BY <1>1, SeqFacts
<1>3. Len(recent) \in Nat /\ DOMAIN recent = 1 .. Len(recent)
  BY <1>1, SeqFacts
<1> QED BY <1>1, <1>2, <1>3 DEF IInv, Lru

LEMMA NodeFacts ==
  ASSUME IInv, up, NEW k, Nodes(k) # {}, NEW i, i = Node(k)
  PROVE  i \in 1 .. Len(entries) /\ entries[i].key = k /\ entries[i] \in Entry /\ k \in Leaves
<1>1. i \in Nodes(k)
  BY DEF Node
<1>2. i \in 1 .. Len(entries) /\ entries[i].key = k
  BY <1>1, LruFacts DEF Nodes
<1> QED BY <1>2, LruFacts DEF Entry

LEMMA UsesOne ==
  ASSUME IInv, up, NEW k, NEW i \in 1 .. Len(recent), recent[i] = k
  PROVE  Uses(k) # {} /\ (CHOOSE j \in Uses(k) : TRUE) = i
<1>1. DOMAIN recent = 1 .. Len(recent) /\ Once(recent)
  BY LruFacts
<1>2. Uses(k) = {i}
  BY <1>1 DEF Uses, Once
<1> QED BY <1>2

(* A hit: the node's leaf is the same place of the history.                *)
LEMMA TouchHit ==
  ASSUME IInv, up, NEW k, Nodes(k) # {}, NEW i, i = Node(k), NEW e \in Entry, e.key = k,
         NEW t, t = ToFront(entries, i, e), NEW w, w = Touch(k)
  PROVE  /\ t \in Seq(Entry) /\ Len(t) = Len(entries)
         /\ w \in Seq(Leaves) /\ Once(w) /\ Len(w) = Len(recent)
         /\ \A j \in 1 .. Len(t) : t[j].key = w[j]
<1>1. i \in 1 .. Len(entries) /\ entries[i].key = k /\ k \in Leaves
  BY NodeFacts
<1> DEFINE n == Len(entries)
           l == Len(recent)
<1>2. /\ n \in Nat /\ DOMAIN entries = 1 .. n /\ l \in Nat /\ DOMAIN recent = 1 .. l /\ n <= l
      /\ \A j \in 1 .. n : entries[j].key = recent[j]
  BY LruFacts
<1>9. entries \in Seq(Entry) /\ recent \in Seq(Leaves) /\ Once(recent)
  BY LruFacts
<1>3. i \in 1 .. Len(recent) /\ recent[i] = k
  BY <1>1, <1>2
<1>4. w = ToFront(recent, i, k) /\ w = ToFront(recent, i, recent[i])
  BY <1>3, UsesOne DEF Touch
<1>5. /\ t \in Seq(Entry) /\ Len(t) = Len(entries)
      /\ t[1] = e /\ \A j \in 1 .. n : j # 1 => t[j] = entries[From(i, j)]
  <2>1. t \in Seq(Entry) /\ Len(t) = Len(entries)
    BY <1>1, <1>9, ToFrontFacts
  <2>2. t[1] = e /\ \A j \in 1 .. n : j # 1 => t[j] = entries[From(i, j)]
    <3>1. Moved(entries, n, i, e, t)
      BY <1>1, <1>2 DEF Moved
    <3> QED BY <3>1, ToFrontMoves
  <2> QED BY <2>1, <2>2
<1>6. /\ w \in Seq(Leaves) /\ Len(w) = Len(recent)
      /\ w[1] = k /\ \A j \in 1 .. l : j # 1 => w[j] = recent[From(i, j)]
  <2>1. w \in Seq(Leaves) /\ Len(w) = Len(recent)
    BY <1>1, <1>3, <1>4, <1>9, ToFrontFacts
  <2>2. w[1] = k /\ \A j \in 1 .. l : j # 1 => w[j] = recent[From(i, j)]
    <3>1. Moved(recent, l, i, k, w)
      BY <1>2, <1>3, <1>4 DEF Moved
    <3> QED BY <3>1, ToFrontMoves
  <2> QED BY <2>1, <2>2
<1>7. Once(w)
  BY <1>3, <1>4, <1>9, OnceFront
<1> HIDE DEF n, l
<1>8. ASSUME NEW j \in 1 .. n PROVE t[j].key = w[j]
  <2>1. j \in 1 .. n /\ j \in 1 .. l
    BY <1>2
  <2>2. CASE j = 1
    BY <1>5, <1>6, <2>1, <2>2
  <2>3. CASE j # 1
    <3>1. From(i, j) \in 1 .. n
      BY <1>1, <1>2, <2>3 DEF From, n
    <3> QED BY <1>2, <1>5, <1>6, <2>1, <2>3, <3>1
  <2> QED BY <2>2, <2>3
<1> QED BY <1>5, <1>6, <1>7, <1>8 DEF n

(* A miss: the leaf was used before the last leaf of a full cache, or never*)
Missed(k, w, m) ==
  /\ k \in Leaves /\ Nodes(k) = {} /\ w = Touch(k)
  /\ m = IF size >= Capacity THEN Capacity - 1 ELSE Len(entries)

LEMMA TouchMiss ==
  ASSUME IInv, up, NEW k, NEW w, NEW m, Missed(k, w, m)
  PROVE  /\ m \in Nat /\ m <= Len(entries) /\ m + 1 <= Capacity
         /\ w \in Seq(Leaves) /\ Once(w) /\ Len(w) \in Nat /\ m + 1 <= Len(w)
         /\ m + 1 = Capacity \/ m + 1 = Len(w)
         /\ w[1] = k /\ \A j \in 2 .. m + 1 : w[j] = entries[j - 1].key
<1>0. k \in Leaves /\ Nodes(k) = {} /\ w = Touch(k)
  BY DEF Missed
<1>11. m = IF size >= Capacity THEN Capacity - 1 ELSE Len(entries)
  BY DEF Missed
<1> USE <1>0
<1> DEFINE n == Len(entries)
           l == Len(recent)
<1>1. /\ n \in Nat /\ DOMAIN entries = 1 .. n /\ l \in Nat /\ DOMAIN recent = 1 .. l
      /\ size = n /\ n <= Capacity /\ n <= l /\ (n = Capacity \/ n = l)
      /\ \A j \in 1 .. n : entries[j].key = recent[j]
  BY LruFacts
<1>2. Capacity \in Nat /\ Capacity # 0
  BY CacheAssumption
<1>9. recent \in Seq(Leaves) /\ Once(recent)
  BY LruFacts
<1>10. m = IF n >= Capacity THEN Capacity - 1 ELSE n
  BY <1>1, <1>11
<1> HIDE DEF n, l
<1>3. /\ m \in Nat /\ m <= n /\ m + 1 <= Capacity
      /\ (n = Capacity /\ m + 1 = Capacity) \/ (n # Capacity /\ m = n)
  <2>1. n \in Nat /\ n <= Capacity
    BY <1>1
  <2>2. CASE n = Capacity
    <3>1. m = Capacity - 1
      BY <1>2, <1>10, <2>2
    <3> QED BY <1>2, <2>2, <3>1
  <2>3. CASE n < Capacity
    <3>1. m = n
      BY <1>2, <1>10, <2>1, <2>3
    <3> QED BY <1>2, <2>1, <2>3, <3>1
  <2>4. n = Capacity \/ n < Capacity
    BY <1>2, <2>1
  <2> QED BY <2>2, <2>3, <2>4
<1>4. \A j \in 1 .. n : recent[j] # k
  BY <1>1 DEF Nodes
<1>5. \A j \in 2 .. m + 1 : j - 1 \in 1 .. n /\ j - 1 \in 1 .. l
  BY <1>1, <1>3
<1>6. CASE Uses(k) = {}
  <2>1. w = <<k>> \o recent /\ \A j \in DOMAIN recent : recent[j] # k
    BY <1>6 DEF Touch, Uses
  <2>2. /\ Once(w) /\ w \in Seq(Leaves) /\ Len(w) = l + 1
        /\ w[1] = k /\ \A j \in 2 .. l + 1 : w[j] = recent[j - 1]
    <3>1. Once(w) /\ w \in Seq(Leaves) /\ Len(w) = Len(recent) + 1
      BY <1>9, <2>1, OncePush
    <3>2. w[1] = k /\ \A j \in 2 .. Len(recent) + 1 : w[j] = recent[j - 1]
      BY <1>9, <2>1
    <3> QED BY <3>1, <3>2 DEF l
  <2>3. Len(w) \in Nat /\ m + 1 <= Len(w) /\ (m + 1 = Capacity \/ m + 1 = Len(w))
    BY <1>1, <1>3, <2>2
  <2>4. \A j \in 2 .. m + 1 : j \in 2 .. l + 1
    BY <1>1, <1>3
  <2>5. \A j \in 2 .. m + 1 : w[j] = entries[j - 1].key
    BY <1>1, <1>5, <2>2, <2>4
  <2> QED BY <1>3, <2>2, <2>3, <2>5 DEF n
<1>7. CASE Uses(k) # {}
  <2>1. PICK u \in DOMAIN recent : recent[u] = k
    BY <1>7 DEF Uses
  <2>2. u \in 1 .. l /\ u > n
    BY <1>1, <1>4, <2>1
  <2>3. n = Capacity /\ m + 1 = Capacity /\ m + 1 <= l /\ m + 1 < u
    BY <1>1, <1>2, <1>3, <2>2
  <2>4. w = ToFront(recent, u, k) /\ w = ToFront(recent, u, recent[u])
    <3>1. u \in 1 .. Len(recent) /\ recent[u] = k
      BY <2>1, <2>2 DEF l
    <3>2. (CHOOSE j \in Uses(k) : TRUE) = u
      BY <3>1, UsesOne
    <3> QED BY <1>7, <3>1, <3>2 DEF Touch
  <2>5. /\ w \in Seq(Leaves) /\ Len(w) = l
        /\ w[1] = k /\ \A j \in 1 .. l : j # 1 => w[j] = recent[From(u, j)]
    <3>1. w \in Seq(Leaves) /\ Len(w) = l
      BY <1>9, <2>2, <2>4, ToFrontFacts DEF l
    <3>2. w[1] = k /\ \A j \in 1 .. l : j # 1 => w[j] = recent[From(u, j)]
      <4>1. Len(recent) = l /\ l \in Nat /\ u \in 1 .. l
        BY <1>1, <2>2 DEF l
      <4>2. w = ToFront(recent, u, k)
        BY <2>4
      <4>3. Moved(recent, l, u, k, w)
        BY <4>1, <4>2 DEF Moved
      <4> QED BY <4>3, ToFrontMoves
    <3> QED BY <3>1, <3>2
  <2>6. Once(w)
    BY <1>9, <2>2, <2>4, OnceFront DEF l
  <2>8. ASSUME NEW j \in 2 .. m + 1 PROVE w[j] = entries[j - 1].key
    <3>1. j \in 1 .. l /\ j # 1 /\ j <= u
      BY <1>1, <1>3, <2>2, <2>3
    <3>2. w[j] = recent[j - 1]
      BY <2>5, <3>1 DEF From
    <3> QED BY <1>1, <1>5, <3>2
  <2> QED BY <1>1, <1>3, <2>3, <2>5, <2>6, <2>8
<1> QED BY <1>6, <1>7 DEF n

LEMMA GetHitStep ==
  ASSUME IInv, NEW r \in Readers, Get(r), Nodes(Leaf(r)) # {}
  PROVE  IInv'
<1> DEFINE k == Leaf(r)
           i == Node(k)
           e == entries[i]
           x == [rd[r] EXCEPT !.pc = "val", !.nd = e.id]
<1>1. /\ rd \in [Readers -> RdState] /\ rd[r] \in RdState /\ rd[r].pc = "get"
      /\ rd[r].todo # <<>> /\ ReaderOK(rd[r], next) /\ Typing /\ Owner
  BY ReaderTyping DEF IInv, Typing, Get, At, RdState
<1>2. up
  BY <1>1, UpWhileBusy
<1>3. i \in 1 .. Len(entries) /\ e.key = k /\ e \in Entry
  BY <1>2, NodeFacts
<1>4. entries' = ToFront(entries, i, e) /\ recent' = Touch(k) /\ UNCHANGED <<size, next, live, nodes, up>>
  BY DEF Get
<1>5. rd' = [rd EXCEPT ![r].pc = "val", ![r].nd = e.id]
  BY DEF Get
<1>6. rd' = [rd EXCEPT ![r] = x]
  BY <1>1, <1>5
<1> HIDE DEF x, e, i, k
<1>7. /\ entries \in Seq(Entry) /\ Apart(entries) /\ size = Len(entries)
      /\ Len(entries) <= Capacity /\ Len(entries) <= Len(recent)
      /\ Len(entries) = Capacity \/ Len(entries) = Len(recent)
  BY <1>2, LruFacts
<1>8. /\ entries' \in Seq(Entry) /\ Len(entries') = Len(entries)
      /\ recent' \in Seq(Leaves) /\ Once(recent') /\ Len(recent') = Len(recent)
      /\ \A j \in 1 .. Len(entries') : entries'[j].key = recent'[j]
  BY <1>2, <1>3, <1>4, TouchHit DEF k, i
<1>9. /\ Apart(entries') /\ IdsOf(entries') = IdsOf(entries)
      /\ ValsOf(entries') = (ValsOf(entries) \ {e.val}) \cup {e.val}
  BY <1>3, <1>4, <1>7, EntriesFront DEF e
<1>10. e.id \in Ids /\ e.val \in Cached
  BY <1>3, <1>7 DEF Ids, IdsOf, Cached, e
<1>11. Ids' = Ids /\ Cached' = Cached
  BY <1>9, <1>10 DEF Ids, Cached, ValsOf
<1>12. Race(r, {}) = rd
  BY <1>1 DEF Race
<1>13. x.pc = "val" /\ x.nd = e.id /\ x.buf = rd[r].buf /\ x.todo = rd[r].todo /\ x \in RdState
  BY <1>1, <1>3 DEF x, RdState, RdPc, Entry, Objects
<1>14. ReaderOK(x, next)
  BY <1>1, <1>13 DEF ReaderOK
<1>15. PinnedTo(x, Ids', Cached')
  BY <1>10, <1>11, <1>13 DEF PinnedTo
<1>16. PrivateOf(x) = Private(r)
  BY <1>1, <1>13 DEF PrivateOf, Private
<1>17. Private(r) \cap Cached = {} /\ Private(r) \cap Ids = {} /\ nodes = Ids /\ Cached \cup Private(r) \subseteq live
  BY <1>1 DEF Owner
<1>18. live' = (live \ (Cached \cup Private(r))) \cup Cached' \cup PrivateOf(x)
  BY <1>4, <1>11, <1>16, <1>17
<1>19. rd' = [Race(r, {}) EXCEPT ![r] = x]
  BY <1>6, <1>12
<1>20. /\ size' = Len(entries') /\ Len(entries') <= Capacity /\ Len(entries') <= Len(recent')
       /\ Len(entries') = Capacity \/ Len(entries') = Len(recent')
  BY <1>4, <1>7, <1>8
<1>21. /\ Ids \ {} \subseteq Ids' /\ Cached \ {} \subseteq Cached'
       /\ Ids' \subseteq Ids \cup Private(r) /\ Cached' \subseteq Cached \cup Private(r)
       /\ PrivateOf(x) \subseteq Private(r) /\ PrivateOf(x) \cap Cached' = {} /\ PrivateOf(x) \cap Ids' = {}
       /\ nodes' = Ids'
  BY <1>4, <1>11, <1>16, <1>17
<1>22. UNCHANGED <<up, next>>
  BY <1>4
<1> QED BY <1>2, <1>8, <1>9, <1>14, <1>15, <1>18, <1>19, <1>20, <1>21, <1>22, ListStep

LEMMA PutHitStep ==
  ASSUME IInv, NEW r \in Readers, Put(r), Nodes(Leaf(r)) # {}
  PROVE  IInv'
<1> DEFINE k == Leaf(r)
           i == Node(k)
           buf == rd[r].buf
           old == entries[i].val
           e == [entries[i] EXCEPT !.val = buf]
           y == Race(r, {old})[r]
           x == [y EXCEPT !.pc = "scan"]
<1>1. /\ rd \in [Readers -> RdState] /\ rd[r] \in RdState /\ rd[r].pc = "put" /\ buf # NoObj
      /\ rd[r].todo # <<>> /\ ReaderOK(rd[r], next) /\ buf \in Objects /\ Typing /\ Owner
  BY ReaderTyping DEF IInv, Typing, Put, At, RdState, Objects
<1>2. up
  BY <1>1, UpWhileBusy
<1>3. i \in 1 .. Len(entries) /\ entries[i].key = k /\ entries[i] \in Entry
  BY <1>2, NodeFacts
<1>4. /\ entries' = ToFront(entries, i, e) /\ live' = live \ {old} /\ recent' = Touch(k)
      /\ UNCHANGED <<size, nodes, next, up>>
  BY DEF Put
<1>5. rd' = [Race(r, {old}) EXCEPT ![r].pc = "scan"]
  BY DEF Put
<1>6. rd' = [Race(r, {old}) EXCEPT ![r] = x]
  BY <1>5
<1>7. e.key = k /\ e.id = entries[i].id /\ e.val = buf /\ e \in Entry
  BY <1>1, <1>3 DEF Entry
<1> HIDE DEF x, y, e, i, k, buf
<1>8. /\ entries \in Seq(Entry) /\ Apart(entries) /\ size = Len(entries)
      /\ Len(entries) <= Capacity /\ Len(entries) <= Len(recent)
      /\ Len(entries) = Capacity \/ Len(entries) = Len(recent)
  BY <1>2, LruFacts
<1>9. /\ entries' \in Seq(Entry) /\ Len(entries') = Len(entries)
      /\ recent' \in Seq(Leaves) /\ Once(recent') /\ Len(recent') = Len(recent)
      /\ \A j \in 1 .. Len(entries') : entries'[j].key = recent'[j]
  BY <1>2, <1>4, <1>7, TouchHit DEF k, i
<1>10. Private(r) = {buf} /\ Cached = ValsOf(entries) /\ old \in Cached
  BY <1>1, <1>3, <1>8 DEF Private, Cached, ValsOf, buf
<1>11. Private(r) \cap Cached = {} /\ Private(r) \cap Ids = {} /\ nodes = Ids /\ Cached \cup Private(r) \subseteq live
  BY <1>1 DEF Owner
<1>12. e.val \notin ValsOf(entries)
  BY <1>7, <1>10, <1>11
<1>13. /\ Apart(entries') /\ IdsOf(entries') = IdsOf(entries)
       /\ ValsOf(entries') = (ValsOf(entries) \ {old}) \cup {buf}
  BY <1>3, <1>4, <1>7, <1>8, <1>12, EntriesFront
<1>14. Ids' = Ids /\ Cached' = (Cached \ {old}) \cup {buf}
  BY <1>13 DEF Ids, Cached, ValsOf
<1>15. y \in RdState /\ y.pc = "put" /\ y.buf = buf /\ y.todo = rd[r].todo
  BY <1>1, RaceFacts DEF y, buf
<1>16. x.pc = "scan" /\ x.buf = buf /\ x.todo = rd[r].todo /\ x \in RdState
  BY <1>15 DEF x, RdState, RdPc
<1>17. ReaderOK(x, next)
  BY <1>1, <1>16 DEF ReaderOK, buf
<1>18. PinnedTo(x, Ids', Cached')
  BY <1>14, <1>16 DEF PinnedTo
<1>19. PrivateOf(x) = {}
  BY <1>16 DEF PrivateOf
<1>20. live' = (live \ (Cached \cup Private(r))) \cup Cached' \cup PrivateOf(x)
  BY <1>4, <1>10, <1>11, <1>14, <1>19
<1>21. /\ size' = Len(entries') /\ Len(entries') <= Capacity /\ Len(entries') <= Len(recent')
       /\ Len(entries') = Capacity \/ Len(entries') = Len(recent')
  BY <1>4, <1>8, <1>9
<1>22. /\ Ids \ {old} \subseteq Ids' /\ Cached \ {old} \subseteq Cached'
       /\ Ids' \subseteq Ids \cup Private(r) /\ Cached' \subseteq Cached \cup Private(r)
       /\ PrivateOf(x) \subseteq Private(r) /\ PrivateOf(x) \cap Cached' = {} /\ PrivateOf(x) \cap Ids' = {}
       /\ nodes' = Ids'
  BY <1>4, <1>10, <1>11, <1>14, <1>19
<1>23. UNCHANGED <<up, next>>
  BY <1>4
<1> HIDE DEF old
<1> QED BY <1>2, <1>6, <1>9, <1>13, <1>17, <1>18, <1>20, <1>21, <1>22, <1>23, ListStep

LEMMA PutMissStep ==
  ASSUME IInv, NEW r \in Readers, Put(r), Nodes(Leaf(r)) = {}
  PROVE  IInv'
<1> DEFINE k == Leaf(r)
           buf == rd[r].buf
           e == [key |-> k, id |-> buf, val |-> buf]
           m == IF size >= Capacity THEN Capacity - 1 ELSE Len(entries)
           keep == SubSeq(entries, 1, m)
           gone == SubSeq(entries, Len(keep) + 1, Len(entries))
           freed == IdsOf(gone) \cup ValsOf(gone)
           y == Race(r, freed)[r]
           x == [y EXCEPT !.pc = "scan"]
<1>1. /\ rd \in [Readers -> RdState] /\ rd[r] \in RdState /\ rd[r].pc = "put" /\ buf # NoObj
      /\ rd[r].todo # <<>> /\ ReaderOK(rd[r], next) /\ buf \in Objects /\ Typing /\ Owner
  BY ReaderTyping DEF IInv, Typing, Put, At, RdState, Objects
<1>2. up
  BY <1>1, UpWhileBusy
<1>3. k \in Leaves
  <2>1. rd[r].todo \in Seq(Keys)
    BY <1>1 DEF RdState
  <2>2. Head(rd[r].todo) \in Keys
    BY <1>1, <2>1, HeadTailProperties
  <2> QED BY <2>2 DEF Leaf, Keys
<1>4. /\ entries' = <<e>> \o keep /\ size' = size - Len(gone) + 1
      /\ nodes' = (nodes \ IdsOf(gone)) \cup {buf} /\ live' = live \ ValsOf(gone)
      /\ recent' = Touch(k) /\ UNCHANGED <<next, up>>
  BY DEF Put, IdsOf, ValsOf
<1>5. rd' = [Race(r, freed) EXCEPT ![r].pc = "scan"]
  BY DEF Put, IdsOf, ValsOf
<1>6. rd' = [Race(r, freed) EXCEPT ![r] = x]
  BY <1>5
<1>7. e.key = k /\ e.id = buf /\ e.val = buf /\ e \in Entry
  BY <1>1, <1>3 DEF Entry
<1> HIDE DEF x, y, freed, gone, keep, e, k, buf
<1>8. /\ m \in Nat /\ m <= Len(entries) /\ m + 1 <= Capacity
      /\ recent' \in Seq(Leaves) /\ Once(recent') /\ Len(recent') \in Nat /\ m + 1 <= Len(recent')
      /\ m + 1 = Capacity \/ m + 1 = Len(recent')
      /\ recent'[1] = k /\ \A j \in 2 .. m + 1 : recent'[j] = entries[j - 1].key
  <2>1. Missed(k, recent', m)
    BY <1>3, <1>4 DEF Missed, k
  <2> HIDE DEF m
  <2> QED BY <1>2, <2>1, TouchMiss
<1> HIDE DEF m
<1>9. /\ entries \in Seq(Entry) /\ Len(entries) \in Nat /\ DOMAIN entries = 1 .. Len(entries)
      /\ Apart(entries) /\ size = Len(entries)
  BY <1>2, LruFacts
<1>10. m \in 0 .. Len(entries)
  BY <1>8, <1>9
<1>11. Len(keep) = m
  BY <1>9, <1>10 DEF keep
<1>12. gone = SubSeq(entries, m + 1, Len(entries))
  BY <1>11 DEF gone
<1>13. /\ Len(gone) = Len(entries) - m /\ DOMAIN gone = 1 .. Len(entries) - m
       /\ \A j \in 1 .. Len(entries) - m : gone[j] = entries[m + j]
  BY <1>9, <1>10, <1>12, TailFacts
<1>14. entries' = <<e>> \o SubSeq(entries, 1, m)
  BY <1>4 DEF keep
<1>15. /\ entries' \in Seq(Entry) /\ Len(entries') = m + 1 /\ DOMAIN entries' = 1 .. m + 1
       /\ entries'[1] = e /\ \A j \in 2 .. m + 1 : entries'[j] = entries[j - 1]
  BY <1>7, <1>9, <1>10, <1>14, PushFacts
<1>16. Private(r) = {buf} /\ Cached = ValsOf(entries) /\ Ids = IdsOf(entries)
  BY <1>1 DEF Private, Cached, ValsOf, Ids, buf
<1>17. Private(r) \cap Cached = {} /\ Private(r) \cap Ids = {} /\ nodes = Ids /\ Cached \cup Private(r) \subseteq live
  BY <1>1 DEF Owner
<1>18. (\A j \in DOMAIN entries : entries[j].key # e.key) /\ e.id \notin IdsOf(entries) /\ e.val \notin ValsOf(entries)
  BY <1>7, <1>16, <1>17 DEF Nodes, k
<1>19. /\ Apart(entries')
       /\ IdsOf(entries') = (IdsOf(entries) \ IdsOf(gone)) \cup {e.id}
       /\ ValsOf(entries') = (ValsOf(entries) \ ValsOf(gone)) \cup {e.val}
  <2> DEFINE n == Len(entries)
  <2>1. n \in Nat /\ DOMAIN entries = 1 .. n /\ m \in Nat /\ m <= n /\ Apart(entries)
    BY <1>8, <1>9
  <2>2. DOMAIN gone = 1 .. n - m /\ \A j \in 1 .. n - m : gone[j] = entries[m + j]
    BY <1>13
  <2> HIDE DEF n
  <2>3. Pushed(entries, n, m, e, entries', gone)
    BY <1>15, <1>18, <2>1, <2>2 DEF Pushed
  <2> QED BY <2>3, EntriesPush
<1>20. /\ Ids' = (Ids \ IdsOf(gone)) \cup {buf}
       /\ Cached' = (Cached \ ValsOf(gone)) \cup {buf}
  BY <1>7, <1>16, <1>19 DEF Ids, Cached, ValsOf
<1>21. y \in RdState /\ y.pc = "put" /\ y.buf = buf /\ y.todo = rd[r].todo
  BY <1>1, RaceFacts DEF y, buf
<1>22. x.pc = "scan" /\ x.buf = buf /\ x.todo = rd[r].todo /\ x \in RdState
  BY <1>21 DEF x, RdState, RdPc
<1>23. ReaderOK(x, next)
  BY <1>1, <1>22 DEF ReaderOK, buf
<1>24. PinnedTo(x, Ids', Cached')
  BY <1>20, <1>22 DEF PinnedTo
<1>25. PrivateOf(x) = {}
  BY <1>22 DEF PrivateOf
<1>26. ValsOf(gone) \subseteq ValsOf(entries)
  <2>1. \A j \in 1 .. Len(entries) - m : m + j \in DOMAIN entries
    BY <1>8, <1>9
  <2> QED BY <1>13, <2>1 DEF ValsOf
<1>27. live' = (live \ (Cached \cup Private(r))) \cup Cached' \cup PrivateOf(x)
  BY <1>4, <1>16, <1>17, <1>20, <1>25, <1>26
<1>28. /\ size' = Len(entries') /\ Len(entries') <= Capacity /\ Len(entries') <= Len(recent')
       /\ Len(entries') = Capacity \/ Len(entries') = Len(recent')
  <2>1. size' = Len(entries) - (Len(entries) - m) + 1
    BY <1>4, <1>9, <1>13
  <2>2. size' = m + 1
    BY <1>8, <1>9, <2>1
  <2> QED BY <1>8, <1>15, <2>2
<1>29. /\ Ids \ freed \subseteq Ids' /\ Cached \ freed \subseteq Cached'
       /\ Ids' \subseteq Ids \cup Private(r) /\ Cached' \subseteq Cached \cup Private(r)
       /\ PrivateOf(x) \subseteq Private(r) /\ PrivateOf(x) \cap Cached' = {} /\ PrivateOf(x) \cap Ids' = {}
       /\ nodes' = Ids'
  BY <1>4, <1>16, <1>17, <1>20, <1>25 DEF freed
<1>30. UNCHANGED <<up, next>>
  BY <1>4
<1>31. \A j \in 1 .. Len(entries') : entries'[j].key = recent'[j]
  <2> SUFFICES ASSUME NEW j \in 1 .. m + 1 PROVE entries'[j].key = recent'[j]
    BY <1>15
  <2>1. CASE j = 1
    BY <1>7, <1>8, <1>15, <2>1
  <2>2. CASE j # 1
    <3>1. j \in 2 .. m + 1
      BY <1>8, <2>2
    <3> QED BY <1>8, <1>15, <3>1
  <2> QED BY <2>1, <2>2
<1> QED BY <1>2, <1>6, <1>8, <1>15, <1>19, <1>23, <1>24, <1>27, <1>28, <1>29, <1>30, <1>31, ListStep

LEMMA DestroyStep ==
  ASSUME IInv, Destroy
  PROVE  IInv'
<1>1. Typing /\ Owner /\ Lru /\ \A r \in Readers : rd[r].pc = "idle" /\ rd[r].buf = NoObj
  BY DEF IInv, Typing, Destroy, At
<1>2. /\ entries' = <<>> /\ up' = FALSE /\ nodes' = nodes \ Ids /\ live' = live \ Cached
      /\ UNCHANGED <<size, next, rd, recent>>
  BY DEF Destroy, Ids, IdsOf, Cached
<1>3. Ids' = {} /\ Cached' = {} /\ entries' \in Seq(Entry) /\ Apart(entries)'
  BY <1>2 DEF Ids, IdsOf, Cached, Apart
<1>4. \A r \in Readers : Private(r) = {} /\ (Private(r))' = {}
  BY <1>1, <1>2 DEF Private
<1>5. live' = {} /\ nodes' = {}
  BY <1>1, <1>2, <1>4 DEF Owner
<1>6. Typing'
  BY <1>1, <1>2, <1>3 DEF Typing
<1>7. Owner'
  BY <1>3, <1>4, <1>5 DEF Owner
<1>8. Pinned'
  BY <1>1, <1>2 DEF Pinned
<1>9. Lru'
  BY <1>1, <1>2 DEF Lru, Once
<1> QED BY <1>3, <1>6, <1>7, <1>8, <1>9 DEF IInv

LEMMA InitInv ==
  ASSUME Init
  PROVE  IInv
<1>1. /\ entries = <<>> /\ size = 0 /\ next = 1 /\ live = {} /\ nodes = {} /\ recent = <<>> /\ up = TRUE
      /\ rd = [r \in Readers |-> IdleRd]
  BY DEF Init
<1>2. IdleRd \in RdState /\ IdleRd.pc = "idle" /\ IdleRd.buf = NoObj
  BY DEF IdleRd, RdState, RdPc, NoObj
<1>3. \A r \in Readers : rd[r].pc = "idle" /\ rd[r].buf = NoObj /\ rd[r] \in RdState
  BY <1>1, <1>2
<1>4. rd \in [Readers -> RdState]
  BY <1>1, <1>2
<1>5. Ids = {} /\ Cached = {} /\ Apart(entries) /\ Once(recent) /\ DOMAIN entries = {} /\ Len(entries) = 0 /\ Len(recent) = 0
  BY <1>1 DEF Ids, IdsOf, Cached, Apart, Once
<1>6. Typing
  BY <1>1, <1>3, <1>4, <1>5 DEF Typing, Objects, NoObj
<1>7. Owner
  <2>1. \A r \in Readers : Private(r) = {}
    BY <1>3 DEF Private
  <2> QED BY <1>1, <1>5, <2>1 DEF Owner
<1>8. Pinned
  BY <1>3 DEF Pinned
<1>9. Lru
  BY <1>1, <1>5, CacheAssumption DEF Lru
<1> QED BY <1>5, <1>6, <1>7, <1>8, <1>9 DEF IInv

LEMMA NextInv ==
  ASSUME IInv, [Next]_vars
  PROVE  IInv'
<1>1. ASSUME NEW r \in Readers, NEW ks \in Ranges, Start(r, ks) PROVE IInv'
  BY <1>1, StartStep
<1>2. ASSUME NEW r \in Readers, Get(r) PROVE IInv'
  BY <1>2, GetHitStep, GetMissStep
<1>3. ASSUME NEW r \in Readers, GetVal(r) PROVE IInv'
  BY <1>3, GetValStep
<1>4. ASSUME NEW r \in Readers, Use(r) PROVE IInv'
  BY <1>4, UseStep
<1>5. ASSUME NEW r \in Readers, Miss(r) PROVE IInv'
  BY <1>5, MissStep
<1>6. ASSUME NEW r \in Readers, Put(r) PROVE IInv'
  BY <1>6, PutHitStep, PutMissStep
<1>7. ASSUME NEW r \in Readers, Scan(r) PROVE IInv'
  BY <1>7, ScanStep
<1>8. ASSUME NEW r \in Readers, End(r) PROVE IInv'
  BY <1>8, EndStep
<1>9. CASE Destroy
  BY <1>9, DestroyStep
<1>10. CASE UNCHANGED vars
  BY <1>10 DEF vars, IInv, Typing, Ids, IdsOf, Cached, Apart, Once, Owner, Private, Pinned, Lru
<1> QED BY <1>1, <1>2, <1>3, <1>4, <1>5, <1>6, <1>7, <1>8, <1>9, <1>10 DEF Next

(* The inductive invariant of the cache and its readers.                   *)
THEOREM CacheInvariant == Spec => []IInv
<1>1. Init => IInv
  BY InitInv
<1>2. IInv /\ [Next]_vars => IInv'
  BY NextInv
<1> QED BY <1>1, <1>2, PTL DEF Spec

(* Every decrypted leaf belongs to exactly one reader or one node of the   *)
(* cache: lru_cache_put, lru_cache_destroy and the two searches lose none  *)
(* and free none twice.                                                    *)
THEOREM LeavesOwned == Spec => []OneOwner
<1>1. IInv => OneOwner
  <2> SUFFICES ASSUME IInv PROVE OneOwner
    OBVIOUS
  <2>1. Owner /\ Apart(entries)
    BY DEF IInv
  <2> QED BY <2>1 DEF Owner, Apart, OneOwner, Ids, IdsOf
<1> QED BY <1>1, CacheInvariant, PTL

(* A search reads a leaf or a node that was freed only after another       *)
(* reader's lru_cache_put freed it, between the unlock of lru_cache_get or *)
(* lru_cache_put and the read.                                             *)
THEOREM ReadsLive == Spec => []UseLiveUnlessRaced
<1>1. IInv => UseLiveUnlessRaced
  <2> SUFFICES ASSUME IInv PROVE UseLiveUnlessRaced
    OBVIOUS
  <2>1. Pinned /\ Cached \subseteq live /\ nodes = Ids /\ rd \in [Readers -> RdState]
    BY DEF IInv, Owner, Typing
  <2>2. \A r \in Readers : rd[r].raced \in BOOLEAN
    BY <2>1 DEF RdState
  <2> QED BY <2>1, <2>2 DEF Pinned, UseLiveUnlessRaced
<1> QED BY <1>1, CacheInvariant, PTL

(* lru_cache_get and lru_cache_put keep the leaves used last, in the order *)
(* of their use, and this->size is their number.                           *)
THEOREM LruOrder == Spec => []LruExact
<1>1. IInv => LruExact
  <2> SUFFICES ASSUME IInv, up PROVE LruExact
    BY DEF LruExact
  <2> DEFINE n == Len(entries)
             l == Len(recent)
             m == IF l < Capacity THEN l ELSE Capacity
  <2>1. /\ n \in Nat /\ DOMAIN entries = 1 .. n /\ l \in Nat /\ size = n
        /\ n <= Capacity /\ n <= l /\ (n = Capacity \/ n = l)
        /\ \A i \in 1 .. n : entries[i].key = recent[i]
    BY LruFacts
  <2>2. recent \in Seq(Leaves) /\ Capacity \in Nat
    BY LruFacts, CacheAssumption
  <2>3. m = n
    BY <2>1, <2>2
  <2>4. [i \in DOMAIN entries |-> entries[i].key] = SubSeq(recent, 1, n)
    <3>1. n \in 0 .. Len(recent)
      BY <2>1
    <3>2. SubSeq(recent, 1, n) = [i \in 1 .. n |-> recent[i]]
      BY <2>2, <3>1, Prefix
    <3> QED BY <2>1, <3>2
  <2> QED BY <2>1, <2>3, <2>4 DEF LruExact
<1> QED BY <1>1, CacheInvariant, PTL
=============================================================================
