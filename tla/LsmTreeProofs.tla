--------------------------- MODULE LsmTreeProofs ---------------------------
(***************************************************************************)
(* Proofs about LsmTree, for every number of logical blocks, capacity of   *)
(* the files and size of the data region.                                  *)
(***************************************************************************)
EXTENDS LsmTree, TLAPS, WellFoundedInduction, FiniteSetTheorems, SequenceTheorems

(* The least number principle, for the inductions below. *)
LEMMA Least ==
  ASSUME NEW T \in SUBSET Nat, T # {}
  PROVE  \E x \in T : \A y \in T : x <= y
<1> DEFINE R == {ss \in Nat \X Nat : ss[1] < ss[2]}
<1>1. IsWellFoundedOn(R, Nat)
  BY NatLessThanWellFounded DEF OpToRel
<1>2. PICK x \in T : \A y \in T : ~(<<y, x>> \in R)
  <2> HIDE DEF R
  <2>1. \E x \in T : \A y \in T : ~(<<y, x>> \in R)
    BY <1>1, WFMin
  <2> QED BY <2>1
<1>3. ASSUME NEW y \in T PROVE x <= y
  <2>1. y \in Nat /\ x \in Nat
    OBVIOUS
  <2>2. y < x => <<y, x>> \in R
    BY <2>1
  <2>3. ~(y < x)
    <3> HIDE DEF R
    <3> QED BY <1>2, <2>2
  <2> QED BY <2>1, <2>3
<1> QED BY <1>3

(* Induction from 0 to N over a set. *)
LEMMA UpTo ==
  ASSUME NEW N \in Nat, NEW P, 0 \in P, \A i \in 0 .. N - 1 : i \in P => i + 1 \in P
  PROVE  \A i \in 0 .. N : i \in P
<1> DEFINE T == {i \in 0 .. N : i \notin P}
<1>1. SUFFICES ASSUME T # {} PROVE FALSE
  OBVIOUS
<1>2. T \in SUBSET Nat
  OBVIOUS
<1>3. PICK x \in T : \A y \in T : x <= y
  <2> HIDE DEF T
  <2> QED BY <1>1, <1>2, Least
<1>4. x # 0 /\ x \in 0 .. N /\ x \notin P
  OBVIOUS
<1>5. x - 1 \in 0 .. N - 1 /\ x - 1 \notin T
  BY <1>3, <1>4
<1>6. x - 1 \in P
  BY <1>5
<1>7. (x - 1) + 1 \in P
  BY <1>5, <1>6
<1>8. (x - 1) + 1 = x
  BY <1>4
<1> QED BY <1>4, <1>7, <1>8

LEMMA MinIs ==
  ASSUME NEW T \in SUBSET Nat, T # {}
  PROVE  Min(T) \in T /\ \A y \in T : Min(T) <= y
BY Least DEF Min

LEMMA MaxIs ==
  ASSUME NEW T \in SUBSET Nat, T # {}, NEW N \in Nat, \A y \in T : y <= N
  PROVE  Max(T) \in T /\ \A y \in T : y <= Max(T)
<1> DEFINE U == {N - y : y \in T}
<1>1. U \in SUBSET Nat /\ U # {}
  <2>1. \A y \in T : y \in Nat /\ y <= N
    OBVIOUS
  <2>2. \A y \in T : N - y \in Nat
    BY <2>1
  <2> QED BY <2>2
<1>2. PICK u \in U : \A v \in U : u <= v
  <2> HIDE DEF U
  <2> QED BY <1>1, Least
<1>3. PICK x \in T : u = N - x
  OBVIOUS
<1>4. \A y \in T : N - x <= N - y
  BY <1>2, <1>3
<1>5. \A y \in T : x >= y
  BY <1>4
<1>6. Max(T) \in T /\ \A y \in T : Max(T) >= y
  BY <1>5 DEF Max
<1> QED BY <1>6

(* A loop of N steps has a result. *)
Loop(g, N, S, x, st) ==
  /\ g \in [0 .. N -> S]
  /\ g[0] = x
  /\ \A i \in 1 .. N : g[i] = st[i][g[i - 1]]

LEMMA LoopExists ==
  ASSUME NEW N \in Nat, NEW S, NEW x \in S, NEW st \in [1 .. N -> [S -> S]]
  PROVE  \E g : Loop(g, N, S, x, st)
<1> DEFINE Is(g, j) == Loop(g, j, S, x, st)
           P == {j \in 0 .. N : \E g : Is(g, j)}
<1>1. 0 \in P
  <2> DEFINE h == [i \in 0 .. 0 |-> x]
  <2>1. Is(h, 0)
    BY DEF Loop
  <2>2. 0 \in 0 .. N
    OBVIOUS
  <2> HIDE DEF h, Is
  <2> QED BY <2>1, <2>2
<1>2. ASSUME NEW j \in 0 .. N - 1, j \in P PROVE j + 1 \in P
  <2>1. PICK g : Is(g, j)
    BY <1>2
  <2> DEFINE h == [i \in 0 .. j + 1 |-> IF i <= j THEN g[i] ELSE st[j + 1][g[j]]]
  <2>2. st[j + 1][g[j]] \in S
    <3>1. j + 1 \in 1 .. N /\ j \in 0 .. j
      OBVIOUS
    <3>2. st[j + 1] \in [S -> S] /\ g[j] \in S
      BY <2>1, <3>1 DEF Loop
    <3> QED BY <3>2
  <2>3. h \in [0 .. j + 1 -> S]
    BY <2>1, <2>2 DEF Loop
  <2>4. h[0] = x
    BY <2>1 DEF Loop
  <2>5. ASSUME NEW i \in 1 .. j + 1 PROVE h[i] = st[i][h[i - 1]]
    <3>1. CASE i <= j
      BY <2>1, <3>1 DEF Loop
    <3>2. CASE i = j + 1
      BY <2>1, <3>2 DEF Loop
    <3> QED BY <3>1, <3>2
  <2>6. Is(h, j + 1)
    <3> HIDE DEF h
    <3> QED BY <2>3, <2>4, <2>5 DEF Loop
  <2>7. j + 1 \in 0 .. N
    OBVIOUS
  <2> HIDE DEF h, Is
  <2> QED BY <2>6, <2>7
<1>3. N \in P
  <2>1. \A i \in 0 .. N : i \in P
    <3> HIDE DEF P
    <3> QED BY <1>1, <1>2, UpTo
  <2>2. N \in 0 .. N
    OBVIOUS
  <2> HIDE DEF P
  <2> QED BY <2>1, <2>2
<1>4. PICK g : Is(g, N)
  BY <1>3
<1> QED BY <1>4

(* A tail recursion whose measure is bounded has a result, ... *)
Tailed(s, D, R, stop, nxt, out) ==
  s \in [D -> R] /\ \A x \in D : s[x] = IF x \in stop THEN out[x] ELSE s[nxt[x]]

LEMMA TailExists ==
  ASSUME NEW D, NEW R, NEW stop \in SUBSET D, NEW nxt \in [D -> D], NEW out \in [D -> R],
         NEW N \in Nat, NEW mu \in [D -> 0 .. N],
         \A x \in D : x \notin stop => mu[nxt[x]] < mu[x]
  PROVE  \E s : Tailed(s, D, R, stop, nxt, out)
<1> DEFINE S == [D -> R]
           Turn(g) == [x \in D |-> IF x \in stop THEN out[x] ELSE g[nxt[x]]]
           st == [i \in 1 .. N + 1 |-> [g \in S |-> Turn(g)]]
<1>1. \A g \in S : Turn(g) \in S
  OBVIOUS
<1>2. st \in [1 .. N + 1 -> [S -> S]]
  BY <1>1
<1>3. PICK G : Loop(G, N + 1, S, out, st)
  <2> DEFINE M == N + 1
  <2>1. out \in S
    OBVIOUS
  <2>2. M \in Nat
    OBVIOUS
  <2>3. st \in [1 .. M -> [S -> S]]
    BY <1>2
  <2>4. \E g : Loop(g, M, S, out, st)
    <3> HIDE DEF st, S, M
    <3> QED BY <2>1, <2>2, <2>3, LoopExists
  <2> QED BY <2>4
<1>4. G[0] = out
  BY <1>3 DEF Loop
<1>5. ASSUME NEW i \in 0 .. N PROVE G[i] \in S /\ G[i + 1] = Turn(G[i])
  <2>1. i \in 0 .. N + 1 /\ i + 1 \in 0 .. N + 1 /\ i + 1 \in 1 .. N + 1 /\ i + 1 # 0 /\ (i + 1) - 1 = i
    OBVIOUS
  <2>2. G[i] \in S
    BY <1>3, <2>1 DEF Loop
  <2>3. G[i + 1] = st[i + 1][G[i]]
    <3> HIDE DEF st, S
    <3> QED BY <1>3, <2>1 DEF Loop
  <2>4. st[i + 1][G[i]] = Turn(G[i])
    BY <2>1, <2>2
  <2> QED BY <2>2, <2>3, <2>4
<1> HIDE DEF S
<1> DEFINE P == {i \in 0 .. N : \A x \in D : mu[x] <= i => G[i + 1][x] = G[i][x]}
<1>6. 0 \in P
  <2>1. ASSUME NEW x \in D, mu[x] <= 0 PROVE x \in stop
    <3>1. nxt[x] \in D /\ mu[nxt[x]] \in 0 .. N /\ mu[x] \in 0 .. N
      OBVIOUS
    <3> QED BY <2>1, <3>1
  <2>2. G[0 + 1] = Turn(G[0])
    BY <1>5
  <2> QED BY <1>4, <2>1, <2>2
<1>7. ASSUME NEW i \in 0 .. N - 1, i \in P PROVE i + 1 \in P
  <2>1. i + 1 \in 0 .. N /\ i \in 0 .. N
    OBVIOUS
  <2>2. G[(i + 1) + 1] = Turn(G[i + 1]) /\ G[i + 1] = Turn(G[i])
    BY <1>5, <2>1
  <2>3. ASSUME NEW x \in D, mu[x] <= i + 1 PROVE G[(i + 1) + 1][x] = G[i + 1][x]
    <3>1. CASE x \in stop
      BY <2>2, <3>1
    <3>2. CASE x \notin stop
      <4>1. nxt[x] \in D /\ mu[nxt[x]] \in 0 .. N /\ mu[x] \in 0 .. N /\ mu[nxt[x]] < mu[x]
        BY <3>2
      <4>2. mu[nxt[x]] <= i
        BY <2>3, <4>1
      <4>3. G[i + 1][nxt[x]] = G[i][nxt[x]]
        BY <1>7, <4>1, <4>2
      <4> QED BY <2>2, <3>2, <4>3
    <3> QED BY <3>1, <3>2
  <2> QED BY <2>1, <2>3
<1>8. N \in P
  <2>1. \A i \in 0 .. N : i \in P
    <3> HIDE DEF P
    <3> QED BY <1>6, <1>7, UpTo
  <2> QED BY <2>1
<1>9. \A x \in D : G[N + 1][x] = G[N][x]
  <2>1. \A x \in D : mu[x] <= N
    OBVIOUS
  <2> QED BY <1>8, <2>1
<1>10. G[N] \in S /\ G[N + 1] = Turn(G[N])
  BY <1>5
<1>11. G[N] = Turn(G[N])
  <2>1. G[N] \in [D -> R]
    BY <1>10 DEF S
  <2> QED BY <1>9, <1>10, <2>1
<1> QED BY <1>10, <1>11 DEF S, Tailed

(* ... and what holds where it stops, and of x when it holds of what comes *)
(* next, holds everywhere.                                                 *)
Inherited(P, D, stop, nxt) ==
  (\A x \in stop : x \in P) /\ (\A x \in D \ stop : nxt[x] \in P => x \in P)

LEMMA TailInduction ==
  ASSUME NEW D, NEW stop \in SUBSET D, NEW nxt \in [D -> D], NEW mu \in [D -> Nat],
         \A x \in D : x \notin stop => mu[nxt[x]] < mu[x],
         NEW P, Inherited(P, D, stop, nxt)
  PROVE  D \subseteq P
<1> USE DEF Inherited
<1> DEFINE T == {mu[x] : x \in D \ P}
<1>1. SUFFICES ASSUME NEW z \in D \ P PROVE FALSE
  OBVIOUS
<1>2. T \in SUBSET Nat /\ T # {}
  BY <1>1
<1>3. PICK u \in T : \A v \in T : u <= v
  <2> HIDE DEF T
  <2> QED BY <1>2, Least
<1>4. PICK x \in D \ P : u = mu[x]
  OBVIOUS
<1>5. x \notin stop
  BY <1>4
<1>6. nxt[x] \in D \ P /\ mu[nxt[x]] < mu[x] /\ mu[x] \in Nat /\ mu[nxt[x]] \in Nat
  BY <1>4, <1>5
<1>7. mu[x] <= mu[nxt[x]]
  BY <1>3, <1>4, <1>6
<1> QED BY <1>6, <1>7

-----------------------------------------------------------------------------
(* The binary searches. *)

Halves(L) == (0 .. L) \X (-1 .. L)

(* The middle of a range of positions; halving ends. *)
Mid(x) == x[1] + (x[2] - x[1]) \div 2

InsertFn(s, lev, f) ==
  s = [r \in (0 .. Len(lev)) \X (0 .. Len(lev)) |->
        IF r[1] >= r[2] THEN r[1]
        ELSE IF FileBefore(lev[Mid(r) + 1], f) THEN s[<<Mid(r) + 1, r[2]>>]
        ELSE s[<<r[1], Mid(r)>>]]

LEMMA InsertPosIs ==
  ASSUME NEW lev, NEW f
  PROVE  InsertPos(lev, f) =
           IF lev = <<>> \/ ~FileBefore(lev[1], f) THEN 0
           ELSE IF ~FileBefore(f, lev[Len(lev)]) THEN Len(lev)
           ELSE (CHOOSE s : InsertFn(s, lev, f))[<<0, Len(lev) - 1>>]
BY DEF InsertPos, InsertFn, Mid

Halved(x, y) == y \in {<<Mid(x) + 1, x[2]>>, <<x[1], Mid(x)>>, <<x[1], Mid(x) - 1>>}
Width(x) == IF x[1] >= x[2] THEN 0 ELSE x[2] - x[1]

LEMMA MidIn ==
  ASSUME NEW L \in Nat, NEW low \in 0 .. L, NEW high \in -1 .. L, low < high
  PROVE  low + (high - low) \div 2 \in low .. high - 1
<1> DEFINE d == high - low
<1>1. d \in Nat \ {0}
  OBVIOUS
<1>2. d \div 2 \in 0 .. d - 1
  <2> HIDE DEF d
  <2> QED BY <1>1
<1>3. low + d \div 2 \in low .. high - 1
  <2> DEFINE e == d \div 2
  <2>1. e \in 0 .. (high - low) - 1
    BY <1>2
  <2> HIDE DEF e
  <2> QED BY <2>1
<1> QED BY <1>3

LEMMA HalvedSmaller ==
  ASSUME NEW L \in Nat, NEW x \in Halves(L), NEW y \in Halves(L), x[1] < x[2], Halved(x, y)
  PROVE  Width(y) < Width(x) /\ Width(x) \in 0 .. L
<1> DEFINE m == Mid(x)
<1>1. x[1] \in 0 .. L /\ x[2] \in -1 .. L
  BY DEF Halves
<1>2. m \in x[1] .. x[2] - 1
  BY <1>1, MidIn DEF Mid
<1>3. y = <<m + 1, x[2]>> \/ y = <<x[1], m>> \/ y = <<x[1], m - 1>>
  BY DEF Halved
<1> HIDE DEF m
<1> QED BY <1>1, <1>2, <1>3 DEF Width

LEMMA WidthIn == ASSUME NEW L \in Nat, NEW x \in Halves(L) PROVE Width(x) \in 0 .. L
BY DEF Halves, Width

LEMMA BisectExists ==
  ASSUME NEW L \in Nat, NEW D \in SUBSET Halves(L), NEW R, NEW stop \in SUBSET D,
         NEW nxt \in [D -> D], NEW out \in [D -> R],
         \A x \in D \ stop : x[1] < x[2] /\ Halved(x, nxt[x])
  PROVE  \E s : Tailed(s, D, R, stop, nxt, out)
<1> DEFINE mu == [x \in D |-> Width(x)]
<1>1. mu \in [D -> 0 .. L]
  BY WidthIn
<1>2. ASSUME NEW x \in D, x \notin stop PROVE mu[nxt[x]] < mu[x]
  <2>1. nxt[x] \in D
    OBVIOUS
  <2>2. Width(nxt[x]) < Width(x)
    BY <1>2, <2>1, HalvedSmaller
  <2> QED BY <2>1, <2>2
<1> HIDE DEF mu
<1> QED BY <1>1, <1>2, TailExists

LEMMA BisectInduction ==
  ASSUME NEW L \in Nat, NEW D \in SUBSET Halves(L), NEW stop \in SUBSET D,
         NEW nxt \in [D -> D],
         \A x \in D \ stop : x[1] < x[2] /\ Halved(x, nxt[x]),
         NEW P, Inherited(P, D, stop, nxt)
  PROVE  D \subseteq P
<1> DEFINE mu == [x \in D |-> Width(x)]
<1>1. mu \in [D -> Nat]
  <2>1. \A x \in D : Width(x) \in 0 .. L
    BY WidthIn
  <2> QED BY <2>1
<1>2. ASSUME NEW x \in D, x \notin stop PROVE mu[nxt[x]] < mu[x]
  <2>1. nxt[x] \in D
    OBVIOUS
  <2>2. Width(nxt[x]) < Width(x)
    BY <1>2, <2>1, HalvedSmaller
  <2> QED BY <2>1, <2>2
<1> HIDE DEF mu
<1> QED BY <1>1, <1>2, TailInduction

(* bit_level_search_file. *)
InsertNext(x, lev, f) ==
  IF FileBefore(lev[Mid(x) + 1], f) THEN <<Mid(x) + 1, x[2]>> ELSE <<x[1], Mid(x)>>

LEMMA InsertFnExists ==
  ASSUME NEW lev, NEW f, Len(lev) \in Nat
  PROVE  \E s : InsertFn(s, lev, f)
<1> DEFINE L == Len(lev)
           D == (0 .. L) \X (0 .. L)
           stop == {x \in D : x[1] >= x[2]}
           nxt == [x \in D |-> IF x \in stop THEN x ELSE InsertNext(x, lev, f)]
           out == [x \in D |-> x[1]]
<1>1. L \in Nat /\ D \in SUBSET Halves(L) /\ stop \in SUBSET D /\ out \in [D -> 0 .. L]
  BY DEF Halves
<1>2. ASSUME NEW x \in D \ stop
      PROVE  x[1] < x[2] /\ Halved(x, InsertNext(x, lev, f)) /\ InsertNext(x, lev, f) \in D
  <2>1. x[1] \in 0 .. L /\ x[2] \in 0 .. L /\ x[1] < x[2] /\ x[2] \in -1 .. L
    BY <1>1, <1>2
  <2>2. Mid(x) \in x[1] .. x[2] - 1
    BY <2>1, <1>1, MidIn DEF Mid
  <2>3. Mid(x) \in 0 .. L /\ Mid(x) + 1 \in 0 .. L
    BY <2>1, <2>2
  <2> QED BY <2>1, <2>3 DEF Halved, InsertNext
<1>3. nxt \in [D -> D] /\ \A x \in D \ stop : nxt[x] = InsertNext(x, lev, f)
  <2>1. \A x \in D : (IF x \in stop THEN x ELSE InsertNext(x, lev, f)) \in D
    BY <1>2
  <2> HIDE DEF D, stop
  <2> QED BY <2>1, <1>1
<1>4. \E s : Tailed(s, D, 0 .. L, stop, nxt, out)
  <2> HIDE DEF D, L, stop, nxt, out
  <2> QED BY <1>1, <1>2, <1>3, BisectExists
<1>5. PICK s : Tailed(s, D, 0 .. L, stop, nxt, out)
  BY <1>4
<1>6. ASSUME NEW x \in D
      PROVE  s[x] = IF x[1] >= x[2] THEN x[1]
                    ELSE IF FileBefore(lev[Mid(x) + 1], f) THEN s[<<Mid(x) + 1, x[2]>>]
                    ELSE s[<<x[1], Mid(x)>>]
  <2>1. s[x] = IF x \in stop THEN out[x] ELSE s[nxt[x]]
    BY <1>5 DEF Tailed
  <2>2. x \in stop <=> x[1] >= x[2]
    OBVIOUS
  <2>3. out[x] = x[1]
    OBVIOUS
  <2>4. x \notin stop => nxt[x] = InsertNext(x, lev, f)
    BY <1>3
  <2> HIDE DEF D, stop, nxt, out
  <2> QED BY <2>1, <2>2, <2>3, <2>4 DEF InsertNext
<1>7. s \in [D -> 0 .. L]
  BY <1>5 DEF Tailed
<1>8. InsertFn(s, lev, f)
  BY <1>6, <1>7 DEF InsertFn
<1> QED BY <1>8

(* Whatever lies before position p of the range comes before f, the file at*)
(* p does not.                                                             *)
Placed(p, x, lev, f) ==
  /\ p \in x[1] .. x[2]
  /\ \A i \in x[1] + 1 .. p : FileBefore(lev[i], f)
  /\ p < x[2] => ~FileBefore(lev[p + 1], f)

LEMMA InsertFnResult ==
  ASSUME NEW lev, NEW f, Len(lev) \in Nat, NEW s, InsertFn(s, lev, f),
         \A i, j \in 1 .. Len(lev) : i < j /\ FileBefore(lev[j], f) => FileBefore(lev[i], f),
         NEW low \in 0 .. Len(lev), NEW high \in 0 .. Len(lev), low <= high
  PROVE  Placed(s[<<low, high>>], <<low, high>>, lev, f)
<1> DEFINE L == Len(lev)
           D == (0 .. L) \X (0 .. L)
           stop == {x \in D : x[1] >= x[2]}
           nxt == [x \in D |-> IF x \in stop THEN x ELSE InsertNext(x, lev, f)]
           P == {x \in D : x[1] <= x[2] => Placed(s[x], x, lev, f)}
<1>1. L \in Nat /\ D \in SUBSET Halves(L) /\ stop \in SUBSET D
  BY DEF Halves
<1>2. ASSUME NEW x \in D \ stop
      PROVE  /\ x[1] < x[2] /\ Halved(x, InsertNext(x, lev, f)) /\ InsertNext(x, lev, f) \in D
             /\ x[1] \in 0 .. L /\ x[2] \in 0 .. L /\ Mid(x) \in x[1] .. x[2] - 1
  <2>1. x[1] \in 0 .. L /\ x[2] \in 0 .. L /\ x[1] < x[2] /\ x[2] \in -1 .. L
    BY <1>1, <1>2
  <2>2. Mid(x) \in x[1] .. x[2] - 1
    BY <2>1, <1>1, MidIn DEF Mid
  <2>3. Mid(x) \in 0 .. L /\ Mid(x) + 1 \in 0 .. L
    BY <2>1, <2>2
  <2> QED BY <2>1, <2>2, <2>3 DEF Halved, InsertNext
<1>3. nxt \in [D -> D] /\ \A x \in D \ stop : nxt[x] = InsertNext(x, lev, f)
  <2>1. \A x \in D : (IF x \in stop THEN x ELSE InsertNext(x, lev, f)) \in D
    BY <1>2
  <2> HIDE DEF D, stop
  <2> QED BY <2>1, <1>1
<1>4. ASSUME NEW x \in D
      PROVE  s[x] = IF x[1] >= x[2] THEN x[1]
                    ELSE IF FileBefore(lev[Mid(x) + 1], f) THEN s[<<Mid(x) + 1, x[2]>>]
                    ELSE s[<<x[1], Mid(x)>>]
  BY DEF InsertFn
<1>5. ASSUME NEW x \in stop PROVE x \in P
  <2>1. x \in D /\ x[1] \in 0 .. L /\ x[2] \in 0 .. L /\ x[1] >= x[2]
    BY <1>5
  <2>2. s[x] = x[1]
    BY <1>4, <2>1
  <2> QED BY <2>1, <2>2 DEF Placed
<1>6. ASSUME NEW x \in D \ stop, nxt[x] \in P PROVE x \in P
  <2> DEFINE m == Mid(x)
  <2>1. x[1] \in 0 .. L /\ x[2] \in 0 .. L /\ m \in x[1] .. x[2] - 1 /\ nxt[x] = InsertNext(x, lev, f)
    BY <1>2, <1>3
  <2>2. CASE FileBefore(lev[m + 1], f)
    <3>1. nxt[x] = <<m + 1, x[2]>>
      BY <2>1, <2>2 DEF InsertNext
    <3> DEFINE p == s[<<m + 1, x[2]>>]
    <3>2. s[x] = p
      BY <1>4, <2>1, <2>2
    <3>3. Placed(p, <<m + 1, x[2]>>, lev, f)
      BY <1>6, <3>1, <2>1
    <3> HIDE DEF p, m
    <3>4. p \in m + 1 .. x[2] /\ (\A i \in (m + 1) + 1 .. p : FileBefore(lev[i], f))
          /\ (p < x[2] => ~FileBefore(lev[p + 1], f))
      BY <3>3 DEF Placed
    <3>5. \A i \in x[1] + 1 .. m : FileBefore(lev[i], f)
      <4>1. \A i \in x[1] + 1 .. m : i \in 1 .. L /\ m + 1 \in 1 .. L /\ i < m + 1
        BY <2>1
      <4> QED BY <4>1, <2>2
    <3>6. \A i \in x[1] + 1 .. p : i \in x[1] + 1 .. m \/ i = m + 1 \/ i \in (m + 1) + 1 .. p
      BY <2>1, <3>4
    <3>7. Placed(p, x, lev, f)
      BY <2>1, <2>2, <3>4, <3>5, <3>6 DEF Placed
    <3> QED BY <3>2, <3>7
  <2>3. CASE ~FileBefore(lev[m + 1], f)
    <3>1. nxt[x] = <<x[1], m>>
      BY <2>1, <2>3 DEF InsertNext
    <3> DEFINE p == s[<<x[1], m>>]
    <3>2. s[x] = p
      BY <1>4, <2>1, <2>3
    <3>3. Placed(p, <<x[1], m>>, lev, f)
      BY <1>6, <3>1, <2>1
    <3> HIDE DEF p, m
    <3>4. p \in x[1] .. m /\ (\A i \in x[1] + 1 .. p : FileBefore(lev[i], f))
          /\ (p < m => ~FileBefore(lev[p + 1], f))
      BY <3>3 DEF Placed
    <3>5. p = m \/ p < m
      BY <2>1, <3>4
    <3>6. p \in x[1] .. x[2]
      BY <2>1, <3>4
    <3>7. Placed(p, x, lev, f)
      BY <2>3, <3>4, <3>5, <3>6 DEF Placed
    <3> QED BY <3>2, <3>7
  <2> QED BY <2>2, <2>3
<1>7. D \subseteq P
  <2>1. Inherited(P, D, stop, nxt)
    BY <1>5, <1>6 DEF Inherited
  <2>2. \A x \in D \ stop : x[1] < x[2] /\ Halved(x, nxt[x])
    BY <1>2, <1>3
  <2> HIDE DEF P, D, stop, nxt, L
  <2> QED BY <1>1, <1>3, <2>1, <2>2, BisectInduction
<1>8. <<low, high>> \in P
  BY <1>7
<1> QED BY <1>8

Sorted(lev) == \A i, j \in DOMAIN lev : i < j => ~FileBefore(lev[j], lev[i])
Keyed(F) == \A f \in F : FirstKey(f) \in Int /\ LastKey(f) \in Int

(* The place of a new file in a sorted level. *)
LEMMA InsertPlace ==
  ASSUME NEW S, NEW lev \in Seq(S), NEW f, Keyed(S \cup {f}), Sorted(lev)
  PROVE  /\ InsertPos(lev, f) \in 0 .. Len(lev)
         /\ \A i \in 1 .. InsertPos(lev, f) : ~FileBefore(f, lev[i])
         /\ \A i \in InsertPos(lev, f) + 1 .. Len(lev) : ~FileBefore(lev[i], f)
<1> DEFINE L == Len(lev)
           p == InsertPos(lev, f)
<1>1. L \in Nat /\ \A i \in 1 .. L : lev[i] \in S
  OBVIOUS
<1>2. \A i, j \in 1 .. L : i < j => ~FileBefore(lev[j], lev[i])
  BY <1>1 DEF Sorted
<1>3. \A i, j \in 1 .. L : Keyed({lev[i], lev[j], f}) /\ Keyed({lev[j], lev[i], f}) /\ Keyed({lev[j], f, lev[i]})
  BY <1>1 DEF Keyed
<1>4. ASSUME NEW i \in 1 .. L, NEW j \in 1 .. L, i < j, FileBefore(lev[j], f) PROVE FileBefore(lev[i], f)
  <2>1. ~FileBefore(lev[j], lev[i])
    BY <1>2, <1>4
  <2>2. Keyed({lev[j], f, lev[i]})
    BY <1>3
  <2>3. FileBefore(lev[j], f)
    BY <1>4
  <2>4. /\ FirstKey(lev[j]) \in Int /\ FirstKey(f) \in Int /\ FirstKey(lev[i]) \in Int
        /\ LastKey(lev[j]) \in Int /\ LastKey(f) \in Int /\ LastKey(lev[i]) \in Int
    BY <2>2 DEF Keyed
  <2> QED BY <2>1, <2>3, <2>4 DEF FileBefore
<1>5. CASE lev = <<>> \/ ~FileBefore(lev[1], f)
  <2>1. p = 0
    BY <1>5, InsertPosIs
  <2>2. ASSUME NEW i \in 1 .. L PROVE ~FileBefore(lev[i], f)
    <3>1. 1 \in 1 .. L /\ lev # <<>> /\ (i = 1 \/ 1 < i)
      BY <2>2, <1>1
    <3> QED BY <1>4, <1>5, <3>1
  <2> QED BY <1>1, <2>1, <2>2
<1>6. CASE ~(lev = <<>> \/ ~FileBefore(lev[1], f)) /\ ~FileBefore(f, lev[L])
  <2>1. p = L
    BY <1>6, InsertPosIs
  <2>2. ASSUME NEW i \in 1 .. L PROVE ~FileBefore(f, lev[i])
    <3>1. L \in 1 .. L /\ (i = L \/ i < L)
      BY <2>2, <1>1
    <3>2. i < L => ~FileBefore(lev[L], lev[i])
      BY <1>2, <3>1
    <3>3. Keyed({lev[i], lev[L], f})
      BY <1>3, <3>1
    <3> QED BY <1>6, <3>1, <3>2, <3>3 DEF Keyed, FileBefore
  <2> QED BY <1>1, <2>1, <2>2
<1>7. CASE ~(lev = <<>> \/ ~FileBefore(lev[1], f)) /\ FileBefore(f, lev[L])
  <2> DEFINE s == CHOOSE s : InsertFn(s, lev, f)
  <2>1. InsertFn(s, lev, f)
    BY <1>1, InsertFnExists
  <2>2. p = s[<<0, L - 1>>]
    BY <1>7, InsertPosIs
  <2>3. L # 0 /\ 0 \in 0 .. L /\ L - 1 \in 0 .. L /\ 0 <= L - 1
    BY <1>1, <1>7
  <2>4. Placed(p, <<0, L - 1>>, lev, f)
    <3> HIDE DEF s, p
    <3>1. Placed(s[<<0, L - 1>>], <<0, L - 1>>, lev, f)
      BY <1>1, <1>4, <2>1, <2>3, InsertFnResult
    <3> QED BY <2>2, <3>1
  <2> HIDE DEF p, s
  <2>5. p \in 0 .. L - 1 /\ (\A i \in 0 + 1 .. p : FileBefore(lev[i], f))
        /\ (p < L - 1 => ~FileBefore(lev[p + 1], f))
    BY <2>4 DEF Placed
  <2>6. p \in 0 .. L
    BY <2>5, <1>1
  <2>7. ASSUME NEW i \in 1 .. p PROVE ~FileBefore(f, lev[i])
    <3>1. i \in 1 .. L /\ FileBefore(lev[i], f)
      BY <1>1, <2>5
    <3>2. Keyed({lev[i], lev[i], f})
      BY <3>1, <1>3
    <3> QED BY <3>1, <3>2 DEF Keyed, FileBefore
  <2>8. ASSUME NEW i \in p + 1 .. L PROVE ~FileBefore(lev[i], f)
    <3>1. CASE p < L - 1
      <4>1. p + 1 \in 1 .. L /\ i \in 1 .. L /\ (i = p + 1 \/ p + 1 < i)
        BY <2>5, <3>1, <1>1
      <4> QED BY <4>1, <2>5, <3>1, <1>4
    <3>2. CASE p = L - 1
      <4>1. i = L /\ i \in 1 .. L
        BY <2>5, <3>2, <1>1
      <4> QED BY <4>1, <1>3, <1>7 DEF Keyed, FileBefore
    <3> QED BY <3>1, <3>2, <2>5, <1>1
  <2> QED BY <2>6, <2>7, <2>8 DEF p
<1> QED BY <1>5, <1>6, <1>7

-----------------------------------------------------------------------------
(* The arrays of files. *)

Distinct(s) == \A i, j \in DOMAIN s : s[i] = s[j] => i = j

LEMMA RangeIs ==
  ASSUME NEW S, NEW s \in Seq(S)
  PROVE  /\ Range(s) = {s[i] : i \in 1 .. Len(s)} /\ Range(s) \subseteq S
         /\ IsFiniteSet(Range(s)) /\ Cardinality(Range(s)) <= Len(s)
         /\ Distinct(s) => Cardinality(Range(s)) = Len(s)
<1>1. Range(s) = {s[i] : i \in 1 .. Len(s)} /\ Len(s) \in Nat /\ DOMAIN s = 1 .. Len(s) /\ Range(s) \subseteq S
  BY DEF Range
<1>2. s \in Surjection(1 .. Len(s), Range(s))
  <2>1. s \in [1 .. Len(s) -> Range(s)]
    BY <1>1
  <2> QED BY <2>1, <1>1 DEF Surjection
<1>3. IsFiniteSet(1 .. Len(s)) /\ Cardinality(1 .. Len(s)) = Len(s)
  BY <1>1, FS_Interval
<1>4. /\ IsFiniteSet(Range(s)) /\ Cardinality(Range(s)) <= Cardinality(1 .. Len(s))
      /\ Cardinality(Range(s)) = Cardinality(1 .. Len(s)) <=> s \in Injection(1 .. Len(s), Range(s))
  BY <1>2, <1>3, FS_Surjection
<1>5. ASSUME Distinct(s) PROVE s \in Injection(1 .. Len(s), Range(s))
  BY <1>1, <1>2, <1>5 DEF Distinct, Injection, Surjection, IsInjective
<1> QED BY <1>1, <1>3, <1>4, <1>5

Inserted(t, s, p, e, S) ==
  /\ t \in Seq(S) /\ Len(t) = Len(s) + 1
  /\ \A i \in 1 .. p : t[i] = s[i]
  /\ t[p + 1] = e
  /\ \A i \in p + 2 .. Len(s) + 1 : t[i] = s[i - 1]

LEMMA InsertAtIs ==
  ASSUME NEW S, NEW s \in Seq(S), NEW p \in 0 .. Len(s), NEW e \in S
  PROVE  Inserted(InsertAt(s, p + 1, e), s, p, e, S)
<1> DEFINE a == SubSeq(s, 1, p)
           b == SubSeq(s, p + 1, Len(s))
<1>1. (p + 1) - 1 = p /\ Len(s) \in Nat
  OBVIOUS
<1>2. InsertAt(s, p + 1, e) = (a \o <<e>>) \o b
  BY <1>1 DEF InsertAt
<1>3. a \in Seq(S) /\ Len(a) = p /\ \A i \in 1 .. p : a[i] = s[i]
  BY <1>1
<1>4. b \in Seq(S) /\ Len(b) = Len(s) - p /\ \A i \in 1 .. Len(s) - p : b[i] = s[p + i]
  BY <1>1
<1> HIDE DEF a, b
<1> DEFINE c == a \o <<e>>
<1>5. c \in Seq(S) /\ Len(c) = p + 1 /\ c[p + 1] = e /\ \A i \in 1 .. p : c[i] = s[i]
  BY <1>1, <1>3
<1> HIDE DEF c
<1> DEFINE t == c \o b
<1>6. t \in Seq(S) /\ Len(t) = Len(s) + 1
  <2>1. t \in Seq(S) /\ Len(t) = Len(c) + Len(b)
    BY ONLY <1>4, <1>5, ConcatProperties
  <2> HIDE DEF t
  <2> QED BY <2>1, <1>1, <1>4, <1>5
<1>7. \A i \in 1 .. p + 1 : t[i] = c[i]
  BY <1>1, <1>4, <1>5, ConcatProperties
<1>8. ASSUME NEW i \in p + 2 .. Len(s) + 1 PROVE t[i] = s[i - 1]
  <2>1. i \in Int /\ i > Len(c) /\ i <= Len(c) + Len(b) /\ i - Len(c) \in 1 .. Len(s) - p /\ p + (i - Len(c)) = i - 1
    BY <1>1, <1>4, <1>5
  <2>2. t[i] = b[i - Len(c)]
    BY <1>4, <1>5, <2>1, ConcatProperties
  <2> QED BY <2>1, <2>2, <1>4
<1>9. InsertAt(s, p + 1, e) = t
  BY <1>2 DEF c
<1> HIDE DEF t
<1> QED BY <1>1, <1>5, <1>6, <1>7, <1>8, <1>9 DEF Inserted

LEMMA RemoveAtIs ==
  ASSUME NEW S, NEW s \in Seq(S), NEW p \in 1 .. Len(s)
  PROVE  LET t == RemoveAt(s, p)
         IN /\ t \in Seq(S) /\ Len(t) = Len(s) - 1
            /\ \A i \in 1 .. p - 1 : t[i] = s[i]
            /\ \A i \in p .. Len(s) - 1 : t[i] = s[i + 1]
<1> DEFINE a == SubSeq(s, 1, p - 1)
           b == SubSeq(s, p + 1, Len(s))
<1>1. Len(s) \in Nat /\ p \in Nat
  OBVIOUS
<1>2. RemoveAt(s, p) = a \o b
  BY DEF RemoveAt
<1>3. a \in Seq(S) /\ Len(a) = p - 1 /\ \A i \in 1 .. p - 1 : a[i] = s[i]
  BY <1>1
<1>4. b \in Seq(S) /\ Len(b) = Len(s) - p /\ \A i \in 1 .. Len(s) - p : b[i] = s[p + i]
  BY <1>1
<1> HIDE DEF a, b
<1> DEFINE t == a \o b
<1>6. t \in Seq(S) /\ Len(t) = Len(s) - 1
  <2>1. t \in Seq(S) /\ Len(t) = Len(a) + Len(b)
    BY ONLY <1>3, <1>4, ConcatProperties
  <2> HIDE DEF t
  <2> QED BY <2>1, <1>1, <1>3, <1>4
<1>7. \A i \in 1 .. p - 1 : t[i] = a[i]
  BY <1>1, <1>3, <1>4, ConcatProperties
<1>8. ASSUME NEW i \in p .. Len(s) - 1 PROVE t[i] = s[i + 1]
  <2>1. i \in Int /\ i > Len(a) /\ i <= Len(a) + Len(b) /\ i - Len(a) \in 1 .. Len(s) - p /\ p + (i - Len(a)) = i + 1
    BY <1>1, <1>3, <1>4
  <2>2. t[i] = b[i - Len(a)]
    BY <1>3, <1>4, <2>1, ConcatProperties
  <2> QED BY <2>1, <2>2, <1>4
<1>9. RemoveAt(s, p) = t
  BY <1>2
<1> HIDE DEF t
<1> QED BY <1>3, <1>6, <1>7, <1>8, <1>9

(* bit_level_add_file, with room, keeps a level sorted; ... *)
LEMMA AddFileIs ==
  ASSUME NEW S, NEW lev \in Seq(S), NEW f \in S, Keyed(S), Sorted(lev), NEW max \in Int, Len(lev) < max
  PROVE  LET t == AddFile(lev, f, max)
         IN /\ t \in Seq(S) /\ Len(t) = Len(lev) + 1
            /\ Range(t) = Range(lev) \cup {f}
            /\ Sorted(t)
            /\ Distinct(lev) /\ f \notin Range(lev) => Distinct(t)
<1> DEFINE L == Len(lev)
           p == InsertPos(lev, f)
           t == AddFile(lev, f, max)
<1>1. L \in Nat /\ DOMAIN lev = 1 .. L /\ \A i \in 1 .. L : lev[i] \in S
  OBVIOUS
<1>2. /\ p \in 0 .. L
      /\ \A i \in 1 .. p : ~FileBefore(f, lev[i])
      /\ \A i \in p + 1 .. L : ~FileBefore(lev[i], f)
  <2>1. Keyed(S \cup {f})
    BY DEF Keyed
  <2> QED BY <2>1, InsertPlace
<1>3. t = InsertAt(lev, p + 1, f)
  BY <1>1 DEF AddFile
<1> HIDE DEF p, t
<1>4. /\ t \in Seq(S) /\ Len(t) = L + 1
      /\ \A i \in 1 .. p : t[i] = lev[i]
      /\ t[p + 1] = f
      /\ \A i \in p + 2 .. L + 1 : t[i] = lev[i - 1]
  <2>1. p \in 0 .. Len(lev)
    BY <1>2
  <2>2. Inserted(t, lev, p, f, S)
    BY <2>1, <1>3, InsertAtIs
  <2> QED BY <2>2 DEF Inserted
<1>5. DOMAIN t = 1 .. L + 1
  BY <1>4
<1> DEFINE From(i) == IF i <= p THEN i ELSE i - 1
<1>6. ASSUME NEW i \in 1 .. L + 1, i # p + 1
      PROVE  From(i) \in 1 .. L /\ t[i] = lev[From(i)]
  <2>1. CASE i <= p
    BY <1>1, <1>2, <1>4, <1>6, <2>1
  <2>2. CASE i > p
    BY <1>1, <1>2, <1>4, <1>6, <2>2
  <2> QED BY <1>2, <2>1, <2>2
<1>7. Range(t) = Range(lev) \cup {f}
  <2>1. ASSUME NEW i \in 1 .. L + 1 PROVE t[i] \in Range(lev) \cup {f}
    BY <1>4, <1>6, <1>1 DEF Range
  <2>2. ASSUME NEW i \in 1 .. L PROVE lev[i] \in Range(t)
    <3>1. CASE i <= p
      <4>1. t[i] = lev[i] /\ i \in 1 .. L + 1
        BY <1>4, <1>1, <3>1
      <4> QED BY <4>1, <1>5 DEF Range
    <3>2. CASE i > p
      <4>1. i + 1 \in p + 2 .. L + 1 /\ (i + 1) - 1 = i /\ i + 1 \in 1 .. L + 1
        BY <1>2, <1>1, <3>2
      <4>2. t[i + 1] = lev[i]
        BY <4>1, <1>4
      <4> QED BY <4>1, <4>2, <1>5 DEF Range
    <3> QED BY <3>1, <3>2, <1>2
  <2>3. p + 1 \in 1 .. L + 1
    BY <1>1, <1>2
  <2>4. f \in Range(t)
    BY <1>4, <1>5, <2>3 DEF Range
  <2>5. Range(t) \subseteq Range(lev) \cup {f}
    BY <2>1, <1>5 DEF Range
  <2>6. Range(lev) \subseteq Range(t)
    BY <2>2, <1>1 DEF Range
  <2> QED BY <2>4, <2>5, <2>6
<1>8. Sorted(t)
  <2>1. SUFFICES ASSUME NEW i \in 1 .. L + 1, NEW j \in 1 .. L + 1, i < j PROVE ~FileBefore(t[j], t[i])
    BY <1>5 DEF Sorted
  <2>2. CASE i = p + 1
    <3>1. j \in p + 2 .. L + 1 /\ j - 1 \in p + 1 .. L
      BY <2>1, <2>2, <1>2
    <3> QED BY <3>1, <2>2, <1>2, <1>4
  <2>3. CASE j = p + 1
    <3>1. i \in 1 .. p
      BY <2>1, <2>3, <1>2
    <3> QED BY <3>1, <2>3, <1>2, <1>4
  <2>4. CASE i # p + 1 /\ j # p + 1
    <3>1. From(i) < From(j)
      BY <2>1, <2>4, <1>2
    <3>2. From(i) \in 1 .. L /\ From(j) \in 1 .. L /\ t[i] = lev[From(i)] /\ t[j] = lev[From(j)]
      BY <2>4, <1>6
    <3> HIDE DEF From
    <3> QED BY <3>1, <3>2, <1>1 DEF Sorted
  <2> QED BY <2>2, <2>3, <2>4
<1>9. ASSUME Distinct(lev), f \notin Range(lev) PROVE Distinct(t)
  <2>1. SUFFICES ASSUME NEW i \in 1 .. L + 1, NEW j \in 1 .. L + 1, i < j PROVE t[j] # t[i]
    <3>1. \A i, j \in 1 .. L + 1 : i = j \/ i < j \/ j < i
      BY <1>1
    <3> QED BY <2>1, <3>1, <1>5 DEF Distinct
  <2>2. \A k \in 1 .. L : lev[k] # f
    BY <1>9, <1>1 DEF Range
  <2>3. CASE i = p + 1 \/ j = p + 1
    BY <2>1, <2>2, <2>3, <1>4, <1>6
  <2>4. CASE i # p + 1 /\ j # p + 1
    <3>1. From(i) < From(j)
      BY <2>1, <2>4, <1>2
    <3>2. From(i) \in 1 .. L /\ From(j) \in 1 .. L /\ t[i] = lev[From(i)] /\ t[j] = lev[From(j)]
      BY <2>4, <1>6
    <3>3. From(i) # From(j)
      BY <3>1, <3>2
    <3> HIDE DEF From
    <3> QED BY <3>2, <3>3, <1>1, <1>9 DEF Distinct
  <2> QED BY <2>3, <2>4
<1> QED BY <1>4, <1>7, <1>8, <1>9 DEF t

(* ... so does bit_level_remove_file. *)
LEMMA RemoveFileIs ==
  ASSUME NEW S, NEW lev \in Seq(S), NEW f \in Range(lev), Distinct(lev)
  PROVE  LET t == RemoveFile(lev, f)
         IN /\ t \in Seq(S) /\ Len(t) = Len(lev) - 1
            /\ Range(t) = Range(lev) \ {f}
            /\ Distinct(t)
            /\ Sorted(lev) => Sorted(t)
<1> DEFINE L == Len(lev)
           p == CHOOSE i \in DOMAIN lev : lev[i] = f
           t == RemoveFile(lev, f)
<1>1. L \in Nat /\ DOMAIN lev = 1 .. L
  OBVIOUS
<1>2. p \in 1 .. L /\ lev[p] = f
  BY <1>1 DEF Range
<1>3. t = RemoveAt(lev, p)
  BY DEF RemoveFile
<1> HIDE DEF p, t
<1>4. /\ t \in Seq(S) /\ Len(t) = L - 1
      /\ \A i \in 1 .. p - 1 : t[i] = lev[i]
      /\ \A i \in p .. L - 1 : t[i] = lev[i + 1]
  BY <1>2, <1>3, RemoveAtIs
<1>5. DOMAIN t = 1 .. L - 1
  BY <1>4
<1> DEFINE From(i) == IF i < p THEN i ELSE i + 1
<1>6. ASSUME NEW i \in 1 .. L - 1
      PROVE  From(i) \in 1 .. L /\ From(i) # p /\ t[i] = lev[From(i)]
  <2>1. CASE i < p
    BY <1>1, <1>2, <1>4, <2>1
  <2>2. CASE ~(i < p)
    BY <1>1, <1>2, <1>4, <2>2
  <2> QED BY <2>1, <2>2
<1>7. \A i, j \in 1 .. L - 1 : i < j => From(i) < From(j)
  BY <1>1, <1>2
<1>8. ASSUME NEW k \in 1 .. L, k # p PROVE \E i \in 1 .. L - 1 : From(i) = k
  <2>1. CASE k < p
    BY <1>1, <1>2, <2>1
  <2>2. CASE k > p
    <3>1. k - 1 \in 1 .. L - 1 /\ From(k - 1) = k
      BY <1>1, <1>2, <2>2
    <3> QED BY <3>1
  <2> QED BY <2>1, <2>2, <1>8, <1>2
<1> HIDE DEF From
<1>9. \A k \in 1 .. L : k # p => lev[k] # f
  BY <1>1, <1>2 DEF Distinct
<1>10. Range(t) = Range(lev) \ {f}
  <2>1. Range(t) \subseteq Range(lev) \ {f}
    BY <1>1, <1>5, <1>6, <1>9 DEF Range
  <2>2. ASSUME NEW k \in 1 .. L, lev[k] # f PROVE lev[k] \in Range(t)
    <3>1. k # p
      BY <2>2, <1>2
    <3>2. PICK i \in 1 .. L - 1 : From(i) = k
      BY <3>1, <1>8
    <3> QED BY <3>2, <1>6, <1>5 DEF Range
  <2> QED BY <2>1, <2>2, <1>1 DEF Range
<1>11. Distinct(t)
  <2>1. SUFFICES ASSUME NEW i \in 1 .. L - 1, NEW j \in 1 .. L - 1, i < j PROVE t[j] # t[i]
    <3>1. \A i, j \in 1 .. L - 1 : i = j \/ i < j \/ j < i
      BY <1>1
    <3> QED BY <2>1, <3>1, <1>5 DEF Distinct
  <2>2. From(i) < From(j) /\ From(i) \in 1 .. L /\ From(j) \in 1 .. L
    BY <1>6, <1>7, <2>1
  <2>3. From(i) # From(j)
    BY <2>2
  <2> QED BY <2>2, <2>3, <1>1, <1>6 DEF Distinct
<1>12. ASSUME Sorted(lev) PROVE Sorted(t)
  <2>1. SUFFICES ASSUME NEW i \in 1 .. L - 1, NEW j \in 1 .. L - 1, i < j PROVE ~FileBefore(t[j], t[i])
    BY <1>5 DEF Sorted
  <2>2. From(i) < From(j) /\ From(i) \in 1 .. L /\ From(j) \in 1 .. L
    BY <1>6, <1>7, <2>1
  <2> QED BY <2>2, <1>1, <1>6, <1>12 DEF Sorted
<1> QED BY <1>4, <1>10, <1>11, <1>12 DEF t

-----------------------------------------------------------------------------
(* The keys of files and the search for the relatives of a demoted file. *)

LEMMA KeysNat ==
  /\ Lbas \subseteq Nat /\ IsFiniteSet(Lbas) /\ Cardinality(Lbas) = NrLba
  /\ NrLba - 1 \in Nat /\ \A k \in Lbas : k <= NrLba - 1
<1>1. NrLba - 1 \in Nat /\ NrLba \in Nat /\ 0 <= NrLba - 1
  BY LsmAssumption
<1>2. IsFiniteSet(0 .. NrLba - 1) /\ Cardinality(0 .. NrLba - 1) = (NrLba - 1) - 0 + 1
  BY <1>1, FS_Interval
<1> QED BY <1>1, <1>2 DEF Lbas

LEMMA KeysInIs ==
  ASSUME NEW es
  PROVE  /\ KeysIn(es) \subseteq Lbas /\ KeysIn(es) \in SUBSET Nat
         /\ IsFiniteSet(KeysIn(es)) /\ Cardinality(KeysIn(es)) \in Nat
<1>1. KeysIn(es) \subseteq Lbas
  BY DEF KeysIn
<1>2. IsFiniteSet(KeysIn(es))
  BY <1>1, KeysNat, FS_Subset
<1> QED BY <1>1, <1>2, KeysNat, FS_CardinalityType

Spans(f) ==
  /\ FirstKey(f) \in Nat /\ LastKey(f) \in Nat
  /\ FirstKey(f) \in Lbas /\ LastKey(f) \in Lbas /\ FirstKey(f) <= LastKey(f)
  /\ FirstKey(f) \in KeysIn(files[f].ents) /\ LastKey(f) \in KeysIn(files[f].ents)
  /\ \A k \in KeysIn(files[f].ents) : FirstKey(f) <= k /\ k <= LastKey(f)

LEMMA SpansIs ==
  ASSUME NEW f, KeysIn(files[f].ents) # {}
  PROVE  Spans(f)
<1> DEFINE K == KeysIn(files[f].ents)
<1>1. K \in SUBSET Nat /\ K \subseteq Lbas /\ NrLba - 1 \in Nat /\ \A y \in K : y <= NrLba - 1
  BY KeysInIs, KeysNat
<1> HIDE DEF K
<1>2. K # {}
  BY DEF K
<1>3. Min(K) \in K /\ \A y \in K : Min(K) <= y
  BY <1>1, <1>2, MinIs
<1>4. Max(K) \in K /\ \A y \in K : y <= Max(K)
  BY <1>1, <1>2, MaxIs
<1>5. FirstKey(f) = Min(K) /\ LastKey(f) = Max(K)
  BY DEF K, FirstKey, LastKey
<1> QED BY <1>1, <1>3, <1>4, <1>5 DEF Spans, K

LEMMA SpansKeyed == ASSUME NEW F, \A f \in F : Spans(f) PROVE Keyed(F)
<1>1. \A f \in F : FirstKey(f) \in Nat /\ LastKey(f) \in Nat
  BY DEF Spans
<1> QED BY <1>1 DEF Keyed

Ordered(lev) == \A i, j \in 1 .. Len(lev) : i < j => LastKey(lev[i]) < FirstKey(lev[j])

LowerFn(s, lev, k) ==
  s = [r \in (0 .. Len(lev)) \X (-1 .. Len(lev)) |->
        IF r[1] >= r[2] THEN r[1]
        ELSE IF CmpKey(k, lev[Mid(r) + 1]) = 0 THEN Mid(r)
        ELSE IF CmpKey(k, lev[Mid(r) + 1]) < 0 THEN s[<<r[1], Mid(r) - 1>>]
        ELSE s[<<Mid(r) + 1, r[2]>>]]

LEMMA LowerBoundIs ==
  ASSUME NEW lev, NEW k
  PROVE  LowerBound(lev, k) =
           IF k < FirstKey(lev[1]) THEN 0
           ELSE IF k > LastKey(lev[Len(lev)]) THEN Len(lev)
           ELSE (CHOOSE s : LowerFn(s, lev, k))[<<0, Len(lev) - 1>>]
BY DEF LowerBound, LowerFn, Mid

LowerNext(x, lev, k) ==
  IF CmpKey(k, lev[Mid(x) + 1]) < 0 THEN <<x[1], Mid(x) - 1>> ELSE <<Mid(x) + 1, x[2]>>

LEMMA LowerHalves ==
  ASSUME NEW lev, NEW k, NEW L \in Nat, NEW x \in Halves(L), x[1] < x[2]
  PROVE  /\ Halved(x, LowerNext(x, lev, k)) /\ LowerNext(x, lev, k) \in Halves(L)
         /\ Mid(x) \in x[1] .. x[2] - 1 /\ x[1] \in 0 .. L /\ x[2] \in -1 .. L
<1>1. x[1] \in 0 .. L /\ x[2] \in -1 .. L
  BY DEF Halves
<1>2. Mid(x) \in x[1] .. x[2] - 1
  BY <1>1, MidIn DEF Mid
<1>3. Mid(x) - 1 \in -1 .. L /\ Mid(x) + 1 \in 0 .. L
  BY <1>1, <1>2
<1> QED BY <1>1, <1>2, <1>3 DEF Halved, LowerNext, Halves

LEMMA LowerFnExists ==
  ASSUME NEW lev, NEW k, Len(lev) \in Nat
  PROVE  \E s : LowerFn(s, lev, k)
<1> DEFINE L == Len(lev)
           D == Halves(L)
           stop == {x \in D : x[1] >= x[2] \/ CmpKey(k, lev[Mid(x) + 1]) = 0}
           nxt == [x \in D |-> IF x \in stop THEN x ELSE LowerNext(x, lev, k)]
           out == [x \in D |-> IF x[1] >= x[2] THEN x[1] ELSE Mid(x)]
<1>1. L \in Nat /\ D \in SUBSET Halves(L) /\ stop \in SUBSET D
  OBVIOUS
<1>2. ASSUME NEW x \in D \ stop
      PROVE  x[1] < x[2] /\ Halved(x, LowerNext(x, lev, k)) /\ LowerNext(x, lev, k) \in D
  <2>1. x[1] \in Int /\ x[2] \in Int /\ ~(x[1] >= x[2])
    BY <1>2 DEF Halves
  <2>2. x[1] < x[2]
    BY <2>1
  <2> QED BY <2>2, <1>1, LowerHalves
<1>3. nxt \in [D -> D] /\ \A x \in D \ stop : nxt[x] = LowerNext(x, lev, k)
  <2>1. \A x \in D : (IF x \in stop THEN x ELSE LowerNext(x, lev, k)) \in D
    BY <1>2
  <2> HIDE DEF D, stop
  <2> QED BY <2>1, <1>1
<1>4. out \in [D -> Int]
  <2>1. \A x \in D : x[1] \in Int /\ x[2] \in Int
    BY DEF Halves
  <2>2. \A x \in D : Mid(x) \in Int
    BY <2>1 DEF Mid
  <2> QED BY <2>1, <2>2
<1>5. \E s : Tailed(s, D, Int, stop, nxt, out)
  <2> HIDE DEF D, L, stop, nxt, out
  <2> QED BY <1>1, <1>2, <1>3, <1>4, BisectExists
<1>6. PICK s : Tailed(s, D, Int, stop, nxt, out)
  BY <1>5
<1>7. ASSUME NEW x \in D
      PROVE  s[x] = IF x[1] >= x[2] THEN x[1]
                    ELSE IF CmpKey(k, lev[Mid(x) + 1]) = 0 THEN Mid(x)
                    ELSE IF CmpKey(k, lev[Mid(x) + 1]) < 0 THEN s[<<x[1], Mid(x) - 1>>]
                    ELSE s[<<Mid(x) + 1, x[2]>>]
  <2>1. s[x] = IF x \in stop THEN out[x] ELSE s[nxt[x]]
    BY <1>6 DEF Tailed
  <2>2. x \in stop <=> x[1] >= x[2] \/ CmpKey(k, lev[Mid(x) + 1]) = 0
    OBVIOUS
  <2>3. out[x] = IF x[1] >= x[2] THEN x[1] ELSE Mid(x)
    OBVIOUS
  <2>4. x \notin stop => nxt[x] = LowerNext(x, lev, k)
    BY <1>3
  <2> HIDE DEF D, stop, nxt, out
  <2> QED BY <2>1, <2>2, <2>3, <2>4 DEF LowerNext
<1>8. s \in [D -> Int]
  BY <1>6 DEF Tailed
<1>9. LowerFn(s, lev, k)
  BY <1>7, <1>8 DEF LowerFn, Halves
<1> QED BY <1>9

Below(p, x, lev, k) ==
  p \in x[1] .. Len(lev) /\ \A i \in x[1] + 1 .. p : LastKey(lev[i]) < k

LEMMA LowerFnResult ==
  ASSUME NEW lev, NEW k \in Int, Len(lev) \in Nat, NEW s, LowerFn(s, lev, k), Ordered(lev),
         \A i \in 1 .. Len(lev) : Spans(lev[i]),
         NEW x \in Halves(Len(lev))
  PROVE  Below(s[x], x, lev, k)
<1> DEFINE L == Len(lev)
           D == Halves(L)
           stop == {y \in D : y[1] >= y[2] \/ CmpKey(k, lev[Mid(y) + 1]) = 0}
           nxt == [y \in D |-> IF y \in stop THEN y ELSE LowerNext(y, lev, k)]
           P == {y \in D : Below(s[y], y, lev, k)}
<1>1. L \in Nat /\ D \in SUBSET Halves(L) /\ stop \in SUBSET D
  OBVIOUS
<1>2. ASSUME NEW y \in D
      PROVE  y[1] \in 0 .. L /\ y[2] \in -1 .. L /\ y = <<y[1], y[2]>>
  BY DEF Halves
<1>3. ASSUME NEW y \in D, y[1] < y[2]
      PROVE  /\ Halved(y, LowerNext(y, lev, k)) /\ LowerNext(y, lev, k) \in D
             /\ Mid(y) \in y[1] .. y[2] - 1
  BY <1>1, <1>3, LowerHalves
<1>4. \A y \in D \ stop : y[1] < y[2]
  <2>1. \A y \in D \ stop : y[1] \in Int /\ y[2] \in Int /\ ~(y[1] >= y[2])
    BY <1>2
  <2> QED BY <2>1
<1>5. nxt \in [D -> D] /\ \A y \in D \ stop : nxt[y] = LowerNext(y, lev, k)
  <2>1. \A y \in D : (IF y \in stop THEN y ELSE LowerNext(y, lev, k)) \in D
    BY <1>3, <1>4
  <2> HIDE DEF D, stop
  <2> QED BY <2>1, <1>1
<1>6. ASSUME NEW y \in D
      PROVE  s[y] = IF y[1] >= y[2] THEN y[1]
                    ELSE IF CmpKey(k, lev[Mid(y) + 1]) = 0 THEN Mid(y)
                    ELSE IF CmpKey(k, lev[Mid(y) + 1]) < 0 THEN s[<<y[1], Mid(y) - 1>>]
                    ELSE s[<<Mid(y) + 1, y[2]>>]
  BY DEF LowerFn, Halves
<1>7. ASSUME NEW i \in 1 .. L
      PROVE  FirstKey(lev[i]) \in Int /\ LastKey(lev[i]) \in Int /\ FirstKey(lev[i]) <= LastKey(lev[i])
  BY DEF Spans
<1>8. ASSUME NEW m \in 0 .. L - 1, NEW i \in 1 .. m, k >= FirstKey(lev[m + 1]) PROVE LastKey(lev[i]) < k
  <2>1. i \in 1 .. L /\ m + 1 \in 1 .. L /\ i < m + 1
    BY <1>1
  <2>2. LastKey(lev[i]) < FirstKey(lev[m + 1])
    BY <2>1 DEF Ordered
  <2> QED BY <2>1, <2>2, <1>7, <1>8
<1>9. ASSUME NEW y \in stop PROVE y \in P
  <2>1. CASE y[1] >= y[2]
    <3>1. s[y] = y[1]
      BY <1>6, <2>1
    <3> QED BY <1>2, <3>1 DEF Below
  <2>2. CASE ~(y[1] >= y[2])
    <3> DEFINE m == Mid(y)
    <3>1. CmpKey(k, lev[m + 1]) = 0 /\ s[y] = m
      BY <1>6, <2>2
    <3>2. y[1] < y[2]
      BY <1>2, <2>2
    <3>3. m \in y[1] .. y[2] - 1
      BY <1>3, <3>2
    <3> HIDE DEF m
    <3>4. m \in 0 .. L - 1 /\ m + 1 \in 1 .. L /\ m \in y[1] .. L
      BY <1>2, <3>3
    <3>5. k >= FirstKey(lev[m + 1])
      BY <3>1, <3>4, <1>7 DEF CmpKey
    <3>6. \A i \in y[1] + 1 .. m : i \in 1 .. m
      BY <1>2, <3>4
    <3> QED BY <3>1, <3>4, <3>5, <3>6, <1>8 DEF Below
  <2> QED BY <2>1, <2>2
<1>10. ASSUME NEW y \in D \ stop, nxt[y] \in P PROVE y \in P
  <2> DEFINE m == Mid(y)
  <2>1. y[1] < y[2] /\ y[1] \in 0 .. L /\ y[2] \in -1 .. L /\ ~(y[1] >= y[2]) /\ CmpKey(k, lev[m + 1]) # 0
    BY <1>2, <1>4
  <2>2. m \in y[1] .. y[2] - 1
    BY <1>3, <2>1
  <2>3. nxt[y] = LowerNext(y, lev, k)
    BY <1>5
  <2>4. CASE CmpKey(k, lev[m + 1]) < 0
    <3>1. nxt[y] = <<y[1], m - 1>>
      BY <2>3, <2>4 DEF LowerNext
    <3>2. s[y] = s[<<y[1], m - 1>>]
      BY <1>6, <2>1, <2>4
    <3>3. Below(s[y], <<y[1], m - 1>>, lev, k)
      BY <1>10, <3>1, <3>2
    <3> QED BY <3>3 DEF Below
  <2>5. CASE ~(CmpKey(k, lev[m + 1]) < 0)
    <3>1. nxt[y] = <<m + 1, y[2]>>
      BY <2>3, <2>5 DEF LowerNext
    <3>2. s[y] = s[<<m + 1, y[2]>>]
      BY <1>6, <2>1, <2>5
    <3> DEFINE p == s[y]
    <3>3. Below(p, <<m + 1, y[2]>>, lev, k)
      BY <1>10, <3>1, <3>2
    <3> HIDE DEF m, p
    <3>4. p \in m + 1 .. L /\ \A i \in (m + 1) + 1 .. p : LastKey(lev[i]) < k
      BY <3>3 DEF Below
    <3>5. m \in 0 .. L - 1 /\ m + 1 \in 1 .. L /\ p \in y[1] .. L
      BY <2>1, <2>2, <3>4
    <3>6. k > LastKey(lev[m + 1]) /\ k >= FirstKey(lev[m + 1])
      BY <2>1, <2>5, <3>5, <1>7 DEF CmpKey
    <3>7. \A i \in y[1] + 1 .. p : i \in 1 .. m \/ i = m + 1 \/ i \in (m + 1) + 1 .. p
      BY <2>1, <3>4, <3>5
    <3>8. \A i \in y[1] + 1 .. p : LastKey(lev[i]) < k
      BY <3>4, <3>5, <3>6, <3>7, <1>7, <1>8
    <3>9. Below(p, y, lev, k)
      BY <3>5, <3>8 DEF Below
    <3> QED BY <3>9 DEF p
  <2> QED BY <2>4, <2>5
<1>11. D \subseteq P
  <2>1. Inherited(P, D, stop, nxt)
    BY <1>9, <1>10 DEF Inherited
  <2>2. \A y \in D \ stop : y[1] < y[2] /\ Halved(y, nxt[y])
    BY <1>3, <1>4, <1>5
  <2> HIDE DEF P, D, stop, nxt, L
  <2> QED BY <1>1, <1>5, <2>1, <2>2, BisectInduction
<1> QED BY <1>11

(* The relatives of a file are a section of an ordered level; the files on *)
(* its left end before the file begins, the files on its right begin after *)
(* it ends.                                                                *)
Section(rel, lev, d, p, q) ==
  /\ p \in 0 .. Len(lev) /\ q \in p .. Len(lev)
  /\ rel = SubSeq(lev, p + 1, q)
  /\ \A i \in 1 .. p : LastKey(lev[i]) < FirstKey(d)
  /\ \A i \in q + 1 .. Len(lev) : LastKey(d) < FirstKey(lev[i])

LEMMA RelativesIs ==
  ASSUME NEW S, NEW lev \in Seq(S), NEW dem \in Seq(S), Len(dem) = 1, Ordered(lev),
         \A f \in S : Spans(f)
  PROVE  \E p, q \in Nat : Section(Relatives(lev, dem), lev, dem[1], p, q)
<1> DEFINE L == Len(lev)
           d == dem[1]
           lo == FirstKey(d)
           hi == LastKey(d)
           pos == LowerBound(lev, lo)
           Reach(i) == \A j \in pos + 1 .. i : FirstKey(lev[j]) <= hi
           Q == {pos} \cup {i \in pos + 1 .. L : Reach(i)}
<1>1. L \in Nat /\ \A i \in 1 .. L : lev[i] \in S /\ Spans(lev[i])
  OBVIOUS
<1>2. DOMAIN dem = {1} /\ d \in S /\ lo \in Nat /\ hi \in Nat /\ lo <= hi
  <2>1. DOMAIN dem = 1 .. 1 /\ d \in S
    OBVIOUS
  <2>2. Spans(d)
    BY <2>1
  <2>3. 1 .. 1 = {1}
    OBVIOUS
  <2> QED BY <2>1, <2>2, <2>3 DEF Spans
<1>3. \A i \in 1 .. L : FirstKey(lev[i]) \in Nat /\ LastKey(lev[i]) \in Nat /\ FirstKey(lev[i]) <= LastKey(lev[i])
  BY <1>1 DEF Spans
<1>4. Min({FirstKey(dem[i]) : i \in DOMAIN dem}) = lo /\ Max({LastKey(dem[i]) : i \in DOMAIN dem}) = hi
  <2>1. {FirstKey(dem[i]) : i \in DOMAIN dem} = {lo} /\ {LastKey(dem[i]) : i \in DOMAIN dem} = {hi}
    BY <1>2
  <2>2. {lo} \in SUBSET Nat /\ {lo} # {} /\ {hi} \in SUBSET Nat /\ {hi} # {} /\ \A y \in {hi} : y <= hi
    BY <1>2
  <2> HIDE DEF lo, hi
  <2>3. Min({lo}) \in {lo} /\ Max({hi}) \in {hi}
    BY <1>2, <2>2, MinIs, MaxIs
  <2> QED BY <2>1, <2>3
<1>5. Relatives(lev, dem) =
        IF lev = <<>> \/ dem = <<>> THEN <<>>
        ELSE IF hi < FirstKey(lev[1]) \/ lo > LastKey(lev[L]) THEN <<>>
        ELSE SubSeq(lev, pos + 1, Max(Q))
  <2> HIDE DEF lo, hi
  <2> QED BY <1>4 DEF Relatives
<1>6. dem # <<>>
  <2>1. Len(<<>>) = 0
    OBVIOUS
  <2>2. Len(dem) # 0
    OBVIOUS
  <2> QED BY ONLY <2>1, <2>2
<1> HIDE DEF d, lo, hi
<1>7. \A m \in 0 .. L : SubSeq(lev, m + 1, m) = <<>>
  <2>1. \A m \in 0 .. L : m \in Int /\ m + 1 \in Int /\ m < m + 1
    BY <1>1
  <2> QED BY <2>1, SubSeqEmpty
<1>8. CASE lev = <<>> \/ hi < FirstKey(lev[1])
  <2>1. Relatives(lev, dem) = SubSeq(lev, 0 + 1, 0)
    BY <1>1, <1>5, <1>7, <1>8
  <2>2. ASSUME NEW i \in 0 + 1 .. L PROVE hi < FirstKey(lev[i])
    <3>1. i \in 1 .. L /\ 1 \in 1 .. L /\ lev # <<>> /\ (i = 1 \/ 1 < i)
      BY <1>1, <2>2
    <3>2. 1 < i => LastKey(lev[1]) < FirstKey(lev[i])
      BY <3>1 DEF Ordered
    <3> QED BY <1>2, <1>3, <1>8, <3>1, <3>2
  <2>3. Section(Relatives(lev, dem), lev, d, 0, 0)
    BY <1>1, <2>1, <2>2 DEF Section, lo, hi
  <2> QED BY <2>3 DEF d
<1>9. CASE lev # <<>> /\ lo > LastKey(lev[L])
  <2>1. Relatives(lev, dem) = SubSeq(lev, L + 1, L)
    BY <1>1, <1>5, <1>6, <1>7, <1>9
  <2>2. ASSUME NEW i \in 1 .. L PROVE LastKey(lev[i]) < lo
    <3>1. L \in 1 .. L /\ (i = L \/ i < L)
      BY <1>1, <2>2
    <3>2. i < L => LastKey(lev[i]) < FirstKey(lev[L])
      BY <3>1 DEF Ordered
    <3> QED BY <1>2, <1>3, <1>9, <3>1, <3>2
  <2>3. Section(Relatives(lev, dem), lev, d, L, L)
    BY <1>1, <2>1, <2>2 DEF Section, lo, hi
  <2> QED BY <1>1, <2>3 DEF d
<1>10. CASE lev # <<>> /\ ~(hi < FirstKey(lev[1])) /\ ~(lo > LastKey(lev[L]))
  <2>1. Relatives(lev, dem) = SubSeq(lev, pos + 1, Max(Q))
    BY <1>5, <1>6, <1>10
  <2>2. pos \in 0 .. L /\ \A i \in 1 .. pos : LastKey(lev[i]) < lo
    <3>1. CASE lo < FirstKey(lev[1])
      <4>1. pos = 0
        BY <3>1, LowerBoundIs
      <4> QED BY <4>1, <1>1
    <3>2. CASE ~(lo < FirstKey(lev[1]))
      <4> DEFINE s == CHOOSE s : LowerFn(s, lev, lo)
      <4>1. pos = s[<<0, L - 1>>]
        BY <3>2, <1>10, LowerBoundIs
      <4>2. LowerFn(s, lev, lo)
        BY <1>1, LowerFnExists
      <4>3. <<0, L - 1>> \in Halves(L)
        <5>1. 0 \in 0 .. L /\ L - 1 \in -1 .. L
          BY <1>1
        <5> QED BY <5>1 DEF Halves
      <4> HIDE DEF s
      <4>4. Below(s[<<0, L - 1>>], <<0, L - 1>>, lev, lo)
        <5>1. lo \in Int
          BY <1>2
        <5> QED BY <5>1, <1>1, <4>2, <4>3, LowerFnResult
      <4>5. Below(pos, <<0, L - 1>>, lev, lo)
        BY <4>1, <4>4
      <4> HIDE DEF pos
      <4> QED BY <4>5 DEF Below
    <3> QED BY <3>1, <3>2
  <2> HIDE DEF pos
  <2>3. Max(Q) \in Q /\ \A y \in Q : y <= Max(Q)
    <3>1. Q \in SUBSET Nat /\ Q # {} /\ \A y \in Q : y <= L
      BY <1>1, <2>2
    <3> HIDE DEF Q
    <3> QED BY <1>1, <3>1, MaxIs
  <2> DEFINE q == Max(Q)
  <2>4. q \in pos .. L
    BY <1>1, <2>2, <2>3
  <2>5. Reach(q)
    BY <2>2, <2>3
  <2>6. ASSUME NEW i \in q + 1 .. L PROVE hi < FirstKey(lev[i])
    <3>1. q + 1 \in 1 .. L /\ i \in 1 .. L /\ (i = q + 1 \/ q + 1 < i) /\ q + 1 \in pos + 1 .. L /\ q \in Int
      BY <1>1, <2>2, <2>4
    <3>2. q + 1 \notin Q
      <4> HIDE DEF Q
      <4> QED BY <2>3, <3>1
    <3>3. ~Reach(q + 1)
      BY <3>1, <3>2
    <3>4. \A j \in pos + 1 .. q + 1 : j \in pos + 1 .. q \/ j = q + 1
      <4> HIDE DEF q
      <4> QED BY <1>1, <2>2, <2>4
    <3>5. ~(FirstKey(lev[q + 1]) <= hi)
      <4> HIDE DEF q
      <4> QED BY <2>5, <3>3, <3>4
    <3> HIDE DEF q
    <3>6. q + 1 < i => LastKey(lev[q + 1]) < FirstKey(lev[i])
      <4> DEFINE h == q + 1
      <4>1. h \in 1 .. L
        BY <3>1
      <4> HIDE DEF h
      <4>2. h < i => LastKey(lev[h]) < FirstKey(lev[i])
        BY <3>1, <4>1 DEF Ordered
      <4> QED BY <4>2 DEF h
    <3>7. /\ FirstKey(lev[q + 1]) \in Nat /\ LastKey(lev[q + 1]) \in Nat
          /\ FirstKey(lev[q + 1]) <= LastKey(lev[q + 1]) /\ FirstKey(lev[i]) \in Nat
      BY <1>3, <3>1
    <3> QED BY <1>2, <3>1, <3>5, <3>6, <3>7
  <2> HIDE DEF q
  <2>7. Section(Relatives(lev, dem), lev, d, pos, q)
    BY <2>1, <2>2, <2>4, <2>6 DEF Section, lo, hi, q
  <2>8. pos \in Nat /\ q \in Nat
    BY <2>2, <2>4
  <2> QED BY <2>7, <2>8 DEF d
<1> QED BY <1>8, <1>9, <1>10

-----------------------------------------------------------------------------
(* The catalogue. *)

LEMMA SlotNumbers ==
  /\ LevelCapacity \in Nat /\ LevelCapacity >= 2
  /\ NrFd \in Nat /\ NrFd = 2 * LevelCapacity /\ MaxSize = NrFd + 1 /\ Fds \subseteq Nat
  /\ IsFiniteSet(Fds) /\ Cardinality(Fds) = NrFd
<1> DEFINE c == (NrBlock - 1) \div Capacity
<1>1. c \in Nat
  BY LsmAssumption
<1>2. LevelCapacity = c + 2
  BY DEF LevelCapacity
<1> HIDE DEF c
<1>3. LevelCapacity \in Nat /\ LevelCapacity >= 2
  BY <1>1, <1>2
<1>4. NrFd = 2 * LevelCapacity /\ NrFd \in Nat /\ NrFd >= 4 /\ MaxSize = NrFd + 1
  BY <1>3 DEF NrFd, MaxSize
<1>5. IsFiniteSet(0 .. NrFd - 1) /\ Cardinality(0 .. NrFd - 1) = NrFd
  <2>1. NrFd - 1 \in Int /\ ~(0 > NrFd - 1) /\ (NrFd - 1) - 0 + 1 = NrFd
    BY <1>4
  <2> QED BY <2>1, FS_Interval
<1> QED BY <1>3, <1>4, <1>5 DEF Fds

AllocStep(s) ==
  LET free == Fds \ s.used
      ahead == {f \in free : f >= s.cur}
      fd == Min(IF ahead # {} THEN ahead ELSE free)
  IN [cur |-> fd + 1, used |-> s.used \cup {fd}, fds |-> Append(s.fds, fd)]

AllocInit == [cur |-> cur, used |-> Taken, fds |-> <<>>]

AllocFn(a, count) ==
  a = [i \in 0 .. count |-> IF i = 0 THEN AllocInit ELSE AllocStep(a[i - 1])]

LEMMA AllocFdsIs ==
  ASSUME NEW count
  PROVE  AllocFds(count) = (CHOOSE a : AllocFn(a, count))[count]
BY DEF AllocFds, AllocFn, AllocStep, AllocInit

AllocStates == [cur : 0 .. NrFd, used : SUBSET Fds, fds : Seq(Fds)]

(* i slots were free and are taken now. *)
Allocated(r, i) ==
  /\ r \in AllocStates
  /\ Len(r.fds) = i /\ Distinct(r.fds)
  /\ r.used = Taken \cup Range(r.fds) /\ Range(r.fds) \cap Taken = {}

LEMMA TakenIs == Taken \subseteq Fds /\ IsFiniteSet(Taken) /\ Cardinality(Taken) \in Nat
<1>1. Taken \subseteq Fds
  BY DEF Taken
<1>2. IsFiniteSet(Taken)
  BY <1>1, SlotNumbers, FS_Subset
<1> QED BY <1>1, <1>2, FS_CardinalityType

LEMMA AllocStepIs ==
  ASSUME NEW r \in AllocStates, Fds \ r.used # {}
  PROVE  \E fd \in Fds \ r.used :
           AllocStep(r) = [cur |-> fd + 1, used |-> r.used \cup {fd}, fds |-> Append(r.fds, fd)]
<1> DEFINE free == Fds \ r.used
           ahead == {f \in free : f >= r.cur}
           U == IF ahead # {} THEN ahead ELSE free
           fd == Min(U)
<1>1. U \in SUBSET Nat /\ U # {} /\ U \subseteq free
  BY SlotNumbers
<1>2. fd \in U
  <2> HIDE DEF U
  <2> QED BY <1>1, MinIs
<1>3. AllocStep(r) = [cur |-> fd + 1, used |-> r.used \cup {fd}, fds |-> Append(r.fds, fd)]
  BY DEF AllocStep
<1>4. fd \in free
  BY <1>1, <1>2
<1> HIDE DEF fd, U
<1> QED BY <1>3, <1>4

LEMMA AllocStepType ==
  ASSUME NEW r \in AllocStates, Fds \ r.used # {}
  PROVE  AllocStep(r) \in AllocStates
<1>1. PICK fd \in Fds \ r.used :
        AllocStep(r) = [cur |-> fd + 1, used |-> r.used \cup {fd}, fds |-> Append(r.fds, fd)]
  BY AllocStepIs
<1>2. r.used \in SUBSET Fds /\ r.fds \in Seq(Fds) /\ fd \in Fds
  BY DEF AllocStates
<1>3. fd + 1 \in 0 .. NrFd
  BY <1>2, SlotNumbers DEF Fds
<1>4. Append(r.fds, fd) \in Seq(Fds) /\ r.used \cup {fd} \in SUBSET Fds
  BY <1>2
<1> QED BY <1>1, <1>3, <1>4 DEF AllocStates

LEMMA AllocatedNext ==
  ASSUME NEW r, NEW i \in Nat, Allocated(r, i), Cardinality(Taken) + i < NrFd
  PROVE  Fds \ r.used # {} /\ Allocated(AllocStep(r), i + 1)
<1>1. /\ r \in AllocStates /\ r.used \in SUBSET Fds /\ r.fds \in Seq(Fds) /\ Len(r.fds) = i
      /\ Distinct(r.fds) /\ r.used = Taken \cup Range(r.fds) /\ Range(r.fds) \cap Taken = {}
  BY DEF Allocated, AllocStates
<1>2. Fds \ r.used # {}
  <2>1. IsFiniteSet(Range(r.fds)) /\ Cardinality(Range(r.fds)) = i
    BY <1>1, RangeIs
  <2>2. Cardinality(r.used) = Cardinality(Taken) + Cardinality(Range(r.fds)) - Cardinality(Taken \cap Range(r.fds))
    BY <1>1, <2>1, TakenIs, FS_Union
  <2>3. Cardinality(Taken \cap Range(r.fds)) = 0
    <3>1. Taken \cap Range(r.fds) = {}
      BY <1>1
    <3> QED BY <3>1, FS_EmptySet
  <2>4. Cardinality(r.used) = Cardinality(Taken) + i
    BY <2>1, <2>2, <2>3, TakenIs
  <2>5. r.used # Fds
    BY <2>4, SlotNumbers, TakenIs
  <2> QED BY <2>5, <1>1
<1>3. PICK fd \in Fds \ r.used :
        AllocStep(r) = [cur |-> fd + 1, used |-> r.used \cup {fd}, fds |-> Append(r.fds, fd)]
  BY <1>1, <1>2, AllocStepIs
<1> DEFINE t == AllocStep(r)
           s == Append(r.fds, fd)
<1>4. t.fds = s /\ t.used = r.used \cup {fd}
  BY <1>3
<1>5. t \in AllocStates
  BY <1>1, <1>2, AllocStepType
<1>6. Len(s) = i + 1 /\ DOMAIN s = 1 .. i + 1 /\ s[i + 1] = fd /\ \A j \in 1 .. i : s[j] = r.fds[j]
  BY <1>1
<1>7. Range(r.fds) = {r.fds[j] : j \in 1 .. i}
  BY <1>1, RangeIs
<1>8. \A j \in 1 .. i + 1 : j \in 1 .. i \/ j = i + 1
  OBVIOUS
<1> HIDE DEF s
<1>9. Range(s) = Range(r.fds) \cup {fd}
  <2>1. Range(s) = {s[j] : j \in 1 .. i + 1}
    BY <1>6 DEF Range
  <2>2. i + 1 \in 1 .. i + 1 /\ \A j \in 1 .. i : j \in 1 .. i + 1
    OBVIOUS
  <2> QED BY <2>1, <2>2, <1>6, <1>7, <1>8
<1>10. Distinct(s)
  <2>1. \A j \in 1 .. i : r.fds[j] # fd
    BY <1>1, <1>7
  <2>2. \A j, k \in 1 .. i : r.fds[j] = r.fds[k] => j = k
    BY <1>1 DEF Distinct
  <2> QED BY <2>1, <2>2, <1>6, <1>8 DEF Distinct
<1> HIDE DEF t
<1>11. Allocated(t, i + 1)
  <2>1. t.used = Taken \cup Range(t.fds)
    BY <1>1, <1>4, <1>9
  <2>2. Range(t.fds) \cap Taken = {}
    BY <1>1, <1>4, <1>9
  <2> QED BY <1>4, <1>5, <1>6, <1>10, <2>1, <2>2 DEF Allocated
<1> QED BY <1>2, <1>11 DEF t

(* bitc_alloc_file, while slots are left, takes different free slots. *)
LEMMA AllocFdsResult ==
  ASSUME NEW count \in Nat, cur \in 0 .. NrFd, FdsLeft(count)
  PROVE  Allocated(AllocFds(count), count)
<1> DEFINE S == AllocStates
           st == [i \in 1 .. count |-> [r \in S |-> IF Fds \ r.used = {} THEN r ELSE AllocStep(r)]]
<1>1. AllocInit \in S
  BY TakenIs DEF AllocInit, AllocStates
<1>2. st \in [1 .. count -> [S -> S]]
  BY AllocStepType
<1>3. PICK G : Loop(G, count, S, AllocInit, st)
  <2> HIDE DEF S, st
  <2> QED BY <1>1, <1>2, LoopExists
<1>4. ASSUME NEW i \in 1 .. count
      PROVE  /\ G[i] = st[i][G[i - 1]] /\ G[i - 1] \in S
             /\ Fds \ G[i - 1].used # {} => G[i] = AllocStep(G[i - 1])
  <2>1. i - 1 \in 0 .. count
    OBVIOUS
  <2>2. G[i] = st[i][G[i - 1]] /\ G[i - 1] \in S
    <3> HIDE DEF S, st
    <3> QED BY <1>3, <2>1 DEF Loop
  <2>3. st[i][G[i - 1]] = IF Fds \ G[i - 1].used = {} THEN G[i - 1] ELSE AllocStep(G[i - 1])
    BY <2>2
  <2> QED BY <2>2, <2>3
<1> DEFINE P == {i \in 0 .. count : Allocated(G[i], i)}
<1>5. \A i \in 0 .. count - 1 : Cardinality(Taken) + i < NrFd
  BY TakenIs, SlotNumbers DEF FdsLeft
<1>6. G[0] = AllocInit
  BY <1>3 DEF Loop
<1>7. 0 \in P
  <2>1. Range(<<>>) = {} /\ Len(<<>>) = 0 /\ Distinct(<<>>)
    BY DEF Range, Distinct
  <2>2. AllocInit.used = Taken /\ AllocInit.fds = <<>>
    BY DEF AllocInit
  <2> QED BY <1>1, <1>6, <2>1, <2>2 DEF Allocated
<1>8. ASSUME NEW i \in 0 .. count - 1, i \in P PROVE i + 1 \in P
  <2>1. i \in Nat /\ i + 1 \in 1 .. count /\ (i + 1) - 1 = i /\ i + 1 \in 0 .. count
    OBVIOUS
  <2>2. Fds \ G[i].used # {} /\ Allocated(AllocStep(G[i]), i + 1)
    BY <1>5, <1>8, <2>1, AllocatedNext
  <2>3. G[i + 1] = AllocStep(G[i])
    BY <1>4, <2>1, <2>2
  <2> QED BY <2>1, <2>2, <2>3
<1>9. \A i \in 0 .. count : i \in P
  <2> HIDE DEF P
  <2> QED BY <1>7, <1>8, UpTo
<1>10. ASSUME NEW i \in 1 .. count PROVE G[i] = AllocStep(G[i - 1])
  <2>1. i - 1 \in 0 .. count /\ i - 1 \in 0 .. count - 1 /\ i - 1 \in Nat
    OBVIOUS
  <2>2. Allocated(G[i - 1], i - 1)
    BY <1>9, <2>1
  <2>3. Fds \ G[i - 1].used # {}
    BY <1>5, <2>1, <2>2, AllocatedNext
  <2> QED BY <1>4, <2>3
<1>11. AllocFn(G, count)
  <2>1. G \in [0 .. count -> S]
    BY <1>3 DEF Loop
  <2>2. \A i \in 0 .. count : G[i] = IF i = 0 THEN AllocInit ELSE AllocStep(G[i - 1])
    <3>1. \A i \in 0 .. count : i = 0 \/ i \in 1 .. count
      OBVIOUS
    <3> QED BY <1>6, <1>10, <3>1
  <2> HIDE DEF S
  <2> QED BY <2>1, <2>2 DEF AllocFn
<1> DEFINE a == CHOOSE a : AllocFn(a, count)
<1>12. AllocFn(a, count)
  BY <1>11
<1> HIDE DEF a
<1>13. \A i \in 0 .. count : a[i] = IF i = 0 THEN AllocInit ELSE AllocStep(a[i - 1])
  BY <1>12 DEF AllocFn
<1> DEFINE E == {i \in 0 .. count : a[i] = G[i]}
<1>14. 0 \in E
  BY <1>6, <1>13
<1>15. ASSUME NEW i \in 0 .. count - 1, i \in E PROVE i + 1 \in E
  <2>1. i + 1 \in 1 .. count /\ (i + 1) - 1 = i /\ i + 1 \in 0 .. count /\ i + 1 # 0
    OBVIOUS
  <2>2. a[i + 1] = AllocStep(a[i]) /\ G[i + 1] = AllocStep(G[i])
    BY <1>10, <1>13, <2>1
  <2> QED BY <1>15, <2>1, <2>2
<1>16. \A i \in 0 .. count : i \in E
  <2> HIDE DEF E
  <2> QED BY <1>14, <1>15, UpTo
<1>17. a[count] = G[count] /\ Allocated(G[count], count)
  BY <1>9, <1>16
<1> QED BY <1>17, AllocFdsIs DEF a

(* bitc_get_current_version: no file has a higher version. *)
VersionFn(m) ==
  m = [f \in 0 .. NrFd |->
        IF f = 0 THEN 0
        ELSE IF files[f - 1] # NoFile /\ m[f - 1] < files[f - 1].ver
        THEN files[f - 1].ver + 1 ELSE m[f - 1]]

LEMMA CurrentVersionResult ==
  ASSUME \A f \in Fds : files[f].ver \in Nat
  PROVE  CurrentVersion \in Nat /\ \A f \in Taken : files[f].ver <= CurrentVersion
<1> DEFINE Raise(f, v) ==
             IF files[f - 1] # NoFile /\ v < files[f - 1].ver THEN files[f - 1].ver + 1 ELSE v
           st == [f \in 1 .. NrFd |-> [v \in Nat |-> Raise(f, v)]]
<1>1. NrFd \in Nat /\ \A f \in 1 .. NrFd : f - 1 \in Fds /\ files[f - 1].ver \in Nat
  <2>1. NrFd \in Nat /\ \A f \in 1 .. NrFd : f - 1 \in Fds
    BY SlotNumbers DEF Fds
  <2> QED BY <2>1
<1>2. \A f \in 1 .. NrFd : \A v \in Nat : Raise(f, v) \in Nat /\ Raise(f, v) >= v
  BY <1>1
<1>3. st \in [1 .. NrFd -> [Nat -> Nat]]
  BY <1>2
<1>4. PICK G : Loop(G, NrFd, Nat, 0, st)
  <2> HIDE DEF st
  <2>1. 0 \in Nat
    OBVIOUS
  <2> QED BY <1>1, <1>3, <2>1, LoopExists
<1>5. ASSUME NEW f \in 1 .. NrFd PROVE G[f] = Raise(f, G[f - 1]) /\ f - 1 \in 0 .. NrFd
  <2>1. f - 1 \in 0 .. NrFd
    BY <1>1
  <2>2. G[f] = st[f][G[f - 1]] /\ G[f - 1] \in Nat
    <3> HIDE DEF st
    <3> QED BY <1>4, <2>1 DEF Loop
  <2>3. st[f][G[f - 1]] = Raise(f, G[f - 1])
    BY <2>2
  <2> QED BY <2>1, <2>2, <2>3
<1>6. VersionFn(G)
  <2>1. G \in [0 .. NrFd -> Nat] /\ G[0] = 0
    BY <1>4 DEF Loop
  <2>2. \A f \in 0 .. NrFd : f = 0 \/ f \in 1 .. NrFd
    BY <1>1
  <2>3. \A f \in 0 .. NrFd : G[f] = IF f = 0 THEN 0 ELSE Raise(f, G[f - 1])
    BY <1>5, <2>1, <2>2
  <2> QED BY <2>1, <2>3 DEF VersionFn
<1> DEFINE m == CHOOSE m : VersionFn(m)
<1>7. VersionFn(m)
  BY <1>6
<1>8. CurrentVersion = m[NrFd]
  BY DEF CurrentVersion, VersionFn
<1> HIDE DEF m
<1>9. m[0] = 0 /\ \A f \in 1 .. NrFd : m[f] = Raise(f, m[f - 1])
  <2>1. 0 \in 0 .. NrFd /\ \A f \in 1 .. NrFd : f \in 0 .. NrFd /\ f # 0
    BY <1>1
  <2>2. \A f \in 0 .. NrFd : m[f] = IF f = 0 THEN 0 ELSE Raise(f, m[f - 1])
    BY <1>7 DEF VersionFn
  <2> HIDE DEF Raise
  <2> QED BY <2>1, <2>2
<1> DEFINE P == {i \in 0 .. NrFd : m[i] \in Nat /\ \A f \in Taken : f < i => files[f].ver <= m[i]}
<1>10. 0 \in P
  <2>1. \A f \in Taken : ~(f < 0)
    BY TakenIs, SlotNumbers
  <2> QED BY <1>1, <1>9, <2>1
<1>11. ASSUME NEW i \in 0 .. NrFd - 1, i \in P PROVE i + 1 \in P
  <2>1. i + 1 \in 1 .. NrFd /\ (i + 1) - 1 = i /\ i \in Fds /\ i + 1 \in 0 .. NrFd
    BY <1>1 DEF Fds
  <2>2. m[i] \in Nat /\ m[i + 1] = Raise(i + 1, m[i])
    BY <1>9, <1>11, <2>1
  <2>3. m[i + 1] \in Nat /\ m[i + 1] >= m[i]
    <3> HIDE DEF Raise
    <3> QED BY <1>2, <2>1, <2>2
  <2>4. files[i].ver \in Nat /\ (i \in Taken => files[i].ver <= m[i + 1])
    BY <2>1, <2>2 DEF Taken
  <2>5. ASSUME NEW f \in Taken, f < i + 1 PROVE files[f].ver <= m[i + 1]
    <3>1. f \in Nat /\ f \in Fds /\ i \in Nat
      BY TakenIs, SlotNumbers, <2>1
    <3>2. CASE f = i
      BY <2>4, <2>5, <3>2
    <3>3. CASE f < i
      <4>1. files[f].ver <= m[i] /\ files[f].ver \in Nat
        BY <1>11, <3>1, <3>3
      <4> QED BY <4>1, <2>2, <2>3
    <3> QED BY <2>5, <3>1, <3>2, <3>3
  <2> QED BY <2>1, <2>3, <2>5
<1>12. NrFd \in P
  <2>1. \A i \in 0 .. NrFd : i \in P
    <3> HIDE DEF P
    <3> QED BY <1>1, <1>10, <1>11, UpTo
  <2> QED BY <1>1, <2>1
<1>13. \A f \in Taken : f < NrFd
  BY TakenIs, <1>1 DEF Fds
<1> QED BY <1>8, <1>12, <1>13

(* lsm_tree_init fills a level from the catalogue. *)
FillFn(g, lev, max) ==
  g = [f \in 0 .. NrFd |->
        IF f = 0 THEN <<>>
        ELSE IF files[f - 1] # NoFile /\ files[f - 1].level = lev
        THEN AddFile(g[f - 1], f - 1, max) ELSE g[f - 1]]

FilledWith(lev, max) == (CHOOSE g : FillFn(g, lev, max))[NrFd]

OnLevel(lev) == {f \in Taken : files[f].level = lev}

LEMMA OpenFills ==
  ASSUME Open
  PROVE  l0' = FilledWith(0, 3) /\ l1' = FilledWith(1, MaxSize)
BY DEF Open, FilledWith, FillFn

FilledTo(t, lev, i) ==
  /\ t \in Seq(Taken) /\ Sorted(t) /\ Distinct(t)
  /\ Range(t) = {f \in OnLevel(lev) : f < i}

LEMMA FillResult ==
  ASSUME NEW lev, NEW max \in Nat, Cardinality(OnLevel(lev)) <= max,
         \A f \in Taken : Spans(f)
  PROVE  LET t == FilledWith(lev, max)
         IN /\ t \in Seq(Taken) /\ Sorted(t) /\ Distinct(t)
            /\ Range(t) = OnLevel(lev) /\ Len(t) = Cardinality(OnLevel(lev))
<1> DEFINE On(f) == files[f - 1] # NoFile /\ files[f - 1].level = lev
           S == {t \in Seq(Taken) : Sorted(t)}
           Put1(f, t) == IF On(f) THEN AddFile(t, f - 1, max) ELSE t
           st == [f \in 1 .. NrFd |-> [t \in S |-> Put1(f, t)]]
<1>1. NrFd \in Nat /\ \A f \in 1 .. NrFd : f - 1 \in Fds /\ f - 1 \in 0 .. NrFd /\ f \in Int
  BY SlotNumbers DEF Fds
<1>2. Keyed(Taken)
  BY SpansKeyed
<1>3. \A f \in 1 .. NrFd : On(f) <=> f - 1 \in OnLevel(lev)
  BY <1>1 DEF OnLevel, Taken
<1>4. OnLevel(lev) \subseteq Taken /\ Taken \subseteq Fds /\ Fds \subseteq Nat
  BY TakenIs, SlotNumbers DEF OnLevel
<1>41. \A f \in OnLevel(lev) : f \in Nat /\ f < NrFd
  <2>1. \A f \in OnLevel(lev) : f \in 0 .. NrFd - 1
    BY <1>4 DEF Fds
  <2> QED BY <1>1, <2>1
<1>5. IsFiniteSet(OnLevel(lev)) /\ Cardinality(OnLevel(lev)) \in Nat
  BY <1>4, TakenIs, FS_Subset, FS_CardinalityType
<1>6. ASSUME NEW t \in S, NEW f \in Taken PROVE AddFile(t, f, max) \in S
  <2>1. t \in Seq(Taken) /\ Sorted(t) /\ Len(t) \in Nat
    OBVIOUS
  <2>2. CASE Len(t) >= max
    BY <2>1, <2>2 DEF AddFile
  <2>3. CASE Len(t) < max
    <3>1. AddFile(t, f, max) \in Seq(Taken) /\ Sorted(AddFile(t, f, max))
      BY <1>2, <2>1, <2>3, AddFileIs
    <3> QED BY <3>1
  <2> QED BY <2>1, <2>2, <2>3
<1>7. \A f \in 1 .. NrFd : \A t \in S : Put1(f, t) \in S
  BY <1>3, <1>4, <1>6
<1>8. st \in [1 .. NrFd -> [S -> S]]
  <2> HIDE DEF S, Put1
  <2> QED BY <1>7
<1>9. <<>> \in S
  BY DEF Sorted
<1>10. PICK G : Loop(G, NrFd, S, <<>>, st)
  <2> DEFINE z == <<>>
  <2>1. z \in S
    BY <1>9
  <2>2. \E G : Loop(G, NrFd, S, z, st)
    <3> HIDE DEF S, st, z
    <3> QED BY <1>1, <1>8, <2>1, LoopExists
  <2> QED BY <2>2
<1>11. ASSUME NEW f \in 1 .. NrFd PROVE G[f] = Put1(f, G[f - 1])
  <2>1. G[f] = st[f][G[f - 1]] /\ G[f - 1] \in S
    <3> HIDE DEF S, st
    <3> QED BY <1>1, <1>10 DEF Loop
  <2>2. st[f][G[f - 1]] = Put1(f, G[f - 1])
    <3> HIDE DEF S, Put1
    <3> QED BY <2>1
  <2> QED BY <2>1, <2>2
<1>12. FillFn(G, lev, max)
  <2>1. G \in [0 .. NrFd -> S] /\ G[0] = <<>>
    BY <1>10 DEF Loop
  <2>2. \A f \in 0 .. NrFd : f = 0 \/ f \in 1 .. NrFd
    BY <1>1
  <2>3. \A f \in 0 .. NrFd : G[f] = IF f = 0 THEN <<>> ELSE Put1(f, G[f - 1])
    <3> HIDE DEF Put1
    <3> QED BY <1>11, <2>1, <2>2
  <2> HIDE DEF S
  <2> QED BY <2>1, <2>3 DEF FillFn
<1> DEFINE g == CHOOSE g : FillFn(g, lev, max)
<1>13. FillFn(g, lev, max)
  BY <1>12
<1>14. FilledWith(lev, max) = g[NrFd]
  BY DEF FilledWith
<1> HIDE DEF g
<1>15. g[0] = <<>> /\ \A f \in 1 .. NrFd : g[f] = Put1(f, g[f - 1])
  <2>1. 0 \in 0 .. NrFd /\ \A f \in 1 .. NrFd : f \in 0 .. NrFd /\ f # 0
    BY <1>1
  <2>2. \A f \in 0 .. NrFd : g[f] = IF f = 0 THEN <<>> ELSE Put1(f, g[f - 1])
    BY <1>13 DEF FillFn
  <2> HIDE DEF Put1
  <2> QED BY <2>1, <2>2
<1> DEFINE P == {i \in 0 .. NrFd : FilledTo(g[i], lev, i)}
<1>16. 0 \in P
  <2>1. {f \in OnLevel(lev) : f < 0} = {}
    BY <1>41
  <2>2. Range(<<>>) = {} /\ Distinct(<<>>) /\ Sorted(<<>>)
    BY DEF Range, Distinct, Sorted
  <2>3. <<>> \in Seq(Taken) /\ 0 \in 0 .. NrFd
    BY <1>1
  <2>4. FilledTo(<<>>, lev, 0)
    BY <2>1, <2>2, <2>3, Zenon DEF FilledTo
  <2> QED BY <1>15, <2>3, <2>4
<1>17. ASSUME NEW i \in 0 .. NrFd - 1, i \in P PROVE i + 1 \in P
  <2> DEFINE t == g[i]
             X == {f \in OnLevel(lev) : f < i}
             Y == {f \in OnLevel(lev) : f < i + 1}
  <2>1. i + 1 \in 1 .. NrFd /\ (i + 1) - 1 = i /\ i + 1 \in 0 .. NrFd /\ i \in Nat
    BY <1>1
  <2>2. t \in Seq(Taken) /\ Sorted(t) /\ Distinct(t) /\ Range(t) = X
    BY <1>17 DEF FilledTo
  <2>3. g[i + 1] = IF i \in OnLevel(lev) THEN AddFile(t, i, max) ELSE t
    BY <1>3, <1>15, <2>1
  <2>4. \A f \in OnLevel(lev) : f < i + 1 <=> f < i \/ f = i
    BY <1>41, <2>1
  <2>5. CASE i \notin OnLevel(lev)
    <3>1. Y = X
      BY <2>4, <2>5
    <3>2. FilledTo(g[i + 1], lev, i + 1)
      BY <2>2, <2>3, <2>5, <3>1 DEF FilledTo
    <3> QED BY <2>1, <3>2
  <2>6. CASE i \in OnLevel(lev)
    <3>1. Y = X \cup {i} /\ i \notin X
      <4>1. ~(i < i)
        BY <2>1
      <4> QED BY <2>4, <2>6, <4>1
    <3>2. Len(t) = Cardinality(X) /\ IsFiniteSet(X)
      BY <2>2, RangeIs
    <3>3. Cardinality(Y) = Cardinality(X) + 1 /\ Cardinality(Y) <= Cardinality(OnLevel(lev))
      <4>1. Y \subseteq OnLevel(lev)
        OBVIOUS
      <4> HIDE DEF X, Y
      <4> QED BY <3>1, <3>2, <4>1, <1>5, FS_AddElement, FS_Subset
    <3>4. Len(t) < max
      <4>1. Len(t) \in Nat
        BY <2>2
      <4> QED BY <4>1, <3>2, <3>3, <1>5
    <3> DEFINE u == AddFile(t, i, max)
    <3>5. i \in Taken /\ i \notin Range(t)
      BY <1>4, <2>2, <2>6, <3>1
    <3> HIDE DEF t, X, Y
    <3>6. u \in Seq(Taken) /\ Range(u) = Range(t) \cup {i} /\ Sorted(u) /\ Distinct(u)
      BY <1>2, <2>2, <3>4, <3>5, AddFileIs
    <3>7. Range(u) = Y
      BY <2>2, <3>1, <3>6
    <3>8. g[i + 1] = u
      BY <2>3, <2>6
    <3>9. FilledTo(g[i + 1], lev, i + 1)
      BY <3>6, <3>7, <3>8 DEF FilledTo, Y
    <3> QED BY <2>1, <3>9
  <2> QED BY <2>5, <2>6
<1>18. FilledTo(g[NrFd], lev, NrFd)
  <2>1. \A i \in 0 .. NrFd : i \in P
    <3> HIDE DEF P
    <3> QED BY <1>1, <1>16, <1>17, UpTo
  <2> QED BY <1>1, <2>1
<1>19. {f \in OnLevel(lev) : f < NrFd} = OnLevel(lev)
  BY <1>41
<1> DEFINE t == g[NrFd]
<1>20. t \in Seq(Taken) /\ Sorted(t) /\ Distinct(t) /\ Range(t) = OnLevel(lev)
  BY <1>18, <1>19 DEF FilledTo
<1>21. Len(t) = Cardinality(OnLevel(lev))
  <2> HIDE DEF t
  <2> QED BY <1>20, RangeIs
<1> QED BY <1>14, <1>20, <1>21

-----------------------------------------------------------------------------
(* The output of a merge. *)

LEMMA DivIs ==
  ASSUME NEW a \in Nat, NEW c \in Nat \ {0}
  PROVE  a \div c \in Nat /\ c * (a \div c) <= a /\ a < c * (a \div c + 1)
<1>1. a \div c \in Nat
  OBVIOUS
<1>2. c * (a \div c) <= a
  OBVIOUS
<1>3. a < c * (a \div c + 1)
  OBVIOUS
<1> QED BY <1>1, <1>2, <1>3

LEMMA DivLess ==
  ASSUME NEW a \in Nat, NEW c \in Nat \ {0}, NEW r \in Nat, a < c * (r + 1)
  PROVE  a \div c <= r
<1> DEFINE q == a \div c
<1>1. q \in Nat /\ c * q <= a
  BY DivIs
<1> HIDE DEF q
<1>2. CASE q >= r + 1
  <2>1. PICK e \in Nat : q = (r + 1) + e
    <3>1. q - (r + 1) \in Nat /\ q = (r + 1) + (q - (r + 1))
      BY <1>1, <1>2
    <3> QED BY <3>1
  <2>2. c * q = c * (r + 1) + c * e
    BY <2>1
  <2>3. c * e \in Nat /\ c * (r + 1) \in Nat /\ c * q \in Nat
    BY <1>1
  <2> QED BY <1>1, <2>2, <2>3
<1>3. CASE q <= r
  BY <1>3 DEF q
<1> QED BY <1>1, <1>2, <1>3

LEMMA DivMono ==
  ASSUME NEW a \in Nat, NEW b \in Nat, NEW c \in Nat \ {0}, a <= b
  PROVE  a \div c <= b \div c
<1> DEFINE q == b \div c
<1>1. q \in Nat /\ b < c * (q + 1)
  BY DivIs
<1>2. c * (q + 1) \in Nat
  BY <1>1
<1>3. a < c * (q + 1)
  BY <1>1, <1>2
<1> HIDE DEF q
<1>4. a \div c <= q
  BY <1>1, <1>3, DivLess
<1> QED BY <1>4 DEF q


(* What a merge yields: per key of its input the record to add, if any. *)
Yields(m) == DOMAIN m \subseteq Lbas /\ DOMAIN m # {} /\ \A k \in DOMAIN m : m[k].add \in Nat

Added(m) == {k \in DOMAIN m : m[k].add # 0}
Rank(m, k) == Cardinality({i \in Body(m) : i < k})
To(m, b) == {k \in Added(m) : Builder(m, k) = b}

LEMMA BodyIs ==
  ASSUME NEW m, Yields(m)
  PROVE  /\ Max(DOMAIN m) \in DOMAIN m /\ \A k \in DOMAIN m : k \in Nat /\ k <= Max(DOMAIN m)
         /\ DOMAIN m \in SUBSET Nat /\ IsFiniteSet(DOMAIN m)
         /\ Body(m) = Added(m) \ {Max(DOMAIN m)}
         /\ IsFiniteSet(Body(m)) /\ Body(m) \subseteq DOMAIN m
         /\ Cardinality(Body(m)) \in Nat /\ NrFull(m) \in Nat
<1> DEFINE K == DOMAIN m
<1>1. K \in SUBSET Nat /\ K # {} /\ K \subseteq Lbas /\ NrLba - 1 \in Nat /\ \A y \in K : y <= NrLba - 1
  BY KeysNat DEF Yields
<1>2. IsFiniteSet(K)
  BY <1>1, KeysNat, FS_Subset
<1>3. Max(K) \in K /\ \A y \in K : y <= Max(K)
  <2> HIDE DEF K
  <2> QED BY <1>1, MaxIs
<1>4. Body(m) = Added(m) \ {Max(K)} /\ Body(m) \subseteq K
  BY DEF Body, Added
<1>5. IsFiniteSet(Body(m)) /\ Cardinality(Body(m)) \in Nat
  BY <1>2, <1>4, FS_Subset, FS_CardinalityType
<1>6. NrFull(m) \in Nat
  BY <1>5, LsmAssumption, DivIs DEF NrFull
<1> QED BY <1>1, <1>2, <1>3, <1>4, <1>5, <1>6

LEMMA RankIs ==
  ASSUME NEW m, Yields(m), NEW k \in DOMAIN m
  PROVE  /\ Rank(m, k) \in Nat /\ Rank(m, k) <= Cardinality(Body(m))
         /\ k = Max(DOMAIN m) => Rank(m, k) = Cardinality(Body(m))
         /\ \A i \in Added(m) : i < k => Rank(m, i) < Rank(m, k)
<1> DEFINE B == Body(m)
           X(j) == {i \in B : i < j}
<1>1. IsFiniteSet(B) /\ Cardinality(B) \in Nat /\ \A i \in DOMAIN m : i \in Nat /\ i <= Max(DOMAIN m)
  BY BodyIs
<1>2. \A j : X(j) \subseteq B /\ Rank(m, j) = Cardinality(X(j))
  BY DEF Rank
<1>3. \A j : IsFiniteSet(X(j)) /\ Cardinality(X(j)) \in Nat /\ Cardinality(X(j)) <= Cardinality(B)
  <2>1. \A j : IsFiniteSet(X(j)) /\ Cardinality(X(j)) <= Cardinality(B)
    <3> HIDE DEF X, B
    <3> QED BY <1>1, <1>2, FS_Subset
  <2> QED BY <2>1, FS_CardinalityType
<1>4. ASSUME k = Max(DOMAIN m) PROVE X(k) = B
  <2>1. ASSUME NEW i \in B PROVE i < k
    <3>1. i \in DOMAIN m /\ i # k
      BY <1>4, BodyIs
    <3> QED BY <3>1, <1>1, <1>4
  <2> QED BY <2>1
<1>5. ASSUME NEW i \in Added(m), i < k PROVE Rank(m, i) < Rank(m, k)
  <2>1. i \in DOMAIN m /\ i \in Nat /\ k \in Nat /\ k <= Max(DOMAIN m) /\ Max(DOMAIN m) \in Nat
    BY <1>1, BodyIs DEF Added
  <2>2. i \in B
    BY <1>5, <2>1, BodyIs
  <2>3. X(i) \cup {i} \subseteq X(k) /\ i \notin X(i)
    <3>1. \A j \in B : j \in Nat
      BY <1>1, BodyIs
    <3> QED BY <1>5, <2>1, <2>2, <3>1
  <2>4. Cardinality(X(i) \cup {i}) = Cardinality(X(i)) + 1 /\ Cardinality(X(i) \cup {i}) <= Cardinality(X(k))
    <3> HIDE DEF X
    <3> QED BY <1>3, <2>3, FS_AddElement, FS_Subset
  <2> HIDE DEF X
  <2> QED BY <1>2, <1>3, <2>4
<1> HIDE DEF X
<1> QED BY <1>2, <1>3, <1>4, <1>5

LEMMA BuilderIs ==
  ASSUME NEW m, Yields(m), NEW k \in DOMAIN m
  PROVE  /\ Builder(m, k) = Rank(m, k) \div Capacity + 1
         /\ Builder(m, k) \in 1 .. NrFull(m) + 1
<1>1. Rank(m, k) \in Nat /\ Rank(m, k) <= Cardinality(Body(m)) /\ Cardinality(Body(m)) \in Nat
  BY RankIs, BodyIs
<1>2. Builder(m, k) = Rank(m, k) \div Capacity + 1
  <2>1. CASE k = Max(DOMAIN m)
    <3>1. Rank(m, k) = Cardinality(Body(m))
      BY <2>1, RankIs
    <3> QED BY <2>1, <3>1 DEF Builder, NrFull
  <2>2. CASE k # Max(DOMAIN m)
    BY <2>2 DEF Builder, Rank
  <2> QED BY <2>1, <2>2
<1>3. Rank(m, k) \div Capacity <= NrFull(m) /\ Rank(m, k) \div Capacity \in Nat /\ NrFull(m) \in Nat
  BY <1>1, LsmAssumption, DivMono, DivIs, BodyIs DEF NrFull
<1> QED BY <1>2, <1>3

LEMMA BuilderOrder ==
  ASSUME NEW m, Yields(m), NEW i \in Added(m), NEW k \in DOMAIN m, Builder(m, i) < Builder(m, k)
  PROVE  i < k
<1>1. i \in DOMAIN m /\ i \in Nat /\ k \in Nat
  BY BodyIs DEF Added
<1>2. Rank(m, i) \in Nat /\ Rank(m, k) \in Nat
  BY <1>1, RankIs
<1>3. CASE k = i
  BY <1>1, <1>3, BuilderIs
<1>4. CASE k < i
  <2>1. Rank(m, k) <= Rank(m, i)
    <3> DEFINE X(j) == {h \in Body(m) : h < j}
    <3>1. \A h \in Body(m) : h \in Nat
      BY BodyIs
    <3>2. X(k) \subseteq X(i)
      BY <1>1, <1>4, <3>1
    <3>3. X(i) \subseteq Body(m) /\ IsFiniteSet(Body(m))
      BY BodyIs
    <3> HIDE DEF X
    <3>4. Cardinality(X(k)) <= Cardinality(X(i))
      BY <3>2, <3>3, FS_Subset
    <3> QED BY <3>4 DEF X, Rank
  <2>2. Rank(m, k) \div Capacity <= Rank(m, i) \div Capacity
    BY <1>2, <2>1, LsmAssumption, DivMono
  <2>3. Builder(m, k) = Rank(m, k) \div Capacity + 1 /\ Builder(m, i) = Rank(m, i) \div Capacity + 1
    BY <1>1, BuilderIs
  <2>4. Rank(m, k) \div Capacity \in Nat /\ Rank(m, i) \div Capacity \in Nat
    BY <1>2, LsmAssumption, DivIs
  <2> DEFINE x == Rank(m, k) \div Capacity
             y == Rank(m, i) \div Capacity
  <2> HIDE DEF x, y
  <2>5. x <= y /\ x \in Nat /\ y \in Nat /\ Builder(m, k) = x + 1 /\ Builder(m, i) = y + 1
    BY <2>2, <2>3, <2>4 DEF x, y
  <2> QED BY <2>5
<1> QED BY <1>1, <1>3, <1>4

(* No builder takes more keys than a file has room for. *)
LEMMA BuilderRoom ==
  ASSUME NEW m, Yields(m), NEW b \in Nat \ {0}
  PROVE  IsFiniteSet(To(m, b)) /\ Cardinality(To(m, b)) <= Capacity /\ Cardinality(To(m, b)) \in Nat
<1> DEFINE C == Capacity
           q == b - 1
           base == C * q
           X == To(m, b)
           g == [k \in X |-> Rank(m, k) - base]
<1>1. C \in Nat \ {0} /\ q \in Nat /\ base \in Nat
  BY LsmAssumption
<1>2. ASSUME NEW k \in X
      PROVE  k \in Added(m) /\ k \in DOMAIN m /\ k \in Nat /\ Rank(m, k) \in Nat
             /\ Rank(m, k) - base \in 0 .. C - 1
  <2>1. k \in Added(m) /\ k \in DOMAIN m /\ k \in Nat /\ Builder(m, k) = b
    BY BodyIs DEF To, Added
  <2>2. Rank(m, k) \in Nat /\ Builder(m, k) = Rank(m, k) \div C + 1
    BY <2>1, RankIs, BuilderIs
  <2>3. Rank(m, k) \div C = q
    <3> DEFINE z == Rank(m, k) \div C
    <3>1. z \in Nat
      BY <2>2, <1>1, DivIs
    <3> HIDE DEF z
    <3>2. b = z + 1
      BY <2>1, <2>2 DEF z
    <3>3. z = q
      BY <3>1, <3>2
    <3> QED BY <3>3 DEF z
  <2>4. C * q <= Rank(m, k) /\ Rank(m, k) < C * (q + 1)
    BY <2>2, <2>3, <1>1, DivIs
  <2>5. C * (q + 1) = C * q + C
    BY <1>1
  <2> HIDE DEF C, q
  <2> DEFINE r == Rank(m, k)
             e == C * q
  <2>6. r \in Nat /\ e \in Nat /\ e <= r /\ r < e + C /\ C \in Nat
    BY <1>1, <2>2, <2>4, <2>5
  <2> HIDE DEF r, e
  <2>7. r - e \in 0 .. C - 1
    BY <2>6
  <2> QED BY <2>1, <2>2, <2>7 DEF r, e
<1>3. g \in Injection(X, 0 .. C - 1)
  <2>1. g \in [X -> 0 .. C - 1]
    <3> HIDE DEF X, C, base
    <3> QED BY <1>2
  <2>2. ASSUME NEW i \in X, NEW k \in X, i # k PROVE g[i] # g[k]
    <3>1. i < k \/ k < i
      BY <1>2, <2>2
    <3>2. Rank(m, i) # Rank(m, k)
      <4>1. \A x, y \in X : x < y => Rank(m, x) < Rank(m, y)
        <5> HIDE DEF X, base, C
        <5> QED BY <1>2, RankIs
      <4>2. Rank(m, i) \in Nat /\ Rank(m, k) \in Nat
        BY <1>2
      <4> QED BY <3>1, <4>1, <4>2
    <3> HIDE DEF base, X
    <3> QED BY <1>1, <1>2, <3>2
  <2> HIDE DEF g, X
  <2> QED BY <2>1, <2>2 DEF Injection, IsInjective
<1>4. IsFiniteSet(0 .. C - 1) /\ Cardinality(0 .. C - 1) = C
  <2>1. C - 1 \in Int /\ ~(0 > C - 1) /\ (C - 1) - 0 + 1 = C
    BY <1>1
  <2> QED BY <2>1, FS_Interval
<1>5. IsFiniteSet(X) /\ Cardinality(X) <= Cardinality(0 .. C - 1)
  <2> HIDE DEF g, X, C
  <2> QED BY <1>3, <1>4, FS_Injection
<1> QED BY <1>4, <1>5, FS_CardinalityType

Records == [val : Nat, neg : BOOLEAN]
Entries == [Lbas -> Records]

LEMMA NoEntriesIs == NoRecord \in Records /\ NoEntries \in Entries /\ KeysIn(NoEntries) = {} /\ NrRecord(NoEntries) = 0
<1>1. NoRecord \in Records /\ NoEntries \in Entries
  BY DEF NoRecord, NoEntries, Records, Entries
<1>2. \A k \in Lbas : NoEntries[k] = NoRecord /\ NoEntries[k].val = 0 /\ NoEntries[k].neg = FALSE
  BY DEF NoEntries, NoRecord
<1>3. KeysIn(NoEntries) = {}
  BY <1>2 DEF KeysIn
<1>4. {k \in Lbas : NoEntries[k].val # 0} = {} /\ {k \in Lbas : NoEntries[k].neg} = {}
  BY <1>2
<1>5. Cardinality({}) = 0
  BY FS_EmptySet
<1>6. NrRecord(NoEntries) = Cardinality({}) + Cardinality({})
  BY <1>4, Zenon DEF NrRecord
<1> QED BY <1>1, <1>3, <1>5, <1>6

(* A table has a record of each of its keys. *)
LEMMA RecordKeys ==
  ASSUME NEW es \in Entries
  PROVE  /\ NrRecord(es) \in Nat /\ Cardinality(KeysIn(es)) <= NrRecord(es)
         /\ NrRecord(es) = 0 <=> KeysIn(es) = {}
<1> DEFINE V == {k \in Lbas : es[k].val # 0}
           G == {k \in Lbas : es[k].neg}
<1>1. V \subseteq Lbas /\ G \subseteq Lbas
  OBVIOUS
<1>2. IsFiniteSet(V) /\ IsFiniteSet(G) /\ Cardinality(V) \in Nat /\ Cardinality(G) \in Nat
  BY <1>1, KeysNat, FS_Subset, FS_CardinalityType
<1>3. KeysIn(es) = V \cup G
  <2>1. \A k \in Lbas : es[k] \in Records
    BY DEF Entries
  <2>2. \A r \in Records : r # NoRecord <=> r.val # 0 \/ r.neg
    BY DEF Records, NoRecord
  <2> QED BY <2>1, <2>2 DEF KeysIn
<1>4. NrRecord(es) = Cardinality(V) + Cardinality(G)
  BY DEF NrRecord
<1> HIDE DEF V, G
<1>5. Cardinality(V \cup G) = Cardinality(V) + Cardinality(G) - Cardinality(V \cap G)
  BY <1>2, FS_Union
<1>6. IsFiniteSet(V \cap G) /\ Cardinality(V \cap G) \in Nat
  BY <1>2, FS_Intersection, FS_CardinalityType
<1>7. Cardinality(KeysIn(es)) <= NrRecord(es) /\ NrRecord(es) \in Nat
  BY <1>2, <1>3, <1>4, <1>5, <1>6
<1>8. NrRecord(es) = 0 <=> Cardinality(V) = 0 /\ Cardinality(G) = 0
  BY <1>2, <1>4
<1>9. NrRecord(es) = 0 <=> V = {} /\ G = {}
  BY <1>2, <1>8, FS_EmptySet
<1> QED BY <1>3, <1>7, <1>9

(* A record of a key alone makes as many records as keys. *)
LEMMA ValuesOnly ==
  ASSUME NEW es \in Entries, \A k \in Lbas : ~es[k].neg
  PROVE  NrRecord(es) = Cardinality(KeysIn(es))
<1>1. {k \in Lbas : es[k].neg} = {}
  OBVIOUS
<1>2. KeysIn(es) = {k \in Lbas : es[k].val # 0}
  <2>1. \A k \in Lbas : es[k] \in Records
    BY DEF Entries
  <2>2. \A r \in Records : r # NoRecord <=> r.val # 0 \/ r.neg
    BY DEF Records, NoRecord
  <2> QED BY <2>1, <2>2 DEF KeysIn
<1>3. Cardinality({}) = 0
  BY FS_EmptySet
<1>4. Cardinality(KeysIn(es)) \in Nat
  BY KeysInIs
<1>5. NrRecord(es) = Cardinality(KeysIn(es)) + Cardinality({})
  BY <1>1, <1>2, Zenon DEF NrRecord
<1> QED BY <1>3, <1>4, <1>5

LEMMA OutputsIs ==
  ASSUME NEW m, Yields(m)
  PROVE  /\ Outputs(m) \in Seq(Entries) /\ Len(Outputs(m)) = NrFull(m) + 1
         /\ \A b \in 1 .. NrFull(m) + 1 :
              /\ \A k \in Lbas : Outputs(m)[b][k] =
                   IF k \in To(m, b) THEN [val |-> m[k].add, neg |-> FALSE] ELSE NoRecord
              /\ KeysIn(Outputs(m)[b]) = To(m, b)
              /\ NrRecord(Outputs(m)[b]) <= Capacity
<1> DEFINE c == NrFull(m) + 1
           outs == Outputs(m)
           At(b, k) == IF k \in To(m, b) THEN [val |-> m[k].add, neg |-> FALSE] ELSE NoRecord
<1>1. c \in Nat
  BY BodyIs
<1>2. \A b, k : k \in To(m, b) <=> k \in DOMAIN m /\ m[k].add # 0 /\ Builder(m, k) = b
  BY DEF To, Added
<1>3. outs = [b \in 1 .. c |-> [k \in Lbas |-> At(b, k)]]
  BY <1>2 DEF Outputs
<1>4. \A b \in 1 .. c, k \in Lbas : At(b, k) \in Records
  <2>1. \A b, k : k \in To(m, b) => m[k].add \in Nat
    BY <1>2 DEF Yields
  <2> QED BY <2>1, NoEntriesIs DEF Records
<1> HIDE DEF c
<1>5. \A b \in 1 .. c : outs[b] = [k \in Lbas |-> At(b, k)]
  BY <1>3
<1>6. \A b \in 1 .. c : outs[b] \in Entries
  <2> HIDE DEF At, outs
  <2> QED BY <1>4, <1>5 DEF Entries
<1>7. outs \in [1 .. c -> Entries]
  <2>1. outs = [b \in 1 .. c |-> outs[b]]
    BY <1>3
  <2> HIDE DEF outs
  <2> QED BY <1>6, <2>1
<1>8. outs \in Seq(Entries) /\ Len(outs) = c
  <2> HIDE DEF outs
  <2> QED BY <1>1, <1>7
<1>9. ASSUME NEW b \in 1 .. c
      PROVE  /\ \A k \in Lbas : outs[b][k] = At(b, k)
             /\ KeysIn(outs[b]) = To(m, b)
             /\ NrRecord(outs[b]) <= Capacity
  <2>1. \A k \in Lbas : outs[b][k] = At(b, k)
    <3> HIDE DEF At, outs
    <3> QED BY <1>5
  <2>2. \A k \in Lbas : ~outs[b][k].neg /\ (outs[b][k] # NoRecord <=> k \in To(m, b))
    <3>1. \A k \in Lbas : ~At(b, k).neg
      BY DEF NoRecord
    <3>2. \A k \in Lbas : k \in To(m, b) => At(b, k).val # 0
      BY <1>2
    <3>3. \A k \in Lbas : At(b, k) # NoRecord <=> k \in To(m, b)
      BY <3>2 DEF NoRecord
    <3> HIDE DEF At, outs
    <3> QED BY <2>1, <3>1, <3>3
  <2>3. To(m, b) \subseteq Lbas
    BY <1>2 DEF Yields
  <2>4. KeysIn(outs[b]) = To(m, b)
    <3> HIDE DEF outs
    <3> QED BY <2>2, <2>3 DEF KeysIn
  <2>5. NrRecord(outs[b]) = Cardinality(KeysIn(outs[b]))
    <3> HIDE DEF outs
    <3> QED BY <1>6, <2>2, ValuesOnly
  <2>6. b \in Nat \ {0}
    BY <1>1
  <2>7. Cardinality(To(m, b)) <= Capacity
    BY <2>6, BuilderRoom
  <2> HIDE DEF outs, At
  <2> QED BY <2>1, <2>4, <2>5, <2>7
<1> HIDE DEF outs, At
<1> QED BY <1>8, <1>9 DEF outs, At, c

(* A sequence of files has no more keys than its files have room for. *)
LEMMA KeysOfBound ==
  ASSUME NEW S, NEW fs \in Seq(S), \A f \in S : Cardinality(KeysIn(files[f].ents)) <= Capacity
  PROVE  /\ KeysOf(fs) \subseteq Lbas /\ IsFiniteSet(KeysOf(fs))
         /\ Cardinality(KeysOf(fs)) <= Capacity * Len(fs)
<1> DEFINE Ks(f) == KeysIn(files[f].ents)
           U(i) == UNION {Ks(fs[j]) : j \in 1 .. i}
           P == {i \in 0 .. Len(fs) : IsFiniteSet(U(i)) /\ Cardinality(U(i)) <= Capacity * i}
<1>1. Len(fs) \in Nat /\ \A j \in 1 .. Len(fs) : fs[j] \in S
  OBVIOUS
<1>2. Capacity \in Nat
  BY LsmAssumption
<1>3. \A f \in S : IsFiniteSet(Ks(f)) /\ Cardinality(Ks(f)) \in Nat /\ Cardinality(Ks(f)) <= Capacity
  BY KeysInIs
<1>4. 0 \in P
  <2>1. U(0) = {}
    OBVIOUS
  <2>2. Capacity * 0 = 0
    BY <1>2
  <2>3. IsFiniteSet({}) /\ Cardinality({}) = 0
    BY FS_EmptySet
  <2> HIDE DEF U
  <2>4. IsFiniteSet(U(0)) /\ Cardinality(U(0)) = 0
    BY <2>1, <2>3
  <2>5. Cardinality(U(0)) <= Capacity * 0
    BY <2>2, <2>4
  <2> QED BY <1>1, <2>4, <2>5
<1>5. ASSUME NEW i \in 0 .. Len(fs) - 1, i \in P PROVE i + 1 \in P
  <2> DEFINE k == Ks(fs[i + 1])
  <2>1. U(i + 1) = U(i) \cup k
    <3>1. \A j \in 1 .. i + 1 : j \in 1 .. i \/ j = i + 1
      OBVIOUS
    <3>2. i + 1 \in 1 .. i + 1 /\ \A j \in 1 .. i : j \in 1 .. i + 1
      OBVIOUS
    <3> HIDE DEF Ks
    <3> QED BY <3>1, <3>2
  <2>2. fs[i + 1] \in S /\ i + 1 \in 0 .. Len(fs) /\ i \in Nat
    BY <1>1
  <2>3. IsFiniteSet(k) /\ Cardinality(k) \in Nat /\ Cardinality(k) <= Capacity
    BY <1>3, <2>2
  <2>4. IsFiniteSet(U(i)) /\ Cardinality(U(i)) <= Capacity * i
    BY <1>5
  <2> HIDE DEF U, k
  <2>5. /\ IsFiniteSet(U(i) \cup k)
        /\ Cardinality(U(i) \cup k) = Cardinality(U(i)) + Cardinality(k) - Cardinality(U(i) \cap k)
    BY <2>3, <2>4, FS_Union
  <2>6. Cardinality(U(i)) \in Nat /\ Cardinality(U(i) \cap k) \in Nat
    BY <2>3, <2>4, FS_Intersection, FS_CardinalityType
  <2>7. Capacity * (i + 1) = Capacity * i + Capacity /\ Capacity * i \in Nat
    BY <1>2, <2>2
  <2> DEFINE x == Capacity * i
             y == Capacity * (i + 1)
  <2>8. x \in Nat /\ y = x + Capacity /\ Cardinality(U(i)) <= x
    BY <2>4, <2>7
  <2> HIDE DEF x, y
  <2>9. Cardinality(U(i + 1)) <= y
    <3> DEFINE u == Cardinality(U(i))
               v == Cardinality(k)
               w == Cardinality(U(i) \cap k)
    <3>1. u \in Nat /\ v \in Nat /\ w \in Nat /\ v <= Capacity /\ u <= x
      BY <2>3, <2>6, <2>8
    <3>2. Cardinality(U(i + 1)) = u + v - w
      BY <2>1, <2>5
    <3> HIDE DEF u, v, w
    <3> QED BY <1>2, <2>8, <3>1, <3>2
  <2> QED BY <2>1, <2>2, <2>5, <2>9 DEF y
<1>6. Len(fs) \in P
  <2>1. \A i \in 0 .. Len(fs) : i \in P
    <3> HIDE DEF P
    <3> QED BY <1>1, <1>4, <1>5, UpTo
  <2>2. Len(fs) \in 0 .. Len(fs)
    BY <1>1
  <2> HIDE DEF P
  <2> QED BY <2>1, <2>2
<1>7. KeysOf(fs) = U(Len(fs))
  <2>1. Range(fs) = {fs[j] : j \in 1 .. Len(fs)}
    BY RangeIs
  <2> QED BY <2>1 DEF KeysOf
<1>8. KeysOf(fs) \subseteq Lbas
  <2>1. \A f : Ks(f) \subseteq Lbas
    BY KeysInIs
  <2> QED BY <2>1 DEF KeysOf
<1> HIDE DEF U
<1> QED BY <1>6, <1>7, <1>8

(* A merge of one file with r others needs at most r + 1 files. *)
LEMMA OutputsFew ==
  ASSUME NEW m, Yields(m), NEW r \in Nat, Cardinality(DOMAIN m) <= Capacity * (r + 1)
  PROVE  NrFull(m) <= r
<1>1. /\ IsFiniteSet(DOMAIN m) /\ Cardinality(Body(m)) \in Nat /\ Max(DOMAIN m) \in DOMAIN m
      /\ Body(m) \subseteq DOMAIN m \ {Max(DOMAIN m)}
  BY BodyIs
<1> DEFINE X == DOMAIN m \ {Max(DOMAIN m)}
<1>2. IsFiniteSet(X) /\ Cardinality(X) = Cardinality(DOMAIN m) - 1
  BY <1>1, FS_RemoveElement
<1>3. Cardinality(Body(m)) <= Cardinality(X)
  <2> HIDE DEF X
  <2> QED BY <1>1, <1>2, FS_Subset DEF X
<1>4. Cardinality(DOMAIN m) \in Nat
  BY <1>1, FS_CardinalityType
<1>5. Capacity * (r + 1) \in Nat /\ Capacity \in Nat \ {0}
  BY LsmAssumption
<1> DEFINE z == Capacity * (r + 1)
<1> HIDE DEF z, X
<1>6. Cardinality(Body(m)) < z
  BY <1>1, <1>2, <1>3, <1>4, <1>5 DEF z
<1> QED BY <1>1, <1>5, <1>6, DivLess DEF z, NrFull

-----------------------------------------------------------------------------
(* The merge of one key. *)

FileTypes == [level : {-1, 0, 1}, ver : Nat, ents : Entries]

Kept(f, rec, new, old) == [dist |-> [f |-> f, rec |-> rec], new |-> new, old |-> old]

LEMMA MetIs ==
  ASSUME NEW f, NEW rec, NEW new, NEW old, NEW g, NEW e,
         files[f].ver \in Nat, files[g].ver \in Nat
  PROVE  Met(Kept(f, rec, new, old), g, e) =
           IF e = 0 THEN Kept(f, rec, new, old)
           ELSE IF files[f].ver < files[g].ver THEN Kept(g, e, new, rec)
           ELSE IF f # g THEN Kept(f, rec, new, e)
           ELSE IF rec # e THEN Kept(f, e, rec, old)
           ELSE Kept(f, rec, new, old)
<1> DEFINE s == Kept(f, rec, new, old)
           x == [f |-> g, rec |-> e]
<1>1. s.dist = [f |-> f, rec |-> rec] /\ s.new = new /\ s.old = old
  BY DEF Kept
<1>2. s.dist.f = f /\ s.dist.rec = rec /\ x.f = g /\ x.rec = e
  BY <1>1
<1>3. Met(s, g, e) = IF e = 0 THEN s ELSE MergeStep(s, x)
  BY DEF Met
<1>4. MergeStep(s, x) =
        IF files[f].ver < files[g].ver THEN [dist |-> x, new |-> new, old |-> rec]
        ELSE IF f # g THEN [dist |-> s.dist, new |-> new, old |-> e]
        ELSE IF rec # e THEN [dist |-> x, new |-> rec, old |-> old] ELSE s
  <2> HIDE DEF s, x
  <2> QED BY <1>1, <1>2 DEF MergeStep
<1>5. /\ [dist |-> x, new |-> new, old |-> rec] = Kept(g, e, new, rec)
      /\ [dist |-> s.dist, new |-> new, old |-> e] = Kept(f, rec, new, e)
      /\ f = g => [dist |-> x, new |-> rec, old |-> old] = Kept(f, e, rec, old)
  BY <1>1 DEF Kept
<1>6. s = Kept(f, rec, new, old)
  OBVIOUS
<1> HIDE DEF x, s
<1> QED BY <1>3, <1>4, <1>5, <1>6

ValIn(f, k) == files[f].ents[k].val
NegIn(f, k) == files[f].ents[k].neg

LEMMA FirstIs ==
  ASSUME NEW es \in Entries, NEW k \in KeysIn(es)
  PROVE  /\ es[k].val \in Nat /\ es[k].neg \in BOOLEAN /\ es[k].val # NEG /\ k \in Lbas
         /\ es[k].val = 0 => es[k].neg
         /\ First(es, k) = IF es[k].val # 0 THEN es[k].val ELSE NEG
         /\ First(es, k) # 0
         /\ Second(es, k) = IF es[k].val # 0 /\ es[k].neg THEN NEG ELSE 0
<1>1. k \in Lbas /\ es[k] # NoRecord
  BY DEF KeysIn
<1>2. es[k] \in Records
  BY <1>1 DEF Entries
<1>3. es[k].val \in Nat /\ es[k].neg \in BOOLEAN /\ (es[k].val # 0 \/ es[k].neg)
  BY <1>1, <1>2 DEF Records, NoRecord
<1> QED BY <1>1, <1>3 DEF First, Second, NEG

LEMMA MergeKeyOne ==
  ASSUME NEW f, files[f] \in FileTypes, NEW k \in KeysIn(files[f].ents)
  PROVE  MergeKey(k, f, f) = [add |-> ValIn(f, k), back |-> 0]
<1> DEFINE v == ValIn(f, k)
           a == First(files[f].ents, k)
           b == Second(files[f].ents, k)
           s0 == Kept(f, a, 0, 0)
           s1 == Met(s0, f, a)
           s2 == Met(s1, f, b)
           s == Met(s2, f, b)
<1>1. files[f].ver \in Nat /\ files[f].ents \in Entries /\ ~(files[f].ver < files[f].ver)
  BY DEF FileTypes
<1>2. /\ v \in Nat /\ v # NEG /\ NegIn(f, k) \in BOOLEAN /\ (v = 0 => NegIn(f, k))
      /\ a = (IF v # 0 THEN v ELSE NEG) /\ a # 0 /\ b = (IF v # 0 /\ NegIn(f, k) THEN NEG ELSE 0)
  BY <1>1, FirstIs DEF ValIn, NegIn
<1>3. MergeKey(k, f, f) = IF s.dist.rec = NEG THEN [add |-> s.new, back |-> 0]
                          ELSE [add |-> s.dist.rec, back |-> s.old]
  BY DEF MergeKey, Kept
<1> HIDE DEF v, a, b
<1>4. s1 = s0
  BY <1>1, <1>2, MetIs
<1>5. NEG # 0
  BY DEF NEG
<1>6. CASE b = 0
  <2>1. s2 = s0 /\ s = s0
    BY <1>1, <1>4, <1>6, MetIs
  <2> HIDE DEF s
  <2> QED BY <1>2, <1>3, <1>5, <1>6, <2>1 DEF Kept, v
<1>7. CASE b # 0
  <2>1. b = NEG /\ a = v /\ v # NEG
    BY <1>2, <1>7
  <2>2. s2 = Kept(f, NEG, v, 0)
    BY <1>1, <1>4, <1>5, <2>1, MetIs
  <2>3. s = Kept(f, NEG, v, 0)
    <3>1. Met(Kept(f, NEG, v, 0), f, b) = Kept(f, NEG, v, 0)
      BY <1>1, <1>5, <2>1, MetIs
    <3> HIDE DEF s2
    <3> QED BY <2>2, <3>1
  <2> HIDE DEF s
  <2> QED BY <1>3, <2>3 DEF Kept, v
<1> QED BY <1>6, <1>7

(* The newer file decides what is added; the block of the older record is  *)
(* returned unless there is a negative record.                             *)
Superseded(d, r, k) == IF NegIn(d, k) THEN 0 ELSE IF NegIn(r, k) THEN NEG ELSE ValIn(r, k)

LEMMA MergeKeyTwo ==
  ASSUME NEW d, NEW r, files[d] \in FileTypes, files[r] \in FileTypes, files[r].ver < files[d].ver,
         NEW k \in KeysIn(files[d].ents) \cap KeysIn(files[r].ents)
  PROVE  /\ MergeKey(k, d, r) = [add |-> ValIn(d, k), back |-> Superseded(d, r, k)]
         /\ MergeKey(k, r, d) = [add |-> ValIn(d, k), back |-> Superseded(d, r, k)]
<1> DEFINE v == ValIn(d, k)
           w == ValIn(r, k)
           a == First(files[d].ents, k)
           b == Second(files[d].ents, k)
           e == First(files[r].ents, k)
           h == Second(files[r].ents, k)
           Result(s) == IF s.dist.rec = NEG THEN [add |-> s.new, back |-> 0]
                        ELSE [add |-> s.dist.rec, back |-> s.old]
           o == IF h = 0 THEN e ELSE h
           z == IF b = 0 THEN Kept(d, a, 0, o) ELSE Kept(d, b, a, o)
<1>1. /\ files[d].ver \in Nat /\ files[r].ver \in Nat /\ ~(files[d].ver < files[r].ver) /\ d # r
      /\ ~(files[d].ver < files[d].ver) /\ ~(files[r].ver < files[r].ver)
      /\ files[d].ents \in Entries /\ files[r].ents \in Entries
  BY DEF FileTypes
<1>2. /\ v \in Nat /\ v # NEG /\ NegIn(d, k) \in BOOLEAN /\ (v = 0 => NegIn(d, k))
      /\ a = (IF v # 0 THEN v ELSE NEG) /\ a # 0 /\ b = (IF v # 0 /\ NegIn(d, k) THEN NEG ELSE 0)
  BY <1>1, FirstIs DEF ValIn, NegIn
<1>3. /\ w \in Nat /\ w # NEG /\ NegIn(r, k) \in BOOLEAN /\ (w = 0 => NegIn(r, k))
      /\ e = (IF w # 0 THEN w ELSE NEG) /\ e # 0 /\ h = (IF w # 0 /\ NegIn(r, k) THEN NEG ELSE 0)
  BY <1>1, FirstIs DEF ValIn, NegIn
<1>4. MergeKey(k, d, r) = Result(Met(Met(Met(Kept(d, a, 0, 0), r, e), d, b), r, h))
  BY DEF MergeKey, Kept
<1>5. MergeKey(k, r, d) = Result(Met(Met(Met(Kept(r, e, 0, 0), d, a), r, h), d, b))
  BY DEF MergeKey, Kept
<1>6. NEG # 0 /\ (b # 0 => b = NEG /\ a # b)
  BY <1>2 DEF NEG
<1>7. Result(z) = [add |-> v, back |-> Superseded(d, r, k)]
  <2>1. o = IF NegIn(r, k) THEN NEG ELSE w
    BY <1>3, <1>6
  <2>2. CASE b = 0
    <3>1. z = Kept(d, a, 0, o)
      BY <2>2
    <3>2. Result(Kept(d, a, 0, o)) = IF a = NEG THEN [add |-> 0, back |-> 0] ELSE [add |-> a, back |-> o]
      BY DEF Kept
    <3>3. a = NEG <=> NegIn(d, k)
      BY <1>2, <2>2, <1>6
    <3> HIDE DEF v, w, a, b, e, h, z, o, Result
    <3> QED BY <1>2, <2>1, <3>1, <3>2, <3>3 DEF Superseded, w
  <2>3. CASE b # 0
    <3>1. z = Kept(d, NEG, a, o)
      BY <2>3, <1>6
    <3>2. Result(Kept(d, NEG, a, o)) = [add |-> a, back |-> 0]
      BY DEF Kept
    <3>3. a = v /\ NegIn(d, k)
      BY <1>2, <2>3
    <3> HIDE DEF v, w, a, b, e, h, z, o, Result
    <3> QED BY <3>1, <3>2, <3>3 DEF Superseded
  <2> QED BY <2>2, <2>3
<1> HIDE DEF v, w, a, b, e, h, Result
<1>8. Met(Met(Met(Kept(d, a, 0, 0), r, e), d, b), r, h) = z
  <2>1. Met(Kept(d, a, 0, 0), r, e) = Kept(d, a, 0, e)
    BY <1>1, <1>3, MetIs
  <2>2. Met(Kept(d, a, 0, e), d, b) = IF b = 0 THEN Kept(d, a, 0, e) ELSE Kept(d, b, a, e)
    BY <1>1, <1>6, MetIs
  <2>3. \A x, y : Met(Kept(d, x, y, e), r, h) = Kept(d, x, y, o)
    BY <1>1, MetIs
  <2> HIDE DEF o
  <2> QED BY <2>1, <2>2, <2>3
<1>9. Met(Met(Met(Kept(r, e, 0, 0), d, a), r, h), d, b) = z
  <2>1. Met(Kept(r, e, 0, 0), d, a) = Kept(d, a, 0, e)
    BY <1>1, <1>2, MetIs
  <2>2. Met(Kept(d, a, 0, e), r, h) = Kept(d, a, 0, o)
    BY <1>1, MetIs
  <2> HIDE DEF o
  <2>3. Met(Kept(d, a, 0, o), d, b) = IF b = 0 THEN Kept(d, a, 0, o) ELSE Kept(d, b, a, o)
    BY <1>1, <1>6, MetIs
  <2> QED BY <2>1, <2>2, <2>3
<1> HIDE DEF z
<1> QED BY <1>4, <1>5, <1>7, <1>8, <1>9 DEF v

(* The merge of a newer file with files that share no key. *)
Disjoint(fs) == \A f, g \in Range(fs) :
  KeysIn(files[f].ents) \cap KeysIn(files[g].ents) # {} => f = g

LEMMA FileOfIs ==
  ASSUME NEW fs, Disjoint(fs), NEW f \in Range(fs), NEW k \in KeysIn(files[f].ents)
  PROVE  FileOf(fs, k) = f /\ k \in KeysOf(fs)
<1> DEFINE g == FileOf(fs, k)
<1>1. g \in Range(fs) /\ k \in KeysIn(files[g].ents)
  BY DEF FileOf
<1>2. g = f
  BY <1>1 DEF Disjoint
<1>3. k \in KeysOf(fs)
  BY DEF KeysOf
<1> QED BY <1>2, <1>3

LEMMA InFileOf ==
  ASSUME NEW fs, NEW k \in KeysOf(fs)
  PROVE  \E f \in Range(fs) : k \in KeysIn(files[f].ents)
BY DEF KeysOf

MergedTo(m, dem, rel) ==
  LET d == dem[1] IN
  /\ DOMAIN m = KeysOf(dem) \cup KeysOf(rel)
  /\ \A k \in KeysIn(files[d].ents) : m[k].add = ValIn(d, k)
  /\ \A k \in KeysIn(files[d].ents) \ KeysOf(rel) : m[k].back = 0
  /\ \A r \in Range(rel) : \A k \in KeysIn(files[r].ents) :
       IF k \in KeysIn(files[d].ents) THEN m[k].back = Superseded(d, r, k)
       ELSE m[k].add = ValIn(r, k) /\ m[k].back = 0

LEMMA MergeIs ==
  ASSUME NEW d, NEW dem, Range(dem) = {d}, dem[1] = d, NEW rel, Disjoint(rel), NEW lead,
         files[d] \in FileTypes,
         \A r \in Range(rel) : files[r] \in FileTypes /\ files[r].ver < files[d].ver
  PROVE  MergedTo(Merge(dem, rel, lead), dem, rel)
<1> DEFINE m == Merge(dem, rel, lead)
           K == KeysIn(files[d].ents)
           At(k) == LET x == FileOf(IF k \in KeysOf(dem) THEN dem ELSE rel, k)
                        r == FileOf(IF k \in KeysOf(rel) THEN rel ELSE dem, k)
                    IN IF k \in lead THEN MergeKey(k, x, r) ELSE MergeKey(k, r, x)
<1>1. m = [k \in KeysOf(dem) \cup KeysOf(rel) |-> At(k)]
  BY DEF Merge
<1>2. KeysOf(dem) = K /\ Disjoint(dem)
  BY DEF KeysOf, Disjoint
<1> HIDE DEF m, At
<1>3. DOMAIN m = KeysOf(dem) \cup KeysOf(rel)
  BY <1>1
<1>4. ASSUME NEW k \in K, k \notin KeysOf(rel) PROVE m[k] = [add |-> ValIn(d, k), back |-> 0]
  <2>1. FileOf(dem, k) = d /\ k \in KeysOf(dem)
    BY <1>2, <1>4, FileOfIs
  <2>2. At(k) = MergeKey(k, d, d)
    BY <1>4, <2>1 DEF At
  <2> QED BY <1>1, <1>4, <2>1, <2>2, MergeKeyOne
<1>5. ASSUME NEW r \in Range(rel), NEW k \in KeysIn(files[r].ents), k \notin K
      PROVE  m[k] = [add |-> ValIn(r, k), back |-> 0]
  <2>1. FileOf(rel, k) = r /\ k \in KeysOf(rel) /\ k \notin KeysOf(dem)
    BY <1>2, <1>5, FileOfIs
  <2>2. At(k) = MergeKey(k, r, r)
    BY <2>1 DEF At
  <2> QED BY <1>1, <2>1, <2>2, MergeKeyOne
<1>6. ASSUME NEW r \in Range(rel), NEW k \in KeysIn(files[r].ents), k \in K
      PROVE  m[k] = [add |-> ValIn(d, k), back |-> Superseded(d, r, k)]
  <2>1. FileOf(rel, k) = r /\ k \in KeysOf(rel)
    BY FileOfIs
  <2>2. FileOf(dem, k) = d /\ k \in KeysOf(dem)
    BY <1>2, <1>6, FileOfIs
  <2>3. At(k) = MergeKey(k, d, r) \/ At(k) = MergeKey(k, r, d)
    BY <2>1, <2>2 DEF At
  <2>4. k \in KeysIn(files[d].ents) \cap KeysIn(files[r].ents)
    BY <1>6
  <2>5. At(k) = [add |-> ValIn(d, k), back |-> Superseded(d, r, k)]
    BY <2>3, <2>4, MergeKeyTwo
  <2> QED BY <1>1, <2>1, <2>5
<1>7. ASSUME NEW k \in K PROVE m[k].add = ValIn(d, k)
  <2>1. CASE k \notin KeysOf(rel)
    <3>1. m[k] = [add |-> ValIn(d, k), back |-> 0]
      BY <1>4, <2>1
    <3> QED BY <3>1
  <2>2. CASE k \in KeysOf(rel)
    <3>1. PICK r \in Range(rel) : k \in KeysIn(files[r].ents)
      BY <2>2, InFileOf
    <3>2. m[k] = [add |-> ValIn(d, k), back |-> Superseded(d, r, k)]
      BY <1>6, <3>1
    <3> QED BY <3>2
  <2> QED BY <2>1, <2>2
<1>8. ASSUME NEW k \in K \ KeysOf(rel) PROVE m[k].back = 0
  <2>1. m[k] = [add |-> ValIn(d, k), back |-> 0]
    BY <1>4
  <2> QED BY <2>1
<1>9. ASSUME NEW r \in Range(rel), NEW k \in KeysIn(files[r].ents)
      PROVE  IF k \in K THEN m[k].back = Superseded(d, r, k) ELSE m[k].add = ValIn(r, k) /\ m[k].back = 0
  <2>1. CASE k \in K
    <3>1. m[k] = [add |-> ValIn(d, k), back |-> Superseded(d, r, k)]
      BY <1>6, <2>1
    <3> QED BY <2>1, <3>1
  <2>2. CASE k \notin K
    <3>1. m[k] = [add |-> ValIn(r, k), back |-> 0]
      BY <1>5, <2>2
    <3> QED BY <2>2, <3>1
  <2> QED BY <2>1, <2>2
<1> QED BY <1>3, <1>7, <1>8, <1>9 DEF MergedTo, m

(* What the merge adds are numbers of records. *)
LEMMA MergeYields ==
  ASSUME NEW d, NEW dem, Range(dem) = {d}, dem[1] = d, NEW rel, NEW m, MergedTo(m, dem, rel),
         files[d] \in FileTypes, KeysIn(files[d].ents) # {},
         \A r \in Range(rel) : files[r] \in FileTypes
  PROVE  Yields(m)
<1>1. KeysOf(dem) = KeysIn(files[d].ents)
  BY DEF KeysOf
<1>2. ASSUME NEW f, files[f] \in FileTypes, NEW k \in KeysIn(files[f].ents) PROVE ValIn(f, k) \in Nat /\ k \in Lbas
  <2>1. files[f].ents \in Entries
    BY <1>2 DEF FileTypes
  <2> QED BY <2>1, FirstIs DEF ValIn
<1>3. DOMAIN m = KeysOf(dem) \cup KeysOf(rel)
  BY DEF MergedTo
<1>4. ASSUME NEW k \in DOMAIN m PROVE k \in Lbas /\ m[k].add \in Nat
  <2>1. CASE k \in KeysIn(files[d].ents)
    BY <1>2, <2>1 DEF MergedTo
  <2>2. CASE k \notin KeysIn(files[d].ents)
    <3>1. PICK r \in Range(rel) : k \in KeysIn(files[r].ents)
      BY <1>1, <1>3, <2>2, InFileOf
    <3>2. m[k].add = ValIn(r, k)
      BY <2>2, <3>1 DEF MergedTo
    <3> QED BY <1>2, <3>1, <3>2
  <2> QED BY <2>1, <2>2
<1> QED BY <1>1, <1>3, <1>4 DEF Yields

-----------------------------------------------------------------------------
(* The memtable's counter. *)

LEMMA CountAdd ==
  ASSUME NEW V, NEW W, NEW k, IsFiniteSet(V), W = V \cup {k}
  PROVE  /\ IsFiniteSet(W) /\ Cardinality(V) \in Nat
         /\ Cardinality(W) = Cardinality(V) - One(k \in V) + 1
<1>1. Cardinality(V) \in Nat
  BY FS_CardinalityType
<1>2. IsFiniteSet(W) /\ Cardinality(W) = IF k \in V THEN Cardinality(V) ELSE Cardinality(V) + 1
  BY FS_AddElement
<1> QED BY <1>1, <1>2 DEF One

LEMMA CountRemove ==
  ASSUME NEW V, NEW W, NEW k, IsFiniteSet(V), W = V \ {k}
  PROVE  /\ IsFiniteSet(W) /\ Cardinality(V) \in Nat
         /\ Cardinality(W) = Cardinality(V) - One(k \in V)
<1>1. Cardinality(V) \in Nat
  BY FS_CardinalityType
<1>2. IsFiniteSet(W) /\ Cardinality(W) = IF k \in V THEN Cardinality(V) - 1 ELSE Cardinality(V)
  BY FS_RemoveElement
<1> QED BY <1>1, <1>2 DEF One

Tables == [ents : Entries, size : Int]

LEMMA MemPutIs ==
  ASSUME mem \in Tables, NEW k \in Lbas, NEW r \in Nat \ {0}, mem.size = NrRecord(mem.ents)
  PROVE  LET t == MemPut(k, r)
         IN /\ t \in Tables /\ t.size = NrRecord(t.ents)
            /\ t.size \in {mem.size, mem.size + 1}
            /\ t.ents = [mem.ents EXCEPT ![k] = [val |-> r, neg |-> mem.ents[k].neg]]
<1> DEFINE es == mem.ents
           rec == [val |-> r, neg |-> es[k].neg]
           fs == [es EXCEPT ![k] = rec]
           V == {l \in Lbas : es[l].val # 0}
           G == {l \in Lbas : es[l].neg}
           W == {l \in Lbas : fs[l].val # 0}
           H == {l \in Lbas : fs[l].neg}
           t == MemPut(k, r)
<1>1. es \in Entries /\ es[k] \in Records /\ mem.size \in Int
  BY DEF Tables, Entries
<1>2. rec \in Records /\ fs \in Entries
  <2>1. rec \in Records
    BY <1>1 DEF Records
  <2> HIDE DEF rec
  <2> QED BY <1>1, <2>1 DEF Entries
<1>3. [es EXCEPT ![k].val = r] = fs
  <2>1. [es[k] EXCEPT !.val = r] = rec
    BY <1>1 DEF Records
  <2> QED BY <1>1, <2>1 DEF Entries
<1>4. t.ents = fs /\ t.size = mem.size - One(es[k].val # 0) + 1 /\ t = [ents |-> t.ents, size |-> t.size]
  BY <1>3 DEF MemPut
<1>5. W = V \cup {k} /\ H = G /\ (k \in V <=> es[k].val # 0)
  <2>1. \A l \in Lbas : fs[l] = IF l = k THEN rec ELSE es[l]
    BY <1>1 DEF Entries
  <2>2. rec.val # 0 /\ rec.neg = es[k].neg
    OBVIOUS
  <2> HIDE DEF rec, fs
  <2> QED BY <2>1, <2>2
<1>6. IsFiniteSet(V) /\ IsFiniteSet(G)
  BY KeysNat, FS_Subset
<1>7. NrRecord(es) = Cardinality(V) + Cardinality(G) /\ NrRecord(fs) = Cardinality(W) + Cardinality(H)
  BY DEF NrRecord
<1> HIDE DEF V, W, G, H, t, fs
<1>8. Cardinality(V) \in Nat /\ Cardinality(W) = Cardinality(V) - One(es[k].val # 0) + 1
  <2>1. Cardinality(V) \in Nat /\ Cardinality(W) = Cardinality(V) - One(k \in V) + 1
    BY <1>5, <1>6, CountAdd
  <2>2. One(k \in V) = One(es[k].val # 0)
    BY <1>5 DEF One
  <2> QED BY <2>1, <2>2
<1>9. Cardinality(G) \in Nat
  BY <1>6, FS_CardinalityType
<1>10. One(es[k].val # 0) \in {0, 1}
  BY DEF One
<1>11. t.size = NrRecord(t.ents)
  BY <1>4, <1>5, <1>7, <1>8, <1>9, <1>10
<1>12. t.size \in {mem.size, mem.size + 1} /\ t.size \in Int
  BY <1>1, <1>4, <1>10
<1>13. t \in Tables
  BY <1>2, <1>4, <1>12 DEF Tables
<1> QED BY <1>4, <1>11, <1>12, <1>13 DEF t, fs

LEMMA MemPutNegativeIs ==
  ASSUME mem \in Tables, NEW k \in Lbas, mem.size = NrRecord(mem.ents)
  PROVE  LET t == MemPutNegative(k)
         IN /\ t \in Tables /\ t.size = NrRecord(t.ents)
            /\ t.size \in {mem.size - 1, mem.size, mem.size + 1}
            /\ t.ents = [mem.ents EXCEPT ![k] = [val |-> 0, neg |-> TRUE]]
<1> DEFINE es == mem.ents
           rec == [val |-> 0, neg |-> TRUE]
           fs == [es EXCEPT ![k] = rec]
           V == {l \in Lbas : es[l].val # 0}
           G == {l \in Lbas : es[l].neg}
           W == {l \in Lbas : fs[l].val # 0}
           H == {l \in Lbas : fs[l].neg}
           t == MemPutNegative(k)
<1>1. es \in Entries /\ es[k] \in Records /\ mem.size \in Int
  BY DEF Tables, Entries
<1>2. rec \in Records /\ fs \in Entries
  <2>1. rec \in Records
    BY DEF Records
  <2> HIDE DEF rec
  <2> QED BY <1>1, <2>1 DEF Entries
<1>4. t.ents = fs /\ t.size = mem.size - One(es[k].val # 0) - One(es[k].neg) + 1 /\ t = [ents |-> t.ents, size |-> t.size]
  BY DEF MemPutNegative
<1>5. W = V \ {k} /\ H = G \cup {k} /\ (k \in V <=> es[k].val # 0) /\ (k \in G <=> es[k].neg)
  <2>1. \A l \in Lbas : fs[l] = IF l = k THEN rec ELSE es[l]
    BY <1>1 DEF Entries
  <2>2. rec.val = 0 /\ rec.neg
    OBVIOUS
  <2> HIDE DEF rec, fs
  <2> QED BY <2>1, <2>2
<1>6. IsFiniteSet(V) /\ IsFiniteSet(G)
  BY KeysNat, FS_Subset
<1>7. NrRecord(es) = Cardinality(V) + Cardinality(G) /\ NrRecord(fs) = Cardinality(W) + Cardinality(H)
  BY DEF NrRecord
<1> HIDE DEF V, W, G, H, t, fs
<1>8. Cardinality(V) \in Nat /\ Cardinality(W) = Cardinality(V) - One(k \in V)
  BY <1>5, <1>6, CountRemove
<1>9. Cardinality(G) \in Nat /\ Cardinality(H) = Cardinality(G) - One(k \in G) + 1
  BY <1>5, <1>6, CountAdd
<1>10. /\ One(es[k].val # 0) \in {0, 1} /\ One(es[k].neg) \in {0, 1}
       /\ One(es[k].val # 0) = One(k \in V) /\ One(es[k].neg) = One(k \in G)
  BY <1>5 DEF One
<1>11. t.size = NrRecord(t.ents)
  BY <1>4, <1>5, <1>7, <1>8, <1>9, <1>10
<1>12. t.size \in {mem.size - 1, mem.size, mem.size + 1} /\ t.size \in Int
  BY <1>1, <1>4, <1>10
<1>13. t \in Tables
  BY <1>2, <1>4, <1>12 DEF Tables
<1> QED BY <1>4, <1>11, <1>12, <1>13 DEF t, fs

-----------------------------------------------------------------------------
(* The inductive invariant: the memtables, the records, the levels with the*)
(* files a running merge has written and not yet installed.                *)

Pcs == {"idle", "major", "move", "minor", "install", "dropdem", "droprel", "level", "empty"}
Merging == {"install", "dropdem", "droprel", "empty"}

Jobs == [pc : Pcs, dem : Seq(Fds), rel : Seq(Fds), adds : Seq(Fds)]

MemOK ==
  /\ mem \in Tables /\ imm \in Tables /\ rotating \in BOOLEAN /\ wq \in Nat
  /\ up \in {"open", "closing", "closed"}
  /\ mem.size = NrRecord(mem.ents) /\ mem.size <= Capacity
  /\ rotating <=> mem.size >= Capacity
  /\ NrRecord(imm.ents) <= Capacity
  /\ imm # NoTable => KeysIn(imm.ents) # {}
  /\ wq > 0 => imm # NoTable
  /\ job.pc # "idle" /\ imm = NoTable => up = "closing" /\ mem.size > 0
  /\ up # "open" => ~rotating
  /\ up = "closed" => wq = 0 /\ job.pc = "idle"

RecordsOK ==
  /\ n \in 0 .. MaxPut /\ rit \in Seq(Lbas \cup {INF}) /\ Len(rit) = n
  /\ negated \in [Lbas -> Nat]

DiskTypes ==
  /\ files \in [Fds -> FileTypes] /\ l0 \in Seq(Fds) /\ l1 \in Seq(Fds)
  /\ cur \in 0 .. NrFd /\ version \in Nat
  /\ job \in Jobs

(* Files of level 1, in its array or about to be. *)
Held == Range(l1) \cup Range(job.adds)

Left(f, g) == \A a \in KeysIn(files[f].ents), b \in KeysIn(files[g].ents) : a < b
AllApart(F) == \A f, g \in F : f # g => Left(f, g) \/ Left(g, f)

LevelsOK ==
  /\ Len(l0) <= 1 /\ Distinct(l1) /\ Sorted(l1)
  /\ Range(l0) \cap Held = IF job.pc = "move" THEN Range(l0) ELSE {}
  /\ Taken = Range(l0) \cup Held
  /\ \A f \in Range(l0) : files[f].level = IF job.pc = "move" THEN 1 ELSE 0
  /\ \A f \in Held : files[f].level = 1
  /\ job.pc \in {"idle", "major"} /\ l0 = <<>> => l1 = <<>>

FilesOK ==
  /\ \A f \in Taken : NrRecord(files[f].ents) <= Capacity
  /\ \A f \in Taken : KeysIn(files[f].ents) = {} => job.pc = "empty" /\ f \in Range(job.adds)
  /\ AllApart(Held \ Range(job.rel))

JobOK ==
  /\ Distinct(job.adds) /\ Distinct(job.rel) /\ Range(job.adds) \cap Range(l1) = {}
  /\ Range(job.rel) \subseteq Range(l1)
  /\ job.pc \notin Merging => job.rel = <<>>
  /\ job.pc \in Merging => job.rel # <<>>
  /\ job.pc \notin {"install", "empty"} => job.adds = <<>>
  /\ job.pc = "install" => job.adds # <<>>
  /\ job.pc \in {"install", "dropdem", "empty"} => job.dem = l0 /\ l0 # <<>>
  /\ job.pc \in {"minor", "droprel"} => l0 = <<>>
  /\ job.pc = "move" => l0 # <<>>

CountsOK ==
  /\ Len(l1) + Len(job.adds) <= NrFd - 1
  /\ Len(l1) + Len(job.adds) <= LevelCapacity + Len(job.rel)

VersionsOK ==
  /\ \A f \in Held : files[f].ver < version
  /\ \A f \in Range(l0) : files[f].ver <= version
  /\ job.pc \in {"idle", "major", "level"} =>
       \A f \in Range(l0), g \in Range(l1) : files[g].ver < files[f].ver

Disk == DiskTypes /\ LevelsOK /\ FilesOK /\ JobOK /\ CountsOK /\ VersionsOK

-----------------------------------------------------------------------------
LEMMA SortedNext ==
  ASSUME NEW S, l1' \in Seq(S), Sorted(l1'), \A f \in S : files'[f].ents = files[f].ents
  PROVE  Sorted(l1)'
<1>1. \A f \in S : FirstKey(f)' = FirstKey(f) /\ LastKey(f)' = LastKey(f)
  BY DEF FirstKey, LastKey
<1>2. \A i \in DOMAIN l1' : l1'[i] \in S
  OBVIOUS
<1>3. \A f, g \in S : FileBefore(f, g)' = FileBefore(f, g)
  BY <1>1 DEF FileBefore, FirstKey, LastKey
<1> QED BY <1>2, <1>3 DEF Sorted, FileBefore, FirstKey, LastKey

LEMMA EmptyRange == Range(<<>>) = {} /\ Distinct(<<>>) /\ \A S : <<>> \in Seq(S) /\ Len(<<>>) = 0
BY DEF Range, Distinct

LEMMA InitDisk == Init => Disk
<1> SUFFICES ASSUME Init PROVE Disk
  OBVIOUS
<1>1. NoFile \in FileTypes
  BY NoEntriesIs DEF NoFile, FileTypes
<1>2. /\ job = IdleJob /\ job.pc = "idle" /\ job.dem = <<>> /\ job.rel = <<>> /\ job.adds = <<>>
      /\ job \in Jobs
  BY DEF Init, IdleJob, Pcs, Jobs
<1>3. Taken = {} /\ Range(l0) = {} /\ Held = {}
  BY <1>2, EmptyRange DEF Init, Taken, Held
<1>4. DiskTypes
  BY <1>1, <1>2, SlotNumbers DEF Init, DiskTypes
<1>5. LevelsOK
  BY <1>2, <1>3, EmptyRange DEF Init, LevelsOK, Sorted
<1>6. FilesOK
  BY <1>3 DEF FilesOK, AllApart
<1>7. JobOK
  BY <1>2, <1>3, EmptyRange DEF JobOK, Merging, Init
<1>8. CountsOK
  BY <1>2, SlotNumbers, EmptyRange DEF CountsOK, Init
<1>9. VersionsOK
  BY <1>3 DEF VersionsOK
<1> QED BY <1>4, <1>5, <1>6, <1>7, <1>8, <1>9 DEF Disk

LEMMA SameDisk == ASSUME Disk, UNCHANGED disk, UNCHANGED job PROVE Disk'
BY DEF Disk, disk, DiskTypes, LevelsOK, FilesOK, JobOK, CountsOK, VersionsOK, Held, AllApart, Left, Taken,
       Sorted, FileBefore, FirstKey, LastKey

(* The steps that only move the compaction on. *)
JobMoved(pc) ==
  /\ UNCHANGED disk
  /\ job'.pc = pc /\ job'.rel = <<>> /\ job'.adds = <<>>
  /\ job' \in Jobs

Onward(pc) == pc \in {"major", "level", "minor"} /\ (pc = "minor" => l0 = <<>>)

LEMMA JobMovedDisk ==
  ASSUME Disk, job.rel = <<>>, job.adds = <<>>, job.pc \in {"idle", "major"}, NEW pc, JobMoved(pc),
         Onward(pc)
  PROVE  Disk'
<1> USE DEF Onward
<1>1. Held' = Held /\ Taken' = Taken /\ Range(l0)' = Range(l0) /\ Range(l1)' = Range(l1)
  BY DEF Held, Taken, JobMoved, disk
<1>2. DiskTypes'
  BY DEF Disk, DiskTypes, JobMoved, disk
<1>3. LevelsOK'
  <2>1. Sorted(l1)'
    BY DEF Disk, LevelsOK, JobMoved, disk, Sorted, FileBefore, FirstKey, LastKey
  <2> QED BY <1>1, <2>1, EmptyRange DEF Disk, LevelsOK, JobMoved, disk
<1>4. FilesOK'
  <2>1. AllApart(Held \ Range(job.rel))'
    BY <1>1 DEF Disk, FilesOK, JobMoved, disk, AllApart, Left
  <2> QED BY <1>1, <2>1 DEF Disk, FilesOK, JobMoved, disk
<1>5. JobOK'
  BY <1>1, EmptyRange DEF Disk, JobOK, JobMoved, Merging, disk
<1>6. CountsOK'
  BY DEF Disk, CountsOK, JobMoved, disk
<1>7. VersionsOK'
  BY <1>1 DEF Disk, VersionsOK, JobMoved, disk
<1> QED BY <1>2, <1>3, <1>4, <1>5, <1>6, <1>7 DEF Disk

LEMMA JobStepsDisk ==
  ASSUME Disk, WorkerStart \/ SkipMajor \/ LevelFull \/ CloseMemtable
  PROVE  Disk'
<1>1. job \in Jobs /\ (job.pc \notin Merging => job.rel = <<>> /\ job.adds = <<>>)
  BY DEF Disk, DiskTypes, JobOK, Merging
<1>2. CASE WorkerStart \/ CloseMemtable
  <2>1. JobMoved("major") /\ Onward("major") /\ job.pc = "idle"
    <3>1. job' = [IdleJob EXCEPT !.pc = "major"] /\ UNCHANGED disk /\ job.pc = "idle"
      BY <1>2 DEF WorkerStart, CloseMemtable
    <3>2. job' = [pc |-> "major", dem |-> <<>>, rel |-> <<>>, adds |-> <<>>]
      BY <3>1 DEF IdleJob
    <3>3. job' \in Jobs
      BY <3>2 DEF Pcs, Jobs
    <3>4. job'.pc = "major" /\ job'.rel = <<>> /\ job'.adds = <<>>
      BY <3>2
    <3>5. Onward("major")
      BY DEF Onward
    <3> QED BY <3>1, <3>3, <3>4, <3>5 DEF JobMoved
  <2> QED BY <1>1, <2>1, JobMovedDisk DEF Merging
<1>3. CASE SkipMajor
  <2>1. JobMoved("minor") /\ Onward("minor") /\ job.pc = "major" /\ l0 = <<>>
    <3>1. job' = [job EXCEPT !.pc = "minor"] /\ UNCHANGED disk /\ job.pc = "major" /\ Len(l0) = 0
      BY <1>3 DEF SkipMajor
    <3>2. l0 = <<>>
      BY <3>1 DEF Disk, DiskTypes
    <3> QED BY <1>1, <3>1, <3>2 DEF JobMoved, Pcs, Jobs, Merging, Onward
  <2> QED BY <1>1, <2>1, JobMovedDisk DEF Merging
<1>4. CASE LevelFull
  <2>1. JobMoved("level") /\ Onward("level") /\ job.pc = "major"
    <3>1. job' = [job EXCEPT !.pc = "level"] /\ UNCHANGED disk /\ job.pc = "major"
      BY <1>4 DEF LevelFull
    <3>2. Onward("level")
      BY DEF Onward
    <3> QED BY <1>1, <3>1, <3>2 DEF JobMoved, Pcs, Jobs, Merging
  <2> QED BY <1>1, <2>1, JobMovedDisk DEF Merging
<1> QED BY <1>2, <1>3, <1>4

(* Facts about a level of at most one file, and about the levels when no   *)
(* merge has written its output.                                           *)
LEMMA OneFile ==
  ASSUME NEW S, NEW lev \in Seq(S), Len(lev) <= 1, lev # <<>>
  PROVE  Len(lev) = 1 /\ Range(lev) = {lev[1]} /\ lev[1] \in S /\ Tail(lev) = <<>> /\ Head(lev) = lev[1]
<1>1. Len(lev) = 1 /\ lev[1] \in S /\ Head(lev) = lev[1]
  <2>1. Len(lev) \in Nat /\ Len(lev) # 0
    OBVIOUS
  <2>2. \A x \in Nat : x # 0 /\ x <= 1 => x = 1
    OBVIOUS
  <2>3. Len(lev) = 1
    BY <2>1, <2>2
  <2> QED BY <2>3
<1>2. Range(lev) = {lev[1]}
  <2>1. Range(lev) = {lev[i] : i \in 1 .. 1}
    BY <1>1, RangeIs
  <2> QED BY <2>1
<1>3. Tail(lev) \in Seq(S) /\ Len(Tail(lev)) = 0
  BY <1>1
<1>4. Tail(lev) = <<>>
  BY <1>3
<1> QED BY <1>1, <1>2, <1>4

(* Every file with keys spans them. *)
LEMMA TakenSpans ==
  ASSUME Disk, job.pc # "empty"
  PROVE  \A f \in Taken : Spans(f)
BY SpansIs DEF Disk, FilesOK

LEMMA OrderedIs ==
  ASSUME NEW S, NEW lev \in Seq(S), Sorted(lev), Distinct(lev), AllApart(Range(lev)), \A f \in S : Spans(f)
  PROVE  Ordered(lev)
<1> SUFFICES ASSUME NEW i \in 1 .. Len(lev), NEW j \in 1 .. Len(lev), i < j
             PROVE  LastKey(lev[i]) < FirstKey(lev[j])
  BY DEF Ordered
<1> DEFINE f == lev[i]
           g == lev[j]
<1>1. f \in S /\ g \in S /\ DOMAIN lev = 1 .. Len(lev)
  OBVIOUS
<1>2. f # g /\ ~FileBefore(g, f)
  BY <1>1 DEF Sorted, Distinct
<1>3. f \in Range(lev) /\ g \in Range(lev)
  BY <1>1, RangeIs
<1>4. Left(f, g) \/ Left(g, f)
  BY <1>2, <1>3 DEF AllApart
<1> HIDE DEF f, g
<1>5. Spans(f) /\ Spans(g)
  BY <1>1
<1>6. ~Left(g, f)
  <2> SUFFICES ASSUME Left(g, f) PROVE FALSE
    OBVIOUS
  <2>1. FirstKey(g) < FirstKey(f)
    BY <1>5 DEF Left, Spans
  <2> QED BY <1>2, <2>1 DEF FileBefore
<1>7. LastKey(f) < FirstKey(g)
  BY <1>4, <1>5, <1>6 DEF Left, Spans
<1> QED BY <1>7 DEF f, g

LEMMA LeftIs ==
  ASSUME NEW f, NEW g, Spans(f), Spans(g), LastKey(f) < FirstKey(g)
  PROVE  Left(f, g)
<1> SUFFICES ASSUME NEW a \in KeysIn(files[f].ents), NEW b \in KeysIn(files[g].ents) PROVE a < b
  BY DEF Left
<1>1. a <= LastKey(f) /\ FirstKey(g) <= b /\ LastKey(f) \in Nat /\ FirstKey(g) \in Nat
  BY DEF Spans
<1>2. a \in Nat /\ b \in Nat
  BY KeysInIs
<1> QED BY <1>1, <1>2

(* The files outside a section are on one side of it and of the file it is *)
(* a section for.                                                          *)
Beside(f, rel, d) ==
  \/ \A g \in Range(rel) \cup {d} : Left(f, g)
  \/ \A g \in Range(rel) \cup {d} : Left(g, f)

Sectioned(rel, lev, d, S) ==
  /\ rel \in Seq(S) /\ Len(rel) <= Len(lev) /\ Distinct(rel) /\ Range(rel) \subseteq Range(lev)
  /\ Disjoint(rel)
  /\ \A f \in Range(lev) \ Range(rel) : Beside(f, rel, d)

LEMMA SectionIs ==
  ASSUME NEW S, NEW lev \in Seq(S), Ordered(lev), Distinct(lev), NEW d \in S, \A f \in S : Spans(f),
         NEW rel, NEW p \in Nat, NEW q \in Nat, Section(rel, lev, d, p, q)
  PROVE  Sectioned(rel, lev, d, S)
<1>1. /\ p \in 0 .. Len(lev) /\ q \in p .. Len(lev) /\ Len(lev) \in Nat /\ rel = SubSeq(lev, p + 1, q)
      /\ \A i \in 1 .. p : LastKey(lev[i]) < FirstKey(d)
      /\ \A i \in q + 1 .. Len(lev) : LastKey(d) < FirstKey(lev[i])
  BY DEF Section
<1>2. rel \in Seq(S) /\ Len(rel) = q - p /\ \A x \in 1 .. q - p : rel[x] = lev[p + x] /\ p + x \in 1 .. Len(lev)
  BY <1>1
<1>3. DOMAIN rel = 1 .. q - p /\ DOMAIN lev = 1 .. Len(lev)
  BY <1>2
<1>4. Range(rel) = {rel[x] : x \in 1 .. q - p} /\ Range(lev) = {lev[i] : i \in 1 .. Len(lev)}
  BY <1>2, RangeIs
<1>5. Distinct(rel)
  <2> SUFFICES ASSUME NEW x \in 1 .. q - p, NEW y \in 1 .. q - p, rel[x] = rel[y] PROVE x = y
    BY <1>3 DEF Distinct
  <2>1. p + x = p + y
    BY <1>2, <1>3 DEF Distinct
  <2> QED BY <1>1, <2>1
<1>6. Range(rel) \subseteq Range(lev)
  BY <1>2, <1>4
<1>7. \A i \in 1 .. Len(lev) : Spans(lev[i])
  BY <1>1
<1>8. ASSUME NEW i \in 1 .. Len(lev), NEW j \in 1 .. Len(lev), i < j PROVE Left(lev[i], lev[j])
  <2>1. LastKey(lev[i]) < FirstKey(lev[j])
    BY <1>8 DEF Ordered
  <2> QED BY <1>7, <2>1, LeftIs
<1>9. Disjoint(rel)
  <2> SUFFICES ASSUME NEW f \in Range(rel), NEW g \in Range(rel), NEW k \in KeysIn(files[f].ents), k \in KeysIn(files[g].ents)
               PROVE  f = g
    BY DEF Disjoint
  <2>1. PICK i \in 1 .. Len(lev) : f = lev[i]
    BY <1>4, <1>6
  <2>2. PICK j \in 1 .. Len(lev) : g = lev[j]
    BY <1>4, <1>6
  <2>3. k \in Nat /\ ~(k < k)
    BY KeysInIs
  <2>4. ~Left(f, g) /\ ~Left(g, f)
    BY <2>3 DEF Left
  <2>5. ~(i < j) /\ ~(j < i)
    BY <1>8, <2>1, <2>2, <2>4
  <2> QED BY <2>1, <2>2, <2>5
<1>10. ASSUME NEW f \in Range(lev) \ Range(rel) PROVE Beside(f, rel, d)
  <2>1. PICK i \in 1 .. Len(lev) : f = lev[i]
    BY <1>4
  <2>2. i \notin p + 1 .. q
    <3> SUFFICES ASSUME i \in p + 1 .. q PROVE FALSE
      OBVIOUS
    <3>1. i - p \in 1 .. q - p /\ p + (i - p) = i
      BY <1>1
    <3>2. f = rel[i - p]
      BY <1>2, <2>1, <3>1
    <3> QED BY <1>4, <3>1, <3>2
  <2>3. ASSUME NEW g \in Range(rel) PROVE \E j \in p + 1 .. q : g = lev[j] /\ j \in 1 .. Len(lev)
    <3>1. PICK x \in 1 .. q - p : g = rel[x]
      BY <1>4
    <3>2. p + x \in p + 1 .. q
      BY <1>1
    <3> QED BY <1>2, <3>1, <3>2
  <2>4. Spans(f) /\ Spans(d)
    BY <1>7, <2>1
  <2>5. CASE i <= p
    <3>1. LastKey(f) < FirstKey(d)
      BY <1>1, <2>1, <2>5
    <3>2. Left(f, d)
      BY <2>4, <3>1, LeftIs
    <3>3. ASSUME NEW g \in Range(rel) PROVE Left(f, g)
      <4>1. PICK j \in p + 1 .. q : g = lev[j] /\ j \in 1 .. Len(lev)
        BY <2>3
      <4>2. i < j
        BY <1>1, <2>5
      <4> QED BY <1>8, <2>1, <4>1, <4>2
    <3> QED BY <3>2, <3>3 DEF Beside
  <2>6. CASE i > q
    <3>1. LastKey(d) < FirstKey(f)
      BY <1>1, <2>1, <2>6
    <3>2. Left(d, f)
      BY <2>4, <3>1, LeftIs
    <3>3. ASSUME NEW g \in Range(rel) PROVE Left(g, f)
      <4>1. PICK j \in p + 1 .. q : g = lev[j] /\ j \in 1 .. Len(lev)
        BY <2>3
      <4>2. j < i
        BY <1>1, <2>6
      <4> QED BY <1>8, <2>1, <4>1, <4>2
    <3> QED BY <3>2, <3>3 DEF Beside
  <2> QED BY <1>1, <2>2, <2>5, <2>6
<1>11. Len(rel) <= Len(lev)
  BY <1>1, <1>2
<1> QED BY <1>2, <1>5, <1>6, <1>9, <1>10, <1>11 DEF Sectioned

LEMMA InSeq ==
  ASSUME NEW S, NEW T, NEW s \in Seq(S), Range(s) \subseteq T
  PROVE  s \in Seq(T)
<1>1. Range(s) = {s[i] : i \in 1 .. Len(s)}
  BY RangeIs
<1>2. \A i \in 1 .. Len(s) : s[i] \in T
  BY <1>1
<1> QED BY <1>2

(* What the major compaction finds. *)
LEMMA MajorFinds ==
  ASSUME Disk, job.pc = "major", Len(l0) > 0
  PROVE  /\ l0 = <<l0[1]>> /\ Range(l0) = {l0[1]} /\ Len(l0) = 1 /\ l0[1] \in Taken
         /\ l0 \in Seq(Taken) /\ l1 \in Seq(Taken) /\ Ordered(l1)
         /\ job.rel = <<>> /\ job.adds = <<>> /\ Held = Range(l1)
         /\ \A f \in Taken : Spans(f)
         /\ Sectioned(Relatives(l1, l0), l1, l0[1], Taken)
<1>1. l0 \in Seq(Fds) /\ l1 \in Seq(Fds) /\ Len(l0) <= 1 /\ l0 # <<>>
  BY DEF Disk, DiskTypes, LevelsOK
<1>2. Len(l0) = 1 /\ Range(l0) = {l0[1]} /\ l0 = <<l0[1]>>
  <2>1. Len(l0) = 1 /\ Range(l0) = {l0[1]}
    BY <1>1, OneFile
  <2> QED BY <1>1, <2>1
<1>3. job.rel = <<>> /\ job.adds = <<>> /\ Range(job.adds) = {} /\ Range(job.rel) = {}
  BY EmptyRange DEF Disk, JobOK, Merging
<1>4. Held = Range(l1) /\ Taken = {l0[1]} \cup Range(l1)
  BY <1>2, <1>3 DEF Held, Disk, LevelsOK
<1>5. l0 \in Seq(Taken) /\ l1 \in Seq(Taken) /\ l0[1] \in Taken
  <2>1. l1 \in Seq(Taken)
    BY <1>1, <1>4, InSeq
  <2>2. l0 \in Seq(Taken)
    BY <1>1, <1>2, <1>4, InSeq
  <2> QED BY <1>4, <2>1, <2>2
<1>6. \A f \in Taken : Spans(f)
  BY TakenSpans
<1>7. Ordered(l1)
  <2>1. AllApart(Range(l1))
    BY <1>3, <1>4 DEF Disk, FilesOK
  <2>2. Sorted(l1) /\ Distinct(l1)
    BY DEF Disk, LevelsOK
  <2> QED BY <1>5, <1>6, <2>1, <2>2, OrderedIs
<1>8. Sectioned(Relatives(l1, l0), l1, l0[1], Taken)
  <2>1. PICK p, q \in Nat : Section(Relatives(l1, l0), l1, l0[1], p, q)
    BY <1>2, <1>5, <1>6, <1>7, RelativesIs
  <2>2. Distinct(l1)
    BY DEF Disk, LevelsOK
  <2> QED BY <1>5, <1>6, <1>7, <2>1, <2>2, SectionIs
<1> QED BY <1>2, <1>3, <1>4, <1>5, <1>6, <1>7, <1>8

LEMMA SlotSum == LevelCapacity \in Nat /\ LevelCapacity >= 2 /\ NrFd \in Nat /\ NrFd = LevelCapacity + LevelCapacity
<1>1. LevelCapacity \in Nat /\ NrFd = 2 * LevelCapacity
  BY SlotNumbers
<1>2. 2 * LevelCapacity = LevelCapacity + LevelCapacity
  BY <1>1
<1> QED BY <1>1, <1>2, SlotNumbers

(* A file joins level 1. *)
Joins(t, f) ==
  /\ t \in Seq(Taken) /\ Len(t) = Len(l1) + 1 /\ Range(t) = Range(l1) \cup {f} /\ Sorted(t) /\ Distinct(t)

LEMMA AddToLevel1 ==
  ASSUME Disk, job.pc # "empty", NEW f \in Taken \ Range(l1)
  PROVE  Joins(AddFile(l1, f, MaxSize), f)
<1>1. l1 \in Seq(Fds) /\ Range(l1) \subseteq Taken /\ Sorted(l1) /\ Distinct(l1)
  BY DEF Disk, DiskTypes, LevelsOK, Held
<1>2. l1 \in Seq(Taken)
  BY <1>1, InSeq
<1>3. Keyed(Taken)
  BY TakenSpans, SpansKeyed
<1>4. Len(l1) < MaxSize /\ MaxSize \in Int
  <2>1. /\ Len(l1) \in Nat /\ Len(job.adds) \in Nat /\ Len(l1) + Len(job.adds) <= NrFd - 1
    BY <1>1 DEF Disk, CountsOK, DiskTypes
  <2> QED BY <2>1, SlotNumbers
<1> QED BY <1>1, <1>2, <1>3, <1>4, AddFileIs DEF Joins

LEMMA MoveAddDisk == ASSUME Disk, MoveAdd PROVE Disk'
<1> DEFINE d == l0[1]
           g == [level |-> 1, ver |-> version, ents |-> files[d].ents]
<1>1. /\ job.pc = "major" /\ Len(l0) > 0 /\ Len(l1) < LevelCapacity /\ Relatives(l1, l0) = <<>>
      /\ files' = [files EXCEPT ![d] = g] /\ version' = version + 1
      /\ l1' = AddFile(l1, d, MaxSize) /\ job' = [job EXCEPT !.pc = "move"] /\ l0' = l0 /\ cur' = cur
  BY DEF MoveAdd, Major
<1>2. /\ Range(l0) = {d} /\ Len(l0) = 1 /\ d \in Taken /\ job.rel = <<>> /\ job.adds = <<>> /\ Held = Range(l1)
      /\ Sectioned(<<>>, l1, d, Taken) /\ \A f \in Taken : Spans(f)
  BY <1>1, MajorFinds
<1>3. DiskTypes /\ LevelsOK /\ FilesOK /\ JobOK /\ CountsOK /\ VersionsOK
  BY DEF Disk
<1>4. d \notin Range(l1) /\ Taken = {d} \cup Range(l1) /\ d \in Fds
  BY <1>1, <1>2, <1>3, TakenIs DEF LevelsOK
<1>5. Joins(l1', d)
  BY <1>1, <1>2, <1>4, AddToLevel1
<1>6. files \in [Fds -> FileTypes] /\ files' \in [Fds -> FileTypes]
  <2>1. files[d] \in FileTypes /\ version \in Nat
    BY <1>3, <1>4 DEF DiskTypes
  <2>2. g \in FileTypes
    BY <2>1 DEF FileTypes
  <2> HIDE DEF g
  <2> QED BY <1>1, <1>3, <1>4, <2>2 DEF DiskTypes
<1>7. \A f \in Fds : files'[f] = IF f = d THEN g ELSE files[f]
  BY <1>1, <1>6
<1>8. Taken' = Taken
  <2>1. files[d] # NoFile
    BY <1>2 DEF Taken
  <2>2. g # NoFile
    BY DEF NoFile
  <2> HIDE DEF g
  <2> QED BY <1>7, <2>1, <2>2 DEF Taken
<1>9. \A f \in Fds : files'[f].ents = files[f].ents
  BY <1>7
<1>10. job' \in Jobs /\ job'.pc = "move" /\ job'.rel = <<>> /\ job'.adds = <<>>
  BY <1>1, <1>2, <1>3 DEF DiskTypes, Jobs, Pcs
<1>11. Range(l0)' = {d} /\ Range(l1)' = Taken /\ Held' = Taken /\ Range(job.rel)' = {} /\ Range(job.adds)' = {}
  BY <1>1, <1>2, <1>4, <1>5, <1>10, EmptyRange DEF Held, Joins
<1>12. DiskTypes'
  <2>1. l1' \in Seq(Fds)
    <3>1. l1' \in Seq(Taken) /\ Taken \subseteq Fds
      BY <1>5, TakenIs DEF Joins
    <3> QED BY <3>1
  <2> QED BY <1>1, <1>3, <1>6, <1>10, <2>1 DEF DiskTypes, Jobs
<1>13. LevelsOK'
  <2>1. Sorted(l1)'
    <3>1. \A f \in Taken : files'[f].ents = files[f].ents
      BY <1>9, TakenIs
    <3> QED BY <1>5, <3>1, SortedNext DEF Joins
  <2>2. \A f \in Taken : files'[f].level = 1
    BY <1>2, <1>3, <1>4, <1>7, TakenIs DEF LevelsOK
  <2> QED BY <1>1, <1>2, <1>4, <1>5, <1>8, <1>10, <1>11, <2>1, <2>2 DEF LevelsOK, Joins
<1>14. FilesOK'
  <2>1. AllApart(Taken)
    <3> SUFFICES ASSUME NEW f \in Taken, NEW h \in Taken, f # h PROVE Left(f, h) \/ Left(h, f)
      BY DEF AllApart
    <3>1. ASSUME NEW e \in Range(l1) PROVE Left(e, d) \/ Left(d, e)
      BY <1>2, EmptyRange DEF Sectioned, Beside
    <3>2. AllApart(Range(l1))
      BY <1>2, <1>3, EmptyRange DEF FilesOK
    <3> QED BY <1>4, <3>1, <3>2 DEF AllApart
  <2>2. AllApart(Taken)'
    BY <1>8, <1>9, <2>1, TakenIs DEF AllApart, Left
  <2>3. AllApart(Held \ Range(job.rel))'
    BY <1>8, <1>11, <2>2 DEF AllApart, Left
  <2> QED BY <1>1, <1>3, <1>8, <1>9, <2>3, TakenIs DEF FilesOK
<1>15. JobOK'
  BY <1>1, <1>2, <1>10, <1>11, EmptyRange DEF JobOK, Merging
<1>16. CountsOK'
  <2>1. Len(l1') = Len(l1) + 1 /\ Len(l1) \in Nat /\ Len(job'.adds) = 0 /\ Len(job'.rel) = 0
    BY <1>3, <1>5, <1>10, EmptyRange DEF Joins, DiskTypes
  <2>2. Len(l1) + 1 <= LevelCapacity
    BY <1>1, <2>1, SlotSum
  <2>3. Len(l1)' + Len(job.adds)' = Len(l1) + 1
    BY <2>1
  <2> QED BY <2>1, <2>2, <2>3, SlotSum DEF CountsOK
<1>17. VersionsOK'
  <2>1. version \in Nat
    BY <1>3 DEF DiskTypes
  <2>2. \A f \in Taken : files'[f].ver < version'
    <3>1. files'[d].ver = version
      BY <1>4, <1>7
    <3>2. \A f \in Range(l1) : files'[f].ver = files[f].ver /\ files[f].ver < version /\ files[f].ver \in Nat
      BY <1>2, <1>3, <1>4, <1>7, TakenIs DEF VersionsOK, DiskTypes, FileTypes
    <3> QED BY <1>1, <1>4, <2>1, <3>1, <3>2
  <2>3. \A f \in Fds : files'[f].ver \in Nat
    BY <1>6 DEF FileTypes
  <2> QED BY <1>1, <1>4, <1>10, <1>11, <2>1, <2>2, <2>3, TakenIs DEF VersionsOK
<1> QED BY <1>12, <1>13, <1>14, <1>15, <1>16, <1>17 DEF Disk

LEMMA MoveRemoveDisk == ASSUME Disk, MoveRemove PROVE Disk'
<1>1. job.pc = "move" /\ l0' = Tail(l0) /\ job' = [job EXCEPT !.pc = "minor"] /\ UNCHANGED <<files, l1, cur, version>>
  BY DEF MoveRemove
<1>2. DiskTypes /\ LevelsOK /\ FilesOK /\ JobOK /\ CountsOK /\ VersionsOK
  BY DEF Disk
<1>3. l0' = <<>> /\ Range(l0)' = {}
  <2>1. l0 \in Seq(Fds) /\ Len(l0) <= 1 /\ l0 # <<>>
    BY <1>1, <1>2 DEF DiskTypes, LevelsOK, JobOK
  <2>2. Tail(l0) = <<>>
    BY <2>1, OneFile
  <2> QED BY <1>1, <2>2, EmptyRange
<1>4. job' \in Jobs /\ job'.pc = "minor" /\ job'.rel = job.rel /\ job'.adds = job.adds
  BY <1>1, <1>2 DEF DiskTypes, Jobs, Pcs
<1>5. Held' = Held /\ Taken' = Taken /\ Range(l1)' = Range(l1)
  BY <1>1, <1>4 DEF Held, Taken
<1>6. DiskTypes'
  BY <1>1, <1>2, <1>3, <1>4, EmptyRange DEF DiskTypes
<1>7. LevelsOK'
  <2>1. Sorted(l1)'
    BY <1>1, <1>2 DEF LevelsOK, Sorted, FileBefore, FirstKey, LastKey
  <2>2. Taken = Held
    BY <1>1, <1>2 DEF LevelsOK
  <2>3. Len(l0') = 0
    BY <1>3, EmptyRange
  <2> QED BY <1>1, <1>2, <1>3, <1>4, <1>5, <2>1, <2>2, <2>3 DEF LevelsOK
<1>8. FilesOK'
  <2>1. AllApart(Held \ Range(job.rel))'
    BY <1>1, <1>2, <1>4, <1>5 DEF FilesOK, AllApart, Left
  <2> QED BY <1>1, <1>2, <1>4, <1>5, <2>1 DEF FilesOK
<1>9. JobOK'
  BY <1>1, <1>2, <1>3, <1>4, <1>5 DEF JobOK, Merging
<1>10. CountsOK'
  BY <1>1, <1>2, <1>4 DEF CountsOK
<1>11. VersionsOK'
  BY <1>1, <1>2, <1>3, <1>4, <1>5 DEF VersionsOK
<1> QED BY <1>6, <1>7, <1>8, <1>9, <1>10, <1>11 DEF Disk

LEMMA SeqSplit ==
  ASSUME NEW S, NEW s \in Seq(S), s # <<>>, Distinct(s)
  PROVE  /\ Head(s) = s[1] /\ s[1] \in S /\ Range(s) = {s[1]} \cup Range(Tail(s)) /\ s[1] \notin Range(Tail(s))
         /\ Distinct(Tail(s)) /\ Tail(s) \in Seq(S) /\ Len(s) \in Nat /\ Len(Tail(s)) = Len(s) - 1
         /\ (Tail(s) = <<>> <=> Len(s) = 1)
<1> DEFINE t == Tail(s)
<1>1. Len(s) \in Nat /\ Len(s) >= 1 /\ Head(s) = s[1] /\ s[1] \in S
  <2>1. Len(s) \in Nat \ {0}
    BY EmptySeq
  <2> QED BY <2>1
<1>2. t \in Seq(S) /\ Len(t) = Len(s) - 1 /\ \A i \in 1 .. Len(s) - 1 : t[i] = s[i + 1]
  BY <1>1
<1>3. Range(s) = {s[i] : i \in 1 .. Len(s)} /\ Range(t) = {t[i] : i \in 1 .. Len(s) - 1}
  BY <1>2, RangeIs
<1>4. DOMAIN s = 1 .. Len(s) /\ DOMAIN t = 1 .. Len(s) - 1
  BY <1>2
<1> HIDE DEF t
<1>5. Range(s) = {s[1]} \cup Range(t)
  <2>1. ASSUME NEW x \in Range(s) PROVE x \in {s[1]} \cup Range(t)
    <3>1. PICK i \in 1 .. Len(s) : x = s[i]
      BY <1>3
    <3>2. CASE i = 1
      BY <3>1, <3>2
    <3>3. CASE i # 1
      <4>1. i - 1 \in 1 .. Len(s) - 1 /\ (i - 1) + 1 = i
        BY <1>1, <3>3
      <4>2. x = t[i - 1]
        BY <1>2, <3>1, <4>1
      <4> QED BY <1>3, <4>1, <4>2
    <3> QED BY <3>2, <3>3
  <2>2. ASSUME NEW x \in Range(t) PROVE x \in Range(s)
    <3>1. PICK i \in 1 .. Len(s) - 1 : x = t[i]
      BY <1>3
    <3>2. i + 1 \in 1 .. Len(s) /\ x = s[i + 1]
      BY <1>1, <1>2, <3>1
    <3> QED BY <1>3, <3>2
  <2>3. s[1] \in Range(s)
    BY <1>1, <1>3
  <2> QED BY <2>1, <2>2, <2>3
<1>6. s[1] \notin Range(t)
  <2> SUFFICES ASSUME NEW i \in 1 .. Len(s) - 1, t[i] = s[1] PROVE FALSE
    BY <1>3
  <2>1. s[i + 1] = s[1] /\ i + 1 \in 1 .. Len(s) /\ 1 \in 1 .. Len(s) /\ i + 1 # 1
    BY <1>1, <1>2
  <2> QED BY <1>4, <2>1 DEF Distinct
<1>7. Distinct(t)
  <2> SUFFICES ASSUME NEW i \in 1 .. Len(s) - 1, NEW j \in 1 .. Len(s) - 1, t[i] = t[j] PROVE i = j
    BY <1>4 DEF Distinct
  <2>1. s[i + 1] = s[j + 1] /\ i + 1 \in 1 .. Len(s) /\ j + 1 \in 1 .. Len(s)
    BY <1>1, <1>2
  <2>2. i + 1 = j + 1
    BY <1>4, <2>1 DEF Distinct
  <2> QED BY <2>2
<1>8. t = <<>> <=> Len(s) = 1
  <2>1. t = <<>> => Len(s) = 1
    BY <1>1, <1>2, EmptyRange
  <2>2. t # <<>> => Len(t) # 0
    BY <1>2, EmptySeq
  <2> QED BY <1>1, <1>2, <2>1, <2>2
<1> QED BY <1>1, <1>2, <1>5, <1>6, <1>7, <1>8 DEF t

LEMMA InstallDisk == ASSUME Disk, Install PROVE Disk'
<1> DEFINE f == Head(job.adds)
<1>1. /\ job.pc = "install" /\ l1' = AddFile(l1, f, MaxSize) /\ UNCHANGED <<files, l0, cur, version>>
      /\ job' = [job EXCEPT !.adds = Tail(@), !.pc = IF Len(job.adds) = 1 THEN "dropdem" ELSE @]
  BY DEF Install
<1>2. DiskTypes /\ LevelsOK /\ FilesOK /\ JobOK /\ CountsOK /\ VersionsOK
  BY DEF Disk
<1>3. job \in Jobs /\ job.adds \in Seq(Fds) /\ job.adds # <<>> /\ Distinct(job.adds) /\ job.rel # <<>>
  BY <1>1, <1>2 DEF DiskTypes, JobOK, Merging, Jobs
<1>4. /\ f \in Fds /\ Range(job.adds) = {f} \cup Range(Tail(job.adds)) /\ f \notin Range(Tail(job.adds))
      /\ Distinct(Tail(job.adds)) /\ Tail(job.adds) \in Seq(Fds)
      /\ Len(Tail(job.adds)) = Len(job.adds) - 1 /\ Len(job.adds) \in Nat
      /\ (Tail(job.adds) = <<>> <=> Len(job.adds) = 1)
  BY <1>3, SeqSplit
<1> HIDE DEF f
<1>5. /\ job' \in Jobs /\ job'.adds = Tail(job.adds) /\ job'.rel = job.rel /\ job'.dem = job.dem
      /\ job'.pc = IF Len(job.adds) = 1 THEN "dropdem" ELSE "install"
  BY <1>1, <1>3, <1>4 DEF Jobs, Pcs
<1>6. f \in Taken \ Range(l1)
  BY <1>2, <1>4 DEF LevelsOK, Held, JobOK
<1>7. Joins(l1', f)
  BY <1>1, <1>6, AddToLevel1
<1>8. Held' = Held /\ Taken' = Taken /\ Range(l0)' = Range(l0) /\ Range(job.rel)' = Range(job.rel)
  BY <1>1, <1>4, <1>5, <1>7 DEF Held, Taken, Joins
<1>9. DiskTypes'
  <2>1. l1' \in Seq(Taken) /\ Taken \subseteq Fds
    BY <1>7, TakenIs DEF Joins
  <2>2. l1' \in Seq(Fds)
    BY <2>1
  <2> QED BY <1>1, <1>2, <1>5, <2>2 DEF DiskTypes
<1>10. LevelsOK'
  <2>1. Sorted(l1)'
    BY <1>1, <1>7, SortedNext DEF Joins
  <2> QED BY <1>1, <1>2, <1>5, <1>7, <1>8, <2>1 DEF LevelsOK, Joins
<1>11. FilesOK'
  <2>1. AllApart(Held \ Range(job.rel))'
    BY <1>1, <1>2, <1>8 DEF FilesOK, AllApart, Left
  <2>2. job.pc # "empty"
    BY <1>1
  <2> QED BY <1>1, <1>2, <1>8, <2>1, <2>2 DEF FilesOK
<1>12. JobOK'
  <2>1. Range(job.adds)' \cap Range(l1)' = {}
    <3>1. Range(job.adds)' = Range(Tail(job.adds)) /\ Range(l1)' = Range(l1) \cup {f}
      BY <1>5, <1>7 DEF Joins
    <3>2. Range(job.adds) \cap Range(l1) = {}
      BY <1>2 DEF JobOK
    <3> QED BY <1>4, <3>1, <3>2
  <2>2. Range(job.rel)' \subseteq Range(l1)'
    BY <1>2, <1>7, <1>8 DEF JobOK, Joins
  <2> QED BY <1>1, <1>2, <1>3, <1>4, <1>5, <2>1, <2>2 DEF JobOK, Merging
<1>13. CountsOK'
  <2>1. Len(l1') = Len(l1) + 1 /\ Len(job'.adds) = Len(job.adds) - 1 /\ Len(l1) \in Nat
    BY <1>2, <1>4, <1>5, <1>7 DEF Joins, DiskTypes
  <2>2. Len(l1') + Len(job'.adds) = Len(l1) + Len(job.adds)
    <3>1. \A x, y \in Nat : (x + 1) + (y - 1) = x + y
      OBVIOUS
    <3> QED BY <1>4, <2>1, <3>1
  <2> QED BY <1>2, <1>5, <2>2 DEF CountsOK
<1>14. VersionsOK'
  BY <1>1, <1>2, <1>5, <1>8 DEF VersionsOK
<1> QED BY <1>9, <1>10, <1>11, <1>12, <1>13, <1>14 DEF Disk

(* A slot is released. *)
LEMMA Release ==
  ASSUME DiskTypes, NEW d \in Fds, files' = [files EXCEPT ![d] = NoFile]
  PROVE  /\ files' \in [Fds -> FileTypes] /\ Taken' = Taken \ {d}
         /\ \A f \in Fds \ {d} : files'[f] = files[f]
<1>1. NoFile \in FileTypes
  BY NoEntriesIs DEF NoFile, FileTypes
<1>2. files \in [Fds -> FileTypes]
  BY DEF DiskTypes
<1>3. \A f \in Fds : files'[f] = IF f = d THEN NoFile ELSE files[f]
  BY <1>2
<1>4. Taken' = Taken \ {d}
  BY <1>3 DEF Taken
<1> QED BY <1>1, <1>2, <1>3, <1>4

LEMMA DropDemotedDisk == ASSUME Disk, DropDemoted PROVE Disk'
<1> DEFINE d == job.dem[1]
<1>1. /\ job.pc = "dropdem" /\ l0' = RemoveFile(l0, d) /\ files' = [files EXCEPT ![d] = NoFile]
      /\ job' = [job EXCEPT !.dem = <<>>, !.pc = "droprel"] /\ UNCHANGED <<l1, cur, version>>
  BY DEF DropDemoted
<1>2. DiskTypes /\ LevelsOK /\ FilesOK /\ JobOK /\ CountsOK /\ VersionsOK
  BY DEF Disk
<1>3. l0 \in Seq(Fds) /\ Len(l0) <= 1 /\ l0 # <<>> /\ job.dem = l0 /\ job \in Jobs
  BY <1>1, <1>2 DEF DiskTypes, LevelsOK, JobOK
<1>4. Len(l0) = 1 /\ Range(l0) = {d} /\ d \in Fds
  BY <1>3, OneFile
<1> HIDE DEF d
<1>5. l0' = <<>> /\ Range(l0)' = {}
  <2>1. Distinct(l0)
    <3>1. DOMAIN l0 = 1 .. 1
      BY <1>3, <1>4
    <3> QED BY <3>1 DEF Distinct
  <2>2. RemoveFile(l0, d) \in Seq(Fds) /\ Len(RemoveFile(l0, d)) = 0
    BY <1>3, <1>4, <2>1, RemoveFileIs
  <2>3. RemoveFile(l0, d) = <<>>
    BY <2>2
  <2> QED BY <1>1, <2>3, EmptyRange
<1>6. /\ job' \in Jobs /\ job'.pc = "droprel" /\ job'.rel = job.rel /\ job'.adds = job.adds /\ job.adds = <<>>
      /\ job.rel # <<>>
  BY <1>1, <1>2, <1>3, EmptyRange DEF JobOK, Jobs, Pcs, Merging
<1>7. Held' = Held /\ Range(l1)' = Range(l1) /\ Range(job.rel)' = Range(job.rel)
  BY <1>1, <1>6 DEF Held
<1>8. d \notin Held /\ Taken = {d} \cup Held /\ Held \subseteq Fds \ {d}
  <2>1. d \notin Held /\ Taken = {d} \cup Held
    BY <1>1, <1>2, <1>4 DEF LevelsOK
  <2> QED BY <2>1, TakenIs
<1>9. /\ files' \in [Fds -> FileTypes] /\ Taken' = Held
      /\ \A f \in Fds \ {d} : files'[f] = files[f]
  BY <1>1, <1>2, <1>4, <1>8, Release
<1>10. \A f \in Held : files'[f] = files[f]
  BY <1>8, <1>9
<1>11. DiskTypes'
  BY <1>1, <1>2, <1>5, <1>6, <1>9, EmptyRange DEF DiskTypes
<1>12. LevelsOK'
  <2>1. Sorted(l1)'
    <3>1. l1' \in Seq(Held)
      BY <1>1, <1>2, InSeq DEF DiskTypes, Held
    <3>2. Sorted(l1')
      BY <1>1, <1>2 DEF LevelsOK
    <3> QED BY <1>10, <3>1, <3>2, SortedNext
  <2>2. Len(l0') = 0
    BY <1>5, EmptyRange
  <2> QED BY <1>1, <1>2, <1>5, <1>6, <1>7, <1>9, <1>10, <2>1, <2>2 DEF LevelsOK
<1>13. FilesOK'
  <2>1. AllApart(Held \ Range(job.rel))'
    BY <1>2, <1>7, <1>10 DEF FilesOK, AllApart, Left
  <2>2. job.pc # "empty"
    BY <1>1
  <2> QED BY <1>2, <1>8, <1>9, <1>10, <2>1, <2>2 DEF FilesOK
<1>14. JobOK'
  BY <1>1, <1>2, <1>5, <1>6, <1>7 DEF JobOK, Merging
<1>15. CountsOK'
  BY <1>1, <1>2, <1>6 DEF CountsOK
<1>16. VersionsOK'
  BY <1>1, <1>2, <1>5, <1>6, <1>7, <1>10 DEF VersionsOK
<1> QED BY <1>11, <1>12, <1>13, <1>14, <1>15, <1>16 DEF Disk

LEMMA DropRelativeDisk == ASSUME Disk, DropRelative PROVE Disk'
<1> DEFINE r == job.rel[1]
<1>1. /\ job.pc = "droprel" /\ l1' = RemoveFile(l1, r) /\ files' = [files EXCEPT ![r] = NoFile]
      /\ job' = [job EXCEPT !.rel = Tail(@), !.pc = IF Len(job.rel) = 1 THEN "minor" ELSE @]
      /\ UNCHANGED <<l0, cur, version>>
  BY DEF DropRelative
<1>2. DiskTypes /\ LevelsOK /\ FilesOK /\ JobOK /\ CountsOK /\ VersionsOK
  BY DEF Disk
<1>3. /\ job \in Jobs /\ job.rel \in Seq(Fds) /\ job.rel # <<>> /\ Distinct(job.rel) /\ job.adds = <<>>
      /\ l0 = <<>> /\ Range(l0) = {} /\ l1 \in Seq(Fds) /\ Distinct(l1) /\ Sorted(l1) /\ Range(job.adds) = {}
  BY <1>1, <1>2, EmptyRange DEF DiskTypes, JobOK, Merging, Jobs, LevelsOK
<1>4. /\ r \in Fds /\ Range(job.rel) = {r} \cup Range(Tail(job.rel)) /\ r \notin Range(Tail(job.rel))
      /\ Distinct(Tail(job.rel)) /\ Tail(job.rel) \in Seq(Fds)
      /\ Len(Tail(job.rel)) = Len(job.rel) - 1 /\ Len(job.rel) \in Nat
      /\ (Tail(job.rel) = <<>> <=> Len(job.rel) = 1)
  BY <1>3, SeqSplit
<1> HIDE DEF r
<1>5. /\ job' \in Jobs /\ job'.rel = Tail(job.rel) /\ job'.adds = <<>> /\ job'.dem = job.dem
      /\ job'.pc = IF Len(job.rel) = 1 THEN "minor" ELSE "droprel"
  BY <1>1, <1>3, <1>4 DEF Jobs, Pcs
<1>6. r \in Range(l1) /\ Held = Range(l1) /\ Taken = Range(l1)
  BY <1>2, <1>3, <1>4 DEF JobOK, LevelsOK, Held
<1>7. /\ l1' \in Seq(Fds) /\ Len(l1') = Len(l1) - 1 /\ Range(l1') = Range(l1) \ {r} /\ Distinct(l1')
      /\ Sorted(l1')
  BY <1>1, <1>3, <1>6, RemoveFileIs
<1>8. Held' = Held \ {r} /\ Range(l0)' = {} /\ Range(job.rel)' = Range(job.rel) \ {r} /\ Range(job.adds)' = {}
  BY <1>1, <1>3, <1>4, <1>5, <1>6, <1>7, EmptyRange DEF Held
<1>9. /\ files' \in [Fds -> FileTypes] /\ Taken' = Taken \ {r}
      /\ \A f \in Fds \ {r} : files'[f] = files[f]
  BY <1>1, <1>2, <1>4, Release
<1>10. \A f \in Taken' : files'[f] = files[f] /\ f \in Taken
  BY <1>9, TakenIs
<1>11. Taken' = Held' /\ Held' \ Range(job.rel)' = Held \ Range(job.rel)
  BY <1>4, <1>6, <1>8, <1>9
<1>12. DiskTypes'
  BY <1>1, <1>2, <1>5, <1>7, <1>9 DEF DiskTypes
<1>13. LevelsOK'
  <2>1. Sorted(l1)'
    <3>1. l1' \in Seq(Taken \ {r})
      BY <1>6, <1>7, InSeq
    <3> QED BY <1>7, <1>9, <1>10, <3>1, SortedNext
  <2> QED BY <1>1, <1>2, <1>3, <1>5, <1>7, <1>8, <1>9, <1>10, <1>11, <2>1 DEF LevelsOK
<1>14. FilesOK'
  <2>1. AllApart(Held \ Range(job.rel))'
    <3>1. \A f \in Held \ Range(job.rel) : files'[f] = files[f]
      BY <1>10, <1>11
    <3> QED BY <1>2, <1>11, <3>1 DEF FilesOK, AllApart, Left
  <2>2. job.pc # "empty"
    BY <1>1
  <2> QED BY <1>2, <1>10, <2>1, <2>2 DEF FilesOK
<1>15. JobOK'
  <2>1. Range(job.rel)' \subseteq Range(l1)'
    BY <1>2, <1>7, <1>8 DEF JobOK
  <2>2. Distinct(job.adds)'
    BY <1>5, EmptyRange
  <2> QED BY <1>1, <1>3, <1>4, <1>5, <1>8, <2>1, <2>2 DEF JobOK, Merging
<1>16. CountsOK'
  <2>1. \A x, y, z, w \in Nat : x + z <= w + y => (x - 1) + z <= w + (y - 1)
    OBVIOUS
  <2>2. \A x, z, w \in Nat : x + z <= w - 1 => (x - 1) + z <= w - 1
    OBVIOUS
  <2>3. Len(l1) \in Nat /\ Len(job.rel) \in Nat /\ Len(job.adds) = 0 /\ Len(job'.adds) = 0
    BY <1>3, <1>4, <1>5, EmptyRange
  <2>4. Len(job'.rel) = Len(job.rel) - 1 /\ Len(l1') = Len(l1) - 1 /\ 0 \in Nat
    BY <1>4, <1>5, <1>7
  <2>5. Len(l1) + 0 <= NrFd - 1 /\ Len(l1) + 0 <= LevelCapacity + Len(job.rel)
    BY <1>2, <2>3 DEF CountsOK
  <2> QED BY <2>1, <2>2, <2>3, <2>4, <2>5, SlotSum DEF CountsOK
<1>17. VersionsOK'
  BY <1>1, <1>2, <1>5, <1>6, <1>8, <1>10, <1>11 DEF VersionsOK
<1> QED BY <1>12, <1>13, <1>14, <1>15, <1>16, <1>17 DEF Disk

LEMMA AddFirst ==
  ASSUME NEW f, l0 = <<>>
  PROVE  AddFile(l0, f, 3) \in Seq({f}) /\ Len(AddFile(l0, f, 3)) = 1 /\ Range(AddFile(l0, f, 3)) = {f}
         /\ AddFile(l0, f, 3) # <<>>
<1> DEFINE t == InsertAt(<<>>, 0 + 1, f)
<1>1. InsertPos(l0, f) = 0
  BY InsertPosIs
<1>2. AddFile(l0, f, 3) = t
  BY <1>1, EmptyRange DEF AddFile
<1>3. <<>> \in Seq({f}) /\ 0 \in 0 .. Len(<<>>) /\ f \in {f}
  BY EmptyRange
<1>4. Inserted(t, <<>>, 0, f, {f})
  BY <1>3, InsertAtIs
<1> HIDE DEF t
<1>5. t \in Seq({f}) /\ Len(t) = 1 /\ t[1] = f
  BY <1>4, EmptyRange DEF Inserted
<1>6. Range(t) = {f} /\ t # <<>>
  <2>1. t # <<>>
    BY <1>5, EmptyRange
  <2>2. Len(t) <= 1
    BY <1>5
  <2> QED BY <1>5, <2>1, <2>2, OneFile
<1> QED BY <1>2, <1>5, <1>6

(* What a minor compaction writes. *)
LEMMA MinorSource ==
  ASSUME MemOK, job.pc = "minor"
  PROVE  LET src == IF imm = NoTable THEN mem ELSE imm
         IN src.ents \in Entries /\ NrRecord(src.ents) <= Capacity /\ KeysIn(src.ents) # {}
<1>1. mem \in Tables /\ imm \in Tables /\ mem.size = NrRecord(mem.ents) /\ mem.size <= Capacity
      /\ NrRecord(imm.ents) <= Capacity
  BY DEF MemOK
<1>2. mem.ents \in Entries /\ imm.ents \in Entries
  BY <1>1 DEF Tables
<1>3. CASE imm = NoTable
  <2>1. mem.size > 0
    BY <1>3 DEF MemOK
  <2>2. NrRecord(mem.ents) # 0
    BY <1>1, <2>1
  <2> QED BY <1>1, <1>2, <1>3, <2>2, RecordKeys
<1>4. CASE imm # NoTable
  BY <1>1, <1>2, <1>4 DEF MemOK
<1> QED BY <1>3, <1>4

LEMMA MinorDisk == ASSUME MemOK, Disk, Minor PROVE Disk' /\ job'.pc = "idle"
<1> DEFINE src == IF imm = NoTable THEN mem ELSE imm
           a == AllocFds(1)
           f == a.fds[1]
           g == [level |-> 0, ver |-> version, ents |-> src.ents]
<1>1. job.pc = "minor"
  BY DEF Minor
<1>2. DiskTypes /\ LevelsOK /\ FilesOK /\ JobOK /\ CountsOK /\ VersionsOK
  BY DEF Disk
<1>3. /\ l0 = <<>> /\ job.rel = <<>> /\ job.adds = <<>> /\ Range(l0) = {} /\ Range(job.rel) = {} /\ Range(job.adds) = {}
      /\ l1 \in Seq(Fds) /\ cur \in 0 .. NrFd /\ version \in Nat
  BY <1>1, <1>2, EmptyRange DEF JobOK, Merging, DiskTypes
<1>4. Held = Range(l1) /\ Taken = Held
  BY <1>1, <1>2, <1>3 DEF LevelsOK, Held
<1>5. FdsLeft(1)
  <2>1. Cardinality(Range(l1)) <= Len(l1) /\ Cardinality(Range(l1)) \in Nat /\ Len(l1) \in Nat
    BY <1>3, RangeIs, FS_CardinalityType
  <2>2. Len(l1) + 0 <= NrFd - 1
    BY <1>2, <1>3, EmptyRange DEF CountsOK
  <2>3. Cardinality(Taken) = Cardinality(Range(l1))
    BY <1>4
  <2> QED BY <2>1, <2>2, <2>3, SlotSum DEF FdsLeft
<1>6. /\ files' = [files EXCEPT ![f] = g] /\ cur' = a.cur /\ version' = version + 1
      /\ l0' = AddFile(l0, f, 3) /\ job' = IdleJob /\ l1' = l1
  BY <1>5 DEF Minor
<1>7. /\ a.cur \in 0 .. NrFd /\ f \in Fds /\ f \notin Taken
  <2>1. Allocated(a, 1)
    BY <1>3, <1>5, AllocFdsResult
  <2> HIDE DEF a
  <2>2. a.fds \in Seq(Fds) /\ Len(a.fds) = 1 /\ Range(a.fds) \cap Taken = {} /\ a.cur \in 0 .. NrFd
    BY <2>1 DEF Allocated, AllocStates
  <2>3. a.fds # <<>> /\ Len(a.fds) <= 1
    <3>1. Len(a.fds) = 1 /\ 1 <= 1 /\ 1 # 0
      BY <2>2
    <3> QED BY <3>1, EmptyRange
  <2>4. Range(a.fds) = {f} /\ f \in Fds
    BY <2>2, <2>3, OneFile
  <2> QED BY <2>2, <2>4
<1> HIDE DEF a, f
<1>8. src.ents \in Entries /\ NrRecord(src.ents) <= Capacity /\ KeysIn(src.ents) # {}
  BY <1>1, MinorSource
<1> HIDE DEF src
<1>9. /\ job' \in Jobs /\ job'.pc = "idle" /\ job'.rel = <<>> /\ job'.adds = <<>>
  BY <1>6, EmptyRange DEF IdleJob, Jobs, Pcs
<1>10. files \in [Fds -> FileTypes] /\ g \in FileTypes /\ g # NoFile
  BY <1>2, <1>3, <1>8 DEF DiskTypes, FileTypes, NoFile
<1>11. /\ files' \in [Fds -> FileTypes] /\ \A h \in Fds : files'[h] = IF h = f THEN g ELSE files[h]
  <2> HIDE DEF g
  <2> QED BY <1>6, <1>7, <1>10
<1>12. Taken' = Taken \cup {f}
  <2> HIDE DEF g
  <2> QED BY <1>7, <1>10, <1>11 DEF Taken
<1>13. /\ l0' \in Seq({f}) /\ Len(l0') = 1 /\ Range(l0') = {f} /\ l0' # <<>>
  BY <1>3, <1>6, AddFirst
<1>14. Held' = Held /\ Range(l1)' = Held /\ Range(job.rel)' = {} /\ Range(job.adds)' = {}
  BY <1>3, <1>4, <1>6, <1>9, EmptyRange DEF Held
<1>15. \A h \in Held : files'[h] = files[h] /\ h # f /\ h \in Fds
  BY <1>4, <1>7, <1>11, TakenIs
<1>16. files'[f].level = 0 /\ files'[f].ver = version /\ files'[f].ents = src.ents
  BY <1>7, <1>11
<1>17. DiskTypes'
  <2>1. l0' \in Seq(Fds)
    BY <1>7, <1>13
  <2> QED BY <1>3, <1>6, <1>7, <1>9, <1>11, <2>1 DEF DiskTypes
<1>18. LevelsOK'
  <2>1. Sorted(l1)'
    <3>1. l1' \in Seq(Held)
      BY <1>3, <1>4, <1>6, InSeq
    <3>2. Sorted(l1')
      BY <1>2, <1>6 DEF LevelsOK
    <3> QED BY <1>15, <3>1, <3>2, SortedNext
  <2>2. Distinct(l1)' /\ \A h \in Held : files[h].level = 1
    BY <1>2, <1>6 DEF LevelsOK
  <2> QED BY <1>4, <1>7, <1>9, <1>12, <1>13, <1>14, <1>15, <1>16, <2>1, <2>2 DEF LevelsOK
<1>19. FilesOK'
  <2>1. AllApart(Held \ Range(job.rel))'
    <3>1. AllApart(Held)
      BY <1>2, <1>3 DEF FilesOK
    <3> QED BY <1>14, <1>15, <3>1 DEF AllApart, Left
  <2>2. \A h \in Held : NrRecord(files[h].ents) <= Capacity /\ KeysIn(files[h].ents) # {}
    BY <1>1, <1>2, <1>4 DEF FilesOK
  <2> QED BY <1>4, <1>8, <1>12, <1>15, <1>16, <2>1, <2>2 DEF FilesOK
<1>20. JobOK'
  BY <1>9, <1>13, <1>14, EmptyRange DEF JobOK, Merging
<1>21. CountsOK'
  BY <1>2, <1>3, <1>6, <1>9 DEF CountsOK
<1>22. VersionsOK'
  <2>1. \A h \in Held : files[h].ver < version /\ files[h].ver \in Nat
    BY <1>2, <1>10, <1>15 DEF VersionsOK, FileTypes
  <2> QED BY <1>3, <1>6, <1>13, <1>14, <1>15, <1>16, <2>1 DEF VersionsOK
<1> QED BY <1>9, <1>17, <1>18, <1>19, <1>20, <1>21, <1>22 DEF Disk

LEMMA OpenDisk == ASSUME MemOK, Disk, Open PROVE Disk'
<1>1. /\ job.pc = "idle" /\ UNCHANGED <<files, job>> /\ version' = CurrentVersion /\ cur' = 0
  BY DEF Open, MemOK
<1>2. DiskTypes /\ LevelsOK /\ FilesOK /\ JobOK /\ CountsOK /\ VersionsOK
  BY DEF Disk
<1>3. /\ job.rel = <<>> /\ job.adds = <<>> /\ Range(job.rel) = {} /\ Range(job.adds) = {}
      /\ l0 \in Seq(Fds) /\ l1 \in Seq(Fds)
  BY <1>1, <1>2, EmptyRange DEF JobOK, Merging, DiskTypes
<1>4. /\ Held = Range(l1) /\ Taken = Range(l0) \cup Held /\ Range(l0) \cap Held = {}
      /\ (\A f \in Range(l0) : files[f].level = 0) /\ (\A f \in Held : files[f].level = 1)
  BY <1>1, <1>2, <1>3 DEF LevelsOK, Held
<1>5. OnLevel(0) = Range(l0) /\ OnLevel(1) = Held
  BY <1>4 DEF OnLevel
<1>6. /\ Cardinality(Range(l0)) \in Nat /\ Cardinality(Range(l0)) <= Len(l0) /\ Len(l0) \in Nat /\ Len(l0) <= 1
      /\ Cardinality(Held) = Len(l1) /\ Len(l1) \in Nat /\ Len(l1) + 0 <= NrFd - 1
  BY <1>2, <1>3, <1>4, RangeIs, FS_CardinalityType, EmptyRange DEF LevelsOK, CountsOK
<1>7. Cardinality(OnLevel(0)) <= 3 /\ Cardinality(OnLevel(1)) <= MaxSize /\ 3 \in Nat /\ MaxSize \in Nat
  BY <1>5, <1>6, SlotNumbers
<1>8. \A f \in Taken : Spans(f)
  BY <1>1, TakenSpans
<1>9. l0' = FilledWith(0, 3) /\ l1' = FilledWith(1, MaxSize)
  BY OpenFills
<1>10. /\ l0' \in Seq(Taken) /\ Range(l0') = Range(l0) /\ Len(l0') = Cardinality(Range(l0))
  BY <1>5, <1>7, <1>8, <1>9, FillResult
<1>11. /\ l1' \in Seq(Taken) /\ Sorted(l1') /\ Distinct(l1') /\ Range(l1') = Range(l1) /\ Len(l1') = Len(l1)
  BY <1>4, <1>5, <1>6, <1>7, <1>8, <1>9, FillResult
<1>12. Held' = Held /\ Taken' = Taken
  BY <1>1, <1>11 DEF Held, Taken
<1>13. CurrentVersion \in Nat /\ \A f \in Taken : files[f].ver <= CurrentVersion /\ files[f].ver \in Nat
  <2>1. \A f \in Fds : files[f].ver \in Nat
    BY <1>2 DEF DiskTypes, FileTypes
  <2> QED BY <2>1, CurrentVersionResult, TakenIs
<1>14. l0' = <<>> => l1' = <<>>
  <2> SUFFICES ASSUME l0' = <<>> PROVE l1' = <<>>
    OBVIOUS
  <2>1. Range(l0) = {}
    BY <1>10, EmptyRange
  <2>2. l0 = <<>>
    <3> SUFFICES ASSUME l0 # <<>> PROVE FALSE
      OBVIOUS
    <3>1. Range(l0) = {l0[1]}
      BY <1>3, <1>6, OneFile
    <3> QED BY <2>1, <3>1
  <2>3. Len(l1') = 0
    BY <1>1, <1>2, <1>11, <2>2, EmptyRange DEF LevelsOK
  <2> QED BY <1>11, <2>3
<1>15. DiskTypes'
  <2>1. l0' \in Seq(Fds) /\ l1' \in Seq(Fds)
    BY <1>10, <1>11, TakenIs
  <2>2. 0 \in 0 .. NrFd
    BY SlotSum
  <2> QED BY <1>1, <1>2, <1>13, <2>1, <2>2 DEF DiskTypes
<1>16. LevelsOK'
  <2>1. Sorted(l1)'
    BY <1>1, <1>11, SortedNext
  <2>2. Len(l0') <= 1
    BY <1>6, <1>10
  <2> QED BY <1>1, <1>4, <1>10, <1>11, <1>12, <1>14, <2>1, <2>2 DEF LevelsOK
<1>17. FilesOK'
  <2>1. AllApart(Held \ Range(job.rel))'
    BY <1>1, <1>2, <1>12 DEF FilesOK, AllApart, Left
  <2> QED BY <1>1, <1>2, <1>12, <2>1 DEF FilesOK
<1>18. JobOK'
  BY <1>1, <1>3, EmptyRange DEF JobOK, Merging
<1>19. CountsOK'
  BY <1>1, <1>2, <1>11 DEF CountsOK
<1>20. VersionsOK'
  <2>1. \A f \in Held : files[f].ver < CurrentVersion
    <3> SUFFICES ASSUME NEW f \in Held PROVE files[f].ver < CurrentVersion
      OBVIOUS
    <3>1. l0 # <<>>
      BY <1>1, <1>2, <1>4, EmptyRange DEF LevelsOK
    <3>2. l0[1] \in Range(l0)
      BY <1>3, <1>6, <3>1, OneFile
    <3>3. files[f].ver < files[l0[1]].ver
      BY <1>1, <1>2, <1>4, <3>2 DEF VersionsOK
    <3> QED BY <1>4, <1>13, <3>2, <3>3
  <2> QED BY <1>1, <1>2, <1>4, <1>10, <1>11, <1>12, <1>13, <2>1 DEF VersionsOK
<1> QED BY <1>15, <1>16, <1>17, <1>18, <1>19, <1>20 DEF Disk

(* What the merge of level 0 with its relatives does: m is the merge, a the*)
(* slots allocated for its output.                                         *)
GivenBack(m) == {b \in {b \in {m[k].back : k \in DOMAIN m} : b > 0} : \E k \in DOMAIN m : m[k].back = b /\ rit[b] = k}

Merges(m, a, rel) ==
  /\ rel = Relatives(l1, l0) /\ rel # <<>>
  /\ MergedTo(m, l0, rel) /\ Yields(m) /\ NrFull(m) <= Len(rel) /\ Len(Outputs(m)) = NrFull(m) + 1
  /\ Allocated(a, NrFull(m) + 1)
  /\ files' \in [Fds -> FileTypes]
  /\ \A f \in Fds \ Range(a.fds) : files'[f] = files[f]
  /\ \A i \in 1 .. NrFull(m) + 1 :
       files'[a.fds[i]] = [level |-> 1, ver |-> version + i - 1, ents |-> Outputs(m)[i]]
  /\ cur' = a.cur /\ version' = version + (NrFull(m) + 1)
  /\ rit' = GiveBack(rit, GivenBack(m))
  /\ job' = [pc |-> IF NoEntries \in Range(Outputs(m)) THEN "empty" ELSE "install",
             dem |-> l0, rel |-> rel, adds |-> a.fds]
  /\ UNCHANGED <<l0, l1, mem, imm>>

(* Room for the merge: its inputs have at most Capacity keys each. *)
LEMMA MergeFits ==
  ASSUME Disk, job.pc = "major", Len(l0) > 0, Len(l1) < LevelCapacity, NEW lead
  PROVE  LET rel == Relatives(l1, l0)
             m == Merge(l0, rel, lead)
         IN MergedTo(m, l0, rel) /\ Yields(m) /\ NrFull(m) <= Len(rel) /\ FdsLeft(NrFull(m) + 1)
<1> DEFINE rel == Relatives(l1, l0)
           m == Merge(l0, rel, lead)
           d == l0[1]
<1>1. /\ Range(l0) = {d} /\ Len(l0) = 1 /\ d \in Taken /\ l0 \in Seq(Taken) /\ l1 \in Seq(Taken) /\ Held = Range(l1)
      /\ \A f \in Taken : Spans(f)
      /\ Sectioned(rel, l1, d, Taken)
  BY MajorFinds
<1>2. /\ rel \in Seq(Taken) /\ Len(rel) <= Len(l1) /\ Distinct(rel) /\ Range(rel) \subseteq Range(l1) /\ Disjoint(rel)
  BY <1>1 DEF Sectioned
<1>3. \A f \in Taken : files[f] \in FileTypes
  BY TakenIs DEF Disk, DiskTypes
<1>4. \A f \in Range(rel) : f \in Taken /\ files[f].ver < files[d].ver
  BY <1>1, <1>2, RangeIs DEF Disk, VersionsOK
<1> HIDE DEF rel, d
<1>5. MergedTo(m, l0, rel)
  <2>1. \A f \in Range(rel) : files[f] \in FileTypes /\ files[f].ver < files[d].ver
    BY <1>3, <1>4
  <2>2. files[d] \in FileTypes /\ l0[1] = d
    BY <1>1, <1>3 DEF d
  <2> QED BY <1>1, <1>2, <2>1, <2>2, MergeIs
<1> HIDE DEF m
<1>6. Yields(m)
  <2>1. KeysIn(files[d].ents) # {} /\ files[d] \in FileTypes /\ l0[1] = d
    BY <1>1, <1>3 DEF Spans, d
  <2>2. \A f \in Range(rel) : files[f] \in FileTypes
    BY <1>3, <1>4
  <2> QED BY <1>1, <1>5, <2>1, <2>2, MergeYields
<1>7. \A f \in Taken : Cardinality(KeysIn(files[f].ents)) <= Capacity
  <2> SUFFICES ASSUME NEW f \in Taken PROVE Cardinality(KeysIn(files[f].ents)) <= Capacity
    OBVIOUS
  <2>1. files[f].ents \in Entries /\ NrRecord(files[f].ents) <= Capacity
    BY <1>3 DEF FileTypes, Disk, FilesOK
  <2>2. NrRecord(files[f].ents) \in Nat /\ Cardinality(KeysIn(files[f].ents)) <= NrRecord(files[f].ents)
    BY <2>1, RecordKeys
  <2>3. Cardinality(KeysIn(files[f].ents)) \in Nat /\ Capacity \in Nat
    BY KeysInIs, LsmAssumption
  <2> QED BY <2>1, <2>2, <2>3
<1>8. /\ IsFiniteSet(KeysOf(l0)) /\ Cardinality(KeysOf(l0)) <= Capacity * 1
      /\ IsFiniteSet(KeysOf(rel)) /\ Cardinality(KeysOf(rel)) <= Capacity * Len(rel)
  BY <1>1, <1>2, <1>7, KeysOfBound
<1>9. Len(rel) \in Nat /\ Capacity \in Nat /\ Len(l1) \in Nat
  BY <1>1, <1>2, LsmAssumption
<1>10. Cardinality(DOMAIN m) <= Capacity * (Len(rel) + 1)
  <2>1. DOMAIN m = KeysOf(l0) \cup KeysOf(rel)
    BY <1>5 DEF MergedTo
  <2>2. /\ Cardinality(KeysOf(l0)) \in Nat /\ Cardinality(KeysOf(rel)) \in Nat /\ Cardinality(KeysOf(l0) \cap KeysOf(rel)) \in Nat
    BY <1>8, FS_CardinalityType, FS_Intersection
  <2>3. Cardinality(KeysOf(l0) \cup KeysOf(rel)) =
          Cardinality(KeysOf(l0)) + Cardinality(KeysOf(rel)) - Cardinality(KeysOf(l0) \cap KeysOf(rel))
    BY <1>8, FS_Union
  <2>4. Capacity * (Len(rel) + 1) = Capacity * Len(rel) + Capacity * 1 /\ Capacity * Len(rel) \in Nat /\ Capacity * 1 \in Nat
    BY <1>9
  <2> DEFINE u == Cardinality(KeysOf(l0))
             v == Cardinality(KeysOf(rel))
             w == Cardinality(KeysOf(l0) \cap KeysOf(rel))
             x == Capacity * Len(rel)
             y == Capacity * 1
  <2>5. u \in Nat /\ v \in Nat /\ w \in Nat /\ x \in Nat /\ y \in Nat /\ u <= y /\ v <= x
    BY <1>8, <2>2, <2>4
  <2>6. Cardinality(DOMAIN m) = u + v - w /\ Capacity * (Len(rel) + 1) = x + y
    BY <2>1, <2>3, <2>4
  <2> HIDE DEF u, v, w, x, y
  <2> QED BY <2>5, <2>6
<1>11. NrFull(m) <= Len(rel) /\ NrFull(m) \in Nat
  BY <1>6, <1>9, <1>10, OutputsFew, BodyIs
<1>12. Cardinality(Taken) <= 1 + Len(l1) /\ Cardinality(Taken) \in Nat
  <2>1. Taken = {d} \cup Range(l1)
    BY <1>1 DEF Disk, LevelsOK
  <2>2. IsFiniteSet(Range(l1)) /\ Cardinality(Range(l1)) <= Len(l1) /\ Cardinality(Range(l1)) \in Nat
    BY <1>1, RangeIs, FS_CardinalityType
  <2>3. Cardinality(Range(l1) \cup {d}) <= Cardinality(Range(l1)) + 1
    <3>1. Cardinality(Range(l1) \cup {d}) = IF d \in Range(l1) THEN Cardinality(Range(l1)) ELSE Cardinality(Range(l1)) + 1
      BY <2>2, FS_AddElement
    <3> QED BY <2>2, <3>1
  <2>4. Taken = Range(l1) \cup {d}
    BY <2>1
  <2>5. Cardinality(Taken) \in Nat
    BY TakenIs
  <2>6. Cardinality(Taken) <= Cardinality(Range(l1)) + 1
    BY <2>3, <2>4
  <2> QED BY <1>9, <2>2, <2>5, <2>6
<1>13. FdsLeft(NrFull(m) + 1)
  <2>1. NrFull(m) <= Len(l1)
    BY <1>2, <1>9, <1>11
  <2>2. Cardinality(Taken) + (NrFull(m) + 1) <= LevelCapacity + LevelCapacity
    BY <1>9, <1>11, <1>12, <2>1, SlotSum
  <2> QED BY <2>2, SlotSum DEF FdsLeft
<1> QED BY <1>5, <1>6, <1>11, <1>13 DEF m, rel

LEMMA MergeFilesIs ==
  ASSUME Disk, MergeFiles
  PROVE  /\ job.pc = "major" /\ Len(l0) > 0 /\ Len(l1) < LevelCapacity
         /\ \E m, a, rel : Merges(m, a, rel)
<1> DEFINE rel == Relatives(l1, l0)
<1>1. job.pc = "major" /\ Len(l0) > 0 /\ Len(l1) < LevelCapacity /\ rel # <<>>
  BY DEF MergeFiles, Major
<1>2. PICK lead \in SUBSET (KeysOf(l0) \cap KeysOf(rel)) :
        LET m == Merge(l0, rel, lead)
            outs == Outputs(m)
            a == AllocFds(Len(outs))
            New(f) == CHOOSE i \in 1 .. Len(outs) : a.fds[i] = f
            backs == {b \in {m[k].back : k \in DOMAIN m} : b > 0}
        IN IF ~FdsLeft(Len(outs))
           THEN job' = [job EXCEPT !.pc = "fd"] /\ UNCHANGED <<disk, rit>>
           ELSE
           /\ files' = [f \in Fds |->
                IF f \in a.used \ Taken
                THEN [level |-> 1, ver |-> version + New(f) - 1, ents |-> outs[New(f)]]
                ELSE files[f]]
           /\ cur' = a.cur
           /\ version' = version + Len(outs)
           /\ rit' = GiveBack(rit, {b \in backs : \E k \in DOMAIN m : m[k].back = b /\ rit[b] = k})
           /\ job' = [pc |-> IF NoEntries \in Range(outs) THEN "empty" ELSE "install",
                      dem |-> l0, rel |-> rel, adds |-> a.fds]
           /\ UNCHANGED <<l0, l1>>
  BY DEF MergeFiles
<1> DEFINE m == Merge(l0, rel, lead)
           outs == Outputs(m)
           c == NrFull(m) + 1
           a == AllocFds(Len(outs))
           New(f) == CHOOSE i \in 1 .. Len(outs) : a.fds[i] = f
           File(i) == [level |-> 1, ver |-> version + i - 1, ents |-> outs[i]]
<1>3. MergedTo(m, l0, rel) /\ Yields(m) /\ NrFull(m) <= Len(rel) /\ FdsLeft(c)
  BY <1>1, MergeFits
<1>4. /\ outs \in Seq(Entries) /\ Len(outs) = c /\ NrFull(m) \in Nat /\ c \in Nat
  <2> HIDE DEF m
  <2> QED BY <1>3, OutputsIs, BodyIs
<1>5. /\ files' = [f \in Fds |-> IF f \in a.used \ Taken THEN File(New(f)) ELSE files[f]]
      /\ cur' = a.cur /\ version' = version + Len(outs)
      /\ rit' = GiveBack(rit, GivenBack(m))
      /\ job' = [pc |-> IF NoEntries \in Range(outs) THEN "empty" ELSE "install",
                 dem |-> l0, rel |-> rel, adds |-> a.fds]
      /\ UNCHANGED <<l0, l1>>
  <2>1. FdsLeft(Len(outs))
    BY <1>3, <1>4
  <2> QED BY <1>2, <2>1 DEF GivenBack
<1>6. UNCHANGED <<mem, imm>>
  BY DEF MergeFiles
<1> HIDE DEF m, rel, outs
<1>7. Allocated(a, c) /\ Len(outs) = c
  <2>1. cur \in 0 .. NrFd
    BY DEF Disk, DiskTypes
  <2> QED BY <1>3, <1>4, <2>1, AllocFdsResult
<1> HIDE DEF a
<1>8. /\ a.fds \in Seq(Fds) /\ Len(a.fds) = c /\ Distinct(a.fds) /\ a.used \ Taken = Range(a.fds) /\ a.used \subseteq Fds
  BY <1>7 DEF Allocated, AllocStates
<1>9. Range(a.fds) = {a.fds[i] : i \in 1 .. c} /\ DOMAIN a.fds = 1 .. c
  BY <1>8, RangeIs
<1>10. ASSUME NEW i \in 1 .. c PROVE New(a.fds[i]) = i /\ a.fds[i] \in Fds /\ a.fds[i] \in Range(a.fds)
  <2>1. \E j \in 1 .. Len(outs) : a.fds[j] = a.fds[i]
    BY <1>4
  <2>2. New(a.fds[i]) \in 1 .. Len(outs) /\ a.fds[New(a.fds[i])] = a.fds[i]
    BY <2>1
  <2> HIDE DEF New
  <2>3. New(a.fds[i]) \in 1 .. c
    BY <1>7, <2>2
  <2> QED BY <1>8, <1>9, <2>2, <2>3 DEF Distinct
<1> HIDE DEF New
<1>11. ASSUME NEW i \in 1 .. c PROVE File(i) \in FileTypes
  <2>1. outs[i] \in Entries
    BY <1>4
  <2>2. version + i - 1 \in Nat
    BY DEF Disk, DiskTypes
  <2> QED BY <2>1, <2>2 DEF FileTypes
<1>12. \A i \in 1 .. c : files'[a.fds[i]] = File(i)
  <2> HIDE DEF File
  <2> QED BY <1>5, <1>8, <1>10
<1>13. \A f \in Fds \ Range(a.fds) : files'[f] = files[f]
  <2> HIDE DEF File
  <2> QED BY <1>5, <1>8
<1>14. files' \in [Fds -> FileTypes]
  <2>1. ASSUME NEW f \in Fds PROVE files'[f] \in FileTypes
    <3>1. CASE f \in Range(a.fds)
      <4>1. PICK i \in 1 .. c : f = a.fds[i]
        BY <1>9, <3>1
      <4> HIDE DEF File
      <4> QED BY <1>11, <1>12, <4>1
    <3>2. CASE f \notin Range(a.fds)
      BY <1>13, <3>2 DEF Disk, DiskTypes
    <3> QED BY <3>1, <3>2
  <2>2. files' = [f \in Fds |-> files'[f]]
    <3> HIDE DEF File
    <3> QED BY <1>5
  <2> QED BY <2>1, <2>2
<1>15. Merges(m, a, rel)
  <2>1. rel = Relatives(l1, l0)
    BY DEF rel
  <2>2. outs = Outputs(m)
    BY DEF outs
  <2> QED BY <1>1, <1>3, <1>5, <1>6, <1>7, <1>12, <1>13, <1>14, <2>1, <2>2 DEF Merges
<1> QED BY <1>1, <1>15

LEMMA NoKeys ==
  ASSUME NEW es \in Entries, KeysIn(es) = {}
  PROVE  es = NoEntries
<1>1. \A k \in Lbas : es[k] = NoRecord
  BY DEF KeysIn
<1> QED BY <1>1 DEF Entries, NoEntries

(* The files written by a merge: each has keys the merge met, and they are *)
(* in order.                                                               *)
LEMMA MergeWrites ==
  ASSUME Disk, NEW m, NEW a, NEW rel, Merges(m, a, rel)
  PROVE  /\ a.fds \in Seq(Fds) /\ Len(a.fds) = NrFull(m) + 1 /\ NrFull(m) \in Nat /\ Distinct(a.fds)
         /\ a.fds # <<>> /\ Range(a.fds) \cap Taken = {} /\ Range(a.fds) \subseteq Fds
         /\ \A f \in Range(a.fds) : \E i \in 1 .. NrFull(m) + 1 : f = a.fds[i]
         /\ Taken' = Taken \cup Range(a.fds)
         /\ \A f \in Taken : files'[f] = files[f]
         /\ \A i \in 1 .. NrFull(m) + 1 :
              /\ files'[a.fds[i]].level = 1 /\ files'[a.fds[i]].ver = version + i - 1
              /\ files'[a.fds[i]].ents = Outputs(m)[i]
              /\ KeysIn(files'[a.fds[i]].ents) = To(m, i)
              /\ NrRecord(files'[a.fds[i]].ents) <= Capacity
         /\ \A i, j \in 1 .. NrFull(m) + 1 : i < j =>
              \A x \in To(m, i), y \in To(m, j) : x < y
<1> DEFINE c == NrFull(m) + 1
           File(i) == [level |-> 1, ver |-> version + i - 1, ents |-> Outputs(m)[i]]
<1>1. Yields(m) /\ Allocated(a, c) /\ \A i \in 1 .. c : files'[a.fds[i]] = File(i)
  BY DEF Merges
<1>2. NrFull(m) \in Nat /\ c \in Nat /\ c # 0
  BY <1>1, BodyIs
<1>3. a.fds \in Seq(Fds) /\ Len(a.fds) = c /\ Distinct(a.fds) /\ Range(a.fds) \cap Taken = {}
  BY <1>1 DEF Allocated, AllocStates
<1>4. Range(a.fds) = {a.fds[i] : i \in 1 .. c} /\ Range(a.fds) \subseteq Fds
  BY <1>3, RangeIs
<1>5. a.fds # <<>>
  BY <1>2, <1>3, EmptyRange
<1>6. \A f \in Fds \ Range(a.fds) : files'[f] = files[f]
  BY DEF Merges
<1>7. \A f \in Taken : files'[f] = files[f]
  BY <1>3, <1>6, TakenIs
<1>8. \A i \in 1 .. c : File(i) # NoFile
  BY DEF NoFile
<1>9. Taken' = Taken \cup Range(a.fds)
  <2>1. \A f \in Range(a.fds) : files'[f] # NoFile
    <3> HIDE DEF File
    <3> QED BY <1>1, <1>4, <1>8
  <2> QED BY <1>4, <1>6, <2>1 DEF Taken
<1>10. ASSUME NEW i \in 1 .. c
       PROVE  /\ files'[a.fds[i]].level = 1 /\ files'[a.fds[i]].ver = version + i - 1
              /\ files'[a.fds[i]].ents = Outputs(m)[i]
              /\ KeysIn(files'[a.fds[i]].ents) = To(m, i)
              /\ NrRecord(files'[a.fds[i]].ents) <= Capacity
  <2>1. files'[a.fds[i]] = File(i)
    BY <1>1
  <2>2. files'[a.fds[i]].ents = Outputs(m)[i] /\ files'[a.fds[i]].level = 1 /\ files'[a.fds[i]].ver = version + i - 1
    BY <2>1
  <2>3. KeysIn(Outputs(m)[i]) = To(m, i) /\ NrRecord(Outputs(m)[i]) <= Capacity
    BY <1>1, OutputsIs
  <2> QED BY <2>2, <2>3
<1>11. ASSUME NEW i \in 1 .. c, NEW j \in 1 .. c, i < j, NEW x \in To(m, i), NEW y \in To(m, j)
       PROVE  x < y
  <2>1. x \in Added(m) /\ y \in DOMAIN m /\ Builder(m, x) = i /\ Builder(m, y) = j
    BY DEF To, Added
  <2> QED BY <1>1, <1>11, <2>1, BuilderOrder
<1> QED BY <1>2, <1>3, <1>4, <1>5, <1>7, <1>9, <1>10, <1>11

LEMMA MergeFilesDisk == ASSUME Disk, MergeFiles PROVE Disk'
<1>1. job.pc = "major" /\ Len(l0) > 0 /\ Len(l1) < LevelCapacity
  BY MergeFilesIs
<1>2. PICK m, a, rel : Merges(m, a, rel)
  BY MergeFilesIs
<1> DEFINE c == NrFull(m) + 1
           d == l0[1]
           N == Range(a.fds)
<1>3. /\ a.fds \in Seq(Fds) /\ Len(a.fds) = c /\ NrFull(m) \in Nat /\ Distinct(a.fds)
      /\ a.fds # <<>> /\ N \cap Taken = {} /\ N \subseteq Fds
      /\ \A f \in N : \E i \in 1 .. c : f = a.fds[i]
      /\ Taken' = Taken \cup N
      /\ \A f \in Taken : files'[f] = files[f]
  <2>1. a.fds \in Seq(Fds) /\ Len(a.fds) = c /\ NrFull(m) \in Nat /\ Distinct(a.fds) /\ a.fds # <<>>
    BY <1>2, MergeWrites
  <2>2. N \cap Taken = {} /\ N \subseteq Fds
    BY <1>2, MergeWrites
  <2>3. \A f \in N : \E i \in 1 .. c : f = a.fds[i]
    BY <1>2, MergeWrites
  <2>4. Taken' = Taken \cup N
    BY <1>2, MergeWrites
  <2>5. \A f \in Taken : files'[f] = files[f]
    BY <1>2, MergeWrites
  <2> QED BY <2>1, <2>2, <2>3, <2>4, <2>5
<1>4. \A i \in 1 .. c :
              /\ files'[a.fds[i]].level = 1 /\ files'[a.fds[i]].ver = version + i - 1
              /\ files'[a.fds[i]].ents = Outputs(m)[i]
              /\ KeysIn(files'[a.fds[i]].ents) = To(m, i)
              /\ NrRecord(files'[a.fds[i]].ents) <= Capacity
  BY <1>2, MergeWrites
<1>5. \A i, j \in 1 .. c : i < j => \A x \in To(m, i), y \in To(m, j) : x < y
  BY <1>2, MergeWrites
<1>6. /\ rel = Relatives(l1, l0) /\ rel # <<>>
      /\ MergedTo(m, l0, rel) /\ Yields(m) /\ NrFull(m) <= Len(rel) /\ Len(Outputs(m)) = c
      /\ a.cur \in 0 .. NrFd
      /\ files' \in [Fds -> FileTypes]
      /\ cur' = a.cur /\ version' = version + c
      /\ job' = [pc |-> IF NoEntries \in Range(Outputs(m)) THEN "empty" ELSE "install",
                 dem |-> l0, rel |-> rel, adds |-> a.fds]
      /\ UNCHANGED <<l0, l1>>
  BY <1>2 DEF Merges, Allocated, AllocStates
<1>7. /\ l0 = <<d>> /\ Range(l0) = {d} /\ Len(l0) = 1 /\ d \in Taken /\ l1 \in Seq(Taken)
      /\ Held = Range(l1) /\ job.rel = <<>> /\ \A f \in Taken : Spans(f)
      /\ Sectioned(rel, l1, d, Taken)
  <2>1. Sectioned(rel, l1, d, Taken)
    BY <1>1, <1>6, MajorFinds
  <2> QED BY <1>1, <2>1, MajorFinds
<1>8. DiskTypes /\ LevelsOK /\ FilesOK /\ JobOK /\ CountsOK /\ VersionsOK
  BY DEF Disk
<1> HIDE DEF c, d, N
<1>9. /\ rel \in Seq(Taken) /\ Len(rel) <= Len(l1) /\ Distinct(rel) /\ Range(rel) \subseteq Range(l1)
      /\ \A f \in Range(l1) \ Range(rel) : Beside(f, rel, d)
  BY <1>7 DEF Sectioned
<1>10. /\ job' \in Jobs /\ job'.pc = (IF NoEntries \in Range(Outputs(m)) THEN "empty" ELSE "install")
       /\ job'.dem = l0 /\ job'.rel = rel /\ job'.adds = a.fds
  <2>1. rel \in Seq(Fds) /\ l0 \in Seq(Fds)
    BY <1>8, <1>9, TakenIs DEF DiskTypes
  <2> QED BY <1>3, <1>6, <2>1 DEF Jobs, Pcs
<1>11. /\ Range(l0)' = {d} /\ Range(l1)' = Range(l1) /\ Held' = Range(l1) \cup N /\ Range(job.rel)' = Range(rel)
       /\ Range(job.adds)' = N
  BY <1>6, <1>7, <1>10 DEF Held, N
<1>12. Taken = {d} \cup Range(l1) /\ d \notin Range(l1) /\ N \cap Range(l1) = {} /\ d \notin N
  BY <1>1, <1>3, <1>7, <1>8 DEF LevelsOK
<1>13. DiskTypes'
  <2>1. version' \in Nat
    BY <1>3, <1>6, <1>8 DEF DiskTypes, c
  <2> QED BY <1>6, <1>8, <1>10, <2>1 DEF DiskTypes
<1>14. \A f \in N : \E i \in 1 .. c : f = a.fds[i]
  BY <1>3
<1>15. LevelsOK'
  <2>1. Sorted(l1)'
    <3>1. l1' \in Seq(Taken) /\ Sorted(l1')
      BY <1>6, <1>7, <1>8 DEF LevelsOK
    <3> QED BY <1>3, <3>1, SortedNext
  <2>2. Distinct(l1)' /\ Len(l0)' <= 1
    BY <1>6, <1>8 DEF LevelsOK
  <2>3. \A f \in Held' : files'[f].level = 1
    <3>1. \A f \in N : files'[f].level = 1
      BY <1>4, <1>14
    <3>2. \A f \in Range(l1) : files'[f].level = 1
      BY <1>3, <1>7, <1>8, <1>12 DEF LevelsOK
    <3> QED BY <1>11, <3>1, <3>2
  <2>4. files'[d].level = 0
    BY <1>1, <1>3, <1>7, <1>8 DEF LevelsOK
  <2>5. job'.pc \notin {"idle", "major", "move"}
    BY <1>10
  <2> QED BY <1>3, <1>10, <1>11, <1>12, <2>1, <2>2, <2>3, <2>4, <2>5 DEF LevelsOK
<1>16. FilesOK'
  <2>1. AllApart(Held \ Range(job.rel))'
    <3>1. \A x \in DOMAIN m : \E h \in Range(rel) \cup {d} : x \in KeysIn(files[h].ents)
      <4>1. DOMAIN m = KeysOf(l0) \cup KeysOf(rel)
        BY <1>6 DEF MergedTo
      <4> QED BY <1>7, <4>1, InFileOf
    <3>2. ASSUME NEW f \in Range(l1) \ Range(rel), NEW i \in 1 .. c
          PROVE  Left(f, a.fds[i])' \/ Left(a.fds[i], f)'
      <4>1. f \in Taken /\ files'[f] = files[f]
        BY <1>3, <1>12
      <4>2. KeysIn(files'[a.fds[i]].ents) = To(m, i) /\ To(m, i) \subseteq DOMAIN m
        BY <1>4 DEF To, Added
      <4>3. CASE \A h \in Range(rel) \cup {d} : Left(f, h)
        <5> SUFFICES ASSUME NEW x \in KeysIn(files[f].ents), NEW y \in To(m, i) PROVE x < y
          BY <4>1, <4>2 DEF Left
        <5>1. PICK h \in Range(rel) \cup {d} : y \in KeysIn(files[h].ents)
          BY <3>1, <4>2
        <5>2. Left(f, h)
          BY <4>3
        <5> QED BY <5>1, <5>2 DEF Left
      <4>4. CASE \A h \in Range(rel) \cup {d} : Left(h, f)
        <5> SUFFICES ASSUME NEW x \in KeysIn(files[f].ents), NEW y \in To(m, i) PROVE y < x
          BY <4>1, <4>2 DEF Left
        <5>1. PICK h \in Range(rel) \cup {d} : y \in KeysIn(files[h].ents)
          BY <3>1, <4>2
        <5>2. Left(h, f)
          BY <4>4
        <5> QED BY <5>1, <5>2 DEF Left
      <4>5. Beside(f, rel, d)
        BY <1>9, <3>2
      <4> QED BY <4>3, <4>4, <4>5 DEF Beside
    <3>3. ASSUME NEW i \in 1 .. c, NEW j \in 1 .. c, i < j PROVE Left(a.fds[i], a.fds[j])'
      BY <1>4, <1>5, <3>3 DEF Left
    <3>4. ASSUME NEW i \in 1 .. c, NEW j \in 1 .. c, a.fds[i] # a.fds[j]
          PROVE  Left(a.fds[i], a.fds[j])' \/ Left(a.fds[j], a.fds[i])'
      <4>1. i < j \/ j < i
        BY <1>3, <3>4 DEF c
      <4> QED BY <3>3, <4>1
    <3>5. ASSUME NEW f \in Range(l1), NEW g \in Range(l1), f # g PROVE Left(f, g)' \/ Left(g, f)'
      <4>1. AllApart(Range(l1))
        BY <1>7, <1>8, EmptyRange DEF FilesOK
      <4>2. files'[f] = files[f] /\ files'[g] = files[g]
        BY <1>3, <1>12
      <4> QED BY <3>5, <4>1, <4>2 DEF AllApart, Left
    <3>6. Held' \ Range(job.rel)' = (Range(l1) \ Range(rel)) \cup N
      BY <1>9, <1>11, <1>12
    <3>7. ASSUME NEW f \in (Range(l1) \ Range(rel)) \cup N, NEW g \in (Range(l1) \ Range(rel)) \cup N, f # g
          PROVE  Left(f, g)' \/ Left(g, f)'
      <4>1. CASE f \in N /\ g \in N
        <5>1. PICK i \in 1 .. c : f = a.fds[i]
          BY <1>14, <4>1
        <5>2. PICK j \in 1 .. c : g = a.fds[j]
          BY <1>14, <4>1
        <5> QED BY <3>4, <3>7, <5>1, <5>2
      <4>2. CASE f \in N /\ g \notin N
        <5>1. PICK i \in 1 .. c : f = a.fds[i]
          BY <1>14, <4>2
        <5> QED BY <3>2, <4>2, <5>1
      <4>3. CASE f \notin N /\ g \in N
        <5>1. PICK i \in 1 .. c : g = a.fds[i]
          BY <1>14, <4>3
        <5> QED BY <3>2, <4>3, <5>1
      <4>4. CASE f \notin N /\ g \notin N
        BY <3>5, <3>7, <4>4
      <4> QED BY <4>1, <4>2, <4>3, <4>4
    <3> QED BY <3>6, <3>7 DEF AllApart
  <2>2. ASSUME NEW f \in Taken'
        PROVE  /\ NrRecord(files'[f].ents) <= Capacity
               /\ KeysIn(files'[f].ents) = {} => job'.pc = "empty" /\ f \in N
    <3>1. CASE f \in Taken
      <4>1. NrRecord(files[f].ents) <= Capacity /\ KeysIn(files[f].ents) # {}
        BY <1>1, <1>8, <3>1 DEF FilesOK
      <4> QED BY <1>3, <3>1, <4>1
    <3>2. CASE f \in N
      <4>1. PICK i \in 1 .. c : f = a.fds[i]
        BY <1>14, <3>2
      <4>2. Outputs(m) \in Seq(Entries) /\ Outputs(m)[i] \in Entries /\ Outputs(m)[i] \in Range(Outputs(m))
        <5>1. Outputs(m) \in Seq(Entries) /\ i \in 1 .. Len(Outputs(m))
          BY <1>6, OutputsIs
        <5> QED BY <5>1, RangeIs
      <4>3. files'[f].ents = Outputs(m)[i]
        BY <1>4, <4>1
      <4>4. ASSUME KeysIn(files'[f].ents) = {} PROVE job'.pc = "empty"
        BY <1>10, <4>2, <4>3, <4>4, NoKeys
      <4> QED BY <1>4, <3>2, <4>1, <4>4
    <3> QED BY <1>3, <3>1, <3>2
  <2> QED BY <1>11, <2>1, <2>2 DEF FilesOK
<1>17. JobOK'
  <2>1. job'.pc \in {"install", "empty"} /\ l0' # <<>>
    BY <1>6, <1>7, <1>10, EmptyRange
  <2> QED BY <1>3, <1>6, <1>9, <1>10, <1>11, <1>12, <2>1 DEF JobOK, Merging
<1>18. CountsOK'
  <2>1. Len(l1)' = Len(l1) /\ Len(job.adds)' = c /\ Len(job.rel)' = Len(rel)
    BY <1>3, <1>6, <1>10
  <2>2. Len(l1) \in Nat /\ Len(rel) \in Nat
    BY <1>7, <1>9
  <2>3. \A x, y, z, w \in Nat : x < w /\ y <= z /\ z <= x => x + (y + 1) <= w + z /\ x + (y + 1) <= (w + w) - 1
    OBVIOUS
  <2> QED BY <1>1, <1>3, <1>6, <1>9, <2>1, <2>2, <2>3, SlotSum DEF CountsOK, c
<1>19. VersionsOK'
  <2>1. version \in Nat /\ \A f \in Fds : files[f].ver \in Nat
    BY <1>8 DEF DiskTypes, FileTypes
  <2>2. ASSUME NEW f \in N PROVE files'[f].ver < version'
    <3>1. PICK i \in 1 .. c : f = a.fds[i]
      BY <1>14
    <3>2. files'[f].ver = version + i - 1 /\ i \in Nat /\ c \in Nat /\ i <= c
      BY <1>3, <1>4, <3>1 DEF c
    <3> QED BY <1>6, <2>1, <3>2
  <2>3. ASSUME NEW f \in Range(l1) PROVE files'[f].ver < version'
    <3>1. files'[f] = files[f] /\ files[f].ver < version /\ files[f].ver \in Nat /\ c \in Nat
      BY <1>3, <1>7, <1>8, <1>12, <2>1, TakenIs DEF VersionsOK, c
    <3> QED BY <1>6, <2>1, <3>1
  <2>4. files'[d].ver <= version'
    <3>1. files'[d] = files[d] /\ files[d].ver <= version /\ files[d].ver \in Nat /\ c \in Nat
      BY <1>3, <1>7, <1>8, <2>1, TakenIs DEF VersionsOK, c
    <3> QED BY <1>6, <2>1, <3>1
  <2>5. job'.pc \notin {"idle", "major", "level"}
    BY <1>10
  <2> QED BY <1>11, <2>2, <2>3, <2>4, <2>5 DEF VersionsOK
<1> QED BY <1>13, <1>15, <1>16, <1>17, <1>18, <1>19 DEF Disk

-----------------------------------------------------------------------------
(* The memtables and the records. *)

LEMMA NoTableIs ==
  /\ NoTable \in Tables /\ EmptyTable \in Tables /\ EmptyTable # NoTable
  /\ EmptyTable.size = 0 /\ EmptyTable.size = NrRecord(EmptyTable.ents) /\ NrRecord(NoTable.ents) = 0
  /\ NoTable.ents = NoEntries /\ EmptyTable.ents = NoEntries
<1>1. NoEntries \in Entries /\ NrRecord(NoEntries) = 0
  BY NoEntriesIs
<1>2. NoTable.ents = NoEntries /\ EmptyTable.ents = NoEntries /\ EmptyTable.size = 0 /\ NoTable.size = -1
  BY DEF NoTable, EmptyTable
<1>3. NoTable \in Tables /\ EmptyTable \in Tables
  BY <1>1 DEF NoTable, EmptyTable, Tables
<1> QED BY <1>1, <1>2, <1>3

LEMMA InitMem == Init => MemOK /\ RecordsOK
<1> SUFFICES ASSUME Init PROVE MemOK /\ RecordsOK
  OBVIOUS
<1>1. job.pc = "idle"
  BY DEF Init, IdleJob
<1>2. Capacity \in Nat /\ Capacity > 0 /\ MaxPut \in Nat
  BY LsmAssumption
<1>3. MemOK
  <2>1. /\ mem = EmptyTable /\ imm = NoTable /\ rotating = FALSE /\ wq = 0 /\ up = "open"
    BY DEF Init
  <2>2. ~(EmptyTable.size >= Capacity) /\ EmptyTable.size <= Capacity /\ NrRecord(NoTable.ents) <= Capacity
    BY <1>2, NoTableIs
  <2>3. rotating \in BOOLEAN /\ ~rotating /\ wq \in Nat /\ ~(wq > 0)
    <3>1. rotating \in BOOLEAN /\ ~rotating
      BY <2>1
    <3>2. wq \in Nat /\ ~(wq > 0)
      BY <2>1
    <3> QED BY <3>1, <3>2
  <2>4. /\ mem \in Tables /\ imm \in Tables /\ mem.size = NrRecord(mem.ents) /\ mem.size <= Capacity
        /\ (rotating <=> mem.size >= Capacity) /\ NrRecord(imm.ents) <= Capacity
    BY <2>1, <2>2, <2>3, NoTableIs
  <2> QED BY <1>1, <2>1, <2>3, <2>4 DEF MemOK
<1>4. RecordsOK
  BY <1>2, EmptyRange DEF Init, RecordsOK
<1> QED BY <1>3, <1>4

(* A table that counts its records and holds at least one has a key. *)
LEMMA FullHasKeys ==
  ASSUME MemOK, mem.size > 0
  PROVE  KeysIn(mem.ents) # {} /\ mem # NoTable
<1>1. mem.ents \in Entries /\ mem.size = NrRecord(mem.ents)
  BY DEF MemOK, Tables
<1>2. NrRecord(mem.ents) # 0
  BY <1>1
<1>3. NoTable.size = -1
  BY DEF NoTable
<1> QED BY <1>1, <1>2, <1>3, RecordKeys

LEMMA PutMem == ASSUME MemOK, n \in Nat, NEW k \in Lbas, Put(k) \/ PutNegative(k) PROVE MemOK'
<1>1. up = "open" /\ ~rotating /\ UNCHANGED <<imm, wq, job, up>> /\ rotating' = (mem'.size >= Capacity)
  BY DEF Put, PutNegative, MUnlocked
<1>2. mem \in Tables /\ mem.size = NrRecord(mem.ents) /\ mem.size < Capacity /\ mem.size \in Int /\ Capacity \in Nat
  <2>1. mem \in Tables /\ mem.size = NrRecord(mem.ents) /\ ~(mem.size >= Capacity)
    BY <1>1 DEF MemOK
  <2>2. mem.size \in Int /\ Capacity \in Nat
    BY <2>1, LsmAssumption DEF Tables
  <2>3. mem.size < Capacity
    BY <2>1, <2>2
  <2> QED BY <2>1, <2>2, <2>3
<1>3. /\ mem' \in Tables /\ mem'.size = NrRecord(mem'.ents)
      /\ mem'.size \in {mem.size - 1, mem.size, mem.size + 1}
  <2>1. CASE Put(k)
    <3>1. mem' = MemPut(k, n + 1) /\ n + 1 \in Nat \ {0}
      BY <2>1 DEF Put
    <3> QED BY <1>2, <3>1, MemPutIs
  <2>2. CASE PutNegative(k)
    <3>1. mem' = MemPutNegative(k)
      BY <2>2 DEF PutNegative
    <3> QED BY <1>2, <3>1, MemPutNegativeIs
  <2> QED BY <2>1, <2>2
<1>4. mem'.size <= Capacity
  BY <1>2, <1>3
<1>5. job.pc # "idle" => imm # NoTable
  BY <1>1 DEF MemOK
<1>6. rotating' \in BOOLEAN /\ (rotating' <=> mem'.size >= Capacity)
  <2> DEFINE full == mem'.size >= Capacity
  <2>1. rotating' = full /\ full \in BOOLEAN
    BY <1>1
  <2> HIDE DEF full
  <2>2. rotating' \in BOOLEAN /\ (rotating' <=> full)
    BY <2>1, Zenon
  <2> QED BY <2>2 DEF full
<1>7. /\ imm \in Tables /\ wq \in Nat /\ NrRecord(imm.ents) <= Capacity
      /\ (imm # NoTable => KeysIn(imm.ents) # {}) /\ (wq > 0 => imm # NoTable)
  BY DEF MemOK
<1>8. UNCHANGED <<imm, wq, job>> /\ up' = "open"
  BY <1>1
<1> QED BY <1>3, <1>4, <1>5, <1>6, <1>7, <1>8 DEF MemOK

LEMMA RotateMem == ASSUME MemOK, Rotate PROVE MemOK'
<1>1. /\ rotating /\ job.pc = "idle" /\ imm' = mem /\ mem' = EmptyTable /\ rotating' = FALSE /\ wq' = wq + 1
      /\ UNCHANGED <<job, up>>
  BY DEF Rotate, ImUnlocked
<1>2. Capacity \in Nat /\ Capacity > 0
  BY LsmAssumption
<1>3. mem \in Tables /\ mem.size > 0 /\ up = "open" /\ NrRecord(mem.ents) <= Capacity /\ wq \in Nat
  <2>1. /\ mem \in Tables /\ mem.size >= Capacity /\ up = "open" /\ mem.size <= Capacity
        /\ wq \in Nat /\ mem.size = NrRecord(mem.ents)
    BY <1>1 DEF MemOK
  <2>2. mem.size \in Int
    BY <2>1 DEF Tables
  <2>3. mem.size > 0
    BY <1>2, <2>1, <2>2
  <2> QED BY <2>1, <2>3
<1>4. KeysIn(mem.ents) # {} /\ mem # NoTable
  BY <1>3, FullHasKeys
<1>5. ~(EmptyTable.size >= Capacity) /\ EmptyTable.size <= Capacity
  BY <1>2, NoTableIs
<1>6. rotating' \in BOOLEAN /\ ~rotating'
  BY <1>1
<1>7. wq' \in Nat /\ job'.pc = "idle" /\ up' = "open" /\ imm' = mem
  BY <1>1, <1>3
<1>8. /\ mem' \in Tables /\ mem'.size = NrRecord(mem'.ents) /\ mem'.size <= Capacity /\ ~(mem'.size >= Capacity)
  BY <1>1, <1>5, NoTableIs
<1> QED BY <1>3, <1>4, <1>6, <1>7, <1>8 DEF MemOK

LEMMA CompactionMem == ASSUME MemOK, Disk, Compaction PROVE MemOK'
<1>1. CASE WorkerStart
  <2>1. /\ wq > 0 /\ job.pc = "idle" /\ wq' = wq - 1 /\ UNCHANGED <<mem, imm, rotating, up>>
    BY <1>1 DEF WorkerStart, index
  <2>2. imm # NoTable /\ up # "closed" /\ wq \in Nat
    BY <2>1 DEF MemOK
  <2>3. wq' \in Nat /\ (wq' > 0 => imm # NoTable)
    BY <2>1, <2>2
  <2> QED BY <2>1, <2>2, <2>3 DEF MemOK
<1>2. CASE Minor
  <2>1. job.pc = "minor" /\ job'.pc = "idle" /\ UNCHANGED <<imm, rotating, wq, up>>
    BY <1>2, MinorDisk DEF Minor, Compact
  <2>2. mem' = IF imm = NoTable THEN EmptyTable ELSE mem
    <3>1. job' # [job EXCEPT !.pc = "fd"]
      BY <2>1 DEF Disk, DiskTypes, Jobs
    <3> QED BY <1>2, <3>1 DEF Minor
  <2>3. up # "closed"
    BY <2>1 DEF MemOK
  <2>4. CASE imm = NoTable
    <3>1. up = "closing" /\ ~rotating /\ Capacity \in Nat /\ Capacity > 0
      BY <2>1, <2>4, LsmAssumption DEF MemOK
    <3>2. ~(EmptyTable.size >= Capacity) /\ EmptyTable.size <= Capacity
      BY <3>1, NoTableIs
    <3> QED BY <2>1, <2>2, <2>4, <3>1, <3>2, NoTableIs DEF MemOK
  <2>5. CASE imm # NoTable
    BY <2>1, <2>2, <2>3, <2>5 DEF MemOK
  <2> QED BY <2>4, <2>5
<1>3. ASSUME job.pc # "idle", UNCHANGED <<mem, imm, rotating, wq, up>> PROVE MemOK'
  <2>1. up # "closed"
    BY <1>3 DEF MemOK
  <2>2. imm = NoTable => up = "closing" /\ mem.size > 0
    BY <1>3 DEF MemOK
  <2> QED BY <1>3, <2>1, <2>2 DEF MemOK
<1>4. CASE SkipMajor \/ LevelFull \/ MoveAdd \/ MoveRemove \/ MergeFiles \/ Install \/ DropDemoted \/ DropRelative
  <2>1. job.pc # "idle" /\ UNCHANGED <<mem, imm, rotating, wq, up>>
    BY <1>4 DEF SkipMajor, LevelFull, MoveAdd, MoveRemove, MergeFiles, Install, DropDemoted, DropRelative, Major, Compact
  <2> QED BY <1>3, <2>1
<1> QED BY <1>1, <1>2, <1>4 DEF Compaction

LEMMA CloseMem == ASSUME MemOK, Close \/ CloseMemtable \/ CloseEnd \/ Open PROVE MemOK'
<1>1. CASE Close
  BY <1>1 DEF Close, MemOK, index
<1>2. CASE CloseMemtable
  <2>1. job'.pc = "major"
    BY <1>2 DEF CloseMemtable, IdleJob
  <2>2. Capacity \in Nat
    BY LsmAssumption
  <2> QED BY <1>2, <2>1, <2>2, NoTableIs DEF CloseMemtable, MemOK
<1>3. CASE CloseEnd
  <2>1. Capacity \in Nat
    BY LsmAssumption
  <2>2. /\ up = "closing" /\ wq = 0 /\ job.pc = "idle" /\ imm' = NoTable /\ up' = "closed"
        /\ UNCHANGED <<mem, rotating, wq, job>>
    BY <1>3 DEF CloseEnd
  <2>3. NrRecord(NoTable.ents) <= Capacity
    BY <2>1, NoTableIs
  <2> QED BY <2>2, <2>3, NoTableIs DEF MemOK
<1>4. CASE Open
  BY <1>4 DEF Open, MemOK, index
<1> QED BY <1>1, <1>2, <1>3, <1>4

LEMMA GiveBackIs ==
  ASSUME NEW S, NEW r \in Seq(S \cup {INF}), NEW bs
  PROVE  /\ GiveBack(r, bs) \in Seq(S \cup {INF}) /\ Len(GiveBack(r, bs)) = Len(r) /\ DOMAIN GiveBack(r, bs) = 1 .. Len(r)
         /\ \A b \in 1 .. Len(r) : GiveBack(r, bs)[b] = IF b \in bs THEN INF ELSE r[b]
<1> DEFINE g == GiveBack(r, bs)
<1>1. Len(r) \in Nat /\ DOMAIN r = 1 .. Len(r)
  OBVIOUS
<1>2. g = [b \in 1 .. Len(r) |-> IF b \in bs THEN INF ELSE r[b]]
  BY <1>1 DEF GiveBack
<1>3. \A b \in 1 .. Len(r) : r[b] \in S \cup {INF}
  OBVIOUS
<1> HIDE DEF g
<1>4. g \in [1 .. Len(r) -> S \cup {INF}]
  BY <1>2, <1>3
<1>5. g \in Seq(S \cup {INF})
  BY <1>1, <1>4, IsASeq
<1>6. Len(g) = Len(r)
  BY <1>1, <1>4, <1>5
<1> QED BY <1>2, <1>4, <1>5, <1>6 DEF g

LEMMA NextRecords == ASSUME RecordsOK, Disk, [Next]_vars PROVE RecordsOK'
<1>1. n \in 0 .. MaxPut /\ rit \in Seq(Lbas \cup {INF}) /\ Len(rit) = n /\ negated \in [Lbas -> Nat] /\ MaxPut \in Nat
  BY LsmAssumption DEF RecordsOK
<1>2. ASSUME NEW k \in Lbas, Put(k) PROVE RecordsOK'
  <2>1. PICK bs : n < MaxPut /\ n' = n + 1 /\ rit' = Append(GiveBack(rit, bs), k) /\ negated' = negated
    BY <1>2 DEF Put
  <2>2. GiveBack(rit, bs) \in Seq(Lbas \cup {INF}) /\ Len(GiveBack(rit, bs)) = n
    BY <1>1, GiveBackIs
  <2>3. rit' \in Seq(Lbas \cup {INF}) /\ Len(rit') = n + 1
    BY <2>1, <2>2
  <2> QED BY <1>1, <2>1, <2>3 DEF RecordsOK
<1>3. ASSUME NEW k \in Lbas, PutNegative(k) PROVE RecordsOK'
  <2>1. PICK bs : n' = n /\ rit' = GiveBack(rit, bs) /\ negated' = [negated EXCEPT ![k] = @ + 1]
    BY <1>3 DEF PutNegative
  <2>2. GiveBack(rit, bs) \in Seq(Lbas \cup {INF}) /\ Len(GiveBack(rit, bs)) = n
    BY <1>1, GiveBackIs
  <2> QED BY <1>1, <2>1, <2>2 DEF RecordsOK
<1>4. CASE MergeFiles
  <2>1. PICK bs : rit' = GiveBack(rit, bs)
    BY <1>4, MergeFilesIs DEF Merges
  <2>2. GiveBack(rit, bs) \in Seq(Lbas \cup {INF}) /\ Len(GiveBack(rit, bs)) = n
    BY <1>1, GiveBackIs
  <2>3. n' = n /\ negated' = negated
    BY <1>4 DEF MergeFiles, Compact
  <2> QED BY <1>1, <2>1, <2>2, <2>3 DEF RecordsOK
<1>5. ASSUME UNCHANGED <<n, rit, negated>> PROVE RecordsOK'
  BY <1>5 DEF RecordsOK
<1>6. CASE Rotate \/ Close \/ CloseMemtable \/ CloseEnd \/ Open \/ UNCHANGED vars
  <2>1. UNCHANGED <<n, rit, negated>>
    BY <1>6 DEF Rotate, Close, CloseMemtable, CloseEnd, Open, index, vars
  <2> QED BY <1>5, <2>1
<1>7. CASE Searching
  <2>1. UNCHANGED <<n, rit, negated>>
    BY <1>7 DEF Searching, SearchMem, SearchImm, SearchCopy, SearchLevel0, SearchLevel1, RangeMem, RangeImm,
                RangeLevel0, RangeLevel1, Search, index
  <2> QED BY <1>5, <2>1
<1>8. CASE Compaction /\ ~MergeFiles
  <2>1. UNCHANGED <<n, rit, negated>>
    BY <1>8 DEF Compaction, WorkerStart, SkipMajor, LevelFull, MoveAdd, MoveRemove, Install, DropDemoted,
                DropRelative, Minor, Compact, index
  <2> QED BY <1>5, <2>1
<1> QED BY <1>2, <1>3, <1>4, <1>6, <1>7, <1>8 DEF Next

-----------------------------------------------------------------------------
Inv == MemOK /\ RecordsOK /\ Disk

LEMMA InvInit == Init => Inv
BY InitDisk, InitMem DEF Inv

LEMMA NextDisk == ASSUME MemOK, Disk, [Next]_vars PROVE Disk'
<1>1. CASE Compaction
  BY <1>1, JobStepsDisk, MoveAddDisk, MoveRemoveDisk, MergeFilesDisk, InstallDisk, DropDemotedDisk,
     DropRelativeDisk, MinorDisk DEF Compaction
<1>2. CASE CloseMemtable
  BY <1>2, JobStepsDisk
<1>3. CASE Open
  BY <1>3, OpenDisk
<1>4. CASE Rotate \/ Close \/ CloseEnd \/ UNCHANGED vars
  <2>1. UNCHANGED disk /\ UNCHANGED job
    BY <1>4 DEF Rotate, Close, CloseEnd, vars
  <2> QED BY <2>1, SameDisk
<1>5. ASSUME NEW k \in Lbas, Put(k) \/ PutNegative(k) PROVE Disk'
  <2>1. UNCHANGED disk /\ UNCHANGED job
    BY <1>5 DEF Put, PutNegative
  <2> QED BY <2>1, SameDisk
<1>6. CASE Searching
  <2>1. UNCHANGED disk /\ UNCHANGED job
    BY <1>6 DEF Searching, SearchMem, SearchImm, SearchCopy, SearchLevel0, SearchLevel1, RangeMem, RangeImm,
                RangeLevel0, RangeLevel1, Search
  <2> QED BY <2>1, SameDisk
<1> QED BY <1>1, <1>2, <1>3, <1>4, <1>5, <1>6 DEF Next

LEMMA NextMem == ASSUME MemOK, RecordsOK, Disk, [Next]_vars PROVE MemOK'
<1>1. n \in Nat
  BY DEF RecordsOK
<1>2. ASSUME NEW k \in Lbas, Put(k) \/ PutNegative(k) PROVE MemOK'
  BY <1>1, <1>2, PutMem
<1>3. CASE Rotate \/ Compaction \/ Close \/ CloseMemtable \/ CloseEnd \/ Open
  BY <1>3, RotateMem, CompactionMem, CloseMem
<1>4. CASE Searching \/ UNCHANGED vars
  <2>1. UNCHANGED <<mem, imm, rotating, wq, up, job>>
    BY <1>4 DEF Searching, SearchMem, SearchImm, SearchCopy, SearchLevel0, SearchLevel1, RangeMem, RangeImm,
                RangeLevel0, RangeLevel1, Search, index, vars
  <2> QED BY <2>1 DEF MemOK
<1> QED BY <1>2, <1>3, <1>4 DEF Next

LEMMA InvNext == Inv /\ [Next]_vars => Inv'
BY NextDisk, NextMem, NextRecords DEF Inv

(* Every step of lsm_tree_put, of the compaction thread, of a search and of*)
(* a restart preserves the invariant.                                      *)
THEOREM Invariance == Spec => []Inv
<1>1. Init => Inv
  BY InvInit
<1>2. Inv /\ [Next]_vars => Inv'
  BY InvNext
<1> QED BY <1>1, <1>2, PTL DEF Spec

LEMMA InvTypes == Inv => TypeOK
<1> SUFFICES ASSUME Inv PROVE TypeOK
  OBVIOUS
<1>1. /\ n \in 0 .. MaxPut /\ Len(rit) = n /\ rit \in Seq(Lbas \cup {INF}) /\ mem.size = NrRecord(mem.ents)
      /\ cur \in 0 .. NrFd
  BY DEF Inv, MemOK, RecordsOK, Disk, DiskTypes
<1>2. \A b \in DOMAIN rit : rit[b] \in Lbas \cup {INF}
  BY <1>1
<1>3. Taken = Range(l0) \cup Held /\ Range(l1) \subseteq Held
  BY DEF Inv, Disk, LevelsOK, Held
<1>4. ASSUME NEW f \in Taken PROVE files[f].level \in {0, 1} /\ files[f].ver <= version
  <2>1. files[f].level \in {0, 1}
    BY <1>3 DEF Inv, Disk, LevelsOK
  <2>2. files[f].ver \in Nat /\ version \in Nat
    BY TakenIs DEF Inv, Disk, DiskTypes, FileTypes
  <2>3. files[f].ver <= version
    BY <1>3, <2>2 DEF Inv, Disk, VersionsOK
  <2> QED BY <2>1, <2>3
<1> QED BY <1>1, <1>2, <1>3, <1>4 DEF TypeOK

LEMMA InvLevels == Inv => LevelsOrdered
<1> SUFFICES ASSUME Inv, job.pc = "idle"
             PROVE  Len(l0) <= 1 /\ \A i \in 1 .. Len(l1) - 1 : LastKey(l1[i]) < FirstKey(l1[i + 1])
  BY DEF LevelsOrdered
<1>1. /\ Len(l0) <= 1 /\ Distinct(l1) /\ Sorted(l1) /\ l1 \in Seq(Fds) /\ Range(l1) \subseteq Taken
  BY DEF Inv, Disk, LevelsOK, DiskTypes, Held
<1>2. l1 \in Seq(Taken)
  BY <1>1, InSeq
<1>3. \A f \in Taken : Spans(f)
  BY TakenSpans DEF Inv
<1>4. AllApart(Range(l1))
  <2>1. Range(job.rel) = {} /\ Range(job.adds) = {}
    BY EmptyRange DEF Inv, Disk, JobOK, Merging
  <2> QED BY <2>1 DEF Inv, Disk, FilesOK, Held
<1>5. Ordered(l1)
  BY <1>1, <1>2, <1>3, <1>4, OrderedIs
<1>6. ASSUME NEW i \in 1 .. Len(l1) - 1 PROVE LastKey(l1[i]) < FirstKey(l1[i + 1])
  <2>1. Len(l1) \in Nat /\ i \in 1 .. Len(l1) /\ i + 1 \in 1 .. Len(l1) /\ i < i + 1
    BY <1>1
  <2> QED BY <1>5, <2>1 DEF Ordered
<1> QED BY <1>1, <1>6

LEMMA InvVersions == Inv => VersionsOrdered
<1> SUFFICES ASSUME Inv, job.pc = "idle", NEW i \in DOMAIN l0, NEW j \in DOMAIN l1
             PROVE  files[l0[i]].ver > files[l1[j]].ver
  BY DEF VersionsOrdered
<1>1. l0[i] \in Range(l0) /\ l1[j] \in Range(l1)
  BY DEF Range
<1>2. l0[i] \in Taken /\ l1[j] \in Taken
  BY <1>1 DEF Inv, Disk, LevelsOK, Held
<1>3. files[l0[i]].ver \in Nat /\ files[l1[j]].ver \in Nat
  BY <1>2, TakenIs DEF Inv, Disk, DiskTypes, FileTypes
<1>4. files[l1[j]].ver < files[l0[i]].ver
  BY <1>1 DEF Inv, Disk, VersionsOK
<1> QED BY <1>3, <1>4

LEMMA InvSlots == Inv => SlotsSuffice
<1> SUFFICES ASSUME Inv PROVE SlotsSuffice
  OBVIOUS
<1>1. job.pc # "fd"
  <2>1. job.pc \in Pcs
    BY DEF Inv, Disk, DiskTypes, Jobs
  <2> QED BY <2>1 DEF Pcs
<1>2. \A f \in Taken : NrRecord(files[f].ents) <= Capacity
  BY DEF Inv, Disk, FilesOK
<1> QED BY <1>1, <1>2 DEF SlotsSuffice

(* TypeOK: rbtree_memtable_put keeps the size of a memtable exact, and the *)
(* catalogue's cursor, versions and levels stay in their ranges.           *)
THEOREM TreeTypes == Spec => []TypeOK
BY Invariance, InvTypes, PTL

(* LevelsOrdered: between compactions level 0 has at most one file and the *)
(* files of level 1 are sorted and disjoint, as bit_level_locate_file needs*)
THEOREM LevelsInOrder == Spec => []LevelsOrdered
BY Invariance, InvLevels, PTL

(* VersionsOrdered: between compactions the file of level 0 has a higher   *)
(* version than every file of level 1, by which compaction_job_run merges. *)
THEOREM VersionsInOrder == Spec => []VersionsOrdered
BY Invariance, InvVersions, PTL

(* SlotsSuffice: alloc_file never runs out of file slots in a compaction   *)
(* and no file outgrows its slot.                                          *)
THEOREM SlotsEnough == Spec => []SlotsSuffice
BY Invariance, InvSlots, PTL

-----------------------------------------------------------------------------
(* What the levels answer, with the files and the levels as parameters. *)

Has(fls, f, k) == k \in KeysIn(fls[f].ents)

FoundIn(fls, F, k) ==
  LET hits == {f \in F : First(fls[f].ents, k) # 0}
  IN IF hits = {} THEN 0
     ELSE First(fls[CHOOSE f \in hits : \A g \in hits : fls[g].ver <= fls[f].ver].ents, k)

LinearIn(fls, lev, k) ==
  LET hits == {i \in DOMAIN lev : First(fls[lev[i]].ents, k) # 0}
      Worse(i, j) == \/ fls[lev[i]].ver < fls[lev[j]].ver
                     \/ fls[lev[i]].ver = fls[lev[j]].ver /\ i <= j
  IN IF hits = {} THEN 0
     ELSE First(fls[lev[CHOOSE j \in hits : \A i \in hits : Worse(i, j)]].ents, k)

ViewIn(me, ie, fls, lev, F, k) ==
  Norm(Over(First(me, k), Over(First(ie, k), Over(LinearIn(fls, lev, k), FoundIn(fls, F, k)))))

(* v is the value that every file of F with the key has. *)
AnswersIn(fls, F, k, v) ==
  /\ \A f \in F : Has(fls, f, k) => fls[f].ents[k].val = v
  /\ v = 0 \/ \E f \in F : Has(fls, f, k)

DiskAnswers(fls, lev, F, k, v) ==
  IF lev # <<>> /\ Has(fls, lev[1], k) THEN v = fls[lev[1]].ents[k].val
  ELSE AnswersIn(fls, F, k, v)

LEMMA FirstOf ==
  ASSUME NEW es \in Entries, NEW k \in Lbas
  PROVE  /\ First(es, k) # 0 <=> k \in KeysIn(es)
         /\ k \in KeysIn(es) => Norm(First(es, k)) = es[k].val
         /\ es[k].val \in Nat /\ (es[k].val # 0 => k \in KeysIn(es))
<1>1. es[k] \in Records
  BY DEF Entries
<1>2. es[k].val \in Nat /\ es[k].neg \in BOOLEAN
  BY <1>1 DEF Records
<1>3. es[k] = [val |-> es[k].val, neg |-> es[k].neg]
  BY <1>1 DEF Records
<1>4. k \in KeysIn(es) <=> es[k].val # 0 \/ es[k].neg
  <2>1. ASSUME es[k].val = 0, ~es[k].neg PROVE es[k] = NoRecord
    BY <1>2, <1>3, <2>1 DEF NoRecord
  <2>2. ASSUME es[k] = NoRecord PROVE es[k].val = 0 /\ ~es[k].neg
    BY <2>2 DEF NoRecord
  <2> QED BY <2>1, <2>2 DEF KeysIn
<1>5. es[k].val # NEG /\ NEG # 0
  BY <1>2 DEF NEG
<1> QED BY <1>2, <1>4, <1>5 DEF First, Norm

LEMMA FoundIs ==
  ASSUME NEW fls \in [Fds -> FileTypes], NEW F \in SUBSET Fds, NEW k \in Lbas, NEW v,
         AnswersIn(fls, F, k, v), NEW N \in Nat, \A f \in F : fls[f].ver <= N
  PROVE  Norm(FoundIn(fls, F, k)) = v
<1> DEFINE hits == {f \in F : First(fls[f].ents, k) # 0}
<1>1. ASSUME NEW f \in F
      PROVE  /\ f \in hits <=> Has(fls, f, k)
             /\ f \in hits => Norm(First(fls[f].ents, k)) = v
             /\ fls[f].ver \in Nat
  <2>1. fls[f].ents \in Entries /\ fls[f].ver \in Nat
    BY DEF FileTypes
  <2> QED BY <2>1, FirstOf DEF Has, AnswersIn
<1>2. CASE hits = {}
  <2>1. FoundIn(fls, F, k) = 0
    BY <1>2 DEF FoundIn
  <2>2. v = 0
    BY <1>1, <1>2 DEF AnswersIn
  <2> QED BY <2>1, <2>2 DEF Norm, NEG
<1>3. CASE hits # {}
  <2> DEFINE Top(f) == \A g \in hits : fls[g].ver <= fls[f].ver
  <2>1. \E f \in hits : Top(f)
    <3> DEFINE T == {fls[f].ver : f \in hits}
    <3>1. T \in SUBSET Nat /\ T # {} /\ \A y \in T : y <= N
      BY <1>1, <1>3
    <3>2. Max(T) \in T /\ \A y \in T : y <= Max(T)
      <4> HIDE DEF T
      <4> QED BY <3>1, MaxIs
    <3>3. PICK f \in hits : fls[f].ver = Max(T)
      BY <3>2
    <3>4. \A g \in hits : fls[g].ver \in T
      OBVIOUS
    <3>5. \A g \in hits : fls[g].ver <= fls[f].ver
      <4> HIDE DEF T
      <4> QED BY <3>2, <3>3, <3>4
    <3> QED BY <3>5
  <2>2. FoundIn(fls, F, k) = First(fls[CHOOSE f \in hits : Top(f)].ents, k)
    BY <1>3 DEF FoundIn
  <2>3. (CHOOSE f \in hits : Top(f)) \in hits
    <3> HIDE DEF Top, hits
    <3> QED BY <2>1
  <2> QED BY <1>1, <2>2, <2>3
<1> QED BY <1>2, <1>3

LEMMA LinearIs ==
  ASSUME NEW fls \in [Fds -> FileTypes], NEW lev \in Seq(Fds), Len(lev) <= 1, NEW k \in Lbas
  PROVE  LinearIn(fls, lev, k) = IF lev = <<>> THEN 0 ELSE First(fls[lev[1]].ents, k)
<1> DEFINE hits == {i \in DOMAIN lev : First(fls[lev[i]].ents, k) # 0}
           Worse(i, j) == \/ fls[lev[i]].ver < fls[lev[j]].ver
                          \/ fls[lev[i]].ver = fls[lev[j]].ver /\ i <= j
           c == CHOOSE j \in hits : \A i \in hits : Worse(i, j)
<1>1. LinearIn(fls, lev, k) = IF hits = {} THEN 0 ELSE First(fls[lev[c]].ents, k)
  BY DEF LinearIn
<1>2. CASE lev = <<>>
  <2>1. hits = {}
    BY <1>2
  <2> QED BY <1>1, <1>2, <2>1
<1>3. CASE lev # <<>>
  <2>1. DOMAIN lev = {1}
    <3>1. Len(lev) = 1
      BY <1>3, OneFile
    <3> QED BY <3>1
  <2>2. hits \subseteq {1} /\ (1 \in hits <=> First(fls[lev[1]].ents, k) # 0)
    BY <2>1
  <2>3. ASSUME 1 \in hits PROVE c = 1
    <3>1. hits = {1} /\ Worse(1, 1)
      BY <2>2, <2>3
    <3>2. c \in hits
      <4>1. \E j \in hits : \A i \in hits : Worse(i, j)
        BY <3>1
      <4> HIDE DEF hits, Worse
      <4> QED BY <4>1
    <3> HIDE DEF hits, c
    <3> QED BY <3>1, <3>2
  <2>4. hits = {} \/ 1 \in hits
    BY <2>2
  <2> HIDE DEF hits, c
  <2> QED BY <1>1, <1>3, <2>2, <2>3, <2>4
<1> QED BY <1>2, <1>3

LEMMA ViewInIs ==
  ASSUME NEW me \in Entries, NEW ie \in Entries,
         NEW fls \in [Fds -> FileTypes], NEW lev \in Seq(Fds), Len(lev) <= 1,
         NEW F \in SUBSET Fds, NEW N \in Nat, \A f \in F : fls[f].ver <= N,
         NEW k \in Lbas, NEW v, DiskAnswers(fls, lev, F, k, v)
  PROVE  ViewIn(me, ie, fls, lev, F, k) =
           IF k \in KeysIn(me) THEN me[k].val ELSE IF k \in KeysIn(ie) THEN ie[k].val ELSE v
<1> DEFINE x == First(me, k)
           y == First(ie, k)
           z == LinearIn(fls, lev, k)
           w == FoundIn(fls, F, k)
<1>1. /\ x # 0 <=> k \in KeysIn(me)
      /\ k \in KeysIn(me) => Norm(x) = me[k].val
      /\ y # 0 <=> k \in KeysIn(ie)
      /\ k \in KeysIn(ie) => Norm(y) = ie[k].val
  BY FirstOf
<1>2. Norm(Over(z, w)) = v
  <2>1. CASE lev # <<>> /\ Has(fls, lev[1], k)
    <3>1. lev[1] \in Fds
      BY <2>1
    <3>2. fls[lev[1]].ents \in Entries
      BY <3>1 DEF FileTypes
    <3>3. z = First(fls[lev[1]].ents, k)
      BY <2>1, LinearIs
    <3>4. z # 0 /\ Norm(z) = fls[lev[1]].ents[k].val
      BY <2>1, <3>2, <3>3, FirstOf DEF Has
    <3> HIDE DEF z, w
    <3> QED BY <2>1, <3>4 DEF DiskAnswers, Over
  <2>2. CASE ~(lev # <<>> /\ Has(fls, lev[1], k))
    <3>1. z = 0
      <4>1. CASE lev = <<>>
        BY <4>1, LinearIs
      <4>2. CASE lev # <<>>
        <5>1. fls[lev[1]].ents \in Entries
          <6>1. lev[1] \in Fds
            BY <4>2
          <6> QED BY <6>1 DEF FileTypes
        <5> QED BY <2>2, <4>2, <5>1, LinearIs, FirstOf DEF Has
      <4> QED BY <4>1, <4>2
    <3>2. AnswersIn(fls, F, k, v)
      BY <2>2 DEF DiskAnswers
    <3>3. Norm(w) = v
      BY <3>2, FoundIs
    <3> HIDE DEF z, w
    <3> QED BY <3>1, <3>3 DEF Over
  <2> QED BY <2>1, <2>2
<1>3. ViewIn(me, ie, fls, lev, F, k) = Norm(Over(x, Over(y, Over(z, w))))
  BY DEF ViewIn
<1> HIDE DEF x, y, z, w
<1> QED BY <1>1, <1>2, <1>3 DEF Over

(* What level 0 and level 1 answer for k, as a relation. *)
Shows(k, v) == DiskAnswers(files, l0, Range(l1) \ Merged, k, v)

LEMMA ViewUses ==
  /\ \A k : View(k) = ViewIn(mem.ents, imm.ents, files, l0, Range(l1) \ Merged, k)
  /\ \A k : View(k)' = ViewIn(mem'.ents, imm'.ents, files', l0', Range(l1') \ Merged', k)
<1>1. \A k : View(k) = ViewIn(mem.ents, imm.ents, files, l0, Range(l1) \ Merged, k)
  BY DEF View, ViewIn, Get, LinearSearch, LinearIn, Newest, FoundIn, FileSearch
<1>2. \A k : View(k)' = ViewIn(mem'.ents, imm'.ents, files', l0', Range(l1') \ Merged', k)
  BY DEF View, ViewIn, Get, LinearSearch, LinearIn, Newest, FoundIn, FileSearch
<1> QED BY <1>1, <1>2

(* The view, given what the levels answer. *)
Seen(k, v) ==
  IF k \in KeysIn(mem.ents) THEN mem.ents[k].val
  ELSE IF k \in KeysIn(imm.ents) THEN imm.ents[k].val ELSE v

LEMMA DiskBounds ==
  ASSUME Disk
  PROVE  /\ files \in [Fds -> FileTypes] /\ l0 \in Seq(Fds) /\ Len(l0) <= 1
         /\ Range(l1) \ Merged \in SUBSET Fds /\ version \in Nat
         /\ \A f \in Range(l1) \ Merged : files[f].ver <= version
<1>1. files \in [Fds -> FileTypes] /\ l0 \in Seq(Fds) /\ l1 \in Seq(Fds) /\ version \in Nat /\ Len(l0) <= 1
  BY DEF Disk, DiskTypes, LevelsOK
<1>2. Range(l1) \subseteq Fds
  BY <1>1, RangeIs
<1>3. ASSUME NEW f \in Range(l1) PROVE files[f].ver <= version
  <2>1. files[f].ver \in Nat
    BY <1>1, <1>2 DEF FileTypes
  <2>2. files[f].ver < version
    BY DEF Disk, VersionsOK, Held
  <2> QED BY <1>1, <2>1, <2>2
<1> QED BY <1>1, <1>2, <1>3

LEMMA ViewIs ==
  ASSUME Inv, NEW k \in Lbas, NEW v, Shows(k, v)
  PROVE  View(k) = Seen(k, v)
<1>1. mem.ents \in Entries /\ imm.ents \in Entries
  BY DEF Inv, MemOK, Tables
<1>2. /\ files \in [Fds -> FileTypes] /\ l0 \in Seq(Fds) /\ Len(l0) <= 1
      /\ Range(l1) \ Merged \in SUBSET Fds /\ version \in Nat
      /\ \A f \in Range(l1) \ Merged : files[f].ver <= version
  BY DiskBounds DEF Inv
<1>3. DiskAnswers(files, l0, Range(l1) \ Merged, k, v)
  BY DEF Shows
<1>4. View(k) = ViewIn(mem.ents, imm.ents, files, l0, Range(l1) \ Merged, k)
  BY ViewUses
<1> QED BY <1>1, <1>2, <1>3, <1>4, ViewInIs DEF Seen

LEMMA ViewNext ==
  ASSUME Inv', NEW k \in Lbas, NEW v, Shows(k, v)'
  PROVE  View(k)' = Seen(k, v)'
<1>1. mem'.ents \in Entries /\ imm'.ents \in Entries
  BY DEF Inv, MemOK, Tables
<1>2. files' \in [Fds -> FileTypes] /\ l0' \in Seq(Fds) /\ l1' \in Seq(Fds) /\ version' \in Nat /\ Len(l0') <= 1
  BY DEF Inv, Disk, DiskTypes, LevelsOK
<1>3. Range(l1') \subseteq Fds
  BY <1>2, RangeIs
<1>4. ASSUME NEW f \in Range(l1') PROVE files'[f].ver <= version'
  <2>1. files'[f].ver \in Nat
    BY <1>2, <1>3 DEF FileTypes
  <2>2. files'[f].ver < version'
    BY DEF Inv, Disk, VersionsOK, Held
  <2> QED BY <1>2, <2>1, <2>2
<1>5. DiskAnswers(files', l0', Range(l1') \ Merged', k, v)
  BY DEF Shows
<1>6. View(k)' = ViewIn(mem'.ents, imm'.ents, files', l0', Range(l1') \ Merged', k)
  BY ViewUses
<1>7. Range(l1') \ Merged' \in SUBSET Fds /\ \A f \in Range(l1') \ Merged' : files'[f].ver <= version'
  BY <1>3, <1>4
<1>8. View(k)' = IF k \in KeysIn(mem'.ents) THEN mem'.ents[k].val
                 ELSE IF k \in KeysIn(imm'.ents) THEN imm'.ents[k].val ELSE v
  BY <1>1, <1>2, <1>5, <1>6, <1>7, ViewInIs
<1> QED BY <1>8 DEF Seen

-----------------------------------------------------------------------------
(* The output of a merge against its input: of a key of the demoted file   *)
(* the value there, of another key the value in the merged file of level 1.*)

Output == Held \ Range(job.rel)

MergeOut ==
  job.pc \in {"install", "dropdem", "empty"} =>
    LET d == l0[1] IN
    /\ \A f \in Output : \A k \in Lbas :
         Has(files, f, k) /\ Has(files, d, k) => ValIn(f, k) = ValIn(d, k)
    /\ \A f \in Output : \A r \in Range(job.rel) : \A k \in Lbas :
         Has(files, f, k) /\ Has(files, r, k) /\ ~Has(files, d, k) => ValIn(f, k) = ValIn(r, k)
    /\ \A k \in Lbas : Has(files, d, k) /\ ValIn(d, k) # 0 => \E f \in Output : Has(files, f, k)
    /\ \A r \in Range(job.rel) : \A k \in Lbas :
         Has(files, r, k) /\ ~Has(files, d, k) /\ ValIn(r, k) # 0 => \E f \in Output : Has(files, f, k)
    /\ Disjoint(job.rel)
    /\ \A f \in Range(job.adds) : \A k \in Lbas :
         Has(files, f, k) => Has(files, d, k) \/ \E r \in Range(job.rel) : Has(files, r, k)

(* The file of level 0 holds the immutable memtable once that is written. *)
Backed ==
  wq = 0 /\ job.pc = "idle" /\ imm # NoTable => l0 # <<>> /\ files[l0[1]].ents = imm.ents

LEMMA ApartUnique ==
  ASSUME NEW F, AllApart(F), NEW f \in F, NEW g \in F, NEW k \in Lbas, Has(files, f, k), Has(files, g, k)
  PROVE  f = g
<1>1. k \in Nat
  BY LsmAssumption DEF Lbas
<1>2. ~(k < k)
  BY <1>1
<1> QED BY <1>2 DEF AllApart, Left, Has

LEMMA ApartAnswers ==
  ASSUME NEW F, AllApart(F), NEW k \in Lbas
  PROVE  \E v : AnswersIn(files, F, k, v)
<1>1. CASE \E f \in F : Has(files, f, k)
  <2>1. PICK f \in F : Has(files, f, k)
    BY <1>1
  <2>2. \A g \in F : Has(files, g, k) => g = f
    BY <2>1, ApartUnique
  <2>3. AnswersIn(files, F, k, files[f].ents[k].val)
    BY <2>1, <2>2 DEF AnswersIn
  <2> QED BY <2>3
<1>2. CASE ~\E f \in F : Has(files, f, k)
  <2>1. AnswersIn(files, F, k, 0)
    BY <1>2 DEF AnswersIn
  <2> QED BY <2>1
<1> QED BY <1>1, <1>2

LEMMA MergedIs ==
  ASSUME Disk
  PROVE  /\ job.pc \notin {"install", "empty"} =>
              Range(l1) \ Merged = Output /\ AllApart(Range(l1) \ Merged)
         /\ job.pc \notin {"dropdem", "droprel"} => Range(l1) \ Merged = Range(l1)
<1>1. AllApart(Output)
  BY DEF Disk, FilesOK, Output
<1>2. ASSUME job.pc \notin {"install", "empty"} PROVE Range(l1) \ Merged = Output
  <2>1. Held = Range(l1)
    BY <1>2, EmptyRange DEF Disk, JobOK, Held
  <2>2. Range(job.rel) = Merged
    <3>1. CASE job.pc \in {"dropdem", "droprel"}
      BY <3>1 DEF Merged
    <3>2. CASE job.pc \notin {"dropdem", "droprel"}
      <4>1. Merged = {}
        BY <3>2 DEF Merged
      <4>2. Range(job.rel) = {}
        BY <1>2, <3>2, EmptyRange DEF Disk, JobOK, Merging
      <4> QED BY <4>1, <4>2
    <3> QED BY <3>1, <3>2
  <2> QED BY <2>1, <2>2 DEF Output
<1>3. job.pc \notin {"dropdem", "droprel"} => Range(l1) \ Merged = Range(l1)
  BY DEF Merged
<1> QED BY <1>1, <1>2, <1>3

(* The answer while the output of a merge is being added to level 1. *)
LEMMA InstallingAnswer ==
  ASSUME Disk, MergeOut, job.pc \in {"install", "dropdem", "empty"}, NEW k \in Lbas, ~Has(files, l0[1], k),
         NEW F, F \subseteq Held, Range(job.rel) \cap F # {} => Range(job.rel) \subseteq F,
         NEW r \in Range(job.rel), Has(files, r, k), r \in F \/ Output \subseteq F
  PROVE  AnswersIn(files, F, k, ValIn(r, k))
<1>1. ASSUME NEW f \in F, Has(files, f, k) PROVE files[f].ents[k].val = ValIn(r, k)
  <2>1. CASE f \in Range(job.rel)
    <3>1. f = r
      BY <1>1, <2>1 DEF MergeOut, Disjoint, Has
    <3> QED BY <3>1 DEF ValIn
  <2>2. CASE f \notin Range(job.rel)
    <3>1. f \in Output
      BY <2>2 DEF Output
    <3> QED BY <1>1, <3>1 DEF MergeOut, ValIn
  <2> QED BY <2>1, <2>2
<1>2. ValIn(r, k) = 0 \/ \E f \in F : Has(files, f, k)
  BY DEF MergeOut
<1> QED BY <1>1, <1>2 DEF AnswersIn

LEMMA ShowsSome ==
  ASSUME Disk, MergeOut, NEW k \in Lbas
  PROVE  \E v : Shows(k, v)
<1>1. CASE l0 # <<>> /\ Has(files, l0[1], k)
  BY <1>1 DEF Shows, DiskAnswers
<1>2. CASE ~(l0 # <<>> /\ Has(files, l0[1], k))
  <2>1. SUFFICES \E v : AnswersIn(files, Range(l1) \ Merged, k, v)
    BY <1>2 DEF Shows, DiskAnswers
  <2>2. CASE job.pc \notin {"install", "empty"}
    BY <2>2, MergedIs, ApartAnswers
  <2>3. CASE job.pc \in {"install", "empty"}
    <3>1. Range(l1) \ Merged = Range(l1) /\ Range(l1) \subseteq Held
      BY <2>3, MergedIs DEF Held
    <3>2. l0 # <<>> /\ Range(job.rel) \subseteq Range(l1)
      BY <2>3 DEF Disk, JobOK
    <3>3. CASE \E r \in Range(job.rel) : Has(files, r, k)
      <4>1. PICK r \in Range(job.rel) : Has(files, r, k)
        BY <3>3
      <4>2. AnswersIn(files, Range(l1), k, ValIn(r, k))
        BY <1>2, <2>3, <3>1, <3>2, <4>1, InstallingAnswer
      <4> QED BY <3>1, <4>2
    <3>4. CASE ~\E r \in Range(job.rel) : Has(files, r, k)
      <4>1. AllApart(Output)
        BY DEF Disk, FilesOK, Output
      <4>2. AllApart(Range(l1) \ Range(job.rel))
        BY <4>1 DEF AllApart, Output, Held
      <4>3. PICK v : AnswersIn(files, Range(l1) \ Range(job.rel), k, v)
        BY <4>2, ApartAnswers
      <4>4. AnswersIn(files, Range(l1), k, v)
        BY <3>4, <4>3 DEF AnswersIn
      <4> QED BY <3>1, <4>4
    <3> QED BY <3>3, <3>4
  <2> QED BY <2>2, <2>3
<1> QED BY <1>1, <1>2

-----------------------------------------------------------------------------
(* No step of a compaction or of a restart changes what the levels answer. *)

LEMMA ShowsSame ==
  ASSUME NEW k \in Lbas, NEW v, Shows(k, v), l0' = l0, Range(l1') \ Merged' = Range(l1) \ Merged,
         l0 # <<>> => files'[l0[1]].ents = files[l0[1]].ents,
         \A f \in Range(l1) \ Merged : files'[f].ents = files[f].ents
  PROVE  Shows(k, v)'
<1>1. l0 # <<>> => (Has(files', l0[1], k) <=> Has(files, l0[1], k))
  BY DEF Has
<1>2. \A f \in Range(l1) \ Merged : Has(files', f, k) <=> Has(files, f, k)
  BY DEF Has
<1>3. DiskAnswers(files', l0', Range(l1') \ Merged', k, v)
  <2>1. DiskAnswers(files, l0, Range(l1) \ Merged, k, v)
    BY DEF Shows
  <2> QED BY <1>1, <1>2, <2>1 DEF DiskAnswers, AnswersIn
<1> QED BY <1>3 DEF Shows

LEMMA ShowsStays ==
  ASSUME NEW k \in Lbas, NEW v, Shows(k, v), UNCHANGED <<files, l0, l1, job>>
  PROVE  Shows(k, v)'
BY DEF Shows, Merged

LEMMA ShowsJob ==
  ASSUME Disk, NEW k \in Lbas, NEW v, Shows(k, v), WorkerStart \/ SkipMajor \/ LevelFull \/ CloseMemtable
  PROVE  Shows(k, v)'
<1>1. UNCHANGED <<files, l0, l1>>
  BY DEF WorkerStart, SkipMajor, LevelFull, CloseMemtable, disk
<1>2. job.pc \in {"idle", "major"} /\ job'.pc \in {"major", "minor", "level"}
  <2>1. job \in Jobs
    BY DEF Disk, DiskTypes
  <2> QED BY <2>1 DEF WorkerStart, SkipMajor, LevelFull, CloseMemtable, IdleJob, Jobs
<1>3. Merged = {} /\ Merged' = {}
  BY <1>2 DEF Merged
<1> QED BY <1>1, <1>3 DEF Shows

LEMMA ShowsMoveAdd ==
  ASSUME Disk, NEW k \in Lbas, NEW v, Shows(k, v), MoveAdd
  PROVE  Shows(k, v)'
<1> DEFINE d == l0[1]
           g == [level |-> 1, ver |-> version, ents |-> files[d].ents]
<1>1. /\ job.pc = "major" /\ Len(l0) > 0 /\ files' = [files EXCEPT ![d] = g]
      /\ l1' = AddFile(l1, d, MaxSize) /\ job' = [job EXCEPT !.pc = "move"] /\ l0' = l0
  BY DEF MoveAdd, Major
<1>2. l0 # <<>> /\ Range(l0) = {d} /\ d \in Taken /\ Held = Range(l1)
  BY <1>1, MajorFinds, EmptyRange
<1>3. /\ d \notin Range(l1) /\ d \in Fds /\ Range(l1) \subseteq Fds /\ files \in [Fds -> FileTypes]
      /\ job \in Jobs
  BY <1>1, <1>2, TakenIs DEF Disk, LevelsOK, DiskTypes
<1>4. Range(l1') = Range(l1) \cup {d}
  BY <1>1, <1>2, <1>3, AddToLevel1 DEF Joins
<1>5. \A f \in Fds : files'[f].ents = files[f].ents
  BY <1>1, <1>3
<1>6. Merged = {} /\ Merged' = {}
  <2>1. job'.pc = "move"
    BY <1>1, <1>3 DEF Jobs
  <2> QED BY <1>1, <2>1 DEF Merged
<1> HIDE DEF d, g
<1>7. \A f \in Fds : Has(files', f, k) <=> Has(files, f, k)
  BY <1>5 DEF Has
<1>8. CASE Has(files, d, k)
  <2>1. v = files[d].ents[k].val
    BY <1>2, <1>8 DEF Shows, DiskAnswers, d
  <2> QED BY <1>1, <1>2, <1>3, <1>5, <1>7, <1>8, <2>1 DEF Shows, DiskAnswers, d
<1>9. CASE ~Has(files, d, k)
  <2>1. AnswersIn(files, Range(l1), k, v)
    BY <1>2, <1>6, <1>9 DEF Shows, DiskAnswers, d
  <2>2. AnswersIn(files', Range(l1'), k, v)
    BY <1>3, <1>4, <1>5, <1>7, <1>9, <2>1 DEF AnswersIn
  <2> QED BY <1>1, <1>2, <1>3, <1>6, <1>7, <1>9, <2>2 DEF Shows, DiskAnswers, d
<1> QED BY <1>8, <1>9

LEMMA ShowsMoveRemove ==
  ASSUME Disk, NEW k \in Lbas, NEW v, Shows(k, v), MoveRemove
  PROVE  Shows(k, v)'
<1> DEFINE d == l0[1]
<1>1. job.pc = "move" /\ l0' = Tail(l0) /\ job' = [job EXCEPT !.pc = "minor"] /\ UNCHANGED <<files, l1>>
  BY DEF MoveRemove
<1>2. /\ l0 \in Seq(Fds) /\ Len(l0) <= 1 /\ l0 # <<>> /\ job \in Jobs
      /\ Range(l0) \cap Held = Range(l0) /\ job.adds = <<>>
  BY <1>1 DEF Disk, JobOK, LevelsOK, DiskTypes
<1>3. l0' = <<>> /\ Range(l0) = {d}
  BY <1>1, <1>2, OneFile
<1>4. d \in Range(l1)
  BY <1>2, <1>3, EmptyRange DEF Held
<1>5. Merged = {} /\ Merged' = {}
  <2>1. job'.pc = "minor"
    BY <1>1, <1>2 DEF Jobs
  <2> QED BY <1>1, <2>1 DEF Merged
<1>6. AllApart(Range(l1))
  BY <1>1, <1>5, MergedIs
<1> HIDE DEF d
<1>7. AnswersIn(files, Range(l1), k, v)
  <2>1. CASE Has(files, d, k)
    <3>1. v = files[d].ents[k].val
      BY <1>2, <2>1 DEF Shows, DiskAnswers, d
    <3>2. \A f \in Range(l1) : Has(files, f, k) => f = d
      BY <1>4, <1>6, <2>1, ApartUnique
    <3> QED BY <1>4, <2>1, <3>1, <3>2 DEF AnswersIn
  <2>2. CASE ~Has(files, d, k)
    BY <1>2, <1>5, <2>2 DEF Shows, DiskAnswers, d
  <2> QED BY <2>1, <2>2
<1> QED BY <1>1, <1>3, <1>5, <1>7 DEF Shows, DiskAnswers

LEMMA ShowsMergeFiles ==
  ASSUME Disk, NEW k \in Lbas, NEW v, Shows(k, v), MergeFiles
  PROVE  Shows(k, v)'
<1>1. job.pc = "major" /\ \E m, a, rel : Merges(m, a, rel)
  BY MergeFilesIs
<1>2. PICK m, a, rel : Merges(m, a, rel)
  BY <1>1
<1>3. \A f \in Taken : files'[f] = files[f]
  BY <1>2, MergeWrites
<1>4. l0' = l0 /\ l1' = l1 /\ job'.pc \in {"empty", "install"}
  BY <1>2 DEF Merges
<1>5. Merged = {} /\ Merged' = {}
  BY <1>1, <1>4 DEF Merged
<1>6. Range(l1) \subseteq Taken /\ Range(l0) \subseteq Taken /\ l0 \in Seq(Fds)
  BY DEF Disk, LevelsOK, Held, DiskTypes
<1>7. l0 # <<>> => l0[1] \in Taken
  <2>1. l0 # <<>> => l0[1] \in Range(l0)
    BY <1>6 DEF Range
  <2> QED BY <1>6, <2>1
<1> QED BY <1>3, <1>4, <1>5, <1>6, <1>7, ShowsSame

LEMMA InstallIs ==
  ASSUME Disk, Install
  PROVE  LET f == Head(job.adds)
         IN /\ job.pc = "install" /\ UNCHANGED <<files, l0>> /\ l0 # <<>>
            /\ Range(job.adds) = {f} \cup Range(job'.adds) /\ Range(l1') = Range(l1) \cup {f}
            /\ job'.rel = job.rel /\ Held' = Held /\ Output' = Output
            /\ job'.pc \in {"install", "dropdem"}
            /\ job'.pc = "dropdem" => Range(job'.adds) = {}
<1> DEFINE f == Head(job.adds)
<1>1. /\ job.pc = "install" /\ l1' = AddFile(l1, f, MaxSize) /\ UNCHANGED <<files, l0, cur, version>>
      /\ job' = [job EXCEPT !.adds = Tail(@), !.pc = IF Len(job.adds) = 1 THEN "dropdem" ELSE @]
  BY DEF Install
<1>2. job \in Jobs /\ job.adds \in Seq(Fds) /\ job.adds # <<>> /\ Distinct(job.adds) /\ l0 # <<>>
  BY <1>1 DEF Disk, DiskTypes, JobOK, Jobs
<1>3. /\ Range(job.adds) = {f} \cup Range(Tail(job.adds))
      /\ (Tail(job.adds) = <<>> <=> Len(job.adds) = 1)
  BY <1>2, SeqSplit
<1> HIDE DEF f
<1>4. /\ job'.adds = Tail(job.adds) /\ job'.rel = job.rel
      /\ job'.pc = IF Len(job.adds) = 1 THEN "dropdem" ELSE "install"
  BY <1>1, <1>2 DEF Jobs, Pcs
<1>5. f \in Taken \ Range(l1)
  BY <1>3 DEF Disk, LevelsOK, Held, JobOK
<1>6. Range(l1') = Range(l1) \cup {f}
  BY <1>1, <1>5, AddToLevel1 DEF Joins
<1>7. Held' = Held /\ Output' = Output
  BY <1>3, <1>4, <1>6 DEF Held, Output
<1>8. job'.pc = "dropdem" => Range(job'.adds) = {}
  BY <1>3, <1>4, EmptyRange
<1> QED BY <1>1, <1>2, <1>3, <1>4, <1>6, <1>7, <1>8 DEF f

LEMMA ShowsInstall ==
  ASSUME Disk, MergeOut, NEW k \in Lbas, NEW v, Shows(k, v), Install
  PROVE  Shows(k, v)'
<1> DEFINE f == Head(job.adds)
           F == Range(l1') \ Merged'
<1>1. /\ job.pc = "install" /\ UNCHANGED <<files, l0>> /\ l0 # <<>>
      /\ Range(job.adds) = {f} \cup Range(job'.adds) /\ Range(l1') = Range(l1) \cup {f}
      /\ job'.rel = job.rel /\ Held' = Held /\ Output' = Output
      /\ job'.pc \in {"install", "dropdem"}
      /\ job'.pc = "dropdem" => Range(job'.adds) = {}
  BY InstallIs
<1> HIDE DEF f
<1>2. Merged = {} /\ (Merged' = {} \/ (job'.pc = "dropdem" /\ Merged' = Range(job.rel)))
  BY <1>1 DEF Merged
<1>3. CASE Has(files, l0[1], k)
  BY <1>1, <1>3 DEF Shows, DiskAnswers
<1>4. CASE ~Has(files, l0[1], k)
  <2>1. AnswersIn(files, Range(l1), k, v)
    BY <1>1, <1>2, <1>4 DEF Shows, DiskAnswers
  <2>2. Range(job.rel) \subseteq Range(l1) /\ Range(l1) \subseteq Held
    BY DEF Disk, JobOK, Held
  <2>3. F \subseteq Held /\ (Output \subseteq F \/ Range(job.rel) \subseteq F)
        /\ (Range(job.rel) \cap F # {} => Range(job.rel) \subseteq F)
    <3>1. Range(l1') \subseteq Held
      BY <1>1 DEF Held
    <3>2. CASE Merged' = {}
      BY <1>1, <2>2, <3>1, <3>2
    <3>3. CASE job'.pc = "dropdem" /\ Merged' = Range(job.rel)
      <4>1. Held = Range(l1')
        BY <1>1, <3>3 DEF Held
      <4> QED BY <3>3, <4>1 DEF Output
    <3> QED BY <1>2, <3>2, <3>3
  <2>4. AnswersIn(files, F, k, v)
    <3>1. CASE \E r \in Range(job.rel) : Has(files, r, k)
      <4>1. PICK r \in Range(job.rel) : Has(files, r, k)
        BY <3>1
      <4>2. v = ValIn(r, k)
        BY <2>1, <2>2, <4>1 DEF AnswersIn, ValIn
      <4> HIDE DEF F
      <4>3. AnswersIn(files, F, k, ValIn(r, k))
        BY <1>1, <1>4, <2>3, <4>1, InstallingAnswer
      <4> QED BY <4>2, <4>3
    <3>2. CASE ~\E r \in Range(job.rel) : Has(files, r, k)
      <4>1. ~Has(files, f, k)
        BY <1>1, <1>4, <3>2 DEF MergeOut
      <4> QED BY <1>1, <1>2, <2>1, <3>2, <4>1 DEF AnswersIn
    <3> QED BY <3>1, <3>2
  <2> QED BY <1>1, <1>4, <2>4 DEF Shows, DiskAnswers
<1> QED BY <1>3, <1>4

LEMMA ShowsDropDemoted ==
  ASSUME Disk, MergeOut, NEW k \in Lbas, NEW v, Shows(k, v), DropDemoted
  PROVE  Shows(k, v)'
<1> DEFINE d == l0[1]
           F == Range(l1) \ Merged
<1>1. /\ job.pc = "dropdem" /\ l0' = RemoveFile(l0, job.dem[1]) /\ files' = [files EXCEPT ![job.dem[1]] = NoFile]
      /\ job' = [job EXCEPT !.dem = <<>>, !.pc = "droprel"] /\ l1' = l1
  BY DEF DropDemoted
<1>2. /\ l0 \in Seq(Fds) /\ Len(l0) <= 1 /\ l0 # <<>> /\ job.dem = l0 /\ job \in Jobs
      /\ Range(l0) \cap Held = {} /\ files \in [Fds -> FileTypes]
  BY <1>1 DEF Disk, JobOK, LevelsOK, DiskTypes
<1>3. Range(l0) = {d} /\ Len(l0) = 1 /\ d \in Fds
  BY <1>2, OneFile
<1>4. l0' = <<>>
  <2>1. d \in Range(l0) /\ Distinct(l0)
    BY <1>2, <1>3 DEF Distinct
  <2>2. l0' \in Seq(Fds) /\ Len(l0') = Len(l0) - 1
    BY <1>1, <1>2, <2>1, RemoveFileIs
  <2> QED BY <1>3, <2>2
<1>5. F = Output /\ Range(l1') \ Merged' = F /\ d \notin F /\ F \subseteq Fds
  <2>1. Merged = Range(job.rel) /\ Merged' = Range(job.rel)
    <3>1. job'.pc = "droprel" /\ job'.rel = job.rel
      BY <1>1, <1>2 DEF Jobs
    <3> QED BY <1>1, <3>1 DEF Merged
  <2>2. F = Output
    BY <1>1, MergedIs
  <2>3. Range(l1) \subseteq Held
    BY DEF Held
  <2> QED BY <1>1, <1>2, <1>3, <2>1, <2>2, <2>3, DiskBounds
<1>6. \A f \in F : files'[f] = files[f] /\ (Has(files', f, k) <=> Has(files, f, k))
  BY <1>1, <1>2, <1>5 DEF Has
<1>7. AnswersIn(files, F, k, v)
  <2>1. CASE Has(files, d, k)
    <3>1. v = ValIn(d, k)
      BY <1>2, <2>1 DEF Shows, DiskAnswers, ValIn
    <3>2. \A f \in F : Has(files, f, k) => ValIn(f, k) = v
      BY <1>1, <1>5, <2>1, <3>1 DEF MergeOut
    <3>3. v = 0 \/ \E f \in F : Has(files, f, k)
      BY <1>1, <1>5, <2>1, <3>1 DEF MergeOut
    <3> QED BY <3>2, <3>3 DEF AnswersIn, ValIn
  <2>2. CASE ~Has(files, d, k)
    BY <1>2, <2>2 DEF Shows, DiskAnswers
  <2> QED BY <2>1, <2>2
<1>8. AnswersIn(files', F, k, v)
  <2> HIDE DEF F
  <2> QED BY <1>6, <1>7 DEF AnswersIn
<1> QED BY <1>4, <1>5, <1>8 DEF Shows, DiskAnswers

LEMMA ShowsDropRelative ==
  ASSUME Disk, NEW k \in Lbas, NEW v, Shows(k, v), DropRelative
  PROVE  Shows(k, v)'
<1> DEFINE r == job.rel[1]
<1>1. /\ job.pc = "droprel" /\ l1' = RemoveFile(l1, r) /\ files' = [files EXCEPT ![r] = NoFile]
      /\ job' = [job EXCEPT !.rel = Tail(@), !.pc = IF Len(job.rel) = 1 THEN "minor" ELSE @] /\ l0' = l0
  BY DEF DropRelative
<1>2. /\ job \in Jobs /\ job.rel \in Seq(Fds) /\ job.rel # <<>> /\ Distinct(job.rel)
      /\ l0 = <<>> /\ l1 \in Seq(Fds) /\ Distinct(l1) /\ files \in [Fds -> FileTypes]
  BY <1>1 DEF Disk, DiskTypes, JobOK, Merging, Jobs, LevelsOK
<1>3. /\ r \in Fds /\ Range(job.rel) = {r} \cup Range(Tail(job.rel)) /\ r \notin Range(Tail(job.rel))
      /\ (Tail(job.rel) = <<>> <=> Len(job.rel) = 1)
  BY <1>2, SeqSplit
<1> HIDE DEF r
<1>4. job'.rel = Tail(job.rel) /\ job'.pc = IF Len(job.rel) = 1 THEN "minor" ELSE "droprel"
  BY <1>1, <1>2 DEF Jobs, Pcs
<1>5. r \in Range(l1)
  BY <1>3 DEF Disk, JobOK
<1>6. Range(l1') = Range(l1) \ {r}
  BY <1>1, <1>2, <1>5, RemoveFileIs
<1>7. Merged = Range(job.rel) /\ Merged' = Range(Tail(job.rel))
  BY <1>1, <1>3, <1>4, EmptyRange DEF Merged
<1>8. Range(l1') \ Merged' = Range(l1) \ Merged
  BY <1>3, <1>6, <1>7
<1>9. Range(l1) \subseteq Fds
  BY <1>2, RangeIs
<1>10. \A f \in Range(l1) \ Merged : files'[f].ents = files[f].ents
  BY <1>1, <1>2, <1>3, <1>7, <1>9
<1> QED BY <1>1, <1>2, <1>8, <1>10, ShowsSame

LEMMA OpenIs ==
  ASSUME MemOK, Disk, Open
  PROVE  /\ l0' = l0 /\ Range(l1') = Range(l1) /\ UNCHANGED <<files, job, mem, imm, wq, n, rit>>
         /\ job.pc = "idle" /\ job.rel = <<>> /\ job.adds = <<>>
<1>1. job.pc = "idle" /\ UNCHANGED <<files, job, mem, imm, wq, n, rit>>
  <2>1. up = "closed" /\ UNCHANGED <<files, job, wq, rit>> /\ UNCHANGED index
    BY DEF Open
  <2>2. UNCHANGED <<mem, imm, n>>
    BY <2>1 DEF index
  <2> QED BY <2>1, <2>2 DEF MemOK
<1>2. job.rel = <<>> /\ job.adds = <<>> /\ l0 \in Seq(Fds) /\ l1 \in Seq(Fds) /\ Len(l0) <= 1
  BY <1>1 DEF Disk, JobOK, Merging, DiskTypes, LevelsOK
<1>3. Disk'
  BY OpenDisk
<1>4. l0' \in Seq(Fds) /\ Len(l0') <= 1
  BY <1>3 DEF Disk, DiskTypes, LevelsOK
<1>5. /\ Taken = Range(l0) \cup Range(l1) /\ Taken' = Range(l0') \cup Range(l1')
      /\ (\A f \in Range(l0) : files[f].level = 0) /\ (\A f \in Range(l1) : files[f].level = 1)
      /\ (\A f \in Range(l0') : files[f].level = 0) /\ (\A f \in Range(l1') : files[f].level = 1)
  BY <1>1, <1>2, <1>3, EmptyRange DEF Disk, LevelsOK, Held
<1>6. Taken' = Taken
  BY <1>1 DEF Taken
<1>7. Range(l0') = Range(l0) /\ Range(l1') = Range(l1)
  <2>1. \A f : f \in Range(l0) <=> f \in Taken /\ files[f].level = 0
    BY <1>5
  <2>2. \A f : f \in Range(l0') <=> f \in Taken /\ files[f].level = 0
    BY <1>5, <1>6
  <2>3. \A f : f \in Range(l1) <=> f \in Taken /\ files[f].level = 1
    BY <1>5
  <2>4. \A f : f \in Range(l1') <=> f \in Taken /\ files[f].level = 1
    BY <1>5, <1>6
  <2> QED BY <2>1, <2>2, <2>3, <2>4
<1>8. l0' = l0
  <2>1. CASE l0 = <<>>
    <3>1. l0' = <<>>
      <4> SUFFICES ASSUME l0' # <<>> PROVE FALSE
        OBVIOUS
      <4>1. Range(l0') = {l0'[1]}
        BY <1>4, OneFile
      <4> QED BY <1>7, <2>1, <4>1, EmptyRange
    <3> QED BY <2>1, <3>1
  <2>2. CASE l0 # <<>>
    <3>1. Len(l0) = 1 /\ Range(l0) = {l0[1]}
      BY <1>2, <2>2, OneFile
    <3>2. l0' # <<>>
      BY <1>7, <3>1, EmptyRange
    <3>3. Len(l0') = 1 /\ Range(l0') = {l0'[1]}
      BY <1>4, <3>2, OneFile
    <3>4. l0'[1] = l0[1]
      BY <1>7, <3>1, <3>3
    <3> QED BY <1>2, <1>4, <3>1, <3>3, <3>4
  <2> QED BY <2>1, <2>2
<1> QED BY <1>1, <1>2, <1>7, <1>8

LEMMA ShowsOpen ==
  ASSUME MemOK, Disk, NEW k \in Lbas, NEW v, Shows(k, v), Open
  PROVE  Shows(k, v)'
<1>1. l0' = l0 /\ Range(l1') = Range(l1) /\ UNCHANGED <<files, job>>
  BY OpenIs
<1>2. Merged' = Merged
  BY <1>1 DEF Merged
<1> QED BY <1>1, <1>2, ShowsSame

-----------------------------------------------------------------------------
(* The merge's output is related to its input from the merge on until the  *)
(* demoted file is dropped.                                                *)

LEMMA MergeOutWritten ==
  ASSUME Disk, MergeFiles
  PROVE  MergeOut'
<1>1. job.pc = "major" /\ Len(l0) > 0 /\ \E m, a, rel : Merges(m, a, rel)
  BY MergeFilesIs
<1>2. PICK m, a, rel : Merges(m, a, rel)
  BY <1>1
<1> DEFINE d == l0[1]
           N == NrFull(m) + 1
<1>3. /\ rel = Relatives(l1, l0) /\ MergedTo(m, l0, rel) /\ Yields(m)
      /\ job'.rel = rel /\ job'.adds = a.fds /\ l0' = l0 /\ l1' = l1
  BY <1>2 DEF Merges
<1>4. /\ Range(l0) = {d} /\ d \in Taken /\ job.rel = <<>> /\ job.adds = <<>> /\ Held = Range(l1)
      /\ Sectioned(rel, l1, d, Taken)
  BY <1>1, <1>3, MajorFinds
<1>5. AllApart(Range(l1))
  BY <1>1, MergedIs
<1>6. /\ Range(a.fds) \cap Taken = {}
      /\ \A f \in Range(a.fds) : \E i \in 1 .. N : f = a.fds[i]
      /\ \A f \in Taken : files'[f] = files[f]
      /\ a.fds \in Seq(Fds) /\ Len(a.fds) = N
  <2>1. Range(a.fds) \cap Taken = {} /\ a.fds \in Seq(Fds) /\ Len(a.fds) = NrFull(m) + 1
    BY <1>2, MergeWrites
  <2>2. \A f \in Range(a.fds) : \E i \in 1 .. NrFull(m) + 1 : f = a.fds[i]
    BY <1>2, MergeWrites
  <2>3. \A f \in Taken : files'[f] = files[f]
    BY <1>2, MergeWrites
  <2> QED BY <2>1, <2>2, <2>3
<1>7. \A i \in 1 .. N : files'[a.fds[i]].ents = Outputs(m)[i] /\ KeysIn(files'[a.fds[i]].ents) = To(m, i)
  BY <1>2, MergeWrites
<1>8. \A i \in 1 .. N : \A k \in Lbas : Has(files', a.fds[i], k) =>
        k \in DOMAIN m /\ files'[a.fds[i]].ents[k].val = m[k].add
  <2> SUFFICES ASSUME NEW i \in 1 .. N, NEW k \in Lbas, Has(files', a.fds[i], k)
               PROVE  k \in DOMAIN m /\ files'[a.fds[i]].ents[k].val = m[k].add
    OBVIOUS
  <2>1. k \in To(m, i)
    BY <1>7 DEF Has
  <2>2. k \in DOMAIN m
    BY <2>1 DEF To, Added
  <2>3. Outputs(m)[i][k] = [val |-> m[k].add, neg |-> FALSE]
    BY <1>3, <2>1, OutputsIs
  <2> QED BY <1>7, <2>2, <2>3
<1>9. \A k \in DOMAIN m : m[k].add # 0 => \E f \in Range(a.fds) : Has(files', f, k)
  <2> SUFFICES ASSUME NEW k \in DOMAIN m, m[k].add # 0 PROVE \E f \in Range(a.fds) : Has(files', f, k)
    OBVIOUS
  <2> DEFINE i == Builder(m, k)
  <2>1. i \in 1 .. N
    BY <1>3, BuilderIs
  <2>2. k \in To(m, i)
    BY DEF To, Added
  <2> HIDE DEF i
  <2>3. a.fds[i] \in Range(a.fds)
    BY <1>6, <2>1, RangeIs
  <2> QED BY <1>7, <2>1, <2>2, <2>3 DEF Has
<1>10. /\ Range(rel) \subseteq Range(l1) /\ Range(l1) \subseteq Taken /\ Disjoint(rel)
       /\ \A f \in Range(l1) \ Range(rel) : Beside(f, rel, d)
  BY <1>4 DEF Sectioned, Disk, LevelsOK, Held
<1>11. Output' = (Range(l1) \ Range(rel)) \cup Range(a.fds)
  BY <1>3, <1>6, <1>10 DEF Output, Held
<1>12. \A k \in Lbas : Has(files', d, k) => m[k].add = ValIn(d, k) /\ k \in DOMAIN m /\ ValIn(d, k)' = ValIn(d, k)
  BY <1>3, <1>4, <1>6 DEF MergedTo, Has, ValIn, KeysOf
<1>13. \A r \in Range(rel) : \A k \in Lbas : Has(files', r, k) /\ ~Has(files', d, k) =>
         m[k].add = ValIn(r, k) /\ k \in DOMAIN m /\ ValIn(r, k)' = ValIn(r, k)
  BY <1>3, <1>4, <1>6, <1>10 DEF MergedTo, Has, ValIn, KeysOf
<1> HIDE DEF d, N
<1>14. ASSUME NEW f \in Output', NEW k \in Lbas, Has(files', f, k)
       PROVE  /\ Has(files', d, k) => ValIn(f, k)' = ValIn(d, k)'
              /\ \A r \in Range(rel) : Has(files', r, k) /\ ~Has(files', d, k) => ValIn(f, k)' = ValIn(r, k)'
  <2>1. CASE f \in Range(a.fds)
    <3>1. PICK i \in 1 .. N : f = a.fds[i]
      BY <1>6, <2>1
    <3>2. k \in DOMAIN m /\ ValIn(f, k)' = m[k].add
      BY <1>8, <1>14, <3>1 DEF ValIn
    <3> QED BY <1>12, <1>13, <3>2
  <2>2. CASE f \in Range(l1) \ Range(rel)
    <3>1. files'[f] = files[f] /\ Has(files, f, k)
      BY <1>6, <1>10, <1>14, <2>2 DEF Has
    <3>2. ~Has(files', d, k)
      <4>1. Left(f, d) \/ Left(d, f)
        BY <1>10, <2>2 DEF Beside
      <4>2. k \in Nat
        BY LsmAssumption DEF Lbas
      <4>3. ~(k < k)
        BY <4>2
      <4>4. Has(files', d, k) => Has(files, d, k)
        BY <1>4, <1>6 DEF Has
      <4> QED BY <3>1, <4>1, <4>3, <4>4 DEF Left, Has
    <3>3. ASSUME NEW r \in Range(rel), Has(files', r, k) PROVE FALSE
      <4>1. Has(files, r, k)
        BY <1>6, <1>10, <3>3 DEF Has
      <4>2. f = r
        BY <1>5, <1>10, <2>2, <3>1, <4>1, ApartUnique
      <4> QED BY <2>2, <4>2
    <3> QED BY <3>2, <3>3
  <2> QED BY <1>11, <2>1, <2>2
<1>15. \A k \in Lbas : Has(files', d, k) /\ ValIn(d, k)' # 0 => \E f \in Output' : Has(files', f, k)
  BY <1>9, <1>11, <1>12
<1>16. \A r \in Range(rel) : \A k \in Lbas :
         Has(files', r, k) /\ ~Has(files', d, k) /\ ValIn(r, k)' # 0 => \E f \in Output' : Has(files', f, k)
  BY <1>9, <1>11, <1>13
<1>17. \A f, g \in Range(rel) : KeysIn(files'[f].ents) \cap KeysIn(files'[g].ents) # {} => f = g
  BY <1>6, <1>10 DEF Disjoint
<1>18. ASSUME NEW f \in Range(a.fds), NEW k \in Lbas, Has(files', f, k)
       PROVE  Has(files', d, k) \/ \E r \in Range(rel) : Has(files', r, k)
  <2>1. k \in DOMAIN m
    BY <1>6, <1>8, <1>18
  <2>2. k \in KeysOf(l0) \cup KeysOf(rel)
    BY <1>3, <2>1 DEF MergedTo
  <2>3. CASE k \in KeysOf(l0)
    BY <1>4, <1>6, <2>3, InFileOf DEF Has
  <2>4. CASE k \in KeysOf(rel)
    BY <1>6, <1>10, <2>4, InFileOf DEF Has
  <2> QED BY <2>2, <2>3, <2>4
<1>19. d = l0'[1] /\ d' = d /\ Range(rel) = Range(job'.rel) /\ Range(a.fds) = Range(job'.adds)
  BY <1>3 DEF d
<1>20. /\ \A f \in Output' : \A k \in Lbas :
            Has(files', f, k) /\ Has(files', d, k) => ValIn(f, k)' = ValIn(d, k)'
       /\ \A f \in Output' : \A r \in Range(rel) : \A k \in Lbas :
            Has(files', f, k) /\ Has(files', r, k) /\ ~Has(files', d, k) => ValIn(f, k)' = ValIn(r, k)'
  BY <1>14
<1>21. \A f \in Range(a.fds) : \A k \in Lbas :
         Has(files', f, k) => Has(files', d, k) \/ \E r \in Range(rel) : Has(files', r, k)
  BY <1>18
<1>22. Disjoint(job.rel)'
  BY <1>17, <1>19 DEF Disjoint
<1> QED BY <1>15, <1>16, <1>19, <1>20, <1>21, <1>22 DEF MergeOut, ValIn

LEMMA MergeOutInstall ==
  ASSUME Disk, MergeOut, Install
  PROVE  MergeOut'
<1> DEFINE d == l0[1]
<1>1. /\ job.pc = "install" /\ UNCHANGED <<files, l0>>
      /\ Range(job'.adds) \subseteq Range(job.adds)
      /\ job'.rel = job.rel /\ Output' = Output
  BY InstallIs
<1>2. \A f, k : ValIn(f, k)' = ValIn(f, k)
  BY <1>1 DEF ValIn
<1>3. Disjoint(job.rel)' <=> Disjoint(job.rel)
  BY <1>1 DEF Disjoint
<1> QED BY <1>1, <1>2, <1>3 DEF MergeOut

Quiet == UNCHANGED <<files, l0, l1, job>>

LEMMA QuietSteps ==
  ASSUME \/ \E k \in Lbas : Put(k) \/ PutNegative(k)
         \/ Rotate \/ Searching \/ Close \/ CloseEnd \/ UNCHANGED vars
  PROVE  Quiet
<1>1. UNCHANGED disk /\ UNCHANGED job
  BY DEF Rotate, Close, CloseEnd, vars, Put, PutNegative, Searching, SearchMem, SearchImm, SearchCopy,
         SearchLevel0, SearchLevel1, RangeMem, RangeImm, RangeLevel0, RangeLevel1, Search
<1> QED BY <1>1 DEF disk, Quiet

LEMMA MergeOutQuiet ==
  ASSUME MergeOut, Quiet
  PROVE  MergeOut'
<1>1. UNCHANGED <<files, l0, job>> /\ Output' = Output
  BY DEF Quiet, Output, Held
<1>2. \A f, k : ValIn(f, k)' = ValIn(f, k)
  BY <1>1 DEF ValIn
<1>3. Disjoint(job.rel)' <=> Disjoint(job.rel)
  BY <1>1 DEF Disjoint
<1> QED BY <1>1, <1>2, <1>3 DEF MergeOut

LEMMA MergeOutNext ==
  ASSUME MemOK, Disk, MergeOut, [Next]_vars
  PROVE  MergeOut'
<1>1. CASE \/ \E k \in Lbas : Put(k) \/ PutNegative(k)
           \/ Rotate \/ Searching \/ Close \/ CloseEnd \/ UNCHANGED vars
  BY <1>1, QuietSteps, MergeOutQuiet
<1>2. CASE MergeFiles
  BY <1>2, MergeOutWritten
<1>3. CASE Install
  BY <1>3, MergeOutInstall
<1>4. CASE Open
  <2>1. job'.pc = "idle"
    BY <1>4, OpenIs
  <2> QED BY <2>1 DEF MergeOut
<1>5. CASE WorkerStart \/ SkipMajor \/ LevelFull \/ MoveAdd \/ MoveRemove \/ DropDemoted \/ DropRelative \/ CloseMemtable
  <2>1. job \in Jobs
    BY DEF Disk, DiskTypes
  <2>2. job'.pc \in {"major", "minor", "level", "move", "droprel"}
    BY <1>5, <2>1 DEF WorkerStart, SkipMajor, LevelFull, MoveAdd, MoveRemove, DropDemoted, DropRelative,
                      CloseMemtable, IdleJob, Jobs
  <2> QED BY <2>2 DEF MergeOut
<1>6. CASE Minor
  <2>1. job'.pc = "idle"
    BY <1>6, MinorDisk
  <2> QED BY <2>1 DEF MergeOut
<1> QED BY <1>1, <1>2, <1>3, <1>4, <1>5, <1>6 DEF Next, Compaction

-----------------------------------------------------------------------------
(* What a minor compaction does. *)
Writes(f, es) ==
  /\ f \in Fds \ Taken /\ files'[f].ents = es /\ \A g \in Fds \ {f} : files'[g] = files[g]
  /\ l0 = <<>> /\ l0' # <<>> /\ l0'[1] = f /\ l1' = l1
  /\ job'.pc = "idle" /\ job.pc = "minor" /\ Range(l1) \subseteq Taken /\ Taken \subseteq Fds
  /\ Taken' = Taken \cup {f} /\ Held = Range(l1) /\ Held' = Held

LEMMA MinorIs ==
  ASSUME MemOK, Disk, Minor
  PROVE  /\ \E f : Writes(f, IF imm = NoTable THEN mem.ents ELSE imm.ents)
         /\ mem' = IF imm = NoTable THEN EmptyTable ELSE mem
         /\ UNCHANGED <<imm, wq, n, rit, negated>>
<1> DEFINE src == IF imm = NoTable THEN mem ELSE imm
           a == AllocFds(1)
           f == a.fds[1]
           g == [level |-> 0, ver |-> version, ents |-> src.ents]
<1>1. job.pc = "minor" /\ Disk' /\ job'.pc = "idle"
  BY MinorDisk DEF Minor
<1>2. FdsLeft(1)
  <2> SUFFICES ASSUME ~FdsLeft(1) PROVE FALSE
    OBVIOUS
  <2>1. job' = [job EXCEPT !.pc = "fd"] /\ job \in Jobs
    BY DEF Minor, Disk, DiskTypes
  <2>2. job'.pc = "fd"
    BY <2>1 DEF Jobs
  <2> QED BY <1>1, <2>2
<1>3. /\ files' = [files EXCEPT ![f] = g] /\ l0' = AddFile(l0, f, 3) /\ job' = IdleJob /\ l1' = l1
      /\ mem' = IF imm = NoTable THEN EmptyTable ELSE mem
      /\ UNCHANGED <<imm, wq, n, rit, negated>>
  BY <1>2 DEF Minor, Compact
<1>4. f \in Fds /\ f \notin Taken
  <2>1. cur \in 0 .. NrFd
    BY DEF Disk, DiskTypes
  <2>2. Allocated(a, 1)
    BY <1>2, <2>1, AllocFdsResult
  <2> HIDE DEF a
  <2>3. a.fds \in Seq(Fds) /\ Len(a.fds) = 1 /\ Range(a.fds) \cap Taken = {}
    BY <2>2 DEF Allocated, AllocStates
  <2>4. a.fds # <<>> /\ Len(a.fds) <= 1
    <3>1. Len(a.fds) = 1 /\ 1 <= 1 /\ 1 # 0
      BY <2>3
    <3> QED BY <3>1, EmptyRange
  <2>5. Range(a.fds) = {f} /\ f \in Fds
    BY <2>3, <2>4, OneFile
  <2> QED BY <2>3, <2>5
<1> HIDE DEF f, a
<1>5. /\ l0 = <<>> /\ Held = Range(l1) /\ Taken = Held /\ files \in [Fds -> FileTypes]
  BY <1>1, EmptyRange DEF Disk, JobOK, Merging, LevelsOK, Held, DiskTypes
<1>6. l0' \in Seq({f}) /\ Len(l0') = 1 /\ l0' # <<>>
  BY <1>3, <1>5, AddFirst
<1>7. l0'[1] = f
  BY <1>6
<1>8. files'[f].ents = src.ents /\ \A h \in Fds \ {f} : files'[h] = files[h]
  <2>1. g.ents = src.ents
    OBVIOUS
  <2> HIDE DEF g
  <2> QED BY <1>3, <1>4, <1>5, <2>1
<1>9. Held' = Held /\ Taken' = Taken \cup {f}
  <2>1. Held' = Range(l1')
    BY <1>1, EmptyRange DEF Disk, JobOK, Held
  <2>2. Taken' = Range(l0') \cup Held' /\ Range(l0') = {f}
    BY <1>1, <1>6, <1>7, OneFile DEF Disk, LevelsOK, DiskTypes
  <2> QED BY <1>3, <1>5, <2>1, <2>2
<1>10. Writes(f, src.ents)
  BY <1>1, <1>3, <1>4, <1>5, <1>6, <1>7, <1>8, <1>9, TakenIs DEF Writes
<1> QED BY <1>3, <1>10

LEMMA BackedNext ==
  ASSUME Inv, Backed, [Next]_vars
  PROVE  Backed'
<1>1. MemOK /\ Disk /\ job \in Jobs /\ wq \in Nat
  BY DEF Inv, MemOK, Disk, DiskTypes
<1>2. CASE \/ \E k \in Lbas : Put(k) \/ PutNegative(k)
           \/ Searching \/ Close \/ UNCHANGED vars
  <2>1. Quiet
    BY <1>2, QuietSteps
  <2>2. UNCHANGED <<imm, wq>>
    BY <1>2 DEF Put, PutNegative, Close, vars, index, Searching, SearchMem, SearchImm, SearchCopy,
                SearchLevel0, SearchLevel1, RangeMem, RangeImm, RangeLevel0, RangeLevel1, Search
  <2> QED BY <2>1, <2>2 DEF Backed, Quiet
<1>3. CASE Rotate
  <2>1. wq' = wq + 1
    BY <1>3 DEF Rotate
  <2>2. wq' # 0
    BY <1>1, <2>1
  <2> QED BY <2>2 DEF Backed
<1>4. CASE CloseEnd
  BY <1>4 DEF CloseEnd, Backed
<1>5. CASE Open
  <2>1. UNCHANGED <<l0, files, job, imm, wq>>
    BY <1>1, <1>5, OpenIs
  <2> QED BY <2>1 DEF Backed
<1>6. CASE WorkerStart \/ SkipMajor \/ LevelFull \/ MoveAdd \/ MoveRemove \/ DropDemoted \/ DropRelative \/ CloseMemtable
  <2>1. job'.pc # "idle"
    BY <1>1, <1>6 DEF WorkerStart, SkipMajor, LevelFull, MoveAdd, MoveRemove, DropDemoted, DropRelative,
                      CloseMemtable, IdleJob, Jobs
  <2> QED BY <2>1 DEF Backed
<1>7. CASE Install
  <2>1. job'.pc # "idle"
    BY <1>1, <1>7, InstallIs
  <2> QED BY <2>1 DEF Backed
<1>8. CASE MergeFiles
  <2>1. PICK m, a, rel : Merges(m, a, rel)
    BY <1>1, <1>8, MergeFilesIs
  <2>2. job'.pc # "idle"
    BY <2>1 DEF Merges
  <2> QED BY <2>2 DEF Backed
<1>9. CASE Minor
  <2>1. imm' = imm /\ \E f : Writes(f, IF imm = NoTable THEN mem.ents ELSE imm.ents)
    BY <1>1, <1>9, MinorIs
  <2>2. PICK f : Writes(f, IF imm = NoTable THEN mem.ents ELSE imm.ents)
    BY <2>1
  <2> QED BY <2>1, <2>2 DEF Backed, Writes
<1> QED BY <1>2, <1>3, <1>4, <1>5, <1>6, <1>7, <1>8, <1>9 DEF Next, Compaction

-----------------------------------------------------------------------------
(* Only a put and a negative put change the view. *)

SameView == \A k \in Lbas : View(k)' = View(k)

LEMMA DiskStepShows ==
  ASSUME MemOK, Disk, MergeOut, NEW k \in Lbas, NEW v, Shows(k, v),
         \/ WorkerStart \/ SkipMajor \/ LevelFull \/ MoveAdd \/ MoveRemove
         \/ MergeFiles \/ Install \/ DropDemoted \/ DropRelative
         \/ CloseMemtable \/ Open \/ Quiet
  PROVE  Shows(k, v)'
<1>1. CASE Quiet
  BY <1>1, ShowsStays DEF Quiet
<1> QED BY <1>1, ShowsJob, ShowsMoveAdd, ShowsMoveRemove, ShowsMergeFiles, ShowsInstall, ShowsDropDemoted,
           ShowsDropRelative, ShowsOpen

LEMMA ViewKept ==
  ASSUME Inv, Inv', MergeOut, UNCHANGED <<mem, imm>>,
         \/ WorkerStart \/ SkipMajor \/ LevelFull \/ MoveAdd \/ MoveRemove
         \/ MergeFiles \/ Install \/ DropDemoted \/ DropRelative \/ Open \/ Quiet
  PROVE  SameView
<1> SUFFICES ASSUME NEW k \in Lbas PROVE View(k)' = View(k)
  BY DEF SameView
<1>1. MemOK /\ Disk
  BY DEF Inv
<1>2. PICK v : Shows(k, v)
  BY <1>1, ShowsSome
<1>3. Shows(k, v)'
  BY <1>1, <1>2, DiskStepShows
<1>4. View(k) = Seen(k, v) /\ View(k)' = Seen(k, v)'
  BY <1>2, <1>3, ViewIs, ViewNext
<1> QED BY <1>4 DEF Seen

LEMMA BackedShows ==
  ASSUME Backed, wq = 0, job.pc = "idle", imm # NoTable, NEW k \in KeysIn(imm.ents), NEW v, Shows(k, v)
  PROVE  v = imm.ents[k].val
BY DEF Backed, Shows, DiskAnswers, Has

LEMMA ViewClose ==
  ASSUME Inv, Inv', MergeOut, Backed, CloseMemtable \/ CloseEnd
  PROVE  SameView
<1> SUFFICES ASSUME NEW k \in Lbas PROVE View(k)' = View(k)
  BY DEF SameView
<1>1. MemOK /\ Disk
  BY DEF Inv
<1>2. PICK v : Shows(k, v)
  BY <1>1, ShowsSome
<1>3. Shows(k, v)'
  <2>1. CASE CloseMemtable
    BY <1>1, <1>2, <2>1, DiskStepShows
  <2>2. CASE CloseEnd
    BY <1>1, <1>2, <2>2, DiskStepShows, QuietSteps
  <2> QED BY <2>1, <2>2
<1>4. View(k) = Seen(k, v) /\ View(k)' = Seen(k, v)'
  BY <1>2, <1>3, ViewIs, ViewNext
<1>5. wq = 0 /\ job.pc = "idle" /\ imm' = NoTable /\ mem' = mem
  BY DEF CloseMemtable, CloseEnd
<1>6. KeysIn(imm'.ents) = {} /\ KeysIn(NoTable.ents) = {}
  BY <1>5, NoTableIs, NoEntriesIs
<1>7. k \in KeysIn(imm.ents) => imm.ents[k].val = v
  BY <1>2, <1>5, <1>6, BackedShows
<1> QED BY <1>4, <1>5, <1>6, <1>7 DEF Seen

(* A rotation finds no work queued: the immutable memtable it destroys has *)
(* been read.                                                              *)
InTime == Rotate => wq = 0

LEMMA ViewRotate ==
  ASSUME Inv, Inv', MergeOut, Backed, Rotate, InTime
  PROVE  SameView
<1> SUFFICES ASSUME NEW k \in Lbas PROVE View(k)' = View(k)
  BY DEF SameView
<1>1. MemOK /\ Disk
  BY DEF Inv
<1>2. PICK v : Shows(k, v)
  BY <1>1, ShowsSome
<1>3. Shows(k, v)'
  BY <1>1, <1>2, DiskStepShows, QuietSteps
<1>4. View(k) = Seen(k, v) /\ View(k)' = Seen(k, v)'
  BY <1>2, <1>3, ViewIs, ViewNext
<1>5. wq = 0 /\ job.pc = "idle" /\ imm' = mem /\ mem' = EmptyTable
  BY DEF Rotate, ImUnlocked, InTime
<1>6. KeysIn(mem'.ents) = {} /\ KeysIn(NoTable.ents) = {}
  BY <1>5, NoTableIs, NoEntriesIs
<1>7. k \in KeysIn(imm.ents) => imm.ents[k].val = v
  BY <1>2, <1>5, <1>6, BackedShows
<1> QED BY <1>4, <1>5, <1>6, <1>7 DEF Seen

LEMMA ViewMinor ==
  ASSUME Inv, Inv', MergeOut, Minor
  PROVE  SameView
<1> SUFFICES ASSUME NEW k \in Lbas PROVE View(k)' = View(k)
  BY DEF SameView
<1>1. MemOK /\ Disk
  BY DEF Inv
<1> DEFINE es == IF imm = NoTable THEN mem.ents ELSE imm.ents
<1>2. /\ mem' = IF imm = NoTable THEN EmptyTable ELSE mem
      /\ imm' = imm
  BY <1>1, MinorIs
<1>3. PICK f : Writes(f, es)
  BY <1>1, MinorIs
<1>4. PICK v : Shows(k, v)
  BY <1>1, ShowsSome
<1>5. Merged = {} /\ Merged' = {}
  BY <1>3 DEF Writes, Merged
<1>6. AnswersIn(files, Range(l1), k, v)
  BY <1>3, <1>4, <1>5 DEF Shows, DiskAnswers, Writes
<1>7. \A g \in Range(l1) : files'[g] = files[g] /\ (Has(files', g, k) <=> Has(files, g, k))
  BY <1>3 DEF Writes, Has
<1>8. AnswersIn(files', Range(l1), k, v)
  BY <1>6, <1>7 DEF AnswersIn
<1>9. Has(files', f, k) <=> k \in KeysIn(es)
  BY <1>3 DEF Writes, Has
<1>14. PICK w : w = IF k \in KeysIn(es) THEN es[k].val ELSE v
  OBVIOUS
<1> HIDE DEF es
<1>10. Shows(k, w)'
  BY <1>3, <1>5, <1>8, <1>9, <1>14 DEF Shows, DiskAnswers, Writes
<1>11. View(k) = Seen(k, v)
  BY <1>4, ViewIs
<1>12. View(k)' = Seen(k, w)'
  BY <1>10, ViewNext
<1>13. KeysIn(EmptyTable.ents) = {} /\ KeysIn(NoTable.ents) = {}
  BY NoTableIs, NoEntriesIs
<1> QED BY <1>2, <1>11, <1>12, <1>13, <1>14 DEF Seen, es

(* A put makes its record the view of its lba, a negative put none. *)
Becomes(k, r) == View(k)' = r /\ \A x \in Lbas \ {k} : View(x)' = View(x)

LEMMA ViewPut ==
  ASSUME Inv, Inv', MergeOut, NEW k \in Lbas, Put(k) \/ PutNegative(k)
  PROVE  (Put(k) /\ Becomes(k, n + 1)) \/ (PutNegative(k) /\ Becomes(k, 0))
<1>1. MemOK /\ Disk /\ mem \in Tables /\ mem.size = NrRecord(mem.ents) /\ n \in Nat
  BY DEF Inv, MemOK, RecordsOK
<1>2. Quiet /\ imm' = imm
  <2>1. imm' = imm
    BY DEF Put, PutNegative
  <2> QED BY <2>1, QuietSteps
<1>3. PICK r, g : /\ mem'.ents = [mem.ents EXCEPT ![k] = [val |-> r, neg |-> g]]
                  /\ (Put(k) /\ r = n + 1) \/ (PutNegative(k) /\ r = 0 /\ g = TRUE)
  <2>1. CASE Put(k)
    <3>1. mem' = MemPut(k, n + 1) /\ n + 1 \in Nat \ {0}
      BY <1>1, <2>1 DEF Put
    <3>2. mem'.ents = [mem.ents EXCEPT ![k] = [val |-> n + 1, neg |-> mem.ents[k].neg]]
      BY <1>1, <3>1, MemPutIs
    <3> QED BY <2>1, <3>2
  <2>2. CASE PutNegative(k)
    <3>1. mem' = MemPutNegative(k)
      BY <2>2 DEF PutNegative
    <3>2. mem'.ents = [mem.ents EXCEPT ![k] = [val |-> 0, neg |-> TRUE]]
      BY <1>1, <3>1, MemPutNegativeIs
    <3> QED BY <2>2, <3>2
  <2> QED BY <2>1, <2>2
<1>4. mem.ents \in [Lbas -> Records]
  BY <1>1 DEF Tables, Entries
<1>5. mem'.ents[k] = [val |-> r, neg |-> g] /\ \A x \in Lbas \ {k} : mem'.ents[x] = mem.ents[x]
  BY <1>3, <1>4
<1>6. k \in KeysIn(mem'.ents)
  <2>1. r # 0 \/ g = TRUE
    BY <1>1, <1>3
  <2>2. mem'.ents[k].val = r /\ mem'.ents[k].neg = g
    BY <1>5
  <2>3. NoRecord.val = 0 /\ NoRecord.neg = FALSE
    BY DEF NoRecord
  <2>4. mem'.ents[k] # NoRecord
    BY <2>1, <2>2, <2>3
  <2> QED BY <2>4 DEF KeysIn
<1>7. \A x \in Lbas \ {k} : x \in KeysIn(mem'.ents) <=> x \in KeysIn(mem.ents)
  BY <1>5 DEF KeysIn
<1>8. ASSUME NEW x \in Lbas PROVE View(x)' = IF x = k THEN r ELSE View(x)
  <2>1. PICK v : Shows(x, v)
    BY <1>1, ShowsSome
  <2>2. Shows(x, v)'
    BY <1>1, <1>2, <2>1, DiskStepShows
  <2>3. View(x) = Seen(x, v) /\ View(x)' = Seen(x, v)'
    BY <2>1, <2>2, ViewIs, ViewNext
  <2>4. mem'.ents[k].val = r
    BY <1>5
  <2> QED BY <1>2, <1>5, <1>6, <1>7, <2>3, <2>4 DEF Seen
<1>9. Becomes(k, r)
  <2>1. r = r'
    OBVIOUS
  <2> QED BY <1>8 DEF Becomes
<1> QED BY <1>3, <1>9

(* Every step changes the view as the abstract index says. *)
LEMMA ViewStep ==
  ASSUME Inv, Inv', MergeOut, Backed, InTime, [Next]_vars
  PROVE  \/ SameView /\ n' = n
         \/ \E k \in Lbas : Put(k) /\ Becomes(k, n + 1)
         \/ \E k \in Lbas : PutNegative(k) /\ Becomes(k, 0)
<1>1. ASSUME NEW k \in Lbas, Put(k) \/ PutNegative(k)
      PROVE  \/ \E x \in Lbas : Put(x) /\ Becomes(x, n + 1)
             \/ \E x \in Lbas : PutNegative(x) /\ Becomes(x, 0)
  BY <1>1, ViewPut
<1>2. CASE Rotate
  BY <1>2, ViewRotate DEF Rotate
<1>3. CASE CloseMemtable \/ CloseEnd
  BY <1>3, ViewClose DEF CloseMemtable, CloseEnd
<1>4. CASE Minor
  BY <1>4, ViewMinor DEF Minor, Compact
<1>5. CASE \/ WorkerStart \/ SkipMajor \/ LevelFull \/ MoveAdd \/ MoveRemove
           \/ MergeFiles \/ Install \/ DropDemoted \/ DropRelative \/ Open
  <2>1. UNCHANGED <<mem, imm, n>>
    BY <1>5 DEF WorkerStart, SkipMajor, LevelFull, MoveAdd, MoveRemove, MergeFiles, Install, DropDemoted,
                DropRelative, Open, Compact, index
  <2> QED BY <1>5, <2>1, ViewKept
<1>6. CASE Searching \/ Close \/ UNCHANGED vars
  <2>1. UNCHANGED <<mem, imm, n>>
    BY <1>6 DEF Close, vars, index, Searching, SearchMem, SearchImm, SearchCopy,
                SearchLevel0, SearchLevel1, RangeMem, RangeImm, RangeLevel0, RangeLevel1, Search
  <2>2. Quiet
    BY <1>6, QuietSteps
  <2> QED BY <2>1, <2>2, ViewKept
<1> QED BY <1>1, <1>2, <1>3, <1>4, <1>5, <1>6 DEF Next, Compaction

-----------------------------------------------------------------------------
(* The refinement. *)

ViewInv == Inv /\ MergeOut /\ Backed

LEMMA ViewInvInit == Init => ViewInv
<1> SUFFICES ASSUME Init PROVE MergeOut /\ Backed
  BY InvInit DEF ViewInv
<1>1. job.pc = "idle" /\ imm = NoTable
  BY DEF Init, IdleJob
<1> QED BY <1>1 DEF MergeOut, Backed

LEMMA ViewInvNext == ViewInv /\ [Next]_vars => ViewInv'
<1> SUFFICES ASSUME ViewInv, [Next]_vars PROVE ViewInv'
  OBVIOUS
<1>1. Inv /\ MergeOut /\ Backed /\ MemOK /\ Disk
  BY DEF ViewInv, Inv
<1> QED BY <1>1, InvNext, MergeOutNext, BackedNext DEF ViewInv

(* MergeOut and Backed hold whatever the worker does: the merge keeps, per *)
(* key, the record of the demoted file, and the file of level 0 holds the  *)
(* immutable memtable once that is written.                                *)
THEOREM ViewInvariance == Spec => []ViewInv
<1>1. Init => ViewInv
  BY ViewInvInit
<1>2. ViewInv /\ [Next]_vars => ViewInv'
  BY ViewInvNext
<1> QED BY <1>1, <1>2, PTL DEF Spec

LEMMA InitialView == ASSUME Init, NEW k \in Lbas PROVE View(k) = 0
<1>1. mem = EmptyTable /\ imm = NoTable /\ l0 = <<>> /\ l1 = <<>>
  BY DEF Init
<1>2. Shows(k, 0)
  BY <1>1, EmptyRange DEF Shows, DiskAnswers, AnswersIn
<1>3. View(k) = Seen(k, 0)
  BY <1>2, InvInit, ViewIs
<1>4. KeysIn(mem.ents) = {} /\ KeysIn(imm.ents) = {}
  BY <1>1, NoTableIs, NoEntriesIs
<1> QED BY <1>3, <1>4 DEF Seen

-----------------------------------------------------------------------------
(* The order of the records: of one lba, those in a memtable are newer than*)
(* those on disk and those in level 0 newer than those in level 1.         *)

Above(x, y) == x # 0 => y < x

(* At most one compaction is queued or runs. *)
Queue == wq \in {0, 1} /\ (job.pc # "idle" => wq = 0)

(* The immutable memtable is not on disk yet. *)
Pending == wq # 0 \/ job.pc # "idle"

OrderAt(k) ==
  /\ mem.ents[k].val <= n /\ imm.ents[k].val <= n /\ \A f \in Taken : ValIn(f, k) <= n
  /\ Above(mem.ents[k].val, imm.ents[k].val)
  /\ \A f \in Taken : Above(mem.ents[k].val, ValIn(f, k))
  /\ \A f \in Held : Above(imm.ents[k].val, ValIn(f, k))
  /\ Pending => \A f \in Taken : Above(imm.ents[k].val, ValIn(f, k))
  /\ job.pc \in {"idle", "major", "level"} =>
       \A f \in Range(l0), g \in Range(l1) : Above(ValIn(f, k), ValIn(g, k))

Order == \A k \in Lbas : OrderAt(k)

LEMMA QueueNext ==
  ASSUME Inv, Queue, InTime, [Next]_vars
  PROVE  Queue'
<1>1. wq \in {0, 1} /\ (job.pc # "idle" => wq = 0) /\ job \in Jobs /\ MemOK /\ Disk
  BY DEF Queue, Inv, Disk, DiskTypes
<1>2. CASE Rotate
  <2>1. wq = 0 /\ job.pc = "idle" /\ wq' = wq + 1 /\ job' = job
    BY <1>2 DEF Rotate, ImUnlocked, InTime
  <2> QED BY <2>1 DEF Queue
<1>3. CASE WorkerStart
  <2>1. wq > 0 /\ wq' = wq - 1
    BY <1>3 DEF WorkerStart
  <2>2. wq' = 0
    BY <1>1, <2>1
  <2> QED BY <2>2 DEF Queue
<1>4. CASE CloseMemtable
  BY <1>4 DEF CloseMemtable, Queue
<1>5. CASE Open
  BY <1>1, <1>5, OpenIs DEF Queue
<1>6. CASE Minor
  <2>1. wq' = wq /\ job'.pc = "idle"
    BY <1>1, <1>6, MinorDisk, MinorIs
  <2> QED BY <1>1, <2>1 DEF Queue
<1>7. CASE SkipMajor \/ LevelFull \/ MoveAdd \/ MoveRemove \/ MergeFiles \/ Install \/ DropDemoted \/ DropRelative
  <2>1. wq' = wq
    BY <1>7 DEF SkipMajor, LevelFull, MoveAdd, MoveRemove, MergeFiles, Install, DropDemoted, DropRelative, Compact
  <2>2. job.pc # "idle"
    BY <1>7 DEF SkipMajor, LevelFull, MoveAdd, Major, MoveRemove, MergeFiles, Install, DropDemoted, DropRelative
  <2> QED BY <1>1, <2>1, <2>2 DEF Queue
<1>8. CASE \/ \E k \in Lbas : Put(k) \/ PutNegative(k)
           \/ Searching \/ Close \/ CloseEnd \/ UNCHANGED vars
  <2>1. UNCHANGED <<job, wq>>
    BY <1>8 DEF Put, PutNegative, Close, CloseEnd, vars, Searching, SearchMem, SearchImm, SearchCopy,
                SearchLevel0, SearchLevel1, RangeMem, RangeImm, RangeLevel0, RangeLevel1, Search
  <2> QED BY <2>1 DEF Queue
<1> QED BY <1>2, <1>3, <1>4, <1>5, <1>6, <1>7, <1>8 DEF Next, Compaction

LEMMA ValTypes ==
  ASSUME Inv, NEW k \in Lbas
  PROVE  mem.ents[k].val \in Nat /\ imm.ents[k].val \in Nat /\ n \in Nat /\ \A f \in Taken : ValIn(f, k) \in Nat
<1>1. mem.ents \in Entries /\ imm.ents \in Entries /\ n \in Nat /\ files \in [Fds -> FileTypes]
  BY DEF Inv, MemOK, Tables, RecordsOK, Disk, DiskTypes
<1>2. \A f \in Taken : files[f].ents \in Entries
  BY <1>1, TakenIs DEF FileTypes
<1>3. \A es \in Entries : es[k].val \in Nat
  BY FirstOf
<1> QED BY <1>1, <1>2, <1>3 DEF ValIn

(* What a merge writes comes from its input. *)
LEMMA OutputsFrom ==
  ASSUME Disk, NEW m, NEW a, NEW rel, MergeFiles, Merges(m, a, rel), NEW f \in Range(a.fds), NEW k \in Lbas
  PROVE  ValIn(f, k)' = 0 \/ \E g \in Taken : ValIn(f, k)' = ValIn(g, k)
<1>1. MergeOut'
  BY MergeOutWritten
<1>2. /\ l0' = l0 /\ l1' = l1 /\ job'.adds = a.fds /\ job'.rel = rel /\ job'.pc \in {"install", "empty"}
      /\ rel = Relatives(l1, l0)
  BY DEF Merges
<1>3. \A g \in Taken : files'[g] = files[g]
  BY MergeWrites
<1>4. Range(a.fds) \cap Taken = {} /\ Range(a.fds) \subseteq Fds
  BY MergeWrites
<1>5. /\ Range(l0) = {l0[1]} /\ l0[1] \in Taken /\ Sectioned(rel, l1, l0[1], Taken)
  <2>1. job.pc = "major" /\ Len(l0) > 0
    BY MergeFilesIs
  <2> QED BY <1>2, <2>1, MajorFinds
<1>6. Range(rel) \subseteq Taken
  BY <1>5 DEF Sectioned, Disk, LevelsOK, Held
<1>7. f \in Output'
  BY <1>2, <1>4, <1>6 DEF Output, Held
<1>8. CASE Has(files', f, k)
  <2>1. Has(files', l0'[1], k) \/ \E r \in Range(rel) : Has(files', r, k)
    BY <1>1, <1>2, <1>8 DEF MergeOut
  <2>2. CASE Has(files', l0'[1], k)
    <3>1. ValIn(f, k)' = files'[l0'[1]].ents[k].val
      BY <1>1, <1>2, <1>7, <1>8, <2>2 DEF MergeOut, ValIn
    <3> QED BY <1>2, <1>3, <1>5, <3>1 DEF ValIn
  <2>3. CASE ~Has(files', l0'[1], k)
    <3>1. PICK r \in Range(rel) : Has(files', r, k)
      BY <2>1, <2>3
    <3>2. ValIn(f, k)' = files'[r].ents[k].val
      BY <1>1, <1>2, <1>7, <1>8, <2>3, <3>1 DEF MergeOut, ValIn
    <3> QED BY <1>3, <1>6, <3>2 DEF ValIn
  <2> QED BY <2>2, <2>3
<1>9. CASE ~Has(files', f, k)
  <2>1. files'[f].ents \in Entries
    BY <1>4 DEF Merges, FileTypes
  <2>2. files'[f].ents[k].val = 0
    BY <1>9, <2>1, FirstOf DEF Has
  <2> QED BY <2>2 DEF ValIn
<1> QED BY <1>8, <1>9

LEMMA OrderShrinks ==
  ASSUME NEW k \in Lbas, OrderAt(k), UNCHANGED <<mem, imm, n>>,
         Taken' \subseteq Taken, \A f \in Taken' : ValIn(f, k)' = ValIn(f, k),
         Held' \subseteq Held, Held' \subseteq Taken', Pending' => Pending,
         job'.pc \in {"idle", "major", "level"} =>
           /\ job.pc \in {"idle", "major", "level"} /\ Range(l0') = Range(l0) /\ Range(l1') = Range(l1)
           /\ Range(l0) \cup Range(l1) \subseteq Taken'
  PROVE  OrderAt(k)'
BY DEF OrderAt

LEMMA DiskTaken ==
  ASSUME Disk
  PROVE  /\ Held \subseteq Taken /\ Range(l0) \subseteq Taken /\ Range(l1) \subseteq Held
         /\ files \in [Fds -> FileTypes] /\ job \in Jobs
BY DEF Disk, LevelsOK, DiskTypes, Held

LEMMA OrderQuiet ==
  ASSUME Inv, NEW k \in Lbas, OrderAt(k), UNCHANGED <<mem, imm, n, files, l0, l1>>,
         job'.adds = job.adds, Pending' => Pending,
         job'.pc \in {"idle", "major", "level"} => job.pc \in {"idle", "major", "level"}
  PROVE  OrderAt(k)'
<1>1. Disk
  BY DEF Inv
<1>2. Taken' = Taken /\ Held' = Held /\ \A f : ValIn(f, k)' = ValIn(f, k)
  BY DEF Taken, Held, ValIn
<1> QED BY <1>1, <1>2, DiskTaken, OrderShrinks

LEMMA OrderDrop ==
  ASSUME Inv, NEW k \in Lbas, OrderAt(k), DropDemoted \/ DropRelative \/ Install \/ MoveRemove
  PROVE  OrderAt(k)'
<1>1. Disk /\ Disk' /\ job \in Jobs
  <2>1. Disk
    BY DEF Inv
  <2> QED BY <2>1, DropDemotedDisk, DropRelativeDisk, InstallDisk, MoveRemoveDisk, DiskTaken
<1>2. UNCHANGED <<mem, imm, n, wq>> /\ job.pc \notin {"idle", "major", "level"}
  BY DEF DropDemoted, DropRelative, Install, MoveRemove, Compact
<1>3. job'.pc \notin {"idle", "major", "level"}
  BY <1>1, InstallIs DEF DropDemoted, DropRelative, MoveRemove, Jobs
<1>4. Taken' \subseteq Taken /\ \A f \in Taken' : ValIn(f, k)' = ValIn(f, k)
  <2>1. CASE Install \/ MoveRemove
    BY <2>1 DEF Install, MoveRemove, Taken, ValIn
  <2>2. ASSUME NEW d, files' = [files EXCEPT ![d] = NoFile]
        PROVE  Taken' \subseteq Taken /\ \A f \in Taken' : ValIn(f, k)' = ValIn(f, k)
    <3>1. files \in [Fds -> FileTypes]
      BY <1>1, DiskTaken
    <3>2. \A f \in Fds : files'[f] = IF f = d THEN NoFile ELSE files[f]
      BY <2>2, <3>1
    <3> QED BY <3>2 DEF Taken, ValIn
  <2>3. CASE DropDemoted \/ DropRelative
    BY <2>2, <2>3 DEF DropDemoted, DropRelative
  <2> QED BY <2>1, <2>3
<1>5. Held' \subseteq Taken'
  BY <1>1 DEF Disk, LevelsOK
<1>6. Held' \subseteq Held
  <2>1. CASE Install
    BY <1>1, <2>1, InstallIs
  <2>2. CASE MoveRemove \/ DropDemoted
    <3>1. l1' = l1 /\ job'.adds = job.adds
      BY <1>1, <2>2 DEF MoveRemove, DropDemoted, Jobs
    <3> QED BY <3>1 DEF Held
  <2>3. CASE DropRelative
    <3>1. /\ job'.adds = job.adds /\ l1' = RemoveFile(l1, job.rel[1]) /\ job.pc = "droprel"
      BY <1>1, <2>3 DEF DropRelative, Jobs
    <3>2. job.rel \in Seq(Fds) /\ job.rel # <<>> /\ Distinct(job.rel) /\ l1 \in Seq(Fds) /\ Distinct(l1)
          /\ Range(job.rel) \subseteq Range(l1)
      BY <1>1, <3>1 DEF Disk, JobOK, Merging, Jobs, DiskTypes, LevelsOK
    <3>3. job.rel[1] \in Range(job.rel)
      BY <3>2, SeqSplit
    <3>4. Range(l1') = Range(l1) \ {job.rel[1]}
      BY <3>1, <3>2, <3>3, RemoveFileIs
    <3> QED BY <3>1, <3>4 DEF Held
  <2> QED BY <2>1, <2>2, <2>3
<1>7. Pending
  BY <1>2 DEF Pending
<1> QED BY <1>2, <1>3, <1>4, <1>5, <1>6, <1>7, OrderShrinks

LEMMA OrderMoveAdd ==
  ASSUME Inv, NEW k \in Lbas, OrderAt(k), MoveAdd
  PROVE  OrderAt(k)'
<1>1. Disk /\ Disk' /\ job \in Jobs
  <2>1. Disk
    BY DEF Inv
  <2> QED BY <2>1, MoveAddDisk, DiskTaken
<1> DEFINE d == l0[1]
           g == [level |-> 1, ver |-> version, ents |-> files[d].ents]
<1>2. /\ job.pc = "major" /\ Len(l0) > 0 /\ files' = [files EXCEPT ![d] = g]
      /\ job' = [job EXCEPT !.pc = "move"] /\ UNCHANGED <<mem, imm, n>>
  BY DEF MoveAdd, Major, Compact
<1>3. d \in Taken /\ files \in [Fds -> FileTypes]
  BY <1>1, <1>2, MajorFinds, DiskTaken
<1>4. \A f \in Fds : files'[f] = IF f = d THEN g ELSE files[f]
  BY <1>2, <1>3
<1>5. \A f \in Fds : ValIn(f, k)' = ValIn(f, k)
  BY <1>4 DEF ValIn
<1>6. Taken' = Taken
  <2>1. files[d] # NoFile
    BY <1>3 DEF Taken
  <2>2. g # NoFile
    BY DEF NoFile
  <2> HIDE DEF g
  <2> QED BY <1>4, <2>1, <2>2 DEF Taken
<1>7. Held' \subseteq Taken
  BY <1>1, <1>6 DEF Disk, LevelsOK
<1>8. job'.pc = "move" /\ Pending
  BY <1>1, <1>2 DEF Jobs, Pending
<1> QED BY <1>2, <1>5, <1>6, <1>7, <1>8, TakenIs DEF OrderAt

LEMMA OrderMergeFiles ==
  ASSUME Inv, NEW k \in Lbas, OrderAt(k), MergeFiles
  PROVE  OrderAt(k)'
<1>1. Disk /\ Disk'
  <2>1. Disk
    BY DEF Inv
  <2> QED BY <2>1, MergeFilesDisk
<1>2. PICK m, a, rel : Merges(m, a, rel)
  BY <1>1, MergeFilesIs
<1>3. job.pc = "major"
  BY <1>1, MergeFilesIs
<1>4. Taken' = Taken \cup Range(a.fds)
  BY <1>1, <1>2, MergeWrites
<1>5. \A f \in Taken : files'[f] = files[f]
  BY <1>1, <1>2, MergeWrites
<1>6. ASSUME NEW f \in Taken' PROVE ValIn(f, k)' = 0 \/ \E g \in Taken : ValIn(f, k)' = ValIn(g, k)
  <2>1. CASE f \in Taken
    BY <1>5, <2>1 DEF ValIn
  <2>2. CASE f \in Range(a.fds)
    BY <1>1, <1>2, <2>2, OutputsFrom
  <2> QED BY <1>4, <2>1, <2>2
<1>7. job'.pc \in {"install", "empty"} /\ UNCHANGED <<mem, imm>> /\ n' = n
  BY <1>2 DEF Merges, MergeFiles, Compact
<1>8. Held' \subseteq Taken' /\ Pending
  BY <1>1, <1>3 DEF Disk, LevelsOK, Pending
<1>9. mem.ents[k].val \in Nat /\ imm.ents[k].val \in Nat /\ n \in Nat
  BY ValTypes
<1>10. \A x \in Nat : Above(x, 0) /\ 0 <= x
  BY DEF Above
<1>11. ASSUME NEW f \in Taken'
       PROVE  ValIn(f, k)' <= n /\ Above(mem.ents[k].val, ValIn(f, k)') /\ Above(imm.ents[k].val, ValIn(f, k)')
  BY <1>6, <1>8, <1>9, <1>10 DEF OrderAt
<1> QED BY <1>7, <1>8, <1>11 DEF OrderAt

(* What a put leaves in the active memtable. *)
LEMMA PutEntries ==
  ASSUME Inv, NEW k \in Lbas, Put(k) \/ PutNegative(k)
  PROVE  /\ mem'.ents[k].val = IF Put(k) THEN n + 1 ELSE 0
         /\ \A x \in Lbas \ {k} : mem'.ents[x] = mem.ents[x]
<1>1. mem \in Tables /\ mem.size = NrRecord(mem.ents) /\ n \in Nat /\ mem.ents \in [Lbas -> Records]
  BY DEF Inv, MemOK, RecordsOK, Tables, Entries
<1>2. CASE Put(k)
  <2>1. mem' = MemPut(k, n + 1) /\ n + 1 \in Nat \ {0}
    BY <1>1, <1>2 DEF Put
  <2>2. mem'.ents = [mem.ents EXCEPT ![k] = [val |-> n + 1, neg |-> mem.ents[k].neg]]
    BY <1>1, <2>1, MemPutIs
  <2> QED BY <1>1, <1>2, <2>2
<1>3. CASE ~Put(k)
  <2>1. mem' = MemPutNegative(k)
    BY <1>3 DEF PutNegative
  <2>2. mem'.ents = [mem.ents EXCEPT ![k] = [val |-> 0, neg |-> TRUE]]
    BY <1>1, <2>1, MemPutNegativeIs
  <2> QED BY <1>1, <1>3, <2>2
<1> QED BY <1>2, <1>3

LEMMA OrderPut ==
  ASSUME Inv, NEW k \in Lbas, OrderAt(k), NEW x \in Lbas, Put(x) \/ PutNegative(x)
  PROVE  OrderAt(k)'
<1>1. Quiet
  BY QuietSteps
<1>2. UNCHANGED <<imm, wq>> /\ n' \in {n, n + 1}
  BY DEF Put, PutNegative
<1>3. Taken' = Taken /\ Held' = Held /\ (\A f : ValIn(f, k)' = ValIn(f, k)) /\ (Pending' <=> Pending)
  BY <1>1, <1>2 DEF Quiet, Taken, Held, ValIn, Pending
<1>4. mem.ents[k].val \in Nat /\ imm.ents[k].val \in Nat /\ n \in Nat /\ \A f \in Taken : ValIn(f, k) \in Nat
  BY ValTypes
<1>5. mem'.ents[k].val = mem.ents[k].val \/ (mem'.ents[k].val = n + 1 /\ n' = n + 1) \/ mem'.ents[k].val = 0
  BY PutEntries DEF Put
<1>6. mem'.ents[k].val <= n'
  BY <1>2, <1>4, <1>5 DEF OrderAt
<1>7. imm'.ents[k].val <= n' /\ Above(mem'.ents[k].val, imm'.ents[k].val)
  BY <1>2, <1>4, <1>5 DEF OrderAt, Above
<1>8. \A f \in Taken : ValIn(f, k) <= n' /\ Above(mem'.ents[k].val, ValIn(f, k))
  BY <1>2, <1>4, <1>5 DEF OrderAt, Above
<1> QED BY <1>1, <1>2, <1>3, <1>6, <1>7, <1>8 DEF OrderAt, Quiet

LEMMA NoValue == \A k \in Lbas : NoTable.ents[k].val = 0 /\ EmptyTable.ents[k].val = 0
BY DEF NoTable, EmptyTable, NoEntries, NoRecord

LEMMA OrderTables ==
  ASSUME Inv, NEW k \in Lbas, OrderAt(k), Rotate \/ CloseMemtable \/ CloseEnd
  PROVE  OrderAt(k)'
<1>1. UNCHANGED <<files, l0, l1, n>> /\ job.pc = "idle"
  BY DEF Rotate, CloseMemtable, CloseEnd, disk, ImUnlocked
<1>2. job'.adds = job.adds /\ job'.pc \in {"idle", "major"}
  <2>1. job.adds = <<>>
    BY <1>1 DEF Inv, Disk, JobOK
  <2> QED BY <1>1, <2>1 DEF Rotate, CloseMemtable, CloseEnd, IdleJob
<1>3. Taken' = Taken /\ Held' = Held /\ \A f : ValIn(f, k)' = ValIn(f, k)
  BY <1>1, <1>2 DEF Taken, Held, ValIn
<1>4. mem.ents[k].val \in Nat /\ imm.ents[k].val \in Nat /\ n \in Nat /\ \A f \in Taken : ValIn(f, k) \in Nat
  BY ValTypes
<1>5. Held \subseteq Taken
  BY DiskTaken DEF Inv
<1>6. \/ imm'.ents[k].val = mem.ents[k].val /\ mem'.ents[k].val = 0
      \/ imm'.ents[k].val = 0 /\ mem' = mem
  BY NoValue DEF Rotate, CloseMemtable, CloseEnd
<1>7. mem'.ents[k].val <= n /\ imm'.ents[k].val <= n /\ Above(mem'.ents[k].val, imm'.ents[k].val)
  BY <1>4, <1>6 DEF OrderAt, Above
<1>8. \A f \in Taken : Above(mem'.ents[k].val, ValIn(f, k)) /\ Above(imm'.ents[k].val, ValIn(f, k))
  BY <1>4, <1>6 DEF OrderAt, Above
<1> QED BY <1>1, <1>2, <1>3, <1>5, <1>7, <1>8 DEF OrderAt

LEMMA OrderMinor ==
  ASSUME Inv, Inv', Queue, NEW k \in Lbas, OrderAt(k), Minor
  PROVE  OrderAt(k)'
<1>1. MemOK /\ Disk /\ Disk'
  BY DEF Inv
<1> DEFINE es == IF imm = NoTable THEN mem.ents ELSE imm.ents
<1>2. /\ mem' = IF imm = NoTable THEN EmptyTable ELSE mem
      /\ imm' = imm /\ wq' = wq /\ n' = n
  BY <1>1, MinorIs
<1>3. PICK f : Writes(f, es)
  BY <1>1, MinorIs
<1>4. ~Pending' /\ Pending
  BY <1>2, <1>3 DEF Pending, Writes, Queue
<1>5. Held \subseteq Taken
  BY <1>1, DiskTaken
<1>6. Taken' = Taken \cup {f} /\ Held' = Held /\ l1' = l1 /\ f \notin Taken /\ Range(l1) \subseteq Taken
  BY <1>3 DEF Writes
<1>7. (\A g \in Taken : ValIn(g, k)' = ValIn(g, k)) /\ ValIn(f, k)' = es[k].val
  BY <1>3, TakenIs DEF Writes, ValIn
<1>8. Range(l0') = {f}
  <2>1. l0' \in Seq(Fds) /\ Len(l0') <= 1 /\ l0' # <<>> /\ l0'[1] = f
    BY <1>1, <1>3 DEF Disk, DiskTypes, LevelsOK, Writes
  <2> QED BY <2>1, OneFile
<1>9. mem.ents[k].val \in Nat /\ imm.ents[k].val \in Nat /\ n \in Nat /\ \A g \in Taken : ValIn(g, k) \in Nat
  BY ValTypes
<1>10. \/ imm = NoTable /\ es[k].val = mem.ents[k].val /\ mem'.ents[k].val = 0 /\ imm.ents[k].val = 0
       \/ es[k].val = imm.ents[k].val /\ mem' = mem
  BY <1>2, NoValue
<1> HIDE DEF es
<1>11. es[k].val <= n /\ \A g \in Taken : Above(es[k].val, ValIn(g, k))
  BY <1>4, <1>10 DEF OrderAt
<1>12. mem'.ents[k].val <= n /\ Above(mem'.ents[k].val, imm.ents[k].val) /\ Above(mem'.ents[k].val, es[k].val)
  BY <1>9, <1>10 DEF OrderAt, Above
<1>13. \A g \in Taken : Above(mem'.ents[k].val, ValIn(g, k))
  BY <1>9, <1>10 DEF OrderAt, Above
<1>14. \A g \in Held : Above(imm.ents[k].val, ValIn(g, k))
  BY DEF OrderAt
<1>15. imm'.ents[k].val <= n /\ \A g \in Taken : ValIn(g, k) <= n
  BY <1>2 DEF OrderAt
<1> QED BY <1>2, <1>4, <1>5, <1>6, <1>7, <1>8, <1>11, <1>12, <1>13, <1>14, <1>15 DEF OrderAt

LEMMA OrderNext ==
  ASSUME Inv, Inv', Queue, Order, [Next]_vars
  PROVE  Order'
<1> SUFFICES ASSUME NEW k \in Lbas PROVE OrderAt(k)'
  BY DEF Order
<1>1. OrderAt(k) /\ MemOK /\ Disk /\ job \in Jobs
  BY DEF Order, Inv, Disk, DiskTypes
<1>2. CASE \E x \in Lbas : Put(x) \/ PutNegative(x)
  BY <1>1, <1>2, OrderPut
<1>3. CASE Rotate \/ CloseMemtable \/ CloseEnd
  BY <1>1, <1>3, OrderTables
<1>4. CASE Minor
  BY <1>1, <1>4, OrderMinor
<1>5. CASE DropDemoted \/ DropRelative \/ Install \/ MoveRemove
  BY <1>1, <1>5, OrderDrop
<1>6. CASE MoveAdd
  BY <1>1, <1>6, OrderMoveAdd
<1>7. CASE MergeFiles
  BY <1>1, <1>7, OrderMergeFiles
<1>8. CASE WorkerStart \/ SkipMajor \/ LevelFull
  <2>1. UNCHANGED <<mem, imm, n, files, l0, l1>>
    BY <1>8 DEF WorkerStart, SkipMajor, LevelFull, Compact, index, disk
  <2>2. job'.adds = job.adds
    BY <1>1, <1>8 DEF WorkerStart, SkipMajor, LevelFull, IdleJob, Jobs, Disk, JobOK
  <2>3. Pending /\ job.pc \in {"idle", "major"}
    <3>1. CASE WorkerStart
      <4>1. wq > 0 /\ job.pc = "idle"
        BY <3>1 DEF WorkerStart
      <4>2. wq # 0
        BY <4>1
      <4> QED BY <4>1, <4>2 DEF Pending
    <3>2. CASE SkipMajor \/ LevelFull
      BY <3>2 DEF SkipMajor, LevelFull, Pending
    <3> QED BY <1>8, <3>1, <3>2
  <2> QED BY <1>1, <2>1, <2>2, <2>3, OrderQuiet
<1>9. CASE Open
  <2>1. /\ l0' = l0 /\ Range(l1') = Range(l1) /\ UNCHANGED <<files, job, mem, imm, wq, n>> /\ job.pc = "idle"
    BY <1>1, <1>9, OpenIs
  <2>2. Taken' = Taken /\ Held' = Held /\ (Pending' <=> Pending) /\ \A f : ValIn(f, k)' = ValIn(f, k)
    BY <2>1 DEF Taken, Held, ValIn, Pending
  <2> QED BY <1>1, <2>1, <2>2, DiskTaken, OrderShrinks
<1>10. CASE Searching \/ Close \/ UNCHANGED vars
  <2>1. UNCHANGED <<mem, imm, n, wq>>
    BY <1>10 DEF Close, vars, index, Searching, SearchMem, SearchImm, SearchCopy,
                SearchLevel0, SearchLevel1, RangeMem, RangeImm, RangeLevel0, RangeLevel1, Search
  <2>2. Quiet
    BY <1>10, QuietSteps
  <2> QED BY <1>1, <2>1, <2>2, OrderQuiet DEF Quiet, Pending
<1> QED BY <1>2, <1>3, <1>4, <1>5, <1>6, <1>7, <1>8, <1>9, <1>10 DEF Next, Compaction

LEMMA OrderInit == Init => Order /\ Queue
<1> SUFFICES ASSUME Init PROVE Order /\ Queue
  OBVIOUS
<1>1. /\ mem = EmptyTable /\ imm = NoTable /\ l0 = <<>> /\ l1 = <<>> /\ n = 0 /\ wq = 0
      /\ job.pc = "idle" /\ job.adds = <<>> /\ files = [f \in Fds |-> NoFile]
  BY DEF Init, IdleJob
<1>2. Taken = {} /\ Held = {} /\ Range(l0) = {}
  BY <1>1, EmptyRange DEF Taken, Held
<1>3. Queue
  BY <1>1 DEF Queue
<1>4. ASSUME NEW k \in Lbas PROVE OrderAt(k)
  <2>1. mem.ents[k].val = 0 /\ imm.ents[k].val = 0
    BY <1>1, NoValue
  <2>2. mem.ents[k].val <= n /\ imm.ents[k].val <= n /\ Above(mem.ents[k].val, imm.ents[k].val)
    BY <1>1, <2>1 DEF Above
  <2> QED BY <1>2, <2>2 DEF OrderAt
<1> QED BY <1>3, <1>4 DEF Order

-----------------------------------------------------------------------------
(* Every record in a memtable or a file was put, also when a memtable was  *)
(* lost.                                                                   *)

BoundedAt(k) ==
  mem.ents[k].val <= n /\ imm.ents[k].val <= n /\ \A f \in Taken : ValIn(f, k) <= n

Bounded == \A k \in Lbas : BoundedAt(k)

LEMMA OrderBounds == Order => Bounded
BY DEF Order, OrderAt, Bounded, BoundedAt

LEMMA BoundedShrinks ==
  ASSUME NEW k \in Lbas, BoundedAt(k), UNCHANGED <<mem, imm, n>>,
         \A f \in Taken' : f \in Taken /\ ValIn(f, k)' = ValIn(f, k)
  PROVE  BoundedAt(k)'
BY DEF BoundedAt

LEMMA BoundedFiles ==
  ASSUME Inv, NEW k \in Lbas, BoundedAt(k), DropDemoted \/ DropRelative \/ MoveAdd
  PROVE  BoundedAt(k)'
<1>1. Disk /\ files \in [Fds -> FileTypes]
  BY DiskTaken DEF Inv
<1>2. UNCHANGED <<mem, imm, n>>
  BY DEF DropDemoted, DropRelative, MoveAdd, Compact
<1>3. ASSUME NEW d, files' = [files EXCEPT ![d] = NoFile]
      PROVE  \A f \in Taken' : f \in Taken /\ ValIn(f, k)' = ValIn(f, k)
  <2>1. \A f \in Fds : files'[f] = IF f = d THEN NoFile ELSE files[f]
    BY <1>1, <1>3
  <2> QED BY <2>1 DEF Taken, ValIn
<1>4. CASE DropDemoted \/ DropRelative
  BY <1>2, <1>3, <1>4, BoundedShrinks DEF DropDemoted, DropRelative
<1>5. CASE MoveAdd
  <2>1. Major /\ files' = [files EXCEPT ![l0[1]] = [level |-> 1, ver |-> version, ents |-> @.ents]]
    BY <1>5 DEF MoveAdd
  <2>2. l0[1] \in Taken
    BY <1>1, <2>1, MajorFinds DEF Major
  <2>3. \A f \in Fds : files'[f].ents = files[f].ents /\ (f # l0[1] => files'[f] = files[f])
    BY <1>1, <2>1
  <2>4. \A f \in Taken' : f \in Taken /\ ValIn(f, k)' = ValIn(f, k)
    BY <2>2, <2>3 DEF Taken, ValIn
  <2> QED BY <1>2, <2>4, BoundedShrinks
<1> QED BY <1>4, <1>5

LEMMA BoundedMerge ==
  ASSUME Inv, NEW k \in Lbas, BoundedAt(k), MergeFiles
  PROVE  BoundedAt(k)'
<1>1. Disk
  BY DEF Inv
<1>2. PICK m, a, rel : Merges(m, a, rel)
  BY <1>1, MergeFilesIs
<1>3. Taken' = Taken \cup Range(a.fds)
  BY <1>1, <1>2, MergeWrites
<1>4. \A f \in Taken : files'[f] = files[f]
  BY <1>1, <1>2, MergeWrites
<1>5. ASSUME NEW f \in Taken' PROVE ValIn(f, k)' = 0 \/ \E g \in Taken : ValIn(f, k)' = ValIn(g, k)
  <2>1. CASE f \in Taken
    BY <1>4, <2>1 DEF ValIn
  <2>2. CASE f \in Range(a.fds)
    BY <1>1, <1>2, <2>2, OutputsFrom
  <2> QED BY <1>3, <2>1, <2>2
<1>6. UNCHANGED <<mem, imm>> /\ n' = n /\ n \in Nat
  BY ValTypes DEF MergeFiles, Compact
<1> QED BY <1>5, <1>6 DEF BoundedAt

LEMMA BoundedMinor ==
  ASSUME Inv, NEW k \in Lbas, BoundedAt(k), Minor
  PROVE  BoundedAt(k)'
<1>1. MemOK /\ Disk /\ n \in Nat
  BY ValTypes DEF Inv
<1> DEFINE es == IF imm = NoTable THEN mem.ents ELSE imm.ents
<1>2. mem' = (IF imm = NoTable THEN EmptyTable ELSE mem) /\ imm' = imm /\ n' = n
  BY <1>1, MinorIs
<1>3. PICK f : Writes(f, es)
  BY <1>1, MinorIs
<1>4. Taken' = Taken \cup {f} /\ (\A g \in Taken : ValIn(g, k)' = ValIn(g, k)) /\ ValIn(f, k)' = es[k].val
  BY <1>3, TakenIs DEF Writes, ValIn
<1>5. es[k].val <= n /\ mem'.ents[k].val <= n
  BY <1>1, <1>2, NoValue DEF BoundedAt
<1> HIDE DEF es
<1> QED BY <1>2, <1>4, <1>5 DEF BoundedAt

LEMMA BoundedTables ==
  ASSUME Inv, NEW k \in Lbas, BoundedAt(k),
         Rotate \/ CloseMemtable \/ CloseEnd \/ (\E x \in Lbas : Put(x) \/ PutNegative(x))
  PROVE  BoundedAt(k)'
<1>1. files' = files
  BY DEF Rotate, CloseMemtable, CloseEnd, Put, PutNegative, disk
<1>2. Taken' = Taken /\ \A f : ValIn(f, k)' = ValIn(f, k)
  BY <1>1 DEF Taken, ValIn
<1>3. mem.ents[k].val \in Nat /\ imm.ents[k].val \in Nat /\ n \in Nat /\ \A f \in Taken : ValIn(f, k) \in Nat
  BY ValTypes
<1>4. CASE Rotate \/ CloseMemtable \/ CloseEnd
  <2>1. n' = n
    BY <1>4 DEF Rotate, CloseMemtable, CloseEnd
  <2>2. \/ imm'.ents[k].val = mem.ents[k].val /\ mem'.ents[k].val = 0
        \/ imm'.ents[k].val = 0 /\ mem' = mem
    BY <1>4, NoValue DEF Rotate, CloseMemtable, CloseEnd
  <2> QED BY <1>2, <1>3, <2>1, <2>2 DEF BoundedAt
<1>5. ASSUME NEW x \in Lbas, Put(x) \/ PutNegative(x) PROVE BoundedAt(k)'
  <2>1. imm' = imm /\ n' \in {n, n + 1}
    BY <1>5 DEF Put, PutNegative
  <2>2. mem'.ents[k].val = mem.ents[k].val \/ (mem'.ents[k].val = n + 1 /\ n' = n + 1) \/ mem'.ents[k].val = 0
    BY <1>5, PutEntries DEF Put
  <2> QED BY <1>2, <1>3, <2>1, <2>2 DEF BoundedAt
<1> QED BY <1>4, <1>5

LEMMA BoundedNext ==
  ASSUME Inv, Bounded, [Next]_vars
  PROVE  Bounded'
<1> SUFFICES ASSUME NEW k \in Lbas PROVE BoundedAt(k)'
  BY DEF Bounded
<1>1. BoundedAt(k) /\ MemOK /\ Disk
  BY DEF Bounded, Inv
<1>2. CASE Rotate \/ CloseMemtable \/ CloseEnd \/ (\E x \in Lbas : Put(x) \/ PutNegative(x))
  BY <1>1, <1>2, BoundedTables
<1>3. CASE Minor
  BY <1>1, <1>3, BoundedMinor
<1>4. CASE MergeFiles
  BY <1>1, <1>4, BoundedMerge
<1>5. CASE DropDemoted \/ DropRelative \/ MoveAdd
  BY <1>1, <1>5, BoundedFiles
<1>6. CASE \/ WorkerStart \/ SkipMajor \/ LevelFull \/ MoveRemove \/ Install \/ Open \/ Close
           \/ Searching \/ UNCHANGED vars
  <2>1. UNCHANGED <<mem, imm, n, files>>
    BY <1>6 DEF WorkerStart, SkipMajor, LevelFull, MoveRemove, Install, Open, Close, Compact, index, disk, vars,
                Searching, SearchMem, SearchImm, SearchCopy, SearchLevel0, SearchLevel1, RangeMem, RangeImm,
                RangeLevel0, RangeLevel1, Search
  <2>2. Taken' = Taken /\ \A f : ValIn(f, k)' = ValIn(f, k)
    BY <2>1 DEF Taken, ValIn
  <2> QED BY <1>1, <2>1, <2>2, BoundedShrinks
<1> QED BY <1>2, <1>3, <1>4, <1>5, <1>6 DEF Next, Compaction

LEMMA ViewBound ==
  ASSUME Inv, MergeOut, Bounded, NEW k \in Lbas
  PROVE  View(k) \in 0 .. n
<1>1. MemOK /\ Disk /\ BoundedAt(k)
  BY DEF Inv, Bounded
<1>2. PICK v : Shows(k, v)
  BY <1>1, ShowsSome
<1>3. View(k) = Seen(k, v)
  BY <1>2, ViewIs
<1>4. mem.ents[k].val \in Nat /\ imm.ents[k].val \in Nat /\ n \in Nat /\ \A f \in Taken : ValIn(f, k) \in Nat
  BY ValTypes
<1>5. v = 0 \/ \E f \in Taken : v = ValIn(f, k)
  <2>1. Range(l0) \subseteq Taken /\ Range(l1) \subseteq Taken
    BY <1>1, DiskTaken
  <2>2. l0 # <<>> => l0[1] \in Range(l0)
    BY <1>1, OneFile DEF Disk, DiskTypes, LevelsOK
  <2> QED BY <1>2, <2>1, <2>2 DEF Shows, DiskAnswers, AnswersIn, ValIn
<1>6. v \in 0 .. n
  BY <1>1, <1>4, <1>5 DEF BoundedAt
<1> QED BY <1>1, <1>3, <1>4, <1>6 DEF Seen, BoundedAt

-----------------------------------------------------------------------------
(* A memtable is lost by a rotation that finds a work queued, and by no    *)
(* other step.                                                             *)

LEMMA LostNext ==
  ASSUME [Next]_vars
  PROVE  \/ InTime /\ lost' = lost
         \/ Rotate /\ wq # 0 /\ lost' = lost + 1
<1>1. CASE Rotate
  BY <1>1 DEF Rotate, InTime
<1>2. CASE ~Rotate
  <2>1. lost' = lost
    BY <1>2 DEF Next, vars, Put, PutNegative, Compaction, WorkerStart, SkipMajor, LevelFull, MoveAdd, MoveRemove,
                MergeFiles, Install, DropDemoted, DropRelative, Minor, Compact, Searching, SearchMem, SearchImm,
                SearchCopy, SearchLevel0, SearchLevel1, RangeMem, RangeImm, RangeLevel0, RangeLevel1, Search,
                Close, CloseMemtable, CloseEnd, Open
  <2> QED BY <1>2, <2>1 DEF InTime
<1> QED BY <1>1, <1>2

LEMMA NothingLost ==
  ASSUME lost \in Nat, [Next]_vars
  PROVE  lost' \in Nat /\ (lost' = 0 => InTime /\ lost = 0)
BY LostNext

-----------------------------------------------------------------------------
(* IndexSpec: whatever rotation, compaction, search and restart do, the    *)
(* record a search finds for an lba changes only by lsm_tree_put, in the   *)
(* step that puts or hides it, or in the one that destroys a memtable whose*)
(* compaction is still queued.                                             *)
THEOREM TreeIsIndex == Spec => IndexSpec
<1> DEFINE J == ViewInv /\ Bounded
           B == \A k \in Lbas : View(k) \in 0 .. n
<1>1. Init => I!Init /\ J
  <2> SUFFICES ASSUME Init PROVE I!Init /\ J
    OBVIOUS
  <2>1. \A k \in Lbas : View(k) = 0
    BY InitialView
  <2>2. n = 0 /\ lost = 0
    BY DEF Init
  <2>3. I!Init
    BY <2>1, <2>2 DEF I!Init, Lbas
  <2> QED BY <2>3, ViewInvInit, OrderInit, OrderBounds
<1>2. J /\ [Next]_vars => J'
  BY ViewInvNext, BoundedNext DEF ViewInv
<1>3. J => B
  BY ViewBound DEF ViewInv
<1>4. J /\ J' /\ B' /\ [Next]_vars => [I!Next]_<<[k \in Lbas |-> View(k)], n, lost>>
  <2> SUFFICES ASSUME J, J', B', [Next]_vars
               PROVE  [I!Next]_<<[k \in Lbas |-> View(k)], n, lost>>
    OBVIOUS
  <2>1. CASE Rotate /\ wq # 0 /\ lost' = lost + 1
    <3>1. n' = n
      BY <2>1 DEF Rotate
    <3>2. [k \in Lbas |-> View(k)]' \in [0 .. NrLba - 1 -> 0 .. n]
      BY <3>1 DEF Lbas
    <3>3. I!Lose
      BY <2>1, <3>1, <3>2 DEF I!Lose
    <3> QED BY <3>3 DEF I!Next
  <2>2. CASE InTime /\ lost' = lost
    <3>1. \/ SameView /\ n' = n
          \/ \E k \in Lbas : Put(k) /\ Becomes(k, n + 1)
          \/ \E k \in Lbas : PutNegative(k) /\ Becomes(k, 0)
      BY <2>2, ViewStep DEF ViewInv
    <3>2. CASE SameView /\ n' = n
      <4>1. [k \in Lbas |-> View(k)]' = [k \in Lbas |-> View(k)]
        BY <3>2 DEF SameView
      <4> QED BY <2>2, <3>2, <4>1
    <3>3. ASSUME NEW k \in Lbas, Put(k), Becomes(k, n + 1) PROVE I!Next
      <4>1. n < MaxPut /\ n' = n + 1
        BY <3>3 DEF Put
      <4>2. [x \in Lbas |-> View(x)]' = [[x \in Lbas |-> View(x)] EXCEPT ![k] = n + 1]
        BY <3>3 DEF Becomes
      <4>3. I!Put(k)
        BY <2>2, <4>1, <4>2 DEF I!Put
      <4> QED BY <4>3 DEF I!Next, Lbas
    <3>4. ASSUME NEW k \in Lbas, PutNegative(k), Becomes(k, 0) PROVE I!Next
      <4>1. View(k) # 0 /\ n' = n
        BY <3>4 DEF PutNegative
      <4>2. [x \in Lbas |-> View(x)]' = [[x \in Lbas |-> View(x)] EXCEPT ![k] = 0]
        BY <3>4 DEF Becomes
      <4>3. I!PutNegative(k)
        BY <2>2, <4>1, <4>2 DEF I!PutNegative
      <4> QED BY <4>3 DEF I!Next, Lbas
    <3> QED BY <3>1, <3>2, <3>3, <3>4
  <2> QED BY <2>1, <2>2, LostNext
<1> QED BY <1>1, <1>2, <1>3, <1>4, PTL DEF Spec, IndexSpec, I!Spec

-----------------------------------------------------------------------------
(* The block of a newest record is not given back. *)

LEMMA GivesBack ==
  ASSUME Inv, NEW bs
  PROVE  /\ GiveBack(rit, bs) \in Seq(Lbas \cup {INF}) /\ Len(GiveBack(rit, bs)) = n
         /\ \A b \in 1 .. n : GiveBack(rit, bs)[b] = IF b \in bs THEN INF ELSE rit[b]
<1>1. rit \in Seq(Lbas \cup {INF}) /\ Len(rit) = n
  BY DEF Inv, RecordsOK
<1>2. GiveBack(rit, bs) \in Seq(Lbas \cup {INF}) /\ Len(GiveBack(rit, bs)) = Len(rit)
  BY <1>1, GiveBackIs
<1>3. \A b \in 1 .. Len(rit) : GiveBack(rit, bs)[b] = IF b \in bs THEN INF ELSE rit[b]
  BY <1>1, GiveBackIs
<1> QED BY <1>1, <1>2, <1>3

(* The block of the newest record still belongs to its lba. *)
LiveKept == \A k \in Lbas : View(k) # 0 => rit[View(k)] = k

LEMMA LivePut ==
  ASSUME Inv, MergeOut, Order, LiveKept, NEW k \in Lbas, Put(k), Becomes(k, n + 1)
  PROVE  LiveKept'
<1>1. rit \in Seq(Lbas \cup {INF}) /\ Len(rit) = n /\ n \in Nat
  BY DEF Inv, RecordsOK
<1> DEFINE bs == {b \in {mem.ents[k].val} : b # 0 /\ rit[b] = k}
<1>2. rit' = Append(GiveBack(rit, bs), k) /\ \A b \in bs : rit[b] = k
  BY DEF Put
<1> HIDE DEF bs
<1> DEFINE g == GiveBack(rit, bs)
<1>3. g \in Seq(Lbas \cup {INF}) /\ Len(g) = n /\ \A b \in 1 .. n : g[b] = IF b \in bs THEN INF ELSE rit[b]
  BY GivesBack
<1> HIDE DEF g
<1>4. rit' = Append(g, k)
  BY <1>2 DEF g
<1>5. rit'[n + 1] = k /\ \A b \in 1 .. n : rit'[b] = g[b]
  BY <1>1, <1>3, <1>4
<1>6. ASSUME NEW x \in Lbas, View(x)' # 0 PROVE rit'[View(x)'] = x
  <2>1. CASE x = k
    BY <1>5, <2>1 DEF Becomes
  <2>2. CASE x # k
    <3>1. View(x)' = View(x) /\ View(x) \in 0 .. n
      BY <2>2, OrderBounds, ViewBound DEF Becomes
    <3>2. View(x) \in 1 .. n
      BY <1>1, <1>6, <3>1
    <3>3. rit[View(x)] = x
      BY <1>6, <3>1 DEF LiveKept
    <3> QED BY <1>2, <1>3, <1>5, <2>2, <3>1, <3>2, <3>3
  <2> QED BY <2>1, <2>2
<1> QED BY <1>6 DEF LiveKept

LEMMA LiveNegative ==
  ASSUME Inv, MergeOut, Order, LiveKept, NEW k \in Lbas, PutNegative(k), Becomes(k, 0)
  PROVE  LiveKept'
<1>1. rit \in Seq(Lbas \cup {INF}) /\ Len(rit) = n /\ n \in Nat
  BY DEF Inv, RecordsOK
<1>2. rit' = GiveBack(rit, {View(k)}) /\ rit[View(k)] = k
  BY DEF PutNegative
<1>3. \A b \in 1 .. n : rit'[b] = IF b \in {View(k)} THEN INF ELSE rit[b]
  BY <1>2, GivesBack
<1>4. ASSUME NEW x \in Lbas, View(x)' # 0 PROVE rit'[View(x)'] = x
  <2>1. x # k
    BY <1>4 DEF Becomes
  <2>2. View(x)' = View(x) /\ View(x) \in 0 .. n
    BY <2>1, OrderBounds, ViewBound DEF Becomes
  <2>3. View(x) \in 1 .. n
    BY <1>1, <1>4, <2>2
  <2>4. rit[View(x)] = x
    BY <1>4, <2>2 DEF LiveKept
  <2> QED BY <1>2, <1>3, <2>1, <2>2, <2>3, <2>4
<1> QED BY <1>4 DEF LiveKept

(* A block that a merge gives back is that of an older record. *)
LEMMA SupersededOld ==
  ASSUME Inv, Order, MergeFiles, NEW m, NEW a, NEW rel, Merges(m, a, rel), NEW x \in Lbas,
         x \in DOMAIN m, m[x].back > 0
  PROVE  m[x].back # View(x)
<1>1. Disk /\ OrderAt(x) /\ MergedTo(m, l0, rel) /\ rel = Relatives(l1, l0)
  BY DEF Inv, Order, Merges
<1>2. job.pc = "major" /\ Len(l0) > 0
  BY <1>1, MergeFilesIs
<1> DEFINE d == l0[1]
<1>3. Range(l0) = {d} /\ d \in Taken /\ Sectioned(rel, l1, d, Taken)
  BY <1>1, <1>2, MajorFinds
<1>4. Range(rel) \subseteq Range(l1) /\ Range(l1) \subseteq Taken
  BY <1>1, <1>3, DiskTaken DEF Sectioned
<1>5. \A f \in Taken : files[f].ents \in Entries
  BY <1>1, TakenIs DEF Disk, DiskTypes, FileTypes
<1>6. KeysOf(l0) = KeysIn(files[d].ents)
  BY <1>3 DEF KeysOf
<1>7. m[x].back # 0
  BY DEF Superseded
<1> HIDE DEF d
<1>8. x \in KeysIn(files[d].ents) /\ \E r \in Range(rel) : x \in KeysIn(files[r].ents)
  <2>1. x \in KeysIn(files[d].ents) \/ x \in KeysOf(rel)
    BY <1>1, <1>6 DEF MergedTo
  <2>2. x \in KeysOf(rel) <=> \E r \in Range(rel) : x \in KeysIn(files[r].ents)
    BY DEF KeysOf
  <2> QED BY <1>1, <1>7, <2>1, <2>2 DEF MergedTo, d
<1>9. PICK r \in Range(rel) : x \in KeysIn(files[r].ents)
  BY <1>8
<1>10. m[x].back = Superseded(d, r, x)
  BY <1>1, <1>8, <1>9 DEF MergedTo, d
<1>11. ~NegIn(d, x) /\ m[x].back = ValIn(r, x)
  <2>1. ~(NEG > 0)
    BY DEF NEG
  <2> QED BY <1>7, <1>10, <2>1 DEF Superseded
<1>12. ValIn(d, x) # 0
  BY <1>3, <1>5, <1>8, <1>11, FirstIs DEF ValIn, NegIn
<1>13. mem.ents[x].val \in Nat /\ imm.ents[x].val \in Nat /\ ValIn(d, x) \in Nat /\ ValIn(r, x) \in Nat
  BY <1>3, <1>4, <1>9, ValTypes
<1>14. ValIn(r, x) < ValIn(d, x)
  BY <1>1, <1>2, <1>3, <1>4, <1>9, <1>12 DEF OrderAt, Above
<1>15. Above(mem.ents[x].val, ValIn(d, x)) /\ Above(imm.ents[x].val, ValIn(d, x))
  BY <1>1, <1>2, <1>3 DEF OrderAt, Pending
<1>16. View(x) = Seen(x, ValIn(d, x))
  <2>1. l0 # <<>>
    BY <1>2
  <2>2. Shows(x, ValIn(d, x))
    BY <1>8, <2>1 DEF Shows, DiskAnswers, Has, ValIn, d
  <2> QED BY <2>2, ViewIs
<1>17. View(x) \in {mem.ents[x].val, imm.ents[x].val, ValIn(d, x)}
  BY <1>16 DEF Seen
<1> QED BY <1>7, <1>11, <1>13, <1>14, <1>15, <1>17 DEF Above

LEMMA LiveMerge ==
  ASSUME Inv, MergeOut, Order, LiveKept, MergeFiles, SameView
  PROVE  LiveKept'
<1>1. Disk /\ rit \in Seq(Lbas \cup {INF}) /\ Len(rit) = n /\ n \in Nat
  BY DEF Inv, RecordsOK
<1>2. PICK m, a, rel : Merges(m, a, rel)
  BY <1>1, MergeFilesIs
<1>3. rit' = GiveBack(rit, GivenBack(m)) /\ DOMAIN m \subseteq Lbas
  BY <1>2 DEF Merges, Yields
<1>4. \A b \in 1 .. n : rit'[b] = IF b \in GivenBack(m) THEN INF ELSE rit[b]
  BY <1>3, GivesBack
<1>5. ASSUME NEW x \in Lbas, View(x)' # 0 PROVE rit'[View(x)'] = x
  <2>1. View(x)' = View(x) /\ View(x) \in 0 .. n
    BY OrderBounds, ViewBound DEF SameView
  <2>2. View(x) \in 1 .. n
    BY <1>1, <1>5, <2>1
  <2>3. rit[View(x)] = x
    BY <1>5, <2>1 DEF LiveKept
  <2>4. View(x) \notin GivenBack(m)
    <3> SUFFICES ASSUME View(x) \in GivenBack(m) PROVE FALSE
      OBVIOUS
    <3>1. View(x) > 0 /\ \E k \in DOMAIN m : m[k].back = View(x) /\ rit[View(x)] = k
      BY DEF GivenBack
    <3>2. x \in DOMAIN m /\ m[x].back = View(x)
      BY <2>3, <3>1
    <3> QED BY <1>2, <3>1, <3>2, SupersededOld
  <2> QED BY <1>4, <2>1, <2>2, <2>3, <2>4
<1> QED BY <1>5 DEF LiveKept

LEMMA LiveNext ==
  ASSUME ViewInv, ViewInv', Order, LiveKept, InTime, [Next]_vars
  PROVE  LiveKept'
<1>1. Inv /\ Inv' /\ MergeOut /\ Backed
  BY DEF ViewInv
<1>2. \/ SameView /\ n' = n
      \/ \E k \in Lbas : Put(k) /\ Becomes(k, n + 1)
      \/ \E k \in Lbas : PutNegative(k) /\ Becomes(k, 0)
  BY <1>1, ViewStep
<1>3. CASE \E k \in Lbas : Put(k) /\ Becomes(k, n + 1)
  BY <1>1, <1>3, LivePut
<1>4. CASE \E k \in Lbas : PutNegative(k) /\ Becomes(k, 0)
  BY <1>1, <1>4, LiveNegative
<1>5. CASE SameView /\ n' = n
  <2>1. CASE MergeFiles
    BY <1>1, <1>5, <2>1, LiveMerge
  <2>2. CASE rit' = rit
    BY <1>5, <2>2 DEF SameView, LiveKept
  <2>3. CASE \E k \in Lbas : Put(k)
    <3>1. n' = n + 1 /\ n \in Nat
      BY <1>1, <2>3 DEF Put, Inv, RecordsOK
    <3> QED BY <1>5, <3>1
  <2>4. CASE \E k \in Lbas : PutNegative(k)
    <3>1. PICK k \in Lbas : PutNegative(k)
      BY <2>4
    <3>2. (Put(k) /\ Becomes(k, n + 1)) \/ (PutNegative(k) /\ Becomes(k, 0))
      BY <1>1, <3>1, ViewPut
    <3> QED BY <1>1, <3>2, LivePut, LiveNegative
  <2>5. CASE \/ WorkerStart \/ SkipMajor \/ LevelFull \/ MoveAdd \/ MoveRemove \/ Install
             \/ DropDemoted \/ DropRelative \/ Minor
    <3>1. rit' = rit
      BY <2>5 DEF WorkerStart, SkipMajor, LevelFull, MoveAdd, MoveRemove, Install, DropDemoted, DropRelative, Minor
    <3> QED BY <2>2, <3>1
  <2>6. CASE Rotate \/ Close \/ CloseMemtable \/ CloseEnd \/ Open \/ Searching \/ UNCHANGED vars
    <3>1. rit' = rit
      BY <2>6 DEF Rotate, Close, CloseMemtable, CloseEnd, Open, vars, Searching, SearchMem, SearchImm, SearchCopy,
                  SearchLevel0, SearchLevel1, RangeMem, RangeImm, RangeLevel0, RangeLevel1, Search
    <3> QED BY <2>2, <3>1
  <2> QED BY <2>1, <2>3, <2>4, <2>5, <2>6 DEF Next, Compaction
<1> QED BY <1>2, <1>3, <1>4, <1>5

(* LiveUnlessLost: the block of the newest record of an lba is not given   *)
(* back by a put (lsm_tree_put resets the reverse index of the record it   *)
(* replaces) nor by a merge (compaction_job_run returns the record it      *)
(* drops), as long as no memtable was destroyed with its work still queued.*)
THEOREM LiveBlocksKept == Spec => []LiveUnlessLost
<1> DEFINE J == /\ ViewInv /\ lost \in Nat
                /\ lost = 0 => Order /\ Queue /\ LiveKept
<1>1. Init => J
  <2> SUFFICES ASSUME Init PROVE J
    OBVIOUS
  <2>1. LiveKept
    BY InitialView DEF LiveKept
  <2>2. lost \in Nat
    BY DEF Init
  <2> QED BY <2>1, <2>2, ViewInvInit, OrderInit
<1>2. J /\ [Next]_vars => J'
  <2> SUFFICES ASSUME J, [Next]_vars PROVE J'
    OBVIOUS
  <2>1. ViewInv' /\ Inv /\ Inv'
    BY ViewInvNext DEF ViewInv
  <2>2. lost' \in Nat /\ (lost' = 0 => InTime /\ lost = 0)
    BY NothingLost
  <2>3. CASE lost' = 0
    <3>1. InTime /\ Order /\ Queue /\ LiveKept
      BY <2>2, <2>3
    <3>2. Order' /\ Queue'
      BY <2>1, <3>1, OrderNext, QueueNext
    <3>3. LiveKept'
      BY <2>1, <3>1, LiveNext
    <3> QED BY <2>1, <2>2, <3>2, <3>3
  <2> QED BY <2>1, <2>2, <2>3
<1>3. J => LiveUnlessLost
  <2>1. ASSUME lost \in Nat, lost # 0 PROVE lost > 0
    BY <2>1
  <2> QED BY <2>1 DEF LiveUnlessLost, LiveKept
<1> QED BY <1>1, <1>2, <1>3, PTL DEF Spec

-----------------------------------------------------------------------------
(* Negative records, and blocks that are not given back. *)

(* There is a negative record of an lba only if the collector hid one. *)
NoNegAt(k) ==
  negated[k] = 0 => ~mem.ents[k].neg /\ ~imm.ents[k].neg /\ \A f \in Taken : ~NegIn(f, k)

NoNeg == \A k \in Lbas : NoNegAt(k)

LEMMA NegNone ==
  /\ \A k \in Lbas : NoTable.ents[k].neg = FALSE /\ EmptyTable.ents[k].neg = FALSE
  /\ \A m : \A i \in 1 .. NrFull(m) + 1 : \A k \in Lbas : Outputs(m)[i][k].neg = FALSE
<1>1. \A k \in Lbas : NoTable.ents[k].neg = FALSE /\ EmptyTable.ents[k].neg = FALSE
  BY DEF NoTable, EmptyTable, NoEntries, NoRecord
<1>2. ASSUME NEW m, NEW i \in 1 .. NrFull(m) + 1, NEW k \in Lbas PROVE Outputs(m)[i][k].neg = FALSE
  <2>1. Outputs(m)[i][k] = IF k \in DOMAIN m /\ m[k].add # 0 /\ Builder(m, k) = i
                           THEN [val |-> m[k].add, neg |-> FALSE] ELSE NoRecord
    BY DEF Outputs
  <2> QED BY <2>1 DEF NoRecord
<1> QED BY <1>1, <1>2

LEMMA NoNegPut ==
  ASSUME Inv, NoNeg, NEW k \in Lbas, NEW x \in Lbas, Put(x) \/ PutNegative(x)
  PROVE  NoNegAt(k)'
<1>1. Quiet /\ NoNegAt(k)
  BY QuietSteps DEF NoNeg
<1>2. imm' = imm /\ Taken' = Taken /\ \A f : NegIn(f, k)' = NegIn(f, k)
  BY <1>1 DEF Put, PutNegative, Quiet, Taken, NegIn
<1>3. /\ mem \in Tables /\ mem.size = NrRecord(mem.ents) /\ n \in Nat /\ mem.ents \in [Lbas -> Records]
      /\ negated \in [Lbas -> Nat]
  BY DEF Inv, MemOK, RecordsOK, Tables, Entries
<1>4. CASE Put(x)
  <2>1. mem' = MemPut(x, n + 1) /\ n + 1 \in Nat \ {0} /\ negated' = negated
    BY <1>3, <1>4 DEF Put
  <2>2. mem'.ents = [mem.ents EXCEPT ![x] = [val |-> n + 1, neg |-> mem.ents[x].neg]]
    BY <1>3, <2>1, MemPutIs
  <2>3. mem'.ents[k].neg = mem.ents[k].neg
    BY <1>3, <2>2
  <2> QED BY <1>1, <1>2, <2>1, <2>3 DEF NoNegAt
<1>5. CASE PutNegative(x)
  <2>1. mem' = MemPutNegative(x) /\ negated' = [negated EXCEPT ![x] = @ + 1]
    BY <1>5 DEF PutNegative
  <2>2. CASE k = x
    <3>1. negated'[k] # 0
      BY <1>3, <2>1, <2>2
    <3> QED BY <3>1 DEF NoNegAt
  <2>3. CASE k # x
    <3>1. mem'.ents[k] = mem.ents[k]
      BY <1>5, <2>3, PutEntries
    <3>2. negated'[k] = negated[k]
      BY <1>3, <2>1, <2>3
    <3> QED BY <1>1, <1>2, <3>1, <3>2 DEF NoNegAt
  <2> QED BY <2>2, <2>3
<1> QED BY <1>4, <1>5

LEMMA NoNegMinor ==
  ASSUME Inv, NEW k \in Lbas, NoNegAt(k), Minor
  PROVE  NoNegAt(k)'
<1>1. MemOK /\ Disk
  BY DEF Inv
<1> DEFINE es == IF imm = NoTable THEN mem.ents ELSE imm.ents
<1>2. /\ mem' = IF imm = NoTable THEN EmptyTable ELSE mem
      /\ imm' = imm /\ negated' = negated
  BY <1>1, MinorIs
<1>3. PICK f : Writes(f, es)
  BY <1>1, MinorIs
<1>4. Taken' = Taken \cup {f} /\ (\A g \in Taken : NegIn(g, k)' = NegIn(g, k)) /\ NegIn(f, k)' = es[k].neg
  BY <1>3, TakenIs DEF Writes, NegIn
<1> QED BY <1>2, <1>4, NegNone DEF NoNegAt

LEMMA NoNegMerge ==
  ASSUME Inv, NEW k \in Lbas, NoNegAt(k), MergeFiles
  PROVE  NoNegAt(k)'
<1>1. Disk
  BY DEF Inv
<1>2. PICK m, a, rel : Merges(m, a, rel)
  BY <1>1, MergeFilesIs
<1>3. Taken' = Taken \cup Range(a.fds) /\ \A f \in Taken : files'[f] = files[f]
  BY <1>1, <1>2, MergeWrites
<1>4. UNCHANGED <<mem, imm, negated>>
  BY DEF MergeFiles, Compact
<1>5. ASSUME NEW f \in Range(a.fds) PROVE NegIn(f, k)' = FALSE
  <2>4. a.fds \in Seq(Fds) /\ Len(a.fds) = NrFull(m) + 1
    BY <1>1, <1>2, MergeWrites
  <2>5. Range(a.fds) = {a.fds[i] : i \in 1 .. NrFull(m) + 1}
    BY <2>4, RangeIs
  <2>1. PICK i \in 1 .. NrFull(m) + 1 : f = a.fds[i]
    BY <2>5
  <2>2. files'[f] = [level |-> 1, ver |-> version + i - 1, ents |-> Outputs(m)[i]]
    BY <1>2, <2>1 DEF Merges
  <2>3. files'[f].ents = Outputs(m)[i]
    BY <2>2
  <2> QED BY <2>1, <2>3, NegNone DEF NegIn
<1>6. \A f \in Taken : NegIn(f, k)' = NegIn(f, k)
  BY <1>3 DEF NegIn
<1> QED BY <1>3, <1>4, <1>5, <1>6 DEF NoNegAt

(* The other steps write no record. *)
LEMMA NoNegShrinks ==
  ASSUME NEW k \in Lbas, NoNegAt(k), negated' = negated,
         mem' = mem \/ mem' = EmptyTable, imm' \in {imm, mem, NoTable},
         Taken' \subseteq Taken, \A f \in Taken' : files'[f].ents = files[f].ents
  PROVE  NoNegAt(k)'
<1>1. \A f \in Taken' : NegIn(f, k)' = NegIn(f, k)
  BY DEF NegIn
<1> QED BY <1>1, NegNone DEF NoNegAt

(* The files after a step that writes none. *)
LEMMA FilesShrink ==
  ASSUME Inv, \/ DropDemoted \/ DropRelative \/ MoveAdd \/ files' = files
  PROVE  Taken' \subseteq Taken /\ \A f \in Taken' : files'[f].ents = files[f].ents
<1>1. files \in [Fds -> FileTypes] /\ Disk
  BY DEF Inv, Disk, DiskTypes
<1>2. CASE files' = files
  BY <1>2 DEF Taken
<1>3. ASSUME NEW d, files' = [files EXCEPT ![d] = NoFile]
      PROVE  Taken' \subseteq Taken /\ \A f \in Taken' : files'[f].ents = files[f].ents
  <2>1. \A f \in Fds : files'[f] = IF f = d THEN NoFile ELSE files[f]
    BY <1>1, <1>3
  <2> QED BY <2>1 DEF Taken
<1>4. CASE DropDemoted \/ DropRelative
  BY <1>3, <1>4 DEF DropDemoted, DropRelative
<1>5. CASE MoveAdd
  <2> DEFINE d == l0[1]
             g == [level |-> 1, ver |-> version, ents |-> files[d].ents]
  <2>1. job.pc = "major" /\ Len(l0) > 0 /\ files' = [files EXCEPT ![d] = g]
    BY <1>5 DEF MoveAdd, Major
  <2>2. d \in Taken
    BY <1>1, <2>1, MajorFinds
  <2>3. g.ents = files[d].ents
    OBVIOUS
  <2> HIDE DEF g
  <2>4. \A f \in Fds : files'[f] = IF f = d THEN g ELSE files[f]
    BY <1>1, <2>1
  <2> QED BY <2>2, <2>3, <2>4 DEF Taken
<1> QED BY <1>2, <1>4, <1>5

LEMMA NoNegNext ==
  ASSUME Inv, NoNeg, [Next]_vars
  PROVE  NoNeg'
<1> SUFFICES ASSUME NEW k \in Lbas PROVE NoNegAt(k)'
  BY DEF NoNeg
<1>1. NoNegAt(k) /\ MemOK /\ Disk
  BY DEF NoNeg, Inv
<1>2. CASE \E x \in Lbas : Put(x) \/ PutNegative(x)
  BY <1>2, NoNegPut
<1>3. CASE Minor
  BY <1>1, <1>3, NoNegMinor
<1>4. CASE MergeFiles
  BY <1>1, <1>4, NoNegMerge
<1>5. CASE DropDemoted \/ DropRelative \/ MoveAdd
  <2>1. UNCHANGED <<mem, imm, negated>>
    BY <1>5 DEF DropDemoted, DropRelative, MoveAdd, Compact
  <2> QED BY <1>1, <1>5, <2>1, FilesShrink, NoNegShrinks
<1>6. CASE WorkerStart \/ SkipMajor \/ LevelFull \/ MoveRemove \/ Install
  <2>1. UNCHANGED <<mem, imm, negated, files>>
    BY <1>6 DEF WorkerStart, SkipMajor, LevelFull, MoveRemove, Install, Compact, index, disk
  <2> QED BY <1>1, <2>1, FilesShrink, NoNegShrinks
<1>7. CASE Rotate \/ CloseMemtable \/ CloseEnd \/ Open
  <2>1. /\ mem' = mem \/ mem' = EmptyTable
        /\ imm' \in {imm, mem, NoTable} /\ negated' = negated /\ files' = files
    BY <1>7 DEF Rotate, CloseMemtable, CloseEnd, Open, index, disk
  <2> QED BY <1>1, <2>1, FilesShrink, NoNegShrinks
<1>8. CASE Close \/ Searching \/ UNCHANGED vars
  <2>1. UNCHANGED <<mem, imm, negated, files>>
    BY <1>8 DEF Close, vars, index, disk, Searching, SearchMem, SearchImm, SearchCopy,
                SearchLevel0, SearchLevel1, RangeMem, RangeImm, RangeLevel0, RangeLevel1, Search
  <2> QED BY <1>1, <2>1, FilesShrink, NoNegShrinks
<1> QED BY <1>2, <1>3, <1>4, <1>5, <1>6, <1>7, <1>8 DEF Next, Compaction

(* A file is released only after the output of its merge was installed. *)
Drops(d) ==
  /\ d \in Taken \ Output /\ Output \subseteq Taken /\ Output' = Output
  /\ Range(job'.rel) \subseteq Range(job.rel) \ {d}
  /\ files'[d] = NoFile /\ \A f \in Fds \ {d} : files'[f] = files[f]
  /\ \/ job.pc = "dropdem" /\ l0 # <<>> /\ d = l0[1]
     \/ job.pc = "droprel" /\ d \in Range(job.rel)

LEMMA DropsDemoted ==
  ASSUME Disk, DropDemoted
  PROVE  Drops(l0[1])
<1> DEFINE d == l0[1]
<1>1. /\ job.pc = "dropdem" /\ files' = [files EXCEPT ![job.dem[1]] = NoFile]
      /\ job' = [job EXCEPT !.dem = <<>>, !.pc = "droprel"] /\ l1' = l1
  BY DEF DropDemoted
<1>2. /\ l0 \in Seq(Fds) /\ Len(l0) <= 1 /\ l0 # <<>> /\ job.dem = l0 /\ job \in Jobs
      /\ Range(l0) \cap Held = {} /\ files \in [Fds -> FileTypes] /\ Taken = Range(l0) \cup Held
      /\ Range(job.rel) \subseteq Range(l1)
  BY <1>1 DEF Disk, JobOK, LevelsOK, DiskTypes
<1>3. Range(l0) = {d} /\ d \in Fds
  BY <1>2, OneFile
<1>4. job'.rel = job.rel /\ job'.adds = job.adds
  BY <1>1, <1>2 DEF Jobs
<1>5. Output' = Output /\ Output \subseteq Held /\ Range(job.rel) \subseteq Held
  BY <1>1, <1>2, <1>4 DEF Output, Held
<1>6. files'[d] = NoFile /\ \A f \in Fds \ {d} : files'[f] = files[f]
  BY <1>1, <1>2, <1>3
<1> QED BY <1>1, <1>2, <1>3, <1>4, <1>5, <1>6 DEF Drops

LEMMA DropsRelative ==
  ASSUME Disk, DropRelative
  PROVE  Drops(job.rel[1])
<1> DEFINE r == job.rel[1]
<1>1. /\ job.pc = "droprel" /\ l1' = RemoveFile(l1, r) /\ files' = [files EXCEPT ![r] = NoFile]
      /\ job' = [job EXCEPT !.rel = Tail(@), !.pc = IF Len(job.rel) = 1 THEN "minor" ELSE @]
  BY DEF DropRelative
<1>2. /\ job \in Jobs /\ job.rel \in Seq(Fds) /\ job.rel # <<>> /\ Distinct(job.rel)
      /\ l1 \in Seq(Fds) /\ Distinct(l1) /\ files \in [Fds -> FileTypes]
      /\ Taken = Range(l0) \cup Held
  BY <1>1 DEF Disk, DiskTypes, JobOK, Merging, Jobs, LevelsOK
<1>3. /\ r \in Fds /\ Range(job.rel) = {r} \cup Range(Tail(job.rel)) /\ r \notin Range(Tail(job.rel))
  BY <1>2, SeqSplit
<1> HIDE DEF r
<1>4. job'.rel = Tail(job.rel) /\ job'.adds = job.adds /\ job.adds = <<>>
  BY <1>1, <1>2 DEF Jobs, Disk, JobOK
<1>5. r \in Range(l1)
  BY <1>3 DEF Disk, JobOK
<1>6. Range(l1') = Range(l1) \ {r}
  BY <1>1, <1>2, <1>5, RemoveFileIs
<1>7. Output = Range(l1) \ Range(job.rel) /\ Output' = Range(l1') \ Range(job'.rel) /\ Range(l1) \subseteq Held
  BY <1>4, EmptyRange DEF Output, Held
<1>8. Output' = Output /\ r \notin Output /\ r \in Taken /\ Output \subseteq Taken
  BY <1>2, <1>3, <1>4, <1>5, <1>6, <1>7
<1>9. files'[r] = NoFile /\ \A f \in Fds \ {r} : files'[f] = files[f]
  BY <1>1, <1>2, <1>3
<1>10. Drops(r)
  BY <1>1, <1>3, <1>4, <1>8, <1>9 DEF Drops
<1> QED BY <1>10 DEF r

LEMMA DropTakes ==
  ASSUME NEW d, Drops(d)
  PROVE  Taken' = Taken \ {d}
<1>1. \A f \in Fds : files'[f] # NoFile <=> f # d /\ files[f] # NoFile
  BY DEF Drops
<1> QED BY <1>1 DEF Taken

LEMMA MoveAddFiles ==
  ASSUME Disk, MoveAdd
  PROVE  Taken' = Taken /\ \A f \in Taken : files'[f].ents = files[f].ents
<1> DEFINE d == l0[1]
           g == [level |-> 1, ver |-> version, ents |-> files[d].ents]
<1>1. job.pc = "major" /\ Len(l0) > 0 /\ files' = [files EXCEPT ![d] = g] /\ files \in [Fds -> FileTypes]
  BY DEF MoveAdd, Major, Disk, DiskTypes
<1>2. d \in Taken
  BY <1>1, MajorFinds
<1>3. g.ents = files[d].ents /\ g # NoFile
  BY DEF NoFile
<1> HIDE DEF g
<1>4. \A f \in Fds : files'[f] = IF f = d THEN g ELSE files[f]
  BY <1>1
<1> QED BY <1>2, <1>3, <1>4 DEF Taken

(* A record of a merged file whose block was not given back is in the      *)
(* output.                                                                 *)
MergeKept ==
  job.pc \in {"install", "dropdem", "droprel", "empty"} =>
    \A r \in Range(job.rel), k \in Lbas, b \in 1 .. n :
      ValIn(r, k) = b /\ rit[b] = k /\ negated[k] = 0 => \E f \in Output : ValIn(f, k) = b

(* The blocks that are not given back, except the one of a new record. *)
Fewer ==
  \A k \in Lbas, b \in 1 .. n' : rit'[b] = k /\ negated'[k] = 0 =>
    negated[k] = 0 /\ ((b \in 1 .. n /\ rit[b] = k) \/ b = n + 1)

LEMMA FewerNext ==
  ASSUME Inv, [Next]_vars
  PROVE  Fewer
<1>1. /\ rit \in Seq(Lbas \cup {INF}) /\ Len(rit) = n /\ n \in Nat /\ Disk
      /\ negated \in [Lbas -> Nat] /\ INF \notin Lbas
  <2>1. INF \notin Lbas
    BY LsmAssumption DEF INF, Lbas
  <2> QED BY <2>1 DEF Inv, RecordsOK
<1>2. ASSUME UNCHANGED <<n, rit, negated>> PROVE Fewer
  BY <1>2 DEF Fewer
<1>3. ASSUME NEW bs, rit' = GiveBack(rit, bs), n' = n, \A k \in Lbas : negated'[k] = 0 => negated[k] = 0 PROVE Fewer
  <2>1. \A b \in 1 .. n : rit'[b] = IF b \in bs THEN INF ELSE rit[b]
    BY <1>3, GivesBack
  <2> QED BY <1>1, <1>3, <2>1 DEF Fewer
<1>4. ASSUME NEW x \in Lbas, Put(x) PROVE Fewer
  <2>1. PICK bs : n' = n + 1 /\ rit' = Append(GiveBack(rit, bs), x) /\ negated' = negated
    BY <1>4 DEF Put
  <2>2. GiveBack(rit, bs) \in Seq(Lbas \cup {INF}) /\ Len(GiveBack(rit, bs)) = n
    BY GivesBack
  <2>3. \A b \in 1 .. n : GiveBack(rit, bs)[b] = IF b \in bs THEN INF ELSE rit[b]
    BY GivesBack
  <2>4. \A b \in 1 .. n : rit'[b] = GiveBack(rit, bs)[b]
    BY <2>1, <2>2
  <2>5. \A b \in 1 .. n + 1 : b \in 1 .. n \/ b = n + 1
    BY <1>1
  <2> QED BY <1>1, <2>1, <2>3, <2>4, <2>5 DEF Fewer
<1>5. ASSUME NEW x \in Lbas, PutNegative(x) PROVE Fewer
  <2>1. rit' = GiveBack(rit, {View(x)}) /\ n' = n /\ negated' = [negated EXCEPT ![x] = @ + 1]
    BY <1>5 DEF PutNegative
  <2>2. \A k \in Lbas : negated'[k] = 0 => negated[k] = 0
    BY <1>1, <2>1
  <2> QED BY <1>3, <2>1, <2>2
<1>6. CASE MergeFiles
  <2>1. PICK m, a, rel : Merges(m, a, rel)
    BY <1>1, <1>6, MergeFilesIs
  <2>2. rit' = GiveBack(rit, GivenBack(m)) /\ n' = n /\ negated' = negated
    BY <1>6, <2>1 DEF Merges, MergeFiles, Compact
  <2> QED BY <1>3, <2>2
<1>7. CASE \/ WorkerStart \/ SkipMajor \/ LevelFull \/ MoveAdd \/ MoveRemove \/ Install
           \/ DropDemoted \/ DropRelative \/ Minor
  <2>1. UNCHANGED <<n, rit, negated>>
    BY <1>7 DEF WorkerStart, SkipMajor, LevelFull, MoveAdd, MoveRemove, Install, DropDemoted, DropRelative, Minor,
                Compact, index
  <2> QED BY <1>2, <2>1
<1>8. CASE Rotate \/ Close \/ CloseMemtable \/ CloseEnd \/ Open \/ Searching \/ UNCHANGED vars
  <2>1. UNCHANGED <<n, rit, negated>>
    BY <1>8 DEF Rotate, Close, CloseMemtable, CloseEnd, Open, vars, Searching, SearchMem, SearchImm, SearchCopy,
                SearchLevel0, SearchLevel1, RangeMem, RangeImm, RangeLevel0, RangeLevel1, Search, index
  <2> QED BY <1>2, <2>1
<1> QED BY <1>4, <1>5, <1>6, <1>7, <1>8 DEF Next, Compaction

LEMMA MergeKeptWritten ==
  ASSUME Inv, NoNeg, MergeFiles
  PROVE  MergeKept'
<1>1. Disk /\ INF \notin Lbas /\ n \in Nat
  <2>1. INF \notin Lbas
    BY LsmAssumption DEF INF, Lbas
  <2> QED BY <2>1 DEF Inv, RecordsOK
<1>2. PICK m, a, rel : Merges(m, a, rel)
  BY <1>1, MergeFilesIs
<1>3. /\ rit' = GiveBack(rit, GivenBack(m)) /\ job'.rel = rel /\ l0' = l0 /\ rel = Relatives(l1, l0)
      /\ job'.pc \in {"install", "empty"} /\ MergedTo(m, l0, rel) /\ n' = n /\ negated' = negated
  BY <1>2 DEF Merges, MergeFiles, Compact
<1>4. MergeOut'
  BY <1>1, MergeOutWritten
<1>5. \A f \in Taken : files'[f] = files[f]
  BY <1>1, <1>2, MergeWrites
<1>6. job.pc = "major" /\ Len(l0) > 0
  BY <1>1, MergeFilesIs
<1> DEFINE d == l0[1]
<1>7. d \in Taken /\ Sectioned(rel, l1, d, Taken)
  BY <1>1, <1>3, <1>6, MajorFinds
<1>8. Range(rel) \subseteq Taken
  BY <1>1, <1>7, DiskTaken DEF Sectioned
<1> SUFFICES ASSUME NEW r \in Range(rel), NEW k \in Lbas, NEW b \in 1 .. n,
                    ValIn(r, k)' = b, rit'[b] = k, negated[k] = 0
             PROVE  \E f \in Output' : ValIn(f, k)' = b
  BY <1>3 DEF MergeKept
<1>9. ValIn(r, k) = b /\ b > 0
  BY <1>1, <1>5, <1>8 DEF ValIn
<1>10. files[r].ents \in Entries /\ files[d].ents \in Entries
  BY <1>1, <1>7, <1>8, TakenIs DEF Disk, DiskTypes, FileTypes
<1>11. k \in KeysIn(files[r].ents)
  BY <1>9, <1>10, FirstOf DEF ValIn
<1>12. ~NegIn(d, k) /\ ~NegIn(r, k)
  BY <1>7, <1>8 DEF NoNeg, NoNegAt
<1>13. k \notin KeysIn(files[d].ents)
  <2> SUFFICES ASSUME k \in KeysIn(files[d].ents) PROVE FALSE
    OBVIOUS
  <2>1. m[k].back = b
    BY <1>3, <1>9, <1>11, <1>12 DEF MergedTo, Superseded
  <2>2. k \in DOMAIN m
    BY <1>3, <1>11 DEF MergedTo, KeysOf
  <2>3. rit'[b] = IF b \in GivenBack(m) THEN INF ELSE rit[b]
    BY <1>3, GivesBack
  <2>4. rit[b] = k
    BY <1>1, <2>3
  <2>5. b \in GivenBack(m)
    BY <1>9, <2>1, <2>2, <2>4 DEF GivenBack
  <2> QED BY <1>1, <2>3, <2>5
<1>14. Has(files', r, k) /\ ~Has(files', l0'[1], k) /\ ValIn(r, k)' # 0
  BY <1>1, <1>3, <1>5, <1>7, <1>8, <1>9, <1>11, <1>13 DEF Has
<1>15. PICK f \in Output' : Has(files', f, k)
  BY <1>3, <1>4, <1>14 DEF MergeOut
<1>16. ValIn(f, k)' = ValIn(r, k)'
  BY <1>3, <1>4, <1>14, <1>15 DEF MergeOut
<1> QED BY <1>15, <1>16

LEMMA MergeKeptSame ==
  ASSUME Inv, Order, MergeKept, Fewer, UNCHANGED files, Output' = Output, job'.rel = job.rel,
         n' \in {n, n + 1},
         job'.pc \in {"install", "dropdem", "droprel", "empty"} => job.pc \in {"install", "dropdem", "droprel", "empty"}
  PROVE  MergeKept'
<1> SUFFICES ASSUME job'.pc \in {"install", "dropdem", "droprel", "empty"},
                    NEW r \in Range(job.rel), NEW k \in Lbas, NEW b \in 1 .. n',
                    ValIn(r, k)' = b, rit'[b] = k, negated'[k] = 0
             PROVE  \E f \in Output : ValIn(f, k)' = b
  BY DEF MergeKept
<1>1. \A f : ValIn(f, k)' = ValIn(f, k)
  BY DEF ValIn
<1>2. Range(job.rel) \subseteq Taken
  BY DiskTaken DEF Inv, Disk, JobOK
<1>3. ValIn(r, k) <= n /\ n \in Nat
  BY <1>2, ValTypes DEF Order, OrderAt
<1>4. b # n + 1
  BY <1>1, <1>3
<1>5. b \in 1 .. n /\ rit[b] = k /\ negated[k] = 0
  BY <1>4 DEF Fewer
<1> QED BY <1>1, <1>5 DEF MergeKept

LEMMA MergeKeptNext ==
  ASSUME Inv, Order, NoNeg, MergeKept, [Next]_vars
  PROVE  MergeKept'
<1>1. MemOK /\ Disk /\ job \in Jobs /\ Fewer
  BY FewerNext DEF Inv, Disk, DiskTypes
<1>2. CASE MergeFiles
  BY <1>2, MergeKeptWritten
<1>3. CASE Install
  <2>1. /\ job.pc = "install" /\ UNCHANGED files /\ job'.rel = job.rel /\ Output' = Output
    BY <1>1, <1>3, InstallIs
  <2>2. n' = n
    BY <1>3 DEF Install, Compact
  <2> QED BY <1>1, <2>1, <2>2, MergeKeptSame
<1>4. CASE \/ \E k \in Lbas : Put(k) \/ PutNegative(k)
           \/ Rotate \/ Searching \/ Close \/ CloseEnd \/ UNCHANGED vars
  <2>1. UNCHANGED <<files, job, l1>>
    BY <1>4, QuietSteps DEF Quiet
  <2>2. n' \in {n, n + 1}
    BY <1>4 DEF Put, PutNegative, Rotate, Close, CloseEnd, vars, index, Searching, SearchMem, SearchImm, SearchCopy,
                SearchLevel0, SearchLevel1, RangeMem, RangeImm, RangeLevel0, RangeLevel1, Search
  <2>3. Output' = Output
    BY <2>1 DEF Output, Held
  <2> QED BY <1>1, <2>1, <2>2, <2>3, MergeKeptSame
<1>5. CASE DropDemoted \/ DropRelative
  <2>1. PICK d : Drops(d)
    BY <1>1, <1>5, DropsDemoted, DropsRelative
  <2>2. n' = n
    BY <1>5 DEF DropDemoted, DropRelative, Compact
  <2>3. \A f \in Range(job.rel) \cup Output : f # d => files'[f] = files[f]
    <3>1. Range(job.rel) \subseteq Taken
      BY <1>1, DiskTaken DEF Disk, JobOK
    <3> QED BY <2>1, <3>1, TakenIs DEF Drops
  <2>4. job.pc \in {"install", "dropdem", "droprel", "empty"}
    BY <2>1 DEF Drops
  <2>5. UNCHANGED <<rit, negated>>
    BY <1>5 DEF DropDemoted, DropRelative, Compact
  <2>6. ASSUME NEW r \in Range(job'.rel), NEW k \in Lbas, NEW b \in 1 .. n,
               ValIn(r, k)' = b, rit[b] = k, negated[k] = 0
        PROVE  \E f \in Output : ValIn(f, k)' = b
    <3>1. r \in Range(job.rel) /\ r # d /\ d \notin Output
      BY <2>1 DEF Drops
    <3>2. ValIn(r, k) = b
      BY <2>3, <2>6, <3>1 DEF ValIn
    <3>3. PICK f \in Output : ValIn(f, k) = b
      BY <2>4, <2>6, <3>1, <3>2 DEF MergeKept
    <3> QED BY <2>3, <3>1, <3>3 DEF ValIn
  <2>7. Output' = Output
    BY <2>1 DEF Drops
  <2> QED BY <2>2, <2>5, <2>6, <2>7 DEF MergeKept
<1>6. CASE WorkerStart \/ SkipMajor \/ LevelFull \/ MoveAdd \/ MoveRemove \/ CloseMemtable
  <2>1. job'.pc \in {"major", "minor", "level", "move"}
    BY <1>1, <1>6 DEF WorkerStart, SkipMajor, LevelFull, MoveAdd, MoveRemove, CloseMemtable, IdleJob, Jobs
  <2> QED BY <2>1 DEF MergeKept
<1>7. CASE Minor \/ Open
  <2>1. job'.pc = "idle"
    BY <1>1, <1>7, MinorDisk, OpenIs
  <2> QED BY <2>1 DEF MergeKept
<1> QED BY <1>2, <1>3, <1>4, <1>5, <1>6, <1>7 DEF Next, Compaction

(* A record of k in a memtable or a file names block b. *)
NamesAt(k, b) == mem.ents[k].val = b \/ imm.ents[k].val = b \/ \E f \in Taken : ValIn(f, k) = b

Leaks == \A k \in Lbas, b \in 1 .. n : rit[b] = k /\ negated[k] = 0 => NamesAt(k, b)

LEMMA NamesFiles ==
  ASSUME NEW k \in Lbas, NEW b, NamesAt(k, b), UNCHANGED <<mem, imm>>,
         Taken \subseteq Taken', \A f \in Taken : files'[f].ents = files[f].ents
  PROVE  NamesAt(k, b)'
<1>1. \A f \in Taken : ValIn(f, k)' = ValIn(f, k)
  BY DEF ValIn
<1> QED BY <1>1 DEF NamesAt

(* The immutable memtable goes only once it is on disk. *)
LEMMA NamesTables ==
  ASSUME Inv, Backed, InTime, NEW k \in Lbas, NEW b \in 1 .. n, NamesAt(k, b),
         Rotate \/ CloseMemtable \/ CloseEnd
  PROVE  NamesAt(k, b)'
<1>1. files' = files /\ imm' \in {mem, NoTable} /\ wq = 0 /\ job.pc = "idle"
      /\ (imm' = mem \/ mem' = mem)
  BY DEF Rotate, CloseMemtable, CloseEnd, disk, ImUnlocked, InTime
<1>2. Taken' = Taken /\ \A f : ValIn(f, k)' = ValIn(f, k)
  BY <1>1 DEF Taken, ValIn
<1>3. b # 0
  OBVIOUS
<1>4. CASE imm.ents[k].val = b
  <2>1. imm # NoTable
    BY <1>3, <1>4, NoValue
  <2>2. l0 # <<>> /\ ValIn(l0[1], k) = b
    BY <1>1, <1>4, <2>1 DEF Backed, ValIn
  <2>3. l0[1] \in Taken
    <3>1. l0 \in Seq(Fds) /\ Len(l0) <= 1 /\ Range(l0) \subseteq Taken
      BY DEF Inv, Disk, DiskTypes, LevelsOK
    <3> QED BY <2>2, <3>1, OneFile
  <2> QED BY <1>2, <2>2, <2>3 DEF NamesAt
<1>5. CASE mem.ents[k].val = b
  BY <1>1, <1>5 DEF NamesAt
<1> QED BY <1>2, <1>4, <1>5 DEF NamesAt

LEMMA NamesMinor ==
  ASSUME Inv, NEW k \in Lbas, NEW b \in 1 .. n, NamesAt(k, b), Minor
  PROVE  NamesAt(k, b)'
<1>1. MemOK /\ Disk
  BY DEF Inv
<1> DEFINE es == IF imm = NoTable THEN mem.ents ELSE imm.ents
<1>2. /\ mem' = IF imm = NoTable THEN EmptyTable ELSE mem
      /\ imm' = imm
  BY <1>1, MinorIs
<1>3. PICK f : Writes(f, es)
  BY <1>1, MinorIs
<1>4. Taken' = Taken \cup {f} /\ (\A g \in Taken : ValIn(g, k)' = ValIn(g, k)) /\ ValIn(f, k)' = es[k].val
  BY <1>3, TakenIs DEF Writes, ValIn
<1> QED BY <1>2, <1>4 DEF NamesAt

LEMMA NamesDrop ==
  ASSUME Inv, MergeOut, MergeKept, NEW k \in Lbas, NEW b \in 1 .. n, NamesAt(k, b), rit[b] = k, negated[k] = 0,
         DropDemoted \/ DropRelative
  PROVE  NamesAt(k, b)'
<1>1. Disk
  BY DEF Inv
<1>2. PICK d : Drops(d)
  BY <1>1, DropsDemoted, DropsRelative
<1>3. UNCHANGED <<mem, imm>>
  BY DEF DropDemoted, DropRelative
<1>4. Taken' = Taken \ {d}
  BY <1>2, DropTakes
<1>5. \A f \in Taken' : ValIn(f, k)' = ValIn(f, k)
  BY <1>2, <1>4, TakenIs DEF Drops, ValIn
<1>6. CASE ValIn(d, k) = b
  <2>1. \E f \in Output : ValIn(f, k) = b
    <3>1. CASE job.pc = "dropdem" /\ d = l0[1]
      <4>1. files[d].ents \in Entries
        BY <1>1, <1>2, TakenIs DEF Drops, Disk, DiskTypes, FileTypes
      <4>2. Has(files, d, k) /\ ValIn(d, k) # 0
        BY <1>6, <4>1, FirstOf DEF Has, ValIn
      <4>3. PICK f \in Output : Has(files, f, k)
        BY <3>1, <4>2 DEF MergeOut
      <4>4. ValIn(f, k) = ValIn(d, k)
        BY <3>1, <4>2, <4>3 DEF MergeOut
      <4> QED BY <1>6, <4>4
    <3>2. CASE job.pc = "droprel" /\ d \in Range(job.rel)
      BY <1>6, <3>2 DEF MergeKept
    <3> QED BY <1>2, <3>1, <3>2 DEF Drops
  <2>2. PICK f \in Output : ValIn(f, k) = b
    BY <2>1
  <2>3. f \in Taken'
    BY <1>2, <1>4 DEF Drops
  <2> QED BY <1>5, <2>2, <2>3 DEF NamesAt
<1>7. CASE ValIn(d, k) # b
  <2>1. (\E f \in Taken : ValIn(f, k) = b) => \E f \in Taken' : ValIn(f, k)' = b
    BY <1>4, <1>5, <1>7
  <2> QED BY <1>3, <2>1 DEF NamesAt
<1> QED BY <1>6, <1>7

LEMMA LeaksPut ==
  ASSUME Inv, Leaks, Fewer, NEW x \in Lbas, Put(x) \/ PutNegative(x)
  PROVE  Leaks'
<1>1. Quiet
  BY QuietSteps
<1>2. imm' = imm /\ Taken' = Taken /\ \A f, k : ValIn(f, k)' = ValIn(f, k)
  BY <1>1 DEF Put, PutNegative, Quiet, Taken, ValIn
<1>3. n \in Nat /\ negated \in [Lbas -> Nat] /\ INF \notin Lbas
  <2>1. INF \notin Lbas
    BY LsmAssumption DEF INF, Lbas
  <2> QED BY <2>1 DEF Inv, RecordsOK
<1> SUFFICES ASSUME NEW k \in Lbas, NEW b \in 1 .. n', rit'[b] = k, negated'[k] = 0
             PROVE  NamesAt(k, b)'
  BY DEF Leaks
<1>4. negated[k] = 0 /\ ((b \in 1 .. n /\ rit[b] = k) \/ b = n + 1)
  BY DEF Fewer
<1>5. CASE PutNegative(x)
  <2>1. n' = n /\ negated' = [negated EXCEPT ![x] = @ + 1]
    BY <1>5 DEF PutNegative
  <2>2. k # x
    BY <1>3, <2>1
  <2>3. b \in 1 .. n /\ rit[b] = k
    BY <1>3, <1>4, <2>1
  <2>4. NamesAt(k, b)
    BY <1>4, <2>3 DEF Leaks
  <2>5. mem'.ents[k] = mem.ents[k]
    BY <2>2, PutEntries
  <2> QED BY <1>2, <2>4, <2>5 DEF NamesAt
<1>6. CASE Put(x)
  <2> DEFINE bs == {c \in {mem.ents[x].val} : c # 0 /\ rit[c] = x}
  <2>1. rit' = Append(GiveBack(rit, bs), x) /\ n' = n + 1
    BY <1>6 DEF Put
  <2>2. GiveBack(rit, bs) \in Seq(Lbas \cup {INF}) /\ Len(GiveBack(rit, bs)) = n
    BY GivesBack
  <2>3. \A c \in 1 .. n : GiveBack(rit, bs)[c] = IF c \in bs THEN INF ELSE rit[c]
    BY GivesBack
  <2> HIDE DEF bs
  <2>4. rit'[n + 1] = x /\ \A c \in 1 .. n : rit'[c] = GiveBack(rit, bs)[c]
    BY <1>3, <2>1, <2>2
  <2>5. CASE b = n + 1
    <3>1. k = x /\ mem'.ents[x].val = n + 1
      BY <1>6, <2>4, <2>5, PutEntries
    <3> QED BY <2>5, <3>1 DEF NamesAt
  <2>6. CASE b \in 1 .. n /\ rit[b] = k
    <3>1. NamesAt(k, b) /\ b # 0
      BY <1>4, <2>6 DEF Leaks
    <3>2. b \notin bs
      BY <1>3, <2>3, <2>4, <2>6
    <3>3. mem.ents[k].val = b => k # x
      BY <2>6, <3>1, <3>2 DEF bs
    <3>4. k # x => mem'.ents[k] = mem.ents[k]
      BY PutEntries
    <3> QED BY <1>2, <3>1, <3>3, <3>4 DEF NamesAt
  <2> QED BY <1>4, <2>5, <2>6
<1> QED BY <1>5, <1>6

LEMMA LeaksNext ==
  ASSUME ViewInv, MergeKept, Leaks, InTime, [Next]_vars
  PROVE  Leaks'
<1>1. Inv /\ MergeOut /\ Backed /\ MemOK /\ Disk
  BY DEF ViewInv, Inv
<1>2. Fewer /\ n \in Nat
  BY <1>1, FewerNext DEF Inv, RecordsOK
<1>3. CASE \E x \in Lbas : Put(x) \/ PutNegative(x)
  BY <1>1, <1>2, <1>3, LeaksPut
<1>4. ASSUME n' = n,
             \A k \in Lbas, b \in 1 .. n : NamesAt(k, b) /\ rit[b] = k /\ negated[k] = 0 => NamesAt(k, b)'
      PROVE  Leaks'
  <2> SUFFICES ASSUME NEW k \in Lbas, NEW b \in 1 .. n', rit'[b] = k, negated'[k] = 0
               PROVE  NamesAt(k, b)'
    BY DEF Leaks
  <2>1. negated[k] = 0 /\ ((b \in 1 .. n /\ rit[b] = k) \/ b = n + 1)
    BY <1>2 DEF Fewer
  <2>2. b # n + 1
    BY <1>2, <1>4
  <2> QED BY <1>4, <2>1, <2>2 DEF Leaks
<1>5. CASE Rotate \/ CloseMemtable \/ CloseEnd
  <2>1. n' = n
    BY <1>5 DEF Rotate, CloseMemtable, CloseEnd
  <2> QED BY <1>1, <1>4, <1>5, <2>1, NamesTables
<1>6. CASE Minor
  <2>1. n' = n
    BY <1>6 DEF Minor, Compact
  <2> QED BY <1>1, <1>4, <1>6, <2>1, NamesMinor
<1>7. CASE DropDemoted \/ DropRelative
  <2>1. n' = n
    BY <1>7 DEF DropDemoted, DropRelative, Compact
  <2> QED BY <1>1, <1>4, <1>7, <2>1, NamesDrop
<1>8. CASE MergeFiles
  <2>1. PICK m, a, rel : Merges(m, a, rel)
    BY <1>1, <1>8, MergeFilesIs
  <2>2. Taken' = Taken \cup Range(a.fds) /\ \A f \in Taken : files'[f] = files[f]
    BY <1>1, <2>1, MergeWrites
  <2>3. UNCHANGED <<mem, imm, n>>
    BY <1>8 DEF MergeFiles, Compact
  <2> QED BY <1>4, <2>2, <2>3, NamesFiles
<1>9. CASE MoveAdd
  <2>1. UNCHANGED <<mem, imm, n>>
    BY <1>9 DEF MoveAdd, Compact
  <2> QED BY <1>1, <1>4, <1>9, <2>1, MoveAddFiles, NamesFiles
<1>10. ASSUME UNCHANGED <<mem, imm, n, files>> PROVE Leaks'
  <2>1. Taken' = Taken
    BY <1>10 DEF Taken
  <2> QED BY <1>4, <1>10, <2>1, NamesFiles
<1>11. CASE WorkerStart \/ SkipMajor \/ LevelFull \/ MoveRemove \/ Install \/ Open \/ Close
  <2>1. UNCHANGED <<mem, imm, n, files>>
    BY <1>11 DEF WorkerStart, SkipMajor, LevelFull, MoveRemove, Install, Open, Close, Compact, index, disk
  <2> QED BY <1>10, <2>1
<1>12. CASE Searching \/ UNCHANGED vars
  <2>1. UNCHANGED <<mem, imm, n, files>>
    BY <1>12 DEF vars, index, disk, Searching, SearchMem, SearchImm, SearchCopy,
                SearchLevel0, SearchLevel1, RangeMem, RangeImm, RangeLevel0, RangeLevel1, Search
  <2> QED BY <1>10, <2>1
<1> QED BY <1>3, <1>5, <1>6, <1>7, <1>8, <1>9, <1>11, <1>12 DEF Next, Compaction

(* LeakOnlyNegatedOrLost: a block that is not given back is named by a     *)
(* record of its lba in a memtable or a file, unless the collector has     *)
(* hidden one or a memtable was destroyed with its work still queued: what *)
(* lsm_tree_put replaces and compaction_job_run drops is given back.       *)
THEOREM BlocksNamed == Spec => []LeakOnlyNegatedOrLost
<1> DEFINE J == /\ ViewInv /\ lost \in Nat
                /\ lost = 0 => Order /\ Queue /\ NoNeg /\ MergeKept /\ Leaks
<1>1. Init => J
  <2> SUFFICES ASSUME Init PROVE J
    OBVIOUS
  <2>1. /\ mem = EmptyTable /\ imm = NoTable /\ n = 0 /\ job.pc = "idle" /\ files = [f \in Fds |-> NoFile]
        /\ lost \in Nat
    BY DEF Init, IdleJob
  <2>2. Taken = {}
    BY <2>1 DEF Taken
  <2>3. NoNeg
    BY <2>1, <2>2, NegNone DEF NoNeg, NoNegAt
  <2>4. MergeKept /\ Leaks
    BY <2>1 DEF MergeKept, Leaks
  <2> QED BY <2>1, <2>3, <2>4, ViewInvInit, OrderInit
<1>2. J /\ [Next]_vars => J'
  <2> SUFFICES ASSUME J, [Next]_vars PROVE J'
    OBVIOUS
  <2>1. ViewInv' /\ Inv /\ Inv'
    BY ViewInvNext DEF ViewInv
  <2>2. lost' \in Nat /\ (lost' = 0 => InTime /\ lost = 0)
    BY NothingLost
  <2>3. CASE lost' = 0
    <3>1. InTime /\ Order /\ Queue /\ NoNeg /\ MergeKept /\ Leaks
      BY <2>2, <2>3
    <3>2. Order' /\ Queue'
      BY <2>1, <3>1, OrderNext, QueueNext
    <3>3. NoNeg' /\ MergeKept'
      BY <2>1, <3>1, NoNegNext, MergeKeptNext
    <3>4. Leaks'
      BY <3>1, LeaksNext
    <3> QED BY <2>1, <2>2, <3>2, <3>3, <3>4
  <2> QED BY <2>1, <2>2, <2>3
<1>3. J => LeakOnlyNegatedOrLost
  <2> SUFFICES ASSUME J, NEW b \in DOMAIN rit, rit[b] # INF, negated[rit[b]] = 0, lost = 0
               PROVE  HeldIn(mem.ents, b) \/ HeldIn(imm.ents, b) \/ HeldOnDisk(b)
    BY DEF LeakOnlyNegatedOrLost
  <2>1. rit \in Seq(Lbas \cup {INF}) /\ Len(rit) = n
    BY DEF ViewInv, Inv, RecordsOK
  <2>2. b \in 1 .. n /\ rit[b] \in Lbas
    BY <2>1
  <2>3. NamesAt(rit[b], b)
    BY <2>2 DEF Leaks
  <2> QED BY <2>2, <2>3 DEF NamesAt, HeldIn, HeldOnDisk, ValIn
<1> QED BY <1>1, <1>2, <1>3, PTL DEF Spec

-----------------------------------------------------------------------------
(* Where a compaction leaves defined behaviour. *)

LEMMA TimesNext == ASSUME NEW c \in Nat, NEW i \in Nat PROVE c * (i + 1) = c * i + c /\ c * i \in Nat
OBVIOUS

LEMMA TimesMono ==
  ASSUME NEW c \in Nat, NEW a \in Nat, NEW b \in Nat, a <= b
  PROVE  c * a <= c * b /\ c * a \in Nat /\ c * b \in Nat
<1>1. PICK e \in Nat : b = a + e
  <2>1. b - a \in Nat /\ b = a + (b - a)
    OBVIOUS
  <2> QED BY <2>1
<1>2. c * b = c * a + c * e
  BY <1>1
<1>3. c * a \in Nat /\ c * e \in Nat /\ c * b \in Nat
  OBVIOUS
<1> QED BY <1>2, <1>3

LEMMA DivExact ==
  ASSUME NEW a \in Nat, NEW c \in Nat \ {0}, NEW q \in Nat, c * q <= a, a < c * (q + 1)
  PROVE  a \div c = q
<1> DEFINE z == a \div c
<1>1. z \in Nat /\ a < c * (z + 1)
  BY DivIs
<1>2. z <= q
  BY DivLess
<1> HIDE DEF z
<1>3. ~(z + 1 <= q)
  <2> SUFFICES ASSUME z + 1 <= q PROVE FALSE
    OBVIOUS
  <2>1. c * (z + 1) <= c * q /\ c * (z + 1) \in Nat /\ c * q \in Nat
    BY <1>1, TimesMono
  <2> QED BY <1>1, <2>1
<1>4. z = q
  BY <1>1, <1>2, <1>3
<1> QED BY <1>4 DEF z

(* Files of an ordered level that are full have that many keys. *)
LEMMA FullKeys ==
  ASSUME NEW S, NEW lev \in Seq(S), Ordered(lev), \A f \in S : Spans(f),
         \A f \in S : Capacity <= Cardinality(KeysIn(files[f].ents))
  PROVE  Capacity * Len(lev) <= NrLba
<1> DEFINE Ks(f) == KeysIn(files[f].ents)
           U(i) == UNION {Ks(lev[j]) : j \in 1 .. i}
           P == {i \in 0 .. Len(lev) : IsFiniteSet(U(i)) /\ Capacity * i <= Cardinality(U(i))}
<1>1. Len(lev) \in Nat /\ \A j \in 1 .. Len(lev) : lev[j] \in S
  OBVIOUS
<1>2. Capacity \in Nat /\ NrLba \in Nat
  BY LsmAssumption
<1>3. \A f : IsFiniteSet(Ks(f)) /\ Cardinality(Ks(f)) \in Nat /\ Ks(f) \subseteq Lbas /\ Ks(f) \in SUBSET Nat
  BY KeysInIs
<1>4. 0 \in P
  <2>1. U(0) = {}
    OBVIOUS
  <2>2. Capacity * 0 = 0
    BY <1>2
  <2>3. IsFiniteSet({}) /\ Cardinality({}) = 0
    BY FS_EmptySet
  <2> HIDE DEF U
  <2>4. IsFiniteSet(U(0)) /\ Cardinality(U(0)) = 0
    BY <2>1, <2>3
  <2>5. Capacity * 0 <= Cardinality(U(0))
    BY <2>2, <2>4
  <2> QED BY <1>1, <2>4, <2>5
<1>5. ASSUME NEW i \in 0 .. Len(lev) - 1, i \in P PROVE i + 1 \in P
  <2> DEFINE k == Ks(lev[i + 1])
  <2>1. U(i + 1) = U(i) \cup k
    <3>1. \A j \in 1 .. i + 1 : j \in 1 .. i \/ j = i + 1
      OBVIOUS
    <3>2. i + 1 \in 1 .. i + 1 /\ \A j \in 1 .. i : j \in 1 .. i + 1
      OBVIOUS
    <3> HIDE DEF Ks
    <3> QED BY <3>1, <3>2
  <2>2. lev[i + 1] \in S /\ i + 1 \in 0 .. Len(lev) /\ i \in Nat
    BY <1>1
  <2>3. IsFiniteSet(k) /\ Cardinality(k) \in Nat /\ Capacity <= Cardinality(k)
    BY <1>3, <2>2
  <2>4. IsFiniteSet(U(i)) /\ Capacity * i <= Cardinality(U(i))
    BY <1>5
  <2>5. U(i) \cap k = {}
    <3> SUFFICES ASSUME NEW j \in 1 .. i, NEW x \in Ks(lev[j]), x \in k PROVE FALSE
      OBVIOUS
    <3>1. j \in 1 .. Len(lev) /\ i + 1 \in 1 .. Len(lev) /\ j < i + 1
      BY <1>1
    <3>2. LastKey(lev[j]) < FirstKey(lev[i + 1]) /\ Spans(lev[j]) /\ Spans(lev[i + 1])
      BY <1>1, <3>1 DEF Ordered
    <3>3. x \in Nat
      BY <1>3
    <3>4. x <= LastKey(lev[j]) /\ FirstKey(lev[i + 1]) <= x /\ LastKey(lev[j]) \in Nat /\ FirstKey(lev[i + 1]) \in Nat
      BY <3>2 DEF Spans
    <3> QED BY <3>2, <3>3, <3>4
  <2> HIDE DEF U, k
  <2>6. /\ IsFiniteSet(U(i) \cup k)
        /\ Cardinality(U(i) \cup k) = Cardinality(U(i)) + Cardinality(k) - Cardinality(U(i) \cap k)
    BY <2>3, <2>4, FS_Union
  <2>7. Cardinality(U(i)) \in Nat /\ Cardinality(U(i) \cap k) = 0
    BY <2>4, <2>5, FS_EmptySet, FS_CardinalityType
  <2>8. Capacity * (i + 1) = Capacity * i + Capacity /\ Capacity * i \in Nat
    BY <1>2, <2>2, TimesNext
  <2> DEFINE x == Capacity * i
             y == Capacity * (i + 1)
  <2>9. x \in Nat /\ y = x + Capacity /\ x <= Cardinality(U(i))
    BY <2>4, <2>8
  <2> HIDE DEF x, y
  <2>10. y <= Cardinality(U(i + 1))
    <3> DEFINE u == Cardinality(U(i))
               v == Cardinality(k)
    <3>1. u \in Nat /\ v \in Nat /\ Capacity <= v /\ x <= u
      BY <2>3, <2>7, <2>9
    <3>2. Cardinality(U(i + 1)) = u + v - 0
      BY <2>1, <2>6, <2>7
    <3> HIDE DEF u, v
    <3> QED BY <1>2, <2>9, <3>1, <3>2
  <2> QED BY <2>1, <2>2, <2>6, <2>10 DEF y
<1>6. Len(lev) \in P
  <2>1. \A i \in 0 .. Len(lev) : i \in P
    <3> HIDE DEF P
    <3> QED BY <1>1, <1>4, <1>5, UpTo
  <2>2. Len(lev) \in 0 .. Len(lev)
    BY <1>1
  <2> HIDE DEF P
  <2> QED BY <2>1, <2>2
<1>7. U(Len(lev)) \subseteq Lbas
  BY <1>3
<1> HIDE DEF U
<1>8. Cardinality(U(Len(lev))) <= NrLba /\ Cardinality(U(Len(lev))) \in Nat
  BY <1>7, KeysNat, FS_Subset, FS_CardinalityType
<1>9. Capacity * Len(lev) \in Nat /\ Capacity * Len(lev) <= Cardinality(U(Len(lev)))
  BY <1>1, <1>2, <1>6
<1> QED BY <1>2, <1>8, <1>9

(* The level is full only if one of its files is not. *)
LEMMA LevelFullIf ==
  ASSUME Disk, LevelFull
  PROVE  \E f \in Range(l1) : Cardinality(KeysIn(files[f].ents)) < Capacity
<1>1. job.pc = "major" /\ Len(l0) > 0 /\ Len(l1) >= LevelCapacity
  BY DEF LevelFull
<1>2. l1 \in Seq(Taken) /\ Ordered(l1) /\ \A f \in Taken : Spans(f)
  BY <1>1, MajorFinds
<1>3. l1 \in Seq(Range(l1)) /\ Range(l1) \subseteq Taken
  <2>1. Range(l1) = {l1[i] : i \in 1 .. Len(l1)}
    BY <1>2, RangeIs
  <2>2. \A i \in 1 .. Len(l1) : l1[i] \in Range(l1) /\ l1[i] \in Taken
    BY <1>2, <2>1
  <2> QED BY <1>2, <2>1, <2>2
<1>4. \A f : Cardinality(KeysIn(files[f].ents)) \in Nat
  BY KeysInIs
<1>5. Capacity \in Nat \ {0} /\ NrBlock \in Nat \ {0} /\ NrLba \in Nat /\ NrLba <= NrBlock
  BY LsmAssumption
<1> SUFFICES ASSUME \A f \in Range(l1) : Capacity <= Cardinality(KeysIn(files[f].ents)) PROVE FALSE
  BY <1>4, <1>5
<1>6. Capacity * Len(l1) <= NrLba
  BY <1>2, <1>3, FullKeys
<1> DEFINE q == (NrBlock - 1) \div Capacity
<1>7. q \in Nat /\ NrBlock - 1 < Capacity * (q + 1)
  BY <1>5, DivIs
<1>8. LevelCapacity = q + 2
  BY DEF LevelCapacity
<1> HIDE DEF q
<1>9. Len(l1) \in Nat /\ q + 1 <= Len(l1) - 1 /\ Len(l1) - 1 \in Nat
  BY <1>1, <1>2, <1>7, <1>8
<1>10. Capacity * (q + 1) <= Capacity * (Len(l1) - 1) /\ Capacity * (q + 1) \in Nat /\ Capacity * (Len(l1) - 1) \in Nat
  BY <1>5, <1>7, <1>9, TimesMono
<1>11. Capacity * Len(l1) = Capacity * (Len(l1) - 1) + Capacity
  BY <1>5, <1>9
<1> DEFINE x == Capacity * (q + 1)
           y == Capacity * (Len(l1) - 1)
           z == Capacity * Len(l1)
<1>12. x \in Nat /\ y \in Nat /\ x <= y /\ z = y + Capacity /\ z <= NrLba /\ NrBlock - 1 < x
  BY <1>6, <1>7, <1>10, <1>11
<1> HIDE DEF x, y, z
<1> QED BY <1>5, <1>12

(* Every builder of a merge that hides no record gets a key. *)
LEMMA BuilderUsed ==
  ASSUME NEW m, Yields(m), Added(m) = DOMAIN m, NEW b \in 1 .. NrFull(m) + 1
  PROVE  To(m, b) # {}
<1>1. /\ Max(DOMAIN m) \in DOMAIN m /\ DOMAIN m \in SUBSET Nat /\ Body(m) \subseteq DOMAIN m
      /\ IsFiniteSet(Body(m)) /\ Cardinality(Body(m)) \in Nat /\ NrFull(m) \in Nat
  BY BodyIs
<1>2. CASE b = NrFull(m) + 1
  BY <1>1, <1>2 DEF To, Builder
<1>3. CASE b \in 1 .. NrFull(m)
  <2> SUFFICES ASSUME To(m, b) = {} PROVE FALSE
    OBVIOUS
  <2> DEFINE C == Capacity
             q == b - 1
             low == C * q
             B == Body(m)
             S == {k \in B : Rank(m, k) < low}
             T == {k \in B : ~(Rank(m, k) < low)}
             g == [k \in S |-> Rank(m, k)]
  <2>1. C \in Nat \ {0} /\ q \in Nat /\ q + 1 = b /\ low \in Nat /\ C * (q + 1) = low + C
    BY <1>3, LsmAssumption
  <2>2. \A k \in B : Rank(m, k) \in Nat
    BY <1>1, RankIs
  <2>3. ASSUME NEW k \in T PROVE low + C <= Rank(m, k)
    <3>1. k \in B /\ k \in DOMAIN m /\ k \in Added(m) /\ Rank(m, k) \in Nat /\ low <= Rank(m, k)
      BY <1>1, <2>1, <2>2
    <3> SUFFICES ASSUME Rank(m, k) < low + C PROVE FALSE
      BY <2>1, <3>1
    <3>2. Rank(m, k) \div C = q
      BY <2>1, <3>1, DivExact
    <3>3. Builder(m, k) = Rank(m, k) \div C + 1
      BY <3>1, BuilderIs
    <3>4. Builder(m, k) = b
      BY <2>1, <3>2, <3>3
    <3> QED BY <3>1, <3>4 DEF To
  <2>4. IsFiniteSet(S) /\ Cardinality(S) <= low /\ Cardinality(S) \in Nat
    <3>1. g \in [S -> 0 .. low - 1]
      <4>1. \A k \in S : Rank(m, k) \in 0 .. low - 1
        BY <2>1, <2>2
      <4> QED BY <4>1
    <3>2. ASSUME NEW i \in S, NEW k \in S, i # k PROVE g[i] # g[k]
      <4>1. i \in Nat /\ k \in Nat /\ i \in Added(m) /\ k \in Added(m) /\ i \in DOMAIN m /\ k \in DOMAIN m
        BY <1>1
      <4>2. i < k \/ k < i
        BY <3>2, <4>1
      <4>3. Rank(m, i) \in Nat /\ Rank(m, k) \in Nat
        BY <2>2
      <4>4. (i < k => Rank(m, i) < Rank(m, k)) /\ (k < i => Rank(m, k) < Rank(m, i))
        BY <4>1, RankIs
      <4>5. Rank(m, i) # Rank(m, k)
        BY <4>2, <4>3, <4>4
      <4> QED BY <4>5
    <3>3. g \in Injection(S, 0 .. low - 1)
      <4> HIDE DEF g, S, low
      <4> QED BY <3>1, <3>2 DEF Injection, IsInjective
    <3>4. IsFiniteSet(0 .. low - 1) /\ Cardinality(0 .. low - 1) = low
      <4> HIDE DEF low
      <4>1. CASE low = 0
        <5>1. 0 .. low - 1 = {}
          BY <4>1
        <5> QED BY <4>1, <5>1, FS_EmptySet
      <4>2. CASE low # 0
        <5>1. low - 1 \in Int /\ ~(0 > low - 1) /\ (low - 1) - 0 + 1 = low
          BY <2>1, <4>2
        <5> QED BY <5>1, FS_Interval
      <4> QED BY <4>1, <4>2
    <3> HIDE DEF g, S, low
    <3> QED BY <3>3, <3>4, FS_Injection, FS_CardinalityType
  <2>5. low + C <= Cardinality(B)
    <3>1. C * NrFull(m) <= Cardinality(B)
      BY <1>1, <2>1, DivIs DEF NrFull
    <3>2. C * (q + 1) <= C * NrFull(m) /\ C * (q + 1) \in Nat /\ C * NrFull(m) \in Nat
      BY <1>1, <1>3, <2>1, TimesMono
    <3> DEFINE x == C * NrFull(m)
    <3> HIDE DEF x, low
    <3>3. x <= Cardinality(B) /\ low + C <= x /\ x \in Nat
      BY <2>1, <3>1, <3>2 DEF x
    <3> QED BY <1>1, <2>1, <3>3
  <2>6. T # {}
    <3> SUFFICES ASSUME T = {} PROVE FALSE
      OBVIOUS
    <3>1. B = S
      OBVIOUS
    <3> HIDE DEF S, B, low, C, T
    <3> QED BY <2>1, <2>4, <2>5, <3>1
  <2>7. PICK k \in T : \A y \in T : k <= y
    <3>1. T \in SUBSET Nat
      BY <1>1
    <3> HIDE DEF T
    <3> QED BY <2>6, <3>1, Least
  <2>8. {i \in B : i < k} \subseteq S
    <3> SUFFICES ASSUME NEW i \in B, i < k, i \notin S PROVE FALSE
      OBVIOUS
    <3>1. i \in T /\ i \in Nat /\ k \in Nat
      BY <1>1
    <3> QED BY <2>7, <3>1
  <2>9. Rank(m, k) <= Cardinality(S)
    <3>1. Rank(m, k) = Cardinality({i \in B : i < k})
      BY DEF Rank
    <3> HIDE DEF S
    <3> QED BY <2>4, <2>8, <3>1, FS_Subset
  <2>10. Rank(m, k) \in Nat /\ low + C <= Rank(m, k)
    BY <2>2, <2>3
  <2> HIDE DEF low, C, S
  <2> QED BY <2>1, <2>4, <2>9, <2>10
<1> QED BY <1>1, <1>2, <1>3

(* LevelFull found a level with a file that is not full, and the output of *)
(* a merge has a file without entries only if a record was hidden.         *)
FullOK == job.pc = "level" => \E f \in Range(l1) : Cardinality(KeysIn(files[f].ents)) < Capacity
EmptyOK == job.pc = "empty" => \E k \in Lbas : negated[k] > 0

LEMMA MergeEmpty ==
  ASSUME Inv, NoNeg, MergeFiles
  PROVE  EmptyOK'
<1>1. Disk /\ negated \in [Lbas -> Nat]
  BY DEF Inv, RecordsOK
<1>2. PICK m, a, rel : Merges(m, a, rel)
  BY <1>1, MergeFilesIs
<1>3. /\ MergedTo(m, l0, rel) /\ Yields(m) /\ negated' = negated /\ rel = Relatives(l1, l0)
      /\ job'.pc = IF NoEntries \in Range(Outputs(m)) THEN "empty" ELSE "install"
  BY <1>2 DEF Merges, MergeFiles, Compact
<1> SUFFICES ASSUME job'.pc = "empty", \A k \in Lbas : negated[k] = 0 PROVE FALSE
  BY <1>1, <1>3 DEF EmptyOK
<1>4. NoEntries \in Range(Outputs(m))
  BY <1>3
<1>5. /\ Outputs(m) \in Seq(Entries) /\ Len(Outputs(m)) = NrFull(m) + 1
      /\ \A b \in 1 .. NrFull(m) + 1 : KeysIn(Outputs(m)[b]) = To(m, b)
  BY <1>3, OutputsIs
<1>6. PICK b \in 1 .. NrFull(m) + 1 : Outputs(m)[b] = NoEntries
  <2>1. Range(Outputs(m)) = {Outputs(m)[i] : i \in 1 .. NrFull(m) + 1}
    BY <1>5, RangeIs
  <2> QED BY <1>4, <2>1
<1>7. To(m, b) = {}
  BY <1>5, <1>6, NoEntriesIs
<1>8. job.pc = "major" /\ Len(l0) > 0
  BY <1>1, MergeFilesIs
<1> DEFINE d == l0[1]
<1>9. Range(l0) = {d} /\ d \in Taken /\ Sectioned(rel, l1, d, Taken)
  BY <1>1, <1>3, <1>8, MajorFinds
<1>10. Range(rel) \subseteq Taken
  BY <1>1, <1>9, DiskTaken DEF Sectioned
<1>11. \A f \in Taken : \A k \in KeysIn(files[f].ents) : ValIn(f, k) # 0
  <2> SUFFICES ASSUME NEW f \in Taken, NEW k \in KeysIn(files[f].ents) PROVE ValIn(f, k) # 0
    OBVIOUS
  <2>1. files[f].ents \in Entries /\ k \in Lbas
    BY <1>1, TakenIs DEF Disk, DiskTypes, FileTypes, KeysIn
  <2>2. ~NegIn(f, k)
    BY <2>1 DEF NoNeg, NoNegAt
  <2> QED BY <2>1, <2>2, FirstIs DEF ValIn, NegIn
<1>12. DOMAIN m = KeysIn(files[d].ents) \cup KeysOf(rel)
  BY <1>3, <1>9 DEF MergedTo, KeysOf
<1>13. ASSUME NEW k \in DOMAIN m PROVE m[k].add # 0
  <2>1. CASE k \in KeysIn(files[d].ents)
    BY <1>3, <1>9, <1>11, <2>1 DEF MergedTo
  <2>2. CASE k \notin KeysIn(files[d].ents)
    <3>1. PICK r \in Range(rel) : k \in KeysIn(files[r].ents)
      BY <1>12, <2>2 DEF KeysOf
    <3>2. m[k].add = ValIn(r, k)
      BY <1>3, <2>2, <3>1 DEF MergedTo
    <3> QED BY <1>10, <1>11, <3>1, <3>2
  <2> QED BY <2>1, <2>2
<1>14. Added(m) = DOMAIN m
  BY <1>13 DEF Added
<1> QED BY <1>3, <1>7, <1>14, BuilderUsed

LEMMA StuckNext ==
  ASSUME Inv, NoNeg, FullOK, EmptyOK, [Next]_vars
  PROVE  FullOK' /\ EmptyOK'
<1>1. MemOK /\ Disk /\ job \in Jobs /\ negated \in [Lbas -> Nat]
  BY DEF Inv, RecordsOK, Disk, DiskTypes
<1>2. ASSUME job'.pc \notin {"level", "empty"} PROVE FullOK' /\ EmptyOK'
  BY <1>2 DEF FullOK, EmptyOK
<1>3. CASE MergeFiles
  <2>1. PICK m, a, rel : Merges(m, a, rel)
    BY <1>1, <1>3, MergeFilesIs
  <2>2. job'.pc # "level"
    BY <2>1 DEF Merges
  <2> QED BY <1>3, <2>2, MergeEmpty DEF FullOK
<1>4. CASE LevelFull
  <2>1. job'.pc = "level" /\ UNCHANGED <<files, l1>>
    BY <1>1, <1>4 DEF LevelFull, Jobs, disk
  <2> QED BY <1>1, <1>4, <2>1, LevelFullIf DEF FullOK, EmptyOK
<1>5. CASE \/ \E k \in Lbas : Put(k) \/ PutNegative(k)
           \/ Rotate \/ Searching \/ Close \/ CloseEnd \/ UNCHANGED vars
  <2>1. UNCHANGED <<files, job, l1>>
    BY <1>5, QuietSteps DEF Quiet
  <2>2. negated' = negated \/ \E k \in Lbas : negated' = [negated EXCEPT ![k] = @ + 1]
    BY <1>5 DEF Put, PutNegative, Rotate, Close, CloseEnd, vars, index, Searching, SearchMem, SearchImm, SearchCopy,
                SearchLevel0, SearchLevel1, RangeMem, RangeImm, RangeLevel0, RangeLevel1, Search
  <2>3. \A k \in Lbas : negated[k] > 0 => negated'[k] > 0
    BY <1>1, <2>2
  <2> QED BY <2>1, <2>3 DEF FullOK, EmptyOK
<1>6. CASE Install
  <2>1. job'.pc \in {"install", "dropdem"}
    BY <1>1, <1>6, InstallIs
  <2> QED BY <1>2, <2>1
<1>7. CASE \/ WorkerStart \/ SkipMajor \/ MoveAdd \/ MoveRemove \/ CloseMemtable \/ DropDemoted \/ DropRelative
  <2>1. job'.pc \in {"major", "minor", "move", "droprel"}
    BY <1>1, <1>7 DEF WorkerStart, SkipMajor, MoveAdd, MoveRemove, CloseMemtable, DropDemoted, DropRelative, IdleJob, Jobs
  <2> QED BY <1>2, <2>1
<1>8. CASE Minor \/ Open
  <2>1. job'.pc = "idle"
    BY <1>1, <1>8, MinorDisk, OpenIs
  <2> QED BY <1>2, <2>1
<1> QED BY <1>3, <1>4, <1>5, <1>6, <1>7, <1>8 DEF Next, Compaction

(* UndefinedOnlyIf: lsm_tree_major_compaction recurses to the level that   *)
(* does not exist only if a file of level 1 holds fewer keys than it could,*)
(* and a merge writes a file without entries only after the collector hid a*)
(* record.                                                                 *)
THEOREM UndefinedWhen == Spec => []UndefinedOnlyIf
<1> DEFINE J == Inv /\ NoNeg /\ FullOK /\ EmptyOK
<1>1. Init => J
  <2> SUFFICES ASSUME Init PROVE J
    OBVIOUS
  <2>1. mem = EmptyTable /\ imm = NoTable /\ job.pc = "idle" /\ files = [f \in Fds |-> NoFile]
    BY DEF Init, IdleJob
  <2>2. Taken = {}
    BY <2>1 DEF Taken
  <2>3. NoNeg
    BY <2>1, <2>2, NegNone DEF NoNeg, NoNegAt
  <2> QED BY <2>1, <2>3, InvInit DEF FullOK, EmptyOK
<1>2. J /\ [Next]_vars => J'
  BY InvNext, NoNegNext, StuckNext
<1>3. J => UndefinedOnlyIf
  BY DEF FullOK, EmptyOK, UndefinedOnlyIf
<1> QED BY <1>1, <1>2, <1>3, PTL DEF Spec

-----------------------------------------------------------------------------
(* bit_level_locate_file on a level of disjoint sorted files. *)

Squares(L) == (0 .. L) \X (0 .. L)

LocateFn(b, lev, k) ==
  b = [r \in (0 .. Len(lev)) \X (0 .. Len(lev)) |->
        IF r[1] >= r[2] THEN 0
        ELSE IF CmpKey(k, lev[Mid(r) + 1]) = 0 THEN Mid(r) + 1
        ELSE IF CmpKey(k, lev[Mid(r) + 1]) > 0 THEN b[<<Mid(r) + 1, r[2]>>]
        ELSE b[<<r[1], Mid(r)>>]]

LEMMA LocateIs ==
  ASSUME NEW lev, NEW k
  PROVE  Locate(lev, k) = (CHOOSE b : LocateFn(b, lev, k))[<<0, Len(lev)>>]
BY DEF Locate, LocateFn, Mid

LocateNext(x, lev, k) ==
  IF CmpKey(k, lev[Mid(x) + 1]) > 0 THEN <<Mid(x) + 1, x[2]>> ELSE <<x[1], Mid(x)>>

LEMMA LocateHalves ==
  ASSUME NEW lev, NEW k, NEW L \in Nat, NEW x \in Squares(L), x[1] < x[2]
  PROVE  /\ Halved(x, LocateNext(x, lev, k)) /\ LocateNext(x, lev, k) \in Squares(L)
         /\ Mid(x) \in x[1] .. x[2] - 1 /\ x[1] \in 0 .. L /\ x[2] \in 0 .. L
<1>1. x[1] \in 0 .. L /\ x[2] \in 0 .. L /\ x[2] \in -1 .. L
  BY DEF Squares
<1>2. Mid(x) \in x[1] .. x[2] - 1
  BY <1>1, MidIn DEF Mid
<1>3. Mid(x) \in 0 .. L /\ Mid(x) + 1 \in 0 .. L
  BY <1>1, <1>2
<1> QED BY <1>1, <1>2, <1>3 DEF Halved, LocateNext, Squares

LEMMA LocateFnExists ==
  ASSUME NEW lev, NEW k, Len(lev) \in Nat
  PROVE  \E b : LocateFn(b, lev, k)
<1> DEFINE L == Len(lev)
           D == Squares(L)
           stop == {x \in D : x[1] >= x[2] \/ CmpKey(k, lev[Mid(x) + 1]) = 0}
           nxt == [x \in D |-> IF x \in stop THEN x ELSE LocateNext(x, lev, k)]
           out == [x \in D |-> IF x[1] >= x[2] THEN 0 ELSE Mid(x) + 1]
<1>1. L \in Nat /\ D \in SUBSET Halves(L) /\ stop \in SUBSET D
  BY DEF Halves, Squares
<1>2. ASSUME NEW x \in D \ stop
      PROVE  x[1] < x[2] /\ Halved(x, LocateNext(x, lev, k)) /\ LocateNext(x, lev, k) \in D
  <2>1. x[1] \in Int /\ x[2] \in Int /\ ~(x[1] >= x[2])
    BY <1>2 DEF Squares
  <2>2. x[1] < x[2]
    BY <2>1
  <2> QED BY <2>2, <1>1, LocateHalves
<1>3. nxt \in [D -> D] /\ \A x \in D \ stop : nxt[x] = LocateNext(x, lev, k)
  <2>1. \A x \in D : (IF x \in stop THEN x ELSE LocateNext(x, lev, k)) \in D
    BY <1>2
  <2> HIDE DEF D, stop
  <2> QED BY <2>1, <1>1
<1>4. out \in [D -> Int]
  <2>1. \A x \in D : x[1] \in Int /\ x[2] \in Int
    BY DEF Squares
  <2>2. \A x \in D : Mid(x) \in Int
    BY <2>1 DEF Mid
  <2> QED BY <2>1, <2>2
<1>5. \E b : Tailed(b, D, Int, stop, nxt, out)
  <2> HIDE DEF D, L, stop, nxt, out
  <2> QED BY <1>1, <1>2, <1>3, <1>4, BisectExists
<1>6. PICK b : Tailed(b, D, Int, stop, nxt, out)
  BY <1>5
<1>7. ASSUME NEW x \in D
      PROVE  b[x] = IF x[1] >= x[2] THEN 0
                    ELSE IF CmpKey(k, lev[Mid(x) + 1]) = 0 THEN Mid(x) + 1
                    ELSE IF CmpKey(k, lev[Mid(x) + 1]) > 0 THEN b[<<Mid(x) + 1, x[2]>>]
                    ELSE b[<<x[1], Mid(x)>>]
  <2>1. b[x] = IF x \in stop THEN out[x] ELSE b[nxt[x]]
    BY <1>6 DEF Tailed
  <2>2. x \in stop <=> x[1] >= x[2] \/ CmpKey(k, lev[Mid(x) + 1]) = 0
    OBVIOUS
  <2>3. out[x] = IF x[1] >= x[2] THEN 0 ELSE Mid(x) + 1
    OBVIOUS
  <2>4. x \notin stop => nxt[x] = LocateNext(x, lev, k)
    BY <1>3
  <2> HIDE DEF D, stop, nxt, out
  <2> QED BY <2>1, <2>2, <2>3, <2>4 DEF LocateNext
<1>8. b \in [D -> Int]
  BY <1>6 DEF Tailed
<1>9. LocateFn(b, lev, k)
  BY <1>7, <1>8 DEF LocateFn, Squares
<1> QED BY <1>9

Covers(f, k) == FirstKey(f) <= k /\ k <= LastKey(f)

(* Only the file found can have the key. *)
Only(p, x, lev, k) ==
  p \in 0 .. Len(lev) /\ \A i \in x[1] + 1 .. x[2] : Covers(lev[i], k) => i = p

LEMMA LocateFnResult ==
  ASSUME NEW lev, NEW k \in Int, Len(lev) \in Nat, NEW b, LocateFn(b, lev, k), Ordered(lev),
         \A i \in 1 .. Len(lev) : Spans(lev[i]),
         NEW x \in Squares(Len(lev))
  PROVE  Only(b[x], x, lev, k)
<1> DEFINE L == Len(lev)
           D == Squares(L)
           stop == {y \in D : y[1] >= y[2] \/ CmpKey(k, lev[Mid(y) + 1]) = 0}
           nxt == [y \in D |-> IF y \in stop THEN y ELSE LocateNext(y, lev, k)]
           P == {y \in D : Only(b[y], y, lev, k)}
<1>1. L \in Nat /\ D \in SUBSET Halves(L) /\ stop \in SUBSET D
  BY DEF Halves, Squares
<1>2. ASSUME NEW y \in D
      PROVE  y[1] \in 0 .. L /\ y[2] \in 0 .. L /\ y = <<y[1], y[2]>>
  BY DEF Squares
<1>3. ASSUME NEW y \in D, y[1] < y[2]
      PROVE  /\ Halved(y, LocateNext(y, lev, k)) /\ LocateNext(y, lev, k) \in D
             /\ Mid(y) \in y[1] .. y[2] - 1
  BY <1>1, <1>3, LocateHalves
<1>4. \A y \in D \ stop : y[1] < y[2]
  <2>1. \A y \in D \ stop : y[1] \in Int /\ y[2] \in Int /\ ~(y[1] >= y[2])
    BY <1>2
  <2> QED BY <2>1
<1>5. nxt \in [D -> D] /\ \A y \in D \ stop : nxt[y] = LocateNext(y, lev, k)
  <2>1. \A y \in D : (IF y \in stop THEN y ELSE LocateNext(y, lev, k)) \in D
    BY <1>3, <1>4
  <2> HIDE DEF D, stop
  <2> QED BY <2>1, <1>1
<1>6. ASSUME NEW y \in D
      PROVE  b[y] = IF y[1] >= y[2] THEN 0
                    ELSE IF CmpKey(k, lev[Mid(y) + 1]) = 0 THEN Mid(y) + 1
                    ELSE IF CmpKey(k, lev[Mid(y) + 1]) > 0 THEN b[<<Mid(y) + 1, y[2]>>]
                    ELSE b[<<y[1], Mid(y)>>]
  BY DEF LocateFn, Squares
<1>7. ASSUME NEW i \in 1 .. L
      PROVE  FirstKey(lev[i]) \in Int /\ LastKey(lev[i]) \in Int /\ FirstKey(lev[i]) <= LastKey(lev[i])
  BY DEF Spans
<1>8. ASSUME NEW m \in 1 .. L, NEW i \in 1 .. L, Covers(lev[i], k)
      PROVE  /\ k <= LastKey(lev[m]) => i <= m
             /\ FirstKey(lev[m]) <= k => m <= i
  <2>1. i < m => LastKey(lev[i]) < FirstKey(lev[m])
    BY DEF Ordered
  <2>2. m < i => LastKey(lev[m]) < FirstKey(lev[i])
    BY DEF Ordered
  <2> QED BY <1>7, <1>8, <2>1, <2>2 DEF Covers
<1>9. ASSUME NEW y \in D PROVE \A i \in y[1] + 1 .. y[2] : i \in 1 .. L
  BY <1>2
<1>10. ASSUME NEW y \in stop PROVE y \in P
  <2>1. CASE y[1] >= y[2]
    <3>1. b[y] = 0
      BY <1>6, <2>1
    <3>2. y[1] + 1 .. y[2] = {}
      BY <1>2, <2>1
    <3> QED BY <1>1, <3>1, <3>2 DEF Only
  <2>2. CASE ~(y[1] >= y[2])
    <3> DEFINE m == Mid(y)
    <3>1. CmpKey(k, lev[m + 1]) = 0 /\ b[y] = m + 1
      BY <1>6, <2>2
    <3>2. y[1] < y[2]
      BY <1>2, <2>2
    <3>3. m \in y[1] .. y[2] - 1
      BY <1>3, <3>2
    <3> HIDE DEF m
    <3>4. m + 1 \in 1 .. L
      BY <1>2, <3>3
    <3>5. k >= FirstKey(lev[m + 1]) /\ k <= LastKey(lev[m + 1])
      BY <3>1, <3>4, <1>7 DEF CmpKey
    <3>6. \A i \in 1 .. L : Covers(lev[i], k) => i <= m + 1 /\ m + 1 <= i
      BY <1>8, <3>4, <3>5
    <3>7. \A i \in 1 .. L : Covers(lev[i], k) => i = m + 1
      BY <3>4, <3>6
    <3> QED BY <1>9, <3>1, <3>4, <3>7 DEF Only
  <2> QED BY <2>1, <2>2
<1>11. ASSUME NEW y \in D \ stop, nxt[y] \in P PROVE y \in P
  <2> DEFINE m == Mid(y)
             p == b[y]
  <2>1. y[1] < y[2] /\ y[1] \in 0 .. L /\ y[2] \in 0 .. L /\ ~(y[1] >= y[2]) /\ CmpKey(k, lev[m + 1]) # 0
    BY <1>2, <1>4
  <2>2. m \in y[1] .. y[2] - 1
    BY <1>3, <2>1
  <2>3. nxt[y] = LocateNext(y, lev, k)
    BY <1>5
  <2>4. CASE CmpKey(k, lev[m + 1]) > 0
    <3>1. nxt[y] = <<m + 1, y[2]>>
      BY <2>3, <2>4 DEF LocateNext
    <3>2. b[y] = b[<<m + 1, y[2]>>]
      BY <1>6, <2>1, <2>4
    <3>3. Only(p, <<m + 1, y[2]>>, lev, k)
      BY <1>11, <3>1, <3>2
    <3> HIDE DEF m, p
    <3>4. m + 1 \in 1 .. L
      BY <2>1, <2>2
    <3>5. k > LastKey(lev[m + 1]) /\ k >= FirstKey(lev[m + 1])
      BY <2>1, <2>4, <3>4, <1>7 DEF CmpKey
    <3>6. \A i \in 1 .. L : Covers(lev[i], k) => m + 1 <= i /\ i # m + 1
      BY <1>7, <1>8, <3>4, <3>5 DEF Covers
    <3>7. \A i \in y[1] + 1 .. y[2] : Covers(lev[i], k) => i \in (m + 1) + 1 .. y[2]
      BY <1>9, <2>1, <2>2, <3>4, <3>6
    <3>8. Only(p, y, lev, k)
      BY <3>3, <3>7 DEF Only
    <3> QED BY <3>8 DEF p
  <2>5. CASE ~(CmpKey(k, lev[m + 1]) > 0)
    <3>1. nxt[y] = <<y[1], m>>
      BY <2>3, <2>5 DEF LocateNext
    <3>2. b[y] = b[<<y[1], m>>]
      BY <1>6, <2>1, <2>5
    <3>3. Only(p, <<y[1], m>>, lev, k)
      BY <1>11, <3>1, <3>2
    <3> HIDE DEF m, p
    <3>4. m + 1 \in 1 .. L
      BY <2>1, <2>2
    <3>5. k < FirstKey(lev[m + 1]) /\ k <= LastKey(lev[m + 1])
      BY <2>1, <2>5, <3>4, <1>7 DEF CmpKey
    <3>6. \A i \in 1 .. L : Covers(lev[i], k) => i <= m + 1 /\ i # m + 1
      BY <1>7, <1>8, <3>4, <3>5 DEF Covers
    <3>7. \A i \in y[1] + 1 .. y[2] : Covers(lev[i], k) => i \in y[1] + 1 .. m
      BY <1>9, <2>1, <2>2, <3>4, <3>6
    <3>8. Only(p, y, lev, k)
      BY <3>3, <3>7 DEF Only
    <3> QED BY <3>8 DEF p
  <2> QED BY <2>4, <2>5
<1>12. D \subseteq P
  <2>1. Inherited(P, D, stop, nxt)
    BY <1>10, <1>11 DEF Inherited
  <2>2. \A y \in D \ stop : y[1] < y[2] /\ Halved(y, nxt[y])
    BY <1>3, <1>4, <1>5
  <2> HIDE DEF P, D, stop, nxt, L
  <2> QED BY <1>1, <1>5, <2>1, <2>2, BisectInduction
<1> QED BY <1>12

(* Of the files of an ordered level only the one located can have the key. *)
LEMMA LocateFinds ==
  ASSUME NEW S, NEW lev \in Seq(S), Ordered(lev), \A f \in S : Spans(f), NEW k \in Lbas
  PROVE  /\ Locate(lev, k) \in 0 .. Len(lev)
         /\ \A i \in 1 .. Len(lev) : Has(files, lev[i], k) => i = Locate(lev, k)
<1> DEFINE x == <<0, Len(lev)>>
           b == CHOOSE s : LocateFn(s, lev, k)
<1>1. Len(lev) \in Nat /\ k \in Int /\ \A i \in 1 .. Len(lev) : lev[i] \in S
  BY LsmAssumption DEF Lbas
<1>2. LocateFn(b, lev, k)
  BY <1>1, LocateFnExists
<1>3. x \in Squares(Len(lev)) /\ x[1] = 0 /\ x[2] = Len(lev)
  BY <1>1 DEF Squares
<1> HIDE DEF b
<1>4. Only(b[x], x, lev, k)
  BY <1>1, <1>2, <1>3, LocateFnResult
<1>5. Locate(lev, k) = b[x]
  BY LocateIs DEF b
<1> HIDE DEF x
<1>6. \A i \in 1 .. Len(lev) : Has(files, lev[i], k) => Covers(lev[i], k)
  BY <1>1 DEF Has, Covers, Spans
<1>7. \A i \in 1 .. Len(lev) : i \in x[1] + 1 .. x[2]
  BY <1>3
<1> QED BY <1>4, <1>5, <1>6, <1>7 DEF Only

(* What a search of a level of disjoint files returns. *)
LEMMA LevelSearchIs ==
  ASSUME files \in [Fds -> FileTypes], NEW S \in SUBSET Fds, NEW lev \in Seq(S), Ordered(lev), \A f \in S : Spans(f),
         NEW k \in Lbas, NEW v, AnswersIn(files, Range(lev), k, v)
  PROVE  Norm(LevelSearch(lev, k)) = v
<1>1. PICK i : i = Locate(lev, k)
  OBVIOUS
<1>2. i \in 0 .. Len(lev) /\ \A j \in 1 .. Len(lev) : Has(files, lev[j], k) => j = i
  BY <1>1, LocateFinds
<1>3. LevelSearch(lev, k) = IF i = 0 THEN 0 ELSE First(files[lev[i]].ents, k)
  BY <1>1 DEF LevelSearch, FileSearch
<1>4. Range(lev) = {lev[j] : j \in 1 .. Len(lev)} /\ Len(lev) \in Nat /\ \A j \in 1 .. Len(lev) : lev[j] \in S
  BY RangeIs
<1>5. \A f \in Range(lev) : Has(files, f, k) => \E j \in 1 .. Len(lev) : f = lev[j] /\ j = i
  BY <1>2, <1>4
<1>6. CASE i # 0 /\ Has(files, lev[i], k)
  <2>1. i \in 1 .. Len(lev)
    BY <1>2, <1>4, <1>6
  <2>2. lev[i] \in Range(lev) /\ files[lev[i]].ents \in Entries
    BY <1>4, <2>1 DEF FileTypes
  <2>3. files[lev[i]].ents[k].val = v
    BY <1>6, <2>2 DEF AnswersIn
  <2> QED BY <1>3, <1>6, <2>2, <2>3, FirstOf DEF Has
<1>7. CASE ~(i # 0 /\ Has(files, lev[i], k))
  <2>1. \A f \in Range(lev) : ~Has(files, f, k)
    BY <1>5, <1>7
  <2>2. v = 0
    BY <2>1 DEF AnswersIn
  <2>3. LevelSearch(lev, k) = 0
    <3>1. CASE i = 0
      BY <1>3, <3>1
    <3>2. CASE i # 0
      <4>1. i \in 1 .. Len(lev)
        BY <1>2, <1>4, <3>2
      <4>2. files[lev[i]].ents \in Entries /\ ~Has(files, lev[i], k)
        BY <1>4, <1>7, <3>2, <4>1 DEF FileTypes
      <4> QED BY <1>3, <3>2, <4>2, FirstOf DEF Has
    <3> QED BY <3>1, <3>2
  <2> QED BY <2>2, <2>3 DEF Norm, NEG
<1> QED BY <1>6, <1>7

-----------------------------------------------------------------------------
(* Level 1 is sorted whenever no merge is replacing its files. *)

Windows == {"install", "dropdem", "droprel"}

(* A merge that stopped at a file without entries left level 1 as it was. *)
EmptyApart == job.pc = "empty" => AllApart(Range(l1))

LEMMA EmptyApartNext ==
  ASSUME MemOK, Disk, EmptyApart, [Next]_vars
  PROVE  EmptyApart'
<1>1. CASE \/ \E k \in Lbas : Put(k) \/ PutNegative(k)
           \/ Rotate \/ Searching \/ Close \/ CloseEnd \/ UNCHANGED vars
  <2>1. UNCHANGED <<files, l0, l1, job>>
    BY <1>1, QuietSteps DEF Quiet
  <2> QED BY <2>1 DEF EmptyApart, AllApart, Left
<1>2. CASE MergeFiles
  <2>1. job.pc = "major" /\ \E m, a, rel : Merges(m, a, rel)
    BY <1>2, MergeFilesIs
  <2>2. PICK m, a, rel : Merges(m, a, rel)
    BY <2>1
  <2>3. \A f \in Taken : files'[f] = files[f]
    BY <2>2, MergeWrites
  <2>4. l1' = l1
    BY <2>2 DEF Merges
  <2>5. AllApart(Range(l1)) /\ Range(l1) \subseteq Taken
    <3>1. Range(l1) \ Merged = Range(l1) /\ AllApart(Range(l1) \ Merged)
      BY <2>1, MergedIs
    <3> QED BY <3>1 DEF Disk, LevelsOK, Held
  <2> QED BY <2>3, <2>4, <2>5 DEF EmptyApart, AllApart, Left
<1>3. CASE Install
  <2>1. job'.pc # "empty"
    BY <1>3, InstallIs
  <2> QED BY <2>1 DEF EmptyApart
<1>4. CASE Open
  <2>1. job'.pc = "idle"
    BY <1>4, OpenIs
  <2> QED BY <2>1 DEF EmptyApart
<1>5. CASE WorkerStart \/ SkipMajor \/ LevelFull \/ MoveAdd \/ MoveRemove \/ DropDemoted \/ DropRelative \/ CloseMemtable
  <2>1. job \in Jobs
    BY DEF Disk, DiskTypes
  <2>2. job'.pc \in {"major", "minor", "level", "move", "droprel"}
    BY <1>5, <2>1 DEF WorkerStart, SkipMajor, LevelFull, MoveAdd, MoveRemove, DropDemoted, DropRelative,
                      CloseMemtable, IdleJob, Jobs
  <2> QED BY <2>2 DEF EmptyApart
<1>6. CASE Minor
  <2>1. job'.pc = "idle"
    BY <1>6, MinorDisk
  <2> QED BY <2>1 DEF EmptyApart
<1> QED BY <1>1, <1>2, <1>3, <1>4, <1>5, <1>6 DEF Next, Compaction

LEMMA Level1Ordered ==
  ASSUME Disk, EmptyApart, job.pc \notin Windows
  PROVE  /\ files \in [Fds -> FileTypes] /\ Range(l1) \in SUBSET Fds /\ l1 \in Seq(Range(l1)) /\ Ordered(l1)
         /\ \A f \in Range(l1) : Spans(f)
         /\ Range(l1) \ Merged = Range(l1)
<1>1. l1 \in Seq(Fds) /\ Sorted(l1) /\ Distinct(l1) /\ files \in [Fds -> FileTypes]
  BY DEF Disk, DiskTypes, LevelsOK
<1>2. Range(l1) = {l1[i] : i \in 1 .. Len(l1)} /\ Range(l1) \in SUBSET Fds
  BY <1>1, RangeIs
<1>3. l1 \in Seq(Range(l1))
  BY <1>1, <1>2
<1>4. AllApart(Range(l1)) /\ Range(l1) \ Merged = Range(l1)
  <2>1. Range(l1) \ Merged = Range(l1)
    BY MergedIs DEF Windows
  <2>2. CASE job.pc = "empty"
    BY <2>1, <2>2 DEF EmptyApart
  <2>3. CASE job.pc # "empty"
    <3>1. AllApart(Range(l1) \ Merged)
      BY <2>3, MergedIs DEF Windows
    <3> QED BY <2>1, <3>1
  <2> QED BY <2>2, <2>3
<1>5. \A f \in Range(l1) : Spans(f)
  <2>1. \A f \in Range(l1) : f \in Taken /\ f \notin Range(job.adds)
    BY DEF Disk, LevelsOK, Held, JobOK
  <2>2. \A f \in Range(l1) : KeysIn(files[f].ents) # {}
    BY <2>1 DEF Disk, FilesOK
  <2> QED BY <2>2, SpansIs
<1>6. Ordered(l1)
  BY <1>1, <1>3, <1>4, <1>5, OrderedIs
<1> QED BY <1>1, <1>2, <1>3, <1>4, <1>5, <1>6

-----------------------------------------------------------------------------
(* What a search of k that has yet to look from the place pc on will find, *)
(* if it is not overtaken, is one of the answers in ok.                    *)

OnTop(k) == l0 # <<>> /\ Has(files, l0[1], k)

ImmIn(k, ok) == k \in KeysIn(imm.ents) => imm.ents[k].val \in ok

DiskIn(k, ok) == \E v \in ok : Shows(k, v)

(* While the output of a merge is added, level 1 need not have the newest  *)
(* record of a key of the demoted file.                                    *)
BelowIn(k, ok) ==
  /\ OnTop(k) => ValIn(l0[1], k) \in ok
  /\ job.pc # "install" \/ ~OnTop(k) => \E v \in ok : AnswersIn(files, Range(l1) \ Merged, k, v)

Ahead(k, pc, ok) ==
  /\ View(k) \in ok
  /\ pc \in {"imm", "l0", "l1"} => ImmIn(k, ok)
  /\ pc = "imm" /\ k \notin KeysIn(imm.ents) => DiskIn(k, ok)
  /\ pc = "l0" => DiskIn(k, ok)
  /\ pc = "l1" => BelowIn(k, ok)

(* The search goes on to the next place. *)
LEMMA AheadImm ==
  ASSUME Inv, MergeOut, NEW k \in Lbas, NEW ok, View(k) \in ok, k \notin KeysIn(mem.ents)
  PROVE  Ahead(k, "imm", ok)
<1>1. PICK v : Shows(k, v)
  BY ShowsSome DEF Inv
<1>2. View(k) = Seen(k, v)
  BY <1>1, ViewIs
<1>3. ImmIn(k, ok)
  BY <1>2 DEF ImmIn, Seen
<1>4. k \notin KeysIn(imm.ents) => DiskIn(k, ok)
  BY <1>1, <1>2 DEF DiskIn, Seen
<1> QED BY <1>3, <1>4 DEF Ahead

LEMMA AheadLevel0 ==
  ASSUME NEW k, NEW ok, Ahead(k, "imm", ok), k \notin KeysIn(imm.ents)
  PROVE  Ahead(k, "l0", ok)
BY DEF Ahead

LEMMA AheadLevel1 ==
  ASSUME NEW k, NEW ok, Ahead(k, "l0", ok), ~OnTop(k)
  PROVE  Ahead(k, "l1", ok)
<1>1. \E v \in ok : AnswersIn(files, Range(l1) \ Merged, k, v)
  BY DEF Ahead, DiskIn, Shows, DiskAnswers, OnTop
<1>2. BelowIn(k, ok)
  BY <1>1 DEF BelowIn
<1> QED BY <1>2 DEF Ahead

(* What each place answers. *)
LEMMA FoundLevel0 ==
  ASSUME NEW k, NEW ok, Ahead(k, "l0", ok), OnTop(k)
  PROVE  ValIn(l0[1], k) \in ok
BY DEF Ahead, DiskIn, Shows, DiskAnswers, OnTop, ValIn

LEMMA Level1Answers ==
  ASSUME Disk, EmptyApart, job.pc \notin Windows, NEW k, NEW ok, Ahead(k, "l1", ok)
  PROVE  \E v \in ok : AnswersIn(files, Range(l1), k, v)
<1>1. job.pc # "install" /\ BelowIn(k, ok)
  BY DEF Ahead, Windows
<1>2. Range(l1) \ Merged = Range(l1)
  BY Level1Ordered
<1> QED BY <1>1, <1>2 DEF BelowIn

LEMMA FoundLevel1 ==
  ASSUME Disk, EmptyApart, job.pc \notin Windows, NEW k \in Lbas, NEW ok, Ahead(k, "l1", ok)
  PROVE  Norm(LevelSearch(l1, k)) \in ok
<1>1. PICK v \in ok : AnswersIn(files, Range(l1), k, v)
  BY Level1Answers
<1>2. Norm(LevelSearch(l1, k)) = v
  BY <1>1, Level1Ordered, LevelSearchIs
<1> QED BY <1>1, <1>2

(* The steps of a compaction other than writing the immutable memtable. *)
DiskSteps ==
  \/ WorkerStart \/ SkipMajor \/ LevelFull \/ MoveAdd \/ MoveRemove
  \/ MergeFiles \/ Install \/ DropDemoted \/ DropRelative

LEMMA ImmNext ==
  ASSUME NEW k \in Lbas, NEW ok, NEW oz, ok \subseteq oz, ImmIn(k, ok), imm' = imm
  PROVE  ImmIn(k, oz)'
BY DEF ImmIn

LEMMA DiskInNext ==
  ASSUME MemOK, Disk, MergeOut, NEW k \in Lbas, NEW ok, NEW oz, ok \subseteq oz, DiskIn(k, ok),
         DiskSteps \/ Quiet
  PROVE  DiskIn(k, oz)'
<1>1. PICK v \in ok : Shows(k, v)
  BY DEF DiskIn
<1>2. Shows(k, v)'
  BY <1>1, DiskStepShows DEF DiskSteps
<1> QED BY <1>1, <1>2 DEF DiskIn

LEMMA BelowKept ==
  ASSUME NEW k \in Lbas, NEW ok, NEW oz, ok \subseteq oz, BelowIn(k, ok),
         Range(l1') \ Merged' = Range(l1) \ Merged,
         \A f \in Range(l1) \ Merged : files'[f].ents = files[f].ents,
         OnTop(k)' => OnTop(k) /\ l0'[1] = l0[1] /\ files'[l0[1]].ents = files[l0[1]].ents,
         job.pc = "install" => job'.pc = "install" /\ (OnTop(k) => OnTop(k)')
  PROVE  BelowIn(k, oz)'
<1>1. OnTop(k)' => ValIn(l0[1], k)' \in oz
  BY DEF BelowIn, ValIn
<1>2. ASSUME job'.pc # "install" \/ ~OnTop(k)'
      PROVE  \E v \in oz : AnswersIn(files', Range(l1') \ Merged', k, v)
  <2>1. PICK v \in ok : AnswersIn(files, Range(l1) \ Merged, k, v)
    BY <1>2 DEF BelowIn
  <2>2. \A f \in Range(l1) \ Merged : Has(files', f, k) <=> Has(files, f, k)
    BY DEF Has
  <2>3. AnswersIn(files', Range(l1') \ Merged', k, v)
    BY <2>1, <2>2 DEF AnswersIn
  <2> QED BY <2>3
<1> QED BY <1>1, <1>2 DEF BelowIn

(* A key that level 0 does not have comes there only with the immutable    *)
(* memtable; for it the answer of level 1 is that of the levels.           *)
LEMMA BelowAlone ==
  ASSUME MemOK, Disk, MergeOut, NEW k \in Lbas, NEW ok, NEW oz, ok \subseteq oz, BelowIn(k, ok),
         ~OnTop(k), ~OnTop(k)', DiskSteps \/ Quiet
  PROVE  BelowIn(k, oz)'
<1>1. PICK v \in ok : AnswersIn(files, Range(l1) \ Merged, k, v)
  BY DEF BelowIn
<1>2. Shows(k, v)
  BY <1>1 DEF Shows, DiskAnswers, OnTop
<1>3. Shows(k, v)'
  BY <1>2, DiskStepShows DEF DiskSteps
<1>4. AnswersIn(files', Range(l1') \ Merged', k, v)
  BY <1>3 DEF Shows, DiskAnswers, OnTop
<1> QED BY <1>1, <1>4 DEF BelowIn

LEMMA BelowJob ==
  ASSUME Disk, NEW k \in Lbas, NEW ok, NEW oz, ok \subseteq oz, BelowIn(k, ok),
         WorkerStart \/ SkipMajor \/ LevelFull \/ Quiet
  PROVE  BelowIn(k, oz)'
<1>1. UNCHANGED <<files, l0, l1>>
  BY DEF WorkerStart, SkipMajor, LevelFull, disk, Quiet
<1>2. OnTop(k)' <=> OnTop(k)
  BY <1>1 DEF OnTop
<1>3. CASE Quiet
  <2>1. job' = job /\ Merged' = Merged
    BY <1>3 DEF Quiet, Merged
  <2> QED BY <1>1, <1>2, <2>1, BelowKept
<1>4. CASE WorkerStart \/ SkipMajor \/ LevelFull
  <2>1. job.pc \in {"idle", "major"} /\ job'.pc \in {"major", "minor", "level"}
    <3>1. job \in Jobs
      BY DEF Disk, DiskTypes
    <3> QED BY <1>4, <3>1 DEF WorkerStart, SkipMajor, LevelFull, IdleJob, Jobs
  <2>2. Merged = {} /\ Merged' = {}
    BY <2>1 DEF Merged
  <2> QED BY <1>1, <1>2, <2>1, <2>2, BelowKept
<1> QED BY <1>3, <1>4

LEMMA BelowMoveAdd ==
  ASSUME Disk, Disk', NEW k \in Lbas, NEW ok, NEW oz, ok \subseteq oz, BelowIn(k, ok), OnTop(k), MoveAdd
  PROVE  BelowIn(k, oz)'
<1>1. PICK d : d = l0[1]
  OBVIOUS
<1>2. job.pc = "major" /\ Len(l0) > 0 /\ l1' = AddFile(l1, d, MaxSize) /\ job' = [job EXCEPT !.pc = "move"] /\ l0' = l0
  BY <1>1 DEF MoveAdd, Major
<1>3. d \in Taken /\ Held = Range(l1) /\ l0 # <<>> /\ Range(l0) = {d} /\ job.rel = <<>> /\ job.adds = <<>> /\ job \in Jobs
  BY <1>1, <1>2, MajorFinds, EmptyRange DEF Disk, DiskTypes
<1>4. d \notin Range(l1)
  BY <1>2, <1>3 DEF Disk, LevelsOK
<1>5. Range(l1') = Range(l1) \cup {d}
  BY <1>2, <1>3, <1>4, AddToLevel1 DEF Joins
<1>6. job'.pc = "move" /\ job'.rel = <<>> /\ job'.adds = <<>>
  BY <1>2, <1>3 DEF Jobs
<1>7. Merged' = {} /\ Range(job'.rel) = {} /\ Held' = Range(l1')
  BY <1>6, EmptyRange DEF Merged, Held
<1>8. files'[d].ents = files[d].ents /\ Has(files', d, k) /\ Has(files, d, k)
  BY <1>1, <1>3, MoveAddFiles DEF OnTop, Has
<1>9. \A f \in Range(l1') : f # d => Left(f, d)' \/ Left(d, f)'
  BY <1>5, <1>7 DEF Disk, FilesOK, AllApart
<1>10. \A f \in Range(l1') : f # d => ~Has(files', f, k)
  <2>1. ~(k < k)
    BY LsmAssumption DEF Lbas
  <2> QED BY <1>8, <1>9, <2>1 DEF Left, Has
<1>11. ValIn(d, k) \in ok /\ ValIn(d, k) = files'[d].ents[k].val
  BY <1>1, <1>8 DEF BelowIn, ValIn
<1>12. AnswersIn(files', Range(l1') \ Merged', k, ValIn(d, k))
  BY <1>5, <1>7, <1>8, <1>10, <1>11 DEF AnswersIn
<1>13. OnTop(k)' => files'[l0'[1]].ents[k].val \in oz
  BY <1>1, <1>2, <1>11
<1> QED BY <1>11, <1>12, <1>13 DEF BelowIn, ValIn

LEMMA BelowMoveRemove ==
  ASSUME Disk, NEW k \in Lbas, NEW ok, NEW oz, ok \subseteq oz, BelowIn(k, ok), MoveRemove
  PROVE  BelowIn(k, oz)' /\ ~OnTop(k)'
<1>1. job.pc = "move" /\ l0' = Tail(l0) /\ job' = [job EXCEPT !.pc = "minor"] /\ UNCHANGED <<files, l1>>
  BY DEF MoveRemove
<1>2. l0 \in Seq(Fds) /\ Len(l0) <= 1 /\ l0 # <<>> /\ job \in Jobs
  BY <1>1 DEF Disk, JobOK, LevelsOK, DiskTypes
<1>3. l0' = <<>>
  BY <1>1, <1>2, OneFile
<1>4. ~OnTop(k)'
  BY <1>3 DEF OnTop
<1>5. Merged = {} /\ Merged' = {}
  <2>1. job'.pc = "minor"
    BY <1>1, <1>2 DEF Jobs
  <2> QED BY <1>1, <2>1 DEF Merged
<1> QED BY <1>1, <1>4, <1>5, BelowKept

LEMMA BelowMergeFiles ==
  ASSUME Disk, NEW k \in Lbas, NEW ok, NEW oz, ok \subseteq oz, BelowIn(k, ok), MergeFiles
  PROVE  BelowIn(k, oz)'
<1>1. job.pc = "major" /\ \E m, a, rel : Merges(m, a, rel)
  BY MergeFilesIs
<1>2. PICK m, a, rel : Merges(m, a, rel)
  BY <1>1
<1>3. \A f \in Taken : files'[f] = files[f]
  BY <1>2, MergeWrites
<1>4. l0' = l0 /\ l1' = l1 /\ job'.pc \in {"empty", "install"}
  BY <1>2 DEF Merges
<1>5. Merged = {} /\ Merged' = {}
  BY <1>1, <1>4 DEF Merged
<1>6. Range(l1) \subseteq Taken /\ Range(l0) \subseteq Taken /\ l0 \in Seq(Fds)
  BY DEF Disk, LevelsOK, Held, DiskTypes
<1>7. l0 # <<>> => l0[1] \in Taken
  <2>1. l0 # <<>> => l0[1] \in Range(l0)
    BY <1>6 DEF Range
  <2> QED BY <1>6, <2>1
<1>8. OnTop(k)' <=> OnTop(k)
  BY <1>3, <1>4, <1>7 DEF OnTop, Has
<1>9. OnTop(k) => files'[l0[1]].ents = files[l0[1]].ents
  BY <1>3, <1>7 DEF OnTop
<1> QED BY <1>1, <1>3, <1>4, <1>5, <1>6, <1>8, <1>9, BelowKept

LEMMA BelowInstall ==
  ASSUME Disk, MergeOut, NEW k \in Lbas, NEW ok, NEW oz, ok \subseteq oz, BelowIn(k, ok), OnTop(k), Install
  PROVE  BelowIn(k, oz)'
<1>1. PICK d : d = l0[1]
  OBVIOUS
<1>2. /\ job.pc = "install" /\ UNCHANGED <<files, l0>> /\ job'.rel = job.rel /\ Held' = Held /\ Output' = Output
      /\ job'.pc \in {"install", "dropdem"}
      /\ job'.pc = "dropdem" => Range(job'.adds) = {}
  BY InstallIs
<1>3. OnTop(k)' /\ Has(files, d, k) /\ ValIn(d, k) \in ok
  BY <1>1, <1>2 DEF OnTop, BelowIn
<1>4. OnTop(k)' => ValIn(l0[1], k)' \in oz
  BY <1>1, <1>2, <1>3 DEF ValIn
<1>5. ASSUME job'.pc # "install" PROVE AnswersIn(files', Range(l1') \ Merged', k, ValIn(d, k))
  <2>1. Merged' = Range(job.rel) /\ Held' = Range(l1')
    BY <1>2, <1>5 DEF Merged, Held
  <2>2. Range(l1') \ Merged' = Output
    BY <1>2, <2>1 DEF Output
  <2>3. \A f \in Output : Has(files, f, k) => ValIn(f, k) = ValIn(d, k)
    BY <1>1, <1>2, <1>3 DEF MergeOut
  <2>4. ValIn(d, k) = 0 \/ \E f \in Output : Has(files, f, k)
    BY <1>1, <1>2, <1>3 DEF MergeOut
  <2> QED BY <1>2, <2>2, <2>3, <2>4 DEF AnswersIn, ValIn
<1>6. job'.pc # "install" \/ ~OnTop(k)' => \E v \in oz : AnswersIn(files', Range(l1') \ Merged', k, v)
  BY <1>3, <1>5
<1> QED BY <1>4, <1>6 DEF BelowIn

LEMMA BelowDropDemoted ==
  ASSUME Disk, NEW k \in Lbas, NEW ok, NEW oz, ok \subseteq oz, BelowIn(k, ok), DropDemoted
  PROVE  BelowIn(k, oz)' /\ ~OnTop(k)'
<1>1. PICK d : d = l0[1]
  OBVIOUS
<1>2. Drops(d)
  BY <1>1, DropsDemoted
<1>3. /\ job.pc = "dropdem" /\ l0' = RemoveFile(l0, job.dem[1]) /\ l1' = l1
      /\ job' = [job EXCEPT !.dem = <<>>, !.pc = "droprel"]
  BY DEF DropDemoted
<1>4. l0 \in Seq(Fds) /\ Len(l0) <= 1 /\ l0 # <<>> /\ job.dem = l0 /\ job \in Jobs
  BY <1>3 DEF Disk, JobOK, LevelsOK, DiskTypes
<1>5. l0' = <<>>
  <2>1. Range(l0) = {d} /\ Len(l0) = 1
    BY <1>1, <1>4, OneFile
  <2>2. d \in Range(l0) /\ Distinct(l0)
    BY <1>4, <2>1 DEF Distinct
  <2>3. l0' \in Seq(Fds) /\ Len(l0') = Len(l0) - 1
    BY <1>1, <1>3, <1>4, <2>2, RemoveFileIs
  <2> QED BY <2>1, <2>3
<1>6. ~OnTop(k)'
  BY <1>5 DEF OnTop
<1>7. Merged = Range(job.rel) /\ Merged' = Range(job.rel)
  <2>1. job'.pc = "droprel" /\ job'.rel = job.rel
    BY <1>3, <1>4 DEF Jobs
  <2> QED BY <1>3, <2>1 DEF Merged
<1>8. Range(l1) \ Merged = Output
  BY <1>3, MergedIs
<1>9. \A f \in Range(l1) \ Merged : files'[f].ents = files[f].ents
  <2>1. \A f \in Output : f \in Fds \ {d}
    BY <1>2, TakenIs DEF Drops
  <2> QED BY <1>2, <1>8, <2>1 DEF Drops
<1> QED BY <1>3, <1>6, <1>7, <1>9, BelowKept

LEMMA BelowMinor ==
  ASSUME MemOK, Disk, NEW k \in Lbas, NEW ok, NEW oz, ok \subseteq oz, ImmIn(k, ok), BelowIn(k, ok), imm # NoTable, Minor
  PROVE  BelowIn(k, oz)'
<1>1. PICK f : Writes(f, imm.ents)
  <2>1. \E f : Writes(f, IF imm = NoTable THEN mem.ents ELSE imm.ents)
    BY MinorIs
  <2> QED BY <2>1
<1>2. Merged = {} /\ Merged' = {} /\ job.pc # "install"
  BY <1>1 DEF Writes, Merged
<1>3. OnTop(k)' => k \in KeysIn(imm.ents) /\ ValIn(l0[1], k)' = imm.ents[k].val
  BY <1>1 DEF OnTop, Writes, Has, ValIn
<1>4. PICK v \in ok : AnswersIn(files, Range(l1) \ Merged, k, v)
  BY <1>2 DEF BelowIn
<1>5. \A g \in Range(l1) : files'[g] = files[g]
  BY <1>1 DEF Writes
<1>6. \A g \in Range(l1) : Has(files', g, k) <=> Has(files, g, k)
  BY <1>5 DEF Has
<1>7. l1' = l1
  BY <1>1 DEF Writes
<1>8. AnswersIn(files', Range(l1') \ Merged', k, v)
  BY <1>2, <1>4, <1>5, <1>6, <1>7 DEF AnswersIn
<1>9. OnTop(k)' => ValIn(l0[1], k)' \in oz
  BY <1>3 DEF ImmIn
<1> QED BY <1>4, <1>8, <1>9 DEF BelowIn

LEMMA DiskInMinor ==
  ASSUME MemOK, Disk, NEW k \in Lbas, NEW ok, NEW oz, ok \subseteq oz, ImmIn(k, ok), DiskIn(k, ok), imm # NoTable, Minor
  PROVE  DiskIn(k, oz)'
<1>1. PICK f : Writes(f, imm.ents)
  <2>1. \E f : Writes(f, IF imm = NoTable THEN mem.ents ELSE imm.ents)
    BY MinorIs
  <2> QED BY <2>1
<1>2. PICK v \in ok : Shows(k, v)
  BY DEF DiskIn
<1>3. Merged = {} /\ Merged' = {}
  BY <1>1 DEF Writes, Merged
<1>4. AnswersIn(files, Range(l1), k, v)
  BY <1>1, <1>2, <1>3 DEF Shows, DiskAnswers, Writes
<1>5. \A g \in Range(l1) : files'[g] = files[g] /\ (Has(files', g, k) <=> Has(files, g, k))
  BY <1>1 DEF Writes, Has
<1>6. AnswersIn(files', Range(l1), k, v)
  BY <1>4, <1>5 DEF AnswersIn
<1>7. Has(files', f, k) <=> k \in KeysIn(imm.ents)
  BY <1>1 DEF Writes, Has
<1>8. PICK w : w = IF k \in KeysIn(imm.ents) THEN imm.ents[k].val ELSE v
  OBVIOUS
<1>9. Shows(k, w)'
  BY <1>1, <1>3, <1>6, <1>7, <1>8 DEF Shows, DiskAnswers, Writes
<1>10. w \in oz
  BY <1>2, <1>8 DEF ImmIn
<1> QED BY <1>9, <1>10 DEF DiskIn

LEMMA BelowSteps ==
  ASSUME MemOK, Disk, Disk', MergeOut, NEW k \in Lbas, NEW ok, NEW oz, ok \subseteq oz, BelowIn(k, ok),
         DiskSteps \/ Quiet
  PROVE  BelowIn(k, oz)'
<1>1. CASE WorkerStart \/ SkipMajor \/ LevelFull \/ Quiet
  BY <1>1, BelowJob
<1>2. CASE MoveAdd
  <2>1. CASE OnTop(k)
    BY <1>2, <2>1, BelowMoveAdd
  <2>2. CASE ~OnTop(k)
    <3>1. Len(l0) > 0 /\ job.pc = "major" /\ l0' = l0
      BY <1>2 DEF MoveAdd, Major
    <3>2. l0[1] \in Taken
      BY <3>1, MajorFinds
    <3>3. files'[l0[1]].ents = files[l0[1]].ents
      BY <1>2, <3>2, MoveAddFiles
    <3>4. ~OnTop(k)'
      BY <2>2, <3>1, <3>3 DEF OnTop, Has
    <3> QED BY <1>2, <2>2, <3>4, BelowAlone DEF DiskSteps
  <2> QED BY <2>1, <2>2
<1>3. CASE Install
  <2>1. CASE OnTop(k)
    BY <1>3, <2>1, BelowInstall
  <2>2. CASE ~OnTop(k)
    <3>1. UNCHANGED <<files, l0>>
      BY <1>3, InstallIs
    <3>2. ~OnTop(k)'
      BY <2>2, <3>1 DEF OnTop
    <3> QED BY <1>3, <2>2, <3>2, BelowAlone DEF DiskSteps
  <2> QED BY <2>1, <2>2
<1>4. CASE DropRelative
  <2>1. l0 = <<>> /\ l0' = l0
    BY <1>4 DEF DropRelative, Disk, JobOK
  <2>2. ~OnTop(k) /\ ~OnTop(k)'
    BY <2>1 DEF OnTop
  <2> QED BY <1>4, <2>2, BelowAlone DEF DiskSteps
<1>5. CASE MoveRemove
  BY <1>5, BelowMoveRemove
<1>6. CASE MergeFiles
  BY <1>6, BelowMergeFiles
<1>7. CASE DropDemoted
  BY <1>7, BelowDropDemoted
<1> QED BY <1>1, <1>2, <1>3, <1>4, <1>5, <1>6, <1>7 DEF DiskSteps

(* No step takes the search's answer away. *)
LEMMA AheadNext ==
  ASSUME ViewInv, Inv', InTime, up = "open", [Next]_vars,
         NEW k \in Lbas, NEW pc, NEW ok, NEW oz, ok \subseteq oz, View(k)' \in oz, Ahead(k, pc, ok)
  PROVE  Ahead(k, pc, oz)'
<1>1. Inv /\ MemOK /\ Disk /\ MergeOut /\ Backed /\ Disk'
  BY DEF ViewInv, Inv
<1>2. ASSUME imm' = imm, DiskSteps \/ Quiet PROVE Ahead(k, pc, oz)'
  <2>1. ImmIn(k, ok) => ImmIn(k, oz)'
    BY <1>2, ImmNext
  <2>2. DiskIn(k, ok) => DiskIn(k, oz)'
    BY <1>1, <1>2, DiskInNext
  <2>3. BelowIn(k, ok) => BelowIn(k, oz)'
    BY <1>1, <1>2, BelowSteps
  <2> QED BY <1>2, <2>1, <2>2, <2>3 DEF Ahead
<1>3. CASE (\E x \in Lbas : Put(x) \/ PutNegative(x)) \/ Searching \/ Close \/ UNCHANGED vars
  <2>1. Quiet
    BY <1>3, QuietSteps
  <2>2. imm' = imm
    BY <1>3 DEF Put, PutNegative, Close, vars, index, Searching, SearchMem, SearchImm, SearchCopy,
                SearchLevel0, SearchLevel1, RangeMem, RangeImm, RangeLevel0, RangeLevel1, Search
  <2> QED BY <1>2, <2>1, <2>2
<1>4. CASE DiskSteps
  <2>1. imm' = imm
    BY <1>4 DEF DiskSteps, WorkerStart, SkipMajor, LevelFull, MoveAdd, MoveRemove, MergeFiles, Install,
                DropDemoted, DropRelative, index
  <2> QED BY <1>2, <1>4, <2>1
<1>5. CASE CloseMemtable \/ CloseEnd \/ Open
  BY <1>5 DEF CloseMemtable, CloseEnd, Open
<1>6. CASE Rotate
  <2>1. Quiet
    BY <1>6, QuietSteps
  <2>2. imm' = mem /\ mem' = EmptyTable
    BY <1>6 DEF Rotate
  <2>3. KeysIn(mem'.ents) = {}
    BY <2>2, NoTableIs, NoEntriesIs
  <2>4. PICK v : Shows(k, v)
    BY <1>1, ShowsSome
  <2>5. Shows(k, v)'
    BY <1>1, <2>1, <2>4, DiskStepShows
  <2>6. View(k)' = Seen(k, v)'
    BY <2>5, ViewNext
  <2>7. ImmIn(k, oz)'
    BY <2>3, <2>6 DEF ImmIn, Seen
  <2>8. k \notin KeysIn(imm'.ents) => DiskIn(k, oz)'
    BY <2>3, <2>5, <2>6 DEF DiskIn, Seen
  <2>9. DiskIn(k, ok) => DiskIn(k, oz)'
    BY <1>1, <2>1, DiskInNext
  <2>10. BelowIn(k, ok) => BelowIn(k, oz)'
    BY <1>1, <2>1, BelowSteps
  <2> QED BY <2>7, <2>8, <2>9, <2>10 DEF Ahead
<1>7. CASE Minor
  <2>1. job.pc = "minor"
    BY <1>7 DEF Minor
  <2>2. imm # NoTable
    BY <1>1, <2>1 DEF MemOK
  <2>3. imm' = imm
    BY <1>7 DEF Minor
  <2>4. ImmIn(k, ok) => ImmIn(k, oz)'
    BY <2>3, ImmNext
  <2>5. ImmIn(k, ok) /\ DiskIn(k, ok) => DiskIn(k, oz)'
    BY <1>1, <1>7, <2>2, DiskInMinor
  <2>6. ImmIn(k, ok) /\ BelowIn(k, ok) => BelowIn(k, oz)'
    BY <1>1, <1>7, <2>2, BelowMinor
  <2> QED BY <2>3, <2>4, <2>5, <2>6 DEF Ahead
<1> QED BY <1>3, <1>4, <1>5, <1>6, <1>7 DEF Next, Compaction, DiskSteps

-----------------------------------------------------------------------------
(* lsm_tree_search. *)

Rds == [pc : {"idle", "copy", "imm", "l0", "l1"}, key : Lbas, src : {"none", "mem", "imm"}, rec : Int,
        ok : SUBSET Int, freed : BOOLEAN, window : BOOLEAN, stale : BOOLEAN]

(* A running search can still find an answer; a record whose pointer it    *)
(* holds is one, unless it was freed.                                      *)
RdOK ==
  /\ rd \in Rds
  /\ rd.pc # "idle" => up = "open"
  /\ \A k, pc, ok : rd.pc = pc /\ rd.key = k /\ rd.ok = ok /\ pc # "idle" => Ahead(k, pc, ok)
  /\ rd.pc = "copy" => rd.freed \/ Norm(rd.rec) \in rd.ok
  /\ rd.pc = "idle" /\ rd.stale => rd.freed \/ rd.window

LEMMA ViewType ==
  ASSUME Inv, MergeOut, NEW k \in Lbas
  PROVE  View(k) \in Int
<1>1. MemOK /\ Disk
  BY DEF Inv
<1>2. PICK v : Shows(k, v)
  BY <1>1, ShowsSome
<1>3. View(k) = Seen(k, v)
  BY <1>2, ViewIs
<1>4. mem.ents[k].val \in Nat /\ imm.ents[k].val \in Nat /\ \A f \in Taken : ValIn(f, k) \in Nat
  BY ValTypes
<1>5. v = 0 \/ \E f \in Taken : v = ValIn(f, k)
  <2>1. Range(l0) \subseteq Taken /\ Range(l1) \subseteq Taken
    BY <1>1, DiskTaken
  <2>2. l0 # <<>> => l0[1] \in Range(l0)
    BY <1>1, OneFile DEF Disk, DiskTypes, LevelsOK
  <2> QED BY <1>2, <2>1, <2>2 DEF Shows, DiskAnswers, AnswersIn, ValIn
<1> QED BY <1>3, <1>4, <1>5 DEF Seen

(* What another thread's step does to the search. *)
RdGrows ==
  /\ rd' \in Rds /\ rd'.pc = rd.pc /\ rd'.key = rd.key /\ rd.ok \subseteq rd'.ok /\ rd'.rec = rd.rec
  /\ rd.freed => rd'.freed
  /\ rd'.stale = rd.stale /\ rd'.window = rd.window

LEMMA RdOvertaken ==
  ASSUME rd \in Rds, NEW k, NEW r \in Int, NEW frees \in BOOLEAN, Overtake(k, r, frees)
  PROVE  RdGrows /\ (rd.pc # "idle" /\ rd.key = k => r \in rd'.ok)
<1>1. CASE rd.pc = "idle" \/ rd.key # k
  <2>1. rd' = rd
    BY <1>1 DEF Overtake
  <2> QED BY <1>1, <2>1 DEF RdGrows
<1>2. CASE ~(rd.pc = "idle" \/ rd.key # k)
  <2>1. rd' = [rd EXCEPT !.ok = rd.ok \cup {r}, !.freed = rd.freed \/ (rd.src = "mem" /\ frees)]
    BY <1>2 DEF Overtake
  <2>2. rd'.ok = rd.ok \cup {r} /\ rd'.pc = rd.pc /\ rd'.key = rd.key /\ rd'.rec = rd.rec
        /\ rd'.stale = rd.stale /\ rd'.window = rd.window /\ rd'.src = rd.src
    BY <2>1 DEF Rds
  <2>3. rd'.freed = (rd.freed \/ (rd.src = "mem" /\ frees))
    BY <2>1 DEF Rds
  <2>4. rd' \in Rds
    BY <2>1 DEF Rds
  <2>5. rd.freed => rd'.freed
    BY <2>3
  <2> QED BY <2>2, <2>4, <2>5 DEF RdGrows
<1> QED BY <1>1, <1>2

LEMMA RdRotate ==
  ASSUME rd \in Rds, Rotate
  PROVE  RdGrows
<1>1. CASE rd.pc # "copy"
  <2>1. rd' = rd
    BY <1>1 DEF Rotate
  <2> QED BY <2>1 DEF RdGrows
<1>2. CASE rd.pc = "copy" /\ rd.src = "mem"
  <2>1. rd' = [rd EXCEPT !.src = "imm"]
    BY <1>2 DEF Rotate
  <2> QED BY <2>1 DEF RdGrows, Rds
<1>3. CASE rd.pc = "copy" /\ rd.src # "mem"
  <2>1. rd' = [rd EXCEPT !.freed = TRUE]
    BY <1>3 DEF Rotate
  <2> QED BY <2>1 DEF RdGrows, Rds
<1> QED BY <1>1, <1>2, <1>3

(* The steps of the two kinds of search. *)
RdSteps == (\E k \in Lbas : SearchMem(k)) \/ SearchImm \/ SearchCopy \/ SearchLevel0 \/ SearchLevel1
RgSteps == (\E lo \in Lbas : \E hi \in lo .. NrLba - 1 : RangeMem(lo, hi)) \/ RangeImm \/ RangeLevel0 \/ RangeLevel1

LEMMA SearchSteps ==
  ASSUME ViewInv, Inv', Searching
  PROVE  (RdSteps \/ RgSteps) /\ Quiet /\ UNCHANGED <<mem, imm, n, up>> /\ SameView
<1>1. RdSteps \/ RgSteps
  BY DEF Searching, RdSteps, RgSteps
<1>2. UNCHANGED index /\ up' = up
  BY DEF Searching, SearchMem, SearchImm, SearchCopy,
         SearchLevel0, SearchLevel1, RangeMem, RangeImm, RangeLevel0, RangeLevel1, Search
<1>3. Quiet /\ UNCHANGED <<mem, imm, n>>
  BY <1>2, QuietSteps DEF index
<1>4. SameView
  BY <1>3, ViewKept DEF ViewInv
<1> QED BY <1>1, <1>2, <1>3, <1>4

LEMMA RdNextGrows ==
  ASSUME RdOK, RdGrows, ViewInv, Inv', InTime, [Next]_vars,
         rd.pc # "idle" => up' = "open",
         \A k \in Lbas : rd.pc # "idle" /\ rd.key = k => View(k)' \in rd'.ok
  PROVE  RdOK'
<1>1. rd \in Rds /\ rd' \in Rds /\ rd'.pc = rd.pc /\ rd'.key = rd.key /\ rd.ok \subseteq rd'.ok /\ rd'.rec = rd.rec
  BY DEF RdGrows, RdOK
<1>2. ASSUME NEW k, NEW pc, NEW ok, rd'.pc = pc, rd'.key = k, rd'.ok = ok, pc # "idle" PROVE Ahead(k, pc, ok)'
  <2>1. PICK o : o = rd.ok
    OBVIOUS
  <2>2. k \in Lbas /\ o \subseteq ok /\ up = "open" /\ View(k)' \in ok
    BY <1>1, <1>2, <2>1 DEF Rds, RdOK
  <2>3. Ahead(k, pc, o)
    BY <1>1, <1>2, <2>1 DEF RdOK
  <2> QED BY <2>2, <2>3, AheadNext
<1>3. rd'.pc # "idle" => up' = "open"
  BY <1>1
<1>4. rd'.pc = "copy" => rd'.freed \/ Norm(rd'.rec) \in rd'.ok
  BY <1>1 DEF RdOK, RdGrows
<1>5. rd'.pc = "idle" /\ rd'.stale => rd'.freed \/ rd'.window
  BY <1>1 DEF RdOK, RdGrows
<1> QED BY <1>1, <1>2, <1>3, <1>4, <1>5 DEF RdOK

LEMMA GetIs ==
  ASSUME MemOK, NEW k \in Lbas
  PROVE  /\ Get(mem, k) \in Int /\ (Get(mem, k) # 0 <=> k \in KeysIn(mem.ents))
         /\ k \in KeysIn(mem.ents) => Norm(Get(mem, k)) = mem.ents[k].val
         /\ Get(imm, k) \in Int /\ (Get(imm, k) # 0 <=> k \in KeysIn(imm.ents))
         /\ k \in KeysIn(imm.ents) => Norm(Get(imm, k)) = imm.ents[k].val
<1>1. mem.ents \in Entries /\ imm.ents \in Entries
  BY DEF MemOK, Tables
<1>2. ASSUME NEW es \in Entries PROVE First(es, k) \in Int
  <2>1. es[k].val \in Nat
    BY FirstOf
  <2> QED BY <2>1 DEF First, NEG
<1> QED BY <1>1, <1>2, FirstOf DEF Get

LEMMA Level0Is ==
  ASSUME Disk, NEW k \in Lbas
  PROVE  /\ LinearSearch(l0, k) # 0 <=> OnTop(k)
         /\ OnTop(k) => Norm(LinearSearch(l0, k)) = ValIn(l0[1], k)
<1>1. files \in [Fds -> FileTypes] /\ l0 \in Seq(Fds) /\ Len(l0) <= 1
  BY DEF Disk, DiskTypes, LevelsOK
<1>2. LinearSearch(l0, k) = LinearIn(files, l0, k)
  BY DEF LinearSearch, LinearIn, FileSearch
<1>3. LinearSearch(l0, k) = IF l0 = <<>> THEN 0 ELSE First(files[l0[1]].ents, k)
  BY <1>1, <1>2, LinearIs
<1>4. l0 # <<>> => files[l0[1]].ents \in Entries
  <2>1. l0 # <<>> => l0[1] \in Fds
    BY <1>1, OneFile
  <2> QED BY <1>1, <2>1 DEF FileTypes
<1>5. CASE l0 = <<>>
  BY <1>3, <1>5 DEF OnTop
<1>6. CASE l0 # <<>>
  BY <1>3, <1>4, <1>6, FirstOf DEF OnTop, Has, ValIn
<1> QED BY <1>5, <1>6

LEMMA RdOnward ==
  ASSUME ViewInv, Inv', InTime, Searching, up = "open",
         NEW pc, pc # "idle", NEW k, NEW ok, k = rd'.key, ok = rd'.ok, k \in Lbas,
         rd' \in Rds, rd'.pc = pc, Ahead(k, pc, ok),
         pc = "copy" => rd'.freed \/ Norm(rd'.rec) \in rd'.ok
  PROVE  RdOK'
<1>1. up' = up /\ SameView /\ [Next]_vars
  BY SearchSteps DEF Next
<1>2. View(k)' \in ok
  BY <1>1 DEF SameView, Ahead
<1>3. Ahead(k, pc, ok)'
  BY <1>1, <1>2, AheadNext
<1> QED BY <1>1, <1>3 DEF RdOK

LEMMA RdAnswered ==
  ASSUME NEW r, NEW window \in BOOLEAN, rd \in Rds, rd' = Answer(r, window),
         Norm(r) \in rd.ok \/ rd.freed \/ window
  PROVE  RdOK'
<1>1. rd' = [pc |-> "idle", key |-> 0, src |-> "none", rec |-> 0, ok |-> {},
             freed |-> rd.freed, window |-> window, stale |-> Norm(r) \notin rd.ok]
  BY DEF Answer, IdleRd
<1>2. 0 \in Lbas /\ rd.freed \in BOOLEAN
  BY LsmAssumption DEF Lbas, Rds
<1>3. (Norm(r) \notin rd.ok) \in BOOLEAN
  OBVIOUS
<1>4. rd' \in Rds
  BY <1>1, <1>2, <1>3 DEF Rds
<1>5. rd'.pc = "idle" /\ rd'.freed = rd.freed /\ rd'.window = window /\ rd'.stale = (Norm(r) \notin rd.ok)
  BY <1>1
<1>6. rd'.stale => rd'.freed \/ rd'.window
  BY <1>5
<1> QED BY <1>4, <1>5, <1>6 DEF RdOK

LEMMA RdSearchMem ==
  ASSUME ViewInv, Inv', InTime, NEW k \in Lbas, SearchMem(k)
  PROVE  RdOK'
<1>1. MemOK /\ Inv /\ MergeOut /\ Searching /\ up = "open"
  BY DEF ViewInv, Inv, Searching, SearchMem, MUnlocked
<1>2. PICK w, r : w = View(k) /\ r = Get(mem, k)
  OBVIOUS
<1>3. w \in Int /\ r \in Int
  BY <1>1, <1>2, ViewType, GetIs
<1>4. PICK pc : pc = IF r # 0 THEN "copy" ELSE "imm"
  OBVIOUS
<1>5. PICK src : src = IF r # 0 THEN "mem" ELSE "none"
  OBVIOUS
<1>6. rd' = [pc |-> pc, key |-> k, src |-> src, rec |-> r, ok |-> {w},
             freed |-> FALSE, window |-> FALSE, stale |-> FALSE]
  BY <1>2, <1>4, <1>5 DEF SearchMem, IdleRd
<1>7. rd' \in Rds /\ rd'.pc = pc /\ rd'.key = k /\ rd'.ok = {w} /\ rd'.rec = r
  BY <1>3, <1>4, <1>5, <1>6 DEF Rds
<1>8. Ahead(k, pc, {w})
  <2>1. CASE r # 0
    BY <1>2, <1>4, <2>1 DEF Ahead
  <2>2. CASE r = 0
    <3>1. k \notin KeysIn(mem.ents)
      BY <1>1, <1>2, <2>2, GetIs
    <3>2. Ahead(k, "imm", {w})
      BY <1>1, <1>2, <3>1, AheadImm
    <3> QED BY <1>4, <2>2, <3>2
  <2> QED BY <2>1, <2>2
<1>9. pc = "copy" => Norm(rd'.rec) \in rd'.ok
  <2>1. SUFFICES ASSUME r # 0 PROVE Norm(r) = w
    BY <1>4, <1>7
  <2>2. PICK v : Shows(k, v)
    BY <1>1, ShowsSome DEF Inv
  <2>3. View(k) = Seen(k, v)
    BY <1>1, <2>2, ViewIs
  <2> QED BY <1>1, <1>2, <2>1, <2>3, GetIs DEF Seen
<1>10. pc # "idle"
  BY <1>4
<1>11. pc = "copy" => rd'.freed \/ Norm(rd'.rec) \in rd'.ok
  BY <1>9
<1> QED BY <1>1, <1>7, <1>8, <1>10, <1>11, RdOnward

LEMMA RdSearchImm ==
  ASSUME ViewInv, Inv', InTime, RdOK, SearchImm
  PROVE  RdOK'
<1>1. MemOK /\ Searching /\ rd.pc = "imm" /\ rd \in Rds /\ up = "open"
  BY DEF ViewInv, Inv, Searching, SearchImm, RdOK
<1>2. PICK k, ok : k = rd.key /\ ok = rd.ok
  OBVIOUS
<1>3. k \in Lbas /\ Ahead(k, "imm", ok)
  BY <1>1, <1>2 DEF RdOK, Rds
<1>4. PICK r : r = Get(imm, k)
  OBVIOUS
<1>5. r \in Int /\ (r # 0 <=> k \in KeysIn(imm.ents)) /\ (k \in KeysIn(imm.ents) => Norm(r) = imm.ents[k].val)
  BY <1>1, <1>3, <1>4, GetIs
<1>6. PICK pc : pc = IF r # 0 THEN "copy" ELSE "l0"
  OBVIOUS
<1>7. PICK src : src = IF r # 0 THEN "imm" ELSE "none"
  OBVIOUS
<1>8. rd' = [rd EXCEPT !.rec = r, !.pc = pc, !.src = src]
  BY <1>2, <1>4, <1>6, <1>7 DEF SearchImm
<1>9. rd' \in Rds /\ rd'.pc = pc /\ rd'.key = k /\ rd'.ok = ok /\ rd'.rec = r
  BY <1>1, <1>2, <1>5, <1>6, <1>7, <1>8 DEF Rds
<1>10. Ahead(k, pc, ok)
  <2>1. CASE r # 0
    BY <1>3, <1>6, <2>1 DEF Ahead
  <2>2. CASE r = 0
    BY <1>3, <1>5, <1>6, <2>2, AheadLevel0
  <2> QED BY <2>1, <2>2
<1>11. pc = "copy" => rd'.freed \/ Norm(rd'.rec) \in rd'.ok
  BY <1>3, <1>5, <1>6, <1>9 DEF Ahead, ImmIn
<1>12. pc # "idle"
  BY <1>6
<1> QED BY <1>1, <1>3, <1>9, <1>10, <1>11, <1>12, RdOnward

LEMMA RdSearchLevels ==
  ASSUME ViewInv, Inv', InTime, EmptyApart, RdOK, SearchCopy \/ SearchLevel0 \/ SearchLevel1
  PROVE  RdOK'
<1>1. Disk /\ Searching /\ rd \in Rds
  BY DEF ViewInv, Inv, Searching, RdOK
<1>2. PICK k, ok : k = rd.key /\ ok = rd.ok
  OBVIOUS
<1>3. k \in Lbas
  BY <1>1, <1>2 DEF Rds
<1>4. CASE SearchCopy
  <2>1. PICK r \in IF rd.freed THEN 0 .. n ELSE {rd.rec} : rd' = Answer(r, FALSE)
    BY <1>4 DEF SearchCopy
  <2>2. Norm(r) \in rd.ok \/ rd.freed
    BY <1>4, <2>1 DEF SearchCopy, RdOK
  <2> QED BY <1>1, <2>1, <2>2, RdAnswered
<1>5. CASE SearchLevel0
  <2>1. rd.pc = "l0" /\ up = "open"
    BY <1>5 DEF SearchLevel0, RdOK
  <2>2. Ahead(k, "l0", ok)
    BY <1>2, <2>1 DEF RdOK
  <2>3. PICK r : r = LinearSearch(l0, k)
    OBVIOUS
  <2>4. (r # 0 <=> OnTop(k)) /\ (OnTop(k) => Norm(r) = ValIn(l0[1], k))
    BY <1>1, <1>3, <2>3, Level0Is
  <2>5. rd' = IF r # 0 THEN Answer(r, FALSE) ELSE [rd EXCEPT !.pc = "l1"]
    BY <1>2, <1>5, <2>3 DEF SearchLevel0
  <2>6. CASE r # 0
    <3>1. Norm(r) \in rd.ok
      BY <1>2, <2>2, <2>4, <2>6, FoundLevel0
    <3> QED BY <1>1, <2>5, <2>6, <3>1, RdAnswered
  <2>7. CASE r = 0
    <3>1. rd' = [rd EXCEPT !.pc = "l1"]
      BY <2>5, <2>7
    <3>2. rd' \in Rds /\ rd'.pc = "l1" /\ rd'.key = k /\ rd'.ok = ok
      BY <1>1, <1>2, <3>1 DEF Rds
    <3>3. Ahead(k, "l1", ok)
      BY <2>2, <2>4, <2>7, AheadLevel1
    <3> QED BY <1>1, <1>3, <2>1, <3>2, <3>3, RdOnward
  <2> QED BY <2>6, <2>7
<1>6. CASE SearchLevel1
  <2>1. rd.pc = "l1"
    BY <1>6 DEF SearchLevel1
  <2>2. Ahead(k, "l1", ok)
    BY <1>2, <2>1 DEF RdOK
  <2>3. PICK r, window : r = LevelSearch(l1, k) /\ window = (job.pc \in Windows)
    OBVIOUS
  <2>4. rd' = Answer(r, window)
    BY <1>2, <1>6, <2>3 DEF SearchLevel1, Windows
  <2>5. window \in BOOLEAN
    BY <2>3
  <2>6. Norm(r) \in rd.ok \/ window
    BY <1>1, <1>2, <1>3, <2>2, <2>3, FoundLevel1
  <2> QED BY <1>1, <2>4, <2>5, <2>6, RdAnswered
<1> QED BY <1>4, <1>5, <1>6

(* The steps that do not see a search. *)
Elsewhere == Compaction \/ CloseMemtable \/ CloseEnd \/ Open \/ UNCHANGED vars

LEMMA ElsewhereKeeps ==
  ASSUME ViewInv, Inv', InTime, Elsewhere
  PROVE  rd' = rd /\ rg' = rg /\ (up = "open" => up' = "open") /\ SameView
<1>1. rd' = rd /\ rg' = rg /\ (up = "open" => up' = "open")
  BY DEF Elsewhere, Compaction, WorkerStart, SkipMajor, LevelFull, MoveAdd, MoveRemove, MergeFiles, Install,
         DropDemoted, DropRelative, Minor, Compact, CloseMemtable, CloseEnd, Open, vars
<1>2. SameView
  <2>1. CASE CloseMemtable \/ CloseEnd
    BY <2>1, ViewClose DEF ViewInv
  <2>2. CASE Minor
    BY <2>2, ViewMinor DEF ViewInv
  <2>3. CASE \/ WorkerStart \/ SkipMajor \/ LevelFull \/ MoveAdd \/ MoveRemove
             \/ MergeFiles \/ Install \/ DropDemoted \/ DropRelative \/ Open
    <3>1. UNCHANGED <<mem, imm>>
      BY <2>3 DEF WorkerStart, SkipMajor, LevelFull, MoveAdd, MoveRemove, MergeFiles, Install, DropDemoted,
                  DropRelative, Open, Compact, index
    <3> QED BY <2>3, <3>1, ViewKept DEF ViewInv
  <2>4. CASE UNCHANGED vars
    <3>1. UNCHANGED <<mem, imm>>
      BY <2>4 DEF vars, index
    <3> QED BY <2>4, <3>1, QuietSteps, ViewKept DEF ViewInv
  <2> QED BY <2>1, <2>2, <2>3, <2>4 DEF Elsewhere, Compaction
<1> QED BY <1>1, <1>2

LEMMA RdKept ==
  ASSUME RdOK, ViewInv, Inv', InTime, [Next]_vars, RdGrows, SameView, up = "open" => up' = "open"
  PROVE  RdOK'
<1>1. ASSUME NEW k \in Lbas, rd.pc # "idle", rd.key = k PROVE View(k)' \in rd'.ok
  <2>1. PICK pc, ok : pc = rd.pc /\ ok = rd.ok
    OBVIOUS
  <2>2. Ahead(k, pc, ok)
    BY <1>1, <2>1 DEF RdOK
  <2>3. View(k) \in rd.ok
    BY <2>1, <2>2 DEF Ahead
  <2> QED BY <2>3 DEF SameView, RdGrows
<1> QED BY <1>1, RdNextGrows DEF RdOK

LEMMA PutSteps ==
  ASSUME ViewInv, Inv', NEW k \in Lbas, Put(k) \/ PutNegative(k)
  PROVE  /\ up' = up /\ [Next]_vars
         /\ \E r \in Int, frees \in BOOLEAN : Overtake(k, r, frees) /\ Becomes(k, r)
<1>1. Inv /\ MergeOut /\ n \in Nat
  BY DEF ViewInv, Inv, RecordsOK
<1>2. up' = up
  BY DEF Put, PutNegative
<1>3. [Next]_vars
  BY DEF Next
<1>4. CASE Put(k) /\ Becomes(k, n + 1)
  <2>1. PICK r : r = n + 1
    OBVIOUS
  <2>2. PICK frees : frees = (mem.ents[k].val # 0 /\ rd.rec = mem.ents[k].val)
    OBVIOUS
  <2>3. Overtake(k, r, frees)
    BY <1>4, <2>1, <2>2 DEF Put, Overtake
  <2>4. frees \in BOOLEAN /\ r \in Int
    BY <1>1, <2>1, <2>2
  <2>5. Becomes(k, r)
    BY <1>4, <2>1 DEF Becomes
  <2> QED BY <1>2, <1>3, <2>3, <2>4, <2>5
<1>5. CASE PutNegative(k) /\ Becomes(k, 0)
  <2>1. Overtake(k, 0, TRUE)
    BY <1>5 DEF PutNegative
  <2>2. 0 \in Int /\ TRUE \in BOOLEAN
    OBVIOUS
  <2>3. Overtake(k, 0, TRUE) /\ Becomes(k, 0)
    BY <1>5, <2>1
  <2>4. \E r \in Int, frees \in BOOLEAN : Overtake(k, r, frees) /\ Becomes(k, r)
    <3> WITNESS 0 \in Int, TRUE \in BOOLEAN
    <3> QED BY <2>3
  <2> QED BY <1>2, <1>3, <2>4
<1> QED BY <1>1, <1>4, <1>5, ViewPut

LEMMA RdPut ==
  ASSUME RdOK, ViewInv, Inv', InTime, NEW k \in Lbas, Put(k) \/ PutNegative(k)
  PROVE  RdOK'
<1>1. rd \in Rds /\ up' = up /\ [Next]_vars
  BY PutSteps DEF RdOK
<1>2. PICK r \in Int, frees \in BOOLEAN : Overtake(k, r, frees) /\ Becomes(k, r)
  BY PutSteps
<1>3. RdGrows /\ (rd.pc # "idle" /\ rd.key = k => r \in rd'.ok)
  BY <1>1, <1>2, RdOvertaken
<1>4. ASSUME NEW x \in Lbas, rd.pc # "idle", rd.key = x PROVE View(x)' \in rd'.ok
  <2>1. CASE x = k
    BY <1>2, <1>3, <1>4, <2>1 DEF Becomes
  <2>2. CASE x # k
    <3>1. PICK pc, ok : pc = rd.pc /\ ok = rd.ok
      OBVIOUS
    <3>2. Ahead(x, pc, ok)
      BY <1>4, <3>1 DEF RdOK
    <3>3. View(x) \in rd.ok
      BY <3>1, <3>2 DEF Ahead
    <3> QED BY <1>2, <1>3, <2>2, <3>3 DEF Becomes, RdGrows
  <2> QED BY <2>1, <2>2
<1> QED BY <1>1, <1>3, <1>4, RdNextGrows DEF RdOK

LEMMA IdleRdOK == IdleRd \in Rds /\ IdleRd.pc = "idle" /\ IdleRd.stale = FALSE
<1>1. 0 \in Lbas
  BY LsmAssumption DEF Lbas
<1> QED BY <1>1 DEF IdleRd, Rds

LEMMA RdNext ==
  ASSUME RdOK, ViewInv, Inv', InTime, EmptyApart, [Next]_vars
  PROVE  RdOK'
<1>1. rd \in Rds /\ Inv /\ MergeOut /\ Backed
  BY DEF RdOK, ViewInv
<1>2. ASSUME NEW k \in Lbas, Put(k) \/ PutNegative(k) PROVE RdOK'
  BY <1>2, RdPut
<1>3. CASE Rotate
  BY <1>1, <1>3, RdRotate, ViewRotate, RdKept DEF Rotate
<1>4. CASE Searching
  <2>1. CASE RdSteps
    BY <2>1, RdSearchMem, RdSearchImm, RdSearchLevels DEF RdSteps
  <2>2. CASE RgSteps
    <3>1. rd' = rd /\ up' = up /\ SameView
      BY <1>4, <2>2, SearchSteps DEF RgSteps, RangeMem, RangeImm, RangeLevel0, RangeLevel1
    <3>2. RdGrows
      BY <1>1, <3>1 DEF RdGrows
    <3> QED BY <3>1, <3>2, RdKept
  <2> QED BY <1>4, <2>1, <2>2, SearchSteps
<1>5. CASE Close
  BY <1>5, IdleRdOK DEF Close, RdOK
<1>6. CASE Elsewhere
  <2>1. rd' = rd /\ (up = "open" => up' = "open") /\ SameView
    BY <1>6, ElsewhereKeeps
  <2>2. RdGrows
    BY <1>1, <2>1 DEF RdGrows
  <2> QED BY <2>1, <2>2, RdKept
<1> QED BY <1>2, <1>3, <1>4, <1>5, <1>6 DEF Next, Elsewhere

(* FreshUnlessHazard: what lsm_tree_search returns was the record of its   *)
(* lba at some moment of the call, whatever rotation and compaction did    *)
(* between the places it looks at, unless the record it had found in a     *)
(* memtable was freed before it was copied or level 1 was searched while a *)
(* merge replaced its files, or a memtable was destroyed with its work     *)
(* still queued.                                                           *)
THEOREM SearchFresh == Spec => []FreshUnlessHazard
<1> DEFINE J == ViewInv /\ EmptyApart /\ lost \in Nat /\ (lost = 0 => RdOK)
<1>1. Init => J
  <2> SUFFICES ASSUME Init PROVE J
    OBVIOUS
  <2>1. job.pc = "idle" /\ rd = IdleRd /\ lost \in Nat
    BY DEF Init, IdleJob
  <2> QED BY <2>1, ViewInvInit, IdleRdOK DEF EmptyApart, RdOK
<1>2. J /\ [Next]_vars => J'
  <2> SUFFICES ASSUME J, [Next]_vars PROVE J'
    OBVIOUS
  <2>1. ViewInv' /\ Inv' /\ MemOK /\ Disk
    BY ViewInvNext DEF ViewInv, Inv
  <2>2. lost' \in Nat /\ (lost' = 0 => InTime /\ lost = 0)
    BY NothingLost
  <2>3. EmptyApart'
    BY <2>1, EmptyApartNext
  <2>4. lost' = 0 => RdOK'
    BY <2>1, <2>2, RdNext
  <2> QED BY <2>1, <2>2, <2>3, <2>4
<1>3. J => FreshUnlessHazard
  <2>1. ASSUME lost \in Nat, lost # 0 PROVE lost > 0
    BY <2>1
  <2> QED BY <2>1 DEF RdOK, FreshUnlessHazard
<1> QED BY <1>1, <1>2, <1>3, PTL DEF Spec

-----------------------------------------------------------------------------
(* lsm_tree_range_search. *)

Results == {<<>>} \cup UNION {[ks -> Int] : ks \in SUBSET Lbas}
Allowed == {<<>>} \cup UNION {[ks -> SUBSET Int] : ks \in SUBSET Lbas}

Rgs == [pc : {"idle", "mem", "l0", "l1"}, keys : SUBSET Lbas, res : Results, ok : Allowed,
        pair : BOOLEAN, window : BOOLEAN, stale : BOOLEAN]

(* Where a range search looks next for the keys it misses. *)
Stage(pc) == IF pc = "mem" THEN "imm" ELSE pc

(* A missing key has an answer ahead; a record found is an answer, unless  *)
(* a negative record was taken in its place.                               *)
Found(k, st, ok, r, pair) ==
  /\ r = 0 => Ahead(k, st, ok)
  /\ r # 0 /\ ~pair => Norm(r) \in ok

RgOK ==
  /\ rg \in Rgs
  /\ rg.pc # "idle" => /\ up = "open" /\ ~rg.stale
                       /\ rg.res \in [rg.keys -> Int] /\ rg.ok \in [rg.keys -> SUBSET Int]
  /\ rg.pc = "idle" => rg.keys = {}
  /\ rg.pc \in {"mem", "l0"} => ~rg.pair
  /\ \A k \in Lbas : \A st, ok, r, pair :
       /\ rg.pc # "idle" /\ k \in rg.keys
       /\ st = Stage(rg.pc) /\ ok = rg.ok[k] /\ r = rg.res[k] /\ pair = rg.pair
       => Found(k, st, ok, r, pair)
  /\ rg.stale => rg.pair \/ rg.window

(* What another thread's step does to the search. *)
RgGrows ==
  /\ rg' \in Rgs /\ rg'.pc = rg.pc /\ rg'.keys = rg.keys /\ rg'.res = rg.res
  /\ rg'.pair = rg.pair /\ rg'.window = rg.window /\ rg'.stale = rg.stale
  /\ rg.pc # "idle" => /\ rg'.ok \in [rg.keys -> SUBSET Int]
                       /\ \A k \in rg.keys : rg.ok[k] \subseteq rg'.ok[k]

LEMMA RgOvertaken ==
  ASSUME RgOK, NEW k \in Lbas, NEW r \in Int, NEW frees, Overtake(k, r, frees)
  PROVE  RgGrows /\ (k \in rg.keys => r \in rg'.ok[k])
<1>1. rg \in Rgs /\ (rg.pc # "idle" => rg.ok \in [rg.keys -> SUBSET Int]) /\ (rg.pc = "idle" => rg.keys = {})
  BY DEF RgOK
<1>2. CASE k \notin rg.keys
  <2>1. rg' = rg
    BY <1>2 DEF Overtake
  <2> QED BY <1>1, <1>2, <2>1 DEF RgGrows
<1>3. CASE k \in rg.keys
  <2>1. PICK oz : oz = [rg.ok EXCEPT ![k] = rg.ok[k] \cup {r}]
    OBVIOUS
  <2>2. rg' = [rg EXCEPT !.ok = oz]
    BY <1>3, <2>1 DEF Overtake
  <2>3. /\ oz \in [rg.keys -> SUBSET Int] /\ oz[k] = rg.ok[k] \cup {r}
        /\ \A x \in rg.keys : rg.ok[x] \subseteq oz[x]
    BY <1>1, <1>3, <2>1
  <2>4. oz \in Allowed
    BY <1>1, <2>3 DEF Allowed, Rgs
  <2>5. /\ rg' \in Rgs /\ rg'.pc = rg.pc /\ rg'.keys = rg.keys /\ rg'.res = rg.res
        /\ rg'.pair = rg.pair /\ rg'.window = rg.window /\ rg'.stale = rg.stale /\ rg'.ok = oz
    BY <1>1, <2>2, <2>4 DEF Rgs
  <2> QED BY <2>3, <2>5 DEF RgGrows
<1> QED BY <1>2, <1>3

LEMMA RgNextGrows ==
  ASSUME RgOK, RgGrows, ViewInv, Inv', InTime, [Next]_vars,
         rg.pc # "idle" => up' = "open",
         \A k \in Lbas : rg.pc # "idle" /\ k \in rg.keys /\ rg.res[k] = 0 => View(k)' \in rg'.ok[k]
  PROVE  RgOK'
<1>1. /\ rg' \in Rgs /\ rg'.pc = rg.pc /\ rg'.keys = rg.keys /\ rg'.res = rg.res
      /\ rg'.pair = rg.pair /\ rg'.window = rg.window /\ rg'.stale = rg.stale
      /\ rg.pc # "idle" => /\ rg'.ok \in [rg.keys -> SUBSET Int]
                           /\ \A k \in rg.keys : rg.ok[k] \subseteq rg'.ok[k]
  BY DEF RgGrows
<1>2. ASSUME NEW k \in Lbas, NEW st, NEW ok, NEW r, NEW pair, rg'.pc # "idle", k \in rg'.keys,
             st = Stage(rg'.pc), ok = rg'.ok[k], r = rg'.res[k], pair = rg'.pair
      PROVE  Found(k, st, ok, r, pair)'
  <2>1. PICK o : o = rg.ok[k]
    OBVIOUS
  <2>2. o \subseteq ok /\ up = "open" /\ (r = 0 => View(k)' \in ok)
    BY <1>1, <1>2, <2>1 DEF RgOK
  <2>3. Found(k, st, o, r, pair)
    BY <1>1, <1>2, <2>1 DEF RgOK
  <2>4. r = 0 => Ahead(k, st, ok)'
    BY <2>2, <2>3, AheadNext DEF Found
  <2>5. r # 0 /\ ~pair => Norm(r) \in ok
    BY <2>2, <2>3 DEF Found
  <2>6. Norm(r)' = Norm(r)
    BY DEF Norm, NEG
  <2> QED BY <2>4, <2>5, <2>6 DEF Found
<1>3. /\ rg'.pc # "idle" => /\ up' = "open" /\ ~rg'.stale
                            /\ rg'.res \in [rg'.keys -> Int] /\ rg'.ok \in [rg'.keys -> SUBSET Int]
      /\ rg'.pc = "idle" => rg'.keys = {}
      /\ rg'.pc \in {"mem", "l0"} => ~rg'.pair
  BY <1>1 DEF RgOK
<1>4. rg'.stale => rg'.pair \/ rg'.window
  BY <1>1 DEF RgOK
<1> QED BY <1>1, <1>2, <1>3, <1>4 DEF RgOK, Stage

LEMMA RgKept ==
  ASSUME RgOK, ViewInv, Inv', InTime, [Next]_vars, rg' = rg, SameView, up = "open" => up' = "open"
  PROVE  RgOK'
<1>1. RgGrows
  BY DEF RgGrows, RgOK
<1>2. ASSUME NEW k \in Lbas, rg.pc # "idle", k \in rg.keys, rg.res[k] = 0 PROVE View(k)' \in rg'.ok[k]
  <2>1. PICK st, ok, r, pair : st = Stage(rg.pc) /\ ok = rg.ok[k] /\ r = rg.res[k] /\ pair = rg.pair
    OBVIOUS
  <2>2. Found(k, st, ok, r, pair)
    BY <1>2, <2>1 DEF RgOK
  <2>3. View(k) \in ok
    BY <1>2, <2>1, <2>2 DEF Found, Ahead
  <2> QED BY <2>1, <2>3 DEF SameView
<1> QED BY <1>1, <1>2, RgNextGrows DEF RgOK

LEMMA RgPut ==
  ASSUME RgOK, ViewInv, Inv', InTime, NEW k \in Lbas, Put(k) \/ PutNegative(k)
  PROVE  RgOK'
<1>1. up' = up /\ [Next]_vars
  BY PutSteps
<1>2. PICK r \in Int, frees \in BOOLEAN : Overtake(k, r, frees) /\ Becomes(k, r)
  BY PutSteps
<1>3. RgGrows /\ (k \in rg.keys => r \in rg'.ok[k])
  BY <1>2, RgOvertaken
<1>4. ASSUME NEW x \in Lbas, rg.pc # "idle", x \in rg.keys, rg.res[x] = 0 PROVE View(x)' \in rg'.ok[x]
  <2>1. CASE x = k
    BY <1>2, <1>3, <1>4, <2>1 DEF Becomes
  <2>2. CASE x # k
    <3>1. PICK st, ok, q, pair : st = Stage(rg.pc) /\ ok = rg.ok[x] /\ q = rg.res[x] /\ pair = rg.pair
      OBVIOUS
    <3>2. Found(x, st, ok, q, pair)
      BY <1>4, <3>1 DEF RgOK
    <3>3. View(x) \in rg.ok[x]
      BY <1>4, <3>1, <3>2 DEF Found, Ahead
    <3> QED BY <1>2, <1>3, <1>4, <2>2, <3>3 DEF Becomes, RgGrows
  <2> QED BY <2>1, <2>2
<1> QED BY <1>1, <1>3, <1>4, RgNextGrows DEF RgOK

(* The search returns, with the records found in res. *)
LEMMA RgIdle ==
  ASSUME NEW stale \in BOOLEAN, NEW pair \in BOOLEAN, NEW window \in BOOLEAN, NEW none, none = {}, NEW em, em = <<>>,
         rg' = [pc |-> "idle", keys |-> none, res |-> em, ok |-> em, pair |-> pair, window |-> window, stale |-> stale],
         stale => pair \/ window
  PROVE  RgOK'
<1>1. none \in SUBSET Lbas /\ em \in Results /\ em \in Allowed
  BY DEF Results, Allowed
<1>2. rg' \in Rgs
  BY <1>1 DEF Rgs
<1>3. rg'.pc = "idle" /\ rg'.keys = none /\ rg'.pair = pair /\ rg'.window = window /\ rg'.stale = stale
  OBVIOUS
<1> QED BY <1>2, <1>3 DEF RgOK

Returns(res, pair, window) ==
  rg' = [[IdleRg EXCEPT !.pair = rg.pair, !.window = rg.window,
            !.stale = \E k \in rg.keys : Norm(res[k]) \notin rg.ok[k]]
           EXCEPT !.pair = pair, !.window = window]

LEMMA RgDone ==
  ASSUME NEW res, NEW pair \in BOOLEAN, NEW window \in BOOLEAN,
         Returns(res, pair, window), pair \/ window \/ \A k \in rg.keys : Norm(res[k]) \in rg.ok[k]
  PROVE  RgOK'
<1>1. PICK stale : stale = (\E k \in rg.keys : Norm(res[k]) \notin rg.ok[k])
  OBVIOUS
<1>2. stale \in BOOLEAN /\ (stale => pair \/ window)
  BY <1>1
<1>3. PICK none, em : none = {} /\ em = <<>>
  OBVIOUS
<1>4. rg' = [pc |-> "idle", keys |-> none, res |-> em, ok |-> em, pair |-> pair, window |-> window, stale |-> stale]
  BY <1>1, <1>3 DEF Returns, IdleRg
<1> QED BY <1>2, <1>3, <1>4, RgIdle

(* The search goes on from pc. *)
LEMMA RgOnward ==
  ASSUME ViewInv, Inv', InTime, Searching, RgOK, rg.pc # "idle",
         NEW pc \in {"l0", "l1"}, NEW res \in [rg.keys -> Int], NEW pair \in BOOLEAN, pc = "l0" => ~pair,
         rg' = [rg EXCEPT !.res = res, !.pc = pc, !.pair = pair],
         \A k \in rg.keys : \A ok, r : ok = rg.ok[k] /\ r = res[k] => Found(k, pc, ok, r, pair)
  PROVE  RgOK'
<1>1. up' = up /\ SameView /\ [Next]_vars /\ up = "open"
  BY SearchSteps DEF Next, RgOK
<1>2. rg \in Rgs /\ ~rg.stale /\ rg.ok \in [rg.keys -> SUBSET Int] /\ rg.keys \in SUBSET Lbas
  BY DEF RgOK, Rgs
<1>3. res \in Results
  BY <1>2 DEF Results
<1>4. /\ rg' \in Rgs /\ rg'.pc = pc /\ rg'.keys = rg.keys /\ rg'.res = res /\ rg'.ok = rg.ok /\ rg'.pair = pair
      /\ rg'.stale = rg.stale
  BY <1>2, <1>3 DEF Rgs
<1>5. ASSUME NEW k \in rg.keys, NEW ok, NEW r, ok = rg.ok[k], r = res[k] PROVE Found(k, pc, ok, r, pair)'
  <2>1. Found(k, pc, ok, r, pair) /\ k \in Lbas
    BY <1>2, <1>5
  <2>2. r = 0 => Ahead(k, pc, ok)'
    <3>1. r = 0 => View(k)' \in ok
      BY <1>1, <2>1 DEF Found, Ahead, SameView
    <3> QED BY <1>1, <2>1, <3>1, AheadNext DEF Found
  <2>3. Norm(r)' = Norm(r)
    BY DEF Norm, NEG
  <2> QED BY <2>1, <2>2, <2>3 DEF Found
<1>6. Stage(pc) = pc /\ pc # "idle"
  BY DEF Stage
<1> QED BY <1>1, <1>2, <1>4, <1>5, <1>6 DEF RgOK

LEMMA RgMem ==
  ASSUME ViewInv, Inv', InTime, NEW lo \in Lbas, NEW hi \in lo .. NrLba - 1, RangeMem(lo, hi)
  PROVE  RgOK'
<1>1. MemOK /\ Inv /\ MergeOut /\ Searching /\ up = "open"
  BY DEF ViewInv, Inv, Searching, RangeMem, MUnlocked
<1>2. up' = up /\ SameView /\ [Next]_vars
  BY <1>1, SearchSteps DEF Next
<1>3. PICK ks : ks = lo .. hi
  OBVIOUS
<1>4. ks \in SUBSET Lbas
  BY <1>3, LsmAssumption DEF Lbas
<1>5. PICK res : res = [k \in ks |-> Get(mem, k)]
  OBVIOUS
<1>6. PICK ok : ok = [k \in ks |-> {View(k)}]
  OBVIOUS
<1>7. res \in [ks -> Int]
  <2>1. \A k \in ks : Get(mem, k) \in Int
    BY <1>1, <1>4, GetIs
  <2> QED BY <1>5, <2>1
<1>8. ok \in [ks -> SUBSET Int]
  <2>1. \A k \in ks : View(k) \in Int
    BY <1>1, <1>4, ViewType
  <2>2. \A k \in ks : {View(k)} \in SUBSET Int
    BY <2>1
  <2> QED BY <1>6, <2>2
<1>9. rg' = [pc |-> "mem", keys |-> ks, res |-> res, ok |-> ok, pair |-> FALSE, window |-> FALSE, stale |-> FALSE]
  BY <1>3, <1>5, <1>6 DEF RangeMem, IdleRg
<1>10. res \in Results /\ ok \in Allowed
  BY <1>4, <1>7, <1>8 DEF Results, Allowed
<1>11. /\ rg' \in Rgs /\ rg'.pc = "mem" /\ rg'.keys = ks /\ rg'.res = res /\ rg'.ok = ok /\ rg'.pair = FALSE
       /\ rg'.stale = FALSE
  BY <1>4, <1>9, <1>10 DEF Rgs
<1>12. ASSUME NEW k \in ks, NEW oz, NEW r, oz = ok[k], r = res[k] PROVE Found(k, "imm", oz, r, FALSE)'
  <2>1. k \in Lbas /\ oz = {View(k)} /\ r = Get(mem, k)
    BY <1>4, <1>5, <1>6, <1>12
  <2>2. r = 0 => Ahead(k, "imm", oz)'
    <3>1. r = 0 => Ahead(k, "imm", oz)
      BY <1>1, <2>1, AheadImm, GetIs
    <3>2. View(k)' \in oz
      BY <1>2, <2>1 DEF SameView
    <3> QED BY <1>1, <1>2, <2>1, <3>1, <3>2, AheadNext
  <2>3. r # 0 => Norm(r) \in oz
    <3>1. PICK v : Shows(k, v)
      BY <1>1, <2>1, ShowsSome DEF Inv
    <3>2. View(k) = Seen(k, v)
      BY <1>1, <2>1, <3>1, ViewIs
    <3> QED BY <1>1, <2>1, <3>2, GetIs DEF Seen
  <2>4. Norm(r)' = Norm(r)
    BY DEF Norm, NEG
  <2> QED BY <2>2, <2>3, <2>4 DEF Found
<1> QED BY <1>1, <1>2, <1>7, <1>8, <1>11, <1>12 DEF RgOK, Stage

(* The records a running search has so far and its answers, per key. *)
LEMMA RgFound ==
  ASSUME RgOK, rg.pc # "idle", NEW k \in rg.keys, NEW ok, NEW r, ok = rg.ok[k], r = rg.res[k]
  PROVE  /\ k \in Lbas /\ r \in Int
         /\ r = 0 => Ahead(k, Stage(rg.pc), ok)
         /\ r # 0 /\ ~rg.pair => Norm(r) \in ok
<1>1. rg.keys \in SUBSET Lbas /\ rg.res \in [rg.keys -> Int]
  BY DEF RgOK, Rgs
<1>2. PICK st, pair : st = Stage(rg.pc) /\ pair = rg.pair
  OBVIOUS
<1>3. Found(k, st, ok, r, pair)
  BY <1>1, <1>2 DEF RgOK
<1> QED BY <1>1, <1>2, <1>3 DEF Found

LEMMA RgImm ==
  ASSUME ViewInv, Inv', InTime, RgOK, RangeImm
  PROVE  RgOK'
<1>1. MemOK /\ Searching /\ rg.pc = "mem" /\ rg \in Rgs /\ rg.pair = FALSE /\ rg.window \in BOOLEAN
  BY DEF ViewInv, Inv, Searching, RangeImm, RgOK, Rgs
<1>2. PICK res : res = [k \in rg.keys |-> IF rg.res[k] # 0 THEN rg.res[k] ELSE Get(imm, k)]
  OBVIOUS
<1>3. rg' = RangeNext(res, "l0")
  BY <1>2 DEF RangeImm
<1>4. ASSUME NEW k \in rg.keys, NEW ok, NEW r, ok = rg.ok[k], r = res[k]
      PROVE  k \in Lbas /\ r \in Int /\ Found(k, "l0", ok, r, FALSE)
  <2>1. PICK q : q = rg.res[k]
    OBVIOUS
  <2>2. k \in Lbas /\ q \in Int /\ (q = 0 => Ahead(k, "imm", ok)) /\ (q # 0 => Norm(q) \in ok)
    BY <1>1, <1>4, <2>1, RgFound DEF Stage
  <2>3. r = IF q # 0 THEN q ELSE Get(imm, k)
    BY <1>2, <1>4, <2>1
  <2>4. CASE q # 0
    BY <2>2, <2>3, <2>4 DEF Found
  <2>5. CASE q = 0 /\ k \in KeysIn(imm.ents)
    BY <1>1, <2>2, <2>3, <2>5, GetIs DEF Found, Ahead, ImmIn
  <2>6. CASE q = 0 /\ k \notin KeysIn(imm.ents)
    BY <1>1, <2>2, <2>3, <2>6, GetIs, AheadLevel0 DEF Found
  <2> QED BY <2>4, <2>5, <2>6
<1>5. CASE Missing(res) = {}
  <2>1. \A k \in rg.keys : Norm(res[k]) \in rg.ok[k]
    BY <1>4, <1>5 DEF Missing, Found
  <2>2. PICK pair, window : pair = rg.pair /\ window = rg.window
    OBVIOUS
  <2>3. Returns(res, pair, window)
    BY <1>3, <1>5, <2>2 DEF RangeNext, IdleRg, Returns
  <2> QED BY <1>1, <2>1, <2>2, <2>3, RgDone
<1>6. CASE Missing(res) # {}
  <2>1. rg' = [rg EXCEPT !.res = res, !.pc = "l0", !.pair = FALSE]
    BY <1>1, <1>3, <1>6 DEF RangeNext, Rgs
  <2>2. res \in [rg.keys -> Int]
    BY <1>2, <1>4
  <2> QED BY <1>1, <1>4, <2>1, <2>2, RgOnward
<1> QED BY <1>5, <1>6

(* What bit_file_range_search makes of the records found so far. *)
LEMMA FileRangeIs ==
  ASSUME files \in [Fds -> FileTypes], NEW f \in Fds, NEW ks \in SUBSET Lbas, NEW res \in [ks -> Int], NEW miss
  PROVE  /\ FileRange(f, res, miss) \in [ks -> Int]
         /\ \A k \in ks : /\ res[k] # 0 \/ ~Has(files, f, k) => FileRange(f, res, miss)[k] = res[k]
                          /\ res[k] = 0 /\ Has(files, f, k) =>
                               /\ FileRange(f, res, miss)[k] # 0
                               /\ \/ k \in miss /\ Paired(f, k)
                                  \/ Norm(FileRange(f, res, miss)[k]) = ValIn(f, k)
<1>1. DOMAIN res = ks /\ files[f].ents \in Entries
  BY DEF FileTypes
<1>2. PICK es : es = files[f].ents
  OBVIOUS
<1>3. ASSUME NEW k \in ks
      PROVE  /\ First(es, k) \in Int /\ (First(es, k) # 0 <=> k \in KeysIn(es))
             /\ k \in KeysIn(es) => Norm(First(es, k)) = es[k].val
  <2>1. k \in Lbas /\ es \in Entries /\ es[k].val \in Nat
    BY <1>1, <1>2, FirstOf
  <2>2. First(es, k) \in Int
    BY <2>1 DEF First, NEG
  <2> QED BY <2>1, <2>2, FirstOf
<1>4. PICK new : new = FileRange(f, res, miss)
  OBVIOUS
<1>5. new = [k \in ks |-> IF res[k] # 0 \/ First(es, k) = 0 THEN res[k]
                          ELSE IF k \in miss /\ Paired(f, k) THEN NEG ELSE First(es, k)]
  BY <1>1, <1>2, <1>4 DEF FileRange, FileSearch
<1>6. NEG \in Int /\ NEG # 0
  BY DEF NEG
<1>7. new \in [ks -> Int]
  BY <1>3, <1>5, <1>6
<1>8. ASSUME NEW k \in ks
      PROVE  /\ res[k] # 0 \/ ~Has(files, f, k) => new[k] = res[k]
             /\ res[k] = 0 /\ Has(files, f, k) =>
                  new[k] # 0 /\ ((k \in miss /\ Paired(f, k)) \/ Norm(new[k]) = ValIn(f, k))
  BY <1>2, <1>3, <1>5, <1>6 DEF Has, ValIn
<1> QED BY <1>4, <1>7, <1>8

LEMMA RgLevel0 ==
  ASSUME ViewInv, Inv', InTime, RgOK, RangeLevel0
  PROVE  RgOK'
<1>1. /\ Disk /\ Searching /\ rg.pc = "l0" /\ rg \in Rgs /\ ~rg.pair /\ rg.window \in BOOLEAN
      /\ rg.keys \in SUBSET Lbas /\ rg.res \in [rg.keys -> Int]
  BY DEF ViewInv, Inv, Searching, RangeLevel0, RgOK, Rgs
<1>2. PICK miss \in SUBSET rg.keys :
        rg' = [RangeNext(IF l0 = <<>> THEN rg.res ELSE FileRange(l0[1], rg.res, miss), "l1")
                 EXCEPT !.pair = l0 # <<>> /\ \E k \in miss \cap Missing(rg.res) : Paired(l0[1], k)]
  BY DEF RangeLevel0
<1>3. PICK res : res = IF l0 = <<>> THEN rg.res ELSE FileRange(l0[1], rg.res, miss)
  OBVIOUS
<1>4. PICK pair : pair = (l0 # <<>> /\ \E k \in miss \cap Missing(rg.res) : Paired(l0[1], k))
  OBVIOUS
<1>5. pair \in BOOLEAN
  BY <1>4
<1>6. rg' = [RangeNext(res, "l1") EXCEPT !.pair = pair]
  BY <1>2, <1>3, <1>4
<1>7. files \in [Fds -> FileTypes] /\ (l0 # <<>> => l0[1] \in Fds)
  BY <1>1, OneFile DEF Disk, DiskTypes, LevelsOK
<1>8. /\ res \in [rg.keys -> Int]
      /\ \A k \in rg.keys : /\ rg.res[k] # 0 \/ ~OnTop(k) => res[k] = rg.res[k]
                            /\ rg.res[k] = 0 /\ OnTop(k) =>
                                 res[k] # 0 /\ (pair \/ Norm(res[k]) = ValIn(l0[1], k))
  <2>1. CASE l0 = <<>>
    BY <1>1, <1>3, <2>1 DEF OnTop
  <2>2. CASE l0 # <<>>
    <3>1. PICK f : f = l0[1]
      OBVIOUS
    <3>2. res = FileRange(f, rg.res, miss) /\ f \in Fds
      BY <1>3, <1>7, <2>2, <3>1
    <3>3. PICK ks, first : ks = rg.keys /\ first = rg.res
      OBVIOUS
    <3>4. ks \in SUBSET Lbas /\ first \in [ks -> Int]
      BY <1>1, <3>3
    <3>5. /\ res \in [ks -> Int]
          /\ \A k \in ks : /\ first[k] # 0 \/ ~Has(files, f, k) => res[k] = first[k]
                           /\ first[k] = 0 /\ Has(files, f, k) =>
                                res[k] # 0 /\ ((k \in miss /\ Paired(f, k)) \/ Norm(res[k]) = ValIn(f, k))
      <4>1. res = FileRange(f, first, miss)
        BY <3>2, <3>3
      <4> QED BY <1>7, <3>2, <3>4, <4>1, FileRangeIs
    <3>6. \A k \in rg.keys : rg.res[k] = 0 /\ k \in miss /\ Paired(f, k) => pair
      BY <1>4, <2>2, <3>1 DEF Missing
    <3>7. \A k \in rg.keys : OnTop(k) <=> Has(files, f, k)
      BY <2>2, <3>1 DEF OnTop
    <3> QED BY <3>1, <3>3, <3>5, <3>6, <3>7
  <2> QED BY <2>1, <2>2
<1>9. ASSUME NEW k \in rg.keys, NEW ok, NEW r, ok = rg.ok[k], r = res[k]
      PROVE  Found(k, "l1", ok, r, pair)
  <2>1. PICK q : q = rg.res[k]
    OBVIOUS
  <2>2. k \in Lbas /\ q \in Int /\ (q = 0 => Ahead(k, "l0", ok)) /\ (q # 0 => Norm(q) \in ok)
    BY <1>1, <1>9, <2>1, RgFound DEF Stage
  <2>3. CASE q # 0
    BY <1>8, <1>9, <2>1, <2>2, <2>3 DEF Found
  <2>4. CASE q = 0 /\ OnTop(k)
    <3>1. r # 0 /\ (pair \/ Norm(r) = ValIn(l0[1], k))
      BY <1>8, <1>9, <2>1, <2>4
    <3>2. PICK v : v = ValIn(l0[1], k)
      OBVIOUS
    <3>3. v \in ok
      BY <2>2, <2>4, <3>2, FoundLevel0
    <3> QED BY <3>1, <3>2, <3>3 DEF Found
  <2>5. CASE q = 0 /\ ~OnTop(k)
    <3>1. r = 0
      BY <1>8, <1>9, <2>1, <2>5
    <3>2. Ahead(k, "l1", ok)
      BY <2>2, <2>5, AheadLevel1
    <3> QED BY <3>1, <3>2 DEF Found
  <2> QED BY <2>3, <2>4, <2>5
<1>10. CASE Missing(res) = {}
  <2>1. pair \/ \A k \in rg.keys : Norm(res[k]) \in rg.ok[k]
    BY <1>9, <1>10 DEF Missing, Found
  <2>2. PICK window : window = rg.window
    OBVIOUS
  <2>3. Returns(res, pair, window)
    BY <1>6, <1>10, <2>2 DEF RangeNext, IdleRg, Returns
  <2> QED BY <1>1, <1>5, <2>1, <2>2, <2>3, RgDone
<1>11. CASE Missing(res) # {}
  <2>1. rg' = [[rg EXCEPT !.res = res, !.pc = "l1"] EXCEPT !.pair = pair]
    BY <1>6, <1>11 DEF RangeNext
  <2>2. rg' = [rg EXCEPT !.res = res, !.pc = "l1", !.pair = pair]
    BY <2>1
  <2> QED BY <1>1, <1>5, <1>8, <1>9, <2>2, RgOnward
<1> QED BY <1>10, <1>11

(* bit_level_range_search of level 1: the keys in order. *)
RangeTurn(res, k, ks, miss) ==
  IF k \notin ks \/ Locate(l1, k) = 0 THEN res
  ELSE IF res[k] # 0 THEN res ELSE FileRange(l1[Locate(l1, k)], res, miss)

RangeFn(g, ks, first, miss) ==
  g = [k \in 0 .. NrLba |-> IF k = 0 THEN first ELSE RangeTurn(g[k - 1], k - 1, ks, miss)]

RangeOver(ks, first, miss) == (CHOOSE g : RangeFn(g, ks, first, miss))[NrLba]

LEMMA RangeLevel1Is ==
  ASSUME RangeLevel1
  PROVE  \E miss \in SUBSET rg.keys :
           rg' = [RangeNext(RangeOver(rg.keys, rg.res, miss), "done")
                    EXCEPT !.pair = @ \/ \E i \in DOMAIN l1, k \in miss \cap Missing(rg.res) : Paired(l1[i], k),
                           !.window = job.pc \in {"install", "dropdem", "droprel"}]
BY DEF RangeLevel1, RangeOver, RangeFn, RangeTurn

(* What is found for a key when the keys below i have been looked for. *)
RangedTo(i, ks, first, miss, res) ==
  /\ res \in [ks -> Int]
  /\ \A k \in ks :
       /\ first[k] # 0 => res[k] = first[k]
       /\ first[k] = 0 /\ res[k] # 0 =>
            \E f \in Range(l1) : Has(files, f, k) /\ ((k \in miss /\ Paired(f, k)) \/ Norm(res[k]) = ValIn(f, k))
       /\ k < i /\ res[k] = 0 => \A f \in Range(l1) : ~Has(files, f, k)

LEMMA RangeTurnResult ==
  ASSUME Disk, EmptyApart, job.pc \notin Windows, NEW ks \in SUBSET Lbas, NEW first \in [ks -> Int], NEW miss,
         NEW i \in Lbas, NEW res, RangedTo(i, ks, first, miss, res)
  PROVE  RangedTo(i + 1, ks, first, miss, RangeTurn(res, i, ks, miss))
<1>1. /\ files \in [Fds -> FileTypes] /\ Range(l1) \in SUBSET Fds /\ l1 \in Seq(Range(l1)) /\ Ordered(l1)
      /\ \A f \in Range(l1) : Spans(f)
  BY Level1Ordered
<1>2. Range(l1) = {l1[j] : j \in 1 .. Len(l1)} /\ Len(l1) \in Nat
  BY <1>1, RangeIs
<1>3. PICK p : p = Locate(l1, i)
  OBVIOUS
<1>4. p \in 0 .. Len(l1) /\ \A j \in 1 .. Len(l1) : Has(files, l1[j], i) => j = p
  BY <1>1, <1>3, LocateFinds
<1>5. PICK new : new = RangeTurn(res, i, ks, miss)
  OBVIOUS
<1>6. new = IF i \notin ks \/ p = 0 THEN res ELSE IF res[i] # 0 THEN res ELSE FileRange(l1[p], res, miss)
  BY <1>3, <1>5 DEF RangeTurn
<1>7. \A k \in ks : k \in Int /\ (k < i + 1 => k < i \/ k = i)
  BY LsmAssumption DEF Lbas
<1>8. res \in [ks -> Int]
  BY DEF RangedTo
<1>9. CASE i \notin ks
  BY <1>5, <1>6, <1>7, <1>9 DEF RangedTo
<1>10. CASE i \in ks /\ p = 0
  <2>1. \A f \in Range(l1) : ~Has(files, f, i)
    BY <1>2, <1>4, <1>10
  <2> QED BY <1>5, <1>6, <1>7, <1>10, <2>1 DEF RangedTo
<1>11. CASE i \in ks /\ p # 0 /\ res[i] # 0
  BY <1>5, <1>6, <1>7, <1>11 DEF RangedTo
<1>12. CASE i \in ks /\ p # 0 /\ res[i] = 0
  <2>1. p \in 1 .. Len(l1)
    BY <1>2, <1>4, <1>12
  <2>2. PICK f : f = l1[p]
    OBVIOUS
  <2>3. f \in Range(l1) /\ f \in Fds
    BY <1>1, <1>2, <2>1, <2>2
  <2>4. new = FileRange(f, res, miss)
    BY <1>6, <1>12, <2>2
  <2>5. /\ new \in [ks -> Int]
        /\ \A k \in ks : /\ res[k] # 0 \/ ~Has(files, f, k) => new[k] = res[k]
                         /\ res[k] = 0 /\ Has(files, f, k) =>
                              new[k] # 0 /\ ((k \in miss /\ Paired(f, k)) \/ Norm(new[k]) = ValIn(f, k))
    <3>1. files \in [Fds -> FileTypes] /\ f \in Fds
      BY <1>1, <2>3
    <3>2. /\ FileRange(f, res, miss) \in [ks -> Int]
          /\ \A k \in ks : /\ res[k] # 0 \/ ~Has(files, f, k) => FileRange(f, res, miss)[k] = res[k]
                           /\ res[k] = 0 /\ Has(files, f, k) =>
                                /\ FileRange(f, res, miss)[k] # 0
                                /\ \/ k \in miss /\ Paired(f, k)
                                   \/ Norm(FileRange(f, res, miss)[k]) = ValIn(f, k)
      BY <1>8, <3>1, FileRangeIs
    <3> QED BY <2>4, <3>2
  <2>6. new[i] = 0 => \A g \in Range(l1) : ~Has(files, g, i)
    BY <1>2, <1>4, <1>12, <2>2, <2>5
  <2>7. ASSUME NEW k \in ks
        PROVE  /\ first[k] # 0 => new[k] = first[k]
               /\ first[k] = 0 /\ new[k] # 0 =>
                    \E g \in Range(l1) : Has(files, g, k) /\ ((k \in miss /\ Paired(g, k)) \/ Norm(new[k]) = ValIn(g, k))
               /\ k < i + 1 /\ new[k] = 0 => \A g \in Range(l1) : ~Has(files, g, k)
    <3>1. first[k] # 0 => new[k] = first[k]
      BY <2>5 DEF RangedTo
    <3>2. CASE res[k] # 0 \/ ~Has(files, f, k)
      <4>1. new[k] = res[k]
        BY <2>5, <3>2
      <4>2. k < i + 1 /\ new[k] = 0 => \A g \in Range(l1) : ~Has(files, g, k)
        BY <1>7, <2>6, <4>1 DEF RangedTo
      <4> QED BY <3>1, <4>1, <4>2 DEF RangedTo
    <3>3. CASE res[k] = 0 /\ Has(files, f, k)
      BY <2>3, <2>5, <3>1, <3>3
    <3> QED BY <3>2, <3>3
  <2>8. RangedTo(i + 1, ks, first, miss, new)
    BY <2>5, <2>7 DEF RangedTo
  <2> QED BY <1>5, <2>8
<1> QED BY <1>9, <1>10, <1>11, <1>12

LEMMA RangeOverResult ==
  ASSUME Disk, EmptyApart, job.pc \notin Windows, NEW ks \in SUBSET Lbas, NEW first \in [ks -> Int], NEW miss
  PROVE  RangedTo(NrLba, ks, first, miss, RangeOver(ks, first, miss))
<1> DEFINE S == [ks -> Int]
           Turn(k, res) == RangeTurn(res, k - 1, ks, miss)
           st == [k \in 1 .. NrLba |-> [res \in S |-> Turn(k, res)]]
<1>1. NrLba \in Nat /\ \A k \in 1 .. NrLba : k - 1 \in Lbas /\ k - 1 \in 0 .. NrLba
  BY LsmAssumption DEF Lbas
<1>2. ASSUME NEW k \in 1 .. NrLba, NEW res \in S PROVE Turn(k, res) \in S
  <2>1. PICK i : i = k - 1
    OBVIOUS
  <2>2. i \in Lbas
    BY <1>1, <2>1
  <2>3. /\ files \in [Fds -> FileTypes] /\ Range(l1) \in SUBSET Fds /\ l1 \in Seq(Range(l1)) /\ Ordered(l1)
        /\ \A f \in Range(l1) : Spans(f)
    BY Level1Ordered
  <2>4. Locate(l1, i) \in 0 .. Len(l1)
    BY <2>2, <2>3, LocateFinds
  <2>5. Locate(l1, i) # 0 => l1[Locate(l1, i)] \in Fds
    BY <2>3, <2>4
  <2>6. Locate(l1, i) # 0 => FileRange(l1[Locate(l1, i)], res, miss) \in [ks -> Int]
    BY <2>3, <2>5, FileRangeIs
  <2> QED BY <2>1, <2>6 DEF RangeTurn
<1>3. st \in [1 .. NrLba -> [S -> S]]
  <2> HIDE DEF Turn, S
  <2> QED BY <1>2
<1>4. PICK G : Loop(G, NrLba, S, first, st)
  <2>1. first \in S
    OBVIOUS
  <2> HIDE DEF st, S
  <2> QED BY <1>1, <1>3, <2>1, LoopExists
<1>5. ASSUME NEW k \in 1 .. NrLba PROVE G[k] = Turn(k, G[k - 1]) /\ k - 1 \in 0 .. NrLba
  <2>1. G[k] = st[k][G[k - 1]] /\ G[k - 1] \in S
    <3> HIDE DEF st, S
    <3> QED BY <1>1, <1>4 DEF Loop
  <2>2. st[k][G[k - 1]] = Turn(k, G[k - 1])
    <3> HIDE DEF Turn, S
    <3> QED BY <2>1
  <2> QED BY <1>1, <2>1, <2>2
<1>6. RangeFn(G, ks, first, miss)
  <2>1. G \in [0 .. NrLba -> S] /\ G[0] = first
    BY <1>4 DEF Loop
  <2>2. \A k \in 0 .. NrLba : k = 0 \/ k \in 1 .. NrLba
    BY <1>1
  <2>3. \A k \in 0 .. NrLba : G[k] = IF k = 0 THEN first ELSE Turn(k, G[k - 1])
    <3> HIDE DEF Turn
    <3> QED BY <1>5, <2>1, <2>2
  <2> HIDE DEF S
  <2> QED BY <2>1, <2>3 DEF RangeFn
<1> DEFINE m == CHOOSE g : RangeFn(g, ks, first, miss)
<1>7. RangeFn(m, ks, first, miss)
  BY <1>6
<1>8. RangeOver(ks, first, miss) = m[NrLba]
  BY DEF RangeOver
<1> HIDE DEF m
<1>9. m[0] = first /\ \A k \in 1 .. NrLba : m[k] = Turn(k, m[k - 1])
  <2>1. 0 \in 0 .. NrLba /\ \A k \in 1 .. NrLba : k \in 0 .. NrLba /\ k # 0
    BY <1>1
  <2>2. \A k \in 0 .. NrLba : m[k] = IF k = 0 THEN first ELSE Turn(k, m[k - 1])
    BY <1>7 DEF RangeFn
  <2> HIDE DEF Turn
  <2> QED BY <2>1, <2>2
<1> DEFINE P == {i \in 0 .. NrLba : RangedTo(i, ks, first, miss, m[i])}
<1>10. 0 \in P
  <2>1. \A k \in ks : ~(k < 0)
    BY <1>1 DEF Lbas
  <2>2. RangedTo(0, ks, first, miss, first)
    BY <2>1 DEF RangedTo
  <2> QED BY <1>1, <1>9, <2>2
<1>11. ASSUME NEW i \in 0 .. NrLba - 1, i \in P PROVE i + 1 \in P
  <2>1. i + 1 \in 1 .. NrLba /\ (i + 1) - 1 = i /\ i \in Lbas /\ i + 1 \in 0 .. NrLba
    BY <1>1 DEF Lbas
  <2>2. RangedTo(i, ks, first, miss, m[i])
    BY <1>11
  <2>3. RangedTo(i + 1, ks, first, miss, RangeTurn(m[i], i, ks, miss))
    BY <2>1, <2>2, RangeTurnResult
  <2>4. m[i + 1] = RangeTurn(m[i], i, ks, miss)
    BY <1>9, <2>1
  <2> QED BY <2>1, <2>3, <2>4
<1>12. NrLba \in P
  <2>1. \A i \in 0 .. NrLba : i \in P
    <3> HIDE DEF P
    <3> QED BY <1>1, <1>10, <1>11, UpTo
  <2> QED BY <1>1, <2>1
<1> QED BY <1>8, <1>12

LEMMA RgLevel1 ==
  ASSUME Disk, EmptyApart, RgOK, RangeLevel1
  PROVE  RgOK'
<1>1. /\ rg.pc = "l1" /\ rg \in Rgs /\ rg.pair \in BOOLEAN
      /\ rg.keys \in SUBSET Lbas /\ rg.res \in [rg.keys -> Int]
  BY DEF RangeLevel1, RgOK, Rgs
<1>2. PICK miss \in SUBSET rg.keys :
        rg' = [RangeNext(RangeOver(rg.keys, rg.res, miss), "done")
                 EXCEPT !.pair = @ \/ \E i \in DOMAIN l1, k \in miss \cap Missing(rg.res) : Paired(l1[i], k),
                        !.window = job.pc \in {"install", "dropdem", "droprel"}]
  BY RangeLevel1Is
<1>3. PICK ks, first : ks = rg.keys /\ first = rg.res
  OBVIOUS
<1>4. PICK res : res = RangeOver(ks, first, miss)
  OBVIOUS
<1>5. PICK found : found = (\E i \in DOMAIN l1, k \in miss \cap Missing(rg.res) : Paired(l1[i], k))
  OBVIOUS
<1>6. PICK pair, window : pair = (rg.pair \/ found) /\ window = (job.pc \in Windows)
  OBVIOUS
<1>7. pair \in BOOLEAN /\ window \in BOOLEAN
  BY <1>6
<1>8. Returns(res, pair, window)
  <2>1. PICK idle : idle = [IdleRg EXCEPT !.pair = rg.pair, !.window = rg.window,
                              !.stale = \E k \in rg.keys : Norm(res[k]) \notin rg.ok[k]]
    OBVIOUS
  <2>2. RangeNext(res, "done") = idle
    BY <2>1 DEF RangeNext
  <2>3. rg' = [idle EXCEPT !.pair = idle.pair \/ found, !.window = window]
    BY <1>2, <1>3, <1>4, <1>5, <1>6, <2>2 DEF Windows
  <2>4. idle.pair = rg.pair
    BY <2>1 DEF IdleRg
  <2>5. rg' = [idle EXCEPT !.pair = pair, !.window = window]
    BY <1>6, <2>3, <2>4
  <2> QED BY <2>1, <2>5 DEF Returns
<1>9. ASSUME ~pair, ~window, NEW k \in rg.keys PROVE Norm(res[k]) \in rg.ok[k]
  <2>1. job.pc \notin Windows /\ ~rg.pair /\ ~found
    BY <1>6, <1>9
  <2>2. ks \in SUBSET Lbas /\ first \in [ks -> Int]
    BY <1>1, <1>3
  <2>3. RangedTo(NrLba, ks, first, miss, res)
    BY <1>4, <2>1, <2>2, RangeOverResult
  <2>4. PICK q, ok, r : q = rg.res[k] /\ ok = rg.ok[k] /\ r = res[k]
    OBVIOUS
  <2>5. k \in Lbas /\ q \in Int /\ (q = 0 => Ahead(k, "l1", ok)) /\ (q # 0 => Norm(q) \in ok)
    BY <1>1, <2>1, <2>4, RgFound DEF Stage
  <2>6. CASE q # 0
    BY <1>3, <2>3, <2>4, <2>5, <2>6 DEF RangedTo
  <2>7. CASE q = 0
    <3>1. PICK v \in ok : AnswersIn(files, Range(l1), k, v)
      BY <2>1, <2>5, <2>7, Level1Answers
    <3>2. CASE r # 0
      <4>1. PICK f \in Range(l1) : Has(files, f, k) /\ ((k \in miss /\ Paired(f, k)) \/ Norm(r) = ValIn(f, k))
        BY <1>3, <2>3, <2>4, <2>7, <3>2 DEF RangedTo
      <4>2. ~(k \in miss /\ Paired(f, k))
        <5>1. \E i \in DOMAIN l1 : f = l1[i]
          BY DEF Range
        <5>2. k \in Missing(rg.res)
          BY <2>4, <2>7 DEF Missing
        <5> QED BY <1>5, <2>1, <5>1, <5>2
      <4>3. ValIn(f, k) = v
        BY <3>1, <4>1 DEF AnswersIn, ValIn
      <4> QED BY <2>4, <3>1, <4>1, <4>2, <4>3
    <3>3. CASE r = 0
      <4>1. k < NrLba
        BY <2>5, LsmAssumption DEF Lbas
      <4>2. \A f \in Range(l1) : ~Has(files, f, k)
        BY <1>3, <2>3, <2>4, <3>3, <4>1 DEF RangedTo
      <4>3. v = 0
        BY <3>1, <4>2 DEF AnswersIn
      <4>4. Norm(r) = 0
        BY <3>3 DEF Norm, NEG
      <4> QED BY <2>4, <3>1, <4>3, <4>4
    <3> QED BY <3>2, <3>3
  <2> QED BY <2>6, <2>7
<1>10. pair \/ window \/ \A k \in rg.keys : Norm(res[k]) \in rg.ok[k]
  BY <1>9
<1> QED BY <1>7, <1>8, <1>10, RgDone

LEMMA IdleRgOK ==
  ASSUME rg' = IdleRg
  PROVE  RgOK'
<1>1. PICK none, em : none = {} /\ em = <<>>
  OBVIOUS
<1>2. rg' = [pc |-> "idle", keys |-> none, res |-> em, ok |-> em, pair |-> FALSE, window |-> FALSE, stale |-> FALSE]
  BY <1>1 DEF IdleRg
<1> QED BY <1>1, <1>2, RgIdle

LEMMA RgNext ==
  ASSUME RgOK, ViewInv, Inv', InTime, EmptyApart, [Next]_vars
  PROVE  RgOK'
<1>1. Inv /\ MergeOut /\ Backed /\ Disk
  BY DEF ViewInv, Inv
<1>2. ASSUME NEW k \in Lbas, Put(k) \/ PutNegative(k) PROVE RgOK'
  BY <1>2, RgPut
<1>3. CASE Rotate
  <2>1. rg' = rg /\ up' = up /\ SameView
    BY <1>1, <1>3, ViewRotate DEF Rotate
  <2> QED BY <2>1, RgKept
<1>4. CASE Searching
  <2>1. CASE RdSteps
    <3>1. rg' = rg
      BY <2>1 DEF RdSteps, SearchMem, SearchImm, SearchCopy, SearchLevel0, SearchLevel1
    <3>2. up' = up /\ SameView
      BY <1>4, SearchSteps
    <3> QED BY <3>1, <3>2, RgKept
  <2>2. CASE RgSteps
    BY <1>1, <2>2, RgMem, RgImm, RgLevel0, RgLevel1 DEF RgSteps
  <2> QED BY <1>4, <2>1, <2>2, SearchSteps
<1>5. CASE Close
  BY <1>5, IdleRgOK DEF Close
<1>6. CASE Elsewhere
  BY <1>6, ElsewhereKeeps, RgKept
<1> QED BY <1>2, <1>3, <1>4, <1>5, <1>6 DEF Next, Elsewhere

LEMMA RgInit == Init => RgOK
<1> SUFFICES ASSUME Init PROVE RgOK
  OBVIOUS
<1>1. PICK none, em : none = {} /\ em = <<>>
  OBVIOUS
<1>2. rg = [pc |-> "idle", keys |-> none, res |-> em, ok |-> em, pair |-> FALSE, window |-> FALSE, stale |-> FALSE]
  BY <1>1 DEF Init, IdleRg
<1>3. none \in SUBSET Lbas /\ em \in Results /\ em \in Allowed
  BY <1>1 DEF Results, Allowed
<1>4. rg \in Rgs
  BY <1>2, <1>3 DEF Rgs
<1>5. rg.pc = "idle" /\ rg.keys = none /\ rg.stale = FALSE
  BY <1>2
<1> QED BY <1>1, <1>4, <1>5 DEF RgOK

(* RangeFreshUnlessHazard: every record lsm_tree_range_search returns was  *)
(* that of its lba at some moment of the call, unless the last entry of a  *)
(* key was taken where a file holds a record and a negative one of it      *)
(* (bit_file_range_search of a leaf that is not cached) or level 1 was     *)
(* searched while a merge replaced its files, or a memtable was destroyed  *)
(* with its work still queued.                                             *)
THEOREM RangeFresh == Spec => []RangeFreshUnlessHazard
<1> DEFINE J == ViewInv /\ EmptyApart /\ lost \in Nat /\ (lost = 0 => RgOK)
<1>1. Init => J
  <2> SUFFICES ASSUME Init PROVE J
    OBVIOUS
  <2>1. job.pc = "idle" /\ lost \in Nat
    BY DEF Init, IdleJob
  <2> QED BY <2>1, ViewInvInit, RgInit DEF EmptyApart
<1>2. J /\ [Next]_vars => J'
  <2> SUFFICES ASSUME J, [Next]_vars PROVE J'
    OBVIOUS
  <2>1. ViewInv' /\ Inv' /\ MemOK /\ Disk
    BY ViewInvNext DEF ViewInv, Inv
  <2>2. lost' \in Nat /\ (lost' = 0 => InTime /\ lost = 0)
    BY NothingLost
  <2>3. EmptyApart'
    BY <2>1, EmptyApartNext
  <2>4. lost' = 0 => RgOK'
    BY <2>1, <2>2, RgNext
  <2> QED BY <2>1, <2>2, <2>3, <2>4
<1>3. J => RangeFreshUnlessHazard
  <2>1. ASSUME lost \in Nat, lost # 0 PROVE lost > 0
    BY <2>1
  <2> QED BY <2>1 DEF RgOK, RangeFreshUnlessHazard
<1> QED BY <1>1, <1>2, <1>3, PTL DEF Spec
=============================================================================
