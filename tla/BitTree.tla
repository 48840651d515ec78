------------------------------ MODULE BitTree ------------------------------
(***************************************************************************)
(* One block index table (BIT file): the builder that packs sorted entries *)
(* into leaves and inner nodes through a bounded buffer, and the file's    *)
(* search, range search and iterator over the nodes written.               *)
(*                                                                         *)
(* An entry is <<key, rec>>: rec is the key's record, "val", or its        *)
(* negative record, "neg".  Positions are byte offsets from the file's     *)
(* slot; encryption keeps a node's content.                                *)
(***************************************************************************)
EXTENDS Integers, Sequences, FiniteSets, FiniteSetsExt, SequencesExt

CONSTANTS
  LeafLen,     \* BIT_LEAF_LEN: records of a leaf
  Degree,      \* DEFAULT_BIT_DEGREE: children of an inner node
  Capacity,    \* DEFAULT_LSM_FILE_CAPACITY: entries of a file
  LeafSize,    \* BIT_LEAF_NODE_SIZE, also sizeof(struct bit_node)
  InnerSize,   \* BIT_INNER_NODE_SIZE
  BufferSize,  \* DEFAULT_LSM_FILE_BUILDER_BUFFER_SIZE
  NrKey        \* keys an entry may have

ASSUME SizesAssumption ==
  /\ {LeafLen, Degree, Capacity, LeafSize, InnerSize, BufferSize, NrKey}
       \subseteq Nat \ {0}
  /\ Degree > 1
  /\ InnerSize <= LeafSize
  /\ 3 * LeafSize <= BufferSize

-----------------------------------------------------------------------------
(* Sizes.                                                                  *)

NrLeaf(nr) == nr \div LeafLen + (IF nr % LeafLen # 0 THEN 1 ELSE 0)

(* __bit_height: levels of nodes above and with the leaves.                *)
Height(nr) ==
  LET h[size \in 1 .. Degree * NrLeaf(nr)] ==
        IF size < NrLeaf(nr) THEN 1 + h[size * Degree] ELSE 1
  IN IF nr = 0 THEN 0 ELSE h[1]

(* __bit_array_len: inner nodes of the levels above, and the leaves.       *)
ArrayLen(nr) ==
  LET len[size \in 1 .. Degree * NrLeaf(nr)] ==
        IF size < NrLeaf(nr) THEN size + len[size * Degree] ELSE 0
  IN IF nr = 0 THEN 0 ELSE len[1] + NrLeaf(nr)

(* calculate_bit_size: the size of a file's slot.                          *)
BitSize(nr) == (ArrayLen(nr) - NrLeaf(nr)) * InnerSize + NrLeaf(nr) * LeafSize

Top == Height(Capacity)

(* The reading side knows trees of exactly three levels: a cached root, its*)
(* cached children, and leaves.                                            *)
ASSUME HeightAssumption == Top = 3

-----------------------------------------------------------------------------
VARIABLES
  ents,    \* entries added so far
  leaf,    \* cur_leaf
  ctx,     \* per level: nodes waiting for a parent, as [key, pos]
  begin,   \* where the buffer goes in the file
  cur,     \* bytes in the buffer
  peak,    \* history: most bytes the buffer has held
  nodes,   \* nodes placed so far: [pos, leaf, ents, kids, next]
  root     \* position of the root once complete, else -1

vars == <<ents, leaf, ctx, begin, cur, peak, nodes, root>>

Init ==
  /\ ents = <<>> /\ leaf = <<>> /\ ctx = [h \in 0 .. Top - 1 |-> <<>>]
  /\ begin = 0 /\ cur = 0 /\ peak = 0 /\ nodes = {} /\ root = -1

LastOf(s) == s[Len(s)]

LeafNode(pos, es, next) == [pos |-> pos, leaf |-> TRUE, ents |-> es, kids |-> <<>>, next |-> next]
InnerNode(pos, kids) == [pos |-> pos, leaf |-> FALSE, ents |-> <<>>, kids |-> kids, next |-> 0]

(* bit_builder_buffer_flush_if_full: room for a leaf and the inner nodes   *)
(* that may follow it, else the buffer is written.                         *)
(* Mutant: only room for one node is kept.                                 *)
FlushIfFull_OneNode(b, c) ==
  IF c + LeafSize > BufferSize THEN <<b + c, 0>> ELSE <<b, c>>

FlushIfFull(b, c) ==
  IF c + Top * LeafSize > BufferSize THEN <<b + c, 0>> ELSE <<b, c>>

(* One turn of the loops of add_entry, which goes on while a level is full,*)
(* and of complete, which builds a node of any level that is not empty: the*)
(* nodes waiting below level i get their parent, at the next position.     *)
BuildLevel(t, i, complete) ==
  IF IF complete THEN t.ctx[i - 1] # <<>> ELSE Len(t.ctx[i - 1]) = Degree
  THEN [ctx |-> [t.ctx EXCEPT ![i - 1] = <<>>,
                   ![i] = Append(t.ctx[i], [key |-> LastOf(t.ctx[i - 1]).key, pos |-> t.at])],
        at |-> t.at + InnerSize,
        new |-> t.new \cup {InnerNode(t.at, t.ctx[i - 1])}]
  ELSE t

(* The inner nodes built from the leaves' level up.                        *)
Build(s, complete) ==
  LET up[i \in 0 .. Top - 1] == IF i = 0 THEN s ELSE BuildLevel(up[i - 1], i, complete)
  IN up[Top - 1]

(* bit_builder_add_entry                                                   *)
AddEntry(e) ==
  /\ root = -1
  /\ Len(ents) < Capacity
  /\ ents' = Append(ents, e)
  /\ IF Len(leaf) + 1 < LeafLen
     THEN leaf' = Append(leaf, e) /\ UNCHANGED <<ctx, begin, cur, peak, nodes>>
     ELSE LET pos == begin + cur
              fl == FlushIfFull(begin, cur)
              s == Build([ctx |-> [ctx EXCEPT ![0] = Append(ctx[0], [key |-> e[1], pos |-> pos])],
                          at |-> fl[1] + fl[2] + LeafSize, new |-> {}], FALSE)
          IN /\ leaf' = <<>>
             /\ ctx' = s.ctx
             /\ begin' = fl[1]
             /\ cur' = s.at - fl[1]
             /\ peak' = Max({peak, cur'})
             /\ nodes' = nodes \cup s.new \cup {LeafNode(pos, Append(leaf, e), s.at)}
  /\ UNCHANGED root

(* Keys come in order; of one key the record comes before the negative one.*)
Follows(last, e) ==
  \/ e[1] > last[1]
  \/ e[1] = last[1] /\ e[2] = "neg" /\ last[2] = "val"

Add ==
  \E e \in {e \in (0 .. NrKey - 1) \X {"val", "neg"} : ents # <<>> => Follows(LastOf(ents), e)} :
    AddEntry(e)

(* bit_builder_complete: unless the tree is full, the last leaf and the    *)
(* inner nodes up to the root.  The root is the last node written.         *)
Complete ==
  /\ root = -1
  /\ ents # <<>>
  /\ IF ctx[Top - 1] # <<>>
     THEN root' = begin + cur - InnerSize /\ UNCHANGED <<ctx, begin, cur, peak, nodes>>
     ELSE LET pos == begin + cur
              fl == FlushIfFull(begin, cur)
              last == IF leaf = <<>> THEN {} ELSE {LeafNode(pos, leaf, 0)}
              s == Build([ctx |-> IF leaf = <<>> THEN ctx
                                  ELSE [ctx EXCEPT ![0] = Append(ctx[0], [key |-> LastOf(leaf)[1], pos |-> pos])],
                          at |-> pos + (IF leaf = <<>> THEN 0 ELSE LeafSize), new |-> {}], TRUE)
          IN /\ nodes' = nodes \cup s.new \cup last
             /\ ctx' = s.ctx
             /\ begin' = fl[1]
             /\ cur' = s.at - fl[1]
             /\ peak' = Max({peak, cur'})
             /\ root' = s.at - InnerSize
  /\ UNCHANGED <<ents, leaf>>

Next == Add \/ Complete

Spec == Init /\ [][Next]_vars

-----------------------------------------------------------------------------
(* The file.                                                               *)

(* What kernel_read and bit_node_decode give: a node of that kind, or none.*)
NoNode == LeafNode(-1, <<>>, 0)

NodeAt(pos, isLeaf) ==
  IF \E x \in nodes : x.pos = pos /\ x.leaf = isLeaf
  THEN CHOOSE x \in nodes : x.pos = pos /\ x.leaf = isLeaf ELSE NoNode

(* bit_file_search_leaf_key_pos: in the root and in its child the first    *)
(* entry that is not below the key; Len + 1 is past the array.             *)
(* Mutant: the first entry above the key.                                  *)
ChildFor_Above(kids, k) ==
  Min({i \in 1 .. Len(kids) : k < kids[i].key} \cup {Len(kids) + 1})

ChildFor(kids, k) ==
  Min({i \in 1 .. Len(kids) : k <= kids[i].key} \cup {Len(kids) + 1})

PosFor(kids, k) ==
  LET i == ChildFor(kids, k) IN IF i > Len(kids) THEN -1 ELSE kids[i].pos

LeafFor(k) ==
  LET mid == NodeAt(PosFor(NodeAt(root, FALSE).kids, k), FALSE)
  IN NodeAt(PosFor(mid.kids, k), TRUE)

InRange(k) == ents[1][1] <= k /\ k <= LastOf(ents)[1]

Hits(es, k) == {i \in 1 .. Len(es) : es[i][1] = k}

(* bit_file_search, with the leaf cached or not.                           *)
Search(k) ==
  IF ~InRange(k) THEN "none"
  ELSE LET es == LeafFor(k).ents
       IN IF Hits(es, k) = {} THEN "none" ELSE es[Min(Hits(es, k))][2]

(* bit_file_range_search, for a key whose leaf is not cached: the loop over*)
(* the leaf goes on after a hit and a later one replaces it.               *)
RangeSearch(k) ==
  IF ~InRange(k) THEN "none"
  ELSE LET es == LeafFor(k).ents
       IN IF Hits(es, k) = {} THEN "none" ELSE es[Max(Hits(es, k))][2]

(* bit_iterator: from the first leaf along next_pos until nr_record entries*)
(* are returned.                                                           *)
Iterate ==
  LET walk[c \in 0 .. Len(ents)] ==
        IF c = 0 THEN [out |-> <<>>, at |-> LeafFor(ents[1][1])]
        ELSE LET w == walk[c - 1]
                 i == ((c - 1) % LeafLen) + 1
                 lf == IF i = 1 /\ c > 1 THEN NodeAt(w.at.next, TRUE) ELSE w.at
             IN [out |-> w.out \o SubSeq(lf.ents, i, Min({i, Len(lf.ents)})), at |-> lf]
  IN walk[Len(ents)].out

-----------------------------------------------------------------------------
(* A complete file reads back as what was added.  A search finds the first *)
(* of a key's entries, the record before the negative one, and nothing for *)
(* a key that was not added, also at the ends of a leaf and where a key's  *)
(* two entries are in two leaves; a range search agrees with it, except for*)
(* a key with both kinds of entry; and the iterator, through which a merge *)
(* reads, returns the entries in order.                                    *)
FileReadsBack ==
  root # -1 =>
    /\ \A k \in 0 .. NrKey - 1 :
         /\ Search(k) = IF Hits(ents, k) = {} THEN "none" ELSE ents[Min(Hits(ents, k))][2]
         /\ Cardinality(Hits(ents, k)) < 2 => RangeSearch(k) = Search(k)
    /\ Iterate = ents

Size(x) == IF x.leaf THEN LeafSize ELSE InnerSize

(* The nodes, which are placed without a check, never run past the end of  *)
(* the builder's buffer nor, flushed or not, over each other or into the   *)
(* next file's slot.                                                       *)
NodesPlaced ==
  /\ peak <= BufferSize
  /\ begin + cur <= BitSize(Capacity)
  /\ \A x, y \in nodes : x # y => x.pos + Size(x) <= y.pos \/ y.pos + Size(y) <= x.pos
=============================================================================
