----------------------------- MODULE LeafCache -----------------------------
(***************************************************************************)
(* The LRU cache of decrypted leaves of one BIT file and its users, threads*)
(* inside bit_file_search or bit_file_range_search.  They hold the level's *)
(* l_lock for reading, which keeps the file from being destroyed but not   *)
(* the threads from each other: the cache's mutex is taken per call, and   *)
(* leaves are read after it is released.                                   *)
(*                                                                         *)
(* A leaf is named by its last key.  Objects on the heap are numbers; the  *)
(* node of the cache that holds a leaf is named by the leaf it was made    *)
(* for.                                                                    *)
(***************************************************************************)
EXTENDS Integers, Sequences, FiniteSets

CONSTANTS
  Readers,     \* threads searching the file
  Leaves,      \* leaves of the file
  Capacity,    \* MAX_LEAF_NODE_CACHED
  MaxRange,    \* bound: keys of a range search
  MaxAlloc     \* bound: leaf buffers allocated in a behaviour

ASSUME CacheAssumption ==
  /\ Capacity \in Nat \ {0}
  /\ MaxRange \in Nat \ {0}
  /\ MaxAlloc \in Nat

VARIABLES
  entries,  \* the list of nodes, most recently used first: [key, id, val]
  size,     \* this->size
  next,     \* next object to be allocated
  live,     \* leaf objects allocated and not freed
  nodes,    \* cache nodes allocated and not freed
  rd,       \* per reader: its place, buffer, node, leaf and keys to do
  recent,   \* history: leaves in the order of their last use
  up        \* the file exists

vars == <<entries, size, next, live, nodes, rd, recent, up>>

NoObj == 0

(* A key to look for: the leaf it would be in and whether it is there.     *)
Keys == [leaf : Leaves, present : BOOLEAN]

IdleRd == [pc |-> "idle", todo |-> <<>>, buf |-> NoObj, nd |-> NoObj, val |-> NoObj,
           raced |-> FALSE, uaf |-> FALSE]

Init ==
  /\ entries = <<>> /\ size = 0 /\ next = 1 /\ live = {} /\ nodes = {}
  /\ rd = [r \in Readers |-> IdleRd] /\ recent = <<>> /\ up = TRUE

At(r, pc) == rd[r].pc = pc
Leaf(r) == Head(rd[r].todo).leaf

(* The next key of the range, or the end of the search.                    *)
Advance(r, buf) ==
  [rd[r] EXCEPT !.todo = Tail(@), !.buf = buf, !.nd = NoObj, !.val = NoObj,
     !.raced = FALSE, !.pc = IF Len(rd[r].todo) = 1 THEN "end" ELSE "get"]

(* list_del and list_add: e, in the place of element i, becomes the first. *)
ToFront(s, i, e) ==
  [j \in 1 .. Len(s) |-> IF j = 1 THEN e ELSE IF j <= i THEN s[j - 1] ELSE s[j]]

Nodes(k) == {i \in DOMAIN entries : entries[i].key = k}
Node(k) == CHOOSE i \in Nodes(k) : TRUE

Uses(k) == {i \in DOMAIN recent : recent[i] = k}
Touch(k) == IF Uses(k) = {} THEN <<k>> \o recent
            ELSE ToFront(recent, CHOOSE i \in Uses(k) : TRUE, k)

(* bit_file_search and bit_file_range_search allocate the leaf first.      *)
Start(r, ks) ==
  /\ up /\ At(r, "idle") /\ next <= MaxAlloc
  /\ rd' = [rd EXCEPT ![r] = [IdleRd EXCEPT !.pc = "get", !.todo = ks, !.buf = next, !.uaf = rd[r].uaf]]
  /\ next' = next + 1
  /\ live' = live \cup {next}
  /\ UNCHANGED <<entries, size, nodes, recent, up>>

(* lru_cache_get, under the lock: the node moves to the front, ...         *)
(* Mutant: a hit does not count as a use.                                  *)
Get_NoMove(r) ==
  /\ At(r, "get")
  /\ \/ /\ Nodes(Leaf(r)) # {}
        /\ rd' = [rd EXCEPT ![r].pc = "val", ![r].nd = entries[Node(Leaf(r))].id]
        /\ recent' = Touch(Leaf(r))
     \/ /\ Nodes(Leaf(r)) = {}
        /\ rd' = [rd EXCEPT ![r].pc = "miss"]
        /\ UNCHANGED recent
  /\ UNCHANGED <<entries, size, next, live, nodes, up>>

Get(r) ==
  /\ At(r, "get")
  /\ \/ /\ Nodes(Leaf(r)) # {}
        /\ LET i == Node(Leaf(r))
           IN /\ entries' = ToFront(entries, i, entries[i])
              /\ rd' = [rd EXCEPT ![r].pc = "val", ![r].nd = entries[i].id]
        /\ recent' = Touch(Leaf(r))
     \/ /\ Nodes(Leaf(r)) = {}
        /\ rd' = [rd EXCEPT ![r].pc = "miss"]
        /\ UNCHANGED <<entries, recent>>
  /\ UNCHANGED <<size, next, live, nodes, up>>

(* ... and after the unlock node->val is read, from a node that may be gone*)
GetVal(r) ==
  /\ At(r, "val")
  /\ LET is == {i \in DOMAIN entries : entries[i].id = rd[r].nd}
     IN rd' = [rd EXCEPT ![r].pc = "use", ![r].uaf = @ \/ rd[r].nd \notin nodes,
                 ![r].val = IF is = {} THEN NoObj ELSE entries[CHOOSE i \in is : TRUE].val]
  /\ UNCHANGED <<entries, size, next, live, nodes, recent, up>>

(* bit_file_search_cached_leaf scans the leaf and the caller copies the    *)
(* record; a key that is not in it is looked for on disk again.            *)
Use(r) ==
  /\ At(r, "use")
  /\ LET uaf == rd[r].uaf \/ rd[r].val \notin live
     IN rd' = [rd EXCEPT ![r] =
                 IF Head(rd[r].todo).present
                 THEN [Advance(r, rd[r].buf) EXCEPT !.uaf = uaf]
                 ELSE [rd[r] EXCEPT !.pc = "miss", !.raced = FALSE, !.uaf = uaf]]
  /\ UNCHANGED <<entries, size, next, live, nodes, recent, up>>

(* bit_file_search_leaf reads the leaf into the buffer; a range search that*)
(* has given its buffer to the cache allocates another one.                *)
Miss(r) ==
  /\ At(r, "miss")
  /\ rd[r].buf # NoObj \/ next <= MaxAlloc
  /\ LET new == rd[r].buf = NoObj
         buf == IF new THEN next ELSE rd[r].buf
     IN /\ rd' = [rd EXCEPT ![r] = IF Head(rd[r].todo).present
                                   THEN [rd[r] EXCEPT !.pc = "put", !.buf = buf]
                                   ELSE Advance(r, buf)]
        /\ next' = IF new THEN next + 1 ELSE next
        /\ live' = live \cup {buf}
  /\ UNCHANGED <<entries, size, nodes, recent, up>>

(* What freeing leaf objects and nodes means to the other readers.         *)
Race(r, freed) ==
  [q \in Readers |->
    IF q # r /\ rd[q].pc \in {"val", "use", "scan"}
       /\ freed \cap {rd[q].nd, rd[q].val, rd[q].buf} # {}
    THEN [rd[q] EXCEPT !.raced = TRUE] ELSE rd[q]]

(* lru_cache_put: the leaf of a node with the key is replaced and freed, or*)
(* the last node is evicted and freed while the cache is full.             *)
(* Mutant: the new node is put in first and the first one is evicted.      *)
Put_EvictsFront(r) ==
  /\ At(r, "put")
  /\ LET k == Leaf(r)
         buf == rd[r].buf
         new == [key |-> k, id |-> buf, val |-> buf]
         all == IF Nodes(k) = {} THEN <<new>> \o entries ELSE ToFront(entries, Node(k), new)
         gone == IF Nodes(k) = {} /\ size >= Capacity THEN {buf} ELSE {}
         old == {entries[i].val : i \in Nodes(k)}
     IN /\ entries' = IF gone = {} THEN all ELSE Tail(all)
        /\ nodes' = (nodes \cup {buf}) \ gone
        /\ live' = live \ (gone \cup old)
        /\ size' = Len(entries')
        /\ rd' = [Race(r, gone \cup old) EXCEPT ![r].pc = "scan"]
        /\ recent' = Touch(k)
  /\ UNCHANGED <<next, up>>

Put(r) ==
  /\ At(r, "put")
  /\ LET k == Leaf(r)
         buf == rd[r].buf
     IN \/ /\ Nodes(k) # {}
           /\ LET e == entries[Node(k)]
              IN /\ entries' = ToFront(entries, Node(k), [e EXCEPT !.val = buf])
                 /\ live' = live \ {e.val}
                 /\ rd' = [Race(r, {e.val}) EXCEPT ![r].pc = "scan"]
           /\ UNCHANGED <<size, nodes>>
        \/ /\ Nodes(k) = {}
           /\ LET keep == SubSeq(entries, 1, IF size >= Capacity THEN Capacity - 1 ELSE Len(entries))
                  gone == SubSeq(entries, Len(keep) + 1, Len(entries))
                  ids == {gone[i].id : i \in DOMAIN gone}
                  vals == {gone[i].val : i \in DOMAIN gone}
              IN /\ entries' = <<[key |-> k, id |-> buf, val |-> buf]>> \o keep
                 /\ size' = size - Len(gone) + 1
                 /\ nodes' = (nodes \ ids) \cup {buf}
                 /\ live' = live \ vals
                 /\ rd' = [Race(r, ids \cup vals) EXCEPT ![r].pc = "scan"]
  /\ recent' = Touch(Leaf(r))
  /\ UNCHANGED <<next, up>>

(* The record is copied out of the leaf that the cache now owns.           *)
Scan(r) ==
  /\ At(r, "scan")
  /\ LET uaf == rd[r].uaf \/ rd[r].buf \notin live
     IN rd' = [rd EXCEPT ![r] = [Advance(r, NoObj) EXCEPT !.uaf = uaf]]
  /\ UNCHANGED <<entries, size, next, live, nodes, recent, up>>

(* A buffer that was not given to the cache is freed.                      *)
(* Mutant: it is not.                                                      *)
End_Leaks(r) ==
  /\ At(r, "end")
  /\ rd' = [rd EXCEPT ![r].pc = "idle", ![r].buf = NoObj]
  /\ UNCHANGED <<entries, size, next, live, nodes, recent, up>>

End(r) ==
  /\ At(r, "end")
  /\ live' = live \ {rd[r].buf}
  /\ rd' = [rd EXCEPT ![r].pc = "idle", ![r].buf = NoObj]
  /\ UNCHANGED <<entries, size, next, nodes, recent, up>>

(* bit_file_destroy, after the file left its level under the write lock:   *)
(* lru_cache_destroy frees every node with its leaf.                       *)
Destroy ==
  /\ up
  /\ \A r \in Readers : At(r, "idle")
  /\ up' = FALSE
  /\ entries' = <<>>
  /\ nodes' = nodes \ {entries[i].id : i \in DOMAIN entries}
  /\ live' = live \ {entries[i].val : i \in DOMAIN entries}
  /\ UNCHANGED <<size, next, rd, recent>>

Ranges == UNION {[1 .. i -> Keys] : i \in 1 .. MaxRange}

Next ==
  \/ \E r \in Readers :
       \/ \E ks \in Ranges : Start(r, ks)
       \/ Get(r) \/ GetVal(r) \/ Use(r) \/ Miss(r) \/ Put(r) \/ Scan(r) \/ End(r)
  \/ Destroy

Spec == Init /\ [][Next]_vars

-----------------------------------------------------------------------------
Cached == {entries[i].val : i \in DOMAIN entries}

(* The buffer a reader would have to free itself.                          *)
Private(r) == IF rd[r].pc = "scan" THEN {} ELSE {rd[r].buf} \ {NoObj}

(* Every leaf allocated and not freed has one owner: a reader or a node of *)
(* the cache.  Nothing is lost on an error path, at an eviction or when the*)
(* file is destroyed, and nothing is freed twice.                          *)
OneOwner ==
  /\ live = Cached \cup UNION {Private(r) : r \in Readers}
  /\ \A i, j \in DOMAIN entries : i # j => entries[i].val # entries[j].val
  /\ \A r \in Readers : Private(r) \cap Cached = {}
  /\ \A r, q \in Readers : r # q => Private(r) \cap Private(q) = {}
  /\ nodes = {entries[i].id : i \in DOMAIN entries}

(* A thread reads a freed leaf or node only when another thread's put has  *)
(* freed it since the mutex was released (cache.c:91, lsm_tree.c:679).     *)
UseLiveUnlessRaced ==
  \A r \in Readers :
    /\ rd[r].pc = "val" /\ rd[r].nd \notin nodes => rd[r].raced
    /\ rd[r].pc = "use" /\ rd[r].val \notin live => rd[r].raced
    /\ rd[r].pc = "scan" /\ rd[r].buf \notin live => rd[r].raced

(* The cache holds the leaves used last, in that order and each once, as   *)
(* many as it has room for, and its size counter is their number.          *)
LruExact ==
  up =>
    /\ size = Len(entries)
    /\ [i \in DOMAIN entries |-> entries[i].key]
         = SubSeq(recent, 1, IF Len(recent) < Capacity THEN Len(recent) ELSE Capacity)
=============================================================================
