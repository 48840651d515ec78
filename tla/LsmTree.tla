------------------------------ MODULE LsmTree ------------------------------
(***************************************************************************)
(* The LSM-tree index: the active and the immutable memtable, the worker   *)
(* that compacts them into block index tables (BIT files), the two disk    *)
(* levels, the catalogue of file slots and versions, a concurrent search,  *)
(* and closing and opening the tree.                                       *)
(*                                                                         *)
(* The n-th record put is the number n and names the physical block it     *)
(* points to; NEG is a negative record (pba INF_ADDR) and 0 is NULL.  A    *)
(* step is what a thread does while it holds m_lock, im_lock or a level's  *)
(* l_lock; a merge, which touches no level while it reads and writes       *)
(* files, is one step together with the blocks it returns.                 *)
(***************************************************************************)
EXTENDS Integers, Sequences, FiniteSets, FiniteSetsExt, SequencesExt

CONSTANTS
  NrLba,        \* logical blocks the workload writes
  Capacity,     \* DEFAULT_MEMTABLE_CAPACITY = DEFAULT_LSM_FILE_CAPACITY
  NrBlock,      \* max_disk_level_capacity: blocks of the data region
  MaxPut,       \* bound: records put in a behaviour
  MaxNegative,  \* bound: records hidden by the collector
  MaxRestart,   \* bound: times the tree is closed and opened again
  NrSearch      \* threads inside lsm_tree_search: 0 or 1

ASSUME LsmAssumption ==
  /\ NrLba \in Nat \ {0}
  /\ Capacity \in Nat \ {0}
  /\ NrBlock \in Nat \ {0}
  /\ NrLba <= NrBlock
  /\ {MaxPut, MaxNegative, MaxRestart} \subseteq Nat
  /\ NrSearch \in {0, 1}

Lbas == 0 .. NrLba - 1
NEG == -1
INF == -1                       \* INF_ADDR in the reverse index

(* __total_bit(2, ...): files of level 1 for NrBlock records, and level 0.  *)
LevelCapacity == (NrBlock - 1) \div Capacity + 2

(* bit_catalogue_init: nr_bit plus as many extra file slots.               *)
(* Mutant: no extra slots.                                                 *)
NrFd_NoExtra == LevelCapacity

NrFd == 2 * LevelCapacity
Fds == 0 .. NrFd - 1

(* bit_level_init: entries of the array of files of level 1.               *)
MaxSize == 2 * LevelCapacity + 1

VARIABLES
  n,          \* records put so far
  mem,        \* active memtable: per lba its value and negative record; size
  imm,        \* immutable memtable, or NoTable
  rotating,   \* lsm_tree_put holds m_lock and waits for im_lock
  files,      \* per file slot: level, version and entries, or NoFile
  l0, l1,     \* the levels' arrays of files
  cur,        \* cur_segment of the catalogue's validity table
  version,    \* max_version of the catalogue
  wq,         \* minor compactions queued and not started
  job,        \* the running compaction; "level", "fd" and "empty" are where
              \* its behaviour is undefined and it goes no further
  rit,        \* per record put: its lba, INF once its block was given back
  rd,         \* a thread inside lsm_tree_search
  rg,         \* a thread inside lsm_tree_range_search
  up,         \* open, closing (lsm_tree_destroy), closed
  restarts,
  negated,    \* history: per lba, records hidden by the collector
  lost        \* history: memtables destroyed while their work was queued

index == <<n, mem, imm, rotating>>
disk == <<files, l0, l1, cur, version>>
vars == <<index, disk, wq, job, rit, rd, rg, up, restarts, negated, lost>>

(* What a memtable or a file holds of an lba: a value (0: none) and whether*)
(* there is a negative record.                                             *)
NoRecord == [val |-> 0, neg |-> FALSE]
NoEntries == [k \in Lbas |-> NoRecord]

NoTable == [ents |-> NoEntries, size |-> -1]
EmptyTable == [ents |-> NoEntries, size |-> 0]
NoFile == [level |-> -1, ver |-> 0, ents |-> NoEntries]
IdleJob == [pc |-> "idle", dem |-> <<>>, rel |-> <<>>, adds |-> <<>>]
IdleRd == [pc |-> "idle", key |-> 0, src |-> "none", rec |-> 0, ok |-> {},
           freed |-> FALSE, window |-> FALSE, stale |-> FALSE]
IdleRg == [pc |-> "idle", keys |-> {}, res |-> <<>>, ok |-> <<>>,
           pair |-> FALSE, window |-> FALSE, stale |-> FALSE]

Init ==
  /\ n = 0 /\ mem = EmptyTable /\ imm = NoTable /\ rotating = FALSE
  /\ files = [f \in Fds |-> NoFile] /\ l0 = <<>> /\ l1 = <<>>
  /\ cur = 0 /\ version = 0
  /\ wq = 0 /\ job = IdleJob /\ rit = <<>> /\ rd = IdleRd /\ rg = IdleRg
  /\ up = "open" /\ restarts = 0 /\ negated = [l \in Lbas |-> 0] /\ lost = 0

-----------------------------------------------------------------------------
(* Entries, in key order and of one key the value before the negative      *)
(* record: the first and the second of a key.                              *)

First(es, k) ==
  IF es[k].val # 0 THEN es[k].val ELSE IF es[k].neg THEN NEG ELSE 0
Second(es, k) == IF es[k].val # 0 /\ es[k].neg THEN NEG ELSE 0

KeysIn(es) == {k \in Lbas : es[k] # NoRecord}
NrRecord(es) ==
  Cardinality({k \in Lbas : es[k].val # 0}) + Cardinality({k \in Lbas : es[k].neg})

(* rbtree_memtable_get: the value, else the negative record.               *)
(* Mutant: the negative record hides a value put after it.                 *)
Get_NegativeFirst(t, k) == IF t.ents[k].neg THEN NEG ELSE t.ents[k].val

Get(t, k) == First(t.ents, k)

One(b) == IF b THEN 1 ELSE 0

(* rbtree_memtable_put of a record: the old value is the caller's to free. *)
MemPut(k, r) ==
  [ents |-> [mem.ents EXCEPT ![k].val = r],
   size |-> mem.size - One(mem.ents[k].val # 0) + 1]

(* rbtree_memtable_put of NULL: both records give way to a negative one.   *)
(* Mutant: a negative record is not counted.                               *)
MemPutNegative_NotCounted(k) ==
  [ents |-> [mem.ents EXCEPT ![k] = [val |-> 0, neg |-> TRUE]],
   size |-> mem.size - One(mem.ents[k].val # 0)]

MemPutNegative(k) ==
  [ents |-> [mem.ents EXCEPT ![k] = [val |-> 0, neg |-> TRUE]],
   size |-> mem.size - One(mem.ents[k].val # 0) - One(mem.ents[k].neg) + 1]

-----------------------------------------------------------------------------
(* BIT files and levels.                                                   *)

FirstKey(f) == Min(KeysIn(files[f].ents))
LastKey(f) == Max(KeysIn(files[f].ents))

(* bit_file_search finds the first of the entries with the key.            *)
FileSearch(f, k) == First(files[f].ents, k)

(* bit_file_cmp_key: where the key is with respect to the file.            *)
CmpKey(k, f) == IF k < FirstKey(f) THEN -1 ELSE IF k > LastKey(f) THEN 1 ELSE 0

(* bit_level_locate_file: the kernel's bsearch over the array of files (low*)
(* is its base, high - low its num); the array may hold overlapping files  *)
(* while a compaction installs its output.                                 *)
Locate(lev, k) ==
  LET b[r \in (0 .. Len(lev)) \X (0 .. Len(lev))] ==
        LET low == r[1]
            high == r[2]
            mid == low + (high - low) \div 2
            cmp == CmpKey(k, lev[mid + 1])
        IN IF low >= high THEN 0
           ELSE IF cmp = 0 THEN mid + 1
           ELSE IF cmp > 0 THEN b[<<mid + 1, high>>]
           ELSE b[<<low, mid>>]
  IN b[<<0, Len(lev)>>]

LevelSearch(lev, k) ==
  LET i == Locate(lev, k) IN IF i = 0 THEN 0 ELSE FileSearch(lev[i], k)

(* bit_level_linear_search, which level 0 uses: the file of the highest    *)
(* version that has the key, the later one among equals.                   *)
LinearSearch(lev, k) ==
  LET hits == {i \in DOMAIN lev : FileSearch(lev[i], k) # 0}
      Worse(i, j) == \/ files[lev[i]].ver < files[lev[j]].ver
                     \/ files[lev[i]].ver = files[lev[j]].ver /\ i <= j
  IN IF hits = {} THEN 0
     ELSE FileSearch(lev[CHOOSE j \in hits : \A i \in hits : Worse(i, j)], k)

(* bit_file_cmp: by first key, then by last key.                           *)
FileBefore(f, g) ==
  \/ FirstKey(f) < FirstKey(g)
  \/ FirstKey(f) = FirstKey(g) /\ LastKey(f) < LastKey(g)

(* bit_level_search_file: 0-based position at which a file is inserted.    *)
InsertPos(lev, f) ==
  LET s[r \in (0 .. Len(lev)) \X (0 .. Len(lev))] ==
        LET low == r[1]
            high == r[2]
            mid == low + (high - low) \div 2
        IN IF low >= high THEN low
           ELSE IF FileBefore(lev[mid + 1], f) THEN s[<<mid + 1, high>>]
           ELSE s[<<low, mid>>]
  IN IF lev = <<>> \/ ~FileBefore(lev[1], f) THEN 0
     ELSE IF ~FileBefore(f, lev[Len(lev)]) THEN Len(lev)
     ELSE s[<<0, Len(lev) - 1>>]

(* bit_level_add_file: a full array silently drops the file.               *)
AddFile(lev, f, max) ==
  IF Len(lev) >= max THEN lev ELSE InsertAt(lev, InsertPos(lev, f) + 1, f)

(* bit_level_remove_file                                                   *)
RemoveFile(lev, f) ==
  IF f \in Range(lev) THEN RemoveAt(lev, CHOOSE i \in DOMAIN lev : lev[i] = f) ELSE lev

(* bit_level_lower_bound: 0-based position of the first file that may have *)
(* keys from k on.                                                         *)
LowerBound(lev, k) ==
  LET s[r \in (0 .. Len(lev)) \X (-1 .. Len(lev))] ==
        LET low == r[1]
            high == r[2]
            mid == low + (high - low) \div 2
            cmp == CmpKey(k, lev[mid + 1])
        IN IF low >= high THEN low
           ELSE IF cmp = 0 THEN mid
           ELSE IF cmp < 0 THEN s[<<low, mid - 1>>]
           ELSE s[<<mid + 1, high>>]
  IN IF k < FirstKey(lev[1]) THEN 0
     ELSE IF k > LastKey(lev[Len(lev)]) THEN Len(lev)
     ELSE s[<<0, Len(lev) - 1>>]

(* bit_level_find_relative_files: the files of the level that may overlap  *)
(* the demoted ones.                                                       *)
(* Mutant: a file that begins at the last demoted key is left out.         *)
Relatives_Exclusive(lev, dem) ==
  LET lo == Min({FirstKey(dem[i]) : i \in DOMAIN dem})
      hi == Max({LastKey(dem[i]) : i \in DOMAIN dem})
      pos == LowerBound(lev, lo)
  IN IF lev = <<>> \/ dem = <<>> THEN <<>>
     ELSE IF hi < FirstKey(lev[1]) \/ lo > LastKey(lev[Len(lev)]) THEN <<>>
     ELSE SubSeq(lev, pos + 1, Max({pos} \cup
            {i \in pos + 1 .. Len(lev) : \A j \in pos + 1 .. i : FirstKey(lev[j]) < hi}))

Relatives(lev, dem) ==
  LET lo == Min({FirstKey(dem[i]) : i \in DOMAIN dem})
      hi == Max({LastKey(dem[i]) : i \in DOMAIN dem})
      pos == LowerBound(lev, lo)
  IN IF lev = <<>> \/ dem = <<>> THEN <<>>
     ELSE IF hi < FirstKey(lev[1]) \/ lo > LastKey(lev[Len(lev)]) THEN <<>>
     ELSE SubSeq(lev, pos + 1, Max({pos} \cup
            {i \in pos + 1 .. Len(lev) : \A j \in pos + 1 .. i : FirstKey(lev[j]) <= hi}))

-----------------------------------------------------------------------------
(* Catalogue of file slots and versions.                                   *)

Taken == {f \in Fds : files[f] # NoFile}

(* bitc_alloc_file, count times: seg_validator_next scans from cur to the  *)
(* end and once from 0, seg_validator_take moves cur on.                   *)
AllocFds(count) ==
  LET Step(s) ==
        LET free == Fds \ s.used
            ahead == {f \in free : f >= s.cur}
            fd == Min(IF ahead # {} THEN ahead ELSE free)
        IN [cur |-> fd + 1, used |-> s.used \cup {fd}, fds |-> Append(s.fds, fd)]
      a[i \in 0 .. count] ==
        IF i = 0 THEN [cur |-> cur, used |-> Taken, fds |-> <<>>] ELSE Step(a[i - 1])
  IN a[count]

FdsLeft(count) == Cardinality(Taken) + count <= NrFd

(* bitc_get_current_version, over the slots in order: a file whose version *)
(* is one above the one before it does not raise the maximum.              *)
(* Mutant: the versions of the files are not looked at.                    *)
CurrentVersion_Reset == 0

CurrentVersion ==
  LET max[f \in 0 .. NrFd] ==
        IF f = 0 THEN 0
        ELSE IF files[f - 1] # NoFile /\ max[f - 1] < files[f - 1].ver
        THEN files[f - 1].ver + 1 ELSE max[f - 1]
  IN max[NrFd]

-----------------------------------------------------------------------------
(* compaction_job_run: the k-way merge of the demoted file with its        *)
(* relatives.                                                              *)

KeysOf(fs) == UNION {KeysIn(files[f].ents) : f \in Range(fs)}

(* The file among fs that has the key.                                     *)
FileOf(fs, k) == CHOOSE f \in Range(fs) : k \in KeysIn(files[f].ents)

(* One element met after `distinct`, both with the same key.               *)
(* Mutant: of two versions the first met is kept.                          *)
MergeStep_FirstWins(s, e) ==
  IF s.dist.f # e.f THEN [dist |-> s.dist, new |-> s.new, old |-> e.rec]
  ELSE IF s.dist.rec # e.rec THEN [dist |-> e, new |-> s.dist.rec, old |-> s.old]
  ELSE s

(* Mutant: the superseded record is forgotten.                             *)
MergeStep_NoOld(s, e) ==
  IF files[s.dist.f].ver < files[e.f].ver THEN [s EXCEPT !.dist = e]
  ELSE IF s.dist.f # e.f THEN s
  ELSE IF s.dist.rec # e.rec THEN [dist |-> e, new |-> s.dist.rec, old |-> s.old]
  ELSE s

MergeStep(s, e) ==
  IF files[s.dist.f].ver < files[e.f].ver
  THEN [dist |-> e, new |-> s.new, old |-> s.dist.rec]
  ELSE IF s.dist.f # e.f THEN [dist |-> s.dist, new |-> s.new, old |-> e.rec]
  ELSE IF s.dist.rec # e.rec THEN [dist |-> e, new |-> s.dist.rec, old |-> s.old]
  ELSE s

Met(s, f, rec) == IF rec = 0 THEN s ELSE MergeStep(s, [f |-> f, rec |-> rec])

(* What the merge of the entries of one key adds to the output and which   *)
(* record's block it returns (0: none).  The heap yields equal keys        *)
(* alternately from the two files that hold it, f and g: an element pushed *)
(* later does not overtake an equal one.  A file met again changes nothing.*)
MergeKey(k, f, g) ==
  LET In(x) == files[x].ents
      s0 == [dist |-> [f |-> f, rec |-> First(In(f), k)], new |-> 0, old |-> 0]
      s1 == Met(s0, g, First(In(g), k))
      s2 == Met(s1, f, Second(In(f), k))
      s == Met(s2, g, Second(In(g), k))
  IN IF s.dist.rec = NEG THEN [add |-> s.new, back |-> 0]
     ELSE [add |-> s.dist.rec, back |-> s.old]

(* The whole merge; `lead` are the keys whose demoted entry comes first.   *)
Merge(dem, rel, lead) ==
  [k \in KeysOf(dem) \cup KeysOf(rel) |->
    LET d == FileOf(IF k \in KeysOf(dem) THEN dem ELSE rel, k)
        r == FileOf(IF k \in KeysOf(rel) THEN rel ELSE dem, k)
    IN IF k \in lead THEN MergeKey(k, d, r) ELSE MergeKey(k, r, d)]

(* The output files' entries: a builder that is full after a key is        *)
(* completed, except after the last key, which always goes to the last one.*)
Body(m) == {k \in DOMAIN m \ {Max(DOMAIN m)} : m[k].add # 0}
NrFull(m) == Cardinality(Body(m)) \div Capacity
Builder(m, k) ==
  IF k = Max(DOMAIN m) THEN NrFull(m) + 1
  ELSE Cardinality({i \in Body(m) : i < k}) \div Capacity + 1

(* Mutant: the key left over after the loop is not emitted.                *)
Outputs_NoTail(m) ==
  [b \in 1 .. NrFull(m) + 1 |-> [k \in Lbas |->
    IF k \in Body(m) /\ Builder(m, k) = b
    THEN [val |-> m[k].add, neg |-> FALSE] ELSE NoRecord]]

Outputs(m) ==
  [b \in 1 .. NrFull(m) + 1 |-> [k \in Lbas |->
    IF k \in DOMAIN m /\ m[k].add # 0 /\ Builder(m, k) = b
    THEN [val |-> m[k].add, neg |-> FALSE] ELSE NoRecord]]

(* rit->reset and dst->return_block of the records in bs: only a block     *)
(* whose reverse index still names the lba is returned.                    *)
GiveBack(r, bs) == [b \in DOMAIN r |-> IF b \in bs THEN INF ELSE r[b]]

-----------------------------------------------------------------------------
(* lsm_tree_put                                                            *)

MUnlocked == up = "open" /\ ~rotating
ImUnlocked == job.pc = "idle"

(* What a search of k that is not overtaken by a put returns.              *)
Norm(r) == IF r = NEG THEN 0 ELSE r

Over(r, below) == IF r # 0 THEN r ELSE below

(* The newest record of k in a set of files.                               *)
Newest(fs, k) ==
  LET hits == {f \in fs : FileSearch(f, k) # 0}
  IN IF hits = {} THEN 0
     ELSE FileSearch(CHOOSE f \in hits : \A g \in hits : files[g].ver <= files[f].ver, k)

(* Level 1, without the input of a merge once its output is installed.     *)
Merged == IF job.pc \in {"dropdem", "droprel"} THEN Range(job.rel) ELSE {}

View(k) ==
  Norm(Over(Get(mem, k), Over(Get(imm, k), Over(LinearSearch(l0, k),
       Newest(Range(l1) \ Merged, k)))))

(* A put of k seen by a running search: r is an answer it may give, and the*)
(* record it holds a pointer to may have been freed.                       *)
Overtake(k, r, frees) ==
  /\ rd' = IF rd.pc = "idle" \/ rd.key # k THEN rd
           ELSE [rd EXCEPT !.ok = @ \cup {r}, !.freed = @ \/ (rd.src = "mem" /\ frees)]
  /\ rg' = IF k \in rg.keys THEN [rg EXCEPT !.ok[k] = @ \cup {r}] ELSE rg

Put(k) ==
  /\ MUnlocked
  /\ n < MaxPut
  /\ n' = n + 1
  /\ mem' = MemPut(k, n + 1)
  /\ LET old == mem.ents[k].val
     IN /\ rit' = Append(GiveBack(rit, {b \in {old} : b # 0 /\ rit[b] = k}), k)
        /\ Overtake(k, n + 1, old # 0 /\ rd.rec = old)
  /\ rotating' = (mem'.size >= Capacity)
  /\ UNCHANGED <<imm, disk, wq, job, up, restarts, negated, lost>>

(* The collector: rit->reset, the search that confirms the record, and     *)
(* put(lba, NULL); the block is given back with its segment.               *)
PutNegative(k) ==
  /\ MUnlocked
  /\ View(k) # 0
  /\ FoldFunction(+, 0, negated) < MaxNegative
  /\ rit[View(k)] = k
  /\ rit' = GiveBack(rit, {View(k)})
  /\ mem' = MemPutNegative(k)
  /\ Overtake(k, 0, TRUE)
  /\ negated' = [negated EXCEPT ![k] = @ + 1]
  /\ rotating' = (mem'.size >= Capacity)
  /\ UNCHANGED <<n, imm, disk, wq, job, up, restarts, lost>>

(* The rest of lsm_tree_put when the memtable is full: the old immutable   *)
(* memtable is destroyed, read or not, the full one takes its place and a  *)
(* work is queued.                                                         *)
Rotate ==
  /\ rotating
  /\ ImUnlocked
  /\ imm' = mem
  /\ mem' = EmptyTable
  /\ rotating' = FALSE
  /\ wq' = wq + 1
  /\ rd' = IF rd.pc # "copy" THEN rd
           ELSE IF rd.src = "mem" THEN [rd EXCEPT !.src = "imm"]
           ELSE [rd EXCEPT !.freed = TRUE]
  /\ lost' = IF wq = 0 THEN lost ELSE lost + 1
  /\ UNCHANGED <<n, disk, job, rit, rg, up, restarts, negated>>

-----------------------------------------------------------------------------
(* Compaction, by the worker (minor_compaction_handler, im_lock held) or at*)
(* the end by lsm_tree_destroy.                                            *)

WorkerStart ==
  /\ wq > 0
  /\ job.pc = "idle"
  /\ wq' = wq - 1
  /\ job' = [IdleJob EXCEPT !.pc = "major"]
  /\ UNCHANGED <<index, disk, rit, rd, rg, up, restarts, negated, lost>>

Compact == UNCHANGED <<n, rotating, wq, rd, rg, up, restarts, negated, lost>>

(* lsm_tree_major_compaction: level 0 has room.                            *)
SkipMajor ==
  /\ job.pc = "major"
  /\ Len(l0) = 0
  /\ job' = [job EXCEPT !.pc = "minor"]
  /\ Compact /\ UNCHANGED <<mem, imm, disk, rit>>

(* Level 1 is full: the recursion reads levels[2], which does not exist.   *)
LevelFull ==
  /\ job.pc = "major"
  /\ Len(l0) > 0
  /\ Len(l1) >= LevelCapacity
  /\ job' = [job EXCEPT !.pc = "level"]
  /\ Compact /\ UNCHANGED <<mem, imm, disk, rit>>

Major ==
  /\ job.pc = "major"
  /\ Len(l0) > 0
  /\ Len(l1) < LevelCapacity

(* No file of level 1 overlaps: the demoted file is added there under a new*)
(* version, then removed from level 0.                                     *)
MoveAdd ==
  /\ Major
  /\ Relatives(l1, l0) = <<>>
  /\ files' = [files EXCEPT ![l0[1]] = [level |-> 1, ver |-> version, ents |-> @.ents]]
  /\ version' = version + 1
  /\ l1' = AddFile(l1, l0[1], MaxSize)
  /\ job' = [job EXCEPT !.pc = "move"]
  /\ Compact /\ UNCHANGED <<mem, imm, l0, cur, rit>>

MoveRemove ==
  /\ job.pc = "move"
  /\ l0' = Tail(l0)
  /\ job' = [job EXCEPT !.pc = "minor"]
  /\ Compact /\ UNCHANGED <<mem, imm, files, l1, cur, version, rit>>

(* The merge: superseded blocks are returned and the output is written to  *)
(* newly allocated slots.  A file without entries has no root node.        *)
MergeFiles ==
  /\ Major
  /\ LET rel == Relatives(l1, l0) IN
     /\ rel # <<>>
     /\ \E lead \in SUBSET (KeysOf(l0) \cap KeysOf(rel)) :
        LET m == Merge(l0, rel, lead)
            outs == Outputs(m)
            a == AllocFds(Len(outs))
            New(f) == CHOOSE i \in 1 .. Len(outs) : a.fds[i] = f
            backs == {b \in {m[k].back : k \in DOMAIN m} : b > 0}
        IN IF ~FdsLeft(Len(outs))
           THEN job' = [job EXCEPT !.pc = "fd"] /\ UNCHANGED <<disk, rit>>
           ELSE
           /\ files' = [f \in Fds |->
                IF f \in a.used \ Taken
                THEN [level |-> 1, ver |-> version + New(f) - 1, ents |-> outs[New(f)]]
                ELSE files[f]]
           /\ cur' = a.cur
           /\ version' = version + Len(outs)
           /\ rit' = GiveBack(rit, {b \in backs : \E k \in DOMAIN m : m[k].back = b /\ rit[b] = k})
           /\ job' = [pc |-> IF NoEntries \in Range(outs) THEN "empty" ELSE "install",
                      dem |-> l0, rel |-> rel, adds |-> a.fds]
           /\ UNCHANGED <<l0, l1>>
  /\ Compact /\ UNCHANGED <<mem, imm>>

(* level2->add_file, one output after the other.                           *)
Install ==
  /\ job.pc = "install"
  /\ l1' = AddFile(l1, Head(job.adds), MaxSize)
  /\ job' = [job EXCEPT !.adds = Tail(@), !.pc = IF Len(job.adds) = 1 THEN "dropdem" ELSE @]
  /\ Compact /\ UNCHANGED <<mem, imm, files, l0, cur, version, rit>>

(* The demoted file leaves level 0 and its slot is released, ...           *)
DropDemoted ==
  /\ job.pc = "dropdem"
  /\ l0' = RemoveFile(l0, job.dem[1])
  /\ files' = [files EXCEPT ![job.dem[1]] = NoFile]
  /\ job' = [job EXCEPT !.dem = <<>>, !.pc = "droprel"]
  /\ Compact /\ UNCHANGED <<mem, imm, l1, cur, version, rit>>

(* ... then the merged files of level 1, one by one.                       *)
DropRelative ==
  /\ job.pc = "droprel"
  /\ l1' = RemoveFile(l1, job.rel[1])
  /\ files' = [files EXCEPT ![job.rel[1]] = NoFile]
  /\ job' = [job EXCEPT !.rel = Tail(@), !.pc = IF Len(job.rel) = 1 THEN "minor" ELSE @]
  /\ Compact /\ UNCHANGED <<mem, imm, l0, cur, version, rit>>

(* lsm_tree_minor_compaction: the immutable memtable, or at the end the    *)
(* active one, becomes a file of level 0.                                  *)
Minor ==
  /\ job.pc = "minor"
  /\ LET src == IF imm = NoTable THEN mem ELSE imm
         a == AllocFds(1)
     IN IF ~FdsLeft(1)
        THEN job' = [job EXCEPT !.pc = "fd"] /\ UNCHANGED <<mem, disk>>
        ELSE /\ files' = [files EXCEPT ![a.fds[1]] =
                            [level |-> 0, ver |-> version, ents |-> src.ents]]
             /\ cur' = a.cur
             /\ version' = version + 1
             /\ l0' = AddFile(l0, a.fds[1], 3)
             /\ job' = IdleJob
             /\ mem' = IF imm = NoTable THEN EmptyTable ELSE mem
             /\ UNCHANGED l1
  /\ Compact /\ UNCHANGED <<imm, rit>>

Compaction ==
  \/ WorkerStart \/ SkipMajor \/ LevelFull \/ MoveAdd \/ MoveRemove
  \/ MergeFiles \/ Install \/ DropDemoted \/ DropRelative \/ Minor

-----------------------------------------------------------------------------
(* lsm_tree_search                                                         *)

Search == UNCHANGED <<index, disk, wq, job, rit, up, restarts, negated, lost>>

NoSearch == NrSearch > 0 /\ rd.pc = "idle" /\ rg.pc = "idle"

(* The search returns r; what is kept of it is whether r was up to date.   *)
Answer(r, window) ==
  [IdleRd EXCEPT !.stale = Norm(r) \notin rd.ok, !.freed = rd.freed, !.window = window]

(* The pointer to a memtable's record is taken under m_lock, ...           *)
SearchMem(k) ==
  /\ NoSearch
  /\ MUnlocked
  /\ rd' = [IdleRd EXCEPT !.key = k, !.ok = {View(k)}, !.rec = Get(mem, k),
              !.pc = IF Get(mem, k) # 0 THEN "copy" ELSE "imm",
              !.src = IF Get(mem, k) # 0 THEN "mem" ELSE "none"]
  /\ Search /\ UNCHANGED rg

SearchImm ==
  /\ rd.pc = "imm"
  /\ LET r == Get(imm, rd.key)
     IN rd' = [rd EXCEPT !.rec = r,
                 !.pc = IF r # 0 THEN "copy" ELSE "l0",
                 !.src = IF r # 0 THEN "imm" ELSE "none"]
  /\ Search /\ UNCHANGED rg

(* ... and the record is copied after the lock was released: a record freed*)
(* meanwhile may read as anything.                                         *)
SearchCopy ==
  /\ rd.pc = "copy"
  /\ \E r \in IF rd.freed THEN 0 .. n ELSE {rd.rec} : rd' = Answer(r, FALSE)
  /\ Search /\ UNCHANGED rg

(* Mutant: the lower level is asked first.                                 *)
SearchLevel0_Below ==
  /\ rd.pc = "l0"
  /\ LET r == LevelSearch(l1, rd.key)
     IN rd' = IF r # 0 THEN Answer(r, FALSE) ELSE [rd EXCEPT !.pc = "l1"]
  /\ Search /\ UNCHANGED rg

SearchLevel0 ==
  /\ rd.pc = "l0"
  /\ LET r == LinearSearch(l0, rd.key)
     IN rd' = IF r # 0 THEN Answer(r, FALSE) ELSE [rd EXCEPT !.pc = "l1"]
  /\ Search /\ UNCHANGED rg

(* window: level 1 holds both the input and the output of a merge.         *)
SearchLevel1 ==
  /\ rd.pc = "l1"
  /\ rd' = Answer(LevelSearch(l1, rd.key), job.pc \in {"install", "dropdem", "droprel"})
  /\ Search /\ UNCHANGED rg

(* lsm_tree_range_search collects copies of the records of a range, level  *)
(* by level, for the keys not found so far.                                *)
Missing(res) == {k \in rg.keys : res[k] = 0}

RangeNext(res, pc) ==
  IF Missing(res) = {} \/ pc = "done"
  THEN [IdleRg EXCEPT !.pair = rg.pair, !.window = rg.window,
          !.stale = \E k \in rg.keys : Norm(res[k]) \notin rg.ok[k]]
  ELSE [rg EXCEPT !.res = res, !.pc = pc]

RangeMem(lo, hi) ==
  /\ NoSearch
  /\ MUnlocked
  /\ rg' = [IdleRg EXCEPT !.pc = "mem", !.keys = lo .. hi,
              !.res = [k \in lo .. hi |-> Get(mem, k)],
              !.ok = [k \in lo .. hi |-> {View(k)}]]
  /\ Search /\ UNCHANGED rd

RangeImm ==
  /\ rg.pc = "mem"
  /\ rg' = RangeNext([k \in rg.keys |-> IF rg.res[k] # 0 THEN rg.res[k] ELSE Get(imm, k)], "l0")
  /\ Search /\ UNCHANGED rd

(* bit_file_range_search: for a key whose leaf is in the cache the first of*)
(* its entries, for one in `miss`, whose leaf is read, the last one.       *)
Paired(f, k) == Second(files[f].ents, k) # 0

(* Mutant: the bitmap of found keys is not tested.                         *)
FileRange_Overwrites(f, res, miss) ==
  [k \in DOMAIN res |->
    IF FileSearch(f, k) = 0 THEN res[k]
    ELSE IF k \in miss /\ Paired(f, k) THEN NEG ELSE FileSearch(f, k)]

FileRange(f, res, miss) ==
  [k \in DOMAIN res |->
    IF res[k] # 0 \/ FileSearch(f, k) = 0 THEN res[k]
    ELSE IF k \in miss /\ Paired(f, k) THEN NEG ELSE FileSearch(f, k)]

(* bit_level_range_search: level 0 looks at its first file only, ...       *)
RangeLevel0 ==
  /\ rg.pc = "l0"
  /\ \E miss \in SUBSET rg.keys :
       rg' = [RangeNext(IF l0 = <<>> THEN rg.res ELSE FileRange(l0[1], rg.res, miss), "l1")
                EXCEPT !.pair = l0 # <<>> /\ \E k \in miss \cap Missing(rg.res) : Paired(l0[1], k)]
  /\ Search /\ UNCHANGED rd

(* ... level 1 at the file of each missing key, for all the missing keys.  *)
RangeLevel1 ==
  /\ rg.pc = "l1"
  /\ \E miss \in SUBSET rg.keys :
     LET Step(res, k) ==
           LET i == Locate(l1, k)
           IN IF k \notin rg.keys \/ i = 0 THEN res
              ELSE IF res[k] # 0 THEN res ELSE FileRange(l1[i], res, miss)
         res[k \in 0 .. NrLba] == IF k = 0 THEN rg.res ELSE Step(res[k - 1], k - 1)
     IN rg' = [RangeNext(res[NrLba], "done")
                 EXCEPT !.pair = @ \/ \E i \in DOMAIN l1, k \in miss \cap Missing(rg.res) :
                                         Paired(l1[i], k),
                        !.window = job.pc \in {"install", "dropdem", "droprel"}]
  /\ Search /\ UNCHANGED rd

Searching ==
  \/ \E k \in Lbas : SearchMem(k)
  \/ SearchImm \/ SearchCopy \/ SearchLevel0 \/ SearchLevel1
  \/ \E lo \in Lbas : \E hi \in lo .. NrLba - 1 : RangeMem(lo, hi)
  \/ RangeImm \/ RangeLevel0 \/ RangeLevel1

-----------------------------------------------------------------------------
(* lsm_tree_destroy: destroy_workqueue drains the queue, ...               *)
Close ==
  /\ up = "open" /\ ~rotating
  /\ restarts < MaxRestart
  /\ rd.pc = "idle" /\ rg.pc = "idle"
  /\ up' = "closing"
  /\ rd' = IdleRd /\ rg' = IdleRg
  /\ UNCHANGED <<index, disk, wq, job, rit, restarts, negated, lost>>

(* ... the immutable memtable is destroyed, the active one compacted, ...  *)
CloseMemtable ==
  /\ up = "closing" /\ wq = 0 /\ job.pc = "idle"
  /\ mem.size > 0
  /\ imm' = NoTable
  /\ job' = [IdleJob EXCEPT !.pc = "major"]
  /\ UNCHANGED <<n, mem, rotating, disk, wq, rit, rd, rg, up, restarts, negated, lost>>

CloseEnd ==
  /\ up = "closing" /\ wq = 0 /\ job.pc = "idle"
  /\ mem.size = 0
  /\ imm' = NoTable
  /\ up' = "closed"
  /\ UNCHANGED <<n, mem, rotating, disk, wq, job, rit, rd, rg, restarts, negated, lost>>

(* bit_catalogue_init and lsm_tree_init: the levels are filled from the    *)
(* catalogue in the order of the slots.                                    *)
Open ==
  /\ up = "closed"
  /\ up' = "open"
  /\ restarts' = restarts + 1
  /\ version' = CurrentVersion
  /\ cur' = 0
  /\ LET Fill(lev, max) ==
           LET fill[f \in 0 .. NrFd] ==
                 IF f = 0 THEN <<>>
                 ELSE IF files[f - 1] # NoFile /\ files[f - 1].level = lev
                 THEN AddFile(fill[f - 1], f - 1, max) ELSE fill[f - 1]
           IN fill[NrFd]
     IN l0' = Fill(0, 3) /\ l1' = Fill(1, MaxSize)
  /\ UNCHANGED <<index, files, wq, job, rit, rd, rg, negated, lost>>

Next ==
  \/ \E k \in Lbas : Put(k) \/ PutNegative(k)
  \/ Rotate
  \/ Compaction
  \/ Searching
  \/ Close \/ CloseMemtable \/ CloseEnd \/ Open

Spec == Init /\ [][Next]_vars

-----------------------------------------------------------------------------
(* Type invariant, with the memtable's size counter equal to the records   *)
(* it holds (memtable.c:144-185 adjusts it on five paths).                 *)
TypeOK ==
  /\ n \in 0 .. MaxPut
  /\ Len(rit) = n /\ \A b \in DOMAIN rit : rit[b] \in Lbas \cup {INF}
  /\ mem.size = NrRecord(mem.ents)
  /\ \A f \in Taken : files[f].level \in {0, 1} /\ files[f].ver <= version
  /\ Range(l0) \cup Range(l1) \subseteq Taken
  /\ cur \in 0 .. NrFd

(* The tree implements the abstract index: whatever rotation, compaction   *)
(* and restarts do, the newest record of every lba changes only when it is *)
(* put or hidden, or when a memtable is destroyed before the worker has    *)
(* read it, in that step and in no other.                                  *)
I == INSTANCE Index WITH idx <- [k \in Lbas |-> View(k)]

IndexSpec == I!Spec

(* A search returns the record of some moment between its call and its     *)
(* return, unless the record it holds was freed before it was copied,      *)
(* level 1 was searched while a merge replaced its files, or a memtable was*)
(* lost.                                                                   *)
FreshUnlessHazard == rd.pc = "idle" /\ rd.stale => rd.freed \/ rd.window \/ lost > 0

(* The same of a range search, which jindisk_do_read uses and which copies *)
(* the records under the locks, unless a file holds both a record and a    *)
(* negative one of the key and its leaf is not cached.                     *)
RangeFreshUnlessHazard == rg.stale => rg.pair \/ rg.window \/ lost > 0

(* Neither a put nor a merge gives back the block of a newest record; only *)
(* a memtable lost with newer records makes an older one the newest again, *)
(* whose block may be given back already.                                  *)
LiveUnlessLost == \A k \in Lbas : View(k) # 0 => rit[View(k)] = k \/ lost > 0

HeldIn(es, b) == \E k \in Lbas : es[k].val = b
HeldOnDisk(b) == \E f \in Taken : HeldIn(files[f].ents, b)

(* A superseded block that was not given back is still named by a record   *)
(* that a later put or merge will meet; only on an lba of which the        *)
(* collector has hidden a record, or with a lost memtable, may a block be  *)
(* forgotten.                                                              *)
LeakOnlyNegatedOrLost ==
  \A b \in DOMAIN rit :
    rit[b] # INF /\ negated[rit[b]] = 0 /\ lost = 0 =>
      HeldIn(mem.ents, b) \/ HeldIn(imm.ents, b) \/ HeldOnDisk(b)

(* What bit_level_lower_bound and bit_level_range_search assume when a     *)
(* compaction starts: one file in level 0, disjoint sorted files in level 1*)
LevelsOrdered ==
  job.pc = "idle" =>
    /\ Len(l0) <= 1
    /\ \A i \in 1 .. Len(l1) - 1 : LastKey(l1[i]) < FirstKey(l1[i + 1])

(* The file of level 0 is newer than every file of level 1, also after a   *)
(* restart has recomputed the maximum version.                             *)
VersionsOrdered ==
  job.pc = "idle" =>
    \A i \in DOMAIN l0 : \A j \in DOMAIN l1 : files[l0[i]].ver > files[l1[j]].ver

(* Slots suffice: there is one for every output of a merge, whose input    *)
(* still holds its own, and no file has more records than a slot was sized *)
(* for.                                                                    *)
SlotsSuffice ==
  /\ job.pc # "fd"
  /\ \A f \in Taken : NrRecord(files[f].ents) <= Capacity

(* When a compaction leaves defined behaviour: the missing level 2 is      *)
(* needed only if a file of level 1 holds fewer keys than it could, and a  *)
(* merge writes a file without entries only if records were hidden.        *)
UndefinedOnlyIf ==
  /\ job.pc = "level" => \E f \in Range(l1) : Cardinality(KeysIn(files[f].ents)) < Capacity
  /\ job.pc = "empty" => \E k \in Lbas : negated[k] > 0
=============================================================================
