------------------------------- MODULE Index -------------------------------
(***************************************************************************)
(* What the LSM tree promises its users (segment buffer, reads, collector):*)
(* a map from logical blocks to the record put last.  The n-th record put  *)
(* is the number n; 0 stands for no record, which is also what a negative  *)
(* record means to jindisk_do_read (INF_ADDR).                             *)
(***************************************************************************)
EXTENDS Naturals

CONSTANTS NrLba,    \* logical blocks
          MaxPut    \* bound: records put in a behaviour

VARIABLES idx, n,
          lost      \* times records were lost

Init == idx = [l \in 0 .. NrLba - 1 |-> 0] /\ n = 0 /\ lost = 0

(* lsm_tree->put(lba, record)                                              *)
Put(l) ==
  /\ n < MaxPut
  /\ n' = n + 1
  /\ idx' = [idx EXCEPT ![l] = n + 1]
  /\ UNCHANGED lost

(* lsm_tree->put(lba, NULL): the collector hides the record of a block it  *)
(* gives back.                                                             *)
PutNegative(l) ==
  /\ idx[l] # 0
  /\ idx' = [idx EXCEPT ![l] = 0]
  /\ UNCHANGED <<n, lost>>

(* A put that destroys a memtable nobody has read: the records in it are   *)
(* gone, negative ones too, and an lba goes back to an older record or to  *)
(* none.                                                                   *)
Lose ==
  /\ lost' = lost + 1
  /\ idx' \in [0 .. NrLba - 1 -> 0 .. n]
  /\ UNCHANGED n

Next == Lose \/ \E l \in 0 .. NrLba - 1 : Put(l) \/ PutNegative(l)

Spec == Init /\ [][Next]_<<idx, n, lost>>
=============================================================================
