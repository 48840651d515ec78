-------------------------- MODULE MCSegmentTables --------------------------
(* Instances of SegmentTables for TLC.                                     *)
EXTENDS SegmentTables, TLC

(* No action tells the flushing threads apart.                             *)
FlusherSymmetry == Permutations(Flushers)

(* Bound: after two flushes a behaviour with a race in it is followed only *)
(* while it has one kind of race and at most one thread is flushing.       *)
RacesBound ==
  \/ flushes <= 2
  \/ hazards = {}
  \/ /\ Cardinality(hazards) = 1
     /\ Cardinality({f \in Flushers : fl[f].pc # "idle"}) <= 1
=============================================================================
