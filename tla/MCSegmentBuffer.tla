-------------------------- MODULE MCSegmentBuffer --------------------------
(* Instances of SegmentBuffer for TLC.                                     *)
EXTENDS SegmentBuffer

(* Bound: a behaviour is followed only while at most two kinds of hazard   *)
(* have happened in it.                                                    *)
HazardsBound == Cardinality(hazards) <= 2
=============================================================================
