----------------------------- MODULE MCBitTree -----------------------------
(* Instances of BitTree for TLC.                                           *)
EXTENDS BitTree
=============================================================================
