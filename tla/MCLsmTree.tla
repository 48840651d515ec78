----------------------------- MODULE MCLsmTree -----------------------------
(* Instances of LsmTree for TLC.                                           *)
EXTENDS LsmTree
=============================================================================
