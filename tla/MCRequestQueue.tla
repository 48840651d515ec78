--------------------------- MODULE MCRequestQueue --------------------------
(* Instances of RequestQueue for TLC.                                      *)
EXTENDS RequestQueue
============================================================================
