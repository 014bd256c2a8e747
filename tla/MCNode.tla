------------------------------- MODULE MCNode ------------------------------
(* A small node for TLC: four bins, of which one or three are blanked, so  *)
(* that up to three emitters sit next to each other on the ring of bins;   *)
(* no destination fails, one does, or all do.                              *)
EXTENDS Node
=============================================================================
