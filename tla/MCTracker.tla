----------------------------- MODULE MCTracker -----------------------------
(* A small tracker for TLC: one bin, as update treats every bin on its     *)
(* own.  Blocks shorter than the hangover, longer than it, and empty; a    *)
(* cap that a burst reaches in one block or over several.                  *)
EXTENDS Tracker
=============================================================================
