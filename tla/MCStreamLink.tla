---------------------------- MODULE MCStreamLink ---------------------------
(* A small link for TLC: a backoff that doubles twice before it reaches a  *)
(* cap that is no power of two of its start, as 30 s is none of 1 s, and   *)
(* calls that may last longer than the first waits.                        *)
EXTENDS StreamLink
=============================================================================
