---------------------------- MODULE MCTlsServer ----------------------------
(* A small server for TLC: two clients, so that one can be accepted,       *)
(* stall or leave while the other is being sent to.                        *)
EXTENDS TlsServer
=============================================================================
