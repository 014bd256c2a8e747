----------------------------- MODULE MCStores ------------------------------
(* Two stores for TLC: batches of one and two reports, and up to two       *)
(* sessions that end early.                                                *)
EXTENDS Stores
=============================================================================
