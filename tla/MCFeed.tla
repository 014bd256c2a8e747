------------------------------ MODULE MCFeed -------------------------------
(* One emitter with two tones and a ring for TLC, so four identities on the *)
(* map, and time for three overs of it: a loss, a late datagram and a newer *)
(* over before the older one is stale.                                      *)
EXTENDS Feed
=============================================================================
