--------------------------- MODULE MCChannelizer ---------------------------
(* A small filter bank for TLC: 4 channels, 2x oversampled, 3 taps per     *)
(* phase (windows of 12 samples), folded 2 frames at a time.               *)
EXTENDS Channelizer
=============================================================================
