------------------------------ MODULE BandPlan ------------------------------
(* core/bands.py, the geometry check of config/config.py and the bins that *)
(* node.py leaves out: which bin of the filter bank carries which channel. *)
(* Frequencies are counted from channel 1, with Spacing to a channel.      *)
EXTENDS Integers, FiniteSets, FiniteSetsExt

CONSTANTS
    Spacing,          \* CHANNEL_SPACING_HZ
    ChannelCount,     \* CHANNEL_COUNT
    ChannelTolerance  \* CHANNEL_MATCH_TOLERANCE_HZ

Apart(a, b) == IF a > b THEN a - b ELSE b - a

Channels == 1 .. ChannelCount
ChannelFrequency(channel) == (channel - 1) * Spacing

(* channel_at, 0 for off the grid. *)
ChannelWithin(frequency, tolerance) ==
    LET near == {c \in Channels : Apart(frequency, ChannelFrequency(c)) <= tolerance}
    IN  IF near = {} THEN 0 ELSE Min(near)
ChannelAt(frequency) == ChannelWithin(frequency, ChannelTolerance)

ImageFrequency(signal, centre) == 2 * centre - signal

(* fftfreq: the upper half of the bins is below the centre. *)
BinFrequency(centre, rate, bins, b) ==
    LET step == IF 2 * b < bins THEN b ELSE b - bins
    IN  centre + step * (rate \div bins)

(* channel_bin_index, for a rate that is a whole number of steps; -1 where *)
(* it raises.                                                              *)
ChannelBinIndex(channel, centre, rate, bins) ==
    LET step   == rate \div bins
        offset == ChannelFrequency(channel) - centre
    IN  IF offset % step # 0 THEN -1 ELSE (offset \div step) % bins

(* _validate_channeliser_geometry. *)
Accepts(s) ==
    /\ s.bins % s.decimation = 0
    /\ s.rate = s.bins * Spacing
    /\ s.centre % Spacing = 0
    /\ s.centre \div Spacing \notin 0 .. ChannelCount - 1

(* The bins a channel is in, when it is in the sampled band at all. *)
IsSampled(s, frequency) ==
    /\ 2 * (frequency - s.centre) < s.rate
    /\ 2 * (s.centre - frequency) <= s.rate
=============================================================================
