----------------------------- MODULE Frequency ------------------------------
(* core/frequency.py: the receiver's frequency error, measured against a    *)
(* transmitter whose frequency is known.  Spectra come as sequences of      *)
(* whole dB, one bin to a step of frequency; the transform itself and the   *)
(* straight line taken out of the notch's surroundings are numpy's.         *)
EXTENDS Integers, Sequences, SequencesExt

CONSTANTS
    Smoothing,   \* bins of the running mean, 9
    Below,       \* edge_below_peak_db
    Occupied,    \* expected_occupied_hz
    Slack,       \* OCCUPIED_TOLERANCE * expected_occupied_hz
    NotchDepth,  \* 3 dB
    NotchWidth,  \* minimum_width_hz
    TuningAway,  \* MINIMUM_TUNING_OFFSET_HZ
    Span,        \* _SYMMETRY_SPAN_HZ
    Search       \* _SYMMETRY_SEARCH_HZ

Abs(x) == IF x < 0 THEN -x ELSE x

(* np.convolve in mode "same": beyond the ends there is zero.  The sum is  *)
(* kept in place of the mean.                                              *)
Smoothed(power) ==
    [k \in DOMAIN power |->
        SumFunctionOnSet(power, {j \in DOMAIN power :
                                    Abs(j - k) <= Smoothing \div 2})]

PeakOf(power) ==
    Min({k \in DOMAIN power : \A j \in DOMAIN power : power[k] >= power[j]})

(* _edge: the crossing next to the peak on one side, interpolated; a       *)
(* fraction, and den = 0 where the spectrum does not cross.                *)
NoEdge == [num |-> 0, den |-> 0]

Edge(power, level, side) ==
    LET peak  == PeakOf(power)
        at    == {k \in DOMAIN power :
                    /\ side * (k - peak) >= 0
                    /\ k + side \in DOMAIN power
                    /\ power[k] >= level /\ level > power[k + side]}
        first == CHOOSE k \in at : \A j \in at : Abs(k - peak) <= Abs(j - peak)
        drop  == power[first] - power[first + side]
    IN  IF at = {} THEN NoEdge
        ELSE [num |-> first * drop + side * (power[first] - level), den |-> drop]

(* measure_centre: the middle of the edges, refused when they are not as   *)
(* far apart as those of a reference.  The centre is [num, den].           *)
Refused == [ok |-> FALSE]

HasWidth(low, high) ==
    Abs(high.num * low.den - low.num * high.den - Occupied * low.den * high.den)
        <= Slack * low.den * high.den

MeasureCentre(power) ==
    LET smooth == Smoothed(power)
        level  == smooth[PeakOf(smooth)] - Below * Smoothing
        low    == Edge(smooth, level, -1)
        high   == Edge(smooth, level, 1)
    IN  IF low = NoEdge \/ high = NoEdge THEN Refused
        ELSE IF ~HasWidth(low, high) THEN Refused
        ELSE [ok  |-> TRUE,
              num |-> low.num * high.den + high.num * low.den,
              den |-> 2 * low.den * high.den]

-----------------------------------------------------------------------------
(* _axis_of_symmetry, on a levelled profile over the offsets -n .. n; its  *)
(* ends stand for what is beyond them (np.interp).                         *)
Clamped(profile, k) ==
    profile[Max({Min(DOMAIN profile), Min({Max(DOMAIN profile), k})})]

Cost(profile, axis) ==
    SumFunction([lag \in -Span .. Span |->
        (Clamped(profile, axis - lag) - Clamped(profile, axis + lag))
            * (Clamped(profile, axis - lag) - Clamped(profile, axis + lag))])

(* The first of the best trials, moved to the lowest point of the parabola *)
(* through it and its neighbours; [num, den].                              *)
AxisOfSymmetry(profile) ==
    LET costs == [axis \in -Search .. Search |-> Cost(profile, axis)]
        best  == Min({a \in -Search .. Search :
                        \A b \in -Search .. Search : costs[a] <= costs[b]})
        curve == costs[best - 1] - 2 * costs[best] + costs[best + 1]
    IN  IF best \notin {-Search, Search} /\ curve > 0
        THEN [num |-> 2 * curve * best + costs[best - 1] - costs[best + 1],
              den |-> 2 * curve]
        ELSE [num |-> best, den |-> 1]

(* The longest run below the line. *)
Widest(profile) ==
    LET below == {k \in DOMAIN profile : profile[k] < -NotchDepth}
        runs  == {r \in (DOMAIN profile) \X (DOMAIN profile) :
                    r[1] <= r[2] /\ r[1] .. r[2] \subseteq below}
    IN  Max({0} \cup {r[2] - r[1] + 1 : r \in runs})

(* measure_notch_centre: a capture is [tuned, profile], tuned from the     *)
(* nominal frequency of the carrier.                                       *)
IsMeasurableAnywhere(capture) ==  \* slip: tuned onto the carrier
    Widest(capture.profile) >= NotchWidth
IsMeasurable(capture) ==
    /\ Abs(capture.tuned) >= TuningAway
    /\ Widest(capture.profile) >= NotchWidth

(* measure_notch_error: the offsets of the captures that can be measured,  *)
(* of which it takes the mean.                                             *)
NotchOffsets(captures) ==
    LET good == SelectSeq(captures, IsMeasurable)
    IN  [k \in DOMAIN good |-> AxisOfSymmetry(good[k].profile)]

(* nearest_carrier and nearest_uhf_channel: half to even. *)
Nearest(x, step) ==
    LET down  == x \div step
        twice == 2 * (x % step)
    IN  IF twice > step \/ (twice = step /\ down % 2 = 1) THEN down + 1 ELSE down

NearestCarrier(frequency, raster) == Nearest(frequency, raster) * raster

(* measure_frequency_error, against the closest television channel of a    *)
(* plan [base, step, lowest, highest]: measured less nominal, over den.    *)
NearestChannel(centre, plan) ==
    Max({plan.lowest, Min({plan.highest,
        Nearest(centre.num - plan.base * centre.den, plan.step * centre.den)})})

FrequencyError(power, plan) ==
    LET centre  == MeasureCentre(power)
        nominal == plan.base + NearestChannel(centre, plan) * plan.step
    IN  IF ~centre.ok THEN Refused
        ELSE [ok  |-> TRUE, num |-> centre.num - nominal * centre.den,
              den |-> centre.den]
=============================================================================
