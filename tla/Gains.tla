------------------------------- MODULE Gains --------------------------------
(* core/rfchain.py and core/calibration.py: levels along the receive chain, *)
(* the gains asked of the receiver, and the calibration fitted for them.    *)
(* Levels are whole dB.                                                     *)
EXTENDS Integers, Sequences, SequencesExt

CONSTANTS
    LnaStep, LnaMax, \* HACKRF_LNA_STEP_DB, HACKRF_LNA_MAX_DB
    VgaStep, VgaMax, \* HACKRF_VGA_STEP_DB, HACKRF_VGA_MAX_DB
    Pad,             \* the step of attenuators, 10 dB
    SlopeParts,      \* a saved slope is a multiple of 1 / SlopeParts: 10^-6
    OffsetParts,     \* a saved offset, of 1 / OffsetParts of a level: 10^-4 dB
    RangeStep        \* the ends of a saved range, in levels: 10^-3 dB

-----------------------------------------------------------------------------
(* A chain is a sequence of stages with a gain and a limit at their input. *)
LevelAt(chain, source, k) ==
    source + SumFunctionOnSet([j \in DOMAIN chain |-> chain[j].gain], 1 .. k - 1)

CheckInputSafety(chain, source) ==
    {k \in DOMAIN chain : LevelAt(chain, source, k) > chain[k].limit}

CeilToPad(x) == ((x + Pad - 1) \div Pad) * Pad

Excess(chain, source, margin, k) ==
    LevelAt(chain, source, k) - (chain[k].limit - margin)

RequiredAttenuation(chain, source, margin) ==
    CeilToPad(Max({0} \cup
        {Excess(chain, source, margin, k) : k \in DOMAIN chain}))

-----------------------------------------------------------------------------
(* round(x / step), half to even; a multiple of step between 0 and the most. *)
Rounded(x, step) ==
    LET down  == x \div step
        twice == 2 * (x % step)
    IN  IF twice > step \/ (twice = step /\ down % 2 = 1) THEN down + 1 ELSE down

Snapped(x, step, most) == Max({0, Min({most, Rounded(x, step) * step})})

QuantiseGains(lna, vga, amp) ==
    [lna |-> Snapped(lna, LnaStep, LnaMax),
     vga |-> Snapped(vga, VgaStep, VgaMax), amp |-> amp]

PlanGains(external, target) ==
    LET budget == Max({0, target - external})
        lna    == Min({LnaMax, (budget \div LnaStep) * LnaStep})
    IN  QuantiseGains(lna, Min({VgaMax, budget - lna}), FALSE)

-----------------------------------------------------------------------------
(* fit_calibration.  A point is [dbfs, dbm]; a fit keeps the coefficients  *)
(* of the line as fractions over den: dbm = (slope * dbfs + offset) / den. *)
Line(points) ==
    LET n   == Len(points)
        x   == SumFunction([k \in 1 .. n |-> points[k].dbfs])
        y   == SumFunction([k \in 1 .. n |-> points[k].dbm])
        xx  == SumFunction([k \in 1 .. n |-> points[k].dbfs * points[k].dbfs])
        xy  == SumFunction([k \in 1 .. n |-> points[k].dbfs * points[k].dbm])
        det == n * xx - x * x
    IN  [slope  |-> n * (n * xy - x * y),
         offset |-> y * det - (n * xy - x * y) * x,
         den    |-> n * det]

Magnitude(x) == IF x < 0 THEN -x ELSE x

(* The power of a level and the residual of a point, in units of 1 / den. *)
ToDbm(line, dbfs) == line.slope * dbfs + line.offset

Residual(line, point) ==
    Magnitude(point.dbm * line.den - ToDbm(line, point.dbfs))

Worst(points, line) ==
    CHOOSE k \in DOMAIN points : \A j \in DOMAIN points :
        \/ Residual(line, points[k]) > Residual(line, points[j])
        \/ Residual(line, points[k]) = Residual(line, points[j]) /\ k <= j

IsLinear(points, line, most) ==
    Residual(line, points[Worst(points, line)]) <= most * line.den

DropOne(points, most) ==
    LET line == Line(points)
    IN  IF IsLinear(points, line, most) \/ Len(points) <= 3 THEN points
        ELSE RemoveAt(points, Worst(points, line))

Remaining(points, most) ==
    FoldLeft(LAMBDA kept, k : DropOne(kept, most), points, points)

RangeOf(points) == {points[k].dbfs : k \in DOMAIN points}

ValidOverAll(points, kept) ==  \* slip: the range of the whole sweep
    [low |-> Min(RangeOf(points)), high |-> Max(RangeOf(points))]
ValidRange(points, kept) ==
    [low |-> Min(RangeOf(kept)), high |-> Max(RangeOf(kept))]

FitCalibration(gains, points, most) ==
    LET kept == Remaining(points, most)
    IN  [gains |-> gains, line |-> Line(kept),
         valid |-> ValidRange(points, kept), points |-> kept]

(* PowerCalibration: a function from gains to the calibration for them. *)
AddCalibration(table, calibration) ==
    [g \in DOMAIN table \cup {calibration.gains} |->
        IF g = calibration.gains THEN calibration ELSE table[g]]

InRange(calibration, dbfs) ==
    calibration.valid.low <= dbfs /\ dbfs <= calibration.valid.high

HasDbm(table, dbfs, gains) ==
    gains \in DOMAIN table /\ InRange(table[gains], dbfs)

(* What save writes is rounded, each figure to places of its own; load     *)
(* quantises the gains on the way in.                                      *)
SavedLine(line) ==
    [slope  |-> Rounded(line.slope * SlopeParts, line.den) * OffsetParts,
     offset |-> Rounded(line.offset * OffsetParts, line.den) * SlopeParts,
     den    |-> SlopeParts * OffsetParts]

SavedRange(valid) ==
    [low  |-> Rounded(valid.low, RangeStep) * RangeStep,
     high |-> Rounded(valid.high, RangeStep) * RangeStep]

Loaded(table) ==
    [g \in DOMAIN table |->
        [gains  |-> QuantiseGains(g.lna, g.vga, g.amp),
         line   |-> SavedLine(table[g].line),
         valid  |-> SavedRange(table[g].valid),
         points |-> table[g].points]]
=============================================================================
