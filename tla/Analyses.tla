------------------------------ MODULE Analyses ------------------------------
(* The computations beside the capture: what esm446-eob makes of an         *)
(* archive, how a simulated scene is scored, the detector on one block, the *)
(* tuning, gains and calibration of the receiver, the passes over a         *)
(* recording, the frequency reference, the vote on a tone and the register  *)
(* of measured figures.  Each is a function; a behaviour takes one task and *)
(* one input of it and computes.                                            *)
EXTENDS OrderOfBattle, Metrics, Detector, BandPlan, Gains, Sweeps, Frequency,
        Tones, Measured, Sources

CONSTANTS  \* the inputs
    Archives, Scenes, Blocks, Tunings, Chains, SweepSeqs, Recordings, References,
    Windows, CallSeqs, Captures

ASSUME AnalysesAssumption ==
    /\ {ProductTolerance, FrequencyTolerance, ToneTolerance, MatchTolerance,
        ChannelTolerance, LnaMax, VgaMax, Below, Occupied, Slack, NotchDepth,
        NotchWidth, TuningAway, Span, Search, Contrast, MinWindows} \subseteq Nat
    /\ {LevelMargin, Hour, ExclusionFactor, Spacing, ChannelCount, LnaStep, VgaStep,
        Pad, SlopeParts, OffsetParts, RangeStep} \subseteq Nat \ {0}
    /\ 2 * ChannelTolerance < Spacing
    /\ LnaMax % LnaStep = 0 /\ VgaMax % VgaStep = 0 /\ LnaStep <= VgaMax
    /\ Smoothing % 2 = 1
    /\ VoteRatio \in 0 .. 100

(* What the tools can be given. *)
ASSUME InputsAssumption ==
    /\ Chains \subseteq
           [chain : Seq([gain : Int, limit : Int]), source : Int, margin : Int,
            external : Int, target : Int]
    /\ Tunings \subseteq
           [bins : Nat \ {0}, decimation : Nat \ {0}, rate : Nat, centre : Int]
    /\ \A x \in Windows : x.windows \in Seq([tone : Nat, contrast : Nat])
    /\ \A calls \in CallSeqs :
           /\ calls \in Seq(Range(calls))
           /\ \A n \in DOMAIN calls : calls[n].status \in {"measured", "pending"}
    /\ \A x \in SweepSeqs :
           /\ x.sweeps \in Seq(Range(x.sweeps)) /\ x.most \in Nat /\ x.readings \subseteq Int
           /\ \A k \in DOMAIN x.sweeps :
                  /\ x.sweeps[k].points \in Seq([dbfs : Int, dbm : Int])
                  /\ Len(x.sweeps[k].points) >= 3  \* fit_calibration refuses fewer
                  /\ LET g == x.sweeps[k].gains
                     IN  g = QuantiseGains(g.lna, g.vga, g.amp)
    /\ \A x \in Recordings :
           /\ x.frames \in Seq([0 .. x.bins - 1 -> Int]) /\ x.codes \in Seq(Int \X Int)
           /\ {x.chunk, x.size, x.most} \subseteq Nat \ {0}
           /\ {x.settle, x.samples, x.bins} \subseteq Nat /\ x.overlap \in Int
           /\ (0 .. x.bins - 1) \ ExcludedBins(x.bins, x.dc, x.edge) # {}
    /\ \A x \in Captures :
           /\ x.items \in Seq(Range(x.items)) /\ {x.block, x.ratio} \subseteq Nat \ {0}
           /\ {x.begin, x.start, x.duration} \subseteq Nat

VARIABLES task, input, output, done

vars == <<task, input, output, done>>

InputsOf == [battle |-> Archives, score |-> Scenes, detect |-> Blocks,
             tune |-> Tunings, gains |-> Chains, calibrate |-> SweepSeqs,
             sweep |-> Recordings, reference |-> References,
             tone |-> Windows, record |-> CallSeqs, replay |-> Captures]

Init ==
    /\ task \in DOMAIN InputsOf
    /\ input \in InputsOf[task]
    /\ output = <<>>
    /\ done = FALSE

Yields(name, value) ==
    /\ task = name /\ ~done
    /\ output' = value
    /\ done' = TRUE
    /\ UNCHANGED <<task, input>>

(* cli/eob.py: read, select, summarise. *)
OrderOfBattle ==
    Yields("battle", Summarise(
        Selected(input.reports, input.since, input.channel)))

ScoreScene ==
    Yields("score", Score(input.reports, Truth(input.scene), input.sceneStart))

DetectBlock ==
    /\ task = "detect" => IsValidConfig(input.cfg)
    /\ Yields("detect", DetectionMask(input.cfg, input.frames, input.exclude))

Tune == Yields("tune", Accepts(input))

PlanReceiver ==
    Yields("gains",
        [attenuation |-> RequiredAttenuation(input.chain, input.source, input.margin),
         gains |-> PlanGains(input.external, input.target)])

(* Sweeps one after another, each added to the table, which is saved. *)
Calibrate ==
    Yields("calibrate", FoldLeft(LAMBDA table, sweep :
        AddCalibration(table,
            FitCalibration(sweep.gains, sweep.points, input.most)),
        [g \in {} |-> 0], input.sweeps))

(* The attenuator sweep takes frames, the survey a count of samples. *)
Excluded  == ExcludedBins(input.bins, input.dc, input.edge)
SurveyHop == Hop(input.size, input.overlap)

Sweep ==
    Yields("sweep",
        [level     |-> Measure(input.frames, input.bins, input.chunk, input.settle,
                              Excluded),
         bits      |-> Bits(input.codes, input.chunk),
         analysed  |-> Analysed(input.samples, input.size, SurveyHop, input.chunk),
         waterfall |-> Waterfall(input.samples, input.size, SurveyHop, input.most)])

MeasureReference ==
    Yields("reference",
        [notches |-> NotchOffsets(input.captures),
         error   |-> FrequencyError(input.power, input.plan)])

IdentifyTone ==
    LET result == Detect(input.windows)
    IN  Yields("tone", [tone  |-> result.tone,
                        class |-> Classify(result, input.expected)])

RecordFigures == Yields("record", Register(input))

(* A recording replayed, and a vector cut out of it. *)
Recording == Recorded(input.begin, input.items)

Vector == Extracted(Recording, input.start, input.duration, input.ratio, input.later)

Replay ==
    Yields("replay",
        [start  |-> InferStart(Recording),
         read   |-> ReadAll(Recording, input.block).read,
         array  |-> ReadArray(input.items, input.block).read,
         vector |-> IF Holds(Recording, input.start, input.duration)
                    THEN <<[start |-> InferStart(Vector),
                            read  |-> ReadAll(Vector, input.block).read]>>
                    ELSE <<>>])

Next ==
    \/ OrderOfBattle \/ ScoreScene
    \/ DetectBlock
    \/ Tune \/ PlanReceiver \/ Calibrate
    \/ Sweep \/ MeasureReference
    \/ IdentifyTone \/ RecordFigures
    \/ Replay

Spec == Init /\ [][Next]_vars

Is(name) == done /\ task = name

Swapped(s, i) == [s EXCEPT ![i] = s[i + 1], ![i + 1] = s[i]]
-----------------------------------------------------------------------------
(* The order of battle.                                                    *)
Archive == Selected(input.reports, input.since, input.channel)

EachReportIsSomewhere ==
    \A i \in DOMAIN Archive :
        LET As(key) == {k \in DOMAIN output.profiles :
                           i \in Range(output.profiles[k][key])}
        IN  IF output.marks[i].kind = "none"
            THEN Cardinality(As("emissions")) = 1 /\ As("products") = {}
            ELSE As("emissions") = {} /\ Cardinality(As("products")) <= 1

AirtimeAddsUp ==
    LET total == SumFunction([k \in DOMAIN output.figures |->
                                 output.figures[k].airtime])
    IN  /\ total = SumFunction(output.occupancy.airtime)
        /\ total = SumFunction(output.channels)
        /\ total = SumFunction(output.hours)

ProvenMeansOverlap ==
    \A k \in DOMAIN output.profiles :
        LET members == output.profiles[k].emissions
            figures == output.figures[k]
        IN  /\ output.profiles[k].multiple <=>
                   \E a, b \in DOMAIN members :
                       a < b /\ Overlaps(Archive[members[a]], Archive[members[b]])
            /\ ~output.profiles[k].multiple =>
                   figures.airtime <= figures.lastSeen - figures.firstSeen

AttributionIgnoresOrder ==
    \A i \in 1 .. Len(Archive) - 1 :
        LET swapped == AttributeProducts(Swapped(Archive, i))
        IN  [k \in DOMAIN swapped |-> swapped[k].kind] =
            Swapped([k \in DOMAIN output.marks |-> output.marks[k].kind], i)

(* An order of battle loses and doubles nothing: every detection is an     *)
(* emission of one profile or a by-product, the airtime of the profiles is *)
(* that of the channels and hours, more than one emitter is claimed exactly *)
(* when two emissions overlap (and only then does a profile transmit more  *)
(* than its own span), and whether a detection is a by-product does not    *)
(* depend on the order of the archive.                                     *)
OrderOfBattleAddsUp ==
    Is("battle") =>
        /\ EachReportIsSomewhere
        /\ AirtimeAddsUp
        /\ ProvenMeansOverlap
        /\ AttributionIgnoresOrder
-----------------------------------------------------------------------------
(* The score of a scene.                                                   *)
SceneTruth == Truth(input.scene)

EachReportCountsOnce ==
    \A i \in DOMAIN input.reports :
        Cardinality({m \in DOMAIN output.matches : i \in Range(output.matches[m])})
            + (IF i \in Range(output.spurious) THEN 1 ELSE 0) = 1

MatchedToTheLongest ==
    \A m \in DOMAIN output.matches : \A i \in Range(output.matches[m]) :
        \A n \in Hits(input.reports[i], SceneTruth, input.sceneStart) :
            Common(input.reports[i], SceneTruth[m], input.sceneStart)
                >= Common(input.reports[i], SceneTruth[n], input.sceneStart)

Perfect == [m \in DOMAIN SceneTruth |->
    [frequency |-> SceneTruth[m].frequency, tone |-> SceneTruth[m].tone,
     channel   |-> SceneTruth[m].channel,
     start     |-> input.sceneStart + SceneTruth[m].start,
     duration  |-> SceneTruth[m].stop - SceneTruth[m].start]]

AreApart ==
    \A m, n \in DOMAIN SceneTruth :
        m # n => ~IsOf(Perfect[m], SceneTruth[n], input.sceneStart)

PerfectNodeScoresFull ==
    LET n     == Len(SceneTruth)
        score == Headline(Perfect, SceneTruth,
                     Score(Perfect, SceneTruth, input.sceneStart), input.edges)
    IN  AreApart =>
        /\ <<score.detected, score.channelRight, score.toneRight>> = <<n, n, n>>
        /\ <<score.spurious, score.fragmented, score.merged>> = <<0, 0, 0>>
        /\ score.errors \subseteq {0}
        /\ \A b \in DOMAIN score.bySnr : score.bySnr[b][1] = score.bySnr[b][2]

(* The figures of a demonstration are about the node: no report is counted *)
(* for two transmissions or lost, each goes to the transmission it has     *)
(* most time in common with, and a node that reports exactly what was on   *)
(* the air has a full score, unless transmissions lie on each other.       *)
ScoreIsFair ==
    Is("score") => EachReportCountsOnce /\ MatchedToTheLongest /\ PerfectNodeScoresFull
-----------------------------------------------------------------------------
(* The detector.                                                           *)
Cells(frame) == DOMAIN frame
Turned(frame) == [b \in Cells(frame) |-> frame[(b - 1) % Cardinality(Cells(frame))]]
TurnedSet(S, frame) == {(b + 1) % Cardinality(Cells(frame)) : b \in S}
SameValue(x, y) == x.num * y.den = y.num * x.den

(* The cell under test and its guards have no part in its own estimate. *)
OwnCellsDoNotCount ==
    LET frame == input.frames[1]
        n     == Cardinality(Cells(frame))
    IN  \A b \in Cells(frame), k \in -input.cfg.guard .. input.cfg.guard :
            NoiseEstimateExact(input.cfg, frame)[b] =
            NoiseEstimateExact(input.cfg,
                [frame EXCEPT ![(b + k) % n] = 2 * @ + 1])[b]

BandHasNoEdge ==
    LET turned == DetectionMask(input.cfg,
                      [f \in DOMAIN input.frames |-> Turned(input.frames[f])],
                      TurnedSet(input.exclude, input.frames[1]))
    IN  \A f \in DOMAIN input.frames :
            turned[f] = TurnedSet(output[f], input.frames[f])

HoldingCostsNothing ==
    LET noise == NoiseEstimate(input.cfg, input.frames)
        exact == NoiseEstimateExact(input.cfg, input.frames[1])
    IN  (\A f \in DOMAIN input.frames : input.frames[f] = input.frames[1]) =>
            \A f \in DOMAIN noise : \A b \in DOMAIN exact :
                SameValue(noise[f][b], exact[b])

(* In a frame that is not itself an anchor, an emitter that is already out *)
(* of the level and gets louder changes no cell but its own pairs.         *)
LoudHidesNobody ==
    \A f \in DOMAIN input.frames :
        LET frame == input.frames[f]
            n     == Cardinality(Cells(frame))
            held  == NoiseEstimateExact(input.cfg,
                         input.frames[Anchor(input.cfg, f)])
            quiet == {b \in Cells(frame) :
                         frame[b] * held[b].den < held[b].num * ExclusionFactor}
        IN  /\ IsHeld(input.cfg, input.frames)
            /\ Anchor(input.cfg, f) # f
            /\ quiet # {}
            => \A b \in Cells(frame) \ quiet :
                   LET louder == DetectionMask(input.cfg,
                                     [input.frames EXCEPT ![f][b] = 3 * @],
                                     input.exclude)
                       own    == {b, (b + 1) % n, (b - 1) % n}
                   IN  /\ louder[f] \ own = output[f] \ own
                       /\ \A g \in DOMAIN output \ {f} : louder[g] = output[g]

(* The detector judges a bin by its surroundings: not by itself, not by    *)
(* where in the band it is, not by how long the estimate is held when      *)
(* nothing changes, and not by how loud an emitter elsewhere is.           *)
DetectorIsLocal ==
    Is("detect") =>
        OwnCellsDoNotCount /\ BandHasNoEdge /\ HoldingCostsNothing /\ LoudHidesNobody
-----------------------------------------------------------------------------
(* The receiver.                                                           *)
ChannelsHaveTheirBins ==
    LET Bin(c) == ChannelBinIndex(c, input.centre, input.rate, input.bins)
        Frequency(b) == BinFrequency(input.centre, input.rate, input.bins, b)
        sampled == {c \in Channels :
                       IsSampled(input, ChannelFrequency(c))}
    IN  /\ \A c \in sampled :
               /\ Frequency(Bin(c)) = ChannelFrequency(c)
               /\ ChannelAt(Frequency(Bin(c))) = c
               /\ ChannelAt(ImageFrequency(Frequency(Bin(c)), input.centre)) = 0
        /\ \A c, d \in sampled : c # d => Bin(c) # Bin(d)
        /\ ChannelAt(input.centre) = 0

(* A receiver that the configuration accepts has each sampled channel on a *)
(* bin of its own that goes by its number, and neither its spur nor the    *)
(* image of a channel on any channel.                                      *)
TuningIsSound == Is("tune") /\ output => ChannelsHaveTheirBins

AttenuationIsEnough ==
    LET a == output.attenuation
    IN  /\ CheckInputSafety(input.chain, input.source - a + input.margin) = {}
        /\ a > 0 => CheckInputSafety(input.chain,
                        input.source - (a - Pad) + input.margin) # {}

(* Half a step above the target at the most: the last step is rounded. *)
PlanKeepsToBudget ==
    LET gains  == output.gains
        budget == Max({0, input.target - input.external})
    IN  /\ gains = QuantiseGains(gains.lna, gains.vga, gains.amp)
        /\ 2 * (gains.lna + gains.vga - budget) <= VgaStep
        /\ gains.lna + gains.vga < budget - VgaStep \div 2
               => gains.lna = LnaMax /\ gains.vga = VgaMax
        /\ gains.lna < LnaMax => gains.lna + LnaStep > budget

(* The levels a measurement is made with: the attenuator asked for leaves  *)
(* the margin at every stage of the chain and one pad less would not, and  *)
(* the planned gains use the budget up, the first amplifier first.         *)
LevelsAreRight == Is("gains") => AttenuationIsEnough /\ PlanKeepsToBudget

SweepsOf(gains) == {k \in DOMAIN input.sweeps : input.sweeps[k].gains = gains}

OnLine(points, most) == IsLinear(points, Line(points), most)

(* A table that was saved and loaded again, whose figures are rounded: it  *)
(* is for the same gains; it gives a reading a power that was outside, or  *)
(* none to one that was inside, only within half the last place of an end  *)
(* of the range; and the power differs by half the last place of the       *)
(* offset and of the slope, times the reading, at the most.                *)
NearEnd(valid, x) ==
    \E end \in {valid.low, valid.high} : 2 * Magnitude(x - end) <= RangeStep

SavedTableIsClose ==
    LET loaded == Loaded(output)
    IN  \A g \in DOMAIN output :
            /\ loaded[g].gains = g
            /\ \A x \in input.readings :
                   LET fitted == output[g].line
                       saved  == loaded[g].line
                   IN  /\ HasDbm(loaded, x, g) # HasDbm(output, x, g) =>
                              NearEnd(output[g].valid, x)
                       /\ fitted.den > 0 =>
                              2 * Magnitude(ToDbm(saved, x) * fitted.den
                                            - ToDbm(fitted, x) * saved.den)
                                  <= fitted.den
                                       * (Magnitude(x) * OffsetParts + SlopeParts)

(* A reading becomes a power in dBm only for the gains of a sweep and      *)
(* within what the last sweep with them kept; what was kept is on a line,  *)
(* as long as there were points to drop; and a saved table reads the same  *)
(* but for the places it is saved with.                                    *)
CalibrationIsOfItsSweep ==
    Is("calibrate") =>
        /\ DOMAIN output = {input.sweeps[k].gains : k \in DOMAIN input.sweeps}
        /\ \A g \in DOMAIN output :
               LET points == input.sweeps[Max(SweepsOf(g))].points
                   kept   == output[g].points
               IN  /\ Range(kept) \subseteq Range(points)
                   /\ OnLine(kept, input.most) \/ Len(kept) = 3
                   /\ \A x \in input.readings :
                          HasDbm(output, x, g) =>
                              \E p, q \in Range(kept) : p.dbfs <= x /\ x <= q.dbfs
        /\ SavedTableIsClose

(* A measurement can be believed: the bins it is made on belong to the      *)
(* channels, its levels are neither past a stage of the chain nor short of  *)
(* the budget, and its decibels are those of the calibration made with its  *)
(* gains.                                                                   *)
ReceiverIsSound == TuningIsSound /\ LevelsAreRight /\ CalibrationIsOfItsSweep
-----------------------------------------------------------------------------
(* Recordings, the reference, tones and figures.                           *)
EveryFrameOnce ==
    LET n == FrameCount(input.samples, input.size, SurveyHop)
    IN  output.analysed = [k \in 1 .. n |-> (k - 1) * SurveyHop]

WaterfallIsEven ==
    LET n    == FrameCount(input.samples, input.size, SurveyHop)
        rows == output.waterfall
    IN  /\ Len(rows) <= input.most
        /\ \A k \in 1 .. Len(rows) : rows[k] + input.size <= input.samples
        /\ n % input.most = 0 /\ n > 0 =>
               input.samples - (Last(rows) + input.size)
                   < Stride(n, input.most) * SurveyHop

BitsAreOfAll ==
    LET Of(c)   == Component(input.codes, c)
        Mean(c) == [sum     |-> SumFunction(Of(c)),
                    squares |-> SumFunction([k \in DOMAIN Of(c) |-> Of(c)[k] * Of(c)[k]])]
    IN  /\ output.bits.n = Len(input.codes)
        /\ output.bits.occupied = Cardinality(Range(Of(1)) \cup Range(Of(2)))
        /\ output.bits.i = Mean(1) /\ output.bits.q = Mean(2)

(* What is said of a recording does not depend on the chunks it is read    *)
(* in: neither by the attenuator sweep, which drops the settling frames    *)
(* once and never takes an excluded bin, nor by the survey, nor by the     *)
(* statistics of the converter's codes.                                    *)
ChunksDoNotMatter ==
    Is("sweep") =>
        /\ Len(input.frames) > 0 =>
               output.level = Measure(input.frames, input.bins,
                                  Len(input.frames), input.settle, Excluded)
        /\ output.level.failed <=> Len(input.frames) <= input.settle
        /\ ~output.level.failed => output.level.bin \notin Excluded
        /\ EveryFrameOnce
        /\ WaterfallIsEven
        /\ BitsAreOfAll

(* Of a sweep in which one point is off the line of the others. *)
OutlierIsFound(points, kept) ==
    \A k \in DOMAIN points :
        LET others == RemoveAt(points, k)
        IN  /\ Len(points) >= 6 /\ OnLine(others, 0) /\ ~OnLine(points, input.most)
            => kept = others

OutliersAreFound ==
    Is("calibrate") =>
        \A g \in DOMAIN output :
            OutlierIsFound(input.sweeps[Max(SweepsOf(g))].points, output[g].points)

(* The error measured is the error there is: whatever the captures, those  *)
(* in which the notch can be measured give exactly its place, no other is  *)
(* counted, the middle of a flat block is found where it stands, and the   *)
(* receiver's error does not take a carrier or a channel for another one.  *)
ReferenceIsFollowed ==
    Is("reference") =>
        /\ Len(output.notches) = Cardinality({k \in DOMAIN input.captures :
               input.captures[k].shows})
        /\ \A k \in DOMAIN output.notches :
               output.notches[k].num = input.shift * output.notches[k].den
        /\ output.error.ok =>
               output.error.num = input.shift * output.error.den
        /\ NearestCarrier(input.carrier + input.shift, input.raster)
               = input.carrier

(* What is wrong with a measurement is found and is what is found: a point *)
(* off the line of the others of a sweep of six or more is the one that    *)
(* goes, and the frequency error is that of the receiver.                  *)
ErrorsAreFound == ReferenceIsFollowed /\ OutliersAreFound

(* Whatever the size of the blocks, a replay reads the recording and all of *)
(* it, but for half a sample at its end, and dates it to when its first     *)
(* sample was on the air; and a vector has the samples of the span it was   *)
(* asked for, the first of every ratio.                                     *)
ReplayIsFaithful ==
    Is("replay") =>
        /\ output.start = input.begin
        /\ output.read = SubSeq(input.items, 1, 2 * (Len(input.items) \div 2))
        /\ output.array = input.items
        /\ output.vector # <<>> =>
               \A k \in 1 .. Len(output.vector[1].read) \div 2 :
                   LET of == 2 * (input.start + (k - 1) * input.ratio)
                   IN  SubSeq(output.vector[1].read, 2 * k - 1, 2 * k) =
                           SubSeq(input.items, of + 1, of + 2)

(* What is made of a recording is a matter of the recording: every pass over *)
(* it, in whatever chunks or blocks, takes it once and in order; all of it,  *)
(* but for the waterfall, whose rows span it only when frames fill them.     *)
RecordingsAreReadWhole == ChunksDoNotMatter /\ ReplayIsFaithful

(* A vector dates its first sample to when that was on the air, as the      *)
(* comment on its start_time says.  It does not, as the time of the last    *)
(* write is the end of the capture: no run states this, and TLC refutes it  *)
(* when given as an invariant of MCAnalyses.                                *)
VectorKeepsTime ==
    Is("replay") /\ output.vector # <<>> =>
        output.vector[1].start = input.begin + input.start

(* A tone is identified when enough of all windows agree on it, and when   *)
(* enough is more than half it is the same in whatever order they come.    *)
TonesAreVoted ==
    Is("tone") =>
        /\ output.tone # 0 =>
               100 * Cardinality({k \in DOMAIN input.windows :
                                     input.windows[k].tone = output.tone})
                   >= VoteRatio * Len(input.windows)
        /\ \A i \in 1 .. Len(input.windows) - 1 :
               2 * VoteRatio > 100 =>
                   Detect(Swapped(input.windows, i)).tone = output.tone
        /\ output.class = "FRIEND" => input.expected # 0 /\ output.tone = input.expected

(* The calls of a key that were not refused. *)
Taken(key) ==
    {n \in DOMAIN input :
        /\ input[n].key = key
        /\ ~IsRefused(Register(SubSeq(input, 1, n - 1)), input[n])}

(* The register says of each figure what its last call said, since when    *)
(* that has been so without a break and when it was last confirmed; and a  *)
(* figure once measured is pending again only by force.                    *)
RegisterIsHistory ==
    Is("record") =>
        /\ DOMAIN output = {key \in {input[n].key : n \in DOMAIN input} : Taken(key) # {}}
        /\ \A key \in DOMAIN output :
               LET last  == Max(Taken(key))
                   since == output[key].firstSeen
                   Same(n) == /\ input[n].content = output[key].content
                              /\ input[n].status = output[key].status
                   before == {n \in Taken(key) : n < since}
               IN  /\ Same(last) /\ output[key].lastVerified = last
                   /\ since \in Taken(key)
                   /\ \A n \in Taken(key) : n >= since => Same(n)
                   /\ before # {} => ~Same(Max(before))
                   /\ output[key].status = "pending" =>
                          \/ \A n \in Taken(key) : input[n].status = "pending"
                          \/ \E n \in Taken(key) : input[n].force
=============================================================================
