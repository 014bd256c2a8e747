------------------------------ MODULE Detector ------------------------------
(* core/detector.py: the CFAR detector over frames of bin powers.  Frames   *)
(* are 1 .. n and bins 0 .. bins - 1, on a circle.  An estimate is a        *)
(* fraction, [num, den], and thresholds are compared crosswise.  The        *)
(* configuration is a record with the fields of CfarConfig; its factors,    *)
(* which the code solves from pfa, are given.                               *)
EXTENDS Integers, Sequences, SequencesExt

CONSTANT ExclusionFactor  \* _LEVEL_EXCLUSION_FACTOR

Bins(frame) == DOMAIN frame
Width(frame) == Cardinality(Bins(frame))

(* round() of a quarter of n, half to even. *)
RoundedQuarter(n) ==
    IF n % 4 = 2 THEN (IF (n \div 4) % 2 = 0 THEN n \div 4 ELSE n \div 4 + 1)
                 ELSE (n + 2) \div 4

OsRank(cfg) == Max({1, Min({cfg.reference, RoundedQuarter(3 * cfg.reference)})})

IsValidConfig(cfg) ==
    /\ cfg.reference >= 2 /\ cfg.reference % 2 = 0
    /\ cfg.guard >= 0
    /\ cfg.method \in {"ca", "os"}
    /\ cfg.interval >= 1

(* The reference cells of a bin: half on either side, outside the guards. *)
ReferenceWithGuards(cfg, frame, b) ==  \* slip: one guard too few
    {(b + side * k) % Width(frame) : side \in {1, -1},
        k \in cfg.guard .. cfg.guard + cfg.reference \div 2 - 1}
Reference(cfg, frame, b) ==
    {(b + side * k) % Width(frame) : side \in {1, -1},
        k \in cfg.guard + 1 .. cfg.guard + cfg.reference \div 2}

(* The k-th smallest of the powers of some bins. *)
Ranked(frame, S, k) ==
    LET cell == CHOOSE c \in S :
                  /\ Cardinality({d \in S : frame[d] < frame[c]}) < k
                  /\ Cardinality({d \in S : frame[d] <= frame[c]}) >= k
    IN  frame[cell]

NoiseEstimateExact(cfg, frame) ==
    [b \in Bins(frame) |->
        LET cells == Reference(cfg, frame, b)
        IN  IF cfg.method = "ca"
            THEN [num |-> SumFunctionOnSet(frame, cells), den |-> cfg.reference]
            ELSE [num |-> Ranked(frame, cells, OsRank(cfg)), den |-> 1]]

(* The frame an estimate is held from. *)
Anchor(cfg, f) == ((f - 1) \div cfg.interval) * cfg.interval + 1

IsHeld(cfg, frames) == cfg.interval > 1 /\ Len(frames) > cfg.interval

(* _frame_levels: the mean of the bins that carry no signal, or of all. *)
Quiet(frame, held) ==
    {b \in Bins(frame) : frame[b] * held[b].den < held[b].num * ExclusionFactor}

FrameLevel(frame, held) ==
    LET quiet   == Quiet(frame, held)
        counted == IF quiet = {} THEN Bins(frame) ELSE quiet
    IN  [num |-> SumFunctionOnSet(frame, counted), den |-> Cardinality(counted)]

(* noise_estimate.  No frame is without any power. *)
NoiseEstimate(cfg, frames) ==
    LET exact  == [f \in DOMAIN frames |-> NoiseEstimateExact(cfg, frames[f])]
        held   == [f \in DOMAIN frames |-> exact[Anchor(cfg, f)]]
        level  == [f \in DOMAIN frames |-> FrameLevel(frames[f], held[f])]
        Tracked(f, b) ==
            LET a == level[Anchor(cfg, f)]
            IN  [num |-> held[f][b].num * level[f].num * a.den,
                 den |-> held[f][b].den * level[f].den * a.num]
    IN  IF ~IsHeld(cfg, frames) THEN exact
        ELSE IF ~cfg.track THEN held
        ELSE [f \in DOMAIN frames |->
                 [b \in Bins(frames[f]) |-> Tracked(f, b)]]

Next1(frame, b) == (b + 1) % Width(frame)
Prev1(frame, b) == (b - 1) % Width(frame)

(* pair_mask: the pair of a bin and the next one. *)
Crossed(cfg, frame, noise, exclude, b) ==
    LET n == Next1(frame, b)
    IN  /\ {b, n} \cap exclude = {}
        /\ (frame[b] + frame[n]) * noise[b].den * noise[n].den >
               (noise[b].num * noise[n].den + noise[n].num * noise[b].den)
                   * cfg.pairFactor

PairMask(cfg, frame, noise, exclude) ==
    IF ~cfg.pairs THEN {}
    ELSE {b \in Bins(frame) :
             \/ Crossed(cfg, frame, noise, exclude, b)
             \/ Crossed(cfg, frame, noise, exclude, Prev1(frame, b))}

(* detection_mask, as the set of the bins of each frame. *)
DetectionMask(cfg, frames, exclude) ==
    LET noise == NoiseEstimate(cfg, frames)
    IN  [f \in DOMAIN frames |->
            {b \in Bins(frames[f]) :
                frames[f][b] * noise[f][b].den > noise[f][b].num * cfg.factor}
            \cup PairMask(cfg, frames[f], noise[f], exclude)]
=============================================================================
