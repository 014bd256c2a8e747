------------------------------- MODULE Sweeps -------------------------------
(* scripts/t4a_atten_sweep.py, core/survey.py and BitAccumulator of         *)
(* scripts/overnight_survey.py: a recording is analysed in chunks, because  *)
(* it does not fit the memory, and what comes out must be that of the       *)
(* whole.  Spectra are functions from the bins 0 .. n - 1 to powers.        *)
EXTENDS Integers, Sequences, SequencesExt

(* The recording in chunks of the given size, the last one what is left. *)
Chunks(s, size) ==
    [k \in 1 .. (Len(s) + size - 1) \div size |->
        SubSeq(s, (k - 1) * size + 1, Min({k * size, Len(s)}))]

(* excluded_bin_mask: the leakage around bin 0, and both sides of Nyquist. *)
ExcludedBins(bins, dc, edge) ==
    {b \in 0 .. bins - 1 :
        \/ b < dc \/ (dc > 1 /\ b >= bins - (dc - 1))
        \/ bins \div 2 - edge <= b /\ b < bins \div 2 + edge}

-----------------------------------------------------------------------------
(* What both passes do with a chunk: settling frames are dropped once.  An *)
(* accumulator is [drop, frames].                                          *)
Fresh(settle) == [drop |-> settle, frames |-> <<>>]

UpdateEach(acc, chunk) ==  \* slip: every chunk settles
    [acc EXCEPT !.frames = @ \o SubSeq(chunk, acc.drop + 1, Len(chunk))]
Update(acc, chunk) ==
    LET dropped == Min({acc.drop, Len(chunk)})
    IN  [drop   |-> acc.drop - dropped,
         frames |-> acc.frames \o SubSeq(chunk, dropped + 1, Len(chunk))]

Settled(chunks, settle) == FoldLeft(Update, Fresh(settle), chunks).frames

PowersAt(frames, b) == [k \in DOMAIN frames |-> frames[k][b]]

(* ChannelPowerSelector.select_bin: the first of the strongest. *)
SelectBin(frames, bins, excluded) ==
    LET With(b) == SumFunction(PowersAt(frames, b))
        allowed == (0 .. bins - 1) \ excluded
    IN  Min({b \in allowed : \A c \in allowed : With(b) >= With(c)})

(* BinStats.result. *)
BinStats(frames, b) ==
    LET powers == Range(PowersAt(frames, b))
    IN  [count |-> Len(frames), sum |-> SumFunction(PowersAt(frames, b)),
         peak  |-> Max(powers), least |-> Min(powers)]

NoFrames == [failed |-> TRUE]

(* measure: both passes read the file from its start. *)
Measure(frames, bins, size, settle, excluded) ==
    LET chunks == Chunks(frames, size)
        kept   == Settled(chunks, settle)
        b      == SelectBin(kept, bins, excluded)
    IN  IF kept = <<>> THEN NoFrames
        ELSE [failed |-> FALSE, bin |-> b, stats |-> BinStats(kept, b)]

-----------------------------------------------------------------------------
(* SpectrumSurvey: frames of size samples, one every hop. *)
Hop(size, kept) == Max({1, size - kept})  \* kept: the samples of the overlap

FrameCount(samples, size, hop) ==
    IF samples < size THEN 0 ELSE (samples - size) \div hop + 1

FrameStart(k, hop) == (k - 1) * hop

(* analyse: the frames it adds up, chunk by chunk. *)
Analysed(samples, size, hop, chunkFrames) ==
    LET n == FrameCount(samples, size, hop)
    IN  FlattenSeq(Chunks([k \in 1 .. n |-> FrameStart(k, hop)], chunkFrames))

(* spectrogram: one frame of every stride, as many as it may return. *)
Stride(n, most) == Max({1, n \div most})

Waterfall(samples, size, hop, most) ==
    LET n      == FrameCount(samples, size, hop)
        step   == hop * Stride(n, most)
        strided == IF n = 0 THEN 0 ELSE (samples - size) \div step + 1
    IN  [k \in 1 .. Min({strided, n, most}) |-> FrameStart(k, step)]

-----------------------------------------------------------------------------
(* BitAccumulator: how often each code of the converter came, in bags; a   *)
(* block is a sequence of pairs <<i, q>>.                                  *)
Component(block, c) == [k \in DOMAIN block |-> block[k][c]]

NoCodes == [i |-> EmptyBag, q |-> EmptyBag, n |-> 0]

BitUpdate(acc, block) ==
    [i |-> acc.i (+) ToBag(Component(block, 1)),
     q |-> acc.q (+) ToBag(Component(block, 2)),
     n |-> acc.n + Len(block)]

Moments(histogram) ==
    [sum     |-> SumFunction([c \in DOMAIN histogram |-> c * histogram[c]]),
     squares |-> SumFunction([c \in DOMAIN histogram |-> c * c * histogram[c]])]

BitResult(acc) ==
    LET codes == DOMAIN acc.i \cup DOMAIN acc.q
    IN  [n |-> acc.n, occupied |-> Cardinality(codes),
         peak |-> Max({0} \cup {IF c < 0 THEN -c ELSE c : c \in codes}),
         i |-> Moments(acc.i), q |-> Moments(acc.q)]

Bits(codes, size) == BitResult(FoldLeft(BitUpdate, NoCodes, Chunks(codes, size)))
=============================================================================
