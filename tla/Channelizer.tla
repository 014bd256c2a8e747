---------------------------- MODULE Channelizer ----------------------------
(* The streaming bookkeeping of PolyphaseChannelizer in                    *)
(* esm446/core/channelizer.py: which input samples each output frame is    *)
(* folded from, which derotation phase it gets, and what one call of       *)
(* process leaves for the next.  The arithmetic on the samples is left     *)
(* out: a sample is its position in the stream since construction or       *)
(* reset, and an array of consecutive samples is [first, size].            *)
(*                                                                         *)
(* A definition marked "slip" is no part of the specification: it is a     *)
(* plausible mistake in the definition after it, which a property of the   *)
(* module has to notice.  The same holds in every module here.             *)
EXTENDS Integers, Sequences

CONSTANTS
    D,          \* decimation: input samples consumed per output frame
    P,          \* sub-blocks of D samples per polyphase segment: M = P * D
    K,          \* taps_per_phase: the prototype has L = K * M taps
    FoldChunk,  \* _FOLD_CHUNK_FRAMES: frames folded per pass
    BlockSizes, \* the lengths of the blocks process is called with
    MaxSamples  \* bound of the model: samples in one stream

ASSUME GeometryAssumption ==
    /\ D \in Nat \ {0}
    /\ P \in Nat \ {0}
    /\ K \in Nat \ {0, 1}
    /\ FoldChunk \in Nat \ {0}

ASSUME BoundsAssumption ==
    /\ BlockSizes \subseteq Nat
    /\ MaxSamples \in Nat

M == P * D        \* num_channels
L == K * M        \* num_taps
PhasePeriod == P  \* M \div gcd(D, M), where D divides M

VARIABLES
    tail,       \* _tail: the samples kept for the next call
    frameIndex, \* _frame_index: frames produced since construction or reset
    received,   \* history: samples given to process since then
    batch       \* history: the number of whole rows of D samples the last
                \* call had, and the frames it returned

vars == <<tail, frameIndex, received, batch>>

-----------------------------------------------------------------------------
NoBatch == [rows |-> 0, frames |-> <<>>]

Init ==
    /\ tail = [first |-> 0, size |-> 0]
    /\ frameIndex = 0
    /\ received = 0
    /\ batch = NoBatch

FrameCount(size) == IF size < L THEN 0 ELSE (size - L) \div D + 1

(* The fold works on x cut in rows of D samples, in passes of FoldChunk    *)
(* frames.  In the pass that starts at frame lo, sub-block p of segment j  *)
(* is the slice of rows that starts at lo + p + j * P; frame f is summed   *)
(* from the rows at place f - lo of those slices.                          *)
PassOf(f) == f - (f % FoldChunk)

SliceStart(lo, p, j) == lo + p + j * P

RowsOf(f) ==
    {SliceStart(PassOf(f), p, j) + (f - PassOf(f)) :
        p \in 0 .. P - 1, j \in 0 .. K - 1}

(* The entry of the derotation table that frame f of a call is given. *)
PhaseOfCall(f) == f % PhasePeriod      \* slip
Phase(f) == (frameIndex + f) % PhasePeriod

(* Frame f (from 0) of a call: the rows of x it is summed from, the sample *)
(* each of them starts at, and its phase.                                  *)
Frame(f) ==
    [rows    |-> RowsOf(f),
     samples |-> {tail.first + r * D : r \in RowsOf(f)},
     phase   |-> Phase(f)]

(* What a call leaves for the next once it has produced n frames. *)
RestUnsaved(xSize, n) ==               \* slip: a short block returns early
    IF n = 0 THEN tail
    ELSE [first |-> tail.first + n * D, size |-> xSize - n * D]
Rest(xSize, n) == [first |-> tail.first + n * D, size |-> xSize - n * D]

Process(size) ==
    LET xSize == tail.size + size
        n     == FrameCount(xSize)
    IN  /\ received + size <= MaxSamples
        /\ received' = received + size
        /\ batch' = [rows   |-> xSize \div D,
                     frames |-> [i \in 1 .. n |-> Frame(i - 1)]]
        /\ frameIndex' = frameIndex + n
        /\ tail' = Rest(xSize, n)

Reset ==
    /\ tail' = [first |-> 0, size |-> 0]
    /\ frameIndex' = 0
    /\ received' = 0
    /\ batch' = NoBatch

Next ==
    \/ Reset
    \/ \E size \in BlockSizes : Process(size)

Spec == Init /\ [][Next]_vars

-----------------------------------------------------------------------------
TypeOK ==
    /\ tail \in [first : Nat, size : Nat]
    /\ frameIndex \in Nat
    /\ received \in Nat
    /\ batch.rows \in Nat
    /\ batch.frames \in Seq([rows : SUBSET Nat, samples : SUBSET Nat,
                             phase : 0 .. PhasePeriod - 1])

(* The carried tail is exactly the samples from the window of the next     *)
(* frame on: no sample is dropped or kept twice across calls, and no frame *)
(* that could be produced is held back (channelizer.py: "filter state      *)
(* carries across calls, so block boundaries introduce no transient").     *)
TailIsNextWindow ==
    /\ tail.first = frameIndex * D
    /\ tail.first + tail.size = received
    /\ tail.size < L

(* However the stream is cut in blocks, the frames produced so far are     *)
(* those one call with all of it would have produced.                      *)
BlockInvariance == frameIndex = FrameCount(received)

(* Every slice of the fold lies inside the rows the call has: a row beyond *)
(* them would make numpy return a shorter slice.                           *)
FoldInBounds ==
    \A i \in DOMAIN batch.frames : \A r \in batch.frames[i].rows :
        r \in 0 .. batch.rows - 1

(* The absolute number of the i-th frame of the last batch.                *)
FrameNumber(i) == frameIndex - Len(batch.frames) + i - 1

(* Frame n reads the window of L samples at n * D, whole and in order of   *)
(* rows, and is corrected with the phase n * D / M asks for: the           *)
(* definition in the module docstring ("reads a window of L = M*K samples  *)
(* starting at n*D"), across any cut of the stream in blocks and passes.   *)
FramesMatchDefinition ==
    \A i \in DOMAIN batch.frames :
        LET n == FrameNumber(i)
        IN  /\ batch.frames[i].samples =
                   {n * D + r * D : r \in 0 .. K * P - 1}
            /\ (batch.frames[i].phase * D - n * D) % M = 0
=============================================================================
