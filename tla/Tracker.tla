------------------------------ MODULE Tracker ------------------------------
(* EmissionTracker in esm446/core/tracker.py: the frames in which a bin    *)
(* was detected (the CFAR mask of a block) are joined into emissions that  *)
(* survive quiet gaps inside the hangover, across any cut of the stream    *)
(* in blocks, and that end by silence, by the frame cap or by flush.       *)
(*                                                                         *)
(* The baseband samples of an emission are the set of frames they were     *)
(* taken from; powers and noise sums are left out.  update treats every    *)
(* bin on its own, so its loop over bins is a function on Bins, and the    *)
(* emissions it returns are a set: their reader (Node) sorts them first.   *)
EXTENDS Integers, FiniteSets

CONSTANTS
    Bins,       \* channel bins, 0 .. num_bins - 1
    Hangover,   \* hangover_frames
    MaxFrames,  \* max_frames: the cap on the frames of one emission
    BlockSizes, \* the lengths of the blocks update is called with
    MaxClock    \* bound of the model: frames in one run

ASSUME TrackerAssumption ==
    /\ Hangover \in Nat
    /\ MaxFrames \in Nat
    /\ BlockSizes \subseteq Nat
    /\ MaxClock \in Nat

VARIABLES
    open,        \* _open: per bin, the emission still open, or NotOpen
    frameOffset, \* _frame_offset: the absolute index of the next frame
    completed,   \* what the last update or flush returned
    clock,       \* history: frames given to update so far
    heard,       \* history: per bin, the absolute frames it was detected in
    closed,      \* history: every emission returned so far
    cuts         \* history: per bin, the frames before which an emission was
                 \* ended with its hangover still running (flush, cap)

trackerVars == <<open, frameOffset, completed, clock, heard, closed, cuts>>

-----------------------------------------------------------------------------
NotOpen == [start |-> -1, last |-> -1, frames |-> 0, iq |-> {}]
IsOpen(b) == open[b] # NotOpen

(* What _close returns for an open emission o of bin b. *)
Emission(b, o) ==
    [bin |-> b, start |-> o.start, end |-> o.last,
     detectedFrames |-> o.frames, iq |-> o.iq]

Init ==
    /\ open = [b \in Bins |-> NotOpen]
    /\ frameOffset = 0
    /\ completed = {}
    /\ clock = 0
    /\ heard = [b \in Bins |-> {}]
    /\ closed = {}
    /\ cuts = [b \in Bins |-> {}]

-----------------------------------------------------------------------------
(* _update_bin.  A block has n frames, numbered from 0, and hits is the    *)
(* set of those the bin was detected in.                                   *)

(* The hits, split where two neighbours are more than the hangover apart.  *)
RunStarts(hits) == {s \in hits : \A h \in hits : h < s => s - h > Hangover}
RunEnds(hits)   == {e \in hits : \A h \in hits : h > e => h - e > Hangover}

Runs(hits) ==
    {r \in [start : RunStarts(hits), end : RunEnds(hits)] :
        /\ r.start <= r.end
        /\ \A s \in RunStarts(hits) : s <= r.start \/ s > r.end}

FirstRun(r, hits) == \A h \in hits : r.start <= h
LastRun(r, hits)  == \A h \in hits : h <= r.end

(* The emission that run r goes into: the open one if r is the first run   *)
(* and begins inside its hangover, a new one otherwise.                    *)
JoinsInBlock(b, r, hits) ==  \* slip: the gap from the start of the block
    IsOpen(b) /\ FirstRun(r, hits) /\ r.start <= Hangover
Joins(b, r, hits) ==
    /\ IsOpen(b)
    /\ FirstRun(r, hits)
    /\ frameOffset + r.start - open[b].last <= Hangover

Base(b, r, hits) == IF Joins(b, r, hits) THEN open[b] ELSE NotOpen

(* That emission once the whole run, quiet frames inside it included, has  *)
(* been accumulated.                                                       *)

GrownAnew(b, r, hits) ==  \* slip: the samples kept so far are replaced
    LET base == Base(b, r, hits)
    IN  [start  |-> IF base = NotOpen THEN frameOffset + r.start
                                      ELSE base.start,
         last   |-> frameOffset + r.end,
         frames |-> base.frames + (r.end - r.start + 1),
         iq     |-> frameOffset + r.start .. frameOffset + r.end]

Grown(b, r, hits) ==
    LET base == Base(b, r, hits)
    IN  [start  |-> IF base = NotOpen THEN frameOffset + r.start
                                      ELSE base.start,
         last   |-> frameOffset + r.end,
         frames |-> base.frames + (r.end - r.start + 1),
         iq     |-> base.iq \cup (frameOffset + r.start .. frameOffset + r.end)]

OverCap(b, r, hits) == Grown(b, r, hits).frames >= MaxFrames

TrailingGap(r, n) == n - r.end - 1

(* An emission is over once it cannot be joined: another run follows it in *)
(* the block, or the rest of the block is longer than the hangover.        *)
OverEagerly(r, n, hits) ==  \* slip: any silence ends it
    ~LastRun(r, hits) \/ TrailingGap(r, n) > 0
Over(r, n, hits) == ~LastRun(r, hits) \/ TrailingGap(r, n) > Hangover

ClosesAfter(b, r, n, hits) == Over(r, n, hits) \/ OverCap(b, r, hits)

(* The open emission of b is closed before anything is added to it: the    *)
(* block is silent to its end, or first sounds, past the hangover.         *)
StaleByHits(b, n, hits) ==  \* slip: silence alone closes nothing
    IsOpen(b) /\ hits # {}
      /\ \A h \in hits : frameOffset + h - open[b].last > Hangover

Stale(b, n, hits) ==
    /\ IsOpen(b)
    /\ IF hits = {}
       THEN frameOffset + n - open[b].last > Hangover
       ELSE \A h \in hits : frameOffset + h - open[b].last > Hangover

(* A silent block inside the hangover is kept, all of it, but not counted. *)
Hushed(b, n) ==
    [open[b] EXCEPT !.iq = @ \cup (frameOffset .. frameOffset + n - 1)]

ClosedBy(b, n, hits) ==
    (IF Stale(b, n, hits) THEN {Emission(b, open[b])} ELSE {})
      \cup {Emission(b, Grown(b, r, hits)) :
              r \in {q \in Runs(hits) : ClosesAfter(b, q, n, hits)}}

OpenAfterSilence(b, n) ==
    IF IsOpen(b) /\ ~Stale(b, n, {}) THEN Hushed(b, n) ELSE NotOpen

OpenAfterHits(b, n, hits) ==
    LET r == CHOOSE q \in Runs(hits) : LastRun(q, hits)
    IN  IF ClosesAfter(b, r, n, hits) THEN NotOpen ELSE Grown(b, r, hits)

OpenAfter(b, n, hits) ==
    IF hits = {} THEN OpenAfterSilence(b, n) ELSE OpenAfterHits(b, n, hits)

(* History: the cap ended an emission that could still have been joined.   *)
CapCuts(b, n, hits) ==
    {frameOffset + r.end + 1 :
        r \in {q \in Runs(hits) : OverCap(b, q, hits) /\ ~Over(q, n, hits)}}

-----------------------------------------------------------------------------
(* update, with the mask given as the detected frames of each bin. *)
Update(n, mask) ==
    /\ clock + n <= MaxClock
    /\ clock' = clock + n
    /\ IF n = 0
       THEN /\ completed' = {}
            /\ UNCHANGED <<open, frameOffset, heard, closed, cuts>>
       ELSE /\ open' = [b \in Bins |-> OpenAfter(b, n, mask[b])]
            /\ completed' = UNION {ClosedBy(b, n, mask[b]) : b \in Bins}
            /\ frameOffset' = frameOffset + n
            /\ heard' = [b \in Bins |->
                           heard[b] \cup {clock + f : f \in mask[b]}]
            /\ closed' = closed \cup completed'
            /\ cuts' = [b \in Bins |-> cuts[b] \cup CapCuts(b, n, mask[b])]

(* flush: every open emission is closed; the frame offset goes on. *)
FlushKeepsOpen ==  \* slip: what was open stays open
    /\ completed' = {Emission(b, open[b]) : b \in {c \in Bins : IsOpen(c)}}
    /\ closed' = closed \cup completed'
    /\ UNCHANGED <<open, frameOffset, clock, heard, cuts>>

Flush ==
    /\ completed' = {Emission(b, open[b]) : b \in {c \in Bins : IsOpen(c)}}
    /\ open' = [b \in Bins |-> NotOpen]
    /\ closed' = closed \cup completed'
    /\ cuts' = [b \in Bins |-> IF IsOpen(b) THEN cuts[b] \cup {frameOffset}
                                           ELSE cuts[b]]
    /\ UNCHANGED <<frameOffset, clock, heard>>

Next ==
    \/ \E n \in BlockSizes : \E mask \in [Bins -> SUBSET (0 .. n - 1)] :
           Update(n, mask)
    \/ Flush

Spec == Init /\ [][Next]_trackerVars

-----------------------------------------------------------------------------
OpenEmission ==
    [start : Nat, last : Nat, frames : Nat, iq : SUBSET Nat]

ClosedEmission ==
    [bin : Bins, start : Nat, end : Nat, detectedFrames : Nat,
     iq : SUBSET Nat]

TypeOK ==
    /\ open \in [Bins -> OpenEmission \cup {NotOpen}]
    /\ frameOffset \in Nat
    /\ completed \subseteq closed
    /\ clock \in Nat
    /\ heard \in [Bins -> SUBSET Nat]
    /\ closed \subseteq ClosedEmission
    /\ cuts \in [Bins -> SUBSET Nat]

(* The emissions of bin b, returned or still open, as intervals. *)
Extents(b) ==
    {[start |-> e.start, end |-> e.end] : e \in {c \in closed : c.bin = b}}
      \cup (IF IsOpen(b)
            THEN {[start |-> open[b].start, end |-> open[b].last]} ELSE {})

(* The bursts of a bin, from its detections alone, and the promise that    *)
(* they are reported whole, once and in time.                              *)
Promise ==
    INSTANCE BurstStream WITH
        reported <- {[bin |-> e.bin, start |-> e.start, end |-> e.end] :
                        e \in closed}

(* However the stream is cut in blocks, the emissions of every bin are the *)
(* chains of its detections: none is lost, split at a block boundary,      *)
(* merged with another, or reported twice ("an emission spanning a block   *)
(* boundary is a single emission rather than two fragments").              *)
EmissionsAreBursts == \A b \in Bins : Extents(b) = Promise!Bursts(b)

(* An emission is not held open longer than it takes to know that it is    *)
(* over, and is never past the cap.                                        *)
OpenIsCurrent ==
    \A b \in Bins : IsOpen(b) =>
        /\ frameOffset - open[b].last <= Hangover + 1
        /\ open[b].frames < MaxFrames

SilencePerFrame == IF Hangover = 0 THEN 1 ELSE Hangover

(* The baseband kept for an emission has every frame it was detected in,   *)
(* and none from outside it but silence that followed it; and its count of *)
(* detected frames, which takes in the silence between two detections of a *)
(* block, lies between the detections and the length.                      *)
BasebandIsWhole ==
    \A e \in closed :
        /\ heard[e.bin] \cap (e.start .. e.end) \subseteq e.iq
        /\ e.iq \subseteq e.start .. e.end + SilencePerFrame - 1
        /\ Cardinality(heard[e.bin] \cap (e.start .. e.end)) <= e.detectedFrames
        /\ e.detectedFrames <= e.end - e.start + 1

(* What the cap does bound: a silent block is kept and not counted, so an  *)
(* open emission may hold, and last, nearly a hangover per frame counted;  *)
(* no more, for it is closed as soon as it is over or its count is full.   *)
BufferBound ==
    /\ OpenIsCurrent
    /\ \A b \in Bins : IsOpen(b) =>
          /\ Cardinality(open[b].iq) <= open[b].frames * SilencePerFrame
          /\ open[b].last - open[b].start + 1 <= open[b].frames * SilencePerFrame

(* What update and flush return they have not returned before: an emission *)
(* leaves _open when it is closed, and no run of a block goes into two.    *)
NothingIsReturnedTwice == [][completed' \cap closed = {}]_trackerVars

(* The tracker keeps the promise of BurstStream: it reports bursts only    *)
(* when they are over, never withdraws or amends a report, is at most one  *)
(* frame late, cuts short only a burst that has reached the cap, and       *)
(* flush leaves nothing unreported.                                        *)
KeepsPromise == Promise!Spec

-----------------------------------------------------------------------------
(* A claim of a docstring that the code does not meet.  No run states it:  *)
(* given as an invariant of MCTracker, TLC refutes it.                     *)

(* max_frames is a "Hard cap on emission length": an emission may run past *)
(* it by the block that reaches it, and no more.                           *)
LongestBlock == CHOOSE n \in BlockSizes : \A m \in BlockSizes : m <= n

CapBoundsLength ==
    \A e \in closed : e.end - e.start + 1 < MaxFrames + LongestBlock
=============================================================================
