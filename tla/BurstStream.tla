---------------------------- MODULE BurstStream ----------------------------
(* What grouping detections into emissions promises (the docstrings of     *)
(* esm446/core/tracker.py), without saying how: the bursts of a bin are    *)
(* the maximal chains of its detections, every burst is reported once,     *)
(* whole, never before it is over and not long after.  Blocks, open        *)
(* emissions and buffers are no part of it.                                *)
EXTENDS Integers

CONSTANTS
    Bins,      \* channel bins
    Hangover,  \* the longest distance between detections of one burst
    MaxFrames  \* the length from which a burst may be cut short

VARIABLES
    clock,     \* frames seen so far
    heard,     \* per bin, the frames it was detected in
    cuts,      \* per bin, the frames before which a burst was cut short
    reported   \* the bursts reported so far

streamVars == <<clock, heard, cuts, reported>>

(* Two detections of a bin belong together if the hangover bridges the gap *)
(* between them and no cut lies in it.                                     *)
Linked(b, f, g) ==
    /\ f < g
    /\ g - f <= Hangover
    /\ \A c \in cuts[b] : c <= f \/ c > g

Bursts(b) ==
    {x \in [start : heard[b], end : heard[b]] :
        /\ x.start <= x.end
        /\ \A f \in heard[b] : ~Linked(b, f, x.start) /\ ~Linked(b, x.end, f)
        /\ \A g \in heard[b] : x.start < g /\ g <= x.end =>
               \E f \in heard[b] : Linked(b, f, g)}

Reported(b) ==
    {[start |-> r.start, end |-> r.end] : r \in {q \in reported : q.bin = b}}

(* A burst is over when nothing heard from now on can belong to it. *)
IsOver(b, x) ==
    \/ clock - x.end > Hangover
    \/ \E c \in cuts[b] : x.end < c /\ c <= clock

(* All and only bursts that are over are reported, the last ones at the    *)
(* latest one frame after they are known to be over.                       *)
ReportsAreRight ==
    \A b \in Bins :
        /\ Reported(b) \subseteq {x \in Bursts(b) : IsOver(b, x)}
        /\ \A x \in Bursts(b) :
               (x \in Reported(b)) \/ clock - x.end <= Hangover + 1

Init ==
    /\ clock = 0
    /\ heard = [b \in Bins |-> {}]
    /\ cuts = [b \in Bins |-> {}]
    /\ reported = {}

(* Some frames go by.  A burst that has grown to the cap may be cut.       *)
Hear ==
    /\ clock' > clock
    /\ \A b \in Bins :
        /\ heard[b] \subseteq heard'[b]
        /\ heard'[b] \ heard[b] \subseteq clock .. clock' - 1
        /\ cuts[b] \subseteq cuts'[b]
        /\ \A c \in cuts'[b] \ cuts[b] :
               \E x \in Bursts(b)' : c = x.end + 1
                                     /\ x.end - x.start + 1 >= MaxFrames
    /\ reported \subseteq reported'
    /\ ReportsAreRight'

(* The capture ends: every burst is cut where it is, and reported.         *)
Finish ==
    /\ UNCHANGED <<clock, heard>>
    /\ \A b \in Bins :
        /\ cuts[b] \subseteq cuts'[b]
        /\ cuts'[b] \subseteq cuts[b] \cup {clock}
        /\ Bursts(b)' \subseteq Reported(b)'
    /\ reported \subseteq reported'
    /\ ReportsAreRight'

Next == Hear \/ Finish

Spec == Init /\ [][Next]_streamVars
=============================================================================
