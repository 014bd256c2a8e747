------------------------------- MODULE Node --------------------------------
(* EsmNode in esm446/core/node.py as esm446/cli/node.py runs it: read a    *)
(* block, detect, track, drop what is too short or too sparse, merge the   *)
(* adjacent bins of one emitter, write the reports to the sinks, and flush *)
(* when the source is exhausted.  The tracker is the module Tracker; the   *)
(* detector is any set of detections outside the excluded bins.  Powers,   *)
(* frequencies and tones are left out: which bin of a group is strongest   *)
(* is a free choice.                                                       *)
EXTENDS Integers, Sequences, FiniteSets, Folds

CONSTANTS
    NumBins,        \* num_channels
    DcGuard,        \* dc_guard_bins
    EdgeGuard,      \* edge_guard_bins
    Hangover, MaxFrames, BlockSizes, MaxClock,  \* see Tracker
    MinFrames,      \* min_frames
    MinOccupancy,   \* min_occupancy, in percent
    NumSinks        \* the destinations build_sink found: store, then feed

ASSUME NodeAssumption ==
    /\ NumBins \in Nat \ {0}
    /\ Hangover \in Nat /\ MaxFrames \in Nat
    /\ BlockSizes \subseteq Nat /\ MaxClock \in Nat
    /\ DcGuard \in 0 .. NumBins - 1
    /\ EdgeGuard \in 0 .. NumBins \div 2
    /\ MinFrames \in Nat \ {0}
    /\ MinOccupancy \in 0 .. 100
    /\ NumSinks \in Nat

Bins == 0 .. NumBins - 1
Sinks == 1 .. NumSinks

VARIABLES
    open, frameOffset, completed, clock, heard, closed, cuts, \* see Tracker
    phase,    \* where run() is
    batch,    \* the reports of the block (or flush) at hand
    nextSink, \* the sink that MultiSink.write comes to next
    reports,  \* the list run() returns: every report so far
    stored,   \* per sink, the reports it holds
    broken    \* history: the sinks whose write has failed

T == INSTANCE Tracker

trackerVars == <<open, frameOffset, completed, clock, heard, closed, cuts>>
nodeVars == <<phase, batch, nextSink, reports, stored, broken>>
vars == <<trackerVars, nodeVars>>

-----------------------------------------------------------------------------
(* The bins process_block blanks: DC with its neighbours on both sides,    *)
(* and the edge of the band around Nyquist.                                *)
Excluded ==
    {b \in Bins : b < DcGuard}
      \cup {b \in Bins : DcGuard > 1 /\ b > NumBins - DcGuard}
      \cup {b \in Bins : /\ b >= NumBins \div 2 - EdgeGuard
                         /\ b < NumBins \div 2 + EdgeGuard}

FrameSpan(e) == e.end - e.start + 1

(* filter_short: the emission is long enough and detected often enough. *)
IsKeptLonger(e) ==  \* slip: the floor itself is rejected
    /\ FrameSpan(e) > MinFrames
    /\ 100 * e.detectedFrames >= MinOccupancy * FrameSpan(e)

IsKept(e) ==
    /\ FrameSpan(e) >= MinFrames
    /\ 100 * e.detectedFrames >= MinOccupancy * FrameSpan(e)

(* _is_adjacent: neighbours on the ring of bins that overlap in time. *)

IsAdjacent(e, f) ==
    /\ \/ (e.bin - f.bin) % NumBins = 1
       \/ (f.bin - e.bin) % NumBins = 1
    /\ e.start <= f.end
    /\ f.start <= e.end

(* _group_adjacent: in order of start and bin, an emission goes into the   *)
(* first group that has a neighbour of it, or opens a group of its own;    *)
(* the last of them goes in when all the others have.                      *)
Before(e, f) == e.start < f.start \/ (e.start = f.start /\ e.bin < f.bin)

PlaceInAll(groups, e) ==  \* slip: the search does not stop at the first
    LET fits == {i \in DOMAIN groups : \E f \in groups[i] : IsAdjacent(e, f)}
    IN  IF fits = {}
        THEN Append(groups, {e})
        ELSE [i \in DOMAIN groups |->
                 IF i \in fits THEN groups[i] \cup {e} ELSE groups[i]]

Place(groups, e) ==
    LET fits == {i \in DOMAIN groups : \E f \in groups[i] : IsAdjacent(e, f)}
    IN  IF fits = {}
        THEN Append(groups, {e})
        ELSE [groups EXCEPT ![CHOOSE i \in fits : \A j \in fits : i <= j] =
                  @ \cup {e}]

LastOf(emissions) ==
    CHOOSE e \in emissions : \A f \in emissions : ~Before(e, f)

GroupAdjacent(emissions) ==
    MapThenFoldSet(LAMBDA e, groups : Place(groups, e), <<>>,
                   LAMBDA e : e, LastOf, emissions)

(* _report_all: one report per group, for the strongest of the group. *)
Report(group, strongest) ==
    [bin |-> strongest.bin, start |-> strongest.start,
     duration |-> FrameSpan(strongest), group |-> group]

ReportAll(emissions) ==
    LET groups == GroupAdjacent({e \in emissions : IsKept(e)})
    IN  {[i \in DOMAIN groups |-> Report(groups[i], strongest[i])] :
            strongest \in {s \in [DOMAIN groups -> emissions] :
                              \A i \in DOMAIN groups : s[i] \in groups[i]}}

-----------------------------------------------------------------------------
Init ==
    /\ T!Init
    /\ phase = "reading"
    /\ batch = <<>>
    /\ nextSink = 1
    /\ reports = <<>>
    /\ stored = [s \in Sinks |-> <<>>]
    /\ broken = {}

(* What run does with the reports of a block: remember them, and write     *)
(* them if there are any and somewhere to write them.                      *)
HandOver(writing, otherwise) ==
    /\ batch' \in ReportAll(completed')
    /\ reports' = reports \o batch'
    /\ nextSink' = 1
    /\ phase' = IF batch' # <<>> /\ NumSinks > 0 THEN writing ELSE otherwise
    /\ UNCHANGED <<stored, broken>>

(* One turn of the loop in run: source.read gave a block of n frames. *)
ReadBlock(n, mask) ==
    /\ phase = "reading"
    /\ T!Update(n, [b \in Bins |-> IF b \in Excluded THEN {} ELSE mask[b]])
    /\ HandOver("writing", "reading")

(* source.read gave None: the recording is over. *)
EndWithoutFlush ==  \* slip: what is still open is not reported
    /\ phase = "reading"
    /\ completed' = {}
    /\ UNCHANGED <<open, frameOffset, clock, heard, closed, cuts>>
    /\ HandOver("writing final", "done")

EndOfStream ==
    /\ phase = "reading"
    /\ T!Flush
    /\ HandOver("writing final", "done")

(* sink.write for one destination.  MultiSink goes on whatever happens; a  *)
(* destination on its own is called by run directly.                       *)

AfterSink ==
    IF nextSink < NumSinks
    THEN nextSink' = nextSink + 1 /\ UNCHANGED phase
    ELSE /\ nextSink' = 1
         /\ phase' = IF phase = "writing" THEN "reading" ELSE "done"

Write ==
    /\ phase \in {"writing", "writing final"}
    /\ stored' = [stored EXCEPT ![nextSink] = @ \o batch]
    /\ AfterSink
    /\ UNCHANGED <<trackerVars, batch, reports, broken>>

WriteFailsForAll ==  \* slip: one failure ends the round
    /\ phase \in {"writing", "writing final"}
    /\ broken' = broken \cup {nextSink}
    /\ nextSink' = 1
    /\ phase' = IF phase = "writing" THEN "reading" ELSE "done"
    /\ UNCHANGED <<trackerVars, batch, reports, stored>>

WriteFails ==
    /\ phase \in {"writing", "writing final"}
    /\ broken' = broken \cup {nextSink}
    /\ IF NumSinks > 1
       THEN AfterSink
       ELSE phase' = "raised" /\ UNCHANGED nextSink
    /\ UNCHANGED <<trackerVars, batch, reports, stored>>

(* The process is killed, between any two of the steps above. *)
Kill ==
    /\ phase \in {"reading", "writing", "writing final"}
    /\ phase' = "killed"
    /\ UNCHANGED <<trackerVars, batch, nextSink, reports, stored, broken>>

ReadSome ==
    \E n \in BlockSizes :
        \E mask \in [Bins \ Excluded -> SUBSET (0 .. n - 1)] :
            ReadBlock(n, [b \in Bins |->
                             IF b \in Excluded THEN {} ELSE mask[b]])

Next == ReadSome \/ EndOfStream \/ Write \/ WriteFails \/ Kill

Spec == Init /\ [][Next]_vars

(* run is a plain loop on one thread, and every recording ends: as long as *)
(* nothing kills it, it comes to the end of its source, and a destination  *)
(* takes a batch or raises.                                                *)
Writing == Write \/ WriteFails

FairSpec == Spec /\ WF_vars(EndOfStream) /\ WF_vars(Writing)

-----------------------------------------------------------------------------
Reports == [bin : Bins, start : Nat, duration : Nat \ {0},
            group : (SUBSET T!ClosedEmission) \ {{}}]

TypeOK ==
    /\ T!TypeOK
    /\ phase \in {"reading", "writing", "writing final", "done", "raised",
                  "killed"}
    /\ batch \in Seq(Reports)
    /\ nextSink \in Sinks \cup {1}
    /\ reports \in Seq(Reports)
    /\ stored \in [Sinks -> Seq(Reports)]
    /\ broken \subseteq Sinks

Groups == {reports[i].group : i \in DOMAIN reports}
Kept == {e \in closed : IsKept(e)}

SameReport(e, f) == \E g \in Groups : {e, f} \subseteq g

(* Two halves that end in one block, with no third emission touching them. *)
LonePairMerges ==
    \A e, f \in completed \cap Kept :
        /\ IsAdjacent(e, f)
        /\ \A g \in (completed \cap Kept) \ {e, f} :
               ~IsAdjacent(e, g) /\ ~IsAdjacent(f, g)
        => SameReport(e, f)

(* Every emission that passes the gates is in one report, and in no other; *)
(* nothing else is reported (_group_adjacent sorts and regroups, it must   *)
(* neither drop nor repeat); and an emitter that falls between two bins is *)
(* one report when its halves end in the same block by themselves.         *)
EachKeptInOneReport ==
    /\ UNION Groups = Kept
    /\ \A i, j \in DOMAIN reports :
           i # j => reports[i].group \cap reports[j].group = {}
    /\ LonePairMerges

(* A destination that has not failed holds every report in order, but for  *)
(* the batch at hand while it is being written or when the process died:   *)
(* "a capture killed after an hour keeps the hour", and one failing sink   *)
(* does not take the others with it.                                       *)
WrittenBefore == SubSeq(reports, 1, Len(reports) - Len(batch))

GoodSinksHoldReports ==
    \A s \in Sinks \ broken :
        \/ stored[s] = reports
        \/ /\ stored[s] = WrittenBefore
           /\ phase \in {"writing", "writing final", "raised", "killed"}

(* A burst long enough and detected often enough, counting only the frames *)
(* in which the bin was detected.                                          *)
DetectedFrames(b, x) == Cardinality(heard[b] \cap (x.start .. x.end))

IsSteady(b, x) ==
    /\ FrameSpan(x) >= MinFrames
    /\ 100 * DetectedFrames(b, x) >= MinOccupancy * FrameSpan(x)

IsReported(b, x) ==
    \E g \in Groups : \E e \in g :
        e.bin = b /\ e.start = x.start /\ e.end = x.end

Unreported ==
    {p \in UNION {{b} \X T!Promise!Bursts(b) : b \in Bins} :
        IsSteady(p[1], p[2]) /\ ~IsReported(p[1], p[2])}

(* When the recording is over, every steady transmission in it has been    *)
(* reported, the one still on the air at its end included (flush).         *)
RecordingIsExhausted == phase = "done" => Unreported = {}

(* A steady transmission that is over is reported, or the process dies.    *)
Owed == \E p \in Unreported : T!Promise!IsOver(p[1], p[2])

OverIsReported == Owed ~> (~Owed \/ phase \in {"killed", "raised"})

-----------------------------------------------------------------------------
(* Claims of the comments and docs that the code does not meet.  No run    *)
(* states them: given as an invariant of MCNode, TLC refutes each.         *)

(* "the adjacent-bin merge below turns the two flagged bins back into one  *)
(* emitter": two kept emissions that are adjacent and overlap in time are  *)
(* in one report.                                                          *)
SplitEmitterIsOneReport ==
    \A e, f \in Kept : IsAdjacent(e, f) => SameReport(e, f)

(* "an occupancy floor rejects" false alarms glued by the hangover: what   *)
(* is kept was detected in min_occupancy of its span.                      *)
SparseChainIsRejected == \A e \in Kept : IsSteady(e.bin, e)
=============================================================================
