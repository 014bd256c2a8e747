------------------------------ MODULE Metrics -------------------------------
(* sim/scenario.py and sim/metrics.py: what a scenario puts on the air, and *)
(* what the node reported scored against it.  The samples themselves are    *)
(* left out.  Times of reports are clock times, times of the truth run from *)
(* the start of the scene.                                                  *)
EXTENDS Integers, Sequences, SequencesExt

CONSTANT MatchTolerance  \* FREQUENCY_TOLERANCE_HZ of metrics.py

Off(a, b) == IF a > b THEN a - b ELSE b - a
Least(a, b)    == IF a < b THEN a ELSE b
Greatest(a, b) == IF a > b THEN a ELSE b

(* _add_emitter and generate: every transmission that begins in the scene, *)
(* cut off at its end, in the order of their starts.                       *)
TruthOf(emitter, scene) ==
    LET sent == SelectSeq(emitter.transmissions, LAMBDA t :
                    Least(t.stop, scene.duration) > t.start)
    IN  [k \in DOMAIN sent |->
            [frequency |-> emitter.frequency, tone |-> emitter.tone,
             channel   |-> emitter.channel, snr |-> emitter.snr,
             start     |-> sent[k].start,
             stop      |-> Least(sent[k].stop, scene.duration)]]

Truth(scene) ==
    LET all == FlattenSeq([e \in DOMAIN scene.emitters |->
                              TruthOf(scene.emitters[e], scene)])
        Earlier(a, b) ==
            all[a].start < all[b].start \/ (all[a].start = all[b].start /\ a < b)
        order == SortSeq([k \in DOMAIN all |-> k], Earlier)
    IN  [k \in DOMAIN all |-> all[order[k]]]

Begin(report, sceneStart) == report.start - sceneStart
Stop(report, sceneStart)  == Begin(report, sceneStart) + report.duration

IsOf(report, truth, sceneStart) ==
    /\ Off(report.frequency, truth.frequency) <= MatchTolerance
    /\ Begin(report, sceneStart) < truth.stop
    /\ Stop(report, sceneStart) > truth.start

Hits(report, truth, sceneStart) ==
    {m \in DOMAIN truth : IsOf(report, truth[m], sceneStart)}

Common(report, truth, sceneStart) ==
    Least(Stop(report, sceneStart), truth.stop)
        - Greatest(Begin(report, sceneStart), truth.start)

(* The hit with the most time in common, the first of several; 0 if none. *)
BestIsFirst(report, truth, sceneStart) ==  \* slip
    LET hits == Hits(report, truth, sceneStart)
    IN  IF hits = {} THEN 0 ELSE Min(hits)
Best(report, truth, sceneStart) ==
    LET hits == Hits(report, truth, sceneStart)
        With(m) == Common(report, truth[m], sceneStart)
    IN  IF hits = {} THEN 0
        ELSE Min({m \in hits : \A n \in hits : With(m) >= With(n)})

Score(reports, truth, sceneStart) ==
    LET Attributed(m) == SelectSeq([i \in DOMAIN reports |-> i],
                             LAMBDA i : Best(reports[i], truth, sceneStart) = m)
    IN  [matches  |-> [m \in DOMAIN truth |-> Attributed(m)],
         spurious |-> Attributed(0),
         merged   |-> Cardinality({i \in DOMAIN reports :
                          Cardinality(Hits(reports[i], truth, sceneStart)) > 1})]

(* The figures, without the divisions; by_snr has one entry for a bin. *)
Detected(result) == {m \in DOMAIN result.matches : result.matches[m] # <<>>}

DurationError(reports, truth, result, m) ==
    SumFunction([k \in DOMAIN result.matches[m] |->
                    reports[result.matches[m][k]].duration])
        - (truth[m].stop - truth[m].start)

Headline(reports, truth, result, edges) ==
    LET First(m)  == reports[result.matches[m][1]]
        InBin(b)  == {m \in DOMAIN truth :
                         edges[b] <= truth[m].snr /\ truth[m].snr < edges[b + 1]}
    IN  [transmissions |-> Len(truth),
         detected      |-> Cardinality(Detected(result)),
         spurious      |-> Len(result.spurious),
         fragmented    |-> Cardinality({m \in Detected(result) :
                                           Len(result.matches[m]) > 1}),
         merged        |-> result.merged,
         channelRight  |-> Cardinality({m \in Detected(result) :
                                           First(m).channel = truth[m].channel}),
         toneRight     |-> Cardinality({m \in Detected(result) :
                                           First(m).tone = truth[m].tone}),
         errors        |-> {DurationError(reports, truth, result, m) :
                               m \in Detected(result)},
         bySnr         |-> [b \in {c \in 1 .. Len(edges) - 1 : InBin(c) # {}} |->
                               <<Cardinality(InBin(b) \cap Detected(result)),
                                 Cardinality(InBin(b))>>]]
=============================================================================
