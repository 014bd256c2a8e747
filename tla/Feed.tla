-------------------------------- MODULE Feed --------------------------------
(* From the antenna to the map: a live receiver that loses samples          *)
(* (SoapySource), the loop of the node, CotSink with the documents of       *)
(* io/cot.py, UDP, and the map of a viewer.  Time is counted in blocks; the *)
(* node dates what it hears by the samples it has had since the start.      *)
(* Reading takes a block, publishing next to no time.  An over is open from *)
(* the first block it is heard in to the first it is not; the hangover and  *)
(* the gates of the tracker are left to Tracker and Node.                   *)
EXTENDS Integers, Sequences, FiniteSets, Functions

CONSTANTS
    Emitters,    \* 1 .. n, in the order of their bins
    StaleS,      \* DEFAULT_STALE_S, COT_STALE_S
    Percentiles, \* DEFAULT_PERCENTILES
    WithRange,   \* with_range of CotSink
    StartDelay,  \* from start_time to the first sample: the device is opened
    MaxWire,     \* bound: datagrams under way at a time
    MaxTime      \* bound of the model

ASSUME FeedAssumption ==
    /\ Emitters \subseteq Nat /\ Percentiles \subseteq Nat \ {0}
    /\ IsFiniteSet(Emitters) /\ IsFiniteSet(Percentiles)
    /\ StaleS \in Nat /\ MaxWire \in Nat /\ MaxTime \in Nat
    /\ StartDelay \in Nat
    /\ WithRange \in BOOLEAN

VARIABLES
    now,       \* the clock, from start_time of the source on
    running,   \* node.run is in its loop
    sampled,   \* frames_processed
    skipped,   \* external: the driver has dropped samples since the last read
    gaps,      \* how many entries source.gaps has
    open,      \* emitter -> its over: the first block heard; NotOpen
    queue,     \* documents still to be handed to the socket, in order
    sent,      \* of the documents of this write, those handed over
    published, \* published of CotSink
    wire,      \* external: datagrams under way
    map,       \* external: uid -> the document last received for it
    onAir,     \* history: emitter -> when it was last on the air
    measured   \* history: emitter -> end of its last over with a power in dBm

vars == <<now, running, sampled, skipped, gaps, open, queue, sent, published,
          wire, map, onAir, measured>>

NotOpen == [at |-> 0, heard |-> 0]
Never   == -StaleS - 1

Init ==
    /\ now = StartDelay /\ running = TRUE
    /\ sampled = 0 /\ skipped = FALSE /\ gaps = 0
    /\ open = [e \in Emitters |-> NotOpen]
    /\ queue = <<>> /\ sent = 0 /\ published = 0
    /\ wire = {} /\ map = [uid \in {} |-> 0]
    /\ onAir = [e \in Emitters |-> Never]
    /\ measured = [e \in Emitters |-> Never]

-----------------------------------------------------------------------------
(* A report: start and end by the samples, the tone that was identified, 0  *)
(* for none, and whether the calibration gives its power in dBm; heard is   *)
(* the clock when it began to be heard.                                     *)
Report(e, tone, calibrated) ==
    [emitter |-> e, tone |-> tone, start |-> open[e].at - 1, end |-> sampled,
     heard |-> open[e].heard, calibrated |-> calibrated]

(* emitter_uid; a ring has its percentile after it, 0 is the track. *)
EmitterUid(report) == <<report.emitter, report.tone>>
Uid(report, percentile) == <<EmitterUid(report), percentile>>

StaleFromNow(report) == now + StaleS  \* slip: from when it is written
StaleAfter(report) == report.end + StaleS

Document(report, percentile) ==
    [uid   |-> Uid(report, percentile), emitter |-> report.emitter,
     start |-> report.start, stale |-> StaleAfter(report), heard |-> report.heard]

(* estimate_from_report: no range without a power in dBm. *)
EstimateAnyway(report) == TRUE  \* slip
HasEstimate(report) == report.calibrated

EmitterTrack(report) == {Document(report, 0)}

UncertaintyRings(report) == {Document(report, p) : p \in Percentiles}

EventsFor(report) ==
    EmitterTrack(report) \cup
        (IF WithRange /\ HasEstimate(report) THEN UncertaintyRings(report) ELSE {})

(* The documents of one write in the order they are handed over: reports as *)
(* _group_adjacent orders them, and of each the track and then its rings.   *)
GoesBefore(c, d) ==
    \/ c.start < d.start
    \/ c.start = d.start /\ c.emitter < d.emitter
    \/ c.start = d.start /\ c.emitter = d.emitter /\ c.uid[2] < d.uid[2]

InOrder(documents) ==
    {q \in [1 .. Cardinality(documents) -> documents] :
        \A i, j \in DOMAIN q : i < j => GoesBefore(q[i], q[j])}

-----------------------------------------------------------------------------
(* A block of time goes by, with some emitters on the air. *)
Passes(keyed) ==
    /\ now < MaxTime
    /\ now' = now + 1
    /\ onAir' = [e \in Emitters |-> IF e \in keyed THEN now + 1 ELSE onAir[e]]

(* The driver drops it: SoapySDR says so with the next samples it gives. *)
Overflow(keyed) ==
    /\ running /\ queue = <<>>
    /\ Passes(keyed)
    /\ skipped' = TRUE
    /\ UNCHANGED <<running, sampled, gaps, open, queue, sent, published, wire,
                   map, measured>>

(* SoapySource.read without samples: a timeout or an error of the driver.   *)
GapUnlogged == gaps  \* slip: only overflows are logged
GapLogged == gaps + 1

ReadNothing(keyed) ==
    /\ running /\ queue = <<>>
    /\ Passes(keyed)
    /\ gaps' = GapLogged
    /\ UNCHANGED <<running, sampled, skipped, open, queue, sent, published,
                   wire, map, measured>>

(* SoapySource.read of a block, process_block, and CotSink.write as far as  *)
(* the documents; tones and calibrated say what was found of each over.     *)
Closed(keyed) == {e \in Emitters \ keyed : open[e] # NotOpen}

ReadBlock(keyed, tones, calibrated) ==
    LET reports == {Report(e, IF e \in tones THEN 1 ELSE 0, e \in calibrated) :
                       e \in Closed(keyed)}
    IN  /\ running /\ queue = <<>>
        /\ Passes(keyed)
        /\ sampled' = sampled + 1
        /\ gaps' = IF skipped THEN gaps + 1 ELSE gaps
        /\ skipped' = FALSE
        /\ open' = [e \in Emitters |->
               CASE e \notin keyed -> NotOpen
                 [] e \in keyed /\ open[e] = NotOpen ->
                        [at |-> sampled + 1, heard |-> now]
                 [] OTHER -> open[e]]
        /\ queue' \in InOrder(UNION {EventsFor(r) : r \in reports})
        /\ measured' = [e \in Emitters |->
               IF e \in Closed(keyed) \cap calibrated THEN onAir[e] ELSE measured[e]]
        /\ UNCHANGED <<running, sent, published, wire, map>>

(* UdpTransport.publish, one document; a failing send is logged, and the    *)
(* next one is tried.  With the last one write adds up.                     *)
Publish(handed) ==
    LET count == sent + (IF handed THEN 1 ELSE 0)
        last  == Len(queue) = 1
    IN  /\ running /\ queue # <<>>
        /\ Cardinality(wire) < MaxWire
        /\ queue' = Tail(queue)
        /\ wire' = IF handed THEN wire \cup {Head(queue)} ELSE wire
        /\ sent' = IF last THEN 0 ELSE count
        /\ published' = IF last THEN published + count ELSE published
        /\ UNCHANGED <<now, running, sampled, skipped, gaps, open, map, onAir,
                       measured>>

(* Control-C or a kill: nothing is flushed.  Time goes on without the node. *)
Stops ==
    /\ running
    /\ running' = FALSE
    /\ queue' = <<>> /\ sent' = 0
    /\ UNCHANGED <<now, sampled, skipped, gaps, open, published, wire, map,
                   onAir, measured>>

WithoutNode(keyed) ==
    /\ ~running
    /\ Passes(keyed)
    /\ UNCHANGED <<running, sampled, skipped, gaps, open, queue, sent,
                   published, wire, map, measured>>

-----------------------------------------------------------------------------
(* UDP loses, repeats and reorders; the viewer keeps the last of each uid.  *)
Deliver(document, again) ==
    /\ map' = [uid \in DOMAIN map \cup {document.uid} |->
                  IF uid = document.uid THEN document ELSE map[uid]]
    /\ wire' = IF again THEN wire ELSE wire \ {document}
    /\ UNCHANGED <<now, running, sampled, skipped, gaps, open, queue, sent,
                   published, onAir, measured>>

Lose(document) ==
    /\ wire' = wire \ {document}
    /\ UNCHANGED <<now, running, sampled, skipped, gaps, open, queue, sent,
                   published, map, onAir, measured>>

Next ==
    \/ \E keyed \in SUBSET Emitters :
           \/ Overflow(keyed) \/ ReadNothing(keyed) \/ WithoutNode(keyed)
           \/ \E tones \in SUBSET Closed(keyed) :
                  \E calibrated \in SUBSET Closed(keyed) :
                      ReadBlock(keyed, tones, calibrated)
    \/ \E handed \in BOOLEAN : Publish(handed)
    \/ Stops
    \/ \E document \in wire :
           Lose(document) \/ \E again \in BOOLEAN : Deliver(document, again)

Spec == Init /\ [][Next]_vars

-----------------------------------------------------------------------------
Shown == {uid \in DOMAIN map : now < map[uid].stale}

(* What the map shows was on the air within the stale time, however many    *)
(* samples were lost before it and however late, often or out of order the  *)
(* documents come: the stamps may lag behind the clock, never run ahead.    *)
MapShowsTheAir ==
    \A uid \in Shown : now - onAir[map[uid].emitter] < StaleS

(* A ring is on the map only within the stale time of an over of that       *)
(* emitter whose power was calibrated; a track alone claims no distance.    *)
RingsAreMeasured ==
    \A uid \in Shown : uid[2] # 0 => now - measured[map[uid].emitter] < StaleS

(* As long as the source has logged no gap, what is published is dated to   *)
(* when it was heard, but for the time that opening the device took: no     *)
(* other time is lost without a trace.                                      *)
StampErrorIsLogged ==
    gaps = 0 => \A document \in Range(queue) \cup wire \cup Range(map) :
                    document.start + StartDelay = document.heard
=============================================================================
