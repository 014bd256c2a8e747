----------------------------- MODULE FeedProofs ----------------------------
(* Theorems about Feed, for every set of emitters and percentiles, every   *)
(* stale time, and any number of datagrams under way.                      *)
EXTENDS Feed, SequenceTheorems, FiniteSetTheorems, TLAPS

-----------------------------------------------------------------------------
(* Types.                                                                  *)

Times == [at : Nat, heard : Nat]

Uids == (Emitters \X {0, 1}) \X (Percentiles \cup {0})

Documents ==
    [uid : Uids, emitter : Emitters, start : Int, stale : Int, heard : Nat]

ClockTypeOK ==
    /\ now \in Nat
    /\ running \in BOOLEAN
    /\ sampled \in Nat
    /\ skipped \in BOOLEAN
    /\ gaps \in Nat
    /\ open \in [Emitters -> Times]
    /\ onAir \in [Emitters -> Int]
    /\ measured \in [Emitters -> Int]

FeedTypeOK ==
    /\ queue \in Seq(Documents)
    /\ sent \in Nat
    /\ published \in Nat
    /\ wire \subseteq Documents
    /\ map \in [DOMAIN map -> Documents]
    /\ DOMAIN map \subseteq Uids

TypeOK == ClockTypeOK /\ FeedTypeOK

(* Bounds of the constants, and the two times that are not one. *)
LEMMA ConstantsAre ==
  /\ StaleS \in Nat /\ StartDelay \in Nat
  /\ Never \in Int /\ Never <= 0
  /\ NotOpen \in Times /\ NotOpen.at = 0
BY FeedAssumption DEF FeedAssumption, Never, NotOpen, Times

-----------------------------------------------------------------------------
(* The invariant.                                                          *)

(* The node's time lags behind the clock by what it took to open the       *)
(* device, or by more if samples were lost; an over that is open was heard *)
(* in the last block that was read, and is dated right but for that if     *)
(* nothing was lost before it.                                             *)
ClockInv ==
    /\ sampled + StartDelay <= now
    /\ gaps = 0 /\ ~skipped /\ running => sampled + StartDelay = now
    /\ \A e \in Emitters : onAir[e] <= now /\ measured[e] <= onAir[e]
    /\ \A e \in Emitters : open[e] # NotOpen =>
           /\ sampled <= onAir[e]
           /\ gaps = 0 => (open[e].at - 1) + StartDelay = open[e].heard

(* A document goes stale no later than its emitter was on the air, that of *)
(* a ring no later than it was measured.                                   *)
IsTrue(d) ==
    /\ d.stale <= onAir[d.emitter] + StaleS
    /\ d.uid[2] # 0 => d.stale <= measured[d.emitter] + StaleS
    /\ gaps = 0 => d.start + StartDelay = d.heard

(* All documents there are tell the truth, wherever they are. *)
Handled == Range(queue) \cup wire \cup Range(map)

FeedInv ==
    /\ \A d \in Handled : IsTrue(d)
    /\ \A uid \in DOMAIN map : map[uid].uid = uid

IInv == TypeOK /\ ClockInv /\ FeedInv

LEMMA InitIInv == Init => IInv
<1>. SUFFICES ASSUME Init PROVE IInv
  OBVIOUS
<1>1. TypeOK
  <2>1. map = <<>> /\ DOMAIN map = {}
    BY DEF Init
  <2>2. FeedTypeOK
    <3>1. map \in [DOMAIN map -> Documents]
      BY DEF Init
    <3>2. queue \in Seq(Documents)
      BY DEF Init
    <3>. QED BY <3>1, <3>2, <2>1 DEF Init, FeedTypeOK
  <2>3. ClockTypeOK
    BY ConstantsAre DEF Init, ClockTypeOK
  <2>. QED BY <2>2, <2>3 DEF TypeOK
<1>2. ClockInv
  BY ConstantsAre DEF Init, ClockInv
<1>3. FeedInv
  BY DEF Init, FeedInv, Handled, Range
<1>. QED BY <1>1, <1>2, <1>3 DEF IInv

-----------------------------------------------------------------------------
(* Documents stay true.                                                    *)

(* Nothing but a new loss can make a document untrue: when an emitter was  *)
(* on the air, and when it was measured, only moves on.                    *)
LEMMA TruthStays ==
  ASSUME TypeOK, NEW d \in Documents, IsTrue(d),
         TypeOK', gaps' = 0 => gaps = 0,
         \A e \in Emitters : onAir[e] <= onAir'[e] /\ measured[e] <= measured'[e]
  PROVE  IsTrue(d)'
<1>1. PICK e \in Emitters : e = d.emitter
  BY DEF Documents
<1>2. /\ onAir[e] \in Int /\ onAir'[e] \in Int /\ d.stale \in Int
      /\ measured[e] \in Int /\ measured'[e] \in Int /\ StaleS \in Nat
      /\ onAir[e] <= onAir'[e] /\ measured[e] <= measured'[e]
  BY ConstantsAre DEF TypeOK, ClockTypeOK, Documents
<1>3. d.stale <= onAir[e] + StaleS
      /\ (d.uid[2] # 0 => d.stale <= measured[e] + StaleS)
  BY <1>1 DEF IsTrue
<1>4. d.stale <= onAir'[e] + StaleS
      /\ (d.uid[2] # 0 => d.stale <= measured'[e] + StaleS)
  BY <1>2, <1>3
<1>. QED BY <1>1, <1>4 DEF IsTrue

LEMMA RangeOfQueue ==
  ASSUME NEW S, NEW q \in Seq(S)
  PROVE  Range(q) \subseteq S
BY ElementOfSeq, LenProperties DEF Range

LEMMA HandledAreDocuments ==
  ASSUME FeedTypeOK
  PROVE  Handled \subseteq Documents
<1>1. Range(queue) \subseteq Documents
  BY RangeOfQueue DEF FeedTypeOK
<1>2. Range(map) \subseteq Documents
  BY DEF FeedTypeOK, Range
<1>. QED BY <1>1, <1>2 DEF FeedTypeOK, Handled

(* A step that brings no new document keeps those there are true. *)
LEMMA HandledStays ==
  ASSUME IInv, TypeOK', gaps' = 0 => gaps = 0,
         \A e \in Emitters : onAir[e] <= onAir'[e] /\ measured[e] <= measured'[e],
         Handled' \subseteq Handled,
         \A uid \in DOMAIN map' : map'[uid].uid = uid
  PROVE  FeedInv'
<1>1. TypeOK /\ Handled \subseteq Documents /\ \A d \in Handled : IsTrue(d)
  BY HandledAreDocuments DEF IInv, TypeOK, FeedInv
<1>2. ASSUME NEW d \in Handled' PROVE IsTrue(d)'
  <2>1. d \in Documents /\ IsTrue(d)
    BY <1>1
  <2>. QED BY <1>1, <2>1, TruthStays
<1>. QED BY <1>2 DEF FeedInv

(* A block of time. *)
LEMMA PassesIs ==
  ASSUME TypeOK, ClockInv, NEW keyed \in SUBSET Emitters, Passes(keyed)
  PROVE  /\ now \in Nat /\ now' = now + 1 /\ now' \in Nat
         /\ onAir' \in [Emitters -> Int]
         /\ \A e \in Emitters :
                /\ onAir[e] \in Int /\ onAir'[e] \in Int
                /\ onAir[e] <= onAir'[e] /\ onAir'[e] <= now'
                /\ onAir'[e] = IF e \in keyed THEN now + 1 ELSE onAir[e]
<1>1. /\ now \in Nat /\ now' = now + 1
      /\ onAir \in [Emitters -> Int]
      /\ onAir' = [e \in Emitters |-> IF e \in keyed THEN now + 1 ELSE onAir[e]]
      /\ \A e \in Emitters : onAir[e] <= now
  BY DEF TypeOK, ClockTypeOK, ClockInv, Passes
<1>2. ASSUME NEW e \in Emitters
      PROVE  /\ onAir[e] \in Int /\ onAir'[e] \in Int
             /\ onAir[e] <= onAir'[e] /\ onAir'[e] <= now'
             /\ onAir'[e] = IF e \in keyed THEN now + 1 ELSE onAir[e]
  BY <1>1
<1>. QED BY <1>1, <1>2

(* Time goes by without a read: the driver drops the block, the read comes *)
(* back empty, or there is no node.                                        *)
LEMMA LossKeeps ==
  ASSUME IInv, NEW keyed \in SUBSET Emitters,
         Overflow(keyed) \/ ReadNothing(keyed) \/ WithoutNode(keyed)
  PROVE  IInv'
<1>1. /\ TypeOK /\ ClockInv /\ FeedInv
      /\ Passes(keyed)
      /\ UNCHANGED <<running, sampled, open, queue, sent, published, wire, map,
                     measured>>
      /\ \/ skipped' = TRUE /\ gaps' = gaps
         \/ skipped' = skipped /\ gaps' = gaps + 1
         \/ ~running /\ skipped' = skipped /\ gaps' = gaps
  BY DEF IInv, Overflow, ReadNothing, WithoutNode, GapLogged
<1>2. /\ now \in Nat /\ now' = now + 1 /\ now' \in Nat
      /\ onAir' \in [Emitters -> Int]
      /\ \A e \in Emitters :
             /\ onAir[e] \in Int /\ onAir'[e] \in Int
             /\ onAir[e] <= onAir'[e] /\ onAir'[e] <= now'
  BY <1>1, PassesIs
<1>3. gaps \in Nat /\ gaps' \in Nat /\ (gaps' = 0 => gaps = 0)
      /\ skipped' \in BOOLEAN
  <2>1. gaps \in Nat /\ skipped \in BOOLEAN
    BY <1>1 DEF TypeOK, ClockTypeOK
  <2>2. gaps' = gaps \/ gaps' = gaps + 1
    BY <1>1
  <2>3. gaps' \in Nat /\ (gaps' = 0 => gaps = 0)
    BY <2>1, <2>2
  <2>4. skipped' = TRUE \/ skipped' = skipped
    BY <1>1
  <2>5. skipped' \in BOOLEAN
    BY <2>1, <2>4
  <2>. QED BY <2>1, <2>3, <2>5
<1>4. TypeOK'
  <2>1. ClockTypeOK'
    BY <1>1, <1>2, <1>3 DEF TypeOK, ClockTypeOK
  <2>2. FeedTypeOK'
    BY <1>1 DEF TypeOK, FeedTypeOK
  <2>. QED BY <2>1, <2>2 DEF TypeOK
<1>5. sampled \in Nat /\ measured \in [Emitters -> Int]
  BY <1>1 DEF TypeOK, ClockTypeOK
<1>6. ClockInv'
  <2>1. sampled' + StartDelay <= now'
    BY <1>1, <1>2, <1>5, ConstantsAre DEF ClockInv
  <2>2. gaps' = 0 /\ ~skipped' /\ running' => sampled' + StartDelay = now'
    <3>1. ~(gaps' = 0 /\ ~skipped' /\ running')
      <4>1. gaps + 1 # 0
        BY <1>3
      <4>. QED BY <1>1, <4>1
    <3>. QED BY <3>1
  <2>3. ASSUME NEW e \in Emitters
        PROVE  onAir'[e] <= now' /\ measured'[e] <= onAir'[e]
    <3>1. measured[e] <= onAir[e] /\ measured[e] \in Int
      BY <1>1, <1>5 DEF ClockInv
    <3>2. measured[e] <= onAir'[e]
      BY <1>2, <3>1
    <3>. QED BY <1>1, <1>2, <3>2
  <2>4. ASSUME NEW e \in Emitters, open'[e] # NotOpen
        PROVE  /\ sampled' <= onAir'[e]
               /\ gaps' = 0 => (open'[e].at - 1) + StartDelay = open'[e].heard
    <3>1. /\ sampled <= onAir[e]
          /\ gaps = 0 => (open[e].at - 1) + StartDelay = open[e].heard
      BY <1>1, <2>4 DEF ClockInv
    <3>2. sampled <= onAir'[e]
      BY <1>2, <1>5, <3>1
    <3>. QED BY <1>1, <1>3, <3>1, <3>2
  <2>. QED BY <2>1, <2>2, <2>3, <2>4 DEF ClockInv
<1>7. FeedInv'
  <2>1. Handled' = Handled
    BY <1>1 DEF Handled
  <2>2. \A uid \in DOMAIN map' : map'[uid].uid = uid
    BY <1>1 DEF FeedInv
  <2>3. \A e \in Emitters : onAir[e] <= onAir'[e] /\ measured[e] <= measured'[e]
    BY <1>1, <1>2, <1>5
  <2>. QED BY <1>3, <1>4, <2>1, <2>2, <2>3, HandledStays
<1>. QED BY <1>4, <1>6, <1>7 DEF IInv

(* A step that leaves the clocks alone. *)
LEMMA ClocksStay ==
  ASSUME TypeOK, ClockInv,
         UNCHANGED <<now, sampled, skipped, gaps, open, onAir, measured>>,
         running' \in BOOLEAN, running' => running
  PROVE  /\ ClockTypeOK' /\ ClockInv'
         /\ gaps' = 0 => gaps = 0
         /\ \A e \in Emitters :
                onAir[e] <= onAir'[e] /\ measured[e] <= measured'[e]
<1>1. ClockTypeOK'
  BY DEF TypeOK, ClockTypeOK
<1>2. ClockInv'
  BY DEF ClockInv
<1>3. \A e \in Emitters : onAir[e] \in Int /\ measured[e] \in Int
  BY DEF TypeOK, ClockTypeOK
<1>. QED BY <1>1, <1>2, <1>3

LEMMA PublishKeeps ==
  ASSUME IInv, NEW handed \in BOOLEAN, Publish(handed)
  PROVE  IInv'
<1>1. /\ TypeOK /\ ClockInv /\ FeedInv
      /\ queue # <<>> /\ queue' = Tail(queue)
      /\ wire' = IF handed THEN wire \cup {Head(queue)} ELSE wire
      /\ UNCHANGED <<now, running, sampled, skipped, gaps, open, map, onAir,
                     measured>>
  BY DEF IInv, Publish
<1>2. /\ queue \in Seq(Documents) /\ sent \in Nat /\ published \in Nat
      /\ wire \subseteq Documents /\ running \in BOOLEAN
  BY <1>1 DEF TypeOK, ClockTypeOK, FeedTypeOK
<1>3. /\ Head(queue) \in Documents /\ Tail(queue) \in Seq(Documents)
      /\ Head(queue) \in Range(queue) /\ Range(Tail(queue)) \subseteq Range(queue)
  <2>1. /\ Head(queue) \in Documents /\ Tail(queue) \in Seq(Documents)
        /\ Len(queue) \in Nat /\ Len(queue) # 0
        /\ Len(Tail(queue)) = Len(queue) - 1
        /\ Head(queue) = queue[1]
        /\ \A i \in 1 .. Len(Tail(queue)) : Tail(queue)[i] = queue[i + 1]
    BY <1>1, <1>2, HeadTailProperties, EmptySeq, LenProperties
  <2>2. DOMAIN queue = 1 .. Len(queue)
        /\ DOMAIN Tail(queue) = 1 .. Len(queue) - 1
    BY <1>2, <2>1, LenProperties
  <2>3. 1 \in DOMAIN queue
    BY <2>1, <2>2
  <2>4. ASSUME NEW i \in DOMAIN Tail(queue) PROVE Tail(queue)[i] \in Range(queue)
    <3>1. i + 1 \in DOMAIN queue /\ Tail(queue)[i] = queue[i + 1]
      BY <2>1, <2>2
    <3>. QED BY <3>1 DEF Range
  <2>. QED BY <2>1, <2>3, <2>4 DEF Range
<1>4. sent' \in Nat /\ published' \in Nat
  BY <1>2 DEF Publish
<1>5. FeedTypeOK'
  BY <1>1, <1>2, <1>3, <1>4 DEF TypeOK, FeedTypeOK
<1>6. /\ ClockTypeOK' /\ ClockInv' /\ (gaps' = 0 => gaps = 0)
      /\ \A e \in Emitters : onAir[e] <= onAir'[e] /\ measured[e] <= measured'[e]
  BY <1>1, <1>2, ClocksStay
<1>7. Handled' \subseteq Handled
  BY <1>1, <1>3 DEF Handled
<1>8. \A uid \in DOMAIN map' : map'[uid].uid = uid
  BY <1>1 DEF FeedInv
<1>9. TypeOK'
  BY <1>5, <1>6 DEF TypeOK
<1>. QED BY <1>6, <1>7, <1>8, <1>9, HandledStays DEF IInv

LEMMA StopsKeeps ==
  ASSUME IInv, Stops
  PROVE  IInv'
<1>1. /\ TypeOK /\ ClockInv /\ FeedInv
      /\ running' = FALSE /\ queue' = <<>> /\ sent' = 0
      /\ UNCHANGED <<now, sampled, skipped, gaps, open, published, wire, map,
                     onAir, measured>>
  BY DEF IInv, Stops
<1>2. FeedTypeOK'
  <2>1. queue' \in Seq(Documents)
    BY <1>1
  <2>. QED BY <1>1, <2>1 DEF TypeOK, FeedTypeOK
<1>3. /\ ClockTypeOK' /\ ClockInv' /\ (gaps' = 0 => gaps = 0)
      /\ \A e \in Emitters : onAir[e] <= onAir'[e] /\ measured[e] <= measured'[e]
  BY <1>1, ClocksStay
<1>4. Handled' \subseteq Handled
  BY <1>1 DEF Handled, Range
<1>5. \A uid \in DOMAIN map' : map'[uid].uid = uid
  BY <1>1 DEF FeedInv
<1>6. TypeOK'
  BY <1>2, <1>3 DEF TypeOK
<1>. QED BY <1>3, <1>4, <1>5, <1>6, HandledStays DEF IInv

LEMMA LoseKeeps ==
  ASSUME IInv, NEW document \in wire, Lose(document)
  PROVE  IInv'
<1>1. /\ TypeOK /\ ClockInv /\ FeedInv
      /\ wire' \subseteq wire
      /\ UNCHANGED <<now, running, sampled, skipped, gaps, open, queue, sent,
                     published, map, onAir, measured>>
  BY DEF IInv, Lose
<1>2. FeedTypeOK'
  BY <1>1 DEF TypeOK, FeedTypeOK
<1>3. /\ ClockTypeOK' /\ ClockInv' /\ (gaps' = 0 => gaps = 0)
      /\ \A e \in Emitters : onAir[e] <= onAir'[e] /\ measured[e] <= measured'[e]
  <2>1. running' \in BOOLEAN /\ (running' => running)
    BY <1>1 DEF TypeOK, ClockTypeOK
  <2>. QED BY <1>1, <2>1, ClocksStay
<1>4. Handled' \subseteq Handled
  BY <1>1 DEF Handled
<1>5. \A uid \in DOMAIN map' : map'[uid].uid = uid
  BY <1>1 DEF FeedInv
<1>6. TypeOK'
  BY <1>2, <1>3 DEF TypeOK
<1>. QED BY <1>3, <1>4, <1>5, <1>6, HandledStays DEF IInv

(* The map takes a document from the wire, in the place of the last one of *)
(* its identifier.                                                         *)
LEMMA DeliverKeeps ==
  ASSUME IInv, NEW document \in wire, NEW again \in BOOLEAN,
         Deliver(document, again)
  PROVE  IInv'
<1>1. /\ TypeOK /\ ClockInv /\ FeedInv
      /\ map' = [uid \in DOMAIN map \cup {document.uid} |->
                    IF uid = document.uid THEN document ELSE map[uid]]
      /\ wire' \subseteq wire
      /\ UNCHANGED <<now, running, sampled, skipped, gaps, open, queue, sent,
                     published, onAir, measured>>
  BY DEF IInv, Deliver
<1>2. /\ wire \subseteq Documents /\ map \in [DOMAIN map -> Documents]
      /\ DOMAIN map \subseteq Uids /\ document.uid \in Uids
  BY <1>1 DEF TypeOK, FeedTypeOK, Documents
<1>3. /\ DOMAIN map' = DOMAIN map \cup {document.uid}
      /\ \A uid \in DOMAIN map' :
             map'[uid] = IF uid = document.uid THEN document ELSE map[uid]
  BY <1>1
<1>4. map' \in [DOMAIN map' -> Documents] /\ DOMAIN map' \subseteq Uids
  <2>1. \A uid \in DOMAIN map' : map'[uid] \in Documents
    BY <1>2, <1>3
  <2>. QED BY <1>1, <1>2, <1>3, <2>1
<1>5. FeedTypeOK'
  BY <1>1, <1>2, <1>4 DEF TypeOK, FeedTypeOK
<1>6. /\ ClockTypeOK' /\ ClockInv' /\ (gaps' = 0 => gaps = 0)
      /\ \A e \in Emitters : onAir[e] <= onAir'[e] /\ measured[e] <= measured'[e]
  <2>1. running' \in BOOLEAN /\ (running' => running)
    BY <1>1 DEF TypeOK, ClockTypeOK
  <2>. QED BY <1>1, <2>1, ClocksStay
<1>7. Handled' \subseteq Handled
  <2>1. ASSUME NEW uid \in DOMAIN map' PROVE map'[uid] \in wire \cup Range(map)
    BY <1>3 DEF Range
  <2>2. Range(map)' \subseteq wire \cup Range(map)
    BY <2>1 DEF Range
  <2>. QED BY <1>1, <2>2 DEF Handled
<1>8. \A uid \in DOMAIN map' : map'[uid].uid = uid
  BY <1>1, <1>3 DEF FeedInv
<1>9. TypeOK'
  BY <1>5, <1>6 DEF TypeOK
<1>. QED BY <1>6, <1>7, <1>8, <1>9, HandledStays DEF IInv

-----------------------------------------------------------------------------
(* A block is read.                                                        *)

(* The reports of the overs that end with it. *)
ReportsOf(keyed, tones, calibrated) ==
    {Report(e, IF e \in tones THEN 1 ELSE 0, e \in calibrated) :
        e \in Closed(keyed)}

DocumentsOf(reports) == UNION {EventsFor(r) : r \in reports}

(* Each document comes from one of them, and is true after the block.      *)
LEMMA NewAreTrue ==
  ASSUME IInv, NEW keyed \in SUBSET Emitters, NEW tones, NEW calibrated,
         ReadBlock(keyed, tones, calibrated),
         NEW d \in DocumentsOf(ReportsOf(keyed, tones, calibrated))
  PROVE  d \in Documents /\ IsTrue(d)'
<1>1. /\ TypeOK /\ ClockInv
      /\ Passes(keyed)
      /\ gaps' = IF skipped THEN gaps + 1 ELSE gaps
      /\ measured' = [e \in Emitters |->
             IF e \in Closed(keyed) \cap calibrated THEN onAir[e] ELSE measured[e]]
  BY DEF IInv, ReadBlock, GapLogged
<1>2. PICK e \in Closed(keyed) :
          d \in EventsFor(Report(e, IF e \in tones THEN 1 ELSE 0, e \in calibrated))
  BY DEF DocumentsOf, ReportsOf
<1>3. PICK tone \in {0, 1} : tone = IF e \in tones THEN 1 ELSE 0
  OBVIOUS
<1>4. PICK p \in Percentiles \cup {0} :
          /\ d = Document(Report(e, tone, e \in calibrated), p)
          /\ p # 0 => e \in calibrated
  <2>1. d \in EventsFor(Report(e, tone, e \in calibrated))
    BY <1>2, <1>3
  <2>2. Report(e, tone, e \in calibrated).calibrated = (e \in calibrated)
    BY DEF Report
  <2>. QED BY <2>1, <2>2 DEF EventsFor, EmitterTrack, UncertaintyRings, HasEstimate
<1>5. /\ d.uid = <<<<e, tone>>, p>> /\ d.emitter = e
      /\ d.start = open[e].at - 1 /\ d.stale = sampled + StaleS
      /\ d.heard = open[e].heard
  BY <1>4 DEF Document, Report, Uid, EmitterUid, StaleAfter
<1>6. d = [uid |-> d.uid, emitter |-> d.emitter, start |-> d.start,
           stale |-> d.stale, heard |-> d.heard]
  BY <1>4 DEF Document
<1>7. /\ e \in Emitters /\ e \notin keyed /\ open[e] # NotOpen
      /\ open[e].at \in Nat /\ open[e].heard \in Nat /\ sampled \in Nat
      /\ onAir[e] \in Int /\ measured[e] \in Int /\ StaleS \in Nat
      /\ gaps \in Nat
  BY <1>1, ConstantsAre DEF Closed, TypeOK, ClockTypeOK, Times
<1>8. /\ sampled <= onAir[e]
      /\ gaps = 0 => (open[e].at - 1) + StartDelay = open[e].heard
  BY <1>1, <1>7 DEF ClockInv
<1>9. onAir'[e] = onAir[e]
  BY <1>1, <1>7, PassesIs
<1>10. gaps' = 0 => gaps = 0
  BY <1>1, <1>7
<1>11. d.stale <= onAir[e] + StaleS
  BY <1>5, <1>7, <1>8
<1>12. d.uid[2] # 0 => measured'[e] = onAir[e]
  BY <1>1, <1>2, <1>4, <1>5, <1>7
<1>13. d \in Documents
  <2>1. d.uid \in Uids
    BY <1>5, <1>7 DEF Uids
  <2>2. d.start \in Int /\ d.stale \in Int /\ d.heard \in Nat
    BY <1>5, <1>7
  <2>. QED BY <1>5, <1>6, <1>7, <2>1, <2>2 DEF Documents
<1>14. IsTrue(d)'
  BY <1>5, <1>8, <1>9, <1>10, <1>11, <1>12 DEF IsTrue
<1>. QED BY <1>13, <1>14

(* There are finitely many of them. *)
LEMMA NewAreFinite ==
  ASSUME NEW keyed \in SUBSET Emitters, NEW tones, NEW calibrated
  PROVE  IsFiniteSet(DocumentsOf(ReportsOf(keyed, tones, calibrated)))
<1>. DEFINE Pairs == Emitters \X (Percentiles \cup {0})
            Made(e, p) ==
                Document(Report(e, IF e \in tones THEN 1 ELSE 0, e \in calibrated), p)
<1>1. PICK made : made = [x \in Pairs |-> Made(x[1], x[2])]
  OBVIOUS
<1>2. PICK all : all = {made[x] : x \in Pairs}
  OBVIOUS
<1>3. IsFiniteSet(Pairs)
  <2>1. IsFiniteSet(Emitters) /\ IsFiniteSet(Percentiles)
    BY FeedAssumption DEF FeedAssumption
  <2>2. IsFiniteSet(Percentiles \cup {0})
    BY <2>1, FS_AddElement
  <2>. QED BY <2>1, <2>2, FS_Product
<1>4. IsFiniteSet(all)
  <2>1. made \in Surjection(Pairs, all)
    BY <1>1, <1>2 DEF Surjection
  <2>. HIDE DEF Pairs
  <2>. QED BY <1>3, <2>1, FS_Surjection
<1>5. DocumentsOf(ReportsOf(keyed, tones, calibrated)) \in SUBSET all
  <2>1. ASSUME NEW d \in DocumentsOf(ReportsOf(keyed, tones, calibrated))
        PROVE  d \in all
    <3>1. PICK e \in Emitters :
            d \in EventsFor(Report(e, IF e \in tones THEN 1 ELSE 0, e \in calibrated))
      BY DEF DocumentsOf, ReportsOf, Closed
    <3>2. PICK p \in Percentiles \cup {0} : d = Made(e, p)
      BY <3>1 DEF EventsFor, EmitterTrack, UncertaintyRings
    <3>3. <<e, p>> \in Pairs
      OBVIOUS
    <3>4. made[<<e, p>>] = d
      BY <1>1, <3>2, <3>3
    <3>. QED BY <1>2, <3>3, <3>4
  <2>. QED BY <2>1
<1>. QED BY <1>4, <1>5, FS_Subset

LEMMA ReadKeeps ==
  ASSUME IInv, NEW keyed \in SUBSET Emitters, NEW tones, NEW calibrated,
         ReadBlock(keyed, tones, calibrated)
  PROVE  IInv'
<1>1. /\ TypeOK /\ ClockInv /\ FeedInv
      /\ running /\ Passes(keyed)
      /\ sampled' = sampled + 1
      /\ gaps' = IF skipped THEN gaps + 1 ELSE gaps
      /\ skipped' = FALSE
      /\ open' = [e \in Emitters |->
             CASE e \notin keyed -> NotOpen
               [] e \in keyed /\ open[e] = NotOpen ->
                      [at |-> sampled + 1, heard |-> now]
               [] OTHER -> open[e]]
      /\ measured' = [e \in Emitters |->
             IF e \in Closed(keyed) \cap calibrated THEN onAir[e] ELSE measured[e]]
      /\ UNCHANGED <<running, sent, published, wire, map>>
  BY DEF IInv, ReadBlock, GapLogged
<1>2. /\ now \in Nat /\ now' = now + 1 /\ now' \in Nat
      /\ onAir' \in [Emitters -> Int]
      /\ \A e \in Emitters :
             /\ onAir[e] \in Int /\ onAir'[e] \in Int
             /\ onAir[e] <= onAir'[e] /\ onAir'[e] <= now'
             /\ onAir'[e] = IF e \in keyed THEN now + 1 ELSE onAir[e]
  BY <1>1, PassesIs
<1>3. /\ sampled \in Nat /\ gaps \in Nat /\ skipped \in BOOLEAN
      /\ open \in [Emitters -> Times] /\ measured \in [Emitters -> Int]
      /\ onAir \in [Emitters -> Int] /\ running \in BOOLEAN
  BY <1>1 DEF TypeOK, ClockTypeOK
<1>4. /\ gaps' \in Nat /\ (gaps' = 0 => gaps = 0 /\ ~skipped)
      /\ (gaps' = 0 => sampled + StartDelay = now)
  <2>1. CASE skipped
    <3>1. gaps' = gaps + 1
      BY <1>1, <2>1
    <3>. QED BY <1>3, <3>1
  <2>2. CASE ~skipped
    <3>1. gaps' = gaps
      BY <1>1, <2>2
    <3>2. gaps = 0 => sampled + StartDelay = now
      BY <1>1, <2>2 DEF ClockInv
    <3>. QED BY <1>3, <2>2, <3>1, <3>2
  <2>. QED BY <2>1, <2>2
<1>5. ASSUME NEW e \in Emitters
      PROVE  \/ open'[e] = NotOpen
             \/ /\ e \in keyed
                /\ open'[e] = [at |-> sampled + 1, heard |-> now]
             \/ e \in keyed /\ open[e] # NotOpen /\ open'[e] = open[e]
  BY <1>1
<1>6. ASSUME NEW e \in Emitters
      PROVE  /\ measured'[e] \in Int
             /\ measured[e] <= measured'[e] /\ measured'[e] <= onAir'[e]
  <2>1. measured[e] <= onAir[e] /\ measured[e] \in Int
    BY <1>1, <1>3 DEF ClockInv
  <2>2. measured'[e] = onAir[e] \/ measured'[e] = measured[e]
    BY <1>1
  <2>. QED BY <1>2, <2>1, <2>2
<1>7. ClockTypeOK'
  <2>1. open' \in [Emitters -> Times]
    <3>1. ASSUME NEW e \in Emitters PROVE open'[e] \in Times
      <4>1. [at |-> sampled + 1, heard |-> now] \in Times
        BY <1>2, <1>3 DEF Times
      <4>. QED BY <1>3, <1>5, <4>1, ConstantsAre
    <3>. QED BY <1>1, <3>1
  <2>2. measured' \in [Emitters -> Int]
    BY <1>1, <1>6
  <2>3. sampled' \in Nat
    BY <1>1, <1>3
  <2>. QED BY <1>1, <1>2, <1>3, <1>4, <2>1, <2>2, <2>3 DEF ClockTypeOK
<1>8. ClockInv'
  <2>1. /\ sampled + StartDelay <= now /\ StartDelay \in Nat
        /\ sampled' = sampled + 1 /\ now' = now + 1
    BY <1>1, <1>2, ConstantsAre DEF ClockInv
  <2>2. sampled' + StartDelay <= now' /\ sampled' <= now'
    BY <1>2, <1>3, <2>1
  <2>3. gaps' = 0 => sampled' + StartDelay = now'
    BY <1>2, <1>3, <1>4, <2>1
  <2>4. ASSUME NEW e \in Emitters, open'[e] # NotOpen
        PROVE  /\ sampled' <= onAir'[e]
               /\ gaps' = 0 => (open'[e].at - 1) + StartDelay = open'[e].heard
    <3>1. onAir'[e] = now' /\ e \in keyed
      BY <1>2, <1>5, <2>4
    <3>2. CASE open'[e] = [at |-> sampled + 1, heard |-> now]
      <4>1. open'[e].at = sampled + 1 /\ open'[e].heard = now
        BY <3>2
      <4>2. (sampled + 1) - 1 = sampled
        BY <1>3
      <4>. QED BY <1>4, <2>2, <3>1, <4>1, <4>2
    <3>3. CASE open[e] # NotOpen /\ open'[e] = open[e]
      <4>1. gaps = 0 => (open[e].at - 1) + StartDelay = open[e].heard
        BY <1>1, <3>3 DEF ClockInv
      <4>. QED BY <1>4, <2>2, <3>1, <3>3, <4>1
    <3>. QED BY <1>5, <2>4, <3>2, <3>3
  <2>. QED BY <1>2, <1>6, <2>2, <2>3, <2>4 DEF ClockInv
<1>. DEFINE new == DocumentsOf(ReportsOf(keyed, tones, calibrated))
<1>9. queue' \in Seq(new) /\ Range(queue') \subseteq new
  <2>1. queue' \in InOrder(new)
    BY DEF ReadBlock, DocumentsOf, ReportsOf
  <2>2. PICK n : n = Cardinality(new)
    OBVIOUS
  <2>3. n \in Nat
    BY <2>2, NewAreFinite, FS_CardinalityType
  <2>. HIDE DEF new
  <2>4. queue' \in [1 .. n -> new]
    BY <2>1, <2>2 DEF InOrder
  <2>5. queue' \in Seq(new)
    BY <2>3, <2>4
  <2>. QED BY <2>5, RangeOfQueue
<1>10. \A d \in new : d \in Documents /\ IsTrue(d)'
  BY NewAreTrue
<1>. HIDE DEF new
<1>11. FeedTypeOK'
  <2>1. new \subseteq Documents
    BY <1>10
  <2>2. queue' \in Seq(Documents)
    BY <1>9, <2>1, SeqMonotonic
  <2>. QED BY <1>1, <2>2 DEF TypeOK, FeedTypeOK
<1>12. TypeOK'
  BY <1>7, <1>11 DEF TypeOK
<1>13. ASSUME NEW d \in Handled' PROVE IsTrue(d)'
  <2>1. CASE d \in Range(queue')
    BY <1>9, <1>10, <2>1
  <2>2. CASE d \in wire \cup Range(map)
    <3>1. d \in Documents /\ IsTrue(d)
      BY <1>1, <2>2, HandledAreDocuments DEF Handled, FeedInv, TypeOK
    <3>2. \A e \in Emitters : onAir[e] <= onAir'[e] /\ measured[e] <= measured'[e]
      BY <1>2, <1>6
    <3>. QED BY <1>1, <1>4, <1>12, <3>1, <3>2, TruthStays
  <2>3. Handled' = Range(queue') \cup wire \cup Range(map)
    BY <1>1 DEF Handled
  <2>. QED BY <2>1, <2>2, <2>3
<1>14. FeedInv'
  <2>1. \A uid \in DOMAIN map' : map'[uid].uid = uid
    BY <1>1 DEF FeedInv
  <2>. QED BY <1>13, <2>1 DEF FeedInv
<1>. QED BY <1>8, <1>12, <1>14 DEF IInv

LEMMA NextIInv == IInv /\ [Next]_vars => IInv'
<1>. SUFFICES ASSUME IInv, [Next]_vars PROVE IInv'
  OBVIOUS
<1>1. ASSUME NEW keyed \in SUBSET Emitters,
             Overflow(keyed) \/ ReadNothing(keyed) \/ WithoutNode(keyed)
      PROVE  IInv'
  BY <1>1, LossKeeps
<1>2. ASSUME NEW keyed \in SUBSET Emitters, NEW tones, NEW calibrated,
             ReadBlock(keyed, tones, calibrated)
      PROVE  IInv'
  BY <1>2, ReadKeeps
<1>3. ASSUME NEW handed \in BOOLEAN, Publish(handed) PROVE IInv'
  BY <1>3, PublishKeeps
<1>4. CASE Stops
  BY <1>4, StopsKeeps
<1>5. ASSUME NEW document \in wire, Lose(document) PROVE IInv'
  BY <1>5, LoseKeeps
<1>6. ASSUME NEW document \in wire, NEW again \in BOOLEAN, Deliver(document, again)
      PROVE  IInv'
  BY <1>6, DeliverKeeps
<1>7. CASE UNCHANGED vars
  <2>1. /\ UNCHANGED <<now, running, sampled, skipped, gaps, open, onAir, measured>>
        /\ UNCHANGED <<queue, sent, published, wire, map>>
    BY <1>7 DEF vars
  <2>2. TypeOK'
    BY <2>1 DEF IInv, TypeOK, ClockTypeOK, FeedTypeOK
  <2>3. ClockInv'
    BY <2>1 DEF IInv, ClockInv
  <2>4. FeedInv'
    BY <2>1 DEF IInv, FeedInv, Handled, IsTrue
  <2>. QED BY <2>2, <2>3, <2>4 DEF IInv
<1>. QED BY <1>1, <1>2, <1>3, <1>4, <1>5, <1>6, <1>7 DEF Next

LEMMA AlwaysIInv == Spec => []IInv
BY InitIInv, NextIInv, PTL DEF Spec

-----------------------------------------------------------------------------
(* The theorems.                                                           *)

(* Every variable keeps its type. *)
THEOREM TypeCorrect == Spec => []TypeOK
<1>1. IInv => TypeOK
  BY DEF IInv
<1>. QED BY <1>1, AlwaysIInv, PTL

(* What the map shows was on the air within the stale time, however many   *)
(* samples were lost before it and however late, often or out of order the *)
(* documents come (stale_after, SoapySource.read, UdpTransport.publish).   *)
THEOREM MapIsTrue == Spec => []MapShowsTheAir
<1>1. IInv => MapShowsTheAir
  <2>. SUFFICES ASSUME IInv, NEW uid \in DOMAIN map, now < map[uid].stale
                PROVE  now - onAir[map[uid].emitter] < StaleS
    BY DEF MapShowsTheAir, Shown
  <2>1. map[uid] \in Documents /\ IsTrue(map[uid])
    BY HandledAreDocuments DEF IInv, TypeOK, FeedTypeOK, FeedInv, Handled, Range
  <2>2. PICK e \in Emitters : e = map[uid].emitter
    BY <2>1 DEF Documents
  <2>3. /\ now \in Nat /\ onAir[e] \in Int /\ StaleS \in Nat
        /\ map[uid].stale \in Int
    BY <2>1, ConstantsAre DEF IInv, TypeOK, ClockTypeOK, Documents
  <2>4. map[uid].stale <= onAir[e] + StaleS
    BY <2>1, <2>2 DEF IsTrue
  <2>5. now - onAir[e] < StaleS
    BY <2>3, <2>4
  <2>. QED BY <2>2, <2>5
<1>. QED BY <1>1, AlwaysIInv, PTL

(* A ring is on the map only within the stale time of an over of that      *)
(* emitter whose power was calibrated (estimate_from_report, events_for).  *)
THEOREM RingsAreTrue == Spec => []RingsAreMeasured
<1>1. IInv => RingsAreMeasured
  <2>. SUFFICES ASSUME IInv, NEW uid \in DOMAIN map, now < map[uid].stale,
                       uid[2] # 0
                PROVE  now - measured[map[uid].emitter] < StaleS
    BY DEF RingsAreMeasured, Shown
  <2>1. map[uid] \in Documents /\ IsTrue(map[uid]) /\ map[uid].uid = uid
    BY HandledAreDocuments DEF IInv, TypeOK, FeedTypeOK, FeedInv, Handled, Range
  <2>2. PICK e \in Emitters : e = map[uid].emitter
    BY <2>1 DEF Documents
  <2>3. /\ now \in Nat /\ measured[e] \in Int /\ StaleS \in Nat
        /\ map[uid].stale \in Int
    BY <2>1, ConstantsAre DEF IInv, TypeOK, ClockTypeOK, Documents
  <2>4. map[uid].stale <= measured[e] + StaleS
    BY <2>1, <2>2 DEF IsTrue
  <2>5. now - measured[e] < StaleS
    BY <2>3, <2>4
  <2>. QED BY <2>2, <2>5
<1>. QED BY <1>1, AlwaysIInv, PTL

(* As long as the source has logged no gap, what is published is dated to  *)
(* when it was heard, less the time that opening the device took           *)
(* (SoapySource.__init__, _record_gap and EsmNode._report_group).          *)
THEOREM StampsAreLogged == Spec => []StampErrorIsLogged
<1>1. IInv => StampErrorIsLogged
  BY DEF IInv, FeedInv, IsTrue, Handled, StampErrorIsLogged
<1>. QED BY <1>1, AlwaysIInv, PTL
=============================================================================
