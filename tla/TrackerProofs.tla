--------------------------- MODULE TrackerProofs ---------------------------
(* Theorems about Tracker, for every set of bins, hangover, cap, block     *)
(* length and number of frames.                                            *)
EXTENDS Tracker, FiniteSetTheorems, WellFoundedInduction, TLAPS

-----------------------------------------------------------------------------
(* Least and greatest elements of sets of naturals, from the library's     *)
(* theorem that < is well-founded on Nat.                                  *)

(* The order of Nat, written as the set of its pairs, is well-founded. *)
LEMMA LessWellFounded ==
  IsWellFoundedOn({p \in Nat \X Nat : p[1] < p[2]}, Nat)
<1>1. OpToRel(<, Nat) = {p \in Nat \X Nat : p[1] < p[2]}
  BY DEF OpToRel
<1> QED
  BY <1>1, NatLessThanWellFounded

(* Every set of naturals that is not empty has a least element. *)
LEMMA LeastExists ==
  ASSUME NEW S, S \subseteq Nat, S # {}
  PROVE  \E m \in S : \A x \in S : m <= x
<1>. DEFINE R == {p \in Nat \X Nat : p[1] < p[2]}
<1>1. IsWellFoundedOn(R, Nat)
  BY LessWellFounded
<1>2. \E m \in S : \A x \in S : ~ (<<x, m>> \in R)
  BY ONLY <1>1, WFMin, S \subseteq Nat, S # {}
<1>3. ASSUME NEW m \in S, NEW x \in S, <<x, m>> \notin R
      PROVE  m <= x
  <2>1. m \in Nat /\ x \in Nat
    OBVIOUS
  <2>2. ~ (x < m)
    BY <1>3, <2>1
  <2>. QED BY <2>1, <2>2
<1>. QED BY <1>2, <1>3

(* Every bounded set of naturals that is not empty has a greatest element. *)
LEMMA GreatestExists ==
  ASSUME NEW S, NEW n \in Nat, S \subseteq 0 .. n, S # {}
  PROVE  \E m \in S : \A x \in S : x <= m
<1>. DEFINE T == {n - x : x \in S}
<1>0. \A x \in S : x \in Nat /\ n - x \in Nat
  OBVIOUS
<1>1. T \subseteq Nat /\ T # {}
  BY <1>0
<1>2. PICK t \in T : \A y \in T : t <= y
  BY <1>1, LeastExists
<1>3. PICK m \in S : t = n - m
  OBVIOUS
<1>4. \A x \in S : x <= m
  <2>1. TAKE x \in S
  <2>2. n - m <= n - x
    BY <1>2, <1>3
  <2>. QED BY <2>2, <1>0
<1>. QED BY <1>4

-----------------------------------------------------------------------------
(* The runs of a block.                                                    *)

(* A bin that was detected in a block has a last run there: _update_bin    *)
(* always finds run_starts and run_ends that are not empty.                *)
LEMMA LastRunExists ==
  ASSUME NEW n \in Nat, NEW hits \in SUBSET (0 .. n - 1), hits # {}
  PROVE  \E r \in Runs(hits) : LastRun(r, hits)
<1>0. Hangover \in Nat /\ hits \subseteq Nat /\ hits \subseteq 0 .. n
  BY TrackerAssumption
<1>1. PICK e \in hits : \A h \in hits : h <= e
  BY <1>0, GreatestExists
<1>2. e \in RunEnds(hits)
  BY <1>0, <1>1 DEF RunEnds
<1>3. PICK f \in hits : \A h \in hits : f <= h
  BY <1>0, LeastExists
<1>4. f \in RunStarts(hits)
  BY <1>0, <1>3 DEF RunStarts
<1>5. RunStarts(hits) \subseteq 0 .. n
  BY <1>0 DEF RunStarts
<1>6. PICK s \in RunStarts(hits) : \A t \in RunStarts(hits) : t <= s
  BY <1>4, <1>5, GreatestExists
<1>7. [start |-> s, end |-> e] \in Runs(hits)
  BY <1>0, <1>1, <1>2, <1>6 DEF Runs, RunStarts
<1>. QED BY <1>1, <1>7 DEF LastRun

(* A run lies in its block, its end not before its start. *)
LEMMA RunInBlock ==
  ASSUME NEW n \in Nat, NEW hits \in SUBSET (0 .. n - 1), NEW r \in Runs(hits)
  PROVE  /\ r.start \in hits /\ r.end \in hits
         /\ r.start \in Nat /\ r.end \in Nat
         /\ r.start <= r.end /\ r.end <= n - 1
<1>1. hits \subseteq Nat /\ \A h \in hits : h <= n - 1
  OBVIOUS
<1>2. /\ r \in [start : RunStarts(hits), end : RunEnds(hits)]
      /\ r.start <= r.end
  BY DEF Runs
<1>3. r.start \in hits /\ r.end \in hits
  BY <1>2 DEF RunStarts, RunEnds
<1>. QED BY <1>1, <1>2, <1>3

-----------------------------------------------------------------------------
(* The type of what one step makes.                                        *)

(* The emission a run is accumulated into has the type of an open one. *)
LEMMA GrownType ==
  ASSUME TypeOK, NEW b \in Bins, NEW n \in Nat,
         NEW hits \in SUBSET (0 .. n - 1), NEW r \in Runs(hits)
  PROVE  Grown(b, r, hits) \in OpenEmission
<1>1. /\ r.start \in Nat /\ r.end \in Nat /\ r.start <= r.end
      /\ frameOffset \in Nat
  BY RunInBlock DEF TypeOK
<1>2. /\ Base(b, r, hits) \in OpenEmission \cup {NotOpen}
  BY DEF TypeOK, Base
<1>3. frameOffset + r.start .. frameOffset + r.end \subseteq Nat
  BY <1>1
<1>. DEFINE base == Base(b, r, hits)
<1>4. base.frames \in Nat /\ base.iq \subseteq Nat
  BY <1>2 DEF OpenEmission, NotOpen
<1>5. base # NotOpen => base.start \in Nat
  BY <1>2 DEF OpenEmission
<1>6. r.end - r.start + 1 \in Nat
  BY <1>1
<1>. QED
  BY <1>1, <1>3, <1>4, <1>5, <1>6 DEF Grown, OpenEmission

(* A silent block that is kept changes neither the last hit nor the count. *)
LEMMA HushedType ==
  ASSUME TypeOK, NEW b \in Bins, NEW n \in Nat, IsOpen(b)
  PROVE  /\ Hushed(b, n) \in OpenEmission
         /\ Hushed(b, n).last = open[b].last
         /\ Hushed(b, n).frames = open[b].frames
<1>1. open[b] \in OpenEmission /\ frameOffset \in Nat
  BY DEF TypeOK, IsOpen
<1>2. frameOffset .. frameOffset + n - 1 \subseteq Nat
  BY <1>1
<1>. QED BY <1>1, <1>2 DEF Hushed, OpenEmission

(* _close makes an emission that was open into one of the type returned. *)
LEMMA EmissionType ==
  ASSUME NEW b \in Bins, NEW o \in OpenEmission
  PROVE  Emission(b, o) \in ClosedEmission
BY DEF Emission, OpenEmission, ClosedEmission

(* All that update returns for a bin has the type of an emission. *)
LEMMA ClosedByType ==
  ASSUME TypeOK, NEW b \in Bins, NEW n \in Nat,
         NEW hits \in SUBSET (0 .. n - 1)
  PROVE  ClosedBy(b, n, hits) \subseteq ClosedEmission
<1>1. Stale(b, n, hits) => Emission(b, open[b]) \in ClosedEmission
  BY EmissionType DEF Stale, IsOpen, TypeOK
<1>2. \A r \in Runs(hits) : Emission(b, Grown(b, r, hits)) \in ClosedEmission
  BY EmissionType, GrownType
<1>. QED BY <1>1, <1>2 DEF ClosedBy

(* What is still open after a block is current, whatever the block was. *)
LEMMA OpenAfterIsCurrent ==
  ASSUME TypeOK, OpenIsCurrent, NEW b \in Bins, NEW n \in Nat,
         NEW hits \in SUBSET (0 .. n - 1)
  PROVE  LET o == OpenAfter(b, n, hits)
         IN  \/ o = NotOpen
             \/ /\ o \in OpenEmission
                /\ frameOffset + n - o.last <= Hangover + 1
                /\ o.frames < MaxFrames
<1>0. Hangover \in Nat /\ MaxFrames \in Nat /\ frameOffset \in Nat
  BY TrackerAssumption DEF TypeOK
<1>1. CASE hits = {}
  <2>1. CASE IsOpen(b) /\ ~Stale(b, n, {})
    <3>1. open[b] \in OpenEmission
      BY <2>1 DEF TypeOK, IsOpen
    <3>2. ~(frameOffset + n - open[b].last > Hangover)
      BY <2>1 DEF Stale
    <3>3. frameOffset + n - open[b].last <= Hangover + 1
      BY <1>0, <3>1, <3>2 DEF OpenEmission
    <3>4. open[b].frames < MaxFrames
      BY <2>1 DEF OpenIsCurrent
    <3>. QED
      BY <1>1, <2>1, <3>3, <3>4, HushedType DEF OpenAfter, OpenAfterSilence
  <2>2. CASE ~(IsOpen(b) /\ ~Stale(b, n, {}))
    BY <1>1, <2>2 DEF OpenAfter, OpenAfterSilence
  <2>. QED BY <2>1, <2>2
<1>2. CASE hits # {}
  <2>. DEFINE r == CHOOSE q \in Runs(hits) : LastRun(q, hits)
  <2>1. r \in Runs(hits) /\ LastRun(r, hits)
    BY <1>2, LastRunExists
  <2>2. OpenAfter(b, n, hits) = IF ClosesAfter(b, r, n, hits)
                                THEN NotOpen ELSE Grown(b, r, hits)
    BY <1>2 DEF OpenAfter, OpenAfterHits
  <2>. HIDE DEF r
  <2>3. CASE ~ClosesAfter(b, r, n, hits)
    <3>1. Grown(b, r, hits) \in OpenEmission
      BY <2>1, GrownType
    <3>2. Grown(b, r, hits).last = frameOffset + r.end
      BY DEF Grown
    <3>3. ~(n - r.end - 1 > Hangover)
      BY <2>3 DEF ClosesAfter, Over, TrailingGap
    <3>4. ~(Grown(b, r, hits).frames >= MaxFrames)
      BY <2>3 DEF ClosesAfter, OverCap
    <3>5. r.end \in Nat
      BY <2>1, RunInBlock
    <3>6. frameOffset + n - Grown(b, r, hits).last <= Hangover + 1
      BY <1>0, <3>2, <3>3, <3>5
    <3>7. Grown(b, r, hits).frames < MaxFrames
      BY <1>0, <3>1, <3>4 DEF OpenEmission
    <3>. QED BY <2>2, <2>3, <3>1, <3>6, <3>7
  <2>4. CASE ClosesAfter(b, r, n, hits)
    BY <2>2, <2>4
  <2>. QED BY <2>3, <2>4
<1>. QED BY <1>1, <1>2

-----------------------------------------------------------------------------
(* Type correctness and currency of what is open are inductive together.   *)
IInv == TypeOK /\ OpenIsCurrent

(* The tracker starts in the invariant. *)
LEMMA InitIInv == Init => IInv
BY DEF Init, IInv, TypeOK, OpenIsCurrent, IsOpen

(* update keeps the invariant, whatever the block and the mask. *)
LEMMA UpdateIInv ==
  ASSUME IInv, NEW n \in Nat,
         NEW mask \in [Bins -> SUBSET (0 .. n - 1)], Update(n, mask)
  PROVE  IInv'
<1>0. n \in Nat /\ clock \in Nat /\ frameOffset \in Nat /\ Hangover \in Nat
  BY TrackerAssumption DEF IInv, TypeOK
<1>1. CASE n = 0
  <2>1. /\ UNCHANGED <<open, frameOffset, heard, closed, cuts>>
        /\ completed' = {} /\ clock' = clock + n
    BY <1>1 DEF Update
  <2>. QED BY <1>0, <2>1 DEF IInv, TypeOK, OpenIsCurrent, IsOpen
<1>2. CASE n # 0
  <2>1. /\ open' = [b \in Bins |-> OpenAfter(b, n, mask[b])]
        /\ completed' = UNION {ClosedBy(b, n, mask[b]) : b \in Bins}
        /\ frameOffset' = frameOffset + n
        /\ heard' = [b \in Bins |->
                       heard[b] \cup {clock + f : f \in mask[b]}]
        /\ closed' = closed \cup completed'
        /\ cuts' = [b \in Bins |-> cuts[b] \cup CapCuts(b, n, mask[b])]
        /\ clock' = clock + n
    BY <1>2 DEF Update
  <2>2. \A b \in Bins : mask[b] \in SUBSET (0 .. n - 1)
    OBVIOUS
  <2>3. \A b \in Bins :
          LET o == OpenAfter(b, n, mask[b])
          IN  \/ o = NotOpen
              \/ /\ o \in OpenEmission
                 /\ frameOffset + n - o.last <= Hangover + 1
                 /\ o.frames < MaxFrames
    BY <1>0, <2>2, OpenAfterIsCurrent DEF IInv
  <2>4. open' \in [Bins -> OpenEmission \cup {NotOpen}]
    BY <2>1, <2>3
  <2>5. closed' \subseteq ClosedEmission
    BY <1>0, <2>1, <2>2, ClosedByType DEF IInv, TypeOK
  <2>6. heard' \in [Bins -> SUBSET Nat]
    <3>1. \A b \in Bins : {clock + f : f \in mask[b]} \subseteq Nat
      BY <1>0, <2>2
    <3>. QED BY <2>1, <3>1 DEF IInv, TypeOK
  <2>7. cuts' \in [Bins -> SUBSET Nat]
    <3>1. ASSUME NEW b \in Bins
          PROVE  CapCuts(b, n, mask[b]) \subseteq Nat
      BY <1>0, <2>2, RunInBlock DEF CapCuts
    <3>. QED BY <2>1, <3>1 DEF IInv, TypeOK
  <2>8. OpenIsCurrent'
    <3>1. ASSUME NEW b \in Bins, open'[b] # NotOpen
          PROVE  /\ frameOffset + n - open'[b].last <= Hangover + 1
                 /\ open'[b].frames < MaxFrames
      BY <2>1, <2>3, <3>1
    <3>2. frameOffset' = frameOffset + n
      BY <2>1
    <3>3. ASSUME NEW b \in Bins, open'[b] # NotOpen
          PROVE  frameOffset' - open'[b].last <= Hangover + 1
      <4>1. open'[b] \in OpenEmission
        BY <2>4, <3>3
      <4>2. open'[b].last \in Nat
        BY <4>1 DEF OpenEmission
      <4>. QED BY <1>0, <3>1, <3>2, <3>3, <4>2
    <3>. QED BY <3>1, <3>3 DEF OpenIsCurrent, IsOpen
  <2>. QED BY <1>0, <2>1, <2>4, <2>5, <2>6, <2>7, <2>8 DEF IInv, TypeOK
<1>. QED BY <1>1, <1>2

(* flush keeps the invariant. *)
LEMMA FlushIInv ==
  ASSUME IInv, Flush
  PROVE  IInv'
<1>1. completed' \subseteq ClosedEmission
  BY EmissionType DEF Flush, IInv, TypeOK, IsOpen
<1>2. cuts' \in [Bins -> SUBSET Nat]
  BY DEF Flush, IInv, TypeOK
<1>3. open' = [b \in Bins |-> NotOpen]
  BY DEF Flush
<1>4. TypeOK'
  BY <1>1, <1>2, <1>3 DEF Flush, IInv, TypeOK
<1>5. OpenIsCurrent'
  BY <1>3 DEF OpenIsCurrent, IsOpen
<1>. QED BY <1>4, <1>5 DEF IInv

(* Every step of the tracker keeps the invariant. *)
LEMMA NextIInv == IInv /\ [Next]_trackerVars => IInv'
<1>. SUFFICES ASSUME IInv, [Next]_trackerVars PROVE IInv'
  OBVIOUS
<1>1. CASE \E n \in BlockSizes : \E mask \in [Bins -> SUBSET (0 .. n - 1)] :
             Update(n, mask)
  BY <1>1, UpdateIInv, TrackerAssumption
<1>2. CASE Flush
  BY <1>2, FlushIInv
<1>3. CASE UNCHANGED trackerVars
  BY <1>3 DEF IInv, TypeOK, OpenIsCurrent, IsOpen, trackerVars
<1>. QED BY <1>1, <1>2, <1>3 DEF Next

(* The state of the tracker always has its type. *)
THEOREM TypeCorrect == Spec => []TypeOK
<1>1. IInv => TypeOK
  BY DEF IInv
<1>. QED BY <1>1, InitIInv, NextIInv, PTL DEF Spec

(* No emission is held open past its hangover or past the cap, however the *)
(* stream is cut in blocks.                                                *)
THEOREM AlwaysCurrent == Spec => []OpenIsCurrent
<1>1. IInv => OpenIsCurrent
  BY DEF IInv
<1>. QED BY <1>1, InitIInv, NextIInv, PTL DEF Spec

-----------------------------------------------------------------------------
(* Bursts, of any detections hd and cuts cs.                               *)

LinkedIn(cs, f, g) ==
    /\ f < g
    /\ g - f <= Hangover
    /\ \A c \in cs : c <= f \/ c > g

IsBurst(hd, cs, s, e) ==
    /\ s \in hd /\ e \in hd /\ s <= e
    /\ \A f \in hd : ~LinkedIn(cs, f, s)
    /\ \A f \in hd : ~LinkedIn(cs, e, f)
    /\ \A g \in hd : s < g /\ g <= e => \E f \in hd : LinkedIn(cs, f, g)

(* A burst of the promise is one of these. *)
LEMMA BurstsAreThese ==
  ASSUME NEW b
  PROVE  /\ \A s, e : [start |-> s, end |-> e] \in Promise!Bursts(b) <=>
                         IsBurst(heard[b], cuts[b], s, e)
         /\ \A x \in Promise!Bursts(b) : x = [start |-> x.start, end |-> x.end]
BY DEF Promise!Bursts, Promise!Linked, IsBurst, LinkedIn

(* A chain does not leave a burst: what is linked to a frame of it is in   *)
(* it, so of two bursts with a common start neither is longer.             *)
LEMMA BurstsEndTogether ==
  ASSUME NEW hd, hd \subseteq Nat, NEW cs, cs \subseteq Nat,
         NEW s \in hd, NEW d \in hd, NEW e \in hd,
         IsBurst(hd, cs, s, d), IsBurst(hd, cs, s, e)
  PROVE  ~(d < e)
<1>. SUFFICES ASSUME d < e PROVE FALSE
  OBVIOUS
<1>0. Hangover \in Nat /\ s \in Nat /\ d \in Nat /\ e \in Nat
  BY TrackerAssumption
<1>. DEFINE later == {g \in hd : d < g}
<1>1. PICK g \in later : \A h \in later : g <= h
  <2>1. later \subseteq Nat /\ e \in later
    OBVIOUS
  <2>. HIDE DEF later
  <2>. QED BY <2>1, LeastExists
<1>2. g \in hd /\ g \in Nat /\ d < g /\ g <= e /\ s < g
  <2>1. s <= d
    BY DEF IsBurst
  <2>. QED BY <1>0, <1>1, <2>1
<1>3. PICK f \in hd : LinkedIn(cs, f, g)
  BY <1>2 DEF IsBurst
<1>4. f \in Nat /\ f < g /\ g - f <= Hangover /\ \A c \in cs : c <= f \/ c > g
  BY <1>3 DEF LinkedIn
<1>5. f <= d
  BY <1>0, <1>1, <1>2, <1>4
<1>6. LinkedIn(cs, d, g)
  BY <1>0, <1>2, <1>4, <1>5 DEF LinkedIn
<1>. QED BY <1>2, <1>6 DEF IsBurst

(* Two bursts with a frame in common are one. *)
LEMMA BurstsAreDisjoint ==
  ASSUME NEW hd, hd \subseteq Nat, NEW cs, cs \subseteq Nat,
         NEW s, NEW e, IsBurst(hd, cs, s, e),
         NEW t, NEW d, IsBurst(hd, cs, t, d),
         s <= t, t <= e
  PROVE  s = t /\ e = d
<1>0. s \in Nat /\ e \in Nat /\ t \in Nat /\ d \in Nat
  BY DEF IsBurst
<1>1. s = t
  BY <1>0 DEF IsBurst
<1>2. ~(e < d) /\ ~(d < e)
  <2>1. s \in hd /\ e \in hd /\ d \in hd
    BY DEF IsBurst
  <2>. QED BY <1>1, <2>1, BurstsEndTogether
<1>. QED BY <1>0, <1>1, <1>2

-----------------------------------------------------------------------------
(* More of the runs of a block.                                            *)

(* Every hit is in a run. *)
LEMMA RunCovers ==
  ASSUME NEW n \in Nat, NEW hits \in SUBSET (0 .. n - 1), NEW h \in hits
  PROVE  \E r \in Runs(hits) : r.start <= h /\ h <= r.end
<1>0. Hangover \in Nat /\ hits \subseteq Nat /\ hits \subseteq 0 .. n /\ h \in Nat
  BY TrackerAssumption
<1>. DEFINE before == {s \in RunStarts(hits) : s <= h}
            after  == {e \in RunEnds(hits) : h <= e}
<1>1. PICK s \in before : \A t \in before : t <= s
  <2>1. PICK m \in hits : \A x \in hits : m <= x
    BY <1>0, LeastExists
  <2>2. m \in before
    BY <1>0, <2>1 DEF RunStarts
  <2>3. before \subseteq 0 .. n
    BY <1>0 DEF RunStarts
  <2>. HIDE DEF before
  <2>. QED BY <2>2, <2>3, GreatestExists
<1>2. PICK e \in after : \A t \in after : e <= t
  <2>1. PICK m \in hits : \A x \in hits : x <= m
    BY <1>0, GreatestExists
  <2>2. m \in after
    BY <1>0, <2>1 DEF RunEnds
  <2>3. after \subseteq Nat
    BY <1>0 DEF RunEnds
  <2>. HIDE DEF after
  <2>. QED BY <2>2, <2>3, LeastExists
<1>3. /\ s \in RunStarts(hits) /\ e \in RunEnds(hits) /\ s <= h /\ h <= e
      /\ s \in hits /\ e \in hits
  BY <1>1, <1>2 DEF RunStarts, RunEnds
<1>4. ASSUME NEW t \in RunStarts(hits), ~(t <= s), ~(t > e)
      PROVE  FALSE
  <2>0. t \in hits /\ t \in Nat /\ s \in Nat /\ e \in Nat /\ s < t /\ t <= e
    BY <1>0, <1>3, <1>4 DEF RunStarts
  <2>1. h < t
    BY <1>0, <1>1, <1>4, <2>0
  <2>. DEFINE earlier == {x \in hits : x < t}
  <2>2. PICK q \in earlier : \A x \in earlier : x <= q
    <3>1. h \in earlier /\ earlier \subseteq 0 .. n
      BY <1>0, <2>1
    <3>. HIDE DEF earlier
    <3>. QED BY <3>1, GreatestExists
  <2>3. q \in hits /\ q \in Nat /\ q < t /\ h <= q
    BY <1>0, <2>1, <2>2
  <2>4. t - q > Hangover
    BY <1>4, <2>3 DEF RunStarts
  <2>5. ASSUME NEW x \in hits, x > q
        PROVE  x - q > Hangover
    <3>1. x \in Nat /\ x >= t
      BY <1>0, <2>0, <2>2, <2>3, <2>5
    <3>. QED BY <1>0, <2>0, <2>3, <2>4, <3>1
  <2>6. q \in after
    BY <2>3, <2>5 DEF RunEnds
  <2>7. e <= q
    BY <1>2, <2>6
  <2>. QED BY <2>0, <2>3, <2>7
<1>5. [start |-> s, end |-> e] \in Runs(hits)
  <2>1. s \in Nat /\ e \in Nat /\ s <= e
    BY <1>0, <1>3
  <2>. QED BY <1>3, <1>4, <2>1 DEF Runs
<1>. QED BY <1>3, <1>5

(* What a run is: its ends are far from other hits, and every other hit in *)
(* it is near an earlier one.                                              *)
LEMMA RunIsChain ==
  ASSUME NEW n \in Nat, NEW hits \in SUBSET (0 .. n - 1), NEW r \in Runs(hits)
  PROVE  /\ \A h \in hits : h < r.start => r.start - h > Hangover
         /\ \A h \in hits : h > r.end => h - r.end > Hangover
         /\ \A h \in hits : r.start < h /\ h <= r.end =>
                \E g \in hits : g < h /\ h - g <= Hangover
<1>0. Hangover \in Nat /\ hits \subseteq Nat
  BY TrackerAssumption
<1>1. /\ r.start \in RunStarts(hits) /\ r.end \in RunEnds(hits)
      /\ \A s \in RunStarts(hits) : s <= r.start \/ s > r.end
  BY DEF Runs
<1>2. r.start \in Nat /\ r.end \in Nat
  BY RunInBlock
<1>3. ASSUME NEW h \in hits, r.start < h, h <= r.end
      PROVE  \E g \in hits : g < h /\ h - g <= Hangover
  <2>1. h \notin RunStarts(hits)
    BY <1>0, <1>1, <1>2, <1>3
  <2>2. PICK g \in hits : g < h /\ ~(h - g > Hangover)
    BY <2>1 DEF RunStarts
  <2>. QED BY <1>0, <2>2
<1>. QED BY <1>1, <1>3 DEF RunStarts, RunEnds

(* Two runs that end together are one. *)
LEMMA RunsEndApart ==
  ASSUME NEW n \in Nat, NEW hits \in SUBSET (0 .. n - 1),
         NEW q \in Runs(hits), NEW r \in Runs(hits), q.end = r.end
  PROVE  q = r
<1>1. /\ q \in [start : RunStarts(hits), end : RunEnds(hits)]
      /\ r \in [start : RunStarts(hits), end : RunEnds(hits)]
      /\ \A s \in RunStarts(hits) : s <= r.start \/ s > r.end
      /\ \A s \in RunStarts(hits) : s <= q.start \/ s > q.end
  BY DEF Runs
<1>2. /\ r.start \in Nat /\ r.end \in Nat /\ r.start <= r.end
      /\ q.start \in Nat /\ q.end \in Nat /\ q.start <= q.end
  BY RunInBlock
<1>3. q.start = r.start
  BY <1>1, <1>2
<1>. QED BY <1>1, <1>3

-----------------------------------------------------------------------------
(* The invariant of the stream, bin by bin.  The emissions of a bin, the   *)
(* closed and the open one, are bursts of what was heard so far, and every *)
(* detection lies in one of them; what is closed is over, so that nothing  *)
(* still to come is linked to it; and nothing was heard, or cut, after the *)
(* end of what is open, so that all that is still to come may be.          *)

(* The detections and the cuts of a bin lie in the past. *)
PastInv(b) ==
    /\ \A f \in heard[b] : f < clock
    /\ \A c \in cuts[b] : c <= clock

OverAt(cs, now, e) ==
    now - e > Hangover \/ \E c \in cs : e < c /\ c <= now

(* The baseband of an emission that spans s .. e, and its count. *)
WholeIn(hd, s, e, frames, iq) ==
    /\ hd \cap (s .. e) \subseteq iq
    /\ iq \subseteq s .. e + SilencePerFrame - 1
    /\ Cardinality(hd \cap (s .. e)) <= frames
    /\ frames <= e - s + 1

OpenIn(hd, cs, o) ==
    /\ \A f \in hd : f <= o.last
    /\ \A c \in cs : c <= o.last
    /\ IsBurst(hd, cs, o.start, o.last)
    /\ WholeIn(hd, o.start, o.last, o.frames, o.iq)
    /\ o.last - o.start <= (o.frames - 1) * SilencePerFrame

OpenInv(b) == IsOpen(b) => OpenIn(heard[b], cuts[b], open[b])

ClosedIn(hd, cs, now, e) ==
    /\ IsBurst(hd, cs, e.start, e.end)
    /\ OverAt(cs, now, e.end)
    /\ WholeIn(hd, e.start, e.end, e.detectedFrames, e.iq)

ClosedInv(b) ==
    \A e \in closed : e.bin = b => ClosedIn(heard[b], cuts[b], clock, e)

CoverInv(b) ==
    \A f \in heard[b] :
        \/ IsOpen(b) /\ open[b].start <= f /\ f <= open[b].last
        \/ \E e \in closed : e.bin = b /\ e.start <= f /\ f <= e.end

StreamInv ==
    /\ frameOffset = clock
    /\ \A b \in Bins : PastInv(b) /\ OpenInv(b) /\ ClosedInv(b) /\ CoverInv(b)
-----------------------------------------------------------------------------
(* What a block with hits leaves heard and cut.                            *)

HeardAfter(b, hits) == heard[b] \cup {clock + f : f \in hits}
CutsAfter(b, n, hits) == cuts[b] \cup CapCuts(b, n, hits)

(* A block adds to what was heard from the clock on, and to the cuts       *)
(* behind every hit, and at most at the end of the block.                  *)
LEMMA AddedByBlock ==
  ASSUME TypeOK, StreamInv, NEW b \in Bins, NEW n \in Nat,
         NEW hits \in SUBSET (0 .. n - 1)
  PROVE  /\ heard[b] \subseteq HeardAfter(b, hits)
         /\ cuts[b] \subseteq CutsAfter(b, n, hits)
         /\ HeardAfter(b, hits) \subseteq Nat /\ CutsAfter(b, n, hits) \subseteq Nat
         /\ \A f \in HeardAfter(b, hits) :
                \/ f \in heard[b] /\ f < clock
                \/ f >= clock /\ f < clock + n /\ f - clock \in hits
         /\ \A c \in CutsAfter(b, n, hits) :
                \/ c \in cuts[b] /\ c <= clock
                \/ /\ c > clock /\ c <= clock + n
                   /\ \A h \in hits : c > clock + h
<1>0. /\ clock \in Nat /\ frameOffset = clock
      /\ heard[b] \subseteq Nat /\ cuts[b] \subseteq Nat /\ PastInv(b)
      /\ \A h \in hits : h \in Nat /\ h < n
  BY DEF TypeOK, StreamInv
<1>1. ASSUME NEW c \in CapCuts(b, n, hits)
      PROVE  /\ c \in Nat /\ c > clock /\ c <= clock + n
             /\ \A h \in hits : c > clock + h
  <2>1. PICK r \in Runs(hits) : c = clock + r.end + 1 /\ ~Over(r, n, hits)
    BY <1>0 DEF CapCuts
  <2>2. r.end \in Nat /\ r.end <= n - 1
    BY RunInBlock
  <2>3. \A h \in hits : h <= r.end
    BY <2>1 DEF Over, LastRun
  <2>. QED BY <1>0, <2>1, <2>2, <2>3
<1>2. ASSUME NEW f \in HeardAfter(b, hits), f \notin heard[b]
      PROVE  f \in Nat /\ f >= clock /\ f < clock + n /\ f - clock \in hits
  <2>1. PICK h \in hits : f = clock + h
    BY <1>2 DEF HeardAfter
  <2>2. h \in Nat /\ h < n /\ f - clock = h
    BY <1>0, <2>1
  <2>. QED BY <1>0, <2>1, <2>2
<1>3. heard[b] \subseteq HeardAfter(b, hits) /\ cuts[b] \subseteq CutsAfter(b, n, hits)
  BY DEF HeardAfter, CutsAfter
<1>4. \A f \in heard[b] : f < clock
  BY <1>0 DEF PastInv
<1>5. \A c \in cuts[b] : c <= clock
  BY <1>0 DEF PastInv
<1>6. \A c \in CutsAfter(b, n, hits) : c \in cuts[b] \/ c \in CapCuts(b, n, hits)
  BY DEF CutsAfter
<1>7. HeardAfter(b, hits) \subseteq Nat
  BY <1>0, <1>2
<1>8. CutsAfter(b, n, hits) \subseteq Nat
  BY <1>0, <1>1, <1>6
<1>. QED BY <1>1, <1>2, <1>3, <1>4, <1>5, <1>6, <1>7, <1>8

(* A burst to which nothing new is linked stays a burst when more is heard *)
(* and cut after it.                                                       *)
LEMMA BurstsStay ==
  ASSUME NEW hd, hd \subseteq Nat, NEW cs, cs \subseteq Nat,
         NEW hd2, hd \subseteq hd2, hd2 \subseteq Nat,
         NEW cs2, cs \subseteq cs2, cs2 \subseteq Nat,
         NEW now \in Nat, NEW s, NEW e, IsBurst(hd, cs, s, e),
         \A f \in hd : f < now,
         \A f \in hd2 : f \in hd \/ f >= now,
         \A c \in cs2 : c \in cs \/ c >= now,
         \A f \in hd2 : f >= now => ~LinkedIn(cs2, e, f)
  PROVE  IsBurst(hd2, cs2, s, e)
<1>0. /\ s \in hd /\ e \in hd /\ s \in Nat /\ e \in Nat /\ s <= e
      /\ s < now /\ e < now
  BY DEF IsBurst
<1>1. ASSUME NEW f \in hd2, LinkedIn(cs2, f, s)
      PROVE  FALSE
  <2>1. f \in Nat /\ f < s
    BY <1>1 DEF LinkedIn
  <2>2. f \in hd
    BY <1>0, <2>1
  <2>3. LinkedIn(cs, f, s)
    BY <1>1 DEF LinkedIn
  <2>. QED BY <2>2, <2>3 DEF IsBurst
<1>2. ASSUME NEW f \in hd2, LinkedIn(cs2, e, f)
      PROVE  FALSE
  <2>1. f \in hd
    BY <1>2
  <2>2. LinkedIn(cs, e, f)
    BY <1>2 DEF LinkedIn
  <2>. QED BY <2>1, <2>2 DEF IsBurst
<1>3. ASSUME NEW g \in hd2, s < g, g <= e
      PROVE  \E f \in hd2 : LinkedIn(cs2, f, g)
  <2>1. g \in Nat /\ g < now
    BY <1>0, <1>3
  <2>2. g \in hd
    BY <2>1
  <2>3. PICK f \in hd : LinkedIn(cs, f, g)
    BY <1>3, <2>2 DEF IsBurst
  <2>4. f \in Nat /\ f < g /\ g - f <= Hangover /\ \A c \in cs : c <= f \/ c > g
    BY <2>3 DEF LinkedIn
  <2>5. \A c \in cs2 : c <= f \/ c > g
    <3>1. TAKE c \in cs2
    <3>2. CASE c \in cs
      BY <2>4, <3>2
    <3>3. CASE c >= now
      <4>1. c \in Nat
        OBVIOUS
      <4>. QED BY <2>1, <3>3, <4>1
    <3>. QED BY <3>2, <3>3
  <2>. QED BY <2>4, <2>5 DEF LinkedIn
<1>. QED BY <1>0, <1>1, <1>2, <1>3 DEF IsBurst

(* Nothing that is still to come is linked to the end of what is over.     *)
LEMMA OverIsOver ==
  ASSUME NEW cs, cs \subseteq Nat, NEW cs2, cs \subseteq cs2,
         NEW now \in Nat, NEW e \in Nat, OverAt(cs, now, e),
         NEW f \in Nat, f >= now
  PROVE  ~LinkedIn(cs2, e, f)
<1>0. Hangover \in Nat
  BY TrackerAssumption
<1>1. CASE now - e > Hangover
  BY <1>0, <1>1 DEF LinkedIn
<1>2. CASE \E c \in cs : e < c /\ c <= now
  <2>1. PICK c \in cs : e < c /\ c <= now
    BY <1>2
  <2>2. c \in Nat /\ c \in cs2 /\ ~(c <= e) /\ ~(c > f)
    BY <2>1
  <2>. QED BY <2>2 DEF LinkedIn
<1>. QED BY <1>1, <1>2 DEF OverAt

(* What is over stays over. *)
LEMMA OverStays ==
  ASSUME NEW cs, cs \subseteq Nat, NEW cs2, cs \subseteq cs2,
         NEW now \in Nat, NEW now2 \in Nat, now <= now2,
         NEW e \in Nat, OverAt(cs, now, e)
  PROVE  OverAt(cs2, now2, e)
<1>0. Hangover \in Nat
  BY TrackerAssumption
<1>1. CASE now - e > Hangover
  BY <1>0, <1>1 DEF OverAt
<1>2. CASE \E c \in cs : e < c /\ c <= now
  <2>1. PICK c \in cs : e < c /\ c <= now
    BY <1>2
  <2>2. c \in Nat /\ c \in cs2 /\ e < c /\ c <= now2
    BY <2>1
  <2>. QED BY <2>2 DEF OverAt
<1>. QED BY <1>1, <1>2 DEF OverAt
-----------------------------------------------------------------------------
(* The emission that a run is accumulated into.                            *)

(* Field by field, with and without an open emission that the run joins.   *)
LEMMA GrownIs ==
  ASSUME TypeOK, frameOffset = clock, NEW b, NEW hits, NEW r,
         r.start \in Nat, r.end \in Nat
  PROVE  /\ Grown(b, r, hits).last = clock + r.end
         /\ Joins(b, r, hits) =>
              /\ Grown(b, r, hits).start = open[b].start
              /\ Grown(b, r, hits).frames
                   = open[b].frames + (r.end - r.start + 1)
              /\ Grown(b, r, hits).iq
                   = open[b].iq \cup (clock + r.start .. clock + r.end)
         /\ ~Joins(b, r, hits) =>
              /\ Grown(b, r, hits).start = clock + r.start
              /\ Grown(b, r, hits).frames = r.end - r.start + 1
              /\ Grown(b, r, hits).iq = clock + r.start .. clock + r.end
<1>0. clock \in Nat
  BY DEF TypeOK
<1>1. CASE Joins(b, r, hits)
  BY <1>0, <1>1 DEF Grown, Base, Joins, IsOpen
<1>2. CASE ~Joins(b, r, hits)
  BY <1>0, <1>2 DEF Grown, Base, NotOpen
<1>. QED BY <1>1, <1>2

(* A run joins the open emission exactly if one of its hits is linked to   *)
(* the last one: a run that does not join is linked to nothing before it.  *)
LEMMA NothingBefore ==
  ASSUME TypeOK, StreamInv, NEW b \in Bins, NEW n \in Nat,
         NEW hits \in SUBSET (0 .. n - 1), NEW r \in Runs(hits),
         ~Joins(b, r, hits), NEW f \in HeardAfter(b, hits)
  PROVE  ~LinkedIn(CutsAfter(b, n, hits), f, clock + r.start)
<1>. DEFINE cs2 == CutsAfter(b, n, hits)
<1>0. /\ Hangover \in Nat /\ clock \in Nat /\ frameOffset = clock
      /\ heard[b] \subseteq Nat /\ cuts[b] \subseteq Nat
      /\ r.start \in hits /\ r.start \in Nat
      /\ OpenInv(b) /\ ClosedInv(b) /\ CoverInv(b)
      /\ closed \subseteq ClosedEmission
  BY TrackerAssumption, RunInBlock DEF TypeOK, StreamInv
<1>1. /\ cuts[b] \subseteq cs2
      /\ \/ f \in heard[b] /\ f < clock
         \/ f >= clock /\ f - clock \in hits
      /\ f \in Nat
  BY AddedByBlock
<1>. HIDE DEF cs2
<1>. SUFFICES ASSUME LinkedIn(cs2, f, clock + r.start) PROVE FALSE
  BY DEF cs2
<1>2. /\ f < clock + r.start /\ (clock + r.start) - f <= Hangover
      /\ \A c \in cs2 : c <= f \/ c > clock + r.start
  BY DEF LinkedIn
<1>3. CASE f >= clock /\ f - clock \in hits
  <2>1. f - clock < r.start
    BY <1>0, <1>1, <1>2
  <2>2. r.start - (f - clock) > Hangover
    BY <1>3, <2>1, RunIsChain
  <2>. QED BY <1>0, <1>1, <1>2, <2>2
<1>4. CASE f \in heard[b] /\ f < clock
  <2>1. CASE IsOpen(b) /\ f <= open[b].last
    <3>1. open[b] \in OpenEmission
      BY <2>1 DEF TypeOK, IsOpen
    <3>2. open[b].last \in Nat /\ open[b].last < clock
      <4>1. open[b].last \in heard[b]
        BY <1>0, <2>1 DEF OpenInv, OpenIn, IsBurst
      <4>. QED BY <1>0, <4>1 DEF StreamInv, PastInv
    <3>3. CASE FirstRun(r, hits)
      <4>1. ~(clock + r.start - open[b].last <= Hangover)
        BY <1>0, <2>1, <3>3 DEF Joins
      <4>. QED BY <1>0, <1>1, <1>2, <2>1, <3>2, <4>1
    <3>4. CASE ~FirstRun(r, hits)
      <4>1. PICK h \in hits : ~(r.start <= h)
        BY <3>4 DEF FirstRun
      <4>2. h \in Nat /\ h < r.start
        BY <1>0, <4>1
      <4>3. r.start - h > Hangover
        BY <4>2, RunIsChain
      <4>. QED BY <1>0, <1>1, <1>2, <1>4, <4>2, <4>3
    <3>. QED BY <3>3, <3>4
  <2>2. CASE \E e \in closed : e.bin = b /\ e.start <= f /\ f <= e.end
    <3>1. PICK e \in closed : e.bin = b /\ e.start <= f /\ f <= e.end
      BY <2>2
    <3>2. e.end \in Nat
      BY <1>0 DEF ClosedEmission
    <3>3. OverAt(cuts[b], clock, e.end)
      BY <1>0, <3>1 DEF ClosedInv, ClosedIn
    <3>4. ~LinkedIn(cs2, e.end, clock + r.start)
      BY <1>0, <1>1, <3>2, <3>3, OverIsOver
    <3>5. e.end < clock
      <4>1. e.end \in heard[b]
        BY <1>0, <3>1 DEF ClosedInv, ClosedIn, IsBurst
      <4>. QED BY <4>1 DEF StreamInv, PastInv
    <3>6. (clock + r.start) - e.end <= Hangover
      BY <1>0, <1>1, <1>2, <3>1, <3>2
    <3>7. \A c \in cs2 : c <= e.end \/ c > clock + r.start
      <4>1. TAKE c \in cs2
      <4>2. c \in Nat
        BY AddedByBlock DEF cs2
      <4>. QED BY <1>1, <1>2, <3>1, <3>2, <4>2
    <3>8. e.end < clock + r.start
      BY <1>0, <3>2, <3>5
    <3>. QED BY <3>4, <3>6, <3>7, <3>8 DEF LinkedIn
  <2>3. \/ IsOpen(b) /\ open[b].start <= f /\ f <= open[b].last
        \/ \E e \in closed : e.bin = b /\ e.start <= f /\ f <= e.end
    BY <1>0, <1>4 DEF CoverInv
  <2>. QED BY <2>1, <2>2, <2>3
<1>. QED BY <1>1, <1>3, <1>4

(* Accumulating a run makes a burst of what is heard by the end of the     *)
(* block: nothing is lost or split at the boundary, and nothing merged.    *)
LEMMA GrownIsBurst ==
  ASSUME TypeOK, StreamInv, NEW b \in Bins, NEW n \in Nat,
         NEW hits \in SUBSET (0 .. n - 1), NEW r \in Runs(hits)
  PROVE  LET g == Grown(b, r, hits)
         IN  IsBurst(HeardAfter(b, hits), CutsAfter(b, n, hits),
                     g.start, g.last)
<1>. DEFINE hd2 == HeardAfter(b, hits)
            cs2 == CutsAfter(b, n, hits)
            s   == Grown(b, r, hits).start
            e   == clock + r.end
<1>0. /\ Hangover \in Nat /\ clock \in Nat /\ frameOffset = clock
      /\ heard[b] \subseteq Nat /\ cuts[b] \subseteq Nat
      /\ r.start \in hits /\ r.start \in Nat
      /\ r.end \in hits /\ r.end \in Nat /\ r.start <= r.end
      /\ OpenInv(b)
  BY TrackerAssumption, RunInBlock DEF TypeOK, StreamInv
<1>1. /\ heard[b] \subseteq hd2 /\ hd2 \subseteq Nat /\ cs2 \subseteq Nat
      /\ \A f \in hd2 : \/ f \in heard[b] /\ f < clock
                        \/ f >= clock /\ f - clock \in hits
      /\ \A c \in cs2 : \/ c \in cuts[b] /\ c <= clock
                        \/ c > clock /\ \A h \in hits : c > clock + h
  BY AddedByBlock
<1>2. \A h \in hits : clock + h \in hd2
  BY DEF HeardAfter
<1>3. Grown(b, r, hits).last = e
  BY <1>0, GrownIs
<1>4. /\ ~Joins(b, r, hits) => s = clock + r.start
      /\ Joins(b, r, hits) => s = open[b].start
  BY <1>0, GrownIs
<1>5. ASSUME Joins(b, r, hits)
      PROVE  /\ IsBurst(heard[b], cuts[b], open[b].start, open[b].last)
             /\ open[b].start \in heard[b] /\ open[b].last \in heard[b]
             /\ open[b].start < clock /\ open[b].last < clock
             /\ clock + r.start - open[b].last <= Hangover
             /\ \A c \in cuts[b] : c <= open[b].last
             /\ \A f \in heard[b] : f <= open[b].last
             /\ \A h \in hits : r.start <= h
  <2>1. IsOpen(b) /\ FirstRun(r, hits)
        /\ clock + r.start - open[b].last <= Hangover
    BY <1>0, <1>5 DEF Joins
  <2>2. OpenIn(heard[b], cuts[b], open[b])
    BY <1>0, <2>1 DEF OpenInv
  <2>3. IsBurst(heard[b], cuts[b], open[b].start, open[b].last)
    BY <2>2 DEF OpenIn
  <2>4. open[b].start \in heard[b] /\ open[b].last \in heard[b]
    BY <2>3 DEF IsBurst
  <2>5. open[b].start < clock /\ open[b].last < clock
    BY <2>4 DEF StreamInv, PastInv
  <2>. QED BY <2>1, <2>2, <2>3, <2>4, <2>5 DEF OpenIn, FirstRun
<1>6. \A f \in hd2 : ~Joins(b, r, hits) => ~LinkedIn(cs2, f, clock + r.start)
  BY NothingBefore
<1>. HIDE DEF hd2, cs2, s
<1>7. s \in hd2 /\ e \in hd2 /\ s \in Nat /\ e \in Nat /\ s <= e
  BY <1>0, <1>1, <1>2, <1>4, <1>5
<1>8. ASSUME NEW f \in hd2, LinkedIn(cs2, f, s)
      PROVE  FALSE
  <2>1. CASE ~Joins(b, r, hits)
    BY <1>4, <1>6, <1>8, <2>1
  <2>2. CASE Joins(b, r, hits)
    <3>1. f < open[b].start /\ s = open[b].start
      BY <1>4, <1>8, <2>2 DEF LinkedIn
    <3>2. f \in heard[b]
      <4>1. f \in Nat /\ open[b].start \in Nat /\ open[b].start < clock
        BY <1>0, <1>1, <1>5, <2>2
      <4>. QED BY <1>0, <1>1, <3>1, <4>1
    <3>3. LinkedIn(cuts[b], f, open[b].start)
      <4>1. cuts[b] \subseteq cs2
        BY AddedByBlock DEF cs2
      <4>. QED BY <1>8, <3>1, <4>1 DEF LinkedIn
    <3>. QED BY <1>5, <2>2, <3>2, <3>3 DEF IsBurst
  <2>. QED BY <2>1, <2>2
<1>9. ASSUME NEW f \in hd2, LinkedIn(cs2, e, f)
      PROVE  FALSE
  <2>1. e < f /\ f - e <= Hangover /\ f \in Nat
    BY <1>1, <1>9 DEF LinkedIn
  <2>2. f - clock \in hits /\ f - clock > r.end
    BY <1>0, <1>1, <2>1
  <2>3. (f - clock) - r.end > Hangover
    BY <2>2, RunIsChain
  <2>. QED BY <1>0, <2>1, <2>3
<1>10. ASSUME NEW g \in hd2, s < g, g <= e
       PROVE  \E f \in hd2 : LinkedIn(cs2, f, g)
  <2>0. g \in Nat
    BY <1>1
  <2>1. CASE g >= clock /\ g - clock \in hits /\ r.start < g - clock
    <3>1. PICK h \in hits : h < g - clock /\ (g - clock) - h <= Hangover
      <4>1. g - clock <= r.end
        BY <1>0, <1>10, <2>0
      <4>. QED BY <2>1, <4>1, RunIsChain
    <3>2. h \in Nat
      OBVIOUS
    <3>3. clock + h < g /\ g - (clock + h) <= Hangover
      BY <1>0, <2>0, <3>1, <3>2
    <3>4. \A c \in cs2 : c <= clock + h \/ c > g
      <4>1. TAKE c \in cs2
      <4>2. c \in Nat
        BY <1>1
      <4>3. CASE c <= clock
        BY <1>0, <3>2, <4>2, <4>3
      <4>4. CASE \A x \in hits : c > clock + x
        <5>1. c > clock + (g - clock)
          BY <2>1, <4>4
        <5>. QED BY <1>0, <2>0, <4>2, <5>1
      <4>. QED BY <1>1, <4>3, <4>4
    <3>5. LinkedIn(cs2, clock + h, g)
      BY <3>3, <3>4 DEF LinkedIn
    <3>. QED BY <1>2, <3>5
  <2>2. CASE g >= clock /\ g - clock \in hits /\ ~(r.start < g - clock)
    <3>1. Joins(b, r, hits)
      BY <1>0, <1>4, <1>10, <2>0, <2>2
    <3>2. r.start <= g - clock
      BY <1>5, <2>2, <3>1
    <3>3. g = clock + r.start
      BY <1>0, <2>0, <2>2, <3>2
    <3>4. open[b].last \in Nat /\ open[b].last \in hd2
      BY <1>0, <1>1, <1>5, <3>1
    <3>5. open[b].last < g /\ g - open[b].last <= Hangover
      BY <1>0, <1>5, <3>1, <3>3, <3>4
    <3>6. \A c \in cs2 : c <= open[b].last \/ c > g
      <4>1. TAKE c \in cs2
      <4>2. CASE c \in cuts[b]
        BY <1>5, <3>1, <4>2
      <4>3. CASE \A h \in hits : c > clock + h
        BY <1>0, <3>3, <4>3
      <4>. QED BY <1>1, <4>2, <4>3
    <3>7. LinkedIn(cs2, open[b].last, g)
      BY <3>5, <3>6 DEF LinkedIn
    <3>. QED BY <3>4, <3>7
  <2>3. CASE g \in heard[b] /\ g < clock
    <3>1. Joins(b, r, hits)
      BY <1>0, <1>4, <1>10, <2>0, <2>3
    <3>2. g <= open[b].last /\ open[b].start < g
      BY <1>4, <1>5, <1>10, <2>3, <3>1
    <3>3. PICK f \in heard[b] : LinkedIn(cuts[b], f, g)
      BY <1>5, <2>3, <3>1, <3>2 DEF IsBurst
    <3>4. LinkedIn(cs2, f, g)
      <4>1. \A c \in cs2 : c <= f \/ c > g
        <5>1. TAKE c \in cs2
        <5>2. CASE c \in cuts[b]
          BY <3>3, <5>2 DEF LinkedIn
        <5>3. CASE c > clock
          BY <1>0, <1>1, <2>0, <2>3, <5>3
        <5>. QED BY <1>1, <5>2, <5>3
      <4>. QED BY <3>3, <4>1 DEF LinkedIn
    <3>. QED BY <1>1, <3>3, <3>4
  <2>. QED BY <1>1, <2>1, <2>2, <2>3
<1>. QED BY <1>3, <1>7, <1>8, <1>9, <1>10 DEF IsBurst, hd2, cs2, s
-----------------------------------------------------------------------------
(* The baseband.                                                           *)

(* At least one frame may be silent after each frame counted. *)
LEMMA SilenceIsPositive ==
  SilencePerFrame \in Nat /\ SilencePerFrame >= 1 /\ Hangover <= SilencePerFrame
BY TrackerAssumption DEF SilencePerFrame

(* A sum of frames is weighed term by term. *)
LEMMA WeighedSum ==
  ASSUME NEW p \in Nat, p >= 1, NEW a \in Nat, NEW d \in Nat,
         NEW x \in Int, NEW y \in Int, x <= a * p, y <= d
  PROVE  x + y <= (a + d) * p
<1>1. d * p \in Nat /\ d <= d * p
  OBVIOUS
<1>2. (a + d) * p = a * p + d * p /\ a * p \in Nat
  OBVIOUS
<1>. QED BY <1>1, <1>2

(* A set split in two has at most as many members as both its parts. *)
LEMMA PartsBound ==
  ASSUME NEW S, NEW A, NEW a \in Nat, IsFiniteSet(A), Cardinality(A) <= a,
         NEW i \in Nat, NEW j \in Nat, i <= j, S \subseteq A \cup (i .. j)
  PROVE  Cardinality(S) <= a + (j - i + 1)
<1>1. IsFiniteSet(i .. j) /\ Cardinality(i .. j) = j - i + 1
  BY FS_Interval
<1>2. /\ IsFiniteSet(A \cup (i .. j))
      /\ Cardinality(A \cup (i .. j))
           = Cardinality(A) + Cardinality(i .. j) - Cardinality(A \cap (i .. j))
  BY <1>1, FS_Union
<1>3. Cardinality(A \cap (i .. j)) \in Nat /\ Cardinality(A) \in Nat
  BY <1>1, FS_Intersection, FS_CardinalityType
<1>4. Cardinality(S) <= Cardinality(A \cup (i .. j)) /\ IsFiniteSet(S)
  BY <1>2, FS_Subset
<1>5. Cardinality(S) \in Nat
  BY <1>4, FS_CardinalityType
<1>. QED BY <1>1, <1>2, <1>3, <1>4, <1>5

(* A run on its own is all of what is kept of it. *)
LEMMA AnewIsWhole ==
  ASSUME NEW hd2, NEW i \in Nat, NEW j \in Nat, i <= j
  PROVE  /\ WholeIn(hd2, i, j, j - i + 1, i .. j)
         /\ j - i <= ((j - i + 1) - 1) * SilencePerFrame
<1>0. SilencePerFrame \in Nat /\ SilencePerFrame >= 1
  BY SilenceIsPositive
<1>1. i .. j \subseteq i .. j + SilencePerFrame - 1
  BY <1>0
<1>2. Cardinality(hd2 \cap (i .. j)) <= j - i + 1
  <2>1. IsFiniteSet(i .. j) /\ Cardinality(i .. j) = j - i + 1
    BY FS_Interval
  <2>2. hd2 \cap (i .. j) \in SUBSET (i .. j)
    OBVIOUS
  <2>3. Cardinality(hd2 \cap (i .. j)) <= Cardinality(i .. j)
    BY <2>1, <2>2, FS_Subset
  <2>. QED BY <2>1, <2>3
<1>3. ASSUME NEW p \in Nat, p >= 1, NEW d \in Nat
      PROVE  d <= d * p
  BY <1>3
<1>4. j - i \in Nat /\ (j - i + 1) - 1 = j - i
  OBVIOUS
<1>5. j - i <= (j - i) * SilencePerFrame
  BY <1>0, <1>3, <1>4
<1>. QED BY <1>1, <1>2, <1>4, <1>5 DEF WholeIn

(* An emission s .. l with baseband q and m frames counted, joined by a    *)
(* run i .. j inside its hangover.                                         *)
LEMMA JoinedIsWhole ==
  ASSUME NEW hd, hd \subseteq Nat, NEW hd2, hd2 \subseteq Nat,
         NEW s \in Nat, NEW l \in Nat, NEW m \in Nat, NEW q, s <= l,
         NEW i \in Nat, NEW j \in Nat, i <= j, l < i, i - l <= Hangover,
         l \in hd, \A f \in hd : f <= l, \A f \in hd2 : f \in hd \/ f >= i,
         WholeIn(hd, s, l, m, q), l - s <= (m - 1) * SilencePerFrame
  PROVE  /\ WholeIn(hd2, s, j, m + (j - i + 1), q \cup (i .. j))
         /\ j - s <= ((m + (j - i + 1)) - 1) * SilencePerFrame
<1>0. /\ SilencePerFrame \in Nat /\ SilencePerFrame >= 1
      /\ Hangover \in Nat /\ Hangover <= SilencePerFrame
  BY TrackerAssumption, SilenceIsPositive
<1>1. /\ hd \cap (s .. l) \subseteq q
      /\ q \subseteq s .. l + SilencePerFrame - 1
      /\ Cardinality(hd \cap (s .. l)) <= m
      /\ m <= l - s + 1
  BY DEF WholeIn
<1>2. IsFiniteSet(hd \cap (s .. l))
  <2>1. IsFiniteSet(s .. l)
    BY FS_Interval
  <2>. QED BY <2>1, FS_Intersection
<1>3. hd2 \cap (s .. j) \subseteq (hd \cap (s .. l)) \cup (i .. j)
  OBVIOUS
<1>4. Cardinality(hd2 \cap (s .. j)) <= m + (j - i + 1)
  <2>. DEFINE A == hd \cap (s .. l)
              S == hd2 \cap (s .. j)
  <2>1. IsFiniteSet(A) /\ Cardinality(A) <= m /\ S \subseteq A \cup (i .. j)
    BY <1>1, <1>2, <1>3
  <2>. HIDE DEF A, S
  <2>2. Cardinality(S) <= m + (j - i + 1)
    BY <2>1, PartsBound
  <2>. QED BY <2>2 DEF S
<1>5. hd2 \cap (s .. j) \subseteq q \cup (i .. j)
  BY <1>1, <1>3
<1>6. q \cup (i .. j) \subseteq s .. j + SilencePerFrame - 1
  <2>1. l + SilencePerFrame - 1 <= j + SilencePerFrame - 1
    BY <1>0
  <2>2. s .. l + SilencePerFrame - 1 \subseteq s .. j + SilencePerFrame - 1
    BY <1>0, <2>1
  <2>3. i .. j \subseteq s .. j + SilencePerFrame - 1
    BY <1>0
  <2>. QED BY <1>1, <2>2, <2>3
<1>7. m + (j - i + 1) <= j - s + 1
  BY <1>1
<1>8. m >= 1
  <2>1. l \in hd \cap (s .. l)
    OBVIOUS
  <2>2. Cardinality(hd \cap (s .. l)) \in Nat
        /\ Cardinality(hd \cap (s .. l)) # 0
    BY <1>2, <2>1, FS_EmptySet, FS_CardinalityType
  <2>. QED BY <1>1, <2>2
<1>9. j - s <= ((m + (j - i + 1)) - 1) * SilencePerFrame
  <2>1. PICK sp \in Nat : sp = SilencePerFrame
    BY <1>0
  <2>2. PICK a \in Nat : a = m - 1
    BY <1>8
  <2>3. PICK d \in Nat : d = j - i
    OBVIOUS
  <2>4. a * sp + sp = (a + 1) * sp /\ a * sp \in Nat
    BY <2>1
  <2>5. l - s <= a * sp
    BY <2>1, <2>2
  <2>6. i - s <= (a + 1) * sp
    BY <1>0, <2>1, <2>4, <2>5
  <2>7. (i - s) + d <= ((a + 1) + d) * sp
    BY <1>0, <2>1, <2>6, WeighedSum
  <2>8. (i - s) + d = j - s /\ (a + 1) + d = (m + (j - i + 1)) - 1
    BY <2>2, <2>3
  <2>. QED BY <2>1, <2>7, <2>8
<1>. QED BY <1>4, <1>5, <1>6, <1>7, <1>9 DEF WholeIn

(* Accumulating a run keeps every frame heard, counts no frame twice and   *)
(* adds no silence but inside the hangover.                                *)
LEMMA GrownIsWhole ==
  ASSUME TypeOK, StreamInv, NEW b \in Bins, NEW n \in Nat,
         NEW hits \in SUBSET (0 .. n - 1), NEW r \in Runs(hits)
  PROVE  LET w == Grown(b, r, hits)
         IN  /\ WholeIn(HeardAfter(b, hits), w.start, w.last, w.frames, w.iq)
             /\ w.last - w.start <= (w.frames - 1) * SilencePerFrame
<1>0. /\ clock \in Nat /\ frameOffset = clock
      /\ r.start \in Nat /\ r.end \in Nat /\ r.start <= r.end
      /\ heard[b] \subseteq Nat /\ OpenInv(b)
  BY RunInBlock DEF TypeOK, StreamInv
<1>1. PICK i \in Nat, j \in Nat :
        /\ i = clock + r.start /\ j = clock + r.end /\ i <= j /\ clock <= i
        /\ j - i + 1 = r.end - r.start + 1
  BY <1>0
<1>2. PICK w : w = Grown(b, r, hits)
  OBVIOUS
<1>3. /\ w.last = j
      /\ Joins(b, r, hits) => /\ w.start = open[b].start
                              /\ w.frames = open[b].frames + (j - i + 1)
                              /\ w.iq = open[b].iq \cup (i .. j)
      /\ ~Joins(b, r, hits) => /\ w.start = i
                               /\ w.frames = j - i + 1
                               /\ w.iq = i .. j
  <2>1. /\ w.last = clock + r.end
        /\ Joins(b, r, hits) =>
             /\ w.start = open[b].start
             /\ w.frames = open[b].frames + (r.end - r.start + 1)
             /\ w.iq = open[b].iq \cup (clock + r.start .. clock + r.end)
        /\ ~Joins(b, r, hits) =>
             /\ w.start = clock + r.start
             /\ w.frames = r.end - r.start + 1
             /\ w.iq = clock + r.start .. clock + r.end
    BY <1>0, <1>2, GrownIs
  <2>. QED BY <1>1, <2>1
<1>4. CASE ~Joins(b, r, hits)
  <2>1. /\ WholeIn(HeardAfter(b, hits), i, j, j - i + 1, i .. j)
        /\ j - i <= ((j - i + 1) - 1) * SilencePerFrame
    BY <1>1, AnewIsWhole
  <2>2. w.start = i /\ w.last = j /\ w.frames = j - i + 1 /\ w.iq = i .. j
    BY <1>3, <1>4
  <2>3. /\ WholeIn(HeardAfter(b, hits), w.start, w.last, w.frames, w.iq)
        /\ w.last - w.start <= (w.frames - 1) * SilencePerFrame
    BY <2>1, <2>2
  <2>. QED BY <1>2, <2>3
<1>5. CASE Joins(b, r, hits)
  <2>1. /\ IsOpen(b) /\ clock + r.start - open[b].last <= Hangover
        /\ \A h \in hits : r.start <= h
    BY <1>0, <1>5 DEF Joins, FirstRun
  <2>2. /\ open[b].start \in Nat /\ open[b].last \in Nat
        /\ open[b].frames \in Nat
    BY <2>1 DEF TypeOK, IsOpen, OpenEmission
  <2>3. /\ WholeIn(heard[b], open[b].start, open[b].last,
                   open[b].frames, open[b].iq)
        /\ open[b].last - open[b].start
             <= (open[b].frames - 1) * SilencePerFrame
        /\ \A f \in heard[b] : f <= open[b].last
        /\ open[b].start <= open[b].last /\ open[b].last \in heard[b]
    BY <1>0, <2>1 DEF OpenInv, OpenIn, IsBurst
  <2>4. open[b].last < i /\ i - open[b].last <= Hangover
    <3>1. open[b].last < clock
      BY <2>3 DEF StreamInv, PastInv
    <3>. QED BY <1>0, <1>1, <2>1, <2>2, <3>1
  <2>5. /\ HeardAfter(b, hits) \subseteq Nat
        /\ \A f \in HeardAfter(b, hits) : f \in heard[b] \/ f >= i
    <3>1. /\ HeardAfter(b, hits) \subseteq Nat
          /\ \A f \in HeardAfter(b, hits) :
               \/ f \in heard[b] /\ f < clock
               \/ f >= clock /\ f < clock + n /\ f - clock \in hits
      BY AddedByBlock
    <3>2. ASSUME NEW f \in HeardAfter(b, hits), f >= clock, f - clock \in hits
          PROVE  f >= i
      BY <1>0, <1>1, <2>1, <3>1, <3>2
    <3>. QED BY <3>1, <3>2
  <2>6. /\ WholeIn(HeardAfter(b, hits), open[b].start, j,
                   open[b].frames + (j - i + 1), open[b].iq \cup (i .. j))
        /\ j - open[b].start
             <= ((open[b].frames + (j - i + 1)) - 1) * SilencePerFrame
    BY <1>0, <1>1, <2>2, <2>3, <2>4, <2>5, JoinedIsWhole
  <2>. QED BY <1>2, <1>3, <1>5, <2>6
<1>. QED BY <1>4, <1>5
-----------------------------------------------------------------------------
(* What a block leaves of the emissions of a bin.                          *)

(* What is closed before a block is still a burst, over and whole after it.*)
LEMMA ClosedStays ==
  ASSUME TypeOK, StreamInv, NEW b \in Bins, NEW n \in Nat,
         NEW hits \in SUBSET (0 .. n - 1), NEW e \in closed, e.bin = b
  PROVE  ClosedIn(HeardAfter(b, hits), CutsAfter(b, n, hits), clock + n, e)
<1>0. /\ clock \in Nat /\ heard[b] \subseteq Nat /\ cuts[b] \subseteq Nat
      /\ clock + n \in Nat /\ clock <= clock + n
      /\ e.start \in Nat /\ e.end \in Nat
      /\ \A f \in heard[b] : f < clock
      /\ ClosedIn(heard[b], cuts[b], clock, e)
  BY DEF TypeOK, StreamInv, PastInv, ClosedInv, ClosedEmission
<1>1. PICK hd2 : hd2 = HeardAfter(b, hits)
  OBVIOUS
<1>2. PICK cs2 : cs2 = CutsAfter(b, n, hits)
  OBVIOUS
<1>3. /\ heard[b] \subseteq hd2 /\ hd2 \subseteq Nat
      /\ cuts[b] \subseteq cs2 /\ cs2 \subseteq Nat
      /\ \A f \in hd2 : f \in heard[b] \/ f >= clock
      /\ \A c \in cs2 : c \in cuts[b] \/ c >= clock
  <2>1. /\ heard[b] \subseteq hd2 /\ hd2 \subseteq Nat
        /\ cuts[b] \subseteq cs2 /\ cs2 \subseteq Nat
        /\ \A f \in hd2 : \/ f \in heard[b] /\ f < clock
                          \/ f >= clock /\ f < clock + n /\ f - clock \in hits
        /\ \A c \in cs2 : \/ c \in cuts[b] /\ c <= clock
                          \/ /\ c > clock /\ c <= clock + n
                             /\ \A h \in hits : c > clock + h
    BY <1>1, <1>2, AddedByBlock
  <2>2. \A c \in cs2 : c > clock => c >= clock
    BY <1>0, <2>1
  <2>. QED BY <2>1, <2>2
<1>4. OverAt(cs2, clock + n, e.end)
  BY <1>0, <1>3, OverStays DEF ClosedIn
<1>5. \A f \in hd2 : f >= clock => ~LinkedIn(cs2, e.end, f)
  BY <1>0, <1>3, OverIsOver DEF ClosedIn
<1>6. IsBurst(hd2, cs2, e.start, e.end)
  BY <1>0, <1>3, <1>5, BurstsStay DEF ClosedIn
<1>7. hd2 \cap (e.start .. e.end) = heard[b] \cap (e.start .. e.end)
  <2>1. e.end < clock
    BY <1>0 DEF ClosedIn, IsBurst
  <2>. QED BY <1>0, <1>3, <2>1
<1>8. WholeIn(hd2, e.start, e.end, e.detectedFrames, e.iq)
  BY <1>0, <1>7 DEF ClosedIn, WholeIn
<1>. QED BY <1>1, <1>2, <1>4, <1>6, <1>8 DEF ClosedIn

(* An open emission that is closed as stale is a burst, over and whole. *)
LEMMA StaleIsOver ==
  ASSUME TypeOK, StreamInv, NEW b \in Bins, NEW n \in Nat,
         NEW hits \in SUBSET (0 .. n - 1), Stale(b, n, hits)
  PROVE  ClosedIn(HeardAfter(b, hits), CutsAfter(b, n, hits), clock + n,
                  Emission(b, open[b]))
<1>0. /\ clock \in Nat /\ heard[b] \subseteq Nat /\ cuts[b] \subseteq Nat
      /\ clock + n \in Nat /\ IsOpen(b) /\ Hangover \in Nat
      /\ frameOffset = clock
      /\ open[b].start \in Nat /\ open[b].last \in Nat
      /\ \A f \in heard[b] : f < clock
      /\ OpenIn(heard[b], cuts[b], open[b])
  BY TrackerAssumption
     DEF TypeOK, StreamInv, PastInv, OpenInv, OpenEmission, IsOpen, Stale
<1>1. PICK hd2 : hd2 = HeardAfter(b, hits)
  OBVIOUS
<1>2. PICK cs2 : cs2 = CutsAfter(b, n, hits)
  OBVIOUS
<1>3. /\ heard[b] \subseteq hd2 /\ hd2 \subseteq Nat
      /\ cuts[b] \subseteq cs2 /\ cs2 \subseteq Nat
      /\ \A f \in hd2 : \/ f \in heard[b]
                        \/ f >= clock /\ f - clock \in hits
      /\ \A c \in cs2 : c \in cuts[b] \/ c >= clock
  <2>1. /\ heard[b] \subseteq hd2 /\ hd2 \subseteq Nat
        /\ cuts[b] \subseteq cs2 /\ cs2 \subseteq Nat
        /\ \A f \in hd2 : \/ f \in heard[b] /\ f < clock
                          \/ f >= clock /\ f < clock + n /\ f - clock \in hits
        /\ \A c \in cs2 : \/ c \in cuts[b] /\ c <= clock
                          \/ /\ c > clock /\ c <= clock + n
                             /\ \A h \in hits : c > clock + h
    BY <1>1, <1>2, AddedByBlock
  <2>2. \A c \in cs2 : c > clock => c >= clock
    BY <1>0, <2>1
  <2>. QED BY <2>1, <2>2
<1>4. \A h \in hits : h \in Nat /\ h < n
                      /\ (clock + h) - open[b].last > Hangover
  BY <1>0 DEF Stale
<1>5. (clock + n) - open[b].last > Hangover
  <2>1. CASE hits = {}
    BY <1>0, <2>1 DEF Stale
  <2>2. CASE hits # {}
    <3>1. PICK h \in hits : TRUE
      BY <2>2
    <3>. QED BY <1>0, <1>4, <3>1
  <2>. QED BY <2>1, <2>2
<1>6. OverAt(cs2, clock + n, open[b].last)
  BY <1>5 DEF OverAt
<1>7. \A f \in hd2 : f >= clock => ~LinkedIn(cs2, open[b].last, f)
  <2>1. TAKE f \in hd2
  <2>2. HAVE f >= clock
  <2>3. f \in Nat /\ f - clock \in hits
    BY <1>0, <1>3, <2>2
  <2>4. (clock + (f - clock)) - open[b].last > Hangover
    BY <1>4, <2>3
  <2>5. f - open[b].last > Hangover
    BY <1>0, <2>3, <2>4
  <2>. QED BY <1>0, <2>3, <2>5 DEF LinkedIn
<1>8. IsBurst(hd2, cs2, open[b].start, open[b].last)
  BY <1>0, <1>3, <1>7, BurstsStay DEF OpenIn
<1>9. hd2 \cap (open[b].start .. open[b].last)
        = heard[b] \cap (open[b].start .. open[b].last)
  <2>1. open[b].last < clock
    BY <1>0 DEF OpenIn, IsBurst
  <2>. QED BY <1>0, <1>3, <2>1
<1>10. WholeIn(hd2, open[b].start, open[b].last, open[b].frames, open[b].iq)
  BY <1>0, <1>9 DEF OpenIn, WholeIn
<1>. QED BY <1>1, <1>2, <1>6, <1>8, <1>10 DEF ClosedIn, Emission

(* What is closed in or after the block that it ends in is over. *)
LEMMA GrownIsOver ==
  ASSUME TypeOK, StreamInv, NEW b \in Bins, NEW n \in Nat,
         NEW hits \in SUBSET (0 .. n - 1), NEW r \in Runs(hits),
         ClosesAfter(b, r, n, hits)
  PROVE  ClosedIn(HeardAfter(b, hits), CutsAfter(b, n, hits), clock + n,
                  Emission(b, Grown(b, r, hits)))
<1>0. /\ clock \in Nat /\ frameOffset = clock /\ Hangover \in Nat
      /\ r.start \in Nat /\ r.end \in Nat /\ r.end <= n - 1
  BY TrackerAssumption, RunInBlock DEF TypeOK, StreamInv
<1>1. PICK w : w = Grown(b, r, hits)
  OBVIOUS
<1>2. w.last = clock + r.end
  BY <1>0, <1>1, GrownIs
<1>3. IsBurst(HeardAfter(b, hits), CutsAfter(b, n, hits), w.start, w.last)
  BY <1>1, GrownIsBurst
<1>4. WholeIn(HeardAfter(b, hits), w.start, w.last, w.frames, w.iq)
  BY <1>1, GrownIsWhole
<1>5. OverAt(CutsAfter(b, n, hits), clock + n, w.last)
  <2>1. CASE Over(r, n, hits)
    <3>1. n - r.end > Hangover
      <4>1. CASE ~LastRun(r, hits)
        <5>1. PICK h \in hits : ~(h <= r.end)
          BY <4>1 DEF LastRun
        <5>2. h \in Nat /\ h < n /\ h > r.end
          BY <1>0, <5>1
        <5>3. h - r.end > Hangover
          BY <5>2, RunIsChain
        <5>. QED BY <1>0, <5>2, <5>3
      <4>2. CASE TrailingGap(r, n) > Hangover
        BY <1>0, <4>2 DEF TrailingGap
      <4>. QED BY <2>1, <4>1, <4>2 DEF Over
    <3>. QED BY <1>0, <1>2, <3>1 DEF OverAt
  <2>2. CASE OverCap(b, r, hits) /\ ~Over(r, n, hits)
    <3>1. clock + r.end + 1 \in CutsAfter(b, n, hits)
      BY <1>0, <2>2 DEF CutsAfter, CapCuts
    <3>2. w.last < clock + r.end + 1 /\ clock + r.end + 1 <= clock + n
      BY <1>0, <1>2
    <3>. QED BY <3>1, <3>2 DEF OverAt
  <2>. QED BY <2>1, <2>2 DEF ClosesAfter
<1>6. ClosedIn(HeardAfter(b, hits), CutsAfter(b, n, hits), clock + n,
               Emission(b, w))
  BY <1>3, <1>4, <1>5 DEF ClosedIn, Emission
<1>. QED BY <1>1, <1>6

(* All that update returns for a bin is a burst, over and whole. *)
LEMMA ClosedByIsOver ==
  ASSUME TypeOK, StreamInv, NEW b \in Bins, NEW n \in Nat,
         NEW hits \in SUBSET (0 .. n - 1), NEW e \in ClosedBy(b, n, hits)
  PROVE  ClosedIn(HeardAfter(b, hits), CutsAfter(b, n, hits), clock + n, e)
<1>1. CASE Stale(b, n, hits) /\ e = Emission(b, open[b])
  BY <1>1, StaleIsOver
<1>2. CASE \E r \in Runs(hits) : /\ ClosesAfter(b, r, n, hits)
                                 /\ e = Emission(b, Grown(b, r, hits))
  BY <1>2, GrownIsOver
<1>. QED BY <1>1, <1>2 DEF ClosedBy
(* A block without hits adds nothing to what was heard or cut. *)
LEMMA SilenceAddsNothing ==
  ASSUME NEW b \in Bins, NEW n \in Nat
  PROVE  HeardAfter(b, {}) = heard[b] /\ CutsAfter(b, n, {}) = cuts[b]
<1>1. Runs({}) = {}
  BY DEF Runs, RunStarts
<1>2. CapCuts(b, n, {}) = {}
  BY <1>1 DEF CapCuts
<1>. QED BY <1>2 DEF HeardAfter, CutsAfter

(* The baseband of a silent block that is kept stays inside the hangover.  *)
LEMMA HushedIsOpen ==
  ASSUME TypeOK, StreamInv, NEW b \in Bins, NEW n \in Nat,
         IsOpen(b), ~Stale(b, n, {})
  PROVE  /\ OpenIn(heard[b], cuts[b], Hushed(b, n))
         /\ Hushed(b, n).start = open[b].start
         /\ Hushed(b, n).last = open[b].last
<1>0. /\ clock \in Nat /\ frameOffset = clock /\ Hangover \in Nat
      /\ open[b] \in OpenEmission
      /\ open[b].start \in Nat /\ open[b].last \in Nat
      /\ OpenIn(heard[b], cuts[b], open[b])
      /\ SilencePerFrame \in Nat /\ Hangover <= SilencePerFrame
      /\ \A f \in heard[b] : f < clock
  BY TrackerAssumption, SilenceIsPositive
     DEF TypeOK, StreamInv, OpenInv, IsOpen, OpenEmission, PastInv
<1>1. ~((clock + n) - open[b].last > Hangover)
  BY <1>0 DEF Stale
<1>2. /\ Hushed(b, n).start = open[b].start
      /\ Hushed(b, n).last = open[b].last
      /\ Hushed(b, n).frames = open[b].frames
      /\ Hushed(b, n).iq = open[b].iq \cup (clock .. clock + n - 1)
  BY <1>0 DEF Hushed, OpenEmission
<1>3. /\ open[b].start <= open[b].last /\ open[b].last < clock
      /\ WholeIn(heard[b], open[b].start, open[b].last,
                 open[b].frames, open[b].iq)
  BY <1>0 DEF OpenIn, IsBurst
<1>4. clock .. clock + n - 1
        \subseteq open[b].start .. open[b].last + SilencePerFrame - 1
  BY <1>0, <1>1, <1>3
<1>5. WholeIn(heard[b], open[b].start, open[b].last, open[b].frames,
              open[b].iq \cup (clock .. clock + n - 1))
  BY <1>3, <1>4 DEF WholeIn
<1>. QED BY <1>0, <1>2, <1>5 DEF OpenIn

(* What is open after a block with hits is what its last run went into. *)
LEMMA OpenAfterIsGrown ==
  ASSUME NEW b \in Bins, NEW n \in Nat,
         NEW hits \in SUBSET (0 .. n - 1), hits # {}
  PROVE  \E r \in Runs(hits) :
           /\ LastRun(r, hits)
           /\ OpenAfter(b, n, hits) = IF ClosesAfter(b, r, n, hits)
                                      THEN NotOpen ELSE Grown(b, r, hits)
<1>. DEFINE r == CHOOSE q \in Runs(hits) : LastRun(q, hits)
<1>1. r \in Runs(hits) /\ LastRun(r, hits)
  BY LastRunExists
<1>2. OpenAfter(b, n, hits) = IF ClosesAfter(b, r, n, hits)
                              THEN NotOpen ELSE Grown(b, r, hits)
  BY DEF OpenAfter, OpenAfterHits
<1>. QED BY <1>1, <1>2

(* Two last runs are one. *)
LEMMA OneLastRun ==
  ASSUME NEW n \in Nat, NEW hits \in SUBSET (0 .. n - 1),
         NEW q \in Runs(hits), NEW r \in Runs(hits),
         LastRun(q, hits), LastRun(r, hits)
  PROVE  q = r
<1>1. /\ q.end \in hits /\ r.end \in hits /\ q.end \in Nat /\ r.end \in Nat
  BY RunInBlock
<1>2. q.end = r.end
  BY <1>1 DEF LastRun
<1>. QED BY <1>2, RunsEndApart

(* What is open after a block may still be joined: it is a burst so far,   *)
(* and nothing was heard or cut after its end.                             *)
LEMMA OpenAfterIsOpen ==
  ASSUME TypeOK, StreamInv, NEW b \in Bins, NEW n \in Nat,
         NEW hits \in SUBSET (0 .. n - 1), OpenAfter(b, n, hits) # NotOpen
  PROVE  OpenIn(HeardAfter(b, hits), CutsAfter(b, n, hits),
                OpenAfter(b, n, hits))
<1>0. /\ clock \in Nat /\ frameOffset = clock
      /\ heard[b] \subseteq Nat /\ cuts[b] \subseteq Nat
      /\ \A f \in heard[b] : f < clock
      /\ \A c \in cuts[b] : c <= clock
  BY DEF TypeOK, StreamInv, PastInv
<1>1. CASE hits = {}
  <2>1. IsOpen(b) /\ ~Stale(b, n, {}) /\ OpenAfter(b, n, hits) = Hushed(b, n)
    BY <1>1 DEF OpenAfter, OpenAfterSilence
  <2>2. OpenIn(heard[b], cuts[b], Hushed(b, n))
    BY <2>1, HushedIsOpen
  <2>. QED BY <1>1, <2>1, <2>2, SilenceAddsNothing
<1>2. CASE hits # {}
  <2>1. PICK r \in Runs(hits) :
          /\ LastRun(r, hits)
          /\ OpenAfter(b, n, hits) = IF ClosesAfter(b, r, n, hits)
                                     THEN NotOpen ELSE Grown(b, r, hits)
    BY <1>2, OpenAfterIsGrown
  <2>2. /\ OpenAfter(b, n, hits) = Grown(b, r, hits)
        /\ ~ClosesAfter(b, r, n, hits)
    BY <2>1
  <2>3. PICK w : w = Grown(b, r, hits)
    OBVIOUS
  <2>4. r.start \in Nat /\ r.end \in Nat
    BY RunInBlock
  <2>5. w.last = clock + r.end
    BY <1>0, <2>3, <2>4, GrownIs
  <2>6. CapCuts(b, n, hits) = {}
    <3>1. ASSUME NEW q \in Runs(hits), OverCap(b, q, hits), ~Over(q, n, hits)
          PROVE  FALSE
      <4>1. LastRun(q, hits)
        BY <3>1 DEF Over
      <4>2. q = r
        BY <2>1, <4>1, OneLastRun
      <4>. QED BY <2>2, <3>1, <4>2 DEF ClosesAfter
    <3>. QED BY <3>1 DEF CapCuts
  <2>7. \A c \in CutsAfter(b, n, hits) : c <= w.last
    <3>1. CutsAfter(b, n, hits) = cuts[b]
      BY <2>6 DEF CutsAfter
    <3>. QED BY <1>0, <2>4, <2>5, <3>1
  <2>8. \A f \in HeardAfter(b, hits) : f <= w.last
    <3>1. TAKE f \in HeardAfter(b, hits)
    <3>2. CASE f \in heard[b]
      BY <1>0, <2>4, <2>5, <3>2
    <3>3. CASE f \in {clock + h : h \in hits}
      BY <1>0, <2>1, <2>4, <2>5, <3>3 DEF LastRun
    <3>. QED BY <3>2, <3>3 DEF HeardAfter
  <2>9. /\ IsBurst(HeardAfter(b, hits), CutsAfter(b, n, hits),
                   w.start, w.last)
    BY <2>3, GrownIsBurst
  <2>10. /\ WholeIn(HeardAfter(b, hits), w.start, w.last, w.frames, w.iq)
         /\ w.last - w.start <= (w.frames - 1) * SilencePerFrame
    BY <2>3, GrownIsWhole
  <2>. QED BY <2>2, <2>3, <2>7, <2>8, <2>9, <2>10 DEF OpenIn
<1>. QED BY <1>1, <1>2

-----------------------------------------------------------------------------
(* No detection is lost.                                                   *)

(* A frame is in an emission that a block closes or leaves open. *)
KeptBy(b, n, hits, f) ==
    \/ \E e \in ClosedBy(b, n, hits) : e.start <= f /\ f <= e.end
    \/ /\ OpenAfter(b, n, hits) # NotOpen
       /\ OpenAfter(b, n, hits).start <= f
       /\ f <= OpenAfter(b, n, hits).last

(* A run ends up in an emission that is closed or left open. *)
LEMMA GrownIsKept ==
  ASSUME TypeOK, StreamInv, NEW b \in Bins, NEW n \in Nat,
         NEW hits \in SUBSET (0 .. n - 1), NEW r \in Runs(hits), NEW f,
         Grown(b, r, hits).start <= f, f <= Grown(b, r, hits).last
  PROVE  KeptBy(b, n, hits, f)
<1>1. CASE ClosesAfter(b, r, n, hits)
  <2>1. Emission(b, Grown(b, r, hits)) \in ClosedBy(b, n, hits)
    BY <1>1 DEF ClosedBy
  <2>. QED BY <2>1 DEF KeptBy, Emission
<1>2. CASE ~ClosesAfter(b, r, n, hits)
  <2>1. LastRun(r, hits)
    BY <1>2 DEF ClosesAfter, Over
  <2>2. hits # {}
    BY RunInBlock
  <2>3. PICK q \in Runs(hits) :
          /\ LastRun(q, hits)
          /\ OpenAfter(b, n, hits) = IF ClosesAfter(b, q, n, hits)
                                     THEN NotOpen ELSE Grown(b, q, hits)
    BY <2>2, OpenAfterIsGrown
  <2>4. q = r
    BY <2>1, <2>3, OneLastRun
  <2>5. Grown(b, r, hits) # NotOpen
    <3>1. Grown(b, r, hits) \in OpenEmission
      BY GrownType
    <3>. QED BY <3>1 DEF OpenEmission, NotOpen
  <2>. QED BY <1>2, <2>3, <2>4, <2>5 DEF KeptBy
<1>. QED BY <1>1, <1>2

(* What was open before a block is kept. *)
LEMMA OpenIsKept ==
  ASSUME TypeOK, StreamInv, NEW b \in Bins, NEW n \in Nat,
         NEW hits \in SUBSET (0 .. n - 1), IsOpen(b),
         NEW f \in heard[b], open[b].start <= f, f <= open[b].last
  PROVE  KeptBy(b, n, hits, f)
<1>0. /\ clock \in Nat /\ frameOffset = clock /\ f < clock /\ f \in Nat
      /\ open[b] \in OpenEmission
      /\ open[b].start \in Nat /\ open[b].last \in Nat
  BY DEF TypeOK, StreamInv, PastInv, IsOpen, OpenEmission
<1>1. CASE Stale(b, n, hits)
  <2>1. Emission(b, open[b]) \in ClosedBy(b, n, hits)
    BY <1>1 DEF ClosedBy
  <2>. QED BY <2>1 DEF KeptBy, Emission
<1>2. CASE ~Stale(b, n, hits) /\ hits = {}
  <2>1. OpenAfter(b, n, hits) = Hushed(b, n)
    BY <1>2 DEF OpenAfter, OpenAfterSilence
  <2>2. Hushed(b, n).start = open[b].start /\ Hushed(b, n).last = open[b].last
    BY <1>2, HushedIsOpen
  <2>3. Hushed(b, n) # NotOpen
    BY <1>0, <2>2 DEF NotOpen
  <2>. QED BY <2>1, <2>2, <2>3 DEF KeptBy
<1>3. CASE ~Stale(b, n, hits) /\ hits # {}
  <2>0. hits \subseteq Nat
    OBVIOUS
  <2>1. PICK m \in hits : \A h \in hits : m <= h
    BY <1>3, <2>0, LeastExists
  <2>2. PICK r \in Runs(hits) : r.start <= m /\ m <= r.end
    BY RunCovers
  <2>3. r.start \in hits /\ r.start \in Nat /\ r.end \in Nat /\ r.start <= r.end
    BY RunInBlock
  <2>4. r.start = m /\ FirstRun(r, hits)
    BY <2>0, <2>1, <2>2, <2>3 DEF FirstRun
  <2>5. Joins(b, r, hits)
    <3>1. PICK h \in hits : ~(frameOffset + h - open[b].last > Hangover)
      BY <1>3 DEF Stale
    <3>2. frameOffset + r.start - open[b].last <= Hangover
      <4>1. m <= h /\ h \in Nat /\ Hangover \in Nat
        BY <2>0, <2>1, TrackerAssumption
      <4>. QED BY <1>0, <2>3, <2>4, <3>1, <4>1
    <3>. QED BY <2>4, <3>2 DEF Joins
  <2>6. Grown(b, r, hits).start = open[b].start
        /\ Grown(b, r, hits).last = clock + r.end
    BY <1>0, <2>3, <2>5, GrownIs
  <2>7. Grown(b, r, hits).start <= f /\ f <= Grown(b, r, hits).last
    BY <1>0, <2>3, <2>6
  <2>. QED BY <2>7, GrownIsKept
<1>. QED BY <1>1, <1>2, <1>3

(* So is every hit of the block. *)
LEMMA HitIsKept ==
  ASSUME TypeOK, StreamInv, NEW b \in Bins, NEW n \in Nat,
         NEW hits \in SUBSET (0 .. n - 1), NEW h \in hits
  PROVE  KeptBy(b, n, hits, clock + h)
<1>1. PICK r \in Runs(hits) : r.start <= h /\ h <= r.end
  BY RunCovers
<1>2. /\ r.start \in Nat /\ r.end \in Nat /\ h \in Nat
      /\ clock \in Nat /\ frameOffset = clock
  BY RunInBlock DEF TypeOK, StreamInv
<1>3. Grown(b, r, hits).last = clock + r.end
  BY <1>2, GrownIs
<1>4. Grown(b, r, hits).start <= clock + h
  <2>1. CASE ~Joins(b, r, hits)
    BY <1>1, <1>2, <2>1, GrownIs
  <2>2. CASE Joins(b, r, hits)
    <3>1. Grown(b, r, hits).start = open[b].start /\ IsOpen(b)
      BY <1>2, <2>2, GrownIs DEF Joins
    <3>2. open[b].start \in heard[b]
      BY <3>1 DEF StreamInv, OpenInv, OpenIn, IsBurst
    <3>3. open[b].start < clock /\ open[b].start \in Nat
      BY <3>2 DEF StreamInv, PastInv, TypeOK
    <3>. QED BY <1>2, <3>1, <3>3
  <2>. QED BY <2>1, <2>2
<1>5. clock + h <= Grown(b, r, hits).last
  BY <1>1, <1>2, <1>3
<1>. QED BY <1>4, <1>5, GrownIsKept
-----------------------------------------------------------------------------
(* The invariant of the stream is inductive.                               *)

(* What is returned for a bin is an emission of that bin. *)
LEMMA ClosedByBin ==
  ASSUME NEW b \in Bins, NEW n, NEW hits, NEW e \in ClosedBy(b, n, hits)
  PROVE  e.bin = b
BY DEF ClosedBy, Emission

(* The tracker starts with nothing heard, cut, open or closed. *)
LEMMA InitStreamInv == Init => StreamInv
<1>. SUFFICES ASSUME Init PROVE StreamInv
  OBVIOUS
<1>1. /\ frameOffset = 0 /\ clock = 0 /\ closed = {}
      /\ \A b \in Bins : open[b] = NotOpen /\ heard[b] = {} /\ cuts[b] = {}
  BY DEF Init
<1>. QED
  BY <1>1 DEF StreamInv, PastInv, OpenInv, ClosedInv, CoverInv, IsOpen

(* update, bin by bin. *)
LEMMA UpdateIs ==
  ASSUME TypeOK, StreamInv, NEW n \in Nat, n # 0,
         NEW mask \in [Bins -> SUBSET (0 .. n - 1)], Update(n, mask)
  PROVE  /\ clock' = clock + n /\ frameOffset' = clock + n
         /\ \A b \in Bins :
              /\ mask[b] \in SUBSET (0 .. n - 1)
              /\ open'[b] = OpenAfter(b, n, mask[b])
              /\ heard'[b] = HeardAfter(b, mask[b])
              /\ cuts'[b] = CutsAfter(b, n, mask[b])
              /\ \A e : e \in closed' /\ e.bin = b =>
                   e \in closed \/ e \in ClosedBy(b, n, mask[b])
              /\ ClosedBy(b, n, mask[b]) \subseteq closed'
         /\ closed \subseteq closed'
<1>1. /\ open' = [b \in Bins |-> OpenAfter(b, n, mask[b])]
      /\ completed' = UNION {ClosedBy(b, n, mask[b]) : b \in Bins}
      /\ frameOffset' = frameOffset + n
      /\ heard' = [b \in Bins |-> heard[b] \cup {clock + f : f \in mask[b]}]
      /\ closed' = closed \cup completed'
      /\ cuts' = [b \in Bins |-> cuts[b] \cup CapCuts(b, n, mask[b])]
      /\ clock' = clock + n
  BY DEF Update
<1>2. \A b \in Bins : mask[b] \in SUBSET (0 .. n - 1)
  OBVIOUS
<1>3. frameOffset = clock
  BY DEF StreamInv
<1>4. ASSUME NEW b \in Bins, NEW e \in closed', e.bin = b, e \notin closed
      PROVE  e \in ClosedBy(b, n, mask[b])
  <2>1. PICK c \in Bins : e \in ClosedBy(c, n, mask[c])
    BY <1>1, <1>4
  <2>. QED BY <1>4, <2>1, ClosedByBin
<1>5. \A b \in Bins : ClosedBy(b, n, mask[b]) \subseteq closed'
  BY <1>1
<1>. QED BY <1>1, <1>2, <1>3, <1>4, <1>5 DEF HeardAfter, CutsAfter

(* update keeps the invariant of the stream. *)
LEMMA UpdateStreamInv ==
  ASSUME TypeOK, StreamInv, NEW n \in Nat,
         NEW mask \in [Bins -> SUBSET (0 .. n - 1)], Update(n, mask)
  PROVE  StreamInv'
<1>0. clock \in Nat
  BY DEF TypeOK
<1>1. CASE n = 0
  <2>1. /\ UNCHANGED <<open, frameOffset, heard, closed, cuts>>
        /\ clock' = clock
    BY <1>0, <1>1 DEF Update
  <2>. QED
    BY <2>1 DEF StreamInv, PastInv, OpenInv, ClosedInv, CoverInv, IsOpen
<1>2. CASE n # 0
  <2>1. /\ clock' = clock + n /\ frameOffset' = clock + n
        /\ closed \subseteq closed'
    BY <1>2, UpdateIs
  <2>2. ASSUME NEW b \in Bins
        PROVE  PastInv(b)' /\ OpenInv(b)' /\ ClosedInv(b)' /\ CoverInv(b)'
    <3>1. PICK hits \in SUBSET (0 .. n - 1) : hits = mask[b]
      OBVIOUS
    <3>2. /\ open'[b] = OpenAfter(b, n, hits)
          /\ heard'[b] = HeardAfter(b, hits)
          /\ cuts'[b] = CutsAfter(b, n, hits)
          /\ \A e : e \in closed' /\ e.bin = b =>
               e \in closed \/ e \in ClosedBy(b, n, hits)
          /\ ClosedBy(b, n, hits) \subseteq closed'
      BY <1>2, <3>1, UpdateIs
    <3>3. PastInv(b)'
      <4>1. \A f \in HeardAfter(b, hits) : f < clock + n
        <5>1. /\ HeardAfter(b, hits) \subseteq Nat
              /\ \A f \in HeardAfter(b, hits) :
                   \/ f \in heard[b] /\ f < clock
                   \/ f >= clock /\ f < clock + n /\ f - clock \in hits
          BY AddedByBlock
        <5>. QED BY <1>0, <5>1
      <4>2. \A c \in CutsAfter(b, n, hits) : c <= clock + n
        <5>1. /\ CutsAfter(b, n, hits) \subseteq Nat
              /\ \A c \in CutsAfter(b, n, hits) :
                   \/ c \in cuts[b] /\ c <= clock
                   \/ /\ c > clock /\ c <= clock + n
                      /\ \A h \in hits : c > clock + h
          BY AddedByBlock
        <5>. QED BY <1>0, <5>1
      <4>. QED BY <2>1, <3>2, <4>1, <4>2 DEF PastInv
    <3>4. OpenInv(b)'
      <4>1. OpenAfter(b, n, hits) # NotOpen =>
              OpenIn(HeardAfter(b, hits), CutsAfter(b, n, hits),
                     OpenAfter(b, n, hits))
        BY OpenAfterIsOpen
      <4>. QED BY <3>2, <4>1 DEF OpenInv, IsOpen
    <3>5. ClosedInv(b)'
      <4>1. \A e \in closed : e.bin = b =>
              ClosedIn(HeardAfter(b, hits), CutsAfter(b, n, hits),
                       clock + n, e)
        BY ClosedStays
      <4>2. \A e \in ClosedBy(b, n, hits) :
              ClosedIn(HeardAfter(b, hits), CutsAfter(b, n, hits),
                       clock + n, e)
        BY ClosedByIsOver
      <4>. QED BY <2>1, <3>2, <4>1, <4>2 DEF ClosedInv
    <3>6. CoverInv(b)'
      <4>1. ASSUME NEW f \in HeardAfter(b, hits)
            PROVE  \/ KeptBy(b, n, hits, f)
                   \/ \E e \in closed : e.bin = b /\ e.start <= f /\ f <= e.end
        <5>1. CASE f \in heard[b]
          <6>1. \/ IsOpen(b) /\ open[b].start <= f /\ f <= open[b].last
                \/ \E e \in closed : e.bin = b /\ e.start <= f /\ f <= e.end
            BY <5>1 DEF StreamInv, CoverInv
          <6>. QED BY <5>1, <6>1, OpenIsKept
        <5>2. CASE \E h \in hits : f = clock + h
          BY <5>2, HitIsKept
        <5>. QED BY <5>1, <5>2 DEF HeardAfter
      <4>2. ASSUME NEW f, KeptBy(b, n, hits, f)
            PROVE  \/ /\ open'[b] # NotOpen
                      /\ open'[b].start <= f /\ f <= open'[b].last
                   \/ \E e \in closed' :
                         e.bin = b /\ e.start <= f /\ f <= e.end
        BY <3>2, <4>2, ClosedByBin DEF KeptBy
      <4>. QED BY <2>1, <3>2, <4>1, <4>2 DEF CoverInv, IsOpen
    <3>. QED BY <3>3, <3>4, <3>5, <3>6
  <2>. QED BY <2>1, <2>2 DEF StreamInv
<1>. QED BY <1>1, <1>2

(* flush keeps the invariant of the stream: a cut at the clock ends every  *)
(* burst that was still open, and lies behind all that was heard.          *)
LEMMA FlushStreamInv ==
  ASSUME TypeOK, StreamInv, Flush
  PROVE  StreamInv'
<1>0. /\ clock \in Nat /\ frameOffset = clock
      /\ clock' = clock /\ frameOffset' = frameOffset /\ heard' = heard
      /\ open' = [b \in Bins |-> NotOpen]
      /\ closed' = closed \cup {Emission(c, open[c]) :
                                  c \in {x \in Bins : IsOpen(x)}}
      /\ cuts' = [c \in Bins |-> IF IsOpen(c) THEN cuts[c] \cup {frameOffset}
                                             ELSE cuts[c]]
  BY DEF TypeOK, StreamInv, Flush
<1>1. ASSUME NEW b \in Bins
      PROVE  PastInv(b)' /\ OpenInv(b)' /\ ClosedInv(b)' /\ CoverInv(b)'
  <2>1. /\ heard[b] \subseteq Nat /\ cuts[b] \subseteq Nat
        /\ \A f \in heard[b] : f < clock
        /\ \A c \in cuts[b] : c <= clock
    BY DEF TypeOK, StreamInv, PastInv
  <2>2. /\ cuts[b] \subseteq cuts'[b] /\ cuts'[b] \subseteq Nat
        /\ \A c \in cuts'[b] : c \in cuts[b] \/ c = clock
        /\ IsOpen(b) => clock \in cuts'[b]
    BY <1>0, <2>1
  <2>3. heard'[b] = heard[b] /\ open'[b] = NotOpen
    BY <1>0
  <2>4. PastInv(b)'
    BY <1>0, <2>1, <2>2, <2>3 DEF PastInv
  <2>5. OpenInv(b)'
    BY <2>3 DEF OpenInv, IsOpen
  <2>6. ASSUME NEW s \in Nat, NEW e \in Nat, IsBurst(heard[b], cuts[b], s, e)
        PROVE  IsBurst(heard[b], cuts'[b], s, e)
    <3>1. \A f \in heard[b] : f >= clock => ~LinkedIn(cuts'[b], e, f)
      BY <1>0, <2>1
    <3>2. \A c \in cuts'[b] : c \in cuts[b] \/ c >= clock
      BY <1>0, <2>2
    <3>3. \A f \in heard[b] : f \in heard[b] \/ f >= clock
      OBVIOUS
    <3>. QED BY <1>0, <2>1, <2>2, <2>6, <3>1, <3>2, <3>3, BurstsStay
  <2>7. ASSUME NEW e \in closed, e.bin = b
        PROVE  ClosedIn(heard[b], cuts'[b], clock, e)
    <3>1. /\ ClosedIn(heard[b], cuts[b], clock, e)
          /\ e.start \in Nat /\ e.end \in Nat
      BY <2>7 DEF StreamInv, ClosedInv, TypeOK, ClosedEmission
    <3>2. OverAt(cuts'[b], clock, e.end)
      BY <1>0, <2>1, <2>2, <3>1, OverStays DEF ClosedIn
    <3>. QED BY <2>6, <3>1, <3>2 DEF ClosedIn
  <2>8. ASSUME IsOpen(b)
        PROVE  ClosedIn(heard[b], cuts'[b], clock, Emission(b, open[b]))
    <3>1. /\ OpenIn(heard[b], cuts[b], open[b])
          /\ open[b].start \in Nat /\ open[b].last \in Nat
      BY <2>8 DEF StreamInv, OpenInv, TypeOK, OpenEmission, IsOpen
    <3>2. open[b].last < clock
      BY <2>1, <3>1 DEF OpenIn, IsBurst
    <3>3. OverAt(cuts'[b], clock, open[b].last)
      BY <1>0, <2>2, <2>8, <3>2 DEF OverAt
    <3>4. IsBurst(heard[b], cuts'[b], open[b].start, open[b].last)
      BY <2>6, <3>1 DEF OpenIn
    <3>. QED BY <3>1, <3>3, <3>4 DEF OpenIn, ClosedIn, Emission
  <2>9. ClosedInv(b)'
    <3>1. ASSUME NEW e \in closed', e.bin = b
          PROVE  ClosedIn(heard[b], cuts'[b], clock, e)
      <4>1. CASE e \in closed
        BY <2>7, <3>1, <4>1
      <4>2. CASE e \in {Emission(c, open[c]) : c \in {x \in Bins : IsOpen(x)}}
        <5>1. PICK c \in Bins : IsOpen(c) /\ e = Emission(c, open[c])
          BY <4>2
        <5>2. c = b
          BY <3>1, <5>1 DEF Emission
        <5>. QED BY <2>8, <5>1, <5>2
      <4>. QED BY <1>0, <4>1, <4>2
    <3>. QED BY <1>0, <2>3, <3>1 DEF ClosedInv
  <2>10. CoverInv(b)'
    <3>1. ASSUME NEW f \in heard[b]
          PROVE  \E e \in closed' : e.bin = b /\ e.start <= f /\ f <= e.end
      <4>1. \/ IsOpen(b) /\ open[b].start <= f /\ f <= open[b].last
            \/ \E e \in closed : e.bin = b /\ e.start <= f /\ f <= e.end
        BY <3>1 DEF StreamInv, CoverInv
      <4>2. IsOpen(b) => Emission(b, open[b]) \in closed'
        BY <1>0
      <4>3. /\ Emission(b, open[b]).bin = b
            /\ Emission(b, open[b]).start = open[b].start
            /\ Emission(b, open[b]).end = open[b].last
        BY DEF Emission
      <4>. QED BY <1>0, <4>1, <4>2, <4>3
    <3>. QED BY <2>3, <3>1 DEF CoverInv
  <2>. QED BY <2>4, <2>5, <2>9, <2>10
<1>. QED BY <1>0, <1>1 DEF StreamInv

(* Every step keeps the invariant of the stream, with the types. *)
StreamIInv == IInv /\ StreamInv

LEMMA NextStreamIInv == StreamIInv /\ [Next]_trackerVars => StreamIInv'
<1>. SUFFICES ASSUME StreamIInv, [Next]_trackerVars PROVE StreamIInv'
  OBVIOUS
<1>0. IInv /\ TypeOK /\ StreamInv
  BY DEF StreamIInv, IInv
<1>1. StreamInv'
  <2>1. CASE \E n \in BlockSizes :
               \E mask \in [Bins -> SUBSET (0 .. n - 1)] : Update(n, mask)
    BY <1>0, <2>1, UpdateStreamInv, TrackerAssumption
  <2>2. CASE Flush
    BY <1>0, <2>2, FlushStreamInv
  <2>3. CASE UNCHANGED trackerVars
    BY <1>0, <2>3
       DEF StreamInv, PastInv, OpenInv, ClosedInv, CoverInv, IsOpen, trackerVars
  <2>. QED BY <2>1, <2>2, <2>3 DEF Next
<1>. QED BY <1>0, <1>1, NextIInv DEF StreamIInv

(* The invariant of the stream holds throughout. *)
LEMMA AlwaysStreamIInv == Spec => []StreamIInv
<1>1. Init => StreamIInv
  BY InitIInv, InitStreamInv DEF StreamIInv
<1>. QED BY <1>1, NextStreamIInv, PTL DEF Spec
-----------------------------------------------------------------------------
(* What the invariant says of the emissions.                               *)

(* The emissions of a bin are exactly the bursts of what was heard. *)
LEMMA ExtentsAreBursts ==
  ASSUME TypeOK, StreamInv, NEW b \in Bins
  PROVE  Extents(b) = Promise!Bursts(b)
<1>0. /\ heard[b] \subseteq Nat /\ cuts[b] \subseteq Nat
      /\ OpenInv(b) /\ ClosedInv(b) /\ CoverInv(b)
  BY DEF TypeOK, StreamInv
<1>1. ASSUME NEW x \in Extents(b)
      PROVE  /\ x = [start |-> x.start, end |-> x.end]
             /\ IsBurst(heard[b], cuts[b], x.start, x.end)
  <2>1. CASE \E e \in closed : e.bin = b
                               /\ x = [start |-> e.start, end |-> e.end]
    BY <1>0, <2>1 DEF ClosedInv, ClosedIn
  <2>2. CASE IsOpen(b) /\ x = [start |-> open[b].start, end |-> open[b].last]
    BY <1>0, <2>2 DEF OpenInv, OpenIn
  <2>. QED BY <1>1, <2>1, <2>2 DEF Extents
<1>2. Extents(b) \subseteq Promise!Bursts(b)
  BY <1>1, BurstsAreThese
<1>3. ASSUME NEW y \in Promise!Bursts(b)
      PROVE  y \in Extents(b)
  <2>1. /\ y = [start |-> y.start, end |-> y.end]
        /\ IsBurst(heard[b], cuts[b], y.start, y.end)
    BY <1>3, BurstsAreThese
  <2>2. y.start \in heard[b]
    BY <2>1 DEF IsBurst
  <2>3. \E x \in Extents(b) : x.start <= y.start /\ y.start <= x.end
    <3>1. CASE /\ IsOpen(b) /\ open[b].start <= y.start
               /\ y.start <= open[b].last
      <4>1. [start |-> open[b].start, end |-> open[b].last] \in Extents(b)
        BY <3>1 DEF Extents
      <4>. QED BY <3>1, <4>1
    <3>2. CASE \E e \in closed : e.bin = b /\ e.start <= y.start
                                 /\ y.start <= e.end
      <4>1. PICK e \in closed : e.bin = b /\ e.start <= y.start
                                /\ y.start <= e.end
        BY <3>2
      <4>2. [start |-> e.start, end |-> e.end] \in Extents(b)
        BY <4>1 DEF Extents
      <4>. QED BY <4>1, <4>2
    <3>. QED BY <1>0, <2>2, <3>1, <3>2 DEF CoverInv
  <2>4. PICK x \in Extents(b) : x.start <= y.start /\ y.start <= x.end
    BY <2>3
  <2>5. x.start = y.start /\ x.end = y.end
    BY <1>0, <1>1, <2>1, <2>4, BurstsAreDisjoint
  <2>. QED BY <1>1, <2>1, <2>4, <2>5
<1>. QED BY <1>2, <1>3

(* However the stream is cut in blocks, the emissions of a bin are the     *)
(* chains of its detections: none lost, split, merged or reported twice.   *)
THEOREM Faithful == Spec => []EmissionsAreBursts
<1>1. StreamIInv => EmissionsAreBursts
  BY ExtentsAreBursts DEF StreamIInv, IInv, EmissionsAreBursts
<1>. QED BY <1>1, AlwaysStreamIInv, PTL

(* The baseband of an emission has every frame it was detected in and, but *)
(* for silence inside the hangover, no other; and its count of frames lies *)
(* between the detections and the length.                                  *)
THEOREM Whole == Spec => []BasebandIsWhole
<1>1. ASSUME StreamIInv PROVE BasebandIsWhole
  <2>1. ASSUME NEW e \in closed
        PROVE  WholeIn(heard[e.bin], e.start, e.end, e.detectedFrames, e.iq)
    <3>1. e.bin \in Bins
      BY <1>1 DEF StreamIInv, IInv, TypeOK, ClosedEmission
    <3>2. ClosedInv(e.bin)
      BY <1>1, <3>1 DEF StreamIInv, StreamInv
    <3>. QED BY <3>2 DEF ClosedInv, ClosedIn
  <2>. QED BY <2>1 DEF BasebandIsWhole, WholeIn
<1>. QED BY <1>1, AlwaysStreamIInv, PTL

(* An open emission holds and lasts at most a hangover per frame counted:  *)
(* what the cap on counted frames bounds of the buffer.                    *)
THEOREM BufferIsBounded == Spec => []BufferBound
<1>1. ASSUME StreamIInv PROVE BufferBound
  <2>1. ASSUME NEW b \in Bins, IsOpen(b)
        PROVE  /\ Cardinality(open[b].iq) <= open[b].frames * SilencePerFrame
               /\ open[b].last - open[b].start + 1
                    <= open[b].frames * SilencePerFrame
    <3>1. /\ open[b].start \in Nat /\ open[b].last \in Nat
          /\ open[b].frames \in Nat
          /\ OpenIn(heard[b], cuts[b], open[b])
      BY <1>1, <2>1 DEF StreamIInv, IInv, TypeOK, OpenEmission, IsOpen,
                        StreamInv, OpenInv
    <3>2. PICK sp \in Nat : sp = SilencePerFrame /\ sp >= 1
      BY SilenceIsPositive
    <3>3. PICK s \in Nat, l \in Nat, m \in Nat :
            s = open[b].start /\ l = open[b].last /\ m = open[b].frames
      BY <3>1
    <3>4. /\ open[b].iq \subseteq s .. l + sp - 1
          /\ l - s <= (m - 1) * sp /\ s <= l
      BY <3>1, <3>2, <3>3 DEF OpenIn, WholeIn, IsBurst
    <3>5. (m - 1) * sp + sp = m * sp /\ (m - 1) * sp \in Int
      BY <3>2
    <3>6. /\ IsFiniteSet(s .. l + sp - 1)
          /\ Cardinality(s .. l + sp - 1) = l + sp - s
      <4>1. l + sp - 1 \in Int /\ ~(s > l + sp - 1)
            /\ (l + sp - 1) - s + 1 = l + sp - s
        BY <3>2, <3>4
      <4>2. /\ IsFiniteSet(s .. l + sp - 1)
            /\ Cardinality(s .. l + sp - 1)
                 = IF s > l + sp - 1 THEN 0 ELSE (l + sp - 1) - s + 1
        BY <4>1, FS_Interval
      <4>. QED BY <4>1, <4>2
    <3>7. Cardinality(open[b].iq) <= l + sp - s
          /\ Cardinality(open[b].iq) \in Nat
      <4>1. open[b].iq \in SUBSET (s .. l + sp - 1)
        BY <3>4
      <4>2. IsFiniteSet(open[b].iq)
            /\ Cardinality(open[b].iq) <= Cardinality(s .. l + sp - 1)
        BY <3>6, <4>1, FS_Subset
      <4>. QED BY <3>6, <4>2, FS_CardinalityType
    <3>8. Cardinality(open[b].iq) <= m * sp
      BY <3>2, <3>4, <3>5, <3>7
    <3>9. l - s + 1 <= m * sp
      BY <3>2, <3>4, <3>5
    <3>. QED BY <3>2, <3>3, <3>8, <3>9
  <2>2. OpenIsCurrent
    BY <1>1 DEF StreamIInv, IInv
  <2>. QED BY <2>1, <2>2 DEF BufferBound
<1>. QED BY <1>1, AlwaysStreamIInv, PTL
-----------------------------------------------------------------------------
(* The tracker implements BurstStream.                                     *)

(* What the promise calls reported are the closed emissions. *)
LEMMA ReportedIs ==
  ASSUME NEW b
  PROVE  Promise!Reported(b)
           = {[start |-> e.start, end |-> e.end] :
                 e \in {c \in closed : c.bin = b}}
<1>. DEFINE R == {[bin |-> e.bin, start |-> e.start, end |-> e.end] : e \in closed}
            A == {[start |-> r.start, end |-> r.end] :
                     r \in {q \in R : q.bin = b}}
            B == {[start |-> e.start, end |-> e.end] :
                     e \in {c \in closed : c.bin = b}}
<1>1. Promise!Reported(b) = A
  BY DEF Promise!Reported
<1>2. ASSUME NEW e \in closed, e.bin = b
      PROVE  [start |-> e.start, end |-> e.end] \in A
  <2>1. PICK r \in R : r = [bin |-> e.bin, start |-> e.start, end |-> e.end]
    OBVIOUS
  <2>. QED BY <1>2, <2>1
<1>3. ASSUME NEW r \in R, r.bin = b
      PROVE  [start |-> r.start, end |-> r.end] \in B
  <2>1. PICK e \in closed :
          r = [bin |-> e.bin, start |-> e.start, end |-> e.end]
    OBVIOUS
  <2>. QED BY <1>3, <2>1
<1>. QED BY <1>1, <1>2, <1>3

(* All and only bursts that are over are reported, at most a frame late. *)
LEMMA ReportsRight == StreamIInv /\ EmissionsAreBursts => Promise!ReportsAreRight
<1>. SUFFICES ASSUME StreamIInv, EmissionsAreBursts, NEW b \in Bins
              PROVE  /\ Promise!Reported(b)
                          \subseteq {x \in Promise!Bursts(b) : Promise!IsOver(b, x)}
                     /\ \A x \in Promise!Bursts(b) :
                          \/ x \in Promise!Reported(b)
                          \/ clock - x.end <= Hangover + 1
  BY DEF Promise!ReportsAreRight
<1>0. /\ OpenIsCurrent /\ frameOffset = clock /\ ClosedInv(b)
      /\ Promise!Bursts(b) = Extents(b)
  BY DEF StreamIInv, IInv, StreamInv, EmissionsAreBursts
<1>1. ASSUME NEW x \in Promise!Reported(b)
      PROVE  x \in Promise!Bursts(b) /\ Promise!IsOver(b, x)
  <2>1. PICK e \in closed : /\ e.bin = b
                            /\ x = [start |-> e.start, end |-> e.end]
    BY <1>1, ReportedIs
  <2>2. x \in Extents(b)
    BY <2>1 DEF Extents
  <2>3. OverAt(cuts[b], clock, e.end)
    BY <1>0, <2>1 DEF ClosedInv, ClosedIn
  <2>. QED BY <1>0, <2>1, <2>2, <2>3 DEF OverAt, Promise!IsOver
<1>2. ASSUME NEW x \in Promise!Bursts(b), x \notin Promise!Reported(b)
      PROVE  clock - x.end <= Hangover + 1
  <2>1. x \in Extents(b)
    BY <1>0
  <2>2. IsOpen(b) /\ x = [start |-> open[b].start, end |-> open[b].last]
    BY <1>2, <2>1, ReportedIs DEF Extents
  <2>. QED BY <1>0, <2>2 DEF OpenIsCurrent
<1>. QED BY <1>1, <1>2

(* A block is frames that go by, and the cap cuts only bursts that have    *)
(* reached it.                                                             *)
LEMMA UpdateIsHear ==
  ASSUME StreamIInv, EmissionsAreBursts', Promise!ReportsAreRight',
         NEW n \in Nat, n # 0,
         NEW mask \in [Bins -> SUBSET (0 .. n - 1)], Update(n, mask)
  PROVE  Promise!Hear
<1>0. TypeOK /\ StreamInv /\ clock \in Nat /\ frameOffset = clock
      /\ MaxFrames \in Nat
  BY TrackerAssumption DEF StreamIInv, IInv, TypeOK, StreamInv
<1>1. clock' = clock + n /\ closed \subseteq closed'
  BY <1>0, UpdateIs
<1>2. ASSUME NEW b \in Bins
      PROVE  /\ heard[b] \subseteq heard'[b]
             /\ heard'[b] \ heard[b] \subseteq clock .. clock' - 1
             /\ cuts[b] \subseteq cuts'[b]
             /\ \A c \in cuts'[b] \ cuts[b] :
                  \E x \in Promise!Bursts(b)' :
                     c = x.end + 1 /\ x.end - x.start + 1 >= MaxFrames
  <2>1. PICK hits \in SUBSET (0 .. n - 1) : hits = mask[b]
    OBVIOUS
  <2>2. /\ heard'[b] = HeardAfter(b, hits)
        /\ cuts'[b] = CutsAfter(b, n, hits)
        /\ ClosedBy(b, n, hits) \subseteq closed'
    BY <1>0, <2>1, UpdateIs
  <2>3. /\ heard[b] \subseteq heard'[b] /\ cuts[b] \subseteq cuts'[b]
        /\ heard'[b] \subseteq Nat
        /\ \A f \in heard'[b] :
             \/ f \in heard[b] /\ f < clock
             \/ f >= clock /\ f < clock + n /\ f - clock \in hits
    <3>1. /\ heard[b] \subseteq HeardAfter(b, hits)
          /\ cuts[b] \subseteq CutsAfter(b, n, hits)
          /\ HeardAfter(b, hits) \subseteq Nat
          /\ \A f \in HeardAfter(b, hits) :
               \/ f \in heard[b] /\ f < clock
               \/ f >= clock /\ f < clock + n /\ f - clock \in hits
      BY <1>0, AddedByBlock
    <3>. QED BY <2>2, <3>1
  <2>4. heard'[b] \ heard[b] \subseteq clock .. clock' - 1
    BY <1>0, <1>1, <2>3
  <2>5. ASSUME NEW c \in cuts'[b] \ cuts[b]
        PROVE  \E x \in Promise!Bursts(b)' :
                  c = x.end + 1 /\ x.end - x.start + 1 >= MaxFrames
    <3>1. PICK q \in Runs(hits) :
            c = clock + q.end + 1 /\ OverCap(b, q, hits)
      BY <1>0, <2>2, <2>5 DEF CutsAfter, CapCuts
    <3>2. PICK w : w = Grown(b, q, hits)
      OBVIOUS
    <3>3. q.start \in Nat /\ q.end \in Nat
      BY RunInBlock
    <3>4. w \in OpenEmission
      BY <1>0, <3>2, GrownType
    <3>5. w.last = clock + q.end
      BY <1>0, <3>2, <3>3, GrownIs
    <3>6. w.frames >= MaxFrames /\ w.frames <= w.last - w.start + 1
      <4>1. WholeIn(HeardAfter(b, hits), w.start, w.last, w.frames, w.iq)
        BY <1>0, <3>2, GrownIsWhole
      <4>. QED BY <3>1, <3>2, <4>1 DEF OverCap, WholeIn
    <3>7. Emission(b, w) \in closed'
      <4>1. Emission(b, w) \in ClosedBy(b, n, hits)
        BY <3>1, <3>2 DEF ClosedBy, ClosesAfter
      <4>. QED BY <2>2, <4>1
    <3>8. [start |-> w.start, end |-> w.last] \in Extents(b)'
      <4>1. /\ Emission(b, w).bin = b /\ Emission(b, w).start = w.start
            /\ Emission(b, w).end = w.last
        BY DEF Emission
      <4>. QED BY <3>7, <4>1 DEF Extents
    <3>9. [start |-> w.start, end |-> w.last] \in Promise!Bursts(b)'
      BY <3>8 DEF EmissionsAreBursts
    <3>10. w.last - w.start + 1 >= MaxFrames
      BY <1>0, <3>4, <3>6 DEF OpenEmission
    <3>11. c = w.last + 1
      BY <1>0, <3>1, <3>3, <3>5
    <3>. QED BY <3>9, <3>10, <3>11
  <2>. QED BY <2>3, <2>4, <2>5
<1>3. clock' > clock
  BY <1>0, <1>1
<1>4. {[bin |-> e.bin, start |-> e.start, end |-> e.end] : e \in closed}
        \subseteq
          {[bin |-> e.bin, start |-> e.start, end |-> e.end] : e \in closed'}
  BY <1>1
<1>. QED BY <1>2, <1>3, <1>4 DEF Promise!Hear

(* flush is the end of the capture: nothing is left unreported. *)
LEMMA FlushIsFinish ==
  ASSUME StreamIInv, EmissionsAreBursts', Promise!ReportsAreRight', Flush
  PROVE  Promise!Finish
<1>0. /\ clock' = clock /\ heard' = heard /\ frameOffset = clock
      /\ open' = [b \in Bins |-> NotOpen]
      /\ closed \subseteq closed'
      /\ cuts' = [c \in Bins |-> IF IsOpen(c) THEN cuts[c] \cup {frameOffset}
                                             ELSE cuts[c]]
  BY DEF Flush, StreamIInv, StreamInv
<1>1. ASSUME NEW b \in Bins
      PROVE  /\ cuts[b] \subseteq cuts'[b]
             /\ cuts'[b] \subseteq cuts[b] \cup {clock}
             /\ Promise!Bursts(b)' \subseteq Promise!Reported(b)'
  <2>1. cuts[b] \subseteq cuts'[b] /\ cuts'[b] \subseteq cuts[b] \cup {clock}
    BY <1>0
  <2>2. Promise!Bursts(b)' = Extents(b)'
    BY DEF EmissionsAreBursts
  <2>3. Extents(b)' = {[start |-> e.start, end |-> e.end] :
                          e \in {c \in closed' : c.bin = b}}
    BY <1>0 DEF Extents, IsOpen
  <2>4. ASSUME NEW e \in closed', e.bin = b
        PROVE  [start |-> e.start, end |-> e.end] \in Promise!Reported(b)'
    <3>. DEFINE R == {[bin |-> d.bin, start |-> d.start, end |-> d.end] :
                         d \in closed'}
    <3>1. PICK r \in R : r = [bin |-> e.bin, start |-> e.start, end |-> e.end]
      OBVIOUS
    <3>2. r \in {q \in R : q.bin = b}
      BY <2>4, <3>1
    <3>3. [start |-> r.start, end |-> r.end] \in Promise!Reported(b)'
      BY <3>2 DEF Promise!Reported
    <3>. QED BY <3>1, <3>3
  <2>. QED BY <2>1, <2>2, <2>3, <2>4
<1>2. {[bin |-> e.bin, start |-> e.start, end |-> e.end] : e \in closed}
        \subseteq
          {[bin |-> e.bin, start |-> e.start, end |-> e.end] : e \in closed'}
  BY <1>0
<1>. QED BY <1>0, <1>1, <1>2 DEF Promise!Finish

(* The tracker keeps the promise of BurstStream, step by step: a block is  *)
(* Hear, or nothing if it is empty, and flush is Finish.                   *)
THEOREM Refinement == Spec => KeepsPromise
<1>1. Init => Promise!Init
  BY DEF Init, Promise!Init
<1>2. ASSUME StreamIInv, EmissionsAreBursts', Promise!ReportsAreRight',
             [Next]_trackerVars
      PROVE  [Promise!Next]_(Promise!streamVars)
  <2>1. ASSUME NEW n \in BlockSizes,
               NEW mask \in [Bins -> SUBSET (0 .. n - 1)], Update(n, mask)
        PROVE  [Promise!Next]_(Promise!streamVars)
    <3>0. n \in Nat /\ clock \in Nat
      BY <1>2, TrackerAssumption DEF StreamIInv, IInv, TypeOK
    <3>1. CASE n = 0
      <4>1. /\ clock' = clock
            /\ UNCHANGED <<heard, closed, cuts>>
        BY <2>1, <3>0, <3>1 DEF Update
      <4>. QED BY <4>1 DEF Promise!streamVars
    <3>2. CASE n # 0
      <4>1. Promise!Hear
        BY <1>2, <2>1, <3>0, <3>2, UpdateIsHear
      <4>. QED BY <4>1 DEF Promise!Next
    <3>. QED BY <3>1, <3>2
  <2>2. CASE Flush
    <3>1. Promise!Finish
      BY <1>2, <2>2, FlushIsFinish
    <3>. QED BY <3>1 DEF Promise!Next
  <2>3. CASE UNCHANGED trackerVars
    BY <2>3 DEF trackerVars, Promise!streamVars
  <2>. QED BY <1>2, <2>1, <2>2, <2>3 DEF Next
<1>. QED
  BY <1>1, <1>2, AlwaysStreamIInv, Faithful, ReportsRight, PTL
     DEF Spec, KeepsPromise, Promise!Spec

-----------------------------------------------------------------------------
(* Nothing is returned twice.                                              *)

(* The closed emissions of a bin lie before the open one, and each has a   *)
(* start of its own.                                                       *)
OnceInv(b) ==
    /\ IsOpen(b) => \A e \in closed : e.bin = b => e.end < open[b].start
    /\ \A e, f \in closed :
           e.bin = b /\ f.bin = b /\ e.start = f.start => e = f

AllOnce == \A b \in Bins : OnceInv(b)

(* Two runs that start together are one. *)
LEMMA RunsStartApart ==
  ASSUME NEW n \in Nat, NEW hits \in SUBSET (0 .. n - 1),
         NEW q \in Runs(hits), NEW r \in Runs(hits), q.end <= r.end
  PROVE  q = r \/ q.end < r.start
<1>1. /\ q \in [start : RunStarts(hits), end : RunEnds(hits)]
      /\ r \in [start : RunStarts(hits), end : RunEnds(hits)]
      /\ q.start <= r.start \/ q.start > r.end
      /\ r.start <= q.start \/ r.start > q.end
  BY DEF Runs
<1>2. /\ r.start \in Nat /\ r.end \in Nat /\ r.start <= r.end /\ r.end \in hits
      /\ q.start \in Nat /\ q.end \in Nat /\ q.start <= q.end /\ q.end \in hits
  BY RunInBlock
<1>3. CASE r.start > q.end
  BY <1>2, <1>3
<1>4. CASE r.start <= q.start
  <2>1. q.start = r.start
    BY <1>1, <1>2, <1>4
  <2>2. ~(q.end < r.end)
    <3>. SUFFICES ASSUME q.end < r.end PROVE FALSE
      OBVIOUS
    <3>0. Hangover \in Nat
      BY TrackerAssumption
    <3>. DEFINE later == {h \in hits : q.end < h}
    <3>1. PICK g \in later : \A h \in later : g <= h
      <4>1. hits \subseteq Nat
        OBVIOUS
      <4>2. later \subseteq Nat /\ r.end \in later
        BY <1>2, <4>1
      <4>. HIDE DEF later
      <4>. QED BY <4>2, LeastExists
    <3>2. g \in hits /\ g \in Nat /\ q.end < g /\ g <= r.end
      BY <1>2, <3>1
    <3>3. r.start < g
      BY <1>2, <2>1, <3>2
    <3>4. PICK f \in hits : f < g /\ g - f <= Hangover
      BY <3>2, <3>3, RunIsChain
    <3>5. f \in Nat /\ f <= q.end
      BY <1>2, <3>1, <3>2, <3>4
    <3>6. g - q.end > Hangover
      BY <3>2, RunIsChain
    <3>. QED BY <1>2, <3>0, <3>2, <3>4, <3>5, <3>6
  <2>3. q.end = r.end
    BY <1>2, <2>2
  <2>. QED BY <2>3, RunsEndApart
<1>. QED BY <1>1, <1>3, <1>4

(* Where the emission of a run starts. *)
LEMMA GrownStarts ==
  ASSUME TypeOK, StreamInv, NEW b \in Bins, NEW n \in Nat,
         NEW hits \in SUBSET (0 .. n - 1), NEW r \in Runs(hits)
  PROVE  /\ Grown(b, r, hits).last = clock + r.end
         /\ Joins(b, r, hits) =>
              /\ Grown(b, r, hits).start = open[b].start
              /\ IsOpen(b) /\ ~Stale(b, n, hits)
              /\ \A h \in hits : r.start <= h
         /\ ~Joins(b, r, hits) => Grown(b, r, hits).start = clock + r.start
<1>0. /\ clock \in Nat /\ frameOffset = clock /\ Hangover \in Nat
      /\ r.start \in Nat /\ r.end \in Nat /\ r.start \in hits
  BY TrackerAssumption, RunInBlock DEF TypeOK, StreamInv
<1>1. ASSUME Joins(b, r, hits)
      PROVE  IsOpen(b) /\ ~Stale(b, n, hits) /\ \A h \in hits : r.start <= h
  <2>1. /\ IsOpen(b) /\ frameOffset + r.start - open[b].last <= Hangover
        /\ \A h \in hits : r.start <= h
    BY <1>1 DEF Joins, FirstRun
  <2>2. open[b].last \in Nat
    BY <2>1 DEF TypeOK, OpenEmission, IsOpen
  <2>3. ~(frameOffset + r.start - open[b].last > Hangover)
    BY <1>0, <2>1, <2>2
  <2>. QED BY <1>0, <2>1, <2>3 DEF Stale
<1>. QED BY <1>0, <1>1, GrownIs

(* What is open lies in the past, and so does what is closed. *)
LEMMA PastIs ==
  ASSUME TypeOK, StreamInv, NEW b \in Bins
  PROVE  /\ clock \in Nat
         /\ IsOpen(b) => /\ open[b].start \in Nat /\ open[b].last \in Nat
                         /\ open[b].start <= open[b].last
                         /\ open[b].last < clock
         /\ \A e \in closed : e.bin = b =>
              /\ e.start \in Nat /\ e.end \in Nat
              /\ e.start <= e.end /\ e.end < clock
<1>0. /\ clock \in Nat /\ heard[b] \subseteq Nat /\ \A f \in heard[b] : f < clock
      /\ OpenInv(b) /\ ClosedInv(b)
  BY DEF TypeOK, StreamInv, PastInv
<1>1. ASSUME NEW s, NEW e, IsBurst(heard[b], cuts[b], s, e)
      PROVE  s \in Nat /\ e \in Nat /\ s <= e /\ e < clock
  BY <1>0, <1>1 DEF IsBurst
<1>. QED BY <1>0, <1>1 DEF OpenInv, OpenIn, ClosedInv, ClosedIn

(* What update returns of a bin starts behind all that was closed, ...     *)
LEMMA ReturnedIsNew ==
  ASSUME TypeOK, StreamInv, NEW b \in Bins, OnceInv(b), NEW n \in Nat,
         NEW hits \in SUBSET (0 .. n - 1), NEW x \in ClosedBy(b, n, hits),
         NEW e \in closed, e.bin = b
  PROVE  e.end < x.start
<1>0. /\ clock \in Nat /\ e.end \in Nat /\ e.end < clock
      /\ IsOpen(b) => e.end < open[b].start
  BY PastIs DEF OnceInv
<1>1. CASE Stale(b, n, hits) /\ x = Emission(b, open[b])
  BY <1>0, <1>1 DEF Stale, Emission
<1>2. CASE \E r \in Runs(hits) : x = Emission(b, Grown(b, r, hits))
  <2>1. PICK r \in Runs(hits) : x = Emission(b, Grown(b, r, hits))
    BY <1>2
  <2>2. x.start = Grown(b, r, hits).start
    BY <2>1 DEF Emission
  <2>3. CASE Joins(b, r, hits)
    <3>1. Joins(b, r, hits) =>
            /\ Grown(b, r, hits).start = open[b].start
            /\ IsOpen(b) /\ ~Stale(b, n, hits)
            /\ \A h \in hits : r.start <= h
      BY <2>1, GrownStarts
    <3>2. Grown(b, r, hits).start = open[b].start /\ IsOpen(b)
      BY <2>3, <3>1
    <3>. QED BY <1>0, <2>2, <3>2
  <2>4. CASE ~Joins(b, r, hits)
    <3>1. Grown(b, r, hits).start = clock + r.start
      BY <2>4, GrownStarts
    <3>2. r.start \in Nat
      BY RunInBlock
    <3>. QED BY <1>0, <2>2, <3>1, <3>2
  <2>. QED BY <2>3, <2>4
<1>. QED BY <1>1, <1>2 DEF ClosedBy

(* each in a place of its own, ...                                         *)
LEMMA ReturnedApart ==
  ASSUME TypeOK, StreamInv, NEW b \in Bins, NEW n \in Nat,
         NEW hits \in SUBSET (0 .. n - 1),
         NEW x \in ClosedBy(b, n, hits), NEW y \in ClosedBy(b, n, hits),
         x.start = y.start
  PROVE  x = y
<1>0. /\ clock \in Nat
      /\ IsOpen(b) => /\ open[b].start \in Nat /\ open[b].last \in Nat
                      /\ open[b].start <= open[b].last /\ open[b].last < clock
  BY PastIs
<1>1. ASSUME NEW r \in Runs(hits), Joins(b, r, hits) \/ Stale(b, n, hits),
             NEW q \in Runs(hits), ~Joins(b, q, hits)
      PROVE  /\ open[b].start # Grown(b, q, hits).start
             /\ IsOpen(b)
  <2>1. IsOpen(b)
    BY <1>1, GrownStarts DEF Stale
  <2>2. Grown(b, q, hits).start = clock + q.start
    BY <1>1, GrownStarts
  <2>3. q.start \in Nat
    BY RunInBlock
  <2>. QED BY <1>0, <2>1, <2>2, <2>3
<1>2. ASSUME NEW q \in Runs(hits), NEW r \in Runs(hits),
             Grown(b, q, hits).start = Grown(b, r, hits).start
      PROVE  q = r
  <2>0. /\ q.start \in Nat /\ q.end \in Nat /\ q.start <= q.end
        /\ r.start \in Nat /\ r.end \in Nat /\ r.start <= r.end
        /\ q.start \in hits /\ r.start \in hits
    BY RunInBlock
  <2>1. q.start = r.start
    <3>1. CASE Joins(b, q, hits) /\ Joins(b, r, hits)
      <4>1. q.start <= r.start /\ r.start <= q.start
        BY <2>0, <3>1, GrownStarts
      <4>. QED BY <2>0, <4>1
    <3>2. CASE ~Joins(b, q, hits) /\ ~Joins(b, r, hits)
      <4>1. clock + q.start = clock + r.start
        BY <1>2, <3>2, GrownStarts
      <4>. QED BY <1>0, <2>0, <4>1
    <3>3. CASE Joins(b, q, hits) /\ ~Joins(b, r, hits)
      <4>1. Grown(b, q, hits).start = open[b].start
        BY <3>3, GrownStarts
      <4>. QED BY <1>1, <1>2, <3>3, <4>1
    <3>4. CASE ~Joins(b, q, hits) /\ Joins(b, r, hits)
      <4>1. Grown(b, r, hits).start = open[b].start
        BY <3>4, GrownStarts
      <4>. QED BY <1>1, <1>2, <3>4, <4>1
    <3>. QED BY <3>1, <3>2, <3>3, <3>4
  <2>2. q.end <= r.end \/ r.end <= q.end
    BY <2>0
  <2>3. ~(q.end < r.start) /\ ~(r.end < q.start)
    BY <2>0, <2>1
  <2>. QED BY <2>2, <2>3, RunsStartApart
<1>3. ASSUME Stale(b, n, hits), NEW r \in Runs(hits)
      PROVE  open[b].start # Grown(b, r, hits).start
  <2>1. ~Joins(b, r, hits)
    BY <1>3, GrownStarts
  <2>. QED BY <1>1, <1>3, <2>1
<1>4. ASSUME NEW z \in ClosedBy(b, n, hits)
      PROVE  \/ /\ Stale(b, n, hits) /\ z = Emission(b, open[b])
                /\ z.start = open[b].start
             \/ \E r \in Runs(hits) : /\ z = Emission(b, Grown(b, r, hits))
                                      /\ z.start = Grown(b, r, hits).start
  BY <1>4 DEF ClosedBy, Emission
<1>. QED BY <1>2, <1>3, <1>4

(* and before what is open after it.                                       *)
LEMMA ReturnedIsBehind ==
  ASSUME TypeOK, StreamInv, NEW b \in Bins, OnceInv(b), NEW n \in Nat,
         NEW hits \in SUBSET (0 .. n - 1), OpenAfter(b, n, hits) # NotOpen
  PROVE  /\ \A e \in closed : e.bin = b => e.end < OpenAfter(b, n, hits).start
         /\ \A x \in ClosedBy(b, n, hits) :
              x.end < OpenAfter(b, n, hits).start
<1>0. /\ clock \in Nat
      /\ IsOpen(b) => /\ open[b].start \in Nat /\ open[b].last \in Nat
                      /\ open[b].start <= open[b].last /\ open[b].last < clock
                      /\ \A e \in closed : e.bin = b => e.end < open[b].start
      /\ \A e \in closed : e.bin = b => e.end \in Nat /\ e.end < clock
  BY PastIs DEF OnceInv
<1>1. CASE hits = {}
  <2>1. /\ IsOpen(b) /\ ~Stale(b, n, {})
        /\ OpenAfter(b, n, hits) = Hushed(b, n)
    BY <1>1 DEF OpenAfter, OpenAfterSilence
  <2>2. Hushed(b, n).start = open[b].start
    BY <2>1, HushedIsOpen
  <2>3. ClosedBy(b, n, hits) = {}
    BY <1>1, <2>1 DEF ClosedBy, Runs, RunStarts
  <2>. QED BY <1>0, <2>1, <2>2, <2>3
<1>2. CASE hits # {}
  <2>1. PICK r \in Runs(hits) :
          /\ LastRun(r, hits)
          /\ OpenAfter(b, n, hits) = IF ClosesAfter(b, r, n, hits)
                                     THEN NotOpen ELSE Grown(b, r, hits)
    BY <1>2, OpenAfterIsGrown
  <2>2. /\ ~ClosesAfter(b, r, n, hits)
        /\ OpenAfter(b, n, hits) = Grown(b, r, hits)
    BY <2>1
  <2>3. /\ r.start \in Nat /\ r.end \in Nat /\ r.start <= r.end
        /\ r.start \in hits
    BY RunInBlock
  <2>4. ASSUME NEW q \in Runs(hits)
        PROVE  q = r \/ q.end < r.start
    <3>1. q.end <= r.end
      BY <2>1, RunInBlock DEF LastRun
    <3>. QED BY <3>1, RunsStartApart
  <2>5. CASE Joins(b, r, hits)
    <3>1. /\ Grown(b, r, hits).start = open[b].start
          /\ IsOpen(b) /\ ~Stale(b, n, hits)
          /\ \A h \in hits : r.start <= h
      BY <2>5, GrownStarts
    <3>2. ASSUME NEW q \in Runs(hits) PROVE q = r
      <4>1. q.end \in hits /\ q.end \in Nat
        BY RunInBlock
      <4>. QED BY <2>3, <2>4, <3>1, <4>1
    <3>3. ClosedBy(b, n, hits) = {}
      BY <2>2, <3>1, <3>2 DEF ClosedBy
    <3>. QED BY <1>0, <2>2, <3>1, <3>3
  <2>6. CASE ~Joins(b, r, hits)
    <3>1. OpenAfter(b, n, hits).start = clock + r.start
      BY <2>2, <2>6, GrownStarts
    <3>2. ASSUME NEW e \in closed, e.bin = b PROVE e.end < clock + r.start
      BY <1>0, <2>3, <3>2
    <3>3. ASSUME NEW x \in ClosedBy(b, n, hits) PROVE x.end < clock + r.start
      <4>1. CASE Stale(b, n, hits) /\ x = Emission(b, open[b])
        BY <1>0, <2>3, <4>1 DEF Stale, Emission
      <4>2. CASE \E q \in Runs(hits) : /\ ClosesAfter(b, q, n, hits)
                                       /\ x = Emission(b, Grown(b, q, hits))
        <5>1. PICK q \in Runs(hits) : /\ ClosesAfter(b, q, n, hits)
                                      /\ x = Emission(b, Grown(b, q, hits))
          BY <4>2
        <5>2. q.end < r.start /\ q.end \in Nat
          BY <2>2, <2>4, <5>1, RunInBlock
        <5>3. x.end = clock + q.end
          BY <5>1, GrownStarts DEF Emission
        <5>. QED BY <1>0, <2>3, <5>2, <5>3
      <4>. QED BY <4>1, <4>2 DEF ClosedBy
    <3>. QED BY <3>1, <3>2, <3>3
  <2>. QED BY <2>5, <2>6
<1>. QED BY <1>1, <1>2

LEMMA UpdateOnce ==
  ASSUME TypeOK, StreamInv, AllOnce, NEW n \in Nat,
         NEW mask \in [Bins -> SUBSET (0 .. n - 1)], Update(n, mask)
  PROVE  AllOnce' /\ completed' \cap closed = {}
<1>1. CASE n = 0
  <2>1. completed' = {} /\ UNCHANGED <<open, closed>>
    BY <1>1 DEF Update
  <2>. QED BY <2>1 DEF AllOnce, OnceInv, IsOpen
<1>2. CASE n # 0
  <2>1. completed' = UNION {ClosedBy(b, n, mask[b]) : b \in Bins}
    BY <1>2 DEF Update
  <2>2. completed' \cap closed = {}
    <3>. SUFFICES ASSUME NEW x \in completed', x \in closed PROVE FALSE
      OBVIOUS
    <3>1. PICK b \in Bins : x \in ClosedBy(b, n, mask[b])
      BY <2>1
    <3>2. x.bin = b /\ mask[b] \in SUBSET (0 .. n - 1) /\ OnceInv(b)
      BY <3>1, ClosedByBin DEF AllOnce
    <3>3. x.end < x.start
      BY <3>1, <3>2, ReturnedIsNew
    <3>4. x.start \in Nat /\ x.end \in Nat /\ x.start <= x.end
      BY <3>2, PastIs
    <3>. QED BY <3>3, <3>4
  <2>3. ASSUME NEW b \in Bins PROVE OnceInv(b)'
    <3>0. /\ mask[b] \in SUBSET (0 .. n - 1) /\ OnceInv(b)
          /\ open'[b] = OpenAfter(b, n, mask[b])
          /\ \A e : e \in closed' /\ e.bin = b =>
               e \in closed \/ e \in ClosedBy(b, n, mask[b])
      BY <1>2, UpdateIs DEF AllOnce
    <3>1. ASSUME OpenAfter(b, n, mask[b]) # NotOpen,
                 NEW e \in closed', e.bin = b
          PROVE  e.end < OpenAfter(b, n, mask[b]).start
      BY <3>0, <3>1, ReturnedIsBehind
    <3>2. ASSUME NEW e \in closed', NEW f \in closed', e.bin = b, f.bin = b,
                 e.start = f.start
          PROVE  e = f
      <4>1. ASSUME NEW x \in ClosedBy(b, n, mask[b]), NEW y \in closed,
                   y.bin = b, x.start = y.start
            PROVE  FALSE
        <5>1. y.end < x.start
          BY <3>0, <4>1, ReturnedIsNew
        <5>2. y.start \in Nat /\ y.end \in Nat /\ y.start <= y.end
          BY <4>1, PastIs
        <5>. QED BY <4>1, <5>1, <5>2
      <4>2. CASE e \in closed /\ f \in closed
        BY <3>0, <3>2, <4>2 DEF OnceInv
      <4>3. CASE e \notin closed /\ f \notin closed
        <5>1. e \in ClosedBy(b, n, mask[b]) /\ f \in ClosedBy(b, n, mask[b])
          BY <3>0, <3>2, <4>3
        <5>. QED BY <3>0, <3>2, <5>1, ReturnedApart
      <4>4. CASE e \in closed /\ f \notin closed
        BY <3>0, <3>2, <4>1, <4>4
      <4>5. CASE e \notin closed /\ f \in closed
        BY <3>0, <3>2, <4>1, <4>5
      <4>. QED BY <4>2, <4>3, <4>4, <4>5
    <3>3. (IsOpen(b))' => OpenAfter(b, n, mask[b]) # NotOpen
      BY <3>0 DEF IsOpen
    <3>. QED BY <3>0, <3>1, <3>2, <3>3 DEF OnceInv
  <2>. QED BY <2>2, <2>3 DEF AllOnce
<1>. QED BY <1>1, <1>2

LEMMA FlushOnce ==
  ASSUME TypeOK, StreamInv, AllOnce, Flush
  PROVE  AllOnce' /\ completed' \cap closed = {}
<1>1. /\ completed' = {Emission(b, open[b]) : b \in {c \in Bins : IsOpen(c)}}
      /\ open' = [b \in Bins |-> NotOpen]
      /\ closed' = closed \cup completed'
  BY DEF Flush
<1>2. ASSUME NEW x \in completed'
      PROVE  /\ x.bin \in Bins /\ IsOpen(x.bin) /\ x = Emission(x.bin, open[x.bin])
             /\ x.start = open[x.bin].start
             /\ \A e \in closed : e.bin = x.bin => e.end < x.start
  <2>1. PICK b \in Bins : IsOpen(b) /\ x = Emission(b, open[b])
    BY <1>1
  <2>2. x.bin = b /\ x.start = open[b].start
    BY <2>1 DEF Emission
  <2>3. OnceInv(b)
    BY DEF AllOnce
  <2>. QED BY <2>1, <2>2, <2>3 DEF OnceInv
<1>3. ASSUME NEW x \in completed', NEW y \in closed, y.bin = x.bin,
             x.start = y.start
      PROVE  FALSE
  <2>1. y.end < x.start /\ x.bin \in Bins
    BY <1>2, <1>3
  <2>2. y.start \in Nat /\ y.end \in Nat /\ y.start <= y.end
    BY <1>3, <2>1, PastIs
  <2>. QED BY <1>3, <2>1, <2>2
<1>4. ASSUME NEW b \in Bins PROVE OnceInv(b)'
  <2>1. ~(IsOpen(b))'
    BY <1>1 DEF IsOpen
  <2>2. ASSUME NEW e \in closed', NEW f \in closed', e.bin = b, f.bin = b,
               e.start = f.start
        PROVE  e = f
    <3>1. CASE e \in closed /\ f \in closed
      BY <2>2, <3>1 DEF AllOnce, OnceInv
    <3>2. CASE e \in completed' /\ f \in completed'
      BY <1>2, <2>2, <3>2
    <3>3. CASE e \in completed' /\ f \in closed
      BY <1>3, <2>2, <3>3
    <3>4. CASE e \in closed /\ f \in completed'
      BY <1>3, <2>2, <3>4
    <3>. QED BY <1>1, <2>2, <3>1, <3>2, <3>3, <3>4
  <2>. QED BY <2>1, <2>2 DEF OnceInv
<1>. QED BY <1>3, <1>4 DEF AllOnce

(* Together with what the proofs so far rest on. *)
OnceIInv == StreamIInv /\ AllOnce

LEMMA NewAreNew == OnceIInv /\ Next => completed' \cap closed = {}
<1>. SUFFICES ASSUME OnceIInv, Next PROVE completed' \cap closed = {}
  OBVIOUS
<1>1. TypeOK /\ StreamInv /\ AllOnce
  BY DEF OnceIInv, StreamIInv, IInv
<1>2. CASE \E n \in BlockSizes :
             \E mask \in [Bins -> SUBSET (0 .. n - 1)] : Update(n, mask)
  BY <1>1, <1>2, UpdateOnce, TrackerAssumption
<1>3. CASE Flush
  BY <1>1, <1>3, FlushOnce
<1>. QED BY <1>2, <1>3 DEF Next

LEMMA AlwaysOnce == Spec => []OnceIInv
<1>1. Init => OnceIInv
  <2>. SUFFICES ASSUME Init PROVE OnceIInv
    OBVIOUS
  <2>1. StreamIInv
    BY InitIInv, InitStreamInv DEF StreamIInv
  <2>2. AllOnce
    BY DEF Init, AllOnce, OnceInv, IsOpen
  <2>. QED BY <2>1, <2>2 DEF OnceIInv
<1>2. OnceIInv /\ [Next]_trackerVars => OnceIInv'
  <2>. SUFFICES ASSUME OnceIInv, [Next]_trackerVars PROVE OnceIInv'
    OBVIOUS
  <2>1. TypeOK /\ StreamInv /\ AllOnce /\ StreamIInv'
    BY NextStreamIInv DEF OnceIInv, StreamIInv, IInv
  <2>2. CASE \E n \in BlockSizes :
               \E mask \in [Bins -> SUBSET (0 .. n - 1)] : Update(n, mask)
    BY <2>1, <2>2, UpdateOnce, TrackerAssumption DEF OnceIInv
  <2>3. CASE Flush
    BY <2>1, <2>3, FlushOnce DEF OnceIInv
  <2>4. CASE UNCHANGED trackerVars
    BY <2>1, <2>4 DEF OnceIInv, AllOnce, OnceInv, IsOpen, trackerVars
  <2>. QED BY <2>2, <2>3, <2>4 DEF Next
<1>. QED BY <1>1, <1>2, PTL DEF Spec

(* What update and flush return they have not returned before: an emission *)
(* leaves _open when it is closed, and no run of a block goes into two.    *)
THEOREM ReturnedOnce == Spec => NothingIsReturnedTwice
<1>1. OnceIInv /\ [Next]_trackerVars => [completed' \cap closed = {}]_trackerVars
  BY NewAreNew
<1>. QED BY <1>1, AlwaysOnce, PTL DEF Spec, NothingIsReturnedTwice

(* The emissions of finitely many bins are finitely many: each has a bin   *)
(* and a start of its own.                                                 *)
LEMMA ClosedIsFinite == OnceIInv /\ IsFiniteSet(Bins) => IsFiniteSet(closed)
<1>. SUFFICES ASSUME OnceIInv, IsFiniteSet(Bins) PROVE IsFiniteSet(closed)
  OBVIOUS
<1>1. TypeOK /\ StreamInv /\ AllOnce
  BY DEF OnceIInv, StreamIInv, IInv
<1>2. ASSUME NEW e \in closed
      PROVE  e.bin \in Bins /\ e.start \in 0 .. clock
  <2>1. e.bin \in Bins
    BY <1>1 DEF TypeOK, ClosedEmission
  <2>2. /\ clock \in Nat /\ e.start \in Nat /\ e.end \in Nat
        /\ e.start <= e.end /\ e.end < clock
    BY <1>1, <2>1, PastIs
  <2>. QED BY <2>1, <2>2
<1>3. PICK f : f = [e \in closed |-> <<e.bin, e.start>>]
  OBVIOUS
<1>4. f \in Injection(closed, Bins \X (0 .. clock))
  <2>1. f \in [closed -> Bins \X (0 .. clock)]
    BY <1>2, <1>3
  <2>2. ASSUME NEW d \in closed, NEW e \in closed, f[d] = f[e] PROVE d = e
    <3>1. d.bin = e.bin /\ d.start = e.start /\ d.bin \in Bins
      BY <1>2, <1>3, <2>2
    <3>. QED BY <1>1, <3>1 DEF AllOnce, OnceInv
  <2>. QED BY <2>1, <2>2 DEF Injection, IsInjective
<1>5. IsFiniteSet(Bins \X (0 .. clock))
  <2>1. clock \in Int /\ 0 \in Int
    BY <1>1 DEF TypeOK
  <2>2. IsFiniteSet(0 .. clock)
    BY <2>1, FS_Interval
  <2>. QED BY <2>2, FS_Product
<1>. QED BY <1>4, <1>5, FS_Injection
=============================================================================
