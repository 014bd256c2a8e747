----------------------------- MODULE NodeProofs ----------------------------
(* Theorems about Node, for every number of bins and destinations, every   *)
(* blanking, hangover, cap and gate, and every cut of the stream in        *)
(* blocks.                                                                 *)
(*                                                                         *)
(* The node's tracker is the module Tracker, and what is proved of Tracker *)
(* holds of it here.  Grouping is a fold over the emissions of a block:    *)
(* what it yields is proved by least counterexample, on the subsets of a   *)
(* finite set, from the library's theorem that they are well-founded.      *)
EXTENDS Node, SequenceTheorems, FiniteSetTheorems, TLAPS

TP == INSTANCE TrackerProofs

-----------------------------------------------------------------------------
(* The tracker in the node.                                                *)

LEMMA TrackerParameters == TP!TrackerAssumption
BY NodeAssumption DEF NodeAssumption, TP!TrackerAssumption

(* Tracker and its proofs are instances of one module. *)
LEMMA SameUpdate ==
  ASSUME NEW n, NEW mask
  PROVE  T!Update(n, mask) <=> TP!Update(n, mask)
BY DEF T!Update, TP!Update, T!OpenAfter, TP!OpenAfter,
       T!OpenAfterSilence, TP!OpenAfterSilence, T!OpenAfterHits,
       TP!OpenAfterHits, T!ClosesAfter, TP!ClosesAfter, T!Grown, TP!Grown,
       T!Base, TP!Base, T!Joins, TP!Joins, T!IsOpen, TP!IsOpen, T!NotOpen,
       TP!NotOpen, T!FirstRun, TP!FirstRun, T!LastRun, TP!LastRun, T!Over,
       TP!Over, T!OverCap, TP!OverCap, T!TrailingGap, TP!TrailingGap, T!Runs,
       TP!Runs, T!RunStarts, TP!RunStarts, T!RunEnds, TP!RunEnds, T!ClosedBy,
       TP!ClosedBy, T!Emission, TP!Emission, T!Stale, TP!Stale, T!Hushed,
       TP!Hushed, T!CapCuts, TP!CapCuts

LEMMA SameFlush == T!Flush <=> TP!Flush
BY DEF T!Flush, TP!Flush, T!Emission, TP!Emission, T!IsOpen, TP!IsOpen,
       T!NotOpen, TP!NotOpen

LEMMA SameInit == T!Init <=> TP!Init
BY DEF T!Init, TP!Init, T!NotOpen, TP!NotOpen

(* The node's steps, one by one. *)
Blanked(mask) == [b \in Bins |-> IF b \in Excluded THEN {} ELSE mask[b]]

LEMMA NodeSteps ==
  ASSUME [Next]_vars
  PROVE  \/ \E n \in BlockSizes : \E mask \in [Bins -> SUBSET (0 .. n - 1)] :
              T!Update(n, mask) /\ HandOver("writing", "reading")
              /\ phase = "reading"
         \/ EndOfStream \/ Write \/ WriteFails \/ Kill \/ UNCHANGED vars
<1>1. CASE ReadSome
  <2>0. PICK n \in BlockSizes :
          \E m \in [Bins \ Excluded -> SUBSET (0 .. n - 1)] :
              ReadBlock(n, Blanked(m))
    BY <1>1 DEF ReadSome, Blanked
  <2>1. PICK m \in [Bins \ Excluded -> SUBSET (0 .. n - 1)] :
          ReadBlock(n, Blanked(m))
    BY <2>0
  <2>2. Blanked(Blanked(m)) \in [Bins -> SUBSET (0 .. n - 1)]
    BY DEF Blanked
  <2>3. /\ phase = "reading" /\ T!Update(n, Blanked(Blanked(m)))
        /\ HandOver("writing", "reading")
    BY <2>1 DEF ReadBlock, Blanked
  <2>. QED BY <2>2, <2>3
<1>. QED BY <1>1 DEF Next

(* Every step of the node is one of the tracker or leaves it alone.        *)
LEMMA TrackerStep ==
  ASSUME [Next]_vars
  PROVE  [TP!Next]_(TP!trackerVars)
<1>1. CASE \E n \in BlockSizes : \E mask \in [Bins -> SUBSET (0 .. n - 1)] :
             T!Update(n, mask)
  BY <1>1, SameUpdate DEF TP!Next
<1>2. CASE EndOfStream
  BY <1>2, SameFlush DEF EndOfStream, TP!Next
<1>3. CASE Write \/ WriteFails \/ Kill \/ UNCHANGED vars
  <2>1. UNCHANGED trackerVars
    BY <1>3 DEF Write, WriteFails, Kill, vars
  <2>. QED BY <2>1 DEF trackerVars, TP!trackerVars
<1>. QED BY <1>1, <1>2, <1>3, NodeSteps

LEMMA NodeTracks == Spec => TP!Spec
<1>1. Init => TP!Init
  BY SameInit DEF Init
<1>2. [Next]_vars => [TP!Next]_(TP!trackerVars)
  BY TrackerStep
<1>. QED BY <1>1, <1>2, PTL DEF Spec, TP!Spec

LEMMA TrackerHolds ==
  Spec => [](TP!OnceIInv /\ TP!EmissionsAreBursts /\ TP!BasebandIsWhole)
BY NodeTracks, TrackerParameters, TP!AlwaysOnce, TP!Faithful, TP!Whole, PTL

-----------------------------------------------------------------------------
(* Grouping the emissions of a block.                                      *)

Fits(groups, e) ==
    {i \in DOMAIN groups : \E f \in groups[i] : IsAdjacent(e, f)}

(* Among emissions of bounded starts there is a last one. *)
LEMMA LastIsOne ==
  ASSUME NEW now \in Nat, NEW s, s # {},
         \A e \in s : e.start \in 0 .. now /\ e.bin \in Bins
  PROVE  LastOf(s) \in s
<1>. DEFINE starts == {e.start : e \in s}
<1>1. starts \subseteq 0 .. now /\ starts # {}
  OBVIOUS
<1>2. PICK m \in starts : \A x \in starts : x <= m
  BY <1>1, TP!GreatestExists, TrackerParameters
<1>. DEFINE bins == {e.bin : e \in {f \in s : f.start = m}}
<1>3. bins \subseteq 0 .. NumBins - 1 /\ bins # {} /\ NumBins - 1 \in Nat
  BY NodeAssumption DEF NodeAssumption, Bins
<1>4. PICK b \in bins : \A x \in bins : x <= b
  BY <1>3, TP!GreatestExists, TrackerParameters
<1>5. PICK e \in s : e.start = m /\ e.bin = b
  OBVIOUS
<1>6. ASSUME NEW f \in s PROVE ~Before(e, f)
  <2>1. f.start <= m /\ f.start \in Nat /\ m \in Nat
    BY <1>1, <1>2
  <2>2. f.start = m => f.bin <= b /\ f.bin \in Nat /\ b \in Nat
    BY <1>3, <1>4
  <2>. QED BY <1>5, <2>1, <2>2 DEF Before
<1>. QED BY <1>5, <1>6 DEF LastOf

(* An emission opens a group of its own, or goes into one that fits. *)
LEMMA PlaceIs ==
  ASSUME NEW s, NEW groups \in Seq(SUBSET s), NEW e
  PROVE  \/ /\ Fits(groups, e) = {}
            /\ Place(groups, e) = Append(groups, {e})
         \/ \E i \in Fits(groups, e) :
                Place(groups, e) = [groups EXCEPT ![i] = @ \cup {e}]
<1>1. CASE Fits(groups, e) = {}
  BY <1>1 DEF Fits, Place
<1>2. CASE Fits(groups, e) # {}
  <2>1. Fits(groups, e) \subseteq Nat
    BY DEF Fits
  <2>2. \E i \in Fits(groups, e) : \A j \in Fits(groups, e) : i <= j
    BY <1>2, <2>1, TP!LeastExists, TrackerParameters
  <2>3. PICK i : i = CHOOSE k \in Fits(groups, e) :
                         \A j \in Fits(groups, e) : k <= j
    OBVIOUS
  <2>4. i \in Fits(groups, e)
    BY <2>2, <2>3
  <2>5. Place(groups, e) = [groups EXCEPT ![i] = @ \cup {e}]
    BY <1>2, <2>3 DEF Fits, Place
  <2>. QED BY <2>4, <2>5
<1>. QED BY <1>1, <1>2

(* A pair of neighbours in S with no third one beside them. *)
Lone(S, e, f) ==
    /\ IsAdjacent(e, f)
    /\ \A g \in S \ {e, f} : ~IsAdjacent(e, g) /\ ~IsAdjacent(f, g)

(* What grouping the part s of the emissions S has to yield: every one in  *)
(* one group and in no other, and lone pairs together.                     *)
Grouped(S, s, groups) ==
    /\ groups \in Seq(SUBSET s)
    /\ \A i \in DOMAIN groups : groups[i] # {}
    /\ \A e \in s : \E i \in DOMAIN groups : e \in groups[i]
    /\ \A i, j \in DOMAIN groups : i # j => groups[i] \cap groups[j] = {}
    /\ \A e, f \in s : Lone(S, e, f) =>
           \E i \in DOMAIN groups : e \in groups[i] /\ f \in groups[i]

LEMMA AdjacentIsMutual ==
  ASSUME NEW e, NEW f, IsAdjacent(e, f)
  PROVE  IsAdjacent(f, e)
BY DEF IsAdjacent

(* Placing one more emission keeps the groups as they have to be. *)
LEMMA PlaceKeeps ==
  ASSUME NEW S, NEW s \in SUBSET S, NEW x \in S, x \notin s, NEW groups,
         Grouped(S, s, groups)
  PROVE  Grouped(S, s \cup {x}, Place(groups, x))
<1>1. /\ groups \in Seq(SUBSET s)
      /\ \A i \in DOMAIN groups : groups[i] \subseteq s /\ groups[i] # {}
  BY DEF Grouped
<1>2. \A e \in s : \E i \in DOMAIN groups : e \in groups[i]
  BY DEF Grouped
<1>3. \A i, j \in DOMAIN groups : i # j => groups[i] \cap groups[j] = {}
  BY DEF Grouped
<1>4. \A e, f \in s : Lone(S, e, f) =>
          \E i \in DOMAIN groups : e \in groups[i] /\ f \in groups[i]
  BY DEF Grouped
(* The one neighbour of x in a lone pair. *)
<1>5. ASSUME NEW f \in s, Lone(S, x, f) \/ Lone(S, f, x),
             NEW i \in Fits(groups, x)
      PROVE  f \in groups[i]
  <2>1. PICK h \in groups[i] : IsAdjacent(x, h)
    BY <1>5 DEF Fits
  <2>2. h \in s /\ h \in S /\ h # x
    BY <1>1, <1>5 DEF Fits
  <2>3. h = f
    BY <1>5, <2>1, <2>2 DEF Lone
  <2>. QED BY <2>3
<1>6. ASSUME NEW f \in s, Lone(S, x, f) \/ Lone(S, f, x)
      PROVE  Fits(groups, x) # {}
  <2>1. IsAdjacent(x, f)
    BY <1>6, AdjacentIsMutual DEF Lone
  <2>2. PICK i \in DOMAIN groups : f \in groups[i]
    BY <1>2
  <2>. QED BY <2>1, <2>2 DEF Fits
<1>7. CASE Fits(groups, x) = {} /\ Place(groups, x) = Append(groups, {x})
  <2>. DEFINE new == Append(groups, {x})
              n == Len(groups)
  <2>1. /\ groups \in Seq(SUBSET (s \cup {x}))
        /\ {x} \in SUBSET (s \cup {x})
        /\ n \in Nat /\ DOMAIN groups = 1 .. n
    <3>1. Seq(SUBSET s) \subseteq Seq(SUBSET (s \cup {x}))
      BY SeqMonotonic
    <3>. QED BY <1>1, <3>1, LenProperties
  <2>2. /\ new \in Seq(SUBSET (s \cup {x}))
        /\ DOMAIN new = 1 .. n + 1
        /\ new[n + 1] = {x}
        /\ \A i \in 1 .. n : new[i] = groups[i]
    <3>1. /\ new \in Seq(SUBSET (s \cup {x}))
          /\ Len(new) = n + 1
          /\ \A i \in 1 .. n : new[i] = groups[i]
          /\ new[n + 1] = {x}
      BY <2>1, AppendProperties
    <3>. QED BY <3>1, LenProperties
  <2>3. \A i \in DOMAIN new : i = n + 1 \/ i \in DOMAIN groups
    BY <2>1, <2>2
  <2>4. \A i \in DOMAIN groups : i \in DOMAIN new /\ new[i] = groups[i]
    BY <2>1, <2>2
  <2>5. n + 1 \in DOMAIN new
    BY <2>1, <2>2
  <2>. HIDE DEF new, n
  <2>6. \A i \in DOMAIN new : new[i] # {}
    BY <1>1, <2>2, <2>3, <2>4
  <2>7. \A e \in s \cup {x} : \E i \in DOMAIN new : e \in new[i]
    BY <1>2, <2>2, <2>4, <2>5
  <2>8. ASSUME NEW i \in DOMAIN new, NEW j \in DOMAIN new, i # j
        PROVE  new[i] \cap new[j] = {}
    <3>1. CASE i \in DOMAIN groups /\ j \in DOMAIN groups
      BY <1>3, <2>4, <2>8, <3>1
    <3>2. CASE i = n + 1 \/ j = n + 1
      BY <1>1, <2>2, <2>3, <2>4, <2>8, <3>2
    <3>. QED BY <2>3, <3>1, <3>2
  <2>9. ASSUME NEW e \in s \cup {x}, NEW f \in s \cup {x}, Lone(S, e, f)
        PROVE  \E i \in DOMAIN new : e \in new[i] /\ f \in new[i]
    <3>1. CASE e \in s /\ f \in s
      BY <1>4, <2>4, <2>9, <3>1
    <3>2. CASE e = x /\ f = x
      BY <2>7, <3>2
    <3>3. CASE (e = x /\ f \in s) \/ (e \in s /\ f = x)
      BY <1>6, <1>7, <2>9, <3>3
    <3>. QED BY <3>1, <3>2, <3>3
  <2>10. Grouped(S, s \cup {x}, new)
    BY <2>2, <2>6, <2>7, <2>8, <2>9 DEF Grouped
  <2>. QED BY <1>7, <2>10 DEF new
<1>8. ASSUME NEW k \in Fits(groups, x),
             Place(groups, x) = [groups EXCEPT ![k] = @ \cup {x}]
      PROVE  Grouped(S, s \cup {x}, Place(groups, x))
  <2>. DEFINE new == [groups EXCEPT ![k] = @ \cup {x}]
  <2>0. k \in DOMAIN groups
    BY DEF Fits
  <2>1. /\ new \in Seq(SUBSET (s \cup {x}))
        /\ DOMAIN new = DOMAIN groups
    <3>1. Seq(SUBSET s) \subseteq Seq(SUBSET (s \cup {x}))
      BY SeqMonotonic
    <3>2. groups \in Seq(SUBSET (s \cup {x}))
      BY <1>1, <3>1
    <3>3. groups[k] \cup {x} \in SUBSET (s \cup {x})
      BY <1>1, <2>0
    <3>4. k \in 1 .. Len(groups)
      BY <1>1, <2>0, LenProperties
    <3>. QED BY <3>2, <3>3, <3>4, ExceptSeq
  <2>2. \A i \in DOMAIN groups :
            new[i] = IF i = k THEN groups[i] \cup {x} ELSE groups[i]
    BY <2>0
  <2>. HIDE DEF new
  <2>3. \A i \in DOMAIN new : groups[i] \subseteq new[i]
    BY <2>1, <2>2
  <2>4. x \in new[k] /\ k \in DOMAIN new
    BY <2>0, <2>1, <2>2
  <2>6. \A i \in DOMAIN new : new[i] # {}
    BY <1>1, <2>1, <2>3
  <2>7. \A e \in s \cup {x} : \E i \in DOMAIN new : e \in new[i]
    BY <1>2, <2>1, <2>3, <2>4
  <2>8. ASSUME NEW i \in DOMAIN new, NEW j \in DOMAIN new, i # j
        PROVE  new[i] \cap new[j] = {}
    <3>1. groups[i] \cap groups[j] = {} /\ x \notin groups[i]
          /\ x \notin groups[j]
      BY <1>1, <1>3, <2>1, <2>8
    <3>. QED BY <2>1, <2>2, <2>8, <3>1
  <2>9. ASSUME NEW e \in s \cup {x}, NEW f \in s \cup {x}, Lone(S, e, f)
        PROVE  \E i \in DOMAIN new : e \in new[i] /\ f \in new[i]
    <3>1. CASE e \in s /\ f \in s
      <4>1. PICK i \in DOMAIN groups : e \in groups[i] /\ f \in groups[i]
        BY <1>4, <2>9, <3>1
      <4>. QED BY <2>1, <2>3, <4>1
    <3>2. CASE e = x /\ f = x
      BY <2>4, <3>2
    <3>3. CASE e = x /\ f \in s
      BY <1>5, <2>3, <2>4, <2>9, <3>3
    <3>4. CASE e \in s /\ f = x
      BY <1>5, <2>3, <2>4, <2>9, <3>4
    <3>. QED BY <3>1, <3>2, <3>3, <3>4
  <2>10. Grouped(S, s \cup {x}, new)
    BY <2>1, <2>6, <2>7, <2>8, <2>9 DEF Grouped
  <2>. QED BY <1>8, <2>10 DEF new
<1>. QED BY <1>1, <1>7, <1>8, PlaceIs

-----------------------------------------------------------------------------
(* The fold behind _group_adjacent.  Its recursion is on subsets of a      *)
(* finite set, so it has a value for each: from a function that obeys it   *)
(* on the subsets of up to n elements one is made for n + 1.               *)

Step(groups, s) ==
    IF s = {} THEN <<>> ELSE Place(groups[s \ {LastOf(s)}], LastOf(s))

IsFold(S, groups) == groups = [s \in SUBSET S |-> Step(groups, s)]

LEMMA FoldIs ==
  ASSUME NEW S
  PROVE  GroupAdjacent(S) = (CHOOSE groups : IsFold(S, groups))[S]
BY DEF GroupAdjacent, MapThenFoldSet, IsFold, Step

(* Every set that is not empty has a last element to take away. *)
HasLast(S) == \A s \in SUBSET S : s # {} => LastOf(s) \in s

UpTo(S, n) == {s \in SUBSET S : Cardinality(s) <= n}
FoldsUpTo(S, n) ==
    \E groups : groups = [s \in UpTo(S, n) |-> Step(groups, s)]

LEMMA SmallerByOne ==
  ASSUME NEW S, IsFiniteSet(S), HasLast(S), NEW s \in SUBSET S, s # {}
  PROVE  /\ s \ {LastOf(s)} \in SUBSET S
         /\ Cardinality(s) \in Nat \ {0}
         /\ Cardinality(s \ {LastOf(s)}) = Cardinality(s) - 1
<1>1. IsFiniteSet(s) /\ LastOf(s) \in s
  BY FS_Subset DEF HasLast
<1>2. /\ Cardinality(s) \in Nat
      /\ Cardinality(s) # 0
  BY <1>1, FS_CardinalityType, FS_EmptySet
<1>3. Cardinality(s \ {LastOf(s)}) = Cardinality(s) - 1
  BY <1>1, FS_RemoveElement
<1>. QED BY <1>2, <1>3

LEMMA FoldsUpToNone ==
  ASSUME NEW S, IsFiniteSet(S)
  PROVE  FoldsUpTo(S, 0)
<1>1. ASSUME NEW s \in UpTo(S, 0) PROVE s = {}
  <2>1. IsFiniteSet(s)
    BY FS_Subset DEF UpTo
  <2>2. Cardinality(s) \in Nat /\ Cardinality(s) <= 0
    BY <2>1, FS_CardinalityType DEF UpTo
  <2>3. Cardinality(s) = 0
    BY <2>2
  <2>. QED BY <2>1, <2>3, FS_EmptySet
<1>2. PICK groups : groups = [s \in UpTo(S, 0) |-> <<>>]
  OBVIOUS
<1>3. \A s \in UpTo(S, 0) : Step(groups, s) = <<>>
  BY <1>1 DEF Step
<1>4. groups = [s \in UpTo(S, 0) |-> Step(groups, s)]
  BY <1>2, <1>3
<1>. QED BY <1>4 DEF FoldsUpTo

LEMMA FoldsOneUp ==
  ASSUME NEW S, IsFiniteSet(S), HasLast(S), NEW n \in Nat, FoldsUpTo(S, n)
  PROVE  FoldsUpTo(S, n + 1)
<1>1. PICK g : g = [s \in UpTo(S, n) |-> Step(g, s)]
  BY DEF FoldsUpTo
<1>2. PICK h : h = [s \in UpTo(S, n + 1) |-> Step(g, s)]
  OBVIOUS
<1>3. ASSUME NEW s \in UpTo(S, n + 1) PROVE Step(h, s) = Step(g, s)
  <2>1. CASE s = {}
    BY <2>1 DEF Step
  <2>2. CASE s # {}
    <3>. DEFINE t == s \ {LastOf(s)}
    <3>1. /\ t \in SUBSET S /\ Cardinality(s) \in Nat
          /\ Cardinality(t) = Cardinality(s) - 1
          /\ Cardinality(s) <= n + 1
      BY <2>2, SmallerByOne DEF UpTo
    <3>2. Cardinality(t) <= n /\ Cardinality(t) <= n + 1
      BY <3>1
    <3>3. t \in UpTo(S, n) /\ t \in UpTo(S, n + 1)
      BY <3>1, <3>2 DEF UpTo
    <3>. HIDE DEF t
    <3>4. h[t] = Step(g, t) /\ g[t] = Step(g, t)
      BY <1>1, <1>2, <3>3
    <3>5. h[t] = g[t]
      BY <3>4
    <3>. QED BY <2>2, <3>5 DEF Step, t
  <2>. QED BY <2>1, <2>2
<1>4. h = [s \in UpTo(S, n + 1) |-> Step(h, s)]
  BY <1>2, <1>3
<1>. QED BY <1>4 DEF FoldsUpTo

LEMMA FoldsAlways ==
  ASSUME NEW S, IsFiniteSet(S), HasLast(S), NEW n \in Nat
  PROVE  FoldsUpTo(S, n)
<1>. DEFINE Bad == {m \in Nat : ~FoldsUpTo(S, m)}
<1>1. SUFFICES ASSUME Bad # {} PROVE FALSE
  OBVIOUS
<1>2. PICK m \in Bad : \A k \in Bad : m <= k
  BY <1>1, TP!LeastExists, TrackerParameters
<1>3. CASE m = 0
  BY <1>2, <1>3, FoldsUpToNone
<1>4. CASE m # 0
  <2>1. m - 1 \in Nat /\ m = (m - 1) + 1 /\ ~(m <= m - 1)
    BY <1>2, <1>4
  <2>2. FoldsUpTo(S, m - 1)
    BY <1>2, <2>1
  <2>3. FoldsUpTo(S, (m - 1) + 1)
    BY <2>1, <2>2, FoldsOneUp
  <2>. QED BY <1>2, <2>1, <2>3
<1>. QED BY <1>3, <1>4

LEMMA FoldExists ==
  ASSUME NEW S, IsFiniteSet(S), HasLast(S)
  PROVE  \E groups : IsFold(S, groups)
<1>1. Cardinality(S) \in Nat
  BY FS_CardinalityType
<1>2. UpTo(S, Cardinality(S)) = SUBSET S
  BY FS_Subset DEF UpTo
<1>3. FoldsUpTo(S, Cardinality(S))
  BY <1>1, FoldsAlways
<1>. QED BY <1>2, <1>3 DEF FoldsUpTo, IsFold

(* What the fold yields for each part of the emissions: by the least part  *)
(* that would be grouped wrongly.                                          *)
LEMMA FoldGroups ==
  ASSUME NEW S, IsFiniteSet(S), HasLast(S), NEW groups, IsFold(S, groups),
         NEW s \in SUBSET S
  PROVE  Grouped(S, s, groups[s])
<1>. DEFINE Bad == {t \in SUBSET S : ~Grouped(S, t, groups[t])}
            Sizes == {Cardinality(t) : t \in Bad}
<1>1. SUFFICES ASSUME Bad # {} PROVE FALSE
  OBVIOUS
<1>2. \A t \in SUBSET S : Cardinality(t) \in Nat
  BY FS_Subset, FS_CardinalityType
<1>3. Sizes \subseteq Nat /\ Sizes # {}
  BY <1>1, <1>2
<1>4. PICK n \in Sizes : \A m \in Sizes : n <= m
  BY <1>3, TP!LeastExists, TrackerParameters
<1>5. PICK t \in Bad : n = Cardinality(t)
  OBVIOUS
<1>6. groups[t] = Step(groups, t)
  BY <1>5 DEF IsFold
<1>7. CASE t = {}
  <2>1. groups[t] = <<>>
    BY <1>6, <1>7 DEF Step
  <2>2. <<>> \in Seq(SUBSET t) /\ DOMAIN (<<>>) = {}
    BY EmptySeq, LenProperties
  <2>3. Grouped(S, t, groups[t])
    BY <1>7, <2>1, <2>2 DEF Grouped
  <2>. QED BY <1>5, <2>3
<1>8. CASE t # {}
  <2>. DEFINE x == LastOf(t)
              u == t \ {x}
  <2>1. /\ u \in SUBSET S
        /\ Cardinality(t) \in Nat \ {0}
        /\ Cardinality(u) = Cardinality(t) - 1
    BY <1>5, <1>8, SmallerByOne
  <2>2. x \in t /\ x \in S
    BY <1>5, <1>8 DEF HasLast
  <2>3. ~(n <= Cardinality(u))
    BY <1>5, <2>1
  <2>4. Grouped(S, u, groups[u])
    BY <1>4, <2>1, <2>3
  <2>5. Grouped(S, u \cup {x}, Place(groups[u], x))
    BY <2>1, <2>2, <2>4, PlaceKeeps
  <2>6. u \cup {x} = t /\ groups[t] = Place(groups[u], x)
    BY <1>6, <1>8, <2>2 DEF Step
  <2>. QED BY <1>5, <2>5, <2>6
<1>. QED BY <1>7, <1>8

(* _group_adjacent neither drops an emission nor repeats one, and keeps a  *)
(* pair that has no other neighbours together.                             *)
LEMMA GroupsAreRight ==
  ASSUME NEW S, IsFiniteSet(S), NEW now \in Nat,
         \A e \in S : e.start \in 0 .. now /\ e.bin \in Bins
  PROVE  Grouped(S, S, GroupAdjacent(S))
<1>1. HasLast(S)
  <2>1. SUFFICES ASSUME NEW s \in SUBSET S, s # {} PROVE LastOf(s) \in s
    BY DEF HasLast
  <2>. QED BY <2>1, LastIsOne
<1>2. PICK groups : groups = CHOOSE g : IsFold(S, g)
  OBVIOUS
<1>3. IsFold(S, groups)
  BY <1>1, <1>2, FoldExists
<1>4. GroupAdjacent(S) = groups[S]
  BY <1>2, FoldIs
<1>. QED BY <1>1, <1>3, <1>4, FoldGroups

-----------------------------------------------------------------------------
(* What the node hands over.                                               *)

(* Finiteness and cardinality, in the two copies of their module. *)
LEMMA SameFinite ==
  ASSUME NEW S
  PROVE  TP!IsFiniteSet(S) <=> IsFiniteSet(S)
BY DEF TP!IsFiniteSet, IsFiniteSet

LEMMA SameCardinality ==
  ASSUME NEW S
  PROVE  TP!Cardinality(S) = Cardinality(S)
BY DEF TP!Cardinality, Cardinality, TP!IsFiniteSet, IsFiniteSet

(* The emissions closed so far are finitely many, and began in the past.   *)
ClosedInv ==
    /\ T!TypeOK
    /\ IsFiniteSet(closed)
    /\ \A e \in closed : e.start \in 0 .. clock /\ e.start <= e.end

LEMMA ClosedIsPast == TP!OnceIInv => ClosedInv
<1>. SUFFICES ASSUME TP!OnceIInv PROVE ClosedInv
  OBVIOUS
<1>1. TP!TypeOK /\ TP!StreamInv
  BY DEF TP!OnceIInv, TP!StreamIInv, TP!IInv
<1>2. T!TypeOK
  BY <1>1 DEF TP!TypeOK, T!TypeOK, TP!OpenEmission, T!OpenEmission,
              TP!ClosedEmission, T!ClosedEmission, TP!NotOpen, T!NotOpen
<1>3. IsFiniteSet(closed)
  <2>1. 0 \in Int /\ NumBins - 1 \in Int
    BY NodeAssumption DEF NodeAssumption
  <2>2. IsFiniteSet(Bins)
    BY <2>1, FS_Interval DEF Bins
  <2>. QED BY <2>2, SameFinite, TrackerParameters, TP!ClosedIsFinite
<1>4. ASSUME NEW e \in closed
      PROVE  e.start \in 0 .. clock /\ e.start <= e.end
  <2>1. e.bin \in Bins
    BY <1>2 DEF T!TypeOK, T!ClosedEmission
  <2>2. /\ clock \in Nat /\ e.start \in Nat /\ e.end \in Nat
        /\ e.start <= e.end /\ e.end < clock
    BY <1>1, <2>1, TrackerParameters, TP!PastIs
  <2>. QED BY <2>2
<1>. QED BY <1>2, <1>3, <1>4 DEF ClosedInv

(* Reports are made of well-formed groups. *)
LEMMA ReportsAreGroups ==
  ASSUME NEW es, es \subseteq T!ClosedEmission, IsFiniteSet(es),
         NEW now \in Nat,
         \A e \in es : e.start \in 0 .. now /\ e.start <= e.end,
         NEW new \in ReportAll(es)
  PROVE  /\ new \in Seq(Reports)
         /\ LET kept == {e \in es : IsKept(e)}
            IN  Grouped(kept, kept, [i \in DOMAIN new |-> new[i].group])
<1>. DEFINE kept == {e \in es : IsKept(e)}
<1>1. PICK groups : groups = GroupAdjacent(kept)
  OBVIOUS
<1>2. Grouped(kept, kept, groups)
  <2>1. kept \in SUBSET es
    OBVIOUS
  <2>2. IsFiniteSet(kept)
    BY <2>1, FS_Subset
  <2>3. \A e \in kept : e.start \in 0 .. now /\ e.bin \in Bins
    BY DEF T!ClosedEmission
  <2>. HIDE DEF kept
  <2>. QED BY <1>1, <2>2, <2>3, GroupsAreRight
<1>3. PICK strongest \in [DOMAIN groups -> es] :
        /\ \A i \in DOMAIN groups : strongest[i] \in groups[i]
        /\ new = [i \in DOMAIN groups |-> Report(groups[i], strongest[i])]
  BY <1>1 DEF ReportAll
<1>4. PICK n \in Nat : DOMAIN groups = 1 .. n
  BY <1>2, LenProperties DEF Grouped
<1>5. ASSUME NEW i \in DOMAIN groups
      PROVE  new[i] \in Reports /\ new[i].group = groups[i]
  <2>1. /\ groups[i] \subseteq kept /\ groups[i] # {}
        /\ strongest[i] \in es
    BY <1>2, <1>3 DEF Grouped
  <2>2. groups[i] \in (SUBSET T!ClosedEmission) \ {{}}
    BY <2>1
  <2>3. /\ strongest[i].bin \in Bins
        /\ strongest[i].start \in Nat /\ strongest[i].end \in Nat
        /\ strongest[i].start <= strongest[i].end
    BY <2>1 DEF T!ClosedEmission
  <2>4. FrameSpan(strongest[i]) \in Nat \ {0}
    BY <2>3 DEF FrameSpan
  <2>5. new[i] = Report(groups[i], strongest[i])
    BY <1>3
  <2>. QED BY <2>2, <2>3, <2>4, <2>5 DEF Report, Reports
<1>6. DOMAIN new = DOMAIN groups
  BY <1>3
<1>7. new \in Seq(Reports)
  <2>1. new \in [1 .. n -> Reports]
    BY <1>3, <1>4, <1>5
  <2>. QED BY <2>1
<1>8. [i \in DOMAIN new |-> new[i].group] = groups
  <2>1. groups = [i \in DOMAIN groups |-> groups[i]]
    BY <1>2 DEF Grouped
  <2>. QED BY <1>5, <1>6, <2>1
<1>. QED BY <1>2, <1>7, <1>8

(* The reports before the last batch are what remains without it. *)
LEMMA WithoutBatch ==
  ASSUME NEW w \in Seq(Reports), NEW b \in Seq(Reports)
  PROVE  SubSeq(w \o b, 1, Len(w \o b) - Len(b)) = w
<1>1. /\ w \o b \in Seq(Reports)
      /\ Len(w \o b) = Len(w) + Len(b)
      /\ \A i \in 1 .. Len(w) : (w \o b)[i] = w[i]
      /\ Len(w) \in Nat /\ Len(b) \in Nat
  BY ConcatProperties, LenProperties
<1>2. PICK n \in Nat : n = Len(w)
  BY <1>1
<1>3. Len(w \o b) - Len(b) = n
  BY <1>1, <1>2
<1>4. PICK v : v = w \o b
  OBVIOUS
<1>5. \A i \in 1 .. n : v[i] = w[i] /\ v[i] \in Reports
  BY <1>1, <1>2, <1>4, ElementOfSeq
<1>6. /\ SubSeq(v, 1, n) \in Seq(Reports)
      /\ Len(SubSeq(v, 1, n)) = n
      /\ \A i \in 1 .. n : SubSeq(v, 1, n)[i] = v[i]
  BY <1>5, SubSeqProperties
<1>7. SubSeq(v, 1, n) = w
  BY <1>2, <1>5, <1>6, SeqEqual
<1>. QED BY <1>3, <1>4, <1>7

-----------------------------------------------------------------------------
(* The invariant of the node.                                              *)

(* A destination that has not failed is one batch behind from the moment   *)
(* the batch is there until it is the destination's turn.                  *)
StoredInv(s) ==
    /\ phase \in {"reading", "done"} => stored[s] = reports
    /\ phase \in {"writing", "writing final"} =>
           stored[s] = IF s < nextSink THEN reports ELSE WrittenBefore
    /\ phase \in {"raised", "killed"} => stored[s] \in {reports, WrittenBefore}

DeliveryInv ==
    /\ reports = WrittenBefore \o batch
    /\ phase \in {"writing", "writing final"} => nextSink \in Sinks
    /\ \A s \in Sinks \ broken : StoredInv(s)

(* From the end of the stream on nothing is open any more. *)
FlushInv ==
    phase \in {"writing final", "done"} => \A b \in Bins : open[b] = T!NotOpen

NodeInv == TypeOK /\ EachKeptInOneReport /\ DeliveryInv /\ FlushInv

LEMMA InitNodeInv == ClosedInv /\ Init => NodeInv
<1>. SUFFICES ASSUME ClosedInv, Init PROVE NodeInv
  OBVIOUS
<1>0. /\ closed = {} /\ completed = {} /\ batch = <<>> /\ reports = <<>>
      /\ stored = [s \in Sinks |-> <<>>] /\ phase = "reading"
      /\ nextSink = 1 /\ broken = {}
  BY DEF Init, T!Init
<1>1. <<>> \in Seq(Reports)
  OBVIOUS
<1>2. TypeOK
  BY <1>0, <1>1 DEF TypeOK, ClosedInv
<1>3. EachKeptInOneReport
  BY <1>0 DEF EachKeptInOneReport, LonePairMerges, Groups, Kept
<1>4. DeliveryInv
  <2>1. <<>> \o <<>> = <<>> /\ SubSeq(<<>> \o <<>>, 1, Len(<<>> \o <<>>) - Len(<<>>)) = <<>>
    BY <1>1, ConcatEmptySeq, WithoutBatch
  <2>2. WrittenBefore = <<>>
    BY <1>0, <2>1 DEF WrittenBefore
  <2>. QED BY <1>0, <2>1, <2>2 DEF DeliveryInv, StoredInv
<1>5. FlushInv
  BY <1>0 DEF FlushInv
<1>. QED BY <1>2, <1>3, <1>4, <1>5 DEF NodeInv

(* What the tracker returns is added to what is closed. *)
LEMMA ReturnedIsClosed ==
  ASSUME NEW n, NEW mask, T!Update(n, mask) \/ T!Flush
  PROVE  closed' = closed \cup completed'
<1>1. CASE T!Flush
  BY <1>1 DEF T!Flush
<1>2. CASE T!Update(n, mask)
  <2>1. CASE n = 0
    <3>1. completed' = {} /\ closed' = closed
      BY <1>2, <2>1 DEF T!Update
    <3>. QED BY <3>1
  <2>2. CASE n # 0
    BY <1>2, <2>2 DEF T!Update
  <2>. QED BY <2>1, <2>2
<1>. QED BY <1>1, <1>2

(* The reports of a block, and their groups. *)
LEMMA BatchIs ==
  ASSUME ClosedInv', batch' \in ReportAll(completed'),
         closed' = closed \cup completed'
  PROVE  /\ batch' \in Seq(Reports)
         /\ LET kept == {e \in completed' : IsKept(e)}
            IN  Grouped(kept, kept, [i \in DOMAIN batch' |-> batch'[i].group])
<1>1. PICK es : es = completed'
  OBVIOUS
<1>2. PICK new : new = batch'
  OBVIOUS
<1>3. PICK now : now = clock'
  OBVIOUS
<1>4. /\ es \subseteq closed' /\ IsFiniteSet(closed')
      /\ closed' \subseteq T!ClosedEmission /\ now \in Nat
      /\ \A e \in closed' : e.start \in 0 .. now /\ e.start <= e.end
  BY <1>1, <1>3 DEF ClosedInv, T!TypeOK
<1>5. IsFiniteSet(es)
  BY <1>4, FS_Subset
<1>6. /\ es \subseteq T!ClosedEmission
      /\ \A e \in es : e.start \in 0 .. now /\ e.start <= e.end
  BY <1>4
<1>7. new \in ReportAll(es)
  BY <1>1, <1>2
<1>8. /\ new \in Seq(Reports)
      /\ LET kept == {e \in es : IsKept(e)}
         IN  Grouped(kept, kept, [i \in DOMAIN new |-> new[i].group])
  BY <1>4, <1>5, <1>6, <1>7, ReportsAreGroups
<1>. QED BY <1>1, <1>2, <1>8

(* Handing a batch over keeps every emission in one report. *)
LEMMA HandedOverOnce ==
  ASSUME TypeOK, EachKeptInOneReport, ClosedInv',
         NEW writing, NEW otherwise, HandOver(writing, otherwise),
         closed' = closed \cup completed', completed' \cap closed = {}
  PROVE  EachKeptInOneReport'
<1>. DEFINE kept == {e \in completed' : IsKept(e)}
<1>1. PICK n \in Nat, k \in Nat :
          n = Len(reports) /\ k = Len(batch')
  BY BatchIs, LenProperties DEF TypeOK, HandOver
<1>2. /\ reports' = reports \o batch'
      /\ batch' \in Seq(Reports) /\ reports \in Seq(Reports)
      /\ Grouped(kept, kept, [i \in DOMAIN batch' |-> batch'[i].group])
  BY BatchIs DEF TypeOK, HandOver
<1>3. /\ DOMAIN reports = 1 .. n /\ DOMAIN batch' = 1 .. k
      /\ DOMAIN reports' = 1 .. n + k
      /\ \A i \in 1 .. n + k :
             reports'[i] = IF i <= n THEN reports[i] ELSE batch'[i - n]
  <2>1. /\ reports \o batch' \in Seq(Reports)
        /\ Len(reports \o batch') = n + k
        /\ \A i \in 1 .. n + k : (reports \o batch')[i] =
               IF i <= n THEN reports[i] ELSE batch'[i - n]
    BY <1>1, <1>2, ConcatProperties
  <2>2. DOMAIN (reports \o batch') = 1 .. n + k
    BY <2>1, LenProperties
  <2>. QED BY <1>1, <1>2, <2>1, <2>2, LenProperties
<1>4. PICK new : new = [i \in 1 .. k |-> batch'[i].group]
  OBVIOUS
<1>5. /\ \A i \in 1 .. k : new[i] \subseteq kept
      /\ \A e \in kept : \E i \in 1 .. k : e \in new[i]
      /\ \A i, j \in 1 .. k : i # j => new[i] \cap new[j] = {}
      /\ \A e, f \in kept : Lone(kept, e, f) =>
             \E i \in 1 .. k : e \in new[i] /\ f \in new[i]
  <2>1. Grouped(kept, kept, new) /\ DOMAIN new = 1 .. k
    BY <1>2, <1>3, <1>4
  <2>2. \A i \in DOMAIN new : new[i] \in SUBSET kept
    BY <2>1 DEF Grouped
  <2>. QED BY <2>1, <2>2 DEF Grouped
<1>6. PICK old : old = [i \in 1 .. n |-> reports[i].group]
  OBVIOUS
<1>7. /\ UNION {old[i] : i \in 1 .. n} = Kept
      /\ \A i, j \in 1 .. n : i # j => old[i] \cap old[j] = {}
  <2>1. Groups = {old[i] : i \in 1 .. n}
    BY <1>3, <1>6 DEF Groups
  <2>. QED BY <1>3, <1>6, <2>1 DEF EachKeptInOneReport
<1>8. \A i \in 1 .. n + k :
          reports'[i].group = IF i <= n THEN old[i] ELSE new[i - n]
  BY <1>3, <1>4, <1>6
<1>9. Kept' = Kept \cup kept /\ Kept \cap kept = {}
  BY DEF Kept
<1>10. \A i \in 1 .. n + k :
           \/ i \in 1 .. n /\ reports'[i].group = old[i]
           \/ /\ i - n \in 1 .. k /\ i = n + (i - n)
              /\ reports'[i].group = new[i - n]
  BY <1>8
<1>11. /\ \A i \in 1 .. n : i \in 1 .. n + k /\ reports'[i].group = old[i]
       /\ \A j \in 1 .. k : n + j \in 1 .. n + k
                            /\ reports'[n + j].group = new[j]
  <2>1. ASSUME NEW j \in 1 .. k
        PROVE  n + j \in 1 .. n + k /\ ~(n + j <= n) /\ (n + j) - n = j
    OBVIOUS
  <2>. QED BY <1>8, <2>1
<1>. HIDE DEF kept
<1>12. (UNION Groups)' = Kept'
  <2>1. ASSUME NEW e \in Kept'
        PROVE  \E i \in 1 .. n + k : e \in reports'[i].group
    <3>1. CASE e \in Kept
      BY <1>7, <1>11, <3>1
    <3>2. CASE e \in kept
      BY <1>5, <1>11, <3>2
    <3>. QED BY <1>9, <3>1, <3>2
  <2>2. ASSUME NEW i \in 1 .. n + k, NEW e \in reports'[i].group
        PROVE  e \in Kept'
    BY <1>5, <1>7, <1>9, <1>10
  <2>. QED BY <1>3, <2>1, <2>2 DEF Groups
<1>13. ASSUME NEW i \in 1 .. n + k, NEW j \in 1 .. n + k, i # j
       PROVE  reports'[i].group \cap reports'[j].group = {}
  <2>1. CASE i \in 1 .. n /\ j \in 1 .. n
    BY <1>7, <1>11, <1>13, <2>1
  <2>2. CASE i \notin 1 .. n /\ j \notin 1 .. n
    <3>1. /\ i - n \in 1 .. k /\ reports'[i].group = new[i - n]
          /\ j - n \in 1 .. k /\ reports'[j].group = new[j - n]
      BY <1>10, <2>2
    <3>2. i - n # j - n
      BY <1>13
    <3>. QED BY <1>5, <3>1, <3>2
  <2>3. CASE i \in 1 .. n /\ j \notin 1 .. n
    <3>1. reports'[i].group \subseteq Kept
      BY <1>7, <1>11, <2>3
    <3>2. reports'[j].group \subseteq kept
      BY <1>5, <1>10, <2>3
    <3>. QED BY <1>9, <3>1, <3>2
  <2>4. CASE i \notin 1 .. n /\ j \in 1 .. n
    <3>1. reports'[j].group \subseteq Kept
      BY <1>7, <1>11, <2>4
    <3>2. reports'[i].group \subseteq kept
      BY <1>5, <1>10, <2>4
    <3>. QED BY <1>9, <3>1, <3>2
  <2>. QED BY <2>1, <2>2, <2>3, <2>4
<1>14. completed' \cap Kept' = kept
  BY DEF kept, Kept
<1>15. ASSUME NEW e \in kept, NEW f \in kept, Lone(kept, e, f)
       PROVE  \E g \in Groups' : {e, f} \subseteq g
  <2>1. PICK j \in 1 .. k : e \in new[j] /\ f \in new[j]
    BY <1>5, <1>15
  <2>2. n + j \in DOMAIN reports' /\ reports'[n + j].group = new[j]
    BY <1>3, <1>11
  <2>3. new[j] \in Groups'
    BY <2>2 DEF Groups
  <2>4. {e, f} \subseteq new[j]
    BY <2>1
  <2>. QED BY <2>3, <2>4
<1>16. LonePairMerges'
  BY <1>14, <1>15 DEF LonePairMerges, SameReport, Lone
<1>. QED BY <1>3, <1>12, <1>13, <1>16 DEF EachKeptInOneReport

LEMMA HandedOverTyped ==
  ASSUME TypeOK, ClosedInv', NEW writing, NEW otherwise,
         HandOver(writing, otherwise), closed' = closed \cup completed',
         {writing, otherwise} \subseteq {"reading", "writing",
                                         "writing final", "done"}
  PROVE  TypeOK'
<1>1. batch' \in Seq(Reports)
  BY BatchIs DEF HandOver
<1>2. reports' \in Seq(Reports)
  BY <1>1, ConcatProperties DEF HandOver, TypeOK
<1>3. T!TypeOK'
  BY DEF ClosedInv
<1>. QED BY <1>1, <1>2, <1>3 DEF TypeOK, HandOver

(* The destinations are numbered from 1. *)
LEMMA SinksAre ==
  /\ NumSinks \in Nat
  /\ \A s : s \in Sinks <=> s \in Nat /\ 1 <= s /\ s <= NumSinks
<1>1. NumSinks \in Nat
  BY NodeAssumption DEF NodeAssumption
<1>. QED BY <1>1 DEF Sinks

LEMMA SinksInOrder ==
  /\ ~(NumSinks > 0) => Sinks = {}
  /\ NumSinks > 0 => 1 \in Sinks
  /\ \A s \in Sinks :
         /\ ~(s < 1)
         /\ s < NumSinks => s + 1 \in Sinks
         /\ ~(s < NumSinks) => \A z \in Sinks : z <= s
         /\ ~(NumSinks > 1) => \A z \in Sinks : z = s
<1>1. NumSinks > 0 => 1 \in Sinks
  BY SinksAre
<1>2. ~(NumSinks > 0) => Sinks = {}
  <2>1. ASSUME NEW s \in Sinks PROVE NumSinks > 0
    <3>1. s \in Nat /\ 1 <= s /\ s <= NumSinks /\ NumSinks \in Nat
      BY SinksAre
    <3>. QED BY <3>1
  <2>. QED BY <2>1
<1>3. ASSUME NEW s \in Sinks
      PROVE  /\ ~(s < 1)
             /\ s < NumSinks => s + 1 \in Sinks
             /\ ~(s < NumSinks) => \A z \in Sinks : z <= s
             /\ ~(NumSinks > 1) => \A z \in Sinks : z = s
  <2>1. s \in Nat /\ 1 <= s /\ s <= NumSinks /\ NumSinks \in Nat
    BY SinksAre
  <2>2. s < NumSinks => s + 1 \in Sinks
    BY <2>1, SinksAre
  <2>3. ASSUME NEW z \in Sinks
        PROVE  /\ ~(s < NumSinks) => z <= s
               /\ ~(NumSinks > 1) => z = s
    <3>1. z \in Nat /\ 1 <= z /\ z <= NumSinks
      BY SinksAre
    <3>. QED BY <2>1, <3>1
  <2>. QED BY <2>1, <2>2, <2>3
<1>. QED BY <1>1, <1>2, <1>3

LEMMA NothingHandedOver ==
  ASSUME EachKeptInOneReport, UNCHANGED <<completed, closed, reports>>
  PROVE  EachKeptInOneReport'
<1>1. Groups' = Groups /\ Kept' = Kept
  BY DEF Groups, Kept
<1>2. LonePairMerges'
  BY <1>1 DEF EachKeptInOneReport, LonePairMerges, SameReport
<1>3. UNION Groups' = Kept'
  BY <1>1 DEF EachKeptInOneReport
<1>. QED BY <1>2, <1>3 DEF EachKeptInOneReport

(* With a batch at hand every destination is behind by it; without one, or *)
(* without destinations, none is.                                          *)
LEMMA HandedOverDelivered ==
  ASSUME TypeOK, ClosedInv', DeliveryInv, phase = "reading",
         NEW writing \in {"writing", "writing final"},
         NEW otherwise \in {"reading", "done"},
         HandOver(writing, otherwise), closed' = closed \cup completed'
  PROVE  DeliveryInv'
<1>1. batch' \in Seq(Reports) /\ reports \in Seq(Reports)
  BY BatchIs DEF HandOver, TypeOK
<1>2. /\ reports' = reports \o batch' /\ nextSink' = 1
      /\ phase' = IF batch' # <<>> /\ NumSinks > 0 THEN writing ELSE otherwise
      /\ stored' = stored /\ broken' = broken
  BY DEF HandOver
<1>3. WrittenBefore' = reports
  BY <1>1, <1>2, WithoutBatch DEF WrittenBefore
<1>4. \A s \in Sinks \ broken : stored[s] = reports
  BY DEF DeliveryInv, StoredInv
<1>5. CASE batch' # <<>> /\ NumSinks > 0
  <2>1. phase' = writing /\ 1 \in Sinks /\ \A s \in Sinks : ~(s < 1)
    BY <1>2, <1>5, SinksInOrder
  <2>. QED BY <1>2, <1>3, <1>4, <2>1 DEF DeliveryInv, StoredInv
<1>6. CASE batch' = <<>>
  <2>1. reports' = reports /\ phase' = otherwise
    BY <1>1, <1>2, <1>6, ConcatEmptySeq
  <2>. QED BY <1>2, <1>3, <1>4, <2>1 DEF DeliveryInv, StoredInv
<1>7. CASE ~(NumSinks > 0)
  <2>1. Sinks = {} /\ phase' = otherwise
    BY <1>2, <1>7, SinksInOrder
  <2>. QED BY <1>2, <1>3, <2>1 DEF DeliveryInv
<1>. QED BY <1>5, <1>6, <1>7

(* The turn of one destination. *)
LEMMA AfterSinkIs ==
  ASSUME AfterSink, nextSink \in Sinks, phase \in {"writing", "writing final"}
  PROVE  \/ /\ phase' = phase /\ nextSink' = nextSink + 1
            /\ nextSink' \in Sinks
         \/ /\ phase' = IF phase = "writing" THEN "reading" ELSE "done"
            /\ nextSink' = 1
            /\ \A s \in Sinks : s <= nextSink
<1>1. CASE nextSink < NumSinks
  BY <1>1, SinksInOrder DEF AfterSink
<1>2. CASE ~(nextSink < NumSinks)
  <2>1. \A s \in Sinks : s <= nextSink
    BY <1>2, SinksInOrder
  <2>. QED BY <1>2, <2>1 DEF AfterSink
<1>. QED BY <1>1, <1>2

LEMMA WriteKeeps ==
  ASSUME NodeInv, ClosedInv', Write
  PROVE  NodeInv'
<1>1. /\ TypeOK /\ EachKeptInOneReport /\ DeliveryInv /\ FlushInv
      /\ phase \in {"writing", "writing final"}
      /\ nextSink \in Sinks
      /\ stored' = [stored EXCEPT ![nextSink] = @ \o batch]
      /\ UNCHANGED <<trackerVars, batch, reports, broken>>
      /\ AfterSink
  BY DEF NodeInv, Write, DeliveryInv
<1>2. \/ /\ phase' = phase /\ nextSink' = nextSink + 1
         /\ nextSink' \in Sinks
      \/ /\ phase' = IF phase = "writing" THEN "reading" ELSE "done"
         /\ nextSink' = 1
         /\ \A s \in Sinks : s <= nextSink
  BY <1>1, AfterSinkIs
<1>3. TypeOK'
  <2>1. stored' \in [Sinks -> Seq(Reports)]
    <3>1. stored[nextSink] \o batch \in Seq(Reports)
      BY <1>1, ConcatProperties DEF TypeOK
    <3>. QED BY <1>1, <3>1 DEF TypeOK
  <2>. QED BY <1>1, <1>2, <2>1 DEF TypeOK, ClosedInv
<1>4. EachKeptInOneReport'
  BY <1>1, NothingHandedOver DEF trackerVars
<1>5. DeliveryInv'
  <2>1. WrittenBefore' = WrittenBefore
    BY <1>1 DEF WrittenBefore
  <2>2. reports' = WrittenBefore' \o batch'
    BY <1>1, <2>1 DEF DeliveryInv
  <2>3. ASSUME NEW s \in Sinks \ broken PROVE StoredInv(s)'
    <3>1. stored[s] = IF s < nextSink THEN reports ELSE WrittenBefore
      BY <1>1, <2>3 DEF DeliveryInv, StoredInv
    <3>2. s \in Nat /\ nextSink \in Nat
      BY <1>1, SinksAre
    <3>3. CASE s = nextSink
      <4>0. stored[s] = WrittenBefore
        BY <3>1, <3>2, <3>3
      <4>1. stored'[s] = WrittenBefore \o batch
        BY <1>1, <3>3, <4>0 DEF TypeOK
      <4>2. stored'[s] = reports'
        BY <1>1, <4>1 DEF DeliveryInv
      <4>3. phase' \in {"writing", "writing final"} => s < nextSink'
        <5>1. CASE phase' = phase /\ nextSink' = nextSink + 1
          <6>1. s < s + 1
            BY <3>2
          <6>2. s < nextSink'
            BY <3>3, <5>1, <6>1
          <6>. QED BY <6>2
        <5>2. CASE phase' = IF phase = "writing" THEN "reading" ELSE "done"
          BY <5>2
        <5>. QED BY <1>2, <5>1, <5>2
      <4>. QED BY <4>2, <4>3 DEF StoredInv
    <3>4. CASE s # nextSink
      <4>1. stored'[s] = stored[s]
        BY <1>1, <3>4 DEF TypeOK
      <4>2. CASE phase' = phase /\ nextSink' = nextSink + 1
        <5>1. s < nextSink' <=> s < nextSink
          BY <3>2, <3>4, <4>2
        <5>. QED BY <1>1, <2>1, <3>1, <4>1, <4>2, <5>1 DEF StoredInv
      <4>3. CASE /\ phase' = IF phase = "writing" THEN "reading" ELSE "done"
                 /\ \A z \in Sinks : z <= nextSink
        <5>1. s < nextSink
          BY <3>2, <3>4, <4>3
        <5>. QED BY <1>1, <3>1, <4>1, <4>3, <5>1 DEF StoredInv
      <4>. QED BY <1>2, <4>2, <4>3
    <3>. QED BY <3>3, <3>4
  <2>. QED BY <1>1, <1>2, <2>2, <2>3 DEF DeliveryInv
<1>6. FlushInv'
  BY <1>1, <1>2 DEF FlushInv, trackerVars
<1>. QED BY <1>3, <1>4, <1>5, <1>6 DEF NodeInv

LEMMA WriteFailsKeeps ==
  ASSUME NodeInv, ClosedInv', WriteFails
  PROVE  NodeInv'
<1>1. /\ TypeOK /\ EachKeptInOneReport /\ DeliveryInv /\ FlushInv
      /\ phase \in {"writing", "writing final"}
      /\ nextSink \in Sinks
      /\ broken' = broken \cup {nextSink}
      /\ UNCHANGED <<trackerVars, batch, reports, stored>>
  BY DEF NodeInv, WriteFails, DeliveryInv
<1>2. \/ /\ phase' = phase /\ nextSink' = nextSink + 1
         /\ nextSink' \in Sinks
      \/ /\ phase' = IF phase = "writing" THEN "reading" ELSE "done"
         /\ nextSink' = 1
         /\ \A s \in Sinks : s <= nextSink
      \/ /\ phase' = "raised" /\ nextSink' = nextSink
         /\ \A s \in Sinks : s = nextSink
  <2>1. CASE NumSinks > 1
    <3>1. AfterSink
      BY <2>1 DEF WriteFails
    <3>. QED BY <1>1, <3>1, AfterSinkIs
  <2>2. CASE ~(NumSinks > 1)
    <3>1. phase' = "raised" /\ nextSink' = nextSink
      BY <2>2 DEF WriteFails
    <3>2. \A s \in Sinks : s = nextSink
      BY <1>1, <2>2, SinksInOrder
    <3>. QED BY <3>1, <3>2
  <2>. QED BY <2>1, <2>2
<1>3. TypeOK'
  BY <1>1, <1>2 DEF TypeOK, ClosedInv
<1>4. EachKeptInOneReport'
  BY <1>1, NothingHandedOver DEF trackerVars
<1>5. DeliveryInv'
  <2>1. WrittenBefore' = WrittenBefore
    BY <1>1 DEF WrittenBefore
  <2>2. reports' = WrittenBefore' \o batch'
    BY <1>1, <2>1 DEF DeliveryInv
  <2>3. ASSUME NEW s \in Sinks \ broken' PROVE StoredInv(s)'
    <3>1. /\ s \notin broken /\ s # nextSink
          /\ stored'[s] = IF s < nextSink THEN reports ELSE WrittenBefore
      BY <1>1, <2>3 DEF DeliveryInv, StoredInv
    <3>2. s \in Nat /\ nextSink \in Nat
      BY <1>1, SinksAre
    <3>3. CASE phase' = phase /\ nextSink' = nextSink + 1
      <4>1. s < nextSink' <=> s < nextSink
        BY <3>1, <3>2, <3>3
      <4>. QED BY <1>1, <2>1, <3>1, <3>3, <4>1 DEF StoredInv
    <3>4. CASE /\ phase' = IF phase = "writing" THEN "reading" ELSE "done"
               /\ \A z \in Sinks : z <= nextSink
      <4>1. s < nextSink
        BY <3>1, <3>2, <3>4
      <4>. QED BY <1>1, <3>1, <3>4, <4>1 DEF StoredInv
    <3>. QED BY <1>2, <3>1, <3>3, <3>4
  <2>. QED BY <1>1, <1>2, <2>2, <2>3 DEF DeliveryInv
<1>6. FlushInv'
  BY <1>1, <1>2 DEF FlushInv, trackerVars
<1>. QED BY <1>3, <1>4, <1>5, <1>6 DEF NodeInv

LEMMA HandOverKeeps ==
  ASSUME NodeInv, ClosedInv', phase = "reading",
         closed' = closed \cup completed', completed' \cap closed = {},
         \/ HandOver("writing", "reading")
         \/ /\ HandOver("writing final", "done")
            /\ \A b \in Bins : open'[b] = T!NotOpen
  PROVE  NodeInv'
<1>1. TypeOK /\ EachKeptInOneReport /\ DeliveryInv
  BY DEF NodeInv
<1>2. CASE HandOver("writing", "reading")
  <2>1. TypeOK' /\ EachKeptInOneReport' /\ DeliveryInv'
    BY <1>1, <1>2, HandedOverTyped, HandedOverOnce, HandedOverDelivered
  <2>2. FlushInv'
    BY <1>2 DEF HandOver, FlushInv
  <2>. QED BY <2>1, <2>2 DEF NodeInv
<1>3. CASE /\ HandOver("writing final", "done")
           /\ \A b \in Bins : open'[b] = T!NotOpen
  <2>1. TypeOK' /\ EachKeptInOneReport' /\ DeliveryInv'
    BY <1>1, <1>3, HandedOverTyped, HandedOverOnce, HandedOverDelivered
  <2>2. FlushInv'
    BY <1>3 DEF FlushInv
  <2>. QED BY <2>1, <2>2 DEF NodeInv
<1>. QED BY <1>2, <1>3

LEMMA KillKeeps ==
  ASSUME NodeInv, ClosedInv',
         \/ Kill
         \/ UNCHANGED vars
  PROVE  NodeInv'
<1>1. /\ TypeOK /\ EachKeptInOneReport /\ DeliveryInv /\ FlushInv
      /\ UNCHANGED <<trackerVars, batch, nextSink, reports, stored, broken>>
      /\ \/ phase' = phase
         \/ /\ phase \in {"reading", "writing", "writing final"}
            /\ phase' = "killed"
  BY DEF NodeInv, Kill, vars, nodeVars
<1>2. EachKeptInOneReport'
  BY <1>1, NothingHandedOver DEF trackerVars
<1>3. TypeOK'
  BY <1>1 DEF TypeOK, ClosedInv
<1>4. DeliveryInv'
  <2>1. WrittenBefore' = WrittenBefore
    BY <1>1 DEF WrittenBefore
  <2>2. \A s \in Sinks \ broken : StoredInv(s)'
    BY <1>1, <2>1 DEF DeliveryInv, StoredInv
  <2>. QED BY <1>1, <2>1, <2>2 DEF DeliveryInv
<1>5. FlushInv'
  BY <1>1 DEF FlushInv, trackerVars
<1>. QED BY <1>2, <1>3, <1>4, <1>5 DEF NodeInv

(* Every step keeps the invariant, given what the tracker guarantees.      *)
LEMMA NextNodeInv ==
  NodeInv /\ TP!OnceIInv /\ ClosedInv' /\ [Next]_vars => NodeInv'
<1>. SUFFICES ASSUME NodeInv, TP!OnceIInv, ClosedInv', [Next]_vars
              PROVE  NodeInv'
  OBVIOUS
<1>1. ASSUME NEW n \in BlockSizes,
             NEW mask \in [Bins -> SUBSET (0 .. n - 1)],
             T!Update(n, mask), HandOver("writing", "reading"),
             phase = "reading"
      PROVE  NodeInv'
  <2>1. TP!Update(n, mask)
    BY <1>1, SameUpdate
  <2>2. TP!Next
    BY <2>1 DEF TP!Next
  <2>3. completed' \cap closed = {}
    BY <2>2, TrackerParameters, TP!NewAreNew
  <2>4. closed' = closed \cup completed'
    BY <1>1, ReturnedIsClosed
  <2>. QED BY <1>1, <2>3, <2>4, HandOverKeeps
<1>2. CASE EndOfStream
  <2>1. phase = "reading" /\ T!Flush /\ HandOver("writing final", "done")
    BY <1>2 DEF EndOfStream
  <2>2. TP!Next
    BY <2>1, SameFlush DEF TP!Next
  <2>3. completed' \cap closed = {}
    BY <2>2, TrackerParameters, TP!NewAreNew
  <2>4. closed' = closed \cup completed'
    BY <2>1, ReturnedIsClosed
  <2>5. \A b \in Bins : open'[b] = T!NotOpen
    BY <2>1 DEF T!Flush
  <2>. QED BY <2>1, <2>3, <2>4, <2>5, HandOverKeeps
<1>3. CASE Write
  BY <1>3, WriteKeeps
<1>4. CASE WriteFails
  BY <1>4, WriteFailsKeeps
<1>5. CASE Kill \/ UNCHANGED vars
  BY <1>5, KillKeeps
<1>. QED BY <1>1, <1>2, <1>3, <1>4, <1>5, NodeSteps

LEMMA AlwaysNodeInv == Spec => []NodeInv
<1>1. TP!OnceIInv => ClosedInv
  BY ClosedIsPast
<1>2. ClosedInv /\ Init => NodeInv
  BY InitNodeInv
<1>3. NodeInv /\ TP!OnceIInv /\ ClosedInv' /\ [Next]_vars => NodeInv'
  BY NextNodeInv
<1>. QED BY <1>1, <1>2, <1>3, TrackerHolds, PTL DEF Spec

-----------------------------------------------------------------------------
(* The theorems.                                                           *)

(* Every variable keeps its type. *)
THEOREM TypeCorrect == Spec => []TypeOK
<1>1. NodeInv => TypeOK
  BY DEF NodeInv
<1>. QED BY <1>1, AlwaysNodeInv, PTL

(* The node's tracker behaves as the module Tracker says, whatever the     *)
(* detector, the gates and the destinations do around it.                  *)
THEOREM TracksAsTracker == Spec => T!Spec
<1>1. Init => T!Init
  BY DEF Init
<1>2. [Next]_vars => [T!Next]_(T!trackerVars)
  <2>. SUFFICES ASSUME [Next]_vars PROVE [T!Next]_(T!trackerVars)
    OBVIOUS
  <2>1. CASE \E n \in BlockSizes : \E mask \in [Bins -> SUBSET (0 .. n - 1)] :
               T!Update(n, mask)
    BY <2>1 DEF T!Next
  <2>2. CASE EndOfStream
    BY <2>2 DEF EndOfStream, T!Next
  <2>3. CASE Write \/ WriteFails \/ Kill \/ UNCHANGED vars
    <3>1. UNCHANGED trackerVars
      BY <2>3 DEF Write, WriteFails, Kill, vars
    <3>. QED BY <3>1 DEF trackerVars, T!trackerVars
  <2>. QED BY <2>1, <2>2, <2>3, NodeSteps
<1>. QED BY <1>1, <1>2, PTL DEF Spec, T!Spec

(* Every emission that passes the gates is in one report, and in no other, *)
(* nothing else is reported, and two halves that end in the same block     *)
(* without further neighbours are one report (_group_adjacent, process).   *)
THEOREM KeptOnce == Spec => []EachKeptInOneReport
<1>1. NodeInv => EachKeptInOneReport
  BY DEF NodeInv
<1>. QED BY <1>1, AlwaysNodeInv, PTL

(* A destination that has not failed holds every report in order, but for  *)
(* the batch at hand (MultiSink.write, and run before it).                 *)
THEOREM GoodSinksHold == Spec => []GoodSinksHoldReports
<1>1. NodeInv => GoodSinksHoldReports
  <2>. SUFFICES ASSUME NodeInv, NEW s \in Sinks \ broken
                PROVE  \/ stored[s] = reports
                       \/ /\ stored[s] = WrittenBefore
                          /\ phase \in {"writing", "writing final", "raised",
                                        "killed"}
    BY DEF GoodSinksHoldReports
  <2>1. StoredInv(s) /\ TypeOK
    BY DEF NodeInv, DeliveryInv
  <2>. QED BY <2>1 DEF StoredInv, TypeOK
<1>. QED BY <1>1, AlwaysNodeInv, PTL

(* The bursts of a bin do not depend on the copy of Tracker they are       *)
(* counted in.                                                             *)
LEMMA SameBursts ==
  ASSUME NEW b, TP!EmissionsAreBursts, b \in Bins
  PROVE  T!Extents(b) = T!Promise!Bursts(b)
BY DEF TP!EmissionsAreBursts, TP!Extents, T!Extents, TP!Promise!Bursts,
       T!Promise!Bursts, TP!Promise!Linked, T!Promise!Linked, TP!IsOpen,
       T!IsOpen, TP!NotOpen, T!NotOpen

(* When the recording is over, every steady transmission in it has been    *)
(* reported, the one still on the air at its end included (run, flush).    *)
THEOREM Exhausted == Spec => []RecordingIsExhausted
<1>1. /\ NodeInv /\ ClosedInv
      /\ TP!EmissionsAreBursts /\ TP!BasebandIsWhole
      => RecordingIsExhausted
  <2>. SUFFICES ASSUME NodeInv, ClosedInv, TP!EmissionsAreBursts,
                       TP!BasebandIsWhole, phase = "done",
                       NEW b \in Bins, NEW x \in T!Promise!Bursts(b),
                       IsSteady(b, x)
                PROVE  IsReported(b, x)
    BY DEF RecordingIsExhausted, Unreported
  <2>1. open[b] = T!NotOpen
    BY DEF NodeInv, FlushInv
  <2>2. T!Extents(b) = T!Promise!Bursts(b)
    BY SameBursts
  <2>3. PICK e \in closed :
          e.bin = b /\ x = [start |-> e.start, end |-> e.end]
    BY <2>1, <2>2 DEF T!Extents, T!IsOpen
  <2>4. x.start = e.start /\ x.end = e.end
    BY <2>3
  <2>5. Cardinality(heard[b] \cap (e.start .. e.end)) <= e.detectedFrames
    <3>1. TP!Cardinality(heard[b] \cap (e.start .. e.end)) <= e.detectedFrames
      BY <2>3 DEF TP!BasebandIsWhole
    <3>. QED BY <3>1, SameCardinality
  <2>6. /\ e.start \in Nat /\ e.end \in Nat /\ e.detectedFrames \in Nat
        /\ MinOccupancy \in Nat
    BY NodeAssumption DEF NodeAssumption, ClosedInv, T!TypeOK,
                          T!ClosedEmission
  <2>7. /\ FrameSpan(x) = FrameSpan(e)
        /\ FrameSpan(e) >= MinFrames
        /\ 100 * DetectedFrames(b, x) >= MinOccupancy * FrameSpan(e)
    BY <2>4 DEF IsSteady, FrameSpan
  <2>8. DetectedFrames(b, x) = Cardinality(heard[b] \cap (e.start .. e.end))
    BY <2>4 DEF DetectedFrames
  <2>9. IsKept(e)
    <3>1. PICK d : d = Cardinality(heard[b] \cap (e.start .. e.end))
      OBVIOUS
    <3>2. d \in Nat
      <4>1. e.start \in Int /\ e.end \in Int
        BY <2>6
      <4>2. IsFiniteSet(e.start .. e.end)
        BY <4>1, FS_Interval
      <4>3. heard[b] \cap (e.start .. e.end) \in SUBSET (e.start .. e.end)
        OBVIOUS
      <4>4. IsFiniteSet(heard[b] \cap (e.start .. e.end))
        BY <4>2, <4>3, FS_Subset
      <4>. QED BY <3>1, <4>4, FS_CardinalityType
    <3>3. PICK w : w = MinOccupancy * FrameSpan(e)
      OBVIOUS
    <3>4. w \in Int
      BY <2>6, <3>3 DEF FrameSpan
    <3>5. 100 * d >= w /\ d <= e.detectedFrames
      BY <2>5, <2>7, <2>8, <3>1, <3>3
    <3>6. 100 * e.detectedFrames >= w
      BY <2>6, <3>2, <3>4, <3>5
    <3>. QED BY <2>7, <3>3, <3>6 DEF IsKept
  <2>10. e \in UNION Groups
    <3>1. e \in Kept
      BY <2>9 DEF Kept
    <3>. QED BY <3>1 DEF NodeInv, EachKeptInOneReport
  <2>. QED BY <2>3, <2>4, <2>10 DEF IsReported
<1>2. TP!OnceIInv => ClosedInv
  BY ClosedIsPast
<1>. QED BY <1>1, <1>2, AlwaysNodeInv, TrackerHolds, PTL
=============================================================================
