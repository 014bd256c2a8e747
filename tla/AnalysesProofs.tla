--------------------------- MODULE AnalysesProofs ---------------------------
(* What the tools beside the capture compute, for inputs of any length:     *)
(* the vote on a tone, the register of figures, the receiver's tuning,      *)
(* gains and calibration, and the passes over a recording.                  *)
EXTENDS Analyses, SequenceTheorems, FiniteSetTheorems, WellFoundedInduction, TLAPS

-----------------------------------------------------------------------------
(* Least and greatest elements, which stand for induction here: what fails *)
(* for some number fails for a least one.                                  *)

LEMMA LessWellFounded ==
  IsWellFoundedOn({p \in Nat \X Nat : p[1] < p[2]}, Nat)
<1>1. OpToRel(<, Nat) = {p \in Nat \X Nat : p[1] < p[2]}
  BY DEF OpToRel
<1> QED
  BY <1>1, NatLessThanWellFounded

(* Some natural number of a set that is not empty is the least of it. *)
LEMMA LeastExists ==
  ASSUME NEW S, S \subseteq Nat, S # {}
  PROVE  \E m \in S : \A x \in S : m <= x
<1>. DEFINE R == {p \in Nat \X Nat : p[1] < p[2]}
<1>1. IsWellFoundedOn(R, Nat)
  BY LessWellFounded
<1>2. \E m \in S : \A x \in S : ~ (<<x, m>> \in R)
  BY ONLY <1>1, WFMin, S \subseteq Nat, S # {}
<1>3. ASSUME NEW m \in S, NEW x \in S, <<x, m>> \notin R
      PROVE  m <= x
  <2>1. m \in Nat /\ x \in Nat
    OBVIOUS
  <2>2. ~ (x < m)
    BY <1>3, <2>1
  <2>. QED BY <2>1, <2>2
<1>. QED BY <1>2, <1>3

(* Of finitely many, one is worth the most. *)
Highest(S, v) == \E m \in S : \A x \in S : v[m] >= v[x]

(* A finite set that is not empty has one that is worth the most: a least   *)
(* set without one would be one without it less any of its elements.        *)
LEMMA HighestExists ==
  ASSUME NEW T, NEW v \in [T -> Int],
         NEW S, IsFiniteSet(S), S \subseteq T, S # {}
  PROVE  Highest(S, v)
<1>. DEFINE Bad == {s \in SUBSET S : s # {} /\ ~Highest(s, v)}
            Sizes == {Cardinality(s) : s \in Bad}
<1>1. SUFFICES ASSUME Bad # {} PROVE FALSE
  OBVIOUS
<1>2. \A s \in SUBSET S : IsFiniteSet(s) /\ Cardinality(s) \in Nat
  BY FS_Subset, FS_CardinalityType
<1>3. Sizes \subseteq Nat /\ Sizes # {}
  BY <1>1, <1>2
<1>4. PICK n \in Sizes : \A m \in Sizes : n <= m
  BY <1>3, LeastExists
<1>5. PICK s \in Bad : n = Cardinality(s)
  OBVIOUS
<1>6. PICK a \in s : TRUE
  OBVIOUS
<1>. DEFINE r == s \ {a}
<1>7. /\ r \in SUBSET S
      /\ Cardinality(r) = Cardinality(s) - 1
  BY <1>2, <1>6, FS_RemoveElement
<1>8. ~(n <= Cardinality(r))
  BY <1>2, <1>5, <1>7
<1>9. r = {} \/ Highest(r, v)
  BY <1>4, <1>7, <1>8
<1>10. \A x \in s : v[x] \in Int
  OBVIOUS
<1>11. CASE r = {}
  <2>1. \A x \in s : x = a
    BY <1>11
  <2>. QED BY <1>5, <1>6, <1>10, <2>1 DEF Highest
<1>12. CASE Highest(r, v)
  <2>1. PICK m \in r : \A x \in r : v[m] >= v[x]
    BY <1>12 DEF Highest
  <2>2. CASE v[m] >= v[a]
    <3>1. m \in s /\ \A x \in s : v[m] >= v[x]
      BY <2>1, <2>2
    <3>. QED BY <1>5, <3>1 DEF Highest
  <2>3. CASE ~(v[m] >= v[a])
    <3>1. m \in s /\ \A x \in r : v[a] >= v[x]
      BY <1>6, <1>10, <2>1, <2>3
    <3>2. \A x \in s : v[a] >= v[x]
      BY <1>6, <1>10, <3>1
    <3>. QED BY <1>5, <1>6, <3>2 DEF Highest
  <2>. QED BY <2>2, <2>3
<1>. QED BY <1>9, <1>11, <1>12

(* A finite set of integers that is not empty has a Max and a Min. *)
LEMMA MaxOf ==
  ASSUME NEW S, IsFiniteSet(S), S \subseteq Int, S # {}
  PROVE  Max(S) \in S /\ \A x \in S : x <= Max(S)
<1>1. [x \in S |-> x] \in [S -> Int]
  OBVIOUS
<1>2. Highest(S, [x \in S |-> x])
  BY <1>1, HighestExists
<1>3. \E m \in S : \A x \in S : m >= x
  BY <1>2 DEF Highest
<1>4. Max(S) \in S /\ \A x \in S : Max(S) >= x
  BY <1>3 DEF Max
<1>. QED BY <1>4

(* Its least one. *)
LEMMA MinOf ==
  ASSUME NEW S, IsFiniteSet(S), S \subseteq Int, S # {}
  PROVE  Min(S) \in S /\ \A x \in S : Min(S) <= x
<1>1. [x \in S |-> -x] \in [S -> Int]
  OBVIOUS
<1>2. Highest(S, [x \in S |-> -x])
  BY <1>1, HighestExists
<1>3. PICK m \in S : \A x \in S : -m >= -x
  BY <1>2 DEF Highest
<1>4. \A x \in S : m <= x
  BY <1>3
<1>. QED BY <1>4 DEF Min

-----------------------------------------------------------------------------
(* The inputs of a behaviour.                                              *)

(* A task computes once, from an input of its own. *)
LEMMA TaskOf ==
  Spec => [](task \in DOMAIN InputsOf /\ input \in InputsOf[task])
<1>1. Init => task \in DOMAIN InputsOf /\ input \in InputsOf[task]
  BY DEF Init
<1>2. /\ task \in DOMAIN InputsOf /\ input \in InputsOf[task]
      /\ [Next]_vars
      => (task \in DOMAIN InputsOf /\ input \in InputsOf[task])'
  <2>1. [Next]_vars => UNCHANGED <<task, input>>
    BY DEF Next, vars, Yields, OrderOfBattle, ScoreScene, DetectBlock, Tune, PlanReceiver,
           Calibrate, Sweep, MeasureReference, IdentifyTone, RecordFigures, Replay
  <2>. QED BY <2>1 DEF InputsOf
<1>. QED BY <1>1, <1>2, PTL DEF Spec

-----------------------------------------------------------------------------
(* The vote on a tone.                                                     *)

Agreeing(w, t) == {k \in Voters(w) : w[k].tone = t}

(* The votes for a tone are a number between none and all windows. *)
LEMMA AgreeingAreFew ==
  ASSUME NEW w, NEW n \in Nat, DOMAIN w = 1 .. n, NEW t
  PROVE  /\ IsFiniteSet(Agreeing(w, t))
         /\ Votes(w, t) = Cardinality(Agreeing(w, t))
         /\ Votes(w, t) \in 0 .. n
<1>1. IsFiniteSet(1 .. n) /\ Cardinality(1 .. n) = n
  BY FS_Interval
<1>2. Agreeing(w, t) \subseteq 1 .. n
  BY DEF Agreeing, Voters
<1>3. /\ IsFiniteSet(Agreeing(w, t))
      /\ Cardinality(Agreeing(w, t)) <= n
  BY <1>1, <1>2, FS_Subset
<1>4. Cardinality(Agreeing(w, t)) \in Nat
  BY <1>3, FS_CardinalityType
<1>5. Votes(w, t) = Cardinality(Agreeing(w, t))
  BY DEF Votes, Agreeing
<1>. QED BY <1>3, <1>4, <1>5

(* The winner is one of the voters' tones, and none has more votes.        *)
LEMMA WinnerHasMost ==
  ASSUME NEW w, NEW n \in Nat, DOMAIN w = 1 .. n, Voters(w) # {}
  PROVE  /\ \E k \in Voters(w) : Winner(w) = w[k].tone
         /\ \A k \in Voters(w) :
               Votes(w, Winner(w)) >= Votes(w, w[k].tone)
<1>. DEFINE V == Voters(w)
            votes == [k \in V |-> Votes(w, w[k].tone)]
            most == {k \in V : \A j \in V :
                       Votes(w, w[k].tone) >= Votes(w, w[j].tone)}
<1>1. V \subseteq 1 .. n /\ IsFiniteSet(V)
  <2>1. V \subseteq 1 .. n
    BY DEF Voters
  <2>. HIDE DEF V
  <2>2. IsFiniteSet(1 .. n)
    BY FS_Interval
  <2>. QED BY <2>1, <2>2, FS_Subset
<1>2. votes \in [V -> Int]
  BY AgreeingAreFew
<1>3. most # {}
  <2>1. V \subseteq V /\ V # {}
    OBVIOUS
  <2>. HIDE DEF V, votes
  <2>2. Highest(V, votes)
    BY <1>1, <1>2, <2>1, HighestExists
  <2>3. PICK k \in V : \A j \in V : votes[k] >= votes[j]
    BY <2>2 DEF Highest
  <2>4. k \in most
    BY <2>3 DEF votes
  <2>. QED BY <2>4
<1>4. most \subseteq Int /\ IsFiniteSet(most)
  BY <1>1, FS_Subset
<1>5. Min(most) \in most
  BY <1>3, <1>4, MinOf
<1>6. Winner(w) = w[Min(most)].tone
  BY DEF Winner
<1>. QED BY <1>5, <1>6

(* Two tones cannot both have more than half of the windows.               *)
LEMMA OneMajority ==
  ASSUME NEW w, NEW n \in Nat, DOMAIN w = 1 .. n, NEW s, NEW t, s # t
  PROVE  Votes(w, s) + Votes(w, t) <= n
<1>1. /\ IsFiniteSet(Agreeing(w, s)) /\ IsFiniteSet(Agreeing(w, t))
      /\ Votes(w, s) = Cardinality(Agreeing(w, s))
      /\ Votes(w, t) = Cardinality(Agreeing(w, t))
  BY AgreeingAreFew
<1>2. Agreeing(w, s) \cap Agreeing(w, t) = {}
  BY DEF Agreeing
<1>3. Agreeing(w, s) \cup Agreeing(w, t) \subseteq 1 .. n
  BY DEF Agreeing, Voters
<1>4. /\ IsFiniteSet(1 .. n) /\ Cardinality(1 .. n) = n
  BY FS_Interval
<1>5. Cardinality(Agreeing(w, s) \cup Agreeing(w, t)) <= n
  BY <1>3, <1>4, FS_Subset
<1>6. Cardinality(Agreeing(w, s) \cup Agreeing(w, t))
        = Cardinality(Agreeing(w, s)) + Cardinality(Agreeing(w, t))
           - Cardinality(Agreeing(w, s) \cap Agreeing(w, t))
  BY <1>1, FS_Union
<1>7. Cardinality(Agreeing(w, s) \cap Agreeing(w, t)) = 0
  BY <1>2, FS_EmptySet
<1>8. Cardinality(Agreeing(w, s)) \in Nat /\ Cardinality(Agreeing(w, t)) \in Nat
  BY <1>1, FS_CardinalityType
<1>9. Cardinality(Agreeing(w, s)) + Cardinality(Agreeing(w, t)) <= n
  BY <1>5, <1>6, <1>7, <1>8
<1>. QED BY <1>1, <1>9

(* Exchanging two neighbours takes no vote from a tone.                    *)
LEMMA SwapKeepsVotes ==
  ASSUME NEW w, NEW n \in Nat, DOMAIN w = 1 .. n, NEW i \in 1 .. n - 1, NEW t
  PROVE  /\ DOMAIN Swapped(w, i) = 1 .. n
         /\ Votes(Swapped(w, i), t) = Votes(w, t)
         /\ (Voters(Swapped(w, i)) = {}) = (Voters(w) = {})
<1>. DEFINE u == Swapped(w, i)
            Other(k) == IF k = i THEN i + 1 ELSE IF k = i + 1 THEN i ELSE k
            f == [k \in Agreeing(w, t) |-> Other(k)]
<1>1. i \in 1 .. n /\ i + 1 \in 1 .. n /\ i # i + 1
  OBVIOUS
<1>2. DOMAIN u = 1 .. n /\ \A k \in 1 .. n : u[k] = w[Other(k)]
  BY <1>1 DEF Swapped
<1>3. \A k \in 1 .. n : Other(k) \in 1 .. n /\ Other(Other(k)) = k
  BY <1>1
<1>. HIDE DEF u, Other
<1>4. \A k \in 1 .. n :
        /\ k \in Voters(u) <=> Other(k) \in Voters(w)
        /\ k \in Agreeing(u, t) <=> Other(k) \in Agreeing(w, t)
  BY <1>2, <1>3 DEF Agreeing, Voters
<1>5. /\ Voters(u) \subseteq 1 .. n /\ Voters(w) \subseteq 1 .. n
      /\ Agreeing(u, t) \subseteq 1 .. n /\ Agreeing(w, t) \subseteq 1 .. n
  BY <1>2 DEF Agreeing, Voters
<1>6. f \in Bijection(Agreeing(w, t), Agreeing(u, t))
  <2>1. f \in [Agreeing(w, t) -> Agreeing(u, t)]
    BY <1>3, <1>4, <1>5
  <2>2. \A a, b \in Agreeing(w, t) : f[a] = f[b] => a = b
    BY <1>3, <1>5
  <2>3. \A b \in Agreeing(u, t) : \E a \in Agreeing(w, t) : f[a] = b
    BY <1>3, <1>4, <1>5
  <2>. QED BY <2>1, <2>2, <2>3 DEF Bijection, Injection, Surjection, IsInjective
<1>7. IsFiniteSet(Agreeing(w, t))
  BY AgreeingAreFew
<1>8. Cardinality(Agreeing(w, t)) = Cardinality(Agreeing(u, t))
  BY <1>6, <1>7, FS_Bijection DEF ExistsBijection
<1>9. Votes(u, t) = Votes(w, t)
  BY <1>2, <1>8, AgreeingAreFew
<1>10. Voters(u) = {} <=> Voters(w) = {}
  BY <1>3, <1>4, <1>5
<1>. QED BY <1>2, <1>9, <1>10 DEF u

(* The tone there is, if there is one, has enough of the votes; and with   *)
(* more than half of the windows to be had it does not matter who voted    *)
(* first.                                                                  *)
LEMMA DetectIs ==
  ASSUME NEW w
  PROVE  LET few == Len(w) < MinWindows \/ Voters(w) = {}
             won == 100 * Votes(w, Winner(w)) >= VoteRatio * Len(w)
         IN  Detect(w).tone =
                 IF ~few /\ won THEN Winner(w) ELSE 0
BY DEF Detect, Unidentified, Carries

(* When the ratio asks for more than half, two neighbouring windows can be  *)
(* exchanged.                                                               *)
LEMMA ToneIgnoresOrder ==
  ASSUME NEW S, NEW w \in Seq(S), NEW i \in 1 .. Len(w) - 1, 2 * VoteRatio > 100
  PROVE  Detect(Swapped(w, i)).tone = Detect(w).tone
<1>. DEFINE u == Swapped(w, i)
            n == Len(w)
            a == Votes(w, Winner(w))
            b == Votes(u, Winner(u))
<1>. SUFFICES Detect(u).tone = Detect(w).tone
  OBVIOUS
<1>1. n \in Nat /\ DOMAIN w = 1 .. n
  BY LenProperties
<1>0. i \in 1 .. n - 1
  OBVIOUS
<1>. HIDE DEF n
<1>2. /\ DOMAIN u = 1 .. n
      /\ \A t : Votes(u, t) = Votes(w, t)
      /\ Voters(u) = {} <=> Voters(w) = {}
  <2>1. \A t : /\ DOMAIN u = 1 .. n
               /\ Votes(u, t) = Votes(w, t)
               /\ (Voters(u) = {}) = (Voters(w) = {})
    BY <1>0, <1>1, SwapKeepsVotes
  <2>. QED BY <2>1
<1>3. Len(u) = n
  <2>1. /\ i \in DOMAIN w /\ i + 1 \in DOMAIN w
        /\ w \in [1 .. n -> S]
    BY <1>0, <1>1
  <2>2. u \in [1 .. n -> S]
    BY <1>1, <2>1 DEF Swapped
  <2>. QED BY <1>1, <2>2
<1>4. VoteRatio \in Nat /\ MinWindows \in Nat
  BY AnalysesAssumption DEF AnalysesAssumption
<1>. HIDE DEF u
<1>5. CASE Voters(w) = {} \/ n < MinWindows
  <2>1. Detect(w).tone = 0
    BY <1>5, DetectIs DEF n
  <2>2. Detect(u).tone = 0
    BY <1>2, <1>3, <1>5, DetectIs DEF n
  <2>. QED BY <2>1, <2>2
<1>6. CASE Voters(w) # {} /\ ~(n < MinWindows)
  <2>1. a \in 0 .. n /\ b \in 0 .. n
    BY <1>1, <1>2, AgreeingAreFew
  <2>2. PICK k \in Voters(w) : Winner(w) = w[k].tone
    BY <1>1, <1>6, WinnerHasMost
  <2>3. PICK l \in Voters(u) : Winner(u) = u[l].tone
    BY <1>1, <1>2, <1>6, WinnerHasMost
  <2>4. \E m \in Voters(u) : u[m].tone = w[k].tone
    <3>1. k \in Agreeing(w, w[k].tone)
      BY <2>2 DEF Agreeing
    <3>2. Cardinality(Agreeing(u, w[k].tone)) # 0
      BY <1>1, <1>2, <3>1, AgreeingAreFew, FS_EmptySet
    <3>3. Agreeing(u, w[k].tone) # {}
      BY <3>2, FS_EmptySet
    <3>. QED BY <3>3 DEF Agreeing
  <2>5. \E m \in Voters(w) : w[m].tone = u[l].tone
    <3>1. l \in Agreeing(u, u[l].tone)
      BY <2>3 DEF Agreeing
    <3>2. Cardinality(Agreeing(w, u[l].tone)) # 0
      BY <1>1, <1>2, <3>1, AgreeingAreFew, FS_EmptySet
    <3>3. Agreeing(w, u[l].tone) # {}
      BY <3>2, FS_EmptySet
    <3>. QED BY <3>3 DEF Agreeing
  <2>6. b >= Votes(u, w[k].tone)
    BY <1>1, <1>2, <1>6, <2>4, WinnerHasMost
  <2>7. a >= Votes(w, u[l].tone)
    BY <1>1, <1>6, <2>5, WinnerHasMost
  <2>8. a = b
    BY <1>2, <2>1, <2>2, <2>3, <2>6, <2>7
  <2>9. CASE ~(100 * a >= VoteRatio * n)
    <3>1. Detect(w).tone = 0
      BY <2>9, DetectIs DEF n
    <3>2. Detect(u).tone = 0
      BY <1>3, <2>8, <2>9, DetectIs
    <3>. QED BY <3>1, <3>2
  <2>10. CASE 100 * a >= VoteRatio * n
    <3>1. n > 0
      BY <1>1, <2>2 DEF Voters
    <3>2. Winner(u) = Winner(w)
      <4>1. SUFFICES ASSUME Winner(u) # Winner(w) PROVE FALSE
        OBVIOUS
      <4>2. Votes(w, Winner(u)) + a <= n
        BY <1>1, <4>1, OneMajority
      <4>3. 2 * a <= n
        BY <1>2, <2>1, <2>8, <4>2
      <4>4. VoteRatio >= 51 /\ VoteRatio * n = 51 * n + (VoteRatio - 51) * n
        BY <1>1, <1>4
      <4>5. (VoteRatio - 51) * n >= 0
        <5>. DEFINE v == VoteRatio - 51
        <5>1. v \in Nat
          BY <1>4, <4>4
        <5>. HIDE DEF v
        <5>2. v * n \in Nat
          BY <1>1, <5>1
        <5>. QED BY <5>2 DEF v
      <4>6. 100 * a >= 51 * n
        <5>1. VoteRatio * n \in Int
          BY <1>1, <1>4
        <5>2. 100 * a >= VoteRatio * n /\ a \in Int
          BY <2>1, <2>10
        <5>3. (VoteRatio - 51) * n \in Int /\ 51 * n \in Int
          BY <1>1, <1>4
        <5>. HIDE DEF a
        <5>. QED BY <4>4, <4>5, <5>1, <5>2, <5>3
      <4>. QED BY <1>1, <2>1, <3>1, <4>3, <4>6
    <3>3. Detect(w).tone = Winner(w)
      BY <1>6, <2>10, DetectIs DEF n
    <3>4. Detect(u).tone = Winner(u)
      BY <1>2, <1>3, <1>6, <2>8, <2>10, DetectIs
    <3>. QED BY <3>2, <3>3, <3>4
  <2>. QED BY <2>9, <2>10
<1>. QED BY <1>5, <1>6

(* A tone is identified only when enough of all windows agree on it, and   *)
(* the same in whatever order they come; FRIEND is nothing but the tone of *)
(* the deployment.                                                         *)
LEMMA ToneIsRight ==
  ASSUME NEW x \in Windows
  PROVE  LET result == Detect(x.windows)
         IN  /\ result.tone # 0 =>
                   100 * Cardinality({k \in DOMAIN x.windows :
                                         x.windows[k].tone = result.tone})
                       >= VoteRatio * Len(x.windows)
             /\ \A i \in 1 .. Len(x.windows) - 1 :
                   2 * VoteRatio > 100 =>
                       Detect(Swapped(x.windows, i)).tone = result.tone
             /\ Classify(result, x.expected) = "FRIEND" =>
                    x.expected # 0 /\ result.tone = x.expected
<1>. DEFINE w == x.windows
            n == Len(w)
            t == Detect(w).tone
            all == {k \in DOMAIN w : w[k].tone = t}
<1>1. w \in Seq([tone : Nat, contrast : Nat])
  BY InputsAssumption DEF InputsAssumption
<1>2. n \in Nat /\ DOMAIN w = 1 .. n
  BY <1>1, LenProperties
<1>. HIDE DEF w
<1>3. ASSUME t # 0 PROVE 100 * Cardinality(all) >= VoteRatio * n
  <2>1. /\ t = Winner(w)
        /\ 100 * Votes(w, t) >= VoteRatio * n
    BY <1>3, DetectIs
  <2>. HIDE DEF t
  <2>2. Agreeing(w, t) \subseteq all /\ all \subseteq 1 .. n
    BY <1>2 DEF Agreeing, Voters
  <2>. HIDE DEF all, n
  <2>3. IsFiniteSet(all)
    <3>1. IsFiniteSet(1 .. n)
      BY <1>2, FS_Interval
    <3>. QED BY <2>2, <3>1, FS_Subset
  <2>4. Cardinality(Agreeing(w, t)) <= Cardinality(all)
    BY <2>2, <2>3, FS_Subset
  <2>5. /\ Votes(w, t) = Cardinality(Agreeing(w, t))
        /\ Votes(w, t) \in Nat
    BY <1>2, AgreeingAreFew
  <2>6. Cardinality(all) \in Nat /\ VoteRatio * n \in Nat
    BY <1>2, <2>3, FS_CardinalityType, AnalysesAssumption DEF AnalysesAssumption
  <2>. QED BY <2>1, <2>4, <2>5, <2>6
<1>4. \A i \in 1 .. n - 1 :
          2 * VoteRatio > 100 => Detect(Swapped(w, i)).tone = t
  BY <1>1, ToneIgnoresOrder
<1>. QED BY <1>3, <1>4 DEF w, Classify

-----------------------------------------------------------------------------
(* Division.                                                               *)

LEMMA DivIs ==
  ASSUME NEW q \in Int, NEW s \in Nat \ {0}, NEW r \in 0 .. s - 1
  PROVE  (q * s + r) \div s = q
OBVIOUS

(* The remainder of so many whole steps and a rest. *)
LEMMA ModIs ==
  ASSUME NEW q \in Int, NEW s \in Nat \ {0}, NEW r \in 0 .. s - 1
  PROVE  (q * s + r) % s = r
OBVIOUS

(* A number is its whole steps and its remainder. *)
LEMMA DivMod ==
  ASSUME NEW a \in Int, NEW s \in Nat \ {0}
  PROVE  /\ a \div s \in Int
         /\ a % s \in 0 .. s - 1
         /\ a = (a \div s) * s + (a % s)
<1>. DEFINE q == a \div s
            r == a - q * s
<1>1. q \in Int /\ q * s <= a /\ a < q * s + s
  OBVIOUS
<1>. HIDE DEF q
<1>2. r \in 0 .. s - 1 /\ a = q * s + r
  BY <1>1
<1>. HIDE DEF r
<1>3. a % s = r
  BY <1>1, <1>2, ModIs
<1>. QED BY <1>1, <1>2, <1>3 DEF q

(* A whole number of steps. *)
LEMMA Multiple ==
  ASSUME NEW q \in Int, NEW s \in Nat \ {0}
  PROVE  (q * s) \div s = q /\ (q * s) % s = 0
<1>1. 0 \in 0 .. s - 1 /\ q * s + 0 = q * s
  OBVIOUS
<1>. QED BY <1>1, DivIs, ModIs

(* One step more is a whole step further. *)
LEMMA StepsApart ==
  ASSUME NEW a \in Int, NEW b \in Int, NEW s \in Nat \ {0}, a < b
  PROVE  a * s + s <= b * s
<1>1. (a + 1) * s <= b * s
  OBVIOUS
<1>2. (a + 1) * s = a * s + s
  OBVIOUS
<1>. QED BY <1>1, <1>2

(* Steps are in the order of their numbers. *)
LEMMA StepsOrdered ==
  ASSUME NEW a \in Int, NEW b \in Int, NEW s \in Nat \ {0}
  PROVE  /\ a * s < b * s <=> a < b
         /\ a * s <= b * s <=> a <= b
<1>1. a * s \in Int /\ b * s \in Int
  OBVIOUS
<1>2. a < b => a * s + s <= b * s
  BY StepsApart
<1>3. b < a => b * s + s <= a * s
  BY StepsApart
<1>. QED BY <1>1, <1>2, <1>3

-----------------------------------------------------------------------------
(* What each task yields, of its input.                                    *)
Accepted(x) == Accepts(x)

Planned(x) ==
    [attenuation |-> RequiredAttenuation(x.chain, x.source, x.margin),
     gains |-> PlanGains(x.external, x.target)]

Fitted(x) ==
    FoldLeft(LAMBDA table, sweep :
        AddCalibration(table,
            FitCalibration(sweep.gains, sweep.points, x.most)),
        [g \in {} |-> 0], x.sweeps)

Swept(x) ==
    LET excluded == ExcludedBins(x.bins, x.dc, x.edge)
        hop == Hop(x.size, x.overlap)
    IN  [level     |-> Measure(x.frames, x.bins, x.chunk, x.settle, excluded),
         bits      |-> Bits(x.codes, x.chunk),
         analysed  |-> Analysed(x.samples, x.size, hop, x.chunk),
         waterfall |-> Waterfall(x.samples, x.size, hop, x.most)]

Identified(x) ==
    [tone  |-> Detect(x.windows).tone,
     class |-> Classify(Detect(x.windows), x.expected)]

Registered(x) == Register(x)

Scored(x) == Score(x.reports, Truth(x.scene), x.sceneStart)

Masked(x) == DetectionMask(x.cfg, x.frames, x.exclude)

Replayed(x) ==
    LET recording == Recorded(x.begin, x.items)
        vector == Extracted(recording, x.start, x.duration, x.ratio, x.later)
    IN  [start  |-> InferStart(recording),
         read   |-> ReadAll(recording, x.block).read,
         array  |-> ReadArray(x.items, x.block).read,
         vector |-> IF Holds(recording, x.start, x.duration)
                    THEN <<[start |-> InferStart(vector),
                            read  |-> ReadAll(vector, x.block).read]>>
                    ELSE <<>>]

Results ==
    /\ Is("score") => output = Scored(input)
    /\ Is("detect") => output = Masked(input)
    /\ Is("tune") => output = Accepted(input)
    /\ Is("gains") => output = Planned(input)
    /\ Is("calibrate") => output = Fitted(input)
    /\ Is("sweep") => output = Swept(input)
    /\ Is("tone") => output = Identified(input)
    /\ Is("record") => output = Registered(input)
    /\ Is("replay") => output = Replayed(input)

(* An input stays what it is, and what has been yielded of it too. *)
LEMMA ResultsAlways == Spec => []Results
<1>1. Init => Results
  BY DEF Init, Results, Is
<1>2. ASSUME Results, [Next]_vars PROVE Results'
  <2>. USE DEF Is, Yields
  <2>1. CASE OrderOfBattle
    BY <2>1 DEF OrderOfBattle, Results
  <2>2. CASE ScoreScene
    BY <2>2 DEF ScoreScene, Results, Scored
  <2>3. CASE DetectBlock
    BY <2>3 DEF DetectBlock, Results, Masked
  <2>4. CASE Tune
    BY <2>4 DEF Tune, Results, Accepted
  <2>5. CASE PlanReceiver
    BY <2>5 DEF PlanReceiver, Results, Planned
  <2>6. CASE Calibrate
    <3>1. Calibrate => output' = Fitted(input) /\ task = "calibrate" /\ task' = task /\ input' = input
      BY DEF Calibrate, Fitted
    <3>. QED BY <2>6, <3>1 DEF Results
  <2>7. CASE Sweep
    <3>1. output' = Swept(input) /\ task = "sweep" /\ task' = task /\ input' = input
      BY <2>7 DEF Sweep, Swept, Excluded, SurveyHop
    <3>. QED BY <3>1 DEF Results
  <2>8. CASE MeasureReference
    BY <2>8 DEF MeasureReference, Results
  <2>9. CASE IdentifyTone
    BY <2>9 DEF IdentifyTone, Results, Identified
  <2>10. CASE RecordFigures
    BY <2>10 DEF RecordFigures, Results, Registered
  <2>11. CASE Replay
    <3>1. output' = Replayed(input) /\ task = "replay" /\ task' = task /\ input' = input
      BY <2>11 DEF Replay, Replayed, Recording, Vector
    <3>. QED BY <3>1 DEF Results
  <2>12. CASE UNCHANGED vars
    BY <1>2, <2>12 DEF vars, Results
  <2>. QED BY <1>2, <2>1, <2>2, <2>3, <2>4, <2>5, <2>6, <2>7, <2>8, <2>9, <2>10,
              <2>11, <2>12 DEF Next
<1>. QED BY <1>1, <1>2, PTL DEF Spec

(* A tone is identified only when enough of all windows agree on it, and   *)
(* when enough is more than half it is the same in whatever order they     *)
(* come; FRIEND is nothing but the tone of the deployment: core/ctcss.py.  *)
THEOREM TonesCorrect == Spec => []TonesAreVoted
<1>1. /\ task \in DOMAIN InputsOf /\ input \in InputsOf[task]
      /\ Results
      => TonesAreVoted
  <2>1. SUFFICES ASSUME Is("tone"), input \in InputsOf[task], Results
                 PROVE  TonesAreVoted
    BY DEF TonesAreVoted
  <2>2. input \in Windows
    BY <2>1 DEF Is, InputsOf
  <2>3. output = Identified(input)
    BY <2>1 DEF Results
  <2>. QED BY <2>2, <2>3, ToneIsRight DEF TonesAreVoted, Identified
<1>. QED BY <1>1, TaskOf, ResultsAlways, PTL

-----------------------------------------------------------------------------
(* Folds.  A fold is a function on the subsets of a finite set that obeys  *)
(* its recursion, of which there is exactly one: a value for each subset   *)
(* from that of the subset less the element picked.                        *)

Folded(g, pick, base, step, s) ==
    IF s = {} THEN base ELSE step[pick[s]][g[s \ {pick[s]}]]

IsFoldOf(g, S, V, pick, base, step) ==
    /\ g \in [SUBSET S -> V]
    /\ \A s \in SUBSET S : g[s] = Folded(g, pick, base, step, s)

Picks(pick, S) == \A s \in SUBSET S : s # {} => pick[s] \in s

(* The subsets of up to n elements. *)
SizedUpTo(S, n) == {s \in SUBSET S : Cardinality(s) <= n}

FoldsTo(S, V, pick, base, step, n) ==
    \E g \in [SizedUpTo(S, n) -> V] :
        \A s \in SizedUpTo(S, n) : g[s] = Folded(g, pick, base, step, s)

(* A subset less what is picked from it is one smaller. *)
LEMMA LessThePicked ==
  ASSUME NEW S, IsFiniteSet(S), NEW pick, Picks(pick, S),
         NEW s \in SUBSET S, s # {}
  PROVE  /\ pick[s] \in S
         /\ s \ {pick[s]} \in SUBSET S
         /\ Cardinality(s) \in Nat \ {0}
         /\ Cardinality(s \ {pick[s]}) = Cardinality(s) - 1
<1>1. IsFiniteSet(s) /\ pick[s] \in s
  BY FS_Subset DEF Picks
<1>2. Cardinality(s) \in Nat /\ Cardinality(s) # 0
  BY <1>1, FS_CardinalityType, FS_EmptySet
<1>3. Cardinality(s \ {pick[s]}) = Cardinality(s) - 1
  BY <1>1, FS_RemoveElement
<1>. QED BY <1>1, <1>2, <1>3

(* Up to no element there is a fold: the base. *)
LEMMA FoldsToNone ==
  ASSUME NEW S, IsFiniteSet(S), NEW V, NEW pick, NEW base \in V, NEW step
  PROVE  FoldsTo(S, V, pick, base, step, 0)
<1>1. ASSUME NEW s \in SizedUpTo(S, 0) PROVE s = {}
  <2>1. IsFiniteSet(s)
    BY FS_Subset DEF SizedUpTo
  <2>2. Cardinality(s) \in Nat /\ Cardinality(s) <= 0
    BY <2>1, FS_CardinalityType DEF SizedUpTo
  <2>3. Cardinality(s) = 0
    BY <2>2
  <2>. QED BY <2>1, <2>3, FS_EmptySet
<1>2. PICK g : g = [s \in SizedUpTo(S, 0) |-> base]
  OBVIOUS
<1>3. g \in [SizedUpTo(S, 0) -> V]
  BY <1>2
<1>4. \A s \in SizedUpTo(S, 0) : g[s] = Folded(g, pick, base, step, s)
  BY <1>1, <1>2 DEF Folded
<1>. QED BY <1>3, <1>4 DEF FoldsTo

(* A fold up to n elements can be continued by one. *)
LEMMA FoldsToNext ==
  ASSUME NEW S, IsFiniteSet(S), NEW V, NEW pick, Picks(pick, S), NEW base \in V,
         NEW step \in [S -> [V -> V]], NEW n \in Nat, FoldsTo(S, V, pick, base, step, n)
  PROVE  FoldsTo(S, V, pick, base, step, n + 1)
<1>1. PICK g \in [SizedUpTo(S, n) -> V] :
          \A s \in SizedUpTo(S, n) : g[s] = Folded(g, pick, base, step, s)
  BY DEF FoldsTo
<1>2. PICK h : h = [s \in SizedUpTo(S, n + 1) |-> Folded(g, pick, base, step, s)]
  OBVIOUS
<1>3. ASSUME NEW s \in SizedUpTo(S, n + 1)
      PROVE  h[s] \in V /\ h[s] = Folded(h, pick, base, step, s)
  <2>1. h[s] = Folded(g, pick, base, step, s)
    BY <1>2
  <2>2. CASE s = {}
    BY <2>1, <2>2 DEF Folded
  <2>3. CASE s # {}
    <3>. DEFINE t == s \ {pick[s]}
    <3>1. /\ pick[s] \in S /\ t \in SUBSET S /\ Cardinality(s) \in Nat
          /\ Cardinality(t) = Cardinality(s) - 1
          /\ Cardinality(s) <= n + 1
      BY <2>3, LessThePicked DEF SizedUpTo
    <3>2. Cardinality(t) <= n /\ Cardinality(t) <= n + 1
      BY <3>1
    <3>3. t \in SizedUpTo(S, n) /\ t \in SizedUpTo(S, n + 1)
      BY <3>1, <3>2 DEF SizedUpTo
    <3>. HIDE DEF t
    <3>4. h[t] = Folded(g, pick, base, step, t) /\ g[t] = Folded(g, pick, base, step, t)
      BY <1>1, <1>2, <3>3
    <3>5. h[t] = g[t] /\ g[t] \in V
      BY <3>3, <3>4
    <3>6. step[pick[s]][g[t]] \in V
      BY <3>1, <3>5
    <3>7. h[s] = step[pick[s]][g[t]]
      BY <2>1, <2>3 DEF Folded, t
    <3>. QED BY <2>3, <3>5, <3>6, <3>7 DEF Folded, t
  <2>. QED BY <2>2, <2>3
<1>4. h \in [SizedUpTo(S, n + 1) -> V]
  BY <1>2, <1>3
<1>. QED BY <1>3, <1>4 DEF FoldsTo

(* A fold exists: a least number of elements up to which there is none would*)
(* be neither zero nor one more than another.                               *)
LEMMA FoldOfExists ==
  ASSUME NEW S, IsFiniteSet(S), NEW V, NEW pick, Picks(pick, S), NEW base \in V,
         NEW step \in [S -> [V -> V]]
  PROVE  \E g : IsFoldOf(g, S, V, pick, base, step)
<1>. DEFINE Bad == {m \in Nat : ~FoldsTo(S, V, pick, base, step, m)}
<1>1. Bad = {}
  <2>1. SUFFICES ASSUME Bad # {} PROVE FALSE
    OBVIOUS
  <2>2. PICK m \in Bad : \A k \in Bad : m <= k
    BY <2>1, LeastExists
  <2>3. CASE m = 0
    BY <2>2, <2>3, FoldsToNone
  <2>4. CASE m # 0
    <3>1. m - 1 \in Nat /\ m = (m - 1) + 1 /\ ~(m <= m - 1)
      BY <2>2, <2>4
    <3>2. FoldsTo(S, V, pick, base, step, m - 1)
      BY <2>2, <3>1
    <3>3. FoldsTo(S, V, pick, base, step, (m - 1) + 1)
      BY <3>1, <3>2, FoldsToNext
    <3>. QED BY <2>2, <3>1, <3>3
  <2>. QED BY <2>3, <2>4
<1>2. Cardinality(S) \in Nat
  BY FS_CardinalityType
<1>3. SizedUpTo(S, Cardinality(S)) = SUBSET S
  BY FS_Subset DEF SizedUpTo
<1>4. FoldsTo(S, V, pick, base, step, Cardinality(S))
  BY <1>1, <1>2
<1>. QED BY <1>3, <1>4 DEF FoldsTo, IsFoldOf

(* Whatever obeys the recursion while its values are in V is that fold. *)
Obeys(f, S, V, pick, base, step) ==
    \A s \in SUBSET S :
        IF s = {} THEN f[s] = base
        ELSE f[s \ {pick[s]}] \in V => f[s] = step[pick[s]][f[s \ {pick[s]}]]

SameOn(f, g, S) == \A u \in SUBSET S : f[u] = g[u]

(* A least set on which the two differ would be one less what is picked. *)
LEMMA FoldOfIsOne ==
  ASSUME NEW S, IsFiniteSet(S), NEW V, NEW pick, Picks(pick, S), NEW base,
         NEW step, NEW g, IsFoldOf(g, S, V, pick, base, step),
         NEW f, Obeys(f, S, V, pick, base, step)
  PROVE  SameOn(f, g, S)
<1>. DEFINE Bad == {t \in SUBSET S : f[t] # g[t]}
            Sizes == {Cardinality(t) : t \in Bad}
<1>1. SUFFICES ASSUME Bad # {} PROVE FALSE
  BY DEF SameOn
<1>2. \A t \in SUBSET S : Cardinality(t) \in Nat
  BY FS_Subset, FS_CardinalityType
<1>3. Sizes \subseteq Nat /\ Sizes # {}
  BY <1>1, <1>2
<1>4. PICK n \in Sizes : \A m \in Sizes : n <= m
  BY <1>3, LeastExists
<1>5. PICK t \in SUBSET S : f[t] # g[t] /\ n = Cardinality(t)
  OBVIOUS
<1>. HIDE DEF Bad, Sizes
<1>6. CASE t = {}
  BY <1>5, <1>6 DEF IsFoldOf, Folded, Obeys
<1>7. CASE t # {}
  <2>. DEFINE w == t \ {pick[t]}
  <2>1. /\ w \in SUBSET S
        /\ Cardinality(t) \in Nat \ {0}
        /\ Cardinality(w) = Cardinality(t) - 1
    <3>1. IsFiniteSet(S) /\ Picks(pick, S) /\ t \in SUBSET S /\ t # {}
      BY <1>5, <1>7
    <3>. QED BY ONLY <3>1, LessThePicked, Zenon
  <2>2. ~(n <= Cardinality(w))
    BY <1>5, <2>1
  <2>3. f[w] = g[w]
    BY <1>4, <2>1, <2>2 DEF Bad, Sizes
  <2>4. g[w] \in V
    BY <2>1 DEF IsFoldOf
  <2>5. f[t] = step[pick[t]][f[w]]
    BY <1>5, <1>7, <2>3, <2>4 DEF Obeys
  <2>6. g[t] = step[pick[t]][g[w]]
    BY <1>5, <1>7 DEF IsFoldOf, Folded
  <2>. QED BY <1>5, <2>3, <2>5, <2>6
<1>. QED BY <1>6, <1>7

(* The fold of a sequence of n elements takes them from the first on: its  *)
(* value is the last of a history of n steps.                              *)
Largest(n) == [s \in SUBSET (1 .. n) |-> Max(s)]

(* The library's folds over sequences pick the largest index. *)
LEMMA LargestPicks ==
  ASSUME NEW n \in Nat
  PROVE  Picks(Largest(n), 1 .. n)
<1>1. SUFFICES ASSUME NEW s \in SUBSET (1 .. n), s # {}
               PROVE  Max(s) \in s
  BY DEF Picks, Largest
<1>2. IsFiniteSet(1 .. n)
  BY FS_Interval
<1>3. IsFiniteSet(s)
  BY <1>2, FS_Subset
<1>4. s \subseteq Int
  OBVIOUS
<1>. QED BY <1>1, <1>3, <1>4, MaxOf

(* Of the first k that is the last one. *)
LEMMA LargestOfPrefix ==
  ASSUME NEW n \in Nat, NEW k \in 1 .. n
  PROVE  /\ Largest(n)[1 .. k] = k
         /\ (1 .. k) \ {k} = 1 .. k - 1
         /\ 1 .. k \in SUBSET (1 .. n) /\ 1 .. k # {}
<1>1. IsFiniteSet(1 .. k) /\ 1 .. k \subseteq Int /\ k \in 1 .. k
  BY FS_Interval
<1>2. Max(1 .. k) \in 1 .. k /\ k <= Max(1 .. k)
  BY <1>1, MaxOf
<1>3. Max(1 .. k) = k
  BY <1>2
<1>4. 1 .. k \in SUBSET (1 .. n)
  OBVIOUS
<1>5. (1 .. k) \ {k} = 1 .. k - 1
  OBVIOUS
<1>. QED BY <1>1, <1>3, <1>4, <1>5 DEF Largest

AreSteps(step, n, V) == step \in [1 .. n -> [V -> V]]

IsHistory(h, n, V, base, step) ==
    /\ h \in [0 .. n -> V]
    /\ h[0] = base
    /\ \A k \in 1 .. n : h[k] = step[k][h[k - 1]]

(* What obeys such a recursion is the end of a history, one step for each   *)
(* element from the first on.                                               *)
LEMMA FoldIsHistory ==
  ASSUME NEW n \in Nat, NEW V, NEW base \in V, NEW step, AreSteps(step, n, V),
         NEW f, Obeys(f, 1 .. n, V, Largest(n), base, step)
  PROVE  \E h : IsHistory(h, n, V, base, step) /\ f[1 .. n] = h[n]
<1>1. IsFiniteSet(1 .. n) /\ Picks(Largest(n), 1 .. n)
  BY FS_Interval, LargestPicks
<1>2. PICK g : IsFoldOf(g, 1 .. n, V, Largest(n), base, step)
  BY <1>1, FoldOfExists DEF AreSteps
<1>. DEFINE h == [k \in 0 .. n |-> g[1 .. k]]
<1>3. \A k \in 0 .. n : 1 .. k \in SUBSET (1 .. n)
  OBVIOUS
<1>4. h \in [0 .. n -> V]
  BY <1>2, <1>3 DEF IsFoldOf
<1>5. h[0] = base
  <2>1. 0 \in 0 .. n /\ 1 .. 0 = {}
    OBVIOUS
  <2>. QED BY <1>2, <1>3, <2>1 DEF IsFoldOf, Folded
<1>6. ASSUME NEW k \in 1 .. n PROVE h[k] = step[k][h[k - 1]]
  <2>1. /\ Largest(n)[1 .. k] = k
        /\ (1 .. k) \ {k} = 1 .. k - 1
        /\ 1 .. k \in SUBSET (1 .. n) /\ 1 .. k # {}
    BY LargestOfPrefix
  <2>2. g[1 .. k] = step[k][g[1 .. k - 1]]
    BY <1>2, <2>1 DEF IsFoldOf, Folded
  <2>3. k \in 0 .. n /\ k - 1 \in 0 .. n
    OBVIOUS
  <2>. QED BY <2>2, <2>3
<1>7. f[1 .. n] = h[n]
  <2>1. n \in 0 .. n
    OBVIOUS
  <2>2. 1 .. n \in SUBSET (1 .. n)
    OBVIOUS
  <2>3. \A u \in SUBSET (1 .. n) : f[u] = g[u]
    <3>. DEFINE S == 1 .. n
                pick == Largest(n)
    <3>1. IsFiniteSet(S) /\ Picks(pick, S) /\ IsFoldOf(g, S, V, pick, base, step)
          /\ Obeys(f, S, V, pick, base, step)
      BY <1>1, <1>2
    <3>. HIDE DEF S, pick
    <3>2. SameOn(f, g, S)
      BY ONLY <3>1, FoldOfIsOne
    <3>. QED BY <3>2 DEF S, SameOn
  <2>. QED BY <2>1, <2>2, <2>3
<1>. HIDE DEF h
<1>. QED BY <1>4, <1>5, <1>6, <1>7 DEF IsHistory

-----------------------------------------------------------------------------
(* The register of measured figures.                                       *)

RegisterStep(calls, f, s) ==
    LET x == [n \in DOMAIN calls |-> n][Max(s)]
    IN  IF s = {} THEN [k \in {} |-> 0]
        ELSE RecordMeasurement(f[s \ {Max(s)}], calls[x], x)

IsRegisterFold(calls, f) ==
    f = [s \in SUBSET DOMAIN [n \in DOMAIN calls |-> n] |-> RegisterStep(calls, f, s)]

(* The register as a recursion over the numbers of the calls. *)
LEMMA RegisterIs ==
  ASSUME NEW calls
  PROVE  Register(calls) =
             (CHOOSE f : IsRegisterFold(calls, f))[DOMAIN [n \in DOMAIN calls |-> n]]
BY DEF Register, FoldLeft, MapThenFoldSet, IsRegisterFold, RegisterStep

(* What a register can hold after calls. *)
EntriesOf(calls) ==
    [content : {calls[k].content : k \in DOMAIN calls},
     status : {calls[k].status : k \in DOMAIN calls}, firstSeen : Nat, lastVerified : Nat]

RegistersOf(calls) ==
    UNION {[K -> EntriesOf(calls)] : K \in SUBSET {calls[k].key : k \in DOMAIN calls}}

(* A call leaves a register of figures that calls have named. *)
LEMMA RecordKeepsType ==
  ASSUME NEW calls, NEW v \in RegistersOf(calls), NEW k \in DOMAIN calls, NEW now \in Nat
  PROVE  RecordMeasurement(v, calls[k], now) \in RegistersOf(calls)
<1>. DEFINE keys == {calls[j].key : j \in DOMAIN calls}
            E == EntriesOf(calls)
            entry == Entry(v, calls[k], now)
            new == [x \in DOMAIN v \cup {calls[k].key} |->
                       IF x = calls[k].key THEN entry ELSE v[x]]
<1>1. DOMAIN v \in SUBSET keys /\ v \in [DOMAIN v -> E]
  BY DEF RegistersOf
<1>2. entry \in E
  <2>1. CASE IsUnchanged(v, calls[k])
    <3>1. calls[k].key \in DOMAIN v
      BY <2>1 DEF IsUnchanged
    <3>2. v[calls[k].key] \in E
      BY <1>1, <3>1
    <3>. QED BY <2>1, <3>2 DEF Entry, EntriesOf
  <2>2. CASE ~IsUnchanged(v, calls[k])
    BY <2>2 DEF Entry, EntriesOf
  <2>. QED BY <2>1, <2>2
<1>. HIDE DEF E, entry
<1>3. DOMAIN v \cup {calls[k].key} \in SUBSET keys
  BY <1>1
<1>4. new \in [DOMAIN v \cup {calls[k].key} -> E]
  BY <1>1, <1>2
<1>5. new \in RegistersOf(calls)
  BY <1>3, <1>4 DEF RegistersOf, E
<1>. QED BY <1>5 DEF RecordMeasurement, entry

(* The register call by call. *)
IsRegister(h, calls) ==
    /\ h \in [0 .. Len(calls) -> RegistersOf(calls)]
    /\ h[0] = [k \in {} |-> 0]
    /\ \A k \in 1 .. Len(calls) : h[k] = RecordMeasurement(h[k - 1], calls[k], k)

(* The register is what the calls make of an empty one, one after another. *)
LEMMA RegisterHasHistory ==
  ASSUME NEW S, NEW calls \in Seq(S)
  PROVE  \E h : IsRegister(h, calls) /\ Register(calls) = h[Len(calls)]
<1>. DEFINE n == Len(calls)
            V == RegistersOf(calls)
            none == [k \in {} |-> 0]
            step == [k \in 1 .. n |-> [v \in V |-> RecordMeasurement(v, calls[k], k)]]
            same == [k \in DOMAIN calls |-> k]
<1>1. n \in Nat /\ DOMAIN calls = 1 .. n
  BY LenProperties
<1>2. none \in V
  <2>1. none \in [{} -> EntriesOf(calls)]
    OBVIOUS
  <2>. QED BY <2>1 DEF RegistersOf
<1>3. step \in [1 .. n -> [V -> V]]
  <2>1. ASSUME NEW k \in 1 .. n
        PROVE  [v \in V |-> RecordMeasurement(v, calls[k], k)] \in [V -> V]
    BY <1>1, <2>1, RecordKeepsType
  <2>. QED BY <2>1
<1>4. DOMAIN same = 1 .. n /\ \A k \in 1 .. n : same[k] = k
  BY <1>1
<1>5. IsFiniteSet(1 .. n) /\ Picks(Largest(n), 1 .. n)
  BY <1>1, FS_Interval, LargestPicks
<1>6. \A k \in 1 .. n, v \in V : step[k][v] = RecordMeasurement(v, calls[k], k)
  OBVIOUS
<1>. HIDE DEF step, V, none, n
<1>7. PICK g : IsFoldOf(g, 1 .. n, V, Largest(n), none, step)
  BY <1>2, <1>3, <1>5, FoldOfExists
<1>8. ASSUME NEW s \in SUBSET (1 .. n), s # {}
      PROVE  Largest(n)[s] = Max(s) /\ Max(s) \in s
  BY <1>5, <1>8 DEF Largest, Picks
<1>9. IsRegisterFold(calls, g)
  <2>1. ASSUME NEW s \in SUBSET (1 .. n) PROVE g[s] = RegisterStep(calls, g, s)
    <3>1. CASE s = {}
      BY <1>7, <3>1 DEF IsFoldOf, Folded, RegisterStep, none
    <3>2. CASE s # {}
      <4>. DEFINE x == Max(s)
      <4>1. Largest(n)[s] = x /\ x \in 1 .. n /\ s \ {x} \in SUBSET (1 .. n)
        BY <1>8, <3>2
      <4>2. g[s \ {x}] \in V
        BY <1>7, <4>1 DEF IsFoldOf
      <4>3. g[s] = step[x][g[s \ {x}]]
        BY <1>7, <3>2, <4>1 DEF IsFoldOf, Folded
      <4>. HIDE DEF x
      <4>4. g[s] = RecordMeasurement(g[s \ {x}], calls[x], x)
        BY <1>6, <4>1, <4>2, <4>3
      <4>. QED BY <1>4, <3>2, <4>1, <4>4 DEF RegisterStep, x
    <3>. QED BY <3>1, <3>2
  <2>2. g = [s \in SUBSET (1 .. n) |-> g[s]]
    BY <1>7 DEF IsFoldOf
  <2>. QED BY <1>4, <2>1, <2>2 DEF IsRegisterFold
<1>10. PICK f : f = CHOOSE i : IsRegisterFold(calls, i)
  OBVIOUS
<1>11. IsRegisterFold(calls, f)
  BY <1>9, <1>10
<1>12. Obeys(f, 1 .. n, V, Largest(n), none, step)
  <2>1. SUFFICES ASSUME NEW s \in SUBSET (1 .. n)
                 PROVE  IF s = {} THEN f[s] = none
                        ELSE f[s \ {Largest(n)[s]}] \in V =>
                             f[s] = step[Largest(n)[s]][f[s \ {Largest(n)[s]}]]
    BY DEF Obeys
  <2>2. f[s] = RegisterStep(calls, f, s)
    BY <1>4, <1>11 DEF IsRegisterFold
  <2>3. CASE s = {}
    BY <2>2, <2>3 DEF RegisterStep, none
  <2>4. CASE s # {}
    <3>. DEFINE x == Max(s)
    <3>1. Largest(n)[s] = x /\ x \in 1 .. n
      BY <1>8, <2>4
    <3>2. f[s] = RecordMeasurement(f[s \ {x}], calls[x], x)
      BY <1>4, <2>2, <2>4, <3>1 DEF RegisterStep
    <3>. HIDE DEF x
    <3>. QED BY <1>6, <2>4, <3>1, <3>2
  <2>. QED BY <2>3, <2>4
<1>13. PICK h : IsHistory(h, n, V, none, step) /\ f[1 .. n] = h[n]
  <2>1. AreSteps(step, n, V)
    BY <1>3 DEF AreSteps
  <2>. QED BY <1>1, <1>2, <1>12, <2>1, FoldIsHistory
<1>14. ASSUME NEW k \in 1 .. n
       PROVE  h[k] = RecordMeasurement(h[k - 1], calls[k], k)
  <2>1. k - 1 \in 0 .. n
    BY <1>1
  <2>2. h[k - 1] \in V /\ h[k] = step[k][h[k - 1]]
    BY <1>13, <2>1 DEF IsHistory
  <2>. QED BY <1>6, <2>2
<1>15. Register(calls) = f[1 .. n]
  BY <1>4, <1>10, RegisterIs
<1>. QED BY <1>13, <1>14, <1>15 DEF IsHistory, IsRegister, n, V, none

(* The register after the first m calls is the m-th of the history. *)
LEMMA RegisterOfPrefix ==
  ASSUME NEW S, NEW calls \in Seq(S), NEW h, IsRegister(h, calls),
         NEW m \in 0 .. Len(calls)
  PROVE  Register(SubSeq(calls, 1, m)) = h[m]
<1>. DEFINE first == SubSeq(calls, 1, m)
<1>1. Len(calls) \in Nat /\ DOMAIN calls = 1 .. Len(calls)
  BY LenProperties
<1>2. first \in Seq(S) /\ Len(first) = m /\ \A k \in 1 .. m : first[k] = calls[k]
  <2>1. first \in Seq(S)
    BY <1>1, SubSeqProperties
  <2>2. Len(first) = m
    BY <1>1, SubSeqProperties
  <2>3. \A k \in 1 .. m : first[k] = calls[k]
    BY <1>1, SubSeqProperties
  <2>. QED BY <2>1, <2>2, <2>3
<1>. HIDE DEF first
<1>3. PICK g : IsRegister(g, first) /\ Register(first) = g[Len(first)]
  BY <1>2, RegisterHasHistory
<1>. DEFINE Bad == {k \in 0 .. m : g[k] # h[k]}
<1>4. Bad = {}
  <2>1. SUFFICES ASSUME Bad # {} PROVE FALSE
    OBVIOUS
  <2>2. Bad \subseteq Nat
    BY <1>1
  <2>3. PICK k \in Bad : \A j \in Bad : k <= j
    BY <2>1, <2>2, LeastExists
  <2>4. k # 0
    BY <1>3, <2>3 DEF IsRegister
  <2>5. k \in 1 .. m /\ k \in 1 .. Len(calls) /\ k - 1 \in 0 .. m /\ ~(k <= k - 1)
    BY <1>1, <2>3, <2>4
  <2>6. g[k - 1] = h[k - 1]
    BY <2>3, <2>5
  <2>7. g[k] = RecordMeasurement(g[k - 1], first[k], k)
    BY <1>2, <1>3, <2>5 DEF IsRegister
  <2>8. h[k] = RecordMeasurement(h[k - 1], calls[k], k)
    BY <2>5 DEF IsRegister
  <2>. QED BY <1>2, <2>3, <2>5, <2>6, <2>7, <2>8
<1>5. m \in 0 .. m
  BY <1>1
<1>. QED BY <1>2, <1>3, <1>4, <1>5 DEF first

(* The calls of a key taken among the first m. *)
TakenOf(calls, h, key, m) ==
    {n \in 1 .. m : calls[n].key = key /\ ~IsRefused(h[n - 1], calls[n])}

Agrees(calls, entry, n) ==
    calls[n].content = entry.content /\ calls[n].status = entry.status

(* What an entry says of the calls of its key that were taken. *)
EntryIsHistory(calls, taken, entry) ==
    /\ entry.lastVerified \in taken /\ \A n \in taken : n <= entry.lastVerified
    /\ entry.firstSeen \in taken
    /\ \A n \in taken : n >= entry.firstSeen => Agrees(calls, entry, n)
    /\ \A n \in taken : n < entry.firstSeen =>
           \/ ~Agrees(calls, entry, n)
           \/ \E k \in taken : n < k /\ k < entry.firstSeen
    /\ entry.status = "pending" =>
           \/ \A n \in taken : calls[n].status = "pending"
           \/ \E n \in taken : calls[n].force

HistoryUpTo(calls, h, m) ==
    /\ \A key \in DOMAIN h[m] : EntryIsHistory(calls, TakenOf(calls, h, key, m), h[m][key])
    /\ \A key : TakenOf(calls, h, key, m) # {} => key \in DOMAIN h[m]

(* One more call keeps the register what its calls so far have said: a      *)
(* refused one changes nothing, one that repeats the figure confirms it, and*)
(* any other begins it anew.                                                *)
LEMMA HistoryOneMore ==
  ASSUME NEW S, NEW calls \in Seq(S), NEW h, IsRegister(h, calls),
         \A n \in DOMAIN calls : calls[n].status \in {"measured", "pending"},
         NEW m \in 1 .. Len(calls), HistoryUpTo(calls, h, m - 1)
  PROVE  HistoryUpTo(calls, h, m)
<1>. DEFINE old == h[m - 1]
            new == h[m]
            call == calls[m]
            Was(key) == TakenOf(calls, h, key, m - 1)
            Now(key) == TakenOf(calls, h, key, m)
<1>1. Len(calls) \in Nat /\ DOMAIN calls = 1 .. Len(calls) /\ m \in Nat /\ m - 1 \in Nat
  BY LenProperties
<1>2. /\ \A key \in DOMAIN old : EntryIsHistory(calls, Was(key), old[key])
      /\ \A key : Was(key) # {} => key \in DOMAIN old
  BY DEF HistoryUpTo
<1>3. new = RecordMeasurement(old, call, m)
  BY DEF IsRegister
<1>4. ASSUME NEW key
      PROVE  Now(key) = IF key = call.key /\ ~IsRefused(old, call)
                        THEN Was(key) \cup {m} ELSE Was(key)
  BY <1>1 DEF TakenOf
<1>5. \A key : Was(key) \subseteq 1 .. m - 1
  BY DEF TakenOf
<1>6. SUFFICES /\ \A key \in DOMAIN new : EntryIsHistory(calls, Now(key), new[key])
               /\ \A key : Now(key) # {} => key \in DOMAIN new
  BY DEF HistoryUpTo
<1>7. \A n \in 1 .. m : calls[n].status \in {"measured", "pending"}
  BY <1>1
<1>. HIDE DEF old, new, call, Was, Now
<1>8. CASE IsRefused(old, call)
  BY <1>2, <1>3, <1>4, <1>8 DEF RecordMeasurement
<1>9. CASE ~IsRefused(old, call)
  <2>1. /\ DOMAIN new = DOMAIN old \cup {call.key}
        /\ new[call.key] = Entry(old, call, m)
        /\ \A key \in DOMAIN new \ {call.key} : key \in DOMAIN old /\ new[key] = old[key]
    BY <1>3, <1>9 DEF RecordMeasurement
  <2>2. \A key : Now(key) # {} => key \in DOMAIN new
    BY <1>2, <1>4, <2>1
  <2>3. ASSUME NEW key \in DOMAIN new, key # call.key
        PROVE  EntryIsHistory(calls, Now(key), new[key])
    BY <1>2, <1>4, <2>1, <2>3
  <2>4. EntryIsHistory(calls, Now(call.key), new[call.key])
    <3>. DEFINE was == Was(call.key)
                now == Now(call.key)
                entry == new[call.key]
                prior == old[call.key]
    <3>1. now = was \cup {m} /\ was \subseteq 1 .. m - 1
      BY <1>4, <1>5, <1>9
    <3>2. call.key \in DOMAIN old => EntryIsHistory(calls, was, prior)
      BY <1>2
    <3>3. call.key \notin DOMAIN old => was = {}
      BY <1>2
    <3>4. entry = Entry(old, call, m)
      BY <2>1
    <3>5. \A n \in now : n \in Nat /\ calls[n].status \in {"measured", "pending"}
      BY <1>1, <1>7, <3>1
    <3>8. \A n \in was : n \in Nat /\ n < m
      BY <1>1, <3>1
    <3>. HIDE DEF was, now, entry
    <3>6. CASE IsUnchanged(old, call)
      <4>1. /\ call.key \in DOMAIN old
            /\ prior.content = call.content /\ prior.status = call.status
        BY <3>6 DEF IsUnchanged
      <4>2. /\ entry.content = prior.content /\ entry.status = prior.status
            /\ entry.firstSeen = prior.firstSeen /\ entry.lastVerified = m
        <5>1. prior \in EntriesOf(calls)
          <6>1. m - 1 \in 0 .. Len(calls)
            BY <1>1
          <6>2. old \in RegistersOf(calls)
            BY <6>1 DEF IsRegister, old
          <6>. QED BY <4>1, <6>2 DEF RegistersOf
        <5>. QED BY <3>4, <3>6, <5>1 DEF Entry, EntriesOf
      <4>3. EntryIsHistory(calls, was, prior)
        BY <3>2, <4>1
      <4>4. Agrees(calls, entry, m)
        BY <4>1, <4>2 DEF Agrees, call
      <4>5. \A n : Agrees(calls, entry, n) <=> Agrees(calls, prior, n)
        BY <4>2 DEF Agrees
      <4>6. entry.lastVerified \in now /\ \A n \in now : n <= entry.lastVerified
        BY <1>1, <3>1, <4>2
      <4>7. entry.firstSeen \in was /\ entry.firstSeen \in now
        BY <3>1, <4>2, <4>3 DEF EntryIsHistory
      <4>8. \A n \in now : n >= entry.firstSeen => Agrees(calls, entry, n)
        BY <3>1, <4>2, <4>3, <4>4, <4>5 DEF EntryIsHistory
      <4>9. ASSUME NEW n \in now, n < entry.firstSeen
            PROVE  \/ ~Agrees(calls, entry, n)
                   \/ \E k \in now : n < k /\ k < entry.firstSeen
        <5>1. entry.firstSeen \in Nat /\ entry.firstSeen < m
          BY <3>8, <4>7
        <5>2. n # m
          BY <1>1, <4>9, <5>1
        <5>3. n \in was
          BY <3>1, <5>2
        <5>. QED BY <3>1, <4>2, <4>3, <4>5, <4>9, <5>3 DEF EntryIsHistory
      <4>10. ASSUME entry.status = "pending"
             PROVE  \/ \A n \in now : calls[n].status = "pending"
                    \/ \E n \in now : calls[n].force
        <5>1. calls[m].status = "pending"
          BY <4>1, <4>2, <4>10 DEF call
        <5>. QED BY <3>1, <4>2, <4>3, <4>10, <5>1 DEF EntryIsHistory
      <4>11. EntryIsHistory(calls, now, entry)
        BY <4>6, <4>7, <4>8, <4>9, <4>10 DEF EntryIsHistory
      <4>. QED BY <4>11 DEF now, entry
    <3>7. CASE ~IsUnchanged(old, call)
      <4>1. /\ entry.content = call.content /\ entry.status = call.status
            /\ entry.firstSeen = m /\ entry.lastVerified = m
        BY <3>4, <3>7 DEF Entry
      <4>2. Agrees(calls, entry, m)
        BY <4>1 DEF Agrees, call
      <4>3. m \in now /\ \A n \in now : n <= m
        BY <1>1, <3>1
      <4>4. \A n \in now : n >= m => n = m
        BY <1>1, <3>1
      <4>5. ASSUME NEW n \in now, n < m
            PROVE  ~Agrees(calls, entry, n) \/ \E k \in now : n < k /\ k < m
        <5>1. n \in was
          BY <1>1, <3>1, <4>5
        <5>2. EntryIsHistory(calls, was, prior) /\ call.key \in DOMAIN old
          BY <3>2, <3>3, <5>1
        <5>. DEFINE l == prior.lastVerified
        <5>3. l \in was /\ n <= l
          BY <5>1, <5>2 DEF EntryIsHistory
        <5>4. l \in now /\ l < m /\ l \in Nat
          BY <3>1, <3>8, <5>3
        <5>5. CASE n < l
          BY <5>4, <5>5
        <5>6. CASE n = l
          <6>1. prior.firstSeen \in was /\ prior.firstSeen <= l
            BY <5>2 DEF EntryIsHistory
          <6>2. prior.firstSeen \in Nat
            BY <3>8, <6>1
          <6>3. l >= prior.firstSeen
            BY <5>4, <6>1, <6>2
          <6>4. Agrees(calls, prior, l)
            BY <5>2, <5>3, <6>3 DEF EntryIsHistory
          <6>5. ~(prior.content = call.content /\ prior.status = call.status)
            BY <3>7, <5>2 DEF IsUnchanged
          <6>6. ~Agrees(calls, entry, l)
            BY <4>1, <6>4, <6>5 DEF Agrees
          <6>. QED BY <5>6, <6>6
        <5>7. n < l \/ n = l
          BY <1>1, <3>1, <5>1, <5>3, <5>4
        <5>. QED BY <5>5, <5>6, <5>7
      <4>6. ASSUME entry.status = "pending"
            PROVE  \/ \A n \in now : calls[n].status = "pending"
                   \/ \E n \in now : calls[n].force
        <5>1. call.status = "pending" /\ calls[m] = call
          BY <4>1, <4>6 DEF call
        <5>2. CASE call.key \notin DOMAIN old
          BY <3>1, <3>3, <5>1, <5>2
        <5>3. CASE call.key \in DOMAIN old
          <6>1. EntryIsHistory(calls, was, prior)
            BY <3>2, <5>3
          <6>2. CASE prior.status = "measured"
            <7>1. call.force
              BY <1>9, <5>1, <5>3, <6>2 DEF IsRefused
            <7>. QED BY <4>3, <5>1, <7>1
          <6>3. CASE prior.status # "measured"
            <7>1. prior.lastVerified \in was /\ Agrees(calls, prior, prior.lastVerified)
              BY <3>1, <6>1 DEF EntryIsHistory
            <7>2. prior.status = "pending"
              BY <3>1, <3>5, <6>3, <7>1 DEF Agrees
            <7>. QED BY <3>1, <5>1, <6>1, <7>2 DEF EntryIsHistory
          <6>. QED BY <6>2, <6>3
        <5>. QED BY <5>2, <5>3
      <4>7. EntryIsHistory(calls, now, entry)
        BY <4>1, <4>2, <4>3, <4>4, <4>5, <4>6 DEF EntryIsHistory
      <4>. QED BY <4>7 DEF now, entry
    <3>. QED BY <3>6, <3>7
  <2>. QED BY <2>2, <2>3, <2>4
<1>. QED BY <1>8, <1>9

(* So it is after all of them. *)
LEMMA HistoryAlways ==
  ASSUME NEW S, NEW calls \in Seq(S), NEW h, IsRegister(h, calls),
         \A n \in DOMAIN calls : calls[n].status \in {"measured", "pending"}
  PROVE  HistoryUpTo(calls, h, Len(calls))
<1>. DEFINE Bad == {m \in 0 .. Len(calls) : ~HistoryUpTo(calls, h, m)}
<1>1. Len(calls) \in Nat
  BY LenProperties
<1>2. HistoryUpTo(calls, h, 0)
  <2>1. DOMAIN h[0] = {}
    BY DEF IsRegister
  <2>2. \A key : TakenOf(calls, h, key, 0) = {}
    BY DEF TakenOf
  <2>. QED BY <2>1, <2>2 DEF HistoryUpTo
<1>3. Bad = {}
  <2>1. SUFFICES ASSUME Bad # {} PROVE FALSE
    OBVIOUS
  <2>2. Bad \subseteq Nat
    BY <1>1
  <2>3. PICK m \in Bad : \A k \in Bad : m <= k
    BY <2>1, <2>2, LeastExists
  <2>4. m \in 1 .. Len(calls) /\ m - 1 \in 0 .. Len(calls) /\ ~(m <= m - 1)
    BY <1>1, <1>2, <2>3
  <2>5. HistoryUpTo(calls, h, m - 1)
    BY <2>3, <2>4
  <2>6. HistoryUpTo(calls, h, m)
    BY <2>4, <2>5, HistoryOneMore
  <2>. QED BY <2>3, <2>6
<1>4. Len(calls) \in 0 .. Len(calls)
  BY <1>1
<1>. QED BY <1>3, <1>4

(* The register says of each figure what its last call said, since when    *)
(* without a break and when it was last confirmed; and a figure once       *)
(* measured is pending again only by force: measured.py.                   *)
THEOREM RegisterCorrect == Spec => []RegisterIsHistory
<1>1. /\ task \in DOMAIN InputsOf /\ input \in InputsOf[task]
      /\ Results
      => RegisterIsHistory
  <2>1. SUFFICES ASSUME Is("record"), input \in InputsOf[task], Results
                 PROVE  RegisterIsHistory
    BY DEF RegisterIsHistory
  <2>2. input \in CallSeqs
    BY <2>1 DEF Is, InputsOf
  <2>3. output = Register(input)
    BY <2>1 DEF Results, Registered
  <2>4. /\ input \in Seq(Range(input))
        /\ \A n \in DOMAIN input : input[n].status \in {"measured", "pending"}
    BY <2>2, InputsAssumption DEF InputsAssumption
  <2>5. Len(input) \in Nat /\ DOMAIN input = 1 .. Len(input)
    BY <2>4, LenProperties
  <2>6. PICK h : IsRegister(h, input) /\ Register(input) = h[Len(input)]
    BY <2>4, RegisterHasHistory
  <2>7. HistoryUpTo(input, h, Len(input))
    BY <2>4, <2>6, HistoryAlways
  <2>8. \A key : Taken(key) = TakenOf(input, h, key, Len(input))
    <3>1. \A n \in DOMAIN input : Register(SubSeq(input, 1, n - 1)) = h[n - 1]
      BY <2>4, <2>5, <2>6, RegisterOfPrefix
    <3>. QED BY <2>5, <3>1 DEF Taken, TakenOf
  <2>9. /\ \A key \in DOMAIN output : EntryIsHistory(input, Taken(key), output[key])
        /\ \A key : Taken(key) # {} => key \in DOMAIN output
    BY <2>3, <2>6, <2>7, <2>8 DEF HistoryUpTo
  <2>10. \A key : Taken(key) \subseteq 1 .. Len(input)
    BY <2>5 DEF Taken
  <2>11. DOMAIN output = {key \in {input[n].key : n \in DOMAIN input} : Taken(key) # {}}
    <3>1. ASSUME NEW key \in DOMAIN output
          PROVE  key \in {input[n].key : n \in DOMAIN input} /\ Taken(key) # {}
      <4>1. PICK n \in Taken(key) : TRUE
        BY <2>9 DEF EntryIsHistory
      <4>. QED BY <4>1 DEF Taken
    <3>. QED BY <2>9, <3>1
  <2>12. ASSUME NEW key \in DOMAIN output
         PROVE LET last  == Max(Taken(key))
                   since == output[key].firstSeen
                   Same(n) == /\ input[n].content = output[key].content
                              /\ input[n].status = output[key].status
                   before == {n \in Taken(key) : n < since}
               IN  /\ Same(last) /\ output[key].lastVerified = last
                   /\ since \in Taken(key)
                   /\ \A n \in Taken(key) : n >= since => Same(n)
                   /\ before # {} => ~Same(Max(before))
                   /\ output[key].status = "pending" =>
                          \/ \A n \in Taken(key) : input[n].status = "pending"
                          \/ \E n \in Taken(key) : input[n].force
    <3>. DEFINE taken == Taken(key)
                entry == output[key]
                before == {n \in taken : n < entry.firstSeen}
    <3>1. EntryIsHistory(input, taken, entry)
      BY <2>9
    <3>2. taken \subseteq Nat /\ IsFiniteSet(taken)
      <4>1. IsFiniteSet(1 .. Len(input))
        BY <2>5, FS_Interval
      <4>. QED BY <2>5, <2>10, <4>1, FS_Subset
    <3>. HIDE DEF taken, entry
    <3>3. entry.lastVerified \in taken /\ entry.firstSeen \in taken
      BY <3>1 DEF EntryIsHistory
    <3>4. Max(taken) \in taken /\ \A n \in taken : n <= Max(taken)
      <4>1. taken # {} /\ taken \subseteq Int
        BY <3>2, <3>3
      <4>. QED BY <3>2, <4>1, MaxOf
    <3>5. entry.lastVerified = Max(taken)
      <4>1. entry.lastVerified <= Max(taken)
        BY <3>3, <3>4
      <4>2. Max(taken) <= entry.lastVerified
        BY <3>1, <3>4 DEF EntryIsHistory
      <4>3. entry.lastVerified \in Nat /\ Max(taken) \in Nat
        BY <3>2, <3>3, <3>4
      <4>. QED BY <4>1, <4>2, <4>3
    <3>6. Agrees(input, entry, Max(taken))
      <4>1. Max(taken) >= entry.firstSeen
        BY <3>2, <3>3, <3>4
      <4>. QED BY <3>1, <3>4, <4>1 DEF EntryIsHistory
    <3>7. ASSUME before # {} PROVE ~Agrees(input, entry, Max(before))
      <4>1. IsFiniteSet(before) /\ before \subseteq Int
        <5>1. before \subseteq taken
          OBVIOUS
        <5>2. IsFiniteSet(before)
          BY <3>2, <5>1, FS_Subset
        <5>3. ASSUME NEW n \in before PROVE n \in Int
          <6>1. n \in taken
            OBVIOUS
          <6>2. n \in Nat
            BY <3>2, <6>1
          <6>. QED BY <6>2
        <5>. HIDE DEF before
        <5>4. before \subseteq Int
          BY <5>3
        <5>. QED BY <5>2, <5>4
      <4>2. Max(before) \in before /\ \A n \in before : n <= Max(before)
        BY <3>7, <4>1, MaxOf
      <4>. DEFINE b == Max(before)
      <4>. HIDE DEF b
      <4>3. b \in taken /\ b < entry.firstSeen
        BY <4>2 DEF b
      <4>4. ASSUME NEW k \in taken, b < k, k < entry.firstSeen PROVE FALSE
        <5>1. k \in before
          BY <4>4
        <5>2. k <= b
          BY <4>2, <5>1 DEF b
        <5>. QED BY <3>2, <4>3, <4>4, <5>2
      <4>5. ~Agrees(input, entry, b)
        BY <3>1, <4>3, <4>4 DEF EntryIsHistory
      <4>. QED BY <4>5 DEF b
    <3>. QED BY <3>1, <3>3, <3>5, <3>6, <3>7 DEF EntryIsHistory, Agrees, taken, entry
  <2>. QED BY <2>1, <2>11, <2>12 DEF RegisterIsHistory
<1>. QED BY <1>1, TaskOf, ResultsAlways, PTL

-----------------------------------------------------------------------------
(* The tuning of the receiver.                                             *)

LEMMA TuningParameters ==
  /\ Spacing \in Nat \ {0} /\ ChannelCount \in Nat \ {0} /\ ChannelTolerance \in Nat
  /\ 2 * ChannelTolerance < Spacing
BY AnalysesAssumption DEF AnalysesAssumption

(* Frequencies a whole number of spacings from channel 1 are on the        *)
(* channels, and on no other when they are beyond the first and the last.  *)
LEMMA OnTheGrid ==
  ASSUME NEW k \in Int
  PROVE  ChannelAt(k * Spacing) = IF k \in 0 .. ChannelCount - 1 THEN k + 1 ELSE 0
<1>. DEFINE near == {c \in Channels :
                        Apart(k * Spacing, ChannelFrequency(c)) <= ChannelTolerance}
<1>1. Channels = 1 .. ChannelCount
  BY DEF Channels
<1>2. ASSUME NEW c \in 1 .. ChannelCount
      PROVE  Apart(k * Spacing, ChannelFrequency(c)) <= ChannelTolerance
                 <=> k = c - 1
  <2>. DEFINE j == c - 1
              here == k * Spacing
              there == j * Spacing
  <2>1. j \in Int /\ c \in Int
    BY TuningParameters
  <2>2. k < j => here + Spacing <= there
    BY <2>1, TuningParameters, StepsApart
  <2>3. j < k => there + Spacing <= here
    BY <2>1, TuningParameters, StepsApart
  <2>4. here \in Int /\ there \in Int
    BY <2>1, TuningParameters
  <2>5. ChannelFrequency(c) = there
    BY DEF ChannelFrequency
  <2>6. k = j => here = there
    OBVIOUS
  <2>. HIDE DEF here, there, j
  <2>7. Apart(here, there) <= ChannelTolerance <=> k = j
    BY <2>1, <2>2, <2>3, <2>4, <2>6, TuningParameters DEF Apart
  <2>. QED BY <2>5, <2>7 DEF here, j
<1>3. near = {c \in 1 .. ChannelCount : k = c - 1}
  BY <1>1, <1>2
<1>4. ChannelAt(k * Spacing) = IF near = {} THEN 0 ELSE Min(near)
  BY DEF ChannelAt, ChannelWithin
<1>. HIDE DEF near
<1>5. CASE k \in 0 .. ChannelCount - 1
  <2>1. near = {k + 1}
    BY <1>3, <1>5, TuningParameters
  <2>2. Min({k + 1}) = k + 1
    BY DEF Min
  <2>. QED BY <1>4, <1>5, <2>1, <2>2
<1>6. CASE k \notin 0 .. ChannelCount - 1
  <2>1. near = {}
    BY <1>3, <1>6, TuningParameters
  <2>. QED BY <1>4, <1>6, <2>1
<1>. QED BY <1>5, <1>6

(* Of the bins of a sampled channel, counted from the centre in steps.     *)
LEMMA BinsWrap ==
  ASSUME NEW n \in Nat \ {0}, NEW d \in Int, 2 * d < n, -2 * d <= n
  PROVE  LET b == d % n
         IN  b \in Int /\ (IF 2 * b < n THEN b ELSE b - n) = d
<1>1. CASE d >= 0
  <2>1. d \in 0 .. n - 1 /\ d = 0 * n + d
    BY <1>1
  <2>2. (0 * n + d) % n = d
    BY <2>1, ModIs
  <2>. QED BY <2>1, <2>2
<1>2. CASE d < 0
  <2>1. d + n \in 0 .. n - 1 /\ d = (-1) * n + (d + n)
    BY <1>2
  <2>2. ((-1) * n + (d + n)) % n = d + n
    BY <2>1, ModIs
  <2>. QED BY <1>2, <2>1, <2>2
<1>. QED BY <1>1, <1>2

(* What the geometry check accepts has each sampled channel on its bin, and *)
(* nothing else on a channel.                                               *)
LEMMA TuningIsRight ==
  ASSUME NEW x \in Tunings, Accepts(x)
  PROVE  LET Bin(c) == ChannelBinIndex(c, x.centre, x.rate, x.bins)
             Frequency(b) == BinFrequency(x.centre, x.rate, x.bins, b)
             sampled == {c \in Channels :
                            IsSampled(x, ChannelFrequency(c))}
         IN  /\ \A c \in sampled :
                    /\ Frequency(Bin(c)) = ChannelFrequency(c)
                    /\ ChannelAt(Frequency(Bin(c))) = c
                    /\ ChannelAt(ImageFrequency(Frequency(Bin(c)), x.centre)) = 0
             /\ \A c, d \in sampled : c # d => Bin(c) # Bin(d)
             /\ ChannelAt(x.centre) = 0
<1>. DEFINE Bin(c) == ChannelBinIndex(c, x.centre, x.rate, x.bins)
            Frequency(b) == BinFrequency(x.centre, x.rate, x.bins, b)
            sampled == {c \in Channels :
                            IsSampled(x, ChannelFrequency(c))}
            q == x.centre \div Spacing
            n == x.bins
<1>1. n \in Nat \ {0} /\ x.centre \in Int /\ x.rate \in Nat
  BY InputsAssumption DEF InputsAssumption
<1>2. q \in Int /\ x.centre = q * Spacing /\ q \notin 0 .. ChannelCount - 1
  <2>1. x.centre % Spacing = 0 /\ q \notin 0 .. ChannelCount - 1
    BY DEF Accepts
  <2>2. q \in Int /\ x.centre = q * Spacing + (x.centre % Spacing)
    BY <1>1, TuningParameters, DivMod
  <2>. HIDE DEF q
  <2>3. q * Spacing \in Int
    BY <2>2, TuningParameters
  <2>. QED BY <2>1, <2>2, <2>3
<1>3. x.rate = n * Spacing
  BY DEF Accepts
<1>. HIDE DEF q
<1>4. x.rate \div n = Spacing
  <2>1. x.rate = Spacing * n
    BY <1>1, <1>3, TuningParameters
  <2>. HIDE DEF n
  <2>2. (Spacing * n) \div n = Spacing
    BY <1>1, Multiple, TuningParameters
  <2>. QED BY <2>1, <2>2
<1>5. ASSUME NEW c \in sampled
      PROVE  /\ c \in 1 .. ChannelCount
             /\ Frequency(Bin(c)) = (c - 1) * Spacing
  <2>. DEFINE d == c - 1 - q
              S == Spacing
  <2>1. c \in 1 .. ChannelCount /\ c \in Int /\ d \in Int /\ S \in Nat \ {0}
    BY <1>2, TuningParameters DEF Channels
  <2>2. (c - 1) * S - x.centre = d * S
    BY <1>2, <2>1
  <2>3. /\ 2 * ((c - 1) * S - x.centre) < n * S
        /\ 2 * (x.centre - (c - 1) * S) <= n * S
    BY <1>3 DEF IsSampled, ChannelFrequency
  <2>4. x.centre - (c - 1) * S = (-d) * S
    BY <1>2, <2>1
  <2>5. (2 * d) * S < n * S /\ (-2 * d) * S <= n * S
    <3>1. d * S \in Int
      BY <2>1
    <3>. HIDE DEF d, S
    <3>2. (2 * d) * S = 2 * (d * S) /\ (-2 * d) * S = 2 * ((-d) * S)
      BY <2>1
    <3>. QED BY <2>2, <2>3, <2>4, <3>2
  <2>6. 2 * d < n /\ -2 * d <= n
    <3>1. 2 * d \in Int /\ -2 * d \in Int /\ n \in Int
      BY <1>1, <2>1
    <3>. HIDE DEF d, S, n
    <3>. QED BY <2>1, <2>5, <3>1, StepsOrdered
  <2>. HIDE DEF d
  <2>7. Bin(c) = d % n
    <3>1. (d * S) \div S = d /\ (d * S) % S = 0
      BY <2>1, Multiple
    <3>. QED BY <1>4, <2>2, <3>1 DEF ChannelBinIndex, ChannelFrequency
  <2>8. Frequency(Bin(c)) = x.centre + d * S
    BY <1>1, <1>4, <2>1, <2>6, <2>7, BinsWrap DEF BinFrequency
  <2>9. x.centre + d * S = (c - 1) * S
    <3>1. d * S \in Int /\ (c - 1) * S \in Int
      BY <2>1
    <3>. QED BY <1>1, <2>2, <3>1
  <2>. QED BY <2>1, <2>8, <2>9
<1>6. ASSUME NEW c \in sampled
      PROVE  /\ Frequency(Bin(c)) = ChannelFrequency(c)
             /\ ChannelAt(Frequency(Bin(c))) = c
             /\ ChannelAt(ImageFrequency(Frequency(Bin(c)), x.centre)) = 0
  <2>. DEFINE f == Frequency(Bin(c))
  <2>1. c \in 1 .. ChannelCount /\ f = (c - 1) * Spacing
    BY <1>5
  <2>. HIDE DEF f
  <2>2. c - 1 \in Int /\ c - 1 \in 0 .. ChannelCount - 1 /\ c = (c - 1) + 1
    BY <2>1, TuningParameters
  <2>3. ChannelAt(f) = c
    BY <2>1, <2>2, OnTheGrid
  <2>. DEFINE k == 2 * q - (c - 1)
  <2>4. k \in Int /\ k \notin 0 .. ChannelCount - 1
    BY <1>2, <2>2, TuningParameters
  <2>5. ImageFrequency(f, x.centre) = k * Spacing
    BY <1>2, <2>1, <2>2, TuningParameters DEF ImageFrequency
  <2>. HIDE DEF k
  <2>6. ChannelAt(ImageFrequency(f, x.centre)) = 0
    BY <2>4, <2>5, OnTheGrid
  <2>. QED BY <2>1, <2>3, <2>6 DEF f, ChannelFrequency
<1>7. ASSUME NEW c \in sampled, NEW d \in sampled, Bin(c) = Bin(d)
      PROVE  c = d
  <2>1. ChannelAt(Frequency(Bin(c))) = ChannelAt(Frequency(Bin(d)))
    BY <1>7
  <2>. QED BY <1>6, <2>1
<1>8. ChannelAt(x.centre) = 0
  BY <1>2, OnTheGrid
<1>. HIDE DEF Bin, Frequency, sampled
<1>9. /\ \A c \in sampled :
             /\ Frequency(Bin(c)) = ChannelFrequency(c)
             /\ ChannelAt(Frequency(Bin(c))) = c
             /\ ChannelAt(ImageFrequency(Frequency(Bin(c)), x.centre)) = 0
      /\ \A c, d \in sampled : c # d => Bin(c) # Bin(d)
      /\ ChannelAt(x.centre) = 0
  BY <1>6, <1>7, <1>8
<1>. QED BY <1>9 DEF Bin, Frequency, sampled

(* The result for a tuning. *)
LEMMA TuningCorrect ==
  ASSUME task \in DOMAIN InputsOf, input \in InputsOf[task], Results
  PROVE  TuningIsSound
<1>1. SUFFICES ASSUME Is("tune"), output PROVE ChannelsHaveTheirBins
  BY DEF TuningIsSound
<1>2. input \in Tunings
  BY <1>1 DEF Is, InputsOf
<1>3. Accepts(input)
  BY <1>1 DEF Results, Accepted
<1>. QED BY <1>2, <1>3, TuningIsRight DEF ChannelsHaveTheirBins

-----------------------------------------------------------------------------
(* Sums.                                                                   *)

Some(S) == [s \in SUBSET S |-> CHOOSE x \in s : TRUE]
Adds(f, S) == [x \in S |-> [v \in Int |-> f[x] + v]]

(* The library's sums pick any element. *)
LEMMA SomePicks ==
  ASSUME NEW S
  PROVE  Picks(Some(S), S)
BY DEF Picks, Some

SumStep(f, g, s) ==
    IF s = {} THEN 0
    ELSE f[CHOOSE x \in s : TRUE] + g[s \ {CHOOSE x \in s : TRUE}]

IsSumFold(f, S, g) == g = [s \in SUBSET S |-> SumStep(f, g, s)]

IntsOn(f, S) == \A x \in S : f[x] \in Int

(* A sum is the fold of its terms. *)
IsSum(f, S, g) == IsFoldOf(g, S, Int, Some(S), 0, Adds(f, S))

(* The steps of a sum add one term each. *)
LEMMA AddsTypes ==
  ASSUME NEW S, NEW f, IntsOn(f, S)
  PROVE  /\ Adds(f, S) \in [S -> [Int -> Int]]
         /\ \A x \in S, v \in Int : Adds(f, S)[x][v] = f[x] + v
BY DEF Adds, IntsOn

(* What the library chooses is the one fold that adds the terms. *)
LEMMA SumFoldIsSum ==
  ASSUME NEW S, IsFiniteSet(S), NEW f, IntsOn(f, S),
         NEW g, g = CHOOSE i : IsSumFold(f, S, i)
  PROVE  IsSum(f, S, g)
<1>1. Picks(Some(S), S)
  BY SomePicks
<1>2. /\ Adds(f, S) \in [S -> [Int -> Int]]
      /\ \A x \in S, v \in Int : Adds(f, S)[x][v] = f[x] + v
  BY AddsTypes
<1>3. PICK h : IsFoldOf(h, S, Int, Some(S), 0, Adds(f, S))
  <2>1. 0 \in Int
    OBVIOUS
  <2>. QED BY <1>1, <1>2, <2>1, FoldOfExists
<1>4. ASSUME NEW s \in SUBSET S, s # {}
      PROVE  /\ Some(S)[s] = CHOOSE x \in s : TRUE
             /\ Some(S)[s] \in S
             /\ s \ {Some(S)[s]} \in SUBSET S
  BY <1>1, <1>4 DEF Some, Picks
<1>5. IsSumFold(f, S, h)
  <2>1. ASSUME NEW s \in SUBSET S PROVE h[s] = SumStep(f, h, s)
    <3>1. CASE s = {}
      BY <1>3, <3>1 DEF IsFoldOf, Folded, SumStep
    <3>2. CASE s # {}
      <4>. DEFINE x == Some(S)[s]
      <4>1. x = (CHOOSE y \in s : TRUE) /\ x \in S /\ s \ {x} \in SUBSET S
        BY <1>4, <3>2
      <4>2. h[s \ {x}] \in Int
        BY <1>3, <4>1 DEF IsFoldOf
      <4>3. h[s] = Adds(f, S)[x][h[s \ {x}]]
        BY <1>3, <3>2 DEF IsFoldOf, Folded
      <4>. HIDE DEF x
      <4>4. h[s] = f[x] + h[s \ {x}]
        BY <1>2, <4>1, <4>2, <4>3
      <4>. QED BY <3>2, <4>1, <4>4 DEF SumStep
    <3>. QED BY <3>1, <3>2
  <2>2. h = [s \in SUBSET S |-> h[s]]
    BY <1>3 DEF IsFoldOf
  <2>. QED BY <2>1, <2>2 DEF IsSumFold
<1>6. IsSumFold(f, S, g)
  BY <1>5
<1>7. Obeys(g, S, Int, Some(S), 0, Adds(f, S))
  <2>1. SUFFICES ASSUME NEW s \in SUBSET S
                 PROVE  IF s = {} THEN g[s] = 0
                        ELSE g[s \ {Some(S)[s]}] \in Int =>
                             g[s] = Adds(f, S)[Some(S)[s]][g[s \ {Some(S)[s]}]]
    BY DEF Obeys
  <2>2. g[s] = SumStep(f, g, s)
    BY <1>6 DEF IsSumFold
  <2>3. CASE s = {}
    BY <2>2, <2>3 DEF SumStep
  <2>4. CASE s # {}
    <3>. DEFINE x == Some(S)[s]
    <3>1. x = (CHOOSE y \in s : TRUE) /\ x \in S
      BY <1>4, <2>4
    <3>2. g[s] = f[x] + g[s \ {x}]
      BY <2>2, <2>4, <3>1 DEF SumStep
    <3>. HIDE DEF x
    <3>3. g[s \ {x}] \in Int => g[s] = Adds(f, S)[x][g[s \ {x}]]
      BY <1>2, <3>1, <3>2
    <3>. QED BY <2>4, <3>3 DEF x
  <2>. QED BY <2>3, <2>4
<1>8. SameOn(g, h, S)
  BY <1>1, <1>3, <1>7, FoldOfIsOne
<1>9. DOMAIN g = SUBSET S
  BY <1>6 DEF IsSumFold
<1>10. g = h
  <2>1. g = [s \in SUBSET S |-> g[s]]
    BY <1>6 DEF IsSumFold
  <2>2. h = [s \in SUBSET S |-> h[s]]
    BY <1>3 DEF IsFoldOf
  <2>3. \A s \in SUBSET S : g[s] = h[s]
    BY <1>8 DEF SameOn
  <2>. QED BY <2>1, <2>2, <2>3
<1>. QED BY <1>3, <1>10 DEF IsSum

(* The sum of some terms, as the modules write it, is an integer. *)
LEMMA SumIs ==
  ASSUME NEW f, NEW S
  PROVE  SumFunctionOnSet(f, S) = (CHOOSE g : IsSumFold(f, S, g))[S]
BY DEF SumFunctionOnSet, FoldFunctionOnSet, MapThenFoldSet,
       IsSumFold, SumStep

(* The sum of finitely many integers is one. *)
LEMMA SumIsInt ==
  ASSUME NEW f, NEW S, IsFiniteSet(S), IntsOn(f, S)
  PROVE  SumFunctionOnSet(f, S) \in Int
<1>1. PICK g : g = CHOOSE i : IsSumFold(f, S, i)
  OBVIOUS
<1>2. IsSum(f, S, g)
  BY <1>1, SumFoldIsSum
<1>3. SumFunctionOnSet(f, S) = g[S]
  BY <1>1, SumIs
<1>4. S \in SUBSET S
  OBVIOUS
<1>. QED BY <1>2, <1>3, <1>4 DEF IsSum, IsFoldOf

-----------------------------------------------------------------------------
(* The levels of the receiver.                                             *)

LEMMA GainParameters ==
  /\ LnaStep \in Nat \ {0} /\ VgaStep \in Nat \ {0} /\ Pad \in Nat \ {0}
  /\ LnaMax \in Nat /\ VgaMax \in Nat
  /\ LnaMax % LnaStep = 0 /\ VgaMax % VgaStep = 0 /\ LnaStep <= VgaMax
BY AnalysesAssumption DEF AnalysesAssumption

(* The greater of two numbers. *)
LEMMA MaxOfTwo ==
  ASSUME NEW a \in Int, NEW b \in Int
  PROVE  Max({a, b}) = IF a >= b THEN a ELSE b
<1>1. CASE a >= b
  BY <1>1 DEF Max
<1>2. CASE ~(a >= b)
  BY <1>2 DEF Max
<1>. QED BY <1>1, <1>2

(* The lesser of two numbers. *)
LEMMA MinOfTwo ==
  ASSUME NEW a \in Int, NEW b \in Int
  PROVE  Min({a, b}) = IF a <= b THEN a ELSE b
<1>1. CASE a <= b
  BY <1>1 DEF Min
<1>2. CASE ~(a <= b)
  BY <1>2 DEF Min
<1>. QED BY <1>1, <1>2

(* Up to the next pad, and no further. *)
LEMMA PadsAreEnough ==
  ASSUME NEW x \in Nat
  PROVE  LET a == CeilToPad(x)
         IN  a \in Nat /\ x <= a /\ a <= x + Pad - 1
<1>. DEFINE y == x + Pad - 1
            q == y \div Pad
<1>1. y \in Nat /\ Pad \in Nat \ {0}
  BY GainParameters
<1>2. q \in Int /\ y % Pad \in 0 .. Pad - 1 /\ y = q * Pad + (y % Pad)
  BY <1>1, DivMod
<1>3. CeilToPad(x) = q * Pad
  BY DEF CeilToPad
<1>4. q * Pad \in Int
  BY <1>1, <1>2
<1>. DEFINE a == q * Pad
            r == y % Pad
<1>5. r \in Int /\ 0 <= r /\ r <= Pad - 1 /\ a = y - r /\ a \in Int
  BY <1>1, <1>2, <1>4
<1>. HIDE DEF a, r, q
<1>6. a \in Nat /\ x <= a /\ a <= y
  BY <1>1, <1>5
<1>. QED BY <1>3, <1>6 DEF a

(* Finitely many arguments have finitely many values. *)
LEMMA ValuesAreFinite ==
  ASSUME NEW S, IsFiniteSet(S), NEW f
  PROVE  IsFiniteSet({f[x] : x \in S})
<1>. DEFINE T == {f[x] : x \in S}
            g == [x \in S |-> f[x]]
<1>1. g \in Surjection(S, T)
  BY DEF Surjection
<1>. HIDE DEF T, g
<1>2. IsFiniteSet(T)
  BY <1>1, FS_Surjection, Zenon
<1>. QED BY <1>2 DEF T

IsChain(c) == c \in Seq([gain : Int, limit : Int])

(* A level is that of the source and what the stages before it add. *)
Added(chain, k) ==
    SumFunctionOnSet([j \in DOMAIN chain |-> chain[j].gain], 1 .. k - 1)

(* What stages before the k-th add does not depend on the level at the      *)
(* source.                                                                  *)
LEMMA LevelsAdd ==
  ASSUME NEW chain, IsChain(chain), NEW k \in DOMAIN chain
  PROVE  /\ Added(chain, k) \in Int
         /\ \A source : LevelAt(chain, source, k) = source + Added(chain, k)
<1>1. DOMAIN chain = 1 .. Len(chain) /\ Len(chain) \in Nat
  BY LenProperties DEF IsChain
<1>2. IsFiniteSet(1 .. k - 1)
  BY <1>1, FS_Interval
<1>3. IntsOn([j \in DOMAIN chain |-> chain[j].gain], 1 .. k - 1)
  <2>1. \A j \in DOMAIN chain : chain[j].gain \in Int
    <3>1. \A j \in DOMAIN chain : chain[j] \in [gain : Int, limit : Int]
      BY <1>1, ElementOfSeq DEF IsChain
    <3>. QED BY <3>1
  <2>2. 1 .. k - 1 \subseteq DOMAIN chain
    BY <1>1
  <2>. QED BY <2>1, <2>2 DEF IntsOn
<1>4. Added(chain, k) \in Int
  BY <1>2, <1>3, SumIsInt DEF Added
<1>. QED BY <1>4 DEF Added, LevelAt

(* The attenuation asked for leaves every stage its margin, and a pad less  *)
(* does not.                                                                *)
LEMMA AttenuationIsRight ==
  ASSUME NEW chain, IsChain(chain), NEW source \in Int, NEW margin \in Int
  PROVE  LET a == RequiredAttenuation(chain, source, margin)
         IN  /\ CheckInputSafety(chain, source - a + margin) = {}
             /\ a > 0 => CheckInputSafety(chain,
                             source - (a - Pad) + margin) # {}
<1>. DEFINE excess == {Excess(chain, source, margin, k) : k \in DOMAIN chain}
            all == {0} \cup excess
            worst == Max(all)
            a == RequiredAttenuation(chain, source, margin)
            Limit(k) == chain[k].limit
<1>1. DOMAIN chain = 1 .. Len(chain) /\ Len(chain) \in Nat
  BY LenProperties DEF IsChain
<1>2. ASSUME NEW k \in DOMAIN chain
      PROVE  /\ Added(chain, k) \in Int /\ Limit(k) \in Int
             /\ Excess(chain, source, margin, k)
                    = source + Added(chain, k) - (Limit(k) - margin)
             /\ \A s : LevelAt(chain, s, k) = s + Added(chain, k)
  <2>1. /\ Added(chain, k) \in Int
        /\ \A s : LevelAt(chain, s, k) = s + Added(chain, k)
    BY LevelsAdd
  <2>2. Limit(k) \in Int
    <3>1. chain[k] \in [gain : Int, limit : Int]
      BY <1>1, ElementOfSeq DEF IsChain
    <3>. QED BY <3>1
  <2>. QED BY <2>1, <2>2 DEF Excess
<1>3. IsFiniteSet(all) /\ all \subseteq Int /\ 0 \in all
  <2>1. IsFiniteSet(DOMAIN chain)
    BY <1>1, FS_Interval
  <2>2. IsFiniteSet(excess)
    <3>. DEFINE e == [k \in DOMAIN chain |-> Excess(chain, source, margin, k)]
    <3>1. IsFiniteSet({e[k] : k \in DOMAIN chain})
      BY <2>1, ValuesAreFinite
    <3>2. excess = {e[k] : k \in DOMAIN chain}
      OBVIOUS
    <3>. QED BY <3>1, <3>2
  <2>3. IsFiniteSet({0})
    BY FS_Singleton
  <2>4. IsFiniteSet(all)
    BY <2>2, <2>3, FS_Union
  <2>5. \A k \in DOMAIN chain : Excess(chain, source, margin, k) \in Int
    BY <1>2
  <2>. QED BY <2>4, <2>5
<1>4. worst \in all /\ 0 <= worst /\ \A e \in all : e <= worst
  BY <1>3, MaxOf
<1>5. a = CeilToPad(worst)
  BY DEF RequiredAttenuation, Max
<1>6. worst \in Nat
  BY <1>3, <1>4
<1>7. \A k \in DOMAIN chain : Excess(chain, source, margin, k) \in all
  OBVIOUS
<1>8. worst = 0 \/ \E k \in DOMAIN chain :
                       worst = Excess(chain, source, margin, k)
  BY <1>4
<1>. HIDE DEF worst, a, all, excess, Limit
<1>9. a \in Nat /\ worst <= a /\ a <= worst + Pad - 1
  BY <1>5, <1>6, PadsAreEnough
<1>10. Pad \in Nat \ {0}
  BY GainParameters
<1>11. \A s : CheckInputSafety(chain, s)
              = {k \in DOMAIN chain : s + Added(chain, k) > Limit(k)}
  BY <1>2 DEF CheckInputSafety, Limit
<1>12. ASSUME NEW k \in DOMAIN chain
       PROVE  ~(source - a + margin + Added(chain, k) > Limit(k))
  <2>1. source + Added(chain, k) - (Limit(k) - margin) <= worst
    BY <1>2, <1>4, <1>7
  <2>. QED BY <1>2, <1>6, <1>9, <2>1
<1>13. ASSUME a > 0
       PROVE  \E k \in DOMAIN chain :
                  source - (a - Pad) + margin + Added(chain, k) > Limit(k)
  <2>1. worst # 0
    <3>1. SUFFICES ASSUME worst = 0 PROVE FALSE
      OBVIOUS
    <3>2. (0 + Pad - 1) \div Pad = 0
      <4>1. 0 * Pad + (Pad - 1) = 0 + Pad - 1 /\ Pad - 1 \in 0 .. Pad - 1
        BY <1>10
      <4>2. (0 * Pad + (Pad - 1)) \div Pad = 0
        BY <1>10, <4>1, DivIs
      <4>. QED BY <4>1, <4>2
    <3>3. a = 0
      BY <1>5, <1>10, <3>1, <3>2 DEF CeilToPad
    <3>. QED BY <1>13, <3>3
  <2>2. PICK k \in DOMAIN chain : worst = Excess(chain, source, margin, k)
    BY <1>8, <2>1
  <2>3. worst = source + Added(chain, k) - (Limit(k) - margin)
    BY <1>2, <2>2
  <2>4. source - (a - Pad) + margin + Added(chain, k) > Limit(k)
    BY <1>2, <1>6, <1>9, <1>10, <2>3
  <2>. QED BY <2>4
<1>14. /\ CheckInputSafety(chain, source - a + margin) = {}
       /\ a > 0 => CheckInputSafety(chain, source - (a - Pad) + margin) # {}
  <2>1. CheckInputSafety(chain, source - a + margin)
            = {k \in DOMAIN chain : source - a + margin + Added(chain, k) > Limit(k)}
    BY <1>11
  <2>2. CheckInputSafety(chain, source - (a - Pad) + margin)
            = {k \in DOMAIN chain :
                  source - (a - Pad) + margin + Added(chain, k) > Limit(k)}
    BY <1>11
  <2>. QED BY <1>12, <1>13, <2>1, <2>2
<1>. QED BY <1>14 DEF a

(* The nearest multiple is within half a step. *)
LEMMA NearestIs ==
  ASSUME NEW x \in Int, NEW step \in Nat \ {0}
  PROVE  LET near == Rounded(x, step)
         IN  /\ near \in Int /\ near * step \in Int
             /\ 2 * (near * step - x) <= step /\ 2 * (x - near * step) <= step
<1>. DEFINE down == x \div step
            rest == x % step
            here == down * step
            near == Rounded(x, step)
<1>1. /\ down \in Int /\ rest \in 0 .. step - 1 /\ here \in Int
      /\ x = here + rest
  BY DivMod
<1>2. \/ near = down /\ 2 * rest <= step
      \/ near = down + 1 /\ 2 * rest >= step
  BY <1>1 DEF Rounded
<1>. HIDE DEF near
<1>3. (down + 1) * step = here + step /\ down * step = here
  BY <1>1
<1>. HIDE DEF here, rest, down
<1>4. CASE near = down /\ 2 * rest <= step
  <2>1. near * step = here
    BY <1>3, <1>4
  <2>. QED BY <1>1, <1>4, <2>1 DEF near
<1>5. CASE near = down + 1 /\ 2 * rest >= step
  <2>1. near * step = here + step
    BY <1>3, <1>5
  <2>. QED BY <1>1, <1>5, <2>1 DEF near
<1>. QED BY <1>2, <1>4, <1>5

(* Rounded to a step of the gain: a step, within half a step. *)
LEMMA SnapIsClose ==
  ASSUME NEW step \in Nat \ {0}, NEW most \in Nat, most % step = 0,
         NEW x \in 0 .. most
  PROVE  LET r == Snapped(x, step, most)
         IN  /\ r \in 0 .. most /\ r % step = 0
             /\ 2 * (r - x) <= step /\ 2 * (x - r) <= step
             /\ x % step = 0 => r = x
<1>. DEFINE down == x \div step
            rest == x % step
            up == IF 2 * rest > step \/ (2 * rest = step /\ down % 2 = 1)
                  THEN down + 1 ELSE down
            n == most \div step
<1>1. /\ down \in Int /\ rest \in 0 .. step - 1 /\ x = down * step + rest
      /\ n \in Int /\ most = n * step
  <2>1. most = n * step + (most % step) /\ n \in Int
    BY DivMod
  <2>2. n * step \in Int
    BY <2>1
  <2>. QED BY <2>1, <2>2, DivMod
<1>2. Snapped(x, step, most)
          = Max({0, Min({most, up * step})})
  BY DEF Snapped, Rounded
<1>. HIDE DEF n, rest
<1>. DEFINE here == down * step
            there == up * step
<1>3. here \in Int
  BY <1>1
<1>4. up \in {down, down + 1}
  OBVIOUS
<1>5. there \in Int /\ (up = down => there = here) /\ (up = down + 1 => there = here + step)
  <2>1. (down + 1) * step = down * step + step
    BY <1>1
  <2>. QED BY <1>1, <1>3, <1>4, <2>1
<1>6. /\ up = down => 2 * rest <= step
      /\ up = down + 1 => 2 * rest >= step
  BY <1>1
<1>7. 0 <= down
  <2>1. SUFFICES ASSUME down <= -1 PROVE FALSE
    BY <1>1
  <2>2. down * step <= (-1) * step
    <3>1. down < -1 \/ down = -1
      BY <1>1, <2>1
    <3>2. down < -1 => down * step + step <= (-1) * step
      BY <1>1, StepsApart
    <3>3. (-1) * step \in Int
      OBVIOUS
    <3>. QED BY <1>3, <3>1, <3>2, <3>3
  <2>3. (-1) * step = -step
    OBVIOUS
  <2>. HIDE DEF down
  <2>. QED BY <1>1, <1>3, <2>2, <2>3
<1>8. down <= n
  <2>1. SUFFICES ASSUME n < down PROVE FALSE
    BY <1>1
  <2>2. n * step + step <= down * step
    BY <1>1, <2>1, StepsApart
  <2>. HIDE DEF down
  <2>. QED BY <1>1, <1>3, <2>2
<1>9. up <= n
  <2>1. SUFFICES ASSUME up = down + 1, down = n PROVE FALSE
    BY <1>1, <1>4, <1>8
  <2>2. rest = 0
    <3>1. x = most + rest
      BY <1>1, <2>1
    <3>. QED BY <1>1, <3>1
  <2>. QED BY <1>6, <2>1, <2>2
<1>10. up \in Int /\ 0 <= up
  BY <1>1, <1>4, <1>7
<1>. HIDE DEF up, down
<1>11. 0 <= there /\ there <= most
  <2>1. 0 * step = 0 /\ 0 * step \in Int /\ n * step \in Int
    BY <1>1
  <2>2. 0 < up => 0 * step + step <= there
    BY <1>10, StepsApart
  <2>3. up < n => there + step <= n * step
    BY <1>1, <1>10, StepsApart
  <2>4. 0 <= there
    BY <1>5, <1>10, <2>1, <2>2
  <2>5. there <= most
    BY <1>1, <1>5, <1>9, <1>10, <2>1, <2>3
  <2>. QED BY <2>4, <2>5
<1>12. there % step = 0
  BY <1>10, Multiple
<1>. HIDE DEF there, here
<1>13. Snapped(x, step, most) = there
  <2>1. Min({most, there}) = there
    <3>1. most \in Int /\ there \in Int
      BY <1>5
    <3>2. Min({most, there}) = IF most <= there THEN most ELSE there
      BY <3>1, MinOfTwo
    <3>. QED BY <1>11, <3>1, <3>2
  <2>2. Max({0, there}) = there
    BY <1>5, <1>11, MaxOfTwo
  <2>. QED BY <1>2, <2>1, <2>2 DEF there
<1>14. x = here + rest
  BY <1>1 DEF here
<1>15. 2 * (there - x) <= step /\ 2 * (x - there) <= step
  BY <1>1, <1>3, <1>4, <1>5, <1>6, <1>14
<1>16. rest = 0 => there = x
  BY <1>1, <1>3, <1>4, <1>5, <1>6, <1>14
<1>. QED BY <1>5, <1>11, <1>12, <1>13, <1>15, <1>16 DEF rest

(* Planned gains are gains there are, use the budget up to half a step, and *)
(* the second amplifier only once the first is at its limit.                *)
LEMMA PlanIsRight ==
  ASSUME NEW external \in Int, NEW target \in Int
  PROVE  LET gains  == PlanGains(external, target)
             budget == Max({0, target - external})
         IN  /\ gains = QuantiseGains(gains.lna, gains.vga, gains.amp)
             /\ 2 * (gains.lna + gains.vga - budget) <= VgaStep
             /\ gains.lna + gains.vga < budget - VgaStep \div 2
                    => gains.lna = LnaMax /\ gains.vga = VgaMax
             /\ gains.lna < LnaMax => gains.lna + LnaStep > budget
<1>. DEFINE budget == Max({0, target - external})
            q == budget \div LnaStep
            whole == q * LnaStep
            lna == Min({LnaMax, whole})
            rest == Min({VgaMax, budget - lna})
            vga == Snapped(rest, VgaStep, VgaMax)
            gains == PlanGains(external, target)
<1>1. /\ budget \in Nat /\ budget = Max({0, target - external})
      /\ target - external \in Int
  <2>1. target - external \in Int
    OBVIOUS
  <2>2. /\ budget = IF 0 >= target - external THEN 0 ELSE target - external
        /\ Max({0, target - external}) = budget
    BY <2>1, MaxOfTwo
  <2>. HIDE DEF budget
  <2>. QED BY <2>1, <2>2
<1>. HIDE DEF budget
<1>2. /\ q \in Int /\ whole \in Int
      /\ whole <= budget /\ budget < whole + LnaStep /\ 0 <= whole
  <2>1. /\ q \in Int /\ budget % LnaStep \in 0 .. LnaStep - 1
        /\ budget = whole + (budget % LnaStep)
    <3>1. budget \in Int /\ LnaStep \in Nat \ {0}
      BY <1>1, GainParameters
    <3>. QED BY <3>1, DivMod
  <2>2. whole \in Int
    BY <2>1, GainParameters
  <2>. DEFINE r == budget % LnaStep
  <2>. HIDE DEF r, q
  <2>3. whole <= budget /\ budget < whole + LnaStep
    <3>. HIDE DEF whole
    <3>. QED BY <1>1, <2>1, <2>2, GainParameters DEF r
  <2>4. 0 <= whole
    <3>1. SUFFICES ASSUME q < 0 PROVE FALSE
      <4>1. 0 < q => 0 * LnaStep + LnaStep <= whole
        BY <2>1, GainParameters, StepsApart
      <4>2. 0 * LnaStep = 0
        BY GainParameters
      <4>. QED BY <2>1, <2>2, <4>1, <4>2, GainParameters
    <3>2. whole + LnaStep <= 0 * LnaStep
      BY <2>1, <3>1, GainParameters, StepsApart
    <3>3. 0 * LnaStep = 0
      BY GainParameters
    <3>. HIDE DEF whole
    <3>. QED BY <1>1, <2>2, <2>3, <3>2, <3>3, GainParameters
  <2>. QED BY <2>1, <2>2, <2>3, <2>4
<1>3. whole % LnaStep = 0
  BY <1>2, GainParameters, Multiple
<1>. HIDE DEF whole, q
<1>4. lna = IF LnaMax <= whole THEN LnaMax ELSE whole
  <2>1. LnaMax \in Int /\ whole \in Int
    BY <1>2, GainParameters
  <2>. QED BY <2>1, MinOfTwo
<1>. HIDE DEF lna
<1>5. lna \in 0 .. LnaMax /\ lna % LnaStep = 0 /\ lna <= budget
  BY <1>1, <1>2, <1>3, <1>4, GainParameters
<1>6. rest = IF VgaMax <= budget - lna THEN VgaMax ELSE budget - lna
  <2>1. VgaMax \in Int /\ budget - lna \in Int
    BY <1>1, <1>5, GainParameters
  <2>. QED BY <2>1, MinOfTwo
<1>. HIDE DEF rest
<1>7. rest \in 0 .. VgaMax
  BY <1>1, <1>5, <1>6, GainParameters
<1>8. Snapped(lna, LnaStep, LnaMax) = lna
  BY <1>5, GainParameters, SnapIsClose
<1>9. /\ vga \in 0 .. VgaMax /\ vga % VgaStep = 0
      /\ 2 * (vga - rest) <= VgaStep /\ 2 * (rest - vga) <= VgaStep
      /\ rest % VgaStep = 0 => vga = rest
  BY <1>7, GainParameters, SnapIsClose
<1>. HIDE DEF vga
<1>10. Snapped(vga, VgaStep, VgaMax) = vga
  BY <1>9, GainParameters, SnapIsClose
<1>11. gains = [lna |-> lna, vga |-> vga, amp |-> FALSE]
  BY <1>1, <1>8 DEF PlanGains, QuantiseGains, lna, whole, q, vga, rest
<1>. HIDE DEF gains
<1>12. gains.lna = lna /\ gains.vga = vga /\ gains.amp = FALSE
  BY <1>11
<1>13. gains = QuantiseGains(gains.lna, gains.vga, gains.amp)
  BY <1>8, <1>10, <1>11, <1>12 DEF QuantiseGains
<1>14. 2 * (lna + vga - budget) <= VgaStep
  BY <1>1, <1>5, <1>6, <1>7, <1>9, GainParameters
<1>15. lna < LnaMax => lna + LnaStep > budget
  BY <1>1, <1>2, <1>4, <1>5, GainParameters
<1>16. ASSUME lna + vga < budget - VgaStep \div 2
       PROVE  lna = LnaMax /\ vga = VgaMax
  <2>1. 2 * (VgaStep \div 2) <= VgaStep /\ VgaStep <= 2 * (VgaStep \div 2) + 1
        /\ VgaStep \div 2 \in Nat
    BY GainParameters
  <2>. DEFINE half == VgaStep \div 2
  <2>. HIDE DEF half
  <2>2. lna + vga < budget - half
    BY <1>16 DEF half
  <2>3. half \in Nat /\ VgaStep <= 2 * half + 1
    BY <2>1 DEF half
  <2>4. rest = VgaMax /\ VgaMax < budget - lna
    <3>1. SUFFICES ASSUME rest = budget - lna PROVE FALSE
      BY <1>1, <1>5, <1>6, GainParameters
    <3>2. 2 * (budget - lna - vga) <= VgaStep
      BY <1>9, <3>1
    <3>. QED BY <1>1, <1>5, <1>9, <2>2, <2>3, <3>2, GainParameters
  <2>5. vga = VgaMax
    BY <1>9, <2>4, GainParameters
  <2>6. lna = LnaMax
    BY <1>1, <1>5, <1>15, <2>4, GainParameters
  <2>. QED BY <2>5, <2>6
<1>. QED BY <1>12, <1>13, <1>14, <1>15, <1>16 DEF budget, gains

(* The result for a chain. *)
LEMMA LevelsCorrect ==
  ASSUME task \in DOMAIN InputsOf, input \in InputsOf[task], Results
  PROVE  LevelsAreRight
<1>1. SUFFICES ASSUME Is("gains") PROVE AttenuationIsEnough /\ PlanKeepsToBudget
  BY DEF LevelsAreRight
<1>2. input \in Chains
  BY <1>1 DEF Is, InputsOf
<1>3. output = Planned(input)
  BY <1>1 DEF Results
<1>4. /\ IsChain(input.chain) /\ input.source \in Int /\ input.margin \in Int
      /\ input.external \in Int /\ input.target \in Int
  BY <1>2, InputsAssumption DEF InputsAssumption, IsChain
<1>5. /\ output.attenuation = RequiredAttenuation(input.chain, input.source,
                                  input.margin)
      /\ output.gains = PlanGains(input.external, input.target)
  BY <1>3 DEF Planned
<1>6. AttenuationIsEnough
  BY <1>4, <1>5, AttenuationIsRight DEF AttenuationIsEnough
<1>7. PlanKeepsToBudget
  <2>. DEFINE external == input.external
              target == input.target
  <2>1. external \in Int /\ target \in Int
    BY <1>4
  <2>2. output.gains = PlanGains(external, target)
    BY <1>5
  <2>. HIDE DEF external, target
  <2>. DEFINE gains == PlanGains(external, target)
              budget == Max({0, target - external})
  <2>3. /\ gains = QuantiseGains(gains.lna, gains.vga, gains.amp)
        /\ 2 * (gains.lna + gains.vga - budget) <= VgaStep
        /\ gains.lna + gains.vga < budget - VgaStep \div 2
               => gains.lna = LnaMax /\ gains.vga = VgaMax
        /\ gains.lna < LnaMax => gains.lna + LnaStep > budget
    BY <2>1, PlanIsRight
  <2>4. output.gains = gains
    BY <2>2
  <2>. HIDE DEF gains
  <2>. QED BY <2>3, <2>4 DEF PlanKeepsToBudget, external, target
<1>. QED BY <1>6, <1>7

-----------------------------------------------------------------------------
(* The calibration.                                                        *)
Points == [dbfs : Int, dbm : Int]

(* The sum of a row of integers. *)
LEMMA SumFunctionIsInt ==
  ASSUME NEW n \in Nat, NEW f \in [1 .. n -> Int]
  PROVE  SumFunction(f) \in Int
<1>1. IsFiniteSet(1 .. n) /\ IntsOn(f, 1 .. n) /\ DOMAIN f = 1 .. n
  BY FS_Interval DEF IntsOn
<1>. QED BY <1>1, SumIsInt DEF SumFunction

(* The line through points has integers for slope, offset and their         *)
(* denominator.                                                             *)
LEMMA LineIsInts ==
  ASSUME NEW points \in Seq(Points)
  PROVE  LET line == Line(points)
         IN  line.slope \in Int /\ line.offset \in Int /\ line.den \in Int
<1>. DEFINE n  == Len(points)
            x  == SumFunction([k \in 1 .. n |-> points[k].dbfs])
            y  == SumFunction([k \in 1 .. n |-> points[k].dbm])
            xx == SumFunction([k \in 1 .. n |-> points[k].dbfs * points[k].dbfs])
            xy == SumFunction([k \in 1 .. n |-> points[k].dbfs * points[k].dbm])
            det == n * xx - x * x
            cross == n * xy - x * y
<1>1. n \in Nat
  BY LenProperties
<1>2. \A k \in 1 .. n : points[k].dbfs \in Int /\ points[k].dbm \in Int
  <2>1. \A k \in 1 .. n : points[k] \in Points
    BY ElementOfSeq
  <2>. QED BY <2>1 DEF Points
<1>3. /\ [k \in 1 .. n |-> points[k].dbfs] \in [1 .. n -> Int]
      /\ [k \in 1 .. n |-> points[k].dbm] \in [1 .. n -> Int]
      /\ [k \in 1 .. n |-> points[k].dbfs * points[k].dbfs] \in [1 .. n -> Int]
      /\ [k \in 1 .. n |-> points[k].dbfs * points[k].dbm] \in [1 .. n -> Int]
  BY <1>2
<1>4. x \in Int /\ y \in Int /\ xx \in Int /\ xy \in Int
  BY <1>1, <1>3, SumFunctionIsInt
<1>5. Line(points) =
          [slope |-> n * cross, offset |-> y * det - cross * x, den |-> n * det]
  BY DEF Line
<1>. HIDE DEF n, x, y, xx, xy
<1>6. det \in Int /\ cross \in Int
  BY <1>1, <1>4
<1>. HIDE DEF det, cross
<1>7. n * cross \in Int /\ y * det \in Int /\ cross * x \in Int /\ n * det \in Int
  BY <1>1, <1>4, <1>6
<1>. QED BY <1>5, <1>7

(* Of points that are there one is the furthest from the line. *)
LEMMA WorstExists ==
  ASSUME NEW points \in Seq(Points), points # <<>>
  PROVE  Worst(points, Line(points)) \in DOMAIN points
<1>. DEFINE line == Line(points)
            D == DOMAIN points
            r == [k \in D |-> Residual(line, points[k])]
            highest == {k \in D : \A j \in D : r[k] >= r[j]}
<1>1. D = 1 .. Len(points) /\ Len(points) \in Nat /\ Len(points) # 0
  BY LenProperties, EmptySeq
<1>2. line.slope \in Int /\ line.offset \in Int /\ line.den \in Int
  BY LineIsInts
<1>3. \A k \in D : points[k].dbfs \in Int /\ points[k].dbm \in Int
  <2>1. \A k \in D : points[k] \in Points
    BY <1>1, ElementOfSeq
  <2>. QED BY <2>1 DEF Points
<1>. HIDE DEF line
<1>4. r \in [D -> Int]
  <2>1. ASSUME NEW k \in D PROVE Residual(line, points[k]) \in Int
    <3>1. \A e \in Int : Magnitude(e) \in Int
      BY DEF Magnitude
    <3>2. points[k].dbm * line.den - (line.slope * points[k].dbfs + line.offset) \in Int
      <4>1. points[k].dbm * line.den \in Int /\ line.slope * points[k].dbfs \in Int
        BY <1>2, <1>3
      <4>. QED BY <1>2, <4>1
    <3>. QED BY <3>1, <3>2 DEF Residual, ToDbm
  <2>. QED BY <2>1
<1>5. IsFiniteSet(D) /\ D # {} /\ D \subseteq Nat
  <2>1. IsFiniteSet(1 .. Len(points))
    BY <1>1, FS_Interval
  <2>2. 1 \in 1 .. Len(points) /\ 1 .. Len(points) \subseteq Nat
    BY <1>1
  <2>. QED BY <1>1, <2>1, <2>2
<1>. HIDE DEF r, D
<1>6. highest # {} /\ highest \subseteq Nat
  <2>1. Highest(D, r)
    BY <1>4, <1>5, HighestExists
  <2>. QED BY <1>5, <2>1 DEF Highest
<1>7. PICK m \in highest : \A k \in highest : m <= k
  BY <1>6, LeastExists
<1>8. ASSUME NEW j \in D PROVE r[m] > r[j] \/ (r[m] = r[j] /\ m <= j)
  <2>1. m \in D /\ r[m] >= r[j] /\ r[m] \in Int /\ r[j] \in Int
    BY <1>4, <1>7
  <2>2. CASE r[m] = r[j]
    <3>1. j \in highest
      BY <1>7, <2>2
    <3>. QED BY <1>7, <2>2, <3>1
  <2>. QED BY <2>1, <2>2
<1>9. \A k \in D : r[k] = Residual(line, points[k])
  BY DEF r
<1>10. m \in D /\ \A j \in D :
           \/ Residual(line, points[m]) > Residual(line, points[j])
           \/ Residual(line, points[m]) = Residual(line, points[j]) /\ m <= j
  BY <1>7, <1>8, <1>9
<1>11. Worst(points, line) \in D
  BY <1>10 DEF Worst, D
<1>. QED BY <1>11 DEF line, D

(* One element less, and nothing else. *)
LEMMA RemovedIsLess ==
  ASSUME NEW S, NEW s \in Seq(S), NEW i \in DOMAIN s
  PROVE  LET t == RemoveAt(s, i)
         IN  /\ t \in Seq(S) /\ Len(t) = Len(s) - 1
             /\ \A k \in DOMAIN t : \E j \in DOMAIN s : t[k] = s[j]
<1>. DEFINE n == Len(s)
            a == SubSeq(s, 1, i - 1)
            b == SubSeq(s, i + 1, n)
<1>1. n \in Nat /\ DOMAIN s = 1 .. n /\ i \in 1 .. n
  BY LenProperties
<1>2. \A j \in 1 .. n : s[j] \in S
  BY ElementOfSeq
<1>3. /\ a \in Seq(S) /\ Len(a) = i - 1
      /\ \A k \in 1 .. i - 1 : a[k] = s[k]
  <2>1. 1 \in Int /\ i - 1 \in Int /\ \A j \in 1 .. i - 1 : s[j] \in S
    BY <1>1, <1>2
  <2>2. /\ a \in Seq(S) /\ Len(a) = IF 1 <= i - 1 THEN i - 1 - 1 + 1 ELSE 0
        /\ \A k \in 1 .. i - 1 - 1 + 1 : a[k] = s[1 + k - 1]
    BY <2>1, SubSeqProperties
  <2>. HIDE DEF a
  <2>. QED BY <1>1, <2>2
<1>4. /\ b \in Seq(S) /\ Len(b) = n - i
      /\ \A k \in 1 .. n - i : b[k] = s[i + k]
  <2>1. i + 1 \in Int /\ n \in Int /\ \A j \in i + 1 .. n : s[j] \in S
    BY <1>1, <1>2
  <2>2. /\ b \in Seq(S) /\ Len(b) = IF i + 1 <= n THEN n - (i + 1) + 1 ELSE 0
        /\ \A k \in 1 .. n - (i + 1) + 1 : b[k] = s[(i + 1) + k - 1]
    BY <2>1, SubSeqProperties
  <2>. HIDE DEF b, n
  <2>3. n - (i + 1) + 1 = n - i /\ Len(b) = n - i
    BY <1>1, <2>2
  <2>4. \A k \in 1 .. n - i : (i + 1) + k - 1 = i + k
    BY <1>1
  <2>. QED BY <2>2, <2>3, <2>4
<1>5. RemoveAt(s, i) = a \o b
  BY DEF RemoveAt
<1>. HIDE DEF a, b, n
<1>6. /\ a \o b \in Seq(S) /\ Len(a \o b) = n - 1
      /\ \A k \in 1 .. n - 1 : (a \o b)[k] = IF k <= i - 1 THEN a[k] ELSE b[k - (i - 1)]
  <2>1. /\ a \o b \in Seq(S) /\ Len(a \o b) = Len(a) + Len(b)
        /\ \A k \in 1 .. Len(a) + Len(b) :
               (a \o b)[k] = IF k <= Len(a) THEN a[k] ELSE b[k - Len(a)]
    BY <1>3, <1>4, ConcatProperties
  <2>2. Len(a) + Len(b) = n - 1
    BY <1>1, <1>3, <1>4
  <2>. QED BY <1>3, <2>1, <2>2
<1>7. DOMAIN (a \o b) = 1 .. n - 1
  BY <1>6, LenProperties
<1>8. ASSUME NEW k \in 1 .. n - 1
      PROVE  \E j \in DOMAIN s : (a \o b)[k] = s[j]
  <2>1. CASE k <= i - 1
    <3>1. k \in 1 .. i - 1 /\ k \in DOMAIN s
      BY <1>1, <2>1
    <3>. QED BY <1>3, <1>6, <2>1, <3>1
  <2>2. CASE ~(k <= i - 1)
    <3>1. k - (i - 1) \in 1 .. n - i /\ i + (k - (i - 1)) = k + 1 /\ k + 1 \in DOMAIN s
      BY <1>1, <2>2
    <3>2. (a \o b)[k] = b[k - (i - 1)]
      BY <1>6, <2>2
    <3>3. b[k - (i - 1)] = s[i + (k - (i - 1))]
      BY <1>4, <3>1
    <3>. QED BY <3>1, <3>2, <3>3
  <2>. QED BY <2>1, <2>2
<1>. QED BY <1>5, <1>6, <1>7, <1>8 DEF n

(* What is left of the points of a sweep, drop by drop. *)
Done(v, most) == IsLinear(v, Line(v), most) \/ Len(v) <= 3

PartsOf(points) ==
    {v \in Seq(Points) :
        Len(v) >= 3 /\ \A k \in DOMAIN v : \E j \in DOMAIN points : v[k] = points[j]}

(* A drop takes one of the points measured, unless they are on a line or    *)
(* only three.                                                              *)
LEMMA DropKeeps ==
  ASSUME NEW points, NEW most, NEW v \in PartsOf(points)
  PROVE  LET w == DropOne(v, most)
         IN  /\ w \in PartsOf(points)
             /\ Done(v, most) => w = v
             /\ ~Done(v, most) => Len(w) = Len(v) - 1
<1>. DEFINE w == DropOne(v, most)
            worst == Worst(v, Line(v))
<1>1. /\ v \in Seq(Points) /\ Len(v) \in Nat /\ Len(v) >= 3
      /\ \A k \in DOMAIN v : \E j \in DOMAIN points : v[k] = points[j]
  BY LenProperties DEF PartsOf
<1>2. w = IF Done(v, most) THEN v ELSE RemoveAt(v, worst)
  BY DEF DropOne, Done
<1>. HIDE DEF w
<1>3. CASE Done(v, most)
  BY <1>2, <1>3 DEF w
<1>4. CASE ~Done(v, most)
  <2>1. Len(v) > 3
    BY <1>1, <1>4 DEF Done
  <2>2. worst \in DOMAIN v
    <3>1. v # <<>>
      BY <1>1, EmptySeq
    <3>. QED BY <1>1, <3>1, WorstExists
  <2>. HIDE DEF worst
  <2>3. /\ w \in Seq(Points) /\ Len(w) = Len(v) - 1
        /\ \A k \in DOMAIN w : \E j \in DOMAIN v : w[k] = v[j]
    BY <1>1, <1>2, <1>4, <2>2, RemovedIsLess
  <2>4. \A k \in DOMAIN w : \E j \in DOMAIN points : w[k] = points[j]
    BY <1>1, <2>3
  <2>5. Len(w) >= 3
    BY <1>1, <2>1, <2>3
  <2>6. w \in PartsOf(points)
    BY <2>3, <2>4, <2>5 DEF PartsOf
  <2>. QED BY <1>4, <2>3, <2>6 DEF w
<1>. QED BY <1>3, <1>4 DEF w

RemainingStep(points, most, f, s) ==
    IF s = {} THEN points
    ELSE DropOne(f[s \ {Max(s)}], most)

IsRemainingFold(points, most, f) ==
    f = [s \in SUBSET DOMAIN points |-> RemainingStep(points, most, f, s)]

(* The points that remain as a recursion over the points there were. *)
LEMMA RemainingIs ==
  ASSUME NEW points, NEW most
  PROVE  Remaining(points, most) =
             (CHOOSE f : IsRemainingFold(points, most, f))[DOMAIN points]
BY DEF Remaining, FoldLeft, MapThenFoldSet,
       IsRemainingFold, RemainingStep

(* They are what is left after as many drops as there were points. *)
LEMMA RemainingHasHistory ==
  ASSUME NEW points \in Seq(Points), Len(points) >= 3, NEW most
  PROVE  \E h \in [0 .. Len(points) -> PartsOf(points)] :
             /\ h[0] = points
             /\ \A k \in 1 .. Len(points) : h[k] = DropOne(h[k - 1], most)
             /\ Remaining(points, most) = h[Len(points)]
<1>. DEFINE n == Len(points)
            V == PartsOf(points)
            step == [k \in 1 .. n |-> [v \in V |-> DropOne(v, most)]]
<1>1. n \in Nat /\ DOMAIN points = 1 .. n
  BY LenProperties
<1>2. points \in V
  BY DEF PartsOf
<1>3. AreSteps(step, n, V)
  <2>1. [v \in V |-> DropOne(v, most)] \in [V -> V]
    BY DropKeeps
  <2>. QED BY <2>1 DEF AreSteps
<1>4. \A k \in 1 .. n, v \in V : step[k][v] = DropOne(v, most)
  OBVIOUS
<1>. HIDE DEF step, V, n
<1>5. IsFiniteSet(1 .. n) /\ Picks(Largest(n), 1 .. n)
  BY <1>1, FS_Interval, LargestPicks
<1>6. PICK g : IsFoldOf(g, 1 .. n, V, Largest(n), points, step)
  BY <1>2, <1>3, <1>5, FoldOfExists DEF AreSteps
<1>7. ASSUME NEW s \in SUBSET (1 .. n), s # {}
      PROVE  /\ Largest(n)[s] = Max(s) /\ Max(s) \in 1 .. n
             /\ s \ {Max(s)} \in SUBSET (1 .. n)
  BY <1>5, <1>7 DEF Largest, Picks
<1>8. IsRemainingFold(points, most, g)
  <2>1. ASSUME NEW s \in SUBSET (1 .. n) PROVE g[s] = RemainingStep(points, most, g, s)
    <3>1. CASE s = {}
      BY <1>6, <3>1 DEF IsFoldOf, Folded, RemainingStep
    <3>2. CASE s # {}
      <4>. DEFINE x == Max(s)
      <4>1. Largest(n)[s] = x /\ x \in 1 .. n /\ s \ {x} \in SUBSET (1 .. n)
        BY <1>7, <3>2
      <4>2. g[s \ {x}] \in V /\ g[s] = step[x][g[s \ {x}]]
        BY <1>6, <3>2, <4>1 DEF IsFoldOf, Folded
      <4>. HIDE DEF x
      <4>. QED BY <1>4, <3>2, <4>1, <4>2 DEF RemainingStep, x
    <3>. QED BY <3>1, <3>2
  <2>2. g = [s \in SUBSET (1 .. n) |-> g[s]]
    BY <1>6 DEF IsFoldOf
  <2>. QED BY <1>1, <2>1, <2>2 DEF IsRemainingFold
<1>9. PICK f : f = CHOOSE i : IsRemainingFold(points, most, i)
  OBVIOUS
<1>10. Obeys(f, 1 .. n, V, Largest(n), points, step)
  <2>1. SUFFICES ASSUME NEW s \in SUBSET (1 .. n)
                 PROVE  IF s = {} THEN f[s] = points
                        ELSE f[s \ {Largest(n)[s]}] \in V =>
                             f[s] = step[Largest(n)[s]][f[s \ {Largest(n)[s]}]]
    BY DEF Obeys
  <2>2. f[s] = RemainingStep(points, most, f, s)
    <3>1. IsRemainingFold(points, most, f)
      BY <1>8, <1>9
    <3>. QED BY <1>1, <3>1 DEF IsRemainingFold
  <2>3. CASE s = {}
    BY <2>2, <2>3 DEF RemainingStep
  <2>4. CASE s # {}
    <3>. DEFINE x == Max(s)
    <3>1. Largest(n)[s] = x /\ x \in 1 .. n /\ s \ {x} \in SUBSET (1 .. n)
      BY <1>7, <2>4
    <3>2. f[s] = DropOne(f[s \ {x}], most)
      BY <2>2, <2>4 DEF RemainingStep
    <3>. HIDE DEF x
    <3>. QED BY <1>4, <2>4, <3>1, <3>2
  <2>. QED BY <2>3, <2>4
<1>11. PICK h : IsHistory(h, n, V, points, step) /\ f[1 .. n] = h[n]
  BY <1>1, <1>2, <1>3, <1>10, FoldIsHistory
<1>12. ASSUME NEW k \in 1 .. n PROVE h[k] = DropOne(h[k - 1], most)
  <2>1. k - 1 \in 0 .. n
    BY <1>1
  <2>2. h[k - 1] \in V /\ h[k] = step[k][h[k - 1]]
    BY <1>11, <2>1 DEF IsHistory
  <2>. QED BY <1>4, <2>2
<1>13. Remaining(points, most) = f[1 .. n]
  BY <1>1, <1>9, RemainingIs
<1>. QED BY <1>11, <1>12, <1>13 DEF IsHistory, n, V

(* What is kept is on a line, or no point can be spared; and each point of  *)
(* it was measured.                                                         *)
LEMMA RemainingIsDone ==
  ASSUME NEW points \in Seq(Points), Len(points) >= 3, NEW most
  PROVE  LET kept == Remaining(points, most)
         IN  kept \in PartsOf(points) /\ Done(kept, most)
<1>. DEFINE n == Len(points)
<1>1. n \in Nat /\ n >= 3
  BY LenProperties
<1>2. PICK h \in [0 .. n -> PartsOf(points)] :
          /\ h[0] = points
          /\ \A k \in 1 .. n : h[k] = DropOne(h[k - 1], most)
          /\ Remaining(points, most) = h[n]
  BY RemainingHasHistory
<1>. DEFINE Right(k) == Done(h[k], most) \/ Len(h[k]) = n - k
            Bad == {k \in 0 .. n : ~Right(k)}
<1>3. Bad = {}
  <2>1. SUFFICES ASSUME Bad # {} PROVE FALSE
    OBVIOUS
  <2>2. Bad \subseteq Nat
    BY <1>1
  <2>3. PICK k \in Bad : \A j \in Bad : k <= j
    BY <2>1, <2>2, LeastExists
  <2>4. k # 0
    BY <1>1, <1>2, <2>3
  <2>5. k \in 1 .. n /\ k - 1 \in 0 .. n /\ ~(k <= k - 1)
    BY <1>1, <2>3, <2>4
  <2>6. Right(k - 1) /\ ~Right(k)
    BY <2>3, <2>5
  <2>7. h[k - 1] \in PartsOf(points) /\ h[k] = DropOne(h[k - 1], most)
    BY <1>2, <2>5
  <2>8. /\ Done(h[k - 1], most) => h[k] = h[k - 1]
        /\ ~Done(h[k - 1], most) => Len(h[k]) = Len(h[k - 1]) - 1
    BY <2>7, DropKeeps
  <2>. QED BY <1>1, <2>5, <2>6, <2>8
<1>4. n \in 0 .. n
  BY <1>1
<1>5. Right(n) /\ h[n] \in PartsOf(points)
  BY <1>2, <1>3, <1>4
<1>6. Len(h[n]) = n - n => Done(h[n], most)
  BY <1>1 DEF Done
<1>. QED BY <1>2, <1>5, <1>6

(* The table of calibrations, sweep by sweep. *)
FitOf(x, k) == FitCalibration(x.sweeps[k].gains, x.sweeps[k].points, x.most)

GainsOf(x, k) == x.sweeps[k].gains

TablesOf(x) ==
    UNION {[K -> {FitOf(x, k) : k \in DOMAIN x.sweeps}] :
               K \in SUBSET {GainsOf(x, k) : k \in DOMAIN x.sweeps}}

(* A sweep adds a calibration of one of the sweeps. *)
LEMMA AddKeepsType ==
  ASSUME NEW x, NEW v \in TablesOf(x), NEW k \in DOMAIN x.sweeps
  PROVE  AddCalibration(v, FitOf(x, k)) \in TablesOf(x)
<1>. DEFINE keys == {GainsOf(x, j) : j \in DOMAIN x.sweeps}
            E == {FitOf(x, j) : j \in DOMAIN x.sweeps}
            fit == FitOf(x, k)
            gains == GainsOf(x, k)
            new == [g \in DOMAIN v \cup {gains} |-> IF g = gains THEN fit ELSE v[g]]
<1>1. DOMAIN v \in SUBSET keys /\ v \in [DOMAIN v -> E]
  BY DEF TablesOf
<1>2. fit \in E /\ gains \in keys
  OBVIOUS
<1>3. fit.gains = gains
  BY DEF FitOf, GainsOf, FitCalibration
<1>4. AddCalibration(v, fit) = new
  BY <1>3 DEF AddCalibration
<1>. HIDE DEF E, fit, gains, keys
<1>5. new \in [DOMAIN v \cup {gains} -> E] /\ DOMAIN v \cup {gains} \in SUBSET keys
  BY <1>1, <1>2
<1>. QED BY <1>4, <1>5 DEF TablesOf, E, keys, fit

FittedStep(x, f, s) ==
    IF s = {} THEN [g \in {} |-> 0]
    ELSE AddCalibration(f[s \ {Max(s)}], FitOf(x, Max(s)))

IsFittedFold(x, f) ==
    f = [s \in SUBSET DOMAIN x.sweeps |-> FittedStep(x, f, s)]

(* The table of calibrations as a recursion over the sweeps. *)
LEMMA FittedIs ==
  ASSUME NEW x
  PROVE  Fitted(x) = (CHOOSE f : IsFittedFold(x, f))[DOMAIN x.sweeps]
BY DEF Fitted, FoldLeft, MapThenFoldSet, IsFittedFold, FittedStep, FitOf

IsTable(h, x) ==
    /\ h \in [0 .. Len(x.sweeps) -> TablesOf(x)]
    /\ h[0] = [g \in {} |-> 0]
    /\ \A k \in 1 .. Len(x.sweeps) :
           h[k] = AddCalibration(h[k - 1], FitOf(x, k))

(* The table is what the sweeps make of an empty one, one after another. *)
LEMMA FittedHasHistory ==
  ASSUME NEW x, NEW S, x.sweeps \in Seq(S)
  PROVE  \E h : IsTable(h, x) /\ Fitted(x) = h[Len(x.sweeps)]
<1>. DEFINE n == Len(x.sweeps)
            V == TablesOf(x)
            none == [g \in {} |-> 0]
            step == [k \in 1 .. n |-> [v \in V |-> AddCalibration(v, FitOf(x, k))]]
<1>1. n \in Nat /\ DOMAIN x.sweeps = 1 .. n
  BY LenProperties
<1>2. none \in V
  <2>1. none \in [{} -> {FitOf(x, k) : k \in DOMAIN x.sweeps}]
    OBVIOUS
  <2>. QED BY <2>1 DEF TablesOf
<1>3. AreSteps(step, n, V)
  <2>1. ASSUME NEW k \in 1 .. n
        PROVE  [v \in V |-> AddCalibration(v, FitOf(x, k))] \in [V -> V]
    BY <1>1, AddKeepsType
  <2>. QED BY <2>1 DEF AreSteps
<1>4. \A k \in 1 .. n, v \in V : step[k][v] = AddCalibration(v, FitOf(x, k))
  OBVIOUS
<1>. HIDE DEF step, V, n, none
<1>5. IsFiniteSet(1 .. n) /\ Picks(Largest(n), 1 .. n)
  BY <1>1, FS_Interval, LargestPicks
<1>6. PICK g : IsFoldOf(g, 1 .. n, V, Largest(n), none, step)
  BY <1>2, <1>3, <1>5, FoldOfExists DEF AreSteps
<1>7. ASSUME NEW s \in SUBSET (1 .. n), s # {}
      PROVE  /\ Largest(n)[s] = Max(s) /\ Max(s) \in 1 .. n
             /\ s \ {Max(s)} \in SUBSET (1 .. n)
  BY <1>5, <1>7 DEF Largest, Picks
<1>8. IsFittedFold(x, g)
  <2>1. ASSUME NEW s \in SUBSET (1 .. n) PROVE g[s] = FittedStep(x, g, s)
    <3>1. CASE s = {}
      BY <1>6, <3>1 DEF IsFoldOf, Folded, FittedStep, none
    <3>2. CASE s # {}
      <4>. DEFINE m == Max(s)
      <4>1. Largest(n)[s] = m /\ m \in 1 .. n /\ s \ {m} \in SUBSET (1 .. n)
        BY <1>7, <3>2
      <4>2. g[s \ {m}] \in V /\ g[s] = step[m][g[s \ {m}]]
        BY <1>6, <3>2, <4>1 DEF IsFoldOf, Folded
      <4>. HIDE DEF m
      <4>. QED BY <1>4, <3>2, <4>1, <4>2 DEF FittedStep, m
    <3>. QED BY <3>1, <3>2
  <2>2. g = [s \in SUBSET (1 .. n) |-> g[s]]
    BY <1>6 DEF IsFoldOf
  <2>. QED BY <1>1, <2>1, <2>2 DEF IsFittedFold
<1>9. PICK f : f = CHOOSE i : IsFittedFold(x, i)
  OBVIOUS
<1>10. Obeys(f, 1 .. n, V, Largest(n), none, step)
  <2>1. SUFFICES ASSUME NEW s \in SUBSET (1 .. n)
                 PROVE  IF s = {} THEN f[s] = none
                        ELSE f[s \ {Largest(n)[s]}] \in V =>
                             f[s] = step[Largest(n)[s]][f[s \ {Largest(n)[s]}]]
    BY DEF Obeys
  <2>2. f[s] = FittedStep(x, f, s)
    <3>1. IsFittedFold(x, f)
      BY <1>8, <1>9
    <3>. QED BY <1>1, <3>1 DEF IsFittedFold
  <2>3. CASE s = {}
    BY <2>2, <2>3 DEF FittedStep, none
  <2>4. CASE s # {}
    <3>. DEFINE m == Max(s)
    <3>1. Largest(n)[s] = m /\ m \in 1 .. n /\ s \ {m} \in SUBSET (1 .. n)
      BY <1>7, <2>4
    <3>2. f[s] = AddCalibration(f[s \ {m}], FitOf(x, m))
      BY <2>2, <2>4 DEF FittedStep
    <3>. HIDE DEF m
    <3>. QED BY <1>4, <2>4, <3>1, <3>2
  <2>. QED BY <2>3, <2>4
<1>11. PICK h : IsHistory(h, n, V, none, step) /\ f[1 .. n] = h[n]
  BY <1>1, <1>2, <1>3, <1>10, FoldIsHistory
<1>12. ASSUME NEW k \in 1 .. n
       PROVE  h[k] = AddCalibration(h[k - 1], FitOf(x, k))
  <2>1. k - 1 \in 0 .. n
    BY <1>1
  <2>2. h[k - 1] \in V /\ h[k] = step[k][h[k - 1]]
    BY <1>11, <2>1 DEF IsHistory
  <2>. QED BY <1>4, <2>2
<1>13. Fitted(x) = f[1 .. n]
  BY <1>1, <1>9, FittedIs
<1>. QED BY <1>11, <1>12, <1>13 DEF IsHistory, IsTable, n, V, none

(* After k sweeps the table has their gains, each with the fit of the last *)
(* sweep made with them.                                                   *)
IsLast(j, x, g, k) ==
    /\ j \in 1 .. k /\ GainsOf(x, j) = g
    /\ \A i \in 1 .. k : GainsOf(x, i) = g => i <= j

HoldsTheLast(table, x, k) ==
    /\ DOMAIN table = {GainsOf(x, j) : j \in 1 .. k}
    /\ \A g \in DOMAIN table : \E j : IsLast(j, x, g, k) /\ table[g] = FitOf(x, j)

(* One more sweep replaces the calibration of its gains and no other. *)
LEMMA AddHoldsTheLast ==
  ASSUME NEW x, NEW table, NEW k \in Nat \ {0}, HoldsTheLast(table, x, k - 1)
  PROVE  HoldsTheLast(AddCalibration(table, FitOf(x, k)), x, k)
<1>. DEFINE gains == GainsOf(x, k)
            new == AddCalibration(table, FitOf(x, k))
<1>1. new = [g \in DOMAIN table \cup {gains} |->
                 IF g = gains THEN FitOf(x, k) ELSE table[g]]
  <2>1. FitOf(x, k).gains = gains
    BY DEF FitOf, GainsOf, FitCalibration
  <2>. QED BY <2>1 DEF AddCalibration
<1>2. 1 .. k = (1 .. k - 1) \cup {k}
  OBVIOUS
<1>. HIDE DEF new
<1>3. DOMAIN new = {GainsOf(x, j) : j \in 1 .. k}
  BY <1>1, <1>2 DEF HoldsTheLast
<1>4. ASSUME NEW g \in DOMAIN new
      PROVE  \E j : IsLast(j, x, g, k) /\ new[g] = FitOf(x, j)
  <2>1. CASE g = gains
    <3>1. IsLast(k, x, g, k)
      BY <2>1 DEF IsLast
    <3>2. new[g] = FitOf(x, k)
      BY <1>1, <2>1
    <3>. QED BY <3>1, <3>2
  <2>2. CASE g # gains
    <3>1. g \in DOMAIN table /\ new[g] = table[g]
      BY <1>1, <2>2
    <3>2. PICK j : IsLast(j, x, g, k - 1) /\ table[g] = FitOf(x, j)
      BY <3>1 DEF HoldsTheLast
    <3>3. IsLast(j, x, g, k)
      BY <1>2, <2>2, <3>2 DEF IsLast
    <3>. QED BY <3>1, <3>2, <3>3
  <2>. QED BY <2>1, <2>2
<1>5. HoldsTheLast(new, x, k)
  BY <1>3, <1>4 DEF HoldsTheLast
<1>. QED BY <1>5 DEF new

(* In the end each calibration is that of the last sweep with its gains. *)
LEMMA FittedHoldsTheLast ==
  ASSUME NEW x, NEW S, x.sweeps \in Seq(S)
  PROVE  HoldsTheLast(Fitted(x), x, Len(x.sweeps))
<1>. DEFINE n == Len(x.sweeps)
<1>1. n \in Nat
  BY LenProperties
<1>2. PICK h : IsTable(h, x) /\ Fitted(x) = h[n]
  BY FittedHasHistory
<1>. DEFINE Bad == {k \in 0 .. n : ~HoldsTheLast(h[k], x, k)}
<1>3. Bad = {}
  <2>1. SUFFICES ASSUME Bad # {} PROVE FALSE
    OBVIOUS
  <2>2. Bad \subseteq Nat
    BY <1>1
  <2>3. PICK k \in Bad : \A j \in Bad : k <= j
    BY <2>1, <2>2, LeastExists
  <2>4. k # 0
    <3>1. HoldsTheLast(h[0], x, 0)
      BY <1>2 DEF IsTable, HoldsTheLast
    <3>. QED BY <2>3, <3>1
  <2>5. k \in 1 .. n /\ k \in Nat \ {0} /\ k - 1 \in 0 .. n /\ ~(k <= k - 1)
    BY <1>1, <2>3, <2>4
  <2>6. HoldsTheLast(h[k - 1], x, k - 1) /\ ~HoldsTheLast(h[k], x, k)
    BY <2>3, <2>5
  <2>7. h[k] = AddCalibration(h[k - 1], FitOf(x, k))
    BY <1>2, <2>5 DEF IsTable
  <2>. QED BY <2>5, <2>6, <2>7, AddHoldsTheLast
<1>4. n \in 0 .. n
  BY <1>1
<1>. QED BY <1>2, <1>3, <1>4

(* A calibration is good from the least to the greatest level it kept. *)
LEMMA RangeIsOfKept ==
  ASSUME NEW points, NEW kept \in PartsOf(points)
  PROVE  LET valid == ValidRange(points, kept)
         IN  /\ valid.low \in Int /\ valid.high \in Int
             /\ \E p, q \in Range(kept) : p.dbfs = valid.low /\ q.dbfs = valid.high
<1>. DEFINE n == Len(kept)
            S == {kept[k].dbfs : k \in 1 .. n}
<1>1. n \in Nat /\ n >= 3 /\ DOMAIN kept = 1 .. n /\ kept \in Seq(Points)
  BY LenProperties DEF PartsOf
<1>2. \A k \in 1 .. n : kept[k] \in Points /\ kept[k].dbfs \in Int
  <2>1. \A k \in 1 .. n : kept[k] \in Points
    BY <1>1, ElementOfSeq
  <2>. QED BY <2>1 DEF Points
<1>3. IsFiniteSet(S) /\ S \subseteq Int /\ S # {}
  <2>1. IsFiniteSet(1 .. n) /\ 1 \in 1 .. n
    BY <1>1, FS_Interval
  <2>2. [k \in 1 .. n |-> kept[k].dbfs] \in [1 .. n -> Int]
    BY <1>2
  <2>. DEFINE f == [k \in 1 .. n |-> kept[k].dbfs]
  <2>3. S = {f[k] : k \in 1 .. n}
    OBVIOUS
  <2>. HIDE DEF f, S
  <2>4. IsFiniteSet({f[k] : k \in 1 .. n})
    BY <2>1, ValuesAreFinite
  <2>. QED BY <1>2, <2>1, <2>3, <2>4 DEF S
<1>4. RangeOf(kept) = S
  BY <1>1 DEF RangeOf
<1>5. Min(S) \in S /\ Max(S) \in S
  BY <1>3, MinOf, MaxOf
<1>6. /\ ValidRange(points, kept).low = Min(S)
      /\ ValidRange(points, kept).high = Max(S)
  BY <1>4 DEF ValidRange
<1>7. PICK a \in 1 .. n : kept[a].dbfs = Min(S)
  BY <1>5
<1>8. PICK b \in 1 .. n : kept[b].dbfs = Max(S)
  BY <1>5
<1>9. kept[a] \in Range(kept) /\ kept[b] \in Range(kept)
  BY <1>1 DEF Range
<1>. QED BY <1>3, <1>5, <1>6, <1>7, <1>8, <1>9

(* A quotient rounded to parts of one is off by half a part at the most. *)
RoundsTo(x, parts, den, near, off) ==
    /\ near = Rounded(x * parts, den) /\ near * den = x * parts + off
    /\ 2 * off <= den /\ -den <= 2 * off

LEMMA PartsAreNear ==
  ASSUME NEW x \in Int, NEW parts \in Nat \ {0}, NEW den \in Nat \ {0}
  PROVE  \E near, off \in Int : RoundsTo(x, parts, den, near, off)
<1>1. x * parts \in Int
  OBVIOUS
<1>2. PICK near : near = Rounded(x * parts, den)
  OBVIOUS
<1>. DEFINE all == x * parts
            product == near * den
            off == product - all
<1>3. /\ near \in Int /\ product \in Int
      /\ 2 * (product - all) <= den /\ 2 * (all - product) <= den
  BY <1>1, <1>2, NearestIs
<1>. HIDE DEF all, product
<1>4. all \in Int
  BY <1>1 DEF all
<1>5. /\ off \in Int /\ product = all + off
      /\ 2 * off <= den /\ -den <= 2 * off
  BY <1>3, <1>4
<1>. QED BY <1>2, <1>3, <1>5 DEF RoundsTo, all, product

(* A product of a small factor and a number is small. *)
LEMMA ProductIsSmall ==
  ASSUME NEW x \in Int, NEW off \in Int, NEW den \in Nat, NEW parts \in Nat,
         2 * off <= den, -den <= 2 * off
  PROVE  /\ 2 * (parts * (x * off)) <= parts * (Magnitude(x) * den)
         /\ -(parts * (Magnitude(x) * den)) <= 2 * (parts * (x * off))
<1>. DEFINE size == Magnitude(x)
<1>1. size \in Nat /\ (x = size \/ x = -size)
  BY DEF Magnitude
<1>. HIDE DEF size
<1>2. size * (2 * off) <= size * den /\ size * (-den) <= size * (2 * off)
  BY <1>1
<1>3. 2 * (x * off) <= size * den /\ -(size * den) <= 2 * (x * off)
  BY <1>1, <1>2
<1>4. PICK a, b \in Int : a = x * off /\ b = size * den
  BY <1>1
<1>5. 2 * a <= b /\ -b <= 2 * a
  BY <1>3, <1>4
<1>6. parts * (2 * a) <= parts * b /\ parts * (-b) <= parts * (2 * a)
  BY <1>4, <1>5
<1>7. 2 * (parts * a) <= parts * b /\ -(parts * b) <= 2 * (parts * a)
  BY <1>4, <1>6
<1>. QED BY <1>4, <1>7 DEF size

(* The power on a saved line is off by half the last places. *)
LEMMA SavedLineIsClose ==
  ASSUME NEW line, line.slope \in Int, line.offset \in Int,
         line.den \in Nat \ {0}, NEW x \in Int
  PROVE  2 * Magnitude(ToDbm(SavedLine(line), x) * line.den
                       - ToDbm(line, x) * SavedLine(line).den)
             <= line.den * (Magnitude(x) * OffsetParts + SlopeParts)
<1>. DEFINE size == Magnitude(x)
<1>1. SlopeParts \in Nat \ {0} /\ OffsetParts \in Nat \ {0}
  BY AnalysesAssumption DEF AnalysesAssumption
<1>2. PICK s, o, d, p, q \in Int :
        /\ s = line.slope /\ o = line.offset /\ d = line.den
        /\ p = SlopeParts /\ q = OffsetParts
  BY <1>1
<1>3. PICK m, e \in Int : RoundsTo(s, p, d, m, e)
  <2>1. p \in Nat \ {0} /\ d \in Nat \ {0}
    BY <1>1, <1>2
  <2>. QED BY <2>1, PartsAreNear
<1>4. PICK n, f \in Int : RoundsTo(o, q, d, n, f)
  <2>1. q \in Nat \ {0} /\ d \in Nat \ {0}
    BY <1>1, <1>2
  <2>. QED BY <2>1, PartsAreNear
<1>5. /\ ToDbm(SavedLine(line), x) = (m * q) * x + n * p
      /\ SavedLine(line).den = p * q
      /\ ToDbm(line, x) = s * x + o
  BY <1>2, <1>3, <1>4 DEF RoundsTo, ToDbm, SavedLine
<1>6. ((m * q) * x + n * p) * d - (s * x + o) * (p * q) = q * (x * e) + p * (1 * f)
  <2>1. ((m * q) * x + n * p) * d = (q * x) * (m * d) + p * (n * d)
    OBVIOUS
  <2>2. (q * x) * (s * p + e) = (s * x) * (p * q) + q * (x * e)
    OBVIOUS
  <2>3. p * (o * q + f) = o * (p * q) + p * (1 * f)
    OBVIOUS
  <2>4. (s * x + o) * (p * q) = (s * x) * (p * q) + o * (p * q)
    OBVIOUS
  <2>. QED BY <1>3, <1>4, <2>1, <2>2, <2>3, <2>4 DEF RoundsTo
<1>7. /\ 2 * (q * (x * e)) <= q * (size * d)
      /\ -(q * (size * d)) <= 2 * (q * (x * e))
  BY <1>1, <1>2, <1>3, ProductIsSmall DEF RoundsTo
<1>8. /\ 2 * (p * (1 * f)) <= p * (1 * d)
      /\ -(p * (1 * d)) <= 2 * (p * (1 * f))
  <2>1. Magnitude(1) = 1
    BY DEF Magnitude
  <2>. QED BY <1>1, <1>2, <1>4, <2>1, ProductIsSmall DEF RoundsTo
<1>9. size \in Nat
  BY DEF Magnitude
<1>. HIDE DEF size
<1>10. d * (size * q + p) = q * (size * d) + p * (1 * d)
  BY <1>9
<1>11. PICK a, b, y, z \in Int :
         /\ a = q * (x * e) /\ b = p * (1 * f)
         /\ y = q * (size * d) /\ z = p * (1 * d)
  BY <1>9
<1>12. 2 * Magnitude(a + b) <= y + z
  BY <1>7, <1>8, <1>11 DEF Magnitude
<1>13. 2 * Magnitude(ToDbm(SavedLine(line), x) * line.den
                    - ToDbm(line, x) * SavedLine(line).den)
         <= d * (size * q + p)
  BY <1>2, <1>5, <1>6, <1>10, <1>11, <1>12
<1>. QED BY <1>2, <1>13 DEF size

(* A saved range holds a level that the range does not, or the other way   *)
(* about, only near an end.                                                *)
LEMMA SavedRangeIsClose ==
  ASSUME NEW valid, valid.low \in Int, valid.high \in Int, NEW x \in Int,
         ~(valid.low <= x /\ x <= valid.high
           <=> SavedRange(valid).low <= x /\ x <= SavedRange(valid).high)
  PROVE  NearEnd(valid, x)
<1>1. RangeStep \in Nat \ {0}
  BY AnalysesAssumption DEF AnalysesAssumption
<1>2. PICK low, high, from, to \in Int :
        /\ low = valid.low /\ high = valid.high
        /\ from = SavedRange(valid).low /\ to = SavedRange(valid).high
        /\ 2 * (from - low) <= RangeStep /\ 2 * (low - from) <= RangeStep
        /\ 2 * (to - high) <= RangeStep /\ 2 * (high - to) <= RangeStep
  <2>. DEFINE low == valid.low
              high == valid.high
              from == Rounded(low, RangeStep) * RangeStep
              to == Rounded(high, RangeStep) * RangeStep
  <2>1. low \in Int /\ high \in Int
    OBVIOUS
  <2>2. from = SavedRange(valid).low /\ to = SavedRange(valid).high
    BY DEF SavedRange
  <2>. HIDE DEF low, high
  <2>3. /\ from \in Int
        /\ 2 * (from - low) <= RangeStep /\ 2 * (low - from) <= RangeStep
    BY <1>1, <2>1, NearestIs
  <2>4. /\ to \in Int
        /\ 2 * (to - high) <= RangeStep /\ 2 * (high - to) <= RangeStep
    BY <1>1, <2>1, NearestIs
  <2>. HIDE DEF from, to
  <2>5. low = valid.low /\ high = valid.high
    BY DEF low, high
  <2>. QED BY <2>1, <2>2, <2>3, <2>4, <2>5
<1>3. ~(low <= x /\ x <= high <=> from <= x /\ x <= to)
  BY <1>2
<1>4. \/ 2 * (x - low) <= RangeStep /\ 2 * (low - x) <= RangeStep
      \/ 2 * (x - high) <= RangeStep /\ 2 * (high - x) <= RangeStep
  BY <1>1, <1>2, <1>3
<1>5. 2 * Magnitude(x - low) <= RangeStep \/ 2 * Magnitude(x - high) <= RangeStep
  BY <1>1, <1>4 DEF Magnitude
<1>. QED BY <1>2, <1>5 DEF NearEnd

(* A reading with a power lies within the points that the fit of the last   *)
(* sweep has kept.                                                          *)
LEMMA CalibrationIsRight ==
  ASSUME NEW x \in SweepSeqs, NEW g \in DOMAIN Fitted(x), NEW j,
         IsLast(j, x, g, Len(x.sweeps)), Fitted(x)[g] = FitOf(x, j)
  PROVE  LET points == x.sweeps[j].points
             kept   == Fitted(x)[g].points
         IN  /\ Range(kept) \subseteq Range(points)
             /\ OnLine(kept, x.most) \/ Len(kept) = 3
             /\ \A level \in x.readings :
                    HasDbm(Fitted(x), level, g) =>
                        \E p, q \in Range(kept) : p.dbfs <= level /\ level <= q.dbfs
<1>. DEFINE points == x.sweeps[j].points
            kept == Remaining(points, x.most)
<1>1. x.sweeps \in Seq(Range(x.sweeps)) /\ x.readings \subseteq Int
  BY InputsAssumption DEF InputsAssumption
<1>2. j \in DOMAIN x.sweeps /\ x.sweeps[j].gains = g
  BY <1>1, LenProperties DEF IsLast, GainsOf
<1>3. /\ points \in Seq(Points) /\ Len(points) >= 3
      /\ g = QuantiseGains(g.lna, g.vga, g.amp)
  BY <1>2, InputsAssumption DEF InputsAssumption, Points
<1>4. Fitted(x)[g] = [gains |-> g, line |-> Line(kept),
                      valid |-> ValidRange(points, kept), points |-> kept]
  BY <1>2 DEF FitOf, FitCalibration
<1>5. kept \in PartsOf(points) /\ Done(kept, x.most)
  BY <1>3, RemainingIsDone
<1>. HIDE DEF kept, points
<1>6. Range(kept) \subseteq Range(points)
  BY <1>5 DEF PartsOf, Range
<1>7. OnLine(kept, x.most) \/ Len(kept) = 3
  <2>1. Len(kept) \in Nat /\ Len(kept) >= 3
    BY <1>5, LenProperties DEF PartsOf
  <2>2. OnLine(kept, x.most) \/ Len(kept) <= 3
    BY ONLY <1>5, Zenon DEF Done, OnLine
  <2>3. Len(kept) <= 3 => Len(kept) = 3
    BY <2>1
  <2>. QED BY <2>2, <2>3, Zenon
<1>8. ASSUME NEW level \in x.readings, HasDbm(Fitted(x), level, g)
      PROVE  \E p, q \in Range(kept) : p.dbfs <= level /\ level <= q.dbfs
  <2>1. /\ ValidRange(points, kept).low <= level
        /\ level <= ValidRange(points, kept).high
    BY <1>4, <1>8 DEF HasDbm, InRange
  <2>2. PICK p, q \in Range(kept) :
          /\ p.dbfs = ValidRange(points, kept).low
          /\ q.dbfs = ValidRange(points, kept).high
    BY <1>5, RangeIsOfKept
  <2>. QED BY <2>1, <2>2
<1>. QED BY <1>4, <1>6, <1>7, <1>8 DEF points

(* The calibration of the last sweep after it was saved and loaded.        *)
LEMMA SavedFitIsClose ==
  ASSUME NEW x \in SweepSeqs, NEW g \in DOMAIN Fitted(x), NEW j,
         IsLast(j, x, g, Len(x.sweeps)), Fitted(x)[g] = FitOf(x, j)
  PROVE  LET loaded == Loaded(Fitted(x))
             fitted == Fitted(x)[g].line
             saved  == loaded[g].line
         IN  /\ loaded[g].gains = g
             /\ \A level \in x.readings :
                    /\ HasDbm(loaded, level, g) # HasDbm(Fitted(x), level, g) =>
                           NearEnd(Fitted(x)[g].valid, level)
                    /\ fitted.den > 0 =>
                           2 * Magnitude(ToDbm(saved, level) * fitted.den
                                         - ToDbm(fitted, level) * saved.den)
                               <= fitted.den
                                    * (Magnitude(level) * OffsetParts + SlopeParts)
<1>. DEFINE points == x.sweeps[j].points
            kept == Remaining(points, x.most)
            fitted == Fitted(x)[g].line
            valid == Fitted(x)[g].valid
            loaded == Loaded(Fitted(x))
<1>1. x.sweeps \in Seq(Range(x.sweeps)) /\ x.readings \subseteq Int
  BY InputsAssumption DEF InputsAssumption
<1>2. j \in DOMAIN x.sweeps /\ x.sweeps[j].gains = g
  BY <1>1, LenProperties DEF IsLast, GainsOf
<1>3. /\ points \in Seq(Points) /\ Len(points) >= 3
      /\ g = QuantiseGains(g.lna, g.vga, g.amp)
  BY <1>2, InputsAssumption DEF InputsAssumption, Points
<1>4. fitted = Line(kept) /\ valid = ValidRange(points, kept)
  BY <1>2 DEF FitOf, FitCalibration
<1>5. kept \in PartsOf(points)
  BY <1>3, RemainingIsDone
<1>6. valid.low \in Int /\ valid.high \in Int
  BY <1>4, <1>5, RangeIsOfKept
<1>7. fitted.slope \in Int /\ fitted.offset \in Int /\ fitted.den \in Int
  BY <1>4, <1>5, LineIsInts DEF PartsOf
<1>8. /\ g \in DOMAIN loaded /\ loaded[g].gains = g
      /\ loaded[g].line = SavedLine(fitted)
      /\ loaded[g].valid = SavedRange(valid)
  BY <1>3 DEF Loaded
<1>. HIDE DEF loaded, fitted, valid, kept, points
<1>9. ASSUME NEW level \in x.readings,
             HasDbm(loaded, level, g) # HasDbm(Fitted(x), level, g)
      PROVE  NearEnd(valid, level)
  <2>1. HasDbm(loaded, level, g)
          <=> /\ SavedRange(valid).low <= level
              /\ level <= SavedRange(valid).high
    BY <1>8 DEF HasDbm, InRange
  <2>2. HasDbm(Fitted(x), level, g) <=> valid.low <= level /\ level <= valid.high
    BY DEF HasDbm, InRange, valid
  <2>3. HasDbm(loaded, level, g) \in BOOLEAN
        /\ HasDbm(Fitted(x), level, g) \in BOOLEAN
    BY DEF HasDbm, InRange
  <2>4. ~(valid.low <= level /\ level <= valid.high
          <=> /\ SavedRange(valid).low <= level
              /\ level <= SavedRange(valid).high)
    BY <1>9, <2>1, <2>2, <2>3
  <2>. QED BY <1>1, <1>6, <2>4, SavedRangeIsClose
<1>10. ASSUME NEW level \in x.readings, fitted.den > 0
       PROVE  2 * Magnitude(ToDbm(SavedLine(fitted), level) * fitted.den
                            - ToDbm(fitted, level) * SavedLine(fitted).den)
                  <= fitted.den * (Magnitude(level) * OffsetParts + SlopeParts)
  <2>1. fitted.den \in Nat \ {0} /\ level \in Int
    BY <1>1, <1>7, <1>10
  <2>. QED BY <1>7, <2>1, SavedLineIsClose
<1>. QED BY <1>8, <1>9, <1>10 DEF loaded, fitted, valid

(* The result for a row of sweeps. *)
LEMMA CalibrationCorrect ==
  ASSUME task \in DOMAIN InputsOf, input \in InputsOf[task], Results
  PROVE  CalibrationIsOfItsSweep
<1>1. SUFFICES ASSUME Is("calibrate") PROVE CalibrationIsOfItsSweep
  BY DEF CalibrationIsOfItsSweep
<1>. DEFINE n == Len(input.sweeps)
<1>2. input \in SweepSeqs
  BY <1>1 DEF Is, InputsOf
<1>3. output = Fitted(input)
  BY <1>1 DEF Results
<1>4. input.sweeps \in Seq(Range(input.sweeps))
  BY <1>2, InputsAssumption DEF InputsAssumption
<1>5. n \in Nat /\ DOMAIN input.sweeps = 1 .. n
  BY <1>4, LenProperties
<1>6. HoldsTheLast(output, input, n)
  BY <1>3, <1>4, FittedHoldsTheLast
<1>7. DOMAIN output = {input.sweeps[k].gains : k \in DOMAIN input.sweeps}
  BY <1>5, <1>6 DEF HoldsTheLast, GainsOf
<1>8. ASSUME NEW g \in DOMAIN output
      PROVE  \E j : IsLast(j, input, g, n) /\ output[g] = FitOf(input, j)
                    /\ Max(SweepsOf(g)) = j
  <2>1. PICK j : IsLast(j, input, g, n) /\ output[g] = FitOf(input, j)
    BY <1>6 DEF HoldsTheLast
  <2>2. j \in SweepsOf(g) /\ \A i \in SweepsOf(g) : i <= j
    BY <1>5, <2>1 DEF IsLast, SweepsOf, GainsOf
  <2>3. IsFiniteSet(SweepsOf(g)) /\ SweepsOf(g) \subseteq Int
    <3>1. IsFiniteSet(1 .. n) /\ SweepsOf(g) \subseteq 1 .. n
      BY <1>5, FS_Interval DEF SweepsOf
    <3>. QED BY <1>5, <3>1, FS_Subset
  <2>4. Max(SweepsOf(g)) \in SweepsOf(g) /\ j <= Max(SweepsOf(g))
    BY <2>2, <2>3, MaxOf
  <2>5. Max(SweepsOf(g)) = j
    BY <2>2, <2>3, <2>4
  <2>. QED BY <2>1, <2>5
<1>9. ASSUME NEW g \in DOMAIN output
      PROVE  LET points == input.sweeps[Max(SweepsOf(g))].points
                 kept   == output[g].points
             IN  /\ Range(kept) \subseteq Range(points)
                 /\ OnLine(kept, input.most) \/ Len(kept) = 3
                 /\ \A level \in input.readings :
                        HasDbm(output, level, g) =>
                            \E p, q \in Range(kept) : p.dbfs <= level /\ level <= q.dbfs
  BY <1>2, <1>3, <1>8, CalibrationIsRight
<1>10. SavedTableIsClose
  BY <1>2, <1>3, <1>8, SavedFitIsClose DEF SavedTableIsClose
<1>. QED BY <1>7, <1>9, <1>10 DEF CalibrationIsOfItsSweep

(* A measurement can be believed: each sampled channel is on a bin of its   *)
(* own, no stage of the chain is past its limit and the planned gains use   *)
(* the budget up, and decibels are those of the calibration made with the   *)
(* gains in use; a table that was saved differs by no more than half the    *)
(* places it is saved with: core/bandplan.py, core/rfchain.py and           *)
(* core/calibration.py.                                                     *)
THEOREM ReceiverCorrect == Spec => []ReceiverIsSound
<1>1. /\ task \in DOMAIN InputsOf /\ input \in InputsOf[task]
      /\ Results
      => ReceiverIsSound
  BY TuningCorrect, LevelsCorrect, CalibrationCorrect DEF ReceiverIsSound
<1>. QED BY <1>1, TaskOf, ResultsAlways, PTL

-----------------------------------------------------------------------------
(* Parts of a sequence: the elements after the a-th up to the b-th.        *)
Part(s, a, b) == SubSeq(s, a + 1, b)

(* A part has the elements between its ends. *)
LEMMA PartIs ==
  ASSUME NEW S, NEW s \in Seq(S), NEW a \in 0 .. Len(s), NEW b \in a .. Len(s)
  PROVE  /\ Part(s, a, b) \in Seq(S)
         /\ Len(Part(s, a, b)) = b - a
         /\ \A i \in 1 .. b - a : Part(s, a, b)[i] = s[a + i]
<1>1. Len(s) \in Nat /\ a \in Nat /\ b \in Nat /\ a <= b /\ b <= Len(s)
  BY LenProperties
<1>2. \A i \in a + 1 .. b : s[i] \in S
  <2>1. \A i \in 1 .. Len(s) : s[i] \in S
    BY ElementOfSeq
  <2>. QED BY <1>1, <2>1
<1>. DEFINE t == SubSeq(s, a + 1, b)
<1>3. /\ t \in Seq(S)
      /\ Len(t) = IF a + 1 <= b THEN b - (a + 1) + 1 ELSE 0
      /\ \A i \in 1 .. b - (a + 1) + 1 : t[i] = s[(a + 1) + i - 1]
  <2>1. a + 1 \in Int /\ b \in Int
    BY <1>1
  <2>. QED BY <1>2, <2>1, SubSeqProperties
<1>. HIDE DEF t
<1>4. b - (a + 1) + 1 = b - a /\ \A i \in 1 .. b - a : (a + 1) + i - 1 = a + i
  BY <1>1
<1>5. Len(t) = b - a
  BY <1>1, <1>3
<1>. QED BY <1>3, <1>4, <1>5 DEF Part, t

(* Between an end and itself there is nothing. *)
LEMMA PartIsNone ==
  ASSUME NEW s, NEW a \in Int, NEW b \in Int, b <= a
  PROVE  Part(s, a, b) = <<>>
<1>1. a + 1 \in Int /\ b < a + 1
  OBVIOUS
<1>. QED BY <1>1, SubSeqEmpty DEF Part

(* Between first and last there is everything. *)
LEMMA PartIsAll ==
  ASSUME NEW S, NEW s \in Seq(S)
  PROVE  Part(s, 0, Len(s)) = s
<1>1. 0 + 1 = 1
  OBVIOUS
<1>. QED BY <1>1, SubSeqFull DEF Part

(* Two parts that meet are one. *)
LEMMA PartsJoin ==
  ASSUME NEW S, NEW s \in Seq(S), NEW a \in 0 .. Len(s), NEW b \in a .. Len(s),
         NEW c \in b .. Len(s)
  PROVE  Part(s, a, b) \o Part(s, b, c) = Part(s, a, c)
<1>1. Len(s) \in Nat
  BY LenProperties
<1>2. a + 1 \in 1 .. Len(s) + 1 /\ b \in (a + 1) - 1 .. Len(s)
  BY <1>1
<1>. QED BY <1>2, ConcatAdjacentSubSeq DEF Part

(* A part of a part is a part of the whole. *)
LEMMA PartOfPart ==
  ASSUME NEW S, NEW s \in Seq(S), NEW a \in 0 .. Len(s), NEW b \in a .. Len(s),
         NEW i \in 0 .. b - a, NEW j \in i .. b - a
  PROVE  Part(Part(s, a, b), i, j) = Part(s, a + i, a + j)
<1>. DEFINE t == Part(s, a, b)
            u == Part(t, i, j)
            v == Part(s, a + i, a + j)
<1>1. Len(s) \in Nat
  BY LenProperties
<1>2. a + i \in 0 .. Len(s) /\ a + j \in a + i .. Len(s)
  BY <1>1
<1>3. t \in Seq(S) /\ Len(t) = b - a /\ \A k \in 1 .. b - a : t[k] = s[a + k]
  BY PartIs
<1>4. i \in 0 .. Len(t) /\ j \in i .. Len(t)
  BY <1>1, <1>3
<1>. HIDE DEF t
<1>5. u \in Seq(S) /\ Len(u) = j - i /\ \A k \in 1 .. j - i : u[k] = t[i + k]
  BY ONLY <1>3, <1>4, PartIs, Zenon DEF u
<1>6. /\ v \in Seq(S) /\ Len(v) = (a + j) - (a + i)
      /\ \A k \in 1 .. (a + j) - (a + i) : v[k] = s[(a + i) + k]
  BY <1>2, PartIs
<1>. HIDE DEF u, v
<1>7. (a + j) - (a + i) = j - i
  BY <1>1
<1>8. ASSUME NEW k \in 1 .. j - i PROVE u[k] = v[k]
  <2>1. i + k \in 1 .. b - a /\ (a + i) + k = a + (i + k)
    BY <1>1
  <2>. QED BY <1>3, <1>5, <1>6, <1>7, <2>1
<1>9. u = v
  BY <1>5, <1>6, <1>7, <1>8, SeqEqual
<1>. QED BY <1>9 DEF t, u, v

(* The chunks of a recording: where each ends, the last at its end. *)
AreCuts(cuts, count, n) ==
    /\ cuts \in [0 .. count -> 0 .. n]
    /\ cuts[0] = 0 /\ cuts[count] = n
    /\ \A k \in 1 .. count : cuts[k - 1] < cuts[k]

CutAt(s, cuts, count) == [k \in 1 .. count |-> Part(s, cuts[k - 1], cuts[k])]

(* Chunks are a recording cut at the multiples of their size and at its end. *)
LEMMA ChunksAreCut ==
  ASSUME NEW S, NEW s \in Seq(S), NEW size \in Nat \ {0}
  PROVE  \E count \in Nat : \E cuts :
             /\ AreCuts(cuts, count, Len(s))
             /\ Chunks(s, size) = CutAt(s, cuts, count)
<1>. DEFINE n == Len(s)
            count == (n + size - 1) \div size
            cuts == [k \in 0 .. count |-> IF k * size <= n THEN k * size ELSE n]
            r == (n + size - 1) % size
<1>1. n \in Nat
  BY LenProperties
<1>. HIDE DEF n
<1>2. count \in Int /\ r \in 0 .. size - 1 /\ n + size - 1 = count * size + r
  <2>1. n + size - 1 \in Int
    BY <1>1
  <2>2. \A a \in Int : a \div size \in Int /\ a % size \in 0 .. size - 1
                       /\ a = (a \div size) * size + (a % size)
    BY DivMod
  <2>. QED BY ONLY <2>1, <2>2, Zenon
<1>. HIDE DEF count, r
<1>3. count * size \in Int /\ count * size >= n /\ count * size < n + size
  BY <1>1, <1>2
<1>4. count \in Nat
  <2>1. SUFFICES ASSUME count < 0 PROVE FALSE
    BY <1>2
  <2>2. count * size + size <= 0 * size
    BY <1>2, <2>1, StepsApart
  <2>. QED BY <1>1, <1>3, <2>2
<1>5. \A k \in 0 .. count : k * size \in Nat
  BY <1>4
<1>6. ASSUME NEW k \in 1 .. count
      PROVE  /\ k \in 0 .. count /\ k - 1 \in 0 .. count
             /\ (k - 1) * size + size = k * size
             /\ (k - 1) * size < n
  <2>1. k \in 0 .. count /\ k - 1 \in 0 .. count /\ (k - 1) * size + size = k * size
    BY <1>4
  <2>2. k * size <= count * size
    BY <1>4, StepsOrdered
  <2>3. k * size \in Nat /\ (k - 1) * size \in Nat
    BY <1>5, <2>1
  <2>. QED BY <1>1, <1>3, <2>1, <2>2, <2>3
<1>7. AreCuts(cuts, count, n)
  <2>1. cuts \in [0 .. count -> 0 .. n]
    BY <1>1, <1>5
  <2>2. 0 * size = 0 /\ 0 \in 0 .. count /\ count \in 0 .. count
    BY <1>4
  <2>3. cuts[0] = 0 /\ cuts[count] = n
    <3>1. cuts[0] = 0
      BY <1>1, <2>2
    <3>2. cuts[count] = n
      BY <1>1, <1>3, <2>2
    <3>. QED BY <3>1, <3>2
  <2>4. ASSUME NEW k \in 1 .. count PROVE cuts[k - 1] < cuts[k]
    <3>1. k * size \in Nat /\ (k - 1) * size \in Nat
      BY <1>5, <1>6
    <3>2. cuts[k - 1] = (k - 1) * size
      BY <1>1, <1>6, <3>1
    <3>3. cuts[k] = IF k * size <= n THEN k * size ELSE n
      BY <1>6
    <3>. HIDE DEF cuts
    <3>. QED BY <1>1, <1>6, <3>1, <3>2, <3>3
  <2>. HIDE DEF cuts
  <2>. QED BY <2>1, <2>3, <2>4 DEF AreCuts
<1>8. Chunks(s, size) = CutAt(s, cuts, count)
  <2>1. ASSUME NEW k \in 1 .. count
        PROVE  SubSeq(s, (k - 1) * size + 1, Min({k * size, n}))
                   = Part(s, cuts[k - 1], cuts[k])
    <3>1. k * size \in Nat /\ (k - 1) * size \in Nat
      BY <1>5, <1>6
    <3>2. cuts[k - 1] = (k - 1) * size
      BY <1>1, <1>6, <3>1
    <3>3. cuts[k] = IF k * size <= n THEN k * size ELSE n
      BY <1>6
    <3>4. Min({k * size, n}) = IF k * size <= n THEN k * size ELSE n
      BY <1>1, <3>1, MinOfTwo
    <3>. QED BY <3>2, <3>3, <3>4 DEF Part
  <2>. QED BY <2>1 DEF Chunks, CutAt, n, count
<1>. QED BY <1>4, <1>7, <1>8 DEF n

(* Each chunk lies between two cuts. *)
LEMMA CutAtIs ==
  ASSUME NEW S, NEW s \in Seq(S), NEW count \in Nat, NEW cuts,
         AreCuts(cuts, count, Len(s))
  PROVE  /\ CutAt(s, cuts, count) \in Seq(Seq(S))
         /\ Len(CutAt(s, cuts, count)) = count
         /\ DOMAIN CutAt(s, cuts, count) = 1 .. count
         /\ \A k \in 1 .. count :
                /\ cuts[k - 1] \in 0 .. Len(s) /\ cuts[k] \in cuts[k - 1] .. Len(s)
                /\ CutAt(s, cuts, count)[k] = Part(s, cuts[k - 1], cuts[k])
                /\ CutAt(s, cuts, count)[k] \in Seq(S)
                /\ Len(CutAt(s, cuts, count)[k]) = cuts[k] - cuts[k - 1]
<1>. DEFINE c == CutAt(s, cuts, count)
<1>1. Len(s) \in Nat
  BY LenProperties
<1>2. ASSUME NEW k \in 1 .. count
      PROVE  /\ cuts[k - 1] \in 0 .. Len(s) /\ cuts[k] \in cuts[k - 1] .. Len(s)
             /\ c[k] = Part(s, cuts[k - 1], cuts[k])
             /\ c[k] \in Seq(S)
             /\ Len(c[k]) = cuts[k] - cuts[k - 1]
  <2>1. k - 1 \in 0 .. count /\ k \in 0 .. count
    OBVIOUS
  <2>2. cuts[k - 1] \in 0 .. Len(s) /\ cuts[k] \in 0 .. Len(s) /\ cuts[k - 1] < cuts[k]
    BY <2>1 DEF AreCuts
  <2>3. cuts[k] \in cuts[k - 1] .. Len(s)
    BY <1>1, <2>2
  <2>4. c[k] = Part(s, cuts[k - 1], cuts[k])
    BY DEF CutAt
  <2>. HIDE DEF c
  <2>5. /\ Part(s, cuts[k - 1], cuts[k]) \in Seq(S)
        /\ Len(Part(s, cuts[k - 1], cuts[k])) = cuts[k] - cuts[k - 1]
    BY ONLY s \in Seq(S), <2>2, <2>3, PartIs, Zenon
  <2>. QED BY <2>2, <2>3, <2>4, <2>5
<1>3. DOMAIN c = 1 .. count /\ c = [k \in 1 .. count |-> c[k]]
  BY DEF CutAt
<1>. HIDE DEF c
<1>4. c \in [1 .. count -> Seq(S)]
  BY <1>2, <1>3
<1>5. c \in Seq(Seq(S))
  BY <1>4, SeqDef
<1>6. Len(c) = count
  BY <1>3, <1>5, LenProperties
<1>. QED BY <1>2, <1>3, <1>5, <1>6 DEF c

(* Put together again, the chunks are the recording. *)
IsFlat(seqs, f) ==
    f = [i \in 1 .. Len(seqs) |-> IF i = 1 THEN seqs[i] ELSE f[i - 1] \o seqs[i]]

(* Joining sequences as a recursion over their number. *)
LEMMA FlattenIs ==
  ASSUME NEW seqs, Len(seqs) # 0
  PROVE  FlattenSeq(seqs) = (CHOOSE f : IsFlat(seqs, f))[Len(seqs)]
BY DEF FlattenSeq, IsFlat

(* Chunks joined again are the recording. *)
LEMMA CutsFlatten ==
  ASSUME NEW S, NEW s \in Seq(S), NEW count \in Nat, NEW cuts,
         AreCuts(cuts, count, Len(s))
  PROVE  FlattenSeq(CutAt(s, cuts, count)) = s
<1>. DEFINE c == CutAt(s, cuts, count)
            first == [k \in 1 .. count |-> Part(s, 0, cuts[k])]
<1>1. Len(s) \in Nat
  BY LenProperties
<1>2. /\ c \in Seq(Seq(S)) /\ Len(c) = count
      /\ \A k \in 1 .. count :
             /\ cuts[k - 1] \in 0 .. Len(s) /\ cuts[k] \in cuts[k - 1] .. Len(s)
             /\ c[k] = Part(s, cuts[k - 1], cuts[k])
  BY CutAtIs
<1>3. cuts[0] = 0 /\ cuts[count] = Len(s)
  BY DEF AreCuts
<1>. HIDE DEF c
<1>4. CASE count = 0
  <2>1. Len(s) = 0
    BY <1>3, <1>4
  <2>2. c = <<>> /\ s = <<>>
    BY <1>2, <1>4, <2>1, EmptySeq
  <2>. QED BY <1>2, <1>4, <2>2 DEF FlattenSeq, c
<1>5. CASE count # 0
  <2>1. \A k \in 2 .. count : Part(s, 0, cuts[k - 1]) \o c[k] = Part(s, 0, cuts[k])
    <3>1. SUFFICES ASSUME NEW k \in 2 .. count
                   PROVE  Part(s, 0, cuts[k - 1]) \o c[k] = Part(s, 0, cuts[k])
      OBVIOUS
    <3>2. /\ cuts[k - 1] \in 0 .. Len(s) /\ cuts[k] \in cuts[k - 1] .. Len(s)
          /\ c[k] = Part(s, cuts[k - 1], cuts[k])
      BY <1>2
    <3>3. 0 \in 0 .. Len(s)
      BY <1>1
    <3>. QED BY <3>2, <3>3, PartsJoin
  <2>2. c[1] = Part(s, 0, cuts[1])
    BY <1>2, <1>3, <1>5
  <2>3. IsFlat(c, first)
    <3>1. ASSUME NEW i \in 1 .. count
          PROVE  first[i] = IF i = 1 THEN c[i] ELSE first[i - 1] \o c[i]
      <4>1. CASE i = 1
        BY <2>2, <4>1
      <4>2. CASE i # 1
        <5>1. i \in 2 .. count /\ i - 1 \in 1 .. count
          BY <4>2
        <5>2. first[i] = Part(s, 0, cuts[i]) /\ first[i - 1] = Part(s, 0, cuts[i - 1])
          BY <5>1
        <5>. QED BY <2>1, <4>2, <5>1, <5>2
      <4>. QED BY <4>1, <4>2
    <3>2. first = [i \in 1 .. count |-> first[i]]
      OBVIOUS
    <3>. HIDE DEF first
    <3>. QED BY <1>2, <3>1, <3>2 DEF IsFlat
  <2>4. PICK f : f = CHOOSE g : IsFlat(c, g)
    OBVIOUS
  <2>5. \A i \in 1 .. count : f[i] = IF i = 1 THEN c[i] ELSE f[i - 1] \o c[i]
    <3>1. IsFlat(c, f)
      BY <2>3, <2>4
    <3>. QED BY <1>2, <3>1 DEF IsFlat
  <2>. DEFINE Bad == {i \in 1 .. count : f[i] # Part(s, 0, cuts[i])}
  <2>6. Bad = {}
    <3>1. SUFFICES ASSUME Bad # {} PROVE FALSE
      OBVIOUS
    <3>2. Bad \subseteq Nat
      OBVIOUS
    <3>3. PICK i \in Bad : \A j \in Bad : i <= j
      BY <3>1, <3>2, LeastExists
    <3>4. i # 1
      BY <2>2, <2>5, <3>3
    <3>5. i \in 2 .. count /\ i - 1 \in 1 .. count /\ ~(i <= i - 1)
      BY <3>3, <3>4
    <3>6. f[i - 1] = Part(s, 0, cuts[i - 1]) /\ f[i] # Part(s, 0, cuts[i])
      BY <3>3, <3>5
    <3>. QED BY <2>1, <2>5, <3>4, <3>5, <3>6
  <2>7. f[count] = Part(s, 0, cuts[count])
    BY <1>5, <2>6
  <2>8. FlattenSeq(c) = f[count]
    BY <1>2, <1>5, <2>4, FlattenIs
  <2>. QED BY <1>3, <2>7, <2>8, PartIsAll DEF c
<1>. QED BY <1>4, <1>5

(* What is left of the chunks of a recording, chunk by chunk. *)
LEMMA UpdateKeepsType ==
  ASSUME NEW S, NEW v \in [drop : Nat, frames : Seq(S)], NEW chunk \in Seq(S)
  PROVE  Update(v, chunk) \in [drop : Nat, frames : Seq(S)]
<1>. DEFINE dropped == Min({v.drop, Len(chunk)})
            rest == Part(chunk, dropped, Len(chunk))
<1>1. Len(chunk) \in Nat /\ v.drop \in Nat /\ v.frames \in Seq(S)
  BY LenProperties
<1>2. dropped \in 0 .. Len(chunk) /\ v.drop - dropped \in Nat
  <2>1. dropped = IF v.drop <= Len(chunk) THEN v.drop ELSE Len(chunk)
    BY <1>1, MinOfTwo
  <2>. HIDE DEF dropped
  <2>. QED BY <1>1, <2>1
<1>. HIDE DEF dropped
<1>3. rest \in Seq(S)
  <2>1. Len(chunk) \in dropped .. Len(chunk)
    BY <1>1, <1>2
  <2>. QED BY <1>2, <2>1, PartIs
<1>4. Update(v, chunk) = [drop |-> v.drop - dropped, frames |-> v.frames \o rest]
  BY DEF Update, Part, dropped
<1>. HIDE DEF rest
<1>5. v.frames \o rest \in Seq(S)
  BY <1>1, <1>3, ConcatProperties
<1>. QED BY <1>2, <1>4, <1>5

SettledStep(chunks, settle, f, s) ==
    IF s = {} THEN Fresh(settle)
    ELSE Update(f[s \ {Max(s)}], chunks[Max(s)])

IsSettledFold(chunks, settle, f) ==
    f = [s \in SUBSET DOMAIN chunks |-> SettledStep(chunks, settle, f, s)]

(* What is kept of the chunks as a recursion over them. *)
LEMMA SettledIs ==
  ASSUME NEW chunks, NEW settle
  PROVE  Settled(chunks, settle) = (CHOOSE f : IsSettledFold(chunks, settle, f))[DOMAIN chunks].frames
BY DEF Settled, FoldLeft, MapThenFoldSet, IsSettledFold, SettledStep

(* It is kept chunk by chunk from the first on. *)
LEMMA SettledHasHistory ==
  ASSUME NEW S, NEW chunks \in Seq(Seq(S)), NEW settle \in Nat
  PROVE  \E h \in [0 .. Len(chunks) -> [drop : Nat, frames : Seq(S)]] :
             /\ h[0] = Fresh(settle)
             /\ \A k \in 1 .. Len(chunks) : h[k] = Update(h[k - 1], chunks[k])
             /\ Settled(chunks, settle) = h[Len(chunks)].frames
<1>. DEFINE n == Len(chunks)
            V == [drop : Nat, frames : Seq(S)]
            base == Fresh(settle)
            step == [k \in 1 .. n |-> [v \in V |-> Update(v, chunks[k])]]
<1>1. n \in Nat /\ DOMAIN chunks = 1 .. n
  BY LenProperties
<1>2. base \in V
  BY EmptySeq DEF Fresh
<1>3. AreSteps(step, n, V)
  <2>1. ASSUME NEW k \in 1 .. n
        PROVE  [v \in V |-> Update(v, chunks[k])] \in [V -> V]
    BY <1>1, ElementOfSeq, UpdateKeepsType
  <2>. QED BY <2>1 DEF AreSteps
<1>4. \A k \in 1 .. n, v \in V : step[k][v] = Update(v, chunks[k])
  OBVIOUS
<1>. HIDE DEF step, V, n, base
<1>5. IsFiniteSet(1 .. n) /\ Picks(Largest(n), 1 .. n)
  BY <1>1, FS_Interval, LargestPicks
<1>6. PICK g : IsFoldOf(g, 1 .. n, V, Largest(n), base, step)
  BY <1>2, <1>3, <1>5, FoldOfExists DEF AreSteps
<1>7. ASSUME NEW s \in SUBSET (1 .. n), s # {}
      PROVE  /\ Largest(n)[s] = Max(s) /\ Max(s) \in 1 .. n
             /\ s \ {Max(s)} \in SUBSET (1 .. n)
  BY <1>5, <1>7, Zenon DEF Largest, Picks
<1>8. IsSettledFold(chunks, settle, g)
  <2>1. ASSUME NEW s \in SUBSET (1 .. n) PROVE g[s] = SettledStep(chunks, settle, g, s)
    <3>1. CASE s = {}
      BY <1>6, <3>1 DEF IsFoldOf, Folded, SettledStep, base
    <3>2. CASE s # {}
      <4>. DEFINE m == Max(s)
      <4>1. Largest(n)[s] = m /\ m \in 1 .. n /\ s \ {m} \in SUBSET (1 .. n)
        BY <1>7, <3>2
      <4>2. g[s \ {m}] \in V /\ g[s] = step[m][g[s \ {m}]]
        BY <1>6, <3>2, <4>1 DEF IsFoldOf, Folded
      <4>. HIDE DEF m
      <4>. QED BY <1>4, <3>2, <4>1, <4>2 DEF SettledStep, m
    <3>. QED BY <3>1, <3>2
  <2>2. g = [s \in SUBSET (1 .. n) |-> g[s]]
    BY <1>6 DEF IsFoldOf
  <2>. QED BY <1>1, <2>1, <2>2 DEF IsSettledFold
<1>9. PICK f : f = CHOOSE i : IsSettledFold(chunks, settle, i)
  OBVIOUS
<1>10. Obeys(f, 1 .. n, V, Largest(n), base, step)
  <2>1. SUFFICES ASSUME NEW s \in SUBSET (1 .. n)
                 PROVE  IF s = {} THEN f[s] = base
                        ELSE f[s \ {Largest(n)[s]}] \in V =>
                             f[s] = step[Largest(n)[s]][f[s \ {Largest(n)[s]}]]
    BY DEF Obeys
  <2>2. f[s] = SettledStep(chunks, settle, f, s)
    <3>1. IsSettledFold(chunks, settle, f)
      BY <1>8, <1>9
    <3>. QED BY <1>1, <3>1 DEF IsSettledFold
  <2>3. CASE s = {}
    BY <2>2, <2>3 DEF SettledStep, base
  <2>4. CASE s # {}
    <3>. DEFINE m == Max(s)
    <3>1. Largest(n)[s] = m /\ m \in 1 .. n /\ s \ {m} \in SUBSET (1 .. n)
      BY <1>7, <2>4
    <3>2. f[s] = Update(f[s \ {m}], chunks[m])
      BY <2>2, <2>4 DEF SettledStep
    <3>. HIDE DEF m
    <3>. QED BY <1>4, <2>4, <3>1, <3>2
  <2>. QED BY <2>3, <2>4
<1>11. PICK h : IsHistory(h, n, V, base, step) /\ f[1 .. n] = h[n]
  BY <1>1, <1>2, <1>3, <1>10, FoldIsHistory
<1>12. ASSUME NEW k \in 1 .. n PROVE h[k] = Update(h[k - 1], chunks[k])
  <2>1. k - 1 \in 0 .. n
    BY <1>1
  <2>2. h[k - 1] \in V /\ h[k] = step[k][h[k - 1]]
    BY <1>11, <2>1 DEF IsHistory
  <2>. QED BY <1>4, <2>2
<1>13. Settled(chunks, settle) = f[1 .. n].frames
  BY <1>1, <1>9, SettledIs
<1>. QED BY <1>11, <1>12, <1>13 DEF IsHistory, n, V, base

(* What holds of no step and of a step after any other holds of the last. *)
LEMMA StepByStep ==
  ASSUME NEW n \in Nat, NEW Good, 0 \in Good,
         \A k \in 1 .. n : k - 1 \in Good => k \in Good
  PROVE  n \in Good
<1>. DEFINE Bad == {k \in 0 .. n : k \notin Good}
<1>1. SUFFICES ASSUME Bad # {} PROVE FALSE
  OBVIOUS
<1>2. Bad \subseteq Nat
  OBVIOUS
<1>3. PICK k \in Bad : \A j \in Bad : k <= j
  BY <1>1, <1>2, LeastExists
<1>4. k \in 1 .. n /\ k - 1 \in 0 .. n /\ ~(k <= k - 1)
  BY <1>3
<1>. QED BY <1>3, <1>4

(* Whatever the chunks, the settling frames are dropped once. *)
Dropped(settle, cut) == IF settle <= cut THEN settle ELSE cut

AfterCut(s, settle, cut) ==
    [drop |-> settle - Dropped(settle, cut), frames |-> Part(s, Dropped(settle, cut), cut)]

(* After any chunk, as many frames are gone of those read as should be, and *)
(* the rest of them is kept.                                                *)
LEMMA UpdateOfCut ==
  ASSUME NEW S, NEW s \in Seq(S), NEW settle \in Nat,
         NEW a \in 0 .. Len(s), NEW b \in a .. Len(s)
  PROVE  Update(AfterCut(s, settle, a), Part(s, a, b)) = AfterCut(s, settle, b)
<1>. DEFINE d == Dropped(settle, a)
            e == Dropped(settle, b)
            chunk == Part(s, a, b)
            acc == AfterCut(s, settle, a)
            dropped == Min({acc.drop, Len(chunk)})
<1>1. Len(s) \in Nat /\ a \in Nat /\ b \in Nat /\ a <= b /\ b <= Len(s)
  BY LenProperties
<1>2. chunk \in Seq(S) /\ Len(chunk) = b - a
  BY PartIs
<1>. HIDE DEF chunk
<1>3. acc.drop = settle - d /\ acc.frames = Part(s, d, a)
  BY DEF AfterCut
<1>4. d \in Nat /\ d <= a /\ d <= settle /\ e \in Nat /\ e <= b /\ settle - d \in Nat
  BY <1>1 DEF Dropped
<1>5. dropped = e - d /\ dropped \in 0 .. b - a
  <2>1. dropped = IF settle - d <= b - a THEN settle - d ELSE b - a
    BY <1>1, <1>2, <1>3, <1>4, MinOfTwo
  <2>. HIDE DEF dropped
  <2>. QED BY <1>1, <2>1 DEF Dropped
<1>6. Update(acc, chunk) =
          [drop |-> acc.drop - dropped, frames |-> acc.frames \o Part(chunk, dropped, Len(chunk))]
  BY DEF Update, Part
<1>7. Part(chunk, dropped, Len(chunk)) = Part(s, a + dropped, a + (b - a))
  <2>1. b - a \in dropped .. b - a
    BY <1>1, <1>5
  <2>. QED BY <1>2, <1>5, <2>1, PartOfPart DEF chunk
<1>. HIDE DEF dropped, acc, d, e
<1>8. a + (b - a) = b /\ acc.drop - dropped = settle - e
  BY <1>1, <1>3, <1>4, <1>5
<1>9. acc.frames \o Part(s, a + dropped, b) = Part(s, e, b)
  <2>1. CASE settle <= a
    <3>1. d = settle /\ e = settle
      BY <1>1, <2>1 DEF Dropped, d, e
    <3>2. a + dropped = a
      BY <1>1, <1>5, <3>1
    <3>3. d \in 0 .. Len(s) /\ a \in d .. Len(s)
      BY <1>1, <1>4
    <3>. QED BY <1>3, <3>1, <3>2, <3>3, PartsJoin
  <2>2. CASE ~(settle <= a)
    <3>1. d = a
      BY <2>2 DEF Dropped, d
    <3>2. a + dropped = e
      BY <1>1, <1>4, <1>5, <3>1
    <3>3. Part(s, d, a) = <<>>
      BY <1>1, <3>1, PartIsNone
    <3>4. e \in 0 .. Len(s) /\ b \in e .. Len(s)
      BY <1>1, <1>4
    <3>5. Part(s, e, b) \in Seq(S)
      BY <3>4, PartIs
    <3>. QED BY <1>3, <3>2, <3>3, <3>5, ConcatEmptySeq
  <2>. QED BY <2>1, <2>2
<1>. QED BY <1>6, <1>7, <1>8, <1>9 DEF AfterCut, acc, chunk, e

(* What is kept of all chunks is the recording less its first frames. *)
LEMMA SettledIsRest ==
  ASSUME NEW S, NEW s \in Seq(S), NEW settle \in Nat, NEW count \in Nat, NEW cuts,
         AreCuts(cuts, count, Len(s))
  PROVE  Settled(CutAt(s, cuts, count), settle) = Part(s, settle, Len(s))
<1>. DEFINE c == CutAt(s, cuts, count)
<1>1. Len(s) \in Nat
  BY LenProperties
<1>2. /\ c \in Seq(Seq(S)) /\ Len(c) = count
      /\ \A k \in 1 .. count :
             /\ cuts[k - 1] \in 0 .. Len(s) /\ cuts[k] \in cuts[k - 1] .. Len(s)
             /\ c[k] = Part(s, cuts[k - 1], cuts[k])
  BY CutAtIs
<1>3. cuts[0] = 0 /\ cuts[count] = Len(s)
  BY DEF AreCuts
<1>. HIDE DEF c
<1>4. PICK h \in [0 .. count -> [drop : Nat, frames : Seq(S)]] :
          /\ h[0] = Fresh(settle)
          /\ \A k \in 1 .. count : h[k] = Update(h[k - 1], c[k])
          /\ Settled(c, settle) = h[count].frames
  <2>1. c \in Seq(Seq(S))
    BY <1>2
  <2>2. \E h \in [0 .. Len(c) -> [drop : Nat, frames : Seq(S)]] :
            /\ h[0] = Fresh(settle)
            /\ \A k \in 1 .. Len(c) : h[k] = Update(h[k - 1], c[k])
            /\ Settled(c, settle) = h[Len(c)].frames
    BY <2>1, SettledHasHistory
  <2>. QED BY <1>2, <2>2
<1>. DEFINE Good == {k \in 0 .. count : h[k] = AfterCut(s, settle, cuts[k])}
<1>5. 0 \in Good
  <2>1. Dropped(settle, 0) = 0
    BY DEF Dropped
  <2>2. Part(s, 0, 0) = <<>>
    BY PartIsNone
  <2>. QED BY <1>3, <1>4, <2>1, <2>2 DEF Fresh, AfterCut
<1>6. ASSUME NEW k \in 1 .. count, k - 1 \in Good PROVE k \in Good
  <2>1. h[k - 1] = AfterCut(s, settle, cuts[k - 1])
    BY <1>6
  <2>2. Update(AfterCut(s, settle, cuts[k - 1]), c[k]) = AfterCut(s, settle, cuts[k])
    BY <1>2, UpdateOfCut
  <2>. QED BY <1>4, <2>1, <2>2
<1>. HIDE DEF Good
<1>7. count \in Good
  BY <1>5, <1>6, StepByStep
<1>8. Settled(c, settle) = Part(s, Dropped(settle, Len(s)), Len(s))
  BY <1>3, <1>4, <1>7 DEF Good, AfterCut
<1>9. Part(s, Dropped(settle, Len(s)), Len(s)) = Part(s, settle, Len(s))
  <2>1. CASE settle <= Len(s)
    BY <2>1 DEF Dropped
  <2>2. CASE ~(settle <= Len(s))
    BY <1>1, <2>2, PartIsNone DEF Dropped
  <2>. QED BY <2>1, <2>2
<1>. QED BY <1>8, <1>9 DEF c

(* Sums over any finite set, as every module writes them. *)
Total(f, S) == (CHOOSE g : IsSumFold(f, S, g))[S]

(* The library's sum over a function is a total. *)
LEMMA SumsAreTotals ==
  ASSUME NEW f
  PROVE  SumFunction(f) = Total(f, DOMAIN f)
BY DEF SumFunction, SumFunctionOnSet, FoldFunctionOnSet, MapThenFoldSet, IsSumFold,
       SumStep, Total

(* A total of integers is one. *)
LEMMA TotalIsInt ==
  ASSUME NEW S, IsFiniteSet(S), NEW f, IntsOn(f, S)
  PROVE  Total(f, S) \in Int
<1>1. PICK g : g = CHOOSE i : IsSumFold(f, S, i)
  OBVIOUS
<1>2. IsSum(f, S, g)
  BY <1>1, SumFoldIsSum
<1>3. S \in SUBSET S
  OBVIOUS
<1>. QED BY <1>1, <1>2, <1>3 DEF IsSum, IsFoldOf, Total

(* The strongest bin is one that is not excluded, if there is one. *)
LEMMA SelectedIsAllowed ==
  ASSUME NEW bins \in Nat, NEW frames \in Seq([0 .. bins - 1 -> Int]), NEW excluded,
         (0 .. bins - 1) \ excluded # {}
  PROVE  SelectBin(frames, bins, excluded) \in (0 .. bins - 1) \ excluded
<1>. DEFINE allowed == (0 .. bins - 1) \ excluded
            with == [b \in 0 .. bins - 1 |-> SumFunction(PowersAt(frames, b))]
            best == {b \in allowed : \A c \in allowed : with[b] >= with[c]}
<1>1. with \in [0 .. bins - 1 -> Int]
  <2>1. ASSUME NEW b \in 0 .. bins - 1
        PROVE  SumFunction(PowersAt(frames, b)) \in Int
    <3>. DEFINE p == PowersAt(frames, b)
    <3>1. Len(frames) \in Nat /\ DOMAIN frames = 1 .. Len(frames)
      BY LenProperties
    <3>2. \A k \in 1 .. Len(frames) : frames[k] \in [0 .. bins - 1 -> Int]
      BY ElementOfSeq
    <3>3. DOMAIN p = 1 .. Len(frames) /\ IntsOn(p, 1 .. Len(frames))
      BY <3>1, <3>2 DEF PowersAt, IntsOn
    <3>. HIDE DEF p
    <3>4. IsFiniteSet(1 .. Len(frames))
      BY <3>1, FS_Interval
    <3>5. Total(p, 1 .. Len(frames)) \in Int
      BY <3>3, <3>4, TotalIsInt
    <3>6. SumFunction(p) = Total(p, 1 .. Len(frames))
      BY <3>3, SumsAreTotals
    <3>. QED BY <3>5, <3>6 DEF p
  <2>. QED BY <2>1
<1>2. /\ IsFiniteSet(allowed) /\ allowed \subseteq 0 .. bins - 1
      /\ allowed # {} /\ allowed \subseteq Nat
  <2>1. 0 \in Int /\ bins - 1 \in Int
    OBVIOUS
  <2>2. IsFiniteSet(0 .. bins - 1)
    BY <2>1, FS_Interval
  <2>. QED BY <2>2, FS_Subset
<1>3. SelectBin(frames, bins, excluded) = Min(best)
  <2>1. \A b \in allowed : with[b] = SumFunction(PowersAt(frames, b))
    BY <1>2
  <2>2. best = {b \in allowed : \A c \in allowed :
                   SumFunction(PowersAt(frames, b))
                       >= SumFunction(PowersAt(frames, c))}
    BY <2>1
  <2>. QED BY <2>2, Zenon DEF SelectBin
<1>. HIDE DEF with, allowed
<1>4. Highest(allowed, with)
  BY <1>1, <1>2, HighestExists
<1>5. best # {} /\ best \subseteq Nat
  BY <1>2, <1>4 DEF Highest
<1>6. PICK m \in best : \A b \in best : m <= b
  BY <1>5, LeastExists
<1>7. Min(best) \in best
  BY <1>5, <1>6 DEF Min
<1>. QED BY <1>3, <1>7 DEF allowed

MeasuredOf(kept, bins, excluded) ==
    IF kept = <<>> THEN NoFrames
    ELSE [failed |-> FALSE, bin |-> SelectBin(kept, bins, excluded),
          stats |-> BinStats(kept, SelectBin(kept, bins, excluded))]

(* A measurement is one of the recording less its first frames, in whatever *)
(* chunks it was read.                                                      *)
LEMMA MeasureIs ==
  ASSUME NEW S, NEW frames \in Seq(S), NEW bins, NEW size \in Nat \ {0},
         NEW settle \in Nat, NEW excluded
  PROVE  Measure(frames, bins, size, settle, excluded) =
             MeasuredOf(Part(frames, settle, Len(frames)), bins, excluded)
<1>1. PICK count \in Nat : \E cuts : /\ AreCuts(cuts, count, Len(frames))
                                     /\ Chunks(frames, size) = CutAt(frames, cuts, count)
  BY ChunksAreCut
<1>2. PICK cuts : /\ AreCuts(cuts, count, Len(frames))
                  /\ Chunks(frames, size) = CutAt(frames, cuts, count)
  BY <1>1
<1>3. Settled(Chunks(frames, size), settle) = Part(frames, settle, Len(frames))
  BY <1>2, SettledIsRest
<1>. QED BY <1>3, Zenon DEF Measure, MeasuredOf

(* The result of the attenuator sweep. *)
LEMMA LevelIsOfAll ==
  ASSUME NEW x \in Recordings, NEW excluded,
         excluded = ExcludedBins(x.bins, x.dc, x.edge)
  PROVE  LET level == Measure(x.frames, x.bins, x.chunk, x.settle, excluded)
         IN  /\ Len(x.frames) > 0 =>
                    level = Measure(x.frames, x.bins, Len(x.frames), x.settle, excluded)
             /\ level.failed <=> Len(x.frames) <= x.settle
             /\ ~level.failed => level.bin \notin excluded
<1>. DEFINE n == Len(x.frames)
            level == Measure(x.frames, x.bins, x.chunk, x.settle, excluded)
            kept == Part(x.frames, x.settle, n)
            S == [0 .. x.bins - 1 -> Int]
<1>1. /\ x.frames \in Seq(S) /\ x.chunk \in Nat \ {0} /\ x.settle \in Nat /\ x.bins \in Nat
      /\ (0 .. x.bins - 1) \ excluded # {}
  BY InputsAssumption DEF InputsAssumption
<1>. HIDE DEF S
<1>2. n \in Nat
  BY <1>1, LenProperties
<1>3. level = MeasuredOf(kept, x.bins, excluded)
  BY <1>1, MeasureIs
<1>4. ASSUME n > 0
      PROVE  level = Measure(x.frames, x.bins, n, x.settle, excluded)
  <2>1. n \in Nat \ {0}
    BY <1>2, <1>4
  <2>. QED BY <1>1, <1>3, <2>1, MeasureIs
<1>5. kept = <<>> <=> n <= x.settle
  <2>1. CASE n <= x.settle
    BY <1>1, <1>2, <2>1, PartIsNone
  <2>2. CASE ~(n <= x.settle)
    <3>1. x.settle \in 0 .. n /\ n \in x.settle .. n
      BY <1>1, <1>2, <2>2
    <3>2. Len(kept) = n - x.settle
      <4>1. \A a \in 0 .. n : \A b \in a .. n : Len(Part(x.frames, a, b)) = b - a
        BY <1>1, PartIs
      <4>. QED BY ONLY <3>1, <4>1, Zenon
    <3>3. Len(kept) # 0
      BY <1>1, <1>2, <2>2, <3>2
    <3>. QED BY <2>2, <3>3, EmptySeq
  <2>. QED BY <2>1, <2>2
<1>6. ASSUME ~(n <= x.settle)
      PROVE  SelectBin(kept, x.bins, excluded) \notin excluded
  <2>1. x.settle \in 0 .. n /\ n \in x.settle .. n
    BY <1>1, <1>2, <1>6
  <2>2. kept \in Seq(S)
    BY <1>1, <2>1, PartIs
  <2>3. kept \in Seq([0 .. x.bins - 1 -> Int])
    BY <2>2 DEF S
  <2>. HIDE DEF kept
  <2>. QED BY <1>1, <2>3, SelectedIsAllowed
<1>. HIDE DEF kept, n
<1>7. level.failed <=> kept = <<>>
  BY <1>3 DEF MeasuredOf, NoFrames
<1>8. kept # <<>> => level.bin = SelectBin(kept, x.bins, excluded)
  BY <1>3 DEF MeasuredOf
<1>. HIDE DEF level
<1>. QED BY <1>4, <1>5, <1>6, <1>7, <1>8 DEF level, n

(* The frames of the survey. *)
LEMMA FramesAreCounted ==
  ASSUME NEW samples \in Nat, NEW size \in Nat \ {0}, NEW hop \in Nat \ {0}
  PROVE  /\ FrameCount(samples, size, hop) \in Nat
         /\ FrameCount(samples, size, hop) > 0 =>
                \E r \in 0 .. hop - 1 :
                    /\ samples - size \in Nat
                    /\ samples - size =
                           (FrameCount(samples, size, hop) - 1) * hop + r
<1>. DEFINE n == FrameCount(samples, size, hop)
            q == (samples - size) \div hop
            r == (samples - size) % hop
<1>1. CASE samples < size
  BY <1>1 DEF FrameCount
<1>2. CASE ~(samples < size)
  <2>1. n = q + 1
    BY <1>2 DEF FrameCount
  <2>2. samples - size \in Nat
    BY <1>2
  <2>3. q \in Int /\ r \in 0 .. hop - 1 /\ samples - size = q * hop + r
    <3>1. \A a \in Int : a \div hop \in Int /\ a % hop \in 0 .. hop - 1
                         /\ a = (a \div hop) * hop + (a % hop)
      BY DivMod
    <3>2. samples - size \in Int
      BY <2>2
    <3>. QED BY ONLY <3>1, <3>2, Zenon
  <2>. HIDE DEF q, r, n
  <2>4. q >= 0
    <3>1. SUFFICES ASSUME q < 0 PROVE FALSE
      BY <2>3
    <3>2. q * hop + hop <= 0 * hop
      BY <2>3, <3>1, StepsApart
    <3>3. q * hop \in Int /\ 0 * hop = 0
      BY <2>3
    <3>. QED BY <2>2, <2>3, <3>2, <3>3
  <2>5. n \in Nat /\ n - 1 = q
    BY <2>1, <2>3, <2>4
  <2>. QED BY <2>2, <2>3, <2>5 DEF n
<1>. QED BY <1>1, <1>2

(* Each frame once and in order, in whatever chunks. *)
StartsOf(samples, size, hop) ==
    [k \in 1 .. FrameCount(samples, size, hop) |-> (k - 1) * hop]
(* The survey begins a frame at every hop there is room for, and at no other*)
(* place.                                                                   *)
LEMMA FramesOnce ==
  ASSUME NEW samples \in Nat, NEW size \in Nat \ {0}, NEW hop \in Nat \ {0},
         NEW chunk \in Nat \ {0}
  PROVE  Analysed(samples, size, hop, chunk) = StartsOf(samples, size, hop)
<1>. DEFINE n == FrameCount(samples, size, hop)
            starts == [k \in 1 .. n |-> (k - 1) * hop]
<1>1. n \in Nat
  BY FramesAreCounted
<1>. HIDE DEF n
<1>2. starts \in Seq(Int)
  <2>1. starts \in [1 .. n -> Int]
    OBVIOUS
  <2>. QED BY <1>1, <2>1, SeqDef
<1>3. Analysed(samples, size, hop, chunk)
          = FlattenSeq(Chunks(starts, chunk))
  BY DEF Analysed, FrameStart, n
<1>. HIDE DEF starts
<1>4. PICK count \in Nat : \E cuts : /\ AreCuts(cuts, count, Len(starts))
                                     /\ Chunks(starts, chunk) = CutAt(starts, cuts, count)
  BY <1>2, ChunksAreCut
<1>5. PICK cuts : /\ AreCuts(cuts, count, Len(starts))
                  /\ Chunks(starts, chunk) = CutAt(starts, cuts, count)
  BY <1>4
<1>6. FlattenSeq(CutAt(starts, cuts, count)) = starts
  BY <1>2, <1>5, CutsFlatten
<1>. QED BY <1>3, <1>5, <1>6 DEF StartsOf, starts, n

RowsOf(samples, size, hop, most) == Waterfall(samples, size, hop, most)

(* The rows of a waterfall are no more than asked for, lie in the recording,*)
(* and the last one is within a stride of its end when that divides the     *)
(* frames.                                                                  *)
LEMMA RowsAreEven ==
  ASSUME NEW samples \in Nat, NEW size \in Nat \ {0}, NEW hop \in Nat \ {0},
         NEW most \in Nat \ {0}
  PROVE  LET n      == FrameCount(samples, size, hop)
             stride == Stride(n, most)
             rows   == RowsOf(samples, size, hop, most)
         IN  /\ Len(rows) \in Nat /\ Len(rows) <= most
             /\ \A k \in 1 .. Len(rows) : rows[k] + size <= samples
             /\ n % most = 0 /\ n > 0 =>
                    samples - (rows[Len(rows)] + size) < stride * hop
<1>. DEFINE n       == FrameCount(samples, size, hop)
            stride  == Stride(n, most)
            step    == hop * stride
            strided == IF n = 0 THEN 0 ELSE (samples - size) \div step + 1
            count   == Min({strided, n, most})
            rows    == RowsOf(samples, size, hop, most)
            d       == samples - size
<1>1. n \in Nat
  BY FramesAreCounted
<1>2. n > 0 => \E r \in 0 .. hop - 1 : d \in Nat /\ d = (n - 1) * hop + r
  BY FramesAreCounted
<1>3. rows = [k \in 1 .. count |-> (k - 1) * step]
  BY DEF RowsOf, Waterfall, FrameStart
<1>. HIDE DEF n
<1>4. n \div most \in Int /\ n % most \in 0 .. most - 1 /\ n = (n \div most) * most + (n % most)
  BY <1>1, DivMod
<1>5. stride = IF 1 >= n \div most THEN 1 ELSE n \div most
  BY <1>4, MaxOfTwo DEF Stride
<1>6. stride \in Nat \ {0}
  BY <1>4, <1>5
<1>. HIDE DEF stride
<1>7. step \in Nat \ {0}
  BY <1>6
<1>8. ASSUME n > 0
      PROVE  \E r \in 0 .. step - 1 : d = (strided - 1) * step + r /\ strided \in Nat \ {0}
  <2>1. d \in Nat
    BY <1>2, <1>8
  <2>. DEFINE q == d \div step
              r == d % step
  <2>2. strided = q + 1
    BY <1>1, <1>8
  <2>. HIDE DEF d, step
  <2>3. q \in Int /\ r \in 0 .. step - 1 /\ d = q * step + r
    <3>1. d \in Int
      BY <2>1
    <3>. QED BY <1>7, <3>1, DivMod
  <2>. HIDE DEF q, r, strided
  <2>4. q >= 0
    <3>1. SUFFICES ASSUME q < 0 PROVE FALSE
      BY <2>3
    <3>2. q * step + step <= 0 * step
      BY <1>7, <2>3, <3>1, StepsApart
    <3>3. q * step \in Int /\ 0 * step = 0
      BY <1>7, <2>3
    <3>. QED BY <1>7, <2>1, <2>3, <3>2, <3>3
  <2>5. strided \in Nat \ {0} /\ strided - 1 = q
    BY <2>2, <2>3, <2>4
  <2>. QED BY <2>3, <2>5
<1>9. strided \in Nat
  <2>1. CASE n = 0
    BY <2>1
  <2>2. CASE n # 0
    BY <1>1, <1>8, <2>2
  <2>. QED BY <2>1, <2>2
<1>. HIDE DEF strided
<1>10. count \in Nat /\ count <= strided /\ count <= n /\ count <= most
       /\ count \in {strided, n, most}
  <2>. DEFINE three == {strided, n, most}
  <2>1. three \subseteq Nat /\ three # {}
    BY <1>1, <1>9
  <2>. HIDE DEF three
  <2>2. PICK m \in three : \A x \in three : m <= x
    BY <2>1, LeastExists
  <2>3. Min(three) \in three /\ \A x \in three : Min(three) <= x
    BY <2>2 DEF Min
  <2>. QED BY <1>1, <1>9, <2>3 DEF three
<1>. HIDE DEF count, step, rows, d
<1>11. Len(rows) = count /\ \A k \in 1 .. count : rows[k] = (k - 1) * step
  <2>1. rows \in [1 .. count -> Int] /\ DOMAIN rows = 1 .. count
    BY <1>3, <1>7
  <2>2. rows \in Seq(Int)
    BY <1>10, <2>1, SeqDef
  <2>. QED BY <1>3, <1>10, <2>1, <2>2, LenProperties
<1>12. ASSUME NEW k \in 1 .. count PROVE rows[k] + size <= samples
  <2>1. n > 0 /\ k - 1 <= strided - 1
    BY <1>1, <1>9, <1>10
  <2>2. PICK r \in 0 .. step - 1 : d = (strided - 1) * step + r
    BY <1>8, <2>1
  <2>3. (k - 1) * step <= (strided - 1) * step
    BY <1>7, <1>9, <2>1, StepsOrdered
  <2>4. (k - 1) * step \in Int /\ (strided - 1) * step \in Int
    BY <1>7, <1>9
  <2>5. rows[k] <= d
    BY <1>7, <1>11, <2>2, <2>3, <2>4
  <2>. QED BY <1>11, <2>4, <2>5 DEF d
<1>13. ASSUME n % most = 0, n > 0
       PROVE  samples - (rows[Len(rows)] + size) < stride * hop
  <2>. DEFINE q == n \div most
  <2>1. q \in Int /\ n = q * most
    BY <1>4, <1>13
  <2>. HIDE DEF q
  <2>2. q >= 1
    <3>1. SUFFICES ASSUME q <= 0 PROVE FALSE
      BY <2>1
    <3>2. q * most <= 0 * most
      BY <2>1, <3>1, StepsOrdered
    <3>. QED BY <1>13, <2>1, <3>2
  <2>3. stride = q
    BY <1>5, <2>1, <2>2 DEF q
  <2>4. PICK r \in 0 .. hop - 1 : d \in Nat /\ d = (n - 1) * hop + r
    BY <1>2, <1>13
  <2>5. PICK t \in 0 .. step - 1 : d = (strided - 1) * step + t /\ strided \in Nat \ {0}
    BY <1>8, <1>13
  <2>6. most * step = n * hop
    <3>1. most * (hop * q) = (q * most) * hop
      BY <2>1
    <3>. QED BY <2>1, <2>3, <3>1 DEF step
  <2>7. d < n * hop /\ d >= n * hop - step
    <3>1. (n - 1) * hop + hop = n * hop /\ (n - 1) * hop \in Int
      BY <1>1
    <3>2. hop <= step
      <4>1. hop * 1 <= hop * q
        BY <2>1, <2>2
      <4>. QED BY <2>3, <4>1 DEF step
    <3>. QED BY <1>7, <2>4, <3>1, <3>2
  <2>8. strided = most
    <3>1. strided * step \in Int /\ most * step \in Int
          /\ (strided - 1) * step + step = strided * step
          /\ (most - 1) * step + step = most * step
          /\ (strided - 1) * step \in Int /\ (most - 1) * step \in Int /\ d \in Nat
      BY <1>7, <1>9, <2>4
    <3>2. (strided - 1) * step <= d /\ d < strided * step
      BY <1>7, <2>5, <3>1
    <3>3. d < most * step /\ d >= most * step - step
      BY <2>6, <2>7
    <3>4. (strided - 1) * step < most * step /\ (most - 1) * step < strided * step
      BY ONLY <1>7, <3>1, <3>2, <3>3
    <3>5. strided - 1 < most /\ most - 1 < strided
      BY <1>7, <1>9, <3>4, StepsOrdered
    <3>. QED BY <1>9, <3>5
  <2>9. most <= n
    <3>1. 1 * most <= q * most
      BY <2>1, <2>2, StepsOrdered
    <3>. QED BY <2>1, <3>1
  <2>10. count = most
    BY <1>10, <2>8, <2>9
  <2>11. rows[Len(rows)] = (strided - 1) * step
    BY <1>11, <2>8, <2>10
  <2>12. d - rows[Len(rows)] < step /\ rows[Len(rows)] \in Int
    BY <1>7, <1>9, <2>5, <2>11
  <2>13. step = stride * hop
    BY <1>6 DEF step
  <2>. QED BY <2>12, <2>13 DEF d
<1>. QED BY <1>10, <1>11, <1>12, <1>13 DEF n, stride, rows

(* A sum is that of any one of its terms and the others. *)
LEMMA SumUnfolds ==
  ASSUME NEW S, NEW f, IntsOn(f, S), NEW g, IsSum(f, S, g)
  PROVE  /\ g[{}] = 0
         /\ \A s \in SUBSET S :
                /\ g[s] \in Int
                /\ s # {} => /\ (CHOOSE x \in s : TRUE) \in s
                             /\ g[s] = f[CHOOSE x \in s : TRUE]
                                           + g[s \ {CHOOSE x \in s : TRUE}]
<1>1. /\ g \in [SUBSET S -> Int]
      /\ \A s \in SUBSET S : g[s] = Folded(g, Some(S), 0, Adds(f, S), s)
  BY DEF IsSum, IsFoldOf
<1>2. g[{}] = 0
  <2>1. {} \in SUBSET S
    OBVIOUS
  <2>. QED BY <1>1, <2>1 DEF Folded
<1>3. ASSUME NEW s \in SUBSET S, s # {}
      PROVE  /\ (CHOOSE x \in s : TRUE) \in s
             /\ g[s] = f[CHOOSE x \in s : TRUE] + g[s \ {CHOOSE x \in s : TRUE}]
  <2>. DEFINE c == CHOOSE x \in s : TRUE
  <2>1. c \in s /\ Some(S)[s] = c
    BY <1>3 DEF Some
  <2>. HIDE DEF c
  <2>2. c \in S /\ s \ {c} \in SUBSET S
    BY <2>1
  <2>3. g[s \ {c}] \in Int
    BY <1>1, <2>2
  <2>4. g[s] = Adds(f, S)[c][g[s \ {c}]]
    BY <1>1, <1>3, <2>1 DEF Folded
  <2>5. Adds(f, S)[c][g[s \ {c}]] = f[c] + g[s \ {c}]
    BY <2>2, <2>3, AddsTypes
  <2>. QED BY <2>1, <2>4, <2>5 DEF c
<1>. QED BY <1>1, <1>2, <1>3

(* Any element can be the first to be taken out of a sum. *)
LEMMA SumOfOneAndRest ==
  ASSUME NEW S, IsFiniteSet(S), NEW f, IntsOn(f, S), NEW g, IsSum(f, S, g),
         NEW s \in SUBSET S, NEW x \in s
  PROVE  g[s] = f[x] + g[s \ {x}]
<1>. DEFINE Bad == {t \in SUBSET S : \E y \in t : g[t] # f[y] + g[t \ {y}]}
            Sizes == {Cardinality(t) : t \in Bad}
<1>1. SUFFICES ASSUME Bad # {} PROVE FALSE
  OBVIOUS
<1>2. \A t \in SUBSET S : IsFiniteSet(t) /\ Cardinality(t) \in Nat
  BY FS_Subset, FS_CardinalityType
<1>3. Sizes \subseteq Nat /\ Sizes # {}
  BY <1>1, <1>2
<1>4. PICK n \in Sizes : \A m \in Sizes : n <= m
  BY <1>3, LeastExists
<1>5. PICK t \in Bad : n = Cardinality(t)
  OBVIOUS
<1>6. PICK y \in t : g[t] # f[y] + g[t \ {y}]
  OBVIOUS
<1>7. \A u \in SUBSET S : \A z \in u :
          Cardinality(u) < Cardinality(t) => g[u] = f[z] + g[u \ {z}]
  <2>1. SUFFICES ASSUME NEW u \in SUBSET S, NEW z \in u, Cardinality(u) < Cardinality(t),
                        u \in Bad
                 PROVE  FALSE
    OBVIOUS
  <2>2. n <= Cardinality(u)
    BY <1>4, <2>1
  <2>. QED BY <1>2, <1>5, <2>1, <2>2
<1>. DEFINE c == CHOOSE z \in t : TRUE
<1>8. c \in t /\ g[t] = f[c] + g[t \ {c}]
  BY <1>6, SumUnfolds
<1>. HIDE DEF c, Sizes, Bad
<1>9. t \in SUBSET S /\ y # c
  BY <1>5, <1>6, <1>8 DEF Bad
<1>10. /\ Cardinality(t \ {c}) = Cardinality(t) - 1
       /\ Cardinality(t \ {y}) = Cardinality(t) - 1
  BY <1>2, <1>8, <1>9, FS_RemoveElement
<1>11. Cardinality(t \ {c}) < Cardinality(t) /\ Cardinality(t \ {y}) < Cardinality(t)
  BY <1>2, <1>9, <1>10
<1>12. g[t \ {c}] = f[y] + g[(t \ {c}) \ {y}] /\ g[t \ {y}] = f[c] + g[(t \ {y}) \ {c}]
  <2>1. t \ {c} \in SUBSET S /\ y \in t \ {c} /\ t \ {y} \in SUBSET S /\ c \in t \ {y}
    BY <1>8, <1>9
  <2>. QED BY <1>7, <1>11, <2>1
<1>13. (t \ {c}) \ {y} = (t \ {y}) \ {c}
  OBVIOUS
<1>14. f[c] \in Int /\ f[y] \in Int /\ g[(t \ {y}) \ {c}] \in Int
  <2>1. c \in S /\ y \in S /\ (t \ {y}) \ {c} \in SUBSET S
    BY <1>8, <1>9
  <2>. QED BY <2>1, SumUnfolds DEF IntsOn
<1>15. PICK i \in Int : i = g[(t \ {y}) \ {c}]
  BY <1>14
<1>16. g[t] = f[c] + (f[y] + i) /\ g[t \ {y}] = f[c] + i
  BY <1>8, <1>12, <1>13, <1>15
<1>17. f[c] + (f[y] + i) = f[y] + (f[c] + i)
  BY <1>14
<1>. QED BY <1>6, <1>16, <1>17

(* The sum of the same terms is the same. *)
SameTerms(f, g, S) == \A x \in S : f[x] = g[x]

(* Sums of the same terms are the same. *)
LEMMA SumsAgree ==
  ASSUME NEW S, NEW T, IsFiniteSet(S), IsFiniteSet(T), T \subseteq S,
         NEW f, IntsOn(f, S), NEW e, IntsOn(e, T), SameTerms(f, e, T),
         NEW g, IsSum(f, S, g), NEW h, IsSum(e, T, h)
  PROVE  g[T] = h[T]
<1>1. Obeys(g, T, Int, Some(T), 0, Adds(e, T))
  <2>1. SUFFICES ASSUME NEW s \in SUBSET T
                 PROVE  IF s = {} THEN g[s] = 0
                        ELSE g[s \ {Some(T)[s]}] \in Int =>
                             g[s] = Adds(e, T)[Some(T)[s]][g[s \ {Some(T)[s]}]]
    BY DEF Obeys
  <2>2. CASE s = {}
    BY <2>2, SumUnfolds
  <2>3. CASE s # {}
    <3>. DEFINE c == CHOOSE x \in s : TRUE
    <3>1. s \in SUBSET S
      OBVIOUS
    <3>2. c \in s /\ g[s] = f[c] + g[s \ {c}]
      BY <2>3, <3>1, SumUnfolds
    <3>3. Some(T)[s] = c
      BY DEF Some
    <3>. HIDE DEF c
    <3>4. c \in T /\ f[c] = e[c]
      BY <3>2 DEF SameTerms
    <3>5. g[s \ {c}] \in Int => Adds(e, T)[c][g[s \ {c}]] = e[c] + g[s \ {c}]
      BY <3>4, AddsTypes
    <3>. QED BY <2>3, <3>2, <3>3, <3>4, <3>5
  <2>. QED BY <2>2, <2>3
<1>2. IsFoldOf(h, T, Int, Some(T), 0, Adds(e, T))
  BY DEF IsSum
<1>3. SameOn(g, h, T)
  BY <1>1, <1>2, SomePicks, FoldOfIsOne
<1>4. T \in SUBSET T
  OBVIOUS
<1>. QED BY <1>3, <1>4 DEF SameOn

(* A total is the value of a sum on the whole set. *)
LEMMA TotalIsSum ==
  ASSUME NEW S, IsFiniteSet(S), NEW f, IntsOn(f, S)
  PROVE  \E g : IsSum(f, S, g) /\ Total(f, S) = g[S]
<1>1. PICK g : g = CHOOSE i : IsSumFold(f, S, i)
  OBVIOUS
<1>2. IsSum(f, S, g)
  BY <1>1, SumFoldIsSum
<1>. QED BY <1>1, <1>2 DEF Total

(* No terms are nothing. *)
LEMMA TotalOfNone ==
  ASSUME NEW f
  PROVE  Total(f, {}) = 0
<1>1. IsFiniteSet({}) /\ IntsOn(f, {})
  BY FS_EmptySet DEF IntsOn
<1>2. PICK g : IsSum(f, {}, g) /\ Total(f, {}) = g[{}]
  BY <1>1, TotalIsSum
<1>. QED BY <1>1, <1>2, SumUnfolds

(* Totals of the same terms are the same. *)
LEMMA TotalIsSame ==
  ASSUME NEW S, IsFiniteSet(S), NEW f, IntsOn(f, S), NEW e, SameTerms(f, e, S)
  PROVE  Total(f, S) = Total(e, S)
<1>1. IntsOn(e, S)
  BY DEF IntsOn, SameTerms
<1>2. PICK g : IsSum(f, S, g) /\ Total(f, S) = g[S]
  BY TotalIsSum
<1>3. PICK h : IsSum(e, S, h) /\ Total(e, S) = h[S]
  BY <1>1, TotalIsSum
<1>4. S \subseteq S
  OBVIOUS
<1>5. g[S] = h[S]
  BY <1>1, <1>2, <1>3, <1>4, SumsAgree
<1>. QED BY <1>2, <1>3, <1>5

(* A total is any one term and the total of the rest. *)
LEMMA TotalOfOneAndRest ==
  ASSUME NEW S, IsFiniteSet(S), NEW f, IntsOn(f, S), NEW x \in S
  PROVE  /\ Total(f, S) = f[x] + Total(f, S \ {x})
         /\ Total(f, S \ {x}) \in Int /\ f[x] \in Int
<1>. DEFINE T == S \ {x}
<1>1. IsFiniteSet(T) /\ IntsOn(f, T) /\ T \subseteq S /\ SameTerms(f, f, T)
  BY FS_Subset DEF IntsOn, SameTerms
<1>2. PICK g : IsSum(f, S, g) /\ Total(f, S) = g[S]
  BY TotalIsSum
<1>3. PICK h : IsSum(f, T, h) /\ Total(f, T) = h[T]
  BY <1>1, TotalIsSum
<1>4. g[T] = h[T]
  BY <1>1, <1>2, <1>3, SumsAgree
<1>5. S \in SUBSET S
  OBVIOUS
<1>6. g[S] = f[x] + g[T]
  BY <1>2, <1>5, SumOfOneAndRest
<1>7. Total(f, T) \in Int /\ f[x] \in Int
  BY <1>1, TotalIsInt DEF IntsOn
<1>. QED BY <1>2, <1>3, <1>4, <1>6, <1>7

-----------------------------------------------------------------------------
(* How often each value came, and what that says of the sum.               *)
At(v, m, x)    == {k \in 1 .. m : v[k] = x}
Count(v, m, x) == Cardinality(At(v, m, x))
Seen(v, m)     == {v[k] : k \in 1 .. m}
BagUpTo(v, m)  == [x \in Seen(v, m) |-> Count(v, m, x)]

(* A value is counted finitely often, and not at all when it was not seen. *)
LEMMA CountType ==
  ASSUME NEW v, NEW m \in Nat, NEW x
  PROVE  /\ IsFiniteSet(At(v, m, x))
         /\ Count(v, m, x) \in Nat
         /\ x \notin Seen(v, m) => Count(v, m, x) = 0
<1>. DEFINE S == At(v, m, x)
<1>1. IsFiniteSet(1 .. m) /\ S \subseteq 1 .. m
  BY FS_Interval DEF At
<1>2. IsFiniteSet(S)
  BY <1>1, FS_Subset
<1>3. Cardinality(S) \in Nat
  BY <1>2, FS_CardinalityType
<1>4. ASSUME x \notin Seen(v, m) PROVE Cardinality(S) = 0
  <2>1. S = {}
    BY <1>4 DEF Seen, At
  <2>. QED BY <2>1, FS_EmptySet
<1>. QED BY <1>2, <1>3, <1>4 DEF Count

(* One more place counts for the value there. *)
LEMMA CountOneMore ==
  ASSUME NEW v, NEW m \in Nat \ {0}, NEW x
  PROVE  Count(v, m, x) = Count(v, m - 1, x) + (IF v[m] = x THEN 1 ELSE 0)
<1>. DEFINE S == At(v, m - 1, x)
            T == At(v, m, x)
<1>1. IsFiniteSet(S) /\ Cardinality(S) \in Nat
  <2>1. m - 1 \in Nat
    OBVIOUS
  <2>. QED BY <2>1, CountType DEF Count
<1>2. m \notin S
  BY DEF At
<1>3. CASE v[m] = x
  <2>1. T = S \cup {m}
    BY <1>3 DEF At
  <2>2. Cardinality(S \cup {m}) = Cardinality(S) + 1
    BY <1>1, <1>2, FS_AddElement
  <2>. QED BY <1>3, <2>1, <2>2 DEF Count
<1>4. CASE v[m] # x
  <2>1. T = S
    BY <1>4 DEF At
  <2>. HIDE DEF S, T
  <2>2. Cardinality(T) = Cardinality(S) + 0
    BY <1>1, <2>1
  <2>. QED BY <1>4, <2>2 DEF Count, S, T
<1>. QED BY <1>3, <1>4

(* One more place shows its value. *)
LEMMA SeenOneMore ==
  ASSUME NEW v, NEW m \in Nat \ {0}
  PROVE  Seen(v, m) = Seen(v, m - 1) \cup {v[m]}
<1>1. 1 .. m = (1 .. m - 1) \cup {m}
  OBVIOUS
<1>. QED BY <1>1 DEF Seen

(* Finitely many places show finitely many values. *)
LEMMA SeenIsFinite ==
  ASSUME NEW v, NEW m \in Nat
  PROVE  IsFiniteSet(Seen(v, m))
<1>1. IsFiniteSet(1 .. m)
  BY FS_Interval
<1>. QED BY <1>1, ValuesAreFinite DEF Seen

(* The values weighted by how often they came add up to the weights of all. *)
Weighted(v, m, w) == [x \in Seen(v, m) |-> w[x] * Count(v, m, x)]
Weights(v, m, w)  == [k \in 1 .. m |-> w[v[k]]]

AddUpTo(v, m, w) ==
    Total(Weighted(v, m, w), Seen(v, m)) = Total(Weights(v, m, w), 1 .. m)

(* The terms are integers, by value and by place. *)
LEMMA WeightsAreInts ==
  ASSUME NEW v, NEW m \in Nat, NEW w \in [Int -> Int], \A k \in 1 .. m : v[k] \in Int
  PROVE  /\ IntsOn(Weighted(v, m, w), Seen(v, m))
         /\ IntsOn(Weights(v, m, w), 1 .. m)
<1>1. Seen(v, m) \subseteq Int
  BY DEF Seen
<1>2. ASSUME NEW x \in Seen(v, m) PROVE w[x] * Count(v, m, x) \in Int
  <2>1. Count(v, m, x) \in Nat
    BY CountType
  <2>2. w[x] \in Int
    BY <1>1
  <2>. QED BY <2>1, <2>2
<1>. QED BY <1>2 DEF IntsOn, Weighted, Weights

(* Adding by value and adding by place go on together. *)
LEMMA AddUpOneMore ==
  ASSUME NEW v, NEW m \in Nat \ {0}, NEW w \in [Int -> Int],
         \A k \in 1 .. m : v[k] \in Int, AddUpTo(v, m - 1, w)
  PROVE  AddUpTo(v, m, w)
<1>. DEFINE x  == v[m]
            D  == Seen(v, m)
            D0 == Seen(v, m - 1)
            f  == Weighted(v, m, w)
            f0 == Weighted(v, m - 1, w)
            g  == Weights(v, m, w)
            g0 == Weights(v, m - 1, w)
            c0 == Count(v, m - 1, x)
<1>1. /\ IntsOn(f, D) /\ IntsOn(g, 1 .. m)
      /\ IntsOn(f0, D0) /\ IntsOn(g0, 1 .. m - 1)
      /\ IsFiniteSet(D) /\ IsFiniteSet(D0)
      /\ IsFiniteSet(1 .. m) /\ IsFiniteSet(1 .. m - 1)
  <2>1. m - 1 \in Nat /\ \A k \in 1 .. m - 1 : v[k] \in Int
    OBVIOUS
  <2>2. IntsOn(f, D) /\ IntsOn(g, 1 .. m)
    BY WeightsAreInts
  <2>3. IntsOn(f0, D0) /\ IntsOn(g0, 1 .. m - 1)
    BY <2>1, WeightsAreInts
  <2>4. IsFiniteSet(D) /\ IsFiniteSet(D0)
    BY <2>1, SeenIsFinite
  <2>5. IsFiniteSet(1 .. m) /\ IsFiniteSet(1 .. m - 1)
    BY <2>1, FS_Interval
  <2>. QED BY <2>2, <2>3, <2>4, <2>5
<1>2. D = D0 \cup {x} /\ x \in Int /\ w[x] \in Int /\ c0 \in Nat
  <2>1. m \in 1 .. m /\ m - 1 \in Nat
    OBVIOUS
  <2>. QED BY <2>1, SeenOneMore, CountType
<1>3. \A y \in D0 : y # x => f[y] = f0[y]
  <2>1. SUFFICES ASSUME NEW y \in D0, y # x PROVE f[y] = f0[y]
    OBVIOUS
  <2>2. Count(v, m, y) = Count(v, m - 1, y) + 0 /\ Count(v, m - 1, y) \in Nat
    <3>1. Count(v, m, y) = Count(v, m - 1, y) + (IF v[m] = y THEN 1 ELSE 0)
      BY CountOneMore
    <3>2. m - 1 \in Nat
      OBVIOUS
    <3>. QED BY <2>1, <3>1, <3>2, CountType
  <2>. QED BY <1>2, <2>2 DEF Weighted
<1>4. f[x] = w[x] * c0 + w[x]
  <2>1. Count(v, m, x) = c0 + 1
    BY CountOneMore
  <2>2. f[x] = w[x] * (c0 + 1)
    BY <1>2, <2>1 DEF Weighted
  <2>. QED BY <1>2, <2>2
<1>5. Total(g, 1 .. m) = w[x] + Total(g0, 1 .. m - 1)
  <2>1. m \in 1 .. m /\ g[m] = w[x] /\ (1 .. m) \ {m} = 1 .. m - 1
    BY DEF Weights
  <2>2. Total(g, 1 .. m) = g[m] + Total(g, (1 .. m) \ {m})
    BY <1>1, <2>1, TotalOfOneAndRest
  <2>3. SameTerms(g0, g, 1 .. m - 1)
    BY DEF SameTerms, Weights
  <2>4. Total(g0, 1 .. m - 1) = Total(g, 1 .. m - 1)
    BY <1>1, <2>3, TotalIsSame
  <2>. QED BY <2>1, <2>2, <2>4
<1>6. Total(f0, D0) = Total(g0, 1 .. m - 1) /\ Total(f0, D0) \in Int
  BY <1>1, TotalIsInt DEF AddUpTo
<1>. HIDE DEF f, f0, g, g0, D, D0, c0, x
<1>7. Total(f, D) = w[x] + Total(f0, D0)
  <2>1. CASE x \in D0
    <3>. DEFINE rest == D0 \ {x}
    <3>1. D = D0
      BY <1>2, <2>1
    <3>2. Total(f, D0) = f[x] + Total(f, rest) /\ Total(f, rest) \in Int
      BY <1>1, <2>1, <3>1, TotalOfOneAndRest
    <3>3. Total(f0, D0) = f0[x] + Total(f0, rest)
      BY <1>1, <2>1, TotalOfOneAndRest
    <3>4. Total(f, rest) = Total(f0, rest)
      <4>1. IsFiniteSet(rest) /\ IntsOn(f, rest) /\ SameTerms(f, f0, rest)
        BY <1>1, <1>3, <3>1, FS_Subset DEF IntsOn, SameTerms
      <4>. QED BY <4>1, TotalIsSame
    <3>5. f0[x] = w[x] * c0
      BY <2>1 DEF f0, Weighted, c0, D0
    <3>6. w[x] * c0 \in Int
      BY <1>2
    <3>. HIDE DEF rest
    <3>7. w[x] \in Int /\ Total(f, D) = Total(f, D0)
      BY <1>2, <3>1
    <3>. QED BY ONLY <1>4, <3>2, <3>3, <3>4, <3>5, <3>6, <3>7
  <2>2. CASE x \notin D0
    <3>1. D \ {x} = D0 /\ x \in D
      BY <1>2, <2>2
    <3>2. Total(f, D) = f[x] + Total(f, D0)
      BY <1>1, <3>1, TotalOfOneAndRest
    <3>3. Total(f, D0) = Total(f0, D0)
      <4>1. IntsOn(f, D0) /\ SameTerms(f, f0, D0)
        BY <1>1, <1>2, <1>3, <2>2 DEF IntsOn, SameTerms
      <4>. QED BY <1>1, <4>1, TotalIsSame
    <3>4. c0 = 0
      <4>1. m - 1 \in Nat
        OBVIOUS
      <4>. QED BY <2>2, <4>1, CountType DEF c0, D0
    <3>5. f[x] = w[x]
      BY <1>2, <1>4, <3>4
    <3>. QED BY <3>2, <3>3, <3>5
  <2>. QED BY <2>1, <2>2
<1>. QED BY <1>5, <1>6, <1>7 DEF AddUpTo, f, D, g, f0, g0, D0

(* So the sum over values, each as often as it was counted, is the sum over *)
(* places.                                                                  *)
LEMMA WeightsAddUp ==
  ASSUME NEW n \in Nat, NEW v, \A k \in 1 .. n : v[k] \in Int, NEW w \in [Int -> Int]
  PROVE  AddUpTo(v, n, w)
<1>. DEFINE Good == {m \in 0 .. n : AddUpTo(v, m, w)}
<1>1. 0 \in Good
  <2>1. Seen(v, 0) = {} /\ 1 .. 0 = {}
    BY DEF Seen
  <2>. QED BY <2>1, TotalOfNone DEF AddUpTo
<1>2. ASSUME NEW m \in 1 .. n, m - 1 \in Good PROVE m \in Good
  <2>1. /\ m \in Nat \ {0} /\ m \in 0 .. n
        /\ \A k \in 1 .. m : v[k] \in Int
        /\ AddUpTo(v, m - 1, w)
    BY <1>2
  <2>. QED BY <2>1, AddUpOneMore
<1>. HIDE DEF Good
<1>3. n \in Good
  BY <1>1, <1>2, StepByStep
<1>. QED BY <1>3 DEF Good

IsNext(w, v, a, n) == \A i \in 1 .. n : w[i] = v[a + i]

(* Counts of a sequence and of the one after it add up. *)
LEMMA CountsAdd ==
  ASSUME NEW v, NEW w, NEW a \in Nat, NEW n \in Nat, IsNext(w, v, a, n), NEW x
  PROVE  Count(v, a + n, x) = Count(v, a, x) + Count(w, n, x)
<1>. DEFINE Good == {m \in 0 .. n : Count(v, a + m, x) = Count(v, a, x) + Count(w, m, x)}
<1>1. Count(v, a, x) \in Nat /\ \A m \in Nat : Count(w, m, x) \in Nat
  BY CountType
<1>2. 0 \in Good
  <2>1. Count(w, 0, x) = 0
    <3>1. 0 \in Nat /\ x \notin Seen(w, 0)
      BY DEF Seen
    <3>. QED BY ONLY <3>1, CountType
  <2>2. Count(v, a, x) = Count(v, a, x) + Count(w, 0, x) /\ a + 0 = a
    BY <1>1, <2>1
  <2>. QED BY <2>2
<1>3. ASSUME NEW m \in 1 .. n, m - 1 \in Good PROVE m \in Good
  <2>1. Count(v, a + (m - 1), x) = Count(v, a, x) + Count(w, m - 1, x)
    BY <1>3
  <2>2. m \in Nat \ {0} /\ a + m \in Nat \ {0} /\ (a + m) - 1 = a + (m - 1) /\ m - 1 \in Nat
    OBVIOUS
  <2>. DEFINE one == IF v[a + m] = x THEN 1 ELSE 0
  <2>3. Count(v, a + m, x) = Count(v, a + (m - 1), x) + one
    <3>1. \A j \in Nat \ {0} : Count(v, j, x) = Count(v, j - 1, x)
                                   + (IF v[j] = x THEN 1 ELSE 0)
      BY CountOneMore
    <3>. QED BY ONLY <2>2, <3>1, Zenon
  <2>4. Count(w, m, x) = Count(w, m - 1, x) + one
    <3>1. Count(w, m, x) = Count(w, m - 1, x) + (IF w[m] = x THEN 1 ELSE 0)
      BY <2>2, CountOneMore
    <3>2. w[m] = v[a + m]
      BY DEF IsNext
    <3>. QED BY <3>1, <3>2
  <2>5. one \in Nat /\ Count(w, m - 1, x) \in Nat
    BY <1>1, <2>2
  <2>. HIDE DEF one
  <2>6. Count(v, a + m, x) = Count(v, a, x) + Count(w, m, x)
    BY <1>1, <2>1, <2>3, <2>4, <2>5
  <2>. QED BY <2>6
<1>. HIDE DEF Good
<1>4. n \in Good
  BY <1>2, <1>3, StepByStep
<1>. QED BY <1>4 DEF Good

(* So do their histograms. *)
LEMMA BagsJoin ==
  ASSUME NEW v, NEW w, NEW a \in Nat, NEW n \in Nat, IsNext(w, v, a, n)
  PROVE  (+)(BagUpTo(v, a), BagUpTo(w, n)) = BagUpTo(v, a + n)
<1>1. Seen(v, a + n) = Seen(v, a) \cup Seen(w, n)
  <2>1. 1 .. a + n = (1 .. a) \cup {a + i : i \in 1 .. n}
    <3>1. ASSUME NEW j \in 1 .. a + n, j \notin 1 .. a PROVE \E i \in 1 .. n : j = a + i
      <4>1. j - a \in 1 .. n /\ j = a + (j - a)
        BY <3>1
      <4>. QED BY <4>1
    <3>. QED BY <3>1
  <2>2. Seen(v, a + n) = Seen(v, a) \cup {v[a + i] : i \in 1 .. n}
    BY <2>1 DEF Seen
  <2>. QED BY <2>2 DEF Seen, IsNext
<1>2. ASSUME NEW x
      PROVE  /\ Count(v, a + n, x) = Count(v, a, x) + Count(w, n, x)
             /\ Count(v, a, x) \in Nat /\ Count(w, n, x) \in Nat
             /\ x \notin Seen(v, a) => Count(v, a, x) = 0
             /\ x \notin Seen(w, n) => Count(w, n, x) = 0
  <2>1. Count(v, a + n, x) = Count(v, a, x) + Count(w, n, x)
    BY CountsAdd
  <2>2. Count(v, a, x) \in Nat /\ (x \notin Seen(v, a) => Count(v, a, x) = 0)
    BY CountType
  <2>3. Count(w, n, x) \in Nat /\ (x \notin Seen(w, n) => Count(w, n, x) = 0)
    BY CountType
  <2>. QED BY <2>1, <2>2, <2>3
<1>. DEFINE b1 == BagUpTo(v, a)
            b2 == BagUpTo(w, n)
<1>3. /\ DOMAIN b1 = Seen(v, a) /\ DOMAIN b2 = Seen(w, n)
      /\ \A x \in Seen(v, a) : b1[x] = Count(v, a, x)
      /\ \A x \in Seen(w, n) : b2[x] = Count(w, n, x)
  BY DEF BagUpTo
<1>. HIDE DEF b1, b2
<1>4. (+)(b1, b2) =
          [x \in Seen(v, a) \cup Seen(w, n) |->
              (IF x \in Seen(v, a) THEN b1[x] ELSE 0) + (IF x \in Seen(w, n) THEN b2[x] ELSE 0)]
  BY <1>3 DEF (+)
<1>5. ASSUME NEW x \in Seen(v, a) \cup Seen(w, n)
      PROVE  (IF x \in Seen(v, a) THEN b1[x] ELSE 0) + (IF x \in Seen(w, n) THEN b2[x] ELSE 0)
             = Count(v, a + n, x)
  BY <1>2, <1>3
<1>. QED BY <1>1, <1>4, <1>5 DEF BagUpTo, b1, b2

(* The codes of a recording: what has been counted after each block. *)
Bags == UNION {[K -> Nat] : K \in SUBSET Int}

Counted == [i : Bags, q : Bags, n : Nat]

(* One component of all codes. *)
LEMMA ComponentIs ==
  ASSUME NEW s \in Seq(Int \X Int), NEW c \in 1 .. 2
  PROVE  /\ Component(s, c) \in Seq(Int)
         /\ Len(Component(s, c)) = Len(s)
         /\ DOMAIN Component(s, c) = 1 .. Len(s)
         /\ \A k \in 1 .. Len(s) : Component(s, c)[k] = s[k][c]
<1>1. Len(s) \in Nat /\ DOMAIN s = 1 .. Len(s)
  BY LenProperties
<1>. DEFINE t == Component(s, c)
<1>2. t = [k \in 1 .. Len(s) |-> s[k][c]]
  BY <1>1 DEF Component
<1>3. ASSUME NEW k \in 1 .. Len(s) PROVE s[k][c] \in Int
  <2>1. s[k] \in Int \X Int
    BY <1>1, ElementOfSeq
  <2>. QED BY <2>1
<1>. HIDE DEF t
<1>4. t \in [1 .. Len(s) -> Int]
  BY <1>2, <1>3
<1>5. t \in Seq(Int)
  <2>1. PICK n \in Nat : n = Len(s)
    BY <1>1
  <2>2. t \in [1 .. n -> Int]
    BY <1>4, <2>1
  <2>. QED BY <2>2, SeqDef
<1>6. DOMAIN t = 1 .. Len(s) /\ DOMAIN t = 1 .. Len(t) /\ Len(t) \in Nat
  BY <1>4, <1>5, LenProperties
<1>. QED BY <1>1, <1>2, <1>5, <1>6 DEF t

(* The histogram of a sequence counts all of it. *)
LEMMA ToBagIs ==
  ASSUME NEW s \in Seq(Int)
  PROVE  ToBag(s) = BagUpTo(s, Len(s)) /\ ToBag(s) \in Bags
<1>1. Len(s) \in Nat /\ DOMAIN s = 1 .. Len(s) /\ \A k \in 1 .. Len(s) : s[k] \in Int
  BY LenProperties, ElementOfSeq
<1>2. ToBag(s) = BagUpTo(s, Len(s))
  <2>1. \A x : Cardinality(At(s, Len(s), x)) = Count(s, Len(s), x)
    BY DEF Count
  <2>2. \A x : At(s, Len(s), x) = {i \in DOMAIN s : s[i] = x}
    BY <1>1 DEF At
  <2>3. ToBag(s) = [x \in Seen(s, Len(s)) |-> Cardinality(At(s, Len(s), x))]
    BY <1>1, <2>2, Zenon DEF ToBag, Range, Seen
  <2>. QED BY <2>1, <2>3 DEF BagUpTo
<1>3. Seen(s, Len(s)) \subseteq Int
  BY <1>1 DEF Seen
<1>4. \A x : Count(s, Len(s), x) \in Nat
  BY <1>1, CountType
<1>5. BagUpTo(s, Len(s)) \in [Seen(s, Len(s)) -> Nat]
  BY <1>4 DEF BagUpTo
<1>. QED BY <1>2, <1>3, <1>5 DEF Bags

(* A chunk adds to histograms and to their number. *)
LEMMA BitUpdateKeepsType ==
  ASSUME NEW v \in Counted, NEW block \in Seq(Int \X Int)
  PROVE  BitUpdate(v, block) \in Counted
<1>1. ASSUME NEW b1 \in Bags, NEW b2 \in Bags PROVE (+)(b1, b2) \in Bags
  <2>1. PICK K \in SUBSET Int : b1 \in [K -> Nat]
    BY DEF Bags
  <2>2. PICK L \in SUBSET Int : b2 \in [L -> Nat]
    BY DEF Bags
  <2>3. (+)(b1, b2) =
            [x \in K \cup L |-> (IF x \in K THEN b1[x] ELSE 0) + (IF x \in L THEN b2[x] ELSE 0)]
    BY <2>1, <2>2 DEF (+)
  <2>4. (+)(b1, b2) \in [K \cup L -> Nat]
    BY <2>1, <2>2, <2>3
  <2>. QED BY <2>4 DEF Bags
<1>. DEFINE t1 == ToBag(Component(block, 1))
            t2 == ToBag(Component(block, 2))
<1>2. t1 \in Bags /\ t2 \in Bags
  <2>1. 1 \in 1 .. 2 /\ 2 \in 1 .. 2
    OBVIOUS
  <2>2. Component(block, 1) \in Seq(Int) /\ Component(block, 2) \in Seq(Int)
    BY <2>1, ComponentIs
  <2>. QED BY <2>2, ToBagIs
<1>3. Len(block) \in Nat
  BY LenProperties
<1>4. v.i \in Bags /\ v.q \in Bags /\ v.n \in Nat
  BY DEF Counted
<1>5. BitUpdate(v, block) =
          [i |-> (+)(v.i, t1), q |-> (+)(v.q, t2), n |-> v.n + Len(block)]
  BY DEF BitUpdate
<1>. HIDE DEF t1, t2
<1>6. (+)(v.i, t1) \in Bags /\ (+)(v.q, t2) \in Bags
  BY <1>1, <1>2, <1>4
<1>. QED BY <1>3, <1>4, <1>5, <1>6 DEF Counted

(* Before any chunk they are empty. *)
LEMMA NoCodesAreCounted == NoCodes \in Counted
<1>1. EmptyBag \in [{} -> Nat]
  BY DEF EmptyBag, SetToBag
<1>. QED BY <1>1 DEF NoCodes, Counted, Bags

BitsStep(chunks, f, s) ==
    IF s = {} THEN NoCodes
    ELSE BitUpdate(f[s \ {Max(s)}], chunks[Max(s)])

IsBitsFold(chunks, f) ==
    f = [s \in SUBSET DOMAIN chunks |-> BitsStep(chunks, f, s)]

(* The histograms as a recursion over the chunks. *)
LEMMA BitsIs ==
  ASSUME NEW chunks
  PROVE  FoldLeft(BitUpdate, NoCodes, chunks) = (CHOOSE f : IsBitsFold(chunks, f))[DOMAIN chunks]
BY DEF FoldLeft, MapThenFoldSet, IsBitsFold, BitsStep

(* They are added up chunk by chunk from the first on. *)
LEMMA BitsHasHistory ==
  ASSUME NEW chunks \in Seq(Seq(Int \X Int))
  PROVE  \E h \in [0 .. Len(chunks) -> Counted] :
             /\ h[0] = NoCodes
             /\ \A k \in 1 .. Len(chunks) : h[k] = BitUpdate(h[k - 1], chunks[k])
             /\ FoldLeft(BitUpdate, NoCodes, chunks) = h[Len(chunks)]
<1>. DEFINE n == Len(chunks)
            V == Counted
            base == NoCodes
            step == [k \in 1 .. n |-> [v \in V |-> BitUpdate(v, chunks[k])]]
<1>1. n \in Nat /\ DOMAIN chunks = 1 .. n
  BY LenProperties
<1>2. base \in V
  BY NoCodesAreCounted
<1>3. AreSteps(step, n, V)
  <2>1. ASSUME NEW k \in 1 .. n
        PROVE  [v \in V |-> BitUpdate(v, chunks[k])] \in [V -> V]
    BY <1>1, ElementOfSeq, BitUpdateKeepsType
  <2>. QED BY <2>1 DEF AreSteps
<1>4. \A k \in 1 .. n, v \in V : step[k][v] = BitUpdate(v, chunks[k])
  OBVIOUS
<1>. HIDE DEF step, V, n, base
<1>5. IsFiniteSet(1 .. n) /\ Picks(Largest(n), 1 .. n)
  BY <1>1, FS_Interval, LargestPicks
<1>6. PICK g : IsFoldOf(g, 1 .. n, V, Largest(n), base, step)
  BY <1>2, <1>3, <1>5, FoldOfExists DEF AreSteps
<1>7. ASSUME NEW s \in SUBSET (1 .. n), s # {}
      PROVE  /\ Largest(n)[s] = Max(s) /\ Max(s) \in 1 .. n
             /\ s \ {Max(s)} \in SUBSET (1 .. n)
  BY <1>5, <1>7, Zenon DEF Largest, Picks
<1>8. IsBitsFold(chunks, g)
  <2>1. ASSUME NEW s \in SUBSET (1 .. n) PROVE g[s] = BitsStep(chunks, g, s)
    <3>1. CASE s = {}
      BY <1>6, <3>1 DEF IsFoldOf, Folded, BitsStep, base
    <3>2. CASE s # {}
      <4>. DEFINE m == Max(s)
      <4>1. Largest(n)[s] = m /\ m \in 1 .. n /\ s \ {m} \in SUBSET (1 .. n)
        BY <1>7, <3>2
      <4>2. g[s \ {m}] \in V /\ g[s] = step[m][g[s \ {m}]]
        BY <1>6, <3>2, <4>1 DEF IsFoldOf, Folded
      <4>. HIDE DEF m
      <4>. QED BY <1>4, <3>2, <4>1, <4>2 DEF BitsStep, m
    <3>. QED BY <3>1, <3>2
  <2>2. g = [s \in SUBSET (1 .. n) |-> g[s]]
    BY <1>6 DEF IsFoldOf
  <2>. QED BY <1>1, <2>1, <2>2 DEF IsBitsFold
<1>9. PICK f : f = CHOOSE i : IsBitsFold(chunks, i)
  OBVIOUS
<1>10. Obeys(f, 1 .. n, V, Largest(n), base, step)
  <2>1. SUFFICES ASSUME NEW s \in SUBSET (1 .. n)
                 PROVE  IF s = {} THEN f[s] = base
                        ELSE f[s \ {Largest(n)[s]}] \in V =>
                             f[s] = step[Largest(n)[s]][f[s \ {Largest(n)[s]}]]
    BY DEF Obeys
  <2>2. f[s] = BitsStep(chunks, f, s)
    <3>1. IsBitsFold(chunks, f)
      BY <1>8, <1>9
    <3>. QED BY <1>1, <3>1 DEF IsBitsFold
  <2>3. CASE s = {}
    BY <2>2, <2>3 DEF BitsStep, base
  <2>4. CASE s # {}
    <3>. DEFINE m == Max(s)
    <3>1. Largest(n)[s] = m /\ m \in 1 .. n /\ s \ {m} \in SUBSET (1 .. n)
      BY <1>7, <2>4
    <3>2. f[s] = BitUpdate(f[s \ {m}], chunks[m])
      BY <2>2, <2>4 DEF BitsStep
    <3>. HIDE DEF m
    <3>. QED BY <1>4, <2>4, <3>1, <3>2
  <2>. QED BY <2>3, <2>4
<1>11. PICK h : IsHistory(h, n, V, base, step) /\ f[1 .. n] = h[n]
  BY <1>1, <1>2, <1>3, <1>10, FoldIsHistory
<1>12. ASSUME NEW k \in 1 .. n PROVE h[k] = BitUpdate(h[k - 1], chunks[k])
  <2>1. k - 1 \in 0 .. n
    BY <1>1
  <2>2. h[k - 1] \in V /\ h[k] = step[k][h[k - 1]]
    BY <1>11, <2>1 DEF IsHistory
  <2>. QED BY <1>4, <2>2
<1>13. FoldLeft(BitUpdate, NoCodes, chunks) = f[1 .. n]
  BY <1>1, <1>9, BitsIs
<1>. QED BY <1>11, <1>12, <1>13 DEF IsHistory, n, V, base

(* Whatever the blocks, after each the bags hold the codes so far. *)
CountedUpTo(codes, m) ==
    [i |-> BagUpTo(Component(codes, 1), m),
     q |-> BagUpTo(Component(codes, 2), m), n |-> m]

(* Histograms of what was read before a chunk become those of what was read *)
(* after it.                                                                *)
LEMMA UpdateCounts ==
  ASSUME NEW codes \in Seq(Int \X Int), NEW a \in 0 .. Len(codes), NEW b \in a .. Len(codes)
  PROVE  BitUpdate(CountedUpTo(codes, a), Part(codes, a, b)) = CountedUpTo(codes, b)
<1>. DEFINE block == Part(codes, a, b)
            v(c) == Component(codes, c)
            w(c) == Component(block, c)
<1>1. Len(codes) \in Nat /\ a \in Nat /\ b \in Nat /\ b - a \in Nat /\ a + (b - a) = b
  BY LenProperties
<1>2. /\ block \in Seq(Int \X Int) /\ Len(block) = b - a
      /\ \A i \in 1 .. b - a : block[i] = codes[a + i]
  BY PartIs
<1>. HIDE DEF block
<1>3. ASSUME NEW c \in 1 .. 2
      PROVE  (+)(BagUpTo(v(c), a), ToBag(w(c))) = BagUpTo(v(c), b)
  <2>1. \A k \in 1 .. Len(codes) : v(c)[k] = codes[k][c]
    BY ComponentIs
  <2>2. /\ w(c) \in Seq(Int) /\ Len(w(c)) = b - a
        /\ \A k \in 1 .. b - a : w(c)[k] = block[k][c]
    <3>1. block \in Seq(Int \X Int)
      BY <1>2
    <3>2. /\ w(c) \in Seq(Int) /\ Len(w(c)) = Len(block)
          /\ \A k \in 1 .. Len(block) : w(c)[k] = block[k][c]
      BY <3>1, ComponentIs
    <3>. QED BY <1>2, <3>2
  <2>3. IsNext(w(c), v(c), a, b - a)
    <3>1. ASSUME NEW i \in 1 .. b - a PROVE w(c)[i] = v(c)[a + i]
      <4>1. a + i \in 1 .. Len(codes)
        BY <1>1
      <4>2. block[i] = codes[a + i]
        BY <1>2
      <4>. QED BY <2>1, <2>2, <4>1, <4>2
    <3>. QED BY <3>1, Zenon DEF IsNext
  <2>4. ToBag(w(c)) = BagUpTo(w(c), b - a)
    BY <2>2, ToBagIs
  <2>. HIDE DEF v, w
  <2>5. (+)(BagUpTo(v(c), a), BagUpTo(w(c), b - a)) = BagUpTo(v(c), a + (b - a))
    BY <1>1, <2>3, BagsJoin
  <2>. QED BY <1>1, <2>4, <2>5
<1>4. /\ (+)(BagUpTo(v(1), a), ToBag(w(1))) = BagUpTo(v(1), b)
      /\ (+)(BagUpTo(v(2), a), ToBag(w(2))) = BagUpTo(v(2), b)
  <2>1. 1 \in 1 .. 2 /\ 2 \in 1 .. 2
    OBVIOUS
  <2>. QED BY <1>3, <2>1
<1>5. BitUpdate(CountedUpTo(codes, a), block) =
          [i |-> (+)(BagUpTo(v(1), a), ToBag(w(1))),
           q |-> (+)(BagUpTo(v(2), a), ToBag(w(2))), n |-> a + Len(block)]
  BY DEF BitUpdate, CountedUpTo
<1>6. a + Len(block) = b
  BY <1>1, <1>2
<1>. HIDE DEF v, w
<1>. QED BY <1>4, <1>5, <1>6 DEF CountedUpTo, block, v

(* After all chunks they are the histograms of the recording. *)
LEMMA CodesAreCounted ==
  ASSUME NEW codes \in Seq(Int \X Int), NEW size \in Nat \ {0}
  PROVE  FoldLeft(BitUpdate, NoCodes, Chunks(codes, size)) =
             CountedUpTo(codes, Len(codes))
<1>1. PICK count \in Nat : \E cuts : /\ AreCuts(cuts, count, Len(codes))
                                     /\ Chunks(codes, size) = CutAt(codes, cuts, count)
  BY ChunksAreCut
<1>2. PICK cuts : /\ AreCuts(cuts, count, Len(codes))
                  /\ Chunks(codes, size) = CutAt(codes, cuts, count)
  BY <1>1
<1>. DEFINE c == CutAt(codes, cuts, count)
<1>3. /\ c \in Seq(Seq(Int \X Int)) /\ Len(c) = count
      /\ \A k \in 1 .. count :
             /\ cuts[k - 1] \in 0 .. Len(codes) /\ cuts[k] \in cuts[k - 1] .. Len(codes)
             /\ c[k] = Part(codes, cuts[k - 1], cuts[k])
  BY <1>2, CutAtIs
<1>4. cuts[0] = 0 /\ cuts[count] = Len(codes)
  BY <1>2 DEF AreCuts
<1>. HIDE DEF c
<1>5. PICK h \in [0 .. count -> Counted] :
          /\ h[0] = NoCodes
          /\ \A k \in 1 .. count : h[k] = BitUpdate(h[k - 1], c[k])
          /\ FoldLeft(BitUpdate, NoCodes, c) = h[count]
  BY <1>3, BitsHasHistory
<1>. DEFINE Good == {k \in 0 .. count : h[k] = CountedUpTo(codes, cuts[k])}
<1>6. 0 \in Good
  <2>1. \A v : BagUpTo(v, 0) = EmptyBag
    <3>1. \A v : Seen(v, 0) = {}
      BY DEF Seen
    <3>. QED BY <3>1 DEF BagUpTo, EmptyBag, SetToBag
  <2>2. CountedUpTo(codes, 0) = NoCodes
    BY <2>1 DEF CountedUpTo, NoCodes
  <2>. QED BY <1>4, <1>5, <2>2
<1>7. ASSUME NEW k \in 1 .. count, k - 1 \in Good PROVE k \in Good
  <2>1. h[k - 1] = CountedUpTo(codes, cuts[k - 1])
    BY <1>7
  <2>2. BitUpdate(CountedUpTo(codes, cuts[k - 1]), c[k]) = CountedUpTo(codes, cuts[k])
    BY <1>3, UpdateCounts
  <2>. QED BY <1>5, <2>1, <2>2
<1>. HIDE DEF Good
<1>8. count \in Good
  BY <1>6, <1>7, StepByStep
<1>9. h[count] = CountedUpTo(codes, Len(codes))
  BY <1>4, <1>8 DEF Good
<1>. QED BY <1>2, <1>5, <1>9 DEF c

MomentsOf(v) ==
    [sum     |-> SumFunction(v),
     squares |-> SumFunction([k \in DOMAIN v |-> v[k] * v[k]])]

(* Sum and squares taken from a histogram are those of the codes. *)
LEMMA MomentsAreOfAll ==
  ASSUME NEW v \in Seq(Int)
  PROVE  Moments(BagUpTo(v, Len(v))) = MomentsOf(v)
<1>. DEFINE n  == Len(v)
            D  == Seen(v, n)
            h  == BagUpTo(v, n)
            w1 == [i \in Int |-> i]
            w2 == [i \in Int |-> i * i]
<1>1. n \in Nat /\ DOMAIN v = 1 .. n /\ \A k \in 1 .. n : v[k] \in Int
  BY LenProperties, ElementOfSeq
<1>2. w1 \in [Int -> Int] /\ w2 \in [Int -> Int]
  <2>1. \A i \in Int : i * i \in Int
    OBVIOUS
  <2>. QED BY <2>1
<1>. HIDE DEF n
<1>3. D \subseteq Int /\ DOMAIN h = D /\ \A x \in D : h[x] = Count(v, n, x)
  BY <1>1 DEF Seen, BagUpTo
<1>4. AddUpTo(v, n, w1) /\ AddUpTo(v, n, w2)
  <2>. HIDE DEF w1, w2
  <2>. QED BY <1>1, <1>2, WeightsAddUp
<1>5. [c \in DOMAIN h |-> c * h[c]] = Weighted(v, n, w1)
  BY <1>3 DEF Weighted
<1>6. [c \in DOMAIN h |-> c * c * h[c]] = Weighted(v, n, w2)
  BY <1>3 DEF Weighted
<1>7. DOMAIN Weighted(v, n, w1) = D /\ DOMAIN Weighted(v, n, w2) = D
  BY DEF Weighted
<1>8. v = Weights(v, n, w1)
  <2>1. v = [k \in 1 .. n |-> v[k]]
    <3>1. v \in [1 .. n -> Int]
      BY <1>1, LenProperties DEF n
    <3>. QED BY <3>1
  <2>. QED BY <1>1, <2>1 DEF Weights
<1>9. [k \in DOMAIN v |-> v[k] * v[k]] = Weights(v, n, w2)
  BY <1>1 DEF Weights
<1>10. Moments(h) = [sum     |-> Total(Weighted(v, n, w1), D),
                            squares |-> Total(Weighted(v, n, w2), D)]
  <2>1. SumFunction([c \in DOMAIN h |-> c * h[c]]) = Total(Weighted(v, n, w1), D)
    BY <1>5, <1>7, SumsAreTotals
  <2>2. SumFunction([c \in DOMAIN h |-> c * c * h[c]]) = Total(Weighted(v, n, w2), D)
    BY <1>6, <1>7, SumsAreTotals
  <2>. QED BY <2>1, <2>2 DEF Moments
<1>11. SumFunction(v) = Total(v, 1 .. n)
  BY <1>1, SumsAreTotals
<1>12. SumFunction(Weights(v, n, w2)) = Total(Weights(v, n, w2), 1 .. n)
  <2>1. DOMAIN Weights(v, n, w2) = 1 .. n
    BY DEF Weights
  <2>. QED BY <2>1, SumsAreTotals
<1>. HIDE DEF w1, w2, D, h
<1>13. /\ Total(Weighted(v, n, w1), D) = Total(v, 1 .. n)
       /\ Total(Weighted(v, n, w2), D) = Total(Weights(v, n, w2), 1 .. n)
  BY <1>4, <1>8 DEF AddUpTo, D
<1>. QED BY <1>9, <1>10, <1>11, <1>12, <1>13 DEF MomentsOf, h, n

(* The result of the bit statistics. *)
LEMMA BitsAreCorrect ==
  ASSUME NEW x \in Recordings, NEW bits, bits = Bits(x.codes, x.chunk)
  PROVE  LET Of(c) == Component(x.codes, c)
         IN  /\ bits.n = Len(x.codes)
             /\ bits.occupied = Cardinality(Range(Of(1)) \cup Range(Of(2)))
             /\ bits.i = MomentsOf(Of(1)) /\ bits.q = MomentsOf(Of(2))
<1>. DEFINE n == Len(x.codes)
            v1 == Component(x.codes, 1)
            v2 == Component(x.codes, 2)
<1>1. x.codes \in Seq(Int \X Int) /\ x.chunk \in Nat \ {0}
  BY InputsAssumption DEF InputsAssumption
<1>2. /\ v1 \in Seq(Int) /\ Len(v1) = n /\ DOMAIN v1 = 1 .. n
      /\ v2 \in Seq(Int) /\ Len(v2) = n /\ DOMAIN v2 = 1 .. n
  <2>1. 1 \in 1 .. 2 /\ 2 \in 1 .. 2
    OBVIOUS
  <2>. QED BY <1>1, <2>1, ComponentIs
<1>3. bits = BitResult(CountedUpTo(x.codes, n))
  BY <1>1, CodesAreCounted DEF Bits
<1>4. CountedUpTo(x.codes, n) = [i |-> BagUpTo(v1, n), q |-> BagUpTo(v2, n), n |-> n]
  BY DEF CountedUpTo
<1>. HIDE DEF n, v1, v2
<1>5. DOMAIN BagUpTo(v1, n) = Range(v1) /\ DOMAIN BagUpTo(v2, n) = Range(v2)
  BY <1>2 DEF BagUpTo, Seen, Range
<1>6. /\ Moments(BagUpTo(v1, n)) = MomentsOf(v1)
      /\ Moments(BagUpTo(v2, n)) = MomentsOf(v2)
  BY <1>2, MomentsAreOfAll
<1>7. /\ bits.n = n
      /\ bits.occupied = Cardinality(Range(v1) \cup Range(v2))
      /\ bits.i = MomentsOf(v1) /\ bits.q = MomentsOf(v2)
  BY <1>3, <1>4, <1>5, <1>6 DEF BitResult
<1>. QED BY <1>7 DEF n, v1, v2

(* What a pass over a recording yields is that of all of it. *)
LEMMA ChunksCorrect ==
  ASSUME task \in DOMAIN InputsOf, input \in InputsOf[task], Results
  PROVE  ChunksDoNotMatter
<1>1. SUFFICES ASSUME Is("sweep") PROVE ChunksDoNotMatter
  BY DEF ChunksDoNotMatter
<1>2. input \in Recordings
  BY <1>1 DEF Is, InputsOf
<1>3. output = Swept(input)
  BY <1>1 DEF Results
<1>4. /\ output.level = Measure(input.frames, input.bins, input.chunk, input.settle,
                                       Excluded)
      /\ output.bits = Bits(input.codes, input.chunk)
      /\ output.analysed = Analysed(input.samples, input.size, SurveyHop, input.chunk)
      /\ output.waterfall = RowsOf(input.samples, input.size, SurveyHop, input.most)
  BY <1>3 DEF Swept, SurveyHop, Excluded, RowsOf
<1>5. /\ Len(input.frames) > 0 =>
             output.level = Measure(input.frames, input.bins, Len(input.frames),
                                           input.settle, Excluded)
      /\ output.level.failed <=> Len(input.frames) <= input.settle
      /\ ~output.level.failed => output.level.bin \notin Excluded
  <2>1. Excluded = ExcludedBins(input.bins, input.dc, input.edge)
    BY DEF Excluded
  <2>. QED BY <1>2, <1>4, <2>1, LevelIsOfAll
<1>6. /\ {input.chunk, input.size, input.most} \subseteq Nat \ {0}
      /\ input.samples \in Nat /\ input.overlap \in Int
  BY <1>2, InputsAssumption DEF InputsAssumption
<1>7. SurveyHop \in Nat \ {0}
  <2>1. SurveyHop = IF 1 >= input.size - input.overlap THEN 1 ELSE input.size - input.overlap
    BY <1>6, MaxOfTwo DEF SurveyHop, Hop
  <2>. QED BY <1>6, <2>1
<1>8. EveryFrameOnce
  <2>1. output.analysed = StartsOf(input.samples, input.size, SurveyHop)
    BY <1>4, <1>6, <1>7, FramesOnce
  <2>. QED BY <2>1 DEF EveryFrameOnce, StartsOf
<1>9. WaterfallIsEven
  <2>1. LET n      == FrameCount(input.samples, input.size, SurveyHop)
            stride == Stride(n, input.most)
            rows   == RowsOf(input.samples, input.size, SurveyHop, input.most)
        IN  /\ Len(rows) \in Nat /\ Len(rows) <= input.most
            /\ \A k \in 1 .. Len(rows) : rows[k] + input.size <= input.samples
            /\ n % input.most = 0 /\ n > 0 =>
                   input.samples - (rows[Len(rows)] + input.size) < stride * SurveyHop
    BY <1>6, <1>7, RowsAreEven
  <2>. QED BY <1>4, <2>1 DEF WaterfallIsEven, Last
<1>10. BitsAreOfAll
  <2>1. LET Of(c) == Component(input.codes, c)
        IN  /\ output.bits.n = Len(input.codes)
            /\ output.bits.occupied = Cardinality(Range(Of(1)) \cup Range(Of(2)))
            /\ output.bits.i = MomentsOf(Of(1)) /\ output.bits.q = MomentsOf(Of(2))
    BY <1>2, <1>4, BitsAreCorrect
  <2>. QED BY <2>1 DEF BitsAreOfAll, MomentsOf
<1>. HIDE DEF Excluded, SurveyHop
<1>. QED BY <1>5, <1>8, <1>9, <1>10 DEF ChunksDoNotMatter

-----------------------------------------------------------------------------
(* Recordings replayed: nothing is skipped and nothing is read twice.      *)
Reading(S) == [position : Nat, read : Seq(S), over : BOOLEAN]

EndOf(position, more, length) ==
    IF position + more < length THEN position + more ELSE length

(* A block is the next part of what is there, or nothing after the end. *)
LEMMA BlockIs ==
  ASSUME NEW S, NEW s \in Seq(S), NEW p \in Nat, NEW more \in Nat
  PROVE  /\ SubSeq(s, p + 1, AtMost(p + more, Len(s))) = Part(s, p, EndOf(p, more, Len(s)))
         /\ Part(s, p, EndOf(p, more, Len(s))) \in Seq(S)
         /\ Len(Part(s, p, EndOf(p, more, Len(s)))) \in Nat
<1>. DEFINE b == EndOf(p, more, Len(s))
<1>1. Len(s) \in Nat /\ b \in Nat /\ b <= Len(s)
  BY LenProperties DEF EndOf
<1>2. SubSeq(s, p + 1, AtMost(p + more, Len(s))) = Part(s, p, b)
  BY DEF AtMost, EndOf, Part
<1>3. Part(s, p, b) \in Seq(S)
  <2>1. CASE p <= Len(s)
    <3>1. p \in 0 .. Len(s) /\ b \in p .. Len(s)
      BY <1>1, <2>1 DEF EndOf
    <3>. QED BY <3>1, PartIs
  <2>2. CASE ~(p <= Len(s))
    <3>1. b <= p
      BY <1>1, <2>2
    <3>2. Part(s, p, b) = <<>>
      BY <1>1, <3>1, PartIsNone
    <3>. QED BY <3>2, EmptySeq
  <2>. QED BY <2>1, <2>2
<1>4. Len(Part(s, p, b)) \in Nat
  BY <1>3, LenProperties
<1>. QED BY <1>2, <1>3, <1>4

(* What is read is taken in pairs. *)
LEMMA EvenIs ==
  ASSUME NEW S, NEW s \in Seq(S)
  PROVE  /\ Even(s) = Part(s, 0, 2 * (Len(s) \div 2))
         /\ Even(s) \in Seq(S)
         /\ 2 * (Len(s) \div 2) \in 0 .. Len(s)
<1>1. Len(s) \in Nat
  BY LenProperties
<1>2. 2 * (Len(s) \div 2) = (Len(s) \div 2) * 2 /\ 2 * (Len(s) \div 2) \in 0 .. Len(s)
  BY <1>1
<1>3. 0 + 1 = 1 /\ 0 \in 0 .. Len(s)
  BY <1>1
<1>4. Even(s) = Part(s, 0, 2 * (Len(s) \div 2))
  BY <1>2, <1>3 DEF Even, Part
<1>5. Part(s, 0, 2 * (Len(s) \div 2)) \in Seq(S)
  BY <1>2, <1>3, PartIs
<1>. QED BY <1>2, <1>4, <1>5

(* A read from a file goes on from some place with what was read. *)
LEMMA ReadOnceKeepsType ==
  ASSUME NEW S, NEW file, file.items \in Seq(S), NEW n \in Nat, NEW v \in Reading(S)
  PROVE  ReadOnce(file, n, v) \in Reading(S)
<1>1. v.position \in Nat /\ v.read \in Seq(S) /\ v.over \in BOOLEAN
  BY DEF Reading
<1>. DEFINE raw == RawBlock(file, v.position, n)
<1>2. raw \in Seq(S) /\ Len(raw) \in Nat
  <2>. DEFINE more == 2 * n
  <2>1. more \in Nat
    OBVIOUS
  <2>2. raw = SubSeq(file.items, v.position + 1,
                     AtMost(v.position + more, Len(file.items)))
    BY DEF RawBlock
  <2>3. PICK p \in Nat : p = v.position
    BY <1>1
  <2>4. PICK s \in Seq(S) : s = file.items
    OBVIOUS
  <2>. HIDE DEF more, raw
  <2>5. raw = SubSeq(s, p + 1, AtMost(p + more, Len(s)))
    BY <2>2, <2>3, <2>4
  <2>. QED BY ONLY <2>1, <2>5, BlockIs
<1>. HIDE DEF raw
<1>3. Even(raw) \in Seq(S)
  BY <1>2, EvenIs
<1>4. v.read \o Even(raw) \in Seq(S)
  BY <1>1, <1>3, ConcatProperties
<1>5. ReadOnce(file, n, v) =
          IF v.over THEN v
          ELSE [position |-> v.position + Len(raw), read |-> v.read \o Even(raw),
                over |-> Len(raw) < 2]
  BY DEF ReadOnce, raw
<1>6. v.position + Len(raw) \in Nat /\ (Len(raw) < 2) \in BOOLEAN
  BY <1>1, <1>2
<1>. QED BY <1>4, <1>5, <1>6 DEF Reading

(* So does a read from an array. *)
LEMMA ReadArrayOnceKeepsType ==
  ASSUME NEW S, NEW samples \in Seq(S), NEW n \in Nat, NEW v \in Reading(S)
  PROVE  ReadArrayOnce(samples, n, v) \in Reading(S)
<1>1. v.position \in Nat /\ v.read \in Seq(S) /\ v.over \in BOOLEAN
  BY DEF Reading
<1>. DEFINE block == SubSeq(samples, v.position + 1, AtMost(v.position + n, Len(samples)))
<1>2. block \in Seq(S) /\ Len(block) \in Nat
  BY <1>1, BlockIs
<1>. HIDE DEF block
<1>3. v.read \o block \in Seq(S)
  BY <1>1, <1>2, ConcatProperties
<1>4. ReadArrayOnce(samples, n, v) =
          IF v.position >= Len(samples) THEN [v EXCEPT !.over = TRUE]
          ELSE [v EXCEPT !.position = v.position + Len(block), !.read = v.read \o block]
  BY DEF ReadArrayOnce, block
<1>5. v.position + Len(block) \in Nat
  BY <1>1, <1>2
<1>6. v \in [position : Nat, read : Seq(S), over : BOOLEAN]
  BY DEF Reading
<1>7. [v EXCEPT !.over = TRUE] \in [position : Nat, read : Seq(S), over : BOOLEAN]
  BY <1>6
<1>8. ASSUME NEW p \in Nat, NEW r \in Seq(S)
      PROVE  [v EXCEPT !.position = p, !.read = r]
                 \in [position : Nat, read : Seq(S), over : BOOLEAN]
  BY <1>6
<1>. QED BY <1>3, <1>4, <1>5, <1>7, <1>8 DEF Reading

(* So does the beginning. *)
LEMMA NothingIsRead ==
  ASSUME NEW S
  PROVE  [position |-> 0, read |-> <<>>, over |-> FALSE] \in Reading(S)
BY EmptySeq DEF Reading

ReadStep(file, n, f, s) ==
    IF s = {} THEN [position |-> 0, read |-> <<>>, over |-> FALSE]
    ELSE ReadOnce(file, n, f[s \ {Max(s)}])

IsReadFold(file, n, f) ==
    f = [s \in SUBSET 1 .. Len(file.items) + 1 |-> ReadStep(file, n, f, s)]

(* Reading a file as a recursion over the reads. *)
LEMMA ReadIs ==
  ASSUME NEW file, NEW n
  PROVE  ReadAll(file, n) = (CHOOSE f : IsReadFold(file, n, f))[1 .. Len(file.items) + 1]
BY DEF ReadAll, FoldLeft, MapThenFoldSet, IsReadFold, ReadStep

(* A file is read one block after another. *)
LEMMA ReadHasHistory ==
  ASSUME NEW S, NEW file, file.items \in Seq(S), NEW n \in Nat
  PROVE  \E h \in [0 .. Len(file.items) + 1 -> Reading(S)] :
             /\ h[0] = [position |-> 0, read |-> <<>>, over |-> FALSE]
             /\ \A k \in 1 .. Len(file.items) + 1 : h[k] = ReadOnce(file, n, h[k - 1])
             /\ ReadAll(file, n) = h[Len(file.items) + 1]
<1>. DEFINE z == Len(file.items) + 1
            V == Reading(S)
            base == [position |-> 0, read |-> <<>>, over |-> FALSE]
            step == [k \in 1 .. z |-> [v \in V |-> ReadOnce(file, n, v)]]
<1>1. z \in Nat /\ 1 .. Len(file.items) + 1 = 1 .. z
  BY LenProperties
<1>2. base \in V
  BY NothingIsRead
<1>3. AreSteps(step, z, V)
  <2>1. ASSUME NEW k \in 1 .. z
        PROVE  [v \in V |-> ReadOnce(file, n, v)] \in [V -> V]
    BY ReadOnceKeepsType
  <2>. QED BY <2>1 DEF AreSteps
<1>4. \A k \in 1 .. z, v \in V : step[k][v] = ReadOnce(file, n, v)
  OBVIOUS
<1>. HIDE DEF step, V, z, base
<1>5. IsFiniteSet(1 .. z) /\ Picks(Largest(z), 1 .. z)
  BY <1>1, FS_Interval, LargestPicks
<1>6. PICK g : IsFoldOf(g, 1 .. z, V, Largest(z), base, step)
  BY <1>2, <1>3, <1>5, FoldOfExists DEF AreSteps
<1>7. ASSUME NEW s \in SUBSET (1 .. z), s # {}
      PROVE  /\ Largest(z)[s] = Max(s) /\ Max(s) \in 1 .. z
             /\ s \ {Max(s)} \in SUBSET (1 .. z)
  BY <1>5, <1>7, Zenon DEF Largest, Picks
<1>8. IsReadFold(file, n, g)
  <2>1. ASSUME NEW s \in SUBSET (1 .. z) PROVE g[s] = ReadStep(file, n, g, s)
    <3>1. CASE s = {}
      BY <1>6, <3>1 DEF IsFoldOf, Folded, ReadStep, base
    <3>2. CASE s # {}
      <4>. DEFINE m == Max(s)
      <4>1. Largest(z)[s] = m /\ m \in 1 .. z /\ s \ {m} \in SUBSET (1 .. z)
        BY <1>7, <3>2
      <4>2. g[s \ {m}] \in V /\ g[s] = step[m][g[s \ {m}]]
        BY <1>6, <3>2, <4>1 DEF IsFoldOf, Folded
      <4>. HIDE DEF m
      <4>. QED BY <1>4, <3>2, <4>1, <4>2 DEF ReadStep, m
    <3>. QED BY <3>1, <3>2
  <2>2. g = [s \in SUBSET (1 .. z) |-> g[s]]
    BY <1>6 DEF IsFoldOf
  <2>. QED BY <1>1, <2>1, <2>2 DEF IsReadFold
<1>9. PICK f : f = CHOOSE i : IsReadFold(file, n, i)
  OBVIOUS
<1>10. Obeys(f, 1 .. z, V, Largest(z), base, step)
  <2>1. SUFFICES ASSUME NEW s \in SUBSET (1 .. z)
                 PROVE  IF s = {} THEN f[s] = base
                        ELSE f[s \ {Largest(z)[s]}] \in V =>
                             f[s] = step[Largest(z)[s]][f[s \ {Largest(z)[s]}]]
    BY DEF Obeys
  <2>2. f[s] = ReadStep(file, n, f, s)
    <3>1. IsReadFold(file, n, f)
      BY <1>8, <1>9
    <3>. QED BY <1>1, <3>1 DEF IsReadFold
  <2>3. CASE s = {}
    BY <2>2, <2>3 DEF ReadStep, base
  <2>4. CASE s # {}
    <3>. DEFINE m == Max(s)
    <3>1. Largest(z)[s] = m /\ m \in 1 .. z /\ s \ {m} \in SUBSET (1 .. z)
      BY <1>7, <2>4
    <3>2. f[s] = ReadOnce(file, n, f[s \ {m}])
      BY <2>2, <2>4 DEF ReadStep
    <3>. HIDE DEF m
    <3>. QED BY <1>4, <2>4, <3>1, <3>2
  <2>. QED BY <2>3, <2>4
<1>11. PICK h : IsHistory(h, z, V, base, step) /\ f[1 .. z] = h[z]
  BY <1>1, <1>2, <1>3, <1>10, FoldIsHistory
<1>12. ASSUME NEW k \in 1 .. z PROVE h[k] = ReadOnce(file, n, h[k - 1])
  <2>1. k - 1 \in 0 .. z
    BY <1>1
  <2>2. h[k - 1] \in V /\ h[k] = step[k][h[k - 1]]
    BY <1>11, <2>1 DEF IsHistory
  <2>. QED BY <1>4, <2>2
<1>13. ReadAll(file, n) = f[1 .. z]
  BY <1>1, <1>9, ReadIs
<1>. QED BY <1>11, <1>12, <1>13 DEF IsHistory, z, V, base

ArrayStep(samples, n, f, s) ==
    IF s = {} THEN [position |-> 0, read |-> <<>>, over |-> FALSE]
    ELSE ReadArrayOnce(samples, n, f[s \ {Max(s)}])

IsArrayFold(samples, n, f) ==
    f = [s \in SUBSET 1 .. Len(samples) + 1 |-> ArrayStep(samples, n, f, s)]

(* Reading an array as a recursion over the reads. *)
LEMMA ArrayIs ==
  ASSUME NEW samples, NEW n
  PROVE  ReadArray(samples, n) = (CHOOSE f : IsArrayFold(samples, n, f))[1 .. Len(samples) + 1]
BY DEF ReadArray, FoldLeft, MapThenFoldSet, IsArrayFold, ArrayStep

(* An array is read one block after another. *)
LEMMA ArrayHasHistory ==
  ASSUME NEW S, NEW samples \in Seq(S), NEW n \in Nat
  PROVE  \E h \in [0 .. Len(samples) + 1 -> Reading(S)] :
             /\ h[0] = [position |-> 0, read |-> <<>>, over |-> FALSE]
             /\ \A k \in 1 .. Len(samples) + 1 : h[k] = ReadArrayOnce(samples, n, h[k - 1])
             /\ ReadArray(samples, n) = h[Len(samples) + 1]
<1>. DEFINE z == Len(samples) + 1
            V == Reading(S)
            base == [position |-> 0, read |-> <<>>, over |-> FALSE]
            step == [k \in 1 .. z |-> [v \in V |-> ReadArrayOnce(samples, n, v)]]
<1>1. z \in Nat /\ 1 .. Len(samples) + 1 = 1 .. z
  BY LenProperties
<1>2. base \in V
  BY NothingIsRead
<1>3. AreSteps(step, z, V)
  <2>1. ASSUME NEW k \in 1 .. z
        PROVE  [v \in V |-> ReadArrayOnce(samples, n, v)] \in [V -> V]
    BY ReadArrayOnceKeepsType
  <2>. QED BY <2>1 DEF AreSteps
<1>4. \A k \in 1 .. z, v \in V : step[k][v] = ReadArrayOnce(samples, n, v)
  OBVIOUS
<1>. HIDE DEF step, V, z, base
<1>5. IsFiniteSet(1 .. z) /\ Picks(Largest(z), 1 .. z)
  BY <1>1, FS_Interval, LargestPicks
<1>6. PICK g : IsFoldOf(g, 1 .. z, V, Largest(z), base, step)
  BY <1>2, <1>3, <1>5, FoldOfExists DEF AreSteps
<1>7. ASSUME NEW s \in SUBSET (1 .. z), s # {}
      PROVE  /\ Largest(z)[s] = Max(s) /\ Max(s) \in 1 .. z
             /\ s \ {Max(s)} \in SUBSET (1 .. z)
  BY <1>5, <1>7, Zenon DEF Largest, Picks
<1>8. IsArrayFold(samples, n, g)
  <2>1. ASSUME NEW s \in SUBSET (1 .. z) PROVE g[s] = ArrayStep(samples, n, g, s)
    <3>1. CASE s = {}
      BY <1>6, <3>1 DEF IsFoldOf, Folded, ArrayStep, base
    <3>2. CASE s # {}
      <4>. DEFINE m == Max(s)
      <4>1. Largest(z)[s] = m /\ m \in 1 .. z /\ s \ {m} \in SUBSET (1 .. z)
        BY <1>7, <3>2
      <4>2. g[s \ {m}] \in V /\ g[s] = step[m][g[s \ {m}]]
        BY <1>6, <3>2, <4>1 DEF IsFoldOf, Folded
      <4>. HIDE DEF m
      <4>. QED BY <1>4, <3>2, <4>1, <4>2 DEF ArrayStep, m
    <3>. QED BY <3>1, <3>2
  <2>2. g = [s \in SUBSET (1 .. z) |-> g[s]]
    BY <1>6 DEF IsFoldOf
  <2>. QED BY <1>1, <2>1, <2>2 DEF IsArrayFold
<1>9. PICK f : f = CHOOSE i : IsArrayFold(samples, n, i)
  OBVIOUS
<1>10. Obeys(f, 1 .. z, V, Largest(z), base, step)
  <2>1. SUFFICES ASSUME NEW s \in SUBSET (1 .. z)
                 PROVE  IF s = {} THEN f[s] = base
                        ELSE f[s \ {Largest(z)[s]}] \in V =>
                             f[s] = step[Largest(z)[s]][f[s \ {Largest(z)[s]}]]
    BY DEF Obeys
  <2>2. f[s] = ArrayStep(samples, n, f, s)
    <3>1. IsArrayFold(samples, n, f)
      BY <1>8, <1>9
    <3>. QED BY <1>1, <3>1 DEF IsArrayFold
  <2>3. CASE s = {}
    BY <2>2, <2>3 DEF ArrayStep, base
  <2>4. CASE s # {}
    <3>. DEFINE m == Max(s)
    <3>1. Largest(z)[s] = m /\ m \in 1 .. z /\ s \ {m} \in SUBSET (1 .. z)
      BY <1>7, <2>4
    <3>2. f[s] = ReadArrayOnce(samples, n, f[s \ {m}])
      BY <2>2, <2>4 DEF ArrayStep
    <3>. HIDE DEF m
    <3>. QED BY <1>4, <2>4, <3>1, <3>2
  <2>. QED BY <2>3, <2>4
<1>11. PICK h : IsHistory(h, z, V, base, step) /\ f[1 .. z] = h[z]
  BY <1>1, <1>2, <1>3, <1>10, FoldIsHistory
<1>12. ASSUME NEW k \in 1 .. z PROVE h[k] = ReadArrayOnce(samples, n, h[k - 1])
  <2>1. k - 1 \in 0 .. z
    BY <1>1
  <2>2. h[k - 1] \in V /\ h[k] = step[k][h[k - 1]]
    BY <1>11, <2>1 DEF IsHistory
  <2>. QED BY <1>4, <2>2
<1>13. ReadArray(samples, n) = f[1 .. z]
  BY <1>1, <1>9, ArrayIs
<1>. QED BY <1>11, <1>12, <1>13 DEF IsHistory, z, V, base

(* A block that is read goes on where the last one ended. *)
LEMMA NextBlock ==
  ASSUME NEW S, NEW s \in Seq(S), NEW p \in 0 .. Len(s), NEW more \in Nat
  PROVE  /\ EndOf(p, more, Len(s)) \in p .. Len(s)
         /\ Len(Part(s, p, EndOf(p, more, Len(s)))) = EndOf(p, more, Len(s)) - p
         /\ EndOf(p, more, Len(s)) = Len(s) \/ EndOf(p, more, Len(s)) = p + more
<1>1. Len(s) \in Nat
  BY LenProperties
<1>. DEFINE b == EndOf(p, more, Len(s))
<1>2. b \in p .. Len(s) /\ (b = Len(s) \/ b = p + more)
  BY <1>1 DEF EndOf
<1>. HIDE DEF b
<1>3. Len(Part(s, p, b)) = b - p
  BY <1>2, PartIs
<1>. QED BY <1>2, <1>3 DEF b

(* The half of a number, and what is left. *)
LEMMA Halves ==
  ASSUME NEW a \in Nat
  PROVE  \E i \in Nat : a \div 2 = i /\ (a = 2 * i \/ a = 2 * i + 1) /\ (a % 2 = 0 <=> a = 2 * i)
<1>1. /\ a \div 2 \in Int /\ a % 2 \in 0 .. 1 /\ a = (a \div 2) * 2 + (a % 2)
  BY DivMod
<1>2. PICK i \in Int : i = a \div 2
  BY <1>1
<1>3. PICK r \in 0 .. 1 : r = a % 2
  BY <1>1
<1>4. a = i * 2 + r /\ i \in Nat
  BY <1>1, <1>2, <1>3
<1>. QED BY <1>2, <1>3, <1>4

(* The half of a double. *)
LEMMA Doubles ==
  ASSUME NEW i \in Nat
  PROVE  (2 * i) \div 2 = i /\ (2 * i + 1) \div 2 = i /\ (2 * i) % 2 = 0
OBVIOUS

(* After a read there is a pair more of what was there, but for the end. *)
IsAtPair(p, length) == p = length \/ p % 2 = 0

IsBlock(raw, b, s, p, n) == b = EndOf(p, 2 * n, Len(s)) /\ raw = Part(s, p, b)

(* A block read from a pair on ends at a pair or at the end, and what was   *)
(* read before it and its pairs are the pairs up to there.                  *)
LEMMA OneMoreRead ==
  ASSUME NEW S, NEW s \in Seq(S), NEW p \in 0 .. Len(s), NEW n \in Nat \ {0},
         IsAtPair(p, Len(s)),
         NEW b, NEW raw, IsBlock(raw, b, s, p, n)
  PROVE  /\ raw \in Seq(S) /\ Len(raw) = b - p /\ b \in p .. Len(s)
         /\ b = Len(s) \/ b >= p + 2
         /\ IsAtPair(b, Len(s))
         /\ Part(s, 0, 2 * (p \div 2)) \o Even(raw) = Part(s, 0, 2 * (b \div 2))
<1>. DEFINE more == 2 * n
<1>1. Len(s) \in Nat /\ p \in Nat /\ p <= Len(s) /\ more \in Nat /\ more >= 2
  BY LenProperties
<1>2. b \in p .. Len(s) /\ (b = Len(s) \/ b = p + more) /\ b \in Nat
  BY <1>1 DEF EndOf, IsBlock
<1>3. raw \in Seq(S) /\ Len(raw) = b - p /\ raw = Part(s, p, b)
  BY <1>2, PartIs DEF IsBlock
<1>4. PICK i \in Nat : p \div 2 = i /\ (p = 2 * i \/ p = 2 * i + 1)
                       /\ (p % 2 = 0 <=> p = 2 * i)
  BY <1>1, Halves
<1>5. PICK j \in Nat : b \div 2 = j /\ (b = 2 * j \/ b = 2 * j + 1)
  BY <1>2, Halves
<1>6. p = Len(s) \/ p = 2 * i
  BY <1>4 DEF IsAtPair
<1>7. b = Len(s) \/ b % 2 = 0
  <2>1. CASE b = Len(s)
    BY <2>1
  <2>2. CASE b # Len(s)
    <3>1. b = 2 * (i + n) /\ i + n \in Nat
      BY <1>1, <1>2, <1>6, <2>2
    <3>. QED BY <3>1, Doubles
  <2>. QED BY <2>1, <2>2
<1>8. Part(s, 0, 2 * i) \o Even(raw) = Part(s, 0, 2 * j)
  <2>1. Even(raw) = Part(raw, 0, 2 * ((b - p) \div 2))
    BY <1>3, EvenIs
  <2>2. CASE p = Len(s)
    <3>1. b = p /\ b - p = 0 /\ 2 * (0 \div 2) = 0
      BY <1>1, <1>2, <2>2
    <3>2. Part(raw, 0, 0) = <<>>
      BY PartIsNone
    <3>3. i = j
      BY <1>4, <1>5, <3>1
    <3>4. 2 * i \in 0 .. Len(s) /\ 0 \in 0 .. Len(s)
      BY <1>1, <1>4
    <3>5. Part(s, 0, 2 * i) \in Seq(S)
      BY <3>4, PartIs
    <3>6. Even(raw) = <<>>
      BY <2>1, <3>1, <3>2
    <3>. QED BY <3>3, <3>5, <3>6, ConcatEmptySeq
  <2>3. CASE p = 2 * i
    <3>. DEFINE d == 2 * (j - i)
                c == 2 * j
    <3>1. j - i \in Nat /\ (b - p = 2 * (j - i) \/ b - p = 2 * (j - i) + 1)
      BY <1>2, <1>5, <2>3
    <3>2. (b - p) \div 2 = j - i
      BY <3>1, Doubles
    <3>3. /\ d \in 0 .. b - p /\ p + d = c /\ p + 0 = p /\ 0 \in 0 .. b - p
          /\ c \in p .. Len(s) /\ 0 \in 0 .. Len(s) /\ p \in 0 .. Len(s)
      BY <1>1, <1>2, <1>5, <2>3, <3>1
    <3>. HIDE DEF c, d
    <3>4. Part(raw, 0, d) = Part(s, p + 0, p + d)
      BY <1>2, <1>3, <3>3, PartOfPart
    <3>5. Part(s, 0, p) \o Part(s, p, c) = Part(s, 0, c)
      BY <3>3, PartsJoin
    <3>6. Even(raw) = Part(s, p, c)
      BY <2>1, <3>2, <3>3, <3>4 DEF d
    <3>. QED BY <2>3, <3>5, <3>6 DEF c
  <2>. QED BY <1>6, <2>2, <2>3
<1>9. b = Len(s) \/ b >= p + 2
  BY <1>1, <1>2
<1>. QED BY <1>2, <1>3, <1>4, <1>5, <1>7, <1>8, <1>9 DEF IsAtPair

ReadSoFar(v, s, k) ==
    /\ v.position \in 0 .. Len(s)
    /\ v.read = Part(s, 0, 2 * (v.position \div 2))
    /\ v.over \in BOOLEAN
    /\ v.over => v.position = Len(s)
    /\ IsAtPair(v.position, Len(s))
    /\ v.position = Len(s) \/ v.position >= k

(* After k reads all pairs up to the position were read, and the position is*)
(* no less than k, or the end.                                              *)
LEMMA ReadOnceReadsOn ==
  ASSUME NEW S, NEW file, file.items \in Seq(S), NEW n \in Nat \ {0}, NEW k \in Nat \ {0},
         NEW v, ReadSoFar(v, file.items, k - 1)
  PROVE  ReadSoFar(ReadOnce(file, n, v), file.items, k)
<1>1. PICK s \in Seq(S) : s = file.items
  OBVIOUS
<1>2. PICK p \in 0 .. Len(s) : p = v.position
  BY <1>1 DEF ReadSoFar
<1>. DEFINE next == ReadOnce(file, n, v)
<1>3. /\ v.read = Part(s, 0, 2 * (p \div 2)) /\ v.over \in BOOLEAN
      /\ v.over => p = Len(s)
      /\ IsAtPair(p, Len(s))
      /\ p = Len(s) \/ p >= k - 1
  BY <1>1, <1>2 DEF ReadSoFar
<1>4. Len(s) \in Nat /\ p \in Nat
  BY LenProperties
<1>5. CASE v.over
  <2>1. next = v
    BY <1>5 DEF ReadOnce
  <2>. QED BY <1>1, <1>2, <1>3, <1>5, <2>1 DEF ReadSoFar
<1>6. CASE ~v.over
  <2>. DEFINE more == 2 * n
  <2>1. PICK b : b = EndOf(p, more, Len(s))
    OBVIOUS
  <2>2. PICK raw : raw = Part(s, p, b)
    OBVIOUS
  <2>3. /\ raw \in Seq(S) /\ Len(raw) = b - p /\ b \in p .. Len(s)
        /\ b = Len(s) \/ b >= p + 2
        /\ IsAtPair(b, Len(s))
        /\ Part(s, 0, 2 * (p \div 2)) \o Even(raw) = Part(s, 0, 2 * (b \div 2))
    <3>1. IsAtPair(p, Len(s))
      BY <1>3
    <3>2. IsBlock(raw, b, s, p, n)
      BY <2>1, <2>2 DEF IsBlock
    <3>. QED BY <3>1, <3>2, OneMoreRead
  <2>4. raw = RawBlock(file, p, n)
    <3>1. more \in Nat
      OBVIOUS
    <3>. HIDE DEF more
    <3>2. SubSeq(s, p + 1, AtMost(p + more, Len(s))) = Part(s, p, EndOf(p, more, Len(s)))
      BY <1>4, <3>1, BlockIs
    <3>. QED BY <1>1, <2>1, <2>2, <3>2 DEF RawBlock, more
  <2>5. next = [position |-> p + Len(raw), read |-> v.read \o Even(raw),
                over |-> Len(raw) < 2]
    BY <1>2, <1>6, <2>4 DEF ReadOnce
  <2>6. p + Len(raw) = b /\ (Len(raw) < 2 => b = Len(s)) /\ (Len(raw) < 2) \in BOOLEAN
    BY <1>4, <2>3
  <2>7. b = Len(s) \/ b >= k
    BY <1>3, <1>4, <2>3
  <2>8. b \in 0 .. Len(s)
    BY <1>4, <2>3
  <2>. HIDE DEF next
  <2>9. /\ next.position = b /\ next.over = (Len(raw) < 2)
        /\ next.read = Part(s, 0, 2 * (b \div 2))
    BY <1>3, <2>3, <2>5, <2>6
  <2>10. ReadSoFar(next, s, k)
    BY <2>3, <2>6, <2>7, <2>8, <2>9 DEF ReadSoFar
  <2>. QED BY <1>1, <2>10 DEF next
<1>. QED BY <1>3, <1>5, <1>6

ArraySoFar(v, s, k) ==
    /\ v.position \in 0 .. Len(s)
    /\ v.read = Part(s, 0, v.position)
    /\ v.position = Len(s) \/ v.position >= k

(* After k reads of an array the same holds of its samples. *)
LEMMA ReadArrayOnceReadsOn ==
  ASSUME NEW S, NEW s \in Seq(S), NEW n \in Nat \ {0}, NEW k \in Nat \ {0},
         NEW v \in Reading(S), ArraySoFar(v, s, k - 1)
  PROVE  ArraySoFar(ReadArrayOnce(s, n, v), s, k)
<1>1. PICK p \in 0 .. Len(s) : p = v.position
  BY DEF ArraySoFar
<1>. DEFINE next == ReadArrayOnce(s, n, v)
<1>2. v.read = Part(s, 0, p) /\ (p = Len(s) \/ p >= k - 1)
  BY <1>1 DEF ArraySoFar
<1>3. Len(s) \in Nat /\ p \in Nat
  BY LenProperties
<1>4. v \in [position : Nat, read : Seq(S), over : BOOLEAN]
  BY DEF Reading
<1>5. CASE p >= Len(s)
  <2>1. next = [v EXCEPT !.over = TRUE]
    BY <1>1, <1>5 DEF ReadArrayOnce
  <2>. HIDE DEF next
  <2>2. next.position = p /\ next.read = v.read
    BY <1>1, <1>4, <2>1, SMT
  <2>3. p = Len(s)
    BY <1>3, <1>5
  <2>. QED BY <1>2, <2>2, <2>3 DEF ArraySoFar, next
<1>6. CASE ~(p >= Len(s))
  <2>1. PICK b : b = EndOf(p, n, Len(s))
    OBVIOUS
  <2>2. b \in p .. Len(s) /\ Len(Part(s, p, b)) = b - p /\ (b = Len(s) \/ b = p + n)
    BY <2>1, NextBlock
  <2>3. PICK block : block = Part(s, p, b)
    OBVIOUS
  <2>4. block = SubSeq(s, p + 1, AtMost(p + n, Len(s)))
    BY <1>3, <2>1, <2>3, BlockIs
  <2>5. next = [v EXCEPT !.position = p + Len(block), !.read = v.read \o block]
    BY <1>1, <1>6, <2>4 DEF ReadArrayOnce
  <2>. HIDE DEF next
  <2>6. next.position = p + Len(block) /\ next.read = v.read \o block
    BY <1>4, <2>5, SMT
  <2>7. p + Len(block) = b /\ (b = Len(s) \/ b >= k) /\ b \in 0 .. Len(s)
    BY <1>2, <1>3, <2>2, <2>3
  <2>8. v.read \o block = Part(s, 0, b)
    <3>1. 0 \in 0 .. Len(s)
      BY <1>3
    <3>. QED BY <1>2, <2>2, <2>3, <3>1, PartsJoin
  <2>. QED BY <2>6, <2>7, <2>8 DEF ArraySoFar, next
<1>. QED BY <1>5, <1>6

(* All of the recording, whatever the size of the blocks. *)
LEMMA AllIsRead ==
  ASSUME NEW S, NEW file, file.items \in Seq(S), NEW n \in Nat \ {0}
  PROVE  ReadAll(file, n).read = Part(file.items, 0, 2 * (Len(file.items) \div 2))
<1>. DEFINE L == Len(file.items)
<1>1. L \in Nat /\ L + 1 \in Nat
  BY LenProperties
<1>2. PICK h \in [0 .. L + 1 -> Reading(S)] :
          /\ h[0] = [position |-> 0, read |-> <<>>, over |-> FALSE]
          /\ \A k \in 1 .. L + 1 : h[k] = ReadOnce(file, n, h[k - 1])
          /\ ReadAll(file, n) = h[L + 1]
  BY ReadHasHistory
<1>. HIDE DEF L
<1>. DEFINE Good == {k \in 0 .. L + 1 : ReadSoFar(h[k], file.items, k)}
<1>3. 0 \in Good
  <2>1. 2 * (0 \div 2) = 0 /\ 0 % 2 = 0 /\ 0 \in 0 .. L + 1 /\ 0 \in 0 .. L
    BY <1>1
  <2>2. Part(file.items, 0, 0) = <<>>
    BY PartIsNone
  <2>3. h[0].position = 0 /\ h[0].read = <<>> /\ h[0].over = FALSE
    BY <1>2
  <2>4. ReadSoFar(h[0], file.items, 0)
    BY <2>1, <2>2, <2>3 DEF ReadSoFar, IsAtPair, L
  <2>. QED BY <2>1, <2>4
<1>4. ASSUME NEW k \in 1 .. L + 1, k - 1 \in Good PROVE k \in Good
  <2>1. ReadSoFar(h[k - 1], file.items, k - 1) /\ k \in Nat \ {0} /\ k \in 0 .. L + 1
    BY <1>1, <1>4
  <2>2. ReadSoFar(ReadOnce(file, n, h[k - 1]), file.items, k)
    BY <2>1, ReadOnceReadsOn
  <2>. QED BY <1>2, <2>1, <2>2
<1>. HIDE DEF Good
<1>5. L + 1 \in Good
  BY <1>1, <1>3, <1>4, StepByStep
<1>6. ReadSoFar(h[L + 1], file.items, L + 1)
  BY <1>5 DEF Good
<1>7. h[L + 1].position = L
  BY <1>1, <1>6 DEF ReadSoFar, L
<1>. QED BY <1>2, <1>6, <1>7 DEF ReadSoFar, L

(* An array is read whole. *)
LEMMA AllOfArrayIsRead ==
  ASSUME NEW S, NEW s \in Seq(S), NEW n \in Nat \ {0}
  PROVE  ReadArray(s, n).read = s
<1>. DEFINE L == Len(s)
<1>1. L \in Nat /\ L + 1 \in Nat
  BY LenProperties
<1>2. PICK h \in [0 .. L + 1 -> Reading(S)] :
          /\ h[0] = [position |-> 0, read |-> <<>>, over |-> FALSE]
          /\ \A k \in 1 .. L + 1 : h[k] = ReadArrayOnce(s, n, h[k - 1])
          /\ ReadArray(s, n) = h[L + 1]
  BY ArrayHasHistory
<1>. HIDE DEF L
<1>. DEFINE Good == {k \in 0 .. L + 1 : ArraySoFar(h[k], s, k)}
<1>3. 0 \in Good
  <2>1. 0 \in 0 .. L + 1 /\ 0 \in 0 .. L
    BY <1>1
  <2>2. Part(s, 0, 0) = <<>>
    BY PartIsNone
  <2>. QED BY <1>2, <2>1, <2>2 DEF ArraySoFar, L
<1>4. ASSUME NEW k \in 1 .. L + 1, k - 1 \in Good PROVE k \in Good
  <2>1. /\ ArraySoFar(h[k - 1], s, k - 1) /\ k \in Nat \ {0}
        /\ k \in 0 .. L + 1 /\ k - 1 \in 0 .. L + 1
    BY <1>1, <1>4
  <2>2. h[k - 1] \in Reading(S)
    BY <1>2, <2>1
  <2>3. ArraySoFar(ReadArrayOnce(s, n, h[k - 1]), s, k)
    BY <2>1, <2>2, ReadArrayOnceReadsOn
  <2>. QED BY <1>2, <2>1, <2>3
<1>. HIDE DEF Good
<1>5. L + 1 \in Good
  BY <1>1, <1>3, <1>4, StepByStep
<1>6. ArraySoFar(h[L + 1], s, L + 1)
  BY <1>5 DEF Good
<1>7. h[L + 1].position = L
  BY <1>1, <1>6 DEF ArraySoFar, L
<1>8. Part(s, 0, Len(s)) = s
  BY PartIsAll
<1>. QED BY <1>2, <1>6, <1>7, <1>8 DEF ArraySoFar, L

(* A vector: pairs of the span, the first of every ratio. *)
Span2(items, start, duration) == SubSeq(items, 2 * start + 1, 2 * (start + duration))

Kept(duration, ratio) == (duration + ratio - 1) \div ratio

(* The samples kept of a span lie in it. *)
LEMMA KeptAreInSpan ==
  ASSUME NEW duration \in Nat, NEW ratio \in Nat \ {0}
  PROVE  /\ Kept(duration, ratio) \in Nat
         /\ \A i \in 0 .. Kept(duration, ratio) - 1 : ratio * i \in 0 .. duration - 1
<1>. DEFINE m == Kept(duration, ratio)
            r == (duration + ratio - 1) % ratio
<1>1. m \in Int /\ r \in 0 .. ratio - 1 /\ duration + ratio - 1 = m * ratio + r
  <2>1. \A a \in Int : a \div ratio \in Int /\ a % ratio \in 0 .. ratio - 1
                       /\ a = (a \div ratio) * ratio + (a % ratio)
    BY DivMod
  <2>2. duration + ratio - 1 \in Int
    OBVIOUS
  <2>. QED BY ONLY <2>1, <2>2, Zenon DEF Kept
<1>. HIDE DEF m, r
<1>2. m >= 0
  <2>1. SUFFICES ASSUME m < 0 PROVE FALSE
    BY <1>1
  <2>2. m * ratio + ratio <= 0 * ratio
    BY <1>1, <2>1, StepsApart
  <2>3. m * ratio \in Int /\ 0 * ratio = 0
    BY <1>1
  <2>. QED BY <1>1, <2>2, <2>3
<1>3. ASSUME NEW i \in 0 .. m - 1 PROVE ratio * i \in 0 .. duration - 1
  <2>1. i * ratio + ratio <= m * ratio
    BY <1>1, StepsApart
  <2>2. i * ratio = ratio * i /\ ratio * i \in Nat /\ m * ratio \in Int
    BY <1>1
  <2>. QED BY <1>1, <2>1, <2>2
<1>. QED BY <1>1, <1>2, <1>3 DEF m

IsIn(items, start, duration) == 2 * (start + duration) <= Len(items)

(* The span cut out of a recording. *)
LEMMA SpanIs ==
  ASSUME NEW S, NEW items \in Seq(S), NEW start \in Nat, NEW duration \in Nat,
         IsIn(items, start, duration)
  PROVE  /\ Span2(items, start, duration) \in Seq(S)
         /\ Len(Span2(items, start, duration)) = 2 * duration
         /\ \A i \in 1 .. 2 * duration :
                Span2(items, start, duration)[i] = items[2 * start + i]
<1>. DEFINE a == 2 * start
            b == 2 * (start + duration)
<1>1. Len(items) \in Nat
  BY LenProperties
<1>2. a \in 0 .. Len(items) /\ b \in a .. Len(items) /\ b - a = 2 * duration
  BY <1>1 DEF IsIn
<1>3. Span2(items, start, duration) = Part(items, a, b)
  BY DEF Span2, Part
<1>. HIDE DEF a, b
<1>4. /\ Part(items, a, b) \in Seq(S) /\ Len(Part(items, a, b)) = b - a
      /\ \A i \in 1 .. b - a : Part(items, a, b)[i] = items[a + i]
  BY <1>2, PartIs
<1>. QED BY <1>2, <1>3, <1>4 DEF a

IsThinned(d, span, duration, ratio, m) ==
    /\ Len(d) = 2 * m /\ m \in Nat
    /\ \A i \in 0 .. m - 1 :
           /\ 2 * (ratio * i) + 2 <= 2 * duration /\ ratio * i \in Nat
           /\ d[2 * i + 1] = span[2 * (ratio * i) + 1]
           /\ d[2 * i + 2] = span[2 * (ratio * i) + 2]

IsOfLength(span, duration) == Len(span) = 2 * duration

(* Of a span, the first sample of every ratio is kept. *)
LEMMA DecimatedIs ==
  ASSUME NEW S, NEW span \in Seq(S), NEW duration \in Nat, NEW ratio \in Nat \ {0},
         IsOfLength(span, duration)
  PROVE  /\ Decimated(span, ratio) \in Seq(S)
         /\ IsThinned(Decimated(span, ratio), span, duration, ratio, Kept(duration, ratio))
<1>. DEFINE d == Decimated(span, ratio)
            m == Kept(duration, ratio)
            at(k) == 2 * ratio * ((k - 1) \div 2) + ((k - 1) % 2) + 1
<1>1. m \in Nat /\ \A i \in 0 .. m - 1 : ratio * i \in 0 .. duration - 1
  BY KeptAreInSpan
<1>2. d = [k \in 1 .. 2 * m |-> span[at(k)]]
  <2>1. (2 * duration) \div 2 = duration
    BY Doubles
  <2>. QED BY <2>1 DEF Decimated, Kept, IsOfLength
<1>. HIDE DEF m
<1>3. ASSUME NEW i \in 0 .. m - 1
      PROVE  /\ 2 * (ratio * i) + 2 <= 2 * duration /\ ratio * i \in Nat
             /\ at(2 * i + 1) = 2 * (ratio * i) + 1
             /\ at(2 * i + 2) = 2 * (ratio * i) + 2
             /\ 2 * i + 1 \in 1 .. 2 * m /\ 2 * i + 2 \in 1 .. 2 * m
  <2>1. i \in Nat /\ i <= m - 1
    BY <1>1
  <2>2. ratio * i \in 0 .. duration - 1
    BY <1>1
  <2>3. /\ (2 * i + 1) - 1 = 2 * i /\ (2 * i + 2) - 1 = 2 * i + 1
        /\ (2 * i) \div 2 = i /\ (2 * i + 1) \div 2 = i
        /\ (2 * i) % 2 = 0 /\ (2 * i + 1) % 2 = 1
    BY <2>1, Doubles
  <2>4. 2 * ratio * i = 2 * (ratio * i)
    BY <2>1
  <2>5. /\ at(2 * i + 1) = 2 * ratio * i + 0 + 1
        /\ at(2 * i + 2) = 2 * ratio * i + 1 + 1
    BY <2>3
  <2>6. PICK j \in 0 .. duration - 1 : j = ratio * i
    BY <2>2
  <2>7. 2 * j + 0 + 1 = 2 * j + 1 /\ 2 * j + 1 + 1 = 2 * j + 2 /\ 2 * j + 2 <= 2 * duration
    OBVIOUS
  <2>8. 2 * i + 1 \in 1 .. 2 * m /\ 2 * i + 2 \in 1 .. 2 * m
    BY <1>1, <2>1
  <2>. HIDE DEF at
  <2>. QED BY <2>2, <2>4, <2>5, <2>6, <2>7, <2>8
<1>4. ASSUME NEW k \in 1 .. 2 * m PROVE span[at(k)] \in S
  <2>1. k - 1 \in Nat
    BY <1>1
  <2>2. PICK i \in Nat : k - 1 = 2 * i \/ k - 1 = 2 * i + 1
    BY <2>1, Halves
  <2>3. i \in 0 .. m - 1 /\ (k = 2 * i + 1 \/ k = 2 * i + 2)
    BY <1>1, <2>2
  <2>. HIDE DEF at
  <2>4. \E j \in 1 .. 2 * duration : at(k) = j
    <3>1. PICK j \in Nat : j = ratio * i
      BY <1>3, <2>3
    <3>2. at(k) = 2 * j + 1 \/ at(k) = 2 * j + 2
      BY <1>3, <2>3, <3>1
    <3>3. 2 * j + 2 <= 2 * duration
      BY <1>3, <2>3, <3>1
    <3>4. 2 * j + 1 \in 1 .. 2 * duration /\ 2 * j + 2 \in 1 .. 2 * duration
      BY <3>3
    <3>. QED BY <3>2, <3>4
  <2>. QED BY <2>4, ElementOfSeq DEF IsOfLength
<1>5. d \in [1 .. 2 * m -> S]
  BY <1>2, <1>4
<1>6. 2 * m \in Nat
  BY <1>1
<1>7. d \in Seq(S) /\ Len(d) = 2 * m
  <2>. DEFINE c == 2 * m
  <2>1. c \in Nat /\ d \in [1 .. c -> S]
    BY <1>5, <1>6
  <2>. HIDE DEF c, d
  <2>2. d \in Seq(S)
    BY <2>1, SeqDef
  <2>3. DOMAIN d = 1 .. c /\ DOMAIN d = 1 .. Len(d) /\ Len(d) \in Nat
    BY <2>1, <2>2, LenProperties
  <2>. QED BY <2>1, <2>2, <2>3 DEF c
<1>8. ASSUME NEW i \in 0 .. m - 1
      PROVE  d[2 * i + 1] = span[2 * (ratio * i) + 1] /\ d[2 * i + 2] = span[2 * (ratio * i) + 2]
  <2>. HIDE DEF at, d
  <2>1. \A k \in 1 .. 2 * m : d[k] = span[at(k)]
    BY <1>2
  <2>2. d[2 * i + 1] = span[at(2 * i + 1)] /\ d[2 * i + 2] = span[at(2 * i + 2)]
    BY <1>3, <2>1
  <2>. QED BY <1>3, <2>2
<1>. HIDE DEF d
<1>. QED BY <1>1, <1>3, <1>7, <1>8 DEF d, m, IsThinned

SamePair(d, a, s, b) ==
    /\ a + 2 <= Len(d) /\ b + 2 <= Len(s)
    /\ d[a + 1] = s[b + 1] /\ d[a + 2] = s[b + 2]

PairAt(s, a) == SubSeq(s, a + 1, a + 2)

(* The same two numbers are the same pair. *)
LEMMA PairsAreSame ==
  ASSUME NEW S, NEW d \in Seq(S), NEW s \in Seq(S), NEW a \in Nat, NEW b \in Nat,
         SamePair(d, a, s, b)
  PROVE  PairAt(d, a) = PairAt(s, b)
<1>. DEFINE t == Part(d, a, a + 2)
            u == Part(s, b, b + 2)
<1>1. Len(d) \in Nat /\ Len(s) \in Nat
  BY LenProperties
<1>2. t \in Seq(S) /\ Len(t) = (a + 2) - a /\ \A i \in 1 .. (a + 2) - a : t[i] = d[a + i]
  <2>1. a \in 0 .. Len(d) /\ a + 2 \in a .. Len(d)
    BY <1>1 DEF SamePair
  <2>. QED BY <2>1, PartIs
<1>3. u \in Seq(S) /\ Len(u) = (b + 2) - b /\ \A i \in 1 .. (b + 2) - b : u[i] = s[b + i]
  <2>1. b \in 0 .. Len(s) /\ b + 2 \in b .. Len(s)
    BY <1>1 DEF SamePair
  <2>. QED BY <2>1, PartIs
<1>. HIDE DEF t, u
<1>4. (a + 2) - a = 2 /\ (b + 2) - b = 2
  OBVIOUS
<1>5. ASSUME NEW i \in 1 .. 2 PROVE t[i] = u[i]
  <2>1. i = 1 \/ i = 2
    OBVIOUS
  <2>. QED BY <1>2, <1>3, <1>4, <2>1 DEF SamePair
<1>6. t = u
  BY <1>2, <1>3, <1>4, <1>5, SeqEqual
<1>. QED BY <1>6 DEF t, u, Part, PairAt

IsOfSpan(d, items, start, ratio) ==
    \A k \in 1 .. Len(d) \div 2 :
        LET of == 2 * (start + (k - 1) * ratio)
        IN  SubSeq(d, 2 * k - 1, 2 * k) = SubSeq(items, of + 1, of + 2)

ArePairs(d) == Part(d, 0, 2 * (Len(d) \div 2)) = d

ThinnedSpan(items, start, duration, ratio) ==
    Decimated(Span2(items, start, duration), ratio)

(* A vector has the samples of the recording it was asked for. *)
LEMMA VectorIsOfSpan ==
  ASSUME NEW S, NEW items \in Seq(S), NEW start \in Nat, NEW duration \in Nat,
         NEW ratio \in Nat \ {0}, IsIn(items, start, duration),
         NEW d, d = ThinnedSpan(items, start, duration, ratio)
  PROVE  d \in Seq(S) /\ ArePairs(d) /\ IsOfSpan(d, items, start, ratio)
<1>1. PICK span : span = Span2(items, start, duration)
  OBVIOUS
<1>2. /\ span \in Seq(S) /\ Len(span) = 2 * duration
      /\ \A i \in 1 .. 2 * duration : span[i] = items[2 * start + i]
  BY <1>1, SpanIs DEF IsOfLength
<1>3. PICK m : m = Kept(duration, ratio)
  OBVIOUS
<1>4. /\ d \in Seq(S) /\ Len(d) = 2 * m /\ m \in Nat
      /\ \A i \in 0 .. m - 1 :
             /\ 2 * (ratio * i) + 2 <= 2 * duration /\ ratio * i \in Nat
             /\ d[2 * i + 1] = span[2 * (ratio * i) + 1]
             /\ d[2 * i + 2] = span[2 * (ratio * i) + 2]
  <2>1. d = Decimated(span, ratio)
    BY <1>1 DEF ThinnedSpan
  <2>2. IsOfLength(span, duration)
    BY <1>2 DEF IsOfLength
  <2>3. d \in Seq(S) /\ IsThinned(d, span, duration, ratio, m)
    BY <1>2, <1>3, <2>1, <2>2, DecimatedIs
  <2>. QED BY <2>3 DEF IsThinned
<1>5. Len(d) \div 2 = m /\ 2 * (Len(d) \div 2) = Len(d)
  BY <1>4, Doubles
<1>6. Part(d, 0, Len(d)) = d
  BY <1>4, PartIsAll
<1>7. ASSUME NEW k \in 1 .. m
      PROVE  SubSeq(d, 2 * k - 1, 2 * k) =
                 SubSeq(items, 2 * (start + (k - 1) * ratio) + 1,
                        2 * (start + (k - 1) * ratio) + 2)
  <2>1. PICK i \in 0 .. m - 1 : i = k - 1
    BY <1>4
  <2>2. PICK j \in Nat : j = ratio * i /\ 2 * j + 2 <= 2 * duration
    BY <1>4
  <2>3. d[2 * i + 1] = span[2 * j + 1] /\ d[2 * i + 2] = span[2 * j + 2]
    BY <1>4, <2>2
  <2>4. (k - 1) * ratio = j
    BY <1>4, <2>1, <2>2
  <2>. DEFINE a == 2 * i
              b == 2 * (start + j)
  <2>5. /\ a \in Nat /\ b \in Nat /\ a + 2 <= Len(d) /\ b + 2 <= Len(items)
        /\ 2 * k - 1 = a + 1 /\ 2 * k = a + 2
    <3>1. Len(items) \in Nat
      BY LenProperties
    <3>2. i \in Nat /\ i <= m - 1 /\ m \in Nat /\ k = i + 1
      BY <1>4, <2>1
    <3>3. 2 * (start + duration) <= Len(items)
      BY DEF IsIn
    <3>4. 2 * (start + j) + 2 <= Len(items)
      BY <2>2, <3>1, <3>3
    <3>5. 2 * i + 2 <= Len(d)
      BY <1>4, <3>2
    <3>6. 2 * k - 1 = 2 * i + 1 /\ 2 * k = 2 * i + 2
      BY <3>2
    <3>. QED BY <3>2, <3>4, <3>5, <3>6
  <2>6. span[2 * j + 1] = items[b + 1] /\ span[2 * j + 2] = items[b + 2]
    <3>1. 2 * j + 1 \in 1 .. 2 * duration /\ 2 * j + 2 \in 1 .. 2 * duration
      BY <2>2
    <3>2. 2 * start + (2 * j + 1) = b + 1 /\ 2 * start + (2 * j + 2) = b + 2
      OBVIOUS
    <3>3. /\ span[2 * j + 1] = items[2 * start + (2 * j + 1)]
          /\ span[2 * j + 2] = items[2 * start + (2 * j + 2)]
      BY <1>2, <3>1
    <3>. HIDE DEF b
    <3>. QED BY <3>2, <3>3
  <2>7. d[a + 1] = items[b + 1] /\ d[a + 2] = items[b + 2]
    BY <2>3, <2>6
  <2>. HIDE DEF a, b
  <2>8. SamePair(d, a, items, b)
    BY <2>5, <2>7 DEF SamePair
  <2>9. PairAt(d, a) = PairAt(items, b)
    BY <1>4, <2>5, <2>8, PairsAreSame
  <2>. QED BY <2>4, <2>5, <2>9 DEF b, PairAt
<1>. QED BY <1>4, <1>5, <1>6, <1>7 DEF IsOfSpan, ArePairs

(* What a replay yields is the recording, and a vector is of its span. *)
LEMMA ReplayCorrect ==
  ASSUME task \in DOMAIN InputsOf, input \in InputsOf[task], Results
  PROVE  ReplayIsFaithful
<1>1. SUFFICES ASSUME Is("replay") PROVE ReplayIsFaithful
  BY DEF ReplayIsFaithful
<1>2. input \in Captures
  BY <1>1 DEF Is, InputsOf
<1>3. output = Replayed(input)
  BY <1>1 DEF Results
<1>. DEFINE S         == Range(input.items)
            recording == Recorded(input.begin, input.items)
            vector    == Extracted(recording, input.start, input.duration,
                                       input.ratio, input.later)
            holds     == Holds(recording, input.start, input.duration)
<1>4. /\ input.items \in Seq(S) /\ input.block \in Nat \ {0} /\ input.ratio \in Nat \ {0}
      /\ input.begin \in Nat /\ input.start \in Nat /\ input.duration \in Nat
  BY <1>2, InputsAssumption DEF InputsAssumption
<1>. HIDE DEF S
<1>5. Len(input.items) \in Nat
  BY <1>4, LenProperties
<1>6. recording.items = input.items
  BY DEF Recorded
<1>7. /\ output.start = InferStart(recording)
      /\ output.read = ReadAll(recording, input.block).read
      /\ output.array = ReadArray(input.items, input.block).read
      /\ output.vector = IF holds
                         THEN <<[start |-> InferStart(vector),
                                 read  |-> ReadAll(vector, input.block).read]>>
                         ELSE <<>>
  BY <1>3 DEF Replayed
<1>8. output.start = input.begin
  <2>1. /\ recording.sidecar = NoStart
        /\ recording.modified = input.begin + (Len(input.items) \div 2)
        /\ TotalSamples(recording) = Len(input.items) \div 2
    BY DEF Recorded, TotalSamples
  <2>2. PICK i \in Nat : i = Len(input.items) \div 2
    BY <1>5, Halves
  <2>3. InferStart(recording) = (input.begin + i) - i
    BY <2>1, <2>2 DEF InferStart
  <2>. QED BY <1>4, <1>7, <2>3
<1>. HIDE DEF recording
<1>9. output.read = SubSeq(input.items, 1, 2 * (Len(input.items) \div 2))
  <2>1. recording.items \in Seq(S)
    BY <1>4, <1>6
  <2>2. ReadAll(recording, input.block).read =
            Part(recording.items, 0, 2 * (Len(recording.items) \div 2))
    BY <1>4, <2>1, AllIsRead
  <2>3. 0 + 1 = 1
    OBVIOUS
  <2>. QED BY <1>6, <1>7, <2>2, <2>3 DEF Part
<1>10. output.array = input.items
  BY <1>4, <1>7, AllOfArrayIsRead
<1>11. ASSUME output.vector # <<>>, NEW k \in 1 .. Len(output.vector[1].read) \div 2
       PROVE  LET of == 2 * (input.start + (k - 1) * input.ratio)
              IN  SubSeq(output.vector[1].read, 2 * k - 1, 2 * k) =
                      SubSeq(input.items, of + 1, of + 2)
  <2>1. holds /\ output.vector[1].read = ReadAll(vector, input.block).read
    BY <1>7, <1>11
  <2>2. IsIn(input.items, input.start, input.duration)
    BY <1>6, <2>1 DEF Holds, IsIn
  <2>3. PICK d : d = ThinnedSpan(input.items, input.start, input.duration, input.ratio)
    OBVIOUS
  <2>4. vector.items = d
    BY <1>6, <2>3 DEF Extracted, Span2, ThinnedSpan
  <2>5. /\ d \in Seq(S) /\ Part(d, 0, 2 * (Len(d) \div 2)) = d
        /\ IsOfSpan(d, input.items, input.start, input.ratio)
    <3>1. PICK items \in Seq(S) : items = input.items
      BY <1>4
    <3>2. PICK start \in Nat, duration \in Nat : start = input.start /\ duration = input.duration
      BY <1>4
    <3>3. PICK ratio \in Nat \ {0} : ratio = input.ratio
      BY <1>4
    <3>4. IsIn(items, start, duration) /\ d = ThinnedSpan(items, start, duration, ratio)
      BY <2>2, <2>3, <3>1, <3>2, <3>3
    <3>5. d \in Seq(S) /\ ArePairs(d) /\ IsOfSpan(d, items, start, ratio)
      BY <3>4, VectorIsOfSpan
    <3>. QED BY <3>1, <3>2, <3>3, <3>5 DEF ArePairs
  <2>. HIDE DEF vector
  <2>6. vector.items \in Seq(S)
    BY <2>4, <2>5
  <2>7. ReadAll(vector, input.block).read = Part(d, 0, 2 * (Len(d) \div 2))
    BY <1>4, <2>4, <2>6, AllIsRead
  <2>8. output.vector[1].read = d
    BY <2>1, <2>5, <2>7
  <2>. QED BY <1>11, <2>5, <2>8 DEF IsOfSpan
<1>. QED BY <1>8, <1>9, <1>10, <1>11 DEF ReplayIsFaithful

(* What is made of a recording is of it once and in order, in whatever      *)
(* chunks or blocks it is read, and of all of it but for the waterfall,     *)
(* whose rows span it only when frames fill them: t4a_atten_sweep.py,       *)
(* core/survey.py, BitAccumulator, core/source.py, cli/extract_vector.py.   *)
THEOREM RecordingsCorrect == Spec => []RecordingsAreReadWhole
<1>1. /\ task \in DOMAIN InputsOf /\ input \in InputsOf[task]
      /\ Results
      => RecordingsAreReadWhole
  BY ChunksCorrect, ReplayCorrect DEF RecordingsAreReadWhole
<1>. QED BY <1>1, TaskOf, ResultsAlways, PTL
=============================================================================
