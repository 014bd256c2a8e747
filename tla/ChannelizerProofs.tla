------------------------- MODULE ChannelizerProofs -------------------------
(* Theorems about Channelizer, for every geometry of the filter bank and   *)
(* every cut of the stream in blocks.                                      *)
EXTENDS Channelizer, TLAPS

-----------------------------------------------------------------------------
(* Integer division.                                                       *)

(* The quotient of the division that FrameCount makes, bracketed. *)
LEMMA DivBounds ==
  ASSUME NEW a \in Nat, NEW d \in Nat \ {0}
  PROVE  /\ a \div d \in Nat
         /\ (a \div d) * d <= a
         /\ a < (a \div d) * d + d
OBVIOUS

(* A quotient is determined by that bracket. *)
LEMMA DivUnique ==
  ASSUME NEW a \in Nat, NEW d \in Nat \ {0}, NEW q \in Nat,
         q * d <= a, a < q * d + d
  PROVE  a \div d = q
<1>. DEFINE p == a \div d
<1>1. p \in Nat /\ p * d <= a /\ a < p * d + d
  BY DivBounds
<1>. HIDE DEF p
<1>2. ASSUME NEW x \in Nat, NEW y \in Nat, x < y
      PROVE x * d + d <= y * d
  <2>1. (x + 1) * d <= y * d
    BY <1>2
  <2>. QED BY <2>1
<1>3. ~(p < q) /\ ~(q < p)
  BY <1>1, <1>2
<1>4. p = q
  BY <1>1, <1>3
<1>. QED BY <1>4 DEF p

-----------------------------------------------------------------------------
(* FrameCount.                                                             *)

(* The types of the filter bank's sizes, which every step below needs. *)
LEMMA GeometryType ==
  /\ D \in Nat \ {0} /\ L \in Nat \ {0} /\ P \in Nat \ {0}
BY GeometryAssumption DEF L, M

(* What is left of a stream after the frames it makes is shorter than a    *)
(* window, and no frame reaches back before the stream.                    *)
LEMMA FrameCountBounds ==
  ASSUME NEW size \in Nat
  PROVE  /\ FrameCount(size) \in Nat
         /\ FrameCount(size) * D <= size
         /\ size - FrameCount(size) * D < L
         /\ FrameCount(size) > 0 => (FrameCount(size) - 1) * D + L <= size
<1>. USE GeometryType
<1>1. CASE size < L
  BY <1>1 DEF FrameCount
<1>2. CASE ~(size < L)
  <2>. DEFINE q == (size - L) \div D
  <2>1. size - L \in Nat
    BY <1>2
  <2>2. q \in Nat /\ q * D <= size - L /\ size - L < q * D + D
    BY <2>1, DivBounds
  <2>3. FrameCount(size) = q + 1
    BY <1>2 DEF FrameCount
  <2>. HIDE DEF q
  <2>4. (q + 1) * D = q * D + D /\ q * D \in Nat
    BY <2>2
  <2>5. D <= L
    <3>1. K * P \in Nat \ {0} /\ L = (K * P) * D
      BY GeometryAssumption DEF L, M
    <3>. QED BY <3>1
  <2>. QED BY <2>2, <2>3, <2>4, <2>5
<1>. QED BY <1>1, <1>2

(* A frame count is determined by those bounds. *)
LEMMA FrameCountUnique ==
  ASSUME NEW size \in Nat, NEW n \in Nat,
         size - n * D < L,
         n > 0 => (n - 1) * D + L <= size
  PROVE  FrameCount(size) = n
<1>. USE GeometryType
<1>0. n * D \in Nat
  OBVIOUS
<1>1. CASE n = 0
  BY <1>1 DEF FrameCount
<1>2. CASE n > 0
  <2>. DEFINE q == n - 1
  <2>1. q \in Nat /\ n = q + 1
    BY <1>2
  <2>. HIDE DEF q
  <2>2. n * D = q * D + D /\ q * D \in Nat
    BY <2>1
  <2>3. q * D + L <= size
    BY <1>2, <2>1
  <2>4. size - L \in Nat /\ ~(size < L)
    BY <2>2, <2>3
  <2>5. q * D <= size - L /\ size - L < q * D + D
    BY <2>2, <2>3
  <2>6. (size - L) \div D = q
    BY <2>1, <2>4, <2>5, DivUnique
  <2>. QED BY <2>1, <2>4, <2>6 DEF FrameCount
<1>. QED BY <1>1, <1>2

-----------------------------------------------------------------------------
(* The tail is the next window, and the frames are those of one call.      *)
StreamInv ==
    /\ tail \in [first : Nat, size : Nat]
    /\ frameIndex \in Nat
    /\ received \in Nat
    /\ TailIsNextWindow
    /\ BlockInvariance

(* An empty stream, new or reset, meets the invariant. *)
LEMMA StartStreamInv ==
  /\ \A t, f, r : /\ t = [first |-> 0, size |-> 0] /\ f = 0 /\ r = 0
                  => /\ t \in [first : Nat, size : Nat]
                     /\ t.first = f * D /\ t.first + t.size = r /\ t.size < L
                     /\ f = FrameCount(r)
BY GeometryType DEF FrameCount

(* One call of process keeps the invariant, whatever the block's length:   *)
(* the frames before the call and those of it add up to the frames of the  *)
(* whole stream, by the bounds above.                                      *)
LEMMA ProcessStreamInv ==
  ASSUME StreamInv, NEW size \in Nat, Process(size)
  PROVE  StreamInv'
<1>. USE GeometryType
<1>. DEFINE xSize == tail.size + size
            n == FrameCount(xSize)
            total == received + size
<1>1. /\ received' = total
      /\ frameIndex' = frameIndex + n
      /\ tail' = [first |-> tail.first + n * D, size |-> xSize - n * D]
  BY DEF Process, Rest
<1>2. /\ tail.first \in Nat /\ tail.size \in Nat /\ frameIndex \in Nat
      /\ received \in Nat /\ xSize \in Nat /\ total \in Nat
  BY DEF StreamInv
<1>3. /\ tail.first = frameIndex * D
      /\ tail.first + tail.size = received
      /\ frameIndex = FrameCount(received)
  BY DEF StreamInv, TailIsNextWindow, BlockInvariance
<1>4. /\ n \in Nat
      /\ n * D <= xSize
      /\ xSize - n * D < L
      /\ n > 0 => (n - 1) * D + L <= xSize
  BY <1>2, FrameCountBounds
<1>5. frameIndex > 0 => (frameIndex - 1) * D + L <= received
  BY <1>2, <1>3, FrameCountBounds
<1>6. xSize = total - frameIndex * D
  BY <1>2, <1>3
<1>. HIDE DEF n, xSize, total
<1>. DEFINE i == frameIndex
            m == i + n
<1>7. /\ i \in Nat /\ m \in Nat /\ i * D \in Nat /\ n * D \in Nat
      /\ m * D = i * D + n * D
  BY <1>2, <1>4
<1>8. total - m * D < L
  BY <1>2, <1>4, <1>6, <1>7
<1>9. m > 0 => (m - 1) * D + L <= total
  <2>1. CASE n > 0
    <3>1. (m - 1) * D = i * D + (n - 1) * D /\ (n - 1) * D \in Nat
      BY <2>1, <1>4, <1>7
    <3>. QED BY <2>1, <3>1, <1>2, <1>4, <1>6, <1>7
  <2>2. CASE n = 0
    <3>1. received <= total
      BY <1>2 DEF total
    <3>2. m = i
      BY <2>2, <1>7
    <3>3. m > 0 => (m - 1) * D \in Nat
      BY <1>7
    <3>. QED BY <3>1, <3>2, <3>3, <1>2, <1>5
  <2>. QED BY <2>1, <2>2, <1>4
<1>10. FrameCount(total) = m
  BY <1>2, <1>7, <1>8, <1>9, FrameCountUnique
<1>11. /\ tail'.first = m * D
       /\ tail'.size = xSize - n * D
       /\ tail' \in [first : Nat, size : Nat]
  BY <1>1, <1>2, <1>3, <1>4, <1>7
<1>12. TailIsNextWindow'
  BY <1>1, <1>2, <1>4, <1>6, <1>7, <1>11 DEF TailIsNextWindow
<1>13. BlockInvariance'
  BY <1>1, <1>10 DEF BlockInvariance
<1>. QED
  BY <1>1, <1>2, <1>7, <1>11, <1>12, <1>13 DEF StreamInv

(* Every step of the filter bank keeps the invariant. *)
LEMMA NextStreamInv == StreamInv /\ [Next]_vars => StreamInv'
<1>. SUFFICES ASSUME StreamInv, [Next]_vars PROVE StreamInv'
  OBVIOUS
<1>1. CASE Reset
  BY <1>1, StartStreamInv
     DEF Reset, StreamInv, TailIsNextWindow, BlockInvariance
<1>2. ASSUME NEW size \in BlockSizes, Process(size)
      PROVE  StreamInv'
  BY <1>2, ProcessStreamInv, BoundsAssumption
<1>3. CASE UNCHANGED vars
  BY <1>3 DEF vars, StreamInv, TailIsNextWindow, BlockInvariance
<1>. QED BY <1>1, <1>2, <1>3 DEF Next

(* The filter bank starts in the invariant. *)
LEMMA InitStreamInv == Init => StreamInv
BY StartStreamInv DEF Init, StreamInv, TailIsNextWindow, BlockInvariance

(* Nothing is lost, repeated or held back between calls of process.        *)
THEOREM TailCorrect == Spec => []TailIsNextWindow
<1>1. StreamInv => TailIsNextWindow
  BY DEF StreamInv
<1>. QED BY <1>1, InitStreamInv, NextStreamInv, PTL DEF Spec

(* The frames of a stream do not depend on the blocks it came in.          *)
THEOREM BlocksDoNotMatter == Spec => []BlockInvariance
<1>1. StreamInv => BlockInvariance
  BY DEF StreamInv
<1>. QED BY <1>1, InitStreamInv, NextStreamInv, PTL DEF Spec

-----------------------------------------------------------------------------
(* The fold.                                                               *)

(* The slices of a pass and the place of a frame in them come to the K * P *)
(* rows from the frame's own on: neither the pass nor the order of the     *)
(* slices shows.                                                           *)
LEMMA RowsAreWindow ==
  ASSUME NEW f \in Nat
  PROVE  RowsOf(f) = f .. f + K * P - 1
<1>. USE GeometryAssumption
<1>. DEFINE lo == PassOf(f)
<1>1. lo \in Int
  BY DEF PassOf
<1>. HIDE DEF lo
<1>2. K * P \in Nat
  OBVIOUS
<1>3. ASSUME NEW p \in 0 .. P - 1, NEW j \in 0 .. K - 1
      PROVE  /\ SliceStart(lo, p, j) + (f - lo) = f + (p + j * P)
             /\ p + j * P \in 0 .. K * P - 1
  <2>1. j * P \in Nat /\ j * P + P = (j + 1) * P
    OBVIOUS
  <2>2. (j + 1) * P <= K * P
    OBVIOUS
  <2>3. SliceStart(lo, p, j) + (f - lo) = f + (p + j * P)
    BY <1>1, <2>1 DEF SliceStart
  <2>. QED BY <1>2, <2>1, <2>2, <2>3
<1>4. ASSUME NEW t \in 0 .. K * P - 1
      PROVE  \E p \in 0 .. P - 1, j \in 0 .. K - 1 : t = p + j * P
  <2>. DEFINE j == t \div P
  <2>1. t \in Nat /\ t < K * P
    BY <1>2
  <2>2. j \in Nat /\ j * P <= t /\ t < j * P + P
    BY <2>1, DivBounds
  <2>. HIDE DEF j
  <2>3. j < K
    <3>1. CASE j >= K
      <4>1. j * P >= K * P
        BY <2>2, <3>1
      <4>. QED BY <4>1, <1>2, <2>1, <2>2
    <3>. QED BY <2>2, <3>1
  <2>4. j * P \in Nat
    BY <2>2
  <2>5. t - j * P \in 0 .. P - 1 /\ t = (t - j * P) + j * P
    BY <2>1, <2>2, <2>4
  <2>6. j \in 0 .. K - 1
    BY <2>2, <2>3
  <2>. QED BY <2>5, <2>6
<1>5. RowsOf(f) = {SliceStart(lo, p, j) + (f - lo) :
                      p \in 0 .. P - 1, j \in 0 .. K - 1}
  BY DEF RowsOf, lo
<1>6. ASSUME NEW r \in RowsOf(f) PROVE r \in f .. f + K * P - 1
  <2>1. PICK p \in 0 .. P - 1, j \in 0 .. K - 1 :
               r = SliceStart(lo, p, j) + (f - lo)
    BY <1>5, <1>6
  <2>2. p + j * P \in 0 .. K * P - 1 /\ r = f + (p + j * P)
    BY <1>3, <2>1
  <2>. QED BY <1>2, <2>2
<1>7. ASSUME NEW r \in f .. f + K * P - 1 PROVE r \in RowsOf(f)
  <2>1. r - f \in 0 .. K * P - 1
    BY <1>2
  <2>2. PICK p \in 0 .. P - 1, j \in 0 .. K - 1 : r - f = p + j * P
    BY <1>4, <2>1
  <2>3. r = SliceStart(lo, p, j) + (f - lo)
    BY <1>3, <2>2, <1>2
  <2>. QED BY <1>5, <2>3
<1>. QED BY <1>6, <1>7

(* A frame of a call that makes n has its window inside the call's rows. *)
LEMMA FrameInBounds ==
  ASSUME NEW xSize \in Nat, NEW f \in Nat, f < FrameCount(xSize)
  PROVE  RowsOf(f) \subseteq 0 .. (xSize \div D) - 1
<1>. USE GeometryType
<1>. DEFINE n == FrameCount(xSize)
            w == K * P
            q == xSize \div D
<1>1. n \in Nat /\ (n - 1) * D + L <= xSize
  BY FrameCountBounds
<1>2. w \in Nat /\ L = w * D
  BY GeometryAssumption DEF L, M
<1>3. q \in Nat /\ xSize < q * D + D
  BY DivBounds
<1>4. RowsOf(f) = f .. f + w - 1
  BY RowsAreWindow
<1>5. f < n
  OBVIOUS
<1>. HIDE DEF n, w, q
<1>6. (n - 1 + w) * D < (q + 1) * D
  <2>1. (n - 1 + w) * D = (n - 1) * D + w * D /\ (q + 1) * D = q * D + D
    BY <1>1, <1>2, <1>3
  <2>2. (n - 1) * D \in Int /\ w * D \in Int /\ q * D \in Int
    BY <1>1, <1>2, <1>3
  <2>. QED BY <1>1, <1>2, <1>3, <2>1, <2>2
<1>7. n - 1 + w < q + 1
  <2>. DEFINE a == n - 1 + w
              c == q + 1
  <2>1. a \in Int /\ c \in Int /\ a * D < c * D
    BY <1>1, <1>2, <1>3, <1>6
  <2>. HIDE DEF a, c
  <2>2. a < c
    <3>1. CASE a >= c
      <4>1. a * D >= c * D
        BY <2>1, <3>1
      <4>. QED BY <2>1, <4>1
    <3>. QED BY <2>1, <3>1
  <2>. QED BY <2>2 DEF a, c
<1>. QED BY <1>1, <1>2, <1>3, <1>4, <1>5, <1>7 DEF q

-----------------------------------------------------------------------------
(* The frames of a call.                                                   *)

(* The phase of a frame, reduced by its period, is the one the position of *)
(* its window asks for.                                                    *)
LEMMA PhaseIsRight ==
  ASSUME NEW n \in Nat
  PROVE  /\ n % P \in 0 .. P - 1
         /\ ((n % P) * D - n * D) % M = 0
<1>. USE GeometryType
<1>. DEFINE q == n \div P
            r == n % P
<1>1. q \in Nat /\ r \in 0 .. P - 1 /\ n = q * P + r
  OBVIOUS
<1>. HIDE DEF q, r
<1>2. r * D - n * D = (-q) * (P * D)
  <2>1. n * D = (q * P) * D + r * D /\ (q * P) * D = q * (P * D)
    BY <1>1
  <2>2. r * D \in Int /\ q * (P * D) \in Int
    BY <1>1
  <2>3. (-q) * (P * D) = -(q * (P * D))
    BY <1>1
  <2>. QED BY <2>1, <2>2, <2>3
<1>3. ASSUME NEW a \in Int, NEW m \in Nat \ {0}
      PROVE  (a * m) % m = 0
  BY <1>3
<1>4. -q \in Int /\ M \in Nat \ {0} /\ M = P * D
  BY <1>1 DEF M
<1>. QED BY <1>1, <1>2, <1>3, <1>4 DEF r

(* A frame of the next call, with its window and phase in the stream.      *)
LEMMA FrameIsDefinition ==
  ASSUME StreamInv, NEW f \in Nat
  PROVE  /\ Frame(f).rows = RowsOf(f)
         /\ Frame(f).rows \subseteq Nat
         /\ Frame(f).samples = {(frameIndex + f) * D + r * D :
                                    r \in 0 .. K * P - 1}
         /\ Frame(f).samples \subseteq Nat
         /\ Frame(f).phase \in 0 .. PhasePeriod - 1
         /\ (Frame(f).phase * D - (frameIndex + f) * D) % M = 0
<1>. USE GeometryType
<1>1. frameIndex \in Nat /\ tail.first = frameIndex * D
  BY DEF StreamInv, TailIsNextWindow
<1>2. RowsOf(f) = f .. f + K * P - 1 /\ K * P \in Nat
  BY RowsAreWindow, GeometryAssumption
<1>3. RowsOf(f) = {f + r : r \in 0 .. K * P - 1}
  <2>1. ASSUME NEW x \in f .. f + K * P - 1
        PROVE  x - f \in 0 .. K * P - 1 /\ x = f + (x - f)
    BY <1>2
  <2>2. ASSUME NEW r \in 0 .. K * P - 1
        PROVE  f + r \in f .. f + K * P - 1
    BY <1>2
  <2>. QED BY <1>2, <2>1, <2>2
<1>4. ASSUME NEW r \in 0 .. K * P - 1
      PROVE  /\ tail.first + (f + r) * D = (frameIndex + f) * D + r * D
             /\ (frameIndex + f) * D + r * D \in Nat
  <2>1. r \in Nat
    BY <1>2
  <2>2. /\ (f + r) * D = f * D + r * D
        /\ (frameIndex + f) * D = frameIndex * D + f * D
        /\ f * D \in Nat /\ r * D \in Nat /\ frameIndex * D \in Nat
    BY <1>1, <2>1
  <2>. QED BY <1>1, <2>2
<1>5. Frame(f).samples = {tail.first + (f + r) * D : r \in 0 .. K * P - 1}
  BY <1>3 DEF Frame
<1>6. Frame(f).phase = (frameIndex + f) % P
  BY DEF Frame, Phase, PhasePeriod
<1>7. frameIndex + f \in Nat
  BY <1>1
<1>8. /\ Frame(f).phase \in 0 .. PhasePeriod - 1
      /\ (Frame(f).phase * D - (frameIndex + f) * D) % M = 0
  BY <1>6, <1>7, PhaseIsRight DEF PhasePeriod
<1>9. /\ Frame(f).samples = {(frameIndex + f) * D + r * D :
                                 r \in 0 .. K * P - 1}
      /\ Frame(f).samples \subseteq Nat
  BY <1>4, <1>5
<1>10. Frame(f).rows = RowsOf(f)
  BY DEF Frame
<1>11. RowsOf(f) \subseteq Nat
  BY <1>2
<1>. QED BY <1>8, <1>9, <1>10, <1>11

(* The type of a frame. *)
FrameType == [rows : SUBSET Nat, samples : SUBSET Nat,
              phase : 0 .. PhasePeriod - 1]

(* What is said of the last call, and what is proved of every one.         *)
BatchInv == TypeOK /\ FoldInBounds /\ FramesMatchDefinition

(* A call returns frames that are those of the definition.                 *)
LEMMA ProcessBatchInv ==
  ASSUME StreamInv, NEW size \in Nat, Process(size)
  PROVE  BatchInv'
<1>. USE GeometryType
<1>. DEFINE xSize == tail.size + size
            n == FrameCount(xSize)
<1>1. /\ batch' = [rows |-> xSize \div D,
                   frames |-> [i \in 1 .. n |-> Frame(i - 1)]]
      /\ frameIndex' = frameIndex + n
  BY DEF Process
<1>2. xSize \in Nat /\ frameIndex \in Nat
  BY DEF StreamInv
<1>3. n \in Nat /\ xSize \div D \in Nat
  BY <1>2, FrameCountBounds, DivBounds
<1>4. ASSUME NEW i \in 1 .. n
      PROVE  /\ i - 1 \in Nat
             /\ batch'.frames[i] = Frame(i - 1)
             /\ RowsOf(i - 1) \subseteq 0 .. (xSize \div D) - 1
  <2>1. i - 1 \in Nat /\ i - 1 < n
    BY <1>3
  <2>. QED BY <1>1, <1>2, <2>1, FrameInBounds
<1>. HIDE DEF n, xSize
<1>5. ASSUME NEW i \in 1 .. n PROVE Frame(i - 1) \in FrameType
  <2>1. /\ Frame(i - 1).rows \subseteq Nat /\ Frame(i - 1).samples \subseteq Nat
        /\ Frame(i - 1).phase \in 0 .. PhasePeriod - 1
    BY <1>4, FrameIsDefinition
  <2>. QED BY <2>1 DEF Frame, FrameType
<1>6. /\ batch'.rows = xSize \div D
      /\ batch'.frames \in Seq(FrameType)
      /\ Len(batch'.frames) = n
      /\ DOMAIN batch'.frames = 1 .. n
  <2>. DEFINE s == [i \in 1 .. n |-> Frame(i - 1)]
  <2>1. batch'.rows = xSize \div D /\ batch'.frames = s
    BY <1>1
  <2>2. s \in Seq(FrameType) /\ DOMAIN s = 1 .. n
    BY <1>3, <1>5
  <2>3. Len(s) = n
    BY <1>3
  <2>. QED BY <2>1, <2>2, <2>3
<1>7. TypeOK'
  BY <1>3, <1>6, ProcessStreamInv DEF StreamInv, TypeOK, FrameType
<1>8. FoldInBounds'
  <2>. SUFFICES ASSUME NEW i \in 1 .. n, NEW r \in batch'.frames[i].rows
                PROVE  r \in 0 .. batch'.rows - 1
    BY <1>6 DEF FoldInBounds
  <2>1. r \in RowsOf(i - 1)
    BY <1>4, FrameIsDefinition
  <2>. QED BY <1>4, <1>6, <2>1
<1>9. FramesMatchDefinition'
  <2>. SUFFICES ASSUME NEW i \in 1 .. n
                PROVE  LET m == (FrameNumber(i))'
                       IN  /\ batch'.frames[i].samples =
                                {m * D + r * D : r \in 0 .. K * P - 1}
                           /\ (batch'.frames[i].phase * D - m * D) % M = 0
    BY <1>6 DEF FramesMatchDefinition
  <2>1. (FrameNumber(i))' = frameIndex + (i - 1)
    BY <1>1, <1>2, <1>3, <1>6 DEF FrameNumber
  <2>. QED BY <1>4, <2>1, FrameIsDefinition
<1>. QED BY <1>7, <1>8, <1>9 DEF BatchInv

(* A stream that has just begun has no frames.                             *)
LEMMA NoBatchInv ==
  /\ NoBatch.rows = 0 /\ NoBatch.frames = <<>>
  /\ <<>> \in Seq(FrameType) /\ DOMAIN <<>> = {}
BY DEF NoBatch

(* Every step keeps what is said of frames, given the invariant of the     *)
(* stream.                                                                 *)
LEMMA NextBatchInv == StreamInv /\ BatchInv /\ [Next]_vars => BatchInv'
<1>. SUFFICES ASSUME StreamInv, BatchInv, [Next]_vars PROVE BatchInv'
  OBVIOUS
<1>1. CASE Reset
  <2>1. batch' = NoBatch /\ StreamInv'
    BY <1>1, NextStreamInv DEF Reset
  <2>2. TypeOK'
    BY <2>1, NoBatchInv DEF TypeOK, StreamInv, FrameType
  <2>3. FoldInBounds' /\ FramesMatchDefinition'
    BY <2>1, NoBatchInv DEF FoldInBounds, FramesMatchDefinition
  <2>. QED BY <2>2, <2>3 DEF BatchInv
<1>2. ASSUME NEW size \in BlockSizes, Process(size)
      PROVE  BatchInv'
  BY <1>2, ProcessBatchInv, BoundsAssumption
<1>3. CASE UNCHANGED vars
  BY <1>3 DEF vars, BatchInv, TypeOK, FoldInBounds, FramesMatchDefinition,
              FrameNumber
<1>. QED BY <1>1, <1>2, <1>3 DEF Next

(* The filter bank starts with no frames. *)
LEMMA InitBatchInv == Init => BatchInv
<1>. SUFFICES ASSUME Init PROVE BatchInv
  OBVIOUS
<1>1. batch = NoBatch /\ StreamInv
  BY InitStreamInv DEF Init
<1>2. TypeOK
  BY <1>1, NoBatchInv DEF TypeOK, StreamInv, FrameType
<1>3. FoldInBounds /\ FramesMatchDefinition
  BY <1>1, NoBatchInv DEF FoldInBounds, FramesMatchDefinition
<1>. QED BY <1>2, <1>3 DEF BatchInv

(* The stream and its last call, together. *)
LEMMA FramesInv == Spec => [](StreamInv /\ BatchInv)
<1>1. Init => StreamInv /\ BatchInv
  BY InitStreamInv, InitBatchInv
<1>2. StreamInv /\ BatchInv /\ [Next]_vars => (StreamInv /\ BatchInv)'
  BY NextStreamInv, NextBatchInv
<1>. QED BY <1>1, <1>2, PTL DEF Spec

(* The state of the filter bank, and the frames it returns, keep their     *)
(* type.                                                                   *)
THEOREM TypeCorrect == Spec => []TypeOK
<1>1. BatchInv => TypeOK
  BY DEF BatchInv
<1>. QED BY <1>1, FramesInv, PTL

(* No slice of the fold reaches beyond the rows of the call: numpy never   *)
(* returns a shorter one (channelizer.py, the loop over segments).         *)
THEOREM SlicesAreWhole == Spec => []FoldInBounds
<1>1. BatchInv => FoldInBounds
  BY DEF BatchInv
<1>. QED BY <1>1, FramesInv, PTL

(* Every frame reads the window the module docstring defines, whole, and   *)
(* is turned by the phase that window asks for.                            *)
THEOREM FramesAreDefined == Spec => []FramesMatchDefinition
<1>1. BatchInv => FramesMatchDefinition
  BY DEF BatchInv
<1>. QED BY <1>1, FramesInv, PTL
=============================================================================
