---------------------------- MODULE SurveyProofs ----------------------------
(* What a night of the survey leaves behind, for every sweep, budget and   *)
(* patience and any number of nights: a phase gives up exactly when its    *)
(* last captures brought nothing, and STATUS.json of a night that ended by *)
(* itself tells how it ended.                                              *)
EXTENDS Survey, SequenceTheorems, FiniteSetTheorems, TLAPS

-----------------------------------------------------------------------------
(* The inductive invariant.                                                *)

(* Where the script is in one of the two loops, in the second of them, and *)
(* behind them both.                                                       *)
InTheLoops == {"c2", "record", "c3", "process", "unlink", "metrics", "sidecar"}
InTheLongRun == {"c3", "process", "unlink", "metrics", "sidecar"}
AtTheEnd == {"none", "closing", "cancel", "sync", "halt", "hung"}

(* A session that has not got to the loops has done nothing yet, and one   *)
(* that sweeps has processed nothing; the long run comes after the sweep.  *)
PhasesInv ==
    /\ pc \in {"startup", "schedule"} =>
         /\ point = 0 /\ failures = 0 /\ left = 0 /\ chunk = 0
         /\ processed = 0 /\ outcome = "none" /\ tries = <<>>
    /\ pc \in {"c2", "record"} => chunk = 0 /\ processed = 0
    /\ pc = "record" => point < Points
    /\ pc \in InTheLongRun => point = Points
    /\ processed = 0 \/ point = Points
    /\ pc \in InTheLoops => outcome = "none"
    /\ pc \in {"closing", "cancel", "sync", "halt"} => outcome # "none"
    /\ outcome = "budget" => point = Points /\ left = 0

(* The chunks that are behind, the one in hand and those for which there   *)
(* is time are no more than the budget.                                    *)
InHand ==
    IF pc \in {"process", "metrics", "sidecar"} \/ (pc = "unlink" /\ failures = 0)
    THEN 1 ELSE 0

BudgetInv ==
    /\ (chunk + left) + InHand <= Budget
    /\ (processed + left) + (IF pc = "process" THEN 1 ELSE 0) <= Budget

(* failures counts the captures at the end of tries that brought nothing.  *)
Trailing(t, k) ==
    /\ k <= Len(t)
    /\ \A i \in 1 .. Len(t) : Len(t) - k < i => t[i] = "nothing"
    /\ k < Len(t) => t[Len(t) - k] # "nothing"

Brings == {"nothing", "an old file", "a capture"}

TriesInv ==
    /\ tries \in Seq(Brings)
    /\ outcome \in {"none", "device"} => Trailing(tries, failures)
    /\ outcome = "none" => failures < GiveUpAfter
    /\ outcome = "device" => failures = GiveUpAfter

(* What STATUS.json says once main has written it for the last time.       *)
Told ==
    /\ status.night = night
    /\ status.state # "running"
    /\ status.state = "completed" => point = Points /\ left = 0
    /\ status.state = "aborted_phase" => NothingLately
    /\ status.phase = "c2_gain_sweep" => processed = 0

StatusInv ==
    /\ pc \in {"cancel", "sync", "halt"} => Told
    /\ ended \in {"halt", "refused", "hang"} => pc \in {"none", "hung"} /\ Told

(* The lines of the metrics that are of this night are the last ones, as   *)
(* many as there are chunks behind, or one more, whose sidecar is due.     *)
LastLines(c) ==
    /\ c <= Len(metrics)
    /\ \A j \in 1 .. Len(metrics) :
         (metrics[j].night = night) <=> (Len(metrics) - c < j)
    /\ \A j \in 1 .. Len(metrics) : Len(metrics) - c < j =>
         /\ metrics[j].index = (j - (Len(metrics) - c)) - 1
         /\ metrics[j].index < chunk =>
              sidecars[metrics[j].index] = metrics[j].by

LinesInv ==
    /\ metrics \in Seq([by : Nat \X Nat \X Nat, night : Nat, index : Nat])
    /\ \A j \in 1 .. Len(metrics) : metrics[j].night <= night
    /\ 0 .. chunk - 1 \subseteq DOMAIN sidecars
    /\ LastLines(chunk) \/ LastLines(chunk + 1)
    /\ pc \in (InTheLoops \ {"sidecar"}) \cup {"startup", "schedule"} =>
         LastLines(chunk)
    /\ pc = "sidecar" =>
         /\ LastLines(chunk + 1)
         /\ metrics[Len(metrics)].by = capturing.by

(* The captures that are in the emissions and not in the metrics: of this  *)
(* night, only the one in hand.                                            *)
Pending == pc = "metrics" \/ (pc = "unlink" /\ failures = 0)

EmissionsInv ==
    /\ \A e \in emissions : e.by[1] \in Nat /\ e.by[1] <= night
    /\ \A n \in 1 .. MaxNights : \A a, b \in Uncounted(n) : a = b
    /\ pc \in (InTheLoops \ {"metrics", "unlink"}) \cup {"startup", "schedule"} =>
         Uncounted(night) = {}
    /\ pc = "unlink" /\ failures > 0 => Uncounted(night) = {}
    /\ Pending => Uncounted(night) \subseteq {capturing.by}
    /\ pc = "process" \/ Pending \/ pc = "sidecar" =>
         capturing.by \in Nat \X Nat \X Nat /\ capturing.by[1] = night
    /\ pc = "process" => failures = 0

(* The raw chunk that may lie there is of an earlier night, but while it   *)
(* is worked on or when the night has ended.                               *)
RawChunkInv ==
    IsCompleted(files[Chunk]) =>
        /\ files[Chunk].by[1] <= night
        /\ pc \in {"startup", "schedule", "c2", "record", "c3", "metrics",
                   "sidecar"} =>
             files[Chunk].by[1] < night

SurveyInv ==
    /\ TypeOK /\ PhasesInv /\ BudgetInv /\ TriesInv /\ StatusInv
    /\ LinesInv /\ EmissionsInv /\ RawChunkInv
-----------------------------------------------------------------------------
(* Types.                                                                  *)

(* The steps of the script and of the machine, one by one. *)
LEMMA Steps ==
  ASSUME [Next]_vars
  PROVE  \/ Start \/ RecordPoint \/ EndSweep
         \/ \E b \in BOOLEAN : Startup(b) \/ ScheduleSafetyShutdown(b)
         \/ \E content \in Contents :
              Capturing("c2") /\ SweepPoint(content)
         \/ \E content \in Contents :
              Capturing("c3") /\ CaptureChunk(content)
         \/ Process \/ Unlink \/ WriteMetrics \/ WriteChunkSidecar
         \/ StopsForDisk \/ SpendsBudget
         \/ \E content \in {Raw("cut"), Empty} : TimesOut(content)
         \/ Raises \/ WriteFinalStatus \/ CleanShutdown
         \/ Killed \/ PowerCut \/ SafetyFires
         \/ UNCHANGED vars
BY DEF Next

(* The numbers. *)
LEMMA Numbers ==
  ASSUME TypeOK
  PROVE  /\ Points \in Nat /\ Budget \in Nat /\ MaxNights \in Nat
         /\ GiveUpAfter \in Nat /\ GiveUpAfter > 0
         /\ night \in Nat /\ point \in Nat /\ failures \in Nat /\ left \in Nat
         /\ processed \in Nat /\ chunk \in Nat
         /\ point <= Points /\ failures <= GiveUpAfter /\ left <= Budget
<1>1. /\ Points \in Nat /\ Budget \in Nat /\ MaxNights \in Nat
      /\ GiveUpAfter \in Nat /\ GiveUpAfter > 0
  BY SurveyAssumption DEF SurveyAssumption
<1>2. /\ night \in 0 .. MaxNights /\ point \in 0 .. Points
      /\ failures \in 0 .. GiveUpAfter /\ left \in 0 .. Budget
      /\ processed \in 0 .. Budget /\ chunk \in 0 .. Budget
  BY DEF TypeOK
<1>. QED BY <1>1, <1>2

(* Before the first night. *)
LEMMA SurveyStart == Init => SurveyInv
<1>. SUFFICES ASSUME Init PROVE SurveyInv
  OBVIOUS
<1>1. /\ Points \in Nat /\ Budget \in Nat /\ MaxNights \in Nat
      /\ GiveUpAfter \in Nat /\ GiveUpAfter > 0
  BY SurveyAssumption DEF SurveyAssumption
<1>2. /\ on = FALSE /\ safety = FALSE /\ ended = "nothing" /\ pc = "none"
      /\ night = 0 /\ point = 0 /\ failures = 0 /\ left = 0 /\ processed = 0
      /\ chunk = 0 /\ outcome = "none" /\ metrics = <<>> /\ emissions = {}
      /\ tries = <<>>
      /\ files = [f \in 1 .. Points \cup {0} |-> NoFile]
  BY DEF Init
<1>3. 1 .. Points \cup {0} = 0 .. Points
  BY <1>1
<1>4. files \in [0 .. Points -> Captures \cup {NoFile, Empty}]
  BY <1>2, <1>3
<1>5. TypeOK
  BY <1>1, <1>2, <1>4 DEF TypeOK, Ends
<1>6. PhasesInv
  BY <1>2 DEF PhasesInv, InTheLoops, InTheLongRun
<1>7. BudgetInv
  BY <1>1, <1>2 DEF BudgetInv, InHand
<1>8. Len(<<>>) = 0 /\ 1 .. 0 = {}
  OBVIOUS
<1>9. TriesInv
  <2>1. Trailing(tries, 0)
    BY <1>2, <1>8 DEF Trailing
  <2>. QED BY <1>1, <1>2, <2>1 DEF TriesInv
<1>10. StatusInv
  BY <1>2 DEF StatusInv
<1>11. LinesInv
  <2>1. LastLines(0)
    BY <1>2, <1>8 DEF LastLines
  <2>2. 0 .. chunk - 1 = {}
    BY <1>2
  <2>. QED BY <1>2, <1>8, <2>1, <2>2 DEF LinesInv, InTheLoops
<1>12. EmissionsInv
  BY <1>2 DEF EmissionsInv, Uncounted, InTheLoops, Pending
<1>13. RawChunkInv
  <2>1. files[Chunk] = NoFile
    BY <1>2, <1>3 DEF Chunk
  <2>. QED BY <2>1 DEF RawChunkInv, IsCompleted
<1>. QED
  BY <1>5, <1>6, <1>7, <1>9, <1>10, <1>11, <1>12, <1>13 DEF SurveyInv

(* Where the script and the machine are, *)
LEMMA MachineStep ==
  ASSUME TypeOK, [Next]_vars
  PROVE  /\ on' \in BOOLEAN /\ safety' \in BOOLEAN
         /\ ended' \in Ends
         /\ pc' \in {"none", "startup", "schedule", "c2", "record", "c3",
                     "process", "unlink", "metrics", "sidecar", "closing",
                     "cancel", "sync", "halt", "hung"}
         /\ outcome' \in {"none", "budget", "disk", "device", "exception"}
         /\ pc' # "none" => on'
         /\ night' \in 0 .. MaxNights
<1>0. night \in 0 .. MaxNights /\ MaxNights \in Nat
  BY Numbers DEF TypeOK
<1>1. CASE Start
  <2>1. night' \in 0 .. MaxNights
    BY <1>0, <1>1 DEF Start
  <2>. QED BY <1>1, <2>1 DEF Start, TypeOK, Ends
<1>2. CASE ~Start
  <2>1. night' = night
    BY <1>2, Steps
    DEF Startup, ScheduleSafetyShutdown, SweepPoint, RecordPoint, EndSweep,
        CaptureChunk, Process, Unlink, WriteMetrics, WriteChunkSidecar,
        StopsForDisk, SpendsBudget, TimesOut, Raises, WriteFinalStatus,
        CleanShutdown, CancelSafety, Sync, Halt, Hangs, Killed, PowerCut,
        SafetyFires, vars, machine
  <2>2. /\ on' \in BOOLEAN /\ safety' \in BOOLEAN
        /\ ended' \in Ends /\ (pc' # "none" => on')
    BY <1>2, Steps
    DEF TypeOK, Ends, Startup, ScheduleSafetyShutdown, SweepPoint,
        RecordPoint, EndSweep, CaptureChunk, Process, Unlink, WriteMetrics,
        WriteChunkSidecar, StopsForDisk, SpendsBudget, TimesOut, Raises,
        WriteFinalStatus, CleanShutdown, CancelSafety, Sync, Halt, Hangs,
        Killed, PowerCut, SafetyFires, vars, machine, Capturing, AfterCancel,
        EndPhase
  <2>3. /\ pc' \in {"none", "startup", "schedule", "c2", "record", "c3",
                    "process", "unlink", "metrics", "sidecar", "closing",
                    "cancel", "sync", "halt", "hung"}
        /\ outcome' \in {"none", "budget", "disk", "device", "exception"}
    BY <1>2, Steps
    DEF TypeOK, Startup, ScheduleSafetyShutdown, SweepPoint, RecordPoint,
        EndSweep, CaptureChunk, Process, Unlink, WriteMetrics,
        WriteChunkSidecar, StopsForDisk, SpendsBudget, TimesOut, Raises,
        WriteFinalStatus, CleanShutdown, CancelSafety, Sync, Halt, Hangs,
        Killed, PowerCut, SafetyFires, vars, session, AfterCancel, EndPhase
  <2>. QED BY <1>0, <2>1, <2>2, <2>3
<1>. QED BY <1>1, <1>2

(* A capture is tried where there is one to try. *)
LEMMA CaptureIs ==
  ASSUME TypeOK, [Next]_vars
  PROVE  \/ UNCHANGED <<files, tries, capturing>>
         \/ UNCHANGED <<tries, capturing>>
            /\ files' = [files EXCEPT ![Chunk] = NoFile]
         \/ UNCHANGED files /\ Start
         \/ UNCHANGED files /\ EndSweep
         \/ \E f \in 0 .. Points, content \in Contents \cup {Raw("cut"), Empty} :
              /\ Capture(f, content)
              /\ \/ pc = "c2" /\ point < Points /\ f = point + 1
                 \/ pc = "c3" /\ left > 0 /\ f = Chunk
<1>0. Points \in Nat /\ point \in Nat
  BY Numbers
<1>1. ASSUME Capturing("c2"),
             NEW content \in Contents \cup {Raw("cut"), Empty},
             Capture(point + 1, content)
      PROVE  \E f \in 0 .. Points, x \in Contents \cup {Raw("cut"), Empty} :
              /\ Capture(f, x)
              /\ pc = "c2" /\ point < Points /\ f = point + 1
  <2>1. pc = "c2" /\ point < Points
    BY <1>1 DEF Capturing
  <2>2. point + 1 \in 0 .. Points
    BY <1>0, <2>1
  <2>. QED BY <1>1, <2>1, <2>2
<1>2. ASSUME Capturing("c3"),
             NEW content \in Contents \cup {Raw("cut"), Empty},
             Capture(Chunk, content)
      PROVE  \E f \in 0 .. Points, x \in Contents \cup {Raw("cut"), Empty} :
              /\ Capture(f, x)
              /\ pc = "c3" /\ left > 0 /\ f = Chunk
  <2>1. pc = "c3" /\ left > 0
    BY <1>2 DEF Capturing
  <2>2. Chunk \in 0 .. Points
    BY <1>0 DEF Chunk
  <2>. QED BY <1>2, <2>1, <2>2
<1>3. ASSUME NEW content \in Contents, Capturing("c2"), SweepPoint(content)
      PROVE  Capture(point + 1, content)
  BY <1>3 DEF SweepPoint
<1>4. ASSUME NEW content \in Contents, Capturing("c3"), CaptureChunk(content)
      PROVE  Capture(Chunk, content)
  BY <1>4 DEF CaptureChunk
<1>5. ASSUME NEW content \in {Raw("cut"), Empty}, TimesOut(content)
      PROVE  \/ Capturing("c2") /\ Capture(point + 1, content)
             \/ Capturing("c3") /\ Capture(Chunk, content)
  BY <1>5 DEF TimesOut
<1>6. CASE Start
  BY <1>6 DEF Start, disk
<1>7. CASE EndSweep
  BY <1>7 DEF EndSweep, disk
<1>8. CASE Unlink
  BY <1>8 DEF Unlink, session
<1>9. CASE \/ RecordPoint \/ Process \/ WriteMetrics \/ WriteChunkSidecar
           \/ StopsForDisk \/ SpendsBudget \/ Raises \/ WriteFinalStatus
           \/ CleanShutdown \/ Killed \/ PowerCut \/ SafetyFires
           \/ \E b \in BOOLEAN : Startup(b) \/ ScheduleSafetyShutdown(b)
           \/ UNCHANGED vars
  <2>1. UNCHANGED <<files, tries, capturing>>
    BY <1>9
    DEF Startup, ScheduleSafetyShutdown, RecordPoint, Process, WriteMetrics,
        WriteChunkSidecar, StopsForDisk, SpendsBudget, Raises,
        WriteFinalStatus, CleanShutdown, CancelSafety, Sync, Halt, Hangs,
        Killed, PowerCut, SafetyFires, vars, session, disk
  <2>. QED BY <2>1
<1>. QED
  BY <1>1, <1>2, <1>3, <1>4, <1>5, <1>6, <1>7, <1>8, <1>9, Steps

(* What a capture may leave is a file. *)
LEMMA ContentIs ==
  ASSUME TypeOK, TriesInv, NEW content \in Contents \cup {Raw("cut"), Empty}
  PROVE  /\ content \in Captures \cup {NoFile, Empty}
         /\ ThisOne \in Nat \X Nat \X Nat
<1>0. /\ files \in [0 .. Points -> Captures \cup {NoFile, Empty}]
      /\ night \in Nat /\ point \in Nat
  BY Numbers DEF TypeOK
<1>1. Len(tries) \in Nat
  BY LenProperties DEF TriesInv
<1>2. ThisOne \in Nat \X Nat \X Nat
  BY <1>0, <1>1 DEF ThisOne
<1>3. Raw("whole") \in Captures /\ Raw("cut") \in Captures
  BY <1>2 DEF Raw, File, Captures
<1>4. \A f \in DOMAIN files : files[f] \in Captures \cup {NoFile, Empty}
  BY <1>0
<1>. QED BY <1>2, <1>3, <1>4 DEF Contents

(* and the files.                                                          *)
LEMMA FilesStep ==
  ASSUME TypeOK, TriesInv, [Next]_vars
  PROVE  files' \in [0 .. Points -> Captures \cup {NoFile, Empty}]
<1>0. files \in [0 .. Points -> Captures \cup {NoFile, Empty}]
  BY DEF TypeOK
<1>1. ASSUME NEW f \in 0 .. Points, NEW x \in Captures \cup {NoFile, Empty},
             files' = [files EXCEPT ![f] = x]
      PROVE  files' \in [0 .. Points -> Captures \cup {NoFile, Empty}]
  BY <1>0, <1>1
<1>2. ASSUME NEW f \in 0 .. Points,
             NEW content \in Contents \cup {Raw("cut"), Empty},
             Capture(f, content)
      PROVE  files' \in [0 .. Points -> Captures \cup {NoFile, Empty}]
  <2>1. files' = [files EXCEPT ![f] = content]
    BY <1>2 DEF Capture
  <2>. QED BY <1>1, <2>1, ContentIs
<1>3. Chunk \in 0 .. Points
  BY Numbers DEF Chunk
<1>4. files' = files \/ files' = [files EXCEPT ![Chunk] = NoFile]
        \/ \E f \in 0 .. Points, content \in Contents \cup {Raw("cut"), Empty} :
              Capture(f, content)
  BY CaptureIs
<1>. QED BY <1>0, <1>1, <1>2, <1>3, <1>4
-----------------------------------------------------------------------------
(* The phases of a session. *)
LEMMA PhasesStep ==
  ASSUME TypeOK, PhasesInv, [Next]_vars
  PROVE  PhasesInv'
<1>. USE DEF PhasesInv, InTheLoops, InTheLongRun
<1>1. CASE Start
  BY <1>1 DEF Start
<1>2. ASSUME NEW b \in BOOLEAN, Startup(b) \/ ScheduleSafetyShutdown(b)
      PROVE  PhasesInv'
  <2>1. CASE Startup(b)
    BY <2>1 DEF Startup, session
  <2>2. CASE ScheduleSafetyShutdown(b)
    BY <2>2 DEF ScheduleSafetyShutdown
  <2>. QED BY <1>2, <2>1, <2>2
<1>3. ASSUME NEW content \in Contents, Capturing("c2"), SweepPoint(content)
      PROVE  PhasesInv'
  <2>1. /\ pc = "c2" /\ point < Points
        /\ UNCHANGED <<processed, chunk>>
        /\ \/ pc' = "record" /\ UNCHANGED <<point, outcome>>
           \/ pc' = "closing" /\ outcome' = "device" /\ UNCHANGED point
           \/ pc' = "c2" /\ UNCHANGED outcome
    BY <1>3 DEF Capturing, SweepPoint, EndPhase
  <2>. QED BY <2>1
<1>4. ASSUME NEW content \in Contents, Capturing("c3"), CaptureChunk(content)
      PROVE  PhasesInv'
  <2>1. /\ pc = "c3"
        /\ UNCHANGED <<processed, point>>
        /\ \/ pc' = "process" /\ UNCHANGED outcome
           \/ pc' = "closing" /\ outcome' = "device"
           \/ pc' = "unlink" /\ UNCHANGED outcome
    BY <1>4 DEF Capturing, CaptureChunk, EndPhase
  <2>. QED BY <2>1
<1>5. ASSUME NEW content \in {Raw("cut"), Empty}, TimesOut(content)
      PROVE  PhasesInv'
  <2>1. /\ pc \in {"c2", "c3"} /\ pc' = "closing" /\ outcome' = "exception"
        /\ UNCHANGED <<processed, point>>
    BY <1>5 DEF TimesOut, Capturing, EndPhase
  <2>. QED BY <2>1
<1>6. CASE RecordPoint \/ EndSweep
  BY <1>6 DEF RecordPoint, EndSweep
<1>7. CASE Process \/ Unlink \/ WriteMetrics \/ WriteChunkSidecar
  BY <1>7 DEF Process, Unlink, WriteMetrics, WriteChunkSidecar, session
<1>8. CASE StopsForDisk \/ SpendsBudget \/ Raises
  BY <1>8 DEF StopsForDisk, SpendsBudget, Raises, Capturing, EndPhase
<1>9. CASE WriteFinalStatus \/ CleanShutdown
  BY <1>9
  DEF WriteFinalStatus, CleanShutdown, CancelSafety, Sync, Halt, Hangs,
      session, AfterCancel
<1>10. CASE Killed \/ PowerCut \/ SafetyFires
  BY <1>10 DEF Killed, PowerCut, SafetyFires, session
<1>11. CASE UNCHANGED vars
  BY <1>11 DEF vars
<1>. QED
  BY <1>1, <1>2, <1>3, <1>4, <1>5, <1>6, <1>7, <1>8, <1>9, <1>10, <1>11, Steps

(* The counters of a session, and the budget that bounds them: each chunk  *)
(* takes its tick from what is left.                                       *)
CountersOK ==
    /\ point \in 0 .. Points /\ left \in 0 .. Budget
    /\ processed \in 0 .. Budget /\ chunk \in 0 .. Budget

LEMMA Within ==
  ASSUME NEW a \in Nat, NEW b \in Nat, NEW c \in Nat, NEW d \in Nat,
         NEW h \in {0, 1}, a + b <= d, c <= b, h = 1 => (a + b) + 1 <= d
  PROVE  (a + c) + h <= d /\ a <= d
OBVIOUS

(* Taking one of b leaves room for one more. *)
LEMMA TakeOne ==
  ASSUME NEW a \in Nat, NEW b \in Nat, NEW d \in Nat, a + b <= d, b > 0,
         NEW c, c = b - 1, NEW h \in {0, 1}
  PROVE  c \in Nat /\ c <= b /\ (a + c) + h <= d
OBVIOUS

LEMMA BudgetStep ==
  ASSUME TypeOK, PhasesInv, BudgetInv, TriesInv, [Next]_vars
  PROVE  CountersOK' /\ BudgetInv'
<1>0. /\ Points \in Nat /\ Budget \in Nat /\ point \in Nat /\ left \in Nat
      /\ processed \in Nat /\ chunk \in Nat /\ failures \in Nat
      /\ point <= Points /\ left <= Budget
  BY Numbers
<1>i. /\ InHand \in {0, 1} /\ (chunk + left) + InHand <= Budget
      /\ (processed + left) + (IF pc = "process" THEN 1 ELSE 0) <= Budget
  BY DEF BudgetInv, InHand
<1>b. /\ chunk + left <= Budget /\ processed + left <= Budget
      /\ InHand = 1 => (chunk + left) + 1 <= Budget
      /\ pc = "process" => (processed + left) + 1 <= Budget
  <2>1. InHand = 0 \/ InHand = 1
    BY <1>i
  <2>2. CASE InHand = 0
    BY <1>0, <1>i, <2>2
  <2>3. CASE InHand = 1
    BY <1>0, <1>i, <2>3
  <2>4. chunk + left <= Budget /\ (InHand = 1 => (chunk + left) + 1 <= Budget)
    BY <1>0, <1>i, <2>1
  <2>5. CASE pc = "process"
    BY <1>0, <1>i, <2>4, <2>5
  <2>6. CASE pc # "process"
    BY <1>0, <1>i, <2>4, <2>6
  <2>. QED BY <2>5, <2>6
(* Nothing new is counted, *)
<1>1. ASSUME UNCHANGED <<processed, chunk>>,
             point' \in 0 .. Points, left' \in Nat, left' <= left,
             InHand' = 1 => InHand = 1, pc' = "process" => pc = "process"
      PROVE  CountersOK' /\ BudgetInv'
  <2>0. InHand' \in {0, 1}
    BY DEF InHand
  <2>1. CountersOK'
    BY <1>0, <1>1, <1>b DEF CountersOK
  <2>2. (chunk + left') + InHand' <= Budget
    BY <1>0, <1>1, <1>b, <2>0, Within
  <2>3. (processed + left') + (IF pc' = "process" THEN 1 ELSE 0) <= Budget
    <3>1. PICK h \in {0, 1} : h = IF pc' = "process" THEN 1 ELSE 0
      OBVIOUS
    <3>2. h = 1 => (processed + left) + 1 <= Budget
      BY <1>1, <1>b, <3>1
    <3>3. (processed + left') + h <= Budget
      BY <1>0, <1>1, <1>b, <3>2, Within
    <3>. QED BY <3>1, <3>3
  <2>. QED BY <1>1, <2>1, <2>2, <2>3 DEF BudgetInv
(* a session starts, or its budget does, *)
<1>2. ASSUME point' = 0, processed' = 0, chunk' = 0, left' \in {0, Budget},
             pc' \notin {"process", "metrics", "sidecar", "unlink"}
      PROVE  CountersOK' /\ BudgetInv'
  <2>1. CountersOK'
    BY <1>0, <1>2 DEF CountersOK
  <2>2. InHand' = 0
    BY <1>2 DEF InHand
  <2>3. (0 + left') + 0 <= Budget
    <3>1. (0 + 0) + 0 <= Budget /\ (0 + Budget) + 0 <= Budget
      BY <1>0
    <3>. QED BY <1>2, <3>1
  <2>. QED BY <1>2, <2>1, <2>2, <2>3 DEF BudgetInv
(* a chunk is taken in hand, *)
<1>3. ASSUME UNCHANGED <<point, processed, chunk>>, left > 0,
             left' = left - 1
      PROVE  CountersOK' /\ BudgetInv'
  <2>0. InHand' \in {0, 1}
    BY DEF InHand
  <2>1. PICK h \in {0, 1} : h = IF pc' = "process" THEN 1 ELSE 0
    OBVIOUS
  <2>2. left' \in Nat /\ left' <= left /\ (chunk + left') + InHand' <= Budget
    BY <1>0, <1>3, <1>b, <2>0, TakeOne
  <2>3. (processed + left') + h <= Budget
    BY <1>0, <1>3, <1>b, TakeOne
  <2>4. chunk <= Budget /\ processed <= Budget
    BY <1>0, <1>b
  <2>5. CountersOK'
    BY <1>0, <1>3, <2>2, <2>4 DEF CountersOK
  <2>. QED BY <1>3, <2>1, <2>2, <2>3, <2>5 DEF BudgetInv
(* processed, and put behind.                                              *)
<1>4. CASE Process
  <2>1. /\ pc = "process" /\ processed' = processed + 1 /\ pc' = "unlink"
        /\ UNCHANGED <<point, left, chunk, failures>>
    BY <1>4 DEF Process
  <2>2. InHand = 1 /\ InHand' \in {0, 1}
    BY <2>1 DEF InHand
  <2>3. (chunk + left) + InHand' <= Budget
    <3>1. CASE InHand' = 0
      BY <1>0, <1>b, <3>1
    <3>2. CASE InHand' = 1
      BY <1>b, <2>2, <3>2
    <3>. QED BY <2>2, <3>1, <3>2
  <2>4. ((processed + 1) + left) + 0 <= Budget /\ processed + 1 <= Budget
    BY <1>0, <1>b, <2>1
  <2>5. CountersOK'
    BY <1>0, <1>b, <2>1, <2>4 DEF CountersOK
  <2>. QED BY <2>1, <2>3, <2>4, <2>5 DEF BudgetInv
<1>5. CASE WriteChunkSidecar
  <2>1. /\ pc = "sidecar" /\ chunk' = chunk + 1 /\ pc' = "c3"
        /\ UNCHANGED <<point, left, processed>>
    BY <1>5 DEF WriteChunkSidecar
  <2>2. InHand = 1 /\ InHand' = 0
    BY <2>1 DEF InHand
  <2>3. ((chunk + 1) + left) + 0 <= Budget /\ chunk + 1 <= Budget
    BY <1>0, <1>b, <2>2
  <2>4. (processed + left) + 0 <= Budget
    BY <1>0, <1>b
  <2>5. CountersOK'
    BY <1>0, <1>b, <2>1, <2>3 DEF CountersOK
  <2>. QED BY <2>1, <2>2, <2>3, <2>4, <2>5 DEF BudgetInv
<1>6. CASE Start
  BY <1>2, <1>6 DEF Start
<1>7. ASSUME NEW b \in BOOLEAN, Startup(b) \/ ScheduleSafetyShutdown(b)
      PROVE  CountersOK' /\ BudgetInv'
  BY <1>2, <1>7 DEF Startup, ScheduleSafetyShutdown, PhasesInv, session
<1>8. ASSUME NEW content \in Contents, Capturing("c2"), SweepPoint(content)
      PROVE  CountersOK' /\ BudgetInv'
  <2>1. /\ UNCHANGED <<processed, chunk>>
        /\ pc' \in {"record", "closing", "c2"}
        /\ point' = point \/ (point < Points /\ point' = point + 1)
        /\ left' = IF left > 0 THEN left - 1 ELSE 0
    BY <1>8 DEF Capturing, SweepPoint, EndPhase
  <2>2. left' \in Nat /\ left' <= left
    BY <1>0, <2>1
  <2>3. point' \in 0 .. Points
    BY <1>0, <2>1
  <2>4. InHand' = 0
    BY <2>1 DEF InHand
  <2>. QED BY <1>1, <2>1, <2>2, <2>3, <2>4
<1>9. ASSUME NEW content \in Contents, Capturing("c3"), CaptureChunk(content)
      PROVE  CountersOK' /\ BudgetInv'
  BY <1>3, <1>9
  DEF Capturing, CaptureChunk, EndPhase, ChunkAfterFailure
<1>10. CASE \/ \E content \in {Raw("cut"), Empty} : TimesOut(content)
            \/ EndSweep \/ Unlink \/ WriteMetrics
            \/ StopsForDisk \/ SpendsBudget \/ Raises \/ WriteFinalStatus
            \/ CleanShutdown \/ Killed \/ PowerCut \/ SafetyFires
            \/ UNCHANGED vars
  <2>1. UNCHANGED <<processed, chunk, point, left>>
    BY <1>10
    DEF TimesOut, EndSweep, Unlink, WriteMetrics, StopsForDisk, SpendsBudget,
        Raises, WriteFinalStatus, CleanShutdown, CancelSafety, Sync, Halt,
        Hangs, Killed, PowerCut, SafetyFires, vars, session
  <2>2. /\ InHand' = 1 => InHand = 1
        /\ pc' = "process" => pc = "process"
    BY <1>10, <1>0
    DEF TimesOut, EndSweep, Unlink, WriteMetrics, StopsForDisk, SpendsBudget,
        Raises, WriteFinalStatus, CleanShutdown, CancelSafety, Sync, Halt,
        Hangs, Killed, PowerCut, SafetyFires, vars, session, InHand, EndPhase,
        AfterCancel
  <2>3. point' \in 0 .. Points /\ left' \in Nat /\ left' <= left
    BY <1>0, <2>1
  <2>. QED BY <1>1, <2>1, <2>2, <2>3
<1>11. CASE RecordPoint
  <2>1. /\ pc = "record" /\ pc' = "c2" /\ point' = point + 1
        /\ UNCHANGED <<left, processed, chunk>>
    BY <1>11 DEF RecordPoint
  <2>2. point < Points
    BY <2>1 DEF PhasesInv
  <2>3. point' \in 0 .. Points /\ left' \in Nat /\ left' <= left
    BY <1>0, <2>1, <2>2
  <2>4. InHand' = 0
    BY <2>1 DEF InHand
  <2>. QED BY <1>1, <2>1, <2>3, <2>4
<1>. QED
  BY <1>4, <1>5, <1>6, <1>7, <1>8, <1>9, <1>10, <1>11, Steps
-----------------------------------------------------------------------------
(* Failures.                                                               *)

(* One more capture that brought nothing makes one more failure, and any   *)
(* other makes none.                                                       *)
LEMMA OneMoreTry ==
  ASSUME NEW t \in Seq(Brings), NEW k \in Nat, Trailing(t, k), NEW b \in Brings
  PROVE  Trailing(Append(t, b), IF b = "nothing" THEN k + 1 ELSE 0)
<1>1. PICK v : /\ v = Append(t, b) /\ Len(v) = Len(t) + 1 /\ v[Len(t) + 1] = b
               /\ \A i \in 1 .. Len(t) : v[i] = t[i]
  <2>1. /\ Len(Append(t, b)) = Len(t) + 1
        /\ \A i \in 1 .. Len(t) : Append(t, b)[i] = t[i]
        /\ Append(t, b)[Len(t) + 1] = b
    BY AppendProperties
  <2>. QED BY <2>1
<1>2. Len(t) \in Nat /\ k <= Len(t)
  BY LenProperties DEF Trailing
<1>3. CASE b = "nothing"
  <2>1. k + 1 <= Len(v)
    BY <1>1, <1>2
  <2>2. ASSUME NEW i \in 1 .. Len(v), Len(v) - (k + 1) < i
        PROVE  v[i] = "nothing"
    <3>1. CASE i \in 1 .. Len(t)
      <4>1. Len(t) - k < i
        BY <1>1, <1>2, <2>2, <3>1
      <4>. QED BY <1>1, <3>1, <4>1 DEF Trailing
    <3>2. CASE i \notin 1 .. Len(t)
      <4>1. i = Len(t) + 1
        BY <1>1, <1>2, <3>2
      <4>. QED BY <1>1, <1>3, <4>1
    <3>. QED BY <3>1, <3>2
  <2>3. ASSUME k + 1 < Len(v) PROVE v[Len(v) - (k + 1)] # "nothing"
    <3>1. Len(v) - (k + 1) = Len(t) - k /\ k < Len(t)
      BY <1>1, <1>2, <2>3
    <3>2. Len(t) - k \in 1 .. Len(t)
      BY <1>2, <3>1
    <3>. QED BY <1>1, <3>1, <3>2 DEF Trailing
  <2>4. Trailing(v, k + 1)
    BY <2>1, <2>2, <2>3 DEF Trailing
  <2>. QED BY <1>1, <1>3, <2>4
<1>4. CASE b # "nothing"
  <2>1. 0 <= Len(v) /\ Len(v) - 0 = Len(t) + 1
    BY <1>1, <1>2
  <2>2. \A i \in 1 .. Len(v) : ~(Len(v) - 0 < i)
    BY <1>1, <1>2
  <2>3. Trailing(v, 0)
    BY <1>1, <1>4, <2>1, <2>2 DEF Trailing
  <2>. QED BY <1>1, <1>4, <2>3
<1>. QED BY <1>3, <1>4

(* No failures before the first capture. *)
LEMMA NoTries == Trailing(<<>>, 0)
<1>1. Len(<<>>) = 0
  OBVIOUS
<1>. QED BY <1>1 DEF Trailing

(* The last captures brought nothing when that many failures are counted,  *)
(* and only then.                                                          *)
LEMMA Lately ==
  ASSUME TypeOK, tries \in Seq(Brings), Trailing(tries, failures)
  PROVE  NothingLately <=> failures = GiveUpAfter
<1>0. /\ GiveUpAfter \in Nat /\ GiveUpAfter > 0 /\ failures \in Nat
      /\ failures <= GiveUpAfter /\ Len(tries) \in Nat
  BY Numbers, LenProperties
<1>1. PICK n \in Nat, g \in Nat, k \in Nat :
        n = Len(tries) /\ g = GiveUpAfter /\ k = failures /\ k <= g /\ g > 0
  BY <1>0
<1>2. /\ k <= n
      /\ \A i \in 1 .. n : n - k < i => tries[i] = "nothing"
      /\ k < n => tries[n - k] # "nothing"
  BY <1>1 DEF Trailing
<1>3. NothingLately <=> /\ n >= g
                        /\ \A i \in (n - g) + 1 .. n : tries[i] = "nothing"
  BY <1>1 DEF NothingLately
<1>4. ASSUME k = g PROVE NothingLately
  <2>1. \A i \in (n - g) + 1 .. n : i \in 1 .. n /\ n - k < i
    BY <1>1, <1>2, <1>4
  <2>2. n >= g
    BY <1>2, <1>4
  <2>. QED BY <1>2, <1>3, <2>1, <2>2
<1>5. ASSUME k # g PROVE ~NothingLately
  <2>. SUFFICES ASSUME n >= g
                PROVE  \E i \in (n - g) + 1 .. n : tries[i] # "nothing"
    BY <1>3
  <2>1. k < g /\ k < n
    BY <1>1, <1>5
  <2>2. n - k \in (n - g) + 1 .. n
    BY <1>1, <2>1
  <2>. QED BY <1>2, <2>1, <2>2
<1>. QED BY <1>1, <1>4, <1>5

(* What the two loops do on a capture. *)
LEMMA Counting ==
  ASSUME TypeOK, [Next]_vars, NEW f \in 0 .. Points, NEW content,
         outcome' # "exception", Capture(f, content),
         NEW failed, failed = FailuresAfter(IsCompleted(content)),
         failures' = failed, outcome = "none",
         \/ IsCompleted(content) /\ outcome' = "none"
         \/ ~IsCompleted(content) /\ GivesUp(failed) /\ outcome' = "device"
         \/ ~IsCompleted(content) /\ ~GivesUp(failed) /\ outcome' = "none",
         TriesInv
  PROVE  TriesInv' /\ failures' \in 0 .. GiveUpAfter
<1>0. /\ GiveUpAfter \in Nat /\ GiveUpAfter > 0 /\ failures \in Nat
      /\ failures < GiveUpAfter
  BY Numbers DEF TriesInv
<1>1. PICK b \in Brings : /\ b = Brought(f, content)
                          /\ b = "nothing" <=> ~IsCompleted(content)
  <2>1. CASE ~IsCompleted(content)
    BY <2>1 DEF Brought, Brings
  <2>2. CASE IsCompleted(content) /\ content = files[f]
    BY <2>2 DEF Brought, Brings
  <2>3. CASE IsCompleted(content) /\ content # files[f]
    BY <2>3 DEF Brought, Brings
  <2>. QED BY <2>1, <2>2, <2>3
<1>2. tries' = Append(tries, b)
  BY <1>1 DEF Capture
<1>3. tries' \in Seq(Brings)
  BY <1>1, <1>2, AppendProperties DEF TriesInv
<1>4. failures' = IF b = "nothing" THEN failures + 1 ELSE 0
  BY <1>1 DEF FailuresAfter
<1>5. Trailing(tries', failures')
  <2>1. Trailing(Append(tries, b), IF b = "nothing" THEN failures + 1 ELSE 0)
    BY <1>0, <1>1, OneMoreTry DEF TriesInv
  <2>. QED BY <1>2, <1>4, <2>1
<1>6. failures' \in Nat /\ failures' <= GiveUpAfter
  BY <1>0, <1>4
<1>7. /\ outcome' = "none" => failures' < GiveUpAfter
      /\ outcome' = "device" => failures' = GiveUpAfter
  <2>1. CASE IsCompleted(content)
    BY <1>0, <1>1, <1>4, <2>1
  <2>2. CASE ~IsCompleted(content)
    BY <1>0, <1>6, <2>2 DEF GivesUp
  <2>. QED BY <2>1, <2>2
<1>. QED BY <1>0, <1>3, <1>5, <1>6, <1>7 DEF TriesInv

(* Both loops count, reset and test alike.                                 *)
LEMMA TriesStep ==
  ASSUME TypeOK, PhasesInv, TriesInv, [Next]_vars
  PROVE  TriesInv' /\ failures' \in 0 .. GiveUpAfter
<1>0. /\ GiveUpAfter \in Nat /\ GiveUpAfter > 0 /\ Points \in Nat
      /\ failures \in 0 .. GiveUpAfter
  BY Numbers DEF TypeOK
<1>1. ASSUME tries' = <<>>, failures' = 0, outcome' = "none"
      PROVE  TriesInv' /\ failures' \in 0 .. GiveUpAfter
  <2>1. tries' \in Seq(Brings)
    BY <1>1, EmptySeq
  <2>2. Trailing(tries', failures')
    BY <1>1, NoTries
  <2>. QED BY <1>0, <1>1, <2>1, <2>2 DEF TriesInv
<1>2. CASE UNCHANGED <<tries, failures>>
           /\ (outcome' = outcome \/ outcome' \in {"budget", "disk", "exception"})
  BY <1>0, <1>2 DEF TriesInv
<1>3. ASSUME NEW content \in Contents, Capturing("c2"), SweepPoint(content)
      PROVE  TriesInv' /\ failures' \in 0 .. GiveUpAfter
  <2>1. outcome = "none" /\ point + 1 \in 0 .. Points
    BY <1>3, Numbers DEF Capturing, PhasesInv, InTheLoops
  <2>2. PICK failed : failed = FailuresAfter(IsCompleted(content))
    OBVIOUS
  <2>3. /\ Capture(point + 1, content) /\ failures' = failed
        /\ \/ IsCompleted(content) /\ outcome' = "none"
           \/ ~IsCompleted(content) /\ GivesUp(failed) /\ outcome' = "device"
           \/ ~IsCompleted(content) /\ ~GivesUp(failed) /\ outcome' = "none"
    BY <1>3, <2>1, <2>2 DEF SweepPoint, EndPhase
  <2>. QED BY <2>1, <2>2, <2>3, Counting
<1>4. ASSUME NEW content \in Contents, Capturing("c3"), CaptureChunk(content)
      PROVE  TriesInv' /\ failures' \in 0 .. GiveUpAfter
  <2>1. outcome = "none" /\ Chunk \in 0 .. Points
    BY <1>0, <1>4 DEF Capturing, PhasesInv, InTheLoops, Chunk
  <2>2. PICK failed : failed = FailuresAfter(IsCompleted(content))
    OBVIOUS
  <2>3. /\ Capture(Chunk, content) /\ failures' = failed
        /\ \/ IsCompleted(content) /\ outcome' = "none"
           \/ ~IsCompleted(content) /\ GivesUp(failed) /\ outcome' = "device"
           \/ ~IsCompleted(content) /\ ~GivesUp(failed) /\ outcome' = "none"
    BY <1>4, <2>1, <2>2 DEF CaptureChunk, EndPhase
  <2>. QED BY <2>1, <2>2, <2>3, Counting
<1>5. ASSUME NEW content \in {Raw("cut"), Empty}, TimesOut(content)
      PROVE  TriesInv' /\ failures' \in 0 .. GiveUpAfter
  <2>1. PICK f : Capture(f, content)
    BY <1>5 DEF TimesOut
  <2>2. Brought(f, content) \in Brings
    BY DEF Brought, Brings
  <2>3. tries' \in Seq(Brings)
    BY <2>1, <2>2, AppendProperties DEF Capture, TriesInv
  <2>4. failures' = failures /\ outcome' = "exception"
    BY <1>5 DEF TimesOut, EndPhase
  <2>. QED BY <1>0, <2>3, <2>4 DEF TriesInv
<1>6. CASE Start
  BY <1>1, <1>6 DEF Start
<1>7. CASE EndSweep
  BY <1>1, <1>7 DEF EndSweep, PhasesInv, InTheLoops
<1>8. ASSUME NEW b \in BOOLEAN, Startup(b) \/ ScheduleSafetyShutdown(b)
      PROVE  TriesInv' /\ failures' \in 0 .. GiveUpAfter
  BY <1>2, <1>8 DEF Startup, ScheduleSafetyShutdown, session
<1>. QED
  BY <1>2, <1>3, <1>4, <1>5, <1>6, <1>7, <1>8, Steps
  DEF RecordPoint, Process, Unlink, WriteMetrics, WriteChunkSidecar,
      StopsForDisk, SpendsBudget, Raises, WriteFinalStatus, CleanShutdown,
      CancelSafety, Sync, Halt, Hangs, Killed, PowerCut, SafetyFires, vars,
      session, EndPhase

(* Types are kept. *)
LEMMA TypeStep ==
  ASSUME TypeOK, PhasesInv, BudgetInv, TriesInv, [Next]_vars
  PROVE  TypeOK'
BY MachineStep, FilesStep, BudgetStep, TriesStep DEF TypeOK, CountersOK
-----------------------------------------------------------------------------
(* STATUS.json.                                                            *)

(* Main writes how the phases ended. *)
LEMMA FinalStatusTells ==
  ASSUME TypeOK, PhasesInv, TriesInv, WriteFinalStatus
  PROVE  Told'
<1>1. /\ UNCHANGED <<night, point, left, processed, tries>>
      /\ status' = [state |-> FinalState,
                    phase |-> CASE outcome = "budget"    -> "done"
                                [] outcome = "exception" -> "unknown"
                                [] OTHER                 -> PhaseNow,
                    night |-> night]
  BY DEF WriteFinalStatus, WriteStatus, session
<1>2. outcome \in {"budget", "disk", "device", "exception"}
  BY DEF WriteFinalStatus, TypeOK, PhasesInv
<1>3. NothingLately' <=> NothingLately
  BY <1>1 DEF NothingLately
<1>4. CASE outcome = "budget"
  <2>1. status'.state = "completed" /\ status'.phase = "done"
    BY <1>1, <1>4 DEF FinalState
  <2>. QED BY <1>1, <1>4, <2>1 DEF Told, PhasesInv
<1>5. CASE outcome = "exception"
  <2>1. status'.state = "aborted_phase_exception" /\ status'.phase = "unknown"
    BY <1>1, <1>5 DEF FinalState
  <2>. QED BY <1>1, <2>1 DEF Told
<1>6. status'.phase = "c2_gain_sweep" /\ outcome \in {"disk", "device"}
        => processed = 0
  BY <1>1 DEF PhaseNow, PhasesInv
<1>7. CASE outcome = "disk"
  <2>1. status'.state = "disk_guard_tripped"
    BY <1>1, <1>7 DEF FinalState
  <2>. QED BY <1>1, <1>6, <1>7, <2>1 DEF Told
<1>8. CASE outcome = "device"
  <2>1. status'.state = "aborted_phase"
    BY <1>1, <1>8 DEF FinalState
  <2>2. NothingLately
    BY <1>8, Lately DEF TriesInv
  <2>. QED BY <1>1, <1>3, <1>6, <1>8, <2>1, <2>2 DEF Told
<1>. QED BY <1>2, <1>4, <1>5, <1>7, <1>8

LEMMA StatusStep ==
  ASSUME TypeOK, PhasesInv, TriesInv, StatusInv, [Next]_vars
  PROVE  StatusInv'
<1>1. CASE WriteFinalStatus
  <2>1. pc' = "cancel" /\ ended' = ended /\ pc = "closing"
    BY <1>1 DEF WriteFinalStatus, machine
  <2>. QED BY <1>1, <2>1, FinalStatusTells DEF StatusInv
<1>2. CASE \/ CleanShutdown \/ Killed \/ PowerCut \/ SafetyFires
           \/ UNCHANGED vars
  <2>1. UNCHANGED <<status, night, point, left, processed, tries>>
    BY <1>2
    DEF CleanShutdown, CancelSafety, Sync, Halt, Hangs, Killed, PowerCut,
        SafetyFires, session, vars
  <2>2. Told' <=> Told
    BY <2>1 DEF Told, NothingLately
  <2>3. /\ pc' \in {"cancel", "sync", "halt"} =>
             pc \in {"cancel", "sync", "halt"}
        /\ ended' \in {"halt", "refused", "hang"} =>
             /\ pc' \in {"none", "hung"}
             /\ \/ ended \in {"halt", "refused", "hang"}
                \/ pc \in {"cancel", "sync", "halt"}
    BY <1>2
    DEF CleanShutdown, CancelSafety, Sync, Halt, Hangs, Killed, PowerCut,
        SafetyFires, session, vars, machine, AfterCancel, StatusInv
  <2>. QED BY <2>2, <2>3 DEF StatusInv
<1>3. CASE Start
  BY <1>3 DEF Start, StatusInv
<1>4. CASE \/ \E b \in BOOLEAN : Startup(b) \/ ScheduleSafetyShutdown(b)
           \/ \E content \in Contents : Capturing("c2") /\ SweepPoint(content)
           \/ \E content \in Contents : Capturing("c3") /\ CaptureChunk(content)
           \/ \E content \in {Raw("cut"), Empty} : TimesOut(content)
           \/ RecordPoint \/ EndSweep \/ Process \/ Unlink \/ WriteMetrics
           \/ WriteChunkSidecar \/ StopsForDisk \/ SpendsBudget \/ Raises
  <2>1. /\ pc \notin {"none", "hung"} /\ ended' = ended
        /\ pc' \notin {"cancel", "sync", "halt"}
    BY <1>4
    DEF Startup, ScheduleSafetyShutdown, SweepPoint, CaptureChunk, TimesOut,
        RecordPoint, EndSweep, Process, Unlink, WriteMetrics,
        WriteChunkSidecar, StopsForDisk, SpendsBudget, Raises, machine,
        Capturing, EndPhase
  <2>. QED BY <2>1 DEF StatusInv
<1>. QED BY <1>1, <1>2, <1>3, <1>4, Steps
-----------------------------------------------------------------------------
(* The raw chunk.                                                          *)

(* What is in a file was brought by this night or is what was there. *)
LEMMA RawChunkStep ==
  ASSUME TypeOK, TriesInv, RawChunkInv, [Next]_vars
  PROVE  RawChunkInv'
<1>0. /\ Points \in Nat /\ night \in Nat /\ point \in Nat
      /\ files \in [0 .. Points -> Captures \cup {NoFile, Empty}]
      /\ Chunk \in 0 .. Points
  BY Numbers DEF TypeOK, Chunk
<1>1. IsCompleted(files[Chunk]) => files[Chunk].by[1] \in Nat
  <2>1. ASSUME IsCompleted(files[Chunk]) PROVE files[Chunk] \in Captures
    BY <1>0, <2>1 DEF IsCompleted
  <2>. QED BY <2>1 DEF Captures
<1>2. ASSUME UNCHANGED <<files, night>>,
             pc' \in {"startup", "schedule", "c2", "record", "c3", "metrics",
                      "sidecar"} =>
             pc \in {"startup", "schedule", "c2", "record", "c3", "metrics",
                     "sidecar"}
      PROVE  RawChunkInv'
  BY <1>2 DEF RawChunkInv
<1>3. CASE Start
  <2>1. files' = files /\ night' = night + 1
    BY <1>3 DEF Start, disk
  <2>. QED BY <1>0, <1>1, <2>1 DEF RawChunkInv
<1>4. CASE Unlink
  <2>1. files'[Chunk] = NoFile
    BY <1>0, <1>4 DEF Unlink
  <2>. QED BY <2>1 DEF RawChunkInv, IsCompleted
<1>5. ASSUME NEW content \in Contents \cup {Raw("cut"), Empty},
             pc = "c2", point < Points, Capture(point + 1, content),
             pc' \in {"c2", "record", "closing"}, night' = night
      PROVE  RawChunkInv'
  <2>1. files'[Chunk] = files[Chunk]
    BY <1>0, <1>5 DEF Capture, Chunk
  <2>. QED BY <1>5, <2>1 DEF RawChunkInv
<1>6. ASSUME NEW content \in Results(Chunk), Capture(Chunk, content),
             pc' \in {"process", "unlink", "closing"}, night' = night
      PROVE  RawChunkInv'
  <2>1. files'[Chunk] = content
    BY <1>0, <1>6 DEF Capture
  <2>2. Raw("whole").by[1] = night /\ Raw("cut").by[1] = night
    BY DEF Raw, File, ThisOne
  <2>3. IsCompleted(content) => content.by[1] <= night
    BY <1>0, <1>6, <2>2 DEF Results, RawChunkInv, IsCompleted
  <2>. QED BY <1>6, <2>1, <2>3 DEF RawChunkInv
<1>7. ASSUME NEW content \in Contents, Capturing("c2"), SweepPoint(content)
      PROVE  RawChunkInv'
  <2>1. /\ pc = "c2" /\ point < Points /\ Capture(point + 1, content)
        /\ pc' \in {"c2", "record", "closing"} /\ night' = night
    BY <1>7 DEF Capturing, SweepPoint, EndPhase
  <2>. QED BY <1>5, <2>1
<1>8. ASSUME NEW content \in Contents, Capturing("c3"), CaptureChunk(content)
      PROVE  RawChunkInv'
  <2>1. /\ content \in Results(Chunk) /\ Capture(Chunk, content)
        /\ pc' \in {"process", "unlink", "closing"} /\ night' = night
    BY <1>8 DEF CaptureChunk, EndPhase
  <2>. QED BY <1>6, <2>1
<1>9. ASSUME NEW content \in {Raw("cut"), Empty}, TimesOut(content)
      PROVE  RawChunkInv'
  <2>1. /\ \/ pc = "c2" /\ point < Points /\ Capture(point + 1, content)
           \/ Capture(Chunk, content)
        /\ pc' = "closing" /\ night' = night
    BY <1>9 DEF TimesOut, Capturing, EndPhase
  <2>2. content \in Results(Chunk)
    BY DEF Results
  <2>. QED BY <1>5, <1>6, <2>1, <2>2
<1>10. ASSUME NEW b \in BOOLEAN, Startup(b) \/ ScheduleSafetyShutdown(b)
       PROVE  RawChunkInv'
  BY <1>2, <1>10 DEF Startup, ScheduleSafetyShutdown, disk
<1>11. CASE \/ RecordPoint \/ EndSweep \/ Process \/ WriteMetrics
            \/ WriteChunkSidecar \/ StopsForDisk \/ SpendsBudget \/ Raises
  BY <1>2, <1>11
  DEF RecordPoint, EndSweep, Process, WriteMetrics, WriteChunkSidecar,
      StopsForDisk, SpendsBudget, Raises, EndPhase, disk
<1>12. CASE \/ WriteFinalStatus \/ CleanShutdown \/ Killed \/ PowerCut
            \/ SafetyFires \/ UNCHANGED vars
  BY <1>2, <1>12
  DEF WriteFinalStatus, CleanShutdown, CancelSafety, Sync, Halt, Hangs,
      Killed, PowerCut, SafetyFires, AfterCancel, vars, disk
<1>. QED
  BY <1>3, <1>4, <1>7, <1>8, <1>9, <1>10, <1>11, <1>12, Steps
-----------------------------------------------------------------------------
(* The emissions and the metrics.                                          *)

(* What the metrics and the emissions say together, when both keep.        *)
LEMMA SameRecords ==
  ASSUME UNCHANGED <<metrics, emissions>>, NEW n
  PROVE  Uncounted(n)' = Uncounted(n)
BY DEF Uncounted

(* Nothing of the night is uncounted but the capture in hand. *)
LEMMA EmissionsStep ==
  ASSUME TypeOK, TriesInv, LinesInv, EmissionsInv, [Next]_vars
  PROVE  EmissionsInv'
<1>0. /\ night \in Nat /\ MaxNights \in Nat /\ failures \in Nat
      /\ night \in 0 .. MaxNights
      /\ \A e \in emissions : e.by[1] \in Nat /\ e.by[1] <= night
      /\ \A n \in 1 .. MaxNights : \A a, b \in Uncounted(n) : a = b
  BY Numbers DEF TypeOK, EmissionsInv
(* While no record is written, *)
<1>1. ASSUME UNCHANGED <<metrics, emissions, night>>,
             \/ UNCHANGED <<pc, failures, capturing>>
             \/ pc' \in AtTheEnd
             \/ /\ pc \in (InTheLoops \ {"metrics", "unlink"})
                            \cup {"startup", "schedule"}
                /\ pc' \in {"startup", "schedule", "c2", "record", "c3"}
             \/ /\ pc = "unlink" /\ failures > 0 /\ pc' = "c3"
             \/ /\ pc = "c3"
                /\ \/ pc' = "process" /\ failures' = 0
                   \/ pc' = "unlink" /\ failures' > 0
                /\ capturing'.by \in Nat \X Nat \X Nat
                /\ capturing'.by[1] = night
             \/ /\ pc = "unlink" /\ failures = 0
                /\ pc' = "metrics" /\ UNCHANGED <<failures, capturing>>
      PROVE  EmissionsInv'
  <2>1. \A n : Uncounted(n)' = Uncounted(n)
    BY <1>1, SameRecords
  <2>2. /\ \A e \in emissions' : e.by[1] \in Nat /\ e.by[1] <= night'
        /\ \A n \in 1 .. MaxNights : \A a, b \in Uncounted(n)' : a = b
        /\ Uncounted(night)' = Uncounted(night) /\ night' = night
    BY <1>0, <1>1, <2>1
  <2>3. /\ pc' \in (InTheLoops \ {"metrics", "unlink"})
                     \cup {"startup", "schedule"} => Uncounted(night) = {}
        /\ pc' = "unlink" /\ failures' > 0 => Uncounted(night) = {}
        /\ Pending' => Uncounted(night) \subseteq {capturing'.by}
        /\ pc' = "process" \/ Pending' \/ pc' = "sidecar" =>
             capturing'.by \in Nat \X Nat \X Nat /\ capturing'.by[1] = night'
        /\ pc' = "process" => failures' = 0
    BY <1>1 DEF EmissionsInv, Pending, InTheLoops, AtTheEnd
  <2>. QED BY <2>2, <2>3 DEF EmissionsInv
<1>2. CASE Start
  <2>1. /\ UNCHANGED <<metrics, emissions>> /\ night' = night + 1
        /\ pc' = "startup"
    BY <1>2 DEF Start, disk
  <2>2. \A n : Uncounted(n)' = Uncounted(n)
    BY <2>1, SameRecords
  <2>3. \A e \in emissions : e.by[1] # night + 1
    BY <1>0
  <2>4. Uncounted(night + 1) = {}
    BY <2>3 DEF Uncounted
  <2>5. (Uncounted(night))' = {}
    BY <2>1, <2>2, <2>4
  <2>6. \A e \in emissions : e.by[1] <= night + 1
    BY <1>0
  <2>. QED BY <1>0, <2>1, <2>2, <2>5, <2>6 DEF EmissionsInv, Pending
(* the chunk in hand is processed, *)
<1>3. CASE Process
  <2>1. /\ pc = "process" /\ pc' = "unlink" /\ UNCHANGED <<metrics, night>>
        /\ UNCHANGED <<failures, capturing>>
        /\ emissions' = emissions \cup
             {[by    |-> capturing.by, read |-> files[Chunk],
               stamp |-> processed, heard |-> capturing.at]}
    BY <1>3 DEF Process
  <2>2. /\ Uncounted(night) = {} /\ failures = 0
        /\ capturing.by \in Nat \X Nat \X Nat /\ capturing.by[1] = night
    BY <2>1 DEF EmissionsInv, InTheLoops
  <2>3. capturing.by[1] \in Nat /\ capturing.by[1] <= night
    BY <1>0, <2>2
  <2>4. \A e \in emissions' : e.by[1] \in Nat /\ e.by[1] <= night
    BY <1>0, <2>1, <2>3
  <2>5. \A n : Uncounted(n)' \subseteq Uncounted(n) \cup {capturing.by}
    BY <2>1 DEF Uncounted
  <2>6. \A n : n # night => Uncounted(n)' = Uncounted(n)
    BY <2>1, <2>2 DEF Uncounted
  <2>7. (Uncounted(night))' \subseteq {capturing.by}
    BY <2>1, <2>2, <2>5
  <2>8. \A n \in 1 .. MaxNights : \A a, b \in Uncounted(n)' : a = b
    <3>1. SUFFICES ASSUME NEW n \in 1 .. MaxNights
                   PROVE  \A a, b \in Uncounted(n)' : a = b
      OBVIOUS
    <3>2. CASE n = night
      BY <2>2, <2>5, <3>2
    <3>3. CASE n # night
      BY <1>0, <2>6, <3>3
    <3>. QED BY <3>2, <3>3
  <2>. QED
    BY <2>1, <2>2, <2>4, <2>7, <2>8 DEF EmissionsInv, Pending, InTheLoops
(* and counted.                                                            *)
<1>4. CASE WriteMetrics
  <2>1. /\ pc = "metrics" /\ pc' = "sidecar"
        /\ UNCHANGED <<emissions, night, failures, capturing>>
        /\ metrics' = Append(metrics, [by |-> capturing.by, night |-> night,
                                        index |-> chunk])
    BY <1>4 DEF WriteMetrics, session
  <2>2. /\ Uncounted(night) \subseteq {capturing.by}
        /\ capturing.by \in Nat \X Nat \X Nat /\ capturing.by[1] = night
    BY <2>1 DEF EmissionsInv, Pending
  <2>3. /\ Len(metrics') = Len(metrics) + 1 /\ Len(metrics) \in Nat
        /\ \A j \in 1 .. Len(metrics) : metrics'[j] = metrics[j]
        /\ metrics'[Len(metrics) + 1].by = capturing.by
        /\ DOMAIN metrics' = 1 .. Len(metrics')
        /\ DOMAIN metrics = 1 .. Len(metrics)
    <3>1. PICK r : r = [by |-> capturing.by, night |-> night, index |-> chunk]
      OBVIOUS
    <3>2. metrics \in Seq([by : Nat \X Nat \X Nat, night : Nat, index : Nat])
      BY DEF LinesInv
    <3>3. r \in [by : Nat \X Nat \X Nat, night : Nat, index : Nat]
      BY <2>2, <3>1, Numbers
    <3>4. metrics' = Append(metrics, r)
      BY <2>1, <3>1
    <3>5. metrics' \in Seq([by : Nat \X Nat \X Nat, night : Nat, index : Nat])
      BY <3>2, <3>3, <3>4, AppendProperties
    <3>6. /\ Len(metrics') = Len(metrics) + 1
          /\ \A j \in 1 .. Len(metrics) : metrics'[j] = metrics[j]
          /\ metrics'[Len(metrics) + 1] = r
      BY <3>2, <3>3, <3>4, AppendProperties
    <3>. QED BY <3>1, <3>2, <3>5, <3>6, LenProperties
  <2>4. DOMAIN metrics' = DOMAIN metrics \cup {Len(metrics) + 1}
    BY <2>3
  <2>5. {metrics'[j].by : j \in DOMAIN metrics'}
          = {metrics[j].by : j \in DOMAIN metrics} \cup {capturing.by}
    BY <2>3, <2>4
  <2>6. \A n : Uncounted(n)' = Uncounted(n) \ {capturing.by}
    BY <2>1, <2>5 DEF Uncounted
  <2>7. (Uncounted(night))' = {}
    BY <2>1, <2>2, <2>6
  <2>8. \A n \in 1 .. MaxNights : \A a, b \in Uncounted(n)' : a = b
    BY <1>0, <2>6
  <2>. QED
    BY <1>0, <2>1, <2>2, <2>7, <2>8 DEF EmissionsInv, Pending, InTheLoops
<1>5. ASSUME NEW content \in Contents, Capturing("c2"), SweepPoint(content)
      PROVE  EmissionsInv'
  <2>1. /\ UNCHANGED <<metrics, emissions, night>>
        /\ pc = "c2" /\ pc' \in {"record", "closing", "c2"}
    BY <1>5 DEF Capturing, SweepPoint, EndPhase
  <2>. QED BY <1>1, <2>1 DEF InTheLoops, AtTheEnd
<1>6. ASSUME NEW content \in Contents, Capturing("c3"), CaptureChunk(content)
      PROVE  EmissionsInv'
  <2>1. /\ UNCHANGED <<metrics, emissions, night>> /\ pc = "c3"
        /\ capturing'.by = ThisOne
        /\ \/ pc' = "process" /\ IsCompleted(content)
           \/ pc' = "unlink" /\ ~IsCompleted(content)
           \/ pc' = "closing"
        /\ failures' = FailuresAfter(IsCompleted(content))
    BY <1>6 DEF Capturing, CaptureChunk, Capture, EndPhase
  <2>2. ThisOne \in Nat \X Nat \X Nat
    BY ContentIs
  <2>3. ThisOne[1] = night
    BY DEF ThisOne
  <2>4. /\ IsCompleted(content) => failures' = 0
        /\ ~IsCompleted(content) => failures' > 0
    BY <1>0, <2>1 DEF FailuresAfter
  <2>. QED BY <1>1, <2>1, <2>2, <2>3, <2>4 DEF AtTheEnd
<1>7. ASSUME NEW b \in BOOLEAN, Startup(b) \/ ScheduleSafetyShutdown(b)
      PROVE  EmissionsInv'
  <2>1. /\ UNCHANGED <<metrics, emissions, night>>
        /\ pc \in {"startup", "schedule"} /\ pc' \in {"none", "schedule", "c2"}
    BY <1>7 DEF Startup, ScheduleSafetyShutdown, disk
  <2>. QED BY <1>1, <2>1 DEF AtTheEnd
<1>8. CASE \/ \E content \in {Raw("cut"), Empty} : TimesOut(content)
           \/ StopsForDisk \/ SpendsBudget \/ Raises \/ WriteFinalStatus
           \/ CleanShutdown \/ Killed \/ PowerCut \/ SafetyFires
  <2>1. /\ UNCHANGED <<metrics, emissions, night>>
        /\ pc' \in AtTheEnd
    BY <1>8
    DEF TimesOut, StopsForDisk, SpendsBudget, Raises, WriteFinalStatus,
        CleanShutdown, CancelSafety, Sync, Halt, Hangs, Killed, PowerCut,
        SafetyFires, AfterCancel, AtTheEnd, EndPhase, disk
  <2>. QED BY <1>1, <2>1
<1>9. CASE UNCHANGED vars
  BY <1>1, <1>9 DEF vars
<1>10. CASE RecordPoint \/ EndSweep \/ WriteChunkSidecar
  <2>1. /\ UNCHANGED <<metrics, emissions, night>>
        /\ pc \in {"record", "c2", "sidecar"} /\ pc' \in {"c2", "c3"}
    BY <1>10 DEF RecordPoint, EndSweep, WriteChunkSidecar, disk
  <2>. QED BY <1>1, <2>1 DEF InTheLoops, AtTheEnd
<1>11. CASE Unlink
  <2>1. /\ UNCHANGED <<metrics, emissions, night, failures, capturing>>
        /\ pc = "unlink" /\ pc' = IF failures > 0 THEN "c3" ELSE "metrics"
    BY <1>11 DEF Unlink, session
  <2>2. failures > 0 \/ failures = 0
    BY <1>0
  <2>. QED BY <1>0, <1>1, <2>1, <2>2
<1>. QED
  BY <1>2, <1>3, <1>4, <1>5, <1>6, <1>7, <1>8, <1>9, <1>10, <1>11, Steps
-----------------------------------------------------------------------------
(* The lines of the metrics.                                               *)

Line == [by : Nat \X Nat \X Nat, night : Nat, index : Nat]

(* What a step that writes no line and no sidecar leaves. *)
LEMMA SameLines ==
  ASSUME UNCHANGED <<metrics, sidecars, night, chunk>>, NEW c
  PROVE  LastLines(c)' <=> LastLines(c)
BY DEF LastLines

(* One more line of this night, numbered on from the last one. *)
LEMMA OneMoreLine ==
  ASSUME TypeOK, metrics \in Seq(Line), LastLines(chunk),
         NEW r \in Line, r.night = night, r.index = chunk,
         metrics' = Append(metrics, r),
         UNCHANGED <<sidecars, night, chunk>>
  PROVE  /\ LastLines(chunk + 1)'
         /\ Len(metrics') = Len(metrics) + 1
         /\ metrics'[Len(metrics')] = r
         /\ metrics' \in Seq(Line)
         /\ \A j \in 1 .. Len(metrics) : metrics'[j] = metrics[j]
<1>1. PICK n \in Nat, c \in Nat, m \in Seq(Line) :
        /\ n = Len(metrics) /\ c = chunk /\ m = metrics'
        /\ Len(m) = n + 1 /\ m[n + 1] = r
        /\ \A j \in 1 .. n : m[j] = metrics[j]
  <2>1. Len(metrics) \in Nat /\ chunk \in Nat
    BY LenProperties, Numbers
  <2>2. /\ metrics' \in Seq(Line) /\ Len(metrics') = Len(metrics) + 1
        /\ metrics'[Len(metrics) + 1] = r
        /\ \A j \in 1 .. Len(metrics) : metrics'[j] = metrics[j]
    BY AppendProperties
  <2>. QED BY <2>1, <2>2
<1>2. /\ c <= n
      /\ \A j \in 1 .. n : (metrics[j].night = night) <=> (n - c < j)
      /\ \A j \in 1 .. n : n - c < j =>
           /\ metrics[j].index = (j - (n - c)) - 1
           /\ metrics[j].index < c => sidecars[metrics[j].index] = metrics[j].by
  BY <1>1 DEF LastLines
<1>3. c + 1 <= n + 1 /\ (n + 1) - (c + 1) = n - c /\ n - c < n + 1
  BY <1>2
<1>4. ASSUME NEW j \in 1 .. n + 1
      PROVE  /\ (m[j].night = night) <=> (n - c < j)
             /\ n - c < j =>
                  /\ m[j].index = (j - (n - c)) - 1
                  /\ m[j].index < c => sidecars[m[j].index] = m[j].by
  <2>1. CASE j \in 1 .. n
    BY <1>1, <1>2, <2>1
  <2>2. CASE j \notin 1 .. n
    <3>1. j = n + 1
      BY <2>2
    <3>2. ((n + 1) - (n - c)) - 1 = c /\ ~(c < c)
      BY <1>1
    <3>. QED BY <1>1, <1>3, <3>1, <3>2
  <2>. QED BY <2>1, <2>2
<1>5. LastLines(chunk + 1)'
  <2>1. Len(metrics') - (chunk + 1) = n - c
    BY <1>1, <1>3
  <2>. QED BY <1>1, <1>3, <1>4, <2>1 DEF LastLines
<1>. QED BY <1>1, <1>5

(* The sidecar of the last line is written. *)
LEMMA ItsSidecar ==
  ASSUME TypeOK, metrics \in Seq(Line), LastLines(chunk + 1),
         0 .. chunk - 1 \subseteq DOMAIN sidecars,
         metrics[Len(metrics)].by = capturing.by,
         sidecars' = [i \in DOMAIN sidecars \cup {chunk} |->
                         IF i = chunk THEN capturing.by ELSE sidecars[i]],
         chunk' = chunk + 1,
         UNCHANGED <<metrics, night>>
  PROVE  /\ LastLines(chunk)'
         /\ 0 .. chunk' - 1 \subseteq DOMAIN sidecars'
<1>1. PICK n \in Nat, c \in Nat : n = Len(metrics) /\ c = chunk
  BY LenProperties, Numbers
<1>2. /\ c + 1 <= n
      /\ \A j \in 1 .. n : (metrics[j].night = night) <=> (n - (c + 1) < j)
      /\ \A j \in 1 .. n : n - (c + 1) < j =>
           /\ metrics[j].index = (j - (n - (c + 1))) - 1
           /\ metrics[j].index < c => sidecars[metrics[j].index] = metrics[j].by
  BY <1>1 DEF LastLines
<1>3. 0 .. chunk' - 1 \subseteq DOMAIN sidecars'
  <2>1. \A i \in 0 .. (c + 1) - 1 : i \in 0 .. c - 1 \/ i = c
    BY <1>1
  <2>. QED BY <1>1, <2>1
<1>4. ASSUME NEW j \in 1 .. n, n - (c + 1) < j
      PROVE  sidecars'[metrics[j].index] = metrics[j].by
  <2>1. metrics[j].index = (j - (n - (c + 1))) - 1
    BY <1>2, <1>4
  <2>2. CASE j = n
    <3>1. metrics[j].index = c
      BY <1>2, <2>1, <2>2
    <3>. QED BY <1>1, <2>2, <3>1
  <2>3. CASE j # n
    <3>1. metrics[j].index \in 0 .. c - 1
      BY <1>2, <1>4, <2>1, <2>3
    <3>2. metrics[j].index # c /\ metrics[j].index < c
      BY <3>1
    <3>3. metrics[j].index \in DOMAIN sidecars
      BY <1>1, <3>1
    <3>4. sidecars'[metrics[j].index] = sidecars[metrics[j].index]
      BY <1>1, <3>2, <3>3
    <3>. QED BY <1>2, <1>4, <3>2, <3>4
  <2>. QED BY <2>2, <2>3
<1>5. LastLines(chunk)'
  BY <1>1, <1>2, <1>4 DEF LastLines
<1>. QED BY <1>3, <1>5

LEMMA NightsOfLines ==
  ASSUME metrics \in Seq(Line), NEW j \in 1 .. Len(metrics)
  PROVE  metrics[j].night \in Nat
<1>1. metrics[j] \in Line
  BY ElementOfSeq
<1>. QED BY <1>1 DEF Line

(* The lines of a night that starts are none. *)
LEMMA NoLines ==
  ASSUME TypeOK, metrics \in Seq(Line),
         \A j \in 1 .. Len(metrics) : metrics[j].night <= night,
         UNCHANGED metrics, night' = night + 1, chunk' = 0
  PROVE  LastLines(chunk)'
<1>1. night \in Nat /\ Len(metrics) \in Nat
  BY Numbers, LenProperties
<1>2. \A j \in 1 .. Len(metrics) : metrics[j].night \in Nat
  BY NightsOfLines
<1>3. \A j \in 1 .. Len(metrics) :
        metrics[j].night # night + 1 /\ ~(Len(metrics) - 0 < j)
  BY <1>1, <1>2
<1>4. 0 <= Len(metrics)
  BY <1>1
<1>. QED BY <1>3, <1>4 DEF LastLines

(* The lines of the night are numbered on and have their sidecars.         *)
LEMMA LinesStep ==
  ASSUME TypeOK, PhasesInv, LinesInv, EmissionsInv, [Next]_vars
  PROVE  LinesInv'
<1>0. /\ night \in Nat /\ chunk \in Nat /\ metrics \in Seq(Line)
      /\ Len(metrics) \in Nat
      /\ \A j \in 1 .. Len(metrics) : metrics[j].night <= night
  BY Numbers, LenProperties DEF LinesInv, Line
<1>1. ASSUME UNCHANGED <<metrics, sidecars, night, chunk>>,
             \/ UNCHANGED <<pc, capturing>>
             \/ pc' \in AtTheEnd
             \/ /\ pc \in (InTheLoops \ {"sidecar"})
                            \cup {"startup", "schedule"}
                /\ pc' # "sidecar"
      PROVE  LinesInv'
  <2>1. \A c : LastLines(c)' <=> LastLines(c)
    BY <1>1, SameLines
  <2>2. LastLines(chunk)' \/ LastLines(chunk + 1)'
    BY <1>1, <2>1 DEF LinesInv
  <2>3. pc' \in (InTheLoops \ {"sidecar"}) \cup {"startup", "schedule"} =>
          LastLines(chunk)'
    BY <1>1, <2>1 DEF LinesInv, InTheLoops, AtTheEnd
  <2>4. pc' = "sidecar" =>
          LastLines(chunk + 1)' /\ metrics'[Len(metrics')].by = capturing'.by
    BY <1>1, <2>1 DEF LinesInv, InTheLoops, AtTheEnd
  <2>. QED BY <1>0, <1>1, <2>2, <2>3, <2>4 DEF LinesInv, Line
<1>2. CASE Start
  <2>1. /\ UNCHANGED <<metrics, sidecars>> /\ night' = night + 1
        /\ chunk' = 0 /\ pc' = "startup"
    BY <1>2 DEF Start, disk
  <2>2. LastLines(chunk)'
    BY <1>0, <2>1, NoLines
  <2>3. \A j \in 1 .. Len(metrics) : metrics[j].night <= night + 1
    <3>1. \A j \in 1 .. Len(metrics) : metrics[j].night \in Nat
      BY <1>0, NightsOfLines
    <3>. QED BY <1>0, <3>1
  <2>4. 0 .. chunk' - 1 \subseteq DOMAIN sidecars'
    BY <2>1
  <2>. QED BY <1>0, <2>1, <2>2, <2>3, <2>4 DEF LinesInv, Line
<1>3. CASE WriteMetrics
  <2>0. PICK r : r = [by |-> capturing.by, night |-> night, index |-> chunk]
    OBVIOUS
  <2>1. /\ pc = "metrics" /\ pc' = "sidecar"
        /\ UNCHANGED <<sidecars, night, chunk, capturing>>
        /\ metrics' = Append(metrics, r)
    BY <1>3, <2>0 DEF WriteMetrics, session
  <2>2. r \in Line /\ r.night = night /\ r.index = chunk /\ r.by = capturing.by
    BY <1>0, <2>0, <2>1 DEF EmissionsInv, Pending, Line
  <2>3. LastLines(chunk)
    BY <2>1 DEF LinesInv, InTheLoops
  <2>4. /\ LastLines(chunk + 1)' /\ Len(metrics') = Len(metrics) + 1
        /\ metrics'[Len(metrics')] = r /\ metrics' \in Seq(Line)
        /\ \A j \in 1 .. Len(metrics) : metrics'[j] = metrics[j]
    BY <1>0, <2>1, <2>2, <2>3, OneMoreLine
  <2>5. \A j \in 1 .. Len(metrics') : metrics'[j].night <= night'
    <3>1. \A j \in 1 .. Len(metrics') : j \in 1 .. Len(metrics) \/ j = Len(metrics')
      BY <1>0, <2>4
    <3>2. night <= night
      BY <1>0
    <3>. QED BY <1>0, <2>1, <2>2, <2>4, <3>1, <3>2
  <2>6. 0 .. chunk' - 1 \subseteq DOMAIN sidecars'
    BY <2>1 DEF LinesInv
  <2>. QED
    BY <2>1, <2>2, <2>4, <2>5, <2>6 DEF LinesInv, Line, InTheLoops
<1>4. CASE WriteChunkSidecar
  <2>1. /\ pc = "sidecar" /\ pc' = "c3" /\ UNCHANGED <<metrics, night>>
        /\ chunk' = chunk + 1
        /\ sidecars' = [i \in DOMAIN sidecars \cup {chunk} |->
                           IF i = chunk THEN capturing.by ELSE sidecars[i]]
    BY <1>4 DEF WriteChunkSidecar
  <2>2. /\ LastLines(chunk + 1) /\ metrics[Len(metrics)].by = capturing.by
        /\ 0 .. chunk - 1 \subseteq DOMAIN sidecars
    BY <2>1 DEF LinesInv
  <2>3. LastLines(chunk)' /\ 0 .. chunk' - 1 \subseteq DOMAIN sidecars'
    BY <1>0, <2>1, <2>2, ItsSidecar
  <2>. QED BY <1>0, <2>1, <2>3 DEF LinesInv, Line
<1>5. ASSUME NEW content \in Contents, Capturing("c2"), SweepPoint(content)
      PROVE  LinesInv'
  <2>1. /\ UNCHANGED <<metrics, sidecars, night, chunk>>
        /\ pc = "c2" /\ pc' \in {"record", "closing", "c2"}
    BY <1>5 DEF Capturing, SweepPoint, EndPhase
  <2>. QED BY <1>1, <2>1 DEF InTheLoops, AtTheEnd
<1>6. ASSUME NEW content \in Contents, Capturing("c3"), CaptureChunk(content)
      PROVE  LinesInv'
  <2>1. /\ UNCHANGED <<metrics, sidecars, night, chunk>>
        /\ pc = "c3" /\ pc' \in {"process", "unlink", "closing"}
    BY <1>6 DEF Capturing, CaptureChunk, EndPhase, ChunkAfterFailure
  <2>. QED BY <1>1, <2>1 DEF InTheLoops, AtTheEnd
<1>7. ASSUME NEW b \in BOOLEAN, Startup(b) \/ ScheduleSafetyShutdown(b)
      PROVE  LinesInv'
  <2>1. /\ UNCHANGED <<metrics, sidecars, night, chunk>>
        /\ pc \in {"startup", "schedule"} /\ pc' \in {"none", "schedule", "c2"}
    BY <1>7 DEF Startup, ScheduleSafetyShutdown, disk, session
  <2>. QED BY <1>1, <2>1 DEF AtTheEnd
<1>8. CASE \/ \E content \in {Raw("cut"), Empty} : TimesOut(content)
           \/ StopsForDisk \/ SpendsBudget \/ Raises \/ WriteFinalStatus
           \/ CleanShutdown \/ Killed \/ PowerCut \/ SafetyFires
  <2>1. /\ UNCHANGED <<metrics, sidecars, night, chunk>>
        /\ pc' \in AtTheEnd
    BY <1>8
    DEF TimesOut, StopsForDisk, SpendsBudget, Raises, WriteFinalStatus,
        CleanShutdown, CancelSafety, Sync, Halt, Hangs, Killed, PowerCut,
        SafetyFires, AfterCancel, AtTheEnd, EndPhase, disk, session
  <2>. QED BY <1>1, <2>1
<1>9. CASE UNCHANGED vars
  BY <1>1, <1>9 DEF vars
<1>10. CASE RecordPoint \/ EndSweep \/ Process \/ Unlink
  <2>1. /\ UNCHANGED <<metrics, sidecars, night, chunk>>
        /\ pc \in {"record", "c2", "process", "unlink"}
        /\ pc' \in {"c2", "c3", "unlink", "metrics"}
    BY <1>10 DEF RecordPoint, EndSweep, Process, Unlink, disk, session
  <2>. QED BY <1>1, <2>1 DEF InTheLoops, AtTheEnd
<1>. QED
  BY <1>2, <1>3, <1>4, <1>5, <1>6, <1>7, <1>8, <1>9, <1>10, Steps
-----------------------------------------------------------------------------
(* The invariant, and what it gives.                                       *)

LEMMA SurveyInvariant == Spec => []SurveyInv
<1>1. SurveyInv /\ [Next]_vars => SurveyInv'
  <2>. SUFFICES ASSUME SurveyInv, [Next]_vars PROVE SurveyInv'
    OBVIOUS
  <2>1. TypeOK' /\ BudgetInv' /\ TriesInv'
    BY TypeStep, BudgetStep, TriesStep DEF SurveyInv
  <2>2. PhasesInv' /\ StatusInv'
    BY PhasesStep, StatusStep DEF SurveyInv
  <2>3. LinesInv' /\ EmissionsInv' /\ RawChunkInv'
    BY LinesStep, EmissionsStep, RawChunkStep DEF SurveyInv
  <2>. QED BY <2>1, <2>2, <2>3 DEF SurveyInv
<1>. QED BY SurveyStart, <1>1, PTL DEF Spec

(* Type correctness, for every sweep, budget, patience and number of       *)
(* nights.                                                                 *)
THEOREM TypeCorrect == Spec => []TypeOK
<1>1. SurveyInv => TypeOK
  BY DEF SurveyInv
<1>. QED BY <1>1, SurveyInvariant, PTL

(* A phase gives up on the device exactly when its last captures brought   *)
(* nothing, so many of them that the script stops (both loops' counting of *)
(* consecutive_failures).                                                  *)
THEOREM SurrendersAreEarned == Spec => []SurrenderIsEarned
<1>1. SurveyInv => SurrenderIsEarned
  <2>. SUFFICES ASSUME SurveyInv, outcome \in {"none", "device"}
                PROVE  outcome = "device" <=> NothingLately
    BY DEF SurrenderIsEarned
  <2>1. NothingLately <=> failures = GiveUpAfter
    BY Lately DEF SurveyInv, TriesInv
  <2>2. /\ outcome = "none" => failures < GiveUpAfter
        /\ outcome = "device" => failures = GiveUpAfter
    BY DEF SurveyInv, TriesInv
  <2>3. failures \in Nat /\ GiveUpAfter \in Nat
    BY Numbers DEF SurveyInv
  <2>. QED BY <2>1, <2>2, <2>3
<1>. QED BY <1>1, SurveyInvariant, PTL

(* When the script is through with its last commands or hangs in one,      *)
(* STATUS.json is of this night and says how it ended (the last write of   *)
(* main).                                                                  *)
THEOREM StatusIsTrue == Spec => []StatusTellsOutcome
<1>1. SurveyInv => StatusTellsOutcome
  BY DEF SurveyInv, StatusInv, Told, StatusTellsOutcome
<1>. QED BY <1>1, SurveyInvariant, PTL

(* The lines of a night are an interval of the metrics. *)
LEMMA TonightIs ==
  ASSUME metrics \in Seq(Line), NEW c \in Nat, LastLines(c)
  PROVE  /\ Tonight = (Len(metrics) - c) + 1 .. Len(metrics)
         /\ Len(metrics) \in Nat /\ c <= Len(metrics)
         /\ Cardinality(Tonight) = c
         /\ \A j \in Tonight :
              Cardinality({k \in Tonight : k < j})
                = (j - (Len(metrics) - c)) - 1
<1>1. PICK n \in Nat : n = Len(metrics)
  BY LenProperties
<1>2. DOMAIN metrics = 1 .. n
  BY <1>1, LenProperties
<1>3. c <= n
      /\ \A j \in 1 .. n : (metrics[j].night = night) <=> (n - c < j)
  BY <1>1 DEF LastLines
<1>4. Tonight = (n - c) + 1 .. n
  <2>1. Tonight = {j \in 1 .. n : n - c < j}
    BY <1>2, <1>3 DEF Tonight
  <2>2. {j \in 1 .. n : n - c < j} = (n - c) + 1 .. n
    BY <1>3
  <2>. QED BY <2>1, <2>2
<1>5. Cardinality(Tonight) = c
  <2>1. Cardinality((n - c) + 1 .. n)
          = IF (n - c) + 1 > n THEN 0 ELSE (n - ((n - c) + 1)) + 1
    <3>1. (n - c) + 1 \in Int /\ n \in Int
      OBVIOUS
    <3>. QED BY <3>1, FS_Interval
  <2>. QED BY <1>3, <1>4, <2>1
<1>6. ASSUME NEW j \in (n - c) + 1 .. n
      PROVE  Cardinality({k \in (n - c) + 1 .. n : k < j}) = (j - (n - c)) - 1
  <2>1. {k \in (n - c) + 1 .. n : k < j} = (n - c) + 1 .. j - 1
    BY <1>3, <1>6
  <2>2. Cardinality((n - c) + 1 .. j - 1)
          = IF (n - c) + 1 > j - 1 THEN 0
            ELSE ((j - 1) - ((n - c) + 1)) + 1
    <3>1. (n - c) + 1 \in Int /\ j - 1 \in Int
      BY <1>6
    <3>. QED BY <3>1, FS_Interval
  <2>3. (n - c) + 1 <= j /\ j \in Int
    BY <1>6
  <2>4. (IF (n - c) + 1 > j - 1 THEN 0 ELSE ((j - 1) - ((n - c) + 1)) + 1)
          = (j - (n - c)) - 1
    BY <2>3
  <2>. QED BY <2>1, <2>2, <2>4
<1>. QED BY <1>1, <1>3, <1>4, <1>5, <1>6

(* A set of at most one element. *)
LEMMA AtMostOne ==
  ASSUME NEW S, \A a, b \in S : a = b
  PROVE  Cardinality(S) <= 1
<1>1. CASE S = {}
  BY <1>1, FS_EmptySet
<1>2. CASE S # {}
  <2>1. PICK x \in S : TRUE
    BY <1>2
  <2>2. S = {x}
    BY <2>1
  <2>3. Cardinality({x}) = 1
    BY FS_Singleton
  <2>. QED BY <2>2, <2>3
<1>. QED BY <1>1, <1>2

(* The records of the long run agree, wherever it was killed and over any  *)
(* number of nights on the same files (run_c3's writes to metrics.jsonl,   *)
(* the sidecars, emissions.jsonl and the raw chunk).                       *)
THEOREM RecordsAgree == Spec => []ChunkRecordsAgree
<1>1. SurveyInv => ChunkRecordsAgree
  <2>. SUFFICES ASSUME SurveyInv PROVE ChunkRecordsAgree
    OBVIOUS
  <2>1. chunk \in Nat /\ metrics \in Seq(Line)
    BY Numbers DEF SurveyInv, LinesInv, Line
  <2>2. PICK c \in Nat : c \in {chunk, chunk + 1} /\ LastLines(c)
    BY <2>1 DEF SurveyInv, LinesInv
  <2>3. PICK n \in Nat :
          /\ n = Len(metrics) /\ c <= n /\ Tonight = (n - c) + 1 .. n
          /\ Cardinality(Tonight) = c
          /\ \A j \in Tonight :
               Cardinality({k \in Tonight : k < j}) = (j - (n - c)) - 1
    BY <2>1, <2>2, TonightIs
  <2>4. \A j \in Tonight :
          /\ metrics[j].index = (j - (n - c)) - 1
          /\ metrics[j].index < chunk =>
               sidecars[metrics[j].index] = metrics[j].by
    <3>1. \A j \in Tonight : j \in 1 .. n /\ n - c < j
      BY <2>3
    <3>. QED BY <2>2, <2>3, <3>1 DEF LastLines
  <2>5. Cardinality(Tonight) - chunk \in {0, 1}
    BY <2>1, <2>2, <2>3
  <2>6. \A m \in 1 .. MaxNights : Cardinality(Uncounted(m)) <= 1
    BY AtMostOne DEF SurveyInv, EmissionsInv
  <2>7. pc = "c3" /\ IsCompleted(files[Chunk]) => files[Chunk].by[1] < night
    BY DEF SurveyInv, RawChunkInv
  <2>. QED BY <2>3, <2>4, <2>5, <2>6, <2>7 DEF ChunkRecordsAgree
<1>. QED BY <1>1, SurveyInvariant, PTL
=============================================================================
