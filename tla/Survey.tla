------------------------------- MODULE Survey ------------------------------
(* scripts/overnight_survey.py: the gain sweep (run_c2) and the long run   *)
(* (run_c3) of a night, on a machine that may lose its power, with a       *)
(* process that may be killed, and night after night on the same files.    *)
(* Time is counted in ticks, one for a chunk or a backoff; waits inside a  *)
(* step (time.sleep) only pass.  Writes of STATUS.json are atomic and do   *)
(* not fail.  hackrf_transfer and shutdown are external.                   *)
EXTENDS Integers, Sequences, FiniteSets

CONSTANTS
    Points,      \* the gain points of the sweep, C2_LNA_VALUES x C2_VGA_VALUES
    GiveUpAfter, \* consecutive failures after which a phase gives up: 20
    Budget,      \* TOTAL_BUDGET_S, in ticks
    MaxNights    \* bound of the model: sessions started

ASSUME SurveyAssumption ==
    /\ Points \in Nat
    /\ GiveUpAfter \in Nat \ {0}
    /\ Budget \in Nat
    /\ MaxNights \in Nat

VARIABLES
    on,        \* external: the machine runs
    safety,    \* external: a shutdown is scheduled
    pc,        \* what the script does next; "none": no script runs
    night,     \* history: the number of the session
    point,     \* points of the sweep that are behind
    failures,  \* consecutive_failures
    left,      \* what is left until deadline
    processed, \* node.frames_processed, in ticks
    chunk,     \* chunk_index
    files,     \* the raw files: one per point, and "chunk"
    capturing, \* outcome of the last capture: its number and its file
    status,    \* STATUS.json
    outcome,   \* summary: how the phases ended, "none" while they go on
    metrics,   \* metrics.jsonl
    sidecars,  \* chunk_sidecars: index -> record
    emissions, \* emissions.jsonl, one record for each chunk with signal
    clock,     \* history: the time of day
    tries,     \* history: what the captures of the phase brought
    ended      \* history: what ended the script this night, so far "nothing"

disk    == <<files, metrics, sidecars, emissions>>
machine == <<on, safety, ended>>
vars == <<on, safety, pc, night, point, failures, left, processed, chunk,
          files, capturing, status, outcome, metrics, sidecars, emissions,
          clock, tries, ended>>

Epoch   == 1  \* the first night is not at the Unix epoch
Nobody  == <<0, 0, 0>>
File(kind, by) == [kind |-> kind, by |-> by]
NoFile  == File("none", Nobody)
Empty   == File("empty", Nobody)

Init ==
    /\ on = FALSE /\ safety = FALSE /\ ended = "nothing"
    /\ pc = "none" /\ night = 0
    /\ point = 0 /\ failures = 0 /\ left = 0 /\ processed = 0 /\ chunk = 0
    /\ files = [f \in 1 .. Points \cup {0} |-> NoFile]
    /\ capturing = [by |-> Nobody, at |-> 0]
    /\ status = [state |-> "none", phase |-> "none", night |-> 0]
    /\ outcome = "none"
    /\ metrics = <<>> /\ sidecars = <<>> /\ emissions = {}
    /\ clock = Epoch /\ tries = <<>>

Chunk == 0  \* the place of _chunk.cs8 among the files

WriteStatus(state, phase) ==
    status' = [state |-> state, phase |-> phase, night |-> night]

-----------------------------------------------------------------------------
(* The operator starts the script. *)
Start ==
    /\ pc = "none" /\ night < MaxNights
    /\ on' = TRUE /\ ended' = "nothing"
    /\ night' = night + 1
    /\ pc' = "startup"
    /\ point' = 0 /\ failures' = 0 /\ left' = 0 /\ processed' = 0
    /\ chunk' = 0 /\ capturing' = [by |-> Nobody, at |-> 0]
    /\ outcome' = "none" /\ tries' = <<>>
    /\ UNCHANGED <<safety, status, clock, disk>>

session == <<point, failures, left, processed, chunk, capturing, outcome, tries>>

(* main up to schedule_safety_shutdown, whose failure exits before the try *)
(* that shuts down; so does a disk that is full.                           *)
Startup(free) ==
    /\ pc = "startup"
    /\ IF free THEN WriteStatus("running", "startup") /\ pc' = "schedule"
               ELSE WriteStatus("aborted_phase_startup", "startup") /\ pc' = "none"
    /\ UNCHANGED <<machine, night, session, clock, disk>>

ScheduleSafetyShutdown(done) ==
    /\ pc = "schedule"
    /\ safety' = (done \/ safety)
    /\ pc' = IF done THEN "c2" ELSE "none"
    /\ left' = IF done THEN Budget ELSE 0
    /\ UNCHANGED <<on, ended, night, point, failures, processed, chunk,
                   capturing, outcome, tries, status, clock, disk>>

-----------------------------------------------------------------------------
(* One run of hackrf_transfer, which opens the device before the file: it  *)
(* brings the whole capture or, when it is cut off, a part; or it leaves   *)
(* an empty file, or the file of that name as it was.                      *)
ThisOne == <<night, point, Len(tries) + 1>>
Raw(kind) == File(kind, ThisOne)

Contents == {Raw("whole"), Raw("cut"), Empty} \cup {files[f] : f \in DOMAIN files}
Results(f) == {Raw("whole"), Raw("cut"), Empty, files[f]}

(* What capture calls completed: the file exists and is not empty. *)
IsCompleted(content) == content \notin {NoFile, Empty}

Brought(f, content) ==
    CASE ~IsCompleted(content) -> "nothing"
      [] IsCompleted(content) /\ content = files[f] -> "an old file"
      [] OTHER -> "a capture"

Capture(f, content) ==
    /\ files' = [files EXCEPT ![f] = content]
    /\ tries' = Append(tries, Brought(f, content))
    /\ capturing' = [by |-> ThisOne, at |-> clock]

FailuresAfter(completed) == IF completed THEN 0 ELSE failures + 1

GivesUpLate(failed) == failed > GiveUpAfter  \* slip
GivesUp(failed) == failed >= GiveUpAfter

(* A phase ends; main writes the status and its finally shuts down. *)
EndPhase(how) == outcome' = how /\ pc' = "closing"

(* The loops go on to another capture, unless the disk is full. *)
Capturing(phase) ==
    /\ pc = phase
    /\ IF phase = "c2" THEN point < Points ELSE left > 0

StopsForDisk ==
    /\ Capturing("c2") \/ Capturing("c3")
    /\ EndPhase("disk")
    /\ UNCHANGED <<machine, night, point, failures, left, processed, chunk,
                   capturing, tries, status, clock, disk>>

(* run_c2: one point. *)
SweepPoint(content) ==
    LET completed == IsCompleted(content)
        failed    == FailuresAfter(completed)
    IN  /\ content \in Results(point + 1)
        /\ Capture(point + 1, content)
        /\ failures' = failed
        /\ clock' = clock + 1
        /\ left' = IF left > 0 THEN left - 1 ELSE 0
        /\ IF completed THEN pc' = "record" /\ UNCHANGED <<point, outcome>>
           ELSE IF GivesUp(failed)
           THEN EndPhase("device") /\ UNCHANGED point
           ELSE pc' = "c2" /\ point' = point + 1 /\ UNCHANGED outcome
        /\ UNCHANGED <<machine, night, processed, chunk, status, metrics,
                       sidecars, emissions>>

RecordPoint ==
    /\ pc = "record"
    /\ point' = point + 1
    /\ pc' = "c2"
    /\ WriteStatus("running", "c2_gain_sweep")
    /\ UNCHANGED <<machine, night, failures, left, processed, chunk,
                   capturing, outcome, tries, clock, disk>>

EndSweep ==
    /\ pc = "c2" /\ point = Points
    /\ pc' = "c3" /\ failures' = 0 /\ tries' = <<>>
    /\ UNCHANGED <<machine, night, point, left, processed, chunk, capturing,
                   outcome, status, clock, disk>>

(* run_c3: one chunk, from the top of the loop to the end of the capture;  *)
(* after a failure, to the end of the backoff.                             *)
ChunkAfterFailureCounted == chunk + 1 \* slip
ChunkAfterFailure == chunk

CaptureChunk(content) ==
    LET completed == IsCompleted(content)
        failed    == FailuresAfter(completed)
    IN  /\ content \in Results(Chunk)
        /\ Capture(Chunk, content)
        /\ WriteStatus("running", "c3_long_run")
        /\ failures' = failed
        /\ clock' = clock + 1
        /\ left' = left - 1
        /\ IF completed THEN pc' = "process" /\ UNCHANGED <<chunk, outcome>>
           ELSE IF GivesUp(failed)
           THEN EndPhase("device") /\ UNCHANGED chunk
           ELSE pc' = "unlink" /\ chunk' = ChunkAfterFailure /\ UNCHANGED outcome
        /\ UNCHANGED <<machine, night, point, processed, metrics, sidecars,
                       emissions>>

(* The chunk through the node, whose _start_time is never set here, and    *)
(* what it reports into the sink.                                          *)
Process ==
    /\ pc = "process"
    /\ emissions' = emissions \cup
           {[by    |-> capturing.by, read |-> files[Chunk],
             stamp |-> processed, heard |-> capturing.at]}
    /\ processed' = processed + 1
    /\ pc' = "unlink"
    /\ UNCHANGED <<machine, night, point, failures, left, chunk, capturing,
                   outcome, tries, status, clock, files, metrics, sidecars>>

Unlink ==
    /\ pc = "unlink"
    /\ files' = [files EXCEPT ![Chunk] = NoFile]
    /\ pc' = IF failures > 0 THEN "c3" ELSE "metrics"
    /\ UNCHANGED <<machine, night, session, status, clock, metrics, sidecars,
                   emissions>>

WriteMetrics ==
    /\ pc = "metrics"
    /\ metrics' = Append(metrics, [by |-> capturing.by, night |-> night,
                                   index |-> chunk])
    /\ pc' = "sidecar"
    /\ UNCHANGED <<machine, night, session, status, clock, files, sidecars,
                   emissions>>

WriteChunkSidecar ==
    /\ pc = "sidecar"
    /\ sidecars' = [i \in DOMAIN sidecars \cup {chunk} |->
                       IF i = chunk THEN capturing.by ELSE sidecars[i]]
    /\ chunk' = chunk + 1
    /\ pc' = "c3"
    /\ WriteStatus("running", "c3_long_run")
    /\ UNCHANGED <<machine, night, point, failures, left, processed,
                   capturing, outcome, tries, clock, files, metrics,
                   emissions>>

SpendsBudget ==
    /\ pc = "c3" /\ left = 0
    /\ EndPhase("budget")
    /\ UNCHANGED <<machine, night, point, failures, left, processed, chunk,
                   capturing, tries, status, clock, disk>>

(* An exception inside the try of main: a capture that runs into its       *)
(* timeout, having written or not, or any step on the results.             *)
TimesOut(content) ==
    /\ \/ Capturing("c2") /\ Capture(point + 1, content)
       \/ Capturing("c3") /\ Capture(Chunk, content)
    /\ EndPhase("exception")
    /\ clock' = clock + 1
    /\ UNCHANGED <<machine, night, point, failures, left, processed, chunk,
                   status, metrics, sidecars, emissions>>

Raises ==
    /\ pc \in {"record", "process", "metrics", "sidecar"}
    /\ EndPhase("exception")
    /\ UNCHANGED <<machine, night, point, failures, left, processed, chunk,
                   capturing, tries, status, clock, disk>>

-----------------------------------------------------------------------------
(* The last write of main, and clean_shutdown in its finally. *)
PhaseNow == IF point = Points THEN "c3_long_run" ELSE "c2_gain_sweep"

FinalStateWithoutDevice ==  \* slip: giving up is not looked for
    CASE outcome \in {"budget", "device"} -> "completed"
      [] outcome = "disk"      -> "disk_guard_tripped"
      [] outcome = "exception" -> "aborted_phase_exception"
FinalState ==
    CASE outcome = "budget"    -> "completed"
      [] outcome = "disk"      -> "disk_guard_tripped"
      [] outcome = "device"    -> "aborted_phase"
      [] outcome = "exception" -> "aborted_phase_exception"

WriteFinalStatus ==
    /\ pc = "closing"
    /\ WriteStatus(FinalState,
                   CASE outcome = "budget"    -> "done"
                     [] outcome = "exception" -> "unknown"
                     [] OTHER                 -> PhaseNow)
    /\ pc' = "cancel"
    /\ UNCHANGED <<machine, night, session, clock, disk>>

AfterCancelNothing == "none"  \* slip: the last commands are not reached
AfterCancel == "sync"

(* clean_shutdown: three commands without a timeout, whose exit status is  *)
(* not looked at.  The first may leave the shutdown scheduled.             *)
CancelSafety(done) ==
    /\ pc = "cancel"
    /\ safety' = (safety /\ ~done)
    /\ pc' = AfterCancel
    /\ UNCHANGED <<on, ended, night, session, status, clock, disk>>

Sync ==
    /\ pc = "sync"
    /\ pc' = "halt"
    /\ UNCHANGED <<machine, night, session, status, clock, disk>>

Halt(done) ==
    /\ pc = "halt"
    /\ IF done THEN on' = FALSE /\ safety' = FALSE /\ ended' = "halt"
               ELSE ended' = "refused" /\ UNCHANGED <<on, safety>>
    /\ pc' = "none"
    /\ UNCHANGED <<night, session, status, clock, disk>>

(* One of the three never returns. *)
Hangs ==
    /\ pc \in {"cancel", "sync", "halt"}
    /\ pc' = "hung" /\ ended' = "hang"
    /\ UNCHANGED <<on, safety, night, session, status, clock, disk>>

-----------------------------------------------------------------------------
(* kill -9 or out of memory; a power cut; the scheduled shutdown. *)
Killed ==
    /\ pc # "none"
    /\ pc' = "none" /\ ended' = "kill"
    /\ UNCHANGED <<on, safety, night, session, status, clock, disk>>

PowerCut ==
    /\ on
    /\ on' = FALSE /\ safety' = FALSE /\ pc' = "none"
    /\ UNCHANGED <<ended, night, session, status, clock, disk>>

SafetyFires ==
    /\ on /\ safety
    /\ on' = FALSE /\ safety' = FALSE /\ pc' = "none"
    /\ UNCHANGED <<ended, night, session, status, clock, disk>>

CleanShutdown ==
    \/ \E done \in BOOLEAN : CancelSafety(done) \/ Halt(done)
    \/ Sync \/ Hangs

Next ==
    \/ Start
    \/ \E b \in BOOLEAN : Startup(b) \/ ScheduleSafetyShutdown(b)
    \/ Capturing("c2") /\ \E content \in Contents : SweepPoint(content)
    \/ Capturing("c3") /\ \E content \in Contents : CaptureChunk(content)
    \/ RecordPoint \/ EndSweep
    \/ Process \/ Unlink \/ WriteMetrics \/ WriteChunkSidecar
    \/ StopsForDisk \/ SpendsBudget
    \/ \E content \in {Raw("cut"), Empty} : TimesOut(content)
    \/ Raises
    \/ WriteFinalStatus \/ CleanShutdown
    \/ Killed \/ PowerCut \/ SafetyFires

Spec == Init /\ [][Next]_vars

(* Fairness for the clock of the operating system and for the commands of  *)
(* clean_shutdown, each of which is run, and returns or hangs.  The script *)
(* itself may hang anywhere before them.                                   *)
FairSpec == Spec /\ WF_vars(SafetyFires) /\ WF_vars(CleanShutdown)

-----------------------------------------------------------------------------
Ends == {"nothing", "halt", "refused", "hang", "kill"}

Captures == [kind : {"whole", "cut"}, by : Nat \X Nat \X Nat]

TypeOK ==
    /\ on \in BOOLEAN /\ safety \in BOOLEAN /\ ended \in Ends
    /\ pc \in {"none", "startup", "schedule", "c2", "record", "c3", "process",
               "unlink", "metrics", "sidecar", "closing", "cancel", "sync",
               "halt", "hung"}
    /\ night \in 0 .. MaxNights /\ point \in 0 .. Points
    /\ failures \in 0 .. GiveUpAfter
    /\ left \in 0 .. Budget
    /\ processed \in 0 .. Budget /\ chunk \in 0 .. Budget
    /\ files \in [0 .. Points -> Captures \cup {NoFile, Empty}]
    /\ outcome \in {"none", "budget", "disk", "device", "exception"}
    /\ pc # "none" => on

(* The last captures of the phase brought nothing, so many of them that a  *)
(* phase gives up.                                                         *)
NothingLately ==
    /\ Len(tries) >= GiveUpAfter
    /\ \A i \in Len(tries) - GiveUpAfter + 1 .. Len(tries) :
           tries[i] = "nothing"

(* A phase gives up on the device exactly when the last captures all       *)
(* failed: not for failures with a success between them, and no capture is *)
(* tried after that (both loops count, reset and test for themselves).     *)
SurrenderIsEarned ==
    outcome \in {"none", "device"} => (outcome = "device" <=> NothingLately)

(* When the script has come to its last commands and is through with them  *)
(* or hangs in one, STATUS.json is of this night and says how it ended:    *)
(* "completed" means the whole sweep and the whole budget, and no kill or  *)
(* power cut passes for an end.                                            *)
StatusTellsOutcome ==
    ended \in {"halt", "refused", "hang"} =>
        /\ status.night = night
        /\ status.state # "running"
        /\ status.state = "completed" => point = Points /\ left = 0
        /\ status.state = "aborted_phase" => NothingLately
        /\ status.phase = "c2_gain_sweep" => processed = 0

(* The lines of metrics.jsonl that are of this night, and the captures of  *)
(* a night that are in the emissions and in no line of the metrics.        *)
Tonight == {j \in DOMAIN metrics : metrics[j].night = night}
Uncounted(n) ==
    {e.by : e \in {x \in emissions : x.by[1] = n}}
        \ {metrics[j].by : j \in DOMAIN metrics}

(* The records of the long run agree, wherever it was killed: the chunks   *)
(* of a night are numbered without a gap, the sidecar under a number is of *)
(* the capture the metrics line of that number is of, at most one chunk    *)
(* per night is in the emissions and not in the metrics, and no raw chunk  *)
(* of the night is left when the next one is captured.                     *)
ChunkRecordsAgree ==
    /\ \A j \in Tonight :
           metrics[j].index = Cardinality({k \in Tonight : k < j})
    /\ Cardinality(Tonight) - chunk \in {0, 1}
    /\ \A j \in Tonight :
           metrics[j].index < chunk => sidecars[metrics[j].index] = metrics[j].by
    /\ \A n \in 1 .. MaxNights : Cardinality(Uncounted(n)) <= 1
    /\ pc = "c3" /\ IsCompleted(files[Chunk]) => files[Chunk].by[1] < night

(* A night that has scheduled its shutdown ends with the machine off,      *)
(* wherever the script hangs or dies, unless that happens in the commands  *)
(* after the one that cancels it, or the halt is refused: then nothing is  *)
(* scheduled any more and nobody looks at the exit status.                 *)
LeftOn(how) == on /\ ~safety /\ ended \in how

MachineGoesOff == safety ~> (~on \/ LeftOn({"kill", "hang", "refused"}))

(* "A safety shutdown is scheduled before anything else runs, so a hang    *)
(* still ends the session" (the module docstring), a kill after the cancel *)
(* and a refused halt apart.  The code does not meet it: no run states     *)
(* this, and TLC refutes it when given as a property of FairSpec, by a     *)
(* sync that never returns.                                                *)
HangEndsSession == safety ~> (~on \/ LeftOn({"kill", "refused"}))

(* An emission is stamped with the time it was on the air. *)
StampIsCaptureTime == \A e \in emissions : e.stamp = e.heard
=============================================================================
