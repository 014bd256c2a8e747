# Verification of esm446

esm446 is a receiver for PMR446 radio: it takes a wide band of samples, splits it into
channels, finds which channels are on the air, joins what it finds into emissions, and
reports each emission to files and to TAK clients. The specifications here are TLA+
modules translated from the code, model-checked with TLC on small instances; the theorems
are proved with TLAPS for every value of the constants. `PROJECT.json` lists the runs, the
source lines behind each definition, the hazards and the theorems.

Check a run with `tlc -config MCTracker.cfg MCTracker.tla`, a proof with
`tlapm TrackerProofs.tla`.

## 1. The system

    source ──blocks──▶ channelizer ──frames──▶ CFAR detector ──mask──▶ tracker
                                                                         │ emissions
       ┌─────────────── reports ◀── demodulate, group adjacent bins ◀── gates
       ▼
    MultiSink ─┬─▶ JsonlSink / SqliteSink ──files──▶ order of battle, artefacts
               └─▶ CotSink ──events──▶ UDP │ TCP/TLS client │ TLS server ──▶ TAK clients

One thread runs the whole pipeline (`EsmNode.run`); the only other thread is the acceptor of
`TlsServerTransport`. Nothing is sent between components: they call each other and return
lists. What makes the program hard to test is that every stage cuts an endless stream into
blocks of any length and carries state from one to the next, that destinations fail and come
back while the capture must not, and that processes are killed.

| component | state it keeps | operations | hard behaviour | what makes it correct |
|---|---|---|---|---|
| Polyphase channelizer `core/channelizer.py` | `_tail`, `_frame_index` | `process`, `reset` | block boundaries, slices of the fold, phase over calls | no sample lost or used twice; every frame is the one the definition gives, however the stream is cut |
| CFAR detector `core/detector.py` | threshold factors; within a block the held noise estimate | `detect`, `detection_mask` | which neighbours a cell is compared with, what a held estimate does to a changed level | a bin is judged by its surroundings alone |
| Emission tracker `core/tracker.py` | per bin the open emission, `_frame_offset` | `update`, `flush`, `filter_short` | hangover and cap over blocks, silent blocks, last emission at the end | emissions are exactly the bursts of a bin, each returned once, whole, in time |
| Node `core/node.py`, `cli/node.py` | the list of reports, start time | `process_block`, `run`, `flush` | grouping within a block, failing sinks, end of the recording, kill | every emission that passes the gates is in one report and every sink that works holds it |
| Sinks `io/sinks.py` | file handle with its buffer, database with its transaction | open, migrate, `write`, `close`, `read_reports` | kill and restart, half-written line, failing write, old schema | nothing twice, nothing acknowledged is lost, archives only grow |
| TLS server `io/cot_transport.py` | client list, lock, running flag | accept, `publish`, `close` | two threads, dead and stalled peers, close against accept | no client misses an event or is lost; calls come back |
| TCP/TLS client `io/cot_transport.py` | socket, backoff, time of the next attempt | `_connect`, `publish`, `close` | outage, reset, slow connect | backoff is kept and ends; the feed comes back |
| UDP, `CotSink`, CoT documents `io/cot*.py` | socket, count | `publish`, `write`, `events_for` | lost, repeated and late datagrams; rings beside a newer track | what a map shows was on the air lately and measured |
| Sources `core/source.py` | read position, gap log | `read`, `close` | lost samples against the time of a report; last half sample of a file | a time is right, or a gap was logged; a recording is read whole |
| Overnight survey `scripts/overnight_survey.py` | status file, raw files, sidecars, metrics, shutdown timer | sweep, long run, heartbeat, shutdown | unattended failure, kill, hang, power cut, a second night on the same files | status, metrics and sidecars tell what happened; the machine is not left on |
| Attribution `analysis/artefacts.py`, order of battle `analysis/eob.py` | profiles while they grow | one pass over reports | first-fit decisions, moving medians, by-products of by-products | nothing lost or counted twice; airtime adds up |
| Simulation and metrics `sim/*` | none | truth of a scene, score | reports over several transmissions, cut-off ends | the score is about the node and not the matching |
| Calibration, gains, bands, config `core/*`, `config/*` | table of calibrations | plan, fit, look up, validate | boundaries of ranges, dropped points | decibels only where measured; each channel on its own bin |
| Attenuator sweep `scripts/t4a_atten_sweep.py`, band survey `core/survey.py` | accumulators over chunks | `update`, `measure`, `analyse`, `spectrogram` | chunk boundaries, settling frames | the result is that of the whole recording |
| Frequency reference `core/frequency.py`, tones `core/ctcss.py` | none between calls | measure a centre, a notch; vote | captures that show nothing, ties and minorities | what is measured is there |
| Register of figures `measured.py`, vectors `cli/extract_vector.py` | one JSON file | record, extract | figures overwritten by less | the register is its history |
| Demodulator, geolocation, antenna, spectra, synthesis | none between calls | numerical estimation | – | numerical, outside the reach of these tools |
| Reporting, bench, dashboard, legacy, MATLAB | – | – | – | beside the program |

## 2. The modules

| module | what it is |
|---|---|
| `Channelizer` | the streaming state of the filter bank: which samples each frame is folded from and with which phase |
| `BurstStream` | abstract: what joining detections into emissions promises |
| `Tracker` | `EmissionTracker`: implements `BurstStream` |
| `Node` | `EsmNode` and its command: composes `Tracker` with gates, grouping, `MultiSink`, end of stream and kill |
| `Stores` | `JsonlSink` and `SqliteSink` behind `MultiSink`, over sessions |
| `FanOut` | abstract: what a server that sends events to whoever is connected promises |
| `TlsServer` | `TlsServerTransport`, its two threads and its clients: implements `FanOut` |
| `StreamLink` | `StreamTransport` (TCP and TLS clients) against a server |
| `Survey` | `overnight_survey.py`: the nights of an unattended machine |
| `Feed` | from `SoapySource` through the node, `CotSink` and UDP to a viewer's map |
| `Artefacts`, `OrderOfBattle` | attribution of by-products, and the emitters behind an archive |
| `Metrics` | truth of a scene and its score |
| `Detector` | the CFAR detector over the frames of a block |
| `BandPlan`, `Gains` | which bin carries which channel; levels, gains and calibration |
| `Sweeps`, `Sources` | passes over a recording in chunks; what is read of it and when it was heard |
| `Frequency`, `Tones`, `Measured` | the frequency reference; the vote on a tone; the register of figures |
| `Analyses` | composes the eleven modules above, which it extends: one task, one input, one result |
| `ChannelizerProofs`, `TrackerProofs`, `NodeProofs`, `StoresProofs`, `TransportProofs`, `SurveyProofs`, `FeedProofs`, `AnalysesProofs` | theorems |
| `MC…` | the small instances TLC checks; the cfg files beside them give the constants |

A definition marked *slip* is no part of a specification. It is a plausible mistake in the
definition after it (a dropped guard, a wrong comparison, a missing flush), and it is there so
that each property can be seen to notice one: put the slip in the place of the definition and
TLC finds the property violated.

### 2.1 Channelizer

A sample is its position in the stream; an array of consecutive samples is `[first, size]`.
`Process` is the whole of `process`: prepend the tail, count the frames, fold in passes,
derotate, save the rest. `RowsOf` keeps the code's slices (`lo + p + j*P` in passes of
`_FOLD_CHUNK_FRAMES`), so that a slice beyond the array is seen (`FoldInBounds`).
`FoldInBounds` is a theorem.
`FramesMatchDefinition` compares with the definition of the module docstring. The arithmetic
on samples and the prototype filter are left out.

### 2.2 BurstStream and Tracker

`BurstStream` defines the bursts of a bin from its detections alone: maximal chains of
detections no further than the hangover apart. Its steps let some frames go by and demand that
all and only bursts that are over get reported, the last ones one frame late at most.
`Tracker` has the code's `open` emission per bin, `frame_offset` and the run logic of
`_update_bin` (runs of a block, joining the first to what is open, closing on a trailing gap,
on a silent block, on the cap, on flush). `KeepsPromise` is the refinement: `reported` is
mapped to the emissions returned so far. `NothingIsReturnedTwice` is about the steps: what a
call returns was never returned before, the same interval included. `update` handles each bin
alone, hence one bin is checked here and three in `Node`.

### 2.3 Node

`ReadBlock` is `process_block`: excluded bins are blanked, `Tracker!Update` runs, short and
sparse emissions are dropped, adjacent ones grouped in the code's order with the first group
that fits, one report per group. `Write`/`WriteFails` are `MultiSink.write`, one destination
at a time, so that a kill or a failure can come between. With one destination the failure is
the run's (`build_sink` does not wrap a single sink). `EndOfStream` is the flush after the
loop. The strongest bin of a group, powers, tones and frequencies are left out. The loop of
`_group_adjacent` is a fold that places the last emission (`LastOf`) after all the others.

### 2.4 Stores

A report is its number and its JSON line three parts, so that it can be cut inside the text,
before the newline, or not at all. `buffer` is the text handle's; `Spill` puts any piece of it
in the file, `Kill` loses the rest. The database has an open transaction `tx` and committed
`rows`; a write that raises leaves the transaction open and the next batch commits it, as the
code does. `table` is the set of added columns: `CreateTable`, then one committed `AddColumn`
at a time. `Open` begins the next session.

### 2.5 FanOut and TlsServer

`FanOut` knows clients, events and doors and nothing of how events get to anybody: who is in
hears every event from then on, in order, until it is lost; no event goes out before everybody
has the one before; nobody who has left comes back into the middle; and behind shut doors at most
one more comes in. `KeepsFanOut` is the refinement: the audience are the clients listed whose
send has not failed, the doors are shut when `close` has returned, but for the connection that
the acceptor has in its hand.

Actions of the acceptor: check `_running`, accept, handshake, list under the lock. Actions of
the publishing thread: copy the list and take the lock, one send at a time, drop the dead and
release (`Drop`, `Unlock`), count; `close` in its four steps. Peers dial, stall, resume and leave at any moment.
A send to a stalled peer waits: sockets accepted are blocking and have no timeout.

### 2.6 StreamLink

Its initial states, steps and types are called `LinkInit`, `LinkNext`, `LinkTypeOK` (the module is
extended together with `TlsServer` where both are proved about). Time is counted in ticks. Each `publish` may connect (when the wait is over), fail, or send some
events, and takes any time up to the socket timeout; the server goes up, down, or accepts and
resets. `NoEarlyRetry` and `OutageEndsInTime` are about the backoff, `ComesBack`
about the feed.

### 2.7 Survey

One action per step of `main`, `run_c2` and `run_c3` that a kill can come between: start,
schedule the safety shutdown, capture a point, record it, capture a chunk (with its heartbeat
and the count of failures), process it, unlink it, write metrics, write the sidecar, the last
status, and the three commands of `clean_shutdown`: `shutdown -c` (which may fail), `sync`,
`shutdown -h now` (which may be refused). None has a timeout and no exit status is looked at, so any
of them may hang (`Hangs`). A capture may bring all, a part, nothing, or leave
the file of that name as it was; it may run into its timeout, and any later step may raise.
`Killed`, `PowerCut` and `SafetyFires` may come at any moment, and the next night starts on the
same files. The histories `tries` and `ended` remember what captures brought and what ended the
script. `SurrenderIsEarned` ties both loops to that history, `ChunkRecordsAgree` the three
files of a chunk to each other, `StatusTellsOutcome` the status, once the last commands are through
or hang, to what happened. `MachineGoesOff` is liveness: a night that has scheduled its shutdown
ends with the machine off, wherever the script hangs or dies, except when that happens, or the halt
is refused, after `shutdown -c` has cancelled what was scheduled. `HangEndsSession` is the same
without the exception for a hang, as the docstring has it; the code does not meet it. Node, sink
and raw data are one record per chunk.

### 2.8 Feed

`now` is the clock, `sampled` the node's only notion of time; they start `StartDelay` apart, as
`start_time` is taken before the device is opened and activated (source.py:263). `Overflow` and
`ReadNothing` let them drift apart, `GapLogged` is `_record_gap`. `ReadBlock` is a read, `process_block` and
`CotSink.write` up to the documents, `Publish` one `sendto`; `Deliver` and `Lose` are the
network, which may also repeat and reorder. The documents of one write are queued in the order
of the reports, of each the track and then its rings (`InOrder`); the viewer keeps the last document of an
identifier until it is stale. An over is open from the first block it is heard in to the first it is not:
hangover and gates are `Tracker`'s and `Node`'s. Histories: when an emitter was last on the air,
and when it was last measured in dBm.

### 2.9 Analyses and its parts

Each part is a module of functions translated from the code, with recursion and loops as folds;
`Analyses` has one action per tool, which takes an input and leaves a result, and the
properties relate result to input (the code's own words for what a result means, or a second
definition of it). `InputsAssumption` says what a tool can be given: sequences of any length, any
number of bins, blocks, chunks and calls, three points at least for a fit, one bin at least that
is not excluded. Powers are levels in whole dB or plain numbers, frequencies whole steps,
fractions are kept as pairs and compared crosswise. What the modules leave out is the signal
processing before: spectra, filters, threshold factors.

* `OrderOfBattle`, `Artefacts`: `AttributeProducts` tries splatter and then intermodulation for each
  report; `ClusterEmitters` goes through emissions in the order of time and joins the first profile
  that fits, whose frequency is the median of its members, then lays by-products to profiles.
* `Metrics`: `Truth` cuts and sorts what a scenario sends, `Score` lays each report to the
  transmission it overlaps most.
* `Detector`: reference cells on a circle, mean or order statistic, the estimate held over
  frames and scaled by the level of the quiet bins, the test of pairs.
* `BandPlan`, `Gains`: the geometry check at import; attenuation for every stage, planned and
  quantised gains, the fit that drops the worst point until it is linear, and the table by gains.
  `Loaded` is a table that was saved and loaded again: offset, slope and the ends of the range are
  rounded to places of their own (`SavedLine`, `SavedRange`), the gains quantised. `SavedTableIsClose`
  bounds what that changes: whether a reading has a power only near an end of the range, and the
  power itself by half a place.
* `Sweeps`, `Sources`: settling frames over chunks, the two passes, frames of the survey, the
  waterfall, histograms of converter codes; file and array sources, and vectors cut out of files.
* `Frequency`, `Tones`, `Measured`: edges, notch and axis of symmetry; votes; first seen and last
  verified.

## 3. The runs

| run | instance | what it shows |
|---|---|---|
| `channelizer` | 4 channels, decimation 2, windows of 12 samples, passes of 2 frames, blocks of 0, 1, 3, 8, 17 samples, streams of 60 | the number of frames, their windows and their phases do not depend on the blocks |
| `tracker` | every mask of 8 frames in blocks of 0, 1, 3, 4; hangover 2, cap 4 | emissions are bursts, whole and in time, returned once, in a bounded buffer; `BurstStream` is implemented |
| `node` | three neighbouring bins, two destinations of which any may fail, kill anywhere, 4 frames | gating, grouping, hand-over, final flush |
| `node_fair` | one bin, one destination, 8 frames, hangover 1, cap 3 | what is over is reported in the end |
| `stores` | batches of 1 and 2, 4 reports, 2 sessions cut short, an old or a new table | damage is bounded, nothing twice, nothing acknowledged lost |
| `tls_server` | two clients, two broadcasts, close at any moment | `FanOut` is implemented, no client misses an event; every call comes back if peers do not stall for ever |
| `stream_link` | waits 1, 2, 4, 5; calls of up to 2 ticks; 2 events | a wait announced is kept, an outage ends in time; the feed comes back |
| `survey` | 2 points, surrender after 2 failures, budget of 4 ticks, 2 nights | surrender, status, chunk records and shutdown over failures, hangs, kills and a second night |
| `feed` | one emitter, stale after 3, 3 datagrams under way, a start-up of 1, 6 blocks | what the map shows, whatever is lost before or behind the node |
| `analyses` | some 19 000 inputs to eleven tools | each result is what it is said to be; a wrong point and a wrong frequency are found (`ErrorsAreFound`) |
| `stores_kill` | as `stores`, 3 reports | *violation*: a written report that cannot be read |
| `tls_stall` | as `tls_server`, peers may stall for ever | *violation*: `publish` never returns |

Why the bounds are enough. *Channelizer*: blocks below and above a window and a pass, no
common divisor with either; 60 samples are five windows, more than the phase period. *Tracker*:
8 frames hold two bursts with a gap on each side of the hangover, blocks shorter and longer
than the hangover, and a burst that reaches the cap in one block and over several. *Node*: three
adjacent bins are the least in which first-fit grouping has a choice; 4 frames are the least in
which an emission can end, by silence, before the flush. *Stores*: two cuts let a partial line
meet the next session, and that be cut again; four reports give batches before, between and
after. *TlsServer*: one client accepted while another is sent to; the second broadcast starts
with clients dropped in the first. *StreamLink*: the cap is no power of two of the start, as in
the code. *Survey*: two failures make a surrender, so that a success can come between two that do
not; two points and four ticks leave one for each phase to fail and to finish; a second night is
the first that meets old files and numbers. The real 20 failures, 36 points and nine hours only
lengthen the same loops. *Feed*: six blocks hold an over, its stale time and another over; the stale time
is longer than start-up and the closing block, else no document would be fresh when it is written; three
datagrams are enough for a late one to pass two newer ones. Two emitters with 2 datagrams and 4
blocks (`Emitters = {1, 2}`, `MaxWire = 2`, `MaxTime = 5`, 3.5 million states, about a minute) hold too.
*Analyses*: inputs are all sequences, up to a length, over a few elements chosen so that every branch is
taken: archives of up to four detections out of eight that overlap, drift and are each
other's products; frames with and without loud bins, held and not; every centre around the band plan;
sweeps of 3 to 7 points with and without one off the line, saved with places coarse enough to matter
(`SlopeParts = 4`, `OffsetParts = 2`, `RangeStep = 5` for the code's 10^-6, 10^-4 dB and 10^-3 dB);
recordings shorter and longer than a chunk.
`CHECK_DEADLOCK FALSE` stands where the system may stop: a recording ends, a bound of
the model is reached, a server is closed, a result is there. `StreamLink` never stops and is checked for deadlock.

### Fairness

* `Node.FairSpec`: weak fairness of `EndOfStream` and of the writes. The loop runs in one
  thread, so each call it makes returns; nothing forces the source to deliver blocks, but one
  that has no more samples says so. A destination may fail for ever.
* `TlsServer.ThreadFairness`: each thread runs when it can. Strong fairness where a peer may
  interrupt: accept takes a waiting connection in the end although others come and go; a
  handshake and a send are finite if the peer reads again and again. Nobody has to publish or
  close. `PeerFairness` (a stalled peer resumes or leaves) is *not* a fact of the code: it is
  assumed in `tls_server` and dropped in `tls_stall`, which shows what it hides.
* `StreamLink.LinkFairSpec`: time passes, emissions keep coming, and a send over a connection the
  server has lost fails sooner or later (TCP resets).
* `Survey.FairSpec`: a scheduled shutdown comes, and each command of `clean_shutdown` is run once
  the script is there, unless it is killed; the command returns, with success or without, or hangs.
  No other step is fair: the script may hang anywhere before, and the shutdown that is scheduled
  still comes. A night that ends before the shutdown is scheduled
  leaves the machine on, as the code does.
* `Feed` and `Analyses` have safety properties only.

## 4. What the checks found

* **Partial line** (`stores_kill`): the first record after a kill is appended to the partial
  line; both readers then raise for the whole file. `DamageIsBounded` is what does hold.
* **Stalled client** (`tls_stall`): a client that stays connected and stops reading holds the
  broadcast, the lock and the capture for ever.

The modules state five more claims of comments and docstrings that the code does not meet. No
run checks them; TLC refutes each when it is given as an invariant, `HangEndsSession` as a property.

* `CapBoundsLength` (`Tracker`; `MaxFrames = 3`, blocks of 1 and 3, 12 frames): a silent block
  within the hangover is kept and not counted, so a bin heard once per hangover is held for
  `max_frames` hits (tracker.py:289), against "Hard cap on emission length" (199). `BufferBound` holds.
* `SplitEmitterIsOneReport` (`Node`; blocks of 1 and 2, 5 frames): emissions are compared
  only with those that close in the same block and only with the first group that fits
  (node.py:248), against "turns the two flagged bins back into one emitter" (210). Of it, `LonePairMerges` holds.
* `SparseChainIsRejected` (`Node`; one bin, hangover 2, blocks of 1 and 3, occupancy 70 %):
  quiet frames between two hits of one block count as detected (tracker.py:323), against
  "an occupancy floor rejects them" (204).
* `HangEndsSession` (`Survey`; one point, failure, tick and night, under `FairSpec`): `clean_shutdown`
  cancels the scheduled shutdown first (655) and then runs `sync` and `shutdown -h now` untimed and
  unchecked; a hang there leaves the machine on, against "so a hang still ends the session"
  (overnight_survey.py:33). So does a kill there, or a halt that is refused. `MachineGoesOff` holds.
* `VectorKeepsTime` (`Analyses`): `extract_vector.py:189` takes the time of the last write, which is
  the end of the capture, for its start, against the comment above it (187).

Disagreements met while translating, without a formula:

* Tracker and node: the hangover tolerates one quiet frame less than its docstring says; the quiet
  frames at the end of a block are missing from the baseband of an emission that goes on in the next;
  a live run that is interrupted flushes nothing; a dead device gives empty reads without end; a
  sink that cannot be built leaves the source open; a lone destination is not wrapped in
  `MultiSink`, so that its failure ends the capture.
* Transports: `publish` of the TLS server answers with the clients listed, not with those sent to;
  a client accepted while `close` runs is listed and never closed; a stream client whose send
  fails starts no backoff. A database write that fails half-way leaves its rows in the open
  transaction and the next batch commits them.
* CoT: the identifier of an emitter off the grid has its measured frequency to the hertz in it, and a
  tone that is not recognised changes the identifier, although the docstring promises one track per
  radio; the rings of an earlier over stay beside the track of a later one that has none.
* Survey: emissions are stamped from zero, since the node's start time is never set
  (`StampIsCaptureTime` says so and fails); a chunk that was cut off, or an old file, counts as
  completed; the sidecars of a night overwrite those of the night before while metrics are
  appended; an interrupt from the keyboard is no `Exception` and reaches `clean_shutdown` with the
  status still "running" (not modelled: nobody is at the machine); an exit before the `try`
  of `main` leaves the machine on; `hackrf_transfer` that hangs
  ends the whole night through its timeout.
* Receiver: `channel_bin_index` wraps for a channel outside the sampled band; `plan_gains` rounds the
  second amplifier up and may exceed the budget by half a step; `fit_calibration` with four or five points and
  a compressed end drops a good neighbour, and with three left keeps a fit that misses its limit; a
  table that was saved gives a power to readings up to half of 0.001 dB outside the range kept;
  the peak of a converter code of -128 is above 0 dBFS.
* Passes: a spectrogram with fewer than twice `max_frames` frames has stride 1 and drops the end,
  although it is said to span the recording; the smoothing of `measure_centre` pads with 0 dB;
  an attenuator measurement of which no frame survives leaves its file behind.
* Analyses: a by-product whose parent is itself a by-product, or whose profile has drifted, is laid
  to none; the register of figures is not written atomically.

## 5. What is proved

Every invariant and every action property of every run is a theorem, but for four of `analyses`,
and so are the refinements of `BurstStream` and of `FanOut`. The eight proof modules are checked
by TLAPS to the last leaf, from the assumptions named in the modules they are about
(`GeometryAssumption`, `BoundsAssumption`, `TrackerAssumption`, `NodeAssumption`,
`StoresAssumption`, `StreamLinkAssumption`, `TlsServerAssumption`, `SurveyAssumption`,
`FeedAssumption`, `AnalysesAssumption`, `InputsAssumption`): natural constants, at least two taps
per phase, batches that are not empty, a backoff that starts above zero and not above its cap,
finitely many emitters, inputs of the shape the tools are given. Each inductive invariant was
given to TLC before it was proved.

* **`ChannelizerProofs`** – every property of the component. `TailCorrect` and
  `BlocksDoNotMatter` rest on the inductive invariant `StreamInv`, the types with both
  properties. Neither is inductive alone: a call counts its frames from its tail, so that the
  count of the whole stream follows only if the tail is the next window; `FrameCountBounds` and
  `FrameCountUnique` say what `\div` does there. `SlicesAreWhole`, `FramesAreDefined` and
  `TypeCorrect` are about what a call returns: `RowsAreWindow` shows that passes and slices come
  to the `K * P` rows from the frame's own on, `FrameInBounds` that a call has these rows,
  `PhaseIsRight` that the reduced phase is the one the window asks for; `StreamInv` supplies
  where the window lies in the stream.
* **`TrackerProofs`** – every property of the component, the refinement included.
  `TypeCorrect` and `AlwaysCurrent` rest on `IInv`. `Faithful` (`EmissionsAreBursts`), `Whole`
  (`BasebandIsWhole`) and `BufferIsBounded` rest on `StreamInv`: every emission, closed or open, is
  a burst of what was heard so far; every detection lies in one of them; what is closed is over, so
  that nothing to come is linked to it; and nothing was heard or cut behind what is open. None of
  these is inductive without the others: a run that joins the open emission makes one burst only if
  nothing lies between them, and a new one begins a burst only if all before it is over. That two
  bursts with one end are one (`BurstsEndTogether`) makes the two sets of intervals equal.
  `Refinement` (`KeepsPromise`) takes each step to a step of `BurstStream`: `UpdateIsHear`,
  `FlushIsFinish`, an empty block is a stutter. `ReturnedOnce` (`NothingIsReturnedTwice`) needs
  `OnceInv` besides: the closed emissions of a bin lie before the open one and have each a start
  of their own; what an update returns begins at the open one or behind it (`ReturnedIsBehind`).
* **`NodeProofs`** – every safety property of the component. `TracksAsTracker`: the node runs
  `Tracker`, whatever is around it, and what is proved of it holds here (by `INSTANCE`). `KeptOnce`
  (`EachKeptInOneReport`) is about the fold of `_group_adjacent`: that it has a value for every
  finite set is proved by a least size for which it had none (`FoldsOneUp`, `FoldExists`), that its
  groups are disjoint, leave nobody out and keep a lone pair together by a least set grouped
  wrongly (`PlaceKeeps`, `FoldGroups`); that nothing is reported again comes from `ReturnedOnce`'s
  invariant, which also makes the sets finite. `GoodSinksHold` needs whose turn it is: `StoredInv` says
  that a destination is one batch behind until then. `Exhausted` (`RecordingIsExhausted`) joins
  `FlushInv` (nothing is open after the flush) with the tracker's theorems: a steady burst is an
  emission whose count is no lower than its detections, so it passes the gate.
* **`StoresProofs`** – every safety property of the component. `TypeCorrect`, one lemma per group of
  variables; `NothingIsTakenBack` (`ArchiveOnlyGrows`), from the fact that a sequence followed by
  another extends it; `WhatReturnedIsStored` (`StoredIsKept`), which is not inductive as it stands:
  a commit makes it true only if the transaction holds the whole batch, hence `BatchInTransaction`.
  `TableIsCurrent`, `BatchesStayWhole` and `NothingIsTwice` follow rows and lines from the batch
  at hand on. `DamageStaysBounded` is about the text: file and buffer together are records cut at
  a place for every session that lost part of a buffer, and a cut spoils two records at most.
* **`TransportProofs`**, the stream link – `LinkTypeCorrect`, `BackoffIsKept` (`NoEarlyRetry`) and
  `OutageIsBounded` (`OutageEndsInTime`). Both are about the moment the wait is zero and say
  nothing before it, so the invariant is `WaitIsAccounted`: a wait that was announced has passed
  or is left, and while any is left, it and the time the server has been up come to no more than
  the cap. `TimeGoesBy` is the one argument for ticks and for calls that take time, whatever the
  timeout.
* **`TransportProofs`**, the TLS server – every safety property of the component:
  `NothingIsMissed` (`ListedMissNothing`), `ConnectionsAreKept` (`EveryConnectionIsKept`) and
  `ClosedTakesNone` (`NothingIsAcceptedAfterClose`, which no run needs any more, as the refinement
  implies it), from one invariant over both threads: who holds the lock, which clients the copy of
  the list has that were not sent to yet, and which connection is between accept and the list.
  `Refinement` (`KeepsFanOut`) takes each step of either thread, and of a client, to a step of
  `FanOut` or a stutter.
* **`SurveyProofs`** – every safety property of the component: `SurrendersAreEarned`,
  `StatusIsTrue` and `RecordsAgree`. The invariant follows the script: the count of failures is the
  length of the last run of empty captures in the history, the status file is the one the step
  before wrote and nothing after it writes another, and a chunk's raw file, metrics and
  sidecar are those of one pass over the chunk, or
  of the night before.
* **`FeedProofs`** – every property of the component: `MapIsTrue` (`MapShowsTheAir`),
  `RingsAreTrue` and `StampsAreLogged`, whatever the start-up takes. The node's time never runs ahead
  of the clock, and an open
  over was heard in the last block that was read (`ClockInv`); so a document goes stale no later
  than `StaleS` after its emitter was on the air, a ring no later than after it was measured, and
  stays true wherever it is, in the queue, under way or on the map (`TruthStays`).

* **`AnalysesProofs`** – four properties of the tools, for inputs of any length. A loop is a fold
  over the input, and the library defines a fold by a function that is chosen for its recursion
  over subsets. That such a function exists and is the only one stands in for induction: a least
  number of elements for which it had no value, or a least set on which two differed, would not be
  least (`LeastExists`, `FoldOfExists`, `FoldOfIsOne`). `FoldIsHistory` then turns a fold over a sequence
  into a history, one step per element; what holds of no step and of each step after any other
  holds of the last (`StepByStep`). On this rest
  * `TonesCorrect` (`TonesAreVoted`): the winner has the most votes, two tones cannot both have more
    than half, and an exchange of neighbours is a permutation of the votes (`SwapKeepsVotes`);
  * `RegisterCorrect` (`RegisterIsHistory`): after each call the register is what the calls so far
    have said (`HistoryUpTo`). The property alone is not inductive: an entry that is confirmed
    stays as old as it is only if nothing between was taken for its key;
  * `ReceiverCorrect` (`ReceiverIsSound`): multiples of the spacing and remainders for the band plan
    (`TuningIsRight`), rounding up to pads and half a step of the second amplifier for the gains
    (`AttenuationIsRight`, `PlanIsRight`), the history of dropped points for the calibration
    (`RemainingIsDone`) and that of the table (`FittedHoldsTheLast`). `SavedFitIsClose` is the table
    after save and load, from what rounding does (`NearestIs`, `RoundsTo`): half a place of the offset
    and of the slope, times the reading;
  * `RecordingsCorrect` (`RecordingsAreReadWhole`): a recording in chunks is one sequence cut at
    places in order (`AreCuts`). What a pass keeps after each cut is a function of the part before it:
    the settling frames are gone once (`SettledIsRest`), the histograms are those of the codes so far
    (`UpdateCounts`), and what was read is the recording up to the position (`ReadOnceReadsOn`). The
    sum over a histogram is the sum over the codes (`WeightsAddUp`), because a sum is the same
    whichever term is taken out first (`SumOfOneAndRest`).

Only model-checked: the liveness properties (`OverIsReported`, `PublishReturns`, `DialIsAnswered`,
`CloseReturns`, `ComesBack`, `MachineGoesOff`), because fairness speaks of ENABLED, which TLAPS does
not reason about; and four properties of `Analyses`. `OrderOfBattleAddsUp` and `ScoreIsFair` are
about sorted and selected sequences, which the library builds with operators as parameters, and
about double sums over nested folds; `DetectorIsLocal` about order statistics and sums of circular
windows over frames that are turned; `ErrorsAreFound` about captures and sweeps of a given shape,
made for it, and least squares with one point left out.

Not modelled: numerical work on samples (filters, threshold factors, demodulation, spectra,
range estimates, antenna and noise figures, synthesis of scenes), formatting and rendering
(`describe`, `vv.py`, `bench.py`, `dashboard.py`, XML, positions and rings as geometry), parsing of
addresses, arguments and environment, the dialogue of the attenuator sweep, and the legacy and
MATLAB programs. None of it keeps state a step of another part depends on.

## 6. Plan

Every component that keeps state has its module. What is left, most important first:

1. An abstract specification of `Stores`: an append-only archive with reports that are
   acknowledged and stay. `ArchiveOnlyGrows`, `StoredIsKept` and `BatchesAreWhole` state it piece by piece.
2. Proofs of the four properties of `Analyses` that are only model-checked: first the detector's
   own cells and its held estimate, which need sums over sets and no sorting.
3. `MultiTransport` over one stream link and one TLS server, and address parsing.
