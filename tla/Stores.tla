------------------------------- MODULE Stores -------------------------------
(* JsonlSink and SqliteSink of esm446/io/sinks.py behind one MultiSink,    *)
(* over sessions of a process that may be killed between any two steps,    *)
(* with destinations whose writes may fail (a full disk, a locked          *)
(* database), and the table of an earlier release to bring up to date.     *)
(*                                                                         *)
(* A report is its number.  The text of a record is two parts and a        *)
(* newline, so that it can be cut inside the text, before the newline, or  *)
(* not at all; a file is a sequence of such parts.                         *)
EXTENDS Integers, Sequences, FiniteSets

CONSTANTS
    BatchSizes,  \* the lengths of the batches a capture writes
    MaxReports,  \* bound of the model: reports written, over all sessions
    MaxCuts      \* bound of the model: sessions that lose part of a buffer

ASSUME StoresAssumption ==
    /\ BatchSizes \subseteq Nat \ {0}
    /\ MaxReports \in Nat
    /\ MaxCuts \in Nat

(* _ADDED_COLUMNS, in the order they are added in. *)
AddedColumns == <<"attributed_to_hz", "attribution">>
CurrentColumns == {"attributed_to_hz", "attribution"}

VARIABLES
    proc,     \* where the process is
    batch,    \* write: the reports at hand
    place,    \* write: the next of them
    buffer,   \* the text handle's buffer
    file,     \* the JSONL file
    table,    \* the emissions table: "none", or the added columns it has
    tx,       \* rows of the open transaction
    rows,     \* rows committed
    given,    \* history: reports handed to the sinks so far
    batches,  \* history: the batches handed to the sinks
    lines,    \* history: the reports whose JSONL write returned
    stored,   \* history: the reports whose SQLite write returned
    torn,     \* history: the batches whose SQLite write raised
    cuts      \* history: sessions that ended with part of a buffer unwritten

jsonlVars == <<buffer, file, lines>>
sqliteVars == <<table, tx, rows, stored, torn>>
vars == <<proc, batch, place, jsonlVars, sqliteVars, given, batches, cuts>>

Init ==
    /\ proc = "down"
    /\ batch = <<>> /\ place = 1
    /\ buffer = <<>> /\ file = <<>>
    /\ table \in {{"none"}, {}}
    /\ tx = <<>> /\ rows = <<>>
    /\ given = 0 /\ batches = {}
    /\ lines = {} /\ stored = {} /\ torn = {}
    /\ cuts = 0

-----------------------------------------------------------------------------
(* The text of a record, and its parts that reach the file.                *)
Part(r, n) == [of |-> r, part |-> n]
Record(r) == <<Part(r, 1), Part(r, 2), Part(r, 3)>>
Newline == 3

Reaches(n) ==
    /\ n \in 0 .. Len(buffer)
    /\ file' = file \o SubSeq(buffer, 1, n)
    /\ buffer' = SubSeq(buffer, n + 1, Len(buffer))

-----------------------------------------------------------------------------
(* JsonlSink.__init__ opens for appending, SqliteSink.__init__ connects.   *)
Open ==
    /\ proc = "down"
    /\ proc' = "creating"
    /\ buffer' = <<>> /\ tx' = <<>>
    /\ UNCHANGED <<batch, place, file, lines, table, rows, stored, torn,
                   given, batches, cuts>>

(* CREATE TABLE IF NOT EXISTS: a new table has every column. *)
CreateTable ==
    /\ proc = "creating"
    /\ table' = IF table = {"none"} THEN CurrentColumns ELSE table
    /\ proc' = "migrating"
    /\ UNCHANGED <<batch, place, jsonlVars, tx, rows, stored, torn, given,
                   batches, cuts>>

(* Slip: a table with the first column is taken to be up to date.          *)
MissingIfOld ==
    {i \in DOMAIN AddedColumns : AddedColumns[1] \notin table
                                 /\ AddedColumns[i] \notin table}

(* _add_missing_columns: each ALTER TABLE is committed on its own. *)
Missing == {i \in DOMAIN AddedColumns : AddedColumns[i] \notin table}

AddColumn ==
    /\ proc = "migrating"
    /\ \E i \in Missing :
        /\ \A j \in Missing : i <= j
        /\ table' = table \cup {AddedColumns[i]}
    /\ UNCHANGED <<proc, batch, place, jsonlVars, tx, rows, stored, torn,
                   given, batches, cuts>>

Opened ==
    /\ proc = "migrating" /\ Missing = {}
    /\ proc' = "ready"
    /\ UNCHANGED <<batch, place, jsonlVars, sqliteVars, given, batches, cuts>>

-----------------------------------------------------------------------------
(* MultiSink.write with a batch of n reports: the JSONL file comes first.  *)
NewBatch(n) ==
    /\ proc = "ready"
    /\ given + n <= MaxReports
    /\ given' = given + n
    /\ batch' = [i \in 1 .. n |-> given + i]
    /\ batches' = batches \cup {{given + i : i \in 1 .. n}}
    /\ place' = 1
    /\ proc' = "writing lines"
    /\ UNCHANGED <<jsonlVars, sqliteVars, cuts>>

(* JsonlSink.write *)
WriteLine ==
    /\ proc = "writing lines" /\ place <= Len(batch)
    /\ buffer' = buffer \o Record(batch[place])
    /\ place' = place + 1
    /\ UNCHANGED <<proc, batch, file, lines, sqliteVars, given, batches, cuts>>

(* The buffer runs over, or the flush is under way: a part of it is out.   *)
Spill ==
    /\ proc = "writing lines"
    /\ \E n \in 1 .. Len(buffer) : Reaches(n)
    /\ UNCHANGED <<proc, batch, place, lines, sqliteVars, given, batches, cuts>>

(* Slip: the flush is left out.                                            *)
FlushedNever ==
    /\ proc = "writing lines" /\ place > Len(batch)
    /\ lines' = lines \cup {batch[i] : i \in DOMAIN batch}
    /\ place' = 1
    /\ proc' = "writing rows"
    /\ UNCHANGED <<batch, buffer, file, sqliteVars, given, batches, cuts>>

Flushed ==
    /\ proc = "writing lines" /\ place > Len(batch)
    /\ Reaches(Len(buffer))
    /\ lines' = lines \cup {batch[i] : i \in DOMAIN batch}
    /\ place' = 1
    /\ proc' = "writing rows"
    /\ UNCHANGED <<batch, sqliteVars, given, batches, cuts>>

(* A write that fails leaves what it could not write in the buffer, but    *)
(* for the last records if the handle was just passing them on, and        *)
(* MultiSink goes on to the database.                                      *)
IsBoundary(n) ==
    n < Len(buffer) => buffer[n + 1].part = 1

(* Slip: the whole batch is written again.                                 *)
LinesRetried ==
    /\ proc = "writing lines" /\ buffer # <<>>
    /\ place' = 1
    /\ UNCHANGED <<proc, batch, jsonlVars, sqliteVars, given, batches, cuts>>

LinesFail ==
    /\ proc = "writing lines" /\ buffer # <<>>
    /\ \E n \in 0 .. Len(buffer) :
        IsBoundary(n) /\ buffer' = SubSeq(buffer, 1, n)
    /\ place' = 1
    /\ proc' = "writing rows"
    /\ UNCHANGED <<batch, file, lines, sqliteVars, given, batches, cuts>>

(* Slip: every row is committed by itself.                                 *)
WriteRowAlone ==
    /\ proc = "writing rows" /\ place <= Len(batch)
    /\ rows' = Append(rows, batch[place])
    /\ place' = place + 1
    /\ UNCHANGED <<proc, batch, jsonlVars, table, tx, stored, torn, given,
                   batches, cuts>>

(* SqliteSink.write *)
WriteRow ==
    /\ proc = "writing rows" /\ place <= Len(batch)
    /\ tx' = Append(tx, batch[place])
    /\ place' = place + 1
    /\ UNCHANGED <<proc, batch, jsonlVars, table, rows, stored, torn, given,
                   batches, cuts>>

(* Slip: write returns before the commit.                                  *)
CommitLater ==
    /\ proc = "writing rows" /\ place > Len(batch)
    /\ stored' = stored \cup {batch[i] : i \in DOMAIN batch}
    /\ proc' = "ready"
    /\ UNCHANGED <<batch, place, jsonlVars, table, tx, rows, torn, given,
                   batches, cuts>>

Commit ==
    /\ proc = "writing rows" /\ place > Len(batch)
    /\ rows' = rows \o tx
    /\ tx' = <<>>
    /\ stored' = stored \cup {batch[i] : i \in DOMAIN batch}
    /\ proc' = "ready"
    /\ UNCHANGED <<batch, place, jsonlVars, table, torn, given, batches, cuts>>

(* executemany or commit raises; nothing rolls the transaction back.       *)
RowsFail ==
    /\ proc = "writing rows"
    /\ torn' = torn \cup {{batch[i] : i \in DOMAIN batch}}
    /\ proc' = "ready"
    /\ UNCHANGED <<batch, place, jsonlVars, table, tx, rows, stored, given,
                   batches, cuts>>

-----------------------------------------------------------------------------
(* MultiSink.close: the file is closed, which writes what the buffer still *)
(* holds or fails to; the connection drops its transaction.                *)
Close ==
    /\ proc = "ready"
    /\ proc' = "down"
    /\ \E n \in 0 .. Len(buffer) :
        /\ file' = file \o SubSeq(buffer, 1, n)
        /\ cuts' = IF n < Len(buffer) THEN cuts + 1 ELSE cuts
    /\ cuts' <= MaxCuts
    /\ buffer' = <<>> /\ tx' = <<>>
    /\ UNCHANGED <<batch, place, lines, table, rows, stored, torn, given,
                   batches>>

(* The process is killed; what was neither in the file nor committed is    *)
(* gone.                                                                   *)
Kill ==
    /\ proc # "down" /\ cuts + 1 <= MaxCuts
    /\ proc' = "down"
    /\ cuts' = cuts + 1
    /\ buffer' = <<>> /\ tx' = <<>>
    /\ UNCHANGED <<batch, place, file, lines, table, rows, stored, torn,
                   given, batches>>

Opening == Open \/ CreateTable \/ AddColumn \/ Opened
Writing ==
    \/ \E n \in BatchSizes : NewBatch(n)
    \/ WriteLine \/ Spill \/ Flushed \/ LinesFail
    \/ WriteRow \/ Commit \/ RowsFail

Next == Opening \/ Writing \/ Close \/ Kill

Spec == Init /\ [][Next]_vars

-----------------------------------------------------------------------------
Reports == 1 .. MaxReports
Parts == [of : Reports, part : 1 .. 3]

SessionOK ==
    /\ proc \in {"down", "creating", "migrating", "ready", "writing lines",
                 "writing rows"}
    /\ given \in 0 .. MaxReports
    /\ cuts \in 0 .. MaxCuts

BatchOK == batch \in Seq(Reports) /\ place \in 1 .. Len(batch) + 1

FileOK == buffer \in Seq(Parts) /\ file \in Seq(Parts)

RowsOK == tx \in Seq(Reports) /\ rows \in Seq(Reports)

TableOK ==
    /\ table \in {{"none"}} \cup SUBSET CurrentColumns
    /\ proc \notin {"down", "creating"} => table # {"none"}

HistoryOK ==
    /\ batches \subseteq SUBSET Reports /\ torn \subseteq SUBSET Reports
    /\ lines \subseteq Reports /\ stored \subseteq Reports

TypeOK == SessionOK /\ BatchOK /\ FileOK /\ RowsOK /\ TableOK /\ HistoryOK

(* The lines of the file, by where they start, and the report that         *)
(* json.loads finds there, if the line is the text of one.                 *)
LineStarts ==
    {i \in DOMAIN file : i = 1 \/ file[i - 1].part = Newline}

IsRecord(i) ==
    /\ file[i].part = 1
    /\ i + 1 \in DOMAIN file /\ file[i + 1].part = 2
    /\ i + 2 \in DOMAIN file => file[i + 2].part = Newline

Readable == {file[i].of : i \in {j \in LineStarts : IsRecord(j)}}

(* Each session that ends early costs the file at most one line that is no *)
(* record and, when the next session appends to it, one report that was    *)
(* written; everything else can be read line by line.                      *)
DamageIsBounded ==
    /\ Cardinality({i \in LineStarts : ~IsRecord(i)})
         <= cuts + (IF proc = "down" THEN 0 ELSE 1)
    /\ Cardinality(lines \ Readable) <= cuts

(* Nothing is stored twice or out of order, in either store, whatever      *)
(* fails in between: a batch that could not be written and goes out with   *)
(* the next one goes out once.                                             *)
Ascending(s) == \A i, j \in DOMAIN s : i < j => s[i] < s[j]

NothingTwice ==
    /\ Ascending(rows \o tx)
    /\ \A i, j \in DOMAIN file :
           i < j =>
             \/ file[i].of < file[j].of
             \/ (file[i].of = file[j].of /\ file[i].part < file[j].part)

(* A report whose SQLite write returned is in the database, over kills and *)
(* restarts.                                                               *)
Rows == {rows[i] : i \in DOMAIN rows}
StoredIsKept == stored \subseteq Rows

(* A kill never leaves part of a batch in the database: only a write that  *)
(* raised can.                                                             *)
BatchesAreWhole ==
    \A b \in batches \ torn : b \cap Rows = {} \/ b \subseteq Rows

(* Rows are only written to a table that has every column, also when the   *)
(* process was killed half-way through bringing an old one up to date.     *)
RowsFitTheTable == proc = "writing rows" => CurrentColumns \subseteq table

(* Neither store is ever replaced or amended: "an existing database from   *)
(* an earlier run is opened and appended to".                              *)
Extends(s, t) == Len(s) <= Len(t) /\ SubSeq(t, 1, Len(s)) = s

ArchiveOnlyGrows == [][Extends(file, file') /\ Extends(rows, rows')]_vars

-----------------------------------------------------------------------------
(* A claim of the module docstring that the code does not meet, refuted by *)
(* a run.  "A process killed mid-write loses at most the last line, the    *)
(* file stays readable": a report whose write has returned can be read.    *)
WrittenIsReadable == lines \subseteq Readable
=============================================================================
