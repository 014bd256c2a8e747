---------------------------- MODULE StoresProofs ----------------------------
(* What the two archives keep, for every length of batch and any number of *)
(* reports and of sessions cut short: the stores only grow, hold nothing   *)
(* twice or out of order, a report whose SQLite write returned stays in    *)
(* the database, its batches are whole, and of the file a reader loses no  *)
(* more than one line, and one report, for each session cut short.         *)
EXTENDS Stores, SequenceTheorems, FiniteSetTheorems, TLAPS

-----------------------------------------------------------------------------
(* Sequences.                                                              *)

(* A sequence followed by another extends it, as does the sequence itself: *)
(* the file grows by a piece of the buffer, the table of the database by   *)
(* the open transaction.                                                   *)
LEMMA Appending ==
  ASSUME NEW S, NEW s \in Seq(S), NEW t \in Seq(S)
  PROVE  Extends(s, s \o t) /\ Extends(s, s)
<1>1. Len(s \o t) = Len(s) + Len(t) /\ Len(s) \in Nat /\ Len(t) \in Nat
  BY ConcatProperties, LenProperties
<1>2. SubSeq(s \o t, 1, Len(s)) = s
  BY <1>1, SubSeqOfConcat1, SubSeqFull
<1>3. SubSeq(s, 1, Len(s)) = s
  BY SubSeqFull
<1>. QED BY <1>1, <1>2, <1>3 DEF Extends

(* A piece of a sequence is a sequence of the same elements. *)
LEMMA Piece ==
  ASSUME NEW S, NEW s \in Seq(S), NEW n \in 0 .. Len(s)
  PROVE  SubSeq(s, 1, n) \in Seq(S) /\ SubSeq(s, n + 1, Len(s)) \in Seq(S)
<1>1. \A i \in 1 .. Len(s) : s[i] \in S
  BY ElementOfSeq
<1>2. Len(s) \in Nat
  BY LenProperties
<1>. QED BY <1>1, <1>2, SubSeqProperties

-----------------------------------------------------------------------------
(* Types.                                                                  *)

(* The text of a record is a sequence of parts. *)
LEMMA RecordType ==
  ASSUME NEW r \in Reports
  PROVE  Record(r) \in Seq(Parts)
<1>1. Part(r, 1) \in Parts /\ Part(r, 2) \in Parts /\ Part(r, 3) \in Parts
  BY DEF Part, Parts
<1>. QED BY <1>1 DEF Record

(* What reaches the file is a sequence of parts, and so is what does not. *)
LEMMA ReachType ==
  ASSUME FileOK, NEW n, Reaches(n)
  PROVE  file' \in Seq(Parts) /\ buffer' \in Seq(Parts)
<1>1. n \in 0 .. Len(buffer)
  BY DEF Reaches
<1>2. /\ SubSeq(buffer, 1, n) \in Seq(Parts)
      /\ SubSeq(buffer, n + 1, Len(buffer)) \in Seq(Parts)
  BY <1>1, Piece DEF FileOK
<1>. QED BY <1>2, ConcatProperties DEF FileOK, Reaches

(* A new archive, or an old table, has the right type. *)
LEMMA TypeStart == Init => TypeOK
<1>. SUFFICES ASSUME Init PROVE TypeOK
  OBVIOUS
<1>1. \A S : <<>> \in Seq(S) /\ Len(<<>>) = 0
  BY EmptySeq
<1>2. SessionOK
  BY StoresAssumption DEF StoresAssumption, Init, SessionOK
<1>3. BatchOK /\ FileOK /\ RowsOK
  BY <1>1 DEF Init, BatchOK, FileOK, RowsOK
<1>4. TableOK /\ HistoryOK
  BY DEF Init, TableOK, HistoryOK
<1>. QED BY <1>2, <1>3, <1>4 DEF TypeOK

(* The reports of the batch at hand. *)
LEMMA BatchType ==
  ASSUME BatchOK
  PROVE  /\ {batch[i] : i \in DOMAIN batch} \subseteq Reports
         /\ 1 \in 1 .. Len(batch) + 1
         /\ place <= Len(batch) =>
              /\ batch[place] \in Reports
              /\ place + 1 \in 1 .. Len(batch) + 1
<1>1. DOMAIN batch = 1 .. Len(batch) /\ Len(batch) \in Nat
  BY LenProperties DEF BatchOK
<1>2. \A i \in 1 .. Len(batch) : batch[i] \in Reports
  BY ElementOfSeq DEF BatchOK
<1>. QED BY <1>1, <1>2 DEF BatchOK

(* The batch a capture hands over is one of new reports. *)
LEMMA NewBatchType ==
  ASSUME SessionOK, NEW n \in BatchSizes, given + n <= MaxReports
  PROVE  /\ given + n \in 0 .. MaxReports
         /\ [i \in 1 .. n |-> given + i] \in Seq(Reports)
         /\ {given + i : i \in 1 .. n} \subseteq Reports
         /\ 1 \in 1 .. Len([i \in 1 .. n |-> given + i]) + 1
<1>1. n \in Nat /\ given \in Nat /\ MaxReports \in Nat
  <2>1. n \in Nat /\ MaxReports \in Nat
    BY StoresAssumption DEF StoresAssumption
  <2>2. given \in 0 .. MaxReports
    BY DEF SessionOK
  <2>. QED BY <2>1, <2>2
<1>2. \A i \in 1 .. n : given + i \in Reports
  BY <1>1 DEF Reports
<1>3. [i \in 1 .. n |-> given + i] \in Seq(Reports)
  BY <1>1, <1>2
<1>4. Len([i \in 1 .. n |-> given + i]) \in Nat
  BY <1>3, LenProperties
<1>. QED BY <1>1, <1>2, <1>3, <1>4

(* A counter that goes up by one at most, and not beyond its bound. *)
LEMMA CountUp ==
  ASSUME NEW m \in Nat, NEW c \in 0 .. m, NEW d,
         d = c \/ d = c + 1, d <= m
  PROVE  d \in 0 .. m
OBVIOUS

(* Every step keeps the types, whatever it leaves half done: first where   *)
(* the process is and what it has given to the sinks,                      *)
LEMMA SessionStep == TypeOK /\ [Next]_vars => SessionOK'
<1>. SUFFICES ASSUME SessionOK, [Next]_vars PROVE SessionOK'
  BY DEF TypeOK
<1>. USE DEF SessionOK
<1>1. CASE Open \/ AddColumn \/ Opened \/ CreateTable
  BY <1>1 DEF Open, CreateTable, AddColumn, Opened
<1>2. ASSUME NEW n \in BatchSizes, NewBatch(n) PROVE SessionOK'
  BY <1>2, NewBatchType DEF NewBatch
<1>3. CASE WriteLine \/ Spill \/ Flushed \/ LinesFail
  BY <1>3 DEF WriteLine, Spill, Flushed, LinesFail
<1>4. CASE WriteRow \/ Commit \/ RowsFail
  BY <1>4 DEF WriteRow, Commit, RowsFail
<1>5. CASE Close
  <2>1. (cuts' = cuts \/ cuts' = cuts + 1) /\ cuts' <= MaxCuts
    BY <1>5 DEF Close
  <2>2. cuts \in 0 .. MaxCuts
    OBVIOUS
  <2>3. MaxCuts \in Nat
    BY StoresAssumption DEF StoresAssumption
  <2>4. cuts' \in 0 .. MaxCuts
    BY <2>1, <2>2, <2>3, CountUp
  <2>. QED BY <1>5, <2>4 DEF Close
<1>6. CASE Kill
  <2>1. cuts \in 0 .. MaxCuts /\ MaxCuts \in Nat
    BY StoresAssumption DEF StoresAssumption
  <2>2. cuts' = cuts + 1 /\ cuts' <= MaxCuts
    BY <1>6, <2>1 DEF Kill
  <2>3. cuts' \in 0 .. MaxCuts
    BY <2>1, <2>2, CountUp
  <2>. QED BY <1>6, <2>3 DEF Kill
<1>7. CASE UNCHANGED vars
  BY <1>7 DEF vars
<1>. QED
  BY <1>1, <1>2, <1>3, <1>4, <1>5, <1>6, <1>7 DEF Next, Opening, Writing

(* then the batch and the place in it,                                     *)
LEMMA BatchStep == TypeOK /\ [Next]_vars => BatchOK'
<1>. SUFFICES ASSUME SessionOK, BatchOK, [Next]_vars PROVE BatchOK'
  BY DEF TypeOK
<1>1. CASE UNCHANGED <<batch, place>>
  BY <1>1 DEF BatchOK
<1>2. ASSUME NEW n \in BatchSizes, NewBatch(n) PROVE BatchOK'
  BY <1>2, NewBatchType DEF NewBatch, BatchOK
<1>3. CASE WriteLine \/ WriteRow
  BY <1>3, BatchType DEF WriteLine, WriteRow, BatchOK
<1>4. CASE Flushed \/ LinesFail
  BY <1>4, BatchType DEF Flushed, LinesFail, BatchOK
<1>. QED
  BY <1>1, <1>2, <1>3, <1>4
  DEF Next, Opening, Writing, Open, CreateTable, AddColumn, Opened, Spill,
      Commit, RowsFail, Close, Kill, vars

(* the JSONL file and the buffer before it,                                *)
LEMMA FileStep == TypeOK /\ [Next]_vars => FileOK'
<1>. SUFFICES ASSUME BatchOK, FileOK, [Next]_vars PROVE FileOK'
  BY DEF TypeOK
<1>e. <<>> \in Seq(Parts)
  BY EmptySeq
<1>1. CASE UNCHANGED <<buffer, file>>
  BY <1>1 DEF FileOK
<1>2. CASE (Open \/ Kill) /\ file' = file /\ buffer' = <<>>
  BY <1>2, <1>e DEF FileOK
<1>3. CASE WriteLine
  <2>1. batch[place] \in Reports
    BY <1>3, BatchType DEF WriteLine
  <2>2. buffer \o Record(batch[place]) \in Seq(Parts)
    BY <2>1, RecordType, ConcatProperties DEF FileOK
  <2>. QED BY <1>3, <2>2 DEF WriteLine, FileOK
<1>4. ASSUME NEW n, Reaches(n) PROVE FileOK'
  BY <1>4, ReachType DEF FileOK
<1>5. CASE LinesFail
  BY <1>5, Piece DEF LinesFail, FileOK
<1>6. CASE Close
  <2>1. PICK n \in 0 .. Len(buffer) : file' = file \o SubSeq(buffer, 1, n)
    BY <1>6 DEF Close
  <2>2. file' \in Seq(Parts)
    BY <2>1, Piece, ConcatProperties DEF FileOK
  <2>. QED BY <1>6, <1>e, <2>2 DEF Close, FileOK
<1>. QED
  BY <1>1, <1>2, <1>3, <1>4, <1>5, <1>6
  DEF Next, Opening, Writing, Open, CreateTable, AddColumn, Opened, NewBatch,
      Spill, Flushed, WriteRow, Commit, RowsFail, Kill, vars, jsonlVars

(* the rows, in the open transaction and committed,                        *)
LEMMA RowsStep == TypeOK /\ [Next]_vars => RowsOK'
<1>. SUFFICES ASSUME BatchOK, RowsOK, [Next]_vars PROVE RowsOK'
  BY DEF TypeOK
<1>e. <<>> \in Seq(Reports)
  BY EmptySeq
<1>1. CASE UNCHANGED <<tx, rows>>
  BY <1>1 DEF RowsOK
<1>2. CASE rows' = rows /\ tx' = <<>>
  BY <1>2, <1>e DEF RowsOK
<1>3. CASE WriteRow
  BY <1>3, BatchType, AppendProperties DEF WriteRow, RowsOK
<1>4. CASE Commit
  BY <1>4, <1>e, ConcatProperties DEF Commit, RowsOK
<1>. QED
  BY <1>1, <1>2, <1>3, <1>4
  DEF Next, Opening, Writing, Open, CreateTable, AddColumn, Opened, NewBatch,
      WriteLine, Spill, Flushed, LinesFail, RowsFail, Close, Kill, vars,
      sqliteVars

(* the columns of the table,                                               *)
LEMMA TableStep == TypeOK /\ [Next]_vars => TableOK'
<1>. SUFFICES ASSUME TableOK, [Next]_vars PROVE TableOK'
  BY DEF TypeOK
<1>1. CASE UNCHANGED table /\ (proc' = proc \/ proc' = "down" \/ Open)
  BY <1>1 DEF TableOK, Open
<1>2. CASE UNCHANGED table /\ proc \notin {"down", "creating"}
  BY <1>2 DEF TableOK
<1>3. CASE CreateTable
  <2>1. CurrentColumns # {"none"}
    BY DEF CurrentColumns
  <2>. QED BY <1>3, <2>1 DEF CreateTable, TableOK
<1>4. CASE AddColumn
  <2>1. PICK i \in Missing : table' = table \cup {AddedColumns[i]}
    BY <1>4 DEF AddColumn
  <2>2. i \in {1, 2} /\ AddedColumns[i] \in CurrentColumns
    BY DEF Missing, AddedColumns, CurrentColumns
  <2>3. "none" \notin CurrentColumns
    BY DEF CurrentColumns
  <2>4. table \in SUBSET CurrentColumns
    BY <1>4 DEF AddColumn, TableOK
  <2>5. table' \in SUBSET CurrentColumns /\ table' # {"none"}
    BY <2>1, <2>2, <2>3, <2>4
  <2>. QED BY <2>5 DEF TableOK
<1>. QED
  BY <1>1, <1>2, <1>3, <1>4
  DEF Next, Opening, Writing, Open, Opened, NewBatch, WriteLine, Spill,
      Flushed, LinesFail, WriteRow, Commit, RowsFail, Close, Kill, vars,
      sqliteVars

(* and the histories.                                                      *)
LEMMA HistoryStep == TypeOK /\ [Next]_vars => HistoryOK'
<1>. SUFFICES ASSUME SessionOK, BatchOK, HistoryOK, [Next]_vars
              PROVE  HistoryOK'
  BY DEF TypeOK
<1>1. CASE UNCHANGED <<batches, torn, lines, stored>>
  BY <1>1 DEF HistoryOK
<1>2. ASSUME NEW n \in BatchSizes, NewBatch(n) PROVE HistoryOK'
  BY <1>2, NewBatchType DEF NewBatch, HistoryOK, jsonlVars, sqliteVars
<1>3. CASE Flushed
  BY <1>3, BatchType DEF Flushed, HistoryOK, sqliteVars
<1>4. CASE Commit
  BY <1>4, BatchType DEF Commit, HistoryOK, jsonlVars
<1>5. CASE RowsFail
  BY <1>5, BatchType DEF RowsFail, HistoryOK, jsonlVars
<1>. QED
  BY <1>1, <1>2, <1>3, <1>4, <1>5
  DEF Next, Opening, Writing, Open, CreateTable, AddColumn, Opened, WriteLine,
      Spill, LinesFail, WriteRow, Close, Kill, vars, jsonlVars, sqliteVars

(* The state of both archives keeps its type.                              *)
THEOREM TypeCorrect == Spec => []TypeOK
<1>1. TypeOK /\ [Next]_vars => TypeOK'
  BY SessionStep, BatchStep, FileStep, RowsStep, TableStep, HistoryStep
  DEF TypeOK
<1>. QED BY TypeStart, <1>1, PTL DEF Spec

-----------------------------------------------------------------------------
(* The archives only grow: no step, an opening after a kill among them,    *)
(* takes back what reached the file or was committed.                      *)
THEOREM NothingIsTakenBack == Spec => ArchiveOnlyGrows
<1>1. TypeOK /\ [Next]_vars
        => [Extends(file, file') /\ Extends(rows, rows')]_vars
  <2>. SUFFICES ASSUME FileOK, RowsOK, [Next]_vars
                PROVE  Extends(file, file') /\ Extends(rows, rows')
    BY DEF TypeOK
  <2>1. file' = file => Extends(file, file')
    BY Appending DEF FileOK
  <2>2. rows' = rows => Extends(rows, rows')
    BY Appending DEF RowsOK
  <2>3. CASE UNCHANGED <<file, rows>>
    BY <2>1, <2>2, <2>3
  <2>4. ASSUME NEW n, Reaches(n) PROVE Extends(file, file')
    BY <2>4, Piece, Appending DEF Reaches, FileOK
  <2>5. CASE Close
    <3>1. PICK n \in 0 .. Len(buffer) : file' = file \o SubSeq(buffer, 1, n)
      BY <2>5 DEF Close
    <3>2. Extends(file, file')
      BY <3>1, Piece, Appending DEF FileOK
    <3>. QED BY <2>2, <2>5, <3>2 DEF Close
  <2>6. CASE Commit
    <3>1. Extends(rows, rows')
      BY <2>6, Appending DEF Commit, RowsOK
    <3>. QED BY <2>1, <2>6, <3>1 DEF Commit, jsonlVars
  <2>. QED
    BY <2>2, <2>3, <2>4, <2>5, <2>6
    DEF Next, Opening, Writing, Open, CreateTable, AddColumn, Opened,
        NewBatch, WriteLine, Spill, Flushed, LinesFail, WriteRow, RowsFail,
        Kill, vars, jsonlVars, sqliteVars
<1>. QED BY <1>1, TypeCorrect, PTL DEF Spec, ArchiveOnlyGrows

-----------------------------------------------------------------------------
(* What a write that returned has stored.  The invariant that makes        *)
(* StoredIsKept inductive: while rows are written, those of the batch up   *)
(* to the present place are in the open transaction, so that the commit    *)
(* that ends the write commits the whole batch.                            *)
Members(s) == {s[i] : i \in DOMAIN s}

BatchInTransaction ==
    proc = "writing rows" =>
        \A i \in DOMAIN batch : i < place => batch[i] \in Members(tx)

(* The members of two sequences are those of their concatenation. *)
LEMMA MembersOfConcat ==
  ASSUME NEW S, NEW s \in Seq(S), NEW t \in Seq(S)
  PROVE  Members(s) \cup Members(t) \subseteq Members(s \o t)
<1>1. /\ Len(s) \in Nat /\ DOMAIN s = 1 .. Len(s)
      /\ Len(t) \in Nat /\ DOMAIN t = 1 .. Len(t)
      /\ s \o t \in Seq(S) /\ Len(s \o t) = Len(s) + Len(t)
      /\ DOMAIN (s \o t) = 1 .. Len(s \o t)
  BY LenProperties, ConcatProperties
<1>2. \A i \in DOMAIN s : s[i] = (s \o t)[i] /\ i \in DOMAIN (s \o t)
  BY <1>1, ConcatProperties
<1>3. \A i \in DOMAIN t :
        t[i] = (s \o t)[Len(s) + i] /\ Len(s) + i \in DOMAIN (s \o t)
  BY <1>1
<1>. QED BY <1>2, <1>3 DEF Members

(* Appending a row keeps the rows before it. *)
LEMMA MembersOfAppend ==
  ASSUME NEW S, NEW s \in Seq(S), NEW e \in S
  PROVE  Members(s) \cup {e} \subseteq Members(Append(s, e))
<1>1. /\ Len(s) \in Nat /\ DOMAIN s = 1 .. Len(s)
      /\ DOMAIN Append(s, e) = 1 .. Len(s) + 1
      /\ \A i \in 1 .. Len(s) : Append(s, e)[i] = s[i]
      /\ Append(s, e)[Len(s) + 1] = e
  BY LenProperties, AppendProperties
<1>. QED BY <1>1 DEF Members

(* The rows of the batch at hand stay in the transaction until it ends.    *)
LEMMA TransactionStep ==
  TypeOK /\ BatchInTransaction /\ [Next]_vars => BatchInTransaction'
<1>. SUFFICES ASSUME BatchOK, RowsOK, BatchInTransaction, [Next]_vars
              PROVE  BatchInTransaction'
  BY DEF TypeOK
<1>1. CASE proc' # "writing rows"
  BY <1>1 DEF BatchInTransaction
<1>2. CASE UNCHANGED <<proc, batch, place, tx>>
  BY <1>2 DEF BatchInTransaction, Members
<1>3. CASE place' = 1 /\ batch' = batch
  <2>1. \A i \in DOMAIN batch' : ~(i < place')
    BY <1>3, LenProperties DEF BatchOK
  <2>. QED BY <2>1 DEF BatchInTransaction
<1>4. CASE WriteRow
  <2>1. /\ Members(tx) \cup {batch[place]} \subseteq Members(tx')
        /\ batch' = batch /\ place' = place + 1
    BY <1>4, BatchType, MembersOfAppend DEF WriteRow, RowsOK
  <2>2. \A i \in DOMAIN batch : i < place' => i < place \/ i = place
    BY <2>1, LenProperties DEF BatchOK
  <2>. QED BY <1>4, <2>1, <2>2 DEF WriteRow, BatchInTransaction
<1>. QED
  BY <1>1, <1>2, <1>3, <1>4
  DEF Next, Opening, Writing, Open, CreateTable, AddColumn, Opened, NewBatch,
      WriteLine, Spill, Flushed, LinesFail, Commit, RowsFail, Close, Kill,
      vars, sqliteVars

(* A commit stores the whole batch, and nothing takes it back.             *)
LEMMA StoredStep ==
  TypeOK /\ BatchInTransaction /\ StoredIsKept /\ [Next]_vars => StoredIsKept'
<1>. SUFFICES ASSUME BatchOK, RowsOK, BatchInTransaction, StoredIsKept,
                     [Next]_vars
              PROVE  StoredIsKept'
  BY DEF TypeOK
<1>1. CASE UNCHANGED <<rows, stored>>
  BY <1>1 DEF StoredIsKept, Rows
<1>2. CASE Commit
  <2>1. Members(rows) \cup Members(tx) \subseteq Members(rows')
    BY <1>2, MembersOfConcat DEF Commit, RowsOK
  <2>2. \A i \in DOMAIN batch : i < place
    <3>1. /\ DOMAIN batch = 1 .. Len(batch) /\ Len(batch) \in Nat
          /\ place \in Nat
      BY LenProperties DEF BatchOK
    <3>2. place > Len(batch)
      BY <1>2 DEF Commit
    <3>. QED BY <3>1, <3>2
  <2>3. {batch[i] : i \in DOMAIN batch} \subseteq Members(tx)
    BY <1>2, <2>2 DEF Commit, BatchInTransaction
  <2>4. stored' = stored \cup {batch[i] : i \in DOMAIN batch}
    BY <1>2 DEF Commit
  <2>. QED BY <2>1, <2>3, <2>4 DEF StoredIsKept, Rows, Members
<1>. QED
  BY <1>1, <1>2
  DEF Next, Opening, Writing, Open, CreateTable, AddColumn, Opened, NewBatch,
      WriteLine, Spill, Flushed, LinesFail, WriteRow, RowsFail, Close, Kill,
      vars, sqliteVars

(* A report whose SQLite write returned is in the database ever after:     *)
(* SqliteSink.write answers only when its transaction is committed.        *)
THEOREM WhatReturnedIsStored == Spec => []StoredIsKept
<1>1. Init => BatchInTransaction /\ StoredIsKept
  BY DEF Init, BatchInTransaction, StoredIsKept, Rows
<1>. QED
  BY <1>1, TypeCorrect, TransactionStep, StoredStep, PTL DEF Spec
-----------------------------------------------------------------------------
(* The text of the JSONL archive, in the file and still in the buffer, and *)
(* the rows of the database, committed and still in the transaction.  The  *)
(* invariants are about these wholes: what a step does to them is to add a *)
(* record or a row at the end, or to cut off an end.                       *)
Text == file \o buffer
Stored == rows \o tx

(* While a batch is written, its reports are the last that were given, in  *)
(* their order.                                                            *)
BatchIsLatest ==
    proc \in {"writing lines", "writing rows"} =>
        /\ Len(batch) <= given
        /\ \A i \in 1 .. Len(batch) : batch[i] = given - Len(batch) + i

(* The last report that may be in the text, and in the rows. *)
LineMark ==
    IF proc = "writing lines" THEN given - Len(batch) + place - 1 ELSE given
RowMark ==
    IF proc = "writing lines" THEN given - Len(batch)
    ELSE IF proc = "writing rows" THEN given - Len(batch) + place - 1
    ELSE given

Before(p, q) == p.of < q.of \/ (p.of = q.of /\ p.part < q.part)

InOrder(s, m) ==
    /\ \A i, j \in 1 .. Len(s) : i < j => Before(s[i], s[j])
    /\ \A i \in 1 .. Len(s) : s[i].of <= m

TextInOrder == InOrder(Text, LineMark)

Rising(s, m) ==
    /\ \A i, j \in 1 .. Len(s) : i < j => s[i] < s[j]
    /\ \A i \in 1 .. Len(s) : s[i] <= m

RowsInOrder == Rising(Stored, RowMark)

(* A part is followed by the next part of its record, or by the first part *)
(* of another: a new line if it was the newline, and else the text of the  *)
(* old record runs on into the new one.                                    *)
Follows(p, q) == q.part = 1 \/ (q.of = p.of /\ q.part = p.part + 1)

WellFormed(s) ==
    /\ Len(s) > 0 => s[1].part = 1
    /\ \A i \in 1 .. Len(s) : i < Len(s) => Follows(s[i], s[i + 1])

TextIsWellFormed == WellFormed(Text)

(* The places where a record breaks off. *)
Broken(s) ==
    {i \in 1 .. Len(s) : /\ s[i].part # Newline
                         /\ i < Len(s) => s[i + 1].part = 1}

BreaksAreCounted == Cardinality(Broken(Text)) <= cuts

(* A whole record is in a text. *)
Holds(s, x) ==
    \E i \in 1 .. Len(s) :
        /\ i + 2 <= Len(s)
        /\ s[i] = Part(x, 1) /\ s[i + 1] = Part(x, 2) /\ s[i + 2] = Part(x, 3)

LinesAreWritten ==
    /\ \A x \in lines : Holds(file, x)
    /\ proc = "writing lines" =>
           \A i \in 1 .. Len(batch) : i < place => Holds(Text, batch[i])

DownIsEmpty == proc = "down" => buffer = <<>>

TextInv ==
    /\ BatchIsLatest /\ TextInOrder /\ TextIsWellFormed /\ BreaksAreCounted
    /\ LinesAreWritten /\ DownIsEmpty

(* The batches, as sets, lie apart, and no row of one that was not torn is *)
(* in the open transaction, but for the batch at hand.                     *)
AtHand == {batch[i] : i \in DOMAIN batch}
Writing2 == proc \in {"writing lines", "writing rows"}

BatchesInv ==
    /\ \A b \in batches : \A x \in b : x <= given
    /\ Writing2 => /\ AtHand \in batches
                   /\ \A b \in batches : b # AtHand =>
                         \A x \in b : x <= given - Len(batch)
    /\ Writing2 => \A x \in Members(rows) : x <= given - Len(batch)
    /\ \A b \in batches \ torn :
          b \cap Members(tx) # {} => proc = "writing rows" /\ b = AtHand

ColumnsInv ==
    proc \in {"ready", "writing lines", "writing rows"} =>
        CurrentColumns \subseteq table
-----------------------------------------------------------------------------
(* More of sequences.                                                      *)

(* The elements of a beginning of a sequence, and of a concatenation. *)
LEMMA Beginning ==
  ASSUME NEW S, NEW s \in Seq(S), NEW n \in 0 .. Len(s)
  PROVE  /\ SubSeq(s, 1, n) \in Seq(S)
         /\ Len(SubSeq(s, 1, n)) = n
         /\ \A i \in 1 .. n : SubSeq(s, 1, n)[i] = s[i]
<1>1. Len(s) \in Nat /\ n \in Nat /\ \A i \in 1 .. n : s[i] \in S
  BY LenProperties, ElementOfSeq
<1>2. /\ SubSeq(s, 1, n) \in Seq(S)
      /\ Len(SubSeq(s, 1, n)) = IF 1 <= n THEN n - 1 + 1 ELSE 0
      /\ \A i \in 1 .. n - 1 + 1 : SubSeq(s, 1, n)[i] = s[1 + i - 1]
  BY <1>1, SubSeqProperties
<1>. QED BY <1>1, <1>2

(* To cut the end of a concatenation off is to cut it off its second part. *)
LEMMA CutIsBeginning ==
  ASSUME NEW S, NEW s \in Seq(S), NEW t \in Seq(S), NEW n \in 0 .. Len(t)
  PROVE  /\ Len(s) + n \in 0 .. Len(s \o t)
         /\ s \o SubSeq(t, 1, n) = SubSeq(s \o t, 1, Len(s) + n)
<1>1. Len(s) \in Nat /\ Len(t) \in Nat /\ n \in Nat
  BY LenProperties
<1>2. PICK w : /\ w = s \o t
               /\ w \in Seq(S) /\ Len(w) = Len(s) + Len(t)
               /\ \A i \in 1 .. Len(s) + Len(t) :
                    w[i] = IF i <= Len(s) THEN s[i] ELSE t[i - Len(s)]
  <2>1. /\ s \o t \in Seq(S) /\ Len(s \o t) = Len(s) + Len(t)
        /\ \A i \in 1 .. Len(s) + Len(t) :
             (s \o t)[i] = IF i <= Len(s) THEN s[i] ELSE t[i - Len(s)]
    BY ConcatProperties
  <2>. QED BY <2>1
<1>3. PICK p : /\ p = SubSeq(t, 1, n) /\ p \in Seq(S)
               /\ Len(p) = n /\ \A i \in 1 .. n : p[i] = t[i]
  BY Beginning
<1>4. PICK m : m = Len(s) + n /\ m \in 0 .. Len(w) /\ m \in Nat
  BY <1>1, <1>2
<1>5. PICK q : /\ q = SubSeq(w, 1, m) /\ q \in Seq(S)
               /\ Len(q) = m /\ \A i \in 1 .. m : q[i] = w[i]
  <2>1. w \in Seq(S) /\ m \in 0 .. Len(w)
    BY <1>2, <1>4
  <2>2. /\ SubSeq(w, 1, m) \in Seq(S) /\ Len(SubSeq(w, 1, m)) = m
        /\ \A i \in 1 .. m : SubSeq(w, 1, m)[i] = w[i]
    BY <2>1, Beginning
  <2>. QED BY <2>2
<1>6. PICK v : /\ v = s \o p /\ v \in Seq(S) /\ Len(v) = m
               /\ \A i \in 1 .. m :
                    v[i] = IF i <= Len(s) THEN s[i] ELSE p[i - Len(s)]
  <2>1. /\ s \o p \in Seq(S) /\ Len(s \o p) = Len(s) + Len(p)
        /\ \A i \in 1 .. Len(s) + Len(p) :
             (s \o p)[i] = IF i <= Len(s) THEN s[i] ELSE p[i - Len(s)]
    BY <1>3, ConcatProperties
  <2>2. Len(s) + Len(p) = m
    BY <1>3, <1>4
  <2>. QED BY <2>1, <2>2
<1>7. ASSUME NEW i \in 1 .. m PROVE v[i] = q[i]
  <2>1. CASE i <= Len(s)
    BY <1>1, <1>2, <1>4, <1>5, <1>6, <2>1
  <2>2. CASE i > Len(s)
    <3>1. i - Len(s) \in 1 .. n /\ ~(i <= Len(s)) /\ i \in 1 .. Len(s) + Len(t)
      BY <1>1, <1>4, <2>2
    <3>2. v[i] = p[i - Len(s)] /\ q[i] = w[i] /\ w[i] = t[i - Len(s)]
      BY <1>2, <1>5, <1>6, <3>1
    <3>. QED BY <1>3, <3>1, <3>2
  <2>. QED BY <1>1, <2>1, <2>2
<1>8. v = q
  BY <1>5, <1>6, <1>7, SeqEqual
<1>. QED BY <1>2, <1>3, <1>4, <1>5, <1>6, <1>8

(* A piece that moves from the front of the second part of a concatenation *)
(* to the end of the first leaves the whole as it is.                      *)
LEMMA MoveKeepsWhole ==
  ASSUME NEW S, NEW s \in Seq(S), NEW t \in Seq(S), NEW n \in 0 .. Len(t)
  PROVE  (s \o SubSeq(t, 1, n)) \o SubSeq(t, n + 1, Len(t)) = s \o t
<1>1. Len(t) \in Nat
  BY LenProperties
<1>2. SubSeq(t, 1, n) \in Seq(S) /\ SubSeq(t, n + 1, Len(t)) \in Seq(S)
  BY Piece
<1>3. SubSeq(t, 1, n) \o SubSeq(t, n + 1, Len(t)) = SubSeq(t, 1, Len(t))
  <2>1. 1 \in 1 .. Len(t) + 1 /\ n \in 1 - 1 .. Len(t) /\ Len(t) \in n .. Len(t)
    BY <1>1
  <2>. QED BY <2>1, ConcatAdjacentSubSeq
<1>4. SubSeq(t, 1, Len(t)) = t
  BY SubSeqFull
<1>5. PICK a \in Seq(S), b \in Seq(S) :
        a = SubSeq(t, 1, n) /\ b = SubSeq(t, n + 1, Len(t))
  BY <1>2
<1>6. (s \o a) \o b = s \o (a \o b)
  BY ConcatAssociative
<1>. QED BY <1>3, <1>4, <1>5, <1>6

-----------------------------------------------------------------------------
(* What a step does to the text and to the rows.                           *)

(* The types that the proofs need. *)
LEMMA Wholes ==
  ASSUME TypeOK
  PROVE  /\ file \in Seq(Parts) /\ buffer \in Seq(Parts) /\ Text \in Seq(Parts)
         /\ Len(file) \in Nat /\ Len(buffer) \in Nat /\ Len(Text) \in Nat
         /\ Len(Text) = Len(file) + Len(buffer)
         /\ \A i \in 1 .. Len(Text) : Text[i] \in Parts
         /\ \A i \in 1 .. Len(file) : Text[i] = file[i]
         /\ \A i \in 1 .. Len(buffer) : Text[Len(file) + i] = buffer[i]
         /\ rows \in Seq(Reports) /\ tx \in Seq(Reports)
         /\ Stored \in Seq(Reports)
         /\ Len(rows) \in Nat /\ Len(tx) \in Nat /\ Len(Stored) \in Nat
         /\ Len(Stored) = Len(rows) + Len(tx)
         /\ \A i \in 1 .. Len(Stored) : Stored[i] \in Nat
<1>1. /\ file \in Seq(Parts) /\ buffer \in Seq(Parts)
      /\ rows \in Seq(Reports) /\ tx \in Seq(Reports)
  BY DEF TypeOK, FileOK, RowsOK
<1>2. /\ Text \in Seq(Parts) /\ Len(Text) = Len(file) + Len(buffer)
      /\ \A i \in 1 .. Len(file) + Len(buffer) :
           Text[i] = IF i <= Len(file) THEN file[i] ELSE buffer[i - Len(file)]
  BY <1>1, ConcatProperties DEF Text
<1>3. Stored \in Seq(Reports) /\ Len(Stored) = Len(rows) + Len(tx)
  BY <1>1, ConcatProperties DEF Stored
<1>4. /\ Len(file) \in Nat /\ Len(buffer) \in Nat /\ Len(Text) \in Nat
      /\ Len(rows) \in Nat /\ Len(tx) \in Nat /\ Len(Stored) \in Nat
  BY <1>1, <1>2, <1>3, LenProperties
<1>5. \A i \in 1 .. Len(Text) : Text[i] \in Parts
  BY <1>2, ElementOfSeq
<1>6. \A i \in 1 .. Len(Stored) : Stored[i] \in Nat
  <2>1. \A i \in 1 .. Len(Stored) : Stored[i] \in Reports
    BY <1>3, ElementOfSeq
  <2>2. Reports \subseteq Nat
    BY StoresAssumption DEF StoresAssumption, Reports
  <2>. QED BY <2>1, <2>2
<1>7. \A i \in 1 .. Len(file) : Text[i] = file[i]
  BY <1>2, <1>4
<1>8. \A i \in 1 .. Len(buffer) : Text[Len(file) + i] = buffer[i]
  BY <1>2, <1>4
<1>. QED BY <1>1, <1>2, <1>3, <1>4, <1>5, <1>6, <1>7, <1>8

(* A cut of the text: at a record's first part, or one that is counted. *)
Cut(n) ==
    /\ n \in 0 .. Len(Text)
    /\ Text' = SubSeq(Text, 1, n)
    /\ n < Len(Text) => Text[n + 1].part = 1 \/ cuts' = cuts + 1

(* Every step leaves the text, adds a record, or cuts off an end.          *)
LEMMA TextStep ==
  ASSUME TypeOK, DownIsEmpty, [Next]_vars
  PROVE  /\ \/ Text' = Text
            \/ WriteLine /\ Text' = Text \o Record(batch[place])
            \/ \E n \in 0 .. Len(Text) : Cut(n)
         /\ cuts' = cuts \/ cuts' = cuts + 1
<1>0. /\ file \in Seq(Parts) /\ buffer \in Seq(Parts) /\ <<>> \in Seq(Parts)
      /\ Len(file) \in Nat /\ Len(buffer) \in Nat
      /\ Len(Text) = Len(file) + Len(buffer)
      /\ \A i \in 1 .. Len(buffer) : Text[Len(file) + i] = buffer[i]
  BY Wholes, EmptySeq
<1>1. CASE UNCHANGED <<buffer, file, cuts>>
  BY <1>1 DEF Text
<1>2. CASE Open
  <2>1. buffer = <<>> /\ buffer' = <<>> /\ file' = file /\ cuts' = cuts
    BY <1>2 DEF Open, DownIsEmpty
  <2>. QED BY <2>1 DEF Text
<1>3. CASE WriteLine
  <2>1. batch[place] \in Reports
    BY <1>3, BatchType DEF WriteLine, TypeOK
  <2>2. Record(batch[place]) \in Seq(Parts)
    BY <2>1, RecordType
  <2>3. file' = file /\ buffer' = buffer \o Record(batch[place]) /\ cuts' = cuts
    BY <1>3 DEF WriteLine
  <2>. QED BY <1>0, <1>3, <2>2, <2>3, ConcatAssociative DEF Text
<1>4. ASSUME NEW n, Reaches(n), cuts' = cuts
      PROVE  Text' = Text /\ cuts' = cuts
  BY <1>0, <1>4, MoveKeepsWhole DEF Reaches, Text
<1>5. ASSUME NEW n \in 0 .. Len(buffer),
             Text' = file \o SubSeq(buffer, 1, n),
             n < Len(buffer) => buffer[n + 1].part = 1 \/ cuts' = cuts + 1
      PROVE  \E m \in 0 .. Len(Text) : Cut(m)
  <2>1. /\ Len(file) + n \in 0 .. Len(Text)
        /\ Text' = SubSeq(Text, 1, Len(file) + n)
    BY <1>0, <1>5, CutIsBeginning DEF Text
  <2>2. Len(file) + n < Len(Text) =>
          n < Len(buffer) /\ Text[(Len(file) + n) + 1] = buffer[n + 1]
    <3>1. n \in Nat /\ (Len(file) + n) + 1 = Len(file) + (n + 1)
      BY <1>0
    <3>2. Len(file) + n < Len(Text) => n < Len(buffer)
      BY <1>0, <3>1
    <3>3. n < Len(buffer) => n + 1 \in 1 .. Len(buffer)
      BY <1>0, <3>1
    <3>. QED BY <1>0, <3>1, <3>2, <3>3
  <2>3. Cut(Len(file) + n)
    BY <1>5, <2>1, <2>2 DEF Cut
  <2>. QED BY <2>1, <2>3
<1>6. CASE LinesFail
  <2>1. PICK n \in 0 .. Len(buffer) :
          IsBoundary(n) /\ buffer' = SubSeq(buffer, 1, n)
    BY <1>6 DEF LinesFail
  <2>2. file' = file /\ cuts' = cuts
    BY <1>6 DEF LinesFail
  <2>3. Text' = file \o SubSeq(buffer, 1, n)
    BY <2>1, <2>2 DEF Text
  <2>4. \E m \in 0 .. Len(Text) : Cut(m)
    BY <1>5, <2>1, <2>3 DEF IsBoundary
  <2>. QED BY <2>2, <2>4
<1>7. CASE Close
  <2>1. PICK n \in 0 .. Len(buffer) :
          /\ file' = file \o SubSeq(buffer, 1, n)
          /\ cuts' = IF n < Len(buffer) THEN cuts + 1 ELSE cuts
    BY <1>7 DEF Close
  <2>2. SubSeq(buffer, 1, n) \in Seq(Parts)
    BY <1>0, Beginning
  <2>3. file' \in Seq(Parts)
    BY <1>0, <2>1, <2>2, ConcatProperties
  <2>4. file' \o <<>> = file'
    BY <2>3, ConcatEmptySeq
  <2>5. buffer' = <<>>
    BY <1>7 DEF Close
  <2>6. Text' = file \o SubSeq(buffer, 1, n)
    BY <2>1, <2>4, <2>5 DEF Text
  <2>7. \E m \in 0 .. Len(Text) : Cut(m)
    BY <1>5, <2>1, <2>6
  <2>. QED BY <2>1, <2>7
<1>8. CASE Kill
  <2>1. file' = file /\ buffer' = <<>> /\ cuts' = cuts + 1
    BY <1>8 DEF Kill
  <2>2. SubSeq(buffer, 1, 0) = <<>>
    BY SubSeqEmpty
  <2>3. Text' = file \o SubSeq(buffer, 1, 0)
    BY <2>1, <2>2 DEF Text
  <2>4. \E m \in 0 .. Len(Text) : Cut(m)
    BY <1>0, <1>5, <2>1, <2>3
  <2>. QED BY <2>1, <2>4
<1>9. CASE Spill
  <2>1. PICK n : Reaches(n)
    BY <1>9 DEF Spill
  <2>. QED BY <1>4, <1>9, <2>1 DEF Spill
<1>10. CASE Flushed
  BY <1>4, <1>10 DEF Flushed
<1>. QED
  BY <1>1, <1>2, <1>3, <1>6, <1>7, <1>8, <1>9, <1>10
  DEF Next, Opening, Writing, CreateTable, AddColumn, Opened, NewBatch,
      WriteRow, Commit, RowsFail, vars, jsonlVars

(* Every step leaves the rows, adds one, or drops the open transaction.    *)
LEMMA StoredIs ==
  ASSUME TypeOK, [Next]_vars
  PROVE  \/ Stored' = Stored
         \/ WriteRow /\ Stored' = Append(Stored, batch[place])
         \/ \E n \in 0 .. Len(Stored) : Stored' = SubSeq(Stored, 1, n)
<1>0. /\ rows \in Seq(Reports) /\ tx \in Seq(Reports) /\ <<>> \in Seq(Reports)
      /\ Len(rows) \in Nat /\ Len(Stored) \in Nat
      /\ Len(Stored) = Len(rows) + Len(tx) /\ Len(tx) \in Nat
  BY Wholes, EmptySeq
<1>1. CASE UNCHANGED <<rows, tx>>
  BY <1>1 DEF Stored
<1>2. CASE rows' = rows /\ tx' = <<>>
  <2>1. SubSeq(tx, 1, 0) = <<>>
    BY SubSeqEmpty
  <2>2. Stored' = rows \o SubSeq(tx, 1, 0)
    BY <1>2, <2>1 DEF Stored
  <2>3. Len(rows) + 0 \in 0 .. Len(Stored)
        /\ Stored' = SubSeq(Stored, 1, Len(rows) + 0)
    BY <1>0, <2>2, CutIsBeginning DEF Stored
  <2>. QED BY <2>3
<1>3. CASE WriteRow
  <2>1. batch[place] \in Reports
    BY <1>3, BatchType DEF WriteRow, TypeOK
  <2>2. /\ tx' = tx \o <<batch[place]>> /\ rows' = rows
    BY <1>0, <1>3, <2>1, AppendIsConcat DEF WriteRow
  <2>3. <<batch[place]>> \in Seq(Reports)
    BY <2>1
  <2>4. Stored' = Stored \o <<batch[place]>>
    BY <1>0, <2>2, <2>3, ConcatAssociative DEF Stored
  <2>5. Stored \in Seq(Reports)
    BY Wholes
  <2>6. Stored' = Append(Stored, batch[place])
    BY <2>1, <2>4, <2>5, AppendIsConcat
  <2>. QED BY <1>3, <2>6
<1>4. CASE Commit
  <2>1. rows' = rows \o tx /\ tx' = <<>>
    BY <1>4 DEF Commit
  <2>2. (rows \o tx) \o <<>> = rows \o tx
    BY <1>0, ConcatProperties, ConcatEmptySeq
  <2>. QED BY <2>1, <2>2 DEF Stored
<1>. QED
  BY <1>1, <1>2, <1>3, <1>4
  DEF Next, Opening, Writing, Open, CreateTable, AddColumn, Opened, NewBatch,
      WriteLine, Spill, Flushed, LinesFail, RowsFail, Close, Kill, vars,
      sqliteVars

-----------------------------------------------------------------------------
(* What a record at the end of a text, and a cut, do to its properties.    *)

(* A record at the end. *)
LEMMA Grown ==
  ASSUME NEW w \in Seq(Parts), NEW r \in Reports
  PROVE  /\ w \o Record(r) \in Seq(Parts)
         /\ Len(w \o Record(r)) = Len(w) + 3
         /\ \A i \in 1 .. Len(w) : (w \o Record(r))[i] = w[i]
         /\ (w \o Record(r))[Len(w) + 1] = Part(r, 1)
         /\ (w \o Record(r))[Len(w) + 2] = Part(r, 2)
         /\ (w \o Record(r))[Len(w) + 3] = Part(r, 3)
<1>1. PICK t \in Seq(Parts) :
        /\ t = Record(r) /\ Len(t) = 3
        /\ t[1] = Part(r, 1) /\ t[2] = Part(r, 2) /\ t[3] = Part(r, 3)
  BY RecordType DEF Record
<1>2. Len(w) \in Nat
  BY LenProperties
<1>3. /\ w \o t \in Seq(Parts) /\ Len(w \o t) = Len(w) + 3
      /\ \A i \in 1 .. Len(w) + 3 :
           (w \o t)[i] = IF i <= Len(w) THEN w[i] ELSE t[i - Len(w)]
  <2>1. /\ w \o t \in Seq(Parts) /\ Len(w \o t) = Len(w) + Len(t)
        /\ \A i \in 1 .. Len(w) + Len(t) :
             (w \o t)[i] = IF i <= Len(w) THEN w[i] ELSE t[i - Len(w)]
    BY ConcatProperties
  <2>2. Len(t) = 3
    BY <1>1
  <2>. QED BY <2>1, <2>2
<1>4. \A i \in 1 .. Len(w) : (w \o t)[i] = w[i]
  BY <1>2, <1>3
<1>5. \A k \in 1 .. 3 : (w \o t)[Len(w) + k] = t[k]
  <2>. TAKE k \in 1 .. 3
  <2>1. /\ Len(w) + k \in 1 .. Len(w) + 3 /\ ~(Len(w) + k <= Len(w))
        /\ (Len(w) + k) - Len(w) = k
    BY <1>2
  <2>. QED BY <1>3, <2>1
<1>6. 1 \in 1 .. 3 /\ 2 \in 1 .. 3 /\ 3 \in 1 .. 3
  OBVIOUS
<1>. QED BY <1>1, <1>3, <1>4, <1>5, <1>6

(* The same for a sequence with a name, as the lemmas below want it. *)
IsGrown(v, w, r) ==
    /\ Len(v) = Len(w) + 3
    /\ \A i \in 1 .. Len(w) : v[i] = w[i]
    /\ v[Len(w) + 1] = Part(r, 1)
    /\ v[Len(w) + 2] = Part(r, 2)
    /\ v[Len(w) + 3] = Part(r, 3)

IsCut(v, w, n) == Len(v) = n /\ \A i \in 1 .. n : v[i] = w[i]

(* The places of a grown text: those of the old one and three more. *)
LEMMA Places ==
  ASSUME NEW k \in Nat, NEW i \in 1 .. k + 3
  PROVE  i \in 1 .. k \/ i = k + 1 \/ i = k + 2 \/ i = k + 3
OBVIOUS

(* A record later than all that is in a text keeps its order. *)
LEMMA OrderOfGrown ==
  ASSUME NEW w \in Seq(Parts), NEW v \in Seq(Parts), NEW r \in Nat,
         NEW m \in Int, InOrder(w, m), m < r, IsGrown(v, w, r)
  PROVE  InOrder(v, r)
<1>1. Len(w) \in Nat /\ Len(v) = Len(w) + 3
  BY LenProperties DEF IsGrown
<1>2. \A i \in 1 .. Len(w) : v[i] = w[i] /\ w[i].of \in Nat /\ w[i].of <= m
  <2>1. \A i \in 1 .. Len(w) : w[i] \in Parts
    BY ElementOfSeq
  <2>2. \A q \in Parts : q.of \in Nat
    BY StoresAssumption DEF StoresAssumption, Parts, Reports
  <2>. QED BY <2>1, <2>2 DEF IsGrown, InOrder
<1>3. \A k \in 1 .. 3 : v[Len(w) + k].of = r /\ v[Len(w) + k].part = k
  BY DEF IsGrown, Part
<1>4. ASSUME NEW i \in 1 .. Len(v) PROVE v[i].of <= r
  <2>1. CASE i \in 1 .. Len(w)
    BY <1>2, <2>1
  <2>2. CASE i \notin 1 .. Len(w)
    <3>1. i = Len(w) + 1 \/ i = Len(w) + 2 \/ i = Len(w) + 3
      BY <1>1, <2>2, Places
    <3>. QED BY <1>3, <3>1
  <2>. QED BY <2>1, <2>2
<1>5. ASSUME NEW i \in 1 .. Len(v), NEW j \in 1 .. Len(v), i < j
      PROVE  Before(v[i], v[j])
  <2>1. CASE j \in 1 .. Len(w)
    <3>1. i \in 1 .. Len(w)
      BY <1>1, <1>5, <2>1
    <3>. QED BY <1>2, <1>5, <2>1, <3>1 DEF InOrder
  <2>2. CASE i \in 1 .. Len(w) /\ j \notin 1 .. Len(w)
    <3>1. j = Len(w) + 1 \/ j = Len(w) + 2 \/ j = Len(w) + 3
      BY <1>1, <2>2, Places
    <3>2. v[j].of = r
      BY <1>3, <3>1
    <3>3. v[i].of < r
      BY <1>2, <2>2
    <3>. QED BY <3>2, <3>3 DEF Before
  <2>3. CASE i \notin 1 .. Len(w) /\ j \notin 1 .. Len(w)
    <3>1. PICK a \in 1 .. 3 : i = Len(w) + a
      BY <1>1, <2>3, Places
    <3>2. PICK b \in 1 .. 3 : j = Len(w) + b
      BY <1>1, <2>3, Places
    <3>3. a < b
      BY <1>1, <1>5, <3>1, <3>2
    <3>. QED BY <1>3, <3>1, <3>2, <3>3 DEF Before
  <2>. QED BY <2>1, <2>2, <2>3
<1>. QED BY <1>4, <1>5 DEF InOrder

(* A beginning of a text is in order. *)
LEMMA OrderOfCut ==
  ASSUME NEW w \in Seq(Parts), NEW v, NEW n \in 0 .. Len(w),
         NEW m, InOrder(w, m), IsCut(v, w, n)
  PROVE  InOrder(v, m)
<1>1. n \in Nat /\ \A i \in 1 .. n : i \in 1 .. Len(w)
  BY LenProperties
<1>. QED BY <1>1 DEF InOrder, IsCut

(* Time passes: the mark only goes up. *)
LEMMA OrderLater ==
  ASSUME NEW w \in Seq(Parts), NEW m \in Int, NEW k \in Int, m <= k,
         InOrder(w, m)
  PROVE  InOrder(w, k)
<1>1. \A i \in 1 .. Len(w) : w[i].of \in Nat
  <2>1. \A i \in 1 .. Len(w) : w[i] \in Parts
    BY ElementOfSeq
  <2>2. \A q \in Parts : q.of \in Nat
    BY StoresAssumption DEF StoresAssumption, Parts, Reports
  <2>. QED BY <2>1, <2>2
<1>2. \A a \in Nat : a <= m => a <= k
  OBVIOUS
<1>. QED BY <1>1, <1>2 DEF InOrder
(* A record at the end leaves a text well formed,                          *)
LEMMA FormOfGrown ==
  ASSUME NEW w \in Seq(Parts), NEW v \in Seq(Parts), NEW r \in Nat,
         WellFormed(w), IsGrown(v, w, r)
  PROVE  WellFormed(v)
<1>1. Len(w) \in Nat /\ Len(v) = Len(w) + 3
  BY LenProperties DEF IsGrown
<1>2. \A k \in 1 .. 3 : v[Len(w) + k].of = r /\ v[Len(w) + k].part = k
  BY DEF IsGrown, Part
<1>3. v[1].part = 1
  <2>1. CASE Len(w) = 0
    <3>1. v[Len(w) + 1].part = 1
      BY <1>2
    <3>. QED BY <2>1, <3>1
  <2>2. CASE Len(w) > 0
    BY <1>1, <2>2 DEF IsGrown, WellFormed
  <2>. QED BY <1>1, <2>1, <2>2
<1>4. ASSUME NEW i \in 1 .. Len(v), i < Len(v)
      PROVE  Follows(v[i], v[i + 1])
  <2>1. CASE i \in 1 .. Len(w) /\ i < Len(w)
    <3>1. i + 1 \in 1 .. Len(w)
      BY <1>1, <2>1
    <3>2. v[i] = w[i] /\ v[i + 1] = w[i + 1]
      BY <2>1, <3>1 DEF IsGrown
    <3>. QED BY <2>1, <3>2 DEF WellFormed
  <2>2. CASE i = Len(w)
    BY <1>2, <2>2 DEF Follows
  <2>3. CASE i \notin 1 .. Len(w)
    <3>1. i = Len(w) + 1 \/ i = Len(w) + 2
      BY <1>1, <1>4, <2>3, Places
    <3>2. CASE i = Len(w) + 1
      <4>1. i + 1 = Len(w) + 2
        BY <1>1, <3>2
      <4>. QED BY <1>2, <3>2, <4>1 DEF Follows
    <3>3. CASE i = Len(w) + 2
      <4>1. i + 1 = Len(w) + 3
        BY <1>1, <3>3
      <4>. QED BY <1>2, <3>3, <4>1 DEF Follows
    <3>. QED BY <3>1, <3>2, <3>3
  <2>. QED BY <1>1, <2>1, <2>2, <2>3
<1>. QED BY <1>3, <1>4 DEF WellFormed

(* and so does a cut.                                                      *)
LEMMA FormOfCut ==
  ASSUME NEW w \in Seq(Parts), NEW v, NEW n \in 0 .. Len(w),
         WellFormed(w), IsCut(v, w, n)
  PROVE  WellFormed(v)
<1>1. Len(w) \in Nat /\ n \in Nat /\ n <= Len(w)
  BY LenProperties
<1>2. n > 0 => 1 \in 1 .. n /\ Len(w) > 0
  BY <1>1
<1>3. \A i \in 1 .. n :
        i < n => i + 1 \in 1 .. n /\ i \in 1 .. Len(w) /\ i < Len(w)
  BY <1>1
<1>. QED BY <1>2, <1>3 DEF WellFormed, IsCut

(* A record at the end breaks nothing off: what was cut in the middle      *)
(* stays so, and the new record is whole.                                  *)
LEMMA BrokenOfGrown ==
  ASSUME NEW w \in Seq(Parts), NEW v \in Seq(Parts), NEW r \in Nat,
         IsGrown(v, w, r)
  PROVE  Broken(v) = Broken(w)
<1>1. Len(w) \in Nat /\ Len(v) = Len(w) + 3
  BY LenProperties DEF IsGrown
<1>2. \A k \in 1 .. 3 : v[Len(w) + k].part = k
  BY DEF IsGrown, Part
<1>3. ASSUME NEW i \in 1 .. Len(w)
      PROVE  i \in Broken(v) <=> i \in Broken(w)
  <2>1. i \in 1 .. Len(v) /\ i < Len(v) /\ v[i] = w[i]
    BY <1>1 DEF IsGrown
  <2>2. CASE i < Len(w)
    <3>1. i + 1 \in 1 .. Len(w)
      BY <1>1, <2>2
    <3>2. v[i + 1] = w[i + 1]
      BY <3>1 DEF IsGrown
    <3>. QED BY <2>1, <2>2, <3>2 DEF Broken
  <2>3. CASE i = Len(w)
    BY <1>1, <1>2, <2>1, <2>3 DEF Broken
  <2>. QED BY <1>1, <2>2, <2>3
<1>4. ASSUME NEW i \in 1 .. Len(v), i \notin 1 .. Len(w)
      PROVE  i \notin Broken(v)
  <2>1. i = Len(w) + 1 \/ i = Len(w) + 2 \/ i = Len(w) + 3
    BY <1>1, <1>4, Places
  <2>2. CASE i = Len(w) + 1
    <3>1. i + 1 = Len(w) + 2 /\ i < Len(v)
      BY <1>1, <2>2
    <3>. QED BY <1>2, <3>1 DEF Broken
  <2>3. CASE i = Len(w) + 2
    <3>1. i + 1 = Len(w) + 3 /\ i < Len(v)
      BY <1>1, <2>3
    <3>. QED BY <1>2, <3>1 DEF Broken
  <2>4. CASE i = Len(w) + 3
    BY <1>2, <2>4 DEF Broken, Newline
  <2>. QED BY <2>1, <2>2, <2>3, <2>4
<1>5. Broken(v) \subseteq 1 .. Len(v) /\ Broken(w) \subseteq 1 .. Len(w)
  BY DEF Broken
<1>. QED BY <1>3, <1>4, <1>5

(* A cut breaks off one record at most, and none before a first part.      *)
LEMMA BrokenOfCut ==
  ASSUME NEW w \in Seq(Parts), NEW v, NEW n \in 0 .. Len(w), IsCut(v, w, n)
  PROVE  /\ Broken(v) \subseteq Broken(w) \cup {n}
         /\ (n < Len(w) => w[n + 1].part = 1) => Broken(v) \subseteq Broken(w)
<1>1. Len(w) \in Nat /\ n \in Nat /\ n <= Len(w)
  BY LenProperties
<1>2. ASSUME NEW i \in Broken(v), i # n
      PROVE  i \in Broken(w)
  <2>1. i \in 1 .. n /\ i < n
    BY <1>1, <1>2 DEF Broken, IsCut
  <2>2. i + 1 \in 1 .. n /\ i \in 1 .. Len(w)
    BY <1>1, <2>1
  <2>. QED BY <2>1, <2>2 DEF Broken, IsCut
<1>3. ASSUME n \in Broken(v), n < Len(w) => w[n + 1].part = 1
      PROVE  n \in Broken(w)
  <2>1. n \in 1 .. n /\ n \in 1 .. Len(w)
    BY <1>1, <1>3 DEF Broken, IsCut
  <2>. QED BY <1>3, <2>1 DEF Broken, IsCut
<1>. QED BY <1>2, <1>3

(* How many: a text has finitely many breaks.                              *)
LEMMA CountedBreaks ==
  ASSUME NEW w \in Seq(Parts)
  PROVE  IsFiniteSet(Broken(w)) /\ Cardinality(Broken(w)) \in Nat
<1>1. Len(w) \in Nat /\ Broken(w) \in SUBSET (1 .. Len(w))
  BY LenProperties DEF Broken
<1>2. IsFiniteSet(1 .. Len(w))
  BY <1>1, FS_Interval
<1>3. IsFiniteSet(Broken(w))
  BY <1>1, <1>2, FS_Subset
<1>. QED BY <1>3, FS_CardinalityType

(* One more at most than before, and no more if the set is no larger.      *)
LEMMA OneMore ==
  ASSUME NEW B, IsFiniteSet(B), NEW A, NEW n
  PROVE  /\ A \subseteq B => Cardinality(A) <= Cardinality(B)
         /\ A \subseteq B \cup {n} => Cardinality(A) <= Cardinality(B) + 1
<1>1. A \subseteq B => Cardinality(A) <= Cardinality(B)
  BY FS_Subset
<1>2. ASSUME A \subseteq B \cup {n}
      PROVE  Cardinality(A) <= Cardinality(B) + 1
  <2>1. /\ IsFiniteSet(B \cup {n})
        /\ \/ Cardinality(B \cup {n}) = Cardinality(B)
           \/ Cardinality(B \cup {n}) = Cardinality(B) + 1
    BY FS_AddElement
  <2>2. IsFiniteSet(A) /\ Cardinality(A) <= Cardinality(B \cup {n})
    BY <1>2, <2>1, FS_Subset
  <2>3. Cardinality(A) \in Nat /\ Cardinality(B) \in Nat
    BY <2>2, FS_CardinalityType
  <2>. QED BY <2>1, <2>2, <2>3
<1>. QED BY <1>1, <1>2

(* A record that is in a text is in every longer one, and in the text it   *)
(* has been added to.                                                      *)
LEMMA HoldsLonger ==
  ASSUME NEW w \in Seq(Parts), NEW v, NEW x, Len(v) \in Nat,
         Len(w) <= Len(v), \A i \in 1 .. Len(w) : v[i] = w[i], Holds(w, x)
  PROVE  Holds(v, x)
<1>1. PICK i \in 1 .. Len(w) :
        /\ i + 2 <= Len(w)
        /\ w[i] = Part(x, 1) /\ w[i + 1] = Part(x, 2) /\ w[i + 2] = Part(x, 3)
  BY DEF Holds
<1>2. Len(w) \in Nat
  BY LenProperties
<1>3. /\ i \in 1 .. Len(w) /\ i + 1 \in 1 .. Len(w) /\ i + 2 \in 1 .. Len(w)
      /\ i \in 1 .. Len(v) /\ i + 2 <= Len(v)
  BY <1>1, <1>2
<1>. QED BY <1>1, <1>3 DEF Holds

LEMMA HoldsNew ==
  ASSUME NEW w \in Seq(Parts), NEW v, NEW x, IsGrown(v, w, x)
  PROVE  Holds(v, x)
<1>1. Len(w) \in Nat /\ Len(v) = Len(w) + 3
  BY LenProperties DEF IsGrown
<1>2. PICK i : i = Len(w) + 1
  OBVIOUS
<1>3. /\ i \in 1 .. Len(v) /\ i + 2 <= Len(v)
      /\ i + 1 = Len(w) + 2 /\ i + 2 = Len(w) + 3
  BY <1>1, <1>2
<1>. QED BY <1>2, <1>3 DEF Holds, IsGrown
-----------------------------------------------------------------------------
(* Every step keeps the invariants of the text.                            *)

(* What a step does to the text, by its parts. *)
LEMMA TextLooks ==
  ASSUME TypeOK, TypeOK', DownIsEmpty, [Next]_vars
  PROVE  /\ Text \in Seq(Parts) /\ Text' \in Seq(Parts)
         /\ cuts' = cuts \/ cuts' = cuts + 1
         /\ \/ Text' = Text
            \/ /\ WriteLine /\ batch[place] \in Reports
               /\ IsGrown(Text', Text, batch[place])
            \/ \E n \in 0 .. Len(Text) :
                 /\ IsCut(Text', Text, n)
                 /\ n < Len(Text) => Text[n + 1].part = 1 \/ cuts' = cuts + 1
<1>1. Text \in Seq(Parts)
  BY Wholes
<1>2. Text' \in Seq(Parts)
  BY ConcatProperties DEF TypeOK, FileOK, Text
<1>3. /\ \/ Text' = Text
         \/ WriteLine /\ Text' = Text \o Record(batch[place])
         \/ \E n \in 0 .. Len(Text) : Cut(n)
      /\ cuts' = cuts \/ cuts' = cuts + 1
  BY TextStep
<1>4. ASSUME WriteLine, Text' = Text \o Record(batch[place])
      PROVE  batch[place] \in Reports /\ IsGrown(Text', Text, batch[place])
  <2>1. batch[place] \in Reports
    BY <1>4, BatchType DEF WriteLine, TypeOK
  <2>2. IsGrown(Text \o Record(batch[place]), Text, batch[place])
    BY <1>1, <2>1, Grown DEF IsGrown
  <2>. QED BY <1>4, <2>1, <2>2
<1>5. ASSUME NEW n \in 0 .. Len(Text), Cut(n)
      PROVE  IsCut(Text', Text, n)
  <2>1. IsCut(SubSeq(Text, 1, n), Text, n)
    BY <1>1, <1>5, Beginning DEF IsCut
  <2>. QED BY <1>5, <2>1 DEF Cut
<1>6. \A n \in 0 .. Len(Text) : Cut(n) =>
        /\ IsCut(Text', Text, n)
        /\ n < Len(Text) => Text[n + 1].part = 1 \/ cuts' = cuts + 1
  BY <1>5 DEF Cut
<1>. QED BY <1>1, <1>2, <1>3, <1>4, <1>6

(* The numbers of the batch at hand. *)
LEMMA Numbers ==
  ASSUME TypeOK
  PROVE  /\ given \in Nat /\ cuts \in Nat /\ Len(batch) \in Nat
         /\ place \in Nat /\ 1 <= place /\ place <= Len(batch) + 1
         /\ DOMAIN batch = 1 .. Len(batch)
<1>1. Len(batch) \in Nat /\ DOMAIN batch = 1 .. Len(batch)
  BY LenProperties DEF TypeOK, BatchOK
<1>2. place \in 1 .. Len(batch) + 1
  BY DEF TypeOK, BatchOK
<1>3. given \in 0 .. MaxReports /\ cuts \in 0 .. MaxCuts
  BY DEF TypeOK, SessionOK
<1>4. MaxReports \in Nat /\ MaxCuts \in Nat
  BY StoresAssumption DEF StoresAssumption
<1>. QED BY <1>1, <1>2, <1>3, <1>4

(* A batch is of the latest reports when it is handed over, and as long as *)
(* it is written.                                                          *)
LEMMA LatestStep ==
  TypeOK /\ BatchIsLatest /\ [Next]_vars => BatchIsLatest'
<1>. SUFFICES ASSUME TypeOK, BatchIsLatest, [Next]_vars PROVE BatchIsLatest'
  OBVIOUS
<1>1. CASE UNCHANGED <<batch, given>>
           /\ (proc' \in {"writing lines", "writing rows"}
                 => proc \in {"writing lines", "writing rows"})
  BY <1>1 DEF BatchIsLatest
<1>2. ASSUME NEW n \in BatchSizes, NewBatch(n) PROVE BatchIsLatest'
  <2>1. n \in Nat /\ given \in Nat
    BY Numbers, StoresAssumption DEF StoresAssumption
  <2>2. PICK b : b = [i \in 1 .. n |-> given + i]
    OBVIOUS
  <2>3. Len(b) = n /\ \A i \in 1 .. n : b[i] = given + i
    BY <2>1, <2>2
  <2>4. given' = given + n /\ batch' = b
    BY <1>2, <2>2 DEF NewBatch
  <2>5. n <= given + n /\ (given + n) - n = given
    BY <2>1
  <2>. QED BY <2>3, <2>4, <2>5 DEF BatchIsLatest
<1>. QED
  BY <1>1, <1>2
  DEF Next, Opening, Writing, Open, CreateTable, AddColumn, Opened, WriteLine,
      Spill, Flushed, LinesFail, WriteRow, Commit, RowsFail, Close, Kill, vars

(* What the marks are while the process is where it is. *)
LEMMA Marks ==
  /\ proc = "writing lines" =>
       /\ LineMark = (given - Len(batch)) + (place - 1)
       /\ RowMark = given - Len(batch)
  /\ proc = "writing rows" =>
       /\ LineMark = given
       /\ RowMark = (given - Len(batch)) + (place - 1)
  /\ proc \notin {"writing lines", "writing rows"} =>
       LineMark = given /\ RowMark = given
BY DEF LineMark, RowMark

(* The marks only go up, and the report written is the one at the mark.    *)
LEMMA MarkStep ==
  ASSUME TypeOK, TypeOK', BatchIsLatest, [Next]_vars
  PROVE  /\ LineMark \in Int /\ LineMark' \in Int /\ LineMark <= LineMark'
         /\ RowMark \in Int /\ RowMark' \in Int /\ RowMark <= RowMark'
         /\ WriteLine => LineMark < batch[place] /\ batch[place] = LineMark'
         /\ WriteRow => RowMark < batch[place] /\ batch[place] = RowMark'
<1>0. /\ given \in Nat /\ Len(batch) \in Nat /\ place \in Nat
      /\ 1 <= place /\ place <= Len(batch) + 1
  BY Numbers
<1>t. /\ LineMark \in Int /\ RowMark \in Int
      /\ LineMark <= given /\ RowMark <= given
  <2>1. PICK l \in Nat, p \in Nat, g \in Nat :
          /\ l = Len(batch) /\ p = place /\ g = given
          /\ 1 <= p /\ p <= l + 1
    BY <1>0
  <2>2. /\ (g - l) + (p - 1) \in Int /\ (g - l) + (p - 1) <= g
        /\ g - l \in Int /\ g - l <= g /\ g \in Int /\ g <= g
    BY <2>1
  <2>3. /\ LineMark \in {(g - l) + (p - 1), g}
        /\ RowMark \in {g - l, (g - l) + (p - 1), g}
    BY <2>1, Marks
  <2>. QED BY <2>1, <2>2, <2>3
<1>m. /\ proc' = "writing lines" =>
           /\ LineMark' = (given' - Len(batch')) + (place' - 1)
           /\ RowMark' = given' - Len(batch')
      /\ proc' = "writing rows" =>
           /\ LineMark' = given'
           /\ RowMark' = (given' - Len(batch')) + (place' - 1)
  BY DEF LineMark, RowMark
<1>1. ASSUME UNCHANGED <<proc, batch, place, given>>
      PROVE  /\ LineMark' \in Int /\ LineMark <= LineMark'
             /\ RowMark' \in Int /\ RowMark <= RowMark'
  <2>1. LineMark' = LineMark /\ RowMark' = RowMark
    BY <1>1 DEF LineMark, RowMark
  <2>. QED BY <1>t, <2>1
<1>2. ASSUME proc' \notin {"writing lines", "writing rows"}, given' = given
      PROVE  /\ LineMark' \in Int /\ LineMark <= LineMark'
             /\ RowMark' \in Int /\ RowMark <= RowMark'
  <2>1. LineMark' = given /\ RowMark' = given
    BY <1>2 DEF LineMark, RowMark
  <2>. QED BY <1>0, <1>t, <2>1
<1>3. ASSUME NEW n \in BatchSizes, NewBatch(n)
      PROVE  /\ LineMark \in Int /\ LineMark' = LineMark
             /\ RowMark \in Int /\ RowMark' = RowMark
  <2>1. n \in Nat
    BY StoresAssumption DEF StoresAssumption
  <2>2. PICK b : b = [i \in 1 .. n |-> given + i]
    OBVIOUS
  <2>3. Len(b) = n
    BY <2>1, <2>2
  <2>4. /\ given' = given + n /\ batch' = b /\ place' = 1
        /\ proc = "ready" /\ proc' = "writing lines"
    BY <1>3, <2>2 DEF NewBatch
  <2>5. LineMark = given /\ RowMark = given
    BY <2>4, Marks
  <2>6. /\ LineMark' = ((given + n) - n) + (1 - 1)
        /\ RowMark' = (given + n) - n
    BY <1>m, <2>3, <2>4
  <2>. QED BY <1>0, <2>1, <2>5, <2>6
<1>4. CASE WriteLine
  <2>1. /\ proc = "writing lines" /\ proc' = proc /\ batch' = batch
        /\ place' = place + 1 /\ given' = given /\ place <= Len(batch)
    BY <1>4 DEF WriteLine
  <2>2. batch[place] = (given - Len(batch)) + place
    <3>1. \A i \in 1 .. Len(batch) : batch[i] = (given - Len(batch)) + i
      BY <2>1 DEF BatchIsLatest
    <3>2. place <= Len(batch)
      BY <2>1
    <3>3. place \in Int /\ Len(batch) \in Int /\ 1 <= place
      BY <1>0
    <3>4. place \in 1 .. Len(batch)
      BY <3>2, <3>3
    <3>. QED BY <3>1, <3>4
  <2>3. ~WriteRow
    BY <2>1 DEF WriteRow
  <2>4. /\ LineMark = (given - Len(batch)) + (place - 1)
        /\ RowMark = given - Len(batch)
    BY <2>1, Marks
  <2>5. /\ LineMark' = (given - Len(batch)) + ((place + 1) - 1)
        /\ RowMark' = given - Len(batch)
    BY <1>m, <2>1
  <2>. QED BY <1>0, <2>2, <2>3, <2>4, <2>5
<1>5. CASE Flushed \/ LinesFail
  <2>1. /\ proc = "writing lines" /\ proc' = "writing rows" /\ batch' = batch
        /\ place' = 1 /\ given' = given
    BY <1>5 DEF Flushed, LinesFail
  <2>2. ~WriteLine /\ ~WriteRow
    BY <2>1 DEF WriteLine, WriteRow
  <2>3. /\ LineMark = (given - Len(batch)) + (place - 1)
        /\ RowMark = given - Len(batch)
    BY <2>1, Marks
  <2>4. /\ LineMark' = given
        /\ RowMark' = (given - Len(batch)) + (1 - 1)
    BY <1>m, <2>1
  <2>. QED BY <1>0, <2>2, <2>3, <2>4
<1>6. CASE WriteRow
  <2>1. /\ proc = "writing rows" /\ proc' = proc /\ batch' = batch
        /\ place' = place + 1 /\ given' = given /\ place <= Len(batch)
    BY <1>6 DEF WriteRow
  <2>2. batch[place] = (given - Len(batch)) + place
    <3>1. \A i \in 1 .. Len(batch) : batch[i] = (given - Len(batch)) + i
      BY <2>1 DEF BatchIsLatest
    <3>2. place <= Len(batch)
      BY <2>1
    <3>3. place \in Int /\ Len(batch) \in Int /\ 1 <= place
      BY <1>0
    <3>4. place \in 1 .. Len(batch)
      BY <3>2, <3>3
    <3>. QED BY <3>1, <3>4
  <2>3. ~WriteLine
    BY <2>1 DEF WriteLine
  <2>4. /\ LineMark = given
        /\ RowMark = (given - Len(batch)) + (place - 1)
    BY <2>1, Marks
  <2>5. /\ LineMark' = given
        /\ RowMark' = (given - Len(batch)) + ((place + 1) - 1)
    BY <1>m, <2>1
  <2>. QED BY <1>0, <2>2, <2>3, <2>4, <2>5
<1>7. CASE Open \/ CreateTable \/ Opened \/ Commit \/ RowsFail \/ Close \/ Kill
  <2>1. /\ proc' \notin {"writing lines", "writing rows"} /\ given' = given
        /\ (proc' # proc)
    BY <1>7 DEF Open, CreateTable, Opened, Commit, RowsFail, Close, Kill
  <2>2. ~WriteLine /\ ~WriteRow
    BY <2>1 DEF WriteLine, WriteRow
  <2>. QED BY <1>t, <1>2, <2>1, <2>2
<1>8. CASE AddColumn \/ Spill
  <2>1. UNCHANGED <<proc, batch, place, given>>
    BY <1>8 DEF AddColumn, Spill
  <2>2. place' # place + 1
    BY <1>0, <2>1
  <2>3. ~WriteLine /\ ~WriteRow
    BY <2>2 DEF WriteLine, WriteRow
  <2>. QED BY <1>t, <1>1, <2>1, <2>3
<1>9. CASE UNCHANGED vars
  <2>1. UNCHANGED <<proc, batch, place, given>>
    BY <1>9 DEF vars
  <2>2. place' # place + 1
    BY <1>0, <2>1
  <2>3. ~WriteLine /\ ~WriteRow
    BY <2>2 DEF WriteLine, WriteRow
  <2>. QED BY <1>t, <1>1, <2>1, <2>3
<1>. QED
  <2>1. \/ \E n \in BatchSizes : NewBatch(n)
        \/ WriteLine \/ Flushed \/ LinesFail \/ WriteRow
        \/ Open \/ CreateTable \/ Opened \/ Commit \/ RowsFail \/ Close \/ Kill
        \/ AddColumn \/ Spill \/ UNCHANGED vars
    BY DEF Next, Opening, Writing
  <2>2. ASSUME \E n \in BatchSizes : NewBatch(n)
        PROVE  ~WriteLine /\ ~WriteRow
    BY <2>2 DEF NewBatch, WriteLine, WriteRow
  <2>3. ASSUME NEW n \in BatchSizes, NewBatch(n)
        PROVE  /\ LineMark \in Int /\ LineMark' \in Int /\ LineMark <= LineMark'
               /\ RowMark \in Int /\ RowMark' \in Int /\ RowMark <= RowMark'
    BY <1>3, <2>3
  <2>. QED BY <2>1, <2>2, <2>3, <1>4, <1>5, <1>6, <1>7, <1>8, <1>9

(* The text stays in order,                                                *)
LEMMA InOrderStep ==
  ASSUME TypeOK, TypeOK', DownIsEmpty, BatchIsLatest, TextInOrder, [Next]_vars
  PROVE  TextInOrder'
<1>1. /\ Text \in Seq(Parts) /\ Text' \in Seq(Parts)
      /\ \/ Text' = Text
         \/ /\ WriteLine /\ batch[place] \in Reports
            /\ IsGrown(Text', Text, batch[place])
         \/ \E n \in 0 .. Len(Text) : IsCut(Text', Text, n)
  BY TextLooks
<1>2. /\ LineMark \in Int /\ LineMark' \in Int /\ LineMark <= LineMark'
      /\ WriteLine => LineMark < batch[place] /\ batch[place] = LineMark'
  BY MarkStep
<1>3. InOrder(Text, LineMark)
  BY DEF TextInOrder
<1>4. CASE Text' = Text
  <2>1. InOrder(Text, LineMark')
    BY <1>1, <1>2, <1>3, OrderLater
  <2>. QED BY <1>4, <2>1 DEF TextInOrder
<1>5. CASE WriteLine /\ batch[place] \in Reports
           /\ IsGrown(Text', Text, batch[place])
  <2>1. batch[place] \in Nat
    BY <1>5, StoresAssumption DEF StoresAssumption, Reports
  <2>2. InOrder(Text', batch[place])
    BY <1>1, <1>2, <1>3, <1>5, <2>1, OrderOfGrown
  <2>. QED BY <1>2, <1>5, <2>2 DEF TextInOrder
<1>6. ASSUME NEW n \in 0 .. Len(Text), IsCut(Text', Text, n)
      PROVE  TextInOrder'
  <2>1. InOrder(Text', LineMark)
    BY <1>1, <1>3, <1>6, OrderOfCut
  <2>2. InOrder(Text', LineMark')
    BY <1>1, <1>2, <2>1, OrderLater
  <2>. QED BY <2>2 DEF TextInOrder
<1>. QED BY <1>1, <1>4, <1>5, <1>6

(* well formed,                                                            *)
LEMMA FormStep ==
  ASSUME TypeOK, TypeOK', DownIsEmpty, TextIsWellFormed, [Next]_vars
  PROVE  TextIsWellFormed'
<1>1. /\ Text \in Seq(Parts) /\ Text' \in Seq(Parts)
      /\ \/ Text' = Text
         \/ batch[place] \in Reports /\ IsGrown(Text', Text, batch[place])
         \/ \E n \in 0 .. Len(Text) : IsCut(Text', Text, n)
  BY TextLooks
<1>2. Reports \subseteq Nat
  BY StoresAssumption DEF StoresAssumption, Reports
<1>3. WellFormed(Text)
  BY DEF TextIsWellFormed
<1>4. CASE Text' = Text
  BY <1>3, <1>4 DEF TextIsWellFormed
<1>5. CASE batch[place] \in Reports /\ IsGrown(Text', Text, batch[place])
  <2>1. WellFormed(Text')
    BY <1>1, <1>2, <1>3, <1>5, FormOfGrown
  <2>. QED BY <2>1 DEF TextIsWellFormed
<1>6. ASSUME NEW n \in 0 .. Len(Text), IsCut(Text', Text, n)
      PROVE  TextIsWellFormed'
  <2>1. WellFormed(Text')
    BY <1>1, <1>3, <1>6, FormOfCut
  <2>. QED BY <2>1 DEF TextIsWellFormed
<1>. QED BY <1>1, <1>4, <1>5, <1>6

(* and with no more breaks than sessions that were cut short.              *)
LEMMA BreaksStep ==
  ASSUME TypeOK, TypeOK', DownIsEmpty, BreaksAreCounted, [Next]_vars
  PROVE  BreaksAreCounted'
<1>1. /\ Text \in Seq(Parts) /\ Text' \in Seq(Parts)
      /\ cuts' = cuts \/ cuts' = cuts + 1
      /\ \/ Text' = Text
         \/ batch[place] \in Reports /\ IsGrown(Text', Text, batch[place])
         \/ \E n \in 0 .. Len(Text) :
              /\ IsCut(Text', Text, n)
              /\ n < Len(Text) => Text[n + 1].part = 1 \/ cuts' = cuts + 1
  BY TextLooks
<1>2. IsFiniteSet(Broken(Text)) /\ Cardinality(Broken(Text)) \in Nat
  BY <1>1, CountedBreaks
<1>3. Cardinality(Broken(Text')) \in Nat
  BY <1>1, CountedBreaks
<1>4. cuts \in Nat /\ Cardinality(Broken(Text)) <= cuts
  BY Numbers DEF BreaksAreCounted
<1>5. ASSUME Broken(Text') \subseteq Broken(Text)
      PROVE  BreaksAreCounted'
  <2>1. Cardinality(Broken(Text')) <= Cardinality(Broken(Text))
    BY <1>2, <1>5, OneMore
  <2>2. Cardinality(Broken(Text')) <= cuts'
    BY <1>1, <1>2, <1>3, <1>4, <2>1
  <2>. QED BY <2>2 DEF BreaksAreCounted
<1>6. ASSUME NEW n, Broken(Text') \subseteq Broken(Text) \cup {n},
             cuts' = cuts + 1
      PROVE  BreaksAreCounted'
  <2>1. Cardinality(Broken(Text')) <= Cardinality(Broken(Text)) + 1
    BY <1>2, <1>6, OneMore
  <2>2. Cardinality(Broken(Text')) <= cuts'
    BY <1>2, <1>3, <1>4, <1>6, <2>1
  <2>. QED BY <2>2 DEF BreaksAreCounted
<1>7. CASE Text' = Text
  BY <1>5, <1>7
<1>8. CASE batch[place] \in Reports /\ IsGrown(Text', Text, batch[place])
  <2>1. batch[place] \in Nat
    BY <1>8, StoresAssumption DEF StoresAssumption, Reports
  <2>2. Broken(Text') = Broken(Text)
    BY <1>1, <1>8, <2>1, BrokenOfGrown
  <2>. QED BY <1>5, <2>2
<1>9. ASSUME NEW n \in 0 .. Len(Text), IsCut(Text', Text, n),
             n < Len(Text) => Text[n + 1].part = 1 \/ cuts' = cuts + 1
      PROVE  BreaksAreCounted'
  <2>1. /\ Broken(Text') \subseteq Broken(Text) \cup {n}
        /\ (n < Len(Text) => Text[n + 1].part = 1)
             => Broken(Text') \subseteq Broken(Text)
    BY <1>1, <1>9, BrokenOfCut
  <2>. QED BY <1>5, <1>6, <1>9, <2>1
<1>. QED BY <1>1, <1>7, <1>8, <1>9
(* A process that is down has no buffer.                                   *)
LEMMA DownStep == DownIsEmpty /\ [Next]_vars => DownIsEmpty'
BY DEF DownIsEmpty, Next, Opening, Writing, Open, CreateTable, AddColumn,
       Opened, NewBatch, WriteLine, Spill, Flushed, LinesFail, WriteRow,
       Commit, RowsFail, Close, Kill, vars, jsonlVars

(* The file stays as it is or grows by what leaves the buffer, and a flush *)
(* leaves nothing there.                                                   *)
LEMMA FileGrows ==
  ASSUME TypeOK, TypeOK', [Next]_vars
  PROVE  /\ file \in Seq(Parts) /\ Len(file') \in Nat
         /\ Len(file) <= Len(file')
         /\ \A i \in 1 .. Len(file) : file'[i] = file[i]
         /\ Flushed => file' = Text
<1>1. /\ file \in Seq(Parts) /\ file' \in Seq(Parts) /\ buffer \in Seq(Parts)
      /\ Len(file) \in Nat /\ Len(file') \in Nat
  BY LenProperties DEF TypeOK, FileOK
<1>2. ASSUME NEW n \in 0 .. Len(buffer), file' = file \o SubSeq(buffer, 1, n)
      PROVE  /\ Len(file) <= Len(file')
             /\ \A i \in 1 .. Len(file) : file'[i] = file[i]
  <2>1. PICK p : p = SubSeq(buffer, 1, n) /\ p \in Seq(Parts)
    BY <1>1, Beginning
  <2>2. /\ Len(file \o p) = Len(file) + Len(p) /\ Len(p) \in Nat
        /\ \A i \in 1 .. Len(file) + Len(p) : (file \o p)[i] =
             IF i <= Len(file) THEN file[i] ELSE p[i - Len(file)]
    BY <1>1, <2>1, ConcatProperties, LenProperties
  <2>3. Len(file) <= Len(file \o p)
    BY <1>1, <2>2
  <2>4. \A i \in 1 .. Len(file) : (file \o p)[i] = file[i]
    BY <1>1, <2>2
  <2>. QED BY <1>2, <2>1, <2>3, <2>4
<1>3. CASE file' = file
  <2>1. ASSUME Flushed PROVE file' = Text
    <3>1. file' = file \o SubSeq(buffer, 1, Len(buffer))
      BY <2>1 DEF Flushed, Reaches
    <3>. QED BY <1>1, <3>1, SubSeqFull DEF Text
  <2>. QED BY <1>1, <1>3, <2>1
<1>4. CASE Flushed
  <2>1. /\ file' = file \o SubSeq(buffer, 1, Len(buffer))
        /\ Len(buffer) \in 0 .. Len(buffer)
    BY <1>4 DEF Flushed, Reaches
  <2>2. file' = Text
    BY <1>1, <2>1, SubSeqFull DEF Text
  <2>. QED BY <1>1, <1>2, <2>1, <2>2
<1>5. CASE Spill
  <2>1. PICK n \in 0 .. Len(buffer) : file' = file \o SubSeq(buffer, 1, n)
    BY <1>5 DEF Spill, Reaches
  <2>2. ~Flushed
    BY <1>1, <1>5 DEF Spill, Flushed
  <2>. QED BY <1>1, <1>2, <2>1, <2>2
<1>6. CASE Close
  <2>1. PICK n \in 0 .. Len(buffer) : file' = file \o SubSeq(buffer, 1, n)
    BY <1>6 DEF Close
  <2>2. ~Flushed
    BY <1>6 DEF Close, Flushed
  <2>. QED BY <1>1, <1>2, <2>1, <2>2
<1>. QED
  BY <1>3, <1>4, <1>5, <1>6
  DEF Next, Opening, Writing, Open, CreateTable, AddColumn, Opened, NewBatch,
      WriteLine, LinesFail, WriteRow, Commit, RowsFail, Kill, vars, jsonlVars

(* A batch is written record by record, and what has been flushed is in    *)
(* the file for good.                                                      *)
LEMMA LinesStep ==
  ASSUME TypeOK, TypeOK', DownIsEmpty, LinesAreWritten, [Next]_vars
  PROVE  LinesAreWritten'
<1>0. /\ Len(batch) \in Nat /\ place \in Nat /\ DOMAIN batch = 1 .. Len(batch)
      /\ 1 <= place
  BY Numbers
<1>1. /\ file \in Seq(Parts) /\ Len(file') \in Nat
      /\ Len(file) <= Len(file')
      /\ \A i \in 1 .. Len(file) : file'[i] = file[i]
      /\ Flushed => file' = Text
  BY FileGrows
<1>2. \A x \in lines : Holds(file', x)
  <2>. TAKE x \in lines
  <2>1. Holds(file, x)
    BY DEF LinesAreWritten
  <2>. QED BY <1>1, <2>1, HoldsLonger
<1>3. \A x \in lines' : Holds(file', x)
  <2>1. CASE lines' = lines
    BY <1>2, <2>1
  <2>2. CASE Flushed
    <3>1. /\ proc = "writing lines" /\ place > Len(batch)
          /\ lines' = lines \cup {batch[i] : i \in DOMAIN batch}
      BY <2>2 DEF Flushed
    <3>2. \A i \in 1 .. Len(batch) : Holds(Text, batch[i])
      <4>1. place > Len(batch)
        BY <3>1
      <4>2. \A i \in 1 .. Len(batch) : i < place
        BY <1>0, <4>1
      <4>. QED BY <3>1, <4>2 DEF LinesAreWritten
    <3>3. \A i \in DOMAIN batch : Holds(file', batch[i])
      BY <1>0, <1>1, <2>2, <3>2
    <3>. QED BY <1>2, <3>1, <3>3
  <2>. QED
    BY <2>1, <2>2
    DEF Next, Opening, Writing, Open, CreateTable, AddColumn, Opened,
        NewBatch, WriteLine, Spill, LinesFail, WriteRow, Commit, RowsFail,
        Close, Kill, vars, jsonlVars
<1>4. ASSUME proc' = "writing lines", NEW i \in 1 .. Len(batch'), i < place'
      PROVE  Holds(Text', batch'[i])
  <2>0. Len(batch') \in Nat
    BY LenProperties DEF TypeOK, BatchOK
  <2>1. Text \in Seq(Parts) /\ Text' \in Seq(Parts)
    BY TextLooks
  <2>2. CASE WriteLine
    <3>1. /\ proc = "writing lines" /\ batch' = batch /\ place' = place + 1
          /\ place <= Len(batch)
      BY <2>2 DEF WriteLine
    <3>2. IsGrown(Text', Text, batch[place])
      <4>1. batch[place] \in Reports
        BY <3>1, BatchType DEF TypeOK
      <4>2. Record(batch[place]) \in Seq(Parts)
        BY <4>1, RecordType
      <4>3. Text' = Text \o Record(batch[place])
        <5>1. PICK t \in Seq(Parts) : t = Record(batch[place])
          BY <4>2
        <5>2. file \in Seq(Parts) /\ buffer \in Seq(Parts)
          BY DEF TypeOK, FileOK
        <5>3. (file \o buffer) \o t = file \o (buffer \o t)
          BY <5>2, ConcatAssociative
        <5>4. file' = file /\ buffer' = buffer \o t
          BY <2>2, <5>1 DEF WriteLine
        <5>. QED BY <5>1, <5>3, <5>4 DEF Text
      <4>. QED BY <2>1, <4>1, <4>3, Grown DEF IsGrown
    <3>3. CASE i = place
      BY <2>1, <3>1, <3>2, <3>3, HoldsNew
    <3>4. CASE i < place
      <4>1. Holds(Text, batch[i])
        BY <1>4, <3>1, <3>4 DEF LinesAreWritten
      <4>2. /\ Len(Text') \in Nat /\ Len(Text) <= Len(Text')
            /\ \A j \in 1 .. Len(Text) : Text'[j] = Text[j]
        BY <2>1, <3>2, LenProperties DEF IsGrown
      <4>3. Holds(Text', batch[i])
        BY <2>1, <4>1, <4>2, HoldsLonger
      <4>. QED BY <3>1, <4>3
    <3>5. i = place \/ i < place
      <4>1. i \in Nat
        BY <2>0
      <4>2. i < place + 1
        BY <1>4, <3>1
      <4>. QED BY <1>0, <4>1, <4>2
    <3>. QED BY <3>3, <3>4, <3>5
  <2>3. CASE UNCHANGED <<proc, batch, place>> /\ Text' = Text
    BY <1>4, <2>3 DEF LinesAreWritten
  <2>4. CASE Spill
    <3>1. PICK n : Reaches(n)
      BY <2>4 DEF Spill
    <3>2. Text' = Text
      BY <3>1, MoveKeepsWhole DEF Reaches, Text, TypeOK, FileOK
    <3>. QED BY <2>3, <2>4, <3>2 DEF Spill
  <2>5. CASE place' = 1
    <3>1. i \in Nat /\ 1 <= i
      BY <2>0
    <3>2. i < 1
      BY <1>4, <2>5
    <3>. QED BY <3>1, <3>2
  <2>. QED
    BY <1>4, <2>2, <2>3, <2>4, <2>5
    DEF Next, Opening, Writing, Open, CreateTable, AddColumn, Opened,
        NewBatch, Flushed, LinesFail, WriteRow, Commit, RowsFail, Close, Kill,
        vars, jsonlVars, Text
<1>. QED BY <1>3, <1>4 DEF LinesAreWritten

-----------------------------------------------------------------------------
(* Every step keeps the invariants of the rows.                            *)

LEMMA RisingOfAppend ==
  ASSUME NEW s \in Seq(Reports), NEW r \in Reports, NEW m \in Int,
         Rising(s, m), m < r
  PROVE  Rising(Append(s, r), r)
<1>1. PICK v : /\ v = Append(s, r) /\ Len(v) = Len(s) + 1 /\ v[Len(s) + 1] = r
               /\ \A i \in 1 .. Len(s) : v[i] = s[i]
  <2>1. /\ Len(Append(s, r)) = Len(s) + 1
        /\ \A i \in 1 .. Len(s) : Append(s, r)[i] = s[i]
        /\ Append(s, r)[Len(s) + 1] = r
    BY AppendProperties
  <2>. QED BY <2>1
<1>2. Len(s) \in Nat /\ r \in Nat
  BY LenProperties, StoresAssumption DEF StoresAssumption, Reports
<1>3. \A i \in 1 .. Len(s) : s[i] \in Nat /\ s[i] <= m
  <2>1. \A i \in 1 .. Len(s) : s[i] \in Reports
    BY ElementOfSeq
  <2>2. Reports \subseteq Nat
    BY StoresAssumption DEF StoresAssumption, Reports
  <2>. QED BY <2>1, <2>2 DEF Rising
<1>4. \A i \in 1 .. Len(v) : i \in 1 .. Len(s) \/ i = Len(s) + 1
  BY <1>1, <1>2
<1>5. \A i \in 1 .. Len(s) : v[i] < r
  BY <1>1, <1>2, <1>3
<1>6. \A i \in 1 .. Len(v) : v[i] <= r
  BY <1>1, <1>2, <1>3, <1>4, <1>5
<1>7. ASSUME NEW i \in 1 .. Len(v), NEW j \in 1 .. Len(v), i < j
      PROVE  v[i] < v[j]
  <2>1. i \in 1 .. Len(s)
    BY <1>1, <1>2, <1>7
  <2>2. CASE j \in 1 .. Len(s)
    BY <1>1, <1>7, <2>1, <2>2 DEF Rising
  <2>3. CASE j = Len(s) + 1
    BY <1>1, <1>5, <2>1, <2>3
  <2>. QED BY <1>4, <2>2, <2>3
<1>. QED BY <1>1, <1>6, <1>7 DEF Rising

LEMMA RisingOfCut ==
  ASSUME NEW s \in Seq(Reports), NEW n \in 0 .. Len(s), NEW m, Rising(s, m)
  PROVE  Rising(SubSeq(s, 1, n), m)
<1>1. PICK v : /\ v = SubSeq(s, 1, n) /\ Len(v) = n
               /\ \A i \in 1 .. n : v[i] = s[i]
  BY Beginning
<1>2. \A i \in 1 .. n : i \in 1 .. Len(s)
  BY LenProperties
<1>. QED BY <1>1, <1>2 DEF Rising

LEMMA RisingLater ==
  ASSUME NEW s \in Seq(Reports), NEW m \in Int, NEW k \in Int, m <= k,
         Rising(s, m)
  PROVE  Rising(s, k)
<1>1. \A i \in 1 .. Len(s) : s[i] \in Nat
  <2>1. \A i \in 1 .. Len(s) : s[i] \in Reports
    BY ElementOfSeq
  <2>2. Reports \subseteq Nat
    BY StoresAssumption DEF StoresAssumption, Reports
  <2>. QED BY <2>1, <2>2
<1>2. \A a \in Nat : a <= m => a <= k
  OBVIOUS
<1>. QED BY <1>1, <1>2 DEF Rising

(* The rows rise, whatever is dropped and written again. *)
LEMMA RisingStep ==
  ASSUME TypeOK, TypeOK', BatchIsLatest, RowsInOrder, [Next]_vars
  PROVE  RowsInOrder'
<1>1. Stored \in Seq(Reports)
  BY Wholes
<1>2. /\ RowMark \in Int /\ RowMark' \in Int /\ RowMark <= RowMark'
      /\ WriteRow => RowMark < batch[place] /\ batch[place] = RowMark'
  BY MarkStep
<1>3. Rising(Stored, RowMark)
  BY DEF RowsInOrder
<1>4. CASE Stored' = Stored
  <2>1. Rising(Stored, RowMark')
    BY <1>1, <1>2, <1>3, RisingLater
  <2>. QED BY <1>4, <2>1 DEF RowsInOrder
<1>5. CASE WriteRow /\ Stored' = Append(Stored, batch[place])
  <2>1. batch[place] \in Reports
    BY <1>5, BatchType DEF WriteRow, TypeOK
  <2>2. Rising(Append(Stored, batch[place]), batch[place])
    BY <1>1, <1>2, <1>3, <1>5, <2>1, RisingOfAppend
  <2>. QED BY <1>2, <1>5, <2>2 DEF RowsInOrder
<1>6. ASSUME NEW n \in 0 .. Len(Stored), Stored' = SubSeq(Stored, 1, n)
      PROVE  RowsInOrder'
  <2>1. PICK v \in Seq(Reports) : v = SubSeq(Stored, 1, n) /\ Rising(v, RowMark)
    BY <1>1, <1>3, Beginning, RisingOfCut
  <2>2. Rising(v, RowMark')
    BY <1>2, <2>1, RisingLater
  <2>. QED BY <1>6, <2>1, <2>2 DEF RowsInOrder
<1>. QED BY <1>4, <1>5, <1>6, StoredIs

(* The columns of the table are complete from the time the sink is open.   *)
LEMMA ColumnsStep == ColumnsInv /\ [Next]_vars => ColumnsInv'
<1>. SUFFICES ASSUME ColumnsInv, [Next]_vars PROVE ColumnsInv'
  OBVIOUS
<1>1. CASE Opened
  <2>1. /\ 1 \in DOMAIN AddedColumns /\ 2 \in DOMAIN AddedColumns
        /\ CurrentColumns = {AddedColumns[1], AddedColumns[2]}
    BY DEF AddedColumns, CurrentColumns
  <2>2. AddedColumns[1] \in table /\ AddedColumns[2] \in table
    BY <1>1, <2>1 DEF Opened, Missing
  <2>3. table' = table
    BY <1>1 DEF Opened, sqliteVars
  <2>. QED BY <2>1, <2>2, <2>3 DEF ColumnsInv
<1>2. CASE proc' \in {"down", "creating", "migrating"}
  BY <1>2 DEF ColumnsInv
<1>3. CASE /\ table' = table
           /\ \/ proc' = proc
              \/ proc \in {"ready", "writing lines", "writing rows"}
  BY <1>3 DEF ColumnsInv
<1>4. CASE AddColumn
  BY <1>4 DEF AddColumn, ColumnsInv
<1>. QED
  BY <1>1, <1>2, <1>3, <1>4
  DEF Next, Opening, Writing, Open, CreateTable, NewBatch, WriteLine, Spill,
      Flushed, LinesFail, WriteRow, Commit, RowsFail, Close, Kill, vars,
      sqliteVars
-----------------------------------------------------------------------------
(* The batches in the database.                                            *)

(* Nothing else is in a concatenation, *)
LEMMA OnlyConcat ==
  ASSUME NEW S, NEW s \in Seq(S), NEW t \in Seq(S)
  PROVE  Members(s \o t) \subseteq Members(s) \cup Members(t)
<1>1. PICK v : /\ v = s \o t /\ DOMAIN v = 1 .. Len(s) + Len(t)
               /\ \A i \in 1 .. Len(s) + Len(t) :
                    v[i] = IF i <= Len(s) THEN s[i] ELSE t[i - Len(s)]
  <2>1. /\ s \o t \in Seq(S) /\ Len(s \o t) = Len(s) + Len(t)
        /\ \A i \in 1 .. Len(s) + Len(t) :
             (s \o t)[i] = IF i <= Len(s) THEN s[i] ELSE t[i - Len(s)]
    BY ConcatProperties
  <2>2. DOMAIN (s \o t) = 1 .. Len(s) + Len(t)
    BY <2>1, LenProperties
  <2>. QED BY <2>1, <2>2
<1>2. /\ Len(s) \in Nat /\ DOMAIN s = 1 .. Len(s)
      /\ Len(t) \in Nat /\ DOMAIN t = 1 .. Len(t)
  BY LenProperties
<1>3. ASSUME NEW i \in DOMAIN v
      PROVE  v[i] \in Members(s) \cup Members(t)
  <2>1. CASE i <= Len(s)
    <3>1. i \in DOMAIN s /\ v[i] = s[i]
      BY <1>1, <1>2, <2>1
    <3>. QED BY <3>1 DEF Members
  <2>2. CASE ~(i <= Len(s))
    <3>1. i - Len(s) \in DOMAIN t /\ v[i] = t[i - Len(s)]
      BY <1>1, <1>2, <2>2
    <3>. QED BY <3>1 DEF Members
  <2>. QED BY <2>1, <2>2
<1>. QED BY <1>1, <1>3 DEF Members

(* nor after a row has been appended. *)
LEMMA OnlyAppend ==
  ASSUME NEW S, NEW s \in Seq(S), NEW e \in S
  PROVE  Members(Append(s, e)) \subseteq Members(s) \cup {e}
<1>1. PICK v : /\ v = Append(s, e) /\ DOMAIN v = 1 .. Len(s) + 1
               /\ v[Len(s) + 1] = e /\ \A i \in 1 .. Len(s) : v[i] = s[i]
  <2>1. /\ Append(s, e) \in Seq(S) /\ Len(Append(s, e)) = Len(s) + 1
        /\ \A i \in 1 .. Len(s) : Append(s, e)[i] = s[i]
        /\ Append(s, e)[Len(s) + 1] = e
    BY AppendProperties
  <2>2. DOMAIN Append(s, e) = 1 .. Len(s) + 1
    BY <2>1, LenProperties
  <2>. QED BY <2>1, <2>2
<1>2. Len(s) \in Nat /\ DOMAIN s = 1 .. Len(s)
  BY LenProperties
<1>3. \A i \in DOMAIN v : i \in DOMAIN s \/ i = Len(s) + 1
  BY <1>1, <1>2
<1>. QED BY <1>1, <1>2, <1>3 DEF Members

(* No row is beyond its mark, whichever half it is in. *)
LEMMA RowsBelow ==
  ASSUME TypeOK, RowsInOrder
  PROVE  \A x \in Members(rows) \cup Members(tx) : x \in Nat /\ x <= RowMark
<1>1. /\ rows \in Seq(Reports) /\ tx \in Seq(Reports) /\ Stored \in Seq(Reports)
      /\ \A i \in 1 .. Len(Stored) : Stored[i] \in Nat
  BY Wholes
<1>2. Members(rows) \cup Members(tx) \subseteq Members(Stored)
  BY <1>1, MembersOfConcat DEF Stored
<1>3. DOMAIN Stored = 1 .. Len(Stored)
  BY <1>1, LenProperties
<1>. QED BY <1>1, <1>2, <1>3 DEF Members, RowsInOrder, Rising

(* The reports of the batch at hand are the last that were given. *)
LEMMA AtHandIsLatest ==
  ASSUME TypeOK, BatchIsLatest, Writing2
  PROVE  \A x \in AtHand : x \in Nat /\ given - Len(batch) < x /\ x <= given
<1>1. given \in Nat /\ Len(batch) \in Nat /\ DOMAIN batch = 1 .. Len(batch)
  BY Numbers
<1>2. /\ Len(batch) <= given
      /\ \A i \in 1 .. Len(batch) : batch[i] = (given - Len(batch)) + i
  BY DEF BatchIsLatest, Writing2
<1>3. ASSUME NEW i \in 1 .. Len(batch)
      PROVE  /\ batch[i] \in Nat /\ given - Len(batch) < batch[i]
             /\ batch[i] <= given
  <2>1. PICK l \in Nat, g \in Nat : l = Len(batch) /\ g = given /\ l <= g
    BY <1>1, <1>2
  <2>2. i \in 1 .. l /\ batch[i] = (g - l) + i
    BY <1>2, <2>1
  <2>3. (g - l) + i \in Nat /\ g - l < (g - l) + i /\ (g - l) + i <= g
    BY <2>1, <2>2
  <2>. QED BY <2>1, <2>2, <2>3
<1>. QED BY <1>1, <1>3 DEF AtHand

(* The parts of BatchesInv, by name. *)
BatchesBelow == \A b \in batches : \A x \in b : x <= given
OthersBelow ==
    Writing2 => /\ AtHand \in batches
                /\ \A b \in batches : b # AtHand =>
                      \A x \in b : x <= given - Len(batch)
RowsAreOld == Writing2 => \A x \in Members(rows) : x <= given - Len(batch)
OnlyAtHand ==
    \A b \in batches \ torn :
        b \cap Members(tx) # {} => proc = "writing rows" /\ b = AtHand

(* A new batch comes after all that was given. *)
LEMMA NewBatchIs ==
  ASSUME TypeOK, NEW n \in BatchSizes, NewBatch(n)
  PROVE  /\ n \in Nat /\ given \in Nat /\ given' = given + n /\ Len(batch') = n
         /\ AtHand' = {given + i : i \in 1 .. n}
         /\ batches' = batches \cup {AtHand'}
         /\ Writing2' /\ ~Writing2 /\ RowMark = given
         /\ UNCHANGED <<tx, rows, torn>>
<1>1. n \in Nat /\ given \in Nat
  BY Numbers, StoresAssumption DEF StoresAssumption
<1>2. PICK b : b = [i \in 1 .. n |-> given + i]
  OBVIOUS
<1>3. Len(b) = n /\ DOMAIN b = 1 .. n /\ \A i \in 1 .. n : b[i] = given + i
  BY <1>1, <1>2
<1>4. batch' = b
  BY <1>2 DEF NewBatch
<1>5. AtHand' = {given + i : i \in 1 .. n}
  BY <1>3, <1>4 DEF AtHand
<1>6. batches' = batches \cup {AtHand'}
  BY <1>5 DEF NewBatch
<1>7. /\ proc = "ready" /\ proc' = "writing lines" /\ given' = given + n
      /\ UNCHANGED <<tx, rows, torn>>
  BY DEF NewBatch, sqliteVars
<1>8. RowMark = given
  BY <1>7, Marks
<1>. QED BY <1>1, <1>3, <1>4, <1>5, <1>6, <1>7, <1>8 DEF Writing2

(* The invariants of the batches: those of the handing over, *)
LEMMA NewBatchStep ==
  ASSUME TypeOK, RowsInOrder, BatchesInv, NEW n \in BatchSizes, NewBatch(n)
  PROVE  BatchesInv'
<1>1. /\ n \in Nat /\ given \in Nat /\ given' = given + n /\ Len(batch') = n
      /\ AtHand' = {given + i : i \in 1 .. n}
      /\ batches' = batches \cup {AtHand'}
      /\ Writing2' /\ ~Writing2 /\ RowMark = given
      /\ UNCHANGED <<tx, rows, torn>>
  BY NewBatchIs
<1>2. \A x \in AtHand' : x \in Nat /\ given < x /\ x <= given'
  <2>1. \A i \in 1 .. n :
          given + i \in Nat /\ given < given + i /\ given + i <= given + n
    BY <1>1
  <2>2. given' = given + n
    BY <1>1
  <2>. QED BY <1>1, <2>1, <2>2
<1>3. \A b \in batches : \A x \in b : x \in Nat /\ x <= given
  <2>1. \A b \in batches : b \subseteq Reports
    BY DEF TypeOK, HistoryOK
  <2>2. Reports \subseteq Nat
    BY StoresAssumption DEF StoresAssumption, Reports
  <2>. QED BY <2>1, <2>2 DEF BatchesInv
<1>4. BatchesBelow'
  <2>1. \A x \in Nat : x <= given => x <= given'
    BY <1>1
  <2>2. \A b \in batches : \A x \in b : x <= given'
    BY <1>3, <2>1
  <2>3. \A x \in AtHand' : x <= given'
    BY <1>2
  <2>. QED BY <1>1, <2>2, <2>3 DEF BatchesBelow
<1>5. given' - Len(batch') = given
  BY <1>1
<1>6. OthersBelow'
  BY <1>1, <1>3, <1>5 DEF OthersBelow
<1>7. RowsAreOld'
  <2>1. \A x \in Members(rows) : x <= given
    BY <1>1, RowsBelow
  <2>2. rows' = rows
    BY <1>1
  <2>. QED BY <1>5, <2>1, <2>2 DEF RowsAreOld
<1>8. OnlyAtHand'
  <2>1. \A x \in Members(tx) : x \in Nat /\ x <= given
    BY <1>1, RowsBelow
  <2>2. AtHand' \cap Members(tx) = {}
    BY <1>1, <1>2, <2>1
  <2>3. \A b \in batches \ torn : b \cap Members(tx) = {}
    BY <1>1 DEF BatchesInv, Writing2
  <2>4. tx' = tx /\ torn' = torn
    BY <1>1
  <2>. QED BY <1>1, <2>2, <2>3, <2>4 DEF OnlyAtHand
<1>. QED
  BY <1>4, <1>6, <1>7, <1>8
  DEF BatchesInv, BatchesBelow, OthersBelow, RowsAreOld, OnlyAtHand

(* those of the writing of a row,                                          *)
LEMMA RowStep ==
  ASSUME TypeOK, BatchIsLatest, BatchesInv, WriteRow
  PROVE  BatchesInv'
<1>1. /\ proc = "writing rows" /\ place <= Len(batch)
      /\ tx' = Append(tx, batch[place])
      /\ UNCHANGED <<proc, batch, rows, torn, given, batches>>
  BY DEF WriteRow
<1>2. batch[place] \in Reports /\ tx \in Seq(Reports)
  BY <1>1, BatchType DEF TypeOK, RowsOK
<1>3. Members(tx') \subseteq Members(tx) \cup {batch[place]}
  BY <1>1, <1>2, OnlyAppend
<1>4. batch[place] \in AtHand
  <2>1. DOMAIN batch = 1 .. Len(batch) /\ Len(batch) \in Nat
        /\ place \in Nat /\ 1 <= place
    BY Numbers
  <2>2. place <= Len(batch)
    BY <1>1
  <2>3. place \in DOMAIN batch
    BY <2>1, <2>2
  <2>. QED BY <2>3 DEF AtHand
<1>5. Writing2
  BY <1>1 DEF Writing2
<1>6. ASSUME NEW b \in batches, batch[place] \in b
      PROVE  b = AtHand
  <2>1. /\ batch[place] \in Nat /\ given - Len(batch) < batch[place]
        /\ given - Len(batch) \in Int
    BY <1>4, <1>5, AtHandIsLatest, Numbers
  <2>2. b # AtHand => batch[place] <= given - Len(batch)
    BY <1>5, <1>6 DEF BatchesInv
  <2>. QED BY <2>1, <2>2
<1>7. ASSUME NEW b \in batches \ torn, b \cap Members(tx') # {}
      PROVE  b = AtHand
  <2>1. b \cap Members(tx) # {} \/ batch[place] \in b
    BY <1>3, <1>7
  <2>2. b \cap Members(tx) # {} => b = AtHand
    BY DEF BatchesInv
  <2>. QED BY <1>6, <2>1, <2>2
<1>a. /\ AtHand' = AtHand /\ batch' = batch /\ proc' = proc /\ rows' = rows
      /\ torn' = torn /\ given' = given /\ batches' = batches
  BY <1>1 DEF AtHand
<1>8. OnlyAtHand'
  BY <1>1, <1>7, <1>a DEF OnlyAtHand
<1>9. BatchesBelow' /\ OthersBelow' /\ RowsAreOld'
  BY <1>a
  DEF BatchesInv, BatchesBelow, OthersBelow, RowsAreOld, Writing2
<1>. QED
  BY <1>8, <1>9
  DEF BatchesInv, BatchesBelow, OthersBelow, RowsAreOld, OnlyAtHand

(* and those of every other step.                                          *)
LEMMA BatchesStep ==
  ASSUME TypeOK, TypeOK', BatchIsLatest, RowsInOrder, BatchesInv, [Next]_vars
  PROVE  BatchesInv'
<1>e. Members(<<>>) = {}
  BY DEF Members
<1>1. CASE /\ UNCHANGED <<batch, given, batches, rows>>
           /\ torn' = torn /\ (tx' = tx \/ tx' = <<>>)
           /\ proc' = proc
  <2>1. Members(tx') \subseteq Members(tx)
    BY <1>1, <1>e
  <2>2. /\ AtHand' = AtHand /\ batch' = batch /\ proc' = proc /\ rows' = rows
        /\ torn' = torn /\ given' = given /\ batches' = batches
    BY <1>1 DEF AtHand
  <2>3. OnlyAtHand'
    <3>1. OnlyAtHand
      BY DEF BatchesInv, OnlyAtHand
    <3>. QED BY <2>1, <2>2, <3>1 DEF OnlyAtHand
  <2>4. BatchesBelow' /\ OthersBelow' /\ RowsAreOld'
    BY <2>2
    DEF BatchesInv, BatchesBelow, OthersBelow, RowsAreOld, Writing2
  <2>. QED
    BY <2>3, <2>4
    DEF BatchesInv, BatchesBelow, OthersBelow, RowsAreOld, OnlyAtHand
<1>2. CASE /\ UNCHANGED <<batch, given, batches, rows>>
           /\ torn' = torn /\ (tx' = tx \/ tx' = <<>>)
           /\ proc # "writing rows" /\ (Writing2' => Writing2)
  <2>1. Members(tx') \subseteq Members(tx)
    BY <1>2, <1>e
  <2>2. \A b \in batches \ torn : b \cap Members(tx) = {}
    BY <1>2 DEF BatchesInv
  <2>3. OnlyAtHand'
    BY <1>2, <2>1, <2>2 DEF OnlyAtHand
  <2>4. BatchesBelow' /\ OthersBelow' /\ RowsAreOld'
    BY <1>2 DEF BatchesInv, BatchesBelow, OthersBelow, RowsAreOld, AtHand
  <2>. QED
    BY <2>3, <2>4
    DEF BatchesInv, BatchesBelow, OthersBelow, RowsAreOld, OnlyAtHand
<1>3. CASE /\ UNCHANGED <<batch, given, batches>>
           /\ tx' = <<>> /\ ~Writing2'
  <2>1. Members(tx') = {}
    BY <1>3, <1>e
  <2>. QED BY <1>3, <2>1 DEF BatchesInv, Writing2
<1>4. CASE RowsFail
  <2>1. /\ torn' = torn \cup {AtHand} /\ proc = "writing rows"
        /\ proc' = "ready" /\ UNCHANGED <<batch, given, batches, tx>>
    BY <1>4 DEF RowsFail, AtHand
  <2>2. \A b \in batches' \ torn' : b \cap Members(tx') = {}
    BY <2>1 DEF BatchesInv
  <2>. QED BY <2>1, <2>2 DEF BatchesInv, Writing2
<1>5. ASSUME NEW n \in BatchSizes, NewBatch(n) PROVE BatchesInv'
  BY <1>5, NewBatchStep
<1>6. CASE WriteRow
  BY <1>6, RowStep
<1>7. CASE Open \/ CreateTable \/ Opened \/ Flushed \/ LinesFail
  BY <1>2, <1>7
  DEF Open, CreateTable, Opened, Flushed, LinesFail, sqliteVars, Writing2
<1>8. CASE Commit \/ Close \/ Kill
  BY <1>3, <1>8 DEF Commit, Close, Kill, Writing2
<1>. QED
  BY <1>1, <1>4, <1>5, <1>6, <1>7, <1>8
  DEF Next, Opening, Writing, AddColumn, WriteLine, Spill, vars, sqliteVars

(* A batch is in the database as a whole or not at all.                    *)
LEMMA WholeStep ==
  ASSUME TypeOK, RowsInOrder, BatchInTransaction, BatchesInv, BatchesAreWhole,
         [Next]_vars
  PROVE  BatchesAreWhole'
<1>r. Rows = Members(rows) /\ Rows' = Members(rows')
  BY DEF Rows, Members
<1>1. CASE UNCHANGED <<batches, rows>> /\ torn \subseteq torn'
  <2>1. Rows' = Rows
    BY <1>1 DEF Rows
  <2>. QED BY <1>1, <2>1 DEF BatchesAreWhole
<1>2. ASSUME NEW n \in BatchSizes, NewBatch(n) PROVE BatchesAreWhole'
  <2>1. /\ n \in Nat /\ given \in Nat
        /\ AtHand' = {given + i : i \in 1 .. n}
        /\ batches' = batches \cup {AtHand'} /\ RowMark = given
        /\ rows' = rows /\ torn' = torn
    BY <1>2, NewBatchIs
  <2>2. \A x \in Members(rows) : x \in Nat /\ x <= given
    BY <2>1, RowsBelow
  <2>3. \A x \in AtHand' : x \in Nat /\ given < x
    <3>1. \A i \in 1 .. n : given + i \in Nat /\ given < given + i
      BY <2>1
    <3>. QED BY <2>1, <3>1
  <2>4. AtHand' \cap Members(rows) = {}
    BY <2>1, <2>2, <2>3
  <2>5. Rows' = Rows
    BY <2>1 DEF Rows
  <2>. QED BY <1>r, <2>1, <2>4, <2>5 DEF BatchesAreWhole
<1>3. CASE Commit
  <2>1. /\ rows' = rows \o tx /\ batches' = batches /\ torn' = torn
        /\ proc = "writing rows" /\ place > Len(batch)
    BY <1>3 DEF Commit
  <2>2. Members(rows') = Members(rows) \cup Members(tx)
    BY <2>1, MembersOfConcat, OnlyConcat DEF TypeOK, RowsOK
  <2>3. AtHand \subseteq Members(tx)
    <3>1. /\ DOMAIN batch = 1 .. Len(batch) /\ Len(batch) \in Nat
          /\ place \in Nat
      BY Numbers
    <3>2. place > Len(batch)
      BY <2>1
    <3>3. \A i \in DOMAIN batch : i < place
      BY <3>1, <3>2
    <3>. QED BY <2>1, <3>3 DEF BatchInTransaction, AtHand
  <2>4. ASSUME NEW b \in batches \ torn
        PROVE  b \cap Rows' = {} \/ b \subseteq Rows'
    <3>1. CASE b = AtHand
      BY <1>r, <2>2, <2>3, <3>1
    <3>2. CASE b # AtHand
      <4>1. b \cap Members(tx) = {}
        BY <3>2 DEF BatchesInv
      <4>2. b \cap Rows = {} \/ b \subseteq Rows
        BY DEF BatchesAreWhole
      <4>. QED BY <1>r, <2>2, <4>1, <4>2
    <3>. QED BY <3>1, <3>2
  <2>. QED BY <2>1, <2>4 DEF BatchesAreWhole
<1>. QED
  BY <1>1, <1>2, <1>3
  DEF Next, Opening, Writing, Open, CreateTable, AddColumn, Opened, WriteLine,
      Spill, Flushed, LinesFail, WriteRow, RowsFail, Close, Kill, vars,
      sqliteVars
-----------------------------------------------------------------------------
(* The theorems.                                                           *)

(* The inductive invariant of the two archives. *)
StoresInv ==
    /\ TypeOK
    /\ TextInv
    /\ RowsInOrder /\ BatchInTransaction
    /\ BatchesInv /\ BatchesAreWhole
    /\ ColumnsInv

LEMMA StoresStart == Init => StoresInv
<1>. SUFFICES ASSUME Init PROVE StoresInv
  OBVIOUS
<1>1. /\ proc = "down" /\ file = <<>> /\ buffer = <<>> /\ rows = <<>>
      /\ tx = <<>> /\ cuts = 0 /\ lines = {} /\ batches = {}
  BY DEF Init
<1>2. TypeOK
  BY TypeStart
<1>3. Text = <<>> /\ Stored = <<>>
  BY <1>1 DEF Text, Stored
<1>4. Len(<<>>) = 0 /\ 1 .. 0 = {}
  OBVIOUS
<1>5. TextInOrder /\ TextIsWellFormed
  BY <1>3, <1>4 DEF TextInOrder, TextIsWellFormed, InOrder, WellFormed
<1>6. RowsInOrder
  BY <1>3, <1>4 DEF RowsInOrder, Rising
<1>7. BreaksAreCounted
  <2>1. Broken(<<>>) = {}
    BY <1>4 DEF Broken
  <2>. QED BY <1>1, <1>3, <2>1, FS_EmptySet DEF BreaksAreCounted
<1>8. BatchIsLatest /\ LinesAreWritten /\ DownIsEmpty
  BY <1>1 DEF BatchIsLatest, LinesAreWritten, DownIsEmpty
<1>9. BatchInTransaction /\ BatchesInv /\ BatchesAreWhole /\ ColumnsInv
  BY <1>1
  DEF BatchInTransaction, BatchesInv, Writing2, BatchesAreWhole, ColumnsInv
<1>. QED
  BY <1>2, <1>5, <1>6, <1>7, <1>8, <1>9 DEF StoresInv, TextInv

LEMMA StoresStep == StoresInv /\ [Next]_vars => StoresInv'
<1>. SUFFICES ASSUME StoresInv, [Next]_vars PROVE StoresInv'
  OBVIOUS
<1>1. TypeOK /\ TypeOK'
  BY SessionStep, BatchStep, FileStep, RowsStep, TableStep, HistoryStep
  DEF StoresInv, TypeOK
<1>2. TextInv'
  BY <1>1, LatestStep, InOrderStep, FormStep, BreaksStep, LinesStep, DownStep
  DEF StoresInv, TextInv
<1>3. RowsInOrder' /\ BatchInTransaction'
  BY <1>1, RisingStep, TransactionStep DEF StoresInv, TextInv
<1>4. BatchesInv' /\ BatchesAreWhole'
  BY <1>1, BatchesStep, WholeStep DEF StoresInv, TextInv
<1>5. ColumnsInv'
  BY ColumnsStep DEF StoresInv
<1>. QED BY <1>1, <1>2, <1>3, <1>4, <1>5 DEF StoresInv

LEMMA StoresInvariant == Spec => []StoresInv
BY StoresStart, StoresStep, PTL DEF Spec

(* Rows are only written to a table with every column: the columns that an *)
(* old table lacks are added before the sink is open, and none goes.       *)
THEOREM TableIsCurrent == Spec => []RowsFitTheTable
<1>1. StoresInv => RowsFitTheTable
  BY DEF StoresInv, ColumnsInv, RowsFitTheTable
<1>. QED BY <1>1, StoresInvariant, PTL

(* A kill, or a session that cannot commit, leaves no part of a batch in   *)
(* the database.                                                           *)
THEOREM BatchesStayWhole == Spec => []BatchesAreWhole
<1>1. StoresInv => BatchesAreWhole
  BY DEF StoresInv
<1>. QED BY <1>1, StoresInvariant, PTL

(* Neither store holds a report twice, or out of order.                    *)
THEOREM NothingIsTwice == Spec => []NothingTwice
<1>1. ASSUME StoresInv PROVE NothingTwice
  <2>1. /\ Text \in Seq(Parts) /\ Stored \in Seq(Reports) /\ file \in Seq(Parts)
        /\ Len(file) \in Nat /\ Len(buffer) \in Nat
        /\ Len(Text) = Len(file) + Len(buffer)
        /\ \A i \in 1 .. Len(file) : Text[i] = file[i]
    BY <1>1, Wholes DEF StoresInv
  <2>2. /\ DOMAIN Stored = 1 .. Len(Stored)
        /\ DOMAIN file = 1 .. Len(file)
        /\ \A i \in 1 .. Len(file) : i \in 1 .. Len(Text)
    BY <2>1, LenProperties
  <2>3. Ascending(rows \o tx)
    BY <1>1, <2>2 DEF StoresInv, RowsInOrder, Rising, Ascending, Stored
  <2>4. ASSUME NEW i \in DOMAIN file, NEW j \in DOMAIN file, i < j
        PROVE  Before(file[i], file[j])
    <3>1. Before(Text[i], Text[j])
      BY <1>1, <2>2, <2>4 DEF StoresInv, TextInv, TextInOrder, InOrder
    <3>. QED BY <2>1, <2>2, <3>1
  <2>. QED BY <2>3, <2>4 DEF NothingTwice, Before
<1>2. StoresInv => NothingTwice
  BY <1>1
<1>. QED BY <1>2, StoresInvariant, PTL

-----------------------------------------------------------------------------
(* How much of the file a reader loses.  A line that is no record, and a   *)
(* report that was written and is not found, each stand at a break of the  *)
(* text, and there are no more breaks than sessions that were cut short.   *)

(* A set that a function covers is no larger than the function's domain. *)
LEMMA Covered ==
  ASSUME NEW S, IsFiniteSet(S), NEW g, NEW T \in SUBSET {g[x] : x \in S}
  PROVE  IsFiniteSet(T) /\ Cardinality(T) <= Cardinality(S)
<1>1. PICK U : U = {g[x] : x \in S}
  OBVIOUS
<1>2. [x \in S |-> g[x]] \in Surjection(S, U)
  BY <1>1 DEF Surjection
<1>3. IsFiniteSet(U) /\ Cardinality(U) <= Cardinality(S)
  BY <1>2, FS_Surjection
<1>4. IsFiniteSet(T) /\ Cardinality(T) <= Cardinality(U)
  BY <1>1, <1>3, FS_Subset
<1>5. /\ Cardinality(T) \in Nat /\ Cardinality(U) \in Nat
      /\ Cardinality(S) \in Nat
  BY <1>3, <1>4, FS_CardinalityType
<1>. QED BY <1>3, <1>4, <1>5

(* What the file is: a beginning of a text that is well formed. *)
LEMMA FileIs ==
  ASSUME StoresInv
  PROVE  /\ Len(file) \in Nat /\ DOMAIN file = 1 .. Len(file)
         /\ Len(Text) \in Nat /\ Len(file) <= Len(Text)
         /\ \A i \in 1 .. Len(file) :
              /\ i \in 1 .. Len(Text) /\ Text[i] = file[i]
              /\ file[i].part \in 1 .. 3
         /\ Len(file) > 0 => file[1].part = 1
         /\ \A i \in 1 .. Len(file) :
              i < Len(file) => Follows(file[i], file[i + 1])
<1>1. /\ file \in Seq(Parts) /\ Len(file) \in Nat /\ Len(buffer) \in Nat
      /\ Len(Text) = Len(file) + Len(buffer) /\ Len(Text) \in Nat
      /\ \A i \in 1 .. Len(file) : Text[i] = file[i]
  BY Wholes DEF StoresInv
<1>2. DOMAIN file = 1 .. Len(file) /\ Len(file) <= Len(Text)
  BY <1>1, LenProperties
<1>3. \A i \in 1 .. Len(file) : i \in 1 .. Len(Text)
  BY <1>1, <1>2
<1>4. \A i \in 1 .. Len(file) : file[i].part \in 1 .. 3
  <2>1. \A i \in 1 .. Len(file) : file[i] \in Parts
    BY <1>1, ElementOfSeq
  <2>. QED BY <2>1 DEF Parts
<1>5. WellFormed(Text)
  BY DEF StoresInv, TextInv, TextIsWellFormed
<1>6. Len(file) > 0 => file[1].part = 1
  <2>. SUFFICES ASSUME Len(file) > 0 PROVE file[1].part = 1
    OBVIOUS
  <2>1. 1 \in 1 .. Len(file) /\ Len(Text) > 0
    BY <1>1, <1>2
  <2>2. Text[1].part = 1
    BY <1>5, <2>1 DEF WellFormed
  <2>. QED BY <1>1, <2>1, <2>2
<1>7. ASSUME NEW i \in 1 .. Len(file), i < Len(file)
      PROVE  Follows(file[i], file[i + 1])
  <2>1. i \in 1 .. Len(Text) /\ i < Len(Text) /\ i + 1 \in 1 .. Len(file)
    BY <1>1, <1>2, <1>7
  <2>2. Follows(Text[i], Text[i + 1])
    BY <1>5, <2>1 DEF WellFormed
  <2>. QED BY <1>1, <2>1, <2>2
<1>. QED BY <1>1, <1>2, <1>3, <1>4, <1>6, <1>7

(* A break is there when a part that is no newline is followed by a first  *)
(* part, also when the first part has only just been buffered.             *)
LEMMA BreakHere ==
  ASSUME StoresInv, NEW i \in 1 .. Len(file), file[i].part # Newline,
         \/ i < Len(file) /\ file[i + 1].part = 1
         \/ i = Len(Text)
  PROVE  i \in Broken(Text)
<1>1. /\ Len(file) \in Nat /\ Len(Text) \in Nat /\ Len(file) <= Len(Text)
      /\ \A k \in 1 .. Len(file) : k \in 1 .. Len(Text) /\ Text[k] = file[k]
  BY FileIs
<1>2. i \in 1 .. Len(Text) /\ Text[i].part # Newline
  BY <1>1
<1>3. CASE i < Len(file) /\ file[i + 1].part = 1
  <2>1. i + 1 \in 1 .. Len(file)
    BY <1>1, <1>3
  <2>2. Text[i + 1].part = 1
    BY <1>1, <1>3, <2>1
  <2>. QED BY <1>2, <2>2 DEF Broken
<1>4. CASE i = Len(Text)
  <2>1. ~(i < Len(Text))
    BY <1>1, <1>4
  <2>. QED BY <1>2, <2>1 DEF Broken
<1>. QED BY <1>3, <1>4

(* A line starts with the first part of a record. *)
LEMMA StartIsFirst ==
  ASSUME StoresInv, NEW i \in LineStarts
  PROVE  i \in 1 .. Len(file) /\ file[i].part = 1
<1>1. /\ Len(file) \in Nat /\ DOMAIN file = 1 .. Len(file)
      /\ \A k \in 1 .. Len(file) : file[k].part \in 1 .. 3
      /\ Len(file) > 0 => file[1].part = 1
      /\ \A k \in 1 .. Len(file) :
           k < Len(file) => Follows(file[k], file[k + 1])
  BY FileIs
<1>2. /\ i \in 1 .. Len(file)
      /\ i = 1 \/ file[i - 1].part = Newline
  BY <1>1 DEF LineStarts
<1>3. CASE i = 1
  BY <1>1, <1>2, <1>3
<1>4. CASE i # 1
  <2>1. i - 1 \in 1 .. Len(file) /\ i - 1 < Len(file) /\ (i - 1) + 1 = i
    BY <1>1, <1>2, <1>4
  <2>2. Follows(file[i - 1], file[i])
    BY <1>1, <2>1
  <2>3. file[i - 1].part = 3
    BY <1>2, <1>4 DEF Newline
  <2>4. file[i].part \in 1 .. 3
    BY <1>1, <1>2
  <2>. QED BY <1>2, <2>2, <2>3, <2>4 DEF Follows
<1>. QED BY <1>3, <1>4

(* A line that is no record stands before a break, in its first part or    *)
(* its second, unless it is the end of the file and may yet go on.         *)
LEMMA BadLine ==
  ASSUME StoresInv, NEW i \in LineStarts, ~IsRecord(i)
  PROVE  \/ i \in Broken(Text)
         \/ i + 1 \in Broken(Text) /\ i + 1 \notin LineStarts
         \/ i = Len(file) /\ proc # "down"
<1>1. /\ Len(file) \in Nat /\ DOMAIN file = 1 .. Len(file)
      /\ \A k \in 1 .. Len(file) : file[k].part \in 1 .. 3
      /\ \A k \in 1 .. Len(file) :
           k < Len(file) => Follows(file[k], file[k + 1])
  BY FileIs
<1>2. i \in 1 .. Len(file) /\ file[i].part = 1
  BY StartIsFirst
<1>3. CASE i = Len(file)
  <2>. SUFFICES ASSUME proc = "down" PROVE i \in Broken(Text)
    BY <1>3
  <2>1. buffer = <<>>
    BY DEF StoresInv, TextInv, DownIsEmpty
  <2>2. Len(Text) = Len(file)
    <3>1. Len(Text) = Len(file) + Len(buffer)
      BY Wholes DEF StoresInv
    <3>2. Len(buffer) = 0
      BY <2>1
    <3>. QED BY <1>1, <3>1, <3>2
  <2>. QED BY <1>2, <1>3, <2>2, BreakHere DEF Newline
<1>4. CASE i < Len(file) /\ file[i + 1].part # 2
  <2>1. i + 1 \in 1 .. Len(file)
    BY <1>1, <1>2, <1>4
  <2>2. file[i + 1].part = 1
    BY <1>1, <1>2, <1>4 DEF Follows
  <2>. QED BY <1>2, <1>4, <2>2, BreakHere DEF Newline
<1>5. CASE i < Len(file) /\ file[i + 1].part = 2
  <2>1. i + 1 \in 1 .. Len(file) /\ i + 1 \in Int
    BY <1>1, <1>2, <1>5
  <2>2. i + 2 \in DOMAIN file /\ file[i + 2].part # Newline
    BY <1>1, <1>2, <1>5, <2>1 DEF IsRecord
  <2>3. i + 1 < Len(file) /\ (i + 1) + 1 = i + 2
    BY <1>1, <1>2, <2>2
  <2>4. file[i + 2].part = 1
    <3>1. Follows(file[i + 1], file[i + 2])
      BY <1>1, <2>1, <2>3
    <3>. QED BY <1>5, <2>2, <3>1 DEF Follows, Newline
  <2>5. i + 1 \in Broken(Text)
    BY <1>5, <2>1, <2>3, <2>4, BreakHere DEF Newline
  <2>6. i + 1 \notin LineStarts
    BY <1>5, StartIsFirst
  <2>. QED BY <2>5, <2>6
<1>. QED
  <2>1. i = Len(file) \/ i < Len(file)
    <3>1. Len(file) \in Nat /\ i \in 1 .. Len(file)
      BY <1>1, <1>2
    <3>. QED BY <3>1
  <2>. QED BY <1>3, <1>4, <1>5, <2>1

(* A report that was written and cannot be read follows a break. *)
LEMMA LostLine ==
  ASSUME StoresInv, NEW x \in lines, x \notin Readable
  PROVE  \E k \in Broken(Text) : x = Text[k + 1].of
<1>1. /\ Len(file) \in Nat /\ DOMAIN file = 1 .. Len(file)
      /\ \A k \in 1 .. Len(file) : Text[k] = file[k]
  BY FileIs
<1>2. PICK i \in 1 .. Len(file) :
        /\ i + 2 <= Len(file) /\ file[i] = Part(x, 1)
        /\ file[i + 1] = Part(x, 2) /\ file[i + 2] = Part(x, 3)
  BY DEF StoresInv, TextInv, LinesAreWritten, Holds
<1>3. /\ file[i].of = x /\ file[i].part = 1
      /\ file[i + 1].part = 2 /\ file[i + 2].part = 3
  BY <1>2 DEF Part
<1>4. i + 1 \in DOMAIN file /\ i + 2 \in DOMAIN file
  BY <1>1, <1>2
<1>5. IsRecord(i)
  BY <1>3, <1>4 DEF IsRecord, Newline
<1>6. i \notin LineStarts
  BY <1>3, <1>5 DEF Readable
<1>7. i # 1 /\ file[i - 1].part # Newline
  BY <1>1, <1>6 DEF LineStarts
<1>8. PICK k : k = i - 1
  OBVIOUS
<1>9. k \in 1 .. Len(file) /\ k < Len(file) /\ k + 1 = i
  BY <1>1, <1>7, <1>8
<1>10. k \in Broken(Text)
  BY <1>3, <1>7, <1>8, <1>9, BreakHere
<1>11. Text[k + 1].of = x
  BY <1>1, <1>3, <1>9
<1>. QED BY <1>10, <1>11

(* A session that ends early costs the file one line at most that is no    *)
(* record, and one report that was written; all else can be read line by   *)
(* line, however often the process is killed and whatever the sizes of the *)
(* batches.                                                                *)
THEOREM DamageStaysBounded == Spec => []DamageIsBounded
<1>1. ASSUME StoresInv PROVE DamageIsBounded
  <2>1. Text \in Seq(Parts)
    BY <1>1, Wholes DEF StoresInv
  <2>2. PICK B : /\ B = Broken(Text) /\ IsFiniteSet(B)
                 /\ Cardinality(B) \in Nat
    BY <2>1, CountedBreaks
  <2>3. cuts \in Nat /\ Cardinality(B) <= cuts
    BY <1>1, <2>2, Numbers DEF StoresInv, TextInv, BreaksAreCounted
  <2>4. Len(file) \in Nat /\ \A i \in LineStarts : i \in 1 .. Len(file)
    BY <1>1, FileIs, StartIsFirst
  <2>5. Cardinality(lines \ Readable) <= cuts
    <3>1. PICK g : g = [k \in B |-> Text[k + 1].of]
      OBVIOUS
    <3>2. lines \ Readable \in SUBSET {g[k] : k \in B}
      BY <1>1, <2>2, <3>1, LostLine
    <3>3. /\ IsFiniteSet(lines \ Readable)
          /\ Cardinality(lines \ Readable) <= Cardinality(B)
      BY <2>2, <3>2, Covered
    <3>4. Cardinality(lines \ Readable) \in Nat
      BY <3>3, FS_CardinalityType
    <3>. QED BY <2>2, <2>3, <3>3, <3>4
  <2>6. PICK bad : bad = {i \in LineStarts : ~IsRecord(i)}
    OBVIOUS
  <2>7. PICK D \in SUBSET bad :
          \A i \in bad : i \in D <=> \/ i \in B
                                     \/ i + 1 \in B /\ i + 1 \notin LineStarts
    <3>1. {i \in bad : i \in B \/ (i + 1 \in B /\ i + 1 \notin LineStarts)}
            \in SUBSET bad
      OBVIOUS
    <3>2. \A i \in bad :
            i \in {j \in bad :
                     j \in B \/ (j + 1 \in B /\ j + 1 \notin LineStarts)}
              <=> \/ i \in B
                  \/ i + 1 \in B /\ i + 1 \notin LineStarts
      OBVIOUS
    <3>. QED BY <3>1, <3>2
  <2>8. IsFiniteSet(D) /\ Cardinality(D) <= Cardinality(B)
    <3>1. PICK g : g = [k \in B |-> IF k \in LineStarts THEN k ELSE k - 1]
      OBVIOUS
    <3>2. ASSUME NEW i \in D PROVE \E k \in B : i = g[k]
      <4>1. i \in LineStarts /\ i \in Int
        BY <2>4, <2>6, <2>7
      <4>2. CASE i \in B
        BY <3>1, <4>1, <4>2
      <4>3. CASE i + 1 \in B /\ i + 1 \notin LineStarts
        <5>1. (i + 1) - 1 = i
          BY <4>1
        <5>2. g[i + 1] = i
          BY <3>1, <4>3, <5>1
        <5>. QED BY <4>3, <5>2
      <4>. QED BY <2>7, <4>2, <4>3
    <3>3. D \in SUBSET {g[k] : k \in B}
      BY <3>2
    <3>. QED BY <2>2, <3>3, Covered
  <2>9. \A i \in bad : i \in D \/ (i = Len(file) /\ proc # "down")
    <3>. TAKE i \in bad
    <3>1. i \in LineStarts /\ ~IsRecord(i)
      BY <2>6
    <3>2. \/ i \in B
          \/ i + 1 \in B /\ i + 1 \notin LineStarts
          \/ i = Len(file) /\ proc # "down"
      BY <1>1, <2>2, <3>1, BadLine
    <3>3. i \in D <=> \/ i \in B
                      \/ i + 1 \in B /\ i + 1 \notin LineStarts
      BY <2>7
    <3>. QED BY <3>2, <3>3
  <2>10. Cardinality(bad) <= cuts + (IF proc = "down" THEN 0 ELSE 1)
    <3>1. Cardinality(D) \in Nat
      BY <2>8, FS_CardinalityType
    <3>2. CASE proc = "down"
      <4>1. bad \subseteq D
        BY <2>9, <3>2
      <4>2. IsFiniteSet(bad) /\ Cardinality(bad) <= Cardinality(D)
        BY <2>8, <4>1, FS_Subset
      <4>3. Cardinality(bad) \in Nat
        BY <4>2, FS_CardinalityType
      <4>4. Cardinality(bad) <= cuts + 0
        BY <2>2, <2>3, <2>8, <3>1, <4>2, <4>3
      <4>. QED BY <3>2, <4>4
    <3>3. CASE proc # "down"
      <4>1. bad \subseteq D \cup {Len(file)}
        BY <2>9
      <4>2. Cardinality(bad) <= Cardinality(D) + 1
        BY <2>8, <4>1, OneMore
      <4>3. IsFiniteSet(bad)
        <5>1. IsFiniteSet(D \cup {Len(file)})
          BY <2>8, FS_AddElement
        <5>. QED BY <4>1, <5>1, FS_Subset
      <4>4. Cardinality(bad) \in Nat
        BY <4>3, FS_CardinalityType
      <4>5. Cardinality(bad) <= cuts + 1
        BY <2>2, <2>3, <2>8, <3>1, <4>2, <4>4
      <4>. QED BY <3>3, <4>5
    <3>. QED BY <3>2, <3>3
  <2>. QED BY <2>5, <2>6, <2>10 DEF DamageIsBounded
<1>2. StoresInv => DamageIsBounded
  BY <1>1
<1>. QED BY <1>2, StoresInvariant, PTL
=============================================================================
