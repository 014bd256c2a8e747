------------------------------ MODULE Sources -------------------------------
(* core/source.py, FileSource and ArraySource, and cli/extract_vector.py:   *)
(* recordings, what is read of them, and when that is said to have been on  *)
(* the air.  Time is counted in samples.  A file is the sequence of the     *)
(* items in it, two to a sample (the last one may be cut in half), the time *)
(* of its last write and the start_time of its sidecar.                     *)
EXTENDS Integers, Sequences, SequencesExt

NoStart == -1  \* no sidecar, or one without start_time

(* An external recorder that writes straight through. *)
Recorded(begin, items) ==
    [items |-> items, modified |-> begin + Len(items) \div 2, sidecar |-> NoStart]

TotalSamples(file) == Len(file.items) \div 2

InferStart(file) ==
    IF file.sidecar # NoStart THEN file.sidecar
    ELSE file.modified - TotalSamples(file)

-----------------------------------------------------------------------------
(* FileSource.read from a position in the file: fromfile moves on by all    *)
(* the items it finds, and less than a pair of them ends the stream.        *)
AtMost(a, b) == IF a < b THEN a ELSE b

RawBlock(file, position, n) ==
    SubSeq(file.items, position + 1, AtMost(position + 2 * n, Len(file.items)))

Even(raw) == SubSeq(raw, 1, (Len(raw) \div 2) * 2)

(* The loop of node.run: [position, read, over]. *)
ReadOnce(file, n, state) ==
    LET raw == RawBlock(file, state.position, n)
    IN  IF state.over THEN state
        ELSE [position |-> state.position + Len(raw),
              read     |-> state.read \o Even(raw),
              over     |-> Len(raw) < 2]

ReadAll(file, n) ==
    FoldLeft(LAMBDA state, k : ReadOnce(file, n, state),
             [position |-> 0, read |-> <<>>, over |-> FALSE],
             [k \in 1 .. Len(file.items) + 1 |-> k])

(* ArraySource: blocks until the position is at the end. *)
ReadArrayOnce(samples, n, state) ==
    LET block == SubSeq(samples, state.position + 1,
                        AtMost(state.position + n, Len(samples)))
    IN  IF state.position >= Len(samples) THEN [state EXCEPT !.over = TRUE]
        ELSE [state EXCEPT !.position = @ + Len(block), !.read = @ \o block]

ReadArray(samples, n) ==
    FoldLeft(LAMBDA state, k : ReadArrayOnce(samples, n, state),
             [position |-> 0, read |-> <<>>, over |-> FALSE],
             [k \in 1 .. Len(samples) + 1 |-> k])

-----------------------------------------------------------------------------
(* extract and main: a span of a capture, one sample kept of every ratio,   *)
(* with a sidecar; refused when the span is not in the file.  Items stand   *)
(* for where they come from: the shift in frequency, the filter of the      *)
(* decimation and the scaling to 8 bits are left out.                       *)
Holds(file, start, duration) == 2 * (start + duration) <= Len(file.items)

Decimated(items, ratio) ==
    [k \in 1 .. 2 * ((Len(items) \div 2 + ratio - 1) \div ratio) |->
        items[2 * ratio * ((k - 1) \div 2) + ((k - 1) % 2) + 1]]

Extracted(file, start, duration, ratio, now) ==
    [items    |-> Decimated(SubSeq(file.items, 2 * start + 1, 2 * (start + duration)),
                            ratio),
     modified |-> now,
     sidecar  |-> file.modified - start]
=============================================================================
