------------------------------ MODULE Measured ------------------------------
(* measured.py: the register of measured figures, written by the tests.     *)
(* Entries are a function from keys to records; a call names a key and      *)
(* carries a content, which stands for everything that is compared.         *)
EXTENDS Integers, Sequences, SequencesExt

IsRefused(entries, call) ==
    \/ ~call.described
    \/ call.isLevel /\ ~call.hasGains
    \/ call.status = "pending" /\ call.hasValue
    \/ call.status = "measured" /\ ~call.hasValue
    \/ /\ call.key \in DOMAIN entries
       /\ entries[call.key].status = "measured"
       /\ call.status = "pending" /\ ~call.force

IsUnchanged(entries, call) ==
    /\ call.key \in DOMAIN entries
    /\ entries[call.key].content = call.content
    /\ entries[call.key].status = call.status

EntryAnew(entries, call, now) ==  \* slip: seen for the first time again
    [content |-> call.content, status |-> call.status,
     firstSeen |-> now, lastVerified |-> now]
Entry(entries, call, now) ==
    IF IsUnchanged(entries, call)
    THEN [entries[call.key] EXCEPT !.lastVerified = now]
    ELSE [content |-> call.content, status |-> call.status,
          firstSeen |-> now, lastVerified |-> now]

RecordMeasurement(entries, call, now) ==
    IF IsRefused(entries, call) THEN entries
    ELSE [k \in DOMAIN entries \cup {call.key} |->
             IF k = call.key THEN Entry(entries, call, now) ELSE entries[k]]

(* The register after calls, the n-th at the time n. *)
Register(calls) ==
    FoldLeft(LAMBDA entries, n : RecordMeasurement(entries, calls[n], n),
             [k \in {} |-> 0], [n \in DOMAIN calls |-> n])
=============================================================================
