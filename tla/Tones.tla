------------------------------- MODULE Tones --------------------------------
(* core/ctcss.py: the sub-audible tone of an emission, by a vote of its     *)
(* analysis windows.  A window is the tone that won in it and how far it    *)
(* stood out; the filtering and the Goertzel recurrence before that are     *)
(* signal processing.                                                       *)
EXTENDS Integers, Sequences, FiniteSets, FiniteSetsExt

CONSTANTS
    Contrast,   \* contrast_threshold
    VoteRatio,  \* vote_ratio, in percent
    MinWindows  \* min_windows

Unidentified == [tone |-> 0, agreeing |-> 0]

Voters(windows) == {k \in DOMAIN windows : windows[k].contrast >= Contrast}

Votes(windows, tone) ==
    Cardinality({k \in Voters(windows) : windows[k].tone = tone})

(* max over a dictionary: the tone with most votes that was voted first. *)
Winner(windows) ==
    LET most == {k \in Voters(windows) : \A j \in Voters(windows) :
                    Votes(windows, windows[k].tone) >= Votes(windows, windows[j].tone)}
    IN  windows[Min(most)].tone

CarriesWithoutRatio(agreeing, n) == TRUE  \* slip: the most votes are enough
Carries(agreeing, n) == 100 * agreeing >= VoteRatio * n

Detect(windows) ==
    LET agreeing == Votes(windows, Winner(windows))
    IN  IF Len(windows) < MinWindows \/ Voters(windows) = {} THEN Unidentified
        ELSE IF Carries(agreeing, Len(windows))
        THEN [tone |-> Winner(windows), agreeing |-> agreeing]
        ELSE [tone |-> 0, agreeing |-> agreeing]

(* classify, with the tone of the deployment; 0 for none. *)
Classify(result, expected) ==
    IF expected # 0 /\ result.tone = expected THEN "FRIEND" ELSE "UNKNOWN"
=============================================================================
