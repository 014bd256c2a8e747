----------------------------- MODULE Artefacts ------------------------------
(* analysis/artefacts.py: which detections are by-products of a stronger   *)
(* emission that was on the air at the same time.  A report is a record    *)
(* with its frequency, its start and duration and its peak power; reports  *)
(* of a list are known by their place in it.                               *)
EXTENDS Integers, Sequences

CONSTANTS
    ProductTolerance, \* PRODUCT_TOLERANCE_HZ, in units of frequency
    LevelMargin       \* MIN_LEVEL_MARGIN_DB

Distance(a, b) == IF a > b THEN a - b ELSE b - a

Overlaps(a, b) ==
    /\ a.start < b.start + b.duration
    /\ b.start < a.start + a.duration

(* The order of sorted(): descending in power, stable. *)
IsAhead(reports, i, j) ==
    \/ reports[i].power > reports[j].power
    \/ reports[i].power = reports[j].power /\ i < j

FirstOf(reports, S) ==
    CHOOSE i \in S : \A j \in S \ {i} : IsAhead(reports, i, j)

ParentsWithoutMargin(reports, weak) ==  \* slip
    {i \in DOMAIN reports :
        IsAhead(reports, i, weak) /\ Overlaps(reports[i], reports[weak])}
Parents(reports, weak) ==
    {i \in DOMAIN reports :
        /\ IsAhead(reports, i, weak)
        /\ Overlaps(reports[i], reports[weak])
        /\ reports[i].power - reports[weak].power >= LevelMargin}

(* The parents that have a weak partner opposite this detection. *)
SplatterParents(reports, weak) ==
    {p \in Parents(reports, weak) :
        \E other \in DOMAIN reports \ {weak, p} :
            /\ Distance(reports[other].frequency,
                        2 * reports[p].frequency - reports[weak].frequency)
                   <= ProductTolerance
            /\ reports[p].power - reports[other].power >= LevelMargin
            /\ Overlaps(reports[other], reports[p])}

(* The parents whose double, less another parent, is this detection. *)
IntermodParents(reports, weak) ==
    {p \in Parents(reports, weak) :
        \E q \in Parents(reports, weak) \ {p} :
            Distance(reports[weak].frequency,
                     2 * reports[p].frequency - reports[q].frequency)
                <= ProductTolerance}

(* The parent is the first of them in the order, 0 for none. *)
Attribution(reports, weak) ==
    LET splatter == SplatterParents(reports, weak)
        intermod == IntermodParents(reports, weak)
    IN  CASE splatter # {} ->
               [kind |-> "SPLATTER", parent |-> FirstOf(reports, splatter)]
          [] splatter = {} /\ intermod # {} ->
               [kind |-> "INTERMOD3", parent |-> FirstOf(reports, intermod)]
          [] OTHER -> [kind |-> "none", parent |-> 0]

AttributeProducts(reports) ==
    [i \in DOMAIN reports |-> Attribution(reports, i)]
=============================================================================
