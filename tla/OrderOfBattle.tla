--------------------------- MODULE OrderOfBattle ----------------------------
(* analysis/eob.py: from the reports of an archive to inferred emitters and *)
(* the occupancy of the channels.  Frequencies of profiles are medians and  *)
(* kept doubled, so that they stay whole.                                   *)
EXTENDS Artefacts, SequencesExt

CONSTANTS
    FrequencyTolerance, \* FREQUENCY_TOLERANCE_HZ
    ToneTolerance,      \* TONE_TOLERANCE_HZ
    Hour                \* the length of an hour

NoTone    == 0  \* ctcss_tone_hz is None
NoProfile == 0

Pick(f, indices) == [k \in DOMAIN indices |-> f[indices[k]]]
End(report) == report.start + report.duration

Ascending(values) == SortSeq(values, LAMBDA a, b : a < b)

DoubledMedian(values) ==
    LET ordered == Ascending(values)
        n       == Len(values)
    IN  IF n = 0 THEN 0 ELSE ordered[(n + 1) \div 2] + ordered[n \div 2 + 1]

Spread(values) ==
    LET ordered == Ascending(values)
        n       == Len(values)
        upper   == (3 * n) \div 4 - (IF n % 4 = 0 THEN 1 ELSE 0)
    IN  IF n < 2 THEN 0 ELSE ordered[upper + 1] - ordered[n \div 4 + 1]

TonesMatch(a, b) ==
    IF a = NoTone \/ b = NoTone THEN a = b ELSE Distance(a, b) <= ToneTolerance

-----------------------------------------------------------------------------
(* cluster_emitters: each emission, in the order of time, joins the first  *)
(* profile that fits its frequency and tone, or founds one.                *)
Fits(report, profile) ==
    /\ Distance(2 * report.frequency, profile.frequency) <= 2 * FrequencyTolerance
    /\ TonesMatch(report.tone, profile.tone)

Founded(reports, i) ==
    [frequency |-> 2 * reports[i].frequency, tone |-> reports[i].tone,
     channel |-> reports[i].channel, emissions |-> <<i>>, multiple |-> FALSE]

Joined(reports, i, profile) ==
    LET members == Append(profile.emissions, i)
    IN  [profile EXCEPT
            !.multiple  = @ \/ \E k \in DOMAIN profile.emissions :
                                   Overlaps(reports[i], reports[profile.emissions[k]]),
            !.emissions = members,
            !.frequency = DoubledMedian([k \in DOMAIN members |->
                                            reports[members[k]].frequency])]

Placed(reports, profiles, i) ==
    LET fitting == {k \in DOMAIN profiles : Fits(reports[i], profiles[k])}
        first   == CHOOSE k \in fitting : \A l \in fitting : k <= l
    IN  IF fitting = {} THEN Append(profiles, Founded(reports, i))
        ELSE [profiles EXCEPT ![first] = Joined(reports, i, @)]

IsEarlier(reports, i, j) ==
    \/ reports[i].start < reports[j].start
    \/ reports[i].start = reports[j].start /\ i < j

(* The places of the reports that are emissions, and by-products, in order *)
(* of time and of the list.                                                *)
Places(reports) == [i \in DOMAIN reports |-> i]
Emissions(reports, marks) ==
    SortSeq(SelectSeq(Places(reports), LAMBDA i : marks[i].kind = "none"),
            LAMBDA i, j : IsEarlier(reports, i, j))
Products(reports, marks) ==
    SelectSeq(Places(reports), LAMBDA i : marks[i].kind # "none")

Profiles(reports, marks) ==
    FoldLeft(LAMBDA profiles, i : Placed(reports, profiles, i), <<>>,
             Emissions(reports, marks))

NearestProfile(reports, profiles, mark) ==
    LET Off(k)     == Distance(profiles[k].frequency,
                               2 * reports[mark.parent].frequency)
        candidates == {k \in DOMAIN profiles : Off(k) <= 2 * FrequencyTolerance}
    IN  IF candidates = {} THEN NoProfile
        ELSE CHOOSE k \in candidates :
                \A l \in candidates : Off(k) < Off(l) \/ (Off(k) = Off(l) /\ k <= l)

Airtime(reports, profile) ==
    SumFunction([k \in DOMAIN profile.emissions |->
                    reports[profile.emissions[k]].duration])

WithProducts(reports, marks, profiles) ==
    [k \in DOMAIN profiles |->
        profiles[k] @@ [products |-> SelectSeq(Products(reports, marks), LAMBDA i :
                                       NearestProfile(reports, profiles, marks[i]) = k)]]

(* Busiest first, and profiles of the same airtime as they were founded. *)
ClusterEmitters(reports, marks) ==
    LET profiles == WithProducts(reports, marks, Profiles(reports, marks))
        Busier(k, l) ==
            LET a == Airtime(reports, profiles[k])
                b == Airtime(reports, profiles[l])
            IN  a > b \/ (a = b /\ k < l)
    IN  Pick(profiles, SortSeq(Places(profiles), Busier))

-----------------------------------------------------------------------------
(* The figures of a profile. *)
Figures(reports, profile) ==
    LET members   == Pick(reports, profile.emissions)
        inTime    == SortSeq(members, LAMBDA a, b : a.start < b.start)
        gaps      == SelectSeq([k \in 1 .. Len(inTime) - 1 |->
                                   inTime[k + 1].start - End(inTime[k])],
                               LAMBDA g : g >= 0)
        Of(key)   == [k \in DOMAIN members |-> members[k][key]]
    IN  [transmissions |-> Len(members),
         airtime       |-> SumFunction(Of("duration")),
         firstSeen     |-> Min(Range(Of("start"))),
         lastSeen      |-> Max({End(e) : e \in Range(members)}),
         medianDuration |-> DoubledMedian(Of("duration")),
         medianGap      |-> DoubledMedian(gaps),
         medianPower    |-> DoubledMedian(Of("power")),
         powerSpread    |-> Spread(Of("power")),
         frequencySpread |-> Spread(Of("frequency"))]

(* compute_occupancy: airtime and emissions for each channel and hour, and *)
(* the time from the first start to the last end.                          *)
HourOf(report) == (report.start \div Hour) % 24

ComputeOccupancy(reports, marks) ==
    LET emissions == Pick(reports, Emissions(reports, marks))
        keys      == {<<e.channel, HourOf(e)>> : e \in Range(emissions)}
        Under(key) == {k \in DOMAIN emissions :
                          <<emissions[k].channel, HourOf(emissions[k])>> = key}
        duration  == [k \in DOMAIN emissions |-> emissions[k].duration]
    IN  [airtime |-> [key \in keys |-> SumFunctionOnSet(duration, Under(key))],
         counts  |-> [key \in keys |-> Cardinality(Under(key))],
         window  |-> IF emissions = <<>> THEN 0
                     ELSE Max({End(e) : e \in Range(emissions)}) - emissions[1].start]

(* busiest_channels, busiest_hours: airtime by one part of the key.  The   *)
(* order and the limit of the lists are left out.                          *)
Busiest(airtime, part) ==
    LET names == {key[part] : key \in DOMAIN airtime}
    IN  [name \in names |->
            SumFunctionOnSet(airtime, {key \in DOMAIN airtime : key[part] = name})]

(* What esm446-eob makes of an archive, with --since and --channel. *)
Summarise(reports) ==
    LET marks    == AttributeProducts(reports)
        profiles == ClusterEmitters(reports, marks)
        occupancy == ComputeOccupancy(reports, marks)
    IN  [marks     |-> marks,
         profiles  |-> profiles,
         figures   |-> [k \in DOMAIN profiles |-> Figures(reports, profiles[k])],
         occupancy |-> occupancy,
         channels  |-> Busiest(occupancy.airtime, 1),
         hours     |-> Busiest(occupancy.airtime, 2)]

Selected(reports, since, channel) ==
    SelectSeq(reports, LAMBDA r : r.start >= since /\ channel \in {0, r.channel})
=============================================================================
