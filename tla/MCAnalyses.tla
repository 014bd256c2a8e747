---------------------------- MODULE MCAnalyses -----------------------------
(* Inputs for TLC.  Frequencies of reports are kHz, levels dB; the steps of *)
(* the receiver's gains are the real ones.                                  *)
EXTENDS Analyses

SeqsUpTo(S, n) == UNION {[1 .. k -> S] : k \in 0 .. n}
Distinct(s) == \A i, j \in DOMAIN s : i # j => s[i] # s[j]

(* Two carriers of the same power, their third-order products, a sideband  *)
(* opposite one of these, and the first radio again, drifting.             *)
Rep(f, at, len, p, t, c) ==
    [frequency |-> f, start |-> at, duration |-> len, power |-> p,
     tone |-> t, channel |-> c]
Heard ==
    {Rep(0, 0, 4, -20, 67, 1), Rep(12, 0, 3, -20, 71, 2), Rep(24, 1, 2, -50, 0, 3),
     Rep(-12, 1, 2, -45, 71, 0), Rep(13, 1, 1, -48, 0, 2), Rep(2, 5, 2, -25, 67, 1),
     Rep(5, 6, 3, -26, 68, 1), Rep(1, 3, 6, -15, 67, 1)}
MCArchives ==
    {[reports |-> s, since |-> 0, channel |-> 0] :
        s \in {t \in SeqsUpTo(Heard, 4) : Distinct(t)}}
    \cup {[reports |-> s, since |-> 1, channel |-> 1] : s \in SeqsUpTo(Heard, 2)}

Emitter(f, t, sent) ==
    [frequency |-> f, tone |-> t, channel |-> f, snr |-> 10 * f, transmissions |-> sent]
MCScenes ==
    {[scene |-> [duration |-> 5, emitters |-> <<Emitter(0, 0, a), Emitter(f, 67, b)>>],
      reports |-> r, sceneStart |-> 10, edges |-> <<0, 10, 40>>] :
        a \in {<<>>, <<<<0, 2>>, <<3, 6>>>>, <<<<0, 4>>>>},
        b \in {<<<<1, 3>>>>, <<<<2, 5>>, <<5, 6>>>>}, f \in {1, 3},
        r \in SeqsUpTo({[frequency |-> g, start |-> at, duration |-> len,
                         tone |-> 0, channel |-> g] :
                            g \in {0, 2}, at \in {9, 11, 13}, len \in {1, 3}}, 2)}
Timed(scene) ==
    [scene EXCEPT !.scene.emitters =
        [e \in DOMAIN @ |-> [@[e] EXCEPT !.transmissions =
            [k \in DOMAIN @ |-> [start |-> @[k][1], stop |-> @[k][2]]]]]]
MCTimedScenes == {Timed(s) : s \in MCScenes}

Spectrum(s) == [b \in 0 .. Len(s) - 1 |-> s[b + 1]]
Floors == {Spectrum(s) : s \in {<<2, 2, 2, 2, 2, 2>>, <<2, 3, 20, 2, 1, 2>>,
               <<2, 5, 6, 2, 2, 30>>, <<9, 8, 9, 7, 9, 9>>}}
MCBlocks ==
    {[cfg |-> [reference |-> n, guard |-> IF n = 2 THEN 1 ELSE 0, method |-> method,
               interval |-> 2, track |-> t, pairs |-> t, factor |-> 4, pairFactor |-> 3],
      frames |-> frames, exclude |-> IF n = 2 THEN {0} ELSE {}] :
        n \in {2, 4}, method \in {"ca", "os"}, t \in BOOLEAN,
        frames \in [1 .. 3 -> Floors]}

MCTunings ==
    {[bins |-> n, decimation |-> d, rate |-> r, centre |-> c] :
        n \in {8, 12}, d \in {2, 4, 5}, r \in {32, 48}, c \in -26 .. 26}

Stage(g, l) == [gain |-> g, limit |-> l]
MCChains ==
    {[chain |-> chain, source |-> s, margin |-> 10, external |-> x, target |-> 52] :
        chain \in {<<Stage(-1, 30), Stage(20, -10), Stage(0, 30), Stage(0, -5)>>,
                   <<Stage(-6, 20), Stage(0, -5)>>},
        s \in {-40, -33, -20, -7, 0, 5, 13, 30}, x \in -30 .. 60}

Gain(l, v) == [lna |-> l, vga |-> v, amp |-> FALSE]
Points(n, k, off) ==
    [i \in 1 .. n |-> [dbfs |-> 2 * i - 10, dbm |-> 2 * i - 30 + (IF i = k THEN off ELSE 0)]]
Sweeps == {[gains |-> g, points |-> Points(n, k, off)] :
              g \in {Gain(16, 20), Gain(40, 62)}, n \in {3, 4, 6, 7}, k \in {1, 3, 4},
              off \in {0, -4, 6}}
MCSweepSeqs ==
    {[sweeps |-> s, most |-> m, readings |-> {-11, -10, -8, -5, -1, 0, 2, 5, 7}] :
        s \in SeqsUpTo(Sweeps, 2), m \in {1, 3}}

Frames == {Spectrum(s) : s \in {<<9, 1, 9, 9, 2, 1>>, <<8, 3, 9, 9, 1, 4>>, <<7, 2, 9, 9, 5, 1>>}}
Plain == [frames |-> <<>>, codes |-> <<>>, bins |-> 4, chunk |-> 1, settle |-> 0,
          dc |-> 2, edge |-> 0, samples |-> 0, size |-> 4, overlap |-> 0, most |-> 2]
MCRecordings ==
    {[Plain EXCEPT !.codes = s, !.chunk = c] : c \in 1 .. 3,
        s \in SeqsUpTo({<<-128, 3>>, <<0, 0>>, <<3, 127>>}, 4)}
    \cup
    {[frames |-> s, codes |-> <<>>, bins |-> 6, chunk |-> c, settle |-> d, dc |-> 1, edge |-> 1,
      samples |-> 20, size |-> 4, overlap |-> 2, most |-> 3] :
        s \in SeqsUpTo(Frames, 4), c \in 1 .. 3, d \in 0 .. 2}
    \cup
    {[frames |-> <<>>, codes |-> <<>>, bins |-> 4, chunk |-> c, settle |-> 0, dc |-> 2, edge |-> 0,
      samples |-> n, size |-> 4, overlap |-> h, most |-> m] :
        c \in 1 .. 3, n \in 0 .. 16, h \in 0 .. 3, m \in 2 .. 4}

Notch(at, width, depth) ==
    [k \in -12 .. 12 |-> IF k - at \in -width .. width THEN -depth ELSE 0]
Block(at, low, high) ==
    [k \in 1 .. 31 |-> IF k - at \in -5 .. 5 THEN high ELSE low]
Against(shift, captures, power) ==
    [shift |-> shift, captures |-> captures, carrier |-> 40, raster |-> 20,
     power |-> power, plan |-> [base |-> -1, step |-> 16, lowest |-> 0, highest |-> 2]]
MCReferences ==
    UNION {{Against(s, c, Block(15 + s, 0, 30)) :
                c \in SeqsUpTo({[tuned |-> 9, profile |-> Notch(s, 2, 9), shows |-> TRUE],
                                [tuned |-> -7, profile |-> Notch(s, 2, 5), shows |-> TRUE],
                                [tuned |-> 1, profile |-> Notch(0, 2, 9), shows |-> FALSE],
                                [tuned |-> 9, profile |-> Notch(2, 0, 20), shows |-> FALSE]}, 2)}
           \cup {Against(s, <<>>, Block(15 + s, p[1], p[2])) :
                    p \in {<<0, 12>>, <<-20, 10>>, <<-40, -10>>, <<5, 7>>}} : s \in -3 .. 3}

MCCaptures ==
    {[begin |-> 10, items |-> [k \in 1 .. n |-> k], block |-> b,
      start |-> s, duration |-> d, ratio |-> r, later |-> 50] :
        n \in 0 .. 9, b \in 1 .. 5, s \in 0 .. 2, d \in {1, 3}, r \in {1, 2}}

MCWindows ==
    {[windows |-> w, expected |-> e] : e \in {0, 67},
        w \in SeqsUpTo({[tone |-> t, contrast |-> c] : t \in {67, 71}, c \in {3, 9}}, 5)}

Call(k, v, status, f) ==
    [key |-> k, content |-> v, status |-> status, force |-> f, hasValue |-> status = "measured",
     described |-> TRUE, isLevel |-> FALSE, hasGains |-> FALSE]
MCCallSeqs ==
    SeqsUpTo({Call("a", 1, "measured", FALSE), Call("a", 2, "measured", FALSE),
              Call("b", 1, "measured", FALSE), Call("a", 3, "pending", FALSE),
              Call("a", 3, "pending", TRUE),
              [Call("a", 2, "measured", FALSE) EXCEPT !.isLevel = TRUE]}, 4)
=============================================================================
