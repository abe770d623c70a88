----------------------------- MODULE SpeakerMix -----------------------------
(***************************************************************************)
(* How the audio processor maps the channels of a source to those of a     *)
(* sink (audio_processor/audio_processor.cpp): the automatic mix, the      *)
(* choice of a custom one, the taps made of it, and the mixing of a frame. *)
(* A mix is a set of triples: an input channel, an output channel, a gain. *)
(* Channels count from 0: FL FR (RL RR), or FL FR C LFE RL RR (SL SR).     *)
(***************************************************************************)
EXTENDS Integers, FiniteSetsExt

MaxChannels == 8

\* Gains in 1/1400, which holds the sevenths and the eighths of the tables
Unit == 1400
Half == 700
Third == 462        \* .33f
TwoThirds == 924    \* .66f
Quarter == 350
Fifth == 280
Seventh == 200
Eighth == 175

All(I, O, g) == {<<i, o, g>> : i \in I, o \in O}
Sides(i, o, g) == {<<i, o, g>>, <<i + 1, o + 1, g>>}
Identity(n) == {<<c, c, Unit>> : c \in 0..(n - 1)}

FromStereo(out) ==
    LET surround == Sides(0, 0, Unit) \union All({0, 1}, {2}, Half) \union Sides(0, 4, Unit) IN
    CASE out = 1 -> All({0, 1}, {0}, Half)
      [] out = 2 -> Identity(2)
      [] out = 4 -> Identity(2) \union Sides(0, 2, Unit)
      [] out = 6 -> surround
      [] out = 8 -> surround \union Sides(0, 6, Unit)
      [] OTHER -> {}

FromQuad(out) ==
    LET surround == UNION {Sides(0, 0, Unit), All({0, 1}, {2}, Half), All(0..3, {3}, Quarter),
                           Sides(2, 4, Unit)}
    IN
    CASE out = 1 -> All(0..3, {0}, Quarter)
      [] out = 2 -> Sides(0, 0, Half) \union Sides(2, 0, Half)
      [] out = 4 -> Identity(4)
      [] out = 6 -> surround
      [] out = 8 -> UNION {surround, Sides(0, 6, Half), Sides(2, 6, Half)}
      [] OTHER -> {}

From51(out) ==
    CASE out = 1 -> All({0, 1, 2, 4, 5}, {0}, Fifth)
      [] out = 2 -> UNION {Sides(0, 0, Third), All({2}, {0, 1}, Third), Sides(4, 0, Third)}
      [] out = 4 -> UNION {Sides(0, 0, TwoThirds), All({2}, {0, 1}, Third), Sides(4, 2, Unit)}
      [] out = 6 -> Identity(6)
      [] out = 8 -> UNION {Identity(6), Sides(0, 6, Half), Sides(4, 6, Half)}
      [] OTHER -> {}

From71(out) ==
    CASE out = 1 -> All({0, 1, 2, 4, 5, 6, 7}, {0}, Seventh)
      [] out = 2 -> UNION {Sides(0, 0, Half), All({2}, {0, 1}, Quarter), Sides(4, 0, Eighth),
                           Sides(6, 0, Eighth)}
      [] out = 4 -> UNION {Sides(0, 0, Half), All({2}, {0, 1}, Quarter), Sides(4, 2, TwoThirds),
                           Sides(6, 0, Quarter), Sides(6, 2, Third)}
      [] out = 6 -> UNION {Sides(0, 0, TwoThirds), {<<2, 2, Unit>>, <<3, 3, Unit>>},
                           Sides(4, 4, TwoThirds), Sides(6, 0, Third), Sides(6, 4, Third)}
      [] out = 8 -> Identity(8)
      [] OTHER -> {}

\* calculateAndApplyAutoSpeakerMix: mono goes everywhere; a layout that has no table is
\* mapped one to one; a layout that has one is silent for the outputs its table leaves out.
AutoMix(in, out) ==
    CASE in = 1 -> All({0}, 0..(out - 1), Unit)
      [] in = 2 -> FromStereo(out)
      [] in = 4 -> FromQuad(out)
      [] in = 6 -> From51(out)
      [] in = 8 -> From71(out)
      [] OTHER -> Identity(IF in < out THEN in ELSE out)

\* select_active_speaker_mix_locked: "layouts" maps the channels of a source to
\* [auto, size, mix]; a custom matrix is taken when it has the full size.
SelectMix(layouts, in, out) ==
    IF in \in DOMAIN layouts /\ ~layouts[in].auto /\ layouts[in].size = <<MaxChannels, MaxChannels>>
    THEN layouts[in].mix
    ELSE AutoMix(in, out)

\* rebuild_mix_taps_locked: what concerns the channels there are
Taps(mix, in, out) == {t \in mix : t[1] < in /\ t[2] < out /\ t[3] # 0}

\* mixSpeakers: a frame that is mapped one to one is left as it is, any other is summed.
IsIdentity(taps, in, out) == in = out /\ taps = Identity(out)
Summed(frame, taps, out) ==
    [o \in 0..(out - 1) |-> MapThenSumSet(LAMBDA t : frame[t[1]] * t[3], {t \in taps : t[2] = o})]
Mixed(frame, taps, in, out) ==
    IF IsIdentity(taps, in, out)
    THEN [o \in 0..(out - 1) |-> frame[o] * Unit]
    ELSE Summed(frame, taps, out)

-----------------------------------------------------------------------------
\* Several speakers mixed into one never make it louder than the loudest of them may be,
\* between any two layouts (audio_processor.cpp:875-1100).
NotLouder ==
    \A in \in 1..MaxChannels, out \in 1..MaxChannels : \A o \in 0..(out - 1) :
        MapThenSumSet(LAMBDA t : t[3], {t \in AutoMix(in, out) : t[2] = o}) <= Unit

\* A layout with a table is silent in a layout that the table does not name: a stereo source
\* is not heard at all on a sink of 3, 5 or 7 channels (audio_processor.cpp:889).
SilentLayouts ==
    {p \in (1..MaxChannels) \X (1..MaxChannels) : Taps(AutoMix(p[1], p[2]), p[1], p[2]) = {}}
        = {2, 4, 6, 8} \X {3, 5, 7}

\* A frame taken as it is, on the way past the taps, is the frame the taps would have made
\* (audio_processor.cpp:1205-1250).
ShortcutIsExact ==
    \A in \in 1..MaxChannels, out \in 1..MaxChannels :
        LET taps == Taps(AutoMix(in, out), in, out)
            frame == [c \in 0..(in - 1) |-> 3 * c + 1]
        IN  Mixed(frame, taps, in, out) = Summed(frame, taps, out)
=============================================================================
