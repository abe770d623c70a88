---------------------------- MODULE AlsaPlayback ----------------------------
(***************************************************************************)
(* Playback on a sound card (senders/system/alsa_playback_sender.cpp, with *)
(* handle_system_audio_format_change of output_mixer/sink_audio_mixer.cpp):*)
(* opening the device in a width it accepts, the loop that writes a payload*)
(* a period at a time while the card drains its buffer, the recovery from  *)
(* an underrun, and the controller that changes the latency by closing the *)
(* device and opening it again.                                            *)
(*                                                                         *)
(* A frame is the unit of audio and of latency: a latency of L is a buffer *)
(* of about L frames, in Periods periods. The mixer thread runs every      *)
(* operation; the card is the other actor. The playback rate is counted in *)
(* steps from the nominal one.                                             *)
(***************************************************************************)
EXTENDS Integers, FiniteSetsExt

CONSTANTS
    Depths,         \* the sample widths the card accepts, when it has a preference
    MixDepth,       \* the width the sink is configured with
    Periods,        \* alsa_periods_per_buffer
    Configured,     \* alsa_target_latency_ms as the user set it
    MinLatency, MaxLatency, Boost, Step, Hysteresis,    \* of the latency controller
    MaxRate,        \* the clamp of the playback rate
    Sizes,          \* the frames of a payload
    OpenFails,      \* opening the device may fail
    Underruns,      \* the mixer may be too slow for the card
    MaxSends        \* bound: payloads

VARIABLES
    pc,         \* the mixer thread: "off", "idle", "write" or "notify"
    left,       \* frames of the payload still to write
    handle,     \* pcm_handle_ is set
    depth,      \* hardware_bit_depth_
    source,     \* source_bit_depth_: the width of the payloads
    note,       \* pending_format_notification_: a width, 0 for none
    geometry,   \* period_frames_ and buffer_frames_
    queue,      \* frames in the card's buffer
    card,       \* the state of the card: "prepared", "running" or "xrun"
    latency,    \* alsa_target_latency_ms of the settings the sinks share
    target,     \* dynamic_latency_target_ms_
    applied,    \* dynamic_latency_applied_ms_
    pending,    \* the latency a reconfiguration waits with, 0 for none
    cooling,    \* the last reconfiguration is younger than the cooldown
    rate,       \* last_playback_rate_command_
    heard,      \* the rate the mixer was last told
    sends       \* payloads so far

deviceVars == <<handle, depth, note, geometry, queue, card>>
latencyVars == <<latency, target, applied, pending, cooling>>
rateVars == <<rate, heard>>
vars == <<pc, left, source, deviceVars, latencyVars, rateVars, sends>>

Init ==
    /\ pc = "off" /\ left = 0
    /\ handle = FALSE /\ depth = MixDepth /\ source = MixDepth /\ note = 0
    /\ geometry = [period |-> 0, buffer |-> 0]
    /\ queue = 0 /\ card = "prepared"
    /\ latency = Configured /\ target = 0 /\ applied = 0 /\ pending = 0 /\ cooling = FALSE
    /\ rate = 0 /\ heard = 0
    /\ sends = 0

Clamp(x, lo, hi) == Max({lo, Min({x, hi})})

-----------------------------------------------------------------------------
(* configure_device and close_locked                                       *)

\* The width asked for, then 32, 24 and 16, whichever the card takes first.
Candidates(asked) == <<asked, 32, 24, 16>>
Takes(asked) == {i \in 1 .. 4 : Candidates(asked)[i] \in Depths \cap {16, 24, 32}}
Accepted(asked) == Candidates(asked)[Min(Takes(asked))]

PeriodFor(l) == Max({1, l \div Periods})
GeometryFor(l) == [period |-> PeriodFor(l), buffer |-> Periods * PeriodFor(l)]

\* The card starts by itself once all but one period of its buffer is filled.
StartsAt(g) == IF g.buffer > g.period THEN g.buffer - g.period ELSE g.period
CardWith(g, n) == IF n >= StartsAt(g) THEN "running" ELSE "prepared"

\* Half the buffer is filled with silence.
Prefill(g) == g.buffer \div 2

\* The device opens, at the latency of the settings, and a width other than the one
\* asked for is noted for the mixer.
Opened(l) ==
    /\ Takes(source) # {}
    /\ handle' = TRUE
    /\ depth' = Accepted(source)
    /\ note' = IF depth' = source THEN 0 ELSE depth'
    /\ geometry' = GeometryFor(l)
    /\ queue' = Prefill(geometry')
    /\ card' = CardWith(geometry', queue')
    /\ target' = l /\ applied' = l /\ pending' = 0 /\ cooling' = TRUE

\* The device does not open, or takes none of the formats.
NotOpened ==
    /\ OpenFails \/ Takes(source) = {}
    /\ handle' = FALSE /\ queue' = 0 /\ card' = "prepared"
    /\ UNCHANGED <<depth, note, geometry>>

-----------------------------------------------------------------------------
(* setup, and the payloads the mixer sends                                 *)

Setup ==
    /\ pc = "off"
    /\ \/ Opened(latency) /\ pc' = "notify" /\ rate' = 0
       \/ NotOpened /\ UNCHANGED <<pc, rate, target, applied, pending, cooling>>
    /\ UNCHANGED <<left, source, latency, heard, sends>>

\* A payload; a device that was closed by an error is opened first.
SendPayload ==
    /\ pc = "idle" /\ sends < MaxSends
    /\ sends' = sends + 1
    /\ \E n \in Sizes :
        IF handle
        THEN pc' = "write" /\ left' = n /\ UNCHANGED <<deviceVars, latencyVars, rate>>
        ELSE \/ Opened(latency) /\ pc' = "write" /\ left' = n /\ rate' = 0 /\ UNCHANGED latency
             \/ NotOpened /\ UNCHANGED <<pc, left, latencyVars, rate>>
    /\ UNCHANGED <<source, heard>>

\* kMaxBufferedPeriods
OnePeriod == geometry.period \* mutant: the writer queues no more than one period
QueueLimit == 9 * geometry.period

Avail == geometry.buffer - queue

\* maybe_update_playback_rate_locked: the rate moves by one step, and the mixer is told.
UpdateRate ==
    \E r \in {rate - 1, rate, rate + 1} :
        /\ rate' = Clamp(r, -MaxRate, MaxRate)
        /\ heard' = IF rate' = rate THEN heard ELSE rate'

\* maybe_adjust_dynamic_latency_locked: a low buffer raises the target and a high one
\* lowers it; else it drifts back to the latency of the settings.
Baseline == Clamp(latency, MinLatency, MaxLatency)
Drifted == target + Clamp(Baseline - target, -1, 1)

AdjustLatency ==
    /\ target' \in {Clamp(target + Step, MinLatency, MaxLatency),
                    Clamp(target - 1, MinLatency, MaxLatency),
                    Drifted}
    /\ pending' = IF (target' - applied > Hysteresis \/ applied - target' > Hysteresis)
                        /\ (pending # 0 \/ ~cooling)
                  THEN target' ELSE pending
    /\ UNCHANGED <<latency, applied, cooling>>

\* One period at most, when the card has room for a period, and no more than the limit.
WriteFrames ==
    /\ pc = "write" /\ handle /\ left > 0 /\ card # "xrun"
    /\ Avail >= geometry.period
    /\ LET n == Min({left, geometry.period, QueueLimit - queue}) IN
        /\ n > 0
        /\ \E w \in 1 .. n :
            /\ queue' = queue + w /\ left' = left - w
            /\ card' = IF card = "running" THEN card ELSE CardWith(geometry, queue + w)
    /\ UpdateRate /\ AdjustLatency
    /\ UNCHANGED <<pc, handle, depth, note, geometry, source, sends>>

\* apply_pending_dynamic_latency_locked: the settings take the new latency, then the
\* device is closed and opened again.
Reopen(l) ==
    /\ latency' = l
    /\ rate' = 0
    /\ \/ Opened(l)
       \/ NotOpened /\ target' = l /\ applied' = l /\ pending' = 0 /\ cooling' = TRUE

PayloadWritten ==
    /\ pc = "write" /\ left = 0
    /\ pc' = "notify"
    /\ IF pending # 0 THEN Reopen(pending) ELSE UNCHANGED <<deviceVars, latencyVars, rate>>
    /\ UNCHANGED <<left, source, heard, sends>>

\* handle_dynamic_latency_xrun_locked
Boosted == Clamp(target + Boost, MinLatency, MaxLatency)

\* handle_write_error after an underrun. The card is prepared anew; where the target may
\* still grow it grows, and the device is opened anew with it, else it is filled again.
\* Whether it could be opened is not looked at.
Recover ==
    /\ pc = "write" /\ handle /\ card = "xrun"
    /\ rate' = 0
    /\ IF Boosted > target
        THEN Reopen(Boosted)
        ELSE /\ queue' = Prefill(geometry) /\ card' = CardWith(geometry, queue')
             /\ UNCHANGED <<handle, depth, note, geometry, latencyVars>>
    /\ UNCHANGED <<pc, left, source, heard, sends>>

\* The card cannot be recovered: it is closed and the payload dropped.
GiveUp ==
    /\ OpenFails /\ pc = "write" /\ handle /\ card = "xrun"
    /\ handle' = FALSE /\ queue' = 0 /\ card' = "prepared"
    /\ rate' = 0
    /\ pc' = "notify" /\ left' = 0
    /\ UNCHANGED <<depth, note, geometry, source, latencyVars, heard, sends>>

\* The noted width reaches the mixer, which mixes in it from now on.
NoteLost == source \* mutant: the mixer is not told the width the card took
SourceNoted == IF note = 0 THEN source ELSE note

Notify ==
    /\ pc = "notify"
    /\ source' = SourceNoted
    /\ note' = 0
    /\ pc' = "idle"
    /\ UNCHANGED <<left, handle, depth, geometry, queue, card, latencyVars, rateVars, sends>>

-----------------------------------------------------------------------------
(* The card, and time.                                                     *)

Drain ==
    /\ handle /\ card = "running" /\ queue > 0
    /\ Underruns \/ queue > 1
    /\ queue' = queue - 1
    /\ card' = IF queue = 1 THEN "xrun" ELSE card
    /\ UNCHANGED <<pc, left, handle, depth, note, geometry, source, latencyVars, rateVars, sends>>

Cool ==
    /\ cooling
    /\ cooling' = FALSE
    /\ UNCHANGED <<pc, left, deviceVars, source, latency, target, applied, pending, rateVars,
                   sends>>

Next ==
    \/ Setup \/ SendPayload \/ WriteFrames \/ PayloadWritten \/ Recover \/ GiveUp \/ Notify
    \/ Drain \/ Cool

Spec == Init /\ [][Next]_vars

\* The mixer thread goes on while it can, and a running card drains.
Fairness ==
    /\ WF_vars(WriteFrames) /\ WF_vars(PayloadWritten) /\ WF_vars(Recover) /\ WF_vars(Notify)
    /\ WF_vars(Drain)

FairSpec == Spec /\ Fairness

-----------------------------------------------------------------------------
\* The frames of a payload are as wide as the card takes them: a payload written in
\* another width would be read past its end or played as noise
\* (alsa_playback_sender.cpp:157-194, 318-372; sink_audio_mixer.cpp:1843-1877).
WidthAgrees == pc = "write" /\ handle => depth = source

\* The writer never goes on without a device (alsa_playback_sender.cpp:697-712, 1141).
WritesToADevice == pc = "write" => handle

\* "drift back toward baseline when stable" (audio_engine_settings.h:140): the latency the
\* controller drifts back to is the one that was configured.
DriftsBack == Baseline = Clamp(Configured, MinLatency, MaxLatency)

\* A payload is written, or dropped, in the end: send_payload returns, and with it the
\* mixer thread that stop() joins (alsa_playback_sender.cpp:757-881).
PayloadsEnd == (pc = "write") ~> (pc # "write")
=============================================================================
