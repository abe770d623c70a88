--------------------------- MODULE ListenerAudio ---------------------------
(***************************************************************************)
(* What a WebRTC listener hears of a sink: the mixing thread makes stereo  *)
(* of the mixed audio (output_mixer/sink_audio_mixer.cpp), the dispatcher  *)
(* gives each listener the stereo or the multichannel audio                *)
(* (output_mixer/listener_dispatcher.cpp), and the sender cuts it in Opus  *)
(* frames (senders/webrtc/webrtc_sender.cpp). The sink plays at 48 kHz,    *)
(* the rate the encoder takes whatever that of the sink.                   *)
(***************************************************************************)
EXTENDS Integers

CONSTANTS
    Formats,        \* of the sink: records [channels, bits]
    ChunkFrames,    \* frames of a chunk
    OpusFrame,      \* OPUS_SAMPLES_PER_FRAME
    Multichannel,   \* whether listeners may be given more than two channels
    MaxChunks       \* bound: chunks mixed

VARIABLES
    format,     \* the playback format of the sink
    channels,   \* opus_channels_ of the listener
    multi,      \* use_multistream_: streams and coupled streams, <<0, 0>> without
    connected,  \* the peer connection and its track are open
    pcm,        \* pcm_buffer_: its samples
    timestamp,  \* current_timestamp_
    lost,       \* frames that were not encoded, or not sent
    due,        \* chunks mixed while the listener was connected
    chunks      \* chunks mixed

vars == <<format, channels, multi, connected, pcm, timestamp, lost, due, chunks>>

\* The channels of the encoder: those of the sink, stereo when there may not be more
OpusChannels(n) == IF n > 2 /\ ~Multichannel THEN 2 ELSE n

\* resolve_opus_multistream_layout: pairs are coupled, the centre and the LFE are not
Layout(n) ==
    CASE n = 3 -> <<2, 1>> [] n = 4 -> <<2, 2>> [] n = 5 -> <<3, 2>>
      [] n = 6 -> <<4, 2>> [] n = 7 -> <<4, 3>> [] n = 8 -> <<5, 3>>
      [] OTHER -> <<0, 0>>

Init ==
    /\ format \in Formats
    /\ channels = OpusChannels(format.channels)
    /\ multi = Layout(channels)
    /\ connected = FALSE
    /\ pcm = 0 /\ timestamp = 0 /\ lost = 0 /\ due = 0
    /\ chunks = 0

ChunkBytes == (ChunkFrames * format.channels * format.bits) \div 8
MixBytes == ChunkFrames * format.channels * 4

OneStep == 1 \* mutant: the rest of the mixing buffer is left
Steps == MixBytes \div ChunkBytes

\* preprocess_for_listeners_and_mp3: the mixing buffer is taken in steps of the bytes of a
\* chunk, of samples of 32 bits, however few of them it leaves.
StereoSamples == 2 * Steps * (ChunkBytes \div (4 * format.channels))

\* dispatch_to_listeners: a multistream listener gets the mixed audio as long as it has the
\* channels the listener was made for.
Payload ==
    IF multi # <<0, 0>> /\ format.channels = channels
    THEN ChunkFrames * format.channels
    ELSE StereoSamples

\* send_payload: a payload that is not whole frames is dropped, the others are encoded
\* frame by frame; a frame that fails takes all that is buffered with it, a frame that
\* finds the track closed is not sent, and keeps no place in the timestamps.
EncodeAll(samples) ==
    LET frames == samples \div (OpusFrame * channels) IN
    \/ /\ pcm' = samples - frames * OpusFrame * channels
       /\ timestamp' = timestamp + frames * OpusFrame
       /\ UNCHANGED <<lost, connected>>
    \/ \E sent \in 0..(frames - 1) :
        /\ timestamp' = timestamp + sent * OpusFrame
        /\ \/ pcm' = 0
              /\ lost' = lost + (samples \div channels) - sent * OpusFrame
              /\ UNCHANGED connected
           \/ pcm' = samples - frames * OpusFrame * channels
              /\ lost' = lost + (frames - sent) * OpusFrame
              /\ connected' = FALSE

MixChunk ==
    /\ chunks < MaxChunks
    /\ chunks' = chunks + 1
    /\ IF ~connected
        THEN UNCHANGED <<connected, pcm, timestamp, lost, due>>
        ELSE /\ due' = due + 1
             /\ IF Payload % channels # 0
                THEN lost' = lost + Payload \div channels /\ UNCHANGED <<connected, pcm, timestamp>>
                ELSE EncodeAll(pcm + Payload)
    /\ UNCHANGED <<format, channels, multi>>

\* The connection opens; once lost it is not found again.
Connect ==
    /\ ~connected /\ due = 0
    /\ connected' = TRUE
    /\ UNCHANGED <<format, channels, multi, pcm, timestamp, lost, due, chunks>>

Next == MixChunk \/ Connect

Spec == Init /\ [][Next]_vars

-----------------------------------------------------------------------------
(* Properties.                                                             *)

\* The frames of a chunk of which a listener gets something.  The preparation of stereo
\* takes 24-bit chunks for whole frames of 32 bits and leaves a quarter of the mix; half
\* a frame of an odd chunk goes the same way.
Kept == CASE multi # <<0, 0>> -> ChunkFrames
          [] multi = <<0, 0>> /\ format.bits = 32 -> ChunkFrames
          [] multi = <<0, 0>> /\ format.bits = 24 -> (3 * ChunkFrames) \div 4
          [] multi = <<0, 0>> /\ format.bits = 16 -> 2 * (ChunkFrames \div 2)

\* An encoder of one channel takes the stereo it is given for twice as many frames.
Stretch == IF channels = 1 THEN 2 ELSE 1

\* What was mixed is heard once, neither dropped nor repeated at the boundaries of chunks
\* and of Opus frames: the time of the track, what waits for a whole frame and what was
\* lost make up what was due.  With two channels or more, 16 or 32 bits and an even chunk
\* that is all that was mixed, at the speed it was mixed; a listener of a mono sink hears
\* it at half the speed, and one that gets the stereo of a sink of 24 bits misses a
\* quarter (sink_audio_mixer.cpp:1260-1294, webrtc_sender.cpp:501-561).
HearsAllMixed == timestamp + pcm \div channels + lost = due * Stretch * Kept
=============================================================================
