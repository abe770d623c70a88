--------------------------- MODULE SourceProcessor ---------------------------
(***************************************************************************)
(* The processor of a source (input_processor/source_input_processor.cpp)  *)
(* with the audio processor it drives (audio_processor/audio_processor.cpp)*)
(* The mixing thread feeds it packets: a packet may change the format, its *)
(* audio goes through an accumulator to the audio processor in chunks, and *)
(* what that makes is cut in chunks of the sink's format. Meanwhile the    *)
(* control thread changes settings.                                        *)
(*                                                                         *)
(* Audio is counted in frames; a playback rate is in tenths.               *)
(***************************************************************************)
EXTENDS Integers, Sequences, FiniteSets

CONSTANTS
    Formats,        \* of the packets: records [channels, bits, rate]
    Sizes,          \* of the packets, in frames
    Misaligned,     \* whether some payload is not a whole number of frames
    Rates,          \* the playback rates that the timeshift asks for
    OutChannels, OutRate,   \* of the sink
    ChunkFrames,    \* base_frames_per_chunk_
    Oversampling,   \* oversampling_factor
    Settings,       \* the settings the control thread changes
    MayFail,        \* whether an audio processor may fail to be made
    MaxPackets      \* bound: packets

VARIABLES
    format,     \* m_current_ap_*: the format of the last audio processor made
    alive,      \* audio_processor_ is there
    ring,       \* input_ring_buffer_: its frames
    fragments,  \* input_fragments_: records [format, left, sentinel]
    rate,       \* current_playback_rate_
    buffered,   \* process_buffer_: frames of the sink's format
    pending,    \* pending_sentinel_samples_, in frames
    pc,         \* the step of ingest_packet
    packet,     \* the packet it is about
    chunk,      \* the input chunk dequeued: [frames, sentinel]
    current,    \* current_volume_, current_eq_, ...: what was last asked for
    applied,    \* the same settings of the audio processor
    packets     \* packets so far

inputVars == <<ring, fragments>>
outputVars == <<buffered, pending>>
settingVars == <<current, applied>>
vars == <<format, alive, inputVars, rate, outputVars, pc, packet, chunk, settingVars, packets>>

NoFormat == [channels |-> 0, bits |-> 0, rate |-> 0]
NoPacket == [format |-> NoFormat, frames |-> 0, aligned |-> TRUE, rate |-> 10, sentinel |-> FALSE]
NoChunk == [frames |-> 0, sentinel |-> FALSE]
Default == 0    \* the value of a setting that nobody has changed

Init ==
    /\ format = NoFormat /\ alive = FALSE
    /\ ring = 0 /\ fragments = <<>>
    /\ rate = 10
    /\ buffered = 0 /\ pending = 0
    /\ pc = "idle" /\ packet = NoPacket /\ chunk = NoChunk
    /\ current = [s \in Settings |-> Default] /\ applied = current
    /\ packets = 0

-----------------------------------------------------------------------------
(* ingest_packet                                                           *)

\* Packets without audio are passed over.
Receive ==
    /\ pc = "idle" /\ packets < MaxPackets
    /\ packets' = packets + 1
    /\ \E f \in Formats, n \in Sizes, a \in {TRUE, ~Misaligned}, r \in Rates, s \in BOOLEAN :
        packet' = [format |-> f, frames |-> n, aligned |-> a, rate |-> r, sentinel |-> s]
    /\ pc' = IF packet'.frames = 0 THEN "idle" ELSE "check"
    /\ UNCHANGED <<format, alive, inputVars, rate, outputVars, chunk, settingVars>>

Valid(f) == f.channels \in 1..8 /\ f.bits \in {8, 16, 24, 32} /\ f.rate > 0

\* The rate of a packet counts, clamped, even when its audio does not.
RateOf(r) == IF r < 5 THEN 5 ELSE IF r > 20 THEN 20 ELSE r

\* The settings that a new audio processor is given; the two normalizations are not.
Carried == {"volume", "eq", "layouts"} \intersect Settings
Given(S) == [s \in Settings |-> IF s \in S THEN current[s] ELSE Default]

KeepAccumulator == UNCHANGED inputVars \* mutant: what is accumulated stays
ResetAccumulator == ring' = 0 /\ fragments' = <<>>

EqualizerLost == Given(Carried \ {"eq"}) \* mutant: the equalizer is not given again
NewSettings == Given(Carried)

\* check_format_and_reconfigure: a format that differs needs a new audio processor, and
\* the accumulator starts again; without one the packet is discarded.
Reconfigure ==
    \/ /\ alive' = TRUE /\ format' = packet.format
       /\ applied' = NewSettings
       /\ ResetAccumulator
       /\ pc' = "append"
    \/ /\ MayFail
       /\ alive' = FALSE
       /\ pc' = "idle"
       /\ UNCHANGED <<format, applied, inputVars>>

CheckFormat ==
    /\ pc = "check"
    /\ rate' = RateOf(packet.rate)
    /\ IF ~Valid(packet.format) \/ ~packet.aligned
        THEN pc' = "idle" /\ UNCHANGED <<format, alive, applied, inputVars>>
        ELSE IF ~alive \/ packet.format # format
        THEN Reconfigure
        ELSE pc' = "append" /\ UNCHANGED <<format, alive, applied, inputVars>>
    /\ UNCHANGED <<outputVars, packet, chunk, current, packets>>

\* append_to_input_accumulator
AppendPacket ==
    /\ pc = "append"
    /\ ring' = ring + packet.frames
    /\ fragments' =
        Append(fragments, [format |-> packet.format, left |-> packet.frames, sentinel |-> packet.sentinel])
    /\ pc' = "dequeue"
    /\ UNCHANGED <<format, alive, rate, outputVars, packet, chunk, settingVars, packets>>

\* The input of a chunk is the longer the slower it plays, ten percent at most.
Rounded(a, b) == (2 * a + b) \div (2 * b)
Required ==
    IF 100 < 9 * rate THEN Rounded(9 * ChunkFrames, 10)
    ELSE IF 100 > 11 * rate THEN Rounded(11 * ChunkFrames, 10)
    ELSE Rounded(10 * ChunkFrames, rate)

\* The frames before fragment i, and the fragments of the first n frames, whole or in part
Ahead[i \in Nat] == IF i <= 1 THEN 0 ELSE Ahead[i - 1] + fragments[i - 1].left
Touched(n) == {i \in DOMAIN fragments : Ahead[i] < n}
LeftAfter(n) ==
    LET whole == {i \in Touched(n) : Ahead[i] + fragments[i].left <= n}
        rest == SubSeq(fragments, Cardinality(whole) + 1, Len(fragments))
    IN
    IF Touched(n) = whole THEN rest
    ELSE [rest EXCEPT ![1].left = Ahead[Cardinality(whole) + 1] + @ - n]

\* try_dequeue_input_chunk: a chunk is a sentinel if any of its fragments is.
Dequeue ==
    /\ pc = "dequeue"
    /\ IF ring < Required
        THEN pc' = "idle" /\ UNCHANGED <<inputVars, chunk>>
        ELSE /\ ring' = ring - Required
             /\ chunk' = [frames |-> Required,
                          sentinel |-> \E i \in Touched(Required) : fragments[i].sentinel]
             /\ fragments' = LeftAfter(Required)
             /\ pc' = "process"
    /\ UNCHANGED <<format, alive, rate, outputVars, packet, settingVars, packets>>

CeilDiv(a, b) == (a + b - 1) \div b

\* scaleBuffer: a chunk of the processor's own fixed length; 8 bits cannot be decoded
Read == IF format.bits = 8 THEN 0 ELSE ChunkFrames

\* resample: to the sink's rate at this playback rate, oversampled. The resampler may hold
\* frames back, or fail.
Upsampled(n) ==
    IF OutRate * rate * Oversampling = format.rate * 10 THEN {n}
    ELSE 0..CeilDiv(n * OutRate * rate * Oversampling, format.rate * 10)

\* downsample: the oversampling undone
Downsampled(n) == IF Oversampling = 1 THEN {n} ELSE 0..CeilDiv(n, Oversampling)

\* processAudio: volume, speaker mix and equalizer change no length.
Generated == UNION {Downsampled(n) : n \in Upsampled(Read)}

\* process_audio_chunk
ProcessChunk ==
    /\ pc = "process"
    /\ \E n \in Generated :
        /\ buffered' = buffered + n
        /\ pending' = IF chunk.sentinel THEN pending + n ELSE pending
    /\ pc' = "push"
    /\ UNCHANGED <<format, alive, inputVars, rate, packet, chunk, settingVars, packets>>

\* push_output_chunk_if_ready: whole chunks go out, flagged while a sentinel is pending.
PushChunks ==
    /\ pc = "push"
    /\ IF buffered < ChunkFrames
        THEN pc' = "dequeue" /\ UNCHANGED outputVars
        ELSE /\ buffered' = buffered - ChunkFrames
             /\ pending' = IF pending < ChunkFrames THEN 0 ELSE pending - ChunkFrames
             /\ UNCHANGED pc
    /\ chunk' = NoChunk
    /\ UNCHANGED <<format, alive, inputVars, rate, packet, settingVars, packets>>

Mixer == Receive \/ CheckFormat \/ AppendPacket \/ Dequeue \/ ProcessChunk \/ PushChunks

-----------------------------------------------------------------------------
(* The control thread: set_volume, set_eq, set_speaker_mix, ...            *)

SetSetting(s, v) ==
    /\ current' = [current EXCEPT ![s] = v]
    /\ applied' = IF alive THEN [applied EXCEPT ![s] = v] ELSE applied
    /\ UNCHANGED <<format, alive, inputVars, rate, outputVars, pc, packet, chunk, packets>>

Next == Mixer \/ \E s \in Settings, v \in {0, 1} : SetSetting(s, v)

Spec == Init /\ [][Next]_vars

-----------------------------------------------------------------------------
(* Properties.                                                             *)

\* What is accumulated is audio of the format that the audio processor decodes, and its
\* fragments account for all of it, whatever formats have come and gone.
AccumulatorIsCurrent ==
    /\ \A i \in DOMAIN fragments : fragments[i].format = format /\ fragments[i].left > 0
    /\ ring = Ahead[Len(fragments) + 1]

\* The audio processor has the settings that were last asked for, whether they were asked
\* for before or after the format changed.
SettingsApplied == alive => applied = current

\* A chunk is as long as what the audio processor reads of it.
ReadsItsChunk == pc = "process" => chunk.frames = ChunkFrames

\* What processAudio makes fits the buffer it is given: eight channels of twice the bytes
\* of the input.
BufferSamples ==
    LET bytes == (format.channels * format.bits) \div 8 IN
    2 * bytes * (IF chunk.frames > ChunkFrames THEN chunk.frames ELSE ChunkFrames) * 8
OutputFits == pc = "process" => \A n \in Generated : n * OutChannels <= BufferSamples
=============================================================================
