----------------------------- MODULE SinkMixer -----------------------------
(***************************************************************************)
(* The mixing thread of a sink (output_mixer/sink_audio_mixer.cpp), the    *)
(* inputs that other threads connect and disconnect, the clock that ticks  *)
(* it, the drain control that speeds sources up, and the payload buffer    *)
(* between the mix and the sender.                                         *)
(*                                                                         *)
(* A packet is its number within its source; the source processor makes a  *)
(* chunk of it, or nothing. The processors work for the channel count the  *)
(* sink was configured with, which a playback device may overrule. Payload *)
(* is counted in units, ChunkUnits to a chunk. The hold after an underrun  *)
(* is left out: it decides nothing but what is logged.                     *)
(***************************************************************************)
EXTENDS Integers, Sequences, SequencesExt, FiniteSets, FiniteSetsExt

CONSTANTS
    Inputs,         \* the source processor instances
    MaxQueued,      \* mixer_tuning.max_queued_chunks
    Backlog,        \* the queue length that forces a tick (3)
    ChunkUnits,     \* units of payload in a chunk
    Amounts,        \* units a mix may become in the output post-processor
    Word,           \* the payload size wraps at this many units
    Configured,     \* the channels the sink was configured with
    Forced,         \* channel counts the device may force while playing
    Coordinated,    \* coordination_mode_ with a coordinator
    Speedups,       \* the drain control is enabled
    RingSize,       \* bound: packets in a ready ring
    MaxPackets,     \* bound: packets of a source
    MaxConnections, \* bound: times a source is connected
    MaxTicks        \* bound: ticks waiting

VARIABLES
    pc,         \* where the mixing thread is
    stop,       \* stop_flag_
    alive,      \* the processors that exist
    connected,  \* the keys of ready_rings_ and source_processors_
    conn,       \* connections of i so far: each has a ready ring of its own
    ring,       \* ring[i][k]: the ready ring of the k-th connection of i
    fed,        \* packets the timeshift manager has sent to i
    ready,      \* processed_ready_
    active,     \* the inputs whose input_active_state_ is true
    buffer,     \* source_buffers_
    todo,       \* the snapshot of inputs still to be emptied in this cycle
    hand,       \* the input just popped and the chunks made of its packet
    channels,   \* playback_channels_
    fill,       \* payload_buffer_fill_bytes_
    ticks,      \* clock ticks the thread has not consumed
    command,    \* source_last_rate_command_: the inputs told to hurry
    measured,   \* the inputs last measured, and those found over the upper band
    pending,    \* rate commands decided and not sent yet
    played      \* played[i]: the chunks of i that were mixed

inputVars == <<alive, connected, conn, ring, fed>>
queueVars == <<ready, active, buffer>>
drainVars == <<command, measured, pending>>
vars == <<pc, stop, inputVars, queueVars, todo, hand, channels, fill, ticks, drainVars, played>>

Empty == [x \in {} |-> 0]
Nothing == 0                            \* a source buffer without a chunk
None == [input |-> {}, chunks |-> <<>>]
Capacity == 8 * ChunkUnits

Set(f, k, v) == [x \in DOMAIN f \cup {k} |-> IF x = k THEN v ELSE f[x]]
Without(f, k) == [x \in DOMAIN f \ {k} |-> f[x]]

Init ==
    /\ pc = "tick" /\ stop = FALSE
    /\ alive = Inputs
    /\ connected = {}
    /\ conn = [i \in Inputs |-> 0]
    /\ ring = [i \in Inputs |-> [k \in 1..MaxConnections |-> <<>>]]
    /\ fed = [i \in Inputs |-> 0]
    /\ ready = Empty /\ buffer = Empty
    /\ active = {}
    /\ todo = {} /\ hand = None
    /\ channels = Configured
    /\ fill = 0
    /\ ticks = 0
    /\ command = {} /\ measured = [all |-> {}, over |-> {}] /\ pending = {}
    /\ played = [i \in Inputs |-> <<>>]

\* queues_mutex_ is held while the coordinator's barrier is waited for.
Unlocked == pc # "barrier"

-----------------------------------------------------------------------------
(* The other threads.                                                      *)

\* add_input_queue
AddInputQueue(i) ==
    /\ Unlocked /\ i \in alive \ connected /\ conn[i] < MaxConnections
    /\ connected' = connected \cup {i}
    /\ conn' = [conn EXCEPT ![i] = @ + 1]
    /\ ready' = Set(ready, i, <<>>)
    /\ active' = active \ {i}
    /\ buffer' = Set(buffer, i, Nothing)
    /\ UNCHANGED <<pc, stop, alive, ring, fed, todo, hand, channels, fill, ticks, drainVars, played>>

\* remove_input_queue; the disconnection takes the ring from the timeshift side too
RemoveInputQueue(i) ==
    /\ Unlocked /\ i \in connected
    /\ connected' = connected \ {i}
    /\ ready' = Without(ready, i)
    /\ active' = active \ {i}
    /\ buffer' = Without(buffer, i)
    /\ command' = command \ {i}
    /\ UNCHANGED <<pc, stop, alive, conn, ring, fed, todo, hand, channels, fill, ticks,
                   measured, pending, played>>

\* The engine destroys a processor that is connected to no sink.
DestroyProcessor(i) ==
    /\ i \in alive \ connected
    /\ alive' = alive \ {i}
    /\ UNCHANGED <<pc, stop, connected, conn, ring, fed, queueVars, todo, hand, channels, fill, ticks,
                   drainVars, played>>

\* The timeshift manager puts a packet in the ring; the oldest goes if it is full.
Feed(i) ==
    /\ i \in connected /\ fed[i] < MaxPackets
    /\ fed' = [fed EXCEPT ![i] = @ + 1]
    /\ ring' = [ring EXCEPT ![i][conn[i]] =
            Append(IF Len(@) = RingSize THEN Tail(@) ELSE @, fed[i] + 1)]
    /\ UNCHANGED <<pc, stop, alive, connected, conn, queueVars, todo, hand, channels, fill, ticks,
                   drainVars, played>>

ClockTick ==
    /\ ticks < MaxTicks
    /\ ticks' = ticks + 1
    /\ UNCHANGED <<pc, stop, inputVars, queueVars, todo, hand, channels, fill, drainVars, played>>

StopMixer ==
    /\ ~stop
    /\ stop' = TRUE
    /\ UNCHANGED <<pc, inputVars, queueVars, todo, hand, channels, fill, ticks, drainVars, played>>

-----------------------------------------------------------------------------
(* The mixing thread: run().                                               *)

Backlogged == \E i \in DOMAIN ready : Len(ready[i]) > Backlog

SnapshotActive == {<<i, conn[i]>> : i \in active} \* mutant: only the inputs that play
Snapshot == {<<i, conn[i]>> : i \in connected}

\* wait_for_mix_tick, and the snapshot that opens wait_for_source_data; a queue
\* that backs up is not made to wait for the clock.
WaitForTick ==
    /\ pc = "tick" /\ ~stop
    /\ \/ ticks > 0 /\ ticks' = ticks - 1
       \/ ticks = 0 /\ Backlogged /\ UNCHANGED ticks
    /\ todo' = Snapshot
    /\ pc' = "ingest"
    /\ UNCHANGED <<stop, inputVars, queueVars, hand, channels, fill, drainVars, played>>

\* stop_flag_ is looked at before the wait, after the collection and after the send.
HearStop ==
    /\ stop /\ pc \in {"tick", "listeners"}
    /\ pc' = "ended"
    /\ UNCHANGED <<stop, inputVars, queueVars, todo, hand, channels, fill, ticks, drainVars, played>>

\* One packet is popped and given to the processor, without any lock.
IngestPacket(i, k) ==
    /\ pc = "ingest" /\ <<i, k>> \in todo /\ ring[i][k] # <<>>
    /\ ring' = [ring EXCEPT ![i][k] = Tail(@)]
    /\ \E produced \in {<<>>, <<Head(ring[i][k])>>} :
        IF produced = <<>> THEN UNCHANGED <<pc, hand>>
        ELSE pc' = "append" /\ hand' = [input |-> {i}, chunks |-> produced]
    /\ UNCHANGED <<stop, alive, connected, conn, fed, queueVars, todo, channels, fill, ticks,
                   drainVars, played>>

RingDrained(i, k) ==
    /\ pc = "ingest" /\ <<i, k>> \in todo /\ ring[i][k] = <<>>
    /\ todo' = todo \ {<<i, k>>}
    /\ UNCHANGED <<pc, stop, inputVars, queueVars, hand, channels, fill, ticks, drainVars, played>>

\* Of what is over max_queued_chunks, as many of the oldest are dropped as the
\* time since the last drop has earned.
Dropped(q) ==
    {SubSeq(q, k + 1, Len(q)) : k \in 0..(IF Len(q) > MaxQueued THEN Len(q) - MaxQueued ELSE 0)}

QueueOf(i) == IF i \in DOMAIN ready THEN ready[i] ELSE <<>>

\* The chunks join processed_ready_[i], which this makes if it is not there.
AppendReady ==
    /\ pc = "append"
    /\ \E i \in hand.input : \E q \in Dropped(QueueOf(i) \o hand.chunks) :
        ready' = Set(ready, i, q)
    /\ hand' = None
    /\ pc' = "ingest"
    /\ UNCHANGED <<stop, inputVars, active, buffer, todo, channels, fill, ticks, drainVars, played>>

TakenTwice(i) == ready[i] \* mutant: the chunk stays in the queue
Taken(i) == Tail(ready[i])
Waiting == {i \in DOMAIN ready : ready[i] # <<>>}

\* The second half of wait_for_source_data: one chunk of each queue becomes the
\* input's buffer; a chunk made for another channel count is thrown away.
Collect ==
    /\ pc = "ingest" /\ todo = {}
    /\ ready' = [i \in DOMAIN ready |-> IF i \in Waiting THEN Taken(i) ELSE ready[i]]
    /\ active' = (active \ DOMAIN ready) \cup (IF channels = Configured THEN Waiting ELSE {})
    /\ buffer' = IF channels = Configured
                    THEN [i \in DOMAIN buffer \cup Waiting |->
                            IF i \in Waiting THEN Head(ready[i]) ELSE buffer[i]]
                    ELSE buffer
    /\ pc' = IF stop THEN "ended" ELSE IF Coordinated THEN "barrier" ELSE "mix"
    /\ UNCHANGED <<stop, inputVars, todo, hand, channels, fill, ticks, drainVars, played>>

\* coordinator_->begin_dispatch(), with queues_mutex_ held: go, or skip the cycle
BeginDispatch ==
    /\ pc = "barrier"
    /\ pc' \in {"mix", "tick"}
    /\ UNCHANGED <<stop, inputVars, queueVars, todo, hand, channels, fill, ticks, drainVars, played>>

\* downscale_buffer writes the mix, n units long after the post-processor, behind the
\* payload, as much of it as there is space for.
Downscaled(n) == fill + Min({n, Capacity - fill})

\* mix_buffers adds up the buffers of the active inputs.
MixBuffers ==
    /\ pc = "mix"
    /\ played' = [i \in Inputs |->
            IF i \in active \cap DOMAIN buffer THEN Append(played[i], buffer[i]) ELSE played[i]]
    /\ \E n \in Amounts : fill' = Downscaled(n)
    /\ pc' = IF Speedups THEN "drain" ELSE "send"
    /\ UNCHANGED <<stop, inputVars, queueVars, todo, hand, channels, ticks, drainVars>>

\* compute_input_buffer_metrics: the (smoothed) backlog of an input may be over the
\* upper band if it has any; the band and the smoothing are left open.
MeasureBacklog ==
    /\ pc = "drain"
    /\ \E over \in SUBSET {i \in connected : ring[i][conn[i]] # <<>> \/ QueueOf(i) # <<>>} :
        measured' = [all |-> connected, over |-> over]
    /\ pc' = "decide"
    /\ UNCHANGED <<stop, inputVars, queueVars, todo, hand, channels, fill, ticks,
                   command, pending, played>>

\* dispatch_drain_adjustments: an input over the band is to be hurried, one that has
\* settled is not; what was commanded before is not commanded again.
DecideRates ==
    /\ pc = "decide"
    /\ command' = (command \ measured.all) \cup measured.over
    /\ pending' = {<<i, i \in measured.over>> :
            i \in {j \in measured.all : (j \in measured.over) # (j \in command)}}
    /\ pc' = "rates"
    /\ UNCHANGED <<stop, inputVars, queueVars, todo, hand, channels, fill, ticks,
                   measured, played>>

\* send_playback_rate_command, to an input that is still there: its processor ignores
\* the command, the timeshift manager drives the rate.
SendRate(c) ==
    /\ pc = "rates" /\ c \in pending
    /\ pending' = pending \ {c}
    /\ UNCHANGED <<pc, stop, inputVars, queueVars, todo, hand, channels, fill, ticks,
                   command, measured, played>>

RatesSent ==
    /\ pc = "rates" /\ pending = {}
    /\ pc' = "send"
    /\ UNCHANGED <<stop, inputVars, queueVars, todo, hand, channels, fill, ticks, drainVars, played>>

\* handle_system_audio_format_change: for another format the payload buffer is emptied.
Refreshed(c) == IF c = channels THEN fill ELSE 0

\* Inside send_payload the device may report another format; after it the chunk that
\* was sent is taken off.
SendChunk ==
    /\ pc = "send" /\ fill >= ChunkUnits
    /\ \E c \in Forced \cup {channels} :
        /\ channels' = c
        /\ fill' = (Refreshed(c) - ChunkUnits) % Word
    /\ UNCHANGED <<pc, stop, inputVars, queueVars, todo, hand, ticks, drainVars, played>>

AllSent ==
    /\ pc = "send" /\ fill < ChunkUnits
    /\ pc' = "listeners"
    /\ UNCHANGED <<stop, inputVars, queueVars, todo, hand, channels, fill, ticks, drainVars, played>>

\* The stereo mix goes to the listeners and to the MP3 encoder.
Listeners ==
    /\ pc = "listeners" /\ ~stop
    /\ pc' = "tick"
    /\ UNCHANGED <<stop, inputVars, queueVars, todo, hand, channels, fill, ticks, drainVars, played>>

-----------------------------------------------------------------------------
Run ==
    \/ WaitForTick \/ HearStop \/ AppendReady \/ Collect \/ BeginDispatch \/ MixBuffers
    \/ MeasureBacklog \/ DecideRates \/ RatesSent \/ SendChunk \/ AllSent \/ Listeners
    \/ \E i \in Inputs, k \in 1..MaxConnections : IngestPacket(i, k) \/ RingDrained(i, k)
    \/ \E c \in Inputs \X BOOLEAN : SendRate(c)

Next ==
    \/ Run \/ ClockTick \/ StopMixer
    \/ \E i \in Inputs : AddInputQueue(i) \/ RemoveInputQueue(i) \/ DestroyProcessor(i) \/ Feed(i)

Spec == Init /\ [][Next]_vars

\* The thread runs and the clock ticks; the barrier lets a cycle through now and then.
Fairness == WF_vars(Run) /\ WF_vars(ClockTick)
FairSpec == Spec /\ Fairness

-----------------------------------------------------------------------------
(* Properties.                                                             *)

\* Whatever is connected, removed, dropped or skipped: the chunks of an input are
\* mixed in the order they were made, each in one cycle at most.
MixedInOrder ==
    \A i \in Inputs : \A k \in 1..(Len(played[i]) - 1) : played[i][k] < played[i][k + 1]

\* A chunk in the queue of an input is taken in the end, or dropped for lateness.
QueuedIsTaken ==
    \A i \in Inputs, k \in 1..MaxConnections :
        LET at == i \in connected /\ conn[i] = k /\ ring[i][k] # <<>> /\ ~stop
        IN at ~> ~at

\* "Removes an input queue": the mixer keeps nothing of an input that was removed.
RemovedIsForgotten ==
    \A i \in Inputs \ connected : i \notin DOMAIN ready \cup DOMAIN buffer

\* The mixer gives packets only to processors that exist.
ProcessorsAlive == pc = "append" => hand.input \subseteq alive

\* The payload never exceeds its buffer.
FillWithinBuffer == fill <= Capacity
=============================================================================
