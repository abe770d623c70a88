# Verification of the ScreamRouter audio engine

TLA+ models of the parts of `src/audio_engine` where threads, locks, queues and
positions have to agree, the TLC runs that check them on small instances, and
TLAPS proofs of what matters most for every instance. `PROJECT.json` lists the
components, runs, mutants, source lines, findings, hazards and theorems.

## 1. The system

ScreamRouter receives audio streams (RTP, Scream, PulseAudio, capture devices),
keeps the last minutes of every stream in one buffer, and routes each stream to
sinks (network receivers, devices, WebRTC listeners) through per-route
processors. A Python control plane computes the desired routes; a C++ engine
(about 47 000 lines) carries the audio.

| part | state it keeps | operations | talks to |
|---|---|---|---|
| RTP receivers (`receivers/rtp`) | a reorder buffer and a format per SSRC, announcements | receive, probe, time out | `TimeshiftManager::add_packet` |
| PulseAudio receiver (`receivers/pulse`) | connections, streams, tags, passed memory | commands, pacing, requests for audio | clock manager, timeshift manager |
| clock manager (`receivers/clock_manager.*`) | an entry per format, conditions | register, tick | mixers, PulseAudio streams |
| device monitor (`system_audio/`) | the registry of devices | scan, announce, stop | audio manager |
| timeshift manager (`input_processor/timeshift_manager.*`) | global buffer, a read position per processor, timing per stream, inbound queue | `add_packet`, register/unregister, seek, reset, `run` | packet rings, wildcard callback, pipeline provider |
| packet ring (`utils/packet_ring.h`) | a circular buffer, two indices | `push` (timeshift thread), `pop` (mixer thread) | |
| thread-safe queue (`utils/thread_safe_queue.h`) | deque, stop flag, condition variable | `push`, `push_bounded`, `pop`, `try_pop`, `stop` | |
| source manager | instances, wildcard parents and children | configure, spawn child, remove | timeshift manager |
| sink manager | mixers and their configurations | add, remove, inputs of a mixer | mixers |
| connection manager | the ring of each (sink, source) pair | connect, disconnect, list | sink manager, timeshift manager |
| audio manager, receiver manager | all of the above, coordinators, capture receivers | the engine's API, wildcard matches, start and shutdown | every manager |
| source and audio processor (`input_processor/`, `audio_processor/`) | accumulated input, chunks of the sink's format, settings | ingest a packet, set | mixer |
| sink audio mixer (`output_mixer/`) | input rings, processors, mixing buffers, MP3 worker | start, stop, the mixing loop | rings, coordinator, sender |
| mix scheduler, listener dispatcher (`output_mixer/`) | ready chunks per source; listeners | attach, collect; dispatch | mixer |
| senders (`senders/`) | sockets, devices, counters, threads of their own | set up, send, close | mixer |
| WebRTC manager | listeners and the clients they belong to | add, remove, clean up | dispatcher |
| synchronization (`synchronization/`) | barrier, reference clock | register sink, wait at the barrier, report | mixers |
| configuration applier (`configuration/`) | the active configuration | reconcile a desired state | audio manager |
| control plane (`screamrouter/configuration`) | sources, sinks, groups, routes, temporary entities | edit, solve, apply | applier |

What is hard in it, and what would make each part correct:

* **Positions in a buffer that moves.** The cleanup pops the front of the deque
  while every processor holds an index into it; jumps of the RTP clock, stream
  resets and timeshift changes move the indices; a wildcard processor binds to a
  stream when it meets it. Correct means: an index never leaves the buffer, no
  packet of the stream is passed over without a reason that is counted, packets
  leave in order and once, and a processor plays one stream.
* **Hand-over between threads.** The ring has no lock; the queue notifies after
  it unlocked; the run loop is told of work by a counter that moves outside the
  mutex of the condition variable. Correct means: nothing is lost, repeated or
  reordered, nobody sleeps on work, and a stop is heard.
* **Two threads that rewire the engine.** The caller configures, connects and
  removes while the timeshift thread spawns children of wildcard sources and
  connects them. Correct means: a mixer reads the rings that are written, points
  only to live processors, and every stream is played once.
* **A desired state reached step by step.** Calls fail half-way, streams come and
  go during an application, and sources are made anew. Correct means: what the
  applier believes the engine to have is what it has.
* **Starting and stopping.** Parts point to each other and run threads; a sink is
  set up on a thread of its own; callbacks arrive after a removal began. Correct
  means: a thread never outlives what it uses, and every stop returns.
* **Locks.** Five locks nest. Correct means: no set of threads waits in a circle.
* **Sinks that dispatch together.** Mixer threads meet at a barrier while sinks
  time out, join and leave. Correct means: nobody waits for a round that cannot
  be completed, and the barrier opens only for a complete one.
* **Audio that is cut and pasted.** Packets, chunks, payloads, frames of an
  encoder and periods of a card divide one another only sometimes, and formats
  change in between. Correct means: what is left over is carried on, in the
  format it has, and what is lost can be seen to be lost.
* **A network that reorders, repeats and loses.** Sequence numbers of 16 bits
  wrap, a missing packet is waited for, then made up; senders come back under
  other identifiers. Correct means: packets leave in order and once, none
  disappears, nothing is held for ever, and each is decoded as it was encoded.

## 2. The plan

Done, in the order of importance: `TimeshiftBuffer`, `PacketRing` over
`DropOldestQueue`, `ThreadSafeQueue`, `TimeshiftRunLoop`, `RoutingGraph`,
`SyncBarrier`, `RtpReordering`, the life of a mixer and its scheduler
(`MixerLifecycle`, `MixScheduler`) and the engine's (`EngineLifecycle`),
`EngineLocks`, the mixing thread (`SinkMixer`), the reconciliation
(`ConfigApplier`), what audio becomes on its way (`SourceProcessor`, `SpeakerMix`,
`ListenerAudio`), the senders (`RtpSender`, `MultiRtpSender`, `AlsaPlayback`,
`WebRtcListeners`) and the inputs (`RtpSessions`, `PulseReceiver`, `ClockManager`,
`DeviceMonitor`). Every safety property that a passing run checks is proved too
(section 5); the tables of `SpeakerMix` are evaluated.

To come:

1. Composition: `SinkMixer` as the third process of `RoutingGraph` and at the
   barrier of `SyncBarrier`; `ConfigApplier` over `RoutingGraph` in place of the
   engine it now has by its effects.
2. The values of parameters: the delay and timeshift of a wildcard source and of
   its children across control API, source manager and timeshift manager.
3. The Python solver and temporary entities, up to the desired state.
4. Abstract specifications: the reordering buffer as a machine that emits an
   increasing subsequence of what arrived; the barrier as rounds.
5. Proofs: the refinement of the abstract specifications of 4; the safety
   properties of what 1 to 3 add. Those of the present runs are proved.

## 3. The modules

### TimeshiftBuffer

`global_timeshift_buffer_` is the pair (`log`, `base`): everything ever appended
and the number popped from the front. The code's index `i` is
`log[base + i + 1]`. `idx`, `bound`, `matched`, `delay` and `shift` are the
fields of `ProcessorTargetInfo`; `timing` is the set of streams with a timing
state. `data_mutex_` is held through a pass, so control calls and ingest need
`pc = "idle"`; `ResetTiming`, the second critical section of
`reset_stream_state`, takes another mutex and may come between any two visits of
a pass. A visit of one packet by one processor is one action, and after any
visit the 10 ms budget may cut the pass. `start`, `sent`, `late`, `untimed` and
`evicted` are history: what became of the packets since the processor was last
positioned.

Abstracted: the expected arrival of a packet (a Kalman filter in the code) is
the time it was received; the rate controller, the statistics and the sinks'
rings are left out; the map's iteration order is the constant `Order`.

### DropOldestQueue, PacketRing

`DropOldestQueue` is what the header promises: a bounded queue that discards and
counts the oldest packet when it is full. `PacketRing` is the code, one action
per load, store or slot access, of two threads that nothing keeps apart: a pop may
come anywhere in an overflowing push. The ring then implements the queue under the
mapping `Content` until the copy of `head_` that one thread has in hand falls two
behind; from there on it does not keep its order (see the findings).
`gone`, `pGone` and `cGone` are history: `head_` and the two copies of it, counted
without wrapping, and `lapped` says that one of the copies has fallen two behind.
A copy that is one behind does no harm: the packet dropped while it is popped is
delivered and counted as discarded, or its store is the same as the other's.

### ThreadSafeQueue

One action per critical section of `mutex_`, and one for each notification,
which comes after the unlock. `waiting` are the consumers inside `wait`, `woken`
those whose wait returns; a wait may return for no reason.

### TimeshiftRunLoop

Receivers (`Offer`, `Route`, `Push` or `IngestDirectly`, `Bump`, `NotifyOne`),
the thread (`Test`, `TryPop`, `Drained`, `Ingest`, `Pass`, `TestWait`, `Block`,
`Timeout`, `Update`), control calls, `start()` and `stop()`. A notification
reaches only a thread that is blocked already; between `TestWait` and `Block`
the thread holds `data_mutex_`, which `add_packet` and `stop()` do not take when
they notify. The pass of `TimeshiftBuffer` is one step here. `Timeout` may come
at any time, which covers every value of `calculate_next_wakeup_time`.
`register_processor`, which bumps and notifies after it released the mutex,
behaves like the end of a receiver's call.

### RoutingGraph

`sources`, `children`, `parent`, `sinks`, `rings` are the managers' maps,
`inputs` the two maps of each mixer, `registered`, `fed`, `bound` and `matched`
what the timeshift manager keeps of each instance. The user's calls come one
after the other (the configuration applier serialises them with its
`apply_mutex_`); each is split into its critical sections. The timeshift thread
is the second process: `Meet` binds and reports, `Match` to `Linked` is
`handle_wildcard_match`. `ResetStream`, which a PulseAudio receiver calls, may
come between any two passes: who was bound to the stream is free again and keeps
what it has met, so that it may bind to a stream that a child plays, and its own
is not reported again. `ended` is history: the streams that were reset while the
source was bound to them. `PlayedOnce` speaks of sources none of whose own streams
was reset, `StreamPlayed` of the streams met less those reset; what a reset
promises no document says. Rings have identities, so that a stale ring shows.

Left out: the values of parameters, the audio itself, the mixer thread.

### EngineLocks

A call is the sequence of its lock operations; a thread begins a call, acquires
and releases. `manager` is recursive, the others are not. The locks under which
nothing else is locked are left out, since they cannot be part of a cycle. The
engine can deadlock (see the findings): `OnlyPassAndAttach` says that in every
circle of waiting threads a pass that asks for the fill levels and a call that
attaches or detaches a ring wait for each other, so that there is no other way.

### EngineLifecycle

`made` and `bound` tell of each part of the engine which generation of it exists
and which generations it was given pointers to; `initialize()` may run again
after a failure and then replaces parts while the threads of the first time go
on. `stage` is what is left of `initialize()` or of `shutdown()`. The second
thread adds and removes sinks, with their coordinators, and asks for captures:
`usage` is the count per device, `held` what callers were granted. A device may
fail to start, to restart, or end by itself.

### ConfigApplier

`shadow` is what the applier believes (`active_sinks_`, `active_source_paths_`);
`sources`, `sinks`, `links` and `captures` are what its calls made of the engine.
`goal` is the effective state, in which wildcard paths have a clone per stream,
and `todo` what the steps of `apply_state` have still to work on: sinks and paths
to remove, paths to add and update, sinks to add and to update with their
connections. A call of the engine may fail. `notifier` is the thread that applies
the last state again when a stream comes or goes.

`Added` is the addition of a path: a capture device may refuse its reference, of
which the code only warns, and the path is made all the same. Where others refer to
the device the reference is counted although it was refused, elsewhere not; if the
source then fails, only a granted reference is given back. The removal gives one
back in any case, of a device without references to no effect (`Released`); and a
path that is made anew takes a second one. `refused` and `leaked` are the history of
this, by which `ShadowIsEngine` bounds the counts: the paths of a device are at most
its references and the refusals, its references at most the paths and the leaks.
`lost` are the connections of paths that were made anew; that they would be made
again is what a comment promises, and `Reestablished` says it without exception.

A configuration is its identity: which of its fields are compared is not
modelled.

### SyncBarrier

`active` is `sinks_`, `ready` is `sinks_ready_count_`, `reference` stands for
`reference_initialized_` and `enabled_`, which `add_sink` sets together. Each
sink's mixer mixes, arrives and perhaps sleeps (`Begin`, `Bypass`, `Open`,
`Sleep`, `TimeOut`); one caller adds and removes sinks, a step per critical
section (`AddSink`, `AskStats`, `Register`, `Enable`; `RemoveSink`,
`WakeSleepers`, `Disable`). The count of sinks and the arrival are one step
because an unregistration between them touches nothing the arrival writes.
`barrier_generation_` is not a variable: whoever sleeps leaves in the step that
advances it. `TimeOut` may come at any time.

Sinks in `ByManager` are added by `AudioManager::add_sink`; the others are
registered at a running clock directly, as `test_global_sync_clock.cpp` does and
as the interface of the coordinator allows. They matter: of the sinks that
`add_sink` adds, the second never gets into the clock (see the findings), so
everything the barrier does with several sinks is about those.

Left out: timing reports, the rate adjustment, disabling the clock (no caller
does), the destruction of a coordinator while its mixer uses it (that is
`EngineLifecycle`), and a second registration of the same sink.

### SinkMixer, MixerLifecycle, MixScheduler

`SinkMixer` is the mixing loop: `ring[i][k]` is the ready ring of the k-th
connection of an input, `ready` is `processed_ready_`, `buffer` the chunk of each
source for this cycle, `fill` the payload not sent yet. Other threads connect,
disconnect, destroy and feed between any two of its critical sections; `hand` and
`todo` are what the loop read before. `command` and `measured` belong to the
drain control. A packet is its number within its source.

`MixerLifecycle` is `start_async()`, `start()` and `stop()`: the startup thread
that sets the sender up and launches the mixing thread, the mixing thread waiting
for its tick, and the worker of the MP3 encoder. The legacy MP3 thread and the
encoder that replaces it have the same loop and the same stop, and are one.

`MixScheduler` has a worker per source between the queue of its processor and a
bounded ready queue; one caller attaches, detaches and shuts down. A chunk
without audio is the `Sentinel` by which a worker is woken to stop. The timing
fields of a chunk are left out.

### SourceProcessor, SpeakerMix, ListenerAudio

`SourceProcessor` ingests a packet in steps: a change of the format, the
accumulator (`ring` with its `fragments`), a chunk of it through the audio
processor, and the chunks of the sink's format cut from what that makes. How many
frames a stage takes and makes is computed as the code does; the samples are not
there. The control thread changes settings in between. `Ahead`, the frames before
a fragment, is a recursive function; what a chunk takes of the fragments is said at
once (`LeftAfter`), where the code loops.

`SpeakerMix` is without state: the tables of the automatic mix, the choice of a
custom one, the taps that are made of it and the mixing of a frame. Its three
properties (no output channel is louder than full scale, which pairs of layouts
are silent, and the shortcut for one tap computes what the general loop does) are
about finitely many tables; `MCOutput` assumes them, so TLC evaluates them all.

`ListenerAudio` follows a chunk from the mix to the Opus frames of a WebRTC
listener, for each format of the sink. `due` are the chunks mixed while the
listener was connected; what a listener gets of them must be sent, wait in `pcm`,
or be in `lost`. What it gets is not all of them: the stereo preparation cuts
chunks of the mix by the bytes of the sink's format, so that of 24 bits a quarter
is left (`Kept`), and the encoder of a mono sink takes stereo for mono, which
halves the speed (`Stretch`). `HearsAllMixed` says what is heard for each format.

### RtpSender, MultiRtpSender, AlsaPlayback, WebRtcListeners

`RtpSender` has the owner (`setup`, payloads, `close`) and the SAP and RTCP
threads with their sockets. `wire` is what was sent, with sequence numbers,
timestamps and the frames each packet stands for; a send may fail. `Opus` makes
it the Opus sender, whose encoder may fail. `MultiRtpSender` splits a sink over
receivers, with the thread that reports for all of them.

`AlsaPlayback` has the mixing thread, which writes a payload a period at a time,
and the card, which drains its buffer. It opens in a width the card accepts,
recovers from an underrun by reopening, and changes its latency the same way
after a cooldown. `heard` is the rate the mixer was last told. The playback rate
moves by a bounded choice: the controller behind it is numerical.

`WebRtcListeners` has four kinds of threads: the API, the setup thread of each
listener, the callbacks of its peer connection, and the mixing thread that sends
and drops the closed ones in two steps; also the removal of the sink and the
shutdown. The state of a connection is a choice, made by libdatachannel.

### RtpReordering

`buffer` maps sequence numbers, which are remainders modulo `Modulus`, to
packets; a packet's `id` is its position in the stream, which the code does not
see. `position` is history: the position `next` stands for. The network may
deliver any position less than half the sequence space away from the expected
one, again and again. `Arrive` is the common part of `add_packet`, split into
its four outcomes; after it and at a `Poll` the thread is in `get_ready_packets`,
one action per round of the loop. `Skip` makes the missing packets up or not,
whatever the formats are. Ages are counted up to `MaxDelay`, beyond which the
code does not distinguish.

Left out: payloads, timestamps, and the other streams of the receiver.

### RtpSessions

The receiver's table of streams: `lastSsrc`, `lastAddr`, `held`, `probe`,
`detected` and `known` are its maps, `sapSsrc` and `sapHost` the announcements,
`session` and `wire` the senders. A reordering buffer is what it holds back here:
nothing, packets behind a gap, or packets that waited long enough. Which format a
probe scores best is the one the packets were encoded in. Parsing is left out.

### PulseReceiver

`phase` and `pc` are of the connection's thread, which goes through its loop:
tick the streams, send due chunks, read, decode one message after the other,
write. `streams` are the playback streams of a connection with their queued and
missing audio, `composites`, `known` and `nextTag` the tags they share with others
of the same program. They are two maps, each with a mutex of its own, and are
changed in one step here: between the two calls of the code (pulse_receiver.cpp:936,
1018) they disagree for a moment, in which nothing that is modelled reads them.
`pools`, `pendingFds`, `opened` and `closed` follow the file
descriptors that arrive beside the messages. The client may send any command of
`Ops` at any time, and go away. A `recvmsg` brings one message here, with the file
descriptor sent beside it, and the thread reads on while the socket has more.

### ClockManager, DeviceMonitor

`ClockManager` keeps per format the time to its next tick; the worker arms a
timer for the earliest, waits without the mutex, and ticks the conditions the
entry has by then. `ahead` is history: the time the ticks of a client stand for
less the time it was registered.

`DeviceMonitor` has the hardware and the runtime directory of the ALSA plugin,
the monitor's thread with its inotify watch and its pipe, the notification
thread, and a caller that lists. What ALSA says of a device is its number. The
directory holds FIFOs and manifests, some from the start, and a manifest may say
that its device is absent (`denying`). The registry holds that, but the
announcement says present, since `Compare` goes by what was scanned: so
`AnnouncedIsRegistered` excepts the tags of such manifests (`denied`), of which a
client errs only in believing them present.

### MC modules

`MCTimeshiftBuffer`, `MCRoutingGraph`, `MCEngineLocks` and `MCConfigApplier` give
the constants that are functions or sets their values. `MCRuntime`, `MCEngine`,
`MCOutput` and `MCInputs` leave the constants of their components open, so that
theorems about them hold for all their values; a cfg gives them, and TLC evaluates
what the theorems assume of them.

`MCRuntime`, `MCEngine`, `MCOutput` and `MCInputs` put components that share no
state side by side. Each EXTENDS one component and has INSTANCEs of others on
variables of their own. The variable `kind` is chosen by `AllInit` and never
changes: it says which component a behaviour is of, and the state of the others
stays as it is. So the state space is the sum of those of the components, not
their product, and a property of one of them is checked in every state it can
reach. Some components appear twice under different constants, where one small
instance cannot show everything.

## 4. The runs

| run | what it contains | shows |
|---|---|---|
| `runtime` | `MCRuntime`: `ThreadSafeQueue` (2 producers, 2 consumers, 1 poller, bound 2, 4 items), `PacketRing` (3 slots, 7 pushes, any overlap with pops), `TimeshiftRunLoop` (2 receivers, queue of 2, 2 packets, 1 call), `EngineLifecycle` (1 sink, 1 device, 2 initializations, 4 calls), `MixerLifecycle` with and without MP3 (2 starts), `MixScheduler` bounded by time (3 ms in chunks of 2) and by number (1) (1 source, 3 chunks, 2 attachments) | no lost wakeup, stops that are heard and return, order per receiver, the version covers the queue, the ring implements its queue until it is lapped, nothing dangles, captures are served, a stopped mixer or detached source leaves nothing |
| `timeshift` | 2 processors (wildcard and concrete), 2 streams, 3 packets, 2 calls, 3 ticks, shifts 0 and 2, late by 2 ticks is too late | all safety properties with binding, noting, seeks, resets, late discards and evictions; every processor catches up |
| `engine` | `MCEngine`: `RoutingGraph` (2 sinks, 2 instances, 2 rings, 2 streams of one wildcard, resets), `EngineLocks` (4 threads, every call), `ConfigApplier` (2 desired states, 1 stream, 1 capture that two paths share, 2 applications, failures and refusals) | inputs fed, streams played once but for resets, no circular wait but of a pass and an attachment, the shadow is the engine |
| `output` | `MCOutput`: `SyncBarrier` (4 sinks, one added by the manager), `SinkMixer` twice, `WebRtcListeners`, `SourceProcessor`, `ListenerAudio`, `AlsaPlayback` twice, `RtpSender` and `MultiRtpSender` with PCM and with Opus, and the tables of `SpeakerMix` | complete rounds and nobody stranded, chunks mixed in order and once, one listener per client, no audio of an old format, no frame lost unseen, widths that agree, sockets that outlive their threads, receivers in lockstep |
| `inputs` | `MCInputs`: `RtpReordering` (8 sequence numbers, 2 slots, 5 arrivals, 1 reset), `RtpSessions` (one source, announced or not; two sources), `PulseReceiver` (a client that plays, one with two streams, two clients, one that passes memory), `ClockManager` (one client of two formats, two of one), `DeviceMonitor` (a card and a manifest of the runtime directory; with and without a caller that lists) | order and no silent loss, formats, tags and file descriptors, no tick ahead of time, what was announced is registered; what is due is served, and what was stopped stops |
| `packet_ring_overlap` | 3 slots, 9 pushes | **violated**: order, once `head_` moves twice under a pop or a push that has a copy of it |
| `locks_connecting` | 4 threads, every call | **violated**: circular wait |
| `routing_dangling` | 1 sink, 2 instances, 2 rings | **violated**: children outlive their processors in the mixer |
| `sync_barrier_added` | 2 sinks, both added by the manager | **violated**: the second `add_sink` does not return |
| `rtp_busy` | 2 sources | **violated**: held packets of a stopped stream, while another goes on |
| `coordinator` | 1 sink | **violated**: the coordinator goes before the mixer |
| `applier_recreated` | 1 path, 1 sink, 2 formats | **violated**: the new instance of a path stays unconnected |

Why the bounds are enough. Three packets of `timeshift` are one to be removed,
one to be read and one to be ahead of both; three slots of the ring leave two
packets, the least with an oldest that is not the newest, and seven pushes go
round it twice; two consumers and two producers are the least with which a
notification can reach the wrong thread; two instances are two sources or a
wildcard source with a child (a second stream of the wildcard is met when the
first is bound), two rings are the least with which one is
replaced, two sinks with which a mixer stays while another goes; four sinks leave two that sleep while one arrives
and another joins or leaves; with eight sequence numbers a stream wraps after one
or two packets, a full buffer of two is met with a third packet ahead of, between
and behind those held, and the large gap of 3 exceeds the size of the buffer as
192 exceeds 128 in the code. Two initializations are a failed one and the next;
two starts of a mixer are one that is stopped while it starts and one that is
not. The two desired states of `engine` differ in everything the applier can find
different: a volume, a format, a sink's configuration, a path and a sink more.
Payloads of 3 frames meet packets of 2, so that a remainder is carried on and
used up; chunks of 4 frames meet Opus frames of 3. Two SSRCs are the least for a
source to change between, two sources for one to come back under the other's;
clocks of two formats have periods of which one is twice the other. The symmetry
of `engine` permutes the two tags, which the one filter covers alike, and the two
sinks, which the other components do not name; that run checks invariants only. The worker of `clients` may be six units late, with a period of
four: less would not take a client past the bound if ticks were made up for. What
the bounds cut off is covered by the theorems for the safety properties, under the
assumptions on constants of section 5; the liveness properties have only the bounds.

Other invariants are stated in the modules and not in a run because a checked
property implies them, a theorem proves them, or they say little more than a
guard: the type invariants of the components that are not on their own,
`Conserved` and `Bounded` (proved) of the queue, `CountCoversSleepers` (proved) of
the barrier, `NoneBehind` and `MadeUpWasMissing` (proved) of the reordering buffer,
`MappedIsLive` and `SourcesServed` (proved) of the graph, `NoSlotRace` (proved) of
the ring until it is lapped,
`StreamsNoticed` of the timeshift buffer.

`CHECK_DEADLOCK FALSE` is given where a system may stop: when the bound on
packets, sinks or calls is used up, or after `stop()`. `TimeshiftBuffer`, the
locks and the ring (whose consumer polls for ever) run with deadlock checked in
the runs of their own.

### Fairness

* `TimeshiftBuffer`: the thread, the clock and the second critical section of a
  reset go on; packets and calls need not come.
* `ThreadSafeQueue`: a thread that is not blocked goes on; a consumer calls
  `pop` again, as `process_notifications` does.
* `TimeshiftRunLoop`: the thread goes on, and a blocked one at the latest at its
  deadline of `loop_max_sleep_ms`; `stop()` and a receiver's call, once begun,
  go on. Nobody has to offer packets or to stop the engine.
* `MixerLifecycle`: the startup thread, `stop()`, the mixing thread (whose wait
  has a timeout) and the MP3 worker go on; nobody has to call.
* `MixScheduler`: a call once begun and the workers go on.
* `SinkMixer`: the mixing thread goes on and the clock ticks; nobody has to feed
  it.
* `WebRtcListeners`: the mixing thread looks for closed listeners and removes
  them; peers and callers need not do anything.
* `AlsaPlayback`: a payload once begun goes on, and a running card drains.
  `RtpSender`: `close()` and the two threads go on; their waits are bounded.
* `SyncBarrier`: the caller's thread goes on when it is not blocked. Mixers need
  not mix and deadlines need not pass.
* `RtpReordering`: a call of `get_ready_packets` ends, a receiver without packets
  polls its buffers (`epoll_wait` has a timeout), and time passes between polls
  (strong fairness, since a poll is always possible in between). Packets need
  not come. `MaxArrivals` makes the receiver fall quiet, so that what is said of
  `Held` is about a receiver none of whose streams has packets.
* `RtpSessions`: the thread goes on, a socket that has packets again and again is
  read (strong fairness: the thread is elsewhere in between), and time passes.
* `PulseReceiver`: the thread of a connection goes on, a client that reads lets
  the write queue become empty again and again, and a playing stream is ticked
  and its chunk comes due (strong fairness: both are disabled between).
* `ClockManager`: the worker goes on and time passes. `DeviceMonitor`: the
  monitor, the notifier and a caller once in a call go on, and so does `stop()`.
* `EngineLocks`, `RoutingGraph`, `EngineLifecycle`, `ConfigApplier`,
  `SourceProcessor`, `ListenerAudio`, `MultiRtpSender`: none; they have safety
  properties only.

`MCInputs` states the fairness of several components as that of one disjunction.
That is the same: a behaviour keeps its kind, so at most one disjunct is ever
enabled, and weak or strong fairness of the disjunction is weak or strong
fairness of that action. `WaitsEnd` of the MC modules is the conjunction of the
liveness properties of their components, each for its own kind.

## 5. What is proved

`TimeshiftBufferProofs` proves, for every set of processors, tags, filters and
every value of the tuning constants: `TypeOK`, `IndexInBuffer`,
`NothingSkipped`, `DispatchedInOrder` and `OneStream`. The properties are not
inductive by themselves; `IInv` adds for each registered processor (`PInv`) that
its position lies between `start` and the end of the log, that every packet in a
history lies behind the position and after `start`, and how the bound tag agrees
with the filter: without the first the cleanup could leave an index behind,
without the second a dispatch could repeat a packet. The proof has a lemma per
action; a single lemma (`Repositioned`) serves every action that repositions,
and one (`Moved`) every visit that advances. Assumptions: the constants' types,
and that no concrete tag is a filter.

`InputsProofs` proves the safety properties of the run `inputs`, as theorems about
its specification `AllSpec` for all values of the constants; where a component has
several instances the proof is about all of them at once.

* The reordering buffer (`InOrder`, `NoSilentLoss`, `NoneBehind` and
  `MadeUpWasMissing`), for every even sequence space, buffer size, delay and start
  of the stream. The code compares sequence numbers modulo 2^16, the properties
  speak of positions in the stream; the bridge is arithmetic: of two positions less
  than one turn apart, the difference of the remainders is the remainder of the
  difference (`Difference`, `Window`), so that a packet held is exactly as far
  ahead as its number says (`Placed`). `InOrder` is not inductive: that what is
  handed on next comes after everything handed on before follows only when no
  packet held lies behind the expected position (`NoneBehind`), and this again
  holds for the first packet only because an unstarted buffer is empty
  (`Unstarted`). The assumption is `ReorderingAssumption`: the constants' types, an
  even positive sequence space, a positive size and gap. Of the network the module
  assumes that no packet comes more than half the sequence space late or half or
  more early.
* The clock manager (`NeverAhead`). `GivenWithin` bounds what a client will have
  been given by the time to the next tick of its entry: at most a period and a half
  more, since an entry is advanced past the present or to less than half a period
  behind it. A client that joins an entry which is late is caught up with it, and an
  entry made anew while the worker has the timer of the old one in hand is ticked at
  once (`EntriesInTime`, `FiredEarly`). So the bound is two and a half periods. Two
  seem enough and are exceeded, as the proof showed first: a client that joins an
  entry which is late gets the tick that is due, soon after it another one, since
  the entry may stay up to half a period late, and then the next on time.
  `ClockConstants` assumes formats of at least 8 bits, and a positive chunk and
  lateness.
* The device monitor (`AnnouncedIsRegistered`): what a client has heard, overridden
  by the latest notice in the queue, is the registry, or the monitor still has the
  notice to push (`ToldOrOwed`), but for the tags of manifests that deny, of which a
  client is told present by whatever notice is the latest; and the registry a scan is compared with is the
  one that is replaced (`ScanIsOfRegistry`).
* The sessions (`DecodedAsSent`). All the receiver has by which to tell the format
  of an SSRC (packets fed to the probe, a format found, packets held back) is of one
  format, and of the present one if the source was last heard with that SSRC
  (`EvidenceIsTrue`); what is left of an earlier session is dropped when the source
  is heard with another. It needs that no two sources have an SSRC in common
  (`Distinct`), which the module assumes of the senders. `SessionConstants` says
  that "none" is neither an SSRC nor a format.
* The PulseAudio receiver, its four instances at once. For `TagsMatchStreams`
  (`TagInv`), that the names of streams differ, since the numbers they are made of
  were never given before (`NamesNew`, `NamesDiffer`): otherwise the end of one
  stream would take the tag of another away. For `FdsAccounted` (`FdInv`), that
  there is a function which gives every file descriptor its one place
  (`PlacedBy`): closed, on the wire, in hand, or the memory of a pool. Each step
  moves at most a few of them, and the property, which is about unions, follows
  from the function.

`OutputProofs` proves the safety properties of the run `output` in the same way.

* The barrier (`CountCoversSleepers`, `NobodyStranded` and `RoundComplete`), for
  every finite set of sinks. Their conjunction is not inductive: `BInv` adds that a
  sink which is about to join does not take part yet (`Newcomer`), without which a
  registration could complete a set of sleepers, and that until a sink has left, all
  that take part are registered and the count is exactly the number of sleepers
  (`Undisturbed`), without which the last arrival need not complete the round. The
  argument is arithmetic on cardinalities; the lemmas `Counting` and `NotMore` bring
  it down to the library's facts.
* The mixing thread (`MixedInOrder`), with and without the drain control. From what
  was mixed to the rings everything is in order: the chunk of this cycle, the queue,
  what the thread has in hand, and of the rings the one it still empties and the
  present one (`XChain`). A ring that was replaced is not read again, which is what
  the two rings of `XAhead` say.
* The source processor (`AccumulatorIsCurrent`): that the fragments are all of the
  present format, and that there are numbers which count the frames up to each of
  them and end with what the ring holds (`Counts`). A chunk takes some fragments
  whole and perhaps a part of the next (`Cut`). That the recursive function `Ahead`
  is what its definition says, and that `Counts` agrees with it, is shown by the
  least number for which it would fail (`SumsExist`, `SumsAgree`, `AheadCounts`).
* Listeners: `OneListenerPerClient` needs that a sink that is up has no listener
  the manager does not know, but for the one about to be registered (`WKnown`), and
  that while a request evicts the older listeners of its client none is left out
  (`WEvicts`); `HearsAllMixed`, that the buffer has whole frames (`HInv`) and that a
  payload is what the format keeps of a chunk, which is arithmetic on the sizes,
  format by format.
* Senders: `SocketsOutliveThreads` follows from where `setup()` or `close()` is
  (`RThreads`); `LossIsSeen` needs besides how far the media time is behind what was
  given (`RLoss`); `InLockstep`, that a packet is over or is the one the receivers
  take turns for (`MInTurn`); `WidthAgrees`, that a new width is noted for the mixer
  before the next payload (`AInv`).

The assumptions are on constants: sizes are positive (`SenderConstants`,
`MixerConstants`, `SourceConstants`, `WebConstants`), and the formats of a sink are
those the engine has, 1 to 8 channels of 16, 24 or 32 bits (`ListenerConstants`).

`PacketRingProofs` proves `RingIsQueue`, the refinement of `DropOldestQueue`, for
every capacity and every interleaving of the two threads, until `lapped` holds; the
run `packet_ring_overlap` shows what comes then. That a pop overlaps an overflowing
push is part of it: a pop whose copy of `head_` is one behind pops the packet that
the push drops. Of the steps of the two
threads only the store that publishes a packet, the store that steps over the
oldest and the store that steps over the popped one are steps of the queue; the
rest stutter under `Content`. The indices say little by themselves, since they
wrap: `RInv` ties them to counts that do not (`Taken`, the packets dropped or
popped, and `pushed`), so that the slot of the k-th packet is k modulo the
capacity (`Places`, `Stored`), with the locals of a push and a pop under way
(`Pushing`, `Popping`). The ring is full when the counts are one less than
the capacity apart (`Slots`); the arithmetic modulo the capacity is proved from
the definition of the remainder. From the same invariant follow
`NoSlotRace` and `DeliveredInOrder`.

`TimeshiftRunLoopProofs` proves `ReceiverOrder` and `VersionCoversQueue` for any
receivers and any number of packets (`MaxPackets`, by which a run bounds them, is
not used). `ReceiverOrder` is not inductive: that the next packet of a receiver
may be appended to what was accepted needs that it is newer than all of it
(`Newest`), and a receiver that ingests directly may do so only because nothing
of it is queued (`DirectFirst`), although the engine may have been started since
it looked; before the start nothing is queued at all (`NotStarted`).
`VersionCoversQueue` speaks of the sleeping thread only; `Told` says it of every
step from the end of the draining on.

`RoutingGraphProofs` proves `InputsFed`, `PlayedOnce` and `StreamPlayed`, for any
sinks, tags, filters and any number of instances and rings. Both processes run in
many small steps, so that the invariant is mostly about what they have in hand.
`SInv` is about the maps: what a call in progress may still do (`Victim`), that
the child the timeshift thread registers cannot be reached by the caller
(`InHand`), that a listed child is live and knows its parent (`MappedIsLive`).
`FInv` adds the rings: `InputsFed` would be lost when a sink is removed and added
again, or a removed source comes back, if inputs of a mixer that is gone
(`NoMixer`) or of a source that is not served (`Unattached`) could be left.
`PInv` adds the streams: a wildcard source that has lost none of its streams to a
reset is bound to the first it met (`BoundFirst`), what it meets later has a child or a report that is true
(`Accounted`, `ReportsTrue`), the report is taken only when the child is listed
(`Spawned`), and listed children are registered but for the one in hand
(`ChildServed`). `FInv` and `PInv` are inductive relative to `SInv`. The only
assumption is `RoutingAssumption`. `MappedIsLive`, `SourcesServed` and the
module's `TypeOK` are proved on the way.

`RuntimeProofs` proves the safety properties of the run `runtime`, as theorems
about its specification `AllSpec` for all values of the constants; `Apart` says
that a step of the whole is a step of one component and leaves the others alone.
For the ring and the run loop that is enough, since `MCRuntime` has instances of
their proof modules, whose theorems carry over. The other components are proved
here:

* the queue (`NoSleepOnWork`, `StopHeard` and `Bounded`), for finite sets of
  producers and consumers of any size. `NoSleepOnWork` counts: the items in the
  queue are at most the woken consumers plus the notifications still to be sent,
  as long as somebody sleeps; the proof needs the cardinality lemmas for adding
  and removing one thread (`AddThread`, `RemoveThread`);

* the mixer (`StopLeavesNothing`): what a stop still has to do at each of its
  steps (`StoppingDown`) relies on what the startup thread may still create
  (`StartingUp`) and on a worker that is there only for its mixer (`Settled`).
  With and without MP3, with any number of starts;
* the scheduler (`DetachedIsGone`, for which `Controls` says that the source a
  call is about is one; and `ChunksCounted`, by which the counters of a source
  agree with what is ready), for any sources and both kinds of bound;
* the engine (`NothingDangles`, `CapturesServed`). `Staged` says where
  initialize() or shutdown() is, from which the position of every stage in the
  order follows (`MakingStages`, `StoppingStages`). A part is made after all it
  points to (`PointsBack`), so that what this initialize() has made points to
  what it has made (`MadeSoFar`); and while parts are replaced or destroyed only
  threads run that point to nothing (`ThreadsSoFar`). For the captures: nobody
  holds one any more when shutdown() destroys the receivers (`NoneHeld`).

The assumptions are on constants: `RingConstants`, `SchedConstants`, and
`EngineConstants`, without which `NothingDangles` is false: if the start of the
statistics or of the notifier throws, the receivers run already and nothing stops
them, and a second initialize() would replace the timeshift manager under them.
Any other stage may throw as often as it likes.

`EngineProofs` proves `OnlyPassAndAttach` and `ShadowIsEngine`, as theorems about
the specification `AllSpec` of the run `engine`, whose constants for the locks
and the applier are parameters of `MCEngine`.

* The locks: what a thread holds follows from its call and how many steps of it
  are done. `Leads` is a small logic of sequences of lock operations: a sequence
  leads from one set of locks to another, and never asks for a lock of a lower
  rank than it holds, except that a pass asks for the managers' and an attachment
  for the buffer with the managers' in hand (`Ordered`). Each call is brought
  down to its sections by it (`CallsLead`), for any names of threads and any
  choice of calls. In a circle whoever waits for a lock other than the
  managers' waits for a thread that waits for one of a higher rank, or for a pass
  that waits for the managers' (`FurtherDown`), and there are four ranks: so there
  is such a pass. Who holds the managers' lock meanwhile is attaching a ring and
  waits for the buffer (`ManagerHolder`), which that pass holds (`Crossed`). The
  circle of a pass and an attachment itself is real (run `locks_connecting`).
  `LockConstants` assumes only that threads make calls that are listed.
* The applier: `ShadowIsEngine` speaks of the moments between two applies. In
  the middle of one the links of a sink may be of a path that is gone already;
  `LinksDue` says that such a sink is still to be removed or updated, and
  `Joined` that the engine has exactly the connections of the paths that are
  there, less those lost when a path was made anew (`Standing`). Instances are not
  reused (`Fits`), and the references of a capture differ from its paths by no more
  than was refused in the one direction and leaked in the other (`Counted`). There
  is a lemma per step of `apply_state`, each brought down to what dropping or adding
  one path or one sink does. `StateConstants` assumes the shape of desired states
  and that their sinks play paths of their own; tags and formats may change in any
  way. What `ShadowIsEngine` leaves out for that, the connections of paths made
  anew, is what the run `applier_recreated` refutes.

Only model-checked: the liveness properties (`CaughtUp`, the conjuncts of
`WaitsEnd`), which are out of the prover's reach: for these a run shows the property
on the instances of section 4 and no more. The tables of `SpeakerMix` are finite, and
TLC evaluates all of them.

## 6. Findings

Seven runs are expected to be violated; each is a sentence of the repository that
the code does not keep, quoted in `PROJECT.json`:

* the ring's overflow moves `head_` under a concurrent pop, and when it has done so
  twice packets are delivered twice or empty (`packet_ring_overlap`);
* `connect_source_sink` and the timeshift thread take `m_manager_mutex` and
  `data_mutex_` in opposite orders (`locks_connecting`);
* the children of a removed wildcard source are destroyed while mixers point to
  them (`routing_dangling`);
* with synchronization enabled, `add_sink` of the second sink of a sample rate
  locks `sinks_mutex_` twice and never returns (`sync_barrier_added`);
* a receiver looks at its held packets only when none of its streams had a packet
  for a whole poll interval, so those of a stream that stopped are held as long as
  another goes on (`rtp_busy`);
* `remove_sink` destroys the coordinator before it stops the mixer that points to
  it (`coordinator`);
* a source path that is made anew because its format changed is not connected
  again (`applier_recreated`).

Read in the code while modelling it, and not the subject of a run:

* Timeshift: a timeshifted processor is held back only by one dispatch per pass;
  the clamp of the lateness to 200 ms makes the default `max_catchup_lag_ms`
  ineffective; a notification of the run loop may fall between the test and the
  wait, so that the thread sleeps to its deadline (`VersionCoversQueue` shows that
  the work itself is not lost).
* Managers: after the reset of a stream a wildcard source may bind to a stream that
  a child of it plays, and its own is then played by nobody (both are states of
  `RoutingGraph`); a connect to a missing sink returns true; after a failed
  `initialize()` the threads already started go on, since `shutdown()` returns
  while `m_running` is false; after a sink has left, the next round of the barrier
  may open early; `reordering_buffers_` of a receiver is never shortened.
* Applier: `reapply_cached_state` may apply a state older than the one applied
  meanwhile; a second application after a failed one adds what it believes missing
  again. The references of captures are not exact (`refused` and `leaked` of the
  module): a device that refuses is only warned of, its path gives back a reference
  it never got, which may be another path's; a reference may stay counted when its
  path is not made; and a path of a capture that is made anew is counted twice
  (`process_source_path_updates` releases no reference).
* Mixer: the collect loop uses processors after it unlocked; stopping a mixer with
  an MP3 queue may wait for a worker that missed the notification.
* Processors: the automatic mix of several pairs of layouts, even to odd, is
  silent; 8-bit audio is decoded to nothing.
* Senders: a PCM packet that is not sent drops the rest of its payload while the
  media clock stands still; a failed setup leaves a socket open; the multi-device
  PCM sender sends to disabled receivers; listeners of a sink with 24-bit samples
  miss a quarter of it, and those of a mono sink hear it at half the speed
  (`HearsAllMixed` says both); the playback latency
  of a card does not drift back, and its rate stays after a recovery.
* Inputs: the fallback to the announcement of a host applies to every stream of
  it; a device whose manifest says present=0 is announced as present, and its removal
  is not announced; corking a PulseAudio stream drops its queued chunks, and each tick without
  audio adds another request; a scan of the runtime directory triggers the next,
  and `list_system_devices` may store an older snapshot than the notifier did.

## 7. Not modelled

* **Signal processing** (resampling, equaliser, dither, the Kalman filter of the
  stream clock, rate controllers): arithmetic on real numbers; the models have
  the number of frames a stage takes and makes, or a bounded choice of a rate.
* **Parsing and formatting** of packets, announcements and the PulseAudio
  protocol, and the sockets and devices themselves: they belong to the network
  and the operating system, which the models have as other actors.
* **Scream and the other plain senders**: a header and a socket; nothing is
  waited for and nothing shared. **Byte ring buffer**: used by one thread at a
  time, a few lines that a unit test settles.
* **Windows audio and the desktop overlay**: access to the Windows interfaces and
  a user interface; no shared state of the engine goes through the overlay.
* **Python configuration and API, plugins, preferences, mDNS**: request handlers
  and storage; the model begins at the desired state (`ConfigApplier`).
* **Web frontend and the ALSA plugin**: a user interface and a shim in another
  process.
* Of modelled components: what each leaves out is said in section 3 and in
  `PROJECT.json`.
