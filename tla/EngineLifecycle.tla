-------------------------- MODULE EngineLifecycle --------------------------
(***************************************************************************)
(* Bringing the engine up and taking it down (managers/audio_manager.cpp,  *)
(* managers/receiver_manager.cpp): the parts AudioManager creates, the     *)
(* threads they run, the objects each of them keeps a raw pointer to, the  *)
(* sinks with their coordinators, and the counted capture receivers.       *)
(*                                                                         *)
(* A part is its generation: initialize() may run again after a failure,   *)
(* and replaces every part it made the first time. Two threads call the    *)
(* engine: one initializes it and shuts it down, one adds and removes sinks*)
(* and captures.                                                           *)
(***************************************************************************)
EXTENDS Naturals, FiniteSets, SequencesExt

CONSTANTS
    Sinks,          \* the sinks the caller adds and removes
    Tags,           \* the capture devices
    MayFail,        \* stages of initialize() that may throw
    DeviceFails,    \* a capture receiver may fail to start, or end by itself
    MaxInits,       \* bound: calls of initialize()
    MaxCalls        \* bound: calls about sinks and captures

VARIABLES
    running,        \* m_running
    stage,          \* the stages of initialize() or shutdown() still to go, or <<>>
    doing,          \* "idle", "initialize" or "shutdown"
    made,           \* the generation of each part, 0 when there is none
    bound,          \* the generation of every part it points to, when it was made
    threads,        \* the parts whose thread runs
    inits,          \* calls of initialize() so far
    failed,         \* the last initialize() returned false
    mixers,         \* m_sinks: the sinks with a mixer, whose thread runs
    leaving,        \* mixers taken out of the map and not yet stopped
    coordinators,   \* sink_coordinators_
    pointing,       \* the mixers whose coordinator_ is set
    registered,     \* the sinks registered at the synchronization clock
    call,           \* the call of the other thread: [op, sink], op "none" when it is idle
    usage,          \* capture_receiver_usage_, 0 for a tag that is not there
    capture,        \* capture_receivers_: "none", "on" or "ended"
    held,           \* the references each tag's callers were granted and keep
    calls           \* calls so far

partVars == <<made, bound, threads>>
controlVars == <<running, stage, doing, inits, failed>>
sinkVars == <<mixers, leaving, coordinators, pointing, registered>>
captureVars == <<usage, capture, held>>
vars == <<controlVars, partVars, sinkVars, captureVars, call, calls>>

Receivers == {"rtp", "raw", "process", "pulse"}

\* The raw pointers each part is constructed with.
PointsTo ==
    [timeshift |-> {}, enumerator |-> {}, sources |-> {"timeshift"}, sinks |-> {"timeshift"},
     receivers |-> {"timeshift"}, webrtc |-> {"sinks"}, connections |-> {"sources", "sinks"},
     control |-> {"timeshift", "sources"}, mp3 |-> {"sinks"},
     stats |-> {"timeshift", "sources", "sinks"}, rtp |-> {"timeshift"}, raw |-> {"timeshift"},
     process |-> {"timeshift"}, pulse |-> {"timeshift", "receivers"}, notifier |-> {}]

Parts == DOMAIN PointsTo

\* The stages of initialize(), in their order: what is made, then what is started.
Making == <<"timeshift", "enumerator", "sources", "sinks", "receivers", "webrtc",
            "connections", "control", "mp3", "stats", "network">>
Starting == <<"start_timeshift", "start_receivers", "start_stats", "start_notifier">>

\* The stages of shutdown(), after the notifier is joined and the mutex given back.
Stopping == <<"stop_sinks", "stop_sources", "stop_receivers", "stop_stats",
              "stop_timeshift", "stop_enumerator">>
Clearing == <<"receivers", "webrtc", "mp3", "control", "connections", "sinks", "sources",
              "timeshift", "stats", "enumerator", "clear">>

Init ==
    /\ running = FALSE
    /\ stage = <<>> /\ doing = "idle" /\ inits = 0 /\ failed = FALSE
    /\ made = [p \in Parts |-> 0]
    /\ bound = [p \in Parts |-> [q \in Parts |-> 0]]
    /\ threads = {}
    /\ mixers = {} /\ leaving = {} /\ coordinators = {} /\ pointing = {} /\ registered = {}
    /\ usage = [t \in Tags |-> 0] /\ capture = [t \in Tags |-> "none"]
    /\ held = [t \in Tags |-> 0]
    /\ call = [op |-> "none", sink |-> "none"] /\ calls = 0

\* make_unique and the assignment: the new object points to the parts of now, the old
\* one, if any, is destroyed and its thread with it.
Make(ps) ==
    /\ made' = [p \in Parts |-> IF p \in ps THEN inits
                    ELSE IF p \in Receivers /\ "receivers" \in ps THEN 0 ELSE made[p]]
    /\ bound' = [p \in Parts |-> IF p \in ps
                    THEN [q \in Parts |-> IF q \in PointsTo[p] THEN made[q] ELSE 0]
                    ELSE bound[p]]

Destroy(ps) ==
    /\ made' = [p \in Parts |-> IF p \in ps THEN 0 ELSE made[p]]
    /\ bound' = [p \in Parts |-> IF p \in ps THEN [q \in Parts |-> 0] ELSE bound[p]]
    /\ threads' = threads \ ps

-----------------------------------------------------------------------------
(* initialize(), under m_manager_mutex throughout.                         *)

CallInitialize ==
    /\ doing = "idle" /\ inits < MaxInits /\ ~running
    /\ doing' = "initialize" /\ inits' = inits + 1
    /\ stage' = Making \o Starting /\ failed' = FALSE
    /\ UNCHANGED <<running, partVars, sinkVars, captureVars, call, calls>>

AtStage(s) == stage # <<>> /\ Head(stage) = s

\* One part; a new ReceiverManager has no receivers yet. The enumerator is started as
\* soon as it is there, and forgotten again if that fails.
MakePart ==
    /\ doing = "initialize"
    /\ \E p \in Parts :
        /\ AtStage(p)
        /\ \/ /\ Make({p})
              /\ threads' = CASE p = "enumerator" -> threads \cup {p}
                              [] p = "receivers"  -> threads \ Receivers
                              [] OTHER            -> threads \ {p}
           \/ p = "enumerator" /\ p \in MayFail /\ Destroy({p})
    /\ stage' = Tail(stage)
    /\ UNCHANGED <<running, doing, inits, failed, sinkVars, captureVars, call, calls>>

\* ReceiverManager::initialize_receivers: the receivers of the network and of PulseAudio.
MakeReceivers ==
    /\ doing = "initialize" /\ AtStage("network")
    /\ Make(Receivers) /\ UNCHANGED threads
    /\ stage' = Tail(stage)
    /\ UNCHANGED <<running, doing, inits, failed, sinkVars, captureVars, call, calls>>

StartStage(s) == CASE s = "start_timeshift" -> {"timeshift"}
                   [] s = "start_receivers" -> Receivers
                   [] s = "start_stats" -> {"stats"}
                   [] s = "start_notifier" -> {"notifier"}

StartPart ==
    /\ doing = "initialize"
    /\ \E s \in ToSet(Starting) : AtStage(s) /\ threads' = threads \cup StartStage(s)
    /\ stage' = Tail(stage)
    /\ UNCHANGED <<running, doing, inits, failed, made, bound, sinkVars, captureVars,
                   call, calls>>

Initialized ==
    /\ doing = "initialize" /\ stage = <<>>
    /\ running' = TRUE /\ doing' = "idle"
    /\ UNCHANGED <<stage, inits, failed, partVars, sinkVars, captureVars, call, calls>>

\* A stage throws: the handler calls shutdown(), which finds m_running false and
\* returns, and initialize() returns false.
InitializeFails ==
    /\ doing = "initialize" /\ stage # <<>> /\ Head(stage) \in MayFail \ {"enumerator"}
    /\ failed' = TRUE /\ stage' = <<>> /\ doing' = "idle"
    /\ UNCHANGED <<running, inits, partVars, sinkVars, captureVars, call, calls>>

-----------------------------------------------------------------------------
(* shutdown()                                                              *)

\* The flag and the notification thread, with the mutex held; then the mutex is free.
CallShutdown ==
    /\ doing = "idle" /\ running /\ call.op = "none"
    /\ running' = FALSE /\ doing' = "shutdown"
    /\ threads' = threads \ {"notifier"}
    /\ stage' = Stopping \o Clearing
    /\ UNCHANGED <<inits, failed, made, bound, sinkVars, captureVars, call, calls>>

At(s) == doing = "shutdown" /\ AtStage(s) /\ stage' = Tail(stage)
         /\ UNCHANGED <<running, doing, inits, failed, call, calls>>

\* remove_sink for each, then SinkManager::stop_all.
StopSinks ==
    /\ At("stop_sinks")
    /\ mixers' = {} /\ leaving' = {} /\ coordinators' = {} /\ pointing' = {} /\ registered' = {}
    /\ UNCHANGED <<partVars, captureVars>>

\* SourceManager::stop_all releases the captures its sources hold.
StopSources ==
    /\ At("stop_sources")
    /\ usage' = [t \in Tags |-> usage[t] - held[t]]
    /\ capture' = [t \in Tags |-> IF usage[t] = held[t] THEN "none" ELSE capture[t]]
    /\ held' = [t \in Tags |-> 0]
    /\ UNCHANGED <<partVars, sinkVars>>

\* stop_receivers and cleanup_receivers, the captures included.
StopReceivers ==
    /\ At("stop_receivers")
    /\ Destroy(Receivers)
    /\ usage' = [t \in Tags |-> 0] /\ capture' = [t \in Tags |-> "none"]
    /\ UNCHANGED <<held, sinkVars>>

StopThread(s, p) == At(s) /\ threads' = threads \ {p}
                    /\ UNCHANGED <<made, bound, sinkVars, captureVars>>

StopStatsForgotten == At("stop_stats") /\ UNCHANGED <<partVars, sinkVars, captureVars>> \* mutant
StopStats == StopThread("stop_stats", "stats")

StopTimeshift == StopThread("stop_timeshift", "timeshift")
StopEnumerator == StopThread("stop_enumerator", "enumerator")

ClearPart ==
    /\ \E p \in Parts : At(p) /\ Destroy({p})
    /\ UNCHANGED <<sinkVars, captureVars>>

ClearRest ==
    /\ doing = "shutdown" /\ AtStage("clear")
    /\ doing' = "idle" /\ stage' = <<>>
    /\ coordinators' = {} /\ registered' = {}
    /\ UNCHANGED <<running, inits, failed, partVars, mixers, leaving, pointing,
                   captureVars, call, calls>>

-----------------------------------------------------------------------------
(* add_sink and remove_sink, which hold the mutex only inside SinkManager.  *)

Idle == doing = "idle" /\ running /\ call.op = "none" /\ calls < MaxCalls

Api == UNCHANGED <<controlVars, partVars>>

\* SinkManager::add_sink: the mixer is in the map and its thread runs.
AddSink(s) ==
    /\ Idle /\ s \notin mixers
    /\ mixers' = mixers \cup {s}
    /\ call' = [op |-> "coordinate", sink |-> s] /\ calls' = calls + 1
    /\ UNCHANGED <<leaving, coordinators, pointing, registered, captureVars>> /\ Api

\* The coordinator is given to the mixer, then enabled and stored.
Coordinate ==
    /\ call.op = "coordinate"
    /\ pointing' = pointing \cup {call.sink}
    /\ call' = [call EXCEPT !.op = "enable"]
    /\ coordinators' = coordinators \cup {call.sink}
    /\ UNCHANGED <<mixers, leaving, registered, captureVars, calls>> /\ Api

EnableCoordinator ==
    /\ call.op = "enable"
    /\ registered' = registered \cup {call.sink}
    /\ call' = [op |-> "none", sink |-> "none"]
    /\ UNCHANGED <<mixers, leaving, coordinators, pointing, captureVars, calls>> /\ Api

\* remove_sink: the coordinator is disabled and destroyed ...
RemoveSink(s) ==
    /\ Idle /\ s \in mixers
    /\ coordinators' = coordinators \ {s} /\ registered' = registered \ {s}
    /\ call' = [op |-> "unmap", sink |-> s] /\ calls' = calls + 1
    /\ UNCHANGED <<mixers, leaving, pointing, captureVars>> /\ Api

\* ... then SinkManager::remove_sink takes the mixer out of the map ...
UnmapSink ==
    /\ call.op = "unmap"
    /\ mixers' = mixers \ {call.sink} /\ leaving' = leaving \cup {call.sink}
    /\ call' = [call EXCEPT !.op = "stop"]
    /\ UNCHANGED <<coordinators, pointing, registered, captureVars, calls>> /\ Api

\* ... and stops and destroys it.
StopSink ==
    /\ call.op = "stop"
    /\ leaving' = leaving \ {call.sink} /\ pointing' = pointing \ {call.sink}
    /\ call' = [op |-> "none", sink |-> "none"]
    /\ UNCHANGED <<mixers, coordinators, registered, captureVars, calls>> /\ Api

-----------------------------------------------------------------------------
(* What a capture device is opened with (add_system_capture_reference), on  *)
(* requests and capabilities where 0 says nothing.                          *)

\* clamp_within_caps: only one end given, or the ends swapped, is tolerated.
WithinCaps(asked, caps, fallback) ==
    LET ends == {caps.min, caps.max} \ {0}
        lo == CHOOSE x \in ends : \A y \in ends : x <= y
        hi == CHOOSE x \in ends : \A y \in ends : y <= x
    IN  IF ends = {} THEN IF asked = 0 THEN fallback ELSE asked
        ELSE IF asked = 0 THEN IF caps.min = 0 THEN caps.max ELSE lo
        ELSE IF asked < lo THEN lo ELSE IF asked > hi THEN hi ELSE asked

Or(x, default) == IF x = 0 THEN default ELSE x

\* The device's name, from the request, the registry or the tag itself, is what must be
\* found; a tag names a sound card, a ScreamRouter fifo or something else.
HardwareId(tagKind, asked, device) ==
    IF asked.hw # "" THEN asked.hw
    ELSE IF device.known /\ device.hw # "" THEN device.hw
    ELSE IF tagKind = "card" THEN "from_tag" ELSE ""

CaptureParams(tagKind, asked, device) ==
    LET depth == IF device.known /\ device.depth > 0 THEN device.depth ELSE asked.depth
        Fit(x, caps, default) ==
            Or(IF device.known THEN WithinCaps(x, caps, default) ELSE x, default)
    IN  [ok       |-> HardwareId(tagKind, asked, device) # "",
         hw       |-> HardwareId(tagKind, asked, device),
         channels |-> Fit(asked.channels, device.channels, 2),
         rate     |-> Fit(asked.rate, device.rates, 48),
         depth    |-> IF depth \in {16, 32} THEN depth ELSE 16]

-----------------------------------------------------------------------------
(* The counted capture receivers. add_system_capture_reference holds the    *)
(* mutex for the whole of ensure_capture_receiver.                          *)

\* A start of the receiver succeeds, or fails where devices do.
StartsAs(on) == on \/ DeviceFails

\* A known device: the count goes up first, then a receiver that has ended is
\* started again, and if that fails the count stays.
EnsureKnown(t) ==
    /\ usage[t] > 0
    /\ usage' = [usage EXCEPT ![t] = @ + 1]
    /\ \E on \in BOOLEAN :
        /\ StartsAs(on) /\ capture[t] = "on" => on
        /\ capture' = [capture EXCEPT ![t] = IF on THEN "on" ELSE "ended"]
        /\ held' = IF on THEN [held EXCEPT ![t] = @ + 1] ELSE held

\* A new device: it is counted only once it runs.
EnsureNew(t) ==
    /\ usage[t] = 0
    /\ \/ /\ usage' = [usage EXCEPT ![t] = 1]
          /\ capture' = [capture EXCEPT ![t] = "on"]
          /\ held' = [held EXCEPT ![t] = @ + 1]
       \/ DeviceFails /\ UNCHANGED <<usage, capture, held>>

AddCapture(t) ==
    /\ Idle /\ calls' = calls + 1
    /\ EnsureKnown(t) \/ EnsureNew(t)
    /\ UNCHANGED <<sinkVars, call>> /\ Api

StoppedAtOnce(t) == [capture EXCEPT ![t] = "none"] \* mutant: every release stops the receiver
AfterRelease(t) == [capture EXCEPT ![t] = IF usage[t] = 1 THEN "none" ELSE @]

\* release_capture_receiver, by a caller that was granted a reference: the last one
\* stops the receiver.
ReleaseCapture(t) ==
    /\ Idle /\ held[t] > 0
    /\ calls' = calls + 1
    /\ held' = [held EXCEPT ![t] = @ - 1]
    /\ usage' = [usage EXCEPT ![t] = @ - 1]
    /\ capture' = AfterRelease(t)
    /\ UNCHANGED <<sinkVars, call>> /\ Api

\* The thread of a capture receiver ends by itself (the device went away).
CaptureEnds(t) ==
    /\ DeviceFails /\ capture[t] = "on" /\ running
    /\ capture' = [capture EXCEPT ![t] = "ended"]
    /\ UNCHANGED <<usage, held, sinkVars, call, calls>> /\ Api

-----------------------------------------------------------------------------
Control ==
    \/ CallInitialize \/ MakePart \/ MakeReceivers \/ StartPart \/ Initialized
    \/ InitializeFails
    \/ CallShutdown \/ StopSinks \/ StopSources \/ StopReceivers \/ StopStats
    \/ StopTimeshift \/ StopEnumerator \/ ClearPart \/ ClearRest

Next ==
    \/ Control
    \/ \E s \in Sinks : AddSink(s) \/ RemoveSink(s)
    \/ Coordinate \/ EnableCoordinator \/ UnmapSink \/ StopSink
    \/ \E t \in Tags : AddCapture(t) \/ ReleaseCapture(t) \/ CaptureEnds(t)

Spec == Init /\ [][Next]_vars

-----------------------------------------------------------------------------
(* What holds, and what a failure or a removal breaks.                     *)

\* A running thread finds every object its part was given a pointer to still there, and
\* still the one it was given: what initialize() replaces and shutdown() destroys is no
\* longer used (audio_manager.cpp:37-227, 229-346).
NothingDangles ==
    \A p \in threads \ {"notifier"} :
        /\ made[p] # 0
        /\ \A q \in PointsTo[p] : bound[p][q] # 0 /\ bound[p][q] = made[q]

\* As long as someone holds a reference to a capture device its receiver is there, however
\* often others take and give back theirs; and a receiver is there only for a reference
\* (receiver_manager.cpp:238-335).
CapturesServed ==
    \A t \in Tags :
        /\ held[t] > 0 => capture[t] # "none"
        /\ (capture[t] # "none") <=> (usage[t] > 0)
        /\ usage[t] >= held[t]

\* "Clean up partially initialized components" (audio_manager.cpp:217): after a failed
\* initialize() no thread of the engine runs.
FailureCleansUp == failed => threads = {}

\* "must outlive mixer" (sink_audio_mixer.cpp:577): the coordinator a running mixer was
\* given exists.
CoordinatorOutlivesMixer == pointing \subseteq coordinators
=============================================================================
