--------------------------- MODULE MixerLifecycle ---------------------------
(***************************************************************************)
(* How a sink mixer is started and stopped                                 *)
(* (output_mixer/sink_audio_mixer.cpp, output_mixer/mp3_encoder.cpp): the  *)
(* caller of start() and stop(), the thread that start() launches to set   *)
(* the sender up, the mixing thread waiting for its clock, and the MP3     *)
(* worker waiting for audio. The data path is the module SinkMixer.        *)
(*                                                                         *)
(* The legacy MP3 thread of the mixer and the encoder that replaces it have*)
(* the same loop and the same stop, one after the other: they are one here.*)
(***************************************************************************)
EXTENDS Naturals

CONSTANTS
    Mp3,            \* the sink has an MP3 output queue
    Mp3Depth,       \* max_queue_depth_
    SetupMayFail,   \* the sender's setup may fail, and so may the timer or a thread
    MaxStarts       \* bound: calls of start()

VARIABLES
    call,       \* the step of stop() the caller is at, or "idle"
    starts,     \* calls of start() so far
    stopped,    \* a call of stop() has returned since the last start()
    stopFlag,   \* stop_flag_
    starting,   \* startup_in_progress_
    startup,    \* the startup thread: "none", the step it is at, or "ended"
    thread,     \* the mixing thread: "none", "tick", "wait", "cycle" or "ended"
    sender,     \* the sender is open
    timer,      \* the clock condition is registered and its handle valid
    seq,        \* ticks of the condition not seen by the mixing thread
    worker,     \* the MP3 worker: "none", "check", "going", "blocked", "encode", "ended"
    mp3Stop,    \* stop_flag_ of the encoder
    mp3On,      \* thread_running_ of the encoder
    pcm         \* the number of blocks in pcm_queue_

mp3Vars == <<worker, mp3Stop, mp3On, pcm>>
callVars == <<call, starts, stopped>>
startVars == <<starting, startup>>
vars == <<callVars, stopFlag, startVars, thread, sender, timer, seq, mp3Vars>>

Init ==
    /\ call = "idle" /\ starts = 0 /\ stopped = TRUE
    /\ stopFlag = FALSE
    /\ starting = FALSE /\ startup = "none"
    /\ thread = "none"
    /\ sender = FALSE
    /\ timer = FALSE /\ seq = 0
    /\ worker = "none" /\ mp3Stop = FALSE /\ mp3On = FALSE
    /\ pcm = 0

\* Mp3Encoder::stop: the flag is set and the worker notified without the mutex the
\* worker tests the flag under.
NotifyStop ==
    /\ mp3Stop' = TRUE
    /\ worker' = IF worker = "blocked" THEN "check" ELSE worker

-----------------------------------------------------------------------------
(* start() and the startup thread.                                         *)

IsRunning == thread # "none" /\ ~stopFlag

\* start() returns at once if the mixer runs or is starting; otherwise it joins
\* the startup thread of an earlier start and launches another.
Start ==
    /\ call = "idle" /\ starts < MaxStarts
    /\ starts' = starts + 1
    /\ IF IsRunning \/ starting
        THEN UNCHANGED <<startVars, stopped>>
        ELSE starting' = TRUE /\ startup' = "begin" /\ stopped' = FALSE
    /\ UNCHANGED <<call, stopFlag, thread, sender, timer, seq, mp3Vars>>

\* A start that fails: start_internal has closed the sender, start_async sets the flag.
StartFails ==
    /\ sender' = FALSE
    /\ stopFlag' = TRUE
    /\ starting' = FALSE
    /\ startup' = "ended"

\* start_internal: the flag, the payload and the pending audio are reset.
StartBegin ==
    /\ startup = "begin"
    /\ stopFlag' = FALSE
    /\ startup' = "setup"
    /\ UNCHANGED <<callVars, starting, thread, sender, timer, seq, mp3Vars>>

SetupSender ==
    /\ startup = "setup"
    /\ \/ sender' = TRUE /\ startup' = "timer" /\ UNCHANGED <<stopFlag, starting>>
       \/ SetupMayFail /\ StartFails
    /\ UNCHANGED <<callVars, thread, timer, seq, mp3Vars>>

\* register_mix_timer
RegisterTimer ==
    /\ startup = "timer"
    /\ \/ /\ timer' = TRUE /\ startup' = "mp3" /\ seq' = 0
          /\ UNCHANGED <<sender, stopFlag, starting>>
       \/ SetupMayFail /\ StartFails /\ UNCHANGED <<timer, seq>>
    /\ UNCHANGED <<callVars, thread, mp3Vars>>

\* start_mp3_thread
StartMp3 ==
    /\ startup = "mp3"
    /\ startup' = "thread"
    /\ IF Mp3 /\ ~mp3On
        THEN worker' = "check" /\ mp3Stop' = FALSE /\ mp3On' = TRUE /\ pcm' = 0
        ELSE UNCHANGED <<worker, mp3Stop, mp3On, pcm>>
    /\ UNCHANGED <<callVars, stopFlag, starting, thread, sender, timer, seq>>

LaunchThread ==
    /\ startup = "thread"
    /\ \/ thread' = "tick" /\ starting' = FALSE /\ startup' = "ended" /\ UNCHANGED <<timer, seq>>
       \/ /\ SetupMayFail
          /\ timer' = FALSE /\ seq' = 0 /\ startup' = "undo" /\ UNCHANGED <<thread, starting>>
    /\ UNCHANGED <<callVars, stopFlag, sender, mp3Vars>>

\* The mixing thread could not be launched: the MP3 worker is stopped again.
UndoMp3 ==
    /\ startup = "undo" /\ ~mp3Stop
    /\ NotifyStop
    /\ UNCHANGED <<callVars, stopFlag, startVars, thread, sender, timer, seq, mp3On, pcm>>

UndoStart ==
    /\ startup = "undo" /\ mp3Stop /\ worker \in {"none", "ended"}
    /\ worker' = "none" /\ mp3On' = FALSE /\ pcm' = 0
    /\ StartFails
    /\ UNCHANGED <<callVars, thread, timer, seq, mp3Stop>>

-----------------------------------------------------------------------------
(* stop(), in the order of its steps.                                      *)

At(s) == call = s
Goto(s) == call' = s /\ UNCHANGED <<starts, stopped>>
Return == call' = "idle" /\ stopped' = TRUE /\ UNCHANGED starts

CallStop ==
    /\ At("idle") /\ ~stopped
    /\ Goto("join_startup")
    /\ UNCHANGED <<stopFlag, startVars, thread, sender, timer, seq, mp3Vars>>

StartupIgnored == TRUE \* mutant: stop() does not wait for the startup thread
StartupOver == startup \in {"none", "ended"}

\* join_startup_thread; then a mixer whose flag is set is stopped already
JoinStartup ==
    /\ At("join_startup") /\ StartupOver
    /\ starting' = FALSE /\ startup' = IF startup = "ended" THEN "none" ELSE startup
    /\ IF stopFlag THEN Return ELSE Goto("flag")
    /\ UNCHANGED <<stopFlag, thread, sender, timer, seq, mp3Vars>>

\* The flag, and a tick so that the mixing thread looks at it.
SetFlag ==
    /\ At("flag")
    /\ stopFlag' = TRUE
    /\ seq' = IF timer THEN seq + 1 ELSE seq
    /\ Goto("unregister")
    /\ UNCHANGED <<startVars, thread, sender, timer, mp3Vars>>

\* unregister_mix_timer, while the mixing thread may be anywhere
UnregisterTimer ==
    /\ At("unregister")
    /\ timer' = FALSE /\ seq' = 0
    /\ Goto("mp3")
    /\ UNCHANGED <<stopFlag, startVars, thread, sender, mp3Vars>>

StopMp3 ==
    /\ At("mp3")
    /\ NotifyStop
    /\ Goto("join_mp3")
    /\ UNCHANGED <<stopFlag, startVars, thread, sender, timer, seq, mp3On, pcm>>

JoinMp3 ==
    /\ At("join_mp3") /\ worker \in {"none", "ended"}
    /\ worker' = "none" /\ mp3On' = FALSE /\ pcm' = 0
    /\ Goto("join")
    /\ UNCHANGED <<stopFlag, startVars, thread, sender, timer, seq, mp3Stop>>

\* The mixing thread is joined, then the sender and the listeners are closed.
JoinThread ==
    /\ At("join") /\ thread \in {"none", "ended"}
    /\ thread' = "none"
    /\ Goto("close")
    /\ UNCHANGED <<stopFlag, startVars, sender, timer, seq, mp3Vars>>

CloseSender ==
    /\ At("close")
    /\ sender' = FALSE
    /\ Return
    /\ UNCHANGED <<stopFlag, startVars, thread, timer, seq, mp3Vars>>

-----------------------------------------------------------------------------
(* The mixing thread: run() and wait_for_mix_tick().                       *)

ThreadStays == UNCHANGED <<callVars, startVars, sender, timer>>

\* Stopped, or without a valid clock: the loop ends, and then the flag is set.
EndThread ==
    /\ thread = "tick" /\ (stopFlag \/ ~timer)
    /\ thread' = "ended"
    /\ stopFlag' = TRUE
    /\ UNCHANGED <<seq, mp3Vars>> /\ ThreadStays

\* It waits for a tick, at most 100 ms at a time.
WaitTick ==
    /\ thread = "tick" /\ ~stopFlag /\ timer
    /\ thread' = "wait"
    /\ UNCHANGED <<stopFlag, seq, mp3Vars>> /\ ThreadStays

CanWakeOnTick == seq > 0 \* mutant: an untimed wait
CanWake == TRUE

Wake ==
    /\ thread = "wait" /\ CanWake
    /\ IF seq > 0 /\ ~stopFlag
        THEN thread' = "cycle" /\ seq' = 0
        ELSE thread' = "tick" /\ UNCHANGED seq
    /\ UNCHANGED <<stopFlag, mp3Vars>> /\ ThreadStays

Tick ==
    /\ timer /\ seq = 0
    /\ seq' = 1
    /\ UNCHANGED <<callVars, stopFlag, startVars, thread, sender, timer, mp3Vars>>

\* A cycle ends with the block that enqueue_pcm gives to the worker, the oldest
\* going if the queue is full; the worker is notified after the unlock.
Cycle ==
    /\ thread = "cycle"
    /\ thread' = "tick"
    /\ IF mp3On /\ ~stopFlag
        THEN /\ worker # "going"
             /\ pcm' = IF pcm < Mp3Depth THEN pcm + 1 ELSE pcm
             /\ worker' = IF worker = "blocked" THEN "check" ELSE worker
        ELSE UNCHANGED <<pcm, worker>>
    /\ UNCHANGED <<stopFlag, seq, mp3Stop, mp3On>> /\ ThreadStays

-----------------------------------------------------------------------------
(* The MP3 worker: thread_loop().                                          *)

Mp3Stays == UNCHANGED <<callVars, stopFlag, startVars, thread, sender, timer, seq, mp3Stop, mp3On>>

\* With the mutex: a block is taken, or the loop ends, or the worker will block.
WorkerCheck ==
    /\ worker = "check"
    /\ \/ pcm > 0 /\ worker' = "encode" /\ pcm' = pcm - 1
       \/ pcm = 0 /\ mp3Stop /\ worker' = "ended" /\ UNCHANGED pcm
       \/ pcm = 0 /\ ~mp3Stop /\ worker' = "going" /\ UNCHANGED pcm
    /\ Mp3Stays

\* The mutex is released as it blocks.
WorkerBlocks ==
    /\ worker = "going"
    /\ worker' = "blocked"
    /\ UNCHANGED pcm /\ Mp3Stays

\* encode_and_push
Encode ==
    /\ worker = "encode"
    /\ worker' = "check"
    /\ UNCHANGED pcm /\ Mp3Stays

-----------------------------------------------------------------------------
Startup == StartBegin \/ SetupSender \/ RegisterTimer \/ StartMp3 \/ LaunchThread \/ UndoMp3 \/ UndoStart
Stop ==
    \/ JoinStartup \/ SetFlag \/ UnregisterTimer \/ StopMp3 \/ JoinMp3 \/ JoinThread \/ CloseSender
Thread == EndThread \/ WaitTick \/ Wake \/ Cycle
Worker == WorkerCheck \/ WorkerBlocks \/ Encode

Next == Start \/ CallStop \/ Tick \/ Startup \/ Stop \/ Thread \/ Worker

Spec == Init /\ [][Next]_vars

\* The threads run and stop() goes on; nobody has to call.
Fairness == WF_vars(Startup) /\ WF_vars(Stop) /\ WF_vars(Thread) /\ WF_vars(Worker)
FairSpec == Spec /\ Fairness

-----------------------------------------------------------------------------
(* Properties.                                                             *)

\* When stop() has returned, whatever start() was doing, nothing is left of the
\* mixer: no thread, no timer, no open sender.
StopLeavesNothing ==
    stopped => /\ thread = "none" /\ startup \in {"none", "ended"} /\ worker = "none"
               /\ ~timer /\ ~sender

\* stop() returns: no thread that it joins waits for ever.
StopReturns == call # "idle" ~> call = "idle"
=============================================================================
