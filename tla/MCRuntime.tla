------------------------------ MODULE MCRuntime -----------------------------
(* The threads of the engine: the three ways work passes from one to another *)
(* and their start and stop, each on an instance of its own: `kind' says     *)
(* which of them a behaviour is of, and the state of the others stays as it  *)
(* is.                                                                       *)
(*   queue  ThreadSafeQueue, push_bounded with drop_oldest                   *)
(*   ring   PacketRing, every interleaving of a push and a pop               *)
(*   loop   TimeshiftRunLoop: the inbound queue and the thread that drains it*)
(*   engine EngineLifecycle, parts that fail to start, a device that vanishes*)
(*   mixer  MixerLifecycle without MP3, encoder with an MP3 listener         *)
(*   sched  MixScheduler with a bounded queue, untimed with a bounded number *)
EXTENDS ThreadSafeQueue

CONSTANTS
  RingSlots, Pushes,                      \* PacketRing
  Receiver, QueueMax, MaxPackets, MaxControls,  \* TimeshiftRunLoop
  Sinks, Tags, MayFail, MaxInits, MaxCalls,     \* EngineLifecycle
  Mp3Depth, MaxStarts,                          \* MixerLifecycle
  Sources, Duration, ChunkDuration, MaxReady, MaxChunks, MaxAttach   \* MixScheduler

VARIABLES kind,
  \* PacketRing
  rHead, rTail, rDrops, rBuffer, rPcP, rPHead, rPTail, rPcC, rCHead, rCOut, rPushed, rDelivered,
  rGone, rPGone, rCGone, rLapped,
  \* TimeshiftRunLoop
  lStop, lQueue, lStopped, lVersion, lSeen, lBuffer, lPcR, lPcT, lBatch, lPcS, lOffered, lDropped, lCalls,
  \* EngineLifecycle
  eRunning, eStage, eDoing, eMade, eBound, eThreads, eInits, eFailed, eMixers, eLeaving,
  eCoordinators, ePointing, eRegistered, eCall, eUsage, eCapture, eHeld, eCalls,
  \* MixerLifecycle
  mCall, mStarts, mStopped, mStopFlag, mStarting, mStartup, mThread, mSender, mTimer, mSeq,
  mWorker, mMp3Stop, mMp3On, mPcm,
  \* MixScheduler
  sQueue, sMade, sAttached, sStopping, sWorker, sHand, sReady, sReceived, sPopped, sDropped,
  sDrained, sTaken, sControl, sAttaches, sShut

ringVars == <<rHead, rTail, rDrops, rBuffer, rPcP, rPHead, rPTail, rPcC, rCHead, rCOut, rPushed, rDelivered,
             rGone, rPGone, rCGone, rLapped>>
loopVars == <<lStop, lQueue, lStopped, lVersion, lSeen, lBuffer, lPcR, lPcT, lBatch, lPcS, lOffered,
              lDropped, lCalls>>
engineVars == <<eRunning, eStage, eDoing, eMade, eBound, eThreads, eInits, eFailed, eMixers, eLeaving,
                eCoordinators, ePointing, eRegistered, eCall, eUsage, eCapture, eHeld, eCalls>>
mixerVars == <<mCall, mStarts, mStopped, mStopFlag, mStarting, mStartup, mThread, mSender,
               mTimer, mSeq, mWorker, mMp3Stop, mMp3On, mPcm>>
schedVars == <<sQueue, sMade, sAttached, sStopping, sWorker, sHand, sReady, sReceived,
               sPopped, sDropped, sDrained, sTaken, sControl, sAttaches, sShut>>
allVars == <<kind, vars, ringVars, loopVars, engineVars, mixerVars, schedVars>>

ring == INSTANCE PacketRingProofs
          WITH Capacity <- RingSlots, MaxPush <- Pushes,
               head <- rHead, tail <- rTail, drop_count <- rDrops, buffer <- rBuffer,
               pcP <- rPcP, pHead <- rPHead, pTail <- rPTail,
               pcC <- rPcC, cHead <- rCHead, cOut <- rCOut,
               pushed <- rPushed, delivered <- rDelivered,
               gone <- rGone, pGone <- rPGone, cGone <- rCGone, lapped <- rLapped

(* What the theorems about the ring assume of its constants.                 *)
ASSUME RingConstants == ring!RingAssumption

loop == INSTANCE TimeshiftRunLoopProofs
          WITH MaxCalls <- MaxControls, stop_flag_ <- lStop, queue <- lQueue, queueStopped <- lStopped,
               version <- lVersion, seen <- lSeen, buffer <- lBuffer, pcR <- lPcR,
               pcT <- lPcT, batch <- lBatch, pcS <- lPcS,
               offered <- lOffered, dropped <- lDropped, calls <- lCalls

engine == INSTANCE EngineLifecycle
  WITH DeviceFails <- TRUE, running <- eRunning, stage <- eStage, doing <- eDoing, made <- eMade, bound <- eBound,
       threads <- eThreads, inits <- eInits, failed <- eFailed, mixers <- eMixers,
       leaving <- eLeaving, coordinators <- eCoordinators, pointing <- ePointing,
       registered <- eRegistered, call <- eCall, usage <- eUsage, capture <- eCapture,
       held <- eHeld, calls <- eCalls

(* What the theorems about the engine assume of its constants: initialize()  *)
(* is not called again after its last two stages threw, for by then the      *)
(* receivers run, and would go on with what a second call replaces.          *)
ASSUME EngineConstants ==
  MaxInits \in Nat /\ (MaxInits <= 1 \/ MayFail \cap {"start_stats", "start_notifier"} = {})

mixer == INSTANCE MixerLifecycle
  WITH Mp3 <- FALSE, SetupMayFail <- TRUE,
       call <- mCall, starts <- mStarts, stopped <- mStopped, stopFlag <- mStopFlag,
       starting <- mStarting, startup <- mStartup, thread <- mThread, sender <- mSender,
       timer <- mTimer, seq <- mSeq, worker <- mWorker, mp3Stop <- mMp3Stop,
       mp3On <- mMp3On, pcm <- mPcm

encoder == INSTANCE MixerLifecycle
  WITH Mp3 <- TRUE, SetupMayFail <- TRUE,
       call <- mCall, starts <- mStarts, stopped <- mStopped, stopFlag <- mStopFlag,
       starting <- mStarting, startup <- mStartup, thread <- mThread, sender <- mSender,
       timer <- mTimer, seq <- mSeq, worker <- mWorker, mp3Stop <- mMp3Stop,
       mp3On <- mMp3On, pcm <- mPcm

sched == INSTANCE MixScheduler
  WITH queue <- sQueue, made <- sMade, attached <- sAttached, stopping <- sStopping,
       worker <- sWorker, hand <- sHand, ready <- sReady, received <- sReceived,
       popped <- sPopped, dropped <- sDropped, drained <- sDrained, taken <- sTaken,
       control <- sControl, attaches <- sAttaches, shut <- sShut

untimed == INSTANCE MixScheduler
  WITH Duration <- 0, queue <- sQueue, made <- sMade, attached <- sAttached, stopping <- sStopping,
       worker <- sWorker, hand <- sHand, ready <- sReady, received <- sReceived,
       popped <- sPopped, dropped <- sDropped, drained <- sDrained, taken <- sTaken,
       control <- sControl, attaches <- sAttaches, shut <- sShut

(* What the theorems about the scheduler assume of its constants.            *)
ASSUME SchedConstants == Duration \in Nat /\ ChunkDuration \in Nat /\ MaxReady \in Nat

(* receiver_manager.cpp: whatever was asked for, a capture receiver starts    *)
(* within what the device can do, and with a format that is one; a device    *)
(* whose name nobody knows is refused.                                       *)
Caps == [min : {0, 1, 2, 6}, max : {0, 1, 2, 6}]
Devices == [known : BOOLEAN, hw : {"", "hw"}, depth : {0, 24, 32}, channels : Caps, rates : {[min |-> 44, max |-> 96]}]
Requests == [hw : {"", "hw"}, channels : {0, 1, 2, 8}, rate : {0, 48, 192}, depth : {0, 16, 24}]
ASSUME CaptureAssumption ==
  \A k \in {"card", "fifo", "other"}, a \in Requests, d \in Devices :
    LET p == engine!CaptureParams(k, a, d) IN
      /\ p.ok <=> k = "card" \/ a.hw # "" \/ (d.known /\ d.hw # "")
      /\ p.channels > 0 /\ p.rate > 0 /\ p.depth \in {16, 32}
      /\ d.known => \A x \in {d.channels.min, d.channels.max} \ {0} :
                      \/ p.channels = x
                      \/ \E y \in {d.channels.min, d.channels.max} \ {0} :
                            (x <= p.channels /\ p.channels <= y) \/ (y <= p.channels /\ p.channels <= x)

-----------------------------------------------------------------------------
AllInit == /\ kind \in {"queue", "ring", "loop", "engine", "mixer", "encoder", "sched", "untimed"}
           /\ Init /\ ring!Init /\ loop!Init /\ engine!Init /\ mixer!Init /\ sched!Init

AllNext ==
  \/ /\ kind = "queue" /\ Next
     /\ UNCHANGED <<kind, ringVars, loopVars, engineVars, mixerVars, schedVars>>
  \/ /\ kind = "ring" /\ ring!Next
     /\ UNCHANGED <<kind, vars, loopVars, engineVars, mixerVars, schedVars>>
  \/ /\ kind = "loop" /\ loop!Next
     /\ UNCHANGED <<kind, vars, ringVars, engineVars, mixerVars, schedVars>>
  \/ /\ kind = "engine" /\ engine!Next
     /\ UNCHANGED <<kind, vars, ringVars, loopVars, mixerVars, schedVars>>
  \/ /\ kind = "mixer" /\ mixer!Next
     /\ UNCHANGED <<kind, vars, ringVars, loopVars, engineVars, schedVars>>
  \/ /\ kind = "encoder" /\ encoder!Next
     /\ UNCHANGED <<kind, vars, ringVars, loopVars, engineVars, schedVars>>
  \/ /\ kind = "sched" /\ sched!Next
     /\ UNCHANGED <<kind, vars, ringVars, loopVars, engineVars, mixerVars>>
  \/ /\ kind = "untimed" /\ untimed!Next
     /\ UNCHANGED <<kind, vars, ringVars, loopVars, engineVars, mixerVars>>

(* The fairness that ThreadSafeQueue, TimeshiftRunLoop, MixerLifecycle and   *)
(* MixScheduler state.                                                       *)
QueueFair == /\ \A p \in Producer : WF_vars(kind = "queue" /\ Notify(p))
             /\ \A c \in Consumer : WF_vars(kind = "queue" /\ Consume(c))
             /\ WF_vars(kind = "queue" /\ NotifyAll)
LoopFair  == /\ WF_loopVars(kind = "loop" /\ loop!Run)
             /\ WF_loopVars(kind = "loop" /\ loop!Stop)
             /\ \A r \in Receiver : WF_loopVars(kind = "loop" /\ loop!AddPacket(r))

MixerFair == /\ WF_mixerVars(kind = "mixer" /\ mixer!Startup) /\ WF_mixerVars(kind = "mixer" /\ mixer!Stop)
             /\ WF_mixerVars(kind = "mixer" /\ mixer!Thread)
SchedFair == /\ WF_schedVars(kind = "sched" /\ sched!Caller)
             /\ \A s \in Sources : WF_schedVars(kind = "sched" /\ sched!Worker(s))

AllSpec == /\ AllInit /\ [][AllNext]_allVars
           /\ QueueFair /\ LoopFair /\ MixerFair /\ SchedFair

-----------------------------------------------------------------------------
(* packet_ring.h: pushes and pops implement the drop-oldest queue, as long   *)
(* as neither thread moves head_ on twice under the other.                   *)
RingIsQueue == ring!RingIsQueue

(* add_packet: the packets of a receiver stay in its order.                  *)
ReceiverOrder == loop!ReceiverOrder

(* run: the thread does not sleep on a packet it was not told of.            *)
VersionCoversQueue == loop!VersionCoversQueue

(* initialize and shutdown: the objects a running thread points to are there.*)
NothingDangles == engine!NothingDangles

(* receiver_manager.cpp: a device stays open as long as someone refers to it.*)
CapturesServed == engine!CapturesServed

(* MixerLifecycle: a mixer that was stopped has left no thread or device.    *)
StopLeavesNothing == mixer!StopLeavesNothing

(* MixScheduler: a source that was detached has left nothing to be mixed.    *)
DetachedIsGone == sched!DetachedIsGone

(* Whoever waits is answered: a stop of the queue releases every consumer    *)
(* and loses nothing (ThreadSafeQueue), a packet queued before the stop of   *)
(* the engine is ingested and its stop() returns (TimeshiftRunLoop), stop()  *)
(* of a mixer without MP3 returns (MixerLifecycle), and so does a detach     *)
(* (MixScheduler).                                                           *)
WaitsEnd == /\ Released
            /\ loop!QueuedIsIngested /\ loop!StopReturns
            /\ (kind = "mixer" /\ mCall # "idle") ~> (mCall = "idle")
            /\ (kind = "sched" /\ sControl.step = "join") ~> (sControl.step # "join")
=============================================================================
