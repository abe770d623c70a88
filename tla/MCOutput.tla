------------------------------ MODULE MCOutput ------------------------------
(* What becomes of a source's audio: the barrier at which the sinks of a     *)
(* sample rate meet and, each on an instance of its own, the mixing thread,  *)
(* its listeners and its senders.  `kind' says which of them a behaviour is  *)
(* of; the state of the others stays as it is.                               *)
(*   barrier   SyncBarrier                                                   *)
(*   mixer     SinkMixer, hurry with the drain control and a forced format   *)
(*   webrtc    WebRtcListeners                                               *)
(*   processor SourceProcessor                                               *)
(*   listener  ListenerAudio                                                 *)
(*   alsa      AlsaPlayback, absent with a card that may not open            *)
(*   pcm, opus RtpSender                                                     *)
(*   multiPcm, multiOpus  MultiRtpSender                                     *)
EXTENDS SyncBarrier, Sequences

CONSTANTS
  MixerInputs, MixerQueued, MixerBacklog, MixerUnits, MixerAmounts,   \* of SinkMixer
  MixerWord, MixerChannels, MixerRing, MixerPackets, MixerConnections, MixerTicks,
  HurryAmounts, HurryForced, HurryPackets,
  WebClients, WebListeners, WebSinks, WebChanges,                     \* of WebRtcListeners
  SourceFormats, SourceSizes, SourceMisaligned, SourceRates,          \* of SourceProcessor
  SourceChannels, SourceSinkRate, SourceChunk, SourceOversampling, SourceSettings,
  SourceMayFail, SourcePackets,
  ListenerFormats, ListenerChunk, ListenerOpus, ListenerMultichannel, \* of ListenerAudio
  ListenerChunks,
  AlsaDepths, AlsaMixDepth, AlsaPeriods, AlsaLatency, AlsaLimits,     \* of AlsaPlayback
  AlsaBoost, AlsaStep, AlsaHysteresis, AlsaMaxRate, AlsaSizes, AlsaSends,
  RtpFrame, RtpSlice, RtpSizes, RtpFrames, RtpSetups,                 \* of RtpSender
  MultiReceivers, MultiPacket, MultiSizes, MultiStart,                \* of MultiRtpSender
  MultiPcmFrames, MultiPcmSetups, MultiOpusFrames, MultiOpusSetups

ASSUME SenderConstants ==
  /\ {RtpFrame, RtpSlice, MultiPacket} \subseteq Nat \ {0}
  /\ RtpSizes \cup MultiSizes \cup {MultiStart} \subseteq Nat

ASSUME MixerConstants ==
  {MixerQueued, MixerConnections} \subseteq Nat /\ MixerRing \in Nat \ {0}

ASSUME WebConstants == WebListeners \in Nat

ASSUME SourceConstants ==
  SourceSizes \subseteq Nat /\ SourceRates \subseteq Nat /\ SourceChunk \in Nat \ {0}

(* The formats that a sink may have                                          *)
ASSUME ListenerConstants ==
  /\ ListenerFormats \subseteq [channels : 1..8, bits : {16, 24, 32}]
  /\ {ListenerChunk, ListenerOpus} \subseteq Nat \ {0}
  /\ ListenerMultichannel \in BOOLEAN

SixToNine == <<6, 9>>  \* of the latency

VARIABLES kind,
  \* SinkMixer
  xPc, xStop, xAlive, xConnected, xConn, xRing, xFed, xReady, xActive, xBuffer, xTodo,
  xHand, xChannels, xFill, xTicks, xCommand, xMeasured, xPending, xPlayed,
  \* WebRtcListeners
  wSink, wSinks, wAttached, wFreed, wRegistered, wIp, wState, wCleanup, wTrack, wChanges,
  wApi, wEvicting, wSetup, wRemoving, wClosed, wShutdown,
  \* SourceProcessor
  pFormat, pAlive, pRing, pFragments, pRate, pBuffered, pPending, pPc, pPacket, pChunk,
  pCurrent, pApplied, pPackets,
  \* ListenerAudio
  hFormat, hChannels, hMulti, hConnected, hPcm, hTimestamp, hLost, hDue, hChunks,
  \* AlsaPlayback
  dPc, dLeft, dHandle, dDepth, dSource, dNote, dGeometry, dQueue, dCard, dLatency, dTarget,
  dApplied, dPending, dCooling, dRate, dHeard, dSends,
  \* RtpSender
  rPc, rAfter, rSetups, rFlags, rThread, rOpen, rEncoder, rRegistered, rGiven, rWaiting,
  rSending, rSeq, rTs, rWire,
  \* MultiRtpSender
  nPc, nSetups, nActive, nStreams, nBegan, nRunning, nRtcp, nTodo, nGiven, nWaiting, nSlice,
  nSending, nTs, nWire, nReport

mixerVars == <<xPc, xStop, xAlive, xConnected, xConn, xRing, xFed, xReady, xActive, xBuffer,
               xTodo, xHand, xChannels, xFill, xTicks, xCommand, xMeasured, xPending,
               xPlayed>>
webVars == <<wSink, wSinks, wAttached, wFreed, wRegistered, wIp, wState, wCleanup, wTrack,
             wChanges, wApi, wEvicting, wSetup, wRemoving, wClosed, wShutdown>>
sourceVars == <<pFormat, pAlive, pRing, pFragments, pRate, pBuffered, pPending, pPc,
                pPacket, pChunk, pCurrent, pApplied, pPackets>>
listenerVars == <<hFormat, hChannels, hMulti, hConnected, hPcm, hTimestamp, hLost, hDue,
                  hChunks>>
alsaVars == <<dPc, dLeft, dHandle, dDepth, dSource, dNote, dGeometry, dQueue, dCard,
              dLatency, dTarget, dApplied, dPending, dCooling, dRate, dHeard, dSends>>
rtpVars == <<rPc, rAfter, rSetups, rFlags, rThread, rOpen, rEncoder, rRegistered, rGiven,
             rWaiting, rSending, rSeq, rTs, rWire>>
multiVars == <<nPc, nSetups, nActive, nStreams, nBegan, nRunning, nRtcp, nTodo, nGiven,
               nWaiting, nSlice, nSending, nTs, nWire, nReport>>
allVars == <<kind, vars, mixerVars, webVars, sourceVars, listenerVars, alsaVars, rtpVars, multiVars>>

PacketFormats == {[channels |-> 2, bits |-> 16, rate |-> 48], [channels |-> 1, bits |-> 16, rate |-> 24]}
SinkFormats   == [channels : {1, 2, 4}, bits : {16, 24, 32}]

mixer == INSTANCE SinkMixer
  WITH Inputs <- MixerInputs, MaxQueued <- MixerQueued, Backlog <- MixerBacklog,
       ChunkUnits <- MixerUnits, Amounts <- MixerAmounts, Word <- MixerWord,
       Configured <- MixerChannels, Forced <- {}, Coordinated <- TRUE, Speedups <- FALSE,
       RingSize <- MixerRing, MaxPackets <- MixerPackets, MaxConnections <- MixerConnections,
       MaxTicks <- MixerTicks,
       pc <- xPc, stop <- xStop, alive <- xAlive, connected <- xConnected, conn <- xConn,
       ring <- xRing, fed <- xFed, ready <- xReady, active <- xActive, buffer <- xBuffer,
       todo <- xTodo, hand <- xHand, channels <- xChannels, fill <- xFill, ticks <- xTicks,
       command <- xCommand, measured <- xMeasured, pending <- xPending, played <- xPlayed

hurry == INSTANCE SinkMixer
  WITH Inputs <- MixerInputs, MaxQueued <- MixerQueued, Backlog <- MixerBacklog,
       ChunkUnits <- MixerUnits, Amounts <- HurryAmounts, Word <- MixerWord,
       Configured <- MixerChannels, Forced <- HurryForced, Coordinated <- FALSE, Speedups <- TRUE,
       RingSize <- MixerRing, MaxPackets <- HurryPackets, MaxConnections <- MixerConnections,
       MaxTicks <- MixerTicks,
       pc <- xPc, stop <- xStop, alive <- xAlive, connected <- xConnected, conn <- xConn,
       ring <- xRing, fed <- xFed, ready <- xReady, active <- xActive, buffer <- xBuffer,
       todo <- xTodo, hand <- xHand, channels <- xChannels, fill <- xFill, ticks <- xTicks,
       command <- xCommand, measured <- xMeasured, pending <- xPending, played <- xPlayed

webrtc == INSTANCE WebRtcListeners
  WITH Clients <- WebClients, MaxListeners <- WebListeners, MaxSinks <- WebSinks,
       MaxChanges <- WebChanges,
       sink <- wSink, sinks <- wSinks, attached <- wAttached, freed <- wFreed,
       registered <- wRegistered, ip <- wIp, state <- wState, cleanup <- wCleanup,
       track <- wTrack, changes <- wChanges, api <- wApi, evicting <- wEvicting,
       setup <- wSetup, removing <- wRemoving, closed <- wClosed, shutdown <- wShutdown

processor == INSTANCE SourceProcessor
  WITH Formats <- SourceFormats, Sizes <- SourceSizes, Misaligned <- SourceMisaligned,
       Rates <- SourceRates, OutChannels <- SourceChannels, OutRate <- SourceSinkRate,
       ChunkFrames <- SourceChunk, Oversampling <- SourceOversampling,
       Settings <- SourceSettings, MayFail <- SourceMayFail, MaxPackets <- SourcePackets,
       format <- pFormat, alive <- pAlive, ring <- pRing, fragments <- pFragments,
       rate <- pRate, buffered <- pBuffered, pending <- pPending, pc <- pPc,
       packet <- pPacket, chunk <- pChunk, current <- pCurrent, applied <- pApplied,
       packets <- pPackets

listener == INSTANCE ListenerAudio
  WITH Formats <- ListenerFormats, ChunkFrames <- ListenerChunk, OpusFrame <- ListenerOpus,
       Multichannel <- ListenerMultichannel, MaxChunks <- ListenerChunks,
       format <- hFormat, channels <- hChannels, multi <- hMulti, connected <- hConnected,
       pcm <- hPcm, timestamp <- hTimestamp, lost <- hLost, due <- hDue, chunks <- hChunks

alsa == INSTANCE AlsaPlayback
  WITH Depths <- AlsaDepths, MixDepth <- AlsaMixDepth, Periods <- AlsaPeriods,
       Configured <- AlsaLatency, MinLatency <- AlsaLimits[1], MaxLatency <- AlsaLimits[2],
       Boost <- AlsaBoost, Step <- AlsaStep, Hysteresis <- AlsaHysteresis,
       MaxRate <- AlsaMaxRate, Sizes <- AlsaSizes,
       OpenFails <- FALSE, Underruns <- TRUE, MaxSends <- AlsaSends,
       pc <- dPc, left <- dLeft, handle <- dHandle, depth <- dDepth, source <- dSource,
       note <- dNote, geometry <- dGeometry, queue <- dQueue, card <- dCard,
       latency <- dLatency, target <- dTarget, applied <- dApplied, pending <- dPending,
       cooling <- dCooling, rate <- dRate, heard <- dHeard, sends <- dSends

absent == INSTANCE AlsaPlayback
  WITH Depths <- AlsaDepths, MixDepth <- AlsaMixDepth, Periods <- AlsaPeriods,
       Configured <- AlsaLatency, MinLatency <- AlsaLimits[1], MaxLatency <- AlsaLimits[2],
       Boost <- AlsaBoost, Step <- AlsaStep, Hysteresis <- AlsaHysteresis,
       MaxRate <- AlsaMaxRate, Sizes <- AlsaSizes,
       OpenFails <- TRUE, Underruns <- TRUE, MaxSends <- AlsaSends,
       pc <- dPc, left <- dLeft, handle <- dHandle, depth <- dDepth, source <- dSource,
       note <- dNote, geometry <- dGeometry, queue <- dQueue, card <- dCard,
       latency <- dLatency, target <- dTarget, applied <- dApplied, pending <- dPending,
       cooling <- dCooling, rate <- dRate, heard <- dHeard, sends <- dSends

pcm == INSTANCE RtpSender
  WITH Opus <- FALSE, FrameSize <- RtpFrame, SliceCap <- RtpSlice, Sizes <- RtpSizes,
       EncodeFails <- FALSE, MaxFrames <- RtpFrames, MaxSetups <- RtpSetups,
       pc <- rPc, after <- rAfter, setups <- rSetups, flags <- rFlags, thread <- rThread,
       open <- rOpen, encoder <- rEncoder, registered <- rRegistered, given <- rGiven,
       waiting <- rWaiting, sending <- rSending, seq <- rSeq, ts <- rTs, wire <- rWire

opus == INSTANCE RtpSender
  WITH Opus <- TRUE, FrameSize <- RtpFrame, SliceCap <- RtpSlice, Sizes <- RtpSizes,
       EncodeFails <- TRUE, MaxFrames <- RtpFrames, MaxSetups <- RtpSetups,
       pc <- rPc, after <- rAfter, setups <- rSetups, flags <- rFlags, thread <- rThread,
       open <- rOpen, encoder <- rEncoder, registered <- rRegistered, given <- rGiven,
       waiting <- rWaiting, sending <- rSending, seq <- rSeq, ts <- rTs, wire <- rWire

multiPcm == INSTANCE MultiRtpSender
  WITH Receivers <- MultiReceivers, Disabled <- {}, Opus <- FALSE, PacketFrames <- MultiPacket,
       Sizes <- MultiSizes, Start <- MultiStart, MaxFrames <- MultiPcmFrames,
       MaxSetups <- MultiPcmSetups,
       pc <- nPc, setups <- nSetups, active <- nActive, streams <- nStreams,
       began <- nBegan, running <- nRunning, rtcp <- nRtcp, todo <- nTodo, given <- nGiven,
       waiting <- nWaiting, slice <- nSlice, sending <- nSending, ts <- nTs, wire <- nWire,
       report <- nReport

multiOpus == INSTANCE MultiRtpSender
  WITH Receivers <- MultiReceivers, Disabled <- {}, Opus <- TRUE, PacketFrames <- MultiPacket,
       Sizes <- MultiSizes, Start <- MultiStart, MaxFrames <- MultiOpusFrames,
       MaxSetups <- MultiOpusSetups,
       pc <- nPc, setups <- nSetups, active <- nActive, streams <- nStreams,
       began <- nBegan, running <- nRunning, rtcp <- nRtcp, todo <- nTodo, given <- nGiven,
       waiting <- nWaiting, slice <- nSlice, sending <- nSending, ts <- nTs, wire <- nWire,
       report <- nReport

speakers == INSTANCE SpeakerMix

(* audio_processor.cpp: what the speaker mix of two layouts does is a matter *)
(* of finite tables, all of which are looked at.                             *)
ASSUME MixAssumption == speakers!NotLouder /\ speakers!SilentLayouts /\ speakers!ShortcutIsExact

-----------------------------------------------------------------------------
(* What another instance starts from does not matter to the one at hand.     *)
AllInit == /\ kind \in {"barrier", "mixer", "hurry", "webrtc", "processor", "listener", "alsa",
                    "absent", "pcm", "opus", "multiPcm", "multiOpus"}
           /\ Init /\ (kind # "barrier" => who = CHOOSE s \in Sink : TRUE)
           /\ listener!Init /\ (kind # "listener" => hFormat = CHOOSE f \in ListenerFormats : TRUE)
           /\ mixer!Init /\ webrtc!Init /\ processor!Init /\ alsa!Init /\ pcm!Init /\ multiPcm!Init

AllNext ==
  \/ /\ kind = "barrier" /\ Next
     /\ UNCHANGED <<kind, mixerVars, webVars, sourceVars, listenerVars, alsaVars, rtpVars, multiVars>>
  \/ /\ kind = "mixer" /\ mixer!Next
     /\ UNCHANGED <<kind, vars, webVars, sourceVars, listenerVars, alsaVars, rtpVars, multiVars>>
  \/ /\ kind = "hurry" /\ hurry!Next
     /\ UNCHANGED <<kind, vars, webVars, sourceVars, listenerVars, alsaVars, rtpVars, multiVars>>
  \/ /\ kind = "webrtc" /\ webrtc!Next
     /\ UNCHANGED <<kind, vars, mixerVars, sourceVars, listenerVars, alsaVars, rtpVars, multiVars>>
  \/ /\ kind = "processor" /\ processor!Next
     /\ UNCHANGED <<kind, vars, mixerVars, webVars, listenerVars, alsaVars, rtpVars, multiVars>>
  \/ /\ kind = "listener" /\ listener!Next
     /\ UNCHANGED <<kind, vars, mixerVars, webVars, sourceVars, alsaVars, rtpVars, multiVars>>
  \/ /\ kind = "alsa" /\ alsa!Next
     /\ UNCHANGED <<kind, vars, mixerVars, webVars, sourceVars, listenerVars, rtpVars, multiVars>>
  \/ /\ kind = "absent" /\ absent!Next
     /\ UNCHANGED <<kind, vars, mixerVars, webVars, sourceVars, listenerVars, rtpVars, multiVars>>
  \/ /\ kind = "pcm" /\ pcm!Next
     /\ UNCHANGED <<kind, vars, mixerVars, webVars, sourceVars, listenerVars, alsaVars, multiVars>>
  \/ /\ kind = "opus" /\ opus!Next
     /\ UNCHANGED <<kind, vars, mixerVars, webVars, sourceVars, listenerVars, alsaVars, multiVars>>
  \/ /\ kind = "multiPcm" /\ multiPcm!Next
     /\ UNCHANGED <<kind, vars, mixerVars, webVars, sourceVars, listenerVars, alsaVars, rtpVars>>
  \/ /\ kind = "multiOpus" /\ multiOpus!Next
     /\ UNCHANGED <<kind, vars, mixerVars, webVars, sourceVars, listenerVars, alsaVars, rtpVars>>

(* The fairness that the modules state.                                      *)
MixerFair  == WF_mixerVars(kind = "mixer" /\ mixer!Run) /\ WF_mixerVars(kind = "mixer" /\ mixer!ClockTick)
WebFair    == WF_webVars(kind = "webrtc" /\ (webrtc!FindClosed \/ webrtc!RemoveClosed))
AlsaFair   == /\ WF_alsaVars(kind = "alsa" /\ alsa!WriteFrames)
              /\ WF_alsaVars(kind = "alsa" /\ alsa!PayloadWritten)
              /\ WF_alsaVars(kind = "alsa" /\ alsa!Recover)
              /\ WF_alsaVars(kind = "alsa" /\ alsa!Notify)
              /\ WF_alsaVars(kind = "alsa" /\ alsa!Drain)
SenderFair == /\ WF_rtpVars(kind = "pcm" /\ pcm!Closing)
              /\ WF_rtpVars(kind = "pcm" /\ (pcm!SapLoop \/ pcm!Announce \/ pcm!SapWait))
              /\ WF_rtpVars(kind = "pcm" /\ (pcm!RtcpLoop \/ pcm!SendReport \/ pcm!Receive))

AllSpec == AllInit /\ [][AllNext]_allVars /\ MixerFair /\ WebFair /\ AlsaFair /\ SenderFair

-----------------------------------------------------------------------------
(* sink_audio_mixer.cpp: the chunks of an input are mixed in order, once.    *)
MixedInOrder == mixer!MixedInOrder

(* webrtc_manager.cpp: a client never has two listeners on a sink.           *)
OneListenerPerClient == webrtc!OneListenerPerClient

(* source_input_processor.cpp: what was accumulated is of the format that    *)
(* the audio processor decodes.                                              *)
AccumulatorIsCurrent == processor!AccumulatorIsCurrent

(* webrtc_sender.cpp: a listener hears all that was mixed, at its speed.     *)
HearsAllMixed == listener!HearsAllMixed

(* alsa_playback_sender.cpp: a payload is as wide as the card takes it.      *)
WidthAgrees == alsa!WidthAgrees

(* rtp_sender.cpp: a thread of the sender never outlives its socket.         *)
SocketsOutliveThreads == (kind = "pcm" => pcm!SocketsOutliveThreads) /\ (kind = "opus" => opus!SocketsOutliveThreads)

(* rtp_sender_core.cpp: receivers can see what a session lost.               *)
LossIsSeen == (kind = "pcm" => pcm!LossIsSeen) /\ (kind = "opus" => opus!LossIsSeen)

(* multi_device_rtp_sender.cpp: the receivers of a sink stay in lockstep.    *)
InLockstep == multiPcm!InLockstep

(* Whoever waits is answered: a chunk queued at the mixer is taken           *)
(* (SinkMixer), a listener whose connection is lost leaves (WebRtcListeners),*)
(* send_payload returns (AlsaPlayback) and so does close() (RtpSender).      *)
WaitsEnd == /\ (kind = "mixer" /\ "a" \in xConnected /\ xRing["a"][1] # <<>> /\ ~xStop)
                 ~> ~("a" \in xConnected /\ xRing["a"][1] # <<>> /\ ~xStop)
            /\ webrtc!ClosedIsDropped
            /\ (kind = "alsa" /\ dPc = "write") ~> (dPc # "write")
            /\ (kind = "pcm" /\ rPc = "stop_rtcp") ~> (rPc \in {"closed", "core"})
=============================================================================
