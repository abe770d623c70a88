------------------------------ MODULE MCInputs ------------------------------
(* How audio comes in: the reordering of a stream and, each on an instance of*)
(* its own, the sessions of an RTP receiver, the PulseAudio receiver, the    *)
(* clock that paces receivers and mixers, and the monitor of the devices.    *)
(* `kind' says which of them a behaviour is of; the state of the others stays*)
(* as it is.                                                                 *)
(*   reordering          RtpReordering                                       *)
(*   single, sap, two    RtpSessions: one source, announced or not, and two  *)
(*   flow, tags, pair, fds  PulseReceiver: one client that plays, one with   *)
(*                       two streams, two clients, and memory passed by one  *)
(*   clock, clients      ClockManager: one client of two formats, and two of *)
(*                       one                                                 *)
(*   devices, listed     DeviceMonitor, listed with a caller that lists      *)
EXTENDS RtpReordering

CONSTANTS
  StreamSsrcs, MappedFormats,                             \* of the RTP sessions
  SingleFormats, SingleNeed, SingleSessions,              \* of `single'
  SapFormats, SapSessions,                                \* of `sap'
  PairSources, PairFormats, PairNeed, PairSessions,       \* of `two'
  ClockConds, ClockFormats, ClockLate, ClockCalls,        \* of `clock'
  ClientConds, ClientFormats, ClientLate, ClientCalls,    \* of `clients'
  ChunkBytes,                                             \* of both
  PulsePrograms, PoolIds, PulseUnits, PulseMinReq,        \* of the PulseAudio receiver
  FlowOps, FlowLimit, FlowMsgs, FlowData, FlowCredit,     \* of `flow'
  TagOps, TagConns, TagLimit, TagStreams, TagMsgs,        \* of `tags'
  PairOps, PairConns, PairLimit, PairStreams, PairMsgs,   \* of `pair'
  FdOps, FdConns, FdLimit, FdStreams, FdWindow, FdMsgs,   \* of `fds'
  DeviceHints, ProbedHints, DeviceFiles, DeviceManifests, \* of the devices
  DeviceTag, DeviceChanges

AudioFormat == [rate : Nat \ {0}, channels : Nat \ {0}, bits : Nat]

ASSUME SessionConstants ==
  /\ "none" \notin PairSources \cup StreamSsrcs
  /\ "none" \notin SingleFormats \cup SapFormats \cup PairFormats
  /\ {SingleNeed, PairNeed} \subseteq Nat

ASSUME ClockConstants ==
  /\ ClockFormats \cup ClientFormats \subseteq AudioFormat
  /\ \A f \in ClockFormats \cup ClientFormats : f.bits >= 8
  /\ {ChunkBytes, ClockLate, ClientLate} \subseteq Nat \ {0}

\* What the runs take for them
Mono(width) == [rate |-> 1, channels |-> 1, bits |-> width]
TwoFormats == {Mono(8), Mono(16)}
OneFormat == {Mono(8)}
FileTag == [f \in {"f"} |-> "fifo"]

VARIABLES kind,
  \* RtpSessions
  sSession, sSessions, sWire, sSapSsrc, sSapHost, sLastSsrc, sLastAddr, sHeld, sSender,
  sProbe, sDetected, sKnown, sHand, sOut,
  \* PulseReceiver
  qRunning, qPhase, qPc, qProg, qAuthorized, qSocket, qPendingFds, qReadBuf, qStreams,
  qNextIndex, qPools, qWriteQ, qCredit, qComposites, qKnown, qNextTag, qOpened, qClosed,
  qMsgs, qSent,
  \* ClockManager
  kUntil, kFormat, kSeen, kAhead, kWorker, kNext, kTodo, kTimer, kWake, kStop, kCalls,
  \* DeviceMonitor
  vCard, vDir, vFiles, vDenying, vChanges, vRunning, vRegistry, vPc, vTodo, vPrevious,
  vScanned, vPush, vDenied, vPolled, vRescan, vWatch, vEvents, vPipe, vStopper, vQueue,
  vHeard, vCopy, vReader, vSnapshot

sessionVars == <<sSession, sSessions, sWire, sSapSsrc, sSapHost, sLastSsrc, sLastAddr,
                 sHeld, sSender, sProbe, sDetected, sKnown, sHand, sOut>>
pulseVars == <<qRunning, qPhase, qPc, qProg, qAuthorized, qSocket, qPendingFds, qReadBuf,
               qStreams, qNextIndex, qPools, qWriteQ, qCredit, qComposites, qKnown,
               qNextTag, qOpened, qClosed, qMsgs, qSent>>
clockVars == <<kUntil, kFormat, kSeen, kAhead, kWorker, kNext, kTodo, kTimer, kWake, kStop,
               kCalls>>
deviceVars == <<vCard, vDir, vFiles, vDenying, vChanges, vRunning, vRegistry, vPc, vTodo,
                vPrevious, vScanned, vPush, vDenied, vPolled, vRescan, vWatch, vEvents, vPipe,
                vStopper, vQueue, vHeard, vCopy, vReader, vSnapshot>>
allVars == <<kind, vars, sessionVars, pulseVars, clockVars, deviceVars>>

single == INSTANCE RtpSessions
  WITH Sources <- {"a"}, Ssrcs <- StreamSsrcs, Formats <- SingleFormats, Mapped <- MappedFormats,
       ProbeNeed <- SingleNeed, Announced <- FALSE, Reused <- FALSE, MaxSessions <- SingleSessions,
       session <- sSession, sessions <- sSessions, wire <- sWire, sapSsrc <- sSapSsrc,
       sapHost <- sSapHost, lastSsrc <- sLastSsrc, lastAddr <- sLastAddr, held <- sHeld,
       sender <- sSender, probe <- sProbe, detected <- sDetected, known <- sKnown,
       hand <- sHand, out <- sOut

sap == INSTANCE RtpSessions
  WITH Sources <- {"a"}, Ssrcs <- StreamSsrcs, Formats <- SapFormats, Mapped <- MappedFormats,
       ProbeNeed <- SingleNeed, Announced <- TRUE, Reused <- FALSE, MaxSessions <- SapSessions,
       session <- sSession, sessions <- sSessions, wire <- sWire, sapSsrc <- sSapSsrc,
       sapHost <- sSapHost, lastSsrc <- sLastSsrc, lastAddr <- sLastAddr, held <- sHeld,
       sender <- sSender, probe <- sProbe, detected <- sDetected, known <- sKnown,
       hand <- sHand, out <- sOut

two == INSTANCE RtpSessions
  WITH Sources <- PairSources, Ssrcs <- StreamSsrcs, Formats <- PairFormats, Mapped <- {},
       ProbeNeed <- PairNeed, Announced <- FALSE, Reused <- FALSE, MaxSessions <- PairSessions,
       session <- sSession, sessions <- sSessions, wire <- sWire, sapSsrc <- sSapSsrc,
       sapHost <- sSapHost, lastSsrc <- sLastSsrc, lastAddr <- sLastAddr, held <- sHeld,
       sender <- sSender, probe <- sProbe, detected <- sDetected, known <- sKnown,
       hand <- sHand, out <- sOut

flow == INSTANCE PulseReceiver
  WITH Conns <- {"c"}, Programs <- PulsePrograms, ShmIds <- PoolIds, ChunkUnits <- PulseUnits,
       MinReq <- PulseMinReq, Ops <- FlowOps, MaxConnections <- FlowLimit, Window <- 1,
       MaxStreams <- 1, MaxMsgs <- FlowMsgs, MaxData <- FlowData, MaxCredit <- FlowCredit,
       running <- qRunning, phase <- qPhase, pc <- qPc, prog <- qProg,
       authorized <- qAuthorized, socket <- qSocket, pendingFds <- qPendingFds,
       readBuf <- qReadBuf, streams <- qStreams, nextIndex <- qNextIndex, pools <- qPools,
       writeQ <- qWriteQ, credit <- qCredit, composites <- qComposites, known <- qKnown,
       nextTag <- qNextTag, opened <- qOpened, closed <- qClosed, msgs <- qMsgs,
       sent <- qSent

tags == INSTANCE PulseReceiver
  WITH Conns <- TagConns, Programs <- PulsePrograms, ShmIds <- PoolIds, ChunkUnits <- PulseUnits,
       MinReq <- PulseMinReq, Ops <- TagOps, MaxConnections <- TagLimit, Window <- 1,
       MaxStreams <- TagStreams, MaxMsgs <- TagMsgs, MaxData <- 0, MaxCredit <- 0,
       running <- qRunning, phase <- qPhase, pc <- qPc, prog <- qProg,
       authorized <- qAuthorized, socket <- qSocket, pendingFds <- qPendingFds,
       readBuf <- qReadBuf, streams <- qStreams, nextIndex <- qNextIndex, pools <- qPools,
       writeQ <- qWriteQ, credit <- qCredit, composites <- qComposites, known <- qKnown,
       nextTag <- qNextTag, opened <- qOpened, closed <- qClosed, msgs <- qMsgs,
       sent <- qSent

pair == INSTANCE PulseReceiver
  WITH Conns <- PairConns, Programs <- PulsePrograms, ShmIds <- PoolIds, ChunkUnits <- PulseUnits,
       MinReq <- PulseMinReq, Ops <- PairOps, MaxConnections <- PairLimit, Window <- 1,
       MaxStreams <- PairStreams, MaxMsgs <- PairMsgs, MaxData <- 0, MaxCredit <- 0,
       running <- qRunning, phase <- qPhase, pc <- qPc, prog <- qProg,
       authorized <- qAuthorized, socket <- qSocket, pendingFds <- qPendingFds,
       readBuf <- qReadBuf, streams <- qStreams, nextIndex <- qNextIndex, pools <- qPools,
       writeQ <- qWriteQ, credit <- qCredit, composites <- qComposites, known <- qKnown,
       nextTag <- qNextTag, opened <- qOpened, closed <- qClosed, msgs <- qMsgs,
       sent <- qSent

fds == INSTANCE PulseReceiver
  WITH Conns <- FdConns, Programs <- PulsePrograms, ShmIds <- PoolIds, ChunkUnits <- PulseUnits,
       MinReq <- PulseMinReq, Ops <- FdOps, MaxConnections <- FdLimit, Window <- FdWindow,
       MaxStreams <- FdStreams, MaxMsgs <- FdMsgs, MaxData <- 0, MaxCredit <- 0,
       running <- qRunning, phase <- qPhase, pc <- qPc, prog <- qProg,
       authorized <- qAuthorized, socket <- qSocket, pendingFds <- qPendingFds,
       readBuf <- qReadBuf, streams <- qStreams, nextIndex <- qNextIndex, pools <- qPools,
       writeQ <- qWriteQ, credit <- qCredit, composites <- qComposites, known <- qKnown,
       nextTag <- qNextTag, opened <- qOpened, closed <- qClosed, msgs <- qMsgs,
       sent <- qSent

clock == INSTANCE ClockManager
  WITH Conds <- ClockConds, Formats <- ClockFormats, ChunkBytes <- ChunkBytes,
       TimerFails <- TRUE, MaxLate <- ClockLate, MaxCalls <- ClockCalls,
       until <- kUntil, format <- kFormat, seen <- kSeen, ahead <- kAhead,
       worker <- kWorker, next <- kNext, todo <- kTodo, timer <- kTimer, wake <- kWake,
       stop <- kStop, calls <- kCalls

devices == INSTANCE DeviceMonitor
  WITH Hints <- DeviceHints, Probed <- ProbedHints, Files <- DeviceFiles,
       Manifests <- DeviceManifests, TagOf <- DeviceTag, Ignored <- "ignored", Listing <- FALSE,
       MaxChanges <- DeviceChanges,
       card <- vCard, dir <- vDir, files <- vFiles, denying <- vDenying, changes <- vChanges,
       running <- vRunning, registry <- vRegistry, pc <- vPc, todo <- vTodo,
       previous <- vPrevious, scanned <- vScanned, push <- vPush, denied <- vDenied,
       polled <- vPolled, rescan <- vRescan, watch <- vWatch, events <- vEvents, pipe <- vPipe,
       stopper <- vStopper, queue <- vQueue, heard <- vHeard, copy <- vCopy,
       reader <- vReader, snapshot <- vSnapshot

listed == INSTANCE DeviceMonitor
  WITH Hints <- DeviceHints, Probed <- {}, Files <- DeviceFiles,
       Manifests <- DeviceManifests, TagOf <- DeviceTag, Ignored <- "ignored", Listing <- TRUE,
       MaxChanges <- DeviceChanges,
       card <- vCard, dir <- vDir, files <- vFiles, denying <- vDenying, changes <- vChanges,
       running <- vRunning, registry <- vRegistry, pc <- vPc, todo <- vTodo,
       previous <- vPrevious, scanned <- vScanned, push <- vPush, denied <- vDenied,
       polled <- vPolled, rescan <- vRescan, watch <- vWatch, events <- vEvents, pipe <- vPipe,
       stopper <- vStopper, queue <- vQueue, heard <- vHeard, copy <- vCopy,
       reader <- vReader, snapshot <- vSnapshot

clients == INSTANCE ClockManager
  WITH Conds <- ClientConds, Formats <- ClientFormats, ChunkBytes <- ChunkBytes,
       TimerFails <- FALSE, MaxLate <- ClientLate, MaxCalls <- ClientCalls,
       until <- kUntil, format <- kFormat, seen <- kSeen, ahead <- kAhead,
       worker <- kWorker, next <- kNext, todo <- kTodo, timer <- kTimer, wake <- kWake,
       stop <- kStop, calls <- kCalls

-----------------------------------------------------------------------------
(* What another instance starts from does not matter to the one at hand.     *)
AllInit == /\ kind \in {"reordering", "single", "sap", "two", "flow", "tags", "pair", "fds",
                    "clock", "devices", "listed", "clients"}
           /\ Init
           /\ IF kind = "two" THEN two!Init ELSE single!Init
           /\ CASE kind = "tags" -> tags!Init
                [] kind = "pair" -> pair!Init
                [] kind = "fds"  -> fds!Init
                [] OTHER         -> flow!Init
           /\ IF kind = "clients" THEN clients!Init ELSE clock!Init
           /\ devices!Init
           /\ kind # "devices" => vFiles = {}

(* The variables a step of one component leaves alone.                       *)
OnlyReordering == UNCHANGED <<kind, sessionVars, pulseVars, clockVars, deviceVars>>
OnlySessions == UNCHANGED <<kind, vars, pulseVars, clockVars, deviceVars>>
OnlyPulse == UNCHANGED <<kind, vars, sessionVars, clockVars, deviceVars>>
OnlyClock == UNCHANGED <<kind, vars, sessionVars, pulseVars, deviceVars>>
OnlyDevices == UNCHANGED <<kind, vars, sessionVars, pulseVars, clockVars>>

AllNext ==
  \/ kind = "reordering" /\ Next /\ OnlyReordering
  \/ /\ \/ kind = "single" /\ single!Next
        \/ kind = "sap" /\ sap!Next
        \/ kind = "two" /\ two!Next
     /\ OnlySessions
  \/ /\ \/ kind = "flow" /\ flow!Next
        \/ kind = "tags" /\ tags!Next
        \/ kind = "pair" /\ pair!Next
        \/ kind = "fds" /\ fds!Next
     /\ OnlyPulse
  \/ /\ \/ kind = "clock" /\ clock!Next
        \/ kind = "clients" /\ clients!Next
     /\ OnlyClock
  \/ /\ \/ kind = "devices" /\ devices!Next
        \/ kind = "listed" /\ listed!Next
     /\ OnlyDevices

(* The fairness that the modules state.  As a behaviour keeps its kind, the  *)
(* fairness of one action of each is that of a disjunction of them.          *)
Threads ==
  \/ kind = "reordering" /\ GetReady /\ OnlyReordering
  \/ kind = "single"  /\ single!Loop /\ OnlySessions
  \/ kind = "flow"    /\ flow!Loop("c") /\ OnlyPulse
  \/ kind = "clock"   /\ clock!RunLoop /\ OnlyClock
  \/ kind = "devices" /\ devices!Monitor /\ OnlyDevices
Others ==
  \/ kind = "reordering" /\ Poll /\ OnlyReordering
  \/ kind = "single"  /\ single!Elapse("s") /\ OnlySessions
  \/ kind = "clock"   /\ clock!Elapse /\ OnlyClock
  \/ kind = "devices" /\ devices!Notifier /\ OnlyDevices
Thirds ==
  \/ kind = "single"  /\ single!Elapse("t") /\ OnlySessions
  \/ kind = "devices" /\ devices!Lister /\ OnlyDevices
Stops ==
  kind = "devices" /\ (devices!TornDown \/ devices!Wake \/ devices!Joined) /\ OnlyDevices
Repeated ==
  \/ kind = "reordering" /\ Tick /\ OnlyReordering
  \/ kind = "single"  /\ single!Receive("a") /\ OnlySessions
  \/ kind = "flow"    /\ flow!Write("c") /\ qWriteQ'["c"] = <<>> /\ OnlyPulse
Paced == kind = "flow" /\ flow!TickOf("c", 1) /\ OnlyPulse
Due   == kind = "flow" /\ flow!DueOf("c", 1) /\ OnlyPulse

Fair == /\ WF_allVars(Threads) /\ WF_allVars(Others) /\ WF_allVars(Thirds) /\ WF_allVars(Stops)
        /\ SF_allVars(Repeated) /\ SF_allVars(Paced) /\ SF_allVars(Due)

AllSpec == AllInit /\ [][AllNext]_allVars /\ Fair

-----------------------------------------------------------------------------
(* rtp_receiver_base.cpp: a stream is decoded in the format it was sent in.  *)
DecodedAsSent == single!DecodedAsSent

(* pulse_receiver.cpp: a wildcard tag stands for the streams there are.      *)
TagsMatchStreams == /\ kind = "flow" => flow!TagsMatchStreams
                    /\ kind = "tags" => tags!TagsMatchStreams
                    /\ kind = "pair" => pair!TagsMatchStreams
                    /\ kind = "fds" => fds!TagsMatchStreams

(* pulse_receiver.cpp: no file descriptor a client passed is lost or closed  *)
(* twice.                                                                    *)
FdsAccounted == /\ kind = "flow" => flow!FdsAccounted
                /\ kind = "tags" => tags!FdsAccounted
                /\ kind = "pair" => pair!FdsAccounted
                /\ kind = "fds" => fds!FdsAccounted

(* clock_manager.cpp: no client is ticked ahead of its time.                 *)
NeverAhead == /\ kind = "clock" => clock!NeverAhead
              /\ kind = "clients" => clients!NeverAhead

(* alsa_device_enumerator.cpp: what was announced is what the registry holds.*)
AnnouncedIsRegistered == devices!AnnouncedIsRegistered

(* Whoever waits is answered: what is due of a stream is handed on, as long  *)
(* as one source sends (RtpSessions); a client that has audio left is asked  *)
(* for it (PulseReceiver); a registered client is ticked again (ClockManager)*)
Served ==
  \/ kind = "single" /\ sHeld["s"] = "due"
  \/ kind = "flow" /\ flow!Waiting("c", 1)
  \/ kind = "clock" /\ clock!Registered("a") /\ ~kSeen["a"]
  ~>
  \/ kind = "single" /\ sHeld["s"] # "due"
  \/ kind = "flow" /\ ~flow!Waiting("c", 1)
  \/ kind = "clock" /\ (~clock!Registered("a") \/ kSeen["a"] \/ kStop)

(* The clock's thread ends and the monitor's stop returns.                   *)
Stopped ==
  \/ kind = "clock" /\ kStop
  \/ kind = "devices" /\ vStopper = "tear"
  ~>
  \/ kind = "clock" /\ kWorker = "ended"
  \/ kind = "devices" /\ vStopper = "done"

(* When a stream falls silent all that is held of it is handed on            *)
(* (RtpReordering), and when the devices stay as they are they come to be    *)
(* known (DeviceMonitor).                                                    *)
Settles == <>[](Held = {} /\ (kind = "devices" => ~vRunning \/ devices!Known))

WaitsEnd == Served /\ Stopped /\ Settles
=============================================================================
