----------------------------- MODULE RtpSender -----------------------------
(***************************************************************************)
(* The RTP sender of a sink (senders/rtp/rtp_sender.cpp,                   *)
(* rtp_sender_core.cpp) and its Opus variant (rtp_opus_sender.cpp): the    *)
(* owner that sets it up, sends payloads and closes it, one call at a time *)
(* (the mixer closes it when its mixing thread is joined), and the two     *)
(* threads it starts, which announce the session (SAP) and send reports    *)
(* (RTCP) on sockets of their own.                                         *)
(*                                                                         *)
(* Audio is counted in frames: `given` were handed to the sender since it  *)
(* was made, the last `waiting` of them are not sent yet.  The random      *)
(* first timestamp and sequence number are taken as 0.                     *)
(***************************************************************************)
EXTENDS Naturals, Sequences

CONSTANTS
    Opus,         \* TRUE: the sender encodes frames of FrameSize
    FrameSize,
    SliceCap,     \* frames of PCM that fit a packet
    Sizes,        \* frames of a payload
    EncodeFails,  \* TRUE: the encoder may return an error or nothing
    MaxFrames,    \* bound: frames given
    MaxSetups     \* bound: calls of setup

VARIABLES
    pc,         \* what the owner does: "up" when set up, "closed" or "failed" when not
    after,      \* where close() returns to
    setups,     \* sessions begun
    flags,      \* sap_thread_running_, rtcp_thread_running_
    thread,     \* where each thread is; "none" when not joinable
    open,       \* the sockets that are open
    encoder,    \* the Opus encoder exists
    registered, \* the ssrc is in RtpSenderRegistry
    given, waiting,
    sending,    \* handle_send_payload is under way
    seq, ts,    \* sequence_number_, rtp_timestamp_
    wire        \* the packets sent: sequence number, timestamp, frames, the first one, session

ownerVars == <<pc, after, setups>>
threadVars == <<flags, thread>>
mediaVars == <<given, waiting, sending, seq, ts, wire>>
vars == <<ownerVars, threadVars, open, encoder, registered, mediaVars>>

Threads == {"sap", "rtcp"}

Init ==
    /\ pc = "closed" /\ after = "closed" /\ setups = 0
    /\ flags = {} /\ thread = [t \in Threads |-> "none"]
    /\ open = {} /\ encoder = FALSE /\ registered = FALSE
    /\ given = 0 /\ waiting = 0 /\ sending = FALSE
    /\ seq = 0 /\ ts = 0 /\ wire = <<>>

-----------------------------------------------------------------------------
(* setup()                                                                 *)

StillActive == open # {} \/ \E t \in Threads : thread[t] # "none"

\* setup() closes what an earlier session left.
BeginSetup ==
    /\ pc \in {"closed", "failed", "up"} /\ ~sending
    /\ setups < MaxSetups /\ setups' = setups + 1
    /\ IF StillActive
        THEN pc' = "stop_rtcp" /\ after' = "core"
        ELSE pc' = "core" /\ UNCHANGED after
    /\ UNCHANGED <<threadVars, open, encoder, registered, mediaVars>>

SetupCore ==
    /\ pc = "core"
    /\ \/ open' = open \union {"core"} /\ pc' = "pipeline"
       \/ UNCHANGED open /\ pc' = "failed"
    /\ UNCHANGED <<after, setups, threadVars, encoder, registered, mediaVars>>

\* The encoder starts with an empty buffer; without one setup() returns with
\* the socket of the core open.
InitializePipeline ==
    /\ pc = "pipeline"
    /\ waiting' = 0
    /\ \/ encoder' = Opus /\ pc' = "sap"
       \/ Opus /\ pc' = "failed" /\ encoder' = FALSE
    /\ UNCHANGED <<after, setups, threadVars, open, registered, given, sending, seq, ts, wire>>

\* A thread starts with its socket; the sender does without either.
StartThread(t) ==
    \/ /\ open' = open \union {t} /\ flags' = flags \union {t}
       /\ thread' = [thread EXCEPT ![t] = "loop"]
    \/ UNCHANGED <<open, flags, thread>>

SetupSap ==
    /\ pc = "sap" /\ pc' = "rtcp"
    /\ StartThread("sap")
    /\ UNCHANGED <<after, setups, encoder, registered, mediaVars>>

SetupRtcp ==
    /\ pc = "rtcp" /\ pc' = "up"
    /\ StartThread("rtcp")
    /\ registered' = TRUE
    /\ UNCHANGED <<after, setups, encoder, mediaVars>>

-----------------------------------------------------------------------------
(* close()                                                                 *)

Close ==
    /\ pc \in {"up", "failed"} /\ ~sending
    /\ pc' = "stop_rtcp" /\ after' = "closed"
    /\ UNCHANGED <<setups, threadVars, open, encoder, registered, mediaVars>>

\* mutant: the socket is closed to wake its thread
StopThreadClosing(t, stop, join, next) ==
    /\ pc = stop
    /\ pc' = IF t \in flags THEN join ELSE next
    /\ flags' = flags \ {t} /\ open' = open \ {t}
    /\ UNCHANGED <<after, setups, thread, encoder, registered, mediaVars>>

StopThread(t, stop, join, next) ==
    /\ pc = stop
    /\ pc' = IF t \in flags THEN join ELSE next
    /\ flags' = flags \ {t}
    /\ UNCHANGED <<after, setups, thread, open, encoder, registered, mediaVars>>

StopRtcp == StopThread("rtcp", "stop_rtcp", "join_rtcp", "stop_sap")

StopSap == StopThread("sap", "stop_sap", "join_sap", "sockets")

Join(t, join, next) ==
    /\ pc = join /\ pc' = next
    /\ thread[t] = "done" /\ thread' = [thread EXCEPT ![t] = "none"]
    /\ UNCHANGED <<after, setups, flags, open, encoder, registered, mediaVars>>

JoinRtcp == Join("rtcp", "join_rtcp", "stop_sap")
JoinSap == Join("sap", "join_sap", "sockets")

CloseRest ==
    /\ pc = "sockets" /\ pc' = after
    /\ open' = {} /\ encoder' = FALSE /\ registered' = FALSE
    /\ waiting' = 0
    /\ UNCHANGED <<after, setups, threadVars, given, sending, seq, ts, wire>>

-----------------------------------------------------------------------------
(* The threads                                                             *)

Move(t, from, to) ==
    /\ thread[t] = from /\ thread' = [thread EXCEPT ![t] = to]
    /\ UNCHANGED <<ownerVars, flags, open, encoder, registered, mediaVars>>

SapLoop == Move("sap", "loop", IF "sap" \in flags THEN "send" ELSE "done")

\* One announcement for each interface and destination.
Announce == Move("sap", "send", IF "sap" \in flags THEN "wait" ELSE "done")

\* Five seconds, or until stop: the flag is the predicate of the wait.
SapWait == Move("sap", "wait", "loop")

RtcpLoop ==
    \E to \in {"report", "receive"} :
        Move("rtcp", "loop", IF "rtcp" \in flags THEN to ELSE "done")

SendReport == Move("rtcp", "report", "receive")

\* What is received is only logged; nothing arrives for 100 ms at most.
Receive == Move("rtcp", "receive", "loop")

-----------------------------------------------------------------------------
(* send_payload()                                                          *)

SendPayload(n) ==
    /\ pc = "up" /\ ~sending /\ given + n <= MaxFrames
    /\ given' = given + n
    /\ waiting' = IF Opus THEN waiting + n ELSE n
    /\ sending' = TRUE
    /\ UNCHANGED <<ownerVars, threadVars, open, encoder, registered, seq, ts, wire>>

PacketFrames == IF Opus THEN FrameSize ELSE IF waiting < SliceCap THEN waiting ELSE SliceCap
Enough == IF Opus THEN waiting >= FrameSize ELSE waiting > 0

\* A packet takes the next sequence number before it is sent.
Emit(n) ==
    /\ seq' = seq + 1
    /\ wire' = Append(wire, [seq |-> seq, ts |-> ts, at |-> given - waiting,
                             frames |-> n, session |-> setups])

SendPacket ==
    /\ sending /\ Enough
    /\ Emit(PacketFrames)
    /\ ts' = ts + PacketFrames
    /\ waiting' = waiting - PacketFrames
    /\ UNCHANGED <<ownerVars, threadVars, open, encoder, registered, given, sending>>

\* mutant: the number is taken when the packet is away
SendFailsUnnumbered ==
    /\ sending /\ Enough
    /\ IF Opus
        THEN ts' = ts + FrameSize /\ waiting' = waiting - FrameSize /\ UNCHANGED sending
        ELSE waiting' = 0 /\ sending' = FALSE /\ UNCHANGED ts
    /\ UNCHANGED <<ownerVars, threadVars, open, encoder, registered, given, seq, wire>>

\* A failed send costs PCM the rest of its payload, and the clock stands
\* still; Opus loses the frame, and the clock moves on.
SendFails ==
    /\ sending /\ Enough
    /\ seq' = seq + 1
    /\ IF Opus
        THEN ts' = ts + FrameSize /\ waiting' = waiting - FrameSize /\ UNCHANGED sending
        ELSE waiting' = 0 /\ sending' = FALSE /\ UNCHANGED ts
    /\ UNCHANGED <<ownerVars, threadVars, open, encoder, registered, given, wire>>

\* A frame that is not encoded is dropped, and the clock stands still.
EncodingFails ==
    /\ Opus /\ EncodeFails /\ sending /\ Enough
    /\ waiting' = waiting - FrameSize
    /\ UNCHANGED <<ownerVars, threadVars, open, encoder, registered, given, sending, seq, ts, wire>>

PayloadDone ==
    /\ sending /\ ~Enough
    /\ sending' = FALSE
    /\ UNCHANGED <<ownerVars, threadVars, open, encoder, registered, given, waiting, seq, ts, wire>>

-----------------------------------------------------------------------------
Closing == StopRtcp \/ StopSap \/ JoinRtcp \/ JoinSap \/ CloseRest
Threading == SapLoop \/ Announce \/ SapWait \/ RtcpLoop \/ SendReport \/ Receive

Next ==
    \/ BeginSetup \/ SetupCore \/ InitializePipeline \/ SetupSap \/ SetupRtcp
    \/ Close \/ Closing
    \/ Threading
    \/ \E n \in Sizes : SendPayload(n)
    \/ SendPacket \/ SendFails \/ EncodingFails \/ PayloadDone

\* The caller of close() and the two threads run; sends and waits time out.
Fairness ==
    /\ WF_vars(Closing)
    /\ WF_vars(SapLoop \/ Announce \/ SapWait)
    /\ WF_vars(RtcpLoop \/ SendReport \/ Receive)

Spec == Init /\ [][Next]_vars
FairSpec == Spec /\ Fairness

-----------------------------------------------------------------------------
TypeOK ==
    /\ setups \in 0..MaxSetups /\ flags \subseteq Threads
    /\ open \subseteq Threads \union {"core"}
    /\ encoder \in BOOLEAN /\ registered \in BOOLEAN /\ sending \in BOOLEAN
    /\ waiting \in 0..given /\ given \in 0..MaxFrames

Using == {"send", "report", "receive", "wait", "loop"}

\* A socket is open as long as its thread may use it, a sender that is closed
\* has left no thread, socket or registration behind, and one that sends has
\* its ssrc registered and its encoder (rtp_sender.cpp:444-491).
SocketsOutliveThreads ==
    /\ \A t \in Threads : thread[t] \in Using => t \in open
    /\ pc = "closed" => ~StillActive /\ ~registered /\ ~encoder /\ flags = {}
    /\ sending => registered /\ "core" \in open /\ encoder = Opus

\* What a session loses its receivers can see: when frames are missing
\* between two packets, so is a sequence number (unless the encoder fails,
\* which drops a frame without a trace), and no two packets claim the
\* same media time, nor more of it than audio was given
\* (rtp_sender.cpp:504-575, rtp_sender_core.cpp:210, rtp_opus_sender.cpp:350-352).
LossIsSeen ==
    \A i \in 2..Len(wire) :
        LET p == wire[i - 1]
            q == wire[i] IN
        /\ p.seq < q.seq
        /\ p.ts + p.frames <= q.ts
        /\ q.ts - p.ts <= q.at - p.at
        /\ p.session = q.session /\ p.at + p.frames < q.at /\ ~EncodeFails => p.seq + 1 < q.seq

\* close() returns: both threads see that they are to stop.
CloseReturns == pc = "stop_rtcp" ~> pc \in {"closed", "core"}
=============================================================================
