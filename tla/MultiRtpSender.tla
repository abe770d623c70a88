--------------------------- MODULE MultiRtpSender ---------------------------
(***************************************************************************)
(* The senders that split a sink over several RTP receivers                *)
(* (senders/rtp/multi_device_rtp_sender.cpp and                            *)
(* multi_device_rtp_opus_sender.cpp) with the RtcpController that reports  *)
(* for all of them from a thread of its own (rtcp_controller.cpp).  setup, *)
(* send_payload and close are called one at a time.                        *)
(*                                                                         *)
(* Time is counted in frames of the audio given, which comes as fast as    *)
(* the wall clock; the random first RTP timestamp is Start.                *)
(***************************************************************************)
EXTENDS Naturals, Sequences

CONSTANTS
    Receivers,
    Disabled,       \* the receivers whose configuration is not enabled
    Opus,           \* TRUE: frames of PacketFrames are encoded for each receiver
    PacketFrames,   \* frames of a packet at most (PCM), or exactly (Opus)
    Sizes,          \* frames of a payload
    Start,          \* the first timestamp
    MaxFrames, MaxSetups    \* bounds

VARIABLES
    pc,         \* the step of setup() or close() that is next, "up" or "closed"
    setups,
    active,     \* active_receivers_
    streams,    \* streams_ of the controller: the receivers whose sender it points to
    began,      \* the media time at which each stream was added
    running,    \* rtcp_thread_running_
    rtcp,       \* its thread: "none", "loop", "reporting" or "done"
    todo,       \* streams that this round has still to report
    given, waiting,
    slice,      \* receivers that the packet at hand is still to be sent to; {} between packets
    sending,
    ts,         \* rtp_timestamp_ with the packets of this payload
    wire,       \* for each receiver the packets sent: timestamp, first frame, frames
    report      \* the last report sent, if any: what it says, and the media time it was sent at

senders == <<active, streams, began>>
thread == <<running, rtcp, todo>>
media == <<given, waiting, slice, sending, ts, wire>>
vars == <<pc, setups, senders, thread, media, report>>

Init ==
    /\ pc = "closed" /\ setups = 0
    /\ active = {} /\ streams = {} /\ began = [r \in Receivers |-> 0]
    /\ running = FALSE /\ rtcp = "none" /\ todo = {}
    /\ given = 0 /\ waiting = 0 /\ slice = {} /\ sending = FALSE
    /\ ts = Start
    /\ wire = [r \in Receivers |-> <<>>]
    /\ report = {}

At == given - waiting

-----------------------------------------------------------------------------
(* setup() and close()                                                     *)

\* The receivers that setup leaves in, after those whose socket fails.
SetupReceivers ==
    /\ pc = "closed" /\ setups < MaxSetups /\ setups' = setups + 1
    /\ ~Opus
    /\ \E S \in SUBSET Receivers :
        active' = S /\ pc' = IF S = {} THEN "closed" ELSE "streams"
    /\ UNCHANGED <<streams, began, thread, media, report>>

\* The Opus sender also skips a disabled receiver, and one without an encoder.
SetupEncoders ==
    /\ pc = "closed" /\ setups < MaxSetups /\ setups' = setups + 1
    /\ Opus
    /\ \E S \in SUBSET (Receivers \ Disabled) :
        active' = S /\ pc' = IF S = {} THEN "closed" ELSE "streams"
    /\ UNCHANGED <<streams, began, thread, media, report>>

\* add_stream of each, without those whose RTCP socket fails.
AddStreams ==
    /\ pc = "streams" /\ pc' = "start"
    /\ \E S \in SUBSET active : streams' = streams \union S
    /\ began' = [r \in Receivers |-> IF r \in active THEN At ELSE began[r]]
    /\ UNCHANGED <<setups, active, thread, media, report>>

StartController ==
    /\ pc = "start" /\ pc' = "up"
    /\ running' = TRUE /\ rtcp' = "loop"
    /\ waiting' = 0
    /\ UNCHANGED <<setups, senders, todo, given, slice, sending, ts, wire, report>>

\* mutant: the receivers go before the controller stops
BeginCloseEarly ==
    /\ pc = "up" /\ ~sending
    /\ pc' = "join" /\ running' = FALSE /\ active' = {}
    /\ UNCHANGED <<setups, streams, began, rtcp, todo, media, report>>

\* close(): the controller stops first.
BeginClose ==
    /\ pc = "up" /\ ~sending
    /\ pc' = "join" /\ running' = FALSE
    /\ UNCHANGED <<setups, senders, rtcp, todo, media, report>>

JoinThread ==
    /\ pc = "join" /\ rtcp = "done"
    /\ pc' = "destroy" /\ rtcp' = "none" /\ streams' = {}
    /\ UNCHANGED <<setups, active, began, running, todo, media, report>>

DestroyReceivers ==
    /\ pc = "destroy" /\ pc' = "closed"
    /\ active' = {} /\ waiting' = 0
    /\ UNCHANGED <<setups, streams, began, thread, given, slice, sending, ts, wire, report>>

-----------------------------------------------------------------------------
(* The thread of the controller                                            *)

RtcpLoop ==
    /\ rtcp = "loop"
    /\ \/ ~running /\ rtcp' = "done" /\ UNCHANGED todo
       \/ running /\ rtcp' = "reporting" /\ todo' = streams
    /\ UNCHANGED <<pc, setups, senders, running, media, report>>

\* The timestamp is what 48 kHz have played since the stream was added, and
\* counts from 0.
SendReport(r) ==
    /\ rtcp = "reporting" /\ r \in todo
    /\ todo' = todo \ {r}
    /\ report' = {[to |-> r, rtp |-> At - began[r], time |-> At]}
    /\ UNCHANGED <<pc, setups, senders, running, rtcp, media>>

ReportsSent ==
    /\ rtcp = "reporting" /\ todo = {}
    /\ rtcp' = "loop"
    /\ UNCHANGED <<pc, setups, senders, running, todo, media, report>>

-----------------------------------------------------------------------------
(* send_payload()                                                          *)

Enough == IF Opus THEN waiting >= PacketFrames ELSE waiting > 0
Frames == IF waiting < PacketFrames THEN waiting ELSE PacketFrames

SendPayload(n) ==
    /\ pc = "up" /\ ~sending /\ given + n <= MaxFrames
    /\ given' = given + n /\ waiting' = waiting + n
    /\ sending' = TRUE /\ slice' = active
    /\ UNCHANGED <<pc, setups, senders, thread, ts, wire, report>>

\* One packet to one receiver: sent, or lost with its encoding or its send.
Turn(r) ==
    /\ sending /\ Enough /\ r \in slice
    /\ slice' = slice \ {r}
    /\ \/ wire' = [wire EXCEPT ![r] = Append(@, [ts |-> ts, at |-> At, frames |-> Frames])]
       \/ UNCHANGED wire
    /\ UNCHANGED <<pc, setups, senders, thread, given, waiting, sending, ts, report>>

SendSlice(r) == ~Opus /\ Turn(r)
EncodeFrame(r) == Opus /\ Turn(r)

\* mutant: the clock moves when every receiver was sent the packet
NextSliceIfSent ==
    /\ sending /\ Enough /\ slice = {}
    /\ slice' = active
    /\ waiting' = waiting - Frames
    /\ ts' = IF \A r \in active : wire[r] # <<>> /\ wire[r][Len(wire[r])].at = At
             THEN ts + Frames ELSE ts
    /\ UNCHANGED <<pc, setups, senders, thread, given, sending, wire, report>>

\* The shared clock moves when every receiver had its turn.
NextSlice ==
    /\ sending /\ Enough /\ slice = {}
    /\ slice' = active
    /\ waiting' = waiting - Frames
    /\ ts' = ts + Frames
    /\ UNCHANGED <<pc, setups, senders, thread, given, sending, wire, report>>

PayloadDone ==
    /\ sending /\ ~Enough
    /\ sending' = FALSE /\ slice' = {}
    /\ UNCHANGED <<pc, setups, senders, thread, given, waiting, ts, wire, report>>

Next ==
    \/ SetupReceivers \/ SetupEncoders \/ AddStreams \/ StartController \/ BeginClose \/ JoinThread \/ DestroyReceivers
    \/ RtcpLoop \/ ReportsSent
    \/ \E r \in Receivers : SendReport(r) \/ SendSlice(r) \/ EncodeFrame(r)
    \/ \E n \in Sizes : SendPayload(n)
    \/ NextSlice \/ PayloadDone

Spec == Init /\ [][Next]_vars

-----------------------------------------------------------------------------
TypeOK ==
    /\ active \subseteq Receivers /\ streams \subseteq Receivers /\ todo \subseteq Receivers
    /\ waiting \in 0..given /\ given \in 0..MaxFrames /\ slice \subseteq active

\* The thread reads senders that exist (the streams hold plain pointers to
\* them: rtcp_controller.cpp:151, multi_device_rtp_sender.cpp:150-176).
StreamsAlive == todo \subseteq active

\* The receivers stay in lockstep whatever is lost on the way to one of them:
\* two packets with one timestamp hold the same frames, and a packet with a
\* later timestamp holds later ones (multi_device_rtp_sender.cpp:227-275,
\* multi_device_rtp_opus_sender.cpp:232-279).
InLockstep ==
    \A r, s \in Receivers : \A i \in DOMAIN wire[r], j \in DOMAIN wire[s] :
        LET p == wire[r][i]
            q == wire[s][j] IN
        /\ p.ts = q.ts => p.at = q.at /\ p.frames = q.frames
        /\ p.ts < q.ts => p.at + p.frames <= q.at

\* A report pairs the wall clock with the media time of its stream
\* (rtcp_controller.cpp:34 "Will be updated from actual RTP stream").
ReportsTellMediaTime ==
    \A p \in report : \A i \in DOMAIN wire[p.to] :
        wire[p.to][i].at = p.time => p.rtp = wire[p.to][i].ts
=============================================================================
