--------------------------- MODULE PulseReceiver ---------------------------
(***************************************************************************)
(* The PulseAudio native-protocol receiver                                 *)
(* (receivers/pulse/pulse_receiver.cpp): an accepting thread, one thread   *)
(* per client connection, the playback streams of each connection, the     *)
(* wildcard tags the receiver publishes for them, the flow of requests and *)
(* audio, and the memfd file descriptors that travel beside the messages.  *)
(*                                                                         *)
(* Audio is counted in units: a chunk is ChunkUnits of them and the frame  *)
(* cursor counts chunks, since every chunk of a stream has as many frames. *)
(* Commands that change nothing but their own reply are the operation      *)
(* "query"; those that only set a field no other code reads are "set".     *)
(* Of the frames a connection writes, the requests for audio are kept: the *)
(* replies, errors and notices are read by no one here.                    *)
(***************************************************************************)
EXTENDS Integers, Sequences, SequencesExt, FiniteSets, FiniteSetsExt

CONSTANTS
    Conns,          \* the connections that may be accepted
    Programs,       \* the client programs: the base tag of their streams
    ShmIds,         \* ids of memfd pools
    ChunkUnits,     \* units of audio in a chunk
    MinReq,         \* buffer_attr.minreq, in units
    MaxConnections, \* kMaxConnections
    Ops,            \* the commands the clients use
    Window,         \* bound: messages on their way at a time
    MaxStreams,     \* bound: streams a connection creates
    MaxMsgs,        \* bound: messages a client sends besides audio
    MaxData,        \* bound: units of audio a client sends
    MaxCredit       \* bound: units asked for and not sent yet

VARIABLES
    running,    \* the accepting thread: "up", "stopping", "down"
    phase,      \* phase[c]: "none", "run", "finished" or "gone"
    pc,         \* where the thread of c is in its loop
    prog,       \* the client program of c
    authorized,
    socket,     \* messages on their way to the receiver
    pendingFds, \* fds received and not yet given to a message
    readBuf,    \* messages received and not yet decoded
    streams,    \* streams[c]: stream index -> state
    nextIndex,  \* next_stream_index
    pools,      \* memfd_pools: shm id -> fd
    writeQ,     \* the requests for audio in write_queue
    credit,     \* what the client was asked for and has not sent, per stream
    composites, \* wildcard_to_composites
    known,      \* known_tags
    nextTag,    \* g_pulse_stream_counter
    opened, closed, \* the fds that reached the process, and those closed again
    msgs, sent  \* messages and audio units the client of c has sent

tagVars == <<composites, known, nextTag>>
fdVars == <<opened, closed>>
clientVars == <<credit, msgs, sent>>
connVars == <<phase, pc, prog, authorized, pendingFds, readBuf, streams, nextIndex, pools, writeQ>>
vars == <<running, connVars, socket, tagVars, fdVars, clientVars>>

Empty == [x \in {} |-> 0]

\* The units that a sequence of frames asks the client of stream s for.
Asked(frames, s) ==
    FoldSeq(LAMBDA f, n : IF f.s = s THEN n + f.n ELSE n, 0, frames)

Put(f, k, v) == [x \in DOMAIN f \cup {k} |-> IF x = k THEN v ELSE f[x]]
Drop(f, k) == [x \in DOMAIN f \ {k} |-> f[x]]
Fds(f) == {f[x] : x \in DOMAIN f}

\* The request a stream makes when it starts, is flushed or runs dry.
EffectiveRequest == IF MinReq < ChunkUnits THEN ChunkUnits ELSE MinReq

NewStream(c) ==
    [comp |-> <<prog[c], nextTag>>, corked |-> FALSE, payload |-> 0, chunks |-> <<>>,
     cursor |-> 0, pend |-> EffectiveRequest, since |-> 0]

Init ==
    /\ running = "up"
    /\ phase = [c \in Conns |-> "none"]
    /\ pc = [c \in Conns |-> "top"]
    /\ prog \in [Conns -> Programs]
    /\ authorized = [c \in Conns |-> FALSE]
    /\ socket = [c \in Conns |-> <<>>]
    /\ pendingFds = [c \in Conns |-> <<>>]
    /\ readBuf = [c \in Conns |-> <<>>]
    /\ streams = [c \in Conns |-> Empty]
    /\ nextIndex = [c \in Conns |-> 1]
    /\ pools = [c \in Conns |-> Empty]
    /\ writeQ = [c \in Conns |-> <<>>]
    /\ credit = [c \in Conns |-> [s \in 1..MaxStreams |-> 0]]
    /\ composites = [p \in Programs |-> {}]
    /\ known = {}
    /\ nextTag = 0
    /\ opened = 0
    /\ closed = {}
    /\ msgs = [c \in Conns |-> 0]
    /\ sent = [c \in Conns |-> 0]

-----------------------------------------------------------------------------
(* The clients: what they may put on the wire.                             *)

OfStream == {"delete", "cork", "uncork", "flush", "attr", "set"}
AllOps == OfStream \cup {"auth", "query", "create", "memfd", "bad", "exit"}

MaySend(c) == phase[c] = "run" /\ Len(socket[c]) < Window

SendCommand(c) ==
    /\ MaySend(c) /\ msgs[c] < MaxMsgs
    /\ \E op \in Ops, s \in 1..MaxStreams, shm \in ShmIds :
        /\ op \in OfStream \/ s = 1
        /\ op = "memfd" \/ shm = Min(ShmIds)
        /\ msgs' = [msgs EXCEPT ![c] = @ + 1]
        /\ LET new == IF op = "memfd" THEN {opened + 1} ELSE {} IN
            socket' = [socket EXCEPT ![c] = Append(@, [op |-> op, s |-> s, n |-> shm, fds |-> new])]
        /\ opened' = IF op = "memfd" THEN opened + 1 ELSE opened
    /\ UNCHANGED <<running, connVars, tagVars, closed, credit, sent>>

\* A client sends audio only after it was asked for it.
SendAudio(c) ==
    /\ MaySend(c)
    /\ \E s \in 1..MaxStreams, n \in 1..ChunkUnits :
        /\ n <= credit[c][s] /\ sent[c] + n <= MaxData
        /\ socket' = [socket EXCEPT ![c] = Append(@, [op |-> "data", s |-> s, n |-> n, fds |-> {}])]
        /\ credit' = [credit EXCEPT ![c][s] = @ - n]
        /\ sent' = [sent EXCEPT ![c] = @ + n]
    /\ UNCHANGED <<running, connVars, tagVars, fdVars, msgs>>

-----------------------------------------------------------------------------
(* The tags published for the streams.  Each of the two maps has a mutex   *)
(* of its own; what a handler does to both, one call after the other, is   *)
(* one step: they agree between the handlers, not between the two calls.   *)

Publish(c, st) ==
    /\ known' = known \cup {prog[c]}
    /\ composites' = [composites EXCEPT ![prog[c]] = @ \cup {st.comp}]

WithdrawNameOnly(c, sts) == \* mutant: the mapping is kept
    /\ composites' = composites
    /\ known' = IF sts = {} THEN known ELSE known \ {prog[c]}

\* unregister_tag_mapping and note_tag_removed of a set of streams of one program
Withdraw(c, sts) ==
    /\ composites' = [composites EXCEPT ![prog[c]] = @ \ {st.comp : st \in sts}]
    /\ known' = IF sts = {} THEN known ELSE known \ {prog[c]}

-----------------------------------------------------------------------------
(* The accepting thread: event_loop.                                       *)

\* accept_connections: a client over the limit is closed at once; finished
\* connections count until they are pruned.
Accept(c) ==
    /\ running = "up" /\ phase[c] = "none"
    /\ IF Cardinality({d \in Conns : phase[d] \in {"run", "finished"}}) >= MaxConnections
        THEN phase' = [phase EXCEPT ![c] = "gone"]
        ELSE phase' = [phase EXCEPT ![c] = "run"]
    /\ UNCHANGED <<running, pc, prog, authorized, pendingFds, readBuf, streams, nextIndex,
                   pools, writeQ, socket, tagVars, fdVars, clientVars>>

\* ~Connection: the clocks are unregistered, the streams reset in the buffer,
\* the tags withdrawn, every file descriptor closed.
Destroy(c) ==
    /\ phase' = [phase EXCEPT ![c] = "gone"]
    /\ Withdraw(c, Fds(streams[c]))
    /\ closed' = closed \cup Fds(pools[c]) \cup UNION Range(pendingFds[c])
    /\ streams' = [streams EXCEPT ![c] = Empty]
    /\ pools' = [pools EXCEPT ![c] = Empty]
    /\ pendingFds' = [pendingFds EXCEPT ![c] = <<>>]
    /\ UNCHANGED <<nextTag, pc, prog, authorized, readBuf, nextIndex, writeQ, socket,
                   opened, clientVars>>

\* prune_finished_connections
Prune(c) ==
    /\ running = "up" /\ phase[c] = "finished"
    /\ Destroy(c)
    /\ UNCHANGED running

Stop ==
    /\ running = "up"
    /\ running' = "stopping"
    /\ UNCHANGED <<connVars, socket, tagVars, fdVars, clientVars>>

\* stop_all_connections joins a thread and destroys its connection
StopConnection(c) ==
    /\ running = "stopping" /\ phase[c] = "finished"
    /\ Destroy(c)
    /\ UNCHANGED running

\* shutdown_all
Shutdown ==
    /\ running = "stopping"
    /\ \A c \in Conns : phase[c] \in {"none", "gone"}
    /\ running' = "down"
    /\ UNCHANGED <<connVars, socket, tagVars, fdVars, clientVars>>

-----------------------------------------------------------------------------
(* The thread of a connection.                                             *)

At(c, p) == phase[c] = "run" /\ pc[c] = p
Goto(c, p) == pc' = [pc EXCEPT ![c] = p]

\* The loop ends: the context is marked finished.
Finish(c) == phase' = [phase EXCEPT ![c] = "finished"]

\* The head of the loop: the receiver is stopping.
HearStop(c) ==
    /\ At(c, "top") /\ running # "up"
    /\ Finish(c)
    /\ UNCHANGED <<running, pc, prog, authorized, pendingFds, readBuf, streams, nextIndex, pools,
                   writeQ, socket, tagVars, fdVars, clientVars>>

\* handle_clock_tick with a chunk: it leaves the queue; unless the stream is
\* corked it goes to the timeshift manager and is asked for again.
PlayChunk(st) ==
    LET since == st.since + ChunkUnits IN
    IF st.corked THEN [st EXCEPT !.chunks = Tail(@)]
    ELSE [st EXCEPT !.chunks = Tail(@),
                    !.pend = @ + MinReq * (since \div MinReq),
                    !.since = since % MinReq]

RunDrySilently(st) == st \* mutant: a tick without data asks for nothing

\* handle_clock_tick without one: another request, no silence.
RunDry(st) == IF st.corked THEN st ELSE [st EXCEPT !.pend = @ + EffectiveRequest]

HandleTick(st) == IF st.chunks # <<>> THEN PlayChunk(st) ELSE RunDry(st)

Outstanding(c, s) == credit[c][s] + streams[c][s].pend + Asked(writeQ[c], s)

\* dispatch_clock_ticks: the streams of T had a tick since the last pass.
Ticked(c, T) == [s \in DOMAIN streams[c] |->
                    IF s \in T THEN HandleTick(streams[c][s]) ELSE streams[c][s]]

\* process_due_requests: the requests whose time has come, D, are sent whole.
SendRequests(c, sts, D) ==
    /\ writeQ' = [writeQ EXCEPT ![c] = @ \o SetToSeq({[s |-> s, n |-> sts[s].pend] : s \in D})]
    /\ streams' = [streams EXCEPT ![c] =
            [s \in DOMAIN sts |-> IF s \in D THEN [sts[s] EXCEPT !.pend = 0] ELSE sts[s]]]

\* The body of the loop up to poll.
Pass(c, T, D) ==
    /\ At(c, "top") /\ running = "up"
    /\ T \subseteq DOMAIN streams[c]
    /\ \A s \in T : streams[c][s].chunks = <<>> => Outstanding(c, s) < MaxCredit
    /\ D \subseteq {s \in DOMAIN streams[c] : Ticked(c, T)[s].pend > 0}
    /\ SendRequests(c, Ticked(c, T), D)
    /\ Goto(c, "poll")
    /\ UNCHANGED <<running, phase, prog, authorized, pendingFds, readBuf, nextIndex, pools,
                   socket, tagVars, fdVars, clientVars>>

\* poll times out.
PollTimeout(c) ==
    /\ At(c, "poll") /\ socket[c] = <<>> /\ writeQ[c] = <<>>
    /\ Goto(c, "top")
    /\ UNCHANGED <<running, phase, prog, authorized, pendingFds, readBuf, streams, nextIndex,
                   pools, writeQ, socket, tagVars, fdVars, clientVars>>

\* The peer closed the connection, or an error on the socket.
PeerLost(c) ==
    /\ At(c, "poll") \/ At(c, "read")
    /\ Finish(c)
    /\ UNCHANGED <<running, pc, prog, authorized, pendingFds, readBuf, streams, nextIndex, pools,
                   writeQ, socket, tagVars, fdVars, clientVars>>

\* handle_read, first loop: message after message until the socket is empty,
\* their fds in a queue of their own.
Receive(c) ==
    /\ At(c, "poll") \/ At(c, "read")
    /\ socket[c] # <<>>
    /\ LET m == Head(socket[c]) IN
        /\ readBuf' = [readBuf EXCEPT ![c] = Append(@, [op |-> m.op, s |-> m.s, n |-> m.n])]
        /\ pendingFds' = [pendingFds EXCEPT ![c] = IF m.fds = {} THEN @ ELSE Append(@, m.fds)]
    /\ socket' = [socket EXCEPT ![c] = Tail(@)]
    /\ Goto(c, IF Tail(socket[c]) = <<>> THEN "decode" ELSE "read")
    /\ UNCHANGED <<running, phase, prog, authorized, streams, nextIndex, pools, writeQ,
                   tagVars, fdVars, clientVars>>

\* handle_write, after the reads: frames go out in order, as many as the socket
\* takes; the client counts what it is asked for.
Write(c) ==
    /\ \/ At(c, "poll") /\ socket[c] = <<>> /\ writeQ[c] # <<>>
       \/ At(c, "decode") /\ readBuf[c] = <<>>
    /\ \E k \in 0..Len(writeQ[c]) :
        /\ writeQ' = [writeQ EXCEPT ![c] = SubSeq(@, k + 1, Len(@))]
        /\ credit' = [credit EXCEPT ![c] =
                [s \in 1..MaxStreams |-> @[s] + Asked(SubSeq(writeQ[c], 1, k), s)]]
    /\ Goto(c, "top")
    /\ UNCHANGED <<running, phase, prog, authorized, pendingFds, readBuf, streams, nextIndex,
                   pools, socket, tagVars, fdVars, msgs, sent>>

-----------------------------------------------------------------------------
(* handle_read, second loop: one message is decoded and processed. Whatever*)
(* fds wait first go with it, and are closed after it unless it kept them. *)

Msg(c) == Head(readBuf[c])
MsgFds(c) == IF pendingFds[c] = <<>> THEN {} ELSE Head(pendingFds[c])

Decode(c, op) ==
    /\ At(c, "decode") /\ readBuf[c] # <<>> /\ Msg(c).op = op
    /\ readBuf' = [readBuf EXCEPT ![c] = Tail(@)]
    /\ pendingFds' = [pendingFds EXCEPT ![c] = IF @ = <<>> THEN @ ELSE Tail(@)]
    /\ UNCHANGED <<running, socket, prog, opened, clientVars, pc, writeQ>>

CloseNoFds(c) == closed' = closed \* mutant: unused fds are left open
CloseFds(c) == closed' = closed \cup MsgFds(c)
Stay == UNCHANGED phase
NoStreams == UNCHANGED <<streams, nextIndex, tagVars>>

\* handle_auth; a cookie that does not match, or a message that does not parse,
\* ends the connection ("bad"), as does the Exit command.
Auth(c) ==
    /\ Decode(c, "auth")
    /\ authorized' = [authorized EXCEPT ![c] = TRUE]
    /\ CloseFds(c) /\ Stay /\ NoStreams
    /\ UNCHANGED pools

Quit(c) ==
    /\ \E op \in {"bad", "exit"} : Decode(c, op)
    /\ CloseFds(c) /\ Finish(c) /\ NoStreams
    /\ UNCHANGED <<authorized, pools>>

\* The handlers that answer from constants or from the streams, the ones that
\* only acknowledge, and the unsupported commands.
Query(c) ==
    /\ Decode(c, "query")
    /\ CloseFds(c) /\ Stay /\ NoStreams
    /\ UNCHANGED <<authorized, pools>>

\* handle_create_playback_stream, or its refusal of a format, map or sink
Create(c) ==
    /\ Decode(c, "create")
    /\ CloseFds(c) /\ Stay
    /\ \/ /\ authorized[c] /\ nextIndex[c] <= MaxStreams
          /\ streams' = [streams EXCEPT ![c] = Put(@, nextIndex[c], NewStream(c))]
          /\ nextIndex' = [nextIndex EXCEPT ![c] = @ + 1]
          /\ Publish(c, NewStream(c))
          /\ nextTag' = nextTag + 1
       \/ NoStreams
    /\ UNCHANGED <<authorized, pools>>

\* handle_delete_stream: a missing stream is acknowledged too.
Delete(c) ==
    /\ Decode(c, "delete")
    /\ IF Msg(c).s \in DOMAIN streams[c]
        THEN /\ streams' = [streams EXCEPT ![c] = Drop(@, Msg(c).s)]
             /\ Withdraw(c, {streams[c][Msg(c).s]})
             /\ UNCHANGED <<nextIndex, nextTag>>
        ELSE NoStreams
    /\ CloseFds(c) /\ Stay
    /\ UNCHANGED <<authorized, pools>>

\* handle_cork_stream
Cork(st) == [st EXCEPT !.corked = TRUE, !.pend = 0, !.since = 0]
Uncork(st) == [st EXCEPT !.corked = FALSE, !.pend = EffectiveRequest, !.since = 0]
\* handle_flush_stream: what is buffered goes, the frame cursor stays.
Flush(st) == [st EXCEPT !.payload = 0, !.chunks = <<>>, !.pend = EffectiveRequest, !.since = 0]
\* handle_set_buffer_attr
SetAttr(st) == [st EXCEPT !.pend = EffectiveRequest]

\* The setters of names, volumes, mutes and property lists change nothing that
\* the flow of audio depends on.
Changed(op, st) ==
    CASE op = "cork" -> Cork(st)
      [] op = "uncork" -> Uncork(st)
      [] op = "flush" -> Flush(st)
      [] op = "attr" -> SetAttr(st)
      [] OTHER -> st

Change(c, op) ==
    /\ Decode(c, op)
    /\ IF Msg(c).s \in DOMAIN streams[c]
        THEN streams' = [streams EXCEPT ![c][Msg(c).s] = Changed(op, @)]
        ELSE UNCHANGED streams
    /\ CloseFds(c) /\ Stay
    /\ UNCHANGED <<authorized, pools, nextIndex, tagVars>>

\* handle_register_memfd: exactly one fd must have come; the pool keeps it and
\* the fd it had under that id is closed.
MemfdIgnored(c) ==          \* use_memfd is still false
    /\ ~authorized[c]
    /\ CloseFds(c) /\ Stay
    /\ UNCHANGED pools
MemfdMissing(c) ==
    /\ authorized[c] /\ MsgFds(c) = {}
    /\ CloseFds(c) /\ Finish(c)
    /\ UNCHANGED pools
MemfdKept(c) ==
    /\ authorized[c] /\ MsgFds(c) # {}
    /\ closed' = closed \cup {pools[c][i] : i \in {Msg(c).n} \cap DOMAIN pools[c]}
    /\ pools' = [pools EXCEPT ![c] = Put(@, Msg(c).n, CHOOSE f \in MsgFds(c) : TRUE)]
    /\ Stay

Memfd(c) ==
    /\ Decode(c, "memfd")
    /\ MemfdIgnored(c) \/ MemfdMissing(c) \/ MemfdKept(c)
    /\ NoStreams
    /\ UNCHANGED authorized

\* handle_playback_data: the payload is cut in chunks, each with the frame it
\* starts at; audio for an unknown stream ends the connection.
Chunked(st, n) ==
    LET total == st.payload + n
        k == total \div ChunkUnits
    IN [st EXCEPT !.payload = total % ChunkUnits,
                  !.chunks = @ \o [i \in 1..k |-> st.cursor + i - 1],
                  !.cursor = @ + k]

Data(c) ==
    /\ Decode(c, "data")
    /\ IF Msg(c).s \in DOMAIN streams[c]
        THEN streams' = [streams EXCEPT ![c][Msg(c).s] = Chunked(@, Msg(c).n)] /\ Stay
        ELSE Finish(c) /\ UNCHANGED streams
    /\ CloseFds(c)
    /\ UNCHANGED <<authorized, pools, nextIndex, tagVars>>

-----------------------------------------------------------------------------
Process(c) ==
    \/ Auth(c) \/ Quit(c) \/ Query(c) \/ Create(c) \/ Delete(c) \/ Memfd(c) \/ Data(c)
    \/ \E op \in {"cork", "uncork", "flush", "attr", "set"} : Change(c, op)

Loop(c) ==
    \/ HearStop(c) \/ PollTimeout(c) \/ Receive(c) \/ Write(c) \/ Process(c)
    \/ \E T \in SUBSET DOMAIN streams[c] : \E D \in SUBSET DOMAIN streams[c] : Pass(c, T, D)

Next ==
    \/ Stop \/ Shutdown
    \/ \E c \in Conns :
        \/ SendCommand(c) \/ SendAudio(c) \/ PeerLost(c)
        \/ Accept(c) \/ Prune(c) \/ StopConnection(c) \/ Loop(c)

Spec == Init /\ [][Next]_vars

\* A pass that handles a tick of stream s; one that sends its request.
TickOf(c, s) ==
    \E T \in SUBSET DOMAIN streams[c] : \E D \in SUBSET DOMAIN streams[c] : s \in T /\ Pass(c, T, D)
DueOf(c, s) ==
    \E T \in SUBSET DOMAIN streams[c] : \E D \in SUBSET DOMAIN streams[c] : s \in D /\ Pass(c, T, D)

\* The threads run; the clock of every stream ticks for ever, requests become
\* due, and a client reads what is written to it. Nothing is assumed of what
\* a client sends.
Fairness ==
    /\ \A c \in Conns :
        /\ WF_vars(Loop(c))
        /\ SF_vars(Write(c) /\ writeQ'[c] = <<>>)
        /\ \A s \in 1..MaxStreams :
            /\ SF_vars(TickOf(c, s))
            /\ SF_vars(DueOf(c, s))

FairSpec == Spec /\ Fairness

-----------------------------------------------------------------------------
(* Properties.                                                             *)

Live == {c \in Conns : phase[c] \in {"run", "finished"}}

\* A wildcard tag stands for exactly the streams that its programs play, on all
\* connections, those included whose thread has ended and that are not pruned
\* yet; and no program is announced that plays nothing.
TagsMatchStreams ==
    /\ \A p \in Programs : composites[p] =
            UNION {{st.comp : st \in Fds(streams[c])} : c \in {d \in Live : prog[d] = p}}
    /\ \A p \in known : composites[p] # {}

\* Each file descriptor a client passed is held in one place, queue or pool, or
\* closed; a connection that is gone holds none.
Held(c) == (UNION Range(pendingFds[c])) \cup Fds(pools[c])
FdsAccounted ==
    /\ (UNION {Held(c) : c \in Conns}) \cap closed = {}
    /\ \A c \in Conns :
        /\ (UNION Range(pendingFds[c])) \cap Fds(pools[c]) = {}
        /\ phase[c] = "gone" => Held(c) = {}
    /\ (1..opened) \ (closed \cup UNION {Held(c) : c \in Conns})
            \subseteq UNION {m.fds : m \in UNION {Range(socket[c]) : c \in Conns}}

\* Whatever was corked, flushed, or sent in part: a client that has audio left
\* for a stream that is not corked is asked for it in the end. (The request that
\* was used up by less than a chunk is made up for by a tick that finds nothing.)
Waiting(c, s) ==
    /\ phase[c] = "run" /\ running = "up"
    /\ s \in DOMAIN streams[c] /\ ~streams[c][s].corked
    /\ sent[c] < MaxData /\ credit[c][s] = 0
NeverStarved == \A c \in Conns, s \in 1..MaxStreams : Waiting(c, s) ~> ~Waiting(c, s)

\* "Keep any buffered data so uncork can resume smoothly": a clock tick takes
\* nothing from a corked stream.
CorkKeepsData ==
    [][\A c \in Conns : pc[c] = "top" => \A s \in DOMAIN streams[c] :
        (streams[c][s].corked /\ s \in DOMAIN streams'[c])
            => streams'[c][s].chunks = streams[c][s].chunks]_vars
=============================================================================
