---------------------------- MODULE RtpSessions ----------------------------
(***************************************************************************)
(* The RTP receiver's table of streams (receivers/rtp/rtp_receiver_base.cpp*)
(* with sap_listener/sap_directory.cpp): one thread takes packets from     *)
(* several sources, keeps a reordering buffer per SSRC, learns each        *)
(* stream's format - from an announcement, from its payload type, or by    *)
(* probing its first packets - and forgets what it knows of an SSRC when   *)
(* its source goes on to another one.  The SAP thread adds announcements.  *)
(*                                                                         *)
(* The sources are the ports of one host, so that an announcement for the  *)
(* host is one for each of them.  A reordering buffer, which RtpReordering *)
(* models, is here what it holds back: packets behind a missing one, and   *)
(* whether they have waited long enough.                                   *)
(***************************************************************************)
EXTENDS Naturals, FiniteSets

CONSTANTS
    Sources,    \* address and port of a sender
    Ssrcs,
    Formats,    \* what a stream may be encoded in
    Mapped,     \* those of which the payload type tells the format
    ProbeNeed,  \* packets a probe needs
    Announced,  \* senders announce their streams by SAP
    Reused,     \* an SSRC may come back before its source was heard with another one
    MaxSessions \* bound: sessions begun by the senders

VARIABLES
    session,    \* what a source sends: its SSRC and format, or None
    sessions,   \* sessions begun
    wire,       \* a packet of the source in its socket: "next", "early" or "fill"; or "none"
    sapSsrc, sapHost,   \* SapDirectory: the format of an SSRC; that of the host
    lastSsrc,   \* source_to_last_ssrc_
    lastAddr,   \* ssrc_last_addr_
    held,       \* reordering_buffers_: "absent", "open", "gap" or "due"
    sender,     \* the source and format of what a buffer holds back, or Nobody
    probe,      \* format_probes_: the formats it was fed, and how many packets; or NoProbe
    detected,   \* detected_formats_
    known,      \* known_source_tags_
    hand,       \* the source whose packet the thread has in hand, or None
    out         \* the last packet dispatched

senderVars == <<session, sessions, wire>>
sapVars == <<sapSsrc, sapHost>>
tableVars == <<lastSsrc, lastAddr, held, sender>>
formatVars == <<probe, detected>>
vars == <<senderVars, sapVars, tableVars, formatVars, known, hand, out>>

None == "none"
NoSession == [ssrc |-> None, format |-> None]
Nobody == [from |-> None, format |-> None]
NoProbe == [fed |-> {}, packets |-> 0]
Nothing == [from |-> None, ssrc |-> None, by |-> None, as |-> None, real |-> None]

Init ==
    /\ session = [a \in Sources |-> NoSession] /\ sessions = 0
    /\ wire = [a \in Sources |-> None]
    /\ sapSsrc = [s \in Ssrcs |-> None] /\ sapHost = None
    /\ lastSsrc = [a \in Sources |-> None] /\ lastAddr = [s \in Ssrcs |-> None]
    /\ held = [s \in Ssrcs |-> "absent"] /\ sender = [s \in Ssrcs |-> Nobody]
    /\ probe = [s \in Ssrcs |-> NoProbe] /\ detected = [s \in Ssrcs |-> None]
    /\ known = {} /\ hand = None /\ out = Nothing

-----------------------------------------------------------------------------
(* The senders, each with an SSRC no other one uses at the time.           *)

\* A new session: what is on the wire of the old one has arrived.
BeginSession(a) ==
    /\ sessions < MaxSessions /\ sessions' = sessions + 1
    /\ wire[a] = None /\ hand # a
    /\ \E s \in Ssrcs, f \in Formats :
        /\ \A b \in Sources : session[b].ssrc # s
        /\ \/ Reused
           \/ /\ \A b \in Sources \ {a} : lastSsrc[b] # s
              /\ session[a].ssrc \in {None, lastSsrc[a]}
        /\ session' = [session EXCEPT ![a] = [ssrc |-> s, format |-> f]]
    /\ UNCHANGED <<wire, sapVars, tableVars, formatVars, known, hand, out>>

\* A packet follows the one before it, or one was lost or overtaken; the missing one may
\* still come.
Send(a) ==
    /\ session[a] # NoSession /\ wire[a] = None
    /\ wire' \in {[wire EXCEPT ![a] = k] : k \in {"next", "early", "fill"}}
    /\ UNCHANGED <<session, sessions, sapVars, tableVars, formatVars, known, hand, out>>

\* SapListener::process_sap_packet, SapDirectory::upsert: an entry is replaced, and never
\* taken away; the host's is that of its latest announcement.
Announce(a) ==
    /\ Announced /\ session[a] # NoSession
    /\ sapSsrc' = [sapSsrc EXCEPT ![session[a].ssrc] = session[a].format]
    /\ sapHost' = session[a].format
    /\ UNCHANGED <<senderVars, tableVars, formatVars, known, hand, out>>

-----------------------------------------------------------------------------
(* run()                                                                   *)

\* add_packet
Added(h, kind) ==
    IF h \in {"absent", "open"}
    THEN IF kind = "early" /\ h = "open" THEN "gap" ELSE "open"
    ELSE IF kind = "fill" THEN "open" ELSE h

KeepState(s) == UNCHANGED formatVars \* mutant: a new session finds the old one's format
ClearState(s) ==
    /\ probe' = [probe EXCEPT ![s] = NoProbe]
    /\ detected' = [detected EXCEPT ![s] = None]

\* A packet is read; when its source had another SSRC, everything known of that one is
\* cleared (handle_ssrc_changed), the buffer itself staying.
Receive(a) ==
    /\ hand = None /\ wire[a] # None
    /\ LET s == session[a].ssrc
           old == lastSsrc[a]
           changed == old \notin {None, s}
           before == IF changed /\ held[old] # "absent" THEN [held EXCEPT ![old] = "open"] ELSE held
           from == IF changed THEN [sender EXCEPT ![old] = Nobody] ELSE sender
           after == Added(before[s], wire[a])
       IN  /\ IF changed THEN ClearState(old) ELSE UNCHANGED formatVars
           /\ lastSsrc' = [lastSsrc EXCEPT ![a] = s]
           /\ lastAddr' = [t \in Ssrcs |-> IF t = s THEN a
                                           ELSE IF changed /\ t = old THEN None ELSE lastAddr[t]]
           /\ held' = [before EXCEPT ![s] = after]
           /\ sender' = [from EXCEPT ![s] = IF after = "open" THEN Nobody
                                                  ELSE [from |-> a, format |-> session[a].format]]
    /\ wire' = [wire EXCEPT ![a] = None]
    /\ hand' = a
    /\ UNCHANGED <<session, sessions, sapVars, known, out>>

\* What a stream is taken for: its announcement, or its host's; its payload type; what was
\* detected before.
Resolved(s, f) ==
    IF sapSsrc[s] # None THEN [by |-> "ssrc", as |-> sapSsrc[s]]
    ELSE IF sapHost # None THEN [by |-> "host", as |-> sapHost]
    ELSE IF f \in Mapped THEN [by |-> "type", as |-> f]
    ELSE IF detected[s] # None THEN [by |-> "probe", as |-> detected[s]]
    ELSE [by |-> None, as |-> None]

Tag(how) == IF how \in {"ssrc", "host"} THEN "session" ELSE "host"

Dispatch(a, s, f, how) ==
    /\ out' = [from |-> a, ssrc |-> s, by |-> how.by, as |-> how.as, real |-> f]
    /\ known' = known \cup {Tag(how.by)} \cup (IF how.by = "probe" THEN {a} ELSE {})

\* The probe is fed and the packet is gone; when it has enough, its finding is kept, unless
\* it has none, and that packet is dispatched.  Packets of one format are taken for what
\* they are.
Probe(a, s, f) ==
    LET fed == [fed |-> probe[s].fed \cup {f},
                packets |-> IF probe[s].packets < ProbeNeed THEN probe[s].packets + 1 ELSE ProbeNeed]
        Found(g) == /\ detected' = [detected EXCEPT ![s] = g]
                    /\ probe' = [probe EXCEPT ![s] = NoProbe]
                    /\ Dispatch(a, s, f, [by |-> "probe", as |-> g])
    IN  \/ fed.packets = ProbeNeed /\ \E g \in fed.fed : Found(g)
        \/ /\ probe' = [probe EXCEPT ![s] = fed]
           /\ known' = known \cup {a}
           /\ UNCHANGED <<detected, out>>

\* process_ready_packets_internal, for a packet that came or one that has waited
Process(a, s, f) ==
    LET how == Resolved(s, f)
    IN  IF how.by = None THEN Probe(a, s, f) ELSE Dispatch(a, s, f, how) /\ UNCHANGED formatVars

Release(s) ==
    /\ held' = [held EXCEPT ![s] = "open"]
    /\ sender' = [sender EXCEPT ![s] = Nobody]

\* What the buffer does not hold back is processed.
Ready ==
    /\ hand # None
    /\ LET s == session[hand].ssrc
       IN  IF held[s] = "gap"
           THEN UNCHANGED <<held, sender, formatVars, known, out>>
           ELSE Process(hand, s, session[hand].format) /\ Release(s)
    /\ hand' = None
    /\ UNCHANGED <<senderVars, sapVars, lastSsrc, lastAddr>>

\* Nothing has come for five milliseconds: the buffers whose sender is known are flushed of
\* what has waited long enough.
Timeout ==
    /\ hand = None /\ \A a \in Sources : wire[a] = None
    /\ \E s \in Ssrcs :
        /\ held[s] = "due" /\ lastAddr[s] # None
        /\ Process(sender[s].from, s, sender[s].format)
        /\ Release(s)
    /\ UNCHANGED <<senderVars, sapVars, lastSsrc, lastAddr, hand>>

\* max_delay passes for what a buffer holds back.
Elapse(s) ==
    /\ held[s] = "gap"
    /\ held' = [held EXCEPT ![s] = "due"]
    /\ UNCHANGED <<senderVars, sapVars, lastSsrc, lastAddr, sender, formatVars, known, hand, out>>

Loop == Ready \/ Timeout \/ \E a \in Sources : Receive(a)

Next ==
    \/ \E a \in Sources : BeginSession(a) \/ Send(a) \/ Announce(a) \/ Receive(a)
    \/ Ready \/ Timeout
    \/ \E s \in Ssrcs : Elapse(s)

Spec == Init /\ [][Next]_vars

\* The thread runs, takes the packets of each source in turn, and time passes.
Fairness ==
    /\ WF_vars(Loop) /\ \A a \in Sources : SF_vars(Receive(a))
    /\ \A s \in Ssrcs : WF_vars(Elapse(s))
FairSpec == Spec /\ Fairness

-----------------------------------------------------------------------------
\* A format found by probing, or told by the payload type, is that of the stream it is
\* used for, although SSRCs come again in other sessions and formats, once their source was
\* heard with another one
\* (rtp_receiver_base.cpp:111-145, 719-790).
DecodedAsSent == out.by \in {"probe", "type"} => out.as = out.real

\* "The maximum time to wait for a missing packet before skipping it."
\* (rtp_reordering_buffer.h:37): what has waited that long goes on.
HeldIsReleased == \A s \in Ssrcs : (held[s] = "due") ~> (held[s] # "due")
=============================================================================
