-------------------------- MODULE WebRtcListeners --------------------------
(***************************************************************************)
(* The WebRTC listeners of a sink (managers/webrtc_manager.cpp,            *)
(* output_mixer/listener_dispatcher.cpp, senders/webrtc/webrtc_sender.cpp):*)
(* the API that adds and removes them, one call at a time; the thread each *)
(* one is set up by, later; the callbacks of its peer connection; the      *)
(* mixing thread that sends to them and drops the closed ones; and the     *)
(* removal of the sink itself.                                             *)
(*                                                                         *)
(* A listener is its number: the API gives each a fresh id, so the sender, *)
(* the registration and the setup thread of a listener have one name.      *)
(***************************************************************************)
EXTENDS Naturals, Sequences

CONSTANTS
    Clients,        \* the IP addresses that listen
    MaxListeners,   \* bound: listeners ever made
    MaxSinks,       \* bound: times the sink is added
    MaxChanges      \* bound: state changes of a peer connection

VARIABLES
    sink,       \* "up", "stopping" (out of m_sinks, its mixer being stopped) or "gone"
    sinks,      \* times the sink has been added
    attached,   \* listeners_ of the dispatcher
    freed,      \* the listeners whose sender is destroyed
    registered, \* m_webrtc_listeners
    ip,         \* the client of each listener made so far
    state,      \* state_ of each sender: "new", "connected" or "lost"
    cleanup,    \* cleanup_requested_
    track,      \* the senders that have their audio track
    changes,    \* state changes of each peer connection
    api,        \* the call under way: its step and the listener it is about
    evicting,   \* listeners of the same client that the call still has to remove
    setup,      \* the setup thread of each listener
    removing,   \* the step of remove_webrtc_listener that a thread is at
    closed,     \* listeners that the mixing thread found closed
    shutdown    \* shutting_down_

sinkVars == <<sink, sinks>>
senderVars == <<freed, state, cleanup, track, changes>>
apiVars == <<api, evicting>>
vars == <<sinkVars, attached, senderVars, registered, ip, apiVars, setup, removing, closed, shutdown>>

Listeners == 1..MaxListeners
Made == DOMAIN ip
Api == 0  \* the thread of the API, beside the setup threads

Init ==
    /\ sink = "up" /\ sinks = 1
    /\ attached = {} /\ freed = {} /\ registered = {}
    /\ ip = <<>>
    /\ state = [n \in Listeners |-> "new"]
    /\ cleanup = {} /\ track = {}
    /\ changes = [n \in Listeners |-> 0]
    /\ api = [step |-> "idle", n |-> 0] /\ evicting = {}
    /\ setup = [n \in Listeners |-> "none"]
    /\ removing = [t \in {Api} \union Listeners |-> "no"]
    /\ closed = {}
    /\ shutdown = FALSE

Findable(n) == sink = "up" /\ n \in attached
IsClosed(n) == state[n] = "lost" \/ n \in cleanup

\* A listener leaves the dispatcher: its sender is closed and destroyed.
Drop(S) ==
    /\ attached' = attached \ S
    /\ freed' = freed \union (attached \intersect S)
    /\ UNCHANGED <<state, cleanup, track, changes>>

-----------------------------------------------------------------------------
(* remove_webrtc_listener, by the API or by a setup thread that failed.    *)

\* A listener that the sink does not have is only forgotten.
CheckListener(t, n) ==
    /\ removing[t] = "check"
    /\ IF Findable(n)
        THEN removing' = [removing EXCEPT ![t] = "detach"] /\ UNCHANGED registered
        ELSE removing' = [removing EXCEPT ![t] = "no"] /\ registered' = registered \ {n}
    /\ UNCHANGED <<attached, senderVars>>

DetachListener(t, n) ==
    /\ removing[t] = "detach"
    /\ removing' = [removing EXCEPT ![t] = "forget"]
    /\ IF Findable(n) THEN Drop({n}) ELSE UNCHANGED <<attached, senderVars>>
    /\ UNCHANGED registered

ForgetListener(t, n) ==
    /\ removing[t] = "forget"
    /\ removing' = [removing EXCEPT ![t] = "no"]
    /\ registered' = registered \ {n}
    /\ UNCHANGED <<attached, senderVars>>

Removing(t, n) == CheckListener(t, n) \/ DetachListener(t, n) \/ ForgetListener(t, n)

-----------------------------------------------------------------------------
(* The API.                                                                *)

ApiStep(s, n) == api' = [step |-> s, n |-> n]
EngineStays == UNCHANGED <<sinkVars, closed, shutdown>>

UnregisteredOf(c) == {} \* mutant: the listeners of the same client are left
SameClient(c) == {n \in registered : ip[n] = c}

\* add_webrtc_listener: the other listeners of the client are found first
AddListener(c) ==
    /\ api.step = "idle" /\ Len(ip) < MaxListeners /\ ~shutdown
    /\ evicting' = SameClient(c)
    /\ ip' = Append(ip, c)
    /\ ApiStep("evict", Len(ip) + 1)
    /\ UNCHANGED <<attached, senderVars, registered, setup, removing>> /\ EngineStays

\* ... and removed one by one
Evict ==
    /\ api.step = "evict" /\ removing[Api] = "no"
    /\ \E n \in evicting :
        /\ evicting' = evicting \ {n}
        /\ ApiStep("evicting", n)
        /\ removing' = [removing EXCEPT ![Api] = "check"]
    /\ UNCHANGED <<ip, attached, senderVars, registered, setup>> /\ EngineStays

\* The configuration of the sink is copied; without one the call fails.
Prepare ==
    /\ api.step = "evict" /\ evicting = {} /\ removing[Api] = "no"
    /\ IF sink = "up" THEN ApiStep("attach", Len(ip)) ELSE ApiStep("idle", 0)
    /\ UNCHANGED <<evicting, ip, attached, senderVars, registered, setup, removing>> /\ EngineStays

\* The sender is made, and given to the sink; a sink that is gone destroys it.
Attach ==
    /\ api.step = "attach"
    /\ IF sink = "up"
        THEN attached' = attached \union {api.n} /\ UNCHANGED senderVars
        ELSE /\ freed' = freed \union {api.n}
             /\ UNCHANGED <<attached, state, cleanup, track, changes>>
    /\ ApiStep("register", api.n)
    /\ UNCHANGED <<evicting, ip, registered, setup, removing>> /\ EngineStays

\* The listener is registered, and its setup put off to a thread of its own, unless
\* the sink has gone meanwhile.
Register ==
    /\ api.step = "register"
    /\ IF sink = "up"
        THEN registered' = registered \union {api.n} /\ setup' = [setup EXCEPT ![api.n] = "sleep"]
        ELSE UNCHANGED <<registered, setup>>
    /\ ApiStep("idle", 0)
    /\ UNCHANGED <<evicting, ip, attached, senderVars, removing>> /\ EngineStays

\* remove_webrtc_listener by the client, or for want of a heartbeat
RemoveListener ==
    /\ api.step = "idle" /\ ~shutdown
    /\ \E n \in Made :
        /\ ApiStep("remove", n)
        /\ removing' = [removing EXCEPT ![Api] = "check"]
    /\ UNCHANGED <<evicting, ip, attached, senderVars, registered, setup>> /\ EngineStays

ApiRemoving ==
    /\ api.step \in {"evicting", "remove"} /\ Removing(Api, api.n)
    /\ api' = IF removing'[Api] # "no" THEN api
              ELSE IF api.step = "remove" THEN [step |-> "idle", n |-> 0]
              ELSE [step |-> "evict", n |-> Len(ip)]
    /\ UNCHANGED <<evicting, ip, setup>> /\ EngineStays

\* add_webrtc_remote_ice_candidate, set_webrtc_remote_description: the sender is found
\* with the lock of the managers and used without.
FindForCandidate ==
    /\ api.step = "idle" /\ ~shutdown
    /\ \E n \in Made : Findable(n) /\ ApiStep("candidate", n)
    /\ UNCHANGED <<evicting, ip, attached, senderVars, registered, setup, removing>> /\ EngineStays

UseForCandidate ==
    /\ api.step = "candidate"
    /\ ApiStep("idle", 0)
    /\ UNCHANGED <<evicting, ip, attached, senderVars, registered, setup, removing>> /\ EngineStays

ApiCall ==
    \/ \E c \in Clients : AddListener(c)
    \/ Evict \/ Prepare \/ Attach \/ Register
    \/ RemoveListener \/ ApiRemoving
    \/ FindForCandidate \/ UseForCandidate

-----------------------------------------------------------------------------
(* The setup threads.                                                      *)

SetupStays == UNCHANGED <<sinkVars, ip, apiVars, closed, shutdown>>

\* After its delay a thread asks for the sender of its listener.
FindSender(n) ==
    /\ setup[n] = "sleep"
    /\ setup' = [setup EXCEPT ![n] = IF ~shutdown /\ Findable(n) THEN "holding" ELSE "ended"]
    /\ UNCHANGED <<attached, senderVars, registered, removing>> /\ SetupStays

\* setup(): the offer is answered and the track added; without an offer there is no
\* track; an offer without audio is an error, and the listener is removed.
Connect(n) ==
    /\ setup[n] = "holding" /\ removing[n] = "no"
    /\ \/ /\ setup' = [setup EXCEPT ![n] = "ended"]
          /\ track' \in {track, track \union ({n} \ freed)}
          /\ UNCHANGED removing
       \/ /\ setup' = [setup EXCEPT ![n] = "failed"]
          /\ removing' = [removing EXCEPT ![n] = "check"]
          /\ UNCHANGED track
    /\ UNCHANGED <<attached, freed, state, cleanup, changes, registered>> /\ SetupStays

RemoveFailed(n) ==
    /\ setup[n] = "failed" /\ Removing(n, n)
    /\ setup' = IF removing'[n] = "no" THEN [setup EXCEPT ![n] = "ended"] ELSE setup
    /\ SetupStays

SetupThread(n) == FindSender(n) \/ Connect(n) \/ RemoveFailed(n)

-----------------------------------------------------------------------------
(* The callbacks of the peer connection.                                   *)

CleanupForgotten(n) == cleanup \* mutant: the cleanup is never asked for
CleanupAsked(n) == cleanup \union {n}

\* onStateChange, onIceStateChange: a connection that ends asks for its cleanup, once,
\* and is closed from then on, whatever state it reports next.
ConnectionChanges(n) ==
    /\ n \in track \ freed /\ changes[n] < MaxChanges
    /\ changes' = [changes EXCEPT ![n] = @ + 1]
    /\ \/ state' = [state EXCEPT ![n] = "connected"] /\ UNCHANGED cleanup
       \/ state' = [state EXCEPT ![n] = "lost"] /\ cleanup' = CleanupAsked(n)
    /\ UNCHANGED <<sinkVars, attached, freed, track, registered, ip, apiVars, setup, removing, closed,
                   shutdown>>

-----------------------------------------------------------------------------
(* The mixing thread.                                                      *)

MixerStays == UNCHANGED <<sinkVars, registered, ip, apiVars, setup, removing, shutdown>>

\* dispatch_to_listeners, cleanup_closed_listeners: with the mutex, the closed listeners
\* are noted (and the audio goes to the connected ones);
FindClosed ==
    /\ sink = "up" /\ closed = {}
    /\ closed' = {n \in attached : IsClosed(n)}
    /\ closed' # {}
    /\ UNCHANGED <<attached, senderVars>> /\ MixerStays

\* then, without, each is removed by its id.
RemoveClosed ==
    /\ sink # "gone"
    /\ \E n \in closed :
        /\ closed' = closed \ {n}
        /\ Drop({n})
    /\ MixerStays

-----------------------------------------------------------------------------
(* The sink.                                                               *)

SinkStays == UNCHANGED <<registered, ip, apiVars, setup, removing, closed, shutdown>>

\* remove_sink: the managers forget the sink, then its mixer is stopped.
RemoveSink ==
    /\ sink = "up"
    /\ sink' = "stopping"
    /\ UNCHANGED <<sinks, attached, senderVars>> /\ SinkStays

\* close_all, when the mixing thread has ended
CloseAll ==
    /\ sink = "stopping" /\ closed = {}
    /\ sink' = "gone"
    /\ Drop(attached)
    /\ UNCHANGED sinks /\ SinkStays

AddSink ==
    /\ sink = "gone" /\ sinks < MaxSinks /\ ~shutdown
    /\ sink' = "up" /\ sinks' = sinks + 1
    /\ UNCHANGED <<attached, senderVars>> /\ SinkStays

\* ~WebRtcManager, when the sinks are gone: the setup threads are joined.
Shutdown ==
    /\ sink = "gone" /\ ~shutdown /\ api.step = "idle"
    /\ shutdown' = TRUE
    /\ UNCHANGED <<sinkVars, attached, senderVars, registered, ip, apiVars, setup, removing, closed>>

-----------------------------------------------------------------------------
Next ==
    \/ ApiCall
    \/ \E n \in Made : SetupThread(n) \/ ConnectionChanges(n)
    \/ FindClosed \/ RemoveClosed
    \/ RemoveSink \/ CloseAll \/ AddSink \/ Shutdown

Spec == Init /\ [][Next]_vars

\* The mixing thread goes on cycling.
Fairness == WF_vars(FindClosed \/ RemoveClosed)
FairSpec == Spec /\ Fairness

-----------------------------------------------------------------------------
(* Properties.                                                             *)

\* A client hears a sink once: it has two listeners attached at no time, whoever else
\* removes one and whether or not its setup has run.
OneListenerPerClient ==
    \A m, n \in attached : ip[m] = ip[n] => m = n

\* A listener whose connection has ended leaves the sink.
ClosedIsDropped ==
    \A n \in Listeners : n \in attached /\ state[n] = "lost" ~> n \notin attached \/ sink # "up"

\* A thread that has found a sender finds it alive when it uses it.
HeldIsAlive ==
    /\ \A n \in Made : setup[n] = "holding" => n \notin freed
    /\ api.step = "candidate" => api.n \notin freed
=============================================================================
