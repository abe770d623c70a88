---------------------------- MODULE RoutingGraph ----------------------------
(* managers/: the maps that say which source processor feeds which sink, and *)
(* the two threads that change them.  The engine's caller (one thread: the   *)
(* configuration applier serialises its calls) configures, connects and      *)
(* removes; the timeshift thread reports streams that match a wildcard       *)
(* source and spawns a child source for each; a third, a Pulse receiver's,   *)
(* resets a stream that has ended, which unbinds the wildcard sources bound  *)
(* to it.  A step is a critical section of manager_mutex or of the timeshift *)
(* manager's data_mutex_.                                                    *)
EXTENDS Integers, Sequences, FiniteSets

CONSTANTS Sink,
          Tag,           \* concrete stream tags
          Wild, Covers,  \* wildcard filters and, for each, the tags it covers
          Ops,           \* the calls the engine's user makes
          MaxInstances,  \* bound: source instances created
          MaxRings       \* bound: rings created

ASSUME RoutingAssumption == /\ Covers \in [Wild -> SUBSET Tag] /\ Wild \cap Tag = {}
                            /\ MaxInstances \in Nat /\ MaxRings \in Nat
                            /\ 0 \notin Tag \cup Wild

Instance == 1 .. MaxInstances
Ring     == 1 .. MaxRings
None     == 0                \* no instance, no ring, no tag

VARIABLES
  sources,        \* m_sources
  filter,         \* each instance's source tag
  created,        \* instances created so far, 1 .. created
  children,       \* wildcard_children_: parent -> tag -> child
  parent,         \* child_to_parent_
  sinks,          \* m_sinks
  rings,          \* m_ready_rings: sink -> source -> ring
  inputs,         \* of each mixer: ready_rings_ and source_processors_
  made,           \* rings created so far
  registered, fed, bound, matched,  \* processor_targets_: the instances in it; sink_rings,
                                    \* bound_source_tag and matched_concrete_tags of each
  ended,          \* history: of each, the streams that were reset while it was bound to them
  op, victim, todo, heirs,  \* the call in progress: its step, the instance it is about, the
                            \* sinks or children still to do, whether there were children
  pcT, events, child, links \* the timeshift thread: its step, wildcard_matches, the child
                            \* in hand and the sinks still to connect it to

maps    == <<sources, filter, created, children, parent>>
wiring  == <<sinks, rings, inputs, made>>
targets == <<registered, fed, bound, matched, ended>>
caller  == <<op, victim, todo, heirs>>
thread  == <<pcT, events, child, links>>
vars    == <<maps, wiring, targets, caller, thread>>

NoRings == [s \in Sink |-> None]

Init == /\ sources = {} /\ filter = [i \in Instance |-> None] /\ created = 0
        /\ children = [i \in Instance |-> [t \in Tag |-> None]]
        /\ parent = [i \in Instance |-> None]
        /\ sinks = {} /\ made = 0
        /\ rings = [s \in Sink |-> [i \in Instance |-> None]]
        /\ inputs = [s \in Sink |-> [i \in Instance |-> None]]
        /\ registered = {} /\ fed = [i \in Instance |-> NoRings]
        /\ bound = [i \in Instance |-> None]
        /\ matched = [i \in Instance |-> {}] /\ ended = [i \in Instance |-> {}]
        /\ op = "none" /\ victim = None /\ todo = {} /\ heirs = FALSE
        /\ pcT = "pass" /\ events = <<>> /\ child = None /\ links = {}

(* The timeshift thread holds data_mutex_ through a pass.                    *)
DataFree == pcT # "pass" \/ events = <<>>

-----------------------------------------------------------------------------
(* connect_source_sink and disconnect_source_sink: manager_mutex is held     *)
(* while the mixer and the timeshift manager are told.                       *)
AttachOnce(i, s) ==                                              \* mutant
  /\ DataFree
  /\ made' = made + 1
  /\ rings'  = [rings EXCEPT ![s][i] = made + 1]
  /\ inputs' = IF s \in sinks /\ inputs[s][i] = None THEN [inputs EXCEPT ![s][i] = made + 1] ELSE inputs
  /\ fed'    = IF i \in registered THEN [fed EXCEPT ![i][s] = made + 1] ELSE fed
Attach(i, s) ==
  /\ DataFree
  /\ made' = made + 1
  /\ rings'  = [rings EXCEPT ![s][i] = made + 1]
  /\ inputs' = IF s \in sinks THEN [inputs EXCEPT ![s][i] = made + 1] ELSE inputs
  /\ fed'    = IF i \in registered THEN [fed EXCEPT ![i][s] = made + 1] ELSE fed

ConnectRing(i, s) == IF i \in sources THEN made < MaxRings /\ Attach(i, s)
                                      ELSE UNCHANGED <<made, rings, inputs, fed>>

Detach(i, s) ==
  /\ DataFree
  /\ inputs' = [inputs EXCEPT ![s][i] = None]
  /\ rings'  = [rings EXCEPT ![s][i] = None]
  /\ fed'    = IF rings[s][i] # None THEN [fed EXCEPT ![i][s] = None] ELSE fed

DisconnectRing(i, s) == IF i \in sources THEN Detach(i, s) ELSE UNCHANGED <<rings, inputs, fed>>

-----------------------------------------------------------------------------
(* The calls of the engine's user, who knows the instances that              *)
(* configure_source returned to him: they have no parent.                    *)
Known == {i \in 1 .. created : parent[i] = None}
May(o) == op = "none" /\ o \in Ops

Connect(i, s) == /\ May("connect") /\ i \in Known \cap sources
                 /\ ConnectRing(i, s)
                 /\ UNCHANGED <<maps, sinks, registered, bound, matched, ended, caller, thread>>

Disconnect(i, s) == /\ May("disconnect") /\ i \in Known \cap sources
                    /\ DisconnectRing(i, s)
                    /\ UNCHANGED <<maps, sinks, made, registered, bound, matched, ended, caller, thread>>

AddSink(s) == /\ May("add sink") /\ s \notin sinks
              /\ sinks' = sinks \cup {s}
              /\ UNCHANGED <<maps, rings, inputs, made, targets, caller, thread>>

(* The mixer goes with its inputs; the rings stay where else they are kept.  *)
RemoveSink(s) == /\ May("remove sink") /\ s \in sinks
                 /\ sinks' = sinks \ {s}
                 /\ inputs' = [inputs EXCEPT ![s] = [i \in Instance |-> None]]
                 /\ UNCHANGED <<maps, rings, made, targets, caller, thread>>

InsertReusesId(f) == /\ created < MaxInstances                   \* mutant
                     /\ created' = created
                     /\ sources' = sources \cup {created + 1}
                     /\ filter' = [filter EXCEPT ![created + 1] = f]
InsertSource(f) == /\ created < MaxInstances
                   /\ created' = created + 1
                   /\ sources' = sources \cup {created + 1}
                   /\ filter' = [filter EXCEPT ![created + 1] = f]

(* register_processor: no ring is attached and a wildcard is not bound.      *)
RegisterTarget(i) ==
  /\ DataFree
  /\ registered' = registered \cup {i}
  /\ fed' = [fed EXCEPT ![i] = NoRings]
  /\ bound'   = [bound EXCEPT ![i] = IF filter[i] \in Wild THEN None ELSE filter[i]]
  /\ matched' = [matched EXCEPT ![i] = IF filter[i] \in Wild THEN {} ELSE {filter[i]}]
  /\ ended'   = [ended EXCEPT ![i] = {}]

ConfigureSource(f) == /\ May("configure")
                      /\ InsertSource(f)
                      /\ op' = "register" /\ victim' = created + 1
                      /\ UNCHANGED <<children, parent, wiring, targets, todo, heirs, thread>>

RegisterSource == /\ op = "register"
                  /\ RegisterTarget(victim)
                  /\ op' = "none" /\ victim' = None
                  /\ UNCHANGED <<maps, wiring, todo, heirs, thread>>

(* AudioManager::remove_source disconnects the instance from all sinks.      *)
RemoveSource(i) == /\ May("remove") /\ i \in Known \cap sources
                   /\ op' = "disconnect" /\ victim' = i /\ todo' = sinks
                   /\ UNCHANGED <<maps, wiring, targets, heirs, thread>>

DisconnectNext == /\ op = "disconnect"
                  /\ \E s \in todo : DisconnectRing(victim, s) /\ todo' = todo \ {s}
                  /\ UNCHANGED <<maps, sinks, made, registered, bound, matched, ended, op, victim, heirs, thread>>

(* SourceManager::remove_source removes the children first.                  *)
ListChildren == /\ op = "disconnect" /\ todo = {}
                /\ todo' = {children[victim][t] : t \in Tag} \ {None}
                /\ heirs' = (todo' # {})
                /\ op' = "unmap"
                /\ UNCHANGED <<maps, wiring, targets, victim, thread>>

Current == IF todo # {} THEN CHOOSE c \in todo : TRUE ELSE victim

EraseMapping == /\ op = "unmap" /\ todo = {} /\ heirs
                /\ children' = [children EXCEPT ![victim] = [t \in Tag |-> None]]
                /\ heirs' = FALSE
                /\ UNCHANGED <<sources, filter, created, parent, wiring, targets, op, victim, todo, thread>>

Unmapped(p, c) == [t \in Tag |-> IF children[p][t] = c THEN None ELSE children[p][t]]

UnmapNothing ==                                                  \* mutant
  /\ op = "unmap" /\ (todo = {} => ~heirs)
  /\ op' = "extract"
  /\ UNCHANGED <<maps, wiring, targets, victim, todo, heirs, thread>>
Unmap == /\ op = "unmap" /\ (todo = {} => ~heirs)
         /\ LET p == parent[Current]
            IN  children' = IF p = None THEN children
                            ELSE [children EXCEPT ![p] = Unmapped(p, Current)]
         /\ parent' = [parent EXCEPT ![Current] = None]
         /\ op' = "extract"
         /\ UNCHANGED <<sources, filter, created, wiring, targets, victim, todo, heirs, thread>>

Extract == /\ op = "extract"
           /\ sources' = sources \ {Current}
           /\ op' = "unregister"
           /\ UNCHANGED <<filter, created, children, parent, wiring, targets, victim, todo, heirs, thread>>

Unregister ==
  /\ op = "unregister" /\ DataFree
  /\ registered' = registered \ {Current}
  /\ fed' = [fed EXCEPT ![Current] = NoRings]
  /\ bound' = [bound EXCEPT ![Current] = None] /\ matched' = [matched EXCEPT ![Current] = {}]
  /\ ended' = [ended EXCEPT ![Current] = {}]
  /\ todo' = todo \ {Current}
  /\ op' = IF todo = {} THEN "none" ELSE "unmap"
  /\ victim' = IF todo = {} THEN None ELSE victim
  /\ UNCHANGED <<maps, wiring, heirs, thread>>

-----------------------------------------------------------------------------
(* The timeshift thread: in a pass a wildcard processor meets packets.  Free,*)
(* it binds to any stream with its prefix, one that a child plays included;  *)
(* bound, it reports each stream it has not met before.                      *)
Meets(p, t) == /\ pcT = "pass" /\ p \in registered /\ filter[p] \in Wild /\ t \in Covers[filter[p]]
               /\ bound[p] = None \/ (bound[p] # t /\ t \notin matched[p])

MeetPrimaryOnly(p, t) ==                                         \* mutant
  /\ Meets(p, t)
  /\ matched' = [matched EXCEPT ![p] = @ \cup {t}]
  /\ bound' = [bound EXCEPT ![p] = IF @ = None THEN t ELSE @]
  /\ events' = IF bound[p] = None THEN Append(events, [parent |-> p, tag |-> t, primary |-> TRUE])
                                  ELSE events
  /\ UNCHANGED <<maps, wiring, registered, fed, ended, caller, pcT, child, links>>
Meet(p, t) ==
  /\ Meets(p, t)
  /\ matched' = [matched EXCEPT ![p] = @ \cup {t}]
  /\ bound' = [bound EXCEPT ![p] = IF @ = None THEN t ELSE @]
  /\ events' = Append(events, [parent |-> p, tag |-> t, primary |-> bound[p] = None])
  /\ UNCHANGED <<maps, wiring, registered, fed, ended, caller, pcT, child, links>>

(* reset_stream_state, from a Pulse receiver's thread: who was bound to the  *)
(* stream is free again, and keeps the streams it has met.                   *)
ResetStream(t) ==
  LET freed == {i \in registered : filter[i] \in Wild /\ bound[i] = t}
  IN  /\ DataFree /\ freed # {}
      /\ bound' = [i \in Instance |-> IF i \in freed THEN None ELSE bound[i]]
      /\ ended' = [i \in Instance |-> IF i \in freed THEN ended[i] \cup {t} ELSE ended[i]]
      /\ UNCHANGED <<maps, wiring, registered, fed, matched, caller, thread>>

EndPass == /\ pcT = "pass" /\ events # <<>>
           /\ pcT' = "match"
           /\ UNCHANGED <<maps, wiring, targets, caller, events, child, links>>

NextEvent == /\ events' = Tail(events) /\ child' = None /\ links' = {}
             /\ pcT' = IF Len(events) = 1 THEN "pass" ELSE "match"

Event == Head(events)

(* handle_wildcard_match: the primary binding needs no child.                *)
IgnoreMapped == children[Event.parent][Event.tag] # None         \* mutant
Ignore == Event.primary \/ children[Event.parent][Event.tag] # None

Match == /\ pcT = "match"
         /\ \/ Ignore /\ NextEvent
            \/ ~Ignore /\ pcT' = "spawn" /\ UNCHANGED <<events, child, links>>
         /\ UNCHANGED <<maps, wiring, targets, caller>>

SpawnFails == /\ pcT = "spawn" /\ Event.parent \notin sources
              /\ NextEvent
              /\ UNCHANGED <<maps, wiring, targets, caller>>

(* Only this thread spawns, so the child it looked for is still missing.     *)
SpawnChild == /\ pcT = "spawn" /\ Event.parent \in sources
              /\ InsertSource(Event.tag)
              /\ children' = [children EXCEPT ![Event.parent][Event.tag] = created + 1]
              /\ parent' = [parent EXCEPT ![created + 1] = Event.parent]
              /\ child' = created + 1 /\ pcT' = "register"
              /\ UNCHANGED <<wiring, targets, caller, events, links>>

RegisterParent == /\ pcT = "register"                            \* mutant
                  /\ RegisterTarget(Event.parent)
                  /\ pcT' = "list"
                  /\ UNCHANGED <<maps, wiring, caller, events, child, links>>
RegisterChild == /\ pcT = "register"
                 /\ RegisterTarget(child)
                 /\ pcT' = "list"
                 /\ UNCHANGED <<maps, wiring, caller, events, child, links>>

(* list_sinks_for_source                                                     *)
ListSinks == /\ pcT = "list"
             /\ links' = {s \in Sink : rings[s][Event.parent] # None}
             /\ pcT' = "link"
             /\ UNCHANGED <<maps, wiring, targets, caller, events, child>>

LinkChild == /\ pcT = "link"
             /\ \E s \in links : ConnectRing(child, s) /\ links' = links \ {s}
             /\ UNCHANGED <<maps, sinks, registered, bound, matched, ended, caller, pcT, events, child>>

Linked == /\ pcT = "link" /\ links = {}
          /\ NextEvent
          /\ UNCHANGED <<maps, wiring, targets, caller>>

-----------------------------------------------------------------------------
Configure == \/ \E f \in Tag \cup Wild : ConfigureSource(f)
             \/ RegisterSource
Remove == \/ \E i \in Instance : RemoveSource(i)
          \/ DisconnectNext \/ ListChildren \/ EraseMapping \/ Unmap \/ Extract \/ Unregister
Wire == \/ \E i \in Instance, s \in Sink : Connect(i, s) \/ Disconnect(i, s)
        \/ \E s \in Sink : AddSink(s) \/ RemoveSink(s)
Timeshift == \/ \E p \in Instance, t \in Tag : Meet(p, t)
             \/ EndPass \/ Match \/ SpawnFails \/ SpawnChild \/ RegisterChild
             \/ ListSinks \/ LinkChild \/ Linked

Next == Configure \/ Remove \/ Wire \/ Timeshift \/ (\E t \in Tag : ResetStream(t))

Spec == Init /\ [][Next]_vars

-----------------------------------------------------------------------------
TypeOK ==
  /\ sources \subseteq 1 .. created /\ created \in 0 .. MaxInstances
  /\ filter \in [Instance -> Tag \cup Wild \cup {None}]
  /\ children \in [Instance -> [Tag -> Instance \cup {None}]]
  /\ parent \in [Instance -> Instance \cup {None}]
  /\ sinks \subseteq Sink /\ made \in 0 .. MaxRings
  /\ {rings, inputs} \subseteq [Sink -> [Instance -> Ring \cup {None}]]
  /\ registered \subseteq 1 .. created /\ fed \in [Instance -> [Sink -> Ring \cup {None}]]
  /\ bound \in [Instance -> Tag \cup {None}] /\ {matched, ended} \subseteq [Instance -> SUBSET Tag]
  /\ op \in {"none", "register", "disconnect", "unmap", "extract", "unregister"}
  /\ victim \in Instance \cup {None} /\ todo \subseteq Sink \cup Instance /\ heirs \in BOOLEAN
  /\ pcT \in {"pass", "match", "spawn", "register", "list", "link"}
  /\ child \in Instance \cup {None} /\ links \subseteq Sink

(* What a mixer reads is what the timeshift thread writes: the ring of every *)
(* input is the one attached to the registered processor and the one the     *)
(* connection manager will detach, however often it was replaced and         *)
(* whichever thread replaced it.                                             *)
InputsFed ==
  \A s \in sinks, i \in registered \cap sources :
    inputs[s][i] # None => fed[i][s] = inputs[s][i] /\ rings[s][i] = inputs[s][i]

(* A mixer calls the source processors of its inputs through plain pointers: *)
(* "Before removing the source, disconnect it from all sinks".               *)
Alive     == sources \cup IF op = "unregister" THEN {Current} ELSE {}
InputsAlive == \A s \in sinks, i \in Instance : inputs[s][i] # None => i \in Alive

(* The children listed for a wildcard source are live and know their parent: *)
(* parameters set on the source reach each of them.                          *)
MappedIsLive ==
  \A p \in Instance, t \in Tag :
    LET c == children[p][t]
    IN  c # None => c \in sources /\ parent[c] = p /\ filter[c] = t

(* No stream is played twice by a wildcard source: either the source itself  *)
(* is bound to it or a child plays it.  So it is until a stream it was bound *)
(* to is reset: the source then binds to whatever comes first, which may be  *)
(* a stream that a child plays.                                              *)
PlayedOnce ==
  \A p \in registered, t \in Tag : bound[p] = t /\ ended[p] = {} => children[p][t] = None

(* No stream is forgotten: when the reports are handled, each stream a       *)
(* wildcard source has met is its own or has a child that is registered.     *)
(* One that was reset while it was the source's own has been met and is not  *)
(* reported again: the source plays it only if it is free when it comes back.*)
StreamPlayed ==
  pcT = "pass" /\ events = <<>> /\ op = "none" =>
    \A p \in registered : filter[p] \in Wild =>
      \A t \in matched[p] \ ended[p] : bound[p] = t \/ children[p][t] \in registered

(* Between calls the timeshift manager serves every source there is.         *)
SourcesServed == op = "none" /\ pcT = "pass" => sources \subseteq registered
=============================================================================
