--------------------------- MODULE ConfigApplier ---------------------------
(***************************************************************************)
(* The configuration applier                                               *)
(* (configuration/audio_engine_config_applier.cpp): it holds a shadow of   *)
(* the sinks and source paths it made in the engine, and changes the       *)
(* engine step by step to a desired state, from the thread of the API or,  *)
(* when a stream comes or goes, from a receiver's thread that applies the  *)
(* last desired state again.                                               *)
(*                                                                         *)
(* A path id is <<p>> or, for the clone of a wildcard path, <<p, t>> with  *)
(* the stream t.  The engine (external here, modelled by what the calls of *)
(* the applier do to it) gives every source a fresh instance number.       *)
(***************************************************************************)
EXTENDS Naturals, FiniteSets, Functions

CONSTANTS
    Streams,        \* the streams that a wildcard matches
    Captures,       \* the tags of system captures
    States,         \* the desired states: sinks (config, links) and paths
                    \* (tag, format, volume)
    MayFail,        \* TRUE: a sink, a source or a capture may fail to be added
    MaxApplies,     \* bound: calls of apply_state by the API
    MaxEvents       \* bound: streams that come or go

VARIABLES
    live,       \* the streams there are
    notices,    \* stream events that the listener has still to be called for
    events,
    notifier,   \* "idle", "checked", "copied" or "applying"
    snapshot,   \* the copy that reapply_cached_state took
    lock,       \* apply_mutex_: "free", "api" or "notifier"
    cached,     \* cached_desired_state_; {} before the first
    latest,     \* the state that the API applied last
    applies,
    goal,       \* the effective state being applied
    todo,       \* what the steps of apply_state have still to work on
    shadow,     \* active_sinks_, active_source_paths_
    sources,    \* the engine's sources by instance: tag, format, volume
    sinks,      \* the engine's sinks: their configuration
    links,      \* the engine's connections, <<instance, sink>>
    captures,   \* references to each capture device
    made,       \* instances ever made
    lost,       \* history: <<path, sink>>, the path made anew since the sink was connected to it
    refused,    \* history: paths made without a reference, by device
    leaked      \* history: references that nothing gives back, by device

streamVars == <<live, notices, events>>
callVars == <<notifier, snapshot, lock, cached, latest, applies>>
history == <<lost, refused, leaked>>
engine == <<sources, sinks, links, captures, made, history>>
vars == <<streamVars, callVars, goal, todo, shadow, engine>>

Steps == {"remove paths", "remove sinks", "add paths", "add sinks", "update paths", "update sinks"}
Nothing == [s \in Steps |-> {}]
Empty == <<>>

Init ==
    /\ live = {} /\ notices = 0 /\ events = 0
    /\ notifier = "idle" /\ snapshot = {} /\ lock = "free"
    /\ cached = {} /\ latest = {} /\ applies = 0
    /\ goal = [sinks |-> Empty, paths |-> Empty] /\ todo = Nothing
    /\ shadow = [sinks |-> Empty, paths |-> Empty]
    /\ sources = Empty /\ sinks = Empty /\ links = {}
    /\ captures = [t \in Captures |-> 0] /\ made = 0
    /\ lost = {} /\ refused = [t \in Captures |-> 0] /\ leaked = [t \in Captures |-> 0]

Put(f, k, v) == [x \in DOMAIN f \union {k} |-> IF x = k THEN v ELSE f[x]]
Without(f, S) == Restrict(f, DOMAIN f \ S)

-----------------------------------------------------------------------------
(* What is asked for                                                       *)

Wildcard(D, p) == D.paths[p].tag = "*"
Clones(D, p) == IF Wildcard(D, p) THEN {<<p, t>> : t \in live} ELSE {}

\* build_effective_state: a wildcard path is joined by a clone for each of
\* its streams, and a sink is connected to the clones in its place.
Effective(D) ==
    [paths |-> [q \in {<<p>> : p \in DOMAIN D.paths} \union
                      UNION {Clones(D, p) : p \in DOMAIN D.paths} |->
                    Put([D.paths[q[1]] EXCEPT !.tag = IF q = <<q[1]>> THEN @ ELSE q[2]],
                        "filter", D.paths[q[1]].tag)],
     sinks |-> [s \in DOMAIN D.sinks |->
                    [D.sinks[s] EXCEPT !.links =
                        UNION {IF Clones(D, p) = {} THEN {<<p>>} ELSE Clones(D, p) : p \in @}]]]

\* compare_sink_configs, compare_connections
SinkChanged(E, s) ==
    \/ shadow.sinks[s].config # E.sinks[s].config
    \/ shadow.sinks[s].links # E.sinks[s].links

\* compare_applied_source_path_params and the filter: the tag of a clone or
\* of a path is compared only through its filter.
PathChanged(E, q) ==
    \E k \in {"filter", "format", "volume"} : shadow.paths[q][k] # E.paths[q][k]

Reconciled(E) ==
    [s \in Steps |->
        CASE s = "remove paths"  -> DOMAIN shadow.paths \ DOMAIN E.paths
          [] s = "remove sinks"  -> DOMAIN shadow.sinks \ DOMAIN E.sinks
          [] s = "add paths"     -> DOMAIN E.paths \ DOMAIN shadow.paths
          [] s = "add sinks"     -> DOMAIN E.sinks \ DOMAIN shadow.sinks
          [] s = "update paths"  -> {q \in DOMAIN E.paths \intersect DOMAIN shadow.paths : PathChanged(E, q)}
          [] s = "update sinks"  -> {x \in DOMAIN E.sinks \intersect DOMAIN shadow.sinks : SinkChanged(E, x)}]

\* apply_state takes the lock, caches the state and compares.
Begin(D, who) ==
    /\ lock = "free" /\ lock' = who
    /\ cached' = {D}
    /\ goal' = Effective(D) /\ todo' = Reconciled(goal')
    /\ UNCHANGED <<shadow, engine>>

ApplyState(D) ==
    /\ applies < MaxApplies /\ applies' = applies + 1
    /\ Begin(D, "api")
    /\ latest' = {D}
    /\ UNCHANGED <<streamVars, notifier, snapshot>>

Finish ==
    /\ lock # "free" /\ todo = Nothing
    /\ lock' = "free"
    /\ notifier' = IF lock = "notifier" THEN "idle" ELSE notifier
    /\ UNCHANGED <<streamVars, snapshot, cached, latest, applies, goal, todo, shadow, engine>>

-----------------------------------------------------------------------------
(* The steps, in their order                                               *)

Ready(step) ==
    /\ lock # "free" /\ todo[step] # {}
    /\ LET order == <<"remove paths", "remove sinks", "add paths", "add sinks",
                      "update paths", "update sinks">>
           at == CHOOSE i \in DOMAIN order : order[i] = step
       IN  \A i \in 1..(at - 1) : todo[order[i]] = {}

Done(step, x) ==
    /\ todo' = [todo EXCEPT ![step] = @ \ {x}]
    /\ UNCHANGED <<streamVars, callVars, goal>>

OneMore(f, t) == IF t \in Captures THEN [f EXCEPT ![t] = @ + 1] ELSE f
\* remove_system_capture_reference of a device without references does nothing.
Released(t) == IF t \in Captures THEN [captures EXCEPT ![t] = IF @ = 0 THEN 0 ELSE @ - 1]
                                 ELSE captures
Dropped(id) == {l \in links : l[1] = id}

\* mutant: an instance that is gone from the shadow stays in the engine
ForgetPath(q) ==
    /\ Ready("remove paths") /\ q \in todo["remove paths"] /\ Done("remove paths", q)
    /\ captures' = Released(shadow.paths[q].tag)
    /\ shadow' = [shadow EXCEPT !.paths = Without(@, {q})]
    /\ UNCHANGED <<sources, links, sinks, made, history>>

RemovePath(q) ==
    /\ Ready("remove paths") /\ q \in todo["remove paths"] /\ Done("remove paths", q)
    /\ LET id == shadow.paths[q].id IN
       sources' = Without(sources, {id}) /\ links' = links \ Dropped(id)
    /\ captures' = Released(shadow.paths[q].tag)
    /\ shadow' = [shadow EXCEPT !.paths = Without(@, {q})]
    /\ UNCHANGED <<sinks, made, history>>

RemoveSink(s) ==
    /\ Ready("remove sinks") /\ s \in todo["remove sinks"] /\ Done("remove sinks", s)
    /\ sinks' = Without(sinks, {s})
    /\ links' = {l \in links : l[2] # s}
    /\ shadow' = [shadow EXCEPT !.sinks = Without(@, {s})]
    /\ lost' = {l \in lost : l[2] # s}
    /\ UNCHANGED <<sources, captures, made, refused, leaked>>

\* process_source_path_addition: the capture device, then the source.  A
\* refusal of the device is only logged.  Where the device has references it
\* is counted all the same (its receiver had ended and does not start again),
\* elsewhere not.  A source that fails gives a granted reference back.
Added(q, paths, engineSources, lostReferences) ==
    LET t == goal.paths[q].tag IN
    \E granted \in BOOLEAN :
        /\ granted \/ (MayFail /\ t \in Captures)
        /\ LET counted == granted \/ captures[t] > 0 IN
           \/ /\ made' = made + 1
              /\ sources' = Put(engineSources, made', Restrict(goal.paths[q], {"tag", "format", "volume"}))
              /\ shadow' = [shadow EXCEPT !.paths = Put(paths, q, Put(goal.paths[q], "id", made'))]
              /\ captures' = IF counted THEN OneMore(captures, t) ELSE captures
              /\ refused' = IF counted THEN refused ELSE OneMore(refused, t)
              /\ leaked' = lostReferences
           \/ /\ MayFail
              /\ sources' = engineSources
              /\ shadow' = [shadow EXCEPT !.paths = paths]
              /\ captures' = IF ~granted /\ counted THEN OneMore(captures, t) ELSE captures
              /\ leaked' = IF ~granted /\ counted THEN OneMore(lostReferences, t) ELSE lostReferences
              /\ UNCHANGED <<refused, made>>

AddPath(q) ==
    /\ Ready("add paths") /\ q \in todo["add paths"] /\ Done("add paths", q)
    /\ Added(q, shadow.paths, sources, leaked)
    /\ UNCHANGED <<sinks, links, lost>>

\* Of the paths to be connected those are left out that have no instance,
\* and of several with one tag all but one.
Connectable(new, paths) ==
    LET able == new \intersect DOMAIN paths IN
    {S \in SUBSET able :
        /\ \A a, b \in S : paths[a].tag = paths[b].tag => a = b
        /\ \A a \in able : \E b \in S : paths[b].tag = paths[a].tag}

\* reconcile_connections_for_sink
Reconnect(s, had, engineLinks) ==
    LET want == goal.sinks[s].links
        id(q) == shadow.paths[q].id
    IN  \E S \in Connectable(want \ had, shadow.paths) :
            /\ links' = (engineLinks \union {<<id(q), s>> : q \in S}) \
                            {<<id(q), s>> : q \in (had \ want) \intersect DOMAIN shadow.paths}
            /\ shadow' = [shadow EXCEPT !.sinks =
                              Put(@, s, [config |-> goal.sinks[s].config,
                                         links |-> (had \intersect want) \union S])]
            /\ lost' = {l \in lost : l[2] # s \/ l[1] \in had \intersect want}

AddSink(s) ==
    /\ Ready("add sinks") /\ s \in todo["add sinks"] /\ Done("add sinks", s)
    /\ \/ sinks' = Put(sinks, s, goal.sinks[s].config) /\ Reconnect(s, {}, links)
       \/ MayFail /\ UNCHANGED <<sinks, links, shadow, lost>>
    /\ UNCHANGED <<sources, captures, made, refused, leaked>>

\* Another tag or format: the source is made anew, with another reference to
\* the capture device; the first is not given back, and the sinks that play
\* the path are not told.
RecreatePath(q) ==
    /\ Ready("update paths") /\ q \in todo["update paths"] /\ Done("update paths", q)
    /\ \E k \in {"tag", "format"} : shadow.paths[q][k] # goal.paths[q][k]
    /\ LET id == shadow.paths[q].id IN
       /\ links' = links \ Dropped(id)
       /\ Added(q, Without(shadow.paths, {q}), Without(sources, {id}),
                OneMore(leaked, shadow.paths[q].tag))
    /\ lost' = lost \union {<<q, s>> : s \in {x \in DOMAIN shadow.sinks : q \in shadow.sinks[x].links}}
    /\ UNCHANGED sinks

UpdatePath(q) ==
    /\ Ready("update paths") /\ q \in todo["update paths"] /\ Done("update paths", q)
    /\ \A k \in {"tag", "format"} : shadow.paths[q][k] = goal.paths[q][k]
    /\ LET id == shadow.paths[q].id IN
       /\ sources' = [sources EXCEPT ![id].volume = goal.paths[q].volume]
       /\ shadow' = [shadow EXCEPT !.paths[q] = Put(goal.paths[q], "id", id)]
    /\ UNCHANGED <<sinks, links, captures, made, history>>

\* A sink with another configuration is made anew, without connections.
UpdateSink(s) ==
    /\ Ready("update sinks") /\ s \in todo["update sinks"] /\ Done("update sinks", s)
    /\ LET same == shadow.sinks[s].config = goal.sinks[s].config
           left == {l \in links : l[2] # s}
       IN  \/ same /\ Reconnect(s, shadow.sinks[s].links, links) /\ UNCHANGED sinks
           \/ ~same /\ Reconnect(s, {}, left) /\ sinks' = [sinks EXCEPT ![s] = goal.sinks[s].config]
           \/ /\ ~same /\ MayFail
              /\ links' = left /\ sinks' = Without(sinks, {s})
              /\ shadow' = [shadow EXCEPT !.sinks = Without(@, {s})]
              /\ lost' = {l \in lost : l[2] # s}
    /\ UNCHANGED <<sources, captures, made, refused, leaked>>

-----------------------------------------------------------------------------
(* Streams come and go                                                     *)

StreamChanges(t) ==
    /\ events < MaxEvents /\ events' = events + 1
    /\ live' = IF t \in live THEN live \ {t} ELSE live \union {t}
    /\ notices' = notices + 1
    /\ UNCHANGED <<callVars, goal, todo, shadow, engine>>

\* handle_stream_tag_resolved, handle_stream_tag_removed: without a state to
\* apply there is nothing to do.
HandleStreamTag ==
    /\ notices > 0 /\ notices' = notices - 1
    /\ notifier = "idle" /\ lock = "free"
    /\ notifier' = IF cached = {} THEN "idle" ELSE "checked"
    /\ UNCHANGED <<live, events, snapshot, lock, cached, latest, applies, goal, todo, shadow, engine>>

\* reapply_cached_state copies the state under the lock ...
CopyCached ==
    /\ notifier = "checked" /\ lock = "free"
    /\ notifier' = "copied" /\ snapshot' = cached
    /\ UNCHANGED <<streamVars, lock, cached, latest, applies, goal, todo, shadow, engine>>

\* ... and applies the copy under the lock again.
Reapply ==
    /\ notifier = "copied" /\ notifier' = "applying"
    /\ \E D \in snapshot : Begin(D, "notifier")
    /\ snapshot' = {}
    /\ UNCHANGED <<streamVars, latest, applies>>

Working ==
    \/ \E q \in todo["remove paths"] : RemovePath(q)
    \/ \E s \in todo["remove sinks"] : RemoveSink(s)
    \/ \E q \in todo["add paths"] : AddPath(q)
    \/ \E s \in todo["add sinks"] : AddSink(s)
    \/ \E q \in todo["update paths"] : RecreatePath(q) \/ UpdatePath(q)
    \/ \E s \in todo["update sinks"] : UpdateSink(s)
    \/ Finish

Next ==
    \/ \E D \in States : ApplyState(D)
    \/ Working
    \/ \E t \in Streams : StreamChanges(t)
    \/ HandleStreamTag \/ CopyCached \/ Reapply

Spec == Init /\ [][Next]_vars

-----------------------------------------------------------------------------
TypeOK ==
    /\ live \subseteq Streams
    /\ notifier \in {"idle", "checked", "copied", "applying"}
    /\ lock \in {"free", "api", "notifier"}
    /\ \A c \in Captures : captures[c] \in Nat
    /\ links \subseteq (DOMAIN sources) \X (DOMAIN sinks)

Idle == lock = "free"

\* Between two applies a sink plays the paths that the shadow connects to it: of a source
\* that was made anew, "Connections for this new instance_id will be re-established by the
\* sink update logic." (audio_engine_config_applier.cpp:996-997).
Reestablished ==
    Idle => links = UNION {{<<shadow.paths[q].id, s>> : q \in shadow.sinks[s].links} :
                               s \in DOMAIN sinks}

\* Between two applies the shadow is the engine: no instance, sink or
\* connection that the applier does not know of or only believes in, whatever
\* failed on the way (audio_engine_config_applier.cpp:232-334, 1057-1197),
\* but for the connections of a path that was made anew and references that
\* were refused or never given back.
Paths(c) == Cardinality({q \in DOMAIN shadow.paths : shadow.paths[q].tag = c})
ShadowIsEngine ==
    Idle =>
        /\ {shadow.paths[q].id : q \in DOMAIN shadow.paths} = DOMAIN sources
        /\ \A q \in DOMAIN shadow.paths : \A k \in {"tag", "format", "volume"} :
               sources[shadow.paths[q].id][k] = shadow.paths[q][k]
        /\ DOMAIN shadow.sinks = DOMAIN sinks
        /\ \A s \in DOMAIN sinks : sinks[s] = shadow.sinks[s].config
        /\ links = UNION {{<<shadow.paths[q].id, s>> : q \in {p \in shadow.sinks[s].links : <<p, s>> \notin lost}} :
                              s \in DOMAIN sinks}
        /\ \A c \in Captures :
               Paths(c) <= captures[c] + refused[c] /\ captures[c] <= Paths(c) + leaked[c]

\* When nothing failed the engine is what was asked for, with the streams
\* that were there when it was asked.
Converged ==
    Idle /\ ~MayFail =>
        /\ DOMAIN shadow.paths = DOMAIN goal.paths
        /\ DOMAIN sinks = DOMAIN goal.sinks
        /\ \A s \in DOMAIN sinks :
               links \intersect ((DOMAIN sources) \X {s}) =
                   {<<shadow.paths[q].id, s>> : q \in goal.sinks[s].links}

\* What the API asked for last is what the applier holds, once the stream
\* events are dealt with.
NewestWins == Idle /\ notifier = "idle" => cached = latest

\* A sink is not connected to one stream by two paths
\* (audio_engine_config_applier.cpp:1083-1085 "Track source instance IDs and
\* tags already attached to avoid duplicate routes").
NoDuplicateRoutes ==
    \A l, m \in links :
        l[2] = m[2] /\ sources[l[1]].tag = sources[m[1]].tag => l = m
=============================================================================
