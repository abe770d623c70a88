------------------------------ MODULE MCEngine ------------------------------
(* What the calls of the engine do to its structure: the routing graph and,  *)
(* on instances of their own, the locks the calls take and the configuration *)
(* applier that makes them.  `kind' says which of them a behaviour is of; the*)
(* state of the others stays as it is.                                       *)
EXTENDS MCRoutingGraph

CONSTANTS Thread, CallsOf,                                           \* EngineLocks
          Streams, Captures, States, MayFail, MaxApplies, MaxEvents  \* ConfigApplier

VARIABLES kind,
  \* EngineLocks
  kCall, kAt, kDepth,
  \* ConfigApplier
  aLive, aNotices, aEvents, aNotifier, aSnapshot, aLock, aCached, aLatest, aApplies,
  aGoal, aTodo, aShadow, aSources, aSinks, aLinks, aCaptures, aMade, aLost, aRefused, aLeaked

lockVars    == <<kCall, kAt, kDepth>>
applierVars == <<aLive, aNotices, aEvents, aNotifier, aSnapshot, aLock, aCached, aLatest, aApplies,
                 aGoal, aTodo, aShadow, aSources, aSinks, aLinks, aCaptures, aMade, aLost, aRefused, aLeaked>>
allVars     == <<kind, vars, lockVars, applierVars>>

-----------------------------------------------------------------------------
(* The threads of the engine, one caller for the sources and one for the     *)
(* sinks; together they make every call.                                     *)
MCThreads == {"timeshift", "stats", "sources", "sinks"}
MCCallsOf == [t \in MCThreads |->
                CASE t = "timeshift" -> {"pass", "empty_pass", "ingest", "jump", "wildcard"}
                  [] t = "stats"     -> {"stats"}
                  [] t = "sources"   -> {"configure", "remove", "erase", "update", "reset",
                                          "connect", "disconnect"}
                  [] t = "sinks"     -> {"add_sink", "remove_sink"}]

locks == INSTANCE EngineLocks WITH call <- kCall, at <- kAt, depth <- kDepth

(* What the theorem about the locks assumes: no thread makes a call that is  *)
(* not listed.                                                               *)
ASSUME LockConstants == \A t \in Thread : CallsOf[t] \subseteq locks!Calls

-----------------------------------------------------------------------------
(* Desired states.  In One a sink plays a wildcard path and another a system *)
(* capture, which a third path takes too; Two changes the wildcard's volume, *)
(* the configuration of its sink and the format of the capture.              *)
Path(tag, format, volume) == [tag |-> tag, format |-> format, volume |-> volume]
Play(config, feeds)       == [config |-> config, links |-> feeds]

One  == [paths |-> "p" :> Path("*", "f", 1) @@ "q" :> Path("hw", "f", 1) @@ "r" :> Path("hw", "f", 1),
         sinks |-> "s" :> Play("c", {"p"}) @@ "z" :> Play("c", {"q"})]
Two  == [paths |-> "p" :> Path("*", "f", 2) @@ "q" :> Path("hw", "g", 1),
         sinks |-> "s" :> Play("d", {"p", "q"}) @@ "z" :> Play("c", {"q"})]
MCStates == {One, Two}

applier == INSTANCE ConfigApplier
  WITH live <- aLive, notices <- aNotices, events <- aEvents, notifier <- aNotifier,
       snapshot <- aSnapshot, lock <- aLock, cached <- aCached, latest <- aLatest,
       applies <- aApplies, goal <- aGoal, todo <- aTodo, shadow <- aShadow,
       sources <- aSources, sinks <- aSinks, links <- aLinks, captures <- aCaptures,
       made <- aMade, lost <- aLost, refused <- aRefused, leaked <- aLeaked

(* What the theorem about the applier assumes of the desired states: their   *)
(* shape, and that a sink plays paths of its own state.                      *)
ASSUME StateConstants ==
  \A D \in States :
    /\ \A p \in DOMAIN D.paths : DOMAIN D.paths[p] = {"tag", "format", "volume"}
    /\ \A s \in DOMAIN D.sinks :
         /\ DOMAIN D.sinks[s] = {"config", "links"}
         /\ D.sinks[s].links \subseteq DOMAIN D.paths

-----------------------------------------------------------------------------
AllInit == /\ kind \in {"routing", "locks", "applier"}
           /\ Init /\ locks!Init /\ applier!Init

AllNext ==
  \/ kind = "routing" /\ Next         /\ UNCHANGED <<kind, lockVars, applierVars>>
  \/ kind = "locks"   /\ locks!Next   /\ UNCHANGED <<kind, vars, applierVars>>
  \/ kind = "applier" /\ applier!Next /\ UNCHANGED <<kind, vars, lockVars>>

AllSpec == AllInit /\ [][AllNext]_allVars

(* lock_order_enforcer.h: the locks wait for each other in a circle only     *)
(* where a pass meets a call that attaches or detaches a ring.               *)
OnlyPassAndAttach == locks!OnlyPassAndAttach

(* apply_state: what the applier believes to have made is what the engine    *)
(* has, whatever failed.                                                     *)
ShadowIsEngine == applier!ShadowIsEngine
=============================================================================
