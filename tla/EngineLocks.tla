----------------------------- MODULE EngineLocks -----------------------------
(* The locks of the audio engine and the order in which its threads take     *)
(* them.  manager_mutex (recursive) guards the managers' maps, data_mutex_   *)
(* the timeshift buffer, timing_map_mutex_ and the per-stream lock the       *)
(* timing states; pipeline_state_mutex_ is held while the timeshift thread   *)
(* asks the sinks for their fill levels.  Locks under which no further lock  *)
(* is taken (the mixers', the capture registries') cannot close a cycle and  *)
(* are left out.                                                             *)
EXTENDS Integers, Sequences

CONSTANTS Thread,      \* the threads of the engine and those that call it
          CallsOf      \* [Thread -> set of names of the calls it may make]

VARIABLES call,        \* the call a thread is in, "none" outside
          at,          \* the step of the call it is about to do
          depth        \* depth[l][t]: how often thread t holds lock l

vars == <<call, at, depth>>

Lock == {"manager", "data", "timing_map", "stream", "pipeline"}

Take(l) == <<[take |-> TRUE, lock |-> l]>>
Give(l) == <<[take |-> FALSE, lock |-> l]>>
Section(l) == Take(l) \o Give(l)
Within(l, steps) == Take(l) \o steps \o Give(l)

-----------------------------------------------------------------------------
(* The lock operations of each call, in order.                               *)

(* get_timing_state and get_or_create_timing_state return with the stream's  *)
(* lock held and the map's released.                                         *)
TakeStreamKeepsMap == Take("timing_map") \o Take("stream")        \* mutant
TakeStream == Take("timing_map") \o Take("stream") \o Give("timing_map")

(* pipeline_state_provider_ asks SinkManager::get_all_mixers.                *)
AskPipeline == Within("pipeline", Section("manager"))

Pass      == Within("data", TakeStream \o AskPipeline \o Give("stream"))
EmptyPass == Section("data")

(* ingest_packet_locked lets go of data_mutex_ once the packet is in; a jump *)
(* of the RTP clock drops the stream's state and starts it anew.             *)
Ingest     == Take("data") \o TakeStream \o Give("data") \o Give("stream")
IngestJump == Take("data") \o TakeStream \o Give("stream")
                \o TakeStream \o Give("data") \o Give("stream")

(* The sink's map of inputs is changed under the same, recursive lock; the   *)
(* ring is attached or detached before it is released.                       *)
Connect    == Within("manager", Section("manager") \o Section("data"))
Disconnect == Within("manager", Section("manager") \o Section("data"))

RegisterNested == Within("manager", Section("data"))             \* mutant
Register       == Section("manager") \o Section("data")

ConfigureSource == Register
SpawnChild      == Section("manager") \o Register
WildcardMatch   == SpawnChild \o Section("manager") \o Connect

EraseSource  == Section("manager") \o Section("manager") \o Section("manager") \o Section("data")
RemoveSource == Disconnect \o EraseSource

UpdateParameters == Within("manager", Section("manager")) \o Section("data")

AddSink    == Section("manager") \o Section("manager")
RemoveSink == Section("manager")

ResetStream == Section("data") \o TakeStream \o Give("stream")
CollectStats == Section("data") \o Section("timing_map") \o TakeStream \o Give("stream")
                  \o Section("manager") \o Section("manager")

Calls == {"pass", "empty_pass", "ingest", "jump", "wildcard", "configure", "remove", "erase",
          "update", "connect", "disconnect", "add_sink", "remove_sink", "reset", "stats"}

(* The calls that attach or detach a ring.                                   *)
Attaching == {"wildcard", "connect", "disconnect", "remove"}

StepsOf(c) ==
  CASE c = "pass"       -> Pass
    [] c = "empty_pass" -> EmptyPass
    [] c = "ingest"     -> Ingest
    [] c = "jump"       -> IngestJump
    [] c = "wildcard"   -> WildcardMatch
    [] c = "configure"  -> ConfigureSource
    [] c = "remove"     -> RemoveSource
    [] c = "erase"      -> EraseSource
    [] c = "update"     -> UpdateParameters
    [] c = "connect"    -> Connect
    [] c = "disconnect" -> Disconnect
    [] c = "add_sink"   -> AddSink
    [] c = "remove_sink" -> RemoveSink
    [] c = "reset"      -> ResetStream
    [] c = "stats"      -> CollectStats

-----------------------------------------------------------------------------
Init == /\ call = [t \in Thread |-> "none"]
        /\ at = [t \in Thread |-> 1]
        /\ depth = [l \in Lock |-> [t \in Thread |-> 0]]

Holds(t, l) == depth[l][t] > 0
Step(t)     == StepsOf(call[t])[at[t]]

(* Thread u stops thread t from taking lock l; a thread stops itself when it *)
(* takes a lock that is not recursive a second time.                         *)
Stops(u, t, l) == Holds(u, l) /\ (u # t \/ l # "manager")

Begin(t) == /\ call[t] = "none"
            /\ \E c \in CallsOf[t] : call' = [call EXCEPT ![t] = c]
            /\ UNCHANGED <<at, depth>>

Advance(t) ==
  IF at[t] = Len(StepsOf(call[t]))
  THEN call' = [call EXCEPT ![t] = "none"] /\ at' = [at EXCEPT ![t] = 1]
  ELSE at' = [at EXCEPT ![t] = @ + 1] /\ UNCHANGED call

Acquire(t) == /\ call[t] # "none" /\ Step(t).take
              /\ ~\E u \in Thread : Stops(u, t, Step(t).lock)
              /\ depth' = [depth EXCEPT ![Step(t).lock][t] = @ + 1]
              /\ Advance(t)

Release(t) == /\ call[t] # "none" /\ ~Step(t).take
              /\ depth' = [depth EXCEPT ![Step(t).lock][t] = @ - 1]
              /\ Advance(t)

Next == \E t \in Thread : Begin(t) \/ Acquire(t) \/ Release(t)

Spec == Init /\ [][Next]_vars

-----------------------------------------------------------------------------
Waits(t, u) == call[t] # "none" /\ Step(t).take /\ Stops(u, t, Step(t).lock)

(* A thread outside a call holds nothing, and nobody holds a lock with       *)
(* somebody else.                                                            *)
TypeOK == /\ call \in [Thread -> {"none"} \cup UNION {CallsOf[t] : t \in Thread}]
          /\ \A t \in Thread : call[t] # "none" => at[t] \in DOMAIN StepsOf(call[t])
          /\ depth \in [Lock -> [Thread -> 0 .. 2]]
          /\ \A t \in Thread, l \in Lock : call[t] = "none" => ~Holds(t, l)
          /\ \A l \in Lock : \A t, u \in Thread : Holds(t, l) /\ Holds(u, l) => t = u

Circle(S) == S # {} /\ \A t \in S : \E u \in S : Waits(t, u)

(* lock_order_enforcer.h: no set of threads waits for locks that its own     *)
(* members hold.                                                             *)
NoCircularWait == \A S \in SUBSET Thread : ~Circle(S)

(* The one way to a deadlock: in every circle a pass that asks the sinks for *)
(* their fill levels waits for a call that attaches or detaches a ring, and  *)
(* that call waits for the pass.  All other orders of locks agree.           *)
OnlyPassAndAttach ==
  \A S \in SUBSET Thread : Circle(S) =>
    \E t, u \in S : /\ call[t] = "pass" /\ call[u] \in Attaching
                    /\ Waits(t, u) /\ Waits(u, t)
=============================================================================
