---------------------------- MODULE SyncBarrier ----------------------------
(* synchronization/: sinks of one sample rate dispatch together.  Each       *)
(* mixer thread waits at a barrier of the clock until all registered sinks   *)
(* have arrived or its deadline passes; the engine's caller adds and removes *)
(* sinks meanwhile.  The critical sections of barrier_mutex_ and             *)
(* sinks_mutex_ are single steps, except where get_stats locks twice.        *)
(*                                                                           *)
(* barrier_generation_ only tells a sleeper that the barrier has opened      *)
(* since it arrived: it is advanced and announced under the lock of the      *)
(* sleepers, so all of them leave in the step that advances it.              *)
EXTENDS Integers, FiniteSets

CONSTANTS Sink,     \* every sink joins once at most
          ByManager \* those added by AudioManager::add_sink; a test of the
                    \* clock or a coordinator's owner registers the others

ASSUME SinkAssumption == IsFiniteSet(Sink) /\ ByManager \subseteq Sink

VARIABLES reference,    \* reference_initialized_ and enabled_, set together
          active,       \* sinks_
          ready,        \* sinks_ready_count_
          pc,           \* each sink's mixer: "mixing", "arriving" or "asleep"
          coordinating, \* coordination_enabled_ of each sink
          call, who,    \* the caller: step of its call, and the sink it is about
          joined, left  \* history: sinks that joined; whether one has left

clock  == <<reference, active, ready>>
caller == <<call, who, joined, left>>
vars   == <<clock, pc, coordinating, caller>>

Init == /\ reference = FALSE /\ active = {} /\ ready = 0
        /\ pc = [s \in Sink |-> "mixing"]
        /\ coordinating = [s \in Sink |-> FALSE]
        /\ call = "none" /\ who \in Sink
        /\ joined = {} /\ left = FALSE

Asleep == {s \in Sink : pc[s] = "asleep"}
Woken(f) == [s \in Sink |-> IF f[s] = "asleep" THEN "mixing" ELSE f[s]]

(* get_stats holds sinks_mutex_ while it locks it again.                     *)
SinksFree == call # "locked twice"

-----------------------------------------------------------------------------
(* begin_dispatch, called by the mixer in every cycle                        *)
Begin(s) == /\ pc[s] = "mixing" /\ coordinating[s] /\ reference
            /\ pc' = [pc EXCEPT ![s] = "arriving"]
            /\ UNCHANGED <<clock, coordinating, caller>>

Arrives(s) == pc[s] = "arriving" /\ SinksFree
Total == Cardinality(active)

Bypass(s) == /\ Arrives(s) /\ Total <= 1
             /\ pc' = [pc EXCEPT ![s] = "mixing"]
             /\ UNCHANGED <<clock, coordinating, caller>>

LastOffByOne == ready + 1 > Total                                \* mutant
LastToArrive == ready + 1 >= Total

OpenSameGeneration(s) ==                                         \* mutant
           /\ Arrives(s) /\ Total > 1 /\ LastToArrive
           /\ ready' = 0
           /\ pc' = [pc EXCEPT ![s] = "mixing"]
           /\ UNCHANGED <<reference, active, coordinating, caller>>
OpenKeepsCount(s) ==                                             \* mutant
           /\ Arrives(s) /\ Total > 1 /\ LastToArrive
           /\ pc' = [Woken(pc) EXCEPT ![s] = "mixing"]
           /\ UNCHANGED <<clock, coordinating, caller>>
Open(s) == /\ Arrives(s) /\ Total > 1 /\ LastToArrive
           /\ ready' = 0
           /\ pc' = [Woken(pc) EXCEPT ![s] = "mixing"]
           /\ UNCHANGED <<reference, active, coordinating, caller>>

Sleep(s) == /\ Arrives(s) /\ Total > 1 /\ ~LastToArrive
            /\ ready' = ready + 1
            /\ pc' = [pc EXCEPT ![s] = "asleep"]
            /\ UNCHANGED <<reference, active, coordinating, caller>>

TimeOut(s) == /\ pc[s] = "asleep"
              /\ ready' = ready - 1
              /\ pc' = [pc EXCEPT ![s] = "mixing"]
              /\ UNCHANGED <<reference, active, coordinating, caller>>

-----------------------------------------------------------------------------
(* add_sink: the first sink of a rate starts the clock, which get_stats      *)
(* finds out; it locks sinks_mutex_ and, of a clock that runs, asks          *)
(* get_current_playback_timestamp, which locks it as well.                   *)
AddSink(s) == /\ call = "none" /\ s \notin joined
              /\ s \in ByManager \/ reference
              /\ call' = IF s \in ByManager THEN "stats" ELSE "register"
              /\ who' = s /\ joined' = joined \cup {s}
              /\ UNCHANGED <<clock, pc, coordinating, left>>

AskStats == /\ call = "stats"
            /\ call' = IF reference THEN "locked twice" ELSE "register"
            /\ reference' = TRUE
            /\ UNCHANGED <<active, ready, pc, coordinating, who, joined, left>>

Register == /\ call = "register" /\ call' = "enable"
            /\ active' = active \cup {who}
            /\ UNCHANGED <<reference, ready, pc, coordinating, who, joined, left>>

Enable == /\ call = "enable" /\ call' = "none"
          /\ coordinating' = [coordinating EXCEPT ![who] = TRUE]
          /\ UNCHANGED <<clock, pc, who, joined, left>>

(* remove_sink disables the coordinator: the sink leaves the clock, the      *)
(* sleepers go on, and only then the mixer stops to coordinate.              *)
RemoveSink(s) == /\ call = "none" /\ coordinating[s]
                 /\ call' = "wake" /\ who' = s
                 /\ active' = active \ {s}
                 /\ left' = TRUE
                 /\ UNCHANGED <<reference, ready, pc, coordinating, joined>>

WakeSleepers == /\ call = "wake" /\ call' = "disable"
                /\ pc' = Woken(pc)
                /\ UNCHANGED <<clock, coordinating, who, joined, left>>

Disable == /\ call = "disable" /\ call' = "none"
           /\ coordinating' = [coordinating EXCEPT ![who] = FALSE]
           /\ UNCHANGED <<clock, pc, who, joined, left>>

Call == AskStats \/ Register \/ Enable \/ WakeSleepers \/ Disable

Next == \/ \E s \in Sink : \/ Begin(s) \/ Bypass(s) \/ Open(s) \/ Sleep(s) \/ TimeOut(s)
                           \/ AddSink(s) \/ RemoveSink(s)
        \/ Call

Spec == Init /\ [][Next]_vars

(* The caller's thread goes on.  Nobody has to mix, and no deadline to pass. *)
FairSpec == Spec /\ WF_vars(Call)

-----------------------------------------------------------------------------
TypeOK == /\ reference \in BOOLEAN /\ left \in BOOLEAN
          /\ active \subseteq joined /\ joined \subseteq Sink
          /\ ready \in Nat /\ ready <= Cardinality(Sink)
          /\ pc \in [Sink -> {"mixing", "arriving", "asleep"}]
          /\ coordinating \in [Sink -> BOOLEAN]
          /\ call \in {"none", "stats", "locked twice", "register", "enable", "wake", "disable"}
          /\ who \in Sink

(* Everyone at the barrier is counted, whoever timed out, left or came in    *)
(* between: a timeout never takes the count below zero.                      *)
CountCoversSleepers == ready >= Cardinality(Asleep)

(* No round in which everyone waits for everyone: the registered sinks are   *)
(* never all asleep, except until a sink that leaves has woken the others.   *)
NobodyStranded == active # {} /\ active \subseteq Asleep => call = "wake"

(* "True if all sinks arrived at the barrier": as long as no sink has left,  *)
(* the barrier opens only for a round that is complete.  (A sink that leaves *)
(* wakes the sleepers without taking them off the count, and the next round  *)
(* opens early.)                                                             *)
RoundComplete ==
  [][\A s \in Sink : Open(s) /\ ~left => active = Asleep \cup {s}]_vars

(* add_sink and remove_sink return.                                          *)
CallsReturn == call # "none" ~> call = "none"
=============================================================================
