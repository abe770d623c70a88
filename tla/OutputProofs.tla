----------------------------- MODULE OutputProofs -----------------------------
(* What MCOutput checks of the barrier, of the senders and of what a source's*)
(* audio goes through on its way to them, for every value of the constants.  *)
EXTENDS MCOutput, FiniteSetTheorems, SequenceTheorems, WellFoundedInduction, TLAPS

(* A step of one component leaves the state of the others as it is.          *)
LEMMA Apart ==
  [AllNext]_allVars =>
    /\ kind' = kind
    /\ Next \/ UNCHANGED vars
    /\ \/ kind = "mixer" /\ mixer!Next
       \/ kind = "hurry" /\ hurry!Next
       \/ UNCHANGED mixerVars
    /\ webrtc!Next \/ UNCHANGED webVars
    /\ processor!Next \/ UNCHANGED sourceVars
    /\ listener!Next \/ UNCHANGED listenerVars
    /\ alsa!Next \/ absent!Next \/ UNCHANGED alsaVars
    /\ \/ kind = "pcm" /\ pcm!Next
       \/ kind = "opus" /\ opus!Next
       \/ UNCHANGED rtpVars
    /\ \/ kind = "multiPcm" /\ multiPcm!Next
       \/ kind = "multiOpus" /\ multiOpus!Next
       \/ UNCHANGED multiVars
  <1>1. UNCHANGED allVars => UNCHANGED <<kind, vars, mixerVars, webVars, sourceVars, listenerVars,
                                         alsaVars, rtpVars, multiVars>>
      BY DEF allVars
  <1> QED
      BY <1>1, Zenon DEF AllNext

-----------------------------------------------------------------------------
(* SyncBarrier: the count of the dispatch barrier covers its sleepers,       *)
(* nobody is stranded and rounds are complete until a sink leaves, for any   *)
(* finite set of sinks.                                                      *)

(* A sink that is about to join does not take part yet.                      *)
Joining == {"stats", "locked twice", "register", "enable"}
Newcomer ==
  /\ \A s \in Sink \ joined : ~coordinating[s] /\ pc[s] = "mixing"
  /\ call \in Joining => /\ who \in joined /\ ~coordinating[who] /\ pc[who] = "mixing"
                         /\ call # "enable" => who \notin active
                         /\ call = "enable" => who \in active

(* Until a sink leaves, those that take part are registered and the count is *)
(* the number of sleepers.                                                   *)
Undisturbed ==
  /\ call \in {"wake", "disable"} => left
  /\ ~left => /\ \A s \in Sink : coordinating[s] \/ pc[s] # "mixing" => s \in active
              /\ ready = Cardinality(Asleep)

BInv == TypeOK /\ CountCoversSleepers /\ NobodyStranded /\ Newcomer /\ Undisturbed

(* The sets of sinks are finite; one sleeper more or less counts.            *)
LEMMA Counting ==
  ASSUME NEW T \in SUBSET Sink, NEW s \in Sink
  PROVE  /\ IsFiniteSet(T) /\ Cardinality(T) \in Nat /\ Cardinality(T) <= Cardinality(Sink)
         /\ Cardinality(Sink) \in Nat /\ Cardinality({}) = 0
         /\ s \notin T => Cardinality(T \cup {s}) = Cardinality(T) + 1
         /\ s \in T => Cardinality(T \ {s}) = Cardinality(T) - 1
  <1>1. IsFiniteSet(T) /\ IsFiniteSet(Sink) /\ Cardinality(T) <= Cardinality(Sink)
      BY SinkAssumption, FS_Subset
  <1>2. Cardinality(T) \in Nat /\ Cardinality(Sink) \in Nat
      BY <1>1, FS_CardinalityType
  <1>3. Cardinality({}) = 0
      BY FS_EmptySet
  <1>4. s \notin T => Cardinality(T \cup {s}) = Cardinality(T) + 1
      BY <1>1, FS_AddElement
  <1>5. s \in T => Cardinality(T \ {s}) = Cardinality(T) - 1
      BY <1>1, FS_RemoveElement
  <1> QED
      BY <1>1, <1>2, <1>3, <1>4, <1>5

LEMMA NotMore ==
  ASSUME NEW S \in SUBSET Sink, NEW T \in SUBSET S
  PROVE  Cardinality(T) <= Cardinality(S) /\ (Cardinality(T) = Cardinality(S) => S = T)
  BY SinkAssumption, FS_Subset

-----------------------------------------------------------------------------
LEMMA BInit == Init => BInv
  <1> SUFFICES ASSUME Init PROVE BInv
      OBVIOUS
  <1>1. Asleep = {} /\ Cardinality({}) = 0 /\ Cardinality(Sink) \in Nat
      BY SinkAssumption, FS_EmptySet, FS_CardinalityType DEF Init, Asleep
  <1>2. reference \in BOOLEAN /\ left \in BOOLEAN
      BY Zenon DEF Init
  <1>3. TypeOK
      BY <1>1, <1>2 DEF Init, TypeOK
  <1> QED
      BY <1>1, <1>3 DEF Init, BInv, CountCoversSleepers, NobodyStranded, Newcomer, Undisturbed, Joining

(* Mixers: begin, pass by, open, sleep and time out.                         *)
LEMMA BMixing ==
  ASSUME BInv, NEW s \in Sink, Begin(s) \/ Bypass(s) PROVE BInv'
  <1>1. /\ TypeOK /\ CountCoversSleepers /\ NobodyStranded /\ Newcomer /\ Undisturbed
        /\ UNCHANGED <<reference, active, ready, coordinating, call, who, joined, left>>
        /\ pc[s] \in {"mixing", "arriving"}
        /\ pc' \in {[pc EXCEPT ![s] = "arriving"], [pc EXCEPT ![s] = "mixing"]}
        /\ Begin(s) => coordinating[s]
      BY DEF BInv, Begin, Bypass, Arrives, clock, caller
  <1>2. Asleep' = Asleep
    <2>1. \A t \in Sink : pc'[t] = "asleep" <=> pc[t] = "asleep"
        BY <1>1 DEF TypeOK
    <2> QED
        BY <2>1 DEF Asleep
  <1>3. /\ pc' \in [Sink -> {"mixing", "arriving", "asleep"}]
        /\ \A t \in Sink : t # s => pc'[t] = pc[t]
        /\ pc'[s] # "mixing" => coordinating[s]
      BY <1>1 DEF TypeOK, Begin, Bypass
  <1>4. TypeOK'
      BY <1>1, <1>3 DEF TypeOK
  <1>5. CountCoversSleepers' /\ NobodyStranded'
      BY <1>1, <1>2 DEF CountCoversSleepers, NobodyStranded
  <1>6. Newcomer' /\ Undisturbed'
      BY <1>1, <1>2, <1>3 DEF Newcomer, Undisturbed, TypeOK
  <1> QED
      BY <1>4, <1>5, <1>6 DEF BInv

LEMMA BOpen == ASSUME BInv, NEW s \in Sink, Open(s) PROVE BInv'
  <1>1. /\ TypeOK /\ NobodyStranded /\ Newcomer /\ Undisturbed
        /\ UNCHANGED <<reference, active, coordinating, call, who, joined, left>>
        /\ ready' = 0 /\ pc' = [Woken(pc) EXCEPT ![s] = "mixing"]
      BY DEF BInv, Open, caller
  <1>2. Asleep' = {} /\ Cardinality({}) = 0 /\ Cardinality(Sink) \in Nat
    <2>1. Asleep' = {}
        BY <1>1 DEF TypeOK, Asleep, Woken
    <2> QED
        BY <2>1, SinkAssumption, FS_EmptySet, FS_CardinalityType
  <1>3. /\ pc' \in [Sink -> {"mixing", "arriving", "asleep"}]
        /\ \A t \in Sink : pc'[t] \in {pc[t], "mixing"}
      BY <1>1 DEF TypeOK, Woken
  <1>4. TypeOK'
    <2>1. ready' \in Nat /\ ready' <= Cardinality(Sink)
        BY <1>1, <1>2
    <2> QED
        BY <1>1, <1>3, <2>1 DEF TypeOK
  <1>5. CountCoversSleepers' /\ NobodyStranded'
      BY <1>1, <1>2 DEF CountCoversSleepers, NobodyStranded
  <1>6. Newcomer' /\ Undisturbed'
      BY <1>1, <1>2, <1>3 DEF Newcomer, Undisturbed, TypeOK
  <1> QED
      BY <1>4, <1>5, <1>6 DEF BInv

(* The last of the registered sinks to arrive would have opened.             *)
LEMMA BSleep == ASSUME BInv, NEW s \in Sink, Sleep(s) PROVE BInv'
  <1>1. /\ TypeOK /\ CountCoversSleepers /\ Newcomer /\ Undisturbed
        /\ UNCHANGED <<reference, active, coordinating, call, who, joined, left>>
        /\ pc[s] = "arriving" /\ ready' = ready + 1 /\ pc' = [pc EXCEPT ![s] = "asleep"]
        /\ ~(ready + 1 >= Cardinality(active))
      BY DEF BInv, Sleep, Arrives, LastToArrive, Total, caller
  <1>2. Asleep' = Asleep \cup {s} /\ s \notin Asleep /\ Asleep \subseteq Sink
      BY <1>1 DEF TypeOK, Asleep
  <1>3. active \subseteq Sink /\ ready \in Nat
      BY <1>1 DEF TypeOK
  <1>4. /\ Cardinality(Asleep') = Cardinality(Asleep) + 1 /\ Cardinality(Asleep) \in Nat
        /\ Cardinality(active) \in Nat /\ Cardinality(active) <= Cardinality(Sink)
        /\ Cardinality(Sink) \in Nat
    <2>1. Cardinality(Asleep') = Cardinality(Asleep) + 1 /\ Cardinality(Asleep) \in Nat
        BY <1>2, Counting
    <2>2. /\ Cardinality(active) \in Nat /\ Cardinality(active) <= Cardinality(Sink)
          /\ Cardinality(Sink) \in Nat
        BY <1>3, Counting
    <2> QED
        BY <2>1, <2>2
  <1>5. /\ pc' \in [Sink -> {"mixing", "arriving", "asleep"}]
        /\ \A t \in Sink : t # s => pc'[t] = pc[t]
      BY <1>1 DEF TypeOK
  <1>6. TypeOK'
    <2>1. ready' \in Nat /\ ready' <= Cardinality(Sink)
        BY <1>1, <1>3, <1>4
    <2> QED
        BY <1>1, <1>5, <2>1 DEF TypeOK
  <1>7. CountCoversSleepers'
      BY <1>1, <1>3, <1>4 DEF CountCoversSleepers
  <1>8. NobodyStranded'
    <2>1. ASSUME active \subseteq Asleep' PROVE FALSE
      <3>1. Cardinality(active) <= Cardinality(Asleep')
          BY <1>2, <2>1, NotMore
      <3> QED
          BY <1>1, <1>3, <1>4, <3>1 DEF CountCoversSleepers
    <2> QED
        BY <1>1, <2>1 DEF NobodyStranded
  <1>9. Newcomer' /\ Undisturbed'
      BY <1>1, <1>3, <1>4, <1>5 DEF Newcomer, Undisturbed, TypeOK
  <1> QED
      BY <1>6, <1>7, <1>8, <1>9 DEF BInv

LEMMA BTimeOut == ASSUME BInv, NEW s \in Sink, TimeOut(s) PROVE BInv'
  <1>1. /\ TypeOK /\ CountCoversSleepers /\ NobodyStranded /\ Newcomer /\ Undisturbed
        /\ UNCHANGED <<reference, active, coordinating, call, who, joined, left>>
        /\ pc[s] = "asleep" /\ ready' = ready - 1 /\ pc' = [pc EXCEPT ![s] = "mixing"]
      BY DEF BInv, TimeOut, caller
  <1>2. Asleep' = Asleep \ {s} /\ s \in Asleep /\ Asleep \subseteq Sink
      BY <1>1 DEF TypeOK, Asleep
  <1>3. /\ Cardinality(Asleep') = Cardinality(Asleep) - 1 /\ Cardinality(Asleep) \in Nat
        /\ Cardinality(Sink) \in Nat /\ Cardinality(Asleep') \in Nat
    <2>1. Asleep' \subseteq Sink
        BY <1>2
    <2>2. Cardinality(Asleep') \in Nat
        BY <2>1, Counting
    <2>3. /\ Cardinality(Asleep \ {s}) = Cardinality(Asleep) - 1
          /\ Cardinality(Asleep) \in Nat /\ Cardinality(Sink) \in Nat
        BY <1>2, Counting
    <2> QED
        BY <1>2, <2>2, <2>3
  <1>4. ready' \in Nat /\ ready' <= Cardinality(Sink) /\ ready' >= Cardinality(Asleep')
    <2>1. ready \in Nat /\ ready <= Cardinality(Sink) /\ ready >= Cardinality(Asleep)
        BY <1>1 DEF TypeOK, CountCoversSleepers
    <2> QED
        BY <1>1, <1>3, <2>1
  <1>5. /\ pc' \in [Sink -> {"mixing", "arriving", "asleep"}]
        /\ \A t \in Sink : pc'[t] \in {pc[t], "mixing"}
      BY <1>1 DEF TypeOK
  <1>6. TypeOK'
      BY <1>1, <1>4, <1>5 DEF TypeOK
  <1>7. CountCoversSleepers'
      BY <1>4 DEF CountCoversSleepers
  <1>8. NobodyStranded'
      BY <1>1, <1>2 DEF NobodyStranded
  <1>9. Newcomer' /\ Undisturbed'
      BY <1>1, <1>3, <1>4, <1>5 DEF Newcomer, Undisturbed, TypeOK
  <1> QED
      BY <1>6, <1>7, <1>8, <1>9 DEF BInv

(* The caller: a sink joins.                                                 *)
LEMMA BJoin ==
  ASSUME BInv, (\E s \in Sink : AddSink(s)) \/ AskStats \/ Register \/ Enable PROVE BInv'
  <1>1. /\ TypeOK /\ CountCoversSleepers /\ NobodyStranded /\ Newcomer /\ Undisturbed
        /\ UNCHANGED <<ready, pc, left>>
      BY DEF BInv, AddSink, AskStats, Register, Enable, clock
  <1>2. Asleep' = Asleep
      BY <1>1 DEF Asleep
  <1>3. CASE \E s \in Sink : AddSink(s)
    <2>1. PICK s \in Sink : AddSink(s)
        BY <1>3
    <2>2. /\ UNCHANGED <<reference, active, coordinating>> /\ s \notin joined
          /\ call = "none" /\ call' \in {"stats", "register"}
          /\ who' = s /\ joined' = joined \cup {s}
        BY <2>1 DEF AddSink, clock
    <2>3. TypeOK'
        BY <1>1, <2>2 DEF TypeOK
    <2>4. CountCoversSleepers' /\ NobodyStranded'
        BY <1>1, <1>2, <2>2 DEF CountCoversSleepers, NobodyStranded
    <2>5. Newcomer' /\ Undisturbed'
        BY <1>1, <1>2, <2>2 DEF Newcomer, Undisturbed, Joining, TypeOK
    <2> QED
        BY <2>3, <2>4, <2>5 DEF BInv
  <1>4. CASE AskStats
    <2>1. /\ UNCHANGED <<active, coordinating, who, joined>> /\ reference' = TRUE
          /\ call = "stats" /\ call' \in {"locked twice", "register"}
        BY <1>4 DEF AskStats
    <2>2. TypeOK'
      <3>1. reference' \in BOOLEAN
          BY <2>1
      <3> QED
          BY <1>1, <2>1, <3>1 DEF TypeOK
    <2>3. CountCoversSleepers' /\ NobodyStranded'
        BY <1>1, <1>2, <2>1 DEF CountCoversSleepers, NobodyStranded
    <2>4. Newcomer' /\ Undisturbed'
        BY <1>1, <1>2, <2>1 DEF Newcomer, Undisturbed, Joining
    <2> QED
        BY <2>2, <2>3, <2>4 DEF BInv
  <1>5. CASE Register
    <2>1. /\ UNCHANGED <<reference, coordinating, who, joined>> /\ active' = active \cup {who}
          /\ call = "register" /\ call' = "enable"
          /\ who \in joined /\ pc[who] = "mixing"
        BY <1>1, <1>5 DEF Register, Newcomer, Joining
    <2>2. TypeOK'
        BY <1>1, <2>1 DEF TypeOK
    <2>3. CountCoversSleepers'
        BY <1>1, <1>2, <2>1 DEF CountCoversSleepers
    <2>4. NobodyStranded'
        BY <1>2, <2>1 DEF NobodyStranded, Asleep
    <2>5. Newcomer' /\ Undisturbed'
        BY <1>1, <1>2, <2>1 DEF Newcomer, Undisturbed, Joining
    <2> QED
        BY <2>2, <2>3, <2>4, <2>5 DEF BInv
  <1>6. CASE Enable
    <2>1. /\ UNCHANGED <<reference, active, who, joined>>
          /\ coordinating' = [coordinating EXCEPT ![who] = TRUE]
          /\ call = "enable" /\ call' = "none" /\ who \in joined /\ who \in active
        BY <1>1, <1>6 DEF Enable, clock, Newcomer, Joining
    <2>2. /\ coordinating' \in [Sink -> BOOLEAN]
          /\ \A s \in Sink : s # who => coordinating'[s] = coordinating[s]
        BY <1>1, <2>1, Zenon DEF TypeOK
    <2>3. TypeOK'
        BY <1>1, <2>1, <2>2 DEF TypeOK
    <2>4. CountCoversSleepers' /\ NobodyStranded'
        BY <1>1, <1>2, <2>1 DEF CountCoversSleepers, NobodyStranded
    <2>5. Newcomer' /\ Undisturbed'
        BY <1>1, <1>2, <2>1, <2>2 DEF Newcomer, Undisturbed, Joining
    <2> QED
        BY <2>3, <2>4, <2>5 DEF BInv
  <1> QED
      BY <1>3, <1>4, <1>5, <1>6

(* The caller: a sink leaves; its sleepers are woken before the call ends.   *)
LEMMA BLeave ==
  ASSUME BInv, (\E s \in Sink : RemoveSink(s)) \/ WakeSleepers \/ Disable PROVE BInv'
  <1>1. /\ TypeOK /\ CountCoversSleepers /\ NobodyStranded /\ Newcomer /\ Undisturbed
        /\ UNCHANGED <<reference, ready, joined>>
      BY DEF BInv, RemoveSink, WakeSleepers, Disable, clock
  <1>2. CASE \E s \in Sink : RemoveSink(s)
    <2>1. PICK s \in Sink : RemoveSink(s)
        BY <1>2
    <2>2. /\ UNCHANGED <<pc, coordinating>> /\ coordinating[s]
          /\ call' = "wake" /\ who' = s /\ left' = TRUE /\ active' \subseteq active
        BY <2>1 DEF RemoveSink
    <2>3. TypeOK'
      <3>1. left' \in BOOLEAN
          BY <2>2
      <3> QED
          BY <1>1, <2>2, <3>1 DEF TypeOK
    <2>4. CountCoversSleepers' /\ NobodyStranded'
        BY <1>1, <2>2 DEF CountCoversSleepers, NobodyStranded, Asleep
    <2>5. Newcomer' /\ Undisturbed'
        BY <1>1, <2>2 DEF Newcomer, Undisturbed, Joining
    <2> QED
        BY <2>3, <2>4, <2>5 DEF BInv
  <1>3. CASE WakeSleepers
    <2>1. /\ UNCHANGED <<active, coordinating, who, left>> /\ pc' = Woken(pc)
          /\ call = "wake" /\ call' = "disable"
        BY <1>3 DEF WakeSleepers, clock
    <2>2. Asleep' = {} /\ Cardinality({}) = 0
        BY <1>1, <2>1, FS_EmptySet DEF Asleep, Woken
    <2>3. /\ pc' \in [Sink -> {"mixing", "arriving", "asleep"}]
          /\ \A t \in Sink : pc'[t] \in {pc[t], "mixing"}
        BY <1>1, <2>1 DEF TypeOK, Woken
    <2>4. TypeOK'
        BY <1>1, <2>1, <2>3 DEF TypeOK
    <2>5. CountCoversSleepers' /\ NobodyStranded'
        BY <1>1, <2>1, <2>2 DEF CountCoversSleepers, NobodyStranded, TypeOK
    <2>6. Newcomer' /\ Undisturbed'
        BY <1>1, <2>1, <2>3 DEF Newcomer, Undisturbed, Joining
    <2> QED
        BY <2>4, <2>5, <2>6 DEF BInv
  <1>4. CASE Disable
    <2>1. /\ UNCHANGED <<active, pc, who, left>>
          /\ coordinating' = [coordinating EXCEPT ![who] = FALSE]
          /\ call = "disable" /\ call' = "none" /\ left
        BY <1>1, <1>4 DEF Disable, clock, Undisturbed
    <2>2. /\ coordinating' \in [Sink -> BOOLEAN]
          /\ \A s \in Sink : coordinating'[s] => coordinating[s]
        BY <1>1, <2>1, Zenon DEF TypeOK
    <2>3. TypeOK'
        BY <1>1, <2>1, <2>2 DEF TypeOK
    <2>4. CountCoversSleepers' /\ NobodyStranded'
        BY <1>1, <2>1 DEF CountCoversSleepers, NobodyStranded, Asleep
    <2>5. Newcomer' /\ Undisturbed'
        BY <1>1, <2>1, <2>2 DEF Newcomer, Undisturbed, Joining
    <2> QED
        BY <2>3, <2>4, <2>5 DEF BInv
  <1> QED
      BY <1>2, <1>3, <1>4

LEMMA BStep == BInv /\ [Next]_vars => BInv'
  <1> SUFFICES ASSUME BInv, [Next]_vars PROVE BInv'
      OBVIOUS
  <1>1. CASE \E s \in Sink : Begin(s) \/ Bypass(s)
      BY <1>1, BMixing
  <1>2. CASE \E s \in Sink : Open(s)
      BY <1>2, BOpen
  <1>3. CASE \E s \in Sink : Sleep(s)
      BY <1>3, BSleep
  <1>4. CASE \E s \in Sink : TimeOut(s)
      BY <1>4, BTimeOut
  <1>5. CASE (\E s \in Sink : AddSink(s)) \/ AskStats \/ Register \/ Enable
      BY <1>5, BJoin
  <1>6. CASE (\E s \in Sink : RemoveSink(s)) \/ WakeSleepers \/ Disable
      BY <1>6, BLeave
  <1>7. CASE UNCHANGED vars
    <2>1. /\ UNCHANGED <<reference, active, ready, pc, coordinating, call, who, joined, left>>
          /\ Asleep' = Asleep
        BY <1>7 DEF vars, clock, caller, Asleep
    <2> QED
        BY <2>1 DEF BInv, TypeOK, CountCoversSleepers, NobodyStranded, Newcomer, Undisturbed
  <1> QED
      BY <1>1, <1>2, <1>3, <1>4, <1>5, <1>6, <1>7 DEF Next, Call

(* The inductive invariant: the three safety properties hold together with   *)
(* what joining sinks do not do yet and what holds until a sink leaves.      *)
THEOREM BarrierInvariance == AllSpec => []BInv
  <1>1. AllInit => BInv
      BY BInit DEF AllInit
  <1>2. BInv /\ [AllNext]_allVars => BInv'
      BY BStep, Apart
  <1> QED
      BY <1>1, <1>2, PTL DEF AllSpec

(* A timeout never takes sinks_ready_count_ below the number of sleepers.    *)
THEOREM CountSound == AllSpec => []CountCoversSleepers
  <1>1. BInv => CountCoversSleepers
      BY DEF BInv
  <1> QED
      BY <1>1, BarrierInvariance, PTL

(* The registered sinks never all sleep at the barrier.                      *)
THEOREM NoStrandedRound == AllSpec => []NobodyStranded
  <1>1. BInv => NobodyStranded
      BY DEF BInv
  <1> QED
      BY <1>1, BarrierInvariance, PTL

(* Until a sink leaves the barrier opens only when all have arrived.         *)
THEOREM RoundsComplete == AllSpec => RoundComplete
  <1>1. ASSUME BInv, NEW s \in Sink, Open(s), ~left
        PROVE  active = Asleep \cup {s}
    <2>1. /\ TypeOK /\ Undisturbed /\ pc[s] = "arriving"
          /\ ready + 1 >= Cardinality(active)
        BY <1>1 DEF BInv, Open, Arrives, LastToArrive, Total
    <2>2. Asleep \cup {s} \subseteq active
        BY <1>1, <2>1 DEF Undisturbed, Asleep
    <2>3. /\ Cardinality(Asleep \cup {s}) = Cardinality(Asleep) + 1
          /\ Cardinality(Asleep) \in Nat /\ ready = Cardinality(Asleep)
      <3>1. s \notin Asleep /\ Asleep \subseteq Sink
          BY <2>1 DEF Asleep
      <3> QED
          BY <1>1, <2>1, <3>1, Counting DEF Undisturbed
    <2>4. active \subseteq Sink
        BY <2>1 DEF TypeOK
    <2>5. /\ Cardinality(active) \in Nat
          /\ Cardinality(Asleep \cup {s}) <= Cardinality(active)
          /\ Cardinality(Asleep \cup {s}) = Cardinality(active) => active = Asleep \cup {s}
        BY <2>2, <2>4, Counting, NotMore
    <2> QED
        BY <2>1, <2>3, <2>5
  <1>2. BInv /\ [AllNext]_allVars => [\A s \in Sink : Open(s) /\ ~left => active = Asleep \cup {s}]_vars
      BY <1>1
  <1> QED
      BY <1>2, BarrierInvariance, PTL DEF AllSpec, RoundComplete

-----------------------------------------------------------------------------
(* RtpSender, its two instances at once.                                     *)
ROpus == kind = "opus"
RUp == {"core", "pipeline", "sap", "rtcp", "up"}
RClosing == {"stop_rtcp", "join_rtcp", "stop_sap", "join_sap", "sockets"}

RTypes ==
  /\ rPc \in RUp \cup RClosing \cup {"closed", "failed"} /\ rAfter \in {"closed", "core"}
  /\ rThread \in [{"sap", "rtcp"} -> {"none", "done", "send", "report", "receive", "wait", "loop"}]
  /\ rFlags \subseteq {"sap", "rtcp"}

(* What exists at each step of setup() and close(): a thread that is there   *)
(* and not told to stop is running, and close() looks at one after the other.*)
RThreads ==
  /\ \A t \in {"sap", "rtcp"} : /\ rThread[t] \notin {"none", "done"} => t \in rOpen
                                /\ t \in rFlags => rThread[t] # "none"
  /\ rThread["rtcp"] # "none" => /\ "rtcp" \in rFlags \/ rPc = "join_rtcp"
                                 /\ rPc \in {"up", "stop_rtcp", "join_rtcp"}
  /\ rThread["sap"] # "none" => /\ "sap" \in rFlags \/ rPc = "join_sap"
                                /\ rPc \in {"rtcp", "up"} \cup (RClosing \ {"sockets"})
  /\ rPc \in {"closed", "core"} => rOpen = {}
  /\ rPc \in {"closed", "failed", "core", "pipeline"} => ~rRegistered /\ ~rEncoder
  /\ rPc \in {"pipeline", "sap", "rtcp", "up"} => "core" \in rOpen
  /\ rPc \in {"sap", "rtcp", "up"} => rEncoder = ROpus
  /\ \A t \in rFlags : rPc # (IF t = "rtcp" THEN "join_rtcp" ELSE "join_sap")
  /\ rPc = "up" => rRegistered
  /\ rSending => rPc = "up"

RInv == RTypes /\ RThreads

LEMMA RBegins == AllInit => RInv
  <1> SUFFICES ASSUME AllInit PROVE RInv
      OBVIOUS
  <1>1. /\ rPc = "closed" /\ rAfter = "closed" /\ rFlags = {} /\ rOpen = {}
        /\ rThread = [t \in {"sap", "rtcp"} |-> "none"]
        /\ rEncoder = FALSE /\ rRegistered = FALSE /\ rSending = FALSE
      BY Zenon DEF AllInit, pcm!Init, pcm!Threads
  <1> QED
      BY <1>1 DEF RInv, RTypes, RThreads, RUp, RClosing

(* The steps of setup().                                                     *)
LEMMA RSetsUp ==
  ASSUME RInv, kind' = kind,
         \/ kind = "pcm" /\ pcm!BeginSetup
         \/ kind = "opus" /\ opus!BeginSetup
  PROVE  RInv'
  <1>1. /\ rPc \in {"closed", "failed", "up"} /\ ~rSending
        /\ IF rOpen # {} \/ \E t \in {"sap", "rtcp"} : rThread[t] # "none"
           THEN rPc' = "stop_rtcp" /\ rAfter' = "core" ELSE rPc' = "core" /\ UNCHANGED rAfter
        /\ UNCHANGED <<rFlags, rThread, rOpen, rEncoder, rRegistered, rSending>>
      BY Zenon DEF pcm!BeginSetup, pcm!StillActive, pcm!Threads, pcm!threadVars, pcm!mediaVars,
           opus!BeginSetup, opus!StillActive, opus!Threads, opus!threadVars, opus!mediaVars
  <1> QED
      BY <1>1 DEF RInv, RTypes, RThreads, RUp, RClosing, ROpus

LEMMA RSetsUpCore ==
  ASSUME RInv, kind' = kind,
         \/ kind = "pcm" /\ pcm!SetupCore
         \/ kind = "opus" /\ opus!SetupCore
  PROVE  RInv'
  <1>1. /\ rPc = "core"
        /\ \/ rOpen' = rOpen \union {"core"} /\ rPc' = "pipeline"
           \/ UNCHANGED rOpen /\ rPc' = "failed"
        /\ UNCHANGED <<rAfter, rFlags, rThread, rEncoder, rRegistered, rSending>>
      BY Zenon DEF pcm!SetupCore, pcm!threadVars, pcm!mediaVars, opus!SetupCore, opus!threadVars,
           opus!mediaVars
  <1> QED
      BY <1>1 DEF RInv, RTypes, RThreads, RUp, RClosing, ROpus

LEMMA RSetsUpPipeline ==
  ASSUME RInv, kind' = kind,
         \/ kind = "pcm" /\ pcm!InitializePipeline
         \/ kind = "opus" /\ opus!InitializePipeline
  PROVE  RInv'
  <1>1. /\ rPc = "pipeline"
        /\ \/ rEncoder' = ROpus /\ rPc' = "sap"
           \/ rPc' = "failed" /\ rEncoder' = FALSE
        /\ UNCHANGED <<rAfter, rFlags, rThread, rOpen, rRegistered, rSending>>
    <2>1. CASE kind = "pcm" /\ pcm!InitializePipeline
      <3>1. ROpus = FALSE
          BY <2>1 DEF ROpus
      <3> QED
          BY <2>1, <3>1 DEF pcm!InitializePipeline, pcm!threadVars
    <2>2. CASE kind = "opus" /\ opus!InitializePipeline
      <3>1. ROpus = TRUE
          BY <2>2 DEF ROpus
      <3> QED
          BY <2>2, <3>1 DEF opus!InitializePipeline, opus!threadVars
    <2> QED
        BY <2>1, <2>2
  <1>2. "core" \in rOpen
      BY <1>1 DEF RInv, RThreads
  <1> QED
      BY <1>1, <1>2 DEF RInv, RTypes, RThreads, RUp, RClosing, ROpus

LEMMA RSetsUpSap ==
  ASSUME RInv, kind' = kind,
         \/ kind = "pcm" /\ pcm!SetupSap
         \/ kind = "opus" /\ opus!SetupSap
  PROVE  RInv'
  <1>1. /\ rPc = "sap" /\ rPc' = "rtcp" /\ UNCHANGED rRegistered
        /\ \/ /\ rOpen' = rOpen \union {"sap"} /\ rFlags' = rFlags \union {"sap"}
              /\ rThread' = [rThread EXCEPT !["sap"] = "loop"]
           \/ UNCHANGED <<rOpen, rFlags, rThread>>
        /\ UNCHANGED <<rAfter, rEncoder, rSending>>
      BY Zenon DEF pcm!SetupSap, pcm!StartThread, pcm!mediaVars, opus!SetupSap, opus!StartThread,
           opus!mediaVars
  <1> QED
      BY <1>1 DEF RInv, RTypes, RThreads, RUp, RClosing, ROpus

LEMMA RSetsUpRtcp ==
  ASSUME RInv, kind' = kind,
         \/ kind = "pcm" /\ pcm!SetupRtcp
         \/ kind = "opus" /\ opus!SetupRtcp
  PROVE  RInv'
  <1>1. /\ rPc = "rtcp" /\ rPc' = "up" /\ rRegistered' = TRUE
        /\ \/ /\ rOpen' = rOpen \union {"rtcp"} /\ rFlags' = rFlags \union {"rtcp"}
              /\ rThread' = [rThread EXCEPT !["rtcp"] = "loop"]
           \/ UNCHANGED <<rOpen, rFlags, rThread>>
        /\ UNCHANGED <<rAfter, rEncoder, rSending>>
      BY Zenon DEF pcm!SetupRtcp, pcm!StartThread, pcm!mediaVars, opus!SetupRtcp, opus!StartThread,
           opus!mediaVars
  <1> QED
      BY <1>1 DEF RInv, RTypes, RThreads, RUp, RClosing, ROpus

(* The steps of close().                                                     *)
LEMMA RCloses ==
  ASSUME RInv, kind' = kind,
         \/ kind = "pcm" /\ pcm!Close
         \/ kind = "opus" /\ opus!Close
  PROVE  RInv'
  <1>1. /\ rPc \in {"up", "failed"} /\ ~rSending /\ rPc' = "stop_rtcp" /\ rAfter' = "closed"
        /\ UNCHANGED <<rFlags, rThread, rOpen, rEncoder, rRegistered, rSending>>
      BY Zenon DEF pcm!Close, pcm!threadVars, pcm!mediaVars, opus!Close, opus!threadVars,
           opus!mediaVars
  <1> QED
      BY <1>1 DEF RInv, RTypes, RThreads, RUp, RClosing, ROpus

LEMMA RStopsRtcp ==
  ASSUME RInv, kind' = kind,
         \/ kind = "pcm" /\ pcm!StopRtcp
         \/ kind = "opus" /\ opus!StopRtcp
  PROVE  RInv'
  <1>1. /\ rPc = "stop_rtcp" /\ rPc' = (IF "rtcp" \in rFlags THEN "join_rtcp" ELSE "stop_sap")
        /\ rFlags' = rFlags \ {"rtcp"}
        /\ UNCHANGED <<rAfter, rThread, rOpen, rEncoder, rRegistered, rSending>>
      BY Zenon DEF pcm!StopRtcp, pcm!StopThread, pcm!mediaVars, opus!StopRtcp, opus!StopThread,
           opus!mediaVars
  <1> QED
      BY <1>1 DEF RInv, RTypes, RThreads, RUp, RClosing, ROpus

LEMMA RJoinsRtcp ==
  ASSUME RInv, kind' = kind,
         \/ kind = "pcm" /\ pcm!JoinRtcp
         \/ kind = "opus" /\ opus!JoinRtcp
  PROVE  RInv'
  <1>1. /\ rPc = "join_rtcp" /\ rPc' = "stop_sap" /\ rThread' = [rThread EXCEPT !["rtcp"] = "none"]
        /\ UNCHANGED <<rAfter, rFlags, rOpen, rEncoder, rRegistered, rSending>>
      BY Zenon DEF pcm!JoinRtcp, pcm!Join, pcm!mediaVars, opus!JoinRtcp, opus!Join, opus!mediaVars
  <1> QED
      BY <1>1 DEF RInv, RTypes, RThreads, RUp, RClosing, ROpus

LEMMA RStopsSap ==
  ASSUME RInv, kind' = kind,
         \/ kind = "pcm" /\ pcm!StopSap
         \/ kind = "opus" /\ opus!StopSap
  PROVE  RInv'
  <1>1. /\ rPc = "stop_sap" /\ rPc' = (IF "sap" \in rFlags THEN "join_sap" ELSE "sockets")
        /\ rFlags' = rFlags \ {"sap"}
        /\ UNCHANGED <<rAfter, rThread, rOpen, rEncoder, rRegistered, rSending>>
      BY Zenon DEF pcm!StopSap, pcm!StopThread, pcm!mediaVars, opus!StopSap, opus!StopThread,
           opus!mediaVars
  <1> QED
      BY <1>1 DEF RInv, RTypes, RThreads, RUp, RClosing, ROpus

LEMMA RJoinsSap ==
  ASSUME RInv, kind' = kind,
         \/ kind = "pcm" /\ pcm!JoinSap
         \/ kind = "opus" /\ opus!JoinSap
  PROVE  RInv'
  <1>1. /\ rPc = "join_sap" /\ rPc' = "sockets" /\ rThread' = [rThread EXCEPT !["sap"] = "none"]
        /\ UNCHANGED <<rAfter, rFlags, rOpen, rEncoder, rRegistered, rSending>>
      BY Zenon DEF pcm!JoinSap, pcm!Join, pcm!mediaVars, opus!JoinSap, opus!Join, opus!mediaVars
  <1> QED
      BY <1>1 DEF RInv, RTypes, RThreads, RUp, RClosing, ROpus

LEMMA RClosesRest ==
  ASSUME RInv, kind' = kind,
         \/ kind = "pcm" /\ pcm!CloseRest
         \/ kind = "opus" /\ opus!CloseRest
  PROVE  RInv'
  <1>1. /\ rPc = "sockets" /\ rPc' = rAfter
        /\ rOpen' = {} /\ rEncoder' = FALSE /\ rRegistered' = FALSE
        /\ UNCHANGED <<rAfter, rFlags, rThread, rSending>>
      BY Zenon DEF pcm!CloseRest, pcm!threadVars, opus!CloseRest, opus!threadVars
  <1> QED
      BY <1>1 DEF RInv, RTypes, RThreads, RUp, RClosing, ROpus

(* A thread goes on with its socket until it ends.                           *)
LEMMA RMoves ==
  ASSUME RInv, kind' = kind,
         \/ kind = "pcm" /\ pcm!Threading
         \/ kind = "opus" /\ opus!Threading
  PROVE  RInv'
  <1>1. /\ \E t \in {"sap", "rtcp"}, to \in {"done", "send", "report", "receive", "wait", "loop"} :
             rThread[t] \notin {"none", "done"} /\ rThread' = [rThread EXCEPT ![t] = to]
        /\ UNCHANGED <<rPc, rAfter, rFlags, rOpen, rEncoder, rRegistered, rSending>>
    <2>1. CASE kind = "pcm" /\ pcm!Threading
        BY <2>1 DEF pcm!Threading, pcm!SapLoop, pcm!Announce, pcm!SapWait, pcm!RtcpLoop,
           pcm!SendReport, pcm!Receive, pcm!Move, pcm!ownerVars, pcm!mediaVars
    <2>2. CASE kind = "opus" /\ opus!Threading
        BY <2>2 DEF opus!Threading, opus!SapLoop, opus!Announce, opus!SapWait, opus!RtcpLoop,
           opus!SendReport, opus!Receive, opus!Move, opus!ownerVars, opus!mediaVars
    <2> QED
        BY <2>1, <2>2
  <1>2. PICK t \in {"sap", "rtcp"}, to \in {"done", "send", "report", "receive", "wait", "loop"} :
          rThread[t] \notin {"none", "done"} /\ rThread' = [rThread EXCEPT ![t] = to]
      BY <1>1
  <1>3. /\ rThread'[t] # "none" /\ \A u \in {"sap", "rtcp"} \ {t} : rThread'[u] = rThread[u]
        /\ rThread' \in [{"sap", "rtcp"} -> {"none", "done", "send", "report", "receive", "wait", "loop"}]
      BY <1>2 DEF RInv, RTypes
  <1>4. /\ \A u \in {"sap", "rtcp"} : rThread'[u] = "none" <=> rThread[u] = "none"
        /\ \A u \in {"sap", "rtcp"} : rThread'[u] \notin {"none", "done"} => rThread[u] \notin {"none", "done"}
      BY <1>2, <1>3
  <1> QED
      BY <1>1, <1>3, <1>4 DEF RInv, RTypes, RThreads, RUp, RClosing, ROpus

(* A payload is sent while the sender is set up.                             *)
LEMMA RSends ==
  ASSUME RInv, kind' = kind,
         \/ kind = "pcm" /\ pcm!SendPacket
         \/ kind = "opus" /\ opus!SendPacket
         \/ kind = "pcm" /\ pcm!SendFails
         \/ kind = "opus" /\ opus!SendFails
         \/ kind = "pcm" /\ pcm!EncodingFails
         \/ kind = "opus" /\ opus!EncodingFails
         \/ kind = "pcm" /\ pcm!PayloadDone
         \/ kind = "opus" /\ opus!PayloadDone
         \/ UNCHANGED rtpVars
         \/ \E n \in RtpSizes : \/ kind = "pcm" /\ pcm!SendPayload(n)
                                \/ kind = "opus" /\ opus!SendPayload(n)
  PROVE  RInv'
  <1>1. /\ rSending' => rSending \/ rPc = "up"
        /\ UNCHANGED <<rPc, rAfter, rFlags, rThread, rOpen, rEncoder, rRegistered>>
    <2>1. CASE \E n \in RtpSizes : \/ kind = "pcm" /\ pcm!SendPayload(n)
                                   \/ kind = "opus" /\ opus!SendPayload(n)
        BY <2>1, Zenon DEF pcm!SendPayload, pcm!ownerVars, pcm!threadVars, opus!SendPayload, opus!ownerVars,
           opus!threadVars
    <2>2. CASE pcm!SendPacket \/ pcm!SendFails \/ pcm!EncodingFails \/ pcm!PayloadDone
        BY <2>2 DEF pcm!SendPacket, pcm!SendFails, pcm!EncodingFails, pcm!PayloadDone, pcm!ownerVars,
           pcm!threadVars
    <2>3. CASE opus!SendPacket \/ opus!SendFails \/ opus!EncodingFails \/ opus!PayloadDone
        BY <2>3 DEF opus!SendPacket, opus!SendFails, opus!EncodingFails, opus!PayloadDone,
           opus!ownerVars, opus!threadVars
    <2>4. CASE UNCHANGED rtpVars
        BY <2>4 DEF rtpVars
    <2> QED
        BY <2>1, <2>2, <2>3, <2>4
  <1> QED
      BY <1>1 DEF RInv, RTypes, RThreads, RUp, RClosing, ROpus

LEMMA RStep ==
  ASSUME RInv, kind' = kind,
         \/ kind = "pcm" /\ pcm!Next
         \/ kind = "opus" /\ opus!Next
         \/ UNCHANGED rtpVars
  PROVE  RInv'
  BY RSetsUp, RSetsUpCore, RSetsUpPipeline, RSetsUpSap, RSetsUpRtcp, RCloses, RStopsRtcp, RStopsSap,
     RJoinsRtcp, RJoinsSap, RClosesRest, RMoves, RSends, Zenon
     DEF pcm!Next, pcm!Closing, opus!Next, opus!Closing

(* rtp_sender.cpp:444-491: whatever fails to open and whenever close() is    *)
(* called, a thread that runs has its socket, a closed sender has left       *)
(* nothing behind, and one that sends is registered and has its encoder.     *)
THEOREM ThreadsHaveSockets == AllSpec => []SocketsOutliveThreads
  <1>1. RInv /\ [AllNext]_allVars => RInv'
      BY Apart, RStep
  <1>2. RInv => SocketsOutliveThreads
    <2> SUFFICES ASSUME RInv PROVE SocketsOutliveThreads
        OBVIOUS
    <2>1. /\ \A t \in {"sap", "rtcp"} : rThread[t] \in {"send", "report", "receive", "wait", "loop"} => t \in rOpen
          /\ rPc = "closed" => /\ rOpen = {} /\ (\A t \in {"sap", "rtcp"} : rThread[t] = "none")
                               /\ ~rRegistered /\ ~rEncoder /\ rFlags = {}
          /\ rSending => rRegistered /\ "core" \in rOpen /\ rEncoder = ROpus
        BY DEF RInv, RTypes, RThreads, RUp, RClosing
    <2>2. ASSUME kind = "pcm" PROVE pcm!SocketsOutliveThreads
      <3>1. ROpus = FALSE
          BY <2>2 DEF ROpus
      <3> QED
          BY <2>1, <3>1 DEF pcm!SocketsOutliveThreads, pcm!StillActive, pcm!Using, pcm!Threads
    <2>3. ASSUME kind = "opus" PROVE opus!SocketsOutliveThreads
      <3>1. ROpus = TRUE
          BY <2>3 DEF ROpus
      <3> QED
          BY <2>1, <3>1 DEF opus!SocketsOutliveThreads, opus!StillActive, opus!Using, opus!Threads
    <2> QED
        BY <2>2, <2>3 DEF SocketsOutliveThreads
  <1> QED
      BY <1>1, <1>2, RBegins, PTL DEF AllSpec

(* The packets of a sender are numbered and timed one after the other: each  *)
(* pair as LossIsSeen has it, and the last one against the packet that is to *)
(* come, whose session has sent nothing while it is still being set up.      *)
RPacket == [seq : Nat, ts : Nat, at : Nat, frames : Nat, session : Nat]
RAt     == rGiven - rWaiting
RFresh  == rPc \in RUp \ {"up"} \/ (rAfter = "core" /\ rPc \in RClosing)

RFollows(p, q) ==
  /\ p.seq < q.seq
  /\ p.ts + p.frames <= q.ts
  /\ q.ts - p.ts <= q.at - p.at
  /\ ~ROpus /\ p.session = q.session /\ p.at + p.frames < q.at => p.seq + 1 < q.seq

RMedia ==
  /\ rGiven \in Nat /\ rWaiting \in 0..rGiven /\ rSeq \in Nat /\ rTs \in Nat /\ rSetups \in Nat
  /\ rWire \in Seq(RPacket)
  /\ ~ROpus /\ ~rSending => rWaiting = 0

RNumbered ==
  /\ \A i \in 2..Len(rWire) : RFollows(rWire[i - 1], rWire[i])
  /\ rWire # <<>> =>
       LET p == rWire[Len(rWire)] IN
       /\ p.seq < rSeq /\ p.ts + p.frames <= rTs /\ rTs - p.ts <= RAt - p.at
       /\ p.session <= rSetups /\ (RFresh => p.session < rSetups)
       /\ rPc = "up" /\ ~ROpus /\ p.session = rSetups /\ p.at + p.frames < RAt => p.seq + 1 < rSeq

RLoss == RMedia /\ RNumbered

LEMMA RLossBegins == AllInit => RLoss
  <1> SUFFICES ASSUME AllInit PROVE RLoss
      OBVIOUS
  <1>1. /\ rGiven = 0 /\ rWaiting = 0 /\ rSeq = 0 /\ rTs = 0 /\ rSetups = 0 /\ rWire = <<>>
      BY Zenon DEF AllInit, pcm!Init
  <1> QED
      BY <1>1 DEF RLoss, RMedia, RNumbered

(* A step that sends nothing: a session that comes up has sent nothing yet.  *)
RQuiet ==
  /\ UNCHANGED <<kind, rGiven, rSeq, rTs, rWire, rSending>>
  /\ rWaiting' = rWaiting \/ (rWaiting' = 0 /\ rPc' # "up")
  /\ \/ rSetups' = rSetups /\ (rPc' = "up" => RFresh \/ rPc = "up") /\ (RFresh' => RFresh)
     \/ rSetups' = rSetups + 1

LEMMA RLossQuiet == ASSUME RLoss, RQuiet PROVE RLoss'
  <1> USE DEF RLoss, RQuiet
  <1>1. ROpus' = ROpus /\ rSetups' \in Nat /\ rSetups <= rSetups'
      BY DEF ROpus, RMedia
  <1>2. RMedia'
      BY <1>1 DEF RMedia
  <1>3. RAt \in Nat /\ RAt' \in Nat /\ RAt <= RAt' /\ (rPc' = "up" => RAt' = RAt)
      BY DEF RAt, RMedia
  <1>4. \A i \in 2..Len(rWire) : RFollows(rWire[i - 1], rWire[i])'
      BY <1>1 DEF RNumbered, RFollows
  <1>5. ASSUME rWire # <<>>
        PROVE  LET p == rWire[Len(rWire)] IN
               /\ p.seq < rSeq /\ p.ts + p.frames <= rTs /\ rTs - p.ts <= RAt' - p.at
               /\ p.session <= rSetups' /\ (RFresh' => p.session < rSetups')
               /\ rPc' = "up" /\ ~ROpus /\ p.session = rSetups' /\ p.at + p.frames < RAt' => p.seq + 1 < rSeq
    <2> DEFINE p == rWire[Len(rWire)]
    <2>1. p \in RPacket
        BY <1>5 DEF RMedia
    <2>2. /\ p.seq < rSeq /\ p.ts + p.frames <= rTs /\ rTs - p.ts <= RAt - p.at
          /\ p.session <= rSetups /\ (RFresh => p.session < rSetups)
          /\ rPc = "up" /\ ~ROpus /\ p.session = rSetups /\ p.at + p.frames < RAt => p.seq + 1 < rSeq
        BY <1>5 DEF RNumbered
    <2>3. p.session \in Nat /\ p.at \in Nat /\ p.ts \in Nat /\ rTs \in Nat /\ rSetups \in Nat
        BY <2>1 DEF RPacket, RMedia
    <2> HIDE DEF p
    <2>4. rTs - p.ts <= RAt' - p.at
        BY <1>3, <2>2, <2>3
    <2>5. p.session <= rSetups' /\ (RFresh' => p.session < rSetups')
        BY <1>1, <2>2, <2>3
    <2>6. rPc' = "up" /\ p.session = rSetups' => rPc = "up" /\ rSetups' = rSetups
        BY <1>1, <2>2, <2>3
    <2> QED
        BY <1>3, <2>2, <2>4, <2>5, <2>6 DEF p
  <1> QED
      BY <1>1, <1>2, <1>4, <1>5 DEF RNumbered

(* Only send_payload sends.                                                  *)
LEMMA RSetsUpQuietly ==
  ASSUME RInv, kind' = kind,
         \/ kind = "pcm" /\ pcm!BeginSetup
         \/ kind = "opus" /\ opus!BeginSetup
         \/ kind = "pcm" /\ pcm!SetupCore
         \/ kind = "opus" /\ opus!SetupCore
         \/ kind = "pcm" /\ pcm!InitializePipeline
         \/ kind = "opus" /\ opus!InitializePipeline
         \/ kind = "pcm" /\ pcm!SetupSap
         \/ kind = "opus" /\ opus!SetupSap
         \/ kind = "pcm" /\ pcm!SetupRtcp
         \/ kind = "opus" /\ opus!SetupRtcp
  PROVE  RQuiet
  <1> USE DEF RQuiet, RFresh, RUp, RClosing
  <1>1. CASE pcm!BeginSetup
      BY <1>1 DEF pcm!BeginSetup, pcm!mediaVars
  <1>2. CASE pcm!SetupCore
      BY <1>2 DEF pcm!SetupCore, pcm!mediaVars
  <1>3. CASE pcm!InitializePipeline
      BY <1>3 DEF pcm!InitializePipeline, pcm!mediaVars
  <1>4. CASE pcm!SetupSap
      BY <1>4 DEF pcm!SetupSap, pcm!mediaVars
  <1>5. CASE pcm!SetupRtcp
      BY <1>5 DEF pcm!SetupRtcp, pcm!mediaVars
  <1>6. CASE opus!BeginSetup
      BY <1>6 DEF opus!BeginSetup, opus!mediaVars
  <1>7. CASE opus!SetupCore
      BY <1>7 DEF opus!SetupCore, opus!mediaVars
  <1>8. CASE opus!InitializePipeline
      BY <1>8 DEF opus!InitializePipeline, opus!mediaVars
  <1>9. CASE opus!SetupSap
      BY <1>9 DEF opus!SetupSap, opus!mediaVars
  <1>10. CASE opus!SetupRtcp
      BY <1>10 DEF opus!SetupRtcp, opus!mediaVars
  <1> QED
      BY <1>1, <1>2, <1>3, <1>4, <1>5, <1>6, <1>7, <1>8, <1>9, <1>10

LEMMA RClosesQuietly ==
  ASSUME RInv, kind' = kind,
         \/ kind = "pcm" /\ pcm!Close
         \/ kind = "opus" /\ opus!Close
         \/ kind = "pcm" /\ pcm!Closing
         \/ kind = "opus" /\ opus!Closing
         \/ kind = "pcm" /\ pcm!Threading
         \/ kind = "opus" /\ opus!Threading
         \/ UNCHANGED rtpVars
  PROVE  RQuiet
  <1> USE DEF RQuiet, RFresh, RUp, RClosing, RInv, RTypes
  <1>1. CASE pcm!Close
      BY <1>1 DEF pcm!Close, pcm!mediaVars
  <1>2. CASE pcm!StopRtcp
      BY <1>2 DEF pcm!StopRtcp, pcm!StopThread, pcm!mediaVars
  <1>3. CASE pcm!StopSap
      BY <1>3 DEF pcm!StopSap, pcm!StopThread, pcm!mediaVars
  <1>4. CASE pcm!JoinRtcp
      BY <1>4 DEF pcm!JoinRtcp, pcm!Join, pcm!mediaVars
  <1>5. CASE pcm!JoinSap
      BY <1>5 DEF pcm!JoinSap, pcm!Join, pcm!mediaVars
  <1>6. CASE pcm!CloseRest
      BY <1>6 DEF pcm!CloseRest, pcm!mediaVars
  <1>7. CASE pcm!Threading
      BY <1>7 DEF pcm!Threading, pcm!SapLoop, pcm!Announce, pcm!SapWait, pcm!RtcpLoop,
           pcm!SendReport, pcm!Receive, pcm!Move, pcm!ownerVars, pcm!mediaVars
  <1>8. CASE opus!Close
      BY <1>8 DEF opus!Close, opus!mediaVars
  <1>9. CASE opus!StopRtcp
      BY <1>9 DEF opus!StopRtcp, opus!StopThread, opus!mediaVars
  <1>10. CASE opus!StopSap
      BY <1>10 DEF opus!StopSap, opus!StopThread, opus!mediaVars
  <1>11. CASE opus!JoinRtcp
      BY <1>11 DEF opus!JoinRtcp, opus!Join, opus!mediaVars
  <1>12. CASE opus!JoinSap
      BY <1>12 DEF opus!JoinSap, opus!Join, opus!mediaVars
  <1>13. CASE opus!CloseRest
      BY <1>13 DEF opus!CloseRest, opus!mediaVars
  <1>14. CASE opus!Threading
      BY <1>14 DEF opus!Threading, opus!SapLoop, opus!Announce, opus!SapWait, opus!RtcpLoop,
           opus!SendReport, opus!Receive, opus!Move, opus!ownerVars, opus!mediaVars
  <1>15. CASE UNCHANGED rtpVars
      BY <1>15 DEF rtpVars
  <1> QED
      BY <1>1, <1>2, <1>3, <1>4, <1>5, <1>6, <1>7, <1>8,
         <1>9, <1>10, <1>11, <1>12, <1>13, <1>14, <1>15 DEF pcm!Closing, opus!Closing

LEMMA Remains == ASSUME NEW m \in Nat, NEW n \in 0..m PROVE m - n \in Nat
  OBVIOUS

(* Time passes, be it with a number spent or, for Opus, without.             *)
LEMMA RLossSkips ==
  ASSUME RLoss, RMedia', UNCHANGED <<kind, rPc, rAfter, rSetups, rWire>>,
         rSeq <= rSeq', rTs' - rTs <= RAt' - RAt, rTs <= rTs',
         ROpus \/ RAt' = RAt \/ rSeq' = rSeq + 1
  PROVE  RLoss'
  <1> USE DEF RLoss
  <1>1. ROpus' = ROpus /\ RFresh' = RFresh
      BY DEF ROpus, RFresh
  <1>2. RAt \in Nat /\ RAt' \in Nat /\ {rTs, rTs', rSeq, rSeq'} \subseteq Nat
    <2>1. /\ rGiven \in Nat /\ rWaiting \in 0..rGiven /\ rSeq \in Nat /\ rTs \in Nat
          /\ rGiven' \in Nat /\ rWaiting' \in 0..rGiven' /\ rSeq' \in Nat /\ rTs' \in Nat
        BY DEF RMedia
    <2>2. rGiven - rWaiting \in Nat /\ rGiven' - rWaiting' \in Nat
        BY <2>1, Remains, Zenon
    <2> QED
        BY <2>1, <2>2, Zenon DEF RAt
  <1>3. \A i \in 2..Len(rWire) : RFollows(rWire[i - 1], rWire[i])'
      BY <1>1 DEF RNumbered, RFollows
  <1>4. ASSUME rWire # <<>>
        PROVE  LET p == rWire[Len(rWire)] IN
               /\ p.seq < rSeq' /\ p.ts + p.frames <= rTs' /\ rTs' - p.ts <= RAt' - p.at
               /\ p.session <= rSetups /\ (RFresh => p.session < rSetups)
               /\ rPc = "up" /\ ~ROpus /\ p.session = rSetups /\ p.at + p.frames < RAt' => p.seq + 1 < rSeq'
    <2> DEFINE p == rWire[Len(rWire)]
    <2>1. p \in RPacket
        BY <1>4 DEF RMedia
    <2>2. /\ p.seq < rSeq /\ p.ts + p.frames <= rTs /\ rTs - p.ts <= RAt - p.at
          /\ p.session <= rSetups /\ (RFresh => p.session < rSetups)
          /\ rPc = "up" /\ ~ROpus /\ p.session = rSetups /\ p.at + p.frames < RAt => p.seq + 1 < rSeq
        BY <1>4 DEF RNumbered
    <2>3. p.seq \in Nat /\ p.at \in Nat /\ p.ts \in Nat /\ p.frames \in Nat
        BY <2>1 DEF RPacket
    <2> HIDE DEF p
    <2>4. p.seq < rSeq' /\ p.ts + p.frames <= rTs' /\ rTs' - p.ts <= RAt' - p.at
        BY <1>2, <2>2, <2>3
    <2>5. ~ROpus /\ RAt' # RAt => p.seq + 1 < rSeq'
        BY <1>2, <2>2, <2>3
    <2> QED
        BY <1>2, <2>2, <2>3, <2>4, <2>5 DEF p
  <1> QED
      BY <1>1, <1>3, <1>4 DEF RNumbered

LEMMA RLossSends ==
  ASSUME RLoss, UNCHANGED <<kind, rPc, rAfter, rSetups, rGiven, rSending>>, rPc = "up", rSending,
         NEW n \in Nat, n <= rWaiting, rWaiting' = rWaiting - n,
         rSeq' = rSeq + 1, rTs' = rTs + n,
         rWire' = Append(rWire, [seq |-> rSeq, ts |-> rTs, at |-> rGiven - rWaiting,
                                 frames |-> n, session |-> rSetups])
  PROVE  RLoss'
  <1> USE DEF RLoss
  <1> DEFINE q == [seq |-> rSeq, ts |-> rTs, at |-> RAt, frames |-> n, session |-> rSetups]
  <1>1. ROpus' = ROpus /\ ~RFresh'
      BY DEF ROpus, RFresh, RUp, RClosing
  <1>2. RAt \in Nat /\ RAt' = RAt + n /\ {rTs, rSeq, rSetups} \subseteq Nat
      BY DEF RAt, RMedia
  <1>3. q \in RPacket /\ rWire' = Append(rWire, q)
      BY <1>2 DEF RPacket, RAt
  <1>4. RMedia'
      BY <1>1, <1>3 DEF RMedia
  <1>5. /\ Len(rWire') = Len(rWire) + 1 /\ Len(rWire) \in Nat /\ rWire'[Len(rWire) + 1] = q
        /\ \A i \in 1..Len(rWire) : rWire'[i] = rWire[i]
      BY <1>3 DEF RMedia
  <1>6. rWire # <<>> => RFollows(rWire[Len(rWire)], q)
    <2> SUFFICES ASSUME rWire # <<>> PROVE RFollows(rWire[Len(rWire)], q)
        OBVIOUS
    <2> DEFINE p == rWire[Len(rWire)]
    <2>1. p.seq < rSeq /\ p.ts + p.frames <= rTs /\ rTs - p.ts <= RAt - p.at
        BY DEF RNumbered
    <2>2. ~ROpus /\ p.session = rSetups /\ p.at + p.frames < RAt => p.seq + 1 < rSeq
        BY DEF RNumbered
    <2> HIDE DEF p
    <2>3. RFollows(p, q)
        BY <2>1, <2>2 DEF RFollows
    <2> QED
        BY <2>3 DEF p
  <1>7. \A i \in 2..Len(rWire') : RFollows(rWire'[i - 1], rWire'[i])
    <2> SUFFICES ASSUME NEW i \in 2..Len(rWire') PROVE RFollows(rWire'[i - 1], rWire'[i])
        OBVIOUS
    <2>1. CASE i = Len(rWire) + 1
      <3>1. rWire'[i] = q /\ rWire'[i - 1] = rWire[Len(rWire)] /\ rWire # <<>>
          BY <1>5, <2>1
      <3> QED
          BY <1>6, <3>1
    <2>2. CASE i # Len(rWire) + 1
      <3>1. i \in 2..Len(rWire) /\ rWire'[i] = rWire[i] /\ rWire'[i - 1] = rWire[i - 1]
          BY <1>5, <2>2
      <3> QED
          BY <3>1 DEF RNumbered
    <2> QED
        BY <2>1, <2>2
  <1>8. /\ q.seq < rSeq' /\ q.ts + q.frames <= rTs' /\ rTs' - q.ts <= RAt' - q.at
        /\ q.session <= rSetups /\ ~(q.at + q.frames < RAt')
      BY <1>2
  <1>9. rWire'[Len(rWire')] = q
      BY <1>5
  <1> QED
      BY <1>1, <1>4, <1>7, <1>8, <1>9 DEF RNumbered, RFollows

LEMMA RLossPayload ==
  ASSUME RInv, RLoss, kind' = kind, NEW n \in RtpSizes,
         \/ kind = "pcm" /\ pcm!SendPayload(n)
         \/ kind = "opus" /\ opus!SendPayload(n)
  PROVE  RLoss'
  <1>1. /\ UNCHANGED <<rPc, rAfter, rSetups, rWire, rSeq, rTs>> /\ ~rSending /\ rSending' = TRUE
        /\ rGiven' = rGiven + n
    <2>1. CASE pcm!SendPayload(n)
        BY <2>1, Zenon DEF pcm!SendPayload, pcm!ownerVars
    <2>2. CASE opus!SendPayload(n)
        BY <2>2, Zenon DEF opus!SendPayload, opus!ownerVars
    <2> QED
        BY <2>1, <2>2
  <1>2. rWaiting' = IF ROpus THEN rWaiting + n ELSE n
      BY DEF ROpus, pcm!SendPayload, opus!SendPayload
  <1>3. n \in Nat
      BY SenderConstants
  <1>4. ROpus' = ROpus /\ rWaiting' \in 0..rGiven'
      BY <1>1, <1>2, <1>3 DEF ROpus, RLoss, RMedia
  <1>5. RAt' = RAt /\ RMedia'
      BY <1>1, <1>2, <1>3, <1>4 DEF RAt, RLoss, RMedia
  <1>6. RAt \in Nat /\ rSeq \in Nat /\ rTs \in Nat
      BY DEF RAt, RLoss, RMedia
  <1> QED
      BY <1>1, <1>5, <1>6, RLossSkips

LEMMA RLossPacket ==
  ASSUME RInv, RLoss, kind' = kind,
         \/ kind = "pcm" /\ pcm!SendPacket
         \/ kind = "opus" /\ opus!SendPacket
  PROVE  RLoss'
  <1>1. /\ rPc = "up" /\ rSending /\ UNCHANGED <<rPc, rAfter, rSetups, rGiven, rSending>>
        /\ \E n \in Nat :
             /\ n <= rWaiting /\ rWaiting' = rWaiting - n /\ rSeq' = rSeq + 1 /\ rTs' = rTs + n
             /\ rWire' = Append(rWire, [seq |-> rSeq, ts |-> rTs, at |-> rGiven - rWaiting,
                                        frames |-> n, session |-> rSetups])
    <2>1. {RtpFrame, RtpSlice, rWaiting} \subseteq Nat
        BY SenderConstants DEF RLoss, RMedia
    <2>2. CASE pcm!SendPacket
      <3>1. pcm!PacketFrames \in Nat /\ pcm!PacketFrames <= rWaiting
          BY <2>1 DEF pcm!PacketFrames
      <3> QED
          BY <2>2, <3>1, Zenon DEF pcm!SendPacket, pcm!Emit, pcm!ownerVars, RInv, RThreads
    <2>3. CASE opus!SendPacket
      <3>1. opus!PacketFrames \in Nat /\ opus!PacketFrames <= rWaiting
          BY <2>1, <2>3 DEF opus!PacketFrames, opus!SendPacket, opus!Enough
      <3> QED
          BY <2>3, <3>1, Zenon DEF opus!SendPacket, opus!Emit, opus!ownerVars, RInv, RThreads
    <2> QED
        BY <2>2, <2>3
  <1>2. PICK n \in Nat :
             /\ n <= rWaiting /\ rWaiting' = rWaiting - n /\ rSeq' = rSeq + 1 /\ rTs' = rTs + n
             /\ rWire' = Append(rWire, [seq |-> rSeq, ts |-> rTs, at |-> rGiven - rWaiting,
                                        frames |-> n, session |-> rSetups])
      BY <1>1
  <1> QED
      BY <1>1, <1>2, RLossSends, Zenon

LEMMA RLossOther ==
  ASSUME RInv, RLoss, kind' = kind,
         \/ kind = "pcm" /\ pcm!SendFails
         \/ kind = "opus" /\ opus!SendFails
         \/ kind = "pcm" /\ pcm!EncodingFails
         \/ kind = "opus" /\ opus!EncodingFails
         \/ kind = "pcm" /\ pcm!PayloadDone
         \/ kind = "opus" /\ opus!PayloadDone
  PROVE  RLoss'
  <1> USE DEF RLoss
  <1>0. {RtpFrame, rGiven, rWaiting, rSeq, rTs} \subseteq Nat /\ rWaiting <= rGiven
      BY SenderConstants DEF RMedia
  <1>1. /\ UNCHANGED <<rPc, rAfter, rSetups, rGiven, rWire>>
        /\ \/ /\ UNCHANGED <<rWaiting, rSeq, rTs>> /\ rSending' = FALSE /\ (ROpus \/ rWaiting = 0)
           \/ /\ ROpus /\ RtpFrame <= rWaiting /\ rWaiting' = rWaiting - RtpFrame
              /\ rSeq' \in {rSeq, rSeq + 1} /\ rTs' \in {rTs, rTs + RtpFrame} /\ UNCHANGED rSending
           \/ rWaiting' = 0 /\ rSeq' = rSeq + 1 /\ UNCHANGED rTs
    <2> USE DEF ROpus
    <2>1. CASE pcm!SendFails
        BY <2>1 DEF pcm!SendFails, pcm!ownerVars
    <2>2. CASE kind = "opus" /\ opus!SendFails
        BY <2>2 DEF opus!SendFails, opus!Enough, opus!ownerVars
    <2>3. CASE kind = "opus" /\ opus!EncodingFails
        BY <2>3 DEF opus!EncodingFails, opus!Enough, opus!ownerVars
    <2>4. CASE pcm!PayloadDone
      <3>1. ~(rWaiting > 0)
          BY <2>4, Zenon DEF pcm!PayloadDone, pcm!Enough
      <3>2. rWaiting = 0
          BY <1>0, <3>1
      <3> QED
          BY <3>2, <2>4 DEF pcm!PayloadDone, pcm!ownerVars
    <2>5. CASE kind = "opus" /\ opus!PayloadDone
        BY <2>5 DEF opus!PayloadDone, opus!ownerVars
    <2>6. ~pcm!EncodingFails
        BY DEF pcm!EncodingFails
    <2> QED
        BY <2>1, <2>2, <2>3, <2>4, <2>5, <2>6, Zenon
  <1>2. RMedia'
    <2>1. ROpus' = ROpus
        BY DEF ROpus
    <2>2. rWaiting' \in 0..rGiven /\ rSeq' \in Nat /\ rTs' \in Nat
        BY <1>0, <1>1
    <2>3. ~ROpus /\ ~rSending' => rWaiting' = 0
        BY <1>1
    <2> QED
        BY <1>1, <2>1, <2>2, <2>3 DEF RMedia
  <1>3. /\ rSeq <= rSeq' /\ rTs' - rTs <= RAt' - RAt /\ rTs <= rTs'
        /\ ROpus \/ RAt' = RAt \/ rSeq' = rSeq + 1
      BY <1>0, <1>1 DEF RAt
  <1> QED
      BY <1>1, <1>2, <1>3, RLossSkips

LEMMA RLossStep ==
  ASSUME RInv, RLoss, kind' = kind,
         \/ kind = "pcm" /\ pcm!Next
         \/ kind = "opus" /\ opus!Next
         \/ UNCHANGED rtpVars
  PROVE  RLoss'
  BY RSetsUpQuietly, RClosesQuietly, RLossQuiet, RLossPayload, RLossPacket, RLossOther, Zenon
     DEF pcm!Next, opus!Next

(* rtp_sender.cpp:504-575, rtp_opus_sender.cpp:350-352: whatever a sender    *)
(* fails to send, over any number of sessions, no two packets claim the same *)
(* media time, none claims more of it than audio was given, and what is      *)
(* missing between two packets of a session shows in their numbers.          *)
THEOREM LossShows == AllSpec => []LossIsSeen
  <1>1. RInv /\ RLoss /\ [AllNext]_allVars => RInv' /\ RLoss'
      BY Apart, RStep, RLossStep
  <1>2. RLoss => LossIsSeen
    <2> SUFFICES ASSUME RLoss PROVE LossIsSeen
        OBVIOUS
    <2>1. \A i \in 2..Len(rWire) : RFollows(rWire[i - 1], rWire[i])
        BY DEF RLoss, RNumbered
    <2>2. kind = "pcm" => pcm!LossIsSeen
        BY <2>1 DEF pcm!LossIsSeen, RFollows, ROpus
    <2>3. kind = "opus" => opus!LossIsSeen
        BY <2>1 DEF opus!LossIsSeen, RFollows, ROpus
    <2> QED
        BY <2>2, <2>3 DEF LossIsSeen
  <1> QED
      BY <1>1, <1>2, RBegins, RLossBegins, PTL DEF AllSpec

-----------------------------------------------------------------------------
(* MultiRtpSender, its two instances at once.  Every packet that was sent is *)
(* over, or it is the one at hand that the receivers still take turns for.   *)
MPacket == [ts : Nat, at : Nat, frames : Nat]
MAt     == nGiven - nWaiting
MEnough == IF kind = "multiOpus" THEN nWaiting >= MultiPacket ELSE nWaiting > 0
MFrames == IF nWaiting < MultiPacket THEN nWaiting ELSE MultiPacket
MHand   == [ts |-> nTs, at |-> MAt, frames |-> MFrames]

MOver(p) == p.frames > 0 /\ p.ts + p.frames <= nTs /\ p.at + p.frames <= MAt

MTypes ==
  /\ nGiven \in Nat /\ nWaiting \in 0..nGiven /\ nTs \in Nat
  /\ nWire \in [MultiReceivers -> Seq(MPacket)]
  /\ nSending => nPc = "up"

MInTurn ==
  \A r \in MultiReceivers : \A i \in DOMAIN nWire[r] :
    MOver(nWire[r][i]) \/ (nSending /\ MEnough /\ nWire[r][i] = MHand)

MAgree(p, q) ==
  /\ p.ts = q.ts => p.at = q.at /\ p.frames = q.frames
  /\ p.ts < q.ts => p.at + p.frames <= q.at

MLock ==
  \A r, s \in MultiReceivers : \A i \in DOMAIN nWire[r], j \in DOMAIN nWire[s] :
    MAgree(nWire[r][i], nWire[s][j])

MInv == MTypes /\ MInTurn /\ MLock

LEMMA MBegins == AllInit => MInv
  <1> SUFFICES ASSUME AllInit PROVE MInv
      OBVIOUS
  <1>1. /\ nPc = "closed" /\ nGiven = 0 /\ nWaiting = 0 /\ nTs = MultiStart /\ nSending = FALSE
        /\ nWire = [r \in MultiReceivers |-> <<>>] /\ MultiStart \in Nat
      BY SenderConstants, Zenon DEF AllInit, multiPcm!Init
  <1>2. MTypes
      BY <1>1 DEF MTypes
  <1> QED
      BY <1>1, <1>2 DEF MInv, MInTurn, MLock

(* The time of the audio and the packet at hand as numbers.                  *)
LEMMA MNumbers ==
  ASSUME MTypes
  PROVE  /\ MAt \in Nat /\ MFrames \in 0..nWaiting /\ MHand \in MPacket /\ MultiPacket \in Nat \ {0}
         /\ MEnough => MFrames \in Nat \ {0}
  <1>1. MultiPacket \in Nat \ {0} /\ nWaiting \in Nat /\ nGiven \in Nat /\ nTs \in Nat
      BY SenderConstants DEF MTypes
  <1>2. MAt \in Nat
      BY <1>1 DEF MTypes, MAt
  <1>3. MFrames \in 0..nWaiting
      BY <1>1 DEF MFrames
  <1>4. MEnough => MFrames \in Nat \ {0}
      BY <1>1 DEF MFrames, MEnough
  <1> QED
      BY <1>1, <1>2, <1>3, <1>4 DEF MHand, MPacket

(* Nothing is sent, and nothing is at hand that goes.                        *)
LEMMA MQuiet ==
  ASSUME MInv, UNCHANGED <<kind, nTs, nWire>>, nGiven' \in Nat, nWaiting' \in 0..nGiven',
         nGiven - nWaiting <= nGiven' - nWaiting', nSending' => nPc' = "up",
         \/ ~nSending \/ ~MEnough
         \/ nSending' = nSending /\ nWaiting' = nWaiting /\ nGiven' = nGiven
  PROVE  MInv'
  <1>1. MTypes'
      BY DEF MInv, MTypes
  <1>2. MAt \in Nat /\ MAt' \in Nat /\ MAt <= MAt'
    <2>1. nGiven - nWaiting \in Nat /\ nGiven' - nWaiting' \in Nat
        BY Remains, Zenon DEF MInv, MTypes
    <2> QED
        BY <2>1 DEF MAt
  <1>3. ASSUME NEW r \in MultiReceivers, NEW i \in DOMAIN nWire[r]
        PROVE  MOver(nWire[r][i])' \/ (nSending /\ MEnough /\ nWire[r][i] = MHand)'
    <2>1. nWire[r][i] \in MPacket
        BY DEF MInv, MTypes
    <2>2. CASE MOver(nWire[r][i])
        BY <1>2, <2>1, <2>2 DEF MOver, MPacket
    <2>3. CASE nSending /\ MEnough /\ nWire[r][i] = MHand
        BY <2>3 DEF MEnough, MHand, MAt, MFrames
    <2> QED
        BY <2>2, <2>3 DEF MInv, MInTurn
  <1> QED
      BY <1>1, <1>3 DEF MInv, MInTurn, MLock

LEMMA MOther ==
  ASSUME MInv, kind' = kind,
         \/ kind = "multiPcm" /\ multiPcm!SetupReceivers
         \/ kind = "multiOpus" /\ multiOpus!SetupReceivers
         \/ kind = "multiPcm" /\ multiPcm!SetupEncoders
         \/ kind = "multiOpus" /\ multiOpus!SetupEncoders
         \/ kind = "multiPcm" /\ multiPcm!AddStreams
         \/ kind = "multiOpus" /\ multiOpus!AddStreams
         \/ kind = "multiPcm" /\ multiPcm!StartController
         \/ kind = "multiOpus" /\ multiOpus!StartController
         \/ kind = "multiPcm" /\ multiPcm!BeginClose
         \/ kind = "multiOpus" /\ multiOpus!BeginClose
         \/ kind = "multiPcm" /\ multiPcm!JoinThread
         \/ kind = "multiOpus" /\ multiOpus!JoinThread
         \/ kind = "multiPcm" /\ multiPcm!DestroyReceivers
         \/ kind = "multiOpus" /\ multiOpus!DestroyReceivers
         \/ kind = "multiPcm" /\ multiPcm!RtcpLoop
         \/ kind = "multiOpus" /\ multiOpus!RtcpLoop
         \/ kind = "multiPcm" /\ multiPcm!ReportsSent
         \/ kind = "multiOpus" /\ multiOpus!ReportsSent
         \/ \E r \in MultiReceivers : multiPcm!SendReport(r) \/ multiOpus!SendReport(r)
         \/ UNCHANGED multiVars
  PROVE  MInv'
  <1>1. /\ UNCHANGED <<nTs, nWire, nGiven, nSending>> /\ (nSending => UNCHANGED nPc)
        /\ nWaiting' = nWaiting \/ (nWaiting' = 0 /\ ~nSending)
    <2> USE DEF MInv, MTypes
    <2>1. CASE multiPcm!SetupReceivers
        BY <2>1 DEF multiPcm!SetupReceivers, multiPcm!media
    <2>2. CASE multiPcm!SetupEncoders
        BY <2>2 DEF multiPcm!SetupEncoders, multiPcm!media
    <2>3. CASE multiPcm!AddStreams
        BY <2>3 DEF multiPcm!AddStreams, multiPcm!media
    <2>4. CASE multiPcm!StartController
        BY <2>4 DEF multiPcm!StartController, multiPcm!media
    <2>5. CASE multiPcm!BeginClose
        BY <2>5 DEF multiPcm!BeginClose, multiPcm!media
    <2>6. CASE multiPcm!JoinThread
        BY <2>6 DEF multiPcm!JoinThread, multiPcm!media
    <2>7. CASE multiPcm!DestroyReceivers
        BY <2>7 DEF multiPcm!DestroyReceivers, multiPcm!media
    <2>8. CASE multiPcm!RtcpLoop
        BY <2>8 DEF multiPcm!RtcpLoop, multiPcm!media
    <2>9. CASE multiPcm!ReportsSent
        BY <2>9 DEF multiPcm!ReportsSent, multiPcm!media
    <2>10. CASE multiOpus!SetupReceivers
        BY <2>10 DEF multiOpus!SetupReceivers, multiOpus!media
    <2>11. CASE multiOpus!SetupEncoders
        BY <2>11 DEF multiOpus!SetupEncoders, multiOpus!media
    <2>12. CASE multiOpus!AddStreams
        BY <2>12 DEF multiOpus!AddStreams, multiOpus!media
    <2>13. CASE multiOpus!StartController
        BY <2>13 DEF multiOpus!StartController, multiOpus!media
    <2>14. CASE multiOpus!BeginClose
        BY <2>14 DEF multiOpus!BeginClose, multiOpus!media
    <2>15. CASE multiOpus!JoinThread
        BY <2>15 DEF multiOpus!JoinThread, multiOpus!media
    <2>16. CASE multiOpus!DestroyReceivers
        BY <2>16 DEF multiOpus!DestroyReceivers, multiOpus!media
    <2>17. CASE multiOpus!RtcpLoop
        BY <2>17 DEF multiOpus!RtcpLoop, multiOpus!media
    <2>18. CASE multiOpus!ReportsSent
        BY <2>18 DEF multiOpus!ReportsSent, multiOpus!media
    <2>19. CASE \E r \in MultiReceivers : multiPcm!SendReport(r) \/ multiOpus!SendReport(r)
        BY <2>19, Zenon DEF multiPcm!SendReport, multiPcm!media, multiOpus!SendReport, multiOpus!media
    <2>20. CASE UNCHANGED multiVars
        BY <2>20 DEF multiVars
    <2> QED
        BY <2>1, <2>2, <2>3, <2>4, <2>5, <2>6, <2>7, <2>8, <2>9, <2>10,
           <2>11, <2>12, <2>13, <2>14, <2>15, <2>16, <2>17, <2>18, <2>19, <2>20
  <1>2. nGiven \in Nat /\ nWaiting \in 0..nGiven /\ (nSending => nPc = "up")
      BY DEF MInv, MTypes
  <1>3. nGiven' \in Nat /\ nWaiting' \in 0..nGiven' /\ nGiven - nWaiting <= nGiven' - nWaiting'
      BY <1>1, <1>2
  <1> QED
      BY <1>1, <1>2, <1>3, MQuiet

LEMMA MPayload ==
  ASSUME MInv, kind' = kind,
         \/ \E n \in MultiSizes : multiPcm!SendPayload(n) \/ multiOpus!SendPayload(n)
         \/ kind = "multiPcm" /\ multiPcm!PayloadDone
         \/ kind = "multiOpus" /\ multiOpus!PayloadDone
  PROVE  MInv'
  <1>0. nGiven \in Nat /\ nWaiting \in 0..nGiven /\ (nSending => nPc = "up")
      BY DEF MInv, MTypes
  <1>1. CASE \E n \in MultiSizes : multiPcm!SendPayload(n) \/ multiOpus!SendPayload(n)
    <2>1. PICK n \in MultiSizes : multiPcm!SendPayload(n) \/ multiOpus!SendPayload(n)
        BY <1>1
    <2>2. /\ nPc = "up" /\ UNCHANGED <<nPc, nTs, nWire>> /\ ~nSending
          /\ nGiven' = nGiven + n /\ nWaiting' = nWaiting + n
        BY <2>1, Zenon DEF multiPcm!SendPayload, multiOpus!SendPayload
    <2>3. n \in Nat
        BY SenderConstants
    <2>4. nGiven' \in Nat /\ nWaiting' \in 0..nGiven' /\ nGiven - nWaiting <= nGiven' - nWaiting'
        BY <1>0, <2>2, <2>3
    <2> QED
        BY <2>2, <2>4, MQuiet
  <1>2. CASE \/ kind = "multiPcm" /\ multiPcm!PayloadDone
             \/ kind = "multiOpus" /\ multiOpus!PayloadDone
    <2>1. UNCHANGED <<nPc, nTs, nWire, nGiven, nWaiting>> /\ nSending' = FALSE /\ ~MEnough
        BY <1>2 DEF MEnough, multiPcm!PayloadDone, multiPcm!Enough, multiOpus!PayloadDone, multiOpus!Enough
    <2>2. nGiven' \in Nat /\ nWaiting' \in 0..nGiven' /\ nGiven - nWaiting <= nGiven' - nWaiting'
        BY <1>0, <2>1
    <2> QED
        BY <2>1, <2>2, MQuiet
  <1> QED
      BY <1>1, <1>2

(* One receiver is sent the packet at hand, or it is lost on the way to it.  *)
LEMMA MTurn ==
  ASSUME MInv, kind' = kind, NEW r \in MultiReceivers,
         \/ kind = "multiPcm" /\ multiPcm!Turn(r)
         \/ kind = "multiOpus" /\ multiOpus!Turn(r)
  PROVE  MInv'
  <1>1. /\ nSending /\ MEnough /\ UNCHANGED <<nPc, nGiven, nWaiting, nSending, nTs>>
        /\ nWire' = [nWire EXCEPT ![r] = Append(@, MHand)] \/ UNCHANGED nWire
    <2>1. CASE kind = "multiPcm" /\ multiPcm!Turn(r)
        BY <2>1 DEF MEnough, MHand, MAt, MFrames, multiPcm!Turn, multiPcm!Enough, multiPcm!Frames, multiPcm!At
    <2>2. CASE kind = "multiOpus" /\ multiOpus!Turn(r)
        BY <2>2 DEF MEnough, MHand, MAt, MFrames, multiOpus!Turn, multiOpus!Enough, multiOpus!Frames, multiOpus!At
    <2> QED
        BY <2>1, <2>2
  <1>2. /\ MHand \in MPacket /\ nGiven \in Nat /\ nWaiting \in 0..nGiven
        /\ MEnough' = MEnough /\ MHand' = MHand /\ \A p \in MPacket : MOver(p)' = MOver(p)
      BY <1>1, MNumbers DEF MInv, MTypes, MEnough, MHand, MAt, MFrames, MOver
  <1>3. CASE UNCHANGED nWire
      BY <1>1, <1>2, <1>3, MQuiet DEF MInv, MTypes
  <1>4. CASE nWire' = [nWire EXCEPT ![r] = Append(@, MHand)]
    <2>1. nWire \in [MultiReceivers -> Seq(MPacket)]
        BY DEF MInv, MTypes
    <2>2. MTypes'
      <3>1. nWire' \in [MultiReceivers -> Seq(MPacket)]
          BY <1>2, <1>4, <2>1
      <3> QED
          BY <1>1, <3>1 DEF MInv, MTypes
    <2>3. ASSUME NEW s \in MultiReceivers, NEW i \in DOMAIN nWire'[s]
          PROVE  nWire'[s][i] = MHand \/ (i \in DOMAIN nWire[s] /\ nWire'[s][i] = nWire[s][i])
      <3>1. CASE s = r
        <4>1. nWire'[s] = Append(nWire[s], MHand) /\ nWire[s] \in Seq(MPacket)
            BY <1>4, <2>1, <3>1
        <4> QED
            BY <4>1
      <3>2. CASE s # r
          BY <1>4, <2>1, <3>2
      <3> QED
          BY <3>1, <3>2
    <2>4. ASSUME NEW s \in MultiReceivers, NEW i \in DOMAIN nWire'[s]
          PROVE  MOver(nWire[s][i])' \/ (nSending /\ MEnough /\ nWire[s][i] = MHand)'
      <3>1. nWire'[s][i] \in MPacket
          BY <2>2 DEF MTypes
      <3>2. MOver(nWire'[s][i]) \/ nWire'[s][i] = MHand
          BY <2>3 DEF MInv, MInTurn
      <3> QED
          BY <1>1, <1>2, <3>1, <3>2
    <2>5. ASSUME NEW p \in MPacket, MOver(p) PROVE MAgree(p, MHand) /\ MAgree(MHand, p)
      <3>1. MAt \in Nat /\ MFrames \in Nat /\ nTs \in Nat
          BY MNumbers DEF MInv, MTypes
      <3> QED
          BY <2>5, <3>1 DEF MOver, MAgree, MHand, MPacket
    <2>6. MAgree(MHand, MHand)
        BY DEF MAgree, MHand, MInv, MTypes
    <2>7. ASSUME NEW s \in MultiReceivers, NEW u \in MultiReceivers,
                 NEW i \in DOMAIN nWire'[s], NEW j \in DOMAIN nWire'[u]
          PROVE  MAgree(nWire'[s][i], nWire'[u][j])
      <3>1. /\ nWire'[s][i] \in MPacket /\ (MOver(nWire'[s][i]) \/ nWire'[s][i] = MHand)
            /\ nWire'[u][j] \in MPacket /\ (MOver(nWire'[u][j]) \/ nWire'[u][j] = MHand)
          BY <2>2, <2>3 DEF MInv, MInTurn, MTypes
      <3>2. CASE nWire'[s][i] = MHand \/ nWire'[u][j] = MHand
          BY <2>5, <2>6, <3>1, <3>2
      <3>3. CASE nWire'[s][i] # MHand /\ nWire'[u][j] # MHand
          BY <2>3, <3>3 DEF MInv, MLock
      <3> QED
          BY <3>2, <3>3
    <2>8. MLock'
        BY <2>7 DEF MLock, MAgree
    <2> QED
        BY <2>2, <2>4, <2>8 DEF MInv, MInTurn
  <1> QED
      BY <1>1, <1>3, <1>4

(* When all had their turn, the clock moves by what the packet held.         *)
LEMMA MNext ==
  ASSUME MInv, kind' = kind,
         \/ kind = "multiPcm" /\ multiPcm!NextSlice
         \/ kind = "multiOpus" /\ multiOpus!NextSlice
  PROVE  MInv'
  <1>1. /\ nSending /\ MEnough /\ UNCHANGED <<nPc, nGiven, nSending, nWire>>
        /\ nWaiting' = nWaiting - MFrames /\ nTs' = nTs + MFrames
    <2>1. CASE kind = "multiPcm" /\ multiPcm!NextSlice
        BY <2>1 DEF MEnough, MFrames, multiPcm!NextSlice, multiPcm!Enough, multiPcm!Frames
    <2>2. CASE kind = "multiOpus" /\ multiOpus!NextSlice
        BY <2>2 DEF MEnough, MFrames, multiOpus!NextSlice, multiOpus!Enough, multiOpus!Frames
    <2> QED
        BY <2>1, <2>2
  <1>2. /\ MAt \in Nat /\ MFrames \in Nat \ {0} /\ MFrames <= nWaiting /\ nTs \in Nat
        /\ nGiven \in Nat /\ nWaiting \in Nat /\ nWaiting <= nGiven
      BY <1>1, MNumbers DEF MInv, MTypes
  <1>3. MTypes' /\ MAt' = MAt + MFrames
      BY <1>1, <1>2 DEF MInv, MTypes, MAt
  <1>4. ASSUME NEW s \in MultiReceivers, NEW i \in DOMAIN nWire[s]
        PROVE  MOver(nWire[s][i])'
    <2>1. nWire[s][i] \in MPacket
        BY DEF MInv, MTypes
    <2>2. CASE MOver(nWire[s][i])
        BY <1>1, <1>2, <1>3, <2>1, <2>2 DEF MOver, MPacket
    <2>3. CASE nWire[s][i] = MHand
        BY <1>1, <1>2, <1>3, <2>3 DEF MOver, MHand
    <2> QED
        BY <2>2, <2>3 DEF MInv, MInTurn
  <1> QED
      BY <1>1, <1>3, <1>4 DEF MInv, MInTurn, MLock

LEMMA MStep ==
  ASSUME MInv, kind' = kind,
         \/ kind = "multiPcm" /\ multiPcm!Next
         \/ kind = "multiOpus" /\ multiOpus!Next
         \/ UNCHANGED multiVars
  PROVE  MInv'
  BY MOther, MPayload, MTurn, MNext, Zenon
     DEF multiPcm!Next, multiPcm!SendSlice, multiPcm!EncodeFrame, multiOpus!Next,
     multiOpus!SendSlice, multiOpus!EncodeFrame

(* multi_device_rtp_sender.cpp:227-275, multi_device_rtp_opus_sender.cpp:    *)
(* 232-279: whatever is lost on the way to one receiver, packets with one    *)
(* timestamp hold the same frames at all of them, and later ones later audio.*)
THEOREM ReceiversInLockstep == AllSpec => []InLockstep
  <1>1. MInv /\ [AllNext]_allVars => MInv'
      BY Apart, MStep
  <1>2. MInv => InLockstep
      BY Zenon DEF MInv, MLock, MAgree, InLockstep, multiPcm!InLockstep
  <1> QED
      BY <1>1, <1>2, MBegins, PTL DEF AllSpec

-----------------------------------------------------------------------------
(* AlsaPlayback, its two instances at once.                                  *)
AWidths == AlsaDepths \cap {16, 24, 32}

(* Once the device was opened its width is one that it accepts, and that of  *)
(* the payloads or noted for the mixer, until the mixer has taken note.      *)
AInv ==
  /\ dPc \in {"off", "idle", "write", "notify"}
  /\ dPc # "off" => /\ dDepth \in AWidths
                    /\ (dNote = 0 /\ dSource = dDepth) \/ (dPc = "notify" /\ dNote = dDepth)

LEMMA ABegins == AllInit => AInv
  BY Zenon DEF AllInit, alsa!Init, AInv

LEMMA AlsaAccepts ==
  ASSUME NEW w, alsa!Takes(w) # {}
  PROVE  alsa!Accepted(w) \in AWidths /\ (w \in AWidths => alsa!Accepted(w) = w)
  <1> DEFINE T == alsa!Takes(w)
             m == alsa!Min(T)
  <1>1. /\ \A i \in T : i \in 1..4 /\ alsa!Candidates(w)[i] \in AWidths
        /\ w \in AWidths => 1 \in T
      BY DEF alsa!Takes, alsa!Candidates, AWidths
  <1>2. \E i \in T : \A j \in T : i <= j
    <2>1. CASE 1 \in T
        BY <1>1, <2>1
    <2>2. CASE 1 \notin T /\ 2 \in T
        BY <1>1, <2>2
    <2>3. CASE 1 \notin T /\ 2 \notin T /\ 3 \in T
        BY <1>1, <2>3
    <2>4. CASE 1 \notin T /\ 2 \notin T /\ 3 \notin T
      <3>1. \A i \in T : i = 4
          BY <1>1, <2>4
      <3> QED
          BY <3>1
    <2> QED
        BY <2>1, <2>2, <2>3, <2>4
  <1>3. m \in T /\ \A j \in T : m <= j
    <2> HIDE DEF T
    <2> QED
        BY <1>2, Zenon DEF alsa!Min
  <1> HIDE DEF m, T
  <1>4. 1 \in T => m = 1
      BY <1>1, <1>3
  <1>5. alsa!Accepted(w) = alsa!Candidates(w)[m] /\ alsa!Candidates(w)[1] = w
      BY DEF alsa!Accepted, alsa!Candidates, m, T
  <1> QED
      BY <1>1, <1>3, <1>4, <1>5

LEMMA AbsentAccepts ==
  ASSUME NEW w, absent!Takes(w) # {}
  PROVE  absent!Accepted(w) \in AWidths /\ (w \in AWidths => absent!Accepted(w) = w)
  <1> DEFINE T == absent!Takes(w)
             m == absent!Min(T)
  <1>1. /\ \A i \in T : i \in 1..4 /\ absent!Candidates(w)[i] \in AWidths
        /\ w \in AWidths => 1 \in T
      BY DEF absent!Takes, absent!Candidates, AWidths
  <1>2. \E i \in T : \A j \in T : i <= j
    <2>1. CASE 1 \in T
        BY <1>1, <2>1
    <2>2. CASE 1 \notin T /\ 2 \in T
        BY <1>1, <2>2
    <2>3. CASE 1 \notin T /\ 2 \notin T /\ 3 \in T
        BY <1>1, <2>3
    <2>4. CASE 1 \notin T /\ 2 \notin T /\ 3 \notin T
      <3>1. \A i \in T : i = 4
          BY <1>1, <2>4
      <3> QED
          BY <3>1
    <2> QED
        BY <2>1, <2>2, <2>3, <2>4
  <1>3. m \in T /\ \A j \in T : m <= j
    <2> HIDE DEF T
    <2> QED
        BY <1>2, Zenon DEF absent!Min
  <1> HIDE DEF m, T
  <1>4. 1 \in T => m = 1
      BY <1>1, <1>3
  <1>5. absent!Accepted(w) = absent!Candidates(w)[m] /\ absent!Candidates(w)[1] = w
      BY DEF absent!Accepted, absent!Candidates, m, T
  <1> QED
      BY <1>1, <1>3, <1>4, <1>5

(* Opening the device: the width asked for if it can be had.                 *)
AOpens ==
  /\ dDepth' \in AWidths /\ dNote' = (IF dDepth' = dSource THEN 0 ELSE dDepth')
  /\ dSource \in AWidths => dDepth' = dSource

LEMMA AOpening ==
  ASSUME NEW l, alsa!Opened(l) \/ absent!Opened(l) PROVE AOpens
  <1>1. CASE alsa!Opened(l)
      BY <1>1, AlsaAccepts, Zenon DEF alsa!Opened, AOpens
  <1>2. CASE absent!Opened(l)
      BY <1>2, AbsentAccepts, Zenon DEF absent!Opened, AOpens
  <1> QED
      BY <1>1, <1>2

LEMMA AReopening ==
  ASSUME NEW l, alsa!Reopen(l) \/ absent!Reopen(l)
  PROVE  AOpens \/ UNCHANGED <<dDepth, dNote>>
  BY AOpening, Zenon DEF alsa!Reopen, alsa!NotOpened, absent!Reopen, absent!NotOpened

LEMMA AStep ==
  ASSUME AInv, kind' = kind, alsa!Next \/ absent!Next \/ UNCHANGED alsaVars
  PROVE  AInv'
  <1> USE DEF AInv
  <1>0. 0 \notin AWidths
      BY DEF AWidths
  <1>1. CASE alsa!Setup \/ absent!Setup
    <2>1. /\ UNCHANGED dSource
          /\ \/ dPc' = "notify" /\ AOpens
             \/ dPc = "off" /\ dPc' = "off"
        BY <1>1, AOpening, Zenon DEF alsa!Setup, absent!Setup
    <2> QED
        BY <1>0, <2>1 DEF AOpens
  <1>2. CASE alsa!SendPayload \/ absent!SendPayload
    <2>1. /\ UNCHANGED dSource /\ dPc = "idle" /\ dPc' \in {"idle", "write"}
          /\ AOpens \/ UNCHANGED <<dDepth, dNote>>
      <3>1. CASE alsa!SendPayload
          BY <3>1, AOpening, Zenon DEF alsa!SendPayload, alsa!NotOpened, alsa!deviceVars
      <3>2. CASE absent!SendPayload
          BY <3>2, AOpening, Zenon DEF absent!SendPayload, absent!NotOpened, absent!deviceVars
      <3> QED
          BY <1>2, <3>1, <3>2
    <2> QED
        BY <1>0, <2>1 DEF AOpens
  <1>3. CASE alsa!PayloadWritten \/ absent!PayloadWritten
    <2>1. /\ UNCHANGED dSource /\ dPc = "write" /\ dPc' = "notify"
          /\ AOpens \/ UNCHANGED <<dDepth, dNote>>
        BY <1>3, AReopening, Zenon DEF alsa!PayloadWritten, alsa!deviceVars, absent!PayloadWritten, absent!deviceVars
    <2> QED
        BY <1>0, <2>1 DEF AOpens
  <1>4. CASE alsa!Recover \/ absent!Recover
    <2>1. /\ UNCHANGED <<dSource, dPc>> /\ dPc = "write"
          /\ AOpens \/ UNCHANGED <<dDepth, dNote>>
        BY <1>4, AReopening, Zenon DEF alsa!Recover, absent!Recover
    <2> QED
        BY <1>0, <2>1 DEF AOpens
  <1>5. CASE alsa!GiveUp \/ absent!GiveUp
    <2>1. UNCHANGED <<dSource, dDepth, dNote>> /\ dPc = "write" /\ dPc' = "notify"
        BY <1>5, Zenon DEF alsa!GiveUp, absent!GiveUp
    <2> QED
        BY <2>1
  <1>6. CASE alsa!Notify \/ absent!Notify
    <2>1. /\ dPc = "notify" /\ dPc' = "idle" /\ dNote' = 0 /\ UNCHANGED dDepth
          /\ dSource' = IF dNote = 0 THEN dSource ELSE dNote
        BY <1>6, Zenon DEF alsa!Notify, alsa!SourceNoted, absent!Notify, absent!SourceNoted
    <2> QED
        BY <1>0, <2>1
  <1>7. CASE \/ alsa!WriteFrames \/ absent!WriteFrames \/ alsa!Drain \/ absent!Drain
             \/ alsa!Cool \/ absent!Cool \/ UNCHANGED alsaVars
    <2>1. UNCHANGED <<dSource, dDepth, dNote, dPc>>
      <3>1. CASE UNCHANGED alsaVars
          BY <3>1 DEF alsaVars
      <3>2. CASE alsa!WriteFrames \/ absent!WriteFrames
          BY <3>2, Zenon DEF alsa!WriteFrames, absent!WriteFrames
      <3>3. CASE alsa!Drain \/ absent!Drain \/ alsa!Cool \/ absent!Cool
          BY <3>3 DEF alsa!Drain, alsa!Cool, alsa!deviceVars, absent!Drain, absent!Cool,
           absent!deviceVars
      <3> QED
          BY <1>7, <3>1, <3>2, <3>3
    <2> QED
        BY <2>1
  <1> QED
      BY <1>1, <1>2, <1>3, <1>4, <1>5, <1>6, <1>7, Zenon DEF alsa!Next, absent!Next

(* alsa_playback_sender.cpp:157-194, sink_audio_mixer.cpp:1843-1877: however *)
(* often the device is closed and opened again, a payload is as wide as the  *)
(* card takes it, for any card and any width the sink is configured with.    *)
THEOREM WidthsAgree == AllSpec => []WidthAgrees
  <1>1. AInv /\ [AllNext]_allVars => AInv'
      BY Apart, AStep
  <1>2. AInv => WidthAgrees
      BY DEF AInv, WidthAgrees, alsa!WidthAgrees
  <1> QED
      BY <1>1, <1>2, ABegins, PTL DEF AllSpec

-----------------------------------------------------------------------------
(* ListenerAudio.                                                            *)

(* The buffer holds whole samples of all channels, as many frames as are     *)
(* due and neither encoded nor lost.                                         *)
HDue     == hDue * listener!Stretch * listener!Kept
HHeld(m) == m \in Int /\ hPcm = hChannels * m /\ hTimestamp + m + hLost = HDue
HInv ==
  /\ hFormat \in ListenerFormats
  /\ hChannels = listener!OpusChannels(hFormat.channels) /\ hMulti = listener!Layout(hChannels)
  /\ {hTimestamp, hLost, hDue} \subseteq Int
  /\ \E m \in Int : HHeld(m)

LEMMA HFormats ==
  ASSUME hFormat \in ListenerFormats
  PROVE  listener!Stretch \in {1, 2} /\ listener!Kept \in Nat
  <1> DEFINE C == ListenerChunk
  <1>1. C \in Nat /\ 2 * (C \div 2) \in Nat /\ (3 * C) \div 4 \in Nat
      BY ListenerConstants
  <1>2. hFormat.bits \in {16, 24, 32}
      BY ListenerConstants
  <1>3. listener!Kept \in {C, 2 * (C \div 2), (3 * C) \div 4}
      BY <1>2 DEF listener!Kept
  <1>4. listener!Stretch \in {1, 2}
      BY DEF listener!Stretch
  <1> QED
      BY <1>1, <1>3, <1>4

LEMMA HBegins == AllInit => HInv
  <1> SUFFICES ASSUME AllInit PROVE HInv
      OBVIOUS
  <1>1. /\ hFormat \in ListenerFormats
        /\ hChannels = listener!OpusChannels(hFormat.channels) /\ hMulti = listener!Layout(hChannels)
        /\ hPcm = 0 /\ hTimestamp = 0 /\ hLost = 0 /\ hDue = 0
      BY Zenon DEF AllInit, listener!Init
  <1>2. hChannels \in Int
      BY <1>1, ListenerConstants DEF listener!OpusChannels
  <1>3. listener!Stretch \in {1, 2} /\ listener!Kept \in Nat
      BY <1>1, HFormats
  <1>4. HDue = 0
      BY <1>1, <1>3 DEF HDue
  <1>5. HHeld(0)
      BY <1>1, <1>2, <1>4 DEF HHeld
  <1> QED
      BY <1>1, <1>5 DEF HInv

LEMMA Division ==
  ASSUME NEW a \in Nat, NEW b \in Nat \ {0}, NEW q \in Nat, NEW r \in Nat, a = b * q + r, r < b
  PROVE  a \div b = q
  OBVIOUS

(* Chunks of 32 bits are prepared in one step, of 24 bits in one that leaves *)
(* a quarter, and of 16 bits in two.                                         *)
LEMMA HStereo ==
  ASSUME NEW k \in 1..8, NEW C \in Nat \ {0},
         hFormat.channels = k, ListenerChunk = C, hFormat.bits \in {16, 24, 32}, hMulti = <<0, 0>>
  PROVE  listener!StereoSamples = 2 * listener!Kept
  <1>1. k = 1 \/ k = 2 \/ k = 3 \/ k = 4 \/ k = 5 \/ k = 6 \/ k = 7 \/ k = 8
      OBVIOUS
  <1> DEFINE X == k * C
  <1>2. X \in Nat \ {0}
      BY <1>1
  <1>3. listener!MixBytes = 4 * X
      BY <1>1 DEF listener!MixBytes
  <1>4. CASE hFormat.bits = 32
    <2>1. listener!ChunkBytes = 4 * X
        BY <1>1, <1>4 DEF listener!ChunkBytes
    <2>2. (4 * X) \div (4 * X) = 1
      <3> HIDE DEF X
      <3> QED
          BY <1>2, Division
    <2>3. (4 * X) \div (4 * k) = C
        BY <1>1
    <2> QED
        BY <1>3, <1>4, <2>1, <2>2, <2>3 DEF listener!StereoSamples, listener!Steps, listener!Kept
  <1>5. CASE hFormat.bits = 24
    <2>1. listener!ChunkBytes = 3 * X
        BY <1>1, <1>5 DEF listener!ChunkBytes
    <2>2. (4 * X) \div (3 * X) = 1
      <3> HIDE DEF X
      <3>1. 4 * X \in Nat /\ 3 * X \in Nat \ {0} /\ 4 * X = (3 * X) * 1 + X /\ X < 3 * X /\ X \in Nat /\ 1 \in Nat
          BY <1>2
      <3> QED
          BY <3>1, Division
    <2>3. (3 * X) \div (4 * k) = (3 * C) \div 4
        BY <1>1
    <2> QED
        BY <1>3, <1>5, <2>1, <2>2, <2>3 DEF listener!StereoSamples, listener!Steps, listener!Kept
  <1>6. CASE hFormat.bits = 16
    <2>1. listener!ChunkBytes = 2 * X
        BY <1>1, <1>6 DEF listener!ChunkBytes
    <2>2. (4 * X) \div (2 * X) = 2
      <3> HIDE DEF X
      <3>1. 4 * X \in Nat /\ 2 * X \in Nat \ {0} /\ 4 * X = (2 * X) * 2 + 0 /\ 0 < 2 * X /\ 2 \in Nat /\ 0 \in Nat
          BY <1>2
      <3> QED
          BY <3>1, Division
    <2>3. (2 * X) \div (4 * k) = C \div 2
        BY <1>1
    <2>4. C \div 2 \in Int
        OBVIOUS
    <2> QED
        BY <1>3, <1>6, <2>1, <2>2, <2>3, <2>4 DEF listener!StereoSamples, listener!Steps, listener!Kept
  <1> QED
      BY <1>4, <1>5, <1>6

(* The payload is what is kept of a chunk, in the channels of the listener.  *)
LEMMA HPayload ==
  ASSUME HInv
  PROVE  /\ hChannels \in 1..8 /\ listener!Stretch \in {1, 2} /\ listener!Kept \in Nat
         /\ listener!Payload = listener!Stretch * listener!Kept * hChannels
  <1> DEFINE n == hFormat.channels
             C == ListenerChunk
             K == listener!Kept
  <1>1. /\ n \in 1..8 /\ hFormat.bits \in {16, 24, 32} /\ C \in Nat \ {0}
        /\ hChannels \in {2, n} /\ hMulti = listener!Layout(hChannels)
      BY ListenerConstants DEF HInv, listener!OpusChannels
  <1>2. listener!Stretch \in {1, 2} /\ K \in Nat
      BY HFormats DEF HInv
  <1>3. hChannels \in 1..8
      BY <1>1
  <1>4. CASE hMulti # <<0, 0>>
    <2>1. hChannels = n /\ hChannels # 1 /\ K = C
        BY <1>1, <1>4 DEF listener!Layout, listener!Kept
    <2>2. listener!Payload = C * n /\ listener!Stretch = 1
        BY <1>4, <2>1 DEF listener!Payload, listener!Stretch
    <2>3. 1 * K = K
        BY <1>2
    <2> QED
        BY <1>2, <1>3, <2>1, <2>2, <2>3
  <1>5. CASE hMulti = <<0, 0>>
    <2>1. hChannels \in {1, 2}
        BY <1>1, <1>5 DEF listener!Layout
    <2>2. listener!Payload = 2 * K
        BY <1>1, <1>5, HStereo DEF listener!Payload
    <2>3. 2 * K = 2 * K * 1 /\ 2 * K = 1 * K * 2
        BY <1>2
    <2> QED
        BY <1>2, <1>3, <2>1, <2>2, <2>3 DEF listener!Stretch
  <1> QED
      BY <1>4, <1>5

LEMMA Distribute ==
  ASSUME NEW a \in Int, NEW b \in Int, NEW c \in Int PROVE (a - b) * c = a * c - b * c
  OBVIOUS

LEMMA HEncodes ==
  ASSUME NEW c \in 1..8, NEW M \in Int, NEW O \in Nat \ {0}
  PROVE  /\ (c * M) \div (O * c) \in Int
         /\ (c * M) \div c = M
         /\ \A q \in Int : c * M - q * O * c = c * (M - q * O) /\ q * O \in Int
  <1>1. c = 1 \/ c = 2 \/ c = 3 \/ c = 4 \/ c = 5 \/ c = 6 \/ c = 7 \/ c = 8
      OBVIOUS
  <1>2. (c * M) \div c = M
      BY <1>1
  <1>3. O * c \in Nat \ {0} /\ c * M \in Int
      BY <1>1
  <1>4. (c * M) \div (O * c) \in Int
      BY <1>3
  <1>5. ASSUME NEW q \in Int PROVE c * M - q * O * c = c * (M - q * O) /\ q * O \in Int
    <2>1. q * O \in Int
        OBVIOUS
    <2> QED
        BY <1>1, <2>1
  <1> QED
      BY <1>2, <1>4, <1>5

LEMMA HStep ==
  ASSUME HInv, listener!Next \/ UNCHANGED listenerVars
  PROVE  HInv'
  <1>1. CASE listener!MixChunk
    <2>1. UNCHANGED <<hFormat, hChannels, hMulti>>
        BY <1>1, Zenon DEF listener!MixChunk
    <2>2. PICK m \in Int : HHeld(m)
        BY DEF HInv
    <2>3. CASE ~hConnected
      <3>1. UNCHANGED <<hPcm, hTimestamp, hLost, hDue>>
          BY <1>1, <2>3, Zenon DEF listener!MixChunk
      <3>2. HDue' = HDue
          BY <2>1, <3>1 DEF HDue, listener!Stretch, listener!Kept
      <3> QED
          BY <2>1, <3>1, <3>2 DEF HInv, HHeld
    <2>4. CASE hConnected
      <3> DEFINE C == listener!Stretch * listener!Kept
                 O == ListenerOpus
                 M == m + C
                 S == hChannels * M
      <3>0. listener!Stretch' = listener!Stretch /\ listener!Kept' = listener!Kept
          BY <2>1 DEF listener!Stretch, listener!Kept
      <3>1. /\ hChannels \in 1..8 /\ C \in Nat /\ O \in Nat \ {0} /\ M \in Int
            /\ hTimestamp \in Int /\ hLost \in Int /\ hDue \in Int /\ HDue \in Int
            /\ hPcm = hChannels * m /\ hTimestamp + m + hLost = HDue
            /\ listener!Payload = C * hChannels
        <4>1. /\ hChannels \in 1..8 /\ listener!Stretch \in {1, 2} /\ listener!Kept \in Nat
              /\ listener!Payload = C * hChannels
            BY HPayload
        <4>2. C \in Nat
            BY <4>1
        <4>3. HDue \in Int
            BY <4>1 DEF HInv, HDue
        <4> HIDE DEF C
        <4> QED
            BY <2>2, <4>1, <4>2, <4>3, ListenerConstants DEF HHeld, HInv
      <3>2. /\ hDue' = hDue + 1 /\ HDue' = HDue + C
            /\ \/ hLost' = hLost + C /\ UNCHANGED <<hPcm, hTimestamp>>
               \/ listener!EncodeAll(hPcm + listener!Payload)
        <4>1. /\ hDue' = hDue + 1
              /\ \/ hLost' = hLost + listener!Payload \div hChannels /\ UNCHANGED <<hPcm, hTimestamp>>
                 \/ listener!EncodeAll(hPcm + listener!Payload)
            BY <1>1, <2>4, Zenon DEF listener!MixChunk
        <4>2. listener!Payload \div hChannels = C
          <5>1. \A c \in 1..8 : (C * c) \div c = C
            <6> HIDE DEF C
            <6> TAKE c \in 1..8
            <6>1. c = 1 \/ c = 2 \/ c = 3 \/ c = 4 \/ c = 5 \/ c = 6 \/ c = 7 \/ c = 8
                OBVIOUS
            <6> QED
                BY <3>1, <6>1
          <5> HIDE DEF C
          <5> QED
              BY <3>1, <5>1, Zenon
        <4>3. HDue' = HDue + C
          <5>1. listener!Stretch \in {1, 2} /\ listener!Kept \in Nat
              BY HPayload
          <5>2. (hDue + 1) * listener!Stretch * listener!Kept
                  = hDue * listener!Stretch * listener!Kept + listener!Stretch * listener!Kept
            <6> DEFINE s == listener!Stretch
                       k == listener!Kept
            <6>1. s \in {1, 2} /\ k \in Nat /\ hDue \in Int
                BY <3>1, <5>1
            <6> HIDE DEF s, k
            <6> SUFFICES (hDue + 1) * s * k = hDue * s * k + s * k
                BY DEF s, k
            <6>2. (hDue + 1) * k = hDue * k + k /\ (2 * hDue + 2) * k = (2 * hDue) * k + 2 * k
                BY <6>1
            <6>3. (hDue + 1) * 2 = 2 * hDue + 2 /\ hDue * 2 = 2 * hDue /\ (hDue + 1) * 1 = hDue + 1
                  /\ hDue * 1 = hDue /\ 1 * k = k
                BY <6>1
            <6> QED
                BY <6>1, <6>2, <6>3
          <5> QED
              BY <3>0, <4>1, <5>2 DEF HDue
        <4> QED
            BY <4>1, <4>2, <4>3
      <3> HIDE DEF C
      <3>3. CASE hLost' = hLost + C /\ UNCHANGED <<hPcm, hTimestamp>>
        <4>1. HHeld(m)'
            BY <2>1, <3>1, <3>2, <3>3 DEF HHeld
        <4> QED
            BY <2>1, <3>1, <3>2, <3>3, <4>1 DEF HInv
      <3>4. CASE listener!EncodeAll(hPcm + listener!Payload)
        <4>1. hPcm + listener!Payload = S
          <5>1. hChannels = 1 \/ hChannels = 2 \/ hChannels = 3 \/ hChannels = 4 \/ hChannels = 5 \/ hChannels = 6
                \/ hChannels = 7 \/ hChannels = 8
              BY <3>1
          <5> QED
              BY <3>1, <5>1
        <4>2. PICK q \in Int :
                /\ q = S \div (O * hChannels) /\ S \div hChannels = M /\ q * O \in Int
                /\ S - q * O * hChannels = hChannels * (M - q * O)
          <5> HIDE DEF C, O, M
          <5>1. \A c \in 1..8 :
                  /\ (c * M) \div (O * c) \in Int /\ (c * M) \div c = M
                  /\ \A k \in Int : c * M - k * O * c = c * (M - k * O) /\ k * O \in Int
              BY <3>1, HEncodes
          <5> QED
              BY <3>1, <5>1, Zenon
        <4>3. \/ hPcm' = S - q * O * hChannels /\ hTimestamp' = hTimestamp + q * O /\ hLost' = hLost
              \/ \E k \in 0..(q - 1) :
                    /\ hTimestamp' = hTimestamp + k * O
                    /\ \/ hPcm' = 0 /\ hLost' = hLost + M - k * O
                       \/ hPcm' = S - q * O * hChannels /\ hLost' = hLost + (q - k) * O
            BY <3>4, <4>1, <4>2, Zenon DEF listener!EncodeAll
        <4> HIDE DEF S
        <4>4. CASE hPcm' = S - q * O * hChannels /\ hTimestamp' = hTimestamp + q * O /\ hLost' = hLost
          <5>0. PICK z \in Int : z = M - q * O
              BY <3>1, <4>2
          <5>1. hPcm' = hChannels * z
              BY <5>0, <3>1, <4>2, <4>4
          <5>2. hTimestamp' + z + hLost' = HDue'
            <6>1. PICK a \in Int : a = q * O
                BY <4>2
            <6>2. z = M - a /\ hTimestamp' = hTimestamp + a /\ hLost' = hLost
                BY <4>4, <5>0, <6>1, Zenon
            <6> QED
                BY <3>1, <3>2, <6>2
          <5>3. HHeld(z)'
              BY <2>1, <5>1, <5>2 DEF HHeld
          <5> QED
              BY <2>1, <3>1, <3>2, <4>2, <4>4, <5>1, <5>3 DEF HInv
        <4>5. ASSUME NEW k \in 0..(q - 1), hTimestamp' = hTimestamp + k * O,
                     hPcm' = 0, hLost' = hLost + M - k * O
              PROVE  HInv'
          <5>1. k \in Int /\ k * O \in Int
              BY <3>1, <4>2, <4>5
          <5>2. hPcm' = hChannels * 0 /\ hTimestamp' + 0 + hLost' = HDue'
              BY <3>1, <3>2, <4>5, <5>1
          <5>3. HHeld(0)'
              BY <2>1, <5>2 DEF HHeld
          <5> QED
              BY <2>1, <3>1, <3>2, <4>5, <5>1, <5>3 DEF HInv
        <4>6. ASSUME NEW k \in 0..(q - 1), hTimestamp' = hTimestamp + k * O,
                     hPcm' = S - q * O * hChannels, hLost' = hLost + (q - k) * O
              PROVE  HInv'
          <5>0. PICK z \in Int : z = M - q * O
              BY <3>1, <4>2
          <5>1. k \in Int /\ k * O \in Int /\ (q - k) * O = q * O - k * O
              BY <3>1, <4>2, <4>6, Distribute
          <5>2. hPcm' = hChannels * z
              BY <5>0, <3>1, <4>2, <4>6
          <5>3. hTimestamp' + z + hLost' = HDue'
            <6>1. PICK a \in Int, b \in Int : a = q * O /\ b = k * O
                BY <4>2, <5>1
            <6>2. z = M - a /\ hTimestamp' = hTimestamp + b /\ hLost' = hLost + (a - b)
                BY <4>6, <5>0, <5>1, <6>1, Zenon
            <6> QED
                BY <3>1, <3>2, <6>2
          <5>4. HHeld(z)'
              BY <2>1, <5>2, <5>3 DEF HHeld
          <5> QED
              BY <2>1, <3>1, <3>2, <4>2, <4>6, <5>1, <5>2, <5>4 DEF HInv
        <4> QED
            BY <4>3, <4>4, <4>5, <4>6
      <3> QED
          BY <3>2, <3>3, <3>4
    <2> QED
        BY <2>3, <2>4
  <1>2. CASE listener!Connect \/ UNCHANGED listenerVars
    <2>1. UNCHANGED <<hFormat, hChannels, hMulti, hPcm, hTimestamp, hLost, hDue>>
        BY <1>2 DEF listener!Connect, listenerVars
    <2>2. HDue' = HDue
        BY <2>1 DEF HDue, listener!Stretch, listener!Kept
    <2> QED
        BY <2>1, <2>2 DEF HInv, HHeld
  <1> QED
      BY <1>1, <1>2, Zenon DEF listener!Next

(* sink_audio_mixer.cpp:1260-1294, webrtc_sender.cpp:501-561: whatever the   *)
(* format of the sink and the frames of a chunk and of Opus, a listener hears*)
(* what it is given of each chunk once.  That is all of the mix, at its      *)
(* speed, but for mono (at half the speed), for stereo made of 24 bits (three*)
(* quarters of it) and for stereo made of odd chunks of 16 bits.             *)
THEOREM AllIsHeard == AllSpec => []HearsAllMixed
  <1>1. HInv /\ [AllNext]_allVars => HInv'
      BY Apart, HStep
  <1>2. ASSUME HInv PROVE HearsAllMixed
    <2>1. PICK m \in Int : HHeld(m)
        BY <1>2 DEF HInv
    <2>2. (hChannels * m) \div hChannels = m
        BY <1>2, HPayload, HEncodes
    <2> QED
        BY <2>1, <2>2 DEF HHeld, HDue, HearsAllMixed, listener!HearsAllMixed
  <1> QED
      BY <1>1, <1>2, HBegins, PTL DEF AllSpec

-----------------------------------------------------------------------------
(* WebRtcListeners.                                                          *)
WMade   == DOMAIN wIp
WNewest == Len(wIp)
WSteps  == {"no", "check", "detach", "forget"}
WAdding == {"evict", "evicting", "attach", "register"}

WTypes ==
  /\ wSink \in {"up", "stopping", "gone"}
  /\ wIp \in Seq(WebClients) /\ WNewest <= WebListeners
  /\ wAttached \subseteq WMade /\ wRegistered \subseteq WMade /\ wEvicting \subseteq WMade
  /\ wApi \in [step : {"idle", "remove", "candidate"} \cup WAdding, n : 0..WNewest]
  /\ wSetup \in [1..WebListeners -> {"none", "sleep", "holding", "failed", "ended"}]
  /\ wRemoving \in [0..WebListeners -> WSteps]

(* The call that adds a listener makes the newest one, whose setup comes     *)
(* later; a thread removes one listener at a time.                           *)
WInTurn ==
  /\ wApi.step \in WAdding => WNewest > 0 /\ wSetup[WNewest] = "none"
  /\ wApi.step \in {"attach", "register"} => wApi.n = WNewest
  /\ wRemoving[0] # "no" => wApi.step \in {"evicting", "remove"}
  /\ \A n \in 1..WebListeners : /\ wRemoving[n] # "no" => wSetup[n] = "failed"
                                /\ n > WNewest => wSetup[n] = "none"

(* A sink that is up has no listener that the manager does not know, but for *)
(* the one that is about to be registered.                                   *)
WKnown ==
  /\ wSink = "gone" => wAttached = {}
  /\ wSink = "up" => wAttached \subseteq wRegistered \cup (IF wApi.step = "register" THEN {wApi.n} ELSE {})
WDetached(n) == wSink = "up" => n \notin wAttached
WForgets ==
  /\ wRemoving[0] = "forget" => WDetached(wApi.n)
  /\ \A n \in 1..WebListeners : wRemoving[n] = "forget" => WDetached(n)

(* What the client of the newest listener has beside is still to be evicted. *)
WRivals == {n \in wRegistered : wIp[n] = wIp[WNewest]}
WEvicts ==
  /\ wApi.step = "evict" => WRivals \subseteq wEvicting
  /\ wApi.step = "evicting" => WRivals \subseteq wEvicting \cup {wApi.n}
  /\ wApi.step = "attach" => WRivals = {}

WAlone == \A m, n \in wAttached : wIp[m] = wIp[n] => m = n
WInv == WTypes /\ WInTurn /\ WKnown /\ WForgets /\ WEvicts /\ WAlone

LEMMA WBegins == AllInit => WInv
  <1> SUFFICES ASSUME AllInit PROVE WInv
      OBVIOUS
  <1>1. /\ wSink = "up" /\ wAttached = {} /\ wRegistered = {} /\ wIp = <<>> /\ wEvicting = {}
        /\ wApi = [step |-> "idle", n |-> 0]
        /\ wSetup = [n \in webrtc!Listeners |-> "none"]
        /\ wRemoving = [t \in {webrtc!Api} \cup webrtc!Listeners |-> "no"]
      BY Zenon DEF AllInit, webrtc!Init
  <1>2. /\ webrtc!Listeners = 1..WebListeners
        /\ {webrtc!Api} \cup webrtc!Listeners = 0..WebListeners
      BY WebConstants DEF webrtc!Listeners, webrtc!Api
  <1>3. wIp \in Seq(WebClients) /\ WNewest = 0 /\ WMade = {}
      BY <1>1 DEF WNewest, WMade
  <1>4. WTypes
      BY <1>1, <1>2, <1>3, WebConstants DEF WTypes, WSteps, WAdding
  <1>5. WInTurn /\ WKnown /\ WForgets /\ WEvicts /\ WAlone
      BY <1>1, <1>2, <1>3, WebConstants DEF WInTurn, WKnown, WForgets, WEvicts, WAlone, WAdding
  <1> QED
      BY <1>4, <1>5 DEF WInv

(* The connections, the mixing thread and the sink: listeners only leave.    *)
LEMMA WLeaves ==
  ASSUME WInv,
         \/ \E n \in webrtc!Made : webrtc!ConnectionChanges(n)
         \/ webrtc!FindClosed \/ webrtc!RemoveClosed \/ webrtc!RemoveSink
         \/ webrtc!CloseAll \/ webrtc!AddSink \/ webrtc!Shutdown \/ UNCHANGED webVars
  PROVE  WInv'
  <1>1. /\ UNCHANGED <<wIp, wRegistered, wApi, wEvicting, wSetup, wRemoving>>
        /\ wAttached' \subseteq wAttached
        /\ \/ UNCHANGED wSink
           \/ wSink' = "stopping"
           \/ wSink' = "gone" /\ wAttached' = {}
           \/ wSink = "gone" /\ wSink' = "up"
    <2>1. CASE UNCHANGED webVars
        BY <2>1 DEF webVars
    <2>2. CASE \E n \in webrtc!Made : webrtc!ConnectionChanges(n)
        BY <2>2 DEF webrtc!ConnectionChanges, webrtc!sinkVars, webrtc!apiVars
    <2>3. CASE webrtc!FindClosed \/ webrtc!RemoveClosed
        BY <2>3 DEF webrtc!FindClosed, webrtc!RemoveClosed, webrtc!MixerStays, webrtc!Drop,
           webrtc!sinkVars, webrtc!apiVars
    <2>4. CASE webrtc!RemoveSink \/ webrtc!CloseAll \/ webrtc!AddSink \/ webrtc!Shutdown
        BY <2>4 DEF webrtc!RemoveSink, webrtc!CloseAll, webrtc!AddSink, webrtc!Shutdown,
           webrtc!SinkStays, webrtc!Drop, webrtc!sinkVars, webrtc!apiVars
    <2> QED
        BY <2>1, <2>2, <2>3, <2>4
  <1>2. WTypes'
      BY <1>1 DEF WInv, WTypes, WMade, WNewest
  <1>3. WInTurn' /\ WEvicts'
      BY <1>1 DEF WInv, WInTurn, WEvicts, WRivals, WNewest
  <1>4. WKnown' /\ WForgets'
      BY <1>1 DEF WInv, WKnown, WForgets, WDetached
  <1>5. WAlone'
      BY <1>1 DEF WInv, WAlone
  <1> QED
      BY <1>2, <1>3, <1>4, <1>5 DEF WInv

(* The removal of a listener, by the API or by a setup thread.               *)
LEMMA WRemoval ==
  ASSUME WInv, NEW t, NEW n, webrtc!Removing(t, n), UNCHANGED <<wSink, wIp, wEvicting>>,
         wRemoving[t] = "forget" => WDetached(n)
  PROVE  /\ wRemoving[t] # "no" /\ wAttached' \subseteq wAttached
         /\ \E r \in WSteps :
              /\ wRemoving' = [wRemoving EXCEPT ![t] = r]
              /\ wRegistered' = (IF r = "no" THEN wRegistered \ {n} ELSE wRegistered)
              /\ r \in {"no", "forget"} => WDetached(n)'
  <1>1. CASE webrtc!CheckListener(t, n)
      BY <1>1 DEF webrtc!CheckListener, webrtc!Findable, WSteps, WDetached
  <1>2. CASE webrtc!DetachListener(t, n)
      BY <1>2 DEF webrtc!DetachListener, webrtc!Findable, webrtc!Drop, WSteps, WDetached
  <1>3. CASE webrtc!ForgetListener(t, n)
      BY <1>3 DEF webrtc!ForgetListener, WSteps, WDetached
  <1> QED
      BY <1>1, <1>2, <1>3 DEF webrtc!Removing

LEMMA WSetupStep ==
  ASSUME WInv, NEW n \in webrtc!Made, webrtc!SetupThread(n)
  PROVE  WInv'
  <1>0. /\ n \in 1..WebListeners /\ WNewest \in Nat /\ WNewest <= WebListeners /\ n \in 1..WNewest
        /\ n \in 0..WebListeners /\ 0 \in 0..WebListeners
      BY WebConstants DEF WInv, WTypes, WMade, WNewest, webrtc!Made
  <1>1. CASE webrtc!RemoveFailed(n)
    <2>1. /\ UNCHANGED <<wSink, wIp, wEvicting, wApi>> /\ wSetup[n] = "failed"
          /\ wSetup' = IF wRemoving'[n] = "no" THEN [wSetup EXCEPT ![n] = "ended"] ELSE wSetup
          /\ webrtc!Removing(n, n)
        BY <1>1, Zenon DEF webrtc!RemoveFailed, webrtc!SetupStays, webrtc!sinkVars, webrtc!apiVars
    <2>2. /\ wAttached' \subseteq wAttached
          /\ \E r \in WSteps :
               /\ wRemoving' = [wRemoving EXCEPT ![n] = r]
               /\ wRegistered' = (IF r = "no" THEN wRegistered \ {n} ELSE wRegistered)
               /\ r \in {"no", "forget"} => WDetached(n)'
        BY <1>0, <2>1, WRemoval DEF WInv, WForgets
    <2>3. PICK r \in WSteps :
               /\ wRemoving' = [wRemoving EXCEPT ![n] = r]
               /\ wRegistered' = (IF r = "no" THEN wRegistered \ {n} ELSE wRegistered)
               /\ r \in {"no", "forget"} => WDetached(n)'
        BY <2>2
    <2>4. /\ wRemoving'[n] = r /\ \A t \in 0..WebListeners : t # n => wRemoving'[t] = wRemoving[t]
          /\ wRegistered' \subseteq wRegistered
        BY <1>0, <2>3 DEF WInv, WTypes
    <2>5. WTypes'
        BY <1>0, <2>1, <2>2, <2>3, <2>4 DEF WInv, WTypes, WMade, WNewest
    <2>6. /\ wSetup'[n] = (IF r = "no" THEN "ended" ELSE "failed")
          /\ \A m \in 1..WebListeners : m # n => wSetup'[m] = wSetup[m]
        BY <1>0, <2>1, <2>4 DEF WInv, WTypes
    <2>7. WInTurn'
        BY <1>0, <2>1, <2>4, <2>6 DEF WInv, WInTurn, WNewest
    <2>8. WKnown'
        BY <2>1, <2>2, <2>3 DEF WInv, WKnown, WDetached
    <2>9. WForgets'
        BY <1>0, <2>1, <2>2, <2>3, <2>4 DEF WInv, WForgets, WDetached
    <2>10. WEvicts' /\ WAlone'
        BY <2>1, <2>2, <2>4 DEF WInv, WEvicts, WAlone, WRivals, WNewest
    <2> QED
        BY <2>5, <2>7, <2>8, <2>9, <2>10 DEF WInv
  <1>2. CASE webrtc!FindSender(n) \/ webrtc!Connect(n)
    <2>1. UNCHANGED <<wSink, wIp, wEvicting, wApi, wAttached, wRegistered>>
        BY <1>2, Zenon DEF webrtc!FindSender, webrtc!Connect, webrtc!SetupStays, webrtc!sinkVars, webrtc!apiVars
    <2>2. /\ wSetup[n] \in {"sleep", "holding"}
          /\ \/ wSetup' = [wSetup EXCEPT ![n] = "holding"] /\ UNCHANGED wRemoving
             \/ wSetup' = [wSetup EXCEPT ![n] = "ended"] /\ UNCHANGED wRemoving
             \/ /\ wSetup' = [wSetup EXCEPT ![n] = "failed"]
                /\ wRemoving' = [wRemoving EXCEPT ![n] = "check"]
        BY <1>2 DEF webrtc!FindSender, webrtc!Connect
    <2>3. PICK w \in {"holding", "ended", "failed"} :
             /\ wSetup' = [wSetup EXCEPT ![n] = w]
             /\ wRemoving' = wRemoving \/ (w = "failed" /\ wRemoving' = [wRemoving EXCEPT ![n] = "check"])
        BY <2>2
    <2>4. wRemoving[n] = "no"
        BY <1>0, <2>2 DEF WInv, WInTurn, WTypes, WSteps
    <2>5. /\ wSetup'[n] = w /\ \A m \in 1..WebListeners : m # n => wSetup'[m] = wSetup[m]
          /\ \A m \in 0..WebListeners : m # n => wRemoving'[m] = wRemoving[m]
          /\ wRemoving'[n] \in {"no", "check"} /\ (wRemoving'[n] = "check" => w = "failed")
        BY <1>0, <2>3, <2>4 DEF WInv, WTypes
    <2>6. WTypes'
        BY <1>0, <2>1, <2>3, <2>5 DEF WInv, WTypes, WMade, WNewest, WSteps
    <2>7. WInTurn'
        BY <1>0, <2>1, <2>2, <2>4, <2>5 DEF WInv, WInTurn, WNewest
    <2>8. WKnown' /\ WEvicts' /\ WAlone'
        BY <2>1 DEF WInv, WKnown, WEvicts, WAlone, WRivals, WNewest
    <2>9. WForgets'
        BY <1>0, <2>1, <2>5 DEF WInv, WForgets, WDetached
    <2> QED
        BY <2>6, <2>7, <2>8, <2>9 DEF WInv
  <1> QED
      BY <1>1, <1>2, Zenon DEF webrtc!SetupThread

LEMMA WApiRemoves ==
  ASSUME WInv, webrtc!ApiRemoving
  PROVE  WInv'
  <1> DEFINE n == wApi.n
  <1>0. WNewest \in Nat /\ WNewest <= WebListeners /\ 0 \in 0..WebListeners /\ webrtc!Api = 0
      BY WebConstants DEF WInv, WTypes, WNewest, webrtc!Api
  <1>1. /\ UNCHANGED <<wSink, wIp, wEvicting, wSetup>> /\ wApi.step \in {"evicting", "remove"}
        /\ wApi' = (IF wRemoving'[0] # "no" THEN wApi
                    ELSE IF wApi.step = "remove" THEN [step |-> "idle", n |-> 0]
                    ELSE [step |-> "evict", n |-> WNewest])
        /\ webrtc!Removing(0, n)
      BY Zenon DEF webrtc!ApiRemoving, webrtc!EngineStays, webrtc!sinkVars, webrtc!Api, WNewest
  <1>2. /\ wAttached' \subseteq wAttached
        /\ \E r \in WSteps :
               /\ wRemoving' = [wRemoving EXCEPT ![0] = r]
               /\ wRegistered' = (IF r = "no" THEN wRegistered \ {n} ELSE wRegistered)
               /\ r \in {"no", "forget"} => (wSink' = "up" => n \notin wAttached')
    <2>1. PICK k : k = n
        OBVIOUS
    <2>2. /\ wAttached' \subseteq wAttached
          /\ \E r \in WSteps :
               /\ wRemoving' = [wRemoving EXCEPT ![0] = r]
               /\ wRegistered' = (IF r = "no" THEN wRegistered \ {k} ELSE wRegistered)
               /\ r \in {"no", "forget"} => WDetached(k)'
        BY <1>1, <2>1, WRemoval DEF WInv, WForgets
    <2> QED
        BY <2>1, <2>2 DEF WDetached
  <1>3. PICK r \in WSteps :
               /\ wRemoving' = [wRemoving EXCEPT ![0] = r]
               /\ wRegistered' = (IF r = "no" THEN wRegistered \ {n} ELSE wRegistered)
               /\ r \in {"no", "forget"} => (wSink' = "up" => n \notin wAttached')
      BY <1>2
  <1>4. /\ wRemoving'[0] = r /\ \A t \in 1..WebListeners : wRemoving'[t] = wRemoving[t]
        /\ wRegistered' \subseteq wRegistered
        /\ wApi' = (IF r # "no" THEN wApi
                    ELSE IF wApi.step = "remove" THEN [step |-> "idle", n |-> 0]
                    ELSE [step |-> "evict", n |-> WNewest])
      BY <1>0, <1>1, <1>3 DEF WInv, WTypes
  <1>5. WTypes'
    <2>1. wApi' \in [step : {"idle", "remove", "candidate"} \cup WAdding, n : 0..WNewest]
        BY <1>0, <1>4 DEF WInv, WTypes, WAdding
    <2>2. wRemoving' \in [0..WebListeners -> WSteps]
        BY <1>0, <1>3 DEF WInv, WTypes
    <2> QED
        BY <1>1, <1>2, <1>4, <2>1, <2>2 DEF WInv, WTypes, WMade, WNewest
  <1>6. WInTurn'
      BY <1>0, <1>1, <1>4 DEF WInv, WInTurn, WNewest, WAdding
  <1>7. WKnown'
      BY <1>1, <1>2, <1>3, <1>4 DEF WInv, WKnown
  <1>8. WForgets'
      BY <1>1, <1>2, <1>3, <1>4 DEF WInv, WForgets, WDetached
  <1>9. WEvicts'
      BY <1>1, <1>3, <1>4 DEF WInv, WEvicts, WRivals, WNewest
  <1>10. WAlone'
      BY <1>1, <1>2 DEF WInv, WAlone
  <1> QED
      BY <1>5, <1>6, <1>7, <1>8, <1>9, <1>10 DEF WInv

(* A client is added: its listeners are the rivals of the new one.           *)
LEMMA WAdds ==
  ASSUME WInv, NEW c \in WebClients, webrtc!AddListener(c)
  PROVE  WInv'
  <1>1. /\ wApi.step = "idle" /\ WNewest < WebListeners
        /\ wEvicting' = webrtc!SameClient(c)
        /\ wIp' = Append(wIp, c)
        /\ wApi' = [step |-> "evict", n |-> WNewest + 1]
        /\ UNCHANGED <<wAttached, wRegistered, wSetup, wRemoving, wSink>>
      BY Zenon DEF webrtc!AddListener, webrtc!ApiStep, webrtc!EngineStays, webrtc!sinkVars, WNewest
  <1>2. /\ wEvicting' = {n \in wRegistered : wIp[n] = c}
        /\ wIp \in Seq(WebClients) /\ WNewest \in Nat /\ WMade = 1..WNewest
        /\ wIp' \in Seq(WebClients) /\ WNewest' = WNewest + 1 /\ WMade' = 1..(WNewest + 1)
        /\ wIp'[WNewest'] = c /\ \A n \in WMade : wIp'[n] = wIp[n]
        /\ WNewest + 1 \in 1..WebListeners
      BY <1>1, WebConstants DEF WInv, WTypes, WMade, WNewest, webrtc!SameClient
  <1>3. wAttached \subseteq WMade /\ wRegistered \subseteq WMade
      BY DEF WInv, WTypes
  <1>4. WTypes'
    <2>1. wApi' \in [step : {"idle", "remove", "candidate"} \cup WAdding, n : 0..WNewest']
        BY <1>1, <1>2 DEF WAdding
    <2>2. /\ wAttached' \subseteq WMade' /\ wRegistered' \subseteq WMade' /\ wEvicting' \subseteq WMade'
      <3>1. WMade \subseteq WMade'
          BY <1>2
      <3>2. wEvicting' \subseteq wRegistered
          BY <1>2
      <3> HIDE DEF WMade
      <3> QED
          BY <1>1, <1>3, <3>1, <3>2
    <2>3. WNewest' <= WebListeners
        BY <1>1, <1>2
    <2> QED
        BY <1>1, <1>2, <2>1, <2>2, <2>3 DEF WInv, WTypes
  <1>5. WInTurn'
      BY <1>1, <1>2 DEF WInv, WInTurn, WAdding
  <1>6. WKnown' /\ WForgets'
    <2>1. wRemoving[0] = "no"
        BY <1>1, WebConstants DEF WInv, WTypes, WInTurn
    <2> QED
        BY <1>1, <2>1 DEF WInv, WKnown, WForgets, WDetached
  <1>7. WEvicts'
    <2>1. WRivals' \subseteq wEvicting'
      <3> SUFFICES ASSUME NEW n \in WRivals' PROVE n \in wEvicting'
          OBVIOUS
      <3>1. n \in wRegistered /\ wIp'[n] = wIp'[WNewest']
          BY <1>1 DEF WRivals
      <3> QED
          BY <1>2, <1>3, <3>1
    <2> QED
        BY <1>1, <2>1 DEF WEvicts
  <1>8. WAlone'
    <2>1. ASSUME NEW m \in wAttached, NEW n \in wAttached, wIp'[m] = wIp'[n] PROVE m = n
      <3>1. wIp[m] = wIp[n]
          BY <1>2, <1>3, <2>1
      <3> QED
          BY <3>1 DEF WInv, WAlone
    <2> QED
        BY <1>1, <2>1, Zenon DEF WAlone
  <1> QED
      BY <1>4, <1>5, <1>6, <1>7, <1>8 DEF WInv

(* The new listener is attached when its client has no other, and known when *)
(* the call ends.                                                            *)
LEMMA WAttaches ==
  ASSUME WInv, webrtc!Attach \/ webrtc!Register
  PROVE  WInv'
  <1>0. /\ WNewest \in Nat /\ WNewest <= WebListeners /\ WMade = 1..WNewest
        /\ wAttached \subseteq WMade /\ wRegistered \subseteq WMade
      BY WebConstants DEF WInv, WTypes, WNewest, WMade
  <1>1. CASE webrtc!Attach
    <2>1. /\ wApi.step = "attach" /\ wApi' = [step |-> "register", n |-> wApi.n]
          /\ wAttached' = (IF wSink = "up" THEN wAttached \cup {wApi.n} ELSE wAttached)
          /\ UNCHANGED <<wEvicting, wIp, wRegistered, wSetup, wRemoving, wSink>>
        BY <1>1 DEF webrtc!Attach, webrtc!ApiStep, webrtc!EngineStays, webrtc!sinkVars
    <2>2. /\ wApi.n = WNewest /\ WNewest > 0 /\ wSetup[WNewest] = "none" /\ wRemoving[0] = "no"
        BY <1>0, <2>1, WebConstants DEF WInv, WInTurn, WTypes, WAdding, WSteps
    <2>3. WTypes'
        BY <1>0, <2>1, <2>2 DEF WInv, WTypes, WMade, WNewest, WAdding
    <2>4. WInTurn' /\ WEvicts'
        BY <1>0, <2>1, <2>2 DEF WInv, WInTurn, WEvicts, WNewest, WAdding
    <2>5. WKnown'
        BY <2>1 DEF WInv, WKnown
    <2>6. WForgets'
        BY <1>0, <2>1, <2>2 DEF WInv, WInTurn, WForgets, WDetached
    <2>7. WAlone'
      <3>1. wSink = "up" => wAttached \subseteq wRegistered
          BY <2>1 DEF WInv, WKnown
      <3>2. \A n \in wRegistered : wIp[n] # wIp[WNewest]
          BY <2>1 DEF WInv, WEvicts, WRivals
      <3> QED
          BY <2>1, <2>2, <3>1, <3>2 DEF WInv, WAlone
    <2> QED
        BY <2>3, <2>4, <2>5, <2>6, <2>7 DEF WInv
  <1>2. CASE webrtc!Register
    <2>1. /\ wApi.step = "register" /\ wApi' = [step |-> "idle", n |-> 0]
          /\ IF wSink = "up"
             THEN wRegistered' = wRegistered \cup {wApi.n} /\ wSetup' = [wSetup EXCEPT ![wApi.n] = "sleep"]
             ELSE UNCHANGED <<wRegistered, wSetup>>
          /\ UNCHANGED <<wEvicting, wIp, wAttached, wRemoving, wSink>>
        BY <1>2 DEF webrtc!Register, webrtc!ApiStep, webrtc!EngineStays, webrtc!sinkVars
    <2>2. /\ wApi.n = WNewest /\ WNewest > 0 /\ wSetup[WNewest] = "none" /\ wRemoving[0] = "no"
        BY <1>0, <2>1, WebConstants DEF WInv, WInTurn, WTypes, WAdding, WSteps
    <2>3. /\ wSetup' \in [1..WebListeners -> {"none", "sleep", "holding", "failed", "ended"}]
          /\ \A n \in 1..WebListeners : n # WNewest => wSetup'[n] = wSetup[n]
          /\ wRegistered' \subseteq WMade
      <3>1. WNewest \in 1..WebListeners /\ WNewest \in WMade
          BY <1>0, <2>2, WebConstants
      <3>2. /\ wSetup \in [1..WebListeners -> {"none", "sleep", "holding", "failed", "ended"}]
            /\ wRegistered' = wRegistered \cup {WNewest} \/ wRegistered' = wRegistered
            /\ wSetup' = [wSetup EXCEPT ![WNewest] = "sleep"] \/ wSetup' = wSetup
          BY <2>1, <2>2 DEF WInv, WTypes
      <3> QED
          BY <1>0, <3>1, <3>2
    <2>4. WTypes'
      <3>1. wApi' \in [step : {"idle", "remove", "candidate"} \cup WAdding, n : 0..WNewest]
          BY <1>0, <2>1
      <3>2. /\ wSink \in {"up", "stopping", "gone"} /\ wIp \in Seq(WebClients) /\ wEvicting \subseteq WMade
            /\ wRemoving \in [0..WebListeners -> WSteps]
          BY DEF WInv, WTypes
      <3> QED
          BY <1>0, <2>1, <2>3, <3>1, <3>2 DEF WTypes, WMade, WNewest
    <2>7. WInTurn'
      <3>1. wApi'.step \notin WAdding /\ wApi'.step \notin {"attach", "register"}
          BY <2>1 DEF WAdding
      <3>2. \A n \in 1..WebListeners : /\ wRemoving[n] # "no" => n # WNewest /\ wSetup'[n] = "failed"
                                       /\ n > WNewest => wSetup'[n] = "none"
          BY <1>0, <2>2, <2>3 DEF WInv, WInTurn
      <3> QED
          BY <2>1, <2>2, <3>1, <3>2 DEF WInTurn, WNewest
    <2>5. WKnown' /\ WEvicts' /\ WAlone'
        BY <2>1 DEF WInv, WKnown, WEvicts, WAlone
    <2>6. WForgets'
        BY <2>1, <2>2 DEF WInv, WForgets, WDetached
    <2> QED
        BY <2>4, <2>5, <2>6, <2>7 DEF WInv
  <1> QED
      BY <1>1, <1>2

LEMMA WCalls ==
  ASSUME WInv, \/ webrtc!Evict \/ webrtc!Prepare \/ webrtc!RemoveListener
               \/ webrtc!FindForCandidate \/ webrtc!UseForCandidate
  PROVE  WInv'
  <1>0. /\ WNewest \in Nat /\ WNewest <= WebListeners /\ WMade = 1..WNewest
        /\ wEvicting \subseteq WMade /\ 0 \in 0..WebListeners
      BY WebConstants DEF WInv, WTypes, WNewest, WMade
  <1>1. PICK a : a = wApi'
      OBVIOUS
  <1>2. /\ UNCHANGED <<wIp, wAttached, wRegistered, wSetup, wSink>>
        /\ wRemoving' = wRemoving \/ (wRemoving' = [wRemoving EXCEPT ![0] = "check"] /\ a.step \in {"evicting", "remove"})
        /\ a \in [step : {"idle", "remove", "candidate"} \cup WAdding, n : 0..WNewest]
        /\ \/ /\ wApi.step = "evict" /\ a.step = "evicting" /\ wEvicting' = wEvicting \ {a.n}
           \/ /\ wApi.step = "evict" /\ a = [step |-> "attach", n |-> WNewest] /\ wRemoving[0] = "no"
              /\ wEvicting = {} /\ UNCHANGED <<wEvicting, wRemoving>>
           \/ /\ a.step \in {"idle", "remove", "candidate"} /\ UNCHANGED wEvicting
              /\ wApi.step \in {"evict", "idle", "candidate"}
              /\ wApi.step = "evict" => wRemoving[0] = "no"
    <2>1. CASE webrtc!Evict
        BY <1>0, <1>1, <2>1 DEF webrtc!Evict, webrtc!ApiStep, webrtc!EngineStays, webrtc!sinkVars,
           webrtc!Api, WAdding
    <2>2. CASE webrtc!Prepare
        BY <1>0, <1>1, <2>2 DEF webrtc!Prepare, webrtc!ApiStep, webrtc!EngineStays, webrtc!sinkVars,
           webrtc!Api, WAdding, WNewest
    <2>3. CASE webrtc!RemoveListener
        BY <1>0, <1>1, <2>3 DEF webrtc!RemoveListener, webrtc!ApiStep, webrtc!EngineStays, webrtc!sinkVars,
           webrtc!Api, webrtc!Made, WMade, WAdding
    <2>4. CASE webrtc!FindForCandidate \/ webrtc!UseForCandidate
        BY <1>0, <1>1, <2>4 DEF webrtc!FindForCandidate, webrtc!UseForCandidate, webrtc!ApiStep,
           webrtc!EngineStays, webrtc!sinkVars, webrtc!Made, WMade, WAdding
    <2> QED
        BY <2>1, <2>2, <2>3, <2>4
  <1>3. /\ wRemoving'[0] \in {wRemoving[0], "check"} /\ \A n \in 1..WebListeners : wRemoving'[n] = wRemoving[n]
        /\ wRemoving' \in [0..WebListeners -> WSteps]
    <2>1. wRemoving \in [0..WebListeners -> WSteps] /\ "check" \in WSteps
        BY DEF WInv, WTypes, WSteps
    <2>2. wRemoving' = wRemoving \/ wRemoving' = [wRemoving EXCEPT ![0] = "check"]
        BY <1>2
    <2>3. \A n \in 1..WebListeners : n \in 0..WebListeners /\ n # 0
        BY WebConstants
    <2> QED
        BY <1>0, <2>1, <2>2, <2>3
  <1>4. WTypes'
      BY <1>0, <1>1, <1>2, <1>3 DEF WInv, WTypes, WMade, WNewest
  <1>5. wRemoving[0] = "forget" => wRemoving'[0] # "forget"
      BY <1>0, <1>2, <1>3 DEF WInv, WTypes, WInTurn, WSteps
  <1>6. WInTurn'
      BY <1>0, <1>1, <1>2, <1>3 DEF WInv, WTypes, WInTurn, WNewest, WAdding
  <1>7. WKnown' /\ WAlone'
      BY <1>1, <1>2 DEF WInv, WKnown, WAlone
  <1>8. WForgets'
      BY <1>1, <1>2, <1>3, <1>5 DEF WInv, WForgets, WDetached
  <1>9. WEvicts'
      BY <1>1, <1>2 DEF WInv, WEvicts, WRivals, WNewest
  <1> QED
      BY <1>4, <1>6, <1>7, <1>8, <1>9 DEF WInv

LEMMA WStep ==
  ASSUME WInv, webrtc!Next \/ UNCHANGED webVars PROVE WInv'
  BY WLeaves, WSetupStep, WApiRemoves, WAdds, WAttaches, WCalls, Zenon
     DEF webrtc!Next, webrtc!ApiCall

(* webrtc_manager.cpp:44-144, listener_dispatcher.cpp: however the calls of  *)
(* the API, the setup threads, the mixing thread and the removal of the sink *)
(* interleave, no client has two listeners on a sink, for any clients and    *)
(* any number of listeners.                                                  *)
THEOREM NoSecondListener == AllSpec => []OneListenerPerClient
  <1>1. WInv /\ [AllNext]_allVars => WInv'
      BY Apart, WStep
  <1>2. WInv => OneListenerPerClient
      BY Zenon DEF WInv, WAlone, OneListenerPerClient, webrtc!OneListenerPerClient
  <1> QED
      BY <1>1, <1>2, WBegins, PTL DEF AllSpec

-----------------------------------------------------------------------------
(* SinkMixer, its two instances at once.                                     *)
Rising(q)    == \A m, n \in DOMAIN q : m < n => q[m] < q[n]
Holds(q)     == {q[n] : n \in DOMAIN q}
Before(S, T) == \A a \in S, b \in T : a < b

(* The packets of one input, from those that were mixed, p, to its rings, R: *)
(* the buffer B of this cycle, the queue q, what the thread has in hand, h;  *)
(* c is the latest ring, T the one that is being emptied, F what was fed.    *)
(* Of the rings only these two can still be taken from.                      *)
XTyped(p, B, q, h, R, c, T, F) ==
  /\ p \in Seq(Nat) /\ B \subseteq Nat /\ q \in Seq(Nat) /\ h \in Seq(Nat)
  /\ R \in [1..MixerConnections -> Seq(Nat)] /\ c \in 0..MixerConnections
  /\ T \subseteq 1..c /\ F \in Nat
  /\ (\A a, b \in B : a = b) /\ (\A k, l \in T : k = l)
XPast(p, B, q, h) ==
  /\ Rising(p) /\ Rising(q) /\ Rising(h)
  /\ Before(Holds(p), B) /\ Before(Holds(p), Holds(q)) /\ Before(Holds(p), Holds(h))
  /\ Before(B, Holds(q)) /\ Before(B, Holds(h)) /\ Before(Holds(q), Holds(h))
XRings(R, c, F) ==
  \A k \in 1..MixerConnections :
    /\ Rising(R[k]) /\ Before(Holds(R[k]), {F + 1}) /\ (k > c => R[k] = <<>>)
    /\ \A l \in 1..MixerConnections : k < l => Before(Holds(R[k]), Holds(R[l]))
XAhead(S, R, c, T, F) ==
  Before(S, {F + 1}) /\ \A k \in 1..MixerConnections : k \in T \cup {c} => Before(S, Holds(R[k]))
XChain(p, B, q, h, R, c, T, F) ==
  /\ XTyped(p, B, q, h, R, c, T, F) /\ XPast(p, B, q, h) /\ XRings(R, c, F)
  /\ XAhead(Holds(p) \cup B \cup Holds(q) \cup Holds(h), R, c, T, F)

XFresh == xPc \in {"barrier", "mix"}
XB(i) == IF XFresh /\ i \in xActive \cap DOMAIN xBuffer THEN {xBuffer[i]} ELSE {}
XQ(i) == IF i \in DOMAIN xReady THEN xReady[i] ELSE <<>>
XH(i) == IF i \in xHand.input THEN xHand.chunks ELSE <<>>
XT(i) == {k \in 1..MixerConnections : <<i, k>> \in xTodo}
XNone == [input |-> {}, chunks |-> <<>>]

XTypes ==
  /\ xConn \in [MixerInputs -> 0..MixerConnections] /\ xFed \in [MixerInputs -> Nat]
  /\ xRing \in [MixerInputs -> [1..MixerConnections -> Seq(Nat)]]
  /\ xPlayed \in [MixerInputs -> Seq(Nat)]
  /\ xTodo \subseteq MixerInputs \X (1..MixerConnections)
  /\ xConnected \subseteq MixerInputs /\ \A i \in xConnected : xConn[i] > 0
  /\ DOMAIN xReady \subseteq MixerInputs /\ xActive \subseteq DOMAIN xReady
  /\ xPc # "append" => xHand = XNone
  /\ xPc = "append" => \E i \in MixerInputs, n \in Nat : xHand = [input |-> {i}, chunks |-> <<n>>]
XOrdered(i) == XChain(xPlayed[i], XB(i), XQ(i), XH(i), xRing[i], xConn[i], XT(i), xFed[i])
XInv == XTypes /\ \A i \in MixerInputs : XOrdered(i)

LEMMA FirstTaken ==
  ASSUME NEW q \in Seq(Nat), q # <<>>
  PROVE  /\ Head(q) \in Nat /\ Tail(q) \in Seq(Nat) /\ Holds(q) = {Head(q)} \cup Holds(Tail(q))
         /\ Rising(q) => Rising(Tail(q)) /\ Before({Head(q)}, Holds(Tail(q)))
  <1>1. /\ Len(q) \in Nat \ {0} /\ DOMAIN q = 1..Len(q) /\ Head(q) = q[1] /\ Head(q) \in Nat
        /\ Tail(q) \in Seq(Nat) /\ DOMAIN Tail(q) = 1..(Len(q) - 1)
        /\ \A n \in 1..(Len(q) - 1) : Tail(q)[n] = q[n + 1]
      OBVIOUS
  <1>2. Holds(q) \subseteq {Head(q)} \cup Holds(Tail(q))
    <2> SUFFICES ASSUME NEW n \in 1..Len(q), n # 1 PROVE q[n] \in Holds(Tail(q))
        BY <1>1 DEF Holds
    <2>1. n - 1 \in 1..(Len(q) - 1) /\ q[(n - 1) + 1] = q[n]
        BY <1>1
    <2> QED
        BY <1>1, <2>1 DEF Holds
  <1>3. {Head(q)} \cup Holds(Tail(q)) \subseteq Holds(q)
      BY <1>1 DEF Holds
  <1>4. Rising(q) => Rising(Tail(q)) /\ Before({Head(q)}, Holds(Tail(q)))
    <2> SUFFICES ASSUME Rising(q) PROVE Rising(Tail(q)) /\ Before({Head(q)}, Holds(Tail(q)))
        OBVIOUS
    <2>1. ASSUME NEW m \in 1..(Len(q) - 1) PROVE q[1] < Tail(q)[m]
      <3>1. 1 \in 1..Len(q) /\ m + 1 \in 1..Len(q) /\ 1 < m + 1
          BY <1>1
      <3> QED
          BY <1>1, <3>1 DEF Rising
    <2>2. ASSUME NEW m \in 1..(Len(q) - 1), NEW n \in 1..(Len(q) - 1), m < n
          PROVE  Tail(q)[m] < Tail(q)[n]
      <3>1. m + 1 \in 1..Len(q) /\ n + 1 \in 1..Len(q) /\ m + 1 < n + 1
          BY <1>1, <2>2
      <3> QED
          BY <1>1, <3>1 DEF Rising
    <2> QED
        BY <1>1, <2>1, <2>2 DEF Rising, Before, Holds
  <1> QED
      BY <1>1, <1>2, <1>3, <1>4

LEMMA LastAdded ==
  ASSUME NEW q \in Seq(Nat), NEW n \in Nat
  PROVE  /\ Append(q, n) \in Seq(Nat) /\ Holds(Append(q, n)) = Holds(q) \cup {n}
         /\ q \o <<n>> = Append(q, n)
         /\ Rising(q) /\ Before(Holds(q), {n}) => Rising(Append(q, n))
  <1>1. /\ Len(q) \in Nat /\ DOMAIN q = 1..Len(q) /\ Append(q, n) \in Seq(Nat)
        /\ DOMAIN Append(q, n) = 1..(Len(q) + 1) /\ Append(q, n)[Len(q) + 1] = n
        /\ \A m \in 1..Len(q) : Append(q, n)[m] = q[m]
      OBVIOUS
  <1>2. q \o <<n>> = Append(q, n)
      OBVIOUS
  <1>3. Holds(Append(q, n)) \subseteq Holds(q) \cup {n}
      BY <1>1 DEF Holds
  <1>4. Holds(q) \cup {n} \subseteq Holds(Append(q, n))
    <2>1. ASSUME NEW m \in 1..Len(q) PROVE q[m] \in Holds(Append(q, n))
        BY <1>1, <2>1 DEF Holds
    <2>2. n \in Holds(Append(q, n))
        BY <1>1 DEF Holds
    <2> QED
        BY <1>1, <2>1, <2>2 DEF Holds
  <1>5. Rising(q) /\ Before(Holds(q), {n}) => Rising(Append(q, n))
      BY <1>1 DEF Rising, Before, Holds
  <1> QED
      BY <1>1, <1>2, <1>3, <1>4, <1>5

LEMMA OldestDropped ==
  ASSUME NEW q \in Seq(Nat), NEW k \in 0..Len(q)
  PROVE  /\ SubSeq(q, k + 1, Len(q)) \in Seq(Nat) /\ Holds(SubSeq(q, k + 1, Len(q))) \subseteq Holds(q)
         /\ Rising(q) => Rising(SubSeq(q, k + 1, Len(q)))
  <1>1. PICK s : s = SubSeq(q, k + 1, Len(q))
      OBVIOUS
  <1>2. /\ Len(q) \in Nat /\ DOMAIN q = 1..Len(q) /\ s \in Seq(Nat) /\ DOMAIN s = 1..(Len(q) - k)
        /\ \A n \in 1..(Len(q) - k) : s[n] = q[n + k] /\ n + k \in 1..Len(q)
      BY <1>1
  <1>3. Holds(s) \subseteq Holds(q)
      BY <1>2 DEF Holds
  <1>4. Rising(q) => Rising(s)
    <2> SUFFICES ASSUME Rising(q), NEW m \in 1..(Len(q) - k), NEW n \in 1..(Len(q) - k), m < n
                 PROVE  s[m] < s[n]
        BY <1>2 DEF Rising
    <2>1. m + k \in 1..Len(q) /\ n + k \in 1..Len(q)
        BY <1>2
    <2>2. m \in Int /\ n \in Int /\ k \in Int
        BY <1>2
    <2>3. m + k < n + k
        BY <2>2
    <2> QED
        BY <1>2, <2>1, <2>3 DEF Rising
  <1> QED
      BY <1>1, <1>2, <1>3, <1>4

LEMMA EmptyHolds == Holds(<<>>) = {} /\ Rising(<<>>) /\ <<>> \in Seq(Nat)
  BY DEF Holds, Rising

LEMMA HoldsNumbers == \A q \in Seq(Nat) : Holds(q) \subseteq Nat
  BY DEF Holds

LEMMA OneHolds == \A n \in Nat : Holds(<<n>>) = {n} /\ Rising(<<n>>) /\ <<n>> \in Seq(Nat)
  BY DEF Holds, Rising

-----------------------------------------------------------------------------
(* What a step may do to the packets of an input.                            *)

(* Packets go, a ring is emptied or the snapshot takes the latest.           *)
LEMMA XGo ==
  ASSUME NEW p, NEW B, NEW q, NEW h, NEW R, NEW c, NEW T, NEW F, XChain(p, B, q, h, R, c, T, F),
         NEW B2 \in SUBSET B, NEW q2 \in {q, <<>>}, NEW T2, T2 \subseteq T \/ T2 \subseteq {c} \ {0}
  PROVE  XChain(p, B2, q2, h, R, c, T2, F)
  <1> USE DEF XChain
  <1>1. q2 \in Seq(Nat) /\ Rising(q2) /\ Holds(q2) \subseteq Holds(q)
      BY EmptyHolds DEF XTyped, XPast
  <1>2. T2 \subseteq 1..c /\ \A k, l \in T2 : k = l
    <2>1. CASE T2 \subseteq T
        BY <2>1 DEF XTyped
    <2>2. CASE T2 \subseteq {c} \ {0}
        BY <2>2, MixerConstants DEF XTyped
    <2> QED
        BY <2>1, <2>2
  <1>3. XTyped(p, B2, q2, h, R, c, T2, F)
      BY <1>1, <1>2 DEF XTyped
  <1>4. XPast(p, B2, q2, h)
      BY <1>1 DEF XPast, Before
  <1>5. XAhead(Holds(p) \cup B2 \cup Holds(q2) \cup Holds(h), R, c, T2, F)
    <2>1. T2 \cup {c} \subseteq T \cup {c}
        OBVIOUS
    <2> QED
        BY <1>1, <2>1 DEF XAhead, Before
  <1> QED
      BY <1>3, <1>4, <1>5

(* A new ring, an empty queue and no buffer.                                 *)
LEMMA XConnects ==
  ASSUME NEW p, NEW B, NEW q, NEW h, NEW R, NEW c, NEW T, NEW F, XChain(p, B, q, h, R, c, T, F),
         c < MixerConnections
  PROVE  XChain(p, {}, <<>>, h, R, c + 1, T, F)
  <1> USE DEF XChain
  <1>1. c \in Nat /\ c + 1 \in 1..MixerConnections /\ R[c + 1] = <<>>
      BY MixerConstants DEF XTyped, XRings
  <1>2. XTyped(p, {}, <<>>, h, R, c + 1, T, F)
    <2>1. T \subseteq 1..(c + 1) /\ c + 1 \in 0..MixerConnections
        BY <1>1 DEF XTyped
    <2> QED
        BY <2>1, EmptyHolds DEF XTyped
  <1>3. XPast(p, {}, <<>>, h)
      BY EmptyHolds DEF XPast, Before
  <1>4. XRings(R, c + 1, F)
    <2>1. \A k \in 1..MixerConnections : k > c + 1 => k > c
        BY <1>1
    <2> QED
        BY <2>1 DEF XRings
  <1>5. XAhead(Holds(p) \cup {} \cup Holds(<<>>) \cup Holds(h), R, c + 1, T, F)
      BY <1>1, EmptyHolds DEF XAhead, Before
  <1> QED
      BY <1>2, <1>3, <1>4, <1>5

(* A packet comes into the latest ring.                                      *)
LEMMA XFeeds ==
  ASSUME NEW p, NEW B, NEW q, NEW h, NEW R, NEW c, NEW T, NEW F, XChain(p, B, q, h, R, c, T, F),
         c > 0, NEW r \in {R[c], Tail(R[c])}, r = Tail(R[c]) => R[c] # <<>> \/ r = R[c]
  PROVE  XChain(p, B, q, h, [R EXCEPT ![c] = Append(r, F + 1)], c, T, F + 1)
  <1> USE DEF XChain
  <1>0. /\ c \in 1..MixerConnections /\ R[c] \in Seq(Nat) /\ F \in Nat /\ F + 1 \in Nat
        /\ \A k \in 1..MixerConnections : R[k] \in Seq(Nat) /\ Holds(R[k]) \subseteq Nat
    <2>1. c \in 1..MixerConnections /\ F \in Nat /\ F + 1 \in Nat
        BY MixerConstants DEF XTyped
    <2> QED
        BY <2>1, HoldsNumbers DEF XTyped
  <1>1. r \in Seq(Nat) /\ Rising(r) /\ Holds(r) \subseteq Holds(R[c])
    <2>1. Rising(R[c])
        BY <1>0 DEF XRings
    <2>2. CASE r = R[c]
        BY <1>0, <2>1, <2>2
    <2>3. CASE r # R[c]
        BY <1>0, <2>1, <2>3, FirstTaken
    <2> QED
        BY <2>2, <2>3
  <1>2. PICK a : a = Append(r, F + 1)
      OBVIOUS
  <1>3. a \in Seq(Nat) /\ Holds(a) = Holds(r) \cup {F + 1} /\ Rising(a)
    <2>1. Before(Holds(r), {F + 1})
        BY <1>0, <1>1 DEF XRings, Before
    <2> QED
        BY <1>0, <1>1, <1>2, <2>1, LastAdded
  <1>4. PICK S : S = [R EXCEPT ![c] = a]
      OBVIOUS
  <1>5. /\ S \in [1..MixerConnections -> Seq(Nat)] /\ S[c] = a
        /\ \A k \in 1..MixerConnections : k # c => S[k] = R[k]
      BY <1>0, <1>3, <1>4 DEF XTyped
  <1>6. XTyped(p, B, q, h, S, c, T, F + 1)
      BY <1>0, <1>5 DEF XTyped
  <1>7. XRings(S, c, F + 1)
    <2>1. ASSUME NEW k \in 1..MixerConnections
          PROVE  Rising(S[k]) /\ Before(Holds(S[k]), {(F + 1) + 1}) /\ (k > c => S[k] = <<>>)
      <3>1. CASE k = c
        <4>1. Before(Holds(R[k]), {F + 1}) /\ Holds(R[k]) \subseteq Nat
            BY <1>0 DEF XRings
        <4>2. Holds(S[k]) \subseteq Holds(R[k]) \cup {F + 1}
            BY <1>1, <1>3, <1>5, <3>1
        <4>3. F \in Nat /\ F + 1 < (F + 1) + 1
            BY <1>0 DEF XTyped
        <4>4. \A x \in Holds(S[k]) : x \in Nat /\ x < (F + 1) + 1
            BY <4>1, <4>2, <4>3 DEF Before
        <4>5. Before(Holds(S[k]), {(F + 1) + 1})
            BY <4>4 DEF Before
        <4> QED
            BY <1>0, <1>3, <1>5, <3>1, <4>5
      <3>2. CASE k # c
        <4>1. Before(Holds(R[k]), {F + 1}) /\ Holds(R[k]) \subseteq Nat
            BY <1>0 DEF XRings
        <4>2. Before(Holds(R[k]), {(F + 1) + 1})
            BY <1>0, <4>1 DEF Before
        <4> QED
            BY <1>5, <3>2, <4>2 DEF XRings
      <3> QED
          BY <3>1, <3>2
    <2>2. ASSUME NEW k \in 1..MixerConnections, NEW l \in 1..MixerConnections, k < l
          PROVE  Before(Holds(S[k]), Holds(S[l]))
      <3>1. Before(Holds(R[k]), Holds(R[l])) /\ Before(Holds(R[k]), {F + 1}) /\ (l > c => R[l] = <<>>)
          BY <2>2 DEF XRings
      <3>2. CASE k = c
        <4>1. l > c /\ S[l] = <<>>
            BY <1>0, <1>5, <2>2, <3>1, <3>2
        <4> QED
            BY <4>1, EmptyHolds DEF Before
      <3>3. CASE l = c
        <4>1. S[k] = R[k] /\ Holds(S[l]) = Holds(r) \cup {F + 1} /\ Holds(r) \subseteq Holds(R[l])
            BY <1>0, <1>1, <1>3, <1>5, <2>2, <3>3
        <4> QED
            BY <3>1, <4>1 DEF Before
      <3>4. CASE k # c /\ l # c
          BY <1>5, <3>1, <3>4
      <3> QED
          BY <3>2, <3>3, <3>4
    <2> QED
        BY <2>1, <2>2 DEF XRings
  <1>8. ASSUME NEW X, XAhead(X, R, c, T, F), X \subseteq Nat PROVE XAhead(X, S, c, T, F + 1)
    <2>1. Before(X, {(F + 1) + 1})
        BY <1>0, <1>8 DEF XAhead, Before
    <2>2. ASSUME NEW k \in 1..MixerConnections, k \in T \cup {c} PROVE Before(X, Holds(S[k]))
      <3>1. Before(X, {F + 1}) /\ Before(X, Holds(R[k]))
          BY <1>8, <2>2 DEF XAhead
      <3>2. Holds(S[k]) \subseteq Holds(R[k]) \cup {F + 1}
          BY <1>1, <1>3, <1>5
      <3> QED
          BY <3>1, <3>2 DEF Before
    <2> QED
        BY <2>1, <2>2 DEF XAhead
  <1>9. Holds(p) \cup B \cup Holds(q) \cup Holds(h) \subseteq Nat
      BY HoldsNumbers DEF XTyped
  <1> QED
      BY <1>2, <1>4, <1>6, <1>7, <1>8, <1>9

(* The oldest packet is taken from the ring that is being emptied.           *)
LEMMA XIngests ==
  ASSUME NEW p, NEW q, NEW R, NEW c, NEW T, NEW F, XChain(p, {}, q, <<>>, R, c, T, F),
         NEW k \in T, R[k] # <<>>, NEW h \in {<<>>, <<Head(R[k])>>}
  PROVE  XChain(p, {}, q, h, [R EXCEPT ![k] = Tail(R[k])], c, T, F)
  <1> USE DEF XChain
  <1>0. k \in 1..MixerConnections /\ k <= c /\ R[k] \in Seq(Nat) /\ c \in Nat
    <2>1. T \subseteq 1..c /\ c \in Nat /\ c <= MixerConnections
        BY MixerConstants DEF XTyped
    <2>2. k \in 1..MixerConnections /\ k <= c
        BY <2>1, MixerConstants
    <2> QED
        BY <2>1, <2>2 DEF XTyped
  <1>1. PICK x, t : x = Head(R[k]) /\ t = Tail(R[k])
      OBVIOUS
  <1>2. /\ x \in Nat /\ t \in Seq(Nat) /\ Holds(R[k]) = {x} \cup Holds(t)
        /\ Rising(t) /\ Before({x}, Holds(t))
    <2>1. Rising(R[k])
        BY <1>0 DEF XRings
    <2> QED
        BY <1>0, <1>1, <2>1, FirstTaken
  <1>3. PICK S : S = [R EXCEPT ![k] = t]
      OBVIOUS
  <1>4. /\ S \in [1..MixerConnections -> Seq(Nat)] /\ S[k] = t
        /\ \A j \in 1..MixerConnections : j # k => S[j] = R[j]
      BY <1>0, <1>2, <1>3 DEF XTyped
  <1>5. h \in Seq(Nat) /\ Rising(h) /\ Holds(h) \subseteq {x}
      BY <1>1, <1>2, OneHolds, EmptyHolds
  <1>6. \A j \in 1..MixerConnections : Holds(S[j]) \subseteq Holds(R[j]) /\ (R[j] = <<>> => S[j] = <<>>)
      BY <1>2, <1>4
  <1>7. XTyped(p, {}, q, h, S, c, T, F)
      BY <1>4, <1>5 DEF XTyped
  <1>8. Before(Holds(p), {x}) /\ Before(Holds(q), {x})
      BY <1>0, <1>2 DEF XAhead, Before
  <1>9. XPast(p, {}, q, h)
      BY <1>5, <1>8 DEF XPast, Before
  <1>10. XRings(S, c, F)
    <2>1. ASSUME NEW j \in 1..MixerConnections
          PROVE  Rising(S[j]) /\ Before(Holds(S[j]), {F + 1}) /\ (j > c => S[j] = <<>>)
      <3>1. Rising(S[j])
          BY <1>2, <1>4 DEF XRings
      <3>2. Before(Holds(R[j]), {F + 1}) /\ (j > c => R[j] = <<>>)
          BY DEF XRings
      <3> QED
          BY <1>6, <3>1, <3>2 DEF Before
    <2>2. ASSUME NEW j \in 1..MixerConnections, NEW l \in 1..MixerConnections, j < l
          PROVE  Before(Holds(S[j]), Holds(S[l]))
      <3>1. Before(Holds(R[j]), Holds(R[l]))
          BY <2>2 DEF XRings
      <3> QED
          BY <1>6, <3>1 DEF Before
    <2> QED
        BY <2>1, <2>2 DEF XRings
  <1>11. XAhead({x}, S, c, T, F)
    <2>1. Before({x}, {F + 1})
        BY <1>0, <1>2 DEF XRings, Before
    <2>2. ASSUME NEW j \in 1..MixerConnections, j \in T \cup {c} PROVE Before({x}, Holds(S[j]))
      <3>1. CASE j = k
          BY <1>2, <1>4, <3>1
      <3>2. CASE j # k
        <4>1. j = c /\ k < j
            BY <1>0, <2>2, <3>2 DEF XTyped
        <4>2. Before(Holds(R[k]), Holds(R[j]))
            BY <1>0, <4>1 DEF XRings
        <4> QED
            BY <1>2, <1>4, <3>2, <4>2 DEF Before
      <3> QED
          BY <3>1, <3>2
    <2> QED
        BY <2>1, <2>2 DEF XAhead
  <1>12. XAhead(Holds(p) \cup {} \cup Holds(q) \cup Holds(h), S, c, T, F)
      BY <1>5, <1>6, <1>11 DEF XAhead, Before
  <1> QED
      BY <1>1, <1>3, <1>7, <1>9, <1>10, <1>12

(* What was in hand joins the queue, which may lose its oldest.              *)
LEMMA XQueues ==
  ASSUME NEW p, NEW B, NEW q, NEW n \in Nat, NEW R, NEW c, NEW T, NEW F,
         XChain(p, B, q, <<n>>, R, c, T, F),
         NEW k \in 0..Len(q \o <<n>>)
  PROVE  XChain(p, B, SubSeq(q \o <<n>>, k + 1, Len(q \o <<n>>)), <<>>, R, c, T, F)
  <1> USE DEF XChain
  <1>1. PICK a : a = q \o <<n>>
      OBVIOUS
  <1>2. a \in Seq(Nat) /\ Holds(a) = Holds(q) \cup {n} /\ Rising(a)
    <2>1. q \in Seq(Nat) /\ Rising(q) /\ Before(Holds(q), {n})
        BY OneHolds DEF XTyped, XPast
    <2> QED
        BY <1>1, <2>1, LastAdded
  <1>3. PICK s : s = SubSeq(a, k + 1, Len(a))
      OBVIOUS
  <1>4. s \in Seq(Nat) /\ Holds(s) \subseteq Holds(q) \cup {n} /\ Rising(s)
      BY <1>1, <1>2, <1>3, OldestDropped
  <1>5. XTyped(p, B, s, <<>>, R, c, T, F)
      BY <1>4, EmptyHolds DEF XTyped
  <1>6. XPast(p, B, s, <<>>)
      BY <1>4, OneHolds, EmptyHolds DEF XPast, Before
  <1>7. XAhead(Holds(p) \cup B \cup Holds(s) \cup Holds(<<>>), R, c, T, F)
      BY <1>4, OneHolds, EmptyHolds DEF XAhead, Before
  <1> QED
      BY <1>1, <1>3, <1>5, <1>6, <1>7

(* The oldest of the queue becomes the buffer, or is thrown away.            *)
LEMMA XCollects ==
  ASSUME NEW p, NEW q, NEW R, NEW c, NEW T, NEW F, XChain(p, {}, q, <<>>, R, c, T, F),
         q # <<>>, NEW B \in {{}, {Head(q)}}
  PROVE  XChain(p, B, Tail(q), <<>>, R, c, T, F)
  <1> USE DEF XChain
  <1>1. PICK x, t : x = Head(q) /\ t = Tail(q)
      OBVIOUS
  <1>2. /\ x \in Nat /\ t \in Seq(Nat) /\ Holds(q) = {x} \cup Holds(t)
        /\ Rising(t) /\ Before({x}, Holds(t)) /\ B \subseteq {x}
      BY <1>1, FirstTaken DEF XTyped, XPast
  <1>3. XTyped(p, B, t, <<>>, R, c, T, F)
      BY <1>2 DEF XTyped
  <1>4. XPast(p, B, t, <<>>)
      BY <1>2, EmptyHolds DEF XPast, Before
  <1>5. XAhead(Holds(p) \cup B \cup Holds(t) \cup Holds(<<>>), R, c, T, F)
      BY <1>2, EmptyHolds DEF XAhead, Before
  <1> QED
      BY <1>1, <1>3, <1>4, <1>5

(* The buffer is mixed.                                                      *)
LEMMA XMixes ==
  ASSUME NEW p, NEW b, NEW q, NEW h, NEW R, NEW c, NEW T, NEW F,
         XChain(p, {b}, q, h, R, c, T, F)
  PROVE  XChain(Append(p, b), {}, q, h, R, c, T, F)
  <1> USE DEF XChain
  <1>1. PICK a : a = Append(p, b)
      OBVIOUS
  <1>2. a \in Seq(Nat) /\ Holds(a) = Holds(p) \cup {b} /\ Rising(a)
      BY <1>1, LastAdded DEF XTyped, XPast
  <1>3. XTyped(a, {}, q, h, R, c, T, F)
      BY <1>2 DEF XTyped
  <1>4. XPast(a, {}, q, h)
      BY <1>2 DEF XPast, Before
  <1>5. XAhead(Holds(a) \cup {} \cup Holds(q) \cup Holds(h), R, c, T, F)
      BY <1>2 DEF XAhead, Before
  <1> QED
      BY <1>1, <1>3, <1>4, <1>5

-----------------------------------------------------------------------------
LEMMA XBegins == AllInit => XInv
  <1> SUFFICES ASSUME AllInit PROVE XInv
      OBVIOUS
  <1>1. /\ xPc = "tick" /\ xConnected = {} /\ xActive = {} /\ xTodo = {} /\ xHand = mixer!None
        /\ xConn = [i \in MixerInputs |-> 0]
        /\ xRing = [i \in MixerInputs |-> [k \in 1..MixerConnections |-> <<>>]]
        /\ xFed = [i \in MixerInputs |-> 0]
        /\ xReady = mixer!Empty /\ xBuffer = mixer!Empty
        /\ xPlayed = [i \in MixerInputs |-> <<>>]
      BY Zenon DEF AllInit, mixer!Init
  <1>2. DOMAIN xReady = {} /\ xHand = XNone
      BY <1>1 DEF mixer!Empty, mixer!None, XNone
  <1>3. XTypes
      BY <1>1, <1>2, MixerConstants DEF XTypes
  <1>4. ASSUME NEW i \in MixerInputs PROVE XOrdered(i)
    <2>1. /\ xPlayed[i] = <<>> /\ XB(i) = {} /\ XQ(i) = <<>> /\ XH(i) = <<>> /\ xConn[i] = 0 /\ XT(i) = {}
          /\ xRing[i] = [k \in 1..MixerConnections |-> <<>>] /\ xFed[i] = 0
        BY <1>1, <1>2 DEF XB, XQ, XH, XT, XNone, XFresh
    <2>2. \A k \in 1..MixerConnections : xRing[i][k] = <<>>
        BY <2>1
    <2>3. XTyped(<<>>, {}, <<>>, <<>>, xRing[i], 0, {}, 0)
        BY <2>1, EmptyHolds, MixerConstants DEF XTyped
    <2>4. XPast(<<>>, {}, <<>>, <<>>) /\ XRings(xRing[i], 0, 0)
          /\ XAhead(Holds(<<>>) \cup {} \cup Holds(<<>>) \cup Holds(<<>>), xRing[i], 0, {}, 0)
        BY <2>2, EmptyHolds DEF XPast, XRings, XAhead, Before
    <2> QED
        BY <2>1, <2>3, <2>4 DEF XOrdered, XChain
  <1> QED
      BY <1>3, <1>4 DEF XInv

(* The state of the next step, one input at a time.                          *)
LEMMA XMoves ==
  ASSUME NEW i \in MixerInputs, NEW p, NEW B, NEW q, NEW h, NEW R, NEW c, NEW T, NEW F,
         XChain(p, B, q, h, R, c, T, F),
         xPlayed'[i] = p, XB(i)' = B, XQ(i)' = q, XH(i)' = h, xRing'[i] = R, xConn'[i] = c,
         XT(i)' = T, xFed'[i] = F
  PROVE  XOrdered(i)'
  BY DEF XOrdered

(* The clock, the barrier, the sender and whoever only moves the thread on.  *)
LEMMA XIdles ==
  ASSUME XInv, UNCHANGED <<xConnected, xConn, xRing, xFed, xReady, xActive, xBuffer, xTodo, xHand,
                           xPlayed>>,
         \/ UNCHANGED xPc
         \/ xPc # "append" /\ xPc' \notin {"append", "barrier", "mix"}
         \/ xPc = "barrier" /\ xPc' = "mix"
  PROVE  XInv'
  <1>1. XTypes'
      BY DEF XInv, XTypes
  <1>2. XFresh' => XFresh
      BY DEF XFresh
  <1>3. ASSUME NEW i \in MixerInputs PROVE XOrdered(i)'
    <2>1. /\ XB(i)' \subseteq XB(i) /\ XQ(i)' = XQ(i) /\ XH(i)' = XH(i) /\ XT(i)' = XT(i)
          /\ xPlayed'[i] = xPlayed[i] /\ xRing'[i] = xRing[i] /\ xConn'[i] = xConn[i] /\ xFed'[i] = xFed[i]
        BY <1>2 DEF XB, XQ, XH, XT
    <2>2. XChain(xPlayed[i], XB(i), XQ(i), XH(i), xRing[i], xConn[i], XT(i), xFed[i])
        BY DEF XInv, XOrdered
    <2>3. PICK B2 : B2 = XB(i)'
        OBVIOUS
    <2>4. XChain(xPlayed[i], B2, XQ(i), XH(i), xRing[i], xConn[i], XT(i), xFed[i])
        BY <2>1, <2>2, <2>3, XGo
    <2> QED
        BY <2>1, <2>3, <2>4, XMoves
  <1> QED
      BY <1>1, <1>3 DEF XInv

(* A snapshot of the latest rings, or one ring less to be emptied.           *)
LEMMA XSnapshots ==
  ASSUME XInv, NEW j, NEW k,
         \/ mixer!WaitForTick \/ hurry!WaitForTick
         \/ mixer!RingDrained(j, k) \/ hurry!RingDrained(j, k)
  PROVE  XInv'
  <1>1. /\ UNCHANGED <<xConnected, xConn, xRing, xFed, xReady, xActive, xBuffer, xHand, xPlayed>>
        /\ xPc # "append" /\ xPc' = "ingest"
        /\ xTodo' \subseteq xTodo \/ xTodo' = {<<i, xConn[i]>> : i \in xConnected}
      BY DEF mixer!WaitForTick, mixer!RingDrained, mixer!Snapshot, mixer!inputVars, mixer!queueVars,
         hurry!WaitForTick, hurry!RingDrained, hurry!Snapshot, hurry!inputVars, hurry!queueVars
  <1>2. \A i \in xConnected : i \in MixerInputs /\ xConn[i] \in 1..MixerConnections
      BY MixerConstants DEF XInv, XTypes
  <1>3. xTodo' \subseteq MixerInputs \X (1..MixerConnections)
      BY <1>1, <1>2 DEF XInv, XTypes
  <1>4. XTypes'
      BY <1>1, <1>3 DEF XInv, XTypes
  <1>5. ASSUME NEW i \in MixerInputs PROVE XOrdered(i)'
    <2>1. /\ XB(i)' = {} /\ XQ(i)' = XQ(i) /\ XH(i)' = XH(i)
          /\ xPlayed'[i] = xPlayed[i] /\ xRing'[i] = xRing[i] /\ xConn'[i] = xConn[i] /\ xFed'[i] = xFed[i]
        BY <1>1 DEF XB, XQ, XH, XFresh
    <2>2. XT(i)' \subseteq XT(i) \/ XT(i)' \subseteq {xConn[i]} \ {0}
      <3>1. CASE xTodo' \subseteq xTodo
          BY <3>1 DEF XT
      <3>2. CASE xTodo' = {<<m, xConn[m]>> : m \in xConnected}
        <4>1. ASSUME NEW l \in 1..MixerConnections, <<i, l>> \in xTodo' PROVE l = xConn[i] /\ l # 0
            BY <3>2, <4>1
        <4> QED
            BY <4>1 DEF XT
      <3> QED
          BY <1>1, <3>1, <3>2
    <2>3. XChain(xPlayed[i], XB(i), XQ(i), XH(i), xRing[i], xConn[i], XT(i), xFed[i])
        BY DEF XInv, XOrdered
    <2>4. PICK T2 : T2 = XT(i)'
        OBVIOUS
    <2>5. XChain(xPlayed[i], {}, XQ(i), XH(i), xRing[i], xConn[i], T2, xFed[i])
        BY <2>2, <2>3, <2>4, XGo
    <2> QED
        BY <2>1, <2>4, <2>5, XMoves
  <1> QED
      BY <1>4, <1>5 DEF XInv

LEMMA XAddsInput ==
  ASSUME XInv, NEW j \in MixerInputs, mixer!AddInputQueue(j) \/ hurry!AddInputQueue(j)
  PROVE  XInv'
  <1>1. /\ UNCHANGED <<xPc, xRing, xFed, xTodo, xHand, xPlayed>>
        /\ xConn[j] < MixerConnections /\ xConnected' = xConnected \cup {j}
        /\ xConn' = [xConn EXCEPT ![j] = @ + 1] /\ xActive' = xActive \ {j}
        /\ DOMAIN xReady' = DOMAIN xReady \cup {j} /\ xReady'[j] = <<>>
        /\ \A i \in DOMAIN xReady \ {j} : xReady'[i] = xReady[i]
        /\ DOMAIN xBuffer' = DOMAIN xBuffer \cup {j}
        /\ \A i \in DOMAIN xBuffer \ {j} : xBuffer'[i] = xBuffer[i]
      BY DEF mixer!AddInputQueue, mixer!Set, hurry!AddInputQueue, hurry!Set
  <1>2. /\ xConn[j] \in Nat /\ xConn'[j] = xConn[j] + 1 /\ \A i \in MixerInputs : i # j => xConn'[i] = xConn[i]
        /\ xConn' \in [MixerInputs -> 0..MixerConnections]
      BY <1>1, MixerConstants DEF XInv, XTypes
  <1>3. XTypes'
      BY <1>1, <1>2 DEF XInv, XTypes
  <1>4. ASSUME NEW i \in MixerInputs PROVE XOrdered(i)'
    <2>1. /\ XH(i)' = XH(i) /\ XT(i)' = XT(i)
          /\ xPlayed'[i] = xPlayed[i] /\ xRing'[i] = xRing[i] /\ xFed'[i] = xFed[i]
        BY <1>1 DEF XH, XT
    <2>2. XChain(xPlayed[i], XB(i), XQ(i), XH(i), xRing[i], xConn[i], XT(i), xFed[i])
        BY DEF XInv, XOrdered
    <2>3. CASE i = j
      <3>1. XB(i)' = {} /\ XQ(i)' = <<>>
          BY <1>1, <2>3 DEF XB, XQ
      <3>2. XChain(xPlayed[i], {}, <<>>, XH(i), xRing[i], xConn[i] + 1, XT(i), xFed[i])
          BY <1>1, <2>2, <2>3, XConnects
      <3> QED
          BY <1>2, <2>1, <2>3, <3>1, <3>2, XMoves
    <2>4. CASE i # j
      <3>1. XB(i)' = XB(i) /\ XQ(i)' = XQ(i)
          BY <1>1, <2>4 DEF XB, XQ, XFresh
      <3> QED
          BY <1>2, <2>1, <2>2, <2>4, <3>1, XMoves
    <2> QED
        BY <2>3, <2>4
  <1> QED
      BY <1>3, <1>4 DEF XInv

LEMMA XRemovesInput ==
  ASSUME XInv, NEW j \in MixerInputs, mixer!RemoveInputQueue(j) \/ hurry!RemoveInputQueue(j)
  PROVE  XInv'
  <1>1. /\ UNCHANGED <<xPc, xRing, xFed, xConn, xTodo, xHand, xPlayed>>
        /\ xConnected' = xConnected \ {j} /\ xActive' = xActive \ {j}
        /\ DOMAIN xReady' = DOMAIN xReady \ {j}
        /\ \A i \in DOMAIN xReady \ {j} : xReady'[i] = xReady[i]
        /\ DOMAIN xBuffer' = DOMAIN xBuffer \ {j}
        /\ \A i \in DOMAIN xBuffer \ {j} : xBuffer'[i] = xBuffer[i]
      BY DEF mixer!RemoveInputQueue, mixer!Without, hurry!RemoveInputQueue, hurry!Without
  <1>2. XTypes'
      BY <1>1 DEF XInv, XTypes
  <1>3. ASSUME NEW i \in MixerInputs PROVE XOrdered(i)'
    <2>1. /\ XH(i)' = XH(i) /\ XT(i)' = XT(i)
          /\ xPlayed'[i] = xPlayed[i] /\ xRing'[i] = xRing[i] /\ xConn'[i] = xConn[i] /\ xFed'[i] = xFed[i]
        BY <1>1 DEF XH, XT
    <2>2. XB(i)' \subseteq XB(i) /\ XQ(i)' \in {XQ(i), <<>>}
        BY <1>1 DEF XB, XQ, XFresh
    <2>3. XChain(xPlayed[i], XB(i), XQ(i), XH(i), xRing[i], xConn[i], XT(i), xFed[i])
        BY DEF XInv, XOrdered
    <2>4. PICK B2, q2 : B2 = XB(i)' /\ q2 = XQ(i)'
        OBVIOUS
    <2>5. XChain(xPlayed[i], B2, q2, XH(i), xRing[i], xConn[i], XT(i), xFed[i])
        BY <2>2, <2>3, <2>4, XGo
    <2> QED
        BY <2>1, <2>4, <2>5, XMoves
  <1> QED
      BY <1>2, <1>3 DEF XInv

LEMMA XFeedsInput ==
  ASSUME XInv, NEW j \in MixerInputs, mixer!Feed(j) \/ hurry!Feed(j)
  PROVE  XInv'
  <1>1. /\ UNCHANGED <<xPc, xConnected, xConn, xReady, xActive, xBuffer, xTodo, xHand, xPlayed>>
        /\ j \in xConnected /\ xFed' = [xFed EXCEPT ![j] = @ + 1]
        /\ xRing' = [xRing EXCEPT ![j][xConn[j]] =
              Append(IF Len(@) = MixerRing THEN Tail(@) ELSE @, xFed[j] + 1)]
      BY Zenon DEF mixer!Feed, mixer!queueVars, hurry!Feed, hurry!queueVars
  <1>2. PICK c, F : c = xConn[j] /\ F = xFed[j]
      OBVIOUS
  <1>3. /\ c \in 1..MixerConnections /\ F \in Nat /\ xRing[j] \in [1..MixerConnections -> Seq(Nat)]
        /\ xRing[j][c] \in Seq(Nat)
      BY <1>1, <1>2, MixerConstants DEF XInv, XTypes
  <1>4. PICK r : r = IF Len(xRing[j][c]) = MixerRing THEN Tail(xRing[j][c]) ELSE xRing[j][c]
      OBVIOUS
  <1>5. /\ r \in {xRing[j][c], Tail(xRing[j][c])} /\ r \in Seq(Nat)
        /\ r = Tail(xRing[j][c]) => xRing[j][c] # <<>> \/ r = xRing[j][c]
    <2>1. Len(xRing[j][c]) = MixerRing => xRing[j][c] # <<>>
        BY <1>3, MixerConstants
    <2> QED
        BY <1>3, <1>4, <2>1, FirstTaken
  <1>6. PICK S : S = [xRing[j] EXCEPT ![c] = Append(r, F + 1)]
      OBVIOUS
  <1>7. /\ S \in [1..MixerConnections -> Seq(Nat)] /\ xRing' = [xRing EXCEPT ![j] = S]
      BY <1>1, <1>2, <1>3, <1>4, <1>5, <1>6
  <1>8. /\ xRing'[j] = S /\ xFed'[j] = F + 1 /\ xRing' \in [MixerInputs -> [1..MixerConnections -> Seq(Nat)]]
        /\ xFed' \in [MixerInputs -> Nat]
        /\ \A i \in MixerInputs : i # j => xRing'[i] = xRing[i] /\ xFed'[i] = xFed[i]
    <2>1. xRing \in [MixerInputs -> [1..MixerConnections -> Seq(Nat)]] /\ xFed \in [MixerInputs -> Nat]
        BY DEF XInv, XTypes
    <2>2. xRing'[j] = S /\ xRing' \in [MixerInputs -> [1..MixerConnections -> Seq(Nat)]]
        BY <1>7, <2>1
    <2>3. F + 1 \in Nat /\ xFed' = [xFed EXCEPT ![j] = F + 1]
        BY <1>1, <1>2, <1>3
    <2>4. xFed'[j] = F + 1 /\ xFed' \in [MixerInputs -> Nat]
        BY <2>1, <2>3
    <2>5. \A i \in MixerInputs : i # j => xRing'[i] = xRing[i] /\ xFed'[i] = xFed[i]
        BY <1>7, <2>1, <2>3
    <2> QED
        BY <2>2, <2>4, <2>5
  <1>9. XTypes'
      BY <1>1, <1>8 DEF XInv, XTypes
  <1>10. ASSUME NEW i \in MixerInputs PROVE XOrdered(i)'
    <2>1. /\ XB(i)' = XB(i) /\ XQ(i)' = XQ(i) /\ XH(i)' = XH(i) /\ XT(i)' = XT(i)
          /\ xPlayed'[i] = xPlayed[i] /\ xConn'[i] = xConn[i]
        BY <1>1 DEF XB, XQ, XH, XT, XFresh
    <2>2. XChain(xPlayed[i], XB(i), XQ(i), XH(i), xRing[i], xConn[i], XT(i), xFed[i])
        BY DEF XInv, XOrdered
    <2>3. CASE i = j
      <3>1. XChain(xPlayed[i], XB(i), XQ(i), XH(i), S, xConn[i], XT(i), F + 1)
        <4>1. PICK R : R = xRing[j]
            OBVIOUS
        <4>2. XChain(xPlayed[i], XB(i), XQ(i), XH(i), R, c, XT(i), F)
            BY <1>2, <2>2, <2>3, <4>1
        <4>3. /\ c > 0 /\ r \in {R[c], Tail(R[c])} /\ (r = Tail(R[c]) => R[c] # <<>> \/ r = R[c])
              /\ S = [R EXCEPT ![c] = Append(r, F + 1)]
            BY <1>3, <1>5, <1>6, <4>1
        <4>4. XChain(xPlayed[i], XB(i), XQ(i), XH(i), S, c, XT(i), F + 1)
            BY <4>2, <4>3, XFeeds
        <4> QED
            BY <1>2, <2>3, <4>4
      <3> QED
          BY <1>8, <2>1, <2>3, <3>1, XMoves
    <2>4. CASE i # j
        BY <1>8, <2>1, <2>2, <2>4, XMoves
    <2> QED
        BY <2>3, <2>4
  <1> QED
      BY <1>9, <1>10 DEF XInv

LEMMA XIngestsPacket ==
  ASSUME XInv, NEW j \in MixerInputs, NEW k \in 1..MixerConnections,
         mixer!IngestPacket(j, k) \/ hurry!IngestPacket(j, k)
  PROVE  XInv'
  <1>1. /\ UNCHANGED <<xConnected, xConn, xFed, xReady, xActive, xBuffer, xTodo, xPlayed>>
        /\ xPc = "ingest" /\ <<j, k>> \in xTodo /\ xRing[j][k] # <<>>
        /\ xRing' = [xRing EXCEPT ![j][k] = Tail(@)]
        /\ \/ UNCHANGED <<xPc, xHand>>
           \/ xPc' = "append" /\ xHand' = [input |-> {j}, chunks |-> <<Head(xRing[j][k])>>]
      BY DEF mixer!IngestPacket, mixer!queueVars, hurry!IngestPacket, hurry!queueVars
  <1>2. PICK R : R = xRing[j]
      OBVIOUS
  <1>3. R \in [1..MixerConnections -> Seq(Nat)] /\ xHand = XNone
      BY <1>1, <1>2 DEF XInv, XTypes
  <1>4. PICK x, t : x = Head(R[k]) /\ t = Tail(R[k])
      OBVIOUS
  <1>5. x \in Nat /\ t \in Seq(Nat)
      BY <1>1, <1>2, <1>3, <1>4, FirstTaken
  <1>6. PICK S : S = [R EXCEPT ![k] = t]
      OBVIOUS
  <1>7. /\ S \in [1..MixerConnections -> Seq(Nat)] /\ xRing' = [xRing EXCEPT ![j] = S]
      BY <1>1, <1>2, <1>3, <1>4, <1>5, <1>6
  <1>8. /\ xRing'[j] = S /\ xRing' \in [MixerInputs -> [1..MixerConnections -> Seq(Nat)]]
        /\ \A i \in MixerInputs : i # j => xRing'[i] = xRing[i]
    <2>1. xRing \in [MixerInputs -> [1..MixerConnections -> Seq(Nat)]]
        BY DEF XInv, XTypes
    <2> QED
        BY <1>7, <2>1
  <1>9. XTypes'
    <2>1. CASE UNCHANGED <<xPc, xHand>>
        BY <1>1, <1>8, <2>1 DEF XInv, XTypes
    <2>2. CASE xPc' = "append" /\ xHand' = [input |-> {j}, chunks |-> <<x>>]
        BY <1>1, <1>5, <1>8, <2>2 DEF XInv, XTypes
    <2> QED
        BY <1>1, <1>2, <1>4, <2>1, <2>2
  <1>10. ASSUME NEW i \in MixerInputs PROVE XOrdered(i)'
    <2>1. /\ XB(i) = {} /\ XB(i)' = {} /\ XQ(i)' = XQ(i) /\ XT(i)' = XT(i) /\ XH(i) = <<>>
          /\ xPlayed'[i] = xPlayed[i] /\ xConn'[i] = xConn[i] /\ xFed'[i] = xFed[i]
        BY <1>1, <1>3 DEF XB, XQ, XH, XT, XFresh, XNone
    <2>2. XChain(xPlayed[i], {}, XQ(i), <<>>, xRing[i], xConn[i], XT(i), xFed[i])
        BY <2>1 DEF XInv, XOrdered
    <2>3. CASE i = j
      <3>1. PICK h : h = XH(i)'
          OBVIOUS
      <3>2. h \in {<<>>, <<Head(R[k])>>}
          BY <1>1, <1>2, <1>3, <2>3, <3>1 DEF XH, XNone
      <3>3. k \in XT(i)
          BY <1>1, <2>3 DEF XT
      <3>4. XChain(xPlayed[i], {}, XQ(i), <<>>, R, xConn[i], XT(i), xFed[i]) /\ R[k] # <<>>
          BY <1>1, <1>2, <2>2, <2>3
      <3>5. XChain(xPlayed[i], {}, XQ(i), h, S, xConn[i], XT(i), xFed[i])
          BY <1>4, <1>6, <3>2, <3>3, <3>4, XIngests
      <3> QED
          BY <1>8, <2>1, <2>3, <3>1, <3>5, XMoves
    <2>4. CASE i # j
      <3>1. XH(i)' = <<>>
          BY <1>1, <1>3, <2>4 DEF XH, XNone
      <3> QED
          BY <1>8, <2>1, <2>2, <2>4, <3>1, XMoves
    <2> QED
        BY <2>3, <2>4
  <1> QED
      BY <1>9, <1>10 DEF XInv

LEMMA XAppends ==
  ASSUME XInv, mixer!AppendReady \/ hurry!AppendReady
  PROVE  XInv'
  <1>1. PICK j \in MixerInputs, n \in Nat : xHand = [input |-> {j}, chunks |-> <<n>>] /\ xPc = "append"
      BY DEF mixer!AppendReady, hurry!AppendReady, XInv, XTypes
  <1>2. PICK a : a = XQ(j) \o <<n>>
      OBVIOUS
  <1>3. /\ UNCHANGED <<xConnected, xConn, xRing, xFed, xActive, xBuffer, xTodo, xPlayed>>
        /\ xPc' = "ingest" /\ xHand' = XNone
        /\ DOMAIN xReady' = DOMAIN xReady \cup {j}
        /\ \A i \in DOMAIN xReady \ {j} : xReady'[i] = xReady[i]
        /\ \E k \in 0..(IF Len(a) > MixerQueued THEN Len(a) - MixerQueued ELSE 0) :
             xReady'[j] = SubSeq(a, k + 1, Len(a))
    <2>1. CASE mixer!AppendReady
      <3>1. /\ UNCHANGED <<xConnected, xConn, xRing, xFed, xActive, xBuffer, xTodo, xPlayed>>
            /\ xPc' = "ingest" /\ xHand' = XNone
            /\ \E i \in {j} : \E q \in mixer!Dropped(XQ(i) \o <<n>>) : xReady' = mixer!Set(xReady, i, q)
          BY <1>1, <2>1 DEF mixer!AppendReady, mixer!inputVars, mixer!None, XNone, mixer!QueueOf, XQ
      <3>2. PICK q \in mixer!Dropped(a) : xReady' = mixer!Set(xReady, j, q)
          BY <1>2, <3>1
      <3>3. \E k \in 0..(IF Len(a) > MixerQueued THEN Len(a) - MixerQueued ELSE 0) : q = SubSeq(a, k + 1, Len(a))
          BY <3>2 DEF mixer!Dropped
      <3>4. DOMAIN xReady' = DOMAIN xReady \cup {j} /\ xReady'[j] = q
            /\ \A i \in DOMAIN xReady \ {j} : xReady'[i] = xReady[i]
          BY <3>2 DEF mixer!Set
      <3> QED
          BY <3>1, <3>3, <3>4
    <2>2. CASE hurry!AppendReady
      <3>1. /\ UNCHANGED <<xConnected, xConn, xRing, xFed, xActive, xBuffer, xTodo, xPlayed>>
            /\ xPc' = "ingest" /\ xHand' = XNone
            /\ \E i \in {j} : \E q \in hurry!Dropped(XQ(i) \o <<n>>) : xReady' = hurry!Set(xReady, i, q)
          BY <1>1, <2>2 DEF hurry!AppendReady, hurry!inputVars, hurry!None, XNone, hurry!QueueOf, XQ
      <3>2. PICK q \in hurry!Dropped(a) : xReady' = hurry!Set(xReady, j, q)
          BY <1>2, <3>1
      <3>3. \E k \in 0..(IF Len(a) > MixerQueued THEN Len(a) - MixerQueued ELSE 0) : q = SubSeq(a, k + 1, Len(a))
          BY <3>2 DEF hurry!Dropped
      <3>4. DOMAIN xReady' = DOMAIN xReady \cup {j} /\ xReady'[j] = q
            /\ \A i \in DOMAIN xReady \ {j} : xReady'[i] = xReady[i]
          BY <3>2 DEF hurry!Set
      <3> QED
          BY <3>1, <3>3, <3>4
    <2> QED
        BY <2>1, <2>2
  <1>4. XTypes'
      BY <1>1, <1>3 DEF XInv, XTypes
  <1>5. ASSUME NEW i \in MixerInputs PROVE XOrdered(i)'
    <2>1. /\ XB(i) = {} /\ XB(i)' = {} /\ XT(i)' = XT(i) /\ XH(i)' = <<>>
          /\ xPlayed'[i] = xPlayed[i] /\ xConn'[i] = xConn[i] /\ xFed'[i] = xFed[i] /\ xRing'[i] = xRing[i]
        BY <1>1, <1>3 DEF XB, XH, XT, XFresh, XNone
    <2>2. XChain(xPlayed[i], {}, XQ(i), XH(i), xRing[i], xConn[i], XT(i), xFed[i])
        BY <2>1 DEF XInv, XOrdered
    <2>3. CASE i = j
      <3>1. XH(i) = <<n>> /\ XQ(i)' = xReady'[i]
          BY <1>1, <1>3, <2>3 DEF XH, XQ
      <3>2. PICK q : q = XQ(i)
          OBVIOUS
      <3>3. q \in Seq(Nat) /\ a = q \o <<n>> /\ Len(a) \in Nat
          BY <1>2, <2>2, <2>3, <3>2 DEF XChain, XTyped
      <3>4. PICK k \in 0..(IF Len(a) > MixerQueued THEN Len(a) - MixerQueued ELSE 0) :
              xReady'[j] = SubSeq(a, k + 1, Len(a))
          BY <1>3
      <3>5. k \in 0..Len(a)
          BY <3>3, <3>4, MixerConstants
      <3>6. XChain(xPlayed[i], {}, q, <<n>>, xRing[i], xConn[i], XT(i), xFed[i])
          BY <2>2, <3>1, <3>2
      <3>7. XChain(xPlayed[i], {}, SubSeq(a, k + 1, Len(a)), <<>>, xRing[i], xConn[i], XT(i), xFed[i])
          BY <3>3, <3>5, <3>6, XQueues
      <3>8. XQ(i)' = SubSeq(a, k + 1, Len(a))
          BY <2>3, <3>1, <3>4
      <3> QED
          BY <2>1, <3>7, <3>8, XMoves
    <2>4. CASE i # j
      <3>1. XH(i) = <<>> /\ XQ(i)' = XQ(i)
          BY <1>1, <1>3, <2>4 DEF XH, XQ
      <3> QED
          BY <2>1, <2>2, <3>1, XMoves
    <2> QED
        BY <2>3, <2>4
  <1> QED
      BY <1>4, <1>5 DEF XInv

LEMMA XCollectsChunks ==
  ASSUME XInv, mixer!Collect \/ hurry!Collect
  PROVE  XInv'
  <1>1. /\ UNCHANGED <<xConnected, xConn, xRing, xFed, xTodo, xHand, xPlayed>>
        /\ xPc = "ingest" /\ xPc' # "append"
        /\ xReady' = [i \in DOMAIN xReady |-> IF xReady[i] # <<>> THEN Tail(xReady[i]) ELSE xReady[i]]
        /\ xActive' \subseteq (xActive \ DOMAIN xReady) \cup {i \in DOMAIN xReady : xReady[i] # <<>>}
        /\ \/ \A i \in {m \in DOMAIN xReady : xReady[m] # <<>>} : xBuffer'[i] = Head(xReady[i])
           \/ xActive' = xActive \ DOMAIN xReady
    <2>1. CASE mixer!Collect
        BY <2>1 DEF mixer!Collect, mixer!inputVars, mixer!Waiting, mixer!Taken
    <2>2. CASE hurry!Collect
        BY <2>2 DEF hurry!Collect, hurry!inputVars, hurry!Waiting, hurry!Taken
    <2> QED
        BY <2>1, <2>2
  <1>2. xActive' \subseteq {i \in DOMAIN xReady : xReady[i] # <<>>} /\ xHand = XNone
      BY <1>1 DEF XInv, XTypes
  <1>3. XTypes'
      BY <1>1, <1>2 DEF XInv, XTypes
  <1>4. ASSUME NEW i \in MixerInputs PROVE XOrdered(i)'
    <2>1. /\ XB(i) = {} /\ XT(i)' = XT(i) /\ XH(i)' = <<>> /\ XH(i) = <<>>
          /\ xPlayed'[i] = xPlayed[i] /\ xConn'[i] = xConn[i] /\ xFed'[i] = xFed[i] /\ xRing'[i] = xRing[i]
        BY <1>1, <1>2 DEF XB, XH, XT, XFresh, XNone
    <2>2. XChain(xPlayed[i], {}, XQ(i), <<>>, xRing[i], xConn[i], XT(i), xFed[i])
        BY <2>1 DEF XInv, XOrdered
    <2>3. CASE XQ(i) = <<>>
      <3>1. XQ(i)' = <<>> /\ XB(i)' = {}
          BY <1>1, <1>2, <2>3 DEF XQ, XB
      <3> QED
          BY <2>1, <2>2, <2>3, <3>1, XMoves
    <2>4. CASE XQ(i) # <<>>
      <3>1. PICK q, B2 : q = XQ(i) /\ B2 = XB(i)'
          OBVIOUS
      <3>2. i \in DOMAIN xReady /\ q = xReady[i] /\ XQ(i)' = Tail(q)
          BY <1>1, <2>4, <3>1 DEF XQ
      <3>3. B2 \in {{}, {Head(q)}}
          BY <1>1, <1>2, <2>4, <3>1, <3>2 DEF XB
      <3>4. XChain(xPlayed[i], B2, Tail(q), <<>>, xRing[i], xConn[i], XT(i), xFed[i])
          BY <2>2, <2>4, <3>1, <3>3, XCollects
      <3> QED
          BY <2>1, <3>1, <3>2, <3>4, XMoves
    <2> QED
        BY <2>3, <2>4
  <1> QED
      BY <1>3, <1>4 DEF XInv

LEMMA XMixesBuffers ==
  ASSUME XInv, mixer!MixBuffers \/ hurry!MixBuffers
  PROVE  XInv'
  <1>1. /\ UNCHANGED <<xConnected, xConn, xRing, xFed, xReady, xActive, xBuffer, xTodo, xHand>>
        /\ xPc = "mix" /\ xPc' \in {"drain", "send"}
        /\ xPlayed' = [i \in MixerInputs |->
              IF i \in xActive \cap DOMAIN xBuffer THEN Append(xPlayed[i], xBuffer[i]) ELSE xPlayed[i]]
      BY DEF mixer!MixBuffers, mixer!inputVars, mixer!queueVars, hurry!MixBuffers, hurry!inputVars, hurry!queueVars
  <1>2. ASSUME NEW i \in MixerInputs
        PROVE  XOrdered(i)' /\ xPlayed'[i] \in Seq(Nat)
    <2>1. /\ XB(i)' = {} /\ XT(i)' = XT(i) /\ XH(i)' = XH(i) /\ XQ(i)' = XQ(i)
          /\ xConn'[i] = xConn[i] /\ xFed'[i] = xFed[i] /\ xRing'[i] = xRing[i]
        BY <1>1 DEF XB, XH, XT, XQ, XFresh
    <2>2. XChain(xPlayed[i], XB(i), XQ(i), XH(i), xRing[i], xConn[i], XT(i), xFed[i])
        BY DEF XInv, XOrdered
    <2>3. PICK p2 : p2 = xPlayed'[i]
        OBVIOUS
    <2>4. XChain(p2, {}, XQ(i), XH(i), xRing[i], xConn[i], XT(i), xFed[i])
      <3>1. CASE i \in xActive \cap DOMAIN xBuffer
        <4>1. XB(i) = {xBuffer[i]} /\ p2 = Append(xPlayed[i], xBuffer[i])
            BY <1>1, <2>3, <3>1 DEF XB, XFresh
        <4> QED
            BY <2>2, <4>1, XMixes
      <3>2. CASE i \notin xActive \cap DOMAIN xBuffer
        <4>1. XB(i) = {} /\ p2 = xPlayed[i]
            BY <1>1, <2>3, <3>2 DEF XB
        <4> QED
            BY <2>2, <4>1
      <3> QED
          BY <3>1, <3>2
    <2>5. p2 \in Seq(Nat)
        BY <2>4 DEF XChain, XTyped
    <2>6. XOrdered(i)'
        BY <2>1, <2>3, <2>4, XMoves
    <2> QED
        BY <2>3, <2>5, <2>6
  <1>3. xPlayed' \in [MixerInputs -> Seq(Nat)]
      BY <1>1, <1>2
  <1>4. XTypes'
      BY <1>1, <1>3 DEF XInv, XTypes
  <1> QED
      BY <1>2, <1>4 DEF XInv

LEMMA XStep ==
  ASSUME XInv, kind' = kind,
         \/ kind = "mixer" /\ mixer!Next
         \/ kind = "hurry" /\ hurry!Next
         \/ UNCHANGED mixerVars
  PROVE  XInv'
  <1>1. CASE \/ UNCHANGED mixerVars
             \/ mixer!ClockTick \/ hurry!ClockTick \/ mixer!StopMixer \/ hurry!StopMixer
             \/ mixer!HearStop \/ hurry!HearStop \/ mixer!BeginDispatch \/ hurry!BeginDispatch
             \/ mixer!MeasureBacklog \/ hurry!MeasureBacklog \/ mixer!DecideRates \/ hurry!DecideRates
             \/ mixer!RatesSent \/ hurry!RatesSent \/ mixer!SendChunk \/ hurry!SendChunk
             \/ mixer!AllSent \/ hurry!AllSent \/ mixer!Listeners \/ hurry!Listeners
             \/ \E c : mixer!SendRate(c) \/ hurry!SendRate(c)
             \/ \E i : mixer!DestroyProcessor(i) \/ hurry!DestroyProcessor(i)
    <2> USE DEF mixer!inputVars, mixer!queueVars, hurry!inputVars, hurry!queueVars
    <2>1. CASE \/ UNCHANGED mixerVars
               \/ mixer!ClockTick \/ hurry!ClockTick \/ mixer!StopMixer \/ hurry!StopMixer
               \/ \E i : mixer!DestroyProcessor(i) \/ hurry!DestroyProcessor(i)
      <3>1. UNCHANGED <<xPc, xConnected, xConn, xRing, xFed, xReady, xActive, xBuffer, xTodo, xHand, xPlayed>>
          BY <2>1 DEF mixerVars, mixer!ClockTick, hurry!ClockTick, mixer!StopMixer, hurry!StopMixer,
             mixer!DestroyProcessor, hurry!DestroyProcessor
      <3> QED
          BY <3>1, XIdles
    <2>2. CASE mixer!HearStop \/ hurry!HearStop \/ mixer!BeginDispatch \/ hurry!BeginDispatch
      <3>1. /\ UNCHANGED <<xConnected, xConn, xRing, xFed, xReady, xActive, xBuffer, xTodo, xHand, xPlayed>>
            /\ \/ xPc # "append" /\ xPc' \notin {"append", "barrier", "mix"}
               \/ xPc = "barrier" /\ xPc' = "mix"
          BY <2>2 DEF mixer!HearStop, hurry!HearStop, mixer!BeginDispatch, hurry!BeginDispatch
      <3> QED
          BY <3>1, XIdles
    <2>3. CASE \/ mixer!MeasureBacklog \/ hurry!MeasureBacklog \/ mixer!DecideRates \/ hurry!DecideRates
               \/ mixer!RatesSent \/ hurry!RatesSent \/ \E c : mixer!SendRate(c) \/ hurry!SendRate(c)
      <3>1. /\ UNCHANGED <<xConnected, xConn, xRing, xFed, xReady, xActive, xBuffer, xTodo, xHand, xPlayed>>
            /\ UNCHANGED xPc \/ (xPc # "append" /\ xPc' \notin {"append", "barrier", "mix"})
          BY <2>3 DEF mixer!MeasureBacklog, hurry!MeasureBacklog, mixer!DecideRates, hurry!DecideRates,
             mixer!RatesSent, hurry!RatesSent, mixer!SendRate, hurry!SendRate
      <3> QED
          BY <3>1, XIdles
    <2>4. CASE \/ mixer!SendChunk \/ hurry!SendChunk \/ mixer!AllSent \/ hurry!AllSent
               \/ mixer!Listeners \/ hurry!Listeners
      <3>1. /\ UNCHANGED <<xConnected, xConn, xRing, xFed, xReady, xActive, xBuffer, xTodo, xHand, xPlayed>>
            /\ UNCHANGED xPc \/ (xPc # "append" /\ xPc' \notin {"append", "barrier", "mix"})
          BY <2>4 DEF mixer!SendChunk, hurry!SendChunk, mixer!AllSent, hurry!AllSent,
             mixer!Listeners, hurry!Listeners
      <3> QED
          BY <3>1, XIdles
    <2> QED
        BY <1>1, <2>1, <2>2, <2>3, <2>4
  <1>2. CASE \/ mixer!WaitForTick \/ hurry!WaitForTick
             \/ \E j, k : mixer!RingDrained(j, k) \/ hurry!RingDrained(j, k)
      BY <1>2, XSnapshots
  <1>3. CASE \E j \in MixerInputs : \/ mixer!AddInputQueue(j) \/ hurry!AddInputQueue(j)
                                    \/ mixer!RemoveInputQueue(j) \/ hurry!RemoveInputQueue(j)
                                    \/ mixer!Feed(j) \/ hurry!Feed(j)
      BY <1>3, XAddsInput, XRemovesInput, XFeedsInput
  <1>4. CASE \/ \E j \in MixerInputs, k \in 1..MixerConnections : mixer!IngestPacket(j, k) \/ hurry!IngestPacket(j, k)
             \/ mixer!AppendReady \/ hurry!AppendReady
             \/ mixer!Collect \/ hurry!Collect \/ mixer!MixBuffers \/ hurry!MixBuffers
      BY <1>4, XIngestsPacket, XAppends, XCollectsChunks, XMixesBuffers
  <1> QED
      BY <1>1, <1>2, <1>3, <1>4, Zenon DEF mixer!Next, mixer!Run, hurry!Next, hurry!Run

(* sink_audio_mixer.cpp:722-1010: whatever is connected, removed, dropped,   *)
(* skipped or paced, the chunks of an input are mixed in the order they were *)
(* made and none twice, for any inputs, queue lengths and rings.             *)
THEOREM ChunksInOrder == AllSpec => []MixedInOrder
  <1>1. XInv /\ [AllNext]_allVars => XInv'
      BY Apart, XStep
  <1>2. ASSUME XInv, NEW i \in MixerInputs, NEW k \in 1..(Len(xPlayed[i]) - 1)
        PROVE  xPlayed[i][k] < xPlayed[i][k + 1]
    <2>1. xPlayed[i] \in Seq(Nat) /\ Rising(xPlayed[i])
        BY <1>2 DEF XInv, XOrdered, XChain, XPast, XTyped
    <2>2. k \in DOMAIN xPlayed[i] /\ k + 1 \in DOMAIN xPlayed[i] /\ k < k + 1
        BY <2>1
    <2> QED
        BY <2>1, <2>2 DEF Rising
  <1>3. XInv => MixedInOrder
      BY <1>2 DEF MixedInOrder, mixer!MixedInOrder
  <1> QED
      BY <1>1, <1>3, XBegins, PTL DEF AllSpec

-----------------------------------------------------------------------------
(* SourceProcessor.                                                          *)

LEMMA Smallest ==
  ASSUME NEW T \in SUBSET Nat, T # {}
  PROVE  \E x \in T : \A y \in T : x <= y
  <1> DEFINE R == {ss \in Nat \X Nat : ss[1] < ss[2]}
  <1>1. \A x, y \in Nat : y < x => <<y, x>> \in R
      OBVIOUS
  <1>2. IsWellFoundedOn(R, Nat)
      BY NatLessThanWellFounded DEF OpToRel
  <1> HIDE DEF R
  <1>3. PICK x \in T : \A y \in T : ~ (<<y, x>> \in R)
      BY <1>2, WFMin
  <1>4. \A y \in T : x \in Nat /\ y \in Nat /\ ~(y < x)
      BY <1>1, <1>3
  <1> QED
      BY <1>4

(* The sums of the first numbers of a sequence exist and are unique.         *)
Sums(n, g, f) ==
  /\ DOMAIN f = 0 .. n
  /\ \A i \in 0 .. n : f[i] = IF i <= 1 THEN 0 ELSE f[i - 1] + g[i - 1]

LEMMA SumsExist ==
  ASSUME NEW g, NEW n \in Nat
  PROVE  \E f : Sums(n, g, f)
  <1> DEFINE T == {m \in Nat : ~\E f : Sums(m, g, f)}
  <1> SUFFICES ASSUME n \in T PROVE FALSE
      OBVIOUS
  <1>1. PICK m \in T : \A y \in T : m <= y
    <2>1. T \in SUBSET Nat /\ T # {}
        OBVIOUS
    <2> HIDE DEF T
    <2> QED
        BY <2>1, Smallest
  <1>2. m \in Nat /\ ~\E f : Sums(m, g, f)
      BY <1>1
  <1>3. CASE m = 0
    <2> DEFINE f == [i \in 0 .. 0 |-> 0]
    <2>1. Sums(m, g, f)
        BY <1>3 DEF Sums
    <2> QED
        BY <1>2, <2>1
  <1>4. CASE m > 0
    <2>1. m - 1 \in Nat /\ m - 1 \notin T
        BY <1>1, <1>2, <1>4
    <2>2. PICK h : Sums(m - 1, g, h)
        BY <2>1
    <2> DEFINE f == [i \in 0 .. m |-> IF i < m THEN h[i]
                                      ELSE IF m <= 1 THEN 0 ELSE h[m - 1] + g[m - 1]]
    <2>3. ASSUME NEW i \in 0 .. m
          PROVE  f[i] = IF i <= 1 THEN 0 ELSE f[i - 1] + g[i - 1]
      <3>1. CASE i < m
        <4>1. i \in 0 .. m - 1 /\ (i > 1 => i - 1 \in 0 .. m /\ i - 1 < m)
            BY <1>2, <3>1
        <4>2. f[i] = h[i] /\ (i > 1 => f[i - 1] = h[i - 1])
            BY <3>1, <4>1
        <4>3. h[i] = IF i <= 1 THEN 0 ELSE h[i - 1] + g[i - 1]
            BY <2>2, <4>1 DEF Sums
        <4> QED
            BY <4>1, <4>2, <4>3
      <3>2. CASE i = m
        <4>1. m > 1 => m - 1 \in 0 .. m /\ m - 1 < m
            BY <1>2
        <4> QED
            BY <1>2, <3>2, <4>1
      <3> QED
          BY <1>2, <3>1, <3>2
    <2>4. DOMAIN f = 0 .. m
        OBVIOUS
    <2> HIDE DEF f
    <2>5. Sums(m, g, f)
        BY <2>3, <2>4 DEF Sums
    <2> QED
        BY <1>2, <2>5
  <1> QED
      BY <1>2, <1>3, <1>4

LEMMA SumsAgree ==
  ASSUME NEW g, NEW n \in Nat, NEW m \in Nat, NEW e, NEW f, Sums(n, g, e), Sums(m, g, f),
         NEW i \in Nat, i <= n, i <= m
  PROVE  e[i] = f[i]
  <1> DEFINE T == {j \in Nat : j <= n /\ j <= m /\ e[j] # f[j]}
  <1> SUFFICES ASSUME i \in T PROVE FALSE
      OBVIOUS
  <1>1. PICK k \in T : \A y \in T : k <= y
    <2>1. T \in SUBSET Nat /\ T # {}
        OBVIOUS
    <2> HIDE DEF T
    <2> QED
        BY <2>1, Smallest
  <1>2. k \in Nat /\ k <= n /\ k <= m /\ e[k] # f[k]
      BY <1>1
  <1>3. k > 1
      BY <1>2 DEF Sums
  <1>4. e[k - 1] = f[k - 1]
    <2>1. k - 1 \in Nat /\ k - 1 <= n /\ k - 1 <= m /\ k - 1 \notin T
        BY <1>1, <1>2, <1>3
    <2> QED
        BY <2>1
  <1> QED
      BY <1>2, <1>3, <1>4 DEF Sums

(* So what Ahead is defined by holds of it.                                  *)
LEMMA AheadIs ==
  \A i \in Nat : processor!Ahead[i] = IF i <= 1 THEN 0
                                      ELSE processor!Ahead[i - 1] + pFragments[i - 1].left
  <1> DEFINE g == [i \in Nat |-> pFragments[i].left]
             s == [i \in Nat |-> (CHOOSE f : Sums(i, g, f))[i]]
             D == [i \in Nat |-> IF i <= 1 THEN 0 ELSE s[i - 1] + pFragments[i - 1].left]
  <1>1. ASSUME NEW i \in Nat PROVE Sums(i, g, CHOOSE f : Sums(i, g, f))
      BY SumsExist, Zenon
  <1>2. ASSUME NEW i \in Nat
        PROVE  s[i] = IF i <= 1 THEN 0 ELSE s[i - 1] + pFragments[i - 1].left
    <2> DEFINE F(j) == CHOOSE f : Sums(j, g, f)
    <2>1. s[i] = F(i)[i] /\ Sums(i, g, F(i))
        BY <1>1
    <2>2. CASE i <= 1
      <3> HIDE DEF F, s, g
      <3> QED
          BY <2>1, <2>2 DEF Sums
    <2>3. CASE i > 1
      <3>1. i - 1 \in Nat /\ s[i - 1] = F(i - 1)[i - 1] /\ Sums(i - 1, g, F(i - 1))
          BY <1>1, <2>3
      <3>2. g[i - 1] = pFragments[i - 1].left
          BY <3>1
      <3> HIDE DEF F, s, g
      <3>3. F(i)[i - 1] = F(i - 1)[i - 1]
          BY <2>1, <2>3, <3>1, SumsAgree
      <3> QED
          BY <2>1, <2>3, <3>1, <3>2, <3>3 DEF Sums
    <2> QED
        BY <2>2, <2>3
  <1>3. s = D
    <2>1. \A i \in Nat : s[i] = D[i]
        BY <1>2
    <2> QED
        BY <2>1
  <1> HIDE DEF s, g
  <1>4. \E f : f = [i \in Nat |-> IF i <= 1 THEN 0 ELSE f[i - 1] + pFragments[i - 1].left]
      BY <1>3
  <1>5. processor!Ahead = [i \in Nat |-> IF i <= 1 THEN 0
                                         ELSE processor!Ahead[i - 1] + pFragments[i - 1].left]
      BY <1>4, Zenon DEF processor!Ahead
  <1> QED
      BY <1>5, Zenon

(* The accumulator: at[i] frames are accumulated in the first i fragments.   *)
Fragment == [format : SourceFormats, left : Nat \ {0}, sentinel : BOOLEAN]
Counts(q, at) ==
  /\ at \in [0 .. Len(q) -> Nat] /\ at[0] = 0
  /\ \A i \in 1 .. Len(q) : at[i] = at[i - 1] + q[i].left

PTypes ==
  /\ pFragments \in Seq(Fragment) /\ pRate \in Nat
  /\ pPc # "idle" => pPacket.frames \in Nat \ {0}
  /\ pPc = "check" => pPacket \in [format : SourceFormats, frames : Nat, aligned : BOOLEAN,
                                   rate : Nat, sentinel : BOOLEAN]
  /\ pPc = "append" => pPacket.format = pFormat /\ pFormat \in SourceFormats
                       /\ pPacket.sentinel \in BOOLEAN
PFormats  == \A i \in DOMAIN pFragments : pFragments[i].format = pFormat
PCounted  == \E at : Counts(pFragments, at) /\ at[Len(pFragments)] = pRing
PInv == PTypes /\ PFormats /\ PCounted

LEMMA Growing ==
  ASSUME NEW q \in Seq(Fragment), NEW at, Counts(q, at),
         NEW i \in 0 .. Len(q), NEW j \in 0 .. Len(q), i < j
  PROVE  at[i] < at[j]
  <1> DEFINE T == {k \in Nat : k > i /\ k <= Len(q) /\ ~(at[i] < at[k])}
  <1> SUFFICES ASSUME j \in T PROVE FALSE
      BY DEF Counts
  <1>1. PICK k \in T : \A y \in T : k <= y
    <2>1. T \in SUBSET Nat /\ T # {}
        OBVIOUS
    <2> HIDE DEF T
    <2> QED
        BY <2>1, Smallest
  <1>2. k \in 1 .. Len(q) /\ k > i /\ ~(at[i] < at[k]) /\ Len(q) \in Nat
      BY <1>1
  <1>3. at[k] = at[k - 1] + q[k].left /\ q[k].left \in Nat \ {0}
        /\ at[i] \in Nat /\ at[k] \in Nat /\ at[k - 1] \in Nat
    <2>1. q[k] \in Fragment
        BY <1>2, ElementOfSeq
    <2>2. k \in 0 .. Len(q) /\ k - 1 \in 0 .. Len(q)
        BY <1>2
    <2> QED
        BY <1>2, <2>1, <2>2 DEF Counts, Fragment
  <1>4. k - 1 > i
      BY <1>2, <1>3
  <1>5. k - 1 \notin T
      BY <1>1, <1>2
  <1> QED
      BY <1>2, <1>3, <1>4, <1>5

LEMMA AheadCounts ==
  ASSUME pFragments \in Seq(Fragment), NEW at, Counts(pFragments, at),
         NEW n \in 0 .. Len(pFragments)
  PROVE  processor!Ahead[n + 1] = at[n]
  <1> DEFINE T == {k \in Nat : k <= Len(pFragments) /\ processor!Ahead[k + 1] # at[k]}
  <1> SUFFICES ASSUME n \in T PROVE FALSE
      OBVIOUS
  <1>1. PICK k \in T : \A y \in T : k <= y
    <2>1. T \in SUBSET Nat /\ T # {}
        OBVIOUS
    <2> HIDE DEF T
    <2> QED
        BY <2>1, Smallest
  <1>2. k \in Nat /\ k <= Len(pFragments) /\ processor!Ahead[k + 1] # at[k]
      BY <1>1
  <1>3. processor!Ahead[k + 1] = IF k + 1 <= 1 THEN 0
                                 ELSE processor!Ahead[k + 1 - 1] + pFragments[k + 1 - 1].left
      BY <1>2, AheadIs
  <1>4. k > 0
      BY <1>2, <1>3 DEF Counts
  <1>5. processor!Ahead[k] = at[k - 1]
    <2>1. k - 1 \in Nat /\ k - 1 < k /\ k - 1 <= Len(pFragments) /\ k - 1 + 1 = k
        BY <1>2, <1>4
    <2>2. k - 1 \notin T
        BY <1>1, <2>1
    <2> QED
        BY <2>1, <2>2
  <1>6. k + 1 - 1 = k /\ ~(k + 1 <= 1) /\ k \in 1 .. Len(pFragments)
      BY <1>2, <1>4
  <1>7. processor!Ahead[k + 1] = at[k - 1] + pFragments[k].left
      BY <1>3, <1>5, <1>6
  <1> QED
      BY <1>2, <1>6, <1>7 DEF Counts

(* The fragments of the first n frames: k of them whole, and perhaps a part  *)
(* of the next.                                                              *)
Reached(q, at, n) == {i \in DOMAIN q : at[i - 1] < n}
Whole(q, at, n)   == {i \in Reached(q, at, n) : at[i - 1] + q[i].left <= n}

LEMMA Cut ==
  ASSUME NEW q \in Seq(Fragment), NEW at, Counts(q, at), NEW n \in Nat, n <= at[Len(q)]
  PROVE  \E k \in 0 .. Len(q) :
           /\ Cardinality(Whole(q, at, n)) = k /\ at[k] <= n
           /\ Reached(q, at, n) = Whole(q, at, n) => at[k] = n
           /\ Reached(q, at, n) # Whole(q, at, n) => k < Len(q) /\ n < at[k + 1]
  <1> DEFINE T == Reached(q, at, n)
             W == Whole(q, at, n)
  <1>a. T = {i \in DOMAIN q : at[i - 1] < n} /\ W = {i \in T : at[i - 1] + q[i].left <= n}
      BY DEF Reached, Whole
  <1> HIDE DEF T, W
  <1>0. Len(q) \in Nat /\ DOMAIN q = 1 .. Len(q)
        /\ \A i \in 1 .. Len(q) : at[i] = at[i - 1] + q[i].left /\ q[i].left \in Nat \ {0}
    <2>1. \A i \in 1 .. Len(q) : q[i] \in Fragment
        BY ElementOfSeq
    <2> QED
        BY <2>1, LenProperties DEF Counts, Fragment
  <1> DEFINE E == {Len(q) - i : i \in {j \in 0 .. Len(q) : at[j] <= n}}
  <1>1. PICK e \in E : \A y \in E : e <= y
    <2>1. E \in SUBSET Nat
        BY <1>0
    <2>2. Len(q) - 0 \in E
      <3>1. 0 \in {j \in 0 .. Len(q) : at[j] <= n}
          BY <1>0 DEF Counts
      <3> QED
          BY <3>1
    <2> HIDE DEF E
    <2> QED
        BY <2>1, <2>2, Smallest
  <1>2. PICK k \in 0 .. Len(q) : at[k] <= n /\ e = Len(q) - k
      BY <1>1
  <1>3. ASSUME NEW j \in 0 .. Len(q), j > k PROVE n < at[j]
    <2>1. at[j] \in Nat
        BY DEF Counts
    <2>2. SUFFICES ASSUME at[j] <= n PROVE FALSE
        BY <2>1
    <2>3. Len(q) - j \in E
        BY <2>2
    <2>4. e <= Len(q) - j
        BY <1>1, <2>3
    <2> QED
        BY <1>0, <1>2, <1>3, <2>4
  <1>4. W = 1 .. k
    <2>1. ASSUME NEW i \in 1 .. k PROVE i \in W
      <3>1. i \in 1 .. Len(q) /\ i - 1 \in 0 .. Len(q) /\ i \in 0 .. Len(q) /\ i - 1 < i
          BY <1>0
      <3>2. at[i - 1] < at[i] /\ at[i - 1] \in Nat /\ at[i] \in Nat
          BY <3>1, Growing DEF Counts
      <3>3. at[i] <= n
        <4>1. i = k \/ at[i] < at[k]
            BY <3>1, Growing
        <4>2. at[k] \in Nat
            BY DEF Counts
        <4> QED
            BY <1>2, <3>2, <4>1, <4>2
      <3>4. at[i - 1] < n /\ at[i - 1] + q[i].left <= n
          BY <1>0, <3>1, <3>2, <3>3
      <3> QED
          BY <1>0, <1>a, <3>1, <3>4
    <2>2. ASSUME NEW i \in W PROVE i \in 1 .. k
      <3>1. i \in 1 .. Len(q) /\ at[i] <= n /\ at[i] \in Nat
          BY <1>0, <1>a DEF Counts
      <3>2. ~(i > k)
          BY <1>0, <1>3, <3>1
      <3> QED
          BY <3>1, <3>2
    <2> QED
        BY <2>1, <2>2
  <1> HIDE DEF E
  <1>5. Cardinality(W) = k
    <2>1. k \in Nat /\ 1 \in Int
        BY <1>0
    <2>2. Cardinality(1 .. k) = IF 1 > k THEN 0 ELSE k - 1 + 1
        BY <2>1, FS_Interval
    <2>3. (IF 1 > k THEN 0 ELSE k - 1 + 1) = k
        BY <2>1
    <2> QED
        BY <1>4, <2>2, <2>3, Zenon
  <1>6. k < Len(q) => k + 1 \in 1 .. Len(q) /\ k + 1 - 1 = k /\ k + 1 > k /\ k + 1 \notin W
    <2>1. k \in Nat
        BY <1>0
    <2>2. k + 1 \notin 1 .. k
        BY <2>1
    <2> QED
        BY <1>0, <1>4, <2>1, <2>2
  <1>7. ASSUME T = W PROVE at[k] = n
    <2>1. CASE k = Len(q)
        BY <1>2, <2>1 DEF Counts
    <2>2. CASE k < Len(q)
      <3>1. ~(at[k] < n)
          BY <1>0, <1>a, <1>6, <1>7, <2>2
      <3> QED
          BY <1>2, <3>1 DEF Counts
    <2> QED
        BY <2>1, <2>2
  <1>8. ASSUME T # W PROVE k < Len(q) /\ n < at[k + 1]
    <2>1. PICK i \in T : i \notin W
        BY <1>8, <1>a
    <2>2. i \in 1 .. Len(q) /\ i > k
        BY <1>0, <1>a, <1>4, <2>1
    <2> QED
        BY <1>0, <1>3, <1>6, <2>2
  <1> QED
      BY <1>2, <1>5, <1>7, <1>8 DEF T, W

LEMMA PBegins == AllInit => PInv
  <1> SUFFICES ASSUME AllInit PROVE PInv
      OBVIOUS
  <1>1. pFragments = <<>> /\ pRing = 0 /\ pRate = 10 /\ pPc = "idle"
      BY Zenon DEF AllInit, processor!Init
  <1>2. Counts(pFragments, [i \in {0} |-> 0])
      BY <1>1 DEF Counts
  <1> QED
      BY <1>1, <1>2 DEF PInv, PTypes, PFormats, PCounted

LEMMA PReceives ==
  ASSUME PInv, processor!Receive
  PROVE  PInv'
  <1>1. UNCHANGED <<pFragments, pFormat, pRing, pRate>>
      BY DEF processor!Receive, processor!inputVars
  <1>2. /\ pPacket' \in [format : SourceFormats, frames : Nat, aligned : BOOLEAN, rate : Nat,
                         sentinel : BOOLEAN]
        /\ pPc' \in {"idle", "check"} /\ (pPc' = "check" => pPacket'.frames # 0)
    <2>1. PICK f \in SourceFormats, n \in SourceSizes, a \in {TRUE, ~SourceMisaligned},
               r \in SourceRates, s \in BOOLEAN :
            pPacket' = [format |-> f, frames |-> n, aligned |-> a, rate |-> r, sentinel |-> s]
        BY DEF processor!Receive
    <2> QED
        BY <2>1, SourceConstants DEF processor!Receive
  <1>3. PTypes'
      BY <1>1, <1>2 DEF PInv, PTypes
  <1> QED
      BY <1>1, <1>3 DEF PInv, PFormats, PCounted

(* Whatever the format becomes, nothing of another is left.                  *)
LEMMA PChecks ==
  ASSUME PInv, processor!CheckFormat
  PROVE  PInv'
  <1>1. /\ pPc = "check" /\ pPacket' = pPacket /\ pRate' = processor!RateOf(pPacket.rate)
        /\ \/ pPc' = "idle" /\ UNCHANGED <<pFormat, pRing, pFragments>>
           \/ pPc' = "append" /\ pFormat' = pPacket.format /\ pRing' = 0 /\ pFragments' = <<>>
           \/ /\ pPc' = "append" /\ pFormat = pPacket.format
              /\ UNCHANGED <<pFormat, pRing, pFragments>>
    <2>1. CASE UNCHANGED <<pFormat, pAlive, pApplied, processor!inputVars>> /\ pPc' = "idle"
        BY <2>1 DEF processor!CheckFormat, processor!inputVars
    <2>2. CASE processor!Reconfigure
        BY <2>2 DEF processor!CheckFormat, processor!Reconfigure, processor!ResetAccumulator,
                    processor!inputVars
    <2>3. CASE /\ UNCHANGED <<pFormat, pAlive, pApplied, processor!inputVars>>
               /\ pPc' = "append" /\ pPacket.format = pFormat
        BY <2>3 DEF processor!CheckFormat, processor!inputVars
    <2> QED
        BY <2>1, <2>2, <2>3 DEF processor!CheckFormat
  <1>2. pPacket.rate \in Nat /\ pPacket.format \in SourceFormats /\ pPacket.sentinel \in BOOLEAN
      BY <1>1 DEF PInv, PTypes
  <1>3. pRate' \in Nat
      BY <1>1, <1>2 DEF processor!RateOf
  <1>4. CASE pPc' = "idle" /\ UNCHANGED <<pFormat, pRing, pFragments>>
      BY <1>1, <1>3, <1>4 DEF PInv, PTypes, PFormats, PCounted
  <1>5. CASE pPc' = "append" /\ pFormat' = pPacket.format /\ pRing' = 0 /\ pFragments' = <<>>
    <2>1. Counts(<<>>, [i \in {0} |-> 0])
        BY DEF Counts
    <2>2. PCounted'
        BY <1>5, <2>1 DEF PCounted
    <2>3. PTypes'
        BY <1>1, <1>2, <1>3, <1>5 DEF PInv, PTypes
    <2> QED
        BY <1>5, <2>2, <2>3 DEF PInv, PFormats
  <1>6. CASE /\ pPc' = "append" /\ pFormat = pPacket.format
             /\ UNCHANGED <<pFormat, pRing, pFragments>>
      BY <1>1, <1>2, <1>3, <1>6 DEF PInv, PTypes, PFormats, PCounted
  <1> QED
      BY <1>1, <1>4, <1>5, <1>6

LEMMA PAppends ==
  ASSUME PInv, processor!AppendPacket
  PROVE  PInv'
  <1> DEFINE f == [format |-> pPacket.format, left |-> pPacket.frames, sentinel |-> pPacket.sentinel]
             n == Len(pFragments)
  <1>1. /\ pFragments' = Append(pFragments, f) /\ pRing' = pRing + f.left /\ f \in Fragment
        /\ f.format = pFormat /\ pPc' = "dequeue" /\ UNCHANGED <<pFormat, pRate, pPacket>>
        /\ pPacket.frames \in Nat \ {0}
      BY DEF processor!AppendPacket, PInv, PTypes, Fragment
  <1>2. f.left \in Nat \ {0}
      BY <1>1
  <1> HIDE DEF f
  <1>3. pFragments \in Seq(Fragment) /\ n \in Nat
      BY LenProperties DEF PInv, PTypes
  <1>4. /\ pFragments' \in Seq(Fragment) /\ Len(pFragments') = n + 1
        /\ \A i \in 1 .. n : pFragments'[i] = pFragments[i]
        /\ pFragments'[n + 1] = f
      BY <1>1, <1>3, AppendProperties
  <1>5. PICK at : Counts(pFragments, at) /\ at[n] = pRing
      BY DEF PInv, PCounted
  <1> DEFINE bt == [i \in 0 .. n + 1 |-> IF i <= n THEN at[i] ELSE pRing + f.left]
  <1>6. Counts(pFragments', bt)
    <2>1. n \in 0 .. n /\ pRing \in Nat /\ at[0] = 0
        BY <1>3, <1>5 DEF Counts
    <2>2. bt \in [0 .. n + 1 -> Nat] /\ bt[0] = 0
        BY <1>2, <1>3, <1>5, <2>1 DEF Counts
    <2>3. ASSUME NEW i \in 1 .. n + 1 PROVE bt[i] = bt[i - 1] + pFragments'[i].left
      <3>1. CASE i <= n
        <4>1. i \in 1 .. n /\ i - 1 \in 0 .. n + 1 /\ i - 1 <= n
            BY <1>3, <3>1
        <4>2. at[i] = at[i - 1] + pFragments[i].left
            BY <1>5, <4>1 DEF Counts
        <4> QED
            BY <1>3, <1>4, <3>1, <4>1, <4>2
      <3>2. CASE i = n + 1
        <4>1. bt[i] = pRing + f.left /\ bt[i - 1] = pRing
            BY <1>3, <1>5, <3>2
        <4> QED
            BY <1>4, <3>2, <4>1
      <3> QED
          BY <1>3, <3>1, <3>2
    <2> HIDE DEF bt
    <2> QED
        BY <1>4, <2>2, <2>3 DEF Counts
  <1>7. bt[n + 1] = pRing'
      BY <1>1, <1>3
  <1> HIDE DEF bt
  <1>8. PCounted'
      BY <1>4, <1>6, <1>7 DEF PCounted
  <1>9. PTypes'
      BY <1>1, <1>4 DEF PInv, PTypes
  <1>10. PFormats'
    <2>1. ASSUME NEW i \in DOMAIN pFragments' PROVE pFragments'[i].format = pFormat
      <3>1. i \in 1 .. n + 1
          BY <1>4, LenProperties
      <3>2. CASE i \in 1 .. n
          BY <1>3, <1>4, <3>2, LenProperties DEF PInv, PFormats
      <3>3. CASE i = n + 1
          BY <1>1, <1>4, <3>3
      <3> QED
          BY <1>3, <3>1, <3>2, <3>3
    <2> QED
        BY <1>1, <2>1 DEF PFormats
  <1> QED
      BY <1>8, <1>9, <1>10 DEF PInv

LEMMA SameCount == \A S : processor!Cardinality(S) = Cardinality(S)
  BY DEF processor!Cardinality, Cardinality

LEMMA PDequeues ==
  ASSUME PInv, processor!Dequeue
  PROVE  PInv'
  <1> DEFINE r == processor!Required
             q == pFragments
             T == processor!Touched(r)
             W == {i \in T : processor!Ahead[i] + q[i].left <= r}
             k == Cardinality(W)
             rest == SubSeq(q, k + 1, Len(q))
  <1>0. /\ pPc = "dequeue" /\ pRate \in Nat /\ q \in Seq(Fragment) /\ Len(q) \in Nat
        /\ UNCHANGED <<pFormat, pRate, pPacket>>
      BY LenProperties DEF processor!Dequeue, PInv, PTypes
  <1>1. CASE pPc' = "idle" /\ UNCHANGED <<pFragments, pRing>>
      BY <1>0, <1>1 DEF PInv, PTypes, PFormats, PCounted
  <1>2. CASE ~(pRing < r) /\ pRing' = pRing - r /\ pFragments' = processor!LeftAfter(r) /\ pPc' = "process"
    <2>1. r \in Nat
      <3>1. CASE 100 < 9 * pRate
          BY <3>1, SourceConstants DEF processor!Required, processor!Rounded
      <3>2. CASE 100 > 11 * pRate
          BY <1>0, <3>1, <3>2, SourceConstants DEF processor!Required, processor!Rounded
      <3>3. CASE ~(100 < 9 * pRate) /\ ~(100 > 11 * pRate)
        <4>1. pRate = 10 \/ pRate = 11
            BY <1>0, <3>3
        <4> QED
            BY <3>3, <4>1, SourceConstants DEF processor!Required, processor!Rounded
      <3> QED
          BY <1>0, <3>1, <3>2, <3>3
    <2>2. PICK at : Counts(q, at) /\ at[Len(q)] = pRing
        BY DEF PInv, PCounted
    <2>3. \A n \in 0 .. Len(q) : at[n] \in Nat /\ processor!Ahead[n + 1] = at[n]
        BY <1>0, <2>2, AheadCounts DEF Counts
    <2>4. DOMAIN q = 1 .. Len(q) /\ \A i \in DOMAIN q : processor!Ahead[i] = at[i - 1]
      <3>1. ASSUME NEW i \in 1 .. Len(q) PROVE processor!Ahead[i] = at[i - 1]
        <4>1. i - 1 \in 0 .. Len(q) /\ i - 1 + 1 = i
            BY <1>0
        <4> QED
            BY <2>3, <4>1
      <3> QED
          BY <1>0, <3>1, LenProperties
    <2>5. T = Reached(q, at, r) /\ W = Whole(q, at, r)
        BY <2>4 DEF processor!Touched, Reached, Whole
    <2>6. Len(q) \in 0 .. Len(q) /\ r <= at[Len(q)]
        BY <1>0, <1>2, <2>1, <2>2, <2>3
    <2>7. pFragments' = IF T = W THEN rest
                        ELSE [rest EXCEPT ![1].left = processor!Ahead[k + 1] + @ - r]
      <3>1. pFragments' = processor!LeftAfter(r)
          BY <1>2
      <3>2. processor!LeftAfter(r) = IF T = W THEN rest
                                     ELSE [rest EXCEPT ![1].left = processor!Ahead[k + 1] + @ - r]
        <4> HIDE DEF r
        <4> QED
            BY SameCount DEF processor!LeftAfter
      <3> HIDE DEF rest, T, W, r, k
      <3> QED
          BY <3>1, <3>2
    <2> HIDE DEF T, W, r
    <2>8. PICK m \in 0 .. Len(q) : /\ k = m /\ at[m] <= r
                                   /\ T = W => at[m] = r
                                   /\ T # W => m < Len(q) /\ r < at[m + 1]
      <3>1. \E m \in 0 .. Len(q) : /\ Cardinality(W) = m /\ at[m] <= r
                                   /\ T = W => at[m] = r
                                   /\ T # W => m < Len(q) /\ r < at[m + 1]
        <4> HIDE DEF q
        <4>1. Counts(q, at)
            BY <2>2
        <4> QED
            BY <1>0, <2>1, <4>1, <2>5, <2>6, Cut
      <3> QED
          BY <3>1
    <2>9. processor!Ahead[k + 1] = at[m]
        BY <2>3, <2>8
    <2> HIDE DEF k
    <2> DEFINE n == Len(q) - m
               bt == [i \in 0 .. n |-> IF i = 0 THEN 0 ELSE at[m + i] - r]
    <2>10. /\ rest \in Seq(Fragment) /\ Len(rest) = n /\ n \in Nat /\ m \in Nat
           /\ \A i \in 1 .. n : rest[i] = q[m + i]
      <3>1. m \in Nat /\ n \in Nat /\ Len(q) \in Int /\ m + 1 \in Int
          BY <1>0
      <3>2. rest \in Seq(Fragment)
        <4>1. \A i \in (k + 1) .. Len(q) : q[i] \in Fragment
            BY <1>0, <2>8, <3>1, ElementOfSeq
        <4> QED
            BY <1>0, <2>8, <3>1, <4>1, SubSeqProperties
      <3>3. Len(rest) = n /\ \A i \in 1 .. n : rest[i] = q[m + i]
          BY <1>0, <2>8, <3>1, SubSeqProperties
      <3> QED
          BY <3>1, <3>2, <3>3
    <2> HIDE DEF rest
    <2>11. \A i \in 1 .. n : /\ m + i \in 0 .. Len(q) /\ m + i \in 1 .. Len(q)
                             /\ r <= at[m + i] /\ (T # W => r < at[m + i])
                             /\ at[m + i] = at[m + i - 1] + q[m + i].left
      <3>1. ASSUME NEW i \in 1 .. n
            PROVE  m + i \in 1 .. Len(q) /\ m + i \in 0 .. Len(q) /\ m < m + i
          BY <1>0, <2>10
      <3>2. ASSUME NEW i \in 1 .. n PROVE at[m] < at[m + i]
          BY <1>0, <2>2, <3>1, Growing
      <3>3. ASSUME NEW i \in 1 .. n, T # W PROVE r < at[m + i]
        <4>1. m + 1 \in 0 .. Len(q) /\ (m + 1 = m + i \/ m + 1 < m + i)
            BY <1>0, <2>8, <3>3, <2>10
        <4>2. m + 1 = m + i \/ at[m + 1] < at[m + i]
            BY <1>0, <2>2, <3>1, <4>1, Growing
        <4>3. at[m + 1] \in Nat /\ at[m + i] \in Nat
            BY <2>3, <3>1, <4>1
        <4>4. r < at[m + 1]
            BY <2>8, <3>3
        <4> QED
            BY <2>1, <4>2, <4>3, <4>4
      <3>4. ASSUME NEW i \in 1 .. n PROVE r <= at[m + i]
        <4>1. at[m] \in Nat /\ at[m + i] \in Nat /\ at[m] < at[m + i]
            BY <2>3, <3>1, <3>2
        <4>2. CASE T = W
          <5>1. at[m] = r
              BY <2>8, <4>2
          <5> QED
              BY <4>1, <5>1
        <4>3. CASE T # W
          <5>1. r < at[m + i]
              BY <3>3, <4>3
          <5> QED
              BY <2>1, <4>1, <5>1
        <4> QED
            BY <4>2, <4>3
      <3>5. \A i \in 1 .. n : at[m + i] = at[m + i - 1] + q[m + i].left
          BY <2>2, <3>1 DEF Counts
      <3> QED
          BY <3>1, <3>3, <3>4, <3>5
    <2>12. /\ pFragments' \in Seq(Fragment) /\ Len(pFragments') = n
           /\ \A i \in 1 .. n : /\ pFragments'[i].format = pFormat
                                /\ pFragments'[i].left = IF i = 1 THEN at[m + 1] - r ELSE q[m + i].left
      <3>1. \A i \in 1 .. n : rest[i].format = pFormat /\ rest[i] \in Fragment
        <4>1. \A i \in 1 .. n : m + i \in DOMAIN q
            BY <2>4, <2>11
        <4> QED
            BY <2>10, <4>1, ElementOfSeq DEF PInv, PFormats
      <3>2. CASE T = W
        <4>1. n >= 1 => rest[1].left = at[m + 1] - r
          <5>1. n >= 1 => 1 \in 1 .. n /\ m + 1 - 1 = m
              BY <2>10
          <5>2. n >= 1 => at[m + 1] = r + q[m + 1].left /\ at[m + 1] \in Nat /\ rest[1] = q[m + 1]
                          /\ rest[1].left \in Nat
              BY <2>3, <2>8, <2>10, <2>11, <3>1, <3>2, <5>1 DEF Fragment
          <5> QED
              BY <2>1, <5>2
        <4>2. pFragments' = rest
            BY <2>7, <3>2
        <4> QED
            BY <2>10, <3>1, <4>1, <4>2
      <3>3. CASE T # W
        <4> DEFINE a == at[m + 1] - r
        <4>1. 1 \in 1 .. n /\ m + 1 - 1 = m /\ at[m] \in Nat /\ at[m + 1] \in Nat /\ rest[1].left \in Nat
            BY <1>0, <2>3, <2>8, <2>10, <3>1, <3>3 DEF Fragment
        <4>2. at[m] + rest[1].left - r = a
          <5>1. at[m + 1] = at[m + 1 - 1] + q[m + 1].left /\ rest[1] = q[m + 1]
              BY <2>10, <2>11, <4>1
          <5> QED
              BY <2>1, <4>1, <5>1
        <4>3. a \in Nat \ {0}
            BY <2>1, <2>8, <3>3, <4>1
        <4>4. pFragments' = [rest EXCEPT ![1].left = a]
            BY <2>7, <2>9, <3>3, <4>2
        <4> HIDE DEF a
        <4>5. DOMAIN rest = 1 .. n
            BY <2>10, LenProperties
        <4>6. pFragments' = [rest EXCEPT ![1] = [rest[1] EXCEPT !.left = a]]
            BY <4>1, <4>4, <4>5
        <4>7. [rest[1] EXCEPT !.left = a] \in Fragment
            BY <3>1, <4>1, <4>3 DEF Fragment
        <4>8. /\ pFragments' \in Seq(Fragment) /\ Len(pFragments') = n
              /\ pFragments'[1] = [rest[1] EXCEPT !.left = a]
              /\ \A i \in 1 .. n : i # 1 => pFragments'[i] = rest[i]
            BY <2>10, <4>1, <4>6, <4>7, ExceptSeq
        <4>9. pFragments'[1].left = a /\ pFragments'[1].format = rest[1].format
            BY <3>1, <4>1, <4>8 DEF Fragment
        <4> QED
            BY <2>10, <3>1, <4>8, <4>9 DEF a
      <3> QED
          BY <3>2, <3>3
    <2>13. Counts(pFragments', bt)
      <3>1. bt \in [0 .. n -> Nat] /\ bt[0] = 0
        <4>1. ASSUME NEW i \in 0 .. n PROVE bt[i] \in Nat
          <5>1. CASE i = 0
              BY <5>1
          <5>2. CASE i # 0
            <6>1. i \in 1 .. n
                BY <2>10, <5>2
            <6>2. at[m + i] \in Nat /\ r <= at[m + i]
                BY <2>3, <2>11, <6>1
            <6> QED
                BY <2>1, <5>2, <6>2
          <5> QED
              BY <5>1, <5>2
        <4>2. bt[0] = 0 /\ bt = [i \in 0 .. n |-> bt[i]]
            BY <2>10
        <4> HIDE DEF bt, n
        <4> QED
            BY <4>1, <4>2
      <3>2. ASSUME NEW i \in 1 .. n PROVE bt[i] = bt[i - 1] + pFragments'[i].left
        <4>1. bt[i] = at[m + i] - r
            BY <2>10
        <4>2. at[m + i] \in Nat /\ at[m + i] = at[m + i - 1] + q[m + i].left
            BY <2>3, <2>11
        <4>3. CASE i = 1
          <5>1. bt[i - 1] = 0 /\ pFragments'[i].left = at[m + 1] - r
              BY <2>10, <2>12, <4>3
          <5> QED
              BY <2>1, <4>1, <4>2, <4>3, <5>1
        <4>4. CASE i # 1
          <5>1. i - 1 \in 1 .. n /\ i - 1 \in 0 .. n /\ i - 1 # 0 /\ m + (i - 1) = m + i - 1
              BY <2>10, <4>4
          <5>2. bt[i - 1] = at[m + i - 1] - r /\ at[m + i - 1] \in Nat
              BY <2>3, <2>11, <5>1
          <5>3. pFragments'[i].left = q[m + i].left /\ q[m + i].left \in Nat
            <6>1. q[m + i] \in Fragment
                BY <1>0, <2>11, ElementOfSeq
            <6> QED
                BY <2>12, <4>4, <6>1 DEF Fragment
          <5> QED
              BY <2>1, <4>1, <4>2, <5>2, <5>3
        <4> QED
            BY <4>3, <4>4
      <3> HIDE DEF bt, n
      <3> QED
          BY <2>12, <3>1, <3>2 DEF Counts
    <2>14. bt[Len(pFragments')] = pRing'
      <3>1. CASE n = 0
        <4>1. m = Len(q)
            BY <1>0, <2>10, <3>1
        <4>2. ~(T # W)
            BY <2>8, <1>0, <4>1
        <4> QED
            BY <1>2, <2>1, <2>2, <2>8, <2>12, <3>1, <4>1, <4>2
      <3>2. CASE n # 0
        <4>1. n \in 0 .. n /\ m + n = Len(q)
            BY <1>0, <2>10
        <4> QED
            BY <1>2, <2>2, <2>12, <3>2, <4>1
      <3> QED
          BY <3>1, <3>2
    <2> HIDE DEF bt, n
    <2>15. PCounted'
        BY <2>13, <2>14 DEF PCounted
    <2>16. DOMAIN pFragments' = 1 .. n
        BY <2>12, LenProperties
    <2>17. PFormats'
        BY <1>0, <2>12, <2>16 DEF PFormats
    <2>18. PTypes'
        BY <1>0, <1>2, <2>12 DEF PInv, PTypes
    <2> QED
        BY <2>15, <2>17, <2>18 DEF PInv
  <1> HIDE DEF r
  <1>3. processor!Dequeue => \/ pPc' = "idle" /\ UNCHANGED <<pFragments, pRing>>
                             \/ /\ ~(pRing < r) /\ pRing' = pRing - r
                                /\ pFragments' = processor!LeftAfter(r) /\ pPc' = "process"
      BY DEF processor!Dequeue, processor!inputVars, r
  <1> QED
      BY <1>1, <1>2, <1>3

LEMMA PStep ==
  ASSUME PInv, processor!Next \/ UNCHANGED sourceVars
  PROVE  PInv'
  <1>1. CASE \/ UNCHANGED <<pFragments, pFormat, pRing, pRate, pPc, pPacket>>
             \/ /\ UNCHANGED <<pFragments, pFormat, pRing, pRate, pPacket>>
                /\ pPc \in {"process", "push"} /\ pPc' \in {"push", "dequeue"}
      BY <1>1 DEF PInv, PTypes, PFormats, PCounted
  <1>2. ASSUME NEW s \in SourceSettings, NEW v \in {0, 1}, processor!SetSetting(s, v)
        PROVE  UNCHANGED <<pFragments, pFormat, pRing, pRate, pPc, pPacket>>
      BY <1>2 DEF processor!SetSetting, processor!inputVars
  <1>3. processor!ProcessChunk \/ processor!PushChunks =>
          /\ UNCHANGED <<pFragments, pFormat, pRing, pRate, pPacket>>
          /\ pPc \in {"process", "push"} /\ pPc' \in {"push", "dequeue"}
      BY DEF processor!ProcessChunk, processor!PushChunks, processor!inputVars
  <1>4. UNCHANGED sourceVars => UNCHANGED <<pFragments, pFormat, pRing, pRate, pPc, pPacket>>
      BY DEF sourceVars
  <1> QED
      BY <1>1, <1>2, <1>3, <1>4, PReceives, PChecks, PAppends, PDequeues
         DEF processor!Next, processor!Mixer

(* source_input_processor.cpp:517-674: whatever formats come and go and      *)
(* whatever playback rates are asked for, what is accumulated is of the      *)
(* format that the audio processor decodes, and the fragments account for    *)
(* all of it: no chunk takes more or less of them than it takes audio.       *)
THEOREM AccumulatorSound == AllSpec => []AccumulatorIsCurrent
  <1>1. PInv /\ [AllNext]_allVars => PInv'
      BY Apart, PStep
  <1>2. ASSUME PInv PROVE AccumulatorIsCurrent
    <2>1. pFragments \in Seq(Fragment) /\ PFormats
        BY <1>2 DEF PInv, PTypes
    <2>2. PICK at : Counts(pFragments, at) /\ at[Len(pFragments)] = pRing
        BY <1>2 DEF PInv, PCounted
    <2>3. Len(pFragments) \in 0 .. Len(pFragments)
        BY <2>1, LenProperties
    <2>4. pRing = processor!Ahead[Len(pFragments) + 1]
        BY <2>1, <2>2, <2>3, AheadCounts
    <2>5. ASSUME NEW i \in DOMAIN pFragments
          PROVE  pFragments[i].format = pFormat /\ pFragments[i].left > 0
      <3>1. pFragments[i] \in Fragment
          BY <2>1, ElementOfSeq, LenProperties
      <3> QED
          BY <2>1, <3>1 DEF PFormats, Fragment
    <2> QED
        BY <2>4, <2>5 DEF AccumulatorIsCurrent, processor!AccumulatorIsCurrent
  <1> QED
      BY <1>1, <1>2, PBegins, PTL DEF AllSpec
=============================================================================
