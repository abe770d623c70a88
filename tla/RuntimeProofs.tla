---------------------------- MODULE RuntimeProofs ---------------------------
(* The threads of the engine, whatever the number of threads, sources,       *)
(* devices and slots: what is stopped leaves nothing behind, and what passes *)
(* from one thread to another keeps its order.                               *)
EXTENDS MCRuntime, FiniteSetTheorems, SequenceTheorems, TLAPS

-----------------------------------------------------------------------------
(* MixerLifecycle, with and without MP3. A mixer of which nothing is left and*)
(* one that runs.                                                            *)
NothingLeft == mThread = "none" /\ mWorker = "none" /\ ~mTimer /\ ~mSender
MixerRuns == mThread \in {"tick", "wait", "cycle"} /\ mTimer /\ mSender /\ ~mStopFlag

StartSteps == {"begin", "setup", "timer", "mp3", "thread", "undo"}
StopSteps  == {"unregister", "mp3", "join_mp3", "join", "close"}

MixerTypes ==
  /\ mCall \in {"idle", "join_startup", "flag", "unregister", "mp3", "join_mp3", "join", "close"}
  /\ mStartup \in {"none", "begin", "setup", "timer", "mp3", "thread", "undo", "ended"}
  /\ mThread \in {"none", "tick", "wait", "cycle", "ended"}
  /\ mWorker \in {"none", "check", "going", "blocked", "encode", "ended"}

(* What the startup thread has set up: stop() waits for it before it touches *)
(* anything.                                                                 *)
StartingUp ==
  /\ mStartup \in StartSteps => /\ mThread = "none" /\ mCall \in {"idle", "join_startup"}
                                /\ mStarting /\ ~mStopped
  /\ mStartup \in StartSteps \ {"begin"} => ~mStopFlag
  /\ mStartup \in {"begin", "setup"} => NothingLeft
  /\ mStartup \in {"timer", "mp3"} => mWorker = "none" /\ mSender /\ (mTimer <=> mStartup = "mp3")
  /\ mStartup = "thread" => mSender /\ mTimer
  /\ mStartup = "undo" => ~mTimer

(* Between start() and stop() the mixer runs, or failed to start: its flag is*)
(* set only if nothing is left.                                              *)
Settled == mStartup \notin StartSteps /\ mCall \in {"idle", "join_startup"} =>
             \/ NothingLeft /\ (mStopFlag \/ mStopped)
             \/ MixerRuns /\ ~mStopped

StoppingDown ==
  /\ mCall # "idle" => ~mStopped
  /\ mCall = "flag" => MixerRuns /\ mStartup \notin StartSteps
  /\ mCall \in StopSteps => mStopFlag /\ mStartup \notin StartSteps
  /\ mCall \in StopSteps \ {"unregister"} => ~mTimer
  /\ mCall \in {"join", "close"} => mWorker = "none"
  /\ mCall = "close" => mThread = "none"

MixerInv == MixerTypes /\ StartingUp /\ Settled /\ StoppingDown

-----------------------------------------------------------------------------
(* MixScheduler, bounded by time and by number.                              *)
SchedTypes ==
  /\ sReady \in [Sources -> Seq(Nat)] /\ sQueue \in [Sources -> Seq(Nat)]
  /\ sMade \in [Sources -> Nat] /\ sHand \in [Sources -> Nat]
  /\ sReceived \in [Sources -> Nat] /\ sPopped \in [Sources -> Nat] /\ sDropped \in [Sources -> Nat]
  /\ sWorker \in [Sources -> {"none", "look", "pop", "append", "leave", "ended"}]
  /\ sAttached \subseteq Sources

Controls ==
  /\ sControl = [step |-> sControl.step, id |-> sControl.id, todo |-> sControl.todo, attach |-> sControl.attach]
  /\ sControl.todo \subseteq Sources
  /\ sControl.step \notin {"idle", "next"} => sControl.id \in Sources

(* The counters of a source account for every chunk it made ready.           *)
ChunksCounted == \A s \in Sources : sReceived[s] = sPopped[s] + sDropped[s] + Len(sReady[s])

SchedInv == SchedTypes /\ Controls /\ DetachedIsGone /\ ChunksCounted

-----------------------------------------------------------------------------
(* EngineLifecycle. The stages of initialize() and of shutdown() in their    *)
(* order; `Left' of them are still to come.                                  *)
InitOrder == engine!Making \o engine!Starting
StopOrder == engine!Stopping \o engine!Clearing
Left == Len(eStage)

Stages == engine!Parts
          \cup {"network", "start_timeshift", "start_receivers", "start_stats", "start_notifier"}
          \cup {"stop_sinks", "stop_sources", "stop_receivers", "stop_stats", "stop_timeshift",
                "stop_enumerator", "clear"}

Staged ==
  /\ eStage \in Seq(Stages)
  /\ eInits \in Nat
  /\ eDoing = "initialize" => /\ eInits > 0 /\ ~eRunning /\ Left <= 15
                              /\ \A i \in 1 .. Left : eStage[i] = InitOrder[i + 15 - Left]
  /\ eDoing = "shutdown"   => /\ ~eRunning /\ Left <= 17
                              /\ \A i \in 1 .. Left : eStage[i] = StopOrder[i + 17 - Left]

(* The stage of initialize() that makes a part.                              *)
Place(p) == CASE p = "timeshift" -> 1 [] p = "enumerator" -> 2 [] p = "sources" -> 3
              [] p = "sinks" -> 4 [] p = "receivers" -> 5 [] p = "webrtc" -> 6
              [] p = "connections" -> 7 [] p = "control" -> 8 [] p = "mp3" -> 9
              [] p = "stats" -> 10 [] p = "notifier" -> 16 [] OTHER -> 11

(* What this initialize() has made points to what it has made.               *)
MadeSoFar == eDoing = "initialize" =>
  \A p \in engine!Parts \ {"enumerator"} : Place(p) + Left <= 15 =>
    eMade[p] = eInits /\ \A q \in engine!PointsTo[p] : eBound[p][q] = eInits

(* The threads that point to nothing run after a failed initialize() too; the*)
(* others are started last and stopped first.                                *)
Alone == {"timeshift", "enumerator"}
ThreadsSoFar ==
  /\ eThreads \subseteq Alone \cup engine!Receivers \cup {"stats", "notifier"}
  /\ eDoing = "idle" /\ ~eRunning /\ eInits < MaxInits => eThreads \subseteq Alone
  /\ eDoing = "initialize" /\ Left >= 3 => eThreads \subseteq Alone
  /\ eDoing = "shutdown" => "notifier" \notin eThreads
  /\ eDoing = "shutdown" /\ Left <= 14 => eThreads \subseteq Alone \cup {"stats"}
  /\ eDoing = "shutdown" /\ Left <= 13 => eThreads \subseteq Alone

PartsInv == MadeSoFar /\ ThreadsSoFar /\ NothingDangles

(* Once the sources are stopped nobody holds a capture.                      *)
NoneHeld == eDoing = "shutdown" /\ Left <= 15 => \A t \in Tags : eHeld[t] = 0

CaptureTypes == /\ eUsage \in [Tags -> Nat] /\ eHeld \in [Tags -> Nat]
                /\ eCapture \in [Tags -> {"none", "on", "ended"}]

CaptureInv == CaptureTypes /\ NoneHeld /\ CapturesServed

-----------------------------------------------------------------------------
LEMMA Apart ==
  [AllNext]_allVars =>
    /\ Next \/ UNCHANGED vars
    /\ ring!Next \/ UNCHANGED ringVars
    /\ loop!Next \/ UNCHANGED loopVars
    /\ engine!Next \/ UNCHANGED engineVars
    /\ mixer!Next \/ encoder!Next \/ UNCHANGED mixerVars
    /\ sched!Next \/ untimed!Next \/ UNCHANGED schedVars
  <1>1. UNCHANGED allVars => UNCHANGED <<vars, ringVars, loopVars, engineVars, mixerVars, schedVars>>
      BY DEF allVars
  <1> QED
      BY <1>1, Zenon DEF AllNext

LEMMA LoopGoes == AllSpec => loop!Spec
  <1>1. AllInit => loop!Init
      BY DEF AllInit
  <1>2. UNCHANGED loopVars => UNCHANGED loop!vars
      BY DEF loopVars, loop!vars, loop!receiver
  <1> QED
      BY <1>1, <1>2, Apart, PTL DEF AllSpec, loop!Spec

LEMMA RingGoes == AllSpec => ring!Spec
  <1>1. AllInit => ring!Init
      BY DEF AllInit
  <1>2. UNCHANGED ringVars => UNCHANGED ring!vars
      BY DEF ringVars, ring!vars, ring!producer, ring!consumer
  <1> QED
      BY <1>1, <1>2, Apart, PTL DEF AllSpec, ring!Spec
-----------------------------------------------------------------------------
(* ThreadSafeQueue, for any number of producers, consumers and pollers. Each *)
(* of the properties needs the others.                                       *)
QInv == TypeOK /\ NoSleepOnWork /\ StopHeard /\ Bounded

(* Sets of threads are finite, and adding or removing a thread counts.       *)
LEMMA AddThread ==
  ASSUME NEW S, NEW T \in SUBSET S, IsFiniteSet(S), NEW x, x \notin T
  PROVE  Cardinality(T) \in Nat /\ Cardinality(T \cup {x}) = Cardinality(T) + 1
  BY FS_Subset, FS_AddElement, FS_CardinalityType

LEMMA RemoveThread ==
  ASSUME NEW S, NEW T \in SUBSET S, IsFiniteSet(S), NEW x
  PROVE  /\ Cardinality(T) \in Nat /\ Cardinality(T \ {x}) \in Nat
         /\ x \in T => Cardinality(T \ {x}) = Cardinality(T) - 1
         /\ Cardinality(T \ {x}) >= Cardinality(T) - 1
  <1>1. IsFiniteSet(T) /\ Cardinality(T) \in Nat
      BY FS_Subset, FS_CardinalityType
  <1>2. /\ IsFiniteSet(T \ {x})
        /\ Cardinality(T \ {x}) = IF x \in T THEN Cardinality(T) - 1 ELSE Cardinality(T)
      BY <1>1, FS_RemoveElement
  <1>3. Cardinality(T \ {x}) \in Nat
      BY <1>2, FS_CardinalityType
  <1> QED
      BY <1>1, <1>2, <1>3

(* The lengths the invariant speaks of.                                      *)
LEMMA Lengths ==
  ASSUME TypeOK, NEW e \in Nat
  PROVE  /\ Len(queue_) \in Nat
         /\ Append(queue_, e) \in Seq(Nat) /\ Len(Append(queue_, e)) = Len(queue_) + 1
         /\ queue_ # <<>> =>
              /\ Head(queue_) \in Nat
              /\ Tail(queue_) \in Seq(Nat) /\ Len(Tail(queue_)) = Len(queue_) - 1
              /\ Append(Tail(queue_), e) \in Seq(Nat)
              /\ Len(Append(Tail(queue_), e)) = Len(queue_)
  BY DEF TypeOK

-----------------------------------------------------------------------------
LEMMA QInit == Init => QInv
  <1> SUFFICES ASSUME Init PROVE QInv
      OBVIOUS
  <1>1. TypeOK
    <2>1. queue_ \in Seq(Nat) /\ taken \in Seq(Nat) /\ accepted \in Nat
        BY DEF Init
    <2>2. stop_requested_ \in BOOLEAN /\ stopping \in BOOLEAN
        BY Zenon DEF Init
    <2> QED
        BY <2>1, <2>2, Zenon DEF Init, TypeOK
  <1>3. NoSleepOnWork /\ StopHeard
      BY DEF Init, NoSleepOnWork, StopHeard
  <1>2. Bounded
      BY LimitAssumption DEF Init, Bounded
  <1> QED
      BY <1>1, <1>2, <1>3 DEF QInv

(* A push brings the notification that will answer for its item.             *)
LEMMA QPush == ASSUME QInv, NEW p \in Producer, Produce(p) PROVE QInv'
  <1>1. /\ TypeOK /\ NoSleepOnWork /\ StopHeard /\ Bounded
        /\ p \notin notifying /\ ~stop_requested_ /\ accepted' = accepted + 1
        /\ notifying' = notifying \cup {p}
        /\ UNCHANGED <<stop_requested_, stopping, waiting, woken, gone, taken>>
      BY DEF QInv, Produce, Push, PushDropOldest, Accept, WillNotify
  <1>2. accepted + 1 \in Nat /\ Limit \in Nat
      BY <1>1, LimitAssumption DEF TypeOK
  <1>3. /\ queue_' \in Seq(Nat) /\ discarded' \subseteq Nat
        /\ Len(queue_') \in Nat /\ Len(queue_') <= Len(queue_) + 1
        /\ Limit > 0 => Len(queue_') <= Limit
    <2>1. CASE Push(p)
      <3>1. queue_' = Append(queue_, accepted + 1) /\ ~Full /\ discarded' = discarded
          BY <2>1 DEF Push
      <3> QED
          BY <1>1, <1>2, <3>1, Lengths DEF Full, TypeOK
    <2>2. CASE PushDropOldest(p)
      <3>1. /\ queue_' = Append(Tail(queue_), accepted + 1) /\ Full
            /\ discarded' = discarded \cup {Head(queue_)}
          BY <2>2 DEF PushDropOldest
      <3>2. queue_ # <<>>
          BY <1>2, <3>1 DEF Full
      <3>3. /\ Head(queue_) \in Nat /\ queue_' \in Seq(Nat)
            /\ Len(queue_') = Len(queue_) /\ Len(queue_) \in Nat
          BY <1>1, <1>2, <3>1, <3>2, Lengths
      <3>4. discarded' \subseteq Nat
          BY <1>1, <3>1, <3>3 DEF TypeOK
      <3>5. Limit > 0 => Len(queue_) <= Limit
          BY <1>1 DEF Bounded
      <3> QED
          BY <3>3, <3>4, <3>5
    <2> QED
        BY <2>1, <2>2 DEF Produce
  <1>4. TypeOK'
      BY <1>1, <1>2, <1>3 DEF TypeOK
  <1>5. NoSleepOnWork'
    <2>1. /\ Cardinality(notifying') = Cardinality(notifying) + 1 /\ Cardinality(notifying) \in Nat
        BY <1>1, ThreadAssumption, AddThread DEF TypeOK
    <2>2. Cardinality(woken) \in Nat /\ Len(queue_) \in Nat
        BY <1>1, <1>2, ThreadAssumption, RemoveThread, Lengths DEF TypeOK
    <2> QED
        BY <1>1, <1>3, <2>1, <2>2 DEF NoSleepOnWork
  <1>6. StopHeard' /\ Bounded'
      BY <1>1, <1>3 DEF StopHeard, Bounded
  <1> QED
      BY <1>4, <1>5, <1>6 DEF QInv

(* notify_one turns a notification into a thread that runs.                  *)
LEMMA QNotify == ASSUME QInv, NEW p \in Producer, Notify(p) PROVE QInv'
  <1>1. /\ TypeOK /\ NoSleepOnWork /\ StopHeard /\ Bounded /\ p \in notifying
        /\ notifying' = notifying \ {p}
        /\ UNCHANGED <<queue_, stop_requested_, stopping, gone, accepted, discarded, taken>>
      BY DEF QInv, Notify
  <1>2. CASE waiting = {} /\ UNCHANGED <<waiting, woken>>
    <2>1. TypeOK' /\ StopHeard' /\ Bounded'
        BY <1>1, <1>2 DEF TypeOK, StopHeard, Bounded
    <2> QED
        BY <1>2, <2>1 DEF QInv, NoSleepOnWork
  <1>3. ASSUME NEW c \in waiting, waiting' = waiting \ {c}, woken' = woken \cup {c}
        PROVE  QInv'
    <2>1. TypeOK' /\ StopHeard' /\ Bounded'
        BY <1>1, <1>3 DEF TypeOK, StopHeard, Bounded
    <2>2. Cardinality(woken') = Cardinality(woken) + 1 /\ Cardinality(woken) \in Nat
        BY <1>1, <1>3, ThreadAssumption, AddThread DEF TypeOK
    <2>3. Cardinality(notifying') = Cardinality(notifying) - 1 /\ Cardinality(notifying) \in Nat
        BY <1>1, ThreadAssumption, RemoveThread DEF TypeOK
    <2>4. NoSleepOnWork'
        BY <1>1, <1>3, <2>2, <2>3 DEF NoSleepOnWork
    <2> QED
        BY <2>1, <2>4 DEF QInv
  <1> QED
      BY <1>2, <1>3 DEF Notify

LEMMA QStop == ASSUME QInv, Stop \/ NotifyAll PROVE QInv'
  <1>1. CASE Stop
      BY <1>1 DEF Stop, QInv, TypeOK, NoSleepOnWork, StopHeard, Bounded
  <1>2. CASE NotifyAll
      BY <1>2 DEF NotifyAll, QInv, TypeOK, NoSleepOnWork, StopHeard, Bounded
  <1> QED
      BY <1>1, <1>2

(* A thread that takes an item pays for it, one that finds none owes nothing. *)
LEMMA QConsume == ASSUME QInv, NEW c \in Consumer, Consume(c) PROVE QInv'
  <1>1. /\ TypeOK /\ NoSleepOnWork /\ StopHeard /\ Bounded /\ Running(c)
        /\ woken' = woken \ {c}
        /\ UNCHANGED <<stop_requested_, notifying, stopping, accepted, discarded>>
      BY DEF QInv, Consume, Pop, Wait, PopFalse
  <1>2. /\ Cardinality(woken) \in Nat /\ Cardinality(woken') \in Nat
        /\ Cardinality(woken') >= Cardinality(woken) - 1
        /\ Cardinality(notifying) \in Nat
    <2>1. woken \in SUBSET Consumer /\ notifying \in SUBSET Producer
        BY <1>1 DEF TypeOK
    <2>2. /\ Cardinality(woken) \in Nat /\ Cardinality(woken \ {c}) \in Nat
          /\ Cardinality(woken \ {c}) >= Cardinality(woken) - 1
        BY <2>1, ThreadAssumption, RemoveThread
    <2>3. Cardinality(notifying) \in Nat
        BY <2>1, ThreadAssumption, RemoveThread
    <2>4. woken' = woken \ {c}
        BY <1>1
    <2> QED
        BY <2>2, <2>3, <2>4
  <1>3. CASE Pop(c)
    <2>1. /\ queue_ # <<>> /\ queue_' = Tail(queue_) /\ taken' = Append(taken, Head(queue_))
          /\ waiting' = waiting /\ gone' = gone
        BY <1>3 DEF Pop, TakeOldest
    <2>2. Len(queue_') = Len(queue_) - 1 /\ Len(queue_) \in Nat /\ Head(queue_) \in Nat
          /\ queue_' \in Seq(Nat)
        BY <1>1, <2>1, Lengths
    <2>3. TypeOK'
        BY <1>1, <2>1, <2>2 DEF TypeOK
    <2>4. NoSleepOnWork'
        BY <1>1, <1>2, <2>1, <2>2 DEF NoSleepOnWork
    <2>5. StopHeard' /\ Bounded'
        BY <1>1, <2>1, <2>2, LimitAssumption DEF StopHeard, Bounded
    <2> QED
        BY <2>3, <2>4, <2>5 DEF QInv
  <1>4. CASE Wait(c) \/ PopFalse(c)
    <2>1. queue_ = <<>> /\ queue_' = queue_ /\ taken' = taken
        BY <1>4 DEF Wait, PopFalse
    <2>2. TypeOK'
        BY <1>1, <1>4, <2>1 DEF Wait, PopFalse, TypeOK, Running
    <2>3. NoSleepOnWork'
        BY <1>1, <1>2, <2>1 DEF NoSleepOnWork
    <2>4. StopHeard' /\ Bounded'
        BY <1>1, <1>4, <2>1 DEF Wait, PopFalse, StopHeard, Bounded
    <2> QED
        BY <2>2, <2>3, <2>4 DEF QInv
  <1> QED
      BY <1>3, <1>4 DEF Consume

LEMMA QSpurious == ASSUME QInv, NEW c \in Consumer, Spurious(c) PROVE QInv'
  <1>1. /\ TypeOK /\ NoSleepOnWork /\ StopHeard /\ Bounded /\ c \in waiting
        /\ waiting' = waiting \ {c} /\ woken' = woken \cup {c}
        /\ UNCHANGED <<queue_, stop_requested_, notifying, stopping, gone, accepted, discarded, taken>>
      BY DEF QInv, Spurious
  <1>2. TypeOK' /\ StopHeard' /\ Bounded'
      BY <1>1 DEF TypeOK, StopHeard, Bounded
  <1>3. /\ Cardinality(woken') = Cardinality(woken) + 1 /\ Cardinality(woken) \in Nat
        /\ Cardinality(notifying) \in Nat
      BY <1>1, ThreadAssumption, AddThread, RemoveThread DEF TypeOK
  <1>4. NoSleepOnWork'
      BY <1>1, <1>3, Lengths DEF NoSleepOnWork, TypeOK
  <1> QED
      BY <1>2, <1>4 DEF QInv

LEMMA QTryPop == ASSUME QInv, NEW p \in Poller, TryPop(p) PROVE QInv'
  <1>1. /\ TypeOK /\ NoSleepOnWork /\ StopHeard /\ Bounded
        /\ queue_ # <<>> /\ queue_' = Tail(queue_) /\ taken' = Append(taken, Head(queue_))
        /\ UNCHANGED <<stop_requested_, notifying, stopping, waiting, woken, gone, accepted, discarded>>
      BY DEF QInv, TryPop, TakeOldest
  <1>2. /\ Len(queue_') = Len(queue_) - 1 /\ Len(queue_) \in Nat /\ Head(queue_) \in Nat
        /\ queue_' \in Seq(Nat)
      BY <1>1, Lengths
  <1>3. Cardinality(woken) \in Nat /\ Cardinality(notifying) \in Nat
      BY <1>1, ThreadAssumption, RemoveThread DEF TypeOK
  <1>4. TypeOK'
      BY <1>1, <1>2 DEF TypeOK
  <1>5. NoSleepOnWork' /\ StopHeard' /\ Bounded'
      BY <1>1, <1>2, <1>3, LimitAssumption DEF NoSleepOnWork, StopHeard, Bounded
  <1> QED
      BY <1>4, <1>5 DEF QInv

(* The inductive invariant of the queue.                                     *)
THEOREM QueueInvariance == AllSpec => []QInv
  <1>1. QInv /\ Next => QInv'
      BY QPush, QNotify, QStop, QConsume, QSpurious, QTryPop DEF Next
  <1>2. QInv /\ UNCHANGED vars => QInv'
      BY DEF vars, QInv, TypeOK, NoSleepOnWork, StopHeard, Bounded
  <1>3. AllInit => QInv
      BY QInit DEF AllInit
  <1> QED
      BY <1>1, <1>2, <1>3, Apart, PTL DEF AllSpec

(* While a consumer sleeps in pop, every queued item has a running thread or *)
(* a notification of its own: notifying after the unlock loses no wakeup.    *)
THEOREM NoLostWakeup == AllSpec => []NoSleepOnWork
  <1>1. QInv => NoSleepOnWork
      BY DEF QInv
  <1> QED
      BY <1>1, QueueInvariance, PTL

(* After stop() no consumer sleeps in pop, so a join of its thread returns.  *)
THEOREM StopReachesAll == AllSpec => []StopHeard
  <1>1. QInv => StopHeard
      BY DEF QInv
  <1> QED
      BY <1>1, QueueInvariance, PTL

(* push_bounded keeps its bound whoever pushes.                              *)
THEOREM BoundKept == AllSpec => []Bounded
  <1>1. QInv => Bounded
      BY DEF QInv
  <1> QED
      BY <1>1, QueueInvariance, PTL

-----------------------------------------------------------------------------
(* add_packet: the packets of a receiver stay in its order, whatever its     *)
(* neighbours do (TimeshiftRunLoop).                                         *)
THEOREM RuntimeKeepsOrder == AllSpec => []ReceiverOrder
  BY LoopGoes, loop!ReceiverOrderKept DEF ReceiverOrder

(* run: the thread never sleeps on a packet it was not told of.              *)
THEOREM RuntimeTellsLoop == AllSpec => []VersionCoversQueue
  BY LoopGoes, loop!NoSleepUntold DEF VersionCoversQueue

(* packet_ring.h: the ring is the drop-oldest queue of its comment.          *)
THEOREM RuntimeRingIsQueue == AllSpec => RingIsQueue
  BY RingGoes, ring!RingRefinesQueue, RingConstants DEF RingIsQueue
-----------------------------------------------------------------------------
USE DEF mixer!mp3Vars, mixer!callVars, mixer!startVars, encoder!mp3Vars, encoder!callVars,
        encoder!startVars

(* The two instances differ in Mp3 only, which one action reads.             *)
LEMMA MixerStarts ==
  ASSUME MixerInv, mixer!Start \/ encoder!Start \/ mixer!Startup \/ encoder!Startup
  PROVE  MixerInv'
  <1> USE DEF MixerInv, MixerTypes, StartingUp, Settled, StoppingDown, StartSteps, StopSteps,
              NothingLeft, MixerRuns
  <1>1. CASE mixer!Start \/ encoder!Start
      BY <1>1 DEF mixer!Start, encoder!Start, mixer!IsRunning, encoder!IsRunning
  <1>2. CASE mixer!StartBegin \/ encoder!StartBegin
      BY <1>2 DEF mixer!StartBegin, encoder!StartBegin
  <1>3. CASE mixer!SetupSender \/ encoder!SetupSender
      BY <1>3 DEF mixer!SetupSender, encoder!SetupSender, mixer!StartFails, encoder!StartFails
  <1>4. CASE mixer!RegisterTimer \/ encoder!RegisterTimer
      BY <1>4 DEF mixer!RegisterTimer, encoder!RegisterTimer, mixer!StartFails, encoder!StartFails
  <1>5. CASE mixer!StartMp3 \/ encoder!StartMp3
      BY <1>5 DEF mixer!StartMp3, encoder!StartMp3
  <1>6. CASE mixer!LaunchThread \/ encoder!LaunchThread
      BY <1>6 DEF mixer!LaunchThread, encoder!LaunchThread
  <1>7. CASE mixer!UndoMp3 \/ encoder!UndoMp3
      BY <1>7 DEF mixer!UndoMp3, encoder!UndoMp3, mixer!NotifyStop, encoder!NotifyStop
  <1>8. CASE mixer!UndoStart \/ encoder!UndoStart
      BY <1>8 DEF mixer!UndoStart, encoder!UndoStart, mixer!StartFails, encoder!StartFails
  <1> QED
      BY <1>1, <1>2, <1>3, <1>4, <1>5, <1>6, <1>7, <1>8 DEF mixer!Startup, encoder!Startup

LEMMA MixerStops ==
  ASSUME MixerInv, mixer!CallStop \/ encoder!CallStop \/ mixer!Stop \/ encoder!Stop
  PROVE  MixerInv'
  <1> USE DEF MixerInv, MixerTypes, StartingUp, Settled, StoppingDown, StartSteps, StopSteps,
              NothingLeft, MixerRuns, mixer!At, encoder!At, mixer!Goto, encoder!Goto,
              mixer!Return, encoder!Return
  <1>1. CASE mixer!CallStop \/ encoder!CallStop
      BY <1>1 DEF mixer!CallStop, encoder!CallStop
  <1>2. CASE mixer!JoinStartup \/ encoder!JoinStartup
      BY <1>2 DEF mixer!JoinStartup, encoder!JoinStartup, mixer!StartupOver, encoder!StartupOver
  <1>3. CASE mixer!SetFlag \/ encoder!SetFlag
      BY <1>3 DEF mixer!SetFlag, encoder!SetFlag
  <1>4. CASE mixer!UnregisterTimer \/ encoder!UnregisterTimer
      BY <1>4 DEF mixer!UnregisterTimer, encoder!UnregisterTimer
  <1>5. CASE mixer!StopMp3 \/ encoder!StopMp3
      BY <1>5 DEF mixer!StopMp3, encoder!StopMp3, mixer!NotifyStop, encoder!NotifyStop
  <1>6. CASE mixer!JoinMp3 \/ encoder!JoinMp3
      BY <1>6 DEF mixer!JoinMp3, encoder!JoinMp3
  <1>7. CASE mixer!JoinThread \/ encoder!JoinThread
      BY <1>7 DEF mixer!JoinThread, encoder!JoinThread
  <1>8. CASE mixer!CloseSender \/ encoder!CloseSender
      BY <1>8 DEF mixer!CloseSender, encoder!CloseSender
  <1> QED
      BY <1>1, <1>2, <1>3, <1>4, <1>5, <1>6, <1>7, <1>8 DEF mixer!Stop, encoder!Stop

LEMMA MixerWorks ==
  ASSUME MixerInv,
         mixer!Tick \/ encoder!Tick \/ mixer!Thread \/ encoder!Thread \/ mixer!Worker \/ encoder!Worker
  PROVE  MixerInv'
  <1> USE DEF MixerInv, MixerTypes, StartingUp, Settled, StoppingDown, StartSteps, StopSteps,
              NothingLeft, MixerRuns, mixer!ThreadStays, encoder!ThreadStays, mixer!Mp3Stays,
              encoder!Mp3Stays
  <1>1. CASE mixer!Tick \/ encoder!Tick
      BY <1>1 DEF mixer!Tick, encoder!Tick
  <1>2. CASE mixer!EndThread \/ encoder!EndThread
      BY <1>2 DEF mixer!EndThread, encoder!EndThread
  <1>3. CASE mixer!WaitTick \/ encoder!WaitTick
      BY <1>3 DEF mixer!WaitTick, encoder!WaitTick
  <1>4. CASE mixer!Wake \/ encoder!Wake
      BY <1>4 DEF mixer!Wake, encoder!Wake
  <1>5. CASE mixer!Cycle \/ encoder!Cycle
      BY <1>5 DEF mixer!Cycle, encoder!Cycle
  <1>6. CASE mixer!Worker \/ encoder!Worker
      BY <1>6 DEF mixer!Worker, encoder!Worker, mixer!WorkerCheck, encoder!WorkerCheck,
                  mixer!WorkerBlocks, encoder!WorkerBlocks, mixer!Encode, encoder!Encode
  <1> QED
      BY <1>1, <1>2, <1>3, <1>4, <1>5, <1>6 DEF mixer!Thread, encoder!Thread

LEMMA MixerInvariance == AllSpec => []MixerInv
  <1>1. AllInit => MixerInv
      BY DEF AllInit, mixer!Init, MixerInv, MixerTypes, StartingUp, Settled, StoppingDown,
             StartSteps, StopSteps, NothingLeft
  <1>2. MixerInv /\ UNCHANGED mixerVars => MixerInv'
      BY DEF mixerVars, MixerInv, MixerTypes, StartingUp, Settled, StoppingDown, NothingLeft,
             MixerRuns
  <1>3. MixerInv /\ (mixer!Next \/ encoder!Next) => MixerInv'
      BY MixerStarts, MixerStops, MixerWorks DEF mixer!Next, encoder!Next
  <1> QED
      BY <1>1, <1>2, <1>3, Apart, PTL DEF AllSpec

(* stop(): whatever start() was doing, when it has returned no thread, timer,*)
(* worker or open sender is left, with MP3 and without.                      *)
THEOREM MixerStopsClean == AllSpec => []StopLeavesNothing
  <1>1. MixerInv => StopLeavesNothing
      BY DEF MixerInv, MixerTypes, StartingUp, Settled, StoppingDown, StartSteps, StopSteps,
             NothingLeft, MixerRuns, StopLeavesNothing, mixer!StopLeavesNothing
  <1> QED
      BY MixerInvariance, <1>1, PTL


-----------------------------------------------------------------------------
USE DEF sched!sourceVars, sched!workerVars, sched!readyVars, untimed!sourceVars,
        untimed!workerVars, untimed!readyVars, sched!WorkerStays, untimed!WorkerStays,
        sched!CallerStays, untimed!CallerStays

(* What a step that leaves the ready chunks and their counters alone has to  *)
(* show.                                                                     *)
LEMMA SchedStays ==
  ASSUME SchedInv, SchedTypes', Controls', UNCHANGED <<sReady, sReceived, sPopped, sDropped>>,
         \A s \in Sources \ sAttached' : s \in Sources \ sAttached /\ sWorker'[s] = sWorker[s]
  PROVE  SchedInv'
  <1>1. DetachedIsGone'
      BY DEF SchedInv, DetachedIsGone, sched!DetachedIsGone
  <1>2. ChunksCounted'
      BY DEF SchedInv, ChunksCounted
  <1> QED
      BY <1>1, <1>2 DEF SchedInv

LEMMA ControlsStay == ASSUME Controls, UNCHANGED sControl PROVE Controls'
  BY DEF Controls

(* A worker that runs is one of an attached source.                          *)
LEMMA RunningIsAttached == ASSUME SchedInv, NEW x \in Sources, sWorker[x] # "none" PROVE x \in sAttached
  BY DEF SchedInv, DetachedIsGone, sched!DetachedIsGone

(* The two schedulers differ only in what their sources may have ready.      *)
LEMMA SchedSteps ==
  ASSUME sched!Next \/ untimed!Next
  PROVE  \/ \E s \in Sources : \/ sched!Produce(s) \/ sched!LookAtFlag(s) \/ sched!PopChunk(s)
                               \/ sched!AppendChunk(s) \/ untimed!AppendChunk(s) \/ sched!Leave(s)
                               \/ sched!AttachSource(s) \/ sched!DetachSource(s)
         \/ sched!Collect \/ sched!Shutdown \/ sched!Caller
  <1>1. ASSUME NEW s \in Sources
        PROVE  /\ untimed!Produce(s) => sched!Produce(s)
               /\ untimed!LookAtFlag(s) => sched!LookAtFlag(s)
               /\ untimed!PopChunk(s) => sched!PopChunk(s)
               /\ untimed!Leave(s) => sched!Leave(s)
      BY DEF sched!Produce, untimed!Produce, sched!LookAtFlag, untimed!LookAtFlag, sched!PopChunk,
             untimed!PopChunk, sched!Leave, untimed!Leave
  <1>2. ASSUME NEW s \in Sources
        PROVE  /\ untimed!AttachSource(s) => sched!AttachSource(s)
               /\ untimed!DetachSource(s) => sched!DetachSource(s)
      BY DEF sched!AttachSource, untimed!AttachSource, sched!DetachSource, untimed!DetachSource
  <1>3. untimed!Collect => sched!Collect
      BY DEF sched!Collect, untimed!Collect
  <1>4. untimed!Shutdown => sched!Shutdown
      BY DEF sched!Shutdown, untimed!Shutdown, sched!Idle, untimed!Idle
  <1>5. untimed!NextToDetach => sched!NextToDetach
      BY DEF sched!NextToDetach, untimed!NextToDetach, sched!Idle, untimed!Idle
  <1>6. untimed!MarkStopping => sched!MarkStopping
      BY DEF sched!MarkStopping, untimed!MarkStopping, sched!Detached, untimed!Detached
  <1>7. untimed!PushSentinel => sched!PushSentinel
      BY DEF sched!PushSentinel, untimed!PushSentinel, sched!Woken, untimed!Woken, sched!Sentinel, untimed!Sentinel
  <1>8. untimed!EraseSource => sched!EraseSource
      BY DEF sched!EraseSource, untimed!EraseSource, sched!Joined, untimed!Joined, sched!Detached, untimed!Detached
  <1>9. untimed!InsertSource => sched!InsertSource
      BY DEF sched!InsertSource, untimed!InsertSource, sched!Idle, untimed!Idle
  <1> QED
      BY <1>1, <1>2, <1>3, <1>4, <1>5, <1>6, <1>7, <1>8, <1>9, Zenon
      DEF sched!Next, untimed!Next, sched!Worker, untimed!Worker, sched!Caller, untimed!Caller

LEMMA SchedWorks ==
  ASSUME SchedInv, NEW x \in Sources,
         sched!Produce(x) \/ sched!LookAtFlag(x) \/ sched!PopChunk(x) \/ sched!Leave(x)
  PROVE  SchedInv'
  <1>1. SchedTypes /\ Controls
      BY DEF SchedInv
  <1>2. /\ UNCHANGED <<sControl, sAttached, sReady, sReceived, sPopped, sDropped>>
        /\ sWorker' = sWorker \/ (sWorker[x] # "none" /\ \A s \in Sources \ {x} : sWorker'[s] = sWorker[s])
      BY <1>1 DEF SchedTypes, sched!Produce, sched!LookAtFlag, sched!PopChunk, sched!Leave
  <1>3. SchedTypes'
    <2> USE <1>1 DEF SchedTypes
    <2>1. CASE sched!Produce(x)
      <3>1. sMade[x] + 1 \in Nat
          OBVIOUS
      <3>2. Append(sQueue[x], sMade[x] + 1) \in Seq(Nat)
          BY <3>1, AppendProperties
      <3> QED
          BY <2>1, <3>1, <3>2 DEF sched!Produce
    <2>2. CASE sched!LookAtFlag(x)
        BY <2>2 DEF sched!LookAtFlag
    <2>3. CASE sched!PopChunk(x)
      <3>1. sQueue[x] # <<>>
          BY <2>3 DEF sched!PopChunk
      <3>2. Tail(sQueue[x]) \in Seq(Nat) /\ Head(sQueue[x]) \in Nat
          BY <3>1, HeadTailProperties
      <3> QED
          BY <2>3, <3>2 DEF sched!PopChunk
    <2>4. CASE sched!Leave(x)
        BY <2>4 DEF sched!Leave
    <2> QED
        BY <2>1, <2>2, <2>3, <2>4
  <1> QED
      BY <1>1, <1>2, <1>3, SchedStays, ControlsStay, RunningIsAttached

LEMMA SchedAppends ==
  ASSUME SchedInv, NEW x \in Sources, sched!AppendChunk(x) \/ untimed!AppendChunk(x)
  PROVE  SchedInv'
  <1> USE DEF SchedTypes
  <1>1. SchedTypes /\ Controls /\ x \in sAttached
      BY RunningIsAttached DEF SchedInv, sched!AppendChunk, untimed!AppendChunk
  <1>2. sWorker' = [sWorker EXCEPT ![x] = "look"] /\ sHand' = [sHand EXCEPT ![x] = 0]
        /\ UNCHANGED <<sQueue, sMade, sAttached, sPopped, sControl>>
      BY DEF sched!AppendChunk, untimed!AppendChunk
  <1>3. CASE UNCHANGED <<sReady, sReceived, sDropped>>
    <2>1. SchedTypes'
        BY <1>1, <1>2, <1>3
    <2> QED
        BY <1>1, <1>2, <1>3, <2>1, SchedStays, ControlsStay
  <1>4. CASE ~UNCHANGED <<sReady, sReceived, sDropped>>
    <2>1. sReceived' = [sReceived EXCEPT ![x] = @ + 1]
        BY <1>4 DEF sched!AppendChunk, untimed!AppendChunk
    <2>2. sReady[x] \in Seq(Nat) /\ Len(sReady[x]) \in Nat /\ sHand[x] \in Nat
        BY <1>1, LenProperties
    <2>3. PICK kept \in Seq(Nat), more \in {0, 1} :
            /\ sReady' = [sReady EXCEPT ![x] = Append(kept, sHand[x])]
            /\ sDropped' = [sDropped EXCEPT ![x] = @ + more]
            /\ Len(kept) = Len(sReady[x]) - more
      <3>1. \/ /\ sReady' = [sReady EXCEPT ![x] = Append(sReady[x], sHand[x])]
               /\ sDropped' = [sDropped EXCEPT ![x] = @]
            \/ /\ Len(sReady[x]) > 0
               /\ sReady' = [sReady EXCEPT ![x] = Append(Tail(sReady[x]), sHand[x])]
               /\ sDropped' = [sDropped EXCEPT ![x] = @ + 1]
        <4>1. sched!Capacity \in Int /\ untimed!Capacity \in Int
            BY SchedConstants DEF sched!Capacity, untimed!Capacity
        <4>2. CASE sched!AppendChunk(x)
            BY <1>4, <2>2, <4>1, <4>2 DEF sched!AppendChunk
        <4>3. CASE untimed!AppendChunk(x)
            BY <1>4, <2>2, <4>1, <4>3 DEF untimed!AppendChunk
        <4> QED
            BY <4>2, <4>3
      <3>2. sDropped[x] \in Nat
          BY <1>1
      <3>3. sDropped[x] = sDropped[x] + 0
          BY <3>2
      <3>4. ASSUME Len(sReady[x]) > 0
            PROVE  Tail(sReady[x]) \in Seq(Nat) /\ Len(Tail(sReady[x])) = Len(sReady[x]) - 1
        <4>1. sReady[x] # <<>>
            BY <3>4, EmptySeq
        <4> QED
            BY <2>2, <4>1, HeadTailProperties
      <3>5. CASE /\ sReady' = [sReady EXCEPT ![x] = Append(sReady[x], sHand[x])]
                 /\ sDropped' = [sDropped EXCEPT ![x] = @]
        <4>1. sDropped' = [sDropped EXCEPT ![x] = @ + 0]
            BY <3>3, <3>5
        <4>2. Len(sReady[x]) = Len(sReady[x]) - 0
            BY <2>2
        <4> QED
            BY <2>2, <3>5, <4>1, <4>2
      <3>6. CASE /\ Len(sReady[x]) > 0
                 /\ sReady' = [sReady EXCEPT ![x] = Append(Tail(sReady[x]), sHand[x])]
                 /\ sDropped' = [sDropped EXCEPT ![x] = @ + 1]
          BY <2>2, <3>4, <3>6
      <3> QED
          BY <3>1, <3>5, <3>6
    <2>4. Append(kept, sHand[x]) \in Seq(Nat) /\ Len(Append(kept, sHand[x])) = Len(kept) + 1
        BY <2>2, <2>3, AppendProperties
    <2>5. SchedTypes'
      <3>1. sReceived[x] \in Nat /\ sDropped[x] \in Nat
          BY <1>1
      <3>2. sReceived[x] + 1 \in Nat /\ sDropped[x] + more \in Nat
          BY <3>1
      <3> QED
          BY <1>1, <1>2, <2>1, <2>3, <2>4, <3>2
    <2>6. DetachedIsGone'
      <3>1. \A s \in Sources \ sAttached' : sReady'[s] = sReady[s] /\ sReceived'[s] = sReceived[s] /\ sWorker'[s] = sWorker[s]
          BY <1>1, <1>2, <2>1, <2>3
      <3> QED
          BY <1>2, <3>1 DEF SchedInv, DetachedIsGone, sched!DetachedIsGone
    <2>7. ChunksCounted'
      <3> SUFFICES ASSUME NEW s \in Sources
                   PROVE  sReceived'[s] = sPopped'[s] + sDropped'[s] + Len(sReady'[s])
          BY DEF ChunksCounted
      <3>1. sReceived[s] = sPopped[s] + sDropped[s] + Len(sReady[s])
          BY DEF SchedInv, ChunksCounted
      <3>2. CASE s = x
        <4>1. /\ sReceived'[x] = sReceived[x] + 1 /\ sDropped'[x] = sDropped[x] + more
              /\ sPopped'[x] = sPopped[x] /\ Len(sReady'[x]) = Len(sReady[x]) - more + 1
            BY <1>1, <1>2, <2>1, <2>3, <2>4
        <4>2. sReceived[x] \in Nat /\ sPopped[x] \in Nat /\ sDropped[x] \in Nat
            BY <1>1
        <4>3. Len(sReady[x]) \in Nat /\ more \in Nat
            BY <2>2
        <4>4. sReceived[x] = sPopped[x] + sDropped[x] + Len(sReady[x])
            BY <3>1, <3>2
        <4>5. sReceived[x] + 1 = sPopped[x] + (sDropped[x] + more) + (Len(sReady[x]) - more + 1)
            BY <4>2, <4>3, <4>4
        <4> QED
            BY <3>2, <4>1, <4>5
      <3>3. CASE s # x
        <4>1. sReceived'[s] = sReceived[s] /\ sPopped'[s] = sPopped[s] /\ sDropped'[s] = sDropped[s]
            BY <1>1, <1>2, <2>1, <2>3, <3>3
        <4>2. sReady'[s] = sReady[s]
            BY <1>1, <2>3, <3>3
        <4> QED
            BY <3>1, <4>1, <4>2
      <3> QED
          BY <3>2, <3>3
    <2> QED
        BY <1>1, <1>2, <2>5, <2>6, <2>7, ControlsStay DEF SchedInv
  <1> QED
      BY <1>3, <1>4

LEMMA SchedCollects ==
  ASSUME SchedInv, sched!Collect
  PROVE  SchedInv'
  <1>1. SchedTypes /\ Controls
      BY DEF SchedInv
  <1>2. /\ UNCHANGED <<sQueue, sMade, sAttached, sWorker, sHand, sReceived, sDropped, sControl>>
        /\ sReady' = [s \in Sources |-> IF sReady[s] # <<>> THEN Tail(sReady[s]) ELSE sReady[s]]
        /\ sPopped' = [s \in Sources |-> IF sReady[s] # <<>> THEN sPopped[s] + 1 ELSE sPopped[s]]
      BY DEF sched!Collect
  <1>3. \A s \in Sources :
          /\ Len(sReady[s]) \in Nat
          /\ sReady[s] # <<>> => Tail(sReady[s]) \in Seq(Nat) /\ Len(Tail(sReady[s])) = Len(sReady[s]) - 1
      BY <1>1, HeadTailProperties, LenProperties DEF SchedTypes
  <1>4. SchedTypes'
    <2>1. sReady' \in [Sources -> Seq(Nat)]
        BY <1>1, <1>2, <1>3 DEF SchedTypes
    <2>2. sPopped' \in [Sources -> Nat]
        BY <1>1, <1>2 DEF SchedTypes
    <2> QED
        BY <1>1, <1>2, <2>1, <2>2 DEF SchedTypes
  <1>5. DetachedIsGone'
      BY <1>2 DEF SchedInv, DetachedIsGone, sched!DetachedIsGone
  <1>6. ChunksCounted'
      BY <1>1, <1>2, <1>3 DEF SchedInv, SchedTypes, ChunksCounted
  <1> QED
      BY <1>1, <1>2, <1>4, <1>5, <1>6, ControlsStay DEF SchedInv

LEMMA SchedCalls ==
  ASSUME SchedInv,
         \/ \E s \in Sources : sched!AttachSource(s) \/ sched!DetachSource(s)
         \/ sched!Shutdown \/ sched!Caller
  PROVE  SchedInv'
  <1>1. SchedTypes /\ Controls
      BY DEF SchedInv
  <1>2. CASE UNCHANGED <<sQueue, sMade, sHand, sAttached, sWorker, sReady, sReceived, sPopped, sDropped>>
    <2>1. SchedTypes'
        BY <1>1, <1>2 DEF SchedTypes
    <2>2. Controls'
      <3> USE DEF Controls
      <3>1. CASE \E s \in Sources : sched!AttachSource(s) \/ sched!DetachSource(s)
          BY <3>1 DEF sched!AttachSource, sched!DetachSource
      <3>2. CASE sched!Shutdown
          BY <1>1, <3>2 DEF sched!Shutdown, sched!Idle, SchedTypes
      <3>3. CASE sched!NextToDetach /\ sControl.todo = {}
          BY <1>1, <3>3 DEF sched!NextToDetach, sched!Idle
      <3>4. CASE sched!NextToDetach /\ sControl.todo # {}
        <4>1. PICK s \in sControl.todo :
                sControl' = [sControl EXCEPT !.step = "detach", !.id = s, !.todo = @ \ {s}]
            BY <3>4 DEF sched!NextToDetach
        <4> QED
            BY <1>1, <4>1
      <3>5. CASE sched!MarkStopping
          BY <1>1, <3>5 DEF sched!MarkStopping
      <3>6. CASE sched!PushSentinel \/ sched!EraseSource
          BY <1>1, <3>6 DEF sched!PushSentinel, sched!EraseSource
      <3>7. CASE sched!InsertSource
          BY <1>1, <3>7 DEF sched!InsertSource, sched!Idle
      <3> QED
          BY <3>1, <3>2, <3>3, <3>4, <3>5, <3>6, <3>7 DEF sched!Caller
    <2> QED
        BY <1>2, <2>1, <2>2, SchedStays
  <1> DEFINE x == sControl.id
  <1>3. CASE sched!PushSentinel
    <2>1. x \in Sources /\ Append(sQueue[x], 0) \in Seq(Nat)
        BY <1>1, <1>3, AppendProperties DEF sched!PushSentinel, SchedTypes, Controls
    <2>2. SchedTypes'
        BY <1>1, <1>3, <2>1 DEF sched!PushSentinel, sched!Woken, sched!Sentinel, SchedTypes
    <2>3. Controls'
        BY <1>1, <1>3 DEF sched!PushSentinel, Controls
    <2> QED
        BY <1>3, <2>2, <2>3, SchedStays DEF sched!PushSentinel
  <1>4. CASE sched!EraseSource
    <2> USE DEF SchedTypes
    <2>1. /\ x \in Sources
          /\ sAttached' = sAttached \ {x}
          /\ sWorker' = [sWorker EXCEPT ![x] = "none"]
          /\ sReady' = [sReady EXCEPT ![x] = <<>>]
          /\ sReceived' = [sReceived EXCEPT ![x] = 0]
          /\ sPopped' = [sPopped EXCEPT ![x] = 0]
          /\ sDropped' = [sDropped EXCEPT ![x] = 0]
          /\ UNCHANGED <<sQueue, sMade, sHand>>
        BY <1>1, <1>4 DEF sched!EraseSource, sched!Joined, Controls
    <2>2. SchedTypes'
        BY <1>1, <2>1
    <2>3. Controls'
        BY <1>1, <1>4 DEF sched!EraseSource, Controls
    <2>4. DetachedIsGone'
        BY <1>1, <2>1 DEF SchedInv, DetachedIsGone, sched!DetachedIsGone
    <2>5. ChunksCounted'
        BY <1>1, <2>1, EmptySeq DEF SchedInv, ChunksCounted
    <2> QED
        BY <2>2, <2>3, <2>4, <2>5 DEF SchedInv
  <1>5. CASE sched!InsertSource
    <2>1. SchedTypes'
        BY <1>1, <1>5 DEF sched!InsertSource, SchedTypes, Controls
    <2>2. Controls'
        BY <1>5 DEF sched!InsertSource, sched!Idle, Controls
    <2>3. \A s \in Sources \ sAttached' : s \in Sources \ sAttached /\ sWorker'[s] = sWorker[s]
        BY <1>1, <1>5 DEF sched!InsertSource, SchedTypes
    <2> QED
        BY <1>5, <2>1, <2>2, <2>3, SchedStays DEF sched!InsertSource
  <1>6. sched!PushSentinel \/ sched!EraseSource \/ sched!InsertSource
        \/ UNCHANGED <<sQueue, sMade, sHand, sAttached, sWorker, sReady, sReceived, sPopped, sDropped>>
      BY Zenon DEF sched!AttachSource, sched!DetachSource, sched!Shutdown, sched!Caller, sched!NextToDetach, sched!MarkStopping
  <1> QED
      BY <1>2, <1>3, <1>4, <1>5, <1>6

LEMMA SchedInvariance == AllSpec => []SchedInv
  <1>1. AllInit => SchedInv
    <2> SUFFICES ASSUME AllInit PROVE SchedInv
        OBVIOUS
    <2> USE DEF AllInit, sched!Init, sched!Idle, sched!Zero
    <2>1. SchedTypes
        BY EmptySeq DEF SchedTypes
    <2>2. Controls
        BY DEF Controls
    <2>3. DetachedIsGone
        BY DEF DetachedIsGone, sched!DetachedIsGone
    <2>4. ChunksCounted
        BY EmptySeq DEF ChunksCounted
    <2> QED
        BY <2>1, <2>2, <2>3, <2>4 DEF SchedInv
  <1>2. SchedInv /\ UNCHANGED schedVars => SchedInv'
      BY DEF schedVars, SchedInv, SchedTypes, Controls, DetachedIsGone, sched!DetachedIsGone, ChunksCounted
  <1>3. SchedInv /\ (sched!Next \/ untimed!Next) => SchedInv'
      BY SchedSteps, SchedWorks, SchedAppends, SchedCollects, SchedCalls
  <1> QED
      BY <1>1, <1>2, <1>3, Apart, PTL DEF AllSpec

(* detach_source: a source that is detached has nothing left to be mixed and *)
(* no worker, what its worker held when it was told to stop included.        *)
THEOREM DetachLeavesNothing == AllSpec => []DetachedIsGone
  <1>1. SchedInv => DetachedIsGone
      BY DEF SchedInv
  <1> QED
      BY SchedInvariance, <1>1, PTL

(* The counters: every chunk made ready is ready, was collected or dropped.  *)
THEOREM NoChunkUncounted == AllSpec => []ChunksCounted
  <1>1. SchedInv => ChunksCounted
      BY DEF SchedInv
  <1> QED
      BY SchedInvariance, <1>1, PTL

-----------------------------------------------------------------------------
(* The order of the stages.                                                  *)

LEMMA InitStages ==
  /\ InitOrder \in Seq(Stages) /\ Len(InitOrder) = 15
  /\ \A i \in 1 .. 15 : InitOrder[i] = IF i <= 11 THEN engine!Making[i] ELSE engine!Starting[i - 11]
  <1> DEFINE s == engine!Making
             t == engine!Starting
  <1>1. s \in Seq(Stages) /\ t \in Seq(Stages)
      BY DEF engine!Making, engine!Starting, Stages, engine!Parts, engine!PointsTo
  <1>2. Len(s) = 11 /\ Len(t) = 4
      BY DEF engine!Making, engine!Starting
  <1> HIDE DEF s, t
  <1>3. /\ s \o t \in Seq(Stages) /\ Len(s \o t) = Len(s) + Len(t)
        /\ \A i \in 1 .. Len(s) + Len(t) : (s \o t)[i] = IF i <= Len(s) THEN s[i] ELSE t[i - Len(s)]
      BY <1>1, ConcatProperties, Zenon
  <1>4. Len(s) + Len(t) = 15
      BY <1>2
  <1>5. s \o t \in Seq(Stages) /\ Len(s \o t) = 15
      BY <1>3, <1>4, Zenon
  <1>6. \A i \in 1 .. 15 : (s \o t)[i] = IF i <= 11 THEN s[i] ELSE t[i - 11]
      BY <1>2, <1>3, <1>4, Zenon
  <1> QED
      BY <1>5, <1>6, Zenon DEF InitOrder, s, t

LEMMA StopStages ==
  /\ StopOrder \in Seq(Stages) /\ Len(StopOrder) = 17
  /\ \A i \in 1 .. 17 : StopOrder[i] = IF i <= 6 THEN engine!Stopping[i] ELSE engine!Clearing[i - 6]
  <1> DEFINE s == engine!Stopping
             t == engine!Clearing
  <1>1. s \in Seq(Stages) /\ t \in Seq(Stages)
      BY DEF engine!Stopping, engine!Clearing, Stages, engine!Parts, engine!PointsTo
  <1>2. Len(s) = 6 /\ Len(t) = 11
      BY DEF engine!Stopping, engine!Clearing
  <1> HIDE DEF s, t
  <1>3. /\ s \o t \in Seq(Stages) /\ Len(s \o t) = Len(s) + Len(t)
        /\ \A i \in 1 .. Len(s) + Len(t) : (s \o t)[i] = IF i <= Len(s) THEN s[i] ELSE t[i - Len(s)]
      BY <1>1, ConcatProperties, Zenon
  <1>4. Len(s) + Len(t) = 17
      BY <1>2
  <1>5. s \o t \in Seq(Stages) /\ Len(s \o t) = 17
      BY <1>3, <1>4, Zenon
  <1>6. \A i \in 1 .. 17 : (s \o t)[i] = IF i <= 6 THEN s[i] ELSE t[i - 6]
      BY <1>2, <1>3, <1>4, Zenon
  <1> QED
      BY <1>5, <1>6, Zenon DEF StopOrder, s, t

(* A part is made at its place, and whatever it points to before it.         *)
LEMMA PartsInOrder ==
  /\ \A p \in engine!Parts : Place(p) \in 1 .. 16 /\ (Place(p) > 10 <=> p \in engine!Receivers \cup {"notifier"})
  /\ \A p, q \in engine!Parts : Place(p) = Place(q) /\ Place(p) <= 10 => p = q
  /\ Alone \cup engine!Receivers \cup {"stats", "notifier", "receivers"} \subseteq engine!Parts
  <1> QED
      BY DEF engine!Parts, engine!PointsTo, engine!Receivers, Place, Alone

LEMMA PointsBack ==
  /\ \A p \in engine!Parts : \A q \in engine!PointsTo[p] :
       q \in engine!Parts /\ Place(q) < Place(p) /\ Place(q) <= 5 /\ q # "enumerator"
  /\ \A p \in Alone \cup {"notifier"} : engine!PointsTo[p] = {}
  /\ \A p \in engine!Receivers : \A q \in engine!PointsTo[p] : Place(q) <= 5
  <1> QED
      BY DEF engine!Parts, engine!PointsTo, engine!Receivers, Place, Alone

LEMMA StartingSet == engine!ToSet(engine!Starting) = {"start_timeshift", "start_receivers", "start_stats", "start_notifier"}
  BY DEF engine!ToSet, engine!Starting

LEMMA MakingStages ==
  ASSUME NEW i \in 1 .. 15
  PROVE  /\ InitOrder[i] \in engine!Parts => i <= 10 /\ Place(InitOrder[i]) = i
         /\ InitOrder[i] = "network" => i = 11
         /\ InitOrder[i] = "start_timeshift" => i = 12
         /\ InitOrder[i] = "start_receivers" => i = 13
         /\ InitOrder[i] = "start_stats" => i = 14
         /\ InitOrder[i] = "start_notifier" => i = 15
         /\ i >= 14 => InitOrder[i] \in {"start_stats", "start_notifier"}
  <1>1. InitOrder[i] = IF i <= 11 THEN engine!Making[i] ELSE engine!Starting[i - 11]
      BY InitStages
  <1>2. CASE i = 1
      BY <1>1, <1>2 DEF engine!Making, engine!Starting, engine!Parts, engine!PointsTo, Place
  <1>3. CASE i = 2
      BY <1>1, <1>3 DEF engine!Making, engine!Starting, engine!Parts, engine!PointsTo, Place
  <1>4. CASE i = 3
      BY <1>1, <1>4 DEF engine!Making, engine!Starting, engine!Parts, engine!PointsTo, Place
  <1>5. CASE i = 4
      BY <1>1, <1>5 DEF engine!Making, engine!Starting, engine!Parts, engine!PointsTo, Place
  <1>6. CASE i = 5
      BY <1>1, <1>6 DEF engine!Making, engine!Starting, engine!Parts, engine!PointsTo, Place
  <1>7. CASE i = 6
      BY <1>1, <1>7 DEF engine!Making, engine!Starting, engine!Parts, engine!PointsTo, Place
  <1>8. CASE i = 7
      BY <1>1, <1>8 DEF engine!Making, engine!Starting, engine!Parts, engine!PointsTo, Place
  <1>9. CASE i = 8
      BY <1>1, <1>9 DEF engine!Making, engine!Starting, engine!Parts, engine!PointsTo, Place
  <1>10. CASE i = 9
      BY <1>1, <1>10 DEF engine!Making, engine!Starting, engine!Parts, engine!PointsTo, Place
  <1>11. CASE i = 10
      BY <1>1, <1>11 DEF engine!Making, engine!Starting, engine!Parts, engine!PointsTo, Place
  <1>12. CASE i = 11
      BY <1>1, <1>12 DEF engine!Making, engine!Starting, engine!Parts, engine!PointsTo, Place
  <1>13. CASE i = 12
      BY <1>1, <1>13 DEF engine!Making, engine!Starting, engine!Parts, engine!PointsTo, Place
  <1>14. CASE i = 13
      BY <1>1, <1>14 DEF engine!Making, engine!Starting, engine!Parts, engine!PointsTo, Place
  <1>15. CASE i = 14
      BY <1>1, <1>15 DEF engine!Making, engine!Starting, engine!Parts, engine!PointsTo, Place
  <1>16. CASE i = 15
      BY <1>1, <1>16 DEF engine!Making, engine!Starting, engine!Parts, engine!PointsTo, Place
  <1> QED
      BY <1>2, <1>3, <1>4, <1>5, <1>6, <1>7, <1>8, <1>9, <1>10, <1>11, <1>12, <1>13, <1>14, <1>15, <1>16

LEMMA StoppingStages ==
  ASSUME NEW i \in 1 .. 17
  PROVE  /\ StopOrder[i] \in engine!Parts => i >= 7
         /\ StopOrder[i] = "stop_sinks" => i = 1
         /\ StopOrder[i] = "stop_sources" => i = 2
         /\ StopOrder[i] = "stop_receivers" => i = 3
         /\ StopOrder[i] = "stop_stats" => i = 4
         /\ StopOrder[i] = "stop_timeshift" => i = 5
         /\ StopOrder[i] = "stop_enumerator" => i = 6
         /\ StopOrder[i] = "clear" => i = 17
  <1>1. StopOrder[i] = IF i <= 6 THEN engine!Stopping[i] ELSE engine!Clearing[i - 6]
      BY StopStages
  <1>2. CASE i = 1
      BY <1>1, <1>2 DEF engine!Stopping, engine!Clearing, engine!Parts, engine!PointsTo
  <1>3. CASE i = 2
      BY <1>1, <1>3 DEF engine!Stopping, engine!Clearing, engine!Parts, engine!PointsTo
  <1>4. CASE i = 3
      BY <1>1, <1>4 DEF engine!Stopping, engine!Clearing, engine!Parts, engine!PointsTo
  <1>5. CASE i = 4
      BY <1>1, <1>5 DEF engine!Stopping, engine!Clearing, engine!Parts, engine!PointsTo
  <1>6. CASE i = 5
      BY <1>1, <1>6 DEF engine!Stopping, engine!Clearing, engine!Parts, engine!PointsTo
  <1>7. CASE i = 6
      BY <1>1, <1>7 DEF engine!Stopping, engine!Clearing, engine!Parts, engine!PointsTo
  <1>8. CASE i = 7
      BY <1>1, <1>8 DEF engine!Stopping, engine!Clearing, engine!Parts, engine!PointsTo
  <1>9. CASE i = 8
      BY <1>1, <1>9 DEF engine!Stopping, engine!Clearing, engine!Parts, engine!PointsTo
  <1>10. CASE i = 9
      BY <1>1, <1>10 DEF engine!Stopping, engine!Clearing, engine!Parts, engine!PointsTo
  <1>11. CASE i = 10
      BY <1>1, <1>11 DEF engine!Stopping, engine!Clearing, engine!Parts, engine!PointsTo
  <1>12. CASE i = 11
      BY <1>1, <1>12 DEF engine!Stopping, engine!Clearing, engine!Parts, engine!PointsTo
  <1>13. CASE i = 12
      BY <1>1, <1>13 DEF engine!Stopping, engine!Clearing, engine!Parts, engine!PointsTo
  <1>14. CASE i = 13
      BY <1>1, <1>14 DEF engine!Stopping, engine!Clearing, engine!Parts, engine!PointsTo
  <1>15. CASE i = 14
      BY <1>1, <1>15 DEF engine!Stopping, engine!Clearing, engine!Parts, engine!PointsTo
  <1>16. CASE i = 15
      BY <1>1, <1>16 DEF engine!Stopping, engine!Clearing, engine!Parts, engine!PointsTo
  <1>17. CASE i = 16
      BY <1>1, <1>17 DEF engine!Stopping, engine!Clearing, engine!Parts, engine!PointsTo
  <1>18. CASE i = 17
      BY <1>1, <1>18 DEF engine!Stopping, engine!Clearing, engine!Parts, engine!PointsTo
  <1> QED
      BY <1>2, <1>3, <1>4, <1>5, <1>6, <1>7, <1>8, <1>9, <1>10, <1>11, <1>12, <1>13, <1>14, <1>15, <1>16, <1>17, <1>18

-----------------------------------------------------------------------------
USE DEF engine!controlVars, engine!partVars, engine!sinkVars, engine!captureVars, engine!Api

(* Which stage is the next one.                                              *)
LEMMA AtInit ==
  ASSUME Staged, eDoing = "initialize", eStage # <<>>
  PROVE  Left \in 1 .. 15 /\ Head(eStage) = InitOrder[16 - Left]
  <1>1. Left \in Nat \ {0} /\ Left <= 15
      BY EmptySeq DEF Staged, Left
  <1>2. eStage[1] = InitOrder[1 + 15 - Left]
      BY <1>1 DEF Staged
  <1>3. 1 + 15 - Left = 16 - Left
      BY <1>1
  <1> QED
      BY <1>1, <1>2, <1>3

LEMMA AtStop ==
  ASSUME Staged, eDoing = "shutdown", eStage # <<>>
  PROVE  Left \in 1 .. 17 /\ Head(eStage) = StopOrder[18 - Left]
  <1>1. Left \in Nat \ {0} /\ Left <= 17
      BY EmptySeq DEF Staged, Left
  <1>2. eStage[1] = StopOrder[1 + 17 - Left]
      BY <1>1 DEF Staged
  <1>3. 1 + 17 - Left = 18 - Left
      BY <1>1
  <1> QED
      BY <1>1, <1>2, <1>3

LEMMA StageDone ==
  ASSUME Staged, eStage # <<>>, eStage' = Tail(eStage), UNCHANGED <<eDoing, eRunning, eInits>>
  PROVE  Staged' /\ Left' = Left - 1
  <1>1. /\ Tail(eStage) \in Seq(Stages) /\ Len(Tail(eStage)) = Len(eStage) - 1
        /\ \A i \in 1 .. Len(Tail(eStage)) : Tail(eStage)[i] = eStage[i + 1]
      BY HeadTailProperties DEF Staged
  <1>2. Left' = Left - 1 /\ Left \in Nat
      BY <1>1, LenProperties DEF Left, Staged
  <1>3. \A i \in 1 .. Left' : eStage'[i] = eStage[i + 1] /\ i + 1 \in 1 .. Left
      BY <1>1, <1>2 DEF Left
  <1>4. ASSUME eDoing' = "initialize", NEW i \in 1 .. Left'
        PROVE  eStage'[i] = InitOrder[i + 15 - Left']
    <2>1. eStage'[i] = InitOrder[i + 1 + 15 - Left]
        BY <1>3, <1>4 DEF Staged
    <2>2. i + 1 + 15 - Left = i + 15 - Left'
        BY <1>2
    <2> QED
        BY <2>1, <2>2
  <1>5. ASSUME eDoing' = "shutdown", NEW i \in 1 .. Left'
        PROVE  eStage'[i] = StopOrder[i + 17 - Left']
    <2>1. eStage'[i] = StopOrder[i + 1 + 17 - Left]
        BY <1>3, <1>5 DEF Staged
    <2>2. i + 1 + 17 - Left = i + 17 - Left'
        BY <1>2
    <2> QED
        BY <2>1, <2>2
  <1>6. /\ eDoing' = "initialize" => eInits' > 0 /\ ~eRunning' /\ Left <= 15
        /\ eDoing' = "shutdown" => ~eRunning' /\ Left <= 17
        /\ eInits' \in Nat /\ eStage' \in Seq(Stages)
      BY <1>1 DEF Staged
  <1>7. (Left <= 15 => Left' <= 15) /\ (Left <= 17 => Left' <= 17)
      BY <1>2
  <1>8. Staged'
      BY <1>4, <1>5, <1>6, <1>7 DEF Staged
  <1> QED
      BY <1>2, <1>8

(* The steps of the thread that brings the engine up and down.               *)
LEMMA StagedStep ==
  ASSUME Staged, engine!Next \/ UNCHANGED engineVars
  PROVE  Staged'
  <1>1. CASE UNCHANGED <<eStage, eDoing, eRunning, eInits>>
      BY <1>1 DEF Staged, Left
  <1>2. CASE eStage # <<>> /\ eStage' = Tail(eStage) /\ UNCHANGED <<eDoing, eRunning, eInits>>
      BY <1>2, StageDone
  <1>3. CASE eDoing' = "idle" /\ eInits' = eInits /\ (eStage' = <<>> \/ eStage' = eStage)
      BY <1>3, EmptySeq DEF Staged
  <1>4. CASE engine!CallInitialize
    <2>1. eStage' = InitOrder /\ eDoing' = "initialize" /\ eInits' = eInits + 1 /\ ~eRunning /\ eRunning' = eRunning
        BY <1>4 DEF engine!CallInitialize, InitOrder
    <2>2. Left' = 15 /\ eStage' \in Seq(Stages)
        BY <2>1, InitStages DEF Left
    <2>3. \A i \in 1 .. 15 : i = i + 15 - 15
        OBVIOUS
    <2>4. eInits' \in Nat /\ eInits' > 0
        BY <2>1 DEF Staged
    <2> QED
        BY <2>1, <2>2, <2>3, <2>4 DEF Staged
  <1>5. CASE engine!CallShutdown
    <2>1. eStage' = StopOrder /\ eDoing' = "shutdown" /\ eInits' = eInits /\ eRunning' = FALSE
        BY <1>5 DEF engine!CallShutdown, StopOrder
    <2>2. Left' = 17 /\ eStage' \in Seq(Stages)
        BY <2>1, StopStages DEF Left
    <2>3. \A i \in 1 .. 17 : i = i + 17 - 17
        OBVIOUS
    <2> QED
        BY <2>1, <2>2, <2>3 DEF Staged
  <1>6. engine!MakePart \/ engine!MakeReceivers \/ engine!StartPart
        => eStage # <<>> /\ eStage' = Tail(eStage) /\ UNCHANGED <<eDoing, eRunning, eInits>>
      BY DEF engine!MakePart, engine!MakeReceivers, engine!StartPart, engine!AtStage
  <1>7. engine!StopSinks \/ engine!StopSources \/ engine!StopReceivers \/ engine!StopStats
        \/ engine!StopTimeshift \/ engine!StopEnumerator \/ engine!ClearPart
        => eStage # <<>> /\ eStage' = Tail(eStage) /\ UNCHANGED <<eDoing, eRunning, eInits>>
      BY DEF engine!StopSinks, engine!StopSources, engine!StopReceivers, engine!StopStats, engine!StopTimeshift,
             engine!StopEnumerator, engine!StopThread, engine!ClearPart, engine!At, engine!AtStage
  <1>8. engine!Initialized \/ engine!InitializeFails \/ engine!ClearRest
        => eDoing' = "idle" /\ eInits' = eInits /\ (eStage' = <<>> \/ eStage' = eStage)
      BY DEF engine!Initialized, engine!InitializeFails, engine!ClearRest
  <1>9. \/ UNCHANGED engineVars
        \/ \E s \in Sinks : engine!AddSink(s) \/ engine!RemoveSink(s)
        \/ engine!Coordinate \/ engine!EnableCoordinator \/ engine!UnmapSink \/ engine!StopSink
        \/ \E t \in Tags : engine!AddCapture(t) \/ engine!ReleaseCapture(t) \/ engine!CaptureEnds(t)
        => UNCHANGED <<eStage, eDoing, eRunning, eInits>>
      BY DEF engineVars, engine!AddSink, engine!RemoveSink, engine!Coordinate, engine!EnableCoordinator,
             engine!UnmapSink, engine!StopSink, engine!AddCapture, engine!ReleaseCapture, engine!CaptureEnds
  <1> QED
      BY <1>1, <1>2, <1>3, <1>4, <1>5, <1>6, <1>7, <1>8, <1>9, Zenon DEF engine!Next, engine!Control

LEMMA StagedInvariance == AllSpec => []Staged
  <1>1. AllInit => Staged
      BY EmptySeq DEF AllInit, engine!Init, Staged
  <1> QED
      BY <1>1, StagedStep, Apart, PTL DEF AllSpec

-----------------------------------------------------------------------------
(* The captures.                                                             *)

LEMMA CapturesStay ==
  ASSUME CaptureInv, UNCHANGED engine!captureVars, NoneHeld'
  PROVE  CaptureInv'
  BY DEF CaptureInv, CaptureTypes, CapturesServed, engine!CapturesServed

LEMMA CaptureCalls ==
  ASSUME CaptureInv, NEW t \in Tags,
         engine!AddCapture(t) \/ engine!ReleaseCapture(t) \/ engine!CaptureEnds(t)
  PROVE  CaptureInv'
  <1> USE DEF CaptureInv, CaptureTypes, CapturesServed, engine!CapturesServed
  <1>1. eUsage[t] \in Nat /\ eHeld[t] \in Nat
      OBVIOUS
  <1>2. eUsage[t] + 1 \in Nat /\ eHeld[t] + 1 \in Nat
      BY <1>1
  <1>3. CASE engine!AddCapture(t)
    <2>1. NoneHeld'
        BY <1>3 DEF engine!AddCapture, engine!Idle, NoneHeld
    <2>2. CASE engine!EnsureKnown(t)
        BY <1>1, <1>2, <2>1, <2>2 DEF engine!EnsureKnown
    <2>3. CASE engine!EnsureNew(t)
        BY <1>1, <1>2, <2>1, <2>3 DEF engine!EnsureNew
    <2> QED
        BY <1>3, <2>2, <2>3 DEF engine!AddCapture
  <1>4. CASE engine!ReleaseCapture(t)
    <2>1. NoneHeld'
        BY <1>4 DEF engine!ReleaseCapture, engine!Idle, NoneHeld
    <2>2. eHeld[t] > 0 /\ eUsage[t] >= eHeld[t] /\ eHeld[t] - 1 \in Nat /\ eUsage[t] - 1 \in Nat
        BY <1>1, <1>4 DEF engine!ReleaseCapture
    <2> QED
        BY <1>1, <1>4, <2>1, <2>2 DEF engine!ReleaseCapture, engine!AfterRelease
  <1>5. CASE engine!CaptureEnds(t)
    <2>1. NoneHeld'
        BY <1>5 DEF engine!CaptureEnds, NoneHeld, Left
    <2> QED
        BY <1>5, <2>1 DEF engine!CaptureEnds
  <1> QED
      BY <1>3, <1>4, <1>5

LEMMA CaptureStops ==
  ASSUME CaptureInv, Staged, engine!StopSources \/ engine!StopReceivers
  PROVE  CaptureInv'
  <1> USE DEF CaptureTypes, CapturesServed, engine!CapturesServed
  <1>1. CaptureTypes /\ NoneHeld /\ CapturesServed
      BY DEF CaptureInv
  <1>2. CASE engine!StopSources
    <2>1. /\ eUsage' = [t \in Tags |-> eUsage[t] - eHeld[t]] /\ eHeld' = [t \in Tags |-> 0]
          /\ eCapture' = [t \in Tags |-> IF eUsage[t] = eHeld[t] THEN "none" ELSE eCapture[t]]
        BY <1>2 DEF engine!StopSources
    <2>2. \A t \in Tags : eUsage[t] \in Nat /\ eHeld[t] \in Nat /\ eUsage[t] >= eHeld[t] /\ eUsage[t] - eHeld[t] \in Nat
        BY <1>1
    <2>3. CaptureTypes'
        BY <1>1, <2>1, <2>2
    <2>4. CapturesServed'
        BY <1>1, <2>1, <2>2
    <2>5. NoneHeld'
        BY <2>1 DEF NoneHeld
    <2> QED
        BY <2>3, <2>4, <2>5 DEF CaptureInv
  <1>3. CASE engine!StopReceivers
    <2>1. eDoing = "shutdown" /\ eStage # <<>> /\ Head(eStage) = "stop_receivers" /\ eHeld' = eHeld
        BY <1>3 DEF engine!StopReceivers, engine!At, engine!AtStage
    <2>2. Left \in 1 .. 17 /\ StopOrder[18 - Left] = "stop_receivers"
        BY <2>1, AtStop
    <2>3. 18 - Left \in 1 .. 17
        BY <2>2
    <2>4. 18 - Left = 3
        BY <2>2, <2>3, StoppingStages
    <2>5. \A t \in Tags : eHeld[t] = 0
        BY <1>1, <2>1, <2>2, <2>4 DEF NoneHeld
    <2>6. eUsage' = [t \in Tags |-> 0] /\ eCapture' = [t \in Tags |-> "none"]
        BY <1>3 DEF engine!StopReceivers
    <2>7. CaptureTypes' /\ CapturesServed' /\ NoneHeld'
        BY <1>1, <2>1, <2>5, <2>6 DEF NoneHeld
    <2> QED
        BY <2>7 DEF CaptureInv
  <1> QED
      BY <1>2, <1>3

(* A stage other than these two comes before the one that releases the       *)
(* captures, or after it.                                                    *)
LEMMA NoneHeldStays ==
  ASSUME NoneHeld, Staged, UNCHANGED eHeld,
         \/ UNCHANGED <<eStage, eDoing>>
         \/ eDoing' # "shutdown"
         \/ engine!CallShutdown
         \/ engine!StopSinks \/ engine!StopStats \/ engine!StopTimeshift \/ engine!StopEnumerator \/ engine!ClearPart
  PROVE  NoneHeld'
  <1>1. CASE UNCHANGED <<eStage, eDoing>> \/ eDoing' # "shutdown"
      BY <1>1 DEF NoneHeld, Left
  <1>2. CASE engine!CallShutdown
    <2>1. Left' = 17
        BY <1>2, StopStages DEF engine!CallShutdown, StopOrder, Left
    <2> QED
        BY <2>1 DEF NoneHeld
  <1>3. CASE engine!StopSinks \/ engine!StopStats \/ engine!StopTimeshift \/ engine!StopEnumerator \/ engine!ClearPart
    <2>1. /\ eDoing = "shutdown" /\ eStage # <<>> /\ eStage' = Tail(eStage) /\ UNCHANGED <<eDoing, eRunning, eInits>>
          /\ Head(eStage) \in {"stop_sinks", "stop_stats", "stop_timeshift", "stop_enumerator"} \cup engine!Parts
        BY <1>3 DEF engine!StopSinks, engine!StopStats, engine!StopTimeshift, engine!StopEnumerator,
           engine!StopThread, engine!ClearPart, engine!At, engine!AtStage
    <2> DEFINE i == 18 - Left
    <2>2. Left \in 1 .. 17 /\ Head(eStage) = StopOrder[i] /\ Left' = Left - 1
        BY <2>1, AtStop, StageDone
    <2>3. i \in 1 .. 17
        BY <2>2
    <2>4. i # 2
      <3> HIDE DEF i
      <3>1. ASSUME i = 2 PROVE FALSE
        <4>1. StopOrder[2] = "stop_sources"
            BY StopStages DEF engine!Stopping
        <4>2. "stop_sources" \notin {"stop_sinks", "stop_stats", "stop_timeshift", "stop_enumerator"} \cup engine!Parts
            BY DEF engine!Parts, engine!PointsTo
        <4> QED
            BY <2>1, <2>2, <3>1, <4>1, <4>2
      <3> QED
          BY <3>1
    <2>5. Left' <= 15 => Left <= 15
        BY <2>2, <2>4
    <2> QED
        BY <2>1, <2>5 DEF NoneHeld
  <1> QED
      BY <1>1, <1>2, <1>3

LEMMA CaptureStep ==
  ASSUME CaptureInv, Staged, engine!Next \/ UNCHANGED engineVars
  PROVE  CaptureInv'
  <1>1. CASE \E t \in Tags : engine!AddCapture(t) \/ engine!ReleaseCapture(t) \/ engine!CaptureEnds(t)
      BY <1>1, CaptureCalls
  <1>2. CASE engine!StopSources \/ engine!StopReceivers
      BY <1>2, CaptureStops
  <1>3. CASE UNCHANGED engine!captureVars /\ NoneHeld'
      BY <1>3, CapturesStay
  <1>4. NoneHeld
      BY DEF CaptureInv
  <1>5. engine!CallInitialize \/ engine!MakePart \/ engine!MakeReceivers \/ engine!StartPart \/ engine!Initialized
        \/ engine!InitializeFails \/ engine!ClearRest
        => UNCHANGED engine!captureVars /\ eDoing' # "shutdown"
      BY DEF engine!CallInitialize, engine!MakePart, engine!MakeReceivers, engine!StartPart, engine!Initialized,
             engine!InitializeFails, engine!ClearRest
  <1>6. engine!CallShutdown \/ engine!StopSinks \/ engine!StopStats \/ engine!StopTimeshift
        \/ engine!StopEnumerator \/ engine!ClearPart
        => UNCHANGED engine!captureVars
      BY DEF engine!CallShutdown, engine!StopSinks, engine!StopStats, engine!StopTimeshift,
             engine!StopEnumerator, engine!StopThread, engine!ClearPart
  <1>7. \/ UNCHANGED engineVars
        \/ \E s \in Sinks : engine!AddSink(s) \/ engine!RemoveSink(s)
        \/ engine!Coordinate \/ engine!EnableCoordinator \/ engine!UnmapSink \/ engine!StopSink
        => UNCHANGED engine!captureVars /\ UNCHANGED <<eStage, eDoing>>
      BY DEF engineVars, engine!AddSink, engine!RemoveSink, engine!Coordinate, engine!EnableCoordinator,
             engine!UnmapSink, engine!StopSink
  <1>8. UNCHANGED engine!captureVars => UNCHANGED eHeld
      OBVIOUS
  <1>9. \/ engine!CallInitialize \/ engine!MakePart \/ engine!MakeReceivers \/ engine!StartPart \/ engine!Initialized
        \/ engine!InitializeFails \/ engine!ClearRest
        \/ engine!CallShutdown \/ engine!StopSinks \/ engine!StopStats \/ engine!StopTimeshift
        \/ engine!StopEnumerator \/ engine!ClearPart
        \/ UNCHANGED engineVars
        \/ \E s \in Sinks : engine!AddSink(s) \/ engine!RemoveSink(s)
        \/ engine!Coordinate \/ engine!EnableCoordinator \/ engine!UnmapSink \/ engine!StopSink
        => UNCHANGED engine!captureVars /\ NoneHeld'
      BY <1>4, <1>5, <1>6, <1>7, <1>8, NoneHeldStays
  <1> QED
      BY <1>1, <1>2, <1>3, <1>9, Zenon DEF engine!Next, engine!Control

(* A capture device that somebody refers to has its receiver, and there is   *)
(* no receiver without a reference, through starts that fail, devices that   *)
(* vanish and a shutdown.                                                    *)
THEOREM ReferencesKeepCaptures == AllSpec => []CapturesServed
  <1>1. AllInit => CaptureInv
      BY DEF AllInit, engine!Init, CaptureInv, CaptureTypes, NoneHeld, CapturesServed, engine!CapturesServed
  <1>2. CaptureInv => CapturesServed
      BY DEF CaptureInv
  <1> QED
      BY <1>1, <1>2, StagedInvariance, CaptureStep, Apart, PTL DEF AllSpec

-----------------------------------------------------------------------------
(* The parts and their threads.                                              *)

LEMMA PartsStay ==
  ASSUME PartsInv, UNCHANGED <<eMade, eBound, eThreads, eInits, eDoing, eRunning, eStage>>
  PROVE  PartsInv'
  BY DEF PartsInv, MadeSoFar, ThreadsSoFar, NothingDangles, engine!NothingDangles, Left

(* A thread that points to nothing dangles only if its part is gone.         *)
LEMMA AloneIsFine ==
  ASSUME eThreads' \subseteq Alone, \A p \in eThreads' : eMade'[p] # 0
  PROVE  NothingDangles'
  BY PointsBack DEF NothingDangles, engine!NothingDangles

LEMMA InitGoes ==
  ASSUME Staged, PartsInv, eDoing = "initialize", eStage # <<>>, eStage' = Tail(eStage),
         UNCHANGED <<eDoing, eRunning, eInits>>,
         eThreads' \subseteq Alone \cup engine!Receivers \cup {"stats", "notifier"},
         Left' >= 3 => eThreads' \subseteq Alone
  PROVE  ThreadsSoFar'
  BY DEF ThreadsSoFar

LEMMA PartMade ==
  ASSUME Staged, PartsInv, engine!MakePart
  PROVE  PartsInv'
  <1> DEFINE i == 16 - Left
  <1>1. /\ eDoing = "initialize" /\ eStage # <<>> /\ eStage' = Tail(eStage) /\ UNCHANGED <<eDoing, eRunning, eInits>>
      BY DEF engine!MakePart, engine!AtStage
  <1>2. PICK p \in engine!Parts :
          /\ Head(eStage) = p
          /\ \/ /\ engine!Make({p})
                /\ eThreads' = CASE p = "enumerator" -> eThreads \cup {p}
                                 [] p = "receivers"  -> eThreads \ engine!Receivers
                                 [] OTHER            -> eThreads \ {p}
             \/ p = "enumerator" /\ p \in MayFail /\ engine!Destroy({p})
      BY DEF engine!MakePart, engine!AtStage
  <1>3. Left \in 1 .. 15 /\ Head(eStage) = InitOrder[i] /\ Left' = Left - 1 /\ i \in 1 .. 15
      BY <1>1, AtInit, StageDone
  <1>4. i <= 10 /\ Place(p) = i
      BY <1>2, <1>3, MakingStages
  <1> HIDE DEF i
  <1>5. Left >= 6 /\ Left' >= 5 /\ i + Left = 16 /\ Left \in Nat /\ i \in Nat
      BY <1>3, <1>4 DEF i
  <1>6. p \notin engine!Receivers
      BY <1>4, PartsInOrder
  <1>7. eThreads \subseteq Alone
      BY <1>1, <1>5 DEF PartsInv, ThreadsSoFar
  <1>8. eThreads' \subseteq Alone
      BY <1>2, <1>7 DEF Alone, engine!Destroy
  <1>9. ThreadsSoFar'
      BY <1>1, <1>8, InitGoes
  <1>10. \A r \in engine!Parts \ ({p} \cup engine!Receivers) : eMade'[r] = eMade[r] /\ eBound'[r] = eBound[r]
      BY <1>2 DEF engine!Make, engine!Destroy
  <1>11. p # "enumerator" => /\ eMade'[p] = eInits
                             /\ \A q \in engine!PointsTo[p] : eBound'[p][q] = eMade[q]
      BY <1>2, PointsBack DEF engine!Make
  <1>12. MadeSoFar'
    <2> SUFFICES ASSUME NEW r \in engine!Parts \ {"enumerator"}, Place(r) + Left' <= 15
                 PROVE  eMade'[r] = eInits /\ \A q \in engine!PointsTo[r] : eBound'[r][q] = eInits
        BY <1>1 DEF MadeSoFar
    <2>1. Place(r) <= i /\ r \notin engine!Receivers
      <3>1. Place(r) \in Nat /\ (Place(r) > 10 <=> r \in engine!Receivers \cup {"notifier"})
          BY PartsInOrder
      <3> QED
          BY <1>3, <1>4, <1>5, <3>1
    <2>2. CASE r = p
      <3>1. \A q \in engine!PointsTo[p] : q \in engine!Parts \ {"enumerator"} /\ Place(q) + Left <= 15
        <4> SUFFICES ASSUME NEW q \in engine!PointsTo[p]
                     PROVE  q \in engine!Parts \ {"enumerator"} /\ Place(q) + Left <= 15
            OBVIOUS
        <4>1. q \in engine!Parts /\ Place(q) < Place(p) /\ q # "enumerator"
            BY PointsBack
        <4>2. Place(q) \in Nat
            BY <4>1, PartsInOrder
        <4> QED
            BY <1>4, <1>5, <4>1, <4>2
      <3>2. \A q \in engine!PointsTo[p] : eMade[q] = eInits
          BY <1>1, <3>1 DEF PartsInv, MadeSoFar
      <3> QED
          BY <1>11, <2>2, <3>2
    <2>3. CASE r # p
      <3>1. Place(r) \in Nat /\ Place(r) # i
          BY <1>4, <2>1, <2>3, PartsInOrder
      <3>2. Place(r) + Left <= 15
          BY <1>5, <2>1, <3>1
      <3>3. eMade[r] = eInits /\ \A q \in engine!PointsTo[r] : eBound[r][q] = eInits
          BY <1>1, <3>2 DEF PartsInv, MadeSoFar
      <3> QED
          BY <1>10, <2>1, <2>3, <3>3
    <2> QED
        BY <2>2, <2>3
  <1>13. NothingDangles'
    <2> SUFFICES ASSUME NEW r \in eThreads' PROVE eMade'[r] # 0
        BY <1>8, AloneIsFine
    <2>1. r \in engine!Parts \ engine!Receivers /\ r # "notifier"
        BY <1>8, PartsInOrder DEF Alone, engine!Receivers
    <2>2. CASE r # p
      <3>1. r \in eThreads
          BY <1>2, <2>2 DEF engine!Destroy
      <3>2. eMade[r] # 0
          BY <2>1, <3>1 DEF PartsInv, NothingDangles, engine!NothingDangles
      <3> QED
          BY <1>10, <2>1, <2>2, <3>2
    <2>3. CASE r = p
      <3>1. p = "enumerator" /\ engine!Make({p})
          BY <1>2, <1>8, <2>3 DEF Alone, engine!Destroy
      <3>2. eMade'[p] = eInits
          BY <3>1 DEF engine!Make
      <3> QED
          BY <1>1, <2>3, <3>2 DEF Staged
    <2> QED
        BY <2>2, <2>3
  <1> QED
      BY <1>9, <1>12, <1>13 DEF PartsInv

LEMMA ReceiversMade ==
  ASSUME Staged, PartsInv, engine!MakeReceivers
  PROVE  PartsInv'
  <1>1. /\ eDoing = "initialize" /\ eStage # <<>> /\ eStage' = Tail(eStage) /\ UNCHANGED <<eDoing, eRunning, eInits>>
        /\ Head(eStage) = "network" /\ engine!Make(engine!Receivers) /\ eThreads' = eThreads
      BY DEF engine!MakeReceivers, engine!AtStage
  <1>2. Left \in 1 .. 15 /\ Head(eStage) = InitOrder[16 - Left] /\ Left' = Left - 1 /\ 16 - Left \in 1 .. 15
      BY <1>1, AtInit, StageDone
  <1>3. 16 - Left = 11
      BY <1>1, <1>2, MakingStages
  <1>4. Left = 5 /\ Left' = 4
      BY <1>2, <1>3
  <1>5. eThreads \subseteq Alone
      BY <1>1, <1>4 DEF PartsInv, ThreadsSoFar
  <1>6. ThreadsSoFar'
      BY <1>1, <1>5, InitGoes
  <1>7. \A r \in engine!Parts \ engine!Receivers : eMade'[r] = eMade[r] /\ eBound'[r] = eBound[r]
      BY <1>1 DEF engine!Make, engine!Receivers
  <1>8. \A r \in engine!Receivers : /\ eMade'[r] = eInits
                                    /\ \A q \in engine!PointsTo[r] : eBound'[r][q] = eMade[q]
    <2>1. engine!Receivers \subseteq engine!Parts
        BY PartsInOrder
    <2> QED
        BY <1>1, <2>1, PointsBack DEF engine!Make
  <1>9. \A q \in engine!Parts \ {"enumerator"} : Place(q) <= 10 => 
          eMade[q] = eInits /\ \A s \in engine!PointsTo[q] : eBound[q][s] = eInits
    <2> SUFFICES ASSUME NEW q \in engine!Parts \ {"enumerator"}, Place(q) <= 10
                 PROVE  Place(q) + Left <= 15
        BY <1>1 DEF PartsInv, MadeSoFar
    <2> QED
        BY <1>4, PartsInOrder
  <1>10. MadeSoFar'
    <2> SUFFICES ASSUME NEW r \in engine!Parts \ {"enumerator"}, Place(r) + Left' <= 15
                 PROVE  eMade'[r] = eInits /\ \A q \in engine!PointsTo[r] : eBound'[r][q] = eInits
        BY <1>1 DEF MadeSoFar
    <2>1. CASE r \in engine!Receivers
      <3>1. \A q \in engine!PointsTo[r] : q \in engine!Parts \ {"enumerator"} /\ Place(q) <= 10
        <4> SUFFICES ASSUME NEW q \in engine!PointsTo[r] PROVE q \in engine!Parts \ {"enumerator"} /\ Place(q) <= 10
            OBVIOUS
        <4>1. q \in engine!Parts \ {"enumerator"} /\ Place(q) <= 5
            BY PointsBack
        <4>2. Place(q) \in Nat
            BY <4>1, PartsInOrder
        <4> QED
            BY <4>1, <4>2
      <3> QED
          BY <1>8, <1>9, <2>1, <3>1
    <2>2. CASE r \notin engine!Receivers
      <3>1. r # "notifier"
          BY <1>4 DEF Place
      <3>2. Place(r) <= 10
          BY <2>2, <3>1, PartsInOrder
      <3> QED
          BY <1>7, <1>9, <2>2, <3>2
    <2> QED
        BY <2>1, <2>2
  <1>11. NothingDangles'
    <2> SUFFICES ASSUME NEW r \in eThreads' PROVE eMade'[r] # 0
        BY <1>1, <1>5, AloneIsFine
    <2>1. r \in engine!Parts \ engine!Receivers /\ r # "notifier" /\ r \in eThreads
        BY <1>1, <1>5, PartsInOrder DEF Alone, engine!Receivers
    <2>2. eMade[r] # 0
        BY <2>1 DEF PartsInv, NothingDangles, engine!NothingDangles
    <2> QED
        BY <1>7, <2>1, <2>2
  <1> QED
      BY <1>6, <1>10, <1>11 DEF PartsInv

LEMMA PartStarted ==
  ASSUME Staged, PartsInv, engine!StartPart
  PROVE  PartsInv'
  <1>1. /\ eDoing = "initialize" /\ eStage # <<>> /\ eStage' = Tail(eStage)
        /\ UNCHANGED <<eDoing, eRunning, eInits, eMade, eBound>>
        /\ Head(eStage) \in {"start_timeshift", "start_receivers", "start_stats", "start_notifier"}
        /\ eThreads' = eThreads \cup engine!StartStage(Head(eStage))
      BY StartingSet DEF engine!StartPart, engine!AtStage
  <1> DEFINE i == 16 - Left
             s == Head(eStage)
  <1>2. Left \in 1 .. 15 /\ s = InitOrder[i] /\ Left' = Left - 1 /\ i \in 1 .. 15
      BY <1>1, AtInit, StageDone
  <1>3. /\ s = "start_timeshift" => i = 12
        /\ s = "start_receivers" => i = 13
        /\ s = "start_stats" => i = 14
        /\ s = "start_notifier" => i = 15
      BY <1>2, MakingStages
  <1>4. /\ Left \in 1 .. 4
        /\ s = "start_timeshift" <=> Left = 4
        /\ s = "start_receivers" <=> Left = 3
        /\ s = "start_stats" <=> Left = 2
      BY <1>1, <1>2, <1>3
  <1>5. engine!StartStage(s) = CASE Left = 4 -> {"timeshift"} [] Left = 3 -> engine!Receivers
                                 [] Left = 2 -> {"stats"} [] OTHER -> {"notifier"}
      BY <1>1, <1>4 DEF engine!StartStage
  <1> HIDE DEF i, s
  <1>6. ThreadsSoFar'
    <2>1. Left' >= 3 => eThreads' \subseteq Alone
        BY <1>1, <1>2, <1>4, <1>5 DEF PartsInv, ThreadsSoFar, Alone, s
    <2>2. eThreads' \subseteq Alone \cup engine!Receivers \cup {"stats", "notifier"}
        BY <1>1, <1>5 DEF PartsInv, ThreadsSoFar, Alone, s
    <2> QED
        BY <1>1, <2>1, <2>2, InitGoes
  <1>7. \A r \in engine!Parts \ {"enumerator", "notifier"} :
          eMade[r] = eInits /\ \A q \in engine!PointsTo[r] : eBound[r][q] = eInits
    <2> SUFFICES ASSUME NEW r \in engine!Parts \ {"enumerator", "notifier"} PROVE Place(r) + Left <= 15
        BY <1>1 DEF PartsInv, MadeSoFar
    <2>1. Place(r) <= 11 /\ Place(r) \in Nat
        BY PartsInOrder DEF Place
    <2> QED
        BY <1>4, <2>1
  <1>8. MadeSoFar'
    <2> SUFFICES ASSUME NEW r \in engine!Parts \ {"enumerator"}, Place(r) + Left' <= 15
                 PROVE  eMade'[r] = eInits /\ \A q \in engine!PointsTo[r] : eBound'[r][q] = eInits
        BY <1>1 DEF MadeSoFar
    <2>1. r # "notifier"
        BY <1>2, <1>4 DEF Place
    <2> QED
        BY <1>1, <1>7, <2>1
  <1>9. NothingDangles'
    <2> SUFFICES ASSUME NEW r \in eThreads' \ {"notifier"}
                 PROVE  eMade'[r] # 0 /\ \A q \in engine!PointsTo[r] : eBound'[r][q] # 0 /\ eBound'[r][q] = eMade'[q]
        BY DEF NothingDangles, engine!NothingDangles
    <2>1. CASE r \in eThreads
        BY <1>1, <2>1 DEF PartsInv, NothingDangles, engine!NothingDangles
    <2>2. CASE r \in engine!StartStage(s)
      <3>1. r \in engine!Parts \ {"enumerator", "notifier"}
          BY <1>5, <2>2, PartsInOrder DEF engine!Receivers, Alone
      <3>2. \A q \in engine!PointsTo[r] : q \in engine!Parts \ {"enumerator", "notifier"}
        <4> SUFFICES ASSUME NEW q \in engine!PointsTo[r] PROVE q \in engine!Parts \ {"enumerator", "notifier"}
            OBVIOUS
        <4>1. q \in engine!Parts /\ Place(q) <= 5 /\ q # "enumerator"
            BY <3>1, PointsBack
        <4> QED
            BY <4>1 DEF Place
      <3>3. eInits # 0
          BY <1>1 DEF Staged
      <3> QED
          BY <1>1, <1>7, <3>1, <3>2, <3>3
    <2> QED
        BY <1>1, <2>1, <2>2 DEF s
  <1> QED
      BY <1>6, <1>8, <1>9 DEF PartsInv

(* initialize() called, succeeded or failed.                                 *)
LEMMA InitCalls ==
  ASSUME Staged, PartsInv, engine!CallInitialize \/ engine!Initialized \/ engine!InitializeFails
  PROVE  PartsInv'
  <1>1. UNCHANGED <<eMade, eBound, eThreads>>
      BY DEF engine!CallInitialize, engine!Initialized, engine!InitializeFails
  <1>2. NothingDangles'
      BY <1>1 DEF PartsInv, NothingDangles, engine!NothingDangles
  <1>3. CASE engine!CallInitialize
    <2>1. eDoing' = "initialize" /\ Left' = 15 /\ eThreads \subseteq Alone
        BY <1>3, InitStages DEF engine!CallInitialize, InitOrder, Left, PartsInv, ThreadsSoFar
    <2>2. MadeSoFar'
      <3> SUFFICES ASSUME NEW r \in engine!Parts PROVE ~(Place(r) + Left' <= 15)
          BY DEF MadeSoFar
      <3>1. Place(r) \in 1 .. 16
          BY PartsInOrder
      <3> QED
          BY <2>1, <3>1
    <2>3. ThreadsSoFar'
        BY <1>1, <2>1 DEF ThreadsSoFar
    <2> QED
        BY <1>2, <2>2, <2>3 DEF PartsInv
  <1>4. CASE engine!Initialized
    <2>1. eDoing' = "idle" /\ eRunning' = TRUE
        BY <1>4 DEF engine!Initialized
    <2> QED
        BY <1>1, <1>2, <2>1 DEF PartsInv, MadeSoFar, ThreadsSoFar
  <1>5. CASE engine!InitializeFails
    <2>1. /\ eDoing = "initialize" /\ eStage # <<>> /\ Head(eStage) \in MayFail
          /\ eDoing' = "idle" /\ eInits' = eInits
        BY <1>5 DEF engine!InitializeFails
    <2>2. Left \in 1 .. 15 /\ Head(eStage) = InitOrder[16 - Left] /\ 16 - Left \in 1 .. 15
        BY <2>1, AtInit
    <2>3. eInits < MaxInits => eThreads \subseteq Alone
      <3>1. CASE Left >= 3
          BY <2>1, <3>1 DEF PartsInv, ThreadsSoFar
      <3>2. CASE Left < 3
        <4>1. 16 - Left >= 14
            BY <2>2, <3>2
        <4>2. Head(eStage) \in {"start_stats", "start_notifier"}
            BY <2>2, <4>1, MakingStages
        <4>3. MaxInits \in Nat /\ MaxInits <= 1
            BY <2>1, <4>2, EngineConstants
        <4>4. eInits \in Nat /\ eInits > 0
            BY <2>1 DEF Staged
        <4> QED
            BY <4>3, <4>4
      <3> QED
          BY <2>2, <3>1, <3>2
    <2> QED
        BY <1>1, <1>2, <2>1, <2>3 DEF PartsInv, MadeSoFar, ThreadsSoFar
  <1> QED
      BY <1>3, <1>4, <1>5

(* shutdown().                                                               *)
LEMMA StopCalls ==
  ASSUME Staged, PartsInv, engine!CallShutdown \/ engine!ClearRest
  PROVE  PartsInv'
  <1>1. UNCHANGED <<eMade, eBound>> /\ eThreads' \subseteq eThreads
      BY DEF engine!CallShutdown, engine!ClearRest
  <1>2. NothingDangles'
      BY <1>1 DEF PartsInv, NothingDangles, engine!NothingDangles
  <1>3. CASE engine!CallShutdown
    <2>1. eDoing' = "shutdown" /\ Left' = 17 /\ eThreads' = eThreads \ {"notifier"}
        BY <1>3, StopStages DEF engine!CallShutdown, StopOrder, Left
    <2> QED
        BY <1>2, <2>1 DEF PartsInv, MadeSoFar, ThreadsSoFar
  <1>4. CASE engine!ClearRest
    <2>1. eDoing = "shutdown" /\ eStage # <<>> /\ Head(eStage) = "clear" /\ eDoing' = "idle" /\ UNCHANGED eThreads
        BY <1>4 DEF engine!ClearRest, engine!AtStage
    <2>2. Left \in 1 .. 17 /\ Head(eStage) = StopOrder[18 - Left] /\ 18 - Left \in 1 .. 17
        BY <2>1, AtStop
    <2>3. 18 - Left = 17
        BY <2>1, <2>2, StoppingStages
    <2>4. eThreads \subseteq Alone
        BY <2>1, <2>2, <2>3 DEF PartsInv, ThreadsSoFar
    <2> QED
        BY <1>2, <2>1, <2>4 DEF PartsInv, MadeSoFar, ThreadsSoFar
  <1> QED
      BY <1>3, <1>4

LEMMA StopGoes ==
  ASSUME Staged, PartsInv, eDoing = "shutdown", eStage # <<>>, eStage' = Tail(eStage),
         UNCHANGED <<eDoing, eRunning, eInits>>, eThreads' \subseteq eThreads,
         NothingDangles',
         Head(eStage) = "stop_receivers" => eThreads' = eThreads \ engine!Receivers,
         Head(eStage) = "stop_stats" => eThreads' = eThreads \ {"stats"}
  PROVE  PartsInv'
  <1> DEFINE i == 18 - Left
  <1>1. Left \in 1 .. 17 /\ Head(eStage) = StopOrder[i] /\ Left' = Left - 1 /\ i \in 1 .. 17
      BY AtStop, StageDone
  <1>2. StopOrder[3] = "stop_receivers" /\ StopOrder[4] = "stop_stats"
      BY StopStages DEF engine!Stopping
  <1>3. CASE Left' >= 15
      BY <1>1, <1>3 DEF PartsInv, MadeSoFar, ThreadsSoFar
  <1>4. CASE Left' = 14
    <2>1. i = 3
        BY <1>1, <1>4
    <2>2. eThreads' = eThreads \ engine!Receivers
        BY <1>1, <1>2, <2>1
    <2>3. eThreads' \subseteq Alone \cup {"stats"}
        BY <2>2 DEF PartsInv, ThreadsSoFar
    <2> QED
        BY <1>4, <2>3 DEF PartsInv, MadeSoFar, ThreadsSoFar
  <1>5. CASE Left' = 13
    <2>1. i = 4 /\ Left = 14
        BY <1>1, <1>5
    <2>2. eThreads' = eThreads \ {"stats"}
        BY <1>1, <1>2, <2>1
    <2>3. eThreads' \subseteq Alone
        BY <2>1, <2>2 DEF PartsInv, ThreadsSoFar
    <2> QED
        BY <2>3 DEF PartsInv, MadeSoFar, ThreadsSoFar
  <1>6. CASE Left' <= 12
    <2>1. Left <= 13
        BY <1>1, <1>6
    <2>2. eThreads' \subseteq Alone
        BY <2>1 DEF PartsInv, ThreadsSoFar
    <2> QED
        BY <2>2 DEF PartsInv, MadeSoFar, ThreadsSoFar
  <1> QED
      BY <1>1, <1>3, <1>4, <1>5, <1>6

LEMMA PartStopped ==
  ASSUME Staged, PartsInv,
         \/ engine!StopSinks \/ engine!StopSources \/ engine!StopReceivers \/ engine!StopStats
         \/ engine!StopTimeshift \/ engine!StopEnumerator \/ engine!ClearPart
  PROVE  PartsInv'
  <1> USE DEF engine!At, engine!AtStage
  <1>1. CASE engine!StopSinks \/ engine!StopSources \/ engine!StopStats \/ engine!StopTimeshift \/ engine!StopEnumerator
    <2>1. UNCHANGED <<eMade, eBound>> /\ eThreads' \subseteq eThreads
        BY <1>1 DEF engine!StopSinks, engine!StopSources, engine!StopStats, engine!StopTimeshift,
                    engine!StopEnumerator, engine!StopThread
    <2>2. NothingDangles'
        BY <2>1 DEF PartsInv, NothingDangles, engine!NothingDangles
    <2>3. /\ eDoing = "shutdown" /\ eStage # <<>> /\ eStage' = Tail(eStage) /\ UNCHANGED <<eDoing, eRunning, eInits>>
          /\ Head(eStage) # "stop_receivers"
          /\ Head(eStage) = "stop_stats" => eThreads' = eThreads \ {"stats"}
        BY <1>1 DEF engine!StopSinks, engine!StopSources, engine!StopStats, engine!StopTimeshift,
                    engine!StopEnumerator, engine!StopThread
    <2> QED
        BY <2>1, <2>2, <2>3, StopGoes
  <1>2. CASE engine!StopReceivers
    <2>1. /\ eDoing = "shutdown" /\ eStage # <<>> /\ eStage' = Tail(eStage) /\ UNCHANGED <<eDoing, eRunning, eInits>>
          /\ Head(eStage) = "stop_receivers" /\ eThreads' = eThreads \ engine!Receivers
        BY <1>2 DEF engine!StopReceivers, engine!Destroy
    <2>2. \A p \in engine!Parts \ engine!Receivers : eMade'[p] = eMade[p] /\ eBound'[p] = eBound[p]
        BY <1>2 DEF engine!StopReceivers, engine!Destroy
    <2>3. NothingDangles'
      <3> SUFFICES ASSUME NEW r \in eThreads' \ {"notifier"}
                   PROVE  eMade'[r] # 0 /\ \A q \in engine!PointsTo[r] : eBound'[r][q] # 0 /\ eBound'[r][q] = eMade'[q]
          BY DEF NothingDangles, engine!NothingDangles
      <3>1. r \in eThreads /\ r \in engine!Parts \ engine!Receivers
          BY <2>1, PartsInOrder DEF PartsInv, ThreadsSoFar
      <3>2. \A q \in engine!PointsTo[r] : q \in engine!Parts \ engine!Receivers
        <4> SUFFICES ASSUME NEW q \in engine!PointsTo[r] PROVE q \in engine!Parts \ engine!Receivers
            OBVIOUS
        <4>1. q \in engine!Parts /\ Place(q) <= 5
            BY <3>1, PointsBack
        <4> QED
            BY <4>1, PartsInOrder
      <3>3. eMade[r] # 0 /\ \A q \in engine!PointsTo[r] : eBound[r][q] # 0 /\ eBound[r][q] = eMade[q]
          BY <3>1 DEF PartsInv, NothingDangles, engine!NothingDangles
      <3> QED
          BY <2>2, <3>1, <3>2, <3>3
    <2> QED
        BY <2>1, <2>3, StopGoes
  <1>3. CASE engine!ClearPart
    <2>1. PICK p \in engine!Parts : engine!At(p) /\ engine!Destroy({p})
        BY <1>3 DEF engine!ClearPart
    <2>2. eDoing = "shutdown" /\ eStage # <<>> /\ eStage' = Tail(eStage) /\ UNCHANGED <<eDoing, eRunning, eInits>>
          /\ Head(eStage) = p
        BY <2>1
    <2>3. Left \in 1 .. 17 /\ StopOrder[18 - Left] = p /\ 18 - Left \in 1 .. 17
        BY <2>2, AtStop
    <2>4. 18 - Left >= 7
        BY <2>3, StoppingStages
    <2>5. eThreads \subseteq Alone
        BY <2>2, <2>3, <2>4 DEF PartsInv, ThreadsSoFar
    <2>6. eThreads' = eThreads \ {p} /\ \A r \in engine!Parts \ {p} : eMade'[r] = eMade[r]
        BY <2>1 DEF engine!Destroy
    <2>7. NothingDangles'
      <3> SUFFICES ASSUME NEW r \in eThreads' PROVE eMade'[r] # 0
          BY <2>5, <2>6, AloneIsFine
      <3>1. r \in eThreads /\ r \in engine!Parts \ {p} /\ r # "notifier"
          BY <2>5, <2>6, PartsInOrder DEF Alone
      <3> QED
          BY <2>6, <3>1 DEF PartsInv, NothingDangles, engine!NothingDangles
    <2>8. p \notin {"stop_receivers", "stop_stats"}
        BY DEF engine!Parts, engine!PointsTo
    <2> QED
        BY <2>2, <2>6, <2>7, <2>8, StopGoes
  <1> QED
      BY <1>1, <1>2, <1>3

LEMMA PartsStep ==
  ASSUME Staged, PartsInv, engine!Next \/ UNCHANGED engineVars
  PROVE  PartsInv'
  <1>1. \/ UNCHANGED engineVars
        \/ \E s \in Sinks : engine!AddSink(s) \/ engine!RemoveSink(s)
        \/ engine!Coordinate \/ engine!EnableCoordinator \/ engine!UnmapSink \/ engine!StopSink
        \/ \E t \in Tags : engine!AddCapture(t) \/ engine!ReleaseCapture(t) \/ engine!CaptureEnds(t)
        => UNCHANGED <<eMade, eBound, eThreads, eInits, eDoing, eRunning, eStage>>
      BY DEF engineVars, engine!AddSink, engine!RemoveSink, engine!Coordinate, engine!EnableCoordinator,
             engine!UnmapSink, engine!StopSink, engine!AddCapture, engine!ReleaseCapture, engine!CaptureEnds
  <1> QED
      BY <1>1, PartsStay, PartMade, ReceiversMade, PartStarted, InitCalls, StopCalls, PartStopped, Zenon
      DEF engine!Next, engine!Control

(* initialize and shutdown, in every order and with every failure that       *)
(* EngineConstants allows: a thread that runs finds the objects its part was *)
(* given pointers to, and finds those it was given.                          *)
THEOREM ThreadsFindTheirParts == AllSpec => []NothingDangles
  <1>1. AllInit => PartsInv
      BY DEF AllInit, engine!Init, PartsInv, MadeSoFar, ThreadsSoFar, NothingDangles, engine!NothingDangles
  <1>2. PartsInv => NothingDangles
      BY DEF PartsInv
  <1> QED
      BY <1>1, <1>2, StagedInvariance, PartsStep, Apart, PTL DEF AllSpec

=============================================================================
