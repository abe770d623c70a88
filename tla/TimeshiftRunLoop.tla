-------------------------- MODULE TimeshiftRunLoop --------------------------
(* input_processor/timeshift_manager.cpp: how packets reach the timeshift    *)
(* thread and how the thread sleeps.  Receivers push to inbound_queue_, then *)
(* advance m_state_version_ and notify run_loop_cv_ without data_mutex_; the *)
(* thread drains the queue, makes a pass over the buffer (TimeshiftBuffer)   *)
(* and waits until the version has moved or its deadline passes.             *)
EXTENDS Integers, Sequences, Functions

CONSTANTS Receiver,    \* threads that call add_packet
          QueueMax,    \* kInboundQueueMaxSize
          MaxPackets,  \* bound: packets offered
          MaxCalls     \* bound: control calls made while the thread runs

VARIABLES stop_flag_,
          queue, queueStopped,         \* inbound_queue_
          version, seen,               \* m_state_version_, last_processed_version
          buffer,                      \* the packets ingested, in order
          pcR,                         \* each receiver: step
          pcT, batch,                  \* the thread: step and inbound_batch
          pcS,                         \* start() and stop(): step
          offered, dropped,            \* packets offered by each receiver, packets dropped
          calls                        \* control calls made

receiver == <<pcR, offered, dropped>>

(* The packet a receiver has in hand; packets are numbered per receiver.     *)
Packet    == Receiver \X (1 .. MaxPackets)
packet(r) == <<r, offered[r]>>

vars == <<stop_flag_, queue, queueStopped, version, seen, buffer, receiver, pcT, batch, pcS, calls>>

Init == /\ stop_flag_ = FALSE /\ queue = <<>> /\ queueStopped = FALSE
        /\ version = 0 /\ seen = 0 /\ buffer = <<>>
        /\ pcR = [r \in Receiver |-> "idle"] /\ offered = [r \in Receiver |-> 0]
        /\ pcT = "none" /\ batch = <<>> /\ pcS = "new"
        /\ dropped = {} /\ calls = 0

(* data_mutex_ is held from the test of the wait condition to the wait.      *)
Unlocked  == pcT # "block"
IsRunning == pcS # "new" /\ ~stop_flag_

Goto(r, step) == pcR' = [pcR EXCEPT ![r] = step]

(* A notification reaches the thread only when it is blocked already.        *)
Woken == IF pcT = "blocked" THEN "wait" ELSE pcT

-----------------------------------------------------------------------------
(* add_packet                                                                *)
Offer(r) ==
  /\ pcR[r] = "idle" /\ FoldFunction(+, 0, offered) < MaxPackets
  /\ ~stop_flag_
  /\ offered' = [offered EXCEPT ![r] = @ + 1]
  /\ Goto(r, "route")
  /\ UNCHANGED <<stop_flag_, queue, queueStopped, version, seen, buffer, dropped, pcT, batch, pcS, calls>>

Route(r) ==
  /\ pcR[r] = "route"
  /\ Goto(r, IF IsRunning THEN "push" ELSE "direct")
  /\ UNCHANGED <<stop_flag_, queue, queueStopped, version, seen, buffer, offered, dropped,
                 pcT, batch, pcS, calls>>

IngestDirectly(r) ==
  /\ pcR[r] = "direct" /\ Unlocked
  /\ buffer' = Append(buffer, packet(r))
  /\ Goto(r, "idle")
  /\ UNCHANGED <<stop_flag_, queue, queueStopped, version, seen, offered, dropped,
                 pcT, batch, pcS, calls>>

PushAtFront(r) == queue' = <<packet(r)>> \o queue                \* mutant
PushAtBack(r)  == queue' = Append(queue, packet(r))

FullOffByOne == Len(queue) > QueueMax                            \* mutant
Full == Len(queue) >= QueueMax

Push(r) ==
  /\ pcR[r] = "push"
  /\ \/ /\ queueStopped \/ Full
        /\ Goto(r, "idle") /\ dropped' = dropped \cup {packet(r)}
        /\ UNCHANGED queue
     \/ /\ ~queueStopped /\ ~Full
        /\ PushAtBack(r) /\ Goto(r, "bump")
        /\ UNCHANGED dropped
  /\ UNCHANGED <<stop_flag_, queueStopped, version, seen, buffer, offered, pcT, batch, pcS, calls>>

Bump(r) ==
  /\ pcR[r] = "bump"
  /\ version' = version + 1 /\ Goto(r, "notify")
  /\ UNCHANGED <<stop_flag_, queue, queueStopped, seen, buffer, offered, dropped,
                 pcT, batch, pcS, calls>>

NotifyOne(r) ==
  /\ pcR[r] = "notify"
  /\ pcT' = Woken /\ Goto(r, "idle")
  /\ UNCHANGED <<stop_flag_, queue, queueStopped, version, seen, buffer, offered, dropped,
                 batch, pcS, calls>>

(* unregister, update, attach and detach advance the version and notify with *)
(* data_mutex_ held.                                                         *)
ControlCall ==
  /\ IsRunning /\ Unlocked /\ calls < MaxCalls
  /\ calls' = calls + 1 /\ version' = version + 1 /\ pcT' = Woken
  /\ UNCHANGED <<stop_flag_, queue, queueStopped, seen, buffer, receiver, batch, pcS>>

-----------------------------------------------------------------------------
(* start() and stop()                                                        *)
Start ==
  /\ pcS = "new" /\ pcS' = "started"
  /\ pcT' = "test" /\ seen' = version
  /\ UNCHANGED <<stop_flag_, queue, queueStopped, version, buffer, receiver, batch, calls>>

StopStep(from, to) == pcS = from /\ pcS' = to

(* stop() lets go of data_mutex_, under which it counts, before this.        *)
StopFlag == /\ StopStep("started", "queue")
            /\ stop_flag_' = TRUE
            /\ UNCHANGED <<queue, queueStopped, version, seen, buffer, receiver, pcT, batch, calls>>

StopQueue == /\ StopStep("queue", "bump")
             /\ queueStopped' = TRUE
             /\ UNCHANGED <<stop_flag_, queue, version, seen, buffer, receiver, pcT, batch, calls>>

StopBump == /\ StopStep("bump", "notify")
            /\ version' = version + 1
            /\ UNCHANGED <<stop_flag_, queue, queueStopped, seen, buffer, receiver, pcT, batch, calls>>

StopNotify == /\ StopStep("notify", "join")
              /\ pcT' = Woken
              /\ UNCHANGED <<stop_flag_, queue, queueStopped, version, seen, buffer, receiver, batch, calls>>

Join == /\ StopStep("join", "stopped")
        /\ pcT = "exited"
        /\ UNCHANGED <<stop_flag_, queue, queueStopped, version, seen, buffer, receiver, pcT, batch, calls>>

-----------------------------------------------------------------------------
(* run()                                                                     *)
Thread(from, to) == pcT = from /\ pcT' = to

TestFlagOnly ==                                                  \* mutant
        /\ Thread("test", IF ~stop_flag_ THEN "drain" ELSE "exited")
        /\ UNCHANGED <<stop_flag_, queue, queueStopped, version, seen, buffer, receiver, batch, pcS, calls>>
Test == /\ Thread("test", IF ~stop_flag_ \/ queue # <<>> THEN "drain" ELSE "exited")
        /\ UNCHANGED <<stop_flag_, queue, queueStopped, version, seen, buffer, receiver, batch, pcS, calls>>

TryPop == /\ pcT = "drain" /\ queue # <<>>
          /\ batch' = Append(batch, Head(queue)) /\ queue' = Tail(queue)
          /\ UNCHANGED <<stop_flag_, queueStopped, version, seen, buffer, receiver, pcT, pcS, calls>>

Drained == /\ queue = <<>> /\ Thread("drain", "ingest")
           /\ UNCHANGED <<stop_flag_, queue, queueStopped, version, seen, buffer, receiver, batch, pcS, calls>>

Ingest == /\ pcT = "ingest" /\ batch # <<>>
          /\ buffer' = Append(buffer, Head(batch)) /\ batch' = Tail(batch)
          /\ UNCHANGED <<stop_flag_, queue, queueStopped, version, seen, receiver, pcT, pcS, calls>>

(* The pass over the buffer, the cleanup and the wildcard callbacks.         *)
PassMarksSeen == /\ batch = <<>> /\ Thread("ingest", "wait")     \* mutant
                 /\ seen' = version
                 /\ UNCHANGED <<stop_flag_, queue, queueStopped, version, buffer, receiver, batch, pcS, calls>>
Pass == /\ batch = <<>> /\ Thread("ingest", "wait")
        /\ UNCHANGED <<stop_flag_, queue, queueStopped, version, seen, buffer, receiver, batch, pcS, calls>>

TestWait == /\ Thread("wait", IF stop_flag_ \/ version # seen THEN "update" ELSE "block")
            /\ UNCHANGED <<stop_flag_, queue, queueStopped, version, seen, buffer, receiver, batch, pcS, calls>>

Block == /\ Thread("block", "blocked")
         /\ UNCHANGED <<stop_flag_, queue, queueStopped, version, seen, buffer, receiver, batch, pcS, calls>>

NoTimeout == FALSE                                               \* mutant
Timeout == /\ Thread("blocked", "update")
           /\ UNCHANGED <<stop_flag_, queue, queueStopped, version, seen, buffer, receiver, batch, pcS, calls>>

Update == /\ Thread("update", "test")
          /\ seen' = version
          /\ UNCHANGED <<stop_flag_, queue, queueStopped, version, buffer, receiver, batch, pcS, calls>>

AddPacket(r) == Route(r) \/ IngestDirectly(r) \/ Push(r) \/ Bump(r) \/ NotifyOne(r)
Run  == Test \/ TryPop \/ Drained \/ Ingest \/ Pass \/ TestWait \/ Block \/ Timeout \/ Update
Stop == StopQueue \/ StopBump \/ StopNotify \/ Join

Next == \/ \E r \in Receiver : Offer(r) \/ AddPacket(r)
        \/ ControlCall \/ Start \/ StopFlag \/ Stop \/ Run

Spec == Init /\ [][Next]_vars

(* Threads are scheduled, and every wait has a deadline, loop_max_sleep_ms   *)
(* at the latest.  Nobody has to offer packets or to stop the engine.        *)
FairSpec == /\ Spec /\ WF_vars(Run) /\ WF_vars(Stop)
            /\ \A r \in Receiver : WF_vars(AddPacket(r))

-----------------------------------------------------------------------------
Accepted == buffer \o batch \o queue

TypeOK == /\ {stop_flag_, queueStopped} \subseteq BOOLEAN
          /\ {version, seen, calls} \subseteq Nat
          /\ {queue, batch, buffer} \subseteq Seq(Packet)
          /\ Len(queue) <= QueueMax
          /\ pcR \in [Receiver -> {"idle", "route", "direct", "push", "bump", "notify"}]
          /\ offered \in [Receiver -> 0 .. MaxPackets] /\ dropped \subseteq Packet
          /\ pcT \in {"none", "test", "drain", "ingest", "wait", "block", "blocked", "update", "exited"}
          /\ pcS \in {"new", "started", "queue", "bump", "notify", "join", "stopped"}

(* The packets of one receiver stay in the order it delivered them: as long  *)
(* as the engine is not stopping, neither the switch from direct to queued   *)
(* ingest nor the batches reorder or duplicate them.                         *)
ReceiverOrder ==
  ~stop_flag_ => \A i, j \in DOMAIN Accepted :
    i < j /\ Accepted[i][1] = Accepted[j][1] => Accepted[i][2] < Accepted[j][2]

(* The thread never sleeps on work it has not been told of: with a packet in *)
(* the queue the version differs from the one it last saw, or its receiver   *)
(* is about to advance it.                                                   *)
VersionCoversQueue ==
  pcT = "blocked" /\ queue # <<>> => version # seen \/ \E r \in Receiver : pcR[r] = "bump"

(* A packet queued while the engine runs is ingested, even when a stop comes *)
(* before the thread has drained the queue.                                  *)
Queued(k)   == \E i \in DOMAIN queue : queue[i] = k
Ingested(k) == \E i \in DOMAIN buffer : buffer[i] = k
QueuedIsIngested == \A k \in Packet : (Queued(k) /\ ~stop_flag_) ~> Ingested(k)

(* stop() returns although its notification may find the thread not yet      *)
(* blocked.                                                                  *)
StopReturns == stop_flag_ ~> pcS = "stopped"
=============================================================================
