--------------------------- MODULE MixScheduler ---------------------------
(***************************************************************************)
(* The scheduler that gathers the chunks of a mixer's sources              *)
(* (output_mixer/mix_scheduler.cpp): a worker per source moves chunks from *)
(* the queue of its source processor to a bounded ready queue; the mixer   *)
(* collects one of each source at a time; one caller attaches and detaches *)
(* sources, and shuts the scheduler down.                                  *)
(***************************************************************************)
EXTENDS Naturals, Sequences

CONSTANTS
    Sources,
    Duration,       \* max_ready_queue_duration_ms, 0 for none
    ChunkDuration,  \* the milliseconds of a chunk, 0 while the timing is not set
    MaxReady,       \* max_ready_chunks_per_source
    MaxChunks,      \* bound: chunks a source produces
    MaxAttach       \* bound: attachments

Sentinel == 0   \* a chunk without audio

VARIABLES
    queue,      \* the input queue of each source: chunk numbers, and sentinels
    made,       \* the number of chunks each source has produced
    attached,   \* the sources in sources_
    stopping,   \* the attached sources whose flag is set
    worker,     \* each worker: "none", "look", "pop", "append", "leave" or "ended"
    hand,       \* the chunk each worker holds
    ready,      \* ready_chunks_
    received, popped, dropped,  \* the counters of each source
    drained,    \* drained_sources_
    taken,      \* the last chunk of each source that was collected
    control,    \* the caller: [step, id, todo, attach]
    attaches,   \* attachments so far
    shut        \* shutting_down_

sourceVars == <<attached, stopping>>
workerVars == <<worker, hand>>
readyVars == <<ready, received, popped, dropped>>
vars == <<queue, made, sourceVars, workerVars, readyVars, drained, taken, control, attaches, shut>>

Idle == [step |-> "idle", id |-> "none", todo |-> {}, attach |-> FALSE]
Zero == [s \in Sources |-> 0]

Init ==
    /\ queue = [s \in Sources |-> <<>>] /\ made = Zero
    /\ attached = {} /\ stopping = {}
    /\ worker = [s \in Sources |-> "none"] /\ hand = Zero
    /\ ready = [s \in Sources |-> <<>>]
    /\ received = Zero /\ popped = Zero /\ dropped = Zero
    /\ drained = <<>> /\ taken = Zero
    /\ control = Idle /\ attaches = 0
    /\ shut = FALSE

\* compute_ready_capacity: the configured time in chunks, rounded up, or the fallback
Capacity ==
    IF Duration > 0 /\ ChunkDuration > 0
    THEN (Duration + ChunkDuration - 1) \div ChunkDuration
    ELSE MaxReady

\* The source processor
Produce(s) ==
    /\ made[s] < MaxChunks
    /\ made' = [made EXCEPT ![s] = @ + 1]
    /\ queue' = [queue EXCEPT ![s] = Append(@, made[s] + 1)]
    /\ UNCHANGED <<sourceVars, workerVars, readyVars, drained, taken, control, attaches, shut>>

-----------------------------------------------------------------------------
(* The workers: worker_loop.                                               *)

WorkerStays == UNCHANGED <<made, sourceVars, taken, control, attaches, shut>>

\* A worker that is told to stop leaves; otherwise it goes to wait on its queue.
LookAtFlag(s) ==
    /\ worker[s] = "look"
    /\ worker' = [worker EXCEPT ![s] = IF s \in stopping THEN "leave" ELSE "pop"]
    /\ UNCHANGED <<queue, hand, readyVars, drained>> /\ WorkerStays

PopChunk(s) ==
    /\ worker[s] = "pop" /\ queue[s] # <<>>
    /\ queue' = [queue EXCEPT ![s] = Tail(@)]
    /\ hand' = [hand EXCEPT ![s] = Head(queue[s])]
    /\ worker' = [worker EXCEPT ![s] = "append"]
    /\ UNCHANGED <<readyVars, drained>> /\ WorkerStays

\* append_ready_chunk: a sentinel is passed over, the oldest chunk goes when the source is at its capacity
AppendChunk(s) ==
    LET full == Capacity > 0 /\ Len(ready[s]) >= Capacity
        kept == IF full THEN Tail(ready[s]) ELSE ready[s]
    IN
    /\ worker[s] = "append"
    /\ IF hand[s] = Sentinel
        THEN UNCHANGED readyVars
        ELSE /\ ready' = [ready EXCEPT ![s] = Append(kept, hand[s])]
             /\ received' = [received EXCEPT ![s] = @ + 1]
             /\ dropped' = [dropped EXCEPT ![s] = IF full THEN @ + 1 ELSE @]
             /\ UNCHANGED popped
    /\ worker' = [worker EXCEPT ![s] = "look"]
    /\ hand' = [hand EXCEPT ![s] = 0]
    /\ UNCHANGED <<queue, drained>> /\ WorkerStays

Leave(s) ==
    /\ worker[s] = "leave"
    /\ drained' = Append(drained, s)
    /\ worker' = [worker EXCEPT ![s] = "ended"]
    /\ UNCHANGED <<queue, hand, readyVars>> /\ WorkerStays

Worker(s) == LookAtFlag(s) \/ PopChunk(s) \/ AppendChunk(s) \/ Leave(s)

-----------------------------------------------------------------------------
(* The mixer: collect_ready_chunks.                                        *)

Collect ==
    LET has == {s \in Sources : ready[s] # <<>>} IN
    /\ has # {} \/ drained # <<>>
    /\ ready' = [s \in Sources |-> IF s \in has THEN Tail(ready[s]) ELSE ready[s]]
    /\ popped' = [s \in Sources |-> IF s \in has THEN popped[s] + 1 ELSE popped[s]]
    /\ taken' = [s \in Sources |-> IF s \in has THEN Head(ready[s]) ELSE taken[s]]
    /\ drained' = <<>>
    /\ UNCHANGED <<queue, made, sourceVars, workerVars, received, dropped, control, attaches, shut>>

-----------------------------------------------------------------------------
(* The caller. A source that is attached is detached first.                *)

CallerStays == UNCHANGED <<made, hand, drained, taken>>

AttachSource(s) ==
    /\ control.step = "idle" /\ ~shut /\ attaches < MaxAttach
    /\ control' = [step |-> "detach", id |-> s, todo |-> {}, attach |-> TRUE]
    /\ attaches' = attaches + 1
    /\ UNCHANGED <<queue, sourceVars, worker, readyVars, shut>> /\ CallerStays

DetachSource(s) ==
    /\ control.step = "idle" /\ ~shut
    /\ s \in attached
    /\ control' = [step |-> "detach", id |-> s, todo |-> {}, attach |-> FALSE]
    /\ UNCHANGED <<queue, sourceVars, worker, readyVars, attaches, shut>> /\ CallerStays

Shutdown ==
    /\ control.step = "idle" /\ ~shut
    /\ shut' = TRUE
    /\ control' = [Idle EXCEPT !.step = "next", !.todo = attached]
    /\ UNCHANGED <<queue, sourceVars, worker, readyVars, attaches>> /\ CallerStays

\* The next of the sources that shutdown() detaches
NextToDetach ==
    /\ control.step = "next"
    /\ IF control.todo = {}
        THEN control' = Idle
        ELSE \E s \in control.todo :
                control' = [control EXCEPT !.step = "detach", !.id = s, !.todo = @ \ {s}]
    /\ UNCHANGED <<queue, sourceVars, worker, readyVars, attaches, shut>> /\ CallerStays

Detached == IF control.attach THEN "insert" ELSE "next"

\* detach_source: the flag is set,
MarkStopping ==
    /\ control.step = "detach"
    /\ IF control.id \in attached
        THEN stopping' = stopping \union {control.id} /\ control' = [control EXCEPT !.step = "wake"]
        ELSE control' = [control EXCEPT !.step = Detached] /\ UNCHANGED stopping
    /\ UNCHANGED <<queue, attached, worker, readyVars, attaches, shut>> /\ CallerStays

WakeByNothing(s) == queue[s] \* mutant: no sentinel
Woken(s) == Append(queue[s], Sentinel)

\* the worker woken with a sentinel,
PushSentinel ==
    /\ control.step = "wake"
    /\ queue' = [queue EXCEPT ![control.id] = Woken(control.id)]
    /\ control' = [control EXCEPT !.step = "join"]
    /\ UNCHANGED <<sourceVars, worker, readyVars, attaches, shut>> /\ CallerStays

LeavingIsEnough(s) == s \in stopping \* mutant: the worker is not joined
Joined(s) == worker[s] = "ended"

\* joined, and the source and what it had ready are dropped.
EraseSource ==
    /\ control.step = "join" /\ Joined(control.id)
    /\ attached' = attached \ {control.id} /\ stopping' = stopping \ {control.id}
    /\ worker' = [worker EXCEPT ![control.id] = IF @ = "ended" THEN "none" ELSE @]
    /\ ready' = [ready EXCEPT ![control.id] = <<>>]
    /\ received' = [received EXCEPT ![control.id] = 0]
    /\ popped' = [popped EXCEPT ![control.id] = 0]
    /\ dropped' = [dropped EXCEPT ![control.id] = 0]
    /\ control' = [control EXCEPT !.step = Detached]
    /\ UNCHANGED <<queue, attaches, shut>> /\ CallerStays

\* attach_source goes on: the source is inserted and its worker started.
InsertSource ==
    /\ control.step = "insert"
    /\ attached' = attached \union {control.id}
    /\ worker' = [worker EXCEPT ![control.id] = "look"]
    /\ control' = Idle
    /\ UNCHANGED <<queue, stopping, readyVars, attaches, shut>> /\ CallerStays

Caller == NextToDetach \/ MarkStopping \/ PushSentinel \/ EraseSource \/ InsertSource

-----------------------------------------------------------------------------
Next ==
    \/ \E s \in Sources : Produce(s) \/ Worker(s) \/ AttachSource(s) \/ DetachSource(s)
    \/ Collect \/ Shutdown \/ Caller

Spec == Init /\ [][Next]_vars

Fairness == WF_vars(Caller) /\ \A s \in Sources : WF_vars(Worker(s))
FairSpec == Spec /\ Fairness

-----------------------------------------------------------------------------
(* Properties.                                                             *)

\* A source that is detached has left nothing to be mixed, and no counters: what its
\* worker held when it was told to stop included.
DetachedIsGone ==
    \A s \in Sources \ attached : ready[s] = <<>> /\ received[s] = 0 /\ worker[s] = "none"

\* A detach returns: its sentinel wakes a worker that waits on an empty queue.
DetachReturns == control.step = "join" ~> control.step # "join"
=============================================================================
