---------------------------- MODULE ClockManager ----------------------------
(***************************************************************************)
(* The clock the mixers and the PulseAudio streams run by                  *)
(* (receivers/clock_manager.cpp): one entry per format, with its period and*)
(* its next tick, the conditions registered for it, and the worker that    *)
(* arms a timer for the earliest entry, waits without the mutex, and then  *)
(* ticks the conditions the entry has by then.                             *)
(*                                                                         *)
(* Time is relative: an entry keeps how long it is until its next tick,    *)
(* below zero when the worker is late.                                     *)
(***************************************************************************)
EXTENDS Integers, FiniteSetsExt

CONSTANTS
    Conds,          \* the conditions clients register
    Formats,        \* records [rate, channels, bits]
    ChunkBytes,     \* chunk_size_bytes_
    TimerFails,     \* arming the platform timer may fail
    MaxLate,        \* bound: how late the worker may be
    MaxCalls        \* bound: registrations

VARIABLES
    until,      \* clock_entries_: the time to the next tick of an entry, or None
    format,     \* the format a condition is registered for and active in, or None
    seen,       \* its sequence was increased since its client last looked
    ahead,      \* the time its ticks stand for, less the time it is registered
    worker,     \* "scan", "wait", "cv_wait", "fired", "tick" or "ended"
    next,       \* the entry the worker waits for, or None
    todo,       \* the conditions it still has to tick
    timer,      \* the platform timer is there
    wake,       \* the timer was notified
    stop,       \* stop_requested_
    calls       \* registrations so far

entryVars == <<until, format>>
condVars == <<seen, ahead>>
workerVars == <<worker, next, todo>>
vars == <<entryVars, condVars, workerVars, timer, wake, stop, calls>>

None == [rate |-> 0]

\* calculate_period, in the time a byte of a mono 8-bit stream at rate 1 takes
Period(f) == Max({1, ChunkBytes \div (f.rate * f.channels * (f.bits \div 8))})

\* No entry: a time no entry has
Absent == 3 * ChunkBytes
Entries == {f \in Formats : until[f] # Absent}

Init ==
    /\ until = [f \in Formats |-> Absent]
    /\ format = [c \in Conds |-> None]
    /\ seen = [c \in Conds |-> FALSE] /\ ahead = [c \in Conds |-> 0]
    /\ worker = "scan" /\ next = None /\ todo = {}
    /\ timer = TRUE /\ wake = FALSE /\ stop = FALSE /\ calls = 0

Registered(c) == format[c] # None
Of(f) == {c \in Conds : format[c] = f}

-----------------------------------------------------------------------------
(* The clients.                                                            *)

\* The platform timer's wake, which stays, and the condition variable's, which does not.
WakeLost == UNCHANGED <<wake, worker>> \* mutant: nobody tells the worker
WakeWorker ==
    /\ wake' = (wake \/ timer)
    /\ worker' = IF worker = "cv_wait" THEN "scan" ELSE worker

\* register_clock_condition: a new entry ticks a period from now, an old one when it would.
Register(c, f) ==
    /\ format[c] = None /\ ~stop /\ calls < MaxCalls
    /\ calls' = calls + 1
    /\ format' = [format EXCEPT ![c] = f]
    /\ until' = IF f \in Entries THEN until ELSE [until EXCEPT ![f] = Period(f)]
    /\ seen' = [seen EXCEPT ![c] = FALSE] /\ ahead' = [ahead EXCEPT ![c] = 0]
    /\ WakeWorker
    /\ UNCHANGED <<next, todo, timer, stop>>

\* unregister_clock_condition: an inactive condition is not ticked any more, even if the
\* worker has its entry in hand.
Unregister(c) ==
    /\ Registered(c)
    /\ format' = [format EXCEPT ![c] = None]
    /\ until' = IF Of(format[c]) = {c} THEN [until EXCEPT ![format[c]] = Absent] ELSE until
    /\ todo' = todo \ {c}
    /\ seen' = [seen EXCEPT ![c] = FALSE] /\ ahead' = [ahead EXCEPT ![c] = 0]
    /\ WakeWorker
    /\ UNCHANGED <<next, timer, stop, calls>>

\* A client that waits for its condition takes note of the tick.
Look(c) ==
    /\ seen[c]
    /\ seen' = [seen EXCEPT ![c] = FALSE]
    /\ UNCHANGED <<entryVars, ahead, workerVars, timer, wake, stop, calls>>

\* The destructor
Destroy ==
    /\ ~stop
    /\ stop' = TRUE
    /\ WakeWorker
    /\ UNCHANGED <<entryVars, condVars, next, todo, timer, calls>>

-----------------------------------------------------------------------------
(* run()                                                                   *)

Worker == UNCHANGED <<entryVars, condVars, stop, calls>>

\* Under the mutex: the earliest entry; then the worker waits, for its timer or, once
\* that has failed, on the condition variable.
Scan ==
    /\ worker = "scan" /\ ~stop
    /\ next' \in IF Entries = {} THEN {None}
                 ELSE {f \in Entries : \A g \in Entries : until[f] <= until[g]}
    /\ worker' = IF timer THEN "wait" ELSE "cv_wait"
    /\ Worker /\ UNCHANGED <<todo, timer, wake>>

ArmFails ==
    /\ TimerFails /\ worker = "wait" /\ timer
    /\ timer' = FALSE
    /\ worker' = "scan"
    /\ Worker /\ UNCHANGED <<next, todo, wake>>

Woken ==
    /\ worker = "wait" /\ wake
    /\ wake' = FALSE
    /\ worker' = "scan"
    /\ Worker /\ UNCHANGED <<next, todo, timer>>

\* The time the worker waits for is the one it read in the scan: while it waits, the
\* entry changes only with a wake.
TimerFires ==
    /\ next # None
    /\ \/ worker = "wait" /\ ~wake
       \/ worker = "cv_wait"
    /\ until[next] <= 0
    /\ worker' = "fired"
    /\ Worker /\ UNCHANGED <<next, todo, timer, wake>>

\* A tick is missed only if the worker is more than half a period late.
NeverMissed(left, period) == left + period \* mutant: every tick missed is made up for
Advanced(left, period) ==
    LET ticks == 1 .. (2 * MaxLate + 2)
        After(n) == left + n * period
    IN  After(Min({n \in ticks : After(n) + period \div 2 > 0}))

\* Under the mutex again: the entry is looked up anew.
Fire ==
    /\ worker = "fired" /\ ~stop
    /\ IF next \in Entries
        THEN /\ until' = [until EXCEPT ![next] = Advanced(@, Period(next))]
             /\ todo' = Of(next)
             /\ worker' = "tick"
        ELSE worker' = "scan" /\ UNCHANGED <<until, todo>>
    /\ UNCHANGED <<format, condVars, next, timer, wake, stop, calls>>

\* Without the mutex: the conditions of the entry one by one, those still active.
TickOne ==
    /\ worker = "tick" /\ todo # {} /\ ~stop
    /\ \E c \in todo :
        /\ todo' = todo \ {c}
        /\ seen' = [seen EXCEPT ![c] = TRUE]
        /\ ahead' = [ahead EXCEPT ![c] = @ + Period(next)]
    /\ UNCHANGED <<entryVars, worker, next, timer, wake, stop, calls>>

Ticked ==
    /\ worker = "tick" /\ (todo = {} \/ stop)
    /\ worker' = "scan" /\ todo' = {}
    /\ Worker /\ UNCHANGED <<next, timer, wake>>

\* The loop tests the flag whenever it has the mutex again.
EndWorker ==
    /\ stop /\ (worker \in {"scan", "fired"} \/ (worker = "wait" /\ wake))
    /\ worker' = "ended"
    /\ Worker /\ UNCHANGED <<next, todo, timer, wake>>

\* Time passes; the worker is not late for ever, and a client more than a period behind
\* is as good as one a period behind.
Elapse ==
    /\ \A f \in Entries : until[f] > -MaxLate
    /\ until' = [f \in Formats |-> IF f \in Entries THEN until[f] - 1 ELSE until[f]]
    /\ ahead' = [c \in Conds |-> IF Registered(c) THEN Max({ahead[c] - 1, -Period(format[c])}) ELSE 0]
    /\ Entries # {}
    /\ UNCHANGED <<format, seen, workerVars, timer, wake, stop, calls>>

RunLoop == Scan \/ Woken \/ TimerFires \/ Fire \/ TickOne \/ Ticked \/ EndWorker

Next ==
    \/ \E c \in Conds : Unregister(c) \/ Look(c) \/ \E f \in Formats : Register(c, f)
    \/ Destroy \/ RunLoop \/ ArmFails \/ Elapse

Spec == Init /\ [][Next]_vars

\* The worker's thread runs, and time passes.
Fairness == WF_vars(RunLoop) /\ WF_vars(Elapse)
FairSpec == Spec /\ Fairness

-----------------------------------------------------------------------------
\* The ticks a client gets never stand for two and a half periods more than the time it has
\* been registered, however late the worker was, and whoever else comes and goes: one for
\* an entry that is due when it joins, one for the tick after it, and the half by which an
\* entry may stay late (clock_manager.cpp:518-560).
NeverAhead ==
    \A c \in Conds : Registered(c) =>
        ahead[c] < 2 * Period(format[c]) + Period(format[c]) \div 2

\* A registered client is ticked again and again, whatever other formats are registered
\* and taken away meanwhile, with the timer and without it (clock_manager.cpp:382-575).
KeepsTicking == \A c \in Conds : (Registered(c) /\ ~seen[c]) ~> (~Registered(c) \/ seen[c] \/ stop)

\* The destructor's join returns (clock_manager.cpp:308-320).
WorkerEnds == stop ~> (worker = "ended")
=============================================================================
