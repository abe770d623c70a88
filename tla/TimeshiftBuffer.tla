-------------------------- MODULE TimeshiftBuffer --------------------------
(* input_processor/timeshift_manager.cpp: the global buffer every packet     *)
(* enters, the read position each registered processor has in it, and the    *)
(* thread that walks the processors and dispatches what is due.              *)
(*                                                                           *)
(* The deque global_timeshift_buffer_ is kept as the pair (log, base): log   *)
(* is every packet ever appended and base the number popped from the front,  *)
(* so that a packet keeps one number, its place in log, for as long as the   *)
(* properties speak of it.  The code's index i is the packet log[base+i+1].  *)
(*                                                                           *)
(* data_mutex_ is held through a pass of the thread (pc # "idle"): no other  *)
(* operation on the buffer runs then.  Erasing a stream's timing state takes *)
(* another mutex and may happen in the middle of a pass.                     *)
EXTENDS Integers, Sequences

CONSTANTS
  Tag,             \* concrete source tags
  Wild,            \* wildcard filters
  Covers,          \* [Wild -> SUBSET Tag]: the tags that have the prefix
  Instance,        \* processor instance ids
  FilterOf,        \* [Instance -> Tag \cup Wild]: source_tag_filter
  Order,           \* [Instance -> Nat]: iteration order of processor_targets_
  Delays, Shifts,  \* values of current_delay_ms and of the timeshift, in ticks
  Target,          \* target_buffer_level_ms
  MaxAdaptive,     \* max_adaptive_delay_ms; 0 disables the cap
  GateCap,         \* the 5 ms cap of the safe dispatch latency
  SlipGuard,       \* kMaxSchedSlipMs
  CatchupLag,      \* max_catchup_lag_ms
  MaxAge,          \* max_buffer_duration_sec_
  CleanupInterval, \* cleanup_interval_ms
  QueueLag,        \* bound: ticks a packet may spend in the inbound queue
  MaxPackets,      \* bound: packets ingested
  MaxOps,          \* bound: calls of the control operations and of reset_stream_state
  MaxTime          \* bound: ticks

NoTag == "no tag"    \* the empty bound_source_tag

ASSUME TagAssumption    == NoTag \notin Tag /\ Tag \cap Wild = {}
ASSUME FilterAssumption == /\ FilterOf \in [Instance -> Tag \cup Wild]
                           /\ Covers \in [Wild -> SUBSET Tag]
                           /\ Order \in [Instance -> Nat]
ASSUME TickAssumption   == /\ Delays \subseteq Nat /\ Shifts \subseteq Nat
                           /\ {Target, MaxAdaptive, GateCap, SlipGuard, CatchupLag, MaxAge,
                               CleanupInterval, QueueLag, MaxPackets, MaxOps, MaxTime} \subseteq Nat

VARIABLES
  now,              \* the steady clock
  log, base,        \* global_timeshift_buffer_
  registered,       \* the instances in processor_targets_
  idx,              \* next_packet_read_index
  bound, matched,   \* bound_source_tag, matched_concrete_tags
  delay, shift,     \* current_delay_ms, current_timeshift_backshift_sec
  timing,           \* tags with a timing state, hence with a clock
  resetting,        \* tags between the two critical sections of reset_stream_state
  pc, todo,         \* the thread: "idle", "scan" or "clean"; processors left in the pass
  lastCleanup,      \* last_cleanup_time_
  ops,              \* calls made so far, up to MaxOps
  start, sent, late, untimed, evicted   \* history since p was last positioned:
                    \* where, and the numbers of the packets dispatched, discarded as
                    \* too late, skipped for want of timing, and removed unread

stream  == <<log, base>>
target  == <<registered, bound, matched, delay, shift>>
thread  == <<pc, todo, lastCleanup>>
history == <<start, sent, late, untimed, evicted>>
vars == <<now, stream, target, idx, timing, resetting, thread, ops, history>>

-----------------------------------------------------------------------------
BufLen   == Len(log) - base
At(i)    == log[base + i + 1]
Pos(p)   == base + idx[p]            \* packets up to here are behind p

IsWild(p)      == FilterOf[p] \in Wild
Prefixed(p, t) == IsWild(p) /\ t \in Covers[FilterOf[p]]

Lower(a, b)  == IF a < b THEN a ELSE b
Higher(a, b) == IF a > b THEN a ELSE b
BaseLatency(p) == Higher(delay[p], Target)
Latency(p)   == shift[p] + IF MaxAdaptive > 0 THEN Lower(BaseLatency(p), MaxAdaptive) ELSE BaseLatency(p)
Gate(p)      == Lower(Latency(p) \div 2, GateCap)
Slip(x)      == Higher(-SlipGuard, Lower(x, SlipGuard))

(* The code takes the expected arrival from the stream's clock filter; here  *)
(* it is the time the packet was received.                                   *)
Due(p, k)      == k.rcv + Gate(p) <= now
Lateness(p, k) == Slip(now - (k.rcv + Latency(p)))
TooLate(p, k)  == CatchupLag > 0 /\ Lateness(p, k) > CatchupLag

Init == /\ now = 0 /\ log = <<>> /\ base = 0
        /\ registered = {}
        /\ idx = [p \in Instance |-> 0]
        /\ bound = [p \in Instance |-> NoTag]
        /\ matched = [p \in Instance |-> {}]
        /\ delay = [p \in Instance |-> 0] /\ shift = [p \in Instance |-> 0]
        /\ timing = {} /\ resetting = {}
        /\ pc = "idle" /\ todo = {} /\ lastCleanup = 0
        /\ ops = 0
        /\ start = [p \in Instance |-> 0] /\ sent = [p \in Instance |-> <<>>]
        /\ late = [p \in Instance |-> {}] /\ untimed = [p \in Instance |-> {}]
        /\ evicted = [p \in Instance |-> {}]

Tick == /\ now < MaxTime
        /\ now' = now + 1
        /\ UNCHANGED <<stream, target, idx, timing, resetting, thread, history>>

(* The processors in S read on from index n: their history starts afresh.    *)
Reposition(S, n) ==
  /\ idx'     = [p \in Instance |-> IF p \in S THEN n ELSE idx[p]]
  /\ start'   = [p \in Instance |-> IF p \in S THEN base + n ELSE start[p]]
  /\ sent'    = [p \in Instance |-> IF p \in S THEN <<>> ELSE sent[p]]
  /\ late'    = [p \in Instance |-> IF p \in S THEN {} ELSE late[p]]
  /\ untimed' = [p \in Instance |-> IF p \in S THEN {} ELSE untimed[p]]
  /\ evicted' = [p \in Instance |-> IF p \in S THEN {} ELSE evicted[p]]

(* n is the first index received no more than `back` ticks ago, or the end.  *)
Seek(n, back) == /\ n \in 0 .. BufLen
                 /\ \A i \in 0 .. n - 1 : At(i).rcv < now - back
                 /\ n < BufLen => At(n).rcv >= now - back

-----------------------------------------------------------------------------
(* ingest_packet_locked.  A jump of the RTP timestamp that the wall clock    *)
(* does not explain moves the processors filed under this very tag to the    *)
(* end of the buffer and starts the stream's timing afresh.                  *)
Ingest(t, r, jump) ==
  /\ pc = "idle"
  /\ Len(log) < MaxPackets
  /\ jump => t \in timing
  /\ Reposition(IF jump THEN {p \in registered : FilterOf[p] = t} ELSE {}, BufLen)
  /\ log' = Append(log, [tag |-> t, rcv |-> r])
  /\ timing' = timing \cup {t}
  /\ UNCHANGED <<now, base, target, resetting, thread>>

RegisterProcessor(p, d, s) ==
  /\ pc = "idle"
  /\ p \notin registered
  /\ registered' = registered \cup {p}
  /\ bound'   = [bound EXCEPT ![p] = IF IsWild(p) THEN NoTag ELSE FilterOf[p]]
  /\ matched' = [matched EXCEPT ![p] = IF IsWild(p) THEN {} ELSE {FilterOf[p]}]
  /\ delay'   = [delay EXCEPT ![p] = d]
  /\ shift'   = [shift EXCEPT ![p] = s]
  /\ \E n \in 0 .. BufLen :
        /\ IF s > 0 THEN Seek(n, d + s) ELSE n = BufLen
        /\ Reposition({p}, n)
  /\ UNCHANGED <<now, stream, timing, resetting, thread>>

UnregisterProcessor(p) ==
  /\ pc = "idle"
  /\ p \in registered
  /\ registered' = registered \ {p}
  /\ bound' = [bound EXCEPT ![p] = NoTag] /\ matched' = [matched EXCEPT ![p] = {}]
  /\ delay' = [delay EXCEPT ![p] = 0] /\ shift' = [shift EXCEPT ![p] = 0]
  /\ Reposition({p}, 0)
  /\ UNCHANGED <<now, stream, timing, resetting, thread>>

UpdateDelay(p, d) ==
  /\ pc = "idle"
  /\ p \in registered
  /\ delay' = [delay EXCEPT ![p] = d]
  /\ UNCHANGED <<now, stream, registered, bound, matched, shift, idx, timing, resetting, thread, history>>

UpdateTimeshift(p, s) ==
  /\ pc = "idle"
  /\ p \in registered
  /\ shift' = [shift EXCEPT ![p] = s]
  /\ \E n \in 0 .. BufLen : Seek(n, delay[p] + s) /\ Reposition({p}, n)
  /\ UNCHANGED <<now, stream, registered, bound, matched, delay, timing, resetting, thread>>

(* reset_stream_state: the positions under data_mutex_, then, in a critical  *)
(* section of its own, the timing state.                                     *)
ResetPositions(t) ==
  /\ pc = "idle"
  /\ t \notin resetting
  /\ LET hit == {p \in registered : bound[p] = t}
     IN  /\ Reposition(hit, BufLen)
         /\ bound' = [p \in Instance |-> IF p \in hit /\ IsWild(p) THEN NoTag ELSE bound[p]]
  /\ resetting' = resetting \cup {t}
  /\ UNCHANGED <<now, stream, registered, matched, delay, shift, timing, thread>>

ResetTiming(t) ==
  /\ t \in resetting
  /\ timing' = timing \ {t}
  /\ resetting' = resetting \ {t}
  /\ UNCHANGED <<now, stream, target, idx, thread, history>>

-----------------------------------------------------------------------------
(* One pass of the thread: processing_loop_iteration_unlocked visits packets *)
(* of the processors in turn.  After any visit the 10 ms budget may be spent *)
(* and the pass is cut.                                                      *)

BeginPass == /\ pc = "idle"
             /\ pc' = "scan"
             /\ todo' = IF BufLen = 0 THEN {} ELSE registered
             /\ UNCHANGED <<now, stream, target, idx, timing, resetting, lastCleanup, history>>

Current(p) == pc = "scan" /\ p \in todo /\ \A q \in todo : Order[p] <= Order[q]
Visiting(p) == Current(p) /\ idx[p] < BufLen

StayOrCut     == todo' \in {todo, {}}
LeaveOrCut(p) == todo' \in {todo \ {p}, {}}

(* match_and_bind_source                                                     *)
MatchesPrefix(p, t) == t = FilterOf[p] \/ Prefixed(p, t)          \* mutant
Matches(p, t) ==
  \/ ~IsWild(p) /\ t = FilterOf[p]
  \/ IsWild(p) /\ bound[p] # NoTag /\ t = bound[p]
  \/ IsWild(p) /\ bound[p] = NoTag /\ Prefixed(p, t)

Bind(p, t) ==
  /\ bound'   = [bound EXCEPT ![p] = t]
  /\ matched' = [matched EXCEPT ![p] = @ \cup {t}]

(* A stream with the prefix is noted, and announced when it is new.          *)
NoteNothing(p, t) == matched' = matched                          \* mutant
Note(p, t) == matched' = IF Prefixed(p, t) THEN [matched EXCEPT ![p] = @ \cup {t}] ELSE matched

Advance(p) == idx' = [idx EXCEPT ![p] = @ + 1]

EndOfBuffer(p) ==
  /\ Current(p) /\ idx[p] >= BufLen
  /\ todo' = todo \ {p}
  /\ UNCHANGED <<now, stream, target, idx, timing, resetting, pc, lastCleanup, history>>

SkipOtherTag(p) ==
  /\ Visiting(p)
  /\ LET t == At(idx[p]).tag
     IN  ~Matches(p, t) /\ Note(p, t)
  /\ Advance(p) /\ StayOrCut
  /\ UNCHANGED <<now, stream, registered, bound, delay, shift, timing, resetting, pc, lastCleanup, history>>

SkipUntimedStays(p) ==                                           \* mutant
  /\ Visiting(p)
  /\ LET t == At(idx[p]).tag
     IN  Matches(p, t) /\ t \notin timing /\ Bind(p, t)
  /\ StayOrCut
  /\ UNCHANGED <<now, stream, registered, delay, shift, idx, timing, resetting, pc, lastCleanup, history>>

SkipUntimed(p) ==
  /\ Visiting(p)
  /\ LET t == At(idx[p]).tag
     IN  Matches(p, t) /\ t \notin timing /\ Bind(p, t)
  /\ Advance(p) /\ StayOrCut
  /\ untimed' = [untimed EXCEPT ![p] = @ \cup {Pos(p) + 1}]
  /\ UNCHANGED <<now, stream, registered, delay, shift, timing, resetting, pc, lastCleanup,
                 start, sent, late, evicted>>

WaitAdvances(p) ==                                               \* mutant
  /\ Visiting(p)
  /\ LET k == At(idx[p])
     IN  Matches(p, k.tag) /\ k.tag \in timing /\ Bind(p, k.tag) /\ ~Due(p, k)
  /\ Advance(p) /\ LeaveOrCut(p)
  /\ UNCHANGED <<now, stream, registered, delay, shift, timing, resetting, pc, lastCleanup, history>>

Wait(p) ==
  /\ Visiting(p)
  /\ LET k == At(idx[p])
     IN  Matches(p, k.tag) /\ k.tag \in timing /\ Bind(p, k.tag) /\ ~Due(p, k)
  /\ LeaveOrCut(p)
  /\ UNCHANGED <<now, stream, registered, delay, shift, idx, timing, resetting, pc, lastCleanup, history>>

DiscardLate(p) ==
  /\ Visiting(p)
  /\ LET k == At(idx[p])
     IN  Matches(p, k.tag) /\ k.tag \in timing /\ Bind(p, k.tag) /\ Due(p, k) /\ TooLate(p, k)
  /\ Advance(p) /\ StayOrCut
  /\ late' = [late EXCEPT ![p] = @ \cup {Pos(p) + 1}]
  /\ UNCHANGED <<now, stream, registered, delay, shift, timing, resetting, pc, lastCleanup,
                 start, sent, untimed, evicted>>

Dispatch(p) ==
  /\ Visiting(p)
  /\ LET k == At(idx[p])
     IN  Matches(p, k.tag) /\ k.tag \in timing /\ Bind(p, k.tag) /\ Due(p, k) /\ ~TooLate(p, k)
  /\ Advance(p) /\ LeaveOrCut(p)
  /\ sent' = [sent EXCEPT ![p] = Append(@, Pos(p) + 1)]
  /\ UNCHANGED <<now, stream, registered, delay, shift, timing, resetting, pc, lastCleanup,
                 start, late, untimed, evicted>>

EndPass == /\ pc = "scan" /\ todo = {}
           /\ pc' = IF now - lastCleanup > CleanupInterval THEN "clean" ELSE "idle"
           /\ UNCHANGED <<now, stream, target, idx, timing, resetting, todo, lastCleanup, history>>

(* cleanup_global_buffer_unlocked: the n packets at the front older than     *)
(* MaxAge go, and every index moves with the packets or to the new front.    *)
Expired(n) == /\ n \in 0 .. BufLen
              /\ \A i \in 0 .. n - 1 : At(i).rcv < now - MaxAge
              /\ n < BufLen => At(n).rcv >= now - MaxAge

ShiftNever(i, n)     == i                                        \* mutant
ShiftUnderflow(i, n) == i - n                                    \* mutant
ShiftToFront(i, n)   == 0                                        \* mutant
ShiftBack(i, n) == IF i < n THEN 0 ELSE i - n

Cleanup ==
  /\ pc = "clean"
  /\ \E n \in 0 .. BufLen :
        /\ Expired(n)
        /\ base' = base + n
        /\ idx' = [p \in Instance |-> IF p \in registered THEN ShiftBack(idx[p], n) ELSE idx[p]]
        /\ evicted' = [p \in Instance |-> IF p \in registered
                                          THEN evicted[p] \cup (Pos(p) + 1 .. base + n)
                                          ELSE evicted[p]]
  /\ pc' = "idle" /\ lastCleanup' = now
  /\ UNCHANGED <<now, log, target, timing, resetting, todo, start, sent, late, untimed>>

Visit(p) == \/ EndOfBuffer(p) \/ SkipOtherTag(p) \/ SkipUntimed(p)
            \/ Wait(p) \/ DiscardLate(p) \/ Dispatch(p)

-----------------------------------------------------------------------------
(* The last packet is received early enough to become due before time ends.  *)
Receive == \E t \in Tag, r \in now - QueueLag .. now, jump \in BOOLEAN :
             r >= 0 /\ now + GateCap <= MaxTime /\ Ingest(t, r, jump)

Control == \/ \E p \in Instance, d \in Delays, s \in Shifts : RegisterProcessor(p, d, s)
           \/ \E p \in Instance : UnregisterProcessor(p)
           \/ \E p \in Instance, d \in Delays : UpdateDelay(p, d)
           \/ \E p \in Instance, s \in Shifts : UpdateTimeshift(p, s)
           \/ \E t \in Tag : ResetPositions(t)

Call      == ops < MaxOps /\ ops' = ops + 1 /\ Control
Arrive    == Receive /\ UNCHANGED ops
Forget    == (\E t \in Tag : ResetTiming(t)) /\ UNCHANGED ops
Clock     == Tick /\ UNCHANGED ops
RunThread == /\ BeginPass \/ (\E p \in Instance : Visit(p)) \/ EndPass \/ Cleanup
             /\ UNCHANGED ops

Next == Clock \/ Arrive \/ RunThread \/ Call \/ Forget

Spec == Init /\ [][Next]_vars

(* The thread is always scheduled again and the second critical section of a *)
(* reset is always entered; time passes.                                     *)
FairSpec == Spec /\ WF_vars(Clock) /\ WF_vars(RunThread) /\ WF_vars(Forget)

-----------------------------------------------------------------------------
Packets == 1 .. Len(log)

TypeOK ==
  /\ now \in Nat /\ ops \in Nat /\ lastCleanup \in Nat
  /\ log \in Seq([tag : Tag, rcv : Nat]) /\ base \in 0 .. Len(log)
  /\ registered \subseteq Instance
  /\ idx \in [Instance -> Nat] /\ start \in [Instance -> Nat]
  /\ bound \in [Instance -> Tag \cup {NoTag}]
  /\ matched \in [Instance -> SUBSET Tag]
  /\ delay \in [Instance -> Nat] /\ shift \in [Instance -> Nat]
  /\ timing \subseteq Tag /\ resetting \subseteq Tag
  /\ pc \in {"idle", "scan", "clean"} /\ todo \subseteq registered /\ (pc # "scan" => todo = {})
  /\ sent \in [Instance -> Seq(Nat)]
  /\ {late, untimed, evicted} \subseteq [Instance -> SUBSET Nat]

(* A read position never leaves the buffer, whatever the cleanup removed     *)
(* under it: processing_loop_iteration_unlocked indexes the deque with it.   *)
IndexInBuffer == \A p \in registered : idx[p] <= BufLen

(* No packet of its stream is passed over in silence: every one behind the   *)
(* read position was dispatched, discarded as too late, met while the stream *)
(* had no timing state, or removed by the cleanup before it was read.        *)
NothingSkipped ==
  \A p \in registered : \A i \in start[p] + 1 .. Pos(p) :
    log[i].tag = bound[p] => \/ \E k \in DOMAIN sent[p] : sent[p][k] = i
                             \/ i \in late[p] \cup untimed[p] \cup evicted[p]

(* Packets leave in the order they entered, each at most once, until the     *)
(* processor is repositioned.                                                *)
DispatchedInOrder ==
  \A p \in registered : \A i, j \in DOMAIN sent[p] : i < j => sent[p][i] < sent[p][j]

(* A processor plays one stream: a wildcard processor that is bound to a tag *)
(* never mixes in packets of another tag with the same prefix.               *)
OneStream ==
  \A p \in registered : \A k \in DOMAIN sent[p] : log[sent[p][k]].tag = bound[p]

(* A wildcard processor takes note of every tag it passes: a stream that     *)
(* matches its filter is announced even when it is bound to another one.     *)
StreamsNoticed ==
  \A p \in registered : \A i \in start[p] + 1 .. Pos(p) :
    Prefixed(p, log[i].tag) /\ i \notin evicted[p] => log[i].tag \in matched[p]

(* Once packets stop arriving every processor reaches the end of the buffer: *)
(* the budget that cuts a pass starves no processor late in the order.       *)
CaughtUp == <>[](pc = "idle" => \A p \in registered : idx[p] = BufLen)
=============================================================================
