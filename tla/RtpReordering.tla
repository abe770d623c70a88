---------------------------- MODULE RtpReordering ----------------------------
(* receivers/rtp/rtp_reordering_buffer.cpp: packets of one RTP stream come   *)
(* in any order, some twice, some never, with sequence numbers that wrap;    *)
(* the buffer hands them on in order and waits max_delay for a missing one.  *)
(* The receiver thread adds a packet and then asks for what is ready; it     *)
(* also asks when no packet has come for a while.                            *)
(*                                                                           *)
(* A packet has a position in the stream, of which the code sees only the    *)
(* remainder modulo 2^16.  position is the one m_next_expected_seq stands    *)
(* for; a packet half the sequence space off is one the code cannot place,   *)
(* and the network delivers none.                                            *)
EXTENDS Integers, Sequences, FiniteSets, Functions

CONSTANTS Modulus,     \* 2^16
          MaxSize,     \* m_max_size
          MaxDelay,    \* m_max_delay, in ticks
          LargeGap,    \* kLargeGapResetThreshold
          First,       \* positions a stream may start at
          Last,        \* bound: the last position sent
          MaxArrivals, \* bound: packets delivered
          MaxResets    \* bound: calls of reset

Half == Modulus \div 2

ASSUME ReorderingAssumption ==
  /\ {Modulus, MaxSize, MaxDelay, LargeGap, Last, MaxArrivals, MaxResets} \subseteq Nat
  /\ First \subseteq Nat
  /\ Half > 0 /\ Modulus = 2 * Half /\ MaxSize > 0 /\ LargeGap > 0

VARIABLES initialized,  \* m_is_initialized
          next,         \* m_next_expected_seq
          buffer,       \* m_buffer: sequence number -> position and age of the packet
          hasLast,      \* m_last_released_packet has a value
          pc,           \* "idle", or "ready" inside get_ready_packets
          position,     \* the position next stands for
          out,          \* what was handed on since the stream began
          arrived, late, overflowed,  \* positions delivered; of these, discarded
          arrivals, resets

stream == <<initialized, next, position>>
fate   == <<arrived, late, overflowed>>
vars   == <<stream, buffer, hasLast, pc, out, fate, arrivals, resets>>

Empty == [s \in {} |-> 0]

Init == /\ initialized = FALSE /\ next = 0 /\ position = 0
        /\ buffer = Empty /\ hasLast = FALSE /\ pc = "idle" /\ out = <<>>
        /\ arrived = {} /\ late = {} /\ overflowed = {}
        /\ arrivals = 0 /\ resets = 0

(* How far a sequence number is ahead of the expected one; the upper half of *)
(* the range stands for behind (is_sequence_greater).                        *)
DeltaUnwrapped(s) == s - next                                    \* mutant
Delta(s) == (s - next) % Modulus
Behind(s) == Delta(s) >= Half

Held     == DOMAIN buffer
Farthest == CHOOSE s \in Held : \A t \in Held : Delta(t) <= Delta(s)
Nearest  == CHOOSE s \in Held : \A t \in Held : Delta(s) <= Delta(t)

-----------------------------------------------------------------------------
(* add_packet                                                                *)

(* The first packet, and a packet far ahead of an empty buffer, set the      *)
(* expectation.                                                              *)
JumpsAnyway(s) == ~initialized \/ (Delta(s) >= LargeGap /\ ~Behind(s))      \* mutant
Jumps(s) == ~initialized \/ (Held = {} /\ Delta(s) >= LargeGap /\ ~Behind(s))

Expect(n) ==
  LET s == n % Modulus
  IN  /\ initialized' = TRUE
      /\ next' = IF Jumps(s) THEN s ELSE next
      /\ position' = IF Jumps(s) THEN n ELSE position

Arrive(n) ==
  /\ pc = "idle" /\ pc' = "ready" /\ arrivals < MaxArrivals
  /\ IF initialized THEN n \in position - Half .. position + Half - 1 ELSE n \in First
  /\ arrivals' = arrivals + 1 /\ arrived' = arrived \cup {n}
  /\ Expect(n)
  /\ UNCHANGED <<hasLast, out, resets>>

Packet(n) == [id |-> n, age |-> 0]
Without(s) == Restrict(buffer, Held \ {s})
With(f, s, x) == [t \in DOMAIN f \cup {s} |-> IF t = s THEN x ELSE f[t]]

DiscardLate(n) ==
  /\ Arrive(n) /\ ~Jumps(n % Modulus) /\ Behind(n % Modulus)
  /\ late' = late \cup {n}
  /\ UNCHANGED <<buffer, overflowed>>

Fresh(s) == Jumps(s) \/ ~Behind(s)

DiscardDuplicate(n) ==
  /\ Arrive(n) /\ Fresh(n % Modulus) /\ n % Modulus \in Held
  /\ UNCHANGED <<buffer, late, overflowed>>

FullOffByOne == Cardinality(Held) > MaxSize                      \* mutant
Full == Cardinality(Held) >= MaxSize

Store(n) ==
  /\ Arrive(n) /\ Fresh(n % Modulus) /\ n % Modulus \notin Held /\ ~Full
  /\ buffer' = With(buffer, n % Modulus, Packet(n))
  /\ UNCHANGED <<late, overflowed>>

(* Of a full buffer and a new packet the farthest goes.  (No packet held is  *)
(* behind the expectation, see NoneBehind, so the code's search for one that *)
(* is comes to the same.)                                                    *)
Overflow(n) ==
  LET s == n % Modulus
  IN  /\ Arrive(n) /\ Fresh(s) /\ s \notin Held /\ Full
      /\ IF Delta(s) > Delta(Farthest)
         THEN /\ overflowed' = overflowed \cup {n}
              /\ UNCHANGED buffer
         ELSE /\ overflowed' = overflowed \cup {buffer[Farthest].id}
              /\ buffer' = With(Without(Farthest), s, Packet(n))
      /\ UNCHANGED late

-----------------------------------------------------------------------------
(* get_ready_packets, one action per round of its loop.  A round discards    *)
(* what has fallen behind before it looks for the nearest packet.            *)
Poll == /\ pc = "idle" /\ initialized
        /\ pc' = "ready"
        /\ UNCHANGED <<stream, buffer, hasLast, out, fate, arrivals, resets>>

Advance(s) == /\ next' = s % Modulus
              /\ position' = position + Delta(s % Modulus)
              /\ UNCHANGED <<initialized, pc, fate, arrivals, resets>>

Released(n) == [id |-> n, filler |-> FALSE]
Filler(n)   == [id |-> n, filler |-> TRUE]

Release ==
  /\ pc = "ready" /\ next \in Held
  /\ out' = Append(out, Released(buffer[next].id)) /\ hasLast' = TRUE
  /\ buffer' = Without(next)
  /\ Advance(next + 1)

Ahead == {s \in Held : ~Behind(s)}
ExpiredLater == buffer[Nearest].age > MaxDelay                   \* mutant
Expired == buffer[Nearest].age >= MaxDelay

(* The packets missing before the nearest one are given up, or made up from  *)
(* the last packet and the nearest when both have the same, whole format.    *)
Fillers(k) == [i \in 1 .. k |-> Filler(position + i - 1)]
SkipFarthest ==                                                  \* mutant
  /\ pc = "ready" /\ next \notin Held /\ Ahead # {} /\ Expired
  /\ \/ hasLast /\ out' = out \o Fillers(Delta(Farthest))
     \/ UNCHANGED out
  /\ Advance(Farthest)
  /\ UNCHANGED <<buffer, hasLast>>
Skip ==
  /\ pc = "ready" /\ next \notin Held /\ Ahead # {} /\ Expired
  /\ \/ hasLast /\ out' = out \o Fillers(Delta(Nearest))
     \/ UNCHANGED out
  /\ buffer' = Restrict(buffer, Ahead)
  /\ Advance(Nearest)
  /\ UNCHANGED hasLast

Done ==
  /\ pc = "ready" /\ next \notin Held /\ (Ahead # {} => ~Expired)
  /\ buffer' = Restrict(buffer, Ahead)
  /\ pc' = "idle"
  /\ UNCHANGED <<stream, hasLast, out, fate, arrivals, resets>>

-----------------------------------------------------------------------------
(* The stream changed its SSRC.                                              *)
Reset ==
  /\ pc = "idle" /\ initialized /\ resets < MaxResets
  /\ resets' = resets + 1
  /\ initialized' = FALSE /\ next' = 0 /\ position' = 0
  /\ buffer' = Empty /\ hasLast' = FALSE /\ out' = <<>>
  /\ arrived' = {} /\ late' = {} /\ overflowed' = {}
  /\ UNCHANGED <<pc, arrivals>>

Tick == /\ pc = "idle" /\ \E s \in Held : buffer[s].age < MaxDelay
        /\ buffer' = [s \in Held |-> [buffer[s] EXCEPT !.age = IF @ < MaxDelay THEN @ + 1 ELSE @]]
        /\ UNCHANGED <<stream, hasLast, pc, out, fate, arrivals, resets>>

GetReady == Release \/ Skip \/ Done

Next == \/ \E n \in 0 .. Last : DiscardLate(n) \/ DiscardDuplicate(n) \/ Store(n) \/ Overflow(n)
        \/ GetReady \/ Poll \/ Reset \/ Tick

Spec == Init /\ [][Next]_vars

(* A receiver none of whose streams has a packet polls them all; MaxArrivals *)
(* makes it fall quiet.  Time passes between the polls, however many.        *)
FairSpec == Spec /\ WF_vars(GetReady) /\ WF_vars(Poll) /\ SF_vars(Tick)

-----------------------------------------------------------------------------
Ids == {buffer[s].id : s \in Held}
OutIds == {out[i].id : i \in DOMAIN out}

TypeOK == /\ initialized \in BOOLEAN /\ hasLast \in BOOLEAN /\ pc \in {"idle", "ready"}
          /\ next \in 0 .. Modulus - 1 /\ position \in Nat
          /\ Held \subseteq 0 .. Modulus - 1 /\ Cardinality(Held) <= MaxSize
          /\ \A s \in Held : buffer[s] \in [id : Nat, age : 0 .. MaxDelay]
          /\ out \in Seq([id : Nat, filler : BOOLEAN])
          /\ {arrived, late, overflowed} \subseteq SUBSET Nat
          /\ {arrivals, resets} \subseteq Nat

(* The comparison modulo 2^16 never takes an old packet for a new one: what  *)
(* is held lies at or after the expected position, in the half of the range  *)
(* the code takes for ahead, under its own sequence number.                  *)
NoneBehind ==
  /\ next = position % Modulus
  /\ \A s \in Held : /\ s = buffer[s].id % Modulus
                     /\ buffer[s].id \in position .. position + Half - 1

(* Packets are handed on in the order of the stream, each position once,     *)
(* whether the packet came in time or was made up; everything handed on lies *)
(* before the expected position.                                             *)
InOrder == /\ \A i, j \in DOMAIN out : i < j => out[i].id < out[j].id
           /\ \A i \in DOMAIN out : out[i].id < position

(* No packet disappears: each that arrived is held, was handed on, was late  *)
(* (and then its position has passed) or was dropped by a full buffer.       *)
NoSilentLoss ==
  /\ arrived \subseteq Ids \cup OutIds \cup late \cup overflowed
  /\ \A n \in late : n < position

(* A packet is given up only to a full buffer or for being late: what is     *)
(* made up in its place is never a packet that was there in time.            *)
MadeUpWasMissing ==
  \A i \in DOMAIN out : out[i].filler /\ out[i].id \in arrived => out[i].id \in late \cup overflowed

(* When the stream falls silent everything held is handed on.                *)
Flushed == <>[](Held = {})
=============================================================================
