-------------------------- MODULE DropOldestQueue --------------------------
(* What utils/packet_ring.h promises its two users: a queue of at most       *)
(* Limit packets.  The producer appends; when the queue is full it first     *)
(* discards the oldest packet and counts it.  The consumer takes packets     *)
(* from the front, and an empty queue gives it nothing.  The two may want    *)
(* the same packet at once: it is then counted as discarded and delivered.   *)
EXTENDS Naturals, Sequences

CONSTANTS Limit,      \* packets the queue holds
          MaxPush     \* bound: packets 1 .. MaxPush are pushed, in that order

VARIABLES queue,      \* the packets waiting, oldest first
          pushed,     \* number of packets pushed so far
          discarded,  \* number of packets counted as discarded on overflow
          delivered   \* the packets the consumer received, in order

vars == <<queue, pushed, discarded, delivered>>

Init == /\ queue = <<>>
        /\ pushed = 0
        /\ discarded = 0
        /\ delivered = <<>>

Discard == /\ Len(queue) = Limit
           /\ queue' = Tail(queue)
           /\ discarded' = discarded + 1
           /\ UNCHANGED <<pushed, delivered>>

Push == /\ Len(queue) < Limit
        /\ pushed < MaxPush
        /\ queue' = Append(queue, pushed + 1)
        /\ pushed' = pushed + 1
        /\ UNCHANGED <<discarded, delivered>>

Pop == /\ queue # <<>>
       /\ delivered' = Append(delivered, Head(queue))
       /\ queue' = Tail(queue)
       /\ UNCHANGED <<pushed, discarded>>

(* The packet that left the queue last: those in it are the last ones pushed.*)
LastOut == pushed - Len(queue)

(* The packet discarded last was being popped.                               *)
PopDiscarded == /\ LastOut > 0 /\ \A i \in DOMAIN delivered : delivered[i] < LastOut
                /\ delivered' = Append(delivered, LastOut)
                /\ UNCHANGED <<queue, pushed, discarded>>

(* The packet to be discarded has just been popped, which makes the room.    *)
DiscardPopped == /\ Len(queue) = Limit - 1
                 /\ delivered # <<>> /\ delivered[Len(delivered)] = LastOut
                 /\ discarded' = discarded + 1
                 /\ UNCHANGED <<queue, pushed, delivered>>

Next == Discard \/ Push \/ Pop \/ PopDiscarded \/ DiscardPopped

Spec == Init /\ [][Next]_vars
=============================================================================
