----------------------------- MODULE PacketRing -----------------------------
(* utils/packet_ring.h: the ring between the timeshift thread, which pushes  *)
(* every packet it dispatches, and a sink mixer thread, which pops them.     *)
(* Each load and store of the two indices and each access to a slot is a     *)
(* step of its own, so that push and pop interleave as two threads do.       *)
EXTENDS Naturals, Sequences

CONSTANTS Capacity,   \* slots, two at least; one of them is always the sentinel
          MaxPush     \* bound: the producer pushes the packets 1 .. MaxPush

Index    == 0 .. Capacity - 1
Packet   == 1 .. MaxPush
NoPacket == 0           \* a default-constructed or moved-from element
SuccNoWrap(i) == i + 1                                            \* mutant
Succ(i)  == (i + 1) % Capacity

RingAssumption == Capacity \in Nat /\ Capacity >= 2 /\ MaxPush \in Nat

VARIABLES head, tail, drop_count, buffer,   \* the members of the ring
          pcP, pHead, pTail,                \* emplace(): step and locals
          pcC, cHead, cOut,                 \* pop(): step and locals
          pushed, delivered,                \* history: pushes and pops finished
          gone, pGone, cGone,               \* history: head_ and the two local copies of it,
                                            \* counted without wrapping
          lapped                            \* history: has head_ moved on twice while a
                                            \* thread was about to store the next of its copy?

producer == <<pcP, pHead, pTail, pGone>>
consumer == <<pcC, cHead, cOut, cGone>>
vars == <<head, tail, drop_count, buffer, producer, consumer, pushed, delivered, gone, lapped>>

Init == /\ head = 0 /\ tail = 0 /\ drop_count = 0
        /\ buffer = [i \in Index |-> NoPacket]
        /\ pcP = "idle" /\ pHead = 0 /\ pTail = 0 /\ pGone = 0
        /\ pcC = "idle" /\ cHead = 0 /\ cOut = NoPacket /\ cGone = 0
        /\ pushed = 0 /\ delivered = <<>> /\ gone = 0 /\ lapped = FALSE

(* A pop, or a push about to drop, whose copy of head_ is two behind.        *)
Behind == (pcC # "idle" /\ gone > cGone + 1) \/ (pcP = "drop" /\ gone > pGone + 1)

-----------------------------------------------------------------------------
(* The producer: emplace().                                                  *)

Full == Succ(tail) = head

PushLoad ==
  /\ pcP = "idle" /\ pushed < MaxPush
  /\ pHead' = head /\ pTail' = tail /\ pGone' = gone
  /\ pcP' = IF Full THEN "drop" ELSE "write"
  /\ UNCHANGED <<head, tail, drop_count, buffer, consumer, pushed, delivered, gone, lapped>>

PushDropAll ==                                                    \* mutant
  /\ pcP = "drop"
  /\ head' = pTail /\ gone' = pGone + 1
  /\ drop_count' = drop_count + 1
  /\ pcP' = "write"
  /\ UNCHANGED <<tail, buffer, pHead, pTail, pGone, consumer, pushed, delivered>>
  /\ lapped' = (lapped \/ Behind')

PushDropOldest ==
  /\ pcP = "drop"
  /\ head' = Succ(pHead) /\ gone' = pGone + 1
  /\ drop_count' = drop_count + 1
  /\ pcP' = "write"
  /\ UNCHANGED <<tail, buffer, pHead, pTail, pGone, consumer, pushed, delivered>>
  /\ lapped' = (lapped \/ Behind')

PushWrite ==
  /\ pcP = "write"
  /\ buffer' = [buffer EXCEPT ![pTail] = pushed + 1]
  /\ pcP' = "publish"
  /\ UNCHANGED <<head, tail, drop_count, pHead, pTail, pGone, consumer, pushed, delivered, gone, lapped>>

PushPublish ==
  /\ pcP = "publish"
  /\ tail' = Succ(pTail)
  /\ pushed' = pushed + 1
  /\ pcP' = "idle"
  /\ UNCHANGED <<head, drop_count, buffer, pHead, pTail, pGone, consumer, delivered, gone, lapped>>

-----------------------------------------------------------------------------
(* The consumer: pop().                                                      *)

Empty == cHead = tail

PopLoadHead ==
  /\ pcC = "idle"
  /\ cHead' = head /\ cGone' = gone
  /\ pcC' = "test"
  /\ UNCHANGED <<head, tail, drop_count, buffer, producer, cOut, pushed, delivered, gone, lapped>>

PopTest ==
  /\ pcC = "test"
  /\ pcC' = IF Empty THEN "idle" ELSE "read"
  /\ UNCHANGED <<head, tail, drop_count, buffer, producer, cHead, cOut, cGone, pushed, delivered,
                 gone, lapped>>

PopRead ==
  /\ pcC = "read"
  /\ cOut' = buffer[cHead]
  /\ buffer' = [buffer EXCEPT ![cHead] = NoPacket]
  /\ pcC' = "advance"
  /\ UNCHANGED <<head, tail, drop_count, producer, cHead, cGone, pushed, delivered, gone, lapped>>

PopAdvance ==
  /\ pcC = "advance"
  /\ head' = Succ(cHead) /\ gone' = cGone + 1
  /\ delivered' = Append(delivered, cOut)
  /\ pcC' = "idle"
  /\ UNCHANGED <<tail, drop_count, buffer, producer, cHead, cOut, cGone, pushed>>
  /\ lapped' = (lapped \/ Behind')

Emplace == PushLoad \/ PushDropOldest \/ PushWrite \/ PushPublish
Pop     == PopLoadHead \/ PopTest \/ PopRead \/ PopAdvance
Next    == Emplace \/ Pop

Spec == Init /\ [][Next]_vars

-----------------------------------------------------------------------------
Size == IF tail >= head THEN tail - head ELSE Capacity - head + tail

TypeOK == /\ head \in Index /\ tail \in Index /\ drop_count \in 0 .. MaxPush
          /\ buffer \in [Index -> Packet \cup {NoPacket}]
          /\ pcP \in {"idle", "drop", "write", "publish"}
          /\ pHead \in Index /\ pTail \in Index
          /\ pcC \in {"idle", "test", "read", "advance"}
          /\ cHead \in Index /\ cOut \in Packet \cup {NoPacket}
          /\ pushed \in 0 .. MaxPush
          /\ delivered \in Seq(Packet \cup {NoPacket})
          /\ {gone, pGone, cGone} \subseteq Nat /\ lapped \in BOOLEAN

(* The two threads never touch the same slot at once: the element is not     *)
(* atomic, so a pop that moves it out while emplace assigns it is undefined. *)
NoSlotRace == ~(pcP = "write" /\ pcC = "read" /\ pTail = cHead)

(* "drop-oldest": what the consumer receives is in the order of the pushes,  *)
(* no packet twice and never an element that was moved out already.          *)
DeliveredInOrder ==
  /\ \A i \in DOMAIN delivered : delivered[i] # NoPacket
  /\ \A i, j \in DOMAIN delivered : i < j => delivered[i] < delivered[j]

(* The packets between head_ and tail_, the one a pop has moved out but not  *)
(* yet stepped over included.                                                *)
Content == [k \in 1 .. Size |->
              LET i == (head + k - 1) % Capacity
              IN  IF pcC = "advance" /\ i = cHead THEN cOut ELSE buffer[i]]

Queue == INSTANCE DropOldestQueue
           WITH Limit <- Capacity - 1, queue <- Content, discarded <- drop_count

(* The ring implements the queue its comment promises, a packet that is      *)
(* dropped while it is popped included, until one thread has moved head_ on  *)
(* twice under the other (see PacketRing_overlap.cfg for what comes then).   *)
RingIsQueue == Queue!Init /\ [][lapped' \/ Queue!Next]_(Queue!vars)
=============================================================================
