-------------------------- MODULE PacketRingProofs --------------------------
(* Until one thread has moved head_ on twice while the other had a copy of   *)
(* it in hand, the ring is the queue its comment promises, whatever else     *)
(* happens in the middle of a push or a pop: it implements DropOldestQueue,  *)
(* the two threads never touch one slot at once, and what is popped comes in *)
(* the order of the pushes, for every capacity.                              *)
EXTENDS PacketRing, SequenceTheorems, TLAPS

(* What holds even of a ring that was lapped.                                *)
Dropping == /\ drop_count <= IF pcP \in {"write", "publish"} THEN pushed + 1 ELSE pushed
            /\ pcP # "idle" => pushed < MaxPush
Kept     == TypeOK /\ Dropping

(* The indices are two counts modulo the capacity.                           *)
Places == /\ head = gone % Capacity /\ tail = pushed % Capacity
          /\ gone <= pushed /\ pushed < gone + Capacity

(* Every packet in the ring is in its slot, but for the one a pop has moved  *)
(* out and not yet stepped over; so is the one a pop is about to move out,   *)
(* even when it was dropped meanwhile.                                       *)
Stored == /\ \A k \in gone .. pushed - 1 :
               (pcC = "advance" /\ k = cGone) \/ buffer[k % Capacity] = k + 1
          /\ pcC \in {"test", "read"} /\ cGone < pushed => buffer[cGone % Capacity] = cGone + 1
          /\ pcC = "advance" => cOut = cGone + 1
          /\ pcP = "publish" => buffer[tail] = pushed + 1

(* The locals of a push: a pop can have moved head_ on, past the very packet *)
(* that the push is about to drop.                                           *)
Pushing == /\ pcP # "idle" => pTail = tail
           /\ pcP = "drop" => /\ pHead = pGone % Capacity /\ pushed + 1 = pGone + Capacity
                              /\ gone \in {pGone, pGone + 1}
           /\ pcP = "drop" /\ gone = pGone + 1 =>
                delivered # <<>> /\ delivered[Len(delivered)] = gone
           /\ pcP \in {"write", "publish"} => pushed + 1 < gone + Capacity

(* The locals of a pop: a push can have dropped the packet it is about.      *)
Popping == /\ pcC # "idle" => /\ cHead = cGone % Capacity /\ gone \in {cGone, cGone + 1}
                              /\ \A i \in DOMAIN delivered : delivered[i] <= cGone
           /\ pcC \in {"read", "advance"} => cGone < pushed

Ordered == /\ \A i \in DOMAIN delivered : delivered[i] \in 1 .. gone
           /\ \A i, j \in DOMAIN delivered : i < j => delivered[i] < delivered[j]

Unlapped == Places /\ Stored /\ Pushing /\ Popping /\ Ordered

RInv == Kept /\ (lapped \/ Unlapped)

-----------------------------------------------------------------------------
(* Arithmetic modulo the capacity.                                           *)

LEMMA Multiple ==
  ASSUME NEW M \in Nat, M > 0, NEW k \in Int, k * M < M, -M < k * M
  PROVE  k = 0
  <1>1. k >= 1 => k * M >= M
      OBVIOUS
  <1>2. k <= -1 => k * M <= -M
      OBVIOUS
  <1> QED
      BY <1>1, <1>2

LEMMA Divided ==
  ASSUME NEW M \in Nat, M > 0, NEW a \in Int
  PROVE  a % M \in 0 .. M - 1 /\ a \div M \in Int /\ a = (a \div M) * M + (a % M)
  OBVIOUS

LEMMA Remainder ==
  ASSUME NEW M \in Nat, M > 0, NEW a \in Int, NEW q \in Int, NEW r \in 0 .. M - 1, a = q * M + r
  PROVE  a % M = r
  <1> DEFINE d == a \div M
  <1>1. d \in Int /\ a % M \in 0 .. M - 1 /\ a = d * M + (a % M)
      BY Divided
  <1> HIDE DEF d
  <1>2. (q - d) * M = (a % M) - r
      BY <1>1
  <1>3. q - d = 0
      BY <1>1, <1>2, Multiple
  <1> QED
      BY <1>1, <1>3

(* A step from a slot is a step from any number that lies there.             *)
LEMMA Shifted ==
  ASSUME NEW M \in Nat, M > 0, NEW a \in Int, NEW b \in Int
  PROVE  ((a % M) + b) % M = (a + b) % M
  <1> DEFINE d == a \div M
             c == (a % M) + b
             e == c \div M
             r == c % M
  <1>1. d \in Int /\ a % M \in 0 .. M - 1 /\ a = d * M + (a % M)
      BY Divided
  <1>2. c \in Int /\ c = (a % M) + b
      BY <1>1
  <1>3. e \in Int /\ r \in 0 .. M - 1 /\ c = e * M + r
      BY <1>2, Divided
  <1> HIDE DEF c, d, e, r
  <1>4. a + b = (d + e) * M + r /\ a + b \in Int /\ d + e \in Int
      BY <1>1, <1>2, <1>3
  <1>5. (a + b) % M = r
      BY <1>1, <1>3, <1>4, Remainder
  <1> QED
      BY <1>2, <1>5 DEF r

(* Two numbers less than a turn apart lie in slots of their own; the         *)
(* distance of the slots is theirs.                                          *)
LEMMA Distance ==
  ASSUME NEW M \in Nat, M > 0, NEW a \in Int, NEW b \in Int, a <= b, b < a + M
  PROVE  /\ (a % M = b % M) => a = b
         /\ (IF b % M >= a % M THEN (b % M) - (a % M) ELSE M - (a % M) + (b % M)) = b - a
  <1> DEFINE p == a \div M
             q == b \div M
             d == (b % M) - (a % M)
  <1>1. p \in Int /\ a % M \in 0 .. M - 1 /\ a = p * M + (a % M)
      BY Divided
  <1>2. q \in Int /\ b % M \in 0 .. M - 1 /\ b = q * M + (b % M)
      BY Divided
  <1>3. d = (b % M) - (a % M) /\ d \in Int
      BY <1>1, <1>2
  <1> HIDE DEF p, q, d
  <1>4. (q - p) * M = (b - a) - d
      BY <1>1, <1>2, <1>3
  <1>5. CASE d >= 0
    <2>1. (q - p) * M < M /\ -M < (q - p) * M
        BY <1>1, <1>2, <1>3, <1>4, <1>5
    <2>2. q - p = 0
        BY <1>1, <1>2, <2>1, Multiple
    <2>3. b - a = d
        BY <1>3, <1>4, <2>2
    <2> QED
        BY <1>1, <1>2, <1>3, <1>5, <2>3
  <1>6. CASE d < 0
    <2>1. (q - p - 1) * M = (q - p) * M - M
        BY <1>1, <1>2
    <2>2. (q - p - 1) * M < M /\ -M < (q - p - 1) * M
        BY <1>1, <1>2, <1>3, <1>4, <1>6, <2>1
    <2>3. q - p - 1 = 0
        BY <1>1, <1>2, <2>2, Multiple
    <2>4. b - a = M + d
        BY <1>1, <1>2, <1>3, <1>4, <2>1, <2>3
    <2> QED
        BY <1>1, <1>2, <1>3, <1>6, <2>4
  <1> QED
      BY <1>3, <1>5, <1>6

-----------------------------------------------------------------------------
LEMMA Counts ==
  ASSUME RingAssumption, Kept
  PROVE  /\ Capacity \in Nat /\ Capacity >= 2 /\ MaxPush \in Nat
         /\ drop_count \in Nat /\ pushed \in Nat /\ pushed <= MaxPush
         /\ gone \in Nat /\ pGone \in Nat /\ cGone \in Nat
         /\ delivered \in Seq(Packet \cup {NoPacket}) /\ Len(delivered) \in Nat
         /\ DOMAIN delivered = 1 .. Len(delivered)
  <1>1. /\ Capacity \in Nat /\ Capacity >= 2 /\ MaxPush \in Nat
        /\ drop_count \in Nat /\ pushed \in Nat /\ pushed <= MaxPush
        /\ gone \in Nat /\ pGone \in Nat /\ cGone \in Nat
        /\ delivered \in Seq(Packet \cup {NoPacket})
      BY DEF RingAssumption, Kept, TypeOK
  <1>2. Len(delivered) \in Nat /\ DOMAIN delivered = 1 .. Len(delivered)
      BY <1>1, LenProperties
  <1> QED
      BY <1>1, <1>2

(* Slots of their own, and the step from one to the next.                    *)
LEMMA Slots ==
  ASSUME RingAssumption
  PROVE  /\ \A k, l \in Nat : k <= l /\ l < k + Capacity /\ k % Capacity = l % Capacity => k = l
         /\ \A k \in Nat : Succ(k % Capacity) = (k + 1) % Capacity /\ k % Capacity \in Index
         /\ \A i \in Index : Succ(i) \in Index
  <1>1. Capacity \in Nat /\ Capacity > 0
      BY DEF RingAssumption
  <1>2. ASSUME NEW k \in Nat, NEW l \in Nat, k <= l, l < k + Capacity, k % Capacity = l % Capacity
        PROVE  k = l
    <2>1. k \in Int /\ l \in Int
        OBVIOUS
    <2> QED
        BY <1>1, <1>2, <2>1, Distance
  <1>3. ASSUME NEW k \in Nat PROVE Succ(k % Capacity) = (k + 1) % Capacity /\ k % Capacity \in Index
    <2>1. k \in Int /\ 1 \in Int
        OBVIOUS
    <2>2. Succ(k % Capacity) = (k + 1) % Capacity
        BY <1>1, <2>1, Shifted DEF Succ
    <2>3. k % Capacity \in Index
        BY <1>1, <2>1, Divided DEF Index
    <2> QED
        BY <2>2, <2>3
  <1>4. ASSUME NEW i \in Index PROVE Succ(i) \in Index
    <2>1. i + 1 \in Int
        BY <1>1 DEF Index
    <2> QED
        BY <1>1, <2>1, Divided DEF Succ, Index
  <1> QED
      BY <1>2, <1>3, <1>4

(* The ring is full when the slot after the last packet is the only free one;*)
(* the distance of the indices is the number of packets.                     *)
LEMMA Fills ==
  ASSUME RingAssumption, Kept, Places
  PROVE  /\ Succ(tail) = head <=> pushed + 1 = gone + Capacity
         /\ Size = pushed - gone
  <1>1. /\ Capacity \in Nat /\ Capacity > 0 /\ gone \in Int /\ pushed \in Int
        /\ head = gone % Capacity /\ tail = pushed % Capacity
        /\ gone <= pushed /\ pushed < gone + Capacity
      BY Counts DEF Places
  <1>2. Succ(tail) = (pushed + 1) % Capacity
      BY <1>1, Slots, Counts
  <1>3. ASSUME pushed + 1 = gone + Capacity PROVE (pushed + 1) % Capacity = gone % Capacity
    <2> DEFINE q == gone \div Capacity
               r == gone % Capacity
    <2>1. q \in Int /\ r \in 0 .. Capacity - 1 /\ gone = q * Capacity + r
        BY <1>1, Divided
    <2> HIDE DEF q, r
    <2>2. pushed + 1 = (q + 1) * Capacity + r
        BY <1>1, <1>3, <2>1
    <2>3. (pushed + 1) % Capacity = r
        BY <1>1, <2>1, <2>2, Remainder
    <2> QED
        BY <2>3 DEF r
  <1>4. ASSUME pushed + 1 # gone + Capacity, (pushed + 1) % Capacity = gone % Capacity
        PROVE  FALSE
    <2>1. pushed + 1 \in Int /\ gone <= pushed + 1 /\ pushed + 1 < gone + Capacity
        BY <1>1, <1>4
    <2>2. gone = pushed + 1
        BY <1>1, <1>4, <2>1, Distance
    <2> QED
        BY <1>1, <2>2
  <1>5. Size = pushed - gone
      BY <1>1, Distance DEF Size
  <1> QED
      BY <1>1, <1>2, <1>3, <1>4, <1>5

(* The slot a pop has in hand is that of no other packet in the ring.        *)
LEMMA InHand ==
  ASSUME RingAssumption, Kept, Unlapped, pcC # "idle"
  PROVE  /\ cHead = cGone % Capacity /\ cGone <= gone /\ cGone <= pushed
         /\ \A k \in gone .. pushed :
              k < cGone + Capacity /\ k % Capacity = cGone % Capacity => k = cGone
         /\ pushed <= cGone + Capacity
         /\ pcP \in {"write", "publish"} => pushed < cGone + Capacity
  <1>1. /\ cHead = cGone % Capacity /\ gone \in {cGone, cGone + 1}
        /\ gone <= pushed /\ pushed < gone + Capacity
        /\ pcP \in {"write", "publish"} => pushed + 1 < gone + Capacity
      BY DEF Unlapped, Popping, Places, Pushing
  <1>2. ASSUME NEW k \in gone .. pushed, k < cGone + Capacity, k % Capacity = cGone % Capacity
        PROVE  k = cGone
    <2>1. k \in Nat /\ cGone \in Nat /\ cGone <= k
        BY <1>1, <1>2, Counts
    <2> QED
        BY <1>2, <2>1, Slots
  <1> QED
      BY <1>1, <1>2, Counts

-----------------------------------------------------------------------------
LEMMA RInit == ASSUME RingAssumption, Init PROVE Kept /\ Unlapped
  <1>1. /\ Capacity \in Nat /\ Capacity >= 2 /\ MaxPush \in Nat
        /\ head = 0 /\ tail = 0 /\ drop_count = 0 /\ buffer = [i \in Index |-> NoPacket]
        /\ pcP = "idle" /\ pHead = 0 /\ pTail = 0 /\ pcC = "idle" /\ cHead = 0 /\ cOut = NoPacket
        /\ pushed = 0 /\ delivered = <<>> /\ gone = 0 /\ pGone = 0 /\ cGone = 0 /\ lapped = FALSE
      BY DEF Init, RingAssumption
  <1>2. Len(delivered) = 0 /\ DOMAIN delivered = {}
      BY <1>1
  <1>3. 0 % Capacity = 0
    <2>1. 0 \in Int /\ 0 \in 0 .. Capacity - 1 /\ 0 = 0 * Capacity + 0 /\ Capacity > 0
        BY <1>1
    <2> QED
        BY <1>1, <2>1, Remainder
  <1>4. Kept
    <2>1. /\ {head, tail, pHead, pTail, cHead} \subseteq Index /\ {drop_count, pushed} \subseteq 0 .. MaxPush
          /\ buffer \in [Index -> Packet \cup {NoPacket}]
        BY <1>1 DEF Index
    <2>2. delivered \in Seq(Packet \cup {NoPacket}) /\ {gone, pGone, cGone} \subseteq Nat
        BY <1>1
    <2>3. TypeOK
        BY <1>1, <2>1, <2>2 DEF TypeOK
    <2> QED
        BY <1>1, <2>3 DEF Kept, Dropping
  <1>5. Places
      BY <1>1, <1>3 DEF Places
  <1>6. Stored /\ Pushing /\ Popping /\ Ordered
      BY <1>1, <1>2 DEF Stored, Pushing, Popping, Ordered
  <1> QED
      BY <1>4, <1>5, <1>6 DEF Unlapped

(* The types, whatever the threads do to each other.                         *)
LEMMA KeptNext == ASSUME RingAssumption, Kept, [Next]_vars PROVE Kept'
  <1>1. /\ head \in Index /\ tail \in Index /\ drop_count \in 0 .. MaxPush
        /\ buffer \in [Index -> Packet \cup {NoPacket}]
        /\ pHead \in Index /\ pTail \in Index /\ cHead \in Index
        /\ cOut \in Packet \cup {NoPacket} /\ pushed \in 0 .. MaxPush
        /\ delivered \in Seq(Packet \cup {NoPacket}) /\ MaxPush \in Nat
        /\ \A i \in Index : Succ(i) \in Index
      BY Slots DEF Kept, TypeOK, RingAssumption
  <1>2. CASE Emplace
    <2>1. CASE PushLoad
        BY <1>1, <2>1 DEF PushLoad, consumer, Kept, TypeOK, Dropping
    <2>2. CASE PushDropOldest
      <3>1. head' \in Index /\ lapped' \in BOOLEAN /\ gone' \in Nat /\ drop_count' \in 0 .. MaxPush
          BY <1>1, <2>2 DEF PushDropOldest, Kept, TypeOK, Dropping
      <3> QED
          BY <1>1, <2>2, <3>1 DEF PushDropOldest, consumer, Kept, TypeOK, Dropping
    <2>3. CASE PushWrite
      <3>1. pushed + 1 \in Packet
          BY <1>1, <2>3 DEF PushWrite, Kept, Dropping, Packet
      <3>2. buffer' \in [Index -> Packet \cup {NoPacket}]
          BY <1>1, <2>3, <3>1 DEF PushWrite
      <3> QED
          BY <1>1, <2>3, <3>2 DEF PushWrite, consumer, Kept, TypeOK, Dropping
    <2>4. CASE PushPublish
        BY <1>1, <2>4 DEF PushPublish, consumer, Kept, TypeOK, Dropping
    <2> QED
        BY <1>2, <2>1, <2>2, <2>3, <2>4 DEF Emplace
  <1>3. CASE Pop
    <2>1. CASE PopLoadHead \/ PopTest
        BY <1>1, <2>1 DEF PopLoadHead, PopTest, producer, Kept, TypeOK, Dropping
    <2>2. CASE PopRead
      <3>1. cOut' \in Packet \cup {NoPacket} /\ buffer' \in [Index -> Packet \cup {NoPacket}]
          BY <1>1, <2>2 DEF PopRead
      <3> QED
          BY <1>1, <2>2, <3>1 DEF PopRead, producer, Kept, TypeOK, Dropping
    <2>3. CASE PopAdvance
      <3>1. delivered' \in Seq(Packet \cup {NoPacket})
          BY <1>1, <2>3, AppendProperties DEF PopAdvance
      <3>2. head' \in Index /\ lapped' \in BOOLEAN /\ gone' \in Nat
          BY <1>1, <2>3 DEF PopAdvance, Kept, TypeOK
      <3> QED
          BY <1>1, <2>3, <3>1, <3>2 DEF PopAdvance, producer, Kept, TypeOK, Dropping
    <2> QED
        BY <1>3, <2>1, <2>2, <2>3 DEF Pop
  <1>4. CASE UNCHANGED vars
      BY <1>4 DEF vars, producer, consumer, Kept, TypeOK, Dropping
  <1> QED
      BY <1>2, <1>3, <1>4 DEF Next

(* The steps that change neither count and no slot.                          *)
LEMMA RPushLoad == ASSUME RingAssumption, Kept, Unlapped, PushLoad PROVE Unlapped'
  <1>1. /\ pcP = "idle"
        /\ pHead' = head /\ pTail' = tail /\ pGone' = gone /\ pcP' = IF Full THEN "drop" ELSE "write"
        /\ UNCHANGED <<head, tail, buffer, pcC, cHead, cOut, cGone, pushed, delivered, gone>>
      BY DEF PushLoad, consumer
  <1>2. Full <=> pushed + 1 = gone + Capacity
      BY Fills DEF Full, Unlapped
  <1>3. Places' /\ Stored' /\ Popping' /\ Ordered'
      BY <1>1 DEF Unlapped, Places, Stored, Popping, Ordered
  <1>4. Pushing'
    <2>1. gone \in Nat /\ pushed \in Nat /\ Capacity \in Nat /\ pushed < gone + Capacity
          /\ head = gone % Capacity
        BY Counts DEF Unlapped, Places
    <2>2. CASE Full
        BY <1>1, <1>2, <2>1, <2>2 DEF Pushing
    <2>3. CASE ~Full
      <3>1. pushed + 1 < gone + Capacity
          BY <1>2, <2>1, <2>3
      <3> QED
          BY <1>1, <2>3, <3>1 DEF Pushing
    <2> QED
        BY <2>2, <2>3
  <1> QED
      BY <1>3, <1>4 DEF Unlapped

LEMMA RPushDropOldest ==
  ASSUME RingAssumption, Kept, Unlapped, PushDropOldest, ~lapped'
  PROVE  Unlapped'
  <1>1. /\ pcP = "drop" /\ head' = Succ(pHead) /\ gone' = pGone + 1 /\ pcP' = "write"
        /\ pcC # "idle" => ~(gone' > cGone + 1)
        /\ UNCHANGED <<tail, buffer, pHead, pTail, pGone, pcC, cHead, cOut, cGone, pushed, delivered>>
      BY DEF PushDropOldest, consumer, Behind
  <1>2. /\ pHead = pGone % Capacity /\ pTail = tail /\ pushed + 1 = pGone + Capacity
        /\ gone \in {pGone, pGone + 1}
      BY <1>1 DEF Unlapped, Pushing
  <1>3. gone' \in {gone, gone + 1} /\ gone <= gone' /\ gone' \in Nat
      BY <1>1, <1>2, Counts
  <1>4. Places'
    <2>1. head' = gone' % Capacity /\ tail' = pushed' % Capacity
        BY <1>1, <1>2, Slots, Counts DEF Unlapped, Places
    <2>2. gone' <= pushed' /\ pushed' < gone' + Capacity
        BY <1>1, <1>2, Counts
    <2> QED
        BY <2>1, <2>2 DEF Places
  <1>5. Stored'
    <2>1. \A k \in gone' .. pushed - 1 : k \in gone .. pushed - 1
        BY <1>3, Counts
    <2> QED
        BY <1>1, <2>1 DEF Unlapped, Stored
  <1>6. Pushing'
    <2>1. pTail' = tail' /\ pushed' + 1 < gone' + Capacity
        BY <1>1, <1>2, Counts
    <2>2. pcP' # "drop"
        BY <1>1
    <2> QED
        BY <2>1, <2>2 DEF Pushing
  <1>7. Popping'
    <2>1. pcC # "idle" => gone' \in {cGone, cGone + 1}
        BY <1>1, <1>3, Counts DEF Unlapped, Popping
    <2> QED
        BY <1>1, <2>1 DEF Unlapped, Popping
  <1>8. Ordered'
    <2>1. \A i \in DOMAIN delivered : delivered[i] \in 1 .. gone'
        BY <1>3, Counts DEF Unlapped, Ordered
    <2> QED
        BY <1>1, <2>1 DEF Unlapped, Ordered
  <1> QED
      BY <1>4, <1>5, <1>6, <1>7, <1>8 DEF Unlapped

LEMMA RPushWrite == ASSUME RingAssumption, Kept, Unlapped, PushWrite PROVE Unlapped'
  <1>1. /\ pcP = "write" /\ buffer' = [buffer EXCEPT ![pTail] = pushed + 1] /\ pcP' = "publish"
        /\ UNCHANGED <<head, tail, pHead, pTail, pGone, pcC, cHead, cOut, cGone, pushed, delivered, gone>>
      BY DEF PushWrite, consumer
  <1>2. /\ pTail = tail /\ tail = pushed % Capacity /\ pushed < gone + Capacity
        /\ tail \in Index /\ buffer \in [Index -> Packet \cup {NoPacket}]
      BY <1>1 DEF Unlapped, Pushing, Places, Kept, TypeOK
  <1>3. /\ buffer'[tail] = pushed + 1
        /\ \A i \in Index : i # tail => buffer'[i] = buffer[i]
      BY <1>1, <1>2
  <1>4. Stored'
    <2>1. ASSUME NEW k \in gone .. pushed - 1 PROVE buffer'[k % Capacity] = buffer[k % Capacity]
      <3>1. k \in Nat /\ k < pushed /\ pushed < k + Capacity
          BY <1>2, Counts
      <3>3. k % Capacity \in Index
          BY <3>1, Slots
      <3>2. k % Capacity # tail
          BY <1>2, <3>1, Slots, Counts
      <3> QED
          BY <1>3, <3>2, <3>3
    <2>2. ASSUME pcC # "idle", cGone < pushed
          PROVE  buffer'[cGone % Capacity] = buffer[cGone % Capacity]
      <3>1. cGone \in Nat /\ pushed < cGone + Capacity /\ cGone % Capacity \in Index
          BY <1>1, <2>2, InHand, Slots, Counts
      <3>2. cGone % Capacity # tail
          BY <1>2, <2>2, <3>1, Slots, Counts
      <3> QED
          BY <1>3, <3>1, <3>2
    <2> QED
        BY <1>1, <1>3, <2>1, <2>2 DEF Unlapped, Stored
  <1>5. Places' /\ Popping' /\ Ordered' /\ Pushing'
      BY <1>1 DEF Unlapped, Places, Popping, Ordered, Pushing
  <1> QED
      BY <1>4, <1>5 DEF Unlapped

LEMMA RPushPublish == ASSUME RingAssumption, Kept, Unlapped, PushPublish PROVE Unlapped'
  <1>1. /\ pcP = "publish" /\ tail' = Succ(pTail) /\ pushed' = pushed + 1 /\ pcP' = "idle"
        /\ UNCHANGED <<head, buffer, pHead, pTail, pGone, pcC, cHead, cOut, cGone, delivered, gone>>
      BY DEF PushPublish, consumer
  <1>2. /\ pTail = tail /\ tail = pushed % Capacity /\ pushed + 1 < gone + Capacity
        /\ buffer[pushed % Capacity] = pushed + 1
      BY <1>1 DEF Unlapped, Pushing, Places, Stored
  <1>3. Places'
    <2>1. tail' = pushed' % Capacity
        BY <1>1, <1>2, Slots, Counts
    <2>2. gone' <= pushed' /\ pushed' < gone' + Capacity
        BY <1>1, <1>2, Counts DEF Unlapped, Places
    <2> QED
        BY <1>1, <2>1, <2>2 DEF Unlapped, Places
  <1>4. Stored'
    <2>1. \A k \in gone .. pushed' - 1 : k = pushed \/ k \in gone .. pushed - 1
        BY <1>1, Counts
    <2>2. pcC # "idle" => cGone = pushed \/ cGone < pushed
        BY InHand, Counts
    <2> QED
        BY <1>1, <1>2, <2>1, <2>2 DEF Unlapped, Stored
  <1>5. Pushing' /\ Popping' /\ Ordered'
      BY <1>1, Counts DEF Unlapped, Pushing, Popping, Ordered
  <1> QED
      BY <1>3, <1>4, <1>5 DEF Unlapped

LEMMA RPopLoadHead == ASSUME RingAssumption, Kept, Unlapped, PopLoadHead PROVE Unlapped'
  <1>1. /\ pcC = "idle" /\ cHead' = head /\ cGone' = gone /\ pcC' = "test"
        /\ UNCHANGED <<head, tail, buffer, pcP, pHead, pTail, pGone, cOut, pushed, delivered, gone>>
      BY DEF PopLoadHead, producer
  <1>2. Places' /\ Ordered' /\ Pushing'
      BY <1>1 DEF Unlapped, Places, Ordered, Pushing
  <1>3. Stored'
    <2>1. gone < pushed => gone \in gone .. pushed - 1
        BY Counts
    <2> QED
        BY <1>1, <2>1 DEF Unlapped, Stored
  <1>4. Popping'
      BY <1>1, Counts DEF Unlapped, Places, Ordered, Popping
  <1> QED
      BY <1>2, <1>3, <1>4 DEF Unlapped

LEMMA RPopTest == ASSUME RingAssumption, Kept, Unlapped, PopTest PROVE Unlapped'
  <1>1. /\ pcC = "test" /\ pcC' = IF Empty THEN "idle" ELSE "read"
        /\ UNCHANGED <<head, tail, buffer, pcP, pHead, pTail, pGone, cHead, cOut, cGone, pushed, delivered, gone>>
      BY DEF PopTest, producer
  <1>2. ~Empty => cGone < pushed
    <2>1. cHead = cGone % Capacity /\ tail = pushed % Capacity /\ cGone <= pushed
        BY <1>1, InHand DEF Unlapped, Places
    <2> QED
        BY <2>1, Counts DEF Empty
  <1>3. Places' /\ Stored' /\ Popping' /\ Ordered' /\ Pushing'
      BY <1>1, <1>2 DEF Unlapped, Places, Stored, Popping, Ordered, Pushing
  <1> QED
      BY <1>3 DEF Unlapped

LEMMA RPopRead == ASSUME RingAssumption, Kept, Unlapped, PopRead PROVE Unlapped'
  <1>1. /\ pcC = "read" /\ cOut' = buffer[cHead]
        /\ buffer' = [buffer EXCEPT ![cHead] = NoPacket] /\ pcC' = "advance"
        /\ UNCHANGED <<head, tail, pcP, pHead, pTail, pGone, cHead, cGone, pushed, delivered, gone>>
      BY DEF PopRead, producer
  <1>2. /\ cHead = cGone % Capacity /\ cGone < pushed /\ tail = pushed % Capacity
        /\ cHead \in Index /\ tail \in Index /\ buffer \in [Index -> Packet \cup {NoPacket}]
      BY <1>1 DEF Unlapped, Popping, Places, Kept, TypeOK
  <1>3. \A i \in Index : i # cHead => buffer'[i] = buffer[i]
      BY <1>1, <1>2
  <1>4. Stored'
    <2>1. cOut' = cGone + 1
        BY <1>1, <1>2 DEF Unlapped, Stored
    <2>2. ASSUME NEW k \in gone .. pushed - 1, k # cGone PROVE buffer'[k % Capacity] = buffer[k % Capacity]
      <3>1. k \in Nat /\ k \in gone .. pushed /\ k < pushed
          BY <2>2, Counts
      <3>3. k < cGone + Capacity
          BY <1>1, <3>1, InHand, Counts
      <3>4. k % Capacity \in Index
          BY <3>1, Slots
      <3>2. k % Capacity # cHead
          BY <1>1, <1>2, <2>2, <3>1, <3>3, InHand
      <3> QED
          BY <1>3, <3>2, <3>4
    <2>3. pcP = "publish" => buffer'[tail] = buffer[tail]
      <3> SUFFICES ASSUME pcP = "publish" PROVE buffer'[tail] = buffer[tail]
          OBVIOUS
      <3>1. pushed \in gone .. pushed /\ pushed < cGone + Capacity
          BY <1>1, InHand, Counts DEF Unlapped, Places
      <3>2. tail # cHead
          BY <1>1, <1>2, <3>1, InHand, Counts
      <3> QED
          BY <1>2, <1>3, <3>2
    <2> QED
        BY <1>1, <2>1, <2>2, <2>3 DEF Unlapped, Stored
  <1>5. Places' /\ Popping' /\ Ordered' /\ Pushing'
      BY <1>1 DEF Unlapped, Places, Popping, Ordered, Pushing
  <1> QED
      BY <1>4, <1>5 DEF Unlapped

LEMMA RPopAdvance == ASSUME RingAssumption, Kept, Unlapped, PopAdvance, ~lapped' PROVE Unlapped'
  <1>1. /\ pcC = "advance" /\ head' = Succ(cHead) /\ gone' = cGone + 1
        /\ delivered' = Append(delivered, cOut) /\ pcC' = "idle"
        /\ pcP = "drop" => ~(gone' > pGone + 1)
        /\ UNCHANGED <<tail, buffer, pcP, pHead, pTail, pGone, cHead, cOut, cGone, pushed>>
      BY DEF PopAdvance, producer, Behind
  <1>2. /\ cHead = cGone % Capacity /\ cGone < pushed /\ cOut = cGone + 1
        /\ gone \in {cGone, cGone + 1} /\ cOut \in Packet \cup {NoPacket}
        /\ \A i \in DOMAIN delivered : delivered[i] <= cGone
      BY <1>1 DEF Unlapped, Popping, Stored, Kept, TypeOK
  <1>3. /\ Len(delivered') = Len(delivered) + 1 /\ delivered' # <<>>
        /\ \A i \in 1 .. Len(delivered) : delivered'[i] = delivered[i]
        /\ delivered'[Len(delivered) + 1] = gone'
        /\ DOMAIN delivered' = 1 .. Len(delivered) + 1
    <2>1. delivered \in Seq(Packet \cup {NoPacket})
        BY Counts
    <2>2. /\ delivered' \in Seq(Packet \cup {NoPacket}) /\ Len(delivered') = Len(delivered) + 1
          /\ \A i \in 1 .. Len(delivered) : delivered'[i] = delivered[i]
          /\ delivered'[Len(delivered) + 1] = gone' /\ delivered' # <<>>
        BY <1>1, <1>2, <2>1, AppendProperties
    <2> QED
        BY <2>2, LenProperties
  <1>4. gone' \in {gone, gone + 1} /\ gone <= gone' /\ gone' \in Nat
      BY <1>1, <1>2, Counts
  <1>5. Places'
    <2>1. head' = gone' % Capacity /\ tail' = pushed' % Capacity
        BY <1>1, <1>2, Slots, Counts DEF Unlapped, Places
    <2>2. gone' <= pushed' /\ pushed' < gone' + Capacity
        BY <1>1, <1>2, <1>4, Counts DEF Unlapped, Places
    <2> QED
        BY <2>1, <2>2 DEF Places
  <1>6. Stored'
    <2>1. \A k \in gone' .. pushed - 1 : k \in gone .. pushed - 1 /\ k # cGone
        BY <1>1, <1>4, Counts
    <2> QED
        BY <1>1, <2>1 DEF Unlapped, Stored
  <1>7. Pushing'
    <2>1. pcP = "drop" => gone' \in {pGone, pGone + 1}
        BY <1>1, <1>4, Counts DEF Unlapped, Pushing
    <2>2. pcP \in {"write", "publish"} => pushed + 1 < gone' + Capacity
        BY <1>4, Counts DEF Unlapped, Pushing
    <2> QED
        BY <1>1, <1>3, <2>1, <2>2 DEF Unlapped, Pushing
  <1>8. Popping'
      BY <1>1 DEF Popping
  <1>9. Ordered'
    <2>1. \A i \in 1 .. Len(delivered) : delivered[i] \in 1 .. cGone
        BY <1>2, Counts DEF Unlapped, Ordered
    <2>2. \A i \in DOMAIN delivered' : delivered'[i] \in 1 .. gone'
      <3> TAKE i \in DOMAIN delivered'
      <3>1. CASE i \in 1 .. Len(delivered)
          BY <1>1, <1>3, <2>1, <3>1, Counts
      <3>2. CASE i = Len(delivered) + 1
          BY <1>1, <1>3, <3>2, Counts
      <3> QED
          BY <1>3, <3>1, <3>2, Counts
    <2>3. ASSUME NEW i \in DOMAIN delivered', NEW j \in DOMAIN delivered', i < j
          PROVE  delivered'[i] < delivered'[j]
      <3>1. i \in 1 .. Len(delivered)
          BY <1>3, <2>3, Counts
      <3>2. CASE j \in 1 .. Len(delivered)
          BY <1>3, <2>3, <3>1, <3>2, Counts DEF Unlapped, Ordered
      <3>3. CASE j = Len(delivered) + 1
          BY <1>1, <1>3, <2>1, <3>1, <3>3, Counts
      <3> QED
          BY <1>3, <3>2, <3>3, Counts
    <2> QED
        BY <2>2, <2>3 DEF Ordered
  <1> QED
      BY <1>5, <1>6, <1>7, <1>8, <1>9 DEF Unlapped

LEMMA RStutter == ASSUME Unlapped, UNCHANGED vars PROVE Unlapped'
  <1>1. UNCHANGED <<head, tail, drop_count, buffer, pcP, pHead, pTail, pGone, pcC, cHead, cOut, cGone,
                    pushed, delivered, gone>>
      BY DEF vars, producer, consumer
  <1> QED
      BY <1>1 DEF Unlapped, Places, Stored, Pushing, Popping, Ordered

(* lapped stays.                                                             *)
LEMMA LapStays == [Next]_vars /\ lapped => lapped'
  BY DEF Next, Emplace, Pop, PushLoad, PushDropOldest, PushWrite, PushPublish, PopLoadHead, PopTest,
         PopRead, PopAdvance, vars

LEMMA RNext == ASSUME RingAssumption PROVE RInv /\ [Next]_vars => RInv'
  <1> SUFFICES ASSUME RInv, [Next]_vars, ~lapped' PROVE Unlapped'
      BY KeptNext DEF RInv
  <1>1. Kept /\ Unlapped
      BY LapStays DEF RInv
  <1> QED
      BY <1>1, RPushLoad, RPushDropOldest, RPushWrite, RPushPublish, RPopLoadHead, RPopTest, RPopRead,
         RPopAdvance, RStutter DEF Next, Emplace, Pop

LEMMA Invariance == ASSUME RingAssumption PROVE Spec => []RInv
  <1>1. Init => RInv
      BY RInit DEF RInv
  <1>2. RInv /\ [Next]_vars => RInv'
      BY RNext
  <1> QED
      BY <1>1, <1>2, PTL DEF Spec

-----------------------------------------------------------------------------
(* What is in the ring: the numbers from the first packet not taken to the   *)
(* last one pushed.                                                          *)
Numbers(a, n) == [k \in 1 .. n |-> a + k]

LEMMA Numbered ==
  ASSUME NEW a \in Nat, NEW n \in Nat
  PROVE  /\ Numbers(a, n) \in Seq(Nat) /\ Len(Numbers(a, n)) = n
         /\ \A k \in 1 .. n : Numbers(a, n)[k] = a + k
  BY DEF Numbers

LEMMA NumbersTaken ==
  ASSUME NEW a \in Nat, NEW n \in Nat
  PROVE  /\ Numbers(a, n + 1) # <<>>
         /\ Head(Numbers(a, n + 1)) = a + 1 /\ Tail(Numbers(a, n + 1)) = Numbers(a + 1, n)
  <1> DEFINE s == Numbers(a, n + 1)
             t == Numbers(a + 1, n)
  <1>1. /\ s \in Seq(Nat) /\ Len(s) = n + 1 /\ \A k \in 1 .. n + 1 : s[k] = a + k
        /\ t \in Seq(Nat) /\ Len(t) = n /\ \A k \in 1 .. n : t[k] = (a + 1) + k
    <2>1. a + 1 \in Nat /\ n + 1 \in Nat
        OBVIOUS
    <2> QED
        BY <2>1, Numbered, Zenon
  <1> HIDE DEF s, t
  <1>2. s # <<>>
      BY <1>1
  <1>3. Head(s) = a + 1
      BY <1>1, <1>2
  <1>4. Tail(s) \in Seq(Nat) /\ Len(Tail(s)) = n /\ \A k \in 1 .. n : Tail(s)[k] = s[k + 1]
      BY <1>1, <1>2, HeadTailProperties
  <1>5. \A k \in 1 .. n : Tail(s)[k] = t[k]
      BY <1>1, <1>4
  <1>6. Tail(s) = t
      BY <1>1, <1>4, <1>5, SeqEqual
  <1> QED
      BY <1>2, <1>3, <1>6 DEF s, t

LEMMA NumbersGiven ==
  ASSUME NEW a \in Nat, NEW n \in Nat
  PROVE  Append(Numbers(a, n), a + n + 1) = Numbers(a, n + 1)
  <1> DEFINE s == Numbers(a, n)
             t == Numbers(a, n + 1)
             u == Append(s, a + n + 1)
  <1>1. /\ s \in Seq(Nat) /\ Len(s) = n /\ \A k \in 1 .. n : s[k] = a + k
        /\ t \in Seq(Nat) /\ Len(t) = n + 1 /\ \A k \in 1 .. n + 1 : t[k] = a + k
    <2>1. n + 1 \in Nat
        OBVIOUS
    <2> QED
        BY <2>1, Numbered, Zenon
  <1> HIDE DEF s, t
  <1>2. /\ u \in Seq(Nat) /\ Len(u) = n + 1 /\ u[n + 1] = a + n + 1
        /\ \A k \in 1 .. n : u[k] = s[k]
      BY <1>1, AppendProperties
  <1> HIDE DEF u
  <1>3. \A k \in 1 .. n + 1 : u[k] = t[k]
      BY <1>1, <1>2
  <1>4. u = t
      BY <1>1, <1>2, <1>3, SeqEqual
  <1> QED
      BY <1>4 DEF s, t, u

Consecutive == Content = Numbers(gone, pushed - gone)

LEMMA Contents ==
  ASSUME RingAssumption, Kept, Unlapped
  PROVE  Consecutive
  <1>1. Size = pushed - gone /\ Size \in Nat
    <2>1. Size = pushed - gone
        BY Fills DEF Unlapped
    <2> QED
        BY <2>1, Counts DEF Unlapped, Places
  <1>2. ASSUME NEW k \in 1 .. Size
        PROVE  LET i == (head + k - 1) % Capacity
               IN  (IF pcC = "advance" /\ i = cHead THEN cOut ELSE buffer[i]) = gone + k
    <2> DEFINE j == gone + (k - 1)
               i == (head + k - 1) % Capacity
    <2>1. /\ j \in gone .. pushed - 1 /\ j \in gone .. pushed /\ j < pushed
          /\ gone \in Int /\ k - 1 \in Int /\ Capacity \in Nat /\ Capacity > 0
          /\ j + 1 = gone + k
        BY <1>1, Counts, SMTT(30)
    <2>2. head = gone % Capacity /\ head \in Int
        BY Counts, Divided DEF Unlapped, Places
    <2>3. head + k - 1 = (gone % Capacity) + (k - 1)
        BY <2>1, <2>2
    <2>4. i = j % Capacity
        BY <2>1, <2>3, Shifted
    <2> HIDE DEF i, j
    <2>5. pcC = "advance" => cHead = cGone % Capacity /\ cOut = cGone + 1 /\ (i = cHead => j = cGone)
      <3> SUFFICES ASSUME pcC = "advance"
                   PROVE  cHead = cGone % Capacity /\ cOut = cGone + 1 /\ (i = cHead => j = cGone)
          OBVIOUS
      <3>1. j < cGone + Capacity
          BY <2>1, InHand, Counts
      <3> QED
          BY <2>1, <2>4, <3>1, InHand DEF Unlapped, Stored
    <2>6. CASE pcC = "advance" /\ i = cHead
      <3>1. cOut = gone + k
          BY <2>1, <2>5, <2>6
      <3> QED
          BY <2>6, <3>1 DEF i
    <2>7. CASE ~(pcC = "advance" /\ i = cHead)
      <3>1. ~(pcC = "advance" /\ j = cGone)
          BY <2>4, <2>5, <2>7
      <3>2. buffer[j % Capacity] = j + 1
          BY <2>1, <3>1 DEF Unlapped, Stored
      <3>3. buffer[i] = gone + k
          BY <2>1, <2>4, <3>2
      <3> QED
          BY <2>7, <3>3 DEF i
    <2> QED
        BY <2>6, <2>7
  <1> QED
      BY <1>1, <1>2, Zenon DEF Content, Numbers, Consecutive

(* Each step is one of the queue or leaves the queue alone.                  *)
LEMMA Steps ==
  ASSUME RingAssumption, Kept, Unlapped, Consecutive, Consecutive', [Next]_vars
  PROVE  [Queue!Next]_(Queue!vars)
  <1> DEFINE n == pushed - gone
  <1>1. /\ Content = Numbers(gone, n) /\ Content' = Numbers(gone', n')
        /\ n \in Nat /\ gone \in Nat /\ Len(Content) = n
    <2>1. Content = Numbers(gone, n) /\ Content' = Numbers(gone', n')
        BY DEF Consecutive
    <2>2. n \in Nat /\ gone \in Nat
        BY Counts DEF Unlapped, Places
    <2> QED
        BY <2>1, <2>2, Numbered
  <1>2. Queue!LastOut = gone
      BY <1>1, Counts DEF Queue!LastOut
  <1>3. ASSUME PushDropOldest PROVE Queue!Discard \/ Queue!DiscardPopped
    <2>1. /\ drop_count' = drop_count + 1 /\ pushed' = pushed /\ delivered' = delivered
          /\ pushed + 1 = pGone + Capacity /\ gone' = pGone + 1 /\ gone \in {pGone, pGone + 1}
          /\ gone = pGone + 1 => delivered # <<>> /\ delivered[Len(delivered)] = gone
        BY <1>3 DEF PushDropOldest, consumer, Unlapped, Pushing
    <2>2. CASE gone = pGone
      <3>1. n = Capacity - 1 /\ n' = n - 1 /\ n - 1 \in Nat /\ gone' = gone + 1
          BY <2>1, <2>2, Counts
      <3>2. Tail(Content) = Content'
        <4> DEFINE m == n - 1
        <4>1. m \in Nat /\ gone \in Nat /\ n = m + 1 /\ n' = m
            BY <1>1, <3>1
        <4> HIDE DEF m, n
        <4>2. Tail(Numbers(gone, m + 1)) = Numbers(gone + 1, m)
            BY <4>1, NumbersTaken
        <4> QED
            BY <1>1, <3>1, <4>1, <4>2
      <3> QED
          BY <1>1, <2>1, <3>1, <3>2 DEF Queue!Discard
    <2>3. CASE gone = pGone + 1
      <3>1. n = Capacity - 1 - 1 /\ n' = n /\ gone' = gone
          BY <2>1, <2>3, Counts
      <3>2. Content' = Content
          BY <1>1, <3>1
      <3> QED
          BY <1>1, <1>2, <2>1, <2>3, <3>1, <3>2 DEF Queue!DiscardPopped
    <2> QED
        BY <2>1, <2>2, <2>3
  <1>4. ASSUME PushPublish PROVE Queue!Push
    <2>1. /\ drop_count' = drop_count /\ pushed' = pushed + 1 /\ delivered' = delivered
          /\ gone' = gone /\ pushed + 1 < gone + Capacity /\ pushed < MaxPush
        BY <1>4 DEF PushPublish, consumer, Unlapped, Pushing, Kept, Dropping
    <2>2. n < Capacity - 1 /\ n' = n + 1 /\ pushed + 1 = gone + n + 1
        BY <2>1, Counts
    <2>3. Content' = Append(Content, pushed + 1)
        BY <1>1, <2>1, <2>2, NumbersGiven
    <2> QED
        BY <1>1, <2>1, <2>2, <2>3 DEF Queue!Push
  <1>5. ASSUME PopAdvance PROVE Queue!Pop \/ Queue!PopDiscarded
    <2>1. /\ drop_count' = drop_count /\ pushed' = pushed /\ delivered' = Append(delivered, cOut)
          /\ gone' = cGone + 1 /\ cOut = cGone + 1 /\ cGone < pushed /\ gone \in {cGone, cGone + 1}
          /\ \A i \in DOMAIN delivered : delivered[i] <= cGone
        BY <1>5 DEF PopAdvance, producer, Unlapped, Popping, Stored
    <2>2. CASE gone = cGone
      <3>1. n' = n - 1 /\ n - 1 \in Nat /\ gone' = gone + 1 /\ cOut = gone + 1
          BY <2>1, <2>2, Counts
      <3>2. Content # <<>> /\ Head(Content) = cOut /\ Content' = Tail(Content)
        <4> DEFINE m == n - 1
        <4>1. m \in Nat /\ gone \in Nat /\ n = m + 1 /\ n' = m
            BY <1>1, <3>1
        <4> HIDE DEF m, n
        <4>2. /\ Numbers(gone, m + 1) # <<>> /\ Head(Numbers(gone, m + 1)) = gone + 1
              /\ Tail(Numbers(gone, m + 1)) = Numbers(gone + 1, m)
            BY <4>1, NumbersTaken
        <4> QED
            BY <1>1, <3>1, <4>1, <4>2
      <3> QED
          BY <2>1, <3>2 DEF Queue!Pop
    <2>3. CASE gone = cGone + 1
      <3>1. n' = n /\ gone' = gone /\ gone > 0 /\ cOut = gone
          BY <2>1, <2>3, Counts
      <3>2. Content' = Content
          BY <1>1, <3>1
      <3>3. \A i \in DOMAIN delivered : delivered[i] < gone
        <4> TAKE i \in DOMAIN delivered
        <4>1. delivered[i] \in 1 .. gone
            BY DEF Unlapped, Ordered
        <4> QED
            BY <2>1, <2>3, <4>1, Counts
      <3> QED
          BY <1>2, <2>1, <3>1, <3>2, <3>3 DEF Queue!PopDiscarded
    <2> QED
        BY <2>1, <2>2, <2>3
  <1>6. ASSUME \/ PushLoad \/ PushWrite \/ PopLoadHead \/ PopTest \/ PopRead \/ UNCHANGED vars
        PROVE  UNCHANGED Queue!vars
    <2>1. UNCHANGED <<drop_count, pushed, delivered, gone>>
        BY <1>6 DEF PushLoad, PushWrite, PopLoadHead, PopTest, PopRead, vars, producer, consumer
    <2>2. Content' = Content
        BY <1>1, <2>1
    <2> QED
        BY <2>1, <2>2 DEF Queue!vars
  <1> QED
      BY <1>3, <1>4, <1>5, <1>6 DEF Next, Emplace, Pop, Queue!Next

-----------------------------------------------------------------------------
(* push, overwriting the oldest packet when the ring is full, and pop do     *)
(* together what one queue would that drops its oldest packet, in whatever   *)
(* order their loads and stores come, until one of them has moved head_ on   *)
(* twice under the other.                                                    *)
THEOREM RingRefinesQueue == ASSUME RingAssumption PROVE Spec => RingIsQueue
  <1>1. Init => Queue!Init
    <2> SUFFICES ASSUME Init PROVE Queue!Init
        OBVIOUS
    <2>1. Kept /\ Unlapped /\ gone = 0 /\ pushed = 0 /\ drop_count = 0 /\ delivered = <<>>
        BY RInit DEF Init
    <2>2. Content = Numbers(0, 0)
        BY <2>1, Contents DEF Consecutive
    <2>3. Content = <<>>
        BY <2>2 DEF Numbers
    <2> QED
        BY <2>1, <2>3 DEF Queue!Init
  <1>2. RInv => lapped \/ Consecutive
      BY Contents DEF RInv
  <1>3. ASSUME RInv, lapped \/ Consecutive, lapped' \/ Consecutive', [Next]_vars
        PROVE  [lapped' \/ Queue!Next]_(Queue!vars)
    <2>1. CASE lapped'
        BY <2>1
    <2>2. CASE ~lapped'
        BY <1>3, <2>2, LapStays, Steps DEF RInv
    <2> QED
        BY <2>1, <2>2
  <1> QED
      BY <1>1, <1>2, <1>3, Invariance, PTL DEF Spec, RingIsQueue

(* pop never moves out the element that emplace is assigning, as long as     *)
(* neither has moved head_ on twice under the other.                         *)
THEOREM SlotsApart == ASSUME RingAssumption PROVE Spec => [](lapped \/ NoSlotRace)
  <1>1. RInv => lapped \/ NoSlotRace
    <2> SUFFICES ASSUME Kept, Unlapped, pcP = "write", pcC = "read", pTail = cHead PROVE FALSE
        BY DEF RInv, NoSlotRace
    <2>1. pushed % Capacity = cGone % Capacity /\ cGone < pushed /\ pushed < cGone + Capacity
        BY InHand DEF Unlapped, Pushing, Popping, Places
    <2> QED
        BY <2>1, Slots, Counts
  <1> QED
      BY <1>1, Invariance, PTL

(* What pop returns comes in the order of the pushes, no packet twice, and   *)
(* is never an element that was moved out already, as long as neither thread *)
(* has moved head_ on twice under the other.                                 *)
THEOREM PoppedInOrder == ASSUME RingAssumption PROVE Spec => [](lapped \/ DeliveredInOrder)
  <1>1. RInv => lapped \/ DeliveredInOrder
    <2> SUFFICES ASSUME Kept, Unlapped PROVE DeliveredInOrder
        BY DEF RInv
    <2>1. \A i \in DOMAIN delivered : delivered[i] # NoPacket
        BY Counts DEF Unlapped, Ordered, NoPacket
    <2> QED
        BY <2>1 DEF Unlapped, Ordered, DeliveredInOrder
  <1> QED
      BY <1>1, Invariance, PTL
=============================================================================
