---------------------------- MODULE InputsProofs ----------------------------
(* How audio comes in.                                                       *)
(*   reordering  the buffer never takes an old packet for a new one, hands on*)
(*               in order and once, loses nothing without a trace, and makes *)
(*               up only what was missing: for every sequence space, size,   *)
(*               delay and stream.                                           *)
(*   clock       no client is ticked ahead of its time: for any clients,     *)
(*               formats, chunk size and lateness.                           *)
(*   devices     what was announced is what is registered: for any devices.  *)
(*   sessions    what is decoded is decoded as it was encoded: for any       *)
(*               sources, SSRCs and formats.                                 *)
(*   PulseAudio  tags are those of streams, file descriptors are held once   *)
(*               or closed: for any clients and programs.                    *)
EXTENDS MCInputs, FiniteSetTheorems, SequenceTheorems, WellFoundedInduction, TLAPS

(* Each component steps by itself.                                           *)
LEMMA Apart ==
  [AllNext]_allVars =>
    /\ kind' = kind
    /\ Next \/ UNCHANGED vars
    /\ \/ kind = "clock" /\ clock!Next
       \/ kind = "clients" /\ clients!Next
       \/ UNCHANGED clockVars
    /\ devices!Next \/ listed!Next \/ UNCHANGED deviceVars
    /\ \/ kind = "single" /\ single!Next
       \/ kind = "sap" /\ sap!Next
       \/ kind = "two" /\ two!Next
       \/ UNCHANGED sessionVars
    /\ \/ kind = "flow" /\ flow!Next
       \/ kind = "tags" /\ tags!Next
       \/ kind = "pair" /\ pair!Next
       \/ kind = "fds" /\ fds!Next
       \/ UNCHANGED pulseVars
  <1>1. UNCHANGED allVars => UNCHANGED <<kind, vars, sessionVars, pulseVars, clockVars, deviceVars>>
      BY DEF allVars
  <1>2. /\ OnlyReordering => kind' = kind /\ UNCHANGED <<sessionVars, pulseVars, clockVars, deviceVars>>
        /\ OnlySessions => kind' = kind /\ UNCHANGED <<vars, pulseVars, clockVars, deviceVars>>
        /\ OnlyPulse => kind' = kind /\ UNCHANGED <<vars, sessionVars, clockVars, deviceVars>>
        /\ OnlyClock => kind' = kind /\ UNCHANGED <<vars, sessionVars, pulseVars, deviceVars>>
        /\ OnlyDevices => kind' = kind /\ UNCHANGED <<vars, sessionVars, pulseVars, clockVars>>
      BY DEF OnlyReordering, OnlySessions, OnlyPulse, OnlyClock, OnlyDevices
  <1> QED
      BY <1>1, <1>2, Zenon DEF AllNext

-----------------------------------------------------------------------------
(* RtpReordering.                                                            *)
(* Before the first packet nothing is held and nothing was handed on.        *)
Unstarted == ~initialized => Held = {} /\ out = <<>> /\ next = 0 /\ position = 0

(* InOrder needs NoneBehind: only a packet whose place is known follows what *)
(* was handed on.  MadeUpWasMissing needs NoSilentLoss, which says where a   *)
(* packet that arrived can be.                                               *)
RInv == TypeOK /\ NoneBehind /\ InOrder /\ NoSilentLoss /\ MadeUpWasMissing /\ Unstarted

-----------------------------------------------------------------------------
(* Arithmetic modulo a number that is not known.                             *)

LEMMA Multiple ==
  ASSUME NEW M \in Nat, M > 0, NEW k \in Int, k * M < M, -M < k * M
  PROVE  k = 0
  <1>1. k >= 1 => k * M >= M
      OBVIOUS
  <1>2. k <= -1 => k * M <= -M
      OBVIOUS
  <1> QED
      BY <1>1, <1>2

LEMMA Divided ==
  ASSUME NEW M \in Nat, M > 0, NEW a \in Int
  PROVE  a % M \in 0 .. M - 1 /\ a \div M \in Int /\ a = (a \div M) * M + (a % M)
  OBVIOUS

LEMMA Remainder ==
  ASSUME NEW M \in Nat, M > 0, NEW a \in Int, NEW q \in Int, NEW r \in 0 .. M - 1, a = q * M + r
  PROVE  a % M = r
  <1> DEFINE d == a \div M
  <1>1. d \in Int /\ a % M \in 0 .. M - 1 /\ a = d * M + (a % M)
      BY Divided
  <1> HIDE DEF d
  <1>2. (q - d) * M = (a % M) - r
      BY <1>1
  <1>3. q - d = 0
      BY <1>1, <1>2, Multiple
  <1> QED
      BY <1>1, <1>3

(* The difference of two remainders is the remainder of the difference.      *)
LEMMA Difference ==
  ASSUME NEW M \in Nat, M > 0, NEW a \in Int, NEW b \in Int
  PROVE  ((a % M) - (b % M)) % M = (a - b) % M
  <1> DEFINE p == a \div M
             q == b \div M
             c == a - b
             k == c \div M
             r == c % M
  <1>1. p \in Int /\ a % M \in 0 .. M - 1 /\ a = p * M + (a % M)
      BY Divided
  <1>2. q \in Int /\ b % M \in 0 .. M - 1 /\ b = q * M + (b % M)
      BY Divided
  <1>3. k \in Int /\ r \in 0 .. M - 1 /\ c = k * M + r
      BY Divided
  <1>4. c = a - b
      OBVIOUS
  <1> HIDE DEF p, q, c, k, r
  <1>5. (a % M) - (b % M) = ((k - p) + q) * M + r
      BY <1>1, <1>2, <1>3, <1>4
  <1>6. ((a % M) - (b % M)) % M = r
      BY <1>1, <1>2, <1>3, <1>5, Remainder
  <1> QED
      BY <1>4, <1>6 DEF r

(* A number close to the expected position is told from its remainder.       *)
LEMMA Window ==
  ASSUME NEW M \in Nat, M > 0, NEW n \in Int, NEW p \in Int
  PROVE  /\ n \in p .. p + M - 1 => ((n % M) - (p % M)) % M = n - p
         /\ n \in p - M .. p - 1 => ((n % M) - (p % M)) % M = n - p + M
  <1>1. ((n % M) - (p % M)) % M = (n - p) % M
      BY Difference
  <1>2. ASSUME n \in p .. p + M - 1 PROVE (n - p) % M = n - p
    <2>1. n - p = 0 * M + (n - p) /\ n - p \in 0 .. M - 1
        BY <1>2
    <2> QED
        BY <2>1, Remainder
  <1>3. ASSUME n \in p - M .. p - 1 PROVE (n - p) % M = n - p + M
    <2>1. n - p = (-1) * M + (n - p + M) /\ n - p + M \in 0 .. M - 1
        BY <1>3
    <2> QED
        BY <2>1, Remainder
  <1> QED
      BY <1>1, <1>2, <1>3

LEMMA Smallest ==
  ASSUME NEW T \in SUBSET Nat, T # {}
  PROVE  \E x \in T : \A y \in T : x <= y
  <1> DEFINE R == {ss \in Nat \X Nat : ss[1] < ss[2]}
  <1>1. \A x, y \in Nat : y < x => <<y, x>> \in R
      OBVIOUS
  <1>2. IsWellFoundedOn(R, Nat)
      BY NatLessThanWellFounded DEF OpToRel
  <1> HIDE DEF R
  <1>3. PICK x \in T : \A y \in T : ~ (<<y, x>> \in R)
      BY <1>2, WFMin
  <1>4. ASSUME NEW y \in T PROVE x <= y
    <2>1. x \in Nat /\ y \in Nat /\ ~(<<y, x>> \in R)
        BY <1>3
    <2>2. ~(y < x)
        BY <1>1, <2>1
    <2> QED
        BY <2>1, <2>2
  <1> QED
      BY <1>4

LEMMA Elements ==
  ASSUME NEW S, NEW q \in Seq(S)
  PROVE  Len(q) \in Nat /\ DOMAIN q = 1 .. Len(q) /\ \A i \in DOMAIN q : q[i] \in S
  BY LenProperties

-----------------------------------------------------------------------------
LEMMA Sizes ==
  /\ Modulus \in Nat /\ Modulus > 0 /\ Half \in Nat /\ Half > 0 /\ Modulus = 2 * Half
  /\ MaxSize \in Nat /\ MaxSize > 0 /\ LargeGap \in Nat /\ LargeGap > 0 /\ MaxDelay \in Nat
  <1>1. Modulus \in Nat /\ MaxSize \in Nat /\ LargeGap \in Nat /\ MaxDelay \in Nat
      BY ReorderingAssumption
  <1>2. Half > 0 /\ Modulus = 2 * Half /\ MaxSize > 0 /\ LargeGap > 0
      BY ReorderingAssumption
  <1>3. Half \in Nat
      BY <1>1, <1>2 DEF Half
  <1> QED
      BY <1>1, <1>2, <1>3

(* A packet held is as far ahead as its sequence number says.                *)
LEMMA Placed ==
  ASSUME TypeOK, NoneBehind, NEW s \in Held
  PROVE  /\ buffer[s].id \in position .. position + Half - 1
         /\ s = buffer[s].id % Modulus
         /\ Delta(s) = buffer[s].id - position
         /\ ~Behind(s)
  <1>1. /\ buffer[s].id \in position .. position + Half - 1
        /\ s = buffer[s].id % Modulus /\ next = position % Modulus /\ position \in Int
      BY DEF NoneBehind, TypeOK
  <1>2. ((buffer[s].id % Modulus) - (position % Modulus)) % Modulus = buffer[s].id - position
    <2>1. buffer[s].id \in position .. position + Modulus - 1
        BY <1>1, Sizes
    <2>2. buffer[s].id \in Int /\ position \in Int /\ Modulus \in Nat /\ Modulus > 0
        BY <1>1, Sizes
    <2> QED
        BY <2>1, <2>2, Window, Zenon
  <1>3. Delta(s) = buffer[s].id - position
      BY <1>1, <1>2 DEF Delta
  <1> QED
      BY <1>1, <1>3, Sizes DEF Behind

LEMMA NobodyBehind == ASSUME TypeOK, NoneBehind PROVE Ahead = Held
  BY Placed DEF Ahead

LEMMA FiniteHeld ==
  ASSUME TypeOK
  PROVE  /\ IsFiniteSet(Held) /\ Cardinality(Held) \in Nat
         /\ Held = {} => Cardinality(Held) = 0
  <1>1. Held \subseteq 0 .. Modulus - 1 /\ Modulus \in Nat
      BY Sizes DEF TypeOK
  <1>2. IsFiniteSet(0 .. Modulus - 1)
      BY <1>1, FS_Interval
  <1>3. IsFiniteSet(Held)
      BY <1>1, <1>2, FS_Subset
  <1> QED
      BY <1>3, FS_CardinalityType, FS_EmptySet

(* The nearest and the farthest packet are what they are called.             *)
LEMMA Ends ==
  ASSUME TypeOK, NoneBehind, Held # {}
  PROVE  /\ Nearest \in Held /\ \A t \in Held : Delta(Nearest) <= Delta(t)
         /\ Farthest \in Held
  <1> DEFINE D == {Delta(t) : t \in Held}
             E == {Modulus - Delta(t) : t \in Held}
  <1>1. \A t \in Held : Delta(t) \in 0 .. Modulus - 1
    <2> TAKE t \in Held
    <2>1. /\ Delta(t) = buffer[t].id - position /\ buffer[t].id \in position .. position + Half - 1
          /\ position \in Nat
        BY Placed DEF TypeOK
    <2> QED
        BY <2>1, Sizes
  <1>2. D \in SUBSET Nat /\ D # {} /\ E \in SUBSET Nat /\ E # {}
      BY <1>1, Sizes
  <1>3. \E s \in Held : \A t \in Held : Delta(s) <= Delta(t)
    <2>1. PICK x \in D : \A y \in D : x <= y
        BY <1>2, Smallest
    <2> QED
        BY <2>1
  <1>4. \E s \in Held : \A t \in Held : Delta(t) <= Delta(s)
    <2>1. PICK x \in E : \A y \in E : x <= y
        BY <1>2, Smallest
    <2>2. PICK s \in Held : x = Modulus - Delta(s)
        BY <2>1
    <2>3. \A t \in Held : Modulus - Delta(s) <= Modulus - Delta(t)
        BY <2>1, <2>2
    <2> QED
        BY <1>1, <2>3, Sizes
  <1> QED
      BY <1>3, <1>4 DEF Nearest, Farthest

-----------------------------------------------------------------------------
LEMMA RInit == Init => RInv
  <1> SUFFICES ASSUME Init PROVE RInv
      OBVIOUS
  <1>1. Held = {} /\ out = <<>> /\ Cardinality(Held) = 0
      BY FS_EmptySet DEF Init, Empty, Held
  <1>2. 0 % Modulus = 0
      BY Sizes, Remainder
  <1>3. TypeOK
    <2>1. initialized \in BOOLEAN /\ hasLast \in BOOLEAN
        BY Zenon DEF Init
    <2>2. out \in Seq([id : Nat, filler : BOOLEAN])
        BY <1>1, EmptySeq
    <2> QED
        BY <1>1, <2>1, <2>2, Sizes DEF Init, TypeOK
  <1>4. NoneBehind
      BY <1>1, <1>2 DEF Init, NoneBehind
  <1>5. InOrder /\ NoSilentLoss /\ MadeUpWasMissing /\ Unstarted
      BY <1>1 DEF Init, InOrder, NoSilentLoss, MadeUpWasMissing, Unstarted
  <1> QED
      BY <1>3, <1>4, <1>5 DEF RInv

(* A packet that arrives: where it lies, and what becomes of the expectation.*)
LEMMA Arrival ==
  ASSUME RInv, NEW n \in 0 .. Last, Arrive(n)
  PROVE  /\ n \in Nat /\ n % Modulus \in 0 .. Modulus - 1
         /\ position' \in Nat /\ next' = position' % Modulus /\ next' \in 0 .. Modulus - 1
         /\ initialized' = TRUE
         /\ position' >= position
         /\ Fresh(n % Modulus) => n \in position' .. position' + Half - 1
         /\ ~Fresh(n % Modulus) => n < position'
         /\ Held # {} \/ ~Jumps(n % Modulus) => position' = position /\ next' = next
         /\ pc' = "ready" /\ UNCHANGED <<hasLast, out, resets>>
         /\ arrived' = arrived \cup {n} /\ arrivals' = arrivals + 1
  <1> DEFINE s == n % Modulus
  <1>1. n \in Nat /\ s \in 0 .. Modulus - 1 /\ position \in Nat /\ next = position % Modulus
        /\ next \in 0 .. Modulus - 1
    <2>1. Last \in Nat /\ n \in Nat
        BY ReorderingAssumption
    <2>2. position \in Nat /\ next = position % Modulus
        BY Zenon DEF RInv, NoneBehind, TypeOK
    <2> QED
        BY <2>1, <2>2, Sizes, Divided
  <1>2. CASE ~initialized
    <2>1. Jumps(s) /\ position' = n /\ next' = s /\ initialized' = TRUE /\ Held = {} /\ position = 0
        BY <1>2 DEF Arrive, Expect, Jumps, RInv, Unstarted
    <2> QED
        BY <1>1, <2>1, Sizes DEF Arrive, Fresh
  <1>3. CASE initialized
    <2>1. n \in position - Half .. position + Half - 1
        BY <1>3 DEF Arrive
    <2>2. n >= position => Delta(s) = n - position
      <3> SUFFICES ASSUME n >= position PROVE Delta(s) = n - position
          OBVIOUS
      <3>1. n \in position .. position + Modulus - 1
          BY <1>1, <2>1, Sizes
      <3>2. ((n % Modulus) - (position % Modulus)) % Modulus = n - position
        <4>1. n \in Int /\ position \in Int /\ Modulus \in Nat /\ Modulus > 0
            BY <1>1, Sizes
        <4> QED
            BY <3>1, <4>1, Window, Zenon
      <3> QED
          BY <1>1, <3>2 DEF Delta
    <2>3. n < position => Delta(s) = n - position + Modulus
      <3> SUFFICES ASSUME n < position PROVE Delta(s) = n - position + Modulus
          OBVIOUS
      <3>1. n \in position - Modulus .. position - 1
          BY <1>1, <2>1, Sizes
      <3>2. ((n % Modulus) - (position % Modulus)) % Modulus = n - position + Modulus
        <4>1. n \in Int /\ position \in Int /\ Modulus \in Nat /\ Modulus > 0
            BY <1>1, Sizes
        <4> QED
            BY <3>1, <4>1, Window, Zenon
      <3> QED
          BY <1>1, <3>2 DEF Delta
    <2>4. Behind(s) <=> n < position
      <3>1. CASE n < position
          BY <1>1, <2>1, <2>3, <3>1, Sizes DEF Behind
      <3>2. CASE n >= position
          BY <1>1, <2>1, <2>2, <3>2, Sizes DEF Behind
      <3> QED
          BY <1>1, <3>1, <3>2
    <2>5. CASE Jumps(s)
      <3>1. Held = {} /\ ~Behind(s) /\ position' = n /\ next' = s /\ initialized' = TRUE
          BY <1>3, <2>5 DEF Arrive, Expect, Jumps
      <3> QED
          BY <1>1, <2>4, <2>5, <3>1, Sizes DEF Arrive, Fresh
    <2>6. CASE ~Jumps(s)
      <3>1. position' = position /\ next' = next /\ initialized' = TRUE
          BY <2>6 DEF Arrive, Expect
      <3> QED
          BY <1>1, <2>1, <2>4, <2>6, <3>1, Sizes DEF Arrive, Fresh
    <2> QED
        BY <2>5, <2>6
  <1>4. initialized \in BOOLEAN
      BY DEF RInv, TypeOK
  <1> QED
      BY <1>2, <1>3, <1>4

(* What an arrival does to the accounts, as long as no packet held is lost.  *)
LEMMA Accounts ==
  ASSUME RInv, NEW n \in 0 .. Last, Arrive(n),
         Ids \cup {n} \subseteq Ids' \cup late' \cup overflowed',
         late \subseteq late', overflowed \subseteq overflowed',
         \A m \in late' : m < position',
         ~Fresh(n % Modulus) => n \in late'
  PROVE  InOrder' /\ NoSilentLoss' /\ MadeUpWasMissing' /\ Unstarted'
  <1>1. /\ n \in Nat /\ position' >= position /\ position' \in Nat /\ position \in Nat
        /\ Fresh(n % Modulus) => n >= position'
        /\ out' = out /\ arrived' = arrived \cup {n} /\ initialized' = TRUE
    <2>1. position \in Nat
        BY DEF RInv, TypeOK
    <2>2. /\ n \in Nat /\ position' >= position /\ position' \in Nat
          /\ Fresh(n % Modulus) => n \in position' .. position' + Half - 1
          /\ out' = out /\ arrived' = arrived \cup {n} /\ initialized' = TRUE
        BY Arrival
    <2>3. ASSUME Fresh(n % Modulus) PROVE n >= position'
        BY <2>2, <2>3, Sizes
    <2> QED
        BY <2>1, <2>2, <2>3, Zenon
  <1>2. \A i \in DOMAIN out : out[i].id \in Nat /\ out[i].id < position
    <2>1. out \in Seq([id : Nat, filler : BOOLEAN]) /\ \A i \in DOMAIN out : out[i].id < position
        BY DEF RInv, TypeOK, InOrder
    <2>2. \A i \in DOMAIN out : out[i] \in [id : Nat, filler : BOOLEAN]
        BY <2>1, Elements, Zenon
    <2> QED
        BY <2>1, <2>2
  <1>3. InOrder'
      BY <1>1, <1>2 DEF RInv, InOrder
  <1>4. NoSilentLoss'
      BY <1>1 DEF RInv, NoSilentLoss, OutIds
  <1>5. MadeUpWasMissing'
    <2> SUFFICES ASSUME NEW i \in DOMAIN out, out[i].filler, out[i].id \in arrived'
                 PROVE  out[i].id \in late' \cup overflowed'
        BY <1>1 DEF MadeUpWasMissing
    <2>1. CASE out[i].id = n
        BY <1>1, <1>2, <2>1
    <2>2. CASE out[i].id # n
        BY <1>1, <2>2 DEF RInv, MadeUpWasMissing
    <2> QED
        BY <2>1, <2>2
  <1> QED
      BY <1>1, <1>3, <1>4, <1>5 DEF Unstarted

(* The types of what every arrival sets, and of the buffer it leaves.        *)
LEMMA ArrivalTypes ==
  ASSUME RInv, NEW n \in 0 .. Last, Arrive(n),
         Held' \subseteq 0 .. Modulus - 1, Cardinality(Held') <= MaxSize,
         \A s \in Held' : buffer'[s] \in [id : Nat, age : 0 .. MaxDelay],
         late' \in SUBSET Nat, overflowed' \in SUBSET Nat
  PROVE  TypeOK'
  <1>1. /\ n \in Nat /\ position' \in Nat /\ next' \in 0 .. Modulus - 1
        /\ initialized' = TRUE /\ pc' = "ready"
        /\ UNCHANGED <<hasLast, out, resets>>
        /\ arrived' = arrived \cup {n} /\ arrivals' = arrivals + 1
      BY Arrival
  <1>2. /\ hasLast \in BOOLEAN /\ out \in Seq([id : Nat, filler : BOOLEAN])
        /\ arrived \in SUBSET Nat /\ arrivals \in Nat /\ resets \in Nat
      BY DEF RInv, TypeOK
  <1>3. initialized' \in BOOLEAN /\ hasLast' \in BOOLEAN
      BY <1>1, <1>2, Zenon
  <1>4. arrived' \in SUBSET Nat /\ arrivals' \in Nat /\ resets' \in Nat
      BY <1>1, <1>2
  <1> QED
      BY <1>1, <1>2, <1>3, <1>4 DEF TypeOK

LEMMA RLate == ASSUME RInv, NEW n \in 0 .. Last, DiscardLate(n) PROVE RInv'
  <1>1. /\ Arrive(n) /\ ~Fresh(n % Modulus) /\ ~Jumps(n % Modulus)
        /\ late' = late \cup {n} /\ UNCHANGED <<buffer, overflowed>>
      BY DEF DiscardLate, Fresh
  <1>2. /\ n \in Nat /\ position' = position /\ next' = next /\ n < position' /\ Held' = Held
        /\ Ids' = Ids
    <2>1. n \in Nat /\ position' = position /\ next' = next /\ n < position'
        BY <1>1, Arrival
    <2> QED
        BY <1>1, <2>1 DEF Held, Ids
  <1>3. /\ late \in SUBSET Nat /\ overflowed \in SUBSET Nat /\ Held \subseteq 0 .. Modulus - 1
        /\ Cardinality(Held) <= MaxSize /\ \A s \in Held : buffer[s] \in [id : Nat, age : 0 .. MaxDelay]
      BY DEF RInv, TypeOK
  <1>4. TypeOK'
    <2>1. late' \in SUBSET Nat /\ overflowed' \in SUBSET Nat
        BY <1>1, <1>2, <1>3
    <2> QED
        BY <1>1, <1>2, <1>3, <2>1, ArrivalTypes
  <1>5. NoneBehind'
      BY <1>1, <1>2 DEF RInv, NoneBehind
  <1>6. \A m \in late' : m < position'
      BY <1>1, <1>2 DEF RInv, NoSilentLoss
  <1>7. InOrder' /\ NoSilentLoss' /\ MadeUpWasMissing' /\ Unstarted'
    <2>1. /\ Ids \cup {n} \subseteq Ids' \cup late' \cup overflowed'
          /\ late \subseteq late' /\ overflowed \subseteq overflowed' /\ n \in late'
        BY <1>1, <1>2
    <2> QED
        BY <1>1, <1>6, <2>1, Accounts
  <1> QED
      BY <1>4, <1>5, <1>7 DEF RInv

(* A second copy of a packet is told by its sequence number: within the      *)
(* window two packets of one number are one.                                 *)
LEMMA Copy ==
  ASSUME RInv, NEW n \in position .. position + Half - 1, n % Modulus \in Held
  PROVE  buffer[n % Modulus].id = n
  <1> DEFINE s == n % Modulus
  <1>1. /\ buffer[s].id \in position .. position + Half - 1 /\ Delta(s) = buffer[s].id - position
        /\ position \in Nat /\ next = position % Modulus
      BY Placed DEF RInv, TypeOK, NoneBehind
  <1>2. Delta(s) = n - position
    <2>1. n \in position .. position + Modulus - 1
        BY <1>1, Sizes
    <2>2. n \in Int /\ position \in Int /\ Modulus \in Nat /\ Modulus > 0
        BY <1>1, Sizes
    <2>3. ((n % Modulus) - (position % Modulus)) % Modulus = n - position
        BY <2>1, <2>2, Window, Zenon
    <2> QED
        BY <1>1, <2>3 DEF Delta
  <1>3. n \in Int /\ buffer[s].id \in Int /\ position \in Int
      BY <1>1, Sizes
  <1>4. buffer[s].id - position = n - position
      BY <1>1, <1>2, Zenon
  <1> HIDE DEF s
  <1>5. buffer[s].id = n
      BY <1>3, <1>4
  <1> QED
      BY <1>5 DEF s

LEMMA RDuplicate == ASSUME RInv, NEW n \in 0 .. Last, DiscardDuplicate(n) PROVE RInv'
  <1>1. /\ Arrive(n) /\ Fresh(n % Modulus) /\ n % Modulus \in Held
        /\ UNCHANGED <<buffer, late, overflowed>>
      BY DEF DiscardDuplicate
  <1>2. /\ n \in position' .. position' + Half - 1 /\ position' = position /\ next' = next
        /\ Held' = Held /\ Ids' = Ids
    <2>1. n \in position' .. position' + Half - 1 /\ position' = position /\ next' = next
        BY <1>1, Arrival
    <2> QED
        BY <1>1, <2>1 DEF Held, Ids
  <1>3. n \in Ids
    <2>1. buffer[n % Modulus].id = n
        BY <1>1, <1>2, Copy
    <2> QED
        BY <1>1, <2>1 DEF Ids
  <1>4. TypeOK'
    <2>1. /\ late' \in SUBSET Nat /\ overflowed' \in SUBSET Nat /\ Held' \subseteq 0 .. Modulus - 1
          /\ Cardinality(Held') <= MaxSize
          /\ \A s \in Held' : buffer'[s] \in [id : Nat, age : 0 .. MaxDelay]
        BY <1>1, <1>2 DEF RInv, TypeOK
    <2> QED
        BY <1>1, <2>1, ArrivalTypes
  <1>5. NoneBehind'
      BY <1>1, <1>2 DEF RInv, NoneBehind
  <1>6. InOrder' /\ NoSilentLoss' /\ MadeUpWasMissing' /\ Unstarted'
    <2>1. /\ Ids \cup {n} \subseteq Ids' \cup late' \cup overflowed'
          /\ late \subseteq late' /\ overflowed \subseteq overflowed'
          /\ ~Fresh(n % Modulus) => n \in late'
        BY <1>1, <1>2, <1>3
    <2>2. \A m \in late' : m < position'
        BY <1>1, <1>2 DEF RInv, NoSilentLoss
    <2> QED
        BY <1>1, <2>1, <2>2, Accounts
  <1> QED
      BY <1>4, <1>5, <1>6 DEF RInv

(* A packet joins those of K, which are held: what the buffer is then.       *)
LEMMA Joined ==
  ASSUME RInv, NEW n \in 0 .. Last, Arrive(n), Fresh(n % Modulus),
         n % Modulus \notin Held, NEW K \in SUBSET Held, Cardinality(K) < MaxSize,
         K # {} => position' = position,
         buffer' = With(Restrict(buffer, K), n % Modulus, Packet(n)),
         late' = late, overflowed' \in SUBSET Nat
  PROVE  /\ TypeOK' /\ NoneBehind' /\ \A m \in late' : m < position'
         /\ Ids' = {buffer[t].id : t \in K} \cup {n}
  <1> DEFINE s == n % Modulus
  <1>1. /\ n \in Nat /\ s \in 0 .. Modulus - 1 /\ position' \in Nat /\ next' = position' % Modulus
        /\ n \in position' .. position' + Half - 1 /\ position' >= position
      BY Arrival
  <1>2. /\ Held' = K \cup {s} /\ buffer'[s] = Packet(n) /\ \A t \in K : buffer'[t] = buffer[t]
      BY DEF Held, With, Restrict
  <1>3. /\ Held \subseteq 0 .. Modulus - 1 /\ late \in SUBSET Nat /\ IsFiniteSet(Held)
        /\ \A t \in Held : buffer[t] \in [id : Nat, age : 0 .. MaxDelay]
      BY FiniteHeld DEF RInv, TypeOK
  <1>4. Cardinality(Held') <= MaxSize
    <2>1. IsFiniteSet(K) /\ Cardinality(K) \in Nat
        BY <1>3, FS_Subset, FS_CardinalityType
    <2>2. Cardinality(K \cup {s}) = Cardinality(K) + 1
        BY <2>1, FS_AddElement
    <2> QED
        BY <1>2, <2>1, <2>2, Sizes
  <1>5. \A t \in Held' : buffer'[t] \in [id : Nat, age : 0 .. MaxDelay]
    <2>1. \A t \in K : buffer'[t] \in [id : Nat, age : 0 .. MaxDelay]
        BY <1>2, <1>3
    <2>2. 0 \in 0 .. MaxDelay
        BY Sizes
    <2>3. Packet(n) \in [id : Nat, age : 0 .. MaxDelay]
        BY <1>1, <2>2 DEF Packet
    <2>4. \A t \in Held' : t \in K \/ t = s
        BY <1>2
    <2> HIDE DEF s
    <2> QED
        BY <1>2, <2>1, <2>3, <2>4
  <1>6. TypeOK'
    <2>1. Held' \subseteq 0 .. Modulus - 1 /\ late' \in SUBSET Nat
        BY <1>1, <1>2, <1>3
    <2> QED
        BY <1>4, <1>5, <2>1, ArrivalTypes
  <1>7. NoneBehind'
    <2> SUFFICES ASSUME NEW t \in Held'
                 PROVE  /\ t = buffer'[t].id % Modulus
                        /\ buffer'[t].id \in position' .. position' + Half - 1
        BY <1>1 DEF NoneBehind
    <2>1. CASE t = s
        BY <1>1, <1>2, <2>1 DEF Packet
    <2>2. CASE t \in K
        BY <1>2, <2>2 DEF RInv, NoneBehind
    <2> QED
        BY <1>2, <2>1, <2>2
  <1>8. \A m \in late' : m < position'
    <2>1. \A m \in late : m \in Nat /\ m < position
        BY <1>3 DEF RInv, NoSilentLoss
    <2>2. position \in Nat
        BY DEF RInv, TypeOK
    <2> QED
        BY <1>1, <2>1, <2>2
  <1>9. Ids' = {buffer[t].id : t \in K} \cup {n}
      BY <1>2 DEF Ids, Packet
  <1> QED
      BY <1>6, <1>7, <1>8, <1>9

LEMMA RStore == ASSUME RInv, NEW n \in 0 .. Last, Store(n) PROVE RInv'
  <1>1. /\ Arrive(n) /\ Fresh(n % Modulus) /\ n % Modulus \notin Held /\ ~Full
        /\ buffer' = With(buffer, n % Modulus, Packet(n)) /\ UNCHANGED <<late, overflowed>>
      BY DEF Store
  <1>2. buffer' = With(Restrict(buffer, Held), n % Modulus, Packet(n))
      BY <1>1 DEF With, Restrict, Held
  <1>3. Cardinality(Held) < MaxSize
      BY <1>1, FiniteHeld, Sizes DEF Full, RInv
  <1>4. Held # {} => position' = position
      BY <1>1, Arrival
  <1>5. late' = late /\ overflowed' \in SUBSET Nat
      BY <1>1 DEF RInv, TypeOK
  <1>6. /\ TypeOK' /\ NoneBehind' /\ \A m \in late' : m < position'
        /\ Ids' = {buffer[t].id : t \in Held} \cup {n}
      BY <1>1, <1>2, <1>3, <1>4, <1>5, Joined
  <1>7. InOrder' /\ NoSilentLoss' /\ MadeUpWasMissing' /\ Unstarted'
    <2>1. /\ Ids \cup {n} \subseteq Ids' \cup late' \cup overflowed'
          /\ late \subseteq late' /\ overflowed \subseteq overflowed'
          /\ ~Fresh(n % Modulus) => n \in late'
        BY <1>1, <1>6 DEF Ids
    <2> QED
        BY <1>1, <1>6, <2>1, Accounts
  <1> QED
      BY <1>6, <1>7 DEF RInv

LEMMA ROverflow == ASSUME RInv, NEW n \in 0 .. Last, Overflow(n) PROVE RInv'
  <1> DEFINE s == n % Modulus
  <1>1. /\ Arrive(n) /\ Fresh(s) /\ s \notin Held /\ Full /\ UNCHANGED late
      BY DEF Overflow
  <1>2. Held # {} /\ Farthest \in Held
    <2>1. Held # {}
        BY <1>1, FiniteHeld, Sizes DEF Full, RInv
    <2> QED
        BY <2>1, Ends DEF RInv
  <1>3. n \in Nat /\ position' = position /\ next' = next
      BY <1>1, <1>2, Arrival
  <1>4. /\ overflowed \in SUBSET Nat /\ late \in SUBSET Nat /\ Cardinality(Held) <= MaxSize
        /\ Held \subseteq 0 .. Modulus - 1
        /\ \A t \in Held : buffer[t] \in [id : Nat, age : 0 .. MaxDelay]
      BY DEF RInv, TypeOK
  <1>5. CASE Delta(s) > Delta(Farthest)
    <2>1. overflowed' = overflowed \cup {n} /\ buffer' = buffer
        BY <1>5 DEF Overflow
    <2>2. Held' = Held /\ Ids' = Ids
        BY <2>1 DEF Held, Ids
    <2>3. TypeOK'
      <3>1. overflowed' \in SUBSET Nat /\ late' \in SUBSET Nat
          BY <1>1, <1>3, <1>4, <2>1
      <3> QED
          BY <1>1, <1>4, <2>1, <2>2, <3>1, ArrivalTypes
    <2>4. NoneBehind'
        BY <1>3, <2>1, <2>2 DEF RInv, NoneBehind
    <2>5. \A m \in late' : m < position'
        BY <1>1, <1>3 DEF RInv, NoSilentLoss
    <2>6. /\ Ids \cup {n} \subseteq Ids' \cup late' \cup overflowed'
          /\ late \subseteq late' /\ overflowed \subseteq overflowed'
          /\ ~Fresh(n % Modulus) => n \in late'
        BY <1>1, <2>1, <2>2
    <2>7. InOrder' /\ NoSilentLoss' /\ MadeUpWasMissing' /\ Unstarted'
        BY <1>1, <2>5, <2>6, Accounts
    <2> QED
        BY <2>3, <2>4, <2>7 DEF RInv
  <1>6. CASE ~(Delta(s) > Delta(Farthest))
    <2> DEFINE K == Held \ {Farthest}
    <2>1. /\ overflowed' = overflowed \cup {buffer[Farthest].id}
          /\ buffer' = With(Restrict(buffer, K), n % Modulus, Packet(n))
        BY <1>6 DEF Overflow, Without
    <2>2. Cardinality(K) < MaxSize
      <3>1. IsFiniteSet(Held) /\ Cardinality(Held) \in Nat
          BY FiniteHeld DEF RInv
      <3>2. Cardinality(K) = Cardinality(Held) - 1
          BY <1>2, <3>1, FS_RemoveElement
      <3> QED
          BY <1>4, <3>1, <3>2, Sizes
    <2>3. overflowed' \in SUBSET Nat
        BY <1>2, <1>4, <2>1
    <2>4. /\ TypeOK' /\ NoneBehind' /\ \A m \in late' : m < position'
          /\ Ids' = {buffer[t].id : t \in K} \cup {n}
        BY <1>1, <1>3, <2>1, <2>2, <2>3, Joined
    <2>5. /\ Ids \cup {n} \subseteq Ids' \cup late' \cup overflowed'
          /\ late \subseteq late' /\ overflowed \subseteq overflowed'
          /\ ~Fresh(n % Modulus) => n \in late'
        BY <1>1, <2>1, <2>4 DEF Ids
    <2>6. InOrder' /\ NoSilentLoss' /\ MadeUpWasMissing' /\ Unstarted'
        BY <1>1, <2>4, <2>5, Accounts
    <2> QED
        BY <2>4, <2>6 DEF RInv
  <1> QED
      BY <1>5, <1>6

-----------------------------------------------------------------------------
(* get_ready_packets                                                         *)

(* The expectation moves d positions on, to the number that stands for them. *)
LEMMA Advanced ==
  ASSUME RInv, NEW k, Advance(k), NEW d \in 0 .. Modulus - 1, k % Modulus = (position + d) % Modulus
  PROVE  position' = position + d /\ next' = position' % Modulus
  <1>1. /\ position \in Nat /\ position + d \in Int /\ next = position % Modulus
        /\ position + d \in position .. position + Modulus - 1
    <2>1. position \in Nat /\ next = position % Modulus
        BY DEF RInv, TypeOK, NoneBehind
    <2> QED
        BY <2>1, Sizes
  <1>2. (((position + d) % Modulus) - (position % Modulus)) % Modulus = (position + d) - position
    <2>1. position \in Int /\ Modulus \in Nat /\ Modulus > 0
        BY <1>1, Sizes
    <2> QED
        BY <1>1, <2>1, Window, Zenon
  <1>3. Delta(k % Modulus) = d
      BY <1>1, <1>2 DEF Delta
  <1> QED
      BY <1>1, <1>3 DEF Advance

LEMMA RRelease == ASSUME RInv, Release PROVE RInv'
  <1> DEFINE b == buffer[next]
  <1>1. /\ next \in Held /\ out' = Append(out, Released(b.id)) /\ hasLast' = TRUE
        /\ buffer' = Without(next) /\ Advance(next + 1)
        /\ UNCHANGED <<initialized, pc, arrived, late, overflowed, arrivals, resets>>
      BY DEF Release, Advance, fate
  <1>2. /\ position \in Nat /\ next \in 0 .. Modulus - 1 /\ next = position % Modulus
        /\ Held \subseteq 0 .. Modulus - 1 /\ out \in Seq([id : Nat, filler : BOOLEAN])
        /\ \A t \in Held : buffer[t] \in [id : Nat, age : 0 .. MaxDelay]
      BY DEF RInv, TypeOK, NoneBehind
  <1>3. b.id = position
    <2>1. Delta(next) = b.id - position
        BY <1>1, Placed DEF RInv
    <2>2. Delta(next) = 0
      <3>1. next - next = 0 /\ 0 % Modulus = 0
          BY <1>2, Sizes, Remainder
      <3> QED
          BY <3>1 DEF Delta
    <2>3. b.id \in Nat
        BY <1>1, <1>2
    <2> HIDE DEF b
    <2> QED
        BY <1>2, <2>1, <2>2, <2>3
  <1>4. position' = position + 1 /\ next' = position' % Modulus
    <2>1. (next + 1) % Modulus = (position + 1) % Modulus
      <3> DEFINE q == position \div Modulus
                 r == (next + 1) % Modulus
                 e == (next + 1) \div Modulus
      <3>0. Modulus \in Nat /\ Modulus > 0 /\ position \in Int /\ next \in Int
            /\ next + 1 \in Int /\ next = position % Modulus
          BY <1>2, Sizes
      <3>1. q \in Int /\ position = q * Modulus + next
        <4>1. q \in Int /\ position = q * Modulus + (position % Modulus)
            BY <3>0, Divided, Zenon
        <4> QED
            BY <3>0, <4>1, Zenon
      <3>2. r \in 0 .. Modulus - 1 /\ e \in Int /\ next + 1 = e * Modulus + r
          BY <3>0, Divided, Zenon
      <3> HIDE DEF q, r, e
      <3>3. position + 1 = (q + e) * Modulus + r
          BY <3>0, <3>1, <3>2
      <3>4. (position + 1) % Modulus = r
        <4>1. position + 1 \in Int /\ q + e \in Int
            BY <3>0, <3>1, <3>2
        <4> QED
            BY <3>0, <3>2, <3>3, <4>1, Remainder, Zenon
      <3> QED
          BY <3>4 DEF r
    <2>2. 1 \in 0 .. Modulus - 1
        BY Sizes
    <2> QED
        BY <1>1, <2>1, <2>2, Advanced
  <1>5. Held' = Held \ {next} /\ \A t \in Held' : buffer'[t] = buffer[t]
      BY <1>1 DEF Held, Without, Restrict
  <1>6. \A t \in Held' : /\ t = buffer'[t].id % Modulus
                         /\ buffer'[t].id \in position' .. position' + Half - 1
    <2> SUFFICES ASSUME NEW t \in Held'
                 PROVE  /\ t = buffer[t].id % Modulus
                        /\ buffer[t].id \in position' .. position' + Half - 1
        BY <1>5
    <2>1. /\ t \in Held /\ t # next /\ buffer[t].id \in Nat /\ t = buffer[t].id % Modulus
          /\ buffer[t].id \in position .. position + Half - 1
        BY <1>2, <1>5 DEF RInv, NoneBehind
    <2>2. buffer[t].id # position
        BY <1>2, <2>1
    <2>3. position' = position + 1
        BY <1>4
    <2>4. buffer[t].id \in position + 1 .. position + 1 + Half - 1
      <3>1. buffer[t].id \in Nat /\ position \in Nat /\ Half \in Nat
            /\ buffer[t].id \in position .. position + Half - 1
          BY <1>2, <2>1, Sizes
      <3> QED
          BY <2>2, <3>1
    <2> QED
        BY <2>1, <2>3, <2>4, Zenon
  <1>7. Len(out) \in Nat /\ DOMAIN out = 1 .. Len(out)
        /\ \A i \in DOMAIN out : out[i] \in [id : Nat, filler : BOOLEAN]
      BY <1>2, Elements, Zenon
  <1>8. /\ DOMAIN out' = 1 .. Len(out) + 1 /\ out'[Len(out) + 1] = Released(position)
        /\ \A i \in DOMAIN out : out'[i] = out[i]
        /\ out' \in Seq([id : Nat, filler : BOOLEAN])
    <2>1. Released(position) \in [id : Nat, filler : BOOLEAN]
        BY <1>2 DEF Released
    <2> QED
        BY <1>1, <1>2, <1>3, <1>7, <2>1
  <1>9. TypeOK'
    <2>1. /\ initialized' \in BOOLEAN /\ hasLast' \in BOOLEAN /\ pc' \in {"idle", "ready"}
          /\ {arrived, late, overflowed}' \subseteq SUBSET Nat
          /\ {arrivals, resets}' \subseteq Nat
        BY <1>1, Zenon DEF RInv, TypeOK
    <2>2. next' \in 0 .. Modulus - 1 /\ position' \in Nat
      <3>1. position' \in Nat /\ position' \in Int
          BY <1>2, <1>4
      <3> QED
          BY <1>4, <3>1, Sizes, Divided, Zenon
    <2>3. Cardinality(Held') <= MaxSize
      <3>1. IsFiniteSet(Held) /\ Cardinality(Held) \in Nat /\ Cardinality(Held) <= MaxSize
          BY FiniteHeld DEF RInv, TypeOK
      <3>2. Cardinality(Held') = Cardinality(Held) - 1
          BY <1>1, <1>5, <3>1, FS_RemoveElement
      <3> QED
          BY <3>1, <3>2, Sizes
    <2>4. Held' \subseteq 0 .. Modulus - 1
          /\ \A t \in Held' : buffer'[t] \in [id : Nat, age : 0 .. MaxDelay]
        BY <1>2, <1>5
    <2> QED
        BY <1>8, <2>1, <2>2, <2>3, <2>4 DEF TypeOK
  <1>10. NoneBehind'
      BY <1>4, <1>6 DEF NoneBehind
  <1>11. InOrder'
    <2>1. \A i \in DOMAIN out : out[i].id \in Nat /\ out[i].id < position
        BY <1>7 DEF RInv, InOrder
    <2>2. \A i \in DOMAIN out' : out'[i].id < position'
      <3>1. position' = position + 1 /\ position \in Nat
          BY <1>2, <1>4
      <3>2. \A i \in DOMAIN out : out'[i].id < position'
          BY <1>8, <2>1, <3>1
      <3>3. out'[Len(out) + 1].id < position'
          BY <1>8, <3>1 DEF Released
      <3> QED
          BY <1>7, <1>8, <3>2, <3>3
    <2>3. ASSUME NEW i \in DOMAIN out', NEW j \in DOMAIN out', i < j
          PROVE  out'[i].id < out'[j].id
      <3>1. i \in DOMAIN out
          BY <1>7, <1>8, <2>3
      <3>2. CASE j \in DOMAIN out
          BY <1>8, <2>3, <3>1, <3>2 DEF RInv, InOrder
      <3>3. CASE j = Len(out) + 1
          BY <1>8, <2>1, <3>1, <3>3 DEF Released
      <3> QED
          BY <1>7, <1>8, <3>2, <3>3
    <2> QED
        BY <2>2, <2>3 DEF InOrder
  <1>12. NoSilentLoss'
    <2>1. Ids \subseteq Ids' \cup OutIds' /\ OutIds \subseteq OutIds'
      <3>1. OutIds \subseteq OutIds' /\ position \in OutIds'
          BY <1>7, <1>8 DEF OutIds, Released
      <3>2. \A t \in Held : buffer[t].id \in Ids' \cup OutIds'
          BY <1>3, <1>5, <3>1 DEF Ids
      <3> QED
          BY <3>1, <3>2 DEF Ids
    <2>2. \A m \in late : m \in Nat /\ m < position
        BY DEF RInv, NoSilentLoss, TypeOK
    <2>3. \A m \in late' : m < position'
        BY <1>1, <1>2, <1>4, <2>2
    <2> QED
        BY <1>1, <2>1, <2>3 DEF RInv, NoSilentLoss
  <1>13. MadeUpWasMissing'
    <2> SUFFICES ASSUME NEW i \in DOMAIN out', out'[i].filler, out'[i].id \in arrived
                 PROVE  out'[i].id \in late \cup overflowed
        BY <1>1 DEF MadeUpWasMissing
    <2>1. i \in DOMAIN out
        BY <1>7, <1>8 DEF Released
    <2> QED
        BY <1>8, <2>1 DEF RInv, MadeUpWasMissing
  <1>14. Unstarted'
    <2>1. initialized
        BY <1>1 DEF RInv, Unstarted
    <2> QED
        BY <1>1, <2>1 DEF Unstarted
  <1> QED
      BY <1>9, <1>10, <1>11, <1>12, <1>13, <1>14 DEF RInv

(* The packets missing before the nearest one are given up or made up.       *)
LEMMA RSkip == ASSUME RInv, Skip PROVE RInv'
  <1> DEFINE b == buffer[Nearest]
             k == Delta(Nearest)
  <1>1. /\ Ahead # {} /\ buffer' = Restrict(buffer, Ahead) /\ Advance(Nearest)
        /\ out' = out \/ out' = out \o Fillers(k)
        /\ UNCHANGED <<initialized, hasLast, pc, arrived, late, overflowed, arrivals, resets>>
      BY DEF Skip, Advance, fate
  <1>2. /\ position \in Nat /\ next \in 0 .. Modulus - 1
        /\ Held \subseteq 0 .. Modulus - 1 /\ out \in Seq([id : Nat, filler : BOOLEAN])
        /\ \A t \in Held : buffer[t] \in [id : Nat, age : 0 .. MaxDelay]
      BY DEF RInv, TypeOK
  <1>3. Ahead = Held /\ Nearest \in Held /\ \A t \in Held : Delta(Nearest) <= Delta(t)
    <2>1. Ahead = Held
        BY NobodyBehind DEF RInv
    <2> QED
        BY <1>1, <2>1, Ends DEF RInv
  <1>4. /\ b.id \in position .. position + Half - 1 /\ k = b.id - position
        /\ Nearest = b.id % Modulus
      BY <1>3, Placed DEF RInv
  <1>5. k \in 0 .. Half - 1 /\ b.id = position + k
    <2>1. b.id \in Int /\ position \in Nat /\ Half \in Nat
        BY <1>2, <1>4, Sizes
    <2>2. b.id - position \in 0 .. Half - 1 /\ b.id = position + (b.id - position)
        BY <1>4, <2>1
    <2> QED
        BY <1>4, <2>2, Zenon
  <1>6. position' = position + k /\ next' = position' % Modulus
    <2>1. k \in 0 .. Modulus - 1
        BY <1>5, Sizes
    <2>2. Nearest % Modulus = Nearest
      <3>1. Nearest \in 0 .. Modulus - 1 /\ Nearest = 0 * Modulus + Nearest
          BY <1>2, <1>3, Sizes
      <3> QED
          BY <3>1, Sizes, Remainder
    <2>3. Nearest % Modulus = (position + k) % Modulus
        BY <1>4, <1>5, <2>2, Zenon
    <2> QED
        BY <1>1, <2>1, <2>3, Advanced
  <1>7. Held' = Held /\ Ids' = Ids /\ \A t \in Held : buffer'[t] = buffer[t]
      BY <1>1, <1>3 DEF Held, Ids, Restrict
  <1>8. \A t \in Held : /\ buffer[t].id \in Nat
                        /\ buffer[t].id \in position + k .. position + k + Half - 1
                        /\ t = buffer[t].id % Modulus
    <2> TAKE t \in Held
    <2>1. /\ buffer[t].id \in position .. position + Half - 1
          /\ Delta(t) = buffer[t].id - position /\ t = buffer[t].id % Modulus
        BY Placed DEF RInv
    <2>2. k <= Delta(t)
        BY <1>3
    <2>3. buffer[t].id \in Nat
        BY <1>2
    <2>4. ASSUME NEW i \in Nat, NEW p \in Nat, NEW d \in 0 .. Half - 1, NEW h \in Nat, h = Half,
                 i \in p .. p + h - 1, d <= i - p
          PROVE  i \in p + d .. p + d + h - 1
        BY <2>4
    <2> QED
        BY <1>2, <1>5, <2>1, <2>2, <2>3, <2>4, Sizes
  <1> HIDE DEF b, k
  <1>9. Len(out) \in Nat /\ DOMAIN out = 1 .. Len(out)
        /\ \A i \in DOMAIN out : out[i] \in [id : Nat, filler : BOOLEAN]
      BY <1>2, Elements, Zenon
  <1>10. \A i \in DOMAIN out : out[i].id \in Nat /\ out[i].id < position
      BY <1>9 DEF RInv, InOrder
  <1>11. /\ Fillers(k) \in Seq([id : Nat, filler : BOOLEAN]) /\ Len(Fillers(k)) = k
         /\ \A i \in 1 .. k : Fillers(k)[i] = Filler(position + i - 1)
    <2>1. k \in Nat
        BY <1>5, Sizes
    <2>2. \A i \in 1 .. k : Filler(position + i - 1) \in [id : Nat, filler : BOOLEAN]
        BY <1>2, <2>1 DEF Filler
    <2> QED
        BY <2>1, <2>2 DEF Fillers
  <1>12. PICK m \in {0, k} :
           /\ out' \in Seq([id : Nat, filler : BOOLEAN]) /\ DOMAIN out' = 1 .. Len(out) + m
           /\ \A i \in DOMAIN out : out'[i] = out[i]
           /\ \A i \in DOMAIN out' \ DOMAIN out : out'[i] = Filler(position + (i - Len(out)) - 1)
    <2>1. CASE out' = out
        BY <1>2, <1>9, <2>1
    <2>2. CASE out' = out \o Fillers(k)
      <3>1. /\ out' \in Seq([id : Nat, filler : BOOLEAN]) /\ Len(out') = Len(out) + k
            /\ \A i \in 1 .. Len(out) + k : out'[i] = IF i <= Len(out) THEN out[i]
                                                      ELSE Fillers(k)[i - Len(out)]
          BY <1>2, <1>11, <2>2, ConcatProperties
      <3>2. DOMAIN out' = 1 .. Len(out) + k
          BY <3>1, Elements
      <3>3. \A i \in DOMAIN out : out'[i] = out[i]
          BY <1>5, <1>9, <3>1, Sizes
      <3>4. \A i \in DOMAIN out' \ DOMAIN out : out'[i] = Filler(position + (i - Len(out)) - 1)
        <4> TAKE i \in DOMAIN out' \ DOMAIN out
        <4>1. i \in 1 .. Len(out) + k /\ ~(i <= Len(out)) /\ i - Len(out) \in 1 .. k
            BY <1>5, <1>9, <3>2, Sizes
        <4> QED
            BY <1>11, <3>1, <4>1
      <3> QED
          BY <3>1, <3>2, <3>3, <3>4
    <2> QED
        BY <1>1, <2>1, <2>2
  <1>13. \A i \in DOMAIN out' \ DOMAIN out :
           /\ i > Len(out) /\ i \in Nat /\ out'[i].filler
           /\ out'[i].id = position + (i - Len(out)) - 1
           /\ out'[i].id \in position .. position + k - 1
    <2> TAKE i \in DOMAIN out' \ DOMAIN out
    <2>1. i \in 1 .. Len(out) + m /\ i \notin 1 .. Len(out) /\ m \in Nat /\ m <= k
        BY <1>5, <1>9, <1>12, Sizes
    <2>2. out'[i].filler /\ out'[i].id = position + (i - Len(out)) - 1
        BY <1>12 DEF Filler
    <2>3. i \in Nat /\ i > Len(out)
        BY <1>9, <2>1
    <2>4. position + (i - Len(out)) - 1 \in position .. position + k - 1
        BY <1>2, <1>5, <1>9, <2>1, <2>3
    <2> QED
        BY <2>2, <2>3, <2>4
  <1>14. TypeOK'
    <2>1. /\ initialized' \in BOOLEAN /\ hasLast' \in BOOLEAN /\ pc' \in {"idle", "ready"}
          /\ {arrived, late, overflowed}' \subseteq SUBSET Nat
          /\ {arrivals, resets}' \subseteq Nat
        BY <1>1, Zenon DEF RInv, TypeOK
    <2>2. position' \in Nat
        BY <1>2, <1>5, <1>6, Sizes
    <2>3. next' \in 0 .. Modulus - 1
        BY <1>6, <2>2, Sizes, Divided
    <2>4. /\ Held' \subseteq 0 .. Modulus - 1 /\ Cardinality(Held') <= MaxSize
          /\ \A t \in Held' : buffer'[t] \in [id : Nat, age : 0 .. MaxDelay]
        BY <1>2, <1>7 DEF RInv, TypeOK
    <2> QED
        BY <1>12, <2>1, <2>2, <2>3, <2>4 DEF TypeOK
  <1>15. NoneBehind'
      BY <1>6, <1>7, <1>8 DEF NoneBehind
  <1>16. InOrder'
    <2>1. position' = position + k /\ position \in Nat /\ k \in Nat
        BY <1>2, <1>5, <1>6, Sizes
    <2>2. \A i \in DOMAIN out' : out'[i].id < position'
      <3> TAKE i \in DOMAIN out'
      <3>1. CASE i \in DOMAIN out
          BY <1>10, <1>12, <2>1, <3>1
      <3>2. CASE i \notin DOMAIN out
          BY <1>13, <2>1, <3>2
      <3> QED
          BY <3>1, <3>2
    <2>3. ASSUME NEW i \in DOMAIN out', NEW j \in DOMAIN out', i < j
          PROVE  out'[i].id < out'[j].id
      <3>1. CASE j \in DOMAIN out
        <4>1. i \in DOMAIN out
            BY <1>9, <1>12, <2>3, <3>1
        <4> QED
            BY <1>12, <2>3, <3>1, <4>1 DEF RInv, InOrder
      <3>2. CASE j \notin DOMAIN out /\ i \in DOMAIN out
        <4>1. out'[i].id = out[i].id /\ out[i].id \in Nat /\ out[i].id < position
            BY <1>10, <1>12, <3>2
        <4>2. out'[j].id \in Nat /\ out'[j].id >= position
            BY <1>13, <2>1, <3>2
        <4> QED
            BY <2>1, <4>1, <4>2
      <3>3. CASE j \notin DOMAIN out /\ i \notin DOMAIN out
        <4>1. /\ out'[i].id = position + (i - Len(out)) - 1 /\ i \in Nat
              /\ out'[j].id = position + (j - Len(out)) - 1 /\ j \in Nat
            BY <1>13, <3>3
        <4> QED
            BY <1>9, <2>1, <2>3, <4>1
      <3> QED
          BY <3>1, <3>2, <3>3
    <2> QED
        BY <2>2, <2>3 DEF InOrder
  <1>17. OutIds \subseteq OutIds'
    <2>1. DOMAIN out \subseteq DOMAIN out'
      <3>1. k \in Nat
          BY <1>5, Sizes
      <3> HIDE DEF k
      <3> QED
          BY <1>9, <1>12, <3>1
    <2> QED
        BY <1>12, <2>1 DEF OutIds
  <1>18. NoSilentLoss'
    <2>1. \A n \in late : n \in Nat /\ n < position
        BY DEF RInv, NoSilentLoss, TypeOK
    <2>2. \A n \in late' : n < position'
        BY <1>1, <1>2, <1>5, <1>6, <2>1, Sizes
    <2> QED
        BY <1>1, <1>7, <1>17, <2>2 DEF RInv, NoSilentLoss
  <1>19. MadeUpWasMissing'
    <2> SUFFICES ASSUME NEW i \in DOMAIN out', out'[i].filler, out'[i].id \in arrived
                 PROVE  out'[i].id \in late \cup overflowed
        BY <1>1 DEF MadeUpWasMissing
    <2>1. CASE i \in DOMAIN out
        BY <1>12, <2>1 DEF RInv, MadeUpWasMissing
    <2>2. CASE i \notin DOMAIN out
      <3>1. out'[i].id \in position .. position + k - 1
          BY <1>13, <2>2
      <3>2. out'[i].id \notin OutIds
          BY <1>2, <1>5, <1>10, <3>1 DEF OutIds
      <3>3. out'[i].id \notin Ids
          BY <1>2, <1>5, <1>8, <3>1, Sizes DEF Ids
      <3> QED
          BY <3>2, <3>3 DEF RInv, NoSilentLoss
    <2> QED
        BY <2>1, <2>2
  <1>20. Unstarted'
    <2>1. initialized
        BY <1>3 DEF RInv, Unstarted
    <2> QED
        BY <1>1, <2>1 DEF Unstarted
  <1> QED
      BY <1>14, <1>15, <1>16, <1>18, <1>19, <1>20 DEF RInv

(* A step that leaves the stream alone and of the packets held changes at    *)
(* most the age.                                                             *)
LEMMA Aged ==
  ASSUME RInv, UNCHANGED <<stream, hasLast, out, fate, arrivals, resets>>,
         pc' \in {"idle", "ready"}, Held' = Held,
         \A s \in Held : /\ buffer'[s].id = buffer[s].id
                         /\ buffer'[s] \in [id : Nat, age : 0 .. MaxDelay]
  PROVE  RInv'
  <1>1. /\ initialized' = initialized /\ next' = next /\ position' = position
        /\ hasLast' = hasLast /\ out' = out /\ arrivals' = arrivals /\ resets' = resets
        /\ arrived' = arrived /\ late' = late /\ overflowed' = overflowed
      BY DEF stream, fate
  <1>2. Ids' = Ids /\ OutIds' = OutIds
      BY <1>1 DEF Ids, OutIds
  <1>3. TypeOK'
      BY <1>1, Zenon DEF RInv, TypeOK
  <1>4. NoneBehind'
      BY <1>1, Zenon DEF RInv, NoneBehind
  <1>5. InOrder' /\ NoSilentLoss' /\ MadeUpWasMissing' /\ Unstarted'
      BY <1>1, <1>2, Zenon DEF RInv, InOrder, NoSilentLoss, MadeUpWasMissing, Unstarted
  <1> QED
      BY <1>3, <1>4, <1>5 DEF RInv

(* No packet held is behind, so the end of a poll discards none.             *)
LEMMA RDone == ASSUME RInv, Done PROVE RInv'
  <1>1. Ahead = Held
      BY NobodyBehind DEF RInv
  <1>2. Held' = Held /\ \A s \in Held : buffer'[s] = buffer[s]
      BY <1>1 DEF Done, Held, Restrict
  <1>3. \A s \in Held : buffer[s] \in [id : Nat, age : 0 .. MaxDelay]
      BY DEF RInv, TypeOK
  <1> QED
      BY <1>2, <1>3, Aged DEF Done

LEMMA RPoll == ASSUME RInv, Poll PROVE RInv'
  <1>1. Held' = Held /\ buffer' = buffer
      BY DEF Poll, Held
  <1>2. \A s \in Held : buffer[s] \in [id : Nat, age : 0 .. MaxDelay]
      BY DEF RInv, TypeOK
  <1> QED
      BY <1>1, <1>2, Aged DEF Poll

LEMMA RTick == ASSUME RInv, Tick PROVE RInv'
  <1>1. \A s \in Held : buffer[s] \in [id : Nat, age : 0 .. MaxDelay]
      BY DEF RInv, TypeOK
  <1>2. /\ Held' = Held
        /\ \A s \in Held : buffer'[s] = [buffer[s] EXCEPT !.age = IF @ < MaxDelay THEN @ + 1 ELSE @]
      BY DEF Tick, Held
  <1>3. \A s \in Held : /\ buffer'[s].id = buffer[s].id
                        /\ buffer'[s] \in [id : Nat, age : 0 .. MaxDelay]
    <2> SUFFICES ASSUME NEW s \in Held
                 PROVE  /\ buffer'[s].id = buffer[s].id
                        /\ buffer'[s] \in [id : Nat, age : 0 .. MaxDelay]
        OBVIOUS
    <2> DEFINE p == buffer[s]
    <2>1. p \in [id : Nat, age : 0 .. MaxDelay]
        BY <1>1
    <2>2. buffer'[s] = [p EXCEPT !.age = IF p.age < MaxDelay THEN p.age + 1 ELSE p.age]
        BY <1>2
    <2>3. MaxDelay \in Nat
        BY ReorderingAssumption
    <2> HIDE DEF p
    <2>4. (IF p.age < MaxDelay THEN p.age + 1 ELSE p.age) \in 0 .. MaxDelay
        BY <2>1, <2>3
    <2>5. /\ buffer'[s].id = p.id
          /\ buffer'[s] \in [id : Nat, age : 0 .. MaxDelay]
        BY <2>1, <2>2, <2>4
    <2> QED
        BY <2>5 DEF p
  <1>4. pc' \in {"idle", "ready"}
      BY DEF Tick
  <1>5. UNCHANGED <<stream, hasLast, out, fate, arrivals, resets>>
      BY DEF Tick
  <1> QED
      BY <1>2, <1>3, <1>4, <1>5, Aged

LEMMA RReset == ASSUME RInv, Reset PROVE RInv'
  <1>1. /\ initialized' = FALSE /\ next' = 0 /\ position' = 0
        /\ buffer' = Empty /\ hasLast' = FALSE /\ out' = <<>>
        /\ arrived' = {} /\ late' = {} /\ overflowed' = {}
        /\ pc' = pc /\ arrivals' = arrivals /\ resets' = resets + 1
      BY DEF Reset
  <1>2. Held' = {} /\ DOMAIN out' = {} /\ Cardinality(Held') = 0
      BY <1>1, FS_EmptySet DEF Held, Empty
  <1>3. 0 % Modulus = 0 /\ 0 \in 0 .. Modulus - 1
      BY Sizes, Remainder
  <1>4. TypeOK'
    <2>1. pc' \in {"idle", "ready"} /\ arrivals' \in Nat /\ resets' \in Nat
        BY <1>1 DEF RInv, TypeOK
    <2>2. out' \in Seq([id : Nat, filler : BOOLEAN])
        BY <1>1
    <2>3. {arrived', late', overflowed'} \subseteq SUBSET Nat /\ {arrivals', resets'} \subseteq Nat
        BY <1>1, <2>1
    <2>4. Held' \subseteq 0 .. Modulus - 1 /\ Cardinality(Held') <= MaxSize
        BY <1>2, Sizes
    <2>5. \A s \in Held' : buffer'[s] \in [id : Nat, age : 0 .. MaxDelay]
        BY <1>2
    <2> QED
        BY <1>1, <1>2, <1>3, <2>1, <2>2, <2>3, <2>4, <2>5 DEF TypeOK
  <1>5. NoneBehind'
      BY <1>1, <1>2, <1>3 DEF NoneBehind
  <1>6. InOrder' /\ NoSilentLoss' /\ MadeUpWasMissing' /\ Unstarted'
      BY <1>1, <1>2 DEF InOrder, NoSilentLoss, MadeUpWasMissing, Unstarted
  <1> QED
      BY <1>4, <1>5, <1>6 DEF RInv

LEMMA RStutter == ASSUME RInv, UNCHANGED vars PROVE RInv'
  <1>1. Held' = Held /\ buffer' = buffer
      BY DEF vars, Held
  <1>2. /\ pc' \in {"idle", "ready"}
        /\ \A s \in Held : buffer[s] \in [id : Nat, age : 0 .. MaxDelay]
      BY DEF RInv, TypeOK, vars
  <1> QED
      BY <1>1, <1>2, Aged DEF vars

LEMMA RNext == RInv /\ (Next \/ UNCHANGED vars) => RInv'
  <1> SUFFICES ASSUME RInv, Next \/ UNCHANGED vars PROVE RInv'
      OBVIOUS
  <1>1. CASE \E n \in 0 .. Last :
               DiscardLate(n) \/ DiscardDuplicate(n) \/ Store(n) \/ Overflow(n)
      BY <1>1, RLate, RDuplicate, RStore, ROverflow
  <1>2. CASE GetReady
      BY <1>2, RRelease, RSkip, RDone DEF GetReady
  <1>3. CASE Poll \/ Reset \/ Tick
      BY <1>3, RPoll, RReset, RTick
  <1>4. CASE UNCHANGED vars
      BY <1>4, RStutter
  <1> QED
      BY <1>1, <1>2, <1>3, <1>4 DEF Next

-----------------------------------------------------------------------------
(* The accounts of the reordering buffer are right after every step of the   *)
(* receiver thread, whatever the sizes and wherever the stream starts.       *)
THEOREM ReorderingInvariance == AllSpec => []RInv
  <1>1. AllInit => RInv
      BY RInit DEF AllInit
  <1> QED
      BY <1>1, RNext, Apart, PTL DEF AllSpec

(* add_packet's comparison of wrapped sequence numbers places every packet   *)
(* held at or after the expected one, so none is taken for its successor     *)
(* one turn of the counter later.                                            *)
THEOREM NonePlacedBehind == AllSpec => []NoneBehind
  <1>1. RInv => NoneBehind
      BY DEF RInv
  <1> QED
      BY <1>1, ReorderingInvariance, PTL

(* get_ready_packets hands packets on in the order they were sent, each      *)
(* position at most once, across the wrap of the sequence number and whether *)
(* the packet came or was made up.                                           *)
THEOREM ReleasedInOrder == AllSpec => []InOrder
  <1>1. RInv => InOrder
      BY DEF RInv
  <1> QED
      BY <1>1, ReorderingInvariance, PTL

(* A packet given to add_packet is held, handed on, or discarded for one of  *)
(* the two reasons the code has: it came late, or the buffer was full.       *)
THEOREM NothingLost == AllSpec => []NoSilentLoss
  <1>1. RInv => NoSilentLoss
      BY DEF RInv
  <1> QED
      BY <1>1, ReorderingInvariance, PTL

(* get_ready_packets makes up a packet only where none was there to hand on. *)
THEOREM OnlyMissingMadeUp == AllSpec => []MadeUpWasMissing
  <1>1. RInv => MadeUpWasMissing
      BY DEF RInv
  <1> QED
      BY <1>1, ReorderingInvariance, PTL

-----------------------------------------------------------------------------
(* ClockManager, its two instances at once: they differ in their constants.  *)
ClockOrClients == kind \in {"clock", "clients"}
KConds   == IF kind = "clients" THEN ClientConds ELSE ClockConds
KFormats == IF kind = "clients" THEN ClientFormats ELSE ClockFormats
KLate    == IF kind = "clients" THEN ClientLate ELSE ClockLate
KEntries == {f \in KFormats : kUntil[f] # 3 * ChunkBytes}
Nothing  == [rate |-> 0]
Beat(f)  == clock!Period(f)

ClockTypes ==
  /\ kUntil \in [KFormats -> Int] /\ kAhead \in [KConds -> Int]
  /\ kFormat \in [KConds -> KFormats \cup {Nothing}] /\ kNext \in KFormats \cup {Nothing}
  /\ kTodo \subseteq KConds

(* An entry is never later than the worker may be; it is more than a period  *)
(* ahead only if it was made anew while the worker had its timer in hand.    *)
EntriesInTime ==
  /\ \A f \in KEntries : kUntil[f] \in -KLate .. 2 * Beat(f)
  /\ \A c \in KConds : kFormat[c] # Nothing => kFormat[c] \in KEntries

(* Only active conditions of the entry in hand are still to be ticked.       *)
TodoActive ==
  /\ kTodo # {} => kWorker = "tick" /\ kNext # Nothing
  /\ \A c \in kTodo : kFormat[c] = kNext

(* What a client will have been given when the tick in hand is through       *)
Given(c) == IF c \in kTodo THEN kAhead[c] + Beat(kFormat[c]) ELSE kAhead[c]

(* It stands for no more than the time to the next tick and a period and a   *)
(* half.  A client that joined a late entry is caught up with it by then.    *)
Within(b, u, p) == \/ b <= 0
                   \/ u > p /\ b <= p
                   \/ u <= p /\ b < u + p + p \div 2
GivenWithin ==
  \A c \in KConds : kFormat[c] # Nothing => Within(Given(c), kUntil[kFormat[c]], Beat(kFormat[c]))

(* The timer in hand was for an entry that has been made anew.               *)
FiredEarly ==
  kWorker = "fired" =>
    /\ kNext # Nothing
    /\ kNext \in KEntries =>
         /\ kUntil[kNext] <= Beat(kNext)
         /\ kUntil[kNext] > 0 => \A c \in KConds : kFormat[c] = kNext => kAhead[c] <= 0

ClockInv == ClockTypes /\ EntriesInTime /\ TodoActive /\ GivenWithin /\ FiredEarly

-----------------------------------------------------------------------------
(* Periods and the ends of sets of numbers.                                  *)

LEMMA Larger ==
  ASSUME NEW a \in Int, NEW b \in Int
  PROVE  /\ clock!Max({a, b}) = IF a >= b THEN a ELSE b
         /\ clients!Max({a, b}) = IF a >= b THEN a ELSE b
  BY DEF clock!Max, clients!Max

LEMMA Product ==
  ASSUME NEW a \in Nat \ {0}, NEW b \in Nat \ {0}
  PROVE  a * b \in Nat \ {0}
  OBVIOUS

LEMMA Quotient ==
  ASSUME NEW a \in Nat, NEW d \in Nat \ {0}
  PROVE  a \div d \in 0 .. a
  <1> DEFINE q == a \div d
  <1>1. q \in Int /\ a % d \in 0 .. d - 1 /\ a = q * d + (a % d)
      BY Divided
  <1> HIDE DEF q
  <1>2. q >= 0
      BY <1>1
  <1>3. q <= q * d
      BY <1>1, <1>2
  <1> QED
      BY <1>1, <1>2, <1>3 DEF q

LEMMA Halved ==
  ASSUME NEW p \in Nat
  PROVE  p \div 2 \in Nat /\ 2 * (p \div 2) <= p /\ p <= 2 * (p \div 2) + 1
  OBVIOUS

LEMMA Beats ==
  ASSUME NEW f \in ClockFormats \cup ClientFormats
  PROVE  Beat(f) \in 1 .. ChunkBytes /\ clients!Period(f) = Beat(f) /\ f # Nothing
  <1> DEFINE d == f.rate * f.channels * (f.bits \div 8)
             q == ChunkBytes \div d
  <1>1. f \in AudioFormat /\ f.bits >= 8 /\ ChunkBytes \in Nat \ {0}
      BY ClockConstants
  <1>2. f.rate \in Nat \ {0} /\ f.channels \in Nat \ {0} /\ f.bits \in Nat
      BY <1>1 DEF AudioFormat
  <1>3. f.bits \div 8 \in Nat \ {0}
      BY <1>1, <1>2
  <1>4. d \in Nat \ {0}
    <2>1. f.rate * f.channels \in Nat \ {0}
        BY <1>2, Product
    <2> QED
        BY <1>3, <2>1, Product
  <1>5. q \in 0 .. ChunkBytes
      BY <1>1, <1>4, Quotient
  <1>6. f # Nothing
      BY <1>2 DEF Nothing
  <1>7. clock!Period(f) = clock!Max({1, q}) /\ clients!Period(f) = clients!Max({1, q})
      BY DEF clock!Period, clients!Period
  <1> HIDE DEF q
  <1>8. clock!Max({1, q}) = clients!Max({1, q}) /\ clock!Max({1, q}) \in 1 .. ChunkBytes
      BY <1>1, <1>5, Larger
  <1> QED
      BY <1>6, <1>7, <1>8 DEF Beat

LEMMA Smallness ==
  ASSUME NEW T \in SUBSET Nat, T # {}
  PROVE  clock!Min(T) = clients!Min(T) /\ clock!Min(T) \in T /\ \A n \in T : clock!Min(T) <= n
  <1>1. \E x \in T : \A y \in T : x <= y
      BY Smallest
  <1> QED
      BY <1>1, Zenon DEF clock!Min, clients!Min

LEMMA Multiplied ==
  ASSUME NEW m \in Nat, NEW p \in Nat
  PROVE  m * p \in Nat /\ (m + 1) * p = m * p + p /\ (p >= 1 => m * p >= m)
  OBVIOUS

(* The first tick that is not missed.                                        *)
LEMMA CatchesUp ==
  ASSUME ClockOrClients, NEW left \in Int, left >= -KLate, NEW p \in Nat \ {0}
  PROVE  \E v \in Int :
           /\ kind = "clock" => clock!Advanced(left, p) = v
           /\ kind = "clients" => clients!Advanced(left, p) = v
           /\ v >= left + p /\ v + p \div 2 > 0 /\ (v = left + p \/ v <= p)
  <1> DEFINE T == {n \in 1 .. (2 * KLate + 2) : left + n * p + p \div 2 > 0}
             m == clock!Min(T)
  <1>1. KLate \in Nat \ {0}
      BY ClockConstants DEF KLate
  <1>2. p \div 2 \in Nat /\ 2 * (p \div 2) <= p
      BY Halved
  <1>3. T \in SUBSET Nat
      BY <1>1
  <1>4. KLate + 1 \in T
    <2>1. (KLate + 1) * p >= KLate + 1 /\ (KLate + 1) * p \in Nat
        BY <1>1, Multiplied
    <2> QED
        BY <1>1, <1>2, <2>1
  <1>5. m = clients!Min(T) /\ m \in T /\ \A n \in T : m <= n
    <2> HIDE DEF T
    <2> QED
        BY <1>3, <1>4, Smallness, Zenon
  <1>6. /\ kind = "clock" => clock!Advanced(left, p) = left + clock!Min(T) * p
        /\ kind = "clients" => clients!Advanced(left, p) = left + clients!Min(T) * p
      BY Zenon DEF clock!Advanced, clients!Advanced, KLate
  <1>7. /\ m \in 1 .. (2 * KLate + 2) /\ left + m * p + p \div 2 > 0
        /\ m - 1 \notin T
      BY <1>1, <1>3, <1>5
  <1> HIDE DEF m
  <1>8. m - 1 \in Nat /\ m * p = (m - 1) * p + p /\ (m - 1) * p \in Nat
    <2>1. m - 1 \in Nat /\ m = (m - 1) + 1
        BY <1>1, <1>7
    <2> QED
        BY <2>1, Multiplied
  <1>9. m = 1 \/ left + (m - 1) * p + p \div 2 <= 0
    <2>1. m # 1 => m - 1 \in 1 .. (2 * KLate + 2)
        BY <1>1, <1>7
    <2>2. (left + (m - 1) * p) + p \div 2 \in Int
        BY <1>2, <1>8
    <2> QED
        BY <1>2, <1>7, <1>8, <2>1, <2>2
  <1>10. left + m * p = left + p \/ left + m * p <= p
    <2>1. CASE m = 1
        BY <1>8, <2>1
    <2>2. CASE left + (m - 1) * p + p \div 2 <= 0
        BY <1>2, <1>8, <2>2
    <2> QED
        BY <1>9, <2>1, <2>2
  <1>11. left + m * p \in Int /\ left + m * p >= left + p
      BY <1>8
  <1>12. /\ kind = "clock" => clock!Advanced(left, p) = left + m * p
         /\ kind = "clients" => clients!Advanced(left, p) = left + m * p
      BY <1>5, <1>6 DEF m
  <1> QED
      BY <1>7, <1>10, <1>11, <1>12

-----------------------------------------------------------------------------
(* The invariant along the clock's steps.                                    *)

LEMMA ClockSizes ==
  /\ KFormats \subseteq ClockFormats \cup ClientFormats
  /\ KLate \in Nat \ {0} /\ ChunkBytes \in Nat \ {0}
  /\ \A f \in KFormats : /\ Beat(f) \in 1 .. ChunkBytes /\ Beat(f) \div 2 \in Nat
                         /\ 2 * (Beat(f) \div 2) <= Beat(f) /\ Beat(f) <= 2 * (Beat(f) \div 2) + 1
                         /\ f # Nothing
  <1>1. KFormats \subseteq ClockFormats \cup ClientFormats
      BY DEF KFormats
  <1>2. KLate \in Nat \ {0} /\ ChunkBytes \in Nat \ {0}
      BY ClockConstants DEF KLate
  <1>3. ASSUME NEW f \in KFormats
        PROVE  /\ Beat(f) \in 1 .. ChunkBytes /\ Beat(f) \div 2 \in Nat
               /\ 2 * (Beat(f) \div 2) <= Beat(f) /\ Beat(f) <= 2 * (Beat(f) \div 2) + 1
               /\ f # Nothing
    <2>1. Beat(f) \in 1 .. ChunkBytes /\ f # Nothing
        BY <1>1, Beats
    <2>2. Beat(f) \in Nat
        BY <1>2, <2>1
    <2> QED
        BY <2>1, <2>2, Halved
  <1> QED
      BY <1>1, <1>2, <1>3

(* What the definitions of the instance at hand come to.                     *)
LEMMA OneClock ==
  /\ kind = "clock" =>
       /\ clock!Entries = KEntries /\ clock!None = Nothing /\ clock!Absent = 3 * ChunkBytes
       /\ \A f : clock!Of(f) = {c \in KConds : kFormat[c] = f}
  /\ kind = "clients" =>
       /\ clients!Entries = KEntries /\ clients!None = Nothing /\ clients!Absent = 3 * ChunkBytes
       /\ \A f : clients!Of(f) = {c \in KConds : kFormat[c] = f}
  BY Zenon DEF clock!Entries, clock!None, clock!Absent, clock!Of, clients!Entries, clients!None,
     clients!Absent, clients!Of, KEntries, KFormats, KConds, Nothing

LEMMA ClockBegins == AllInit => ClockInv
  <1> SUFFICES ASSUME AllInit PROVE ClockInv
      OBVIOUS
  <1>1. /\ kUntil = [f \in KFormats |-> 3 * ChunkBytes] /\ kFormat = [c \in KConds |-> Nothing]
        /\ kAhead = [c \in KConds |-> 0] /\ kWorker = "scan" /\ kNext = Nothing /\ kTodo = {}
    <2>1. CASE kind = "clients"
        BY <2>1 DEF AllInit, clients!Init, clients!None, clients!Absent, KFormats, KConds, Nothing
    <2>2. CASE kind # "clients"
        BY <2>2 DEF AllInit, clock!Init, clock!None, clock!Absent, KFormats, KConds, Nothing
    <2> QED
        BY <2>1, <2>2
  <1>2. KEntries = {}
      BY <1>1 DEF KEntries
  <1> QED
      BY <1>1, <1>2, ClockSizes DEF ClockInv, ClockTypes, EntriesInTime, TodoActive, GivenWithin,
         FiredEarly

(* What a step that changes neither entries nor conditions must not do.      *)
LEMMA ClockQuiet ==
  ASSUME ClockInv, kind' = kind, UNCHANGED <<kUntil, kFormat, kAhead, kTodo>>,
         kNext' \in KFormats \cup {Nothing},
         kTodo # {} => kWorker' = "tick" /\ kNext' = kNext,
         kWorker' = "fired" => \/ kWorker = "fired" /\ kNext' = kNext
                               \/ kNext' # Nothing /\ kUntil[kNext'] <= 0
  PROVE  ClockInv'
  <1>1. /\ KFormats' = KFormats /\ KConds' = KConds /\ KLate' = KLate /\ KEntries' = KEntries
        /\ \A c \in KConds : Given(c)' = Given(c)
      BY DEF KFormats, KConds, KLate, KEntries, Given
  <1>2. ClockTypes'
      BY <1>1 DEF ClockInv, ClockTypes
  <1>3. EntriesInTime'
      BY <1>1 DEF ClockInv, EntriesInTime
  <1>4. TodoActive'
      BY DEF ClockInv, TodoActive
  <1>5. GivenWithin'
      BY <1>1 DEF ClockInv, GivenWithin
  <1>6. FiredEarly'
    <2>1. CASE kWorker' = "fired" /\ kWorker = "fired" /\ kNext' = kNext
        BY <1>1, <2>1 DEF ClockInv, FiredEarly
    <2>2. CASE kNext' # Nothing /\ kUntil[kNext'] <= 0
      <3>1. kNext' \in KFormats /\ kUntil[kNext'] \in Int
          BY <2>2 DEF ClockInv, ClockTypes
      <3>2. kUntil[kNext'] <= Beat(kNext')
          BY <2>2, <3>1, ClockSizes
      <3> QED
          BY <1>1, <2>2, <3>1, <3>2 DEF FiredEarly
    <2> QED
        BY <2>1, <2>2 DEF FiredEarly
  <1> QED
      BY <1>2, <1>3, <1>4, <1>5, <1>6 DEF ClockInv

(* Looking, waiting, waking and stopping.                                    *)
LEMMA ClockIdle ==
  ASSUME ClockInv, kind = "clock", kind' = kind,
         \/ \E c \in ClockConds : clock!Look(c)
         \/ clock!Destroy \/ clock!Scan \/ clock!ArmFails \/ clock!Woken \/ clock!TimerFires \/ clock!EndWorker
         \/ UNCHANGED clockVars
  PROVE  ClockInv'
  <1>1. kTodo # {} => kWorker = "tick" /\ kNext # Nothing
      BY DEF ClockInv, TodoActive
  <1>2. kNext \in KFormats \cup {Nothing} /\ clock!None = Nothing
      BY DEF ClockInv, ClockTypes, clock!None, Nothing
  <1>3. CASE \/ \E c \in ClockConds : clock!Look(c)
             \/ clock!Destroy \/ clock!ArmFails \/ clock!Woken \/ clock!EndWorker \/ UNCHANGED clockVars
    <2>1. /\ UNCHANGED <<kUntil, kFormat, kAhead, kTodo>> /\ kNext' = kNext
          /\ kWorker = "tick" => kWorker' = "tick"
          /\ kWorker' = "fired" => kWorker = "fired"
        BY <1>3 DEF clock!Look, clock!Destroy, clock!ArmFails, clock!Woken, clock!EndWorker, clock!Worker,
           clock!WakeWorker, clock!entryVars, clock!condVars, clock!workerVars, clockVars
    <2> QED
        BY <1>1, <1>2, <2>1, ClockQuiet
  <1>4. CASE clock!Scan
    <2>1. clock!Entries \subseteq KFormats
        BY DEF clock!Entries, KFormats
    <2>2. kNext' \in KFormats \cup {Nothing}
        BY <1>2, <1>4, <2>1, Zenon DEF clock!Scan
    <2>3. kWorker = "scan" /\ kWorker' # "fired" /\ UNCHANGED <<kUntil, kFormat, kAhead, kTodo>>
        BY <1>4 DEF clock!Scan, clock!Worker, clock!entryVars, clock!condVars
    <2> QED
        BY <1>1, <2>2, <2>3, ClockQuiet
  <1>5. CASE clock!TimerFires
    <2>1. /\ kWorker # "tick" /\ UNCHANGED <<kUntil, kFormat, kAhead, kTodo>> /\ kNext' = kNext
          /\ kNext # Nothing /\ kUntil[kNext] <= 0
        BY <1>2, <1>5 DEF clock!TimerFires, clock!Worker, clock!entryVars, clock!condVars
    <2> QED
        BY <1>1, <1>2, <2>1, ClockQuiet
  <1> QED
      BY <1>3, <1>4, <1>5

LEMMA ClientsIdle ==
  ASSUME ClockInv, kind = "clients", kind' = kind,
         \/ \E c \in ClientConds : clients!Look(c)
         \/ clients!Destroy \/ clients!Scan \/ clients!ArmFails \/ clients!Woken \/ clients!TimerFires \/ clients!EndWorker
         \/ UNCHANGED clockVars
  PROVE  ClockInv'
  <1>1. kTodo # {} => kWorker = "tick" /\ kNext # Nothing
      BY DEF ClockInv, TodoActive
  <1>2. kNext \in KFormats \cup {Nothing} /\ clients!None = Nothing
      BY DEF ClockInv, ClockTypes, clients!None, Nothing
  <1>3. CASE \/ \E c \in ClientConds : clients!Look(c)
             \/ clients!Destroy \/ clients!ArmFails \/ clients!Woken \/ clients!EndWorker \/ UNCHANGED clockVars
    <2>1. /\ UNCHANGED <<kUntil, kFormat, kAhead, kTodo>> /\ kNext' = kNext
          /\ kWorker = "tick" => kWorker' = "tick"
          /\ kWorker' = "fired" => kWorker = "fired"
        BY <1>3 DEF clients!Look, clients!Destroy, clients!ArmFails, clients!Woken, clients!EndWorker, clients!Worker,
           clients!WakeWorker, clients!entryVars, clients!condVars, clients!workerVars, clockVars
    <2> QED
        BY <1>1, <1>2, <2>1, ClockQuiet
  <1>4. CASE clients!Scan
    <2>1. clients!Entries \subseteq KFormats
        BY DEF clients!Entries, KFormats
    <2>2. kNext' \in KFormats \cup {Nothing}
        BY <1>2, <1>4, <2>1, Zenon DEF clients!Scan
    <2>3. kWorker = "scan" /\ kWorker' # "fired" /\ UNCHANGED <<kUntil, kFormat, kAhead, kTodo>>
        BY <1>4 DEF clients!Scan, clients!Worker, clients!entryVars, clients!condVars
    <2> QED
        BY <1>1, <2>2, <2>3, ClockQuiet
  <1>5. CASE clients!TimerFires
    <2>1. /\ kWorker # "tick" /\ UNCHANGED <<kUntil, kFormat, kAhead, kTodo>> /\ kNext' = kNext
          /\ kNext # Nothing /\ kUntil[kNext] <= 0
        BY <1>2, <1>5 DEF clients!TimerFires, clients!Worker, clients!entryVars, clients!condVars
    <2> QED
        BY <1>1, <1>2, <2>1, ClockQuiet
  <1> QED
      BY <1>3, <1>4, <1>5

(* register_clock_condition                                                  *)
LEMMA ClockRegister ==
  ASSUME ClockInv, kind' = kind, NEW c \in KConds, NEW f \in KFormats,
         (kind = "clock" /\ clock!Register(c, f)) \/ (kind = "clients" /\ clients!Register(c, f))
  PROVE  ClockInv'
  <1> USE DEF ClockInv
  <1>1. /\ kFormat[c] = Nothing /\ kFormat' = [kFormat EXCEPT ![c] = f]
        /\ kUntil' = IF f \in KEntries THEN kUntil ELSE [kUntil EXCEPT ![f] = Beat(f)]
        /\ kAhead' = [kAhead EXCEPT ![c] = 0] /\ kNext' = kNext /\ kTodo' = kTodo
        /\ kWorker' = IF kWorker = "cv_wait" THEN "scan" ELSE kWorker
    <2>1. CASE kind = "clock" /\ clock!Register(c, f)
        BY <2>1, OneClock, Zenon DEF clock!Register, clock!WakeWorker, Beat
    <2>2. CASE kind = "clients" /\ clients!Register(c, f)
      <3>1. clients!Period(f) = Beat(f)
          BY ClockSizes, Beats
      <3> QED
          BY <2>2, <3>1, OneClock, Zenon DEF clients!Register, clients!WakeWorker
    <2> QED
        BY <2>1, <2>2
  <1>2. KFormats' = KFormats /\ KConds' = KConds /\ KLate' = KLate
      BY DEF KFormats, KConds, KLate
  <1>3. /\ kUntil \in [KFormats -> Int] /\ kAhead \in [KConds -> Int]
        /\ kFormat \in [KConds -> KFormats \cup {Nothing}] /\ f # Nothing
        /\ Beat(f) \in 1 .. ChunkBytes /\ KLate \in Nat \ {0} /\ ChunkBytes \in Nat \ {0}
      BY ClockSizes DEF ClockTypes
  <1>4. /\ KEntries' = KEntries \cup {f}
        /\ \A g \in KEntries : kUntil'[g] = kUntil[g]
        /\ f \notin KEntries => kUntil'[f] = Beat(f)
      BY <1>1, <1>2, <1>3 DEF KEntries
  <1>5. /\ kFormat'[c] = f /\ kAhead'[c] = 0
        /\ \A d \in KConds \ {c} : kFormat'[d] = kFormat[d] /\ kAhead'[d] = kAhead[d]
      BY <1>1, <1>3
  <1>6. c \notin kTodo
      BY <1>1, <1>3 DEF TodoActive
  <1>7. ClockTypes'
      BY <1>1, <1>2, <1>3 DEF ClockTypes
  <1>8. EntriesInTime'
      BY <1>2, <1>3, <1>4, <1>5 DEF EntriesInTime
  <1>9. TodoActive'
      BY <1>1, <1>5, <1>6, <1>7 DEF TodoActive, ClockTypes
  <1>10. GivenWithin'
    <2> SUFFICES ASSUME NEW d \in KConds, kFormat'[d] # Nothing
                 PROVE  Within(Given(d)', kUntil'[kFormat'[d]], Beat(kFormat'[d]))
        BY <1>2 DEF GivenWithin
    <2>1. CASE d = c
      <3>1. Given(d)' = 0
          BY <1>1, <1>5, <1>6, <2>1 DEF Given
      <3> QED
          BY <3>1 DEF Within
    <2>2. CASE d # c
      <3>1. kFormat'[d] = kFormat[d] /\ kFormat[d] \in KEntries
          BY <1>5, <2>2 DEF EntriesInTime
      <3>2. Given(d)' = Given(d) /\ kUntil'[kFormat'[d]] = kUntil[kFormat[d]]
          BY <1>1, <1>4, <1>5, <2>2, <3>1 DEF Given
      <3> QED
          BY <3>1, <3>2 DEF GivenWithin
    <2> QED
        BY <2>1, <2>2
  <1>11. FiredEarly'
    <2> SUFFICES ASSUME kWorker' = "fired"
                 PROVE  /\ kNext' # Nothing
                        /\ kNext' \in KEntries' => kUntil'[kNext'] <= Beat(kNext')
                        /\ kNext' \in KEntries' /\ kUntil'[kNext'] > 0 =>
                             \A d \in KConds : kFormat'[d] = kNext' => kAhead'[d] <= 0
        BY <1>2 DEF FiredEarly
    <2>1. kNext' # Nothing /\ (kNext' \in KEntries' => kUntil'[kNext'] <= Beat(kNext'))
        BY <1>1, <1>3, <1>4 DEF FiredEarly
    <2>2. ASSUME kNext' \in KEntries', kUntil'[kNext'] > 0, NEW d \in KConds, kFormat'[d] = kNext'
          PROVE  kAhead'[d] <= 0
      <3>1. CASE d = c
          BY <1>5, <3>1
      <3>2. CASE d # c
        <4>1. kFormat[d] = kNext /\ kFormat[d] \in KEntries
            BY <1>1, <1>5, <2>1, <2>2, <3>2 DEF EntriesInTime
        <4> QED
            BY <1>1, <1>4, <1>5, <2>2, <3>2, <4>1 DEF FiredEarly
      <3> QED
          BY <3>1, <3>2
    <2> QED
        BY <2>1, <2>2
  <1> QED
      BY <1>7, <1>8, <1>9, <1>10, <1>11

(* unregister_clock_condition                                                *)
LEMMA ClockUnregister ==
  ASSUME ClockInv, kind' = kind, NEW c \in KConds,
         (kind = "clock" /\ clock!Unregister(c)) \/ (kind = "clients" /\ clients!Unregister(c))
  PROVE  ClockInv'
  <1> USE DEF ClockInv
  <1> DEFINE f == kFormat[c]
             left == {d \in KConds : kFormat[d] = f}
  <1>1. /\ f # Nothing /\ kFormat' = [kFormat EXCEPT ![c] = Nothing]
        /\ kUntil' = IF left = {c} THEN [kUntil EXCEPT ![f] = 3 * ChunkBytes] ELSE kUntil
        /\ kAhead' = [kAhead EXCEPT ![c] = 0] /\ kNext' = kNext /\ kTodo' = kTodo \ {c}
        /\ kWorker' = IF kWorker = "cv_wait" THEN "scan" ELSE kWorker
    <2>1. CASE kind = "clock" /\ clock!Unregister(c)
        BY <2>1, OneClock, Zenon DEF clock!Unregister, clock!Registered, clock!WakeWorker
    <2>2. CASE kind = "clients" /\ clients!Unregister(c)
        BY <2>2, OneClock, Zenon DEF clients!Unregister, clients!Registered, clients!WakeWorker
    <2> QED
        BY <2>1, <2>2
  <1>2. KFormats' = KFormats /\ KConds' = KConds /\ KLate' = KLate
      BY DEF KFormats, KConds, KLate
  <1>3. /\ kUntil \in [KFormats -> Int] /\ kAhead \in [KConds -> Int]
        /\ kFormat \in [KConds -> KFormats \cup {Nothing}] /\ f \in KFormats
        /\ ChunkBytes \in Nat \ {0}
      BY <1>1, ClockSizes DEF ClockTypes
  <1>4. /\ kFormat'[c] = Nothing
        /\ \A d \in KConds \ {c} : kFormat'[d] = kFormat[d] /\ kAhead'[d] = kAhead[d]
      BY <1>1, <1>3
  <1>5. /\ KEntries' \subseteq KEntries /\ \A g \in KEntries' : kUntil'[g] = kUntil[g]
        /\ \A g \in KEntries : g # f \/ left # {c} => g \in KEntries'
      BY <1>1, <1>2, <1>3 DEF KEntries
  <1>6. \A d \in KConds \ {c} : kFormat[d] # Nothing => kFormat[d] \in KEntries'
      BY <1>5 DEF EntriesInTime
  <1>7. ClockTypes'
      BY <1>1, <1>2, <1>3 DEF ClockTypes
  <1>8. EntriesInTime'
    <2>1. \A g \in KEntries' : kUntil'[g] \in -KLate .. 2 * Beat(g)
        BY <1>5 DEF EntriesInTime
    <2>2. \A d \in KConds : kFormat'[d] # Nothing => kFormat'[d] \in KEntries'
        BY <1>4, <1>6
    <2> QED
        BY <1>2, <2>1, <2>2 DEF EntriesInTime
  <1>9. TodoActive'
      BY <1>1, <1>4, <1>7 DEF TodoActive, ClockTypes
  <1>10. GivenWithin'
    <2> SUFFICES ASSUME NEW d \in KConds, kFormat'[d] # Nothing
                 PROVE  Within(Given(d)', kUntil'[kFormat'[d]], Beat(kFormat'[d]))
        BY <1>2 DEF GivenWithin
    <2>1. d # c /\ kFormat'[d] = kFormat[d] /\ kFormat[d] \in KEntries'
        BY <1>4, <1>6
    <2>2. Given(d)' = Given(d) /\ kUntil'[kFormat'[d]] = kUntil[kFormat[d]]
        BY <1>1, <1>4, <1>5, <2>1 DEF Given
    <2> QED
        BY <2>1, <2>2 DEF GivenWithin
  <1>11. FiredEarly'
    <2> SUFFICES ASSUME kWorker' = "fired"
                 PROVE  /\ kNext' # Nothing
                        /\ kNext' \in KEntries' => kUntil'[kNext'] <= Beat(kNext')
                        /\ kNext' \in KEntries' /\ kUntil'[kNext'] > 0 =>
                             \A d \in KConds : kFormat'[d] = kNext' => kAhead'[d] <= 0
        BY <1>2 DEF FiredEarly
    <2>1. kNext' # Nothing /\ (kNext' \in KEntries' => kUntil'[kNext'] <= Beat(kNext'))
        BY <1>1, <1>5 DEF FiredEarly
    <2>2. ASSUME kNext' \in KEntries', kUntil'[kNext'] > 0, NEW d \in KConds, kFormat'[d] = kNext'
          PROVE  kAhead'[d] <= 0
        BY <1>1, <1>4, <1>5, <2>1, <2>2 DEF FiredEarly
    <2> QED
        BY <2>1, <2>2
  <1> QED
      BY <1>7, <1>8, <1>9, <1>10, <1>11

(* A tick falls due: the entry moves on, and its conditions are to be ticked.*)
LEMMA ClockFire ==
  ASSUME ClockInv, kind' = kind,
         (kind = "clock" /\ clock!Fire) \/ (kind = "clients" /\ clients!Fire)
  PROVE  ClockInv'
  <1> USE DEF ClockInv
  <1>1. /\ kWorker = "fired" /\ kNext # Nothing
        /\ UNCHANGED <<kFormat, kAhead, kNext>>
    <2>1. kWorker = "fired" /\ UNCHANGED <<kFormat, kAhead, kNext>>
        BY Zenon DEF clock!Fire, clock!condVars, clients!Fire, clients!condVars
    <2> QED
        BY <2>1 DEF FiredEarly
  <1>2. CASE kNext \notin KEntries
    <2>1. kWorker' = "scan" /\ UNCHANGED <<kUntil, kTodo>>
        BY <1>2, OneClock, Zenon DEF clock!Fire, clients!Fire
    <2>2. kTodo = {} /\ kNext \in KFormats \cup {Nothing}
        BY <1>1 DEF TodoActive, ClockTypes
    <2> QED
        BY <1>1, <2>1, <2>2, ClockQuiet
  <1>3. CASE kNext \in KEntries
    <2> DEFINE left == kUntil[kNext]
               p == Beat(kNext)
               h == p \div 2
    <2>1. /\ kNext \in KFormats /\ left \in Int /\ left >= -KLate /\ left <= p
          /\ p \in 1 .. ChunkBytes /\ p \in Nat \ {0} /\ h \in Nat /\ KLate \in Nat /\ 2 * h <= p
          /\ ChunkBytes \in Nat \ {0}
          /\ kUntil \in [KFormats -> Int] /\ kAhead \in [KConds -> Int]
      <3>1. kNext \in KFormats /\ left \in -KLate .. 2 * p
          BY <1>3 DEF EntriesInTime, KEntries
      <3>2. left <= p
          BY <1>1, <1>3 DEF FiredEarly
      <3>3. kUntil \in [KFormats -> Int] /\ kAhead \in [KConds -> Int]
          BY DEF ClockTypes
      <3> QED
          BY <3>1, <3>2, <3>3, ClockSizes
    <2>2. PICK v \in Int :
            /\ kind = "clock" => clock!Advanced(left, p) = v
            /\ kind = "clients" => clients!Advanced(left, p) = v
            /\ v >= left + p /\ v + h > 0 /\ (v = left + p \/ v <= p)
      <3>1. ClockOrClients
          BY DEF ClockOrClients
      <3> HIDE DEF left, p
      <3> QED
          BY <2>1, <3>1, CatchesUp
    <2>3. /\ kUntil' = [kUntil EXCEPT ![kNext] = v] /\ kWorker' = "tick"
          /\ kTodo' = {c \in KConds : kFormat[c] = kNext}
      <3>1. CASE kind = "clock" /\ clock!Fire
          BY <1>3, <2>2, <3>1, OneClock, Zenon DEF clock!Fire, Beat
      <3>2. CASE kind = "clients" /\ clients!Fire
        <4>1. clients!Period(kNext) = p
            BY <2>1, ClockSizes, Beats
        <4> QED
            BY <1>3, <2>2, <3>2, <4>1, OneClock, Zenon DEF clients!Fire
      <3> QED
          BY <3>1, <3>2
    <2>4. KFormats' = KFormats /\ KConds' = KConds /\ KLate' = KLate
        BY DEF KFormats, KConds, KLate
    <2> HIDE DEF left, p, h
    <2>5. v \in -KLate .. 2 * p /\ v # 3 * ChunkBytes
        BY <2>1, <2>2
    <2>6. /\ kUntil'[kNext] = v /\ KEntries' = KEntries
          /\ \A g \in KFormats \ {kNext} : kUntil'[g] = kUntil[g]
      <3>1. kUntil'[kNext] = v /\ \A g \in KFormats \ {kNext} : kUntil'[g] = kUntil[g]
          BY <2>1, <2>3
      <3> QED
          BY <1>3, <2>4, <2>5, <3>1 DEF KEntries
    <2>7. kTodo = {}
        BY <1>1 DEF TodoActive
    <2>8. ClockTypes'
        BY <1>1, <2>1, <2>3, <2>4 DEF ClockTypes
    <2>9. EntriesInTime'
        BY <1>1, <2>4, <2>5, <2>6 DEF EntriesInTime, KEntries, p
    <2>10. TodoActive'
        BY <1>1, <2>3 DEF TodoActive
    <2>11. GivenWithin'
      <3> SUFFICES ASSUME NEW c \in KConds, kFormat[c] # Nothing
                   PROVE  Within(Given(c)', kUntil'[kFormat[c]], Beat(kFormat[c]))
          BY <1>1, <2>4 DEF GivenWithin
      <3>1. /\ kFormat[c] \in KFormats /\ Given(c) = kAhead[c] /\ kAhead[c] \in Int
            /\ Within(kAhead[c], kUntil[kFormat[c]], Beat(kFormat[c]))
          BY <2>1, <2>7 DEF GivenWithin, Given, EntriesInTime, KEntries
      <3>2. CASE kFormat[c] # kNext
        <4>1. Given(c)' = kAhead[c]
            BY <1>1, <2>3, <3>2 DEF Given
        <4> QED
            BY <2>6, <3>1, <3>2, <4>1
      <3>3. CASE kFormat[c] = kNext
        <4>1. Given(c)' = kAhead[c] + p /\ kUntil'[kFormat[c]] = v
            BY <1>1, <2>3, <2>6, <3>3 DEF Given, p
        <4>2. left > 0 => kAhead[c] <= 0
            BY <1>1, <1>3, <3>3 DEF FiredEarly, left
        <4>3. Within(kAhead[c], left, p)
            BY <3>1, <3>3 DEF left, p
        <4>4. Within(kAhead[c] + p, v, p)
          <5>1. CASE left > 0
            <6>1. v = left + p /\ v > p
                BY <2>1, <2>2, <5>1
            <6> QED
                BY <2>1, <3>1, <4>2, <5>1, <6>1 DEF Within
          <5>2. CASE left <= 0 /\ kAhead[c] <= 0
            <6>1. kAhead[c] + p < v + p + h /\ v <= p
                BY <2>1, <2>2, <3>1, <5>2
            <6> QED
                BY <6>1 DEF Within, h
          <5>3. CASE left <= 0 /\ kAhead[c] < left + p + h
            <6>1. kAhead[c] + p < v + p + h /\ v <= p
                BY <2>1, <2>2, <3>1, <5>3
            <6> QED
                BY <6>1 DEF Within, h
          <5> QED
              BY <2>1, <4>3, <5>1, <5>2, <5>3 DEF Within, h
        <4> QED
            BY <3>3, <4>1, <4>4 DEF p
      <3> QED
          BY <3>2, <3>3
    <2>12. FiredEarly'
        BY <2>3 DEF FiredEarly
    <2> QED
        BY <2>8, <2>9, <2>10, <2>11, <2>12
  <1> QED
      BY <1>2, <1>3

(* The tick in hand counts as given already, so giving it changes nothing.   *)
LEMMA ClockTickOne ==
  ASSUME ClockInv, kind' = kind,
         (kind = "clock" /\ clock!TickOne) \/ (kind = "clients" /\ clients!TickOne)
  PROVE  ClockInv'
  <1> USE DEF ClockInv
  <1>1. PICK c \in kTodo :
          /\ kWorker = "tick" /\ kTodo' = kTodo \ {c}
          /\ kAhead' = [kAhead EXCEPT ![c] = @ + Beat(kNext)]
          /\ UNCHANGED <<kUntil, kFormat, kWorker, kNext>>
    <2>1. CASE kind = "clock" /\ clock!TickOne
        BY <2>1, Zenon DEF clock!TickOne, clock!entryVars, Beat
    <2>2. CASE kind = "clients" /\ clients!TickOne
      <3>1. clients!Period(kNext) = Beat(kNext)
        <4>1. kTodo # {} /\ kNext \in KFormats
            BY <2>2 DEF clients!TickOne, TodoActive, ClockTypes
        <4> QED
            BY <4>1, ClockSizes, Beats
      <3> QED
          BY <2>2, <3>1, Zenon DEF clients!TickOne, clients!entryVars
    <2> QED
        BY <2>1, <2>2
  <1>2. KFormats' = KFormats /\ KConds' = KConds /\ KLate' = KLate /\ KEntries' = KEntries
      BY <1>1 DEF KFormats, KConds, KLate, KEntries
  <1>3. /\ c \in KConds /\ kNext \in KFormats /\ kFormat[c] = kNext /\ Beat(kNext) \in Int
        /\ kAhead \in [KConds -> Int] /\ ChunkBytes \in Nat
      BY ClockSizes DEF ClockTypes, TodoActive
  <1>4. \A d \in KConds : Given(d)' = Given(d)
      BY <1>1, <1>3 DEF Given
  <1>5. ClockTypes'
      BY <1>1, <1>2, <1>3 DEF ClockTypes
  <1>6. EntriesInTime'
      BY <1>1, <1>2 DEF EntriesInTime
  <1>7. TodoActive'
      BY <1>1 DEF TodoActive
  <1>8. GivenWithin'
      BY <1>1, <1>2, <1>4 DEF GivenWithin
  <1>9. FiredEarly'
      BY <1>1 DEF FiredEarly
  <1> QED
      BY <1>5, <1>6, <1>7, <1>8, <1>9

(* The conditions not ticked because of a stop stay behind.                  *)
LEMMA ClockTicked ==
  ASSUME ClockInv, kind' = kind,
         (kind = "clock" /\ clock!Ticked) \/ (kind = "clients" /\ clients!Ticked)
  PROVE  ClockInv'
  <1> USE DEF ClockInv
  <1>1. kWorker' = "scan" /\ kTodo' = {} /\ UNCHANGED <<kUntil, kFormat, kAhead, kNext>>
      BY Zenon DEF clock!Ticked, clock!Worker, clock!entryVars, clock!condVars, clients!Ticked,
         clients!Worker, clients!entryVars, clients!condVars
  <1>2. KFormats' = KFormats /\ KConds' = KConds /\ KLate' = KLate /\ KEntries' = KEntries
      BY <1>1 DEF KFormats, KConds, KLate, KEntries
  <1>3. ClockTypes'
      BY <1>1, <1>2 DEF ClockTypes
  <1>4. EntriesInTime'
      BY <1>1, <1>2 DEF EntriesInTime
  <1>5. GivenWithin'
    <2> SUFFICES ASSUME NEW c \in KConds, kFormat[c] # Nothing
                 PROVE  Within(kAhead[c], kUntil[kFormat[c]], Beat(kFormat[c]))
        BY <1>1, <1>2 DEF GivenWithin, Given
    <2> DEFINE f == kFormat[c]
    <2>1. /\ f \in KFormats /\ kUntil[f] \in Int /\ kAhead[c] \in Int
          /\ Within(Given(c), kUntil[f], Beat(f))
          /\ Beat(f) \in Nat /\ Beat(f) \div 2 \in Nat
        BY ClockSizes DEF ClockTypes, GivenWithin
    <2>2. Given(c) \in Int /\ kAhead[c] <= Given(c)
        BY <2>1 DEF Given
    <2> QED
        BY <2>1, <2>2 DEF Within
  <1>6. TodoActive' /\ FiredEarly'
      BY <1>1 DEF TodoActive, FiredEarly
  <1> QED
      BY <1>3, <1>4, <1>5, <1>6

(* Time passes for the entries and their clients alike.                      *)
LEMMA ClockElapse ==
  ASSUME ClockInv, kind' = kind,
         (kind = "clock" /\ clock!Elapse) \/ (kind = "clients" /\ clients!Elapse)
  PROVE  ClockInv'
  <1> USE DEF ClockInv
  <1> DEFINE Less(c) == IF kAhead[c] - 1 >= -Beat(kFormat[c]) THEN kAhead[c] - 1 ELSE -Beat(kFormat[c])
  <1>0. /\ kUntil \in [KFormats -> Int] /\ kAhead \in [KConds -> Int]
        /\ kFormat \in [KConds -> KFormats \cup {Nothing}]
        /\ KLate \in Nat \ {0} /\ ChunkBytes \in Nat \ {0}
      BY ClockSizes DEF ClockTypes
  <1>1. /\ \A f \in KEntries : kUntil[f] > -KLate
        /\ kUntil' = [f \in KFormats |-> IF f \in KEntries THEN kUntil[f] - 1 ELSE kUntil[f]]
        /\ kAhead' = [c \in KConds |-> IF kFormat[c] # Nothing THEN Less(c) ELSE 0]
        /\ UNCHANGED <<kFormat, kWorker, kNext, kTodo>>
    <2>1. CASE kind = "clock" /\ clock!Elapse
      <3>1. /\ \A f \in KEntries : kUntil[f] > -KLate
            /\ kUntil' = [f \in KFormats |-> IF f \in KEntries THEN kUntil[f] - 1 ELSE kUntil[f]]
            /\ kAhead' = [c \in KConds |-> IF kFormat[c] # Nothing
                                           THEN clock!Max({kAhead[c] - 1, -Beat(kFormat[c])}) ELSE 0]
            /\ UNCHANGED <<kFormat, kWorker, kNext, kTodo>>
          BY <2>1, OneClock, Zenon DEF clock!Elapse, clock!Registered, clock!workerVars, KFormats,
             KConds, KLate, Beat
      <3>2. ASSUME NEW c \in KConds, kFormat[c] # Nothing
            PROVE  clock!Max({kAhead[c] - 1, -Beat(kFormat[c])}) = Less(c)
        <4>1. kAhead[c] - 1 \in Int /\ -Beat(kFormat[c]) \in Int
            BY <1>0, <3>2, ClockSizes
        <4> QED
            BY <4>1, Larger, Zenon
      <3> HIDE DEF Less
      <3> QED
          BY <3>1, <3>2
    <2>2. CASE kind = "clients" /\ clients!Elapse
      <3>1. /\ \A f \in KEntries : kUntil[f] > -KLate
            /\ kUntil' = [f \in KFormats |-> IF f \in KEntries THEN kUntil[f] - 1 ELSE kUntil[f]]
            /\ kAhead' = [c \in KConds |-> IF kFormat[c] # Nothing
                              THEN clients!Max({kAhead[c] - 1, -clients!Period(kFormat[c])}) ELSE 0]
            /\ UNCHANGED <<kFormat, kWorker, kNext, kTodo>>
          BY <2>2, OneClock, Zenon DEF clients!Elapse, clients!Registered, clients!workerVars,
             KFormats, KConds, KLate
      <3>2. ASSUME NEW c \in KConds, kFormat[c] # Nothing
            PROVE  clients!Max({kAhead[c] - 1, -clients!Period(kFormat[c])}) = Less(c)
        <4>1. /\ kAhead[c] - 1 \in Int /\ -Beat(kFormat[c]) \in Int
              /\ clients!Period(kFormat[c]) = Beat(kFormat[c])
            BY <1>0, <3>2, ClockSizes, Beats
        <4> QED
            BY <4>1, Larger, Zenon
      <3> HIDE DEF Less
      <3> QED
          BY <3>1, <3>2
    <2> QED
        BY <2>1, <2>2
  <1>2. KFormats' = KFormats /\ KConds' = KConds /\ KLate' = KLate
      BY DEF KFormats, KConds, KLate
  <1>3. \A f \in KEntries : /\ f \in KFormats /\ kUntil[f] \in -KLate + 1 .. 2 * Beat(f)
                            /\ kUntil'[f] = kUntil[f] - 1 /\ kUntil'[f] \in -KLate .. 2 * Beat(f)
                            /\ kUntil'[f] # 3 * ChunkBytes
    <2> SUFFICES ASSUME NEW f \in KEntries
                 PROVE  /\ f \in KFormats /\ kUntil[f] \in -KLate + 1 .. 2 * Beat(f)
                        /\ kUntil'[f] = kUntil[f] - 1 /\ kUntil'[f] \in -KLate .. 2 * Beat(f)
                        /\ kUntil'[f] # 3 * ChunkBytes
        OBVIOUS
    <2>1. f \in KFormats /\ Beat(f) \in 1 .. ChunkBytes
        BY ClockSizes DEF KEntries
    <2>2. kUntil[f] \in -KLate .. 2 * Beat(f) /\ kUntil[f] > -KLate
        BY <1>1 DEF EntriesInTime
    <2>3. kUntil'[f] = kUntil[f] - 1
        BY <1>1, <2>1
    <2> QED
        BY <1>0, <2>1, <2>2, <2>3
  <1>4. KEntries' = KEntries
    <2>1. \A f \in KFormats \ KEntries : kUntil'[f] = kUntil[f]
        BY <1>1
    <2> QED
        BY <1>2, <1>3, <2>1 DEF KEntries
  <1>5. ASSUME NEW c \in KConds, kFormat[c] # Nothing
        PROVE  /\ kFormat[c] \in KEntries /\ kFormat[c] \in KFormats
               /\ kAhead'[c] = Less(c) /\ kAhead[c] \in Int /\ Less(c) \in Int
    <2>1. kFormat[c] \in KEntries /\ kFormat[c] \in KFormats
        BY <1>5 DEF EntriesInTime, KEntries
    <2>2. Beat(kFormat[c]) \in Int
        BY <2>1, ClockSizes
    <2>3. kAhead'[c] = Less(c)
        BY <1>1, <1>5
    <2> QED
        BY <1>0, <2>1, <2>2, <2>3
  <1>6. ClockTypes'
    <2>1. kUntil' \in [KFormats -> Int]
        BY <1>0, <1>1
    <2>2. kAhead' \in [KConds -> Int]
      <3> HIDE DEF Less
      <3> QED
          BY <1>1, <1>5
    <2> QED
        BY <1>1, <1>2, <2>1, <2>2 DEF ClockTypes
  <1>7. EntriesInTime'
      BY <1>1, <1>2, <1>3, <1>4 DEF EntriesInTime
  <1>8. TodoActive'
      BY <1>1 DEF TodoActive
  <1>9. GivenWithin'
    <2> SUFFICES ASSUME NEW c \in KConds, kFormat[c] # Nothing
                 PROVE  Within(Given(c)', kUntil'[kFormat[c]], Beat(kFormat[c]))
        BY <1>1, <1>2 DEF GivenWithin
    <2> DEFINE f == kFormat[c]
               p == Beat(f)
               h == p \div 2
               u == kUntil[f]
    <2>1. /\ u \in Int /\ kUntil'[f] = u - 1 /\ kAhead[c] \in Int
          /\ p \in Nat \ {0} /\ h \in Nat /\ p <= 2 * h + 1 /\ u - 1 >= -KLate
          /\ kAhead'[c] = IF kAhead[c] - 1 >= -p THEN kAhead[c] - 1 ELSE -p
        BY <1>0, <1>3, <1>5, ClockSizes
    <2>2. Within(Given(c), u, p)
        BY DEF GivenWithin
    <2> HIDE DEF f, p, h, u
    <2>3. CASE kAhead[c] - 1 >= -p
      <3>1. Given(c)' = Given(c) - 1 /\ Given(c) \in Int
          BY <1>1, <2>1, <2>3 DEF Given, f, p
      <3>2. Within(Given(c) - 1, u - 1, p)
          BY <2>1, <2>2, <3>1 DEF Within, h
      <3> QED
          BY <2>1, <3>1, <3>2 DEF f, p
    <2>4. CASE ~(kAhead[c] - 1 >= -p)
      <3>1. Given(c)' <= 0
          BY <1>1, <2>1, <2>4 DEF Given, f, p
      <3> QED
          BY <3>1 DEF Within
    <2> QED
        BY <2>3, <2>4
  <1>10. FiredEarly'
    <2> SUFFICES ASSUME kWorker = "fired"
                 PROVE  /\ kNext # Nothing
                        /\ kNext \in KEntries => kUntil'[kNext] <= Beat(kNext)
                        /\ kNext \in KEntries /\ kUntil'[kNext] > 0 =>
                             \A c \in KConds : kFormat[c] = kNext => kAhead'[c] <= 0
        BY <1>1, <1>2, <1>4 DEF FiredEarly
    <2>1. kNext # Nothing
        BY DEF FiredEarly
    <2>2. ASSUME kNext \in KEntries PROVE kUntil'[kNext] <= Beat(kNext)
      <3>1. kUntil[kNext] <= Beat(kNext) /\ Beat(kNext) \in Int
          BY <1>3, <2>2, ClockSizes DEF FiredEarly
      <3> QED
          BY <1>3, <2>2, <3>1
    <2>3. ASSUME kNext \in KEntries, kUntil'[kNext] > 0, NEW c \in KConds, kFormat[c] = kNext
          PROVE  kAhead'[c] <= 0
      <3>1. kUntil[kNext] > 0
          BY <1>3, <2>3
      <3>2. kAhead[c] <= 0 /\ Beat(kNext) \in Nat
          BY <1>3, <2>3, <3>1, ClockSizes DEF FiredEarly
      <3> QED
          BY <1>5, <2>1, <2>3, <3>2
    <2> QED
        BY <2>1, <2>2, <2>3
  <1> QED
      BY <1>6, <1>7, <1>8, <1>9, <1>10

LEMMA ClockNext ==
  ASSUME ClockInv, kind' = kind,
         \/ kind = "clock" /\ clock!Next
         \/ kind = "clients" /\ clients!Next
         \/ UNCHANGED clockVars
  PROVE  ClockInv'
  <1>1. CASE kind = "clock" /\ clock!Next
    <2>1. KConds = ClockConds /\ KFormats = ClockFormats
        BY <1>1 DEF KConds, KFormats
    <2>2. CASE \E c \in ClockConds : \E f \in ClockFormats : clock!Register(c, f)
        BY <1>1, <2>1, <2>2, ClockRegister
    <2>3. CASE \E c \in ClockConds : clock!Unregister(c)
        BY <1>1, <2>1, <2>3, ClockUnregister
    <2>4. CASE clock!Fire
        BY <1>1, <2>4, ClockFire
    <2>5. CASE clock!TickOne
        BY <1>1, <2>5, ClockTickOne
    <2>6. CASE clock!Ticked
        BY <1>1, <2>6, ClockTicked
    <2>7. CASE clock!Elapse
        BY <1>1, <2>7, ClockElapse
    <2>8. CASE \/ \E c \in ClockConds : clock!Look(c)
               \/ clock!Destroy \/ clock!Scan \/ clock!ArmFails \/ clock!Woken \/ clock!TimerFires
               \/ clock!EndWorker
        BY <1>1, <2>8, ClockIdle
    <2> QED
        BY <1>1, <2>2, <2>3, <2>4, <2>5, <2>6, <2>7, <2>8, Zenon DEF clock!Next, clock!RunLoop
  <1>2. CASE kind = "clients" /\ clients!Next
    <2>1. KConds = ClientConds /\ KFormats = ClientFormats
        BY <1>2 DEF KConds, KFormats
    <2>2. CASE \E c \in ClientConds : \E f \in ClientFormats : clients!Register(c, f)
        BY <1>2, <2>1, <2>2, ClockRegister
    <2>3. CASE \E c \in ClientConds : clients!Unregister(c)
        BY <1>2, <2>1, <2>3, ClockUnregister
    <2>4. CASE clients!Fire
        BY <1>2, <2>4, ClockFire
    <2>5. CASE clients!TickOne
        BY <1>2, <2>5, ClockTickOne
    <2>6. CASE clients!Ticked
        BY <1>2, <2>6, ClockTicked
    <2>7. CASE clients!Elapse
        BY <1>2, <2>7, ClockElapse
    <2>8. CASE \/ \E c \in ClientConds : clients!Look(c)
               \/ clients!Destroy \/ clients!Scan \/ clients!ArmFails \/ clients!Woken
               \/ clients!TimerFires \/ clients!EndWorker
        BY <1>2, <2>8, ClientsIdle
    <2> QED
        BY <1>2, <2>2, <2>3, <2>4, <2>5, <2>6, <2>7, <2>8, Zenon DEF clients!Next, clients!RunLoop
  <1>3. CASE UNCHANGED clockVars
    <2>1. UNCHANGED <<kUntil, kFormat, kAhead, kWorker, kNext, kTodo>>
        BY <1>3 DEF clockVars
    <2> QED
        BY <2>1, ClockQuiet DEF ClockInv, ClockTypes, TodoActive
  <1> QED
      BY <1>1, <1>2, <1>3

LEMMA ClockInvariance == AllSpec => []ClockInv
  <1>1. ClockInv /\ [AllNext]_allVars => ClockInv'
      BY Apart, ClockNext
  <1> QED
      BY <1>1, ClockBegins, PTL DEF AllSpec

(* clock_manager.cpp: whatever the formats, the chunk and the lateness, and  *)
(* whoever registers, leaves or comes back, the ticks a client is given      *)
(* never stand for two and a half periods more than its time.                *)
THEOREM ClockNeverAhead == AllSpec => []NeverAhead
  <1>1. ASSUME ClockInv, NEW c \in KConds, kFormat[c] # Nothing
        PROVE  kAhead[c] < 2 * Beat(kFormat[c]) + Beat(kFormat[c]) \div 2
    <2> DEFINE f == kFormat[c]
               p == Beat(f)
               h == p \div 2
    <2>1. f \in KFormats /\ kUntil[f] \in Int /\ kAhead[c] \in Int /\ Within(Given(c), kUntil[f], p)
        BY <1>1 DEF ClockInv, ClockTypes, GivenWithin
    <2>2. p \in Nat \ {0} /\ h \in Nat
        BY <2>1, ClockSizes
    <2>3. Given(c) \in Int /\ kAhead[c] <= Given(c)
        BY <2>1, <2>2 DEF Given
    <2>4. Given(c) < 2 * p + h
      <3> HIDE DEF p, h, f
      <3> QED
          BY <2>1, <2>2, <2>3 DEF Within, h
    <2> QED
        BY <2>1, <2>2, <2>3, <2>4
  <1>2. ClockInv => NeverAhead
    <2> SUFFICES ASSUME ClockInv PROVE NeverAhead
        OBVIOUS
    <2>1. CASE kind = "clock"
      <3>1. clock!NeverAhead
        <4>1. KConds = ClockConds
            BY <2>1 DEF KConds
        <4> QED
            BY <1>1, <2>1, <4>1, OneClock, Zenon DEF clock!NeverAhead, clock!Registered, Beat
      <3> QED
          BY <2>1, <3>1 DEF NeverAhead
    <2>2. CASE kind = "clients"
      <3>1. clients!NeverAhead
        <4>1. KConds = ClientConds
            BY <2>2 DEF KConds
        <4> SUFFICES ASSUME NEW c \in ClientConds, kFormat[c] # Nothing
                     PROVE  kAhead[c] < 2 * clients!Period(kFormat[c]) + clients!Period(kFormat[c]) \div 2
            BY <2>2, OneClock, Zenon DEF clients!NeverAhead, clients!Registered
        <4>2. kFormat[c] \in KFormats
            BY <4>1 DEF ClockInv, ClockTypes
        <4>3. clients!Period(kFormat[c]) = Beat(kFormat[c])
            BY <4>2, ClockSizes, Beats
        <4> QED
            BY <1>1, <4>1, <4>3
      <3> QED
          BY <2>2, <3>1 DEF NeverAhead
    <2> QED
        BY <2>1, <2>2 DEF NeverAhead
  <1> QED
      BY <1>2, ClockInvariance, PTL

-----------------------------------------------------------------------------
(* DeviceMonitor, its two instances at once.  What a client has been told,   *)
(* and what the queue has to tell it:                                        *)
Said(q, t)    == {i \in DOMAIN q : q[i][1] = t}
Latest(I)     == CHOOSE i \in I : \A j \in I : j <= i
Told(q, b, t) == IF Said(q, t) = {} THEN b[t] ELSE q[Latest(Said(q, t))][2]

DeviceTags == DeviceHints \cup ({DeviceTag[f] : f \in DeviceFiles} \ {"ignored"})
DeviceInfo == [present : BOOLEAN, id : DeviceTags \cup DeviceFiles \cup {"ignored"}, caps : Nat]
Notices    == DeviceTags \X BOOLEAN
Owed(t)    == {n \in vPush : n[1] = t}

DeviceTypes ==
  /\ {vRegistry, vPrevious, vScanned} \subseteq [DeviceTags -> DeviceInfo]
  /\ vCard \in [DeviceHints -> Nat] /\ vChanges \in Nat
  /\ vHeard \in [DeviceTags -> BOOLEAN] /\ vQueue \in Seq(Notices) /\ vPush \subseteq Notices

(* A scan is compared with the registry as it was when the scan began: nobody*)
(* else writes it before the monitor has ended.                              *)
ScanIsOfRegistry ==
  /\ vPc \in {"hints", "directory", "compare"} => vPrevious = vRegistry /\ vTodo \subseteq DeviceHints
  /\ vPc # "push" => vPush = {}
  /\ vStopper = "done" => vPc = "ended"

(* What has been announced, or is about to be, is what the registry holds,   *)
(* but for a tag of a manifest that denies its device.                       *)
Right(t, b) == b = vRegistry[t].present \/ (t \in vDenied /\ b /\ ~vRegistry[t].present)
ToldOrOwed ==
  vStopper # "done" =>
    \A t \in DeviceTags : /\ Owed(t) = {} => Right(t, Told(vQueue, vHeard, t))
                          /\ \A n \in Owed(t) : Right(t, n[2])

DeviceInv == DeviceTypes /\ ScanIsOfRegistry /\ ToldOrOwed

-----------------------------------------------------------------------------
LEMMA Largest ==
  ASSUME NEW n \in Nat, NEW I, I \subseteq 1 .. n, I # {}
  PROVE  Latest(I) \in I /\ \A j \in I : j <= Latest(I)
  <1> DEFINE T == {n - i : i \in I}
  <1>1. T \in SUBSET Nat /\ T # {}
    <2>1. \A i \in I : n - i \in Nat
        OBVIOUS
    <2> QED
        BY <2>1
  <1>2. PICK x \in T : \A y \in T : x <= y
    <2> HIDE DEF T
    <2> QED
        BY <1>1, Smallest
  <1>3. PICK i \in I : x = n - i
      BY <1>2
  <1>4. \A j \in I : j <= i
    <2> TAKE j \in I
    <2>1. n - j \in T
        OBVIOUS
    <2>2. n - i <= n - j
        BY <1>2, <1>3, <2>1
    <2> QED
        BY <2>2
  <1> QED
      BY <1>4, Zenon DEF Latest

LEMMA LatestIs ==
  ASSUME NEW n \in Nat, NEW I, I \subseteq 1 .. n, NEW i \in I, \A j \in I : j <= i
  PROVE  Latest(I) = i
  <1>1. Latest(I) \in I /\ i <= Latest(I)
      BY Largest
  <1>2. Latest(I) <= i
      BY <1>1
  <1>3. Latest(I) \in Int /\ i \in Int
    <2>1. \A j \in I : j \in Int
        OBVIOUS
    <2> QED
        BY <1>1, <2>1
  <1> QED
      BY <1>1, <1>2, <1>3

(* A notice that is queued is the last one of its device; one that is taken  *)
(* from the queue is remembered.                                             *)
LEMMA Queued ==
  ASSUME NEW q \in Seq(Notices), NEW b, NEW n \in Notices, NEW t
  PROVE  Told(Append(q, n), b, t) = IF n[1] = t THEN n[2] ELSE Told(q, b, t)
  <1> DEFINE r == Append(q, n)
             l == Len(q)
  <1>1. /\ l \in Nat /\ DOMAIN q = 1 .. l /\ DOMAIN r = 1 .. l + 1 /\ r[l + 1] = n
        /\ \A i \in 1 .. l : r[i] = q[i]
      OBVIOUS
  <1> HIDE DEF r, l
  <1>2. CASE n[1] = t
    <2>1. Said(r, t) \subseteq 1 .. l + 1 /\ l + 1 \in Said(r, t) /\ \A j \in Said(r, t) : j <= l + 1
        BY <1>1, <1>2 DEF Said
    <2>2. Latest(Said(r, t)) = l + 1
      <3>1. l + 1 \in Nat
          BY <1>1
      <3> QED
          BY <2>1, <3>1, LatestIs, Zenon
    <2> QED
        BY <1>1, <1>2, <2>1, <2>2 DEF Told, r
  <1>3. CASE n[1] # t
    <2>1. Said(r, t) = Said(q, t) /\ Said(q, t) \subseteq 1 .. l
        BY <1>1, <1>3 DEF Said
    <2>2. Said(q, t) # {} => r[Latest(Said(q, t))] = q[Latest(Said(q, t))]
        BY <1>1, <2>1, Largest
    <2> QED
        BY <1>3, <2>1, <2>2 DEF Told, r
  <1> QED
      BY <1>2, <1>3

LEMMA Taken ==
  ASSUME NEW q \in Seq(Notices), q # <<>>, NEW b \in [DeviceTags -> BOOLEAN], NEW t \in DeviceTags
  PROVE  Told(Tail(q), [b EXCEPT ![Head(q)[1]] = Head(q)[2]], t) = Told(q, b, t)
  <1> DEFINE r == Tail(q)
             l == Len(q)
             c == [b EXCEPT ![Head(q)[1]] = Head(q)[2]]
  <1>1. /\ l \in Nat /\ l >= 1 /\ DOMAIN q = 1 .. l /\ DOMAIN r = 1 .. l - 1
        /\ \A i \in 1 .. l - 1 : r[i] = q[i + 1]
        /\ Head(q) = q[1] /\ q[1] \in Notices
      OBVIOUS
  <1>2. c[t] = IF q[1][1] = t THEN q[1][2] ELSE b[t]
      BY <1>1
  <1> HIDE DEF r, l, c
  <1>3. /\ Said(q, t) \subseteq 1 .. l /\ Said(r, t) \subseteq 1 .. l - 1
        /\ \A i \in 1 .. l - 1 : i \in Said(r, t) <=> i + 1 \in Said(q, t)
      BY <1>1 DEF Said
  <1>4. CASE Said(r, t) = {}
    <2>1. Said(q, t) = IF q[1][1] = t THEN {1} ELSE {}
      <3>1. \A i \in Said(q, t) : i = 1
        <4> SUFFICES ASSUME NEW i \in Said(q, t), i # 1 PROVE FALSE
            OBVIOUS
        <4>1. i - 1 \in 1 .. l - 1 /\ (i - 1) + 1 = i
            BY <1>1, <1>3
        <4> QED
            BY <1>3, <1>4, <4>1
      <3>2. 1 \in Said(q, t) <=> q[1][1] = t
          BY <1>1 DEF Said
      <3> QED
          BY <3>1, <3>2
    <2>2. Latest({1}) = 1
        BY DEF Latest
    <2> QED
        BY <1>2, <1>4, <2>1, <2>2 DEF Told, r, c
  <1>5. CASE Said(r, t) # {}
    <2> DEFINE m == Latest(Said(r, t))
    <2>1. m \in Said(r, t) /\ \A j \in Said(r, t) : j <= m
      <3>1. l - 1 \in Nat
          BY <1>1
      <3> QED
          BY <1>3, <1>5, <3>1, Largest, Zenon
    <2> HIDE DEF m
    <2>2. m \in 1 .. l - 1 /\ m + 1 \in Said(q, t)
        BY <1>3, <2>1
    <2>3. \A j \in Said(q, t) : j <= m + 1
      <3> SUFFICES ASSUME NEW j \in Said(q, t), j # 1 PROVE j <= m + 1
          BY <1>1, <1>3, <2>2
      <3>1. j \in 1 .. l /\ j - 1 \in 1 .. l - 1 /\ (j - 1) + 1 = j
          BY <1>1, <1>3
      <3>2. j - 1 <= m
          BY <1>3, <2>1, <3>1
      <3> QED
          BY <1>1, <2>2, <3>1, <3>2
    <2>4. Latest(Said(q, t)) = m + 1
        BY <1>1, <1>3, <2>2, <2>3, LatestIs, Zenon
    <2> QED
        BY <1>1, <1>5, <2>2, <2>4 DEF Told, r, m
  <1> QED
      BY <1>4, <1>5

-----------------------------------------------------------------------------
(* The invariant along the steps of the monitor and the engine.              *)

LEMMA ToldIs ==
  /\ devices!Tags = DeviceTags /\ listed!Tags = DeviceTags
  /\ devices!After(vHeard) = [t \in DeviceTags |-> Told(vQueue, vHeard, t)]
  BY Zenon DEF devices!Tags, listed!Tags, devices!After, DeviceTags, Told, Said, Latest

LEMMA NoInfo == devices!Nothing \in DeviceInfo /\ listed!Nothing = devices!Nothing
                /\ devices!Nothing.present = FALSE
  BY DEF devices!Nothing, listed!Nothing, DeviceInfo

LEMMA NotThere ==
  /\ devices!Empty = [t \in DeviceTags |-> devices!Nothing] /\ listed!Empty = devices!Empty
  /\ devices!Empty \in [DeviceTags -> DeviceInfo]
  BY ToldIs, NoInfo, Zenon DEF devices!Empty, listed!Empty

LEMMA DeviceBegins == AllInit => DeviceInv
  <1> SUFFICES ASSUME AllInit PROVE DeviceInv
      OBVIOUS
  <1>1. /\ vRegistry = devices!Empty /\ vPrevious = devices!Empty /\ vScanned = devices!Empty
        /\ vCard = [h \in DeviceHints |-> 0] /\ vChanges = 0 /\ vPush = {} /\ vQueue = <<>>
        /\ vHeard = [t \in DeviceTags |-> FALSE] /\ vPc = "start" /\ vStopper = "no"
      BY ToldIs DEF AllInit, devices!Init
  <1>2. DeviceTypes
      BY <1>1, NotThere DEF DeviceTypes
  <1>3. ScanIsOfRegistry
      BY <1>1 DEF ScanIsOfRegistry
  <1>4. ToldOrOwed
    <2> SUFFICES ASSUME NEW t \in DeviceTags
                 PROVE  Owed(t) = {} /\ Told(vQueue, vHeard, t) = vRegistry[t].present
        BY DEF ToldOrOwed, Right
    <2>1. Said(vQueue, t) = {} /\ Owed(t) = {}
        BY <1>1 DEF Said, Owed
    <2>2. Told(vQueue, vHeard, t) = FALSE
        BY <1>1, <2>1 DEF Told
    <2>3. vRegistry[t].present = FALSE
        BY <1>1, NotThere, NoInfo
    <2> QED
        BY <2>1, <2>2, <2>3
  <1> QED
      BY <1>2, <1>3, <1>4 DEF DeviceInv

(* What a step that changes neither the registry nor the notices may do.     *)
LEMMA DeviceQuiet ==
  ASSUME DeviceInv, UNCHANGED <<vRegistry, vPush, vDenied, vQueue, vHeard>>,
         vScanned' \in [DeviceTags -> DeviceInfo], vPrevious' \in [DeviceTags -> DeviceInfo],
         vCard' \in [DeviceHints -> Nat], vChanges' \in Nat,
         vPc' \in {"hints", "directory", "compare"} => vPrevious' = vRegistry /\ vTodo' \subseteq DeviceHints,
         vPc' # "push" => vPush = {},
         vStopper' = "done" <=> vStopper = "done", vPc = "ended" => vPc' = "ended"
  PROVE  DeviceInv'
  <1>1. DeviceTypes'
      BY DEF DeviceInv, DeviceTypes
  <1>2. ScanIsOfRegistry'
      BY DEF DeviceInv, ScanIsOfRegistry
  <1>3. ToldOrOwed'
      BY DEF DeviceInv, ToldOrOwed, Right, Told, Said, Owed
  <1> QED
      BY <1>1, <1>2, <1>3 DEF DeviceInv

(* The world, the watch, poll() and the readers of the registry.             *)
LEMMA DeviceWorld ==
  ASSUME DeviceInv,
         \/ (\E h \in DeviceHints : devices!Plug(h)) \/ (\E h \in DeviceHints : listed!Plug(h))
         \/ (\E f \in DeviceFiles : devices!Fifo(f)) \/ (\E f \in DeviceFiles : listed!Fifo(f))
         \/ devices!DirectoryRemoved \/ listed!DirectoryRemoved
  PROVE  DeviceInv'
  <1>1. /\ UNCHANGED <<vRegistry, vPush, vDenied, vQueue, vHeard, vScanned, vPrevious, vTodo, vPc, vStopper>>
        /\ vChanges' = vChanges + 1
        /\ vCard' = vCard \/ \E h \in DeviceHints, n \in {0, vChanges + 1} : vCard' = [vCard EXCEPT ![h] = n]
    <2>1. CASE \E h \in DeviceHints : devices!Plug(h) \/ listed!Plug(h)
        BY <2>1 DEF devices!Plug, listed!Plug, devices!monitorVars, listed!monitorVars,
           devices!scanVars, listed!scanVars, devices!engineVars, listed!engineVars
    <2>2. CASE ~ \E h \in DeviceHints : devices!Plug(h) \/ listed!Plug(h)
        BY <2>2 DEF devices!Fifo, listed!Fifo, devices!DirectoryRemoved, listed!DirectoryRemoved,
           devices!monitorVars, listed!monitorVars, devices!scanVars, listed!scanVars,
           devices!engineVars, listed!engineVars
    <2> QED
        BY <2>1, <2>2
  <1>2. vChanges' \in Nat /\ vCard' \in [DeviceHints -> Nat]
      BY <1>1 DEF DeviceInv, DeviceTypes
  <1> QED
      BY <1>1, <1>2, DeviceQuiet DEF DeviceInv, DeviceTypes, ScanIsOfRegistry

LEMMA DeviceIdle ==
  ASSUME DeviceInv,
         \/ devices!SetupWatch \/ listed!SetupWatch
         \/ devices!PrepareToPoll \/ listed!PrepareToPoll
         \/ devices!PollEvent \/ listed!PollEvent
         \/ devices!PollTimeout \/ listed!PollTimeout
         \/ devices!Polled \/ listed!Polled
         \/ devices!Leave \/ listed!Leave
  PROVE  DeviceInv'
  <1>1. /\ UNCHANGED <<vRegistry, vPush, vDenied, vQueue, vHeard, vScanned, vPrevious, vCard, vChanges, vStopper>>
        /\ vPc \in {"watch", "loop", "poll", "polled", "leave"}
        /\ vPc' \in {"loop", "poll", "polled", "leave", "rescan", "ended"}
      BY DEF devices!SetupWatch, listed!SetupWatch, devices!PrepareToPoll,
           listed!PrepareToPoll, devices!PollEvent, listed!PollEvent, devices!PollTimeout,
           listed!PollTimeout, devices!Polled, listed!Polled, devices!Leave, listed!Leave,
           devices!worldVars, listed!worldVars, devices!scanVars, listed!scanVars,
           devices!engineVars, listed!engineVars
  <1> QED
      BY <1>1, DeviceQuiet DEF DeviceInv, DeviceTypes, ScanIsOfRegistry

LEMMA DeviceStops ==
  ASSUME DeviceInv,
         \/ devices!Stop \/ listed!Stop
         \/ devices!TornDown \/ listed!TornDown
         \/ devices!Wake \/ listed!Wake
  PROVE  DeviceInv'
  <1>1. /\ UNCHANGED <<vRegistry, vPush, vDenied, vQueue, vHeard, vScanned, vPrevious, vCard, vChanges, vTodo, vPc>>
        /\ vStopper # "done" /\ vStopper' # "done"
      BY DEF devices!Stop, listed!Stop, devices!TornDown, listed!TornDown, devices!Wake,
           listed!Wake, devices!worldVars, listed!worldVars, devices!monitorVars,
           listed!monitorVars, devices!scanVars, listed!scanVars, devices!engineVars,
           listed!engineVars
  <1> QED
      BY <1>1, DeviceQuiet DEF DeviceInv, DeviceTypes, ScanIsOfRegistry

LEMMA DeviceReaders ==
  ASSUME DeviceInv,
         \/ devices!List \/ listed!List
         \/ (\E r \in {"notifier", "lister"} : devices!ReadRegistry(r) \/ devices!StoreCopy(r)) \/ (\E r \in {"notifier", "lister"} : listed!ReadRegistry(r) \/ listed!StoreCopy(r))
         \/ UNCHANGED deviceVars
  PROVE  DeviceInv'
  <1>1. UNCHANGED <<vRegistry, vPush, vDenied, vQueue, vHeard, vScanned, vPrevious, vCard, vChanges, vTodo, vPc,
                    vStopper>>
      BY DEF devices!List, listed!List, devices!ReadRegistry, listed!ReadRegistry,
           devices!StoreCopy, listed!StoreCopy, devices!worldVars, listed!worldVars,
           devices!monitorVars, listed!monitorVars, devices!scanVars, listed!scanVars, deviceVars
  <1> QED
      BY <1>1, DeviceQuiet DEF DeviceInv, DeviceTypes, ScanIsOfRegistry

(* enumerate_devices up to the comparison: what is scanned are devices.      *)
LEMMA DeviceScans ==
  ASSUME DeviceInv,
         \/ devices!BeginScan({"start", "rescan"}) \/ listed!BeginScan({"start", "rescan"})
         \/ devices!ScanHint \/ listed!ScanHint \/ devices!ScanDirectory \/ listed!ScanDirectory
  PROVE  DeviceInv'
  <1> USE DEF DeviceInv
  <1>1. CASE devices!BeginScan({"start", "rescan"}) \/ listed!BeginScan({"start", "rescan"})
    <2>1. /\ vPc \in {"start", "rescan"}
          /\ UNCHANGED <<vRegistry, vPush, vDenied, vQueue, vHeard, vCard, vChanges, vStopper>>
          /\ \/ /\ vTodo' = DeviceHints /\ vPrevious' = vRegistry /\ vScanned' = devices!Empty
                /\ vPc' = "hints"
             \/ vPc' = "watch" /\ UNCHANGED <<vScanned, vPrevious>>
        BY <1>1, NotThere DEF devices!BeginScan, listed!BeginScan, devices!worldVars,
           listed!worldVars, devices!engineVars, listed!engineVars
    <2>2. vPrevious' \in [DeviceTags -> DeviceInfo] /\ vScanned' \in [DeviceTags -> DeviceInfo]
        BY <2>1, NotThere DEF DeviceTypes
    <2> QED
        BY <2>1, <2>2, DeviceQuiet DEF DeviceTypes, ScanIsOfRegistry
  <1>2. CASE devices!ScanHint \/ listed!ScanHint
    <2>1. /\ vPc = "hints"
          /\ UNCHANGED <<vRegistry, vPush, vDenied, vQueue, vHeard, vPrevious, vCard, vChanges, vStopper>>
          /\ vPc' \in {"hints", "directory"} /\ vTodo' \subseteq vTodo
        BY <1>2 DEF devices!ScanHint, listed!ScanHint, devices!worldVars, listed!worldVars,
           devices!engineVars, listed!engineVars
    <2>2. CASE vScanned' = vScanned
        BY <2>1, <2>2, DeviceQuiet DEF DeviceTypes, ScanIsOfRegistry
    <2>3. CASE vScanned' # vScanned
      <3>0. PICK h \in vTodo : \E c \in devices!Caps(h) \cup listed!Caps(h) :
              vScanned' = [vScanned EXCEPT ![h] = [present |-> TRUE, id |-> h, caps |-> c]]
          BY <1>2, <2>3, Zenon DEF devices!ScanHint, listed!ScanHint
      <3>1. PICK c \in devices!Caps(h) \cup listed!Caps(h) :
              vScanned' = [vScanned EXCEPT ![h] = [present |-> TRUE, id |-> h, caps |-> c]]
          BY <3>0
      <3>2. h \in DeviceHints /\ h \in DeviceTags
          BY <2>1 DEF ScanIsOfRegistry, DeviceTags
      <3>3. c \in Nat
        <4>1. vPrevious[h].caps \in Nat /\ vCard[h] \in Nat
            BY <3>2 DEF DeviceTypes, DeviceInfo
        <4> QED
            BY <4>1 DEF devices!Caps, listed!Caps
      <3>4. [present |-> TRUE, id |-> h, caps |-> c] \in DeviceInfo
          BY <3>2, <3>3 DEF DeviceInfo
      <3>5. vScanned' \in [DeviceTags -> DeviceInfo]
          BY <3>1, <3>4 DEF DeviceTypes
      <3> QED
          BY <2>1, <3>5, DeviceQuiet DEF DeviceTypes, ScanIsOfRegistry
    <2> QED
        BY <2>2, <2>3
  <1>3. CASE devices!ScanDirectory \/ listed!ScanDirectory
    <2>1. /\ vPc = "directory" /\ vPc' = "compare"
          /\ UNCHANGED <<vRegistry, vPush, vDenied, vQueue, vHeard, vPrevious, vCard, vChanges, vStopper, vTodo>>
        BY <1>3 DEF devices!ScanDirectory, listed!ScanDirectory, devices!engineVars, listed!engineVars
    <2>2. PICK pick \in [DeviceTags -> DeviceFiles \cup {"ignored"}], found \in SUBSET DeviceTags :
            vScanned' = [t \in DeviceTags |->
                          IF t \notin found THEN vScanned[t]
                          ELSE [present |-> pick[t] \notin vDenying, id |-> pick[t], caps |-> 1]]
      <3>1. CASE devices!ScanDirectory
        <4>1. PICK pick \in [DeviceTags -> DeviceFiles \cup {"ignored"}] :
                vScanned' = [t \in DeviceTags |->
                              IF devices!FilesOf(t) = {} THEN vScanned[t]
                              ELSE [present |-> pick[t] \notin vDenying, id |-> pick[t], caps |-> 1]]
            BY <3>1, ToldIs, Zenon DEF devices!ScanDirectory
        <4> WITNESS pick \in [DeviceTags -> DeviceFiles \cup {"ignored"}],
                    {t \in DeviceTags : devices!FilesOf(t) # {}} \in SUBSET DeviceTags
        <4> QED
            BY <4>1
      <3>2. CASE listed!ScanDirectory
        <4>1. PICK pick \in [DeviceTags -> DeviceFiles \cup {"ignored"}] :
                vScanned' = [t \in DeviceTags |->
                              IF listed!FilesOf(t) = {} THEN vScanned[t]
                              ELSE [present |-> pick[t] \notin vDenying, id |-> pick[t], caps |-> 1]]
            BY <3>2, ToldIs, Zenon DEF listed!ScanDirectory
        <4> WITNESS pick \in [DeviceTags -> DeviceFiles \cup {"ignored"}],
                    {t \in DeviceTags : listed!FilesOf(t) # {}} \in SUBSET DeviceTags
        <4> QED
            BY <4>1
      <3> QED
          BY <1>3, <3>1, <3>2
    <2>3. vScanned' \in [DeviceTags -> DeviceInfo]
      <3>1. \A t \in DeviceTags :
               /\ [present |-> pick[t] \notin vDenying, id |-> pick[t], caps |-> 1] \in DeviceInfo
               /\ vScanned[t] \in DeviceInfo
          BY DEF DeviceInfo, DeviceTypes
      <3> QED
          BY <2>2, <3>1
    <2> QED
        BY <2>1, <2>3, DeviceQuiet DEF DeviceTypes, ScanIsOfRegistry
  <1> QED
      BY <1>1, <1>2, <1>3

(* Each difference is put into the registry and is owed a notice.            *)
LEMMA DeviceCompare ==
  ASSUME DeviceInv, devices!Compare \/ listed!Compare
  PROVE  DeviceInv'
  <1> USE DEF DeviceInv
  <1> DEFINE in(t) == vScanned[t].id # "ignored"
             lost == {t \in DeviceTags : ~in(t) /\ vPrevious[t].present}
             new == {t \in DeviceTags : in(t) /\ vScanned[t] # vPrevious[t]}
             Gone(t) == [vPrevious[t] EXCEPT !.present = FALSE]
  <1>1. /\ vPc = "compare" /\ vPc' = "push"
        /\ vRegistry' = [t \in DeviceTags |-> IF in(t) THEN vScanned[t]
                                              ELSE IF t \in lost THEN Gone(t) ELSE vRegistry[t]]
        /\ vPush' = (new \X {TRUE}) \cup (lost \X {FALSE})
        /\ vDenied' = {t \in DeviceTags : IF in(t) THEN ~vScanned[t].present ELSE t \in vDenied}
        /\ UNCHANGED <<vQueue, vHeard, vPrevious, vScanned, vCard, vChanges, vStopper>>
    <2>1. CASE devices!Compare
        BY <2>1, ToldIs, Zenon DEF devices!Compare, devices!Gone, devices!Listed,
           devices!worldVars, devices!engineVars
    <2>2. CASE listed!Compare
        BY <2>2, ToldIs, Zenon DEF listed!Compare, listed!Gone, listed!Listed,
           listed!worldVars, listed!engineVars
    <2> QED
        BY <2>1, <2>2
  <1>2. /\ vPush = {} /\ vPrevious = vRegistry
        /\ \A t \in DeviceTags : vRegistry[t] \in DeviceInfo /\ vScanned[t] \in DeviceInfo
      BY <1>1 DEF ScanIsOfRegistry, DeviceTypes
  <1>3. \A t \in DeviceTags : Gone(t) \in DeviceInfo /\ Gone(t).present = FALSE
      BY <1>2 DEF DeviceInfo
  <1>4. DeviceTypes'
    <2>1. vRegistry' \in [DeviceTags -> DeviceInfo]
      <3> HIDE DEF Gone, lost
      <3> QED
          BY <1>1, <1>2, <1>3
    <2>2. vPush' \subseteq Notices
        BY <1>1 DEF Notices
    <2> QED
        BY <1>1, <2>1, <2>2 DEF DeviceTypes
  <1>5. ScanIsOfRegistry'
      BY <1>1 DEF ScanIsOfRegistry
  <1>6. ToldOrOwed'
    <2> SUFFICES ASSUME vStopper # "done", NEW t \in DeviceTags
                 PROVE  /\ Owed(t)' = {} => Right(t, Told(vQueue, vHeard, t))'
                        /\ \A n \in Owed(t)' : Right(t, n[2])'
        BY <1>1, Zenon DEF ToldOrOwed
    <2>1. /\ Right(t, Told(vQueue, vHeard, t)) /\ vRegistry[t].present \in BOOLEAN
          /\ Told(vQueue, vHeard, t)' = Told(vQueue, vHeard, t)
        BY <1>1, <1>2 DEF ToldOrOwed, Owed, DeviceInfo, Told, Said
    <2>2. /\ vRegistry'[t] = IF in(t) THEN vScanned[t] ELSE IF t \in lost THEN Gone(t) ELSE vRegistry[t]
          /\ t \in vDenied' <=> IF in(t) THEN ~vScanned[t].present ELSE t \in vDenied
        BY <1>1
    <2>3. vScanned[t].present \in BOOLEAN
        BY <1>2 DEF DeviceInfo
    <2>4. CASE t \in new
      <3>1. vRegistry'[t] = vScanned[t] /\ t \notin lost /\ (vScanned[t].present \/ t \in vDenied')
          BY <2>2, <2>3, <2>4
      <3>2. <<t, TRUE>> \in vPush' /\ \A n \in vPush' : n[1] = t => n[2] = TRUE
          BY <1>1, <2>4, <3>1
      <3>3. <<t, TRUE>>[1] = t
          OBVIOUS
      <3>4. <<t, TRUE>> \in Owed(t)' /\ \A n \in Owed(t)' : n[2] = TRUE
          BY <3>2, <3>3 DEF Owed
      <3>5. Right(t, TRUE)'
          BY <2>3, <3>1 DEF Right
      <3> HIDE DEF Gone, lost, new
      <3> QED
          BY <3>4, <3>5 DEF Right
    <2>5. CASE t \in lost
      <3>1. vRegistry'[t].present = FALSE /\ t \notin new
          BY <1>3, <2>2, <2>5
      <3>2. <<t, FALSE>> \in vPush' /\ \A n \in vPush' : n[1] = t => n[2] = FALSE
          BY <1>1, <2>5, <3>1
      <3>3. <<t, FALSE>>[1] = t
          OBVIOUS
      <3>4. <<t, FALSE>> \in Owed(t)' /\ \A n \in Owed(t)' : n[2] = FALSE
          BY <3>2, <3>3 DEF Owed
      <3> HIDE DEF Gone, lost, new
      <3> QED
          BY <3>1, <3>4 DEF Right
    <2>6. CASE t \notin new /\ t \notin lost
      <3>1. vRegistry'[t] = vRegistry[t]
          BY <1>2, <2>2, <2>6
      <3>2. t \in vDenied /\ ~vRegistry[t].present => t \in vDenied'
          BY <1>2, <2>2, <2>6
      <3>3. \A n \in vPush' : n[1] # t
          BY <1>1, <2>6
      <3>4. Right(t, Told(vQueue, vHeard, t))'
          BY <2>1, <3>1, <3>2 DEF Right
      <3> QED
          BY <3>3, <3>4 DEF Owed
    <2> QED
        BY <2>4, <2>5, <2>6
  <1> QED
      BY <1>4, <1>5, <1>6

(* What is owed is queued, one by one.                                       *)
LEMMA DeviceAnnounce ==
  ASSUME DeviceInv, devices!Announce \/ listed!Announce
  PROVE  DeviceInv'
  <1> USE DEF DeviceInv
  <1>1. /\ vPc = "push"
        /\ UNCHANGED <<vRegistry, vDenied, vHeard, vPrevious, vScanned, vCard, vChanges, vTodo, vStopper>>
        /\ \/ vPush = {} /\ vPc' = "watch" /\ UNCHANGED <<vPush, vQueue>>
           \/ /\ vPc' = "push"
              /\ \E n \in vPush : vPush' = vPush \ {n} /\ vQueue' = Append(vQueue, n)
      BY Zenon DEF devices!Announce, listed!Announce, devices!worldVars, listed!worldVars
  <1>2. CASE vPush = {} /\ vPc' = "watch" /\ UNCHANGED <<vPush, vQueue>>
      BY <1>1, <1>2, DeviceQuiet DEF DeviceTypes, ScanIsOfRegistry
  <1>3. CASE vPc' = "push" /\ \E n \in vPush : vPush' = vPush \ {n} /\ vQueue' = Append(vQueue, n)
    <2>1. PICK n \in vPush : vPush' = vPush \ {n} /\ vQueue' = Append(vQueue, n)
        BY <1>3
    <2>2. n \in Notices /\ vQueue \in Seq(Notices) /\ vPush \subseteq Notices
        BY DEF DeviceTypes
    <2>3. vQueue' \in Seq(Notices) /\ vPush' \subseteq Notices
        BY <2>1, <2>2
    <2>4. DeviceTypes'
        BY <1>1, <2>3 DEF DeviceTypes
    <2>5. ScanIsOfRegistry'
        BY <1>1, <1>3 DEF ScanIsOfRegistry
    <2>6. ToldOrOwed'
      <3> SUFFICES ASSUME vStopper # "done", NEW t \in DeviceTags
                   PROVE  /\ Owed(t)' = {} => Right(t, Told(vQueue', vHeard, t))
                          /\ \A m \in Owed(t)' : Right(t, m[2])
          BY <1>1, Zenon DEF ToldOrOwed, Right
      <3>1. /\ Owed(t) = {} => Right(t, Told(vQueue, vHeard, t))
            /\ \A m \in Owed(t) : Right(t, m[2])
          BY DEF ToldOrOwed
      <3>2. Told(vQueue', vHeard, t) = IF n[1] = t THEN n[2] ELSE Told(vQueue, vHeard, t)
          BY <2>1, <2>2, Queued, Zenon
      <3>3. Owed(t)' = Owed(t) \ {n}
          BY <2>1 DEF Owed
      <3>4. n[1] = t <=> n \in Owed(t)
          BY DEF Owed
      <3> QED
          BY <3>1, <3>2, <3>3, <3>4
    <2> QED
        BY <2>4, <2>5, <2>6
  <1> QED
      BY <1>1, <1>2, <1>3

(* The notification thread takes a notice.                                   *)
LEMMA DeviceNotified ==
  ASSUME DeviceInv, devices!Notified \/ listed!Notified
  PROVE  DeviceInv'
  <1> USE DEF DeviceInv
  <1>1. /\ vQueue # <<>> /\ vQueue' = Tail(vQueue)
        /\ vHeard' = [vHeard EXCEPT ![Head(vQueue)[1]] = Head(vQueue)[2]]
        /\ UNCHANGED <<vRegistry, vPush, vDenied, vPrevious, vScanned, vCard, vChanges, vTodo, vPc, vStopper>>
      BY Zenon DEF devices!Notified, listed!Notified, devices!worldVars, listed!worldVars,
         devices!monitorVars, listed!monitorVars, devices!scanVars, listed!scanVars
  <1>2. vQueue \in Seq(Notices) /\ vHeard \in [DeviceTags -> BOOLEAN]
      BY DEF DeviceTypes
  <1>3. vQueue' \in Seq(Notices) /\ vHeard' \in [DeviceTags -> BOOLEAN]
    <2>1. Head(vQueue) \in Notices /\ Tail(vQueue) \in Seq(Notices)
        BY <1>1, <1>2
    <2>2. Head(vQueue)[2] \in BOOLEAN
        BY <2>1 DEF Notices
    <2> QED
        BY <1>1, <1>2, <2>1, <2>2
  <1>4. DeviceTypes'
      BY <1>1, <1>3 DEF DeviceTypes
  <1>5. ScanIsOfRegistry'
      BY <1>1 DEF ScanIsOfRegistry
  <1>6. \A t \in DeviceTags : Told(vQueue', vHeard', t) = Told(vQueue, vHeard, t)
      BY <1>1, <1>2, Taken, Zenon
  <1>7. \A t : Owed(t)' = Owed(t)
      BY <1>1 DEF Owed
  <1>8. ToldOrOwed'
      BY <1>1, <1>6, <1>7, Zenon DEF ToldOrOwed, Right
  <1> QED
      BY <1>4, <1>5, <1>8

(* stop() forgets the registry when the monitor has ended.                   *)
LEMMA DeviceJoined ==
  ASSUME DeviceInv, devices!Joined \/ listed!Joined
  PROVE  DeviceInv'
  <1> USE DEF DeviceInv
  <1>1. /\ vPc = "ended" /\ vPc' = "ended" /\ vStopper' = "done" /\ vRegistry' = devices!Empty
        /\ UNCHANGED <<vPush, vQueue, vHeard, vPrevious, vScanned, vCard, vChanges>>
      BY NotThere, Zenon DEF devices!Joined, listed!Joined, devices!worldVars, listed!worldVars,
         devices!monitorVars, listed!monitorVars, devices!scanVars, listed!scanVars,
         devices!engineVars, listed!engineVars
  <1>2. DeviceTypes'
      BY <1>1, NotThere DEF DeviceTypes
  <1>3. ScanIsOfRegistry' /\ ToldOrOwed'
      BY <1>1 DEF ScanIsOfRegistry, ToldOrOwed
  <1> QED
      BY <1>2, <1>3

LEMMA DeviceNext ==
  ASSUME DeviceInv, devices!Next \/ listed!Next \/ UNCHANGED deviceVars
  PROVE  DeviceInv'
  <1>1. CASE devices!Next
      BY <1>1, DeviceWorld, DeviceIdle, DeviceStops, DeviceReaders, DeviceScans, DeviceCompare,
         DeviceAnnounce, DeviceNotified, DeviceJoined, Zenon
         DEF devices!Next, devices!Monitor, devices!Notifier, devices!Lister
  <1>2. CASE listed!Next
      BY <1>2, DeviceWorld, DeviceIdle, DeviceStops, DeviceReaders, DeviceScans, DeviceCompare,
         DeviceAnnounce, DeviceNotified, DeviceJoined, Zenon
         DEF listed!Next, listed!Monitor, listed!Notifier, listed!Lister
  <1>3. CASE UNCHANGED deviceVars
      BY <1>3, DeviceReaders
  <1> QED
      BY <1>1, <1>2, <1>3

LEMMA DeviceInvariance == AllSpec => []DeviceInv
  <1>1. DeviceInv /\ [AllNext]_allVars => DeviceInv'
      BY Apart, DeviceNext
  <1> QED
      BY <1>1, DeviceBegins, PTL DEF AllSpec

(* alsa_device_enumerator.cpp: whatever is plugged in and out, appears, is    *)
(* written anew or goes while the monitor scans, a client that has heard     *)
(* every announcement knows between two scans which devices the registry     *)
(* holds as present, but for those whose manifest denies them.               *)
THEOREM AnnouncementsAreTrue == AllSpec => []AnnouncedIsRegistered
  <1>1. DeviceInv => AnnouncedIsRegistered
    <2> SUFFICES ASSUME DeviceInv, vPc # "push", vStopper # "done", NEW t \in DeviceTags
                 PROVE  Right(t, devices!After(vHeard)[t])
        BY ToldIs, Zenon DEF AnnouncedIsRegistered, devices!AnnouncedIsRegistered, Right
    <2>1. Right(t, Told(vQueue, vHeard, t))
        BY DEF DeviceInv, ScanIsOfRegistry, ToldOrOwed, Owed
    <2>2. devices!After(vHeard)[t] = Told(vQueue, vHeard, t)
        BY ToldIs
    <2> QED
        BY <2>1, <2>2, Zenon
  <1> QED
      BY <1>1, DeviceInvariance, PTL

-----------------------------------------------------------------------------
(* RtpSessions, its three instances at once.                                 *)
SSources == IF kind = "two" THEN PairSources ELSE {"a"}
SFormats == SingleFormats \cup SapFormats \cup PairFormats
Session  == [ssrc : StreamSsrcs \cup {"none"}, format : SFormats \cup {"none"}]
Waits(s) == sHeld[s] \in {"gap", "due"}

(* What the receiver has of an SSRC by which it may tell a format: packets   *)
(* the probe was fed, a format detected, and packets held back.              *)
Fed(s)      == sProbe[s].fed \cup ({sDetected[s]} \ {"none"})
Evidence(s) == Fed(s) \cup (IF Waits(s) THEN {sSender[s].format} ELSE {})

SessionTypes ==
  /\ sSession \in [SSources -> Session] /\ sLastSsrc \in [SSources -> StreamSsrcs \cup {"none"}]
  /\ sHeld \in [StreamSsrcs -> {"absent", "open", "gap", "due"}]
  /\ sSender \in [StreamSsrcs -> [from : SSources \cup {"none"}, format : SFormats \cup {"none"}]]
  /\ sProbe \in [StreamSsrcs -> [fed : SUBSET SFormats, packets : Nat]]
  /\ sDetected \in [StreamSsrcs -> SFormats \cup {"none"}]
  /\ sHand \in SSources \cup {"none"}

(* A source sends before it is heard, and is heard before its packet is in   *)
(* hand; what is held back has a sender.                                     *)
HeardInOrder ==
  /\ \A a \in SSources : /\ sSession[a].ssrc = "none" <=> sSession[a].format = "none"
                         /\ sSession[a].ssrc = "none" => sLastSsrc[a] = "none"
                         /\ sWire[a] # "none" => sSession[a].ssrc # "none"
  /\ sHand # "none" => sSession[sHand].ssrc = sLastSsrc[sHand] /\ sLastSsrc[sHand] # "none"
  /\ \A s \in StreamSsrcs : Waits(s) => sSender[s].format # "none"

(* No two sources have an SSRC in common, be it one they send with or one    *)
(* they were heard with.                                                     *)
Distinct ==
  \A a, b \in SSources : a # b =>
    /\ sLastSsrc[a] = "none" \/ sLastSsrc[a] # sLastSsrc[b]
    /\ sSession[a].ssrc = "none" \/ (sSession[a].ssrc # sSession[b].ssrc /\ sSession[a].ssrc # sLastSsrc[b])

(* The evidence of an SSRC is of one format, that of the session its source  *)
(* was last heard with.                                                      *)
EvidenceIsTrue ==
  /\ \A s \in StreamSsrcs : /\ Evidence(s) # {} => \E a \in SSources : sLastSsrc[a] = s
                            /\ \A f, g \in Evidence(s) : f = g
  /\ \A a \in SSources, s \in StreamSsrcs :
       sSession[a].ssrc = s /\ sLastSsrc[a] = s => Evidence(s) \subseteq {sSession[a].format}

SessionInv == SessionTypes /\ HeardInOrder /\ Distinct /\ EvidenceIsTrue /\ DecodedAsSent

-----------------------------------------------------------------------------
LEMMA NoneIsNone ==
  /\ \A a \in SSources : a # "none"
  /\ \A s \in StreamSsrcs : s # "none"
  /\ \A f \in SFormats : f # "none"
  /\ SingleNeed \in Nat /\ PairNeed \in Nat
  BY SessionConstants DEF SSources, SFormats

LEMMA SessionBegins == AllInit => SessionInv
  <1> SUFFICES ASSUME AllInit PROVE SessionInv
      OBVIOUS
  <1>1. /\ sSession = [a \in SSources |-> [ssrc |-> "none", format |-> "none"]]
        /\ sWire = [a \in SSources |-> "none"]
        /\ sLastSsrc = [a \in SSources |-> "none"] /\ sHeld = [s \in StreamSsrcs |-> "absent"]
        /\ sSender = [s \in StreamSsrcs |-> [from |-> "none", format |-> "none"]]
        /\ sProbe = [s \in StreamSsrcs |-> [fed |-> {}, packets |-> 0]]
        /\ sDetected = [s \in StreamSsrcs |-> "none"] /\ sHand = "none"
        /\ sOut = [from |-> "none", ssrc |-> "none", by |-> "none", as |-> "none", real |-> "none"]
    <2>1. CASE kind = "two"
        BY <2>1, Zenon DEF AllInit, two!Init, two!NoSession, two!None, two!Nobody, two!NoProbe,
           two!Nothing, SSources
    <2>2. CASE kind # "two"
        BY <2>2, Zenon DEF AllInit, single!Init, single!NoSession, single!None, single!Nobody,
           single!NoProbe, single!Nothing, SSources
    <2> QED
        BY <2>1, <2>2
  <1>2. \A s \in StreamSsrcs : ~Waits(s) /\ Evidence(s) = {}
      BY <1>1 DEF Waits, Evidence, Fed
  <1>3. SessionTypes
      BY <1>1 DEF SessionTypes, Session
  <1>4. HeardInOrder /\ Distinct
      BY <1>1, <1>2 DEF HeardInOrder, Distinct
  <1>5. EvidenceIsTrue
      BY <1>1, <1>2 DEF EvidenceIsTrue
  <1>6. DecodedAsSent
      BY <1>1 DEF DecodedAsSent, single!DecodedAsSent
  <1> QED
      BY <1>3, <1>4, <1>5, <1>6 DEF SessionInv

(* What a step that leaves the receiver's table alone may do.                *)
LEMMA SessionQuiet ==
  ASSUME SessionInv, kind' = kind,
         UNCHANGED <<sSession, sLastSsrc, sSender, sProbe, sDetected, sHand, sOut>>,
         \A a \in SSources : sWire'[a] # "none" => sSession[a].ssrc # "none",
         sHeld' \in [StreamSsrcs -> {"absent", "open", "gap", "due"}],
         \A s \in StreamSsrcs : Waits(s)' = Waits(s)
  PROVE  SessionInv'
  <1>1. SSources' = SSources
      BY DEF SSources
  <1>2. \A s \in StreamSsrcs : Evidence(s)' = Evidence(s)
      BY DEF Evidence, Fed
  <1>3. SessionTypes'
      BY <1>1 DEF SessionInv, SessionTypes
  <1>4. HeardInOrder' /\ Distinct'
      BY <1>1 DEF SessionInv, HeardInOrder, Distinct
  <1>5. EvidenceIsTrue'
      BY <1>1, <1>2 DEF SessionInv, EvidenceIsTrue
  <1>6. DecodedAsSent'
      BY DEF SessionInv, DecodedAsSent, single!DecodedAsSent
  <1> QED
      BY <1>3, <1>4, <1>5, <1>6 DEF SessionInv

(* A packet is sent, a stream announced; what is held back has waited.       *)
LEMMA SessionSend ==
  ASSUME SessionInv, kind' = kind, NEW a \in SSources,
         \/ kind = "single" /\ single!Send(a)
         \/ kind = "sap" /\ sap!Send(a)
         \/ kind = "two" /\ two!Send(a)
  PROVE  SessionInv'
  <1>1. /\ UNCHANGED <<sSession, sLastSsrc, sSender, sProbe, sDetected, sHand, sOut, sHeld>>
        /\ sSession[a] # [ssrc |-> "none", format |-> "none"]
        /\ \E k : sWire' = [sWire EXCEPT ![a] = k]
      BY Zenon DEF single!Send, single!tableVars, single!formatVars, single!NoSession, single!None,
           sap!Send, sap!tableVars, sap!formatVars, sap!NoSession, sap!None, two!Send,
           two!tableVars, two!formatVars, two!NoSession, two!None
  <1>2. sSession[a].ssrc # "none"
    <2>1. sSession[a] \in Session /\ (sSession[a].ssrc = "none" <=> sSession[a].format = "none")
        BY DEF SessionInv, SessionTypes, HeardInOrder
    <2> QED
        BY <1>1, <2>1 DEF Session
  <1>3. \A b \in SSources : sWire'[b] # "none" => sSession[b].ssrc # "none"
    <2>1. \A b \in SSources \ {a} : sWire'[b] = sWire[b]
        BY <1>1
    <2> QED
        BY <1>2, <2>1 DEF SessionInv, HeardInOrder
  <1>4. \A s \in StreamSsrcs : Waits(s)' = Waits(s)
      BY <1>1 DEF Waits
  <1> QED
      BY <1>1, <1>3, <1>4, SessionQuiet DEF SessionInv, SessionTypes

LEMMA SessionAnnounce ==
  ASSUME SessionInv, kind' = kind, NEW a \in SSources,
         \/ kind = "single" /\ single!Announce(a)
         \/ kind = "sap" /\ sap!Announce(a)
         \/ kind = "two" /\ two!Announce(a)
  PROVE  SessionInv'
  <1>1. UNCHANGED <<sSession, sLastSsrc, sSender, sProbe, sDetected, sHand, sOut, sHeld, sWire>>
      BY Zenon DEF single!Announce, single!senderVars, single!tableVars, single!formatVars,
           sap!Announce, sap!senderVars, sap!tableVars, sap!formatVars, two!Announce,
           two!senderVars, two!tableVars, two!formatVars
  <1>2. \A s \in StreamSsrcs : Waits(s)' = Waits(s)
      BY <1>1 DEF Waits
  <1> QED
      BY <1>1, <1>2, SessionQuiet DEF SessionInv, SessionTypes, HeardInOrder

LEMMA SessionElapse ==
  ASSUME SessionInv, kind' = kind, NEW s \in StreamSsrcs,
         \/ kind = "single" /\ single!Elapse(s)
         \/ kind = "sap" /\ sap!Elapse(s)
         \/ kind = "two" /\ two!Elapse(s)
  PROVE  SessionInv'
  <1>1. /\ UNCHANGED <<sSession, sLastSsrc, sSender, sProbe, sDetected, sHand, sOut, sWire>>
        /\ sHeld[s] = "gap" /\ sHeld' = [sHeld EXCEPT ![s] = "due"]
      BY Zenon DEF single!Elapse, single!senderVars, single!formatVars, sap!Elapse, sap!senderVars,
           sap!formatVars, two!Elapse, two!senderVars, two!formatVars
  <1>2. sHeld \in [StreamSsrcs -> {"absent", "open", "gap", "due"}]
      BY DEF SessionInv, SessionTypes
  <1>3. \A u \in StreamSsrcs : Waits(u)' = Waits(u)
      BY <1>1, <1>2 DEF Waits
  <1>4. sHeld' \in [StreamSsrcs -> {"absent", "open", "gap", "due"}]
      BY <1>1, <1>2
  <1> QED
      BY <1>1, <1>3, <1>4, SessionQuiet DEF SessionInv, HeardInOrder

LEMMA SessionStutter ==
  ASSUME SessionInv, kind' = kind, UNCHANGED sessionVars
  PROVE  SessionInv'
  <1>1. UNCHANGED <<sSession, sLastSsrc, sSender, sProbe, sDetected, sHand, sOut, sHeld, sWire>>
      BY DEF sessionVars
  <1>2. \A s \in StreamSsrcs : Waits(s)' = Waits(s)
      BY <1>1 DEF Waits
  <1> QED
      BY <1>1, <1>2, SessionQuiet DEF SessionInv, SessionTypes, HeardInOrder

(* A source goes on to an SSRC that no source sends with or was heard with:  *)
(* nothing is known of it yet that could be of another session.              *)
LEMMA SessionBegun ==
  ASSUME SessionInv, kind' = kind, NEW a \in SSources,
         \/ kind = "single" /\ single!BeginSession(a)
         \/ kind = "sap" /\ sap!BeginSession(a)
         \/ kind = "two" /\ two!BeginSession(a)
  PROVE  SessionInv'
  <1> USE DEF SessionInv
  <1>1. /\ sWire[a] = "none" /\ sHand # a /\ sSession[a].ssrc \in {"none", sLastSsrc[a]}
        /\ UNCHANGED <<sWire, sLastSsrc, sSender, sProbe, sDetected, sHand, sOut, sHeld>>
        /\ \E s \in StreamSsrcs, f \in SFormats :
             /\ \A b \in SSources : sSession[b].ssrc # s
             /\ \A b \in SSources \ {a} : sLastSsrc[b] # s
             /\ sSession' = [sSession EXCEPT ![a] = [ssrc |-> s, format |-> f]]
    <2>1. CASE kind = "single" /\ single!BeginSession(a)
        BY <2>1, Zenon DEF SSources, SFormats, single!BeginSession, single!tableVars, single!formatVars, single!None
    <2>2. CASE kind = "sap" /\ sap!BeginSession(a)
        BY <2>2, Zenon DEF SSources, SFormats, sap!BeginSession, sap!tableVars, sap!formatVars, sap!None
    <2>3. CASE kind = "two" /\ two!BeginSession(a)
        BY <2>3, Zenon DEF SSources, SFormats, two!BeginSession, two!tableVars, two!formatVars, two!None
    <2> QED
        BY <2>1, <2>2, <2>3
  <1>2. PICK s \in StreamSsrcs, f \in SFormats :
          /\ \A b \in SSources : sSession[b].ssrc # s
          /\ \A b \in SSources \ {a} : sLastSsrc[b] # s
          /\ sSession' = [sSession EXCEPT ![a] = [ssrc |-> s, format |-> f]]
      BY <1>1
  <1>3. /\ SSources' = SSources /\ s # "none" /\ f # "none"
        /\ \A u \in StreamSsrcs : Evidence(u)' = Evidence(u) /\ Waits(u)' = Waits(u)
      BY <1>1, NoneIsNone DEF SSources, Evidence, Fed, Waits
  <1>4. /\ sSession'[a] = [ssrc |-> s, format |-> f]
        /\ \A b \in SSources \ {a} : sSession'[b] = sSession[b]
      BY <1>2 DEF SessionTypes
  <1>5. SessionTypes'
    <2>1. sSession' \in [SSources -> Session]
        BY <1>2 DEF SessionTypes, Session
    <2> QED
        BY <1>1, <1>3, <2>1 DEF SessionTypes
  <1>6. HeardInOrder'
    <2>1. \A b \in SSources : /\ sSession'[b].ssrc = "none" <=> sSession'[b].format = "none"
                              /\ sSession'[b].ssrc = "none" => sLastSsrc[b] = "none"
                              /\ sWire[b] # "none" => sSession'[b].ssrc # "none"
        BY <1>3, <1>4 DEF HeardInOrder
    <2>2. sHand # "none" => sSession'[sHand] = sSession[sHand]
        BY <1>1, <1>4 DEF SessionTypes
    <2> QED
        BY <1>1, <1>3, <2>1, <2>2 DEF HeardInOrder
  <1>7. Distinct'
      BY <1>1, <1>2, <1>3, <1>4 DEF Distinct
  <1>8. EvidenceIsTrue'
    <2>1. sLastSsrc[a] # s
        BY <1>1, <1>2, <1>3 DEF HeardInOrder
    <2>2. \A b \in SSources, u \in StreamSsrcs :
            sSession'[b].ssrc = u /\ sLastSsrc[b] = u => b # a /\ sSession'[b] = sSession[b]
        BY <1>4, <2>1
    <2>3. \A u \in StreamSsrcs : /\ Evidence(u)' # {} => \E b \in SSources : sLastSsrc'[b] = u
                                 /\ \A g, h \in Evidence(u)' : g = h
        BY <1>1, <1>3 DEF EvidenceIsTrue
    <2>4. \A b \in SSources, u \in StreamSsrcs :
            sSession'[b].ssrc = u /\ sLastSsrc[b] = u => Evidence(u)' \subseteq {sSession'[b].format}
        BY <1>1, <1>3, <2>2 DEF EvidenceIsTrue
    <2> QED
        BY <1>1, <1>3, <2>3, <2>4 DEF EvidenceIsTrue
  <1>9. DecodedAsSent'
      BY <1>1 DEF DecodedAsSent, single!DecodedAsSent
  <1> QED
      BY <1>5, <1>6, <1>7, <1>8, <1>9

(* A packet is received.  Of the SSRC its source had before nothing is left; *)
(* what is known of the one it has now is of the session it is in.           *)
LEMMA Heard ==
  ASSUME NEW h \in {"absent", "open", "gap", "due"}, NEW k
  PROVE  /\ single!Added(h, k) \in {"open", "gap", "due"}
         /\ sap!Added(h, k) = single!Added(h, k) /\ two!Added(h, k) = single!Added(h, k)
  BY DEF single!Added, sap!Added, two!Added

LEMMA SessionReceive ==
  ASSUME SessionInv, kind' = kind, NEW a \in SSources,
         \/ kind = "single" /\ single!Receive(a)
         \/ kind = "sap" /\ sap!Receive(a)
         \/ kind = "two" /\ two!Receive(a)
  PROVE  SessionInv'
  <1> USE DEF SessionInv
  <1>a. sWire[a] # "none"
      BY Zenon DEF single!Receive, single!None, sap!Receive, sap!None, two!Receive, two!None
  <1>b. sSession[a].ssrc \in StreamSsrcs /\ sSession[a].format \in SFormats
      BY <1>a, NoneIsNone DEF SessionTypes, HeardInOrder, Session
  <1>c. PICK s \in StreamSsrcs, f \in SFormats, old \in StreamSsrcs \cup {"none"} :
          s = sSession[a].ssrc /\ f = sSession[a].format /\ old = sLastSsrc[a]
      BY <1>b DEF SessionTypes
  <1> DEFINE changed == old \notin {"none", s}
             before == IF changed /\ sHeld[old] # "absent" THEN [sHeld EXCEPT ![old] = "open"] ELSE sHeld
             from == IF changed THEN [sSender EXCEPT ![old] = [from |-> "none", format |-> "none"]]
                     ELSE sSender
             after == single!Added(before[s], sWire[a])
  <1>1. /\ sWire[a] # "none" /\ UNCHANGED <<sSession, sOut>> /\ sHand' = a
        /\ sWire' = [sWire EXCEPT ![a] = "none"]
        /\ sLastSsrc' = [sLastSsrc EXCEPT ![a] = s]
        /\ IF changed THEN /\ sProbe' = [sProbe EXCEPT ![old] = [fed |-> {}, packets |-> 0]]
                           /\ sDetected' = [sDetected EXCEPT ![old] = "none"]
           ELSE UNCHANGED <<sProbe, sDetected>>
        /\ sHeld' = [before EXCEPT ![s] = after]
        /\ sSender' = [from EXCEPT ![s] = IF after = "open" THEN [from |-> "none", format |-> "none"]
                                          ELSE [from |-> a, format |-> f]]
    <2>1. CASE kind = "single" /\ single!Receive(a)
        BY <1>c, <2>1, ZenonT(60) DEF single!Receive, single!ClearState, single!formatVars, single!NoProbe,
           single!Nobody, single!None
    <2>2. CASE kind = "sap" /\ sap!Receive(a)
        BY <1>c, <2>2, ZenonT(60) DEF sap!Receive, sap!ClearState, sap!formatVars, sap!NoProbe, sap!Nobody, sap!None,
           sap!Added,
           single!Added
    <2>3. CASE kind = "two" /\ two!Receive(a)
        BY <1>c, <2>3, ZenonT(60) DEF two!Receive, two!ClearState, two!formatVars, two!NoProbe, two!Nobody, two!None,
           two!Added,
           single!Added
    <2> QED
        BY <2>1, <2>2, <2>3
  <1>2. /\ SSources' = SSources /\ s \in StreamSsrcs /\ f \in SFormats /\ s # "none" /\ f # "none"
        /\ a # "none" /\ old \in StreamSsrcs \cup {"none"}
      BY <1>a, <1>c, NoneIsNone DEF SSources
  <1>3. before \in [StreamSsrcs -> {"absent", "open", "gap", "due"}]
      BY <1>2 DEF SessionTypes
  <1>4. after \in {"open", "gap", "due"}
      BY <1>2, <1>3, Heard
  <1>5. /\ sLastSsrc'[a] = s /\ \A b \in SSources \ {a} : sLastSsrc'[b] = sLastSsrc[b]
        /\ sWire'[a] = "none" \/ sWire'[a] = sWire[a]
        /\ \A b \in SSources \ {a} : sWire'[b] = sWire[b]
      BY <1>1 DEF SessionTypes
  <1>6. /\ sHeld'[s] = after
        /\ sSender'[s] = IF after = "open" THEN [from |-> "none", format |-> "none"]
                         ELSE [from |-> a, format |-> f]
        /\ sProbe'[s] = sProbe[s] /\ sDetected'[s] = sDetected[s]
      BY <1>1, <1>2, <1>3 DEF SessionTypes
  <1>7. \A u \in StreamSsrcs \ {s, old} :
          /\ sHeld'[u] = sHeld[u] /\ sSender'[u] = sSender[u]
          /\ sProbe'[u] = sProbe[u] /\ sDetected'[u] = sDetected[u]
      BY <1>1, <1>2, <1>3 DEF SessionTypes
  <1>8. ASSUME changed
        PROVE  /\ old \in StreamSsrcs /\ sHeld'[old] \in {"open", "absent"}
               /\ sProbe'[old].fed = {} /\ sDetected'[old] = "none"
      BY <1>1, <1>2, <1>3, <1>8 DEF SessionTypes
  <1>9. SessionTypes'
    <2>1. /\ sLastSsrc' \in [SSources -> StreamSsrcs \cup {"none"}]
          /\ sHeld' \in [StreamSsrcs -> {"absent", "open", "gap", "due"}]
        BY <1>1, <1>2, <1>3, <1>4 DEF SessionTypes
    <2>2. from \in [StreamSsrcs -> [from : SSources \cup {"none"}, format : SFormats \cup {"none"}]]
        BY <1>2 DEF SessionTypes, from
    <2>3. sSender' \in [StreamSsrcs -> [from : SSources \cup {"none"}, format : SFormats \cup {"none"}]]
        BY <1>1, <1>2, <2>2
    <2>4. /\ sProbe' \in [StreamSsrcs -> [fed : SUBSET SFormats, packets : Nat]]
          /\ sDetected' \in [StreamSsrcs -> SFormats \cup {"none"}]
      <3>1. CASE changed
        <4>1. /\ sProbe' = [sProbe EXCEPT ![old] = [fed |-> {}, packets |-> 0]]
              /\ sDetected' = [sDetected EXCEPT ![old] = "none"]
            BY <1>1, <3>1, Zenon
        <4>2. sProbe \in [StreamSsrcs -> [fed : SUBSET SFormats, packets : Nat]]
            BY DEF SessionTypes
        <4>3. sDetected \in [StreamSsrcs -> SFormats \cup {"none"}]
            BY DEF SessionTypes
        <4>4. [fed |-> {}, packets |-> 0] \in [fed : SUBSET SFormats, packets : Nat]
            OBVIOUS
        <4>5. sProbe' \in [StreamSsrcs -> [fed : SUBSET SFormats, packets : Nat]]
            BY <4>1, <4>2, <4>4, Zenon
        <4> QED
            BY <4>1, <4>3, <4>5
      <3>2. CASE ~changed
          BY <1>1, <3>2 DEF SessionTypes
      <3> QED
          BY <3>1, <3>2
    <2> QED
        BY <1>1, <1>2, <2>1, <2>3, <2>4 DEF SessionTypes
  <1>10. \A u \in StreamSsrcs \ {s, old} : /\ Waits(u)' = Waits(u) /\ Fed(u)' = Fed(u)
                                           /\ Evidence(u)' = Evidence(u)
      BY <1>7 DEF Waits, Fed, Evidence
  <1>11. changed => ~Waits(old)' /\ Evidence(old)' = {}
      BY <1>8 DEF Waits, Fed, Evidence
  <1>12. Fed(s)' \subseteq {f}
    <2>1. Fed(s)' = Fed(s) /\ Fed(s) \subseteq Evidence(s)
        BY <1>6 DEF Fed, Evidence
    <2>2. CASE old = s
      <3>1. sSession[a].ssrc = s /\ sLastSsrc[a] = s
          BY <1>c, <2>2
      <3>2. Evidence(s) \subseteq {sSession[a].format}
          BY <3>1 DEF EvidenceIsTrue
      <3> QED
          BY <1>c, <2>1, <3>2
    <2>3. CASE old # s
      <3>1. \A b \in SSources : sLastSsrc[b] # s
          BY <1>2, <1>c, <2>3 DEF Distinct
      <3> QED
          BY <1>2, <2>1, <3>1 DEF EvidenceIsTrue
    <2> QED
        BY <2>2, <2>3
  <1>13. Evidence(s)' \subseteq {f} /\ (Waits(s)' => sSender'[s].format = f)
      BY <1>4, <1>6, <1>12 DEF Evidence, Waits
  <1>14. HeardInOrder'
    <2>1. \A u \in StreamSsrcs : Waits(u)' => sSender'[u].format # "none"
      <3>1. \A u \in StreamSsrcs \ {s, old} : Waits(u)' => sSender'[u].format # "none"
          BY <1>7, <1>10 DEF HeardInOrder
      <3>2. Waits(s)' => sSender'[s].format # "none"
          BY <1>2, <1>13
      <3>3. ASSUME NEW u \in StreamSsrcs, u = old, u # s PROVE ~Waits(u)'
          BY <1>2, <1>11, <3>3, NoneIsNone
      <3> QED
          BY <3>1, <3>2, <3>3
    <2>2. \A b \in SSources : /\ sSession[b].ssrc = "none" => sLastSsrc'[b] = "none"
                              /\ sWire'[b] # "none" => sSession[b].ssrc # "none"
        BY <1>2, <1>5, <1>c DEF HeardInOrder
    <2> QED
        BY <1>1, <1>2, <1>5, <1>c, <2>1, <2>2 DEF HeardInOrder
  <1>15. Distinct'
      BY <1>1, <1>2, <1>5, <1>c DEF Distinct
  <1>16. EvidenceIsTrue'
    <2>1. ASSUME NEW u \in StreamSsrcs
          PROVE  /\ Evidence(u)' # {} => \E b \in SSources : sLastSsrc'[b] = u
                 /\ \A g, h \in Evidence(u)' : g = h
      <3>1. CASE u = s
          BY <1>5, <1>13, <3>1
      <3>2. CASE u # s /\ u = old
          BY <1>2, <1>11, <3>2, NoneIsNone
      <3>3. CASE u # s /\ u # old
        <4>1. Evidence(u)' = Evidence(u)
            BY <1>10, <3>3
        <4>2. \A b \in SSources : sLastSsrc[b] = u => sLastSsrc'[b] = u
            BY <1>5, <1>c, <3>3
        <4> QED
            BY <4>1, <4>2 DEF EvidenceIsTrue
      <3> QED
          BY <3>1, <3>2, <3>3
    <2>2. ASSUME NEW b \in SSources, NEW u \in StreamSsrcs, sSession[b].ssrc = u, sLastSsrc'[b] = u
          PROVE  Evidence(u)' \subseteq {sSession[b].format}
      <3>1. CASE b = a
          BY <1>13, <1>c, <2>2, <3>1
      <3>2. CASE b # a
        <4>1. u \notin {s, old} /\ sLastSsrc[b] = u
            BY <1>5, <1>c, <2>2, <3>2, NoneIsNone DEF Distinct
        <4> QED
            BY <1>10, <2>2, <4>1 DEF EvidenceIsTrue
      <3> QED
          BY <3>1, <3>2
    <2>3. \A b \in SSources, u \in StreamSsrcs :
            sSession[b].ssrc = u /\ sLastSsrc'[b] = u => Evidence(u)' \subseteq {sSession[b].format}
        BY <2>2
    <2> QED
        BY <1>1, <1>2, <2>1, <2>3 DEF EvidenceIsTrue
  <1>17. DecodedAsSent'
      BY <1>1 DEF DecodedAsSent, single!DecodedAsSent
  <1> QED
      BY <1>9, <1>14, <1>15, <1>16, <1>17

(* A packet of format f of the SSRC s is processed: dispatched as what it is *)
(* known for, or fed to the probe, which may tell a format from it.          *)
Works(s, f) ==
  \/ /\ UNCHANGED <<sProbe, sDetected>> /\ sOut'.real = f
     /\ \/ sOut'.by \in {"ssrc", "host"}
        \/ sOut'.by = "type" /\ sOut'.as = f
        \/ sOut'.by = "probe" /\ sOut'.as = sDetected[s] /\ sDetected[s] # "none"
  \/ \E g \in sProbe[s].fed \cup {f} :
       /\ sDetected' = [sDetected EXCEPT ![s] = g]
       /\ sProbe' = [sProbe EXCEPT ![s] = [fed |-> {}, packets |-> 0]]
       /\ sOut'.by = "probe" /\ sOut'.as = g /\ sOut'.real = f
  \/ /\ UNCHANGED <<sDetected, sOut>>
     /\ \E n \in Nat : sProbe' = [sProbe EXCEPT ![s] = [fed |-> sProbe[s].fed \cup {f}, packets |-> n]]

LEMMA SingleWorks ==
  ASSUME NEW s \in StreamSsrcs, sProbe[s].packets \in Nat, NEW a, NEW f, single!Process(a, s, f)
  PROVE  Works(s, f)
  <1>1. CASE single!Resolved(s, f).by = "none"
    <2> DEFINE n == IF sProbe[s].packets < SingleNeed THEN sProbe[s].packets + 1 ELSE SingleNeed
    <2>1. n \in Nat
        BY NoneIsNone
    <2>2. single!Probe(a, s, f)
        BY <1>1, Zenon DEF single!Process, single!None
    <2> HIDE DEF n
    <2>3. \/ \E g \in sProbe[s].fed \cup {f} :
               /\ sDetected' = [sDetected EXCEPT ![s] = g]
               /\ sProbe' = [sProbe EXCEPT ![s] = [fed |-> {}, packets |-> 0]]
               /\ single!Dispatch(a, s, f, [by |-> "probe", as |-> g])
          \/ /\ sProbe' = [sProbe EXCEPT ![s] = [fed |-> sProbe[s].fed \cup {f}, packets |-> n]]
             /\ UNCHANGED <<sDetected, sOut>>
        BY <2>2 DEF single!Probe, single!NoProbe, n
    <2> QED
        BY <2>1, <2>3 DEF Works, single!Dispatch
  <1>2. CASE single!Resolved(s, f).by # "none"
    <2>1. single!Dispatch(a, s, f, single!Resolved(s, f)) /\ UNCHANGED <<sProbe, sDetected>>
        BY <1>2, Zenon DEF single!Process, single!None, single!formatVars
    <2> QED
        BY <1>2, <2>1 DEF Works, single!Dispatch, single!Resolved, single!None
  <1> QED
      BY <1>1, <1>2

LEMMA SapWorks ==
  ASSUME NEW s \in StreamSsrcs, sProbe[s].packets \in Nat, NEW a, NEW f, sap!Process(a, s, f)
  PROVE  Works(s, f)
  <1>1. CASE sap!Resolved(s, f).by = "none"
    <2> DEFINE n == IF sProbe[s].packets < SingleNeed THEN sProbe[s].packets + 1 ELSE SingleNeed
    <2>1. n \in Nat
        BY NoneIsNone
    <2>2. sap!Probe(a, s, f)
        BY <1>1, Zenon DEF sap!Process, sap!None
    <2> HIDE DEF n
    <2>3. \/ \E g \in sProbe[s].fed \cup {f} :
               /\ sDetected' = [sDetected EXCEPT ![s] = g]
               /\ sProbe' = [sProbe EXCEPT ![s] = [fed |-> {}, packets |-> 0]]
               /\ sap!Dispatch(a, s, f, [by |-> "probe", as |-> g])
          \/ /\ sProbe' = [sProbe EXCEPT ![s] = [fed |-> sProbe[s].fed \cup {f}, packets |-> n]]
             /\ UNCHANGED <<sDetected, sOut>>
        BY <2>2 DEF sap!Probe, sap!NoProbe, n
    <2> QED
        BY <2>1, <2>3 DEF Works, sap!Dispatch
  <1>2. CASE sap!Resolved(s, f).by # "none"
    <2>1. sap!Dispatch(a, s, f, sap!Resolved(s, f)) /\ UNCHANGED <<sProbe, sDetected>>
        BY <1>2, Zenon DEF sap!Process, sap!None, sap!formatVars
    <2> QED
        BY <1>2, <2>1 DEF Works, sap!Dispatch, sap!Resolved, sap!None
  <1> QED
      BY <1>1, <1>2

LEMMA TwoWorks ==
  ASSUME NEW s \in StreamSsrcs, sProbe[s].packets \in Nat, NEW a, NEW f, two!Process(a, s, f)
  PROVE  Works(s, f)
  <1>1. CASE two!Resolved(s, f).by = "none"
    <2> DEFINE n == IF sProbe[s].packets < PairNeed THEN sProbe[s].packets + 1 ELSE PairNeed
    <2>1. n \in Nat
        BY NoneIsNone
    <2>2. two!Probe(a, s, f)
        BY <1>1, Zenon DEF two!Process, two!None
    <2> HIDE DEF n
    <2>3. \/ \E g \in sProbe[s].fed \cup {f} :
               /\ sDetected' = [sDetected EXCEPT ![s] = g]
               /\ sProbe' = [sProbe EXCEPT ![s] = [fed |-> {}, packets |-> 0]]
               /\ two!Dispatch(a, s, f, [by |-> "probe", as |-> g])
          \/ /\ sProbe' = [sProbe EXCEPT ![s] = [fed |-> sProbe[s].fed \cup {f}, packets |-> n]]
             /\ UNCHANGED <<sDetected, sOut>>
        BY <2>2 DEF two!Probe, two!NoProbe, n
    <2> QED
        BY <2>1, <2>3 DEF Works, two!Dispatch
  <1>2. CASE two!Resolved(s, f).by # "none"
    <2>1. two!Dispatch(a, s, f, two!Resolved(s, f)) /\ UNCHANGED <<sProbe, sDetected>>
        BY <1>2, Zenon DEF two!Process, two!None, two!formatVars
    <2> QED
        BY <1>2, <2>1 DEF Works, two!Dispatch, two!Resolved, two!None
  <1> QED
      BY <1>1, <1>2
(* When all that is known of the SSRC is of the format of the packet that is *)
(* processed, so is all that is known afterwards, and what is found by it.   *)
LEMMA Processed ==
  ASSUME SessionInv, kind' = kind, NEW s \in StreamSsrcs, NEW f \in SFormats,
         Fed(s) \subseteq {f}, Works(s, f),
         UNCHANGED <<sSession, sLastSsrc, sWire>>, sHand' \in {sHand, "none"},
         sHeld' = [sHeld EXCEPT ![s] = "open"],
         sSender' = [sSender EXCEPT ![s] = [from |-> "none", format |-> "none"]],
         \E a \in SSources : sLastSsrc[a] = s,
         \A a \in SSources : sSession[a].ssrc = s /\ sLastSsrc[a] = s => sSession[a].format = f
  PROVE  SessionInv'
  <1> USE DEF SessionInv
  <1>1. SSources' = SSources /\ f # "none"
      BY NoneIsNone DEF SSources
  <1>2. sProbe[s].fed \subseteq {f} /\ sDetected[s] \in {f, "none"}
      BY DEF Fed
  <1> DEFINE Settled == \E g \in {f, "none"}, p \in [fed : SUBSET {f}, packets : Nat] :
                        /\ sProbe' = [sProbe EXCEPT ![s] = p]
                        /\ sDetected' = [sDetected EXCEPT ![s] = g]
  <1>3. Settled
    <2>1. sProbe[s] \in [fed : SUBSET {f}, packets : Nat]
        BY <1>2 DEF SessionTypes
    <2>2. /\ sProbe = [sProbe EXCEPT ![s] = sProbe[s]]
          /\ sDetected = [sDetected EXCEPT ![s] = sDetected[s]]
        BY DEF SessionTypes
    <2>3. CASE UNCHANGED <<sProbe, sDetected>>
        BY <1>2, <2>1, <2>2, <2>3
    <2>4. ASSUME NEW g \in sProbe[s].fed \cup {f}, sDetected' = [sDetected EXCEPT ![s] = g],
                 sProbe' = [sProbe EXCEPT ![s] = [fed |-> {}, packets |-> 0]]
          PROVE  Settled
      <3>1. g = f
          BY <1>2
      <3> QED
          BY <2>4, <3>1
    <2>5. ASSUME UNCHANGED sDetected, NEW n \in Nat,
                 sProbe' = [sProbe EXCEPT ![s] = [fed |-> sProbe[s].fed \cup {f}, packets |-> n]]
          PROVE  Settled
      <3>1. [fed |-> sProbe[s].fed \cup {f}, packets |-> n] \in [fed : SUBSET {f}, packets : Nat]
          BY <1>2
      <3> QED
          BY <1>2, <2>2, <2>5, <3>1
    <2> QED
        BY <2>3, <2>4, <2>5 DEF Works
  <1>4. PICK g \in {f, "none"}, p \in [fed : SUBSET {f}, packets : Nat] :
          sProbe' = [sProbe EXCEPT ![s] = p] /\ sDetected' = [sDetected EXCEPT ![s] = g]
      BY <1>3
  <1>5. /\ sProbe'[s] = p /\ sDetected'[s] = g /\ sHeld'[s] = "open"
        /\ \A u \in StreamSsrcs \ {s} : /\ sProbe'[u] = sProbe[u] /\ sDetected'[u] = sDetected[u]
                                         /\ sHeld'[u] = sHeld[u] /\ sSender'[u] = sSender[u]
      BY <1>4 DEF SessionTypes
  <1>6. SessionTypes'
    <2>1. p \in [fed : SUBSET SFormats, packets : Nat] /\ g \in SFormats \cup {"none"}
        BY <1>4
    <2>2. sProbe' \in [StreamSsrcs -> [fed : SUBSET SFormats, packets : Nat]]
        BY <1>4, <2>1 DEF SessionTypes
    <2>3. sDetected' \in [StreamSsrcs -> SFormats \cup {"none"}]
        BY <1>4, <2>1 DEF SessionTypes
    <2>4. sHeld' \in [StreamSsrcs -> {"absent", "open", "gap", "due"}]
        BY DEF SessionTypes
    <2>5. sSender' \in [StreamSsrcs -> [from : SSources \cup {"none"}, format : SFormats \cup {"none"}]]
        BY DEF SessionTypes
    <2> QED
        BY <1>1, <2>2, <2>3, <2>4, <2>5 DEF SessionTypes
  <1>7. /\ ~Waits(s)' /\ Evidence(s)' \subseteq {f}
        /\ \A u \in StreamSsrcs \ {s} : Waits(u)' = Waits(u) /\ Evidence(u)' = Evidence(u)
      BY <1>4, <1>5 DEF Waits, Evidence, Fed
  <1>8. HeardInOrder'
    <2>1. \A u \in StreamSsrcs : Waits(u)' => sSender'[u].format # "none"
        BY <1>5, <1>7 DEF HeardInOrder
    <2> QED
        BY <1>1, <2>1 DEF HeardInOrder
  <1>9. Distinct'
      BY <1>1 DEF Distinct
  <1>10. EvidenceIsTrue'
    <2>1. \A u \in StreamSsrcs : /\ Evidence(u)' # {} => \E a \in SSources : sLastSsrc[a] = u
                                 /\ \A h, k \in Evidence(u)' : h = k
        BY <1>7 DEF EvidenceIsTrue
    <2>2. \A a \in SSources, u \in StreamSsrcs :
            sSession[a].ssrc = u /\ sLastSsrc[a] = u => Evidence(u)' \subseteq {sSession[a].format}
        BY <1>7 DEF EvidenceIsTrue
    <2> QED
        BY <1>1, <2>1, <2>2 DEF EvidenceIsTrue
  <1>11. DecodedAsSent'
    <2>1. sOut' = sOut \/ sOut'.by \notin {"probe", "type"} \/ sOut'.as = sOut'.real
        BY <1>2 DEF Works
    <2> QED
        BY <2>1 DEF DecodedAsSent, single!DecodedAsSent
  <1> QED
      BY <1>6, <1>8, <1>9, <1>10, <1>11

(* The packet in hand is processed, or held back behind a missing one.       *)
LEMMA SessionReady ==
  ASSUME SessionInv, kind' = kind,
         \/ kind = "single" /\ single!Ready
         \/ kind = "sap" /\ sap!Ready
         \/ kind = "two" /\ two!Ready
  PROVE  SessionInv'
  <1> USE DEF SessionInv
  <1>1. /\ sHand # "none" /\ sHand' = "none" /\ UNCHANGED <<sSession, sLastSsrc, sWire>>
      BY Zenon DEF single!Ready, single!senderVars, single!None, sap!Ready, sap!senderVars, sap!None,
           two!Ready, two!senderVars, two!None
  <1>2. PICK a \in SSources, s \in StreamSsrcs, f \in SFormats :
          a = sHand /\ s = sSession[a].ssrc /\ f = sSession[a].format /\ s = sLastSsrc[a]
    <2>1. /\ sHand \in SSources /\ sSession[sHand].ssrc = sLastSsrc[sHand] /\ sLastSsrc[sHand] # "none"
          /\ sSession[sHand].ssrc \in StreamSsrcs /\ sSession[sHand].format \in SFormats
        BY <1>1 DEF SessionTypes, HeardInOrder, Session
    <2> QED
        BY <2>1
  <1>3. CASE sHeld[s] = "gap"
    <2>1. UNCHANGED <<sHeld, sSender, sProbe, sDetected, sOut>>
        BY <1>2, <1>3, Zenon DEF single!Ready, single!formatVars, sap!Ready, sap!formatVars, two!Ready,
           two!formatVars
    <2>2. SSources' = SSources /\ \A u \in StreamSsrcs : Waits(u)' = Waits(u) /\ Evidence(u)' = Evidence(u)
        BY <2>1 DEF SSources, Waits, Evidence, Fed
    <2>3. SessionTypes'
        BY <1>1, <2>1, <2>2 DEF SessionTypes
    <2>4. HeardInOrder' /\ Distinct'
        BY <1>1, <2>1, <2>2 DEF HeardInOrder, Distinct
    <2>5. EvidenceIsTrue'
        BY <1>1, <2>2 DEF EvidenceIsTrue
    <2>6. DecodedAsSent'
        BY <2>1 DEF DecodedAsSent, single!DecodedAsSent
    <2> QED
        BY <2>3, <2>4, <2>5, <2>6
  <1>4. CASE sHeld[s] # "gap"
    <2>1. /\ \/ kind = "single" /\ single!Process(a, s, f)
             \/ kind = "sap" /\ sap!Process(a, s, f)
             \/ kind = "two" /\ two!Process(a, s, f)
          /\ sHeld' = [sHeld EXCEPT ![s] = "open"]
          /\ sSender' = [sSender EXCEPT ![s] = [from |-> "none", format |-> "none"]]
        BY <1>2, <1>4, Zenon DEF single!Ready, single!Release, single!Nobody, single!None, sap!Ready, sap!Release,
           sap!Nobody, sap!None, two!Ready, two!Release, two!Nobody, two!None
    <2>2. Works(s, f)
      <3>1. sProbe[s].packets \in Nat
          BY DEF SessionTypes
      <3> QED
          BY <2>1, <3>1, SingleWorks, SapWorks, TwoWorks, Zenon
    <2>3. Fed(s) \subseteq {f}
        BY <1>2 DEF EvidenceIsTrue, Evidence
    <2>4. \A b \in SSources : sLastSsrc[b] = s => b = a
        BY <1>2, NoneIsNone DEF Distinct
    <2>5. \A b \in SSources : sSession[b].ssrc = s /\ sLastSsrc[b] = s => sSession[b].format = f
        BY <1>2, <2>4
    <2>6. \E b \in SSources : sLastSsrc[b] = s
        BY <1>2
    <2>7. sHand' \in {sHand, "none"}
        BY <1>1
    <2> QED
        BY <1>1, <2>1, <2>2, <2>3, <2>5, <2>6, <2>7, Processed
  <1> QED
      BY <1>3, <1>4

(* What has waited long enough is processed without what it waited for.      *)
LEMMA SessionTimeout ==
  ASSUME SessionInv, kind' = kind,
         \/ kind = "single" /\ single!Timeout
         \/ kind = "sap" /\ sap!Timeout
         \/ kind = "two" /\ two!Timeout
  PROVE  SessionInv'
  <1> USE DEF SessionInv
  <1>1. /\ UNCHANGED <<sSession, sLastSsrc, sWire, sHand>>
        /\ \E s \in StreamSsrcs :
             /\ sHeld[s] = "due"
             /\ \/ kind = "single" /\ single!Process(sSender[s].from, s, sSender[s].format)
                \/ kind = "sap" /\ sap!Process(sSender[s].from, s, sSender[s].format)
                \/ kind = "two" /\ two!Process(sSender[s].from, s, sSender[s].format)
             /\ sHeld' = [sHeld EXCEPT ![s] = "open"]
             /\ sSender' = [sSender EXCEPT ![s] = [from |-> "none", format |-> "none"]]
    <2>1. CASE kind = "single" /\ single!Timeout
        BY <2>1, Zenon DEF single!Timeout, single!Release, single!senderVars, single!Nobody, single!None
    <2>2. CASE kind = "sap" /\ sap!Timeout
        BY <2>2, Zenon DEF sap!Timeout, sap!Release, sap!senderVars, sap!Nobody, sap!None
    <2>3. CASE kind = "two" /\ two!Timeout
        BY <2>3, Zenon DEF two!Timeout, two!Release, two!senderVars, two!Nobody, two!None
    <2> QED
        BY <2>1, <2>2, <2>3
  <1>2. PICK s \in StreamSsrcs :
             /\ sHeld[s] = "due"
             /\ \/ kind = "single" /\ single!Process(sSender[s].from, s, sSender[s].format)
                \/ kind = "sap" /\ sap!Process(sSender[s].from, s, sSender[s].format)
                \/ kind = "two" /\ two!Process(sSender[s].from, s, sSender[s].format)
             /\ sHeld' = [sHeld EXCEPT ![s] = "open"]
             /\ sSender' = [sSender EXCEPT ![s] = [from |-> "none", format |-> "none"]]
      BY <1>1
  <1>3. Waits(s)
      BY <1>2 DEF Waits
  <1>4. PICK f \in SFormats : f = sSender[s].format
      BY <1>3 DEF HeardInOrder, SessionTypes
  <1>5. f \in Evidence(s) /\ Fed(s) \subseteq Evidence(s)
      BY <1>3, <1>4 DEF Evidence
  <1>6. Fed(s) \subseteq {f}
      BY <1>5 DEF EvidenceIsTrue
  <1>7. Works(s, f)
    <2>1. sProbe[s].packets \in Nat
        BY DEF SessionTypes
    <2> QED
        BY <1>2, <1>4, <2>1, SingleWorks, SapWorks, TwoWorks, Zenon
  <1>8. /\ \E a \in SSources : sLastSsrc[a] = s
        /\ \A a \in SSources : sSession[a].ssrc = s /\ sLastSsrc[a] = s => sSession[a].format = f
      BY <1>5 DEF EvidenceIsTrue
  <1> QED
      BY <1>1, <1>2, <1>6, <1>7, <1>8, Processed

-----------------------------------------------------------------------------
LEMMA SessionStep ==
  ASSUME SessionInv, kind' = kind,
         \/ kind = "single" /\ single!Next
         \/ kind = "sap" /\ sap!Next
         \/ kind = "two" /\ two!Next
  PROVE  SessionInv'
  <1>1. SSources = IF kind = "two" THEN PairSources ELSE {"a"}
      BY DEF SSources
  <1>2. CASE kind = "single" /\ single!Next
      BY <1>1, <1>2, SessionBegun, SessionSend, SessionAnnounce, SessionReceive, SessionReady,
         SessionTimeout, SessionElapse, Zenon DEF single!Next
  <1>3. CASE kind = "sap" /\ sap!Next
      BY <1>1, <1>3, SessionBegun, SessionSend, SessionAnnounce, SessionReceive, SessionReady,
         SessionTimeout, SessionElapse, Zenon DEF sap!Next
  <1>4. CASE kind = "two" /\ two!Next
      BY <1>1, <1>4, SessionBegun, SessionSend, SessionAnnounce, SessionReceive, SessionReady,
         SessionTimeout, SessionElapse, Zenon DEF two!Next
  <1> QED
      BY <1>2, <1>3, <1>4

LEMMA SessionInvariance == AllSpec => []SessionInv
  <1>1. SessionInv /\ [AllNext]_allVars => SessionInv'
      BY Apart, SessionStep, SessionStutter
  <1> QED
      BY <1>1, SessionBegins, PTL DEF AllSpec

(* rtp_receiver_base.cpp:111-145, 719-790: whatever packets are lost or come *)
(* late, and however the sources go on from one SSRC and format to another,  *)
(* a packet that is decoded by its payload type or by what a probe found is  *)
(* decoded as its source sent it - provided that an SSRC is not taken up     *)
(* again before its source was heard with another one (Reused is FALSE).     *)
THEOREM FormatsAreTrue == AllSpec => []DecodedAsSent
  <1>1. SessionInv => DecodedAsSent
      BY DEF SessionInv
  <1> QED
      BY <1>1, SessionInvariance, PTL

-----------------------------------------------------------------------------
(* PulseReceiver, its four instances at once.                                *)
QConns == CASE kind = "tags" -> TagConns
            [] kind = "pair" -> PairConns
            [] kind = "fds"  -> FdConns
            [] OTHER         -> {"c"}
Phases == {"none", "run", "finished", "gone"}
Away   == {"none", "gone"}

(* What the streams of a connection are known by                             *)
Names(c) == {qStreams[c][s].comp : s \in DOMAIN qStreams[c]}

TagTypes ==
  /\ qPhase \in [QConns -> Phases] /\ qProg \in [QConns -> PulsePrograms]
  /\ qNextTag \in Nat /\ qNextIndex \in [QConns -> Nat]
  /\ qComposites \in [PulsePrograms -> SUBSET (PulsePrograms \X Nat)]
  /\ qKnown \subseteq PulsePrograms
  /\ qStreams = [c \in QConns |-> qStreams[c]]
  /\ \A c \in QConns : \A s \in DOMAIN qStreams[c] : "comp" \in DOMAIN qStreams[c][s]

(* The number of a stream and the number in its name were never given before.*)
NamesNew ==
  \A c \in QConns : \A s \in DOMAIN qStreams[c] :
    /\ s \in Nat /\ s < qNextIndex[c]
    /\ \E t \in Nat : t < qNextTag /\ qStreams[c][s].comp = <<qProg[c], t>>

NamesDiffer ==
  \A c, d \in QConns : \A s \in DOMAIN qStreams[c] : \A r \in DOMAIN qStreams[d] :
    qStreams[c][s].comp = qStreams[d][r].comp => c = d /\ s = r

NamesPublished ==
  /\ \A c \in QConns : qPhase[c] \in Away => DOMAIN qStreams[c] = {}
  /\ \A p \in PulsePrograms :
       qComposites[p] = UNION {Names(c) : c \in {d \in QConns : qProg[d] = p}}
  /\ \A p \in qKnown : qComposites[p] # {}

TagInv == TagTypes /\ NamesNew /\ NamesDiffer /\ NamesPublished

-----------------------------------------------------------------------------
(* What a step may do to the streams and to what is published of them.       *)
PhaseKept ==
  /\ qPhase' \in [QConns -> Phases]
  /\ \A c \in QConns : qPhase'[c] \in Away => qPhase[c] \in Away

TagsQuiet == UNCHANGED <<qComposites, qKnown, qNextTag, qNextIndex, qProg>>

StreamsKept ==
  /\ qStreams' = [c \in QConns |-> qStreams'[c]]
  /\ \A c \in QConns : /\ DOMAIN qStreams'[c] = DOMAIN qStreams[c]
                       /\ \A s \in DOMAIN qStreams[c] : /\ "comp" \in DOMAIN qStreams'[c][s]
                                                        /\ qStreams'[c][s].comp = qStreams[c][s].comp

StreamMade(c, st) ==
  /\ qPhase[c] = "run" /\ PhaseKept
  /\ "comp" \in DOMAIN st /\ st.comp = <<qProg[c], qNextTag>>
  /\ qStreams' = [qStreams EXCEPT ![c] =
                    [x \in DOMAIN @ \cup {qNextIndex[c]} |-> IF x = qNextIndex[c] THEN st ELSE @[x]]]
  /\ qNextIndex' = [qNextIndex EXCEPT ![c] = @ + 1] /\ qNextTag' = qNextTag + 1
  /\ qKnown' = qKnown \cup {qProg[c]}
  /\ qComposites' = [qComposites EXCEPT ![qProg[c]] = @ \cup {st.comp}]
  /\ UNCHANGED qProg

StreamsEnd(c, S) ==
  /\ S \subseteq DOMAIN qStreams[c]
  /\ qPhase' \in [QConns -> Phases]
  /\ \A d \in QConns : qPhase'[d] \in Away => qPhase[d] \in Away \/ (d = c /\ S = DOMAIN qStreams[c])
  /\ qStreams' = [qStreams EXCEPT ![c] = [x \in DOMAIN @ \ S |-> @[x]]]
  /\ qKnown' = IF S = {} THEN qKnown ELSE qKnown \ {qProg[c]}
  /\ qComposites' = [qComposites EXCEPT ![qProg[c]] = @ \ {qStreams[c][s].comp : s \in S}]
  /\ UNCHANGED <<qNextTag, qNextIndex, qProg>>

TagStep ==
  \/ PhaseKept /\ TagsQuiet /\ StreamsKept
  \/ \E c \in QConns : (\E st : StreamMade(c, st)) \/ (\E S : StreamsEnd(c, S))

-----------------------------------------------------------------------------
LEMMA TagBegins == AllInit => TagInv
  <1> SUFFICES ASSUME AllInit PROVE TagInv
      OBVIOUS
  <1>1. /\ qPhase = [c \in QConns |-> "none"] /\ qProg \in [QConns -> PulsePrograms]
        /\ qStreams = [c \in QConns |-> flow!Empty] /\ qNextIndex = [c \in QConns |-> 1]
        /\ qComposites = [p \in PulsePrograms |-> {}] /\ qKnown = {} /\ qNextTag = 0
    <2>1. CASE kind = "tags"
        BY <2>1, Zenon DEF AllInit, QConns, tags!Init, tags!Empty, flow!Empty
    <2>2. CASE kind = "pair"
        BY <2>2, Zenon DEF AllInit, QConns, pair!Init, pair!Empty, flow!Empty
    <2>3. CASE kind = "fds"
        BY <2>3, Zenon DEF AllInit, QConns, fds!Init, fds!Empty, flow!Empty
    <2>4. CASE kind \notin {"tags", "pair", "fds"}
        BY <2>4, Zenon DEF AllInit, QConns, flow!Init
    <2> QED
        BY <2>1, <2>2, <2>3, <2>4
  <1>2. \A c \in QConns : DOMAIN qStreams[c] = {}
      BY <1>1 DEF flow!Empty
  <1>3. \A p \in PulsePrograms : qComposites[p] = UNION {Names(c) : c \in {d \in QConns : qProg[d] = p}}
      BY <1>1, <1>2 DEF Names
  <1>4. TagTypes
      BY <1>1, <1>2 DEF TagTypes, Phases
  <1> QED
      BY <1>1, <1>2, <1>3, <1>4 DEF TagInv, NamesNew, NamesDiffer, NamesPublished

LEMMA TagKept ==
  ASSUME TagInv, kind' = kind, PhaseKept, TagsQuiet, StreamsKept
  PROVE  TagInv'
  <1>1. QConns' = QConns
      BY DEF QConns
  <1>2. \A c \in QConns : Names(c)' = Names(c)
      BY DEF StreamsKept, Names
  <1>3. TagTypes'
      BY <1>1 DEF TagInv, TagTypes, PhaseKept, TagsQuiet, StreamsKept
  <1>4. NamesNew'
      BY <1>1 DEF TagInv, NamesNew, TagsQuiet, StreamsKept
  <1>5. NamesDiffer'
      BY <1>1 DEF TagInv, NamesDiffer, StreamsKept
  <1>6. NamesPublished'
    <2>1. \A c \in QConns : qPhase'[c] \in Away => DOMAIN qStreams'[c] = {}
        BY DEF TagInv, NamesPublished, PhaseKept, StreamsKept
    <2>2. \A p \in PulsePrograms : UNION {Names(c)' : c \in {d \in QConns : qProg'[d] = p}}
                                     = UNION {Names(c) : c \in {d \in QConns : qProg[d] = p}}
        BY <1>2 DEF TagsQuiet
    <2> QED
        BY <1>1, <2>1, <2>2 DEF TagInv, NamesPublished, TagsQuiet
  <1> QED
      BY <1>3, <1>4, <1>5, <1>6 DEF TagInv

LEMMA TagMade ==
  ASSUME TagInv, kind' = kind, NEW c \in QConns, NEW st, StreamMade(c, st)
  PROVE  TagInv'
  <1> DEFINE n == qNextIndex[c]
             p == qProg[c]
  <1>1. QConns' = QConns /\ UNCHANGED qProg
      BY DEF QConns, StreamMade
  <1>2. /\ qStreams' = [d \in QConns |-> qStreams'[d]]
        /\ DOMAIN qStreams'[c] = DOMAIN qStreams[c] \cup {n} /\ n \notin DOMAIN qStreams[c]
        /\ qStreams'[c][n] = st /\ \A s \in DOMAIN qStreams[c] : qStreams'[c][s] = qStreams[c][s]
        /\ \A d \in QConns \ {c} : qStreams'[d] = qStreams[d]
        /\ n \in Nat /\ qNextTag \in Nat /\ p \in PulsePrograms
    <2>1. qStreams = [d \in QConns |-> qStreams[d]] /\ n \in Nat /\ qNextTag \in Nat /\ p \in PulsePrograms
        BY DEF TagInv, TagTypes
    <2>2. n \notin DOMAIN qStreams[c]
        BY <2>1 DEF TagInv, NamesNew
    <2> QED
        BY <2>1, <2>2 DEF StreamMade
  <1>3. \A d \in QConns : \A s \in DOMAIN qStreams[d] : st.comp # qStreams[d][s].comp
    <2> SUFFICES ASSUME NEW d \in QConns, NEW s \in DOMAIN qStreams[d], st.comp = qStreams[d][s].comp
                 PROVE  FALSE
        OBVIOUS
    <2>1. PICK t \in Nat : t < qNextTag /\ qStreams[d][s].comp = <<qProg[d], t>>
        BY DEF TagInv, NamesNew
    <2>2. st.comp = <<qProg[c], qNextTag>>
        BY DEF StreamMade
    <2> QED
        BY <1>2, <2>1, <2>2
  <1>4. TagTypes'
    <2>1. /\ qNextTag' \in Nat /\ qNextIndex' \in [QConns -> Nat]
          /\ qKnown' \subseteq PulsePrograms
        BY <1>2 DEF TagInv, TagTypes, StreamMade
    <2>2. qComposites' \in [PulsePrograms -> SUBSET (PulsePrograms \X Nat)]
      <3>1. st.comp \in PulsePrograms \X Nat
          BY <1>2 DEF StreamMade
      <3> QED
          BY <1>2, <3>1 DEF TagInv, TagTypes, StreamMade
    <2>3. \A d \in QConns : \A s \in DOMAIN qStreams'[d] : "comp" \in DOMAIN qStreams'[d][s]
        BY <1>2 DEF TagInv, TagTypes, StreamMade
    <2>4. qPhase' \in [QConns -> Phases] /\ qProg \in [QConns -> PulsePrograms]
        BY DEF TagInv, TagTypes, StreamMade, PhaseKept
    <2> QED
        BY <1>1, <1>2, <2>1, <2>2, <2>3, <2>4 DEF TagTypes
  <1>5. NamesNew'
    <2> SUFFICES ASSUME NEW d \in QConns, NEW s \in DOMAIN qStreams'[d]
                 PROVE  /\ s \in Nat /\ s < qNextIndex'[d]
                        /\ \E t \in Nat : t < qNextTag' /\ qStreams'[d][s].comp = <<qProg'[d], t>>
        BY <1>1 DEF NamesNew
    <2>1. /\ qNextIndex' = [qNextIndex EXCEPT ![c] = n + 1] /\ qNextTag' = qNextTag + 1
          /\ qNextIndex \in [QConns -> Nat] /\ st.comp = <<p, qNextTag>>
        BY DEF StreamMade, TagInv, TagTypes
    <2>2. CASE d = c /\ s = n
        BY <1>1, <1>2, <2>1, <2>2
    <2>3. CASE s \in DOMAIN qStreams[d] /\ qStreams'[d][s] = qStreams[d][s]
      <3>1. s \in Nat /\ s < qNextIndex[d] /\ \E t \in Nat : t < qNextTag /\ qStreams[d][s].comp = <<qProg[d], t>>
          BY <2>3 DEF TagInv, NamesNew
      <3>2. qNextIndex'[d] >= qNextIndex[d] /\ qNextIndex[d] \in Nat /\ qNextIndex'[d] \in Nat
          BY <1>2, <2>1
      <3> QED
          BY <1>1, <1>2, <2>1, <2>3, <3>1, <3>2
    <2> QED
        BY <1>2, <2>2, <2>3
  <1>6. NamesDiffer'
      BY <1>1, <1>2, <1>3 DEF TagInv, NamesDiffer
  <1>7. NamesPublished'
    <2>1. \A d \in QConns : qPhase'[d] \in Away => DOMAIN qStreams'[d] = {}
      <3>1. qPhase'[c] \notin Away
          BY DEF StreamMade, PhaseKept, Away
      <3> QED
          BY <1>2, <3>1 DEF TagInv, NamesPublished, StreamMade, PhaseKept
    <2>2. Names(c)' = Names(c) \cup {st.comp}
        BY <1>2 DEF Names
    <2>3. \A d \in QConns \ {c} : Names(d)' = Names(d)
        BY <1>2 DEF Names
    <2>4. ASSUME NEW r \in PulsePrograms
          PROVE  qComposites'[r] = UNION {Names(d)' : d \in {d \in QConns : qProg[d] = r}}
      <3>1. qComposites[r] = UNION {Names(d) : d \in {d \in QConns : qProg[d] = r}}
          BY DEF TagInv, NamesPublished
      <3>2. CASE r = p
        <4>1. qComposites'[r] = qComposites[r] \cup {st.comp}
            BY <3>2 DEF StreamMade, TagInv, TagTypes
        <4> QED
            BY <2>2, <2>3, <3>1, <3>2, <4>1
      <3>3. CASE r # p
        <4>1. qComposites'[r] = qComposites[r]
            BY <3>3 DEF StreamMade, TagInv, TagTypes
        <4> QED
            BY <2>3, <3>1, <3>3, <4>1
      <3> QED
          BY <3>2, <3>3
    <2>5. \A r \in qKnown' : qComposites'[r] # {}
        BY DEF StreamMade, TagInv, TagTypes, NamesPublished
    <2> QED
        BY <1>1, <2>1, <2>4, <2>5 DEF NamesPublished
  <1> QED
      BY <1>4, <1>5, <1>6, <1>7 DEF TagInv

LEMMA TagEnded ==
  ASSUME TagInv, kind' = kind, NEW c \in QConns, NEW S, StreamsEnd(c, S)
  PROVE  TagInv'
  <1> DEFINE p == qProg[c]
  <1>1. QConns' = QConns /\ UNCHANGED <<qProg, qNextIndex, qNextTag>>
      BY DEF QConns, StreamsEnd
  <1>2. /\ qStreams' = [d \in QConns |-> qStreams'[d]]
        /\ DOMAIN qStreams'[c] = DOMAIN qStreams[c] \ S
        /\ \A s \in DOMAIN qStreams'[c] : qStreams'[c][s] = qStreams[c][s]
        /\ \A d \in QConns \ {c} : qStreams'[d] = qStreams[d]
        /\ p \in PulsePrograms /\ S \subseteq DOMAIN qStreams[c]
      BY DEF StreamsEnd, TagInv, TagTypes
  <1>3. \A d \in QConns : /\ DOMAIN qStreams'[d] \subseteq DOMAIN qStreams[d]
                          /\ \A s \in DOMAIN qStreams'[d] : qStreams'[d][s] = qStreams[d][s]
      BY <1>2
  <1>4. TagTypes'
    <2>1. qComposites' \in [PulsePrograms -> SUBSET (PulsePrograms \X Nat)]
        BY DEF StreamsEnd, TagInv, TagTypes
    <2>2. qPhase' \in [QConns -> Phases] /\ qKnown' \subseteq PulsePrograms
        BY DEF StreamsEnd, TagInv, TagTypes
    <2> QED
        BY <1>1, <1>2, <1>3, <2>1, <2>2 DEF TagInv, TagTypes
  <1>5. NamesNew'
      BY <1>1, <1>3 DEF TagInv, NamesNew
  <1>6. NamesDiffer'
      BY <1>1, <1>3 DEF TagInv, NamesDiffer
  <1>7. NamesPublished'
    <2> DEFINE gone == {qStreams[c][s].comp : s \in S}
    <2>1. \A d \in QConns : qPhase'[d] \in Away => DOMAIN qStreams'[d] = {}
        BY <1>2 DEF TagInv, NamesPublished, StreamsEnd
    <2>2. Names(c)' = Names(c) \ gone
        BY <1>2 DEF Names, TagInv, NamesDiffer
    <2>3. \A d \in QConns \ {c} : Names(d)' = Names(d) /\ Names(d) \cap gone = {}
        BY <1>2 DEF Names, TagInv, NamesDiffer
    <2> HIDE DEF gone
    <2>4. ASSUME NEW r \in PulsePrograms
          PROVE  qComposites'[r] = UNION {Names(d)' : d \in {d \in QConns : qProg[d] = r}}
      <3>1. qComposites[r] = UNION {Names(d) : d \in {d \in QConns : qProg[d] = r}}
          BY DEF TagInv, NamesPublished
      <3>2. CASE r = p
        <4>1. qComposites'[r] = qComposites[r] \ gone
            BY <3>2 DEF StreamsEnd, TagInv, TagTypes, gone
        <4> QED
            BY <2>2, <2>3, <3>1, <3>2, <4>1
      <3>3. CASE r # p
        <4>1. qComposites'[r] = qComposites[r]
            BY <3>3 DEF StreamsEnd, TagInv, TagTypes
        <4> QED
            BY <2>3, <3>1, <3>3, <4>1
      <3> QED
          BY <3>2, <3>3
    <2>5. \A r \in qKnown' : qComposites'[r] # {}
        BY DEF StreamsEnd, TagInv, TagTypes, NamesPublished
    <2> QED
        BY <1>1, <2>1, <2>4, <2>5 DEF NamesPublished
  <1> QED
      BY <1>4, <1>5, <1>6, <1>7 DEF TagInv

-----------------------------------------------------------------------------
(* Where a file descriptor may be: closed, on its way to the receiver, with  *)
(* a connection that has it from recvmsg, or the memory of one of its pools. *)
Nowhere      == <<"closed">>
OnWire(c)    == <<"wire", c>>
InHand(c)    == <<"hand", c>>
InPool(c, i) == <<"pool", c, i>>

Numbers  == {1} \cup 1 .. TagStreams \cup 1 .. PairStreams \cup 1 .. FdStreams
              \cup 1 .. PulseUnits \cup PoolIds
Messages == [op  : FlowOps \cup TagOps \cup PairOps \cup FdOps \cup {"data"},
             s   : Numbers, n : Numbers, fds : SUBSET Nat]

(* The entries of a queue of sets have nothing in common; what they hold.    *)
Disjoint(q) == \A i, j \in DOMAIN q : i # j => q[i] \cap q[j] = {}
Content(q)  == UNION {q[i] : i \in DOMAIN q}
Brought(q)  == [i \in DOMAIN q |-> q[i].fds]
Wire(c)     == Brought(qSocket[c])

FdTypes ==
  /\ qPhase \in [QConns -> Phases] /\ qOpened \in Nat
  /\ qSocket \in [QConns -> Seq(Messages)] /\ qPendingFds \in [QConns -> Seq(SUBSET Nat)]
  /\ qPools = [c \in QConns |-> qPools[c]]

(* A message brings one file descriptor or none, and each comes once.        *)
OneEach ==
  \A c \in QConns :
    /\ \A i \in DOMAIN qSocket[c] : qSocket[c][i].fds = {} \/ \E f \in Nat : qSocket[c][i].fds = {f}
    /\ \A i \in DOMAIN qPendingFds[c] : \E f \in Nat : qPendingFds[c][i] = {f}
    /\ Disjoint(Wire(c)) /\ Disjoint(qPendingFds[c])

AwayHasNone ==
  \A c \in QConns : qPhase[c] \in Away => qPendingFds[c] = <<>> /\ DOMAIN qPools[c] = {}

(* Every file descriptor there is has a place, and has no other too.         *)
IsPlace(x) ==
  x = Nowhere \/ \E c \in QConns : x \in {OnWire(c), InHand(c)} \/ \E i : x = InPool(c, i)
PlacedBy(at) ==
  /\ qClosed = {f \in 1 .. qOpened : at[f] = Nowhere}
  /\ \A c \in QConns :
       /\ Content(Wire(c)) = {f \in 1 .. qOpened : at[f] = OnWire(c)}
       /\ Content(qPendingFds[c]) = {f \in 1 .. qOpened : at[f] = InHand(c)}
       /\ \A i : {f \in 1 .. qOpened : at[f] = InPool(c, i)}
                   = IF i \in DOMAIN qPools[c] THEN {qPools[c][i]} ELSE {}
  /\ \A f \in 1 .. qOpened : IsPlace(at[f])

FdInv == FdTypes /\ OneEach /\ AwayHasNone /\ \E at : PlacedBy(at)

-----------------------------------------------------------------------------
(* What a step may do to the file descriptors.                               *)
FdsQuiet == UNCHANGED <<qSocket, qPendingFds, qPools, qOpened, qClosed>>

FdSent(c, m) ==
  /\ m \in Messages
  /\ \/ m.fds = {} /\ qOpened' = qOpened
     \/ m.fds = {qOpened + 1} /\ qOpened' = qOpened + 1
  /\ qSocket' = [qSocket EXCEPT ![c] = Append(@, m)]
  /\ UNCHANGED <<qPhase, qPendingFds, qPools, qClosed>>

FdReceived(c) ==
  /\ qPhase[c] = "run" /\ qSocket[c] # <<>>
  /\ qSocket' = [qSocket EXCEPT ![c] = Tail(@)]
  /\ qPendingFds' = [qPendingFds EXCEPT ![c] =
                       IF Head(qSocket[c]).fds = {} THEN @ ELSE Append(@, Head(qSocket[c]).fds)]
  /\ UNCHANGED <<qPhase, qPools, qOpened, qClosed>>

(* The fds of the message in hand are closed, or one of them is kept for the *)
(* pool i and the one that was there is closed.                              *)
FdTaken(c) ==
  /\ qPhase[c] = "run" /\ PhaseKept
  /\ qPendingFds' = [qPendingFds EXCEPT ![c] = IF @ = <<>> THEN @ ELSE Tail(@)]
  /\ UNCHANGED <<qSocket, qOpened>>
FdClosed(c) ==
  /\ FdTaken(c) /\ UNCHANGED qPools
  /\ qClosed' = qClosed \cup (IF qPendingFds[c] = <<>> THEN {} ELSE Head(qPendingFds[c]))
FdPooled(c, i) ==
  /\ FdTaken(c) /\ qPendingFds[c] # <<>>
  /\ qClosed' = qClosed \cup {qPools[c][j] : j \in {i} \cap DOMAIN qPools[c]}
  /\ \E f \in Head(qPendingFds[c]) :
       qPools' = [qPools EXCEPT ![c] = [x \in DOMAIN @ \cup {i} |-> IF x = i THEN f ELSE @[x]]]

FdsEnd(c) ==
  /\ qPhase' = [qPhase EXCEPT ![c] = "gone"]
  /\ qClosed' = qClosed \cup {qPools[c][i] : i \in DOMAIN qPools[c]} \cup Content(qPendingFds[c])
  /\ qPools' = [qPools EXCEPT ![c] = flow!Empty]
  /\ qPendingFds' = [qPendingFds EXCEPT ![c] = <<>>]
  /\ UNCHANGED <<qSocket, qOpened>>

FdStep ==
  \/ PhaseKept /\ FdsQuiet
  \/ \E c \in QConns : \/ \E m : FdSent(c, m)
                       \/ FdReceived(c) \/ FdClosed(c) \/ (\E i : FdPooled(c, i)) \/ FdsEnd(c)

-----------------------------------------------------------------------------
LEMMA Joins ==
  ASSUME NEW q \in Seq(SUBSET Nat), Disjoint(q), NEW e \in SUBSET Nat, e \cap Content(q) = {}
  PROVE  /\ Append(q, e) \in Seq(SUBSET Nat) /\ Disjoint(Append(q, e))
         /\ Content(Append(q, e)) = Content(q) \cup e
  <1> DEFINE r == Append(q, e)
             n == Len(q)
  <1>1. /\ r \in Seq(SUBSET Nat) /\ Len(r) = n + 1 /\ r[n + 1] = e /\ n \in Nat
        /\ \A i \in 1 .. n : r[i] = q[i]
      BY AppendProperties, LenProperties
  <1>2. DOMAIN r = 1 .. n + 1 /\ DOMAIN q = 1 .. n
      BY <1>1, LenProperties
  <1> HIDE DEF r, n
  <1>3. \A i \in DOMAIN r : i = n + 1 \/ (i \in DOMAIN q /\ r[i] = q[i])
      BY <1>1, <1>2
  <1>4. \A i \in DOMAIN q : i \in DOMAIN r /\ r[i] = q[i] /\ q[i] \cap e = {} /\ i # n + 1
    <2>1. \A i \in DOMAIN q : i \in DOMAIN r /\ r[i] = q[i] /\ i # n + 1
        BY <1>1, <1>2
    <2> QED
        BY <2>1 DEF Content
  <1>5. n + 1 \in DOMAIN r
      BY <1>1, <1>2
  <1>6. Disjoint(r)
      BY <1>1, <1>3, <1>4 DEF Disjoint
  <1>7. Content(r) = Content(q) \cup e
      BY <1>1, <1>3, <1>4, <1>5 DEF Content
  <1> QED
      BY <1>1, <1>6, <1>7 DEF r

LEMMA Leaves ==
  ASSUME NEW q \in Seq(SUBSET Nat), Disjoint(q), q # <<>>
  PROVE  /\ Tail(q) \in Seq(SUBSET Nat) /\ Disjoint(Tail(q)) /\ Head(q) \in SUBSET Nat
         /\ Head(q) \subseteq Content(q) /\ Content(Tail(q)) = Content(q) \ Head(q)
         /\ \A i \in DOMAIN Tail(q) : i + 1 \in DOMAIN q /\ Tail(q)[i] = q[i + 1]
         /\ Head(q) = q[1] /\ 1 \in DOMAIN q
  <1> DEFINE r == Tail(q)
             n == Len(q)
  <1>1. n \in Nat /\ n # 0 /\ DOMAIN q = 1 .. n /\ Head(q) = q[1]
      BY LenProperties, EmptySeq
  <1>2. r \in Seq(SUBSET Nat) /\ Len(r) = n - 1 /\ \A i \in 1 .. n - 1 : r[i] = q[i + 1]
      BY <1>1, HeadTailProperties
  <1>3. DOMAIN r = 1 .. n - 1
      BY <1>1, <1>2, LenProperties
  <1> HIDE DEF r, n
  <1>4. \A i \in DOMAIN r : i + 1 \in DOMAIN q /\ i + 1 # 1 /\ r[i] = q[i + 1]
      BY <1>1, <1>2, <1>3
  <1>5. 1 \in DOMAIN q /\ q[1] \in SUBSET Nat
      BY <1>1, Elements
  <1>6. \A j \in DOMAIN q : j = 1 \/ \E i \in DOMAIN r : j = i + 1
    <2>1. ASSUME NEW j \in DOMAIN q, j # 1 PROVE j - 1 \in DOMAIN r /\ j = (j - 1) + 1
        BY <1>1, <1>3, <2>1
    <2> QED
        BY <2>1
  <1>7. Disjoint(r)
    <2> SUFFICES ASSUME NEW i \in DOMAIN r, NEW j \in DOMAIN r, i # j PROVE r[i] \cap r[j] = {}
        BY DEF Disjoint
    <2>1. i + 1 # j + 1
        BY <1>3
    <2> QED
        BY <1>4, <2>1 DEF Disjoint
  <1>8. Content(r) = Content(q) \ q[1]
    <2>1. \A i \in DOMAIN r : r[i] \subseteq Content(q) /\ r[i] \cap q[1] = {}
        BY <1>4, <1>5 DEF Content, Disjoint
    <2>2. \A j \in DOMAIN q : j = 1 \/ q[j] \subseteq Content(r)
        BY <1>4, <1>6 DEF Content
    <2> QED
        BY <2>1, <2>2 DEF Content
  <1> QED
      BY <1>1, <1>2, <1>4, <1>5, <1>7, <1>8 DEF r, Content

LEMMA OfMessages ==
  ASSUME NEW q \in Seq(Messages)
  PROVE  /\ Brought(q) \in Seq(SUBSET Nat) /\ DOMAIN Brought(q) = DOMAIN q
         /\ \A i \in DOMAIN q : Brought(q)[i] = q[i].fds
         /\ \A m \in Messages : /\ Append(q, m) \in Seq(Messages)
                                /\ Brought(Append(q, m)) = Append(Brought(q), m.fds)
         /\ q # <<>> => /\ Tail(q) \in Seq(Messages) /\ Brought(Tail(q)) = Tail(Brought(q))
                        /\ Brought(q) # <<>> /\ Head(q).fds = Head(Brought(q))
  <1> DEFINE n == Len(q)
             b == Brought(q)
  <1>1. n \in Nat /\ DOMAIN q = 1 .. n /\ \A i \in 1 .. n : q[i] \in Messages
      BY Elements
  <1>2. /\ b \in Seq(SUBSET Nat) /\ Len(b) = n /\ DOMAIN b = 1 .. n /\ \A i \in 1 .. n : b[i] = q[i].fds
    <2>1. \A i \in 1 .. n : q[i].fds \in SUBSET Nat
        BY <1>1 DEF Messages
    <2>2. b = [i \in 1 .. n |-> q[i].fds]
        BY <1>1 DEF Brought
    <2>3. b \in [1 .. n -> SUBSET Nat]
        BY <2>1, <2>2
    <2>4. b \in Seq(SUBSET Nat)
        BY <1>1, <2>3, SeqDef
    <2> QED
        BY <1>1, <2>2, <2>3, <2>4, LenProperties
  <1>3. ASSUME NEW m \in Messages
        PROVE  Append(q, m) \in Seq(Messages) /\ Brought(Append(q, m)) = Append(b, m.fds)
    <2> DEFINE r == Append(q, m)
               v == Append(b, m.fds)
    <2>1. /\ r \in Seq(Messages) /\ Len(r) = n + 1 /\ r[n + 1] = m /\ \A i \in 1 .. n : r[i] = q[i]
        BY AppendProperties
    <2>2. m.fds \in SUBSET Nat
        BY DEF Messages
    <2>3. v \in Seq(SUBSET Nat) /\ Len(v) = n + 1 /\ v[n + 1] = m.fds /\ \A i \in 1 .. n : v[i] = b[i]
        BY <1>2, <2>2, AppendProperties
    <2>4. DOMAIN r = 1 .. n + 1 /\ DOMAIN v = 1 .. n + 1 /\ v = [i \in 1 .. n + 1 |-> v[i]]
        BY <2>1, <2>3, LenProperties
    <2> HIDE DEF r, v
    <2>5. \A i \in 1 .. n + 1 : r[i].fds = v[i]
      <3>1. \A i \in 1 .. n + 1 : i = n + 1 \/ i \in 1 .. n
          BY <1>1
      <3> QED
          BY <1>2, <2>1, <2>3, <3>1
    <2>6. Brought(r) = v
        BY <2>4, <2>5 DEF Brought
    <2> QED
        BY <2>1, <2>6 DEF r, v
  <1>4. ASSUME q # <<>>
        PROVE  /\ Tail(q) \in Seq(Messages) /\ Brought(Tail(q)) = Tail(b)
               /\ b # <<>> /\ Head(q).fds = Head(b)
    <2> DEFINE r == Tail(q)
               v == Tail(b)
    <2>1. n # 0
        BY <1>1, <1>4, EmptySeq
    <2>2. b # <<>>
        BY <1>2, <2>1, EmptySeq
    <2>3. r \in Seq(Messages) /\ Len(r) = n - 1 /\ (\A i \in 1 .. n - 1 : r[i] = q[i + 1]) /\ Head(q) = q[1]
        BY <1>4, HeadTailProperties
    <2>4. v \in Seq(SUBSET Nat) /\ Len(v) = n - 1 /\ (\A i \in 1 .. n - 1 : v[i] = b[i + 1]) /\ Head(b) = b[1]
        BY <1>2, <2>2, HeadTailProperties
    <2>5. DOMAIN r = 1 .. n - 1 /\ DOMAIN v = 1 .. n - 1 /\ v = [i \in 1 .. n - 1 |-> v[i]]
        BY <2>3, <2>4, LenProperties
    <2> HIDE DEF r, v
    <2>6. \A i \in 1 .. n - 1 : i + 1 \in 1 .. n
        BY <1>1
    <2>7. \A i \in 1 .. n - 1 : r[i].fds = v[i]
        BY <1>2, <2>3, <2>4, <2>6
    <2>8. Brought(r) = v
        BY <2>5, <2>7 DEF Brought
    <2>9. 1 \in 1 .. n
        BY <1>1, <2>1
    <2> QED
        BY <1>2, <2>2, <2>3, <2>4, <2>8, <2>9 DEF r, v
  <1> QED
      BY <1>1, <1>2, <1>3, <1>4

LEMMA PlacesDiffer ==
  \A c, d, i, j :
    /\ Nowhere # OnWire(c) /\ Nowhere # InHand(c) /\ Nowhere # InPool(c, i)
    /\ OnWire(c) # InHand(d) /\ OnWire(c) # InPool(d, i) /\ InHand(c) # InPool(d, i)
    /\ OnWire(c) = OnWire(d) => c = d
    /\ InHand(c) = InHand(d) => c = d
    /\ InPool(c, i) = InPool(d, j) => c = d /\ i = j
  BY DEF Nowhere, OnWire, InHand, InPool

LEMMA FdBegins == AllInit => FdInv
  <1> SUFFICES ASSUME AllInit PROVE FdInv
      OBVIOUS
  <1>1. /\ qPhase = [c \in QConns |-> "none"] /\ qSocket = [c \in QConns |-> <<>>]
        /\ qPendingFds = [c \in QConns |-> <<>>] /\ qPools = [c \in QConns |-> flow!Empty]
        /\ qOpened = 0 /\ qClosed = {}
    <2>1. CASE kind = "tags"
        BY <2>1, Zenon DEF AllInit, QConns, tags!Init, tags!Empty, flow!Empty
    <2>2. CASE kind = "pair"
        BY <2>2, Zenon DEF AllInit, QConns, pair!Init, pair!Empty, flow!Empty
    <2>3. CASE kind = "fds"
        BY <2>3, Zenon DEF AllInit, QConns, fds!Init, fds!Empty, flow!Empty
    <2>4. CASE kind \notin {"tags", "pair", "fds"}
        BY <2>4, Zenon DEF AllInit, QConns, flow!Init
    <2> QED
        BY <2>1, <2>2, <2>3, <2>4
  <1>2. <<>> \in Seq(Messages) /\ <<>> \in Seq(SUBSET Nat)
      BY EmptySeq
  <1>3. \A c \in QConns : /\ DOMAIN qSocket[c] = {} /\ DOMAIN qPendingFds[c] = {}
                          /\ DOMAIN qPools[c] = {} /\ DOMAIN Wire(c) = {}
      BY <1>1 DEF flow!Empty, Wire, Brought
  <1>4. FdTypes
      BY <1>1, <1>2 DEF FdTypes, Phases
  <1>5. OneEach
      BY <1>3 DEF OneEach, Disjoint
  <1>6. AwayHasNone
      BY <1>1, <1>3 DEF AwayHasNone
  <1>7. PlacedBy(0)
    <2>1. 1 .. qOpened = {}
        BY <1>1
    <2> QED
        BY <1>1, <1>3, <2>1 DEF PlacedBy, Content
  <1> QED
      BY <1>4, <1>5, <1>6, <1>7 DEF FdInv

LEMMA FdKept ==
  ASSUME FdInv, kind' = kind, PhaseKept, FdsQuiet
  PROVE  FdInv'
  <1>1. QConns' = QConns
      BY DEF QConns
  <1>2. \A c \in QConns : Wire(c)' = Wire(c)
      BY DEF FdsQuiet, Wire
  <1>3. FdTypes'
      BY <1>1 DEF FdInv, FdTypes, PhaseKept, FdsQuiet
  <1>4. AwayHasNone'
      BY <1>1 DEF FdInv, AwayHasNone, PhaseKept, FdsQuiet
  <1>5. OneEach'
      BY <1>1, <1>2 DEF FdInv, OneEach, FdsQuiet
  <1>6. PICK at : PlacedBy(at)
      BY DEF FdInv
  <1>7. PlacedBy(at)'
    <2>1. UNCHANGED qPendingFds /\ UNCHANGED qPools /\ UNCHANGED qOpened /\ UNCHANGED qClosed
        BY DEF FdsQuiet
    <2>2. /\ (qClosed = {f \in 1 .. qOpened : at[f] = Nowhere})'
          /\ (\A f \in 1 .. qOpened : IsPlace(at[f]))'
      <3>1. qClosed = {f \in 1 .. qOpened : at[f] = Nowhere}
          BY <1>6 DEF PlacedBy
      <3>2. \A f \in 1 .. qOpened : IsPlace(at[f])
          BY <1>6 DEF PlacedBy
      <3>3. (qClosed = {f \in 1 .. qOpened : at[f] = Nowhere})'
          BY <2>1, <3>1 DEF Nowhere
      <3>4. \A f \in 1 .. qOpened' : IsPlace(at[f])'
        <4>1. \A f : IsPlace(at[f])' <=> IsPlace(at[f])
            BY DEF IsPlace, Nowhere, OnWire, InHand, InPool, QConns
        <4> QED
            BY <2>1, <3>2, <4>1
      <3> QED
          BY <3>3, <3>4
    <2>3. ASSUME NEW c \in QConns
          PROVE  /\ (Content(Wire(c)) = {f \in 1 .. qOpened : at[f] = OnWire(c)})'
                 /\ (Content(qPendingFds[c]) = {f \in 1 .. qOpened : at[f] = InHand(c)})'
      <3>1. /\ Content(Wire(c)) = {f \in 1 .. qOpened : at[f] = OnWire(c)}
            /\ Content(qPendingFds[c]) = {f \in 1 .. qOpened : at[f] = InHand(c)}
          BY <1>6 DEF PlacedBy
      <3>2. Wire(c)' = Wire(c)
          BY <1>2
      <3> QED
          BY <2>1, <3>1, <3>2 DEF Content
    <2>4. ASSUME NEW c \in QConns, NEW i
          PROVE  ({f \in 1 .. qOpened : at[f] = InPool(c, i)}
                    = (IF i \in DOMAIN qPools[c] THEN {qPools[c][i]} ELSE {}))'
      <3>1. {f \in 1 .. qOpened : at[f] = InPool(c, i)}
              = (IF i \in DOMAIN qPools[c] THEN {qPools[c][i]} ELSE {})
          BY <1>6 DEF PlacedBy
      <3> QED
          BY <2>1, <3>1
    <2> QED
        BY <1>1, <2>2, <2>3, <2>4 DEF PlacedBy
  <1> QED
      BY <1>3, <1>4, <1>5, <1>7 DEF FdInv

LEMMA FdSends ==
  ASSUME FdInv, kind' = kind, NEW c \in QConns, NEW m, FdSent(c, m)
  PROVE  FdInv'
  <1> DEFINE h == m.fds
  <1>1. QConns' = QConns
      BY DEF QConns
  <1>2. PICK at : PlacedBy(at)
      BY DEF FdInv
  <1>3. /\ qOpened \in Nat /\ qOpened' \in Nat /\ m \in Messages /\ h \in SUBSET Nat
        /\ qSocket[c] \in Seq(Messages) /\ qSocket \in [QConns -> Seq(Messages)]
      BY DEF FdInv, FdTypes, FdSent, Messages
  <1>4. /\ h \cap (1 .. qOpened) = {} /\ 1 .. qOpened' = (1 .. qOpened) \cup h
        /\ h = {} \/ \E f \in Nat : h = {f}
    <2>1. CASE h = {} /\ qOpened' = qOpened
        BY <2>1
    <2>2. CASE h = {qOpened + 1} /\ qOpened' = qOpened + 1
        BY <1>3, <2>2
    <2> QED
        BY <2>1, <2>2 DEF FdSent
  <1>5. \A d \in QConns : Wire(d) \in Seq(SUBSET Nat)
      BY OfMessages DEF Wire, FdInv, FdTypes
  <1>6. Content(Wire(c)) \subseteq 1 .. qOpened /\ Disjoint(Wire(c))
      BY <1>2 DEF PlacedBy, FdInv, OneEach
  <1>7. Wire(c)' = Append(Wire(c), h) /\ qSocket'[c] = Append(qSocket[c], m)
    <2>1. qSocket'[c] = Append(qSocket[c], m)
        BY <1>3 DEF FdSent
    <2> QED
        BY <1>3, <2>1, OfMessages DEF Wire
  <1>8. Disjoint(Wire(c)') /\ Content(Wire(c)') = Content(Wire(c)) \cup h
      BY <1>3, <1>4, <1>5, <1>6, <1>7, Joins
  <1>9. \A d \in QConns \ {c} : qSocket'[d] = qSocket[d] /\ Wire(d)' = Wire(d)
      BY <1>3 DEF FdSent, Wire
  <1>10. FdTypes'
    <2>1. qSocket'[c] \in Seq(Messages)
        BY <1>3, <1>7, OfMessages
    <2>2. qSocket' \in [QConns -> Seq(Messages)]
        BY <1>3, <1>9, <2>1 DEF FdSent
    <2> QED
        BY <1>1, <1>3, <2>2 DEF FdInv, FdTypes, FdSent
  <1>11. OneEach'
    <2>1. ASSUME NEW i \in DOMAIN qSocket'[c]
          PROVE  qSocket'[c][i].fds = {} \/ \E f \in Nat : qSocket'[c][i].fds = {f}
      <3>1. (i \in DOMAIN qSocket[c] /\ qSocket'[c][i] = qSocket[c][i]) \/ qSocket'[c][i] = m
        <4>1. /\ Len(qSocket'[c]) = Len(qSocket[c]) + 1 /\ qSocket'[c][Len(qSocket[c]) + 1] = m
              /\ \A j \in 1 .. Len(qSocket[c]) : qSocket'[c][j] = qSocket[c][j]
              /\ qSocket'[c] \in Seq(Messages)
            BY <1>3, <1>7, AppendProperties
        <4>2. Len(qSocket[c]) \in Nat /\ DOMAIN qSocket[c] = 1 .. Len(qSocket[c])
            BY <1>3, LenProperties
        <4>3. i \in 1 .. Len(qSocket[c]) + 1
            BY <4>1, LenProperties
        <4>4. i \in 1 .. Len(qSocket[c]) \/ i = Len(qSocket[c]) + 1
            BY <4>2, <4>3
        <4> QED
            BY <4>1, <4>2, <4>4
      <3> QED
          BY <1>4, <3>1 DEF FdInv, OneEach
    <2>2. ASSUME NEW d \in QConns
          PROVE  \A i \in DOMAIN qSocket'[d] :
                   qSocket'[d][i].fds = {} \/ \E f \in Nat : qSocket'[d][i].fds = {f}
        BY <1>9, <2>1 DEF FdInv, OneEach
    <2>3. ASSUME NEW d \in QConns
          PROVE  /\ \A i \in DOMAIN qPendingFds'[d] : \E f \in Nat : qPendingFds'[d][i] = {f}
                 /\ Disjoint(Wire(d)') /\ Disjoint(qPendingFds'[d])
        BY <1>8, <1>9 DEF FdInv, OneEach, FdSent
    <2> QED
        BY <1>1, <2>2, <2>3 DEF OneEach, Disjoint
  <1>12. AwayHasNone'
      BY <1>1 DEF FdInv, AwayHasNone, FdSent
  <1>13. PICK bt : bt = [f \in 1 .. qOpened' |-> IF f \in h THEN OnWire(c) ELSE at[f]]
      OBVIOUS
  <1>14. /\ \A f \in 1 .. qOpened : f \in 1 .. qOpened' /\ bt[f] = at[f]
         /\ \A f \in h : f \in 1 .. qOpened' /\ bt[f] = OnWire(c)
      BY <1>4, <1>13
  <1>15. PlacedBy(bt)'
    <2>1. qClosed' = {f \in 1 .. qOpened' : bt[f] = Nowhere}
        BY <1>2, <1>4, <1>14, PlacesDiffer DEF PlacedBy, FdSent
    <2>2. ASSUME NEW d \in QConns
          PROVE  Content(Wire(d)') = {f \in 1 .. qOpened' : bt[f] = OnWire(d)}
      <3>1. Content(Wire(d)) = {f \in 1 .. qOpened : at[f] = OnWire(d)}
          BY <1>2 DEF PlacedBy
      <3>2. CASE d = c
          BY <1>4, <1>8, <1>14, <3>1, <3>2
      <3>3. CASE d # c
          BY <1>4, <1>9, <1>14, <3>1, <3>3, PlacesDiffer
      <3> QED
          BY <3>2, <3>3
    <2>3. ASSUME NEW d \in QConns
          PROVE  Content(qPendingFds'[d]) = {f \in 1 .. qOpened' : bt[f] = InHand(d)}
      <3>1. Content(qPendingFds[d]) = {f \in 1 .. qOpened : at[f] = InHand(d)}
          BY <1>2 DEF PlacedBy
      <3>2. qPendingFds'[d] = qPendingFds[d]
          BY DEF FdSent
      <3> QED
          BY <1>4, <1>14, <3>1, <3>2, PlacesDiffer
    <2>4. ASSUME NEW d \in QConns, NEW i
          PROVE  {f \in 1 .. qOpened' : bt[f] = InPool(d, i)}
                   = IF i \in DOMAIN qPools'[d] THEN {qPools'[d][i]} ELSE {}
      <3>1. {f \in 1 .. qOpened : at[f] = InPool(d, i)}
              = IF i \in DOMAIN qPools[d] THEN {qPools[d][i]} ELSE {}
          BY <1>2 DEF PlacedBy
      <3>2. {f \in 1 .. qOpened' : bt[f] = InPool(d, i)} = {f \in 1 .. qOpened : at[f] = InPool(d, i)}
          BY <1>4, <1>14, PlacesDiffer
      <3> QED
          BY <3>1, <3>2 DEF FdSent
    <2>5. ASSUME NEW f \in 1 .. qOpened'
          PROVE  IsPlace(bt[f])
      <3>1. CASE f \in h
          BY <1>14, <3>1 DEF IsPlace
      <3>2. CASE f \in 1 .. qOpened
          BY <1>2, <1>14, <3>2 DEF PlacedBy
      <3> QED
          BY <1>4, <3>1, <3>2
    <2> QED
        BY <1>1, <2>1, <2>2, <2>3, <2>4, <2>5 DEF PlacedBy, IsPlace
  <1> QED
      BY <1>10, <1>11, <1>12, <1>15 DEF FdInv

LEMMA FdReceives ==
  ASSUME FdInv, kind' = kind, NEW c \in QConns, FdReceived(c)
  PROVE  FdInv'
  <1> DEFINE h == Head(qSocket[c]).fds
             q == qPendingFds[c]
  <1>1. QConns' = QConns /\ UNCHANGED <<qPhase, qPools, qOpened, qClosed>>
      BY DEF QConns, FdReceived
  <1>2. PICK at : PlacedBy(at)
      BY DEF FdInv
  <1>3. /\ qSocket[c] \in Seq(Messages) /\ qSocket \in [QConns -> Seq(Messages)] /\ qSocket[c] # <<>>
        /\ q \in Seq(SUBSET Nat) /\ qPendingFds \in [QConns -> Seq(SUBSET Nat)]
        /\ Disjoint(Wire(c)) /\ Disjoint(q) /\ qOpened \in Nat
      BY DEF FdInv, FdTypes, OneEach, FdReceived
  <1>4. Wire(c) \in Seq(SUBSET Nat) /\ Wire(c) # <<>> /\ h = Head(Wire(c))
      BY <1>3, OfMessages DEF Wire
  <1>5. /\ qSocket'[c] = Tail(qSocket[c]) /\ qSocket'[c] \in Seq(Messages)
        /\ Wire(c)' = Tail(Wire(c))
    <2>1. qSocket'[c] = Tail(qSocket[c])
        BY <1>3 DEF FdReceived
    <2> QED
        BY <1>3, <2>1, OfMessages DEF Wire
  <1>6. /\ Disjoint(Wire(c)') /\ h \in SUBSET Nat /\ h \subseteq Content(Wire(c))
        /\ Content(Wire(c)') = Content(Wire(c)) \ h
      BY <1>3, <1>4, <1>5, Leaves
  <1>7. /\ Content(Wire(c)) = {f \in 1 .. qOpened : at[f] = OnWire(c)}
        /\ Content(q) = {f \in 1 .. qOpened : at[f] = InHand(c)}
        /\ h \subseteq 1 .. qOpened /\ \A f \in h : at[f] = OnWire(c)
      BY <1>2, <1>6 DEF PlacedBy
  <1>8. h = {} \/ \E f \in Nat : h = {f}
    <2>1. 1 \in DOMAIN qSocket[c] /\ Head(qSocket[c]) = qSocket[c][1]
      <3>1. Len(qSocket[c]) # 0 /\ Len(qSocket[c]) \in Nat
          BY <1>3, EmptySeq, LenProperties
      <3> QED
          BY <1>3, <3>1, HeadTailProperties, LenProperties
    <2> QED
        BY <2>1 DEF FdInv, OneEach
  <1>9. h \cap Content(q) = {}
      BY <1>7, PlacesDiffer
  <1>10. /\ qPendingFds'[c] \in Seq(SUBSET Nat) /\ Disjoint(qPendingFds'[c])
         /\ Content(qPendingFds'[c]) = Content(q) \cup h
         /\ \A i \in DOMAIN qPendingFds'[c] : \E f \in Nat : qPendingFds'[c][i] = {f}
    <2>1. \A i \in DOMAIN q : \E f \in Nat : q[i] = {f}
        BY DEF FdInv, OneEach
    <2>2. CASE h = {}
      <3>1. qPendingFds'[c] = q
          BY <1>3, <2>2 DEF FdReceived
      <3> QED
          BY <1>3, <2>1, <2>2, <3>1
    <2>3. CASE h # {}
      <3>1. qPendingFds'[c] = Append(q, h)
          BY <1>3, <2>3 DEF FdReceived
      <3>2. \A i \in DOMAIN Append(q, h) : \E f \in Nat : Append(q, h)[i] = {f}
        <4>1. /\ Len(Append(q, h)) = Len(q) + 1 /\ Append(q, h)[Len(q) + 1] = h
              /\ \A j \in 1 .. Len(q) : Append(q, h)[j] = q[j]
              /\ Append(q, h) \in Seq(SUBSET Nat)
            BY <1>3, <1>6, AppendProperties
        <4>2. Len(q) \in Nat /\ DOMAIN q = 1 .. Len(q) /\ DOMAIN Append(q, h) = 1 .. Len(q) + 1
            BY <1>3, <4>1, LenProperties
        <4>3. \A i \in DOMAIN Append(q, h) : i \in DOMAIN q \/ i = Len(q) + 1
            BY <4>2
        <4> QED
            BY <1>8, <2>1, <2>3, <4>1, <4>2, <4>3
      <3>3. /\ Append(q, h) \in Seq(SUBSET Nat) /\ Disjoint(Append(q, h))
            /\ Content(Append(q, h)) = Content(q) \cup h
          BY <1>3, <1>6, <1>9, Joins
      <3> QED
          BY <3>1, <3>2, <3>3
    <2> QED
        BY <2>2, <2>3
  <1>11. \A d \in QConns \ {c} : /\ qSocket'[d] = qSocket[d] /\ Wire(d)' = Wire(d)
                                 /\ qPendingFds'[d] = qPendingFds[d]
      BY <1>3 DEF FdReceived, Wire
  <1>12. FdTypes'
    <2>1. qSocket' \in [QConns -> Seq(Messages)] /\ qPendingFds' \in [QConns -> Seq(SUBSET Nat)]
        BY <1>3, <1>5, <1>10, <1>11 DEF FdReceived
    <2> QED
        BY <1>1, <2>1 DEF FdInv, FdTypes
  <1>13. OneEach'
    <2>1. ASSUME NEW i \in DOMAIN qSocket'[c]
          PROVE  qSocket'[c][i].fds = {} \/ \E f \in Nat : qSocket'[c][i].fds = {f}
      <3>1. Wire(c)'[i] = qSocket'[c][i].fds /\ i \in DOMAIN Wire(c)'
          BY <1>5, OfMessages DEF Wire
      <3>2. i + 1 \in DOMAIN Wire(c) /\ Wire(c)'[i] = Wire(c)[i + 1]
          BY <1>3, <1>4, <1>5, <3>1, Leaves
      <3>3. i + 1 \in DOMAIN qSocket[c] /\ Wire(c)[i + 1] = qSocket[c][i + 1].fds
          BY <1>3, <3>2, OfMessages DEF Wire
      <3> QED
          BY <3>1, <3>2, <3>3 DEF FdInv, OneEach
    <2> QED
        BY <1>1, <1>6, <1>10, <1>11, <2>1 DEF FdInv, OneEach
  <1>14. AwayHasNone'
    <2>1. qPhase[c] \notin Away
        BY DEF FdReceived, Away
    <2> QED
        BY <1>1, <1>11, <2>1 DEF FdInv, AwayHasNone
  <1>15. PICK bt : bt = [f \in 1 .. qOpened |-> IF f \in h THEN InHand(c) ELSE at[f]]
      OBVIOUS
  <1>16. /\ \A f \in 1 .. qOpened : f \notin h => bt[f] = at[f]
         /\ \A f \in h : f \in 1 .. qOpened /\ bt[f] = InHand(c) /\ at[f] = OnWire(c)
      BY <1>7, <1>15
  <1> HIDE DEF h
  <1>17. PlacedBy(bt)'
    <2>1. qClosed' = {f \in 1 .. qOpened : bt[f] = Nowhere}
        BY <1>1, <1>2, <1>16, PlacesDiffer DEF PlacedBy
    <2>2. ASSUME NEW d \in QConns
          PROVE  /\ Content(Wire(d)') = {f \in 1 .. qOpened : bt[f] = OnWire(d)}
                 /\ Content(qPendingFds'[d]) = {f \in 1 .. qOpened : bt[f] = InHand(d)}
      <3>1. /\ Content(Wire(d)) = {f \in 1 .. qOpened : at[f] = OnWire(d)}
            /\ Content(qPendingFds[d]) = {f \in 1 .. qOpened : at[f] = InHand(d)}
          BY <1>2 DEF PlacedBy
      <3>2. CASE d = c
        <4>1. \A f \in 1 .. qOpened : /\ bt[f] = OnWire(c) <=> at[f] = OnWire(c) /\ f \notin h
                                      /\ bt[f] = InHand(c) <=> at[f] = InHand(c) \/ f \in h
            BY <1>16, PlacesDiffer
        <4>2. Content(Wire(c)') = {f \in 1 .. qOpened : bt[f] = OnWire(c)}
            BY <1>6, <1>7, <4>1
        <4>3. Content(qPendingFds'[c]) = {f \in 1 .. qOpened : bt[f] = InHand(c)}
            BY <1>7, <1>10, <1>16, <4>1
        <4> QED
            BY <3>2, <4>2, <4>3
      <3>3. CASE d # c
        <4>1. Content(Wire(d)') = Content(Wire(d)) /\ Content(qPendingFds'[d]) = Content(qPendingFds[d])
            BY <1>11, <3>3
        <4>2. /\ {f \in 1 .. qOpened : bt[f] = OnWire(d)} = {f \in 1 .. qOpened : at[f] = OnWire(d)}
              /\ {f \in 1 .. qOpened : bt[f] = InHand(d)} = {f \in 1 .. qOpened : at[f] = InHand(d)}
            BY <1>16, <3>3, PlacesDiffer
        <4> QED
            BY <3>1, <4>1, <4>2
      <3> QED
          BY <3>2, <3>3
    <2>4. ASSUME NEW d \in QConns, NEW i
          PROVE  {f \in 1 .. qOpened : bt[f] = InPool(d, i)}
                   = IF i \in DOMAIN qPools'[d] THEN {qPools'[d][i]} ELSE {}
      <3>1. {f \in 1 .. qOpened : at[f] = InPool(d, i)}
              = IF i \in DOMAIN qPools[d] THEN {qPools[d][i]} ELSE {}
          BY <1>2 DEF PlacedBy
      <3>2. {f \in 1 .. qOpened : bt[f] = InPool(d, i)} = {f \in 1 .. qOpened : at[f] = InPool(d, i)}
          BY <1>16, PlacesDiffer
      <3> QED
          BY <1>1, <3>1, <3>2
    <2>5. ASSUME NEW f \in 1 .. qOpened
          PROVE  IsPlace(bt[f])
      <3>1. CASE f \in h
          BY <1>16, <3>1 DEF IsPlace
      <3>2. CASE f \notin h
          BY <1>2, <1>16, <3>2 DEF PlacedBy
      <3> QED
          BY <3>1, <3>2
    <2> QED
        BY <1>1, <2>1, <2>2, <2>4, <2>5 DEF PlacedBy, IsPlace
  <1> QED
      BY <1>12, <1>13, <1>14, <1>17 DEF FdInv

(* A message is taken with the fds in front, if there are any.               *)
LEMMA FdTakes ==
  ASSUME FdInv, kind' = kind, NEW c \in QConns, FdTaken(c),
         NEW h, h = IF qPendingFds[c] = <<>> THEN {} ELSE Head(qPendingFds[c])
  PROVE  /\ h = {} \/ \E f \in Nat : h = {f}
         /\ h \subseteq Content(qPendingFds[c])
         /\ Content(qPendingFds'[c]) = Content(qPendingFds[c]) \ h
         /\ \A d \in QConns \ {c} : qPendingFds'[d] = qPendingFds[d]
         /\ \A d \in QConns : Wire(d)' = Wire(d)
         /\ qPools' = [d \in QConns |-> qPools'[d]] => FdTypes'
         /\ OneEach'
         /\ (\A d \in QConns \ {c} : qPools'[d] = qPools[d]) => AwayHasNone'
  <1> DEFINE q == qPendingFds[c]
  <1>1. /\ QConns' = QConns /\ UNCHANGED <<qSocket, qOpened>> /\ PhaseKept
        /\ qPendingFds' = [qPendingFds EXCEPT ![c] = IF @ = <<>> THEN @ ELSE Tail(@)]
      BY DEF QConns, FdTaken
  <1>2. qPendingFds \in [QConns -> Seq(SUBSET Nat)] /\ q \in Seq(SUBSET Nat) /\ Disjoint(q)
      BY DEF FdInv, FdTypes, OneEach
  <1>3. /\ h = {} \/ \E f \in Nat : h = {f}
        /\ h \subseteq Content(q) /\ Content(qPendingFds'[c]) = Content(q) \ h
        /\ qPendingFds'[c] \in Seq(SUBSET Nat) /\ Disjoint(qPendingFds'[c])
        /\ \A i \in DOMAIN qPendingFds'[c] : \E f \in Nat : qPendingFds'[c][i] = {f}
    <2>1. \A i \in DOMAIN q : \E f \in Nat : q[i] = {f}
        BY DEF FdInv, OneEach
    <2>2. CASE q = <<>>
      <3>1. qPendingFds'[c] = q /\ h = {}
          BY <1>1, <1>2, <2>2
      <3> QED
          BY <1>2, <2>1, <3>1
    <2>3. CASE q # <<>>
      <3>1. qPendingFds'[c] = Tail(q) /\ h = Head(q)
          BY <1>1, <1>2, <2>3
      <3>2. /\ Tail(q) \in Seq(SUBSET Nat) /\ Disjoint(Tail(q)) /\ Head(q) \subseteq Content(q)
            /\ Content(Tail(q)) = Content(q) \ Head(q) /\ Head(q) = q[1] /\ 1 \in DOMAIN q
            /\ \A i \in DOMAIN Tail(q) : i + 1 \in DOMAIN q /\ Tail(q)[i] = q[i + 1]
          BY <1>2, <2>3, Leaves
      <3> QED
          BY <2>1, <3>1, <3>2
    <2> QED
        BY <2>2, <2>3
  <1>4. \A d \in QConns \ {c} : qPendingFds'[d] = qPendingFds[d]
      BY <1>1, <1>2
  <1>5. \A d \in QConns : Wire(d)' = Wire(d)
      BY <1>1 DEF Wire
  <1>6. ASSUME qPools' = [d \in QConns |-> qPools'[d]] PROVE FdTypes'
    <2>1. qPendingFds' \in [QConns -> Seq(SUBSET Nat)]
        BY <1>1, <1>2, <1>3, <1>4
    <2> QED
        BY <1>1, <1>6, <2>1 DEF FdInv, FdTypes, PhaseKept
  <1>7. OneEach'
      BY <1>1, <1>3, <1>4, <1>5 DEF FdInv, OneEach
  <1>8. ASSUME \A d \in QConns \ {c} : qPools'[d] = qPools[d] PROVE AwayHasNone'
    <2>1. qPhase'[c] \notin Away
        BY DEF FdTaken, PhaseKept, Away
    <2> QED
        BY <1>1, <1>4, <1>8, <2>1 DEF FdInv, AwayHasNone, PhaseKept
  <1> QED
      BY <1>3, <1>4, <1>5, <1>6, <1>7, <1>8

LEMMA FdCloses ==
  ASSUME FdInv, kind' = kind, NEW c \in QConns, FdClosed(c)
  PROVE  FdInv'
  <1>1. PICK h : h = IF qPendingFds[c] = <<>> THEN {} ELSE Head(qPendingFds[c])
      OBVIOUS
  <1>2. FdTaken(c) /\ UNCHANGED <<qPools, qOpened>> /\ qClosed' = qClosed \cup h
      BY <1>1 DEF FdClosed, FdTaken
  <1>3. /\ h \subseteq Content(qPendingFds[c])
        /\ Content(qPendingFds'[c]) = Content(qPendingFds[c]) \ h
        /\ \A d \in QConns \ {c} : qPendingFds'[d] = qPendingFds[d]
        /\ \A d \in QConns : Wire(d)' = Wire(d)
        /\ FdTypes' /\ OneEach' /\ AwayHasNone'
    <2>1. qPools' = [d \in QConns |-> qPools'[d]]
        BY <1>2 DEF FdInv, FdTypes
    <2>2. \A d \in QConns \ {c} : qPools'[d] = qPools[d]
        BY <1>2
    <2> QED
        BY <1>1, <1>2, <2>1, <2>2, FdTakes
  <1>4. PICK at : PlacedBy(at)
      BY DEF FdInv
  <1>5. PICK bt : bt = [f \in 1 .. qOpened |-> IF f \in h THEN Nowhere ELSE at[f]]
      OBVIOUS
  <1>6. /\ \A f \in 1 .. qOpened : f \notin h => bt[f] = at[f]
        /\ \A f \in h : f \in 1 .. qOpened /\ bt[f] = Nowhere /\ at[f] = InHand(c)
    <2>1. Content(qPendingFds[c]) = {f \in 1 .. qOpened : at[f] = InHand(c)}
        BY <1>4 DEF PlacedBy
    <2> QED
        BY <1>3, <1>5, <2>1
  <1>7. QConns' = QConns
      BY DEF QConns
  <1>8. PlacedBy(bt)'
    <2>1. qClosed' = {f \in 1 .. qOpened : bt[f] = Nowhere}
        BY <1>2, <1>4, <1>6 DEF PlacedBy
    <2>2. ASSUME NEW d \in QConns
          PROVE  /\ Content(Wire(d)') = {f \in 1 .. qOpened : bt[f] = OnWire(d)}
                 /\ Content(qPendingFds'[d]) = {f \in 1 .. qOpened : bt[f] = InHand(d)}
      <3>1. /\ Content(Wire(d)) = {f \in 1 .. qOpened : at[f] = OnWire(d)}
            /\ Content(qPendingFds[d]) = {f \in 1 .. qOpened : at[f] = InHand(d)}
          BY <1>4 DEF PlacedBy
      <3>2. {f \in 1 .. qOpened : bt[f] = OnWire(d)} = {f \in 1 .. qOpened : at[f] = OnWire(d)}
          BY <1>6, PlacesDiffer
      <3>3. Content(qPendingFds'[d]) = {f \in 1 .. qOpened : bt[f] = InHand(d)}
        <4>1. CASE d = c
            BY <1>3, <1>6, <3>1, <4>1, PlacesDiffer
        <4>2. CASE d # c
          <5>1. Content(qPendingFds'[d]) = Content(qPendingFds[d])
              BY <1>3, <4>2
          <5>2. {f \in 1 .. qOpened : bt[f] = InHand(d)} = {f \in 1 .. qOpened : at[f] = InHand(d)}
              BY <1>6, <4>2, PlacesDiffer
          <5> QED
              BY <3>1, <5>1, <5>2
        <4> QED
            BY <4>1, <4>2
      <3> QED
          BY <1>3, <3>1, <3>2, <3>3
    <2>3. ASSUME NEW d \in QConns, NEW i
          PROVE  {f \in 1 .. qOpened : bt[f] = InPool(d, i)}
                   = IF i \in DOMAIN qPools'[d] THEN {qPools'[d][i]} ELSE {}
      <3>1. {f \in 1 .. qOpened : at[f] = InPool(d, i)}
              = IF i \in DOMAIN qPools[d] THEN {qPools[d][i]} ELSE {}
          BY <1>4 DEF PlacedBy
      <3>2. {f \in 1 .. qOpened : bt[f] = InPool(d, i)} = {f \in 1 .. qOpened : at[f] = InPool(d, i)}
          BY <1>6, PlacesDiffer
      <3> QED
          BY <1>2, <3>1, <3>2
    <2>4. ASSUME NEW f \in 1 .. qOpened PROVE IsPlace(bt[f])
      <3>1. CASE f \in h
          BY <1>6, <3>1 DEF IsPlace
      <3>2. CASE f \notin h
          BY <1>4, <1>6, <3>2 DEF PlacedBy
      <3> QED
          BY <3>1, <3>2
    <2> QED
        BY <1>2, <1>7, <2>1, <2>2, <2>3, <2>4 DEF PlacedBy, IsPlace
  <1> QED
      BY <1>3, <1>8 DEF FdInv

LEMMA FdPools ==
  ASSUME FdInv, kind' = kind, NEW c \in QConns, NEW i, FdPooled(c, i)
  PROVE  FdInv'
  <1>1. PICK h : h = Head(qPendingFds[c])
      OBVIOUS
  <1>2. PICK g \in h : qPools' = [qPools EXCEPT ![c] =
                          [x \in DOMAIN @ \cup {i} |-> IF x = i THEN g ELSE @[x]]]
      BY <1>1 DEF FdPooled
  <1>3. PICK old : old = {qPools[c][j] : j \in {i} \cap DOMAIN qPools[c]}
      OBVIOUS
  <1>4. FdTaken(c) /\ UNCHANGED qOpened /\ qClosed' = qClosed \cup old /\ qPendingFds[c] # <<>>
      BY <1>3 DEF FdPooled, FdTaken
  <1>5. /\ qPools' = [d \in QConns |-> qPools'[d]] /\ \A d \in QConns \ {c} : qPools'[d] = qPools[d]
        /\ DOMAIN qPools'[c] = DOMAIN qPools[c] \cup {i} /\ qPools'[c][i] = g
        /\ \A x \in DOMAIN qPools[c] : x # i => qPools'[c][x] = qPools[c][x]
    <2>1. qPools = [d \in QConns |-> qPools[d]]
        BY DEF FdInv, FdTypes
    <2> QED
        BY <1>2, <2>1
  <1>6. /\ h = {g} /\ h \subseteq Content(qPendingFds[c])
        /\ Content(qPendingFds'[c]) = Content(qPendingFds[c]) \ {g}
        /\ \A d \in QConns \ {c} : qPendingFds'[d] = qPendingFds[d]
        /\ \A d \in QConns : Wire(d)' = Wire(d)
        /\ FdTypes' /\ OneEach' /\ AwayHasNone'
    <2>1. h = IF qPendingFds[c] = <<>> THEN {} ELSE Head(qPendingFds[c])
        BY <1>1, <1>4
    <2>2. /\ h = {} \/ \E f \in Nat : h = {f}
          /\ h \subseteq Content(qPendingFds[c])
          /\ Content(qPendingFds'[c]) = Content(qPendingFds[c]) \ h
          /\ \A d \in QConns \ {c} : qPendingFds'[d] = qPendingFds[d]
          /\ \A d \in QConns : Wire(d)' = Wire(d)
          /\ FdTypes' /\ OneEach' /\ AwayHasNone'
      <3>1. qPools' = [d \in QConns |-> qPools'[d]]
          BY <1>5
      <3>2. \A d \in QConns \ {c} : qPools'[d] = qPools[d]
          BY <1>5
      <3> QED
          BY <1>4, <2>1, <3>1, <3>2, FdTakes
    <2>3. h = {g}
        BY <1>2, <2>2
    <2> QED
        BY <2>2, <2>3
  <1>7. PICK at : PlacedBy(at)
      BY DEF FdInv
  <1>8. PICK bt : bt = [f \in 1 .. qOpened |->
                          IF f = g THEN InPool(c, i) ELSE IF f \in old THEN Nowhere ELSE at[f]]
      OBVIOUS
  <1>9. /\ Content(qPendingFds[c]) = {f \in 1 .. qOpened : at[f] = InHand(c)}
        /\ old = {f \in 1 .. qOpened : at[f] = InPool(c, i)}
    <2>1. {f \in 1 .. qOpened : at[f] = InPool(c, i)}
            = IF i \in DOMAIN qPools[c] THEN {qPools[c][i]} ELSE {}
        BY <1>7 DEF PlacedBy
    <2>2. old = IF i \in DOMAIN qPools[c] THEN {qPools[c][i]} ELSE {}
        BY <1>3
    <2> QED
        BY <1>7, <2>1, <2>2 DEF PlacedBy
  <1>10. /\ g \in 1 .. qOpened /\ at[g] = InHand(c) /\ bt[g] = InPool(c, i) /\ g \notin old
         /\ \A f \in old : f \in 1 .. qOpened /\ bt[f] = Nowhere /\ at[f] = InPool(c, i)
         /\ \A f \in 1 .. qOpened : f = g \/ f \in old \/ bt[f] = at[f]
    <2>1. g \in 1 .. qOpened /\ at[g] = InHand(c)
        BY <1>6, <1>9
    <2>2. g \notin old
        BY <1>9, <2>1, PlacesDiffer
    <2> QED
        BY <1>8, <1>9, <2>1, <2>2
  <1>11. QConns' = QConns
      BY DEF QConns
  <1>12. PlacedBy(bt)'
    <2>1. qClosed' = {f \in 1 .. qOpened : bt[f] = Nowhere}
        BY <1>4, <1>7, <1>10, PlacesDiffer DEF PlacedBy
    <2>2. ASSUME NEW d \in QConns
          PROVE  /\ Content(Wire(d)') = {f \in 1 .. qOpened : bt[f] = OnWire(d)}
                 /\ Content(qPendingFds'[d]) = {f \in 1 .. qOpened : bt[f] = InHand(d)}
      <3>1. /\ Content(Wire(d)) = {f \in 1 .. qOpened : at[f] = OnWire(d)}
            /\ Content(qPendingFds[d]) = {f \in 1 .. qOpened : at[f] = InHand(d)}
          BY <1>7 DEF PlacedBy
      <3>2. {f \in 1 .. qOpened : bt[f] = OnWire(d)} = {f \in 1 .. qOpened : at[f] = OnWire(d)}
          BY <1>10, PlacesDiffer
      <3>3. Content(qPendingFds'[d]) = {f \in 1 .. qOpened : bt[f] = InHand(d)}
        <4>1. CASE d = c
            BY <1>6, <1>10, <3>1, <4>1, PlacesDiffer
        <4>2. CASE d # c
          <5>1. Content(qPendingFds'[d]) = Content(qPendingFds[d])
              BY <1>6, <4>2
          <5>2. {f \in 1 .. qOpened : bt[f] = InHand(d)} = {f \in 1 .. qOpened : at[f] = InHand(d)}
              BY <1>10, <4>2, PlacesDiffer
          <5> QED
              BY <3>1, <5>1, <5>2
        <4> QED
            BY <4>1, <4>2
      <3> QED
          BY <1>6, <3>1, <3>2, <3>3
    <2>3. ASSUME NEW d \in QConns, NEW j
          PROVE  {f \in 1 .. qOpened : bt[f] = InPool(d, j)}
                   = IF j \in DOMAIN qPools'[d] THEN {qPools'[d][j]} ELSE {}
      <3>1. {f \in 1 .. qOpened : at[f] = InPool(d, j)}
              = IF j \in DOMAIN qPools[d] THEN {qPools[d][j]} ELSE {}
          BY <1>7 DEF PlacedBy
      <3>2. CASE d = c /\ j = i
        <4>1. {f \in 1 .. qOpened : bt[f] = InPool(c, i)} = {g}
            BY <1>9, <1>10, PlacesDiffer
        <4> QED
            BY <1>5, <3>2, <4>1
      <3>3. CASE ~(d = c /\ j = i)
        <4>1. {f \in 1 .. qOpened : bt[f] = InPool(d, j)} = {f \in 1 .. qOpened : at[f] = InPool(d, j)}
            BY <1>10, <3>3, PlacesDiffer
        <4>2. /\ j \in DOMAIN qPools'[d] <=> j \in DOMAIN qPools[d]
              /\ j \in DOMAIN qPools[d] => qPools'[d][j] = qPools[d][j]
            BY <1>5, <3>3
        <4> QED
            BY <3>1, <4>1, <4>2
      <3> QED
          BY <3>2, <3>3
    <2>4. ASSUME NEW f \in 1 .. qOpened PROVE IsPlace(bt[f])
      <3>1. CASE f = g \/ f \in old
          BY <1>10, <3>1 DEF IsPlace
      <3>2. CASE bt[f] = at[f]
          BY <1>7, <3>2 DEF PlacedBy
      <3> QED
          BY <1>10, <3>1, <3>2
    <2> QED
        BY <1>4, <1>11, <2>1, <2>2, <2>3, <2>4 DEF PlacedBy, IsPlace
  <1> QED
      BY <1>6, <1>12 DEF FdInv

LEMMA FdsDropped ==
  ASSUME FdInv, kind' = kind, NEW c \in QConns, FdsEnd(c)
  PROVE  FdInv'
  <1>1. QConns' = QConns /\ UNCHANGED <<qSocket, qOpened>>
      BY DEF QConns, FdsEnd
  <1>2. PICK old : old = {qPools[c][i] : i \in DOMAIN qPools[c]} \cup Content(qPendingFds[c])
      OBVIOUS
  <1>3. /\ qPendingFds' = [qPendingFds EXCEPT ![c] = <<>>] /\ qClosed' = qClosed \cup old
        /\ qPools' = [qPools EXCEPT ![c] = flow!Empty] /\ qPhase' = [qPhase EXCEPT ![c] = "gone"]
      BY <1>2 DEF FdsEnd
  <1>4. /\ qPools' = [d \in QConns |-> qPools'[d]] /\ DOMAIN qPools'[c] = {}
        /\ qPendingFds' \in [QConns -> Seq(SUBSET Nat)] /\ qPendingFds'[c] = <<>>
        /\ DOMAIN qPendingFds'[c] = {}
        /\ \A d \in QConns \ {c} : qPools'[d] = qPools[d] /\ qPendingFds'[d] = qPendingFds[d]
        /\ qPhase' \in [QConns -> Phases]
        /\ \A d \in QConns \ {c} : qPhase'[d] = qPhase[d]
    <2>1. /\ qPools = [d \in QConns |-> qPools[d]] /\ qPhase \in [QConns -> Phases]
          /\ qPendingFds \in [QConns -> Seq(SUBSET Nat)]
        BY DEF FdInv, FdTypes
    <2>2. <<>> \in Seq(SUBSET Nat) /\ DOMAIN <<>> = {} /\ DOMAIN flow!Empty = {}
        BY EmptySeq DEF flow!Empty
    <2>3. /\ qPools' = [d \in QConns |-> qPools'[d]] /\ DOMAIN qPools'[c] = {}
          /\ \A d \in QConns \ {c} : qPools'[d] = qPools[d]
        BY <1>3, <2>1, <2>2
    <2>4. /\ qPendingFds' \in [QConns -> Seq(SUBSET Nat)] /\ qPendingFds'[c] = <<>>
          /\ \A d \in QConns \ {c} : qPendingFds'[d] = qPendingFds[d]
        BY <1>3, <2>1, <2>2
    <2>5. qPhase' \in [QConns -> Phases] /\ \A d \in QConns \ {c} : qPhase'[d] = qPhase[d]
        BY <1>3, <2>1 DEF Phases
    <2> QED
        BY <2>2, <2>3, <2>4, <2>5
  <1>5. \A d \in QConns : Wire(d)' = Wire(d)
      BY <1>1 DEF Wire
  <1>6. FdTypes'
      BY <1>1, <1>4 DEF FdInv, FdTypes
  <1>7. OneEach'
    <2>1. Disjoint(qPendingFds'[c]) /\ \A i \in DOMAIN qPendingFds'[c] : \E f \in Nat : qPendingFds'[c][i] = {f}
        BY <1>4 DEF Disjoint
    <2>2. ASSUME NEW d \in QConns
          PROVE  /\ \A i \in DOMAIN qPendingFds'[d] : \E f \in Nat : qPendingFds'[d][i] = {f}
                 /\ Disjoint(Wire(d)') /\ Disjoint(qPendingFds'[d])
      <3>1. Disjoint(Wire(d)')
          BY <1>5 DEF FdInv, OneEach
      <3>2. CASE d = c
          BY <2>1, <3>1, <3>2
      <3>3. CASE d # c
        <4>1. qPendingFds'[d] = qPendingFds[d]
            BY <1>4, <3>3
        <4> QED
            BY <3>1, <4>1 DEF FdInv, OneEach
      <3> QED
          BY <3>2, <3>3
    <2> QED
        BY <1>1, <2>2 DEF FdInv, OneEach
  <1>8. AwayHasNone'
      BY <1>1, <1>4 DEF FdInv, AwayHasNone
  <1>9. PICK at : PlacedBy(at)
      BY DEF FdInv
  <1>10. PICK bt : bt = [f \in 1 .. qOpened |-> IF f \in old THEN Nowhere ELSE at[f]]
      OBVIOUS
  <1>11. \A f \in 1 .. qOpened : f \in old <=> at[f] = InHand(c) \/ \E i : at[f] = InPool(c, i)
    <2>1. Content(qPendingFds[c]) = {f \in 1 .. qOpened : at[f] = InHand(c)}
        BY <1>9 DEF PlacedBy
    <2>2. \A i : {f \in 1 .. qOpened : at[f] = InPool(c, i)}
                   = IF i \in DOMAIN qPools[c] THEN {qPools[c][i]} ELSE {}
        BY <1>9 DEF PlacedBy
    <2>3. ASSUME NEW f \in 1 .. qOpened
          PROVE  (\E i \in DOMAIN qPools[c] : f = qPools[c][i]) <=> \E i : at[f] = InPool(c, i)
        BY <2>2
    <2> QED
        BY <1>2, <2>1, <2>3
  <1>12. old \subseteq 1 .. qOpened
    <2>1. Content(qPendingFds[c]) \subseteq 1 .. qOpened
        BY <1>9 DEF PlacedBy
    <2>2. ASSUME NEW i \in DOMAIN qPools[c] PROVE qPools[c][i] \in 1 .. qOpened
      <3>1. {f \in 1 .. qOpened : at[f] = InPool(c, i)} = {qPools[c][i]}
          BY <1>9 DEF PlacedBy
      <3> QED
          BY <3>1
    <2> QED
        BY <1>2, <2>1, <2>2
  <1>13. \A f \in 1 .. qOpened : /\ f \in old => bt[f] = Nowhere
                                 /\ f \notin old => bt[f] = at[f]
      BY <1>10
  <1>14. PlacedBy(bt)'
    <2>1. qClosed' = {f \in 1 .. qOpened : bt[f] = Nowhere}
        BY <1>3, <1>9, <1>12, <1>13 DEF PlacedBy
    <2>2. ASSUME NEW d \in QConns
          PROVE  Content(Wire(d)') = {f \in 1 .. qOpened : bt[f] = OnWire(d)}
      <3>1. Content(Wire(d)) = {f \in 1 .. qOpened : at[f] = OnWire(d)}
          BY <1>9 DEF PlacedBy
      <3>2. {f \in 1 .. qOpened : bt[f] = OnWire(d)} = {f \in 1 .. qOpened : at[f] = OnWire(d)}
          BY <1>11, <1>13, PlacesDiffer
      <3> QED
          BY <1>5, <3>1, <3>2
    <2>3. ASSUME NEW d \in QConns
          PROVE  Content(qPendingFds'[d]) = {f \in 1 .. qOpened : bt[f] = InHand(d)}
      <3>1. Content(qPendingFds[d]) = {f \in 1 .. qOpened : at[f] = InHand(d)}
          BY <1>9 DEF PlacedBy
      <3>2. CASE d = c
        <4>1. {f \in 1 .. qOpened : bt[f] = InHand(c)} = {}
            BY <1>11, <1>13, PlacesDiffer
        <4> QED
            BY <1>4, <3>2, <4>1 DEF Content
      <3>3. CASE d # c
        <4>1. {f \in 1 .. qOpened : bt[f] = InHand(d)} = {f \in 1 .. qOpened : at[f] = InHand(d)}
            BY <1>11, <1>13, <3>3, PlacesDiffer
        <4> QED
            BY <1>4, <3>1, <3>3, <4>1
      <3> QED
          BY <3>2, <3>3
    <2>4. ASSUME NEW d \in QConns, NEW i
          PROVE  {f \in 1 .. qOpened : bt[f] = InPool(d, i)}
                   = IF i \in DOMAIN qPools'[d] THEN {qPools'[d][i]} ELSE {}
      <3>1. {f \in 1 .. qOpened : at[f] = InPool(d, i)}
              = IF i \in DOMAIN qPools[d] THEN {qPools[d][i]} ELSE {}
          BY <1>9 DEF PlacedBy
      <3>2. CASE d = c
        <4>1. {f \in 1 .. qOpened : bt[f] = InPool(c, i)} = {}
            BY <1>11, <1>13, PlacesDiffer
        <4> QED
            BY <1>4, <3>2, <4>1
      <3>3. CASE d # c
        <4>1. {f \in 1 .. qOpened : bt[f] = InPool(d, i)} = {f \in 1 .. qOpened : at[f] = InPool(d, i)}
            BY <1>11, <1>13, <3>3, PlacesDiffer
        <4> QED
            BY <1>4, <3>1, <3>3, <4>1
      <3> QED
          BY <3>2, <3>3
    <2>5. ASSUME NEW f \in 1 .. qOpened PROVE IsPlace(bt[f])
      <3>1. CASE f \in old
          BY <1>13, <3>1 DEF IsPlace
      <3>2. CASE f \notin old
          BY <1>9, <1>13, <3>2 DEF PlacedBy
      <3> QED
          BY <3>1, <3>2
    <2> QED
        BY <1>1, <2>1, <2>2, <2>3, <2>4, <2>5 DEF PlacedBy, IsPlace
  <1> QED
      BY <1>6, <1>7, <1>8, <1>14 DEF FdInv

-----------------------------------------------------------------------------
(* What the receiver's steps do, in any of the instances.                    *)
SameName(a, b) == "comp" \in DOMAIN b /\ b.comp = a.comp

LEMMA StreamsStay ==
  ASSUME TagInv, UNCHANGED qStreams
  PROVE  StreamsKept
  BY DEF TagInv, TagTypes, StreamsKept

LEMMA StreamsChange ==
  ASSUME TagInv, NEW c \in QConns, NEW g, qStreams' = [qStreams EXCEPT ![c] = g],
         DOMAIN g = DOMAIN qStreams[c],
         \A s \in DOMAIN qStreams[c] : SameName(qStreams[c][s], g[s])
  PROVE  StreamsKept
  <1>1. qStreams = [d \in QConns |-> qStreams[d]]
      BY DEF TagInv, TagTypes
  <1>2. qStreams' = [d \in QConns |-> qStreams'[d]] /\ qStreams'[c] = g
      BY <1>1
  <1>3. \A d \in QConns \ {c} : qStreams'[d] = qStreams[d]
      BY <1>1
  <1>4. \A d \in QConns \ {c} : \A s \in DOMAIN qStreams[d] : "comp" \in DOMAIN qStreams[d][s]
      BY DEF TagInv, TagTypes
  <1> QED
      BY <1>2, <1>3, <1>4 DEF StreamsKept, SameName

LEMMA PhasesStay ==
  ASSUME TagInv, UNCHANGED qPhase
  PROVE  PhaseKept
  BY DEF TagInv, TagTypes, PhaseKept

LEMMA PhaseChanges ==
  ASSUME TagInv, NEW c \in QConns, NEW v \in Phases, qPhase' = [qPhase EXCEPT ![c] = v],
         v \notin Away \/ qPhase[c] \in Away
  PROVE  PhaseKept
  BY DEF TagInv, TagTypes, PhaseKept

(* An edit of a stream keeps the name it is known by.                        *)
LEMMA Edits ==
  ASSUME NEW st, "comp" \in DOMAIN st
  PROVE  /\ SameName(st, st)
         /\ \A v : /\ SameName(st, [st EXCEPT !.chunks = v]) /\ SameName(st, [st EXCEPT !.pend = v])
                   /\ SameName(st, [st EXCEPT !.since = v]) /\ SameName(st, [st EXCEPT !.corked = v])
                   /\ SameName(st, [st EXCEPT !.payload = v]) /\ SameName(st, [st EXCEPT !.cursor = v])
  BY DEF SameName

LEMMA SameNames ==
  ASSUME NEW a, NEW b, NEW d, SameName(a, b), SameName(b, d)
  PROVE  SameName(a, d)
  BY DEF SameName

LEMMA TickKeepsName ==
  ASSUME NEW st, "comp" \in DOMAIN st
  PROVE  /\ SameName(st, flow!HandleTick(st)) /\ SameName(st, tags!HandleTick(st))
         /\ SameName(st, pair!HandleTick(st)) /\ SameName(st, fds!HandleTick(st))
  BY DEF flow!HandleTick, flow!PlayChunk, flow!RunDry, tags!HandleTick, tags!PlayChunk,
       tags!RunDry, pair!HandleTick, pair!PlayChunk, pair!RunDry, fds!HandleTick,
       fds!PlayChunk, fds!RunDry, SameName

LEMMA ChangeKeepsName ==
  ASSUME NEW st, "comp" \in DOMAIN st, NEW op
  PROVE  /\ SameName(st, flow!Changed(op, st)) /\ SameName(st, tags!Changed(op, st))
         /\ SameName(st, pair!Changed(op, st)) /\ SameName(st, fds!Changed(op, st))
  BY DEF flow!Changed, flow!Cork, flow!Uncork, flow!Flush, flow!SetAttr, tags!Changed,
       tags!Cork, tags!Uncork, tags!Flush, tags!SetAttr, pair!Changed, pair!Cork,
       pair!Uncork, pair!Flush, pair!SetAttr, fds!Changed, fds!Cork, fds!Uncork, fds!Flush,
       fds!SetAttr, SameName

LEMMA ChunkKeepsName ==
  ASSUME NEW st, "comp" \in DOMAIN st, NEW n
  PROVE  /\ SameName(st, flow!Chunked(st, n)) /\ SameName(st, tags!Chunked(st, n))
         /\ SameName(st, pair!Chunked(st, n)) /\ SameName(st, fds!Chunked(st, n))
  BY DEF flow!Chunked, tags!Chunked, pair!Chunked, fds!Chunked, SameName

LEMMA PulseStops ==
  ASSUME TagInv,
         \/ flow!Stop \/ tags!Stop \/ pair!Stop \/ fds!Stop
         \/ flow!Shutdown \/ tags!Shutdown \/ pair!Shutdown \/ fds!Shutdown
  PROVE  PhaseKept /\ TagsQuiet /\ StreamsKept /\ FdsQuiet
  <1>1. UNCHANGED <<qPhase, qStreams>> /\ TagsQuiet /\ FdsQuiet
      BY Zenon DEF flow!Stop, flow!Shutdown, flow!connVars, flow!tagVars, flow!fdVars,
           flow!clientVars, tags!Stop, tags!Shutdown, tags!connVars, tags!tagVars,
           tags!fdVars, tags!clientVars, pair!Stop, pair!Shutdown, pair!connVars,
           pair!tagVars, pair!fdVars, pair!clientVars, fds!Stop, fds!Shutdown, fds!connVars,
           fds!tagVars, fds!fdVars, fds!clientVars, TagsQuiet, FdsQuiet
  <1> QED
      BY <1>1, PhasesStay, StreamsStay

LEMMA PulseIdles ==
  ASSUME TagInv, NEW c \in QConns,
         \/ flow!PollTimeout(c) \/ tags!PollTimeout(c) \/ pair!PollTimeout(c) \/ fds!PollTimeout(c)
         \/ flow!Write(c) \/ tags!Write(c) \/ pair!Write(c) \/ fds!Write(c)
  PROVE  PhaseKept /\ TagsQuiet /\ StreamsKept /\ FdsQuiet
  <1>1. UNCHANGED <<qPhase, qStreams>> /\ TagsQuiet /\ FdsQuiet
      BY Zenon DEF flow!PollTimeout, flow!Write, flow!connVars, flow!tagVars, flow!fdVars,
           flow!clientVars, tags!PollTimeout, tags!Write, tags!connVars, tags!tagVars,
           tags!fdVars, tags!clientVars, pair!PollTimeout, pair!Write, pair!connVars,
           pair!tagVars, pair!fdVars, pair!clientVars, fds!PollTimeout, fds!Write,
           fds!connVars, fds!tagVars, fds!fdVars, fds!clientVars, TagsQuiet, FdsQuiet
  <1> QED
      BY <1>1, PhasesStay, StreamsStay

LEMMA PulseEnds ==
  ASSUME TagInv, NEW c \in QConns,
         \/ flow!HearStop(c) \/ tags!HearStop(c) \/ pair!HearStop(c) \/ fds!HearStop(c)
         \/ flow!PeerLost(c) \/ tags!PeerLost(c) \/ pair!PeerLost(c) \/ fds!PeerLost(c)
  PROVE  PhaseKept /\ TagsQuiet /\ StreamsKept /\ FdsQuiet
  <1>1. UNCHANGED qStreams /\ TagsQuiet /\ FdsQuiet /\ qPhase' = [qPhase EXCEPT ![c] = "finished"]
      BY Zenon DEF flow!HearStop, flow!PeerLost, flow!Finish, flow!connVars, flow!tagVars,
           flow!fdVars, flow!clientVars, tags!HearStop, tags!PeerLost, tags!Finish,
           tags!connVars, tags!tagVars, tags!fdVars, tags!clientVars, pair!HearStop,
           pair!PeerLost, pair!Finish, pair!connVars, pair!tagVars, pair!fdVars,
           pair!clientVars, fds!HearStop, fds!PeerLost, fds!Finish, fds!connVars,
           fds!tagVars, fds!fdVars, fds!clientVars, TagsQuiet, FdsQuiet
  <1> QED
      BY <1>1, PhaseChanges, StreamsStay DEF Phases, Away

LEMMA PulseAccepts ==
  ASSUME TagInv, NEW c \in QConns,
         flow!Accept(c) \/ tags!Accept(c) \/ pair!Accept(c) \/ fds!Accept(c)
  PROVE  PhaseKept /\ TagsQuiet /\ StreamsKept /\ FdsQuiet
  <1>1. /\ UNCHANGED qStreams /\ TagsQuiet /\ FdsQuiet /\ qPhase[c] = "none"
        /\ \/ qPhase' = [qPhase EXCEPT ![c] = "gone"]
           \/ qPhase' = [qPhase EXCEPT ![c] = "run"]
      BY Zenon DEF flow!Accept, flow!connVars, flow!tagVars, flow!fdVars, flow!clientVars,
           tags!Accept, tags!connVars, tags!tagVars, tags!fdVars, tags!clientVars,
           pair!Accept, pair!connVars, pair!tagVars, pair!fdVars, pair!clientVars,
           fds!Accept, fds!connVars, fds!tagVars, fds!fdVars, fds!clientVars, TagsQuiet, FdsQuiet
  <1> QED
      BY <1>1, PhaseChanges, StreamsStay DEF Phases, Away

LEMMA PulsePasses ==
  ASSUME TagInv, NEW c \in QConns, NEW T, NEW D,
         flow!Pass(c, T, D) \/ tags!Pass(c, T, D) \/ pair!Pass(c, T, D) \/ fds!Pass(c, T, D)
  PROVE  PhaseKept /\ TagsQuiet /\ StreamsKept /\ FdsQuiet
  <1>1. UNCHANGED qPhase /\ TagsQuiet /\ FdsQuiet
      BY Zenon DEF flow!Pass, flow!connVars, flow!tagVars, flow!fdVars, flow!clientVars, tags!Pass,
           tags!connVars, tags!tagVars, tags!fdVars, tags!clientVars, pair!Pass,
           pair!connVars, pair!tagVars, pair!fdVars, pair!clientVars, fds!Pass, fds!connVars,
           fds!tagVars, fds!fdVars, fds!clientVars, TagsQuiet, FdsQuiet
  <1>2. PICK h : /\ DOMAIN h = DOMAIN qStreams[c]
                 /\ \A s \in DOMAIN h : SameName(qStreams[c][s], h[s])
                 /\ qStreams' = [qStreams EXCEPT ![c] =
                       [s \in DOMAIN h |-> IF s \in D THEN [h[s] EXCEPT !.pend = 0] ELSE h[s]]]
    <2>1. \A s \in DOMAIN qStreams[c] : "comp" \in DOMAIN qStreams[c][s]
        BY DEF TagInv, TagTypes
    <2>2. CASE flow!Pass(c, T, D)
      <3>1. PICK h : h = flow!Ticked(c, T)
          OBVIOUS
      <3>2. qStreams' = [qStreams EXCEPT ![c] =
              [s \in DOMAIN h |-> IF s \in D THEN [h[s] EXCEPT !.pend = 0] ELSE h[s]]]
          BY <2>2, <3>1, Zenon DEF flow!Pass, flow!SendRequests
      <3>3. /\ DOMAIN h = DOMAIN qStreams[c]
            /\ \A s \in DOMAIN h : SameName(qStreams[c][s], h[s])
          BY <2>1, <3>1, TickKeepsName, Edits DEF flow!Ticked
      <3> QED
          BY <3>2, <3>3
    <2>3. CASE tags!Pass(c, T, D)
      <3>1. PICK h : h = tags!Ticked(c, T)
          OBVIOUS
      <3>2. qStreams' = [qStreams EXCEPT ![c] =
              [s \in DOMAIN h |-> IF s \in D THEN [h[s] EXCEPT !.pend = 0] ELSE h[s]]]
          BY <2>3, <3>1, Zenon DEF tags!Pass, tags!SendRequests
      <3>3. /\ DOMAIN h = DOMAIN qStreams[c]
            /\ \A s \in DOMAIN h : SameName(qStreams[c][s], h[s])
          BY <2>1, <3>1, TickKeepsName, Edits DEF tags!Ticked
      <3> QED
          BY <3>2, <3>3
    <2>4. CASE pair!Pass(c, T, D)
      <3>1. PICK h : h = pair!Ticked(c, T)
          OBVIOUS
      <3>2. qStreams' = [qStreams EXCEPT ![c] =
              [s \in DOMAIN h |-> IF s \in D THEN [h[s] EXCEPT !.pend = 0] ELSE h[s]]]
          BY <2>4, <3>1, Zenon DEF pair!Pass, pair!SendRequests
      <3>3. /\ DOMAIN h = DOMAIN qStreams[c]
            /\ \A s \in DOMAIN h : SameName(qStreams[c][s], h[s])
          BY <2>1, <3>1, TickKeepsName, Edits DEF pair!Ticked
      <3> QED
          BY <3>2, <3>3
    <2>5. CASE fds!Pass(c, T, D)
      <3>1. PICK h : h = fds!Ticked(c, T)
          OBVIOUS
      <3>2. qStreams' = [qStreams EXCEPT ![c] =
              [s \in DOMAIN h |-> IF s \in D THEN [h[s] EXCEPT !.pend = 0] ELSE h[s]]]
          BY <2>5, <3>1, Zenon DEF fds!Pass, fds!SendRequests
      <3>3. /\ DOMAIN h = DOMAIN qStreams[c]
            /\ \A s \in DOMAIN h : SameName(qStreams[c][s], h[s])
          BY <2>1, <3>1, TickKeepsName, Edits DEF fds!Ticked
      <3> QED
          BY <3>2, <3>3
    <2> QED
        BY <2>2, <2>3, <2>4, <2>5
  <1>3. PICK g : g = [s \in DOMAIN h |-> IF s \in D THEN [h[s] EXCEPT !.pend = 0] ELSE h[s]]
      OBVIOUS
  <1>4. DOMAIN g = DOMAIN qStreams[c] /\ \A s \in DOMAIN qStreams[c] : SameName(qStreams[c][s], g[s])
    <2>1. ASSUME NEW s \in DOMAIN qStreams[c] PROVE SameName(qStreams[c][s], g[s])
      <3>1. g[s] = [h[s] EXCEPT !.pend = 0] \/ g[s] = h[s]
          BY <1>2, <1>3
      <3>2. SameName(qStreams[c][s], h[s]) /\ "comp" \in DOMAIN h[s]
          BY <1>2 DEF SameName
      <3>3. SameName(h[s], [h[s] EXCEPT !.pend = 0])
          BY <3>2, Edits
      <3> QED
          BY <3>1, <3>2, <3>3, SameNames
    <2> QED
        BY <1>2, <1>3, <2>1
  <1>5. qStreams' = [qStreams EXCEPT ![c] = g]
      BY <1>2, <1>3
  <1> QED
      BY <1>1, <1>4, <1>5, PhasesStay, StreamsChange

LEMMA PulseSends ==
  ASSUME TagInv, FdInv, NEW c \in QConns,
         \/ flow!SendCommand(c) \/ tags!SendCommand(c) \/ pair!SendCommand(c) \/ fds!SendCommand(c)
         \/ flow!SendAudio(c) \/ tags!SendAudio(c) \/ pair!SendAudio(c) \/ fds!SendAudio(c)
  PROVE  PhaseKept /\ TagsQuiet /\ StreamsKept /\ \E m : FdSent(c, m)
  <1>1. UNCHANGED <<qPhase, qStreams, qPendingFds, qPools, qClosed>> /\ TagsQuiet
      BY Zenon DEF flow!SendCommand, flow!SendAudio, flow!connVars, flow!tagVars, flow!fdVars,
           flow!clientVars, tags!SendCommand, tags!SendAudio, tags!connVars, tags!tagVars,
           tags!fdVars, tags!clientVars, pair!SendCommand, pair!SendAudio, pair!connVars,
           pair!tagVars, pair!fdVars, pair!clientVars, fds!SendCommand, fds!SendAudio,
           fds!connVars, fds!tagVars, fds!fdVars, fds!clientVars, TagsQuiet
  <1>2. qOpened \in Nat
      BY DEF FdInv, FdTypes
  <1>3. CASE flow!SendCommand(c)
    <2>1. PICK op \in FlowOps, s \in 1 .. 1, shm \in PoolIds :
            /\ qSocket' = [qSocket EXCEPT ![c] = Append(@, [op |-> op, s |-> s, n |-> shm,
                              fds |-> IF op = "memfd" THEN {qOpened + 1} ELSE {}])]
            /\ qOpened' = IF op = "memfd" THEN qOpened + 1 ELSE qOpened
        BY <1>3, Zenon DEF flow!SendCommand
    <2>2. PICK m : m = [op |-> op, s |-> s, n |-> shm, fds |-> IF op = "memfd" THEN {qOpened + 1} ELSE {}]
        OBVIOUS
    <2>3. m \in Messages
      <3>1. m.op = op /\ m.s = s /\ m.n = shm /\ m.fds \in SUBSET Nat
          BY <1>2, <2>2
      <3>2. s \in Numbers /\ shm \in Numbers
          BY DEF Numbers
      <3> QED
          BY <2>2, <3>1, <3>2 DEF Messages
    <2>4. \/ m.fds = {} /\ qOpened' = qOpened
          \/ m.fds = {qOpened + 1} /\ qOpened' = qOpened + 1
        BY <2>1, <2>2
    <2> QED
        BY <1>1, <2>1, <2>2, <2>3, <2>4, PhasesStay, StreamsStay DEF FdSent
  <1>4. CASE tags!SendCommand(c)
    <2>1. PICK op \in TagOps, s \in 1 .. TagStreams, shm \in PoolIds :
            /\ qSocket' = [qSocket EXCEPT ![c] = Append(@, [op |-> op, s |-> s, n |-> shm,
                              fds |-> IF op = "memfd" THEN {qOpened + 1} ELSE {}])]
            /\ qOpened' = IF op = "memfd" THEN qOpened + 1 ELSE qOpened
        BY <1>4, Zenon DEF tags!SendCommand
    <2>2. PICK m : m = [op |-> op, s |-> s, n |-> shm, fds |-> IF op = "memfd" THEN {qOpened + 1} ELSE {}]
        OBVIOUS
    <2>3. m \in Messages
      <3>1. m.op = op /\ m.s = s /\ m.n = shm /\ m.fds \in SUBSET Nat
          BY <1>2, <2>2
      <3>2. s \in Numbers /\ shm \in Numbers
          BY DEF Numbers
      <3> QED
          BY <2>2, <3>1, <3>2 DEF Messages
    <2>4. \/ m.fds = {} /\ qOpened' = qOpened
          \/ m.fds = {qOpened + 1} /\ qOpened' = qOpened + 1
        BY <2>1, <2>2
    <2> QED
        BY <1>1, <2>1, <2>2, <2>3, <2>4, PhasesStay, StreamsStay DEF FdSent
  <1>5. CASE pair!SendCommand(c)
    <2>1. PICK op \in PairOps, s \in 1 .. PairStreams, shm \in PoolIds :
            /\ qSocket' = [qSocket EXCEPT ![c] = Append(@, [op |-> op, s |-> s, n |-> shm,
                              fds |-> IF op = "memfd" THEN {qOpened + 1} ELSE {}])]
            /\ qOpened' = IF op = "memfd" THEN qOpened + 1 ELSE qOpened
        BY <1>5, Zenon DEF pair!SendCommand
    <2>2. PICK m : m = [op |-> op, s |-> s, n |-> shm, fds |-> IF op = "memfd" THEN {qOpened + 1} ELSE {}]
        OBVIOUS
    <2>3. m \in Messages
      <3>1. m.op = op /\ m.s = s /\ m.n = shm /\ m.fds \in SUBSET Nat
          BY <1>2, <2>2
      <3>2. s \in Numbers /\ shm \in Numbers
          BY DEF Numbers
      <3> QED
          BY <2>2, <3>1, <3>2 DEF Messages
    <2>4. \/ m.fds = {} /\ qOpened' = qOpened
          \/ m.fds = {qOpened + 1} /\ qOpened' = qOpened + 1
        BY <2>1, <2>2
    <2> QED
        BY <1>1, <2>1, <2>2, <2>3, <2>4, PhasesStay, StreamsStay DEF FdSent
  <1>6. CASE fds!SendCommand(c)
    <2>1. PICK op \in FdOps, s \in 1 .. FdStreams, shm \in PoolIds :
            /\ qSocket' = [qSocket EXCEPT ![c] = Append(@, [op |-> op, s |-> s, n |-> shm,
                              fds |-> IF op = "memfd" THEN {qOpened + 1} ELSE {}])]
            /\ qOpened' = IF op = "memfd" THEN qOpened + 1 ELSE qOpened
        BY <1>6, Zenon DEF fds!SendCommand
    <2>2. PICK m : m = [op |-> op, s |-> s, n |-> shm, fds |-> IF op = "memfd" THEN {qOpened + 1} ELSE {}]
        OBVIOUS
    <2>3. m \in Messages
      <3>1. m.op = op /\ m.s = s /\ m.n = shm /\ m.fds \in SUBSET Nat
          BY <1>2, <2>2
      <3>2. s \in Numbers /\ shm \in Numbers
          BY DEF Numbers
      <3> QED
          BY <2>2, <3>1, <3>2 DEF Messages
    <2>4. \/ m.fds = {} /\ qOpened' = qOpened
          \/ m.fds = {qOpened + 1} /\ qOpened' = qOpened + 1
        BY <2>1, <2>2
    <2> QED
        BY <1>1, <2>1, <2>2, <2>3, <2>4, PhasesStay, StreamsStay DEF FdSent
  <1>7. CASE flow!SendAudio(c) \/ tags!SendAudio(c) \/ pair!SendAudio(c) \/ fds!SendAudio(c)
    <2>1. PICK s \in Numbers, n \in Numbers :
            /\ qSocket' = [qSocket EXCEPT ![c] = Append(@, [op |-> "data", s |-> s, n |-> n, fds |-> {}])]
            /\ UNCHANGED qOpened
      <3>1. CASE flow!SendAudio(c)
        <4>1. 1 .. 1 \subseteq Numbers /\ 1 .. PulseUnits \subseteq Numbers
            BY DEF Numbers
        <4>2. \E s \in 1 .. 1, n \in 1 .. PulseUnits :
                /\ qSocket' = [qSocket EXCEPT ![c] = Append(@, [op |-> "data", s |-> s, n |-> n, fds |-> {}])]
                /\ UNCHANGED qOpened
            BY <3>1, Zenon DEF flow!SendAudio, flow!fdVars
        <4> QED
            BY <4>1, <4>2
      <3>2. CASE tags!SendAudio(c)
        <4>1. 1 .. TagStreams \subseteq Numbers /\ 1 .. PulseUnits \subseteq Numbers
            BY DEF Numbers
        <4>2. \E s \in 1 .. TagStreams, n \in 1 .. PulseUnits :
                /\ qSocket' = [qSocket EXCEPT ![c] = Append(@, [op |-> "data", s |-> s, n |-> n, fds |-> {}])]
                /\ UNCHANGED qOpened
            BY <3>2, Zenon DEF tags!SendAudio, tags!fdVars
        <4> QED
            BY <4>1, <4>2
      <3>3. CASE pair!SendAudio(c)
        <4>1. 1 .. PairStreams \subseteq Numbers /\ 1 .. PulseUnits \subseteq Numbers
            BY DEF Numbers
        <4>2. \E s \in 1 .. PairStreams, n \in 1 .. PulseUnits :
                /\ qSocket' = [qSocket EXCEPT ![c] = Append(@, [op |-> "data", s |-> s, n |-> n, fds |-> {}])]
                /\ UNCHANGED qOpened
            BY <3>3, Zenon DEF pair!SendAudio, pair!fdVars
        <4> QED
            BY <4>1, <4>2
      <3>4. CASE fds!SendAudio(c)
        <4>1. 1 .. FdStreams \subseteq Numbers /\ 1 .. PulseUnits \subseteq Numbers
            BY DEF Numbers
        <4>2. \E s \in 1 .. FdStreams, n \in 1 .. PulseUnits :
                /\ qSocket' = [qSocket EXCEPT ![c] = Append(@, [op |-> "data", s |-> s, n |-> n, fds |-> {}])]
                /\ UNCHANGED qOpened
            BY <3>4, Zenon DEF fds!SendAudio, fds!fdVars
        <4> QED
            BY <4>1, <4>2
      <3> QED
          BY <1>7, <3>1, <3>2, <3>3, <3>4
    <2>2. PICK m : m = [op |-> "data", s |-> s, n |-> n, fds |-> {}]
        OBVIOUS
    <2>3. m \in Messages /\ m.fds = {}
        BY <2>2 DEF Messages
    <2> QED
        BY <1>1, <2>1, <2>2, <2>3, PhasesStay, StreamsStay DEF FdSent
  <1> QED
      BY <1>3, <1>4, <1>5, <1>6, <1>7

LEMMA PulseReceives ==
  ASSUME TagInv, NEW c \in QConns,
         flow!Receive(c) \/ tags!Receive(c) \/ pair!Receive(c) \/ fds!Receive(c)
  PROVE  PhaseKept /\ TagsQuiet /\ StreamsKept /\ FdReceived(c)
  <1>1. UNCHANGED <<qPhase, qStreams>> /\ TagsQuiet /\ FdReceived(c)
      BY Zenon DEF flow!Receive, flow!At, flow!connVars, flow!tagVars, flow!fdVars, flow!clientVars,
           tags!Receive, tags!At, tags!connVars, tags!tagVars, tags!fdVars, tags!clientVars,
           pair!Receive, pair!At, pair!connVars, pair!tagVars, pair!fdVars, pair!clientVars,
           fds!Receive, fds!At, fds!connVars, fds!tagVars, fds!fdVars, fds!clientVars, TagsQuiet, FdReceived
  <1> QED
      BY <1>1, PhasesStay, StreamsStay

(* ~Connection                                                               *)
LEMMA PulseDestroys ==
  ASSUME TagInv, NEW c \in QConns,
         \/ flow!Prune(c) \/ tags!Prune(c) \/ pair!Prune(c) \/ fds!Prune(c)
         \/ flow!StopConnection(c) \/ tags!StopConnection(c) \/ pair!StopConnection(c) \/ fds!StopConnection(c)
  PROVE  StreamsEnd(c, DOMAIN qStreams[c]) /\ FdsEnd(c)
  <1>1. /\ qPhase' = [qPhase EXCEPT ![c] = "gone"]
        /\ qComposites' = [qComposites EXCEPT ![qProg[c]] =
                              @ \ {st.comp : st \in {qStreams[c][s] : s \in DOMAIN qStreams[c]}}]
        /\ qKnown' = IF {qStreams[c][s] : s \in DOMAIN qStreams[c]} = {} THEN qKnown ELSE qKnown \ {qProg[c]}
        /\ qClosed' = qClosed \cup {qPools[c][i] : i \in DOMAIN qPools[c]}
                         \cup UNION {qPendingFds[c][i] : i \in DOMAIN qPendingFds[c]}
        /\ qStreams' = [qStreams EXCEPT ![c] = flow!Empty]
        /\ qPools' = [qPools EXCEPT ![c] = flow!Empty]
        /\ qPendingFds' = [qPendingFds EXCEPT ![c] = <<>>]
        /\ UNCHANGED <<qNextTag, qNextIndex, qProg, qSocket, qOpened>>
      BY Zenon DEF flow!Prune, flow!StopConnection, flow!Destroy, flow!Withdraw, flow!Fds,
           flow!Range, flow!Empty, flow!connVars, flow!tagVars, flow!fdVars, flow!clientVars,
           tags!Prune, tags!StopConnection, tags!Destroy, tags!Withdraw, tags!Fds,
           tags!Range, tags!Empty, tags!connVars, tags!tagVars, tags!fdVars, tags!clientVars,
           pair!Prune, pair!StopConnection, pair!Destroy, pair!Withdraw, pair!Fds,
           pair!Range, pair!Empty, pair!connVars, pair!tagVars, pair!fdVars, pair!clientVars,
           fds!Prune, fds!StopConnection, fds!Destroy, fds!Withdraw, fds!Fds, fds!Range,
           fds!Empty, fds!connVars, fds!tagVars, fds!fdVars, fds!clientVars
  <1>2. {st.comp : st \in {qStreams[c][s] : s \in DOMAIN qStreams[c]}}
          = {qStreams[c][s].comp : s \in DOMAIN qStreams[c]}
      OBVIOUS
  <1>3. {qStreams[c][s] : s \in DOMAIN qStreams[c]} = {} <=> DOMAIN qStreams[c] = {}
      OBVIOUS
  <1>4. [x \in DOMAIN qStreams[c] \ DOMAIN qStreams[c] |-> qStreams[c][x]] = flow!Empty
    <2>1. DOMAIN qStreams[c] \ DOMAIN qStreams[c] = {}
        OBVIOUS
    <2> QED
        BY <2>1 DEF flow!Empty
  <1>5. /\ qPhase' \in [QConns -> Phases]
        /\ \A d \in QConns : qPhase'[d] \in Away => qPhase[d] \in Away \/ d = c
      BY <1>1 DEF TagInv, TagTypes, Phases
  <1>6. StreamsEnd(c, DOMAIN qStreams[c])
      BY <1>1, <1>2, <1>3, <1>4, <1>5 DEF StreamsEnd
  <1>7. FdsEnd(c)
      BY <1>1 DEF FdsEnd, Content
  <1> QED
      BY <1>6, <1>7

(* handle_read hands a message to process_message.                           *)
Handled(c) ==
  /\ qPhase[c] = "run"
  /\ qPendingFds' = [qPendingFds EXCEPT ![c] = IF @ = <<>> THEN @ ELSE Tail(@)]
  /\ UNCHANGED <<qSocket, qProg, qOpened>>
Closes(c) ==
  /\ UNCHANGED qPools
  /\ qClosed' = qClosed \cup (IF qPendingFds[c] = <<>> THEN {} ELSE Head(qPendingFds[c]))
Goes(c) == UNCHANGED qPhase \/ qPhase' = [qPhase EXCEPT ![c] = "finished"]

LEMMA TakenFds ==
  ASSUME TagInv, NEW c \in QConns, Handled(c), Goes(c)
  PROVE  PhaseKept /\ FdTaken(c) /\ (Closes(c) => FdClosed(c))
  <1>1. PhaseKept
      BY PhasesStay, PhaseChanges DEF Goes, Phases, Away
  <1> QED
      BY <1>1 DEF Handled, Closes, FdTaken, FdClosed

LEMMA PulseAnswers ==
  ASSUME TagInv, NEW c \in QConns,
         \/ flow!Auth(c) \/ tags!Auth(c) \/ pair!Auth(c) \/ fds!Auth(c)
         \/ flow!Quit(c) \/ tags!Quit(c) \/ pair!Quit(c) \/ fds!Quit(c)
         \/ flow!Query(c) \/ tags!Query(c) \/ pair!Query(c) \/ fds!Query(c)
  PROVE  PhaseKept /\ TagsQuiet /\ StreamsKept /\ FdClosed(c)
  <1>1. UNCHANGED qStreams /\ TagsQuiet /\ Handled(c) /\ Goes(c) /\ Closes(c)
    <2>1. CASE flow!Auth(c) \/ tags!Auth(c) \/ pair!Auth(c) \/ fds!Auth(c)
        BY <2>1, Zenon DEF flow!Auth, flow!Decode, flow!CloseFds, flow!MsgFds, flow!At, flow!Stay,
             flow!NoStreams, flow!Finish, flow!connVars, flow!tagVars, flow!fdVars,
             flow!clientVars, tags!Auth, tags!Decode, tags!CloseFds, tags!MsgFds, tags!At,
             tags!Stay, tags!NoStreams, tags!Finish, tags!connVars, tags!tagVars,
             tags!fdVars, tags!clientVars, pair!Auth, pair!Decode, pair!CloseFds,
             pair!MsgFds, pair!At, pair!Stay, pair!NoStreams, pair!Finish, pair!connVars,
             pair!tagVars, pair!fdVars, pair!clientVars, fds!Auth, fds!Decode, fds!CloseFds,
             fds!MsgFds, fds!At, fds!Stay, fds!NoStreams, fds!Finish, fds!connVars,
             fds!tagVars, fds!fdVars, fds!clientVars, TagsQuiet, Handled, Goes, Closes
    <2>2. CASE flow!Quit(c) \/ tags!Quit(c) \/ pair!Quit(c) \/ fds!Quit(c)
        BY <2>2, Zenon DEF flow!Quit, flow!Decode, flow!CloseFds, flow!MsgFds, flow!At, flow!Stay,
             flow!NoStreams, flow!Finish, flow!connVars, flow!tagVars, flow!fdVars,
             flow!clientVars, tags!Quit, tags!Decode, tags!CloseFds, tags!MsgFds, tags!At,
             tags!Stay, tags!NoStreams, tags!Finish, tags!connVars, tags!tagVars,
             tags!fdVars, tags!clientVars, pair!Quit, pair!Decode, pair!CloseFds,
             pair!MsgFds, pair!At, pair!Stay, pair!NoStreams, pair!Finish, pair!connVars,
             pair!tagVars, pair!fdVars, pair!clientVars, fds!Quit, fds!Decode, fds!CloseFds,
             fds!MsgFds, fds!At, fds!Stay, fds!NoStreams, fds!Finish, fds!connVars,
             fds!tagVars, fds!fdVars, fds!clientVars, TagsQuiet, Handled, Goes, Closes
    <2>3. CASE flow!Query(c) \/ tags!Query(c) \/ pair!Query(c) \/ fds!Query(c)
        BY <2>3, Zenon DEF flow!Query, flow!Decode, flow!CloseFds, flow!MsgFds, flow!At, flow!Stay,
             flow!NoStreams, flow!Finish, flow!connVars, flow!tagVars, flow!fdVars,
             flow!clientVars, tags!Query, tags!Decode, tags!CloseFds, tags!MsgFds, tags!At,
             tags!Stay, tags!NoStreams, tags!Finish, tags!connVars, tags!tagVars,
             tags!fdVars, tags!clientVars, pair!Query, pair!Decode, pair!CloseFds,
             pair!MsgFds, pair!At, pair!Stay, pair!NoStreams, pair!Finish, pair!connVars,
             pair!tagVars, pair!fdVars, pair!clientVars, fds!Query, fds!Decode, fds!CloseFds,
             fds!MsgFds, fds!At, fds!Stay, fds!NoStreams, fds!Finish, fds!connVars,
             fds!tagVars, fds!fdVars, fds!clientVars, TagsQuiet, Handled, Goes, Closes
    <2> QED
        BY <2>1, <2>2, <2>3
  <1> QED
      BY <1>1, StreamsStay, TakenFds

LEMMA PulseCreates ==
  ASSUME TagInv, NEW c \in QConns,
         flow!Create(c) \/ tags!Create(c) \/ pair!Create(c) \/ fds!Create(c)
  PROVE  /\ FdClosed(c)
         /\ (PhaseKept /\ TagsQuiet /\ StreamsKept) \/ \E st : StreamMade(c, st)
  <1>1. Handled(c) /\ UNCHANGED qPhase /\ Closes(c)
      BY Zenon DEF flow!Create, flow!Decode, flow!CloseFds, flow!MsgFds, flow!At, flow!Stay,
           flow!NoStreams, flow!Finish, flow!connVars, flow!tagVars, flow!fdVars,
           flow!clientVars, tags!Create, tags!Decode, tags!CloseFds, tags!MsgFds, tags!At,
           tags!Stay, tags!NoStreams, tags!Finish, tags!connVars, tags!tagVars, tags!fdVars,
           tags!clientVars, pair!Create, pair!Decode, pair!CloseFds, pair!MsgFds, pair!At,
           pair!Stay, pair!NoStreams, pair!Finish, pair!connVars, pair!tagVars, pair!fdVars,
           pair!clientVars, fds!Create, fds!Decode, fds!CloseFds, fds!MsgFds, fds!At,
           fds!Stay, fds!NoStreams, fds!Finish, fds!connVars, fds!tagVars, fds!fdVars,
           fds!clientVars, Handled, Closes
  <1>2. PhaseKept /\ FdClosed(c) /\ qPhase[c] = "run"
      BY <1>1, TakenFds DEF Goes, Handled
  <1>3. CASE UNCHANGED qStreams /\ TagsQuiet
      BY <1>2, <1>3, StreamsStay
  <1>4. CASE flow!Create(c)
    <2>1. PICK st : st = flow!NewStream(c)
        OBVIOUS
    <2>2. "comp" \in DOMAIN st /\ st.comp = <<qProg[c], qNextTag>>
        BY <2>1 DEF flow!NewStream
    <2>3. \/ UNCHANGED qStreams /\ TagsQuiet
          \/ /\ qStreams' = [qStreams EXCEPT ![c] = flow!Put(@, qNextIndex[c], st)]
             /\ qNextIndex' = [qNextIndex EXCEPT ![c] = @ + 1]
             /\ qKnown' = qKnown \cup {qProg[c]}
             /\ qComposites' = [qComposites EXCEPT ![qProg[c]] = @ \cup {st.comp}]
             /\ qNextTag' = qNextTag + 1 /\ UNCHANGED qProg
        BY <1>1, <1>4, <2>1, Zenon DEF flow!Create, flow!Publish, flow!NoStreams, flow!tagVars, TagsQuiet, Handled
    <2> QED
        BY <1>2, <1>3, <2>2, <2>3 DEF StreamMade, flow!Put
  <1>5. CASE tags!Create(c)
    <2>1. PICK st : st = tags!NewStream(c)
        OBVIOUS
    <2>2. "comp" \in DOMAIN st /\ st.comp = <<qProg[c], qNextTag>>
        BY <2>1 DEF tags!NewStream
    <2>3. \/ UNCHANGED qStreams /\ TagsQuiet
          \/ /\ qStreams' = [qStreams EXCEPT ![c] = tags!Put(@, qNextIndex[c], st)]
             /\ qNextIndex' = [qNextIndex EXCEPT ![c] = @ + 1]
             /\ qKnown' = qKnown \cup {qProg[c]}
             /\ qComposites' = [qComposites EXCEPT ![qProg[c]] = @ \cup {st.comp}]
             /\ qNextTag' = qNextTag + 1 /\ UNCHANGED qProg
        BY <1>1, <1>5, <2>1, Zenon DEF tags!Create, tags!Publish, tags!NoStreams, tags!tagVars, TagsQuiet, Handled
    <2> QED
        BY <1>2, <1>3, <2>2, <2>3 DEF StreamMade, tags!Put
  <1>6. CASE pair!Create(c)
    <2>1. PICK st : st = pair!NewStream(c)
        OBVIOUS
    <2>2. "comp" \in DOMAIN st /\ st.comp = <<qProg[c], qNextTag>>
        BY <2>1 DEF pair!NewStream
    <2>3. \/ UNCHANGED qStreams /\ TagsQuiet
          \/ /\ qStreams' = [qStreams EXCEPT ![c] = pair!Put(@, qNextIndex[c], st)]
             /\ qNextIndex' = [qNextIndex EXCEPT ![c] = @ + 1]
             /\ qKnown' = qKnown \cup {qProg[c]}
             /\ qComposites' = [qComposites EXCEPT ![qProg[c]] = @ \cup {st.comp}]
             /\ qNextTag' = qNextTag + 1 /\ UNCHANGED qProg
        BY <1>1, <1>6, <2>1, Zenon DEF pair!Create, pair!Publish, pair!NoStreams, pair!tagVars, TagsQuiet, Handled
    <2> QED
        BY <1>2, <1>3, <2>2, <2>3 DEF StreamMade, pair!Put
  <1>7. CASE fds!Create(c)
    <2>1. PICK st : st = fds!NewStream(c)
        OBVIOUS
    <2>2. "comp" \in DOMAIN st /\ st.comp = <<qProg[c], qNextTag>>
        BY <2>1 DEF fds!NewStream
    <2>3. \/ UNCHANGED qStreams /\ TagsQuiet
          \/ /\ qStreams' = [qStreams EXCEPT ![c] = fds!Put(@, qNextIndex[c], st)]
             /\ qNextIndex' = [qNextIndex EXCEPT ![c] = @ + 1]
             /\ qKnown' = qKnown \cup {qProg[c]}
             /\ qComposites' = [qComposites EXCEPT ![qProg[c]] = @ \cup {st.comp}]
             /\ qNextTag' = qNextTag + 1 /\ UNCHANGED qProg
        BY <1>1, <1>7, <2>1, Zenon DEF fds!Create, fds!Publish, fds!NoStreams, fds!tagVars, TagsQuiet, Handled
    <2> QED
        BY <1>2, <1>3, <2>2, <2>3 DEF StreamMade, fds!Put
  <1> QED
      BY <1>2, <1>4, <1>5, <1>6, <1>7

LEMMA PulseDeletes ==
  ASSUME TagInv, NEW c \in QConns,
         flow!Delete(c) \/ tags!Delete(c) \/ pair!Delete(c) \/ fds!Delete(c)
  PROVE  /\ FdClosed(c)
         /\ (PhaseKept /\ TagsQuiet /\ StreamsKept) \/ \E S : StreamsEnd(c, S)
  <1>1. Handled(c) /\ UNCHANGED qPhase /\ Closes(c)
      BY Zenon DEF flow!Delete, flow!Decode, flow!CloseFds, flow!MsgFds, flow!At, flow!Stay,
           flow!NoStreams, flow!Finish, flow!connVars, flow!tagVars, flow!fdVars,
           flow!clientVars, tags!Delete, tags!Decode, tags!CloseFds, tags!MsgFds, tags!At,
           tags!Stay, tags!NoStreams, tags!Finish, tags!connVars, tags!tagVars, tags!fdVars,
           tags!clientVars, pair!Delete, pair!Decode, pair!CloseFds, pair!MsgFds, pair!At,
           pair!Stay, pair!NoStreams, pair!Finish, pair!connVars, pair!tagVars, pair!fdVars,
           pair!clientVars, fds!Delete, fds!Decode, fds!CloseFds, fds!MsgFds, fds!At,
           fds!Stay, fds!NoStreams, fds!Finish, fds!connVars, fds!tagVars, fds!fdVars,
           fds!clientVars, Handled, Closes
  <1>2. PhaseKept /\ FdClosed(c) /\ qPhase[c] = "run"
      BY <1>1, TakenFds DEF Goes, Handled
  <1>3. CASE UNCHANGED qStreams /\ TagsQuiet
      BY <1>2, <1>3, StreamsStay
  <1>4. CASE \E s \in DOMAIN qStreams[c] :
               /\ qStreams' = [qStreams EXCEPT ![c] = flow!Drop(@, s)]
               /\ qComposites' = [qComposites EXCEPT ![qProg[c]] = @ \ {st.comp : st \in {qStreams[c][s]}}]
               /\ qKnown' = IF {qStreams[c][s]} = {} THEN qKnown ELSE qKnown \ {qProg[c]}
               /\ UNCHANGED <<qNextIndex, qNextTag, qProg>>
    <2>1. PICK s \in DOMAIN qStreams[c] :
               /\ qStreams' = [qStreams EXCEPT ![c] = flow!Drop(@, s)]
               /\ qComposites' = [qComposites EXCEPT ![qProg[c]] = @ \ {st.comp : st \in {qStreams[c][s]}}]
               /\ qKnown' = IF {qStreams[c][s]} = {} THEN qKnown ELSE qKnown \ {qProg[c]}
               /\ UNCHANGED <<qNextIndex, qNextTag, qProg>>
        BY <1>4
    <2>2. {st.comp : st \in {qStreams[c][s]}} = {qStreams[c][x].comp : x \in {s}}
        OBVIOUS
    <2>3. StreamsEnd(c, {s})
        BY <1>2, <2>1, <2>2 DEF StreamsEnd, flow!Drop, PhaseKept
    <2> QED
        BY <1>2, <2>3
  <1>5. CASE flow!Delete(c)
    <2>1. \/ UNCHANGED qStreams /\ TagsQuiet
          \/ \E s \in DOMAIN qStreams[c] :
               /\ qStreams' = [qStreams EXCEPT ![c] = flow!Drop(@, s)]
               /\ qComposites' = [qComposites EXCEPT ![qProg[c]] = @ \ {st.comp : st \in {qStreams[c][s]}}]
               /\ qKnown' = IF {qStreams[c][s]} = {} THEN qKnown ELSE qKnown \ {qProg[c]}
               /\ UNCHANGED <<qNextIndex, qNextTag, qProg>>
        BY <1>1, <1>5, Zenon DEF flow!Delete, flow!Withdraw, flow!NoStreams, flow!tagVars, flow!Drop,
           TagsQuiet, Handled
    <2> QED
        BY <1>3, <1>4, <2>1
  <1>6. CASE tags!Delete(c)
    <2>1. \/ UNCHANGED qStreams /\ TagsQuiet
          \/ \E s \in DOMAIN qStreams[c] :
               /\ qStreams' = [qStreams EXCEPT ![c] = flow!Drop(@, s)]
               /\ qComposites' = [qComposites EXCEPT ![qProg[c]] = @ \ {st.comp : st \in {qStreams[c][s]}}]
               /\ qKnown' = IF {qStreams[c][s]} = {} THEN qKnown ELSE qKnown \ {qProg[c]}
               /\ UNCHANGED <<qNextIndex, qNextTag, qProg>>
        BY <1>1, <1>6, Zenon DEF tags!Delete, tags!Withdraw, tags!NoStreams, tags!tagVars, tags!Drop, flow!Drop,
           TagsQuiet, Handled
    <2> QED
        BY <1>3, <1>4, <2>1
  <1>7. CASE pair!Delete(c)
    <2>1. \/ UNCHANGED qStreams /\ TagsQuiet
          \/ \E s \in DOMAIN qStreams[c] :
               /\ qStreams' = [qStreams EXCEPT ![c] = flow!Drop(@, s)]
               /\ qComposites' = [qComposites EXCEPT ![qProg[c]] = @ \ {st.comp : st \in {qStreams[c][s]}}]
               /\ qKnown' = IF {qStreams[c][s]} = {} THEN qKnown ELSE qKnown \ {qProg[c]}
               /\ UNCHANGED <<qNextIndex, qNextTag, qProg>>
        BY <1>1, <1>7, Zenon DEF pair!Delete, pair!Withdraw, pair!NoStreams, pair!tagVars, pair!Drop, flow!Drop,
           TagsQuiet, Handled
    <2> QED
        BY <1>3, <1>4, <2>1
  <1>8. CASE fds!Delete(c)
    <2>1. \/ UNCHANGED qStreams /\ TagsQuiet
          \/ \E s \in DOMAIN qStreams[c] :
               /\ qStreams' = [qStreams EXCEPT ![c] = flow!Drop(@, s)]
               /\ qComposites' = [qComposites EXCEPT ![qProg[c]] = @ \ {st.comp : st \in {qStreams[c][s]}}]
               /\ qKnown' = IF {qStreams[c][s]} = {} THEN qKnown ELSE qKnown \ {qProg[c]}
               /\ UNCHANGED <<qNextIndex, qNextTag, qProg>>
        BY <1>1, <1>8, Zenon DEF fds!Delete, fds!Withdraw, fds!NoStreams, fds!tagVars, fds!Drop, flow!Drop,
           TagsQuiet, Handled
    <2> QED
        BY <1>3, <1>4, <2>1
  <1> QED
      BY <1>5, <1>6, <1>7, <1>8

LEMMA OneStreamChanges ==
  ASSUME TagInv, NEW c \in QConns, NEW s \in DOMAIN qStreams[c], NEW st,
         SameName(qStreams[c][s], st), qStreams' = [qStreams EXCEPT ![c][s] = st]
  PROVE  StreamsKept
  <1>1. PICK g : g = [qStreams[c] EXCEPT ![s] = st]
      OBVIOUS
  <1>2. \A x \in DOMAIN qStreams[c] : SameName(qStreams[c][x], qStreams[c][x])
      BY DEF TagInv, TagTypes, SameName
  <1>3. DOMAIN g = DOMAIN qStreams[c] /\ \A x \in DOMAIN qStreams[c] : SameName(qStreams[c][x], g[x])
      BY <1>1, <1>2
  <1>4. qStreams' = [qStreams EXCEPT ![c] = g]
      BY <1>1
  <1> QED
      BY <1>3, <1>4, StreamsChange

LEMMA PulseChanges ==
  ASSUME TagInv, NEW c \in QConns, NEW op,
         flow!Change(c, op) \/ tags!Change(c, op) \/ pair!Change(c, op) \/ fds!Change(c, op)
  PROVE  PhaseKept /\ TagsQuiet /\ StreamsKept /\ FdClosed(c)
  <1>1. Handled(c) /\ UNCHANGED qPhase /\ Closes(c) /\ TagsQuiet
      BY Zenon DEF flow!Change, flow!Decode, flow!CloseFds, flow!MsgFds, flow!At, flow!Stay,
           flow!NoStreams, flow!Finish, flow!connVars, flow!tagVars, flow!fdVars,
           flow!clientVars, tags!Change, tags!Decode, tags!CloseFds, tags!MsgFds, tags!At,
           tags!Stay, tags!NoStreams, tags!Finish, tags!connVars, tags!tagVars, tags!fdVars,
           tags!clientVars, pair!Change, pair!Decode, pair!CloseFds, pair!MsgFds, pair!At,
           pair!Stay, pair!NoStreams, pair!Finish, pair!connVars, pair!tagVars, pair!fdVars,
           pair!clientVars, fds!Change, fds!Decode, fds!CloseFds, fds!MsgFds, fds!At,
           fds!Stay, fds!NoStreams, fds!Finish, fds!connVars, fds!tagVars, fds!fdVars,
           fds!clientVars, TagsQuiet, Handled, Closes
  <1>2. PhaseKept /\ FdClosed(c)
      BY <1>1, TakenFds DEF Goes
  <1>3. \/ UNCHANGED qStreams
        \/ \E s \in DOMAIN qStreams[c] : \E st :
             SameName(qStreams[c][s], st) /\ qStreams' = [qStreams EXCEPT ![c][s] = st]
    <2>1. \A s \in DOMAIN qStreams[c] : "comp" \in DOMAIN qStreams[c][s]
        BY DEF TagInv, TagTypes
    <2>2. CASE flow!Change(c, op)
      <3>1. \/ UNCHANGED qStreams
            \/ \E s \in DOMAIN qStreams[c] :
                 qStreams' = [qStreams EXCEPT ![c][s] = flow!Changed(op, qStreams[c][s])]
          BY <2>2, Zenon DEF flow!Change
      <3> QED
          BY <2>1, <3>1, ChangeKeepsName
    <2>3. CASE tags!Change(c, op)
      <3>1. \/ UNCHANGED qStreams
            \/ \E s \in DOMAIN qStreams[c] :
                 qStreams' = [qStreams EXCEPT ![c][s] = tags!Changed(op, qStreams[c][s])]
          BY <2>3, Zenon DEF tags!Change
      <3> QED
          BY <2>1, <3>1, ChangeKeepsName
    <2>4. CASE pair!Change(c, op)
      <3>1. \/ UNCHANGED qStreams
            \/ \E s \in DOMAIN qStreams[c] :
                 qStreams' = [qStreams EXCEPT ![c][s] = pair!Changed(op, qStreams[c][s])]
          BY <2>4, Zenon DEF pair!Change
      <3> QED
          BY <2>1, <3>1, ChangeKeepsName
    <2>5. CASE fds!Change(c, op)
      <3>1. \/ UNCHANGED qStreams
            \/ \E s \in DOMAIN qStreams[c] :
                 qStreams' = [qStreams EXCEPT ![c][s] = fds!Changed(op, qStreams[c][s])]
          BY <2>5, Zenon DEF fds!Change
      <3> QED
          BY <2>1, <3>1, ChangeKeepsName
    <2> QED
        BY <2>2, <2>3, <2>4, <2>5
  <1> QED
      BY <1>1, <1>2, <1>3, StreamsStay, OneStreamChanges

LEMMA PulsePlays ==
  ASSUME TagInv, NEW c \in QConns,
         flow!Data(c) \/ tags!Data(c) \/ pair!Data(c) \/ fds!Data(c)
  PROVE  PhaseKept /\ TagsQuiet /\ StreamsKept /\ FdClosed(c)
  <1>1. Handled(c) /\ Goes(c) /\ Closes(c) /\ TagsQuiet
      BY Zenon DEF flow!Data, flow!Decode, flow!CloseFds, flow!MsgFds, flow!At, flow!Stay,
           flow!NoStreams, flow!Finish, flow!connVars, flow!tagVars, flow!fdVars,
           flow!clientVars, tags!Data, tags!Decode, tags!CloseFds, tags!MsgFds, tags!At,
           tags!Stay, tags!NoStreams, tags!Finish, tags!connVars, tags!tagVars, tags!fdVars,
           tags!clientVars, pair!Data, pair!Decode, pair!CloseFds, pair!MsgFds, pair!At,
           pair!Stay, pair!NoStreams, pair!Finish, pair!connVars, pair!tagVars, pair!fdVars,
           pair!clientVars, fds!Data, fds!Decode, fds!CloseFds, fds!MsgFds, fds!At, fds!Stay,
           fds!NoStreams, fds!Finish, fds!connVars, fds!tagVars, fds!fdVars, fds!clientVars, TagsQuiet, Handled, Goes, Closes
  <1>2. PhaseKept /\ FdClosed(c)
      BY <1>1, TakenFds
  <1>3. \/ UNCHANGED qStreams
        \/ \E s \in DOMAIN qStreams[c] : \E st :
             SameName(qStreams[c][s], st) /\ qStreams' = [qStreams EXCEPT ![c][s] = st]
    <2>1. \A s \in DOMAIN qStreams[c] : "comp" \in DOMAIN qStreams[c][s]
        BY DEF TagInv, TagTypes
    <2>2. CASE flow!Data(c)
      <3>1. \/ UNCHANGED qStreams
            \/ \E s \in DOMAIN qStreams[c] : \E n :
                 qStreams' = [qStreams EXCEPT ![c][s] = flow!Chunked(qStreams[c][s], n)]
          BY <2>2, Zenon DEF flow!Data
      <3> QED
          BY <2>1, <3>1, ChunkKeepsName
    <2>3. CASE tags!Data(c)
      <3>1. \/ UNCHANGED qStreams
            \/ \E s \in DOMAIN qStreams[c] : \E n :
                 qStreams' = [qStreams EXCEPT ![c][s] = tags!Chunked(qStreams[c][s], n)]
          BY <2>3, Zenon DEF tags!Data
      <3> QED
          BY <2>1, <3>1, ChunkKeepsName
    <2>4. CASE pair!Data(c)
      <3>1. \/ UNCHANGED qStreams
            \/ \E s \in DOMAIN qStreams[c] : \E n :
                 qStreams' = [qStreams EXCEPT ![c][s] = pair!Chunked(qStreams[c][s], n)]
          BY <2>4, Zenon DEF pair!Data
      <3> QED
          BY <2>1, <3>1, ChunkKeepsName
    <2>5. CASE fds!Data(c)
      <3>1. \/ UNCHANGED qStreams
            \/ \E s \in DOMAIN qStreams[c] : \E n :
                 qStreams' = [qStreams EXCEPT ![c][s] = fds!Chunked(qStreams[c][s], n)]
          BY <2>5, Zenon DEF fds!Data
      <3> QED
          BY <2>1, <3>1, ChunkKeepsName
    <2> QED
        BY <2>2, <2>3, <2>4, <2>5
  <1> QED
      BY <1>1, <1>2, <1>3, StreamsStay, OneStreamChanges

LEMMA PulseKeepsMemory ==
  ASSUME TagInv, FdInv, NEW c \in QConns,
         flow!Memfd(c) \/ tags!Memfd(c) \/ pair!Memfd(c) \/ fds!Memfd(c)
  PROVE  PhaseKept /\ TagsQuiet /\ StreamsKept /\ (FdClosed(c) \/ \E i : FdPooled(c, i))
  <1>1. Handled(c) /\ Goes(c) /\ TagsQuiet /\ UNCHANGED qStreams
      BY Zenon DEF flow!Memfd, flow!MemfdIgnored, flow!MemfdMissing, flow!MemfdKept, flow!Decode,
           flow!CloseFds, flow!MsgFds, flow!At, flow!Stay, flow!NoStreams, flow!Finish,
           flow!connVars, flow!tagVars, flow!fdVars, flow!clientVars, tags!Memfd,
           tags!MemfdIgnored, tags!MemfdMissing, tags!MemfdKept, tags!Decode, tags!CloseFds,
           tags!MsgFds, tags!At, tags!Stay, tags!NoStreams, tags!Finish, tags!connVars,
           tags!tagVars, tags!fdVars, tags!clientVars, pair!Memfd, pair!MemfdIgnored,
           pair!MemfdMissing, pair!MemfdKept, pair!Decode, pair!CloseFds, pair!MsgFds,
           pair!At, pair!Stay, pair!NoStreams, pair!Finish, pair!connVars, pair!tagVars,
           pair!fdVars, pair!clientVars, fds!Memfd, fds!MemfdIgnored, fds!MemfdMissing,
           fds!MemfdKept, fds!Decode, fds!CloseFds, fds!MsgFds, fds!At, fds!Stay,
           fds!NoStreams, fds!Finish, fds!connVars, fds!tagVars, fds!fdVars, fds!clientVars, TagsQuiet, Handled, Goes
  <1>2. PhaseKept /\ FdTaken(c) /\ (Closes(c) => FdClosed(c)) /\ StreamsKept
      BY <1>1, TakenFds, StreamsStay
  <1>3. CASE flow!Memfd(c)
    <2>1. CASE flow!MemfdIgnored(c) \/ flow!MemfdMissing(c)
      <3>1. Closes(c)
          BY <2>1, Zenon DEF flow!MemfdIgnored, flow!MemfdMissing, flow!CloseFds, flow!MsgFds, Closes
      <3> QED
          BY <1>1, <1>2, <3>1
    <2>2. CASE flow!MemfdKept(c)
      <3>1. PICK i : i = flow!Msg(c).n
          OBVIOUS
      <3>2. PICK h : h = IF qPendingFds[c] = <<>> THEN {} ELSE Head(qPendingFds[c])
          OBVIOUS
      <3>3. /\ h # {} /\ qClosed' = qClosed \cup {qPools[c][j] : j \in {i} \cap DOMAIN qPools[c]}
            /\ qPools' = [qPools EXCEPT ![c] = flow!Put(@, i, CHOOSE f \in h : TRUE)]
          BY <2>2, <3>1, <3>2, Zenon DEF flow!MemfdKept, flow!MsgFds
      <3>4. (CHOOSE f \in h : TRUE) \in h
          BY <3>3
      <3>5. qPendingFds[c] # <<>> /\ h = Head(qPendingFds[c])
          BY <3>2, <3>3
      <3>6. FdPooled(c, i)
          BY <1>2, <3>3, <3>4, <3>5 DEF FdPooled, flow!Put
      <3> QED
          BY <1>1, <1>2, <3>6
    <2>3. flow!MemfdIgnored(c) \/ flow!MemfdMissing(c) \/ flow!MemfdKept(c)
        BY <1>3, Zenon DEF flow!Memfd
    <2> QED
        BY <2>1, <2>2, <2>3
  <1>4. CASE tags!Memfd(c)
    <2>1. CASE tags!MemfdIgnored(c) \/ tags!MemfdMissing(c)
      <3>1. Closes(c)
          BY <2>1, Zenon DEF tags!MemfdIgnored, tags!MemfdMissing, tags!CloseFds, tags!MsgFds, Closes
      <3> QED
          BY <1>1, <1>2, <3>1
    <2>2. CASE tags!MemfdKept(c)
      <3>1. PICK i : i = tags!Msg(c).n
          OBVIOUS
      <3>2. PICK h : h = IF qPendingFds[c] = <<>> THEN {} ELSE Head(qPendingFds[c])
          OBVIOUS
      <3>3. /\ h # {} /\ qClosed' = qClosed \cup {qPools[c][j] : j \in {i} \cap DOMAIN qPools[c]}
            /\ qPools' = [qPools EXCEPT ![c] = tags!Put(@, i, CHOOSE f \in h : TRUE)]
          BY <2>2, <3>1, <3>2, Zenon DEF tags!MemfdKept, tags!MsgFds
      <3>4. (CHOOSE f \in h : TRUE) \in h
          BY <3>3
      <3>5. qPendingFds[c] # <<>> /\ h = Head(qPendingFds[c])
          BY <3>2, <3>3
      <3>6. FdPooled(c, i)
          BY <1>2, <3>3, <3>4, <3>5 DEF FdPooled, tags!Put
      <3> QED
          BY <1>1, <1>2, <3>6
    <2>3. tags!MemfdIgnored(c) \/ tags!MemfdMissing(c) \/ tags!MemfdKept(c)
        BY <1>4, Zenon DEF tags!Memfd
    <2> QED
        BY <2>1, <2>2, <2>3
  <1>5. CASE pair!Memfd(c)
    <2>1. CASE pair!MemfdIgnored(c) \/ pair!MemfdMissing(c)
      <3>1. Closes(c)
          BY <2>1, Zenon DEF pair!MemfdIgnored, pair!MemfdMissing, pair!CloseFds, pair!MsgFds, Closes
      <3> QED
          BY <1>1, <1>2, <3>1
    <2>2. CASE pair!MemfdKept(c)
      <3>1. PICK i : i = pair!Msg(c).n
          OBVIOUS
      <3>2. PICK h : h = IF qPendingFds[c] = <<>> THEN {} ELSE Head(qPendingFds[c])
          OBVIOUS
      <3>3. /\ h # {} /\ qClosed' = qClosed \cup {qPools[c][j] : j \in {i} \cap DOMAIN qPools[c]}
            /\ qPools' = [qPools EXCEPT ![c] = pair!Put(@, i, CHOOSE f \in h : TRUE)]
          BY <2>2, <3>1, <3>2, Zenon DEF pair!MemfdKept, pair!MsgFds
      <3>4. (CHOOSE f \in h : TRUE) \in h
          BY <3>3
      <3>5. qPendingFds[c] # <<>> /\ h = Head(qPendingFds[c])
          BY <3>2, <3>3
      <3>6. FdPooled(c, i)
          BY <1>2, <3>3, <3>4, <3>5 DEF FdPooled, pair!Put
      <3> QED
          BY <1>1, <1>2, <3>6
    <2>3. pair!MemfdIgnored(c) \/ pair!MemfdMissing(c) \/ pair!MemfdKept(c)
        BY <1>5, Zenon DEF pair!Memfd
    <2> QED
        BY <2>1, <2>2, <2>3
  <1>6. CASE fds!Memfd(c)
    <2>1. CASE fds!MemfdIgnored(c) \/ fds!MemfdMissing(c)
      <3>1. Closes(c)
          BY <2>1, Zenon DEF fds!MemfdIgnored, fds!MemfdMissing, fds!CloseFds, fds!MsgFds, Closes
      <3> QED
          BY <1>1, <1>2, <3>1
    <2>2. CASE fds!MemfdKept(c)
      <3>1. PICK i : i = fds!Msg(c).n
          OBVIOUS
      <3>2. PICK h : h = IF qPendingFds[c] = <<>> THEN {} ELSE Head(qPendingFds[c])
          OBVIOUS
      <3>3. /\ h # {} /\ qClosed' = qClosed \cup {qPools[c][j] : j \in {i} \cap DOMAIN qPools[c]}
            /\ qPools' = [qPools EXCEPT ![c] = fds!Put(@, i, CHOOSE f \in h : TRUE)]
          BY <2>2, <3>1, <3>2, Zenon DEF fds!MemfdKept, fds!MsgFds
      <3>4. (CHOOSE f \in h : TRUE) \in h
          BY <3>3
      <3>5. qPendingFds[c] # <<>> /\ h = Head(qPendingFds[c])
          BY <3>2, <3>3
      <3>6. FdPooled(c, i)
          BY <1>2, <3>3, <3>4, <3>5 DEF FdPooled, fds!Put
      <3> QED
          BY <1>1, <1>2, <3>6
    <2>3. fds!MemfdIgnored(c) \/ fds!MemfdMissing(c) \/ fds!MemfdKept(c)
        BY <1>6, Zenon DEF fds!Memfd
    <2> QED
        BY <2>1, <2>2, <2>3
  <1> QED
      BY <1>1, <1>2, <1>3, <1>4, <1>5, <1>6

LEMMA PulseDoes ==
  ASSUME TagInv, FdInv,
         \/ kind = "flow" /\ flow!Next
         \/ kind = "tags" /\ tags!Next
         \/ kind = "pair" /\ pair!Next
         \/ kind = "fds" /\ fds!Next
  PROVE  TagStep /\ FdStep
  <1> DEFINE Quiet == PhaseKept /\ TagsQuiet /\ StreamsKept
             Loops(c) == \/ Quiet /\ (FdsQuiet \/ FdReceived(c) \/ FdClosed(c) \/ \E i : FdPooled(c, i))
                         \/ FdClosed(c) /\ (Quiet \/ (\E st : StreamMade(c, st)) \/ \E S : StreamsEnd(c, S))
             Does(c) == \/ Loops(c)
                        \/ Quiet /\ \E m : FdSent(c, m)
                        \/ StreamsEnd(c, DOMAIN qStreams[c]) /\ FdsEnd(c)
  <1>1. ASSUME NEW c \in QConns, flow!Loop(c) \/ tags!Loop(c) \/ pair!Loop(c) \/ fds!Loop(c)
        PROVE  Loops(c)
    <2>1. ASSUME flow!Process(c) \/ tags!Process(c) \/ pair!Process(c) \/ fds!Process(c)
          PROVE  Loops(c)
        BY <2>1, PulseAnswers, PulseCreates, PulseDeletes, PulseChanges, PulsePlays,
           PulseKeepsMemory, Zenon
           DEF flow!Process, tags!Process, pair!Process, fds!Process
    <2> QED
        BY <1>1, <2>1, PulseEnds, PulseIdles, PulseReceives, PulsePasses, Zenon
           DEF flow!Loop, tags!Loop, pair!Loop, fds!Loop
  <1>2. (Quiet /\ FdsQuiet) \/ \E c \in QConns : Does(c)
    <2>1. CASE kind = "flow" /\ flow!Next
      <3>1. QConns = {"c"}
          BY <2>1 DEF QConns
      <3> QED
          BY <1>1, <2>1, <3>1, PulseStops, PulseSends, PulseEnds, PulseAccepts, PulseDestroys, Zenon
             DEF flow!Next
    <2>2. CASE kind = "tags" /\ tags!Next
      <3>1. QConns = TagConns
          BY <2>2 DEF QConns
      <3> QED
          BY <1>1, <2>2, <3>1, PulseStops, PulseSends, PulseEnds, PulseAccepts, PulseDestroys, Zenon
             DEF tags!Next
    <2>3. CASE kind = "pair" /\ pair!Next
      <3>1. QConns = PairConns
          BY <2>3 DEF QConns
      <3> QED
          BY <1>1, <2>3, <3>1, PulseStops, PulseSends, PulseEnds, PulseAccepts, PulseDestroys, Zenon
             DEF pair!Next
    <2>4. CASE kind = "fds" /\ fds!Next
      <3>1. QConns = FdConns
          BY <2>4 DEF QConns
      <3> QED
          BY <1>1, <2>4, <3>1, PulseStops, PulseSends, PulseEnds, PulseAccepts, PulseDestroys, Zenon
             DEF fds!Next
    <2> QED
        BY <2>1, <2>2, <2>3, <2>4
  <1>3. TagStep
      BY <1>2, Zenon DEF TagStep
  <1>4. FdStep
      BY <1>2, Zenon DEF FdStep
  <1> QED
      BY <1>3, <1>4

LEMMA PulseStep ==
  ASSUME TagInv, FdInv, [AllNext]_allVars
  PROVE  TagInv' /\ FdInv'
  <1>1. kind' = kind
      BY Apart
  <1>2. TagStep /\ FdStep
    <2>1. CASE UNCHANGED pulseVars
      <3>1. UNCHANGED <<qPhase, qStreams>> /\ TagsQuiet /\ FdsQuiet
          BY <2>1, Zenon DEF pulseVars, TagsQuiet, FdsQuiet
      <3> QED
          BY <3>1, PhasesStay, StreamsStay DEF TagStep, FdStep
    <2> QED
        BY <2>1, Apart, PulseDoes
  <1>3. TagInv'
      BY <1>1, <1>2, TagKept, TagMade, TagEnded, Zenon DEF TagStep
  <1>4. FdInv'
      BY <1>1, <1>2, FdKept, FdSends, FdReceives, FdCloses, FdPools, FdsDropped, Zenon DEF FdStep
  <1> QED
      BY <1>3, <1>4

LEMMA PulseInvariance == AllSpec => [](TagInv /\ FdInv)
  <1>1. TagInv /\ FdInv /\ [AllNext]_allVars => (TagInv /\ FdInv)'
      BY PulseStep
  <1>2. AllInit => TagInv /\ FdInv
      BY TagBegins, FdBegins
  <1> QED
      BY <1>1, <1>2, PTL DEF AllSpec

(* note_tag_seen, register_tag_mapping and their reverse, called as streams  *)
(* come and go on all connections: a wildcard tag stands for exactly the     *)
(* streams that its programs play, and no program is announced that plays    *)
(* none - for any clients, programs, streams and limit of connections.       *)
THEOREM TagsAreTrue == AllSpec => []TagsMatchStreams
  <1>1. TagInv => TagsMatchStreams
    <2> SUFFICES ASSUME TagInv PROVE TagsMatchStreams
        OBVIOUS
    <2>1. \A c \in QConns : {st.comp : st \in {qStreams[c][s] : s \in DOMAIN qStreams[c]}} = Names(c)
        BY DEF Names
    <2>2. \A c \in QConns : qPhase[c] \in {"run", "finished"} \/ Names(c) = {}
        BY DEF TagInv, TagTypes, NamesPublished, Names, Phases, Away
    <2>3. \A p \in PulsePrograms :
            qComposites[p] = UNION {{st.comp : st \in {qStreams[c][s] : s \in DOMAIN qStreams[c]}} :
              c \in {d \in {e \in QConns : qPhase[e] \in {"run", "finished"}} : qProg[d] = p}}
      <3> SUFFICES ASSUME NEW p \in PulsePrograms
                   PROVE  qComposites[p] = UNION {Names(c) :
                            c \in {d \in {e \in QConns : qPhase[e] \in {"run", "finished"}} : qProg[d] = p}}
          BY <2>1
      <3>1. qComposites[p] = UNION {Names(c) : c \in {d \in QConns : qProg[d] = p}}
          BY DEF TagInv, NamesPublished
      <3> QED
          BY <2>2, <3>1
    <2>4. \A p \in qKnown : qComposites[p] # {}
        BY DEF TagInv, NamesPublished
    <2>5. CASE kind = "flow"
      <3>1. QConns = {"c"}
          BY <2>5 DEF QConns
      <3> QED
          BY <2>3, <2>4, <2>5, <3>1, Zenon DEF TagsMatchStreams, flow!TagsMatchStreams, flow!Live, flow!Fds
    <2>6. CASE kind = "tags"
      <3>1. QConns = TagConns
          BY <2>6 DEF QConns
      <3> QED
          BY <2>3, <2>4, <2>6, <3>1, Zenon DEF TagsMatchStreams, tags!TagsMatchStreams, tags!Live, tags!Fds
    <2>7. CASE kind = "pair"
      <3>1. QConns = PairConns
          BY <2>7 DEF QConns
      <3> QED
          BY <2>3, <2>4, <2>7, <3>1, Zenon DEF TagsMatchStreams, pair!TagsMatchStreams, pair!Live, pair!Fds
    <2>8. CASE kind = "fds"
      <3>1. QConns = FdConns
          BY <2>8 DEF QConns
      <3> QED
          BY <2>3, <2>4, <2>8, <3>1, Zenon DEF TagsMatchStreams, fds!TagsMatchStreams, fds!Live, fds!Fds
    <2> QED
        BY <2>5, <2>6, <2>7, <2>8 DEF TagsMatchStreams
  <1> QED
      BY <1>1, PulseInvariance, PTL

(* handle_read, handle_register_memfd, close_fd_vector and ~Connection: a    *)
(* file descriptor that a client passed is on its way, waits for its message,*)
(* is the memory of one pool, or was closed - one of these, and never again  *)
(* two - whatever the messages and however the connection ends.              *)
THEOREM FdsAreAccounted == AllSpec => []FdsAccounted
  <1>1. FdInv => FdsAccounted
    <2> SUFFICES ASSUME FdInv PROVE FdsAccounted
        OBVIOUS
    <2> DEFINE pend(c) == UNION {qPendingFds[c][i] : i \in DOMAIN qPendingFds[c]}
               pool(c) == {qPools[c][i] : i \in DOMAIN qPools[c]}
               wire(c) == UNION {qSocket[c][i].fds : i \in DOMAIN qSocket[c]}
    <2>1. PICK at : PlacedBy(at)
        BY DEF FdInv
    <2>2. \A c \in QConns : /\ wire(c) = {f \in 1 .. qOpened : at[f] = OnWire(c)}
                            /\ pend(c) = {f \in 1 .. qOpened : at[f] = InHand(c)}
      <3>1. \A c \in QConns : wire(c) = Content(Wire(c))
          BY DEF Content, Wire, Brought
      <3>2. \A c \in QConns : pend(c) = Content(qPendingFds[c])
          BY DEF Content
      <3> QED
          BY <2>1, <3>1, <3>2, Zenon DEF PlacedBy
    <2>3. \A c \in QConns : \A f : f \in pool(c) <=> f \in 1 .. qOpened /\ \E i : at[f] = InPool(c, i)
      <3>1. \A c \in QConns : \A i : {f \in 1 .. qOpened : at[f] = InPool(c, i)}
                                       = IF i \in DOMAIN qPools[c] THEN {qPools[c][i]} ELSE {}
          BY <2>1 DEF PlacedBy
      <3> QED
          BY <3>1
    <2>4. qClosed = {f \in 1 .. qOpened : at[f] = Nowhere} /\ \A f \in 1 .. qOpened : IsPlace(at[f])
        BY <2>1 DEF PlacedBy
    <2> HIDE DEF pend, pool, wire
    <2>5. \A c \in QConns : (pend(c) \cup pool(c)) \cap qClosed = {} /\ pend(c) \cap pool(c) = {}
        BY <2>2, <2>3, <2>4, PlacesDiffer
    <2>6. \A c \in QConns : qPhase[c] = "gone" => pend(c) \cup pool(c) = {}
        BY DEF FdInv, AwayHasNone, Away, pend, pool
    <2>7. \A f \in 1 .. qOpened : f \in qClosed \/ \E c \in QConns : f \in pend(c) \cup pool(c) \/ f \in wire(c)
        BY <2>2, <2>3, <2>4 DEF IsPlace
    <2>8. /\ (UNION {pend(c) \cup pool(c) : c \in QConns}) \cap qClosed = {}
          /\ \A c \in QConns : /\ pend(c) \cap pool(c) = {}
                               /\ qPhase[c] = "gone" => pend(c) \cup pool(c) = {}
          /\ (1 .. qOpened) \ (qClosed \cup UNION {pend(c) \cup pool(c) : c \in QConns})
               \subseteq UNION {m.fds : m \in UNION {{qSocket[c][i] : i \in DOMAIN qSocket[c]} : c \in QConns}}
      <3>1. \A c \in QConns : \A f \in wire(c) :
              f \in UNION {m.fds : m \in UNION {{qSocket[d][i] : i \in DOMAIN qSocket[d]} : d \in QConns}}
          BY DEF wire
      <3> QED
          BY <2>5, <2>6, <2>7, <3>1
    <2>9. CASE kind = "flow"
      <3>1. QConns = {"c"}
          BY <2>9 DEF QConns
      <3> QED
          BY <2>8, <2>9, <3>1, Zenon DEF FdsAccounted, flow!FdsAccounted, flow!Held, flow!Fds, flow!Range, pend, pool
    <2>10. CASE kind = "tags"
      <3>1. QConns = TagConns
          BY <2>10 DEF QConns
      <3> QED
          BY <2>8, <2>10, <3>1, Zenon DEF FdsAccounted, tags!FdsAccounted, tags!Held, tags!Fds, tags!Range, pend, pool
    <2>11. CASE kind = "pair"
      <3>1. QConns = PairConns
          BY <2>11 DEF QConns
      <3> QED
          BY <2>8, <2>11, <3>1, Zenon DEF FdsAccounted, pair!FdsAccounted, pair!Held, pair!Fds, pair!Range, pend, pool
    <2>12. CASE kind = "fds"
      <3>1. QConns = FdConns
          BY <2>12 DEF QConns
      <3> QED
          BY <2>8, <2>12, <3>1, Zenon DEF FdsAccounted, fds!FdsAccounted, fds!Held, fds!Fds, fds!Range, pend, pool
    <2> QED
        BY <2>9, <2>10, <2>11, <2>12 DEF FdsAccounted
  <1> QED
      BY <1>1, PulseInvariance, PTL
=============================================================================
