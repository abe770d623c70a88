----------------------- MODULE TimeshiftRunLoopProofs -----------------------
(* On their way from add_packet to the timeshift buffer the packets of a     *)
(* receiver stay in order, and the thread that ingests them never sleeps on  *)
(* a packet it was not told of: for any receivers and any number of packets. *)
EXTENDS TimeshiftRunLoop, SequenceTheorems, TLAPS

(* The number of packets a receiver offers is bounded by a sum over all of   *)
(* them; here they are any.                                                  *)
Numbered == Receiver \X Nat

(* What has been accepted and has not reached the buffer.                    *)
Pending == batch \o queue

Types == /\ stop_flag_ \in BOOLEAN /\ version \in Nat /\ seen \in 0 .. version
         /\ queue \in Seq(Numbered) /\ batch \in Seq(Numbered) /\ buffer \in Seq(Numbered)
         /\ offered \in [Receiver -> Nat]
         /\ pcR \in [Receiver -> {"idle", "route", "direct", "push", "bump", "notify"}]

(* Nothing is queued before the thread is started.                           *)
NotStarted == pcS = "new" => /\ queue = <<>> /\ batch = <<>> /\ pcT = "none" /\ ~stop_flag_
                             /\ \A r \in Receiver : pcR[r] # "push"

(* The packet a receiver has in hand is newer than all its packets accepted. *)
InHand == {"route", "direct", "push"}
Newest == \A i \in DOMAIN Accepted :
            LET r == Accepted[i][1]
                n == Accepted[i][2]
            IN  n <= offered[r] /\ (pcR[r] \in InHand => n < offered[r])

(* A receiver that found the engine not yet running has queued nothing, even *)
(* when the engine has been started meanwhile.                               *)
DirectFirst == ~stop_flag_ => \A r \in Receiver : pcR[r] = "direct" =>
                                \A i \in DOMAIN Pending : Pending[i][1] # r

(* What came in after the thread drained the queue has moved the version, or *)
(* is about to.                                                              *)
Told == pcT \in {"ingest", "wait", "block", "blocked"} /\ queue # <<>> =>
          version # seen \/ \E r \in Receiver : pcR[r] = "bump"

LInv == Types /\ NotStarted /\ Newest /\ DirectFirst /\ ReceiverOrder /\ Told
-----------------------------------------------------------------------------
(* Moving the head of t to the end of s leaves s \o t as it is.              *)
LEMMA Moved ==
  ASSUME NEW S, NEW s \in Seq(S), NEW t \in Seq(S), t # <<>>
  PROVE  Append(s, Head(t)) \o Tail(t) = s \o t
  <1>1. Head(t) \in S /\ Tail(t) \in Seq(S) /\ <<Head(t)>> \in Seq(S)
      BY HeadTailProperties
  <1>2. Append(s, Head(t)) = s \o <<Head(t)>>
      BY <1>1, AppendIsConcat, Zenon
  <1>3. <<Head(t)>> \o Tail(t) = t
    <2>1. /\ Len(Tail(t)) = Len(t) - 1 /\ Len(t) \in Nat /\ Len(t) > 0
          /\ \A i \in 1 .. Len(Tail(t)) : Tail(t)[i] = t[i + 1]
        BY HeadTailProperties, EmptySeq, LenProperties
    <2>2. /\ <<Head(t)>> \o Tail(t) \in Seq(S)
          /\ Len(<<Head(t)>> \o Tail(t)) = Len(<<Head(t)>>) + Len(Tail(t))
          /\ \A i \in 1 .. Len(<<Head(t)>>) + Len(Tail(t)) :
               (<<Head(t)>> \o Tail(t))[i] = IF i <= Len(<<Head(t)>>) THEN <<Head(t)>>[i]
                                             ELSE Tail(t)[i - Len(<<Head(t)>>)]
        BY <1>1, ConcatProperties, Zenon
    <2>3. Len(<<Head(t)>>) = 1 /\ <<Head(t)>>[1] = t[1]
        OBVIOUS
    <2>4. \A i \in 1 .. Len(t) : (<<Head(t)>> \o Tail(t))[i] = t[i]
        BY <2>1, <2>2, <2>3
    <2> QED
        BY <2>1, <2>2, <2>3, <2>4, SeqEqual
  <1> QED
      BY <1>1, <1>2, <1>3, ConcatAssociative

(* Appending to t appends to s \o t.                                         *)
LEMMA Grown ==
  ASSUME NEW S, NEW s \in Seq(S), NEW t \in Seq(S), NEW e \in S
  PROVE  s \o Append(t, e) = Append(s \o t, e)
  <1>1. /\ Append(t, e) = t \o <<e>> /\ <<e>> \in Seq(S) /\ s \o t \in Seq(S)
        /\ Append(s \o t, e) = (s \o t) \o <<e>>
      BY AppendIsConcat, ConcatProperties
  <1> QED
      BY <1>1, ConcatAssociative, SMTT(30)

(* Every packet accepted is ingested already or pending.                     *)
LEMMA Parts ==
  ASSUME Types
  PROVE  /\ Pending \in Seq(Numbered) /\ Accepted = buffer \o Pending
         /\ Accepted \in Seq(Numbered) /\ DOMAIN Accepted = 1 .. Len(Accepted)
         /\ DOMAIN Pending = 1 .. Len(Pending)
         /\ Len(Accepted) \in Nat /\ Len(buffer) \in Nat /\ Len(Pending) \in Nat
         /\ Len(Accepted) = Len(buffer) + Len(Pending)
         /\ \A i \in 1 .. Len(Accepted) :
              Accepted[i] = IF i <= Len(buffer) THEN buffer[i] ELSE Pending[i - Len(buffer)]
  <1>1. buffer \in Seq(Numbered) /\ batch \in Seq(Numbered) /\ queue \in Seq(Numbered)
      BY DEF Types
  <1>2. Pending \in Seq(Numbered) /\ Accepted = buffer \o Pending
      BY <1>1, ConcatProperties, ConcatAssociative DEF Pending, Accepted
  <1>3. /\ Accepted \in Seq(Numbered)
        /\ Len(Accepted) = Len(buffer) + Len(Pending)
        /\ \A i \in 1 .. Len(buffer) + Len(Pending) :
             Accepted[i] = IF i <= Len(buffer) THEN buffer[i] ELSE Pending[i - Len(buffer)]
      BY <1>1, <1>2, ConcatProperties, Zenon
  <1> QED
      BY <1>1, <1>2, <1>3, LenProperties

-----------------------------------------------------------------------------
LEMMA LInit == Init => LInv
  <1> SUFFICES ASSUME Init PROVE LInv
      OBVIOUS
  <1>1. Types
    <2>1. stop_flag_ \in BOOLEAN
        BY Zenon DEF Init
    <2>2. /\ version \in Nat /\ seen \in 0 .. version /\ offered \in [Receiver -> Nat]
          /\ queue \in Seq(Numbered) /\ batch \in Seq(Numbered) /\ buffer \in Seq(Numbered)
        BY DEF Init
    <2>3. pcR \in [Receiver -> {"idle", "route", "direct", "push", "bump", "notify"}]
        BY DEF Init
    <2> QED
        BY <2>1, <2>2, <2>3 DEF Types
  <1>2. Accepted = <<>> /\ Pending = <<>>
    <2>1. buffer = <<>> /\ batch = <<>> /\ queue = <<>>
        BY DEF Init
    <2>2. <<>> \o <<>> = <<>>
        BY ConcatEmptySeq, EmptySeq
    <2> QED
        BY <2>1, <2>2 DEF Accepted, Pending
  <1>3. NotStarted /\ Told
      BY DEF Init, NotStarted, Told
  <1>4. Newest /\ DirectFirst /\ ReceiverOrder
      BY <1>2 DEF Newest, DirectFirst, ReceiverOrder
  <1> QED
      BY <1>1, <1>3, <1>4 DEF LInv

(* A step that accepts no packet, and whose receiver takes none in hand that *)
(* it had not, disturbs the order no more than the types.                    *)
LEMMA SameAccepted ==
  ASSUME LInv, Types', Accepted' = Accepted, offered' = offered, stop_flag_ => stop_flag_',
         \A r \in Receiver : pcR'[r] \in InHand => pcR[r] \in InHand
  PROVE  Newest' /\ ReceiverOrder'
  <1>1. Newest /\ ReceiverOrder /\ Accepted \in Seq(Numbered) /\ DOMAIN Accepted = 1 .. Len(Accepted)
      BY Parts DEF LInv
  <1>2. \A i \in DOMAIN Accepted : Accepted[i][1] \in Receiver
      BY <1>1, ElementOfSeq DEF Numbered
  <1> QED
      BY <1>1, <1>2 DEF Newest, ReceiverOrder

(* The same of the packets pending, when no receiver takes the direct way.   *)
LEMMA SamePending ==
  ASSUME LInv, Pending' = Pending, stop_flag_ => stop_flag_',
         \A r \in Receiver : pcR'[r] = "direct" => pcR[r] = "direct"
  PROVE  DirectFirst'
  BY DEF LInv, DirectFirst
(* Steps that move neither packets nor receivers.                            *)
LEMMA StillOrdered ==
  ASSUME LInv, Types', UNCHANGED <<buffer, batch, queue, receiver>>, stop_flag_ => stop_flag_'
  PROVE  Newest' /\ DirectFirst' /\ ReceiverOrder'
  <1>1. Accepted' = Accepted /\ Pending' = Pending /\ offered' = offered /\ pcR' = pcR
      BY DEF Accepted, Pending, receiver
  <1> QED
      BY <1>1, SameAccepted, SamePending

-----------------------------------------------------------------------------
LEMMA LOffer == ASSUME LInv, NEW r \in Receiver, Offer(r) PROVE LInv'
  <1>1. /\ Types /\ NotStarted /\ Newest /\ DirectFirst /\ ReceiverOrder /\ Told
        /\ pcR[r] = "idle" /\ offered' = [offered EXCEPT ![r] = @ + 1]
        /\ pcR' = [pcR EXCEPT ![r] = "route"]
        /\ UNCHANGED <<stop_flag_, queue, version, seen, buffer, pcT, batch, pcS>>
      BY DEF LInv, Offer, Goto
  <1>2. Types'
    <2>1. offered' \in [Receiver -> Nat]
        BY <1>1 DEF Types
    <2>2. pcR' \in [Receiver -> {"idle", "route", "direct", "push", "bump", "notify"}]
        BY <1>1 DEF Types
    <2> QED
        BY <1>1, <2>1, <2>2 DEF Types
  <1>3. NotStarted' /\ Told'
      BY <1>1 DEF NotStarted, Told, Types
  <1>4. Accepted' = Accepted /\ Pending' = Pending
      BY <1>1 DEF Accepted, Pending
  <1>5. DirectFirst' /\ ReceiverOrder'
      BY <1>1, <1>4, SamePending DEF ReceiverOrder, Types
  <1>6. Newest'
    <2> SUFFICES ASSUME NEW i \in DOMAIN Accepted
                 PROVE  /\ Accepted[i][2] <= offered'[Accepted[i][1]]
                        /\ pcR'[Accepted[i][1]] \in InHand => Accepted[i][2] < offered'[Accepted[i][1]]
        BY <1>4 DEF Newest
    <2>1. /\ Accepted[i][1] \in Receiver /\ Accepted[i][2] \in Nat
          /\ Accepted[i][2] <= offered[Accepted[i][1]]
          /\ pcR[Accepted[i][1]] \in InHand => Accepted[i][2] < offered[Accepted[i][1]]
        BY <1>1, Parts, ElementOfSeq DEF Newest, Numbered
    <2> QED
        BY <1>1, <2>1 DEF Types
  <1> QED
      BY <1>2, <1>3, <1>5, <1>6 DEF LInv

(* Only before the thread is started is a packet ingested directly, unless   *)
(* the engine is stopping.                                                   *)
LEMMA LRoute == ASSUME LInv, NEW r \in Receiver, Route(r) PROVE LInv'
  <1>1. /\ Types /\ NotStarted /\ Newest /\ DirectFirst /\ ReceiverOrder /\ Told
        /\ pcR[r] = "route" /\ pcR' = [pcR EXCEPT ![r] = IF IsRunning THEN "push" ELSE "direct"]
        /\ offered' = offered
        /\ UNCHANGED <<stop_flag_, queue, version, seen, buffer, pcT, batch, pcS>>
      BY DEF LInv, Route, Goto
  <1>2. Types'
    <2>1. pcR' \in [Receiver -> {"idle", "route", "direct", "push", "bump", "notify"}]
        BY <1>1 DEF Types
    <2> QED
        BY <1>1, <2>1 DEF Types
  <1>3. NotStarted' /\ Told'
      BY <1>1 DEF NotStarted, Told, Types, IsRunning
  <1>4. Accepted' = Accepted /\ Pending' = Pending
      BY <1>1 DEF Accepted, Pending
  <1>5. \A q \in Receiver : pcR'[q] \in InHand => pcR[q] \in InHand
      BY <1>1 DEF Types, InHand
  <1>6. Newest' /\ ReceiverOrder'
      BY <1>1, <1>2, <1>4, <1>5, SameAccepted
  <1>7. DirectFirst'
    <2>1. CASE pcS = "new"
      <3>1. Pending = <<>>
          BY <1>1, <2>1, ConcatEmptySeq DEF NotStarted, Pending, Types
      <3> QED
          BY <1>4, <3>1 DEF DirectFirst
    <2>2. CASE pcS # "new"
      <3>1. ~stop_flag_ => \A q \in Receiver : pcR'[q] = "direct" => pcR[q] = "direct"
          BY <1>1, <2>2 DEF IsRunning, Types
      <3> QED
          BY <1>1, <1>4, <3>1 DEF DirectFirst
    <2> QED
        BY <2>1, <2>2
  <1> QED
      BY <1>2, <1>3, <1>6, <1>7 DEF LInv

(* A packet enters behind those ingested and before those pending: while the *)
(* engine is not stopping, none of the latter is its receiver's.             *)
LEMMA LIngestDirectly == ASSUME LInv, NEW r \in Receiver, IngestDirectly(r) PROVE LInv'
  <1> DEFINE p == packet(r)
             n == Len(buffer)
  <1>1. /\ Types /\ NotStarted /\ Newest /\ DirectFirst /\ ReceiverOrder /\ Told
        /\ pcR[r] = "direct" /\ buffer' = Append(buffer, p)
        /\ pcR' = [pcR EXCEPT ![r] = "idle"] /\ offered' = offered
        /\ UNCHANGED <<stop_flag_, queue, version, seen, pcT, batch, pcS>>
      BY DEF LInv, IngestDirectly, Goto
  <1>2. p \in Numbered /\ p[1] = r /\ p[2] = offered[r]
      BY <1>1 DEF packet, Numbered, Types
  <1> HIDE DEF p
  <1>3. /\ buffer' \in Seq(Numbered) /\ Len(buffer') = n + 1 /\ buffer'[n + 1] = p
        /\ \A i \in 1 .. n : buffer'[i] = buffer[i]
      BY <1>1, <1>2, AppendProperties DEF Types
  <1>4. Types'
    <2>1. pcR' \in [Receiver -> {"idle", "route", "direct", "push", "bump", "notify"}]
        BY <1>1 DEF Types
    <2> QED
        BY <1>1, <1>3, <2>1 DEF Types
  <1>5. NotStarted' /\ Told'
      BY <1>1 DEF NotStarted, Told, Types
  <1>6. Pending' = Pending
      BY <1>1 DEF Pending
  <1>7. DirectFirst'
      BY <1>1, <1>6, SamePending DEF Types
  <1>8. /\ n \in Nat /\ Len(Pending) \in Nat
        /\ DOMAIN Accepted' = 1 .. n + 1 + Len(Pending) /\ DOMAIN Accepted = 1 .. n + Len(Pending)
        /\ \A i \in 1 .. n : Accepted'[i] = Accepted[i]
        /\ Accepted'[n + 1] = p
        /\ \A i \in n + 2 .. n + 1 + Len(Pending) :
             /\ Accepted'[i] = Accepted[i - 1]
             /\ i - 1 - n \in DOMAIN Pending /\ Accepted[i - 1] = Pending[i - 1 - n]
    <2>1. /\ n \in Nat /\ Len(Pending) \in Nat /\ DOMAIN Pending = 1 .. Len(Pending)
          /\ DOMAIN Accepted = 1 .. n + Len(Pending)
          /\ \A i \in 1 .. n + Len(Pending) :
               Accepted[i] = IF i <= n THEN buffer[i] ELSE Pending[i - n]
        BY <1>1, Parts
    <2>2. Accepted' = buffer' \o Pending
      <3>1. /\ buffer' \in Seq(Numbered) /\ batch' \in Seq(Numbered) /\ queue' \in Seq(Numbered)
          BY <1>4 DEF Types
      <3>2. (buffer' \o batch') \o queue' = buffer' \o (batch' \o queue')
          BY <3>1, ConcatAssociative, SMTT(30)
      <3> QED
          BY <1>6, <3>2, Zenon DEF Accepted, Pending
    <2>3. /\ Pending \in Seq(Numbered)
          /\ Accepted' \in Seq(Numbered) /\ Len(Accepted') = Len(buffer') + Len(Pending)
          /\ \A i \in 1 .. Len(buffer') + Len(Pending) :
               Accepted'[i] = IF i <= Len(buffer') THEN buffer'[i] ELSE Pending[i - Len(buffer')]
        BY <1>1, <1>3, <2>2, Parts, ConcatProperties
    <2>4. DOMAIN Accepted' = 1 .. n + 1 + Len(Pending)
        BY <1>3, <2>1, <2>3, LenProperties
    <2>5. \A i \in 1 .. n + 1 + Len(Pending) :
             Accepted'[i] = IF i <= n + 1 THEN buffer'[i] ELSE Pending[i - (n + 1)]
        BY <1>3, <2>3, Zenon
    <2>6. \A i \in 1 .. n : Accepted'[i] = Accepted[i]
      <3> SUFFICES ASSUME NEW i \in 1 .. n PROVE Accepted'[i] = Accepted[i]
          OBVIOUS
      <3>1. Accepted[i] = buffer[i]
          BY <2>1
      <3>2. Accepted'[i] = buffer'[i]
          BY <2>1, <2>5
      <3> QED
          BY <1>3, <3>1, <3>2
    <2>7. Accepted'[n + 1] = p
        BY <1>3, <2>1, <2>5
    <2>8. \A i \in n + 2 .. n + 1 + Len(Pending) :
             /\ Accepted'[i] = Pending[i - (n + 1)]
             /\ i - 1 - n \in DOMAIN Pending /\ i - (n + 1) = i - 1 - n
             /\ Accepted[i - 1] = Pending[i - 1 - n]
      <3> SUFFICES ASSUME NEW i \in n + 2 .. n + 1 + Len(Pending)
                   PROVE  /\ Accepted'[i] = Pending[i - (n + 1)]
                          /\ i - 1 - n \in DOMAIN Pending /\ i - (n + 1) = i - 1 - n
                          /\ Accepted[i - 1] = Pending[i - 1 - n]
          OBVIOUS
      <3>1. /\ i \in 1 .. n + 1 + Len(Pending) /\ ~(i <= n + 1)
            /\ i - 1 \in 1 .. n + Len(Pending) /\ ~(i - 1 <= n)
            /\ i - 1 - n \in 1 .. Len(Pending) /\ i - (n + 1) = i - 1 - n
          BY <2>1
      <3>2. Accepted'[i] = Pending[i - (n + 1)]
          BY <2>5, <3>1, Zenon
      <3>3. Accepted[i - 1] = Pending[i - 1 - n]
          BY <2>1, <3>1, Zenon
      <3> QED
          BY <2>1, <3>1, <3>2, <3>3
    <2> QED
        BY <2>1, <2>4, <2>6, <2>7, <2>8
  <1>9. \A i \in DOMAIN Accepted :
           /\ Accepted[i][1] \in Receiver /\ Accepted[i][2] \in Nat
           /\ Accepted[i][2] <= offered[Accepted[i][1]]
           /\ pcR[Accepted[i][1]] \in InHand => Accepted[i][2] < offered[Accepted[i][1]]
      BY <1>1, Parts, ElementOfSeq DEF Newest, Numbered
  <1>10. \A i \in DOMAIN Accepted' : \/ i = n + 1 /\ Accepted'[i] = p
                                     \/ \E k \in DOMAIN Accepted : Accepted'[i] = Accepted[k]
    <2> SUFFICES ASSUME NEW i \in DOMAIN Accepted', i # n + 1
                 PROVE  \E k \in DOMAIN Accepted : Accepted'[i] = Accepted[k]
        BY <1>8
    <2>1. CASE i <= n
        BY <1>8, <2>1
    <2>2. CASE i >= n + 2
        BY <1>8, <2>2
    <2> QED
        BY <1>8, <2>1, <2>2
  <1>11. Newest'
    <2> SUFFICES ASSUME NEW i \in DOMAIN Accepted'
                 PROVE  /\ Accepted'[i][2] <= offered[Accepted'[i][1]]
                        /\ pcR'[Accepted'[i][1]] \in InHand =>
                             Accepted'[i][2] < offered[Accepted'[i][1]]
        BY <1>1 DEF Newest
    <2>1. CASE Accepted'[i] = p
        BY <1>1, <1>2, <2>1 DEF Types, InHand
    <2>2. CASE \E k \in DOMAIN Accepted : Accepted'[i] = Accepted[k]
        BY <1>1, <1>9, <2>2 DEF Types, InHand
    <2> QED
        BY <1>10, <2>1, <2>2
  <1>12. ReceiverOrder'
    <2> SUFFICES ASSUME ~stop_flag_, NEW i \in DOMAIN Accepted', NEW j \in DOMAIN Accepted',
                        i < j, Accepted'[i][1] = Accepted'[j][1]
                 PROVE  Accepted'[i][2] < Accepted'[j][2]
        BY <1>1 DEF ReceiverOrder
    <2>1. CASE j <= n
        BY <1>1, <1>8, <2>1 DEF ReceiverOrder
    <2>2. CASE j = n + 1
      <3>1. /\ i \in DOMAIN Accepted /\ Accepted'[i] = Accepted[i]
            /\ Accepted'[j] = p
          BY <1>8, <2>2
      <3> QED
          BY <1>1, <1>2, <1>9, <3>1 DEF InHand
    <2>3. CASE j >= n + 2 /\ i = n + 1
      <3>1. /\ j - 1 - n \in DOMAIN Pending /\ Accepted'[j] = Pending[j - 1 - n]
            /\ Accepted'[i] = p
          BY <1>8, <2>3
      <3> QED
          BY <1>1, <1>2, <3>1 DEF DirectFirst
    <2>4. CASE j >= n + 2 /\ i # n + 1
      <3>1. PICK k \in DOMAIN Accepted : k < j - 1 /\ Accepted'[i] = Accepted[k]
        <4>1. CASE i <= n
          <5>1. i \in DOMAIN Accepted /\ i < j - 1 /\ Accepted'[i] = Accepted[i]
              BY <1>8, <2>4, <4>1
          <5> QED
              BY <5>1
        <4>2. CASE i >= n + 2
          <5>1. i - 1 \in DOMAIN Accepted /\ i - 1 < j - 1 /\ Accepted'[i] = Accepted[i - 1]
              BY <1>8, <2>4, <4>2
          <5> QED
              BY <5>1
        <4> QED
            BY <1>8, <2>4, <4>1, <4>2
      <3>2. j - 1 \in DOMAIN Accepted /\ Accepted'[j] = Accepted[j - 1]
          BY <1>8, <2>4
      <3> QED
          BY <1>1, <3>1, <3>2 DEF ReceiverOrder
    <2> QED
        BY <1>8, <2>1, <2>2, <2>3, <2>4
  <1> QED
      BY <1>4, <1>5, <1>7, <1>11, <1>12 DEF LInv
(* A packet is queued behind all that is pending.                            *)
LEMMA LPush == ASSUME LInv, NEW r \in Receiver, Push(r) PROVE LInv'
  <1> DEFINE p == packet(r)
  <1>1. /\ Types /\ NotStarted /\ Newest /\ DirectFirst /\ ReceiverOrder /\ Told
        /\ pcR[r] = "push" /\ offered' = offered
        /\ UNCHANGED <<stop_flag_, version, seen, buffer, pcT, batch, pcS>>
      BY DEF LInv, Push
  <1>2. p \in Numbered /\ p[1] = r /\ p[2] = offered[r]
      BY <1>1 DEF packet, Numbered, Types
  <1>3. CASE UNCHANGED queue /\ pcR' = [pcR EXCEPT ![r] = "idle"]
    <2>1. Types' /\ NotStarted' /\ Told'
      <3>1. pcR' \in [Receiver -> {"idle", "route", "direct", "push", "bump", "notify"}]
          BY <1>1, <1>3 DEF Types
      <3> QED
          BY <1>1, <1>3, <3>1 DEF Types, NotStarted, Told
    <2>2. /\ Accepted' = Accepted /\ Pending' = Pending
          /\ \A q \in Receiver : pcR'[q] \in InHand => pcR[q] \in InHand
          /\ \A q \in Receiver : pcR'[q] = "direct" => pcR[q] = "direct"
        BY <1>1, <1>3 DEF Accepted, Pending, Types, InHand
    <2>3. Newest' /\ ReceiverOrder'
        BY <1>1, <2>1, <2>2, SameAccepted DEF LInv, Types
    <2>4. DirectFirst'
        BY <1>1, <2>2, SamePending DEF LInv, Types
    <2> QED
        BY <2>1, <2>3, <2>4 DEF LInv
  <1>4. CASE queue' = Append(queue, p) /\ pcR' = [pcR EXCEPT ![r] = "bump"]
    <2> HIDE DEF p
    <2>1. Types' /\ NotStarted' /\ Told'
      <3>1. pcR' \in [Receiver -> {"idle", "route", "direct", "push", "bump", "notify"}]
            /\ pcR'[r] = "bump"
          BY <1>1, <1>4 DEF Types
      <3>2. queue' \in Seq(Numbered)
          BY <1>1, <1>2, <1>4, AppendProperties DEF Types
      <3> QED
          BY <1>1, <1>4, <3>1, <3>2 DEF Types, NotStarted, Told
    <2>2. Pending' = Append(Pending, p) /\ Accepted' = Append(Accepted, p)
      <3>1. /\ batch \in Seq(Numbered) /\ queue \in Seq(Numbered)
            /\ buffer \in Seq(Numbered) /\ buffer \o batch \in Seq(Numbered)
          BY <1>1, ConcatProperties DEF Types
      <3>2. batch \o Append(queue, p) = Append(batch \o queue, p)
          BY <1>2, <3>1, Grown
      <3>3. (buffer \o batch) \o Append(queue, p) = Append((buffer \o batch) \o queue, p)
          BY <1>2, <3>1, Grown
      <3> QED
          BY <1>1, <1>4, <3>2, <3>3, Zenon DEF Pending, Accepted
    <2>3. /\ Accepted \in Seq(Numbered) /\ DOMAIN Accepted = 1 .. Len(Accepted)
          /\ Len(Accepted) \in Nat /\ Len(Pending) \in Nat
          /\ Pending \in Seq(Numbered) /\ DOMAIN Pending = 1 .. Len(Pending)
        BY <1>1, Parts
    <2>4. /\ DOMAIN Accepted' = 1 .. Len(Accepted) + 1 /\ Accepted'[Len(Accepted) + 1] = p
          /\ \A i \in 1 .. Len(Accepted) : Accepted'[i] = Accepted[i]
        BY <1>2, <2>2, <2>3, AppendProperties, LenProperties
    <2>5. /\ DOMAIN Pending' = 1 .. Len(Pending) + 1 /\ Pending'[Len(Pending) + 1] = p
          /\ \A i \in 1 .. Len(Pending) : Pending'[i] = Pending[i]
        BY <1>2, <2>2, <2>3, AppendProperties, LenProperties
    <2>6. \A i \in DOMAIN Accepted :
             /\ Accepted[i][1] \in Receiver /\ Accepted[i][2] \in Nat
             /\ Accepted[i][2] <= offered[Accepted[i][1]]
             /\ pcR[Accepted[i][1]] \in InHand => Accepted[i][2] < offered[Accepted[i][1]]
        BY <1>1, <2>3, ElementOfSeq DEF Newest, Numbered
    <2>7. Newest'
      <3> SUFFICES ASSUME NEW i \in DOMAIN Accepted'
                   PROVE  /\ Accepted'[i][2] <= offered[Accepted'[i][1]]
                          /\ pcR'[Accepted'[i][1]] \in InHand =>
                               Accepted'[i][2] < offered[Accepted'[i][1]]
          BY <1>1 DEF Newest
      <3>1. CASE i \in DOMAIN Accepted
          BY <1>1, <1>4, <2>3, <2>4, <2>6, <3>1 DEF Types, InHand
      <3>2. CASE i = Len(Accepted) + 1
          BY <1>1, <1>2, <1>4, <2>4, <3>2 DEF Types, InHand
      <3> QED
          BY <2>3, <2>4, <3>1, <3>2
    <2>8. ReceiverOrder'
      <3> SUFFICES ASSUME ~stop_flag_, NEW i \in DOMAIN Accepted', NEW j \in DOMAIN Accepted',
                          i < j, Accepted'[i][1] = Accepted'[j][1]
                   PROVE  Accepted'[i][2] < Accepted'[j][2]
          BY <1>1 DEF ReceiverOrder
      <3>1. i \in DOMAIN Accepted /\ Accepted'[i] = Accepted[i]
          BY <2>3, <2>4
      <3>2. CASE j \in DOMAIN Accepted
          BY <1>1, <2>3, <2>4, <3>1, <3>2 DEF ReceiverOrder
      <3>3. CASE j = Len(Accepted) + 1
          BY <1>1, <1>2, <2>4, <2>6, <3>1, <3>3 DEF InHand
      <3> QED
          BY <2>3, <2>4, <3>2, <3>3
    <2>9. DirectFirst'
      <3> SUFFICES ASSUME ~stop_flag_, NEW q \in Receiver, pcR'[q] = "direct",
                          NEW i \in DOMAIN Pending'
                   PROVE  Pending'[i][1] # q
          BY <1>1 DEF DirectFirst
      <3>1. q # r /\ pcR[q] = "direct"
          BY <1>1, <1>4 DEF Types
      <3>2. CASE i \in DOMAIN Pending
          BY <1>1, <2>3, <2>5, <3>1, <3>2 DEF DirectFirst
      <3>3. CASE i = Len(Pending) + 1
          BY <1>2, <2>5, <3>1, <3>3
      <3> QED
          BY <2>3, <2>5, <3>2, <3>3
    <2> QED
        BY <2>1, <2>7, <2>8, <2>9 DEF LInv
  <1> QED
      BY <1>3, <1>4 DEF Push, PushAtBack, Goto

LEMMA LAnnounce == ASSUME LInv, NEW r \in Receiver, Bump(r) \/ NotifyOne(r) PROVE LInv'
  <1>1. /\ Types /\ NotStarted /\ Newest /\ DirectFirst /\ ReceiverOrder /\ Told
        /\ offered' = offered
        /\ UNCHANGED <<stop_flag_, queue, buffer, seen, batch, pcS>>
      BY DEF LInv, Bump, NotifyOne
  <1>2. /\ Accepted' = Accepted /\ Pending' = Pending
        /\ \A q \in Receiver : pcR'[q] \in InHand => pcR[q] \in InHand
        /\ \A q \in Receiver : pcR'[q] = "direct" => pcR[q] = "direct"
    <2>1. Accepted' = Accepted /\ Pending' = Pending
        BY <1>1 DEF Accepted, Pending
    <2> QED
        BY <1>1, <2>1 DEF Bump, NotifyOne, Goto, Types, InHand
  <1>3. Types' /\ NotStarted' /\ Told'
    <2>1. pcR' \in [Receiver -> {"idle", "route", "direct", "push", "bump", "notify"}]
        BY <1>1 DEF Types, Bump, NotifyOne, Goto
    <2>2. CASE Bump(r)
      <3>1. version' = version + 1 /\ pcT' = pcT /\ version' # seen'
          BY <1>1, <2>2 DEF Bump, Types
      <3>2. Types' /\ Told'
          BY <1>1, <2>1, <3>1 DEF Types, Told
      <3>3. \A q \in Receiver : pcR'[q] = "push" => pcR[q] = "push"
          BY <1>1, <2>2 DEF Bump, Goto, Types
      <3> QED
          BY <1>1, <3>1, <3>2, <3>3 DEF NotStarted
    <2>3. CASE NotifyOne(r)
      <3>1. /\ version' = version /\ pcT' = Woken /\ pcR[r] = "notify"
            /\ pcR' = [pcR EXCEPT ![r] = "idle"]
          BY <2>3 DEF NotifyOne, Goto
      <3>3. \A q \in Receiver : (pcR[q] = "push" <=> pcR'[q] = "push")
                               /\ (pcR[q] = "bump" <=> pcR'[q] = "bump")
          BY <1>1, <3>1 DEF Types
      <3>4. Told' /\ NotStarted'
          BY <1>1, <3>1, <3>3 DEF NotStarted, Told, Woken
      <3> QED
          BY <1>1, <2>1, <3>1, <3>4 DEF Types
    <2> QED
        BY <2>2, <2>3
  <1>4. Newest' /\ ReceiverOrder'
      BY <1>1, <1>2, <1>3, SameAccepted DEF Types
  <1>5. DirectFirst'
      BY <1>1, <1>2, SamePending DEF Types
  <1> QED
      BY <1>3, <1>4, <1>5 DEF LInv
-----------------------------------------------------------------------------
(* A packet moves to the batch, and from it to the buffer.                   *)
LEMMA LTryPop == ASSUME LInv, TryPop PROVE LInv'
  <1>1. /\ Types /\ NotStarted /\ Newest /\ DirectFirst /\ ReceiverOrder /\ Told
        /\ pcT = "drain" /\ queue # <<>> /\ batch' = Append(batch, Head(queue)) /\ queue' = Tail(queue)
        /\ offered' = offered /\ pcR' = pcR
        /\ UNCHANGED <<stop_flag_, version, seen, buffer, pcT, pcS>>
      BY DEF LInv, TryPop, receiver
  <1>2. /\ Head(queue) \in Numbered /\ queue' \in Seq(Numbered) /\ batch' \in Seq(Numbered)
        /\ Pending' = Pending
      BY <1>1, HeadTailProperties, AppendProperties, Moved DEF Types, Pending
  <1>3. Types' /\ NotStarted' /\ Told'
      BY <1>1, <1>2 DEF Types, NotStarted, Told
  <1>4. Accepted' = Accepted
    <2>1. buffer \in Seq(Numbered) /\ batch \in Seq(Numbered) /\ queue \in Seq(Numbered)
        BY <1>1 DEF Types
    <2>2. (buffer \o batch) \o queue = buffer \o (batch \o queue)
        BY <2>1, ConcatAssociative, SMTT(30)
    <2>3. buffer' \in Seq(Numbered) /\ batch' \in Seq(Numbered) /\ queue' \in Seq(Numbered)
        BY <1>3 DEF Types
    <2>4. (buffer' \o batch') \o queue' = buffer' \o (batch' \o queue')
        BY <2>3, ConcatAssociative, SMTT(30)
    <2> QED
        BY <1>1, <1>2, <2>2, <2>4, Zenon DEF Pending, Accepted
  <1> QED
      BY <1>1, <1>2, <1>3, <1>4, SameAccepted, SamePending DEF LInv, Types

LEMMA LIngest == ASSUME LInv, Ingest PROVE LInv'
  <1>1. /\ Types /\ NotStarted /\ Newest /\ DirectFirst /\ ReceiverOrder /\ Told
        /\ pcT = "ingest" /\ batch # <<>> /\ buffer' = Append(buffer, Head(batch)) /\ batch' = Tail(batch)
        /\ offered' = offered /\ pcR' = pcR
        /\ UNCHANGED <<stop_flag_, version, seen, queue, pcT, pcS>>
      BY DEF LInv, Ingest, receiver
  <1>2. /\ Head(batch) \in Numbered /\ batch' \in Seq(Numbered) /\ buffer' \in Seq(Numbered)
        /\ buffer' \o batch' = buffer \o batch
      BY <1>1, HeadTailProperties, AppendProperties, Moved DEF Types
  <1>3. Types' /\ NotStarted' /\ Told'
      BY <1>1, <1>2 DEF Types, NotStarted, Told
  <1>4. Accepted' = Accepted
      BY <1>1, <1>2, Zenon DEF Accepted
  <1>5. DirectFirst'
    <2>1. \A k \in DOMAIN Pending' : k + 1 \in DOMAIN Pending /\ Pending'[k] = Pending[k + 1]
      <3>1. /\ Len(batch') = Len(batch) - 1 /\ Len(batch) \in Nat /\ Len(batch) > 0
            /\ \A k \in 1 .. Len(batch') : batch'[k] = batch[k + 1]
          BY <1>1, HeadTailProperties, EmptySeq, LenProperties DEF Types
      <3>2. /\ Pending \in Seq(Numbered) /\ Len(Pending) = Len(batch) + Len(queue)
            /\ \A k \in 1 .. Len(batch) + Len(queue) :
                 Pending[k] = IF k <= Len(batch) THEN batch[k] ELSE queue[k - Len(batch)]
          BY <1>1, ConcatProperties DEF Types, Pending
      <3>3. /\ Pending' \in Seq(Numbered) /\ Len(Pending') = Len(batch') + Len(queue)
            /\ \A k \in 1 .. Len(batch') + Len(queue) :
                 Pending'[k] = IF k <= Len(batch') THEN batch'[k] ELSE queue[k - Len(batch')]
          BY <1>1, <1>3, ConcatProperties DEF Types, Pending
      <3>4. /\ DOMAIN Pending = 1 .. Len(Pending) /\ DOMAIN Pending' = 1 .. Len(Pending')
            /\ Len(queue) \in Nat
          BY <1>1, <3>2, <3>3, LenProperties DEF Types
      <3> SUFFICES ASSUME NEW k \in DOMAIN Pending'
                   PROVE  k + 1 \in DOMAIN Pending /\ Pending'[k] = Pending[k + 1]
          OBVIOUS
      <3>5. /\ k \in 1 .. Len(batch') + Len(queue) /\ k + 1 \in 1 .. Len(batch) + Len(queue)
            /\ k + 1 \in DOMAIN Pending /\ Len(batch') \in Nat
        <4>1. k \in 1 .. (Len(batch) - 1) + Len(queue)
            BY <3>1, <3>3, <3>4, Zenon
        <4>2. k + 1 \in 1 .. Len(batch) + Len(queue) /\ Len(batch) - 1 \in Nat
            BY <3>1, <3>4, <4>1
        <4> QED
            BY <3>1, <3>2, <3>4, <4>1, <4>2, Zenon
      <3>6. /\ Pending'[k] = IF k <= Len(batch') THEN batch'[k] ELSE queue[k - Len(batch')]
            /\ Pending[k + 1] = IF k + 1 <= Len(batch) THEN batch[k + 1] ELSE queue[k + 1 - Len(batch)]
        <4>1. Pending'[k] = IF k <= Len(batch') THEN batch'[k] ELSE queue[k - Len(batch')]
            BY <3>3, <3>5, Zenon
        <4>2. \A i \in 1 .. Len(batch) + Len(queue) :
                 Pending[i] = IF i <= Len(batch) THEN batch[i] ELSE queue[i - Len(batch)]
            BY <3>2
        <4>3. Pending[k + 1] = IF k + 1 <= Len(batch) THEN batch[k + 1] ELSE queue[k + 1 - Len(batch)]
            BY <3>5, <4>2
        <4> QED
            BY <4>1, <4>3
      <3>7. /\ k <= Len(batch') <=> k + 1 <= Len(batch)
            /\ k <= Len(batch') => batch'[k] = batch[k + 1]
            /\ k - Len(batch') = k + 1 - Len(batch)
          BY <3>1, <3>5
      <3> QED
          BY <3>5, <3>6, <3>7, Zenon
    <2> SUFFICES ASSUME ~stop_flag_, NEW r \in Receiver, pcR[r] = "direct", NEW k \in DOMAIN Pending'
                 PROVE  Pending'[k][1] # r
        BY <1>1 DEF DirectFirst
    <2> QED
        BY <1>1, <2>1 DEF DirectFirst
  <1> QED
      BY <1>1, <1>3, <1>4, <1>5, SameAccepted DEF LInv, Types

(* The control calls, start() and stop(), and the steps of the thread that   *)
(* move no packet: the thread finds the queue empty before it makes a pass,  *)
(* and blocks only when the version has not moved since the one it saw.      *)
LEMMA LControl == ASSUME LInv, ControlCall \/ Start \/ StopFlag \/ Stop PROVE LInv'
  <1>1. /\ Types /\ NotStarted /\ Told
        /\ UNCHANGED <<buffer, batch, queue, receiver>> /\ pcR' = pcR /\ offered' = offered
      BY DEF LInv, ControlCall, Start, StopFlag, Stop, StopQueue, StopBump, StopNotify, Join, receiver
  <1>2. /\ version' \in {version, version + 1} /\ seen' \in {version, seen}
        /\ seen' = seen \/ pcT' = "test"
        /\ version' = version + 1 => seen' = seen
        /\ pcT' = pcT \/ pcT' = Woken \/ pcT' = "test"
        /\ stop_flag_' = stop_flag_ \/ stop_flag_' = TRUE
    <2>1. CASE ControlCall \/ StopBump
        BY <1>1, <2>1 DEF ControlCall, StopBump, Types
    <2>2. CASE Start
        BY <1>1, <2>2 DEF Start, Types
    <2>3. CASE StopFlag \/ StopQueue \/ StopNotify \/ Join
        BY <1>1, <2>3 DEF StopFlag, StopQueue, StopNotify, Join, Types
    <2> QED
        BY <2>1, <2>2, <2>3 DEF Stop
  <1>3. Types'
    <2>1. stop_flag_' \in BOOLEAN
        BY <1>1, <1>2, Zenon DEF Types
    <2>2. version' \in Nat /\ seen' \in 0 .. version'
        BY <1>1, <1>2 DEF Types
    <2> QED
        BY <1>1, <2>1, <2>2 DEF Types
  <1>4. Told'
      BY <1>1, <1>2 DEF Types, Told, Woken
  <1>5. NotStarted'
      BY <1>1 DEF NotStarted, ControlCall, Start, StopFlag, Stop, StopQueue, StopBump, StopNotify, Join,
                  StopStep, IsRunning, Woken
  <1>6. stop_flag_ => stop_flag_'
      BY <1>2 DEF Types
  <1> QED
      BY <1>1, <1>3, <1>4, <1>5, <1>6, StillOrdered DEF LInv

Quiet == Test \/ Drained \/ Pass \/ TestWait \/ Block \/ Timeout \/ Update

LEMMA LQuiet == ASSUME LInv, Quiet PROVE LInv'
  <1>1. /\ Types /\ NotStarted /\ Told
        /\ UNCHANGED <<stop_flag_, version, pcS, buffer, batch, queue, receiver>>
        /\ pcR' = pcR /\ offered' = offered
      BY DEF LInv, Quiet, Test, Drained, Pass, TestWait, Block, Timeout, Update, receiver
  <1>2. pcT # "none" /\ pcT' # "none" /\ seen' \in {seen, version}
      BY DEF Quiet, Test, Drained, Pass, TestWait, Block, Timeout, Update, Thread
  <1>3. Types' /\ NotStarted'
      BY <1>1, <1>2 DEF Types, NotStarted
  <1>4. Told'
    <2>1. CASE Drained \/ Test \/ Timeout \/ Update
        BY <1>1, <2>1 DEF Told, Drained, Test, Timeout, Update, Thread
    <2>2. CASE Pass \/ Block
        BY <1>1, <2>2 DEF Told, Pass, Block, Thread
    <2>3. CASE TestWait
        BY <1>1, <2>3 DEF Told, TestWait, Thread
    <2> QED
        BY <2>1, <2>2, <2>3 DEF Quiet
  <1> QED
      BY <1>1, <1>3, <1>4, StillOrdered DEF LInv, Types

LEMMA LStutter == ASSUME LInv, UNCHANGED vars PROVE LInv'
  <1>1. /\ Types /\ NotStarted /\ Told
        /\ UNCHANGED <<stop_flag_, version, seen, pcT, pcS, buffer, batch, queue, receiver>>
        /\ pcR' = pcR /\ offered' = offered
      BY DEF LInv, vars, receiver
  <1>2. Types' /\ NotStarted' /\ Told'
      BY <1>1 DEF Types, NotStarted, Told
  <1> QED
      BY <1>1, <1>2, StillOrdered DEF LInv, Types

THEOREM LoopInvariance == Spec => []LInv
  <1>1. LInv /\ [Next]_vars => LInv'
    <2> SUFFICES ASSUME LInv, [Next]_vars PROVE LInv'
        OBVIOUS
    <2>1. CASE \E r \in Receiver : Offer(r) \/ AddPacket(r)
        BY <2>1, LOffer, LRoute, LIngestDirectly, LPush, LAnnounce DEF AddPacket
    <2>2. CASE ControlCall \/ Start \/ StopFlag \/ Stop
        BY <2>2, LControl
    <2>3. CASE Run
        BY <2>3, LTryPop, LIngest, LQuiet DEF Run, Quiet
    <2>4. CASE UNCHANGED vars
        BY <2>4, LStutter
    <2> QED
        BY <2>1, <2>2, <2>3, <2>4 DEF Next
  <1> QED
      BY LInit, <1>1, PTL DEF Spec

(* add_packet, run: as long as the engine is not stopping, neither the       *)
(* switch from direct to queued ingest nor the batches reorder, repeat or    *)
(* mix up the packets of one receiver.                                       *)
THEOREM ReceiverOrderKept == Spec => []ReceiverOrder
  <1>1. LInv => ReceiverOrder
      BY DEF LInv
  <1> QED
      BY LoopInvariance, <1>1, PTL

(* run: the thread never sleeps on a queued packet that no change of         *)
(* m_state_version_ has told it of, or is about to.                          *)
THEOREM NoSleepUntold == Spec => []VersionCoversQueue
  <1>1. LInv => VersionCoversQueue
      BY DEF LInv, Told, VersionCoversQueue
  <1> QED
      BY LoopInvariance, <1>1, PTL
=============================================================================
