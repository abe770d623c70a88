----------------------- MODULE TimeshiftBufferProofs -----------------------
(* The safety of the timeshift buffer for any number of streams, processors, *)
(* packets and calls.                                                        *)
EXTENDS TimeshiftBuffer, SequenceTheorems, TLAPS

(* What holds of one processor.  Besides the four properties: its history    *)
(* lies between where it was put and where it is; a plain filter is bound    *)
(* from the start; a wildcard that is not bound has read nothing it matches. *)
Placed(p)   == idx[p] <= BufLen /\ start[p] <= Pos(p)
Recorded(p) == \A k \in DOMAIN sent[p] : sent[p][k] \in 1 .. Pos(p) /\ log[sent[p][k]].tag = bound[p]
Ordered(p)  == \A i, j \in DOMAIN sent[p] : i < j => sent[p][i] < sent[p][j]
Plain(p)    == ~IsWild(p) => bound[p] = FilterOf[p]
Unread(p)   == bound[p] = NoTag =>
                 \A i \in start[p] + 1 .. Pos(p) : Prefixed(p, log[i].tag) => i \in evicted[p]
Sent(p, i)  == \E k \in DOMAIN sent[p] : sent[p][k] = i
Complete(p) == \A i \in start[p] + 1 .. Pos(p) :
                 log[i].tag = bound[p] => Sent(p, i) \/ i \in late[p] \cup untimed[p] \cup evicted[p]

PInv(p) == Placed(p) /\ Recorded(p) /\ Ordered(p) /\ Plain(p) /\ Unread(p) /\ Complete(p)

IInv == TypeOK /\ \A p \in registered : PInv(p)

-----------------------------------------------------------------------------
LEMMA InitInv == Init => IInv
  <1> SUFFICES ASSUME Init PROVE IInv
      OBVIOUS
  <1>1. TypeOK
      BY DEF Init, TypeOK
  <1> QED
      BY <1>1 DEF IInv, Init

(* A processor keeps PInv when its own variables stay and the buffer is at   *)
(* most appended to.                                                         *)
LEMMA Untouched ==
  ASSUME TypeOK, NEW p \in Instance, PInv(p),
         base' = base,
         log' = log \/ (\E e \in [tag : Tag, rcv : Nat] : log' = Append(log, e)),
         idx'[p] = idx[p], bound'[p] = bound[p], start'[p] = start[p], sent'[p] = sent[p],
         late'[p] = late[p], untimed'[p] = untimed[p], evicted'[p] = evicted[p]
  PROVE  PInv(p)'
  <1>1. /\ Len(log) \in Nat /\ Len(log') \in Nat /\ Len(log') >= Len(log)
        /\ \A i \in 1 .. Len(log) : log'[i] = log[i]
    <2>1. log \in Seq([tag : Tag, rcv : Nat])
        BY DEF TypeOK
    <2>2. CASE log' = log
        BY <2>1, <2>2
    <2>3. CASE \E e \in [tag : Tag, rcv : Nat] : log' = Append(log, e)
      <3>1. PICK e \in [tag : Tag, rcv : Nat] : log' = Append(log, e)
          BY <2>3
      <3> QED
          BY <2>1, <3>1, AppendProperties
    <2> QED
        BY <2>2, <2>3
  <1>2. base \in Nat /\ idx[p] \in Nat /\ start[p] \in Nat
      BY DEF TypeOK
  <1>3. Pos(p)' = Pos(p) /\ Pos(p) \in 0 .. Len(log)
      BY <1>1, <1>2 DEF Pos, PInv, Placed, BufLen
  <1>4. \A i \in start[p] + 1 .. Pos(p) : log'[i] = log[i]
      BY <1>1, <1>2, <1>3
  <1>5. Placed(p)'
      BY <1>1, <1>2, <1>3 DEF PInv, Placed, BufLen
  <1>6. Recorded(p)'
      BY <1>1, <1>3 DEF PInv, Recorded
  <1>7. Ordered(p)' /\ Plain(p)'
      BY DEF PInv, Ordered, Plain, IsWild
  <1>8. Unread(p)'
      BY <1>3, <1>4 DEF PInv, Unread, Prefixed, IsWild
  <1>9. Complete(p)'
      BY <1>3, <1>4 DEF PInv, Complete, Sent
  <1> QED
      BY <1>5, <1>6, <1>7, <1>8, <1>9 DEF PInv

(* A processor put at an index of the buffer starts with an empty history.   *)
LEMMA Repositioned ==
  ASSUME TypeOK, NEW p \in Instance, NEW n \in 0 .. BufLen,
         base' = base, Len(log') >= Len(log), Len(log') \in Nat,
         idx'[p] = n, start'[p] = base + n, sent'[p] = <<>>,
         Plain(p)'
  PROVE  PInv(p)'
  <1>1. Pos(p)' = base + n /\ base \in Nat /\ n \in Nat /\ n <= Len(log) - base /\ Len(log) \in Nat
      BY DEF Pos, BufLen, TypeOK
  <1>2. Placed(p)'
      BY <1>1 DEF Placed, BufLen
  <1>3. Recorded(p)' /\ Ordered(p)'
      BY DEF Recorded, Ordered
  <1>4. \A i : ~ (i \in (start[p] + 1 .. Pos(p))')
      BY <1>1
  <1>5. Unread(p)' /\ Complete(p)'
      BY <1>4 DEF Unread, Complete
  <1> QED
      BY <1>2, <1>3, <1>5 DEF PInv

-----------------------------------------------------------------------------
(* Operations that move at most the processors in a set S, to an index n.    *)
LEMMA RepositionType ==
  ASSUME TypeOK, NEW S \in SUBSET Instance, NEW n \in 0 .. BufLen, Reposition(S, n)
  PROVE  /\ idx' \in [Instance -> Nat] /\ start' \in [Instance -> Nat]
         /\ sent' \in [Instance -> Seq(Nat)]
         /\ {late', untimed', evicted'} \subseteq [Instance -> SUBSET Nat]
  <1>1. base + n \in Nat /\ n \in Nat
      BY DEF TypeOK, BufLen
  <1>2. <<>> \in Seq(Nat)
      OBVIOUS
  <1> QED
      BY <1>1, <1>2 DEF Reposition, TypeOK

LEMMA RepositionInv ==
  ASSUME IInv, NEW S \in SUBSET Instance, NEW n \in 0 .. BufLen, Reposition(S, n),
         base' = base,
         log' = log \/ (\E e \in [tag : Tag, rcv : Nat] : log' = Append(log, e)),
         registered' \subseteq registered \cup S,
         \A p \in S \cap registered' : Plain(p)',
         \A p \in Instance \ S : bound'[p] = bound[p]
  PROVE  \A p \in registered' : PInv(p)'
  <1> SUFFICES ASSUME NEW p \in registered' PROVE PInv(p)'
      OBVIOUS
  <1>1. p \in Instance /\ TypeOK
      BY DEF IInv, TypeOK
  <1>2. CASE p \in S
    <2>1. Len(log') \in Nat /\ Len(log') >= Len(log)
        BY <1>1, AppendProperties DEF TypeOK
    <2>2. idx'[p] = n /\ start'[p] = base + n /\ sent'[p] = <<>>
        BY <1>1, <1>2 DEF Reposition
    <2> QED
        BY <1>1, <1>2, <2>1, <2>2, Repositioned
  <1>3. CASE p \notin S
    <2>1. /\ idx'[p] = idx[p] /\ start'[p] = start[p] /\ sent'[p] = sent[p]
          /\ late'[p] = late[p] /\ untimed'[p] = untimed[p] /\ evicted'[p] = evicted[p]
        BY <1>1, <1>3 DEF Reposition
    <2>2. p \in registered /\ PInv(p) /\ bound'[p] = bound[p]
        BY <1>1, <1>3 DEF IInv
    <2> QED
        BY <1>1, <2>1, <2>2, Untouched
  <1> QED
      BY <1>2, <1>3

-----------------------------------------------------------------------------
(* A step in which no processor moves.                                       *)
LEMMA Unmoved ==
  ASSUME IInv, registered' \subseteq registered,
         UNCHANGED <<stream, idx, bound, history>>
  PROVE  \A p \in registered' : PInv(p)'
  <1> SUFFICES ASSUME NEW p \in registered' PROVE PInv(p)'
      OBVIOUS
  <1> p \in Instance /\ p \in registered /\ PInv(p) /\ TypeOK
      BY DEF IInv, TypeOK
  <1> QED
      BY Untouched DEF stream, history

LEMMA TickInv == IInv /\ Clock => IInv'
  <1> SUFFICES ASSUME IInv, Clock PROVE IInv'
      OBVIOUS
  <1>1. TypeOK'
      BY DEF IInv, TypeOK, Clock, Tick, stream, target, thread, history
  <1>2. \A p \in registered' : PInv(p)'
      BY Unmoved DEF Clock, Tick, target
  <1> QED
      BY <1>1, <1>2 DEF IInv

LEMMA ForgetInv == IInv /\ Forget => IInv'
  <1> SUFFICES ASSUME IInv, NEW t \in Tag, ResetTiming(t), UNCHANGED ops PROVE IInv'
      BY DEF Forget
  <1>1. TypeOK'
      BY DEF IInv, TypeOK, ResetTiming, stream, target, thread, history
  <1>2. \A p \in registered' : PInv(p)'
      BY Unmoved DEF ResetTiming, target
  <1> QED
      BY <1>1, <1>2 DEF IInv

LEMMA ArriveInv == IInv /\ Arrive => IInv'
  <1> SUFFICES ASSUME IInv, NEW t \in Tag, NEW r \in now - QueueLag .. now, NEW jump \in BOOLEAN,
                      r >= 0, Ingest(t, r, jump), UNCHANGED ops
               PROVE  IInv'
      BY DEF Arrive, Receive
  <1> DEFINE S == IF jump THEN {p \in registered : FilterOf[p] = t} ELSE {}
             e == [tag |-> t, rcv |-> r]
  <1>1. S \in SUBSET Instance /\ BufLen \in 0 .. BufLen /\ TypeOK
      BY DEF IInv, TypeOK, BufLen
  <1>2. Reposition(S, BufLen)
      BY DEF Ingest
  <1>3. e \in [tag : Tag, rcv : Nat] /\ log' = Append(log, e) /\ base' = base
      BY TickAssumption, <1>1 DEF Ingest, TypeOK
  <1>4. log' \in Seq([tag : Tag, rcv : Nat]) /\ base' \in 0 .. Len(log')
      BY <1>1, <1>3, AppendProperties DEF TypeOK
  <1>5. TypeOK'
    <2>1. /\ idx' \in [Instance -> Nat] /\ start' \in [Instance -> Nat]
          /\ sent' \in [Instance -> Seq(Nat)]
          /\ {late', untimed', evicted'} \subseteq [Instance -> SUBSET Nat]
        BY <1>1, <1>2, RepositionType
    <2> QED
        BY <1>1, <1>4, <2>1 DEF TypeOK, Ingest, target, thread
  <1>6. \A p \in S \cap registered' : Plain(p)'
      BY DEF IInv, PInv, Plain, IsWild, Ingest, target
  <1>7. registered' \subseteq registered \cup S /\ \A p \in Instance \ S : bound'[p] = bound[p]
      BY DEF Ingest, target
  <1>8. \A p \in registered' : PInv(p)'
    <2> HIDE DEF S
    <2> QED
        BY <1>1, <1>2, <1>3, <1>6, <1>7, RepositionInv
  <1> QED
      BY <1>5, <1>8 DEF IInv

-----------------------------------------------------------------------------
(* The control operations.                                                   *)
LEMMA RegisterInv ==
  ASSUME IInv, NEW p \in Instance, NEW d \in Delays, NEW s \in Shifts,
         RegisterProcessor(p, d, s), ops' \in Nat
  PROVE  IInv'
  <1>1. PICK n \in 0 .. BufLen : Reposition({p}, n)
      BY DEF RegisterProcessor
  <1>2. TypeOK'
    <2>1. /\ idx' \in [Instance -> Nat] /\ start' \in [Instance -> Nat]
          /\ sent' \in [Instance -> Seq(Nat)]
          /\ {late', untimed', evicted'} \subseteq [Instance -> SUBSET Nat]
        BY <1>1, RepositionType DEF IInv
    <2>2. d \in Nat /\ s \in Nat /\ (~IsWild(p) => FilterOf[p] \in Tag)
        BY TickAssumption, FilterAssumption DEF IsWild
    <2> QED
        BY <2>1, <2>2 DEF IInv, TypeOK, RegisterProcessor, stream, thread
  <1>3. Plain(p)'
      BY DEF RegisterProcessor, Plain, IsWild, IInv, TypeOK
  <1>4. /\ base' = base /\ log' = log /\ registered' \subseteq registered \cup {p}
        /\ \A q \in Instance \ {p} : bound'[q] = bound[q]
      BY DEF RegisterProcessor, stream, IInv, TypeOK
  <1>5. \A q \in registered' : PInv(q)'
      BY <1>1, <1>3, <1>4, RepositionInv
  <1> QED
      BY <1>2, <1>5 DEF IInv

LEMMA UnregisterInv ==
  ASSUME IInv, NEW p \in Instance, UnregisterProcessor(p), ops' \in Nat
  PROVE  IInv'
  <1>1. Reposition({p}, 0) /\ 0 \in 0 .. BufLen /\ TypeOK
      BY DEF UnregisterProcessor, IInv, TypeOK, BufLen
  <1>2. TypeOK'
    <2>1. /\ idx' \in [Instance -> Nat] /\ start' \in [Instance -> Nat]
          /\ sent' \in [Instance -> Seq(Nat)]
          /\ {late', untimed', evicted'} \subseteq [Instance -> SUBSET Nat]
        BY <1>1, RepositionType
    <2>3. todo' = {} /\ pc' = pc
        BY <1>1 DEF TypeOK, UnregisterProcessor, thread
    <2> QED
        BY <1>1, <2>1, <2>3 DEF TypeOK, UnregisterProcessor, stream, thread
  <1>3. \A q \in registered' : PInv(q)'
    <2>1. /\ base' = base /\ log' = log /\ registered' \subseteq registered \cup {p}
          /\ {p} \cap registered' = {} /\ \A q \in Instance \ {p} : bound'[q] = bound[q]
        BY <1>1 DEF UnregisterProcessor, stream, TypeOK
    <2> QED
        BY <1>1, <2>1, RepositionInv
  <1> QED
      BY <1>2, <1>3 DEF IInv

LEMMA UpdateDelayInv ==
  ASSUME IInv, NEW p \in Instance, NEW d \in Delays, UpdateDelay(p, d), ops' \in Nat
  PROVE  IInv'
  <1>1. TypeOK'
      BY TickAssumption DEF IInv, TypeOK, UpdateDelay, stream, thread, history
  <1>2. \A q \in registered' : PInv(q)'
      BY Unmoved DEF UpdateDelay
  <1> QED
      BY <1>1, <1>2 DEF IInv

LEMMA UpdateTimeshiftInv ==
  ASSUME IInv, NEW p \in Instance, NEW s \in Shifts, UpdateTimeshift(p, s), ops' \in Nat
  PROVE  IInv'
  <1>1. PICK n \in 0 .. BufLen : Reposition({p}, n)
      BY DEF UpdateTimeshift
  <1>2. TypeOK'
    <2>1. /\ idx' \in [Instance -> Nat] /\ start' \in [Instance -> Nat]
          /\ sent' \in [Instance -> Seq(Nat)]
          /\ {late', untimed', evicted'} \subseteq [Instance -> SUBSET Nat]
        BY <1>1, RepositionType DEF IInv
    <2> QED
        BY <2>1, TickAssumption DEF IInv, TypeOK, UpdateTimeshift, stream, thread
  <1>3. /\ base' = base /\ log' = log /\ registered' = registered /\ bound' = bound
      BY DEF UpdateTimeshift, stream
  <1>4. \A q \in {p} \cap registered' : Plain(q)'
      BY <1>3 DEF IInv, PInv, Plain, IsWild
  <1>5. \A q \in registered' : PInv(q)'
      BY <1>1, <1>3, <1>4, RepositionInv
  <1> QED
      BY <1>2, <1>5 DEF IInv

LEMMA ResetPositionsInv ==
  ASSUME IInv, NEW t \in Tag, ResetPositions(t), ops' \in Nat
  PROVE  IInv'
  <1> DEFINE S == {p \in registered : bound[p] = t}
  <1>1. S \in SUBSET Instance /\ BufLen \in 0 .. BufLen /\ TypeOK
      BY DEF IInv, TypeOK, BufLen
  <1>2. Reposition(S, BufLen)
      BY DEF ResetPositions
  <1>3. bound' = [p \in Instance |-> IF p \in S /\ IsWild(p) THEN NoTag ELSE bound[p]]
      BY DEF ResetPositions
  <1>4. TypeOK'
    <2>1. /\ idx' \in [Instance -> Nat] /\ start' \in [Instance -> Nat]
          /\ sent' \in [Instance -> Seq(Nat)]
          /\ {late', untimed', evicted'} \subseteq [Instance -> SUBSET Nat]
        BY <1>1, <1>2, RepositionType
    <2>2. bound' \in [Instance -> Tag \cup {NoTag}]
        BY <1>1, <1>3 DEF TypeOK
    <2> QED
        BY <1>1, <2>1, <2>2 DEF TypeOK, ResetPositions, stream, thread
  <1>5. \A p \in S \cap registered' : Plain(p)'
      BY <1>1, <1>3 DEF IInv, PInv, Plain, IsWild
  <1>6. /\ base' = base /\ log' = log /\ registered' = registered
        /\ \A p \in Instance \ S : bound'[p] = bound[p]
      BY <1>1, <1>3 DEF ResetPositions, stream
  <1>7. \A p \in registered' : PInv(p)'
    <2> HIDE DEF S
    <2> QED
        BY <1>1, <1>2, <1>5, <1>6, RepositionInv
  <1> QED
      BY <1>4, <1>7 DEF IInv

LEMMA CallInv == IInv /\ Call => IInv'
  <1> SUFFICES ASSUME IInv, Call PROVE IInv'
      OBVIOUS
  <1>1. ops' \in Nat /\ Control
      BY DEF Call, IInv, TypeOK
  <1> QED
      BY <1>1, RegisterInv, UnregisterInv, UpdateDelayInv, UpdateTimeshiftInv, ResetPositionsInv
      DEF Control

-----------------------------------------------------------------------------
(* The visits of a pass.                                                     *)

LEMMA MatchesCases ==
  ASSUME NEW p \in Instance, NEW t \in Tag
  PROVE  /\ ~IsWild(p) => (Matches(p, t) <=> t = FilterOf[p])
         /\ IsWild(p) /\ bound[p] # NoTag => (Matches(p, t) <=> t = bound[p])
         /\ IsWild(p) /\ bound[p] = NoTag => (Matches(p, t) <=> Prefixed(p, t))
  BY DEF Matches

(* One processor reads one packet further: either the packet is of another   *)
(* tag than the one it is now bound to, or it is recorded in the history.    *)
LEMMA Moved ==
  ASSUME TypeOK, NEW p \in registered, PInv(p), Visiting(p),
         log' = log, base' = base, start'[p] = start[p], evicted'[p] = evicted[p],
         idx'[p] = idx[p] + 1,
         late[p] \subseteq late'[p], untimed[p] \subseteq untimed'[p],
         sent'[p] \in {sent[p], Append(sent[p], Pos(p) + 1)},
         \/ /\ ~Matches(p, At(idx[p]).tag) /\ bound'[p] = bound[p] /\ sent'[p] = sent[p]
         \/ /\ Matches(p, At(idx[p]).tag) /\ bound'[p] = At(idx[p]).tag
            /\ \/ Pos(p) + 1 \in late'[p] \cup untimed'[p]
               \/ sent'[p] = Append(sent[p], Pos(p) + 1)
  PROVE  PInv(p)'
  <1> DEFINE n == Pos(p) + 1
  <1>1. /\ p \in Instance /\ base \in Nat /\ idx[p] \in Nat /\ start[p] \in Nat /\ Len(log) \in Nat
        /\ sent[p] \in Seq(Nat) /\ \A i \in 1 .. Len(log) : log[i].tag \in Tag
    <2>1. p \in Instance /\ log \in Seq([tag : Tag, rcv : Nat])
        BY DEF TypeOK
    <2>2. \A i \in 1 .. Len(log) : log[i] \in [tag : Tag, rcv : Nat]
        BY <2>1, ElementOfSeq
    <2>3. Len(log) \in Nat
        BY <2>1
    <2> QED
        BY <2>1, <2>2, <2>3 DEF TypeOK
  <1>2. Pos(p)' = n /\ n \in 1 .. Len(log) /\ At(idx[p]) = log[n] /\ start[p] < n
      BY <1>1, SMTT(30) DEF Pos, Visiting, BufLen, At, PInv, Placed
  <1>n. Pos(p) \in Nat /\ 1 .. Pos(p) \subseteq 1 .. n /\ \A i \in 1 .. Pos(p) : i < n
      BY <1>1 DEF Pos
  <1>3. Placed(p)'
      BY <1>1, <1>2 DEF Placed, BufLen, Pos, Visiting
  <1>m. /\ log[n].tag \in Tag
        /\ ~IsWild(p) => (Matches(p, log[n].tag) <=> log[n].tag = FilterOf[p])
        /\ IsWild(p) /\ bound[p] # NoTag => (Matches(p, log[n].tag) <=> log[n].tag = bound[p])
        /\ IsWild(p) /\ bound[p] = NoTag => (Matches(p, log[n].tag) <=> Prefixed(p, log[n].tag))
      BY <1>1, <1>2, MatchesCases
  <1>p. ~IsWild(p) => bound[p] = FilterOf[p] /\ bound[p] # NoTag
      BY <1>1, TagAssumption, FilterAssumption DEF PInv, Plain, IsWild
  <1>b. \/ ~Matches(p, log[n].tag) /\ bound'[p] = bound[p] /\ sent'[p] = sent[p]
        \/ /\ Matches(p, log[n].tag) /\ bound'[p] = log[n].tag
           /\ n \in late'[p] \cup untimed'[p] \/ sent'[p] = Append(sent[p], n)
      BY <1>2
  <1>4. sent[p] # <<>> \/ bound[p] # NoTag => bound[p] # NoTag /\ bound'[p] = bound[p]
    <2>1. sent[p] # <<>> => bound[p] \in Tag
      <3>1. sent[p] # <<>> => 1 \in DOMAIN sent[p]
          BY <1>1
      <3>2. 1 .. Pos(p) \subseteq 1 .. Len(log)
          BY <1>1, <1>2 DEF Pos
      <3> QED
          BY <1>1, <3>1, <3>2 DEF PInv, Recorded
    <2>2. bound[p] # NoTag => bound'[p] = bound[p]
        BY <1>m, <1>p, <1>b
    <2> QED
        BY <2>1, <2>2, TagAssumption
  <1>5. Plain(p)'
      BY <1>m, <1>p, <1>b DEF Plain, IsWild
  <1> DEFINE q == Append(sent[p], n)
  <1>a. /\ DOMAIN q = 1 .. Len(sent[p]) + 1 /\ DOMAIN sent[p] = 1 .. Len(sent[p])
        /\ Len(sent[p]) \in Nat /\ q[Len(sent[p]) + 1] = n /\ Len(sent[p]) + 1 \in DOMAIN q
        /\ \A k \in 1 .. Len(sent[p]) : q[k] = sent[p][k]
    <2>1. n \in Nat
        BY <1>2
    <2> HIDE DEF n
    <2> QED
        BY <1>1, <2>1
  <1>6. \A i : Sent(p, i) => Sent(p, i)'
    <2>1. \A k \in DOMAIN sent[p] : k \in DOMAIN sent'[p] /\ sent'[p][k] = sent[p][k]
        BY <1>a
    <2> QED
        BY <2>1 DEF Sent
  <1>7. Recorded(p)' /\ Ordered(p)'
    <2>1. CASE sent'[p] = sent[p]
      <3>1. Recorded(p)'
          BY <1>1, <1>2, <1>4, <2>1, SMTT(30) DEF PInv, Recorded, Pos
      <3> QED
          BY <2>1, <3>1 DEF PInv, Ordered
    <2>2. CASE sent'[p] = Append(sent[p], n) /\ bound'[p] = log[n].tag
      <3>1. /\ DOMAIN sent'[p] = 1 .. Len(sent[p]) + 1 /\ Len(sent[p]) \in Nat
            /\ sent'[p][Len(sent[p]) + 1] = n
            /\ \A k \in 1 .. Len(sent[p]) : k \in DOMAIN sent[p] /\ sent'[p][k] = sent[p][k]
          BY <1>a, <2>2
      <3>2. \A k \in 1 .. Len(sent[p]) :
               sent'[p][k] \in 1 .. Pos(p) /\ log[sent'[p][k]].tag = bound'[p]
        <4>1. \A k \in 1 .. Len(sent[p]) : sent[p] # <<>> /\ k \in DOMAIN sent[p]
            BY <1>a
        <4> QED
            BY <1>4, <3>1, <4>1 DEF PInv, Recorded
      <3>3. \A k \in DOMAIN sent'[p] : sent'[p][k] \in 1 .. n /\ log[sent'[p][k]].tag = bound'[p]
        <4> SUFFICES ASSUME NEW k \in DOMAIN sent'[p]
                     PROVE  sent'[p][k] \in 1 .. n /\ log[sent'[p][k]].tag = bound'[p]
            OBVIOUS
        <4>1. CASE k = Len(sent[p]) + 1
            BY <1>2, <2>2, <3>1, <4>1
        <4>2. CASE k \in 1 .. Len(sent[p])
            BY <1>n, <3>2, <4>2
        <4> QED
            BY <3>1, <4>1, <4>2
      <3>4. \A i, j \in 1 .. Len(sent[p]) : i < j => sent'[p][i] < sent'[p][j]
          BY <3>1 DEF PInv, Ordered
      <3>5. \A i \in 1 .. Len(sent[p]) : sent'[p][i] < n
          BY <1>n, <3>2
      <3>6. Ordered(p)'
          BY <3>1, <3>4, <3>5, SMTT(30) DEF Ordered
      <3> QED
          BY <1>2, <3>3, <3>6 DEF Recorded
    <2> QED
        BY <1>2, <2>1, <2>2
  <1>8. bound'[p] = NoTag => bound[p] = NoTag /\ IsWild(p) /\ ~Prefixed(p, log[n].tag)
      BY <1>1, <1>2, <1>m, <1>p, <1>b, TagAssumption
  <1>9. \A i \in (start[p] + 1 .. Pos(p))' : i = n \/ i \in start[p] + 1 .. Pos(p)
      BY <1>1, <1>2 DEF Pos
  <1>10. Unread(p)'
      BY <1>8, <1>9 DEF Unread, PInv, Prefixed, IsWild
  <1>11. Complete(p)'
    <2> SUFFICES ASSUME NEW i \in (start[p] + 1 .. Pos(p))', log[i].tag = bound'[p]
                 PROVE  Sent(p, i)' \/ i \in late'[p] \cup untimed'[p] \cup evicted'[p]
        BY DEF Complete
    <2>1. CASE i = n
      <3>1. Matches(p, log[n].tag)
          BY <1>m, <1>p, <1>b, <2>1, TagAssumption
      <3>2. CASE sent'[p] = q
        <4>1. Len(sent[p]) + 1 \in DOMAIN sent'[p] /\ sent'[p][Len(sent[p]) + 1] = i
            BY <1>a, <2>1, <3>2
        <4> QED
            BY <4>1 DEF Sent
      <3> QED
          BY <1>b, <2>1, <3>1, <3>2
    <2>2. CASE i \in start[p] + 1 .. Pos(p) /\ bound'[p] = bound[p]
        BY <1>6, <2>2 DEF PInv, Complete
    <2>3. CASE i \in start[p] + 1 .. Pos(p) /\ bound'[p] # bound[p]
      <3>1. bound[p] = NoTag /\ Matches(p, log[n].tag) /\ bound'[p] = log[n].tag
          BY <1>b, <1>4, <2>3
      <3>2. Prefixed(p, log[i].tag)
          BY <1>m, <1>p, <3>1
      <3> QED
          BY <2>3, <3>1, <3>2 DEF PInv, Unread
    <2> QED
        BY <1>9, <2>1, <2>2, <2>3
  <1> QED
      BY <1>3, <1>5, <1>7, <1>10, <1>11 DEF PInv

(* A visit of p leaves every other processor where it was.                   *)
LEMMA VisitInv ==
  ASSUME IInv, NEW p \in registered, PInv(p)', log' = log, base' = base, registered' = registered,
         \A q \in Instance \ {p} :
           /\ idx'[q] = idx[q] /\ bound'[q] = bound[q] /\ start'[q] = start[q]
           /\ sent'[q] = sent[q] /\ late'[q] = late[q] /\ untimed'[q] = untimed[q]
           /\ evicted'[q] = evicted[q]
  PROVE  \A q \in registered' : PInv(q)'
  <1> SUFFICES ASSUME NEW q \in registered, q # p PROVE PInv(q)'
      OBVIOUS
  <1>1. TypeOK /\ q \in Instance /\ PInv(q)
      BY DEF IInv, TypeOK
  <1> QED
      BY <1>1, Untouched

LEMMA VisitBasics ==
  ASSUME IInv, NEW p \in Instance, Visiting(p)
  PROVE  /\ p \in registered /\ PInv(p) /\ TypeOK /\ pc = "scan" /\ idx[p] + 1 \in Nat
         /\ At(idx[p]).tag \in Tag /\ Pos(p) + 1 \in Nat
  <1>1. TypeOK /\ p \in registered /\ PInv(p) /\ pc = "scan"
      BY DEF IInv, TypeOK, Visiting, Current
  <1>2. base \in Nat /\ idx[p] \in Nat /\ log \in Seq([tag : Tag, rcv : Nat]) /\ Len(log) \in Nat
      BY <1>1 DEF TypeOK
  <1>3. base + idx[p] + 1 \in 1 .. Len(log)
      BY <1>2 DEF Visiting, BufLen
  <1>4. log[base + idx[p] + 1] \in [tag : Tag, rcv : Nat]
      BY <1>2, <1>3, ElementOfSeq
  <1> QED
      BY <1>1, <1>2, <1>4 DEF At, Pos

LEMMA EndOfBufferInv == ASSUME IInv, NEW p \in Instance, EndOfBuffer(p), UNCHANGED ops PROVE IInv'
  <1>1. TypeOK'
      BY DEF IInv, TypeOK, EndOfBuffer, Current, stream, target, history
  <1>2. \A q \in registered' : PInv(q)'
      BY Unmoved DEF EndOfBuffer, target
  <1> QED
      BY <1>1, <1>2 DEF IInv

LEMMA SkipOtherTagInv == ASSUME IInv, NEW p \in Instance, SkipOtherTag(p), UNCHANGED ops PROVE IInv'
  <1> DEFINE t == At(idx[p]).tag
  <1>1. /\ Visiting(p) /\ ~Matches(p, t) /\ Note(p, t)
        /\ idx' = [idx EXCEPT ![p] = @ + 1] /\ todo' \in {todo, {}}
        /\ UNCHANGED <<now, stream, registered, bound, delay, shift, timing, resetting, pc,
                       lastCleanup, history>>
      BY DEF SkipOtherTag, Advance, StayOrCut
  <1>2. /\ p \in registered /\ PInv(p) /\ TypeOK /\ pc = "scan" /\ idx[p] + 1 \in Nat
        /\ t \in Tag /\ Pos(p) + 1 \in Nat
      BY <1>1, VisitBasics
  <1>3. TypeOK'
    <2>1. matched' \in [Instance -> SUBSET Tag]
        BY <1>1, <1>2 DEF Note, TypeOK
    <2> QED
        BY <1>1, <1>2, <2>1 DEF TypeOK, stream, history
  <1>4. PInv(p)'
    <2>1. idx'[p] = idx[p] + 1
        BY <1>1, <1>2 DEF TypeOK
    <2> QED
        BY <1>1, <1>2, <2>1, Moved DEF stream, history
  <1>5. \A q \in registered' : PInv(q)'
      BY <1>1, <1>2, <1>4, VisitInv DEF stream, history, TypeOK
  <1> QED
      BY <1>3, <1>5 DEF IInv

LEMMA SkipUntimedInv == ASSUME IInv, NEW p \in Instance, SkipUntimed(p), UNCHANGED ops PROVE IInv'
  <1> DEFINE t == At(idx[p]).tag
  <1>1. /\ Visiting(p) /\ Matches(p, t)
        /\ bound' = [bound EXCEPT ![p] = t] /\ matched' = [matched EXCEPT ![p] = @ \cup {t}]
        /\ idx' = [idx EXCEPT ![p] = @ + 1] /\ todo' \in {todo, {}}
        /\ untimed' = [untimed EXCEPT ![p] = @ \cup {Pos(p) + 1}]
        /\ UNCHANGED <<now, stream, registered, delay, shift, timing, resetting, pc,
                       lastCleanup, start, sent, late, evicted>>
      BY DEF SkipUntimed, Bind, Advance, StayOrCut
  <1>2. /\ p \in registered /\ PInv(p) /\ TypeOK /\ pc = "scan" /\ idx[p] + 1 \in Nat
        /\ t \in Tag /\ Pos(p) + 1 \in Nat
      BY <1>1, VisitBasics
  <1>3. /\ idx'[p] = idx[p] + 1 /\ bound'[p] = t /\ untimed'[p] = untimed[p] \cup {Pos(p) + 1}
        /\ idx' \in [Instance -> Nat] /\ bound' \in [Instance -> Tag \cup {NoTag}]
        /\ matched' \in [Instance -> SUBSET Tag] /\ untimed' \in [Instance -> SUBSET Nat]
      BY <1>1, <1>2 DEF TypeOK
  <1>4. TypeOK'
      BY <1>1, <1>2, <1>3 DEF TypeOK, stream
  <1>5. PInv(p)'
      BY <1>1, <1>2, <1>3, Moved DEF stream
  <1>6. \A q \in registered' : PInv(q)'
      BY <1>1, <1>2, <1>5, VisitInv DEF stream, TypeOK
  <1> QED
      BY <1>4, <1>6 DEF IInv

LEMMA DiscardLateInv == ASSUME IInv, NEW p \in Instance, DiscardLate(p), UNCHANGED ops PROVE IInv'
  <1> DEFINE t == At(idx[p]).tag
  <1>1. /\ Visiting(p) /\ Matches(p, t)
        /\ bound' = [bound EXCEPT ![p] = t] /\ matched' = [matched EXCEPT ![p] = @ \cup {t}]
        /\ idx' = [idx EXCEPT ![p] = @ + 1] /\ todo' \in {todo, {}}
        /\ late' = [late EXCEPT ![p] = @ \cup {Pos(p) + 1}]
        /\ UNCHANGED <<now, stream, registered, delay, shift, timing, resetting, pc,
                       lastCleanup, start, sent, untimed, evicted>>
      BY DEF DiscardLate, Bind, Advance, StayOrCut
  <1>2. /\ p \in registered /\ PInv(p) /\ TypeOK /\ pc = "scan" /\ idx[p] + 1 \in Nat
        /\ t \in Tag /\ Pos(p) + 1 \in Nat
      BY <1>1, VisitBasics
  <1>3. /\ idx'[p] = idx[p] + 1 /\ bound'[p] = t /\ late'[p] = late[p] \cup {Pos(p) + 1}
        /\ idx' \in [Instance -> Nat] /\ bound' \in [Instance -> Tag \cup {NoTag}]
        /\ matched' \in [Instance -> SUBSET Tag] /\ late' \in [Instance -> SUBSET Nat]
      BY <1>1, <1>2 DEF TypeOK
  <1>4. TypeOK'
      BY <1>1, <1>2, <1>3 DEF TypeOK, stream
  <1>5. PInv(p)'
      BY <1>1, <1>2, <1>3, Moved DEF stream
  <1>6. \A q \in registered' : PInv(q)'
      BY <1>1, <1>2, <1>5, VisitInv DEF stream, TypeOK
  <1> QED
      BY <1>4, <1>6 DEF IInv

LEMMA DispatchInv == ASSUME IInv, NEW p \in Instance, Dispatch(p), UNCHANGED ops PROVE IInv'
  <1> DEFINE t == At(idx[p]).tag
  <1>1. /\ Visiting(p) /\ Matches(p, t)
        /\ bound' = [bound EXCEPT ![p] = t] /\ matched' = [matched EXCEPT ![p] = @ \cup {t}]
        /\ idx' = [idx EXCEPT ![p] = @ + 1] /\ todo' \in {todo \ {p}, {}}
        /\ sent' = [sent EXCEPT ![p] = Append(@, Pos(p) + 1)]
        /\ UNCHANGED <<now, stream, registered, delay, shift, timing, resetting, pc,
                       lastCleanup, start, late, untimed, evicted>>
      BY DEF Dispatch, Bind, Advance, LeaveOrCut
  <1>2. /\ p \in registered /\ PInv(p) /\ TypeOK /\ pc = "scan" /\ idx[p] + 1 \in Nat
        /\ t \in Tag /\ Pos(p) + 1 \in Nat
      BY <1>1, VisitBasics
  <1>s. Append(sent[p], Pos(p) + 1) \in Seq(Nat)
      BY <1>2 DEF TypeOK
  <1>3. /\ idx'[p] = idx[p] + 1 /\ bound'[p] = t /\ sent'[p] = Append(sent[p], Pos(p) + 1)
        /\ idx' \in [Instance -> Nat] /\ bound' \in [Instance -> Tag \cup {NoTag}]
        /\ matched' \in [Instance -> SUBSET Tag] /\ sent' \in [Instance -> Seq(Nat)]
      BY <1>1, <1>2, <1>s DEF TypeOK
  <1>4. TypeOK'
      BY <1>1, <1>2, <1>3 DEF TypeOK, stream
  <1>5. PInv(p)'
      BY <1>1, <1>2, <1>3, Moved DEF stream
  <1>6. \A q \in registered' : PInv(q)'
      BY <1>1, <1>2, <1>5, VisitInv DEF stream, TypeOK
  <1> QED
      BY <1>4, <1>6 DEF IInv

(* Waiting may bind a wildcard that was not bound: it has sent nothing yet   *)
(* and passed no packet of the tag it is bound to now.                       *)
LEMMA WaitInv == ASSUME IInv, NEW p \in Instance, Wait(p), UNCHANGED ops PROVE IInv'
  <1> DEFINE t == At(idx[p]).tag
  <1>1. /\ Visiting(p) /\ Matches(p, t)
        /\ bound' = [bound EXCEPT ![p] = t] /\ matched' = [matched EXCEPT ![p] = @ \cup {t}]
        /\ todo' \in {todo \ {p}, {}}
        /\ UNCHANGED <<now, stream, registered, delay, shift, idx, timing, resetting, pc,
                       lastCleanup, history>>
      BY DEF Wait, Bind, LeaveOrCut
  <1>2. /\ p \in registered /\ PInv(p) /\ TypeOK /\ pc = "scan" /\ t \in Tag
      BY <1>1, VisitBasics
  <1>3. /\ bound'[p] = t /\ bound' \in [Instance -> Tag \cup {NoTag}]
        /\ matched' \in [Instance -> SUBSET Tag]
      BY <1>1, <1>2 DEF TypeOK
  <1>4. TypeOK'
      BY <1>1, <1>2, <1>3 DEF TypeOK, stream, history
  <1>5. PInv(p)'
    <2>1. CASE bound'[p] = bound[p]
        BY <1>1, <1>2, <2>1, Untouched DEF stream, history
    <2>2. CASE bound'[p] # bound[p]
      <3>1. IsWild(p) /\ bound[p] = NoTag /\ Prefixed(p, t)
          BY <1>1, <1>2, <1>3, <2>2, MatchesCases DEF PInv, Plain
      <3>2. DOMAIN sent[p] = {}
        <4>1. \A i \in 1 .. Pos(p) : log[i].tag \in Tag
          <5>1. /\ log \in Seq([tag : Tag, rcv : Nat]) /\ Pos(p) \in Nat /\ Pos(p) <= Len(log)
                /\ Len(log) \in Nat
              BY <1>2 DEF TypeOK, Pos, PInv, Placed, BufLen
          <5>2. 1 .. Pos(p) \subseteq 1 .. Len(log)
              BY <5>1
          <5>3. \A i \in 1 .. Len(log) : log[i] \in [tag : Tag, rcv : Nat]
              BY <5>1, ElementOfSeq
          <5> QED
              BY <5>2, <5>3
        <4> QED
            BY <1>2, <3>1, <4>1, TagAssumption DEF PInv, Recorded
      <3>3. \A i \in start[p] + 1 .. Pos(p) : log[i].tag = t => i \in evicted[p]
          BY <1>2, <3>1 DEF PInv, Unread
      <3>4. /\ Pos(p)' = Pos(p) /\ idx' = idx /\ start' = start /\ sent' = sent /\ evicted' = evicted
            /\ log' = log /\ base' = base
          BY <1>1 DEF Pos, stream, history
      <3>5. Placed(p)' /\ Recorded(p)' /\ Ordered(p)'
          BY <1>2, <3>2, <3>4 DEF PInv, Placed, Recorded, Ordered, BufLen
      <3>6. Plain(p)' /\ Unread(p)'
          BY <1>2, <1>3, <3>1, TagAssumption DEF Plain, Unread, IsWild
      <3>7. Complete(p)'
          BY <1>3, <3>3, <3>4 DEF Complete
      <3> QED
          BY <3>5, <3>6, <3>7 DEF PInv
    <2> QED
        BY <2>1, <2>2
  <1>6. \A q \in registered' : PInv(q)'
      BY <1>1, <1>2, <1>5, VisitInv DEF stream, history, TypeOK
  <1> QED
      BY <1>4, <1>6 DEF IInv

-----------------------------------------------------------------------------
(* The rest of the pass.                                                     *)
LEMMA BeginPassInv == ASSUME IInv, BeginPass, UNCHANGED ops PROVE IInv'
  <1>1. TypeOK'
      BY DEF IInv, TypeOK, BeginPass, stream, target, history
  <1>2. \A q \in registered' : PInv(q)'
      BY Unmoved DEF BeginPass, target
  <1> QED
      BY <1>1, <1>2 DEF IInv

LEMMA EndPassInv == ASSUME IInv, EndPass, UNCHANGED ops PROVE IInv'
  <1>1. TypeOK'
      BY DEF IInv, TypeOK, EndPass, stream, target, history
  <1>2. \A q \in registered' : PInv(q)'
      BY Unmoved DEF EndPass, target
  <1> QED
      BY <1>1, <1>2 DEF IInv

(* The cleanup moves an index with the packets: the packet it points at is   *)
(* the same, unless that one was removed, and then all it jumps over was.    *)
LEMMA CleanupInv == ASSUME IInv, Cleanup, UNCHANGED ops PROVE IInv'
  <1>1. PICK n \in 0 .. BufLen :
          /\ base' = base + n
          /\ idx' = [p \in Instance |-> IF p \in registered THEN ShiftBack(idx[p], n) ELSE idx[p]]
          /\ evicted' = [p \in Instance |-> IF p \in registered
                                            THEN evicted[p] \cup (Pos(p) + 1 .. base + n)
                                            ELSE evicted[p]]
      BY DEF Cleanup
  <1>2. /\ pc' = "idle" /\ lastCleanup' = now
        /\ UNCHANGED <<now, log, target, timing, resetting, todo, start, sent, late, untimed>>
      BY DEF Cleanup
  <1>3. /\ TypeOK /\ pc = "clean" /\ Len(log) \in Nat /\ base \in Nat /\ n \in Nat
        /\ base + n <= Len(log)
      BY DEF IInv, TypeOK, Cleanup, BufLen
  <1>4. ASSUME NEW p \in Instance
        PROVE  /\ idx[p] \in Nat /\ ShiftBack(idx[p], n) \in Nat
               /\ evicted[p] \cup (Pos(p) + 1 .. base + n) \in SUBSET Nat
               /\ evicted[p] \in SUBSET Nat
    <2>1. idx[p] \in Nat /\ evicted[p] \in SUBSET Nat
        BY <1>3 DEF TypeOK
    <2> QED
        BY <1>3, <2>1 DEF ShiftBack, Pos
  <1>5. TypeOK'
    <2>1. idx' \in [Instance -> Nat] /\ evicted' \in [Instance -> SUBSET Nat]
        BY <1>1, <1>4
    <2>2. base' \in 0 .. Len(log')
        BY <1>1, <1>2, <1>3
    <2> QED
        BY <1>2, <1>3, <2>1, <2>2 DEF TypeOK, target
  <1>6. ASSUME NEW p \in registered PROVE PInv(p)'
    <2>1. p \in Instance /\ PInv(p) /\ idx[p] \in Nat /\ start[p] \in Nat
        BY <1>3 DEF IInv, TypeOK
    <2>2. /\ idx'[p] = ShiftBack(idx[p], n) /\ evicted'[p] = evicted[p] \cup (Pos(p) + 1 .. base + n)
          /\ start'[p] = start[p] /\ sent' = sent /\ late' = late /\ untimed' = untimed /\ bound' = bound
          /\ log' = log
        BY <1>1, <1>2, <2>1 DEF target
    <2>3. /\ Pos(p) \in Nat /\ Pos(p)' \in Nat /\ Pos(p)' >= Pos(p) /\ Pos(p)' <= Len(log)
          /\ Pos(p)' > Pos(p) => Pos(p)' = base + n
      <3>1. Pos(p) = base + idx[p] /\ base + idx[p] <= Len(log)
          BY <1>3, <2>1 DEF Pos, PInv, Placed, BufLen
      <3>2. Pos(p)' = base + n + ShiftBack(idx[p], n)
          BY <1>1, <2>2 DEF Pos
      <3>3. CASE idx[p] < n
          BY <1>3, <2>1, <3>1, <3>2, <3>3 DEF ShiftBack
      <3>4. CASE idx[p] >= n
          BY <1>3, <2>1, <3>1, <3>2, <3>4 DEF ShiftBack
      <3> QED
          BY <1>3, <2>1, <3>3, <3>4
    <2>4. Placed(p)'
      <3>1. Pos(p)' = base + n + idx'[p] /\ idx'[p] \in Nat
          BY <1>1, <1>4, <2>1, <2>2 DEF Pos
      <3>2. idx'[p] <= BufLen'
          BY <1>1, <1>3, <2>2, <2>3, <3>1 DEF BufLen
      <3>3. start[p] <= Pos(p)
          BY <2>1 DEF PInv, Placed
      <3> QED
          BY <2>1, <2>2, <2>3, <3>2, <3>3 DEF Placed
    <2>5. Recorded(p)' /\ Ordered(p)' /\ Plain(p)'
        BY <2>1, <2>2, <2>3 DEF PInv, Recorded, Ordered, Plain, IsWild
    <2>6. \A i \in (start[p] + 1 .. Pos(p))' : i \in start[p] + 1 .. Pos(p) \/ i \in evicted'[p]
        BY <1>3, <2>1, <2>2, <2>3
    <2>7. Unread(p)'
        BY <2>1, <2>2, <2>6 DEF PInv, Unread, Prefixed, IsWild
    <2>8. Complete(p)'
        BY <2>1, <2>2, <2>6 DEF PInv, Complete, Sent
    <2> QED
        BY <2>4, <2>5, <2>7, <2>8 DEF PInv
  <1> QED
      BY <1>2, <1>5, <1>6 DEF IInv, target

LEMMA RunThreadInv == IInv /\ RunThread => IInv'
  BY EndOfBufferInv, SkipOtherTagInv, SkipUntimedInv, WaitInv, DiscardLateInv, DispatchInv,
     BeginPassInv, EndPassInv, CleanupInv
  DEF RunThread, Visit

LEMMA StutterInv == IInv /\ UNCHANGED vars => IInv'
  <1> SUFFICES ASSUME IInv, UNCHANGED vars PROVE IInv'
      OBVIOUS
  <1>1. TypeOK'
      BY DEF IInv, TypeOK, vars, stream, target, thread, history
  <1>2. \A q \in registered' : PInv(q)'
      BY Unmoved DEF vars, target
  <1> QED
      BY <1>1, <1>2 DEF IInv

-----------------------------------------------------------------------------
(* IInv is an inductive invariant of the buffer.                             *)
THEOREM Invariance == Spec => []IInv
  <1>1. Init => IInv
      BY InitInv
  <1>2. IInv /\ [Next]_vars => IInv'
      BY TickInv, ArriveInv, RunThreadInv, CallInv, ForgetInv, StutterInv DEF Next
  <1> QED
      BY <1>1, <1>2, PTL DEF Spec

(* Every variable keeps its type; in particular no list of processors left   *)
(* over from a pass survives it.                                             *)
THEOREM TypeCorrect == Spec => []TypeOK
  <1>1. IInv => TypeOK
      BY DEF IInv
  <1> QED
      BY <1>1, Invariance, PTL

(* processing_loop_iteration_unlocked never indexes the deque past its end.  *)
THEOREM IndexSafe == Spec => []IndexInBuffer
  <1>1. IInv => IndexInBuffer
      BY DEF IInv, PInv, Placed, IndexInBuffer
  <1> QED
      BY <1>1, Invariance, PTL

(* No packet of a processor's stream is passed over in silence, however the  *)
(* passes, the cleanups and the repositionings interleave.                   *)
THEOREM NoSilentSkip == Spec => []NothingSkipped
  <1>1. IInv => NothingSkipped
      BY DEF IInv, PInv, Complete, Sent, NothingSkipped
  <1> QED
      BY <1>1, Invariance, PTL

(* A processor is sent its packets in the order they entered the buffer, and *)
(* none twice.                                                               *)
THEOREM InOrder == Spec => []DispatchedInOrder
  <1>1. IInv => DispatchedInOrder
      BY DEF IInv, PInv, Ordered, DispatchedInOrder
  <1> QED
      BY <1>1, Invariance, PTL

(* A wildcard processor never mixes two streams.                             *)
THEOREM SingleStream == Spec => []OneStream
  <1>1. IInv => OneStream
      BY DEF IInv, PInv, Recorded, OneStream
  <1> QED
      BY <1>1, Invariance, PTL
=============================================================================
