---------------------------- MODULE EngineProofs ----------------------------
(* The calls of the engine, whatever the threads that make them and the      *)
(* states they are asked to reach: no deadlock, and a configuration applier  *)
(* that knows what it made.                                                  *)
EXTENDS MCEngine, FiniteSetTheorems, SequenceTheorems, TLAPS

-----------------------------------------------------------------------------
(* EngineLocks. The locks in the order in which they are taken; a pass takes *)
(* the managers' lock last, a call that attaches or detaches a ring takes it *)
(* first, and every other call takes it with no other lock.                  *)
Rank == [l \in locks!Lock |-> CASE l = "data" -> 1 [] l = "timing_map" -> 2 [] l = "stream" -> 3
                                [] l = "pipeline" -> 4 [] l = "manager" -> 5]

(* What a thread holds: how often each lock.                                 *)
Holding  == [locks!Lock -> Nat]
Nothing  == [l \in locks!Lock |-> 0]
With(h, l)    == [m \in locks!Lock |-> IF m = l THEN h[m] + 1 ELSE h[m]]
Without(h, l) == [m \in locks!Lock |-> IF m = l THEN h[m] - 1 ELSE h[m]]

(* Lock l may be asked for in call c by a thread that holds h.               *)
Ordered(c, h, l) ==
  /\ l # "manager" => \A m \in locks!Lock \ {"manager"} : h[m] > 0 => Rank[m] < Rank[l]
  /\ l # "manager" /\ h["manager"] > 0 => l = "data" /\ c \in locks!Attaching
  /\ l = "manager" => \A m \in locks!Lock \ {"manager"} : h[m] > 0 => c = "pass" /\ h["data"] > 0

LockStep == [take : BOOLEAN, lock : locks!Lock]

(* Step e takes a thread from holding h to holding k.                        *)
Does(c, e, h, k) ==
  \/ e.take  /\ Ordered(c, h, e.lock) /\ k = With(h, e.lock)
  \/ ~e.take /\ h[e.lock] > 0 /\ k = Without(h, e.lock)

(* f tells what is held before each of the steps s, and after the last.      *)
Tells(c, f, s, h, k) ==
  /\ f \in [1 .. Len(s) + 1 -> Holding]
  /\ f[1] = h /\ f[Len(s) + 1] = k
  /\ \A i \in 1 .. Len(s) : Does(c, s[i], f[i], f[i + 1])

(* The steps s lead from h to k.                                             *)
Leads(c, s, h, k) == s \in Seq(LockStep) /\ Len(s) > 0 /\ \E f : Tells(c, f, s, h, k)

LEMMA TakeLeads ==
  ASSUME NEW c, NEW h \in Holding, NEW l \in locks!Lock, Ordered(c, h, l)
  PROVE  With(h, l) \in Holding /\ Leads(c, locks!Take(l), h, With(h, l))
  <1> DEFINE s == locks!Take(l)
             f == [i \in 1 .. 2 |-> IF i = 1 THEN h ELSE With(h, l)]
  <1>1. With(h, l) \in Holding
      BY DEF With, Holding
  <1>2. s \in Seq(LockStep) /\ Len(s) = 1 /\ s[1] = [take |-> TRUE, lock |-> l]
      BY DEF locks!Take, LockStep
  <1>3. Does(c, s[1], h, With(h, l))
      BY <1>2 DEF Does
  <1>4. Tells(c, f, s, h, With(h, l))
    <2>1. f \in [1 .. Len(s) + 1 -> Holding] /\ f[1] = h /\ f[Len(s) + 1] = With(h, l)
        BY <1>1, <1>2
    <2>2. ASSUME NEW i \in 1 .. Len(s) PROVE Does(c, s[i], f[i], f[i + 1])
      <3>1. i = 1 /\ f[i] = h /\ f[i + 1] = With(h, l)
          BY <1>2
      <3> QED
          BY <3>1, <1>3
    <2> QED
        BY <2>1, <2>2 DEF Tells
  <1> QED
      BY <1>1, <1>2, <1>4 DEF Leads

LEMMA GiveLeads ==
  ASSUME NEW c, NEW h \in Holding, NEW l \in locks!Lock, h[l] > 0
  PROVE  Without(h, l) \in Holding /\ Leads(c, locks!Give(l), h, Without(h, l))
  <1> DEFINE s == locks!Give(l)
             f == [i \in 1 .. 2 |-> IF i = 1 THEN h ELSE Without(h, l)]
  <1>1. Without(h, l) \in Holding
    <2>1. h[l] \in Nat /\ h[l] - 1 \in Nat
        BY DEF Holding
    <2> QED
        BY <2>1 DEF Without, Holding
  <1>2. s \in Seq(LockStep) /\ Len(s) = 1 /\ s[1] = [take |-> FALSE, lock |-> l]
      BY DEF locks!Give, LockStep
  <1>3. Does(c, s[1], h, Without(h, l))
      BY <1>2 DEF Does
  <1>4. Tells(c, f, s, h, Without(h, l))
    <2>1. f \in [1 .. Len(s) + 1 -> Holding] /\ f[1] = h /\ f[Len(s) + 1] = Without(h, l)
        BY <1>1, <1>2
    <2>2. ASSUME NEW i \in 1 .. Len(s) PROVE Does(c, s[i], f[i], f[i + 1])
      <3>1. i = 1 /\ f[i] = h /\ f[i + 1] = Without(h, l)
          BY <1>2
      <3> QED
          BY <3>1, <1>3
    <2> QED
        BY <2>1, <2>2 DEF Tells
  <1> QED
      BY <1>1, <1>2, <1>4 DEF Leads

(* One after the other.                                                      *)
LEMMA ThenLeads ==
  ASSUME NEW c, NEW h, NEW k, NEW m, NEW s, NEW t,
         Leads(c, s, h, k), Leads(c, t, k, m)
  PROVE  Leads(c, s \o t, h, m)
  <1>1. PICK f : Tells(c, f, s, h, k)
      BY DEF Leads
  <1>2. PICK g : Tells(c, g, t, k, m)
      BY DEF Leads
  <1> DEFINE n == Len(s)
             j == [i \in 1 .. n + Len(t) + 1 |-> IF i <= n THEN f[i] ELSE g[i - n]]
  <1>3. /\ s \in Seq(LockStep) /\ t \in Seq(LockStep) /\ n \in Nat /\ Len(t) \in Nat
        /\ s \o t \in Seq(LockStep) /\ Len(s \o t) = n + Len(t)
        /\ \A i \in 1 .. n + Len(t) : (s \o t)[i] = IF i <= n THEN s[i] ELSE t[i - n]
      BY ConcatProperties, LenProperties DEF Leads
  <1>4. /\ f \in [1 .. n + 1 -> Holding] /\ f[1] = h /\ f[n + 1] = k
        /\ \A i \in 1 .. n : Does(c, s[i], f[i], f[i + 1])
      BY <1>1 DEF Tells
  <1>5. /\ g \in [1 .. Len(t) + 1 -> Holding] /\ g[1] = k /\ g[Len(t) + 1] = m
        /\ \A i \in 1 .. Len(t) : Does(c, t[i], g[i], g[i + 1])
      BY <1>2 DEF Tells
  <1>6. j \in [1 .. n + Len(t) + 1 -> Holding]
      BY <1>3, <1>4, <1>5
  <1>7. j[1] = h /\ j[n + Len(t) + 1] = m
      BY <1>3, <1>4, <1>5
  <1>8. ASSUME NEW i \in 1 .. n + Len(t) PROVE Does(c, (s \o t)[i], j[i], j[i + 1])
    <2>1. CASE i <= n
      <3>1. i \in 1 .. n /\ i + 1 \in 1 .. n + Len(t) + 1 /\ (s \o t)[i] = s[i] /\ j[i] = f[i]
          BY <2>1, <1>3
      <3>2. j[i + 1] = f[i + 1]
        <4>1. CASE i + 1 <= n
            BY <3>1, <4>1
        <4>2. CASE i = n
          <5>1. j[i + 1] = g[1]
              BY <1>3, <3>1, <4>2
          <5> QED
              BY <5>1, <1>4, <1>5, <4>2
        <4> QED
            BY <1>3, <3>1, <4>1, <4>2
      <3> QED
          BY <3>1, <3>2, <1>4
    <2>2. CASE i > n
      <3>1. i - n \in 1 .. Len(t) /\ (s \o t)[i] = t[i - n] /\ j[i] = g[i - n] /\ j[i + 1] = g[(i - n) + 1]
          BY <2>2, <1>3, <1>4, <1>5
      <3> QED
          BY <3>1, <1>5
    <2> QED
        BY <2>1, <2>2, <1>3
  <1>9. Tells(c, j, s \o t, h, m)
      BY <1>3, <1>6, <1>7, <1>8 DEF Tells
  <1> QED
      BY <1>3, <1>9 DEF Leads

LEMMA TakenAndGiven ==
  ASSUME NEW h \in Holding, NEW l \in locks!Lock
  PROVE  With(h, l)[l] > 0 /\ Without(With(h, l), l) = h
  <1>1. h = [m \in locks!Lock |-> h[m]] /\ \A m \in locks!Lock : h[m] \in Nat
      BY DEF Holding
  <1>2. With(h, l)[l] > 0
      BY <1>1 DEF With
  <1>3. \A m \in locks!Lock : Without(With(h, l), l)[m] = h[m]
      BY <1>1 DEF With, Without
  <1>4. Without(With(h, l), l) = [m \in locks!Lock |-> Without(With(h, l), l)[m]]
      BY DEF Without
  <1> QED
      BY <1>1, <1>2, <1>3, <1>4

LEMMA SectionLeads ==
  ASSUME NEW c, NEW h \in Holding, NEW l \in locks!Lock, Ordered(c, h, l)
  PROVE  Leads(c, locks!Section(l), h, h)
  <1>1. With(h, l) \in Holding /\ Leads(c, locks!Take(l), h, With(h, l))
      BY TakeLeads
  <1>2. With(h, l)[l] > 0 /\ Without(With(h, l), l) = h
      BY TakenAndGiven
  <1>3. Leads(c, locks!Give(l), With(h, l), h)
      BY <1>1, <1>2, GiveLeads
  <1> QED
      BY <1>1, <1>3, ThenLeads DEF locks!Section

LEMMA WithinLeads ==
  ASSUME NEW c, NEW h \in Holding, NEW l \in locks!Lock, Ordered(c, h, l),
         NEW s, With(h, l) \in Holding => Leads(c, s, With(h, l), With(h, l))
  PROVE  Leads(c, locks!Within(l, s), h, h)
  <1>1. With(h, l) \in Holding /\ Leads(c, locks!Take(l), h, With(h, l))
      BY TakeLeads
  <1>2. With(h, l)[l] > 0 /\ Without(With(h, l), l) = h
      BY TakenAndGiven
  <1>3. Leads(c, locks!Give(l), With(h, l), h)
      BY <1>1, <1>2, GiveLeads
  <1>4. Leads(c, locks!Take(l) \o s, h, With(h, l))
      BY <1>1, ThenLeads
  <1> QED
      BY <1>3, <1>4, ThenLeads DEF locks!Within

(* get_timing_state returns with the stream's lock held and the map's not.   *)
LEMMA TakeStreamLeads ==
  ASSUME NEW c, NEW h \in Holding,
         \A l \in locks!Lock \ {"data"} : h[l] = 0
  PROVE  /\ With(h, "stream") \in Holding
         /\ Leads(c, locks!TakeStream, h, With(h, "stream"))
  <1> DEFINE mapped == With(h, "timing_map")
             both   == With(mapped, "stream")
  <1>1. Ordered(c, h, "timing_map")
      BY DEF Ordered, Rank, locks!Lock, Holding
  <1>2. mapped \in Holding /\ Leads(c, locks!Take("timing_map"), h, mapped)
      BY <1>1, TakeLeads DEF locks!Lock
  <1>3. Ordered(c, mapped, "stream")
      BY DEF Ordered, Rank, With, locks!Lock, Holding
  <1>4. both \in Holding /\ Leads(c, locks!Take("stream"), mapped, both)
      BY <1>2, <1>3, TakeLeads DEF locks!Lock
  <1>5. both["timing_map"] > 0 /\ Without(both, "timing_map") = With(h, "stream")
      BY DEF With, Without, locks!Lock, Holding
  <1>6. With(h, "stream") \in Holding /\ Leads(c, locks!Give("timing_map"), both, With(h, "stream"))
    <2> HIDE DEF both
    <2> QED
        BY <1>4, <1>5, GiveLeads DEF locks!Lock
  <1>7. Leads(c, locks!Take("timing_map") \o locks!Take("stream"), h, both)
    <2> HIDE DEF both, mapped
    <2> QED
        BY <1>2, <1>4, ThenLeads
  <1> QED
    <2> HIDE DEF both, mapped
    <2> QED
        BY <1>6, <1>7, ThenLeads DEF locks!TakeStream

(* What a thread may ask for that holds no lock, the buffer's or the         *)
(* managers'.                                                                *)
LEMMA FromNothing ==
  ASSUME NEW c
  PROVE  Nothing \in Holding /\ \A l \in locks!Lock : Ordered(c, Nothing, l)
  <1>1. Nothing \in Holding /\ \A l \in locks!Lock : ~(Nothing[l] > 0)
      BY DEF Nothing, Holding
  <1>2. "manager" \in locks!Lock
      BY DEF locks!Lock
  <1> QED
      BY <1>1, <1>2 DEF Ordered

LEMMA FromData ==
  ASSUME NEW c
  PROVE  /\ With(Nothing, "data") \in Holding
         /\ \A l \in locks!Lock \ {"data"} : With(Nothing, "data")[l] = 0
  BY DEF Nothing, Holding, With

LEMMA FromManager ==
  ASSUME NEW c
  PROVE  /\ With(Nothing, "manager") \in Holding
         /\ Ordered(c, With(Nothing, "manager"), "manager")
         /\ c \in locks!Attaching => Ordered(c, With(Nothing, "manager"), "data")
  BY DEF Nothing, Holding, With, Ordered, Rank, locks!Lock

(* A section of each lock, from nothing.                                     *)
LEMMA SectionsLead ==
  ASSUME NEW c, NEW l \in locks!Lock
  PROVE  Leads(c, locks!Section(l), Nothing, Nothing)
  BY FromNothing, SectionLeads

(* The stream's lock is given back while nothing or the buffer's is held.    *)
LEMMA StreamGiven ==
  ASSUME NEW c, NEW h \in Holding
  PROVE  /\ With(h, "stream") \in Holding
         /\ Leads(c, locks!Give("stream"), With(h, "stream"), h)
  <1>1. With(h, "stream") \in Holding
      BY DEF With, Holding
  <1>2. With(h, "stream")["stream"] > 0 /\ Without(With(h, "stream"), "stream") = h
      BY TakenAndGiven DEF locks!Lock
  <1> QED
      BY <1>1, <1>2, GiveLeads DEF locks!Lock

(* A pass: the fill levels are asked for with the stream's lock held.        *)
LEMMA PassLeads == Leads("pass", locks!Pass, Nothing, Nothing)
  <1> DEFINE held  == With(Nothing, "data")
             deep  == With(held, "stream")
             asked == With(deep, "pipeline")
  <1>1. held \in Holding /\ \A l \in locks!Lock \ {"data"} : held[l] = 0
      BY FromData
  <1>2. deep \in Holding /\ Leads("pass", locks!TakeStream, held, deep)
      BY <1>1, TakeStreamLeads
  <1>3. Ordered("pass", deep, "pipeline") /\ Ordered("pass", asked, "manager")
      BY DEF Ordered, Rank, With, Nothing, locks!Lock
  <1>4. Leads("pass", locks!AskPipeline, deep, deep)
    <2>1. ASSUME asked \in Holding
          PROVE  Leads("pass", locks!Section("manager"), asked, asked)
        BY <2>1, <1>3, SectionLeads DEF locks!Lock
    <2> HIDE DEF deep
    <2> QED
        BY <2>1, <1>2, <1>3, WithinLeads DEF locks!AskPipeline, locks!Lock
  <1>5. Leads("pass", locks!Give("stream"), deep, held)
      BY <1>1, StreamGiven
  <1>6. Leads("pass", locks!TakeStream \o locks!AskPipeline \o locks!Give("stream"), held, held)
    <2> HIDE DEF deep, held
    <2>1. Leads("pass", locks!TakeStream \o locks!AskPipeline, held, deep)
        BY <1>2, <1>4, ThenLeads
    <2> QED
        BY <2>1, <1>5, ThenLeads
  <1> QED
      BY <1>6, FromNothing, WithinLeads DEF locks!Pass, locks!Lock
(* A packet comes in, and the clock of its stream may jump.                  *)
LEMMA IngestLeads ==
  ASSUME NEW c
  PROVE  /\ Leads(c, locks!Ingest, Nothing, Nothing)
         /\ Leads(c, locks!IngestJump, Nothing, Nothing)
  <1> DEFINE held == With(Nothing, "data")
             deep == With(held, "stream")
             tail == With(Nothing, "stream")
  <1>1. held \in Holding /\ \A l \in locks!Lock \ {"data"} : held[l] = 0
      BY FromData
  <1>2. Leads(c, locks!Take("data"), Nothing, held)
      BY FromNothing, TakeLeads DEF locks!Lock
  <1>3. deep \in Holding /\ Leads(c, locks!TakeStream, held, deep)
      BY <1>1, TakeStreamLeads
  <1>4. Leads(c, locks!Give("stream"), deep, held)
      BY <1>1, StreamGiven
  <1>5. Leads(c, locks!Give("data"), deep, tail)
    <2>1. deep["data"] > 0 /\ Without(deep, "data") = tail
        BY DEF With, Without, Nothing, locks!Lock
    <2> HIDE DEF deep, tail
    <2> QED
        BY <2>1, <1>3, GiveLeads DEF locks!Lock
  <1>6. Leads(c, locks!Give("stream"), tail, Nothing)
      BY FromNothing, StreamGiven
  <1> HIDE DEF held, deep, tail
  <1>7. Leads(c, locks!Take("data") \o locks!TakeStream, Nothing, deep)
      BY <1>2, <1>3, ThenLeads
  <1>8. Leads(c, locks!Ingest, Nothing, Nothing)
    <2>1. Leads(c, locks!Take("data") \o locks!TakeStream \o locks!Give("data"), Nothing, tail)
        BY <1>5, <1>7, ThenLeads
    <2> QED
        BY <2>1, <1>6, ThenLeads DEF locks!Ingest
  <1>9. Leads(c, locks!IngestJump, Nothing, Nothing)
    <2>1. Leads(c, locks!Take("data") \o locks!TakeStream \o locks!Give("stream"), Nothing, held)
        BY <1>4, <1>7, ThenLeads
    <2>2. Leads(c, locks!Take("data") \o locks!TakeStream \o locks!Give("stream")
                         \o locks!TakeStream, Nothing, deep)
        BY <2>1, <1>3, ThenLeads
    <2>3. Leads(c, locks!Take("data") \o locks!TakeStream \o locks!Give("stream")
                         \o locks!TakeStream \o locks!Give("data"), Nothing, tail)
        BY <2>2, <1>5, ThenLeads
    <2> QED
        BY <2>3, <1>6, ThenLeads DEF locks!IngestJump
  <1> QED
      BY <1>8, <1>9

(* The calls that take one lock after the other.                             *)
LEMMA PlainLeads ==
  ASSUME NEW c
  PROVE  /\ Leads(c, locks!EmptyPass, Nothing, Nothing)
         /\ Leads(c, locks!Register, Nothing, Nothing)
         /\ Leads(c, locks!SpawnChild, Nothing, Nothing)
         /\ Leads(c, locks!EraseSource, Nothing, Nothing)
         /\ Leads(c, locks!UpdateParameters, Nothing, Nothing)
         /\ Leads(c, locks!AddSink, Nothing, Nothing)
         /\ Leads(c, locks!RemoveSink, Nothing, Nothing)
  <1>1. /\ Leads(c, locks!Section("manager"), Nothing, Nothing)
        /\ Leads(c, locks!Section("data"), Nothing, Nothing)
      BY SectionsLead DEF locks!Lock
  <1>2. Leads(c, locks!Section("manager") \o locks!Section("manager"), Nothing, Nothing)
      BY <1>1, ThenLeads
  <1>3. Leads(c, locks!Register, Nothing, Nothing)
      BY <1>1, ThenLeads DEF locks!Register
  <1>4. Leads(c, locks!SpawnChild, Nothing, Nothing)
      BY <1>1, <1>3, ThenLeads DEF locks!SpawnChild
  <1>5. Leads(c, locks!EraseSource, Nothing, Nothing)
    <2>1. Leads(c, locks!Section("manager") \o locks!Section("manager") \o locks!Section("manager"),
                Nothing, Nothing)
        BY <1>1, <1>2, ThenLeads
    <2> QED
        BY <2>1, <1>1, ThenLeads DEF locks!EraseSource
  <1>6. Leads(c, locks!UpdateParameters, Nothing, Nothing)
    <2> DEFINE held == With(Nothing, "manager")
    <2>1. Leads(c, locks!Section("manager"), held, held)
        BY FromManager, SectionLeads DEF locks!Lock
    <2>2. Leads(c, locks!Within("manager", locks!Section("manager")), Nothing, Nothing)
        BY <2>1, FromNothing, WithinLeads DEF locks!Lock
    <2> QED
        BY <2>2, <1>1, ThenLeads DEF locks!UpdateParameters
  <1> QED
      BY <1>1, <1>2, <1>3, <1>4, <1>5, <1>6 DEF locks!EmptyPass, locks!AddSink, locks!RemoveSink

(* The calls that ask for a stream's state with no lock held.                *)
LEMMA StreamLeads ==
  ASSUME NEW c
  PROVE  /\ Leads(c, locks!ResetStream, Nothing, Nothing)
         /\ Leads(c, locks!CollectStats, Nothing, Nothing)
  <1> DEFINE tail == With(Nothing, "stream")
  <1>1. /\ Leads(c, locks!Section("manager"), Nothing, Nothing)
        /\ Leads(c, locks!Section("data"), Nothing, Nothing)
        /\ Leads(c, locks!Section("timing_map"), Nothing, Nothing)
      BY SectionsLead DEF locks!Lock
  <1>2. Leads(c, locks!TakeStream, Nothing, tail)
    <2>1. \A l \in locks!Lock \ {"data"} : Nothing[l] = 0
        BY DEF Nothing
    <2> QED
        BY <2>1, FromNothing, TakeStreamLeads
  <1>3. Leads(c, locks!Give("stream"), tail, Nothing)
      BY FromNothing, StreamGiven
  <1> HIDE DEF tail
  <1>4. Leads(c, locks!ResetStream, Nothing, Nothing)
    <2>1. Leads(c, locks!Section("data") \o locks!TakeStream, Nothing, tail)
        BY <1>1, <1>2, ThenLeads
    <2> QED
        BY <2>1, <1>3, ThenLeads DEF locks!ResetStream
  <1>5. Leads(c, locks!CollectStats, Nothing, Nothing)
    <2>1. Leads(c, locks!Section("data") \o locks!Section("timing_map"), Nothing, Nothing)
        BY <1>1, ThenLeads
    <2>2. Leads(c, locks!Section("data") \o locks!Section("timing_map") \o locks!TakeStream,
                Nothing, tail)
        BY <2>1, <1>2, ThenLeads
    <2>3. Leads(c, locks!Section("data") \o locks!Section("timing_map") \o locks!TakeStream
                         \o locks!Give("stream"), Nothing, Nothing)
        BY <2>2, <1>3, ThenLeads
    <2>4. Leads(c, locks!Section("data") \o locks!Section("timing_map") \o locks!TakeStream
                         \o locks!Give("stream") \o locks!Section("manager"), Nothing, Nothing)
        BY <2>3, <1>1, ThenLeads
    <2> QED
        BY <2>4, <1>1, ThenLeads DEF locks!CollectStats
  <1> QED
      BY <1>4, <1>5

(* The calls that attach or detach a ring.                                   *)
LEMMA AttachingLeads ==
  ASSUME NEW c \in locks!Attaching
  PROVE  /\ Leads(c, locks!Connect, Nothing, Nothing)
         /\ Leads(c, locks!Disconnect, Nothing, Nothing)
         /\ Leads(c, locks!WildcardMatch, Nothing, Nothing)
         /\ Leads(c, locks!RemoveSource, Nothing, Nothing)
  <1> DEFINE held == With(Nothing, "manager")
  <1>1. /\ Leads(c, locks!Section("manager"), held, held)
        /\ Leads(c, locks!Section("data"), held, held)
      BY FromManager, SectionLeads DEF locks!Lock
  <1>2. Leads(c, locks!Section("manager") \o locks!Section("data"), held, held)
      BY <1>1, ThenLeads
  <1>3. Leads(c, locks!Connect, Nothing, Nothing)
      BY <1>2, FromNothing, WithinLeads DEF locks!Connect, locks!Lock
  <1>4. Leads(c, locks!Disconnect, Nothing, Nothing)
      BY <1>3 DEF locks!Connect, locks!Disconnect
  <1>5. Leads(c, locks!Section("manager"), Nothing, Nothing)
      BY SectionsLead DEF locks!Lock
  <1>6. Leads(c, locks!WildcardMatch, Nothing, Nothing)
    <2>1. Leads(c, locks!SpawnChild \o locks!Section("manager"), Nothing, Nothing)
        BY <1>5, PlainLeads, ThenLeads
    <2> QED
        BY <2>1, <1>3, ThenLeads DEF locks!WildcardMatch
  <1>7. Leads(c, locks!RemoveSource, Nothing, Nothing)
      BY <1>4, PlainLeads, ThenLeads DEF locks!RemoveSource
  <1> QED
      BY <1>3, <1>4, <1>6, <1>7

(* Every call asks for its locks in an order it may, and ends with what it   *)
(* began with.                                                               *)
LEMMA CallsLead ==
  ASSUME NEW c \in locks!Calls
  PROVE  Leads(c, locks!StepsOf(c), Nothing, Nothing)
  <1>1. CASE c = "pass"
      BY <1>1, PassLeads DEF locks!StepsOf
  <1>2. CASE c \in locks!Attaching
      BY <1>2, AttachingLeads DEF locks!Attaching, locks!StepsOf
  <1>3. CASE c # "pass" /\ c \notin locks!Attaching
      BY <1>3, IngestLeads, PlainLeads, StreamLeads
         DEF locks!Attaching, locks!Calls, locks!StepsOf, locks!ConfigureSource
  <1> QED
      BY <1>1, <1>2, <1>3

-----------------------------------------------------------------------------
(* What a thread at step i of call c holds.                                  *)
Held(c) == CHOOSE f : Tells(c, f, locks!StepsOf(c), Nothing, Nothing)

(* A thread in a call holds what the steps it has done leave it with, a      *)
(* thread outside holds nothing, and no lock is held by two.                 *)
Outside(t) == kAt[t] = 1 /\ \A l \in locks!Lock : kDepth[l][t] = 0
Inside(t)  == /\ kCall[t] \in CallsOf[t]
              /\ kAt[t] \in 1 .. Len(locks!StepsOf(kCall[t]))
              /\ \A l \in locks!Lock : kDepth[l][t] = Held(kCall[t])[kAt[t]][l]

LockTypes == /\ kCall \in [Thread -> locks!Calls \cup {"none"}] /\ kAt \in [Thread -> Nat]
             /\ kDepth \in [locks!Lock -> [Thread -> Nat]]
Placed    == \A t \in Thread : IF kCall[t] = "none" THEN Outside(t) ELSE Inside(t)
Exclusive == \A l \in locks!Lock : \A t, u \in Thread : locks!Holds(t, l) /\ locks!Holds(u, l) => t = u

LocksInv == LockTypes /\ Placed /\ Exclusive

LEMMA HeldTells ==
  ASSUME NEW t \in Thread, NEW c \in CallsOf[t]
  PROVE  /\ c \in locks!Calls
         /\ locks!StepsOf(c) \in Seq(LockStep) /\ Len(locks!StepsOf(c)) \in Nat \ {0}
         /\ Tells(c, Held(c), locks!StepsOf(c), Nothing, Nothing)
  <1>1. c \in locks!Calls /\ Leads(c, locks!StepsOf(c), Nothing, Nothing)
      BY LockConstants, CallsLead
  <1>2. \E f : Tells(c, f, locks!StepsOf(c), Nothing, Nothing)
      BY <1>1 DEF Leads
  <1>3. Tells(c, Held(c), locks!StepsOf(c), Nothing, Nothing)
      BY <1>2 DEF Held
  <1>4. locks!StepsOf(c) \in Seq(LockStep) /\ Len(locks!StepsOf(c)) > 0
      BY <1>1 DEF Leads
  <1> QED
      BY <1>1, <1>3, <1>4, LenProperties

(* The step a thread in a call is about to do, and what it does.             *)
LEMMA StepDoes ==
  ASSUME LocksInv, NEW t \in Thread, kCall[t] # "none"
  PROVE  LET s == locks!StepsOf(kCall[t])
             f == Held(kCall[t])
             i == kAt[t]
         IN  /\ kCall[t] \in CallsOf[t] /\ kCall[t] \in locks!Calls
             /\ s \in Seq(LockStep) /\ i \in 1 .. Len(s) /\ Len(s) \in Nat
             /\ locks!Step(t) = s[i] /\ locks!Step(t) \in LockStep
             /\ f[i] \in Holding /\ f[i + 1] \in Holding
             /\ \A l \in locks!Lock : kDepth[l][t] = f[i][l]
             /\ Does(kCall[t], locks!Step(t), f[i], f[i + 1])
             /\ f[1] = Nothing /\ f[Len(s) + 1] = Nothing
  <1> DEFINE c == kCall[t]
             s == locks!StepsOf(c)
  <1>1. Inside(t)
      BY DEF LocksInv, Placed
  <1>2. c \in CallsOf[t] /\ c \in locks!Calls
      BY <1>1, HeldTells DEF Inside
  <1>3. s \in Seq(LockStep) /\ Len(s) \in Nat /\ Tells(c, Held(c), s, Nothing, Nothing)
      BY <1>2, HeldTells
  <1>4. kAt[t] \in 1 .. Len(s) /\ \A l \in locks!Lock : kDepth[l][t] = Held(c)[kAt[t]][l]
      BY <1>1 DEF Inside
  <1>5. locks!Step(t) = s[kAt[t]] /\ locks!Step(t) \in LockStep
      BY <1>3, <1>4, ElementOfSeq DEF locks!Step
  <1>6. /\ Held(c)[kAt[t]] \in Holding /\ Held(c)[kAt[t] + 1] \in Holding
        /\ Does(c, s[kAt[t]], Held(c)[kAt[t]], Held(c)[kAt[t] + 1])
        /\ Held(c)[1] = Nothing /\ Held(c)[Len(s) + 1] = Nothing
    <2> HIDE DEF s, c
    <2>1. kAt[t] \in 1 .. Len(s) + 1 /\ kAt[t] + 1 \in 1 .. Len(s) + 1
        BY <1>3, <1>4
    <2> QED
        BY <2>1, <1>3, <1>4 DEF Tells
  <1> QED
      BY <1>2, <1>3, <1>4, <1>5, <1>6

(* Advance leaves a thread inside its call, or outside with nothing.         *)
LEMMA AdvancePlaces ==
  ASSUME LocksInv, NEW t \in Thread, kCall[t] # "none", locks!Advance(t),
         kDepth' \in [locks!Lock -> [Thread -> Nat]],
         \A l \in locks!Lock : kDepth'[l][t] = Held(kCall[t])[kAt[t] + 1][l],
         \A l \in locks!Lock : \A u \in Thread \ {t} : kDepth'[l][u] = kDepth[l][u]
  PROVE  LockTypes' /\ Placed'
  <1> DEFINE s == locks!StepsOf(kCall[t])
  <1>1. /\ kCall[t] \in CallsOf[t] /\ kAt[t] \in 1 .. Len(s) /\ Len(s) \in Nat
        /\ Held(kCall[t])[Len(s) + 1] = Nothing
      BY StepDoes
  <1>2. LockTypes'
    <2>1. kCall' \in [Thread -> locks!Calls \cup {"none"}]
        BY DEF LocksInv, LockTypes, locks!Advance
    <2>2. kAt' \in [Thread -> Nat]
        BY DEF LocksInv, LockTypes, locks!Advance
    <2> QED
        BY <2>1, <2>2 DEF LockTypes
  <1>3. ASSUME NEW u \in Thread \ {t} PROVE IF kCall'[u] = "none" THEN Outside(u)' ELSE Inside(u)'
    <2>1. kCall'[u] = kCall[u] /\ kAt'[u] = kAt[u]
        BY DEF LocksInv, LockTypes, locks!Advance
    <2> QED
        BY <2>1 DEF LocksInv, Placed, Outside, Inside
  <1>4. CASE kAt[t] = Len(s)
    <2>1. kCall'[t] = "none" /\ kAt'[t] = 1
        BY <1>4 DEF LocksInv, LockTypes, locks!Advance
    <2>2. \A l \in locks!Lock : kDepth'[l][t] = 0
        BY <1>1, <1>4 DEF Nothing
    <2> QED
        BY <1>2, <1>3, <2>1, <2>2 DEF Placed, Outside
  <1>5. CASE kAt[t] # Len(s)
    <2>1. kCall'[t] = kCall[t] /\ kAt'[t] = kAt[t] + 1 /\ kAt[t] + 1 \in 1 .. Len(s)
        BY <1>1, <1>5 DEF LocksInv, LockTypes, locks!Advance
    <2>2. Inside(t)'
        BY <1>1, <2>1 DEF Inside
    <2> QED
        BY <1>2, <1>3, <2>1, <2>2 DEF Placed
  <1> QED
      BY <1>4, <1>5

LEMMA BeginPlaces ==
  ASSUME LocksInv, NEW t \in Thread, locks!Begin(t)
  PROVE  LocksInv'
  <1>1. PICK c \in CallsOf[t] : kCall[t] = "none" /\ kCall' = [kCall EXCEPT ![t] = c] /\ UNCHANGED <<kAt, kDepth>>
      BY DEF locks!Begin
  <1>2. c \in locks!Calls /\ c # "none"
      BY HeldTells DEF locks!Calls
  <1>3. LockTypes'
      BY <1>1, <1>2 DEF LocksInv, LockTypes
  <1>4. Inside(t)'
    <2>1. kCall'[t] = c /\ kAt'[t] = 1 /\ \A l \in locks!Lock : kDepth'[l][t] = 0
        BY <1>1 DEF LocksInv, LockTypes, Placed, Outside
    <2>2. Len(locks!StepsOf(c)) \in Nat \ {0} /\ Held(c)[1] = Nothing
        BY HeldTells DEF Tells
    <2> QED
        BY <2>1, <2>2 DEF Inside, Nothing
  <1>5. ASSUME NEW u \in Thread \ {t} PROVE IF kCall'[u] = "none" THEN Outside(u)' ELSE Inside(u)'
    <2>1. kCall'[u] = kCall[u]
        BY <1>1 DEF LocksInv, LockTypes
    <2> QED
        BY <1>1, <2>1 DEF LocksInv, Placed, Outside, Inside
  <1>6. Placed'
      BY <1>1, <1>2, <1>3, <1>4, <1>5 DEF Placed, LockTypes, Inside, LocksInv
  <1>7. Exclusive'
      BY <1>1 DEF LocksInv, Exclusive, locks!Holds
  <1> QED
      BY <1>3, <1>6, <1>7 DEF LocksInv

LEMMA AcquirePlaces ==
  ASSUME LocksInv, NEW t \in Thread, locks!Acquire(t)
  PROVE  LocksInv'
  <1> DEFINE e == locks!Step(t)
             f == Held(kCall[t])
             i == kAt[t]
  <1>1. /\ e \in LockStep /\ e.take /\ e.lock \in locks!Lock
        /\ f[i] \in Holding /\ f[i + 1] = With(f[i], e.lock)
        /\ \A l \in locks!Lock : kDepth[l][t] = f[i][l]
      BY StepDoes DEF locks!Acquire, Does, LockStep
  <1> HIDE DEF e
  <1>2. /\ kDepth' = [kDepth EXCEPT ![e.lock][t] = @ + 1] /\ locks!Advance(t) /\ kCall[t] # "none"
        /\ \A u \in Thread : ~locks!Stops(u, t, e.lock)
      BY DEF locks!Acquire, e
  <1>3. /\ kDepth' \in [locks!Lock -> [Thread -> Nat]]
        /\ \A l \in locks!Lock : \A u \in Thread \ {t} : kDepth'[l][u] = kDepth[l][u]
        /\ \A l \in locks!Lock : kDepth'[l][t] = IF l = e.lock THEN kDepth[l][t] + 1 ELSE kDepth[l][t]
      BY <1>1, <1>2 DEF LocksInv, LockTypes
  <1>4. LockTypes' /\ Placed'
    <2>1. \A l \in locks!Lock : kDepth'[l][t] = f[i + 1][l]
        BY <1>1, <1>3 DEF With
    <2> QED
        BY <1>2, <1>3, <2>1, AdvancePlaces
  <1>5. \A u \in Thread \ {t} : kDepth[e.lock][u] = 0
      BY <1>1, <1>2 DEF locks!Stops, locks!Holds, LocksInv, LockTypes
  <1>6. Exclusive'
      BY <1>1, <1>3, <1>5 DEF LocksInv, LockTypes, Exclusive, locks!Holds
  <1> QED
      BY <1>4, <1>6 DEF LocksInv

LEMMA ReleasePlaces ==
  ASSUME LocksInv, NEW t \in Thread, locks!Release(t)
  PROVE  LocksInv'
  <1> DEFINE e == locks!Step(t)
             f == Held(kCall[t])
             i == kAt[t]
  <1>1. /\ e \in LockStep /\ ~e.take /\ e.lock \in locks!Lock
        /\ f[i] \in Holding /\ f[i][e.lock] > 0 /\ f[i + 1] = Without(f[i], e.lock)
        /\ \A l \in locks!Lock : kDepth[l][t] = f[i][l]
      BY StepDoes DEF locks!Release, Does, LockStep
  <1> HIDE DEF e
  <1>2. kDepth' = [kDepth EXCEPT ![e.lock][t] = @ - 1] /\ locks!Advance(t) /\ kCall[t] # "none"
      BY DEF locks!Release, e
  <1>3. kDepth[e.lock][t] \in Nat /\ kDepth[e.lock][t] - 1 \in Nat
      BY <1>1 DEF LocksInv, LockTypes
  <1>4. /\ kDepth' \in [locks!Lock -> [Thread -> Nat]]
        /\ \A l \in locks!Lock : \A u \in Thread \ {t} : kDepth'[l][u] = kDepth[l][u]
        /\ \A l \in locks!Lock : kDepth'[l][t] = IF l = e.lock THEN kDepth[l][t] - 1 ELSE kDepth[l][t]
      BY <1>1, <1>2, <1>3 DEF LocksInv, LockTypes
  <1>5. LockTypes' /\ Placed'
    <2>1. \A l \in locks!Lock : kDepth'[l][t] = f[i + 1][l]
        BY <1>1, <1>4 DEF Without
    <2> QED
        BY <1>2, <1>4, <2>1, AdvancePlaces
  <1>6. Exclusive'
      BY <1>1, <1>3, <1>4 DEF LocksInv, LockTypes, Exclusive, locks!Holds
  <1> QED
      BY <1>5, <1>6 DEF LocksInv

LEMMA LocksInvariance == AllSpec => []LocksInv
  <1>1. AllInit => LocksInv
    <2> SUFFICES ASSUME locks!Init PROVE LocksInv
        BY DEF AllInit
    <2> QED
        BY DEF locks!Init, LocksInv, LockTypes, Placed, Outside, Exclusive, locks!Holds
  <1>2. LocksInv /\ [AllNext]_allVars => LocksInv'
    <2> SUFFICES ASSUME LocksInv, [AllNext]_allVars PROVE LocksInv'
        OBVIOUS
    <2>1. CASE locks!Next
        BY <2>1, BeginPlaces, AcquirePlaces, ReleasePlaces DEF locks!Next
    <2>2. CASE UNCHANGED lockVars
        BY <2>2 DEF lockVars, LocksInv, LockTypes, Placed, Outside, Inside, Exclusive, locks!Holds
    <2> QED
        BY <2>1, <2>2 DEF AllNext, allVars
  <1> QED
      BY <1>1, <1>2, PTL DEF AllSpec

(* A thread of S that waits, the lock it waits for and who holds it.         *)
WaitsFor(t)   == locks!Step(t).lock
AllWait(S)    == \A t \in S : \E u \in S : locks!Waits(t, u)

LEMMA WaiterFacts ==
  ASSUME LocksInv, NEW S \in SUBSET Thread, AllWait(S), NEW t \in S
  PROVE  /\ WaitsFor(t) \in locks!Lock
         /\ kCall[t] # "none" /\ locks!Step(t).take
         /\ \E u \in S : locks!Holds(u, WaitsFor(t)) /\ (WaitsFor(t) = "manager" => u # t)
         /\ \A m \in locks!Lock \ {"manager"} : locks!Holds(t, m) =>
              IF WaitsFor(t) = "manager"
              THEN kCall[t] = "pass" /\ locks!Holds(t, "data")
              ELSE Rank[m] < Rank[WaitsFor(t)]
         /\ locks!Holds(t, "manager") /\ WaitsFor(t) # "manager" =>
              WaitsFor(t) = "data" /\ kCall[t] \in locks!Attaching
  <1> DEFINE e == locks!Step(t)
             h == Held(kCall[t])[kAt[t]]
  <1>1. PICK u \in S : locks!Waits(t, u)
      BY DEF AllWait
  <1>2. kCall[t] # "none" /\ e.take /\ locks!Stops(u, t, WaitsFor(t))
      BY <1>1 DEF locks!Waits, WaitsFor
  <1>3. /\ e \in LockStep /\ Ordered(kCall[t], h, e.lock)
        /\ h \in Holding /\ \A l \in locks!Lock : kDepth[l][t] = h[l]
    <2>1. t \in Thread
        OBVIOUS
    <2> QED
        BY <2>1, <1>2, StepDoes DEF Does
  <1>4. WaitsFor(t) = e.lock /\ WaitsFor(t) \in locks!Lock
      BY <1>3 DEF WaitsFor, LockStep
  <1>5. locks!Holds(u, WaitsFor(t)) /\ (WaitsFor(t) = "manager" => u # t)
      BY <1>2 DEF locks!Stops
  <1>6. \A m \in locks!Lock : locks!Holds(t, m) <=> h[m] > 0
      BY <1>3 DEF locks!Holds
  <1>7. "data" \in locks!Lock /\ "manager" \in locks!Lock
      BY DEF locks!Lock
  <1>8. kCall[t] # "none" /\ locks!Step(t).take
      BY <1>2
  <1> HIDE DEF h, e
  <1>9. \A m \in locks!Lock \ {"manager"} : locks!Holds(t, m) =>
          IF WaitsFor(t) = "manager"
          THEN kCall[t] = "pass" /\ locks!Holds(t, "data")
          ELSE Rank[m] < Rank[WaitsFor(t)]
      BY <1>3, <1>4, <1>6, <1>7 DEF Ordered
  <1>10. locks!Holds(t, "manager") /\ WaitsFor(t) # "manager" =>
           WaitsFor(t) = "data" /\ kCall[t] \in locks!Attaching
      BY <1>3, <1>4, <1>6, <1>7 DEF Ordered
  <1> QED
      BY <1>4, <1>5, <1>8, <1>9, <1>10

(* Who holds the managers' lock while somebody waits for it is attaching a   *)
(* ring and waits for the buffer.                                            *)
LEMMA ManagerHolder ==
  ASSUME LocksInv, NEW S \in SUBSET Thread, AllWait(S), NEW t \in S, WaitsFor(t) = "manager"
  PROVE  \E u \in S : /\ u # t /\ locks!Holds(u, "manager") /\ WaitsFor(u) = "data"
                      /\ kCall[u] \in locks!Attaching
  <1>1. PICK u \in S : locks!Holds(u, "manager") /\ u # t
      BY WaiterFacts
  <1>2. CASE WaitsFor(u) = "manager"
    <2>1. PICK v \in S : locks!Holds(v, "manager") /\ v # u
        BY <1>2, WaiterFacts
    <2> QED
        BY <1>1, <2>1 DEF LocksInv, Exclusive, locks!Lock
  <1>3. CASE WaitsFor(u) # "manager"
      BY <1>1, <1>3, WaiterFacts
  <1> QED
      BY <1>2, <1>3

(* Who waits for another lock waits for a thread that waits for one further  *)
(* down, or for a pass that holds the buffer and waits for the managers'.    *)
LEMMA FurtherDown ==
  ASSUME LocksInv, NEW S \in SUBSET Thread, AllWait(S), NEW t \in S, WaitsFor(t) # "manager"
  PROVE  \E u \in S : IF WaitsFor(u) = "manager"
                      THEN kCall[u] = "pass" /\ locks!Holds(u, "data")
                      ELSE Rank[WaitsFor(t)] < Rank[WaitsFor(u)]
  <1>1. PICK u \in S : locks!Holds(u, WaitsFor(t))
      BY WaiterFacts
  <1>2. WaitsFor(t) \in locks!Lock \ {"manager"}
      BY WaiterFacts
  <1> QED
      BY <1>1, <1>2, WaiterFacts

(* The pass of a circle and the call that attaches wait for each other.      *)
LEMMA Crossed ==
  ASSUME LocksInv, NEW S \in SUBSET Thread, AllWait(S), NEW t \in S,
         WaitsFor(t) = "manager", kCall[t] = "pass", locks!Holds(t, "data")
  PROVE  \E u \in S : kCall[u] \in locks!Attaching /\ locks!Waits(t, u) /\ locks!Waits(u, t)
  <1>1. PICK u \in S : /\ u # t /\ locks!Holds(u, "manager") /\ WaitsFor(u) = "data"
                      /\ kCall[u] \in locks!Attaching
      BY ManagerHolder
  <1>2. locks!Waits(t, u)
      BY <1>1, WaiterFacts DEF WaitsFor, locks!Waits, locks!Stops
  <1>3. locks!Waits(u, t)
      BY <1>1, WaiterFacts DEF WaitsFor, locks!Waits, locks!Stops
  <1> QED
      BY <1>1, <1>2, <1>3

(* lock_order_enforcer.h: whatever threads make whatever calls, a set of them*)
(* waits in a circle only if it holds a pass and a call that attaches or     *)
(* detaches a ring which wait for each other (EngineLocks_connecting.cfg     *)
(* shows such a circle).                                                     *)
THEOREM NoOtherDeadlock == AllSpec => []OnlyPassAndAttach
  <1>1. LocksInv => OnlyPassAndAttach
    <2> SUFFICES ASSUME LocksInv, NEW S \in SUBSET Thread, S # {}, AllWait(S)
                 PROVE  \E t, u \in S : /\ kCall[t] = "pass" /\ kCall[u] \in locks!Attaching
                                        /\ locks!Waits(t, u) /\ locks!Waits(u, t)
        BY DEF OnlyPassAndAttach, locks!OnlyPassAndAttach, locks!Circle, AllWait
    <2> SUFFICES ASSUME \A t \in S : WaitsFor(t) = "manager" =>
                          ~(kCall[t] = "pass" /\ locks!Holds(t, "data"))
                 PROVE  FALSE
        BY Crossed
    <2> DEFINE Other(t) == WaitsFor(t) # "manager"
    <2>1. \A t \in S : WaitsFor(t) \in locks!Lock
        BY WaiterFacts
    <2>2. \A t \in S : Other(t) => \E u \in S : Other(u) /\ Rank[WaitsFor(t)] < Rank[WaitsFor(u)]
        BY FurtherDown
    <2>3. \A t \in S : Other(t) => Rank[WaitsFor(t)] \in 1 .. 4
        BY <2>1 DEF Rank, locks!Lock
    <2>4. \A t \in S : ~Other(t) => \E u \in S : Other(u)
        BY ManagerHolder
    <2> HIDE DEF Other
    <2>5. \A t \in S : Other(t) => Rank[WaitsFor(t)] < 4
        BY <2>2, <2>3
    <2>6. \A t \in S : Other(t) => Rank[WaitsFor(t)] < 3
        BY <2>2, <2>3, <2>5
    <2>7. \A t \in S : Other(t) => Rank[WaitsFor(t)] < 2
        BY <2>2, <2>3, <2>6
    <2>8. \A t \in S : ~Other(t)
        BY <2>2, <2>3, <2>7
    <2> QED
        BY <2>4, <2>8
  <1> QED
      BY <1>1, LocksInvariance, PTL

-----------------------------------------------------------------------------
(* ConfigApplier.                                                            *)
Keys == {"tag", "format", "volume"}
Counts == [Captures -> Nat]

ApplierTypes ==
  /\ aShadow = [sinks |-> aShadow.sinks, paths |-> aShadow.paths]
  /\ aTodo = [x \in applier!Steps |-> aTodo[x]]
  /\ aCached \subseteq States /\ aSnapshot \subseteq States
  /\ aMade \in Nat /\ aCaptures \in Counts /\ aRefused \in Counts /\ aLeaked \in Counts

(* What is asked for.                                                        *)
Asked(r) == Keys \subseteq DOMAIN r /\ "id" \notin DOMAIN r
GoalMade ==
  /\ \A q \in DOMAIN aGoal.paths : Asked(aGoal.paths[q])
  /\ \A s \in DOMAIN aGoal.sinks : aGoal.sinks[s].links \subseteq DOMAIN aGoal.paths

(* What is still to be done is of use.                                       *)
TodoMade ==
  /\ aTodo["remove paths"] \subseteq DOMAIN aShadow.paths \ DOMAIN aGoal.paths
  /\ aTodo["remove sinks"] \subseteq DOMAIN aShadow.sinks \ DOMAIN aGoal.sinks
  /\ aTodo["add paths"] \subseteq DOMAIN aGoal.paths \ DOMAIN aShadow.paths
  /\ aTodo["add sinks"] \subseteq DOMAIN aGoal.sinks \ DOMAIN aShadow.sinks
  /\ aTodo["update paths"] \subseteq DOMAIN aGoal.paths \cap DOMAIN aShadow.paths
  /\ aTodo["update sinks"] \subseteq DOMAIN aGoal.sinks \cap DOMAIN aShadow.sinks
  /\ aLock = "free" => aTodo = applier!Nothing

(* Each path has an instance of its own in the engine, as it should be.      *)
Fits(paths, instances, n) ==
  /\ IsFiniteSet(DOMAIN paths)
  /\ \A q \in DOMAIN paths :
       /\ paths[q].id \in 1 .. n /\ paths[q].id \in DOMAIN instances
       /\ DOMAIN instances[paths[q].id] = Keys
       /\ \A k \in Keys : instances[paths[q].id][k] = paths[q][k]
  /\ \A q, r \in DOMAIN paths : paths[q].id = paths[r].id => q = r
  /\ \A i \in DOMAIN instances : \E q \in DOMAIN paths : i = paths[q].id
PathsMade == Fits(aShadow.paths, aSources, aMade)

SinksMade ==
  /\ DOMAIN aShadow.sinks = DOMAIN aSinks
  /\ \A s \in DOMAIN aSinks : aSinks[s] = aShadow.sinks[s].config

(* The links of each sink that a path made anew has not lost.                *)
Standing(players, gone) ==
  [s \in DOMAIN players |-> {q \in players[s].links : <<q, s>> \notin gone}]

(* The engine has the connections that the shadow has, but for the lost ones *)
(* and those of a path that was removed from under a sink, which is still to *)
(* be updated.                                                               *)
Joined(paths, standing, connections) ==
  /\ \A l \in connections : \E s \in DOMAIN standing :
       \E q \in standing[s] \cap DOMAIN paths : l = <<paths[q].id, s>>
  /\ \A s \in DOMAIN standing :
       \A q \in standing[s] \cap DOMAIN paths : <<paths[q].id, s>> \in connections
Still     == Standing(aShadow.sinks, aLost)
LinksMade == Joined(aShadow.paths, Still, aLinks)

LinksDue ==
  \A s \in DOMAIN aShadow.sinks :
    /\ Still[s] \cap DOMAIN aGoal.paths \subseteq DOMAIN aShadow.paths
    /\ \/ s \in aTodo["remove sinks"] \cup aTodo["update sinks"]
       \/ aShadow.sinks[s].links \subseteq DOMAIN aGoal.paths

Number(paths, c) == Cardinality({q \in DOMAIN paths : paths[q].tag = c})
Counted(paths, counts, without, over) ==
  \A c \in Captures : /\ Number(paths, c) <= counts[c] + without[c]
                      /\ counts[c] <= Number(paths, c) + over[c]
CapturesCounted == Counted(aShadow.paths, aCaptures, aRefused, aLeaked)

ApplierInv == /\ ApplierTypes /\ GoalMade /\ TodoMade /\ PathsMade /\ SinksMade /\ LinksMade /\ LinksDue
              /\ CapturesCounted

(* A path of the shadow is what was asked for, with its instance.            *)
LEMMA WithId ==
  ASSUME NEW r, Asked(r), NEW n
  PROVE  LET p == applier!Put(r, "id", n) IN p.id = n /\ \A k \in Keys : p[k] = r[k]
  <1> DEFINE p == applier!Put(r, "id", n)
  <1>1. Keys \subseteq DOMAIN r \ {"id"}
      BY DEF Asked, Keys
  <1>2. p["id"] = n /\ \A x \in DOMAIN r \ {"id"} : p[x] = r[x]
      BY DEF applier!Put
  <1> QED
      BY <1>1, <1>2

(* When a path goes with its instance, the others keep theirs.               *)
LEMMA FitsDropped ==
  ASSUME NEW paths, NEW instances, NEW n \in Nat, NEW q \in DOMAIN paths,
         Fits(paths, instances, n)
  PROVE  Fits(applier!Without(paths, {q}), applier!Without(instances, {paths[q].id}), n)
  <1> DEFINE P == applier!Without(paths, {q})
             I == applier!Without(instances, {paths[q].id})
  <1>1. DOMAIN P = DOMAIN paths \ {q} /\ \A r \in DOMAIN P : P[r] = paths[r]
      BY DEF applier!Without, applier!Restrict
  <1>2. DOMAIN I = DOMAIN instances \ {paths[q].id} /\ \A i \in DOMAIN I : I[i] = instances[i]
      BY DEF applier!Without, applier!Restrict
  <1> HIDE DEF P, I
  <1>3. IsFiniteSet(DOMAIN P)
      BY <1>1, FS_Subset DEF Fits
  <1>4. \A r \in DOMAIN P :
          /\ P[r].id \in 1 .. n /\ P[r].id \in DOMAIN I
          /\ DOMAIN I[P[r].id] = Keys
          /\ \A k \in Keys : I[P[r].id][k] = P[r][k]
    <2>1. SUFFICES ASSUME NEW r \in DOMAIN P
                   PROVE  /\ P[r].id \in 1 .. n /\ P[r].id \in DOMAIN I
                          /\ DOMAIN I[P[r].id] = Keys
                          /\ \A k \in Keys : I[P[r].id][k] = P[r][k]
        OBVIOUS
    <2>2. r \in DOMAIN paths /\ r # q /\ P[r] = paths[r] /\ paths[r].id # paths[q].id
        BY <1>1 DEF Fits
    <2>3. /\ paths[r].id \in 1 .. n /\ paths[r].id \in DOMAIN instances
          /\ DOMAIN instances[paths[r].id] = Keys
          /\ \A k \in Keys : instances[paths[r].id][k] = paths[r][k]
        BY <2>2 DEF Fits
    <2> QED
        BY <2>2, <2>3, <1>2
  <1>5. \A r, s \in DOMAIN P : P[r].id = P[s].id => r = s
      BY <1>1 DEF Fits
  <1>6. \A i \in DOMAIN I : \E r \in DOMAIN P : i = P[r].id
      BY <1>1, <1>2 DEF Fits
  <1>7. Fits(P, I, n)
      BY <1>3, <1>4, <1>5, <1>6 DEF Fits
  <1> QED
      BY <1>7 DEF P, I

(* A new path gets a new instance.                                           *)
LEMMA FitsAdded ==
  ASSUME NEW paths, NEW instances, NEW n \in Nat, NEW q, q \notin DOMAIN paths, NEW r,
         Asked(r), Fits(paths, instances, n)
  PROVE  Fits(applier!Put(paths, q, applier!Put(r, "id", n + 1)),
              applier!Put(instances, n + 1, applier!Restrict(r, Keys)), n + 1)
  <1> DEFINE p == applier!Put(r, "id", n + 1)
             o == applier!Restrict(r, Keys)
             P == applier!Put(paths, q, p)
             I == applier!Put(instances, n + 1, o)
  <1>1. /\ DOMAIN P = DOMAIN paths \cup {q} /\ P[q] = p
        /\ \A x \in DOMAIN paths : P[x] = paths[x]
      BY DEF applier!Put
  <1>2. n + 1 \notin DOMAIN instances
      BY DEF Fits
  <1>3. /\ DOMAIN I = DOMAIN instances \cup {n + 1} /\ I[n + 1] = o
        /\ \A x \in DOMAIN instances : I[x] = instances[x]
      BY <1>2 DEF applier!Put
  <1>4. DOMAIN o = Keys /\ \A k \in Keys : o[k] = r[k]
      BY DEF Asked, applier!Restrict
  <1>5. p.id = n + 1 /\ \A k \in Keys : p[k] = r[k]
      BY WithId
  <1> HIDE DEF p, o, P, I
  <1>6. IsFiniteSet(DOMAIN P)
      BY <1>1, FS_AddElement DEF Fits
  <1>7. \A x \in DOMAIN P :
          /\ P[x].id \in 1 .. (n + 1) /\ P[x].id \in DOMAIN I
          /\ DOMAIN I[P[x].id] = Keys
          /\ \A k \in Keys : I[P[x].id][k] = P[x][k]
    <2>1. SUFFICES ASSUME NEW x \in DOMAIN P
                   PROVE  /\ P[x].id \in 1 .. (n + 1) /\ P[x].id \in DOMAIN I
                          /\ DOMAIN I[P[x].id] = Keys
                          /\ \A k \in Keys : I[P[x].id][k] = P[x][k]
        OBVIOUS
    <2>2. CASE x = q
      <3>1. I[p.id] = o
          BY <1>3, <1>5
      <3> QED
          BY <2>2, <3>1, <1>1, <1>3, <1>4, <1>5
    <2>3. CASE x \in DOMAIN paths
      <3>1. /\ paths[x].id \in 1 .. n /\ paths[x].id \in DOMAIN instances
            /\ DOMAIN instances[paths[x].id] = Keys
            /\ \A k \in Keys : instances[paths[x].id][k] = paths[x][k]
          BY <2>3 DEF Fits
      <3>2. P[x] = paths[x] /\ I[paths[x].id] = instances[paths[x].id]
          BY <2>3, <3>1, <1>1, <1>3
      <3> QED
          BY <3>1, <3>2, <1>3
    <2> QED
        BY <2>2, <2>3, <1>1
  <1>8. \A x, y \in DOMAIN P : P[x].id = P[y].id => x = y
      BY <1>1, <1>5 DEF Fits
  <1>9. \A i \in DOMAIN I : \E x \in DOMAIN P : i = P[x].id
      BY <1>1, <1>3, <1>5 DEF Fits
  <1>10. Fits(P, I, n + 1)
      BY <1>6, <1>7, <1>8, <1>9 DEF Fits
  <1> QED
      BY <1>10 DEF p, o, P, I

(* Counts of a device, one more or one less.                                 *)
LEMMA MoreAndLess ==
  ASSUME NEW f \in Counts, NEW t
  PROVE  /\ applier!OneMore(f, t) \in Counts
         /\ \A c \in Captures : applier!OneMore(f, t)[c] = IF c = t THEN f[c] + 1 ELSE f[c]
  BY DEF applier!OneMore, Counts

LEMMA ReleasedCounts ==
  ASSUME NEW t, aCaptures \in Counts
  PROVE  /\ applier!Released(t) \in Counts
         /\ \A c \in Captures : applier!Released(t)[c] =
              IF c = t /\ aCaptures[c] > 0 THEN aCaptures[c] - 1 ELSE aCaptures[c]
  <1>1. \A c \in Captures : aCaptures[c] \in Nat /\ (aCaptures[c] # 0 => aCaptures[c] - 1 \in Nat)
      BY DEF Counts
  <1>2. CASE t \in Captures
    <2>1. applier!Released(t) = [aCaptures EXCEPT ![t] = IF @ = 0 THEN 0 ELSE @ - 1]
        BY <1>2 DEF applier!Released
    <2> QED
        BY <1>1, <1>2, <2>1 DEF Counts
  <1>3. CASE t \notin Captures
      BY <1>1, <1>3 DEF applier!Released, Counts
  <1> QED
      BY <1>2, <1>3

(* The paths of a device when one goes or comes.                             *)
LEMMA NumberDropped ==
  ASSUME NEW paths, NEW q \in DOMAIN paths, IsFiniteSet(DOMAIN paths), NEW c
  PROVE  /\ Number(paths, c) \in Nat /\ Number(applier!Without(paths, {q}), c) \in Nat
         /\ Number(paths, c) = Number(applier!Without(paths, {q}), c)
                                 + IF c = paths[q].tag THEN 1 ELSE 0
  <1> DEFINE P == applier!Without(paths, {q})
             had == {x \in DOMAIN paths : paths[x].tag = c}
             now == {x \in DOMAIN P : P[x].tag = c}
  <1>1. DOMAIN P = DOMAIN paths \ {q} /\ \A x \in DOMAIN P : P[x] = paths[x]
      BY DEF applier!Without, applier!Restrict
  <1>2. IsFiniteSet(had) /\ Cardinality(had) \in Nat
      BY FS_Subset, FS_CardinalityType
  <1>3. Number(paths, c) = Cardinality(had) /\ Number(P, c) = Cardinality(now)
      BY DEF Number
  <1>4. CASE c = paths[q].tag
    <2>1. now = had \ {q} /\ q \in had
        BY <1>1, <1>4
    <2> HIDE DEF now, had, P
    <2>2. Cardinality(had \ {q}) = Cardinality(had) - 1 /\ IsFiniteSet(had \ {q})
        BY <1>2, <2>1, FS_RemoveElement
    <2>3. Cardinality(now) \in Nat
        BY <2>1, <2>2, FS_CardinalityType
    <2> QED
        BY <1>2, <1>4, <1>3, <2>1, <2>2, <2>3 DEF P
  <1>5. CASE c # paths[q].tag
    <2>1. now = had
        BY <1>1, <1>5
    <2> HIDE DEF now, had, P
    <2> QED
        BY <1>2, <1>5, <1>3, <2>1 DEF P
  <1> QED
      BY <1>4, <1>5

LEMMA NumberAdded ==
  ASSUME NEW paths, NEW q, q \notin DOMAIN paths, NEW p, IsFiniteSet(DOMAIN paths), NEW c
  PROVE  /\ Number(paths, c) \in Nat
         /\ Number(applier!Put(paths, q, p), c) = Number(paths, c) + IF c = p.tag THEN 1 ELSE 0
  <1> DEFINE P == applier!Put(paths, q, p)
             had == {x \in DOMAIN paths : paths[x].tag = c}
             now == {x \in DOMAIN P : P[x].tag = c}
  <1>1. DOMAIN P = DOMAIN paths \cup {q} /\ P[q] = p /\ \A x \in DOMAIN paths : P[x] = paths[x]
      BY DEF applier!Put
  <1>2. IsFiniteSet(had) /\ Cardinality(had) \in Nat /\ q \notin had
      BY FS_Subset, FS_CardinalityType
  <1>3. Number(paths, c) = Cardinality(had) /\ Number(P, c) = Cardinality(now)
      BY DEF Number
  <1> HIDE DEF P
  <1>4. CASE c = p.tag
    <2>1. now = had \cup {q}
        BY <1>1, <1>4
    <2> HIDE DEF now, had
    <2>2. Cardinality(had \cup {q}) = Cardinality(had) + 1
        BY <1>2, FS_AddElement
    <2> QED
        BY <1>2, <1>4, <1>3, <2>1, <2>2 DEF P
  <1>5. CASE c # p.tag
    <2>1. now = had
        BY <1>1, <1>5
    <2> HIDE DEF now, had
    <2> QED
        BY <1>2, <1>5, <1>3, <2>1 DEF P
  <1> QED
      BY <1>4, <1>5

(* A path goes with a reference if there is one, or without giving it back.  *)
LEMMA CountedDropped ==
  ASSUME NEW paths, NEW q \in DOMAIN paths, IsFiniteSet(DOMAIN paths), ApplierTypes,
         Counted(paths, aCaptures, aRefused, aLeaked)
  PROVE  /\ applier!Released(paths[q].tag) \in Counts
         /\ Counted(applier!Without(paths, {q}), applier!Released(paths[q].tag), aRefused, aLeaked)
         /\ applier!OneMore(aLeaked, paths[q].tag) \in Counts
         /\ Counted(applier!Without(paths, {q}), aCaptures, aRefused,
                    applier!OneMore(aLeaked, paths[q].tag))
  <1> DEFINE t == paths[q].tag
             P == applier!Without(paths, {q})
             C == applier!Released(t)
             L == applier!OneMore(aLeaked, t)
  <1>1. /\ C \in Counts
        /\ \A c \in Captures : C[c] = IF c = t /\ aCaptures[c] > 0 THEN aCaptures[c] - 1 ELSE aCaptures[c]
      BY ReleasedCounts DEF ApplierTypes
  <1>2. L \in Counts /\ \A c \in Captures : L[c] = IF c = t THEN aLeaked[c] + 1 ELSE aLeaked[c]
      BY MoreAndLess DEF ApplierTypes
  <1>3. \A c \in Captures :
          /\ Number(paths, c) \in Nat /\ Number(P, c) \in Nat
          /\ Number(paths, c) = Number(P, c) + IF c = t THEN 1 ELSE 0
      BY NumberDropped
  <1>4. \A c \in Captures : aCaptures[c] \in Nat /\ aRefused[c] \in Nat /\ aLeaked[c] \in Nat
      BY DEF ApplierTypes, Counts
  <1> HIDE DEF t, P, C, L
  <1>5. Counted(P, C, aRefused, aLeaked)
      BY <1>1, <1>3, <1>4 DEF Counted
  <1>6. Counted(P, aCaptures, aRefused, L)
      BY <1>2, <1>3, <1>4 DEF Counted
  <1> QED
      BY <1>1, <1>2, <1>5, <1>6 DEF t, P, C, L

(* A path comes with a reference or without one; a reference may come alone. *)
LEMMA CountedAdded ==
  ASSUME NEW paths, NEW q, q \notin DOMAIN paths, NEW p, IsFiniteSet(DOMAIN paths), ApplierTypes,
         NEW over \in Counts, Counted(paths, aCaptures, aRefused, over)
  PROVE  /\ Counted(applier!Put(paths, q, p), applier!OneMore(aCaptures, p.tag), aRefused, over)
         /\ Counted(applier!Put(paths, q, p), aCaptures, applier!OneMore(aRefused, p.tag), over)
         /\ Counted(paths, applier!OneMore(aCaptures, p.tag), aRefused, applier!OneMore(over, p.tag))
  <1> DEFINE t == p.tag
             P == applier!Put(paths, q, p)
             C == applier!OneMore(aCaptures, t)
             R == applier!OneMore(aRefused, t)
             L == applier!OneMore(over, t)
  <1>1. /\ \A c \in Captures : C[c] = IF c = t THEN aCaptures[c] + 1 ELSE aCaptures[c]
        /\ \A c \in Captures : R[c] = IF c = t THEN aRefused[c] + 1 ELSE aRefused[c]
        /\ \A c \in Captures : L[c] = IF c = t THEN over[c] + 1 ELSE over[c]
      BY MoreAndLess DEF ApplierTypes
  <1>2. \A c \in Captures :
          Number(paths, c) \in Nat /\ Number(P, c) = Number(paths, c) + IF c = t THEN 1 ELSE 0
      BY NumberAdded
  <1>3. \A c \in Captures : aCaptures[c] \in Nat /\ aRefused[c] \in Nat /\ over[c] \in Nat
      BY DEF ApplierTypes, Counts
  <1> HIDE DEF t, P, C, R, L
  <1>4. Counted(P, C, aRefused, over)
      BY <1>1, <1>2, <1>3 DEF Counted
  <1>5. Counted(P, aCaptures, R, over)
      BY <1>1, <1>2, <1>3 DEF Counted
  <1>6. Counted(paths, C, aRefused, L)
      BY <1>1, <1>2, <1>3 DEF Counted
  <1> QED
      BY <1>4, <1>5, <1>6 DEF t, P, C, R, L

(* The connections of a path go with its instance, ...                       *)
LEMMA JoinedDropped ==
  ASSUME NEW paths, NEW standing, NEW connections, NEW q \in DOMAIN paths,
         \A r, t \in DOMAIN paths : paths[r].id = paths[t].id => r = t,
         Joined(paths, standing, connections)
  PROVE  Joined(applier!Without(paths, {q}), standing,
                {l \in connections : l[1] # paths[q].id})
  <1> DEFINE P == applier!Without(paths, {q})
             L == {l \in connections : l[1] # paths[q].id}
  <1>1. DOMAIN P = DOMAIN paths \ {q} /\ \A x \in DOMAIN P : P[x] = paths[x]
      BY DEF applier!Without, applier!Restrict
  <1> HIDE DEF P
  <1>2. \A l \in L : \E s \in DOMAIN standing :
          \E r \in standing[s] \cap DOMAIN P : l = <<P[r].id, s>>
      BY <1>1 DEF Joined
  <1>3. \A s \in DOMAIN standing : \A r \in standing[s] \cap DOMAIN P : <<P[r].id, s>> \in L
      BY <1>1 DEF Joined
  <1>4. Joined(P, standing, L)
      BY <1>2, <1>3 DEF Joined
  <1> QED
      BY <1>4 DEF P

(* ... and a path that no sink is to play has none.                          *)
LEMMA JoinedAdded ==
  ASSUME NEW paths, NEW standing, NEW connections, NEW q, NEW p,
         \A s \in DOMAIN standing : q \notin standing[s],
         Joined(paths, standing, connections)
  PROVE  Joined(applier!Put(paths, q, p), standing, connections)
  <1> DEFINE P == applier!Put(paths, q, p)
  <1>1. DOMAIN P = DOMAIN paths \cup {q} /\ \A x \in DOMAIN paths \ {q} : P[x] = paths[x]
      BY DEF applier!Put
  <1> HIDE DEF P
  <1>2. \A s \in DOMAIN standing : \A r \in standing[s] :
          (r \in DOMAIN P <=> r \in DOMAIN paths) /\ (r \in DOMAIN paths => P[r] = paths[r])
      BY <1>1
  <1>3. Joined(P, standing, connections)
      BY <1>2 DEF Joined
  <1> QED
      BY <1>3 DEF P

(* A sink that goes takes its connections along; one that is to play other   *)
(* paths has the connections of those.                                       *)
LEMMA JoinedSinkDropped ==
  ASSUME NEW paths, NEW standing, NEW connections, NEW s, Joined(paths, standing, connections),
         NEW S, DOMAIN S = DOMAIN standing \ {s}, \A x \in DOMAIN S : S[x] = standing[x],
         NEW L, \A l : l \in L <=> l \in connections /\ l[2] # s
  PROVE  Joined(paths, S, L)
  BY DEF Joined

LEMMA JoinedSink ==
  ASSUME NEW paths, NEW standing, NEW connections, NEW s, NEW S, NEW L,
         Joined(paths, standing, connections),
         DOMAIN S = DOMAIN standing \cup {s}, \A x \in DOMAIN standing \ {s} : S[x] = standing[x],
         \A l : l \in L <=> \/ l \in connections /\ l[2] # s
                            \/ \E q \in S[s] \cap DOMAIN paths : l = <<paths[q].id, s>>
  PROVE  Joined(paths, S, L)
  <1>1. ASSUME NEW l \in L
        PROVE  \E x \in DOMAIN S : \E q \in S[x] \cap DOMAIN paths : l = <<paths[q].id, x>>
    <2>1. CASE l \in connections /\ l[2] # s
        BY <2>1 DEF Joined
    <2> QED
        BY <2>1
  <1>2. ASSUME NEW x \in DOMAIN S, NEW q \in S[x] \cap DOMAIN paths
        PROVE  <<paths[q].id, x>> \in L
      BY DEF Joined
  <1> QED
      BY <1>1, <1>2 DEF Joined

(* The links of the other sinks stand as they stood.                         *)
LEMMA StandingPut ==
  ASSUME NEW s, NEW player, \A l : l[2] # s => (l \in aLost' <=> l \in aLost)
  PROVE  LET S == Standing(applier!Put(aShadow.sinks, s, player), aLost')
         IN  /\ DOMAIN S = DOMAIN Still \cup {s} /\ DOMAIN Still = DOMAIN aShadow.sinks
             /\ \A q : q \in S[s] <=> q \in player.links /\ <<q, s>> \notin aLost'
             /\ \A x \in DOMAIN Still \ {s} : S[x] = Still[x]
  <1> DEFINE P == applier!Put(aShadow.sinks, s, player)
  <1>1. DOMAIN P = DOMAIN aShadow.sinks \cup {s} /\ P[s] = player
        /\ \A x \in DOMAIN aShadow.sinks \ {s} : P[x] = aShadow.sinks[x]
      BY DEF applier!Put
  <1> HIDE DEF P
  <1>2. \A q, x : x # s => (<<q, x>> \in aLost' <=> <<q, x>> \in aLost)
      OBVIOUS
  <1>3. \A x \in DOMAIN aShadow.sinks \ {s} : Standing(P, aLost')[x] = Still[x]
      BY <1>1, <1>2 DEF Standing, Still
  <1> QED
      BY <1>1, <1>3 DEF Standing, Still, P

LEMMA StandingWithout ==
  ASSUME NEW s, \A l : l[2] # s => (l \in aLost' <=> l \in aLost)
  PROVE  LET S == Standing(applier!Without(aShadow.sinks, {s}), aLost')
         IN  /\ DOMAIN S = DOMAIN Still \ {s} /\ DOMAIN Still = DOMAIN aShadow.sinks
             /\ \A x \in DOMAIN S : S[x] = Still[x]
  <1> DEFINE P == applier!Without(aShadow.sinks, {s})
  <1>1. DOMAIN P = DOMAIN aShadow.sinks \ {s} /\ \A x \in DOMAIN P : P[x] = aShadow.sinks[x]
      BY DEF applier!Without, applier!Restrict
  <1> HIDE DEF P
  <1>2. \A q, x : x # s => (<<q, x>> \in aLost' <=> <<q, x>> \in aLost)
      OBVIOUS
  <1>3. \A x \in DOMAIN P : Standing(P, aLost')[x] = Still[x]
      BY <1>1, <1>2 DEF Standing, Still
  <1> QED
      BY <1>1, <1>3 DEF Standing, Still, P

(* reconcile_connections_for_sink: from the connections of the paths that    *)
(* the sink had to those of the paths that it is to play.                    *)
LEMMA ReconnectJoins ==
  ASSUME NEW s \in DOMAIN aGoal.sinks, NEW had, NEW held, NEW L0,
         ApplierTypes, GoalMade, PathsMade, LinksMade,
         \A q : q \in held <=> q \in had /\ <<q, s>> \notin aLost,
         held \cap DOMAIN aGoal.paths \subseteq DOMAIN aShadow.paths,
         \A l : l \in L0 <=> \/ l \in aLinks /\ l[2] # s
                             \/ \E q \in held \cap DOMAIN aShadow.paths :
                                  l = <<aShadow.paths[q].id, s>>,
         applier!Reconnect(s, had, L0)
  PROVE  \E player :
           /\ player.config = aGoal.sinks[s].config
           /\ player.links \subseteq aGoal.sinks[s].links
           /\ {q \in player.links : <<q, s>> \notin aLost'} \subseteq DOMAIN aShadow.paths
           /\ \A l : l[2] # s => (l \in aLost' <=> l \in aLost)
           /\ aShadow' = [sinks |-> applier!Put(aShadow.sinks, s, player), paths |-> aShadow.paths]
           /\ Joined(aShadow.paths, Standing(applier!Put(aShadow.sinks, s, player), aLost'), aLinks')
  <1> DEFINE paths == aShadow.paths
             want == aGoal.sinks[s].links
             Plays(S) == [config |-> aGoal.sinks[s].config, links |-> (had \cap want) \cup S]
  <1>1. PICK S \in applier!Connectable(want \ had, paths) :
          /\ aLinks' = (L0 \cup {<<paths[q].id, s>> : q \in S}) \
                         {<<paths[q].id, s>> : q \in (had \ want) \cap DOMAIN paths}
          /\ aShadow' = [aShadow EXCEPT !.sinks = applier!Put(@, s, Plays(S))]
          /\ aLost' = {l \in aLost : l[2] # s \/ l[1] \in had \cap want}
      BY DEF applier!Reconnect
  <1>2. S \subseteq (want \ had) \cap DOMAIN paths
      BY DEF applier!Connectable
  <1>3. want \subseteq DOMAIN aGoal.paths
      BY DEF GoalMade
  <1> DEFINE player == Plays(S)
             stands == {q \in player.links : <<q, s>> \notin aLost'}
  <1>4. player.links = (had \cap want) \cup S /\ player.config = aGoal.sinks[s].config
      OBVIOUS
  <1>5. stands = (held \cap want) \cup S
    <2>1. \A q \in had \cap want : <<q, s>> \in aLost' <=> <<q, s>> \in aLost
        BY <1>1
    <2>2. \A q \in S : <<q, s>> \notin aLost'
        BY <1>1, <1>2
    <2> HIDE DEF player
    <2> QED
        BY <1>2, <1>4, <2>1, <2>2
  <1>6. player.links \subseteq want /\ stands \subseteq DOMAIN paths
      BY <1>2, <1>3, <1>4, <1>5
  <1>7. aShadow' = [sinks |-> applier!Put(aShadow.sinks, s, player), paths |-> paths]
      BY <1>1 DEF ApplierTypes
  <1>8. \A l : l[2] # s => (l \in aLost' <=> l \in aLost)
      BY <1>1
  <1> HIDE DEF player, Plays, stands
  <1>9. \A q, r \in DOMAIN paths : paths[q].id = paths[r].id => q = r
      BY DEF PathsMade, Fits
  <1>10. \A l : l \in aLinks' <=> \/ l \in aLinks /\ l[2] # s
                                  \/ \E q \in stands \cap DOMAIN paths : l = <<paths[q].id, s>>
    <2>1. ASSUME NEW l, l \in aLinks'
          PROVE  \/ l \in aLinks /\ l[2] # s
                 \/ \E q \in stands \cap DOMAIN paths : l = <<paths[q].id, s>>
      <3>1. CASE l \in aLinks /\ l[2] # s
          BY <3>1
      <3>2. CASE \E q \in S : l = <<paths[q].id, s>>
          BY <3>2, <1>2, <1>5
      <3>3. ASSUME NEW q \in held \cap DOMAIN paths, l = <<paths[q].id, s>>
            PROVE  \E x \in stands \cap DOMAIN paths : l = <<paths[x].id, s>>
        <4>1. q \in want
            BY <3>3, <2>1, <1>1
        <4> QED
            BY <4>1, <3>3, <1>5
      <3>4. l \in L0 \/ \E q \in S : l = <<paths[q].id, s>>
          BY <2>1, <1>1
      <3> QED
          BY <3>1, <3>2, <3>3, <3>4
    <2>2. ASSUME NEW l, l \in aLinks, l[2] # s
          PROVE  l \in aLinks'
          BY <2>2, <1>1
    <2>3. ASSUME NEW q \in stands \cap DOMAIN paths
          PROVE  <<paths[q].id, s>> \in aLinks'
      <3>1. q \notin had \ want
          BY <1>2, <1>5
      <3>2. <<paths[q].id, s>> \in L0 \cup {<<paths[x].id, s>> : x \in S}
          BY <1>5
      <3>3. \A x \in (had \ want) \cap DOMAIN paths : <<paths[q].id, s>> # <<paths[x].id, s>>
          BY <3>1, <1>9
      <3> QED
          BY <3>2, <3>3, <1>1
    <2> QED
        BY <2>1, <2>2, <2>3
  <1>11. Joined(paths, Standing(applier!Put(aShadow.sinks, s, player), aLost'), aLinks')
    <2> DEFINE T == Standing(applier!Put(aShadow.sinks, s, player), aLost')
    <2>1. /\ DOMAIN T = DOMAIN Still \cup {s}
          /\ \A q : q \in T[s] <=> q \in player.links /\ <<q, s>> \notin aLost'
          /\ \A x \in DOMAIN Still \ {s} : T[x] = Still[x]
        BY <1>8, StandingPut
    <2> HIDE DEF T
    <2>2. T[s] = stands
        BY <2>1 DEF stands
    <2>3. \A l : l \in aLinks' <=> \/ l \in aLinks /\ l[2] # s
                                   \/ \E q \in T[s] \cap DOMAIN paths : l = <<paths[q].id, s>>
        BY <1>10, <2>2
    <2> HIDE DEF paths
    <2>4. Joined(paths, T, aLinks')
        BY <2>1, <2>3, JoinedSink DEF LinksMade, paths
    <2> QED
        BY <2>4 DEF T, paths
  <1> QED
      BY <1>4, <1>6, <1>7, <1>8, <1>11 DEF stands

(* The parts of the invariant that the lemmas above are about, after a step. *)
LEMMA PartsAfter ==
  /\ Fits(aShadow'.paths, aSources', aMade') => PathsMade'
  /\ Joined(aShadow'.paths, Standing(aShadow'.sinks, aLost'), aLinks') => LinksMade'
  /\ Counted(aShadow'.paths, aCaptures', aRefused', aLeaked') => CapturesCounted'
  <1>1. Fits(aShadow'.paths, aSources', aMade') => PathsMade'
      BY DEF PathsMade, Fits
  <1>2. Joined(aShadow'.paths, Standing(aShadow'.sinks, aLost'), aLinks') => LinksMade'
      BY DEF LinksMade, Joined, Still, Standing
  <1>3. Counted(aShadow'.paths, aCaptures', aRefused', aLeaked') => CapturesCounted'
      BY DEF CapturesCounted, Counted, Number
  <1> QED
      BY <1>1, <1>2, <1>3

(* What a step of apply_state leaves alone.                                  *)
LEMMA StepKeeps ==
  ASSUME NEW step \in applier!Steps, NEW x, ApplierInv,
         applier!Ready(step), x \in aTodo[step], applier!Done(step, x)
  PROVE  /\ aLock # "free" /\ aLock' = aLock
         /\ aTodo' = [y \in applier!Steps |-> aTodo'[y]]
         /\ aTodo'[step] = aTodo[step] \ {x}
         /\ \A y \in applier!Steps \ {step} : aTodo'[y] = aTodo[y]
         /\ aLive' = aLive /\ aCached' = aCached /\ aSnapshot' = aSnapshot /\ aGoal' = aGoal
         /\ GoalMade'
  <1>1. aTodo' = [aTodo EXCEPT ![step] = @ \ {x}] /\ aTodo = [y \in applier!Steps |-> aTodo[y]]
      BY DEF applier!Done, ApplierInv, ApplierTypes
  <1>2. aGoal' = aGoal
      BY DEF applier!Done
  <1>3. GoalMade'
      BY <1>2 DEF ApplierInv, GoalMade, Asked
  <1> QED
      BY <1>1, <1>2, <1>3 DEF applier!Ready, applier!Done, applier!streamVars, applier!callVars

(* The paths' side of the invariant, of the sinks' side, is kept by ...      *)
LEMMA PathStep ==
  ASSUME ApplierInv, aLock # "free", aLock' = aLock, aGoal' = aGoal,
         aShadow'.sinks = aShadow.sinks, aSinks' = aSinks,
         \A x \in {"remove sinks", "update sinks"} : aTodo'[x] = aTodo[x],
         \A s \in DOMAIN aShadow.sinks :
           Standing(aShadow.sinks, aLost')[s] \cap DOMAIN aGoal.paths \subseteq DOMAIN aShadow'.paths
  PROVE  SinksMade' /\ LinksDue'
  <1>1. SinksMade'
      BY DEF ApplierInv, SinksMade
  <1>2. \A s \in DOMAIN aShadow.sinks : Still'[s] = Standing(aShadow.sinks, aLost')[s]
      BY DEF Still, Standing
  <1>3. LinksDue'
      BY <1>2 DEF ApplierInv, LinksDue
  <1> QED
      BY <1>1, <1>3

LEMMA RemovePathKeeps ==
  ASSUME ApplierInv, NEW q, applier!RemovePath(q)
  PROVE  ApplierInv'
  <1> DEFINE paths == aShadow.paths
             id == paths[q].id
  <1>1. /\ aSources' = applier!Without(aSources, {id})
        /\ aLinks' = {l \in aLinks : l[1] # id}
        /\ aCaptures' = applier!Released(paths[q].tag)
        /\ aShadow' = [sinks |-> aShadow.sinks, paths |-> applier!Without(paths, {q})]
        /\ aSinks' = aSinks /\ aMade' = aMade
        /\ aLost' = aLost /\ aRefused' = aRefused /\ aLeaked' = aLeaked
      BY DEF applier!RemovePath, applier!Dropped, applier!history, ApplierInv, ApplierTypes
  <1>2. /\ aLock # "free" /\ aLock' = aLock
        /\ aTodo' = [y \in applier!Steps |-> aTodo'[y]]
        /\ aTodo'["remove paths"] = aTodo["remove paths"] \ {q}
        /\ \A y \in applier!Steps \ {"remove paths"} : aTodo'[y] = aTodo[y]
        /\ aLive' = aLive /\ aCached' = aCached /\ aSnapshot' = aSnapshot /\ aGoal' = aGoal
        /\ GoalMade'
      BY StepKeeps DEF applier!RemovePath, applier!Steps
  <1>3. q \in DOMAIN paths /\ q \notin DOMAIN aGoal.paths
      BY DEF applier!RemovePath, ApplierInv, TodoMade
  <1>4. aShadow'.paths = applier!Without(paths, {q}) /\ aShadow'.sinks = aShadow.sinks
        /\ DOMAIN aShadow'.paths = DOMAIN paths \ {q}
      BY <1>1 DEF applier!Without, applier!Restrict
  <1>5. PathsMade'
      BY <1>1, <1>3, <1>4, FitsDropped, PartsAfter DEF ApplierInv, ApplierTypes, PathsMade
  <1>6. LinksMade'
    <2>1. \A r, t \in DOMAIN paths : paths[r].id = paths[t].id => r = t
        BY DEF ApplierInv, PathsMade, Fits
    <2>2. Joined(applier!Without(paths, {q}), Still, aLinks')
        BY <2>1, <1>1, <1>3, JoinedDropped DEF ApplierInv, LinksMade
    <2> QED
        BY <2>2, <1>1, <1>4, PartsAfter DEF Still
  <1>7. CapturesCounted' /\ aCaptures' \in Counts
      BY <1>1, <1>3, <1>4, CountedDropped, PartsAfter
         DEF ApplierInv, ApplierTypes, PathsMade, Fits, CapturesCounted
  <1>8. SinksMade' /\ LinksDue'
    <2>1. \A s \in DOMAIN aShadow.sinks :
            Standing(aShadow.sinks, aLost')[s] \cap DOMAIN aGoal.paths \subseteq DOMAIN aShadow'.paths
        BY <1>1, <1>3, <1>4 DEF ApplierInv, LinksDue, Still
    <2>2. \A x \in {"remove sinks", "update sinks"} : aTodo'[x] = aTodo[x]
        BY <1>2 DEF applier!Steps
    <2> QED
        BY <2>1, <2>2, <1>1, <1>2, <1>4, PathStep
  <1>9. TodoMade'
      BY <1>2, <1>4, <1>3 DEF ApplierInv, TodoMade, applier!Steps
  <1>10. ApplierTypes'
      BY <1>1, <1>2, <1>4, <1>7 DEF ApplierInv, ApplierTypes
  <1> QED
      BY <1>2, <1>5, <1>6, <1>7, <1>8, <1>9, <1>10 DEF ApplierInv

(* process_source_path_addition: with the path, its instance and its         *)
(* reference to a capture device, or nothing.                                *)
LEMMA AddedFits ==
  ASSUME NEW q \in DOMAIN aGoal.paths, NEW paths, NEW instances, q \notin DOMAIN paths,
         NEW over \in Counts, ApplierTypes, GoalMade,
         Fits(paths, instances, aMade), Counted(paths, aCaptures, aRefused, over),
         NEW standing, NEW connections, Joined(paths, standing, connections),
         \A s \in DOMAIN standing : q \notin standing[s],
         applier!Added(q, paths, instances, over)
  PROVE  /\ aShadow' = [sinks |-> aShadow.sinks, paths |-> aShadow'.paths]
         /\ aMade' \in Nat /\ aCaptures' \in Counts /\ aRefused' \in Counts /\ aLeaked' \in Counts
         /\ DOMAIN paths \subseteq DOMAIN aShadow'.paths
         /\ DOMAIN aShadow'.paths \subseteq DOMAIN paths \cup {q}
         /\ Fits(aShadow'.paths, aSources', aMade')
         /\ Counted(aShadow'.paths, aCaptures', aRefused', aLeaked')
         /\ Joined(aShadow'.paths, standing, connections)
  <1> DEFINE r == aGoal.paths[q]
             p == applier!Put(r, "id", aMade + 1)
             P == applier!Put(paths, q, p)
             more == applier!OneMore(aCaptures, r.tag)
             without == applier!OneMore(aRefused, r.tag)
             owed == applier!OneMore(over, r.tag)
  <1>1. aMade \in Nat /\ Asked(r) /\ IsFiniteSet(DOMAIN paths)
        /\ aShadow = [sinks |-> aShadow.sinks, paths |-> aShadow.paths]
        /\ aCaptures \in Counts /\ aRefused \in Counts
      BY DEF ApplierTypes, GoalMade, Fits
  <1>2. p.tag = r.tag
      BY <1>1, WithId DEF Keys
  <1>3. more \in Counts /\ without \in Counts /\ owed \in Counts
      BY <1>1, MoreAndLess
  <1>4. /\ Counted(P, more, aRefused, over) /\ Counted(P, aCaptures, without, over)
        /\ Counted(paths, more, aRefused, owed)
    <2> HIDE DEF p
    <2> QED
        BY <1>1, <1>2, CountedAdded
  <1>5. CASE /\ aMade' = aMade + 1
             /\ aSources' = applier!Put(instances, aMade', applier!Restrict(r, Keys))
             /\ aShadow' = [aShadow EXCEPT !.paths = applier!Put(paths, q, applier!Put(r, "id", aMade'))]
             /\ \/ aCaptures' = more /\ aRefused' = aRefused
                \/ aCaptures' = aCaptures /\ aRefused' = without
             /\ aLeaked' = over
    <2>1. aShadow' = [sinks |-> aShadow.sinks, paths |-> P]
          /\ aSources' = applier!Put(instances, aMade + 1, applier!Restrict(r, Keys))
        BY <1>1, <1>5
    <2>2. DOMAIN P = DOMAIN paths \cup {q}
        BY DEF applier!Put
    <2>3. Fits(P, aSources', aMade + 1)
        BY <1>1, <2>1, FitsAdded
    <2>4. Joined(P, standing, connections)
        BY JoinedAdded
    <2> HIDE DEF P, more, without, owed
    <2>5. Counted(P, aCaptures', aRefused', aLeaked')
        BY <1>4, <1>5
    <2> QED
        BY <1>1, <1>3, <1>5, <2>1, <2>2, <2>3, <2>4, <2>5
  <1>6. CASE /\ aSources' = instances
             /\ aShadow' = [aShadow EXCEPT !.paths = paths]
             /\ aMade' = aMade /\ aRefused' = aRefused
             /\ \/ aCaptures' = more /\ aLeaked' = owed
                \/ aCaptures' = aCaptures /\ aLeaked' = over
    <2>1. aShadow' = [sinks |-> aShadow.sinks, paths |-> paths]
        BY <1>1, <1>6
    <2> HIDE DEF P, more, without, owed
    <2>2. Counted(paths, aCaptures', aRefused', aLeaked')
        BY <1>4, <1>6
    <2> QED
        BY <2>1, <2>2, <1>1, <1>3, <1>6
  <1> QED
    <2>1. PICK granted \in BOOLEAN :
            LET counted == granted \/ aCaptures[r.tag] > 0 IN
              \/ /\ aMade' = aMade + 1
                 /\ aSources' = applier!Put(instances, aMade', applier!Restrict(r, Keys))
                 /\ aShadow' = [aShadow EXCEPT !.paths = applier!Put(paths, q, applier!Put(r, "id", aMade'))]
                 /\ aCaptures' = IF counted THEN more ELSE aCaptures
                 /\ aRefused' = IF counted THEN aRefused ELSE without
                 /\ aLeaked' = over
              \/ /\ aSources' = instances
                 /\ aShadow' = [aShadow EXCEPT !.paths = paths]
                 /\ aCaptures' = IF ~granted /\ counted THEN more ELSE aCaptures
                 /\ aLeaked' = IF ~granted /\ counted THEN owed ELSE over
                 /\ aRefused' = aRefused /\ aMade' = aMade
        BY Zenon DEF applier!Added, Keys
    <2> HIDE DEF p, P, more, without, owed
    <2> QED
        BY <2>1, <1>5, <1>6

LEMMA AddPathKeeps ==
  ASSUME ApplierInv, NEW q, applier!AddPath(q)
  PROVE  ApplierInv'
  <1> DEFINE paths == aShadow.paths
  <1>1. /\ aLock # "free" /\ aLock' = aLock
        /\ aTodo' = [y \in applier!Steps |-> aTodo'[y]]
        /\ aTodo'["add paths"] = aTodo["add paths"] \ {q}
        /\ \A y \in applier!Steps \ {"add paths"} : aTodo'[y] = aTodo[y]
        /\ aLive' = aLive /\ aCached' = aCached /\ aSnapshot' = aSnapshot /\ aGoal' = aGoal
        /\ GoalMade'
      BY StepKeeps DEF applier!AddPath, applier!Steps
  <1>2. aSinks' = aSinks /\ aLinks' = aLinks /\ applier!Added(q, paths, aSources, aLeaked)
        /\ aLost' = aLost
      BY DEF applier!AddPath
  <1>3. q \notin DOMAIN paths /\ q \in DOMAIN aGoal.paths
      BY DEF applier!AddPath, ApplierInv, TodoMade
  <1>4. \A s \in DOMAIN Still : q \notin Still[s]
      BY <1>3 DEF ApplierInv, LinksDue, Still, Standing
  <1>5. /\ aShadow' = [sinks |-> aShadow.sinks, paths |-> aShadow'.paths]
        /\ aMade' \in Nat /\ aCaptures' \in Counts /\ aRefused' \in Counts /\ aLeaked' \in Counts
        /\ DOMAIN paths \subseteq DOMAIN aShadow'.paths
        /\ DOMAIN aShadow'.paths \subseteq DOMAIN paths \cup {q}
        /\ Fits(aShadow'.paths, aSources', aMade')
        /\ Counted(aShadow'.paths, aCaptures', aRefused', aLeaked')
        /\ Joined(aShadow'.paths, Still, aLinks)
      BY <1>2, <1>3, <1>4, AddedFits DEF ApplierInv, ApplierTypes, PathsMade, CapturesCounted, LinksMade
  <1>6. aShadow'.sinks = aShadow.sinks
      BY <1>5
  <1>7. PathsMade' /\ CapturesCounted'
      BY <1>5, PartsAfter
  <1>8. LinksMade'
      BY <1>2, <1>5, <1>6, PartsAfter DEF Still
  <1>9. SinksMade' /\ LinksDue'
    <2>1. \A s \in DOMAIN aShadow.sinks :
            Standing(aShadow.sinks, aLost')[s] \cap DOMAIN aGoal.paths \subseteq DOMAIN aShadow'.paths
        BY <1>2, <1>5 DEF ApplierInv, LinksDue, Still
    <2>2. \A x \in {"remove sinks", "update sinks"} : aTodo'[x] = aTodo[x]
        BY <1>1 DEF applier!Steps
    <2> QED
        BY <2>1, <2>2, <1>1, <1>2, <1>6, PathStep
  <1>10. TodoMade'
      BY <1>1, <1>5, <1>6 DEF ApplierInv, TodoMade, applier!Steps
  <1>11. ApplierTypes'
      BY <1>1, <1>5 DEF ApplierInv, ApplierTypes
  <1> QED
      BY <1>1, <1>7, <1>8, <1>9, <1>10, <1>11 DEF ApplierInv

LEMMA RecreatePathKeeps ==
  ASSUME ApplierInv, NEW q, applier!RecreatePath(q)
  PROVE  ApplierInv'
  <1> DEFINE paths == aShadow.paths
             rest == applier!Without(paths, {q})
             id == paths[q].id
             instances == applier!Without(aSources, {id})
  <1>1. /\ aLock # "free" /\ aLock' = aLock
        /\ aTodo' = [y \in applier!Steps |-> aTodo'[y]]
        /\ aTodo'["update paths"] = aTodo["update paths"] \ {q}
        /\ \A y \in applier!Steps \ {"update paths"} : aTodo'[y] = aTodo[y]
        /\ aLive' = aLive /\ aCached' = aCached /\ aSnapshot' = aSnapshot /\ aGoal' = aGoal
        /\ GoalMade'
      BY StepKeeps DEF applier!RecreatePath, applier!Steps
  <1>2. /\ aSinks' = aSinks /\ aLinks' = {l \in aLinks : l[1] # id}
        /\ applier!Added(q, rest, instances, applier!OneMore(aLeaked, paths[q].tag))
        /\ aLost' = aLost \cup {<<q, s>> : s \in {x \in DOMAIN aShadow.sinks : q \in aShadow.sinks[x].links}}
      BY DEF applier!RecreatePath, applier!Dropped
  <1>3. q \in DOMAIN paths /\ q \in DOMAIN aGoal.paths
      BY DEF applier!RecreatePath, ApplierInv, TodoMade
  <1> DEFINE now == Standing(aShadow.sinks, aLost')
  <1>4. DOMAIN now = DOMAIN Still /\ \A s \in DOMAIN now : now[s] = Still[s] \ {q}
      BY <1>2 DEF Still, Standing
  <1>5. \A s \in DOMAIN now : q \notin now[s]
      BY <1>4
  <1>6. DOMAIN rest = DOMAIN paths \ {q}
      BY DEF applier!Without, applier!Restrict
  <1>7. Fits(rest, instances, aMade)
      BY <1>3, FitsDropped DEF ApplierInv, ApplierTypes, PathsMade
  <1>8. /\ Counted(rest, aCaptures, aRefused, applier!OneMore(aLeaked, paths[q].tag))
        /\ applier!OneMore(aLeaked, paths[q].tag) \in Counts
      BY <1>3, CountedDropped DEF ApplierInv, PathsMade, Fits, CapturesCounted
  <1>9. Joined(rest, now, aLinks')
    <2>1. Joined(rest, Still, aLinks')
        BY <1>2, <1>3, JoinedDropped DEF ApplierInv, PathsMade, Fits, LinksMade
    <2> HIDE DEF now, rest
    <2>2. \A s \in DOMAIN now : now[s] \cap DOMAIN rest = Still[s] \cap DOMAIN rest
        BY <1>4, <1>6
    <2> QED
        BY <2>1, <2>2, <1>4 DEF Joined
  <1> HIDE DEF rest, instances, now
  <1>10. /\ aShadow' = [sinks |-> aShadow.sinks, paths |-> aShadow'.paths]
         /\ aMade' \in Nat /\ aCaptures' \in Counts /\ aRefused' \in Counts /\ aLeaked' \in Counts
         /\ DOMAIN rest \subseteq DOMAIN aShadow'.paths
         /\ DOMAIN aShadow'.paths \subseteq DOMAIN rest \cup {q}
         /\ Fits(aShadow'.paths, aSources', aMade')
         /\ Counted(aShadow'.paths, aCaptures', aRefused', aLeaked')
         /\ Joined(aShadow'.paths, now, aLinks')
      BY <1>2, <1>3, <1>5, <1>6, <1>7, <1>8, <1>9, AddedFits DEF ApplierInv
  <1>11. aShadow'.sinks = aShadow.sinks
      BY <1>10
  <1>12. PathsMade' /\ CapturesCounted'
      BY <1>10, PartsAfter
  <1>13. LinksMade'
      BY <1>10, <1>11, PartsAfter DEF now
  <1>14. SinksMade' /\ LinksDue'
    <2>1. \A s \in DOMAIN aShadow.sinks :
            now[s] \cap DOMAIN aGoal.paths \subseteq DOMAIN aShadow'.paths
      <3>1. \A s \in DOMAIN aShadow.sinks : s \in DOMAIN now
          BY DEF now, Standing
      <3> QED
          BY <3>1, <1>4, <1>6, <1>10 DEF ApplierInv, LinksDue
    <2>2. \A x \in {"remove sinks", "update sinks"} : aTodo'[x] = aTodo[x]
        BY <1>1 DEF applier!Steps
    <2> QED
        BY <2>1, <2>2, <1>1, <1>2, <1>11, PathStep DEF now
  <1>15. TodoMade'
    <2>1. /\ DOMAIN paths \ {q} \subseteq DOMAIN aShadow'.paths
          /\ DOMAIN aShadow'.paths \subseteq DOMAIN paths
        BY <1>3, <1>6, <1>10
    <2> HIDE DEF paths
    <2> QED
        BY <2>1, <1>1, <1>3, <1>11 DEF paths, ApplierInv, TodoMade, applier!Steps
  <1>16. ApplierTypes'
      BY <1>1, <1>10 DEF ApplierInv, ApplierTypes
  <1> QED
      BY <1>1, <1>12, <1>13, <1>14, <1>15, <1>16 DEF ApplierInv

LEMMA UpdatePathKeeps ==
  ASSUME ApplierInv, NEW q, applier!UpdatePath(q)
  PROVE  ApplierInv'
  <1> DEFINE paths == aShadow.paths
             id == paths[q].id
             p == applier!Put(aGoal.paths[q], "id", id)
             P == [paths EXCEPT ![q] = p]
  <1>1. /\ aLock # "free" /\ aLock' = aLock
        /\ aTodo' = [y \in applier!Steps |-> aTodo'[y]]
        /\ aTodo'["update paths"] = aTodo["update paths"] \ {q}
        /\ \A y \in applier!Steps \ {"update paths"} : aTodo'[y] = aTodo[y]
        /\ aLive' = aLive /\ aCached' = aCached /\ aSnapshot' = aSnapshot /\ aGoal' = aGoal
        /\ GoalMade'
      BY StepKeeps DEF applier!UpdatePath, applier!Steps
  <1>2. q \in DOMAIN paths /\ q \in DOMAIN aGoal.paths
      BY DEF applier!UpdatePath, ApplierInv, TodoMade
  <1>3. /\ aSources' = [aSources EXCEPT ![id].volume = aGoal.paths[q].volume]
        /\ aShadow' = [sinks |-> aShadow.sinks, paths |-> P]
        /\ aSinks' = aSinks /\ aLinks' = aLinks /\ aCaptures' = aCaptures /\ aMade' = aMade
        /\ aLost' = aLost /\ aRefused' = aRefused /\ aLeaked' = aLeaked
        /\ paths[q].tag = aGoal.paths[q].tag /\ paths[q].format = aGoal.paths[q].format
    <2>1. aShadow' = [aShadow EXCEPT !.paths[q] = p]
        BY DEF applier!UpdatePath
    <2> HIDE DEF p
    <2>2. aShadow' = [sinks |-> aShadow.sinks, paths |-> P]
        BY <2>1 DEF ApplierInv, ApplierTypes
    <2> QED
        BY <2>2 DEF applier!UpdatePath, applier!history
  <1>4. p.id = id /\ \A k \in Keys : p[k] = aGoal.paths[q][k]
      BY <1>2, WithId DEF ApplierInv, GoalMade
  <1> HIDE DEF p
  <1>5. DOMAIN P = DOMAIN paths /\ P[q] = p /\ \A r \in DOMAIN paths \ {q} : P[r] = paths[r]
      BY <1>2
  <1>6. /\ DOMAIN aSources' = DOMAIN aSources
        /\ aSources'[id] = [aSources[id] EXCEPT !.volume = aGoal.paths[q].volume]
        /\ \A i \in DOMAIN aSources \ {id} : aSources'[i] = aSources[i]
      BY <1>2, <1>3 DEF ApplierInv, PathsMade, Fits
  <1> HIDE DEF P
  <1>7. \A r \in DOMAIN P : P[r].id = paths[r].id /\ P[r].tag = paths[r].tag
      BY <1>3, <1>4, <1>5 DEF Keys
  <1>8. \A r \in DOMAIN P :
          /\ P[r].id \in 1 .. aMade /\ P[r].id \in DOMAIN aSources'
          /\ DOMAIN aSources'[P[r].id] = Keys
          /\ \A k \in Keys : aSources'[P[r].id][k] = P[r][k]
    <2>1. SUFFICES ASSUME NEW r \in DOMAIN paths
                   PROVE  /\ paths[r].id \in 1 .. aMade /\ paths[r].id \in DOMAIN aSources'
                          /\ DOMAIN aSources'[paths[r].id] = Keys
                          /\ \A k \in Keys : aSources'[paths[r].id][k] = P[r][k]
        BY <1>5, <1>7
    <2>2. /\ paths[r].id \in 1 .. aMade /\ paths[r].id \in DOMAIN aSources
          /\ DOMAIN aSources[paths[r].id] = Keys
          /\ \A k \in Keys : aSources[paths[r].id][k] = paths[r][k]
        BY DEF ApplierInv, PathsMade, Fits
    <2>3. CASE r = q
      <3>1. DOMAIN aSources'[id] = Keys
          BY <2>2, <2>3, <1>6
      <3>2. \A k \in Keys : aSources'[id][k] = p[k]
          BY <2>2, <2>3, <1>3, <1>4, <1>6 DEF Keys
      <3> QED
          BY <3>1, <3>2, <2>2, <2>3, <1>4, <1>5, <1>6
    <2>4. CASE r # q
      <3>1. paths[r].id # id
          BY <2>4, <1>2 DEF ApplierInv, PathsMade, Fits
      <3> QED
          BY <3>1, <2>2, <2>4, <1>5, <1>6
    <2> QED
        BY <2>3, <2>4
  <1>9. Fits(P, aSources', aMade)
    <2>1. IsFiniteSet(DOMAIN P) /\ \A r, x \in DOMAIN P : P[r].id = P[x].id => r = x
        BY <1>5, <1>7 DEF ApplierInv, PathsMade, Fits
    <2>2. \A i \in DOMAIN aSources' : \E r \in DOMAIN P : i = P[r].id
        BY <1>5, <1>6, <1>7 DEF ApplierInv, PathsMade, Fits
    <2> QED
        BY <2>1, <2>2, <1>8 DEF Fits
  <1>10. PathsMade'
      BY <1>3, <1>9 DEF PathsMade, Fits
  <1>11. LinksMade'
    <2>1. \A s \in DOMAIN Still : \A r \in Still[s] :
            (r \in DOMAIN P <=> r \in DOMAIN paths) /\ (r \in DOMAIN P => P[r].id = paths[r].id)
        BY <1>5, <1>7
    <2>2. Joined(P, Still, aLinks)
        BY <2>1 DEF ApplierInv, LinksMade, Joined
    <2> QED
        BY <2>2, <1>3, PartsAfter DEF Still
  <1>12. CapturesCounted'
    <2>1. \A c \in Captures : {r \in DOMAIN P : P[r].tag = c} = {r \in DOMAIN paths : paths[r].tag = c}
        BY <1>5, <1>7
    <2>2. Counted(P, aCaptures, aRefused, aLeaked)
        BY <2>1 DEF ApplierInv, CapturesCounted, Counted, Number
    <2> QED
        BY <2>2, <1>3, PartsAfter
  <1>13. SinksMade' /\ LinksDue'
    <2>1. aShadow'.sinks = aShadow.sinks /\ DOMAIN aShadow'.paths = DOMAIN paths
        BY <1>3, <1>5
    <2>2. \A x \in {"remove sinks", "update sinks"} : aTodo'[x] = aTodo[x]
        BY <1>1 DEF applier!Steps
    <2>3. \A s \in DOMAIN aShadow.sinks :
            Standing(aShadow.sinks, aLost')[s] \cap DOMAIN aGoal.paths \subseteq DOMAIN aShadow'.paths
        BY <2>1, <1>3 DEF ApplierInv, LinksDue, Still
    <2> QED
        BY <2>1, <2>2, <2>3, <1>1, <1>3, PathStep
  <1>14. TodoMade'
      BY <1>1, <1>3, <1>5 DEF ApplierInv, TodoMade, applier!Steps
  <1>15. ApplierTypes'
      BY <1>1, <1>3 DEF ApplierInv, ApplierTypes
  <1> QED
      BY <1>1, <1>10, <1>11, <1>12, <1>13, <1>14, <1>15 DEF ApplierInv

(* The sinks' side: a sink s that was made or is made anew, or one that goes.*)
LEMMA SinkStep ==
  ASSUME ApplierInv, NEW players,
         aShadow' = [sinks |-> players, paths |-> aShadow.paths],
         aSources' = aSources /\ aCaptures' = aCaptures /\ aMade' = aMade,
         aRefused' = aRefused /\ aLeaked' = aLeaked,
         aLive' = aLive /\ aCached' = aCached /\ aSnapshot' = aSnapshot,
         aTodo' = [y \in applier!Steps |-> aTodo'[y]],
         Joined(aShadow.paths, Standing(players, aLost'), aLinks')
  PROVE  ApplierTypes' /\ PathsMade' /\ CapturesCounted' /\ LinksMade'
         /\ aShadow'.sinks = players /\ aShadow'.paths = aShadow.paths
  <1>1. aShadow'.sinks = players /\ aShadow'.paths = aShadow.paths
      OBVIOUS
  <1>2. ApplierTypes'
      BY <1>1 DEF ApplierInv, ApplierTypes
  <1>3. PathsMade'
      BY <1>1 DEF ApplierInv, PathsMade, Fits
  <1>4. CapturesCounted'
      BY <1>1, PartsAfter DEF ApplierInv, CapturesCounted
  <1>5. LinksMade'
      BY <1>1, PartsAfter
  <1> QED
      BY <1>1, <1>2, <1>3, <1>4, <1>5

LEMMA SinkPut ==
  ASSUME ApplierInv, NEW s \in DOMAIN aGoal.sinks, NEW player,
         aShadow'.sinks = applier!Put(aShadow.sinks, s, player),
         aShadow'.paths = aShadow.paths, aGoal' = aGoal,
         player.config = aGoal.sinks[s].config,
         player.links \subseteq aGoal.sinks[s].links,
         {q \in player.links : <<q, s>> \notin aLost'} \subseteq DOMAIN aShadow.paths,
         \A l : l[2] # s => (l \in aLost' <=> l \in aLost),
         DOMAIN aSinks' = DOMAIN aSinks \cup {s}, aSinks'[s] = aGoal.sinks[s].config,
         \A x \in DOMAIN aSinks \ {s} : aSinks'[x] = aSinks[x],
         aTodo'["remove sinks"] = aTodo["remove sinks"],
         aTodo["update sinks"] \ {s} \subseteq aTodo'["update sinks"]
  PROVE  SinksMade' /\ LinksDue'
  <1> DEFINE players == applier!Put(aShadow.sinks, s, player)
             now == Standing(players, aLost')
  <1>1. DOMAIN players = DOMAIN aShadow.sinks \cup {s} /\ players[s] = player
        /\ \A x \in DOMAIN aShadow.sinks \ {s} : players[x] = aShadow.sinks[x]
      BY DEF applier!Put
  <1>2. aShadow'.sinks = players /\ Still' = now
      BY DEF Still, Standing
  <1>3. now[s] \subseteq DOMAIN aShadow.paths
        /\ \A x \in DOMAIN aShadow.sinks \ {s} : now[x] = Still[x]
    <2>1. /\ DOMAIN Still = DOMAIN aShadow.sinks
          /\ \A q : q \in now[s] <=> q \in player.links /\ <<q, s>> \notin aLost'
          /\ \A x \in DOMAIN Still \ {s} : now[x] = Still[x]
        BY StandingPut
    <2> HIDE DEF now
    <2> QED
        BY <2>1
  <1> HIDE DEF players, now
  <1>4. player.links \subseteq DOMAIN aGoal.paths
      BY DEF ApplierInv, GoalMade
  <1>5. SinksMade'
      BY <1>1, <1>2 DEF ApplierInv, SinksMade
  <1>6. LinksDue'
    <2>1. SUFFICES ASSUME NEW x \in DOMAIN players
                   PROVE  /\ now[x] \cap DOMAIN aGoal.paths \subseteq DOMAIN aShadow.paths
                          /\ \/ x \in aTodo'["remove sinks"] \cup aTodo'["update sinks"]
                             \/ players[x].links \subseteq DOMAIN aGoal.paths
        BY <1>2 DEF LinksDue
    <2>2. CASE x = s
        BY <2>2, <1>1, <1>3, <1>4
    <2>3. CASE x # s
        BY <2>3, <1>1, <1>3 DEF ApplierInv, LinksDue
    <2> QED
        BY <2>2, <2>3
  <1> QED
      BY <1>5, <1>6

LEMMA SinkWithout ==
  ASSUME ApplierInv, NEW s,
         aShadow'.sinks = applier!Without(aShadow.sinks, {s}),
         aShadow'.paths = aShadow.paths, aGoal' = aGoal,
         aSinks' = applier!Without(aSinks, {s}),
         \A l : l[2] # s => (l \in aLost' <=> l \in aLost),
         aTodo["remove sinks"] \ {s} \subseteq aTodo'["remove sinks"],
         aTodo["update sinks"] \ {s} \subseteq aTodo'["update sinks"]
  PROVE  SinksMade' /\ LinksDue'
  <1> DEFINE players == applier!Without(aShadow.sinks, {s})
             configs == applier!Without(aSinks, {s})
             now == Standing(players, aLost')
  <1>1. DOMAIN players = DOMAIN aShadow.sinks \ {s}
        /\ \A x \in DOMAIN players : players[x] = aShadow.sinks[x]
      BY DEF applier!Without, applier!Restrict
  <1>2. DOMAIN configs = DOMAIN aSinks \ {s} /\ \A x \in DOMAIN configs : configs[x] = aSinks[x]
      BY DEF applier!Without, applier!Restrict
  <1>3. aShadow'.sinks = players /\ aSinks' = configs /\ Still' = now
      BY DEF Still, Standing
  <1>4. \A x \in DOMAIN players : now[x] = Still[x]
      BY <1>1, StandingWithout DEF Standing
  <1> HIDE DEF players, configs, now
  <1>5. SinksMade'
      BY <1>1, <1>2, <1>3 DEF ApplierInv, SinksMade
  <1>6. LinksDue'
      BY <1>1, <1>3, <1>4 DEF ApplierInv, LinksDue
  <1> QED
      BY <1>5, <1>6

LEMMA RemoveSinkKeeps ==
  ASSUME ApplierInv, NEW s, applier!RemoveSink(s)
  PROVE  ApplierInv'
  <1>1. /\ aLock # "free" /\ aLock' = aLock
        /\ aTodo' = [y \in applier!Steps |-> aTodo'[y]]
        /\ aTodo'["remove sinks"] = aTodo["remove sinks"] \ {s}
        /\ \A y \in applier!Steps \ {"remove sinks"} : aTodo'[y] = aTodo[y]
        /\ aLive' = aLive /\ aCached' = aCached /\ aSnapshot' = aSnapshot /\ aGoal' = aGoal
        /\ GoalMade'
      BY StepKeeps DEF applier!RemoveSink, applier!Steps
  <1>2. /\ aSinks' = applier!Without(aSinks, {s}) /\ aLinks' = {l \in aLinks : l[2] # s}
        /\ aShadow' = [sinks |-> applier!Without(aShadow.sinks, {s}), paths |-> aShadow.paths]
        /\ aSources' = aSources /\ aCaptures' = aCaptures /\ aMade' = aMade
        /\ aRefused' = aRefused /\ aLeaked' = aLeaked /\ aLost' = {l \in aLost : l[2] # s}
      BY DEF applier!RemoveSink, ApplierInv, ApplierTypes
  <1>3. Joined(aShadow.paths, Standing(applier!Without(aShadow.sinks, {s}), aLost'), aLinks')
    <2> DEFINE S == Standing(applier!Without(aShadow.sinks, {s}), aLost')
    <2>1. DOMAIN S = DOMAIN Still \ {s} /\ \A x \in DOMAIN S : S[x] = Still[x]
        BY <1>2, StandingWithout
    <2> HIDE DEF S
    <2>2. \A l : l \in aLinks' <=> l \in aLinks /\ l[2] # s
        BY <1>2
    <2>3. Joined(aShadow.paths, S, aLinks')
        BY <2>1, <2>2 DEF ApplierInv, LinksMade, Joined
    <2> QED
        BY <2>3 DEF S
  <1>4. /\ ApplierTypes' /\ PathsMade' /\ CapturesCounted' /\ LinksMade'
        /\ aShadow'.sinks = applier!Without(aShadow.sinks, {s}) /\ aShadow'.paths = aShadow.paths
      BY <1>1, <1>2, <1>3, SinkStep
  <1>5. SinksMade' /\ LinksDue'
      BY <1>1, <1>2, <1>4, SinkWithout DEF applier!Steps
  <1>6. DOMAIN aShadow'.sinks = DOMAIN aShadow.sinks \ {s}
      BY <1>4 DEF applier!Without, applier!Restrict
  <1>7. s \notin DOMAIN aGoal.sinks
      BY DEF applier!RemoveSink, ApplierInv, TodoMade
  <1>8. TodoMade'
      BY <1>1, <1>4, <1>6, <1>7 DEF ApplierInv, TodoMade, applier!Steps
  <1> QED
      BY <1>1, <1>4, <1>5, <1>8 DEF ApplierInv

LEMMA AddSinkKeeps ==
  ASSUME ApplierInv, NEW s, applier!AddSink(s)
  PROVE  ApplierInv'
  <1>1. /\ aLock # "free" /\ aLock' = aLock
        /\ aTodo' = [y \in applier!Steps |-> aTodo'[y]]
        /\ aTodo'["add sinks"] = aTodo["add sinks"] \ {s}
        /\ \A y \in applier!Steps \ {"add sinks"} : aTodo'[y] = aTodo[y]
        /\ aLive' = aLive /\ aCached' = aCached /\ aSnapshot' = aSnapshot /\ aGoal' = aGoal
        /\ GoalMade'
      BY StepKeeps DEF applier!AddSink, applier!Steps
  <1>2. /\ aSources' = aSources /\ aCaptures' = aCaptures /\ aMade' = aMade
        /\ aRefused' = aRefused /\ aLeaked' = aLeaked
      BY DEF applier!AddSink
  <1>3. s \in DOMAIN aGoal.sinks /\ s \notin DOMAIN aShadow.sinks
      BY DEF applier!AddSink, ApplierInv, TodoMade
  <1>4. CASE aSinks' = applier!Put(aSinks, s, aGoal.sinks[s].config) /\ applier!Reconnect(s, {}, aLinks)
    <2> DEFINE none == {}
    <2>1. \A l : l \in aLinks <=> \/ l \in aLinks /\ l[2] # s
                                  \/ \E q \in none \cap DOMAIN aShadow.paths :
                                       l = <<aShadow.paths[q].id, s>>
      <3>1. s \notin DOMAIN Still
          BY <1>3 DEF Still, Standing
      <3>2. \A l \in aLinks : l[2] # s
          BY <3>1 DEF ApplierInv, LinksMade, Joined
      <3> QED
          BY <3>2
    <2>2. /\ \A q : q \in none <=> q \in none /\ <<q, s>> \notin aLost
          /\ none \cap DOMAIN aGoal.paths \subseteq DOMAIN aShadow.paths
          /\ applier!Reconnect(s, none, aLinks)
        BY <1>4
    <2> HIDE DEF none
    <2>3. PICK player :
            /\ player.config = aGoal.sinks[s].config
            /\ player.links \subseteq aGoal.sinks[s].links
            /\ {q \in player.links : <<q, s>> \notin aLost'} \subseteq DOMAIN aShadow.paths
            /\ \A l : l[2] # s => (l \in aLost' <=> l \in aLost)
            /\ aShadow' = [sinks |-> applier!Put(aShadow.sinks, s, player), paths |-> aShadow.paths]
            /\ Joined(aShadow.paths, Standing(applier!Put(aShadow.sinks, s, player), aLost'), aLinks')
        BY <1>3, <2>2, <2>1, ReconnectJoins DEF ApplierInv
    <2>4. /\ ApplierTypes' /\ PathsMade' /\ CapturesCounted' /\ LinksMade'
          /\ aShadow'.sinks = applier!Put(aShadow.sinks, s, player) /\ aShadow'.paths = aShadow.paths
        BY <1>1, <1>2, <2>3, SinkStep
    <2>5. /\ DOMAIN aSinks' = DOMAIN aSinks \cup {s} /\ aSinks'[s] = aGoal.sinks[s].config
          /\ \A x \in DOMAIN aSinks \ {s} : aSinks'[x] = aSinks[x]
        BY <1>4 DEF applier!Put
    <2>6. SinksMade' /\ LinksDue'
        BY <1>1, <1>3, <2>3, <2>4, <2>5, SinkPut DEF applier!Steps
    <2>7. DOMAIN aShadow'.sinks = DOMAIN aShadow.sinks \cup {s}
        BY <2>4 DEF applier!Put
    <2>8. TodoMade'
        BY <1>1, <1>3, <2>4, <2>7 DEF ApplierInv, TodoMade, applier!Steps
    <2> QED
        BY <1>1, <2>4, <2>6, <2>8 DEF ApplierInv
  <1>5. CASE aSinks' = aSinks /\ aLinks' = aLinks /\ aShadow' = aShadow /\ aLost' = aLost
    <2>1. TodoMade' /\ LinksDue' /\ ApplierTypes'
        BY <1>1, <1>2, <1>5 DEF ApplierInv, TodoMade, LinksDue, Still, ApplierTypes, applier!Steps
    <2>2. PathsMade' /\ SinksMade' /\ LinksMade' /\ CapturesCounted'
        BY <1>1, <1>2, <1>5, PartsAfter
           DEF ApplierInv, PathsMade, SinksMade, LinksMade, Still, CapturesCounted
    <2> QED
        BY <1>1, <2>1, <2>2 DEF ApplierInv
  <1> QED
      BY <1>4, <1>5 DEF applier!AddSink

LEMMA UpdateSinkKeeps ==
  ASSUME ApplierInv, NEW s, applier!UpdateSink(s)
  PROVE  ApplierInv'
  <1> DEFINE config == aGoal.sinks[s].config
             left == {l \in aLinks : l[2] # s}
             had == aShadow.sinks[s].links
  <1>1. /\ aLock # "free" /\ aLock' = aLock
        /\ aTodo' = [y \in applier!Steps |-> aTodo'[y]]
        /\ aTodo'["update sinks"] = aTodo["update sinks"] \ {s}
        /\ \A y \in applier!Steps \ {"update sinks"} : aTodo'[y] = aTodo[y]
        /\ aLive' = aLive /\ aCached' = aCached /\ aSnapshot' = aSnapshot /\ aGoal' = aGoal
        /\ GoalMade'
      BY StepKeeps DEF applier!UpdateSink, applier!Steps
  <1>2. /\ aSources' = aSources /\ aCaptures' = aCaptures /\ aMade' = aMade
        /\ aRefused' = aRefused /\ aLeaked' = aLeaked
      BY DEF applier!UpdateSink
  <1>3. s \in DOMAIN aGoal.sinks /\ s \in DOMAIN aShadow.sinks /\ s \in DOMAIN aSinks
      BY DEF applier!UpdateSink, ApplierInv, TodoMade, SinksMade
  <1>4. ASSUME NEW player,
               player.config = config, player.links \subseteq aGoal.sinks[s].links,
               {q \in player.links : <<q, s>> \notin aLost'} \subseteq DOMAIN aShadow.paths,
               \A l : l[2] # s => (l \in aLost' <=> l \in aLost),
               aShadow' = [sinks |-> applier!Put(aShadow.sinks, s, player), paths |-> aShadow.paths],
               Joined(aShadow.paths, Standing(applier!Put(aShadow.sinks, s, player), aLost'), aLinks'),
               DOMAIN aSinks' = DOMAIN aSinks, aSinks'[s] = config,
               \A x \in DOMAIN aSinks \ {s} : aSinks'[x] = aSinks[x]
        PROVE  ApplierInv'
    <2>1. /\ ApplierTypes' /\ PathsMade' /\ CapturesCounted' /\ LinksMade'
          /\ aShadow'.sinks = applier!Put(aShadow.sinks, s, player) /\ aShadow'.paths = aShadow.paths
        BY <1>1, <1>2, <1>4, SinkStep
    <2>2. SinksMade' /\ LinksDue'
      <3>1. DOMAIN aSinks' = DOMAIN aSinks \cup {s}
          BY <1>3, <1>4
      <3>2. aTodo'["remove sinks"] = aTodo["remove sinks"]
            /\ aTodo["update sinks"] \ {s} \subseteq aTodo'["update sinks"]
          BY <1>1 DEF applier!Steps
      <3> QED
          BY <3>1, <3>2, <1>1, <1>3, <1>4, <2>1, SinkPut
    <2>3. DOMAIN aShadow'.sinks = DOMAIN aShadow.sinks
        BY <1>3, <2>1 DEF applier!Put
    <2>4. TodoMade'
        BY <1>1, <2>1, <2>3 DEF ApplierInv, TodoMade, applier!Steps
    <2> QED
        BY <1>1, <2>1, <2>2, <2>4 DEF ApplierInv
  <1>5. CASE /\ aShadow.sinks[s].config = config
             /\ applier!Reconnect(s, had, aLinks) /\ aSinks' = aSinks
    <2>1. \A l : l \in aLinks <=> \/ l \in aLinks /\ l[2] # s
                                  \/ \E q \in Still[s] \cap DOMAIN aShadow.paths :
                                       l = <<aShadow.paths[q].id, s>>
      <3>1. s \in DOMAIN Still
          BY <1>3 DEF Still, Standing
      <3> QED
          BY <3>1 DEF ApplierInv, LinksMade, Joined
    <2>2. \A q : q \in Still[s] <=> q \in had /\ <<q, s>> \notin aLost
        BY <1>3 DEF Still, Standing
    <2>3. Still[s] \cap DOMAIN aGoal.paths \subseteq DOMAIN aShadow.paths
        BY <1>3 DEF ApplierInv, LinksDue
    <2>4. PICK player :
            /\ player.config = config
            /\ player.links \subseteq aGoal.sinks[s].links
            /\ {q \in player.links : <<q, s>> \notin aLost'} \subseteq DOMAIN aShadow.paths
            /\ \A l : l[2] # s => (l \in aLost' <=> l \in aLost)
            /\ aShadow' = [sinks |-> applier!Put(aShadow.sinks, s, player), paths |-> aShadow.paths]
            /\ Joined(aShadow.paths, Standing(applier!Put(aShadow.sinks, s, player), aLost'), aLinks')
        BY <1>3, <1>5, <2>1, <2>3, <2>2, ReconnectJoins DEF ApplierInv
    <2>5. aSinks[s] = config
        BY <1>3, <1>5 DEF ApplierInv, SinksMade
    <2> QED
        BY <1>4, <1>5, <2>4, <2>5
  <1>6. CASE /\ applier!Reconnect(s, {}, left)
             /\ aSinks' = [aSinks EXCEPT ![s] = config]
    <2> DEFINE none == {}
    <2>1. \A l : l \in left <=> \/ l \in aLinks /\ l[2] # s
                                \/ \E q \in none \cap DOMAIN aShadow.paths :
                                     l = <<aShadow.paths[q].id, s>>
        OBVIOUS
    <2>2. /\ \A q : q \in none <=> q \in none /\ <<q, s>> \notin aLost
          /\ none \cap DOMAIN aGoal.paths \subseteq DOMAIN aShadow.paths
          /\ applier!Reconnect(s, none, left)
        BY <1>6
    <2> HIDE DEF none, left
    <2>3. PICK player :
            /\ player.config = config
            /\ player.links \subseteq aGoal.sinks[s].links
            /\ {q \in player.links : <<q, s>> \notin aLost'} \subseteq DOMAIN aShadow.paths
            /\ \A l : l[2] # s => (l \in aLost' <=> l \in aLost)
            /\ aShadow' = [sinks |-> applier!Put(aShadow.sinks, s, player), paths |-> aShadow.paths]
            /\ Joined(aShadow.paths, Standing(applier!Put(aShadow.sinks, s, player), aLost'), aLinks')
        BY <1>3, <2>2, <2>1, ReconnectJoins DEF ApplierInv
    <2> QED
        BY <1>3, <1>4, <1>6, <2>3
  <1>7. CASE /\ aLinks' = left /\ aSinks' = applier!Without(aSinks, {s})
             /\ aShadow' = [aShadow EXCEPT !.sinks = applier!Without(@, {s})]
             /\ aLost' = {l \in aLost : l[2] # s}
    <2>1. aShadow' = [sinks |-> applier!Without(aShadow.sinks, {s}), paths |-> aShadow.paths]
        BY <1>7 DEF ApplierInv, ApplierTypes
    <2>2. Joined(aShadow.paths, Standing(applier!Without(aShadow.sinks, {s}), aLost'), aLinks')
      <3> DEFINE S == Standing(applier!Without(aShadow.sinks, {s}), aLost')
      <3>1. DOMAIN S = DOMAIN Still \ {s} /\ \A x \in DOMAIN S : S[x] = Still[x]
          BY <1>7, StandingWithout
      <3> HIDE DEF S
      <3>2. \A l : l \in aLinks' <=> l \in aLinks /\ l[2] # s
          BY <1>7
      <3>3. Joined(aShadow.paths, S, aLinks')
          BY <3>1, <3>2 DEF ApplierInv, LinksMade, Joined
      <3> QED
          BY <3>3 DEF S
    <2>3. /\ ApplierTypes' /\ PathsMade' /\ CapturesCounted' /\ LinksMade'
          /\ aShadow'.sinks = applier!Without(aShadow.sinks, {s}) /\ aShadow'.paths = aShadow.paths
        BY <1>1, <1>2, <2>1, <2>2, SinkStep
    <2>4. SinksMade' /\ LinksDue'
        BY <1>1, <1>7, <2>3, SinkWithout DEF applier!Steps
    <2>5. DOMAIN aShadow'.sinks = DOMAIN aShadow.sinks \ {s}
        BY <2>3 DEF applier!Without, applier!Restrict
    <2>6. TodoMade'
        BY <1>1, <1>3, <2>3, <2>5 DEF ApplierInv, TodoMade, applier!Steps
    <2> QED
        BY <1>1, <2>3, <2>4, <2>6 DEF ApplierInv
  <1> QED
      BY <1>5, <1>6, <1>7 DEF applier!UpdateSink

(* build_effective_state: paths and links come from the state that is asked  *)
(* for.                                                                      *)
LEMMA EffectiveAsks ==
  ASSUME NEW D \in States, aGoal' = applier!Effective(D)
  PROVE  GoalMade'
  <1> DEFINE clone(p) == applier!Clones(D, p)
             all == {<<p>> : p \in DOMAIN D.paths} \cup UNION {clone(p) : p \in DOMAIN D.paths}
             path(q) == [D.paths[q[1]] EXCEPT !.tag = IF q = <<q[1]>> THEN @ ELSE q[2]]
             feeds(s) == UNION {IF clone(p) = {} THEN {<<p>>} ELSE clone(p) : p \in D.sinks[s].links}
  <1>1. /\ aGoal'.paths = [q \in all |-> applier!Put(path(q), "filter", D.paths[q[1]].tag)]
        /\ aGoal'.sinks = [s \in DOMAIN D.sinks |-> [D.sinks[s] EXCEPT !.links = feeds(s)]]
      BY DEF applier!Effective
  <1>2. \A p : \A q \in clone(p) : q[1] = p
      BY DEF applier!Clones
  <1>3. \A q \in all : q[1] \in DOMAIN D.paths
      BY <1>2
  <1>4. ASSUME NEW q \in all
        PROVE  Asked(aGoal'.paths[q])
    <2> DEFINE r == applier!Put(path(q), "filter", D.paths[q[1]].tag)
    <2>1. DOMAIN path(q) = Keys
        BY <1>3, StateConstants DEF Keys
    <2> HIDE DEF path
    <2>2. DOMAIN r = Keys \cup {"filter"}
        BY <2>1 DEF applier!Put
    <2>3. aGoal'.paths[q] = r
        BY <1>1
    <2> HIDE DEF r
    <2> QED
        BY <2>2, <2>3 DEF Asked, Keys
  <1>5. ASSUME NEW s \in DOMAIN D.sinks
        PROVE  aGoal'.sinks[s].links \subseteq all
    <2>1. DOMAIN D.sinks[s] = {"config", "links"} /\ D.sinks[s].links \subseteq DOMAIN D.paths
        BY StateConstants
    <2>2. aGoal'.sinks[s].links = feeds(s)
        BY <1>1, <2>1
    <2> QED
        BY <2>1, <2>2
  <1>6. DOMAIN aGoal'.paths = all /\ DOMAIN aGoal'.sinks = DOMAIN D.sinks
      BY <1>1
  <1> HIDE DEF all
  <1> QED
      BY <1>4, <1>5, <1>6 DEF GoalMade, Asked

(* Between two applies nothing is left to do, and every link of a sink that *)
(* is not lost is of a path that is there.                                   *)
LEMMA NothingLeft ==
  ASSUME ApplierInv, aLock = "free"
  PROVE  \A s \in DOMAIN aShadow.sinks : Still[s] \subseteq DOMAIN aShadow.paths
  <1>1. aTodo["remove sinks"] = {} /\ aTodo["update sinks"] = {}
      BY DEF ApplierInv, TodoMade, applier!Nothing, applier!Steps
  <1> QED
      BY <1>1 DEF ApplierInv, LinksDue, Still, Standing

LEMMA BeginKeeps ==
  ASSUME ApplierInv, NEW D \in States, NEW who, who # "free", applier!Begin(D, who),
         aSnapshot' \subseteq States
  PROVE  ApplierInv'
  <1>1. /\ aLock = "free" /\ aLock' # "free" /\ aCached' \subseteq States
        /\ aGoal' = applier!Effective(D) /\ aTodo' = applier!Reconciled(aGoal')
        /\ aShadow' = aShadow /\ aSources' = aSources /\ aSinks' = aSinks /\ aLinks' = aLinks
        /\ aCaptures' = aCaptures /\ aMade' = aMade
        /\ aLost' = aLost /\ aRefused' = aRefused /\ aLeaked' = aLeaked
      BY DEF applier!Begin, applier!engine, applier!history
  <1>2. GoalMade'
      BY <1>1, EffectiveAsks DEF ApplierInv, ApplierTypes
  <1>3. /\ aTodo' = [y \in applier!Steps |-> aTodo'[y]]
        /\ aTodo'["remove paths"] = DOMAIN aShadow.paths \ DOMAIN aGoal'.paths
        /\ aTodo'["remove sinks"] = DOMAIN aShadow.sinks \ DOMAIN aGoal'.sinks
        /\ aTodo'["add paths"] = DOMAIN aGoal'.paths \ DOMAIN aShadow.paths
        /\ aTodo'["add sinks"] = DOMAIN aGoal'.sinks \ DOMAIN aShadow.sinks
        /\ aTodo'["update paths"] \subseteq DOMAIN aGoal'.paths \cap DOMAIN aShadow.paths
        /\ aTodo'["update sinks"] = {x \in DOMAIN aGoal'.sinks \cap DOMAIN aShadow.sinks :
                                       applier!SinkChanged(aGoal', x)}
      BY <1>1 DEF applier!Reconciled, applier!Steps
  <1>4. TodoMade'
      BY <1>1, <1>3 DEF TodoMade
  <1>5. LinksDue'
    <2>1. SUFFICES ASSUME NEW s \in DOMAIN aShadow.sinks
                   PROVE  /\ Still[s] \cap DOMAIN aGoal'.paths \subseteq DOMAIN aShadow.paths
                          /\ \/ s \in aTodo'["remove sinks"] \cup aTodo'["update sinks"]
                             \/ aShadow.sinks[s].links \subseteq DOMAIN aGoal'.paths
        BY <1>1 DEF LinksDue, Still
    <2>2. Still[s] \subseteq DOMAIN aShadow.paths
        BY <1>1, NothingLeft
    <2>3. ASSUME s \notin aTodo'["remove sinks"] \cup aTodo'["update sinks"]
          PROVE  aShadow.sinks[s].links \subseteq DOMAIN aGoal'.paths
      <3>1. s \in DOMAIN aGoal'.sinks /\ aShadow.sinks[s].links = aGoal'.sinks[s].links
          BY <2>3, <1>3 DEF applier!SinkChanged
      <3> QED
          BY <3>1, <1>2 DEF GoalMade
    <2> QED
        BY <2>2, <2>3
  <1>6. ApplierTypes'
      BY <1>1, <1>3 DEF ApplierInv, ApplierTypes
  <1>7. PathsMade' /\ SinksMade' /\ LinksMade' /\ CapturesCounted'
      BY <1>1, PartsAfter DEF ApplierInv, PathsMade, SinksMade, LinksMade, Still, CapturesCounted
  <1> QED
      BY <1>2, <1>4, <1>5, <1>6, <1>7 DEF ApplierInv

(* What touches neither the shadow nor the engine.                           *)
LEMMA OthersKeep ==
  ASSUME ApplierInv,
         UNCHANGED <<aGoal, aTodo, aShadow, aSources, aSinks, aLinks, aCaptures, aMade,
                     aLost, aRefused, aLeaked>>,
         aCached' = aCached, aSnapshot' \subseteq States,
         aLock' = aLock \/ aTodo = applier!Nothing
  PROVE  ApplierInv'
  <1>1. ApplierTypes' /\ TodoMade' /\ LinksDue'
      BY DEF ApplierInv, ApplierTypes, TodoMade, LinksDue, Still, applier!Nothing, applier!Steps
  <1>2. GoalMade' /\ PathsMade' /\ SinksMade' /\ LinksMade' /\ CapturesCounted'
      BY PartsAfter
         DEF ApplierInv, GoalMade, Asked, PathsMade, SinksMade, LinksMade, Still, CapturesCounted
  <1> QED
      BY <1>1, <1>2 DEF ApplierInv

LEMMA ApplierStep ==
  ASSUME ApplierInv, applier!Next
  PROVE  ApplierInv'
  <1>1. ASSUME NEW D \in States, applier!ApplyState(D) PROVE ApplierInv'
    <2>1. aSnapshot' \subseteq States
        BY <1>1 DEF applier!ApplyState, ApplierInv, ApplierTypes
    <2> QED
        BY <1>1, <2>1, BeginKeeps DEF applier!ApplyState
  <1>2. ASSUME applier!Reapply PROVE ApplierInv'
    <2>1. PICK D \in aSnapshot : applier!Begin(D, "notifier")
        BY <1>2 DEF applier!Reapply
    <2>2. D \in States /\ aSnapshot' \subseteq States
        BY <1>2 DEF applier!Reapply, ApplierInv, ApplierTypes
    <2> QED
        BY <2>1, <2>2, BeginKeeps
  <1>3. ASSUME applier!Finish PROVE ApplierInv'
      BY <1>3, OthersKeep
         DEF applier!Finish, applier!engine, applier!history, applier!streamVars, ApplierInv, ApplierTypes
  <1>4. ASSUME NEW t \in Streams, applier!StreamChanges(t) PROVE ApplierInv'
      BY <1>4, OthersKeep
         DEF applier!StreamChanges, applier!engine, applier!history, applier!callVars, ApplierInv, ApplierTypes
  <1>5. ASSUME applier!HandleStreamTag PROVE ApplierInv'
      BY <1>5, OthersKeep DEF applier!HandleStreamTag, applier!engine, applier!history, ApplierInv, ApplierTypes
  <1>6. ASSUME applier!CopyCached PROVE ApplierInv'
      BY <1>6, OthersKeep
         DEF applier!CopyCached, applier!engine, applier!history, applier!streamVars, ApplierInv, ApplierTypes
  <1>7. ASSUME applier!Working PROVE ApplierInv'
      BY <1>7, <1>3, RemovePathKeeps, RemoveSinkKeeps, AddPathKeeps, AddSinkKeeps, RecreatePathKeeps,
         UpdatePathKeeps, UpdateSinkKeeps
         DEF applier!Working
  <1> QED
      BY <1>1, <1>2, <1>4, <1>5, <1>6, <1>7 DEF applier!Next

LEMMA ApplierInvariance == AllSpec => []ApplierInv
  <1>1. AllInit => ApplierInv
    <2>1. ASSUME AllInit PROVE ApplierInv
      <3>1. /\ aSnapshot = {} /\ aLock = "free" /\ aCached = {}
            /\ DOMAIN aGoal.paths = {} /\ DOMAIN aGoal.sinks = {}
            /\ aTodo = applier!Nothing
            /\ aShadow = [sinks |-> aShadow.sinks, paths |-> aShadow.paths]
            /\ DOMAIN aShadow.paths = {} /\ DOMAIN aShadow.sinks = {}
            /\ DOMAIN aSources = {} /\ DOMAIN aSinks = {} /\ aLinks = {}
            /\ aCaptures = [t \in Captures |-> 0] /\ aRefused = [t \in Captures |-> 0]
            /\ aLeaked = [t \in Captures |-> 0] /\ aMade = 0
          BY <2>1 DEF AllInit, applier!Init, applier!Empty
      <3>2. ApplierTypes
          BY <3>1 DEF ApplierTypes, Counts, applier!Nothing
      <3>3. GoalMade /\ SinksMade /\ LinksMade /\ LinksDue
          BY <3>1 DEF GoalMade, SinksMade, LinksMade, Joined, Still, Standing, LinksDue
      <3>4. TodoMade
          BY <3>1 DEF TodoMade, applier!Nothing, applier!Steps
      <3>5. PathsMade
          BY <3>1, FS_EmptySet DEF PathsMade, Fits
      <3>6. CapturesCounted
        <4>1. \A c : Number(aShadow.paths, c) = 0
          <5>1. \A c : {q \in DOMAIN aShadow.paths : aShadow.paths[q].tag = c} = {}
              BY <3>1
          <5> QED
              BY <5>1, FS_EmptySet DEF Number
        <4> QED
            BY <3>1, <4>1 DEF CapturesCounted, Counted
      <3> QED
          BY <3>2, <3>3, <3>4, <3>5, <3>6 DEF ApplierInv
    <2> QED
        BY <2>1
  <1>2. ApplierInv /\ [AllNext]_allVars => ApplierInv'
    <2>1. SUFFICES ASSUME ApplierInv, [AllNext]_allVars PROVE ApplierInv'
        OBVIOUS
    <2>2. CASE UNCHANGED applierVars
      <3>1. /\ UNCHANGED <<aGoal, aTodo, aShadow, aSources, aSinks, aLinks, aCaptures, aMade,
                           aLost, aRefused, aLeaked>>
            /\ aCached' = aCached /\ aSnapshot' = aSnapshot /\ aLock' = aLock
          BY <2>2 DEF applierVars
      <3> QED
          BY <2>1, <3>1, OthersKeep DEF ApplierInv, ApplierTypes
    <2> QED
        BY <2>1, <2>2, ApplierStep DEF AllNext, allVars
  <1> QED
      BY <1>1, <1>2, PTL DEF AllSpec

(* Between two applies of a state the applier's shadow is the engine, for    *)
(* any states and whichever additions failed: every path has an instance of  *)
(* its own with its parameters, every sink its configuration and just the    *)
(* connections of its links, but for those to a path that was made anew, and *)
(* each capture device as many references as there are paths of it, but for  *)
(* paths that were refused one and references that are not given back.       *)
THEOREM ShadowTrue == AllSpec => []ShadowIsEngine
  <1>1. ApplierInv => ShadowIsEngine
    <2>1. SUFFICES ASSUME ApplierInv, aLock = "free"
                   PROVE  ShadowIsEngine
        BY DEF ShadowIsEngine, applier!ShadowIsEngine, applier!Idle
    <2>2. {aShadow.paths[q].id : q \in DOMAIN aShadow.paths} = DOMAIN aSources
      <3>1. /\ \A q \in DOMAIN aShadow.paths : aShadow.paths[q].id \in DOMAIN aSources
            /\ \A i \in DOMAIN aSources : \E q \in DOMAIN aShadow.paths : i = aShadow.paths[q].id
          BY <2>1 DEF ApplierInv, PathsMade, Fits
      <3> QED
          BY <3>1
    <2>3. \A q \in DOMAIN aShadow.paths : \A k \in {"tag", "format", "volume"} :
            aSources[aShadow.paths[q].id][k] = aShadow.paths[q][k]
        BY <2>1 DEF ApplierInv, PathsMade, Fits, Keys
    <2>4. DOMAIN aShadow.sinks = DOMAIN aSinks /\ \A s \in DOMAIN aSinks : aSinks[s] = aShadow.sinks[s].config
        BY <2>1 DEF ApplierInv, SinksMade
    <2>5. aLinks = UNION {{<<aShadow.paths[q].id, s>> :
                             q \in {p \in aShadow.sinks[s].links : <<p, s>> \notin aLost}} : s \in DOMAIN aSinks}
      <3> DEFINE stands(s) == {p \in aShadow.sinks[s].links : <<p, s>> \notin aLost}
      <3>1. DOMAIN Still = DOMAIN aSinks /\ \A s \in DOMAIN aSinks : Still[s] = stands(s)
          BY <2>4 DEF Still, Standing
      <3> HIDE DEF stands
      <3>2. \A s \in DOMAIN aSinks : stands(s) \subseteq DOMAIN aShadow.paths
          BY <2>1, <2>4, <3>1, NothingLeft
      <3>3. \A l \in aLinks : \E s \in DOMAIN aSinks : \E q \in stands(s) : l = <<aShadow.paths[q].id, s>>
          BY <2>1, <3>1 DEF ApplierInv, LinksMade, Joined
      <3>4. \A s \in DOMAIN aSinks : \A q \in stands(s) : <<aShadow.paths[q].id, s>> \in aLinks
          BY <2>1, <3>1, <3>2 DEF ApplierInv, LinksMade, Joined
      <3>5. aLinks = UNION {{<<aShadow.paths[q].id, s>> : q \in stands(s)} : s \in DOMAIN aSinks}
          BY <3>3, <3>4
      <3> QED
          BY <3>5 DEF stands
    <2>6. \A c \in Captures :
            /\ Number(aShadow.paths, c) <= aCaptures[c] + aRefused[c]
            /\ aCaptures[c] <= Number(aShadow.paths, c) + aLeaked[c]
        BY <2>1 DEF ApplierInv, CapturesCounted, Counted
    <2>7. \A c \in Captures : applier!Paths(c) = Number(aShadow.paths, c)
      <3>1. \A S : applier!Cardinality(S) = Cardinality(S)
          BY Zenon DEF applier!Cardinality, Cardinality
      <3> QED
          BY <3>1, Zenon DEF applier!Paths, Number
    <2> QED
        BY <2>2, <2>3, <2>4, <2>5, <2>6, <2>7 DEF ShadowIsEngine, applier!ShadowIsEngine
  <1> QED
      BY <1>1, ApplierInvariance, PTL
=============================================================================
