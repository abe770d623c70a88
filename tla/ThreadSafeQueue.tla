--------------------------- MODULE ThreadSafeQueue ---------------------------
(* utils/thread_safe_queue.h: the queue between the receivers and the        *)
(* notification thread (pop blocks on the condition variable) and between    *)
(* the receivers and the timeshift thread (try_pop never blocks).  A method  *)
(* is one critical section of mutex_; the notification of the condition      *)
(* variable comes after it, when other threads may have run.                 *)
EXTENDS Integers, Sequences, FiniteSets

CONSTANTS Producer,    \* threads that push
          Consumer,    \* threads that call pop in a loop
          Poller,      \* threads that call try_pop
          Limit,       \* max_size of push_bounded; 0 disables the bound
          DropOldest,  \* drop_oldest of push_bounded
          MaxPush      \* bound: items accepted

ASSUME ThreadAssumption == IsFiniteSet(Producer) /\ IsFiniteSet(Consumer)
ASSUME LimitAssumption  == Limit \in Nat /\ DropOldest \in BOOLEAN /\ MaxPush \in Nat

VARIABLES queue_, stop_requested_,
          notifying,   \* producers between unlock and notify_one
          stopping,    \* is stop() between unlock and notify_all?
          waiting,     \* consumers blocked in cond_.wait
          woken,       \* consumers whose wait returns and tests its condition
          gone,        \* consumers whose pop returned false
          accepted,    \* history: items pushed, numbered 1 .. accepted
          discarded,   \* history: items dropped to make room
          taken        \* history: items popped, in order

vars == <<queue_, stop_requested_, notifying, stopping, waiting, woken, gone,
          accepted, discarded, taken>>

Init == /\ queue_ = <<>> /\ stop_requested_ = FALSE
        /\ notifying = {} /\ stopping = FALSE
        /\ waiting = {} /\ woken = {} /\ gone = {}
        /\ accepted = 0 /\ discarded = {} /\ taken = <<>>

-----------------------------------------------------------------------------
(* push and push_bounded.  A call that finds the queue stopped, or full with *)
(* drop_oldest unset, changes nothing.                                       *)
FullOffByOne == Limit > 0 /\ Len(queue_) > Limit                 \* mutant
Full == Limit > 0 /\ Len(queue_) >= Limit

NotifyIfEmpty(p) ==                                              \* mutant
  notifying' = IF queue_ = <<>> THEN notifying \cup {p} ELSE notifying
WillNotify(p) == notifying' = notifying \cup {p}

Accept(p) == /\ p \notin notifying
             /\ ~stop_requested_
             /\ accepted < MaxPush
             /\ accepted' = accepted + 1
             /\ WillNotify(p)
             /\ UNCHANGED <<stop_requested_, stopping, waiting, woken, gone, taken>>

Push(p) == /\ ~Full
           /\ Accept(p)
           /\ queue_' = Append(queue_, accepted + 1)
           /\ UNCHANGED discarded

PushUncounted(p) == /\ Full /\ DropOldest                        \* mutant
                    /\ Accept(p)
                    /\ queue_' = Append(Tail(queue_), accepted + 1)
                    /\ UNCHANGED discarded
PushDropOldest(p) == /\ Full /\ DropOldest
                     /\ Accept(p)
                     /\ queue_' = Append(Tail(queue_), accepted + 1)
                     /\ discarded' = discarded \cup {Head(queue_)}

NotifyStaysWaiting(p) ==                                         \* mutant
  /\ p \in notifying
  /\ notifying' = notifying \ {p}
  /\ \/ waiting = {} /\ UNCHANGED <<waiting, woken>>
     \/ \E c \in waiting : waiting' = waiting /\ woken' = woken \cup {c}
  /\ UNCHANGED <<queue_, stop_requested_, stopping, gone, accepted, discarded, taken>>
Notify(p) == /\ p \in notifying
             /\ notifying' = notifying \ {p}
             /\ \/ waiting = {} /\ UNCHANGED <<waiting, woken>>
                \/ \E c \in waiting : waiting' = waiting \ {c} /\ woken' = woken \cup {c}
             /\ UNCHANGED <<queue_, stop_requested_, stopping, gone, accepted, discarded, taken>>

Stop == /\ ~stop_requested_
        /\ stop_requested_' = TRUE /\ stopping' = TRUE
        /\ UNCHANGED <<queue_, notifying, waiting, woken, gone, accepted, discarded, taken>>

StopNotifyOne ==                                                 \* mutant
  /\ stopping /\ stopping' = FALSE
  /\ \/ waiting = {} /\ UNCHANGED <<waiting, woken>>
     \/ \E c \in waiting : waiting' = waiting \ {c} /\ woken' = woken \cup {c}
  /\ UNCHANGED <<queue_, stop_requested_, notifying, gone, accepted, discarded, taken>>
NotifyAll == /\ stopping /\ stopping' = FALSE
             /\ waiting' = {} /\ woken' = woken \cup waiting
             /\ UNCHANGED <<queue_, stop_requested_, notifying, gone, accepted, discarded, taken>>

-----------------------------------------------------------------------------
(* pop: a consumer that enters, or whose wait returned, holds the mutex.     *)
Running(c) == c \notin waiting \cup gone

TakeOldest == /\ queue_ # <<>>
              /\ taken' = Append(taken, Head(queue_))
              /\ queue_' = Tail(queue_)

Pop(c) == /\ Running(c)
          /\ TakeOldest
          /\ woken' = woken \ {c}
          /\ UNCHANGED <<stop_requested_, notifying, stopping, waiting, gone, accepted, discarded>>

Wait(c) == /\ Running(c)
           /\ queue_ = <<>> /\ ~stop_requested_
           /\ waiting' = waiting \cup {c} /\ woken' = woken \ {c}
           /\ UNCHANGED <<queue_, stop_requested_, notifying, stopping, gone, accepted, discarded, taken>>

PopFalse(c) == /\ Running(c)
               /\ queue_ = <<>> /\ stop_requested_
               /\ gone' = gone \cup {c} /\ woken' = woken \ {c}
               /\ UNCHANGED <<queue_, stop_requested_, notifying, stopping, waiting, accepted, discarded, taken>>

(* A condition variable may wake a waiter for no reason.                     *)
Spurious(c) == /\ c \in waiting
               /\ waiting' = waiting \ {c} /\ woken' = woken \cup {c}
               /\ UNCHANGED <<queue_, stop_requested_, notifying, stopping, gone, accepted, discarded, taken>>

TryPop(p) == /\ p \in Poller
             /\ TakeOldest
             /\ UNCHANGED <<stop_requested_, notifying, stopping, waiting, woken, gone, accepted, discarded>>

Produce(p) == Push(p) \/ PushDropOldest(p)
Consume(c) == Pop(c) \/ Wait(c) \/ PopFalse(c)

Next == \/ \E p \in Producer : Produce(p) \/ Notify(p)
        \/ \E c \in Consumer : Consume(c) \/ Spurious(c)
        \/ \E p \in Poller : TryPop(p)
        \/ Stop \/ NotifyAll

Spec == Init /\ [][Next]_vars

(* A thread that is not blocked goes on: it sends its notification, and a    *)
(* consumer that is running calls pop again.                                 *)
FairSpec == /\ Spec
            /\ \A p \in Producer : WF_vars(Notify(p))
            /\ \A c \in Consumer : WF_vars(Consume(c))
            /\ WF_vars(NotifyAll)

-----------------------------------------------------------------------------
ElementsOf(s) == {s[i] : i \in DOMAIN s}

TypeOK == /\ queue_ \in Seq(Nat) /\ taken \in Seq(Nat)
          /\ stop_requested_ \in BOOLEAN /\ stopping \in BOOLEAN
          /\ notifying \subseteq Producer
          /\ waiting \subseteq Consumer /\ woken \subseteq Consumer /\ gone \subseteq Consumer
          /\ waiting \cap woken = {} /\ gone \cap (waiting \cup woken) = {}
          /\ accepted \in Nat /\ discarded \subseteq Nat

(* No lost wakeup: while a consumer sleeps, every item in the queue has a    *)
(* thread that will come for it or a notification still to be sent, though   *)
(* producers notify after they released the mutex.                           *)
NoSleepOnWork == waiting # {} => Len(queue_) <= Cardinality(woken) + Cardinality(notifying)

(* Once stop() has returned no consumer sleeps, now or later.                *)
StopHeard == stop_requested_ /\ ~stopping => waiting = {}

(* Every item accepted is waiting, was taken or was dropped, once; and items *)
(* are taken in the order they were accepted.                                *)
Conserved ==
  /\ ElementsOf(taken) \cup ElementsOf(queue_) \cup discarded = 1 .. accepted
  /\ \A i, j \in DOMAIN (taken \o queue_) : i < j => (taken \o queue_)[i] < (taken \o queue_)[j]

(* The bound of push_bounded holds with any number of producers.             *)
Bounded == Limit > 0 => Len(queue_) <= Limit

(* stop() loses nothing that was accepted: "pop() will return false once the *)
(* queue becomes empty", and every consumer is released.                     *)
Released == stop_requested_ ~> (gone = Consumer /\ queue_ = <<>>)
=============================================================================
