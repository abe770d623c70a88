------------------------- MODULE RoutingGraphProofs -------------------------
(* Whatever the caller and the timeshift thread do to the maps: what a mixer *)
(* reads is what the timeshift thread writes, and a wildcard source plays    *)
(* every stream it has met, and none twice, until one of them is reset.      *)
EXTENDS RoutingGraph, SequenceTheorems, TLAPS

(* The reports of the last pass that are not handled yet.                    *)
Report  == [parent : Instance, tag : Tag, primary : BOOLEAN]
Reports == {events[k] : k \in DOMAIN events}

(* Reports are about wildcard sources, and outlast the pass.                 *)
ReportsTyped == /\ events \in Seq(Report)
                /\ \A e \in Reports : e.parent <= created /\ filter[e.parent] \in Wild
                /\ pcT # "pass" => events # <<>>
                /\ pcT = "spawn" => ~Event.primary

Filtered == \A i \in 1 .. created : filter[i] \in Tag \cup Wild

(* Instances not yet created have no parent, and only wildcard sources have  *)
(* children.                                                                 *)
Parents == /\ \A i \in Instance : i > created => parent[i] = None
           /\ \A p \in Instance, t \in Tag :
                children[p][t] # None => p <= created /\ filter[p] \in Wild

(* The instance a call is about: it is new, or it is no child, and only its  *)
(* own children are removed with it.                                         *)
Removal   == {"disconnect", "unmap", "extract", "unregister"}
Victim == /\ op = "register" => /\ victim \in sources \ registered /\ parent[victim] = None
                                /\ \A t \in Tag : children[victim][t] = None
                                /\ \A e \in Reports : e.parent # victim
          /\ op \in Removal => victim \in 1 .. created /\ parent[victim] = None
          /\ op = "disconnect" => todo \subseteq Sink
          /\ op \in Removal \ {"disconnect"} =>
               \A c \in todo : c \in 1 .. created /\ filter[c] \in Tag /\ parent[c] \in {victim, None}
          /\ op \in {"extract", "unregister"} => parent[Current] = None
          /\ op = "unregister" => Current \notin sources

(* The child the timeshift thread has in hand is not one that the caller     *)
(* registers or could name.                                                  *)
InHand == /\ pcT \in {"register", "list", "link"} =>
               /\ child \in 1 .. created /\ filter[child] \in Tag
               /\ op = "register" => child # victim
               /\ child \in sources => parent[child] # None \/ (op = "extract" /\ child = Current)
          /\ pcT = "register" => child \notin registered

Served == \A i \in sources : \/ i \in registered
                             \/ op = "register" /\ i = victim
                             \/ pcT = "register" /\ i = child

(* The part of the type invariant this needs.                                *)
MapTypes ==
  /\ sources \subseteq 1 .. created /\ created \in 0 .. MaxInstances /\ registered \subseteq 1 .. created
  /\ filter \in [Instance -> Tag \cup Wild \cup {None}]
  /\ children \in [Instance -> [Tag -> Instance \cup {None}]]
  /\ parent \in [Instance -> Instance \cup {None}]
  /\ sinks \subseteq Sink
StepTypes ==
  /\ op \in {"none", "register", "disconnect", "unmap", "extract", "unregister"}
  /\ victim \in Instance \cup {None} /\ todo \subseteq Sink \cup Instance /\ heirs \in BOOLEAN
  /\ pcT \in {"pass", "match", "spawn", "register", "list", "link"}
  /\ child \in Instance \cup {None} /\ links \subseteq Sink

SInv == /\ MapTypes /\ StepTypes /\ ReportsTyped /\ Filtered /\ Parents /\ MappedIsLive
        /\ Victim /\ InHand /\ Served

-----------------------------------------------------------------------------
(* A mixer that is gone has no inputs, and a source that the timeshift       *)
(* thread does not serve is no input.                                        *)
NoMixer    == \A s \in Sink \ sinks, i \in Instance : inputs[s][i] = None
Unattached == \A s \in Sink, i \in Instance :
                i > created \/ i \in sources \ registered => inputs[s][i] = None

RingTypes == /\ made \in 0 .. MaxRings
             /\ rings  \in [Sink -> [Instance -> Ring \cup {None}]]
             /\ inputs \in [Sink -> [Instance -> Ring \cup {None}]]
             /\ fed    \in [Instance -> [Sink -> Ring \cup {None}]]

FInv == RingTypes /\ NoMixer /\ Unattached /\ InputsFed

-----------------------------------------------------------------------------
Removing(p) == op \in Removal /\ p = victim

(* The first stream a wildcard source meets is the one it is bound to: only  *)
(* one that has lost a stream is free and has met others.                    *)
BoundFirst == \A p \in registered : filter[p] \in Wild =>
                 IF bound[p] = None THEN matched[p] = {} \/ ended[p] # {} ELSE bound[p] \in matched[p]

(* Children play streams their source has met, and are registered but for    *)
(* the one in hand.                                                          *)
ChildMatched == \A p \in registered, t \in Tag : children[p][t] # None => t \in matched[p]
ChildServed  == \A p \in Instance, t \in Tag : children[p][t] # None =>
                  children[p][t] \in registered \/ (pcT = "register" /\ children[p][t] = child)

ReportsTrue == \A e \in Reports : e.parent \in registered =>
                  /\ e.tag \in matched[e.parent]
                  /\ ~e.primary => bound[e.parent] # e.tag
                  /\ e.primary => bound[e.parent] = e.tag \/ e.tag \in ended[e.parent]
                  /\ pcT = "pass" => bound[e.parent] # None

WildServed == \A p \in registered : filter[p] \in Wild =>
                 p \in sources \/ (op = "unregister" /\ p = Current)

Spawned == pcT \in {"register", "list", "link"} /\ Event.parent \in registered /\ ~Removing(Event.parent) =>
             children[Event.parent][Event.tag] # None

(* Every stream met is the source's own, has a child or is still reported,   *)
(* unless it was reset while it was the source's own.                        *)
Reported(p, t) == \E e \in Reports : e.parent = p /\ e.tag = t
Accounted == \A p \in registered : filter[p] \in Wild /\ ~Removing(p) =>
               \A t \in matched[p] \ ended[p] :
                 bound[p] = t \/ children[p][t] # None \/ Reported(p, t)

StreamTypes == /\ bound \in [Instance -> Tag \cup {None}]
               /\ matched \in [Instance -> SUBSET Tag] /\ ended \in [Instance -> SUBSET Tag]

PInv == /\ StreamTypes /\ PlayedOnce /\ BoundFirst /\ ChildMatched /\ ChildServed /\ ReportsTrue
        /\ WildServed /\ Spawned /\ Accounted
-----------------------------------------------------------------------------
USE DEF maps, wiring, targets, caller, thread

LEMMA CurrentIs == /\ todo = {} => Current = victim
                   /\ todo # {} => Current \in todo
  BY DEF Current

LEMMA SameCurrent == UNCHANGED <<victim, todo>> => Current' = Current
  BY DEF Current

(* Numbers are not tags, and an instance is one.                             *)
LEMMA Numbers == /\ Instance \subseteq Nat \ {None} /\ Ring \subseteq Nat \ {None}
                 /\ None \notin Tag \cup Wild /\ Tag \cap Wild = {}
                 /\ \A w \in Wild : Covers[w] \subseteq Tag
  BY RoutingAssumption DEF Instance, Ring, None

LEMMA Instances == MapTypes => /\ created \in Nat /\ 1 .. created \subseteq Instance
                               /\ \A i \in Instance : i \in Nat \ {None}
                               /\ sources \subseteq Instance /\ registered \subseteq Instance
  BY RoutingAssumption DEF MapTypes, Instance, None

LEMMA ReportElements ==
  MapTypes /\ ReportsTyped => \A e \in Reports : /\ e \in Report /\ e.parent \in Instance /\ e.tag \in Tag
                                                 /\ e.parent \in 1 .. created /\ filter[e.parent] \in Wild
  <1> SUFFICES ASSUME MapTypes, ReportsTyped, NEW e \in Reports
               PROVE  /\ e \in Report /\ e.parent \in Instance /\ e.tag \in Tag
                      /\ e.parent \in 1 .. created /\ filter[e.parent] \in Wild
      OBVIOUS
  <1>1. e \in Report
      BY ElementOfSeq, LenProperties DEF ReportsTyped, Reports
  <1>2. e.parent \in Instance /\ e.tag \in Tag
      BY <1>1 DEF Report
  <1>3. e.parent <= created /\ filter[e.parent] \in Wild
      BY DEF ReportsTyped
  <1> QED
      BY <1>1, <1>2, <1>3, Instances DEF Instance

(* The reports as a set: what a pass adds and what the next event takes.     *)
LEMMA Reporting ==
  ASSUME events \in Seq(Report), NEW e \in Report
  PROVE  /\ Append(events, e) \in Seq(Report) /\ Append(events, e) # <<>>
         /\ {Append(events, e)[k] : k \in DOMAIN Append(events, e)} = Reports \cup {e}
  <1>1. /\ DOMAIN events = 1 .. Len(events) /\ Len(events) \in Nat
        /\ DOMAIN Append(events, e) = 1 .. Len(events) + 1
        /\ \A k \in 1 .. Len(events) : Append(events, e)[k] = events[k]
        /\ Append(events, e)[Len(events) + 1] = e
        /\ Append(events, e) \in Seq(Report) /\ Append(events, e) # <<>>
      BY AppendProperties, LenProperties
  <1> QED
      BY <1>1 DEF Reports

LEMMA Handling ==
  ASSUME events \in Seq(Report), events # <<>>
  PROVE  /\ Tail(events) \in Seq(Report) /\ Event \in Reports /\ Event \in Report
         /\ Reports = {Tail(events)[k] : k \in DOMAIN Tail(events)} \cup {Event}
         /\ Len(events) = 1 <=> Tail(events) = <<>>
  <1>1. /\ DOMAIN events = 1 .. Len(events) /\ Len(events) \in Nat \ {0}
        /\ Tail(events) \in Seq(Report) /\ Len(Tail(events)) = Len(events) - 1
        /\ DOMAIN Tail(events) = 1 .. Len(events) - 1
        /\ \A k \in 1 .. Len(events) - 1 : Tail(events)[k] = events[k + 1]
        /\ Event = events[1] /\ Event \in Report
      BY HeadTailProperties, EmptySeq, LenProperties DEF Event
  <1>2. ASSUME NEW k \in DOMAIN events
        PROVE  events[k] \in {Tail(events)[m] : m \in DOMAIN Tail(events)} \cup {Event}
    <2>1. CASE k = 1
        BY <1>1, <2>1
    <2>2. CASE k # 1
      <3>1. k - 1 \in DOMAIN Tail(events) /\ Tail(events)[k - 1] = events[k]
          BY <1>1, <2>2
      <3> QED
          BY <3>1
    <2> QED
        BY <2>1, <2>2
  <1>3. \A m \in DOMAIN Tail(events) : m + 1 \in DOMAIN events /\ Tail(events)[m] = events[m + 1]
      BY <1>1
  <1>4. Event \in Reports
      BY <1>1 DEF Reports
  <1>5. Reports = {Tail(events)[k] : k \in DOMAIN Tail(events)} \cup {Event}
      BY <1>2, <1>3, <1>4 DEF Reports
  <1>6. Len(events) = 1 <=> Tail(events) = <<>>
    <2>1. Len(Tail(events)) = 0 <=> Tail(events) = <<>>
        BY <1>1, EmptySeq
    <2> QED
        BY <1>1, <2>1
  <1> QED
      BY <1>1, <1>4, <1>5, <1>6

-----------------------------------------------------------------------------
LEMMA SInit == Init => SInv
  <1> SUFFICES ASSUME Init PROVE SInv
      OBVIOUS
  <1>1. MapTypes
      BY RoutingAssumption DEF Init, MapTypes, Instance
  <1>2. StepTypes
    <2>1. heirs \in BOOLEAN
        BY Zenon DEF Init
    <2>2. /\ op = "none" /\ victim = None /\ todo = {} /\ pcT = "pass" /\ child = None /\ links = {}
        BY DEF Init
    <2> QED
        BY <2>1, <2>2 DEF StepTypes
  <1>3. ReportsTyped
      BY DEF Init, ReportsTyped, Reports
  <1>4. Filtered /\ Parents /\ MappedIsLive
      BY DEF Init, Filtered, Parents, MappedIsLive
  <1>5. Victim /\ InHand /\ Served
      BY DEF Init, Victim, InHand, Served, Removal
  <1> QED
      BY <1>1, <1>2, <1>3, <1>4, <1>5 DEF SInv

(* Connecting changes no map of instances.                                   *)
LEMMA SFrame == ASSUME SInv, UNCHANGED <<maps, registered, caller, thread>>, sinks' \subseteq Sink PROVE SInv'
  <1>1. MapTypes' /\ StepTypes'
      BY DEF SInv, MapTypes, StepTypes
  <1>2. ReportsTyped'
      BY DEF SInv, ReportsTyped, Reports, Event
  <1>3. Filtered' /\ Parents' /\ MappedIsLive' /\ Served'
      BY DEF SInv, Filtered, Parents, MappedIsLive, Served
  <1>4. Victim' /\ InHand'
      BY SameCurrent DEF SInv, Victim, InHand, Reports
  <1> QED
      BY <1>1, <1>2, <1>3, <1>4 DEF SInv

(* A source inserted is a new one, and no other changes its filter.          *)
LEMMA Inserted ==
  ASSUME MapTypes, Filtered, NEW f \in Tag \cup Wild, InsertSource(f)
  PROVE  /\ created' = created + 1 /\ created + 1 \in Instance /\ created + 1 \notin 1 .. created
         /\ sources' = sources \cup {created + 1} /\ created' \in 0 .. MaxInstances
         /\ 1 .. created' = 1 .. created \cup {created + 1}
         /\ filter'[created + 1] = f /\ filter' \in [Instance -> Tag \cup Wild \cup {None}]
         /\ \A i \in Instance : i # created + 1 => filter'[i] = filter[i]
         /\ \A i \in 1 .. created : filter'[i] = filter[i]
         /\ Filtered'
  <1>1. /\ created' = created + 1 /\ sources' = sources \cup {created + 1} /\ created \in Nat
        /\ created < MaxInstances /\ MaxInstances \in Nat
        /\ filter' = [filter EXCEPT ![created + 1] = f]
      BY RoutingAssumption DEF InsertSource, MapTypes
  <1>2. /\ created + 1 \in Instance /\ created + 1 \notin 1 .. created /\ created' \in 0 .. MaxInstances
        /\ 1 .. created' = 1 .. created \cup {created + 1}
      BY <1>1 DEF Instance
  <1>3. /\ filter'[created + 1] = f /\ filter' \in [Instance -> Tag \cup Wild \cup {None}]
        /\ \A i \in Instance : i # created + 1 => filter'[i] = filter[i]
      BY <1>1, <1>2 DEF MapTypes
  <1>4. \A i \in 1 .. created : filter'[i] = filter[i]
    <2> TAKE i \in 1 .. created
    <2>1. i \in Instance /\ i # created + 1
        BY <1>1, <1>2, Instances
    <2> QED
        BY <1>3, <2>1
  <1>5. Filtered'
      BY <1>2, <1>3, <1>4 DEF Filtered
  <1> QED
      BY <1>1, <1>2, <1>3, <1>4, <1>5

LEMMA SConfigureSource == ASSUME SInv, NEW f \in Tag \cup Wild, ConfigureSource(f) PROVE SInv'
  <1>1. /\ MapTypes /\ StepTypes /\ ReportsTyped /\ Filtered /\ Parents /\ MappedIsLive
        /\ Victim /\ InHand /\ Served /\ InsertSource(f)
        /\ op = "none" /\ op' = "register" /\ victim' = created + 1
        /\ UNCHANGED <<children, parent, wiring, targets, todo, heirs, thread>>
      BY DEF SInv, ConfigureSource, May
  <1>2. /\ created' = created + 1 /\ created + 1 \in Instance /\ created + 1 \notin 1 .. created
        /\ sources' = sources \cup {created + 1} /\ created' \in 0 .. MaxInstances
        /\ 1 .. created' = 1 .. created \cup {created + 1} /\ created \in Nat
        /\ filter' \in [Instance -> Tag \cup Wild \cup {None}]
        /\ \A i \in 1 .. created : filter'[i] = filter[i]
        /\ Filtered'
      BY <1>1, Inserted, Instances
  <1>4. MapTypes' /\ StepTypes'
      BY <1>1, <1>2 DEF MapTypes, StepTypes
  <1>5. ReportsTyped'
      BY <1>1, <1>2, ReportElements DEF ReportsTyped, Reports, Event
  <1>6. Parents' /\ MappedIsLive'
    <2>1. Parents'
      <3>1. \A i \in Instance : /\ i <= created => i \in 1 .. created /\ i <= created'
                                /\ i > created' => i > created
          BY <1>2 DEF Instance
      <3>2. \A i \in Instance : i > created' => parent'[i] = None
          BY <1>1, <3>1 DEF Parents
      <3>3. \A p \in Instance, t \in Tag :
              children'[p][t] # None => p <= created' /\ filter'[p] \in Wild
        <4> TAKE p \in Instance, t \in Tag
        <4>1. children[p][t] # None => p <= created /\ filter[p] \in Wild
            BY <1>1 DEF Parents
        <4>2. p <= created => filter'[p] = filter[p] /\ p <= created'
            BY <1>2, <3>1
        <4> QED
            BY <1>1, <4>1, <4>2
      <3> QED
          BY <3>2, <3>3 DEF Parents
    <2>2. MappedIsLive'
        BY <1>1, <1>2 DEF MappedIsLive, MapTypes
    <2> QED
        BY <2>1, <2>2
  <1>7. Victim' /\ InHand' /\ Served'
    <2>1. Victim'
        BY <1>1, <1>2, ReportElements DEF Victim, MapTypes, Parents, Reports, Removal
    <2>2. InHand' /\ Served'
        BY <1>1, <1>2 DEF InHand, Served, MapTypes
    <2> QED
        BY <2>1, <2>2
  <1> QED
      BY <1>2, <1>4, <1>5, <1>6, <1>7 DEF SInv

LEMMA SRegisterSource == ASSUME SInv, RegisterSource PROVE SInv'
  <1>1. /\ MapTypes /\ StepTypes /\ ReportsTyped /\ Filtered /\ Parents /\ MappedIsLive
        /\ Victim /\ InHand /\ Served
        /\ op = "register" /\ op' = "none" /\ victim' = None
        /\ registered' = registered \cup {victim}
        /\ UNCHANGED <<maps, wiring, todo, heirs, thread>>
      BY DEF SInv, RegisterSource, RegisterTarget
  <1>2. victim \in 1 .. created
      BY <1>1 DEF Victim, MapTypes
  <1>3. MapTypes' /\ StepTypes' /\ Filtered' /\ Parents' /\ MappedIsLive'
      BY <1>1, <1>2 DEF MapTypes, StepTypes, Filtered, Parents, MappedIsLive
  <1>4. ReportsTyped'
      BY <1>1 DEF ReportsTyped, Reports, Event
  <1>5. Victim' /\ InHand' /\ Served'
      BY <1>1, <1>2 DEF Victim, InHand, Served, Removal
  <1> QED
      BY <1>3, <1>4, <1>5 DEF SInv

LEMMA SRemoveSource == ASSUME SInv, NEW i \in Instance, RemoveSource(i) PROVE SInv'
  <1>1. /\ MapTypes /\ StepTypes /\ ReportsTyped /\ Filtered /\ Parents /\ MappedIsLive
        /\ Victim /\ InHand /\ Served
        /\ op = "none" /\ op' = "disconnect" /\ victim' = i /\ todo' = sinks
        /\ i \in 1 .. created /\ parent[i] = None
        /\ UNCHANGED <<maps, wiring, targets, heirs, thread>>
      BY DEF SInv, RemoveSource, May, Known
  <1>3. MapTypes' /\ StepTypes' /\ Filtered' /\ Parents' /\ MappedIsLive'
      BY <1>1 DEF MapTypes, StepTypes, Filtered, Parents, MappedIsLive
  <1>4. ReportsTyped'
      BY <1>1 DEF ReportsTyped, Reports, Event
  <1>5. Victim' /\ InHand' /\ Served'
      BY <1>1 DEF Victim, InHand, Served, Removal, MapTypes
  <1> QED
      BY <1>3, <1>4, <1>5 DEF SInv

LEMMA SDisconnectNext == ASSUME SInv, DisconnectNext PROVE SInv'
  <1>1. /\ MapTypes /\ StepTypes /\ ReportsTyped /\ Filtered /\ Parents /\ MappedIsLive
        /\ Victim /\ InHand /\ Served
        /\ op = "disconnect" /\ todo' \subseteq todo
        /\ UNCHANGED <<maps, sinks, registered, op, victim, heirs, thread>>
      BY DEF SInv, DisconnectNext
  <1>3. MapTypes' /\ StepTypes' /\ Filtered' /\ Parents' /\ MappedIsLive'
      BY <1>1 DEF MapTypes, StepTypes, Filtered, Parents, MappedIsLive
  <1>4. ReportsTyped'
      BY <1>1 DEF ReportsTyped, Reports, Event
  <1>5. Victim' /\ InHand' /\ Served'
      BY <1>1 DEF Victim, InHand, Served, Removal, Reports
  <1> QED
      BY <1>3, <1>4, <1>5 DEF SInv

(* The children of a source know their parent.                               *)
LEMMA SListChildren == ASSUME SInv, ListChildren PROVE SInv'
  <1>1. /\ MapTypes /\ StepTypes /\ ReportsTyped /\ Filtered /\ Parents /\ MappedIsLive
        /\ Victim /\ InHand /\ Served
        /\ op = "disconnect" /\ op' = "unmap" /\ heirs' = (todo' # {})
        /\ todo' = {children[victim][t] : t \in Tag} \ {None}
        /\ UNCHANGED <<maps, wiring, targets, victim, thread>>
      BY DEF SInv, ListChildren
  <1>2. victim \in Instance /\ victim \in 1 .. created /\ parent[victim] = None
      BY <1>1, Instances DEF Victim, Removal
  <1>3. \A c \in todo' : c \in 1 .. created /\ c \in Instance /\ filter[c] \in Tag /\ parent[c] = victim
    <2> SUFFICES ASSUME NEW c \in todo'
                 PROVE  c \in 1 .. created /\ c \in Instance /\ filter[c] \in Tag /\ parent[c] = victim
        OBVIOUS
    <2>1. PICK t \in Tag : c = children[victim][t] /\ c # None
        BY <1>1
    <2>2. c \in sources /\ parent[c] = victim /\ filter[c] = t
        BY <1>1, <1>2, <2>1 DEF MappedIsLive
    <2> QED
        BY <1>1, <2>1, <2>2, Instances DEF MapTypes
  <1>4. MapTypes' /\ Filtered' /\ Parents' /\ MappedIsLive'
      BY <1>1 DEF MapTypes, Filtered, Parents, MappedIsLive
  <1>5. StepTypes'
    <2>1. heirs' \in BOOLEAN
        BY <1>1, Zenon
    <2> QED
        BY <1>1, <1>3, <2>1 DEF StepTypes
  <1>6. ReportsTyped'
      BY <1>1 DEF ReportsTyped, Reports, Event
  <1>7. Victim' /\ InHand' /\ Served'
      BY <1>1, <1>2, <1>3 DEF Victim, InHand, Served, Removal, Reports
  <1> QED
      BY <1>4, <1>5, <1>6, <1>7 DEF SInv
LEMMA SEraseMapping == ASSUME SInv, EraseMapping PROVE SInv'
  <1>1. /\ MapTypes /\ StepTypes /\ ReportsTyped /\ Filtered /\ Parents /\ MappedIsLive
        /\ Victim /\ InHand /\ Served
        /\ op = "unmap" /\ heirs' = FALSE
        /\ children' = [children EXCEPT ![victim] = [t \in Tag |-> None]]
        /\ UNCHANGED <<sources, filter, created, parent, wiring, targets, op, victim, todo, thread>>
      BY DEF SInv, EraseMapping
  <1>2. /\ children' \in [Instance -> [Tag -> Instance \cup {None}]]
        /\ \A p \in Instance, t \in Tag : children'[p][t] \in {children[p][t], None}
      BY <1>1 DEF MapTypes
  <1>3. MapTypes' /\ StepTypes' /\ Filtered' /\ Parents' /\ MappedIsLive'
    <2>1. Parents' /\ MappedIsLive'
        BY <1>1, <1>2 DEF Parents, MappedIsLive
    <2> QED
        BY <1>1, <1>2, <2>1 DEF MapTypes, StepTypes, Filtered
  <1>4. ReportsTyped'
      BY <1>1 DEF ReportsTyped, Reports, Event
  <1>5. Victim' /\ InHand' /\ Served'
      BY <1>1, SameCurrent DEF Victim, InHand, Served, Removal, Reports
  <1> QED
      BY <1>3, <1>4, <1>5 DEF SInv

(* What is removed next is the source of the call or a child of it.          *)
LEMMA CurrentTyped ==
  ASSUME SInv, op \in Removal \ {"disconnect"}
  PROVE  /\ Current \in 1 .. created /\ Current \in Instance /\ parent[Current] \in {victim, None}
         /\ Current \in todo => filter[Current] \in Tag
  <1>1. /\ MapTypes /\ victim \in 1 .. created /\ parent[victim] = None
        /\ \A c \in todo : c \in 1 .. created /\ filter[c] \in Tag /\ parent[c] \in {victim, None}
      BY DEF SInv, Victim, Removal
  <1> QED
      BY <1>1, CurrentIs, Instances

LEMMA SUnmap == ASSUME SInv, Unmap PROVE SInv'
  <1>1. /\ MapTypes /\ StepTypes /\ ReportsTyped /\ Filtered /\ Parents /\ MappedIsLive
        /\ Victim /\ InHand /\ Served
        /\ op = "unmap" /\ op' = "extract"
        /\ children' = IF parent[Current] = None THEN children
                       ELSE [children EXCEPT ![parent[Current]] = Unmapped(parent[Current], Current)]
        /\ parent' = [parent EXCEPT ![Current] = None]
        /\ UNCHANGED <<sources, filter, created, wiring, targets, victim, todo, heirs, thread>>
      BY DEF SInv, Unmap
  <1>2. /\ Current \in 1 .. created /\ Current \in Instance /\ parent[Current] \in Instance \cup {None}
        /\ Current' = Current
      BY <1>1, CurrentTyped, SameCurrent DEF Removal, MapTypes
  <1>3. /\ children' \in [Instance -> [Tag -> Instance \cup {None}]]
        /\ \A p \in Instance, t \in Tag :
             children'[p][t] = IF p = parent[Current] /\ children[p][t] = Current THEN None ELSE children[p][t]
    <2>1. CASE parent[Current] = None
        BY <1>1, <2>1, Instances DEF MapTypes
    <2>2. CASE parent[Current] # None
      <3>1. Unmapped(parent[Current], Current) \in [Tag -> Instance \cup {None}]
          BY <1>1, <1>2, <2>2 DEF MapTypes, Unmapped
      <3> QED
          BY <1>1, <1>2, <2>2, <3>1 DEF MapTypes, Unmapped
    <2> QED
        BY <2>1, <2>2
  <1>4. /\ parent' \in [Instance -> Instance \cup {None}] /\ parent'[Current] = None
        /\ \A i \in Instance : i # Current => parent'[i] = parent[i]
        /\ \A i \in Instance : parent'[i] \in {parent[i], None}
      BY <1>1, <1>2 DEF MapTypes
  <1>5. MapTypes' /\ StepTypes' /\ Filtered'
      BY <1>1, <1>3, <1>4 DEF MapTypes, StepTypes, Filtered
  <1>6. Parents'
      BY <1>1, <1>3, <1>4 DEF Parents
  <1>7. MappedIsLive'
    <2> SUFFICES ASSUME NEW p \in Instance, NEW t \in Tag, children'[p][t] # None
                 PROVE  /\ children'[p][t] \in sources /\ parent'[children'[p][t]] = p
                        /\ filter[children'[p][t]] = t
        BY <1>1 DEF MappedIsLive
    <2>1. /\ children'[p][t] = children[p][t] /\ children[p][t] \in Instance
          /\ p = parent[Current] => children[p][t] # Current
        BY <1>1, <1>3 DEF MapTypes
    <2>2. children[p][t] \in sources /\ parent[children[p][t]] = p /\ filter[children[p][t]] = t
        BY <1>1, <2>1 DEF MappedIsLive
    <2>3. children[p][t] # Current
        BY <2>1, <2>2
    <2> QED
        BY <1>4, <2>1, <2>2, <2>3
  <1>8. ReportsTyped'
      BY <1>1 DEF ReportsTyped, Reports, Event
  <1>9. Victim'
    <2>1. \A c \in todo : c \in Instance
        BY <1>1, Instances DEF Victim, Removal
    <2>2. victim \in Instance
        BY <1>1, Instances DEF Victim, Removal
    <2> QED
        BY <1>1, <1>2, <1>4, <2>1, <2>2 DEF Victim, Removal
  <1>10. InHand' /\ Served'
      BY <1>1, <1>2, <1>4, Instances DEF InHand, Served
  <1> QED
      BY <1>5, <1>6, <1>7, <1>8, <1>9, <1>10 DEF SInv

(* What is extracted has no parent, so no source lists it.                   *)
LEMMA SExtract == ASSUME SInv, Extract PROVE SInv'
  <1>1. /\ MapTypes /\ StepTypes /\ ReportsTyped /\ Filtered /\ Parents /\ MappedIsLive
        /\ Victim /\ InHand /\ Served
        /\ op = "extract" /\ op' = "unregister" /\ sources' = sources \ {Current}
        /\ UNCHANGED <<filter, created, children, parent, wiring, targets, victim, todo, heirs, thread>>
      BY DEF SInv, Extract
  <1>2. Current' = Current /\ parent[Current] = None
      BY <1>1, SameCurrent DEF Victim, Removal
  <1>3. MapTypes' /\ StepTypes' /\ Filtered' /\ Parents'
      BY <1>1 DEF MapTypes, StepTypes, Filtered, Parents
  <1>4. MappedIsLive'
      BY <1>1, <1>2, Instances DEF MappedIsLive
  <1>5. ReportsTyped'
      BY <1>1 DEF ReportsTyped, Reports, Event
  <1>6. Victim' /\ InHand' /\ Served'
      BY <1>1, <1>2 DEF Victim, InHand, Served, Removal
  <1> QED
      BY <1>3, <1>4, <1>5, <1>6 DEF SInv

LEMMA SUnregister == ASSUME SInv, Unregister PROVE SInv'
  <1>1. /\ MapTypes /\ StepTypes /\ ReportsTyped /\ Filtered /\ Parents /\ MappedIsLive
        /\ Victim /\ InHand /\ Served
        /\ op = "unregister" /\ registered' = registered \ {Current} /\ todo' = todo \ {Current}
        /\ op' = IF todo = {} THEN "none" ELSE "unmap"
        /\ victim' = IF todo = {} THEN None ELSE victim
        /\ UNCHANGED <<maps, wiring, heirs, thread>>
      BY DEF SInv, Unregister
  <1>2. Current \notin sources
      BY <1>1 DEF Victim
  <1>3. MapTypes' /\ StepTypes' /\ Filtered' /\ Parents' /\ MappedIsLive'
      BY <1>1 DEF MapTypes, StepTypes, Filtered, Parents, MappedIsLive
  <1>4. ReportsTyped'
      BY <1>1 DEF ReportsTyped, Reports, Event
  <1>5. Victim'
    <2>1. CASE todo = {}
        BY <1>1, <2>1 DEF Victim, Removal
    <2>2. CASE todo # {}
        BY <1>1, <2>2 DEF Victim, Removal
    <2> QED
        BY <2>1, <2>2
  <1>6. InHand' /\ Served'
      BY <1>1, <1>2 DEF InHand, Served
  <1> QED
      BY <1>3, <1>4, <1>5, <1>6 DEF SInv
-----------------------------------------------------------------------------
(* The thread's steps.                                                       *)
LEMMA SMeet == ASSUME SInv, NEW p \in Instance, NEW t \in Tag, Meet(p, t) PROVE SInv'
  <1> DEFINE e == [parent |-> p, tag |-> t, primary |-> bound[p] = None]
  <1>1. /\ MapTypes /\ StepTypes /\ ReportsTyped /\ Filtered /\ Parents /\ MappedIsLive
        /\ Victim /\ InHand /\ Served
        /\ pcT = "pass" /\ p \in registered /\ filter[p] \in Wild
        /\ events' = Append(events, e)
        /\ UNCHANGED <<maps, wiring, registered, fed, ended, caller, pcT, child, links>>
      BY DEF SInv, Meet, Meets
  <1>2. e \in Report /\ e.parent = p
      BY DEF Report
  <1> HIDE DEF e
  <1>3. /\ events' \in Seq(Report) /\ events' # <<>> /\ Reports' = Reports \cup {e}
      BY <1>1, <1>2, Reporting DEF ReportsTyped, Reports
  <1>4. MapTypes' /\ StepTypes' /\ Filtered' /\ Parents' /\ MappedIsLive'
      BY <1>1 DEF MapTypes, StepTypes, Filtered, Parents, MappedIsLive
  <1>5. ReportsTyped'
      BY <1>1, <1>2, <1>3 DEF ReportsTyped, MapTypes
  <1>6. Victim' /\ InHand' /\ Served'
      BY <1>1, <1>2, <1>3, SameCurrent DEF Victim, InHand, Served, Removal
  <1> QED
      BY <1>4, <1>5, <1>6 DEF SInv

(* A step of the thread that changes only its own variables and leaves the   *)
(* child in hand alone, or lets it go.                                       *)
LEMMA SStep ==
  ASSUME SInv, UNCHANGED <<maps, sinks, registered, caller>>, StepTypes', ReportsTyped',
         Reports' \subseteq Reports,
         pcT' \in {"register", "list", "link"} => child' = child /\ pcT \in {"register", "list", "link"},
         pcT = "register" <=> pcT' = "register"
  PROVE  SInv'
  <1>1. /\ MapTypes /\ Filtered /\ Parents /\ MappedIsLive /\ Victim /\ InHand /\ Served
        /\ UNCHANGED <<sources, filter, created, children, parent, sinks, registered, op, victim, todo, heirs>>
      BY DEF SInv
  <1>2. Current' = Current
      BY <1>1, SameCurrent
  <1>3. MapTypes' /\ Filtered' /\ Parents' /\ MappedIsLive'
      BY <1>1 DEF MapTypes, Filtered, Parents, MappedIsLive
  <1>4. Victim' /\ InHand'
      BY <1>1, <1>2 DEF Victim, InHand
  <1>5. Served'
      BY <1>1 DEF Served, InHand
  <1> QED
      BY <1>3, <1>4, <1>5 DEF SInv

LEMMA NextReports ==
  ASSUME SInv, pcT # "pass", NextEvent, UNCHANGED <<maps, registered>>
  PROVE  /\ Event \in Reports /\ Reports = Reports' \cup {Event} /\ ReportsTyped'
         /\ pcT' \in {"pass", "match"} /\ child' = None /\ links' = {}
         /\ pcT' = "pass" <=> events' = <<>>
  <1>1. /\ MapTypes /\ ReportsTyped /\ events \in Seq(Report) /\ events # <<>>
        /\ events' = Tail(events) /\ child' = None /\ links' = {}
        /\ pcT' = IF Len(events) = 1 THEN "pass" ELSE "match"
      BY DEF SInv, NextEvent, ReportsTyped
  <1>2. /\ events' \in Seq(Report) /\ Event \in Reports /\ Reports = Reports' \cup {Event}
        /\ Len(events) = 1 <=> events' = <<>>
      BY <1>1, Handling DEF Reports
  <1>3. ReportsTyped'
      BY <1>1, <1>2 DEF ReportsTyped
  <1> QED
      BY <1>1, <1>2, <1>3

LEMMA SNextEvent ==
  ASSUME SInv, pcT \in {"match", "spawn", "link"}, NextEvent, UNCHANGED <<maps, sinks, registered, caller>>
  PROVE  SInv'
  <1>1. /\ Reports' \subseteq Reports /\ ReportsTyped'
        /\ pcT' \in {"pass", "match"} /\ child' = None /\ links' = {}
      BY NextReports
  <1>2. StepTypes'
      BY <1>1 DEF SInv, StepTypes
  <1> QED
      BY <1>1, <1>2, SStep

LEMMA SThread ==
  ASSUME SInv, EndPass \/ Match \/ SpawnFails \/ ListSinks \/ LinkChild \/ Linked
  PROVE  SInv'
  <1>1. StepTypes /\ ReportsTyped
      BY DEF SInv
  <1>2. CASE EndPass \/ ListSinks \/ LinkChild \/ (Match /\ ~Ignore)
    <2>1. /\ UNCHANGED <<maps, sinks, registered, caller, events, child>>
          /\ links' \subseteq Sink
          /\ pcT' \in {"match", "spawn", "link"} /\ pcT # "register"
          /\ pcT' = "link" => pcT \in {"list", "link"}
          /\ events # <<>> /\ (pcT' = "spawn" => ~Event.primary)
      BY <1>1, <1>2 DEF EndPass, Match, ListSinks, LinkChild, Ignore, StepTypes, ReportsTyped
    <2>2. Reports' = Reports /\ Event' = Event
        BY <2>1 DEF Reports, Event
    <2>3. StepTypes' /\ ReportsTyped'
        BY <1>1, <2>1, <2>2 DEF StepTypes, ReportsTyped
    <2> QED
        BY <2>1, <2>2, <2>3, SStep
  <1>3. CASE SpawnFails \/ Linked \/ (Match /\ Ignore)
    <2>1. /\ UNCHANGED <<maps, sinks, registered, caller>> /\ NextEvent
          /\ pcT \in {"match", "spawn", "link"}
        BY <1>3 DEF SpawnFails, Linked, Match
    <2> QED
        BY <2>1, SNextEvent
  <1> QED
      BY <1>2, <1>3

LEMMA SSpawnChild == ASSUME SInv, SpawnChild PROVE SInv'
  <1> DEFINE p == Event.parent
             t == Event.tag
  <1>1. /\ MapTypes /\ StepTypes /\ ReportsTyped /\ Filtered /\ Parents /\ MappedIsLive
        /\ Victim /\ InHand /\ Served /\ InsertSource(t)
        /\ pcT = "spawn" /\ pcT' = "register" /\ p \in sources /\ child' = created + 1
        /\ children' = [children EXCEPT ![p][t] = created + 1]
        /\ parent' = [parent EXCEPT ![created + 1] = p]
        /\ UNCHANGED <<wiring, targets, caller, events, links>>
      BY DEF SInv, SpawnChild
  <1>2. /\ p \in Instance /\ p \in 1 .. created /\ t \in Tag /\ filter[p] \in Wild
        /\ p # None /\ events # <<>>
    <2>1. Event \in Reports
        BY <1>1, Handling DEF ReportsTyped
    <2> QED
        BY <1>1, <2>1, ReportElements, Instances DEF ReportsTyped
  <1> HIDE DEF p, t
  <1>3. /\ created' = created + 1 /\ created + 1 \in Instance /\ created + 1 \notin 1 .. created
        /\ sources' = sources \cup {created + 1} /\ created' \in 0 .. MaxInstances
        /\ 1 .. created' = 1 .. created \cup {created + 1} /\ created \in Nat
        /\ filter'[created + 1] = t /\ filter' \in [Instance -> Tag \cup Wild \cup {None}]
        /\ \A i \in 1 .. created : filter'[i] = filter[i]
        /\ Filtered'
      BY <1>1, <1>2, Inserted, Instances
  <1>4. /\ children' \in [Instance -> [Tag -> Instance \cup {None}]]
        /\ children'[p][t] = created + 1
        /\ \A q \in Instance, u \in Tag : q # p \/ u # t => children'[q][u] = children[q][u]
      BY <1>1, <1>2, <1>3 DEF MapTypes
  <1>5. /\ parent' \in [Instance -> Instance \cup {None}] /\ parent'[created + 1] = p
        /\ \A i \in Instance : i # created + 1 => parent'[i] = parent[i]
      BY <1>1, <1>2, <1>3 DEF MapTypes
  <1>6. MapTypes' /\ StepTypes'
      BY <1>1, <1>2, <1>3, <1>4, <1>5 DEF MapTypes, StepTypes
  <1>7. ReportsTyped'
    <2>1. Reports' = Reports
        BY <1>1 DEF Reports
    <2>2. \A e \in Reports : e.parent <= created' /\ filter'[e.parent] \in Wild
        BY <1>1, <1>3, <2>1, ReportElements
    <2> QED
        BY <1>1, <2>1, <2>2 DEF ReportsTyped
  <1>8. Parents'
    <2>1. \A i \in Instance : /\ i <= created => i \in 1 .. created /\ i <= created'
                              /\ i > created' => i > created /\ i # created + 1
        BY <1>3 DEF Instance
    <2>2. \A i \in Instance : i > created' => parent'[i] = None
      <3> TAKE i \in Instance
      <3>1. i > created' => parent[i] = None /\ i # created + 1
          BY <1>1, <2>1 DEF Parents
      <3> QED
          BY <1>5, <3>1
    <2>3. \A q \in Instance, u \in Tag : children'[q][u] # None => q <= created' /\ filter'[q] \in Wild
      <3> TAKE q \in Instance, u \in Tag
      <3>1. q <= created => filter'[q] = filter[q] /\ q <= created'
          BY <1>3, <2>1
      <3>2. p <= created
          BY <1>2, <1>3
      <3>3. CASE q = p /\ u = t
          BY <1>2, <3>1, <3>2, <3>3
      <3>4. CASE q # p \/ u # t
        <4>1. children'[q][u] = children[q][u]
            BY <1>4, <3>4
        <4>2. children[q][u] # None => q <= created /\ filter[q] \in Wild
            BY <1>1 DEF Parents
        <4> QED
            BY <3>1, <4>1, <4>2
      <3> QED
          BY <3>3, <3>4
    <2> QED
        BY <2>2, <2>3 DEF Parents
  <1>9. MappedIsLive'
    <2> SUFFICES ASSUME NEW q \in Instance, NEW u \in Tag, children'[q][u] # None
                 PROVE  /\ children'[q][u] \in sources' /\ parent'[children'[q][u]] = q
                        /\ filter'[children'[q][u]] = u
        BY DEF MappedIsLive
    <2>1. CASE q = p /\ u = t
        BY <1>3, <1>4, <1>5, <2>1
    <2>2. CASE q # p \/ u # t
      <3>1. children'[q][u] = children[q][u]
          BY <1>4, <2>2
      <3>2. /\ children[q][u] \in sources /\ parent[children[q][u]] = q
            /\ filter[children[q][u]] = u
          BY <1>1, <3>1 DEF MappedIsLive
      <3>3. children[q][u] \in 1 .. created /\ children[q][u] \in Instance
          BY <1>1, <3>2, Instances DEF MapTypes
      <3> QED
          BY <1>3, <1>5, <3>1, <3>2, <3>3
    <2> QED
        BY <2>1, <2>2
  <1>10. Current' = Current /\ Reports' = Reports
      BY <1>1, SameCurrent DEF Reports
  <1>11. Victim'
    <2>1. op = "register" => victim \in 1 .. created /\ victim \in Instance /\ victim # p
      <3>1. p \in registered \/ p # victim \/ op # "register"
        <4>1. Event \in Reports
            BY <1>1, Handling DEF ReportsTyped
        <4> QED
            BY <1>1, <4>1 DEF Victim, p
      <3> QED
          BY <1>1, <3>1, Instances DEF Victim, MapTypes
    <2>2. op \in Removal => victim \in 1 .. created /\ victim \in Instance
        BY <1>1, Instances DEF Victim
    <2>3. op \in Removal \ {"disconnect"} => Current \in 1 .. created /\ Current \in Instance
        BY CurrentTyped
    <2>4. op \in Removal \ {"disconnect"} => \A c \in todo : c \in 1 .. created /\ c \in Instance
        BY <1>1, Instances DEF Victim
    <2>5. op = "register" => /\ victim \in sources' \ registered' /\ parent'[victim] = None
                             /\ \A u \in Tag : children'[victim][u] = None
                             /\ \A e \in Reports : e.parent # victim
        BY <1>1, <1>3, <1>4, <1>5, <2>1 DEF Victim
    <2>6. op \in Removal => victim \in 1 .. created' /\ parent'[victim] = None
        BY <1>1, <1>3, <1>5, <2>2 DEF Victim
    <2>7. op \in Removal \ {"disconnect"} =>
            \A c \in todo : c \in 1 .. created' /\ filter'[c] \in Tag /\ parent'[c] \in {victim, None}
        BY <1>1, <1>3, <1>5, <2>4 DEF Victim
    <2>8. op \in {"extract", "unregister"} => parent'[Current] = None
        BY <1>1, <1>3, <1>5, <2>3 DEF Victim, Removal
    <2>9. op = "unregister" => Current \notin sources'
        BY <1>1, <1>3, <2>3 DEF Victim, Removal
    <2> QED
        BY <1>1, <1>10, <2>5, <2>6, <2>7, <2>8, <2>9 DEF Victim
  <1>12. InHand' /\ Served'
    <2>1. op = "register" => victim \in 1 .. created
        BY <1>1 DEF Victim, MapTypes
    <2>2. created + 1 \notin registered
        BY <1>1, <1>3 DEF MapTypes
    <2> QED
        BY <1>1, <1>2, <1>3, <1>5, <2>1, <2>2 DEF InHand, Served
  <1> QED
      BY <1>3, <1>6, <1>7, <1>8, <1>9, <1>11, <1>12 DEF SInv

LEMMA SRegisterChild == ASSUME SInv, RegisterChild PROVE SInv'
  <1>1. /\ MapTypes /\ StepTypes /\ ReportsTyped /\ Filtered /\ Parents /\ MappedIsLive
        /\ Victim /\ InHand /\ Served
        /\ pcT = "register" /\ pcT' = "list" /\ registered' = registered \cup {child}
        /\ UNCHANGED <<maps, wiring, caller, events, child, links>>
      BY DEF SInv, RegisterChild, RegisterTarget
  <1>2. child \in 1 .. created /\ Current' = Current /\ Reports' = Reports /\ Event' = Event
      BY <1>1, SameCurrent DEF InHand, Reports, Event
  <1>3. MapTypes' /\ StepTypes' /\ Filtered' /\ Parents' /\ MappedIsLive'
      BY <1>1, <1>2 DEF MapTypes, StepTypes, Filtered, Parents, MappedIsLive
  <1>4. ReportsTyped'
      BY <1>1, <1>2 DEF ReportsTyped
  <1>5. Victim' /\ InHand' /\ Served'
      BY <1>1, <1>2 DEF Victim, InHand, Served
  <1> QED
      BY <1>3, <1>4, <1>5 DEF SInv

LEMMA SInvariance == Spec => []SInv
  <1>1. SInv /\ [Next]_vars => SInv'
    <2> SUFFICES ASSUME SInv, [Next]_vars PROVE SInv'
        OBVIOUS
    <2>1. CASE Configure
        BY <2>1, SConfigureSource, SRegisterSource DEF Configure
    <2>2. CASE Remove
        BY <2>2, SRemoveSource, SDisconnectNext, SListChildren, SEraseMapping, SUnmap, SExtract,
           SUnregister DEF Remove
    <2>3. CASE Wire
      <3>1. /\ UNCHANGED <<maps, registered, caller, thread>> /\ sinks' \subseteq Sink
          BY <2>3 DEF Wire, Connect, Disconnect, AddSink, RemoveSink, SInv, MapTypes
      <3> QED
          BY <3>1, SFrame
    <2>4. CASE Timeshift
        BY <2>4, SMeet, SThread, SSpawnChild, SRegisterChild DEF Timeshift
    <2>5. CASE UNCHANGED vars
      <3>1. /\ UNCHANGED <<maps, registered, caller, thread>> /\ sinks' \subseteq Sink
          BY <2>5 DEF vars, SInv, MapTypes
      <3> QED
          BY <3>1, SFrame
    <2>6. CASE \E t \in Tag : ResetStream(t)
      <3>1. /\ UNCHANGED <<maps, registered, caller, thread>> /\ sinks' \subseteq Sink
          BY <2>6 DEF ResetStream, SInv, MapTypes
      <3> QED
          BY <3>1, SFrame
    <2> QED
        BY <2>1, <2>2, <2>3, <2>4, <2>5, <2>6 DEF Next
  <1> QED
      BY SInit, <1>1, PTL DEF Spec
-----------------------------------------------------------------------------
(* The wiring.                                                               *)
LEMMA FInit == Init => FInv
  <1> SUFFICES ASSUME Init PROVE FInv
      OBVIOUS
  <1>1. RingTypes
      BY RoutingAssumption DEF Init, RingTypes, NoRings
  <1>2. NoMixer /\ Unattached /\ InputsFed
      BY DEF Init, NoMixer, Unattached, InputsFed
  <1> QED
      BY <1>1, <1>2 DEF FInv

(* A ring is attached to a served source only: all three maps get it.        *)
LEMMA FAttach ==
  ASSUME MapTypes, FInv, NEW i \in Instance, NEW s \in Sink, i \in sources => i \in registered,
         ConnectRing(i, s), UNCHANGED <<sources, created, sinks, registered>>
  PROVE  FInv'
  <1>1. RingTypes /\ NoMixer /\ Unattached /\ InputsFed
      BY DEF FInv
  <1>2. CASE i \notin sources
    <2>1. UNCHANGED <<made, rings, inputs, fed>>
        BY <1>2 DEF ConnectRing
    <2> QED
        BY <1>1, <2>1 DEF FInv, RingTypes, NoMixer, Unattached, InputsFed
  <1>3. CASE i \in sources
    <2>1. /\ made' = made + 1 /\ made < MaxRings
          /\ rings'  = [rings EXCEPT ![s][i] = made + 1]
          /\ inputs' = IF s \in sinks THEN [inputs EXCEPT ![s][i] = made + 1] ELSE inputs
          /\ fed'    = [fed EXCEPT ![i][s] = made + 1]
        BY <1>3 DEF ConnectRing, Attach
    <2>2. made' \in 0 .. MaxRings /\ made + 1 \in Ring
        BY <1>1, <2>1, RoutingAssumption DEF RingTypes, Ring
    <2>3. /\ rings' \in [Sink -> [Instance -> Ring \cup {None}]] /\ rings'[s][i] = made + 1
          /\ \A q \in Sink, j \in Instance : q # s \/ j # i => rings'[q][j] = rings[q][j]
        BY <1>1, <2>1, <2>2 DEF RingTypes
    <2>4. /\ fed' \in [Instance -> [Sink -> Ring \cup {None}]] /\ fed'[i][s] = made + 1
          /\ \A q \in Sink, j \in Instance : q # s \/ j # i => fed'[j][q] = fed[j][q]
        BY <1>1, <2>1, <2>2 DEF RingTypes
    <2>5. /\ inputs' \in [Sink -> [Instance -> Ring \cup {None}]]
          /\ s \in sinks => inputs'[s][i] = made + 1
          /\ s \notin sinks => inputs'[s][i] = inputs[s][i]
          /\ \A q \in Sink, j \in Instance : q # s \/ j # i => inputs'[q][j] = inputs[q][j]
        BY <1>1, <2>1, <2>2 DEF RingTypes
    <2>6. RingTypes' /\ NoMixer'
      <3>1. RingTypes'
          BY <2>2, <2>3, <2>4, <2>5, Zenon DEF RingTypes
      <3>2. NoMixer'
        <4> SUFFICES ASSUME NEW q \in Sink \ sinks, NEW j \in Instance PROVE inputs'[q][j] = None
            BY DEF NoMixer
        <4>1. inputs'[q][j] = inputs[q][j]
            BY <2>5
        <4> QED
            BY <1>1, <4>1 DEF NoMixer
      <3> QED
          BY <3>1, <3>2
    <2>7. Unattached'
      <3>1. ~(i > created) /\ i \in registered
          BY <1>3, RoutingAssumption DEF MapTypes, Instance
      <3> QED
          BY <1>1, <2>5, <3>1 DEF Unattached
    <2>8. InputsFed'
      <3> SUFFICES ASSUME NEW q \in sinks, NEW j \in registered \cap sources, inputs'[q][j] # None
                   PROVE  fed'[j][q] = inputs'[q][j] /\ rings'[q][j] = inputs'[q][j]
          BY DEF InputsFed
      <3>1. q \in Sink /\ j \in Instance
          BY Instances DEF MapTypes
      <3> QED
        <4>1. CASE q = s /\ j = i
            BY <2>3, <2>4, <2>5, <4>1
        <4>2. CASE q # s \/ j # i
          <5>1. /\ inputs'[q][j] = inputs[q][j] /\ rings'[q][j] = rings[q][j]
                /\ fed'[j][q] = fed[j][q] /\ j \in registered \cap sources
              BY <2>3, <2>4, <2>5, <3>1, <4>2
          <5> QED
              BY <1>1, <5>1 DEF InputsFed
        <4> QED
            BY <4>1, <4>2
    <2> QED
        BY <2>6, <2>7, <2>8 DEF FInv
  <1> QED
      BY <1>2, <1>3

LEMMA FDetach ==
  ASSUME MapTypes, FInv, NEW i \in Instance, NEW s \in Sink, DisconnectRing(i, s),
         UNCHANGED <<sources, created, sinks, registered, made>>
  PROVE  FInv'
  <1>1. RingTypes /\ NoMixer /\ Unattached /\ InputsFed
      BY DEF FInv
  <1>2. CASE i \notin sources
    <2>1. UNCHANGED <<rings, inputs, fed>>
        BY <1>2 DEF DisconnectRing
    <2> QED
        BY <1>1, <2>1 DEF FInv, RingTypes, NoMixer, Unattached, InputsFed
  <1>3. CASE i \in sources
    <2>1. /\ inputs' = [inputs EXCEPT ![s][i] = None]
          /\ rings'  = [rings EXCEPT ![s][i] = None]
          /\ fed' = IF rings[s][i] # None THEN [fed EXCEPT ![i][s] = None] ELSE fed
        BY <1>3 DEF DisconnectRing, Detach
    <2>2. /\ rings' \in [Sink -> [Instance -> Ring \cup {None}]]
          /\ \A q \in Sink, j \in Instance : q # s \/ j # i => rings'[q][j] = rings[q][j]
        BY <1>1, <2>1 DEF RingTypes
    <2>3. /\ fed' \in [Instance -> [Sink -> Ring \cup {None}]]
          /\ \A q \in Sink, j \in Instance : q # s \/ j # i => fed'[j][q] = fed[j][q]
        BY <1>1, <2>1 DEF RingTypes
    <2>4. /\ inputs' \in [Sink -> [Instance -> Ring \cup {None}]] /\ inputs'[s][i] = None
          /\ \A q \in Sink, j \in Instance : q # s \/ j # i => inputs'[q][j] = inputs[q][j]
        BY <1>1, <2>1 DEF RingTypes
    <2>5. RingTypes' /\ NoMixer' /\ Unattached'
      <3>1. made' \in 0 .. MaxRings
          BY <1>1 DEF RingTypes
      <3>2. RingTypes'
          BY <2>2, <2>3, <2>4, <3>1, Zenon DEF RingTypes
      <3>3. \A q \in Sink, j \in Instance : inputs'[q][j] \in {inputs[q][j], None}
          BY <2>4
      <3> QED
          BY <1>1, <3>2, <3>3 DEF NoMixer, Unattached
    <2>6. InputsFed'
      <3> SUFFICES ASSUME NEW q \in sinks, NEW j \in registered \cap sources, inputs'[q][j] # None
                   PROVE  fed'[j][q] = inputs'[q][j] /\ rings'[q][j] = inputs'[q][j]
          BY DEF InputsFed
      <3>1. q \in Sink /\ j \in Instance
          BY Instances DEF MapTypes
      <3> QED
        <4>1. q # s \/ j # i
            BY <2>4
        <4>2. /\ inputs'[q][j] = inputs[q][j] /\ rings'[q][j] = rings[q][j]
              /\ fed'[j][q] = fed[j][q] /\ j \in registered \cap sources
            BY <2>2, <2>3, <2>4, <3>1, <4>1
        <4> QED
            BY <1>1, <4>2 DEF InputsFed
    <2> QED
        BY <2>5, <2>6 DEF FInv
  <1> QED
      BY <1>2, <1>3

LEMMA FSinks ==
  ASSUME MapTypes, FInv, NEW s \in Sink, AddSink(s) \/ RemoveSink(s)
  PROVE  FInv'
  <1>1. /\ RingTypes /\ NoMixer /\ Unattached /\ InputsFed
        /\ UNCHANGED <<maps, rings, made, targets>>
      BY DEF FInv, AddSink, RemoveSink
  <1>2. CASE AddSink(s)
    <2>1. /\ s \notin sinks /\ sinks' = sinks \cup {s}
          /\ UNCHANGED <<sources, created, registered, inputs, rings, made, fed>>
        BY <1>2 DEF AddSink
    <2>2. RingTypes' /\ NoMixer' /\ Unattached'
        BY <1>1, <2>1 DEF RingTypes, NoMixer, Unattached
    <2>3. InputsFed'
      <3> SUFFICES ASSUME NEW q \in sinks', NEW j \in registered \cap sources, inputs[q][j] # None
                   PROVE  fed[j][q] = inputs[q][j] /\ rings[q][j] = inputs[q][j]
          BY <2>1 DEF InputsFed
      <3>1. q \in sinks
          BY <1>1, <2>1, Instances DEF NoMixer
      <3> QED
          BY <1>1, <3>1 DEF InputsFed
    <2> QED
        BY <2>2, <2>3 DEF FInv
  <1>3. CASE RemoveSink(s)
    <2>1. /\ inputs' \in [Sink -> [Instance -> Ring \cup {None}]]
          /\ \A q \in Sink, j \in Instance : inputs'[q][j] = IF q = s THEN None ELSE inputs[q][j]
          /\ sinks' = sinks \ {s}
        BY <1>1, <1>3 DEF RemoveSink, RingTypes
    <2>2. RingTypes' /\ NoMixer' /\ Unattached'
        BY <1>1, <2>1 DEF RingTypes, NoMixer, Unattached
    <2>3. InputsFed'
      <3> SUFFICES ASSUME NEW q \in sinks \ {s}, NEW j \in registered \cap sources, inputs'[q][j] # None
                   PROVE  fed[j][q] = inputs'[q][j] /\ rings[q][j] = inputs'[q][j]
          BY <1>1, <2>1 DEF InputsFed
      <3>1. q \in Sink /\ j \in Instance
          BY Instances DEF MapTypes
      <3> QED
          BY <1>1, <2>1, <3>1 DEF InputsFed
    <2> QED
        BY <2>2, <2>3 DEF FInv
  <1> QED
      BY <1>2, <1>3

(* A source starts without rings, in the mixers too.                         *)
LEMMA FInsert ==
  ASSUME MapTypes, Filtered, FInv, NEW f \in Tag \cup Wild, InsertSource(f), UNCHANGED <<wiring, targets>>
  PROVE  FInv'
  <1>1. RingTypes /\ NoMixer /\ Unattached /\ InputsFed
      BY DEF FInv
  <1>2. /\ sources' = sources \cup {created + 1} /\ created' = created + 1 /\ created \in Nat
        /\ created + 1 \in Instance /\ created + 1 \notin 1 .. created
      BY Inserted, Instances
  <1>3. RingTypes' /\ NoMixer'
      BY <1>1 DEF RingTypes, NoMixer
  <1>4. Unattached'
      BY <1>1, <1>2 DEF Unattached, Instance
  <1>5. InputsFed'
      BY <1>1, <1>2 DEF InputsFed, MapTypes
  <1> QED
      BY <1>3, <1>4, <1>5 DEF FInv

LEMMA FRegister ==
  ASSUME MapTypes, FInv, NEW i \in Instance, i \notin registered, RegisterTarget(i),
         UNCHANGED <<maps, wiring>>
  PROVE  FInv'
  <1>1. /\ RingTypes /\ NoMixer /\ Unattached /\ InputsFed
        /\ registered' = registered \cup {i} /\ fed' = [fed EXCEPT ![i] = NoRings]
        /\ UNCHANGED <<sources, created, sinks, rings, inputs, made>>
      BY DEF FInv, RegisterTarget
  <1>2. /\ fed' \in [Instance -> [Sink -> Ring \cup {None}]]
        /\ \A j \in Instance : j # i => fed'[j] = fed[j]
      BY <1>1 DEF RingTypes, NoRings
  <1>3. RingTypes' /\ NoMixer' /\ Unattached'
      BY <1>1, <1>2 DEF RingTypes, NoMixer, Unattached
  <1>4. InputsFed'
    <2> SUFFICES ASSUME NEW q \in sinks, NEW j \in registered' \cap sources, inputs[q][j] # None
                 PROVE  fed'[j][q] = inputs[q][j] /\ rings[q][j] = inputs[q][j]
        BY <1>1 DEF InputsFed
    <2>1. q \in Sink /\ j \in Instance
        BY Instances DEF MapTypes
    <2>2. j # i
        BY <1>1, <2>1 DEF Unattached
    <2> QED
        BY <1>1, <1>2, <2>1, <2>2 DEF InputsFed
  <1> QED
      BY <1>3, <1>4 DEF FInv

(* What is unregistered is no source any more.                               *)
LEMMA FUnregister == ASSUME SInv, FInv, Unregister PROVE FInv'
  <1>1. /\ MapTypes /\ RingTypes /\ NoMixer /\ Unattached /\ InputsFed
        /\ registered' = registered \ {Current} /\ fed' = [fed EXCEPT ![Current] = NoRings]
        /\ UNCHANGED <<maps, sources, created, sinks, rings, inputs, made>>
      BY DEF SInv, FInv, Unregister
  <1>2. Current \in Instance /\ Current \notin sources
      BY CurrentTyped DEF SInv, Victim, Unregister, Removal
  <1>3. /\ fed' \in [Instance -> [Sink -> Ring \cup {None}]]
        /\ \A j \in Instance : j # Current => fed'[j] = fed[j]
      BY <1>1, <1>2 DEF RingTypes, NoRings
  <1>4. RingTypes' /\ NoMixer' /\ Unattached'
      BY <1>1, <1>2, <1>3 DEF RingTypes, NoMixer, Unattached
  <1>5. InputsFed'
      BY <1>1, <1>2, <1>3, Instances DEF InputsFed
  <1> QED
      BY <1>4, <1>5 DEF FInv

LEMMA FFrame ==
  ASSUME FInv, sources' \subseteq sources, UNCHANGED <<created, sinks, registered, rings, inputs, made, fed>>
  PROVE  FInv'
  BY DEF FInv, RingTypes, NoMixer, Unattached, InputsFed

LEMMA FNext == ASSUME SInv, FInv, [Next]_vars PROVE FInv'
  <1>1. /\ MapTypes /\ StepTypes /\ ReportsTyped /\ Filtered /\ Victim /\ InHand /\ Served
      BY DEF SInv
  <1>2. CASE Configure
    <2>1. CASE \E f \in Tag \cup Wild : ConfigureSource(f)
        BY <1>1, <2>1, FInsert DEF ConfigureSource
    <2>2. CASE RegisterSource
      <3>1. victim \in Instance /\ victim \notin registered /\ RegisterTarget(victim) /\ UNCHANGED <<maps, wiring>>
          BY <1>1, <2>2, Instances DEF RegisterSource, Victim
      <3> QED
          BY <1>1, <3>1, FRegister
    <2> QED
        BY <1>2, <2>1, <2>2 DEF Configure
  <1>3. CASE Remove
    <2>1. CASE DisconnectNext
      <3>1. PICK s \in todo : DisconnectRing(victim, s)
          BY <2>1 DEF DisconnectNext
      <3>2. s \in Sink /\ victim \in Instance /\ UNCHANGED <<sources, created, sinks, registered, made>>
          BY <1>1, <2>1, Instances DEF DisconnectNext, Victim, Removal
      <3> QED
          BY <1>1, <3>1, <3>2, FDetach
    <2>2. CASE Unregister
        BY <2>2, FUnregister
    <2>3. CASE (\E i \in Instance : RemoveSource(i)) \/ ListChildren \/ EraseMapping \/ Unmap \/ Extract
      <3>1. sources' \subseteq sources /\ UNCHANGED <<created, sinks, registered, rings, inputs, made, fed>>
          BY <2>3 DEF RemoveSource, ListChildren, EraseMapping, Unmap, Extract
      <3> QED
          BY <3>1, FFrame
    <2> QED
        BY <1>3, <2>1, <2>2, <2>3 DEF Remove
  <1>4. CASE Wire
    <2>1. ASSUME NEW i \in Instance, NEW s \in Sink, Connect(i, s) PROVE FInv'
      <3>1. i \in sources /\ parent[i] = None /\ op = "none" /\ ConnectRing(i, s)
          BY <2>1 DEF Connect, Known, May
      <3>2. i \in registered /\ UNCHANGED <<sources, created, sinks, registered>>
          BY <1>1, <2>1, <3>1 DEF Served, InHand, Connect
      <3> QED
          BY <1>1, <3>1, <3>2, FAttach
    <2>2. ASSUME NEW i \in Instance, NEW s \in Sink, Disconnect(i, s) PROVE FInv'
        BY <1>1, <2>2, FDetach DEF Disconnect
    <2> QED
        BY <1>1, <1>4, <2>1, <2>2, FSinks DEF Wire
  <1>5. CASE Timeshift
    <2>1. CASE SpawnChild
      <3>1. Event.tag \in Tag /\ InsertSource(Event.tag) /\ UNCHANGED <<wiring, targets>>
        <4>1. Event \in Reports
            BY <1>1, <2>1, Handling DEF ReportsTyped, SpawnChild
        <4> QED
            BY <1>1, <2>1, <4>1, ReportElements DEF SpawnChild
      <3> QED
          BY <1>1, <3>1, FInsert
    <2>2. CASE RegisterChild
      <3>1. child \in Instance /\ child \notin registered /\ RegisterTarget(child) /\ UNCHANGED <<maps, wiring>>
          BY <1>1, <2>2, Instances DEF RegisterChild, InHand
      <3> QED
          BY <1>1, <3>1, FRegister
    <2>3. CASE LinkChild
      <3>1. PICK s \in links : ConnectRing(child, s)
          BY <2>3 DEF LinkChild
      <3>2. /\ s \in Sink /\ child \in Instance /\ UNCHANGED <<sources, created, sinks, registered>>
            /\ child \in sources => child \in registered
          BY <1>1, <2>3, Instances DEF LinkChild, StepTypes, InHand, Served
      <3> QED
          BY <1>1, <3>1, <3>2, FAttach
    <2>4. CASE \/ \E p \in Instance, t \in Tag : Meet(p, t)
               \/ EndPass \/ Match \/ SpawnFails \/ ListSinks \/ Linked
      <3>1. sources' \subseteq sources /\ UNCHANGED <<created, sinks, registered, rings, inputs, made, fed>>
          BY <2>4 DEF Meet, EndPass, Match, SpawnFails, ListSinks, Linked
      <3> QED
          BY <3>1, FFrame
    <2> QED
        BY <1>5, <2>1, <2>2, <2>3, <2>4 DEF Timeshift
  <1>6. CASE UNCHANGED vars \/ \E t \in Tag : ResetStream(t)
      BY <1>6, FFrame DEF vars, ResetStream
  <1> QED
      BY <1>2, <1>3, <1>4, <1>5, <1>6 DEF Next

LEMMA FInvariance == Spec => []FInv
  <1>1. FInv /\ SInv /\ SInv' /\ [Next]_vars => FInv'
      BY FNext
  <1> QED
      BY FInit, SInvariance, <1>1, PTL DEF Spec

(* connect_source_sink and its counterparts, called by the caller and by the *)
(* timeshift thread: the ring a mixer reads from is the one the timeshift    *)
(* thread writes to and the one a disconnect will detach.                    *)
THEOREM RingsAgree == Spec => []InputsFed
  <1>1. FInv => InputsFed
      BY DEF FInv
  <1> QED
      BY FInvariance, <1>1, PTL

(* spawn_child_source, unmap_children: the children listed for a wildcard    *)
(* source are live and know their parent.                                    *)
THEOREM ListedChildrenLive == Spec => []MappedIsLive
  <1>1. SInv => MappedIsLive
      BY DEF SInv
  <1> QED
      BY SInvariance, <1>1, PTL

(* configure_source, remove_source: between calls every source is served.    *)
THEOREM EverySourceServed == Spec => []SourcesServed
  <1>1. SInv => SourcesServed
      BY DEF SInv, Served, SourcesServed
  <1> QED
      BY SInvariance, <1>1, PTL
-----------------------------------------------------------------------------
(* The streams.                                                              *)
LEMMA PInit == Init => PInv
  <1> SUFFICES ASSUME Init PROVE PInv
      OBVIOUS
  <1>1. StreamTypes /\ PlayedOnce /\ BoundFirst /\ ChildMatched /\ ChildServed
      BY DEF Init, StreamTypes, PlayedOnce, BoundFirst, ChildMatched, ChildServed
  <1>2. ReportsTrue /\ WildServed /\ Spawned /\ Accounted
      BY DEF Init, ReportsTrue, WildServed, Spawned, Accounted, Reports
  <1> QED
      BY <1>1, <1>2 DEF PInv

(* Steps of a call that change neither the children nor the streams met, and *)
(* do not end the removal of a source.                                       *)
LEMMA PCaller ==
  ASSUME SInv, PInv, UNCHANGED <<maps, registered, bound, matched, ended, thread>>,
         op # "unregister", op' # "unregister", \A p \in Instance : Removing(p) => Removing(p)'
  PROVE  PInv'
  <1>1. /\ StreamTypes /\ PlayedOnce /\ BoundFirst /\ ChildMatched /\ ChildServed /\ ReportsTrue
        /\ WildServed /\ Spawned /\ Accounted /\ MapTypes /\ ReportsTyped
      BY DEF PInv, SInv
  <1>2. StreamTypes' /\ PlayedOnce' /\ BoundFirst' /\ ChildMatched' /\ ChildServed' /\ WildServed'
      BY <1>1 DEF StreamTypes, PlayedOnce, BoundFirst, ChildMatched, ChildServed, WildServed
  <1>3. Reports' = Reports /\ Event' = Event
      BY DEF Reports, Event
  <1>4. ReportsTrue' /\ Accounted'
      BY <1>1, <1>3, Instances DEF ReportsTrue, Accounted, Reported
  <1>5. Spawned'
    <2>1. pcT # "pass" => Event.parent \in Instance
        BY <1>1, Handling, ReportElements DEF ReportsTyped
    <2> QED
        BY <1>1, <1>3, <2>1 DEF Spawned
  <1> QED
      BY <1>1, <1>2, <1>4, <1>5 DEF PInv

LEMMA PConfigureSource == ASSUME SInv, PInv, NEW f \in Tag \cup Wild, ConfigureSource(f) PROVE PInv'
  <1>1. /\ StreamTypes /\ PlayedOnce /\ BoundFirst /\ ChildMatched /\ ChildServed /\ ReportsTrue
        /\ WildServed /\ Spawned /\ Accounted /\ MapTypes /\ ReportsTyped /\ Filtered
        /\ InsertSource(f) /\ op = "none" /\ op' = "register"
        /\ UNCHANGED <<children, parent, targets, thread>>
      BY DEF PInv, SInv, ConfigureSource, May
  <1>2. /\ sources \subseteq sources'
        /\ \A p \in registered : filter'[p] = filter[p]
      BY <1>1, Inserted DEF MapTypes
  <1>3. StreamTypes' /\ PlayedOnce' /\ BoundFirst' /\ ChildMatched' /\ ChildServed' /\ WildServed'
      BY <1>1, <1>2 DEF StreamTypes, PlayedOnce, BoundFirst, ChildMatched, ChildServed, WildServed
  <1>4. Reports' = Reports /\ Event' = Event
      BY <1>1 DEF Reports, Event
  <1>5. ReportsTrue' /\ Accounted' /\ Spawned'
      BY <1>1, <1>2, <1>4 DEF ReportsTrue, Accounted, Reported, Spawned, Removing, Removal
  <1> QED
      BY <1>3, <1>5 DEF PInv

(* A source registered has met nothing, or is a child, which meets nothing.  *)
LEMMA PRegister ==
  ASSUME SInv, PInv, NEW i \in 1 .. created, i \notin registered, RegisterTarget(i),
         \A t \in Tag : children[i][t] = None, \A e \in Reports : e.parent # i,
         UNCHANGED <<maps, events>>,
         filter[i] \in Wild => i \in sources,
         \A p \in registered : Removing(p) => Removing(p)',
         \A p \in registered : op = "unregister" /\ p = Current => op' = "unregister" /\ p = Current',
         pcT' = pcT \/ (pcT = "register" /\ i = child /\ pcT' = "list"), child' = child
  PROVE  PInv'
  <1>1. /\ StreamTypes /\ PlayedOnce /\ BoundFirst /\ ChildMatched /\ ChildServed /\ ReportsTrue
        /\ WildServed /\ Spawned /\ Accounted /\ MapTypes /\ ReportsTyped /\ Filtered
        /\ i \in Instance /\ registered' = registered \cup {i}
      BY Instances DEF PInv, SInv, RegisterTarget
  <1>2. /\ bound' \in [Instance -> Tag \cup {None}] /\ matched' \in [Instance -> SUBSET Tag]
        /\ ended' \in [Instance -> SUBSET Tag]
        /\ \A p \in Instance : p # i => /\ bound'[p] = bound[p] /\ matched'[p] = matched[p]
                                       /\ ended'[p] = ended[p]
        /\ filter[i] \in Wild => bound'[i] = None /\ matched'[i] = {}
    <2>1. filter[i] \notin Wild => filter[i] \in Tag
        BY <1>1 DEF Filtered
    <2> QED
        BY <1>1, <2>1, Numbers DEF RegisterTarget, StreamTypes
  <1>3. registered \subseteq Instance /\ Reports' = Reports /\ Event' = Event
      BY <1>1, Instances DEF Reports, Event
  <1>4. StreamTypes'
      BY <1>2 DEF StreamTypes
  <1>5. PlayedOnce' /\ BoundFirst' /\ ChildMatched'
    <2>1. PlayedOnce' /\ ChildMatched'
        BY <1>1, <1>2, <1>3 DEF PlayedOnce, ChildMatched
    <2>2. BoundFirst'
        BY <1>1, <1>2, <1>3 DEF BoundFirst
    <2> QED
        BY <2>1, <2>2
  <1>6. ChildServed' /\ WildServed'
      BY <1>1 DEF ChildServed, WildServed
  <1>7. ReportsTrue'
      BY <1>1, <1>2, <1>3 DEF ReportsTrue
  <1>8. Spawned'
    <2>1. pcT' \in {"register", "list", "link"} => Event \in Reports
        BY <1>1, Handling DEF ReportsTyped
    <2> QED
        BY <1>1, <1>3, <2>1 DEF Spawned
  <1>9. Accounted'
    <2> SUFFICES ASSUME NEW p \in registered', filter[p] \in Wild, ~Removing(p)',
                        NEW t \in matched'[p] \ ended'[p]
                 PROVE  bound'[p] = t \/ children[p][t] # None \/ Reported(p, t)
        BY <1>3 DEF Accounted, Reported
    <2>1. p # i /\ p \in registered
        BY <1>1, <1>2
    <2> QED
        BY <1>1, <1>2, <1>3, <2>1 DEF Accounted
  <1> QED
      BY <1>4, <1>5, <1>6, <1>7, <1>8, <1>9 DEF PInv

LEMMA PRegisterSource == ASSUME SInv, PInv, RegisterSource PROVE PInv'
  <1>1. /\ op = "register" /\ op' = "none" /\ RegisterTarget(victim)
        /\ UNCHANGED <<maps, wiring, todo, heirs, thread>> /\ MapTypes /\ Victim
      BY DEF RegisterSource, SInv
  <1>2. /\ victim \in 1 .. created /\ victim \in sources /\ victim \notin registered
        /\ \A t \in Tag : children[victim][t] = None
        /\ \A e \in Reports : e.parent # victim
      BY <1>1 DEF Victim, MapTypes
  <1>3. \A p \in registered : ~Removing(p)
      BY <1>1 DEF Removing, Removal
  <1> QED
      BY <1>1, <1>2, <1>3, PRegister

LEMMA PRegisterChild == ASSUME SInv, PInv, RegisterChild PROVE PInv'
  <1>1. /\ pcT = "register" /\ pcT' = "list" /\ RegisterTarget(child)
        /\ UNCHANGED <<maps, wiring, caller, events, child, links>>
        /\ MapTypes /\ ReportsTyped /\ InHand /\ Parents
      BY DEF RegisterChild, SInv
  <1>2. child \in 1 .. created /\ child \notin registered /\ filter[child] \in Tag /\ child \in Instance
      BY <1>1, Instances DEF InHand
  <1>3. /\ \A t \in Tag : children[child][t] = None
        /\ \A e \in Reports : e.parent # child
        /\ filter[child] \notin Wild
      BY <1>1, <1>2, Numbers, ReportElements DEF Parents
  <1>4. /\ \A p \in registered : Removing(p) => Removing(p)'
        /\ \A p \in registered : op = "unregister" /\ p = Current => op' = "unregister" /\ p = Current'
      BY <1>1, SameCurrent DEF Removing
  <1> QED
      BY <1>1, <1>2, <1>3, <1>4, PRegister
(* Children are forgotten only of the source that is being removed.          *)
LEMMA PForget ==
  ASSUME SInv, PInv, op \in Removal \ {"unregister"}, op' \in Removal \ {"unregister"},
         \A p \in Instance, t \in Tag : children'[p][t] \in {children[p][t], None},
         \A p \in Instance : p # victim => children'[p] = children[p],
         UNCHANGED <<sources, filter, created, wiring, targets, victim, thread>>
  PROVE  PInv'
  <1>1. /\ StreamTypes /\ PlayedOnce /\ BoundFirst /\ ChildMatched /\ ChildServed /\ ReportsTrue
        /\ WildServed /\ Spawned /\ Accounted /\ MapTypes /\ ReportsTyped
        /\ registered \subseteq Instance
      BY Instances DEF PInv, SInv
  <1>2. StreamTypes' /\ PlayedOnce' /\ BoundFirst' /\ ChildMatched' /\ ChildServed' /\ WildServed'
      BY <1>1 DEF StreamTypes, PlayedOnce, BoundFirst, ChildMatched, ChildServed, WildServed
  <1>3. /\ Reports' = Reports /\ Event' = Event
        /\ \A p \in Instance : Removing(p)' <=> p = victim
        /\ \A p \in Instance : Removing(p) <=> p = victim
      BY DEF Reports, Event, Removing
  <1>4. ReportsTrue' /\ Accounted'
      BY <1>1, <1>3 DEF ReportsTrue, Accounted, Reported
  <1>5. Spawned'
    <2>1. Event.parent \in registered => Event.parent \in Instance
        BY <1>1
    <2> QED
        BY <1>1, <1>3, <2>1 DEF Spawned
  <1> QED
      BY <1>2, <1>4, <1>5 DEF PInv

LEMMA PEraseMapping == ASSUME SInv, PInv, EraseMapping PROVE PInv'
  <1>1. /\ op = "unmap" /\ MapTypes
        /\ children' = [children EXCEPT ![victim] = [t \in Tag |-> None]]
        /\ UNCHANGED <<sources, filter, created, parent, wiring, targets, op, victim, todo, thread>>
      BY DEF EraseMapping, SInv
  <1>2. /\ \A p \in Instance, t \in Tag : children'[p][t] \in {children[p][t], None}
        /\ \A p \in Instance : p # victim => children'[p] = children[p]
      BY <1>1 DEF MapTypes
  <1> QED
      BY <1>1, <1>2, PForget DEF Removal

LEMMA PUnmap == ASSUME SInv, PInv, Unmap PROVE PInv'
  <1>1. /\ op = "unmap" /\ op' = "extract" /\ MapTypes
        /\ children' = IF parent[Current] = None THEN children
                       ELSE [children EXCEPT ![parent[Current]] = Unmapped(parent[Current], Current)]
        /\ UNCHANGED <<sources, filter, created, wiring, targets, victim, todo, thread>>
      BY DEF Unmap, SInv
  <1>2. parent[Current] \in {victim, None}
      BY <1>1, CurrentTyped DEF Removal
  <1>3. /\ \A p \in Instance, t \in Tag : children'[p][t] \in {children[p][t], None}
        /\ \A p \in Instance : p # victim => children'[p] = children[p]
      BY <1>1, <1>2 DEF MapTypes, Unmapped
  <1> QED
      BY <1>1, <1>3, PForget DEF Removal

LEMMA PExtract == ASSUME SInv, PInv, Extract PROVE PInv'
  <1>1. /\ StreamTypes /\ PlayedOnce /\ BoundFirst /\ ChildMatched /\ ChildServed /\ ReportsTrue
        /\ WildServed /\ Spawned /\ Accounted /\ op = "extract" /\ op' = "unregister"
        /\ sources' = sources \ {Current}
        /\ UNCHANGED <<filter, created, children, parent, wiring, targets, victim, todo, heirs, thread>>
      BY DEF PInv, Extract
  <1>2. /\ Reports' = Reports /\ Event' = Event /\ Current' = Current
        /\ \A p \in registered : Removing(p)' <=> Removing(p)
        /\ Removing(Event.parent)' <=> Removing(Event.parent)
      BY <1>1, SameCurrent DEF Reports, Event, Removing, Removal
  <1>3. StreamTypes' /\ PlayedOnce' /\ BoundFirst' /\ ChildMatched' /\ ChildServed'
      BY <1>1 DEF StreamTypes, PlayedOnce, BoundFirst, ChildMatched, ChildServed
  <1>4. ReportsTrue' /\ Accounted'
      BY <1>1, <1>2 DEF ReportsTrue, Accounted, Reported
  <1>5. WildServed'
      BY <1>1, <1>2 DEF WildServed
  <1>6. Spawned'
      BY <1>1, <1>2 DEF Spawned
  <1> QED
      BY <1>3, <1>4, <1>5, <1>6 DEF PInv

(* What is unregistered is nobody's child any more.                          *)
LEMMA PUnregister == ASSUME SInv, PInv, Unregister PROVE PInv'
  <1>1. /\ StreamTypes /\ PlayedOnce /\ BoundFirst /\ ChildMatched /\ ChildServed /\ ReportsTrue
        /\ WildServed /\ Spawned /\ Accounted
        /\ MapTypes /\ ReportsTyped /\ MappedIsLive /\ Victim /\ op = "unregister"
        /\ registered' = registered \ {Current}
        /\ bound' = [bound EXCEPT ![Current] = None] /\ matched' = [matched EXCEPT ![Current] = {}]
        /\ ended' = [ended EXCEPT ![Current] = {}]
        /\ op' = IF todo = {} THEN "none" ELSE "unmap"
        /\ victim' = IF todo = {} THEN None ELSE victim
        /\ UNCHANGED <<maps, wiring, heirs, thread>>
      BY DEF PInv, SInv, Unregister
  <1>2. /\ Current \in Instance /\ parent[Current] = None /\ Current \notin sources
        /\ todo = {} => Current = victim
      BY <1>1, CurrentTyped, CurrentIs DEF Victim, Removal
  <1>3. /\ bound' \in [Instance -> Tag \cup {None}] /\ matched' \in [Instance -> SUBSET Tag]
        /\ ended' \in [Instance -> SUBSET Tag]
        /\ \A p \in Instance : p # Current => /\ bound'[p] = bound[p] /\ matched'[p] = matched[p]
                                             /\ ended'[p] = ended[p]
        /\ registered \subseteq Instance
      BY <1>1, <1>2, Instances DEF StreamTypes
  <1>4. /\ Reports' = Reports /\ Event' = Event
        /\ \A p \in registered' : Removing(p) => Removing(p)'
      BY <1>1, <1>2 DEF Reports, Event, Removing, Removal
  <1>5. StreamTypes' /\ PlayedOnce' /\ BoundFirst' /\ ChildMatched'
      BY <1>1, <1>3 DEF StreamTypes, PlayedOnce, BoundFirst, ChildMatched
  <1>6. ChildServed'
    <2> SUFFICES ASSUME NEW p \in Instance, NEW t \in Tag, children[p][t] # None
                 PROVE  children[p][t] # Current
        BY <1>1 DEF ChildServed
    <2> QED
        BY <1>1, <1>2 DEF MappedIsLive
  <1>7. ReportsTrue' /\ Accounted'
      BY <1>1, <1>3, <1>4 DEF ReportsTrue, Accounted, Reported
  <1>8. WildServed' /\ Spawned'
      BY <1>1, <1>4 DEF WildServed, Spawned
  <1> QED
      BY <1>5, <1>6, <1>7, <1>8 DEF PInv

-----------------------------------------------------------------------------
(* The first stream met is reported as the source's own, every other one as  *)
(* one to be played by a child.                                              *)
LEMMA PMeet == ASSUME SInv, PInv, NEW p \in Instance, NEW t \in Tag, Meet(p, t) PROVE PInv'
  <1> DEFINE e == [parent |-> p, tag |-> t, primary |-> bound[p] = None]
  <1>1. /\ StreamTypes /\ PlayedOnce /\ BoundFirst /\ ChildMatched /\ ChildServed /\ ReportsTrue
        /\ WildServed /\ Spawned /\ Accounted /\ MapTypes /\ ReportsTyped
        /\ pcT = "pass" /\ p \in registered /\ filter[p] \in Wild
        /\ bound[p] = None \/ (bound[p] # t /\ t \notin matched[p])
        /\ matched' = [matched EXCEPT ![p] = @ \cup {t}]
        /\ bound' = [bound EXCEPT ![p] = IF @ = None THEN t ELSE @]
        /\ events' = Append(events, e)
        /\ UNCHANGED <<maps, wiring, registered, fed, ended, caller, pcT, child, links>>
      BY DEF PInv, SInv, Meet, Meets
  <1>2. e \in Report /\ e.parent = p /\ e.tag = t /\ e.primary = (bound[p] = None)
      BY DEF Report
  <1> HIDE DEF e
  <1>3. Reports' = Reports \cup {e}
      BY <1>1, <1>2, Reporting DEF ReportsTyped, Reports
  <1>4. /\ bound' \in [Instance -> Tag \cup {None}] /\ matched' \in [Instance -> SUBSET Tag]
        /\ \A q \in Instance : q # p => bound'[q] = bound[q] /\ matched'[q] = matched[q]
        /\ matched'[p] = matched[p] \cup {t}
        /\ bound'[p] = IF bound[p] = None THEN t ELSE bound[p]
        /\ t # None /\ registered \subseteq Instance
      BY <1>1, Numbers, Instances DEF StreamTypes
  <1>5. StreamTypes'
      BY <1>1, <1>4 DEF StreamTypes
  <1>6. PlayedOnce'
    <2> SUFFICES ASSUME NEW q \in registered, NEW u \in Tag, bound'[q] = u, ended[q] = {}
                 PROVE  children[q][u] = None
        BY <1>1 DEF PlayedOnce
    <2>1. CASE q # p \/ bound[p] # None
        BY <1>1, <1>4, <2>1 DEF PlayedOnce
    <2>2. CASE q = p /\ bound[p] = None
        BY <1>1, <1>4, <2>2 DEF BoundFirst, ChildMatched
    <2> QED
        BY <2>1, <2>2
  <1>7. BoundFirst' /\ ChildMatched' /\ ChildServed'
      BY <1>1, <1>4 DEF BoundFirst, ChildMatched, ChildServed
  <1>8. ReportsTrue'
    <2> SUFFICES ASSUME NEW d \in Reports', d.parent \in registered
                 PROVE  /\ d.tag \in matched'[d.parent]
                        /\ ~d.primary => bound'[d.parent] # d.tag
                        /\ d.primary => bound'[d.parent] = d.tag \/ d.tag \in ended[d.parent]
                        /\ bound'[d.parent] # None
        BY <1>1 DEF ReportsTrue
    <2>1. CASE d = e
      <3>1. p \in Instance /\ d.parent = p /\ d.tag = t
          BY <1>2, <1>4, <2>1
      <3>2. CASE bound[p] = None
          BY <1>2, <1>4, <2>1, <3>1, <3>2
      <3>3. CASE bound[p] # None
          BY <1>1, <1>2, <1>4, <2>1, <3>1, <3>3
      <3> QED
          BY <3>2, <3>3
    <2>2. CASE d \in Reports
      <3>1. /\ d.tag \in matched[d.parent]
            /\ ~d.primary => bound[d.parent] # d.tag
            /\ d.primary => bound[d.parent] = d.tag \/ d.tag \in ended[d.parent]
            /\ bound[d.parent] # None
          BY <1>1, <2>2 DEF ReportsTrue
      <3>2. bound'[d.parent] = bound[d.parent] /\ d.tag \in matched'[d.parent]
          BY <1>1, <1>4, <3>1
      <3> QED
          BY <3>1, <3>2, Zenon
    <2> QED
        BY <1>3, <2>1, <2>2
  <1>9. WildServed'
      BY <1>1, SameCurrent DEF WildServed
  <1>10. Spawned'
      BY <1>1 DEF Spawned
  <1>11. Accounted'
    <2> SUFFICES ASSUME NEW q \in registered, filter[q] \in Wild, ~Removing(q), NEW u \in matched'[q] \ ended[q]
                 PROVE  bound'[q] = u \/ children[q][u] # None \/ Reported(q, u)'
        BY <1>1 DEF Accounted, Removing
    <2>1. CASE q = p /\ u = t
        BY <1>2, <1>3, <2>1 DEF Reported
    <2>2. CASE u \in matched[q]
      <3>1. bound[q] = u \/ children[q][u] # None \/ Reported(q, u)
          BY <1>1, <2>2 DEF Accounted
      <3>2. bound[q] = u => bound'[q] = u
          BY <1>1, <1>4, <2>2, Numbers DEF StreamTypes
      <3> QED
          BY <1>3, <3>1, <3>2 DEF Reported
    <2> QED
        BY <1>4, <2>1, <2>2
  <1> QED
      BY <1>5, <1>6, <1>7, <1>8, <1>9, <1>10, <1>11 DEF PInv
(* A report is done with only when its stream is played, or when its source  *)
(* is being removed.                                                         *)
LEMMA PNextEvent ==
  ASSUME SInv, PInv, pcT \in {"match", "spawn", "link"}, NextEvent, UNCHANGED <<maps, targets, caller>>,
         Event.parent \in registered /\ ~Removing(Event.parent) =>
           \/ bound[Event.parent] = Event.tag \/ children[Event.parent][Event.tag] # None
           \/ Event.tag \in ended[Event.parent]
  PROVE  PInv'
  <1>1. /\ StreamTypes /\ PlayedOnce /\ BoundFirst /\ ChildMatched /\ ChildServed /\ ReportsTrue
        /\ WildServed /\ Spawned /\ Accounted
        /\ Current' = Current
      BY SameCurrent DEF PInv
  <1>2. /\ Reports = Reports' \cup {Event} /\ pcT' \in {"pass", "match"}
        /\ pcT' = "pass" => Reports' = {}
    <2>1. pcT' = "pass" => events' = <<>>
        BY NextReports
    <2>2. events' = <<>> => Reports' = {}
        BY DEF Reports
    <2> QED
        BY <2>1, <2>2, NextReports
  <1>3. StreamTypes' /\ PlayedOnce' /\ BoundFirst' /\ ChildMatched' /\ ChildServed' /\ WildServed'
      BY <1>1 DEF StreamTypes, PlayedOnce, BoundFirst, ChildMatched, ChildServed, WildServed
  <1>4. ReportsTrue' /\ Spawned'
      BY <1>1, <1>2 DEF ReportsTrue, Spawned
  <1>5. Accounted'
    <2> SUFFICES ASSUME NEW p \in registered, filter[p] \in Wild, ~Removing(p),
                        NEW t \in matched[p] \ ended[p]
                 PROVE  bound[p] = t \/ children[p][t] # None \/ Reported(p, t)'
        BY <1>1 DEF Accounted, Removing
    <2>1. bound[p] = t \/ children[p][t] # None \/ Reported(p, t)
        BY <1>1 DEF Accounted
    <2>2. ASSUME NEW e \in Reports, e.parent = p, e.tag = t
          PROVE  bound[p] = t \/ children[p][t] # None \/ e \in Reports'
        BY <1>2, <2>2
    <2> QED
        BY <2>1, <2>2 DEF Reported
  <1> QED
      BY <1>3, <1>4, <1>5 DEF PInv

LEMMA PThread ==
  ASSUME SInv, PInv, EndPass \/ Match \/ SpawnFails \/ ListSinks \/ LinkChild \/ Linked
  PROVE  PInv'
  <1>1. /\ StreamTypes /\ PlayedOnce /\ BoundFirst /\ ChildMatched /\ ChildServed /\ ReportsTrue
        /\ WildServed /\ Spawned /\ Accounted /\ MapTypes /\ ReportsTyped /\ Victim
      BY DEF PInv, SInv
  <1>2. CASE EndPass \/ ListSinks \/ LinkChild \/ (Match /\ ~Ignore)
    <2>1. /\ UNCHANGED <<maps, registered, bound, matched, ended, caller, events, child>>
          /\ pcT' \in {"match", "spawn", "link"} /\ pcT # "register"
          /\ pcT' = "link" => pcT \in {"list", "link"}
        BY <1>2 DEF EndPass, Match, ListSinks, LinkChild
    <2>2. Reports' = Reports /\ Event' = Event /\ Current' = Current
        BY <2>1, SameCurrent DEF Reports, Event
    <2>3. StreamTypes' /\ PlayedOnce' /\ BoundFirst' /\ ChildMatched' /\ ChildServed' /\ WildServed'
        BY <1>1, <2>1, <2>2 DEF StreamTypes, PlayedOnce, BoundFirst, ChildMatched, ChildServed, WildServed
    <2>4. ReportsTrue' /\ Spawned' /\ Accounted'
        BY <1>1, <2>1, <2>2 DEF ReportsTrue, Spawned, Accounted, Reported, Removing
    <2> QED
        BY <2>3, <2>4 DEF PInv
  <1>3. CASE SpawnFails \/ Linked \/ (Match /\ Ignore)
    <2>1. /\ UNCHANGED <<maps, targets, caller>> /\ NextEvent
          /\ pcT \in {"match", "spawn", "link"}
        BY <1>3 DEF SpawnFails, Linked, Match
    <2>2. Event \in Reports /\ Event.parent \in Instance /\ filter[Event.parent] \in Wild
        BY <1>1, <2>1, Handling, ReportElements DEF ReportsTyped
    <2>3. Event.parent \in registered /\ ~Removing(Event.parent) =>
            \/ bound[Event.parent] = Event.tag \/ children[Event.parent][Event.tag] # None
            \/ Event.tag \in ended[Event.parent]
      <3>1. CASE Match /\ Ignore
          BY <1>1, <2>2, <3>1 DEF ReportsTrue, Ignore
      <3>2. CASE SpawnFails
        <4> SUFFICES ASSUME Event.parent \in registered PROVE Removing(Event.parent)
            OBVIOUS
        <4>1. op = "unregister" /\ Event.parent = Current
            BY <1>1, <2>2, <3>2 DEF WildServed, SpawnFails
        <4>2. Current \notin todo
            BY <2>2, <4>1, CurrentTyped, Numbers DEF Removal
        <4> QED
            BY <4>1, <4>2, CurrentIs DEF Removing, Removal
      <3>3. CASE Linked
          BY <1>1, <3>3 DEF Spawned, Linked
      <3> QED
          BY <1>3, <3>1, <3>2, <3>3
    <2> QED
        BY <2>1, <2>3, PNextEvent
  <1> QED
      BY <1>2, <1>3

(* A child is spawned for a stream that its source has met and is not bound  *)
(* to.                                                                       *)
LEMMA PSpawnChild == ASSUME SInv, PInv, SpawnChild PROVE PInv'
  <1> DEFINE p == Event.parent
             t == Event.tag
  <1>1. /\ StreamTypes /\ PlayedOnce /\ BoundFirst /\ ChildMatched /\ ChildServed /\ ReportsTrue
        /\ WildServed /\ Spawned /\ Accounted
        /\ MapTypes /\ ReportsTyped /\ Filtered /\ InsertSource(t)
        /\ pcT = "spawn" /\ pcT' = "register" /\ child' = created + 1
        /\ children' = [children EXCEPT ![p][t] = created + 1]
        /\ UNCHANGED <<wiring, targets, caller, events, links>>
      BY DEF PInv, SInv, SpawnChild
  <1>2. /\ p \in Instance /\ t \in Tag /\ Event \in Reports /\ ~Event.primary
        /\ p \in registered => t \in matched[p] /\ bound[p] # t
    <2>1. Event \in Reports
        BY <1>1, Handling DEF ReportsTyped
    <2>2. p \in Instance /\ t \in Tag /\ ~Event.primary
        BY <1>1, <2>1, ReportElements DEF ReportsTyped
    <2> QED
        BY <1>1, <2>1, <2>2 DEF ReportsTrue
  <1>3. Reports' = Reports /\ Event' = Event /\ Current' = Current
      BY <1>1, SameCurrent DEF Reports, Event
  <1> HIDE DEF p, t
  <1>4. /\ created + 1 \in Instance /\ created + 1 # None /\ sources \subseteq sources'
        /\ \A i \in registered : filter'[i] = filter[i]
        /\ registered \subseteq Instance
      BY <1>1, <1>2, Inserted, Instances DEF MapTypes
  <1>5. /\ children'[p][t] = created + 1
        /\ \A q \in Instance, u \in Tag : q # p \/ u # t => children'[q][u] = children[q][u]
      BY <1>1, <1>2, <1>4 DEF MapTypes
  <1>6. StreamTypes' /\ BoundFirst' /\ WildServed'
      BY <1>1, <1>3, <1>4 DEF StreamTypes, BoundFirst, WildServed
  <1>7. PlayedOnce' /\ ChildMatched'
      BY <1>1, <1>2, <1>4, <1>5 DEF PlayedOnce, ChildMatched
  <1>8. ChildServed'
      BY <1>1, <1>5 DEF ChildServed
  <1>9. ReportsTrue'
      BY <1>1, <1>3 DEF ReportsTrue
  <1>10. Spawned'
      BY <1>3, <1>4, <1>5, Zenon DEF Spawned, p, t
  <1>11. Accounted'
    <2> SUFFICES ASSUME NEW q \in registered, filter[q] \in Wild, ~Removing(q),
                        NEW u \in matched[q] \ ended[q]
                 PROVE  bound[q] = u \/ children'[q][u] # None \/ Reported(q, u)
        BY <1>1, <1>3, <1>4 DEF Accounted, Removing, Reported
    <2>1. q \in Instance /\ u \in Tag
        BY <1>1, <1>4 DEF StreamTypes
    <2>2. bound[q] = u \/ children[q][u] # None \/ Reported(q, u)
        BY <1>1 DEF Accounted
    <2> QED
        BY <1>4, <1>5, <2>1, <2>2
  <1> QED
      BY <1>6, <1>7, <1>8, <1>9, <1>10, <1>11 DEF PInv

LEMMA PFrame ==
  ASSUME SInv, PInv, UNCHANGED <<maps, registered, bound, matched, ended, caller, thread>>
  PROVE  PInv'
  <1>1. /\ StreamTypes /\ PlayedOnce /\ BoundFirst /\ ChildMatched /\ ChildServed /\ ReportsTrue
        /\ WildServed /\ Spawned /\ Accounted
        /\ Reports' = Reports /\ Event' = Event /\ Current' = Current
      BY SameCurrent DEF PInv, Reports, Event
  <1>2. StreamTypes' /\ PlayedOnce' /\ BoundFirst' /\ ChildMatched' /\ ChildServed' /\ WildServed'
      BY <1>1 DEF StreamTypes, PlayedOnce, BoundFirst, ChildMatched, ChildServed, WildServed
  <1>3. ReportsTrue' /\ Spawned' /\ Accounted'
      BY <1>1 DEF ReportsTrue, Spawned, Accounted, Reported, Removing
  <1> QED
      BY <1>2, <1>3 DEF PInv

(* A reset frees the sources that were bound to the stream, between two      *)
(* passes: no report of theirs is still to be added to.                      *)
LEMMA PReset == ASSUME SInv, PInv, NEW t \in Tag, ResetStream(t) PROVE PInv'
  <1> DEFINE freed == {i \in registered : filter[i] \in Wild /\ bound[i] = t}
  <1>1. /\ StreamTypes /\ PlayedOnce /\ BoundFirst /\ ChildMatched /\ ChildServed /\ ReportsTrue
        /\ WildServed /\ Spawned /\ Accounted /\ MapTypes /\ DataFree
        /\ bound' = [i \in Instance |-> IF i \in freed THEN None ELSE bound[i]]
        /\ ended' = [i \in Instance |-> IF i \in freed THEN ended[i] \cup {t} ELSE ended[i]]
        /\ UNCHANGED <<maps, wiring, registered, fed, matched, caller, thread>>
      BY DEF PInv, SInv, ResetStream
  <1>2. \A i \in registered : /\ i \in Instance /\ ended[i] \subseteq ended'[i]
                              /\ i \notin freed => bound'[i] = bound[i] /\ ended'[i] = ended[i]
                              /\ i \in freed => bound[i] = t /\ bound'[i] = None /\ t \in ended'[i]
      BY <1>1, Instances
  <1>3. Reports' = Reports /\ Event' = Event /\ Current' = Current /\ (pcT = "pass" => Reports = {})
      BY <1>1, SameCurrent DEF Reports, Event, DataFree
  <1>4. StreamTypes'
      BY <1>1 DEF StreamTypes
  <1> HIDE DEF freed
  <1>5. PlayedOnce' /\ BoundFirst'
    <2>1. ASSUME NEW i \in registered, NEW u \in Tag, bound'[i] = u, ended'[i] = {}
          PROVE  children[i][u] = None
      <3>1. bound[i] = u /\ ended[i] = {}
          BY <1>2, <2>1
      <3> QED
          BY <1>1, <3>1 DEF PlayedOnce
    <2>2. ASSUME NEW i \in registered, filter[i] \in Wild
          PROVE  IF bound'[i] = None THEN matched[i] = {} \/ ended'[i] # {} ELSE bound'[i] \in matched[i]
      <3>1. IF bound[i] = None THEN matched[i] = {} \/ ended[i] # {} ELSE bound[i] \in matched[i]
          BY <1>1, <2>2 DEF BoundFirst
      <3> QED
          BY <1>2, <3>1
    <2> QED
        BY <1>1, <2>1, <2>2 DEF PlayedOnce, BoundFirst
  <1>6. ChildMatched' /\ ChildServed' /\ WildServed' /\ Spawned'
      BY <1>1, <1>3 DEF ChildMatched, ChildServed, WildServed, Spawned, Removing
  <1>7. ReportsTrue'
    <2> SUFFICES ASSUME NEW e \in Reports, e.parent \in registered
                 PROVE  /\ e.tag \in matched[e.parent]
                        /\ ~e.primary => bound'[e.parent] # e.tag
                        /\ e.primary => bound'[e.parent] = e.tag \/ e.tag \in ended'[e.parent]
                        /\ pcT # "pass"
        BY <1>1, <1>3 DEF ReportsTrue
    <2>1. /\ e.tag \in matched[e.parent]
          /\ ~e.primary => bound[e.parent] # e.tag
          /\ e.primary => bound[e.parent] = e.tag \/ e.tag \in ended[e.parent]
        BY <1>1 DEF ReportsTrue
    <2>2. e.tag \in Tag
        BY <1>1, ReportElements DEF SInv
    <2> QED
        BY <1>2, <1>3, <2>1, <2>2, Numbers
  <1>8. Accounted'
    <2> SUFFICES ASSUME NEW i \in registered, filter[i] \in Wild, ~Removing(i),
                        NEW u \in matched[i] \ ended'[i]
                 PROVE  bound'[i] = u \/ children[i][u] # None \/ Reported(i, u)
        BY <1>1, <1>3 DEF Accounted, Removing, Reported
    <2>1. u \notin ended[i] /\ (bound[i] = u => bound'[i] = u)
        BY <1>2
    <2>2. bound[i] = u \/ children[i][u] # None \/ Reported(i, u)
        BY <1>1, <2>1 DEF Accounted
    <2> QED
        BY <2>1, <2>2
  <1> QED
      BY <1>4, <1>5, <1>6, <1>7, <1>8 DEF PInv

LEMMA PNext == ASSUME SInv, PInv, [Next]_vars PROVE PInv'
  <1>1. CASE Configure
      BY <1>1, PConfigureSource, PRegisterSource DEF Configure
  <1>2. CASE Remove
    <2>1. CASE (\E i \in Instance : RemoveSource(i)) \/ ListChildren
      <3>1. /\ UNCHANGED <<maps, targets, thread>> /\ op # "unregister" /\ op' # "unregister"
            /\ \A p \in Instance : Removing(p) => Removing(p)'
          BY <2>1 DEF RemoveSource, ListChildren, May, Removing, Removal
      <3> QED
          BY <3>1, PCaller
    <2>2. CASE DisconnectNext
      <3>1. /\ UNCHANGED <<maps, registered, bound, matched, ended, op, victim, thread>> /\ op = "disconnect"
          BY <2>2 DEF DisconnectNext
      <3>2. \A p \in Instance : Removing(p) => Removing(p)'
          BY <3>1 DEF Removing
      <3> QED
          BY <3>1, <3>2, PCaller
    <2> QED
        BY <1>2, <2>1, <2>2, PEraseMapping, PUnmap, PExtract, PUnregister DEF Remove
  <1>3. CASE Wire
      BY <1>3, PFrame DEF Wire, Connect, Disconnect, AddSink, RemoveSink
  <1>4. CASE Timeshift
      BY <1>4, PMeet, PThread, PSpawnChild, PRegisterChild DEF Timeshift
  <1>5. CASE UNCHANGED vars
      BY <1>5, PFrame DEF vars
  <1>6. CASE \E t \in Tag : ResetStream(t)
      BY <1>6, PReset
  <1> QED
      BY <1>1, <1>2, <1>3, <1>4, <1>5, <1>6 DEF Next

LEMMA PInvariance == Spec => []PInv
  <1>1. PInv /\ SInv /\ SInv' /\ [Next]_vars => PInv'
      BY PNext
  <1> QED
      BY PInit, SInvariance, <1>1, PTL DEF Spec

(* match_wildcard, handle_wildcard_match: a stream is not played both by the *)
(* wildcard source that is bound to it and by a child, as long as no stream  *)
(* the source was bound to has been reset.                                   *)
THEOREM NoStreamTwice == Spec => []PlayedOnce
  <1>1. PInv => PlayedOnce
      BY DEF PInv
  <1> QED
      BY PInvariance, <1>1, PTL

(* No stream is forgotten, whatever sources the caller configures and        *)
(* removes, and whatever streams are reset, while the reports of a pass are  *)
(* handled; but a stream reset while the source itself played it may be.     *)
THEOREM NoStreamForgotten == Spec => []StreamPlayed
  <1>1. PInv /\ SInv => StreamPlayed
    <2> SUFFICES ASSUME PInv, SInv, pcT = "pass", events = <<>>, op = "none",
                        NEW p \in registered, filter[p] \in Wild, NEW t \in matched[p] \ ended[p]
                 PROVE  bound[p] = t \/ children[p][t] \in registered
        BY DEF StreamPlayed
    <2>1. ~Removing(p) /\ ~Reported(p, t) /\ p \in Instance /\ t \in Tag
        BY Instances DEF Removing, Removal, Reported, Reports, SInv, PInv, StreamTypes
    <2>2. bound[p] = t \/ children[p][t] # None
        BY <2>1 DEF PInv, Accounted
    <2> QED
        BY <2>1, <2>2 DEF PInv, ChildServed
  <1> QED
      BY PInvariance, SInvariance, <1>1, PTL

(* The values every variable may have.                                       *)
THEOREM TypesKept == Spec => []TypeOK
  <1>1. SInv /\ FInv /\ PInv => TypeOK
      BY DEF SInv, FInv, PInv, MapTypes, StepTypes, RingTypes, StreamTypes, TypeOK
  <1> QED
      BY SInvariance, FInvariance, PInvariance, <1>1, PTL
=============================================================================
