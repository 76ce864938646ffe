---------------------------- MODULE EventBusProofs ----------------------------
(***************************************************************************)
(* Proofs about EventBus, for any number of threads, queues, names, actions  *)
(* and events.                                                              *)
(***************************************************************************)
EXTENDS EventBus, FiniteSetTheorems, SequenceTheorems, TLAPS

-----------------------------------------------------------------------------
(* What is counted in a log, and how a push changes it.                       *)
Count(s, e) == Cardinality({k \in DOMAIN s : s[k] = e})

LEMMA CountOfAppended ==
    ASSUME NEW S, NEW s \in Seq(S), NEW e \in S, NEW f
    PROVE  /\ Count(s, f) \in Nat
           /\ Count(Append(s, e), f) = IF e = f THEN Count(s, f) + 1 ELSE Count(s, f)
  <1> DEFINE old == {k \in DOMAIN s : s[k] = f}
             new == {k \in DOMAIN Append(s, e) : Append(s, e)[k] = f}
             n == Len(s) + 1
  <1>1. /\ Len(s) \in Nat /\ DOMAIN s = 1..Len(s) /\ DOMAIN Append(s, e) = 1..n
        /\ \A k \in 1..Len(s) : Append(s, e)[k] = s[k]
        /\ Append(s, e)[n] = e
    BY AppendProperties, LenProperties
  <1>2. IsFiniteSet(old) /\ Cardinality(old) \in Nat
    <2>1. IsFiniteSet(1..Len(s)) /\ old \subseteq 1..Len(s)
      BY <1>1, FS_Interval
    <2> QED
      BY <2>1, FS_Subset, FS_CardinalityType
  <1>3. new = (IF e = f THEN old \cup {n} ELSE old) /\ n \notin old
    BY <1>1
  <1>4. Cardinality(old \cup {n}) = Cardinality(old) + 1
    BY <1>2, <1>3, FS_AddElement
  <1>5. Count(s, f) = Cardinality(old) /\ Count(Append(s, e), f) = Cardinality(new)
    BY DEF Count
  <1> HIDE DEF old, new, n
  <1> QED
    BY <1>2, <1>3, <1>4, <1>5

(* An event that nobody pushed is in no log.                                  *)
LEMMA CountOfAbsent ==
    ASSUME NEW s, NEW e, \A k \in DOMAIN s : s[k] # e
    PROVE  Count(s, e) = 0
  <1>1. {k \in DOMAIN s : s[k] = e} = {}
    OBVIOUS
  <1> QED
    BY <1>1, FS_EmptySet DEF Count

-----------------------------------------------------------------------------
BusTypes ==
    /\ TypeOK
    /\ log \in [Queue -> Seq(Event)]
    /\ DOMAIN m_actions # {} => Name # {}

(* One thread at a time delivers, and its event is the last one; what is in   *)
(* a log was pushed in the order of the calls.                               *)
OneDelivers ==
    \A t \in Thread :
        /\ op[t].kind = "deliver" <=> m_mutex = t
        /\ op[t].kind = "deliver" => op[t].id = events

LogsAreSorted ==
    \A q \in Queue :
        /\ \A k \in DOMAIN log[q] : log[q][k].id <= events
        /\ \A j, k \in DOMAIN log[q] : j <= k => log[q][j].id <= log[q][k].id

(* Half of a delivery: the subscriptions that it found and has not finished   *)
(* are as it found them, without the event; those that it has finished have  *)
(* it once, or were erased and their queue is gone.                          *)
HalfDelivered(o, actions, logs, owners) ==
    /\ o.todo \subseteq DOMAIN o.found
    /\ o.held # NoQueue =>
           o.name \in DOMAIN o.found \ o.todo /\ o.held = o.found[o.name]
    /\ \A n \in DOMAIN o.found :
           LET queue == o.found[n]
               copies == Count(logs[queue], [id |-> o.id, action |-> o.action, name |-> n])
               subscribed == o.action \in DOMAIN actions /\ n \in DOMAIN actions[o.action]
           IN  /\ subscribed => actions[o.action][n] = queue
               /\ IF n \in o.todo \/ (o.held # NoQueue /\ n = o.name)
                    THEN subscribed /\ copies = 0
                    ELSE IF subscribed THEN copies = 1 ELSE copies = 0 /\ queue \notin owners

DeliveriesAreSound ==
    \A t \in Thread :
        op[t].kind = "deliver" => HalfDelivered(op[t], m_actions, log, owned)

BusInv == BusTypes /\ OneDelivers /\ LogsAreSorted /\ DeliveriesAreSound

LEMMA BusInit == Init => BusInv
  BY NamesDistinct, MaxEventsIsNat DEF Init, BusInv, BusTypes, TypeOK, OneDelivers,
      LogsAreSorted, DeliveriesAreSound, Op, NoOp

LEMMA OpsByKind ==
    ASSUME BusTypes, NEW t \in Thread
    PROVE  /\ NoOp.kind = "none"
           /\ op[t].kind = "deliver" => op[t] \in Delivery
           /\ op[t].kind = "subscribe" =>
                  op[t].action \in Action /\ op[t].name \in Name /\ op[t].queue \in Queue
  BY DEF BusTypes, TypeOK, Op, NoOp, Delivery

LEMMA DeliveryTypes ==
    ASSUME NEW o \in Delivery
    PROVE  /\ o.id \in 1..MaxEvents /\ o.action \in Action /\ o.name \in Name
           /\ o.todo \subseteq Name /\ o.held \in Queue \cup {NoQueue}
           /\ DOMAIN o.found \subseteq Name /\ \A n \in DOMAIN o.found : o.found[n] \in Queue
           /\ \A n \in Name : [id |-> o.id, action |-> o.action, name |-> n] \in Event
  BY DEF Delivery, Event

(* Without a delivery under way, the calls that deliver nothing.              *)
LEMMA OtherCalls ==
    ASSUME BusInv, BusTypes', NEW t \in Thread, NEW o \in Op,
           op[t].kind # "deliver", o.kind # "deliver",
           op' = [op EXCEPT ![t] = o],
           m_mutex = NoThread \/ UNCHANGED m_actions,
           UNCHANGED <<m_mutex, owned, log, events>>
    PROVE  BusInv'
  <1>1. op \in [Thread -> Op] /\ NoThread \notin Thread
    BY NamesDistinct DEF BusInv, BusTypes, TypeOK
  <1>2. \A u \in Thread : op'[u].kind = "deliver" <=> op[u].kind = "deliver"
    BY <1>1
  <1>3. \A u \in Thread : op'[u].kind = "deliver" => op'[u] = op[u]
    BY <1>1
  <1>4. OneDelivers'
    BY <1>2, <1>3 DEF BusInv, OneDelivers
  <1>5. LogsAreSorted'
    BY DEF BusInv, LogsAreSorted
  <1>6. DeliveriesAreSound'
    <2>1. CASE m_mutex = NoThread
      BY <1>1, <1>2, <2>1 DEF BusInv, OneDelivers, DeliveriesAreSound
    <2>2. CASE UNCHANGED m_actions
      BY <1>2, <1>3, <2>2 DEF BusInv, DeliveriesAreSound
    <2> QED
      BY <2>1, <2>2
  <1> QED
    BY <1>4, <1>5, <1>6 DEF BusInv

LEMMA SubscribeSteps ==
    ASSUME BusInv, NEW t \in Thread,
           \/ \E name \in Name, action \in Action, queue \in Queue :
                  SubscribeBegin(t, name, action, queue)
           \/ SubscribeEnd(t)
           \/ \E name \in Name, action \in Action : Unsubscribe(t, name, action)
    PROVE  BusInv'
  <1>0. BusTypes /\ op \in [Thread -> Op] /\ NoOp \in Op
    BY DEF BusInv, BusTypes, TypeOK, Op
  <1>1. ASSUME NEW name \in Name, NEW action \in Action, NEW queue \in Queue,
               SubscribeBegin(t, name, action, queue)
        PROVE  BusInv'
    <2> DEFINE o == [kind |-> "subscribe", action |-> action, name |-> name, queue |-> queue]
    <2>1. o \in Op /\ o.kind # "deliver"
      BY DEF Op
    <2> HIDE DEF o
    <2>2. /\ op[t] = NoOp /\ op' = [op EXCEPT ![t] = o]
          /\ UNCHANGED <<m_actions, m_mutex, owned, log, events>>
      BY <1>1 DEF SubscribeBegin, o
    <2>3. BusTypes'
      BY <1>0, <2>1, <2>2 DEF BusTypes, TypeOK
    <2> QED
      BY <1>0, <2>1, <2>2, <2>3, OpsByKind, OtherCalls
  <1>2. CASE SubscribeEnd(t)
    <2>1. /\ op[t].kind = "subscribe" /\ m_mutex = NoThread
          /\ op' = [op EXCEPT ![t] = NoOp]
          /\ UNCHANGED <<m_mutex, owned, log, events>>
      BY <1>2 DEF SubscribeEnd
    <2>2. op[t].action \in Action /\ op[t].name \in Name /\ op[t].queue \in Queue
      BY <1>0, <2>1, OpsByKind
    <2>3. BusTypes'
      <3> DEFINE names == IF op[t].action \in DOMAIN m_actions
                            THEN m_actions[op[t].action] ELSE EmptyMap
                 new == With(names, op[t].name, op[t].queue)
      <3>1. m_actions' = With(m_actions, op[t].action, new)
        BY <1>2 DEF SubscribeEnd
      <3>2. DOMAIN names \subseteq Name /\ \A n \in DOMAIN names : names[n] \in Queue
        BY <1>0 DEF BusTypes, TypeOK, EmptyMap
      <3> HIDE DEF names
      <3>3. DOMAIN new \subseteq Name /\ \A n \in DOMAIN new : new[n] \in Queue
        BY <2>2, <3>2 DEF With
      <3> HIDE DEF new
      <3>4. /\ DOMAIN m_actions' = DOMAIN m_actions \cup {op[t].action}
            /\ \A a \in DOMAIN m_actions' :
                   m_actions'[a] = IF a = op[t].action THEN new ELSE m_actions[a]
        BY <3>1 DEF With
      <3> QED
        BY <1>0, <2>1, <2>2, <3>3, <3>4 DEF BusTypes, TypeOK
    <2> QED
      BY <1>0, <2>1, <2>3, OpsByKind, OtherCalls
  <1>3. ASSUME NEW name \in Name, NEW action \in Action, Unsubscribe(t, name, action)
        PROVE  BusInv'
    <2>1. /\ op[t] = NoOp /\ m_mutex = NoThread
          /\ op' = [op EXCEPT ![t] = NoOp]
          /\ UNCHANGED <<m_mutex, owned, log, events>>
      BY <1>0, <1>3 DEF Unsubscribe
    <2>2. BusTypes'
      <3> DEFINE names == Without(m_actions[action], name)
                 erased == With(m_actions, action, names)
      <3>1. DOMAIN names \subseteq Name /\ \A n \in DOMAIN names : names[n] \in Queue
        BY <1>0, <1>3 DEF Unsubscribe, Subscribed, BusTypes, TypeOK, Without
      <3>2. m_actions' = [a \in {b \in DOMAIN erased : DOMAIN erased[b] # {}} |-> erased[a]]
        BY <1>3 DEF Unsubscribe
      <3> HIDE DEF names
      <3>3. /\ DOMAIN erased = DOMAIN m_actions \cup {action}
            /\ \A a \in DOMAIN erased : erased[a] = IF a = action THEN names ELSE m_actions[a]
        BY DEF With
      <3> HIDE DEF erased
      <3>4. DOMAIN m_actions' \subseteq DOMAIN erased
            /\ \A a \in DOMAIN m_actions' : m_actions'[a] = erased[a]
        BY <3>2
      <3> QED
        BY <1>0, <2>1, <3>1, <3>3, <3>4 DEF BusTypes, TypeOK
    <2> QED
      BY <1>0, <2>1, <2>2, OpsByKind, OtherCalls
  <1> QED
    BY <1>1, <1>2, <1>3

(* The lock is taken, and the event's number is a new one.                    *)
LEMMA DeliverBeginStep ==
    ASSUME BusInv, NEW t \in Thread, NEW action \in DOMAIN m_actions,
           NEW names, names \subseteq DOMAIN m_actions[action],
           DeliverBegin(t, action, names)
    PROVE  BusInv'
  <1>0. /\ BusTypes /\ op \in [Thread -> Op] /\ NoThread \notin Thread
        /\ events \in 0..MaxEvents /\ MaxEvents \in Nat
    BY NamesDistinct, MaxEventsIsNat DEF BusInv, BusTypes, TypeOK
  <1> DEFINE found == [n \in names |-> m_actions[action][n]]
             o == [kind |-> "deliver", id |-> events + 1, action |-> action, todo |-> names,
                   held |-> NoQueue, name |-> CHOOSE n \in Name : TRUE, found |-> found]
  <1>1. /\ m_mutex = NoThread /\ events < MaxEvents
        /\ events' = events + 1 /\ m_mutex' = t
        /\ op' = [op EXCEPT ![t] = o]
        /\ UNCHANGED <<m_actions, owned, log>>
    BY DEF DeliverBegin
  <1>2. o \in Delivery
    <2>1. /\ action \in Action /\ names \subseteq Name
          /\ \A n \in names : m_actions[action][n] \in Queue
          /\ \E n \in Name : TRUE
      BY <1>0 DEF BusTypes, TypeOK
    <2>2. (CHOOSE n \in Name : TRUE) \in Name
      BY <2>1
    <2>3. found \in UNION {[ns -> Queue] : ns \in SUBSET Name}
      BY <2>1
    <2>4. events + 1 \in 1..MaxEvents
      BY <1>0, <1>1
    <2> HIDE DEF found
    <2> QED
      BY <2>1, <2>2, <2>3, <2>4 DEF Delivery
  <1>3. /\ o.kind = "deliver" /\ o.id = events + 1 /\ o.action = action
        /\ o.todo = names /\ o.held = NoQueue /\ o.found = found
        /\ DOMAIN found = names /\ \A n \in names : found[n] = m_actions[action][n]
    OBVIOUS
  <1> HIDE DEF found, o
  <1>4. op'[t] = o /\ \A u \in Thread : u # t => op'[u] = op[u] /\ op[u].kind # "deliver"
    BY <1>0, <1>1 DEF BusInv, OneDelivers
  <1>5. BusTypes'
    BY <1>0, <1>1, <1>2 DEF BusTypes, TypeOK, Op
  <1>6. OneDelivers'
    BY <1>0, <1>1, <1>3, <1>4 DEF OneDelivers
  <1>7. \A q \in Queue : \A k \in DOMAIN log[q] :
            log[q][k].id \in 1..MaxEvents /\ log[q][k].id <= events
    BY <1>0 DEF BusInv, LogsAreSorted, BusTypes, TypeOK, Event
  <1>8. LogsAreSorted'
    BY <1>0, <1>1, <1>7 DEF BusInv, LogsAreSorted
  <1>9. HalfDelivered(o, m_actions, log, owned)
    <2>1. ASSUME NEW n \in names
          PROVE  Count(log[found[n]], [id |-> o.id, action |-> o.action, name |-> n]) = 0
      <3>1. found[n] \in Queue
        BY <1>0, <1>3 DEF BusTypes, TypeOK
      <3>2. \A k \in DOMAIN log[found[n]] : log[found[n]][k].id # o.id
        BY <1>0, <1>3, <1>7, <3>1
      <3>3. \A k \in DOMAIN log[found[n]] :
                log[found[n]][k] # [id |-> o.id, action |-> o.action, name |-> n]
        BY <3>2
      <3> QED
        BY <3>3, CountOfAbsent
    <2> QED
      BY <1>3, <2>1 DEF HalfDelivered
  <1>10. DeliveriesAreSound'
    BY <1>1, <1>4, <1>9 DEF DeliveriesAreSound
  <1> QED
    BY <1>5, <1>6, <1>8, <1>10 DEF BusInv

(* The next subscription: its queue is held, or it is erased.                 *)
LEMMA VisitStep ==
    ASSUME BusInv, NEW t \in Thread, NEW name \in Name, Visit(t, name)
    PROVE  BusInv'
  <1>0. BusTypes /\ op \in [Thread -> Op] /\ m_mutex = t
    BY DEF BusInv, BusTypes, TypeOK, OneDelivers, Visit
  <1> DEFINE o == op[t]
             queue == m_actions[o.action][name]
             erased == [o EXCEPT !.todo = @ \ {name}]
             visited == [o EXCEPT !.todo = @ \ {name}, !.held = queue, !.name = name]
  <1>1. /\ o.kind = "deliver" /\ o.held = NoQueue /\ name \in o.todo
        /\ UNCHANGED <<m_mutex, owned, log, events>>
        /\ IF Expired(queue)
             THEN /\ m_actions' = [m_actions EXCEPT ![o.action] = Without(@, name)]
                  /\ op' = [op EXCEPT ![t] = erased]
             ELSE op' = [op EXCEPT ![t] = visited] /\ UNCHANGED m_actions
    BY <1>0 DEF Visit
  <1>2. o \in Delivery /\ HalfDelivered(o, m_actions, log, owned) /\ o.id = events
    BY <1>0, <1>1, OpsByKind DEF BusInv, DeliveriesAreSound, OneDelivers
  <1>3. /\ o.action \in DOMAIN m_actions /\ name \in DOMAIN m_actions[o.action]
        /\ queue = o.found[name] /\ queue \in Queue /\ queue # NoQueue
        /\ name \in DOMAIN o.found
    BY <1>0, <1>1, <1>2, NamesDistinct DEF HalfDelivered, BusTypes, TypeOK
  <1>4. /\ erased \in Delivery /\ erased.todo = o.todo \ {name}
        /\ erased.kind = "deliver" /\ erased.id = o.id /\ erased.action = o.action
        /\ erased.held = o.held /\ erased.name = o.name /\ erased.found = o.found
    BY <1>2 DEF Delivery
  <1>5. /\ visited \in Delivery /\ visited.todo = o.todo \ {name}
        /\ visited.kind = "deliver" /\ visited.id = o.id /\ visited.action = o.action
        /\ visited.held = queue /\ visited.name = name /\ visited.found = o.found
    BY <1>2, <1>3 DEF Delivery
  <1>6. LogsAreSorted'
    BY <1>1 DEF BusInv, LogsAreSorted
  <1>7. \A u \in Thread : u # t => op[u].kind # "deliver"
    BY <1>0 DEF BusInv, OneDelivers
  <1> HIDE DEF o, queue, erased, visited
  <1>8. ASSUME NEW new \in Delivery, new.kind = "deliver", new.id = o.id,
               op' = [op EXCEPT ![t] = new], BusTypes',
               HalfDelivered(new, m_actions', log, owned)
        PROVE  BusInv'
    <2>1. op'[t] = new /\ \A u \in Thread : u # t => op'[u] = op[u]
      BY <1>0, <1>8
    <2>2. OneDelivers'
      BY <1>0, <1>1, <1>2, <1>7, <1>8, <2>1 DEF BusInv, OneDelivers
    <2>3. DeliveriesAreSound'
      BY <1>1, <1>7, <1>8, <2>1 DEF DeliveriesAreSound
    <2> QED
      BY <1>6, <1>8, <2>2, <2>3 DEF BusInv
  <1>9. CASE Expired(queue)
    <2>1. /\ m_actions' = [m_actions EXCEPT ![o.action] = Without(@, name)]
          /\ op' = [op EXCEPT ![t] = erased]
      BY <1>1, <1>9
    <2>2. /\ DOMAIN m_actions' = DOMAIN m_actions
          /\ \A a \in DOMAIN m_actions : a # o.action => m_actions'[a] = m_actions[a]
          /\ m_actions'[o.action] = Without(m_actions[o.action], name)
      BY <1>3, <2>1
    <2>3. /\ DOMAIN m_actions'[o.action] = DOMAIN m_actions[o.action] \ {name}
          /\ \A n \in DOMAIN m_actions'[o.action] :
                 m_actions'[o.action][n] = m_actions[o.action][n]
      BY <2>2 DEF Without
    <2>4. BusTypes'
      BY <1>0, <1>1, <1>3, <1>4, <2>1, <2>2, <2>3 DEF BusTypes, TypeOK, Op
    <2>5. queue \notin owned
      BY <1>9 DEF Expired
    <2>6. HalfDelivered(erased, m_actions', log, owned)
      BY <1>1, <1>2, <1>3, <1>4, <2>2, <2>3, <2>5 DEF HalfDelivered
    <2> QED
      BY <1>4, <1>8, <2>1, <2>4, <2>6
  <1>10. CASE ~Expired(queue)
    <2>1. op' = [op EXCEPT ![t] = visited] /\ UNCHANGED m_actions
      BY <1>1, <1>10
    <2>2. BusTypes'
      BY <1>0, <1>1, <1>5, <2>1 DEF BusTypes, TypeOK, Op
    <2>3. HalfDelivered(visited, m_actions, log, owned)
      BY <1>1, <1>2, <1>3, <1>5 DEF HalfDelivered
    <2> QED
      BY <1>5, <1>8, <2>1, <2>2, <2>3
  <1> QED
    BY <1>9, <1>10

(* The push itself.                                                          *)
LEMMA PushFacts ==
    ASSUME BusInv, NEW t \in Thread, Push(t)
    PROVE  LET o == op[t]
               e == [id |-> o.id, action |-> o.action, name |-> o.name]
           IN  /\ o \in Delivery /\ o.held \in Queue /\ e \in Event
               /\ e.id = events /\ m_mutex = t
               /\ HalfDelivered(o, m_actions, log, owned)
               /\ o.name \in DOMAIN o.found /\ o.held = o.found[o.name] /\ o.name \notin o.todo
               /\ Subscribed(o.action, o.name) /\ m_actions[o.action][o.name] = o.held
               /\ log[o.held] \in Seq(Event)
               /\ log' = [log EXCEPT ![o.held] = Append(@, e)]
               /\ op' = [op EXCEPT ![t] = [o EXCEPT !.held = NoQueue]]
               /\ UNCHANGED <<m_actions, m_mutex, owned, events>>
  <1>1. op[t].kind = "deliver" /\ op[t].held # NoQueue
    BY DEF Push
  <1>2. /\ op[t] \in Delivery /\ HalfDelivered(op[t], m_actions, log, owned)
        /\ op[t].id = events /\ m_mutex = t
    BY <1>1, OpsByKind DEF BusInv, DeliveriesAreSound, OneDelivers
  <1>3. op[t].held \in Queue /\ log[op[t].held] \in Seq(Event)
    BY <1>1, <1>2, DeliveryTypes DEF BusInv, BusTypes
  <1>4. [id |-> op[t].id, action |-> op[t].action, name |-> op[t].name] \in Event
    BY <1>2, DeliveryTypes
  <1>5. /\ op[t].name \in DOMAIN op[t].found /\ op[t].held = op[t].found[op[t].name]
        /\ op[t].name \notin op[t].todo
        /\ Subscribed(op[t].action, op[t].name)
        /\ m_actions[op[t].action][op[t].name] = op[t].held
    BY <1>1, <1>2 DEF HalfDelivered, Subscribed
  <1>6. /\ log' = [log EXCEPT ![op[t].held] =
                Append(@, [id |-> op[t].id, action |-> op[t].action, name |-> op[t].name])]
        /\ UNCHANGED <<m_actions, m_mutex, owned, events>>
    BY DEF Push
  <1>7. op' = [op EXCEPT ![t] = [op[t] EXCEPT !.held = NoQueue]]
    BY DEF Push, BusInv, BusTypes, TypeOK
  <1> QED
    BY <1>2, <1>3, <1>4, <1>5, <1>6, <1>7

LEMMA PushStep == ASSUME BusInv, NEW t \in Thread, Push(t) PROVE BusInv'
  <1> DEFINE o == op[t]
             e == [id |-> o.id, action |-> o.action, name |-> o.name]
             new == [o EXCEPT !.held = NoQueue]
             s == log[o.held]
  <1>0. BusTypes /\ op \in [Thread -> Op] /\ log \in [Queue -> Seq(Event)] /\ events \in Nat
    BY MaxEventsIsNat DEF BusInv, BusTypes, TypeOK
  <1>1. /\ o \in Delivery /\ o.held \in Queue /\ e \in Event /\ o.id = events /\ m_mutex = t
        /\ HalfDelivered(o, m_actions, log, owned)
        /\ o.name \in DOMAIN o.found /\ o.held = o.found[o.name] /\ o.name \notin o.todo
        /\ o.action \in DOMAIN m_actions /\ o.name \in DOMAIN m_actions[o.action]
        /\ s \in Seq(Event)
        /\ log' = [log EXCEPT ![o.held] = Append(s, e)]
        /\ op' = [op EXCEPT ![t] = new]
        /\ UNCHANGED <<m_actions, m_mutex, owned, events>>
    BY PushFacts DEF Subscribed
  <1>2. /\ new \in Delivery /\ new.held = NoQueue
        /\ new.kind = "deliver" /\ new.id = o.id /\ new.action = o.action
        /\ new.todo = o.todo /\ new.name = o.name /\ new.found = o.found
    BY <1>1 DEF Delivery
  <1>3. e.id = o.id /\ e.action = o.action /\ e.name = o.name
    OBVIOUS
  <1>4. o.held # NoQueue
    BY <1>1, NamesDistinct
  <1>5. /\ Append(s, e) \in Seq(Event)
        /\ Len(s) \in Nat /\ DOMAIN s = 1..Len(s)
        /\ DOMAIN Append(s, e) = 1..(Len(s) + 1)
        /\ \A k \in 1..Len(s) : Append(s, e)[k] = s[k]
        /\ Append(s, e)[Len(s) + 1] = e
    <2>1. s \in Seq(Event) /\ e \in Event
      BY <1>1
    <2> HIDE DEF s, e
    <2>2. /\ Append(s, e) \in Seq(Event) /\ Len(Append(s, e)) = Len(s) + 1
          /\ \A k \in 1..Len(s) : Append(s, e)[k] = s[k]
          /\ Append(s, e)[Len(s) + 1] = e
      BY <2>1, AppendProperties
    <2>3. Len(s) \in Nat /\ DOMAIN s = 1..Len(s)
      BY <2>1, LenProperties
    <2>4. DOMAIN Append(s, e) = 1..Len(Append(s, e))
      BY <2>2, LenProperties
    <2> QED
      BY <2>2, <2>3, <2>4
  <1>6. ASSUME NEW n \in DOMAIN o.found
        PROVE  LET f == [id |-> o.id, action |-> o.action, name |-> n] IN
               /\ Count(s, f) \in Nat
               /\ Count(Append(s, e), f) = IF n = o.name THEN Count(s, f) + 1 ELSE Count(s, f)
    <2> DEFINE f == [id |-> o.id, action |-> o.action, name |-> n]
    <2>1. e = f <=> n = o.name
      OBVIOUS
    <2> HIDE DEF e, f, s
    <2>2. /\ Count(s, f) \in Nat
          /\ Count(Append(s, e), f) = IF e = f THEN Count(s, f) + 1 ELSE Count(s, f)
      BY <1>1, CountOfAppended
    <2> QED
      BY <2>1, <2>2 DEF f
  <1>7. op'[t] = new /\ \A u \in Thread : u # t => op'[u] = op[u] /\ op[u].kind # "deliver"
    BY <1>0, <1>1 DEF BusInv, OneDelivers
  <1>8. /\ log'[o.held] = Append(s, e)
        /\ \A q \in Queue : q # o.held => log'[q] = log[q]
    BY <1>0, <1>1
  <1> HIDE DEF o, e, new, s
  <1>9. BusTypes'
    <2>1. \A q \in Queue : \A k \in DOMAIN log'[q] : log'[q][k] \in Event
      BY <1>0, <1>1, <1>5, <1>8 DEF BusTypes, TypeOK
    <2> QED
      BY <1>0, <1>1, <1>2, <1>5, <2>1 DEF BusTypes, TypeOK, Op
  <1>10. OneDelivers'
    BY <1>1, <1>2, <1>7 DEF BusInv, OneDelivers
  <1>11. LogsAreSorted'
    <2>1. \A k \in 1..Len(s) : s[k].id <= e.id
      BY <1>1, <1>3, <1>5 DEF BusInv, LogsAreSorted, s
    <2>2. \A j, k \in 1..Len(s) : j <= k => s[j].id <= s[k].id
      BY <1>1, <1>5 DEF BusInv, LogsAreSorted, s
    <2>3. \A k \in 1..(Len(s) + 1) : Append(s, e)[k].id <= events
      BY <1>0, <1>1, <1>3, <1>5, <2>1
    <2>4. \A j, k \in 1..(Len(s) + 1) : j <= k => Append(s, e)[j].id <= Append(s, e)[k].id
      BY <1>0, <1>1, <1>3, <1>5, <2>1, <2>2
    <2> QED
      BY <1>1, <1>5, <1>8, <2>3, <2>4 DEF BusInv, LogsAreSorted
  <1>12. HalfDelivered(new, m_actions, log', owned)
    <2>1. new.todo \subseteq DOMAIN new.found
      BY <1>1, <1>2 DEF HalfDelivered
    <2>2. ASSUME NEW n \in DOMAIN o.found
          PROVE  LET queue == o.found[n]
                     f == [id |-> o.id, action |-> o.action, name |-> n]
                 IN  Count(log'[queue], f) =
                         IF n = o.name THEN Count(log[queue], f) + 1 ELSE Count(log[queue], f)
      <3>1. o.found[n] \in Queue
        BY <1>1, DeliveryTypes
      <3> QED
        BY <1>1, <1>6, <1>8, <3>1 DEF s
    <2>3. Count(log[o.found[o.name]], [id |-> o.id, action |-> o.action, name |-> o.name]) = 0
      BY <1>1, <1>4 DEF HalfDelivered
    <2> QED
      BY <1>1, <1>2, <1>4, <2>1, <2>2, <2>3 DEF HalfDelivered
  <1>13. DeliveriesAreSound'
    BY <1>1, <1>7, <1>12 DEF DeliveriesAreSound
  <1> QED
    BY <1>9, <1>10, <1>11, <1>13 DEF BusInv

LEMMA DeliverEndStep == ASSUME BusInv, NEW t \in Thread, DeliverEnd(t) PROVE BusInv'
  <1>1. /\ op[t].kind = "deliver" /\ m_mutex = t /\ m_mutex' = NoThread
        /\ op' = [op EXCEPT ![t] = NoOp]
        /\ UNCHANGED <<m_actions, owned, log, events>>
    BY DEF DeliverEnd, BusInv, OneDelivers
  <1>2. BusTypes /\ op \in [Thread -> Op] /\ NoOp.kind = "none" /\ NoOp \in Op
    BY DEF BusInv, BusTypes, TypeOK, Op, NoOp
  <1>3. BusTypes'
    BY <1>1, <1>2 DEF BusTypes, TypeOK
  <1>4. \A u \in Thread : op'[u].kind # "deliver"
    BY <1>1, <1>2 DEF BusInv, OneDelivers
  <1>5. OneDelivers' /\ DeliveriesAreSound'
    BY <1>1, <1>4, NamesDistinct DEF OneDelivers, DeliveriesAreSound
  <1>6. LogsAreSorted'
    BY <1>1 DEF BusInv, LogsAreSorted
  <1> QED
    BY <1>3, <1>5, <1>6 DEF BusInv

LEMMA DropStep == ASSUME BusInv, NEW queue \in Queue, Drop(queue) PROVE BusInv'
  <1> USE DEF Drop
  <1>1. BusTypes' /\ OneDelivers' /\ LogsAreSorted'
    BY DEF BusInv, BusTypes, TypeOK, OneDelivers, LogsAreSorted
  <1>2. DeliveriesAreSound'
    BY DEF BusInv, DeliveriesAreSound, HalfDelivered
  <1> QED
    BY <1>1, <1>2 DEF BusInv

LEMMA BusStep == BusInv /\ [Next]_vars => BusInv'
  <1> SUFFICES ASSUME BusInv, [Next]_vars PROVE BusInv'
    OBVIOUS
  <1>1. ASSUME NEW t \in Thread, Begin(t) PROVE BusInv'
    <2>1. ASSUME NEW name \in Name, NEW action \in Action, NotifyBegin(t, name, action)
          PROVE  BusInv'
      BY <2>1, DeliverBeginStep DEF NotifyBegin, Subscribed
    <2>2. ASSUME NEW action \in Action, BroadcastBegin(t, action) PROVE BusInv'
      BY <2>2, DeliverBeginStep DEF BroadcastBegin
    <2> QED
      BY <1>1, <2>1, <2>2, SubscribeSteps DEF Begin
  <1>2. ASSUME NEW t \in Thread, Continue(t) PROVE BusInv'
    BY <1>2, SubscribeSteps, VisitStep, PushStep, DeliverEndStep DEF Continue
  <1>3. CASE UNCHANGED vars
    BY <1>3 DEF vars, BusInv, BusTypes, TypeOK, OneDelivers, LogsAreSorted, DeliveriesAreSound
  <1> QED
    BY <1>1, <1>2, <1>3, DropStep DEF Next

THEOREM BusInvariant == Spec => []BusInv
  BY BusInit, BusStep, PTL DEF Spec

-----------------------------------------------------------------------------
(* Two events that reach two queues reach them in the same order, whoever     *)
(* sent them (broadcast() holds m_mutex).                                    *)
THEOREM BusKeepsOneOrder == Spec => []SameOrderEverywhere
  <1>1. BusInv => SameOrderEverywhere
    <2> SUFFICES ASSUME BusInv, NEW q \in Queue, NEW r \in Queue,
                        NEW i \in Ids(q) \cap Ids(r), NEW j \in Ids(q) \cap Ids(r),
                        Position(q, i) < Position(q, j)
                 PROVE  Position(r, i) < Position(r, j)
      BY DEF SameOrderEverywhere
    <2>1. ASSUME NEW p \in {q, r}, NEW id \in Ids(q) \cap Ids(r)
          PROVE  Position(p, id) \in DOMAIN log[p] /\ log[p][Position(p, id)].id = id
      BY DEF Ids, Position
    <2>2. \A p \in {q, r} : DOMAIN log[p] \subseteq Nat
      BY LenProperties DEF BusInv, BusTypes
    <2>3. i # j
      BY <2>1, <2>2
    <2>4. i \in Nat /\ j \in Nat
      <3>1. \A k \in DOMAIN log[q] : log[q][k].id \in 1..MaxEvents
        BY DEF BusInv, BusTypes, TypeOK, Event
      <3> QED
        BY <3>1, MaxEventsIsNat DEF Ids
    <2>5. i <= j
      BY <2>1, <2>2 DEF BusInv, LogsAreSorted
    <2>6. Position(r, j) <= Position(r, i) => j <= i
      BY <2>1 DEF BusInv, LogsAreSorted
    <2> QED
      BY <2>1, <2>2, <2>3, <2>4, <2>5, <2>6
  <1> QED
    BY <1>1, BusInvariant, PTL

(* When broadcast() or notify() is done, every subscription it found that     *)
(* still has its queue has the event once; the others are erased.            *)
THEOREM BusCompletesDeliveries == Spec => []DeliveryIsComplete
  <1>1. BusInv => DeliveryIsComplete
    <2> SUFFICES ASSUME BusInv, NEW t \in Thread,
                        op[t].kind = "deliver", op[t].held = NoQueue, op[t].todo = {},
                        NEW n \in DOMAIN op[t].found
                 PROVE  LET queue == op[t].found[n]
                            copies == Copies(queue, [id |-> op[t].id, action |-> op[t].action,
                                                     name |-> n])
                        IN  IF Subscribed(op[t].action, n)
                              THEN copies = 1
                              ELSE copies = 0 /\ queue \notin owned
      BY DEF DeliveryIsComplete
    <2>1. \A q, e : Copies(q, e) = Count(log[q], e)
      BY DEF Copies, Count
    <2> QED
      BY <2>1 DEF BusInv, DeliveriesAreSound, HalfDelivered, Subscribed
  <1> QED
    BY <1>1, BusInvariant, PTL

(* An event is pushed only on a queue that is subscribed at that moment.      *)
THEOREM BusPushesToSubscribers == Spec => PushesOnlyToSubscribers
  <1> DEFINE pushed(q) ==
          LET e == log'[q][Len(log'[q])]
          IN  Subscribed(e.action, e.name) /\ m_actions[e.action][e.name] = q
  <1>1. BusInv /\ [Next]_vars => [\A q \in Queue : log'[q] # log[q] => pushed(q)]_vars
    <2> SUFFICES ASSUME BusInv, Next, NEW q \in Queue, log'[q] # log[q] PROVE pushed(q)
      OBVIOUS
    <2>1. PICK t \in Thread : Push(t)
      <3>1. ~\E queue \in Queue : Drop(queue)
        BY DEF Drop
      <3>2. ASSUME NEW t \in Thread PROVE ~Begin(t)
        BY DEF Begin, SubscribeBegin, Unsubscribe, NotifyBegin, BroadcastBegin, DeliverBegin
      <3>3. ASSUME NEW t \in Thread, Continue(t) PROVE Push(t)
        BY <3>3 DEF Continue, SubscribeEnd, Visit, DeliverEnd
      <3> QED
        BY <3>1, <3>2, <3>3 DEF Next
    <2> DEFINE o == op[t]
               e == [id |-> o.id, action |-> o.action, name |-> o.name]
    <2>2. /\ o.held \in Queue /\ e \in Event /\ log[o.held] \in Seq(Event)
          /\ Subscribed(o.action, o.name) /\ m_actions[o.action][o.name] = o.held
          /\ log' = [log EXCEPT ![o.held] = Append(@, e)]
      BY <2>1, PushFacts
    <2>3. e.action = o.action /\ e.name = o.name
      OBVIOUS
    <2> HIDE DEF o, e
    <2>4. q = o.held /\ log'[q] = Append(log[q], e)
      BY <2>2 DEF BusInv, BusTypes
    <2>5. log'[q][Len(log'[q])] = e
      BY <2>2, <2>4, AppendProperties
    <2> QED
      BY <2>2, <2>3, <2>4, <2>5
  <1> QED
    BY <1>1, BusInvariant, PTL DEF Spec, PushesOnlyToSubscribers
=============================================================================
