------------------------------- MODULE EventBus ------------------------------
(***************************************************************************)
(* hlib::EventBus: subscriptions by action and name, each a weak_ptr to an   *)
(* EventQueue (the callback bound to it is not told apart).  notify() and    *)
(* broadcast() push on queues while they hold m_mutex.  A queue is what      *)
(* QueueContract says: here it is the log of what was pushed on it.  It dies *)
(* with its last shared_ptr: its owner's, or one that a push holds.          *)
(***************************************************************************)
EXTENDS Naturals, Sequences, FiniteSets

CONSTANTS
    Name, Action, Queue, Thread,
    NoQueue, NoThread,
    MaxEvents       \* bound: notify() and broadcast() calls in a behaviour

ASSUME NamesDistinct == NoQueue \notin Queue /\ NoThread \notin Thread
ASSUME MaxEventsIsNat == MaxEvents \in Nat

VARIABLES
    m_actions,      \* action -> name -> queue, as nested partial functions
    m_mutex,        \* its owner, or NoThread
    owned,          \* the queues whose owner keeps them
    log,            \* per queue: the events pushed, in order
    op,             \* per thread: the call it is in the middle of
    events          \* number of notify() and broadcast() calls so far

vars == <<m_actions, m_mutex, owned, log, op, events>>

EmptyMap == [x \in {} |-> NoQueue]
NoOp == [kind |-> "none"]
Event == [id : 1..MaxEvents, action : Action, name : Name]

(* A call that delivers: the names it has still to visit, the shared_ptr it   *)
(* holds, and, as history, the subscriptions it found.                       *)
Delivery == [kind : {"deliver"}, id : 1..MaxEvents, action : Action,
             todo : SUBSET Name, held : Queue \cup {NoQueue}, name : Name,
             found : UNION {[names -> Queue] : names \in SUBSET Name}]
Op == {NoOp} \cup Delivery
      \cup [kind : {"subscribe"}, action : Action, name : Name, queue : Queue]

TypeOK ==
    /\ DOMAIN m_actions \subseteq Action
    /\ \A a \in DOMAIN m_actions :
           /\ DOMAIN m_actions[a] \subseteq Name
           /\ \A n \in DOMAIN m_actions[a] : m_actions[a][n] \in Queue
    /\ m_mutex \in Thread \cup {NoThread}
    /\ owned \subseteq Queue
    /\ \A q \in Queue : \A k \in DOMAIN log[q] : log[q][k] \in Event
    /\ op \in [Thread -> Op]
    /\ events \in 0..MaxEvents

Init ==
    /\ m_actions = [a \in {} |-> EmptyMap]
    /\ m_mutex = NoThread
    /\ owned = Queue
    /\ log = [q \in Queue |-> <<>>]
    /\ op = [t \in Thread |-> NoOp]
    /\ events = 0

-----------------------------------------------------------------------------
Without(map, key) == [k \in DOMAIN map \ {key} |-> map[k]]
With(map, key, value) == [k \in DOMAIN map \cup {key} |-> IF k = key THEN value ELSE map[k]]

Subscribed(action, name) == action \in DOMAIN m_actions /\ name \in DOMAIN m_actions[action]

Held(q) == \E t \in Thread : op[t].kind = "deliver" /\ op[t].held = q
Expired(q) == q \notin owned /\ ~Held(q)

(* expired() is tested before the lock is taken: the queue may go meanwhile. *)
SubscribeBegin(t, name, action, queue) ==
    /\ op[t] = NoOp
    /\ ~Expired(queue)
    /\ op' = [op EXCEPT ![t] = [kind |-> "subscribe", action |-> action,
                                name |-> name, queue |-> queue]]
    /\ UNCHANGED <<m_actions, m_mutex, owned, log, events>>

(* Mutant of SubscribeEnd: without the lock.                                 *)
SubscribeUnlocked(t) ==
    /\ op[t].kind = "subscribe"
    /\ LET action == op[t].action
           names == IF action \in DOMAIN m_actions THEN m_actions[action] ELSE EmptyMap
       IN  m_actions' = With(m_actions, action, With(names, op[t].name, op[t].queue))
    /\ op' = [op EXCEPT ![t] = NoOp]
    /\ UNCHANGED <<m_mutex, owned, log, events>>

SubscribeEnd(t) ==
    /\ op[t].kind = "subscribe"
    /\ m_mutex = NoThread
    /\ LET action == op[t].action
           names == IF action \in DOMAIN m_actions THEN m_actions[action] ELSE EmptyMap
       IN  m_actions' = With(m_actions, action, With(names, op[t].name, op[t].queue))
    /\ op' = [op EXCEPT ![t] = NoOp]
    /\ UNCHANGED <<m_mutex, owned, log, events>>

(* Erase the name, and then every action left without names. *)
Unsubscribe(t, name, action) ==
    /\ op[t] = NoOp
    /\ m_mutex = NoThread
    /\ Subscribed(action, name)
    /\ LET erased == With(m_actions, action, Without(m_actions[action], name))
       IN  m_actions' = [a \in {b \in DOMAIN erased : DOMAIN erased[b] # {}} |-> erased[a]]
    /\ UNCHANGED <<m_mutex, owned, log, op, events>>

(* Lock m_mutex and begin to visit the subscriptions in names. *)
DeliverBegin(t, action, names) ==
    /\ op[t] = NoOp
    /\ m_mutex = NoThread
    /\ events < MaxEvents
    /\ events' = events + 1
    /\ m_mutex' = t
    /\ op' = [op EXCEPT ![t] = [kind |-> "deliver", id |-> events + 1, action |-> action,
                                todo |-> names, held |-> NoQueue,
                                name |-> CHOOSE n \in Name : TRUE,
                                found |-> [n \in names |-> m_actions[action][n]]]]
    /\ UNCHANGED <<m_actions, owned, log>>

NotifyBegin(t, name, action) ==
    /\ Subscribed(action, name)
    /\ DeliverBegin(t, action, {name})

BroadcastBegin(t, action) ==
    /\ action \in DOMAIN m_actions
    /\ DeliverBegin(t, action, DOMAIN m_actions[action])

(* Mutant of Visit: the first expired queue ends the call.                    *)
VisitStopsAtExpired(t, name) ==
    /\ op[t].kind = "deliver" /\ op[t].held = NoQueue
    /\ name \in op[t].todo
    /\ LET action == op[t].action
           queue == m_actions[action][name]
       IN  IF Expired(queue)
             THEN /\ m_actions' = [m_actions EXCEPT ![action] = Without(@, name)]
                  /\ op' = [op EXCEPT ![t].todo = {}]
             ELSE /\ op' = [op EXCEPT ![t].todo = @ \ {name}, ![t].held = queue,
                                      ![t].name = name]
                  /\ UNCHANGED m_actions
    /\ UNCHANGED <<m_mutex, owned, log, events>>

(* Mutant of Visit: the subscriptions were copied, and the lock released.     *)
VisitUnlocked(t, name) ==
    /\ op[t].kind = "deliver" /\ op[t].held = NoQueue
    /\ name \in op[t].todo
    /\ LET queue == op[t].found[name]
       IN  op' = [op EXCEPT ![t].todo = @ \ {name}, ![t].name = name,
                            ![t].held = IF Expired(queue) THEN NoQueue ELSE queue]
    /\ m_mutex' = NoThread
    /\ UNCHANGED <<m_actions, owned, log, events>>

(* Lock the weak_ptr of the next subscription; erase it if that fails.        *)
Visit(t, name) ==
    /\ op[t].kind = "deliver" /\ op[t].held = NoQueue
    /\ name \in op[t].todo
    /\ LET action == op[t].action
           queue == m_actions[action][name]
       IN  IF Expired(queue)
             THEN /\ m_actions' = [m_actions EXCEPT ![action] = Without(@, name)]
                  /\ op' = [op EXCEPT ![t].todo = @ \ {name}]
             ELSE /\ op' = [op EXCEPT ![t].todo = @ \ {name}, ![t].held = queue,
                                      ![t].name = name]
                  /\ UNCHANGED m_actions
    /\ UNCHANGED <<m_mutex, owned, log, events>>

(* queue->push(); then the shared_ptr is released.                            *)
Push(t) ==
    /\ op[t].kind = "deliver" /\ op[t].held # NoQueue
    /\ log' = [log EXCEPT ![op[t].held] =
                  Append(@, [id |-> op[t].id, action |-> op[t].action, name |-> op[t].name])]
    /\ op' = [op EXCEPT ![t].held = NoQueue]
    /\ UNCHANGED <<m_actions, m_mutex, owned, events>>

(* Mutant of DeliverEnd: the lock stays held.                                *)
DeliverEndLocked(t) ==
    /\ op[t].kind = "deliver" /\ op[t].held = NoQueue
    /\ op[t].todo = {}
    /\ op' = [op EXCEPT ![t] = NoOp]
    /\ UNCHANGED <<m_actions, m_mutex, owned, log, events>>

DeliverEnd(t) ==
    /\ op[t].kind = "deliver" /\ op[t].held = NoQueue
    /\ op[t].todo = {}
    /\ m_mutex' = NoThread
    /\ op' = [op EXCEPT ![t] = NoOp]
    /\ UNCHANGED <<m_actions, owned, log, events>>

(* The owner of a queue lets go of it. *)
Drop(queue) ==
    /\ queue \in owned
    /\ owned' = owned \ {queue}
    /\ UNCHANGED <<m_actions, m_mutex, log, op, events>>

Continue(t) ==
    \/ SubscribeEnd(t)
    \/ \E name \in Name : Visit(t, name)
    \/ Push(t) \/ DeliverEnd(t)

Begin(t) ==
    \/ \E action \in Action : BroadcastBegin(t, action)
    \/ \E name \in Name, action \in Action :
           \/ \E queue \in Queue : SubscribeBegin(t, name, action, queue)
           \/ Unsubscribe(t, name, action)
           \/ NotifyBegin(t, name, action)

Next ==
    \/ \E t \in Thread : Begin(t) \/ Continue(t)
    \/ \E queue \in Queue : Drop(queue)

Spec == Init /\ [][Next]_vars

(* Threads run, and a mutex is granted in the end to one that waits for it.   *)
FairSpec == Spec /\ \A t \in Thread : SF_vars(Continue(t))

-----------------------------------------------------------------------------
Ids(queue) == {log[queue][k].id : k \in DOMAIN log[queue]}
Position(queue, id) == CHOOSE k \in DOMAIN log[queue] : log[queue][k].id = id

(* Two events that both reach two queues reach them in the same order,        *)
(* whoever sent them: m_mutex is held over all of a broadcast (broadcast()).  *)
SameOrderEverywhere ==
    \A q, r \in Queue : \A i, j \in Ids(q) \cap Ids(r) :
        Position(q, i) < Position(q, j) => Position(r, i) < Position(r, j)

Copies(queue, e) == Cardinality({k \in DOMAIN log[queue] : log[queue][k] = e})

(* When broadcast() or notify() is done, every subscription it found that     *)
(* still has its queue has the event exactly once, and those whose queue is  *)
(* gone are erased.                                                          *)
DeliveryIsComplete ==
    \A t \in Thread :
        op[t].kind = "deliver" /\ op[t].held = NoQueue /\ op[t].todo = {} =>
            \A n \in DOMAIN op[t].found :
                LET queue == op[t].found[n]
                    copies == Copies(queue, [id |-> op[t].id, action |-> op[t].action,
                                             name |-> n])
                IN  IF Subscribed(op[t].action, n)
                      THEN copies = 1
                      ELSE copies = 0 /\ queue \notin owned

(* An event is pushed only for a subscription that exists at that moment, on  *)
(* the queue it names: after unsubscribe() returned, or subscribe() moved it  *)
(* to another queue, the old queue gets nothing more for that name.          *)
PushesOnlyToSubscribers ==
    [][\A q \in Queue : log'[q] # log[q] =>
           LET e == log'[q][Len(log'[q])]
           IN  Subscribed(e.action, e.name) /\ m_actions[e.action][e.name] = q]_vars

(* Every call returns: no call keeps m_mutex or waits for ever.               *)
CallsReturn == \A t \in Thread : op[t] # NoOp ~> op[t] = NoOp
=============================================================================
