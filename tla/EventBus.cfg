\* Two threads subscribe, unsubscribe, notify and broadcast; queues may be dropped.
CONSTANTS
    n1 = n1  n2 = n2  a1 = a1  a2 = a2  q1 = q1  q2 = q2  t1 = t1  t2 = t2
    NoQueue = NoQueue  NoThread = NoThread
    Name <- TwoNames
    Action <- OneAction
    Queue <- TwoQueues
    Thread <- TwoThreads
    MaxEvents = 2
SPECIFICATION FairSpec
INVARIANTS
    SameOrderEverywhere
    DeliveryIsComplete
PROPERTIES
    PushesOnlyToSubscribers
    CallsReturn
CHECK_DEADLOCK FALSE
