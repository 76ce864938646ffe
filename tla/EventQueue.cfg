\* Two clients and the callbacks themselves push three callbacks, which may throw.
CONSTANTS
    Main = Main  c1 = c1  c2 = c2  NoThread = NoThread
    i1 = i1  i2 = i2  i3 = i3  NoItem = NoItem
    Client <- TwoClients
    Item <- ThreeItems
SPECIFICATION FairSpec
INVARIANTS
    QueuedMeansArmed
    NeverPopsEmpty
PROPERTIES
    ImplementsContract
    PushedRuns
    IdleQueueSleeps
CHECK_DEADLOCK FALSE
