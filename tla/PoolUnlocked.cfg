\* Two threads get from an empty pool.
CONSTANTS
    t1 = t1  t2 = t2  NoThread = NoThread  NoElement = NoElement
    Thread <- TwoThreads
    Usage <- SharedEmpty
    MaxMade = 2
    MaxHeld = 1
SPECIFICATION Spec
INVARIANT
    FrontTakenLocked
CHECK_DEADLOCK FALSE
