\* The timer is used on the dispatching thread only.
CONSTANTS
    Main = Main  c1 = c1  x1 = x1  x2 = x2
    Object <- TwoTimers
    Client <- OneClient
    User <- OnlyMain
SPECIFICATION FairSpec
INVARIANTS
    ReadDoesNotBlock
    NoLateCallback
PROPERTY
    SetTimerFires
CHECK_DEADLOCK FALSE
