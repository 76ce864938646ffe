\* One thread gets two elements of a pool with a maximum of one, and puts them back.
CONSTANTS
    t1 = t1  t2 = t2  NoThread = NoThread  NoElement = NoElement
    Thread <- TwoThreads
    Usage <- MaximumOne
    MaxMade = 2
    MaxHeld = 2
SPECIFICATION Spec
INVARIANT
    PutAsserts
CHECK_DEADLOCK FALSE
