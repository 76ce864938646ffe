\* Three threads count down by one or two, wait, or do both; threads that never
\* find the pool empty, or one thread alone; three signals; nested apply() calls;
\* a child that writes up to two bytes to each of its pipes.
CONSTANTS
    t1 = t1  t2 = t2  t3 = t3  NoThread = NoThread  NoElement = NoElement
    Thread <- ThreeThreads
    Expected = 3
    Step <- OneOrTwo
    MaxCalls = 4
    Usage <- SafeUsage
    MaxMade = 5
    MaxHeld = 2
    Signal <- MCSignal
    Uncatchable <- MCUncatchable
    MaxSignals = 4
    State = {"off", "on", "up"}
    Event = {"go", "stop"}
    Machine <- MCMachine
    MaxDepth = 3
    Capacity = 1
    InputSizes = {0, 1}
    MaxOutput = 2
    MaxRequests = 1
SPECIFICATION Spec
INVARIANTS
    CountIsExact
    ElementsAreExclusive
    HandlersMatchActions
    StateFollowsEvents
    OutputIsRead
PROPERTIES
    WaitersLeave
    RunReturns
CHECK_DEADLOCK FALSE
