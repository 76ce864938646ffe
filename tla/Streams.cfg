\* A descriptor that is opened, read and written by callbacks and by two threads.
CONSTANTS
    NoSink = NoSink
    Sinks = {0, 2}
    Sizes = {0, 2}
    MaxRequests = 2
    MaxReads = 2
    MaxData = 2
    MaxOpens = 2
SPECIFICATION Spec
INVARIANTS
    EventsMatchRequests
    AssertionsHold
    OutputIsRequests
PROPERTY
    ImplementsContract
    RequestsAreServed
CHECK_DEADLOCK FALSE
