\* Only Main changes registrations, and nobody flushes; a client interrupts.
CONSTANTS
    f1 = f1  f2 = f2  cb1 = cb1  cb2 = cb2  c1 = c1  c2 = c2
    Pipe = Pipe  PipeCallback = PipeCallback  NoCallback = NoCallback
    Main = Main  NoThread = NoThread
    Fd <- TwoFds
    Callback <- TwoCallbacks
    Client <- OneClient
    Mutator <- OnlyMain
    Flusher <- Nobody
    PipeCapacity = 2
SPECIFICATION FairSpec
INVARIANT
    CallbackIsCurrent
PROPERTIES
    ImplementsContract
    InterruptEndsDispatch
    ReadyFdIsServed
