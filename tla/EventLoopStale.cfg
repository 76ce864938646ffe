\* A client removes an fd whose event dispatch() has already taken from epoll.
CONSTANTS
    f1 = f1  f2 = f2  cb1 = cb1  cb2 = cb2  c1 = c1  c2 = c2
    Pipe = Pipe  PipeCallback = PipeCallback  NoCallback = NoCallback
    Main = Main  NoThread = NoThread
    Fd <- OneFd
    Callback <- OneCallback
    Client <- OneClient
    Mutator <- MainAndOne
    Flusher <- OnlyMain
    PipeCapacity = 1
SPECIFICATION Spec
INVARIANT
    InterruptDoesNotThrow
