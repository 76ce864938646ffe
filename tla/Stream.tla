-------------------------------- MODULE Stream --------------------------------
(***************************************************************************)
(* What FileDescriptorIO and Socket have in common: a descriptor in an event *)
(* loop, a sink to read to, and a queue of sources to write.  The handler of *)
(* an event works on them under m_mutex, part by part, and calls back with   *)
(* the mutex released: a callback, and at any time another thread, may make  *)
(* requests in between.  The other thread does not close the descriptor or   *)
(* take the sink away; the thread that dispatches may, in a callback.        *)
(***************************************************************************)
EXTENDS Naturals, Sequences, SequencesExt

CONSTANTS
    NoSink,
    Sinks,          \* the maxima of the sinks that are read to (0 is minimal)
    Sizes,          \* the sizes of the sources that are written
    MaxRequests,    \* bound: sources written
    MaxReads,       \* bound: sinks read to
    MaxData,        \* bound: bytes that the peer sends
    MaxOpens        \* bound: times that a descriptor is opened

ASSUME ConstantsAreValid ==
    /\ Sinks \subseteq Nat /\ Sizes \subseteq Nat
    /\ NoSink \notin [maximum : Nat, size : Nat]
    /\ {MaxRequests, MaxReads, MaxData, MaxOpens} \subseteq Nat

VARIABLES
    kind,           \* "fdio" or "socket"
    m_fd,           \* there is a descriptor
    m_connected,    \* of Socket; a FileDescriptorIO is when it is open
    m_events,
    registered,     \* what the event loop has: [callback, events]
    m_sink,         \* NoSink, or [maximum, size]
    m_queue,        \* the sources: [id, left]
    at,             \* where the dispatching thread is
    events,         \* the events of the handler that runs
    next,           \* where it goes on after the callback
    peer,           \* [available, hangup, connect]: what the kernel has
    arrived, opens, requests, reads,
    output,         \* history: the request of every byte written
    written,        \* history: the requests written since the descriptor was opened
    misuse          \* history: what the program did that the code does not cope with

streamVars == <<kind, m_fd, m_connected, m_events, registered, m_sink, m_queue, at,
    events, next, peer, arrived, opens, requests, reads, output, written, misuse>>

request == <<m_sink, m_queue, m_events, registered>>
counts == <<arrived, opens, requests, reads>>
history == <<output, written, misuse>>

Callback == {"readCallback", "writtenCallback", "closing", "connected", "accepted"}
NotRegistered == [callback |-> "none", events |-> {}]
NoPeer == [available |-> 0, hangup |-> "no", connect |-> "none"]

StreamInit ==
    /\ kind \in {"fdio", "socket"}
    /\ m_fd = FALSE /\ m_connected = FALSE
    /\ m_events = {} /\ registered = NotRegistered
    /\ m_sink = NoSink /\ m_queue = <<>>
    /\ at = "idle" /\ events = {} /\ next = "idle"
    /\ peer = NoPeer
    /\ arrived = 0 /\ opens = 0 /\ requests = 0 /\ reads = 0
    /\ output = <<>> /\ written = <<>> /\ misuse = {}

-----------------------------------------------------------------------------
(* The peer and the kernel: data, an orderly end ("half"), a hang-up with or  *)
(* without data left ("full"), the end of a connection attempt.              *)
Arrive ==
    /\ m_fd /\ arrived < MaxData /\ peer.hangup = "no" /\ peer.connect \in {"none", "ok"}
    /\ arrived' = arrived + 1
    /\ peer' = [peer EXCEPT !.available = @ + 1]
    /\ UNCHANGED <<kind, m_fd, m_connected, request, at, events, next, opens, requests,
                   reads, history>>

HangUp ==
    /\ m_fd /\ peer.hangup = "no" /\ peer.connect \in {"none", "ok"}
    /\ \E how \in {"half", "full"} : peer' = [peer EXCEPT !.hangup = how]
    /\ UNCHANGED <<kind, m_fd, m_connected, request, at, events, next, counts, history>>

Connected ==
    /\ peer.connect = "pending"
    /\ \E result \in {"ok", "error"} : peer' = [peer EXCEPT !.connect = result]
    /\ UNCHANGED <<kind, m_fd, m_connected, request, at, events, next, counts, history>>

Ready ==
    (IF peer.available > 0 \/ peer.hangup = "half" THEN {"Read"} ELSE {})
        \cup (IF peer.connect # "pending" THEN {"Write"} ELSE {})

(* epoll_wait(): Hup and Error are reported whether or not they were asked.   *)
EpollWait ==
    /\ at = "idle"
    /\ registered.callback # "none"
    /\ events' = (Ready \cap registered.events)
                     \cup (IF peer.hangup = "full" THEN {"Hup"} ELSE {})
    /\ events' # {}
    /\ at' = registered.callback
    /\ UNCHANGED <<kind, m_fd, m_connected, request, next, peer, counts, history>>

-----------------------------------------------------------------------------
(* Leave a handler, to callbackAndClose(), for the next part, ...             *)
Goto(place) == at' = place /\ UNCHANGED next

CallBack(callback, then) == at' = callback /\ next' = then

(* Mutant of Close: m_events is not reset.                                    *)
CloseKeepsEvents ==
    IF ~m_fd THEN UNCHANGED <<m_fd, m_connected, request>>
    ELSE /\ m_fd' = FALSE /\ m_connected' = FALSE
         /\ registered' = NotRegistered
         /\ m_sink' = NoSink /\ m_queue' = <<>>
         /\ UNCHANGED m_events

(* Mutant of Close: m_queue is not reset.                                     *)
CloseKeepsQueue ==
    IF ~m_fd THEN UNCHANGED <<m_fd, m_connected, request>>
    ELSE /\ m_fd' = FALSE /\ m_connected' = FALSE
         /\ m_events' = {} /\ registered' = NotRegistered
         /\ m_sink' = NoSink
         /\ UNCHANGED m_queue

(* What close() does to a descriptor that is open. *)
Close ==
    IF ~m_fd THEN UNCHANGED <<m_fd, m_connected, request>>
    ELSE /\ m_fd' = FALSE /\ m_connected' = FALSE
         /\ m_events' = {} /\ registered' = NotRegistered
         /\ m_sink' = NoSink /\ m_queue' = <<>>

(* The callback returns.  callbackAndClose() then closes the descriptor.      *)
Return ==
    /\ at \in Callback
    /\ IF at = "closing"
         THEN Close /\ at' = next
         ELSE at' = next /\ UNCHANGED <<m_fd, m_connected, request>>
    /\ next' = "idle"
    /\ UNCHANGED <<kind, events, peer, counts, history>>

-----------------------------------------------------------------------------
(* Mutant of UpdateEventsLocked: the event loop is not told.                  *)
UpdateEventsUntold(wanted) == m_events' = wanted /\ UNCHANGED registered

(* The event loop is told when the descriptor is connected, as that of a      *)
(* FileDescriptorIO is whenever it is open.                                  *)
UpdateEventsLocked(wanted) ==
    /\ m_events' = wanted
    /\ registered' = IF m_connected THEN [registered EXCEPT !.events = wanted]
                     ELSE registered

(* The part for Read, under m_mutex: the sink gets what is available and it   *)
(* has room for.  A buffer with nothing in it cannot produce nothing: at the  *)
(* end of the input a minimal sink runs out of memory.  "done" is where the   *)
(* handler goes on.                                                          *)
Headroom == m_sink.maximum - m_sink.size

FillSink(done) ==
    /\ UNCHANGED <<kind, m_fd, m_connected, m_queue, events, counts, history>>
    /\ IF m_sink = NoSink
         THEN Goto("aborted") /\ UNCHANGED <<request, peer>>
         ELSE LET size == IF m_sink.maximum = 0 \/ Headroom > peer.available
                            THEN peer.available ELSE Headroom
                  full == m_sink.maximum = 0 \/ size = Headroom
              IN  \/ CallBack("closing", "idle") /\ UNCHANGED <<request, peer>>
                  \/ /\ size = 0 /\ m_sink.maximum > 0
                     /\ UpdateEventsLocked(m_events \ {"Read"})
                     /\ m_sink' = NoSink
                     /\ CallBack("readCallback", "eof")
                     /\ UNCHANGED peer
                  \/ /\ size > 0
                     /\ peer' = [peer EXCEPT !.available = @ - size]
                     /\ IF full
                          THEN /\ UpdateEventsLocked(m_events \ {"Read"})
                               /\ m_sink' = NoSink
                               /\ CallBack("readCallback", done)
                          ELSE /\ m_sink' = [m_sink EXCEPT !.size = @ + size]
                               /\ Goto(done)
                               /\ UNCHANGED <<m_events, registered>>

(* After the callback at the end of the input: callbackAndClose(0). *)
EndOfInput ==
    /\ at = "eof"
    /\ CallBack("closing", "idle")
    /\ UNCHANGED <<kind, m_fd, m_connected, request, events, peer, counts, history>>

(* The part for Write, under m_mutex: some of the first source is written, or *)
(* write() fails, as it does on a descriptor that a callback has closed.     *)
DrainQueue(done) ==
    /\ UNCHANGED <<kind, m_fd, m_connected, m_sink, events, peer, counts, misuse>>
    /\ IF m_queue = <<>>
         THEN Goto("aborted") /\ UNCHANGED <<request, output, written>>
         ELSE \/ CallBack("closing", "idle") /\ UNCHANGED <<request, output, written>>
              \/ \E size \in 0 .. Head(m_queue).left :
                    LET first == Head(m_queue) IN
                    /\ m_fd
                    /\ size = 0 => first.left = 0
                    /\ output' = output \o [k \in 1..size |-> first.id]
                    /\ IF size < first.left
                         THEN /\ m_queue' = [m_queue EXCEPT ![1].left = @ - size]
                              /\ Goto(done)
                              /\ UNCHANGED <<m_events, registered, written>>
                         ELSE /\ m_queue' = Tail(m_queue)
                              /\ written' = Append(written, first.id)
                              /\ IF Len(m_queue) = 1
                                   THEN UpdateEventsLocked(m_events \ {"Write"})
                                   ELSE UNCHANGED <<m_events, registered>>
                              /\ CallBack("writtenCallback", done)

(* read(sink) and receive(sink); with no sink they stop reading.              *)
SetSink(sink) ==
    LET wanted == IF sink = NoSink THEN m_events \ {"Read"} ELSE m_events \cup {"Read"}
    IN  /\ IF wanted # m_events THEN UpdateEventsLocked(wanted)
           ELSE UNCHANGED <<m_events, registered>>
        /\ m_sink' = sink

(* write(source) and send(source).                                           *)
AddSource(source) ==
    LET wanted == IF m_queue = <<>> THEN m_events \cup {"Write"} ELSE m_events
    IN  /\ m_queue' = Append(m_queue, source)
        /\ IF wanted # m_events THEN UpdateEventsLocked(wanted)
           ELSE UNCHANGED <<m_events, registered>>

(* A handler's part runs under m_mutex: the other thread's requests come      *)
(* between the parts.                                                        *)
InCallback == at \in Callback
=============================================================================
