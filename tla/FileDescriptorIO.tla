--------------------------- MODULE FileDescriptorIO ---------------------------
(***************************************************************************)
(* hlib::FileDescriptorIO: the operations, and the handler of its events.    *)
(* Requests are made of a descriptor that is open: the event loop asserts it. *)
(***************************************************************************)
EXTENDS Stream

(* open(fd): closes what was open; the event loop gets m_events, which close() *)
(* has reset.                                                                *)
Open ==
    /\ kind = "fdio" /\ at = "idle" /\ opens < MaxOpens
    /\ m_fd' = TRUE /\ m_connected' = TRUE
    /\ m_events' = IF m_fd THEN {} ELSE m_events
    /\ registered' = [callback |-> "onEvent", events |-> m_events']
    /\ m_sink' = NoSink /\ m_queue' = <<>>
    /\ peer' = NoPeer
    /\ arrived' = 0 /\ opens' = opens + 1
    /\ output' = <<>> /\ written' = <<>> /\ misuse' = {}
    /\ UNCHANGED <<kind, at, events, next, requests, reads>>

Read(sink) ==
    /\ kind = "fdio" /\ m_fd /\ reads < MaxReads
    /\ sink = NoSink => InCallback
    /\ SetSink(sink)
    /\ reads' = reads + 1
    /\ UNCHANGED <<kind, m_fd, m_connected, m_queue, at, events, next, peer,
                   arrived, opens, requests, history>>

(* Mutant of FdWrite: the events are not updated.                             *)
FdWriteUnregistered(size) ==
    /\ kind = "fdio" /\ m_fd /\ requests < MaxRequests
    /\ m_queue' = Append(m_queue, [id |-> requests + 1, size |-> size, left |-> size])
    /\ requests' = requests + 1
    /\ UNCHANGED <<kind, m_fd, m_connected, m_sink, m_events, registered, at, events,
                   next, peer, arrived, opens, reads, history>>

(* Mutant of FdWrite: the source goes to the front of the queue.              *)
FdWriteFirst(size) ==
    /\ kind = "fdio" /\ m_fd /\ requests < MaxRequests
    /\ m_queue = <<>> => UpdateEventsLocked(m_events \cup {"Write"})
    /\ m_queue # <<>> => UNCHANGED <<m_events, registered>>
    /\ m_queue' = <<[id |-> requests + 1, size |-> size, left |-> size]>> \o m_queue
    /\ requests' = requests + 1
    /\ UNCHANGED <<kind, m_fd, m_connected, m_sink, at, events, next, peer,
                   arrived, opens, reads, history>>

FdWrite(size) ==
    /\ kind = "fdio" /\ m_fd /\ requests < MaxRequests
    /\ AddSource([id |-> requests + 1, size |-> size, left |-> size])
    /\ requests' = requests + 1
    /\ UNCHANGED <<kind, m_fd, m_connected, m_sink, at, events, next, peer,
                   arrived, opens, reads, history>>

(* close(), in a callback or between two dispatches. *)
FdClose ==
    /\ kind = "fdio" /\ m_fd
    /\ at = "idle" \/ InCallback
    /\ Close
    /\ misuse' = IF at = "readCallback" THEN misuse \cup {"closedByReader"} ELSE misuse
    /\ UNCHANGED <<kind, at, events, next, peer, counts, output, written>>

-----------------------------------------------------------------------------
(* onEvent(): Read, Write, and then Error or Hup. *)
OnEventRead ==
    /\ at = "onEvent"
    /\ IF "Read" \in events
         THEN FillSink("onEventWrite")
         ELSE /\ Goto("onEventWrite")
              /\ UNCHANGED <<kind, m_fd, m_connected, request, events, peer, counts, history>>
    /\ UNCHANGED <<m_fd, m_connected>>

OnEventWrite ==
    /\ at = "onEventWrite"
    /\ IF "Write" \in events
         THEN DrainQueue("onEventHup")
         ELSE /\ Goto("onEventHup")
              /\ UNCHANGED <<kind, request, events, peer, counts, history>>
    /\ UNCHANGED <<m_fd, m_connected>>

OnEventHup ==
    /\ at = "onEventHup"
    /\ IF "Hup" \in events THEN CallBack("closing", "idle") ELSE Goto("idle")
    /\ UNCHANGED <<kind, m_fd, m_connected, request, events, peer, counts, history>>

FdNext ==
    \/ Open
    \/ \E sink \in Sinks : Read([maximum |-> sink, size |-> 0])
    \/ Read(NoSink)
    \/ \E size \in Sizes : FdWrite(size)
    \/ FdClose
    \/ OnEventRead \/ OnEventWrite \/ OnEventHup
=============================================================================
