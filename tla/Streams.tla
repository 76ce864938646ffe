------------------------------- MODULE Streams -------------------------------
(***************************************************************************)
(* A FileDescriptorIO or a Socket, with its peer, the thread that dispatches *)
(* its events and runs its callbacks, and another thread.                    *)
(***************************************************************************)
EXTENDS FileDescriptorIO, Socket

Kernel == Arrive \/ HangUp \/ Connected

Handler ==
    \/ EndOfInput \/ OnEventRead \/ OnEventWrite \/ OnEventHup
    \/ OnAccept \/ Accept \/ OnConnect \/ SetConnected
    \/ OnSocketEvent \/ OnSocketRead \/ OnSocketWrite

Next ==
    /\ at # "aborted"
    /\ Kernel \/ EpollWait \/ Return \/ EndOfInput \/ FdNext \/ SocketNext

(* The thread goes on dispatching, callbacks return, and a connection attempt *)
(* comes to an end; the peer reads.                                          *)
Fairness ==
    /\ WF_streamVars(EpollWait) /\ WF_streamVars(Return) /\ WF_streamVars(Handler)
    /\ WF_streamVars(Connected)

Spec == StreamInit /\ [][Next]_streamVars /\ Fairness

-----------------------------------------------------------------------------
(* What the event loop has registered is what is asked of the descriptor:     *)
(* Read as long as there is a sink, Write as long as there are sources, so    *)
(* that no request is forgotten and no event comes that nothing waits for.    *)
(* A socket has Read from the start, and no request that nothing serves       *)
(* (updateEventsLocked(), read(), write(), onEvent(), onConnect()).           *)
EventsMatchRequests ==
    /\ (registered.callback = "none") <=> ~m_fd
    /\ m_fd /\ m_connected /\ "unserved" \notin misuse =>
           /\ registered.events = m_events
           /\ ("Write" \in m_events) <=> (m_queue # <<>>)
           /\ "notReceiving" \notin misuse => (("Read" \in m_events) <=> (m_sink # NoSink))

(* An assertion of the handler fails only because the reader's callback has   *)
(* closed the descriptor that Write was reported for in the same event,       *)
(* because a socket got data before receive(), or because it was opened with  *)
(* an error (onEvent()).                                                     *)
AssertionsHold ==
    at = "aborted" =>
        \/ "closedByReader" \in misuse /\ "Write" \in events
        \/ "notReceiving" \in misuse /\ "Read" \in events
        \/ "openedWithError" \in misuse

(* The bytes written are those of the sources, in the order of the requests,  *)
(* whole, once, whoever asks and whenever (write(), send(), onEvent()).       *)
OutputIsRequests ==
    m_fd =>
        LET count(id) == Cardinality({k \in DOMAIN output : output[k] = id})
            order == written \o [k \in DOMAIN m_queue |-> m_queue[k].id]
        IN  /\ \A j, k \in DOMAIN order : j < k => order[j] < order[k]
            /\ \A j, k \in DOMAIN output : j < k => output[j] <= output[k]
            /\ \A k \in DOMAIN m_queue :
                   count(m_queue[k].id) = m_queue[k].size - m_queue[k].left
            /\ \A byte \in Range(output) :
                   byte \in Range(written) \cup {m_queue[k].id : k \in DOMAIN m_queue}

(* Refinement of StreamContract: sources behind the first are whole, so that  *)
(* what is left of each comes down to how much of the first is written.       *)
Pending == [k \in DOMAIN m_queue |-> [id |-> m_queue[k].id, size |-> m_queue[k].size]]

Sent == IF m_queue = <<>> THEN 0 ELSE m_queue[1].size - m_queue[1].left

Contract == INSTANCE StreamContract WITH
    open <- m_fd,
    pending <- Pending,
    sent <- Sent,
    issued <- requests

(* Whatever the handlers, callbacks and threads do, a stream goes from one    *)
(* request to the next as StreamContract says, also when it is closed and     *)
(* opened again (write(), send(), onEvent(), open(), close()).                *)
ImplementsContract == Contract!Spec

Waiting(id) ==
    /\ \E k \in DOMAIN m_queue : m_queue[k].id = id
    /\ "unserved" \notin misuse

(* A source that is queued is written, or dropped with the descriptor: no     *)
(* request of another thread is overlooked (write(), send(), onEvent()).      *)
RequestsAreServed ==
    \A id \in 1..MaxRequests :
        Waiting(id) ~> ~Waiting(id) \/ at = "aborted"
=============================================================================
