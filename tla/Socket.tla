-------------------------------- MODULE Socket --------------------------------
(***************************************************************************)
(* hlib::Socket: a stream that is connected first, or that listens.  Its     *)
(* events are kept in m_events, and given to the event loop if m_connected.  *)
(* The thread that dispatches opens it.                                      *)
(***************************************************************************)
EXTENDS Stream

(* Each opening starts with close(), sets m_events to Read, and adds the      *)
(* descriptor last.  What was requested without a descriptor is kept.        *)
Begin(problems) ==
    /\ kind = "socket" /\ at = "idle" /\ opens < MaxOpens
    /\ opens' = opens + 1
    /\ m_events' = {"Read"}
    /\ IF m_fd THEN m_sink' = NoSink /\ m_queue' = <<>> ELSE UNCHANGED <<m_sink, m_queue>>
    /\ arrived' = 0
    /\ output' = <<>> /\ written' = <<>>
    /\ misuse' = ((IF m_fd THEN {} ELSE misuse) \ {"openedWithError"})
                     \cup {"notReceiving"} \cup problems
    /\ UNCHANGED <<kind, events, requests, reads>>

Added(callback, wanted) ==
    m_fd' = TRUE /\ registered' = [callback |-> callback, events |-> wanted]

(* open(fd): the event loop has it, and it is connected if it has no error.   *)
SocketOpen ==
    /\ \E error \in BOOLEAN :
          /\ Begin(IF error THEN {"openedWithError"} ELSE {})
          /\ m_connected' = ~error
    /\ Added("onSocketEvent", {"Read"})
    /\ peer' = NoPeer
    /\ UNCHANGED <<at, next>>

(* listen(): any call on the way may fail, and leaves no descriptor.          *)
Listen ==
    /\ Begin({})
    /\ \/ Added("onAccept", {"Read"}) /\ peer' = [NoPeer EXCEPT !.connect = "ok"]
       \/ m_fd' = FALSE /\ registered' = NotRegistered /\ peer' = NoPeer
    /\ m_connected' = FALSE
    /\ UNCHANGED <<at, next>>

(* connect(): at once, in progress, or failed.                               *)
Connect ==
    /\ Begin({})
    /\ \/ /\ Added("onSocketEvent", {"Read"}) /\ m_connected' = TRUE
          /\ peer' = NoPeer
          /\ CallBack("connected", "idle")
       \/ /\ Added("onConnect", {"Read", "Write"}) /\ m_connected' = FALSE
          /\ peer' = [NoPeer EXCEPT !.connect = "pending"]
          /\ UNCHANGED <<at, next>>
       \/ /\ m_fd' = FALSE /\ registered' = NotRegistered /\ m_connected' = FALSE
          /\ peer' = NoPeer
          /\ UNCHANGED <<at, next>>

Receive(sink) ==
    /\ kind = "socket" /\ m_fd /\ reads < MaxReads
    /\ sink = NoSink => InCallback
    /\ SetSink(sink)
    /\ reads' = reads + 1
    /\ misuse' = misuse \ {"notReceiving"}
    /\ UNCHANGED <<kind, m_fd, m_connected, m_queue, at, events, next, peer,
                   arrived, opens, requests, output, written>>

(* A request that no event will serve: made without a descriptor, whose       *)
(* m_events the next opening sets to Read; made of a socket that listens, or  *)
(* that was opened with an error and so is not connected; or made by another  *)
(* thread while onConnect() registers the events.                            *)
Unserved ==
    \/ ~m_fd \/ registered.callback = "onAccept" \/ "openedWithError" \in misuse
    \/ at = "connecting" /\ m_queue = <<>>

Send(size) ==
    /\ kind = "socket" /\ requests < MaxRequests
    /\ AddSource([id |-> requests + 1, size |-> size, left |-> size])
    /\ requests' = requests + 1
    /\ misuse' = IF Unserved THEN misuse \cup {"unserved"} ELSE misuse
    /\ UNCHANGED <<kind, m_fd, m_connected, m_sink, at, events, next, peer,
                   arrived, opens, reads, output, written>>

SocketClose ==
    /\ kind = "socket" /\ m_fd
    /\ at = "idle" \/ InCallback
    /\ Close
    /\ misuse' = IF at = "readCallback" THEN misuse \cup {"closedByReader"} ELSE misuse
    /\ UNCHANGED <<kind, at, events, next, peer, counts, output, written>>

-----------------------------------------------------------------------------
(* onAccept(): after an error and its callback it goes on to accept(), which  *)
(* then fails and calls back again.                                          *)
OnAccept ==
    /\ at = "onAccept"
    /\ IF "Hup" \in events THEN CallBack("closing", "accept") ELSE Goto("accept")
    /\ UNCHANGED <<kind, m_fd, m_connected, request, events, peer, counts, history>>

Accept ==
    /\ at = "accept"
    /\ \/ m_fd /\ CallBack("accepted", "idle")
       \/ CallBack("closing", "idle")
    /\ peer' = [peer EXCEPT !.available = 0]
    /\ UNCHANGED <<kind, m_fd, m_connected, request, events, counts, history>>

(* onConnect(): the descriptor is removed and added again with m_events, ...  *)
OnConnect ==
    /\ at = "onConnect"
    /\ IF peer.connect = "error"
         THEN CallBack("closing", "idle") /\ UNCHANGED registered
         ELSE /\ registered' = [callback |-> "onSocketEvent", events |-> m_events]
              /\ Goto("connecting")
    /\ UNCHANGED <<kind, m_fd, m_connected, m_sink, m_queue, m_events, events, peer, counts,
                   history>>

(* ... and then m_connected is set, without m_mutex. *)
SetConnected ==
    /\ at = "connecting"
    /\ m_connected' = TRUE
    /\ CallBack("connected", "idle")
    /\ UNCHANGED <<kind, m_fd, request, events, peer, counts, history>>

(* onEvent(): it is asserted that the socket is connected.  Error or Hup      *)
(* first, and then nothing else; Read; Write.                                *)
OnSocketEvent ==
    /\ at = "onSocketEvent"
    /\ IF ~m_connected THEN Goto("aborted")
       ELSE IF "Hup" \in events THEN CallBack("closing", "idle")
       ELSE Goto("onSocketRead")
    /\ UNCHANGED <<kind, m_fd, m_connected, request, events, peer, counts, history>>

OnSocketRead ==
    /\ at = "onSocketRead"
    /\ IF "Read" \in events
         THEN FillSink("onSocketWrite")
         ELSE /\ Goto("onSocketWrite")
              /\ UNCHANGED <<kind, request, events, peer, counts, history>>
    /\ UNCHANGED <<m_fd, m_connected>>

OnSocketWrite ==
    /\ at = "onSocketWrite"
    /\ IF "Write" \in events
         THEN DrainQueue("idle")
         ELSE /\ Goto("idle")
              /\ UNCHANGED <<kind, request, events, peer, counts, history>>
    /\ UNCHANGED <<m_fd, m_connected>>

SocketNext ==
    \/ SocketOpen \/ Listen \/ Connect
    \/ \E sink \in Sinks : Receive([maximum |-> sink, size |-> 0])
    \/ Receive(NoSink)
    \/ \E size \in Sizes : Send(size)
    \/ SocketClose
    \/ OnAccept \/ Accept \/ OnConnect \/ SetConnected
    \/ OnSocketEvent \/ OnSocketRead \/ OnSocketWrite
=============================================================================
