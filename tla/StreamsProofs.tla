---------------------------- MODULE StreamsProofs -----------------------------
(***************************************************************************)
(* Proofs about Streams, for any sinks, sources and bounds.                  *)
(***************************************************************************)
EXTENDS Streams, FiniteSetTheorems, SequenceTheorems, TLAPS

-----------------------------------------------------------------------------
Asked == {"Read", "Write"}
Sink == [maximum : Nat, size : Nat]
Source == [id : Nat, size : Nat, left : Nat]
Registration ==
    [callback : {"none", "onEvent", "onSocketEvent", "onAccept", "onConnect"},
     events : SUBSET Asked]
Peer ==
    [available : Nat, hangup : {"no", "half", "full"},
     connect : {"none", "pending", "ok", "error"}]

StreamTypes ==
    /\ m_events \subseteq Asked
    /\ registered \in Registration
    /\ m_sink \in Sink \cup {NoSink}
    /\ m_queue \in Seq(Source)
    /\ peer \in Peer
    /\ requests \in Nat /\ output \in Seq(Nat) /\ written \in Seq(Nat)

(* Where a callback returns to.                                               *)
CallbacksReturn ==
    /\ at = "readCallback" => next \in {"onEventWrite", "onSocketWrite", "eof"}
    /\ at = "writtenCallback" => next \in {"onEventHup", "idle"}
    /\ at = "closing" => next \in {"accept", "idle"}
    /\ at \in {"connected", "accepted"} => next = "idle"

(* The descriptor, its registration and the connection.  An attempt to        *)
(* connect has Read from the start, and nothing takes it away.               *)
ConnectionsFit ==
    /\ registered.callback = "none" <=> ~m_fd
    /\ m_connected => m_fd
    /\ registered.callback = "onEvent" => m_connected
    /\ registered.callback = "onSocketEvent" =>
           m_connected \/ at = "connecting" \/ "openedWithError" \in misuse
    /\ registered.callback = "onConnect" =>
           /\ kind = "socket" /\ at \in {"idle", "onConnect", "closing"}
           /\ at # "closing" => "Read" \in m_events
    /\ at = "onConnect" => registered.callback = "onConnect"
    /\ at = "onSocketEvent" => registered.callback = "onSocketEvent"
    /\ at = "connecting" =>
           /\ kind = "socket" /\ registered.callback = "onSocketEvent"
           /\ "Read" \in m_events

(* What is registered is what is asked, but for sources that were sent in     *)
(* vain: their Write is missing.                                             *)
EventsFit ==
    /\ m_fd => ("Write" \in m_events => m_queue # <<>>)
    /\ m_fd /\ "unserved" \notin misuse => (m_queue # <<>> => "Write" \in m_events)
    /\ m_fd /\ "notReceiving" \notin misuse => ("Read" \in m_events <=> m_sink # NoSink)
    /\ m_connected \/ at = "connecting" =>
           /\ "Read" \in registered.events <=> "Read" \in m_events
           /\ "Write" \in registered.events => "Write" \in m_events
           /\ "unserved" \notin misuse => registered.events = m_events
    /\ ~m_fd => m_sink = NoSink
    /\ ~m_fd /\ "unserved" \notin misuse => m_queue = <<>>
    /\ kind = "fdio" => "unserved" \notin misuse /\ "notReceiving" \notin misuse
    /\ kind = "fdio" /\ ~m_fd => m_events = {}

(* A handler finds what the events it was given promise, unless the socket    *)
(* was opened with an error: then its events are not kept up to date.        *)
HandlersFit ==
    /\ at \in {"onEvent", "onSocketEvent", "onSocketRead"} /\ "Read" \in events =>
           m_sink # NoSink \/ "notReceiving" \in misuse \/ "openedWithError" \in misuse
    /\ /\ \/ at \in {"onEvent", "onEventWrite", "onSocketEvent", "onSocketRead", "onSocketWrite"}
          \/ at = "readCallback" /\ next # "eof"
       /\ "Write" \in events
       => m_queue # <<>> \/ "closedByReader" \in misuse \/ "openedWithError" \in misuse
    /\ AssertionsHold

(* Sources have increasing numbers, and those behind the first are whole;     *)
(* what is written came before them.                                         *)
SourcesFit ==
    /\ \A k \in DOMAIN m_queue :
           /\ m_queue[k].id <= requests
           /\ m_queue[k].left <= m_queue[k].size
           /\ k > 1 \/ ~m_fd => m_queue[k].left = m_queue[k].size
           /\ \A j \in DOMAIN m_queue : j < k => m_queue[j].id < m_queue[k].id
           /\ \A j \in DOMAIN written : written[j] < m_queue[k].id
    /\ \A k \in DOMAIN written :
           /\ written[k] <= requests
           /\ \A j \in DOMAIN written : j < k => written[j] < written[k]

Count(s, e) == Cardinality({k \in DOMAIN s : s[k] = e})

OutputFits ==
    m_fd =>
        /\ \A j, k \in DOMAIN output : j < k => output[j] <= output[k]
        /\ \A k \in DOMAIN m_queue :
               Count(output, m_queue[k].id) = m_queue[k].size - m_queue[k].left
        /\ \A j \in DOMAIN output :
               \/ \E k \in DOMAIN written : output[j] = written[k]
               \/ \E k \in DOMAIN m_queue : output[j] = m_queue[k].id

StreamInv ==
    /\ StreamTypes /\ CallbacksReturn /\ ConnectionsFit /\ EventsFit /\ HandlersFit
    /\ SourcesFit /\ OutputFits

LEMMA StreamInitially == StreamInit => StreamInv
  <1> SUFFICES ASSUME StreamInit PROVE StreamInv
    OBVIOUS
  <1>1. StreamTypes
    <2>1. registered = [callback |-> "none", events |-> {}]
          /\ peer = [available |-> 0, hangup |-> "no", connect |-> "none"]
      BY DEF StreamInit, NotRegistered, NoPeer
    <2> QED
      BY <2>1 DEF StreamInit, StreamTypes, Asked, Registration, Peer
  <1>2. CallbacksReturn /\ ConnectionsFit /\ EventsFit /\ HandlersFit
    BY DEF StreamInit, NotRegistered, CallbacksReturn, ConnectionsFit, EventsFit, HandlersFit,
        AssertionsHold
  <1>3. SourcesFit /\ OutputFits
    BY DEF StreamInit, SourcesFit, OutputFits
  <1> QED
    BY <1>1, <1>2, <1>3 DEF StreamInv

-----------------------------------------------------------------------------
(* An opening of a socket, with or without an error.                          *)
BeginsOpening == \E problems \in SUBSET {"openedWithError"} : Begin(problems)

LEMMA OpeningsBegin == ASSUME SocketOpen \/ Listen \/ Connect PROVE BeginsOpening
  <1>1. CASE SocketOpen
    <2>1. PICK error \in BOOLEAN : Begin(IF error THEN {"openedWithError"} ELSE {})
      BY <1>1 DEF SocketOpen
    <2> QED
      BY <2>1 DEF BeginsOpening
  <1>2. CASE Listen \/ Connect
    BY <1>2 DEF Listen, Connect, BeginsOpening
  <1> QED
    BY <1>1, <1>2

(* What the parts of the handlers and of the requests do.                     *)
Told(wanted) ==
    /\ m_events' = wanted
    /\ registered' \in Registration
    /\ registered'.callback = registered.callback
    /\ IF m_connected THEN registered'.events = wanted ELSE registered' = registered

LEMMA UpdatedEvents ==
    ASSUME StreamTypes, NEW wanted \in SUBSET Asked, UpdateEventsLocked(wanted)
    PROVE  Told(wanted)
  BY DEF StreamTypes, UpdateEventsLocked, Registration, Told

LEMMA SinkSet ==
    ASSUME StreamTypes, NEW sink \in Sink \cup {NoSink}, SetSink(sink)
    PROVE  /\ m_sink' = sink
           /\ LET wanted == IF sink = NoSink THEN m_events \ {"Read"} ELSE m_events \cup {"Read"}
              IN  Told(wanted) \/ (wanted = m_events /\ UNCHANGED <<m_events, registered>>)
  <1> DEFINE wanted == IF sink = NoSink THEN m_events \ {"Read"} ELSE m_events \cup {"Read"}
  <1>1. wanted \in SUBSET Asked
    BY DEF StreamTypes, Asked
  <1>2. /\ m_sink' = sink
        /\ IF wanted # m_events THEN UpdateEventsLocked(wanted)
           ELSE UNCHANGED <<m_events, registered>>
    BY DEF SetSink
  <1> HIDE DEF wanted
  <1>3. CASE wanted # m_events
    BY <1>1, <1>2, <1>3, UpdatedEvents DEF wanted
  <1>4. CASE wanted = m_events
    BY <1>2, <1>4 DEF wanted
  <1> QED
    BY <1>3, <1>4

LEMMA SourceAdded ==
    ASSUME StreamTypes, NEW source \in Source, AddSource(source)
    PROVE  /\ m_queue' = Append(m_queue, source)
           /\ LET wanted == IF m_queue = <<>> THEN m_events \cup {"Write"} ELSE m_events
              IN  Told(wanted) \/ (wanted = m_events /\ UNCHANGED <<m_events, registered>>)
  <1> DEFINE wanted == IF m_queue = <<>> THEN m_events \cup {"Write"} ELSE m_events
  <1>1. wanted \in SUBSET Asked
    BY DEF StreamTypes, Asked
  <1>2. /\ m_queue' = Append(m_queue, source)
        /\ IF wanted # m_events THEN UpdateEventsLocked(wanted)
           ELSE UNCHANGED <<m_events, registered>>
    BY DEF AddSource
  <1> HIDE DEF wanted
  <1>3. CASE wanted # m_events
    BY <1>1, <1>2, <1>3, UpdatedEvents DEF wanted
  <1>4. CASE wanted = m_events
    BY <1>2, <1>4 DEF wanted
  <1> QED
    BY <1>3, <1>4

(* The part for Read: it fails, ends the input or fills the sink.             *)
LEMMA SinkFilled ==
    ASSUME StreamTypes, NEW done, FillSink(done)
    PROVE  /\ UNCHANGED <<kind, m_fd, m_connected, m_queue, events, counts, history>>
           /\ m_sink' \in Sink \cup {NoSink}
           /\ peer' \in Peer
           /\ \/ at' = "aborted" /\ m_sink = NoSink /\ UNCHANGED <<next, request>>
              \/ at' = "closing" /\ next' = "idle" /\ m_sink # NoSink /\ UNCHANGED request
              \/ /\ at' = "readCallback" /\ next' \in {"eof", done} /\ m_sink # NoSink
                 /\ m_sink' = NoSink /\ Told(m_events \ {"Read"})
              \/ /\ at' = done /\ m_sink # NoSink /\ m_sink' # NoSink
                 /\ UNCHANGED <<next, m_events, registered>>
  <1> DEFINE size == IF m_sink.maximum = 0 \/ Headroom > peer.available
                       THEN peer.available ELSE Headroom
             full == m_sink.maximum = 0 \/ size = Headroom
  <1>1. CASE m_sink = NoSink
    BY <1>1 DEF FillSink, Goto, request, StreamTypes
  <1>2. CASE m_sink # NoSink
    <2>1. m_sink \in Sink /\ peer.available \in Nat /\ size \in Int /\ size <= peer.available
      BY <1>2 DEF StreamTypes, Sink, Peer, Headroom
    <2>2. ASSUME size > 0
          PROVE  /\ [peer EXCEPT !.available = @ - size] \in Peer
                 /\ [m_sink EXCEPT !.size = @ + size] \in Sink
      <3>1. /\ size \in Nat /\ peer.available - size \in Nat
            /\ m_sink.size \in Nat /\ m_sink.size + size \in Nat
        BY <2>1, <2>2 DEF StreamTypes, Sink, Peer
      <3> HIDE DEF size
      <3> QED
        BY <2>1, <3>1 DEF StreamTypes, Sink, Peer
    <2>3. /\ UNCHANGED <<kind, m_fd, m_connected, m_queue, events, counts, history>>
          /\ \/ CallBack("closing", "idle") /\ UNCHANGED <<request, peer>>
             \/ /\ UpdateEventsLocked(m_events \ {"Read"})
                /\ m_sink' = NoSink
                /\ CallBack("readCallback", "eof")
                /\ UNCHANGED peer
             \/ /\ size > 0
                /\ peer' = [peer EXCEPT !.available = @ - size]
                /\ IF full
                     THEN /\ UpdateEventsLocked(m_events \ {"Read"})
                          /\ m_sink' = NoSink
                          /\ CallBack("readCallback", done)
                     ELSE /\ m_sink' = [m_sink EXCEPT !.size = @ + size]
                          /\ Goto(done)
                          /\ UNCHANGED <<m_events, registered>>
      BY <1>2 DEF FillSink
    <2> HIDE DEF size, full
    <2>4. NoSink \notin Sink
      BY ConstantsAreValid DEF Sink
    <2>5. UpdateEventsLocked(m_events \ {"Read"}) => Told(m_events \ {"Read"})
      BY UpdatedEvents DEF StreamTypes
    <2> QED
      BY <1>2, <2>1, <2>2, <2>3, <2>4, <2>5 DEF CallBack, Goto, request, StreamTypes
  <1> QED
    BY <1>1, <1>2

(* A queue whose first source was written in part, or was taken away.         *)
LEMMA FirstWritten ==
    ASSUME NEW s \in Seq(Source), s # <<>>, NEW n \in 0..s[1].left, n < s[1].left,
           NEW t, t = [s EXCEPT ![1].left = @ - n]
    PROVE  /\ t \in Seq(Source) /\ t # <<>>
           /\ DOMAIN t = DOMAIN s
           /\ \A k \in DOMAIN s :
                  /\ t[k].id = s[k].id /\ t[k].size = s[k].size
                  /\ t[k].left = IF k = 1 THEN s[1].left - n ELSE s[k].left
  <1> DEFINE first == s[1]
             rest == [first EXCEPT !.left = @ - n]
  <1>1. Len(s) \in Nat \ {0} /\ DOMAIN s = 1..Len(s) /\ 1 \in 1..Len(s)
    BY EmptySeq, LenProperties
  <1>2. first \in Source
    BY <1>1
  <1>3. t = [s EXCEPT ![1] = rest]
    OBVIOUS
  <1>4. n \in 0..first.left
    OBVIOUS
  <1> HIDE DEF first
  <1>5. /\ rest \in Source /\ rest.id = first.id /\ rest.size = first.size
        /\ rest.left = first.left - n
    <2>1. first.left \in Nat /\ n \in Nat /\ first.left - n \in Nat
      BY <1>2, <1>4 DEF Source
    <2> DEFINE m == first.left - n
    <2>2. rest = [first EXCEPT !.left = m] /\ m \in Nat
      BY <2>1
    <2> HIDE DEF m, rest
    <2>3. /\ rest \in Source /\ rest.id = first.id /\ rest.size = first.size /\ rest.left = m
      BY <1>2, <2>2 DEF Source
    <2> QED
      BY <2>3 DEF m
  <1> HIDE DEF rest
  <1>6. /\ t \in Seq(Source) /\ Len(t) = Len(s)
        /\ \A k \in 1..Len(s) : t[k] = IF k = 1 THEN rest ELSE s[k]
    BY <1>1, <1>3, <1>5, ExceptSeq
  <1>7. t # <<>> /\ DOMAIN t = 1..Len(s)
    BY <1>1, <1>6, EmptySeq, LenProperties
  <1> QED
    BY <1>1, <1>5, <1>6, <1>7 DEF first

LEMMA FirstTaken ==
    ASSUME NEW S, NEW s \in Seq(S), s # <<>>
    PROVE  /\ Len(s) \in Nat \ {0} /\ DOMAIN s = 1..Len(s) /\ s[1] \in S /\ Head(s) = s[1]
           /\ Tail(s) \in Seq(S) /\ DOMAIN Tail(s) = 1..(Len(s) - 1)
           /\ \A k \in 1..(Len(s) - 1) : Tail(s)[k] = s[k + 1]
           /\ Tail(s) = <<>> <=> Len(s) = 1
  <1>1. Len(s) \in Nat \ {0} /\ DOMAIN s = 1..Len(s) /\ 1 \in 1..Len(s)
    BY EmptySeq, LenProperties
  <1>2. /\ Tail(s) \in Seq(S) /\ Len(Tail(s)) = Len(s) - 1
        /\ \A k \in 1..Len(Tail(s)) : Tail(s)[k] = s[k + 1]
    BY HeadTailProperties
  <1>3. Tail(s) = <<>> <=> Len(Tail(s)) = 0
    BY <1>2, EmptySeq
  <1> QED
    BY <1>1, <1>2, <1>3, LenProperties

(* Bytes written after others.                                               *)
LEMMA BytesWritten ==
    ASSUME NEW s \in Seq(Nat), NEW n \in Nat, NEW id \in Nat, NEW t,
           t = s \o [k \in 1..n |-> id]
    PROVE  /\ t \in Seq(Nat) /\ DOMAIN s = 1..Len(s) /\ Len(s) \in Nat
           /\ DOMAIN t = 1..(Len(s) + n)
           /\ \A k \in 1..(Len(s) + n) : t[k] = IF k <= Len(s) THEN s[k] ELSE id
  <1> DEFINE bytes == [k \in 1..n |-> id]
  <1>1. bytes \in Seq(Nat)
    BY IsASeq
  <1>2. Len(bytes) = n /\ \A k \in 1..n : bytes[k] = id
    BY <1>1, LenProperties
  <1> HIDE DEF bytes
  <1>3. t = s \o bytes
    BY DEF bytes
  <1>4. /\ t \in Seq(Nat) /\ Len(t) = Len(s) + n
        /\ \A k \in 1..(Len(s) + n) :
               t[k] = IF k <= Len(s) THEN s[k] ELSE bytes[k - Len(s)]
    <2>1. /\ s \o bytes \in Seq(Nat) /\ Len(s \o bytes) = Len(s) + Len(bytes)
          /\ \A k \in 1..(Len(s) + Len(bytes)) :
                 (s \o bytes)[k] = IF k <= Len(s) THEN s[k] ELSE bytes[k - Len(s)]
      BY <1>1, ConcatProperties
    <2> QED
      BY <1>2, <1>3, <2>1
  <1>5. Len(s) \in Nat /\ DOMAIN s = 1..Len(s) /\ DOMAIN t = 1..(Len(s) + n)
    BY <1>4, LenProperties
  <1>6. ASSUME NEW k \in 1..(Len(s) + n), ~(k <= Len(s)) PROVE bytes[k - Len(s)] = id
    <2>1. k - Len(s) \in 1..n
      BY <1>5, <1>6
    <2> QED
      BY <1>2, <2>1
  <1> QED
    BY <1>4, <1>5, <1>6

(* The part for Write: it fails, or writes some of the first source.          *)
LEMMA QueueDrained ==
    ASSUME StreamTypes, NEW done, DrainQueue(done)
    PROVE  /\ UNCHANGED <<kind, m_fd, m_connected, m_sink, events, peer, counts, misuse>>
           /\ \/ at' = "aborted" /\ m_queue = <<>> /\ UNCHANGED <<next, request, output, written>>
              \/ at' = "closing" /\ next' = "idle" /\ UNCHANGED <<request, output, written>>
              \/ \E size \in 0..m_queue[1].left :
                    /\ m_fd /\ m_queue # <<>> /\ m_queue[1] \in Source /\ size \in Nat
                    /\ output' = output \o [k \in 1..size |-> m_queue[1].id]
                    /\ \/ /\ size < m_queue[1].left
                          /\ m_queue' = [m_queue EXCEPT ![1].left = @ - size]
                          /\ at' = done
                          /\ UNCHANGED <<next, m_events, registered, written>>
                       \/ /\ size = m_queue[1].left
                          /\ m_queue' = Tail(m_queue)
                          /\ written' = Append(written, m_queue[1].id)
                          /\ IF Len(m_queue) = 1
                               THEN Told(m_events \ {"Write"})
                               ELSE UNCHANGED <<m_events, registered>>
                          /\ at' = "writtenCallback" /\ next' = done
  <1>1. m_queue # <<>> => Head(m_queue) = m_queue[1] /\ m_queue[1] \in Source
    BY FirstTaken DEF StreamTypes
  <1>2. CASE m_queue = <<>>
    BY <1>2 DEF DrainQueue, Goto
  <1>3. CASE m_queue # <<>>
    <2> DEFINE first == m_queue[1]
    <2>1. first.left \in Nat
      BY <1>1, <1>3 DEF Source
    <2>2. \A size \in 0..first.left : size \in Nat /\ (~(size < first.left) => size = first.left)
      BY <2>1
    <2>3. UpdateEventsLocked(m_events \ {"Write"}) => Told(m_events \ {"Write"})
      BY UpdatedEvents DEF StreamTypes
    <2> QED
      BY <1>1, <1>3, <2>2, <2>3 DEF DrainQueue, CallBack, Goto
  <1> QED
    BY <1>2, <1>3

-----------------------------------------------------------------------------
(* Each part of the invariant, action by action.                              *)
LEMMA TypesStep == ASSUME StreamInv, Next PROVE StreamTypes'
  <1> USE DEF StreamInv
  <1>1. CASE Kernel
    <2>1. peer' \in Peer
      BY <1>1 DEF Kernel, Arrive, HangUp, Connected, StreamTypes, Peer,
        request, counts, history
    <2> QED
      BY <1>1, <2>1 DEF Kernel, Arrive, HangUp, Connected, StreamTypes,
        request, counts, history
  <1>2. CASE EpollWait \/ EndOfInput \/ OnEventHup \/ OnAccept \/ OnSocketEvent
    BY <1>2 DEF EpollWait, EndOfInput, OnEventHup, OnAccept, OnSocketEvent, StreamTypes,
        request, counts, history
  <1>3. CASE Return \/ FdClose \/ SocketClose
    <2>1. \/ Close
          \/ UNCHANGED <<m_fd, m_connected, request>>
      BY <1>3 DEF Return, FdClose, SocketClose,
        request, counts, history
    <2>2. /\ UNCHANGED <<peer, counts, output, written>>
      BY <1>3 DEF Return, FdClose, SocketClose,
        request, counts, history
    <2>3. NotRegistered \in Registration
      BY DEF NotRegistered, Registration
    <2>4. \/ UNCHANGED request
          \/ /\ m_events' = {} /\ registered' = NotRegistered
             /\ m_sink' = NoSink /\ m_queue' = <<>>
      BY <2>1 DEF Close
    <2> QED
      BY <2>2, <2>3, <2>4, EmptySeq DEF StreamTypes, request, counts
  <1>4. CASE Open \/ SocketOpen \/ Listen \/ Connect
    <2>0. /\ {} \in SUBSET Asked /\ {"Read"} \in SUBSET Asked /\ {"Read", "Write"} \in SUBSET Asked
          /\ m_events \in SUBSET Asked
          /\ \A c \in {"none", "onEvent", "onSocketEvent", "onAccept", "onConnect"} :
                 \A E \in SUBSET Asked : [callback |-> c, events |-> E] \in Registration
      BY DEF Asked, Registration, StreamTypes
    <2>1. registered' \in Registration /\ m_events' \in SUBSET Asked
      <3>1. CASE Open
        BY <2>0, <3>1 DEF Open
      <3>2. ASSUME BeginsOpening PROVE m_events' \in SUBSET Asked
        BY <2>0, <3>2 DEF BeginsOpening, Begin
      <3>3. CASE SocketOpen
        BY <2>0, <3>2, <3>3, OpeningsBegin DEF SocketOpen, Added
      <3>4. CASE Listen
        BY <2>0, <3>2, <3>4, OpeningsBegin DEF Listen, Added, NotRegistered
      <3>5. CASE Connect
        BY <2>0, <3>2, <3>5, OpeningsBegin DEF Connect, Added, NotRegistered
      <3> QED
        BY <1>4, <3>1, <3>3, <3>4, <3>5
    <2>2. peer' \in Peer
      BY <1>4 DEF Open, SocketOpen, Listen, Connect, NoPeer, Peer
    <2>3. /\ m_sink' \in {NoSink, m_sink} /\ m_queue' \in {<<>>, m_queue}
          /\ output' = <<>> /\ written' = <<>> /\ requests' = requests
      <3>1. CASE Open
        BY <3>1 DEF Open
      <3>2. CASE BeginsOpening
        BY <3>2 DEF BeginsOpening, Begin
      <3> QED
        BY <1>4, <3>1, <3>2, OpeningsBegin
    <2> QED
      BY <2>1, <2>2, <2>3, EmptySeq DEF StreamTypes
  <1>5. CASE Accept \/ OnConnect \/ SetConnected
    <2>1. registered' \in Registration /\ peer' \in Peer
      BY <1>5 DEF Accept, OnConnect, SetConnected, StreamTypes, Registration, Peer,
        request, counts, history
    <2> QED
      BY <1>5, <2>1 DEF Accept, OnConnect, SetConnected, StreamTypes,
        request, counts, history
  <1>6. ASSUME NEW sink \in Sink \cup {NoSink}, Read(sink) \/ Receive(sink) PROVE StreamTypes'
    BY <1>6, SinkSet DEF Read, Receive, Told, StreamTypes, Asked, history
  <1>7. ASSUME NEW size \in Nat, FdWrite(size) \/ Send(size) PROVE StreamTypes'
    <2> DEFINE source == [id |-> requests + 1, size |-> size, left |-> size]
    <2>1. source \in Source /\ requests + 1 \in Nat
      BY DEF StreamTypes, Source
    <2> HIDE DEF source
    <2>2. /\ AddSource(source) /\ requests' = requests + 1
          /\ UNCHANGED <<m_sink, peer, output, written>>
      BY <1>7 DEF FdWrite, Send, source,
        request, counts, history
    <2>3. m_queue' \in Seq(Source)
      <3>1. m_queue' = Append(m_queue, source) /\ m_queue \in Seq(Source)
        BY <2>1, <2>2, SourceAdded DEF StreamTypes
      <3> QED
        BY <2>1, <3>1, AppendProperties
    <2>4. m_events' \in SUBSET Asked /\ registered' \in Registration
      BY <2>1, <2>2, SourceAdded DEF Told, StreamTypes, Asked
    <2> QED
      BY <2>1, <2>2, <2>3, <2>4 DEF StreamTypes
  <1>8. ASSUME NEW done, FillSink(done) PROVE StreamTypes'
    <2>1. m_events \ {"Read"} \in SUBSET Asked
      BY DEF StreamTypes
    <2> QED
      BY <1>8, <2>1, SinkFilled DEF Told, StreamTypes, request, counts, history
  <1>9. ASSUME NEW done, DrainQueue(done) PROVE StreamTypes'
    <2>1. m_events \ {"Write"} \in SUBSET Asked
      BY DEF StreamTypes
    <2>2. CASE UNCHANGED <<request, output, written>>
      BY <1>9, <2>2 DEF DrainQueue, StreamTypes,
        request, counts, history
    <2>3. CASE ~UNCHANGED <<request, output, written>>
      <3> DEFINE id == m_queue[1].id
      <3>1. PICK size \in 0..m_queue[1].left :
                /\ m_queue # <<>> /\ m_queue[1] \in Source /\ size \in Nat
                /\ output' = output \o [k \in 1..size |-> id]
                /\ \/ /\ size < m_queue[1].left
                      /\ m_queue' = [m_queue EXCEPT ![1].left = @ - size]
                      /\ UNCHANGED <<m_events, registered, written>>
                   \/ /\ m_queue' = Tail(m_queue)
                      /\ written' = Append(written, id)
                      /\ IF Len(m_queue) = 1
                           THEN Told(m_events \ {"Write"})
                           ELSE UNCHANGED <<m_events, registered>>
        BY <1>9, <2>3, QueueDrained
      <3>2. id \in Nat /\ m_queue \in Seq(Source) /\ output \in Seq(Nat) /\ written \in Seq(Nat)
        BY <3>1 DEF StreamTypes, Source
      <3>3. m_queue' \in Seq(Source)
        <4>1. CASE size < m_queue[1].left /\ m_queue' = [m_queue EXCEPT ![1].left = @ - size]
          BY <3>1, <3>2, <4>1, FirstWritten
        <4>2. CASE m_queue' = Tail(m_queue)
          BY <3>1, <3>2, <4>2, FirstTaken
        <4> QED
          BY <3>1, <4>1, <4>2
      <3> HIDE DEF id
      <3>4. output' \in Seq(Nat)
        <4>1. size \in Nat /\ output' = output \o [k \in 1..size |-> id]
          BY <3>1
        <4> QED
          BY <3>2, <4>1, BytesWritten
      <3>5. written' \in Seq(Nat)
        <4>1. written' = written \/ written' = Append(written, id)
          BY <3>1
        <4>2. Append(written, id) \in Seq(Nat)
          BY <3>2, AppendProperties
        <4> QED
          BY <3>2, <4>1, <4>2
      <3>6. m_events' \in SUBSET Asked /\ registered' \in Registration
        BY <2>1, <3>1 DEF Told, StreamTypes
      <3>7. UNCHANGED <<m_sink, peer, requests>>
        BY <1>9 DEF DrainQueue, counts
      <3> QED
        BY <3>3, <3>4, <3>5, <3>6, <3>7 DEF StreamTypes
    <2> QED
      BY <2>2, <2>3
  <1>10. CASE OnEventRead \/ OnSocketRead
    <2>1. (\E done : FillSink(done)) \/ UNCHANGED <<request, peer, counts, history>>
      BY <1>10 DEF OnEventRead, OnSocketRead,
        request, counts, history
    <2> QED
      BY <1>8, <2>1 DEF StreamTypes, request, counts, history
  <1>11. CASE OnEventWrite \/ OnSocketWrite
    <2>1. (\E done : DrainQueue(done)) \/ UNCHANGED <<request, peer, counts, history>>
      BY <1>11 DEF OnEventWrite, OnSocketWrite,
        request, counts, history
    <2> QED
      BY <1>9, <2>1 DEF StreamTypes, request, counts, history
  <1> QED
    <2>1. \A sink \in Sinks : [maximum |-> sink, size |-> 0] \in Sink
      BY ConstantsAreValid DEF Sink
    <2>2. Sizes \subseteq Nat
      BY ConstantsAreValid
    <2> QED
      BY <1>1, <1>2, <1>3, <1>4, <1>5, <1>6, <1>7, <1>10, <1>11, <2>1, <2>2
          DEF Next, FdNext, SocketNext

LEMMA ControlStep == ASSUME StreamInv, Next PROVE CallbacksReturn' /\ ConnectionsFit'
  <1> USE DEF StreamInv
  <1>1. CASE Kernel
    BY <1>1 DEF Kernel, Arrive, HangUp, Connected, CallbacksReturn, ConnectionsFit,
        request, counts, history
  <1>2. CASE EpollWait
    BY <1>2 DEF EpollWait, CallbacksReturn, ConnectionsFit, StreamTypes, Registration,
        request, counts, history
  <1>3. CASE EndOfInput \/ OnEventHup
    BY <1>3 DEF EndOfInput, OnEventHup, CallBack, Goto, CallbacksReturn, ConnectionsFit,
        request, counts, history
  <1>4. CASE OnAccept \/ OnSocketEvent
    BY <1>4 DEF OnAccept, OnSocketEvent, CallBack, Goto, CallbacksReturn, ConnectionsFit,
        request, counts, history
  <1>5. CASE Return
    BY <1>5 DEF Return, Close, NotRegistered, CallbacksReturn, ConnectionsFit, Callback,
        request, counts, history
  <1>6. CASE FdClose \/ SocketClose
    <2>1. Close /\ m_fd /\ UNCHANGED <<kind, at, next>> /\ (at = "idle" \/ InCallback)
      BY <1>6 DEF FdClose, SocketClose
    <2>2. /\ m_fd' = FALSE /\ m_connected' = FALSE
          /\ m_events' = {} /\ registered' = NotRegistered
      BY <2>1 DEF Close
    <2> QED
      BY <2>1, <2>2 DEF CallbacksReturn, ConnectionsFit, InCallback, Callback, NotRegistered
  <1>7. CASE Open
    BY <1>7 DEF Open, CallbacksReturn, ConnectionsFit
  <1>8. ASSUME BeginsOpening
        PROVE  kind = "socket" /\ at = "idle" /\ UNCHANGED kind /\ m_events' = {"Read"}
    BY <1>8 DEF BeginsOpening, Begin
  <1>9. CASE SocketOpen \/ Listen
    <2>0. ASSUME SocketOpen
          PROVE  m_connected' = TRUE \/ (m_connected' = FALSE /\ "openedWithError" \in misuse')
      <3>1. PICK error \in BOOLEAN :
                /\ Begin(IF error THEN {"openedWithError"} ELSE {})
                /\ m_connected' = ~error
        BY <2>0 DEF SocketOpen
      <3>2. error => "openedWithError" \in misuse'
        BY <3>1 DEF Begin
      <3> QED
        BY <3>1, <3>2
    <2>1. /\ UNCHANGED <<at, next>>
          /\ \/ /\ m_fd' = TRUE
                /\ m_connected' = TRUE \/ (m_connected' = FALSE /\ "openedWithError" \in misuse')
                /\ registered' = [callback |-> "onSocketEvent", events |-> {"Read"}]
             \/ /\ m_fd' = TRUE /\ m_connected' = FALSE
                /\ registered' = [callback |-> "onAccept", events |-> {"Read"}]
             \/ m_fd' = FALSE /\ m_connected' = FALSE /\ registered' = NotRegistered
      BY <1>9, <2>0 DEF SocketOpen, Listen, Added
    <2>2. BeginsOpening
      BY <1>9, OpeningsBegin
    <2> QED
      BY <1>8, <2>1, <2>2 DEF CallbacksReturn, ConnectionsFit, NotRegistered
  <1>10. CASE Connect
    <2>1. \/ /\ m_fd' = TRUE /\ m_connected' = TRUE /\ at' = "connected" /\ next' = "idle"
             /\ registered' = [callback |-> "onSocketEvent", events |-> {"Read"}]
          \/ /\ m_fd' = TRUE /\ m_connected' = FALSE /\ UNCHANGED <<at, next>>
             /\ registered' = [callback |-> "onConnect", events |-> {"Read", "Write"}]
          \/ /\ m_fd' = FALSE /\ m_connected' = FALSE /\ registered' = NotRegistered
             /\ UNCHANGED <<at, next>>
      BY <1>10 DEF Connect, Added, CallBack
    <2>2. BeginsOpening
      BY <1>10, OpeningsBegin
    <2> QED
      BY <1>8, <2>1, <2>2 DEF CallbacksReturn, ConnectionsFit, NotRegistered
  <1>11. CASE Accept
    BY <1>11 DEF Accept, CallBack, CallbacksReturn, ConnectionsFit, request, counts, history
  <1>12. CASE OnConnect \/ SetConnected
    BY <1>12 DEF OnConnect, SetConnected, Goto, CallBack, CallbacksReturn, ConnectionsFit,
        request, counts, history
  <1>13. ASSUME NEW sink \in Sink \cup {NoSink}, Read(sink) \/ Receive(sink)
         PROVE  CallbacksReturn' /\ ConnectionsFit'
    <2>1. /\ UNCHANGED <<kind, m_fd, m_connected, at, next>>
          /\ registered'.callback = registered.callback
          /\ sink = NoSink => InCallback
          /\ "Read" \in m_events' <=> sink # NoSink
          /\ "openedWithError" \in misuse => "openedWithError" \in misuse'
      BY <1>13, SinkSet DEF Read, Receive, Told, history
    <2> QED
      BY <2>1 DEF CallbacksReturn, ConnectionsFit, InCallback, Callback
  <1>14. ASSUME NEW size \in Nat, FdWrite(size) \/ Send(size)
         PROVE  CallbacksReturn' /\ ConnectionsFit'
    <2> DEFINE source == [id |-> requests + 1, size |-> size, left |-> size]
    <2>1. source \in Source
      BY DEF StreamTypes, Source
    <2> HIDE DEF source
    <2>2. /\ AddSource(source)
          /\ UNCHANGED <<kind, m_fd, m_connected, at, next>>
          /\ misuse \subseteq misuse'
      BY <1>14 DEF FdWrite, Send, source, history
    <2>3. /\ registered'.callback = registered.callback
          /\ m_events' = m_events \/ m_events' = m_events \cup {"Write"}
      BY <2>1, <2>2, SourceAdded DEF Told
    <2> QED
      BY <2>2, <2>3 DEF CallbacksReturn, ConnectionsFit
  <1>15. CASE OnEventRead \/ OnSocketRead
    <2> DEFINE done == IF at = "onEvent" THEN "onEventWrite" ELSE "onSocketWrite"
    <2>1. \/ FillSink(done)
          \/ at' = done /\ UNCHANGED <<kind, m_fd, m_connected, m_events, registered, misuse>>
      BY <1>15 DEF OnEventRead, OnSocketRead, Goto, request, history
    <2>2. at \in {"onEvent", "onSocketRead"}
      BY <1>15 DEF OnEventRead, OnSocketRead
    <2>3. /\ UNCHANGED <<kind, m_fd, m_connected, misuse>>
          /\ registered'.callback = registered.callback
          /\ \/ at' \in {"aborted", done}
             \/ at' = "closing" /\ next' = "idle"
             \/ at' = "readCallback" /\ next' \in {"eof", done}
      BY <2>1, SinkFilled DEF Told, request, counts, history
    <2> QED
      BY <2>2, <2>3 DEF CallbacksReturn, ConnectionsFit
  <1>16. CASE OnEventWrite \/ OnSocketWrite
    <2> DEFINE done == IF at = "onEventWrite" THEN "onEventHup" ELSE "idle"
    <2>1. \/ DrainQueue(done)
          \/ at' = done /\ UNCHANGED <<kind, m_fd, m_connected, m_events, registered, misuse>>
      BY <1>16 DEF OnEventWrite, OnSocketWrite, Goto, request, history
    <2>2. at \in {"onEventWrite", "onSocketWrite"}
      BY <1>16 DEF OnEventWrite, OnSocketWrite
    <2>3. /\ UNCHANGED <<kind, m_fd, m_connected, misuse>>
          /\ registered'.callback = registered.callback
          /\ \/ at' \in {"aborted", done}
             \/ at' = "closing" /\ next' = "idle"
             \/ at' = "writtenCallback" /\ next' = done
          /\ m_events' = m_events \/ m_events' = m_events \ {"Write"}
      <3>1. CASE DrainQueue(done)
        <4>1. UNCHANGED <<kind, m_fd, m_connected, misuse>>
          BY <3>1 DEF DrainQueue
        <4>2. UNCHANGED request \/ Told(m_events \ {"Write"}) \/ UNCHANGED <<m_events, registered>>
          BY <3>1, QueueDrained
        <4>3. \/ at' \in {"aborted", done}
              \/ at' = "closing" /\ next' = "idle"
              \/ at' = "writtenCallback" /\ next' = done
          BY <3>1 DEF DrainQueue, CallBack, Goto
        <4> QED
          BY <4>1, <4>2, <4>3 DEF Told, request
      <3> QED
        BY <2>1, <3>1
    <2> QED
      BY <2>2, <2>3 DEF CallbacksReturn, ConnectionsFit
  <1> QED
    <2>1. \A sink \in Sinks : [maximum |-> sink, size |-> 0] \in Sink
      BY ConstantsAreValid DEF Sink
    <2>2. Sizes \subseteq Nat
      BY ConstantsAreValid
    <2> QED
      BY <1>1, <1>2, <1>3, <1>4, <1>5, <1>6, <1>7, <1>8, <1>9, <1>10, <1>11, <1>12, <1>13,
          <1>14, <1>15, <1>16, <2>1, <2>2 DEF Next, FdNext, SocketNext

(* The steps of the handlers that neither read nor write, and of the kernel.  *)
Elsewhere ==
    \/ Kernel \/ EpollWait \/ EndOfInput \/ OnEventHup \/ OnAccept \/ Accept \/ OnSocketEvent

LEMMA RequestsRest ==
    ASSUME StreamInv, Elsewhere
    PROVE  /\ UNCHANGED <<kind, m_fd, m_connected, m_sink, m_queue, m_events, registered,
                          misuse, output, written, requests>>
           /\ at' = at \/ at' # "connecting"
  <1>1. UNCHANGED <<kind, m_fd, m_connected, request, history, requests>>
    BY DEF Elsewhere, Kernel, Arrive, HangUp, Connected, EpollWait, EndOfInput, OnEventHup,
        OnAccept, Accept, OnSocketEvent, counts
  <1>2. at' = at \/ at' # "connecting"
    BY DEF Elsewhere, Kernel, Arrive, HangUp, Connected, EpollWait, EndOfInput, OnEventHup,
        OnAccept, Accept, OnSocketEvent, CallBack, Goto, StreamInv, StreamTypes, Registration
  <1> QED
    BY <1>1, <1>2 DEF request, history, counts

(* An opening drops what another descriptor left behind.                      *)
LEMMA Begun ==
    ASSUME StreamInv, BeginsOpening
    PROVE  /\ kind = "socket" /\ at = "idle" /\ UNCHANGED <<kind, events, requests>>
           /\ m_events' = {"Read"} /\ m_sink' = NoSink /\ "notReceiving" \in misuse'
           /\ m_queue' = <<>> \/ (m_queue' = m_queue /\ ~m_fd)
           /\ "unserved" \notin misuse' => m_queue' = <<>>
           /\ output' = <<>> /\ written' = <<>>
  <1>1. /\ kind = "socket" /\ at = "idle" /\ UNCHANGED <<kind, events, requests>>
        /\ m_events' = {"Read"} /\ output' = <<>> /\ written' = <<>>
    BY DEF BeginsOpening, Begin
  <1>2. "notReceiving" \in misuse' /\ (~m_fd /\ "unserved" \in misuse => "unserved" \in misuse')
    BY DEF BeginsOpening, Begin
  <1>3. IF m_fd THEN m_sink' = NoSink /\ m_queue' = <<>> ELSE UNCHANGED <<m_sink, m_queue>>
    BY DEF BeginsOpening, Begin
  <1>4. ~m_fd => m_sink = NoSink /\ ("unserved" \notin misuse => m_queue = <<>>)
    BY DEF StreamInv, EventsFit
  <1> QED
    BY <1>1, <1>2, <1>3, <1>4

(* An opening of a socket ends connected, listening, connecting, or failed.   *)
LEMMA Opened ==
    ASSUME SocketOpen \/ Listen \/ Connect
    PROVE  /\ BeginsOpening
           /\ \/ UNCHANGED <<at, next>>
              \/ at' = "connected" /\ next' = "idle"
           /\ \/ m_fd' = FALSE /\ m_connected' = FALSE /\ registered' = NotRegistered
              \/ m_fd' = TRUE /\ m_connected' = FALSE
              \/ /\ m_fd' = TRUE /\ m_connected' = TRUE
                 /\ registered' = [callback |-> "onSocketEvent", events |-> {"Read"}]
  <1>1. BeginsOpening
    BY OpeningsBegin
  <1>2. UNCHANGED <<at, next>> \/ (at' = "connected" /\ next' = "idle")
    BY DEF SocketOpen, Listen, Connect, CallBack
  <1>3. \/ m_fd' = FALSE /\ m_connected' = FALSE /\ registered' = NotRegistered
        \/ m_fd' = TRUE /\ m_connected' = FALSE
        \/ /\ m_fd' = TRUE /\ m_connected' = TRUE
           /\ registered' = [callback |-> "onSocketEvent", events |-> {"Read"}]
    BY DEF SocketOpen, Listen, Connect, Added
  <1> QED
    BY <1>1, <1>2, <1>3

(* A close, in a callback or between two dispatches.                          *)
LEMMA Closed ==
    ASSUME FdClose \/ SocketClose
    PROVE  /\ m_fd /\ (at = "idle" \/ InCallback)
           /\ UNCHANGED <<kind, at, events, next, output, written, requests>>
           /\ m_fd' = FALSE /\ m_connected' = FALSE
           /\ m_events' = {} /\ registered' = NotRegistered
           /\ m_sink' = NoSink /\ m_queue' = <<>>
           /\ misuse \subseteq misuse' /\ misuse' \subseteq misuse \cup {"closedByReader"}
           /\ at = "readCallback" => "closedByReader" \in misuse'
  <1>1. /\ Close /\ m_fd /\ (at = "idle" \/ InCallback)
        /\ UNCHANGED <<kind, at, events, next, output, written>> /\ requests' = requests
    BY DEF FdClose, SocketClose, counts
  <1>2. /\ m_fd' = FALSE /\ m_connected' = FALSE
        /\ m_events' = {} /\ registered' = NotRegistered
        /\ m_sink' = NoSink /\ m_queue' = <<>>
    BY <1>1 DEF Close
  <1>3. /\ misuse \subseteq misuse' /\ misuse' \subseteq misuse \cup {"closedByReader"}
        /\ at = "readCallback" => "closedByReader" \in misuse'
    BY DEF FdClose, SocketClose
  <1> QED
    BY <1>1, <1>2, <1>3

LEMMA EventsStep == ASSUME StreamInv, Next PROVE EventsFit'
  <1> USE DEF StreamInv
  <1>1. CASE Elsewhere
    BY <1>1, RequestsRest DEF EventsFit
  <1>2. CASE FdClose \/ SocketClose
    BY <1>2, Closed DEF EventsFit, NotRegistered, ConnectionsFit, InCallback, Callback
  <1>3. CASE Return
    <2>1. UNCHANGED <<kind, misuse>> /\ at' = next
      BY <1>3 DEF Return, history
    <2>2. \/ UNCHANGED <<m_fd, m_connected, request>>
          \/ /\ m_fd' = FALSE /\ m_connected' = FALSE
             /\ m_events' = {} /\ m_sink' = NoSink /\ m_queue' = <<>>
      BY <1>3 DEF Return, Close
    <2>3. at' # "connecting"
      BY <1>3, <2>1 DEF Return, Callback, CallbacksReturn
    <2> QED
      BY <2>1, <2>2, <2>3 DEF EventsFit, request
  <1>4. CASE Open
    BY <1>4 DEF Open, EventsFit
  <1>5. CASE SocketOpen \/ Listen \/ Connect
    <2>1. /\ kind' = "socket" /\ at' # "connecting"
          /\ m_events' = {"Read"} /\ m_sink' = NoSink /\ "notReceiving" \in misuse'
          /\ "unserved" \notin misuse' => m_queue' = <<>>
      BY <1>5, Opened, Begun
    <2>2. m_connected' => registered'.events = {"Read"}
      <3>1. m_connected' # FALSE => registered' = [callback |-> "onSocketEvent", events |-> {"Read"}]
        BY <1>5, Opened
      <3> QED
        BY <3>1
    <2> QED
      BY <2>1, <2>2 DEF EventsFit
  <1>6. CASE OnConnect \/ SetConnected
    <2>1. UNCHANGED <<kind, m_fd, m_sink, m_queue, m_events, misuse>>
      BY <1>6 DEF OnConnect, SetConnected, request, history
    <2>2. \/ registered'.events = m_events
          \/ at = "connecting" /\ UNCHANGED registered
          \/ UNCHANGED <<m_connected, registered>> /\ at' = "closing"
      BY <1>6 DEF OnConnect, SetConnected, CallBack, request
    <2> QED
      BY <2>1, <2>2 DEF EventsFit
  <1>7. ASSUME NEW sink \in Sink \cup {NoSink}, Read(sink) \/ Receive(sink) PROVE EventsFit'
    <2> DEFINE wanted == IF sink = NoSink THEN m_events \ {"Read"} ELSE m_events \cup {"Read"}
    <2>1. /\ m_fd /\ UNCHANGED <<kind, m_fd, m_connected, m_queue, at>>
          /\ sink = NoSink => InCallback
          /\ misuse' = misuse \/ misuse' = misuse \ {"notReceiving"}
          /\ SetSink(sink)
      BY <1>7 DEF Read, Receive, history
    <2>2. /\ m_sink' = sink /\ m_events' = wanted
          /\ \/ m_connected /\ registered'.events = wanted
             \/ wanted = m_events /\ UNCHANGED registered
             \/ ~m_connected /\ UNCHANGED registered
          /\ Told(wanted) \/ UNCHANGED <<m_events, registered>>
      BY <2>1, SinkSet DEF Told
    <2>3. at = "connecting" => wanted = m_events
      BY <2>1 DEF ConnectionsFit, InCallback, Callback
    <2>4. ("Read" \in wanted <=> sink # NoSink) /\ ("Write" \in wanted <=> "Write" \in m_events)
      OBVIOUS
    <2> HIDE DEF wanted
    <2> QED
      BY <2>1, <2>2, <2>3, <2>4 DEF EventsFit
  <1>8. ASSUME NEW size \in Nat, FdWrite(size) \/ Send(size) PROVE EventsFit'
    <2> DEFINE source == [id |-> requests + 1, size |-> size, left |-> size]
               wanted == IF m_queue = <<>> THEN m_events \cup {"Write"} ELSE m_events
    <2>1. source \in Source
      BY DEF StreamTypes, Source
    <2> HIDE DEF source
    <2>2. AddSource(source) /\ UNCHANGED <<kind, m_fd, m_connected, m_sink, at>>
      BY <1>8 DEF FdWrite, Send, source
    <2>3. \/ kind = "fdio" /\ m_fd /\ misuse' = misuse
          \/ kind = "socket" /\ misuse' = IF Unserved THEN misuse \cup {"unserved"} ELSE misuse
      BY <1>8 DEF FdWrite, Send, history
    <2>4. /\ m_queue' # <<>> /\ m_events' = wanted
          /\ \/ m_connected /\ registered'.events = wanted
             \/ wanted = m_events /\ UNCHANGED registered
             \/ ~m_connected /\ UNCHANGED registered
      <3>1. m_queue' = Append(m_queue, source) /\ m_queue \in Seq(Source)
        BY <2>1, <2>2, SourceAdded DEF StreamTypes
      <3>2. Told(wanted) \/ (wanted = m_events /\ UNCHANGED <<m_events, registered>>)
        BY <2>1, <2>2, SourceAdded
      <3> HIDE DEF wanted
      <3> QED
        BY <2>1, <3>1, <3>2, AppendProperties DEF Told
    <2> QED
      BY <2>2, <2>3, <2>4 DEF EventsFit, Unserved, ConnectionsFit
  <1>9. ASSUME NEW done \in {"onEventWrite", "onSocketWrite"}, FillSink(done) PROVE EventsFit'
    <2>1. UNCHANGED <<kind, m_fd, m_connected, m_queue, misuse>> /\ at' # "connecting"
      BY <1>9, SinkFilled DEF history
    <2>2. \/ UNCHANGED request
          \/ m_sink # NoSink /\ m_sink' = NoSink /\ Told(m_events \ {"Read"})
          \/ m_sink # NoSink /\ m_sink' # NoSink /\ UNCHANGED <<m_events, registered>>
      BY <1>9, SinkFilled
    <2> QED
      BY <2>1, <2>2 DEF EventsFit, Told, request
  <1>10. ASSUME NEW done \in {"onEventHup", "idle"}, DrainQueue(done) PROVE EventsFit'
    <2>1. UNCHANGED <<kind, m_fd, m_connected, m_sink, misuse>> /\ at' # "connecting"
      BY <1>10 DEF DrainQueue, CallBack, Goto
    <2>2. \/ UNCHANGED request
          \/ /\ m_fd /\ m_queue # <<>> /\ m_queue' # <<>>
             /\ UNCHANGED <<m_events, registered>>
          \/ m_fd /\ m_queue # <<>> /\ m_queue' = <<>> /\ Told(m_events \ {"Write"})
      <3>1. CASE UNCHANGED request
        BY <3>1
      <3>2. CASE ~UNCHANGED request
        <4>1. PICK size \in 0..m_queue[1].left :
                  /\ m_fd /\ m_queue # <<>> /\ size \in Nat
                  /\ \/ /\ size < m_queue[1].left
                        /\ m_queue' = [m_queue EXCEPT ![1].left = @ - size]
                        /\ UNCHANGED <<m_events, registered>>
                     \/ /\ m_queue' = Tail(m_queue)
                        /\ IF Len(m_queue) = 1
                             THEN Told(m_events \ {"Write"})
                             ELSE UNCHANGED <<m_events, registered>>
          BY <1>10, <3>2, QueueDrained DEF request
        <4>2. m_queue \in Seq(Source)
          BY DEF StreamTypes
        <4>3. CASE m_queue' = Tail(m_queue)
          BY <4>1, <4>2, <4>3, FirstTaken
        <4>4. CASE m_queue' # Tail(m_queue)
          BY <4>1, <4>2, <4>4, FirstWritten
        <4> QED
          BY <4>3, <4>4
      <3> QED
        BY <3>1, <3>2
    <2> QED
      BY <2>1, <2>2 DEF EventsFit, Told, request
  <1>11. CASE OnEventRead \/ OnSocketRead
    <2>1. \/ FillSink("onEventWrite") \/ FillSink("onSocketWrite")
          \/ /\ UNCHANGED <<kind, m_fd, m_connected, request, history>>
             /\ at' # "connecting"
      BY <1>11 DEF OnEventRead, OnSocketRead, Goto
    <2> QED
      BY <1>9, <2>1 DEF EventsFit, request, history
  <1>12. CASE OnEventWrite \/ OnSocketWrite
    <2>1. \/ DrainQueue("onEventHup") \/ DrainQueue("idle")
          \/ /\ UNCHANGED <<kind, m_fd, m_connected, request, history>>
             /\ at' # "connecting"
      BY <1>12 DEF OnEventWrite, OnSocketWrite, Goto
    <2> QED
      BY <1>10, <2>1 DEF EventsFit, request, history
  <1> QED
    <2>1. \A sink \in Sinks : [maximum |-> sink, size |-> 0] \in Sink
      BY ConstantsAreValid DEF Sink
    <2>2. Sizes \subseteq Nat
      BY ConstantsAreValid
    <2> QED
      BY <1>1, <1>2, <1>3, <1>4, <1>5, <1>6, <1>7, <1>8, <1>11, <1>12, <2>1, <2>2
          DEF Next, FdNext, SocketNext, Elsewhere

LEMMA HandlersStep == ASSUME StreamInv, Next PROVE HandlersFit'
  <1> USE DEF StreamInv
  <1> DEFINE reading == at \in {"onEvent", "onSocketEvent", "onSocketRead"}
             writing ==
                 \/ at \in {"onEvent", "onEventWrite", "onSocketEvent", "onSocketRead",
                            "onSocketWrite"}
                 \/ at = "readCallback" /\ next # "eof"
  <1>1. ASSUME ~reading', ~writing', at' # "aborted" PROVE HandlersFit'
    BY <1>1 DEF HandlersFit, AssertionsHold
  <1>2. at # "aborted"
    BY DEF Next
  <1>3. CASE EpollWait
    <2>1. /\ at = "idle" /\ at' = registered.callback /\ registered.callback # "none"
          /\ events' \ {"Hup"} \subseteq registered.events
          /\ UNCHANGED <<m_sink, m_queue, misuse>>
      BY <1>3 DEF EpollWait, Ready, request, history
    <2>2. CASE at' \in {"onEvent", "onSocketEvent"}
      <3>1. m_fd /\ (m_connected \/ "openedWithError" \in misuse)
        BY <2>1, <2>2 DEF ConnectionsFit
      <3>2. /\ "Read" \in events' =>
                   m_sink # NoSink \/ "notReceiving" \in misuse \/ "openedWithError" \in misuse
            /\ "Write" \in events' => m_queue # <<>> \/ "openedWithError" \in misuse
        BY <2>1, <3>1 DEF EventsFit
      <3> QED
        BY <2>1, <2>2, <3>2 DEF HandlersFit, AssertionsHold
    <2>3. CASE at' \in {"onAccept", "onConnect"}
      BY <1>1, <2>3
    <2> QED
      BY <2>1, <2>2, <2>3 DEF StreamTypes, Registration
  <1>4. CASE Kernel
    BY <1>4 DEF Kernel, Arrive, HangUp, Connected, HandlersFit, AssertionsHold, request, history
  <1>5. CASE EndOfInput \/ OnEventHup \/ OnAccept \/ Accept
    <2>1. at' \in {"closing", "idle", "accept", "accepted"}
      BY <1>5 DEF EndOfInput, OnEventHup, OnAccept, Accept, CallBack, Goto
    <2> QED
      BY <1>1, <2>1
  <1>6. CASE OnConnect \/ SetConnected
    <2>1. at' \in {"closing", "connecting", "connected"}
      BY <1>6 DEF OnConnect, SetConnected, CallBack, Goto
    <2> QED
      BY <1>1, <2>1
  <1>7. CASE OnSocketEvent
    <2>1. /\ at = "onSocketEvent" /\ at' \in {"aborted", "closing", "onSocketRead"}
          /\ at' = "aborted" => "openedWithError" \in misuse
          /\ UNCHANGED <<m_sink, m_queue, events, misuse>>
      BY <1>7 DEF OnSocketEvent, CallBack, Goto, request, history, ConnectionsFit
    <2> QED
      BY <1>1, <2>1 DEF HandlersFit, AssertionsHold
  <1>8. CASE Return
    <2>1. CASE at = "closing"
      <3>1. at' \in {"accept", "idle"}
        BY <1>8, <2>1 DEF Return, CallbacksReturn
      <3> QED
        BY <1>1, <3>1
    <2>2. CASE at \in {"writtenCallback", "connected", "accepted"}
      <3>1. at' \in {"onEventHup", "idle"}
        BY <1>8, <2>2 DEF Return, CallbacksReturn
      <3> QED
        BY <1>1, <3>1
    <2>3. CASE at = "readCallback"
      <3>1. /\ at' \in {"onEventWrite", "onSocketWrite", "eof"} /\ at' = next
            /\ UNCHANGED <<m_queue, events, misuse>>
        BY <1>8, <2>3 DEF Return, CallbacksReturn, request, history
      <3> QED
        BY <2>3, <3>1 DEF HandlersFit, AssertionsHold
    <2> QED
      BY <1>8, <2>1, <2>2, <2>3 DEF Return, Callback
  <1>9. CASE FdClose \/ SocketClose
    BY <1>9, Closed DEF HandlersFit, AssertionsHold, InCallback, Callback
  <1>10. CASE Open \/ SocketOpen \/ Listen \/ Connect
    <2>1. at' \in {"idle", "connected"}
      BY <1>10, Opened, Begun DEF Open
    <2> QED
      BY <1>1, <2>1
  <1>11. ASSUME NEW sink \in Sink \cup {NoSink}, Read(sink) \/ Receive(sink) PROVE HandlersFit'
    <2>1. /\ UNCHANGED <<m_queue, at, events, next>>
          /\ m_sink' = sink /\ (sink = NoSink => InCallback)
          /\ "closedByReader" \in misuse => "closedByReader" \in misuse'
          /\ "openedWithError" \in misuse => "openedWithError" \in misuse'
      BY <1>11 DEF Read, Receive, SetSink, history
    <2> QED
      BY <1>2, <2>1 DEF HandlersFit, AssertionsHold, InCallback, Callback
  <1>12. ASSUME NEW size \in Nat, FdWrite(size) \/ Send(size) PROVE HandlersFit'
    <2> DEFINE source == [id |-> requests + 1, size |-> size, left |-> size]
    <2>1. source \in Source
      BY DEF StreamTypes, Source
    <2> HIDE DEF source
    <2>2. /\ AddSource(source) /\ UNCHANGED <<m_sink, at, events, next>>
          /\ misuse \subseteq misuse'
      BY <1>12 DEF FdWrite, Send, source, history
    <2>3. m_queue' # <<>>
      <3>1. m_queue' = Append(m_queue, source) /\ m_queue \in Seq(Source)
        BY <2>1, <2>2, SourceAdded DEF StreamTypes
      <3> QED
        BY <2>1, <3>1, AppendProperties
    <2> QED
      BY <2>2, <2>3 DEF HandlersFit, AssertionsHold
  <1>13. ASSUME NEW done \in {"onEventWrite", "onSocketWrite"}, FillSink(done),
                reading, "Read" \in events
         PROVE  HandlersFit'
    <2>1. UNCHANGED <<m_queue, events, misuse>>
      BY <1>13 DEF FillSink, history
    <2>2. \/ at' = "aborted" /\ m_sink = NoSink
          \/ at' \in {"closing", "readCallback", done}
      BY <1>13 DEF FillSink, CallBack, Goto
    <2>3. /\ "Write" \in events =>
                 m_queue # <<>> \/ "closedByReader" \in misuse \/ "openedWithError" \in misuse
          /\ m_sink = NoSink => "notReceiving" \in misuse \/ "openedWithError" \in misuse
      BY <1>13 DEF HandlersFit
    <2> QED
      BY <1>13, <2>1, <2>2, <2>3 DEF HandlersFit, AssertionsHold
  <1>14. CASE OnEventRead \/ OnSocketRead
    <2>1. CASE "Read" \in events
      <3>1. FillSink("onEventWrite") \/ FillSink("onSocketWrite")
        BY <1>14, <2>1 DEF OnEventRead, OnSocketRead
      <3>2. reading
        BY <1>14 DEF OnEventRead, OnSocketRead
      <3> QED
        BY <1>13, <2>1, <3>1, <3>2
    <2>2. CASE "Read" \notin events
      <3>1. /\ at \in {"onEvent", "onSocketRead"} /\ at' \in {"onEventWrite", "onSocketWrite"}
            /\ UNCHANGED <<m_queue, events, misuse>>
        BY <1>14, <2>2 DEF OnEventRead, OnSocketRead, Goto, request, history
      <3> QED
        BY <3>1 DEF HandlersFit, AssertionsHold
    <2> QED
      BY <2>1, <2>2
  <1>15. CASE OnEventWrite \/ OnSocketWrite
    <2>1. /\ at \in {"onEventWrite", "onSocketWrite"} /\ UNCHANGED <<events, misuse>>
          /\ \/ "Write" \in events /\ (DrainQueue("onEventHup") \/ DrainQueue("idle"))
             \/ at' \in {"onEventHup", "idle"}
      BY <1>15 DEF OnEventWrite, OnSocketWrite, DrainQueue, Goto, history
    <2>2. CASE at' = "aborted"
      <3>1. "Write" \in events /\ m_queue = <<>>
        BY <2>1, <2>2 DEF DrainQueue, CallBack, Goto
      <3> QED
        BY <2>1, <2>2, <3>1 DEF HandlersFit, AssertionsHold
    <2>3. CASE at' # "aborted"
      <3>1. at' \in {"onEventHup", "idle", "closing", "writtenCallback"}
        BY <2>1, <2>3 DEF DrainQueue, CallBack, Goto
      <3> QED
        BY <1>1, <3>1
    <2> QED
      BY <2>2, <2>3
  <1> QED
    <2>1. \A sink \in Sinks : [maximum |-> sink, size |-> 0] \in Sink
      BY ConstantsAreValid DEF Sink
    <2>2. Sizes \subseteq Nat
      BY ConstantsAreValid
    <2> HIDE DEF reading, writing
    <2> QED
      BY <1>3, <1>4, <1>5, <1>6, <1>7, <1>8, <1>9, <1>10, <1>11, <1>12, <1>14, <1>15, <2>1, <2>2
          DEF Next, FdNext, SocketNext

-----------------------------------------------------------------------------
(* What a step does to the queue and to what was written: nothing, close,     *)
(* open, add a source, or write some of the first one.                       *)
Rests == UNCHANGED <<m_fd, m_queue, requests, output, written>>

Drops == m_fd' = FALSE /\ m_queue' = <<>> /\ UNCHANGED <<requests, output, written>>

Begins ==
    /\ m_queue' = <<>> \/ (m_queue' = m_queue /\ ~m_fd)
    /\ m_fd' \in BOOLEAN /\ output' = <<>> /\ written' = <<>> /\ UNCHANGED requests

NewSource(size) == [id |-> requests + 1, size |-> size, left |-> size]

Adds(size) ==
    /\ m_queue' = Append(m_queue, NewSource(size))
    /\ requests' = requests + 1
    /\ UNCHANGED <<m_fd, output, written>>

Writes(size) ==
    /\ m_fd /\ m_queue # <<>> /\ UNCHANGED <<m_fd, requests>>
    /\ output' = output \o [k \in 1..size |-> m_queue[1].id]
    /\ \/ /\ size < m_queue[1].left
          /\ m_queue' = [m_queue EXCEPT ![1].left = @ - size]
          /\ UNCHANGED written
       \/ /\ size = m_queue[1].left
          /\ m_queue' = Tail(m_queue)
          /\ written' = Append(written, m_queue[1].id)

LEMMA QueueSteps ==
    ASSUME StreamInv, Next
    PROVE  \/ Rests \/ Drops \/ Begins
           \/ \E size \in Sizes : Adds(size)
           \/ \E size \in 0..m_queue[1].left : Writes(size)
  <1> USE DEF StreamInv
  <1>1. CASE Elsewhere
    BY <1>1, RequestsRest DEF Rests
  <1>2. CASE FdClose \/ SocketClose
    BY <1>2, Closed DEF Drops
  <1>3. CASE Return
    BY <1>3 DEF Return, Close, Rests, Drops, request, counts, history
  <1>4. CASE Open
    BY <1>4 DEF Open, Begins
  <1>5. CASE SocketOpen \/ Listen \/ Connect
    BY <1>5, Opened, Begun DEF Begins
  <1>6. CASE OnConnect \/ SetConnected
    BY <1>6 DEF OnConnect, SetConnected, Rests, request, counts, history
  <1>7. ASSUME NEW sink \in Sink \cup {NoSink}, Read(sink) \/ Receive(sink) PROVE Rests
    BY <1>7 DEF Read, Receive, Rests, history
  <1>8. ASSUME NEW size \in Sizes, FdWrite(size) \/ Send(size) PROVE Adds(size)
    BY <1>8 DEF FdWrite, Send, AddSource, Adds, NewSource, history
  <1>9. CASE OnEventRead \/ OnSocketRead
    <2>1. \A done : FillSink(done) => UNCHANGED <<m_queue, requests, output, written>>
      BY DEF FillSink, counts, history
    <2>2. UNCHANGED <<m_queue, requests, output, written>>
      BY <1>9, <2>1 DEF OnEventRead, OnSocketRead, request, counts, history
    <2> QED
      BY <1>9, <2>2 DEF OnEventRead, OnSocketRead, Rests
  <1>10. CASE OnEventWrite \/ OnSocketWrite
    <2>1. UNCHANGED m_fd
      BY <1>10 DEF OnEventWrite, OnSocketWrite
    <2>2. \/ \E done : DrainQueue(done)
          \/ UNCHANGED <<m_queue, requests, output, written>>
      BY <1>10 DEF OnEventWrite, OnSocketWrite, request, counts, history
    <2>3. ASSUME NEW done, DrainQueue(done)
          PROVE  \/ UNCHANGED <<m_queue, requests, output, written>>
                 \/ \E size \in 0..m_queue[1].left : Writes(size)
      <3>1. requests' = requests
        BY <2>3 DEF DrainQueue, counts
      <3>2. CASE UNCHANGED <<m_queue, output, written>>
        BY <3>1, <3>2
      <3>3. CASE ~UNCHANGED <<m_queue, output, written>>
        <4>1. PICK size \in 0..m_queue[1].left :
                  /\ m_fd /\ m_queue # <<>>
                  /\ output' = output \o [k \in 1..size |-> m_queue[1].id]
                  /\ \/ /\ size < m_queue[1].left
                        /\ m_queue' = [m_queue EXCEPT ![1].left = @ - size]
                        /\ written' = written
                     \/ /\ size = m_queue[1].left
                        /\ m_queue' = Tail(m_queue)
                        /\ written' = Append(written, m_queue[1].id)
          BY <2>3, <3>3, QueueDrained DEF request
        <4>2. Writes(size)
          BY <2>1, <3>1, <4>1 DEF Writes
        <4> QED
          BY <4>2
      <3> QED
        BY <3>2, <3>3
    <2> QED
      BY <2>1, <2>2, <2>3 DEF Rests
  <1> QED
    <2>1. \A sink \in Sinks : [maximum |-> sink, size |-> 0] \in Sink
      BY ConstantsAreValid DEF Sink
    <2>2. Sizes \subseteq Nat
      BY ConstantsAreValid
    <2> QED
      BY <1>1, <1>2, <1>3, <1>4, <1>5, <1>6, <1>7, <1>8, <1>9, <1>10, <2>1, <2>2
          DEF Next, FdNext, SocketNext, Elsewhere

LEMMA LastAppended ==
    ASSUME NEW S, NEW s \in Seq(S), NEW e \in S, NEW t, t = Append(s, e)
    PROVE  /\ t \in Seq(S) /\ Len(s) \in Nat /\ DOMAIN s = 1..Len(s)
           /\ DOMAIN t = 1..(Len(s) + 1)
           /\ \A k \in 1..(Len(s) + 1) : t[k] = IF k <= Len(s) THEN s[k] ELSE e
  <1>1. /\ t \in Seq(S) /\ Len(t) = Len(s) + 1
        /\ \A k \in 1..Len(s) : t[k] = s[k]
        /\ t[Len(s) + 1] = e
    BY AppendProperties
  <1>2. Len(s) \in Nat /\ DOMAIN s = 1..Len(s) /\ DOMAIN t = 1..Len(t)
    BY <1>1, LenProperties
  <1>3. \A k \in 1..(Len(s) + 1) : k <= Len(s) \/ k = Len(s) + 1
    BY <1>2
  <1> QED
    BY <1>1, <1>2, <1>3

LEMMA ElementTypes ==
    ASSUME StreamTypes
    PROVE  /\ \A k \in DOMAIN m_queue :
                  m_queue[k].id \in Nat /\ m_queue[k].left \in Nat /\ m_queue[k].size \in Nat
           /\ \A k \in DOMAIN written : written[k] \in Nat
           /\ \A k \in DOMAIN output : output[k] \in Nat
  <1>1. m_queue \in Seq(Source) /\ written \in Seq(Nat) /\ output \in Seq(Nat)
    BY DEF StreamTypes
  <1>2. /\ \A k \in DOMAIN m_queue : m_queue[k] \in Source
        /\ \A k \in DOMAIN written : written[k] \in Nat
        /\ \A k \in DOMAIN output : output[k] \in Nat
    BY <1>1, LenProperties, ElementOfSeq
  <1> QED
    BY <1>2 DEF Source

LEMMA SourcesStep == ASSUME StreamInv, Next PROVE SourcesFit'
  <1> USE DEF StreamInv
  <1>0. m_queue \in Seq(Source) /\ written \in Seq(Nat) /\ requests \in Nat
    BY DEF StreamTypes
  <1>1. CASE Rests
    BY <1>1 DEF Rests, SourcesFit
  <1>2. CASE Drops
    BY <1>2 DEF Drops, SourcesFit
  <1>3. CASE Begins
    BY <1>3 DEF Begins, SourcesFit
  <1>4. ASSUME NEW size \in Nat, Adds(size) PROVE SourcesFit'
    <2> DEFINE source == NewSource(size)
    <2>1. /\ source \in Source /\ source.id = requests + 1
          /\ source.size = size /\ source.left = size
      BY <1>0 DEF NewSource, Source
    <2>2. /\ m_queue' = Append(m_queue, source) /\ requests' = requests + 1
          /\ UNCHANGED <<m_fd, written>>
      BY <1>4 DEF Adds
    <2> HIDE DEF source
    <2>3. /\ Len(m_queue) \in Nat /\ DOMAIN m_queue = 1..Len(m_queue)
          /\ DOMAIN m_queue' = 1..(Len(m_queue) + 1)
          /\ \A k \in 1..(Len(m_queue) + 1) :
                 m_queue'[k] = IF k <= Len(m_queue) THEN m_queue[k] ELSE source
      BY <1>0, <2>1, <2>2, LastAppended
    <2>4. /\ \A k \in DOMAIN m_queue : m_queue[k].id \in Nat
          /\ \A k \in DOMAIN written : written[k] \in Nat
      BY ElementTypes
    <2> DEFINE n == Len(m_queue) + 1
    <2>5. /\ n \in DOMAIN m_queue' /\ m_queue'[n] = source
          /\ \A k \in DOMAIN m_queue : k < n /\ m_queue'[k] = m_queue[k]
          /\ \A k \in DOMAIN m_queue' : k \in DOMAIN m_queue \/ k = n
      BY <2>3
    <2>6. \A k \in DOMAIN m_queue : m_queue[k].id <= requests
      BY DEF SourcesFit
    <2>7. /\ \A k \in DOMAIN m_queue : m_queue'[k].id < source.id
          /\ \A j \in DOMAIN written : written[j] <= requests /\ written[j] < source.id
      BY <1>0, <2>1, <2>4, <2>5, <2>6 DEF SourcesFit
    <2>8. ASSUME NEW k \in DOMAIN m_queue'
          PROVE  /\ m_queue'[k].id <= requests'
                 /\ m_queue'[k].left <= m_queue'[k].size
                 /\ k > 1 \/ ~m_fd' => m_queue'[k].left = m_queue'[k].size
                 /\ \A j \in DOMAIN m_queue' : j < k => m_queue'[j].id < m_queue'[k].id
                 /\ \A j \in DOMAIN written : written[j] < m_queue'[k].id
      <3>1. CASE k = n
        <4>1. m_queue'[k] = source /\ \A j \in DOMAIN m_queue' : j < k => j \in DOMAIN m_queue
          BY <2>3, <2>5, <3>1
        <4> QED
          BY <1>0, <2>1, <2>2, <2>7, <4>1
      <3>2. CASE k \in DOMAIN m_queue
        <4>1. \A j \in DOMAIN m_queue' : j < k => j \in DOMAIN m_queue
          BY <2>3, <3>2
        <4>2. m_queue'[k] = m_queue[k] /\ m_queue[k].id \in Nat
          BY <2>4, <2>5, <3>2
        <4>3. \A j \in DOMAIN m_queue' : j < k => m_queue'[j].id < m_queue'[k].id
          BY <2>5, <3>2, <4>1, <4>2 DEF SourcesFit
        <4>4. m_queue'[k].id <= requests'
          BY <1>0, <2>2, <2>6, <3>2, <4>2
        <4> QED
          BY <2>2, <3>2, <4>2, <4>3, <4>4 DEF SourcesFit
      <3> QED
        BY <2>5, <3>1, <3>2
    <2>9. ASSUME NEW k \in DOMAIN written
          PROVE  written[k] <= requests' /\ \A j \in DOMAIN written : j < k => written[j] < written[k]
      <3>1. written[k] \in Nat /\ written[k] <= requests
        BY <2>4, <2>7
      <3> QED
        BY <1>0, <2>2, <3>1 DEF SourcesFit
    <2> QED
      BY <2>2, <2>8, <2>9 DEF SourcesFit
  <1>5. ASSUME NEW size \in 0..m_queue[1].left, Writes(size) PROVE SourcesFit'
    <2> DEFINE L == Len(m_queue)
               id == m_queue[1].id
    <2>1. /\ m_queue # <<>> /\ UNCHANGED <<m_fd, requests>> /\ m_fd
      BY <1>5 DEF Writes
    <2>2. /\ L \in Nat \ {0} /\ DOMAIN m_queue = 1..L
          /\ DOMAIN Tail(m_queue) = 1..(L - 1)
          /\ \A k \in 1..(L - 1) : Tail(m_queue)[k] = m_queue[k + 1]
      BY <1>0, <2>1, FirstTaken
    <2>3. /\ \A k \in DOMAIN m_queue :
                 m_queue[k].id \in Nat /\ m_queue[k].left \in Nat /\ m_queue[k].size \in Nat
          /\ \A k \in DOMAIN written : written[k] \in Nat
      BY ElementTypes
    <2>4. CASE size < m_queue[1].left
      <3>1. m_queue' = [m_queue EXCEPT ![1].left = @ - size] /\ written' = written
        BY <2>2, <2>3, <2>4, <1>5 DEF Writes
      <3>2. /\ DOMAIN m_queue' = DOMAIN m_queue
            /\ \A k \in DOMAIN m_queue :
                   /\ m_queue'[k].id = m_queue[k].id /\ m_queue'[k].size = m_queue[k].size
                   /\ m_queue'[k].left = IF k = 1 THEN m_queue[1].left - size ELSE m_queue[k].left
        BY <1>0, <2>1, <2>4, <3>1, FirstWritten
      <3>3. m_queue[1].left - size <= m_queue[1].left
        BY <2>2, <2>3
      <3>4. m_queue[1].left - size <= m_queue[1].size
        BY <2>2, <2>3, <3>3 DEF SourcesFit
      <3> QED
        BY <2>1, <2>2, <3>1, <3>2, <3>4 DEF SourcesFit
    <2>5. CASE ~(size < m_queue[1].left)
      <3>1. m_queue' = Tail(m_queue) /\ written' = Append(written, id)
        BY <2>5, <1>5 DEF Writes
      <3>2. id \in Nat
        BY <2>2, <2>3
      <3> HIDE DEF id
      <3>3. /\ Len(written) \in Nat /\ DOMAIN written = 1..Len(written)
            /\ DOMAIN written' = 1..(Len(written) + 1)
            /\ \A k \in 1..(Len(written) + 1) :
                   written'[k] = IF k <= Len(written) THEN written[k] ELSE id
        BY <1>0, <3>1, <3>2, LastAppended
      <3>4. /\ \A k \in 2..L : id < m_queue[k].id
            /\ \A j \in DOMAIN written : written[j] < id
            /\ id <= requests
        BY <2>2 DEF SourcesFit, id
      <3>5. ASSUME NEW k \in DOMAIN m_queue'
            PROVE  /\ m_queue'[k].id <= requests
                   /\ m_queue'[k].left <= m_queue'[k].size
                   /\ m_queue'[k].left = m_queue'[k].size
                   /\ \A j \in DOMAIN m_queue' : j < k => m_queue'[j].id < m_queue'[k].id
                   /\ \A j \in DOMAIN written' : written'[j] < m_queue'[k].id
        <4>1. /\ k \in 1..(L - 1) /\ k + 1 \in 2..L /\ m_queue'[k] = m_queue[k + 1]
              /\ DOMAIN m_queue' = 1..(L - 1)
          BY <2>2, <3>1
        <4>2. \A j \in 1..(L - 1) : j + 1 \in 1..L /\ m_queue'[j] = m_queue[j + 1]
          BY <2>2, <3>1
        <4>3. k + 1 \in DOMAIN m_queue /\ k + 1 > 1
          BY <2>2, <4>1
        <4>4. /\ m_queue[k + 1].id <= requests
              /\ m_queue[k + 1].left <= m_queue[k + 1].size
              /\ m_queue[k + 1].left = m_queue[k + 1].size
          BY <4>3 DEF SourcesFit
        <4>5. \A j \in 1..(L - 1) : j < k => m_queue[j + 1].id < m_queue[k + 1].id
          <5>1. \A j \in 1..(L - 1) : j < k => j + 1 \in DOMAIN m_queue /\ j + 1 < k + 1
            BY <2>2, <4>1
          <5> QED
            BY <4>3, <5>1 DEF SourcesFit
        <4>6. \A j \in DOMAIN written : written[j] < m_queue[k + 1].id
          BY <4>3 DEF SourcesFit
        <4>7. id < m_queue[k + 1].id
          BY <3>4, <4>1
        <4>8. \A j \in DOMAIN written' : written'[j] < m_queue'[k].id
          BY <3>3, <4>1, <4>6, <4>7
        <4>9. \A j \in DOMAIN m_queue' : j < k => m_queue'[j].id < m_queue'[k].id
          BY <4>1, <4>2, <4>5
        <4> QED
          BY <4>1, <4>4, <4>8, <4>9
      <3>6. ASSUME NEW k \in DOMAIN written'
            PROVE  /\ written'[k] <= requests
                   /\ \A j \in DOMAIN written' : j < k => written'[j] < written'[k]
        BY <3>3, <3>4, <3>6 DEF SourcesFit
      <3> QED
        BY <2>1, <3>5, <3>6 DEF SourcesFit
    <2> QED
      BY <2>4, <2>5
  <1> QED
    BY <1>1, <1>2, <1>3, <1>4, <1>5, QueueSteps, ConstantsAreValid

LEMMA CountIsFinite ==
    ASSUME NEW s \in Seq(Nat), NEW e
    PROVE  /\ IsFiniteSet({k \in DOMAIN s : s[k] = e})
           /\ Count(s, e) \in Nat
           /\ Count(s, e) = 0 <=> \A k \in DOMAIN s : s[k] # e
  <1> DEFINE found == {k \in DOMAIN s : s[k] = e}
  <1>1. DOMAIN s = 1..Len(s) /\ Len(s) \in Nat
    BY LenProperties
  <1>2. IsFiniteSet(1..Len(s))
    BY <1>1, FS_Interval
  <1>3. found \in SUBSET (1..Len(s))
    BY <1>1
  <1> HIDE DEF found
  <1>4. IsFiniteSet(found)
    BY <1>2, <1>3, FS_Subset
  <1>5. Cardinality(found) \in Nat /\ (Cardinality(found) = 0 <=> found = {})
    BY <1>4, FS_CardinalityType, FS_EmptySet
  <1>6. found = {} <=> \A k \in DOMAIN s : s[k] # e
    BY DEF found
  <1> QED
    BY <1>4, <1>5, <1>6 DEF found, Count

Bytes(n, id) == [k \in 1..n |-> id]

LEMMA BytesCounted ==
    ASSUME NEW s \in Seq(Nat), NEW n \in Nat, NEW id \in Nat, NEW e \in Nat
    PROVE  /\ e = id => Count(s \o Bytes(n, id), e) = Count(s, e) + n
           /\ e # id => Count(s \o Bytes(n, id), e) = Count(s, e)
  <1> DEFINE t == s \o Bytes(n, id)
             before == {k \in DOMAIN s : s[k] = e}
             bytes == (Len(s) + 1)..(Len(s) + n)
             after == {k \in DOMAIN t : t[k] = e}
  <1>1. /\ DOMAIN s = 1..Len(s) /\ Len(s) \in Nat /\ DOMAIN t = 1..(Len(s) + n)
        /\ \A k \in 1..(Len(s) + n) : t[k] = IF k <= Len(s) THEN s[k] ELSE id
    BY BytesWritten DEF Bytes
  <1>2. IsFiniteSet(before) /\ Cardinality(before) \in Nat
    BY CountIsFinite, FS_CardinalityType
  <1>3. CASE e # id
    <2>1. after = before
      BY <1>1, <1>3
    <2>2. Cardinality(after) = Cardinality(before)
      <3> HIDE DEF before, after
      <3> QED
        BY <1>2, <2>1
    <2>3. Count(t, e) = Cardinality(after) /\ Count(s, e) = Cardinality(before)
      BY DEF Count
    <2> QED
      BY <1>3, <2>2, <2>3
  <1>4. CASE e = id
    <2>1. after = before \cup bytes /\ before \cap bytes = {}
      BY <1>1, <1>4
    <2>2. IsFiniteSet(bytes) /\ Cardinality(bytes) = n
      <3>1. Len(s) + 1 \in Int /\ Len(s) + n \in Int
        BY <1>1
      <3>2. /\ IsFiniteSet(bytes)
            /\ Cardinality(bytes) =
                   IF Len(s) + 1 > Len(s) + n THEN 0 ELSE (Len(s) + n) - (Len(s) + 1) + 1
        BY <3>1, FS_Interval
      <3> HIDE DEF bytes
      <3> QED
        BY <1>1, <3>2
    <2> HIDE DEF before, bytes, after
    <2>3. Cardinality(after) = Cardinality(before) + n - Cardinality({})
      BY <1>2, <2>1, <2>2, FS_Union
    <2>4. Cardinality(after) = Cardinality(before) + n
      BY <1>2, <2>3, FS_EmptySet
    <2> QED
      BY <1>4, <2>4 DEF Count, before, after
  <1> QED
    BY <1>3, <1>4

LEMMA OutputStep == ASSUME StreamInv, Next PROVE OutputFits'
  <1> USE DEF StreamInv
  <1>0. m_queue \in Seq(Source) /\ output \in Seq(Nat) /\ written \in Seq(Nat) /\ requests \in Nat
    BY DEF StreamTypes
  <1>1. CASE Rests
    BY <1>1 DEF Rests, OutputFits, Count
  <1>2. CASE Drops
    BY <1>2 DEF Drops, OutputFits
  <1>3. CASE Begins
    <2>1. output' = <<>> /\ \A e : Count(output', e) = 0
      <3>1. output' = <<>> /\ output' \in Seq(Nat)
        BY <1>3 DEF Begins
      <3>2. \A e : \A k \in DOMAIN output' : output'[k] # e
        BY <3>1
      <3> QED
        BY <3>1, <3>2, CountIsFinite
    <2>2. m_queue' = <<>> \/ (m_queue' = m_queue /\ ~m_fd)
      BY <1>3 DEF Begins
    <2>3. ASSUME NEW k \in DOMAIN m_queue' PROVE m_queue'[k].size - m_queue'[k].left = 0
      <3>1. m_queue' = m_queue /\ k \in DOMAIN m_queue /\ ~m_fd
        BY <2>2, <2>3
      <3>2. m_queue[k].left = m_queue[k].size /\ m_queue[k].size \in Nat
        BY <3>1, ElementTypes DEF SourcesFit
      <3> QED
        BY <3>1, <3>2
    <2> QED
      BY <2>1, <2>3 DEF OutputFits
  <1>4. ASSUME NEW size \in Nat, Adds(size) PROVE OutputFits'
    <2> DEFINE source == NewSource(size)
    <2>1. /\ source \in Source /\ source.id = requests + 1
          /\ source.size = size /\ source.left = size
      BY <1>0 DEF NewSource, Source
    <2>2. m_queue' = Append(m_queue, source) /\ UNCHANGED <<m_fd, output, written>>
      BY <1>4 DEF Adds
    <2> HIDE DEF source
    <2>3. /\ Len(m_queue) \in Nat /\ DOMAIN m_queue = 1..Len(m_queue)
          /\ DOMAIN m_queue' = 1..(Len(m_queue) + 1)
          /\ \A k \in 1..(Len(m_queue) + 1) :
                 m_queue'[k] = IF k <= Len(m_queue) THEN m_queue[k] ELSE source
      BY <1>0, <2>1, <2>2, LastAppended
    <2>4. m_fd => Count(output, requests + 1) = 0
      <3>1. ASSUME m_fd, NEW j \in DOMAIN output PROVE output[j] # requests + 1
        <4>1. output[j] \in Nat /\ output[j] <= requests
          BY <3>1, ElementTypes DEF SourcesFit, OutputFits
        <4> QED
          BY <1>0, <4>1
      <3> QED
        BY <1>0, <3>1, CountIsFinite
    <2>5. ASSUME m_fd, NEW k \in DOMAIN m_queue'
          PROVE  Count(output, m_queue'[k].id) = m_queue'[k].size - m_queue'[k].left
      <3>1. CASE k \in DOMAIN m_queue
        <4>1. m_queue'[k] = m_queue[k]
          BY <2>3, <3>1
        <4> QED
          BY <2>5, <3>1, <4>1 DEF OutputFits
      <3>2. CASE k \notin DOMAIN m_queue
        <4>1. m_queue'[k] = source
          BY <2>3, <2>5, <3>2
        <4> QED
          BY <2>1, <2>4, <2>5, <4>1
      <3> QED
        BY <3>1, <3>2
    <2>6. \A k \in DOMAIN m_queue : k \in DOMAIN m_queue' /\ m_queue'[k] = m_queue[k]
      BY <2>3
    <2>7. ASSUME m_fd, NEW j \in DOMAIN output
          PROVE  \/ \E k \in DOMAIN written : output[j] = written[k]
                 \/ \E k \in DOMAIN m_queue' : output[j] = m_queue'[k].id
      BY <2>6, <2>7 DEF OutputFits
    <2>8. m_fd => \A j, k \in DOMAIN output : j < k => output[j] <= output[k]
      BY DEF OutputFits
    <2>9. \A f : Count(output', f) = Count(output, f)
      BY <2>2 DEF Count
    <2> HIDE DEF Count
    <2> QED
      BY <2>2, <2>5, <2>7, <2>8, <2>9 DEF OutputFits
  <1>5. ASSUME NEW size \in 0..m_queue[1].left, Writes(size) PROVE OutputFits'
    <2> DEFINE L == Len(m_queue)
               id == m_queue[1].id
    <2>1. /\ m_queue # <<>> /\ UNCHANGED m_fd /\ m_fd
          /\ output' = output \o [k \in 1..size |-> id]
      BY <1>5 DEF Writes
    <2>2. /\ L \in Nat \ {0} /\ DOMAIN m_queue = 1..L
          /\ DOMAIN Tail(m_queue) = 1..(L - 1)
          /\ \A k \in 1..(L - 1) : Tail(m_queue)[k] = m_queue[k + 1]
      BY <1>0, <2>1, FirstTaken
    <2>3. /\ \A k \in 1..L :
                 m_queue[k].id \in Nat /\ m_queue[k].left \in Nat /\ m_queue[k].size \in Nat
          /\ id \in Nat /\ size \in Nat
      <3>1. m_queue[1].left \in Nat
        BY <2>2, ElementTypes
      <3> QED
        BY <2>2, <3>1, ElementTypes
    <2>4. \A k \in 2..L : id < m_queue[k].id /\ Count(output, m_queue[k].id) = 0
      <3>1. ASSUME NEW k \in 2..L PROVE id < m_queue[k].id /\ Count(output, m_queue[k].id) = 0
        <4>1. 1 \in DOMAIN m_queue /\ k \in DOMAIN m_queue /\ 1 < k
          BY <2>2
        <4>2. id < m_queue[k].id /\ m_queue[k].left = m_queue[k].size
          BY <4>1 DEF SourcesFit
        <4>3. m_queue[k].size \in Nat
          BY <2>2, <2>3, <4>1
        <4>4. Count(output, m_queue[k].id) = m_queue[k].size - m_queue[k].left
          BY <2>1, <4>1 DEF OutputFits
        <4> QED
          BY <4>2, <4>3, <4>4
      <3> QED
        BY <3>1
    <2>5. ASSUME NEW j \in DOMAIN output PROVE output[j] \in Nat /\ output[j] <= id
      <3>1. output[j] \in Nat
        BY ElementTypes
      <3>2. CASE \E k \in DOMAIN written : output[j] = written[k]
        BY <2>2, <2>3, <3>1, <3>2 DEF SourcesFit
      <3>3. ASSUME NEW k \in DOMAIN m_queue, output[j] = m_queue[k].id PROVE output[j] <= id
        <4>1. CASE k = 1
          BY <2>3, <3>3, <4>1
        <4>2. CASE k \in 2..L
          BY <1>0, <2>4, <3>3, <4>2, CountIsFinite
        <4> QED
          BY <2>2, <3>3, <4>1, <4>2
      <3> QED
        BY <2>1, <3>1, <3>2, <3>3 DEF OutputFits
    <2> HIDE DEF id
    <2>6. /\ DOMAIN output = 1..Len(output) /\ Len(output) \in Nat
          /\ DOMAIN output' = 1..(Len(output) + size)
          /\ \A k \in 1..(Len(output) + size) :
                 output'[k] = IF k <= Len(output) THEN output[k] ELSE id
      BY <1>0, <2>1, <2>3, BytesWritten
    <2>7. \A j, k \in DOMAIN output' : j < k => output'[j] <= output'[k]
      BY <2>1, <2>3, <2>5, <2>6 DEF OutputFits
    <2>8. /\ \A k \in 2..L : Count(output', m_queue[k].id) = 0
          /\ Count(output', id) = (m_queue[1].size - m_queue[1].left) + size
      <3>0. /\ Count(output', id) = Count(output, id) + size
            /\ \A e \in Nat : e # id /\ Count(output, e) = 0 => Count(output', e) = 0
        <4>1. output' = output \o Bytes(size, id)
          BY <2>1 DEF Bytes
        <4>2. \A e \in Nat :
                  /\ e = id => Count(output', e) = Count(output, e) + size
                  /\ e # id => Count(output', e) = Count(output, e)
          BY <1>0, <2>3, <4>1, BytesCounted
        <4> QED
          BY <2>3, <4>2
      <3>1. ASSUME NEW k \in 2..L PROVE Count(output', m_queue[k].id) = 0
        <4>1. m_queue[k].id \in Nat /\ m_queue[k].id # id
          BY <2>2, <2>3, <2>4
        <4> QED
          BY <2>4, <3>0, <4>1
      <3>2. Count(output', id) = Count(output, id) + size
        BY <2>3, <3>0
      <3>3. Count(output, id) = m_queue[1].size - m_queue[1].left
        BY <2>1, <2>2 DEF OutputFits, id
      <3> QED
        BY <3>1, <3>2, <3>3
    <2>9. CASE size < m_queue[1].left
      <3>1. m_queue' = [m_queue EXCEPT ![1].left = @ - size] /\ written' = written
        BY <2>2, <2>3, <2>9, <1>5 DEF Writes
      <3>2. /\ DOMAIN m_queue' = DOMAIN m_queue
            /\ \A k \in DOMAIN m_queue :
                   /\ m_queue'[k].id = m_queue[k].id /\ m_queue'[k].size = m_queue[k].size
                   /\ m_queue'[k].left = IF k = 1 THEN m_queue[1].left - size ELSE m_queue[k].left
        BY <1>0, <2>1, <2>9, <3>1, FirstWritten
      <3>3. ASSUME NEW k \in DOMAIN m_queue'
            PROVE  Count(output', m_queue'[k].id) = m_queue'[k].size - m_queue'[k].left
        <4>1. CASE k = 1
          <5>1. /\ m_queue'[1].id = id /\ m_queue'[1].size = m_queue[1].size
                /\ m_queue'[1].left = m_queue[1].left - size
            BY <2>2, <3>2 DEF id
          <5>2. m_queue[1].size \in Nat /\ m_queue[1].left \in Nat
            BY <2>2, <2>3
          <5> QED
            BY <2>3, <2>8, <4>1, <5>1, <5>2
        <4>2. CASE k \in 2..L
          <5>1. k \in DOMAIN m_queue /\ k > 1 /\ k \in 1..L
            BY <2>2, <4>2
          <5>2. m_queue[k].left = m_queue[k].size
            BY <5>1 DEF SourcesFit
          <5> QED
            BY <2>3, <2>8, <3>2, <4>2, <5>1, <5>2
        <4> QED
          BY <2>2, <3>2, <4>1, <4>2
      <3>4. ASSUME NEW j \in DOMAIN output'
            PROVE  \/ \E k \in DOMAIN written' : output'[j] = written'[k]
                   \/ \E k \in DOMAIN m_queue' : output'[j] = m_queue'[k].id
        <4>1. CASE j <= Len(output)
          <5>1. j \in DOMAIN output /\ output'[j] = output[j]
            BY <2>6, <4>1
          <5> QED
            BY <2>1, <3>1, <3>2, <5>1 DEF OutputFits
        <4>2. CASE ~(j <= Len(output))
          BY <2>2, <2>6, <3>2, <4>2 DEF id
        <4> QED
          BY <4>1, <4>2
      <3> QED
        BY <2>7, <3>3, <3>4 DEF OutputFits
    <2>10. CASE ~(size < m_queue[1].left)
      <3>1. m_queue' = Tail(m_queue) /\ written' = Append(written, id)
        BY <2>10, <1>5 DEF Writes, id
      <3>2. /\ Len(written) \in Nat /\ DOMAIN written = 1..Len(written)
            /\ DOMAIN written' = 1..(Len(written) + 1)
            /\ \A k \in 1..(Len(written) + 1) :
                   written'[k] = IF k <= Len(written) THEN written[k] ELSE id
        BY <1>0, <2>3, <3>1, LastAppended
      <3>3. ASSUME NEW k \in DOMAIN m_queue'
            PROVE  Count(output', m_queue'[k].id) = m_queue'[k].size - m_queue'[k].left
        <4>1. k + 1 \in 2..L /\ m_queue'[k] = m_queue[k + 1]
          BY <2>2, <3>1
        <4>2. k + 1 \in DOMAIN m_queue /\ k + 1 > 1 /\ k + 1 \in 1..L
          BY <2>2, <4>1
        <4>3. m_queue[k + 1].left = m_queue[k + 1].size
          BY <4>2 DEF SourcesFit
        <4> QED
          BY <2>3, <2>8, <4>1, <4>2, <4>3
      <3>4. ASSUME NEW j \in DOMAIN output'
            PROVE  \/ \E k \in DOMAIN written' : output'[j] = written'[k]
                   \/ \E k \in DOMAIN m_queue' : output'[j] = m_queue'[k].id
        <4>1. CASE output'[j] = id
          BY <3>2, <4>1
        <4>2. CASE output'[j] # id
          <5>1. j \in DOMAIN output /\ output'[j] = output[j]
            BY <2>6, <4>2
          <5>2. CASE \E k \in DOMAIN written : output[j] = written[k]
            BY <3>2, <5>1, <5>2
          <5>3. ASSUME NEW k \in DOMAIN m_queue, output[j] = m_queue[k].id
                PROVE  \E i \in DOMAIN m_queue' : output'[j] = m_queue'[i].id
            <6>1. k \in 2..L
              BY <2>2, <4>2, <5>1, <5>3 DEF id
            <6>2. k - 1 \in 1..(L - 1) /\ (k - 1) + 1 = k
              BY <2>2, <6>1
            <6>3. k - 1 \in DOMAIN m_queue' /\ m_queue'[k - 1] = m_queue[k]
              BY <2>2, <3>1, <6>2
            <6> QED
              BY <5>1, <5>3, <6>3
          <5> QED
            BY <2>1, <5>1, <5>2, <5>3 DEF OutputFits
        <4> QED
          BY <4>1, <4>2
      <3> QED
        BY <2>7, <3>3, <3>4 DEF OutputFits
    <2> QED
      BY <2>9, <2>10
  <1> QED
    BY <1>1, <1>2, <1>3, <1>4, <1>5, QueueSteps, ConstantsAreValid

-----------------------------------------------------------------------------
LEMMA StreamStep == StreamInv /\ [Next]_streamVars => StreamInv'
  <1> SUFFICES ASSUME StreamInv, [Next]_streamVars PROVE StreamInv'
    OBVIOUS
  <1>1. CASE Next
    BY <1>1, TypesStep, ControlStep, EventsStep, HandlersStep, SourcesStep, OutputStep
        DEF StreamInv
  <1>2. CASE UNCHANGED streamVars
    <2>1. StreamTypes' /\ CallbacksReturn' /\ ConnectionsFit' /\ EventsFit' /\ HandlersFit'
      BY <1>2 DEF streamVars, StreamInv, StreamTypes, CallbacksReturn, ConnectionsFit,
          EventsFit, HandlersFit, AssertionsHold
    <2>2. Rests
      BY <1>2 DEF streamVars, Rests
    <2>3. SourcesFit' /\ OutputFits'
      BY <2>2 DEF Rests, StreamInv, SourcesFit, OutputFits, Count
    <2> QED
      BY <2>1, <2>3 DEF StreamInv
  <1> QED
    BY <1>1, <1>2

(* Every part of the invariant holds of a stream (FileDescriptorIO, Socket).  *)
THEOREM StreamInvariant == Spec => []StreamInv
  BY StreamInitially, StreamStep, PTL DEF Spec

(* What the event loop has registered is what is asked of the descriptor      *)
(* (updateEventsLocked(), read(), write(), onEvent(), onConnect()).           *)
THEOREM StreamEventsMatch == Spec => []EventsMatchRequests
  <1>1. StreamInv => EventsMatchRequests
    BY DEF StreamInv, ConnectionsFit, EventsFit, EventsMatchRequests
  <1> QED
    BY <1>1, StreamInvariant, PTL

(* An assertion of a handler fails only after a request it does not cope      *)
(* with (onEvent()).                                                         *)
THEOREM StreamAssertionsHold == Spec => []AssertionsHold
  <1>1. StreamInv => AssertionsHold
    BY DEF StreamInv, HandlersFit
  <1> QED
    BY <1>1, StreamInvariant, PTL

(* The bytes written are those of the requests, in order, whole, once         *)
(* (write(), send(), onEvent()).                                             *)
THEOREM StreamOutputIsRequests == Spec => []OutputIsRequests
  <1>1. ASSUME StreamInv PROVE OutputIsRequests
    <2> DEFINE ids == [k \in DOMAIN m_queue |-> m_queue[k].id]
               order == written \o ids
               L == Len(m_queue)
               W == Len(written)
    <2>1. /\ m_queue \in Seq(Source) /\ written \in Seq(Nat) /\ output \in Seq(Nat)
          /\ \A k \in DOMAIN m_queue : m_queue[k].id \in Nat
          /\ \A k \in DOMAIN written : written[k] \in Nat
      BY <1>1, ElementTypes DEF StreamInv, StreamTypes
    <2>2. /\ L \in Nat /\ DOMAIN m_queue = 1..L
          /\ W \in Nat /\ DOMAIN written = 1..W
      BY <2>1, LenProperties
    <2>3. /\ ids \in Seq(Nat) /\ Len(ids) = L
          /\ \A k \in 1..L : ids[k] = m_queue[k].id
      <3>1. ids \in Seq(Nat)
        BY <2>1, <2>2, IsASeq
      <3> QED
        BY <2>2, <3>1, LenProperties
    <2> HIDE DEF ids, L, W
    <2>4. /\ DOMAIN order = 1..(W + L)
          /\ \A k \in 1..(W + L) : order[k] = IF k <= W THEN written[k] ELSE ids[k - W]
      <3>1. /\ order \in Seq(Nat) /\ Len(order) = W + L
            /\ \A k \in 1..(W + L) : order[k] = IF k <= W THEN written[k] ELSE ids[k - W]
        BY <2>1, <2>3, ConcatProperties DEF W
      <3> HIDE DEF order
      <3> QED
        BY <3>1, LenProperties
    <2> HIDE DEF order
    <2>5. ASSUME NEW j \in DOMAIN order, NEW k \in DOMAIN order, j < k
          PROVE  order[j] < order[k]
      <3>1. j \in 1..(W + L) /\ k \in 1..(W + L)
        BY <2>4, <2>5
      <3>2. CASE k <= W
        <4>1. /\ j \in DOMAIN written /\ k \in DOMAIN written
              /\ order[j] = written[j] /\ order[k] = written[k]
          BY <2>2, <2>4, <2>5, <3>1, <3>2
        <4> QED
          BY <1>1, <2>5, <4>1 DEF StreamInv, SourcesFit
      <3>3. CASE ~(k <= W)
        <4>1. k - W \in 1..L /\ order[k] = ids[k - W]
          BY <2>2, <2>4, <3>1, <3>3
        <4>2. k - W \in DOMAIN m_queue /\ order[k] = m_queue[k - W].id
          BY <2>2, <2>3, <4>1
        <4>3. CASE j <= W
          <5>1. j \in DOMAIN written /\ order[j] = written[j]
            BY <2>2, <2>4, <3>1, <4>3
          <5> QED
            BY <1>1, <4>2, <5>1 DEF StreamInv, SourcesFit
        <4>4. CASE ~(j <= W)
          <5>1. j - W \in 1..L /\ order[j] = ids[j - W] /\ j - W < k - W
            BY <2>2, <2>4, <2>5, <3>1, <4>4
          <5>2. j - W \in DOMAIN m_queue /\ order[j] = m_queue[j - W].id
            BY <2>2, <2>3, <5>1
          <5> QED
            BY <1>1, <4>2, <5>1, <5>2 DEF StreamInv, SourcesFit
        <4> QED
          BY <4>3, <4>4
      <3> QED
        BY <3>2, <3>3
    <2>6. ASSUME m_fd
          PROVE  /\ \A j, k \in DOMAIN output : j < k => output[j] <= output[k]
                 /\ \A k \in DOMAIN m_queue :
                        Count(output, m_queue[k].id) = m_queue[k].size - m_queue[k].left
                 /\ \A byte \in Range(output) :
                        byte \in Range(written) \cup {m_queue[k].id : k \in DOMAIN m_queue}
      <3>1. \A j, k \in DOMAIN output : j < k => output[j] <= output[k]
        BY <1>1, <2>6 DEF StreamInv, OutputFits
      <3>2. \A k \in DOMAIN m_queue :
                Count(output, m_queue[k].id) = m_queue[k].size - m_queue[k].left
        BY <1>1, <2>6 DEF StreamInv, OutputFits
      <3>3. \A j \in DOMAIN output :
                output[j] \in Range(written) \cup {m_queue[k].id : k \in DOMAIN m_queue}
        BY <1>1, <2>6 DEF StreamInv, OutputFits, Range
      <3> QED
        BY <3>1, <3>2, <3>3 DEF Range
    <2> QED
      BY <2>5, <2>6 DEF OutputIsRequests, Count, order, ids
  <1> QED
    BY <1>1, StreamInvariant, PTL
-----------------------------------------------------------------------------
(* Refinement of StreamContract.  The requests that are pending are as many   *)
(* as the sources.                                                           *)
Request == [id : Nat, size : Nat]
Requests(q) == [k \in DOMAIN q |-> [id |-> q[k].id, size |-> q[k].size]]

LEMMA RequestsOfSources ==
    ASSUME NEW q \in Seq(Source)
    PROVE  /\ Requests(q) \in Seq(Request) /\ Len(Requests(q)) = Len(q) /\ Len(q) \in Nat
           /\ \A k \in 1..Len(q) : Requests(q)[k] = [id |-> q[k].id, size |-> q[k].size]
           /\ Requests(q) = <<>> <=> q = <<>>
  <1>1. Len(q) \in Nat /\ DOMAIN q = 1..Len(q) /\ \A k \in 1..Len(q) : q[k] \in Source
    BY LenProperties, ElementOfSeq
  <1>2. \A k \in 1..Len(q) : [id |-> q[k].id, size |-> q[k].size] \in Request
    BY <1>1 DEF Source, Request
  <1> DEFINE requested == [k \in 1..Len(q) |-> [id |-> q[k].id, size |-> q[k].size]]
  <1>3. requested \in Seq(Request)
    BY <1>1, <1>2, IsASeq
  <1>4. /\ DOMAIN requested = 1..Len(q)
        /\ \A k \in 1..Len(q) : requested[k] = [id |-> q[k].id, size |-> q[k].size]
    OBVIOUS
  <1>5. Requests(q) = requested
    BY <1>1 DEF Requests
  <1> HIDE DEF requested
  <1>6. Len(requested) = Len(q)
    BY <1>1, <1>3, <1>4, LenProperties
  <1>7. requested = <<>> <=> q = <<>>
    BY <1>3, <1>6, EmptySeq
  <1> QED
    BY <1>1, <1>3, <1>4, <1>5, <1>6, <1>7

LEMMA ContractStep == ASSUME StreamInv, StreamInv', Next PROVE [Contract!Next]_(Contract!vars)
  <1> USE DEF StreamInv
  <1>0. /\ m_queue \in Seq(Source) /\ m_queue' \in Seq(Source)
        /\ requests \in Nat /\ Sizes \subseteq Nat
    BY ConstantsAreValid DEF StreamTypes
  <1>a. Pending = Requests(m_queue) /\ Pending' = Requests(m_queue')
    BY DEF Pending, Requests
  <1>b. /\ Pending \in Seq(Request) /\ Len(Pending) = Len(m_queue) /\ Len(m_queue) \in Nat
        /\ \A k \in 1..Len(m_queue) :
               Pending[k] = [id |-> m_queue[k].id, size |-> m_queue[k].size]
        /\ Pending = <<>> <=> m_queue = <<>>
    BY <1>0, <1>a, RequestsOfSources
  <1>c. /\ Pending' \in Seq(Request) /\ Len(Pending') = Len(m_queue')
        /\ \A k \in 1..Len(m_queue') :
               Pending'[k] = [id |-> m_queue'[k].id, size |-> m_queue'[k].size]
        /\ Pending' = <<>> <=> m_queue' = <<>>
    BY <1>0, <1>a, RequestsOfSources
  <1>1. CASE Rests
    <2>1. UNCHANGED <<m_fd, Pending, Sent, requests, output>>
      BY <1>1 DEF Rests, Pending, Sent
    <2> QED
      BY <2>1 DEF Contract!vars
  <1>2. CASE Drops
    <2>1. Pending' = <<>> /\ Sent' = 0
      BY <1>2, <1>c DEF Drops, Sent
    <2> QED
      BY <1>2, <2>1 DEF Drops, Contract!Next, Contract!Close
  <1>3. CASE Begins
    <2>1. m_queue # <<>> => 1 \in DOMAIN m_queue
      BY <1>0, EmptySeq, LenProperties
    <2>2. ~m_fd => Sent = 0
      <3>1. ASSUME ~m_fd, m_queue # <<>> PROVE m_queue[1].left = m_queue[1].size /\ m_queue[1].size \in Nat
        BY <2>1, <3>1, ElementTypes DEF SourcesFit
      <3> QED
        BY <3>1 DEF Sent
    <2>3. \/ Pending' = <<>> /\ Sent' = 0
          \/ ~m_fd /\ UNCHANGED <<Pending, Sent>>
      BY <1>3, <1>c DEF Begins, Pending, Sent
    <2> QED
      BY <1>3, <2>2, <2>3 DEF Begins, Contract!Next, Contract!Open
  <1>4. ASSUME NEW size \in Sizes, Adds(size) PROVE Contract!Next
    <2> DEFINE source == NewSource(size)
               new == [id |-> requests + 1, size |-> size]
               L == Len(m_queue)
    <2>1. source \in Source /\ source.id = requests + 1 /\ source.size = size /\ source.left = size
      BY <1>0 DEF NewSource, Source
    <2>2. new \in Request /\ new = [id |-> source.id, size |-> source.size]
      BY <1>0, <2>1 DEF Request
    <2>3. m_queue' = Append(m_queue, source)
      BY <1>4 DEF Adds
    <2> HIDE DEF source, new
    <2>4. /\ DOMAIN m_queue' = 1..(L + 1)
          /\ \A k \in 1..(L + 1) : m_queue'[k] = IF k <= L THEN m_queue[k] ELSE source
      BY <1>0, <2>1, <2>3, LastAppended
    <2>5. Len(m_queue') = L + 1
      BY <1>0, <2>1, <2>3, AppendProperties
    <2>6. /\ Append(Pending, new) \in Seq(Request) /\ Len(Append(Pending, new)) = L + 1
          /\ \A k \in 1..(L + 1) : Append(Pending, new)[k] = IF k <= L THEN Pending[k] ELSE new
      <3>1. /\ Append(Pending, new) \in Seq(Request) /\ Len(Append(Pending, new)) = L + 1
            /\ \A k \in 1..L : Append(Pending, new)[k] = Pending[k]
            /\ Append(Pending, new)[L + 1] = new
        BY <1>b, <2>2, AppendProperties
      <3>2. \A k \in 1..(L + 1) : k \in 1..L \/ k = L + 1
        BY <1>b
      <3> QED
        BY <1>b, <3>1, <3>2
    <2>7. \A k \in 1..(L + 1) : Pending'[k] = Append(Pending, new)[k]
      <3> SUFFICES ASSUME NEW k \in 1..(L + 1) PROVE Pending'[k] = Append(Pending, new)[k]
        OBVIOUS
      <3>1. Pending'[k] = [id |-> m_queue'[k].id, size |-> m_queue'[k].size]
        BY <1>c, <2>5
      <3>2. CASE k <= L
        BY <1>b, <2>4, <2>6, <3>1, <3>2
      <3>3. CASE ~(k <= L)
        BY <2>2, <2>4, <2>6, <3>1, <3>3
      <3> QED
        BY <3>2, <3>3
    <2>8. Pending' = Append(Pending, new)
      BY <1>c, <2>5, <2>6, <2>7, SeqEqual
    <2>9. Sent' = Sent
      <3>1. CASE m_queue = <<>>
        <4>1. L = 0 /\ m_queue' # <<>> /\ m_queue'[1] = source
          BY <1>0, <2>4, <2>5, <3>1, EmptySeq
        <4> QED
          BY <1>0, <2>1, <3>1, <4>1 DEF Sent
      <3>2. CASE m_queue # <<>>
        <4>1. 1 <= L /\ m_queue' # <<>>
          BY <1>0, <2>5, <3>2, EmptySeq
        <4>2. m_queue'[1] = m_queue[1]
          BY <1>b, <2>4, <4>1
        <4> QED
          BY <3>2, <4>1, <4>2 DEF Sent
      <3> QED
        BY <3>1, <3>2
    <2> QED
      BY <1>4, <2>8, <2>9 DEF Adds, Contract!Next, Contract!Request, new
  <1>5. ASSUME NEW size \in 0..m_queue[1].left, Writes(size) PROVE Contract!Next
    <2> DEFINE first == m_queue[1]
               L == Len(m_queue)
    <2>1. m_queue # <<>> /\ m_fd /\ UNCHANGED <<m_fd, requests>>
      BY <1>5 DEF Writes
    <2>2. /\ L \in Nat \ {0} /\ DOMAIN m_queue = 1..L /\ 1 \in 1..L
          /\ DOMAIN Tail(m_queue) = 1..(L - 1)
          /\ \A k \in 1..(L - 1) : Tail(m_queue)[k] = m_queue[k + 1]
      BY <1>0, <2>1, FirstTaken
    <2>3. first.id \in Nat /\ first.size \in Nat /\ first.left \in Nat /\ first.left <= first.size
      BY <2>2, ElementTypes DEF SourcesFit
    <2>4. /\ Pending # <<>> /\ Pending[1].id = first.id /\ Pending[1].size = first.size
          /\ Sent = first.size - first.left
      <3>1. Pending[1] = [id |-> first.id, size |-> first.size]
        BY <1>b, <2>2
      <3>2. Sent = first.size - first.left
        BY <2>1 DEF Sent
      <3>3. Pending # <<>>
        BY <1>b, <2>1
      <3> HIDE DEF first
      <3>4. Pending[1].id = first.id /\ Pending[1].size = first.size
        BY <3>1
      <3> QED
        BY <3>2, <3>3, <3>4
    <2>5. /\ size \in Nat /\ size \in 0 .. Pending[1].size - Sent
          /\ Sent + size < Pending[1].size <=> size < first.left
      <3> HIDE DEF first
      <3>1. size \in 0..first.left
        BY DEF first
      <3> DEFINE n == first.size
                 m == first.left
      <3>2. n \in Nat /\ m \in Nat /\ m <= n /\ size \in 0..m
        BY <2>3, <3>1
      <3>3. Pending[1].size = n /\ Sent = n - m
        BY <2>4
      <3> HIDE DEF n, m
      <3> QED
        BY <3>2, <3>3 DEF m
    <2>6. output' = output \o [k \in 1..size |-> Pending[1].id]
      BY <1>5, <2>4 DEF Writes
    <2>7. CASE size < first.left
      <3>1. m_queue' = [m_queue EXCEPT ![1].left = @ - size]
        BY <1>5, <2>3, <2>7 DEF Writes
      <3>2. /\ m_queue' # <<>> /\ DOMAIN m_queue' = DOMAIN m_queue
            /\ \A k \in DOMAIN m_queue :
                   m_queue'[k].id = m_queue[k].id /\ m_queue'[k].size = m_queue[k].size
            /\ m_queue'[1].left = first.left - size
        BY <1>0, <2>1, <2>2, <2>7, <3>1, FirstWritten
      <3>3. Pending' = Pending
        BY <3>2 DEF Pending
      <3>4. Sent' = Sent + size
        <4>1. Sent' = first.size - (first.left - size)
          BY <2>2, <3>2 DEF Sent
        <4> QED
          BY <2>3, <2>4, <2>5, <4>1
      <3> QED
        BY <2>1, <2>4, <2>5, <2>6, <2>7, <3>3, <3>4 DEF Contract!Next, Contract!Write
    <2>8. CASE ~(size < first.left)
      <3>1. m_queue' = Tail(m_queue)
        BY <1>5, <2>8 DEF Writes
      <3>2. Len(m_queue') = L - 1 /\ \A k \in 1..(L - 1) : m_queue'[k] = m_queue[k + 1]
        BY <1>0, <2>1, <2>2, <3>1, HeadTailProperties
      <3>3. /\ Tail(Pending) \in Seq(Request) /\ Len(Tail(Pending)) = L - 1
            /\ \A k \in 1..(L - 1) : Tail(Pending)[k] = Pending[k + 1]
        BY <1>b, <2>4, HeadTailProperties
      <3>4. \A k \in 1..(L - 1) : Pending'[k] = Tail(Pending)[k]
        <4> SUFFICES ASSUME NEW k \in 1..(L - 1) PROVE Pending'[k] = Tail(Pending)[k]
          OBVIOUS
        <4>1. k + 1 \in 1..L
          BY <2>2
        <4> QED
          BY <1>b, <1>c, <3>2, <3>3, <4>1
      <3>5. Pending' = Tail(Pending)
        BY <1>c, <3>2, <3>3, <3>4, SeqEqual
      <3>6. Sent' = 0
        <4>1. CASE m_queue' = <<>>
          BY <4>1 DEF Sent
        <4>2. CASE m_queue' # <<>>
          <5>1. 2 \in 1..L /\ m_queue'[1] = m_queue[2]
            BY <1>0, <2>2, <3>2, <4>2, EmptySeq
          <5>2. m_queue[2].left = m_queue[2].size /\ m_queue[2].size \in Nat
            BY <2>2, <5>1, ElementTypes DEF SourcesFit
          <5> QED
            BY <4>2, <5>1, <5>2 DEF Sent
        <4> QED
          BY <4>1, <4>2
      <3> QED
        BY <2>1, <2>4, <2>5, <2>6, <2>8, <3>5, <3>6 DEF Contract!Next, Contract!Write
    <2> QED
      BY <2>7, <2>8
  <1> QED
    BY <1>1, <1>2, <1>3, <1>4, <1>5, QueueSteps

(* A stream implements StreamContract: bytes go out one request after the     *)
(* other, whole, until it is closed (write(), send(), onEvent(), close()).    *)
THEOREM StreamImplementsContract == Spec => ImplementsContract
  <1>1. StreamInit => Contract!Init
    <2> SUFFICES ASSUME StreamInit PROVE Contract!Init
      OBVIOUS
    <2>1. m_queue = <<>> /\ <<>> \in Seq(Source)
      BY EmptySeq DEF StreamInit
    <2>2. Pending = <<>> /\ Sent = 0
      BY <2>1, RequestsOfSources DEF Pending, Requests, Sent
    <2> QED
      BY <2>2 DEF StreamInit, Contract!Init
  <1>2. StreamInv /\ StreamInv' /\ [Next]_streamVars => [Contract!Next]_(Contract!vars)
    <2>1. ASSUME UNCHANGED streamVars PROVE UNCHANGED Contract!vars
      BY <2>1 DEF streamVars, Contract!vars, Pending, Sent
    <2> QED
      BY <2>1, ContractStep
  <1> QED
    BY <1>1, <1>2, StreamInvariant, PTL DEF Spec, ImplementsContract, Contract!Spec
=============================================================================
