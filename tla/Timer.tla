-------------------------------- MODULE Timer --------------------------------
(***************************************************************************)
(* hlib::Timer: timers, each a timerfd registered with one EventLoop.  Main   *)
(* dispatches the loop and calls the callbacks; the threads in User set,     *)
(* clear and destroy timers, Main only in a callback or between two events.  *)
(* The look-up of an event's callback is EventLoop's LookupHit: after it the *)
(* dispatcher owns a copy, so that remove() comes too late.                  *)
(***************************************************************************)
EXTENDS TimerFd

CONSTANTS Object, Main, Client, User

Thread == {Main} \cup Client

ASSUME UsersAreThreads == Main \notin Client /\ User \subseteq Thread

VARIABLES
    object,         \* of each timer: "none", "alive" or "destroyed"
    loop,           \* the EventLoop exists: m_event_loop has not expired
    registered,     \* the timers whose fd is in the loop
    timerfd,        \* kernel state of each timer's m_fd
    at,             \* where Main is: dispatching, or in onExpire() ...
    current,        \* ... of this timer
    due,            \* history: callbacks the last set() still allows:
                    \* "none", "one" or "many"
    late            \* history: a callback began that due did not allow

vars == <<object, loop, registered, timerfd, at, current, due, late>>
dispatchVars == <<at, current, late>>

Location == {"wait", "found", "read", "expired", "callback"}

TypeOK ==
    /\ object \in [Object -> {"none", "alive", "destroyed"}]
    /\ loop \in BOOLEAN
    /\ registered \subseteq {x \in Object : loop /\ object[x] = "alive"}
    /\ timerfd \in [Object -> State]
    /\ at \in Location
    /\ current \in Object
    /\ due \in [Object -> {"none", "one", "many"}]
    /\ late \in BOOLEAN

Init ==
    /\ object = [x \in Object |-> "none"]
    /\ loop \in BOOLEAN
    /\ registered = {}
    /\ timerfd = [x \in Object |-> Disarmed]
    /\ at = "wait"
    /\ current \in Object
    /\ due = [x \in Object |-> "none"]
    /\ late = FALSE

-----------------------------------------------------------------------------
(* A user on the dispatching thread runs between two events or in a callback.*)
CanUse(t) == t \in User /\ (t = Main => at \in {"wait", "callback"})

(* An expired weak_ptr is ignored: the timer is then never registered. *)
Construct(t, x) ==
    /\ CanUse(t)
    /\ object[x] = "none"
    /\ object' = [object EXCEPT ![x] = "alive"]
    /\ registered' = IF loop THEN registered \cup {x} ELSE registered
    /\ UNCHANGED <<loop, timerfd, dispatchVars, due>>

(* Mutant of Expire: no immediate_nsec. *)
ExpireAsGiven(expire) == expire

(* 0 would disarm the timerfd: set() replaces it by immediate_nsec. *)
Expire(expire) == IF expire = 0 THEN 1 ELSE expire

Set(t, x, expire, interval) ==
    /\ CanUse(t)
    /\ object[x] = "alive"
    /\ timerfd' = [timerfd EXCEPT ![x] = SetTime(@, Expire(expire), interval)]
    /\ due' = [due EXCEPT ![x] = IF ~IsValid(expire, interval) THEN @
                                   ELSE IF interval > 0 THEN "many"
                                   ELSE "one"]
    /\ UNCHANGED <<object, loop, registered, dispatchVars>>

(* Mutant of Clear: clear() is set(0, 0), which replaces the zero.            *)
ClearBySet(t, x) ==
    /\ CanUse(t)
    /\ object[x] = "alive"
    /\ timerfd' = [timerfd EXCEPT ![x] = SetTime(@, Expire(0), 0)]
    /\ due' = [due EXCEPT ![x] = "none"]
    /\ UNCHANGED <<object, loop, registered, dispatchVars>>

Clear(t, x) ==
    /\ CanUse(t)
    /\ object[x] = "alive"
    /\ timerfd' = [timerfd EXCEPT ![x] = SetTime(@, 0, 0)]
    /\ due' = [due EXCEPT ![x] = "none"]
    /\ UNCHANGED <<object, loop, registered, dispatchVars>>

(* remove() if the loop is there; m_fd is not closed, and goes on ticking.   *)
Destroy(t, x) ==
    /\ CanUse(t)
    /\ object[x] = "alive"
    /\ object' = [object EXCEPT ![x] = "destroyed"]
    /\ registered' = registered \ {x}
    /\ due' = [due EXCEPT ![x] = "none"]
    /\ UNCHANGED <<loop, timerfd, dispatchVars>>

(* The last shared_ptr of the loop goes away, while nobody dispatches it. *)
LoopDestroyed ==
    /\ loop /\ at = "wait"
    /\ loop' = FALSE
    /\ registered' = {}
    /\ UNCHANGED <<object, timerfd, dispatchVars, due>>

Elapses(x) ==
    /\ timerfd[x].armed
    /\ timerfd' = [timerfd EXCEPT ![x] = Elapse(@)]
    /\ UNCHANGED <<object, loop, registered, dispatchVars, due>>

-----------------------------------------------------------------------------
Wake(x) ==
    /\ at = "wait"
    /\ x \in registered /\ timerfd[x].expired
    /\ at' = "found"
    /\ current' = x
    /\ UNCHANGED <<object, loop, registered, timerfd, due, late>>

(* The look-up: another thread may have removed the fd since.                *)
LookUp ==
    /\ at = "found"
    /\ at' = IF current \in registered THEN "read" ELSE "wait"
    /\ UNCHANGED <<object, loop, registered, timerfd, current, due, late>>

(* Mutant of Read: reads until nothing is left, as from an O_NONBLOCK fd.     *)
ReadUntilEmpty ==
    /\ at = "read"
    /\ IF timerfd[current].expired
         THEN timerfd' = [timerfd EXCEPT ![current] = Consume(@)] /\ UNCHANGED at
         ELSE at' = "expired" /\ UNCHANGED timerfd
    /\ UNCHANGED <<object, loop, registered, current, due, late>>

(* onExpire(): a blocking read(), and then m_callback().                     *)
Read ==
    /\ at = "read"
    /\ timerfd[current].expired
    /\ timerfd' = [timerfd EXCEPT ![current] = Consume(@)]
    /\ at' = "expired"
    /\ UNCHANGED <<object, loop, registered, current, due, late>>

Call ==
    /\ at = "expired"
    /\ at' = "callback"
    /\ late' = (late \/ due[current] = "none" \/ object[current] # "alive")
    /\ due' = [due EXCEPT ![current] = IF @ = "one" THEN "none" ELSE @]
    /\ UNCHANGED <<object, loop, registered, timerfd, current>>

Return ==
    /\ at = "callback"
    /\ at' = "wait"
    /\ UNCHANGED <<object, loop, registered, timerfd, current, due, late>>

OnExpire == LookUp \/ Read \/ Call

Next ==
    \/ \E t \in Thread, x \in Object :
           \/ Construct(t, x) \/ Clear(t, x) \/ Destroy(t, x)
           \/ \E expire, interval \in Duration : Set(t, x, expire, interval)
    \/ LoopDestroyed
    \/ \E x \in Object : Elapses(x) \/ Wake(x)
    \/ OnExpire \/ Return

Spec == Init /\ [][Next]_vars

(* Time passes, the loop is dispatched, epoll reports every ready fd in turn, *)
(* and a callback returns.                                                   *)
FairSpec ==
    /\ Spec
    /\ \A x \in Object : WF_vars(Elapses(x)) /\ SF_vars(Wake(x))
    /\ WF_vars(OnExpire) /\ SF_vars(Return)

-----------------------------------------------------------------------------
(* onExpire() never blocks the loop in read(): the expiration epoll reported *)
(* is still there (Timer::clear() and set() reset the counter; the fd is not *)
(* O_NONBLOCK).                                                              *)
ReadDoesNotBlock == at = "read" => timerfd[current].expired

(* No callback begins after clear(), or after the timer was destroyed, and a *)
(* timer without interval calls back once for each set() (Timer::onExpire).  *)
NoLateCallback == ~late

AnySet(x) ==
    \E t \in Thread, expire, interval \in Duration : Set(t, x, expire, interval)

(* A timer that is set, and not set again and again before it expires, calls  *)
(* back, is cleared, or is destroyed: also for a zero duration, which         *)
(* timerfd_settime() would take for "disarm" (Timer::set).                    *)
SetTimerFires ==
    \A x \in Object : <>[][~AnySet(x)]_vars =>
        (due[x] # "none" /\ x \in registered ~>
            (at = "callback" /\ current = x) \/ due[x] = "none" \/ x \notin registered)
=============================================================================
