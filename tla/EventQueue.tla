----------------------------- MODULE EventQueue ------------------------------
(***************************************************************************)
(* hlib::EventQueue: threads push callbacks on a deque under m_mutex and arm *)
(* a Timer; Main, which dispatches the EventLoop, runs one callback for each *)
(* expiration and disarms the timer once the deque is empty.  The timer's fd *)
(* ticks without regard for m_mutex, so push() is two steps.  Timer::set()   *)
(* and clear() are taken from TimerFd; Main is the only thread that reads    *)
(* and clears the timer.                                                    *)
(***************************************************************************)
EXTENDS TimerFd, Sequences, FiniteSets

CONSTANTS
    Item,           \* the callbacks that may be pushed, each at most once
    NoItem,
    Main,           \* the thread that dispatches the event loop
    Client,         \* the other threads that push
    NoThread

Thread == {Main} \cup Client

ASSUME NamesDistinct ==
    NoItem \notin Item /\ Main \notin Client /\ NoThread \notin Thread

VARIABLES
    m_queue,
    m_mutex,        \* its owner, or NoThread
    m_timer,        \* the timerfd of the queue's Timer
    at,             \* where Main is: dispatching, or in onTimer()
    callback,       \* onTimer()'s local, or NoItem
    pushing,        \* the threads between emplace_back() and m_timer.set()
    pushed,         \* history: the items pushed
    threw           \* history: a callback threw

vars == <<m_queue, m_mutex, m_timer, at, callback, pushing, pushed, threw>>

Location == {"wait", "read", "front", "run", "relock", "undefined"}

TypeOK ==
    /\ m_queue \in Seq(Item)
    /\ m_mutex \in Thread \cup {NoThread}
    /\ m_timer \in State
    /\ at \in Location
    /\ callback \in Item \cup {NoItem}
    /\ pushing \subseteq Thread
    /\ pushed \subseteq Item
    /\ threw \in BOOLEAN

Init ==
    /\ m_queue = <<>>
    /\ m_mutex = NoThread
    /\ m_timer = Disarmed
    /\ at = "wait"
    /\ callback = NoItem
    /\ pushing = {}
    /\ pushed = {}
    /\ threw = FALSE

-----------------------------------------------------------------------------
(* Main pushes from a callback, or from other code between two dispatches.   *)
CanPush(t) == t \notin pushing /\ (t = Main => at \in {"wait", "run"})

(* Mutant of PushBegin: emplace_front().                                     *)
PushInFront(t, item) ==
    /\ CanPush(t)
    /\ item \notin pushed
    /\ m_mutex = NoThread
    /\ m_mutex' = t
    /\ m_queue' = <<item>> \o m_queue
    /\ pushing' = pushing \cup {t}
    /\ pushed' = pushed \cup {item}
    /\ UNCHANGED <<m_timer, at, callback, threw>>

PushBegin(t, item) ==
    /\ CanPush(t)
    /\ item \notin pushed
    /\ m_mutex = NoThread
    /\ m_mutex' = t
    /\ m_queue' = Append(m_queue, item)
    /\ pushing' = pushing \cup {t}
    /\ pushed' = pushed \cup {item}
    /\ UNCHANGED <<m_timer, at, callback, threw>>

(* Mutant of PushEnd: the timer is set without an interval.                  *)
PushArmsOnce(t) ==
    /\ t \in pushing
    /\ m_timer' = SetTime(m_timer, 1, 0)
    /\ m_mutex' = NoThread
    /\ pushing' = pushing \ {t}
    /\ UNCHANGED <<m_queue, at, callback, pushed, threw>>

PushEnd(t) ==
    /\ t \in pushing
    /\ m_timer' = SetTime(m_timer, 1, 1)
    /\ m_mutex' = NoThread
    /\ pushing' = pushing \ {t}
    /\ UNCHANGED <<m_queue, at, callback, pushed, threw>>

Elapses ==
    /\ m_timer.armed
    /\ m_timer' = Elapse(m_timer)
    /\ UNCHANGED <<m_queue, m_mutex, at, callback, pushing, pushed, threw>>

-----------------------------------------------------------------------------
(* epoll_wait() reports the timer's fd. *)
Wake ==
    /\ at = "wait" /\ Main \notin pushing
    /\ m_timer.expired
    /\ at' = "read"
    /\ UNCHANGED <<m_queue, m_mutex, m_timer, callback, pushing, pushed, threw>>

(* Timer::onExpire(): read() waits for an expiration if a push has reset it. *)
ReadTimer ==
    /\ at = "read"
    /\ m_timer.expired
    /\ m_timer' = Consume(m_timer)
    /\ at' = "front"
    /\ UNCHANGED <<m_queue, m_mutex, callback, pushing, pushed, threw>>

(* onTimer(): front() and pop_front() under m_mutex.  On an empty deque the   *)
(* behaviour is undefined.                                                   *)
PopFront ==
    /\ at = "front"
    /\ m_mutex = NoThread
    /\ IF m_queue = <<>>
         THEN at' = "undefined" /\ UNCHANGED <<m_queue, callback>>
         ELSE /\ callback' = Head(m_queue)
              /\ m_queue' = Tail(m_queue)
              /\ at' = "run"
    /\ UNCHANGED <<m_mutex, m_timer, pushing, pushed, threw>>

Return ==
    /\ at = "run" /\ Main \notin pushing
    /\ callback' = NoItem
    /\ at' = "relock"
    /\ UNCHANGED <<m_queue, m_mutex, m_timer, pushing, pushed, threw>>

(* The exception leaves onTimer() and dispatch() without a look at m_queue;   *)
(* the program calls dispatch() again.                                       *)
Throw ==
    /\ at = "run" /\ Main \notin pushing
    /\ callback' = NoItem
    /\ at' = "wait"
    /\ threw' = TRUE
    /\ UNCHANGED <<m_queue, m_mutex, m_timer, pushing, pushed>>

(* Mutants of ClearIfEmpty: it clears whatever is queued, or never.          *)
ClearAlways ==
    /\ at = "relock"
    /\ m_mutex = NoThread
    /\ m_timer' = SetTime(m_timer, 0, 0)
    /\ at' = "wait"
    /\ UNCHANGED <<m_queue, m_mutex, callback, pushing, pushed, threw>>

ClearNever ==
    /\ at = "relock"
    /\ m_mutex = NoThread
    /\ at' = "wait"
    /\ UNCHANGED <<m_queue, m_mutex, m_timer, callback, pushing, pushed, threw>>

ClearIfEmpty ==
    /\ at = "relock"
    /\ m_mutex = NoThread
    /\ m_timer' = IF m_queue = <<>> THEN SetTime(m_timer, 0, 0) ELSE m_timer
    /\ at' = "wait"
    /\ UNCHANGED <<m_queue, m_mutex, callback, pushing, pushed, threw>>

OnTimer == ReadTimer \/ PopFront \/ ClearIfEmpty

Next ==
    \/ \E t \in Thread : PushEnd(t) \/ \E item \in Item : PushBegin(t, item)
    \/ Elapses
    \/ Wake \/ OnTimer \/ Return \/ Throw

Spec == Init /\ [][Next]_vars

(***************************************************************************)
(* Fairness: time passes, threads run, a mutex is granted in the end, the    *)
(* loop is dispatched again after an exception, and a callback returns or    *)
(* throws.                                                                  *)
(***************************************************************************)
FairSpec ==
    /\ Spec
    /\ \A t \in Thread : WF_vars(PushEnd(t))
    /\ WF_vars(Elapses)
    /\ SF_vars(Wake)
    /\ SF_vars(ReadTimer) /\ SF_vars(PopFront) /\ SF_vars(ClearIfEmpty)
    /\ SF_vars(Return \/ Throw)

-----------------------------------------------------------------------------
(* No lost wake-up: while callbacks are queued the timer is armed, or the    *)
(* push that will arm it is under way (push(), the clear() in onTimer()).    *)
QueuedMeansArmed == m_queue # <<>> => m_timer.armed \/ pushing # {}

(* The timer is armed for a reason: with nothing queued it is disarmed, or   *)
(* onTimer() is about to look at the deque, until a callback throws.         *)
ArmedMeansQueued ==
    ~threw /\ Live(m_timer) => m_queue # <<>> \/ at \in {"run", "relock"}

(* onTimer() never takes the front of an empty deque, unless a callback threw *)
(* before and left the timer armed (onTimer(), which clears it at its end).  *)
NeverPopsEmpty == at = "undefined" => threw

(* Refinement of QueueContract. *)
Contract == INSTANCE QueueContract WITH
    pending <- m_queue,
    running <- callback

(* The callbacks run in the order of the pushes, each once, one at a time     *)
(* (push() and onTimer() against QueueContract).                             *)
ImplementsContract == Contract!Spec

(* Every callback pushed runs, whatever thread pushed it, and also after a    *)
(* callback that threw, as long as the deque is not popped while empty.      *)
PushedRuns ==
    \A item \in Item :
        (\E k \in DOMAIN m_queue : m_queue[k] = item) ~> callback = item \/ at = "undefined"

(* A queue that nobody pushes on stops waking the loop up: without the        *)
(* clear() the timer of 1 ns would keep it spinning (onTimer()).             *)
IdleQueueSleeps == <>threw \/ <>[](at = "wait" /\ ~Live(m_timer))
=============================================================================
