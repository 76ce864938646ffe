-------------------------------- MODULE Latch --------------------------------
(***************************************************************************)
(* hlib::Latch: a count that threads take down, and threads that wait on a   *)
(* condition variable for it to be zero.  countDown() notifies after it      *)
(* has released m_mutex; a wait may also wake up for no reason.  The build   *)
(* checks assertions: a countDown() by more than is left ends the program.   *)
(***************************************************************************)
EXTENDS Integers, FiniteSets

CONSTANTS
    Thread,
    Expected,       \* the constructor's argument
    Step,           \* the n that countDown() is called with
    MaxCalls        \* bound: calls of countDown() and arriveAndWait()

ConstantsAreValid ==
    Expected \in Nat /\ Step \subseteq Nat \ {0} /\ MaxCalls \in Nat

VARIABLES
    m_count,
    at,             \* per thread: where it is in an operation
    thenWait,       \* per thread: it is in arriveAndWait()
    sleeping,       \* the threads blocked on m_condition_variable
    calls,          \* calls of countDown() so far
    counted,        \* history: the sum of their arguments
    passed          \* history: the threads that returned from wait()

vars == <<m_count, at, thenWait, sleeping, calls, counted, passed>>

Location == {"idle", "notify", "wait", "blocked", "aborted"}

TypeOK ==
    /\ m_count \in 0..Expected
    /\ at \in [Thread -> Location]
    /\ thenWait \in [Thread -> BOOLEAN]
    /\ sleeping \subseteq {t \in Thread : at[t] = "blocked"}
    /\ calls \in 0..MaxCalls
    /\ counted \in Nat
    /\ passed \subseteq Thread

Init ==
    /\ m_count = Expected
    /\ at = [t \in Thread |-> "idle"]
    /\ thenWait = [t \in Thread |-> FALSE]
    /\ sleeping = {}
    /\ calls = 0
    /\ counted = 0
    /\ passed = {}

Goto(t, location) == at' = [at EXCEPT ![t] = location]

(* Where a thread goes after countDown(): arriveAndWait() goes on to wait(). *)
AfterCountDown(t) == IF thenWait'[t] THEN "wait" ELSE "idle"

-----------------------------------------------------------------------------
(* Mutant of CountDown: counts one, whatever n is.                           *)
CountDownByOne(t, n) ==
    /\ at[t] = "idle"
    /\ calls < MaxCalls
    /\ calls' = calls + 1
    /\ counted' = counted + n
    /\ \E arrive \in BOOLEAN : thenWait' = [thenWait EXCEPT ![t] = arrive]
    /\ \/ m_count <= 0 /\ Goto(t, AfterCountDown(t)) /\ UNCHANGED m_count
       \/ 0 < m_count /\ m_count < n /\ Goto(t, "aborted") /\ UNCHANGED m_count
       \/ /\ 0 < m_count /\ n <= m_count
          /\ m_count' = m_count - 1
          /\ Goto(t, IF m_count - 1 > 0 THEN AfterCountDown(t) ELSE "notify")
    /\ UNCHANGED <<sleeping, passed>>

(* The part of countDown() under m_mutex. *)
CountDown(t, n) ==
    /\ at[t] = "idle"
    /\ calls < MaxCalls
    /\ calls' = calls + 1
    /\ counted' = counted + n
    /\ \E arrive \in BOOLEAN : thenWait' = [thenWait EXCEPT ![t] = arrive]
    /\ \/ m_count <= 0 /\ Goto(t, AfterCountDown(t)) /\ UNCHANGED m_count
       \/ 0 < m_count /\ m_count < n /\ Goto(t, "aborted") /\ UNCHANGED m_count
       \/ /\ 0 < m_count /\ n <= m_count
          /\ m_count' = m_count - n
          /\ Goto(t, IF m_count - n > 0 THEN AfterCountDown(t) ELSE "notify")
    /\ UNCHANGED <<sleeping, passed>>

(* Mutant of NotifyAll: notify_one().                                        *)
NotifyOne(t) ==
    /\ at[t] = "notify"
    /\ IF sleeping = {} THEN UNCHANGED sleeping
       ELSE \E waiter \in sleeping : sleeping' = sleeping \ {waiter}
    /\ at' = [at EXCEPT ![t] = IF thenWait[t] THEN "wait" ELSE "idle"]
    /\ UNCHANGED <<m_count, thenWait, calls, counted, passed>>

(* notify_all(), after lock.unlock(). *)
NotifyAll(t) ==
    /\ at[t] = "notify"
    /\ sleeping' = {}
    /\ at' = [at EXCEPT ![t] = IF thenWait[t] THEN "wait" ELSE "idle"]
    /\ UNCHANGED <<m_count, thenWait, calls, counted, passed>>

WaitBegin(t) ==
    /\ at[t] = "idle"
    /\ Goto(t, "wait")
    /\ UNCHANGED <<m_count, thenWait, sleeping, calls, counted, passed>>

(* tryWait(), and the predicate of wait(). *)
Open == m_count = 0

(* The predicate, under m_mutex: return, or go to sleep and release it.       *)
WaitTest(t) ==
    /\ at[t] = "wait" \/ (at[t] = "blocked" /\ t \notin sleeping)
    /\ IF Open
         THEN Goto(t, "idle") /\ passed' = passed \cup {t} /\ UNCHANGED sleeping
         ELSE Goto(t, "blocked") /\ sleeping' = sleeping \cup {t} /\ UNCHANGED passed
    /\ UNCHANGED <<m_count, thenWait, calls, counted>>

SpuriousWakeup(t) ==
    /\ t \in sleeping
    /\ sleeping' = sleeping \ {t}
    /\ UNCHANGED <<m_count, at, thenWait, calls, counted, passed>>

Aborted == \E t \in Thread : at[t] = "aborted"

Next == ~Aborted /\
    \E t \in Thread :
        \/ \E n \in Step : CountDown(t, n)
        \/ NotifyAll(t)
        \/ WaitBegin(t) \/ WaitTest(t) \/ SpuriousWakeup(t)

Spec == Init /\ [][Next]_vars

FairSpec == Spec /\ \A t \in Thread : WF_vars(NotifyAll(t)) /\ WF_vars(WaitTest(t))

-----------------------------------------------------------------------------
(* The count follows the calls: what is left is what was not counted, a latch *)
(* that is open stays open, and nobody passes it before (countDown(), wait()).*)
CountIsExact ==
    ~Aborted =>
        /\ m_count = IF counted >= Expected THEN 0 ELSE Expected - counted
        /\ passed # {} => counted >= Expected

(* No waiter is left behind: once the count is zero every thread in wait()    *)
(* returns, though the notification comes after the mutex is released.       *)
WaitersLeave ==
    \A t \in Thread : Open /\ at[t] \in {"wait", "blocked"} ~> at[t] = "idle"
=============================================================================
