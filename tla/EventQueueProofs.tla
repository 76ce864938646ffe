--------------------------- MODULE EventQueueProofs --------------------------
(***************************************************************************)
(* Proofs about EventQueue, for every number of threads and callbacks.      *)
(***************************************************************************)
EXTENDS EventQueue, TLAPS

(* A thread in push() owns the mutex, and its item is still queued: nothing   *)
(* is popped without the mutex.                                              *)
PusherOwnsMutex ==
    /\ \A t \in Thread : t \in pushing <=> m_mutex = t
    /\ pushing # {} => m_queue # <<>>

MainPushesInCallback == at \notin {"wait", "run"} => Main \notin pushing

(* Every setting of the timer is periodic, so it never stops by itself.       *)
ArmedIsPeriodic == m_timer.armed => m_timer.periodic

CallbackRuns == callback # NoItem <=> at = "run"

QueueInv ==
    /\ TypeOK
    /\ PusherOwnsMutex
    /\ MainPushesInCallback
    /\ ArmedIsPeriodic
    /\ QueuedMeansArmed
    /\ CallbackRuns

LEMMA InitQueue == Init => QueueInv
  <1> SUFFICES ASSUME Init PROVE QueueInv
    OBVIOUS
  <1>1. m_timer \in State /\ threw \in BOOLEAN
    BY DEF Init, State, Disarmed
  <1>2. TypeOK
    BY <1>1 DEF Init, TypeOK, Location
  <1>3. ArmedIsPeriodic
    BY DEF Init, ArmedIsPeriodic, Disarmed
  <1> QED
    BY <1>2, <1>3, NamesDistinct
    DEF Init, QueueInv, PusherOwnsMutex, MainPushesInCallback, QueuedMeansArmed,
        CallbackRuns, Thread

LEMMA StepQueue == ASSUME QueueInv, [Next]_vars PROVE QueueInv'
  <1> USE NamesDistinct
      DEF QueueInv, TypeOK, PusherOwnsMutex, MainPushesInCallback, ArmedIsPeriodic,
      QueuedMeansArmed, CallbackRuns, Thread, State, Location
  <1>1. ASSUME NEW t \in Thread, NEW item \in Item, PushBegin(t, item) PROVE QueueInv'
    BY <1>1 DEF PushBegin, CanPush
  <1>2. ASSUME NEW t \in Thread, PushEnd(t) PROVE QueueInv'
    <2>1. m_timer' = [armed |-> TRUE, periodic |-> TRUE, expired |-> FALSE]
      <3>1. (1 > 0) = TRUE /\ IsValid(1, 1)
        BY DEF IsValid
      <3>2. 1 # 0
        OBVIOUS
      <3> QED
        BY <1>2, <3>1, <3>2, Zenon DEF PushEnd, SetTime
    <2>2. m_timer' \in State /\ m_timer'.armed /\ m_timer'.periodic
      BY <2>1
    <2>3. m_mutex = t /\ pushing' = {} /\ m_mutex' = NoThread
      BY <1>2 DEF PushEnd
    <2>4. UNCHANGED <<m_queue, at, callback, pushed, threw>>
      BY <1>2 DEF PushEnd
    <2> QED
      BY <2>2, <2>3, <2>4
  <1>3. CASE Elapses
    BY <1>3 DEF Elapses, Elapse
  <1>4. CASE Wake
    BY <1>4 DEF Wake
  <1>5. CASE ReadTimer
    BY <1>5 DEF ReadTimer, Consume
  <1>6. CASE PopFront
    <2>1. CASE m_queue = <<>>
      BY <1>6, <2>1 DEF PopFront
    <2>2. CASE m_queue # <<>>
      <3>1. Head(m_queue) \in Item /\ Tail(m_queue) \in Seq(Item)
        BY <2>2
      <3>2. pushing = {}
        BY <1>6 DEF PopFront
      <3> QED
        BY <1>6, <2>2, <3>1, <3>2 DEF PopFront
    <2> QED
      BY <2>1, <2>2
  <1>7. CASE ClearIfEmpty
    BY <1>7 DEF ClearIfEmpty, SetTime, IsValid, Disarmed
  <1>8. CASE Return \/ Throw
    BY <1>8 DEF Return, Throw
  <1>9. CASE UNCHANGED vars
    BY <1>9 DEF vars
  <1> QED
    BY <1>1, <1>2, <1>3, <1>4, <1>5, <1>6, <1>7, <1>8, <1>9 DEF Next, OnTimer

(* QueueInv is an invariant: push() and onTimer() alternate on m_mutex, and   *)
(* whoever holds it leaves the timer armed for what is queued.               *)
THEOREM QueueInvariant == Spec => []QueueInv
  BY InitQueue, StepQueue, PTL DEF Spec

(* The variables keep their types. *)
THEOREM QueueTypeCorrect == Spec => []TypeOK
  BY QueueInvariant, PTL DEF QueueInv

(* No lost wake-up: the timer is armed while anything is queued, also if      *)
(* callbacks throw (push() against the clear() in onTimer()).                *)
THEOREM NoLostWakeup == Spec => []QueuedMeansArmed
  BY QueueInvariant, PTL DEF QueueInv

-----------------------------------------------------------------------------
(* Until a callback throws, onTimer() runs only if something is queued.       *)
QuietInv ==
    /\ QueueInv
    /\ ArmedMeansQueued
    /\ ~threw /\ at \in {"read", "front"} => m_queue # <<>>
    /\ NeverPopsEmpty

LEMMA StepQuiet == ASSUME QuietInv, [Next]_vars PROVE QuietInv'
  <1>1. QueueInv'
    BY StepQueue DEF QuietInv
  <1> USE DEF QuietInv, QueueInv, TypeOK, PusherOwnsMutex, ArmedMeansQueued, NeverPopsEmpty,
      Live, State
  <1>2. ASSUME NEW t \in Thread, NEW item \in Item, PushBegin(t, item) PROVE QuietInv'
    BY <1>1, <1>2 DEF PushBegin
  <1>3. ASSUME NEW t \in Thread, PushEnd(t) PROVE QuietInv'
    BY <1>1, <1>3 DEF PushEnd
  <1>4. CASE Elapses
    BY <1>1, <1>4 DEF Elapses, Elapse
  <1>5. CASE Wake
    BY <1>1, <1>5 DEF Wake
  <1>6. CASE ReadTimer
    BY <1>1, <1>6 DEF ReadTimer, Consume
  <1>7. CASE PopFront
    BY <1>1, <1>7 DEF PopFront
  <1>8. CASE ClearIfEmpty
    BY <1>1, <1>8 DEF ClearIfEmpty, SetTime, IsValid, Disarmed
  <1>9. CASE Return \/ Throw
    BY <1>1, <1>9 DEF Return, Throw
  <1>10. CASE UNCHANGED vars
    BY <1>1, <1>10 DEF vars
  <1> QED
    BY <1>2, <1>3, <1>4, <1>5, <1>6, <1>7, <1>8, <1>9, <1>10 DEF Next, OnTimer

(* QuietInv is an invariant: until a callback throws, the timer is armed only  *)
(* for what is queued, so that onTimer() finds a front (onTimer()).          *)
THEOREM QuietInvariant == Spec => []QuietInv
  <1>1. Init => QuietInv
    BY InitQueue DEF Init, QuietInv, ArmedMeansQueued, NeverPopsEmpty, Live, Disarmed
  <1> QED
    BY <1>1, StepQuiet, PTL DEF Spec

(* onTimer() never takes the front of an empty deque before a callback threw. *)
THEOREM FrontExists == Spec => []NeverPopsEmpty
  BY QuietInvariant, PTL DEF QuietInv

-----------------------------------------------------------------------------
LEMMA StepContract ==
    ASSUME QueueInv, QueueInv', [Next]_vars PROVE [Contract!Next]_(Contract!vars)
  <1> USE DEF QueueInv, CallbackRuns, Contract!vars, Contract!Next
  <1>1. ASSUME NEW t \in Thread, NEW item \in Item, PushBegin(t, item) PROVE Contract!Push
    BY <1>1 DEF PushBegin, Contract!Push
  <1>2. ASSUME PopFront PROVE Contract!Begin \/ UNCHANGED Contract!vars
    BY <1>2 DEF PopFront, Contract!Begin
  <1>3. ASSUME Return \/ Throw PROVE Contract!End
    BY <1>3 DEF Return, Throw, Contract!End
  <1>4. ASSUME \/ \E t \in Thread : PushEnd(t)
               \/ Elapses \/ Wake \/ ReadTimer \/ ClearIfEmpty \/ UNCHANGED vars
        PROVE  UNCHANGED Contract!vars
    BY <1>4 DEF PushEnd, Elapses, Wake, ReadTimer, ClearIfEmpty, vars
  <1> QED
    BY <1>1, <1>2, <1>3, <1>4 DEF Next, OnTimer

(* The callbacks run in the order of the pushes, each once and one at a time, *)
(* whether or not they throw.                                                *)
THEOREM QueueImplementsContract == Spec => ImplementsContract
  <1>1. Init => Contract!Init
    BY DEF Init, Contract!Init
  <1>2. QueueInv /\ QueueInv' /\ [Next]_vars => [Contract!Next]_(Contract!vars)
    BY StepContract
  <1> QED
    BY QueueInvariant, <1>1, <1>2, PTL DEF Spec, ImplementsContract, Contract!Spec
=============================================================================
