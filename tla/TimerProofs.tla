------------------------------ MODULE TimerProofs ------------------------------
(***************************************************************************)
(* Proofs about Timer, for any number of timers and clients, for programs in *)
(* which only the dispatching thread sets, clears and destroys timers.       *)
(***************************************************************************)
EXTENDS Timer, TLAPS

SingleThreaded == User \subseteq {Main}

(* A timerfd that is to expire, or has expired, is that of a timer that was   *)
(* set and not cleared.                                                      *)
LiveIsDue ==
    \A x \in Object : object[x] # "destroyed" /\ Live(timerfd[x]) => due[x] # "none"

(* A timer that was set without interval expires once.                        *)
OneExpiration ==
    \A x \in Object : object[x] # "destroyed" /\ due[x] = "one" =>
        ~timerfd[x].periodic /\ ~(timerfd[x].armed /\ timerfd[x].expired)

(* The expiration that epoll reported is still there, ...                     *)
EventIsCurrent ==
    at \in {"found", "read"} => current \in registered /\ timerfd[current].expired

(* ... and once it was read, the callback is still allowed, and the only one  *)
(* if there is no interval.                                                  *)
CallbackIsDue ==
    at = "expired" =>
        /\ object[current] = "alive" /\ due[current] # "none"
        /\ due[current] = "one" => ~Live(timerfd[current])

TimerInv ==
    /\ TypeOK
    /\ LiveIsDue
    /\ OneExpiration
    /\ EventIsCurrent
    /\ CallbackIsDue
    /\ NoLateCallback

LEMMA InitTimer == Init => TimerInv
  <1> SUFFICES ASSUME Init PROVE TimerInv
    OBVIOUS
  <1>1. Disarmed \in State /\ ~Live(Disarmed)
    BY DEF Disarmed, State, Live
  <1>2. TypeOK
    BY <1>1 DEF Init, TypeOK, Location
  <1> QED
    BY <1>1, <1>2 DEF Init, TimerInv, LiveIsDue, OneExpiration, EventIsCurrent, CallbackIsDue,
        NoLateCallback

(* What the user's operations do to the timers of the other objects, and to   *)
(* the dispatcher: nothing; so that only the object's own timer is looked at. *)
LEMMA UserStep ==
    ASSUME TimerInv, TypeOK', at \in {"wait", "callback"}, UNCHANGED <<at, current, late>>,
           NEW x \in Object,
           \A y \in Object \ {x} :
               UNCHANGED <<object[y], timerfd[y], due[y]>>,
           object'[x] # "destroyed" =>
               /\ Live(timerfd'[x]) => due'[x] # "none"
               /\ due'[x] = "one" =>
                      ~timerfd'[x].periodic /\ ~(timerfd'[x].armed /\ timerfd'[x].expired)
    PROVE  TimerInv'
  BY DEF TimerInv, LiveIsDue, OneExpiration, EventIsCurrent, CallbackIsDue, NoLateCallback, Live

LEMMA SetTimer ==
    ASSUME TimerInv, NEW t \in Thread, NEW x \in Object, NEW expire \in Duration,
           NEW interval \in Duration, t = Main, Set(t, x, expire, interval)
    PROVE  TimerInv'
  <1>1. at \in {"wait", "callback"}
    BY DEF Set, CanUse
  <1>2. timerfd[x] \in State /\ object[x] = "alive"
    BY DEF Set, TimerInv, TypeOK
  <1>3. CASE ~IsValid(expire, interval)
    <2>1. ~IsValid(Expire(expire), interval)
      BY <1>3 DEF IsValid, Expire, Duration
    <2>2. timerfd' = timerfd /\ due' = due
      <3>1. SetTime(timerfd[x], Expire(expire), interval) = timerfd[x]
        BY <2>1 DEF SetTime
      <3>2. /\ timerfd' = [timerfd EXCEPT ![x] = timerfd[x]]
            /\ due' = [due EXCEPT ![x] = due[x]]
        BY <1>3, <3>1 DEF Set
      <3> QED
        BY <3>2 DEF TimerInv, TypeOK
    <2> QED
      BY <2>2 DEF Set, TimerInv, TypeOK, LiveIsDue, OneExpiration, EventIsCurrent,
          CallbackIsDue, NoLateCallback, dispatchVars, Live
  <1>4. CASE IsValid(expire, interval)
    <2> DEFINE fd == [armed |-> TRUE, periodic |-> interval > 0, expired |-> FALSE]
    <2>1. Expire(expire) # 0 /\ IsValid(Expire(expire), interval)
      BY <1>4 DEF IsValid, Expire, Duration
    <2>2. timerfd' = [timerfd EXCEPT ![x] = fd]
      BY <2>1 DEF Set, SetTime
    <2>3. due' = [due EXCEPT ![x] = IF interval > 0 THEN "many" ELSE "one"]
      BY <1>4 DEF Set
    <2>4. fd \in State
      BY DEF State
    <2>5. TypeOK'
      <3>1. UNCHANGED <<object, loop, registered, at, current, late>>
        BY <1>4 DEF Set, dispatchVars
      <3> HIDE DEF fd
      <3>2. timerfd' \in [Object -> State] /\ due' \in [Object -> {"none", "one", "many"}]
        BY <2>2, <2>3, <2>4 DEF TimerInv, TypeOK
      <3> QED
        BY <3>1, <3>2 DEF TimerInv, TypeOK
    <2>6. timerfd'[x] = fd /\ due'[x] = (IF interval > 0 THEN "many" ELSE "one")
      BY <2>2, <2>3 DEF TimerInv, TypeOK
    <2>7. \A y \in Object \ {x} : UNCHANGED <<object[y], timerfd[y], due[y]>>
      BY <2>2, <2>3 DEF Set, TimerInv, TypeOK
    <2>8. due'[x] # "none" /\ (due'[x] = "one" => ~timerfd'[x].periodic) /\ ~timerfd'[x].expired
      <3>1. ~timerfd'[x].expired /\ (timerfd'[x].periodic => interval > 0)
        <4>1. ~fd.expired
          BY Zenon
        <4>2. fd.periodic => interval > 0
          BY Zenon
        <4> HIDE DEF fd
        <4> QED
          BY <2>6, <4>1, <4>2
      <3>2. due'[x] \in {"many", "one"} /\ (interval > 0 => due'[x] = "many")
        BY <2>6
      <3> QED
        BY <3>1, <3>2
    <2> QED
      BY <1>1, <2>5, <2>7, <2>8, UserStep DEF Set, dispatchVars
  <1> QED
    BY <1>3, <1>4

LEMMA UseTimer ==
    ASSUME TimerInv, NEW t \in Thread, NEW x \in Object, t = Main,
           Construct(t, x) \/ Clear(t, x) \/ Destroy(t, x)
    PROVE  TimerInv'
  <1>1. at \in {"wait", "callback"} /\ UNCHANGED <<at, current, late>>
    BY DEF Construct, Clear, Destroy, CanUse, dispatchVars
  <1>2. Disarmed \in State /\ ~Live(Disarmed) /\ ~Disarmed.periodic /\ ~Disarmed.armed
    BY DEF Disarmed, State, Live
  <1>3. CASE Construct(t, x)
    <2>1. TypeOK'
      BY <1>3 DEF Construct, TimerInv, TypeOK, dispatchVars
    <2>2. UNCHANGED <<timerfd, due>> /\ object[x] = "none"
      BY <1>3 DEF Construct
    <2>3. \A y \in Object \ {x} : object'[y] = object[y]
      BY <1>3 DEF Construct, TimerInv, TypeOK
    <2> QED
      BY <1>1, <2>1, <2>2, <2>3, UserStep DEF TimerInv, LiveIsDue, OneExpiration, Live
  <1>4. CASE Clear(t, x)
    <2>1. timerfd' = [timerfd EXCEPT ![x] = Disarmed] /\ due' = [due EXCEPT ![x] = "none"]
      BY <1>4 DEF Clear, SetTime, IsValid
    <2>2. TypeOK'
      BY <1>2, <1>4, <2>1 DEF Clear, TimerInv, TypeOK, dispatchVars
    <2>3. /\ timerfd'[x] = Disarmed /\ due'[x] = "none"
          /\ \A y \in Object \ {x} : UNCHANGED <<object[y], timerfd[y], due[y]>>
      BY <1>4, <2>1 DEF Clear, TimerInv, TypeOK
    <2> QED
      BY <1>1, <1>2, <2>2, <2>3, UserStep
  <1>5. CASE Destroy(t, x)
    <2>1. TypeOK'
      BY <1>5 DEF Destroy, TimerInv, TypeOK, dispatchVars
    <2>2. /\ object'[x] = "destroyed" /\ timerfd' = timerfd
          /\ \A y \in Object \ {x} : UNCHANGED <<object[y], due[y]>>
      BY <1>5 DEF Destroy, TimerInv, TypeOK
    <2> QED
      BY <1>1, <2>1, <2>2, UserStep
  <1> QED
    BY <1>3, <1>4, <1>5

LEMMA KernelAndLoop ==
    ASSUME TimerInv,
           LoopDestroyed \/ (\E x \in Object : Elapses(x) \/ Wake(x)) \/ OnExpire \/ Return
    PROVE  TimerInv'
  <1> USE DEF TimerInv, TypeOK, LiveIsDue, OneExpiration, EventIsCurrent, CallbackIsDue,
          NoLateCallback, Live, Location, dispatchVars
  <1>1. CASE LoopDestroyed
    BY <1>1 DEF LoopDestroyed
  <1>2. ASSUME NEW x \in Object, Elapses(x) PROVE TimerInv'
    <2> DEFINE fd == [timerfd[x] EXCEPT !.expired = TRUE, !.armed = timerfd[x].periodic]
    <2>1. timerfd' = [timerfd EXCEPT ![x] = fd] /\ timerfd[x].armed
      BY <1>2 DEF Elapses, Elapse
    <2>2. /\ fd \in State /\ fd.expired
          /\ fd.periodic = timerfd[x].periodic /\ fd.armed = timerfd[x].periodic
      BY DEF State
    <2>3. TypeOK'
      BY <1>2, <2>1, <2>2 DEF Elapses
    <2>4. timerfd'[x] = fd /\ \A y \in Object \ {x} : timerfd'[y] = timerfd[y]
      BY <2>1
    <2> HIDE DEF fd
    <2> QED
      BY <1>2, <2>1, <2>2, <2>3, <2>4 DEF Elapses
  <1>3. ASSUME NEW x \in Object, Wake(x) PROVE TimerInv'
    BY <1>3 DEF Wake
  <1>4. CASE LookUp
    BY <1>4 DEF LookUp
  <1>5. CASE Read
    <2> DEFINE fd == [timerfd[current] EXCEPT !.expired = FALSE]
    <2>1. timerfd' = [timerfd EXCEPT ![current] = fd]
      BY <1>5 DEF Read, Consume
    <2>2. /\ fd \in State /\ ~fd.expired
          /\ fd.periodic = timerfd[current].periodic /\ fd.armed = timerfd[current].armed
      BY DEF State
    <2>3. TypeOK'
      BY <1>5, <2>1, <2>2 DEF Read
    <2>4. timerfd'[current] = fd /\ \A y \in Object \ {current} : timerfd'[y] = timerfd[y]
      BY <2>1
    <2> HIDE DEF fd
    <2> QED
      BY <1>5, <2>2, <2>3, <2>4 DEF Read
  <1>6. CASE Call
    BY <1>6 DEF Call
  <1>7. CASE Return
    BY <1>7 DEF Return
  <1> QED
    BY <1>1, <1>2, <1>3, <1>4, <1>5, <1>6, <1>7 DEF OnExpire

LEMMA StepTimer == ASSUME SingleThreaded, TimerInv, [Next]_vars PROVE TimerInv'
  <1>1. ASSUME NEW t \in Thread, NEW x \in Object,
               Construct(t, x) \/ Clear(t, x) \/ Destroy(t, x)
        PROVE  TimerInv'
    <2>1. t = Main
      BY <1>1 DEF Construct, Clear, Destroy, CanUse, SingleThreaded
    <2> QED
      BY <1>1, <2>1, UseTimer
  <1>2. ASSUME NEW t \in Thread, NEW x \in Object, NEW expire \in Duration,
               NEW interval \in Duration, Set(t, x, expire, interval)
        PROVE  TimerInv'
    <2>1. t = Main
      BY <1>2 DEF Set, CanUse, SingleThreaded
    <2> QED
      BY <1>2, <2>1, SetTimer
  <1>3. CASE UNCHANGED vars
    BY <1>3 DEF vars, dispatchVars, TimerInv, TypeOK, LiveIsDue, OneExpiration, EventIsCurrent,
        CallbackIsDue, NoLateCallback, Live
  <1> QED
    BY <1>1, <1>2, <1>3, KernelAndLoop DEF Next

LEMMA TimerInvariant == ASSUME SingleThreaded PROVE Spec => []TimerInv
  BY InitTimer, StepTimer, PTL DEF Spec

-----------------------------------------------------------------------------
(* The variables keep their types; in particular the event loop has no        *)
(* descriptor of a timer that was destroyed (Timer::~Timer()).               *)
THEOREM TimerTypeCorrect == ASSUME SingleThreaded PROVE Spec => []TypeOK
  <1>1. TimerInv => TypeOK
    BY DEF TimerInv
  <1> QED
    BY TimerInvariant, <1>1, PTL

(* The loop never blocks in read(), because between epoll_wait() and read()   *)
(* nobody can reset the expiration (Timer::onExpire(), clear(), set()).       *)
THEOREM NeverBlocks == ASSUME SingleThreaded PROVE Spec => []ReadDoesNotBlock
  <1>1. TimerInv => ReadDoesNotBlock
    BY DEF TimerInv, EventIsCurrent, ReadDoesNotBlock
  <1> QED
    BY TimerInvariant, <1>1, PTL

(* No callback begins after clear() or destruction, nor twice for a set()     *)
(* without interval (Timer::onExpire()).                                     *)
THEOREM CallbacksAreDue == ASSUME SingleThreaded PROVE Spec => []NoLateCallback
  <1>1. TimerInv => NoLateCallback
    BY DEF TimerInv
  <1> QED
    BY TimerInvariant, <1>1, PTL
=============================================================================
