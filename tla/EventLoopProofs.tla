--------------------------- MODULE EventLoopProofs ---------------------------
(***************************************************************************)
(* Proofs about EventLoop, for every value of its constants.                *)
(***************************************************************************)
EXTENDS EventLoop, TLAPS

(* While Main is inside dispatch() but not in user code, it is in no other    *)
(* operation: the mutex it may own is dispatch()'s own lock.                 *)
MainIsIdle == at \notin {"out", "body"} => op[Main].kind = "none"

(* The flag is set only between the pipe's callback and the test of it.       *)
FlagIsFresh == at \in {"wait", "found", "call", "body", "aborted"} => ~m_interrupt

(* The fd that add() or remove() is working on has its callback, and is not   *)
(* in the interest list.                                                     *)
FdInProgress ==
    \A t \in Thread : op[t].kind \in {"add", "remove"} =>
        m_callbacks[op[t].fd] # NoCallback /\ epoll[op[t].fd] = "absent"

ThreadIdIsSet == m_thread_id = IF at = "out" THEN NoThread ELSE Main

SharedInv ==
    /\ TypeOK
    /\ MainIsIdle
    /\ FlagIsFresh
    /\ InterruptsAreCounted
    /\ MutexExcludes
    /\ FdInProgress
    /\ RegistryMatchesEpoll
    /\ ThreadIdIsSet

LEMMA InitShared == Init => SharedInv
  <1> SUFFICES ASSUME Init PROVE SharedInv
    OBVIOUS
  <1> USE NamesDistinct, CapacityPositive DEF Init, Thread, AllFd, AllCallback
  <1>1. TypeOK
    <2>1. m_callbacks \in [AllFd -> AllCallback \cup {NoCallback}]
      OBVIOUS
    <2>2. epoll \in [AllFd -> Mask]
      BY DEF Mask
    <2>3. op \in [Thread -> Op]
      BY DEF Op, NoOp
    <2>4. m_interrupt \in BOOLEAN /\ timed \in BOOLEAN
      OBVIOUS
    <2>5. bytes \in 0..PipeCapacity /\ owed \in Nat
      OBVIOUS
    <2> QED
      BY <2>1, <2>2, <2>3, <2>4, <2>5 DEF TypeOK, Location
  <1>2. MainIsIdle /\ FlagIsFresh /\ ThreadIdIsSet
    BY DEF MainIsIdle, FlagIsFresh, ThreadIdIsSet
  <1>5. InterruptsAreCounted
    BY DEF InterruptsAreCounted, InDispatch
  <1>3. MutexExcludes /\ FdInProgress
    BY DEF MutexExcludes, FdInProgress, NoOp
  <1>4. RegistryMatchesEpoll
    BY DEF RegistryMatchesEpoll
  <1> QED
    BY <1>1, <1>2, <1>3, <1>4, <1>5 DEF SharedInv

LEMMA DispatchShared == SharedInv /\ Dispatch => SharedInv'
  <1> SUFFICES ASSUME SharedInv, Dispatch PROVE SharedInv'
    OBVIOUS
  <1> USE NamesDistinct, CapacityPositive
      DEF SharedInv, TypeOK, MainIsIdle, FlagIsFresh, InterruptsAreCounted, InDispatch,
      MutexExcludes, FdInProgress, RegistryMatchesEpoll, ThreadIdIsSet, Thread, AllFd,
      AllCallback, Mask, Location, Op, NoOp, registryVars, pipeVars, loopVars
  <1>1. CASE Enter
    <2>1. TypeOK'
      BY <1>1 DEF Enter
    <2>2. MainIsIdle'
      BY <1>1 DEF Enter
    <2>3. FlagIsFresh' /\ InterruptsAreCounted'
      BY <1>1 DEF Enter
    <2>4. MutexExcludes' /\ FdInProgress' /\ RegistryMatchesEpoll' /\ ThreadIdIsSet'
      BY <1>1 DEF Enter
    <2> QED
      BY <2>1, <2>2, <2>3, <2>4
  <1>2. CASE TestInterrupt
    BY <1>2 DEF TestInterrupt, Unwind
  <1>3. ASSUME NEW fd \in AllFd, WaitEvent(fd) PROVE SharedInv'
    BY <1>3 DEF WaitEvent
  <1>4. CASE WaitSignal
    BY <1>4 DEF WaitSignal
  <1>5. CASE WaitTimeout
    BY <1>5 DEF WaitTimeout, Unwind
  <1>6. CASE LockThrows
    BY <1>6 DEF LockThrows, Unwind
  <1>7. CASE LookupMiss
    BY <1>7 DEF LookupMiss
  <1>8. CASE LookupHit
    BY <1>8 DEF LookupHit
  <1>9. CASE CallPipe
    <2>1. TypeOK'
      <3>1. bytes' \in 0..PipeCapacity
        BY <1>9 DEF CallPipe
      <3>2. m_interrupt' \in BOOLEAN
        BY <1>9, Zenon DEF CallPipe
      <3>3. at' \in Location
        BY <1>9 DEF CallPipe
      <3> QED
        BY <1>9, <3>1, <3>2, <3>3 DEF CallPipe
    <2>2. MainIsIdle'
      BY <1>9 DEF CallPipe
    <2>3. FlagIsFresh'
      BY <1>9 DEF CallPipe
    <2>4. InterruptsAreCounted'
      BY <1>9 DEF CallPipe
    <2>5. MutexExcludes' /\ FdInProgress' /\ RegistryMatchesEpoll' /\ ThreadIdIsSet'
      BY <1>9 DEF CallPipe
    <2> QED
      BY <2>1, <2>2, <2>3, <2>4, <2>5
  <1>10. CASE CallUser
    BY <1>10 DEF CallUser
  <1>11. CASE CallbackReturns
    BY <1>11 DEF CallbackReturns
  <1>12. CASE CallbackThrows
    BY <1>12 DEF CallbackThrows, Unwind
  <1>13. CASE Leave
    BY <1>13 DEF Leave
  <1> QED
    BY <1>1, <1>2, <1>3, <1>4, <1>5, <1>6, <1>7, <1>8, <1>9, <1>10, <1>11, <1>12, <1>13
    DEF Dispatch

LEMMA OperateShared ==
    ASSUME SharedInv, NEW t \in Thread, Operate(t) PROVE SharedInv'
  <1> USE NamesDistinct, CapacityPositive
      DEF SharedInv, TypeOK, MainIsIdle, FlagIsFresh, InterruptsAreCounted, InDispatch,
      MutexExcludes, FdInProgress, RegistryMatchesEpoll, ThreadIdIsSet, Thread, AllFd,
      AllCallback, Mask, Location, Op, NoOp, registryVars, pipeVars, loopVars
  <1>1. ASSUME NEW fd \in Fd, NEW cb \in Callback, AddBegin(t, fd, cb) PROVE SharedInv'
    BY <1>1 DEF AddBegin, CanOperate
  <1>2. ASSUME NEW fd \in Fd, NEW cb \in Callback, Change(t, fd, cb) PROVE SharedInv'
    BY <1>2 DEF Change, CanOperate
  <1>3. ASSUME NEW fd \in Fd, RemoveBegin(t, fd) PROVE SharedInv'
    BY <1>3 DEF RemoveBegin, CanOperate
  <1>4. ASSUME NEW fd \in Fd, NEW mask \in {"muted", "armed"}, Modify(t, fd, mask)
        PROVE  SharedInv'
    BY <1>4 DEF Modify, CanOperate
  <1>5. CASE FlushBegin(t)
    BY <1>5 DEF FlushBegin, CanOperate
  <1>6. CASE Interrupt(t)
    BY <1>6 DEF Interrupt, CanOperate
  <1>7. CASE AddCommit(t)
    BY <1>7 DEF AddCommit
  <1>8. CASE AddFail(t)
    BY <1>8 DEF AddFail
  <1>9. CASE RemoveEnd(t)
    BY <1>9 DEF RemoveEnd
  <1>10. CASE FlushRead(t)
    BY <1>10 DEF FlushRead
  <1>11. CASE FlushEnd(t)
    BY <1>11 DEF FlushEnd
  <1> QED
    BY <1>1, <1>2, <1>3, <1>4, <1>5, <1>6, <1>7, <1>8, <1>9, <1>10, <1>11
    DEF Operate, Mutate, Finish

LEMMA ReadinessShared == SharedInv /\ Readiness => SharedInv'
  BY DEF Readiness, SharedInv, TypeOK, MainIsIdle, FlagIsFresh, InterruptsAreCounted,
      InDispatch, MutexExcludes, FdInProgress, RegistryMatchesEpoll, ThreadIdIsSet,
      registryVars, pipeVars, loopVars

LEMMA StutterShared == SharedInv /\ UNCHANGED vars => SharedInv'
  BY DEF vars, SharedInv, TypeOK, MainIsIdle, FlagIsFresh, InterruptsAreCounted,
      InDispatch, MutexExcludes, FdInProgress, RegistryMatchesEpoll, ThreadIdIsSet

(* SharedInv is an invariant, whichever threads change registrations.         *)
THEOREM SharedInvariant == Spec => []SharedInv
  <1>1. SharedInv /\ [Next]_vars => SharedInv'
    BY DispatchShared, OperateShared, ReadinessShared, StutterShared DEF Next
  <1> QED
    BY InitShared, <1>1, PTL DEF Spec

(* The variables keep their types: in particular no more interrupts end a     *)
(* dispatch or are flushed than were sent (owed stays a natural number).     *)
THEOREM TypeCorrect == Spec => []TypeOK
  BY SharedInvariant, PTL DEF SharedInv

(* add() and remove() exclude each other. *)
THEOREM MutualExclusion == Spec => []MutexExcludes
  BY SharedInvariant, PTL DEF SharedInv

(* The registry and epoll's interest list agree (add(), remove()).            *)
THEOREM RegistryAgrees == Spec => []RegistryMatchesEpoll
  BY SharedInvariant, PTL DEF SharedInv

(* Each interrupt ends one dispatch or is flushed: none is lost or counted    *)
(* twice (interrupt(), the pipe's callback, the reset in dispatch()).        *)
THEOREM InterruptsCounted == Spec => []InterruptsAreCounted
  BY SharedInvariant, PTL DEF SharedInv

(* The thread id is set in callbacks and reset after dispatch().              *)
THEOREM ThreadIdCorrect == Spec => []ThreadIdMatchesDispatch
  <1>1. SharedInv => ThreadIdMatchesDispatch
    BY DEF SharedInv, ThreadIdIsSet, ThreadIdMatchesDispatch
  <1> QED
    BY SharedInvariant, <1>1, PTL

-----------------------------------------------------------------------------
(***************************************************************************)
(* Programs in which only the dispatching thread changes registrations and  *)
(* flushes; any thread may interrupt.                                       *)
(***************************************************************************)
SingleThreaded == Mutator \subseteq {Main} /\ Flusher \subseteq {Main}

(* Only the threads that may begin an operation are in the middle of one.     *)
OperatorsAreAllowed ==
    \A t \in Thread :
        /\ op[t].kind \in {"add", "remove"} => t \in Mutator /\ op[t].fd \in Fd
        /\ op[t].kind = "flush" => t \in Flusher

(* dispatch() never keeps the mutex: its owner is in add() or remove().       *)
OwnerIsOperating ==
    \A t \in Thread : m_mutex = t => op[t].kind \in {"add", "remove"}

PipeStays ==
    /\ m_callbacks[Pipe] = PipeCallback /\ epoll[Pipe] = "armed"
    /\ \A fd \in Fd : m_callbacks[fd] # PipeCallback

(* The event dispatch() has taken is still what epoll said.                   *)
EventIsCurrent ==
    /\ at \in {"found", "call"} => epoll[event] # "absent"
    /\ at = "call" => callback = m_callbacks[event] /\ callback # NoCallback
    /\ at \in {"found", "call"} /\ event = Pipe => bytes > 0
    /\ at = "body" => callback # NoCallback

SingleInv ==
    /\ SharedInv
    /\ OperatorsAreAllowed
    /\ OwnerIsOperating
    /\ PipeStays
    /\ EventIsCurrent
    /\ NeverAborts

LEMMA InitSingle == Init => SingleInv
  <1> SUFFICES ASSUME Init PROVE SingleInv
    OBVIOUS
  <1>1. OperatorsAreAllowed /\ OwnerIsOperating
    BY NamesDistinct DEF Init, OperatorsAreAllowed, OwnerIsOperating, NoOp
  <1>2. PipeStays /\ EventIsCurrent /\ NeverAborts
    BY NamesDistinct DEF Init, PipeStays, EventIsCurrent, NeverAborts, AllFd, AllCallback
  <1> QED
    BY InitShared, <1>1, <1>2 DEF SingleInv

LEMMA DispatchSingle ==
    ASSUME SingleThreaded, SingleInv, Dispatch PROVE SingleInv'
  <1>1. SharedInv'
    BY DispatchShared DEF SingleInv
  <1> USE NamesDistinct, RolesAreThreads DEF SingleThreaded, SingleInv, SharedInv, TypeOK,
      MainIsIdle, FdInProgress, RegistryMatchesEpoll, OperatorsAreAllowed, OwnerIsOperating,
      PipeStays, EventIsCurrent, NeverAborts, Thread, AllFd, AllCallback,
      registryVars, pipeVars, loopVars
  <1>2. ASSUME Enter \/ TestInterrupt \/ WaitSignal \/ CallUser \/ CallbackReturns
               \/ CallbackThrows \/ Leave \/ WaitTimeout \/ LockThrows
        PROVE  SingleInv'
    BY <1>1, <1>2 DEF Enter, TestInterrupt, WaitSignal, CallUser, CallbackReturns,
        CallbackThrows, Leave, WaitTimeout, LockThrows, Unwind
  <1>3. ASSUME NEW fd \in AllFd, WaitEvent(fd) PROVE SingleInv'
    BY <1>1, <1>3 DEF WaitEvent, Ready
  <1>4. CASE LookupMiss
    <2>1. m_callbacks[event] # NoCallback
      BY <1>4 DEF LookupMiss
    <2> QED
      BY <1>4, <2>1 DEF LookupMiss
  <1>5. CASE LookupHit
    BY <1>1, <1>5 DEF LookupHit
  <1>6. CASE CallPipe
    BY <1>1, <1>6 DEF CallPipe
  <1> QED
    BY <1>2, <1>3, <1>4, <1>5, <1>6 DEF Dispatch

LEMMA OperateSingle ==
    ASSUME SingleThreaded, SingleInv, NEW t \in Thread, Operate(t) PROVE SingleInv'
  <1>1. SharedInv'
    BY OperateShared DEF SingleInv
  <1> USE NamesDistinct, RolesAreThreads DEF SingleThreaded, SingleInv, SharedInv, TypeOK,
      MainIsIdle, FdInProgress, RegistryMatchesEpoll, OperatorsAreAllowed, OwnerIsOperating,
      PipeStays, EventIsCurrent, NeverAborts, Thread, AllFd, AllCallback, Op, NoOp,
      registryVars, pipeVars, loopVars, CanOperate
  <1>2. ASSUME t \in Mutator, Mutate(t) PROVE SingleInv'
    <2>1. t = Main /\ at \in {"out", "body"}
      BY <1>2 DEF Mutate, AddBegin, Change, RemoveBegin, Modify
    <2>2. ASSUME NEW fd \in Fd, NEW cb \in Callback, AddBegin(t, fd, cb) PROVE SingleInv'
      BY <1>1, <1>2, <2>1, <2>2 DEF AddBegin
    <2>3. ASSUME NEW fd \in Fd, NEW cb \in Callback, Change(t, fd, cb) PROVE SingleInv'
      BY <1>1, <2>1, <2>3 DEF Change
    <2>4. ASSUME NEW fd \in Fd, RemoveBegin(t, fd) PROVE SingleInv'
      BY <1>1, <1>2, <2>1, <2>4 DEF RemoveBegin
    <2>5. ASSUME NEW fd \in Fd, NEW mask \in {"muted", "armed"}, Modify(t, fd, mask)
          PROVE  SingleInv'
      BY <1>1, <2>1, <2>5 DEF Modify
    <2> QED
      BY <1>2, <2>2, <2>3, <2>4, <2>5 DEF Mutate
  <1>3. CASE t \in Flusher /\ FlushBegin(t)
    BY <1>1, <1>3 DEF FlushBegin
  <1>4. CASE Interrupt(t)
    BY <1>1, <1>4 DEF Interrupt
  <1>5. CASE AddCommit(t)
    BY <1>1, <1>5 DEF AddCommit
  <1>6. CASE AddFail(t)
    BY <1>1, <1>6 DEF AddFail
  <1>7. CASE RemoveEnd(t)
    BY <1>1, <1>7 DEF RemoveEnd
  <1>8. CASE FlushRead(t) \/ FlushEnd(t)
    BY <1>1, <1>8 DEF FlushRead, FlushEnd
  <1> QED
    BY <1>2, <1>3, <1>4, <1>5, <1>6, <1>7, <1>8 DEF Operate, Finish

LEMMA RestSingle ==
    ASSUME SingleInv, Readiness \/ UNCHANGED vars PROVE SingleInv'
  <1>1. SharedInv'
    BY ReadinessShared, StutterShared DEF SingleInv
  <1> QED
    BY <1>1 DEF Readiness, vars, SingleInv, OperatorsAreAllowed, OwnerIsOperating, PipeStays,
        EventIsCurrent, NeverAborts, registryVars, pipeVars, loopVars

(* SingleInv is an invariant if only Main changes registrations and flushes.  *)
THEOREM SingleInvariant == ASSUME SingleThreaded PROVE Spec => []SingleInv
  <1>1. SingleInv /\ [Next]_vars => SingleInv'
    BY SingleThreaded, DispatchSingle, OperateSingle, RestSingle DEF Next
  <1> QED
    BY InitSingle, <1>1, PTL DEF Spec

(* dispatch() neither waits nor calls a callback with m_mutex held.           *)
THEOREM NeverWaitsLocked == ASSUME SingleThreaded PROVE Spec => []WaitsUnlocked
  <1>1. SingleInv => WaitsUnlocked
    BY DEF SingleInv, OwnerIsOperating, WaitsUnlocked, NoOp, Thread
  <1> QED
    BY SingleInvariant, <1>1, PTL

(* Every event has a callback, and the callback called is the registered one: *)
(* none runs after remove() or change().                                     *)
THEOREM CallbacksAreCurrent == ASSUME SingleThreaded PROVE Spec => []CallbackIsCurrent
  <1>1. SingleInv => CallbackIsCurrent
    BY DEF SingleInv, SharedInv, TypeOK, RegistryMatchesEpoll, EventIsCurrent, CallbackIsCurrent
  <1> QED
    BY SingleInvariant, <1>1, PTL

(* The HVERIFY in the pipe's callback holds.                                  *)
THEOREM PipeReadSucceeds == ASSUME SingleThreaded PROVE Spec => []NeverAborts
  BY SingleInvariant, PTL DEF SingleInv

-----------------------------------------------------------------------------
(***************************************************************************)
(* Refinement of LoopContract.                                              *)
(***************************************************************************)

LEMMA InitContract == Init => Contract!Init
  BY NamesDistinct DEF Init, Contract!Init, Registered, Mode, AllFd

LEMMA DispatchContract ==
    ASSUME SingleInv, SingleInv', Dispatch PROVE [Contract!Next]_(Contract!vars)
  <1> USE NamesDistinct DEF SingleInv, SharedInv, TypeOK, AllFd, AllCallback, Mode, Registered,
      Contract!vars, registryVars, pipeVars, loopVars
  <1>1. ASSUME Enter PROVE Contract!Start
    BY <1>1 DEF Enter, Contract!Start
  <1>2. ASSUME TestInterrupt, m_interrupt PROVE Contract!Interrupted
    BY <1>2 DEF TestInterrupt, Unwind, Contract!Interrupted, InterruptsAreCounted, InDispatch
  <1>3. ASSUME WaitTimeout PROVE Contract!TimedOut
    <2>1. bytes = 0
      BY <1>3 DEF WaitTimeout, Ready, PipeStays
    <2>2. owed = 0
      BY <1>3, <2>1 DEF WaitTimeout, InterruptsAreCounted, FlagIsFresh
    <2> QED
      BY <1>3, <2>2 DEF WaitTimeout, Unwind, Contract!TimedOut
  <1>4. ASSUME CallUser PROVE Contract!Invoke
    <2>1. event \in Fd /\ epoll[event] # "absent" /\ callback = m_callbacks[event]
              /\ callback # NoCallback
      BY <1>4 DEF CallUser, EventIsCurrent, PipeStays
    <2> QED
      BY <1>4, <2>1 DEF CallUser, Contract!Invoke
  <1>5. ASSUME CallbackReturns \/ CallbackThrows PROVE Contract!CallbackEnds
    BY <1>5 DEF CallbackReturns, CallbackThrows, Unwind, Contract!CallbackEnds
  <1>6. ASSUME TestInterrupt, ~m_interrupt PROVE UNCHANGED Contract!vars
    BY <1>6 DEF TestInterrupt
  <1>7. ASSUME NEW fd \in AllFd, WaitEvent(fd) PROVE UNCHANGED Contract!vars
    BY <1>7 DEF WaitEvent
  <1>8. ASSUME WaitSignal \/ LookupMiss \/ LookupHit \/ Leave PROVE UNCHANGED Contract!vars
    BY <1>8 DEF WaitSignal, LookupMiss, LookupHit, Leave
  <1>9. ASSUME LockThrows PROVE FALSE
    BY <1>9 DEF LockThrows, OwnerIsOperating, MainIsIdle, Thread
  <1>10. ASSUME CallPipe PROVE UNCHANGED Contract!vars
    BY <1>10 DEF CallPipe, NeverAborts
  <1> QED
    BY <1>1, <1>2, <1>3, <1>4, <1>5, <1>6, <1>7, <1>8, <1>9, <1>10
    DEF Dispatch, Contract!Next

LEMMA OperateContract ==
    ASSUME SingleThreaded, SingleInv, NEW t \in Thread, Operate(t)
    PROVE  [Contract!Next]_(Contract!vars)
  <1> USE NamesDistinct, RolesAreThreads DEF SingleThreaded, SingleInv, SharedInv, TypeOK,
      AllFd, AllCallback, Registered, Mode, Thread, Contract!vars, registryVars, pipeVars,
      loopVars, CanOperate
  <1>1. op[t].kind # "none" => t = Main /\ at \in {"out", "body"}
    BY DEF OperatorsAreAllowed, MainIsIdle, Op
  <1>2. m_mutex = NoThread =>
            \A fd \in AllFd : m_callbacks[fd] # NoCallback <=> epoll[fd] # "absent"
    BY DEF RegistryMatchesEpoll, MutexExcludes
  <1>3. \A fd \in Fd : m_callbacks[fd] \in Callback \cup {NoCallback}
    BY DEF PipeStays
  <1>4. ASSUME NEW fd \in Fd, NEW cb \in Callback, AddBegin(t, fd, cb)
        PROVE  UNCHANGED Contract!vars
    BY <1>2, <1>4 DEF AddBegin
  <1>5. ASSUME t \in Mutator, NEW fd \in Fd, NEW cb \in Callback, Change(t, fd, cb)
        PROVE  Contract!Register
    <2>1. Registered' = [Registered EXCEPT ![fd] = cb]
      BY <1>2, <1>5 DEF Change
    <2> QED
      BY <1>5, <2>1 DEF Change, Contract!Register
  <1>6. ASSUME t \in Mutator, NEW fd \in Fd, RemoveBegin(t, fd) PROVE Contract!Register
    <2>1. Registered' = [Registered EXCEPT ![fd] = NoCallback]
      BY <1>6 DEF RemoveBegin
    <2> QED
      BY <1>6, <2>1 DEF RemoveBegin, Contract!Register
  <1>7. ASSUME NEW fd \in Fd, NEW mask \in {"muted", "armed"}, Modify(t, fd, mask)
        PROVE  UNCHANGED Contract!vars
    <2>1. Registered' = Registered
      BY <1>7 DEF Modify
    <2> QED
      BY <1>7, <2>1 DEF Modify
  <1>8. ASSUME AddCommit(t) PROVE Contract!Register
    <2>1. op[t].fd \in Fd
      BY <1>8 DEF AddCommit, OperatorsAreAllowed
    <2>2. Registered' = [Registered EXCEPT ![op[t].fd] = m_callbacks[op[t].fd]]
      BY <1>8, <2>1 DEF AddCommit
    <2> QED
      BY <1>1, <1>3, <1>8, <2>1, <2>2 DEF AddCommit, Contract!Register
  <1>9. ASSUME AddFail(t) \/ RemoveEnd(t) PROVE UNCHANGED Contract!vars
    <2>1. Registered' = Registered
      BY <1>9 DEF AddFail, RemoveEnd, FdInProgress
    <2> QED
      BY <1>9, <2>1 DEF AddFail, RemoveEnd
  <1>10. ASSUME Interrupt(t) PROVE Contract!Interrupt
    BY <1>10 DEF Interrupt, Contract!Interrupt
  <1>11. ASSUME FlushRead(t) PROVE Contract!Flush
    <2>1. owed > 0
      BY <1>11 DEF FlushRead, InterruptsAreCounted
    <2> QED
      BY <1>1, <1>11, <2>1 DEF FlushRead, Contract!Flush
  <1>12. ASSUME FlushBegin(t) \/ FlushEnd(t) PROVE UNCHANGED Contract!vars
    BY <1>12 DEF FlushBegin, FlushEnd
  <1> QED
    BY <1>4, <1>5, <1>6, <1>7, <1>8, <1>9, <1>10, <1>11, <1>12
    DEF Operate, Mutate, Finish, Contract!Next

(* With registrations changed on the dispatching thread only, the loop        *)
(* implements LoopContract.                                                  *)
THEOREM LoopImplementsContract == ASSUME SingleThreaded PROVE Spec => ImplementsContract
  <1>1. ASSUME SingleInv, Readiness \/ UNCHANGED vars PROVE UNCHANGED Contract!vars
    BY <1>1 DEF Readiness, vars, Contract!vars, Registered, Mode, registryVars, pipeVars, loopVars
  <1>2. SingleInv /\ SingleInv' /\ [Next]_vars => [Contract!Next]_(Contract!vars)
    BY SingleThreaded, DispatchContract, OperateContract, <1>1 DEF Next
  <1> QED
    BY InitContract, SingleInvariant, <1>2, PTL DEF Spec, ImplementsContract, Contract!Spec
=============================================================================
