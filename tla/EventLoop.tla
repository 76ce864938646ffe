------------------------------ MODULE EventLoop ------------------------------
(***************************************************************************)
(* hlib::EventLoop: an epoll instance, the registry m_callbacks of the      *)
(* callback of every registered file descriptor, and a self-pipe through    *)
(* which any thread ends a running dispatch().  One thread, Main, runs      *)
(* dispatch(); Main (from a callback, or between two dispatches) and the    *)
(* threads in Client call the other operations.                             *)
(*                                                                         *)
(* An operation that holds m_mutex from begin to end and changes one thing  *)
(* is one action.  add() and remove() are two, because epoll_wait() and     *)
(* modify(), which do not take the mutex, see the state in between.         *)
(***************************************************************************)
EXTENDS Naturals

CONSTANTS
    Fd,             \* file descriptors the users of the loop register
    Pipe,           \* m_pipe[0], registered by the constructor
    Callback,       \* callbacks of the users of the loop
    PipeCallback,   \* the callback the constructor registers for Pipe
    NoCallback,     \* "not in m_callbacks", and the empty shared_ptr
    Main,           \* the thread that runs dispatch()
    Client,         \* the other threads
    NoThread,       \* std::thread::id(), and "m_mutex is free"
    Mutator,        \* the threads that add, change, modify or remove
    Flusher,        \* the threads that call flush()
    PipeCapacity    \* interrupts the pipe can hold

Thread == {Main} \cup Client
AllFd == Fd \cup {Pipe}
AllCallback == Callback \cup {PipeCallback}

ASSUME NamesDistinct ==
    /\ Pipe \notin Fd
    /\ PipeCallback \notin Callback
    /\ NoCallback \notin AllCallback
    /\ Main \notin Client
    /\ NoThread \notin Thread
ASSUME RolesAreThreads == Mutator \subseteq Thread /\ Flusher \subseteq Thread
ASSUME CapacityPositive == PipeCapacity \in Nat \ {0}

VARIABLES
    m_callbacks,    \* the registry: callback of each fd, or NoCallback
    epoll,          \* kernel: the interest list
    readable,       \* kernel: user fds for which an event is pending
    bytes,          \* kernel: bytes in the self-pipe
    m_mutex,        \* its owner, or NoThread
    m_thread_id,
    m_interrupt,
    at,             \* where Main is in dispatch()
    timed,          \* dispatch() was given a timeout
    event,          \* dispatch()'s local epoll_event (its fd)
    callback,       \* dispatch()'s local shared_ptr
    op,             \* per thread: the operation it is in the middle of
    owed            \* history: interrupts sent, minus those that ended a
                    \* dispatch or were flushed

loopVars == <<m_thread_id, m_interrupt, at, timed, event, callback>>
registryVars == <<m_callbacks, epoll>>
pipeVars == <<bytes, owed>>
vars == <<m_callbacks, epoll, readable, bytes, m_mutex, m_thread_id,
          m_interrupt, at, timed, event, callback, op, owed>>

Mask == {"absent", "muted", "armed"}
Location == {"out", "test", "wait", "found", "call", "body", "leave", "aborted"}
NoOp == [kind |-> "none", fd |-> Pipe]
Op == [kind : {"none", "add", "remove", "flush"}, fd : AllFd]

TypeOK ==
    /\ m_callbacks \in [AllFd -> AllCallback \cup {NoCallback}]
    /\ epoll \in [AllFd -> Mask]
    /\ readable \subseteq Fd
    /\ bytes \in 0..PipeCapacity
    /\ m_mutex \in Thread \cup {NoThread}
    /\ m_thread_id \in {Main, NoThread}
    /\ m_interrupt \in BOOLEAN
    /\ at \in Location
    /\ timed \in BOOLEAN
    /\ event \in AllFd
    /\ callback \in AllCallback \cup {NoCallback}
    /\ op \in [Thread -> Op]
    /\ owed \in Nat

(***************************************************************************)
(* The constructor registers the pipe and returns before any thread can     *)
(* use the loop.                                                            *)
(***************************************************************************)
Init ==
    /\ m_callbacks = [fd \in AllFd |-> IF fd = Pipe THEN PipeCallback ELSE NoCallback]
    /\ epoll = [fd \in AllFd |-> IF fd = Pipe THEN "armed" ELSE "absent"]
    /\ readable = {}
    /\ bytes = 0
    /\ m_mutex = NoThread
    /\ m_thread_id = NoThread
    /\ m_interrupt = FALSE
    /\ at = "out"
    /\ timed = FALSE
    /\ event = Pipe
    /\ callback = NoCallback
    /\ op = [t \in Thread |-> NoOp]
    /\ owed = 0

-----------------------------------------------------------------------------
(***************************************************************************)
(* dispatch()                                                               *)
(***************************************************************************)

(* The constructor of thread_scope, and the resets before the loop. *)
Enter ==
    /\ at = "out" /\ op[Main] = NoOp
    /\ m_mutex = NoThread
    /\ m_thread_id' = Main
    /\ m_interrupt' = FALSE
    /\ timed' \in BOOLEAN
    /\ at' = "test"
    /\ UNCHANGED <<registryVars, readable, pipeVars, m_mutex, event, callback, op>>

(* Leaving the scope of the loop, by break, return or exception, destroys    *)
(* callback and lock: an m_mutex that lock still owns is released.           *)
Unwind ==
    /\ at' = "leave"
    /\ callback' = NoCallback
    /\ m_mutex' = IF m_mutex = Main THEN NoThread ELSE m_mutex
    /\ UNCHANGED <<m_thread_id, m_interrupt, timed, event>>

TestInterrupt ==
    /\ at = "test"
    /\ IF m_interrupt
         THEN Unwind /\ owed' = owed - 1
         ELSE /\ at' = "wait"
              /\ UNCHANGED <<m_thread_id, m_interrupt, timed, event, callback,
                             m_mutex, owed>>
    /\ UNCHANGED <<registryVars, readable, bytes, op>>

(* What epoll_wait() may return: level-triggered, and the pipe is an fd      *)
(* like any other.                                                           *)
Ready(fd) ==
    /\ epoll[fd] = "armed"
    /\ IF fd = Pipe THEN bytes > 0 ELSE fd \in readable

(* Mutant of WaitEvent: as with poll(), the first ready fd is always taken.  *)
WaitFirstEvent(fd) ==
    /\ at = "wait"
    /\ Ready(fd)
    /\ fd = CHOOSE first \in AllFd : Ready(first)
    /\ event' = fd
    /\ at' = "found"
    /\ UNCHANGED <<registryVars, readable, pipeVars, m_mutex, m_thread_id,
                   m_interrupt, timed, callback, op>>

WaitEvent(fd) ==
    /\ at = "wait"
    /\ Ready(fd)
    /\ event' = fd
    /\ at' = "found"
    /\ UNCHANGED <<registryVars, readable, pipeVars, m_mutex, m_thread_id,
                   m_interrupt, timed, callback, op>>

(* Mutant of WaitSignal: dispatch() takes EINTR for a timeout.               *)
SignalEndsDispatch ==
    /\ at = "wait"
    /\ Unwind
    /\ UNCHANGED <<registryVars, readable, pipeVars, op>>

WaitSignal ==                                                     \* EINTR
    /\ at = "wait"
    /\ at' = "test"
    /\ UNCHANGED <<registryVars, readable, pipeVars, m_mutex, m_thread_id,
                   m_interrupt, timed, event, callback, op>>

WaitTimeout ==
    /\ at = "wait"
    /\ timed
    /\ \A fd \in AllFd : ~Ready(fd)
    /\ Unwind
    /\ UNCHANGED <<registryVars, readable, pipeVars, op>>

(* lock.lock() on a unique_lock that already owns its mutex throws           *)
(* std::system_error; the exception leaves dispatch().                       *)
LockThrows ==
    /\ at = "found"
    /\ m_mutex = Main
    /\ Unwind
    /\ UNCHANGED <<registryVars, readable, pipeVars, op>>

(* The fd is not in m_callbacks: "break" leaves the switch, lock stays held. *)
LookupMiss ==
    /\ at = "found"
    /\ m_mutex = NoThread
    /\ m_callbacks[event] = NoCallback
    /\ m_mutex' = Main
    /\ at' = "test"
    /\ UNCHANGED <<registryVars, readable, pipeVars, m_thread_id, m_interrupt,
                   timed, event, callback, op>>

LookupHit ==
    /\ at = "found"
    /\ m_mutex = NoThread
    /\ m_callbacks[event] # NoCallback
    /\ callback' = m_callbacks[event]
    /\ at' = "call"
    /\ UNCHANGED <<registryVars, readable, pipeVars, m_mutex, m_thread_id,
                   m_interrupt, timed, event, op>>

(* Mutant of CallPipe: one read takes every byte of the pipe.                *)
CallPipeDrains ==
    /\ at = "call" /\ callback = PipeCallback
    /\ IF bytes > 0
         THEN bytes' = 0 /\ m_interrupt' = TRUE /\ at' = "test"
         ELSE at' = "aborted" /\ UNCHANGED <<bytes, m_interrupt>>
    /\ UNCHANGED <<registryVars, readable, m_mutex, m_thread_id, timed, event,
                   callback, op, owed>>

(* Mutant of CallPipe: the byte is read, and m_interrupt is not set.         *)
CallPipeForgets ==
    /\ at = "call" /\ callback = PipeCallback
    /\ IF bytes > 0
         THEN bytes' = bytes - 1 /\ at' = "test"
         ELSE at' = "aborted" /\ UNCHANGED bytes
    /\ UNCHANGED <<registryVars, readable, m_mutex, m_thread_id, m_interrupt, timed,
                   event, callback, op, owed>>

(* The constructor's lambda: HVERIFY(1 == read(fd, &cmd, 1)) on the          *)
(* non-blocking end of the pipe, which aborts if another thread drained it.  *)
CallPipe ==
    /\ at = "call" /\ callback = PipeCallback
    /\ IF bytes > 0
         THEN bytes' = bytes - 1 /\ m_interrupt' = TRUE /\ at' = "test"
         ELSE at' = "aborted" /\ UNCHANGED <<bytes, m_interrupt>>
    /\ UNCHANGED <<registryVars, readable, m_mutex, m_thread_id, timed, event,
                   callback, op, owed>>

CallUser ==
    /\ at = "call" /\ callback # PipeCallback
    /\ at' = "body"
    /\ UNCHANGED <<registryVars, readable, pipeVars, m_mutex, m_thread_id,
                   m_interrupt, timed, event, callback, op>>

CallbackReturns ==
    /\ at = "body" /\ op[Main] = NoOp
    /\ at' = "test"
    /\ UNCHANGED <<registryVars, readable, pipeVars, m_mutex, m_thread_id,
                   m_interrupt, timed, event, callback, op>>

CallbackThrows ==
    /\ at = "body" /\ op[Main] = NoOp
    /\ Unwind
    /\ UNCHANGED <<registryVars, readable, pipeVars, op>>

(* The destructor of thread_scope. *)
Leave ==
    /\ at = "leave"
    /\ m_mutex = NoThread
    /\ m_thread_id' = NoThread
    /\ at' = "out"
    /\ UNCHANGED <<registryVars, readable, pipeVars, m_mutex, m_interrupt,
                   timed, event, callback, op>>

Dispatch ==
    \/ Enter \/ TestInterrupt
    \/ (\E fd \in AllFd : WaitEvent(fd)) \/ WaitSignal \/ WaitTimeout
    \/ LockThrows \/ LookupMiss \/ LookupHit
    \/ CallPipe \/ CallUser \/ CallbackReturns \/ CallbackThrows
    \/ Leave

-----------------------------------------------------------------------------
(***************************************************************************)
(* The operations any thread may call.                                      *)
(***************************************************************************)

(* Main runs user code only in a callback or outside dispatch().             *)
CanOperate(t) == op[t] = NoOp /\ (t = Main => at \in {"out", "body"})

(* m_callbacks.emplace(), and then epoll_ctl(ADD) or the catch clause.  The  *)
(* assertion that fd is new is the caller's contract.                        *)
AddBegin(t, fd, cb) ==
    /\ CanOperate(t)
    /\ m_mutex = NoThread
    /\ m_callbacks[fd] = NoCallback
    /\ m_mutex' = t
    /\ m_callbacks' = [m_callbacks EXCEPT ![fd] = cb]
    /\ op' = [op EXCEPT ![t] = [kind |-> "add", fd |-> fd]]
    /\ UNCHANGED <<epoll, readable, pipeVars, loopVars>>

AddCommit(t) ==
    /\ op[t].kind = "add"
    /\ \E mask \in {"muted", "armed"} : epoll' = [epoll EXCEPT ![op[t].fd] = mask]
    /\ m_mutex' = NoThread
    /\ op' = [op EXCEPT ![t] = NoOp]
    /\ UNCHANGED <<m_callbacks, readable, pipeVars, loopVars>>

(* Mutant of AddFail: the catch clause does not erase the callback.          *)
AddFailKeeps(t) ==
    /\ op[t].kind = "add"
    /\ m_mutex' = NoThread
    /\ op' = [op EXCEPT ![t] = NoOp]
    /\ UNCHANGED <<registryVars, readable, pipeVars, loopVars>>

AddFail(t) ==
    /\ op[t].kind = "add"
    /\ m_callbacks' = [m_callbacks EXCEPT ![op[t].fd] = NoCallback]
    /\ m_mutex' = NoThread
    /\ op' = [op EXCEPT ![t] = NoOp]
    /\ UNCHANGED <<epoll, readable, pipeVars, loopVars>>

(* Mutant of RemoveBegin: no epoll_ctl(DEL).                                 *)
RemoveWithoutDel(t, fd) ==
    /\ CanOperate(t)
    /\ m_mutex = NoThread
    /\ m_callbacks[fd] # NoCallback
    /\ m_mutex' = t
    /\ op' = [op EXCEPT ![t] = [kind |-> "remove", fd |-> fd]]
    /\ UNCHANGED <<registryVars, readable, pipeVars, loopVars>>

(* epoll_ctl(DEL), and then m_callbacks.erase(). *)
RemoveBegin(t, fd) ==
    /\ CanOperate(t)
    /\ m_mutex = NoThread
    /\ m_callbacks[fd] # NoCallback
    /\ m_mutex' = t
    /\ epoll' = [epoll EXCEPT ![fd] = "absent"]
    /\ op' = [op EXCEPT ![t] = [kind |-> "remove", fd |-> fd]]
    /\ UNCHANGED <<m_callbacks, readable, pipeVars, loopVars>>

RemoveEnd(t) ==
    /\ op[t].kind = "remove"
    /\ m_callbacks' = [m_callbacks EXCEPT ![op[t].fd] = NoCallback]
    /\ m_mutex' = NoThread
    /\ op' = [op EXCEPT ![t] = NoOp]
    /\ UNCHANGED <<epoll, readable, pipeVars, loopVars>>

Change(t, fd, cb) ==
    /\ CanOperate(t)
    /\ m_mutex = NoThread
    /\ m_callbacks[fd] # NoCallback
    /\ m_callbacks' = [m_callbacks EXCEPT ![fd] = cb]
    /\ UNCHANGED <<epoll, readable, pipeVars, m_mutex, loopVars, op>>

(* epoll_ctl(MOD) without the mutex; ENOENT, a returned error, if absent.    *)
Modify(t, fd, mask) ==
    /\ CanOperate(t)
    /\ epoll[fd] # "absent"
    /\ epoll' = [epoll EXCEPT ![fd] = mask]
    /\ UNCHANGED <<m_callbacks, readable, pipeVars, m_mutex, loopVars, op>>

(* A blocking write of one byte: waits while the pipe is full.               *)
Interrupt(t) ==
    /\ CanOperate(t)
    /\ bytes < PipeCapacity
    /\ bytes' = bytes + 1
    /\ owed' = owed + 1
    /\ UNCHANGED <<registryVars, readable, m_mutex, loopVars, op>>

(* flush() reads byte after byte until the pipe is empty.                    *)
FlushBegin(t) ==
    /\ CanOperate(t)
    /\ op' = [op EXCEPT ![t] = [kind |-> "flush", fd |-> Pipe]]
    /\ UNCHANGED <<registryVars, readable, pipeVars, m_mutex, loopVars>>

FlushRead(t) ==
    /\ op[t].kind = "flush"
    /\ bytes > 0
    /\ bytes' = bytes - 1
    /\ owed' = owed - 1
    /\ UNCHANGED <<registryVars, readable, m_mutex, loopVars, op>>

FlushEnd(t) ==
    /\ op[t].kind = "flush"
    /\ bytes = 0
    /\ op' = [op EXCEPT ![t] = NoOp]
    /\ UNCHANGED <<registryVars, readable, pipeVars, m_mutex, loopVars>>

Mutate(t) ==
    \/ \E fd \in Fd, cb \in Callback : AddBegin(t, fd, cb) \/ Change(t, fd, cb)
    \/ \E fd \in Fd : RemoveBegin(t, fd)
    \/ \E fd \in Fd, mask \in {"muted", "armed"} : Modify(t, fd, mask)

(* What a thread does, once it has begun an operation, to complete it.       *)
Finish(t) ==
    \/ AddCommit(t) \/ AddFail(t) \/ RemoveEnd(t)
    \/ FlushRead(t) \/ FlushEnd(t)

Operate(t) ==
    \/ t \in Mutator /\ Mutate(t)
    \/ t \in Flusher /\ FlushBegin(t)
    \/ Interrupt(t)
    \/ Finish(t)

-----------------------------------------------------------------------------
(***************************************************************************)
(* The other end of a user's fd: data arrives, and is read by whoever.       *)
(***************************************************************************)
Readiness ==
    /\ \E fd \in Fd : \/ fd \notin readable /\ readable' = readable \cup {fd}
                      \/ fd \in readable /\ readable' = readable \ {fd}
    /\ UNCHANGED <<registryVars, pipeVars, m_mutex, loopVars, op>>

Next == Dispatch \/ (\E t \in Thread : Operate(t)) \/ Readiness

Spec == Init /\ [][Next]_vars

(***************************************************************************)
(* Fairness.  The kernel runs every thread that can run (WF of each step of  *)
(* dispatch and of Finish) and a mutex is eventually granted to a thread     *)
(* that keeps asking (SF of the steps that lock).  epoll's ready list is a    *)
(* queue, so a ready fd is eventually reported (SF per fd).  A user callback *)
(* is assumed to return.                                                     *)
(***************************************************************************)
Fairness ==
    /\ WF_vars(TestInterrupt)
    /\ \A fd \in AllFd : SF_vars(WaitEvent(fd))
    /\ WF_vars(LockThrows) /\ SF_vars(LookupHit) /\ SF_vars(LookupMiss)
    /\ WF_vars(CallPipe) /\ WF_vars(CallUser)
    /\ SF_vars(CallbackReturns)
    /\ SF_vars(Leave)
    /\ \A t \in Thread : WF_vars(Finish(t))

FairSpec == Spec /\ Fairness

-----------------------------------------------------------------------------
(***************************************************************************)
(* Properties                                                               *)
(***************************************************************************)

InDispatch == at \notin {"out", "aborted"}

(* m_mutex excludes: a thread inside add() or remove() is its only owner, so *)
(* two of them never interleave on the registry (add(), remove()).           *)
MutexExcludes ==
    \A t \in Thread : op[t].kind \in {"add", "remove"} => m_mutex = t

(* The registry and the interest list agree except for the one fd the owner  *)
(* of the mutex is in the middle of adding or removing, and epoll never has  *)
(* an fd without callback: add() inserts the callback before EPOLL_CTL_ADD,  *)
(* remove() erases it after EPOLL_CTL_DEL.                                   *)
RegistryMatchesEpoll ==
    \A fd \in AllFd :
        \/ (m_callbacks[fd] # NoCallback) <=> (epoll[fd] # "absent")
        \/ /\ m_callbacks[fd] # NoCallback /\ epoll[fd] = "absent"
           /\ \E t \in Thread : op[t].kind \in {"add", "remove"} /\ op[t].fd = fd

(* Every byte written to the pipe ends exactly one dispatch() or is flushed: *)
(* no interrupt is lost between the reset of m_interrupt and the read of the *)
(* byte, and none ends two dispatches (interrupt(), the pipe's callback).    *)
InterruptsAreCounted ==
    owed = bytes + (IF InDispatch /\ at # "leave" /\ m_interrupt THEN 1 ELSE 0)

(* callback_from() is right inside a callback, and no exception leaves a     *)
(* stale thread id behind (thread_scope in dispatch()).                      *)
ThreadIdMatchesDispatch ==
    /\ at = "out" => m_thread_id = NoThread
    /\ at = "body" => m_thread_id = Main

(* dispatch() never waits in epoll_wait() or runs a callback while it holds   *)
(* m_mutex (except inside an operation that the callback itself calls).      *)
WaitsUnlocked ==
    at \in {"test", "wait", "call", "body"} /\ op[Main] = NoOp => m_mutex # Main

(* An event dispatch() has taken from epoll still has its callback, and the   *)
(* callback it calls is the one registered: no callback runs after remove()  *)
(* returned, nor the old one after change().                                 *)
CallbackIsCurrent ==
    /\ at = "found" => m_callbacks[event] # NoCallback
    /\ at = "call" => callback = m_callbacks[event]

(* The HVERIFY of the pipe's callback never fails: the byte epoll reported   *)
(* is still there when it is read.                                           *)
NeverAborts == at # "aborted"

(* test/src/event_loop.cpp interrupts a loop from another thread and joins   *)
(* the thread that dispatches: the event of the pipe ends dispatch() by a    *)
(* return, never by an exception out of lock.lock().                         *)
InterruptDoesNotThrow == ~ (at = "found" /\ event = Pipe /\ m_mutex = Main)

(* An interrupt ends the dispatch that is running (EventLoop::interrupt).    *)
InterruptEndsDispatch == InDispatch /\ bytes > 0 ~> at = "out"

(* An fd that is ready while dispatch() runs is served, unless it is removed,*)
(* muted or drained by someone else, or the dispatch ends.                   *)
ReadyFdIsServed ==
    \A fd \in Fd :
        InDispatch /\ Ready(fd) ~> ~Ready(fd) \/ ~InDispatch \/ (at = "body" /\ event = fd)

(***************************************************************************)
(* Refinement of LoopContract.  An fd is registered from EPOLL_CTL_ADD to    *)
(* EPOLL_CTL_DEL; the look-up, the mutex and the wait are stuttering steps.  *)
(***************************************************************************)
Registered == [fd \in Fd |-> IF epoll[fd] = "absent" THEN NoCallback ELSE m_callbacks[fd]]

Mode == CASE at \in {"out", "leave", "aborted"} -> "idle"
          [] at = "body" -> "callback"
          [] OTHER -> "dispatching"

Contract == INSTANCE LoopContract WITH
    registered <- Registered,
    mode <- Mode,
    current <- IF at = "body" THEN callback ELSE NoCallback,
    interrupts <- owed

(* With Mutator = Flusher = {Main}, the loop implements LoopContract: what a  *)
(* single-threaded user of dispatch(), add(), change(), remove() relies on.  *)
ImplementsContract == Contract!Spec
=============================================================================
