------------------------------ MODULE Primitives ------------------------------
(***************************************************************************)
(* The parts of the library that stand alone and have threads, signals or    *)
(* callbacks: a program that uses one of them.                               *)
(***************************************************************************)
EXTENDS Naturals, Sequences

CONSTANTS
    Thread, Expected, Step, MaxCalls,
    NoThread, NoElement, Usage, MaxMade, MaxHeld,
    Signal, Uncatchable, MaxSignals,
    State, Event, Machine, MaxDepth,
    Capacity, InputSizes, MaxOutput, MaxRequests

VARIABLES
    used,           \* the part that is used
    m_count, latchAt, thenWait, sleeping, calls, counted, passed,
    m_pool, m_mutex, m_maximum, poolCount, users, poolAt, element, held, made,
    signal_handlers, action, operation, signalAt, arrived, signals,
    machine, m_transitions, m_state, applied, expected,
    intern, processState, m_pid, pc, open, sink, m_queue, interrupted, data, child,
    ends, closer, wrote, got, requests

latchVars == <<m_count, latchAt, thenWait, sleeping, calls, counted, passed>>
poolVars ==
    <<m_pool, m_mutex, m_maximum, poolCount, users, poolAt, element, held, made>>
signalVars == <<signal_handlers, action, operation, signalAt, arrived, signals>>
machineVars == <<machine, m_transitions, m_state, applied, expected>>
processVars == <<intern, processState, m_pid, pc, open, sink, m_queue, interrupted,
    data, child, ends, closer, wrote, got, requests>>
vars == <<used, latchVars, poolVars, signalVars, machineVars, processVars>>

L == INSTANCE Latch WITH at <- latchAt
P == INSTANCE Pool WITH at <- poolAt, m_count <- poolCount
S == INSTANCE SignalHandlers WITH at <- signalAt
F == INSTANCE StateMachine WITH calls <- applied
C == INSTANCE Subprocess WITH
        m_state <- processState, calls <- requests, MaxCalls <- MaxRequests

ASSUME LatchConstants == L!ConstantsAreValid
ASSUME PoolConstants == P!ConstantsAreValid
ASSUME SignalConstants == S!ConstantsAreValid
ASSUME MachineConstants == F!ConstantsAreValid

Init ==
    /\ used \in {"latch", "pool", "signal", "machine", "process"}
    /\ L!Init /\ P!Init /\ S!Init /\ F!Init /\ C!SubprocessInit
    \* A part that is not used has one initial state.
    /\ used # "pool" => made = 0
    /\ used # "process" => intern
    /\ used # "machine" => machine = CHOOSE m \in Machine : TRUE

UseLatch ==
    /\ used = "latch"
    /\ L!Next
    /\ UNCHANGED <<used, poolVars, signalVars, machineVars, processVars>>

UsePool ==
    /\ used = "pool"
    /\ P!Next
    /\ UNCHANGED <<used, latchVars, signalVars, machineVars, processVars>>

UseSignals ==
    /\ used = "signal"
    /\ S!Next
    /\ UNCHANGED <<used, latchVars, poolVars, machineVars, processVars>>

UseMachine ==
    /\ used = "machine"
    /\ F!Next
    /\ UNCHANGED <<used, latchVars, poolVars, signalVars, processVars>>

ParentSteps ==
    /\ used = "process" /\ C!Parent
    /\ UNCHANGED <<used, latchVars, poolVars, signalVars, machineVars>>

ChildGoesOn ==
    /\ used = "process" /\ (C!ChildUnblocks \/ C!ChildExits)
    /\ UNCHANGED <<used, latchVars, poolVars, signalVars, machineVars>>

UseProcess ==
    /\ used = "process"
    /\ C!SubprocessNext
    /\ UNCHANGED <<used, latchVars, poolVars, signalVars, machineVars>>

Next == UseLatch \/ UsePool \/ UseSignals \/ UseMachine \/ UseProcess

(* A thread that may run goes on in countDown() and in wait(); so does the     *)
(* parent of a child, and the child while nothing blocks it.                 *)
LatchSteps(t) ==
    /\ used = "latch" /\ (L!NotifyAll(t) \/ L!WaitTest(t))
    /\ UNCHANGED <<used, poolVars, signalVars, machineVars, processVars>>

Fairness ==
    /\ \A t \in Thread : WF_vars(LatchSteps(t))
    /\ WF_vars(ParentSteps) /\ WF_vars(ChildGoesOn)

Spec == Init /\ [][Next]_vars /\ Fairness

-----------------------------------------------------------------------------
(* Each part's properties; their modules say what they mean.                  *)

(* countDown() and wait(): the count is what was not counted.                 *)
CountIsExact == L!TypeOK /\ L!CountIsExact

(* wait(): once the count is zero every thread in it returns.                 *)
WaitersLeave == L!WaitersLeave

(* get() and put(): no element is handed out twice or lost.                   *)
ElementsAreExclusive == P!TypeOK /\ P!ElementsAreExclusive

(* A handler that is called finds its entry (set_signal_handler()).           *)
HandlersMatchActions == S!HandlersMatchActions

(* apply(): the state is where the events lead.                               *)
StateFollowsEvents == F!StateFollowsEvents

(* run(): what was in a pipe is read before the pipe is closed.               *)
OutputIsRead == C!OutputIsRead

(* run(): it returns, but for three cases that are named.                     *)
RunReturns == C!RunReturns
=============================================================================
