--------------------------- MODULE PrimitivesProofs ---------------------------
(***************************************************************************)
(* Proofs about the parts of Primitives: the latch, the signal functions,    *)
(* the state machine, the subprocess and the pool, for every value of the    *)
(* constants.                                                                *)
(***************************************************************************)
EXTENDS Primitives, FiniteSetTheorems, FunctionTheorems, SequenceTheorems, WellFoundedInduction, TLAPS

-----------------------------------------------------------------------------
(* The latch.  A waiter that sleeps although the count is zero will be        *)
(* notified: the thread that counted down to zero has yet to do so.           *)
WaitersAreNotified ==
    L!Open /\ sleeping # {} => \E t \in Thread : latchAt[t] = "notify"

LatchInv == CountIsExact /\ WaitersAreNotified

LEMMA LatchInit == Init => LatchInv
  BY LatchConstants DEF Init, L!Init, LatchInv, CountIsExact, WaitersAreNotified, L!TypeOK,
      L!CountIsExact, L!ConstantsAreValid, L!Location, L!Aborted, L!Open

LEMMA LatchStep == ASSUME LatchInv, L!Next PROVE LatchInv'
  <1> USE LatchConstants DEF LatchInv, CountIsExact, WaitersAreNotified, L!TypeOK,
      L!CountIsExact, L!ConstantsAreValid, L!Location, L!Aborted, L!Open, L!Goto
  <1>1. ASSUME NEW t \in Thread, NEW n \in Step, L!CountDown(t, n) PROVE LatchInv'
    BY <1>1 DEF L!CountDown, L!AfterCountDown
  <1>2. ASSUME NEW t \in Thread, L!NotifyAll(t) PROVE LatchInv'
    BY <1>2 DEF L!NotifyAll
  <1>3. ASSUME NEW t \in Thread, L!WaitBegin(t) PROVE LatchInv'
    BY <1>3 DEF L!WaitBegin
  <1>4. ASSUME NEW t \in Thread, L!WaitTest(t) PROVE LatchInv'
    BY <1>4 DEF L!WaitTest
  <1>5. ASSUME NEW t \in Thread, L!SpuriousWakeup(t) PROVE LatchInv'
    BY <1>5 DEF L!SpuriousWakeup
  <1> QED
    BY <1>1, <1>2, <1>3, <1>4, <1>5 DEF L!Next

-----------------------------------------------------------------------------
(* The signal functions.  The entry of a signal holds the action from before  *)
(* hlib; it answers a promise only while wait_for_signal() is under way.      *)
EntriesAreSound ==
    \A s \in DOMAIN signal_handlers :
        /\ signal_handlers[s].old_action = "default"
        /\ signal_handlers[s].callback = "promise" =>
               /\ s = operation.signal
               /\ <<operation.name, signalAt>> \in {
                      <<"wait", "install">>, <<"wait", "get">>,
                      <<"waited", "defuse">>, <<"waited", "erase">>,
                      <<"wait", "aborted">>, <<"waited", "aborted">>}
        /\ signal_handlers[s].promise =>
               /\ signal_handlers[s].callback = "promise"
               /\ signalAt # "install" /\ arrived > 0

(* What the table and the kernel have of the signal that a function works on, *)
(* wherever the function is interrupted, ...                                 *)
OperationIsHalfDone ==
    LET s == operation.signal IN
    /\ signalAt \in {"defuse", "get"} => S!Installed(s) /\ action[s] = "handler"
    /\ signalAt \in {"erase", "install"} => S!Installed(s) /\ action[s] = "default"
    /\ signalAt = "emplace" => ~S!Installed(s) /\ action[s] = "default"
    /\ signalAt = "get" => operation.name = "wait"

(* ... and of all others.                                                    *)
OthersAgree ==
    signalAt # "aborted" =>
        \A s \in Signal :
            s # operation.signal \/ signalAt = "idle" =>
                (S!Installed(s) <=> action[s] = "handler")

Entry == [callback : {"user", "promise"}, old_action : {"default"}, promise : BOOLEAN]

SignalTypes ==
    /\ DOMAIN signal_handlers \subseteq Signal
    /\ signal_handlers \in [DOMAIN signal_handlers -> Entry]
    /\ action \in [Signal -> {"default", "handler"}]
    /\ operation \in [name : {"none", "set", "clear", "wait", "waited"}, signal : Signal]
    /\ signalAt \in {"idle", "defuse", "erase", "emplace", "install", "get", "aborted"}
    /\ arrived \in Nat

SignalInv ==
    SignalTypes /\ EntriesAreSound /\ OperationIsHalfDone /\ OthersAgree
        /\ HandlersMatchActions

LEMMA SignalInit == Init => SignalInv
  BY SignalConstants DEF Init, S!Init, SignalInv, SignalTypes, EntriesAreSound,
      OperationIsHalfDone, OthersAgree, HandlersMatchActions, S!HandlersMatchActions,
      S!Installed, S!ConstantsAreValid

LEMMA SetPromise ==
    ASSUME NEW entry \in Entry, NEW promise \in BOOLEAN
    PROVE  LET new == [entry EXCEPT !.promise = promise] IN
           /\ new \in Entry
           /\ new.callback = entry.callback /\ new.promise = promise
  BY DEF Entry

LEMMA SignalStep == ASSUME SignalInv, S!Next PROVE SignalInv'
  <1> USE SignalConstants DEF SignalInv, SignalTypes, Entry, EntriesAreSound, OperationIsHalfDone,
      OthersAgree, HandlersMatchActions, S!HandlersMatchActions, S!Installed
  <1>1. ASSUME NEW s \in Signal, NEW name \in {"set", "clear", "wait"}, S!Call(name, s)
        PROVE  SignalInv'
    BY <1>1 DEF S!Call
  <1>2. ASSUME NEW s \in Signal, S!Deliver(s) PROVE SignalInv'
    <2>1. CASE signal_handlers[s].promise
      BY <1>2, <2>1 DEF S!Deliver
    <2>2. CASE ~signal_handlers[s].promise
      <3> DEFINE entry == [signal_handlers[s] EXCEPT !.promise =
                               signal_handlers[s].callback = "promise"]
      <3>1. S!Installed(s) /\ action[s] = "handler" /\ signalAt # "aborted"
        BY <1>2 DEF S!Deliver
      <3>2. signal_handlers' = [signal_handlers EXCEPT ![s] = entry]
        BY <1>2, <2>2, <3>1 DEF S!Deliver
      <3>3. /\ entry \in Entry
            /\ entry.callback = signal_handlers[s].callback
            /\ entry.promise => signal_handlers[s].callback = "promise"
        <4>1. signal_handlers[s] \in Entry
          BY <3>1 DEF Entry
        <4> QED
          BY <4>1, SetPromise DEF Entry
      <3>4. /\ UNCHANGED <<action, operation, signalAt>>
            /\ arrived' = IF s = operation.signal THEN arrived + 1 ELSE arrived
        BY <1>2, <2>2, <3>1 DEF S!Deliver
      <3> HIDE DEF entry
      <3>5. signalAt = "install" => s # operation.signal
        BY <3>1
      <3> QED
        BY <3>1, <3>2, <3>3, <3>4, <3>5
    <2> QED
      BY <2>1, <2>2
  <1>3. CASE S!Defuse
    BY <1>3 DEF S!Defuse
  <1>4. CASE S!Erase
    BY <1>4 DEF S!Erase, S!Without, S!Restrict
  <1>5. CASE S!Emplace
    BY <1>5 DEF S!Emplace
  <1>6. CASE S!Install
    BY <1>6 DEF S!Install, S!Without, S!Restrict
  <1>7. CASE S!Get
    BY <1>7 DEF S!Get
  <1> QED
    BY <1>1, <1>2, <1>3, <1>4, <1>5, <1>6, <1>7 DEF S!Next

-----------------------------------------------------------------------------
(* The state machine.  The first transition under way, further up than calls  *)
(* without one, began in the expected state; no other can finish before it.   *)
MachineCall ==
    [from : State, event : Event, to : State, at : {"before", "transition", "invalid"}]

MachineTypes ==
    /\ machine \in Machine
    /\ m_transitions = F!Construct(machine.transitions)
    /\ m_state \in State
    /\ applied \in Seq(MachineCall)
    /\ expected \in State

AreListed(stack) ==
    \A k \in DOMAIN stack : stack[k].at # "invalid" =>
        /\ <<stack[k].from, stack[k].event>> \in DOMAIN m_transitions
        /\ stack[k].to = m_transitions[<<stack[k].from, stack[k].event>>].to

FirstIsExpected(stack) ==
    \A k \in DOMAIN stack :
        /\ stack[k].at # "invalid"
        /\ \A j \in DOMAIN stack : j < k => stack[j].at = "invalid"
        => stack[k].from = expected

MachineInv ==
    MachineTypes /\ AreListed(applied) /\ FirstIsExpected(applied) /\ StateFollowsEvents


LEMMA SmallestExists ==
    ASSUME NEW T \in SUBSET Nat, T # {}
    PROVE  \E x \in T : \A y \in T : x <= y
  <1> DEFINE R == OpToRel(<, Nat)
  <1>1. IsWellFoundedOn(R, Nat)
    BY NatLessThanWellFounded
  <1>2. \A x, y \in Nat : y < x => <<y, x>> \in R
    BY DEF OpToRel
  <1> HIDE DEF R
  <1>3. \E x \in T : \A y \in T : <<y, x>> \notin R
    BY <1>1, WFMin
  <1>4. PICK x \in T : \A y \in T : <<y, x>> \notin R
    BY <1>3
  <1>5. ASSUME NEW y \in T PROVE x <= y
    <2>1. ~(y < x)
      BY <1>2, <1>4
    <2> QED
      BY <2>1
  <1> QED
    BY <1>5

(* The table has what is listed, and nothing else.                            *)
LEMMA TableIsList ==
    ASSUME MachineTypes, NEW state \in State, NEW event \in Event
    PROVE  /\ F!Listed(state, event) \in State
           /\ IF <<state, event>> \in DOMAIN m_transitions
                THEN m_transitions[<<state, event>>].to = F!Listed(state, event)
                ELSE F!Listed(state, event) = state
  <1> DEFINE ts == machine.transitions
             I == {k \in DOMAIN ts : ts[k].from = state /\ ts[k].event = event}
  <1>1. ts \in Seq(F!Transition)
    BY MachineConstants DEF MachineTypes, F!ConstantsAreValid
  <1>2. <<state, event>> \in DOMAIN m_transitions <=> I # {}
    BY <1>1 DEF MachineTypes, F!Construct, F!Range
  <1>3. CASE I = {}
    BY <1>2, <1>3 DEF F!Listed
  <1>4. CASE I # {}
    <2>1. \E x \in I : \A y \in I : x <= y
      <3>1. I \subseteq Nat
        BY <1>1
      <3> HIDE DEF I
      <3> QED
        BY <1>4, <3>1, SmallestExists
    <2>2. F!Min(I) \in I
      BY <2>1 DEF F!Min
    <2>3. F!Listed(state, event) = ts[F!Min(I)].to
      BY <1>4 DEF F!Listed
    <2>4. {i \in 1..Len(ts) : <<ts[i].from, ts[i].event>> = <<state, event>>} = I
      BY <1>1
    <2>5. m_transitions[<<state, event>>].to = ts[F!Min(I)].to
      BY <1>2, <1>4, <2>4 DEF MachineTypes, F!Construct, F!SelectInSeq
    <2>6. ts[F!Min(I)].to \in State
      <3>1. F!Min(I) \in 1..Len(ts)
        BY <1>1, <2>2
      <3>2. ts[F!Min(I)] \in F!Transition
        BY <1>1, <3>1, ElementOfSeq
      <3> QED
        BY <3>2 DEF F!Transition
    <2> QED
      BY <1>2, <1>4, <2>3, <2>5, <2>6
  <1> QED
    BY <1>3, <1>4

LEMMA MachineInit == Init => MachineInv
  <1> SUFFICES ASSUME Init PROVE MachineInv
    OBVIOUS
  <1>1. MachineTypes
    BY MachineConstants DEF Init, F!Init, MachineTypes, F!ConstantsAreValid
  <1>2. applied = <<>> /\ m_state = expected
    BY DEF Init, F!Init
  <1> QED
    BY <1>1, <1>2 DEF MachineInv, AreListed, FirstIsExpected, StateFollowsEvents,
        F!StateFollowsEvents

(* A transition that ends, or goes on to its callback, on top of the calls    *)
(* that it was made in.                                                      *)
LEMMA TransitionStep ==
    ASSUME MachineTypes, UNCHANGED <<machine, m_transitions>>,
           NEW stack \in Seq(MachineCall), AreListed(stack), FirstIsExpected(stack),
           NEW call \in [from : State, event : Event, to : State,
                         at : {"begin", "before", "transition"}],
           <<call.from, call.event>> \in DOMAIN m_transitions,
           call.to = m_transitions[<<call.from, call.event>>].to,
           F!Effective(stack) => call.from = expected,
           \/ F!Finish(stack, call)
           \/ \E place \in {"before", "transition"} : F!Enter(stack, call, place)
    PROVE  MachineInv'
  <1>0. call.to = F!Listed(call.from, call.event) /\ call.to \in State
    BY TableIsList
  <1>1. CASE F!Finish(stack, call)
    <2>1. MachineTypes'
      BY <1>0, <1>1, TableIsList DEF MachineTypes, F!Finish
    <2>2. AreListed(applied)'
      BY <1>1 DEF F!Finish, AreListed
    <2>3. CASE F!Effective(stack)
      BY <1>0, <1>1, <2>1, <2>2, <2>3 DEF MachineInv, F!Finish, F!Effective, FirstIsExpected,
          StateFollowsEvents, F!StateFollowsEvents
    <2>4. CASE ~F!Effective(stack)
      BY <1>1, <2>1, <2>2, <2>4 DEF MachineInv, F!Finish, F!Effective, FirstIsExpected,
          StateFollowsEvents, F!StateFollowsEvents
    <2> QED
      BY <2>3, <2>4
  <1>2. ASSUME NEW place \in {"before", "transition"}, F!Enter(stack, call, place)
        PROVE  MachineInv'
    <2> DEFINE new == [call EXCEPT !.at = place]
    <2>1. /\ new \in MachineCall /\ new.at # "invalid"
          /\ new.from = call.from /\ new.event = call.event /\ new.to = call.to
      BY DEF MachineCall
    <2> HIDE DEF new
    <2>2. applied' = Append(stack, new) /\ UNCHANGED <<m_state, expected>>
      BY <1>2 DEF F!Enter, new
    <2>3. /\ applied' \in Seq(MachineCall) /\ DOMAIN applied' = 1..(Len(stack) + 1)
          /\ \A k \in 1..Len(stack) : applied'[k] = stack[k]
          /\ applied'[Len(stack) + 1] = new
          /\ DOMAIN stack = 1..Len(stack) /\ Len(stack) \in Nat
      BY <2>1, <2>2, AppendProperties
    <2>4. MachineTypes'
      BY <2>2, <2>3 DEF MachineTypes
    <2>5. AreListed(applied)'
      <3> SUFFICES ASSUME NEW k \in 1..(Len(stack) + 1), applied'[k].at # "invalid"
                   PROVE  /\ <<applied'[k].from, applied'[k].event>> \in DOMAIN m_transitions
                          /\ applied'[k].to =
                                 m_transitions[<<applied'[k].from, applied'[k].event>>].to
        BY <2>3 DEF AreListed
      <3>1. CASE k \in 1..Len(stack)
        BY <2>3, <3>1 DEF AreListed
      <3>2. CASE k = Len(stack) + 1
        BY <2>1, <2>3, <3>2
      <3> QED
        BY <2>3, <3>1, <3>2
    <2>6. FirstIsExpected(applied)'
      <3> SUFFICES ASSUME NEW k \in 1..(Len(stack) + 1), applied'[k].at # "invalid",
                          \A j \in 1..(Len(stack) + 1) : j < k => applied'[j].at = "invalid"
                   PROVE  applied'[k].from = expected
        BY <2>2, <2>3 DEF FirstIsExpected
      <3>1. CASE k \in 1..Len(stack)
        BY <2>3, <3>1 DEF FirstIsExpected
      <3>2. CASE k = Len(stack) + 1
        <4>1. F!Effective(stack)
          BY <2>3, <3>2 DEF F!Effective
        <4> QED
          BY <2>1, <2>3, <3>2, <4>1
      <3> QED
        BY <2>3, <3>1, <3>2
    <2>7. StateFollowsEvents'
      BY <2>1, <2>3 DEF StateFollowsEvents, F!StateFollowsEvents, F!Effective
    <2> QED
      BY <2>4, <2>5, <2>6, <2>7 DEF MachineInv
  <1> QED
    BY <1>1, <1>2

LEMMA FrontAndLast ==
    ASSUME NEW Elements, NEW s \in Seq(Elements), s # <<>>
    PROVE  /\ F!Front(s) \in Seq(Elements) /\ Len(F!Front(s)) = Len(s) - 1
           /\ \A k \in 1..Len(F!Front(s)) : F!Front(s)[k] = s[k]
           /\ Len(s) \in Nat \ {0} /\ F!Last(s) = s[Len(s)]
  <1>1. Len(s) \in Nat \ {0}
    BY EmptySeq
  <1>2. \A k \in 1..(Len(s) - 1) : s[k] \in Elements
    BY <1>1, ElementOfSeq
  <1> DEFINE n == Len(s) - 1
  <1>3. n \in Nat /\ Len(s) = n + 1 /\ \A k \in 1..n : s[k] \in Elements
    BY <1>1, <1>2
  <1>4. F!Front(s) = SubSeq(s, 1, n) /\ F!Last(s) = s[Len(s)]
    BY DEF F!Front, F!Last
  <1> HIDE DEF n
  <1>5. /\ SubSeq(s, 1, n) \in Seq(Elements)
        /\ Len(SubSeq(s, 1, n)) = IF 1 <= n THEN n - 1 + 1 ELSE 0
        /\ \A k \in 1..(n - 1 + 1) : SubSeq(s, 1, n)[k] = s[1 + k - 1]
    BY <1>3, SubSeqProperties
  <1>6. (IF 1 <= n THEN n - 1 + 1 ELSE 0) = n /\ n - 1 + 1 = n
    BY <1>3
  <1>7. ASSUME NEW k \in 1..n PROVE SubSeq(s, 1, n)[k] = s[k]
    <2>1. 1 + k - 1 = k
      OBVIOUS
    <2> QED
      BY <1>5, <1>6, <2>1
  <1> QED
    BY <1>1, <1>3, <1>4, <1>5, <1>6, <1>7

LEMMA MachineStep == ASSUME MachineInv, F!Next PROVE MachineInv'
  <1> USE DEF MachineInv
  <1>1. ASSUME NEW event \in Event, F!Apply(event) PROVE MachineInv'
    <2> DEFINE key == <<m_state, event>>
               call(to) == [from |-> m_state, event |-> event, to |-> to, at |-> "begin"]
    <2>1. UNCHANGED <<machine, m_transitions>> /\ m_state \in State
      BY <1>1 DEF F!Apply, MachineTypes
    <2>2. CASE key \in DOMAIN m_transitions
      <3> DEFINE new == call(m_transitions[key].to)
      <3>1. /\ new \in [from : State, event : Event, to : State,
                         at : {"begin", "before", "transition"}]
            /\ <<new.from, new.event>> \in DOMAIN m_transitions
            /\ new.to = m_transitions[<<new.from, new.event>>].to
            /\ new.from = m_state
        BY <2>1, <2>2, TableIsList
      <3>2. \/ F!Finish(applied, new)
            \/ \E place \in {"before", "transition"} : F!Enter(applied, new, place)
        BY <1>1, <2>2 DEF F!Apply, F!AfterBefore
      <3>3. F!Effective(applied) => new.from = expected
        BY <3>1 DEF StateFollowsEvents, F!StateFollowsEvents
      <3>4. applied \in Seq(MachineCall)
        BY DEF MachineTypes
      <3> HIDE DEF new
      <3> QED
        BY <2>1, <3>1, <3>2, <3>3, <3>4, TransitionStep
    <2>3. CASE key \notin DOMAIN m_transitions /\ ~machine.invalid
      BY <1>1, <2>3 DEF F!Apply, MachineTypes, AreListed, FirstIsExpected,
          StateFollowsEvents, F!StateFollowsEvents, F!Effective
    <2>4. CASE key \notin DOMAIN m_transitions /\ machine.invalid
      <3> DEFINE new == [call(m_state) EXCEPT !.at = "invalid"]
      <3>1. applied' = Append(applied, new) /\ UNCHANGED <<m_state, expected>>
        BY <1>1, <2>4 DEF F!Apply, F!Enter
      <3>2. new \in MachineCall /\ new.at = "invalid"
        BY <2>1 DEF MachineCall
      <3> HIDE DEF new
      <3>3. applied \in Seq(MachineCall)
        BY DEF MachineTypes
      <3>4. /\ applied' \in Seq(MachineCall) /\ DOMAIN applied' = 1..(Len(applied) + 1)
            /\ \A k \in 1..Len(applied) : applied'[k] = applied[k]
            /\ applied'[Len(applied) + 1] = new
            /\ DOMAIN applied = 1..Len(applied) /\ Len(applied) \in Nat
        BY <3>1, <3>2, <3>3, AppendProperties
      <3>5. MachineTypes'
        BY <2>1, <3>1, <3>4 DEF MachineTypes
      <3>6. AreListed(applied)'
        BY <2>1, <3>2, <3>4 DEF AreListed
      <3>7. FirstIsExpected(applied)'
        BY <3>1, <3>2, <3>4 DEF FirstIsExpected
      <3>8. StateFollowsEvents'
        BY <3>1, <3>2, <3>4 DEF StateFollowsEvents, F!StateFollowsEvents, F!Effective
      <3> QED
        BY <3>5, <3>6, <3>7, <3>8
    <2> QED
      BY <2>2, <2>3, <2>4
  <1>2. CASE F!Return
    <2> DEFINE stack == F!Front(applied)
               call == F!Last(applied)
    <2>1. UNCHANGED <<machine, m_transitions>> /\ applied # <<>>
      BY <1>2 DEF F!Return
    <2>2. /\ stack \in Seq(MachineCall) /\ Len(stack) = Len(applied) - 1
          /\ \A k \in 1..Len(stack) : stack[k] = applied[k]
          /\ DOMAIN stack = 1..Len(stack) /\ DOMAIN applied = 1..Len(applied)
          /\ Len(applied) \in Nat \ {0} /\ call = applied[Len(applied)]
      BY <2>1, FrontAndLast, LenProperties DEF MachineTypes
    <2>3. call \in MachineCall
      BY <2>2 DEF MachineTypes
    <2> HIDE DEF stack, call
    <2>4. AreListed(stack) /\ FirstIsExpected(stack)
      BY <2>2 DEF AreListed, FirstIsExpected
    <2>5. CASE call.at = "invalid"
      <3>1. applied' = stack /\ UNCHANGED <<m_state, expected>>
        BY <1>2, <2>5 DEF F!Return, stack, call
      <3>2. MachineTypes'
        BY <2>1, <2>2, <3>1 DEF MachineTypes
      <3>3. AreListed(applied)' /\ FirstIsExpected(applied)'
        BY <2>1, <2>4, <3>1 DEF AreListed, FirstIsExpected
      <3>4. F!Effective(stack) => F!Effective(applied)
        BY <2>2, <2>5 DEF F!Effective
      <3>5. StateFollowsEvents'
        BY <3>1, <3>4 DEF StateFollowsEvents, F!StateFollowsEvents, F!Effective
      <3> QED
        BY <3>2, <3>3, <3>5
    <2>6. CASE call.at \in {"before", "transition"}
      <3>1. /\ call \in [from : State, event : Event, to : State,
                          at : {"begin", "before", "transition"}]
            /\ <<call.from, call.event>> \in DOMAIN m_transitions
            /\ call.to = m_transitions[<<call.from, call.event>>].to
        <4>1. call \in [from : State, event : Event, to : State,
                        at : {"begin", "before", "transition"}]
          BY <2>3, <2>6 DEF MachineCall
        <4>2. Len(applied) \in DOMAIN applied
          BY <2>2
        <4> QED
          BY <2>2, <2>6, <4>1, <4>2 DEF AreListed
      <3>2. F!Effective(stack) => call.from = expected
        BY <2>2, <2>6 DEF F!Effective, FirstIsExpected
      <3>3. \/ F!Finish(stack, call)
            \/ \E place \in {"before", "transition"} : F!Enter(stack, call, place)
        BY <1>2, <2>6 DEF F!Return, F!AfterBefore, stack, call
      <3> QED
        BY <2>1, <2>2, <2>4, <3>1, <3>2, <3>3, TransitionStep
    <2> QED
      BY <2>3, <2>5, <2>6 DEF MachineCall
  <1>3. CASE F!Reset
    <2>1. UNCHANGED <<machine, m_transitions, applied>> /\ m_state' = machine.initial
      BY <1>3 DEF F!Reset
    <2>2. machine.initial \in State
      BY MachineConstants DEF MachineTypes, F!ConstantsAreValid
    <2>3. MachineTypes'
      BY <1>3, <2>1, <2>2 DEF F!Reset, MachineTypes
    <2>4. AreListed(applied)'
      BY <2>1 DEF AreListed
    <2> QED
      BY <1>3, <2>1, <2>3, <2>4 DEF F!Reset, FirstIsExpected, StateFollowsEvents,
          F!StateFollowsEvents, F!Effective
  <1> QED
    BY <1>1, <1>2, <1>3 DEF F!Next

-----------------------------------------------------------------------------
(* The subprocess.  No byte of an output is lost between child and sinks, ... *)
BytesAreConserved ==
    \A p \in C!Output : got[p] + data[p] = wrote[p]

(* ... the sink of a pipe that is open goes only with data that it got, ...   *)
SinksGetData == intern => \A p \in C!Output : p \in open => p \in sink \/ got[p] > 0

(* ... and a pipe that closed first was closed by the child, and was read.    *)
FirstToCloseIsRead ==
    intern => \A p \in C!Output \cap closer :
        p \notin ends /\ (got[p] = wrote[p] \/ got[p] > 0)

ProcessTypes ==
    /\ got \in [C!Output -> Nat] /\ wrote \in [C!Output -> Nat]
    /\ data \in [C!Pipe -> Nat]
    /\ open \subseteq C!Pipe /\ ends \subseteq C!Pipe
    /\ processState = "Idle" => closer = {} /\ open = {} /\ pc = "user"

ProcessInv ==
    ProcessTypes /\ BytesAreConserved /\ SinksGetData /\ FirstToCloseIsRead

LEMMA ProcessInit == Init => ProcessInv
  BY DEF Init, C!SubprocessInit, ProcessInv, ProcessTypes, BytesAreConserved, SinksGetData,
      FirstToCloseIsRead, C!Output, C!Pipe

LEMMA ChildStep == ASSUME ProcessInv, C!Child \/ C!Kill PROVE ProcessInv'
  <1> USE DEF ProcessInv, ProcessTypes, BytesAreConserved, SinksGetData, FirstToCloseIsRead,
      C!Output, C!Pipe, C!parent
  <1>1. CASE C!ChildReads
    BY <1>1 DEF C!ChildReads
  <1>2. CASE C!ChildExits
    BY <1>2 DEF C!ChildExits
  <1>5. CASE C!ChildUnblocks
    BY <1>5 DEF C!ChildUnblocks
  <1>6. CASE C!Kill
    BY <1>6 DEF C!Kill
  <1>3. ASSUME NEW p \in C!Pipe, C!ChildWrites(p) PROVE ProcessInv'
    BY <1>3 DEF C!ChildWrites
  <1>4. ASSUME NEW p \in C!Pipe, C!ChildCloses(p) PROVE ProcessInv'
    BY <1>4 DEF C!ChildCloses
  <1>7. ASSUME NEW p \in C!Pipe, C!ChildBlocks(p) PROVE ProcessInv'
    BY <1>7 DEF C!ChildBlocks
  <1> QED
    BY <1>1, <1>2, <1>3, <1>4, <1>5, <1>6, <1>7 DEF C!Child

LEMMA ParentStep == ASSUME ProcessInv, C!Parent PROVE ProcessInv'
  <1> USE DEF ProcessInv, ProcessTypes, BytesAreConserved, SinksGetData, FirstToCloseIsRead,
      C!Output, C!Pipe, C!parent, C!outside
  <1>1. ASSUME NEW p \in C!Output, C!ReadOutput(p) PROVE ProcessInv'
    <2>1. /\ UNCHANGED <<intern, processState, pc, ends, wrote>>
          /\ p \in open
      BY <1>1 DEF C!ReadOutput
    <2>2. /\ got' = [got EXCEPT ![p] = got'[p]] /\ data' = [data EXCEPT ![p] = data'[p]]
          /\ got'[p] \in Nat /\ data'[p] \in Nat /\ got'[p] >= got[p]
          /\ got'[p] + data'[p] = wrote[p]
          /\ p \in sink => data'[p] = 0
          /\ p \in ends => got'[p] > 0
      BY <1>1 DEF C!ReadOutput
    <2>3. \/ UNCHANGED <<open, closer>> /\ sink' = sink \ {p} /\ p \in ends
          \/ /\ p \notin ends /\ open' = open \ {p} /\ sink' = sink \ {p}
             /\ closer' = IF closer = {} THEN {p} ELSE closer
      BY <1>1 DEF C!ReadOutput, C!OnClose
    <2>4. ProcessTypes' /\ BytesAreConserved'
      BY <2>1, <2>2, <2>3
    <2>5. SinksGetData' /\ FirstToCloseIsRead'
      BY <2>1, <2>2, <2>3
    <2> QED
      BY <2>4, <2>5
  <1>2. CASE C!WriteBegin
    BY <1>2 DEF C!WriteBegin, C!Dispatching
  <1>3. CASE C!WriteSome
    BY <1>3 DEF C!WriteSome
  <1>4. CASE C!WriteEnd
    BY <1>4 DEF C!WriteEnd, C!OnClose
  <1>5. CASE C!InputClosed
    BY <1>5 DEF C!InputClosed, C!OnClose
  <1>6. CASE C!DispatchEnds
    BY <1>6 DEF C!DispatchEnds
  <1>7. CASE C!Wait
    BY <1>7 DEF C!Wait
  <1>8. CASE C!WaitEnd
    BY <1>8 DEF C!WaitEnd
  <1> QED
    BY <1>1, <1>2, <1>3, <1>4, <1>5, <1>6, <1>7, <1>8 DEF C!Parent

LEMMA RequestStep ==
    ASSUME ProcessInv,
           \/ \E size \in InputSizes : C!Run(size) \/ C!UserWrites(size)
           \/ \E p \in C!Output : C!UserReads(p)
           \/ C!UserCloses \/ C!UserWaits
    PROVE  ProcessInv'
  <1> USE DEF ProcessInv, ProcessTypes, BytesAreConserved, SinksGetData, FirstToCloseIsRead,
      C!Output, C!Pipe, C!parent, C!outside
  <1>1. ASSUME NEW size \in InputSizes, C!Run(size) PROVE ProcessInv'
    BY <1>1 DEF C!Run
  <1>2. ASSUME NEW size \in InputSizes, C!UserWrites(size) PROVE ProcessInv'
    BY <1>2 DEF C!UserWrites
  <1>3. ASSUME NEW p \in C!Output, C!UserReads(p) PROVE ProcessInv'
    BY <1>3 DEF C!UserReads
  <1>4. CASE C!UserCloses
    BY <1>4 DEF C!UserCloses
  <1>5. CASE C!UserWaits
    BY <1>5 DEF C!UserWaits
  <1> QED
    BY <1>1, <1>2, <1>3, <1>4, <1>5

LEMMA ProcessStep == ASSUME ProcessInv, C!SubprocessNext PROVE ProcessInv'
  BY ChildStep, ParentStep, RequestStep DEF C!SubprocessNext, C!User

-----------------------------------------------------------------------------
(* Each part keeps its invariant, in its own steps and in those of the others. *)
LEMMA LatchInvariant == Spec => []LatchInv
  <1>1. ASSUME LatchInv, UNCHANGED latchVars PROVE LatchInv'
    BY <1>1 DEF latchVars, LatchInv, CountIsExact, WaitersAreNotified, L!TypeOK, L!CountIsExact,
        L!Aborted, L!Open
  <1>2. ASSUME LatchInv, [Next]_vars PROVE LatchInv'
    BY <1>1, <1>2, LatchStep DEF Next, UseLatch, UsePool, UseSignals, UseMachine, UseProcess,
        vars
  <1> QED
    BY <1>2, LatchInit, PTL DEF Spec

LEMMA SignalInvariant == Spec => []SignalInv
  <1>1. ASSUME SignalInv, UNCHANGED signalVars PROVE SignalInv'
    BY <1>1 DEF signalVars, SignalInv, SignalTypes, EntriesAreSound, OperationIsHalfDone,
        OthersAgree, HandlersMatchActions, S!HandlersMatchActions, S!Installed
  <1>2. ASSUME SignalInv, [Next]_vars PROVE SignalInv'
    BY <1>1, <1>2, SignalStep DEF Next, UseLatch, UsePool, UseSignals, UseMachine, UseProcess,
        vars
  <1> QED
    BY <1>2, SignalInit, PTL DEF Spec

LEMMA MachineInvariant == Spec => []MachineInv
  <1>1. ASSUME MachineInv, UNCHANGED machineVars PROVE MachineInv'
    BY <1>1 DEF machineVars, MachineInv, MachineTypes, AreListed, FirstIsExpected,
        StateFollowsEvents, F!StateFollowsEvents, F!Effective
  <1>2. ASSUME MachineInv, [Next]_vars PROVE MachineInv'
    BY <1>1, <1>2, MachineStep DEF Next, UseLatch, UsePool, UseSignals, UseMachine, UseProcess,
        vars
  <1> QED
    BY <1>2, MachineInit, PTL DEF Spec

LEMMA ProcessInvariant == Spec => []ProcessInv
  <1>1. ASSUME ProcessInv, UNCHANGED processVars PROVE ProcessInv'
    BY <1>1 DEF processVars, ProcessInv, ProcessTypes, BytesAreConserved, SinksGetData,
        FirstToCloseIsRead
  <1>2. ASSUME ProcessInv, [Next]_vars PROVE ProcessInv'
    BY <1>1, <1>2, ProcessStep DEF Next, UseLatch, UsePool, UseSignals, UseMachine, UseProcess,
        vars
  <1> QED
    BY <1>2, ProcessInit, PTL DEF Spec

-----------------------------------------------------------------------------
(* The count is what was not counted down, and nobody passes the latch before *)
(* it is zero (Latch::countDown(), wait()).                                  *)
THEOREM LatchCounts == Spec => []CountIsExact
  <1>1. LatchInv => CountIsExact
    BY DEF LatchInv
  <1> QED
    BY LatchInvariant, <1>1, PTL

(* Nobody sleeps on an open latch without a notification on its way, though   *)
(* countDown() notifies after it has released m_mutex.                       *)
THEOREM LatchLosesNoWakeup == Spec => []WaitersAreNotified
  <1>1. LatchInv => WaitersAreNotified
    BY DEF LatchInv
  <1> QED
    BY LatchInvariant, <1>1, PTL

(* A handler finds its entry wherever its signal interrupts the functions     *)
(* (set_signal_handler(), clear_signal_handler(), wait_for_signal()).        *)
THEOREM SignalsFindHandlers == Spec => []HandlersMatchActions
  <1>1. SignalInv => HandlersMatchActions
    BY DEF SignalInv
  <1> QED
    BY SignalInvariant, <1>1, PTL

(* The state is where the events lead, whatever the callbacks of a transition *)
(* do (FSM::apply(), reset()).                                               *)
THEOREM MachineFollowsEvents == Spec => []StateFollowsEvents
  <1>1. MachineInv => StateFollowsEvents
    BY DEF MachineInv
  <1> QED
    BY MachineInvariant, <1>1, PTL

(* A pipe is read before it is closed, when it is the first to close          *)
(* (Subprocess::run()).                                                      *)
THEOREM ProcessReadsOutput == Spec => []OutputIsRead
  <1>1. ProcessInv => OutputIsRead
    BY DEF ProcessInv, ProcessTypes, FirstToCloseIsRead, OutputIsRead, C!OutputIsRead,
        C!Returned
  <1> QED
    BY ProcessInvariant, <1>1, PTL

-----------------------------------------------------------------------------
(***************************************************************************)
(* The pool, for any number of threads: a program whose pool is big enough   *)
(* that get() never calls the factory while another thread may use the pool. *)
(***************************************************************************)
-----------------------------------------------------------------------------
(* Counting.  A family of sets h[u] of at most k elements, one of them of     *)
(* fewer, does not cover as many numbers as there are sets times k.          *)
LEMMA NotAllCovered ==
    ASSUME NEW U, IsFiniteSet(U), NEW h, NEW k \in Nat, NEW m \in Nat,
           \A u \in U : IsFiniteSet(h[u]) /\ Cardinality(h[u]) <= k,
           NEW v \in U, Cardinality(h[v]) < k,
           m >= Cardinality(U) * k
    PROVE  \E e \in 1..m : \A u \in U : e \notin h[u]
  <1> SUFFICES ASSUME \A e \in 1..m : \E u \in U : e \in h[u] PROVE FALSE
    OBVIOUS
  <1> DEFINE owner == [e \in 1..m |-> CHOOSE u \in U : e \in h[u]]
             number == [u \in U |-> CHOOSE g : g \in Injection(h[u], 1..Cardinality(h[u]))]
             place == [e \in 1..m |-> <<owner[e], number[owner[e]][e]>>]
             places == (U \X (1..k)) \ {<<v, k>>}
  <1>1. \A e \in 1..m : owner[e] \in U /\ e \in h[owner[e]]
    OBVIOUS
  <1>2. ASSUME NEW u \in U
        PROVE  number[u] \in Injection(h[u], 1..Cardinality(h[u]))
    <2>1. ExistsBijection(h[u], 1..Cardinality(h[u]))
      BY FS_CardinalityType, Fun_ExistsBijSymmetric
    <2>2. \E g : g \in Injection(h[u], 1..Cardinality(h[u]))
      BY <2>1 DEF ExistsBijection, Bijection
    <2> QED
      BY <2>2
  <1>3. \A u \in U : Cardinality(h[u]) \in Nat
    BY FS_CardinalityType
  <1> HIDE DEF owner, number
  <1>4. place \in Injection(1..m, places)
    <2>1. ASSUME NEW e \in 1..m PROVE place[e] \in places
      <3>1. number[owner[e]][e] \in 1..Cardinality(h[owner[e]])
        BY <1>1, <1>2 DEF Injection
      <3>2. owner[e] = v => number[owner[e]][e] # k
        BY <1>1, <1>3, <3>1
      <3>3. number[owner[e]][e] \in 1..k
        BY <1>1, <1>3, <3>1
      <3> QED
        BY <1>1, <3>2, <3>3
    <2>2. ASSUME NEW d \in 1..m, NEW e \in 1..m, place[d] = place[e] PROVE d = e
      <3>1. owner[d] = owner[e] /\ number[owner[d]][d] = number[owner[d]][e]
        BY <2>2
      <3>2. d \in h[owner[d]] /\ e \in h[owner[d]] /\ owner[d] \in U
        BY <1>1, <3>1
      <3> QED
        BY <1>2, <3>1, <3>2 DEF Injection, IsInjective
    <2>3. place \in [1..m -> places]
      BY <2>1
    <2> HIDE DEF place, places
    <2> QED
      BY <2>2, <2>3, Fun_IsInj
  <1>5. IsFiniteSet(U \X (1..k)) /\ Cardinality(U \X (1..k)) = Cardinality(U) * k
    <2>1. IsFiniteSet(1..k) /\ Cardinality(1..k) = k
      BY FS_Interval
    <2> HIDE DEF owner, number, place, places
    <2> QED
      BY <2>1, FS_Product
  <1>6. /\ IsFiniteSet(places) /\ Cardinality(places) <= Cardinality(U) * k
        /\ Cardinality(places) # Cardinality(U) * k
    <2>1. k \in 1..k
      BY <1>3
    <2>2. places # U \X (1..k) /\ places \in SUBSET (U \X (1..k))
      BY <2>1
    <2> HIDE DEF places
    <2> QED
      BY <1>5, <2>2, FS_Subset
  <1>7. Cardinality(1..m) = m
    BY FS_Interval
  <1>8. m <= Cardinality(places)
    <2> HIDE DEF place, places
    <2> QED
      BY <1>4, <1>6, <1>7, FS_Injection
  <1>9. Cardinality(places) \in Nat /\ Cardinality(U) * k \in Nat
    BY <1>5, <1>6, FS_CardinalityType
  <1> HIDE DEF places
  <1> QED
    BY <1>6, <1>8, <1>9

LEMMA SameSets ==
    ASSUME NEW Elements
    PROVE  P!Cardinality(Elements) = Cardinality(Elements) /\ P!IsFiniteSet(Elements) = IsFiniteSet(Elements)
  BY DEF P!Cardinality, Cardinality, P!IsFiniteSet, IsFiniteSet

(* The elements of a sequence when one is added at the end or taken in front. *)
LEMMA AppendedElements ==
    ASSUME NEW Elements, NEW s \in Seq(Elements), NEW e \in Elements
    PROVE  /\ P!Range(Append(s, e)) = P!Range(s) \cup {e}
           /\ P!IsInjective(s) /\ e \notin P!Range(s) => P!IsInjective(Append(s, e))
           /\ s # <<>> => Head(Append(s, e)) = Head(s)
  BY AppendProperties, LenProperties DEF P!Range, P!IsInjective

LEMMA FrontTaken ==
    ASSUME NEW Elements, NEW s \in Seq(Elements), s # <<>>
    PROVE  /\ Head(s) \in P!Range(s)
           /\ P!IsInjective(s) =>
                  P!IsInjective(Tail(s)) /\ P!Range(Tail(s)) = P!Range(s) \ {Head(s)}
  <1>1. /\ Tail(s) \in Seq(Elements) /\ Len(Tail(s)) = Len(s) - 1 /\ Len(s) \in Nat \ {0}
        /\ \A i \in 1..Len(Tail(s)) : Tail(s)[i] = s[i + 1]
        /\ DOMAIN s = 1..Len(s) /\ DOMAIN Tail(s) = 1..Len(Tail(s))
        /\ Head(s) = s[1]
    BY HeadTailProperties, LenProperties, EmptySeq
  <1>2. Head(s) \in P!Range(s)
    BY <1>1 DEF P!Range
  <1>3. ASSUME P!IsInjective(s) PROVE P!IsInjective(Tail(s))
    BY <1>1, <1>3 DEF P!IsInjective
  <1>4. ASSUME P!IsInjective(s) PROVE P!Range(Tail(s)) = P!Range(s) \ {Head(s)}
    <2>1. ASSUME NEW e \in P!Range(Tail(s)) PROVE e \in P!Range(s) \ {Head(s)}
      BY <1>1, <1>4, <2>1 DEF P!Range, P!IsInjective
    <2>2. ASSUME NEW e \in P!Range(s), e # Head(s) PROVE e \in P!Range(Tail(s))
      <3>1. PICK i \in 1..Len(s) : e = s[i]
        BY <1>1 DEF P!Range
      <3>2. i # 1 /\ i - 1 \in 1..Len(Tail(s)) /\ (i - 1) + 1 = i
        BY <1>1, <2>2, <3>1
      <3> QED
        BY <1>1, <3>1, <3>2 DEF P!Range
    <2> QED
      BY <2>1, <2>2
  <1> QED
    BY <1>2, <1>3, <1>4

-----------------------------------------------------------------------------
(* The factory is called, and the front taken without the lock, only by a     *)
(* thread that is alone; the pool is big enough for the others.               *)
Alone == \E t \in Thread : users \subseteq {t}

ElementsSuffice ==
    Alone \/ (IsFiniteSet(users) /\ made >= Cardinality(users) * MaxHeld)

UsersHold ==
    \A t \in Thread :
        /\ t \notin users => poolAt[t] = "idle" /\ held[t] = {}
        /\ IsFiniteSet(held[t]) /\ Cardinality(held[t]) <= MaxHeld
        /\ poolAt[t] \in {"make", "add", "move", "pop"} => Cardinality(held[t]) < MaxHeld

FrontIsLocked ==
    \A t \in Thread :
        /\ m_mutex = t => poolAt[t] \in {"move", "pop"}
        /\ poolAt[t] \in {"move", "pop"} => m_mutex = t \/ Alone
        /\ poolAt[t] \in {"make", "add"} => Alone

(* What get() has read or made is still so when it goes on.                   *)
LocalsAreCurrent ==
    \A t \in Thread :
        /\ poolAt[t] \in {"move", "pop"} => m_pool # <<>>
        /\ poolAt[t] = "pop" => element[t] = Head(m_pool)
        /\ poolAt[t] = "add" =>
               /\ element[t] \in 1..made /\ element[t] \notin P!Range(m_pool)
               /\ \A u \in Thread : element[t] \notin held[u]

PoolInv ==
    /\ ElementsAreExclusive
    /\ poolCount = 0
    /\ ElementsSuffice /\ UsersHold /\ FrontIsLocked /\ LocalsAreCurrent


LEMMA PoolInit == ASSUME P!PoolIsBigEnough, Init PROVE PoolInv
  <1>1. PICK usage \in Usage :
            /\ m_maximum = usage.maximum /\ users = usage.users /\ made = usage.initial
            /\ m_pool = [k \in 1..usage.initial |-> k]
    BY DEF Init, P!Init
  <1>2. /\ usage.maximum \in Nat /\ usage.initial \in 0..MaxMade /\ usage.users \subseteq Thread
        /\ MaxMade \in Nat /\ MaxHeld \in Nat
        /\ NoThread \notin Thread /\ NoElement \notin P!Element
    BY PoolConstants DEF P!ConstantsAreValid
  <1>3. /\ m_mutex = NoThread /\ poolCount = 0
        /\ poolAt = [t \in Thread |-> "idle"]
        /\ element = [t \in Thread |-> NoElement]
        /\ held = [t \in Thread |-> {}]
    BY DEF Init, P!Init
  <1>4. m_pool \in Seq(P!Element) /\ P!Range(m_pool) = 1..made /\ P!IsInjective(m_pool)
    <2>1. \A k \in 1..made : k \in P!Element
      BY <1>1, <1>2 DEF P!Element
    <2> QED
      BY <1>1, <1>2, <2>1, IsASeq DEF P!Range, P!IsInjective
  <1>5. P!TypeOK
    BY <1>1, <1>2, <1>3, <1>4 DEF P!TypeOK, P!Location
  <1>6. P!ElementsAreExclusive
    BY <1>3, <1>4 DEF P!ElementsAreExclusive, P!InHand
  <1>7. ElementsSuffice
    BY <1>1, SameSets DEF P!PoolIsBigEnough, ElementsSuffice, Alone
  <1>8. IsFiniteSet({}) /\ Cardinality({}) = 0
    BY FS_EmptySet
  <1>9. UsersHold /\ FrontIsLocked /\ LocalsAreCurrent
    BY <1>2, <1>3, <1>8 DEF UsersHold, FrontIsLocked, LocalsAreCurrent
  <1> QED
    BY <1>3, <1>5, <1>6, <1>7, <1>9 DEF PoolInv, ElementsAreExclusive

(* A thread that finds the deque empty is alone: otherwise the elements are   *)
(* with threads that hold fewer than were made.                              *)
LEMMA EmptyMeansAlone ==
    ASSUME PoolInv, NEW t \in users, poolAt[t] = "idle", Cardinality(held[t]) < MaxHeld,
           m_pool = <<>>
    PROVE  Alone
  <1> SUFFICES ASSUME ~Alone PROVE FALSE
    OBVIOUS
  <1>1. /\ IsFiniteSet(users) /\ made >= Cardinality(users) * MaxHeld
        /\ users \subseteq Thread /\ made \in Nat /\ MaxHeld \in Nat
    BY PoolConstants DEF PoolInv, ElementsSuffice, ElementsAreExclusive, P!TypeOK,
        P!ConstantsAreValid
  <1>2. \A u \in users : IsFiniteSet(held[u]) /\ Cardinality(held[u]) <= MaxHeld
    BY <1>1 DEF PoolInv, UsersHold
  <1>3. PICK e \in 1..made : \A u \in users : e \notin held[u]
    BY <1>1, <1>2, NotAllCovered
  <1>4. e \in P!Range(m_pool) \/ \E u \in Thread : e \in held[u] \cup P!InHand(u)
    BY DEF PoolInv, ElementsAreExclusive, P!ElementsAreExclusive
  <1>5. e \notin P!Range(m_pool)
    BY DEF P!Range
  <1>6. PICK u \in Thread : e \in held[u] \cup P!InHand(u)
    BY <1>4, <1>5
  <1>7. e \notin held[u]
    BY <1>3 DEF PoolInv, UsersHold
  <1>8. poolAt[u] = "add"
    BY <1>6, <1>7 DEF P!InHand
  <1> QED
    BY <1>8 DEF PoolInv, FrontIsLocked

LEMMA PoolStep == ASSUME PoolInv, P!Next PROVE PoolInv'
  <1> USE DEF PoolInv, ElementsAreExclusive
  <1>0. /\ NoThread \notin Thread /\ MaxMade \in Nat /\ MaxHeld \in Nat
        /\ P!TypeOK /\ users \subseteq Thread /\ poolCount = 0 /\ m_maximum \in Nat
        /\ ~P!Full
    BY PoolConstants DEF P!ConstantsAreValid, P!TypeOK, P!Full
  <1>a. \A t \in Thread : Cardinality(held[t]) \in Nat
    BY FS_CardinalityType DEF UsersHold
  <1>b. \A t, u \in users : Alone => t = u
    BY DEF Alone
  <1>1. ASSUME NEW t \in users, P!GetBegin(t) PROVE PoolInv'
    <2>0. poolAt[t] = "idle" /\ Cardinality(held[t]) < MaxHeld
      BY <1>1, SameSets DEF P!GetBegin
    <2>1. m_pool = <<>> => Alone
      BY <2>0, EmptyMeansAlone
    <2>2. P!TypeOK'
      BY <1>0, <1>1 DEF P!GetBegin, P!TypeOK, P!Goto, P!fixed, P!Location
    <2>3. P!ElementsAreExclusive'
      BY <1>0, <1>1 DEF P!GetBegin, P!TypeOK, P!Goto, P!fixed, P!ElementsAreExclusive, P!InHand
    <2>4. UsersHold'
      BY <1>0, <1>1, <2>0 DEF P!GetBegin, P!TypeOK, P!Goto, P!fixed, UsersHold
    <2>5. FrontIsLocked' /\ ElementsSuffice'
      BY <1>0, <1>1, <2>1 DEF P!GetBegin, P!TypeOK, P!Goto, P!fixed, FrontIsLocked,
          ElementsSuffice, Alone
    <2>6. LocalsAreCurrent'
      BY <1>0, <1>1 DEF P!GetBegin, P!TypeOK, P!Goto, P!fixed, LocalsAreCurrent
    <2> QED
      BY <1>0, <1>1, <2>2, <2>3, <2>4, <2>5, <2>6 DEF P!GetBegin, P!fixed
  <1>2. ASSUME NEW t \in users, P!Make(t) PROVE PoolInv'
    <2>1. P!TypeOK'
      BY <1>0, <1>2 DEF P!Make, P!TypeOK, P!Goto, P!fixed, P!Location, P!Element
    <2>2. 1..(made + 1) = 1..made \cup {made + 1}
      BY <1>0 DEF P!TypeOK
    <2>3. P!ElementsAreExclusive'
      BY <1>0, <1>2, <2>2, SMTT(30) DEF P!Make, P!TypeOK, P!Goto, P!fixed,
          P!ElementsAreExclusive, P!InHand
    <2>4. UsersHold' /\ FrontIsLocked'
      BY <1>0, <1>2 DEF P!Make, P!TypeOK, P!Goto, P!fixed, UsersHold, FrontIsLocked, Alone
    <2>5. ElementsSuffice'
      BY <1>0, <1>2 DEF P!Make, P!fixed, FrontIsLocked, ElementsSuffice, Alone
    <2>6. LocalsAreCurrent'
      BY <1>0, <1>2, <2>2 DEF P!Make, P!TypeOK, P!Goto, P!fixed, LocalsAreCurrent,
          P!ElementsAreExclusive
    <2> QED
      BY <1>0, <1>2, <2>1, <2>3, <2>4, <2>5, <2>6 DEF P!Make, P!fixed
  <1>3. ASSUME NEW t \in users, P!AddMade(t) PROVE PoolInv'
    <2>1. /\ poolAt[t] = "add" /\ m_mutex = NoThread
          /\ m_pool' = Append(m_pool, element[t])
          /\ element' = [element EXCEPT ![t] = NoElement]
          /\ poolAt' = [poolAt EXCEPT ![t] = "move"]
          /\ UNCHANGED <<m_mutex, P!fixed, held, made>>
      BY <1>0, <1>3 DEF P!AddMade, P!Add, P!Goto
    <2>2. /\ element[t] \in P!Element /\ element[t] \notin P!Range(m_pool)
          /\ \A u \in Thread : element[t] \notin held[u]
          /\ m_pool \in Seq(P!Element)
      BY <1>0, <2>1 DEF P!TypeOK, P!Element, LocalsAreCurrent
    <2>3. /\ P!Range(m_pool') = P!Range(m_pool) \cup {element[t]}
          /\ P!IsInjective(m_pool) => P!IsInjective(m_pool')
          /\ m_pool' \in Seq(P!Element) /\ m_pool' # <<>>
      BY <2>1, <2>2, AppendedElements, AppendProperties
    <2>4. P!TypeOK'
      BY <1>0, <2>1, <2>3 DEF P!TypeOK, P!fixed, P!Location, P!Element
    <2>5. P!ElementsAreExclusive'
      BY <1>0, <2>1, <2>2, <2>3, SMTT(30) DEF P!TypeOK, P!fixed, P!ElementsAreExclusive, P!InHand
    <2>6. UsersHold' /\ FrontIsLocked' /\ ElementsSuffice'
      BY <1>0, <2>1 DEF P!TypeOK, P!fixed, UsersHold, FrontIsLocked, ElementsSuffice, Alone
    <2>7. \A u \in Thread : poolAt[u] \in {"add", "pop"} => u = t
      BY <1>0, <1>b, <2>1 DEF UsersHold, FrontIsLocked
    <2>8. LocalsAreCurrent'
      BY <1>0, <2>1, <2>3, <2>7 DEF P!TypeOK, LocalsAreCurrent
    <2> QED
      BY <1>0, <2>1, <2>4, <2>5, <2>6, <2>8 DEF P!fixed
  <1>4. ASSUME NEW t \in users, P!MoveFront(t) PROVE PoolInv'
    <2>1. /\ m_pool # <<>> /\ poolAt[t] = "move"
          /\ element' = [element EXCEPT ![t] = Head(m_pool)]
          /\ poolAt' = [poolAt EXCEPT ![t] = "pop"]
          /\ UNCHANGED <<m_pool, m_mutex, P!fixed, held, made>>
      BY <1>0, <1>4 DEF P!MoveFront, P!Goto, LocalsAreCurrent
    <2>2. Head(m_pool) \in P!Element
      BY <1>0, <2>1, HeadTailProperties DEF P!TypeOK
    <2>3. P!TypeOK'
      BY <1>0, <2>1, <2>2 DEF P!TypeOK, P!fixed, P!Location, P!Element
    <2>4. P!ElementsAreExclusive'
      BY <1>0, <2>1 DEF P!TypeOK, P!fixed, P!ElementsAreExclusive, P!InHand
    <2>5. UsersHold' /\ FrontIsLocked' /\ ElementsSuffice'
      BY <1>0, <2>1 DEF P!TypeOK, P!fixed, UsersHold, FrontIsLocked, ElementsSuffice, Alone
    <2>6. LocalsAreCurrent'
      BY <1>0, <2>1 DEF P!TypeOK, LocalsAreCurrent
    <2> QED
      BY <1>0, <2>1, <2>3, <2>4, <2>5, <2>6 DEF P!fixed
  <1>5. ASSUME NEW t \in users, P!PopFront(t) PROVE PoolInv'
    <2>1. /\ m_pool # <<>> /\ poolAt[t] = "pop" /\ element[t] = Head(m_pool)
          /\ m_pool' = Tail(m_pool)
          /\ held' = [held EXCEPT ![t] = @ \cup {element[t]}]
          /\ element' = [element EXCEPT ![t] = NoElement]
          /\ m_mutex' = IF m_mutex = t THEN NoThread ELSE m_mutex
          /\ poolAt' = [poolAt EXCEPT ![t] = "idle"]
          /\ UNCHANGED <<P!fixed, made>>
      BY <1>0, <1>5 DEF P!PopFront, P!Goto, LocalsAreCurrent
    <2>2. /\ Head(m_pool) \in P!Element /\ m_pool' \in Seq(P!Element)
          /\ Head(m_pool) \in P!Range(m_pool)
          /\ P!IsInjective(m_pool')
          /\ P!Range(m_pool') = P!Range(m_pool) \ {Head(m_pool)}
      BY <1>0, <2>1, HeadTailProperties, FrontTaken DEF P!TypeOK, P!ElementsAreExclusive
    <2>3. P!TypeOK'
      BY <1>0, <2>1, <2>2 DEF P!TypeOK, P!fixed, P!Location, P!Element
    <2>4. P!ElementsAreExclusive'
      BY <1>0, <2>1, <2>2 DEF P!TypeOK, P!fixed, P!ElementsAreExclusive, P!InHand
    <2>5. /\ IsFiniteSet(held[t] \cup {element[t]})
          /\ Cardinality(held[t] \cup {element[t]}) <= MaxHeld
      <3>1. /\ t \in Thread /\ IsFiniteSet(held[t])
            /\ Cardinality(held[t]) \in Nat /\ Cardinality(held[t]) < MaxHeld
        BY <1>0, <1>a, <2>1 DEF UsersHold
      <3>2. /\ IsFiniteSet(held[t] \cup {element[t]})
            /\ \/ Cardinality(held[t] \cup {element[t]}) = Cardinality(held[t])
               \/ Cardinality(held[t] \cup {element[t]}) = Cardinality(held[t]) + 1
        BY <3>1, FS_AddElement
      <3> QED
        BY <1>0, <3>1, <3>2
    <2>6. UsersHold'
      BY <1>0, <2>1, <2>5 DEF P!TypeOK, P!fixed, UsersHold
    <2>7. FrontIsLocked' /\ ElementsSuffice'
      BY <1>0, <2>1 DEF P!TypeOK, P!fixed, FrontIsLocked, ElementsSuffice, Alone
    <2>8. \A u \in Thread : poolAt[u] \in {"move", "pop", "add"} => u = t
      <3>1. t \in Thread /\ (m_mutex = t \/ Alone)
        BY <1>0, <2>1 DEF FrontIsLocked
      <3>2. ASSUME NEW u \in Thread, poolAt[u] \in {"move", "pop", "add"} PROVE u = t
        <4>1. u \in users
          BY <3>2 DEF UsersHold
        <4>2. m_mutex = u \/ Alone
          BY <3>2 DEF FrontIsLocked
        <4> QED
          BY <1>b, <3>1, <4>1, <4>2
      <3> QED
        BY <3>2
    <2>9. LocalsAreCurrent'
      BY <1>0, <2>1, <2>8 DEF P!TypeOK, LocalsAreCurrent
    <2> QED
      BY <1>0, <2>1, <2>3, <2>4, <2>6, <2>7, <2>9 DEF P!fixed
  <1>6. ASSUME NEW t \in users, NEW e \in P!Element, P!Put(t, e) PROVE PoolInv'
    <2>1. /\ poolAt[t] = "idle" /\ e \in held[t] /\ m_mutex = NoThread
          /\ m_pool' = Append(m_pool, e)
          /\ held' = [held EXCEPT ![t] = @ \ {e}]
          /\ poolAt' = [poolAt EXCEPT ![t] = IF poolAt'[t] = "aborted" THEN "aborted" ELSE "idle"]
          /\ UNCHANGED <<m_mutex, P!fixed, element, made>>
      BY <1>0, <1>6 DEF P!Put, P!Goto, P!TypeOK
    <2>2. /\ e \notin P!Range(m_pool) /\ m_pool \in Seq(P!Element)
          /\ \A u \in Thread : u # t => e \notin held[u]
      BY <1>0, <2>1 DEF P!TypeOK, P!ElementsAreExclusive
    <2>3. /\ P!Range(m_pool') = P!Range(m_pool) \cup {e}
          /\ P!IsInjective(m_pool) => P!IsInjective(m_pool')
          /\ m_pool' \in Seq(P!Element) /\ m_pool' # <<>>
          /\ m_pool # <<>> => Head(m_pool') = Head(m_pool)
      BY <2>1, <2>2, AppendedElements, AppendProperties
    <2>4. P!TypeOK'
      BY <1>0, <2>1, <2>3 DEF P!TypeOK, P!fixed, P!Location
    <2>5. P!ElementsAreExclusive'
      BY <1>0, <2>1, <2>2, <2>3 DEF P!TypeOK, P!fixed, P!ElementsAreExclusive, P!InHand
    <2>6. IsFiniteSet(held[t] \ {e}) /\ Cardinality(held[t] \ {e}) <= MaxHeld
      <3>1. IsFiniteSet(held[t]) /\ Cardinality(held[t]) <= MaxHeld
        BY <1>0 DEF UsersHold
      <3>2. IsFiniteSet(held[t] \ {e}) /\ Cardinality(held[t] \ {e}) <= Cardinality(held[t])
        BY <3>1, FS_Subset
      <3> QED
        BY <1>0, <1>a, <3>1, <3>2, FS_CardinalityType
    <2>7. UsersHold'
      BY <1>0, <2>1, <2>6 DEF P!TypeOK, P!fixed, UsersHold
    <2>8. FrontIsLocked' /\ ElementsSuffice'
      BY <1>0, <2>1 DEF P!TypeOK, P!fixed, FrontIsLocked, ElementsSuffice, Alone
    <2>9. LocalsAreCurrent'
      BY <1>0, <2>1, <2>3 DEF P!TypeOK, LocalsAreCurrent
    <2> QED
      BY <1>0, <2>1, <2>4, <2>5, <2>7, <2>8, <2>9 DEF P!fixed
  <1>7. ASSUME NEW t \in users, P!AddNew(t) PROVE PoolInv'
    <2>1. /\ poolAt[t] = "idle" /\ m_mutex = NoThread /\ made < MaxMade
          /\ m_pool' = Append(m_pool, made + 1) /\ made' = made + 1
          /\ UNCHANGED <<m_mutex, P!fixed, poolAt, element, held>>
      BY <1>0, <1>7 DEF P!AddNew, P!Add
    <2>2. 1..(made + 1) = 1..made \cup {made + 1} /\ made + 1 \notin 1..made
      BY <1>0 DEF P!TypeOK
    <2>3. /\ made + 1 \in P!Element /\ m_pool \in Seq(P!Element)
          /\ made + 1 \notin P!Range(m_pool)
          /\ \A u \in Thread : made + 1 \notin held[u] \cup P!InHand(u)
      <3>1. made + 1 \in P!Element /\ m_pool \in Seq(P!Element)
        BY <1>0, <2>1 DEF P!TypeOK, P!Element
      <3>2. made + 1 \notin
                P!Range(m_pool) \cup UNION {held[u] \cup P!InHand(u) : u \in Thread}
        BY <2>2 DEF P!ElementsAreExclusive
      <3> QED
        BY <3>1, <3>2
    <2>4. /\ P!Range(m_pool') = P!Range(m_pool) \cup {made + 1}
          /\ P!IsInjective(m_pool) => P!IsInjective(m_pool')
          /\ m_pool' \in Seq(P!Element) /\ m_pool' # <<>>
          /\ m_pool # <<>> => Head(m_pool') = Head(m_pool)
      BY <2>1, <2>3, AppendedElements, AppendProperties
    <2>5. P!TypeOK'
      BY <1>0, <2>1, <2>4 DEF P!TypeOK, P!fixed
    <2>6. P!ElementsAreExclusive'
      BY <1>0, <2>1, <2>2, <2>3, <2>4 DEF P!TypeOK, P!fixed, P!ElementsAreExclusive, P!InHand
    <2>7. UsersHold' /\ FrontIsLocked'
      BY <2>1 DEF P!fixed, UsersHold, FrontIsLocked, Alone
    <2>8. ElementsSuffice'
      <3>1. users' = users /\ made' = made + 1 /\ made \in Nat
        BY <1>0, <2>1 DEF P!fixed, P!TypeOK
      <3>2. IsFiniteSet(users) => Cardinality(users) * MaxHeld \in Nat
        BY <1>0, FS_CardinalityType
      <3> QED
        BY <3>1, <3>2 DEF ElementsSuffice, Alone
    <2>9. LocalsAreCurrent'
      BY <1>0, <2>1, <2>2, <2>3, <2>4 DEF P!TypeOK, LocalsAreCurrent, P!InHand
    <2> QED
      BY <1>0, <2>1, <2>5, <2>6, <2>7, <2>8, <2>9 DEF P!fixed
  <1> QED
    BY <1>1, <1>2, <1>3, <1>4, <1>5, <1>6, <1>7 DEF P!Next

LEMMA PoolStutter == ASSUME PoolInv, UNCHANGED poolVars PROVE PoolInv'
  BY DEF PoolInv, ElementsAreExclusive, P!TypeOK, P!ElementsAreExclusive, P!InHand, poolVars,
      ElementsSuffice, UsersHold, FrontIsLocked, LocalsAreCurrent, Alone

(* get() and put(): when the pool is big enough, no element is handed out     *)
(* twice or lost, and the front of an empty deque is never taken.            *)
THEOREM PoolLosesNoElement ==
    ASSUME P!PoolIsBigEnough
    PROVE  Spec => []ElementsAreExclusive
  <1>1. Init => PoolInv
    BY PoolInit
  <1>2. PoolInv /\ [Next]_vars => PoolInv'
    BY PoolStep, PoolStutter DEF Next, vars, UseLatch, UsePool, UseSignals, UseMachine, UseProcess
  <1>3. PoolInv => ElementsAreExclusive
    BY DEF PoolInv
  <1> QED
    BY <1>1, <1>2, <1>3, PTL DEF Spec
=============================================================================
