----------------------------- MODULE StateMachine -----------------------------
(***************************************************************************)
(* hlib::FSM: a table from (state, event) to the next state.  apply() calls  *)
(* back before it changes the state, and a callback may call apply() or      *)
(* reset() again: the calls under way are a stack.                           *)
(***************************************************************************)
EXTENDS Naturals, Sequences, SequencesExt

CONSTANTS
    State,
    Event,
    Machine,        \* the constructors' arguments: [initial, transitions, before,
                    \* invalid], the last two are whether there is a callback
    MaxDepth        \* bound: apply() calls under way

Transition == [from : State, event : Event, to : State, callback : BOOLEAN]

ConstantsAreValid ==
    Machine \subseteq [initial : State, transitions : Seq(Transition),
                      before : BOOLEAN, invalid : BOOLEAN]

VARIABLES
    machine,
    m_transitions,  \* <<state, event>> -> [to, callback]
    m_state,
    calls,          \* the calls of apply() under way: [from, event, to, at]
    expected        \* history: the state the events lead to

vars == <<machine, m_transitions, m_state, calls, expected>>

(* Mutant of Construct: a later transition replaces an earlier one.           *)
ConstructLast(transitions) ==
    [key \in {<<t.from, t.event>> : t \in Range(transitions)} |->
        LET found == SelectLastInSeq(transitions, LAMBDA t : <<t.from, t.event>> = key)
        IN  [to |-> transitions[found].to, callback |-> transitions[found].callback]]

(* The constructor: emplace() keeps the first transition of a key.            *)
Construct(transitions) ==
    [key \in {<<t.from, t.event>> : t \in Range(transitions)} |->
        LET found == SelectInSeq(transitions, LAMBDA t : <<t.from, t.event>> = key)
        IN  [to |-> transitions[found].to, callback |-> transitions[found].callback]]

Init ==
    /\ machine \in Machine
    /\ m_transitions = Construct(machine.transitions)
    /\ m_state = machine.initial
    /\ calls = <<>>
    /\ expected = machine.initial

(* A call is lost when a transition is under way further down the stack.      *)
Effective(stack) == \A k \in DOMAIN stack : stack[k].at = "invalid"

(* The first transition listed for the event. *)
Listed(state, event) ==
    LET matching == {k \in DOMAIN machine.transitions :
                        /\ machine.transitions[k].from = state
                        /\ machine.transitions[k].event = event}
    IN  IF matching = {} THEN state ELSE machine.transitions[Min(matching)].to

(* m_state = to, at the end of apply(). *)
Finish(stack, call) ==
    /\ calls' = stack
    /\ m_state' = call.to
    /\ expected' = IF Effective(stack) THEN Listed(expected, call.event) ELSE expected

Enter(stack, call, place) ==
    calls' = Append(stack, [call EXCEPT !.at = place]) /\ UNCHANGED <<m_state, expected>>

(* After the callback for all transitions: the callback of this one. *)
AfterBefore(stack, call) ==
    IF m_transitions[<<call.from, call.event>>].callback
      THEN Enter(stack, call, "transition")
      ELSE Finish(stack, call)

Apply(event) ==
    /\ Len(calls) < MaxDepth
    /\ LET key == <<m_state, event>>
           call(to) == [from |-> m_state, event |-> event, to |-> to, at |-> "begin"]
       IN  IF key \notin DOMAIN m_transitions
             THEN IF machine.invalid THEN Enter(calls, call(m_state), "invalid")
                  ELSE UNCHANGED <<calls, m_state, expected>>
             ELSE IF machine.before THEN Enter(calls, call(m_transitions[key].to), "before")
                  ELSE AfterBefore(calls, call(m_transitions[key].to))
    /\ UNCHANGED <<machine, m_transitions>>

(* The callback of the last call returns. *)
Return ==
    /\ calls # <<>>
    /\ CASE Last(calls).at = "before" -> AfterBefore(Front(calls), Last(calls))
         [] Last(calls).at = "transition" -> Finish(Front(calls), Last(calls))
         [] Last(calls).at = "invalid" ->
                calls' = Front(calls) /\ UNCHANGED <<m_state, expected>>
    /\ UNCHANGED <<machine, m_transitions>>

Reset ==
    /\ m_state' = machine.initial
    /\ expected' = IF Effective(calls) THEN machine.initial ELSE expected
    /\ UNCHANGED <<machine, m_transitions, calls>>

Next == (\E event \in Event : Apply(event)) \/ Return \/ Reset

-----------------------------------------------------------------------------
(* Whatever the callbacks do, the state is where the events lead from the     *)
(* initial state by the transitions as they are listed: apply() and reset()   *)
(* of a callback are overwritten by the transition under way (apply()).      *)
StateFollowsEvents == Effective(calls) => m_state = expected
=============================================================================
