---------------------------- MODULE QueueContract ----------------------------
(***************************************************************************)
(* What EventQueue promises: the callbacks pushed by any thread run one at a *)
(* time on the dispatching thread, each exactly once, in the order of the    *)
(* pushes.                                                                  *)
(***************************************************************************)
EXTENDS Sequences

CONSTANTS Item, NoItem

VARIABLES
    pending,        \* pushed and not begun
    running,        \* the callback that runs, or NoItem
    pushed          \* every item pushed so far

vars == <<pending, running, pushed>>

Init == pending = <<>> /\ running = NoItem /\ pushed = {}

Push ==
    /\ \E item \in Item \ pushed :
           pushed' = pushed \cup {item} /\ pending' = Append(pending, item)
    /\ UNCHANGED running

Begin ==
    /\ running = NoItem
    /\ pending # <<>>
    /\ running' = Head(pending)
    /\ pending' = Tail(pending)
    /\ UNCHANGED pushed

End ==
    /\ running # NoItem
    /\ running' = NoItem
    /\ UNCHANGED <<pending, pushed>>

Next == Push \/ Begin \/ End

Spec == Init /\ [][Next]_vars
=============================================================================
