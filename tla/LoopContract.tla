---------------------------- MODULE LoopContract -----------------------------
(***************************************************************************)
(* What EventLoop promises a program that changes registrations only on the *)
(* thread that dispatches: no mutex, no epoll, no pipe and no look-up; a    *)
(* callback runs only while it is registered, one at a time, registrations  *)
(* change only in a callback or between dispatches, each interrupt ends one *)
(* dispatch, and a dispatch with a timeout ends only when none is pending.  *)
(***************************************************************************)
EXTENDS Naturals

CONSTANTS Fd, Callback, NoCallback

VARIABLES
    registered,     \* the callback of each fd, or NoCallback
    mode,           \* "idle", "dispatching", or "callback"
    current,        \* the callback that is running, or NoCallback
    interrupts      \* interrupts pending

vars == <<registered, mode, current, interrupts>>

Init ==
    /\ registered = [fd \in Fd |-> NoCallback]
    /\ mode = "idle"
    /\ current = NoCallback
    /\ interrupts = 0

Start ==
    /\ mode = "idle"
    /\ mode' = "dispatching"
    /\ UNCHANGED <<registered, current, interrupts>>

Invoke ==
    /\ mode = "dispatching"
    /\ \E fd \in Fd : registered[fd] # NoCallback /\ current' = registered[fd]
    /\ mode' = "callback"
    /\ UNCHANGED <<registered, interrupts>>

CallbackEnds ==
    /\ mode = "callback"
    /\ mode' \in {"dispatching", "idle"}            \* returned, or threw
    /\ current' = NoCallback
    /\ UNCHANGED <<registered, interrupts>>

Interrupted ==
    /\ mode = "dispatching"
    /\ interrupts > 0
    /\ interrupts' = interrupts - 1
    /\ mode' = "idle"
    /\ UNCHANGED <<registered, current>>

TimedOut ==
    /\ mode = "dispatching"
    /\ interrupts = 0
    /\ mode' = "idle"
    /\ UNCHANGED <<registered, current, interrupts>>

Register ==
    /\ mode # "dispatching"
    /\ \E fd \in Fd, cb \in Callback \cup {NoCallback} :
           registered' = [registered EXCEPT ![fd] = cb]
    /\ UNCHANGED <<mode, current, interrupts>>

Interrupt ==
    /\ interrupts' = interrupts + 1
    /\ UNCHANGED <<registered, mode, current>>

Flush ==
    /\ interrupts > 0
    /\ interrupts' = interrupts - 1
    /\ mode # "dispatching"
    /\ UNCHANGED <<registered, mode, current>>

Next ==
    \/ Start \/ Invoke \/ CallbackEnds \/ Interrupted \/ TimedOut
    \/ Register \/ Interrupt \/ Flush

Spec == Init /\ [][Next]_vars
=============================================================================
