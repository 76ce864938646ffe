----------------------------- MODULE MCPrimitives -----------------------------
(* Values for the constants of Primitives in the TLC runs.                    *)
EXTENDS Primitives

CONSTANTS t1, t2, t3

ThreeThreads == {t1, t2, t3}
TwoThreads == {t1, t2}
OneOrTwo == {1, 2}

(* Enough elements from the start, so that no thread finds the pool empty, or *)
(* a single thread.  The maximum is not below what the threads put back.      *)
SafeUsage == {
    [maximum |-> 0, initial |-> 2 * MaxHeld, users |-> TwoThreads],
    [maximum |-> MaxMade, initial |-> 2 * MaxHeld, users |-> TwoThreads],
    [maximum |-> 0, initial |-> 0, users |-> {t1}]}

ASSUME SafeUsageIsBigEnough == P!PoolIsBigEnough

MCSignal == {"user1", "user2", "kill"}
MCUncatchable == {"kill"}

(* Two states and two events: any transitions, in any order, one of them      *)
(* listed twice, with and without callbacks.                                 *)
To(from, event, to, callback) ==
    [from |-> from, event |-> event, to |-> to, callback |-> callback]

MCTransitions == {
    <<To("off", "go", "on", c), To("on", "stop", "off", d), To("off", "go", "off", TRUE)>> :
        c \in BOOLEAN, d \in BOOLEAN}
    \cup {<<To("off", "go", "on", TRUE), To("on", "go", "up", c), To("up", "stop", "off", FALSE)>> :
        c \in BOOLEAN}

MCMachine ==
    [initial : {"off"}, transitions : MCTransitions, before : BOOLEAN, invalid : BOOLEAN]
=============================================================================
