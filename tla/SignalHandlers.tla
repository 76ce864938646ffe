---------------------------- MODULE SignalHandlers ----------------------------
(***************************************************************************)
(* hlib's signal functions: a table of handlers beside the actions the       *)
(* kernel holds.  A signal interrupts the thread that calls the functions    *)
(* between any two of their steps, and the handler runs to its end there.    *)
(***************************************************************************)
EXTENDS Naturals, Functions

CONSTANTS
    Signal,
    Uncatchable,    \* the signals that sigaction() refuses: Kill and Stop
    MaxSignals      \* bound: signals that arrive

ConstantsAreValid ==
    Signal # {} /\ Uncatchable \subseteq Signal /\ MaxSignals \in Nat

VARIABLES
    signal_handlers,    \* signal -> [callback, old_action, promise]
    action,             \* per signal: the kernel's action
    operation,          \* the function that runs, or ran last
    at,                 \* where it is
    arrived,            \* history: how often the operation's signal came
                    \* since it was installed
    signals             \* signals that came

vars == <<signal_handlers, action, operation, at, arrived, signals>>

Init ==
    /\ signal_handlers = [s \in {} |-> {}]
    /\ action = [s \in Signal |-> "default"]
    /\ operation = [name |-> "none", signal |-> CHOOSE s \in Signal : TRUE]
    /\ at = "idle"
    /\ arrived = 0
    /\ signals = 0

Installed(s) == s \in DOMAIN signal_handlers

Without(s) == Restrict(signal_handlers, DOMAIN signal_handlers \ {s})

(* Each function starts with clear_signal_handler(), or with its find().      *)
Call(name, s) ==
    /\ at = "idle"
    /\ operation' = [name |-> name, signal |-> s]
    /\ at' = IF Installed(s) THEN "defuse"
             ELSE IF name = "clear" THEN "idle" ELSE "emplace"
    /\ UNCHANGED <<signal_handlers, action, arrived, signals>>

(* sigaction() with the old action. *)
Defuse ==
    /\ at = "defuse"
    /\ LET s == operation.signal
       IN  action' = [action EXCEPT ![s] = signal_handlers[s].old_action]
    /\ at' = "erase"
    /\ UNCHANGED <<signal_handlers, operation, arrived, signals>>

(* A wait that is over clears its handler, and returns.                       *)
Erase ==
    /\ at = "erase"
    /\ signal_handlers' = Without(operation.signal)
    /\ at' = IF operation.name \in {"clear", "waited"} THEN "idle" ELSE "emplace"
    /\ UNCHANGED <<action, operation, arrived, signals>>

Emplace ==
    /\ at = "emplace"
    /\ signal_handlers' = [s \in DOMAIN signal_handlers \cup {operation.signal} |->
           IF Installed(s) THEN signal_handlers[s]
           ELSE [callback |-> IF operation.name = "wait" THEN "promise" ELSE "user",
                 old_action |-> "default", promise |-> FALSE]]
    /\ at' = "install"
    /\ UNCHANGED <<action, operation, arrived, signals>>

(* Mutant of Install: the entry stays in the table when sigaction() fails.    *)
InstallKeepsEntry ==
    /\ at = "install"
    /\ arrived' = 0
    /\ LET s == operation.signal
       IN  IF s \in Uncatchable
             THEN /\ at' = IF operation.name = "wait" THEN "aborted" ELSE "idle"
                  /\ UNCHANGED <<signal_handlers, action>>
             ELSE /\ action' = [action EXCEPT ![s] = "handler"]
                  /\ signal_handlers' = [signal_handlers EXCEPT ![s].old_action = action[s]]
                  /\ at' = IF operation.name = "wait" THEN "get" ELSE "idle"
    /\ UNCHANGED <<operation, signals>>

(* sigaction() with the handler.  wait_for_signal() does not look at the      *)
(* result, but asserts that there is an entry.                               *)
Install ==
    /\ at = "install"
    /\ arrived' = 0
    /\ LET s == operation.signal
       IN  IF s \in Uncatchable
             THEN /\ signal_handlers' = Without(s)
                  /\ at' = IF operation.name = "wait" THEN "aborted" ELSE "idle"
                  /\ UNCHANGED action
             ELSE /\ action' = [action EXCEPT ![s] = "handler"]
                  /\ signal_handlers' = [signal_handlers EXCEPT ![s].old_action = action[s]]
                  /\ at' = IF operation.name = "wait" THEN "get" ELSE "idle"
    /\ UNCHANGED <<operation, signals>>

(* The future of wait_for_signal() is ready: clear the handler. *)
Get ==
    /\ at = "get"
    /\ signal_handlers[operation.signal].promise
    /\ operation' = [operation EXCEPT !.name = "waited"]
    /\ at' = "defuse"
    /\ UNCHANGED <<signal_handlers, action, arrived, signals>>

(* The handler: it asserts that there is an entry, and it is noexcept: a      *)
(* promise that is set a second time ends the program.                       *)
Deliver(s) ==
    /\ at # "aborted"
    /\ signals < MaxSignals
    /\ action[s] = "handler"
    /\ signals' = signals + 1
    /\ arrived' = IF s = operation.signal THEN arrived + 1 ELSE arrived
    /\ IF ~Installed(s) \/ signal_handlers[s].promise
         THEN at' = "aborted" /\ UNCHANGED signal_handlers
         ELSE LET waited == signal_handlers[s].callback = "promise"
              IN  signal_handlers' = [signal_handlers EXCEPT ![s].promise = waited]
                  /\ UNCHANGED at
    /\ UNCHANGED <<action, operation>>

Next ==
    \/ \E s \in Signal : (\E name \in {"set", "clear", "wait"} : Call(name, s)) \/ Deliver(s)
    \/ Defuse \/ Erase \/ Emplace \/ Install \/ Get

-----------------------------------------------------------------------------
(* Wherever a signal interrupts the functions, the handler finds its entry;   *)
(* between two calls the table and the kernel agree, and what is restored is  *)
(* the action from before hlib; and the program is ended only by a second     *)
(* signal during a wait, or by a wait for a signal nobody can catch.         *)
HandlersMatchActions ==
    /\ \A s \in Signal : action[s] = "handler" =>
           Installed(s) /\ signal_handlers[s].old_action = "default"
    /\ at = "idle" => DOMAIN signal_handlers = {s \in Signal : action[s] = "handler"}
    /\ at = "aborted" =>
           /\ operation.name \in {"wait", "waited"}
           /\ arrived > 1 \/ operation.signal \in Uncatchable
=============================================================================
