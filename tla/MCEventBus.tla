------------------------------ MODULE MCEventBus ------------------------------
(* Values for the constants of EventBus in the TLC runs.                      *)
EXTENDS EventBus

CONSTANTS n1, n2, a1, a2, q1, q2, t1, t2

TwoNames == {n1, n2}
OneAction == {a1}
TwoActions == {a1, a2}
TwoQueues == {q1, q2}
OneQueue == {q1}
TwoThreads == {t1, t2}
=============================================================================
