---------------------------- MODULE MCEventQueue -----------------------------
(* Values for the constants of EventQueue in the TLC runs.                    *)
EXTENDS EventQueue

CONSTANTS c1, c2, i1, i2, i3

TwoClients == {c1, c2}
ThreeItems == {i1, i2, i3}
=============================================================================
