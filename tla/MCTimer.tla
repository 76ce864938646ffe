------------------------------- MODULE MCTimer -------------------------------
(* Values for the constants of Timer in the TLC runs.                         *)
EXTENDS Timer

CONSTANTS c1, x1, x2

TwoTimers == {x1, x2}
OneClient == {c1}
OnlyMain == {Main}
=============================================================================
