-------------------------------- MODULE MCPool -------------------------------
(* Values for the constants of Pool in the TLC runs.                          *)
EXTENDS Pool

CONSTANTS t1, t2

TwoThreads == {t1, t2}

SharedEmpty == {[maximum |-> 0, initial |-> 0, users |-> TwoThreads]}

MaximumOne == {[maximum |-> 1, initial |-> 0, users |-> {t1}]}
=============================================================================
