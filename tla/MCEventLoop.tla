----------------------------- MODULE MCEventLoop -----------------------------
(* Values for the constants of EventLoop in the TLC runs.                     *)
EXTENDS EventLoop

CONSTANTS f1, f2, cb1, cb2, c1, c2

MainAndOne == {Main, c1}
AllThree == {Main, c1, c2}
OnlyMain == {Main}
Nobody == {}
OneFd == {f1}
TwoFds == {f1, f2}
OneCallback == {cb1}
TwoCallbacks == {cb1, cb2}
OneClient == {c1}
TwoClients == {c1, c2}
=============================================================================
