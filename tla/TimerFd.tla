------------------------------- MODULE TimerFd -------------------------------
(***************************************************************************)
(* The kernel's timerfd, as hlib::Timer uses it: timerfd_settime() with a    *)
(* relative time, and read() of a blocking descriptor.  Durations are only   *)
(* told apart by their sign: -1 is invalid, 0 is zero, 1 is positive.        *)
(***************************************************************************)
EXTENDS Integers

Duration == {-1, 0, 1}

(* armed: an expiration is to come; expired: the counter that read() returns *)
(* is not zero, and the fd is readable.                                      *)
State == [armed : BOOLEAN, periodic : BOOLEAN, expired : BOOLEAN]

Disarmed == [armed |-> FALSE, periodic |-> FALSE, expired |-> FALSE]

(* A new setting drops the expirations that were not read yet; EINVAL leaves *)
(* the old one.                                                              *)
IsValid(value, interval) == value >= 0 /\ interval >= 0

SetTime(timer, value, interval) ==
    IF ~IsValid(value, interval) THEN timer
    ELSE IF value = 0 THEN Disarmed
    ELSE [armed |-> TRUE, periodic |-> interval > 0, expired |-> FALSE]

Elapse(timer) == [timer EXCEPT !.expired = TRUE, !.armed = timer.periodic]

Consume(timer) == [timer EXCEPT !.expired = FALSE]

(* The timer is armed for ever, or has something to read. *)
Live(timer) == timer.armed \/ timer.expired
=============================================================================
