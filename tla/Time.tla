--------------------------------- MODULE Time ---------------------------------
(***************************************************************************)
(* hlib::time: durations and clocks as seconds and nanoseconds.  Second is   *)
(* the number of nanoseconds in a second (10^9), Milli that in a             *)
(* millisecond; LongMax is the largest number of std::int64_t and of time_t. *)
(* A sum of seconds beyond it is undefined: the properties are about others. *)
(* Calendar is the seconds of the years 1000 to 9999.                        *)
(***************************************************************************)
EXTENDS Ratio

CONSTANTS Second, Milli, LongMax, Calendar

ASSUME UnitsAreValid ==
    /\ Second \in Nat /\ Milli \in Nat \ {0} /\ Second % Milli = 0 /\ Second > Milli
    /\ LongMax \in Nat \ {0} /\ Calendar \subseteq Int

Timespec(sec, nsec) == [tv_sec |-> sec, tv_nsec |-> nsec]

(* The instant or length that a timespec stands for, in nanoseconds.          *)
Nanoseconds(t) == t.tv_sec * Second + t.tv_nsec

Add(a, b) ==
    LET nsec == a.tv_nsec + b.tv_nsec
    IN IF nsec >= Second THEN Timespec(a.tv_sec + b.tv_sec + 1, nsec - Second)
       ELSE Timespec(a.tv_sec + b.tv_sec, nsec)

(* Mutant of Subtract: a borrow that is not taken from the seconds.           *)
SubtractWithoutBorrow(a, b) ==
    LET nsec == a.tv_nsec - b.tv_nsec
    IN Timespec(a.tv_sec - b.tv_sec, IF nsec < 0 THEN nsec + Second ELSE nsec)

Subtract(a, b) ==
    LET nsec == a.tv_nsec - b.tv_nsec
    IN IF nsec < 0 THEN Timespec(a.tv_sec - b.tv_sec - 1, nsec + Second)
       ELSE Timespec(a.tv_sec - b.tv_sec, nsec)

(* Mutant of Multiply: the carry is rounded towards zero.                     *)
MultiplyTruncated(t, x) ==
    LET nsec == Round(Times(Whole(t.tv_nsec), x))
        carry == Truncated(Round(Over(nsec, Whole(Second))))
    IN Timespec(t.tv_sec * Truncated(x) + carry,
                Truncated(Round(Minus(nsec, Round(Whole(carry * Second))))))

(* The seconds are multiplied by the integral part of the factor only.        *)
Multiply(t, x) ==
    LET nsec == Round(Times(Whole(t.tv_nsec), x))
        carry == Floor(Round(Over(nsec, Whole(Second))))
    IN Timespec(t.tv_sec * Truncated(x) + carry,
                Truncated(Round(Minus(nsec, Round(Whole(carry * Second))))))

(* tv_nsec / nsec_per_sec is a division of integers: the nanoseconds are lost.*)
Divide(t, x) ==
    LET total == Round(Whole(t.tv_sec + Quotient(t.tv_nsec, Second)))
        divided == Round(Over(total, x))
        sec == Truncated(divided)
    IN Timespec(sec, Truncated(Round(Times(Round(Minus(divided, Round(Whole(sec)))),
                                           Whole(Second)))))

(* Duration(double), for a number that is not negative.                       *)
DurationOfDouble(x) ==
    Timespec(Floor(x), Truncated(Round(<<(x[1] % x[2]) * Second, x[2]>>)))

(* Duration(RatioValue): the remainder is taken of an unsigned number.  What  *)
(* may come out, as a product of signed numbers may overflow.                 *)
DurationOf(ticks, ratio) ==
    LET product == ticks * Quotient(Second * ratio[1], ratio[2])
        nsecs == IF product \in Representable(LongMax)
                 THEN {(product % (2 * (LongMax + 1))) % Second} ELSE 0 .. Second - 1
    IN {Timespec(sec, nsec) : sec \in Computed(ticks * ratio[1], ratio[2], LongMax), nsec \in nsecs}

(* to<RatioValue>(): the nanoseconds are of std::int64_t.                     *)
DurationTo(t, ratio, largest) ==
    IF {t.tv_sec * Second, Nanoseconds(t)} \subseteq Representable(LongMax)
    THEN RatioTo(Nanoseconds(t), <<1, Second>>, ratio, largest) ELSE Representable(largest)

IsZero(t) == t.tv_sec = 0 /\ t.tv_nsec = 0
Equal(a, b) == a.tv_sec = b.tv_sec /\ a.tv_nsec = b.tv_nsec
Less(a, b) == a.tv_sec < b.tv_sec \/ (a.tv_sec = b.tv_sec /\ a.tv_nsec < b.tv_nsec)
Greater(a, b) == a.tv_sec > b.tv_sec \/ (a.tv_sec = b.tv_sec /\ a.tv_nsec > b.tv_nsec)
LessEqual(a, b) == ~Greater(a, b)
GreaterEqual(a, b) == ~Less(a, b)

-----------------------------------------------------------------------------
(* Strings of ISO 8601: the seconds of the date and time that are written,    *)
(* the milliseconds or NoMilliseconds, and the zone as an offset from UTC.    *)
(* The buffers they are written to are made for years of four digits.         *)
NoMilliseconds == -1

MillisecondsOf(clock) == (clock.tv_nsec \div Milli) % (Second \div Milli)

ToStringUtc(clock, milliseconds) ==
    [written |-> clock.tv_sec, zone |-> 0,
     msec |-> IF milliseconds THEN MillisecondsOf(clock) ELSE NoMilliseconds]

(* to_string_local_date_and_time() converts to local time; to_string_local()  *)
(* calls gmtime(): it writes UTC, and the offset of the local zone behind it. *)
ToStringLocalDateAndTime(clock, offset) ==
    [written |-> clock.tv_sec + offset, zone |-> offset, msec |-> NoMilliseconds]

ToStringLocal(clock, offset, milliseconds) ==
    [written |-> clock.tv_sec, zone |-> offset,
     msec |-> IF milliseconds THEN MillisecondsOf(clock) ELSE NoMilliseconds]

(* to_clock(): timegm() takes what is written for UTC, whatever the zone.     *)
ToClock(string) ==
    Timespec(string.written, IF string.msec = NoMilliseconds THEN 0 ELSE string.msec * Milli)
=============================================================================
