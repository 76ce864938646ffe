------------------------------ MODULE Conversion ------------------------------
(***************************************************************************)
(* The conversions of strings to values (stob(), stoi8() ... stof64() and    *)
(* string_to<T>()), over the C library's strto functions and their errno,    *)
(* which outlives a call.  A text is what those functions tell apart: white  *)
(* space in front, the word it is, the number it spells, and what is behind  *)
(* it: nothing, a NUL character with more, or other junk.  Numbers are       *)
(* integral: those of floating-point types are multiples of a small unit.    *)
(***************************************************************************)
EXTENDS Integers

CONSTANTS
    Width,          \* per size in bits, the number of values a type of it has
    Format          \* per size, that of a floating-point type: its numbers, from
                    \* which magnitude on one is normal, and from which infinite

ASSUME WidthsAreValid ==
    /\ \A size \in {8, 16, 32, 64} : Width[size] \in Nat \ {0} /\ Width[size] % 2 = 0
    /\ Width[8] < Width[16] /\ Width[16] < Width[32] /\ Width[32] < Width[64]

ASSUME FormatsAreValid ==
    \A size \in {32, 64} :
        /\ Format[size].numbers \subseteq Int /\ 0 \in Format[size].numbers
        /\ Format[size].normal \in Nat /\ Format[size].infinite \in Nat

VARIABLES
    errno,          \* "0" or "ERANGE"
    call            \* the call that has just returned, with its result

Type ==
    [kind : {"integer"}, signed : BOOLEAN, size : {8, 16, 32, 64}]
        \cup [kind : {"float"}, signed : {TRUE}, size : {32, 64}]
        \cup [kind : {"bool"}, signed : {FALSE}, size : {8}]

(* "other" is a word that no function reads; strtod() also reads "inf" and    *)
(* "nan", which are left out.                                                 *)
Spelling == {"empty", "number", "true", "false", "other"}
Following == {"nothing", "nul", "junk"}

IsEmpty(text) == text.word = "empty" /\ ~text.space /\ text.behind = "nothing"

(* std::numeric_limits of an integral type.                                   *)
Highest(type) == IF type.signed THEN Width[type.size] \div 2 - 1 ELSE Width[type.size] - 1
Lowest(type) == IF type.signed THEN -Highest(type) - 1 ELSE 0

Long(signed) == [kind |-> "integer", signed |-> signed, size |-> 64]

Limit(n, low, high) == IF n < low THEN low ELSE IF n > high THEN high ELSE n

-----------------------------------------------------------------------------
(* Where nothing is read, the answer is 0.                                    *)
NumberRead(text) == IF text.word = "number" THEN text.n ELSE 0

Distance(m, n) == IF m < n THEN n - m ELSE m - n

(* The nearest number of a floating-point type.                               *)
Nearest(n, numbers) ==
    CHOOSE x \in numbers : \A y \in numbers : Distance(n, x) <= Distance(n, y)

(* strtol() clamps; strtoul() also negates a number with a minus sign modulo  *)
(* 2^64; strtof() and strtod() round.                                         *)
Strto(n, type) ==
    IF type.kind = "float" THEN Nearest(n, Format[type.size].numbers)
    ELSE IF type.signed THEN Limit(n, Lowest(Long(TRUE)), Highest(Long(TRUE)))
    ELSE IF n \in -Highest(Long(FALSE)) .. -1 THEN n + Highest(Long(FALSE)) + 1
    ELSE IF n \in 0 .. Highest(Long(FALSE)) THEN n ELSE Highest(Long(FALSE))

(* ERANGE: numbers that overflow, and those too small for a normal number     *)
(* unless they are exact.  errno is set and never cleared.                    *)
Overflows(n, type) ==
    IF type.kind = "float" THEN Distance(n, 0) >= Format[type.size].infinite
    ELSE IF type.signed THEN n \notin Lowest(Long(TRUE)) .. Highest(Long(TRUE))
    ELSE n \notin -Highest(Long(FALSE)) .. Highest(Long(FALSE))

Underflows(n, type) ==
    /\ type.kind = "float"
    /\ Distance(n, 0) < Format[type.size].normal /\ n \notin Format[type.size].numbers

(* Only the conversions of 32 and 64 bit integers set errno to zero first.    *)
ErrnoBefore(type) == IF type.kind = "integer" /\ type.size \in {32, 64} THEN "0" ELSE errno

ErrnoAfter(text, type) ==
    IF IsEmpty(text) \/ text.space \/ type.kind = "bool" THEN errno
    ELSE IF Overflows(NumberRead(text), type) \/ Underflows(NumberRead(text), type) THEN "ERANGE"
    ELSE ErrnoBefore(type)

Invalid == [outcome |-> "invalid_argument"]
OutOfRange == [outcome |-> "range_error"]
Value(v) == [outcome |-> "value", value |-> v]

ToBool(text) ==
    IF text.word \in {"true", "false"} /\ ~text.space /\ text.behind = "nothing"
    THEN Value(text.word = "true") ELSE Invalid

(* Nothing in front, and *pos is zero where the reading ended: at the end, or *)
(* at a NUL character, also if that is the first and nothing was read.        *)
Parsed(text) ==
    /\ ~IsEmpty(text) /\ ~text.space
    /\ text.word \in {"number", "empty"} /\ text.behind # "junk"

(* Mutant of ToInteger: only the numbers that overflow long are out of range. *)
ToIntegerNarrowed(text, type) ==
    LET r == Strto(NumberRead(text), type)
    IN IF ~Parsed(text) THEN Invalid
       ELSE IF /\ r \in {Lowest(Long(type.signed)), Highest(Long(type.signed))}
               /\ ErrnoAfter(text, type) = "ERANGE" THEN OutOfRange
       ELSE Value(r % Width[type.size])

ToInteger(text, type) ==
    LET r == Strto(NumberRead(text), type)
    IN IF ~Parsed(text) THEN Invalid
       ELSE IF \/ r \notin Lowest(type) .. Highest(type)
               \/ /\ type.size \in {32, 64}
                  /\ \/ r = Highest(Long(type.signed))
                     \/ type.signed /\ r = Lowest(Long(TRUE))
                  /\ ErrnoAfter(text, type) = "ERANGE" THEN OutOfRange
       ELSE Value(r)

ToFloat(text, type) ==
    IF ~Parsed(text) THEN Invalid
    ELSE IF ErrnoAfter(text, type) = "ERANGE" THEN OutOfRange
    ELSE Value(Strto(NumberRead(text), type))

(* Without std::nothrow an exception tells the reason, with it nothing does.  *)
Nothrow(result) == IF result.outcome = "value" THEN result ELSE [outcome |-> "nullopt"]

StringTo(text, type) ==
    CASE type.kind = "bool" -> ToBool(text)
      [] type.kind = "integer" -> ToInteger(text, type)
      [] type.kind = "float" -> ToFloat(text, type)

Convert(text, type, throws) ==
    /\ errno' = ErrnoAfter(text, type)
    /\ call' = [function |-> "string_to", text |-> text, type |-> type,
                result |-> IF throws THEN StringTo(text, type)
                           ELSE Nothrow(StringTo(text, type))]

-----------------------------------------------------------------------------
(* The number a text spells in an integral type: itself, and modulo the width *)
(* of long if it has a minus sign and the type none.                          *)
Spelled(text, type) ==
    IF NumberRead(text) < 0 /\ ~type.signed /\ NumberRead(text) >= -Highest(Long(FALSE))
    THEN NumberRead(text) + Highest(Long(FALSE)) + 1 ELSE NumberRead(text)

(* An integer comes out as the number that is spelled up to a NUL character,  *)
(* whatever was converted before, and comes out whenever nothing is in front, *)
(* nothing else behind and it fits the type (the limits of long itself do,    *)
(* though strtol() also returns them when it overflows).                      *)
IntegersAreExact ==
    LET n == Spelled(call.text, call.type)
    IN IF Parsed(call.text) /\ n \in Lowest(call.type) .. Highest(call.type)
       THEN call.result = Value(n)
       ELSE call.result.outcome # "value"

(* What comes out as a floating-point number is spelled and in the type's     *)
(* range, and is no further from what is spelled than any other number of the *)
(* type: what the type has comes out as itself.  A number in range is refused *)
(* only after a conversion of the thread that left ERANGE behind, since       *)
(* stof32() and stof64() do not set errno to zero; an underflow is refused,   *)
(* and leaves ERANGE behind as an overflow does.                              *)
FloatsAreNearest ==
    LET n == NumberRead(call.text)
        numbers == Format[call.type.size].numbers
        fits == /\ Parsed(call.text)
                /\ ~Overflows(n, call.type) /\ ~Underflows(n, call.type)
    IN IF call.result.outcome = "value"
       THEN /\ fits /\ call.result.value \in numbers
            /\ \A x \in numbers : Distance(n, call.result.value) <= Distance(n, x)
            /\ n \in numbers => call.result.value = n
       ELSE fits => errno = "ERANGE"

(* Numbers: string_to<T>() of every integral and floating-point type, with    *)
(* and without std::nothrow, after any conversion before it.                  *)
NumbersAreExact ==
    call.function = "string_to" =>
        /\ call.type.kind = "integer" => IntegersAreExact
        /\ call.type.kind = "float" => FloatsAreNearest
=============================================================================
