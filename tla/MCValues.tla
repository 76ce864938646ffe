-------------------------------- MODULE MCValues --------------------------------
(* Values for the constants of Values in the TLC runs.                        *)
EXTENDS Values

(* Conversion: 8 to 64 values, as of 3 to 6 bits; numbers beyond them.        *)
MCWidth == [size \in {8, 16, 32, 64} |-> size]

MCTypes == Type

MCTexts ==
    [word : {"number"}, space : {FALSE}, behind : Following, n : -66 .. 66]
        \cup [word : Spelling, space : BOOLEAN, behind : Following, n : {1}]

(* Floating point with two and three bits behind the leading one, in quarters *)
(* and halves of the smallest number: a number halfway between the largest    *)
(* and the next power of two is infinite, one that rounds to the smallest     *)
(* normal number with all its bits is normal.                                 *)
Signed(numbers) == numbers \cup {-n : n \in numbers}

MCFormat ==
    32 :> [numbers |-> Signed({4 * n : n \in 0..8} \cup {8 * n : n \in 4..7}),
           normal |-> 15, infinite |-> 60]
    @@ 64 :> [numbers |-> Signed({2 * n : n \in 0..16} \cup {4 * n : n \in 8..15}),
              normal |-> 16, infinite |-> 62]

(* Text: "A" is the capital of "a"; substrings are not empty.                 *)
MCLower == "A" :> "a"
MCStrings == BoundedSeq({"a", "A", ","}, 5)
MCSubstrings == BoundedSeq({"a", ","}, 2) \ {<<>>}

MCData == BoundedSeq({0, 77, 255}, 4)

(* Uri: two digits, ports up to 3, and a scheme whose default port is 1.      *)
MCDigit == <<"0", "1">>
MCDefaultPort == <<"h">> :> 1

Authorities == BoundedSeq({"h", "@", ":", "1"}, 4)
Tails == {<<>>, <<"/">>, <<"/", "h">>, <<"h">>, <<"/", "?">>, <<"/", "?", "h">>, <<"?", "h">>,
          <<"/", "#", "h">>, <<"/", "?", "h", "#", "h">>, <<"#", "?", "h">>}

MCUriStrings ==
    {scheme \o authority \o tail :
        scheme \in {<<>>, <<"h", ":">>, <<":">>, <<"g", ":">>},
        authority \in {<<>>} \cup {<<"/", "/">> \o a : a \in Authorities}, tail \in Tails}

MCUriParts ==
    [scheme : {<<>>, <<"h">>, <<"g">>}, user_info : {<<>>, <<"h">>, <<"h", ":", "1">>},
     host : {<<>>, <<"h">>, <<"1">>}, port : 0..3, path : {<<"/">>, <<"/", "h">>, <<"/", "/">>},
     query : {<<>>, <<"h">>, <<"?">>}, fragment : {<<>>, <<"h">>, <<"?", "h">>}]

(* Time: ten nanoseconds in a second, five in a millisecond; doubles of five  *)
(* bits.  63 is for 2^63 - 1, and 15 for the largest int.                     *)
MCExponents == -8..8
MCCalendar == -3..2
MCClocks == [tv_sec : {-1, 0, 1, 3, 32}, tv_nsec : {0, 1, 4, 5, 9}]
MCFactors == (-3..3) \X {1} \cup {<<1, 2>>, <<7, 4>>, <<3, 10>>, <<1, 3>>, <<14, 5>>, <<-5, 3>>, <<7, 1>>}

MCNumbers == (-5..5) \X {1, 2, 3}
MCLimits == {15, 63}
MCRatios == {<<1, 1>>, <<1, 4>>, <<2, 1>>, <<3, 2>>}

MCLists == BoundedSeq(1..3, 3)

(* Usage: an option with a value and both names, one without a value, one     *)
(* with a brief name only, or one that is there twice; a required and an      *)
(* optional argument, or none.                                                *)
NoText == ""
IsNumber(value, type) == type = "string" \/ value = "5"

Options == <<
    [brief |-> "a", extended |-> "all", takes |-> TRUE, type |-> "integer", default |-> "0"],
    [brief |-> NoText, extended |-> "bare", takes |-> FALSE, type |-> "none", default |-> NoText],
    [brief |-> "c", extended |-> NoText, takes |-> TRUE, type |-> "string", default |-> "d"]>>

MCUsages ==
    [options : {Options, <<Options[2], Options[1], Options[1]>>},
     arguments : {<<>>, <<[name |-> "in", optional |-> FALSE], [name |-> "out", optional |-> TRUE]>>,
                  <<[name |-> "in", optional |-> TRUE]>>},
     varargs : BOOLEAN]

Argument(dashes, name, value, text) ==
    [dashes |-> dashes, name |-> name, value |-> value, text |-> text]

MCArguments == BoundedSeq({
    Argument(0, NoText, NoText, "5"), Argument(0, NoText, NoText, "x"),
    Argument(1, "a", NoText, "-a"), Argument(2, "all", "5", "--all=5"),
    Argument(2, "all", "x", "--all=x"), Argument(2, "bare", NoText, "--bare"),
    Argument(1, "c", NoText, "-c"), Argument(1, "c", "y", "-c=y"),
    Argument(2, "none", NoText, "--none")}, 3)

(* Buffer: size_t of four bits, memory for three bytes at most.               *)
Bits01 == {0, 1}
MCMaximum == {2, Word - 1}

(* Serial: bytes of one bit, numbers of one to eight of them, the strings "1" *)
(* and "11", and an enumeration of four bytes that is read as one.            *)
Number(size, signed, wide, value) ==
    [kind |-> "number", size |-> size, signed |-> signed, wide |-> wide, value |-> value]

MCItem ==
    UNION {{Number(size, TRUE, size, -(2 ^ (size - 1))), Number(size, TRUE, size, -1),
            Number(size, TRUE, size, 2 ^ (size - 1) - 1), Number(size, FALSE, size, 2 ^ size - 2)} :
               size \in {1, 2, 4, 8}}
    \cup {Number(1, FALSE, 4, 1)}
    \cup [kind : {"string", "chars"}, value : {<<1>>, <<1, 1>>}]

MCSinkMaximum == {0, 9, Word - 1}
=============================================================================
