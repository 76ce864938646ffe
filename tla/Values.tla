--------------------------------- MODULE Values ---------------------------------
(***************************************************************************)
(* The parts of hlib without threads: conversions, which share errno,        *)
(* functions of their arguments, buffers, and serialized data.  They share   *)
(* no other state, so that a behaviour uses one part of them.                *)
(***************************************************************************)
EXTENDS Conversion, Text, Base64, Uri, Time, Containers, Usage, Serial

CONSTANTS           \* the arguments of the functions, bounded by a TLC run
    Texts, Types,               \* of string_to()
    Strings, Substrings,        \* of the functions on strings
    Data,                       \* of base64_encode()
    UriStrings, UriParts,       \* of uri_parse() and to_string()
    Clocks, Factors,            \* of the functions on durations
    Numbers, Ratios, Limits,    \* of the functions on fractions and ratios
    Lists,                      \* of the functions on containers
    Usages, Arguments           \* of Usage::parse()

(* Data is bytes; a clock's nanoseconds are fewer than a second; numbers of   *)
(* type double have a positive denominator.                                   *)
ASSUME ArgumentsAreValid ==
    /\ Texts \subseteq [word : Spelling, space : BOOLEAN, behind : Following, n : Int]
    /\ Types \subseteq Type
    /\ Data \subseteq Seq(0..255)
    /\ Clocks \subseteq [tv_sec : Int, tv_nsec : 0 .. Second - 1]
    /\ Factors \subseteq Int \X (Nat \ {0})
    /\ Numbers \subseteq Int \X (Nat \ {0})
    /\ Ratios \subseteq (Nat \ {0}) \X (Nat \ {0})
    /\ Limits \subseteq Nat \ {0}
    /\ Lists \subseteq Seq(Int)
    /\ \A usage \in Usages :
          /\ usage.options \in Seq(ToSet(usage.options))
          /\ usage.arguments \in Seq(ToSet(usage.arguments))
          /\ \A option \in ToSet(usage.options) : option.takes \in BOOLEAN
    /\ \A argv \in Arguments :
          argv \in Seq(ToSet(argv)) /\ \A arg \in ToSet(argv) : arg.dashes \in 0..2

VARIABLE part               \* the part that is used

values_vars == <<errno, call, buffer, other, serial_vars, part>>

NoCall == [function |-> "none"]

Init ==
    /\ part \in {"conversion", "function", "buffer", "serial"}
    /\ errno = "0" /\ call = NoCall
    /\ BufferInit /\ (part = "buffer" \/ buffer.maximum = InfiniteCapacity)
    /\ SerialInit /\ (part = "serial" \/ sink.m_maximum = 0)

Call(arguments) == call' = arguments /\ UNCHANGED errno

CallConversion ==
    /\ part = "conversion" /\ call = NoCall
    /\ \E text \in Texts, type \in Types, throws \in BOOLEAN : Convert(text, type, throws)

CallText ==
    \E s \in Strings, sub \in Substrings : Call([function |-> "text", s |-> s, sub |-> sub])

CallBase64 == \E data \in Data : Call([function |-> "base64", data |-> data])

CallUri ==
    \/ \E s \in UriStrings : Call([function |-> "uri_parse", s |-> s])
    \/ \E uri \in UriParts : Call([function |-> "uri_string", uri |-> uri])

CallClock ==
    \E a, b \in Clocks, x \in Factors : Call([function |-> "clock", a |-> a, b |-> b, x |-> x])

CallRatio ==
    \E a, b \in Numbers, from, to \in Ratios, largest \in Limits :
        Call([function |-> "ratio", a |-> a, b |-> b, from |-> from, to |-> to,
              largest |-> largest])

CallContainer ==
    \E lhs, rhs \in Lists : Call([function |-> "container", lhs |-> lhs, rhs |-> rhs])

CallUsage ==
    \E usage \in Usages, argv \in Arguments :
        Call([function |-> "usage", usage |-> usage, argv |-> argv])

CallFunction ==
    /\ part = "function" /\ call = NoCall
    /\ \/ CallText \/ CallBase64 \/ CallUri \/ CallClock \/ CallRatio
       \/ CallContainer \/ CallUsage

Return == call # NoCall /\ call' = NoCall /\ UNCHANGED errno

Next ==
    /\ UNCHANGED part
    /\ \/ /\ CallConversion \/ CallFunction \/ Return
          /\ UNCHANGED <<buffer, other, serial_vars>>
       \/ part = "buffer" /\ BufferNext /\ UNCHANGED <<errno, call, serial_vars>>
       \/ part = "serial" /\ SerialNext /\ UNCHANGED <<errno, call, buffer, other>>

Spec == Init /\ [][Next]_values_vars

-----------------------------------------------------------------------------
(* The buffers are sequences of bytes; other parts leave them as they are.    *)
BuffersAreSequences == part = "buffer" => BuffersFit /\ BufferIsSequence

SplitAgrees(s, c) ==
    LET tokens == Split(s, {c}, FALSE)
    IN /\ Join(tokens, <<c>>) = s
       /\ JoinFormatted(tokens, <<c>>, [token \in ToSet(tokens) |-> token]) = s
       /\ Split(s, {c}, TRUE) = SelectSeq(tokens, LAMBDA token : token # <<>>)
       /\ s # <<>> => CountText(s, <<c>>) = Len(tokens) - 1

CountAgrees(s, sub) ==
    LET at == {k \in 1 .. Len(s) - Len(sub) + 1 : OccursAt(s, sub, k)}
        apart == {set \in SUBSET at : \A j, k \in set : j < k => k - j >= Len(sub)}
    IN /\ CountText(s, sub) = Max({Cardinality(set) : set \in apart})
       /\ ContainsText(s, sub) <=> CountText(s, sub) > 0

EndsAgree(s, sub) ==
    LET chars == ToSet(sub)
        trimmed == Trim(s, chars)
    IN /\ trimmed = TrimLeft(TrimRight(s, chars), chars)
       /\ trimmed # <<>> => trimmed[1] \notin chars /\ Last(trimmed) \notin chars
       /\ EndsWith(s, sub) <=> StartsWith(Reverse(s), Reverse(sub))
       /\ \E n \in 0..Len(s) : FillLeft(TrimLeft(s, {sub[1]}), n, sub[1]) = s
       /\ \E n \in 0..Len(s) : FillRight(TrimRight(s, {sub[1]}), n, sub[1]) = s
       /\ Iequals(s, ToLower(s))
       /\ ReplaceText(ReplaceText(s, sub, <<"new">>), <<"new">>, sub) = s

(* Strings: what was split at a delimiter joins to the same string, and       *)
(* filtering leaves out just the empty tokens (split(), join()); count() is   *)
(* the largest number of occurrences that do not overlap, and one less than   *)
(* the tokens; trimming, prefixes and suffixes agree from both ends; what     *)
(* replace() put in is found and replaced again.                              *)
StringsAgree ==
    call.function = "text" =>
        /\ SplitAgrees(call.s, call.sub[1])
        /\ CountAgrees(call.s, call.sub)
        /\ EndsAgree(call.s, call.sub)

(* Base64: encoding is undone by decoding, up to the bytes that the decoded   *)
(* size is too large, and nothing is written behind that size.  No bytes are  *)
(* the one exception: they are encoded to an empty string, which              *)
(* base64_decode() refuses by an assertion (base64_encode(), base64_decode()).*)
Base64RoundTrip ==
    call.function = "base64" =>
        LET encoded == Encode(call.data)
        IN /\ Len(encoded) = EncodedLength(Len(call.data))
           /\ Aborts(encoded) <=> call.data = <<>>
           /\ Written(encoded) = call.data
           /\ Len(Written(encoded)) <= DecodedSize(Len(encoded))
           /\ SubSeq(Decode(encoded), 1, Len(call.data)) = call.data

Legal(uri) ==
    /\ ToSet(uri.host) \cap {":", "@", "/"} = {}
    /\ uri.host = <<>> => /\ uri.user_info = <<>> /\ uri.port = GetDefaultPort(uri.scheme)
                          /\ ~IsPrefix(<<"/", "/">>, uri.path)
    /\ uri.path # <<>> /\ uri.path[1] = "/"
    /\ uri.port = 0 => GetDefaultPort(uri.scheme) = 0

TargetAgrees(uri) ==
    LET target == GetPathQueryFragment(uri)
    IN /\ TargetPath(target) = uri.path
       /\ TargetFragment(target) = uri.fragment
       /\ uri.query # <<>> \/ "?" \notin ToSet(uri.fragment) => TargetQuery(target) = uri.query

(* URIs: a string that was parsed is written so that it parses to the same    *)
(* parts, and legal parts are written so that they are parsed again; the      *)
(* functions on a request's target find the same path, query and fragment     *)
(* (uri_parse(), to_string(), get_path_query_fragment(), target functions).   *)
UriRoundTrip ==
    /\ call.function = "uri_parse" /\ Legal(Parse(call.s)) =>
           Parse(UriString(Parse(call.s))) = Parse(call.s) /\ TargetAgrees(Parse(call.s))
    /\ call.function = "uri_string" /\ Legal(call.uri) =>
           Parse(UriString(call.uri)) = call.uri /\ TargetAgrees(call.uri)

(* Texts: split() and join(), counting, trimming and replacing of strings,    *)
(* and parsing and writing of URIs agree with each other.                     *)
TextsAgree == StringsAgree /\ UriRoundTrip

Normalised(t) == t.tv_nsec \in 0 .. Second - 1

SumsFit(a, b) ==
    \A carry \in -1..1 : {a.tv_sec + b.tv_sec + carry, a.tv_sec - b.tv_sec + carry}
                              \subseteq Representable(LongMax)

StringsOutlived(a, offset) ==
    LET trimmed == Timespec(a.tv_sec, MillisecondsOf(a) * Milli)
    IN /\ a.tv_sec \in Calendar =>
              /\ ToClock(ToStringUtc(a, TRUE)) = trimmed
              /\ ToClock(ToStringLocal(a, offset, TRUE)) = trimmed
       /\ a.tv_sec + offset \in Calendar =>
              ToClock(ToStringLocalDateAndTime(a, offset)).tv_sec = a.tv_sec + offset

ClocksAgree(a, b) ==
    LET m == Nanoseconds(a)
        n == Nanoseconds(b)
    IN /\ SumsFit(a, b) =>
              /\ Nanoseconds(Add(a, b)) = m + n /\ Normalised(Add(a, b))
              /\ Nanoseconds(Subtract(a, b)) = m - n /\ Normalised(Subtract(a, b))
       /\ Less(a, b) <=> m < n
       /\ Greater(a, b) <=> m > n
       /\ LessEqual(a, b) <=> m <= n
       /\ GreaterEqual(a, b) <=> m >= n
       /\ Equal(a, b) <=> m = n
       /\ IsZero(a) <=> m = 0
       /\ StringsOutlived(a, b.tv_sec)

(* Durations and clocks: sums and differences that time_t has room for are    *)
(* exact and normalised, the order is that of the instants, and a clock of a  *)
(* year with four digits outlives its string up to its milliseconds, in UTC;  *)
(* with a local date and time it does not (the operators of time.cpp,         *)
(* to_string_utc(), to_string_local_date_and_time(), to_clock()).             *)
ClocksAreExact == call.function = "clock" => ClocksAgree(call.a, call.b)

(* Within a nanosecond of the fraction, cut off towards zero.                 *)
NearNanoseconds(t, fraction) == Abs(Nanoseconds(t) - Truncated(fraction)) <= 1

MultipliedNear(t, x) ==
    AtMost(AbsOf(Times(Whole(t.tv_nsec), x)), Whole(Precision)) =>
        /\ Normalised(Multiply(t, x))
        /\ x[2] = 1 => Nanoseconds(Multiply(t, x)) = Nanoseconds(t) * x[1]

DividedNear(t, x) ==
    LET exact == Over(Whole(t.tv_sec * Second), x)
    IN x[1] # 0 /\ AtMost(AbsOf(exact), Whole(Precision)) =>
           /\ NearNanoseconds(Divide(t, x), exact)
           /\ t.tv_sec >= 0 /\ x[1] > 0 => Normalised(Divide(t, x))

MadeNear(x) ==
    LET exact == Times(x, Whole(Second))
    IN x[1] >= 0 /\ AtMost(exact, Whole(Precision)) =>
           /\ NearNanoseconds(DurationOfDouble(Round(x)), exact)
           /\ Normalised(DurationOfDouble(Round(x)))

(* Durations in floating point: a whole factor is exact, and any leaves the   *)
(* nanoseconds normalised, as long as their product is exact (2^53); the      *)
(* whole seconds of a duration are divided, and a duration is made of a       *)
(* number of seconds, to the nanosecond before or behind, for up to 2^53 of   *)
(* them (operator*, operator/, Duration(double)).                             *)
ClocksAreNear ==
    call.function = "clock" =>
        /\ MultipliedNear(call.a, Round(call.x))
        /\ DividedNear(call.a, Round(call.x))
        /\ MadeNear(call.x)

ComparisonsAgree(a, b, epsilon) ==
    LET equal == ApproximatelyEqual(a, b, epsilon)
        less == DefinitelyLessThan(a, b, epsilon)
        greater == DefinitelyGreaterThan(a, b, epsilon)
    IN /\ equal \/ less \/ greater
       /\ ~(equal /\ less) /\ ~(equal /\ greater) /\ ~(less /\ greater)
       /\ EssentiallyEqual(a, b, epsilon) => equal
       /\ less => LessThan(a, b)

FractionsRound(a, b) ==
    /\ 2 * Abs(a[1]) <= Precision => 2 * Abs(FractionToInteger(a) * a[2] - a[1]) <= a[2]
    /\ FractionLessEqual(a, b) => AtMost(FractionToDouble(a), FractionToDouble(b))
    /\ LessThan(FractionToDouble(a), FractionToDouble(b)) => FractionLess(a, b)
    /\ FractionEqual(a, b) => FractionToInteger(a) = FractionToInteger(b)

FoundNear(x, tolerance) ==
    LET found == ToFraction(x, tolerance, 4)
    IN found # <<>> => found[2] # 0
           /\ LessThan(Minus(AbsOf(Minus(x, Over(Whole(found[1]), Whole(found[2])))), tolerance),
                       <<1, Precision>>)

(* Numbers in floating point: the comparisons with a tolerance exclude each   *)
(* other and agree with the exact order, a fraction is rounded to the nearest *)
(* integer as long as twice its numerator is exact (2^53), the order of       *)
(* fractions is that of the numbers they become, and what to_fraction() finds *)
(* is as near as it was asked to be, up to the rounding of a number below one *)
(* (approximately_equal() and the others, Fraction, to_fraction()).           *)
FractionsAreNear ==
    call.function = "ratio" =>
        /\ ComparisonsAgree(Round(call.a), Round(call.b), <<1, 8>>)
        /\ FractionsRound(call.a, call.b)
        /\ FoundNear(Round(call.a), <<1, 8>>)


FactorsUndone(n, f, largest) ==
    LET value == n * f[2]
    IN f[1] # 0 /\ {value, value * f[1]} \subseteq Representable(largest) =>
           UNION {RatioDividedByFraction(v, f, largest) : v \in RatioTimesFraction(value, f, largest)}
               = {value}

RatiosConvert(value, from, to, largest) ==
    LET n == value * from[1] * to[2]
        d == from[2] * to[1]
        f == Factor(from, to)
    IN {value, value * f[1], f[1], f[2]} \subseteq Representable(largest) =>
           /\ RatioTo(value, from, to, largest) = {Quotient(n, d)}
           /\ n % d = 0 => RatioTo(Quotient(n, d), to, from, largest) = {value}

DurationsConvert(n, ratio) ==
    /\ Second % ratio[2] = 0 /\ Second * ratio[1] <= LongMax
    /\ n * Second * ratio[1] <= LongMax * ratio[2]
    => UNION {DurationTo(t, ratio, LongMax) : t \in DurationOf(n, ratio)} = {n}

(* Ratios: a value goes to another ratio rounded once, and back when nothing  *)
(* was cut off, if it, the ratio of the ratios and their product are of the   *)
(* type it goes to; multiplied by a fraction, and then divided by it, it is   *)
(* the same, if the product is of the type; and ticks that are fewer          *)
(* nanoseconds than std::int64_t has become a duration and the same ticks     *)
(* again (RatioValue::to(), operator*, operator/, Duration(), to()).          *)
RatiosAreExact ==
    call.function = "ratio" =>
        /\ RatiosConvert(call.a[1], call.from, call.to, call.largest)
        /\ FactorsUndone(Abs(call.a[1]), call.b, call.largest)
        /\ DurationsConvert(Abs(call.a[1]), call.from)
        /\ Clamp(call.a[1], -1, call.b[2]) \in -1 .. call.b[2]

MapOf(keys) == [k \in 1..Cardinality(keys) |-> <<Sorted(keys)[k], "old">>]

SetsAdd(lhs, rhs) ==
    LET both == MakeIntersection(lhs, rhs)
    IN /\ IsInjective(both)
       /\ ToSet(both) = {value \in ToSet(lhs) : ContainsValue(rhs, value)}
       /\ Len(both) + Len(MakeComplement(lhs, rhs)) = Len(MakeUnion(lhs, rhs))

ValueIsReplaced(keys, key, others) ==
    LET map == MapOf(keys)
        replaced == ReplaceValue(map, key, "new").map
    IN /\ \A j, k \in 1..Len(replaced) : j < k => replaced[j][1] < replaced[k][1]
       /\ ContainsPair(replaced, <<key, "new">>)
       /\ \A k \in keys \cup others :
             FindOrDefault(replaced, k, "none") =
                 IF k = key THEN "new" ELSE IF ContainsKey(map, k) THEN "old" ELSE "none"

(* Containers: union, intersection and complement have each value once and    *)
(* add up; a map that had a value replaced is still ordered by its keys, and  *)
(* gives that value for its key and the old one for any other (make_union()   *)
(* and the others, replace(), find_or_default(), contains()).                 *)
SetsAgree ==
    call.function = "container" =>
        /\ SetsAdd(call.lhs, call.rhs)
        /\ \A key \in ToSet(call.rhs) : ValueIsReplaced(ToSet(call.lhs), key, ToSet(call.rhs))

(* What follows an option that takes a value and has none behind "=".         *)
Consumed(usage, argv) ==
    LET takesNext(i) == /\ argv[i].dashes > 0 /\ argv[i].value = NoValue
                        /\ \E k \in 1..Len(usage.options) :
                              Match(usage.options, argv[i]) = k /\ usage.options[k].takes
        consumed[i \in 0..Len(argv)] == i > 1 /\ ~consumed[i - 1] /\ takesNext(i - 1)
    IN consumed

(* Where the option k is given in front of an argument.                       *)
Given(usage, argv, end, k) ==
    {i \in 1 .. end - 1 : ~Consumed(usage, argv)[i] /\ argv[i].dashes > 0
                              /\ Match(usage.options, argv[i]) = k}

ValueAt(argv, i) == IF argv[i].value # NoValue THEN argv[i].value ELSE argv[i + 1].text

OptionIsRead(usage, argv, state, k) ==
    LET option == usage.options[k]
        given == Given(usage, argv, state.i, k)
        value == GetValue(usage, state, {option})
    IN /\ Has(usage, state, {option}) <=> given # {}
       /\ given = {} \/ ~option.takes => value = option.default
       /\ given # {} /\ option.takes => value = ValueAt(argv, Max(given))

CommandLineIsRead(usage, argv) ==
    LET options == usage.options
        state == ParseUsage(usage, argv)
    IN state.error = "none" =>
        /\ state.arguments = SubSeq(argv, state.i, Len(argv))
        /\ state.i <= Len(argv) => argv[state.i].dashes = 0
        /\ \A k \in 1..Len(options) :
              (\A j \in 1 .. k - 1 : options[j] # options[k]) => OptionIsRead(usage, argv, state, k)
        /\ \A k \in 1..Len(usage.arguments) :
              ~HasArgument(state, k) =>
                  \E shown \in ToSet(ArgumentsShown(usage)) :
                      shown.name = usage.arguments[k].name /\ shown.open > 0

(* Usage: when a command line is accepted, no argument of it is lost, every   *)
(* option that is set was there, its value is the one behind "=" or else the  *)
(* argument that follows, and the arguments that are required are there; of   *)
(* equal options the first one is read (Usage::parse(), has(), get()).        *)
UsageReadsArguments == call.function = "usage" => CommandLineIsRead(call.usage, call.argv)
=============================================================================
