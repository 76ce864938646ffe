----------------------------- MODULE ValuesProofs -----------------------------
(***************************************************************************)
(* Proofs about Values: the parts of hlib without threads, each of them for  *)
(* every argument it can be called with.                                     *)
(***************************************************************************)
EXTENDS Values, SerialProofs, FiniteSetTheorems

(* The buffers belong to one part, and the other parts leave them alone.      *)
BufferPartInv == part = "buffer" => BufferInv

LEMMA BufferPartInitial == Init => BufferPartInv
  BY BufferInitial DEF Init, BufferPartInv

LEMMA BufferPartStep == BufferPartInv /\ [Next]_values_vars => BufferPartInv'
  <1> SUFFICES ASSUME BufferPartInv, [Next]_values_vars, part' = "buffer"
               PROVE  BufferInv'
    BY DEF BufferPartInv
  <1>1. part = "buffer"
    BY DEF Next, values_vars
  <1>2. BufferInv
    BY <1>1 DEF BufferPartInv
  <1>3. CASE BufferNext
    BY <1>2, <1>3, BufferStep
  <1>4. CASE UNCHANGED <<buffer, other>>
    BY <1>2, <1>4 DEF BufferInv, Allocated, Fits, Capacity
  <1>5. BufferNext \/ UNCHANGED <<buffer, other>>
    BY <1>1 DEF Next, values_vars
  <1> QED
    BY <1>3, <1>4, <1>5

(* However often bytes are inserted, erased, copied and moved between two     *)
(* buffers, and whichever allocations fail, no buffer claims bytes it has no  *)
(* memory for or takes more than its maximum, and each operation does to its  *)
(* content what it would do to a sequence (insert(), erase(), extract(),      *)
(* resize(), extend() and the moves, over realloc()).                         *)
THEOREM BuffersStaySequences == Spec => []BuffersAreSequences
  <1>1. BufferPartInv => BuffersAreSequences
    BY BuffersBehave DEF BufferPartInv, BuffersAreSequences
  <1> QED
    BY BufferPartInitial, BufferPartStep, <1>1, PTL DEF Spec

-----------------------------------------------------------------------------
(* Conversions.                                                               *)
LEMMA LimitsOrdered ==
    ASSUME NEW type \in Type
    PROVE  /\ Lowest(type) \in Int /\ Highest(type) \in Nat /\ Lowest(type) <= 0
           /\ Highest(Long(FALSE)) \in Nat /\ Highest(Long(TRUE)) \in Nat
           /\ Lowest(Long(TRUE)) = -Highest(Long(TRUE)) - 1
           /\ type.kind = "integer" =>
                  /\ Highest(type) <= Highest(Long(type.signed))
                  /\ type.size \in {8, 16} => Highest(type) < Highest(Long(type.signed))
                  /\ type.signed => Lowest(type) = -Highest(type) - 1
                  /\ ~type.signed => Lowest(type) = 0
  <1> DEFINE half(size) == Width[size] \div 2
  <1>1. \A size \in {8, 16, 32, 64} :
            Width[size] \in Nat /\ half(size) \in Nat \ {0} /\ Width[size] = 2 * half(size)
    BY WidthsAreValid
  <1> HIDE DEF half
  <1>2. /\ half(8) < half(16) /\ half(16) < half(32) /\ half(32) < half(64)
    BY <1>1, WidthsAreValid
  <1>3. ASSUME NEW t, t.size \in {8, 16, 32, 64}
        PROVE  Highest(t) = IF t.signed THEN half(t.size) - 1 ELSE 2 * half(t.size) - 1
    <2>1. Width[t.size] = 2 * half(t.size) /\ Width[t.size] \div 2 = half(t.size)
      BY <1>1, <1>3 DEF half
    <2> QED
      BY <2>1 DEF Highest
  <1>4. \A signed \in BOOLEAN :
            Long(signed).size = 64 /\ Long(signed).signed = signed /\ Long(signed).kind = "integer"
    BY DEF Long
  <1>5. type.size \in {8, 16, 32, 64} /\ type.signed \in BOOLEAN
    BY DEF Type
  <1> DEFINE size == type.size
  <1>6. /\ Highest(type) = IF type.signed THEN half(size) - 1 ELSE 2 * half(size) - 1
        /\ Highest(Long(TRUE)) = half(64) - 1 /\ Highest(Long(FALSE)) = 2 * half(64) - 1
    <2>1. Highest(type) = IF type.signed THEN half(size) - 1 ELSE 2 * half(size) - 1
      BY <1>3, <1>5
    <2>2. Width[64] \div 2 = half(64) /\ Width[64] = 2 * half(64)
      BY <1>1 DEF half
    <2>3. Highest(Long(TRUE)) = Width[64] \div 2 - 1 /\ Highest(Long(FALSE)) = Width[64] - 1
      BY Zenon DEF Highest, Long
    <2> QED
      BY <2>1, <2>2, <2>3
  <1>7. /\ Lowest(Long(TRUE)) = -Highest(Long(TRUE)) - 1
        /\ type.kind = "integer" /\ type.signed => Lowest(type) = -Highest(type) - 1
        /\ ~type.signed => Lowest(type) = 0
        /\ Lowest(type) \in {0, -Highest(type), -Highest(type) - 1}
    BY <1>4, <1>5 DEF Lowest
  <1>8. size \in {8, 16, 32, 64} /\ half(size) <= half(64) /\ half(size) \in Nat \ {0}
        /\ (size \in {8, 16} => half(size) < half(64)) /\ half(64) \in Nat \ {0}
    BY <1>1, <1>2, <1>5
  <1> HIDE DEF size
  <1>9. /\ Highest(type) \in Nat /\ Highest(Long(FALSE)) \in Nat /\ Highest(Long(TRUE)) \in Nat
        /\ Highest(type) <= Highest(Long(type.signed))
        /\ size \in {8, 16} => Highest(type) < Highest(Long(type.signed))
    <2> DEFINE high == Highest(type)
               long == Highest(Long(TRUE))
               ulong == Highest(Long(FALSE))
               limit == Highest(Long(type.signed))
    <2>1. limit = IF type.signed THEN long ELSE ulong
      BY <1>5
    <2>2. high = (IF type.signed THEN half(size) - 1 ELSE 2 * half(size) - 1)
          /\ long = half(64) - 1 /\ ulong = 2 * half(64) - 1
      BY <1>6
    <2> HIDE DEF high, long, ulong, limit
    <2>3. high \in Nat /\ long \in Nat /\ ulong \in Nat /\ high <= limit
          /\ (size \in {8, 16} => high < limit)
      BY <2>1, <2>2, <1>8
    <2> QED
      BY <2>3 DEF high, long, ulong, limit
  <1>10. Lowest(type) \in Int /\ Lowest(type) <= 0
    BY <1>7, <1>9
  <1> QED
    BY <1>7, <1>9, <1>10 DEF size
AnyText == [word : Spelling, space : BOOLEAN, behind : Following, n : Int]

(* strtol() and strtoul(): clamped, or negated modulo the width of long.      *)
LEMMA StrtoOfLong ==
    ASSUME NEW text \in AnyText, NEW type \in Type, type.kind = "integer"
    PROVE  /\ ~Overflows(NumberRead(text), type) => Strto(NumberRead(text), type) = Spelled(text, type)
           /\ Overflows(NumberRead(text), type) =>
                  /\ \/ Strto(NumberRead(text), type) = Highest(Long(type.signed))
                     \/ type.signed /\ Strto(NumberRead(text), type) = Lowest(Long(TRUE))
                  /\ Spelled(text, type) \notin Lowest(type) .. Highest(type)
           /\ Strto(NumberRead(text), type) \in Int
  <1> DEFINE n == NumberRead(text)
             low == Lowest(type)
             high == Highest(type)
             long == Highest(Long(TRUE))
             ulong == Highest(Long(FALSE))
             least == Lowest(Long(TRUE))
  <1>1. n \in Int /\ type.signed \in BOOLEAN
    <2>1. text.n \in Int
      BY DEF AnyText
    <2>2. type.signed \in BOOLEAN
      BY DEF Type
    <2> QED
      BY <2>1, <2>2 DEF NumberRead
  <1>2. /\ low \in Int /\ high \in Nat /\ low <= 0 /\ ulong \in Nat /\ long \in Nat
        /\ least = -long - 1
    BY LimitsOrdered
  <1>3. /\ type.signed => high <= long /\ low = -high - 1
        /\ ~type.signed => high <= ulong /\ low = 0
    BY LimitsOrdered, <1>1
  <1>4. CASE type.signed
    <2>1. /\ Strto(n, type) = Limit(n, least, long) /\ Spelled(text, type) = n
          /\ Overflows(n, type) <=> n \notin least .. long
          /\ Long(type.signed) = Long(TRUE)
      BY <1>1, <1>4 DEF Strto, Spelled, Overflows
    <2> HIDE DEF n, low, high, long, least
    <2>2. /\ n \in least .. long => Limit(n, least, long) = n
          /\ n \notin least .. long => Limit(n, least, long) \in {least, long} /\ n \notin low .. high
          /\ Limit(n, least, long) \in Int
      BY <1>1, <1>2, <1>3, <1>4 DEF Limit
    <2> QED
      BY <1>4, <2>1, <2>2 DEF n, low, high, long, least
  <1>5. CASE ~type.signed
    <2>1. /\ Strto(n, type) = IF n \in -ulong .. -1 THEN n + ulong + 1
                               ELSE IF n \in 0 .. ulong THEN n ELSE ulong
          /\ Spelled(text, type) = IF n < 0 /\ n >= -ulong THEN n + ulong + 1 ELSE n
          /\ Overflows(n, type) <=> n \notin -ulong .. ulong
          /\ Long(type.signed) = Long(FALSE)
      BY <1>1, <1>5 DEF Strto, Spelled, Overflows
    <2> DEFINE converted == Strto(n, type)
               spelled == Spelled(text, type)
    <2> HIDE DEF n, low, high, ulong, converted, spelled
    <2>2. /\ n \in -ulong .. ulong => converted = spelled
          /\ n \notin -ulong .. ulong => converted = ulong /\ spelled \notin low .. high
          /\ converted \in Int
      BY <1>1, <1>2, <1>3, <1>5, <2>1 DEF converted, spelled
    <2> QED
      BY <1>5, <2>1, <2>2 DEF n, low, high, ulong, converted, spelled
  <1> QED
    BY <1>4, <1>5

(* Neither a result clamped to the limits of long nor an errno left by an     *)
(* earlier conversion is taken for a number.                                  *)
LEMMA ToIntegerIsExact ==
    ASSUME NEW text \in AnyText, NEW type \in Type, type.kind = "integer"
    PROVE  LET n == Spelled(text, type)
           IN IF Parsed(text) /\ n \in Lowest(type) .. Highest(type)
              THEN ToInteger(text, type) = Value(n)
              ELSE ToInteger(text, type) \in {Invalid, OutOfRange}
  <1> DEFINE n == Spelled(text, type)
             r == Strto(NumberRead(text), type)
             low == Lowest(type)
             high == Highest(type)
             clamped == \/ r = Highest(Long(type.signed))
                        \/ type.signed /\ r = Lowest(Long(TRUE))
             wide == type.size \in {32, 64}
             overflow == Overflows(NumberRead(text), type)
  <1>1. CASE ~Parsed(text)
    BY <1>1 DEF ToInteger
  <1>2. CASE Parsed(text)
    <2>1. wide => (ErrnoAfter(text, type) = "ERANGE" <=> overflow)
      BY <1>2 DEF Parsed, ErrnoAfter, ErrnoBefore, Underflows
    <2>2. ToInteger(text, type) =
              IF r \notin low .. high \/ (wide /\ clamped /\ overflow) THEN OutOfRange ELSE Value(r)
      BY <1>2, <2>1 DEF ToInteger
    <2>3. /\ ~overflow => r = n
          /\ overflow => clamped /\ n \notin low .. high
      BY StrtoOfLong
    <2>4. overflow /\ ~wide => r \notin low .. high
      <3> DEFINE limit == Highest(Long(type.signed))
                 long == Highest(Long(TRUE))
                 least == Lowest(Long(TRUE))
      <3>1. /\ low \in Int /\ high \in Nat /\ limit \in Nat /\ long \in Nat
            /\ least = -long - 1
            /\ ~wide => high < limit
            /\ type.signed => low = -high - 1 /\ limit = long
        BY LimitsOrdered DEF Type
      <3>2. overflow => r = limit \/ (type.signed /\ r = least)
        BY <2>3
      <3> HIDE DEF r, low, high, limit, long, least, overflow, wide
      <3> QED
        BY <3>1, <3>2
    <2> HIDE DEF n, r, low, high, clamped, wide, overflow
    <2>5. IF n \in low .. high THEN ToInteger(text, type) = Value(n)
          ELSE ToInteger(text, type) \in {Invalid, OutOfRange}
      BY <2>2, <2>3, <2>4, Zenon
    <2> QED
      BY <1>2, <2>5 DEF n, low, high
  <1> QED
    BY <1>1, <1>2
(* A number of the type is the nearest one to itself, and there is a nearest  *)
(* one to every other.                                                        *)
LEMMA NearestIs ==
    ASSUME NEW n \in Int, NEW numbers \in SUBSET Int, numbers # {}
    PROVE  /\ Nearest(n, numbers) \in numbers
           /\ \A y \in numbers : Distance(n, Nearest(n, numbers)) <= Distance(n, y)
           /\ n \in numbers => Nearest(n, numbers) = n
  <1>1. \A x \in Int : Distance(n, x) \in Nat /\ (Distance(n, x) = 0 <=> x = n)
    BY DEF Distance
  <1> DEFINE T == {Distance(n, y) : y \in numbers}
  <1>2. T \in SUBSET Nat /\ T # {}
    BY <1>1
  <1>3. Min(T) \in T /\ \A d \in T : Min(T) <= d
    BY <1>2, SmallestIn
  <1>4. PICK x \in numbers : Distance(n, x) = Min(T)
    BY <1>3
  <1>5. \A y \in numbers : Distance(n, x) <= Distance(n, y)
    BY <1>3, <1>4
  <1>6. /\ Nearest(n, numbers) \in numbers
        /\ \A y \in numbers : Distance(n, Nearest(n, numbers)) <= Distance(n, y)
    BY <1>5 DEF Nearest
  <1>7. ASSUME n \in numbers PROVE Nearest(n, numbers) = n
    <2>1. /\ Distance(n, Nearest(n, numbers)) <= Distance(n, n) /\ Distance(n, n) = 0
          /\ Distance(n, Nearest(n, numbers)) \in Nat
      BY <1>1, <1>6, <1>7
    <2>2. Distance(n, Nearest(n, numbers)) = 0
      BY <2>1
    <2>3. Nearest(n, numbers) \in Int
      BY <1>6
    <2> QED
      BY <1>1, <2>2, <2>3
  <1> QED
    BY <1>6, <1>7
FloatIsNearest(n, numbers, x) ==
    /\ x \in numbers /\ \A y \in numbers : Distance(n, x) <= Distance(n, y)
    /\ n \in numbers => x = n
FloatFits(text, type) ==
    /\ Parsed(text)
    /\ ~Overflows(NumberRead(text), type) /\ ~Underflows(NumberRead(text), type)
LEMMA ToFloatIsNearest ==
    ASSUME NEW text \in AnyText, NEW type \in Type, type.kind = "float"
    PROVE  LET x == Nearest(NumberRead(text), Format[type.size].numbers)
           IN /\ ToFloat(text, type) \in {Invalid, OutOfRange, Value(x)}
              /\ ToFloat(text, type) = Value(x) =>
                     FloatFits(text, type)
                     /\ FloatIsNearest(NumberRead(text), Format[type.size].numbers, x)
              /\ FloatFits(text, type) /\ ToFloat(text, type) # Value(x) =>
                     ErrnoAfter(text, type) = "ERANGE"
  <1> DEFINE n == NumberRead(text)
             numbers == Format[type.size].numbers
             x == Nearest(n, numbers)
             after == ErrnoAfter(text, type)
             ranged == ~Overflows(n, type) /\ ~Underflows(n, type)
  <1>1. n \in Int
    <2>1. text.n \in Int
      BY DEF AnyText
    <2> QED
      BY <2>1 DEF NumberRead
  <1>2. numbers \in SUBSET Int /\ numbers # {}
    BY FormatsAreValid DEF Type
  <1>3. FloatIsNearest(n, numbers, x)
    <2> HIDE DEF n, numbers
    <2> QED
      BY <1>1, <1>2, NearestIs DEF FloatIsNearest
  <1>4. Invalid # Value(x) /\ OutOfRange # Value(x)
    BY DEF Invalid, OutOfRange, Value
  <1>5. ToFloat(text, type) = IF ~Parsed(text) THEN Invalid
                              ELSE IF after = "ERANGE" THEN OutOfRange ELSE Value(x)
    BY DEF ToFloat, Strto
  <1>6. Parsed(text) /\ ~ranged => after = "ERANGE"
    BY DEF ErrnoAfter, Parsed
  <1>7. FloatFits(text, type) <=> Parsed(text) /\ ranged
    BY DEF FloatFits
  <1> HIDE DEF x, after, ranged
  <1>8. /\ ToFloat(text, type) \in {Invalid, OutOfRange, Value(x)}
        /\ ToFloat(text, type) = Value(x) => Parsed(text) /\ ranged
        /\ Parsed(text) /\ ranged /\ ToFloat(text, type) # Value(x) => after = "ERANGE"
    BY <1>4, <1>5, <1>6, Zenon
  <1> QED
    BY <1>3, <1>7, <1>8, Zenon DEF x, after, n, numbers
LEMMA ConvertIsExact ==
    ASSUME NEW text \in AnyText, NEW type \in Type, NEW throws \in BOOLEAN,
           Convert(text, type, throws)
    PROVE  NumbersAreExact'
  <1> DEFINE found == StringTo(text, type)
             result == IF throws THEN found ELSE Nothrow(found)
             valueless == {Invalid, OutOfRange, [outcome |-> "nullopt"]}
  <1>1. /\ errno' = ErrnoAfter(text, type)
        /\ call' = [function |-> "string_to", text |-> text, type |-> type, result |-> result]
    BY DEF Convert
  <1>2. call'.text = text /\ call'.type = type /\ call'.result = result
    BY <1>1
  <1> HIDE DEF result, found, valueless
  <1>3. \A r \in valueless : r.outcome # "value"
    BY DEF valueless, Invalid, OutOfRange
  <1>4. \A n : Value(n).outcome = "value"
    BY DEF Value
  <1>5. /\ \A n : found = Value(n) => result = Value(n)
        /\ found \in {Invalid, OutOfRange} => result \in valueless
    BY <1>4, Invalid.outcome # "value", OutOfRange.outcome # "value"
       DEF result, valueless, Nothrow, Invalid, OutOfRange
  <1>6. CASE type.kind = "integer"
    <2> DEFINE n == Spelled(text, type)
               fits == Parsed(text) /\ n \in Lowest(type) .. Highest(type)
    <2>1. IF fits THEN found = Value(n) ELSE found \in {Invalid, OutOfRange}
      BY <1>6, ToIntegerIsExact DEF found, StringTo
    <2>2. IntegersAreExact' <=> IF fits THEN result = Value(n) ELSE result.outcome # "value"
      BY <1>2 DEF IntegersAreExact
    <2> HIDE DEF fits
    <2>3. IntegersAreExact'
      BY <2>1, <2>2, <1>3, <1>5
    <2> QED
      BY <1>2, <1>6, <2>3 DEF NumbersAreExact
  <1>7. CASE type.kind = "float"
    <2> DEFINE n == NumberRead(text)
               numbers == Format[type.size].numbers
               x == Nearest(n, numbers)
               fits == FloatFits(text, type)
               nearest(y) == FloatIsNearest(n, numbers, y)
    <2>1. /\ found \in {Invalid, OutOfRange, Value(x)}
          /\ found = Value(x) => fits /\ nearest(x)
          /\ fits /\ found # Value(x) => errno' = "ERANGE"
      BY <1>1, <1>7, ToFloatIsNearest DEF found, StringTo
    <2>2. FloatsAreNearest' <=> IF result.outcome = "value" THEN fits /\ nearest(result.value)
                                ELSE fits => errno' = "ERANGE"
      BY <1>2 DEF FloatsAreNearest, FloatIsNearest, FloatFits
    <2>3. Value(x).value = x /\ Value(x).outcome = "value"
      BY DEF Value
    <2> HIDE DEF fits, x, nearest
    <2>4. FloatsAreNearest'
      <3>1. CASE found = Value(x)
        BY <2>1, <2>2, <2>3, <1>5, <3>1
      <3>2. CASE found # Value(x)
        BY <2>1, <2>2, <1>3, <1>5, <3>2
      <3> QED
        BY <3>1, <3>2
    <2> QED
      BY <1>2, <1>7, <2>4 DEF NumbersAreExact
  <1>8. CASE type.kind = "bool"
    BY <1>2, <1>8 DEF NumbersAreExact
  <1> QED
    BY <1>6, <1>7, <1>8 DEF Type

LEMMA NumbersInitial == Init => NumbersAreExact
  BY DEF Init, NoCall, NumbersAreExact

LEMMA NumbersStep == NumbersAreExact /\ [Next]_values_vars => NumbersAreExact'
  <1> SUFFICES ASSUME NumbersAreExact, [Next]_values_vars
               PROVE  NumbersAreExact'
    OBVIOUS
  <1>1. CASE CallConversion
    <2>1. PICK text \in Texts, type \in Types, throws \in BOOLEAN : Convert(text, type, throws)
      BY <1>1 DEF CallConversion
    <2>2. text \in AnyText /\ type \in Type
      BY ArgumentsAreValid DEF AnyText
    <2> QED
      BY <2>1, <2>2, ConvertIsExact
  <1>2. CASE CallFunction
    <2>1. call'.function # "string_to"
      BY <1>2 DEF CallFunction, CallText, CallBase64, CallUri, CallClock, CallRatio,
                  CallContainer, CallUsage, Call
    <2> QED
      BY <2>1 DEF NumbersAreExact
  <1>3. CASE Return
    BY <1>3 DEF Return, NoCall, NumbersAreExact
  <1>4. CASE UNCHANGED <<errno, call>>
    BY <1>4 DEF NumbersAreExact, IntegersAreExact, FloatsAreNearest, Spelled, Parsed, IsEmpty,
                Overflows, Underflows, NumberRead, Distance, Highest, Lowest, Long, Value
  <1> QED
    BY <1>1, <1>2, <1>3, <1>4 DEF Next, values_vars

(* Whatever was converted before on the thread, an integer comes out as the   *)
(* number that is spelled up to a NUL character, at every width and sign,     *)
(* exactly when it fits; a floating-point number that comes out is a nearest  *)
(* one of the type to what is spelled, which neither overflows nor            *)
(* underflows, and such a number is refused only if errno is ERANGE           *)
(* (string_to<T>(), stoi8() ... stof64(), with and without std::nothrow).     *)
THEOREM NumbersStayExact == Spec => []NumbersAreExact
  BY NumbersInitial, NumbersStep, PTL DEF Spec

-----------------------------------------------------------------------------
(* Division that rounds towards zero.                                         *)
LEMMA QuotientOf ==
    ASSUME NEW n \in Nat, NEW d \in Nat \ {0}
    PROVE  /\ Quotient(n, d) = n \div d
           /\ Quotient(-n, -d) = n \div d
           /\ Quotient(-n, d) = -(n \div d)
           /\ Quotient(n, -d) = -(n \div d)
  <1>1. /\ Abs(n) = n /\ Abs(-n) = n /\ Abs(d) = d /\ Abs(-d) = d
    BY DEF Abs
  <1>2. ~(n < 0) /\ ~(d < 0) /\ -d < 0 /\ (-n < 0 \/ (n = 0 /\ -n = 0))
    OBVIOUS
  <1>3. 0 \div d = 0
    BY DivisionIs
  <1>4. Quotient(n, d) = n \div d /\ Quotient(n, -d) = -(n \div d)
    BY <1>1, <1>2 DEF Quotient
  <1>5. CASE n = 0
    BY <1>1, <1>2, <1>3, <1>4, <1>5 DEF Quotient
  <1>6. CASE -n < 0
    BY <1>1, <1>2, <1>4, <1>6 DEF Quotient
  <1> QED
    BY <1>2, <1>5, <1>6

-----------------------------------------------------------------------------
(* Durations and clocks.                                                      *)
Clock == [tv_sec : Int, tv_nsec : 0 .. Second - 1]

LEMMA UnitsOfTime == Second \in Nat /\ Second > 1
  BY UnitsAreValid

LEMMA TimespecIs ==
    ASSUME NEW sec \in Int, NEW nsec \in 0 .. Second - 1, NEW t, t = Timespec(sec, nsec)
    PROVE  Nanoseconds(t) = sec * Second + nsec /\ Normalised(t)
  BY DEF Timespec, Nanoseconds, Normalised

(* A carry and a borrow.                                                      *)
LEMMA AddAndSubtract ==
    ASSUME NEW a \in Clock, NEW b \in Clock
    PROVE  LET m == Nanoseconds(a)
               n == Nanoseconds(b)
           IN /\ Nanoseconds(Add(a, b)) = m + n /\ Normalised(Add(a, b))
              /\ Nanoseconds(Subtract(a, b)) = m - n /\ Normalised(Subtract(a, b))
  <1> DEFINE p == a.tv_sec
             q == b.tv_sec
             i == a.tv_nsec
             j == b.tv_nsec
  <1>1. p \in Int /\ q \in Int /\ i \in 0 .. Second - 1 /\ j \in 0 .. Second - 1
    BY DEF Clock
  <1>2. Second \in Nat
    BY UnitsOfTime
  <1>3. /\ Add(a, b) = IF i + j >= Second THEN Timespec(p + q + 1, i + j - Second)
                       ELSE Timespec(p + q, i + j)
        /\ Subtract(a, b) = IF i - j < 0 THEN Timespec(p - q - 1, i - j + Second)
                            ELSE Timespec(p - q, i - j)
        /\ Nanoseconds(a) = p * Second + i /\ Nanoseconds(b) = q * Second + j
    <2>1. Add(a, b) = IF i + j >= Second THEN Timespec(p + q + 1, i + j - Second)
                      ELSE Timespec(p + q, i + j)
      BY <1>1, <1>2 DEF Add
    <2>2. Subtract(a, b) = IF i - j < 0 THEN Timespec(p - q - 1, i - j + Second)
                           ELSE Timespec(p - q, i - j)
      BY DEF Subtract
    <2>3. Nanoseconds(a) = p * Second + i /\ Nanoseconds(b) = q * Second + j
      BY DEF Nanoseconds
    <2> QED
      BY <2>1, <2>2, <2>3, Zenon
  <1> HIDE DEF p, q, i, j
  <1>5. /\ (p + q) * Second = p * Second + q * Second
        /\ (p + q + 1) * Second = p * Second + q * Second + Second
        /\ (p - q) * Second = p * Second - q * Second
        /\ (p - q - 1) * Second = p * Second - q * Second - Second
        /\ p * Second \in Int /\ q * Second \in Int
    BY <1>1, <1>2
  <1>6. Nanoseconds(Add(a, b)) = Nanoseconds(a) + Nanoseconds(b) /\ Normalised(Add(a, b))
    <2>1. CASE i + j >= Second
      <3> DEFINE sec == p + q + 1
                 nsec == i + j - Second
      <3>1. Add(a, b) = Timespec(sec, nsec)
        BY <1>3, <2>1
      <3>2. sec \in Int /\ nsec \in 0 .. Second - 1
        BY <1>1, <1>2, <2>1
      <3> HIDE DEF sec, nsec
      <3>3. Nanoseconds(Add(a, b)) = sec * Second + nsec /\ Normalised(Add(a, b))
        BY <3>1, <3>2, TimespecIs, Zenon
      <3>4. sec * Second + nsec = (p * Second + i) + (q * Second + j)
        BY <1>1, <1>2, <1>5 DEF sec, nsec
      <3> QED
        BY <3>3, <3>4, <1>3
    <2>2. CASE ~(i + j >= Second)
      <3> DEFINE sec == p + q
                 nsec == i + j
      <3>1. Add(a, b) = Timespec(sec, nsec)
        BY <1>3, <2>2
      <3>2. sec \in Int /\ nsec \in 0 .. Second - 1
        BY <1>1, <1>2, <2>2
      <3> HIDE DEF sec, nsec
      <3>3. Nanoseconds(Add(a, b)) = sec * Second + nsec /\ Normalised(Add(a, b))
        BY <3>1, <3>2, TimespecIs, Zenon
      <3>4. sec * Second + nsec = (p * Second + i) + (q * Second + j)
        BY <1>1, <1>2, <1>5 DEF sec, nsec
      <3> QED
        BY <3>3, <3>4, <1>3
    <2> QED
      BY <2>1, <2>2
  <1>7. Nanoseconds(Subtract(a, b)) = Nanoseconds(a) - Nanoseconds(b) /\ Normalised(Subtract(a, b))
    <2>1. CASE i - j < 0
      <3> DEFINE sec == p - q - 1
                 nsec == i - j + Second
      <3>1. Subtract(a, b) = Timespec(sec, nsec)
        BY <1>3, <2>1
      <3>2. sec \in Int /\ nsec \in 0 .. Second - 1
        BY <1>1, <1>2, <2>1
      <3> HIDE DEF sec, nsec
      <3>3. Nanoseconds(Subtract(a, b)) = sec * Second + nsec /\ Normalised(Subtract(a, b))
        BY <3>1, <3>2, TimespecIs, Zenon
      <3>4. sec * Second + nsec = (p * Second + i) - (q * Second + j)
        BY <1>1, <1>2, <1>5 DEF sec, nsec
      <3> QED
        BY <3>3, <3>4, <1>3
    <2>2. CASE ~(i - j < 0)
      <3> DEFINE sec == p - q
                 nsec == i - j
      <3>1. Subtract(a, b) = Timespec(sec, nsec)
        BY <1>3, <2>2
      <3>2. sec \in Int /\ nsec \in 0 .. Second - 1
        BY <1>1, <1>2, <2>2
      <3> HIDE DEF sec, nsec
      <3>3. Nanoseconds(Subtract(a, b)) = sec * Second + nsec /\ Normalised(Subtract(a, b))
        BY <3>1, <3>2, TimespecIs, Zenon
      <3>4. sec * Second + nsec = (p * Second + i) - (q * Second + j)
        BY <1>1, <1>2, <1>5 DEF sec, nsec
      <3> QED
        BY <3>3, <3>4, <1>3
    <2> QED
      BY <2>1, <2>2
  <1> QED
    BY <1>6, <1>7

(* The order of seconds, then of nanoseconds, is that of the instants.        *)
LEMMA OrderOfClocks ==
    ASSUME NEW a \in Clock, NEW b \in Clock
    PROVE  LET m == Nanoseconds(a)
               n == Nanoseconds(b)
           IN /\ Less(a, b) <=> m < n
              /\ Greater(a, b) <=> m > n
              /\ LessEqual(a, b) <=> m <= n
              /\ GreaterEqual(a, b) <=> m >= n
              /\ Equal(a, b) <=> m = n
              /\ IsZero(a) <=> m = 0
  <1>1. ASSUME NEW s \in Clock, NEW t \in Clock
        PROVE  Nanoseconds(s) \in Int /\ (Less(s, t) => Nanoseconds(s) < Nanoseconds(t))
    <2> DEFINE p == s.tv_sec
               q == t.tv_sec
               i == s.tv_nsec
               j == t.tv_nsec
    <2>1. p \in Int /\ q \in Int /\ i \in 0 .. Second - 1 /\ j \in 0 .. Second - 1
      BY DEF Clock
    <2>2. /\ Nanoseconds(s) = p * Second + i /\ Nanoseconds(t) = q * Second + j
          /\ Less(s, t) <=> p < q \/ (p = q /\ i < j)
      BY DEF Nanoseconds, Less
    <2> HIDE DEF p, q, i, j
    <2>3. (p + 1) * Second = p * Second + Second /\ p * Second \in Int /\ q * Second \in Int
      BY <2>1, UnitsOfTime
    <2>4. p + 1 <= q => (p + 1) * Second <= q * Second
      BY <2>1, UnitsOfTime, ProductGrows
    <2>5. CASE p < q
      BY <2>1, <2>2, <2>3, <2>4, <2>5, UnitsOfTime
    <2>6. CASE ~(p < q)
      BY <2>1, <2>2, <2>3, <2>6, UnitsOfTime
    <2> QED
      BY <2>5, <2>6
  <1> DEFINE m == Nanoseconds(a)
             n == Nanoseconds(b)
  <1>2. m \in Int /\ n \in Int /\ (Less(a, b) => m < n) /\ (Less(b, a) => n < m)
    BY <1>1
  <1>3. /\ Less(a, b) \/ Less(b, a) \/ Equal(a, b)
        /\ Greater(a, b) <=> Less(b, a)
        /\ LessEqual(a, b) <=> ~Greater(a, b)
        /\ GreaterEqual(a, b) <=> ~Less(a, b)
        /\ Equal(a, b) => m = n
    BY DEF Clock, Less, Greater, Equal, LessEqual, GreaterEqual, Nanoseconds
  <1> DEFINE zero == Timespec(0, 0)
  <1>4. zero \in Clock /\ Nanoseconds(zero) = 0 /\ (IsZero(a) <=> Equal(a, zero))
    BY UnitsOfTime DEF Clock, Timespec, Nanoseconds, IsZero, Equal
  <1>5. /\ Less(a, zero) => m < 0
        /\ Less(zero, a) => 0 < m
        /\ Less(a, zero) \/ Less(zero, a) \/ Equal(a, zero)
        /\ Equal(a, zero) => m = 0
    <2>1. Less(a, zero) \/ Less(zero, a) \/ Equal(a, zero)
      BY UnitsOfTime DEF Clock, Timespec, Less, Equal
    <2>2. (Less(a, zero) => m < 0) /\ (Less(zero, a) => 0 < m)
      BY <1>1, <1>4
    <2>3. Equal(a, zero) => m = 0
      BY UnitsOfTime DEF Timespec, Equal, Nanoseconds
    <2> QED
      BY <2>1, <2>2, <2>3
  <1> HIDE DEF m, n, zero
  <1>6. /\ Less(a, b) <=> m < n
        /\ Greater(a, b) <=> m > n
        /\ LessEqual(a, b) <=> m <= n
        /\ GreaterEqual(a, b) <=> m >= n
        /\ Equal(a, b) <=> m = n
        /\ IsZero(a) <=> m = 0
    BY <1>2, <1>3, <1>4, <1>5
  <1> QED
    BY <1>6 DEF m, n

(* The milliseconds that are written are read.                                *)
LEMMA ClockOfString ==
    ASSUME NEW a \in Clock, NEW offset \in Int
    PROVE  LET trimmed == Timespec(a.tv_sec, MillisecondsOf(a) * Milli)
           IN /\ ToClock(ToStringUtc(a, TRUE)) = trimmed
              /\ ToClock(ToStringLocal(a, offset, TRUE)) = trimmed
              /\ ToClock(ToStringLocalDateAndTime(a, offset)).tv_sec = a.tv_sec + offset
  <1> DEFINE msec == MillisecondsOf(a)
  <1>1. msec # NoMilliseconds
    <2>1. Second \in Nat /\ Milli \in Nat \ {0} /\ Second % Milli = 0 /\ Second > Milli
      BY UnitsAreValid
    <2>2. a.tv_nsec \in Int
      BY UnitsOfTime DEF Clock
    <2> DEFINE d == Second \div Milli
               k == a.tv_nsec \div Milli
    <2>3. k \in Int /\ d \in Int /\ Second = d * Milli + (Second % Milli)
      BY <2>1, <2>2, DivisionOf
    <2>4. msec = k % d
      BY DEF MillisecondsOf
    <2> HIDE DEF d, k, msec
    <2>5. d > 0
      BY <2>1, <2>3
    <2>6. k % d \in 0 .. d - 1
      BY <2>3, <2>5, DivisionOf
    <2> QED
      BY <2>3, <2>4, <2>6 DEF NoMilliseconds
  <1> QED
    BY <1>1 DEF ToClock, ToStringUtc, ToStringLocal, ToStringLocalDateAndTime, Timespec

LEMMA ClocksAlwaysAgree ==
    ASSUME NEW a \in Clock, NEW b \in Clock
    PROVE  ClocksAgree(a, b)
  <1>1. b.tv_sec \in Int
    BY DEF Clock
  <1>2. StringsOutlived(a, b.tv_sec)
    BY <1>1, ClockOfString DEF StringsOutlived
  <1> QED
    BY <1>2, AddAndSubtract, OrderOfClocks DEF ClocksAgree

LEMMA FunctionIsCalled ==
    ASSUME [Next]_values_vars, call' # call,
           call'.function \in {"base64", "clock", "container", "ratio", "usage"}
    PROVE  CallFunction
  <1>1. CASE CallConversion
    BY <1>1 DEF CallConversion, Convert
  <1>2. CASE Return
    BY <1>2 DEF Return, NoCall
  <1> QED
    BY <1>1, <1>2 DEF Next, values_vars

LEMMA CallsOfClock ==
    ASSUME [Next]_values_vars, call' # call, call'.function = "clock"
    PROVE  \E a, b \in Clocks, x \in Factors :
               call' = [function |-> "clock", a |-> a, b |-> b, x |-> x]
  BY FunctionIsCalled
     DEF CallFunction, CallText, CallBase64, CallUri, CallClock, CallRatio, CallContainer,
         CallUsage, Call

(* Sums and differences of durations that time_t has room for are exact and   *)
(* normalised, the order is that of the instants, and a clock of a year with  *)
(* four digits outlives its string up to its milliseconds, for all durations  *)
(* and clocks (operator+, operator- and the comparisons of time.cpp,          *)
(* to_string_utc(), to_string_local(), to_clock()).                           *)
THEOREM ClocksStayExact == Spec => []ClocksAreExact
  <1>1. Init => ClocksAreExact
    BY DEF Init, NoCall, ClocksAreExact
  <1>2. ClocksAreExact /\ [Next]_values_vars => ClocksAreExact'
    <2> SUFFICES ASSUME ClocksAreExact, [Next]_values_vars, call'.function = "clock"
                 PROVE  ClocksAgree(call'.a, call'.b)
      BY DEF ClocksAreExact
    <2>1. CASE call' = call
      BY <2>1 DEF ClocksAreExact
    <2>2. CASE call' # call
      <3>1. PICK a \in Clocks, b \in Clocks, x \in Factors :
                call' = [function |-> "clock", a |-> a, b |-> b, x |-> x]
        BY <2>2, CallsOfClock
      <3>2. a \in Clock /\ b \in Clock
        BY ArgumentsAreValid DEF Clock
      <3> QED
        BY <3>1, <3>2, ClocksAlwaysAgree
    <2> QED
      BY <2>1, <2>2
  <1> QED
    BY <1>1, <1>2, PTL DEF Spec

-----------------------------------------------------------------------------
(* Base64.  A whole is its parts, joined one by one.                          *)
Joins(whole, seqs) ==
    whole = [k \in 1 .. Len(seqs) |-> IF k = 1 THEN seqs[k] ELSE whole[k - 1] \o seqs[k]]

LEMMA FlattenIs ==
    ASSUME NEW seqs, Len(seqs) \in Nat \ {0}, NEW whole, Joins(whole, seqs)
    PROVE  FlattenSeq(seqs) = whole[Len(seqs)]
  <1> DEFINE n == Len(seqs)
  <1> DEFINE Rec(f) == f = [k \in 1..n |-> IF k = 1 THEN seqs[k] ELSE f[k - 1] \o seqs[k]]
             f == CHOOSE f : Rec(f)
  <1>0. n \in Nat \ {0} /\ whole = [k \in 1..n |-> IF k = 1 THEN seqs[k] ELSE whole[k - 1] \o seqs[k]]
    BY DEF Joins
  <1> HIDE DEF n
  <1>1. Rec(f)
    <2>1. Rec(whole)
      BY <1>0
    <2> HIDE DEF Rec
    <2> QED
      BY <2>1
  <1>2. FlattenSeq(seqs) = f[n]
    BY <1>0 DEF FlattenSeq, n
  <1> HIDE DEF f
  <1> DEFINE P == {k \in Nat : k + 1 \in 1..n => f[k + 1] = whole[k + 1]}
  <1>3. 0 \in P
    BY <1>0, <1>1
  <1>4. ASSUME NEW k \in Nat, k \in P PROVE k + 1 \in P
    <2> SUFFICES ASSUME k + 2 \in 1..n PROVE f[k + 2] = whole[k + 2]
      OBVIOUS
    <2>1. k + 1 \in 1..n /\ f[k + 1] = whole[k + 1]
      <3>1. k + 1 \in 1..n
        BY <1>0
      <3> QED
        BY <1>4, <3>1
    <2>2. (k + 2) - 1 = k + 1 /\ k + 2 # 1
      OBVIOUS
    <2>3. f[k + 2] = f[k + 1] \o seqs[k + 2] /\ whole[k + 2] = whole[k + 1] \o seqs[k + 2]
      BY <1>0, <1>1, <2>2
    <2> QED
      BY <2>1, <2>3
  <1>5. Nat \subseteq P
    <2> HIDE DEF P
    <2> QED
      BY <1>3, <1>4, Induction
  <1>6. n - 1 \in P /\ (n - 1) + 1 = n /\ n \in 1..n
    <2>1. n - 1 \in Nat /\ (n - 1) + 1 = n /\ n \in 1..n
      BY <1>0
    <2> HIDE DEF P
    <2> QED
      BY <1>5, <2>1
  <1> QED
    BY <1>2, <1>6 DEF n

(* Parts of one size, one behind the other, are the front of the whole.       *)
PartsOf(seqs, s, w) ==
    \A k \in 1 .. Len(seqs) : seqs[k] = SubSeq(s, w * (k - 1) + 1, w * k)

LEMMA FlattenOfParts ==
    ASSUME NEW E, NEW s \in Seq(E), NEW w \in Nat \ {0}, NEW seqs \in Seq(Seq(E)),
           w * Len(seqs) <= Len(s), PartsOf(seqs, s, w)
    PROVE  FlattenSeq(seqs) = SubSeq(s, 1, w * Len(seqs))
  <1> DEFINE n == Len(seqs)
  <1>0. /\ n \in Nat /\ w * n <= Len(s)
        /\ \A k \in 1..n : seqs[k] = SubSeq(s, w * (k - 1) + 1, w * k)
    BY LenProperties DEF PartsOf
  <1> HIDE DEF n
  <1>1. Len(s) \in Nat /\ w * n \in Nat
    BY <1>0, LenProperties
  <1>2. CASE n = 0
    <2>1. seqs = <<>>
      BY <1>2, EmptySeq DEF n
    <2>2. w * n < 1
      BY <1>2
    <2>3. SubSeq(s, 1, w * n) = <<>>
      BY <1>1, <2>2, SubSeqEmpty
    <2> QED
      BY <1>2, <2>1, <2>3 DEF FlattenSeq, n
  <1>3. CASE n # 0
    <2> DEFINE whole == [k \in 1..n |-> SubSeq(s, 1, w * k)]
    <2>1. ASSUME NEW k \in 1..n
          PROVE  whole[k] = IF k = 1 THEN seqs[k] ELSE whole[k - 1] \o seqs[k]
      <3>1. whole[k] = SubSeq(s, 1, w * k)
        OBVIOUS
      <3>2. CASE k = 1
        <4>1. w * (k - 1) + 1 = 1
          BY <3>2
        <4>2. w * 1 = w /\ w * k = w
          BY <3>2
        <4>3. seqs[k] = SubSeq(s, w * (k - 1) + 1, w * k)
          BY <1>0
        <4> QED
          BY <3>1, <3>2, <4>1, <4>3
      <3>3. CASE k # 1
        <4> DEFINE j == k - 1
                   from == w * j
                   to == w * k
        <4>1. j \in Nat /\ j \in 1..n /\ k = j + 1 /\ k <= n /\ k \in Nat
          BY <1>0, <3>3
        <4>2. to = from + w /\ from \in Nat /\ to \in Nat
          <5> HIDE DEF j
          <5> QED
            BY <1>0, <4>1
        <4>3. to <= Len(s)
          <5>1. PICK d \in Nat : n = k + d
            <6>1. n - k \in Nat /\ n = k + (n - k)
              BY <1>0, <4>1
            <6> QED
              BY <6>1
          <5>2. w * n = to + w * d /\ w * d \in Nat
            BY <1>0, <4>1, <5>1
          <5> DEFINE total == w * n
                     rest == w * d
          <5>3. total <= Len(s) /\ total = to + rest /\ rest \in Nat /\ total \in Nat
            BY <1>0, <1>1, <5>2
          <5> HIDE DEF to, total, rest
          <5> QED
            BY <1>1, <4>2, <5>3
        <4>4. whole[j] = SubSeq(s, 1, from) /\ seqs[k] = SubSeq(s, from + 1, to)
          BY <1>0, <4>1
        <4> HIDE DEF from, to, j
        <4>5. 1 \in 1 .. Len(s) + 1 /\ from \in 1 - 1 .. Len(s) /\ to \in from .. Len(s)
          BY <1>1, <4>2, <4>3
        <4>6. SubSeq(s, 1, from) \o SubSeq(s, from + 1, to) = SubSeq(s, 1, to)
          BY <4>5, ConcatAdjacentSubSeq
        <4> QED
          BY <3>1, <3>3, <4>4, <4>6 DEF j, to
      <3> QED
        BY <3>2, <3>3
    <2>2. DOMAIN whole = 1..n /\ n \in Nat \ {0} /\ whole[n] = SubSeq(s, 1, w * n)
      BY <1>0, <1>3
    <2> HIDE DEF whole
    <2>3. Joins(whole, seqs)
      <3>1. whole = [k \in 1..n |-> whole[k]]
        BY <2>2 DEF whole
      <3> QED
        BY <2>1, <3>1 DEF Joins, n
    <2>4. FlattenSeq(seqs) = whole[n]
      BY <2>2, <2>3, FlattenIs DEF n
    <2> QED
      BY <2>2, <2>4 DEF n
  <1> QED
    BY <1>2, <1>3

(* Base64, chunk by chunk.                                                    *)
Octet == 0..255
Sextet == 0..64

LEMMA OneByte ==
    ASSUME NEW x \in Octet
    PROVE  /\ x \div 4 \in 0..63
           /\ (x % 4) * 16 \in 0..63
           /\ (((x \div 4) * 4) % 256) + (((x % 4) * 16) \div 16) = x
  BY DEF Octet

LEMMA SplitBytes ==
    ASSUME NEW x \in Octet, NEW y \in Octet
    PROVE  /\ x \div 4 \in 0..63
           /\ (x % 4) * 16 + (y \div 16) \in 0..63
           /\ (((x \div 4) * 4) % 256) + (((x % 4) * 16 + (y \div 16)) \div 16) = x
           /\ (((x % 4) * 16 + (y \div 16)) % 16) * 16 = (y \div 16) * 16
           /\ (y % 16) * 4 \in 0..63
           /\ ((y \div 16) * 16) + (((y % 16) * 4) \div 4) = y
  BY DEF Octet

LEMMA SplitLast ==
    ASSUME NEW y \in Octet, NEW z \in Octet
    PROVE  /\ (y % 16) * 4 + (z \div 64) \in 0..63
           /\ ((y \div 16) * 16) + (((y % 16) * 4 + (z \div 64)) \div 4) = y
           /\ z % 64 \in 0..63
           /\ (((y % 16) * 4 + (z \div 64)) % 4) * 64 + (z % 64) = z
  BY DEF Octet

LEMMA DecodeCases ==
    ASSUME NEW e \in Seq(Sextet), Len(e) = 4
    PROVE  /\ e[4] # Pad => DecodeLast(e) = Decode4(e)
           /\ e[4] = Pad /\ e[3] # Pad => DecodeLast(e) = Decode3(e)
           /\ e[4] = Pad /\ e[3] = Pad => DecodeLast(e) = Decode2(e)
  BY DEF DecodeLast

LEMMA AppendToOne ==
    ASSUME NEW a, NEW b
    PROVE  Append(<<a>>, b) = <<a, b>>
  <1> DEFINE S == {a, b}
             s == Append(<<a>>, b)
             t == <<a, b>>
  <1>1. /\ <<a>> \in Seq(S) /\ b \in S /\ Len(<<a>>) = 1 /\ <<a>>[1] = a
        /\ t \in Seq(S) /\ Len(t) = 2 /\ t[1] = a /\ t[2] = b
    OBVIOUS
  <1>2. s \in Seq(S) /\ Len(s) = 2 /\ s[1] = a /\ s[2] = b
    BY <1>1, AppendProperties
  <1> HIDE DEF s, t, S
  <1>3. s = t
    <2>1. \A i \in 1 .. Len(s) : s[i] = t[i]
      BY <1>1, <1>2
    <2> QED
      BY <1>1, <1>2, <2>1, SeqEqual
  <1> QED
    BY <1>3 DEF s, t

LEMMA AppendToTwo ==
    ASSUME NEW a, NEW b, NEW d
    PROVE  Append(<<a, b>>, d) = <<a, b, d>>
  <1> DEFINE S == {a, b, d}
             s == Append(<<a, b>>, d)
             t == <<a, b, d>>
  <1>1. /\ <<a, b>> \in Seq(S) /\ d \in S /\ Len(<<a, b>>) = 2
        /\ <<a, b>>[1] = a /\ <<a, b>>[2] = b
        /\ t \in Seq(S) /\ Len(t) = 3 /\ t[1] = a /\ t[2] = b /\ t[3] = d
    OBVIOUS
  <1>2. s \in Seq(S) /\ Len(s) = 3 /\ s[1] = a /\ s[2] = b /\ s[3] = d
    BY <1>1, AppendProperties
  <1> HIDE DEF s, t, S
  <1>3. s = t
    <2>1. \A i \in 1 .. Len(s) : s[i] = t[i]
      BY <1>1, <1>2
    <2> QED
      BY <1>1, <1>2, <2>1, SeqEqual
  <1> QED
    BY <1>3 DEF s, t

(* A chunk of bytes is decoded from its characters.                           *)
Decodes(e, c) ==
    /\ e \in Seq(Sextet) /\ Len(e) = 4
    /\ DecodeLast(e) = c
    /\ Len(c) = 3 => Decode4(e) = c

LEMMA ChunkOfOne ==
    ASSUME NEW c \in Seq(Octet), Len(c) = 1
    PROVE  Decodes(EncodeChunk(c), c)
  <1> DEFINE x == c[1]
             p == x \div 4
             q == (x % 4) * 16
             e == EncodeChunk(c)
  <1>1. x \in Octet /\ c = <<x>>
    BY ElementOfSeq
  <1>2. e = <<p, q + 0, Pad, Pad>>
    BY DEF EncodeChunk, Char1, Char2
  <1> HIDE DEF x
  <1>3. p \in 0..63 /\ q \in 0..63 /\ ((p * 4) % 256) + (q \div 16) = x
    BY <1>1, OneByte
  <1> HIDE DEF p, q
  <1>4. /\ e \in Seq(Sextet) /\ Len(e) = 4
        /\ e[1] = p /\ e[2] = q /\ e[3] = Pad /\ e[4] = Pad
    BY <1>2, <1>3 DEF Sextet, Pad
  <1> HIDE DEF e
  <1>5. DecodeLast(e) = Decode2(e)
    BY <1>4, DecodeCases
  <1>6. DecodeChar(p) = p /\ DecodeChar(q) = q
    BY <1>3 DEF DecodeChar, Pad
  <1>7. Decode2(e) = <<x>>
    BY <1>3, <1>4, <1>6 DEF Decode2
  <1> QED
    BY <1>1, <1>4, <1>5, <1>7 DEF Decodes, e

LEMMA ChunkOfTwo ==
    ASSUME NEW c \in Seq(Octet), Len(c) = 2
    PROVE  Decodes(EncodeChunk(c), c)
  <1> DEFINE x == c[1]
             y == c[2]
             p == x \div 4
             q == (x % 4) * 16 + (y \div 16)
             r == (y % 16) * 4
             e == EncodeChunk(c)
  <1>1. x \in Octet /\ y \in Octet /\ c = <<x, y>>
    BY ElementOfSeq
  <1>2. e = <<p, q, r + 0, Pad>>
    BY DEF EncodeChunk, Char1, Char2, Char3
  <1> HIDE DEF x, y
  <1>3. /\ p \in 0..63 /\ q \in 0..63 /\ r \in 0..63
        /\ ((p * 4) % 256) + (q \div 16) = x
        /\ (q % 16) * 16 + (r \div 4) = y
    BY <1>1, SplitBytes
  <1> HIDE DEF p, q, r
  <1>4. /\ e \in Seq(Sextet) /\ Len(e) = 4
        /\ e[1] = p /\ e[2] = q /\ e[3] = r /\ e[4] = Pad /\ r # Pad
    BY <1>2, <1>3 DEF Sextet, Pad
  <1> HIDE DEF e
  <1>5. DecodeLast(e) = Decode3(e)
    BY <1>4, DecodeCases
  <1>6. DecodeChar(p) = p /\ DecodeChar(q) = q /\ DecodeChar(r) = r
    BY <1>3 DEF DecodeChar, Pad
  <1>7. Decode2(e) = <<x>>
    BY <1>3, <1>4, <1>6 DEF Decode2
  <1>8. Decode3(e) = <<x, y>>
    <2>1. Decode3(e) = Append(<<x>>, (q % 16) * 16 + (r \div 4))
      BY <1>4, <1>6, <1>7 DEF Decode3
    <2> QED
      BY <1>3, <2>1, AppendToOne
  <1> QED
    BY <1>1, <1>4, <1>5, <1>8 DEF Decodes, e

LEMMA ChunkOfThree ==
    ASSUME NEW c \in Seq(Octet), Len(c) = 3
    PROVE  Decodes(EncodeChunk(c), c)
  <1> DEFINE x == c[1]
             y == c[2]
             z == c[3]
             p == x \div 4
             q == (x % 4) * 16 + (y \div 16)
             r == (y % 16) * 4 + (z \div 64)
             t == z % 64
             e == EncodeChunk(c)
  <1>1. x \in Octet /\ y \in Octet /\ z \in Octet /\ c = <<x, y, z>>
    <2>1. x \in Octet /\ y \in Octet /\ z \in Octet
      BY ElementOfSeq
    <2>2. c = <<x, y, z>>
      OBVIOUS
    <2> QED
      BY <2>1, <2>2
  <1>2. e = <<p, q, r, t>>
    BY DEF EncodeChunk, Char1, Char2, Char3
  <1> HIDE DEF x, y, z
  <1>3. /\ p \in 0..63 /\ q \in 0..63 /\ r \in 0..63 /\ t \in 0..63
        /\ ((p * 4) % 256) + (q \div 16) = x
        /\ (q % 16) * 16 + (r \div 4) = y
        /\ (r % 4) * 64 + t = z
    BY <1>1, SplitBytes, SplitLast
  <1> HIDE DEF p, q, r, t
  <1>4. /\ e \in Seq(Sextet) /\ Len(e) = 4
        /\ e[1] = p /\ e[2] = q /\ e[3] = r /\ e[4] = t /\ t # Pad
    BY <1>2, <1>3 DEF Sextet, Pad
  <1> HIDE DEF e
  <1>5. DecodeLast(e) = Decode4(e)
    BY <1>4, DecodeCases
  <1>6. DecodeChar(p) = p /\ DecodeChar(q) = q /\ DecodeChar(r) = r /\ DecodeChar(t) = t
    BY <1>3 DEF DecodeChar, Pad
  <1>7. Decode2(e) = <<x>>
    BY <1>3, <1>4, <1>6 DEF Decode2
  <1>8. Decode3(e) = <<x, y>>
    <2>1. Decode3(e) = Append(<<x>>, (q % 16) * 16 + (r \div 4))
      BY <1>4, <1>6, <1>7 DEF Decode3
    <2> QED
      BY <1>3, <2>1, AppendToOne
  <1>9. Decode4(e) = <<x, y, z>>
    <2>1. Decode4(e) = Append(<<x, y>>, (r % 4) * 64 + t)
      BY <1>4, <1>6, <1>8 DEF Decode4
    <2> QED
      BY <1>3, <2>1, AppendToTwo
  <1> QED
    BY <1>1, <1>4, <1>5, <1>9 DEF Decodes, e

LEMMA FourApiece ==
    ASSUME NEW E, NEW n \in Nat, NEW parts \in [1..n -> Seq(E)],
           \A k \in 1..n : Len(parts[k]) = 4
    PROVE  /\ FlattenSeq(parts) \in Seq(E) /\ Len(FlattenSeq(parts)) = 4 * n
           /\ PartsOf(parts, FlattenSeq(parts), 4)
  <1> DEFINE At(i) == parts[(i - 1) \div 4 + 1][((i - 1) % 4) + 1]
             s == [i \in 1 .. 4 * n |-> At(i)]
  <1>1. ASSUME NEW i \in 1 .. 4 * n PROVE At(i) \in E
    <2> DEFINE k == (i - 1) \div 4 + 1
               j == ((i - 1) % 4) + 1
    <2>1. k \in 1..n /\ j \in 1..4
      OBVIOUS
    <2> HIDE DEF k, j
    <2>2. parts[k] \in Seq(E) /\ Len(parts[k]) = 4
      BY <2>1
    <2>3. parts[k][j] \in E
      BY <2>1, <2>2, ElementOfSeq
    <2> QED
      BY <2>3 DEF k, j
  <1>2. s \in Seq(E) /\ Len(s) = 4 * n
    <2> HIDE DEF At
    <2>1. s \in [1 .. 4 * n -> E]
      BY <1>1
    <2>2. 4 * n \in Nat
      OBVIOUS
    <2> QED
      BY <2>1, <2>2
  <1>3. ASSUME NEW k \in 1..n PROVE SubSeq(s, 4 * (k - 1) + 1, 4 * k) = parts[k]
    <2> DEFINE piece == SubSeq(s, 4 * (k - 1) + 1, 4 * k)
    <2>1. parts[k] \in Seq(E) /\ Len(parts[k]) = 4
      OBVIOUS
    <2>2. 4 * (k - 1) + 1 \in 1 .. 4 * n /\ 4 * k \in 1 .. 4 * n /\ 4 * k - (4 * (k - 1) + 1) + 1 = 4
      OBVIOUS
    <2>3. piece \in Seq(E) /\ Len(piece) = 4
      <3> HIDE DEF s
      <3> QED
        BY <1>2, <2>2
    <2>4. ASSUME NEW j \in 1..4 PROVE piece[j] = parts[k][j]
      <3>1. 4 * (k - 1) + j \in 1 .. 4 * n
        OBVIOUS
      <3>2. piece[j] = s[4 * (k - 1) + j]
        <4> HIDE DEF s
        <4> QED
          BY <1>2, <2>2
      <3>3. (4 * (k - 1) + j - 1) \div 4 + 1 = k /\ ((4 * (k - 1) + j - 1) % 4) + 1 = j
        OBVIOUS
      <3>4. s[4 * (k - 1) + j] = At(4 * (k - 1) + j)
        BY <3>1
      <3> QED
        BY <3>2, <3>3, <3>4
    <2> HIDE DEF piece
    <2>5. piece = parts[k]
      BY <2>1, <2>3, <2>4, SeqEqual
    <2> QED
      BY <2>5 DEF piece
  <1> HIDE DEF s
  <1>4. parts \in Seq(Seq(E)) /\ Len(parts) = n
    OBVIOUS
  <1>5. PartsOf(parts, s, 4)
    BY <1>3, <1>4 DEF PartsOf
  <1>6. FlattenSeq(parts) = SubSeq(s, 1, 4 * n)
    <2>1. 4 \in Nat \ {0} /\ 4 * Len(parts) <= Len(s)
      BY <1>2, <1>4
    <2> QED
      BY <1>2, <1>4, <1>5, <2>1, FlattenOfParts
  <1>7. SubSeq(s, 1, 4 * n) = s
    BY <1>2, SubSeqFull
  <1> QED
    BY <1>2, <1>6, <1>7, <1>5

LEMMA PartIs ==
    ASSUME NEW E, NEW s \in Seq(E), NEW i \in 1 .. Len(s), NEW j \in i .. Len(s)
    PROVE  SubSeq(s, i, j) \in Seq(E) /\ Len(SubSeq(s, i, j)) = j - i + 1
  BY LenProperties, SubSeqProperties

(* The chunks of data, and how many of them there are.                        *)
LEMMA ChunksOfData ==
    ASSUME NEW data \in Seq(Octet), Len(data) # 0, NEW n,
           n = EncodedLength(Len(data)) \div 4
    PROVE  /\ n \in Nat \ {0} /\ EncodedLength(Len(data)) = 4 * n
           /\ 3 * (n - 1) < Len(data) /\ Len(data) <= 3 * n
           /\ \A k \in 1..n : Chunk(data, 3, k) \in Seq(Octet)
           /\ \A k \in 1 .. n - 1 : /\ Chunk(data, 3, k) = SubSeq(data, 3 * (k - 1) + 1, 3 * k)
                                    /\ Len(Chunk(data, 3, k)) = 3
           /\ Chunk(data, 3, n) = SubSeq(data, 3 * (n - 1) + 1, Len(data))
           /\ Len(Chunk(data, 3, n)) \in 1..3
  <1> DEFINE size == Len(data)
  <1>1. size \in Nat /\ size # 0
    BY LenProperties
  <1>2. n = (((size + 2) \div 3) * 4) \div 4 /\ EncodedLength(size) = ((size + 2) \div 3) * 4
    BY DEF EncodedLength
  <1>3. ASSUME NEW k \in Int
        PROVE  Chunk(data, 3, k) = SubSeq(data, 3 * (k - 1) + 1, IF 3 * k < size THEN 3 * k ELSE size)
    BY DEF Chunk
  <1> HIDE DEF size
  <1>4. /\ n \in Nat \ {0} /\ EncodedLength(size) = 4 * n
        /\ 3 * (n - 1) < size /\ size <= 3 * n
    BY <1>1, <1>2
  <1>5. ASSUME NEW k \in 1 .. n - 1
        PROVE  /\ Chunk(data, 3, k) = SubSeq(data, 3 * (k - 1) + 1, 3 * k)
               /\ Chunk(data, 3, k) \in Seq(Octet) /\ Len(Chunk(data, 3, k)) = 3
    <2>1. 3 * (k - 1) + 1 \in 1..size /\ 3 * k \in 1..size /\ 3 * k < size
          /\ 3 * k - (3 * (k - 1) + 1) + 1 = 3 /\ k \in Int
      BY <1>1, <1>4
    <2>2. Chunk(data, 3, k) = SubSeq(data, 3 * (k - 1) + 1, 3 * k)
      BY <1>3, <2>1
    <2> DEFINE i == 3 * (k - 1) + 1
               j == 3 * k
    <2>3. i \in 1..size /\ j \in i..size /\ j - i + 1 = 3
      BY <1>1, <2>1
    <2> HIDE DEF i, j
    <2>4. SubSeq(data, i, j) \in Seq(Octet) /\ Len(SubSeq(data, i, j)) = 3
      BY <2>3, PartIs DEF size
    <2> QED
      BY <2>2, <2>4 DEF i, j
  <1>6. /\ Chunk(data, 3, n) = SubSeq(data, 3 * (n - 1) + 1, size)
        /\ Chunk(data, 3, n) \in Seq(Octet) /\ Len(Chunk(data, 3, n)) \in 1..3
    <2>1. 3 * (n - 1) + 1 \in 1..size /\ size \in 1..size /\ ~(3 * n < size)
          /\ size - (3 * (n - 1) + 1) + 1 \in 1..3 /\ n \in Int
      <3> DEFINE t == 3 * n
                 m == 3 * (n - 1)
      <3>1. t \in Int /\ m = t - 3 /\ n \in Int /\ 0 <= m
        BY <1>4
      <3>2. m < size /\ size <= t
        BY <1>4
      <3> HIDE DEF t, m
      <3>3. m + 1 \in 1..size /\ size \in 1..size /\ ~(t < size) /\ size - (m + 1) + 1 \in 1..3
        BY <1>1, <3>1, <3>2
      <3> QED
        BY <3>1, <3>3 DEF t, m
    <2>2. Chunk(data, 3, n) = SubSeq(data, 3 * (n - 1) + 1, size)
      BY <1>3, <2>1
    <2> DEFINE i == 3 * (n - 1) + 1
    <2>3. i \in 1..size /\ size \in i..size
      BY <1>1, <2>1
    <2> HIDE DEF i
    <2>4. SubSeq(data, i, size) \in Seq(Octet) /\ Len(SubSeq(data, i, size)) = size - i + 1
      BY <2>3, PartIs DEF size
    <2> QED
      BY <2>1, <2>2, <2>4 DEF i
  <1>7. \A k \in 1..n : k \in 1 .. n - 1 \/ k = n
    BY <1>4
  <1> QED
    BY <1>4, <1>5, <1>6, <1>7 DEF size

LEMMA ChunkIsEncoded ==
    ASSUME NEW c \in Seq(Octet), Len(c) \in 1..3
    PROVE  Decodes(EncodeChunk(c), c)
  <1>1. Len(c) = 1 \/ Len(c) = 2 \/ Len(c) = 3
    OBVIOUS
  <1> QED
    BY <1>1, ChunkOfOne, ChunkOfTwo, ChunkOfThree

LEMMA WrittenIsData ==
    ASSUME NEW data \in Seq(Octet), Len(data) # 0
    PROVE  /\ Encode(data) \in Seq(Sextet) /\ Len(Encode(data)) = EncodedLength(Len(data))
           /\ Remaining(Len(Encode(data))) = 4
           /\ Len(data) <= DecodedSize(Len(Encode(data)))
           /\ Written(Encode(data)) = data
  <1> DEFINE n == EncodedLength(Len(data)) \div 4
             c(k) == Chunk(data, 3, k)
             parts == [k \in 1..n |-> EncodeChunk(c(k))]
             encoded == Encode(data)
  <1>1. /\ n \in Nat \ {0} /\ EncodedLength(Len(data)) = 4 * n
        /\ 3 * (n - 1) < Len(data) /\ Len(data) <= 3 * n
        /\ \A k \in 1..n : c(k) \in Seq(Octet)
        /\ \A k \in 1 .. n - 1 : /\ c(k) = SubSeq(data, 3 * (k - 1) + 1, 3 * k)
                                 /\ Len(c(k)) = 3
        /\ c(n) = SubSeq(data, 3 * (n - 1) + 1, Len(data))
        /\ Len(c(n)) \in 1..3
    <2> HIDE DEF n
    <2>1. n = EncodedLength(Len(data)) \div 4
      BY DEF n
    <2> QED
      BY <2>1, ChunksOfData
  <1>2. encoded = FlattenSeq(parts)
    BY DEF Encode
  <1> HIDE DEF n, encoded
  <1>3. ASSUME NEW k \in 1..n PROVE Decodes(EncodeChunk(c(k)), c(k))
    <2>1. Len(c(k)) \in 1..3
      <3>1. k \in 1 .. n - 1 \/ k = n
        BY <1>1
      <3> HIDE DEF c
      <3>2. CASE k \in 1 .. n - 1
        BY <1>1, <3>2
      <3>3. CASE k = n
        BY <1>1, <3>3
      <3> QED
        BY <3>1, <3>2, <3>3
    <2> HIDE DEF c
    <2> QED
      BY <1>1, <2>1, ChunkIsEncoded
  <1> HIDE DEF c
  <1>4. parts \in [1..n -> Seq(Sextet)] /\ \A k \in 1..n : Len(parts[k]) = 4 /\ Decodes(parts[k], c(k))
    <2>1. \A k \in 1..n : parts[k] = EncodeChunk(c(k))
      OBVIOUS
    <2>2. \A k \in 1..n : EncodeChunk(c(k)) \in Seq(Sextet) /\ Len(EncodeChunk(c(k))) = 4
      BY <1>3 DEF Decodes
    <2> QED
      BY <1>3, <2>1, <2>2
  <1> HIDE DEF parts
  <1>5. /\ encoded \in Seq(Sextet) /\ Len(encoded) = 4 * n
        /\ \A k \in 1..n : SubSeq(encoded, 4 * (k - 1) + 1, 4 * k) = parts[k]
    <2>1. n \in Nat /\ Len(parts) = n
      BY <1>1, <1>4
    <2>2. encoded \in Seq(Sextet) /\ Len(encoded) = 4 * n /\ PartsOf(parts, encoded, 4)
      BY <1>2, <1>4, <2>1, FourApiece
    <2> QED
      BY <2>1, <2>2 DEF PartsOf
  <1>6. Remaining(Len(encoded)) = 4 /\ (Len(encoded) - 4) \div 4 = n - 1 /\ 4 * n # 0
    BY <1>1, <1>5 DEF Remaining
  <1>7. Len(data) <= DecodedSize(Len(encoded))
    <2>1. Len(data) \in Nat
      BY LenProperties
    <2> QED
      BY <1>1, <1>5, <2>1 DEF DecodedSize
  <1> DEFINE front == [k \in 1 .. n - 1 |-> Decode4(Chunk(encoded, 4, k))]
  <1>8. Written(encoded) =
            FlattenSeq(front) \o DecodeLast(SubSeq(encoded, 4 * (n - 1) + 1, Len(encoded)))
    BY <1>6 DEF Written
  <1>9. DecodeLast(SubSeq(encoded, 4 * (n - 1) + 1, Len(encoded))) = c(n)
    <2>1. n \in 1..n /\ SubSeq(encoded, 4 * (n - 1) + 1, 4 * n) = parts[n]
      BY <1>1, <1>5
    <2> QED
      BY <1>4, <1>5, <2>1 DEF Decodes
  <1>10. \A k \in 1 .. n - 1 : front[k] = c(k)
    <2> SUFFICES ASSUME NEW k \in 1 .. n - 1 PROVE front[k] = c(k)
      OBVIOUS
    <2>1. k \in 1..n /\ 4 * k < 4 * n
      BY <1>1
    <2>2. Chunk(encoded, 4, k) = parts[k]
      BY <1>5, <2>1 DEF Chunk
    <2>3. Len(c(k)) = 3 /\ Decode4(parts[k]) = c(k)
      BY <1>1, <1>4, <2>1 DEF Decodes
    <2> QED
      BY <2>2, <2>3
  <1>11. FlattenSeq(front) = SubSeq(data, 1, 3 * (n - 1))
    <2>1. \A k \in 1 .. n - 1 : k \in 1..n
      BY <1>1
    <2>2. n - 1 \in Nat /\ front = [k \in 1 .. n - 1 |-> front[k]]
      BY <1>1
    <2>3. \A k \in 1 .. n - 1 : front[k] \in Seq(Octet)
      BY <1>1, <1>10, <2>1
    <2> HIDE DEF front
    <2>4. front \in Seq(Seq(Octet)) /\ Len(front) = n - 1
      BY <2>2, <2>3
    <2>5. PartsOf(front, data, 3)
      BY <1>1, <1>10, <2>4 DEF PartsOf
    <2>6. 3 \in Nat \ {0} /\ 3 * Len(front) <= Len(data)
      BY <1>1, <2>4, LenProperties
    <2> QED
      BY <2>4, <2>5, <2>6, FlattenOfParts
  <1>12. Written(encoded) = data
    <2> DEFINE m == 3 * (n - 1)
               size == Len(data)
    <2>1. Written(encoded) = SubSeq(data, 1, m) \o SubSeq(data, m + 1, size)
      BY <1>1, <1>8, <1>9, <1>11
    <2>2. 1 \in 1 .. size + 1 /\ m \in 1 - 1 .. size /\ size \in m .. size
      <3>1. size \in Nat
        BY LenProperties
      <3> QED
        BY <1>1, <3>1
    <2> HIDE DEF m
    <2>3. SubSeq(data, 1, m) \o SubSeq(data, m + 1, size) = SubSeq(data, 1, size)
      BY <2>2, ConcatAdjacentSubSeq
    <2> QED
      BY <2>1, <2>3, SubSeqFull
  <1> QED
    BY <1>1, <1>5, <1>6, <1>7, <1>12 DEF encoded

(* What is left behind the data was not written.                              *)
LEMMA DecodeStartsWithData ==
    ASSUME NEW data \in Seq(Octet), Len(data) # 0
    PROVE  SubSeq(Decode(Encode(data)), 1, Len(data)) = data
  <1> DEFINE m == DecodedSize(Len(Encode(data))) - Len(data)
             rest == [k \in 1..m |-> NotWritten]
             E == Octet \cup {NotWritten}
  <1>1. Decode(Encode(data)) = data \o rest
    BY WrittenIsData DEF Decode
  <1>2. m \in Nat
    <2>1. Len(data) \in Nat
      BY LenProperties
    <2>2. EncodedLength(Len(data)) \in Int
      BY <2>1 DEF EncodedLength
    <2> QED
      BY <2>1, <2>2, WrittenIsData DEF DecodedSize
  <1> HIDE DEF m
  <1>3. data \in Seq(E) /\ rest \in Seq(E)
    BY <1>2
  <1> HIDE DEF rest, E
  <1>4. data \o rest \in Seq(E) /\ Len(data) <= Len(data \o rest) /\ Len(data) \in Nat
        /\ \A i \in 1 .. Len(data) : (data \o rest)[i] = data[i]
    BY <1>3, ConcatProperties, LenProperties
  <1> DEFINE s == data \o rest
             piece == SubSeq(s, 1, Len(data))
  <1>5. piece \in Seq(E) /\ Len(piece) = Len(data) /\ \A i \in 1 .. Len(data) : piece[i] = data[i]
    <2> HIDE DEF s
    <2>1. 1 \in 1 .. Len(s) /\ Len(data) \in 1 .. Len(s)
      BY <1>4 DEF s
    <2> QED
      BY <1>4, <2>1 DEF s
  <1> HIDE DEF piece
  <1>6. piece = data
    BY <1>3, <1>5, SeqEqual
  <1> QED
    BY <1>1, <1>6 DEF piece

(* No bytes are no characters, which the switch of base64_decode() refuses.   *)
LEMMA NothingIsRefused ==
    /\ Encode(<<>>) = <<>> /\ EncodedLength(0) = 0 /\ Aborts(<<>>)
    /\ Written(<<>>) = <<>> /\ 0 <= DecodedSize(0)
    /\ SubSeq(Decode(<<>>), 1, 0) = <<>>
  <1>1. EncodedLength(0) = 0 /\ EncodedLength(0) \div 4 = 0 /\ DecodedSize(0) = 2
        /\ Remaining(0) = 0
    BY DEF EncodedLength, DecodedSize, Remaining
  <1>2. Len(<<>>) = 0
    BY EmptySeq
  <1>3. ASSUME NEW parts, parts = <<>> PROVE FlattenSeq(parts) = <<>>
    <2>1. parts \in [1..0 -> Seq(Octet)] /\ 0 \in Nat
      BY <1>3
    <2>2. FlattenSeq(parts) \in Seq(Octet) /\ Len(FlattenSeq(parts)) = 4 * 0
      <3>1. \A k \in 1..0 : Len(parts[k]) = 4
        OBVIOUS
      <3> QED
        BY <2>1, <3>1, FourApiece
    <2> QED
      BY <2>2, EmptySeq
  <1>5. Encode(<<>>) = <<>>
    <2> DEFINE parts == [k \in 1..0 |-> EncodeChunk(Chunk(<<>>, 3, k))]
    <2>1. Encode(<<>>) = FlattenSeq(parts)
      BY <1>1, <1>2 DEF Encode
    <2>2. parts = <<>>
      OBVIOUS
    <2> QED
      BY <1>3, <2>1, <2>2
  <1>6. Aborts(<<>>)
    BY <1>1, <1>2 DEF Aborts
  <1>7. Written(<<>>) = <<>>
    <2> DEFINE parts == [k \in 1..0 |-> Decode4(Chunk(<<>>, 4, k))]
               last == SubSeq(<<>>, 1, 0)
    <2>1. (0 - 0) \div 4 = 0 /\ 4 * 0 + 1 = 1
      OBVIOUS
    <2>2. Written(<<>>) = FlattenSeq(parts) \o DecodeLast(last)
      BY <1>1, <1>2, <2>1 DEF Written
    <2>3. parts = <<>>
      OBVIOUS
    <2>4. last = <<>> /\ Len(last) = 0
      BY <1>2
    <2>5. DecodeLast(last) = <<>>
      BY <2>4 DEF DecodeLast
    <2>6. FlattenSeq(parts) = <<>>
      BY <1>3, <2>3
    <2> QED
      BY <2>2, <2>5, <2>6
  <1>8. SubSeq(Decode(<<>>), 1, 0) = <<>>
    OBVIOUS
  <1> QED
    BY <1>1, <1>5, <1>6, <1>7, <1>8

LEMMA CallsOfBase64 ==
    ASSUME [Next]_values_vars, call' # call, call'.function = "base64"
    PROVE  \E data \in Data : call' = [function |-> "base64", data |-> data]
  BY FunctionIsCalled
     DEF CallFunction, CallText, CallBase64, CallUri, CallClock, CallRatio, CallContainer,
         CallUsage, Call

(* What base64_encode() makes of data, base64_decode() turns back into them,  *)
(* in front of the bytes by which the size it announces is too large, and its *)
(* assertion holds, for bytes of every length but zero: what is made of no    *)
(* bytes fails it.                                                            *)
THEOREM DataIsDecoded == Spec => []Base64RoundTrip
  <1>1. Init => Base64RoundTrip
    BY DEF Init, NoCall, Base64RoundTrip
  <1>2. Base64RoundTrip /\ [Next]_values_vars => Base64RoundTrip'
    <2> SUFFICES ASSUME Base64RoundTrip, [Next]_values_vars, call'.function = "base64"
                 PROVE  Base64RoundTrip'
      BY DEF Base64RoundTrip
    <2>1. CASE call' = call
      BY <2>1 DEF Base64RoundTrip
    <2>2. CASE call' # call
      <3>1. PICK data \in Data : call' = [function |-> "base64", data |-> data]
        BY <2>2, CallsOfBase64
      <3>2. data \in Seq(Octet) /\ call'.data = data
        BY <3>1, ArgumentsAreValid DEF Octet
      <3> DEFINE encoded == Encode(data)
      <3>3. CASE data = <<>>
        <4>1. Len(data) = 0 /\ encoded = <<>> /\ Len(encoded) = 0
          BY <3>3, NothingIsRefused, EmptySeq
        <4> QED
          BY <3>2, <3>3, <4>1, NothingIsRefused DEF Base64RoundTrip
      <3>4. CASE data # <<>>
        <4>1. Len(data) # 0
          BY <3>2, <3>4, EmptySeq
        <4>2. /\ Len(encoded) = EncodedLength(Len(data)) /\ Remaining(Len(encoded)) = 4
              /\ Len(data) <= DecodedSize(Len(encoded)) /\ Written(encoded) = data
              /\ SubSeq(Decode(encoded), 1, Len(data)) = data
          BY <3>2, <4>1, WrittenIsData, DecodeStartsWithData
        <4> QED
          BY <3>2, <3>4, <4>2 DEF Base64RoundTrip, Aborts
      <3> QED
        BY <3>3, <3>4
    <2> QED
      BY <2>1, <2>2
  <1> QED
    BY <1>1, <1>2, PTL DEF Spec

-----------------------------------------------------------------------------
(* Serialized data.                                                           *)
LEMMA SerialPartStep == SerialInv /\ [Next]_values_vars => SerialInv'
  <1>1. [Next]_values_vars => [SerialNext]_serial_vars
    BY DEF Next, values_vars
  <1> QED
    BY <1>1, SerialStep

(* What a Deserializer reads from a Source is, item by item, what Serializers *)
(* wrote to the Sink that it was made from, for any list of numbers of any    *)
(* width and sign, strings and characters, in either order of bytes and with  *)
(* any number of values of a byte; its assertion fails for nothing but an     *)
(* enumeration that is read as a narrower type (transform(), produce(),       *)
(* peek(), consume()).                                                        *)
THEOREM ItemsAreRead == Spec => []ItemsAreReadBack
  <1>1. Init => SerialInv
    BY SerialInitial DEF Init
  <1>2. SerialInv => ItemsAreReadBack
    BY WholeIsRead
  <1> QED
    BY <1>1, SerialPartStep, <1>2, PTL DEF Spec

-----------------------------------------------------------------------------
(* Command lines.  A bounded set of numbers has a largest one.                *)
LEMMA LargestIn ==
    ASSUME NEW b \in Nat, NEW T \in SUBSET (1..b), T # {}
    PROVE  Max(T) \in T /\ \A y \in T : y <= Max(T)
  <1> DEFINE R == {b - k : k \in T}
             Greatest(z) == \A y \in T : z >= y
  <1>1. R \in SUBSET Nat
    <2> SUFFICES ASSUME NEW k \in T PROVE b - k \in Nat
      OBVIOUS
    <2>1. k \in 1..b
      OBVIOUS
    <2> QED
      BY <2>1
  <1>2. R # {}
    OBVIOUS
  <1>3. Min(R) \in R /\ \A y \in R : Min(R) <= y
    <2> HIDE DEF R
    <2> QED
      BY <1>1, <1>2, SmallestIn
  <1>4. PICK x \in T : Min(R) = b - x
    BY <1>3
  <1>5. Greatest(x)
    <2> SUFFICES ASSUME NEW y \in T PROVE x >= y
      OBVIOUS
    <2>1. b - y \in R
      OBVIOUS
    <2>2. b - x <= b - y
      BY <1>3, <1>4, <2>1
    <2> QED
      BY <2>2
  <1>6. Max(T) = CHOOSE z \in T : Greatest(z)
    BY DEF Max
  <1> HIDE DEF Greatest
  <1>7. Max(T) \in T /\ Greatest(Max(T))
    BY <1>5, <1>6
  <1> QED
    BY <1>7 DEF Greatest

(* A command line, and the options it is parsed with.                         *)
CommandLine(usage, argv) ==
    /\ Len(usage.options) \in Nat /\ Len(argv) \in Nat
    /\ \A k \in 1 .. Len(usage.options) : usage.options[k].takes \in BOOLEAN
    /\ \A i \in 1 .. Len(argv) : argv[i].dashes \in Nat

LEMMA MatchIs ==
    ASSUME NEW options, Len(options) \in Nat, NEW arg
    PROVE  /\ Match(options, arg) \in 1 .. Len(options) + 1
           /\ \A k \in 1 .. Len(options) : Match(options, arg) = k =>
                  \A j \in 1 .. Len(options) : j < k => options[j] # options[k]
  <1> DEFINE m == Len(options)
             Named(option) == IF arg.dashes = 1 THEN option.brief = arg.name /\ arg.name # NoName
                              ELSE option.extended = arg.name
             named == {k \in 1..m : Named(options[k])}
  <1>1. Match(options, arg) = IF named = {} THEN m + 1 ELSE Min(named)
    BY DEF Match
  <1> HIDE DEF Named
  <1>2. CASE named = {}
    BY <1>1, <1>2
  <1>3. CASE named # {}
    <2>1. named \in SUBSET Nat
      OBVIOUS
    <2>2. Min(named) \in named /\ \A j \in named : Min(named) <= j
      <3> HIDE DEF named
      <3> QED
        BY <1>3, <2>1, SmallestIn
    <2>4. Match(options, arg) \in 1..m /\ Match(options, arg) \in named
      BY <1>1, <1>3, <2>2
    <2>5. ASSUME NEW k \in 1..m, Match(options, arg) = k, NEW j \in 1..m, j < k
          PROVE  options[j] # options[k]
      <3>1. j \notin named
        BY <1>1, <1>3, <2>2, <2>5
      <3>2. ~Named(options[j]) /\ Named(options[k])
        BY <2>4, <2>5, <3>1
      <3> QED
        BY <3>2
    <2> QED
      BY <2>4, <2>5
  <1> QED
    BY <1>2, <1>3

(* An option that takes the argument behind it.                               *)
TakesNext(usage, argv, i) ==
    /\ argv[i].dashes > 0 /\ argv[i].value = NoValue
    /\ \E k \in 1 .. Len(usage.options) :
          Match(usage.options, argv[i]) = k /\ usage.options[k].takes

LEMMA ConsumedIs ==
    ASSUME NEW usage, NEW argv, Len(argv) \in Nat
    PROVE  \A i \in 1 .. Len(argv) : Consumed(usage, argv)[i] <=>
               i > 1 /\ ~Consumed(usage, argv)[i - 1] /\ TakesNext(usage, argv, i - 1)
  <1> DEFINE n == Len(argv)
             step == [p \in Nat \X BOOLEAN |-> p[1] > 0 /\ ~p[2] /\ TakesNext(usage, argv, p[1])]
             Rec(f) == f = [i \in 0..n |-> i > 1 /\ ~f[i - 1] /\ TakesNext(usage, argv, i - 1)]
  <1>1. step \in [Nat \X BOOLEAN -> BOOLEAN]
    OBVIOUS
  <1>2. \A k \in Nat, b \in BOOLEAN : step[<<k, b>>] = (k > 0 /\ ~b /\ TakesNext(usage, argv, k))
    OBVIOUS
  <1> HIDE DEF step
  <1>3. PICK f \in [Nat -> BOOLEAN] : f[0] = FALSE /\ \A k \in Nat : f[k + 1] = step[<<k, f[k]>>]
    <2>1. \E f \in [Nat -> BOOLEAN] : Iterates(f, FALSE, step)
      BY <1>1, IterationExists
    <2> QED
      BY <2>1 DEF Iterates
  <1> DEFINE c == [i \in 0..n |-> f[i]]
  <1>4. ASSUME NEW i \in 0..n
        PROVE  c[i] = (i > 1 /\ ~c[i - 1] /\ TakesNext(usage, argv, i - 1))
    <2>1. CASE i = 0
      BY <1>3, <2>1
    <2>2. CASE i # 0
      <3>1. i - 1 \in Nat /\ i - 1 \in 0..n /\ (i - 1) + 1 = i /\ (i - 1 > 0 <=> i > 1)
        BY <2>2
      <3>2. f[i] = step[<<i - 1, f[i - 1]>>] /\ f[i - 1] \in BOOLEAN
        BY <1>3, <3>1
      <3>3. c[i] = f[i] /\ c[i - 1] = f[i - 1]
        BY <3>1
      <3>4. step[<<i - 1, f[i - 1]>>] = (i - 1 > 0 /\ ~f[i - 1] /\ TakesNext(usage, argv, i - 1))
        BY <1>2, <3>1, <3>2
      <3> HIDE DEF c
      <3> QED
        BY <3>1, <3>2, <3>3, <3>4
    <2> QED
      BY <2>1, <2>2
  <1>5. Rec(c)
    BY <1>4
  <1> DEFINE consumed == CHOOSE g : Rec(g)
  <1>6. Rec(consumed)
    <2> HIDE DEF Rec, c
    <2> QED
      BY <1>5
  <1>7. Consumed(usage, argv) = consumed
    BY DEF Consumed, TakesNext
  <1> HIDE DEF consumed
  <1>8. ASSUME NEW i \in 1..n
        PROVE  consumed[i] = (i > 1 /\ ~consumed[i - 1] /\ TakesNext(usage, argv, i - 1))
    BY <1>6
  <1> HIDE DEF Rec
  <1> QED
    BY <1>7, <1>8

(* The next argument behind an option that is not consumed by it.             *)
Behind(usage, argv, i, end) ==
    /\ Len(argv) \in Nat /\ i \in 1 .. Len(argv) /\ end \in {i + 1, i + 2}
    /\ ~Consumed(usage, argv)[i] /\ argv[i].dashes > 0
    /\ end = i + 2 => Consumed(usage, argv)[i + 1]

LEMMA GivenNext ==
    ASSUME NEW usage, NEW argv, NEW i, NEW end, Behind(usage, argv, i, end), NEW k
    PROVE  Given(usage, argv, end, k) =
               IF Match(usage.options, argv[i]) = k THEN Given(usage, argv, i, k) \cup {i}
               ELSE Given(usage, argv, i, k)
  <1> DEFINE C(j) == Consumed(usage, argv)[j]
             Here(j) == argv[j].dashes > 0 /\ Match(usage.options, argv[j]) = k
             before == Given(usage, argv, i, k)
             after == Given(usage, argv, end, k)
  <1>1. before = {j \in 1 .. i - 1 : ~C(j) /\ Here(j)}
    BY DEF Given
  <1>2. after = {j \in 1 .. end - 1 : ~C(j) /\ Here(j)}
    BY DEF Given
  <1>3. ~C(i) /\ (end = i + 2 => C(i + 1)) /\ (Here(i) <=> Match(usage.options, argv[i]) = k)
    BY DEF Behind
  <1>4. \A j : j \in 1 .. end - 1 <=> j \in 1 .. i - 1 \/ j = i \/ (end = i + 2 /\ j = i + 1)
    BY DEF Behind
  <1> HIDE DEF C, Here, before, after
  <1>5. \A j : j \in after <=> j \in before \/ (j = i /\ Here(i))
    BY <1>1, <1>2, <1>3, <1>4
  <1>6. CASE Here(i)
    <2>1. after = before \cup {i}
      BY <1>5, <1>6
    <2> QED
      BY <1>3, <1>6, <2>1 DEF before, after
  <1>7. CASE ~Here(i)
    <2>1. after = before
      BY <1>5, <1>7
    <2> QED
      BY <1>3, <1>7, <2>1 DEF before, after
  <1> QED
    BY <1>6, <1>7

(* The loop of parse(). *)
HasFields(state) ==
    state = [i |-> state.i, error |-> state.error, set |-> state.set,
             values |-> state.values, arguments |-> state.arguments]

IsState(usage, state) ==
    /\ HasFields(state)
    /\ state.set \in [1 .. Len(usage.options) -> BOOLEAN]
    /\ state.values = [k \in 1 .. Len(usage.options) |-> state.values[k]]

(* The value of an option is stored.                                          *)
StoredAt(state, index, value, next) ==
    /\ next.error = "none" /\ next.i = state.i + 1 /\ next.set = state.set
    /\ next.values = [state.values EXCEPT ![index] = value]

(* An option is taken from the command line.                                  *)
Taken(usage, argv, state, index, next) ==
    LET arg == argv[state.i]
        takes == usage.options[index].takes
    IN /\ next.error = "none" /\ next.set = state.set
       /\ \/ ~takes /\ next.i = state.i + 1 /\ next.values = state.values
          \/ /\ takes /\ arg.value # NoValue /\ next.i = state.i + 1
             /\ next.values = [state.values EXCEPT ![index] = arg.value]
          \/ /\ takes /\ arg.value = NoValue /\ next.i = state.i + 2 /\ state.i < Len(argv)
             /\ next.values = [state.values EXCEPT ![index] = argv[state.i + 1].text]

LEMMA FailIs ==
    ASSUME NEW usage, NEW state, IsState(usage, state), NEW error, error # "none"
    PROVE  IsState(usage, Fail(state, error)) /\ Fail(state, error).error # "none"
  BY DEF IsState, HasFields, Fail

LEMMA StoreIs ==
    ASSUME NEW usage, NEW state, IsState(usage, state), state.error = "none", NEW index, NEW value
    PROVE  LET next == Store(usage, state, index, value)
           IN IsState(usage, next) /\ (next.error # "none" \/ StoredAt(state, index, value, next))
  <1> DEFINE next == Store(usage, state, index, value)
             values == [state.values EXCEPT ![index] = value]
             stored == [state EXCEPT !.values = values, !.i = @ + 1]
             m == Len(usage.options)
  <1>1. \/ next = Fail(state, "takes_no_argument") \/ next = Fail(state, "invalid_argument")
        \/ next = stored
    BY DEF Store
  <1>2. values = [k \in 1..m |-> values[k]]
    BY DEF IsState
  <1> HIDE DEF values
  <1>3. stored = [i |-> state.i + 1, error |-> state.error, set |-> state.set,
                  values |-> values, arguments |-> state.arguments]
    <2>1. HasFields(state)
      BY DEF IsState
    <2>2. stored = [state EXCEPT !.values = values, !.i = @ + 1]
      OBVIOUS
    <2> HIDE DEF stored
    <2> QED
      BY <2>1, <2>2 DEF HasFields
  <1> HIDE DEF stored
  <1>4. IsState(usage, stored)
    BY <1>2, <1>3 DEF IsState, HasFields
  <1>5. StoredAt(state, index, value, stored)
    BY <1>3 DEF StoredAt, values
  <1> HIDE DEF next
  <1>6. "takes_no_argument" # "none" /\ "invalid_argument" # "none"
    OBVIOUS
  <1>7. IsState(usage, next) /\ (next.error # "none" \/ next = stored)
    BY <1>1, <1>4, <1>6, FailIs
  <1>8. next.error # "none" \/ StoredAt(state, index, value, next)
    BY <1>5, <1>7
  <1> QED
    BY <1>7, <1>8 DEF next

LEMMA TakeIs ==
    ASSUME NEW usage, NEW argv, CommandLine(usage, argv), NEW state, IsState(usage, state),
           state.error = "none", state.i \in 1 .. Len(argv), NEW index \in 1 .. Len(usage.options)
    PROVE  LET next == Take(usage, argv, state, index)
           IN IsState(usage, next) /\ (next.error # "none" \/ Taken(usage, argv, state, index, next))
  <1> DEFINE next == Take(usage, argv, state, index)
             arg == argv[state.i]
             takes == usage.options[index].takes
             skipped == [state EXCEPT !.i = @ + 1]
             text == argv[state.i + 1].text
  <1>1. /\ takes \in BOOLEAN /\ Len(argv) \in Nat /\ state.i \in Nat
    BY DEF CommandLine
  <1>2. skipped = [i |-> state.i + 1, error |-> state.error, set |-> state.set,
                   values |-> state.values, arguments |-> state.arguments]
    <2>1. HasFields(state)
      BY DEF IsState
    <2> QED
      BY <2>1 DEF HasFields
  <1>3. IsState(usage, skipped)
    BY <1>2 DEF IsState, HasFields
  <1>4. CASE ~takes
    <2>1. next = skipped
      BY <1>4 DEF Take
    <2> HIDE DEF skipped, next
    <2>2. Taken(usage, argv, state, index, next)
      BY <1>2, <1>4, <2>1 DEF Taken
    <2> QED
      BY <1>3, <2>1, <2>2 DEF next
  <1>5. CASE takes /\ arg.value # NoValue
    <2>1. next = Store(usage, state, index, arg.value)
      BY <1>5 DEF Take
    <2> HIDE DEF next
    <2>2. IsState(usage, next) /\ (next.error # "none" \/ StoredAt(state, index, arg.value, next))
      BY <2>1, StoreIs
    <2>3. StoredAt(state, index, arg.value, next) => Taken(usage, argv, state, index, next)
      BY <1>5 DEF StoredAt, Taken
    <2> QED
      BY <2>2, <2>3 DEF next
  <1>6. CASE takes /\ arg.value = NoValue
    <2>1. \/ next = Fail(state, "requires_argument") \/ next = Fail(state, "undefined")
          \/ state.i # Len(argv) /\ next = Store(usage, skipped, index, text)
      BY <1>6 DEF Take
    <2> HIDE DEF next
    <2>2. CASE next = Fail(state, "requires_argument") \/ next = Fail(state, "undefined")
      <3>1. "requires_argument" # "none" /\ "undefined" # "none"
        OBVIOUS
      <3>2. IsState(usage, next) /\ next.error # "none"
        BY <2>2, <3>1, FailIs
      <3> QED
        BY <3>2 DEF next
    <2>3. CASE state.i # Len(argv) /\ next = Store(usage, skipped, index, text)
      <3> HIDE DEF text
      <3>1. skipped.error = "none"
        BY <1>2
      <3> HIDE DEF skipped
      <3>2. IsState(usage, next) /\ (next.error # "none" \/ StoredAt(skipped, index, text, next))
        BY <1>3, <2>3, <3>1, StoreIs
      <3>3. (state.i + 1) + 1 = state.i + 2 /\ state.i < Len(argv)
        BY <1>1, <2>3
      <3>4. skipped.i = state.i + 1 /\ skipped.set = state.set /\ skipped.values = state.values
        BY <1>2
      <3>5. ASSUME StoredAt(skipped, index, text, next) PROVE Taken(usage, argv, state, index, next)
        <4>1. /\ next.error = "none" /\ next.i = skipped.i + 1 /\ next.set = skipped.set
              /\ next.values = [skipped.values EXCEPT ![index] = text]
          BY <3>5 DEF StoredAt
        <4>2. [skipped.values EXCEPT ![index] = text] = [state.values EXCEPT ![index] = text]
          BY <3>4, Zenon
        <4> QED
          BY <1>6, <3>3, <3>4, <4>1, <4>2 DEF Taken, text
      <3> QED
        BY <3>2, <3>5 DEF next
    <2> QED
      BY <2>1, <2>2, <2>3
  <1> QED
    BY <1>1, <1>4, <1>5, <1>6

(* An option is read, and nothing of the command line is skipped.             *)
Advances(usage, argv, state, next) ==
    LET index == Match(usage.options, argv[state.i])
    IN /\ index \in 1 .. Len(usage.options)
       /\ next.set = [state.set EXCEPT ![index] = TRUE]
       /\ Taken(usage, argv, [state EXCEPT !.set = next.set], index, next)

LEMMA OptionIs ==
    ASSUME NEW usage, NEW argv, CommandLine(usage, argv), NEW state, IsState(usage, state),
           state.error = "none", state.i \in 1 .. Len(argv)
    PROVE  LET next == ParseOption(usage, argv, state)
           IN IsState(usage, next) /\ (next.error # "none" \/ Advances(usage, argv, state, next))
  <1> DEFINE next == ParseOption(usage, argv, state)
             m == Len(usage.options)
             index == Match(usage.options, argv[state.i])
             set == [state.set EXCEPT ![index] = TRUE]
             marked == [state EXCEPT !.set = set]
  <1>1. m \in Nat /\ index \in 1 .. m + 1
    <2>1. m \in Nat
      BY DEF CommandLine
    <2> QED
      BY <2>1, MatchIs
  <1>2. CASE index > m
    <2>1. next = Fail(state, "invalid_option")
      BY <1>2 DEF ParseOption
    <2>2. "invalid_option" # "none"
      OBVIOUS
    <2>3. IsState(usage, next) /\ next.error # "none"
      BY <2>1, <2>2, FailIs
    <2> QED
      BY <2>3
  <1>3. CASE ~(index > m)
    <2>1. next = Take(usage, argv, marked, index)
      BY <1>3 DEF ParseOption
    <2>2. index \in 1..m
      BY <1>1, <1>3
    <2> HIDE DEF index
    <2>3. set \in [1..m -> BOOLEAN]
      BY <2>2 DEF IsState, HasFields
    <2> HIDE DEF set
    <2>4. marked = [i |-> state.i, error |-> state.error, set |-> set,
                    values |-> state.values, arguments |-> state.arguments]
      <3>1. HasFields(state)
        BY DEF IsState
      <3> QED
        BY <3>1 DEF HasFields
    <2>5. IsState(usage, marked) /\ marked.error = "none" /\ marked.i \in 1 .. Len(argv)
          /\ marked.set = set
      BY <2>3, <2>4 DEF IsState, HasFields
    <2> HIDE DEF marked, next
    <2>6. IsState(usage, next) /\ (next.error # "none" \/ Taken(usage, argv, marked, index, next))
      BY <2>1, <2>2, <2>5, TakeIs
    <2>7. ASSUME Taken(usage, argv, marked, index, next) PROVE Advances(usage, argv, state, next)
      <3>1. next.set = set
        BY <2>5, <2>7 DEF Taken
      <3>2. marked = [state EXCEPT !.set = next.set]
        BY <3>1 DEF marked
      <3> QED
        BY <2>2, <2>7, <3>1, <3>2, Zenon DEF Advances, index, set
    <2> QED
      BY <2>6, <2>7 DEF next
  <1> QED
    BY <1>2, <1>3

(* What the loop has read of the option k, and of all of them.                *)
OptionInv(usage, argv, state, k) ==
    LET option == usage.options[k]
        given == Given(usage, argv, state.i, k)
    IN /\ state.set[k] <=> given # {}
       /\ given = {} \/ ~option.takes => state.values[k] = option.default
       /\ option.takes =>
              \A i \in given : (\A j \in given : j <= i) => state.values[k] = ValueAt(argv, i)

Reads(usage, argv, state) ==
    /\ state.i \in 1 .. Len(argv) + 1
    /\ state.i <= Len(argv) => ~Consumed(usage, argv)[state.i]
    /\ \A k \in 1 .. Len(usage.options) : OptionInv(usage, argv, state, k)

(* Taken, seen from the options and from the command line.                    *)
LEMMA AdvancesTo ==
    ASSUME NEW usage, NEW argv, CommandLine(usage, argv), NEW state, IsState(usage, state),
           NEW next, Advances(usage, argv, state, next)
    PROVE  LET arg == argv[state.i]
               index == Match(usage.options, arg)
               takes == usage.options[index].takes
           IN /\ index \in 1 .. Len(usage.options) /\ takes \in BOOLEAN /\ next.error = "none"
              /\ next.set = [state.set EXCEPT ![index] = TRUE]
              /\ next.i = IF takes /\ arg.value = NoValue THEN state.i + 2 ELSE state.i + 1
              /\ takes /\ arg.value = NoValue => state.i < Len(argv)
              /\ takes => next.values = [state.values EXCEPT ![index] = ValueAt(argv, state.i)]
              /\ ~takes => next.values = state.values
  <1> DEFINE arg == argv[state.i]
             index == Match(usage.options, arg)
             takes == usage.options[index].takes
             set == next.set
             marked == [state EXCEPT !.set = set]
  <1>1. /\ index \in 1 .. Len(usage.options) /\ set = [state.set EXCEPT ![index] = TRUE]
        /\ Taken(usage, argv, marked, index, next)
    BY DEF Advances
  <1>2. takes \in BOOLEAN
    BY <1>1 DEF CommandLine
  <1> HIDE DEF set
  <1>3. HasFields(state)
    BY DEF IsState
  <1>4. marked = [i |-> state.i, error |-> state.error, set |-> set,
                  values |-> state.values, arguments |-> state.arguments]
    BY <1>3 DEF HasFields
  <1> HIDE DEF marked
  <1>5. marked.i = state.i /\ marked.values = state.values
    BY <1>4
  <1>6. /\ next.error = "none"
        /\ \/ ~takes /\ next.i = marked.i + 1 /\ next.values = marked.values
           \/ /\ takes /\ arg.value # NoValue /\ next.i = marked.i + 1
              /\ next.values = [marked.values EXCEPT ![index] = arg.value]
           \/ /\ takes /\ arg.value = NoValue /\ next.i = marked.i + 2 /\ marked.i < Len(argv)
              /\ next.values = [marked.values EXCEPT ![index] = argv[marked.i + 1].text]
    BY <1>1, <1>5 DEF Taken
  <1> HIDE DEF index, takes
  <1>7. \A v, w : v = w => [marked.values EXCEPT ![index] = v] = [state.values EXCEPT ![index] = w]
    BY <1>5, Zenon
  <1>8. ValueAt(argv, state.i) = IF arg.value # NoValue THEN arg.value ELSE argv[state.i + 1].text
    BY DEF ValueAt
  <1>9. takes => next.values = [state.values EXCEPT ![index] = ValueAt(argv, state.i)]
    <2> HIDE DEF arg
    <2>1. CASE takes /\ arg.value # NoValue
      BY <1>6, <1>7, <1>8, <2>1, Zenon
    <2>2. CASE takes /\ arg.value = NoValue
      <3>1. argv[marked.i + 1].text = argv[state.i + 1].text
        BY <1>5, Zenon
      <3> QED
        BY <1>6, <1>7, <1>8, <2>2, <3>1, Zenon
    <2> QED
      BY <2>1, <2>2
  <1>10. /\ next.i = IF takes /\ arg.value = NoValue THEN state.i + 2 ELSE state.i + 1
         /\ takes /\ arg.value = NoValue => state.i < Len(argv)
         /\ ~takes => next.values = state.values
    BY <1>2, <1>5, <1>6
  <1> QED
    BY <1>1, <1>2, <1>6, <1>9, <1>10 DEF index, takes, set

LEMMA ReadsStep ==
    ASSUME NEW usage, NEW argv, CommandLine(usage, argv), NEW state, IsState(usage, state),
           Reads(usage, argv, state), state.i \in 1 .. Len(argv), argv[state.i].dashes # 0,
           NEW next, Advances(usage, argv, state, next)
    PROVE  Reads(usage, argv, next) /\ next.i > state.i /\ next.error = "none"
  <1> DEFINE i == state.i
             end == next.i
             arg == argv[i]
             m == Len(usage.options)
             index == Match(usage.options, arg)
             takes == usage.options[index].takes
             C(j) == Consumed(usage, argv)[j]
  <1>1. /\ index \in 1..m /\ takes \in BOOLEAN /\ next.error = "none"
        /\ next.set = [state.set EXCEPT ![index] = TRUE]
        /\ end = IF takes /\ arg.value = NoValue THEN i + 2 ELSE i + 1
        /\ takes /\ arg.value = NoValue => i < Len(argv)
        /\ takes => next.values = [state.values EXCEPT ![index] = ValueAt(argv, i)]
        /\ ~takes => next.values = state.values
    BY AdvancesTo
  <1>2. /\ m \in Nat /\ Len(argv) \in Nat /\ i \in Nat /\ arg.dashes > 0 /\ ~C(i)
    <2>1. m \in Nat /\ Len(argv) \in Nat /\ arg.dashes \in Nat
      BY DEF CommandLine
    <2>2. ~C(i)
      BY DEF Reads
    <2> QED
      BY <2>1, <2>2
  <1>3. TakesNext(usage, argv, i) <=> takes /\ arg.value = NoValue
    BY <1>1, <1>2 DEF TakesNext
  <1>4. \A j \in 1 .. Len(argv) : C(j) <=> j > 1 /\ ~C(j - 1) /\ TakesNext(usage, argv, j - 1)
    BY <1>2, ConsumedIs
  <1> HIDE DEF C, takes, index, arg
  <1>5. i < Len(argv) => (C(i + 1) <=> takes /\ arg.value = NoValue)
    <2> SUFFICES ASSUME i < Len(argv) PROVE C(i + 1) <=> takes /\ arg.value = NoValue
      OBVIOUS
    <2>1. i + 1 \in 1 .. Len(argv) /\ i + 1 > 1 /\ (i + 1) - 1 = i
      BY <1>2
    <2>2. C(i + 1) <=> i + 1 > 1 /\ ~C((i + 1) - 1) /\ TakesNext(usage, argv, (i + 1) - 1)
      BY <1>4, <2>1
    <2>3. C((i + 1) - 1) <=> C(i)
      BY <2>1
    <2> QED
      BY <1>2, <1>3, <2>1, <2>2, <2>3
  <1>6. end \in {i + 1, i + 2} /\ end \in 1 .. Len(argv) + 1 /\ end > i /\ (end = i + 2 => C(i + 1))
    BY <1>1, <1>2, <1>5
  <1>7. end <= Len(argv) => ~C(end)
    <2> SUFFICES ASSUME end <= Len(argv) PROVE ~C(end)
      OBVIOUS
    <2>1. CASE takes /\ arg.value = NoValue
      <3>1. end = i + 2 /\ end \in 1 .. Len(argv) /\ end - 1 = i + 1 /\ i < Len(argv)
        BY <1>1, <1>2, <2>1
      <3>2. C(end) => ~C(end - 1)
        BY <1>4, <3>1
      <3>3. C(i + 1)
        BY <1>5, <2>1, <3>1
      <3> QED
        BY <3>1, <3>2, <3>3
    <2>2. CASE ~(takes /\ arg.value = NoValue)
      <3>1. end = i + 1 /\ i < Len(argv)
        BY <1>1, <1>2, <2>2
      <3> QED
        BY <1>5, <2>2, <3>1
    <2> QED
      BY <2>1, <2>2
  <1>8. ASSUME NEW k \in 1..m PROVE OptionInv(usage, argv, next, k)
    <2> DEFINE before == Given(usage, argv, i, k)
               after == Given(usage, argv, end, k)
               option == usage.options[k]
    <2>1. after = IF index = k THEN before \cup {i} ELSE before
      <3>1. Behind(usage, argv, i, end)
        BY <1>2, <1>6 DEF Behind, C, arg
      <3> HIDE DEF i, end
      <3>2. after = IF Match(usage.options, argv[i]) = k THEN before \cup {i} ELSE before
        BY <3>1, GivenNext
      <3> QED
        BY <3>2 DEF index, arg
    <2>2. /\ state.set[k] <=> before # {}
          /\ before = {} \/ ~option.takes => state.values[k] = option.default
          /\ option.takes => \A j \in before :
                 (\A l \in before : l <= j) => state.values[k] = ValueAt(argv, j)
      BY DEF Reads, OptionInv
    <2>3. /\ state.set \in [1..m -> BOOLEAN] /\ state.values = [l \in 1..m |-> state.values[l]]
      BY DEF IsState
    <2>4. before \subseteq 1 .. i - 1
      BY DEF Given
    <2> HIDE DEF before, after, option
    <2>5. CASE index # k
      <3>1. (next.set[k] <=> state.set[k]) /\ next.values[k] = state.values[k] /\ after = before
        <4>1. next.set[k] = state.set[k]
          BY <1>1, <2>3, <2>5
        <4>2. next.values[k] = state.values[k]
          BY <1>1, <2>3, <2>5
        <4> QED
          BY <2>1, <2>5, <4>1, <4>2
      <3> QED
        BY <2>2, <3>1 DEF OptionInv, option, after
    <2>6. CASE index = k
      <3>1. next.set[k] = TRUE /\ after = before \cup {i}
        BY <1>1, <2>1, <2>3, <2>6
      <3>2. (option.takes <=> takes) /\ after # {}
        BY <2>6, <3>1 DEF option, takes
      <3>3. ~option.takes => next.values[k] = option.default
        BY <1>1, <2>2, <3>2
      <3>4. ASSUME option.takes, NEW j \in after, \A l \in after : l <= j
            PROVE  next.values[k] = ValueAt(argv, j)
        <4>1. j = i
          BY <1>2, <2>4, <3>1, <3>4
        <4>2. next.values[k] = ValueAt(argv, i)
          BY <1>1, <2>3, <2>6, <3>2, <3>4
        <4> QED
          BY <4>1, <4>2
      <3> QED
        BY <3>1, <3>2, <3>3, <3>4 DEF OptionInv, option, after
    <2> QED
      BY <2>5, <2>6
  <1> QED
    BY <1>1, <1>6, <1>7, <1>8 DEF Reads, C

LEMMA StartReads ==
    ASSUME NEW usage, NEW argv, CommandLine(usage, argv)
    PROVE  /\ IsState(usage, Start(usage)) /\ Start(usage).error = "none"
           /\ Reads(usage, argv, Start(usage))
  <1> DEFINE start == Start(usage)
             m == Len(usage.options)
  <1>1. /\ start.i = 1 /\ start.error = "none" /\ start.set = [k \in 1..m |-> FALSE]
        /\ start.values = [k \in 1..m |-> usage.options[k].default] /\ start.arguments = <<>>
    BY DEF Start
  <1>2. HasFields(start)
    BY DEF Start, HasFields
  <1>3. m \in Nat /\ Len(argv) \in Nat
    BY DEF CommandLine
  <1> HIDE DEF start
  <1>4. IsState(usage, start)
    BY <1>1, <1>2 DEF IsState
  <1>5. ASSUME NEW k \in 1..m PROVE OptionInv(usage, argv, start, k)
    <2>1. Given(usage, argv, 1, k) = {}
      <3>1. 1 .. 1 - 1 = {}
        OBVIOUS
      <3> QED
        BY <3>1 DEF Given
    <2>2. start.values[k] = usage.options[k].default /\ start.set[k] = FALSE
      BY <1>1
    <2>3. Given(usage, argv, start.i, k) = {}
      BY <1>1, <2>1
    <2> QED
      BY <2>2, <2>3 DEF OptionInv
  <1>6. start.i <= Len(argv) => ~Consumed(usage, argv)[start.i]
    <2> SUFFICES ASSUME 1 <= Len(argv) PROVE ~Consumed(usage, argv)[1]
      BY <1>1
    <2>1. 1 \in 1 .. Len(argv) /\ ~(1 > 1)
      BY <1>3
    <2> QED
      BY <1>3, <2>1, ConsumedIs
  <1> QED
    BY <1>1, <1>3, <1>4, <1>5, <1>6 DEF Reads, start

(* The state after n turns.                                                   *)
AfterTurns(usage, argv, n, state) ==
    /\ IsState(usage, state)
    /\ state.error = "none" =>
           /\ Reads(usage, argv, state)
           /\ state.i > n \/ argv[state.i].dashes = 0

LEMMA TurnReads ==
    ASSUME NEW usage, NEW argv, CommandLine(usage, argv), NEW n \in 0 .. Len(argv) - 1,
           NEW state, AfterTurns(usage, argv, n, state)
    PROVE  AfterTurns(usage, argv, n + 1, ParseNext(usage, argv, state))
  <1> DEFINE next == ParseNext(usage, argv, state)
  <1>1. CASE state.error # "none" \/ state.i > Len(argv) \/ argv[state.i].dashes = 0
    <2>1. next = state
      BY <1>1 DEF ParseNext
    <2> HIDE DEF next
    <2>2. state.error = "none" => state.i \in Nat /\ Reads(usage, argv, state)
      BY DEF AfterTurns, Reads
    <2>3. state.error = "none" => state.i > n + 1 \/ argv[state.i].dashes = 0
      BY <1>1, <2>2 DEF CommandLine
    <2> QED
      BY <2>1, <2>2, <2>3 DEF AfterTurns, next
  <1>2. CASE ~(state.error # "none" \/ state.i > Len(argv) \/ argv[state.i].dashes = 0)
    <2>1. next = ParseOption(usage, argv, state)
      BY <1>2 DEF ParseNext
    <2>2. Reads(usage, argv, state) /\ IsState(usage, state) /\ state.i > n
      BY <1>2 DEF AfterTurns
    <2>3. state.i \in 1 .. Len(argv)
      BY <1>2, <2>2 DEF Reads, CommandLine
    <2> HIDE DEF next
    <2>4. IsState(usage, next) /\ (next.error # "none" \/ Advances(usage, argv, state, next))
      BY <1>2, <2>1, <2>2, <2>3, OptionIs
    <2>5. ASSUME Advances(usage, argv, state, next)
          PROVE  Reads(usage, argv, next) /\ next.i > n + 1
      <3>1. Reads(usage, argv, next) /\ next.i > state.i
        BY <1>2, <2>2, <2>3, <2>5, ReadsStep
      <3>2. next.i \in Nat
        BY <3>1 DEF Reads
      <3> QED
        BY <2>2, <2>3, <3>1, <3>2
    <2> QED
      BY <2>4, <2>5 DEF AfterTurns, next
  <1> QED
    BY <1>1, <1>2

LEMMA LoopReads ==
    ASSUME NEW usage, NEW argv, CommandLine(usage, argv)
    PROVE  AfterTurns(usage, argv, Len(argv), ParseOptions(usage, argv))
  <1> DEFINE n == Len(argv)
             Rec(f) == f = [k \in 0..n |-> IF k = 0 THEN Start(usage)
                                          ELSE ParseNext(usage, argv, f[k - 1])]
             Turns(f, k) == /\ f[0] = Start(usage)
                            /\ \A j \in Nat : j < k => f[j + 1] = ParseNext(usage, argv, f[j])
             P == {k \in Nat : \E f : Turns(f, k)}
             loop == CHOOSE f : Rec(f)
  <1>1. n \in Nat
    BY DEF CommandLine
  <1>2. 0 \in P
    <2>1. Turns([k \in {0} |-> Start(usage)], 0)
      OBVIOUS
    <2> QED
      BY <2>1
  <1>3. ASSUME NEW k \in Nat, k \in P PROVE k + 1 \in P
    <2>1. PICK f : Turns(f, k)
      BY <1>3
    <2> DEFINE next == ParseNext(usage, argv, f[k])
               g == [j \in 0 .. k + 1 |-> IF j = k + 1 THEN next ELSE f[j]]
    <2>2. g[0] = f[0] /\ g[k + 1] = next /\ \A j \in 0..k : g[j] = f[j]
      OBVIOUS
    <2> HIDE DEF g
    <2>3. ASSUME NEW j \in Nat, j < k + 1 PROVE g[j + 1] = ParseNext(usage, argv, g[j])
      <3>1. CASE j = k
        <4>1. g[j] = f[k] /\ g[j + 1] = next
          BY <2>2, <3>1
        <4> QED
          BY <4>1
      <3>2. CASE j # k
        <4>1. j < k /\ j \in 0..k /\ j + 1 \in 0..k
          BY <2>3, <3>2
        <4>2. g[j + 1] = f[j + 1] /\ g[j] = f[j] /\ f[j + 1] = ParseNext(usage, argv, f[j])
          BY <2>1, <2>2, <4>1
        <4> QED
          BY <4>2
      <3> QED
        BY <3>1, <3>2
    <2>4. Turns(g, k + 1)
      BY <2>1, <2>2, <2>3
    <2> QED
      BY <2>4
  <1>4. Nat \subseteq P
    <2> HIDE DEF P
    <2> QED
      BY <1>2, <1>3, Induction
  <1>5. PICK f : Turns(f, n)
    BY <1>1, <1>4
  <1> DEFINE g == [k \in 0..n |-> f[k]]
  <1>6. Rec(g)
    <2> SUFFICES ASSUME NEW k \in 0..n
                 PROVE  g[k] = IF k = 0 THEN Start(usage) ELSE ParseNext(usage, argv, g[k - 1])
      OBVIOUS
    <2>1. CASE k = 0
      BY <1>5, <2>1
    <2>2. CASE k # 0
      <3>1. k - 1 \in Nat /\ k - 1 < n /\ k - 1 \in 0..n /\ (k - 1) + 1 = k
        BY <1>1, <2>2
      <3>2. f[(k - 1) + 1] = ParseNext(usage, argv, f[k - 1])
        BY <1>5, <3>1
      <3>3. g[k] = f[(k - 1) + 1] /\ g[k - 1] = f[k - 1]
        BY <3>1
      <3> QED
        BY <2>2, <3>2, <3>3
    <2> QED
      BY <2>1, <2>2
  <1>7. Rec(loop)
    <2> HIDE DEF Rec, g
    <2> QED
      BY <1>6
  <1>8. ParseOptions(usage, argv) = loop[n]
    BY DEF ParseOptions
  <1> HIDE DEF loop, P
  <1> DEFINE Q == {k \in Nat : k <= n => AfterTurns(usage, argv, k, loop[k])}
  <1>9. 0 \in Q
    <2>1. loop[0] = Start(usage)
      BY <1>1, <1>7
    <2>2. Start(usage).i > 0
      BY DEF Start
    <2>3. AfterTurns(usage, argv, 0, Start(usage))
      BY <2>2, StartReads DEF AfterTurns
    <2> QED
      BY <2>1, <2>3
  <1>10. ASSUME NEW k \in Nat, k \in Q PROVE k + 1 \in Q
    <2> SUFFICES ASSUME k + 1 <= n PROVE AfterTurns(usage, argv, k + 1, loop[k + 1])
      OBVIOUS
    <2>1. k \in 0 .. n - 1 /\ k + 1 \in 0..n /\ k + 1 # 0 /\ (k + 1) - 1 = k /\ k <= n
      BY <1>1
    <2>2. loop[k + 1] = ParseNext(usage, argv, loop[k])
      BY <1>7, <2>1
    <2>3. AfterTurns(usage, argv, k, loop[k])
      BY <1>10, <2>1
    <2>4. AfterTurns(usage, argv, k + 1, ParseNext(usage, argv, loop[k]))
      BY <2>1, <2>3, TurnReads
    <2> QED
      BY <2>2, <2>4
  <1>11. n \in Q
    <2> HIDE DEF Q
    <2> QED
      BY <1>1, <1>9, <1>10, Induction
  <1> QED
    BY <1>1, <1>8, <1>11

(* What is left when the loop has ended. *)
LEMMA OptionsAreRead ==
    ASSUME NEW usage, NEW argv, CommandLine(usage, argv), NEW state,
           Reads(usage, argv, state), NEW k \in 1 .. Len(usage.options),
           \A j \in 1 .. k - 1 : usage.options[j] # usage.options[k]
    PROVE  OptionIsRead(usage, argv, state, k)
  <1> DEFINE m == Len(usage.options)
             option == usage.options[k]
             given == Given(usage, argv, state.i, k)
             found == {j \in 1..m : usage.options[j] \in {option}}
             value == GetValue(usage, state, {option})
  <1>1. m \in Nat /\ Len(argv) \in Nat /\ state.i \in 1 .. Len(argv) + 1 /\ option.takes \in BOOLEAN
    BY DEF CommandLine, Reads
  <1>2. /\ state.set[k] <=> given # {}
        /\ given = {} \/ ~option.takes => state.values[k] = option.default
        /\ option.takes =>
               \A i \in given : (\A j \in given : j <= i) => state.values[k] = ValueAt(argv, i)
    BY DEF Reads, OptionInv
  <1>3. Has(usage, state, {option}) <=> given # {}
    <2>1. ASSUME given # {} PROVE Has(usage, state, {option})
      BY <1>2, <2>1 DEF Has
    <2>2. ASSUME NEW j \in 1..m, usage.options[j] = option, state.set[j] PROVE j = k
      <3>1. Given(usage, argv, state.i, j) # {}
        BY <2>2 DEF Reads, OptionInv
      <3>2. PICK i \in 1 .. state.i - 1 : Match(usage.options, argv[i]) = j
        BY <3>1 DEF Given
      <3>3. ~(k < j)
        BY <1>1, <2>2, <3>2, MatchIs
      <3>4. ~(j < k)
        BY <2>2
      <3> QED
        BY <3>3, <3>4
    <2>3. ASSUME Has(usage, state, {option}) PROVE given # {}
      <3>1. PICK j \in 1..m : usage.options[j] \in {option} /\ state.set[j]
        BY <2>3 DEF Has
      <3>2. j = k
        BY <2>2, <3>1
      <3> QED
        BY <1>2, <3>1, <3>2
    <2> QED
      BY <2>1, <2>3
  <1>4. value = state.values[k]
    <2>1. k \in found /\ found # {} /\ found \in SUBSET Nat /\ \A j \in found : ~(j < k)
      OBVIOUS
    <2>2. value = IF found = {} THEN NoValue ELSE state.values[Min(found)]
      BY DEF GetValue
    <2> HIDE DEF found, value
    <2>3. Min(found) \in found /\ Min(found) <= k
      BY <2>1, SmallestIn
    <2>4. Min(found) \in Nat /\ k \in Nat /\ ~(Min(found) < k)
      BY <2>1, <2>3
    <2> QED
      BY <2>1, <2>2, <2>3, <2>4
  <1>5. ASSUME given # {}, option.takes PROVE value = ValueAt(argv, Max(given))
    <2>1. given \in SUBSET (1 .. Len(argv))
      BY <1>1 DEF Given
    <2> HIDE DEF given, value
    <2>2. Max(given) \in given /\ \A j \in given : j <= Max(given)
      BY <1>1, <1>5, <2>1, LargestIn
    <2> QED
      BY <1>2, <1>4, <1>5, <2>2
  <1> HIDE DEF given, value, option
  <1>6. given = {} \/ ~option.takes => value = option.default
    BY <1>2, <1>4
  <1> QED
    BY <1>3, <1>5, <1>6 DEF OptionIsRead, given, value, option

LEMMA UsageIsParsed ==
    ASSUME NEW usage, NEW argv, NEW state, state = ParseOptions(usage, argv), IsState(usage, state),
           ParseUsage(usage, argv).error = "none"
    PROVE  LET final == ParseUsage(usage, argv)
               rest == SubSeq(argv, state.i, Len(argv))
               named == Min({Len(rest), Len(usage.arguments)})
               allowed == Min({named + 1, Len(usage.arguments)})
           IN /\ state.error = "none" /\ final.i = state.i /\ final.arguments = rest
              /\ final.set = state.set /\ final.values = state.values
              /\ \/ ~(named < Len(usage.arguments))
                 \/ \E k \in 1..allowed : usage.arguments[k].optional
  <1> DEFINE final == ParseUsage(usage, argv)
             rest == SubSeq(argv, state.i, Len(argv))
             named == Min({Len(rest), Len(usage.arguments)})
             allowed == Min({named + 1, Len(usage.arguments)})
             optional == \E k \in 1..allowed : usage.arguments[k].optional
             front == SubSeq(rest, 1, named)
             found == [state EXCEPT !.arguments = front]
             accepted == [state EXCEPT !.arguments = rest]
             missing == named < Len(usage.arguments) /\ ~optional
             many == (named = Len(usage.arguments) \/ optional) /\ Len(rest) > named /\ ~usage.varargs
  <1>1. final = CASE state.error # "none" -> state
                  [] state.error = "none" /\ missing -> Fail(found, "missing_argument")
                  [] state.error = "none" /\ many -> Fail(found, "too_many_arguments")
                  [] OTHER -> accepted
    BY Zenon DEF ParseUsage
  <1>2. HasFields(state) /\ final.error = "none"
    BY DEF IsState
  <1> HIDE DEF rest, front, many, missing, final
  <1>3. accepted = [i |-> state.i, error |-> state.error, set |-> state.set,
                    values |-> state.values, arguments |-> rest]
    BY <1>2 DEF HasFields
  <1>4. found = [i |-> state.i, error |-> state.error, set |-> state.set,
                 values |-> state.values, arguments |-> front]
    BY <1>2 DEF HasFields
  <1> HIDE DEF accepted, found
  <1>5. /\ Fail(found, "missing_argument").error # "none"
        /\ Fail(found, "too_many_arguments").error # "none"
    BY <1>4 DEF Fail
  <1>6. state.error = "none" /\ ~missing /\ final = accepted
    BY <1>1, <1>2, <1>5
  <1>7. \/ ~(named < Len(usage.arguments)) \/ optional
    BY <1>6 DEF missing
  <1>8. /\ final.i = state.i /\ final.arguments = rest /\ final.set = state.set
        /\ final.values = state.values
    BY <1>3, <1>6
  <1> QED
    BY <1>6, <1>7, <1>8 DEF final, rest

(* An argument that is missing is shown in brackets.                          *)
LEMMA ShownInBrackets ==
    ASSUME NEW usage, Len(usage.arguments) \in Nat, NEW k \in 1 .. Len(usage.arguments),
           NEW j \in 1..k, usage.arguments[j].optional
    PROVE  \E shown \in ToSet(ArgumentsShown(usage)) :
               shown.name = usage.arguments[k].name /\ shown.open > 0
  <1> DEFINE open == {l \in 1..k : usage.arguments[l].optional}
             shown == [name |-> usage.arguments[k].name, open |-> Cardinality(open)]
  <1>1. k \in Nat /\ open \subseteq 1..k /\ j \in open
    OBVIOUS
  <1>2. ArgumentsShown(usage)[k] = shown /\ k \in DOMAIN ArgumentsShown(usage)
    BY DEF ArgumentsShown
  <1> HIDE DEF open
  <1>3. IsFiniteSet(1..k)
    <2>1. 1 \in Int /\ k \in Int
      BY <1>1
    <2> QED
      BY <2>1, FS_Interval, Zenon
  <1>4. IsFiniteSet(open)
    BY <1>1, <1>3, FS_Subset
  <1>5. Cardinality(open) \in Nat /\ Cardinality(open) # 0
    BY <1>1, <1>4, FS_EmptySet, FS_CardinalityType
  <1>6. shown \in ToSet(ArgumentsShown(usage)) /\ shown.open > 0 /\ shown.name = usage.arguments[k].name
    BY <1>2, <1>5 DEF ToSet
  <1> QED
    BY <1>6

LEMMA ReadsCommandLine ==
    ASSUME NEW usage, NEW argv, CommandLine(usage, argv), Len(usage.arguments) \in Nat,
           argv \in Seq(ToSet(argv))
    PROVE  CommandLineIsRead(usage, argv)
  <1> DEFINE final == ParseUsage(usage, argv)
             state == ParseOptions(usage, argv)
             rest == SubSeq(argv, state.i, Len(argv))
             wanted == Len(usage.arguments)
             named == Min({Len(rest), wanted})
             allowed == Min({named + 1, wanted})
  <1> SUFFICES ASSUME final.error = "none"
               PROVE  /\ final.arguments = SubSeq(argv, final.i, Len(argv))
                      /\ final.i <= Len(argv) => argv[final.i].dashes = 0
                      /\ \A k \in 1 .. Len(usage.options) :
                            (\A j \in 1 .. k - 1 : usage.options[j] # usage.options[k]) =>
                                OptionIsRead(usage, argv, final, k)
                      /\ \A k \in 1..wanted : ~HasArgument(final, k) =>
                            \E shown \in ToSet(ArgumentsShown(usage)) :
                                shown.name = usage.arguments[k].name /\ shown.open > 0
    BY DEF CommandLineIsRead
  <1>1. AfterTurns(usage, argv, Len(argv), state)
    BY LoopReads
  <1>2. IsState(usage, state)
    BY <1>1 DEF AfterTurns
  <1>3. /\ state.error = "none" /\ final.i = state.i /\ final.arguments = rest
        /\ final.set = state.set /\ final.values = state.values
        /\ ~(named < wanted) \/ \E k \in 1..allowed : usage.arguments[k].optional
    BY <1>2, UsageIsParsed
  <1> HIDE DEF final, state
  <1>4. state.i > Len(argv) \/ argv[state.i].dashes = 0
    BY <1>1, <1>3 DEF AfterTurns
  <1>5. Len(argv) \in Nat /\ state.i \in 1 .. Len(argv) + 1 /\ Reads(usage, argv, state)
    BY <1>1, <1>3 DEF AfterTurns, Reads, CommandLine
  <1>6. final.arguments = SubSeq(argv, final.i, Len(argv))
    BY <1>3
  <1>7. final.i <= Len(argv) => argv[final.i].dashes = 0
    BY <1>3, <1>4, <1>5
  <1>8. ASSUME NEW k \in 1 .. Len(usage.options),
               \A j \in 1 .. k - 1 : usage.options[j] # usage.options[k]
        PROVE  OptionIsRead(usage, argv, final, k)
    <2>1. OptionInv(usage, argv, final, k) <=> OptionInv(usage, argv, state, k)
      BY <1>3 DEF OptionInv
    <2>2. Reads(usage, argv, final)
      BY <1>3, <1>5 DEF Reads, OptionInv
    <2> QED
      BY <1>8, <2>2, OptionsAreRead
  <1>9. Len(rest) \in Nat
    <2>1. rest \in Seq(ToSet(argv))
      BY <1>5
    <2> QED
      BY <2>1, LenProperties
  <1> HIDE DEF rest
  <1>10. named = IF Len(rest) <= wanted THEN Len(rest) ELSE wanted
    BY <1>9, MinOfTwo
  <1> HIDE DEF named
  <1>11. allowed = IF named + 1 <= wanted THEN named + 1 ELSE wanted
    <2>1. named + 1 \in Nat
      BY <1>9, <1>10
    <2> QED
      BY <2>1, MinOfTwo
  <1> HIDE DEF allowed, wanted
  <1>12. ASSUME NEW k \in 1..wanted, ~HasArgument(final, k)
         PROVE  \E shown \in ToSet(ArgumentsShown(usage)) :
                    shown.name = usage.arguments[k].name /\ shown.open > 0
    <2>1. Len(rest) < k /\ wanted \in Nat
      BY <1>3, <1>9, <1>12 DEF HasArgument, wanted
    <2>2. named < wanted /\ allowed <= k
      BY <1>9, <1>10, <1>11, <2>1
    <2>3. PICK j \in 1..allowed : usage.arguments[j].optional
      BY <1>3, <2>2
    <2>4. j \in 1..k
      BY <1>9, <1>10, <1>11, <2>1, <2>2
    <2> QED
      BY <2>3, <2>4, ShownInBrackets DEF wanted
  <1> QED
    BY <1>6, <1>7, <1>8, <1>12 DEF wanted

LEMMA CallsOfUsage ==
    ASSUME [Next]_values_vars, call' # call, call'.function = "usage"
    PROVE  \E usage \in Usages, argv \in Arguments :
               call' = [function |-> "usage", usage |-> usage, argv |-> argv]
  BY FunctionIsCalled
     DEF CallFunction, CallText, CallBase64, CallUri, CallClock, CallRatio, CallContainer,
         CallUsage, Call

(* Whatever options and arguments a program declares, in any number, and      *)
(* whatever command line it is started with: if parse() accepts it, each      *)
(* option is set that was given, and no other, with the value behind "=" or   *)
(* the argument behind it, the last one counts, all that follows the options  *)
(* is an argument, and only optional arguments are missing (Usage::parse(),   *)
(* has(), get(), toString()).                                                 *)
THEOREM CommandLinesAreRead == Spec => []UsageReadsArguments
  <1>1. Init => UsageReadsArguments
    BY DEF Init, NoCall, UsageReadsArguments
  <1>2. UsageReadsArguments /\ [Next]_values_vars => UsageReadsArguments'
    <2> SUFFICES ASSUME UsageReadsArguments, [Next]_values_vars, call'.function = "usage"
                 PROVE  CommandLineIsRead(call'.usage, call'.argv)
      BY DEF UsageReadsArguments
    <2>1. CASE call' = call
      BY <2>1 DEF UsageReadsArguments
    <2>2. CASE call' # call
      <3>1. PICK usage \in Usages, argv \in Arguments :
                call' = [function |-> "usage", usage |-> usage, argv |-> argv]
        BY <2>2, CallsOfUsage
      <3>2. /\ usage.options \in Seq(ToSet(usage.options))
            /\ usage.arguments \in Seq(ToSet(usage.arguments))
            /\ \A option \in ToSet(usage.options) : option.takes \in BOOLEAN
            /\ argv \in Seq(ToSet(argv)) /\ \A arg \in ToSet(argv) : arg.dashes \in 0..2
        BY ArgumentsAreValid
      <3>3. CommandLine(usage, argv)
        <4>1. /\ \A k \in 1 .. Len(usage.options) : usage.options[k] \in ToSet(usage.options)
              /\ \A i \in 1 .. Len(argv) : argv[i] \in ToSet(argv)
          BY <3>2, ElementOfSeq
        <4> QED
          BY <3>2, <4>1, LenProperties DEF CommandLine
      <3>4. Len(usage.arguments) \in Nat
        BY <3>2, LenProperties
      <3>5. CommandLineIsRead(usage, argv)
        BY <3>2, <3>3, <3>4, ReadsCommandLine
      <3>6. call'.usage = usage /\ call'.argv = argv
        BY <3>1
      <3> QED
        BY <3>5, <3>6
    <2> QED
      BY <2>1, <2>2
  <1> QED
    BY <1>1, <1>2, PTL DEF Spec

-----------------------------------------------------------------------------
(* Containers.                                                                *)
LEMMA FiniteList ==
    ASSUME NEW s, Len(s) \in Nat, DOMAIN s = 1 .. Len(s), s = [k \in 1 .. Len(s) |-> s[k]]
    PROVE  IsFiniteSet(ToSet(s))
  <1> DEFINE n == Len(s)
             T == ToSet(s)
  <1>1. T = {s[k] : k \in 1..n}
    BY DEF ToSet
  <1> HIDE DEF T
  <1>2. s \in [1..n -> T] /\ \A t \in T : \E k \in 1..n : s[k] = t
    BY <1>1
  <1> HIDE DEF n
  <1>3. s \in Surjection(1..n, T)
    BY <1>2 DEF Surjection
  <1>4. IsFiniteSet(1..n)
    <2>1. 1 \in Int /\ n \in Int
      BY DEF n
    <2> QED
      BY <2>1, FS_Interval, Zenon
  <1>5. IsFiniteSet(T)
    BY <1>3, <1>4, FS_Surjection, Zenon
  <1> QED
    BY <1>5 DEF T

(* The list of a finite set of integers, each of them once.                   *)
IsListOf(set, s) ==
    /\ Cardinality(set) \in Nat
    /\ s \in [1 .. Cardinality(set) -> set]
    /\ \A j, k \in 1 .. Cardinality(set) : j < k => s[j] < s[k]
    /\ \A value \in set : \E k \in 1 .. Cardinality(set) : s[k] = value

Below(set, value) == {lesser \in set : lesser < value}
RankIn(set, value) == Cardinality(Below(set, value))

LEMMA RanksDiffer ==
    ASSUME NEW set \in SUBSET Int, IsFiniteSet(set), NEW x \in set, NEW y \in set, x < y
    PROVE  RankIn(set, x) < RankIn(set, y)
  <1>1. Below(set, y) \in SUBSET set /\ Below(set, x) \in SUBSET Below(set, y)
    <2>1. \A z \in set : z < x => z < y
      OBVIOUS
    <2> QED
      BY <2>1 DEF Below
  <1>2. x \in Below(set, y) /\ x \notin Below(set, x)
    BY DEF Below
  <1>3. IsFiniteSet(Below(set, y))
    BY <1>1, FS_Subset
  <1>4. /\ RankIn(set, x) <= RankIn(set, y)
        /\ RankIn(set, x) # RankIn(set, y) /\ IsFiniteSet(Below(set, x))
    BY <1>1, <1>2, <1>3, FS_Subset DEF RankIn
  <1>5. RankIn(set, x) \in Nat /\ RankIn(set, y) \in Nat
    BY <1>3, <1>4, FS_CardinalityType DEF RankIn
  <1> QED
    BY <1>4, <1>5

LEMMA RankIsLess ==
    ASSUME NEW set \in SUBSET Int, IsFiniteSet(set), NEW x \in set
    PROVE  RankIn(set, x) \in 0 .. Cardinality(set) - 1
  <1>1. Below(set, x) \in SUBSET set /\ x \notin Below(set, x)
    BY DEF Below
  <1>2. /\ RankIn(set, x) <= Cardinality(set) /\ RankIn(set, x) # Cardinality(set)
        /\ IsFiniteSet(Below(set, x))
    BY <1>1, FS_Subset DEF RankIn
  <1>3. RankIn(set, x) \in Nat /\ Cardinality(set) \in Nat
    BY <1>2, FS_CardinalityType DEF RankIn
  <1> QED
    BY <1>2, <1>3

LEMMA SortedLists ==
    ASSUME NEW set \in SUBSET Int, IsFiniteSet(set)
    PROVE  IsListOf(set, Sorted(set))
  <1> DEFINE n == Cardinality(set)
             rank == [value \in set |-> RankIn(set, value) + 1]
             s == Sorted(set)
  <1>1. n \in Nat
    BY FS_CardinalityType
  <1>2. \A x \in set : RankIn(set, x) \in 0 .. n - 1
    BY RankIsLess
  <1>3. \A x, y \in set : x < y => RankIn(set, x) < RankIn(set, y)
    BY RanksDiffer
  <1>4. \A x, y \in set : RankIn(set, x) = RankIn(set, y) => x = y
    <2> SUFFICES ASSUME NEW x \in set, NEW y \in set, RankIn(set, x) = RankIn(set, y) PROVE x = y
      OBVIOUS
    <2>1. ~(x < y) /\ ~(y < x)
      BY <1>2, <1>3
    <2> QED
      BY <2>1
  <1> HIDE DEF n
  <1>5. \A x \in set : rank[x] \in 1..n /\ rank[x] = RankIn(set, x) + 1
    BY <1>1, <1>2
  <1>6. rank \in [set -> 1..n]
    BY <1>5
  <1> HIDE DEF rank
  <1>7. rank \in Injection(set, 1..n)
    <2>1. \A x, y \in set : rank[x] = rank[y] => x = y
      BY <1>2, <1>4, <1>5
    <2>2. DOMAIN rank = set
      BY <1>6
    <2> QED
      BY <1>6, <2>1, <2>2 DEF Injection, IsInjective
  <1>8. IsFiniteSet(1..n) /\ Cardinality(1..n) = n
    <2>1. 1 \in Int /\ n \in Int
      BY <1>1
    <2>2. /\ IsFiniteSet(1..n)
          /\ Cardinality(1..n) = IF 1 > n THEN 0 ELSE (n - 1) + 1
      BY <2>1, FS_Interval, Zenon
    <2>3. (IF 1 > n THEN 0 ELSE (n - 1) + 1) = n
      BY <1>1
    <2> QED
      BY <2>2, <2>3
  <1>9. rank \in Surjection(set, 1..n)
    BY <1>7, <1>8, FS_Injection DEF n
  <1>10. \A k \in 1..n : \E x \in set : RankIn(set, x) = k - 1
    <2> SUFFICES ASSUME NEW k \in 1..n PROVE \E x \in set : RankIn(set, x) = k - 1
      OBVIOUS
    <2>1. PICK x \in set : rank[x] = k
      BY <1>9 DEF Surjection
    <2>2. RankIn(set, x) = k - 1
      BY <1>2, <1>5, <2>1
    <2> QED
      BY <2>2
  <1>11. s = [k \in 1..n |-> CHOOSE x \in set : RankIn(set, x) = k - 1]
    BY DEF Sorted, RankIn, Below, n
  <1> HIDE DEF s
  <1>12. \A k \in 1..n : s[k] \in set /\ RankIn(set, s[k]) = k - 1
    BY <1>10, <1>11
  <1>13. s \in [1..n -> set]
    BY <1>11, <1>12
  <1>14. ASSUME NEW j \in 1..n, NEW k \in 1..n, j < k PROVE s[j] < s[k]
    <2>1. s[j] \in set /\ s[k] \in set /\ s[j] \in Int /\ s[k] \in Int
      BY <1>12
    <2>2. RankIn(set, s[j]) = j - 1 /\ RankIn(set, s[k]) = k - 1
      BY <1>12
    <2>3. ~(RankIn(set, s[k]) < RankIn(set, s[j])) /\ RankIn(set, s[k]) # RankIn(set, s[j])
      BY <1>14, <2>2
    <2>4. ~(s[k] < s[j]) /\ s[j] # s[k]
      BY <1>3, <2>1, <2>3
    <2> QED
      BY <2>1, <2>4
  <1>15. ASSUME NEW value \in set PROVE \E k \in 1..n : s[k] = value
    <2> DEFINE k == rank[value]
    <2>1. k \in 1..n /\ k - 1 = RankIn(set, value)
      BY <1>2, <1>5
    <2>2. s[k] = value
      BY <1>4, <1>12, <2>1
    <2> QED
      BY <2>1, <2>2
  <1> QED
    BY <1>1, <1>13, <1>14, <1>15 DEF IsListOf, s, n

LEMMA ListLength ==
    ASSUME NEW set, NEW s, IsListOf(set, s)
    PROVE  s \in Seq(set) /\ Len(s) = Cardinality(set) /\ ToSet(s) = set
  <1>1. s \in Seq(set) /\ Len(s) = Cardinality(set) /\ DOMAIN s = 1 .. Cardinality(set)
    BY DEF IsListOf
  <1> QED
    BY <1>1 DEF IsListOf, ToSet

(* An injective sequence is as long as the set of its values is large.        *)
LEMMA InjectiveLength ==
    ASSUME NEW S, NEW s \in Seq(S), IsInjective(s)
    PROVE  IsFiniteSet(ToSet(s)) /\ Cardinality(ToSet(s)) = Len(s)
  <1> DEFINE n == Len(s)
             T == ToSet(s)
  <1>1. n \in Nat /\ DOMAIN s = 1..n /\ s = [k \in 1..n |-> s[k]]
    BY LenProperties
  <1>2. T = {s[k] : k \in 1..n}
    BY <1>1 DEF ToSet
  <1> HIDE DEF T, n
  <1>3. s \in [1..n -> T] /\ \A t \in T : \E k \in 1..n : s[k] = t
    BY <1>1, <1>2
  <1>4. s \in Surjection(1..n, T) /\ s \in Injection(1..n, T)
    BY <1>3 DEF Surjection, Injection
  <1>5. IsFiniteSet(1..n) /\ Cardinality(1..n) = n
    <2>1. 1 \in Int /\ n \in Int
      BY <1>1
    <2>2. /\ IsFiniteSet(1..n)
          /\ Cardinality(1..n) = IF 1 > n THEN 0 ELSE (n - 1) + 1
      BY <2>1, FS_Interval, Zenon
    <2> QED
      BY <1>1, <2>2
  <1>6. IsFiniteSet(T) /\ Cardinality(T) = n
    BY <1>4, <1>5, FS_Surjection
  <1> QED
    BY <1>6 DEF T, n

-----------------------------------------------------------------------------
(* A sequence that has each value of a set once.                              *)
OnceEach(S, set, s) == s \in Seq(S) /\ IsInjective(s) /\ ToSet(s) = set

LEMMA AppendedOnce ==
    ASSUME NEW S, NEW set, NEW s, OnceEach(S, set, s), NEW value \in S, value \notin set
    PROVE  OnceEach(S, set \cup {value}, Append(s, value))
  <1> DEFINE n == Len(s)
             t == Append(s, value)
             more == set \cup {value}
  <1>1. /\ s \in Seq(S) /\ n \in Nat /\ DOMAIN s = 1..n /\ set = {s[k] : k \in 1..n}
        /\ \A a, b \in DOMAIN s : s[a] = s[b] => a = b
    BY LenProperties DEF OnceEach, ToSet, IsInjective
  <1>2. t \in Seq(S) /\ Len(t) = n + 1 /\ t[n + 1] = value /\ \A k \in 1..n : t[k] = s[k]
    BY <1>1, AppendProperties
  <1> HIDE DEF t, n, more
  <1>3. DOMAIN t = 1 .. n + 1
    BY <1>2, LenProperties
  <1>4. \A k \in 1 .. n + 1 : k = n + 1 \/ k \in 1..n
    BY <1>1
  <1>5. {t[k] : k \in 1 .. n + 1} = more
    <2>1. n + 1 \in 1 .. n + 1 /\ \A k \in 1..n : k \in 1 .. n + 1
      BY <1>1
    <2>2. ASSUME NEW k \in 1 .. n + 1 PROVE t[k] \in more
      BY <1>1, <1>2, <1>4 DEF more
    <2>3. ASSUME NEW x \in more PROVE \E k \in 1 .. n + 1 : x = t[k]
      BY <1>1, <1>2, <2>1, <2>3 DEF more
    <2> QED
      BY <2>2, <2>3
  <1>6. ASSUME NEW a \in DOMAIN t, NEW b \in DOMAIN t, t[a] = t[b] PROVE a = b
    <2>1. \A k \in 1..n : t[k] # value
      BY <1>1, <1>2
    <2>2. \A j, k \in 1..n : t[j] = t[k] => j = k
      BY <1>1, <1>2
    <2> QED
      BY <1>2, <1>3, <1>4, <1>6, <2>1, <2>2
  <1>7. IsInjective(t)
    BY <1>6 DEF IsInjective
  <1>8. ToSet(t) = more
    BY <1>3, <1>5 DEF ToSet
  <1>9. OnceEach(S, more, t)
    BY <1>2, <1>7, <1>8 DEF OnceEach
  <1> QED
    BY <1>9 DEF t, more

(* make_intersection(): what is left to find, and what has been found.        *)
SeenIn(rhs, k) == {rhs[j] : j \in 1..k}

FoundIn(A, rhs, k, state) ==
    state.set = A \ SeenIn(rhs, k) /\ OnceEach(A, A \cap SeenIn(rhs, k), state.result)

FindNext(state, value) ==
    IF value \in state.set
    THEN [set |-> state.set \ {value}, result |-> Append(state.result, value)]
    ELSE state

LEMMA FoundNext ==
    ASSUME NEW A, NEW rhs, NEW k \in Nat, NEW state, FoundIn(A, rhs, k, state)
    PROVE  FoundIn(A, rhs, k + 1, FindNext(state, rhs[k + 1]))
  <1> DEFINE seen == SeenIn(rhs, k)
             more == SeenIn(rhs, k + 1)
             value == rhs[k + 1]
             next == FindNext(state, value)
             found == A \cap seen
  <1>1. more = seen \cup {value}
    <2>1. \A j : j \in 1 .. k + 1 <=> j \in 1..k \/ j = k + 1
      OBVIOUS
    <2> QED
      BY <2>1 DEF SeenIn
  <1>2. state.set = A \ seen /\ OnceEach(A, found, state.result)
    BY DEF FoundIn
  <1>3. next = IF value \in state.set
               THEN [set |-> state.set \ {value}, result |-> Append(state.result, value)]
               ELSE state
    BY DEF FindNext
  <1> HIDE DEF seen, more, value, next
  <1>4. CASE value \in state.set
    <2>1. value \in A /\ value \notin found
      BY <1>2, <1>4
    <2>2. next.set = state.set \ {value} /\ next.result = Append(state.result, value)
      BY <1>3, <1>4
    <2>3. found \cup {value} = A \cap more /\ state.set \ {value} = A \ more
      BY <1>1, <1>2, <2>1
    <2> HIDE DEF found
    <2>4. OnceEach(A, found \cup {value}, next.result)
      BY <1>2, <2>1, <2>2, AppendedOnce
    <2>5. next.set = A \ more /\ OnceEach(A, A \cap more, next.result)
      BY <2>2, <2>3, <2>4, Zenon
    <2> QED
      BY <2>5 DEF FoundIn, more, next, value
  <1>5. CASE value \notin state.set
    <2>1. next = state
      BY <1>3, <1>5
    <2>2. A \ more = A \ seen /\ A \cap more = found
      BY <1>1, <1>2, <1>5
    <2>3. next.set = A \ more /\ OnceEach(A, A \cap more, next.result)
      BY <1>2, <2>1, <2>2, Zenon
    <2> QED
      BY <2>3 DEF FoundIn, more, next, value
  <1> QED
    BY <1>4, <1>5

LEMMA IntersectionIs ==
    ASSUME NEW lhs, NEW rhs, Len(rhs) \in Nat
    PROVE  OnceEach(ToSet(lhs), ToSet(lhs) \cap SeenIn(rhs, Len(rhs)), MakeIntersection(lhs, rhs))
  <1> DEFINE A == ToSet(lhs)
             n == Len(rhs)
             S == [set : SUBSET A, result : Seq(A)]
             start == [set |-> A, result |-> <<>>]
             step == [p \in Nat \X S |-> FindNext(p[2], rhs[p[1] + 1])]
             Rec(f) == f = [k \in 0..n |-> IF k = 0 THEN start ELSE FindNext(f[k - 1], rhs[k])]
  <1>1. start \in S
    OBVIOUS
  <1>2. \A state \in S : \A value : FindNext(state, value) \in S
    <2> SUFFICES ASSUME NEW state \in S, NEW value PROVE FindNext(state, value) \in S
      OBVIOUS
    <2>1. state.set \in SUBSET A /\ state.result \in Seq(A)
      OBVIOUS
    <2>2. CASE value \in state.set
      <3>1. Append(state.result, value) \in Seq(A) /\ state.set \ {value} \in SUBSET A
        BY <2>1, <2>2, AppendProperties
      <3>2. FindNext(state, value) =
                [set |-> state.set \ {value}, result |-> Append(state.result, value)]
        BY <2>2 DEF FindNext
      <3> QED
        BY <3>1, <3>2
    <2> QED
      BY <2>2 DEF FindNext
  <1> HIDE DEF S, start
  <1>3. step \in [Nat \X S -> S]
    BY <1>2
  <1>4. \A k \in Nat, s \in S : step[<<k, s>>] = FindNext(s, rhs[k + 1])
    OBVIOUS
  <1> HIDE DEF step
  <1>5. PICK f \in [Nat -> S] : f[0] = start /\ \A k \in Nat : f[k + 1] = step[<<k, f[k]>>]
    <2>1. \E f \in [Nat -> S] : Iterates(f, start, step)
      BY <1>1, <1>3, IterationExists
    <2> QED
      BY <2>1 DEF Iterates
  <1> DEFINE c == [k \in 0..n |-> f[k]]
  <1>6. ASSUME NEW k \in 0..n
        PROVE  c[k] = IF k = 0 THEN start ELSE FindNext(c[k - 1], rhs[k])
    <2>1. CASE k = 0
      BY <1>5, <2>1
    <2>2. CASE k # 0
      <3>1. k - 1 \in Nat /\ k - 1 \in 0..n /\ (k - 1) + 1 = k
        BY <2>2
      <3>2. f[k] = step[<<k - 1, f[k - 1]>>] /\ f[k - 1] \in S
        BY <1>5, <3>1
      <3>3. c[k] = f[k] /\ c[k - 1] = f[k - 1]
        BY <3>1
      <3>4. step[<<k - 1, f[k - 1]>>] = FindNext(f[k - 1], rhs[k])
        BY <1>4, <3>1, <3>2
      <3> HIDE DEF c
      <3> QED
        BY <2>2, <3>2, <3>3, <3>4
    <2> QED
      BY <2>1, <2>2
  <1>7. Rec(c)
    BY <1>6
  <1> DEFINE found == CHOOSE g : Rec(g)
  <1>8. Rec(found)
    <2> HIDE DEF Rec, c
    <2> QED
      BY <1>7
  <1>9. MakeIntersection(lhs, rhs) = found[n].result
    BY DEF MakeIntersection, FindNext, start
  <1> HIDE DEF found, A, n
  <1>10. \A k \in 0..n : found[k] = IF k = 0 THEN start ELSE FindNext(found[k - 1], rhs[k])
    BY <1>8
  <1> HIDE DEF Rec
  <1> DEFINE P == {k \in Nat : k <= n => FoundIn(A, rhs, k, found[k])}
  <1>11. n \in Nat
    BY DEF n
  <1>12. 0 \in P
    <2>1. found[0].set = A /\ found[0].result = <<>>
      BY <1>10, <1>11 DEF start
    <2>2. SeenIn(rhs, 0) = {}
      BY DEF SeenIn
    <2>3. OnceEach(A, {}, <<>>)
      BY DEF OnceEach, IsInjective, ToSet
    <2>4. A \ {} = A /\ A \cap {} = {}
      OBVIOUS
    <2>5. FoundIn(A, rhs, 0, found[0])
      BY <2>1, <2>2, <2>3, <2>4 DEF FoundIn
    <2> QED
      BY <2>5
  <1>13. ASSUME NEW k \in Nat, k \in P PROVE k + 1 \in P
    <2> SUFFICES ASSUME k + 1 <= n PROVE FoundIn(A, rhs, k + 1, found[k + 1])
      OBVIOUS
    <2>1. k <= n /\ k + 1 \in 0..n /\ k + 1 # 0 /\ (k + 1) - 1 = k
      BY <1>11
    <2>2. FoundIn(A, rhs, k, found[k])
      BY <1>13, <2>1
    <2>3. found[k + 1] = FindNext(found[k], rhs[k + 1])
      BY <1>10, <2>1
    <2> QED
      BY <2>2, <2>3, FoundNext
  <1>14. n \in P
    <2> HIDE DEF P
    <2>1. Nat \subseteq P
      BY <1>12, <1>13, Induction
    <2> QED
      BY <1>11, <2>1
  <1>15. FoundIn(A, rhs, n, found[n])
    BY <1>11, <1>14
  <1>16. OnceEach(A, A \cap SeenIn(rhs, n), found[n].result)
    BY <1>15 DEF FoundIn
  <1> QED
    BY <1>9, <1>16 DEF A, n

LEMMA ValuesOfList ==
    ASSUME NEW s \in Seq(Int)
    PROVE  IsFiniteSet(ToSet(s)) /\ ToSet(s) \in SUBSET Int
  <1>1. Len(s) \in Nat /\ DOMAIN s = 1 .. Len(s) /\ s = [k \in 1 .. Len(s) |-> s[k]]
    BY LenProperties
  <1>2. \A k \in 1 .. Len(s) : s[k] \in Int
    BY ElementOfSeq
  <1> QED
    BY <1>1, <1>2, FiniteList DEF ToSet

LEMMA SetsAddUp ==
    ASSUME NEW lhs \in Seq(Int), NEW rhs \in Seq(Int)
    PROVE  SetsAdd(lhs, rhs)
  <1> DEFINE A == ToSet(lhs)
             B == ToSet(rhs)
             both == MakeIntersection(lhs, rhs)
             union == MakeUnion(lhs, rhs)
             complement == MakeComplement(lhs, rhs)
  <1>1. IsFiniteSet(A) /\ IsFiniteSet(B) /\ A \in SUBSET Int /\ B \in SUBSET Int
    BY ValuesOfList
  <1>2. B = SeenIn(rhs, Len(rhs)) /\ Len(rhs) \in Nat
    BY LenProperties DEF ToSet, SeenIn
  <1>3. OnceEach(A, A \cap B, both)
    BY <1>2, IntersectionIs
  <1>4. \A value : ContainsValue(rhs, value) <=> value \in B
    BY <1>2 DEF ContainsValue, SeenIn
  <1>5. union = Sorted(A \cup B) /\ complement = Sorted((A \ B) \cup (B \ A))
    BY DEF MakeUnion, MakeComplement
  <1> DEFINE apart == (A \ B) \cup (B \ A)
             all == A \cup B
             shared == A \cap B
  <1> HIDE DEF A, B, both, union, complement
  <1>6. /\ IsFiniteSet(all) /\ all \in SUBSET Int
        /\ IsFiniteSet(apart) /\ apart \in SUBSET Int
    <2>1. IsFiniteSet(all) /\ apart \in SUBSET all
      BY <1>1, FS_Union
    <2> QED
      BY <1>1, <2>1, FS_Subset
  <1>7. all \cap shared = shared /\ all \ shared = apart
    OBVIOUS
  <1> HIDE DEF all, apart, shared
  <1>8. Cardinality(apart) = Cardinality(all) - Cardinality(shared)
    <2>1. Cardinality(all \ shared) = Cardinality(all) - Cardinality(all \cap shared)
      BY <1>6, FS_Difference
    <2> QED
      BY <1>7, <2>1
  <1>9. Len(union) = Cardinality(all) /\ Len(complement) = Cardinality(apart)
    <2>1. IsListOf(all, union) /\ IsListOf(apart, complement)
      BY <1>5, <1>6, SortedLists DEF all, apart
    <2> QED
      BY <2>1, ListLength
  <1>10. /\ Len(both) = Cardinality(shared) /\ IsInjective(both) /\ ToSet(both) = shared
    BY <1>3, InjectiveLength DEF OnceEach, shared
  <1>11. Cardinality(all) \in Nat /\ Cardinality(shared) \in Nat
    <2>1. shared \in SUBSET all
      BY DEF shared, all
    <2> QED
      BY <1>6, <2>1, FS_Subset, FS_CardinalityType
  <1>12. Len(both) + Len(complement) = Len(union)
    BY <1>8, <1>9, <1>10, <1>11
  <1>13. shared = {value \in A : ContainsValue(rhs, value)}
    BY <1>4 DEF shared
  <1> QED
    BY <1>10, <1>12, <1>13 DEF SetsAdd, A, both, union, complement

(* A map of these keys to these values, in the order of the keys.             *)
MapIs(map, keys, values) ==
    /\ Len(map) \in Nat /\ DOMAIN map = 1 .. Len(map)
    /\ \A j, k \in 1 .. Len(map) : j < k => map[j][1] < map[k][1]
    /\ \A k \in 1 .. Len(map) :
          map[k][1] \in keys /\ map[k] = <<map[k][1], values[map[k][1]]>>
    /\ \A key \in keys : \E k \in 1 .. Len(map) : map[k][1] = key

LEMMA OnePlace ==
    ASSUME NEW keys \in SUBSET Int, NEW map, NEW values, MapIs(map, keys, values), NEW key \in keys
    PROVE  \E k \in 1 .. Len(map) : map[k][1] = key /\ EqualRange(map, key) = {k}
                                        /\ Min(EqualRange(map, key)) = k
  <1>1. PICK k \in 1 .. Len(map) : map[k][1] = key
    BY DEF MapIs
  <1>2. ASSUME NEW j \in 1 .. Len(map), map[j][1] = key PROVE j = k
    <2>1. map[j][1] \in Int /\ map[k][1] \in Int /\ j \in Int /\ k \in Int
      BY <1>1, <1>2
    <2>2. ~(map[j][1] < map[k][1]) /\ ~(map[k][1] < map[j][1])
      BY <1>1, <1>2, <2>1
    <2>3. ~(j < k) /\ ~(k < j)
      BY <2>2 DEF MapIs
    <2> QED
      BY <2>1, <2>3
  <1>3. EqualRange(map, key) = {k}
    BY <1>1, <1>2 DEF EqualRange
  <1>4. Min({k}) = k
    <2>1. \A x \in {k} : (\A y \in {k} : x <= y) => x = k
      OBVIOUS
    <2>2. k \in {k} /\ \A y \in {k} : k <= y
      OBVIOUS
    <2> QED
      BY <2>1, <2>2 DEF Min
  <1> QED
    BY <1>1, <1>3, <1>4

LEMMA MapFinds ==
    ASSUME NEW keys \in SUBSET Int, NEW map, NEW values, MapIs(map, keys, values), NEW key
    PROVE  /\ ContainsKey(map, key) <=> key \in keys
           /\ \A default : FindOrDefault(map, key, default) =
                               IF key \in keys THEN values[key] ELSE default
           /\ key \in keys => ContainsPair(map, <<key, values[key]>>)
  <1>1. CASE key \in keys
    <2>1. PICK k \in 1 .. Len(map) : /\ map[k][1] = key /\ EqualRange(map, key) = {k}
                                     /\ Min(EqualRange(map, key)) = k
      BY <1>1, OnePlace
    <2>2. map[k] = <<key, values[key]>>
      BY <2>1 DEF MapIs
    <2>3. map[k][2] = values[key]
      BY <2>2
    <2>4. ContainsKey(map, key) /\ \A default : FindOrDefault(map, key, default) = values[key]
      BY <2>1, <2>3 DEF ContainsKey, FindOrDefault
    <2>5. ContainsPair(map, <<key, values[key]>>)
      BY <2>1, <2>2 DEF ContainsPair
    <2> QED
      BY <1>1, <2>4, <2>5
  <1>2. CASE key \notin keys
    <2>1. EqualRange(map, key) = {}
      BY <1>2 DEF EqualRange, MapIs
    <2> QED
      BY <1>2, <2>1 DEF ContainsKey, FindOrDefault
  <1> QED
    BY <1>1, <1>2

LEMMA MapOfKeys ==
    ASSUME NEW keys \in SUBSET Int, IsFiniteSet(keys)
    PROVE  /\ MapIs(MapOf(keys), keys, [key \in keys |-> "old"])
           /\ MapOf(keys) \in Seq(Int \X {"old", "new"})
  <1> DEFINE n == Cardinality(keys)
             s == Sorted(keys)
             map == MapOf(keys)
             values == [key \in keys |-> "old"]
  <1>1. /\ n \in Nat /\ s \in [1..n -> keys] /\ \A j, k \in 1..n : j < k => s[j] < s[k]
        /\ \A value \in keys : \E k \in 1..n : s[k] = value
    BY SortedLists DEF IsListOf
  <1>2. map = [k \in 1..n |-> <<s[k], "old">>]
    BY DEF MapOf
  <1> HIDE DEF n, s, map
  <1>3. \A k \in 1..n : s[k] \in keys /\ map[k] = <<s[k], "old">> /\ map[k][1] = s[k]
    BY <1>1, <1>2
  <1>4. map \in Seq(Int \X {"old", "new"}) /\ Len(map) = n /\ DOMAIN map = 1..n
    <2>1. \A k \in 1..n : <<s[k], "old">> \in Int \X {"old", "new"}
      BY <1>3
    <2> DEFINE P == Int \X {"old", "new"}
    <2> HIDE DEF P
    <2>2. map \in [1..n -> P]
      BY <1>2, <2>1 DEF P
    <2>3. map \in Seq(P) /\ Len(map) = n /\ DOMAIN map = 1..n
      BY <1>1, <2>2
    <2> QED
      BY <2>3 DEF P
  <1>5. \A k \in 1..n : values[map[k][1]] = "old"
    BY <1>3
  <1> HIDE DEF values
  <1>6. MapIs(map, keys, values)
    <2>1. \A j, k \in 1..n : j < k => map[j][1] < map[k][1]
      BY <1>1, <1>3
    <2>2. \A k \in 1..n : map[k][1] \in keys /\ map[k] = <<map[k][1], values[map[k][1]]>>
      BY <1>3, <1>5
    <2>3. \A key \in keys : \E k \in 1..n : map[k][1] = key
      BY <1>1, <1>3
    <2> QED
      BY <1>1, <1>4, <2>1, <2>2, <2>3 DEF MapIs
  <1> QED
    BY <1>4, <1>6 DEF map, values

(* Where a key that is new belongs.                                           *)
LEMMA PlaceOf ==
    ASSUME NEW keys \in SUBSET Int, NEW map, NEW values, MapIs(map, keys, values),
           NEW key \in Int \ keys
    PROVE  LET lower == {k \in 1 .. Len(map) : map[k][1] < key}
           IN /\ Cardinality(lower) \in 0 .. Len(map)
              /\ \A k \in 1 .. Len(map) : IF k <= Cardinality(lower) THEN map[k][1] < key
                                          ELSE key < map[k][1]
  <1> DEFINE n == Len(map)
             lower == {k \in 1..n : map[k][1] < key}
             T == (1 .. n + 1) \ lower
             p == Min(T) - 1
  <1>1. /\ n \in Nat /\ \A j, k \in 1..n : j < k => map[j][1] < map[k][1]
        /\ \A k \in 1..n : map[k][1] \in Int /\ map[k][1] # key
    BY DEF MapIs
  <1> HIDE DEF n
  <1>2. T \subseteq Nat /\ n + 1 \in T
    BY <1>1
  <1> HIDE DEF T
  <1>3. Min(T) \in T /\ \A y \in T : Min(T) <= y
    BY <1>2, SmallestIn
  <1>4. p \in 0..n
    BY <1>1, <1>3 DEF T
  <1> DEFINE t == Min(T)
  <1>5. t \in 1 .. n + 1 /\ p = t - 1 /\ t \notin lower /\ \A k \in 1 .. n + 1 : k < t => k \in lower
    <2>1. t \in 1 .. n + 1 /\ t \notin lower
      BY <1>3 DEF T
    <2>2. ASSUME NEW k \in 1 .. n + 1, k < t PROVE k \in lower
      <3>1. k \notin T
        BY <1>3, <2>1, <2>2
      <3> QED
        BY <3>1 DEF T
    <2> QED
      BY <2>1, <2>2
  <1> HIDE DEF t, p
  <1>6. ASSUME NEW k \in 1..n, t <= k PROVE k \notin lower
    <2>1. t \in 1..n /\ ~(map[t][1] < key)
      BY <1>1, <1>5, <1>6
    <2>2. map[t][1] \in Int /\ map[k][1] \in Int /\ (t = k \/ map[t][1] < map[k][1])
      BY <1>1, <1>6, <2>1
    <2> QED
      BY <2>1, <2>2
  <1>7. lower = 1..p
    <2>1. ASSUME NEW k \in lower PROVE k \in 1..p
      <3>1. k \in 1..n /\ ~(t <= k)
        BY <1>6, <2>1
      <3> QED
        BY <1>1, <1>5, <3>1
    <2>2. ASSUME NEW k \in 1..p PROVE k \in lower
      <3>1. k \in 1 .. n + 1 /\ k < t
        BY <1>1, <1>4, <1>5
      <3> QED
        BY <1>5, <3>1
    <2> HIDE DEF lower
    <2> QED
      BY <2>1, <2>2
  <1>8. ASSUME NEW k \in 1..n PROVE IF k <= p THEN map[k][1] < key ELSE key < map[k][1]
    <2>1. k <= p <=> k \in lower
      BY <1>1, <1>4, <1>7
    <2> QED
      BY <1>1, <2>1
  <1> HIDE DEF lower
  <1>9. Cardinality(1..p) = p
    <2>1. 1 \in Int /\ p \in Int
      BY <1>4
    <2>2. Cardinality(1..p) = IF 1 > p THEN 0 ELSE (p - 1) + 1
      BY <2>1, FS_Interval, Zenon
    <2> QED
      BY <1>4, <2>2
  <1> QED
    BY <1>4, <1>7, <1>8, <1>9 DEF n, lower

(* A sequence with a pair behind the first p.                                 *)
InsertedBehind(map, pair, p) == SubSeq(map, 1, p) \o <<pair>> \o SubSeq(map, p + 1, Len(map))

InsertedAt(S, map, pair, p, inserted) ==
    /\ inserted \in Seq(S) /\ Len(inserted) = Len(map) + 1
    /\ \A k \in 1 .. Len(map) + 1 :
           inserted[k] = IF k <= p THEN map[k] ELSE IF k = p + 1 THEN pair ELSE map[k - 1]

LEMMA InsertedInto ==
    ASSUME NEW S, NEW map \in Seq(S), NEW pair \in S, NEW p \in 0 .. Len(map)
    PROVE  InsertedAt(S, map, pair, p, InsertedBehind(map, pair, p))
  <1> DEFINE n == Len(map)
             front == SubSeq(map, 1, p)
             back == SubSeq(map, p + 1, n)
             one == <<pair>>
             both == front \o one
             inserted == InsertedBehind(map, pair, p)
  <1>1. n \in Nat /\ p \in Nat /\ p <= n /\ \A k \in 1..n : map[k] \in S
    BY LenProperties, ElementOfSeq
  <1> HIDE DEF n
  <1>2. front \in Seq(S) /\ Len(front) = p /\ \A k \in 1..p : front[k] = map[k]
    <2>1. 1 \in Int /\ p \in Int /\ \A k \in 1..p : map[k] \in S
      BY <1>1
    <2>2. /\ front \in Seq(S) /\ Len(front) = IF 1 <= p THEN p - 1 + 1 ELSE 0
          /\ \A k \in 1 .. p - 1 + 1 : front[k] = map[1 + k - 1]
      BY <2>1, SubSeqProperties
    <2> HIDE DEF front
    <2> QED
      BY <1>1, <2>2
  <1>3. back \in Seq(S) /\ Len(back) = n - p /\ \A k \in 1 .. n - p : back[k] = map[p + k]
    <2>1. p + 1 \in Int /\ n \in Int /\ \A k \in p + 1 .. n : map[k] \in S
      BY <1>1
    <2>2. /\ back \in Seq(S) /\ Len(back) = IF p + 1 <= n THEN n - (p + 1) + 1 ELSE 0
          /\ \A k \in 1 .. n - (p + 1) + 1 : back[k] = map[p + 1 + k - 1]
      BY <2>1, SubSeqProperties
    <2> HIDE DEF back
    <2> QED
      BY <1>1, <2>2
  <1>4. one \in Seq(S) /\ Len(one) = 1 /\ one[1] = pair
    OBVIOUS
  <1> HIDE DEF front, back, one
  <1>5. /\ both \in Seq(S) /\ Len(both) = p + 1
        /\ \A k \in 1 .. p + 1 : both[k] = IF k <= p THEN front[k] ELSE one[k - p]
    <2>1. /\ both \in Seq(S) /\ Len(both) = Len(front) + Len(one)
          /\ \A k \in 1 .. Len(front) + Len(one) :
                both[k] = IF k <= Len(front) THEN front[k] ELSE one[k - Len(front)]
      BY <1>2, <1>4, ConcatProperties
    <2> HIDE DEF both
    <2> QED
      BY <1>2, <1>4, <2>1
  <1>6. inserted = both \o back
    BY DEF both, front, back, one, n, InsertedBehind
  <1> HIDE DEF both, inserted
  <1>7. /\ inserted \in Seq(S) /\ Len(inserted) = p + 1 + (n - p)
        /\ \A k \in 1 .. p + 1 + (n - p) :
              inserted[k] = IF k <= p + 1 THEN both[k] ELSE back[k - (p + 1)]
    <2>1. /\ both \o back \in Seq(S) /\ Len(both \o back) = Len(both) + Len(back)
          /\ \A k \in 1 .. Len(both) + Len(back) :
                (both \o back)[k] = IF k <= Len(both) THEN both[k] ELSE back[k - Len(both)]
      BY <1>3, <1>5, ConcatProperties
    <2> QED
      BY <1>3, <1>5, <1>6, <2>1
  <1>8. p + 1 + (n - p) = n + 1
    BY <1>1
  <1>9. ASSUME NEW k \in 1 .. n + 1
        PROVE  inserted[k] = IF k <= p THEN map[k] ELSE IF k = p + 1 THEN pair ELSE map[k - 1]
    <2>1. CASE k <= p
      <3>1. k \in 1..p /\ k \in 1 .. p + 1 /\ k <= p + 1
        BY <1>1, <2>1
      <3> QED
        BY <1>2, <1>5, <1>7, <1>8, <2>1, <3>1
    <2>2. CASE k = p + 1
      <3>1. ~(k <= p) /\ k - p = 1 /\ k <= p + 1 /\ k \in 1 .. p + 1
        BY <1>1, <2>2
      <3> QED
        BY <1>4, <1>5, <1>7, <1>8, <2>2, <3>1
    <2>3. CASE k > p + 1
      <3>1. /\ ~(k <= p + 1) /\ ~(k <= p) /\ k # p + 1
            /\ k - (p + 1) \in 1 .. n - p /\ p + (k - (p + 1)) = k - 1
        BY <1>1, <2>3
      <3> QED
        BY <1>3, <1>7, <1>8, <3>1
    <2>4. k <= p \/ k = p + 1 \/ k > p + 1
      BY <1>1
    <2> QED
      BY <2>1, <2>2, <2>3, <2>4
  <1> QED
    BY <1>7, <1>8, <1>9 DEF n, inserted, InsertedAt

(* The values of a map that has had one replaced.                             *)
WithValue(keys, values, key, value) ==
    [k \in keys \cup {key} |-> IF k = key THEN value ELSE values[k]]

LEMMA ReplacedInPlace ==
    ASSUME NEW keys \in SUBSET Int, NEW map, NEW values, MapIs(map, keys, values),
           NEW key \in keys, NEW value
    PROVE  MapIs(ReplaceValue(map, key, value).map, keys \cup {key},
                 WithValue(keys, values, key, value))
  <1> DEFINE n == Len(map)
             pair == <<key, value>>
             new == WithValue(keys, values, key, value)
             all == keys \cup {key}
  <1>1. PICK q \in 1..n : /\ map[q][1] = key /\ EqualRange(map, key) = {q}
                          /\ Min(EqualRange(map, key)) = q
    BY OnePlace
  <1>2. /\ n \in Nat /\ DOMAIN map = 1..n
        /\ \A j, k \in 1..n : j < k => map[j][1] < map[k][1]
        /\ \A k \in 1..n : map[k][1] \in keys /\ map[k] = <<map[k][1], values[map[k][1]]>>
        /\ \A other_key \in keys : \E k \in 1..n : map[k][1] = other_key
    BY DEF MapIs
  <1> DEFINE replaced == [map EXCEPT ![q] = pair]
  <1>3. ReplaceValue(map, key, value).map = replaced
    <2>1. ContainsKey(map, key)
      BY <1>1 DEF ContainsKey
    <2> QED
      BY <1>1, <2>1 DEF ReplaceValue
  <1>4. \A k \in 1..n : k # q => map[k][1] # key
    BY <1>1 DEF EqualRange
  <1> HIDE DEF n
  <1>5. /\ \A k \in 1..n : replaced[k] = IF k = q THEN pair ELSE map[k]
        /\ DOMAIN replaced = 1..n /\ Len(replaced) = n
    BY <1>1, <1>2
  <1> HIDE DEF replaced
  <1>6. pair[1] = key
    OBVIOUS
  <1>7. \A k \in 1..n : replaced[k][1] = map[k][1]
    BY <1>1, <1>5, <1>6
  <1>8. all = keys
    OBVIOUS
  <1>9. \A k \in keys : new[k] = IF k = key THEN value ELSE values[k]
    BY DEF WithValue
  <1> HIDE DEF new, all
  <1>10. ASSUME NEW k \in 1..n
         PROVE  replaced[k][1] \in all /\ replaced[k] = <<replaced[k][1], new[replaced[k][1]]>>
    <2>1. replaced[k][1] \in keys
      BY <1>2, <1>7
    <2>2. CASE k = q
      <3>1. new[key] = value /\ replaced[k] = pair
        BY <1>5, <1>9, <2>2
      <3> QED
        BY <1>6, <1>8, <2>1, <3>1
    <2>3. CASE k # q
      <3>1. replaced[k] = map[k] /\ new[map[k][1]] = values[map[k][1]]
        BY <1>2, <1>4, <1>5, <1>9, <2>3
      <3> QED
        BY <1>2, <1>8, <2>1, <3>1
    <2> QED
      BY <2>2, <2>3
  <1>11. \A j, k \in 1..n : j < k => replaced[j][1] < replaced[k][1]
    BY <1>2, <1>7
  <1>12. \A other_key \in all : \E k \in 1..n : replaced[k][1] = other_key
    BY <1>2, <1>7, <1>8
  <1>13. MapIs(replaced, all, new)
    BY <1>2, <1>5, <1>10, <1>11, <1>12 DEF MapIs
  <1> QED
    BY <1>3, <1>13 DEF all, new

LEMMA ReplacedInserts ==
    ASSUME NEW keys \in SUBSET Int, NEW map, NEW values, MapIs(map, keys, values),
           NEW key \in Int \ keys, NEW value, NEW S, map \in Seq(S), <<key, value>> \in S
    PROVE  MapIs(ReplaceValue(map, key, value).map, keys \cup {key},
                 WithValue(keys, values, key, value))
  <1> DEFINE n == Len(map)
             pair == <<key, value>>
             new == WithValue(keys, values, key, value)
             all == keys \cup {key}
             p == Cardinality({k \in 1 .. Len(map) : map[k][1] < key})
             inserted == ReplaceValue(map, key, value).map
  <1>1. /\ n \in Nat
        /\ \A j, k \in 1..n : j < k => map[j][1] < map[k][1]
        /\ \A k \in 1..n : map[k][1] \in keys /\ map[k] = <<map[k][1], values[map[k][1]]>>
        /\ \A other_key \in keys : \E k \in 1..n : map[k][1] = other_key
    BY DEF MapIs
  <1>2. p \in 0..n /\ \A k \in 1..n : IF k <= p THEN map[k][1] < key ELSE key < map[k][1]
    BY PlaceOf
  <1>3. inserted = SubSeq(map, 1, p) \o <<pair>> \o SubSeq(map, p + 1, n)
    <2>1. ~ContainsKey(map, key)
      BY MapFinds
    <2> QED
      BY <2>1 DEF ReplaceValue
  <1> HIDE DEF p, inserted
  <1>4. /\ inserted \in Seq(S) /\ Len(inserted) = n + 1
        /\ \A k \in 1 .. n + 1 :
               inserted[k] = IF k <= p THEN map[k] ELSE IF k = p + 1 THEN pair ELSE map[k - 1]
    <2>1. inserted = InsertedBehind(map, pair, p) /\ pair \in S /\ p \in 0 .. Len(map)
      BY <1>2, <1>3 DEF InsertedBehind
    <2> HIDE DEF pair
    <2>2. InsertedAt(S, map, pair, p, inserted)
      BY <2>1, InsertedInto
    <2> QED
      BY <2>2 DEF InsertedAt
  <1>5. DOMAIN inserted = 1 .. n + 1
    BY <1>4, LenProperties
  <1>6. pair[1] = key
    OBVIOUS
  <1>7. /\ \A k \in keys : new[k] = values[k] /\ k \in all
        /\ new[key] = value /\ key \in all
    BY DEF WithValue
  <1>8. \A k \in all : k \in keys \/ k = key
    OBVIOUS
  <1> HIDE DEF n, pair, new, all
  <1>9. /\ \A k \in 1..p : k \in 1..n /\ k \in 1 .. n + 1 /\ inserted[k] = map[k]
        /\ inserted[p + 1] = pair /\ p + 1 \in 1 .. n + 1
        /\ \A k \in p + 2 .. n + 1 : k - 1 \in p + 1 .. n /\ k - 1 \in 1..n /\ inserted[k] = map[k - 1]
    BY <1>1, <1>2, <1>4
  <1>10. \A k \in 1 .. n + 1 : k \in 1..p \/ k = p + 1 \/ k \in p + 2 .. n + 1
    BY <1>1, <1>2
  <1>11. ASSUME NEW k \in 1 .. n + 1
         PROVE  inserted[k][1] \in all /\ inserted[k] = <<inserted[k][1], new[inserted[k][1]]>>
    <2>1. CASE k = p + 1
      BY <1>6, <1>7, <1>9, <2>1 DEF pair
    <2>2. CASE k # p + 1
      <3>1. PICK j \in 1..n : inserted[k] = map[j]
        BY <1>9, <1>10, <2>2
      <3>2. map[j][1] \in keys /\ map[j] = <<map[j][1], values[map[j][1]]>>
        BY <1>1
      <3>3. new[map[j][1]] = values[map[j][1]] /\ map[j][1] \in all
        BY <1>7, <3>2
      <3> QED
        BY <3>1, <3>2, <3>3
    <2> QED
      BY <2>1, <2>2
  <1>12. ASSUME NEW other_key \in all PROVE \E k \in 1 .. n + 1 : inserted[k][1] = other_key
    <2>1. CASE other_key = key
      BY <1>6, <1>9, <2>1
    <2>2. CASE other_key \in keys
      <3>1. PICK j \in 1..n : map[j][1] = other_key
        BY <1>1, <2>2
      <3>2. CASE j <= p
        <4>1. j \in 1..p
          BY <3>2
        <4> QED
          BY <1>9, <3>1, <4>1
      <3>3. CASE ~(j <= p)
        <4>1. j + 1 \in p + 2 .. n + 1 /\ (j + 1) - 1 = j /\ j + 1 \in 1 .. n + 1
          BY <1>1, <1>2, <3>3
        <4> QED
          BY <1>9, <3>1, <4>1
      <3> QED
        BY <3>2, <3>3
    <2> QED
      BY <1>8, <2>1, <2>2
  <1>13. ASSUME NEW j \in 1 .. n + 1, NEW k \in 1 .. n + 1, j < k
         PROVE  inserted[j][1] < inserted[k][1]
    <2> DEFINE first(i) == map[i][1]
    <2>1. /\ \A i \in 1..p : inserted[i][1] = first(i) /\ first(i) < key /\ i \in 1..n
          /\ inserted[p + 1][1] = key
          /\ \A i \in p + 2 .. n + 1 : /\ inserted[i][1] = first(i - 1) /\ key < first(i - 1)
                                       /\ i - 1 \in 1..n
      <3>1. \A i \in 1..p : first(i) < key
        BY <1>2, <1>9
      <3>2. \A i \in p + 2 .. n + 1 : key < first(i - 1)
        <4> SUFFICES ASSUME NEW i \in p + 2 .. n + 1 PROVE key < first(i - 1)
          OBVIOUS
        <4>1. i - 1 \in 1..n /\ ~(i - 1 <= p)
          BY <1>1, <1>2
        <4> QED
          BY <1>2, <4>1
      <3> QED
        BY <1>6, <1>9, <3>1, <3>2
    <2>2. \A i \in 1..n : first(i) \in Int
      BY <1>1
    <2>3. \A i, l \in 1..n : i < l => first(i) < first(l)
      BY <1>1
    <2> HIDE DEF first
    <2>4. CASE k \in 1..p
      <3>1. j \in 1..p
        BY <1>1, <1>2, <1>13, <2>4
      <3> QED
        BY <1>13, <2>1, <2>3, <2>4, <3>1
    <2>5. CASE k = p + 1
      <3>1. j \in 1..p
        BY <1>2, <1>13, <2>5
      <3> QED
        BY <2>1, <2>5, <3>1
    <2>6. CASE k \in p + 2 .. n + 1
      <3>1. CASE j \in 1..p
        <4>1. first(j) < key /\ key < first(k - 1) /\ first(j) \in Int /\ first(k - 1) \in Int
          BY <2>1, <2>2, <2>6, <3>1
        <4> QED
          BY <2>1, <2>6, <3>1, <4>1
      <3>2. CASE j = p + 1
        BY <2>1, <2>6, <3>2
      <3>3. CASE j \in p + 2 .. n + 1
        <4>1. j - 1 \in 1..n /\ k - 1 \in 1..n /\ j - 1 < k - 1
          BY <1>13, <2>1, <2>6, <3>3
        <4>2. inserted[j][1] = first(j - 1) /\ inserted[k][1] = first(k - 1)
          BY <2>1, <2>6, <3>3
        <4> QED
          BY <2>3, <4>1, <4>2
      <3> QED
        BY <1>10, <3>1, <3>2, <3>3
    <2> QED
      BY <1>10, <2>4, <2>5, <2>6
  <1>14. MapIs(inserted, all, new)
    <2>1. Len(inserted) \in Nat
      BY <1>1, <1>4
    <2> QED
      BY <1>4, <1>5, <1>11, <1>12, <1>13, <2>1 DEF MapIs
  <1> QED
    BY <1>14 DEF inserted, all, new

LEMMA ValuesAreReplaced ==
    ASSUME NEW keys \in SUBSET Int, IsFiniteSet(keys), NEW key \in Int, NEW others
    PROVE  ValueIsReplaced(keys, key, others)
  <1> DEFINE map == MapOf(keys)
             old == [k \in keys |-> "old"]
             replaced == ReplaceValue(map, key, "new").map
             all == keys \cup {key}
             new == WithValue(keys, old, key, "new")
  <1>1. MapIs(map, keys, old) /\ map \in Seq(Int \X {"old", "new"})
    BY MapOfKeys
  <1>2. <<key, "new">> \in Int \X {"old", "new"}
    OBVIOUS
  <1>3. /\ new[key] = "new" /\ \A k \in keys : k # key => new[k] = "old"
    BY DEF WithValue
  <1> HIDE DEF map, old
  <1>4. MapIs(replaced, all, new)
    <2>1. CASE key \in keys
      BY <1>1, <2>1, ReplacedInPlace
    <2>2. CASE key \notin keys
      BY <1>1, <1>2, <2>2, ReplacedInserts
    <2> QED
      BY <2>1, <2>2
  <1>5. all \in SUBSET Int /\ key \in all
    OBVIOUS
  <1>6. \A k : ContainsKey(map, k) <=> k \in keys
    BY <1>1, MapFinds
  <1> HIDE DEF replaced, new
  <1>7. /\ \A k : FindOrDefault(replaced, k, "none") = IF k \in all THEN new[k] ELSE "none"
        /\ ContainsPair(replaced, <<key, new[key]>>)
    <2>1. ASSUME NEW k
          PROVE  /\ FindOrDefault(replaced, k, "none") = IF k \in all THEN new[k] ELSE "none"
                 /\ k \in all => ContainsPair(replaced, <<k, new[k]>>)
      BY <1>4, <1>5, MapFinds
    <2> QED
      BY <1>5, <2>1
  <1>8. \A k \in keys \cup others :
            FindOrDefault(replaced, k, "none") =
                IF k = key THEN "new" ELSE IF ContainsKey(map, k) THEN "old" ELSE "none"
    BY <1>3, <1>6, <1>7
  <1>9. ContainsPair(replaced, <<key, "new">>)
    BY <1>3, <1>7
  <1>10. \A j, k \in 1 .. Len(replaced) : j < k => replaced[j][1] < replaced[k][1]
    BY <1>4 DEF MapIs
  <1> QED
    BY <1>8, <1>9, <1>10 DEF ValueIsReplaced, map, replaced

LEMMA CallsOfContainer ==
    ASSUME [Next]_values_vars, call' # call, call'.function = "container"
    PROVE  \E lhs, rhs \in Lists : call' = [function |-> "container", lhs |-> lhs, rhs |-> rhs]
  BY FunctionIsCalled
     DEF CallFunction, CallText, CallBase64, CallUri, CallClock, CallRatio, CallContainer,
         CallUsage, Call

(* Whatever two containers hold: make_union() and make_complement() give each *)
(* value of theirs once and in order, make_intersection() each value they     *)
(* share once, and their sizes add up; replace() of a map leaves it ordered   *)
(* with each key once, and find_or_default() and contains() find what was     *)
(* replaced and whatever was there before.                                    *)
THEOREM ContainersAgree == Spec => []SetsAgree
  <1>1. Init => SetsAgree
    BY DEF Init, NoCall, SetsAgree
  <1>2. SetsAgree /\ [Next]_values_vars => SetsAgree'
    <2> SUFFICES ASSUME SetsAgree, [Next]_values_vars, call'.function = "container"
                 PROVE  /\ SetsAdd(call'.lhs, call'.rhs)
                        /\ \A key \in ToSet(call'.rhs) :
                              ValueIsReplaced(ToSet(call'.lhs), key, ToSet(call'.rhs))
      BY DEF SetsAgree
    <2>1. CASE call' = call
      BY <2>1 DEF SetsAgree
    <2>2. CASE call' # call
      <3>1. PICK lhs \in Lists, rhs \in Lists :
                call' = [function |-> "container", lhs |-> lhs, rhs |-> rhs]
        BY <2>2, CallsOfContainer
      <3>2. lhs \in Seq(Int) /\ rhs \in Seq(Int)
        BY ArgumentsAreValid
      <3>3. SetsAdd(lhs, rhs)
        BY <3>2, SetsAddUp
      <3>4. /\ IsFiniteSet(ToSet(lhs)) /\ ToSet(lhs) \in SUBSET Int /\ ToSet(rhs) \in SUBSET Int
        BY <3>2, ValuesOfList
      <3>5. \A key \in ToSet(rhs) : ValueIsReplaced(ToSet(lhs), key, ToSet(rhs))
        BY <3>4, ValuesAreReplaced
      <3>6. call'.lhs = lhs /\ call'.rhs = rhs
        BY <3>1
      <3> QED
        BY <3>3, <3>5, <3>6
    <2> QED
      BY <2>1, <2>2
  <1> QED
    BY <1>1, <1>2, PTL DEF Spec

-----------------------------------------------------------------------------
(* Fractions and ratios.  Division towards zero undoes a product, and a       *)
(* common factor of both sides changes nothing.                               *)
LEMMA QuotientIsExact ==
    ASSUME NEW m \in Int, NEW d \in Int \ {0}
    PROVE  Quotient(m * d, d) = m
  <1> DEFINE exact(n, e) == Quotient(n * e, e) = n
  <1>1. ASSUME NEW n \in Nat, NEW e \in Nat \ {0}
        PROVE  exact(n, e) /\ exact(-n, e) /\ exact(n, -e) /\ exact(-n, -e)
    <2> DEFINE p == n * e
    <2>1. p \in Nat /\ p = n * e + 0 /\ 0 \in 0 .. e - 1
      OBVIOUS
    <2>2. (-n) * e = -p /\ n * (-e) = -p /\ (-n) * (-e) = p
      OBVIOUS
    <2> HIDE DEF p
    <2>3. p \div e = n
      BY <2>1, DivisionIs
    <2>4. /\ Quotient(p, e) = n /\ Quotient(-p, -e) = n
          /\ Quotient(-p, e) = -n /\ Quotient(p, -e) = -n
      BY <2>1, <2>3, QuotientOf
    <2> QED
      BY <2>2, <2>4 DEF p
  <1> HIDE DEF exact
  <1>2. PICK n \in Nat : m = n \/ m = -n
    OBVIOUS
  <1>3. PICK e \in Nat \ {0} : d = e \/ d = -e
    OBVIOUS
  <1>4. exact(m, d)
    BY <1>1, <1>2, <1>3
  <1> QED
    BY <1>4 DEF exact

LEMMA QuotientScaled ==
    ASSUME NEW n \in Int, NEW d \in Nat \ {0}, NEW g \in Nat \ {0}
    PROVE  Quotient(n * g, d * g) = Quotient(n, d)
  <1>1. ASSUME NEW m \in Nat
        PROVE  Quotient(m * g, d * g) = m \div d /\ Quotient((-m) * g, d * g) = -(m \div d)
    <2> DEFINE q == m \div d
               r == m % d
    <2>1. q \in Int /\ r \in 0 .. d - 1 /\ m = q * d + r
      BY DivisionOf
    <2> HIDE DEF q, r
    <2>2. m * g = (q * d) * g + r * g /\ r * g \in Nat /\ m * g \in Nat /\ d * g \in Nat \ {0}
      BY <2>1, ProductOfSum
    <2>3. (q * d) * g = q * (d * g)
      BY <2>1
    <2>4. r * g \in 0 .. d * g - 1
      <3>1. (r + 1) * g <= d * g
        BY <2>1, ProductGrows
      <3>2. (r + 1) * g = r * g + g
        BY <2>1
      <3> QED
        BY <2>2, <3>1, <3>2
    <2> DEFINE p == m * g
               e == d * g
               s == r * g
    <2>5. p = q * e + s /\ s \in 0 .. e - 1 /\ p \in Nat /\ e \in Nat \ {0} /\ (-m) * g = -p
      BY <2>2, <2>3, <2>4
    <2> HIDE DEF p, e, s
    <2>6. p \div e = q
      BY <2>1, <2>5, DivisionIs
    <2>7. Quotient(p, e) = q /\ Quotient(-p, e) = -q
      BY <2>5, <2>6, QuotientOf
    <2> QED
      BY <2>5, <2>7 DEF p, e, q
  <1>2. ASSUME NEW m \in Nat PROVE Quotient(m, d) = m \div d /\ Quotient(-m, d) = -(m \div d)
    BY QuotientOf
  <1>3. PICK m \in Nat : n = m \/ n = -m
    OBVIOUS
  <1> QED
    BY <1>1, <1>2, <1>3

-----------------------------------------------------------------------------
(* Numbers that divide another one.                                           *)
Divides(g, n) == \E m \in Nat : n = m * g

LEMMA DividesSum ==
    ASSUME NEW g \in Nat, NEW a \in Nat, NEW b \in Nat, NEW q \in Nat,
           Divides(g, a), Divides(g, b)
    PROVE  Divides(g, q * b + a)
  <1>1. PICK m \in Nat, n \in Nat : a = m * g /\ b = n * g
    BY DEF Divides
  <1>2. q * (n * g) = (q * n) * g /\ q * n \in Nat
    OBVIOUS
  <1>3. q * b + a = (q * n + m) * g /\ q * n + m \in Nat
    BY <1>1, <1>2
  <1> QED
    BY <1>3 DEF Divides

LEMMA DividesDifference ==
    ASSUME NEW g \in Nat \ {0}, NEW a \in Nat, NEW b \in Nat, NEW q \in Nat,
           Divides(g, q * b + a), Divides(g, b)
    PROVE  Divides(g, a)
  <1>1. PICK m \in Nat, n \in Nat : q * b + a = m * g /\ b = n * g
    BY DEF Divides
  <1>2. q * (n * g) = (q * n) * g /\ q * n \in Nat
    OBVIOUS
  <1> DEFINE k == m - q * n
  <1>3. k \in Int /\ k * g = m * g - (q * n) * g
    BY <1>2
  <1>4. a = k * g
    BY <1>1, <1>2, <1>3
  <1>5. k \in Nat
    <2> SUFFICES ASSUME k + 1 <= 0 PROVE FALSE
      BY <1>3
    <2> HIDE DEF k
    <2>1. (k + 1) * g <= 0 * g /\ (k + 1) * g = k * g + g
      BY <1>3, ProductGrows
    <2> QED
      BY <1>4, <2>1
  <1> QED
    BY <1>4, <1>5 DEF Divides

(* Euclid: the common divisors stay the same.                                 *)
Common(a, b) == {g \in Nat \ {0} : Divides(g, a) /\ Divides(g, b)}
LargestOf(S) == CHOOSE x \in S : \A y \in S : y <= x

LEMMA CommonStays ==
    ASSUME NEW a \in Nat, NEW b \in Nat \ {0}
    PROVE  Common(a, b) = Common(b, a % b)
  <1> DEFINE q == a \div b
             r == a % b
  <1>1. q \in Int /\ r \in 0 .. b - 1 /\ a = q * b + r
    BY DivisionOf
  <1> HIDE DEF q, r
  <1>2. q \in Nat /\ r \in Nat
    <2> SUFFICES ASSUME q + 1 <= 0 PROVE FALSE
      BY <1>1
    <2>1. (q + 1) * b <= 0 * b /\ (q + 1) * b = q * b + b
      BY <1>1, ProductGrows
    <2> QED
      BY <1>1, <2>1
  <1>3. ASSUME NEW g \in Nat \ {0}, Divides(g, b) PROVE Divides(g, a) <=> Divides(g, r)
    BY <1>1, <1>2, <1>3, DividesSum, DividesDifference
  <1>4. Common(a, b) = Common(b, r)
    BY <1>3 DEF Common
  <1> QED
    BY <1>4 DEF r

LEMMA LargestDivisor ==
    ASSUME NEW a \in Nat \ {0}
    PROVE  LargestOf(Common(a, 0)) = a
  <1>1. a \in Common(a, 0)
    <2>1. a = 1 * a /\ 0 = 0 * a /\ 1 \in Nat /\ 0 \in Nat
      OBVIOUS
    <2> QED
      BY <2>1 DEF Common, Divides
  <1>2. ASSUME NEW g \in Common(a, 0) PROVE g \in Nat /\ g <= a
    <2>1. PICK m \in Nat : a = m * g /\ g \in Nat \ {0}
      BY DEF Common, Divides
    <2>2. m # 0
      BY <2>1
    <2>3. 1 * g <= m * g
      BY <2>1, <2>2, ProductGrows
    <2> QED
      BY <2>1, <2>3
  <1>3. \A x \in Common(a, 0) : (\A y \in Common(a, 0) : y <= x) => x = a
    BY <1>1, <1>2
  <1> QED
    BY <1>1, <1>2, <1>3 DEF LargestOf

GcdIs(f) == f = [p \in Nat \X Nat |-> IF p[2] = 0 THEN p[1] ELSE f[<<p[2], p[1] % p[2]>>]]

(* std::gcd() has a value.                                                    *)
LEMMA GcdExists == GcdIs(Gcd)
  <1> DEFINE f == [p \in Nat \X Nat |->
                       IF p[2] = 0 THEN p[1] ELSE LargestOf(Common(p[1], p[2]))]
  <1>1. ASSUME NEW a \in Nat, NEW b \in Nat
        PROVE  f[<<a, b>>] = IF b = 0 THEN a ELSE f[<<b, a % b>>]
    <2>1. f[<<a, b>>] = IF b = 0 THEN a ELSE LargestOf(Common(a, b))
      OBVIOUS
    <2>2. CASE b = 0
      BY <2>1, <2>2
    <2>3. CASE b # 0
      <3> DEFINE r == a % b
      <3>1. r \in Nat
        BY <2>3, DivisionOf
      <3>2. Common(a, b) = Common(b, r)
        BY <2>3, CommonStays
      <3> HIDE DEF r
      <3>3. f[<<b, r>>] = IF r = 0 THEN b ELSE LargestOf(Common(b, r))
        BY <3>1
      <3> HIDE DEF f
      <3>4. CASE r = 0
        BY <2>1, <2>3, <3>2, <3>3, <3>4, LargestDivisor DEF r
      <3>5. CASE r # 0
        BY <2>1, <2>3, <3>2, <3>3, <3>5 DEF r
      <3> QED
        BY <3>4, <3>5
    <2> QED
      BY <2>2, <2>3
  <1>2. ASSUME NEW p \in Nat \X Nat
        PROVE  f[p] = IF p[2] = 0 THEN p[1] ELSE f[<<p[2], p[1] % p[2]>>]
    <2>1. p = <<p[1], p[2]>> /\ p[1] \in Nat /\ p[2] \in Nat
      OBVIOUS
    <2> HIDE DEF f
    <2> QED
      BY <1>1, <2>1
  <1>3. GcdIs(f)
    <2> DEFINE g == [p \in Nat \X Nat |-> IF p[2] = 0 THEN p[1] ELSE f[<<p[2], p[1] % p[2]>>]]
    <2>1. \A p \in Nat \X Nat : f[p] = g[p]
      BY <1>2
    <2>2. f = [p \in Nat \X Nat |-> f[p]] /\ g = [p \in Nat \X Nat |-> g[p]]
      OBVIOUS
    <2> HIDE DEF f, g
    <2>3. f = g
      BY <2>1, <2>2
    <2> QED
      BY <2>3 DEF GcdIs, g
  <1>4. Gcd = CHOOSE g : GcdIs(g)
    BY DEF Gcd, GcdIs
  <1> HIDE DEF f
  <1> QED
    BY <1>3, <1>4

LEMMA GcdDivides ==
    ASSUME NEW a \in Nat, NEW b \in Nat, a # 0 \/ b # 0
    PROVE  Gcd[<<a, b>>] \in Common(a, b)
  <1> DEFINE good(x, y) == x # 0 \/ y # 0 => Gcd[<<x, y>>] \in Common(x, y)
             P == {n \in Nat : \A x \in Nat, y \in 0..n : good(x, y)}
  <1>1. ASSUME NEW x \in Nat PROVE good(x, 0)
    <2>1. Gcd[<<x, 0>>] = x
      BY GcdExists DEF GcdIs
    <2>2. x # 0 => x \in Common(x, 0)
      <3>1. x = 1 * x /\ 0 = 0 * x /\ 1 \in Nat /\ 0 \in Nat
        OBVIOUS
      <3> QED
        BY <3>1 DEF Common, Divides
    <2> QED
      BY <2>1, <2>2
  <1>2. ASSUME NEW x \in Nat, NEW y \in Nat \ {0}, \A z \in 0 .. y - 1 : good(y, z) PROVE good(x, y)
    <2> DEFINE r == x % y
    <2>1. r \in 0 .. y - 1 /\ r \in Nat
      BY DivisionOf
    <2>2. Gcd[<<x, y>>] = Gcd[<<y, r>>]
      <3>1. Gcd[<<x, y>>] = IF y = 0 THEN x ELSE Gcd[<<y, x % y>>]
        BY GcdExists DEF GcdIs
      <3> QED
        BY <3>1
    <2>3. Gcd[<<y, r>>] \in Common(y, r)
      BY <1>2, <2>1
    <2>4. Common(x, y) = Common(y, r)
      BY CommonStays
    <2> QED
      BY <2>2, <2>3, <2>4
  <1> HIDE DEF good
  <1>3. 0 \in P
    BY <1>1
  <1>4. ASSUME NEW n \in Nat, n \in P PROVE n + 1 \in P
    <2> SUFFICES ASSUME NEW x \in Nat, NEW y \in 0 .. n + 1 PROVE good(x, y)
      OBVIOUS
    <2>1. CASE y \in 0..n
      BY <1>4, <2>1
    <2>2. CASE y = n + 1
      <3>1. y \in Nat \ {0} /\ \A z \in 0 .. y - 1 : z \in 0..n
        BY <2>2
      <3>2. \A z \in 0 .. y - 1 : good(y, z)
        BY <1>4, <3>1
      <3> QED
        BY <1>2, <3>1, <3>2
    <2> QED
      BY <2>1, <2>2
  <1>5. Nat \subseteq P
    <2> HIDE DEF P
    <2> QED
      BY <1>3, <1>4, Induction
  <1>6. b \in P /\ b \in 0..b
    BY <1>5
  <1>7. good(a, b)
    BY <1>6
  <1> QED
    BY <1>7 DEF good

(* A factor is left out of both sides.                                        *)
LEMMA Cancelled ==
    ASSUME NEW m \in Int, NEW n \in Int, NEW k \in Nat \ {0}
    PROVE  /\ m * k <= n * k => m <= n
           /\ m * k < n * k => m < n
  <1>1. ASSUME NEW a \in Int, NEW b \in Int, a <= b PROVE a * k <= b * k
    BY <1>1, ProductGrows
  <1>2. (n + 1) * k = n * k + k /\ n * k \in Int /\ m * k \in Int
    OBVIOUS
  <1>3. n + 1 <= m => (n + 1) * k <= m * k
    BY <1>1
  <1>4. n <= m => n * k <= m * k
    BY <1>1
  <1> QED
    BY <1>2, <1>3, <1>4

LEMMA ProductIsPositive ==
    ASSUME NEW m \in Nat \ {0}, NEW n \in Nat \ {0}
    PROVE  m * n \in Nat \ {0}
  <1>1. 1 * n <= m * n
    BY ProductGrows
  <1> QED
    BY <1>1

Rational == (Nat \ {0}) \X (Nat \ {0})
Number == Int \X (Nat \ {0})

(* The larger number need not come first.                                     *)
LEMMA GcdIsSymmetric ==
    ASSUME NEW a \in Nat, NEW b \in Nat
    PROVE  Gcd[<<a, b>>] = Gcd[<<b, a>>]
  <1>1. ASSUME NEW x \in Nat, NEW y \in Nat, x < y PROVE Gcd[<<x, y>>] = Gcd[<<y, x>>]
    <2>1. y # 0 /\ x = 0 * y + x /\ x \in 0 .. y - 1
      BY <1>1
    <2>2. x % y = x
      BY <2>1, DivisionIs
    <2>3. Gcd[<<x, y>>] = IF y = 0 THEN x ELSE Gcd[<<y, x % y>>]
      BY GcdExists DEF GcdIs
    <2> QED
      BY <2>1, <2>2, <2>3
  <1>2. a < b \/ b < a \/ a = b
    OBVIOUS
  <1> QED
    BY <1>1, <1>2

LEMMA GcdOfMultiple ==
    ASSUME NEW a \in Nat \ {0}, NEW k \in Nat
    PROVE  Gcd[<<a, k * a>>] = a
  <1> DEFINE m == k * a
  <1>1. m \in Nat /\ m = k * a + 0 /\ 0 \in 0 .. a - 1
    OBVIOUS
  <1> HIDE DEF m
  <1>2. m % a = 0
    BY <1>1, DivisionIs
  <1>3. Gcd[<<m, a>>] = IF a = 0 THEN m ELSE Gcd[<<a, m % a>>]
    BY <1>1, GcdExists DEF GcdIs
  <1>4. Gcd[<<a, 0>>] = a
    BY GcdExists DEF GcdIs
  <1>5. Gcd[<<a, m>>] = Gcd[<<m, a>>]
    BY <1>1, GcdIsSymmetric
  <1> QED
    BY <1>2, <1>3, <1>4, <1>5 DEF m

(* What the ratios are divided by to be in lowest terms, both ways.           *)
FactorOf(from, to, g, x, y) ==
    /\ Factor(from, to) = <<x, y>> /\ Factor(to, from) = <<y, x>>
    /\ from[1] * to[2] = x * g /\ from[2] * to[1] = y * g

LEMMA FactorIs ==
    ASSUME NEW from \in Rational, NEW to \in Rational
    PROVE  \E g, x, y \in Nat \ {0} : FactorOf(from, to, g, x, y)
  <1> DEFINE n == from[1] * to[2]
             d == from[2] * to[1]
             g == Gcd[<<n, d>>]
  <1>1. n \in Nat \ {0} /\ d \in Nat \ {0}
    BY ProductIsPositive DEF Rational
  <1>2. Factor(from, to) = <<n \div g, d \div g>>
    BY DEF Factor
  <1>3. Factor(to, from) = <<d \div Gcd[<<d, n>>], n \div Gcd[<<d, n>>]>>
    <2>1. to[1] * from[2] = d /\ to[2] * from[1] = n
      BY DEF Rational
    <2> QED
      BY <2>1 DEF Factor
  <1> HIDE DEF n, d
  <1>4. Gcd[<<d, n>>] = g
    BY <1>1, GcdIsSymmetric
  <1>5. g \in Common(n, d)
    BY <1>1, GcdDivides
  <1> HIDE DEF g
  <1>6. g \in Nat \ {0} /\ Divides(g, n) /\ Divides(g, d)
    BY <1>5 DEF Common
  <1>7. PICK x \in Nat, y \in Nat : n = x * g /\ d = y * g
    BY <1>6 DEF Divides
  <1>8. n \div g = x /\ d \div g = y
    <2>1. n = x * g + 0 /\ d = y * g + 0 /\ 0 \in 0 .. g - 1
      BY <1>6, <1>7
    <2> QED
      BY <1>1, <1>6, <2>1, DivisionIs
  <1>9. x \in Nat \ {0} /\ y \in Nat \ {0}
    BY <1>1, <1>6, <1>7
  <1>10. FactorOf(from, to, g, x, y)
    BY <1>2, <1>3, <1>4, <1>7, <1>8 DEF FactorOf, n, d
  <1> QED
    BY <1>6, <1>9, <1>10

-----------------------------------------------------------------------------
(* Values of a type.  A cast keeps them, and a quotient is no larger.         *)
LEMMA NarrowKeeps ==
    ASSUME NEW largest \in Nat \ {0}, NEW n \in Representable(largest)
    PROVE  Narrow(n, largest) = n
  <1> DEFINE m == n + largest + 1
             w == 2 * (largest + 1)
  <1>1. n \in Int /\ m \in Int /\ w \in Nat \ {0} /\ m = 0 * w + m /\ m \in 0 .. w - 1
    BY DEF Representable
  <1>2. Narrow(n, largest) = (m % w) - largest - 1
    BY DEF Narrow
  <1> HIDE DEF w
  <1>3. m % w = m
    <2> HIDE DEF m
    <2> QED
      BY <1>1, DivisionIs
  <1> QED
    BY <1>1, <1>2, <1>3

LEMMA QuotientFits ==
    ASSUME NEW largest \in Nat \ {0}, NEW n \in Representable(largest), NEW d \in Nat \ {0}
    PROVE  Quotient(n, d) \in Representable(largest)
  <1>1. ASSUME NEW m \in Nat PROVE m \div d \in 0..m
    <2> DEFINE q == m \div d
               r == m % d
    <2>1. q \in Int /\ r \in 0 .. d - 1 /\ m = q * d + r
      BY DivisionOf
    <2> HIDE DEF q, r
    <2>2. q >= 0
      <3> SUFFICES ASSUME q <= -1 PROVE FALSE
        BY <2>1
      <3>1. q * d <= (-1) * d
        BY <2>1, ProductGrows
      <3>2. (-1) * d = -d /\ q * d \in Int
        BY <2>1
      <3> QED
        BY <2>1, <3>1, <3>2
    <2>3. 1 * q <= d * q
      BY <2>1, <2>2, ProductGrows
    <2>4. d * q = q * d /\ q * d \in Int /\ 1 * q = q
      BY <2>1
    <2>5. q \in 0..m
      BY <2>1, <2>2, <2>3, <2>4
    <2> QED
      BY <2>5 DEF q
  <1>2. n \in Int /\ -largest - 1 <= n /\ n <= largest
    BY DEF Representable
  <1>3. CASE n \in Nat
    <2>1. Quotient(n, d) = n \div d /\ n \div d \in 0..n
      BY <1>1, <1>3, QuotientOf
    <2> QED
      BY <1>2, <2>1 DEF Representable
  <1>4. CASE ~(n \in Nat)
    <2> DEFINE m == -n
    <2>1. m \in Nat /\ n = -m
      BY <1>2, <1>4
    <2> HIDE DEF m
    <2>2. Quotient(-m, d) = -(m \div d) /\ m \div d \in 0..m
      BY <1>1, <2>1, QuotientOf
    <2> QED
      BY <1>2, <2>1, <2>2 DEF Representable
  <1> QED
    BY <1>3, <1>4

LEMMA ComputedIs ==
    ASSUME NEW largest \in Nat \ {0}, NEW n \in Representable(largest), NEW d \in Int \ {0},
           Quotient(n, d) \in Representable(largest)
    PROVE  Computed(n, d, largest) = {Quotient(n, d)}
  BY DEF Computed

(* A conversion in which nothing overflows.                                   *)
LEMMA RatioToIs ==
    ASSUME NEW v \in Int, NEW from, NEW to, NEW largest \in Nat \ {0},
           NEW x \in Nat \ {0}, NEW y \in Nat \ {0}, Factor(from, to) = <<x, y>>,
           {v, v * x, x, y} \subseteq Representable(largest)
    PROVE  RatioTo(v, from, to, largest) = {Quotient(v * x, y)}
  <1>1. Narrow(v, largest) = v /\ Narrow(x, largest) = x /\ Narrow(y, largest) = y
    BY NarrowKeeps
  <1>2. RatioTo(v, from, to, largest) = Computed(v * x, y, largest)
    BY <1>1 DEF RatioTo
  <1> DEFINE n == v * x
  <1>3. n \in Representable(largest)
    OBVIOUS
  <1> HIDE DEF n
  <1>4. Quotient(n, y) \in Representable(largest)
    BY <1>3, QuotientFits
  <1>5. Computed(n, y, largest) = {Quotient(n, y)}
    BY <1>3, <1>4, ComputedIs
  <1> QED
    BY <1>2, <1>5 DEF n

LEMMA RatiosAlwaysConvert ==
    ASSUME NEW v \in Int, NEW from \in Rational, NEW to \in Rational, NEW largest \in Nat \ {0}
    PROVE  RatiosConvert(v, from, to, largest)
  <1> DEFINE n == v * from[1] * to[2]
             d == from[2] * to[1]
             f == Factor(from, to)
  <1> SUFFICES ASSUME {v, v * f[1], f[1], f[2]} \subseteq Representable(largest)
               PROVE  /\ RatioTo(v, from, to, largest) = {Quotient(n, d)}
                      /\ n % d = 0 => RatioTo(Quotient(n, d), to, from, largest) = {v}
    BY DEF RatiosConvert
  <1>1. PICK g \in Nat \ {0}, x \in Nat \ {0}, y \in Nat \ {0} : FactorOf(from, to, g, x, y)
    BY FactorIs
  <1>2. f = <<x, y>> /\ Factor(to, from) = <<y, x>>
    BY <1>1 DEF FactorOf
  <1>3. {v, v * x, x, y} \subseteq Representable(largest)
    BY <1>2
  <1>4. d = y * g /\ n = (v * x) * g /\ v * x \in Int
    <2>1. from[1] * to[2] = x * g /\ from[2] * to[1] = y * g
      BY <1>1 DEF FactorOf
    <2>2. n = v * (from[1] * to[2])
      BY DEF Rational
    <2>3. v * (x * g) = (v * x) * g
      OBVIOUS
    <2> QED
      BY <2>1, <2>2, <2>3
  <1> HIDE DEF n, d, f
  <1>5. Quotient(n, d) = Quotient(v * x, y)
    BY <1>4, QuotientScaled
  <1>6. RatioTo(v, from, to, largest) = {Quotient(n, d)}
    BY <1>2, <1>3, <1>5, RatioToIs DEF f
  <1>7. ASSUME n % d = 0 PROVE RatioTo(Quotient(n, d), to, from, largest) = {v}
    <2> DEFINE k == n \div d
    <2>1. d \in Nat \ {0} /\ n \in Int
      BY <1>4, ProductIsPositive
    <2>2. k \in Int /\ n = k * d
      BY <1>7, <2>1, DivisionOf
    <2> HIDE DEF k
    <2>3. Quotient(n, d) = k
      BY <2>1, <2>2, QuotientIsExact
    <2>4. v * x = k * y
      <3> DEFINE i == v * x
                 j == k * y
      <3>1. i \in Int /\ j \in Int /\ i * g = j * g
        <4>1. k * (y * g) = (k * y) * g
          BY <2>2
        <4> QED
          BY <1>4, <2>2, <4>1
      <3> HIDE DEF i, j
      <3>2. i <= j /\ j <= i
        BY <3>1, Cancelled
      <3>3. i = j
        BY <3>1, <3>2
      <3> QED
        BY <3>3 DEF i, j
    <2>5. k \in Representable(largest)
      <3> DEFINE i == v * x
      <3>1. i \in Representable(largest)
        BY <1>3
      <3> HIDE DEF i
      <3>2. Quotient(i, y) \in Representable(largest)
        BY <3>1, QuotientFits
      <3> QED
        BY <1>5, <2>3, <3>2 DEF i
    <2>6. {k, k * y, y, x} \subseteq Representable(largest)
      BY <1>3, <2>4, <2>5
    <2>7. RatioTo(k, to, from, largest) = {Quotient(k * y, x)}
      BY <1>2, <2>2, <2>6, RatioToIs
    <2>8. Quotient(v * x, x) = v
      BY QuotientIsExact
    <2> QED
      BY <2>3, <2>4, <2>7, <2>8
  <1> QED
    BY <1>6, <1>7 DEF n, d

(* A product with a fraction is undone by a division.                         *)
LEMMA FactorsAlwaysUndone ==
    ASSUME NEW n \in Nat, NEW f \in Number, NEW largest \in Nat \ {0}
    PROVE  FactorsUndone(n, f, largest)
  <1> DEFINE p == f[1]
             q == f[2]
             value == n * q
             scaled == n * p
  <1> SUFFICES ASSUME p # 0, {value, value * p} \subseteq Representable(largest)
               PROVE  UNION {RatioDividedByFraction(v, f, largest) :
                                 v \in RatioTimesFraction(value, f, largest)} = {value}
    BY DEF FactorsUndone
  <1>1. p \in Int \ {0} /\ q \in Nat \ {0}
    BY DEF Number
  <1>2. /\ RatioTimesFraction(value, f, largest) = Computed(value * p, q, largest)
        /\ RatioDividedByFraction(scaled, f, largest) = Computed(scaled * q, p, largest)
    BY DEF RatioTimesFraction, RatioDividedByFraction
  <1> HIDE DEF p, q
  <1>3. value \in Int /\ scaled \in Int /\ value * p = scaled * q
    BY <1>1
  <1>4. Quotient(scaled * q, q) = scaled
    <2> HIDE DEF scaled
    <2> QED
      BY <1>1, <1>3, QuotientIsExact
  <1>5. Quotient(value * p, p) = value
    <2> HIDE DEF value
    <2> QED
      BY <1>1, <1>3, QuotientIsExact
  <1> HIDE DEF value, scaled
  <1> DEFINE product == value * p
  <1>6. product \in Representable(largest) /\ value \in Representable(largest)
    OBVIOUS
  <1>7. Quotient(product, q) = scaled /\ Quotient(product, p) = value /\ product = scaled * q
    BY <1>3, <1>4, <1>5
  <1> HIDE DEF product
  <1>8. scaled \in Representable(largest)
    <2>1. Quotient(product, q) \in Representable(largest)
      BY <1>1, <1>6, QuotientFits
    <2> QED
      BY <1>7, <2>1
  <1>9. Computed(product, q, largest) = {scaled}
    <2>1. Computed(product, q, largest) = {Quotient(product, q)}
      BY <1>1, <1>6, <1>7, <1>8, ComputedIs
    <2> QED
      BY <1>7, <2>1
  <1>10. Computed(product, p, largest) = {value}
    <2>1. Computed(product, p, largest) = {Quotient(product, p)}
      BY <1>1, <1>6, <1>7, ComputedIs
    <2> QED
      BY <1>7, <2>1
  <1>11. RatioTimesFraction(value, f, largest) = {scaled}
    BY <1>2, <1>9 DEF product
  <1>12. RatioDividedByFraction(scaled, f, largest) = {value}
    BY <1>2, <1>7, <1>10
  <1> QED
    BY <1>11, <1>12

(* Ticks that are no more nanoseconds than std::int64_t has.                  *)
LEMMA DurationsAlwaysConvert ==
    ASSUME NEW n \in Nat, NEW ratio \in Rational
    PROVE  DurationsConvert(n, ratio)
  <1>1. PICK f1 \in Nat \ {0}, f2 \in Nat \ {0} : ratio = <<f1, f2>>
    BY DEF Rational
  <1>2. ratio[1] = f1 /\ ratio[2] = f2
    BY <1>1
  <1> SUFFICES ASSUME Second % f2 = 0, Second * f1 <= LongMax, n * Second * f1 <= LongMax * f2
               PROVE  UNION {DurationTo(t, ratio, LongMax) : t \in DurationOf(n, ratio)} = {n}
    BY <1>2 DEF DurationsConvert
  <1> DEFINE u == Second \div f2
             e == u * f1
             ns == n * e
             s == (n * f1) \div f2
             r == (n * f1) % f2
  <1>3. Second \in Nat /\ Second > 1 /\ LongMax \in Nat \ {0}
    BY UnitsAreValid
  <1>4. u \in Int /\ Second = u * f2
    BY <1>3, DivisionOf
  <1> HIDE DEF u
  <1>5. u \in Nat \ {0}
    <2> SUFFICES ASSUME u <= 0 PROVE FALSE
      BY <1>4
    <2>1. u * f2 <= 0 * f2
      BY <1>4, ProductGrows
    <2> QED
      BY <1>3, <1>4, <2>1
  <1>6. e \in Nat \ {0} /\ Second * f1 = e * f2 /\ f2 * e = e * f2
    <2>1. u * f1 \in Nat \ {0}
      BY <1>5, ProductIsPositive
    <2>2. (u * f2) * f1 = (u * f1) * f2
      BY <1>5
    <2>3. f2 * (u * f1) = (u * f1) * f2
      BY <1>5
    <2> QED
      BY <1>4, <2>1, <2>2, <2>3
  <1>7. n * f1 \in Nat /\ s \in Int /\ r \in 0 .. f2 - 1 /\ n * f1 = s * f2 + r
    <2> DEFINE a == n * f1
    <2>1. a \in Int /\ a \in Nat
      OBVIOUS
    <2> HIDE DEF a
    <2>2. a \div f2 \in Int /\ a % f2 \in 0 .. f2 - 1 /\ a = (a \div f2) * f2 + (a % f2)
      BY <2>1, DivisionOf
    <2> QED
      BY <2>1, <2>2 DEF a
  <1>8. Quotient(n * f1, f2) = s
    BY <1>7, QuotientOf
  <1>9. Quotient(Second * f1, f2) = e
    <2> HIDE DEF e
    <2> QED
      BY <1>6, QuotientIsExact
  <1>10. ns = (n * f1) * u /\ ns = s * Second + u * r
    <2>1. n * (u * f1) = (n * f1) * u
      BY <1>5
    <2>2. (n * f1) * u = (s * f2) * u + r * u
      <3> HIDE DEF s, r
      <3>1. s * f2 \in Int
        BY <1>7
      <3> QED
        BY <1>5, <1>7, <3>1, ProductOfSum
    <2>3. (s * f2) * u = s * (u * f2) /\ r * u = u * r
      <3> HIDE DEF s, r
      <3> QED
        BY <1>5, <1>7
    <2> QED
      BY <1>4, <2>1, <2>2, <2>3
  <1> HIDE DEF e
  <1>11. ns \in Nat /\ ns * f2 = n * Second * f1
    <2>1. n * e \in Nat
      BY <1>6
    <2>2. (n * e) * f2 = n * (e * f2) /\ n * Second * f1 = n * (Second * f1)
      BY <1>3, <1>6
    <2> QED
      BY <1>6, <2>1, <2>2
  <1>12. ns = n * e
    OBVIOUS
  <1> HIDE DEF ns, s, r
  <1>13. ns <= LongMax
    BY <1>3, <1>11, Cancelled
  <1>14. n <= ns /\ e <= LongMax /\ n * f1 <= ns
    <2>1. 1 * n <= e * n /\ e * n = n * e /\ 1 * n = n
      BY <1>6, ProductGrows
    <2>2. 1 * e <= f2 * e /\ 1 * e = e
      BY <1>6, ProductGrows
    <2> DEFINE a == n * f1
    <2>3. a \in Nat
      BY <1>7
    <2> HIDE DEF a
    <2>4. 1 * a <= u * a /\ u * a = a * u /\ 1 * a = a
      BY <1>5, <2>3, ProductGrows
    <2>5. e * f2 \in Int /\ n * e \in Int
      BY <1>6
    <2>6. n <= ns
      BY <1>12, <2>1
    <2>7. e <= LongMax
      BY <1>3, <1>6, <2>2, <2>5
    <2>8. n * f1 <= ns
      BY <1>10, <2>4 DEF a
    <2> QED
      BY <2>6, <2>7, <2>8
  <1>15. u * r \in 0 .. Second - 1
    <2>1. (r + 1) * u <= f2 * u
      BY <1>5, <1>7, ProductGrows
    <2>2. (r + 1) * u = u * r + u /\ f2 * u = Second /\ u * r \in Nat
      BY <1>4, <1>5, <1>7
    <2> QED
      BY <1>3, <1>5, <2>1, <2>2
  <1>16. s * Second <= ns /\ s * Second \in Int
    <2>1. s * Second \in Int
      BY <1>3, <1>7
    <2> QED
      BY <1>10, <1>11, <1>15, <2>1
  <1>17. s \in Nat
    <2> SUFFICES ASSUME s <= -1 PROVE FALSE
      BY <1>7
    <2>1. s * f2 <= (-1) * f2 /\ (-1) * f2 = -f2 /\ s * f2 \in Int
      BY <1>7, ProductGrows
    <2> QED
      BY <1>7, <2>1
  <1>18. ns % Second = u * r
    <2> DEFINE x == u * r
    <2>1. x \in 0 .. Second - 1 /\ ns = s * Second + x
      BY <1>10, <1>15
    <2> HIDE DEF x
    <2>2. Second \in Nat \ {0} /\ s \in Int /\ ns \in Int
      BY <1>3, <1>7, <1>11
    <2>3. ns % Second = x
      BY <2>1, <2>2, DivisionIs
    <2> QED
      BY <2>3 DEF x
  <1>19. ns % (2 * (LongMax + 1)) = ns
    <2> DEFINE w == 2 * (LongMax + 1)
    <2>1. w \in Nat \ {0} /\ ns = 0 * w + ns /\ ns \in 0 .. w - 1 /\ ns \in Int
      BY <1>3, <1>11, <1>13
    <2> HIDE DEF w
    <2>2. ns % w = ns
      BY <2>1, DivisionIs
    <2> QED
      BY <2>2 DEF w
  <1>20. \A k \in Nat : k <= LongMax => k \in Representable(LongMax)
    BY <1>3 DEF Representable
  <1> DEFINE t == Timespec(s, u * r)
  <1>21. DurationOf(n, ratio) = {t}
    <2>1. Computed(n * f1, f2, LongMax) = {s}
      <3> DEFINE a == n * f1
      <3>1. a \in Representable(LongMax)
        BY <1>3, <1>7, <1>11, <1>13, <1>14, <1>20
      <3>2. Quotient(a, f2) = s
        BY <1>8
      <3> HIDE DEF a
      <3>3. Quotient(a, f2) \in Representable(LongMax)
        BY <1>3, <3>1, QuotientFits
      <3>4. Computed(a, f2, LongMax) = {Quotient(a, f2)}
        BY <1>3, <3>1, <3>3, ComputedIs
      <3> QED
        BY <3>2, <3>4 DEF a
    <2>2. ns \in Representable(LongMax)
      BY <1>11, <1>13, <1>20
    <2> DEFINE nsecs == IF ns \in Representable(LongMax)
                        THEN {(ns % (2 * (LongMax + 1))) % Second} ELSE 0 .. Second - 1
    <2>3. DurationOf(n, ratio) =
              {Timespec(sec, nsec) : sec \in Computed(n * f1, f2, LongMax), nsec \in nsecs}
      BY <1>2, <1>9, <1>12 DEF DurationOf
    <2>4. nsecs = {u * r}
      BY <1>18, <1>19, <2>2
    <2> HIDE DEF nsecs
    <2> QED
      BY <2>1, <2>3, <2>4
  <1>22. Nanoseconds(t) = ns /\ t.tv_sec = s
    BY <1>10 DEF Timespec, Nanoseconds
  <1> HIDE DEF t
  <1>23. DurationTo(t, ratio, LongMax) = RatioTo(ns, <<1, Second>>, ratio, LongMax)
    <2> DEFINE whole == s * Second
    <2>1. whole \in Nat
      <3>1. 0 * Second <= s * Second
        BY <1>3, <1>17, ProductGrows
      <3> QED
        BY <1>3, <1>16, <3>1
    <2>2. whole <= LongMax
      BY <1>3, <1>11, <1>13, <1>16
    <2>3. t.tv_sec * Second = whole
      BY <1>22
    <2> HIDE DEF whole
    <2>4. {t.tv_sec * Second, Nanoseconds(t)} \subseteq Representable(LongMax)
      BY <1>11, <1>13, <1>20, <1>22, <2>1, <2>2, <2>3
    <2> QED
      BY <1>22, <2>4 DEF DurationTo
  <1>24. Factor(<<1, Second>>, ratio) = <<1, e>>
    <2>1. Gcd[<<f2, e * f2>>] = f2
      BY <1>6, GcdOfMultiple
    <2> DEFINE m == e * f2
    <2>2. m = e * f2 + 0 /\ f2 = 1 * f2 + 0 /\ 0 \in 0 .. f2 - 1 /\ m \in Int
      BY <1>6
    <2> HIDE DEF m
    <2>3. m \div f2 = e /\ f2 \div f2 = 1
      BY <1>6, <2>2, DivisionIs
    <2>4. <<1, Second>>[1] = 1 /\ <<1, Second>>[2] = Second /\ 1 * f2 = f2
      OBVIOUS
    <2>5. Factor(<<1, Second>>, ratio) =
              <<f2 \div Gcd[<<f2, Second * f1>>], (Second * f1) \div Gcd[<<f2, Second * f1>>]>>
      BY <1>2, <2>4 DEF Factor
    <2> QED
      BY <1>6, <2>1, <2>3, <2>5 DEF m
  <1>25. RatioTo(ns, <<1, Second>>, ratio, LongMax) = {Quotient(ns, e)}
    <2>1. ns * 1 = ns /\ 1 \in Nat \ {0} /\ ns \in Int
      BY <1>11
    <2>2. ns \in Representable(LongMax) /\ 1 \in Representable(LongMax) /\ e \in Representable(LongMax)
      BY <1>3, <1>6, <1>11, <1>13, <1>14, <1>20
    <2>3. {ns, ns * 1, 1, e} \subseteq Representable(LongMax)
      BY <2>1, <2>2
    <2>4. RatioTo(ns, <<1, Second>>, ratio, LongMax) = {Quotient(ns * 1, e)}
      BY <1>3, <1>6, <1>24, <2>1, <2>3, RatioToIs
    <2> QED
      BY <2>1, <2>4
  <1>26. Quotient(ns, e) = n
    BY <1>6, <1>12, QuotientIsExact
  <1>27. DurationTo(t, ratio, LongMax) = {n}
    BY <1>23, <1>25, <1>26
  <1> QED
    BY <1>21, <1>27

LEMMA RatiosAlwaysAgree ==
    ASSUME NEW a \in Number, NEW b \in Number, NEW from \in Rational, NEW to \in Rational,
           NEW largest \in Nat \ {0}
    PROVE  /\ RatiosConvert(a[1], from, to, largest)
           /\ FactorsUndone(Abs(a[1]), b, largest)
           /\ DurationsConvert(Abs(a[1]), from)
           /\ Clamp(a[1], -1, b[2]) \in -1 .. b[2]
  <1>1. a[1] \in Int /\ b[2] \in Nat \ {0}
    BY DEF Number
  <1>2. Abs(a[1]) \in Nat
    BY <1>1 DEF Abs
  <1>3. Clamp(a[1], -1, b[2]) \in -1 .. b[2]
    BY <1>1 DEF Clamp
  <1> QED
    BY <1>1, <1>2, <1>3, RatiosAlwaysConvert, FactorsAlwaysUndone, DurationsAlwaysConvert

LEMMA CallsOfRatio ==
    ASSUME [Next]_values_vars, call' # call, call'.function = "ratio"
    PROVE  \E a, b \in Numbers, from, to \in Ratios, largest \in Limits :
               call' = [function |-> "ratio", a |-> a, b |-> b, from |-> from, to |-> to,
                        largest |-> largest]
  BY FunctionIsCalled
     DEF CallFunction, CallText, CallBase64, CallUri, CallClock, CallRatio, CallContainer,
         CallUsage, Call

(* For all values, ratios and signed types: a value goes to another ratio     *)
(* rounded once, and back when nothing was cut off, if it, the ratio of the   *)
(* ratios and their product are of the type; a product with a fraction that   *)
(* is of the type is undone by a division; and ticks that are no more         *)
(* nanoseconds than std::int64_t has become a duration and the same ticks     *)
(* again (RatioValue::to(), operator*, operator/, Duration(RatioValue),       *)
(* to<RatioValue>()).                                                         *)
THEOREM RatiosStayExact == Spec => []RatiosAreExact
  <1>1. Init => RatiosAreExact
    BY DEF Init, NoCall, RatiosAreExact
  <1>2. RatiosAreExact /\ [Next]_values_vars => RatiosAreExact'
    <2> SUFFICES ASSUME RatiosAreExact, [Next]_values_vars, call'.function = "ratio"
                 PROVE  RatiosAreExact'
      BY DEF RatiosAreExact
    <2>1. CASE call' = call
      BY <2>1 DEF RatiosAreExact
    <2>2. CASE call' # call
      <3>1. PICK a \in Numbers, b \in Numbers, from \in Ratios, to \in Ratios, largest \in Limits :
                call' = [function |-> "ratio", a |-> a, b |-> b, from |-> from, to |-> to,
                         largest |-> largest]
        BY <2>2, CallsOfRatio
      <3>2. a \in Number /\ b \in Number /\ from \in Rational /\ to \in Rational
            /\ largest \in Nat \ {0}
        BY ArgumentsAreValid DEF Number, Rational
      <3>3. call'.a = a /\ call'.b = b /\ call'.from = from /\ call'.to = to
            /\ call'.largest = largest
        BY <3>1
      <3> QED
        BY <3>2, <3>3, RatiosAlwaysAgree DEF RatiosAreExact
    <2> QED
      BY <2>1, <2>2
  <1> QED
    BY <1>1, <1>2, PTL DEF Spec
=============================================================================
