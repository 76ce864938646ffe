--------------------------------- MODULE Serial ---------------------------------
(***************************************************************************)
(* hlib::be and hlib::le over a Sink and a Source of a Buffer: a program     *)
(* writes values and strings one behind the other, as long as there is       *)
(* headroom, moves the buffer of the sink into a source and reads them back. *)
(* Base is the number of values of a byte (256 in the code).                 *)
(***************************************************************************)
EXTENDS Buffer

CONSTANTS
    Base,
    Item,           \* what may be written: [kind, size, signed, wide, value] with
                    \* kind "number", or [kind, value] with kind "string" or "chars"
    SinkMaximum,    \* the maxima of sinks: 0 is MinimalCapacity
    MaxItems        \* bound: items written to a sink

(* Base to the n; a byte is shifted by it.                                    *)
Power[n \in Nat] == IF n = 0 THEN 1 ELSE Base * Power[n - 1]

InRange(value, size, signed) ==
    IF signed THEN -Power[size] <= 2 * value /\ 2 * value < Power[size]
    ELSE 0 <= value /\ value < Power[size]

(* Numbers are those of their width, and what is written as characters has no *)
(* zero in it.                                                                *)
ASSUME BaseIsValid == Base \in Nat \ {0, 1} /\ 0 .. Base - 1 = Byte

ASSUME ItemsAreValid ==
    /\ SinkMaximum \subseteq 0 .. InfiniteCapacity
    /\ \A item \in Item :
          \/ /\ item.kind = "number" /\ item.size \in Nat \ {0} /\ item.wide \in Nat
             /\ item.signed \in BOOLEAN
             /\ item.value \in Int /\ InRange(item.value, item.size, item.signed)
          \/ item.kind = "string" /\ item.value \in Seq(Byte)
          \/ item.kind = "chars" /\ item.value \in Seq(Byte \ {0})

(* transform() to bytes: the byte k is value >> 8 * (size - k), cast to 8 bits; *)
(* a shift of a negative number rounds down.  le has them in the other order. *)
BigEndian(value, size) == [k \in 1..size |-> (value \div Power[size - k]) % Base]
Ordered(bytes, order) == IF order = "be" THEN bytes ELSE Reverse(bytes)

(* transform() from bytes: each shifted by those behind it, and combined.     *)
Combined(bytes) ==
    LET upto[k \in 0 .. Len(bytes)] == IF k = 0 THEN 0 ELSE upto[k - 1] * Base + bytes[k]
    IN upto[Len(bytes)]

(* Mutant of FromBytes: the sign is lost.                                     *)
FromBytesUnsigned(bytes, signed, order) == Combined(Ordered(bytes, order))

(* The number of these bytes, cast to the type that is read.                  *)
FromBytes(bytes, signed, order) ==
    LET n == Combined(Ordered(bytes, order))
    IN IF signed /\ 2 * n >= Power[Len(bytes)] THEN n - Power[Len(bytes)] ELSE n

(* A number; the data() and size() of a container; a string with its zero.    *)
BytesOf(item, order) ==
    CASE item.kind = "number" -> Ordered(BigEndian(item.value, item.size), order)
      [] item.kind = "string" -> item.value
      [] item.kind = "chars" -> Append(item.value, 0)

-----------------------------------------------------------------------------
VARIABLES
    sink,           \* [m_data, m_maximum]: a SinkAdapter<Buffer>
    source,         \* [m_data, m_progress]: a SourceAdapter<Buffer>
    items,          \* the items written, each with its order of bytes
    read,           \* what has been read
    failed          \* an assertion that failed, or "none"

serial_vars == <<sink, source, items, read, failed>>

(* Sink: it is full, always if it is minimal; headroom().                   *)
SinkFull(s) == s.m_maximum = 0 \/ s.m_data.size = s.m_maximum

Headroom(s) == s.m_maximum - s.m_data.size

(* SinkAdapter(maximum): reserved, unless it is infinite.                     *)
NewSink(maximum) ==
    [m_maximum |-> maximum,
     m_data |-> IF maximum = InfiniteCapacity THEN EmptyBuffer(InfiniteCapacity)
                ELSE NewBuffer(maximum, InfiniteCapacity, TRUE).buffer]

(* produce(data, size): resize() ends the program when memory does.           *)
Produce(s, bytes) ==
    LET resized == Resize(s.m_data, s.m_data.size + Len(bytes), "Grow", TRUE).buffer
    IN [s EXCEPT !.m_data = [resized EXCEPT !.memory = Write(@, s.m_data.size, bytes)]]

(* Source: what has not been consumed. *)
NewSource(data) == [m_data |-> data, m_progress |-> 0]

Available(s) == s.m_data.size - s.m_progress

Peek(s, size) == SubSeq(s.m_data.memory, s.m_progress + 1, s.m_progress + size)

Consume(s, size) == [s EXCEPT !.m_progress = @ + size]

-----------------------------------------------------------------------------
SerialInit ==
    /\ \E maximum \in SinkMaximum : sink = NewSink(maximum)
    /\ source = NewSource(EmptyBuffer(InfiniteCapacity))
    /\ items = <<>>
    /\ read = <<>>
    /\ failed = "none"

(* Serializer::transform(); its assertion is headroom()'s if that is minimal. *)
Serialize(item, order) ==
    LET bytes == BytesOf(item, order)
    IN /\ Len(items) < MaxItems /\ source.m_data.size = 0
       /\ sink.m_maximum # 0 /\ Len(bytes) <= Headroom(sink)
       /\ sink' = Produce(sink, bytes)
       /\ items' = Append(items, [item |-> item, order |-> order])
       /\ UNCHANGED <<source, read, failed>>

(* make_source(std::move(get<Buffer>(sink))) *)
SinkToSource ==
    /\ items # <<>> /\ source.m_data.size = 0
    /\ source' = NewSource(sink.m_data)
    /\ sink' = [sink EXCEPT !.m_data = Reset(@)]
    /\ UNCHANGED <<items, read, failed>>

(* Deserializer::transform<T, U>(): an enumeration T may be read as a narrower *)
(* U; what is asserted is the size of T, which is wide.                       *)
DeserializeNumber(item, order, wide) ==
    IF Available(source) < wide
    THEN failed' = "available" /\ UNCHANGED <<sink, source, items, read>>
    ELSE /\ read' = Append(read, FromBytes(Peek(source, item.size), item.signed, order))
         /\ source' = Consume(source, item.size)
         /\ UNCHANGED <<sink, items, failed>>

DeserializeString(size) ==
    /\ read' = Append(read, Peek(source, size))
    /\ source' = Consume(source, size)
    /\ UNCHANGED <<sink, items, failed>>

(* Characters are consumed one by one up to the zero.                         *)
DeserializeChars ==
    LET zero == Min({k \in 1 .. Available(source) : Peek(source, k)[k] = 0})
    IN /\ read' = Append(read, Peek(source, zero - 1))
       /\ source' = Consume(source, zero)
       /\ UNCHANGED <<sink, items, failed>>

Deserialize ==
    /\ source.m_data.size > 0 /\ Len(read) < Len(items) /\ failed = "none"
    /\ LET next == items[Len(read) + 1]
       IN \/ /\ next.item.kind = "number"
             /\ DeserializeNumber(next.item, next.order, next.item.wide)
          \/ next.item.kind = "string" /\ DeserializeString(Len(next.item.value))
          \/ next.item.kind = "chars" /\ DeserializeChars

SerialNext == (\E item \in Item, order \in {"be", "le"} : Serialize(item, order))
              \/ SinkToSource \/ Deserialize

-----------------------------------------------------------------------------
(* What is read is what was written, item by item, at every width and in      *)
(* either order of bytes, and the source ends where the last item does.  An   *)
(* assertion fails for nothing but an enumeration that is read as a narrower  *)
(* type (Serializer and Deserializer::transform()).                           *)
ItemsAreReadBack ==
    /\ failed # "none" => LET item == items[Len(read) + 1].item
                          IN item.kind = "number" /\ item.size < item.wide
    /\ \A k \in 1..Len(read) : read[k] = items[k].item.value
    /\ items # <<>> /\ Len(read) = Len(items) => Available(source) = 0
=============================================================================
