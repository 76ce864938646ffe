--------------------------------- MODULE Buffer ---------------------------------
(***************************************************************************)
(* hlib::Buffer: bytes in memory that is reallocated as they grow.  A buffer *)
(* is a record: its memory (m_data; m_capacity is its length, and no memory  *)
(* is the null pointer), m_size and m_maximum.  Sizes are of type size_t,    *)
(* and wrap at Word.  An operation takes granted, whether the allocation it  *)
(* may need succeeds, and gives the buffer behind it and whether it went     *)
(* well: its nothrow form returns that, the other one throws std::bad_alloc. *)
(***************************************************************************)
EXTENDS Integers, Sequences, SequencesExt, FiniteSetsExt

CONSTANTS
    Word,           \* the number of values of size_t
    Byte,           \* the values of a byte: 0 is one
    Unwritten       \* what memory holds that nobody has written

InfiniteCapacity == Word - 1

Sum(m, n) == (m + n) % Word

Capacity(b) == Len(b.memory)

Content(b) == SubSeq(b.memory, 1, b.size)

Done(b) == [buffer |-> b, ok |-> TRUE]
Failed(b) == [buffer |-> b, ok |-> FALSE]

(* Reset(), and a buffer that is default-constructed.                         *)
Reset(b) == [b EXCEPT !.memory = <<>>, !.size = 0]

EmptyBuffer(maximum) == [memory |-> <<>>, size |-> 0, maximum |-> maximum]

(* realloc(): what is new is zeroed, or not written.                          *)
Realloc(b, capacity, type, granted) ==
    LET added == IF type = "GrowZeroed" THEN 0 ELSE Unwritten
    IN IF type # "Shrink" /\ capacity <= Capacity(b) THEN Done(b)
       ELSE IF capacity > b.maximum \/ (0 < capacity /\ ~granted) THEN Failed(b)
       ELSE Done([b EXCEPT
                !.memory = [k \in 1..capacity |-> IF k <= Capacity(b) THEN @[k] ELSE added],
                !.size = Min({@, capacity})])

Clear(b) == [b EXCEPT !.size = 0]

(* shrink(): the result of realloc() is not looked at.                        *)
Shrink(b, granted) ==
    IF b.memory = <<>> \/ b.size = 0 THEN Reset(b)
    ELSE Realloc(b, b.size, "Shrink", granted).buffer

Reserve(b, capacity, type, granted) == Realloc(b, capacity, type, granted)

(* Buffer(reservation, maximum) *)
NewBuffer(reservation, maximum, granted) ==
    Reserve(EmptyBuffer(maximum), Min({reservation, maximum}), "Grow", granted)

(* extend(): room behind the content.  m_size + capacity may wrap.            *)
Extend(b, capacity, type, granted) ==
    IF capacity = 0 THEN Done(b) ELSE Realloc(b, Sum(b.size, capacity), type, granted)

Resize(b, size, type, granted) ==
    LET grown == IF size = 0 THEN Done(b) ELSE Realloc(b, size, type, granted)
    IN IF grown.ok THEN Done([grown.buffer EXCEPT !.size = size]) ELSE grown

-----------------------------------------------------------------------------
(* The memory after bytes were copied to where offset is. *)
Write(memory, offset, bytes) ==
    [k \in 1..Len(memory) |->
        IF k \in offset + 1 .. offset + Len(bytes) THEN bytes[k - offset] ELSE memory[k]]

(* Mutant of Insert: the tail is not moved.                                   *)
InsertOver(b, offset, bytes, granted) ==
    LET grown == Realloc(b, Sum(b.size, Len(bytes)), "Grow", granted)
        memory == grown.buffer.memory
    IN IF bytes = <<>> THEN Done(b)
       ELSE IF ~grown.ok THEN grown
       ELSE Done([grown.buffer EXCEPT
                !.memory = Write(memory, offset, bytes),
                !.size = @ + Len(bytes)])

(* insert(): memmove() of the tail, and memcpy(); append() inserts at m_size. *)
Insert(b, offset, bytes, granted) ==
    LET grown == Realloc(b, Sum(b.size, Len(bytes)), "Grow", granted)
        memory == grown.buffer.memory
        tail == SubSeq(memory, offset + 1, b.size)
    IN IF bytes = <<>> THEN Done(b)
       ELSE IF ~grown.ok THEN grown
       ELSE Done([grown.buffer EXCEPT
                !.memory = Write(Write(memory, offset + Len(bytes), tail), offset, bytes),
                !.size = @ + Len(bytes)])

AppendBytes(b, bytes, granted) == Insert(b, b.size, bytes, granted)

(* assign(): the old content is gone, also when it fails.                     *)
Assign(b, bytes, granted) == AppendBytes([b EXCEPT !.size = 0], bytes, granted)

Erase(b, offset, size) ==
    [b EXCEPT !.memory = Write(@, offset, SubSeq(@, offset + size + 1, b.size)),
              !.size = @ - size]

(* Two buffers: copy() and extract() from b into another one, and the move    *)
(* assignment, which leaves b without memory, but with its maximum.           *)
Stored(b, offset, size) == SubSeq(b.memory, offset + 1, offset + size)

Pair(b, to, ok) == [from |-> b, to |-> to, ok |-> ok]

Copy(b, offset, size, to, granted) ==
    LET assigned == Assign(to, Stored(b, offset, size), granted)
    IN Pair(b, assigned.buffer, assigned.ok)

Extract(b, offset, size, to, granted) ==
    LET assigned == Assign(to, Stored(b, offset, size), granted)
    IN Pair(IF assigned.ok THEN Erase(b, offset, size) ELSE b, assigned.buffer, assigned.ok)

(* extract() up to a sentinel: without one, the other buffer is cleared.      *)
ExtractUpTo(b, offset, sentinel, include_sentinel, to, granted) ==
    LET at == {k \in offset .. b.size - Len(sentinel) :
                  Stored(b, k, Len(sentinel)) = sentinel}
        size == Min(at) - offset + (IF include_sentinel THEN Len(sentinel) ELSE 0)
    IN IF at = {} THEN Pair(b, Clear(to), TRUE) ELSE Extract(b, offset, size, to, granted)

Move(b, to) == Pair(Reset(b), b, TRUE)

-----------------------------------------------------------------------------
(* A program with two buffers. *)
CONSTANTS
    Largest,        \* the largest allocation that may succeed
    Maximum,        \* the maxima that buffers are constructed with
    MaxAsked,       \* bound: the largest capacity or size asked for
    MaxBytes        \* bound: the most bytes that one call copies into a buffer

(* The bytes of a buffer and those that are copied into it are in memory at   *)
(* the same time: together they are fewer than size_t can count.              *)
ASSUME SizesAreValid ==
    /\ {Word, Largest, MaxAsked, MaxBytes} \subseteq Nat
    /\ Largest + MaxBytes < Word /\ MaxAsked <= InfiniteCapacity
    /\ Maximum \subseteq 0 .. InfiniteCapacity
    /\ 0 \in Byte

VARIABLES buffer, other

Bytes == BoundedSeq(Byte, MaxBytes)
Grants(capacity) == {granted \in BOOLEAN : granted => capacity <= Largest}

BufferInit ==
    /\ buffer \in {EmptyBuffer(maximum) : maximum \in Maximum}
    /\ other = EmptyBuffer(InfiniteCapacity)

ResizeBuffer ==
    \E n \in 0..MaxAsked, type \in {"Grow", "GrowZeroed"} :
        /\ \/ \E granted \in Grants(n) :
                 \/ buffer' = Reserve(buffer, n, type, granted).buffer
                 \/ buffer' = Resize(buffer, n, type, granted).buffer
           \/ \E granted \in Grants(Sum(buffer.size, n)) :
                 buffer' = Extend(buffer, n, type, granted).buffer
        /\ UNCHANGED other

ReduceBuffer ==
    /\ \/ buffer' = Clear(buffer)
       \/ \E granted \in Grants(buffer.size) : buffer' = Shrink(buffer, granted)
       \/ \E offset \in 0..buffer.size :
             \E size \in 0 .. buffer.size - offset : buffer' = Erase(buffer, offset, size)
    /\ UNCHANGED other

WriteBuffer ==
    \E bytes \in Bytes :
        \E granted \in Grants(Sum(buffer.size, Len(bytes))) :
            /\ \/ buffer' = Assign(buffer, bytes, granted).buffer
               \/ \E offset \in 0..buffer.size :
                     buffer' = Insert(buffer, offset, bytes, granted).buffer
            /\ UNCHANGED other

Between(pair) == buffer' = pair.from /\ other' = pair.to

TransferBuffer ==
    \/ \E offset \in 0..buffer.size, granted \in Grants(buffer.size) :
          \/ \E size \in 0 .. buffer.size - offset :
                \/ Between(Copy(buffer, offset, size, other, granted))
                \/ Between(Extract(buffer, offset, size, other, granted))
          \/ \E byte \in Byte, include_sentinel \in BOOLEAN :
                Between(ExtractUpTo(buffer, offset, <<byte>>, include_sentinel, other, granted))
    \/ Between(Move(buffer, other))
    \/ LET pair == Move(other, buffer) IN other' = pair.from /\ buffer' = pair.to

BufferNext == ResizeBuffer \/ ReduceBuffer \/ WriteBuffer \/ TransferBuffer

-----------------------------------------------------------------------------
(* A buffer never claims bytes that it has no memory for, nor takes more than *)
(* its maximum, though the maximum moves to the other buffer and stays where  *)
(* it was (realloc(), the move constructor and assignment).                   *)
BuffersFit ==
    \A b \in {buffer, other} : b.size <= Capacity(b) /\ Capacity(b) <= b.maximum

(* Every operation does to the bytes what it would do to a sequence, whatever *)
(* memory it has to move, and when an allocation fails nothing is lost but    *)
(* what assign() replaces (insert(), erase(), extract(), resize(), reserve()).*)
Spliced(s, offset, bytes) == SubSeq(s, 1, offset) \o bytes \o SubSeq(s, offset + 1, Len(s))

BufferIsSequence ==
    LET s == Content(buffer)
    IN /\ \A offset \in 0..Len(s), bytes \in Bytes, granted \in BOOLEAN :
              LET inserted == Insert(buffer, offset, bytes, granted)
              IN Content(inserted.buffer) =
                     IF inserted.ok THEN Spliced(s, offset, bytes) ELSE s
       /\ \A n \in 0..MaxAsked, granted \in BOOLEAN :
              LET resized == Resize(buffer, n, "Grow", granted)
                  extended == Extend(buffer, n, "Grow", granted)
                  kept == IF resized.ok THEN Min({n, Len(s)}) ELSE Len(s)
              IN /\ SubSeq(Content(resized.buffer), 1, kept) = SubSeq(s, 1, kept)
                 /\ resized.buffer.size = IF resized.ok THEN n ELSE Len(s)
                 /\ Content(extended.buffer) = s
       /\ \A offset \in 0..Len(s), granted \in BOOLEAN :
              \A size \in 0 .. Len(s) - offset :
                  LET pair == Extract(buffer, offset, size, other, granted)
                  IN IF pair.ok
                     THEN Spliced(Content(pair.from), offset, Content(pair.to)) = s
                     ELSE Content(pair.from) = s
=============================================================================
