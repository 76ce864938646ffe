----------------------------- MODULE SerialProofs -----------------------------
(***************************************************************************)
(* Proofs about Buffer and Serial: what each operation does to the memory    *)
(* and to the content, for buffers of any size, and the invariants of two    *)
(* buffers and of a sink and a source.                                       *)
(***************************************************************************)
EXTENDS Serial, SequenceTheorems, WellFoundedInduction, TLAPS

Cell == Byte \cup {Unwritten}

BufferType == [memory : Seq(Cell), size : Nat, maximum : Nat]

(* A buffer's bytes are in its memory, which is not larger than its maximum.  *)
Fits(b) == b \in BufferType /\ b.size <= Capacity(b) /\ Capacity(b) <= b.maximum

(* Its memory has been allocated, so that no size computed from it wraps.     *)
Allocated(b) == Fits(b) /\ Capacity(b) <= Largest /\ b.maximum < Word

BufferInv == Allocated(buffer) /\ Allocated(other)

-----------------------------------------------------------------------------
(* Sequences. *)
LEMMA MinOfTwo ==
    ASSUME NEW m \in Nat, NEW n \in Nat
    PROVE  Min({m, n}) = IF m <= n THEN m ELSE n
  <1> DEFINE smaller == IF m <= n THEN m ELSE n
  <1>1. smaller \in {m, n} /\ \A y \in {m, n} : smaller <= y
    OBVIOUS
  <1>2. \A x \in {m, n} : (\A y \in {m, n} : x <= y) => x = smaller
    OBVIOUS
  <1> QED
    BY <1>1, <1>2 DEF Min

LEMMA SumIsExact ==
    ASSUME NEW m \in Nat, NEW n \in Nat, m + n < Word
    PROVE  Sum(m, n) = m + n
  <1>1. Word \in Nat \ {0}
    BY SizesAreValid
  <1> DEFINE total == m + n
  <1>2. total \in 0 .. Word - 1
    BY <1>1
  <1> HIDE DEF total
  <1>3. total % Word = total
    BY <1>1, <1>2
  <1> QED
    BY <1>3 DEF Sum, total

LEMMA BytesAreSequences ==
    ASSUME NEW bytes \in Bytes
    PROVE  bytes \in Seq(Cell) /\ Len(bytes) <= MaxBytes
  <1>1. PICK m \in 0..MaxBytes : bytes \in [1..m -> Byte]
    BY SizesAreValid DEF Bytes, BoundedSeq, SeqOf
  <1>2. bytes \in Seq(Byte) /\ Len(bytes) = m
    BY <1>1, SizesAreValid
  <1>3. bytes \in Seq(Cell)
    BY <1>2, SeqMonotonic DEF Cell
  <1> QED
    BY <1>1, <1>2, <1>3, SizesAreValid

(* Parts of a memory, byte by byte.                                           *)
LEMMA PartOf ==
    ASSUME NEW s \in Seq(Cell), NEW offset \in Nat, NEW end \in 0..Len(s), offset <= end
    PROVE  /\ SubSeq(s, offset + 1, end) \in Seq(Cell)
           /\ Len(SubSeq(s, offset + 1, end)) = end - offset
           /\ \A k \in 1 .. end - offset : SubSeq(s, offset + 1, end)[k] = s[offset + k]
  <1>1. \A k \in offset + 1 .. end : s[k] \in Cell
    BY ElementOfSeq
  <1>2. offset + 1 <= end => end - (offset + 1) + 1 = end - offset
    OBVIOUS
  <1> QED
    BY <1>1, <1>2, SubSeqProperties

LEMMA SameFront ==
    ASSUME NEW s \in Seq(Cell), NEW t \in Seq(Cell), NEW kept \in Nat,
           kept <= Len(s), kept <= Len(t), \A k \in 1..kept : s[k] = t[k]
    PROVE  SubSeq(s, 1, kept) = SubSeq(t, 1, kept)
  <1> DEFINE front(u) == SubSeq(u, 1, kept)
  <1>1. ASSUME NEW u \in Seq(Cell), kept <= Len(u)
        PROVE  /\ front(u) \in Seq(Cell) /\ Len(front(u)) = kept
               /\ \A k \in 1..kept : front(u)[k] = u[k]
    <2>1. \A k \in 1..kept : u[k] \in Cell
      BY <1>1, ElementOfSeq, LenProperties
    <2>2. /\ front(u) \in Seq(Cell)
          /\ Len(front(u)) = IF 1 <= kept THEN kept - 1 + 1 ELSE 0
          /\ \A k \in 1 .. kept - 1 + 1 : front(u)[k] = u[1 + k - 1]
      BY <2>1, SubSeqProperties
    <2> QED
      BY <2>2
  <1> HIDE DEF front
  <1>2. front(s) = front(t)
    BY <1>1, SeqEqual
  <1> QED
    BY <1>2 DEF front

(* What memcpy() and memmove() leave in memory.                               *)
LEMMA WriteProperties ==
    ASSUME NEW memory \in Seq(Cell), NEW offset \in Nat, NEW bytes \in Seq(Cell)
    PROVE  /\ Write(memory, offset, bytes) \in Seq(Cell)
           /\ Len(Write(memory, offset, bytes)) = Len(memory)
           /\ \A k \in 1..Len(memory) : Write(memory, offset, bytes)[k] =
                  IF k \in offset + 1 .. offset + Len(bytes) THEN bytes[k - offset]
                  ELSE memory[k]
  <1>1. ASSUME NEW k \in 1..Len(memory)
        PROVE  (IF k \in offset + 1 .. offset + Len(bytes) THEN bytes[k - offset]
                ELSE memory[k]) \in Cell
    BY ElementOfSeq, LenProperties
  <1>2. Len(memory) \in Nat
    BY LenProperties
  <1> QED
    BY <1>1, <1>2 DEF Write

-----------------------------------------------------------------------------
(* realloc(): a buffer that grows keeps its bytes and its size, and one that  *)
(* fails to stays as it is.                                                   *)
KeepsMemory(b, after) ==
    /\ Fits(after) /\ after.maximum = b.maximum
    /\ Capacity(b) <= Capacity(after)
    /\ \A k \in 1..Capacity(b) : after.memory[k] = b.memory[k]

Keeps(b, after) == KeepsMemory(b, after) /\ after.size = b.size

LEMMA KeepsItself == ASSUME NEW b, Fits(b) PROVE Keeps(b, b)
  BY LenProperties DEF Keeps, KeepsMemory, Fits, BufferType, Capacity

(* The memory that realloc() copies to.                                       *)
Reallocated(b, capacity, added) ==
    [k \in 1..capacity |-> IF k <= Capacity(b) THEN b.memory[k] ELSE added]

LEMMA ReallocatedProperties ==
    ASSUME NEW b, Fits(b), NEW capacity \in Nat, NEW added \in Cell
    PROVE  /\ Reallocated(b, capacity, added) \in Seq(Cell)
           /\ Len(Reallocated(b, capacity, added)) = capacity
           /\ \A k \in 1..capacity :
                  k <= Capacity(b) => Reallocated(b, capacity, added)[k] = b.memory[k]
  <1>1. Capacity(b) \in Nat /\ b.memory \in Seq(Cell)
    BY LenProperties DEF Fits, BufferType, Capacity
  <1>2. ASSUME NEW k \in 1..capacity
        PROVE  (IF k <= Capacity(b) THEN b.memory[k] ELSE added) \in Cell
    BY <1>1, ElementOfSeq DEF Capacity
  <1> QED
    BY <1>1, <1>2 DEF Reallocated

(* The memory stays, or it is what an allocation that is granted gives.       *)
AsGranted(b, capacity, granted, after) ==
    \/ Capacity(after) = Capacity(b)
    \/ granted /\ Capacity(after) = capacity

Grows(b, capacity, r) ==
    /\ r.ok \in BOOLEAN /\ Keeps(b, r.buffer)
    /\ r.ok => capacity <= Capacity(r.buffer)
    /\ ~r.ok => r.buffer = b

LEMMA ReallocGrows ==
    ASSUME NEW b, Fits(b), NEW capacity \in Nat, NEW type \in {"Grow", "GrowZeroed"},
           NEW granted \in BOOLEAN, NEW r, r = Realloc(b, capacity, type, granted)
    PROVE  Grows(b, capacity, r) /\ AsGranted(b, capacity, granted, r.buffer)
  <1> SUFFICES
          /\ r.ok \in BOOLEAN /\ Keeps(b, r.buffer)
          /\ r.ok => capacity <= Capacity(r.buffer)
          /\ ~r.ok => r.buffer = b
          /\ Capacity(r.buffer) = Capacity(b) \/ (granted /\ Capacity(r.buffer) = capacity)
    BY DEF Grows, AsGranted
  <1> DEFINE added == IF type = "GrowZeroed" THEN 0 ELSE Unwritten
             memory == Reallocated(b, capacity, added)
             grown == [b EXCEPT !.memory = memory, !.size = Min({b.size, capacity})]
  <1>1. /\ b \in BufferType /\ Capacity(b) \in Nat /\ b.size \in Nat
        /\ b.size <= Capacity(b) /\ b.maximum \in Nat
    BY LenProperties DEF Fits, BufferType, Capacity
  <1>2. CASE capacity <= Capacity(b)
    <2>1. r = Done(b)
      BY <1>2 DEF Realloc
    <2>2. r.ok = TRUE /\ r.buffer = b
      BY <2>1 DEF Done
    <2>3. Keeps(b, b)
      BY KeepsItself
    <2> QED
      BY <1>2, <2>2, <2>3
  <1>3. CASE capacity > Capacity(b) /\ (capacity > b.maximum \/ ~granted)
    <2>1. r = Failed(b)
      BY <1>1, <1>3 DEF Realloc
    <2>2. r.ok = FALSE /\ r.buffer = b
      BY <2>1 DEF Failed
    <2>3. Keeps(b, b)
      BY KeepsItself
    <2> QED
      BY <2>2, <2>3
  <1>4. CASE capacity > Capacity(b) /\ capacity <= b.maximum /\ granted
    <2>1. r = Done(grown)
      BY <1>1, <1>4 DEF Realloc, Reallocated
    <2>2. added \in Cell
      BY SizesAreValid DEF Cell
    <2>3. /\ memory \in Seq(Cell) /\ Len(memory) = capacity
          /\ \A k \in 1..capacity : k <= Capacity(b) => memory[k] = b.memory[k]
      BY <2>2, ReallocatedProperties
    <2> HIDE DEF memory
    <2>4. Min({b.size, capacity}) = b.size
      BY <1>1, <1>4, MinOfTwo
    <2>5. /\ grown \in BufferType /\ grown.memory = memory /\ grown.size = b.size
          /\ grown.maximum = b.maximum
      BY <1>1, <2>3, <2>4 DEF BufferType
    <2>6. Capacity(grown) = capacity
      BY <2>3, <2>5 DEF Capacity
    <2>7. Fits(grown)
      BY <1>1, <1>4, <2>5, <2>6 DEF Fits
    <2>8. Keeps(b, grown)
      BY <1>1, <1>4, <2>3, <2>5, <2>6, <2>7 DEF Keeps, KeepsMemory
    <2>9. r.ok = TRUE /\ r.buffer = grown
      BY <2>1 DEF Done
    <2> HIDE DEF grown
    <2>10. Capacity(r.buffer) = capacity /\ Keeps(b, r.buffer)
      BY <2>6, <2>8, <2>9
    <2>11. capacity <= Capacity(r.buffer)
      BY <2>10
    <2> QED
      BY <1>4, <2>9, <2>10, <2>11, Zenon
  <1> QED
    BY <1>1, <1>2, <1>3, <1>4

LEMMA ResetProperties ==
    ASSUME NEW b, Fits(b)
    PROVE  /\ Fits(Reset(b)) /\ Capacity(Reset(b)) = 0 /\ Reset(b).maximum = b.maximum
           /\ Reset(b).size = 0
  <1> DEFINE none == <<>>
             reset == [b EXCEPT !.memory = none, !.size = 0]
  <1>1. none \in Seq(Cell) /\ Len(none) = 0
    BY EmptySeq
  <1>2. Reset(b) = reset
    BY DEF Reset
  <1> HIDE DEF none
  <1>3. b \in BufferType /\ b.maximum \in Nat
    BY DEF Fits, BufferType
  <1>4. /\ reset \in BufferType /\ reset.memory = none
        /\ reset.size = 0 /\ reset.maximum = b.maximum
    BY <1>1, <1>3 DEF BufferType
  <1> QED
    BY <1>1, <1>2, <1>3, <1>4 DEF Fits, Capacity

LEMMA ShrinkProperties ==
    ASSUME NEW b, Fits(b), NEW granted \in BOOLEAN
    PROVE  /\ Fits(Shrink(b, granted)) /\ Shrink(b, granted).maximum = b.maximum
           /\ Capacity(Shrink(b, granted)) <= Capacity(b)
  <1> DEFINE memory == Reallocated(b, b.size, Unwritten)
             reduced == [b EXCEPT !.memory = memory, !.size = Min({b.size, b.size})]
  <1>1. /\ b \in BufferType /\ Capacity(b) \in Nat /\ b.size \in Nat
        /\ b.size <= Capacity(b) /\ b.maximum \in Nat /\ Capacity(b) <= b.maximum
    BY LenProperties DEF Fits, BufferType, Capacity
  <1>2. CASE b.memory = <<>> \/ b.size = 0
    <2>1. Shrink(b, granted) = Reset(b)
      BY <1>2 DEF Shrink
    <2> QED
      BY <1>1, <2>1, ResetProperties
  <1>3. CASE b.memory # <<>> /\ b.size # 0 /\ granted
    <2>1. Shrink(b, granted) = reduced
      BY <1>1, <1>3 DEF Shrink, Realloc, Done, Reallocated
    <2>2. memory \in Seq(Cell) /\ Len(memory) = b.size
      BY <1>1, ReallocatedProperties DEF Cell
    <2> HIDE DEF memory
    <2>3. Min({b.size, b.size}) = b.size
      BY <1>1, MinOfTwo
    <2>4. /\ reduced \in BufferType /\ reduced.memory = memory
          /\ reduced.size = b.size /\ reduced.maximum = b.maximum
      BY <1>1, <2>2, <2>3 DEF BufferType
    <2> QED
      BY <1>1, <2>1, <2>2, <2>4 DEF Fits, Capacity
  <1>4. CASE b.memory # <<>> /\ b.size # 0 /\ ~granted
    <2>1. Shrink(b, granted) = b
      BY <1>1, <1>4 DEF Shrink, Realloc, Failed
    <2> QED
      BY <1>1, <2>1
  <1> QED
    BY <1>2, <1>3, <1>4

-----------------------------------------------------------------------------
(* The content, byte by byte. *)
LEMMA ContentProperties ==
    ASSUME NEW b, Fits(b)
    PROVE  /\ Content(b) \in Seq(Cell) /\ Len(Content(b)) = b.size
           /\ \A k \in 1..b.size : Content(b)[k] = b.memory[k]
  <1>1. b.memory \in Seq(Cell) /\ 0 \in Nat /\ b.size \in 0..Len(b.memory) /\ 0 <= b.size
    BY LenProperties DEF Fits, BufferType, Capacity
  <1>2. Content(b) = SubSeq(b.memory, 0 + 1, b.size)
    BY DEF Content
  <1> QED
    BY ONLY <1>1, <1>2, PartOf

LEMMA SameContent ==
    ASSUME NEW b, Fits(b), NEW after, Keeps(b, after)
    PROVE  Content(after) = Content(b)
  <1>1. \A k \in 1..b.size : after.memory[k] = b.memory[k]
    BY LenProperties DEF Keeps, KeepsMemory, Fits, BufferType, Capacity
  <1>2. /\ Content(b) \in Seq(Cell) /\ Content(after) \in Seq(Cell)
        /\ Len(Content(b)) = Len(Content(after))
        /\ \A k \in 1..Len(Content(b)) : Content(b)[k] = Content(after)[k]
    BY <1>1, ContentProperties DEF Keeps, KeepsMemory
  <1> QED
    BY <1>2, SeqEqual

LEMMA SplicedProperties ==
    ASSUME NEW s \in Seq(Cell), NEW offset \in 0..Len(s), NEW bytes \in Seq(Cell)
    PROVE  /\ Spliced(s, offset, bytes) \in Seq(Cell)
           /\ Len(Spliced(s, offset, bytes)) = Len(s) + Len(bytes)
           /\ \A k \in 1 .. Len(s) + Len(bytes) :
                  Spliced(s, offset, bytes)[k] =
                      IF k <= offset THEN s[k]
                      ELSE IF k <= offset + Len(bytes) THEN bytes[k - offset]
                      ELSE s[k - Len(bytes)]
  <1> DEFINE front == SubSeq(s, 0 + 1, offset)
             tail == SubSeq(s, offset + 1, Len(s))
  <1>1. Len(s) \in Nat /\ Len(bytes) \in Nat /\ offset \in Nat
    BY LenProperties
  <1>2. /\ front \in Seq(Cell) /\ Len(front) = offset
        /\ \A k \in 1..offset : front[k] = s[k]
    BY <1>1, PartOf
  <1>3. /\ tail \in Seq(Cell) /\ Len(tail) = Len(s) - offset
        /\ \A k \in 1 .. Len(s) - offset : tail[k] = s[offset + k]
    BY <1>1, PartOf
  <1>4. Spliced(s, offset, bytes) = (front \o bytes) \o tail
    BY DEF Spliced
  <1> HIDE DEF front, tail
  <1>5. /\ front \o bytes \in Seq(Cell) /\ Len(front \o bytes) = offset + Len(bytes)
        /\ \A k \in 1 .. offset + Len(bytes) :
               (front \o bytes)[k] = IF k <= offset THEN s[k] ELSE bytes[k - offset]
    <2>1. /\ front \o bytes \in Seq(Cell) /\ Len(front \o bytes) = Len(front) + Len(bytes)
          /\ \A k \in 1 .. Len(front) + Len(bytes) :
                 (front \o bytes)[k] =
                     IF k <= Len(front) THEN front[k] ELSE bytes[k - Len(front)]
      BY <1>2, ConcatProperties
    <2> HIDE DEF Cell
    <2>2. ASSUME NEW k \in 1 .. offset + Len(bytes)
          PROVE  (front \o bytes)[k] = IF k <= offset THEN s[k] ELSE bytes[k - offset]
      <3>1. k <= offset => k \in 1..offset
        BY <1>1
      <3> QED
        BY <1>2, <2>1, <3>1
    <2> QED
      BY <1>2, <2>1, <2>2
  <1> DEFINE before == front \o bytes
  <1> HIDE DEF before
  <1>6. /\ before \o tail \in Seq(Cell) /\ Len(before \o tail) = Len(s) + Len(bytes)
        /\ \A k \in 1 .. Len(s) + Len(bytes) :
               (before \o tail)[k] = IF k <= offset + Len(bytes) THEN before[k]
                                     ELSE tail[k - (offset + Len(bytes))]
    <2>1. before \in Seq(Cell) /\ Len(before) = offset + Len(bytes)
      BY <1>5 DEF before
    <2> QED
      BY <1>1, <1>3, <2>1, ConcatProperties
  <1>7. ASSUME NEW k \in 1 .. Len(s) + Len(bytes), k > offset + Len(bytes)
        PROVE  tail[k - (offset + Len(bytes))] = s[k - Len(bytes)]
    <2>1. k - (offset + Len(bytes)) \in 1 .. Len(s) - offset
      BY <1>1, <1>7
    <2>2. offset + (k - (offset + Len(bytes))) = k - Len(bytes)
      BY <1>1
    <2> QED
      BY <1>3, <2>1, <2>2
  <1>8. ASSUME NEW k \in 1 .. offset + Len(bytes)
        PROVE  before[k] = IF k <= offset THEN s[k] ELSE bytes[k - offset]
    BY <1>5 DEF before
  <1>9. Spliced(s, offset, bytes) = before \o tail
    BY <1>4 DEF before
  <1>10. ASSUME NEW k \in 1 .. Len(s) + Len(bytes)
         PROVE  (before \o tail)[k] = IF k <= offset THEN s[k]
                                      ELSE IF k <= offset + Len(bytes) THEN bytes[k - offset]
                                      ELSE s[k - Len(bytes)]
    <2>1. CASE k > offset + Len(bytes)
      <3>1. ~(k <= offset) /\ ~(k <= offset + Len(bytes))
        BY <1>1, <2>1
      <3> QED
        BY <1>6, <1>7, <2>1, <3>1
    <2>2. CASE k <= offset + Len(bytes)
      <3>1. k \in 1 .. offset + Len(bytes)
        BY <1>1, <2>2
      <3> QED
        BY <1>6, <1>8, <2>2, <3>1
    <2>3. k > offset + Len(bytes) \/ k <= offset + Len(bytes)
      BY <1>1
    <2> QED
      BY <2>1, <2>2, <2>3, Zenon
  <1> QED
    BY <1>6, <1>9, <1>10

(* insert(): the tail moves up, and the bytes take its place.                 *)
Inserted(memory, size, offset, bytes) ==
    Write(Write(memory, offset + Len(bytes), SubSeq(memory, offset + 1, size)), offset, bytes)

LEMMA InsertedBytes ==
    ASSUME NEW memory \in Seq(Cell), NEW bytes \in Seq(Cell), NEW size \in Nat,
           size + Len(bytes) <= Len(memory), NEW offset \in 0..size
    PROVE  /\ Inserted(memory, size, offset, bytes) \in Seq(Cell)
           /\ Len(Inserted(memory, size, offset, bytes)) = Len(memory)
           /\ \A k \in 1 .. size + Len(bytes) :
                  Inserted(memory, size, offset, bytes)[k] =
                      IF k <= offset THEN memory[k]
                      ELSE IF k <= offset + Len(bytes) THEN bytes[k - offset]
                      ELSE memory[k - Len(bytes)]
  <1> DEFINE n == Len(bytes)
             tail == SubSeq(memory, offset + 1, size)
             moved == Write(memory, offset + n, tail)
  <1>1. Len(memory) \in Nat /\ n \in Nat /\ offset \in Nat /\ size \in 0..Len(memory)
    BY LenProperties
  <1>2. /\ tail \in Seq(Cell) /\ Len(tail) = size - offset
        /\ \A k \in 1 .. size - offset : tail[k] = memory[offset + k]
    BY <1>1, PartOf
  <1> HIDE DEF tail, n
  <1>3. /\ moved \in Seq(Cell) /\ Len(moved) = Len(memory)
        /\ \A k \in 1..Len(memory) : moved[k] =
               IF k \in (offset + n) + 1 .. (offset + n) + Len(tail)
               THEN tail[k - (offset + n)] ELSE memory[k]
    BY <1>1, <1>2, WriteProperties
  <1> HIDE DEF moved
  <1>4. /\ Write(moved, offset, bytes) \in Seq(Cell)
        /\ Len(Write(moved, offset, bytes)) = Len(memory)
        /\ \A k \in 1..Len(memory) : Write(moved, offset, bytes)[k] =
               IF k \in offset + 1 .. offset + n THEN bytes[k - offset] ELSE moved[k]
    BY <1>1, <1>3, WriteProperties DEF n
  <1>5. ASSUME NEW k \in 1 .. size + n
        PROVE  moved[k] = IF k <= offset + n THEN memory[k] ELSE memory[k - n]
    <2>1. k \in 1..Len(memory)
      BY <1>1 DEF n
    <2>2. CASE k > offset + n
      <3>1. k - (offset + n) \in 1 .. size - offset
        BY <1>1, <2>2
      <3>2. offset + (k - (offset + n)) = k - n
        BY <1>1
      <3>3. moved[k] = tail[k - (offset + n)]
        BY <1>1, <1>2, <1>3, <2>1, <3>1
      <3>4. tail[k - (offset + n)] = memory[offset + (k - (offset + n))]
        BY <1>2, <3>1
      <3>5. tail[k - (offset + n)] = memory[k - n]
        BY <3>2, <3>4
      <3>6. ~(k <= offset + n)
        BY <1>1, <2>2
      <3> QED
        BY <3>3, <3>5, <3>6
    <2>3. CASE k <= offset + n
      <3>1. k \notin (offset + n) + 1 .. (offset + n) + Len(tail)
        BY <1>1, <1>2, <2>3
      <3> QED
        BY <1>3, <2>1, <2>3, <3>1
    <2>4. k <= offset + n \/ k > offset + n
      BY <1>1
    <2> QED
      BY <2>2, <2>3, <2>4
  <1>6. Inserted(memory, size, offset, bytes) = Write(moved, offset, bytes)
    BY DEF Inserted, moved, tail, n
  <1> DEFINE written == Write(moved, offset, bytes)
  <1>7. ASSUME NEW k \in 1 .. size + n
        PROVE  written[k] =
                   IF k <= offset THEN memory[k]
                   ELSE IF k <= offset + n THEN bytes[k - offset] ELSE memory[k - n]
    <2>1. k \in 1..Len(memory)
      BY <1>1 DEF n
    <2>2. written[k] = IF k \in offset + 1 .. offset + n THEN bytes[k - offset] ELSE moved[k]
      BY <1>4, <2>1
    <2> HIDE DEF written
    <2>3. moved[k] = IF k <= offset + n THEN memory[k] ELSE memory[k - n]
      BY <1>5
    <2> QED
      BY <1>1, <2>2, <2>3
  <1> QED
    BY <1>4, <1>6, <1>7 DEF n

Inserts(b, offset, bytes, r) ==
    /\ r.ok \in BOOLEAN /\ Fits(r.buffer) /\ r.buffer.maximum = b.maximum
    /\ ~r.ok => r.buffer = b
    /\ r.ok => r.buffer.size = b.size + Len(bytes)
    /\ Content(r.buffer) = IF r.ok THEN Spliced(Content(b), offset, bytes) ELSE Content(b)

LEMMA InsertProperties ==
    ASSUME NEW b, Fits(b), NEW bytes \in Seq(Cell), b.size + Len(bytes) < Word,
           NEW offset \in 0..b.size, NEW granted \in BOOLEAN,
           NEW r, r = Insert(b, offset, bytes, granted)
    PROVE  Inserts(b, offset, bytes, r) /\ AsGranted(b, b.size + Len(bytes), granted, r.buffer)
  <1> SUFFICES
          /\ r.ok \in BOOLEAN /\ Fits(r.buffer) /\ r.buffer.maximum = b.maximum
          /\ ~r.ok => r.buffer = b
          /\ r.ok => r.buffer.size = b.size + Len(bytes)
          /\ Content(r.buffer) = IF r.ok THEN Spliced(Content(b), offset, bytes) ELSE Content(b)
          /\ \/ Capacity(r.buffer) = Capacity(b)
             \/ granted /\ Capacity(r.buffer) = b.size + Len(bytes)
    BY Zenon DEF Inserts, AsGranted
  <1> DEFINE n == Len(bytes)
             grown == Realloc(b, b.size + n, "Grow", granted)
  <1>1. /\ b \in BufferType /\ Capacity(b) \in Nat /\ b.size \in Nat
        /\ b.size <= Capacity(b) /\ n \in Nat
    BY LenProperties DEF Fits, BufferType, Capacity
  <1>2. Sum(b.size, Len(bytes)) = b.size + n
    BY <1>1, SumIsExact
  <1>3. /\ Content(b) \in Seq(Cell) /\ Len(Content(b)) = b.size
        /\ \A k \in 1..b.size : Content(b)[k] = b.memory[k]
    BY ContentProperties
  <1>4. CASE bytes = <<>>
    <2>1. r.ok = TRUE /\ r.buffer = b
      BY <1>4 DEF Insert, Done
    <2>2. n = 0
      BY <1>4, EmptySeq
    <2>3. Spliced(Content(b), offset, bytes) = Content(b)
      <3> DEFINE s == Content(b)
                 spliced == Spliced(s, offset, bytes)
      <3>1. s \in Seq(Cell) /\ Len(s) \in Nat /\ offset \in 0..Len(s)
        BY <1>1, <1>3
      <3> HIDE DEF s
      <3>2. /\ spliced \in Seq(Cell) /\ Len(spliced) = Len(s) + Len(bytes)
            /\ \A k \in 1 .. Len(s) + Len(bytes) : spliced[k] =
                   IF k <= offset THEN s[k]
                   ELSE IF k <= offset + Len(bytes) THEN bytes[k - offset]
                   ELSE s[k - Len(bytes)]
        BY <3>1, SplicedProperties
      <3> HIDE DEF spliced
      <3>3. Len(spliced) = Len(s) /\ \A k \in 1..Len(s) : spliced[k] = s[k]
        BY <2>2, <3>1, <3>2
      <3> QED
        BY <3>1, <3>2, <3>3, SeqEqual DEF s, spliced
    <2>4. b.size = b.size + n
      BY <1>1, <2>2
    <2> QED
      BY <2>1, <2>3, <2>4
  <1>5. /\ grown.ok \in BOOLEAN /\ Keeps(b, grown.buffer)
        /\ grown.ok => b.size + n <= Capacity(grown.buffer)
        /\ ~grown.ok => grown.buffer = b
        /\ \/ Capacity(grown.buffer) = Capacity(b)
           \/ granted /\ Capacity(grown.buffer) = b.size + n
    <2> DEFINE total == b.size + n
    <2>1. total \in Nat /\ "Grow" \in {"Grow", "GrowZeroed"}
      BY <1>1
    <2>2. grown = Realloc(b, total, "Grow", granted)
      OBVIOUS
    <2> HIDE DEF grown, total
    <2>3. Grows(b, total, grown) /\ AsGranted(b, total, granted, grown.buffer)
      BY <2>1, <2>2, ReallocGrows
    <2> QED
      BY <2>3, Zenon DEF Grows, AsGranted, total
  <1>6. CASE bytes # <<>> /\ ~grown.ok
    <2>1. r = grown
      BY <1>2, <1>6 DEF Insert
    <2> HIDE DEF grown
    <2>2. r.ok = FALSE /\ r.buffer = b
      BY <1>5, <1>6, <2>1
    <2> QED
      BY <2>2
  <1>7. CASE bytes # <<>> /\ grown.ok
    <2> DEFINE old == grown.buffer
               memory == Inserted(old.memory, b.size, offset, bytes)
               new == [old EXCEPT !.memory = memory, !.size = old.size + n]
    <2>1. r = Done(new)
      BY <1>2, <1>7 DEF Insert, Inserted
    <2> HIDE DEF grown
    <2>2. /\ Fits(old) /\ old.size = b.size /\ old.maximum = b.maximum
          /\ \A k \in 1..b.size : old.memory[k] = b.memory[k]
      BY <1>1, <1>5 DEF Keeps, KeepsMemory
    <2>3. /\ old \in BufferType /\ old.memory \in Seq(Cell) /\ Capacity(old) <= old.maximum
          /\ b.size + n <= Len(old.memory)
      BY <1>5, <1>7, <2>2 DEF Fits, BufferType, Capacity
    <2> HIDE DEF old
    <2>4. /\ memory \in Seq(Cell) /\ Len(memory) = Len(old.memory)
          /\ \A k \in 1 .. b.size + n :
                 memory[k] = IF k <= offset THEN old.memory[k]
                             ELSE IF k <= offset + n THEN bytes[k - offset]
                             ELSE old.memory[k - n]
      BY <1>1, <2>3, InsertedBytes
    <2> HIDE DEF memory
    <2> HIDE DEF n
    <2>5. /\ new \in BufferType /\ new.memory = memory /\ new.size = b.size + n
          /\ new.maximum = b.maximum
      <3> DEFINE total == old.size + n
      <3>1. total \in Nat /\ total = b.size + n
        BY <1>1, <2>2
      <3>2. new = [old EXCEPT !.memory = memory, !.size = total]
        OBVIOUS
      <3> HIDE DEF total
      <3> QED
        BY <2>2, <2>3, <2>4, <3>1, <3>2 DEF BufferType
    <2> HIDE DEF new
    <2>6. Fits(new) /\ Capacity(new) = Capacity(old)
      BY <2>2, <2>3, <2>4, <2>5 DEF Fits, Capacity
    <2>7. Content(new) = Spliced(Content(b), offset, bytes)
      <3>1. /\ Content(new) \in Seq(Cell) /\ Len(Content(new)) = b.size + n
            /\ \A k \in 1 .. b.size + n : Content(new)[k] = memory[k]
        BY <2>5, <2>6, ContentProperties
      <3>2. /\ Spliced(Content(b), offset, bytes) \in Seq(Cell)
            /\ Len(Spliced(Content(b), offset, bytes)) = b.size + n
            /\ \A k \in 1 .. b.size + n :
                   Spliced(Content(b), offset, bytes)[k] =
                       IF k <= offset THEN Content(b)[k]
                       ELSE IF k <= offset + n THEN bytes[k - offset]
                       ELSE Content(b)[k - n]
        <4> DEFINE s == Content(b)
        <4>1. s \in Seq(Cell) /\ Len(s) = b.size /\ offset \in 0..Len(s)
          BY <1>3
        <4> HIDE DEF s
        <4> DEFINE spliced == Spliced(s, offset, bytes)
        <4>2. /\ spliced \in Seq(Cell) /\ Len(spliced) = Len(s) + Len(bytes)
              /\ \A k \in 1 .. Len(s) + Len(bytes) : spliced[k] =
                     IF k <= offset THEN s[k]
                     ELSE IF k <= offset + Len(bytes) THEN bytes[k - offset]
                     ELSE s[k - Len(bytes)]
          BY <4>1, SplicedProperties
        <4>3. spliced = Spliced(Content(b), offset, bytes) /\ s = Content(b) /\ n = Len(bytes)
          BY DEF s, n
        <4> HIDE DEF spliced
        <4>4. Len(s) = b.size
          BY <4>3, <1>3
        <4> QED
          BY <4>2, <4>3, <4>4
      <3>3. ASSUME NEW k \in 1 .. b.size + n
            PROVE  Content(new)[k] = Spliced(Content(b), offset, bytes)[k]
        <4>1. k <= offset => k \in 1..b.size
          BY <1>1
        <4>2. k > offset + n => k - n \in 1..b.size
          BY <1>1
        <4> HIDE DEF n
        <4> QED
          BY <1>1, <1>3, <2>2, <2>4, <3>1, <3>2, <4>1, <4>2
      <3> QED
        BY <3>1, <3>2, <3>3, SeqEqual
    <2>8. r.ok = TRUE /\ r.buffer = new
      BY <2>1 DEF Done
    <2>9. Capacity(new) = Capacity(b) \/ (granted /\ Capacity(new) = b.size + n)
      BY <1>5, <2>6 DEF old
    <2>10. n = Len(bytes)
      BY DEF n
    <2> QED
      <3>1. Fits(r.buffer) /\ r.buffer.maximum = b.maximum /\ r.buffer.size = b.size + Len(bytes)
        BY <2>5, <2>6, <2>8, <2>10
      <3>2. Content(r.buffer) = Spliced(Content(b), offset, bytes)
        BY <2>7, <2>8
      <3>3. \/ Capacity(r.buffer) = Capacity(b)
            \/ granted /\ Capacity(r.buffer) = b.size + Len(bytes)
        BY <2>8, <2>9, <2>10, Zenon
      <3> QED
        BY <2>8, <3>1, <3>2, <3>3, Zenon
  <1> QED
    BY <1>4, <1>5, <1>6, <1>7

(* resize() and reserve(): the bytes that stay are those of before.           *)
Resizes(b, size, r) ==
    /\ r.ok \in BOOLEAN /\ KeepsMemory(b, r.buffer)
    /\ r.ok => r.buffer.size = size
    /\ ~r.ok => r.buffer = b

LEMMA ResizeProperties ==
    ASSUME NEW b, Fits(b), NEW size \in Nat, NEW type \in {"Grow", "GrowZeroed"},
           NEW granted \in BOOLEAN, NEW r, r = Resize(b, size, type, granted)
    PROVE  Resizes(b, size, r) /\ AsGranted(b, size, granted, r.buffer)
  <1> SUFFICES /\ Resizes(b, size, r)
               /\ \/ Capacity(r.buffer) = Capacity(b)
                  \/ granted /\ Capacity(r.buffer) = size
    BY Zenon DEF AsGranted
  <1> DEFINE grown == IF size = 0 THEN Done(b) ELSE Realloc(b, size, type, granted)
             old == grown.buffer
             new == [old EXCEPT !.size = size]
  <1>1. /\ grown.ok \in BOOLEAN /\ Keeps(b, old)
        /\ (grown.ok => size <= Capacity(old)) /\ (~grown.ok => old = b)
    <2>1. CASE size = 0
      <3>1. grown.ok = TRUE /\ old = b
        BY <2>1 DEF Done
      <3>2. Capacity(b) \in Nat
        BY LenProperties DEF Fits, BufferType, Capacity
      <3>3. Keeps(b, b)
        BY KeepsItself
      <3> HIDE DEF grown
      <3>4. size <= Capacity(old)
        BY <2>1, <3>1, <3>2
      <3> QED
        BY <3>1, <3>3, <3>4, Zenon
    <2>2. CASE size # 0
      <3>1. grown = Realloc(b, size, type, granted)
        BY <2>2
      <3> HIDE DEF grown
      <3>2. Grows(b, size, grown)
        BY <3>1, ReallocGrows
      <3> QED
        BY <3>2, Zenon DEF Grows
    <2> QED
      BY <2>1, <2>2
  <1>2. Capacity(old) = Capacity(b) \/ (granted /\ Capacity(old) = size)
    <2>1. CASE size = 0
      BY <2>1 DEF Done
    <2>2. CASE size # 0
      <3>1. grown = Realloc(b, size, type, granted)
        BY <2>2
      <3> HIDE DEF grown
      <3>2. AsGranted(b, size, granted, old)
        BY <3>1, ReallocGrows
      <3> QED
        BY <3>2, Zenon DEF AsGranted
    <2> QED
      BY <2>1, <2>2
  <1>3. r = IF grown.ok THEN Done(new) ELSE grown
    BY DEF Resize
  <1> HIDE DEF grown
  <1>4. /\ Fits(old) /\ old \in BufferType /\ old.size = b.size /\ old.maximum = b.maximum
        /\ Capacity(b) <= Capacity(old) /\ KeepsMemory(b, old)
        /\ \A k \in 1..Capacity(b) : old.memory[k] = b.memory[k]
    BY <1>1 DEF Keeps, KeepsMemory, Fits
  <1>5. CASE ~grown.ok
    <2>1. r.ok = FALSE /\ r.buffer = old /\ old = b
      BY <1>1, <1>3, <1>5
    <2>2. Resizes(b, size, r)
      BY <1>4, <2>1 DEF Resizes
    <2> QED
      BY <1>2, <2>1, <2>2, Zenon
  <1>6. CASE grown.ok
    <2>1. r.ok = TRUE /\ r.buffer = new
      BY <1>3, <1>6 DEF Done
    <2> HIDE DEF old
    <2>2. /\ new \in BufferType /\ new.memory = old.memory /\ new.size = size
          /\ new.maximum = b.maximum
      BY <1>4 DEF BufferType
    <2> HIDE DEF new
    <2>3. Fits(new) /\ Capacity(new) = Capacity(old)
      <3>1. Capacity(old) <= old.maximum /\ size <= Capacity(old)
        BY <1>1, <1>4, <1>6 DEF Fits
      <3> QED
        BY <1>4, <2>2, <3>1 DEF Fits, Capacity
    <2>4. KeepsMemory(b, new)
      BY <1>4, <2>2, <2>3 DEF KeepsMemory
    <2>5. Resizes(b, size, r)
      BY <2>1, <2>2, <2>4 DEF Resizes
    <2> QED
      BY <1>2, <2>1, <2>3, <2>5, Zenon
  <1> QED
    BY <1>1, <1>5, <1>6

LEMMA ExtendProperties ==
    ASSUME NEW b, Fits(b), NEW capacity \in Nat, NEW type \in {"Grow", "GrowZeroed"},
           NEW granted \in BOOLEAN, NEW r, r = Extend(b, capacity, type, granted)
    PROVE  Keeps(b, r.buffer) /\ AsGranted(b, Sum(b.size, capacity), granted, r.buffer)
  <1>1. CASE capacity = 0
    <2>1. r.buffer = b
      BY <1>1 DEF Extend, Done
    <2> QED
      BY <2>1, KeepsItself DEF AsGranted
  <1>2. CASE capacity # 0
    <2> DEFINE total == Sum(b.size, capacity)
    <2>1. total \in Nat
      <3>1. Word \in Nat \ {0} /\ b.size + capacity \in Nat
        BY SizesAreValid DEF Fits, BufferType
      <3> QED
        BY <3>1 DEF Sum
    <2>2. r = Realloc(b, total, type, granted)
      BY <1>2 DEF Extend
    <2> HIDE DEF total
    <2>3. Grows(b, total, r) /\ AsGranted(b, total, granted, r.buffer)
      BY <2>1, <2>2, ReallocGrows
    <2> QED
      BY <2>3, Zenon DEF Grows, total
  <1> QED
    BY <1>1, <1>2

LEMMA ClearProperties ==
    ASSUME NEW b, Fits(b)
    PROVE  /\ Fits(Clear(b)) /\ Clear(b).size = 0 /\ Clear(b).maximum = b.maximum
           /\ Capacity(Clear(b)) = Capacity(b)
  <1> DEFINE clear == [b EXCEPT !.size = 0]
  <1>1. b \in BufferType /\ Capacity(b) \in Nat /\ Capacity(b) <= b.maximum
    BY LenProperties DEF Fits, BufferType, Capacity
  <1>2. /\ clear \in BufferType /\ clear.memory = b.memory /\ clear.size = 0
        /\ clear.maximum = b.maximum
    BY <1>1 DEF BufferType
  <1>3. Clear(b) = clear
    BY DEF Clear
  <1> HIDE DEF clear
  <1> QED
    BY <1>1, <1>2, <1>3 DEF Fits, Capacity

(* assign(): the bytes are the content, or nothing is.                        *)
Assigns(b, bytes, r) ==
    /\ r.ok \in BOOLEAN /\ Fits(r.buffer) /\ r.buffer.maximum = b.maximum
    /\ r.ok => Content(r.buffer) = bytes

LEMMA AssignProperties ==
    ASSUME NEW b, Fits(b), NEW bytes \in Seq(Cell), Len(bytes) < Word,
           NEW granted \in BOOLEAN, NEW r, r = Assign(b, bytes, granted)
    PROVE  Assigns(b, bytes, r) /\ AsGranted(b, Len(bytes), granted, r.buffer)
  <1> DEFINE clear == Clear(b)
             s == Content(clear)
             spliced == Spliced(s, 0, bytes)
  <1>1. /\ Fits(clear) /\ clear.size = 0 /\ clear.maximum = b.maximum
        /\ Capacity(clear) = Capacity(b) /\ Len(bytes) \in Nat
    BY ClearProperties, LenProperties
  <1>2. r = Insert(clear, 0, bytes, granted)
    BY <1>1 DEF Assign, AppendBytes, Clear
  <1> HIDE DEF clear
  <1>3. 0 \in 0..clear.size /\ clear.size + Len(bytes) = Len(bytes)
    BY <1>1
  <1> DEFINE asked == clear.size + Len(bytes)
  <1>4. Inserts(clear, 0, bytes, r) /\ AsGranted(clear, asked, granted, r.buffer)
    <2>1. asked < Word
      BY <1>3
    <2> QED
      BY <1>1, <1>2, <1>3, <2>1, InsertProperties
  <1>5. AsGranted(b, Len(bytes), granted, r.buffer)
    BY <1>1, <1>3, <1>4, Zenon DEF AsGranted
  <1>6. spliced = bytes
    <2>1. s \in Seq(Cell) /\ Len(s) = 0 /\ 0 \in 0..Len(s)
      BY <1>1, ContentProperties
    <2> HIDE DEF s
    <2>2. /\ spliced \in Seq(Cell) /\ Len(spliced) = Len(s) + Len(bytes)
          /\ \A k \in 1 .. Len(s) + Len(bytes) : spliced[k] =
                 IF k <= 0 THEN s[k]
                 ELSE IF k <= 0 + Len(bytes) THEN bytes[k - 0] ELSE s[k - Len(bytes)]
      BY <2>1, SplicedProperties
    <2> HIDE DEF spliced
    <2>3. Len(spliced) = Len(bytes) /\ \A k \in 1..Len(spliced) : spliced[k] = bytes[k]
      BY <1>1, <2>1, <2>2
    <2> QED
      BY <2>2, <2>3, SeqEqual
  <1> HIDE DEF asked
  <1>7. Assigns(b, bytes, r)
    BY <1>1, <1>4, <1>6, Zenon DEF Assigns, Inserts
  <1> QED
    BY <1>5, <1>7

(* erase() *)
LEMMA EraseProperties ==
    ASSUME NEW b, Fits(b), NEW offset \in 0..b.size, NEW size \in 0 .. b.size - offset,
           NEW after, after = Erase(b, offset, size)
    PROVE  /\ Fits(after) /\ after.maximum = b.maximum /\ Capacity(after) = Capacity(b)
           /\ after.size = b.size - size
           /\ \A k \in 1 .. b.size - size : Content(after)[k] =
                  IF k <= offset THEN Content(b)[k] ELSE Content(b)[k + size]
  <1> DEFINE tail == SubSeq(b.memory, (offset + size) + 1, b.size)
             memory == Write(b.memory, offset, tail)
             left == b.size - size
             new == [b EXCEPT !.memory = memory, !.size = left]
  <1>1. /\ b \in BufferType /\ b.memory \in Seq(Cell) /\ Capacity(b) \in Nat /\ b.size \in Nat
        /\ b.size <= Len(b.memory) /\ b.maximum \in Nat /\ Capacity(b) <= b.maximum
        /\ offset \in Nat /\ size \in Nat /\ offset + size \in Nat /\ offset + size <= b.size
        /\ left \in Nat /\ left <= b.size /\ Capacity(b) = Len(b.memory)
    BY LenProperties DEF Fits, BufferType, Capacity
  <1>2. /\ tail \in Seq(Cell) /\ Len(tail) = b.size - (offset + size)
        /\ \A k \in 1 .. b.size - (offset + size) : tail[k] = b.memory[(offset + size) + k]
    <2>1. b.size \in 0..Len(b.memory)
      BY <1>1
    <2> QED
      BY <1>1, <2>1, PartOf
  <1>3. after = new
    BY <1>1 DEF Erase
  <1> HIDE DEF tail
  <1>4. /\ memory \in Seq(Cell) /\ Len(memory) = Len(b.memory)
        /\ \A k \in 1..Len(b.memory) : memory[k] =
               IF k \in offset + 1 .. offset + Len(tail) THEN tail[k - offset] ELSE b.memory[k]
    <2> DEFINE m == b.memory
    <2>1. m \in Seq(Cell) /\ offset \in Nat /\ tail \in Seq(Cell)
      BY <1>1, <1>2
    <2>2. memory = Write(m, offset, tail) /\ m = b.memory
      OBVIOUS
    <2> HIDE DEF m, memory
    <2> QED
      BY <2>1, <2>2, WriteProperties
  <1> HIDE DEF memory, left
  <1>5. /\ new \in BufferType /\ new.memory = memory /\ new.size = left
        /\ new.maximum = b.maximum
    BY <1>1, <1>4 DEF BufferType
  <1> HIDE DEF new
  <1>6. Fits(new) /\ Capacity(new) = Capacity(b)
    BY <1>1, <1>4, <1>5 DEF Fits, Capacity
  <1>7. ASSUME NEW k \in 1..left
        PROVE  Content(new)[k] = IF k <= offset THEN Content(b)[k] ELSE Content(b)[k + size]
    <2>1. Content(new)[k] = memory[k]
      BY <1>5, <1>6, ContentProperties
    <2>2. k \in 1..Len(b.memory) /\ k \in 1..b.size /\ k + size \in 1..b.size
      BY <1>1 DEF left
    <2>3. Content(b)[k] = b.memory[k] /\ Content(b)[k + size] = b.memory[k + size]
      BY <2>2, ContentProperties
    <2>4. CASE k <= offset
      BY <1>1, <1>4, <2>1, <2>2, <2>3, <2>4
    <2>5. CASE k > offset
      <3>1. k \in offset + 1 .. offset + Len(tail) /\ k - offset \in 1 .. b.size - (offset + size)
        BY <1>1, <1>2, <2>2, <2>5 DEF left
      <3>2. (offset + size) + (k - offset) = k + size
        BY <1>1
      <3>3. memory[k] = b.memory[k + size]
        BY <1>2, <1>4, <2>2, <3>1, <3>2
      <3> QED
        BY <1>1, <2>1, <2>3, <2>5, <3>3
    <2> QED
      BY <1>1, <2>4, <2>5
  <1> QED
    BY <1>3, <1>5, <1>6, <1>7 DEF left

LEMMA StoredProperties ==
    ASSUME NEW b, Fits(b), NEW offset \in 0..b.size, NEW size \in 0 .. b.size - offset
    PROVE  /\ Stored(b, offset, size) \in Seq(Cell) /\ Len(Stored(b, offset, size)) = size
           /\ \A k \in 1..size : Stored(b, offset, size)[k] = Content(b)[offset + k]
  <1> DEFINE end == offset + size
  <1>1. /\ b.memory \in Seq(Cell) /\ b.size \in Nat /\ b.size <= Len(b.memory)
        /\ Len(b.memory) \in Nat
    BY LenProperties DEF Fits, BufferType, Capacity
  <1>2. /\ offset \in Nat /\ end \in 0..Len(b.memory) /\ offset <= end /\ end - offset = size
        /\ end <= b.size
    BY <1>1
  <1>3. Stored(b, offset, size) = SubSeq(b.memory, offset + 1, end)
    BY DEF Stored
  <1> HIDE DEF end
  <1>4. /\ Stored(b, offset, size) \in Seq(Cell) /\ Len(Stored(b, offset, size)) = end - offset
        /\ \A k \in 1 .. end - offset : Stored(b, offset, size)[k] = b.memory[offset + k]
    BY <1>1, <1>2, <1>3, PartOf
  <1>5. ASSUME NEW k \in 1..size PROVE Content(b)[offset + k] = b.memory[offset + k]
    <2>1. offset + k \in 1..b.size
      BY <1>1, <1>2
    <2> QED
      BY <2>1, ContentProperties
  <1> QED
    BY <1>2, <1>4, <1>5

(* extract(): what is taken out, put back where it was, gives what there was. *)
LEMMA ErasedIsSpliced ==
    ASSUME NEW b, Fits(b), NEW offset \in 0..b.size, NEW size \in 0 .. b.size - offset
    PROVE  Spliced(Content(Erase(b, offset, size)), offset, Stored(b, offset, size)) = Content(b)
  <1> DEFINE after == Erase(b, offset, size)
             bytes == Stored(b, offset, size)
             s == Content(b)
             t == Content(after)
             spliced == Spliced(t, offset, bytes)
  <1>1. b.size \in Nat /\ offset \in Nat /\ size \in Nat
    BY DEF Fits, BufferType
  <1>2. s \in Seq(Cell) /\ Len(s) = b.size
    BY ContentProperties
  <1>3. /\ bytes \in Seq(Cell) /\ Len(bytes) = size
        /\ \A k \in 1..size : bytes[k] = s[offset + k]
    BY StoredProperties
  <1>4. /\ Fits(after) /\ after.size = b.size - size
        /\ \A k \in 1 .. b.size - size : t[k] = IF k <= offset THEN s[k] ELSE s[k + size]
    BY EraseProperties
  <1> HIDE DEF after, bytes, s
  <1>5. t \in Seq(Cell) /\ Len(t) = b.size - size
    BY <1>4, ContentProperties
  <1> HIDE DEF t
  <1>6. offset \in 0..Len(t)
    BY <1>1, <1>5
  <1>7. /\ spliced \in Seq(Cell) /\ Len(spliced) = Len(t) + Len(bytes)
        /\ \A k \in 1 .. Len(t) + Len(bytes) : spliced[k] =
               IF k <= offset THEN t[k]
               ELSE IF k <= offset + Len(bytes) THEN bytes[k - offset] ELSE t[k - Len(bytes)]
    BY <1>3, <1>5, <1>6, SplicedProperties
  <1>8. spliced = Spliced(Content(Erase(b, offset, size)), offset, Stored(b, offset, size))
        /\ s = Content(b)
    BY DEF t, after, bytes, s
  <1> HIDE DEF spliced
  <1>9. ASSUME NEW k \in 1..b.size
        PROVE  spliced[k] = IF k <= offset THEN t[k]
                            ELSE IF k <= offset + size THEN bytes[k - offset] ELSE t[k - size]
    <2>1. Len(t) + Len(bytes) = b.size
      BY <1>1, <1>3, <1>5
    <2>2. k \in 1 .. Len(t) + Len(bytes)
      BY <2>1
    <2> QED
      BY <1>3, <1>7, <2>2
  <1>10. ASSUME NEW k \in 1..b.size PROVE spliced[k] = s[k]
    <2>1. CASE k <= offset
      <3>1. k \in 1 .. b.size - size
        BY <1>1, <2>1
      <3> QED
        BY <1>1, <1>4, <1>9, <2>1, <3>1
    <2>2. CASE k > offset /\ k <= offset + size
      <3>1. k - offset \in 1..size /\ offset + (k - offset) = k
        BY <1>1, <2>2
      <3> QED
        BY <1>1, <1>3, <1>9, <2>2, <3>1
    <2>3. CASE k > offset + size
      <3>1. k - size \in 1 .. b.size - size /\ (k - size) + size = k /\ k - size > offset
        BY <1>1, <2>3
      <3>2. t[k - size] = s[k]
        BY <1>1, <1>4, <3>1
      <3> QED
        BY <1>1, <1>9, <2>3, <3>2
    <2> QED
      BY <1>1, <2>1, <2>2, <2>3
  <1>11. Len(spliced) = Len(s)
    BY <1>1, <1>2, <1>3, <1>5, <1>7
  <1> QED
    BY <1>2, <1>7, <1>8, <1>10, <1>11, SeqEqual

-----------------------------------------------------------------------------
(* Two buffers.  What an operation allocates is at most Largest.              *)
LEMMA StaysAllocated ==
    ASSUME NEW b, Allocated(b), NEW capacity, NEW granted \in BOOLEAN,
           granted => capacity <= Largest, NEW after, Fits(after), after.maximum = b.maximum,
           AsGranted(b, capacity, granted, after)
    PROVE  Allocated(after)
  BY DEF Allocated, AsGranted

LEMMA FitsInside ==
    ASSUME NEW b, Allocated(b)
    PROVE  /\ Fits(b) /\ b.size \in Nat /\ b.size <= Largest
           /\ \A n \in Nat : n <= MaxBytes => b.size + n < Word
  BY SizesAreValid, LenProperties DEF Allocated, Fits, BufferType, Capacity

LEMMA BufferInitial == BufferInit => BufferInv
  <1> SUFFICES ASSUME BufferInit PROVE BufferInv
    OBVIOUS
  <1>1. ASSUME NEW maximum \in 0..InfiniteCapacity PROVE Allocated(EmptyBuffer(maximum))
    <2> DEFINE none == <<>>
               empty == [memory |-> none, size |-> 0, maximum |-> maximum]
    <2>1. none \in Seq(Cell) /\ Len(none) = 0
      BY EmptySeq
    <2>2. EmptyBuffer(maximum) = empty
      BY DEF EmptyBuffer
    <2> HIDE DEF none
    <2>3. maximum \in Nat /\ maximum < Word /\ Largest \in Nat
      BY SizesAreValid DEF InfiniteCapacity
    <2>4. /\ empty \in BufferType /\ empty.memory = none /\ empty.size = 0
          /\ empty.maximum = maximum
      BY <2>1, <2>3 DEF BufferType
    <2> HIDE DEF empty
    <2> QED
      BY <2>1, <2>2, <2>3, <2>4 DEF Allocated, Fits, Capacity
  <1>2. InfiniteCapacity \in 0..InfiniteCapacity
    BY SizesAreValid DEF InfiniteCapacity
  <1> QED
    BY <1>1, <1>2, SizesAreValid DEF BufferInit, BufferInv

(* No operation allocates more than is granted. *)
LEMMA ReserveAllocates ==
    ASSUME NEW b, Allocated(b), NEW n \in Nat, NEW type \in {"Grow", "GrowZeroed"},
           NEW granted \in BOOLEAN, granted => n <= Largest
    PROVE  Allocated(Reserve(b, n, type, granted).buffer)
  <1> DEFINE r == Realloc(b, n, type, granted)
  <1>1. Fits(b)
    BY DEF Allocated
  <1>2. Grows(b, n, r)
    BY <1>1, ReallocGrows
  <1>3. AsGranted(b, n, granted, r.buffer)
    BY <1>1, ReallocGrows
  <1>4. Reserve(b, n, type, granted) = r
    BY DEF Reserve
  <1> HIDE DEF r
  <1>5. Fits(r.buffer) /\ r.buffer.maximum = b.maximum
    BY <1>2 DEF Grows, Keeps, KeepsMemory
  <1> QED
    BY <1>3, <1>4, <1>5, StaysAllocated

LEMMA ResizeAllocates ==
    ASSUME NEW b, Allocated(b), NEW n \in Nat, NEW type \in {"Grow", "GrowZeroed"},
           NEW granted \in BOOLEAN, granted => n <= Largest, NEW r, r = Resize(b, n, type, granted)
    PROVE  Allocated(r.buffer)
  <1>1. Fits(b)
    BY DEF Allocated
  <1>2. Resizes(b, n, r)
    BY <1>1, ResizeProperties
  <1>3. AsGranted(b, n, granted, r.buffer)
    BY <1>1, ResizeProperties
  <1>4. Fits(r.buffer) /\ r.buffer.maximum = b.maximum
    BY <1>2 DEF Resizes, KeepsMemory
  <1> QED
    BY <1>3, <1>4, StaysAllocated

LEMMA ExtendAllocates ==
    ASSUME NEW b, Allocated(b), NEW n \in Nat, NEW type \in {"Grow", "GrowZeroed"},
           NEW granted \in BOOLEAN, granted => Sum(b.size, n) <= Largest,
           NEW r, r = Extend(b, n, type, granted)
    PROVE  Allocated(r.buffer)
  <1> DEFINE total == Sum(b.size, n)
  <1>1. Fits(b)
    BY DEF Allocated
  <1>2. Keeps(b, r.buffer)
    BY <1>1, ExtendProperties
  <1>3. AsGranted(b, total, granted, r.buffer)
    BY <1>1, ExtendProperties
  <1>4. granted => total <= Largest
    OBVIOUS
  <1> HIDE DEF total
  <1>5. Fits(r.buffer) /\ r.buffer.maximum = b.maximum
    BY <1>2 DEF Keeps, KeepsMemory
  <1> QED
    BY <1>3, <1>4, <1>5, StaysAllocated

LEMMA InsertAllocates ==
    ASSUME NEW b, Allocated(b), NEW bytes \in Bytes, NEW offset \in 0..b.size,
           NEW granted \in BOOLEAN, granted => Sum(b.size, Len(bytes)) <= Largest,
           NEW r, r = Insert(b, offset, bytes, granted)
    PROVE  Allocated(r.buffer)
  <1> DEFINE total == b.size + Len(bytes)
  <1>1. /\ Fits(b) /\ b.size \in Nat /\ bytes \in Seq(Cell)
        /\ Len(bytes) \in Nat /\ total < Word
    BY FitsInside, BytesAreSequences, LenProperties
  <1>2. granted => total <= Largest
    BY <1>1, SumIsExact
  <1>3. Inserts(b, offset, bytes, r) /\ AsGranted(b, total, granted, r.buffer)
    BY <1>1, InsertProperties
  <1>4. Fits(r.buffer) /\ r.buffer.maximum = b.maximum
    BY <1>3 DEF Inserts
  <1> HIDE DEF total
  <1> QED
    BY <1>2, <1>3, <1>4, StaysAllocated

LEMMA AssignAllocates ==
    ASSUME NEW b, Allocated(b), NEW bytes \in Seq(Cell), NEW asked \in Nat,
           Len(bytes) <= asked, asked < Word, NEW granted \in BOOLEAN,
           granted => asked <= Largest,
           NEW r, r = Assign(b, bytes, granted)
    PROVE  Allocated(r.buffer)
  <1> DEFINE total == Len(bytes)
  <1>1. Fits(b) /\ total \in Nat /\ total < Word
    BY LenProperties, SizesAreValid DEF Allocated
  <1>2. granted => total <= Largest
    BY <1>1, SizesAreValid
  <1>3. Assigns(b, bytes, r) /\ AsGranted(b, total, granted, r.buffer)
    BY <1>1, AssignProperties
  <1>4. Fits(r.buffer) /\ r.buffer.maximum = b.maximum
    BY <1>3 DEF Assigns
  <1> HIDE DEF total
  <1> QED
    BY <1>2, <1>3, <1>4, StaysAllocated

LEMMA ResizeStep == BufferInv /\ ResizeBuffer => BufferInv'
  <1> SUFFICES ASSUME BufferInv, ResizeBuffer PROVE BufferInv'
    OBVIOUS
  <1>1. Allocated(buffer) /\ Allocated(other) /\ 0..MaxAsked \subseteq Nat
    BY DEF BufferInv
  <1>2. ASSUME NEW n \in Nat, NEW type \in {"Grow", "GrowZeroed"}, NEW granted \in Grants(n)
        PROVE  /\ Allocated(Reserve(buffer, n, type, granted).buffer)
               /\ Allocated(Resize(buffer, n, type, granted).buffer)
    <2>1. granted \in BOOLEAN /\ (granted => n <= Largest)
      BY DEF Grants
    <2> QED
      BY <1>1, <2>1, ReserveAllocates, ResizeAllocates
  <1>3. ASSUME NEW n \in Nat, NEW type \in {"Grow", "GrowZeroed"},
               NEW granted \in Grants(Sum(buffer.size, n))
        PROVE  Allocated(Extend(buffer, n, type, granted).buffer)
    <2>1. granted \in BOOLEAN /\ (granted => Sum(buffer.size, n) <= Largest)
      BY DEF Grants
    <2> QED
      BY <1>1, <2>1, ExtendAllocates
  <1>4. Allocated(buffer')
    BY <1>1, <1>2, <1>3 DEF ResizeBuffer
  <1>5. other' = other
    BY DEF ResizeBuffer
  <1> QED
    BY <1>1, <1>4, <1>5 DEF BufferInv, Allocated, Fits, Capacity

LEMMA ReduceStep == BufferInv /\ ReduceBuffer => BufferInv'
  <1> SUFFICES ASSUME BufferInv, ReduceBuffer PROVE BufferInv'
    OBVIOUS
  <1>1. Allocated(buffer) /\ Fits(buffer) /\ Allocated(other)
    BY DEF BufferInv, Allocated
  <1>2. ASSUME buffer' = Clear(buffer) PROVE Allocated(buffer')
    <2> DEFINE after == Clear(buffer)
    <2>1. /\ Fits(after) /\ after.maximum = buffer.maximum
          /\ Capacity(after) = Capacity(buffer)
      BY <1>1, ClearProperties
    <2> HIDE DEF after
    <2>2. Allocated(after)
      BY <1>1, <2>1 DEF Allocated
    <2> QED
      BY <1>2, <2>2 DEF after
  <1>3. ASSUME NEW granted \in Grants(buffer.size), buffer' = Shrink(buffer, granted)
        PROVE  Allocated(buffer')
    <2>1. granted \in BOOLEAN
      BY DEF Grants
    <2> DEFINE after == Shrink(buffer, granted)
    <2>2. /\ Fits(after) /\ after.maximum = buffer.maximum
          /\ Capacity(after) <= Capacity(buffer)
      BY <1>1, <2>1, ShrinkProperties
    <2> HIDE DEF after
    <2>3. Capacity(after) \in Nat /\ Capacity(buffer) \in Nat
      BY <1>1, <2>2, LenProperties DEF Fits, BufferType, Capacity
    <2>4. Allocated(after)
      BY <1>1, <2>2, <2>3, SizesAreValid DEF Allocated
    <2> QED
      BY <1>3, <2>4 DEF after
  <1>4. ASSUME NEW offset \in 0..buffer.size, NEW size \in 0 .. buffer.size - offset,
               buffer' = Erase(buffer, offset, size)
        PROVE  Allocated(buffer')
    BY <1>1, <1>4, EraseProperties DEF Allocated
  <1>5. Allocated(buffer') /\ other' = other
    BY <1>2, <1>3, <1>4 DEF ReduceBuffer
  <1> QED
    BY <1>1, <1>5 DEF BufferInv, Allocated, Fits, Capacity

LEMMA WriteStep == BufferInv /\ WriteBuffer => BufferInv'
  <1> SUFFICES ASSUME BufferInv, WriteBuffer PROVE BufferInv'
    OBVIOUS
  <1>1. Allocated(buffer) /\ Allocated(other)
    BY DEF BufferInv
  <1>2. ASSUME NEW bytes \in Bytes, NEW granted \in Grants(Sum(buffer.size, Len(bytes)))
        PROVE  /\ Allocated(Assign(buffer, bytes, granted).buffer)
               /\ \A offset \in 0..buffer.size :
                      Allocated(Insert(buffer, offset, bytes, granted).buffer)
    <2>1. /\ granted \in BOOLEAN
          /\ granted => Sum(buffer.size, Len(bytes)) <= Largest
      BY DEF Grants
    <2>2. \A offset \in 0..buffer.size :
              Allocated(Insert(buffer, offset, bytes, granted).buffer)
      BY <1>1, <2>1, InsertAllocates
    <2> DEFINE asked == buffer.size + Len(bytes)
    <2>3. /\ bytes \in Seq(Cell) /\ Len(bytes) \in Nat /\ Len(bytes) <= MaxBytes
          /\ buffer.size \in Nat
      BY <1>1, BytesAreSequences, LenProperties, FitsInside
    <2>4. asked < Word
      BY <1>1, <2>3, FitsInside
    <2>5. Sum(buffer.size, Len(bytes)) = asked
      BY <2>3, <2>4, SumIsExact
    <2>6. asked \in Nat /\ Len(bytes) <= asked /\ (granted => asked <= Largest)
      BY <2>1, <2>3, <2>5
    <2> HIDE DEF asked
    <2>7. Allocated(Assign(buffer, bytes, granted).buffer)
      BY <1>1, <2>1, <2>3, <2>4, <2>6, AssignAllocates
    <2> QED
      BY <2>2, <2>7
  <1>3. Allocated(buffer') /\ other' = other
    BY <1>2 DEF WriteBuffer
  <1> QED
    BY <1>1, <1>3 DEF BufferInv, Allocated, Fits, Capacity

(* copy() and extract(): the other buffer gets what fits the allocation.      *)
LEMMA TransferAllocates ==
    ASSUME NEW b, Allocated(b), NEW to, Allocated(to), NEW granted \in Grants(b.size),
           NEW offset \in 0..b.size, NEW size \in 0 .. b.size - offset
    PROVE  /\ Allocated(Copy(b, offset, size, to, granted).from)
           /\ Allocated(Copy(b, offset, size, to, granted).to)
           /\ Allocated(Extract(b, offset, size, to, granted).from)
           /\ Allocated(Extract(b, offset, size, to, granted).to)
  <1> DEFINE bytes == Stored(b, offset, size)
             r == Assign(to, bytes, granted)
             erased == Erase(b, offset, size)
  <1>1. granted \in BOOLEAN /\ (granted => b.size <= Largest)
    BY DEF Grants
  <1>2. Fits(b) /\ b.size \in Nat /\ b.size < Word /\ offset \in Nat /\ size <= b.size
    BY FitsInside, SizesAreValid DEF Allocated, Fits
  <1>3. bytes \in Seq(Cell) /\ Len(bytes) <= b.size
    BY <1>2, StoredProperties
  <1> HIDE DEF bytes
  <1>4. Allocated(r.buffer)
    BY <1>1, <1>2, <1>3, AssignAllocates
  <1>5. /\ Fits(erased) /\ erased.maximum = b.maximum /\ Capacity(erased) = Capacity(b)
    BY <1>2, EraseProperties
  <1>6. Allocated(erased)
    BY <1>5 DEF Allocated
  <1>7. Copy(b, offset, size, to, granted) = Pair(b, r.buffer, r.ok)
    BY DEF Copy, bytes
  <1>8. Extract(b, offset, size, to, granted) =
            Pair(IF r.ok THEN erased ELSE b, r.buffer, r.ok)
    BY DEF Extract, bytes
  <1> HIDE DEF r, erased
  <1> QED
    BY <1>4, <1>6, <1>7, <1>8 DEF Pair

LEMMA SmallestIn ==
    ASSUME NEW T \in SUBSET Nat, T # {}
    PROVE  Min(T) \in T /\ \A y \in T : Min(T) <= y
  <1> DEFINE R == OpToRel(<, Nat)
  <1>1. IsWellFoundedOn(R, Nat)
    BY NatLessThanWellFounded
  <1>2. \A x, y \in Nat : y < x => <<y, x>> \in R
    BY DEF OpToRel
  <1> HIDE DEF R
  <1>3. PICK x \in T : \A y \in T : <<y, x>> \notin R
    BY <1>1, WFMin
  <1>4. ASSUME NEW y \in T PROVE x <= y
    <2>1. ~(y < x)
      BY <1>2, <1>3
    <2> QED
      BY <2>1
  <1>5. Min(T) \in T /\ \A y \in T : Min(T) <= y
    <2> DEFINE Least(z) == \A y \in T : z <= y
    <2>1. Least(x) /\ x \in T
      BY <1>4
    <2>2. Min(T) = CHOOSE z \in T : Least(z)
      BY DEF Min
    <2> HIDE DEF Least
    <2>3. Min(T) \in T /\ Least(Min(T))
      BY <2>1, <2>2
    <2> QED
      BY <2>3 DEF Least
  <1> QED
    BY <1>5

LEMMA ExtractUpToAllocates ==
    ASSUME NEW b, Allocated(b), NEW to, Allocated(to), NEW granted \in Grants(b.size),
           NEW offset \in 0..b.size, NEW byte, NEW include_sentinel \in BOOLEAN
    PROVE  /\ Allocated(ExtractUpTo(b, offset, <<byte>>, include_sentinel, to, granted).from)
           /\ Allocated(ExtractUpTo(b, offset, <<byte>>, include_sentinel, to, granted).to)
  <1> DEFINE sentinel == <<byte>>
             at == {k \in offset .. b.size - Len(sentinel) :
                       Stored(b, k, Len(sentinel)) = sentinel}
             size == Min(at) - offset + (IF include_sentinel THEN Len(sentinel) ELSE 0)
             found == ExtractUpTo(b, offset, sentinel, include_sentinel, to, granted)
  <1>1. b.size \in Nat /\ offset \in Nat /\ Len(sentinel) = 1
    BY FitsInside
  <1>2. found = IF at = {} THEN Pair(b, Clear(to), TRUE) ELSE Extract(b, offset, size, to, granted)
    BY DEF ExtractUpTo
  <1>3. CASE at = {}
    <2> DEFINE after == Clear(to)
    <2>1. Fits(after) /\ after.maximum = to.maximum /\ Capacity(after) = Capacity(to)
      BY ClearProperties DEF Allocated
    <2>2. Allocated(after)
      BY <2>1 DEF Allocated
    <2>3. found = Pair(b, after, TRUE)
      BY <1>2, <1>3
    <2> HIDE DEF after, found
    <2>4. found.from = b /\ found.to = after
      BY <2>3 DEF Pair
    <2> QED
      BY <2>2, <2>4 DEF found
  <1>4. CASE at # {}
    <2>1. at \in SUBSET Nat /\ at \subseteq offset .. b.size - 1
      BY <1>1
    <2>2. found = Extract(b, offset, size, to, granted)
      BY <1>2, <1>4
    <2> HIDE DEF at
    <2>3. Min(at) \in offset .. b.size - 1
      BY <1>4, <2>1, SmallestIn
    <2>4. size \in 0 .. b.size - offset
      BY <1>1, <2>3
    <2> HIDE DEF size
    <2>5. /\ Allocated(Extract(b, offset, size, to, granted).from)
          /\ Allocated(Extract(b, offset, size, to, granted).to)
      BY <2>4, TransferAllocates
    <2> QED
      BY <2>2, <2>5
  <1> QED
    BY <1>3, <1>4

LEMMA TransferStep == BufferInv /\ TransferBuffer => BufferInv'
  <1> SUFFICES ASSUME BufferInv, TransferBuffer PROVE BufferInv'
    OBVIOUS
  <1>1. Allocated(buffer) /\ Allocated(other)
    BY DEF BufferInv
  <1>2. ASSUME NEW b, Allocated(b)
        PROVE  Allocated(Reset(b))
    <2>1. /\ Fits(Reset(b)) /\ Capacity(Reset(b)) = 0 /\ Reset(b).maximum = b.maximum
      BY <1>2, ResetProperties DEF Allocated
    <2> QED
      BY <1>2, <2>1, SizesAreValid DEF Allocated
  <1>3. ASSUME NEW pair, Allocated(pair.from), Allocated(pair.to), Between(pair)
        PROVE  Allocated(buffer') /\ Allocated(other')
    BY <1>3 DEF Between
  <1>4. \A b, to : Move(b, to).from = Reset(b) /\ Move(b, to).to = b
    BY DEF Move, Pair
  <1>5. ASSUME NEW offset \in 0..buffer.size, NEW granted \in Grants(buffer.size),
               NEW size \in 0 .. buffer.size - offset,
               \/ Between(Copy(buffer, offset, size, other, granted))
               \/ Between(Extract(buffer, offset, size, other, granted))
        PROVE  Allocated(buffer') /\ Allocated(other')
    BY <1>1, <1>3, <1>5, TransferAllocates
  <1>6. ASSUME NEW offset \in 0..buffer.size, NEW granted \in Grants(buffer.size),
               NEW byte \in Byte, NEW include_sentinel \in BOOLEAN,
               Between(ExtractUpTo(buffer, offset, <<byte>>, include_sentinel, other, granted))
        PROVE  Allocated(buffer') /\ Allocated(other')
    BY <1>1, <1>3, <1>6, ExtractUpToAllocates
  <1>7. ASSUME Between(Move(buffer, other))
        PROVE  Allocated(buffer') /\ Allocated(other')
    BY <1>1, <1>2, <1>4, <1>7 DEF Between
  <1>8. ASSUME other' = Move(other, buffer).from, buffer' = Move(other, buffer).to
        PROVE  Allocated(buffer') /\ Allocated(other')
    BY <1>1, <1>2, <1>4, <1>8
  <1>9. Allocated(buffer') /\ Allocated(other')
    BY <1>5, <1>6, <1>7, <1>8 DEF TransferBuffer
  <1> QED
    BY <1>9 DEF BufferInv, Allocated, Fits, Capacity

LEMMA BufferStep == BufferInv /\ BufferNext => BufferInv'
  BY ResizeStep, ReduceStep, WriteStep, TransferStep DEF BufferNext

-----------------------------------------------------------------------------
(* The buffer as a sequence.                                                  *)
LEMMA InsertIsSplice ==
    ASSUME NEW b, Allocated(b), NEW bytes \in Bytes, NEW offset \in 0 .. Len(Content(b)),
           NEW granted \in BOOLEAN, NEW r, r = Insert(b, offset, bytes, granted)
    PROVE  Content(r.buffer) =
               IF r.ok THEN Spliced(Content(b), offset, bytes) ELSE Content(b)
  <1>1. /\ Fits(b) /\ b.size \in Nat /\ bytes \in Seq(Cell) /\ Len(bytes) \in Nat
        /\ b.size + Len(bytes) < Word
    BY FitsInside, BytesAreSequences, LenProperties
  <1>2. offset \in 0..b.size
    BY <1>1, ContentProperties
  <1>3. Inserts(b, offset, bytes, r)
    BY <1>1, <1>2, InsertProperties
  <1> QED
    BY <1>3 DEF Inserts

SameStart(b, after, kept) == SubSeq(Content(after), 1, kept) = SubSeq(Content(b), 1, kept)

LEMMA ResizeKeepsContent ==
    ASSUME NEW b, Fits(b), NEW n \in Nat, NEW r, Resizes(b, n, r), r.ok,
           NEW kept \in Nat, kept <= n, kept <= b.size
    PROVE  SameStart(b, r.buffer, kept)
  <1> DEFINE after == r.buffer
             s == Content(b)
             t == Content(after)
  <1>1. b.size \in Nat /\ Capacity(b) \in Nat /\ b.size <= Capacity(b)
    BY LenProperties DEF Fits, BufferType, Capacity
  <1>2. KeepsMemory(b, after) /\ Fits(after) /\ after.size = n
    BY DEF Resizes, KeepsMemory
  <1> HIDE DEF after
  <1>3. /\ s \in Seq(Cell) /\ Len(s) = b.size
        /\ \A k \in 1..b.size : s[k] = b.memory[k]
    BY ContentProperties
  <1>4. /\ t \in Seq(Cell) /\ Len(t) = n /\ \A k \in 1..n : t[k] = after.memory[k]
    BY <1>2, ContentProperties
  <1>5. \A k \in 1..kept : t[k] = s[k]
    BY <1>1, <1>2, <1>3, <1>4 DEF KeepsMemory
  <1> HIDE DEF s, t
  <1>6. SubSeq(t, 1, kept) = SubSeq(s, 1, kept)
    BY <1>3, <1>4, <1>5, SameFront
  <1> QED
    BY <1>6 DEF s, t, after, SameStart

LEMMA ExtractIsSplice ==
    ASSUME NEW b, Allocated(b), NEW to, Allocated(to), NEW offset \in 0 .. Len(Content(b)),
           NEW size \in 0 .. Len(Content(b)) - offset, NEW granted \in BOOLEAN,
           NEW pair, pair = Extract(b, offset, size, to, granted)
    PROVE  IF pair.ok THEN Spliced(Content(pair.from), offset, Content(pair.to)) = Content(b)
           ELSE Content(pair.from) = Content(b)
  <1> DEFINE bytes == Stored(b, offset, size)
             r == Assign(to, bytes, granted)
             erased == Erase(b, offset, size)
  <1>1. Fits(b) /\ Fits(to) /\ b.size \in Nat /\ b.size < Word
    BY FitsInside, SizesAreValid DEF Allocated, Fits
  <1>2. offset \in 0..b.size /\ size \in 0 .. b.size - offset
    BY <1>1, ContentProperties
  <1>3. bytes \in Seq(Cell) /\ Len(bytes) < Word
    <2>1. bytes \in Seq(Cell) /\ Len(bytes) = size
      BY <1>1, <1>2, StoredProperties
    <2> QED
      BY <1>1, <1>2, <2>1, SizesAreValid
  <1>4. Spliced(Content(erased), offset, bytes) = Content(b)
    BY <1>1, <1>2, ErasedIsSpliced
  <1>5. pair = Pair(IF r.ok THEN erased ELSE b, r.buffer, r.ok)
    BY DEF Extract
  <1> HIDE DEF bytes
  <1>6. r.ok \in BOOLEAN /\ (r.ok => Content(r.buffer) = bytes)
    <2>1. Assigns(to, bytes, r)
      BY <1>1, <1>3, AssignProperties
    <2> QED
      BY <2>1 DEF Assigns
  <1> HIDE DEF r, erased
  <1>7. pair.ok = r.ok /\ pair.to = r.buffer /\ pair.from = IF r.ok THEN erased ELSE b
    BY <1>5 DEF Pair
  <1> QED
    BY <1>4, <1>6, <1>7

(* Every operation does to the bytes what it would do to a sequence: insert(), *)
(* resize(), extend() and extract(), with memory or without.                  *)
LEMMA BuffersBehave == BufferInv => BuffersFit /\ BufferIsSequence
  <1> SUFFICES ASSUME BufferInv PROVE BuffersFit /\ BufferIsSequence
    OBVIOUS
  <1>1. Allocated(buffer) /\ Allocated(other) /\ Fits(buffer) /\ 0..MaxAsked \subseteq Nat
    BY DEF BufferInv, Allocated
  <1>2. BuffersFit
    BY DEF BufferInv, Allocated, Fits, BuffersFit
  <1> DEFINE s == Content(buffer)
  <1>3. \A offset \in 0..Len(s), bytes \in Bytes, granted \in BOOLEAN :
            LET inserted == Insert(buffer, offset, bytes, granted)
            IN Content(inserted.buffer) =
                   IF inserted.ok THEN Spliced(s, offset, bytes) ELSE s
    BY <1>1, InsertIsSplice
  <1>4. ASSUME NEW n \in 0..MaxAsked, NEW granted \in BOOLEAN
        PROVE  LET resized == Resize(buffer, n, "Grow", granted)
                   extended == Extend(buffer, n, "Grow", granted)
                   kept == IF resized.ok THEN Min({n, Len(s)}) ELSE Len(s)
               IN /\ SubSeq(Content(resized.buffer), 1, kept) = SubSeq(s, 1, kept)
                  /\ resized.buffer.size = IF resized.ok THEN n ELSE Len(s)
                  /\ Content(extended.buffer) = s
    <2> DEFINE extended == Extend(buffer, n, "Grow", granted)
    <2>1. Keeps(buffer, extended.buffer)
      BY <1>1, ExtendProperties
    <2> HIDE DEF extended
    <2>2. Content(extended.buffer) = s
      BY <1>1, <2>1, SameContent
    <2> DEFINE resized == Resize(buffer, n, "Grow", granted)
               smaller == Min({n, Len(s)})
               kept == IF resized.ok THEN smaller ELSE Len(s)
    <2>3. /\ n \in Nat /\ Allocated(buffer) /\ resized = Resize(buffer, n, "Grow", granted)
          /\ smaller = Min({n, Len(s)})
      BY <1>1
    <2> HIDE DEF resized, smaller
    <2>4. Resizes(buffer, n, resized)
      BY <1>1, <2>3, ResizeProperties
    <2>5. /\ resized.ok \in BOOLEAN /\ (resized.ok => resized.buffer.size = n)
          /\ ~resized.ok => resized.buffer = buffer
      BY <2>4 DEF Resizes
    <2>6. Len(s) = buffer.size /\ buffer.size \in Nat
      BY <1>1, ContentProperties, FitsInside
    <2>7. resized.ok =>
              SubSeq(Content(resized.buffer), 1, smaller) = SubSeq(s, 1, smaller)
      <3>1. smaller \in Nat /\ smaller <= n /\ smaller <= buffer.size
        <4>1. smaller = Min({n, buffer.size})
          BY <2>3, <2>6
        <4> QED
          BY <2>3, <2>6, <4>1, MinOfTwo
      <3>2. resized.ok => SameStart(buffer, resized.buffer, smaller)
        BY <1>1, <2>3, <2>4, <3>1, ResizeKeepsContent
      <3> QED
        BY <3>2 DEF SameStart
    <2>8. SubSeq(Content(resized.buffer), 1, kept) = SubSeq(s, 1, kept)
      BY <2>5, <2>7
    <2>9. resized.buffer.size = IF resized.ok THEN n ELSE Len(s)
      BY <2>5, <2>6
    <2> QED
      BY <2>2, <2>8, <2>9 DEF extended, resized, smaller
  <1>5. ASSUME NEW offset \in 0..Len(s), NEW granted \in BOOLEAN,
               NEW size \in 0 .. Len(s) - offset
        PROVE  LET pair == Extract(buffer, offset, size, other, granted)
               IN IF pair.ok THEN Spliced(Content(pair.from), offset, Content(pair.to)) = s
                  ELSE Content(pair.from) = s
    BY <1>1, ExtractIsSplice
  <1> QED
    BY <1>2, <1>3, <1>4, <1>5 DEF BufferIsSequence

-----------------------------------------------------------------------------
(* Products and quotients of integers.                                        *)
LEMMA ProductOfSum ==
    ASSUME NEW m \in Int, NEW n \in Int, NEW k \in Int
    PROVE  (m + n) * k = m * k + n * k /\ (m - n) * k = m * k - n * k
  OBVIOUS

LEMMA ProductGrows ==
    ASSUME NEW m \in Int, NEW n \in Int, NEW k \in Nat
    PROVE  m <= n => m * k <= n * k
  <1> SUFFICES ASSUME m <= n PROVE m * k <= n * k
    OBVIOUS
  <1> DEFINE gap == n - m
  <1>1. gap \in Nat /\ n = m + gap
    OBVIOUS
  <1> HIDE DEF gap
  <1>2. gap * k \in Nat
    BY <1>1
  <1>3. n * k = m * k + gap * k
    BY <1>1, ProductOfSum
  <1>4. n * k \in Int /\ m * k \in Int
    OBVIOUS
  <1> QED
    BY <1>2, <1>3, <1>4

LEMMA DivisionOf ==
    ASSUME NEW n \in Int, NEW d \in Nat \ {0}
    PROVE  /\ n \div d \in Int /\ n % d \in 0 .. d - 1
           /\ n = (n \div d) * d + (n % d)
  <1>1. n \div d \in Int /\ n % d \in 0 .. d - 1
    OBVIOUS
  <1>2. n = d * (n \div d) + (n % d)
    OBVIOUS
  <1>3. d * (n \div d) = (n \div d) * d
    BY <1>1
  <1> QED
    BY <1>1, <1>2, <1>3

LEMMA DivisionIs ==
    ASSUME NEW n \in Int, NEW d \in Nat \ {0}, NEW q \in Int, NEW r \in 0 .. d - 1,
           n = q * d + r
    PROVE  n \div d = q /\ n % d = r
  <1> DEFINE p == n \div d
             s == n % d
  <1>1. p \in Int /\ s \in 0 .. d - 1 /\ n = p * d + s
    BY DivisionOf
  <1> HIDE DEF p, s
  <1>2. p * d \in Int /\ q * d \in Int /\ (p + 1) * d = p * d + d /\ (q + 1) * d = q * d + d
    BY <1>1
  <1>3. p + 1 <= q => p * d + d <= q * d
    BY <1>1, <1>2, ProductGrows
  <1>4. q + 1 <= p => q * d + d <= p * d
    BY <1>1, <1>2, ProductGrows
  <1>5. p = q
    BY <1>1, <1>2, <1>3, <1>4
  <1>6. s = r
    BY <1>1, <1>2, <1>5
  <1> QED
    BY <1>5, <1>6 DEF p, s

(* An inductive set of numbers has them all.                                  *)
LEMMA Induction ==
    ASSUME NEW P, 0 \in P, \A n \in Nat : n \in P => n + 1 \in P
    PROVE  Nat \subseteq P
  <1> SUFFICES ASSUME Nat \ P # {} PROVE FALSE
    OBVIOUS
  <1> DEFINE R == OpToRel(<, Nat)
  <1>1. IsWellFoundedOn(R, Nat)
    BY NatLessThanWellFounded
  <1>2. \A x, y \in Nat : y < x => <<y, x>> \in R
    BY DEF OpToRel
  <1> HIDE DEF R
  <1>3. PICK x \in Nat \ P : \A y \in Nat \ P : <<y, x>> \notin R
    BY <1>1, WFMin
  <1>4. x - 1 \in Nat /\ x - 1 < x
    BY <1>3
  <1>5. x - 1 \in P
    BY <1>2, <1>3, <1>4
  <1>6. (x - 1) + 1 \in P
    BY <1>4, <1>5
  <1> QED
    BY <1>3, <1>6

Iterates(f, start, step) ==
    f[0] = start /\ \A n \in Nat : f[n + 1] = step[<<n, f[n]>>]

LEMMA IterationExists ==
    ASSUME NEW S, NEW start \in S, NEW step \in [Nat \X S -> S]
    PROVE  \E f \in [Nat -> S] : Iterates(f, start, step)
  <1> DEFINE Upto(n, f) == f \in [0..n -> S] /\ f[0] = start
                               /\ \A k \in Nat : k < n => f[k + 1] = step[<<k, f[k]>>]
             P == {n \in Nat : \E f \in [0..n -> S] : Upto(n, f)}
  <1>1. 0 \in P
    <2> DEFINE f == [k \in 0..0 |-> start]
    <2>1. Upto(0, f)
      OBVIOUS
    <2> QED
      BY <2>1
  <1>2. ASSUME NEW n \in Nat, n \in P PROVE n + 1 \in P
    <2>1. PICK f \in [0..n -> S] : Upto(n, f)
      BY <1>2
    <2> DEFINE next == step[<<n, f[n]>>]
               g == [k \in 0 .. n + 1 |-> IF k = n + 1 THEN next ELSE f[k]]
    <2>2. next \in S
      BY <2>1
    <2> HIDE DEF next
    <2>3. g \in [0 .. n + 1 -> S]
      BY <2>1, <2>2
    <2>4. g[n + 1] = next /\ \A k \in 0..n : g[k] = f[k]
      OBVIOUS
    <2> HIDE DEF g
    <2>5. ASSUME NEW k \in Nat, k < n + 1 PROVE g[k + 1] = step[<<k, g[k]>>]
      <3>1. CASE k = n
        BY <2>4, <3>1 DEF next
      <3>2. CASE k < n
        <4>1. k \in 0..n /\ k + 1 \in 0..n
          BY <3>2
        <4> QED
          BY <2>1, <2>4, <3>2, <4>1
      <3> QED
        BY <2>5, <3>1, <3>2
    <2>6. g[0] = start
      BY <2>1, <2>4
    <2> QED
      BY <2>3, <2>5, <2>6
  <1>3. Nat \subseteq P
    <2> HIDE DEF P
    <2> QED
      BY <1>1, <1>2, Induction
  <1>4. \A n \in Nat : \E f \in [0..n -> S] : Upto(n, f)
    BY <1>3
  <1> DEFINE F(n) == CHOOSE f \in [0..n -> S] : Upto(n, f)
  <1>5. \A n \in Nat : F(n) \in [0..n -> S] /\ Upto(n, F(n))
    BY <1>4
  <1> HIDE DEF F
  <1>6. ASSUME NEW n \in Nat PROVE \A k \in Nat : k <= n => F(n)[k] = F(n + 1)[k]
    <2> DEFINE Q == {k \in Nat : k <= n => F(n)[k] = F(n + 1)[k]}
    <2>1. 0 \in Q
      BY <1>5
    <2>2. ASSUME NEW k \in Nat, k \in Q PROVE k + 1 \in Q
      <3> SUFFICES ASSUME k + 1 <= n PROVE F(n)[k + 1] = F(n + 1)[k + 1]
        OBVIOUS
      <3>1. k < n /\ k < n + 1 /\ n + 1 \in Nat
        OBVIOUS
      <3>2. F(n)[k] = F(n + 1)[k]
        BY <2>2, <3>1
      <3>3. F(n)[k + 1] = step[<<k, F(n)[k]>>]
        BY <1>5, <3>1
      <3>4. F(n + 1)[k + 1] = step[<<k, F(n + 1)[k]>>]
        <4> DEFINE m == n + 1
        <4>1. m \in Nat /\ k < m
          BY <3>1
        <4> HIDE DEF m
        <4>2. F(m)[k + 1] = step[<<k, F(m)[k]>>]
          BY <1>5, <4>1
        <4> QED
          BY <4>2 DEF m
      <3> QED
        BY <3>2, <3>3, <3>4
    <2>3. Nat \subseteq Q
      <3> HIDE DEF Q
      <3> QED
        BY <2>1, <2>2, Induction
    <2> QED
      BY <2>3
  <1> DEFINE f == [n \in Nat |-> F(n)[n]]
  <1>7. f \in [Nat -> S]
    BY <1>5
  <1>8. f[0] = start
    BY <1>5
  <1>9. ASSUME NEW n \in Nat PROVE f[n + 1] = step[<<n, f[n]>>]
    <2>1. F(n + 1)[n + 1] = step[<<n, F(n + 1)[n]>>]
      BY <1>5
    <2>2. F(n)[n] = F(n + 1)[n]
      BY <1>6
    <2> QED
      BY <2>1, <2>2
  <1> QED
    BY <1>7, <1>8, <1>9 DEF Iterates

-----------------------------------------------------------------------------
LEMMA PowerIs ==
    /\ Power[0] = 1
    /\ \A n \in Nat : Power[n + 1] = Base * Power[n] /\ Power[n] \in Nat \ {0}
  <1> DEFINE step == [p \in Nat \X Nat |-> Base * p[2]]
             Rec(f) == f = [n \in Nat |-> IF n = 0 THEN 1 ELSE Base * f[n - 1]]
  <1>1. Base \in Nat \ {0}
    BY BaseIsValid
  <1>2. 1 \in Nat /\ step \in [Nat \X Nat -> Nat] /\ \A n, m \in Nat : step[<<n, m>>] = Base * m
    BY <1>1
  <1> HIDE DEF step
  <1>3. PICK f \in [Nat -> Nat] : f[0] = 1 /\ \A n \in Nat : f[n + 1] = step[<<n, f[n]>>]
    <2>1. \E f \in [Nat -> Nat] : Iterates(f, 1, step)
      BY <1>2, IterationExists
    <2> QED
      BY <2>1 DEF Iterates
  <1>4. Rec(f)
    <2> SUFFICES ASSUME NEW n \in Nat PROVE f[n] = IF n = 0 THEN 1 ELSE Base * f[n - 1]
      OBVIOUS
    <2>1. CASE n = 0
      BY <1>3, <2>1
    <2>2. CASE n # 0
      <3>1. n - 1 \in Nat /\ (n - 1) + 1 = n
        BY <2>2
      <3>2. f[n] = step[<<n - 1, f[n - 1]>>]
        BY <1>3, <3>1
      <3> QED
        BY <1>2, <2>2, <3>1, <3>2
    <2> QED
      BY <2>1, <2>2
  <1>5. Rec(Power)
    <2>1. Power = CHOOSE g : Rec(g)
      BY DEF Power
    <2> HIDE DEF Rec
    <2> QED
      BY <1>4, <2>1
  <1>6. Power[0] = 1
    BY <1>5
  <1>7. ASSUME NEW n \in Nat PROVE Power[n + 1] = Base * Power[n]
    <2>1. n + 1 \in Nat /\ n + 1 # 0 /\ (n + 1) - 1 = n
      OBVIOUS
    <2> QED
      BY <1>5, <2>1
  <1> HIDE DEF Rec
  <1> DEFINE P == {n \in Nat : Power[n] \in Nat \ {0}}
  <1>8. 0 \in P
    BY <1>6
  <1>9. ASSUME NEW n \in Nat, n \in P PROVE n + 1 \in P
    <2>1. Power[n] \in Nat \ {0} /\ Power[n + 1] = Base * Power[n]
      BY <1>7, <1>9
    <2>2. Base * Power[n] \in Nat \ {0}
      BY <1>1, <2>1
    <2> QED
      BY <2>1, <2>2
  <1>10. Nat \subseteq P
    <2> HIDE DEF P
    <2> QED
      BY <1>8, <1>9, Induction
  <1> QED
    BY <1>6, <1>7, <1>10

LEMMA CombinedIs ==
    ASSUME NEW bytes, Len(bytes) \in Nat, NEW value \in [0 .. Len(bytes) -> Int], value[0] = 0,
           \A k \in 0 .. Len(bytes) - 1 : value[k + 1] = value[k] * Base + bytes[k + 1]
    PROVE  Combined(bytes) = value[Len(bytes)]
  <1> DEFINE n == Len(bytes)
             Rec(f) == f = [k \in 0..n |-> IF k = 0 THEN 0 ELSE f[k - 1] * Base + bytes[k]]
             f == CHOOSE f : Rec(f)
  <1>1. Rec(f)
    <2>1. Rec(value)
      <3> SUFFICES ASSUME NEW k \in 0..n
                   PROVE  value[k] = IF k = 0 THEN 0 ELSE value[k - 1] * Base + bytes[k]
        OBVIOUS
      <3>1. k # 0 => k - 1 \in 0 .. n - 1 /\ (k - 1) + 1 = k
        OBVIOUS
      <3> QED
        BY <3>1
    <2> HIDE DEF Rec
    <2> QED
      BY <2>1
  <1>2. Combined(bytes) = f[n]
    BY DEF Combined
  <1> HIDE DEF f
  <1> DEFINE P == {k \in Nat : k \in 0..n => f[k] = value[k]}
  <1>3. 0 \in P
    BY <1>1
  <1>4. ASSUME NEW k \in Nat, k \in P PROVE k + 1 \in P
    <2> SUFFICES ASSUME k + 1 \in 0..n PROVE f[k + 1] = value[k + 1]
      OBVIOUS
    <2>1. k \in 0..n /\ k \in 0 .. n - 1 /\ k + 1 # 0 /\ (k + 1) - 1 = k
      OBVIOUS
    <2>2. f[k] = value[k]
      BY <1>4, <2>1
    <2>3. f[k + 1] = f[k] * Base + bytes[k + 1]
      BY <1>1, <2>1
    <2> QED
      BY <2>1, <2>2, <2>3
  <1>5. Nat \subseteq P
    <2> HIDE DEF P
    <2> QED
      BY <1>3, <1>4, Induction
  <1>6. n \in P /\ n \in 0..n
    <2> HIDE DEF P
    <2> QED
      BY <1>5
  <1> QED
    BY <1>2, <1>6

(* Divided twice is divided by the product.                                   *)
LEMMA DivisionTwice ==
    ASSUME NEW n \in Int, NEW d \in Nat \ {0}, NEW e \in Nat \ {0}
    PROVE  (n \div d) \div e = n \div (e * d)
  <1> DEFINE p == n \div d
             r == n % d
             q == p \div e
             s == p % e
  <1>1. p \in Int /\ r \in 0 .. d - 1 /\ n = p * d + r
    BY DivisionOf
  <1> HIDE DEF p, r
  <1>2. q \in Int /\ s \in 0 .. e - 1 /\ p = q * e + s
    BY <1>1, DivisionOf
  <1> HIDE DEF q, s
  <1> DEFINE rest == s * d + r
  <1>3. p * d = (q * e) * d + s * d
    BY <1>1, <1>2, ProductOfSum
  <1>4. (q * e) * d = q * (e * d)
    BY <1>2
  <1>5. e * d \in Nat \ {0} /\ rest \in Nat
    BY <1>1, <1>2
  <1>6. rest <= e * d - 1
    <2>1. s + 1 <= e => (s + 1) * d <= e * d
      BY <1>2, ProductGrows
    <2>2. (s + 1) * d = s * d + d
      BY <1>2
    <2> QED
      BY <1>1, <1>2, <2>1, <2>2
  <1>7. n = q * (e * d) + rest
    <2>1. p * d \in Int /\ q * (e * d) \in Int /\ s * d \in Int
      BY <1>1, <1>2
    <2> QED
      BY <1>1, <1>3, <1>4, <2>1
  <1> HIDE DEF rest
  <1>8. n \div (e * d) = q
    <2> DEFINE m == e * d
    <2>1. m \in Nat \ {0} /\ rest \in 0 .. m - 1 /\ n = q * m + rest
      BY <1>5, <1>6, <1>7
    <2> HIDE DEF m
    <2>2. n \div m = q
      BY <1>2, <2>1, DivisionIs
    <2> QED
      BY <2>2 DEF m
  <1> QED
    BY <1>8 DEF q, p

(* A number that is written in a few bytes and read again.                    *)
LEMMA BigEndianIs ==
    ASSUME NEW value \in Int, NEW size \in Nat
    PROVE  /\ BigEndian(value, size) \in Seq(Byte) /\ Len(BigEndian(value, size)) = size
           /\ Combined(BigEndian(value, size)) = value - Power[size] * (value \div Power[size])
  <1> DEFINE shifted(k) == value \div Power[size - k]
             bytes == BigEndian(value, size)
             high == value \div Power[size]
             upto == [k \in 0..size |-> shifted(k) - Power[k] * high]
  <1>1. Base \in Nat \ {0} /\ Byte = 0 .. Base - 1
    BY BaseIsValid
  <1>2. ASSUME NEW k \in 0..size PROVE shifted(k) \in Int
    <2>1. size - k \in Nat
      OBVIOUS
    <2>2. Power[size - k] \in Nat \ {0}
      BY <2>1, PowerIs
    <2> QED
      BY <2>2, DivisionOf
  <1>3. ASSUME NEW k \in 1..size PROVE shifted(k) % Base \in Byte
    <2>1. shifted(k) \in Int
      BY <1>2
    <2> HIDE DEF shifted
    <2> QED
      BY <1>1, <2>1, DivisionOf
  <1>4. bytes = [k \in 1..size |-> shifted(k) % Base]
    BY DEF BigEndian
  <1>5. bytes \in Seq(Byte) /\ Len(bytes) = size /\ \A k \in 1..size : bytes[k] = shifted(k) % Base
    <2> HIDE DEF shifted, bytes
    <2> QED
      BY <1>3, <1>4
  <1>6. high = shifted(0) /\ high \in Int
    <2>1. size - 0 = size /\ 0 \in 0..size
      OBVIOUS
    <2> QED
      BY <1>2, <2>1
  <1>7. ASSUME NEW k \in 0 .. size - 1
        PROVE  shifted(k + 1) = shifted(k) * Base + bytes[k + 1]
    <2>1. k + 1 \in 1..size /\ size - (k + 1) \in Nat /\ size - k = (size - (k + 1)) + 1
      OBVIOUS
    <2> DEFINE d == Power[size - (k + 1)]
               n == shifted(k + 1)
    <2>2. d \in Nat \ {0} /\ Power[size - k] = Base * d
      BY <2>1, PowerIs
    <2>3. n = value \div d
      OBVIOUS
    <2>4. n \in Int
      <3>1. k + 1 \in 0..size
        OBVIOUS
      <3> HIDE DEF shifted
      <3> QED
        BY <1>2, <3>1
    <2>5. shifted(k) = value \div (Base * d)
      BY <2>2
    <2>6. bytes[k + 1] = n % Base
      BY <1>5, <2>1
    <2> HIDE DEF d, n, shifted, bytes
    <2>7. shifted(k) = n \div Base
      BY <1>1, <2>2, <2>3, <2>5, DivisionTwice
    <2>8. n = (n \div Base) * Base + (n % Base)
      BY <1>1, <2>4, DivisionOf
    <2> QED
      BY <2>6, <2>7, <2>8 DEF n
  <1> HIDE DEF shifted, bytes, high
  <1>8. ASSUME NEW k \in 0..size PROVE Power[k] \in Nat /\ upto[k] = shifted(k) - Power[k] * high
                                        /\ upto[k] \in Int /\ Power[k] * high \in Int
    <2>1. k \in Nat
      OBVIOUS
    <2>2. Power[k] \in Nat
      BY <2>1, PowerIs
    <2>3. Power[k] * high \in Int
      BY <1>6, <2>2
    <2> QED
      BY <1>2, <2>2, <2>3
  <1>9. upto[0] = 0
    <2>1. Power[0] * high = high
      BY <1>6, PowerIs
    <2>2. upto[0] = shifted(0) - Power[0] * high
      BY <1>8
    <2> QED
      BY <1>6, <2>1, <2>2
  <1>10. ASSUME NEW k \in 0 .. size - 1
         PROVE  upto[k + 1] = upto[k] * Base + bytes[k + 1]
    <2> DEFINE low == Power[k] * high
               a == shifted(k)
    <2>1. k \in 0..size /\ k + 1 \in 0..size /\ k + 1 \in 1..size /\ k \in Nat
      OBVIOUS
    <2>2. upto[k + 1] = shifted(k + 1) - Power[k + 1] * high /\ upto[k] = a - low
      BY <1>8, <2>1
    <2>3. Power[k + 1] * high = low * Base /\ low \in Int
      <3>1. Power[k + 1] = Base * Power[k] /\ Power[k] \in Nat
        BY <2>1, PowerIs
      <3>2. (Base * Power[k]) * high = (Power[k] * high) * Base /\ Power[k] * high \in Int
        BY <1>1, <1>6, <3>1
      <3> QED
        BY <3>1, <3>2
    <2>4. a \in Int /\ bytes[k + 1] \in Int
      BY <1>1, <1>2, <1>3, <1>5, <2>1
    <2>5. shifted(k + 1) = a * Base + bytes[k + 1]
      BY <1>7
    <2> HIDE DEF a, low, upto
    <2>6. (a - low) * Base = a * Base - low * Base
      BY <1>1, <2>3, <2>4, ProductOfSum
    <2>7. a * Base \in Int /\ low * Base \in Int
      BY <1>1, <2>3, <2>4
    <2> QED
      BY <2>2, <2>3, <2>4, <2>5, <2>6, <2>7
  <1>11. Combined(bytes) = upto[size]
    <2>1. upto \in [0..size -> Int]
      BY <1>8
    <2> HIDE DEF upto
    <2> QED
      BY <1>5, <1>9, <1>10, <2>1, CombinedIs
  <1>12. shifted(size) = value
    <2>1. size - size = 0
      OBVIOUS
    <2>2. value \div 1 = value
      OBVIOUS
    <2> QED
      BY <2>1, <2>2, PowerIs DEF shifted
  <1>13. size \in 0..size /\ upto[size] = shifted(size) - Power[size] * high
    BY <1>8
  <1> QED
    BY <1>5, <1>11, <1>12, <1>13 DEF bytes, high

LEMMA ReverseTwice ==
    ASSUME NEW S, NEW s \in Seq(S)
    PROVE  Reverse(s) \in Seq(S) /\ Len(Reverse(s)) = Len(s) /\ Reverse(Reverse(s)) = s
  <1> DEFINE n == Len(s)
             back == Reverse(s)
             again == Reverse(back)
  <1>1. n \in Nat /\ \A k \in 1..n : s[k] \in S /\ n - k + 1 \in 1..n
    BY ElementOfSeq, LenProperties
  <1>2. back \in Seq(S) /\ Len(back) = n /\ \A k \in 1..n : back[k] = s[n - k + 1]
    BY <1>1 DEF Reverse
  <1> HIDE DEF back
  <1>3. \A k \in 1..n : back[k] \in S
    BY <1>2, ElementOfSeq
  <1>4. again \in Seq(S) /\ Len(again) = n /\ \A k \in 1..n : again[k] = back[n - k + 1]
    BY <1>1, <1>2, <1>3 DEF Reverse
  <1> HIDE DEF again
  <1>5. ASSUME NEW k \in 1..n PROVE again[k] = s[k]
    <2>1. n - k + 1 \in 1..n /\ n - (n - k + 1) + 1 = k
      BY <1>1
    <2> QED
      BY <1>2, <1>4, <2>1
  <1>6. again = s
    BY <1>4, <1>5, SeqEqual
  <1> QED
    BY <1>2, <1>6 DEF again, back

LEMMA NumberIsRead ==
    ASSUME NEW value \in Int, NEW size \in Nat, NEW signed \in BOOLEAN, NEW order,
           InRange(value, size, signed)
    PROVE  LET bytes == Ordered(BigEndian(value, size), order)
           IN bytes \in Seq(Byte) /\ Len(bytes) = size /\ FromBytes(bytes, signed, order) = value
  <1> DEFINE big == BigEndian(value, size)
             bytes == Ordered(big, order)
             modulus == Power[size]
             n == Combined(big)
  <1>1. big \in Seq(Byte) /\ Len(big) = size /\ n = value - modulus * (value \div modulus)
    BY BigEndianIs
  <1>2. modulus \in Nat \ {0}
    BY PowerIs
  <1> HIDE DEF big
  <1>3. bytes \in Seq(Byte) /\ Len(bytes) = size /\ Ordered(bytes, order) = big
    BY <1>1, ReverseTwice DEF Ordered
  <1>4. FromBytes(bytes, signed, order) =
            IF signed /\ 2 * n >= modulus THEN n - modulus ELSE n
    BY <1>3 DEF FromBytes
  <1>5. IF signed THEN -modulus <= 2 * value /\ 2 * value < modulus ELSE 0 <= value /\ value < modulus
    BY DEF InRange
  <1> HIDE DEF bytes, n, modulus
  <1>6. CASE 0 <= value
    <2>1. value \in 0 .. modulus - 1 /\ value = 0 * modulus + value /\ 0 \in Int
      BY <1>2, <1>5, <1>6
    <2>2. value \div modulus = 0
      BY <1>2, <2>1, DivisionIs
    <2>3. n = value
      BY <1>1, <1>2, <2>2
    <2> QED
      BY <1>1, <1>2, <1>3, <1>4, <1>5, <2>3 DEF bytes, big
  <1>7. CASE ~(0 <= value)
    <2>1. value + modulus \in 0 .. modulus - 1 /\ value = (-1) * modulus + (value + modulus)
      BY <1>2, <1>5, <1>7
    <2>2. value \div modulus = -1
      <3> DEFINE q == -1
                 r == value + modulus
      <3>1. q \in Int /\ r \in 0 .. modulus - 1 /\ value = q * modulus + r
        BY <2>1
      <3> HIDE DEF q, r
      <3>2. value \div modulus = q
        BY <1>2, <3>1, DivisionIs
      <3> QED
        BY <3>2 DEF q
    <2>3. n = value + modulus
      BY <1>1, <1>2, <2>2
    <2>4. signed /\ 2 * n >= modulus
      BY <1>2, <1>5, <1>7, <2>3
    <2> QED
      BY <1>2, <1>3, <1>4, <2>3, <2>4 DEF bytes, big
  <1> QED
    BY <1>6, <1>7

-----------------------------------------------------------------------------
(* What items are in memory. *)
Order == {"be", "le"}
Entry == [item : Item, order : Order]

BytesAt(entry) == BytesOf(entry.item, entry.order)

LEMMA NumberBytes ==
    ASSUME NEW entry \in Entry, entry.item.kind = "number"
    PROVE  /\ BytesAt(entry) \in Seq(Byte) /\ Len(BytesAt(entry)) = entry.item.size
           /\ entry.item.size \in Nat \ {0} /\ entry.item.wide \in Nat
           /\ FromBytes(BytesAt(entry), entry.item.signed, entry.order) = entry.item.value
  <1> DEFINE item == entry.item
             order == entry.order
  <1>1. item \in Item
    BY DEF Entry
  <1>2. /\ item.value \in Int /\ item.size \in Nat /\ item.size # 0 /\ item.signed \in BOOLEAN
        /\ item.wide \in Nat /\ InRange(item.value, item.size, item.signed)
    BY <1>1, ItemsAreValid
  <1>3. BytesAt(entry) = Ordered(BigEndian(item.value, item.size), order)
    BY DEF BytesAt, BytesOf
  <1> HIDE DEF item, order
  <1>4. LET bytes == Ordered(BigEndian(item.value, item.size), order)
        IN /\ bytes \in Seq(Byte) /\ Len(bytes) = item.size
           /\ FromBytes(bytes, item.signed, order) = item.value
    BY <1>2, NumberIsRead
  <1> QED
    BY <1>2, <1>3, <1>4 DEF item, order

LEMMA StringBytes ==
    ASSUME NEW entry \in Entry, entry.item.kind = "string"
    PROVE  BytesAt(entry) \in Seq(Byte) /\ BytesAt(entry) = entry.item.value
  <1>1. entry.item \in Item
    BY DEF Entry
  <1>2. entry.item.value \in Seq(Byte)
    BY <1>1, ItemsAreValid
  <1>3. BytesAt(entry) = entry.item.value
    BY DEF BytesAt, BytesOf
  <1> QED
    BY <1>2, <1>3

LEMMA CharsBytes ==
    ASSUME NEW entry \in Entry, entry.item.kind = "chars"
    PROVE  LET value == entry.item.value
           IN /\ value \in Seq(Byte \ {0})
              /\ BytesAt(entry) \in Seq(Byte) /\ Len(BytesAt(entry)) = Len(value) + 1
              /\ \A k \in 1 .. Len(value) : BytesAt(entry)[k] = value[k]
              /\ BytesAt(entry)[Len(value) + 1] = 0
  <1> DEFINE value == entry.item.value
  <1>1. entry.item \in Item
    BY DEF Entry
  <1>2. value \in Seq(Byte \ {0})
    BY <1>1, ItemsAreValid
  <1>3. BytesAt(entry) = Append(value, 0)
    BY DEF BytesAt, BytesOf
  <1> HIDE DEF value
  <1>4. value \in Seq(Byte) /\ 0 \in Byte
    BY <1>2, BaseIsValid, SeqMonotonic
  <1> QED
    BY <1>2, <1>3, <1>4, AppendProperties DEF value

LEMMA BytesOfEntry ==
    ASSUME NEW entry \in Entry
    PROVE  /\ BytesAt(entry) \in Seq(Byte) /\ Len(BytesAt(entry)) \in Nat
           /\ entry.item.kind \in {"number", "string", "chars"}
  <1>1. entry.item \in Item
    BY DEF Entry
  <1>2. entry.item.kind \in {"number", "string", "chars"}
    BY <1>1, ItemsAreValid
  <1>3. BytesAt(entry) \in Seq(Byte)
    BY <1>2, NumberBytes, StringBytes, CharsBytes
  <1> QED
    BY <1>2, <1>3, LenProperties

(* Where each of the entries of a list starts, and where the last one ends.   *)
Starts(starts, list) ==
    /\ starts \in [1 .. Len(list) + 1 -> Nat] /\ starts[1] = 0
    /\ \A k \in 1 .. Len(list) :
          /\ starts[k + 1] = starts[k] + Len(BytesAt(list[k]))
          /\ starts[k + 1] <= starts[Len(list) + 1]

Holds(b, starts, list) ==
    /\ Fits(b) /\ b.size = starts[Len(list) + 1]
    /\ \A k \in 1 .. Len(list) : \A j \in 1 .. Len(BytesAt(list[k])) :
          b.memory[starts[k] + j] = BytesAt(list[k])[j]

(* resize() within the maximum is granted the memory it asks for.             *)
LEMMA ResizeSucceeds ==
    ASSUME NEW b, Fits(b), NEW size \in Nat, size <= b.maximum
    PROVE  LET r == Resize(b, size, "Grow", TRUE)
           IN Resizes(b, size, r) /\ r.ok
  <1> DEFINE r == Resize(b, size, "Grow", TRUE)
             grown == IF size = 0 THEN Done(b) ELSE Realloc(b, size, "Grow", TRUE)
  <1>1. b.maximum \in Nat /\ Capacity(b) \in Nat
    BY LenProperties DEF Fits, BufferType, Capacity
  <1>2. ~(size > b.maximum)
    BY <1>1
  <1>3. grown.ok = TRUE
    BY <1>2 DEF Realloc, Done
  <1>4. r.ok = TRUE
    BY <1>3 DEF Resize, Done
  <1>5. Resizes(b, size, r)
    BY ResizeProperties
  <1> QED
    BY <1>4, <1>5

(* produce(): what was in the buffer, and the bytes behind it.                *)
Produced(b, bytes, after) ==
    /\ Fits(after) /\ after.maximum = b.maximum /\ after.size = b.size + Len(bytes)
    /\ \A k \in 1 .. b.size : after.memory[k] = b.memory[k]
    /\ \A j \in 1 .. Len(bytes) : after.memory[b.size + j] = bytes[j]

LEMMA ProduceAppends ==
    ASSUME NEW s, Fits(s.m_data), NEW bytes \in Seq(Byte),
           s.m_data.size + Len(bytes) <= s.m_data.maximum,
           s = [m_maximum |-> s.m_maximum, m_data |-> s.m_data]
    PROVE  /\ Produce(s, bytes) = [m_maximum |-> s.m_maximum, m_data |-> Produce(s, bytes).m_data]
           /\ Produced(s.m_data, bytes, Produce(s, bytes).m_data)
  <1> DEFINE b == s.m_data
             size == b.size + Len(bytes)
             r == Resize(b, size, "Grow", TRUE)
             old == r.buffer
             memory == Write(old.memory, b.size, bytes)
             new == [old EXCEPT !.memory = memory]
  <1>1. b.size \in Nat /\ Len(bytes) \in Nat /\ size \in Nat /\ b.size <= Capacity(b)
        /\ Capacity(b) \in Nat /\ Fits(b) /\ size <= b.maximum
    BY LenProperties DEF Fits, BufferType, Capacity
  <1>2. Produce(s, bytes) = [s EXCEPT !.m_data = new]
    BY DEF Produce
  <1> HIDE DEF new, b
  <1>3. Produce(s, bytes) = [m_maximum |-> s.m_maximum, m_data |-> new]
    BY <1>2
  <1> HIDE DEF size
  <1>4. Resizes(b, size, r) /\ r.ok
    BY <1>1, ResizeSucceeds
  <1> HIDE DEF r
  <1>5. /\ KeepsMemory(b, old) /\ Fits(old) /\ old.size = size /\ old.maximum = b.maximum
        /\ Capacity(b) <= Capacity(old) /\ \A k \in 1 .. Capacity(b) : old.memory[k] = b.memory[k]
    BY <1>4 DEF Resizes, KeepsMemory
  <1> HIDE DEF old
  <1>6. /\ old \in BufferType /\ old.memory \in Seq(Cell) /\ Len(old.memory) \in Nat
        /\ size <= Len(old.memory) /\ Len(old.memory) <= old.maximum
    BY <1>5, LenProperties DEF Fits, BufferType, Capacity
  <1>7. bytes \in Seq(Cell)
    BY SeqMonotonic DEF Cell
  <1>8. /\ memory \in Seq(Cell) /\ Len(memory) = Len(old.memory)
        /\ \A k \in 1 .. Len(old.memory) : memory[k] =
               IF k \in b.size + 1 .. b.size + Len(bytes) THEN bytes[k - b.size] ELSE old.memory[k]
    <2>1. b.size \in Nat /\ old.memory \in Seq(Cell)
      BY <1>1, <1>6
    <2> QED
      BY <1>7, <2>1, WriteProperties
  <1> HIDE DEF memory
  <1>9. /\ new \in BufferType /\ new.memory = memory /\ new.size = size /\ new.maximum = b.maximum
    BY <1>5, <1>6, <1>8 DEF new, BufferType
  <1>10. Fits(new)
    BY <1>5, <1>6, <1>8, <1>9 DEF Fits, Capacity
  <1>11. ASSUME NEW k \in 1 .. b.size PROVE new.memory[k] = b.memory[k]
    <2>1. k \in 1 .. Len(old.memory) /\ k \in 1 .. Capacity(b) /\ k \notin b.size + 1 .. b.size + Len(bytes)
      BY <1>1, <1>6 DEF size
    <2> QED
      BY <1>5, <1>8, <1>9, <2>1
  <1>12. ASSUME NEW j \in 1 .. Len(bytes) PROVE new.memory[b.size + j] = bytes[j]
    <2> DEFINE k == b.size + j
    <2>1. k \in 1 .. Len(old.memory) /\ k \in b.size + 1 .. b.size + Len(bytes) /\ k - b.size = j
      BY <1>1, <1>6 DEF size
    <2> HIDE DEF k
    <2>2. new.memory[k] = bytes[j]
      BY <1>8, <1>9, <2>1
    <2> QED
      BY <2>2 DEF k
  <1>13. Produced(b, bytes, new)
    BY <1>9, <1>10, <1>11, <1>12 DEF Produced, size
  <1> QED
    BY <1>3, <1>13 DEF b

LEMMA AppendHolds ==
    ASSUME NEW list \in Seq(Entry), NEW starts, Starts(starts, list),
           NEW b, Holds(b, starts, list), NEW entry \in Entry,
           NEW after, Produced(b, BytesAt(entry), after)
    PROVE  \E t : Starts(t, Append(list, entry)) /\ Holds(after, t, Append(list, entry))
  <1> DEFINE n == Len(list)
             more == Append(list, entry)
             size == Len(BytesAt(entry))
             end == starts[n + 1] + size
             t == [k \in 1 .. n + 2 |-> IF k = n + 2 THEN end ELSE starts[k]]
  <1>1. n \in Nat /\ size \in Nat /\ \A k \in 1..n : list[k] \in Entry
    BY BytesOfEntry, LenProperties, ElementOfSeq
  <1>2. Len(more) = n + 1 /\ more[n + 1] = entry /\ \A k \in 1..n : more[k] = list[k]
    BY AppendProperties
  <1> HIDE DEF more
  <1>3. /\ starts \in [1 .. n + 1 -> Nat] /\ starts[1] = 0
        /\ \A k \in 1..n : /\ starts[k + 1] = starts[k] + Len(BytesAt(list[k]))
                           /\ starts[k + 1] <= starts[n + 1]
    BY DEF Starts
  <1> HIDE DEF n
  <1>4. n + 1 \in 1 .. n + 1 /\ end \in Nat /\ starts[n + 1] \in Nat /\ starts[n + 1] <= end
    BY <1>1, <1>3
  <1>5. /\ t \in [1 .. n + 2 -> Nat] /\ t[n + 2] = end /\ \A k \in 1 .. n + 1 : t[k] = starts[k]
    BY <1>1, <1>3, <1>4
  <1> HIDE DEF t
  <1>6. Starts(t, more)
    <2>1. t \in [1 .. Len(more) + 1 -> Nat] /\ Len(more) + 1 = n + 2
      <3>1. (n + 1) + 1 = n + 2
        BY <1>1
      <3> QED
        BY <1>2, <1>5, <3>1
    <2>2. t[1] = 0
      BY <1>1, <1>3, <1>5
    <2>3. ASSUME NEW k \in 1 .. n + 1
          PROVE  t[k + 1] = t[k] + Len(BytesAt(more[k])) /\ t[k + 1] <= t[n + 2]
      <3>1. CASE k = n + 1
        <4>1. k + 1 = n + 2
          BY <1>1, <3>1
        <4> QED
          BY <1>1, <1>2, <1>4, <1>5, <3>1, <4>1
      <3>2. CASE k # n + 1
        <4>1. k \in 1..n /\ k + 1 \in 1 .. n + 1 /\ k \in 1 .. n + 1
          BY <1>1, <3>2
        <4>2. t[k + 1] = starts[k + 1] /\ t[k] = starts[k] /\ more[k] = list[k]
          BY <1>2, <1>5, <4>1
        <4>3. starts[k + 1] \in Nat
          BY <1>3, <4>1
        <4> QED
          BY <1>3, <1>4, <1>5, <4>1, <4>2, <4>3
      <3> QED
        BY <3>1, <3>2
    <2> QED
      BY <1>2, <2>1, <2>2, <2>3 DEF Starts
  <1>7. Holds(after, t, more)
    <2>1. /\ Fits(after) /\ after.size = b.size + size
          /\ \A k \in 1 .. b.size : after.memory[k] = b.memory[k]
          /\ \A j \in 1 .. size : after.memory[b.size + j] = BytesAt(entry)[j]
      BY DEF Produced
    <2>2. /\ b.size = starts[n + 1]
          /\ \A k \in 1..n : \A j \in 1 .. Len(BytesAt(list[k])) :
                b.memory[starts[k] + j] = BytesAt(list[k])[j]
      BY DEF Holds, n
    <2>3. after.size = t[Len(more) + 1]
      <3>1. (n + 1) + 1 = n + 2
        BY <1>1
      <3> QED
        BY <1>2, <1>5, <2>1, <2>2, <3>1
    <2>4. ASSUME NEW k \in 1 .. n + 1, NEW j \in 1 .. Len(BytesAt(more[k]))
          PROVE  after.memory[t[k] + j] = BytesAt(more[k])[j]
      <3>1. CASE k = n + 1
        BY <1>2, <1>5, <2>1, <2>2, <3>1
      <3>2. CASE k # n + 1
        <4>1. k \in 1..n /\ k \in 1 .. n + 1 /\ k + 1 \in 1 .. n + 1
          BY <1>1, <3>2
        <4>2. t[k] = starts[k] /\ more[k] = list[k] /\ j \in 1 .. Len(BytesAt(list[k]))
          BY <1>2, <1>5, <4>1
        <4>3. starts[k] \in Nat /\ Len(BytesAt(list[k])) \in Nat
          BY <1>1, <1>3, <4>1, BytesOfEntry
        <4>4. starts[k] + j \in 1 .. b.size
          BY <1>3, <1>4, <2>2, <4>1, <4>2, <4>3
        <4> QED
          BY <2>1, <2>2, <4>1, <4>2, <4>4
      <3> QED
        BY <3>1, <3>2
    <2> QED
      BY <1>2, <2>1, <2>3, <2>4 DEF Holds
  <1> QED
    BY <1>6, <1>7 DEF more

LEMMA PeekIs ==
    ASSUME NEW src, Fits(src.m_data), src.m_progress \in Nat, NEW size \in Nat,
           src.m_progress + size <= src.m_data.size
    PROVE  /\ Available(src) \in Nat /\ size <= Available(src)
           /\ Peek(src, size) \in Seq(Cell) /\ Len(Peek(src, size)) = size
           /\ \A k \in 1..size : Peek(src, size)[k] = src.m_data.memory[src.m_progress + k]
  <1> DEFINE b == src.m_data
             p == src.m_progress
             end == p + size
  <1>1. /\ b.memory \in Seq(Cell) /\ b.size \in Nat /\ b.size <= Len(b.memory)
        /\ Len(b.memory) \in Nat
    BY LenProperties DEF Fits, BufferType, Capacity
  <1>2. Available(src) = b.size - p /\ Peek(src, size) = SubSeq(b.memory, p + 1, end)
    BY DEF Available, Peek
  <1>3. p \in Nat /\ end \in 0 .. Len(b.memory) /\ p <= end /\ end - p = size /\ end <= b.size
    BY <1>1
  <1> HIDE DEF b, p, end
  <1>4. /\ SubSeq(b.memory, p + 1, end) \in Seq(Cell)
        /\ Len(SubSeq(b.memory, p + 1, end)) = end - p
        /\ \A k \in 1 .. end - p : SubSeq(b.memory, p + 1, end)[k] = b.memory[p + k]
    BY <1>1, <1>3, PartOf
  <1>5. Available(src) \in Nat /\ size <= Available(src)
    BY <1>1, <1>2, <1>3 DEF end
  <1> QED
    BY <1>2, <1>3, <1>4, <1>5 DEF b, p

(* A source that stands where an entry starts.                                *)
StandsAt(src, bytes) ==
    /\ Fits(src.m_data) /\ src.m_progress \in Nat
    /\ src.m_progress + Len(bytes) <= src.m_data.size
    /\ \A j \in 1 .. Len(bytes) : src.m_data.memory[src.m_progress + j] = bytes[j]

LEMMA EntryIsNext ==
    ASSUME NEW list \in Seq(Entry), NEW starts, Starts(starts, list),
           NEW src, Holds(src.m_data, starts, list), NEW n \in 0 .. Len(list) - 1,
           src.m_progress = starts[n + 1]
    PROVE  /\ StandsAt(src, BytesAt(list[n + 1]))
           /\ starts[n + 2] = src.m_progress + Len(BytesAt(list[n + 1]))
  <1>1. n + 1 \in 1 .. Len(list) /\ (n + 1) + 1 = n + 2 /\ n + 1 \in 1 .. Len(list) + 1
    BY LenProperties
  <1>2. /\ starts[n + 1] \in Nat
        /\ starts[n + 2] = starts[n + 1] + Len(BytesAt(list[n + 1]))
        /\ starts[n + 2] <= starts[Len(list) + 1]
    BY <1>1 DEF Starts
  <1>3. /\ Fits(src.m_data) /\ src.m_data.size = starts[Len(list) + 1]
        /\ \A j \in 1 .. Len(BytesAt(list[n + 1])) :
               src.m_data.memory[starts[n + 1] + j] = BytesAt(list[n + 1])[j]
    BY <1>1 DEF Holds
  <1> QED
    BY <1>2, <1>3 DEF StandsAt

LEMMA PeekIsBytes ==
    ASSUME NEW src, NEW bytes \in Seq(Byte), StandsAt(src, bytes)
    PROVE  /\ Peek(src, Len(bytes)) = bytes /\ Len(bytes) <= Available(src)
           /\ Available(src) \in Nat
  <1> DEFINE size == Len(bytes)
             peeked == Peek(src, size)
  <1>1. /\ Fits(src.m_data) /\ src.m_progress \in Nat /\ src.m_progress + size <= src.m_data.size
        /\ \A j \in 1..size : src.m_data.memory[src.m_progress + j] = bytes[j]
        /\ size \in Nat /\ bytes \in Seq(Cell)
    BY LenProperties, SeqMonotonic DEF StandsAt, Cell
  <1>2. /\ Available(src) \in Nat /\ size <= Available(src)
        /\ peeked \in Seq(Cell) /\ Len(peeked) = size
        /\ \A k \in 1..size : peeked[k] = src.m_data.memory[src.m_progress + k]
    BY <1>1, PeekIs
  <1> HIDE DEF peeked
  <1>3. peeked = bytes
    BY <1>1, <1>2, SeqEqual
  <1> QED
    BY <1>2, <1>3 DEF peeked

(* The characters end at the first zero.                                      *)
LEMMA CharsAreRead ==
    ASSUME NEW src, NEW value \in Seq(Byte \ {0}), NEW bytes \in Seq(Byte),
           Len(bytes) = Len(value) + 1, bytes[Len(value) + 1] = 0,
           \A k \in 1 .. Len(value) : bytes[k] = value[k], StandsAt(src, bytes)
    PROVE  LET zero == Min({k \in 1 .. Available(src) : Peek(src, k)[k] = 0})
           IN zero = Len(bytes) /\ Peek(src, zero - 1) = value
  <1> DEFINE n == Len(value)
             p == src.m_progress
             memory == src.m_data.memory
             zeros == {k \in 1 .. Available(src) : Peek(src, k)[k] = 0}
  <1>1. /\ Fits(src.m_data) /\ p \in Nat /\ n \in Nat /\ p + (n + 1) <= src.m_data.size
        /\ \A j \in 1 .. n + 1 : memory[p + j] = bytes[j]
        /\ src.m_data.size \in Nat
    BY LenProperties DEF StandsAt, Fits, BufferType
  <1>2. Available(src) \in Nat /\ n + 1 <= Available(src) /\ Available(src) = src.m_data.size - p
    BY <1>1, PeekIsBytes DEF Available
  <1>3. ASSUME NEW k \in 1 .. Available(src) PROVE Peek(src, k)[k] = memory[p + k]
    <2>1. k \in Nat /\ p + k <= src.m_data.size /\ k \in 1..k
      BY <1>1, <1>2
    <2> QED
      BY <1>1, <2>1, PeekIs
  <1>4. ASSUME NEW k \in 1..n PROVE memory[p + k] # 0
    <2>1. k \in 1 .. n + 1 /\ value[k] \in Byte \ {0} /\ bytes[k] = value[k]
      BY <1>1, ElementOfSeq
    <2> QED
      BY <1>1, <2>1
  <1>5. n + 1 \in 1 .. n + 1 /\ memory[p + (n + 1)] = 0
    BY <1>1
  <1>6. n + 1 \in zeros /\ \A k \in zeros : k \in Nat /\ n + 1 <= k
    <2>1. n + 1 \in 1 .. Available(src)
      BY <1>1, <1>2
    <2>2. ASSUME NEW k \in zeros PROVE k \in Nat /\ n + 1 <= k
      <3>1. k \in 1 .. Available(src) /\ memory[p + k] = 0
        BY <1>3
      <3>2. k \notin 1..n
        BY <1>4, <3>1
      <3> QED
        BY <1>1, <3>1, <3>2
    <2> HIDE DEF n, memory, p
    <2> QED
      BY <1>3, <1>5, <2>1, <2>2
  <1> HIDE DEF zeros
  <1>7. Min(zeros) = n + 1
    <2>1. \A k \in zeros : (\A j \in zeros : k <= j) => k = n + 1
      BY <1>1, <1>6
    <2> QED
      BY <1>6, <2>1 DEF Min
  <1>8. Peek(src, n) = value
    <2> DEFINE peeked == Peek(src, n)
    <2>1. /\ peeked \in Seq(Cell) /\ Len(peeked) = n
          /\ \A k \in 1..n : peeked[k] = memory[p + k]
      BY <1>1, PeekIs
    <2>2. value \in Seq(Cell)
      BY SeqMonotonic DEF Cell
    <2> HIDE DEF peeked
    <2>3. ASSUME NEW k \in 1..n PROVE peeked[k] = value[k]
      <3>1. k \in 1 .. n + 1 /\ bytes[k] = value[k]
        BY <1>1
      <3> QED
        BY <1>1, <2>1, <3>1
    <2>4. peeked = value
      BY <2>1, <2>2, <2>3, SeqEqual
    <2> QED
      BY <2>4 DEF peeked
  <1>9. (n + 1) - 1 = n
    BY <1>1
  <1> QED
    BY <1>7, <1>8, <1>9 DEF zeros

-----------------------------------------------------------------------------
(* The invariant of a program that writes items and reads them back.          *)
SinkFits ==
    /\ sink \in [m_maximum : 0 .. InfiniteCapacity, m_data : BufferType]
    /\ Fits(sink.m_data) /\ sink.m_data.maximum = InfiniteCapacity

SourceFits == source \in [m_data : BufferType, m_progress : Nat]

(* What has been read is the front of what was written.                       *)
ReadFits ==
    /\ items \in Seq(Entry) /\ read \in Seq({item.value : item \in Item})
    /\ Len(read) <= Len(items) /\ \A k \in 1 .. Len(read) : read[k] = items[k].item.value
    /\ source.m_data.size = 0 => read = <<>>

FailureFits ==
    failed # "none" => LET item == items[Len(read) + 1].item
                       IN /\ item.kind = "number" /\ item.size < item.wide
                          /\ source.m_data.size # 0

(* The bytes of all items are in the sink's buffer until the source has it,   *)
(* which stands where the next item starts.                                   *)
Holder == IF source.m_data.size = 0 THEN sink.m_data ELSE source.m_data

ItemsAreStored ==
    \E starts : /\ Starts(starts, items) /\ Holds(Holder, starts, items)
                /\ source.m_progress = starts[Len(read) + 1]

SerialInv == SinkFits /\ SourceFits /\ ReadFits /\ FailureFits /\ ItemsAreStored

LEMMA WholeIsRead == SerialInv => ItemsAreReadBack
  <1> SUFFICES ASSUME SerialInv PROVE ItemsAreReadBack
    OBVIOUS
  <1>1. failed # "none" => LET item == items[Len(read) + 1].item
                          IN item.kind = "number" /\ item.size < item.wide
    BY DEF SerialInv, FailureFits
  <1>2. \A k \in 1 .. Len(read) : read[k] = items[k].item.value
    BY DEF SerialInv, ReadFits
  <1>3. ASSUME items # <<>>, Len(read) = Len(items) PROVE Available(source) = 0
    <2>1. items \in Seq(Entry) /\ (source.m_data.size = 0 => read = <<>>)
      BY DEF SerialInv, ReadFits
    <2>2. read # <<>>
      BY <1>3, <2>1, EmptySeq
    <2>3. Holder = source.m_data
      BY <2>1, <2>2 DEF Holder
    <2>4. PICK starts : /\ Starts(starts, items) /\ Holds(Holder, starts, items)
                       /\ source.m_progress = starts[Len(read) + 1]
      BY DEF SerialInv, ItemsAreStored
    <2>5. source.m_data.size = source.m_progress
      BY <1>3, <2>3, <2>4 DEF Holds
    <2>6. source.m_progress \in Nat
      BY DEF SerialInv, SourceFits
    <2> QED
      BY <2>5, <2>6 DEF Available
  <1> QED
    BY <1>1, <1>2, <1>3 DEF ItemsAreReadBack

LEMMA NoEntries ==
    ASSUME NEW b, Fits(b), b.size = 0
    PROVE  LET starts == [k \in {1} |-> 0]
           IN Starts(starts, <<>>) /\ Holds(b, starts, <<>>)
  <1>1. Len(<<>>) = 0 /\ 1 .. 0 = {} /\ 1 .. 0 + 1 = {1}
    OBVIOUS
  <1> QED
    BY <1>1 DEF Starts, Holds

LEMMA EmptyBufferFits ==
    ASSUME NEW maximum \in Nat
    PROVE  LET b == EmptyBuffer(maximum)
           IN Fits(b) /\ b.size = 0 /\ b.maximum = maximum
  <1>1. <<>> \in Seq(Cell) /\ Len(<<>>) = 0
    BY EmptySeq
  <1> QED
    BY <1>1 DEF EmptyBuffer, Fits, BufferType, Capacity

LEMMA SinkIsNew ==
    ASSUME NEW maximum \in 0 .. InfiniteCapacity
    PROVE  /\ NewSink(maximum).m_maximum = maximum
           /\ NewSink(maximum) \in [m_maximum : 0 .. InfiniteCapacity, m_data : BufferType]
           /\ Fits(NewSink(maximum).m_data) /\ NewSink(maximum).m_data.size = 0
           /\ NewSink(maximum).m_data.maximum = InfiniteCapacity
  <1> DEFINE empty == EmptyBuffer(InfiniteCapacity)
             granted == NewBuffer(maximum, InfiniteCapacity, TRUE)
             b == IF maximum = InfiniteCapacity THEN empty ELSE granted.buffer
  <1>1. InfiniteCapacity \in Nat /\ maximum \in Nat
    BY SizesAreValid DEF InfiniteCapacity
  <1>2. Fits(empty) /\ empty.size = 0 /\ empty.maximum = InfiniteCapacity
    BY <1>1, EmptyBufferFits
  <1> HIDE DEF empty
  <1>3. Min({maximum, InfiniteCapacity}) \in Nat
    BY <1>1, MinOfTwo
  <1>4. granted = Realloc(empty, Min({maximum, InfiniteCapacity}), "Grow", TRUE)
    BY DEF NewBuffer, Reserve, empty
  <1> HIDE DEF granted
  <1>5. Keeps(empty, granted.buffer)
    <2> DEFINE capacity == Min({maximum, InfiniteCapacity})
    <2> HIDE DEF capacity
    <2>1. capacity \in Nat /\ granted = Realloc(empty, capacity, "Grow", TRUE)
      BY <1>3, <1>4 DEF capacity
    <2>2. Grows(empty, capacity, granted)
      BY <1>2, <2>1, ReallocGrows
    <2> QED
      BY <2>2 DEF Grows
  <1>6. Fits(b) /\ b.size = 0 /\ b.maximum = InfiniteCapacity
    BY <1>2, <1>5 DEF Keeps, KeepsMemory
  <1>7. NewSink(maximum) = [m_maximum |-> maximum, m_data |-> b]
    BY DEF NewSink, empty, granted
  <1> HIDE DEF b
  <1> QED
    BY <1>6, <1>7 DEF Fits

LEMMA SerialInitial == SerialInit => SerialInv
  <1> SUFFICES ASSUME SerialInit PROVE SerialInv
    OBVIOUS
  <1>1. PICK maximum \in SinkMaximum : sink = NewSink(maximum)
    BY DEF SerialInit
  <1>2. maximum \in 0 .. InfiniteCapacity
    BY ItemsAreValid
  <1>3. SinkFits /\ sink.m_data.size = 0
    BY <1>1, <1>2, SinkIsNew DEF SinkFits
  <1>4. /\ source = NewSource(EmptyBuffer(InfiniteCapacity)) /\ items = <<>> /\ read = <<>>
        /\ failed = "none"
    BY DEF SerialInit
  <1>5. InfiniteCapacity \in Nat
    BY SizesAreValid DEF InfiniteCapacity
  <1>6. /\ SourceFits /\ source.m_data.size = 0 /\ source.m_progress = 0
    <2> DEFINE b == EmptyBuffer(InfiniteCapacity)
    <2>1. b \in BufferType /\ b.size = 0
      BY <1>5, EmptyBufferFits DEF Fits
    <2> HIDE DEF b
    <2>2. source = [m_data |-> b, m_progress |-> 0]
      BY <1>4 DEF NewSource, b
    <2> QED
      BY <2>1, <2>2 DEF SourceFits
  <1>7. ReadFits /\ FailureFits
    <2>1. items \in Seq(Entry) /\ read \in Seq({item.value : item \in Item}) /\ Len(read) = 0 /\ Len(items) = 0
      BY <1>4, EmptySeq
    <2> QED
      BY <1>4, <2>1 DEF ReadFits, FailureFits
  <1>8. ItemsAreStored
    <2> DEFINE starts == [k \in {1} |-> 0]
    <2>1. Holder = sink.m_data /\ Fits(sink.m_data)
      BY <1>3, <1>6 DEF Holder, SinkFits
    <2>2. Starts(starts, items) /\ Holds(Holder, starts, items)
      BY <1>3, <1>4, <2>1, NoEntries
    <2>3. Len(read) + 1 = 1 /\ starts[1] = 0
      BY <1>4
    <2> HIDE DEF starts
    <2> QED
      BY <1>6, <2>2, <2>3 DEF ItemsAreStored
  <1> QED
    BY <1>3, <1>6, <1>7, <1>8 DEF SerialInv

LEMMA SerializeStep ==
    ASSUME SerialInv, NEW item \in Item, NEW order \in Order, Serialize(item, order)
    PROVE  SerialInv'
  <1> DEFINE entry == [item |-> item, order |-> order]
             bytes == BytesAt(entry)
             b == sink.m_data
             after == Produce(sink, bytes)
  <1>1. entry \in Entry /\ entry.item = item /\ entry.order = order
    BY DEF Entry
  <1>2. /\ source.m_data.size = 0 /\ Len(bytes) <= Headroom(sink)
        /\ sink' = after /\ items' = Append(items, entry)
        /\ source' = source /\ read' = read /\ failed' = failed
    BY DEF Serialize, BytesAt
  <1> HIDE DEF entry
  <1>3. bytes \in Seq(Byte) /\ Len(bytes) \in Nat
    BY <1>1, BytesOfEntry
  <1> HIDE DEF bytes
  <1>4. /\ sink \in [m_maximum : 0 .. InfiniteCapacity, m_data : BufferType]
        /\ Fits(b) /\ b.maximum = InfiniteCapacity /\ b.size \in Nat
    BY DEF SerialInv, SinkFits, BufferType
  <1>5. b.size + Len(bytes) <= b.maximum
    <2>1. sink.m_maximum <= InfiniteCapacity /\ sink.m_maximum \in Nat /\ InfiniteCapacity \in Nat
      BY <1>4, SizesAreValid DEF InfiniteCapacity
    <2>2. Len(bytes) <= sink.m_maximum - b.size
      BY <1>2 DEF Headroom
    <2> QED
      BY <1>3, <1>4, <2>1, <2>2
  <1>6. sink = [m_maximum |-> sink.m_maximum, m_data |-> sink.m_data]
    BY <1>4
  <1>7. /\ after = [m_maximum |-> sink.m_maximum, m_data |-> after.m_data]
        /\ Produced(b, bytes, after.m_data)
    BY <1>3, <1>4, <1>5, <1>6, ProduceAppends
  <1> HIDE DEF after
  <1>8. Fits(after.m_data) /\ after.m_data.maximum = InfiniteCapacity
    BY <1>4, <1>7 DEF Produced
  <1>9. SinkFits'
    <2>1. sink'.m_data = after.m_data /\ sink'.m_maximum = sink.m_maximum
      BY <1>2, <1>7
    <2>2. sink' \in [m_maximum : 0 .. InfiniteCapacity, m_data : BufferType]
      BY <1>2, <1>4, <1>7, <1>8 DEF Fits
    <2>3. Fits(sink'.m_data) /\ sink'.m_data.maximum = InfiniteCapacity
      BY <1>8, <2>1
    <2> QED
      BY <2>2, <2>3 DEF SinkFits, Fits, Capacity
  <1>10. SourceFits'
    BY <1>2 DEF SerialInv, SourceFits
  <1>11. items \in Seq(Entry) /\ read = <<>>
    BY <1>2 DEF SerialInv, ReadFits
  <1>12. Len(read) = 0 /\ read \in Seq({i.value : i \in Item})
    BY <1>11, EmptySeq
  <1>13. ReadFits' /\ FailureFits'
    <2>1. items' \in Seq(Entry) /\ Len(items') \in Nat
      BY <1>1, <1>2, <1>11, AppendProperties, LenProperties
    <2>2. FailureFits'
      BY <1>2 DEF SerialInv, FailureFits
    <2> QED
      BY <1>2, <1>11, <1>12, <2>1, <2>2 DEF ReadFits
  <1>14. ItemsAreStored'
    <2>1. PICK starts : /\ Starts(starts, items) /\ Holds(Holder, starts, items)
                       /\ source.m_progress = starts[Len(read) + 1]
      BY DEF SerialInv, ItemsAreStored
    <2>2. Holder = b /\ Holder' = after.m_data
      BY <1>2, <1>7 DEF Holder
    <2>3. PICK t : Starts(t, Append(items, entry)) /\ Holds(after.m_data, t, Append(items, entry))
      BY <1>1, <1>7, <1>11, <2>1, <2>2, AppendHolds DEF bytes
    <2>4. starts[1] = 0 /\ t[1] = 0
      BY <2>1, <2>3 DEF Starts
    <2>5. Len(read) + 1 = 1
      BY <1>12
    <2>6. /\ Starts(t, items') /\ Holds(Holder', t, items')
          /\ source'.m_progress = t[Len(read') + 1]
      BY <1>2, <2>1, <2>2, <2>3, <2>4, <2>5
    <2> QED
      BY <2>6 DEF ItemsAreStored, Starts, Holds, Fits, Capacity
  <1> QED
    BY <1>9, <1>10, <1>13, <1>14 DEF SerialInv

(* A buffer without bytes holds entries that have none.                       *)
LEMMA EmptyHolds ==
    ASSUME NEW list \in Seq(Entry), NEW starts, Starts(starts, list), starts[Len(list) + 1] = 0,
           NEW b, Fits(b), b.size = 0
    PROVE  Holds(b, starts, list)
  <1>1. ASSUME NEW k \in 1 .. Len(list), NEW j \in 1 .. Len(BytesAt(list[k])) PROVE FALSE
    <2>1. /\ k \in 1 .. Len(list) + 1 /\ starts \in [1 .. Len(list) + 1 -> Nat]
          /\ starts[k + 1] = starts[k] + Len(BytesAt(list[k])) /\ starts[k + 1] <= 0
      BY LenProperties DEF Starts
    <2>2. starts[k] \in Nat
      BY <2>1
    <2>3. Len(BytesAt(list[k])) \in Nat
      BY ElementOfSeq, BytesOfEntry
    <2> QED
      BY <2>1, <2>2, <2>3
  <1> QED
    BY <1>1 DEF Holds

LEMMA SinkToSourceStep ==
    ASSUME SerialInv, SinkToSource
    PROVE  SerialInv'
  <1> DEFINE b == sink.m_data
             reset == Reset(b)
  <1>1. /\ source.m_data.size = 0
        /\ source' = [m_data |-> b, m_progress |-> 0]
        /\ sink' = [sink EXCEPT !.m_data = reset]
        /\ items' = items /\ read' = read /\ failed' = failed
    BY DEF SinkToSource, NewSource
  <1>2. /\ sink \in [m_maximum : 0 .. InfiniteCapacity, m_data : BufferType]
        /\ Fits(b) /\ b.maximum = InfiniteCapacity /\ b \in BufferType
    BY DEF SerialInv, SinkFits
  <1>3. Fits(reset) /\ reset.size = 0 /\ reset.maximum = b.maximum
    BY <1>2, ResetProperties
  <1> HIDE DEF reset
  <1>4. SinkFits'
    <2>1. sink'.m_data = reset
      BY <1>1, <1>2
    <2>2. sink' \in [m_maximum : 0 .. InfiniteCapacity, m_data : BufferType]
      BY <1>1, <1>2, <1>3 DEF Fits
    <2>3. Fits(sink'.m_data) /\ sink'.m_data.maximum = InfiniteCapacity
      BY <1>2, <1>3, <2>1
    <2> QED
      BY <2>2, <2>3 DEF SinkFits, Fits, Capacity
  <1>5. SourceFits'
    BY <1>1, <1>2 DEF SourceFits
  <1>6. items \in Seq(Entry) /\ read = <<>>
    BY <1>1 DEF SerialInv, ReadFits
  <1>7. Len(read) = 0 /\ read \in Seq({i.value : i \in Item}) /\ Len(items) \in Nat
    BY <1>6, EmptySeq, LenProperties
  <1>8. ReadFits' /\ FailureFits'
    <2>1. failed = "none"
      BY <1>1 DEF SerialInv, FailureFits
    <2> QED
      BY <1>1, <1>6, <1>7, <2>1 DEF ReadFits, FailureFits
  <1>9. ItemsAreStored'
    <2>1. PICK starts : /\ Starts(starts, items) /\ Holds(b, starts, items)
      BY <1>1 DEF SerialInv, ItemsAreStored, Holder
    <2>2. Holds(Holder', starts, items)
      <3>1. CASE b.size = 0
        <4>1. Holder' = reset
          BY <1>1, <1>2, <3>1 DEF Holder
        <4>2. starts[Len(items) + 1] = 0
          BY <2>1, <3>1 DEF Holds
        <4> QED
          BY <1>3, <1>6, <2>1, <4>1, <4>2, EmptyHolds
      <3>2. CASE b.size # 0
        <4>1. Holder' = b
          BY <1>1, <3>2 DEF Holder
        <4> QED
          BY <2>1, <4>1
      <3> QED
        BY <3>1, <3>2
    <2>3. starts[1] = 0 /\ Len(read') + 1 = 1
      BY <1>1, <1>7, <2>1 DEF Starts
    <2>4. /\ Starts(starts, items') /\ Holds(Holder', starts, items')
          /\ source'.m_progress = starts[Len(read') + 1]
      BY <1>1, <2>1, <2>2, <2>3
    <2> QED
      BY <2>4 DEF ItemsAreStored, Starts, Holds, Fits, Capacity
  <1> QED
    BY <1>4, <1>5, <1>8, <1>9 DEF SerialInv

(* What an entry is read as, from a source that stands where it starts.       *)
ReadEntry(entry, src) ==
    /\ src.m_data = source.m_data /\ src.m_progress = source.m_progress + Len(BytesAt(entry))
    /\ read' = Append(read, entry.item.value) /\ source' = src
    /\ UNCHANGED <<sink, items, failed>>

LEMMA EntryIsRead ==
    ASSUME NEW entry \in Entry, SourceFits, StandsAt(source, BytesAt(entry)),
           \/ entry.item.kind = "number" /\ DeserializeNumber(entry.item, entry.order, entry.item.wide)
           \/ entry.item.kind = "string" /\ DeserializeString(Len(entry.item.value))
           \/ entry.item.kind = "chars" /\ DeserializeChars
    PROVE  \/ ReadEntry(entry, Consume(source, Len(BytesAt(entry))))
           \/ /\ entry.item.kind = "number" /\ entry.item.size < entry.item.wide
              /\ UNCHANGED <<sink, source, items, read>>
  <1> DEFINE bytes == BytesAt(entry)
             item == entry.item
  <1>1. bytes \in Seq(Byte) /\ Len(bytes) \in Nat
    BY BytesOfEntry
  <1>2. /\ Peek(source, Len(bytes)) = bytes /\ Len(bytes) <= Available(source)
        /\ Available(source) \in Nat
    BY <1>1, PeekIsBytes
  <1>3. ASSUME NEW value, value = item.value, read' = Append(read, value),
               source' = Consume(source, Len(bytes)), UNCHANGED <<sink, items, failed>>
        PROVE  ReadEntry(entry, Consume(source, Len(bytes)))
    <2>1. LET src == Consume(source, Len(bytes))
          IN src.m_data = source.m_data /\ src.m_progress = source.m_progress + Len(bytes)
      BY DEF SourceFits, Consume
    <2> QED
      BY <1>3, <2>1 DEF ReadEntry
  <1>4. CASE item.kind = "number" /\ DeserializeNumber(item, entry.order, item.wide)
    <2>1. /\ Len(bytes) = item.size /\ item.size \in Nat /\ item.wide \in Nat
          /\ FromBytes(bytes, item.signed, entry.order) = item.value
      BY <1>4, NumberBytes
    <2>2. CASE Available(source) < item.wide
      <3>1. item.size < item.wide
        BY <1>2, <2>1, <2>2
      <3> QED
        BY <1>4, <2>2, <3>1 DEF DeserializeNumber
    <2>3. CASE ~(Available(source) < item.wide)
      <3>1. /\ read' = Append(read, FromBytes(Peek(source, item.size), item.signed, entry.order))
            /\ source' = Consume(source, item.size) /\ UNCHANGED <<sink, items, failed>>
        BY <1>4, <2>3 DEF DeserializeNumber
      <3>2. FromBytes(Peek(source, item.size), item.signed, entry.order) = item.value
        BY <1>2, <2>1
      <3> QED
        BY <1>3, <2>1, <3>1, <3>2
    <2> QED
      BY <2>2, <2>3
  <1>5. CASE item.kind = "string" /\ DeserializeString(Len(item.value))
    <2>1. bytes = item.value
      BY <1>5, StringBytes
    <2>2. /\ read' = Append(read, Peek(source, Len(item.value)))
          /\ source' = Consume(source, Len(item.value)) /\ UNCHANGED <<sink, items, failed>>
      BY <1>5 DEF DeserializeString
    <2> QED
      BY <1>2, <1>3, <2>1, <2>2
  <1>6. CASE item.kind = "chars" /\ DeserializeChars
    <2> DEFINE zero == Min({k \in 1 .. Available(source) : Peek(source, k)[k] = 0})
    <2>1. /\ item.value \in Seq(Byte \ {0}) /\ Len(bytes) = Len(item.value) + 1
          /\ \A k \in 1 .. Len(item.value) : bytes[k] = item.value[k]
          /\ bytes[Len(item.value) + 1] = 0
      BY <1>6, CharsBytes
    <2>2. zero = Len(bytes) /\ Peek(source, zero - 1) = item.value
      BY <1>1, <2>1, CharsAreRead
    <2>3. /\ read' = Append(read, Peek(source, zero - 1)) /\ source' = Consume(source, zero)
          /\ UNCHANGED <<sink, items, failed>>
      BY <1>6 DEF DeserializeChars
    <2> HIDE DEF zero
    <2> QED
      BY <1>3, <2>2, <2>3
  <1> QED
    BY <1>4, <1>5, <1>6

LEMMA DeserializeStep ==
    ASSUME SerialInv, Deserialize
    PROVE  SerialInv'
  <1> DEFINE n == Len(read)
             entry == items[n + 1]
             bytes == BytesAt(entry)
  <1>1. /\ items \in Seq(Entry) /\ read \in Seq({item.value : item \in Item})
        /\ Len(read) <= Len(items) /\ \A k \in 1 .. Len(read) : read[k] = items[k].item.value
    BY DEF SerialInv, ReadFits
  <1>2. source.m_data.size # 0 /\ Len(read) < Len(items) /\ failed = "none"
    BY DEF Deserialize, SerialInv, SourceFits, BufferType
  <1>3. n \in Nat /\ n \in 0 .. Len(items) - 1 /\ n + 1 \in 1 .. Len(items) /\ entry \in Entry
    <2>1. Len(read) \in Nat /\ Len(items) \in Nat
      BY <1>1, LenProperties
    <2>2. n \in Nat /\ n \in 0 .. Len(items) - 1 /\ n + 1 \in 1 .. Len(items)
      BY <1>2, <2>1
    <2> QED
      BY <1>1, <2>2, ElementOfSeq
  <1>4. PICK starts : /\ Starts(starts, items) /\ Holds(source.m_data, starts, items)
                     /\ source.m_progress = starts[n + 1]
    BY <1>2 DEF SerialInv, ItemsAreStored, Holder
  <1>5. StandsAt(source, bytes) /\ starts[n + 2] = source.m_progress + Len(bytes)
    BY <1>1, <1>3, <1>4, EntryIsNext
  <1>6. \/ entry.item.kind = "number" /\ DeserializeNumber(entry.item, entry.order, entry.item.wide)
        \/ entry.item.kind = "string" /\ DeserializeString(Len(entry.item.value))
        \/ entry.item.kind = "chars" /\ DeserializeChars
    BY DEF Deserialize
  <1> HIDE DEF n, entry
  <1>7. SourceFits
    BY DEF SerialInv
  <1>8. \/ ReadEntry(entry, Consume(source, Len(bytes)))
        \/ /\ entry.item.kind = "number" /\ entry.item.size < entry.item.wide
           /\ UNCHANGED <<sink, source, items, read>>
    BY <1>3, <1>5, <1>6, <1>7, EntryIsRead
  <1>9. CASE ReadEntry(entry, Consume(source, Len(bytes)))
    <2> DEFINE src == Consume(source, Len(bytes))
    <2>1. /\ src.m_data = source.m_data /\ src.m_progress = source.m_progress + Len(bytes)
          /\ read' = Append(read, entry.item.value) /\ source' = src
          /\ sink' = sink /\ items' = items /\ failed' = failed
      BY <1>9 DEF ReadEntry
    <2>2. SinkFits'
      BY <2>1 DEF SerialInv, SinkFits, Fits, Capacity
    <2>3. SourceFits'
      <3>1. src = [source EXCEPT !.m_progress = @ + Len(bytes)]
        BY DEF Consume
      <3>2. Len(bytes) \in Nat
        BY <1>3, BytesOfEntry
      <3> HIDE DEF src, bytes
      <3>3. src \in [m_data : BufferType, m_progress : Nat]
        BY <1>7, <3>1, <3>2 DEF SourceFits
      <3> QED
        BY <2>1, <3>3 DEF SourceFits
    <2> HIDE DEF src, bytes
    <2>4. /\ Len(read') = n + 1 /\ read' \in Seq({item.value : item \in Item})
          /\ read'[n + 1] = entry.item.value /\ \A k \in 1..n : read'[k] = read[k]
      <3>1. entry.item.value \in {item.value : item \in Item}
        BY <1>3 DEF Entry
      <3> QED
        BY <1>1, <2>1, <3>1, AppendProperties DEF n
    <2>5. ReadFits'
      <3>1. Len(read') <= Len(items')
        BY <1>1, <1>3, <2>1, <2>4, LenProperties
      <3>2. ASSUME NEW k \in 1 .. n + 1 PROVE read'[k] = items[k].item.value
        <4>1. CASE k = n + 1
          BY <2>4, <4>1 DEF entry
        <4>2. CASE k # n + 1
          <5>1. k \in 1..n
            BY <1>3, <4>2
          <5> QED
            BY <1>1, <2>4, <5>1 DEF n
        <4> QED
          BY <4>1, <4>2
      <3>3. source'.m_data.size # 0
        BY <1>2, <2>1
      <3> QED
        BY <1>1, <2>1, <2>4, <3>1, <3>2, <3>3 DEF ReadFits
    <2>6. FailureFits'
      BY <1>2, <2>1 DEF FailureFits
    <2>7. ItemsAreStored'
      <3>1. Holder' = source.m_data
        BY <1>2, <2>1 DEF Holder
      <3>2. (n + 1) + 1 = n + 2
        BY <1>3
      <3>3. /\ Starts(starts, items') /\ Holds(Holder', starts, items')
            /\ source'.m_progress = starts[Len(read') + 1]
        BY <1>4, <1>5, <2>1, <2>4, <3>1, <3>2
      <3> QED
        BY <3>3 DEF ItemsAreStored, Starts, Holds, Fits, Capacity
    <2> QED
      BY <2>2, <2>3, <2>5, <2>6, <2>7 DEF SerialInv
  <1>10. CASE /\ entry.item.kind = "number" /\ entry.item.size < entry.item.wide
              /\ UNCHANGED <<sink, source, items, read>>
    <2>1. SinkFits' /\ SourceFits' /\ ReadFits'
      BY <1>10 DEF SerialInv, SinkFits, SourceFits, ReadFits, Fits, Capacity
    <2>2. FailureFits'
      BY <1>2, <1>10 DEF FailureFits, entry, n
    <2>3. ItemsAreStored'
      <3>1. Holder' = source.m_data
        BY <1>2, <1>10 DEF Holder
      <3>2. /\ Starts(starts, items') /\ Holds(Holder', starts, items')
            /\ source'.m_progress = starts[Len(read') + 1]
        BY <1>4, <1>10, <3>1 DEF n
      <3> QED
        BY <3>2 DEF ItemsAreStored, Starts, Holds, Fits, Capacity
    <2> QED
      BY <2>1, <2>2, <2>3 DEF SerialInv
  <1> QED
    BY <1>8, <1>9, <1>10

LEMMA SerialStep == SerialInv /\ [SerialNext]_serial_vars => SerialInv'
  <1> SUFFICES ASSUME SerialInv, [SerialNext]_serial_vars PROVE SerialInv'
    OBVIOUS
  <1>1. ASSUME NEW item \in Item, NEW order \in {"be", "le"}, Serialize(item, order)
        PROVE  SerialInv'
    BY <1>1, SerializeStep DEF Order
  <1>2. CASE SinkToSource
    BY <1>2, SinkToSourceStep
  <1>3. CASE Deserialize
    BY <1>3, DeserializeStep
  <1>4. CASE UNCHANGED serial_vars
    BY <1>4 DEF serial_vars, SerialInv, SinkFits, SourceFits, ReadFits, FailureFits, ItemsAreStored,
                Holder, Starts, Holds, Fits, Capacity
  <1> QED
    BY <1>1, <1>2, <1>3, <1>4 DEF SerialNext
=============================================================================
