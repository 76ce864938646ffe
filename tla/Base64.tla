-------------------------------- MODULE Base64 --------------------------------
(***************************************************************************)
(* base64_encode() and base64_decode() of hlib_string.cpp.  A character of   *)
(* the table is its index, the padding is Pad.  The bytes that               *)
(* base64_decode() adds to the buffer and does not write are NotWritten.      *)
(***************************************************************************)
EXTENDS Integers, Sequences, SequencesExt

Pad == 64
NotWritten == -1

EncodedLength(size) == ((size + 2) \div 3) * 4

(* The first three characters of a chunk of one to three bytes.               *)
Char1(c) == c[1] \div 4
Char2(c) == (c[1] % 4) * 16 + (IF Len(c) > 1 THEN c[2] \div 16 ELSE 0)
Char3(c) == (c[2] % 16) * 4 + (IF Len(c) > 2 THEN c[3] \div 64 ELSE 0)

EncodeChunk(c) ==
    CASE Len(c) = 3 -> <<Char1(c), Char2(c), Char3(c), c[3] % 64>>
      [] Len(c) = 2 -> <<Char1(c), Char2(c), Char3(c), Pad>>
      [] Len(c) = 1 -> <<Char1(c), Char2(c), Pad, Pad>>

Chunk(s, size, k) == SubSeq(s, size * (k - 1) + 1, IF size * k < Len(s) THEN size * k ELSE Len(s))

Encode(data) ==
    FlattenSeq([k \in 1 .. EncodedLength(Len(data)) \div 4 |-> EncodeChunk(Chunk(data, 3, k))])

-----------------------------------------------------------------------------
DecodedSize(length) == 3 * (length \div 4) + 2

DecodeChar(c) == IF c = Pad THEN 63 ELSE c

Decode2(s) == <<((DecodeChar(s[1]) * 4) % 256) + DecodeChar(s[2]) \div 16>>
Decode3(s) == Append(Decode2(s), (DecodeChar(s[2]) % 16) * 16 + DecodeChar(s[3]) \div 4)
Decode4(s) == Append(Decode3(s), (DecodeChar(s[3]) % 4) * 64 + DecodeChar(s[4]))

(* Mutant of DecodeLast: padding is not looked at.                            *)
DecodeLastFull(s) ==
    CASE Len(s) = 4 -> Decode4(s)
      [] Len(s) = 3 -> Decode3(s)
      [] OTHER -> <<>>

(* The switch: the last four characters, or what is left without padding.     *)
DecodeLast(s) ==
    CASE Len(s) = 4 /\ s[4] # Pad -> Decode4(s)
      [] Len(s) = 4 /\ s[4] = Pad /\ s[3] # Pad -> Decode3(s)
      [] Len(s) = 4 /\ s[4] = Pad /\ s[3] = Pad -> Decode2(s)
      [] Len(s) = 3 -> Decode3(s)
      [] OTHER -> <<>>

(* The characters the loop leaves to the switch: one to four of them.         *)
Remaining(length) == IF length = 0 THEN 0 ELSE ((length - 1) % 4) + 1

Aborts(s) == Remaining(Len(s)) < 2      \* assert(0)

Written(s) ==
    LET full == (Len(s) - Remaining(Len(s))) \div 4
    IN FlattenSeq([k \in 1..full |-> Decode4(Chunk(s, 4, k))])
           \o DecodeLast(SubSeq(s, 4 * full + 1, Len(s)))

Decode(s) ==
    Written(s) \o [k \in 1 .. DecodedSize(Len(s)) - Len(Written(s)) |-> NotWritten]
=============================================================================
