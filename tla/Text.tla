--------------------------------- MODULE Text ---------------------------------
(***************************************************************************)
(* The functions on strings of hlib_string.cpp.  A string is a sequence of   *)
(* characters; Lower is std::tolower() on them.                              *)
(***************************************************************************)
EXTENDS Integers, Sequences, SequencesExt, FiniteSetsExt

CONSTANTS Lower     \* a function from the upper-case characters to theirs

NPos == 0           \* std::string::npos: positions count from one here

(* std::string::find(): the first occurrence at or after a position.          *)
OccursAt(s, sub, k) == SubSeq(s, k, k + Len(sub) - 1) = sub

Find(s, sub, from) ==
    LET at == {k \in from .. Len(s) - Len(sub) + 1 : OccursAt(s, sub, k)}
    IN IF at = {} THEN NPos ELSE Min(at)

ToLower(s) == [k \in 1..Len(s) |-> IF s[k] \in DOMAIN Lower THEN Lower[s[k]] ELSE s[k]]

Iequals(lhs, rhs) == Len(lhs) = Len(rhs) /\ ToLower(lhs) = ToLower(rhs)

StartsWith(s, sub) == Len(s) >= Len(sub) /\ OccursAt(s, sub, 1)

EndsWith(s, sub) == Len(s) >= Len(sub) /\ OccursAt(s, sub, Len(s) - Len(sub) + 1)

ContainsText(s, sub) == Find(s, sub, 1) # NPos

(* Goes on behind an occurrence; an empty substring never lets it end.        *)
CountText(s, sub) ==
    LET from[pos \in 1 .. Len(s) + 1] ==
            LET k == Find(s, sub, pos)
            IN IF k = NPos THEN 0 ELSE 1 + from[k + Len(sub)]
    IN from[1]

TrimLeft(s, chars) ==
    LET kept == {k \in 1..Len(s) : s[k] \notin chars}
    IN IF kept = {} THEN <<>> ELSE SubSeq(s, Min(kept), Len(s))

(* pos counts the characters to drop from the end. *)
TrimRight(s, chars) ==
    LET pos[k \in 0..Len(s)] == IF k = 0 \/ s[k] \notin chars THEN 0 ELSE 1 + pos[k - 1]
    IN SubSeq(s, 1, Len(s) - pos[Len(s)])

Trim(s, chars) == TrimRight(TrimLeft(s, chars), chars)

(* Mutant of Split: the last token is dropped when it is empty.               *)
SplitWithoutTail(s, delimiters, filter_empty) ==
    LET step(acc, c) ==
            IF c \notin delimiters THEN [acc EXCEPT !.token = Append(@, c)]
            ELSE [tokens |-> IF acc.token # <<>> \/ ~filter_empty
                             THEN Append(acc.tokens, acc.token) ELSE acc.tokens,
                  token |-> <<>>]
        end == FoldLeft(step, [tokens |-> <<>>, token |-> <<>>], s)
    IN IF end.token # <<>> THEN Append(end.tokens, end.token) ELSE end.tokens

(* split(): a token that was moved into the result is empty again.            *)
Split(s, delimiters, filter_empty) ==
    LET step(acc, c) ==
            IF c \notin delimiters THEN [acc EXCEPT !.token = Append(@, c)]
            ELSE [tokens |-> IF acc.token # <<>> \/ ~filter_empty
                             THEN Append(acc.tokens, acc.token) ELSE acc.tokens,
                  token |-> <<>>,
                  count |-> acc.count + 1]
        end == FoldLeft(step, [tokens |-> <<>>, token |-> <<>>, count |-> 0], s)
    IN IF end.token # <<>> \/ (end.count > 0 /\ ~filter_empty)
       THEN Append(end.tokens, end.token) ELSE end.tokens

Join(strings, separator) ==
    IF strings = <<>> THEN <<>>
    ELSE FlattenSeq([k \in 1 .. Len(strings) - 1 |-> strings[k] \o separator])
             \o Last(strings)

(* join() of a container, through a Buffer. *)
JoinFormatted(values, separator, formatter) ==
    LET step(acc, v) == [string |-> acc.string \o (IF acc.separate THEN separator ELSE <<>>)
                                        \o formatter[v],
                         separate |-> TRUE]
    IN FoldLeft(step, [string |-> <<>>, separate |-> FALSE], values).string

Fill(n, c) == [k \in 1..n |-> c]

FillLeft(s, length, c) == Fill(Max({Len(s), length}) - Len(s), c) \o s

FillRight(s, length, c) == s \o Fill(Max({Len(s), length}) - Len(s), c)

(* replace(): the first occurrence only. *)
ReplaceText(s, literal, value) ==
    LET k == Find(s, literal, 1)
    IN IF k = NPos THEN s
       ELSE SubSeq(s, 1, k - 1) \o value \o SubSeq(s, k + Len(literal), Len(s))
=============================================================================
