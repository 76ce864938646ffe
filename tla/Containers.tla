------------------------------ MODULE Containers ------------------------------
(***************************************************************************)
(* hlib::container.  A sequence container is a sequence; an associative one  *)
(* is the sequence of its pairs <<key, value>> in the order of iteration, a  *)
(* multimap has several pairs with one key.                                  *)
(***************************************************************************)
EXTENDS Integers, Sequences, SequencesExt, FiniteSetsExt

(* contains(): std::find(), or for pairs the search in equal_range().         *)
ContainsValue(container, value) == \E k \in 1..Len(container) : container[k] = value

EqualRange(container, key) == {k \in 1..Len(container) : container[k][1] = key}

ContainsPair(container, pair) ==
    \E k \in EqualRange(container, pair[1]) : container[k] = pair

ContainsKey(container, key) == EqualRange(container, key) # {}

(* replace() and find_or_default() of a map: find() gives the first.  What    *)
(* replace() refers to is undefined when it has inserted: it is still end().  *)
CONSTANT Undefined

ReplaceValue(map, key, value) ==
    IF ContainsKey(map, key)
    THEN [map |-> [map EXCEPT ![Min(EqualRange(map, key))] = <<key, value>>],
          result |-> value]
    ELSE LET below == Cardinality({k \in 1..Len(map) : map[k][1] < key})
         IN [map |-> SubSeq(map, 1, below) \o <<<<key, value>>>>
                         \o SubSeq(map, below + 1, Len(map)),
             result |-> Undefined]

FindOrDefault(map, key, default_value) ==
    IF ContainsKey(map, key) THEN map[Min(EqualRange(map, key))][2] ELSE default_value

(* The order of iteration of a std::set of integers. *)
Sorted(set) ==
    [k \in 1..Cardinality(set) |->
        CHOOSE value \in set : Cardinality({other \in set : other < value}) = k - 1]

MakeUnion(lhs, rhs) == Sorted(ToSet(lhs) \cup ToSet(rhs))

(* Mutant of MakeIntersection: a value that was found is not erased.          *)
IntersectionRepeats(lhs, rhs) ==
    SelectSeq(rhs, LAMBDA value : value \in ToSet(lhs))

(* In the order of rhs, with push_back(); each value once, because it is      *)
(* erased from the set of lhs when it is found.                               *)
MakeIntersection(lhs, rhs) ==
    LET found[k \in 0..Len(rhs)] ==
            IF k = 0 THEN [set |-> ToSet(lhs), result |-> <<>>]
            ELSE IF rhs[k] \in found[k - 1].set
                 THEN [set |-> found[k - 1].set \ {rhs[k]},
                       result |-> Append(found[k - 1].result, rhs[k])]
                 ELSE found[k - 1]
    IN found[Len(rhs)].result

(* make_complement(): what is in one of them and not in the other.            *)
MakeComplement(lhs, rhs) ==
    Sorted((ToSet(lhs) \ ToSet(rhs)) \cup (ToSet(rhs) \ ToSet(lhs)))
=============================================================================
