-------------------------------- MODULE Usage ---------------------------------
(***************************************************************************)
(* hlib::Usage: options and arguments of a command line.  An argument that   *)
(* starts with "-" is an option, brief (one dash) or extended (two), with a  *)
(* value behind "=", or in the next argument.                                *)
(*                                                                          *)
(* usage.options is a sequence of [brief, extended, takes, type, default];   *)
(* NoName stands for a brief 0 or an empty extended.  takes is "arg_name is  *)
(* not empty".  argv holds what follows the executable: the code's argv[i]   *)
(* is argv[i] here, and argc is Len(argv) + 1.                               *)
(***************************************************************************)
EXTENDS Integers, Sequences, SequencesExt, FiniteSetsExt

CONSTANTS
    NoName,         \* an empty name
    NoValue,        \* an empty value
    Converts(_, _)  \* whether a value converts to the type of an option

(* The first option of that name, or an index behind the last one.  "--"      *)
(* alone is the name "", which every option without an extended name has.     *)
Match(options, arg) ==
    LET named == {k \in 1..Len(options) :
                     IF arg.dashes = 1
                     THEN options[k].brief = arg.name /\ arg.name # NoName
                     ELSE options[k].extended = arg.name}
    IN IF named = {} THEN Len(options) + 1 ELSE Min(named)

(* The state of the loop over the options: i is the argument it looks at.     *)
Start(usage) ==
    [i |-> 1, error |-> "none",
     set |-> [k \in 1..Len(usage.options) |-> FALSE],
     values |-> [k \in 1..Len(usage.options) |-> usage.options[k].default],
     arguments |-> <<>>]

Fail(state, error) == [state EXCEPT !.error = error]

Store(usage, state, index, value) ==
    LET type == usage.options[index].type
        values == [state.values EXCEPT ![index] = value]
    IN CASE type = "none" -> Fail(state, "takes_no_argument")
         [] type # "none" /\ ~Converts(value, type) -> Fail(state, "invalid_argument")
         [] OTHER -> [state EXCEPT !.values = values, !.i = @ + 1]

(* Mutant of Take: the value behind "=" is not looked at.                     *)
TakeNext(usage, argv, state, index) ==
    CASE ~usage.options[index].takes -> [state EXCEPT !.i = @ + 1]
      [] usage.options[index].takes /\ index >= Len(argv) + 1 -> Fail(state, "requires_argument")
      [] usage.options[index].takes /\ index < Len(argv) + 1 /\ state.i = Len(argv) ->
             Fail(state, "undefined")
      [] OTHER -> Store(usage, [state EXCEPT !.i = @ + 1], index, argv[state.i + 1].text)

(* The value of the option index (counted from one here).  The test compares  *)
(* the index of the option, not of the argument, with argc; the null pointer  *)
(* that ends argv is then read as a string.                                   *)
Take(usage, argv, state, index) ==
    LET arg == argv[state.i]
        here == arg.value # NoValue
        takes == usage.options[index].takes
    IN CASE ~takes -> [state EXCEPT !.i = @ + 1]
         [] takes /\ here -> Store(usage, state, index, arg.value)
         [] takes /\ ~here /\ index >= Len(argv) + 1 -> Fail(state, "requires_argument")
         [] takes /\ ~here /\ index < Len(argv) + 1 /\ state.i = Len(argv) ->
                Fail(state, "undefined")
         [] OTHER -> Store(usage, [state EXCEPT !.i = @ + 1], index, argv[state.i + 1].text)

ParseOption(usage, argv, state) ==
    LET index == Match(usage.options, argv[state.i])
        set == [state.set EXCEPT ![index] = TRUE]
    IN IF index > Len(usage.options) THEN Fail(state, "invalid_option")
       ELSE Take(usage, argv, [state EXCEPT !.set = set], index)

(* A turn of the loop, which ends at what is not an option.                  *)
ParseNext(usage, argv, state) ==
    IF state.error # "none" \/ state.i > Len(argv) \/ argv[state.i].dashes = 0
    THEN state ELSE ParseOption(usage, argv, state)

ParseOptions(usage, argv) ==
    LET loop[n \in 0..Len(argv)] ==
            IF n = 0 THEN Start(usage) ELSE ParseNext(usage, argv, loop[n - 1])
    IN loop[Len(argv)]

(* parse(): what remains are the arguments, the named ones first.             *)
ParseUsage(usage, argv) ==
    LET state == ParseOptions(usage, argv)
        rest == SubSeq(argv, state.i, Len(argv))
        named == Min({Len(rest), Len(usage.arguments)})
        optional == \E k \in 1..Min({named + 1, Len(usage.arguments)}) : usage.arguments[k].optional
        found == [state EXCEPT !.arguments = SubSeq(rest, 1, named)]
    IN CASE state.error # "none" -> state
         [] state.error = "none" /\ named < Len(usage.arguments) /\ ~optional ->
                Fail(found, "missing_argument")
         [] state.error = "none" /\ (named = Len(usage.arguments) \/ optional)
                /\ Len(rest) > named /\ ~usage.varargs -> Fail(found, "too_many_arguments")
         [] OTHER -> [state EXCEPT !.arguments = rest]

(* has(): asked for the options of a name; get() returns the value of the     *)
(* first of them.                                                            *)
Has(usage, state, named) ==
    \E k \in 1..Len(usage.options) : usage.options[k] \in named /\ state.set[k]

GetValue(usage, state, named) ==
    LET found == {k \in 1..Len(usage.options) : usage.options[k] \in named}
    IN IF found = {} THEN NoValue ELSE state.values[Min(found)]

HasArgument(state, index) == index <= Len(state.arguments)

(* The usage that toString() shows: the names of the arguments, and the       *)
(* number of brackets that are open behind each of them.                      *)
ArgumentsShown(usage) ==
    [k \in 1..Len(usage.arguments) |->
        [name |-> usage.arguments[k].name,
         open |-> Cardinality({j \in 1..k : usage.arguments[j].optional})]]
=============================================================================
