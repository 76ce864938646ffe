--------------------------------- MODULE Uri ----------------------------------
(***************************************************************************)
(* hlib_uri.cpp: a URI is taken apart and put together again, character by   *)
(* character, because what may go wrong is which delimiter belongs to which  *)
(* part.  Digit are the characters of the digits, so that their number is    *)
(* the base of port numbers; ports go up to MaxPort (65535 in the code).     *)
(***************************************************************************)
EXTENDS Integers, Sequences, SequencesExt, FiniteSetsExt

CONSTANTS
    Digit,          \* a sequence of characters
    MaxPort,
    DefaultPort     \* a function from schemes with a default port to that port

ASSUME PortsAreValid == MaxPort \in Nat /\ Len(Digit) >= 2

FirstOf(s, chars, from) ==
    LET at == {k \in from .. Len(s) : s[k] \in chars}
    IN IF at = {} THEN Len(s) + 1 ELSE Min(at)

LastOf(s, c) == LET at == {k \in 1 .. Len(s) : s[k] = c} IN IF at = {} THEN 0 ELSE Max(at)

IsPort(s) == s # <<>> /\ \A k \in 1..Len(s) : s[k] \in ToSet(Digit)

(* stoui16() of decimal digits. *)
PortOf(s) ==
    LET step(n, c) == n * Len(Digit) + SelectInSeq(Digit, LAMBDA d : d = c) - 1
    IN FoldLeft(step, 0, s)

(* Mutant of PortString: the digits come in the opposite order.               *)
PortReversed(n) ==
    LET digits[k \in 0..MaxPort] ==
            LET last == Digit[(k % Len(Digit)) + 1]
            IN IF k < Len(Digit) THEN <<last>> ELSE <<last>> \o digits[k \div Len(Digit)]
    IN digits[n]

(* format_to("%u"). *)
PortString(n) ==
    LET digits[k \in 0..MaxPort] ==
            LET last == Digit[(k % Len(Digit)) + 1]
            IN IF k < Len(Digit) THEN <<last>> ELSE Append(digits[k \div Len(Digit)], last)
    IN digits[n]

GetDefaultPort(scheme) == IF scheme \in DOMAIN DefaultPort THEN DefaultPort[scheme] ELSE 0

-----------------------------------------------------------------------------
(* [user_info@]host[:port].  What follows the last colon is a port only if it *)
(* is a number of 16 bits; otherwise it stays with the host.                  *)
ParseAuthority(authority) ==
    LET at == FirstOf(authority, {"@"}, 1)
        user_info == IF at <= Len(authority) THEN SubSeq(authority, 1, at - 1) ELSE <<>>
        rest == IF at <= Len(authority) THEN SubSeq(authority, at + 1, Len(authority)) ELSE authority
        colon == LastOf(rest, ":")
        port == SubSeq(rest, colon + 1, Len(rest))
        has_port == colon # 0 /\ IsPort(port) /\ PortOf(port) <= MaxPort
    IN [user_info |-> user_info,
        host |-> IF has_port THEN SubSeq(rest, 1, colon - 1) ELSE rest,
        port |-> IF has_port THEN PortOf(port) ELSE 0]

(* uri_parse(): the regular expression of RFC 3986, appendix B.               *)
Parse(s) ==
    LET colon == FirstOf(s, {":", "/", "?", "#"}, 1)
        has_scheme == 1 < colon /\ colon <= Len(s) /\ s[colon] = ":"
        scheme == IF has_scheme THEN SubSeq(s, 1, colon - 1) ELSE <<>>
        behind == IF has_scheme THEN colon + 1 ELSE 1
        has_authority == IsPrefix(<<"/", "/">>, SubSeq(s, behind, Len(s)))
        path == IF has_authority THEN FirstOf(s, {"/", "?", "#"}, behind + 2) ELSE behind
        query == FirstOf(s, {"?", "#"}, path)
        fragment == FirstOf(s, {"#"}, path)
        authority == ParseAuthority(IF has_authority THEN SubSeq(s, behind + 2, path - 1) ELSE <<>>)
    IN [scheme |-> scheme, user_info |-> authority.user_info, host |-> authority.host,
        port |-> IF authority.port = 0 THEN GetDefaultPort(scheme) ELSE authority.port,
        path |-> IF query = path THEN <<"/">> ELSE SubSeq(s, path, query - 1),
        query |-> SubSeq(s, query + 1, fragment - 1),
        fragment |-> SubSeq(s, fragment + 1, Len(s))]

-----------------------------------------------------------------------------
Prefixed(c, s) == IF s = <<>> THEN <<>> ELSE <<c>> \o s

GetHostPort(uri) ==
    uri.host \o (IF uri.port # 0 /\ uri.port # GetDefaultPort(uri.scheme)
                 THEN <<":">> \o PortString(uri.port) ELSE <<>>)

GetPathQueryFragment(uri) ==
    uri.path \o Prefixed("?", uri.query) \o Prefixed("#", uri.fragment)

(* to_string(): without a host, neither user_info nor port are written.       *)
UriString(uri) ==
    (IF uri.scheme = <<>> THEN <<>> ELSE Append(uri.scheme, ":"))
        \o (IF uri.host = <<>> THEN <<>>
            ELSE <<"/", "/">>
                     \o (IF uri.user_info = <<>> THEN <<>> ELSE Append(uri.user_info, "@"))
                     \o GetHostPort(uri))
        \o (IF uri.path = <<>> THEN <<"/">> ELSE uri.path)
        \o Prefixed("?", uri.query) \o Prefixed("#", uri.fragment)

(* The parts of a request's target.  The first "?" starts the query, even     *)
(* inside the fragment.                                                       *)
TargetPath(t) == SubSeq(t, 1, FirstOf(t, {"?", "#"}, 1) - 1)

TargetQuery(t) ==
    LET start == FirstOf(t, {"?"}, 1) + 1
    IN SubSeq(t, start, FirstOf(t, {"#"}, start) - 1)

TargetFragment(t) == SubSeq(t, FirstOf(t, {"#"}, 1) + 1, Len(t))
=============================================================================
