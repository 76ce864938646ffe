---------------------------- MODULE StreamContract ----------------------------
(***************************************************************************)
(* What FileDescriptorIO and Socket promise of output: requests are numbered *)
(* as they are made, and while the stream is open their bytes go out one     *)
(* request after the other, each whole before the next begins.  To close it  *)
(* drops what is left, all of it.                                            *)
(***************************************************************************)
EXTENDS Naturals, Sequences

CONSTANT Sizes      \* the sizes of requests

VARIABLES
    open,
    pending,        \* the requests that are not written, as [id, size]
    sent,           \* how much of the first one is
    issued,         \* requests made so far
    output          \* the request of every byte written since it was opened

vars == <<open, pending, sent, issued, output>>

Init == open = FALSE /\ pending = <<>> /\ sent = 0 /\ issued = 0 /\ output = <<>>

(* An opening starts afresh, or fails.  What was requested of a stream that   *)
(* was closed may be kept; none of it has been written.                      *)
Open ==
    /\ open' \in BOOLEAN
    /\ pending' = <<>> \/ (pending' = pending /\ ~open)
    /\ sent' = 0
    /\ output' = <<>>
    /\ UNCHANGED issued

Request(size) ==
    /\ issued' = issued + 1
    /\ pending' = Append(pending, [id |-> issued + 1, size |-> size])
    /\ UNCHANGED <<open, sent, output>>

Write(count) ==
    /\ open
    /\ output' = output \o [k \in 1..count |-> pending[1].id]
    /\ IF sent + count < pending[1].size
         THEN sent' = sent + count /\ UNCHANGED pending
         ELSE sent' = 0 /\ pending' = Tail(pending)
    /\ UNCHANGED <<open, issued>>

Close ==
    /\ open' = FALSE /\ pending' = <<>> /\ sent' = 0
    /\ UNCHANGED <<issued, output>>

Next ==
    \/ Open \/ Close
    \/ \E size \in Sizes : Request(size)
    \/ pending # <<>> /\ \E count \in 0 .. pending[1].size - sent : Write(count)

Spec == Init /\ [][Next]_vars
=============================================================================
