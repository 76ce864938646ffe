------------------------------ MODULE Subprocess ------------------------------
(***************************************************************************)
(* hlib::Subprocess: a child with three pipes, each read or written by a     *)
(* FileDescriptorIO of an event loop.  With its own event loop, run()        *)
(* dispatches until a pipe is closed, and waits for the child; with its      *)
(* user's, run() returns, and the user reads, writes, closes and waits.      *)
(* The pipes block: a write returns when all of it is in the pipe.           *)
(***************************************************************************)
EXTENDS Integers, Sequences, FiniteSets

CONSTANTS
    Capacity,       \* bytes a pipe holds
    InputSizes,     \* the sizes of the sources for stdin
    MaxOutput,      \* bound: bytes the child writes to each of its pipes
    MaxCalls        \* bound: calls of read() and write() by the user

Pipe == {"StdIn", "StdOut", "StdErr"}
Output == {"StdOut", "StdErr"}

VARIABLES
    intern,         \* the event loop is the subprocess's own
    m_state, m_pid, \* m_pid: there is one
    pc,             \* the parent: "user", "dispatch", "write" or "writeHup" (the
                    \* event says that nobody reads), "wait", "reaped", "killed"
    open,           \* the parent's ends that are open
    sink,           \* the outputs that a sink is set for
    m_queue,        \* the bytes left of the sources for stdin
    interrupted,    \* an interrupt() that the loop has yet to see
    data,           \* per pipe: the bytes in it
    child,          \* "none", "running", a pipe that blocks it, "zombie", "reaped"
    ends,           \* the child's ends that are open
    closer,         \* history: the pipe whose onClose() came first
    wrote, got,     \* history, per output: bytes written, bytes in the sink
    calls

subprocessVars == <<intern, m_state, m_pid, pc, open, sink, m_queue, interrupted,
    data, child, ends, closer, wrote, got, calls>>

parent == <<m_state, m_pid, open, sink, m_queue, interrupted, closer, got, calls>>
outside == <<data, child, ends, wrote>>

SubprocessInit ==
    /\ intern \in BOOLEAN
    /\ m_state = "Idle" /\ m_pid = FALSE /\ pc = "user"
    /\ open = {} /\ sink = {} /\ m_queue = <<>> /\ interrupted = FALSE
    /\ data = [p \in Pipe |-> 0] /\ child = "none" /\ ends = {} /\ closer = {}
    /\ wrote = [p \in Output |-> 0] /\ got = [p \in Output |-> 0]
    /\ calls = 0

-----------------------------------------------------------------------------
(* The child: any program.  It reads, writes, closes, and exits or is killed, *)
(* which closes what is left; a read of an empty pipe and a write to a full   *)
(* one block.                                                                *)
MayRead == data["StdIn"] > 0 \/ "StdIn" \notin open

ChildBlocks(p) ==
    /\ child = "running" /\ p \in ends
    /\ IF p = "StdIn" THEN ~MayRead ELSE data[p] = Capacity
    /\ child' = p
    /\ UNCHANGED <<intern, pc, parent, data, ends, wrote>>

ChildUnblocks ==
    /\ child \in Pipe
    /\ IF child = "StdIn" THEN MayRead ELSE data[child] < Capacity
    /\ child' = "running"
    /\ UNCHANGED <<intern, pc, parent, data, ends, wrote>>

ChildReads ==
    /\ child = "running" /\ "StdIn" \in ends /\ data["StdIn"] > 0
    /\ data' = [data EXCEPT !["StdIn"] = @ - 1]
    /\ UNCHANGED <<intern, pc, parent, child, ends, wrote>>

ChildWrites(p) ==
    /\ child = "running" /\ p \in ends /\ p \in Output
    /\ wrote[p] < MaxOutput /\ data[p] < Capacity
    /\ data' = [data EXCEPT ![p] = @ + 1]
    /\ wrote' = [wrote EXCEPT ![p] = @ + 1]
    /\ UNCHANGED <<intern, pc, parent, child, ends>>

ChildCloses(p) ==
    /\ child = "running" /\ p \in ends
    /\ ends' = ends \ {p}
    /\ UNCHANGED <<intern, pc, parent, data, child, wrote>>

ChildExits ==
    /\ child = "running"
    /\ child' = "zombie" /\ ends' = {}
    /\ UNCHANGED <<intern, pc, parent, data, wrote>>

-----------------------------------------------------------------------------
(* run(): fork, open the descriptors, and with an event loop of its own set   *)
(* the source (an empty one if there is no input) and the minimal sinks, and *)
(* dispatch.  fork() may fail; an instance is not used again.                *)
Run(size) ==
    /\ pc = "user" /\ m_state = "Idle"
    /\ \/ /\ m_state' = "Running" /\ m_pid' = TRUE
          /\ child' = "running" /\ ends' = Pipe /\ open' = Pipe
          /\ m_queue' = IF intern THEN <<size>> ELSE <<>>
          /\ sink' = IF intern THEN Output ELSE {}
          /\ pc' = IF intern THEN "dispatch" ELSE "user"
       \/ /\ m_state' = "Failed"
          /\ UNCHANGED <<m_pid, child, ends, open, m_queue, sink, pc>>
    /\ UNCHANGED <<intern, interrupted, closer, data, wrote, got, calls>>

(* The user's event loop is run by the user. *)
Dispatching == pc = "dispatch" \/ (pc = "user" /\ ~intern)

(* onClose(): with an event loop of its own, interrupt it.                    *)
OnClose(p) ==
    /\ open' = open \ {p}
    /\ sink' = sink \ {p}
    /\ m_queue' = IF p = "StdIn" THEN <<>> ELSE m_queue
    /\ interrupted' = (interrupted \/ intern)
    /\ closer' = IF closer = {} THEN {p} ELSE closer

(* Mutant of ReadOutput: a pipe that is closed is closed before it is read.   *)
ReadLate(p) ==
    /\ Dispatching /\ p \in open \cap Output
    /\ (p \in sink /\ data[p] > 0) \/ p \notin ends
    /\ IF p \in sink /\ data[p] > 0 /\ p \in ends
         THEN /\ got' = [got EXCEPT ![p] = @ + data[p]]
              /\ data' = [data EXCEPT ![p] = 0]
              /\ sink' = sink \ {p}
              /\ UNCHANGED <<open, m_queue, interrupted, closer>>
         ELSE OnClose(p) /\ UNCHANGED <<got, data>>
    /\ UNCHANGED <<intern, m_state, m_pid, pc, child, ends, wrote, calls>>

(* An event of an output: a minimal sink takes what is in the pipe, and is    *)
(* done; if the child has closed the pipe, so does the parent.               *)
ReadOutput(p) ==
    /\ Dispatching /\ p \in open \cap Output
    /\ (p \in sink /\ data[p] > 0) \/ p \notin ends
    /\ IF p \in sink /\ data[p] > 0
         THEN got' = [got EXCEPT ![p] = @ + data[p]] /\ data' = [data EXCEPT ![p] = 0]
         ELSE UNCHANGED <<got, data>>
    /\ IF p \in ends THEN sink' = sink \ {p} /\ UNCHANGED <<open, m_queue, interrupted, closer>>
       ELSE OnClose(p)
    /\ UNCHANGED <<intern, m_state, m_pid, pc, child, ends, wrote, calls>>

(* An event of stdin: start the write() of the first source, which blocks.    *)
WriteBegin ==
    /\ Dispatching /\ "StdIn" \in open /\ m_queue # <<>>
    /\ data["StdIn"] < Capacity \/ "StdIn" \notin ends
    /\ pc' = IF "StdIn" \in ends THEN "write" ELSE "writeHup"
    /\ UNCHANGED <<intern, parent, outside>>

(* The write goes on.  Nobody reads the pipe any more: SIGPIPE.               *)
WriteSome ==
    /\ pc \in {"write", "writeHup"} /\ Head(m_queue) > 0
    /\ IF "StdIn" \notin ends
         THEN pc' = "killed" /\ UNCHANGED <<m_queue, data>>
         ELSE /\ data["StdIn"] < Capacity
              /\ m_queue' = [m_queue EXCEPT ![1] = @ - 1]
              /\ data' = [data EXCEPT !["StdIn"] = @ + 1]
              /\ UNCHANGED pc
    /\ UNCHANGED <<intern, m_state, m_pid, open, sink, interrupted, closer, got, calls,
                   child, ends, wrote>>

(* Mutant of WriteEnd: stdin stays open after the input.                      *)
WriteEndOpen ==
    /\ pc \in {"write", "writeHup"} /\ Head(m_queue) = 0
    /\ pc' = IF intern THEN "dispatch" ELSE "user"
    /\ m_queue' = Tail(m_queue)
    /\ UNCHANGED <<intern, m_state, m_pid, open, sink, interrupted, closer, got, calls,
                   outside>>

(* The write returns.  onWritten() closes the pipe, without onClose(); an     *)
(* event that is an error too goes on with callbackAndClose().               *)
WriteEnd ==
    /\ pc \in {"write", "writeHup"} /\ Head(m_queue) = 0
    /\ pc' = IF intern THEN "dispatch" ELSE "user"
    /\ IF pc = "writeHup" THEN OnClose("StdIn")
       ELSE /\ m_queue' = Tail(m_queue)
            /\ open' = IF intern THEN open \ {"StdIn"} ELSE open
            /\ UNCHANGED <<sink, interrupted, closer>>
    /\ UNCHANGED <<intern, m_state, m_pid, got, calls, outside>>

(* An error of stdin, with nothing to write. *)
InputClosed ==
    /\ Dispatching /\ "StdIn" \in open \ ends /\ m_queue = <<>>
    /\ OnClose("StdIn")
    /\ UNCHANGED <<intern, m_state, m_pid, pc, got, calls, outside>>

(* dispatch() sees the interrupt, and run() calls wait().                     *)
DispatchEnds ==
    /\ pc = "dispatch" /\ interrupted
    /\ interrupted' = FALSE
    /\ pc' = "wait"
    /\ m_state' = "Failed"
    /\ UNCHANGED <<intern, m_pid, open, sink, m_queue, closer, got, calls, outside>>

-----------------------------------------------------------------------------
(* write(), read() and close() of a user with its own event loop.             *)
UserWrites(size) ==
    /\ ~intern /\ pc = "user" /\ m_state = "Running" /\ "StdIn" \in open
    /\ calls < MaxCalls /\ calls' = calls + 1
    /\ m_queue' = Append(m_queue, size)
    /\ UNCHANGED <<intern, m_state, m_pid, pc, open, sink, interrupted, closer,
                   got, outside>>

UserReads(p) ==
    /\ ~intern /\ pc = "user" /\ m_state = "Running" /\ p \in open \cap Output
    /\ calls < MaxCalls /\ calls' = calls + 1
    /\ sink' = sink \cup {p}
    /\ UNCHANGED <<intern, m_state, m_pid, pc, open, m_queue, interrupted, closer,
                   got, outside>>

UserCloses ==
    /\ ~intern /\ pc = "user" /\ m_state = "Running" /\ "StdIn" \in open
    /\ open' = open \ {"StdIn"} /\ m_queue' = <<>>
    /\ UNCHANGED <<intern, m_state, m_pid, pc, sink, interrupted, closer,
                   got, calls, outside>>

(* wait(), and its waitpid(), which blocks. *)
UserWaits ==
    /\ ~intern /\ pc = "user" /\ m_state = "Running"
    /\ m_state' = "Failed"
    /\ pc' = "wait"
    /\ UNCHANGED <<intern, m_pid, open, sink, m_queue, interrupted, closer,
                   got, calls, outside>>

Wait ==
    /\ pc = "wait" /\ child = "zombie"
    /\ child' = "reaped"
    /\ pc' = "reaped"
    /\ UNCHANGED <<intern, parent, data, ends, wrote>>

WaitEnd ==
    /\ pc = "reaped"
    /\ m_pid' = FALSE
    /\ m_state' = "Exited"
    /\ pc' = "user"
    /\ UNCHANGED <<intern, open, sink, m_queue, interrupted, closer, got, calls,
                   outside>>

(* kill(), of any thread and with any signal: nothing if there is no pid.     *)
(* Between waitpid() and WaitEnd it goes to whoever has the pid by then.      *)
Kill ==
    /\ m_pid /\ child \in {"running"} \cup Pipe
    /\ child' = "zombie" /\ ends' = {}
    /\ UNCHANGED <<intern, pc, parent, data, wrote>>

Child ==
    \/ ChildReads \/ ChildExits \/ ChildUnblocks
    \/ \E p \in Pipe : ChildWrites(p) \/ ChildCloses(p) \/ ChildBlocks(p)

Parent ==
    \/ (\E p \in Output : ReadOutput(p))
    \/ WriteBegin \/ WriteSome \/ WriteEnd \/ InputClosed \/ DispatchEnds
    \/ Wait \/ WaitEnd

User ==
    \/ \E size \in InputSizes : Run(size) \/ UserWrites(size)
    \/ \E p \in Output : UserReads(p)
    \/ UserCloses \/ UserWaits \/ Kill

SubprocessNext == Child \/ Parent \/ User

(* The parent goes on with what it can do; a child that is not blocked ends.  *)
SubprocessFairness ==
    WF_subprocessVars(Parent) /\ WF_subprocessVars(ChildUnblocks \/ ChildExits)

Spec == SubprocessInit /\ [][SubprocessNext]_subprocessVars /\ SubprocessFairness

-----------------------------------------------------------------------------
Returned == intern /\ m_state = "Exited"

(* "get the subprocess's output using output() and error()" (subprocess.hpp): *)
(* what run() leaves in the sinks is what the child wrote.                   *)
OutputIsWhole == Returned => got = wrote

(* What is lost is what came after the first data of a pipe, whose sink is    *)
(* minimal, and what was in a pipe when another one was closed first: a pipe  *)
(* is read before it is closed (onEvent() of its descriptor, onClose()).     *)
OutputIsRead ==
    Returned => \A p \in Output :
        got[p] < wrote[p] => got[p] > 0 \/ p \notin closer

(* run() returns with the child's end, whichever side closes first, unless    *)
(* the child fills a pipe that is not read any more, or closes a pipe and     *)
(* then waits for input that the loop, interrupted, does not write; or        *)
(* SIGPIPE ends the program (run(), onWritten(), onClose(), wait()).         *)
RunReturns ==
    pc = "dispatch" ~>
        \/ Returned \/ pc = "killed" \/ child \in Output
        \/ child = "StdIn" /\ pc = "wait" /\ "StdIn" \in open
=============================================================================
