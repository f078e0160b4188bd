------------------------------- MODULE PipeIPC -------------------------------
(***************************************************************************)
(* lab6/pipe_program.c: the parent writes one message into a pipe, the     *)
(* child sleeps, reads it and prints it.  No result of read or write is    *)
(* looked at.  Either process may be killed at any time.                   *)
(***************************************************************************)
EXTENDS Naturals, FiniteSets

VARIABLES
    ppPc,    \* [Pair -> where the process is]
    fds,     \* the descriptors that are open: <<process, end of the pipe>>
    inPipe,  \* the message is in the pipe
    wrote,   \* the parent's write succeeded
    shownBy  \* what the child printed: "message", "garbage" from its stack, or "nothing"

ppVars == <<ppPc, fds, inPipe, wrote, shownBy>>

Pair == {"parent", "child"}
PipeEnds == {"read", "write"}

EndOpen(end) == \E p \in Pair : <<p, end>> \in fds

PpMoves(p, from, to) == ppPc[p] = from /\ ppPc' = [ppPc EXCEPT ![p] = to]

\* The end of a process closes its descriptors.
Leave(p) ==
    /\ ppPc' = [ppPc EXCEPT ![p] = "ended"]
    /\ fds' = fds \ ({p} \X PipeEnds)

-----------------------------------------------------------------------------
PpInit ==
    /\ ppPc = [p \in Pair |-> "none"]
    /\ fds = {} /\ inPipe = FALSE /\ wrote = FALSE /\ shownBy = "nothing"

\* Lines 16-26: pipe and fork; either may fail.
PpStart ==
    /\ ppPc["parent"] = "none"
    /\ \/ ppPc' = [parent |-> "closeRead", child |-> "closeWrite"] /\ fds' = Pair \X PipeEnds
       \/ ppPc' = [ppPc EXCEPT !["parent"] = "ended"] /\ UNCHANGED fds
    /\ UNCHANGED <<inPipe, wrote, shownBy>>

-----------------------------------------------------------------------------
(* The parent *)

ParentClosesRead ==
    /\ PpMoves("parent", "closeRead", "write")
    /\ fds' = fds \ {<<"parent", "read">>}
    /\ UNCHANGED <<inPipe, wrote, shownBy>>

\* Line 34.  Without a reader SIGPIPE ends the parent.
ParentWrites ==
    /\ ppPc["parent"] = "write"
    /\ IF EndOpen("read")
       THEN /\ inPipe' = TRUE /\ wrote' = TRUE
            /\ PpMoves("parent", "write", "closeWrite") /\ UNCHANGED fds
       ELSE Leave("parent") /\ UNCHANGED <<inPipe, wrote>>
    /\ UNCHANGED shownBy

ParentClosesWrite ==
    /\ PpMoves("parent", "closeWrite", "wait")
    /\ fds' = fds \ {<<"parent", "write">>}
    /\ UNCHANGED <<inPipe, wrote, shownBy>>

\* Line 40.
ParentWaits ==
    /\ ppPc["parent"] = "wait" /\ ppPc["child"] = "ended"
    /\ Leave("parent")
    /\ UNCHANGED <<inPipe, wrote, shownBy>>

-----------------------------------------------------------------------------
(* The child *)

\* Slip: the child keeps its write end open.
ChildClosesSlip == {}

ChildCloses == {<<"child", "write">>}

\* Lines 43 and 45.
ChildClosesWrite ==
    /\ PpMoves("child", "closeWrite", "read")
    /\ fds' = fds \ ChildCloses
    /\ UNCHANGED <<inPipe, wrote, shownBy>>

\* Slip: the descriptor is set to non-blocking.
ReadReturnsSlip == TRUE

\* read returns when there is something, or nobody left who could write.
ReadReturns == inPipe \/ ~EndOpen("write")

\* Lines 47-54.
ChildReads ==
    /\ PpMoves("child", "read", "close") /\ ReadReturns
    /\ shownBy' = IF inPipe THEN "message" ELSE "garbage"
    /\ inPipe' = FALSE
    /\ UNCHANGED <<fds, wrote>>

\* Lines 56-59.
ChildLeaves ==
    /\ ppPc["child"] = "close"
    /\ Leave("child")
    /\ UNCHANGED <<inPipe, wrote, shownBy>>

PpKilled(p) ==
    /\ ppPc[p] \notin {"none", "ended"}
    /\ Leave(p)
    /\ UNCHANGED <<inPipe, wrote, shownBy>>

PpStep(p) ==
    \/ p = "parent" /\ (ParentClosesRead \/ ParentWrites \/ ParentClosesWrite \/ ParentWaits)
    \/ p = "child" /\ (ChildClosesWrite \/ ChildReads \/ ChildLeaves)

PpNext == PpStart \/ \E p \in Pair : PpStep(p) \/ PpKilled(p)

PpFairness == \A p \in Pair : WF_ppVars(PpStep(p))

-----------------------------------------------------------------------------
(* Properties *)

\* The child prints the parent's message; what was on its stack it prints only if
\* the parent died before it could write (the result of line 47 is ignored).
MessageShown ==
    /\ shownBy = "message" => wrote
    /\ shownBy = "garbage" => ~wrote /\ ppPc["parent"] = "ended"

\* Nobody waits for ever: the child ends though the parent died before it wrote, for
\* the child has closed its own write end; and a parent that lives has seen it end.
PairEnds == ppPc["parent"] # "none" ~> \A p \in Pair : ppPc[p] \in {"none", "ended"}
=============================================================================
