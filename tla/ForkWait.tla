------------------------------ MODULE ForkWait ------------------------------
(***************************************************************************)
(* lab3/main.c: a process registers an exit handler and handlers for       *)
(* SIGINT and SIGTERM, forks, waits for its child and reports how it       *)
(* ended.  Signals may come at any time.  What a process prints goes to    *)
(* the screen at once when stdout is a terminal, and else lies in the      *)
(* process's memory, which fork copies, until exit.                        *)
(***************************************************************************)
EXTENDS Integers, FiniteSets, Sequences

VARIABLES
    fwPc,        \* [Family -> where the process is]
    registered,  \* process_exit_handler is (the child inherits it)
    caught,      \* the signals that have their handler (the child inherits them)
    blocked,     \* [Family -> signals whose handler was entered]
    tty,         \* stdout is a terminal
    stdoutBuf,   \* [Family -> lines not yet written]
    screen,      \* what was written
    fwCode,      \* [Family -> the argument of exit]
    ends,        \* [Family -> how it ended: <<"exit", code>>, <<"signal", s>>, or Alive]
    report       \* the wait_status that the parent printed, or Alive

fwVars == <<fwPc, registered, caught, blocked, tty, stdoutBuf, screen, fwCode, ends, report>>

Family  == {"parent", "child"}
Signals == {"SIGINT", "SIGTERM"}
Alive   == <<"alive", 0>>

LineOf(p, text) == [by |-> p, text |-> text]

\* printf
Say(p, text) ==
    IF tty
    THEN screen' = Append(screen, LineOf(p, text)) /\ UNCHANGED stdoutBuf
    ELSE stdoutBuf' = [stdoutBuf EXCEPT ![p] = Append(@, LineOf(p, text))] /\ UNCHANGED screen

FwGo(p, l) == fwPc' = [fwPc EXCEPT ![p] = l]

\* exit(code), the way it begins.
ExitWith(p, code) == FwGo(p, "exiting") /\ fwCode' = [fwCode EXCEPT ![p] = code]

-----------------------------------------------------------------------------
FwInit ==
    /\ fwPc = [p \in Family |-> "none"]
    /\ registered = FALSE /\ caught = {} /\ blocked = [p \in Family |-> {}]
    /\ tty = TRUE
    /\ stdoutBuf = [p \in Family |-> <<>>] /\ screen = <<>>
    /\ fwCode = [p \in Family |-> 0] /\ ends = [p \in Family |-> Alive] /\ report = Alive

FwStart ==
    /\ fwPc["parent"] = "none"
    /\ FwGo("parent", "atexit")
    /\ tty' \in BOOLEAN
    /\ UNCHANGED <<registered, caught, blocked, stdoutBuf, screen, fwCode, ends, report>>

\* Lines 30-49, each of which may fail, and line 51.
SetUp ==
    /\ \/ /\ fwPc["parent"] = "atexit" /\ FwGo("parent", "signal")
          /\ registered' = TRUE
          /\ UNCHANGED <<caught, screen, stdoutBuf, fwCode>>
       \/ /\ fwPc["parent"] = "signal" /\ FwGo("parent", "sigaction")
          /\ caught' = caught \cup {"SIGINT"}
          /\ UNCHANGED <<registered, screen, stdoutBuf, fwCode>>
       \/ /\ fwPc["parent"] = "sigaction" /\ FwGo("parent", "fork")
          /\ caught' = caught \cup {"SIGTERM"}
          /\ Say("parent", "started")
          /\ UNCHANGED <<registered, fwCode>>
       \/ /\ fwPc["parent"] \in {"atexit", "signal", "sigaction", "fork"} /\ ExitWith("parent", 1)
          /\ UNCHANGED <<registered, caught, screen, stdoutBuf>>
    /\ UNCHANGED <<blocked, tty, ends, report>>

\* Line 53: the child has the parent's handlers, and a copy of its buffer.
Fork ==
    /\ fwPc["parent"] = "fork"
    /\ fwPc' = [parent |-> "wait", child |-> "run"]
    /\ stdoutBuf' = [stdoutBuf EXCEPT !["child"] = stdoutBuf["parent"]]
    /\ UNCHANGED <<registered, caught, blocked, tty, screen, fwCode, ends, report>>

\* Lines 60-63.
ChildRuns ==
    /\ fwPc["child"] = "run"
    /\ Say("child", "running")
    /\ FwGo("child", "sleep")
    /\ UNCHANGED <<registered, caught, blocked, tty, fwCode, ends, report>>

ChildCompletes ==
    /\ fwPc["child"] = "sleep"
    /\ Say("child", "completed")
    /\ ExitWith("child", 42)
    /\ UNCHANGED <<registered, caught, blocked, tty, ends, report>>

\* Lines 68-84.
ParentReports ==
    /\ fwPc["parent"] = "wait" /\ ends["child"] # Alive
    /\ report' = ends["child"]
    /\ Say("parent", "completed")
    /\ ExitWith("parent", 0)
    /\ UNCHANGED <<registered, caught, blocked, tty, ends>>

\* exit runs process_exit_handler once, ...
AtExit(p) ==
    /\ fwPc[p] = "exiting"
    /\ IF registered THEN Say(p, "exit") ELSE UNCHANGED <<screen, stdoutBuf>>
    /\ FwGo(p, "flush")
    /\ UNCHANGED <<registered, caught, blocked, tty, fwCode, ends, report>>

Ends(p, how) == FwGo(p, "ended") /\ ends' = [ends EXCEPT ![p] = how]

\* Slip: _exit, which does not write what is in the buffer.
FlushedSlip(p) == screen

Flushed(p) == screen \o stdoutBuf[p]

\* ... writes what is in the buffer, and ends the process.
Flush(p) ==
    /\ fwPc[p] = "flush"
    /\ screen' = Flushed(p)
    /\ stdoutBuf' = [stdoutBuf EXCEPT ![p] = <<>>]
    /\ Ends(p, <<"exit", fwCode[p]>>)
    /\ UNCHANGED <<registered, caught, blocked, tty, fwCode, report>>

Running(p) == fwPc[p] \notin {"none", "ended"}

\* Slip: the handlers are installed by the parent after fork, for itself.
HandledSlip(p, s) == p = "parent" /\ s \in caught

Handled(p, s) == s \in caught

\* A signal that has a handler is blocked while the handler runs, which is until the
\* end; a second exit from a handler goes on where the first one was.
Signalled(p, s) ==
    /\ Running(p) /\ s \notin blocked[p]
    /\ IF Handled(p, s)
       THEN /\ blocked' = [blocked EXCEPT ![p] = @ \cup {s}]
            /\ Say(p, s)
            /\ fwCode' = [fwCode EXCEPT ![p] = 0]
            /\ FwGo(p, IF fwPc[p] = "flush" THEN "flush" ELSE "exiting")
            /\ UNCHANGED ends
       ELSE Ends(p, <<"signal", s>>) /\ UNCHANGED <<blocked, screen, stdoutBuf, fwCode>>
    /\ UNCHANGED <<registered, caught, tty, report>>

Killed(p) ==
    /\ Running(p)
    /\ Ends(p, <<"signal", "SIGKILL">>)
    /\ UNCHANGED <<registered, caught, blocked, tty, stdoutBuf, screen, fwCode, report>>

FwStep ==
    \/ SetUp \/ Fork \/ ChildRuns \/ ChildCompletes \/ ParentReports
    \/ \E p \in Family : AtExit(p) \/ Flush(p)

FwNext ==
    \/ FwStart \/ FwStep
    \/ \E p \in Family : Killed(p) \/ \E s \in Signals : Signalled(p, s)

-----------------------------------------------------------------------------
(* Properties *)

Count(p, text) == Cardinality({k \in DOMAIN screen : screen[k] = LineOf(p, text)})

Exited(p) == ends[p][1] = "exit"

\* The parent reports how its child ended, and not before it did.  Signals never end
\* the child: it always has the handlers and exits with 0, so that only SIGKILL is
\* reported as a signal, and 42 means that nobody interrupted the child.
ReportIsTrue ==
    report # Alive =>
        /\ report = ends["child"]
        /\ report[1] = "signal" => report[2] = "SIGKILL"
        /\ report = <<"exit", 42>> => Count("child", "completed") = 1

\* All that a process prints is on the screen once it has ended by exit, its exit
\* handler's line once; nothing is there twice, but for the line that the parent
\* printed before fork, which the child writes too if stdout is not a terminal.
PrintedOnce ==
    /\ \A p \in Family : Exited(p) =>
          /\ registered => Count(p, "exit") = 1
          /\ stdoutBuf[p] = <<>>
          /\ \A s \in blocked[p] : Count(p, s) = 1
    /\ \A p \in Family, t \in {"running", "completed", "exit"} \cup Signals : Count(p, t) <= 1
    /\ Count("parent", "started") <= (IF tty THEN 1 ELSE 2)
    /\ (~tty /\ Exited("parent") /\ Exited("child")) => Count("parent", "started") = 2
=============================================================================
