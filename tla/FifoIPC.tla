------------------------------- MODULE FifoIPC -------------------------------
(***************************************************************************)
(* lab6/producer.c and lab6/consumer.c: independent processes that meet in *)
(* the named pipe /tmp/myfifo.  Each of them makes the FIFO if access()    *)
(* finds none, opens it, passes or takes one message, and unlinks the      *)
(* name.  Nothing ties the three calls to one FIFO: the name may stand for *)
(* another one, or for none, each time.  p: and c: are lines of the two    *)
(* files.                                                                  *)
(***************************************************************************)
EXTENDS Integers, Sequences, FiniteSets

CONSTANTS
    Producers, Consumers   \* the runs of the two programs

Nothing == "nothing"       \* no message; a message is named by its producer

ASSUME RunsAssumption ==
    /\ Producers \cap Consumers = {}
    /\ IsFiniteSet(Producers) /\ IsFiniteSet(Consumers)
    /\ Producers \cup Consumers # {}
    /\ Nothing \notin Producers

(* BUFFER_SIZE is 256 bytes and a message takes about a hundred: one read  *)
(* of c:34 empties a FIFO that holds no more than two.                     *)
ASSUME FitsInOneRead == Cardinality(Producers) <= 2

Processes == Producers \cup Consumers

NoFifo  == 0
NoFd    == 0       \* not open, or open failed and returned -1
Fifos   == 1..(Cardinality(Processes) + 1)

VARIABLES
    path,    \* the FIFO that /tmp/myfifo names, or NoFifo
    made,    \* how many FIFOs have been made
    data,    \* [Fifos -> the messages in it]
    pc,      \* [Processes -> where the process is]
    fd,      \* [Processes -> the FIFO it has open or waits to open]
    prints    \* [Consumers -> the message it prints at c:49, or Nothing]

ffVars == <<path, made, data, pc, fd, prints>>

PC ==
    {"start",     \* p:16, c:20, access
     "mkfifo",    \* p:17, c:21
     "open",      \* p:22, c:26
     "blocked",   \* in open, with nobody at the other end
     "io",        \* p:29 write, c:34 read
     "close",     \* p:30, c:35
     "sleep",     \* p:34, c:42, and the unlink after it
     "done",
     "failed",    \* the consumer returned 1 (c:29, c:39)
     "killed"}    \* the producer, by SIGPIPE

Peers(p) == IF p \in Producers THEN Consumers ELSE Producers

Open(n, side) == {p \in side : fd[p] = n}

-----------------------------------------------------------------------------
Access(p) ==
    /\ pc[p] = "start"
    /\ pc' = [pc EXCEPT ![p] = IF path = NoFifo THEN "mkfifo" ELSE "open"]
    /\ UNCHANGED <<path, made, data, fd, prints>>

\* mkfifo fails when somebody else made the FIFO since; the failure is ignored.
MakeFifo(p) ==
    /\ pc[p] = "mkfifo"
    /\ IF path = NoFifo
       THEN path' = made + 1 /\ made' = made + 1
       ELSE UNCHANGED <<path, made>>
    /\ pc' = [pc EXCEPT ![p] = "open"]
    /\ UNCHANGED <<data, fd, prints>>

\* Slip: the FIFO is opened without waiting for the other end (O_NONBLOCK).
MustWaitSlip(peers) == FALSE

MustWait(peers) == peers = {}

\* open finds the name gone.  The consumer gives up, the producer does not look.
OpenFails(p) ==
    /\ pc[p] = "open"
    /\ path = NoFifo
    /\ pc' = [pc EXCEPT ![p] = IF p \in Consumers THEN "failed" ELSE "io"]
    /\ UNCHANGED <<path, made, data, fd, prints>>

\* open returns at once if the other end is open, and lets go whoever waits there.
OpenFifo(p) ==
    /\ pc[p] = "open"
    /\ path # NoFifo
    /\ fd' = [fd EXCEPT ![p] = path]
    /\ LET peers == Open(path, Peers(p))
       IN  pc' = [q \in Processes |->
                    IF q = p THEN IF MustWait(peers) THEN "blocked" ELSE "io"
                    ELSE IF q \in peers /\ pc[q] = "blocked" THEN "io" ELSE pc[q]]
    /\ UNCHANGED <<path, made, data, prints>>

\* With a bad descriptor write fails unnoticed; with no reader left it is fatal,
\* and the last process that leaves a FIFO takes what is in it along.
Write(p) ==
    /\ p \in Producers /\ pc[p] = "io"
    /\ LET n == fd[p]
           readers == Open(n, Consumers)
       IN  IF n = NoFd
           THEN /\ pc' = [pc EXCEPT ![p] = "close"]
                /\ UNCHANGED <<data, fd>>
           ELSE IF readers = {}
           THEN /\ pc' = [pc EXCEPT ![p] = "killed"]
                /\ fd' = [fd EXCEPT ![p] = NoFd]
                /\ data' = IF Open(n, Processes) = {p} THEN [data EXCEPT ![n] = <<>>] ELSE data
           ELSE /\ pc' = [pc EXCEPT ![p] = "close"]
                /\ data' = [data EXCEPT ![n] = Append(@, p)]
                /\ UNCHANGED fd
    /\ UNCHANGED <<path, made, prints>>

\* Slip: the bytes stay in the FIFO.
LeftSlip(n) == data[n]

Left(n) == <<>>

\* All there is is read, and its first message is what %s prints: each message
\* brings its own final zero.  With nothing to read and no writer read returns 0.
Read(c) ==
    /\ c \in Consumers /\ pc[c] = "io"
    /\ LET n == fd[c]
       IN  \/ /\ data[n] # <<>>
              /\ prints' = [prints EXCEPT ![c] = Head(data[n])]
              /\ data' = [data EXCEPT ![n] = Left(n)]
           \/ /\ data[n] = <<>> /\ Open(n, Producers) = {}
              /\ UNCHANGED <<prints, data>>
    /\ pc' = [pc EXCEPT ![c] = "close"]
    /\ UNCHANGED <<path, made, fd>>

Close(p) ==
    /\ pc[p] = "close"
    /\ fd' = [fd EXCEPT ![p] = NoFd]
    /\ data' = IF fd[p] # NoFd /\ Open(fd[p], Processes) = {p}
               THEN [data EXCEPT ![fd[p]] = <<>>] ELSE data
    /\ pc' = [pc EXCEPT ![p] = IF p \in Consumers /\ prints[p] = Nothing
                               THEN "failed" ELSE "sleep"]
    /\ UNCHANGED <<path, made, prints>>

\* Slip: each program leaves the FIFO to the other one to remove.
UnlinkedSlip(p) == path

Unlinked(p) == NoFifo

\* unlink removes whatever has the name by now (p:36, c:53).
Unlink(p) ==
    /\ pc[p] = "sleep"
    /\ path' = Unlinked(p)
    /\ pc' = [pc EXCEPT ![p] = "done"]
    /\ UNCHANGED <<made, data, fd, prints>>

Step(p) ==
    \/ Access(p) \/ MakeFifo(p) \/ OpenFails(p) \/ OpenFifo(p) \/ Write(p) \/ Read(p)
    \/ Close(p) \/ Unlink(p)

-----------------------------------------------------------------------------
\* A FIFO may be left from a run that was interrupted.
FfInit ==
    /\ made \in {0, 1}
    /\ path = made
    /\ data = [n \in Fifos |-> <<>>]
    /\ pc = [p \in Processes |-> "start"]
    /\ fd = [p \in Processes |-> NoFd]
    /\ prints = [c \in Consumers |-> Nothing]

Over(p) == pc[p] \in {"done", "failed", "killed"}

FfNext == \E p \in Processes : Step(p)

FfSpec == FfInit /\ [][FfNext]_ffVars

AnyStarted == \E p \in Processes : pc[p] # "start"

\* When one of the processes has been started the others are started as well, and
\* all run on.
FfFairness == \A p \in Processes : WF_ffVars(AnyStarted /\ Step(p))

-----------------------------------------------------------------------------
\* Every variable holds a value of its kind; data is only in FIFOs that exist.
TypeOK ==
    /\ path \in {NoFifo} \cup Fifos
    /\ made \in 0..(Cardinality(Processes) + 1)
    /\ path <= made
    /\ \A n \in Fifos : data[n] \in Seq(Producers) /\ (n > made => data[n] = <<>>)
    /\ pc \in [Processes -> PC]
    /\ fd \in [Processes -> 0..made]
    /\ prints \in [Consumers -> Producers \cup {Nothing}]

\* No message is shown twice, and none before its producer has written it: what a
\* consumer took at c:34 is gone for the others.
ShownOnce ==
    /\ \A c, d \in Consumers : prints[c] = prints[d] /\ prints[c] # Nothing => c = d
    /\ \A c \in Consumers : prints[c] # Nothing =>
        pc[prints[c]] \in {"close", "sleep", "done"}

\* What is in the FIFOs and what has been shown.
FifoInv == TypeOK /\ ShownOnce

\* "The FIFO is created and removed correctly" (Readme.md:115): when every process
\* has ended the name is gone.
NoLeftover == (\A p \in Processes : Over(p)) => path = NoFifo

\* In whatever order the programs are started, somebody gets a message: with one
\* consumer that is every consumer.
SomeoneServed == AnyStarted ~> (\E c \in Consumers : pc[c] = "done" /\ prints[c] # Nothing)

\* "The processes can be started in any order" (Readme.md:118): a producer and a
\* consumer that both wait in open wait for one another.
NeverApart ==
    ~ \E p \in Producers, c \in Consumers : pc[p] = "blocked" /\ pc[c] = "blocked"
=============================================================================
