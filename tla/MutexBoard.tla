----------------------------- MODULE MutexBoard -----------------------------
(***************************************************************************)
(* lab8/main.c: one writer and NUM_READERS readers share an array behind a *)
(* pthread mutex and run until main() clears program_running, after its    *)
(* sleep or because a thread could not be created.  Numbers are line       *)
(* numbers of lab8/main.c.                                                 *)
(***************************************************************************)
EXTENDS Integers

CONSTANTS
    NUM_READERS,   \* messages.h
    MaxWrites      \* bound: the writes made before the sleep of line 101 is over

ASSUME CountsAssumption == NUM_READERS \in Nat /\ MaxWrites \in Nat

VARIABLES
    mutex,            \* NoOne, Writer or the reader that holds it
    program_running,
    write_counter,
    shared_array,     \* the number of the record it holds, or Torn
    rpc,              \* [Readers -> where the reader is]
    wpc,
    mpc,
    i,                \* main()'s loop index, from 1
    created,          \* how many readers were created
    seen,             \* [Readers -> the array the reader printed last]
    total             \* what main prints last (123), or Unprinted

mainVars == <<program_running, mpc, i, created, total>>
dataVars == <<write_counter, shared_array>>
vars == <<mutex, dataVars, rpc, wpc, mainVars, seen>>

Readers   == 1..NUM_READERS
Writer    == 0
NoOne     == -1
Torn      == -1
Unprinted == -1

ReaderPC ==
    {"none",
     "loop",     \* 44, and asleep at 52
     "lock",     \* 45
     "read",     \* 47, holding the mutex
     "unlock",   \* 50
     "done"}

WriterPC ==
    {"none",
     "loop",     \* 18, and asleep at 31
     "lock",     \* 19
     "count",    \* 23, holding the mutex
     "format",   \* 24, inside snprintf
     "unlock",   \* 29
     "done"}

MainPC ==
    {"init", "createWriter", "create",
     "sleep",         \* 101
     "join",          \* 108, or 88 after a failed creation
     "joinWriter",    \* 114 or 91
     "destroy",       \* 118, 93 or 77
     "print",         \* 123
     "exited"}

ReaderMoves(r, from, to) == rpc[r] = from /\ rpc' = [rpc EXCEPT ![r] = to]
WriterMoves(from, to)    == wpc = from /\ wpc' = to
MainMoves(from, to)      == mpc = from /\ mpc' = to

-----------------------------------------------------------------------------
(* pthread_mutex_lock and pthread_mutex_unlock *)

\* Slip: the call is made with the address of another mutex.
AcquireSlip(t) == mutex' = t

Acquire(t) == mutex = NoOne /\ mutex' = t
Release    == mutex' = NoOne

-----------------------------------------------------------------------------
(* reader_thread *)

ReaderLoop(r) ==
    /\ rpc[r] = "loop"
    /\ rpc' = [rpc EXCEPT ![r] = IF program_running = 1 THEN "lock" ELSE "done"]
    /\ UNCHANGED <<mutex, dataVars, wpc, mainVars, seen>>

ReaderLock(r) ==
    /\ ReaderMoves(r, "lock", "read")
    /\ Acquire(r)
    /\ UNCHANGED <<dataVars, wpc, mainVars, seen>>

ReaderPrint(r) ==
    /\ ReaderMoves(r, "read", "unlock")
    /\ seen' = [seen EXCEPT ![r] = shared_array]
    /\ UNCHANGED <<mutex, dataVars, wpc, mainVars>>

ReaderUnlock(r) ==
    /\ ReaderMoves(r, "unlock", "loop")
    /\ Release
    /\ UNCHANGED <<dataVars, wpc, mainVars, seen>>

ReaderStep(r) == ReaderLoop(r) \/ ReaderPrint(r) \/ ReaderUnlock(r)

-----------------------------------------------------------------------------
(* writer_thread *)

WriterLoop ==
    /\ wpc = "loop"
    /\ IF program_running = 1
       THEN write_counter < MaxWrites /\ wpc' = "lock"
       ELSE wpc' = "done"
    /\ UNCHANGED <<mutex, dataVars, rpc, mainVars, seen>>

WriterLock ==
    /\ WriterMoves("lock", "count")
    /\ Acquire(Writer)
    /\ UNCHANGED <<dataVars, rpc, mainVars, seen>>

\* The counter is bumped and snprintf starts to overwrite the array ...
WriterCount ==
    /\ WriterMoves("count", "format")
    /\ write_counter' = write_counter + 1
    /\ shared_array' = Torn
    /\ UNCHANGED <<mutex, rpc, mainVars, seen>>

\* ... and is done with it.
WriterFormat ==
    /\ WriterMoves("format", "unlock")
    /\ shared_array' = write_counter
    /\ UNCHANGED <<mutex, write_counter, rpc, mainVars, seen>>

WriterUnlock ==
    /\ WriterMoves("unlock", "loop")
    /\ Release
    /\ UNCHANGED <<dataVars, rpc, mainVars, seen>>

WriterStep == WriterLoop \/ WriterCount \/ WriterFormat \/ WriterUnlock

-----------------------------------------------------------------------------
(* main *)

threadVars == <<mutex, dataVars, seen>>

\* Lines 68-71.
MainInit ==
    /\ mpc = "init"
    /\ mpc' \in {"createWriter", "exited"}
    /\ UNCHANGED <<threadVars, rpc, wpc, program_running, i, created, total>>

\* Lines 75-79: without a writer there is nothing to join.
MainCreateWriter ==
    /\ mpc = "createWriter"
    /\ \/ mpc' = "create" /\ wpc' = "loop"
       \/ mpc' = "destroy" /\ wpc' = wpc
    /\ UNCHANGED <<threadVars, rpc, program_running, i, created, total>>

MoreReaders == i <= NUM_READERS

MainCreateReader ==
    /\ mpc = "create"
    /\ IF MoreReaders
       THEN /\ rpc' = [rpc EXCEPT ![i] = "loop"]
            /\ created' = i
            /\ i' = i + 1
            /\ UNCHANGED mpc
       ELSE /\ mpc' = "sleep"
            /\ UNCHANGED <<rpc, created, i>>
    /\ UNCHANGED <<threadVars, wpc, program_running, total>>

\* Slip: the failure path destroys the mutex at once, as lab11 does.
AfterFailureSlip == "destroy"

AfterFailure == "join"

\* Lines 84-91: the readers created so far and the writer are told to stop.
MainCreateFails ==
    /\ MainMoves("create", AfterFailure) /\ MoreReaders
    /\ program_running' = 0
    /\ i' = 1
    /\ UNCHANGED <<threadVars, rpc, wpc, created, total>>

\* Slip: the flag is not cleared.
StopFlagSlip == 1

StopFlag == 0

\* The sleep is over; lines 101-104.
MainStop ==
    /\ MainMoves("sleep", "join")
    /\ program_running' = StopFlag
    /\ i' = 1
    /\ UNCHANGED <<threadVars, rpc, wpc, created, total>>

MainJoinReader ==
    /\ mpc = "join"
    /\ IF i <= created
       THEN rpc[i] = "done" /\ i' = i + 1 /\ UNCHANGED mpc
       ELSE mpc' = "joinWriter" /\ UNCHANGED i
    /\ UNCHANGED <<threadVars, rpc, wpc, program_running, created, total>>

\* Slip: the writer is not joined.
WriterGoneSlip == TRUE

WriterGone == wpc = "done"

MainJoinWriter ==
    /\ MainMoves("joinWriter", "destroy")
    /\ WriterGone
    /\ UNCHANGED <<threadVars, rpc, wpc, program_running, i, created, total>>

\* After a failed creation exit(EXIT_FAILURE) follows; otherwise the total is printed.
MainDestroy ==
    /\ mpc = "destroy"
    /\ mpc' = IF wpc # "none" /\ created = NUM_READERS
              THEN "print" ELSE "exited"
    /\ UNCHANGED <<threadVars, rpc, wpc, program_running, i, created, total>>

MainPrintTotal ==
    /\ MainMoves("print", "exited")
    /\ total' = write_counter
    /\ UNCHANGED <<threadVars, rpc, wpc, program_running, i, created>>

MainStep ==
    \/ MainInit \/ MainCreateWriter \/ MainCreateReader \/ MainCreateFails \/ MainStop
    \/ MainJoinReader \/ MainJoinWriter \/ MainDestroy \/ MainPrintTotal

-----------------------------------------------------------------------------
Init ==
    /\ mutex = NoOne
    /\ program_running = 1
    /\ write_counter = 0
    /\ shared_array = 0
    /\ rpc = [r \in Readers |-> "none"]
    /\ wpc = "none"
    /\ mpc = "init"
    /\ i = 1
    /\ created = 0
    /\ seen = [r \in Readers |-> 0]
    /\ total = Unprinted

Next ==
    \/ /\ mpc # "exited"
       /\ \/ MainStep
          \/ WriterStep \/ WriterLock
          \/ \E r \in Readers : ReaderStep(r) \/ ReaderLock(r)
    \/ mpc = "exited" /\ UNCHANGED vars

Spec == Init /\ [][Next]_vars

(* A thread that can run does run.  A mutex is not handed over in order,   *)
(* but every thread sleeps a second or more between two turns with it.     *)
Alive(A) == mpc # "exited" /\ A

Fairness ==
    /\ WF_vars(Alive(MainStep))
    /\ WF_vars(Alive(WriterStep))
    /\ SF_vars(Alive(WriterLock))
    /\ \A r \in Readers : WF_vars(Alive(ReaderStep(r))) /\ SF_vars(Alive(ReaderLock(r)))

FairSpec == Spec /\ Fairness

-----------------------------------------------------------------------------
(* Properties *)

\* Every variable holds a value of its kind.
TypeOK ==
    /\ mutex \in Readers \cup {Writer, NoOne}
    /\ program_running \in {0, 1}
    /\ write_counter \in 0..MaxWrites
    /\ shared_array \in 0..MaxWrites \cup {Torn}
    /\ rpc \in [Readers -> ReaderPC]
    /\ wpc \in WriterPC
    /\ mpc \in MainPC
    /\ i \in 1..(NUM_READERS + 1)
    /\ created \in 0..NUM_READERS
    /\ seen \in [Readers -> 0..MaxWrites \cup {Torn}]
    /\ total \in 0..MaxWrites \cup {Unprinted}

\* "Only one thread at a time works with the shared array" (Readme.md:68).
OneAtATime ==
    /\ wpc \in {"count", "format", "unlock"} =>
        \A r \in Readers : rpc[r] \notin {"read", "unlock"}
    /\ \A r, q \in Readers :
        rpc[r] \in {"read", "unlock"} /\ rpc[q] \in {"read", "unlock"} => r = q

\* "All threads are ended correctly" before the mutex is destroyed
\* (Readme.md:45-46), also when one of them could not be created (lines 86-93).
MutexOutlivesThreads ==
    mpc \in {"destroy", "print"} =>
        /\ wpc \in {"none", "done"}
        /\ \A r \in Readers : rpc[r] \in {"none", "done"}

\* The mutex from the first thread to pthread_mutex_destroy.
MutexInv == TypeOK /\ OneAtATime /\ MutexOutlivesThreads

\* The total main prints without the mutex (line 123) is the number of the record
\* in the array: no write is under way or still to come.
TotalIsFinal ==
    (mpc = "exited" /\ total # Unprinted) => total = write_counter /\ shared_array = total

\* Under the mutex the array is a board: readers print whole records, and the
\* newest one.
Records ==
    INSTANCE Board WITH
        MaxRecords <- MaxWrites,
        latest <- IF wpc = "format" THEN write_counter - 1 ELSE write_counter,
        seen <- seen

BoardSpec == Records!BoardSpec

\* main gets to its end on every path, also when a thread could not be created.
Terminates == <>(mpc = "exited")
=============================================================================
