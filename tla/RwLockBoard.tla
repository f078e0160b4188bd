----------------------------- MODULE RwLockBoard -----------------------------
(***************************************************************************)
(* lab10/main.c: the readers and the writer of lab11, with the buffer      *)
(* behind a pthread_rwlock_t.  main() joins the writer, then cancels and   *)
(* joins the readers.  Numbers are line numbers of lab10/main.c.           *)
(***************************************************************************)
EXTENDS Integers

CONSTANTS
    READER_COUNT,    \* messages.h:5
    MAX_OPERATIONS   \* messages.h:7

ASSUME CountsAssumption == READER_COUNT \in Nat /\ MAX_OPERATIONS \in Nat

VARIABLES
    rwlock,          \* the threads that hold it, the dead ones too
    running,
    write_counter,
    shared_buffer,   \* the number of the record it holds, or Torn
    operations,      \* local to writer_thread
    rpc,             \* [Readers -> where the reader is]
    wpc,
    mpc,
    i,               \* main()'s loop index, from 1
    seen             \* [Readers -> the buffer the reader printed last]

mainVars == <<mpc, i>>
dataVars == <<running, write_counter, shared_buffer, operations>>
vars == <<rwlock, dataVars, rpc, wpc, mainVars, seen>>

Readers == 1..READER_COUNT
Writer  == 0
Torn    == -1

ReaderPC ==
    {"none",
     "loop",          \* 23, and asleep at 31
     "lock",          \* 24
     "read",          \* 26
     "unlock",        \* 29
     "done",          \* finished, or cancelled with nothing held
     "diedReading"}   \* cancelled in the printf of 26: the read lock stays taken

WriterPC ==
    {"none",
     "loop",          \* 42, 43 and 58, and asleep at 55
     "count",         \* 45
     "format",        \* 46, inside snprintf
     "unlock",        \* 51
     "done"}

MainPC == {"init", "create", "join", "cancel", "joinReader", "destroy", "exited"}

Ended == {"done", "diedReading"}

ReaderMoves(r, from, to) == rpc[r] = from /\ rpc' = [rpc EXCEPT ![r] = to]
WriterMoves(from, to)    == wpc = from /\ wpc' = to
MainMoves(from, to)      == mpc = from /\ mpc' = to

-----------------------------------------------------------------------------
(* pthread_rwlock, as glibc makes it by default: a reader gets in unless   *)
(* the writer is in, also when the writer waits.                           *)

\* Slip: the writer takes the lock with pthread_rwlock_rdlock.
WriteLockFreeSlip == Writer \notin rwlock

ReadLockFree  == Writer \notin rwlock
WriteLockFree == rwlock = {}

-----------------------------------------------------------------------------
(* reader_thread *)

ReaderLoop(r) ==
    /\ rpc[r] = "loop"
    /\ rpc' = [rpc EXCEPT ![r] = IF running = 1 THEN "lock" ELSE "done"]
    /\ UNCHANGED <<rwlock, dataVars, wpc, mainVars, seen>>

ReaderLock(r) ==
    /\ ReaderMoves(r, "lock", "read")
    /\ ReadLockFree
    /\ rwlock' = rwlock \cup {r}
    /\ UNCHANGED <<dataVars, wpc, mainVars, seen>>

ReaderPrint(r) ==
    /\ ReaderMoves(r, "read", "unlock")
    /\ seen' = [seen EXCEPT ![r] = shared_buffer]
    /\ UNCHANGED <<rwlock, dataVars, wpc, mainVars>>

\* Slip: the reader does not give the lock back.
ReaderUnlockSlip(r) ==
    /\ ReaderMoves(r, "unlock", "loop")
    /\ UNCHANGED <<rwlock, dataVars, wpc, mainVars, seen>>

ReaderUnlock(r) ==
    /\ ReaderMoves(r, "unlock", "loop")
    /\ rwlock' = rwlock \ {r}
    /\ UNCHANGED <<dataVars, wpc, mainVars, seen>>

\* The cancellation main asked for at 106, acted upon in usleep or printf.
ReaderCancelled(r) ==
    /\ mpc = "joinReader" /\ i = r
    /\ rpc[r] \in {"loop", "read"}
    /\ rpc' = [rpc EXCEPT ![r] = IF rpc[r] = "read" THEN "diedReading" ELSE "done"]
    /\ UNCHANGED <<rwlock, dataVars, wpc, mainVars, seen>>

ReaderStep(r) == ReaderLoop(r) \/ ReaderLock(r) \/ ReaderPrint(r) \/ ReaderUnlock(r)

-----------------------------------------------------------------------------
(* writer_thread *)

MoreToWrite == operations < MAX_OPERATIONS

WriterLock ==
    /\ WriterMoves("loop", "count") /\ MoreToWrite
    /\ WriteLockFree
    /\ rwlock' = rwlock \cup {Writer}
    /\ UNCHANGED <<dataVars, rpc, mainVars, seen>>

\* The counter is bumped and snprintf starts to overwrite the buffer ...
WriterCount ==
    /\ WriterMoves("count", "format")
    /\ write_counter' = write_counter + 1
    /\ shared_buffer' = Torn
    /\ UNCHANGED <<rwlock, running, operations, rpc, mainVars, seen>>

\* ... and is done with it.
WriterFormat ==
    /\ WriterMoves("format", "unlock")
    /\ shared_buffer' = write_counter
    /\ UNCHANGED <<rwlock, running, write_counter, operations, rpc, mainVars, seen>>

WriterUnlock ==
    /\ WriterMoves("unlock", "loop")
    /\ rwlock' = rwlock \ {Writer}
    /\ operations' = operations + 1
    /\ UNCHANGED <<running, write_counter, shared_buffer, rpc, mainVars, seen>>

\* Line 58 is a plain store, made without the lock.
WriterStop ==
    /\ WriterMoves("loop", "done") /\ ~MoreToWrite
    /\ running' = 0
    /\ UNCHANGED <<rwlock, write_counter, shared_buffer, operations, rpc, mainVars, seen>>

WriterStep == WriterCount \/ WriterFormat \/ WriterUnlock \/ WriterStop

-----------------------------------------------------------------------------
(* main *)

threadVars == <<rwlock, dataVars, seen>>

\* Lines 77-81.
MainInit ==
    /\ mpc = "init"
    /\ mpc' \in {"create", "exited"}
    /\ UNCHANGED <<threadVars, rpc, wpc, i>>

\* Lines 88 and 97: main returns, and the threads created so far end with it.
MainCreateFails ==
    /\ MainMoves("create", "exited")
    /\ UNCHANGED <<threadVars, rpc, wpc, i>>

MainCreate ==
    /\ mpc = "create"
    /\ IF i \in Readers
       THEN /\ rpc' = [rpc EXCEPT ![i] = "loop"]
            /\ i' = i + 1
            /\ UNCHANGED <<wpc, mpc>>
       ELSE /\ wpc' = "loop"
            /\ mpc' = "join"
            /\ UNCHANGED <<rpc, i>>
    /\ UNCHANGED threadVars

\* Lines 101-103; nothing is assumed of how far the readers get in sleep(1).
MainJoinWriter ==
    /\ MainMoves("join", "cancel")
    /\ wpc = "done"
    /\ i' = 1
    /\ UNCHANGED <<threadVars, rpc, wpc>>

MainCancelReader ==
    /\ mpc = "cancel"
    /\ mpc' = IF i \in Readers THEN "joinReader" ELSE "destroy"
    /\ UNCHANGED <<threadVars, rpc, wpc, i>>

Gone(r) == rpc[r] \in Ended

MainJoinReader ==
    /\ MainMoves("joinReader", "cancel")
    /\ i \in Readers /\ Gone(i)
    /\ i' = i + 1
    /\ UNCHANGED <<threadVars, rpc, wpc>>

\* glibc does not look at the lock it destroys; then main returns.
MainDestroy ==
    /\ MainMoves("destroy", "exited")
    /\ UNCHANGED <<threadVars, rpc, wpc, i>>

MainStep ==
    \/ MainInit \/ MainCreateFails \/ MainCreate \/ MainJoinWriter \/ MainCancelReader
    \/ MainJoinReader \/ MainDestroy

-----------------------------------------------------------------------------
Init ==
    /\ rwlock = {}
    /\ running = 1
    /\ write_counter = 0
    /\ shared_buffer = 0
    /\ operations = 0
    /\ rpc = [r \in Readers |-> "none"]
    /\ wpc = "none"
    /\ mpc = "init"
    /\ i = 1
    /\ seen = [r \in Readers |-> 0]

Next ==
    \/ /\ mpc # "exited"
       /\ \/ MainStep
          \/ WriterStep \/ WriterLock
          \/ \E r \in Readers : ReaderStep(r) \/ ReaderCancelled(r)
    \/ mpc = "exited" /\ UNCHANGED vars

Spec == Init /\ [][Next]_vars

(* A thread that can run does run.  The writer gets the lock if it is free *)
(* again and again: strong fairness.  Cancellation is owed to no one.      *)
Alive(A) == mpc # "exited" /\ A

Fairness ==
    /\ WF_vars(Alive(MainStep))
    /\ WF_vars(Alive(WriterStep))
    /\ SF_vars(Alive(WriterLock))
    /\ \A r \in Readers : WF_vars(Alive(ReaderLoop(r) \/ ReaderPrint(r) \/ ReaderUnlock(r)))
    /\ \A r \in Readers : SF_vars(Alive(ReaderLock(r)))

FairSpec == Spec /\ Fairness

-----------------------------------------------------------------------------
(* Properties *)

\* Every variable holds a value of its kind; the writer makes no more than
\* MAX_OPERATIONS records.
TypeOK ==
    /\ rwlock \subseteq Readers \cup {Writer}
    /\ running \in {0, 1}
    /\ write_counter \in 0..MAX_OPERATIONS
    /\ shared_buffer \in 0..MAX_OPERATIONS \cup {Torn}
    /\ operations \in 0..MAX_OPERATIONS
    /\ rpc \in [Readers -> ReaderPC]
    /\ wpc \in WriterPC
    /\ mpc \in MainPC
    /\ i \in 1..(READER_COUNT + 1)
    /\ seen \in [Readers -> 0..MAX_OPERATIONS \cup {Torn}]

\* The lock is held by exactly the threads that are between lock and unlock, and
\* by the readers that were cancelled there; the cancelled ones cannot be in the
\* writer's way, because the writer has ended before main cancels anyone.
LockOwners ==
    /\ \A r \in Readers : r \in rwlock <=> rpc[r] \in {"read", "unlock", "diedReading"}
    /\ Writer \in rwlock <=> wpc \in {"count", "format", "unlock"}
    /\ (\E r \in Readers : rpc[r] = "diedReading") => wpc = "done"

\* Threads are joined before the lock they use is destroyed (line 110).
LockOutlivesThreads ==
    mpc = "destroy" => wpc = "done" /\ \A r \in Readers : rpc[r] \in Ended

\* The lock as it is used from the first thread to pthread_rwlock_destroy.
LockInv == TypeOK /\ LockOwners /\ LockOutlivesThreads

\* Under the rwlock the buffer is a board: readers print whole records, and the
\* newest one.
Records ==
    INSTANCE Board WITH
        MaxRecords <- MAX_OPERATIONS,
        latest <- IF wpc = "format" THEN write_counter - 1 ELSE write_counter,
        seen <- seen

BoardSpec == Records!BoardSpec

\* Readers come and go; the writer needs an instant without any of them.
ReadersPause == []<>(\A r \in Readers : rpc[r] \notin {"read", "unlock"} \/ wpc = "done")

\* If that instant comes again and again the program ends by itself: a reader
\* that dies with the read lock keeps nobody from ending.  Without it the
\* readers, whom this kind of lock prefers, can keep the writer out for ever.
Terminates == ReadersPause => <>(mpc = "exited")
=============================================================================
