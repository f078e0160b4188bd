------------------------------- MODULE CondRW -------------------------------
(***************************************************************************)
(* lab11/main.c: readers and one writer share a text buffer.  The readers- *)
(* writer lock is hand-made from a mutex, two condition variables and      *)
(* three counters.  main() creates the threads, joins the writer, and      *)
(* then cancels and joins the readers one by one.                          *)
(*                                                                         *)
(* One action per stretch of code between two points at which another      *)
(* thread can interfere: taking the mutex, giving it up, and each access   *)
(* to shared data made without it.  The numbers beside the control states  *)
(* are line numbers of lab11/main.c.                                       *)
(***************************************************************************)
EXTENDS Integers, FiniteSets

CONSTANTS
    READER_COUNT,    \* messages.h:5
    MAX_OPERATIONS   \* messages.h:7

ASSUME CountsAssumption == READER_COUNT \in Nat /\ MAX_OPERATIONS \in Nat

VARIABLES
    mutex,           \* NoOne, Writer or the reader that holds it
    mutexLive,       \* the mutex is initialised and not destroyed
    active_readers,
    writer_waiting,  \* 0 or 1, like the next two
    writer_active,
    running,
    write_counter,
    shared_buffer,   \* the number of the record it holds, or Torn
    operations,      \* local to writer_thread
    rpc,             \* [Readers -> where the reader is]
    wpc,             \* where the writer is
    mpc,             \* where main() is
    i,               \* main()'s loop index, from 1
    tid_stored,      \* the threads whose data->tid main() has assigned
    seen             \* [Readers -> the buffer the reader printed last]

vars == <<mutex, mutexLive, active_readers, writer_waiting, writer_active, running,
          write_counter, shared_buffer, operations, rpc, wpc, mpc, i, tid_stored, seen>>

lockVars == <<mutexLive, mpc, i, tid_stored>>
dataVars == <<running, write_counter, shared_buffer, operations, seen>>

Readers == 1..READER_COUNT
Writer  == 0
NoOne   == -1
Torn    == -1
Threads == Readers \cup {Writer}

-----------------------------------------------------------------------------
(* Control states. *)

ReaderPC ==
    {"none",           \* not created
     "loop",           \* 28, and asleep at 51
     "lock",           \* 29
     "test",           \* 31, holding the mutex
     "waiting",        \* 32, asleep on cond_read
     "relock",         \* 32, woken, needs the mutex to return
     "read",           \* 39
     "lock2",          \* 42
     "leave",          \* 43, holding the mutex
     "done",           \* finished, or cancelled with nothing held
     "diedReading",    \* cancelled in the printf of 39
     "diedLocked"}     \* cancelled in pthread_cond_wait, which retakes the mutex

WriterPC ==
    {"none",
     "loop",           \* 62, and asleep at 93
     "test",           \* 65, holding the mutex
     "waiting",        \* 67, asleep on cond_write
     "relock",         \* 67, woken, needs the mutex to return
     "count",          \* 75
     "format",         \* 76, inside snprintf
     "show",           \* 79
     "leave",          \* 82, holding the mutex
     "stop",           \* 97, holding the mutex
     "done"}

MainPC ==
    {"init",           \* 119
     "create",         \* 140
     "store",          \* 150
     "storeWriter",    \* 162
     "join",           \* 164
     "cancel",         \* 168
     "joinReader",     \* 170
     "destroy",        \* 173, or a creation failed: 145, 157
     "return",         \* 148, 160, 180
     "exited"}

ReaderHolds == {"test", "leave", "diedLocked"}   \* the mutex is the reader's
WriterHolds == {"test", "leave", "stop"}
Counted     == {"read", "lock2", "leave", "diedReading"}
Writing     == {"count", "format", "show", "leave"}
Ended       == {"done", "diedReading", "diedLocked"}

-----------------------------------------------------------------------------
(* The pthread calls, as glibc implements them.  On a destroyed mutex lock *)
(* and unlock return EINVAL, which the program ignores: the caller goes on *)
(* without exclusion and ++ and -- on the counter may lose updates.        *)

Acquire(t) ==
    IF mutexLive THEN mutex = NoOne /\ mutex' = t ELSE UNCHANGED mutex

Release == mutex' = NoOne

RaceRange == (-READER_COUNT)..READER_COUNT

Tally(x) == IF mutexLive THEN {x} ELSE RaceRange

\* Slip: cond_read is signalled once, which wakes one of the sleepers.
SignalOne(pcs) ==
    LET asleep == {r \in Readers : pcs[r] = "waiting"}
        one == CHOOSE r \in asleep : TRUE
    IN  IF asleep = {} THEN pcs ELSE [pcs EXCEPT ![one] = "relock"]

\* Slip: cond_write is broadcast a second time instead of cond_read.
WrongCondition(pcs) == pcs

\* Who is asleep on cond_read is told by the program counters.
Broadcast(pcs) ==
    [r \in Readers |-> IF pcs[r] = "waiting" THEN "relock" ELSE pcs[r]]

-----------------------------------------------------------------------------
(* reader_thread *)

\* Slip: the readers wait for an active writer only.
MayReadSlip == writer_active = 0

\* Slip: the readers wait only for a waiting writer.
MayReadSlip2 == writer_waiting = 0

MayRead == writer_active = 0 /\ writer_waiting = 0

ReaderLoop(r) ==
    /\ rpc[r] = "loop"
    /\ rpc' = [rpc EXCEPT ![r] = IF running = 1 THEN "lock" ELSE "done"]
    /\ UNCHANGED <<lockVars, dataVars, mutex, active_readers, writer_waiting,
                   writer_active, wpc>>

\* Lines 29, 32 and 42.
AfterLock == [lock |-> "test", relock |-> "test", lock2 |-> "leave"]

ReaderTakesMutex(r) ==
    /\ rpc[r] \in DOMAIN AfterLock
    /\ Acquire(r)
    /\ rpc' = [rpc EXCEPT ![r] = AfterLock[rpc[r]]]
    /\ UNCHANGED <<lockVars, dataVars, active_readers, writer_waiting, writer_active, wpc>>

ReaderWait(r) ==
    /\ rpc[r] = "test"
    /\ ~MayRead
    /\ Release
    /\ rpc' = [rpc EXCEPT ![r] = "waiting"]
    /\ UNCHANGED <<lockVars, dataVars, active_readers, writer_waiting, writer_active, wpc>>

ReaderEnter(r) ==
    /\ rpc[r] = "test"
    /\ MayRead
    /\ active_readers' \in Tally(active_readers + 1)
    /\ Release
    /\ rpc' = [rpc EXCEPT ![r] = "read"]
    /\ UNCHANGED <<lockVars, dataVars, writer_waiting, writer_active, wpc>>

\* pthread_cond_wait may return without a signal.
ReaderSpurious(r) ==
    /\ rpc[r] = "waiting"
    /\ rpc' = [rpc EXCEPT ![r] = "relock"]
    /\ UNCHANGED <<lockVars, dataVars, mutex, active_readers, writer_waiting,
                   writer_active, wpc>>

ReaderPrint(r) ==
    /\ rpc[r] = "read"
    /\ seen' = [seen EXCEPT ![r] = shared_buffer]
    /\ rpc' = [rpc EXCEPT ![r] = "lock2"]
    /\ UNCHANGED <<lockVars, running, write_counter, shared_buffer, operations, mutex,
                   active_readers, writer_waiting, writer_active, wpc>>

\* Slip: line 43 is missing.
LeftSlip == {active_readers}

Left == Tally(active_readers - 1)

\* Slip: the count is tested before it is lowered.
WakeWriterSlip(count) ==
    wpc' = IF count = 1 /\ writer_waiting = 1 /\ wpc = "waiting" THEN "relock" ELSE wpc

\* The last reader out wakes the writer; wpc is "waiting" when it sleeps on cond_write.
WakeWriter(count) ==
    wpc' = IF count = 0 /\ writer_waiting = 1 /\ wpc = "waiting" THEN "relock" ELSE wpc

ReaderLeave(r) ==
    /\ rpc[r] = "leave"
    /\ active_readers' \in Left
    /\ WakeWriter(active_readers')
    /\ Release
    /\ rpc' = [rpc EXCEPT ![r] = "loop"]
    /\ UNCHANGED <<lockVars, dataVars, writer_waiting, writer_active>>

\* main() has called pthread_cancel(readers[i]) and waits to join it.  The
\* request is acted upon in usleep or printf, or in pthread_cond_wait, which
\* retakes the mutex before the thread dies: nothing ever gives it back.
ReaderCancelled(r) ==
    /\ mpc = "joinReader" /\ i = r
    /\ \/ /\ rpc[r] = "loop"
          /\ rpc' = [rpc EXCEPT ![r] = "done"]
          /\ UNCHANGED mutex
       \/ /\ rpc[r] = "read"
          /\ rpc' = [rpc EXCEPT ![r] = "diedReading"]
          /\ UNCHANGED mutex
       \/ /\ rpc[r] \in {"waiting", "relock"}
          /\ Acquire(r)
          /\ rpc' = [rpc EXCEPT ![r] = "diedLocked"]
    /\ UNCHANGED <<lockVars, dataVars, active_readers, writer_waiting, writer_active, wpc>>

ReaderStep(r) ==
    \/ ReaderLoop(r) \/ ReaderWait(r) \/ ReaderEnter(r) \/ ReaderPrint(r) \/ ReaderLeave(r)

-----------------------------------------------------------------------------
(* writer_thread *)

\* Slip: the writer does not wait for the readers.
MayWriteSlip == writer_active = 0

MayWrite == active_readers <= 0 /\ writer_active = 0

\* Slip: one round too many.
MoreToWriteSlip == operations <= MAX_OPERATIONS

MoreToWrite == operations < MAX_OPERATIONS

WriterLock ==
    /\ wpc = "loop"
    /\ Acquire(Writer)
    /\ wpc' = IF MoreToWrite THEN "test" ELSE "stop"
    /\ UNCHANGED <<lockVars, dataVars, active_readers, writer_waiting, writer_active, rpc>>

WriterWait ==
    /\ wpc = "test"
    /\ ~MayWrite
    /\ writer_waiting' = 1
    /\ Release
    /\ wpc' = "waiting"
    /\ UNCHANGED <<lockVars, dataVars, active_readers, writer_active, rpc>>

WriterSpurious ==
    /\ wpc = "waiting"
    /\ wpc' = "relock"
    /\ UNCHANGED <<lockVars, dataVars, mutex, active_readers, writer_waiting,
                   writer_active, rpc>>

WriterRelock ==
    /\ wpc = "relock"
    /\ Acquire(Writer)
    /\ writer_waiting' = 0
    /\ wpc' = "test"
    /\ UNCHANGED <<lockVars, dataVars, active_readers, writer_active, rpc>>

WriterEnter ==
    /\ wpc = "test"
    /\ MayWrite
    /\ writer_active' = 1
    /\ Release
    /\ wpc' = "count"
    /\ UNCHANGED <<lockVars, dataVars, active_readers, writer_waiting, rpc>>

\* The counter is bumped and snprintf starts to overwrite the buffer ...
WriterCount ==
    /\ wpc = "count"
    /\ write_counter' = write_counter + 1
    /\ shared_buffer' = Torn
    /\ wpc' = "format"
    /\ UNCHANGED <<lockVars, running, operations, seen, mutex, active_readers,
                   writer_waiting, writer_active, rpc>>

\* ... and is done with it.
WriterFormat ==
    /\ wpc = "format"
    /\ shared_buffer' = write_counter
    /\ wpc' = "show"
    /\ UNCHANGED <<lockVars, running, write_counter, operations, seen, mutex,
                   active_readers, writer_waiting, writer_active, rpc>>

WriterLock2 ==
    /\ wpc = "show"
    /\ Acquire(Writer)
    /\ wpc' = "leave"
    /\ UNCHANGED <<lockVars, dataVars, active_readers, writer_waiting, writer_active, rpc>>

\* The signal of line 86 would be for a second writer: the only one is here.
WriterLeave ==
    /\ wpc = "leave"
    /\ writer_active' = 0
    /\ operations' = operations + 1
    /\ rpc' = IF writer_waiting = 1 THEN rpc ELSE Broadcast(rpc)
    /\ Release
    /\ wpc' = "loop"
    /\ UNCHANGED <<lockVars, running, write_counter, shared_buffer, seen,
                   active_readers, writer_waiting>>

WriterStop ==
    /\ wpc = "stop"
    /\ running' = 0
    /\ rpc' = Broadcast(rpc)
    /\ Release
    /\ wpc' = "done"
    /\ UNCHANGED <<lockVars, write_counter, shared_buffer, operations, seen,
                   active_readers, writer_waiting, writer_active>>

WriterStep == WriterWait \/ WriterEnter \/ WriterCount \/ WriterFormat \/ WriterLeave \/ WriterStop

WriterTakesMutex == WriterLock \/ WriterRelock \/ WriterLock2

-----------------------------------------------------------------------------
(* main *)

threadVars == <<dataVars, mutex, active_readers, writer_waiting, writer_active>>

\* Lines 119-138: a failed initialisation undoes the ones before it and returns.
MainInit ==
    /\ mpc = "init"
    /\ \/ mutexLive' = TRUE /\ mpc' = "create"
       \/ mutexLive' = FALSE /\ mpc' = "return"
    /\ UNCHANGED <<threadVars, rpc, wpc, i, tid_stored>>

\* pthread_create fails (EAGAIN): the threads created so far keep running.
MainCreateFails ==
    /\ mpc = "create"
    /\ mpc' = "destroy"
    /\ UNCHANGED <<threadVars, mutexLive, rpc, wpc, i, tid_stored>>

MainCreateReader ==
    /\ mpc = "create"
    /\ i \in Readers
    /\ rpc' = [rpc EXCEPT ![i] = "loop"]
    /\ mpc' = "store"
    /\ UNCHANGED <<threadVars, mutexLive, wpc, i, tid_stored>>

MainCreateWriter ==
    /\ mpc = "create"
    /\ i \notin Readers
    /\ wpc' = "loop"
    /\ mpc' = "storeWriter"
    /\ UNCHANGED <<threadVars, mutexLive, rpc, i, tid_stored>>

\* Lines 150 and 162: the thread may have run a good while before its id is stored.
MainStoreTid ==
    /\ \/ /\ mpc = "store"
          /\ tid_stored' = tid_stored \cup {i}
          /\ i' = i + 1 /\ mpc' = "create"
       \/ /\ mpc = "storeWriter"
          /\ tid_stored' = tid_stored \cup {Writer}
          /\ mpc' = "join" /\ UNCHANGED i
    /\ UNCHANGED <<threadVars, mutexLive, rpc, wpc>>

\* Lines 164-166; nothing is assumed of how far the readers get in sleep(1).
MainJoinWriter ==
    /\ mpc = "join"
    /\ wpc = "done"
    /\ i' = 1
    /\ mpc' = "cancel"
    /\ UNCHANGED <<threadVars, mutexLive, rpc, wpc, tid_stored>>

MainCancelReader ==
    /\ mpc = "cancel"
    /\ mpc' = IF i \in Readers THEN "joinReader" ELSE "destroy"
    /\ UNCHANGED <<threadVars, mutexLive, rpc, wpc, i, tid_stored>>

\* Slip: the reader is cancelled but not joined.
GoneSlip(r) == TRUE

Gone(r) == rpc[r] \in Ended

MainJoinReader ==
    /\ mpc = "joinReader"
    /\ i \in Readers /\ Gone(i)
    /\ i' = i + 1
    /\ mpc' = "cancel"
    /\ UNCHANGED <<threadVars, mutexLive, rpc, wpc, tid_stored>>

\* pthread_mutex_destroy refuses a locked mutex (EBUSY, which is ignored).
MainDestroy ==
    /\ mpc = "destroy"
    /\ mutexLive' = (mutex # NoOne)
    /\ mpc' = "return"
    /\ UNCHANGED <<threadVars, rpc, wpc, i, tid_stored>>

\* Returning from main ends the process and every thread with it.
MainReturn ==
    /\ mpc = "return"
    /\ mpc' = "exited"
    /\ UNCHANGED <<threadVars, mutexLive, rpc, wpc, i, tid_stored>>

MainStep ==
    \/ MainInit \/ MainCreateFails \/ MainCreateReader \/ MainStoreTid \/ MainCreateWriter
    \/ MainJoinWriter \/ MainCancelReader \/ MainJoinReader
    \/ MainDestroy \/ MainReturn

-----------------------------------------------------------------------------
Init ==
    /\ mutex = NoOne
    /\ mutexLive = FALSE
    /\ active_readers = 0
    /\ writer_waiting = 0
    /\ writer_active = 0
    /\ running = 1
    /\ write_counter = 0
    /\ shared_buffer = 0
    /\ operations = 0
    /\ rpc = [r \in Readers |-> "none"]
    /\ wpc = "none"
    /\ mpc = "init"
    /\ i = 1
    /\ tid_stored = {}
    /\ seen = [r \in Readers |-> 0]

\* A reader died in pthread_cond_wait and the mutex is lost.
Abandoned == \E r \in Readers : rpc[r] = "diedLocked"

\* The process is gone, or main waits for a reader that waits for the lost mutex.
Halted == mpc = "exited" \/ Abandoned

Next ==
    \/ /\ mpc # "exited"
       /\ \/ MainStep
          \/ WriterStep \/ WriterTakesMutex \/ WriterSpurious
          \/ \E r \in Readers : ReaderStep(r) \/ ReaderTakesMutex(r)
          \/ \E r \in Readers : ReaderSpurious(r) \/ ReaderCancelled(r)
    \/ Halted /\ UNCHANGED vars

Spec == Init /\ [][Next]_vars

(***************************************************************************)
(* The kernel runs every thread that can run: weak fairness.  A futex      *)
(* mutex is not handed over in order, but each thread sleeps a tenth of a  *)
(* second or more between two turns with it, so one that keeps finding it  *)
(* free gets it in the end: strong fairness for the three lock calls.      *)
(* Neither spurious wakeups nor cancellation are owed to anyone.           *)
(***************************************************************************)
Alive(A) == mpc # "exited" /\ A

Fairness ==
    /\ WF_vars(Alive(MainStep))
    /\ WF_vars(Alive(WriterStep))
    /\ SF_vars(Alive(WriterTakesMutex))
    /\ \A r \in Readers :
        /\ WF_vars(Alive(ReaderStep(r)))
        /\ SF_vars(Alive(ReaderTakesMutex(r)))

FairSpec == Spec /\ Fairness

-----------------------------------------------------------------------------
(* Properties *)

\* Every variable holds a value of its kind; no more than MAX_OPERATIONS records
\* are counted and no more than READER_COUNT readers.
TypeOK ==
    /\ mutex \in Threads \cup {NoOne}
    /\ mutexLive \in BOOLEAN
    /\ active_readers \in RaceRange
    /\ writer_waiting \in {0, 1}
    /\ writer_active \in {0, 1}
    /\ running \in {0, 1}
    /\ write_counter \in 0..MAX_OPERATIONS
    /\ shared_buffer \in 0..MAX_OPERATIONS \cup {Torn}
    /\ operations \in 0..MAX_OPERATIONS
    /\ rpc \in [Readers -> ReaderPC]
    /\ wpc \in WriterPC
    /\ mpc \in MainPC
    /\ i \in 1..(READER_COUNT + 1)
    /\ tid_stored \subseteq Threads
    /\ seen \in [Readers -> 0..MAX_OPERATIONS \cup {Torn}]

\* The buffer is never read (line 39) while the writer is between lines 75 and
\* 79, although neither holds the mutex there: the counters keep them apart.
ReadWriteExclusion ==
    wpc \in {"count", "format", "show"} => \A r \in Readers : rpc[r] # "read"

\* While the mutex is live, active_readers is the number of readers between
\* lines 35 and 43, also when one of them was cancelled there: a wrong count
\* would either let the writer in too early or keep it out for ever.
CountIsExact ==
    mutexLive => active_readers = Cardinality({r \in Readers : rpc[r] \in Counted})

\* No wakeup is lost.  A writer asleep on cond_write has a reader inside that
\* will signal it (line 46); a reader asleep on cond_read has a writer that is
\* inside or on its way in, and so will broadcast (line 88).
WaitersHaveWakers ==
    /\ wpc = "waiting" =>
        /\ writer_waiting = 1
        /\ \E r \in Readers : rpc[r] \in {"read", "lock2", "leave"}
    /\ \A r \in Readers : rpc[r] = "waiting" =>
        wpc \in {"waiting", "relock", "test"} \cup Writing

\* No reader uses the mutex or a condition variable that main has destroyed,
\* once all threads were created (lines 173-175).
ObjectsOutliveThreads ==
    mpc \in {"destroy", "return"} /\ wpc = "done" =>
        \A r \in Readers : rpc[r] \in Ended

\* A waiting writer is not overtaken: until it gets in, readers only leave.
NoOvertaking ==
    [][(wpc \in {"waiting", "relock"}) => (active_readers' =< active_readers)]_vars

\* The three counters implement the board: readers print whole records, and
\* the newest one.  A record is on the board when snprintf has finished it.
Records ==
    INSTANCE Board WITH
        MaxRecords <- MAX_OPERATIONS,
        latest <- IF wpc = "format" THEN write_counter - 1 ELSE write_counter,
        seen <- seen

BoardSpec == Records!BoardSpec

\* A writer that was started writes MAX_OPERATIONS records and ends, however
\* many readers come and go.
WriterFinishes == (wpc = "loop") ~> (wpc = "done")

\* A reader asleep on cond_read reads in the end, unless it or
\* another reader is cancelled in pthread_cond_wait first.
ReadersGetIn ==
    \A r \in Readers : (rpc[r] = "waiting") ~> (rpc[r] \in {"read"} \cup Ended \/ Halted)

\* Every line a reader prints at 39 carries its own thread id, as the format
\* in messages.h:13 says: main has stored the id by then.
TidsKnown == \A r \in Readers : rpc[r] = "read" => r \in tid_stored

\* The program ends, unless a reader was cancelled in pthread_cond_wait.
Terminates == <>Halted
=============================================================================
