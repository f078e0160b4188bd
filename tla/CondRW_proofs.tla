--------------------------- MODULE CondRW_proofs ---------------------------
(***************************************************************************)
(* Proofs about CondRW for every READER_COUNT and MAX_OPERATIONS.          *)
(*                                                                         *)
(* IInv is inductive.  Its parts say, in the order below: how far main has *)
(* come decides which threads exist; the mutex is held exactly where the   *)
(* program counters say so; the two flags mirror the writer's position;    *)
(* the count is exact; a writer inside means no reader inside; who sleeps  *)
(* has someone to wake it; the buffer and the totals agree.                *)
(***************************************************************************)
EXTENDS CondRW, FiniteSetTheorems, TLAPS

Inside == {r \in Readers : rpc[r] \in Counted}

LockKinds ==
    /\ mutex \in Threads \cup {NoOne}
    /\ mutexLive \in BOOLEAN
    /\ active_readers \in Int
    /\ writer_waiting \in {0, 1}
    /\ writer_active \in {0, 1}
    /\ running \in {0, 1}

ControlKinds ==
    /\ rpc \in [Readers -> ReaderPC]
    /\ wpc \in WriterPC
    /\ mpc \in MainPC
    /\ i \in 1..(READER_COUNT + 1)

DataKinds ==
    /\ operations \in Nat
    /\ tid_stored \subseteq Threads
    /\ seen \in [Readers -> 0..MAX_OPERATIONS \cup {Torn}]

Kinds == LockKinds /\ ControlKinds /\ DataKinds

Stages ==
    /\ mpc \in {"create", "store", "storeWriter", "join", "cancel", "joinReader", "destroy"}
           => mutexLive
    /\ mpc \in {"init", "create", "store"} => wpc = "none"
    /\ mpc \in {"storeWriter", "join"} => wpc # "none"
    /\ mpc \in {"cancel", "joinReader"} => wpc = "done"
    /\ mpc \in {"destroy", "return", "exited"} => wpc \in {"none", "done"}
    /\ mpc \in {"store", "joinReader"} => i \in Readers
    /\ mpc = "init" => i = 1 /\ ~mutexLive /\ active_readers = 0
    /\ mpc \in {"init", "create"} => \A r \in Readers : r >= i => rpc[r] = "none"
    /\ mpc = "store" => \A r \in Readers : r > i => rpc[r] = "none"
    /\ \A r \in Readers : rpc[r] \in Ended => wpc = "done"
    /\ running = 0 => wpc = "done"

Joined ==
    /\ mpc \in {"cancel", "joinReader"} => \A r \in Readers : r < i => rpc[r] \in Ended
    /\ mpc \in {"destroy", "return"} /\ wpc = "done" => \A r \in Readers : rpc[r] \in Ended

Holding ==
    /\ ~mutexLive => mutex = NoOne
    /\ mutexLive =>
        /\ \A r \in Readers : mutex = r <=> rpc[r] \in ReaderHolds
        /\ mutex = Writer <=> wpc \in WriterHolds

Flags ==
    /\ writer_active = 1 <=> wpc \in Writing
    /\ writer_waiting = 1 <=> wpc \in {"waiting", "relock"}

Counts == mutexLive => active_readers = Cardinality(Inside)

Raced == ~mutexLive => active_readers \in RaceRange

Apart == writer_active = 1 => active_readers = 0

Data ==
    /\ shared_buffer = IF wpc = "format" THEN Torn ELSE write_counter
    /\ write_counter = IF wpc \in {"format", "show", "leave"}
                       THEN operations + 1 ELSE operations
    /\ operations <= MAX_OPERATIONS
    /\ wpc \in {"test", "waiting", "relock", "count", "format", "show", "leave"}
           => operations < MAX_OPERATIONS
    /\ wpc = "stop" => operations = MAX_OPERATIONS

IInv ==
    Kinds /\ Stages /\ Joined /\ Holding /\ Flags /\ Counts /\ Raced /\ Apart /\ WaitersHaveWakers /\ Data

-----------------------------------------------------------------------------
\* The threads are numbered apart from one another and from NoOne.
LEMMA PCs ==
    /\ Readers = 1..READER_COUNT
    /\ Writer = 0 /\ NoOne = -1 /\ Torn = -1
    /\ \A r \in Readers : r \in Nat /\ r >= 1 /\ r # Writer /\ r # NoOne
  BY CountsAssumption DEF Readers, Writer, NoOne, Torn

\* Lines 66, 68, 71 and 82 keep the two flags in step with the writer.
LEMMA FlagsStep == IInv /\ [Next]_vars => Flags'
  <1> SUFFICES ASSUME IInv, [Next]_vars PROVE Flags'
    OBVIOUS
  <1> USE DEF Flags, IInv, Kinds, LockKinds, ControlKinds, Stages, WriterPC, MainPC, Writing, lockVars, dataVars
  <1>1. ASSUME MainStep PROVE Flags'
    BY <1>1 DEF MainStep, MainInit, MainCreateFails, MainCreateReader, MainStoreTid,
       MainCreateWriter, MainJoinWriter, MainCancelReader, MainJoinReader, Gone,
       MainDestroy, MainReturn, threadVars
  <1>2. ASSUME WriterStep \/ WriterTakesMutex \/ WriterSpurious PROVE Flags'
    BY <1>2 DEF WriterStep, WriterTakesMutex, WriterSpurious, WriterWait, WriterEnter,
       WriterCount, WriterFormat, WriterLeave, WriterStop, WriterLock, WriterRelock, WriterLock2
  <1>3. ASSUME NEW r \in Readers,
               ReaderStep(r) \/ ReaderTakesMutex(r) \/ ReaderSpurious(r) \/ ReaderCancelled(r)
        PROVE Flags'
    BY <1>3 DEF ReaderStep, ReaderTakesMutex, ReaderSpurious, ReaderCancelled, ReaderLoop,
       ReaderWait, ReaderEnter, ReaderPrint, ReaderLeave, AfterLock, WakeWriter
  <1>4. CASE UNCHANGED vars
    BY <1>4 DEF vars
  <1>5. QED
    BY <1>1, <1>2, <1>3, <1>4 DEF Next

\* Every step keeps the variables of the hand-made lock in their kinds.
LEMMA LockKindsStep == IInv /\ [Next]_vars => LockKinds'
  <1> SUFFICES ASSUME IInv, [Next]_vars PROVE LockKinds'
    OBVIOUS
  <1> USE CountsAssumption, PCs DEF IInv, Kinds, LockKinds, ControlKinds, Stages, ReaderPC, WriterPC, MainPC, lockVars, dataVars, Ended, Threads
  <1>1. ASSUME MainStep PROVE LockKinds'
    BY <1>1 DEF MainStep, MainInit, MainCreateFails, MainCreateReader, MainStoreTid,
       MainCreateWriter, MainJoinWriter, MainCancelReader, MainJoinReader, Gone,
       MainDestroy, MainReturn, threadVars
  <1>2. ASSUME WriterStep \/ WriterTakesMutex \/ WriterSpurious PROVE LockKinds'
    BY <1>2 DEF WriterStep, WriterTakesMutex, WriterSpurious, WriterWait, WriterEnter,
       WriterCount, WriterFormat, WriterLeave, WriterStop, WriterLock, WriterRelock, WriterLock2, Acquire, Release, Broadcast
  <1>3. ASSUME NEW r \in Readers,
               ReaderStep(r) \/ ReaderTakesMutex(r) \/ ReaderSpurious(r) \/ ReaderCancelled(r)
        PROVE LockKinds'
    BY <1>3 DEF ReaderStep, ReaderTakesMutex, ReaderSpurious, ReaderCancelled, ReaderLoop,
       ReaderWait, ReaderEnter, ReaderPrint, ReaderLeave, AfterLock, WakeWriter, Acquire, Release, Left, Tally, RaceRange
  <1>4. CASE UNCHANGED vars
    BY <1>4 DEF vars
  <1>5. QED
    BY <1>1, <1>2, <1>3, <1>4 DEF Next

\* Every step keeps the program counters and the index of main in their kinds.
LEMMA ControlKindsStep == IInv /\ [Next]_vars => ControlKinds'
  <1> SUFFICES ASSUME IInv, [Next]_vars PROVE ControlKinds'
    OBVIOUS
  <1> USE CountsAssumption, PCs DEF IInv, Kinds, LockKinds, ControlKinds, Stages, ReaderPC, WriterPC, MainPC, lockVars, dataVars, Ended, Threads
  <1>1. ASSUME MainStep PROVE ControlKinds'
    BY <1>1 DEF MainStep, MainInit, MainCreateFails, MainCreateReader, MainStoreTid,
       MainCreateWriter, MainJoinWriter, MainCancelReader, MainJoinReader, Gone,
       MainDestroy, MainReturn, threadVars
  <1>2. ASSUME WriterStep \/ WriterTakesMutex \/ WriterSpurious PROVE ControlKinds'
    BY <1>2 DEF WriterStep, WriterTakesMutex, WriterSpurious, WriterWait, WriterEnter,
       WriterCount, WriterFormat, WriterLeave, WriterStop, WriterLock, WriterRelock, WriterLock2, Acquire, Release, Broadcast
  <1>3. ASSUME NEW r \in Readers,
               ReaderStep(r) \/ ReaderTakesMutex(r) \/ ReaderSpurious(r) \/ ReaderCancelled(r)
        PROVE ControlKinds'
    BY <1>3 DEF ReaderStep, ReaderTakesMutex, ReaderSpurious, ReaderCancelled, ReaderLoop,
       ReaderWait, ReaderEnter, ReaderPrint, ReaderLeave, AfterLock, WakeWriter, Acquire, Release, Left, Tally, RaceRange
  <1>4. CASE UNCHANGED vars
    BY <1>4 DEF vars
  <1>5. QED
    BY <1>1, <1>2, <1>3, <1>4 DEF Next

\* Every step keeps the threads that exist in step with how far main has come.
LEMMA StagesStep == IInv /\ [Next]_vars => Stages'
  <1> SUFFICES ASSUME IInv, [Next]_vars PROVE Stages'
    OBVIOUS
  <1> USE CountsAssumption, PCs DEF IInv, Kinds, LockKinds, ControlKinds, Stages, ReaderPC, WriterPC, MainPC, lockVars, dataVars, Flags, Ended, Counted, ReaderHolds
  <1>1. ASSUME MainStep PROVE Stages'
    BY <1>1 DEF MainStep, MainInit, MainCreateFails, MainCreateReader, MainStoreTid,
       MainCreateWriter, MainJoinWriter, MainCancelReader, MainJoinReader, Gone,
       MainDestroy, MainReturn, threadVars
  <1>2. ASSUME WriterStep \/ WriterTakesMutex \/ WriterSpurious PROVE Stages'
    BY <1>2 DEF WriterStep, WriterTakesMutex, WriterSpurious, WriterWait, WriterEnter,
       WriterCount, WriterFormat, WriterLeave, WriterStop, WriterLock, WriterRelock, WriterLock2, Acquire, Release, Broadcast
  <1>3. ASSUME NEW r \in Readers,
               ReaderStep(r) \/ ReaderTakesMutex(r) \/ ReaderSpurious(r) \/ ReaderCancelled(r)
        PROVE Stages'
    BY <1>3 DEF ReaderStep, ReaderTakesMutex, ReaderSpurious, ReaderCancelled, ReaderLoop,
       ReaderWait, ReaderEnter, ReaderPrint, ReaderLeave, AfterLock, WakeWriter, Acquire, Release
  <1>4. CASE UNCHANGED vars
    BY <1>4 DEF vars
  <1>5. QED
    BY <1>1, <1>2, <1>3, <1>4 DEF Next

\* Lines 164-171: what main has joined stays joined.
LEMMA JoinedStep == IInv /\ [Next]_vars => Joined'
  <1> SUFFICES ASSUME IInv, [Next]_vars PROVE Joined'
    OBVIOUS
  <1> USE CountsAssumption, PCs DEF IInv, Kinds, LockKinds, ControlKinds, Stages, ReaderPC, WriterPC, MainPC, lockVars, dataVars, Joined, Ended
  <1>1. ASSUME MainStep PROVE Joined'
    BY <1>1 DEF MainStep, MainInit, MainCreateFails, MainCreateReader, MainStoreTid,
       MainCreateWriter, MainJoinWriter, MainCancelReader, MainJoinReader, Gone,
       MainDestroy, MainReturn, threadVars
  <1>2. ASSUME WriterStep \/ WriterTakesMutex \/ WriterSpurious PROVE Joined'
    BY <1>2 DEF WriterStep, WriterTakesMutex, WriterSpurious, WriterWait, WriterEnter,
       WriterCount, WriterFormat, WriterLeave, WriterStop, WriterLock, WriterRelock, WriterLock2, Acquire, Release, Broadcast
  <1>3. ASSUME NEW r \in Readers,
               ReaderStep(r) \/ ReaderTakesMutex(r) \/ ReaderSpurious(r) \/ ReaderCancelled(r)
        PROVE Joined'
    BY <1>3 DEF ReaderStep, ReaderTakesMutex, ReaderSpurious, ReaderCancelled, ReaderLoop,
       ReaderWait, ReaderEnter, ReaderPrint, ReaderLeave, AfterLock, WakeWriter, Acquire, Release
  <1>4. CASE UNCHANGED vars
    BY <1>4 DEF vars
  <1>5. QED
    BY <1>1, <1>2, <1>3, <1>4 DEF Next

\* Every lock, unlock, wait and cancellation keeps the holder of the mutex and
\* the program counters in agreement.
LEMMA HoldingStep == IInv /\ [Next]_vars => Holding'
  <1> SUFFICES ASSUME IInv, [Next]_vars PROVE Holding'
    OBVIOUS
  <1> USE CountsAssumption, PCs DEF IInv, Kinds, LockKinds, ControlKinds, Stages, ReaderPC, WriterPC, MainPC, lockVars, dataVars, Joined, Ended, Flags, Holding, ReaderHolds, WriterHolds, Threads
  <1>1. ASSUME MainStep PROVE Holding'
    BY <1>1 DEF MainStep, MainInit, MainCreateFails, MainCreateReader, MainStoreTid,
       MainCreateWriter, MainJoinWriter, MainCancelReader, MainJoinReader, Gone,
       MainDestroy, MainReturn, threadVars
  <1>2. ASSUME WriterStep \/ WriterTakesMutex \/ WriterSpurious PROVE Holding'
    BY <1>2 DEF WriterStep, WriterTakesMutex, WriterSpurious, WriterWait, WriterEnter,
       WriterCount, WriterFormat, WriterLeave, WriterStop, WriterLock, WriterRelock, WriterLock2, Acquire, Release, Broadcast
  <1>3. ASSUME NEW r \in Readers,
               ReaderStep(r) \/ ReaderTakesMutex(r) \/ ReaderSpurious(r) \/ ReaderCancelled(r)
        PROVE Holding'
    BY <1>3 DEF ReaderStep, ReaderTakesMutex, ReaderSpurious, ReaderCancelled, ReaderLoop,
       ReaderWait, ReaderEnter, ReaderPrint, ReaderLeave, AfterLock, WakeWriter, Acquire, Release
  <1>4. CASE UNCHANGED vars
    BY <1>4 DEF vars
  <1>5. QED
    BY <1>1, <1>2, <1>3, <1>4 DEF Next

\* The buffer holds a record that was written, or is being overwritten.
LEMMA BufferInRange == IInv => shared_buffer \in 0..MAX_OPERATIONS \cup {Torn}
  BY CountsAssumption, PCs DEF IInv, Kinds, DataKinds, ControlKinds, Data, WriterPC

\* Every step keeps what the readers saw in its kind.
LEMMA DataKindsStep == IInv /\ [Next]_vars => DataKinds'
  <1> SUFFICES ASSUME IInv, [Next]_vars PROVE DataKinds'
    OBVIOUS
  <1> USE DEF IInv, Kinds, DataKinds, lockVars, dataVars
  <1>1. ASSUME MainStep PROVE DataKinds'
    BY PCs, <1>1 DEF Stages, Threads, MainStep, MainInit, MainCreateFails, MainCreateReader, MainStoreTid,
       MainCreateWriter, MainJoinWriter, MainCancelReader, MainJoinReader, Gone,
       MainDestroy, MainReturn, threadVars
  <1>2. ASSUME WriterStep \/ WriterTakesMutex \/ WriterSpurious PROVE DataKinds'
    BY <1>2 DEF WriterStep, WriterTakesMutex, WriterSpurious, WriterWait, WriterEnter,
       WriterCount, WriterFormat, WriterLeave, WriterStop, WriterLock, WriterRelock, WriterLock2
  <1>3. ASSUME NEW r \in Readers,
               ReaderStep(r) \/ ReaderTakesMutex(r) \/ ReaderSpurious(r) \/ ReaderCancelled(r)
        PROVE DataKinds'
    <2>1. CASE ReaderPrint(r)
      BY <2>1, BufferInRange DEF ReaderPrint
    <2>2. CASE ~ReaderPrint(r)
      BY <1>3, <2>2 DEF ReaderStep, ReaderTakesMutex, ReaderSpurious, ReaderCancelled, ReaderLoop,
         ReaderWait, ReaderEnter, ReaderLeave, AfterLock
    <2>3. QED
      BY <2>1, <2>2
  <1>4. CASE UNCHANGED vars
    BY <1>4 DEF vars
  <1>5. QED
    BY <1>1, <1>2, <1>3, <1>4 DEF Next

\* Lines 75-83: the buffer and the two totals of the writer agree.
LEMMA DataStep == IInv /\ [Next]_vars => Data'
  <1> SUFFICES ASSUME IInv, [Next]_vars PROVE Data'
    OBVIOUS
  <1> USE CountsAssumption, PCs
      DEF IInv, Kinds, ControlKinds, DataKinds, Data, WriterPC, lockVars, dataVars
  <1>1. ASSUME MainStep PROVE Data'
    BY <1>1 DEF Stages, MainStep, MainInit, MainCreateFails, MainCreateReader, MainStoreTid,
       MainCreateWriter, MainJoinWriter, MainCancelReader, MainJoinReader, Gone,
       MainDestroy, MainReturn, threadVars
  <1>2. ASSUME WriterStep \/ WriterTakesMutex \/ WriterSpurious PROVE Data'
    <2>1. CASE WriterTakesMutex \/ WriterSpurious
      BY <2>1 DEF WriterTakesMutex, WriterSpurious, WriterLock, WriterRelock, WriterLock2,
         MoreToWrite
    <2>2. CASE WriterWait \/ WriterEnter \/ WriterStop
      BY <2>2 DEF WriterWait, WriterEnter, WriterStop
    <2>3. CASE WriterCount \/ WriterFormat
      BY <2>3 DEF WriterCount, WriterFormat
    <2>4. CASE WriterLeave
      BY <2>4 DEF WriterLeave
    <2>5. QED
      BY <1>2, <2>1, <2>2, <2>3, <2>4 DEF WriterStep
  <1>3. ASSUME NEW r \in Readers,
               ReaderStep(r) \/ ReaderTakesMutex(r) \/ ReaderSpurious(r) \/ ReaderCancelled(r)
        PROVE Data'
    BY <1>3 DEF ReaderStep, ReaderTakesMutex, ReaderSpurious, ReaderCancelled, ReaderLoop,
       ReaderWait, ReaderEnter, ReaderPrint, ReaderLeave, AfterLock, WakeWriter
  <1>4. CASE UNCHANGED vars
    BY <1>4 DEF vars
  <1>5. QED
    BY <1>1, <1>2, <1>3, <1>4 DEF Next

\* The readers that are counted are finitely many, and counting them is what
\* active_readers > 0 and active_readers = 0 are about.
LEMMA InsideFinite ==
    /\ IsFiniteSet(Inside)
    /\ Cardinality(Inside) \in 0..READER_COUNT
    /\ Cardinality(Inside) = 0 <=> Inside = {}
  <1>1. IsFiniteSet(Readers) /\ Cardinality(Readers) = READER_COUNT
    BY CountsAssumption, FS_Interval DEF Readers
  <1>2. IsFiniteSet(Inside) /\ Cardinality(Inside) <= READER_COUNT
    BY <1>1, FS_Subset DEF Inside
  <1>3. QED
    BY <1>2, CountsAssumption, FS_CardinalityType, FS_EmptySet

\* While the writer is on its way, nobody has destroyed the mutex.
LEMMA WriterNeedsMutex == IInv /\ wpc \notin {"none", "done"} => mutexLive
  BY DEF IInv, Kinds, ControlKinds, Stages, WriterPC, MainPC

\* Lines 35 and 43 keep the count exact.
LEMMA CountsStep == IInv /\ [Next]_vars => Counts'
  <1> SUFFICES ASSUME IInv, [Next]_vars, mutexLive' PROVE active_readers' = Cardinality(Inside')
    BY DEF Counts
  <1>0. mutexLive => active_readers = Cardinality(Inside)
    BY DEF IInv, Counts
  <1> USE DEF IInv, Kinds, ControlKinds, LockKinds, lockVars, dataVars
  <1>1. ASSUME MainStep PROVE active_readers' = Cardinality(Inside')
    <2>1. CASE MainInit
      <3>1. Inside' = {} /\ active_readers' = 0
        BY <2>1, PCs DEF MainInit, Stages, Inside, Counted, threadVars
      <3>2. QED
        BY <3>1, FS_EmptySet
    <2>2. CASE MainCreateReader
      <3>1. Inside' = Inside
        BY <2>2, PCs DEF MainCreateReader, Stages, Inside, Counted
      <3>2. QED
        BY <3>1, <2>2, <1>0 DEF MainCreateReader, Stages, threadVars
    <2>3. CASE ~MainInit /\ ~MainCreateReader
      <3>1. mutexLive /\ UNCHANGED <<rpc, active_readers>>
        BY <1>1, <2>3 DEF MainStep, MainCreateFails, MainStoreTid, MainCreateWriter,
           MainJoinWriter, MainCancelReader, MainJoinReader, Gone, MainDestroy,
           MainReturn, threadVars, Stages
      <3>2. QED
        BY <3>1, <1>0 DEF Inside
    <2>4. QED
      BY <2>1, <2>2, <2>3
  <1>2. ASSUME WriterStep \/ WriterTakesMutex \/ WriterSpurious
        PROVE active_readers' = Cardinality(Inside')
    <2>1. mutexLive /\ UNCHANGED active_readers
      BY <1>2 DEF WriterStep, WriterTakesMutex, WriterSpurious, WriterWait, WriterEnter,
         WriterCount, WriterFormat, WriterLeave, WriterStop, WriterLock, WriterRelock, WriterLock2
    <2>2. Inside' = Inside
      <3>1. rpc' = rpc \/ rpc' = Broadcast(rpc)
        BY <1>2 DEF WriterStep, WriterTakesMutex, WriterSpurious, WriterWait, WriterEnter,
           WriterCount, WriterFormat, WriterLeave, WriterStop, WriterLock, WriterRelock, WriterLock2
      <3>2. QED
        BY <3>1 DEF Broadcast, Inside, Counted
    <2>3. QED
      BY <2>1, <2>2, <1>0
  <1>3. ASSUME NEW r \in Readers,
               ReaderStep(r) \/ ReaderTakesMutex(r) \/ ReaderSpurious(r) \/ ReaderCancelled(r)
        PROVE active_readers' = Cardinality(Inside')
    <2>1. mutexLive
      BY <1>3 DEF ReaderStep, ReaderTakesMutex, ReaderSpurious, ReaderCancelled, ReaderLoop,
         ReaderWait, ReaderEnter, ReaderPrint, ReaderLeave, AfterLock, WakeWriter
    <2>2. CASE ReaderEnter(r)
      <3>1. Inside' = Inside \cup {r} /\ r \notin Inside
        BY <2>2 DEF ReaderEnter, Inside, Counted
      <3>2. active_readers' = active_readers + 1
        BY <2>1, <2>2 DEF ReaderEnter, Left, Tally
      <3>3. QED
        BY <3>1, <3>2, <2>1, <1>0, InsideFinite, FS_AddElement
    <2>3. CASE ReaderLeave(r)
      <3>1. Inside' = Inside \ {r} /\ r \in Inside
        BY <2>3 DEF ReaderLeave, Inside, Counted
      <3>2. active_readers' = active_readers - 1
        BY <2>1, <2>3 DEF ReaderLeave, Left, Tally
      <3>3. QED
        BY <3>1, <3>2, <2>1, <1>0, InsideFinite, FS_RemoveElement
    <2>4. CASE ~ReaderEnter(r) /\ ~ReaderLeave(r)
      <3>1. Inside' = Inside
        <4>1. CASE ReaderTakesMutex(r)
          BY <4>1 DEF ReaderTakesMutex, AfterLock, Inside, Counted
        <4>2. CASE ~ReaderTakesMutex(r)
          BY <1>3, <2>4, <4>2 DEF ReaderStep, ReaderSpurious, ReaderCancelled, ReaderLoop,
             ReaderWait, ReaderPrint, Inside, Counted
        <4>3. QED
          BY <4>1, <4>2
      <3>2. UNCHANGED active_readers
        BY <1>3, <2>4 DEF ReaderStep, ReaderTakesMutex, ReaderSpurious, ReaderCancelled,
           ReaderLoop, ReaderWait, ReaderPrint, AfterLock
      <3>3. QED
        BY <3>1, <3>2, <2>1, <1>0
    <2>5. QED
      BY <2>2, <2>3, <2>4
  <1>4. CASE UNCHANGED vars
    BY <1>4, <1>0 DEF vars, Inside
  <1>5. QED
    BY <1>1, <1>2, <1>3, <1>4 DEF Next

\* Even unprotected, after a failed creation, the count stays in its range.
LEMMA RacedStep == IInv /\ [Next]_vars => Raced'
  <1> SUFFICES ASSUME IInv, [Next]_vars PROVE Raced'
    OBVIOUS
  <1> USE DEF IInv, Kinds, LockKinds, Raced, lockVars, dataVars
  <1>0. mutexLive => active_readers \in RaceRange
    BY InsideFinite, CountsAssumption DEF Counts, RaceRange
  <1>1. ASSUME MainStep PROVE Raced'
    BY <1>0, <1>1 DEF MainStep, MainInit, MainCreateFails, MainCreateReader, MainStoreTid,
       MainCreateWriter, MainJoinWriter, MainCancelReader, MainJoinReader, Gone,
       MainDestroy, MainReturn, threadVars
  <1>2. ASSUME WriterStep \/ WriterTakesMutex \/ WriterSpurious PROVE Raced'
    BY <1>2 DEF WriterStep, WriterTakesMutex, WriterSpurious, WriterWait, WriterEnter,
       WriterCount, WriterFormat, WriterLeave, WriterStop, WriterLock, WriterRelock, WriterLock2
  <1>3. ASSUME NEW r \in Readers,
               ReaderStep(r) \/ ReaderTakesMutex(r) \/ ReaderSpurious(r) \/ ReaderCancelled(r)
        PROVE Raced'
    BY <1>3 DEF ReaderStep, ReaderTakesMutex, ReaderSpurious, ReaderCancelled, ReaderLoop,
       ReaderWait, ReaderEnter, ReaderPrint, ReaderLeave, AfterLock, WakeWriter, Left, Tally
  <1>4. CASE UNCHANGED vars
    BY <1>4 DEF vars
  <1>5. QED
    BY <1>1, <1>2, <1>3, <1>4 DEF Next

\* Lines 31, 65 and 71: the writer gets in only when the count is zero, and no
\* reader gets in after it.
LEMMA ApartStep == IInv /\ [Next]_vars => Apart'
  <1> SUFFICES ASSUME IInv, [Next]_vars, writer_active' = 1 PROVE active_readers' = 0
    BY DEF Apart
  <1> USE DEF IInv, Kinds, ControlKinds, LockKinds, Flags, Apart, Writing, lockVars, dataVars
  <1>1. ASSUME MainStep PROVE active_readers' = 0
    BY <1>1 DEF MainStep, MainInit, MainCreateFails, MainCreateReader, MainStoreTid,
       MainCreateWriter, MainJoinWriter, MainCancelReader, MainJoinReader, Gone,
       MainDestroy, MainReturn, threadVars
  <1>2. ASSUME WriterStep \/ WriterTakesMutex \/ WriterSpurious PROVE active_readers' = 0
    <2>1. CASE WriterEnter
      <3>1. active_readers <= 0 /\ active_readers' = active_readers
        BY <2>1 DEF WriterEnter, MayWrite
      <3>2. mutexLive
        BY <2>1, WriterNeedsMutex DEF WriterEnter
      <3>3. QED
        BY <3>1, <3>2, InsideFinite DEF Counts
    <2>2. CASE ~WriterEnter
      BY <1>2, <2>2 DEF WriterStep, WriterTakesMutex, WriterSpurious, WriterWait, WriterCount,
         WriterFormat, WriterLeave, WriterStop, WriterLock, WriterRelock, WriterLock2
    <2>3. QED
      BY <2>1, <2>2
  <1>3. ASSUME NEW r \in Readers,
               ReaderStep(r) \/ ReaderTakesMutex(r) \/ ReaderSpurious(r) \/ ReaderCancelled(r)
        PROVE active_readers' = 0
    <2>1. writer_active = 1
      BY <1>3 DEF ReaderStep, ReaderTakesMutex, ReaderSpurious, ReaderCancelled, ReaderLoop,
         ReaderWait, ReaderEnter, ReaderPrint, ReaderLeave, AfterLock, WakeWriter
    <2>2. active_readers = 0 /\ mutexLive
      BY <2>1, WriterNeedsMutex
    <2>3. ~ReaderEnter(r)
      BY <2>1 DEF ReaderEnter, MayRead
    <2>4. ~ReaderLeave(r)
      <3>1. Inside = {}
        BY <2>2, InsideFinite DEF Counts
      <3>2. QED
        BY <3>1 DEF ReaderLeave, Inside, Counted
    <2>5. QED
      BY <1>3, <2>2, <2>3, <2>4 DEF ReaderStep, ReaderTakesMutex, ReaderSpurious,
         ReaderCancelled, ReaderLoop, ReaderWait, ReaderPrint, AfterLock
  <1>4. CASE UNCHANGED vars
    BY <1>4 DEF vars
  <1>5. QED
    BY <1>1, <1>2, <1>3, <1>4 DEF Next

\* Somebody a waiting writer can count on.
AnyInside == \E r \in Readers : rpc[r] \in {"read", "lock2", "leave"}

\* A count above zero is some reader that will get to line 45.
LEMMA CountedMeansAwake ==
    IInv /\ wpc \notin {"none", "done"} /\ active_readers # 0 => AnyInside
  <1> SUFFICES ASSUME IInv, wpc \notin {"none", "done"}, active_readers # 0
               PROVE AnyInside
    OBVIOUS
  <1>1. Inside # {}
    BY WriterNeedsMutex, InsideFinite DEF IInv, Counts
  <1>2. PICK r \in Readers : rpc[r] \in Counted
    BY <1>1 DEF Inside
  <1>3. rpc[r] # "diedReading"
    BY <1>2 DEF IInv, Stages, Ended
  <1>4. QED
    BY <1>2, <1>3 DEF Counted, AnyInside

\* Every step leaves each sleeper a thread that will wake it.
LEMMA WakersStep == IInv /\ [Next]_vars => WaitersHaveWakers'
  <1> SUFFICES ASSUME IInv, [Next]_vars PROVE WaitersHaveWakers'
    OBVIOUS
  <1>a. Flags' /\ Counts' /\ Stages'
    BY FlagsStep, CountsStep, StagesStep
  <1> USE DEF IInv, Kinds, ControlKinds, lockVars, dataVars
  <1>1. wpc' = "waiting" => writer_waiting' = 1
    BY <1>a DEF Flags
  <1>2. wpc' = "waiting" => AnyInside'
    <2> SUFFICES ASSUME wpc' = "waiting" PROVE AnyInside'
      OBVIOUS
    <2> USE DEF WaitersHaveWakers
    <2>1. ASSUME MainStep PROVE AnyInside'
      BY <2>1 DEF Stages, AnyInside, MainStep, MainInit, MainCreateFails, MainCreateReader, MainStoreTid,
         MainCreateWriter, MainJoinWriter, MainCancelReader, MainJoinReader, Gone,
         MainDestroy, MainReturn, threadVars
    <2>2. CASE WriterWait
      <3>1. active_readers # 0 /\ UNCHANGED rpc
        BY <2>2 DEF WriterWait, MayWrite, Flags, Writing, LockKinds
      <3>2. QED
        BY <2>2, <3>1, CountedMeansAwake DEF WriterWait, AnyInside
    <2>3. ASSUME WriterStep \/ WriterTakesMutex \/ WriterSpurious, ~WriterWait PROVE AnyInside'
      BY <2>3 DEF WriterStep, WriterTakesMutex, WriterSpurious, WriterWait, WriterEnter,
         WriterCount, WriterFormat, WriterLeave, WriterStop, WriterLock, WriterRelock, WriterLock2
    <2>4. ASSUME NEW r \in Readers, ReaderLeave(r) PROVE AnyInside'
      <3>1. wpc = "waiting" /\ writer_waiting = 1
        BY <2>4 DEF ReaderLeave, WakeWriter
      <3>2. active_readers' # 0 /\ mutexLive'
        BY <2>4, <3>1, WriterNeedsMutex DEF ReaderLeave, WakeWriter
      <3>3. Inside' # {}
        <4>1. active_readers' = Cardinality(Inside')
          BY <1>a, <3>2 DEF Counts
        <4>2. QED
          BY <4>1, <3>2, FS_EmptySet
      <3>4. PICK q \in Readers : rpc'[q] \in Counted
        BY <3>3 DEF Inside
      <3>5. rpc'[q] # "diedReading"
        BY <1>a DEF Stages, Ended
      <3>6. QED
        BY <3>4, <3>5 DEF Counted, AnyInside
    <2>5. ASSUME NEW r \in Readers, ReaderStep(r) \/ ReaderTakesMutex(r) \/ ReaderSpurious(r)
                 \/ ReaderCancelled(r),
                 ~ReaderLeave(r)
          PROVE AnyInside'
      <3>1. wpc = "waiting" /\ mpc # "joinReader"
        BY <2>5 DEF Stages, ReaderStep, ReaderTakesMutex, ReaderSpurious, ReaderCancelled, ReaderLoop,
           ReaderWait, ReaderEnter, ReaderPrint, ReaderLeave, AfterLock
      <3>2. PICK q \in Readers : rpc[q] \in {"read", "lock2", "leave"}
        BY <3>1
      <3>3. rpc'[q] \in {"read", "lock2", "leave"}
        BY <2>5, <3>1, <3>2 DEF ReaderStep, ReaderTakesMutex, ReaderSpurious, ReaderCancelled, ReaderLoop,
           ReaderWait, ReaderEnter, ReaderPrint, ReaderLeave, AfterLock
      <3>4. QED
        BY <3>3 DEF AnyInside
    <2>6. CASE UNCHANGED vars
      BY <2>6 DEF vars, AnyInside
    <2>7. QED
      BY <2>1, <2>2, <2>3, <2>4, <2>5, <2>6 DEF Next
  <1>3. ASSUME NEW q \in Readers, rpc'[q] = "waiting"
        PROVE wpc' \in {"waiting", "relock", "test"} \cup Writing
    <2> USE <1>3 DEF WaitersHaveWakers, Writing
    <2>1. CASE MainStep
      BY <2>1 DEF Stages, MainStep, MainInit, MainCreateFails, MainCreateReader, MainStoreTid,
         MainCreateWriter, MainJoinWriter, MainCancelReader, MainJoinReader, Gone,
         MainDestroy, MainReturn, threadVars
    <2>2. CASE WriterStep \/ WriterTakesMutex \/ WriterSpurious
      BY <2>2 DEF Flags, Broadcast, WriterStep, WriterTakesMutex, WriterSpurious, WriterWait, WriterEnter,
         WriterCount, WriterFormat, WriterLeave, WriterStop, WriterLock, WriterRelock, WriterLock2
    <2>3. ASSUME NEW r \in Readers,
                 ReaderStep(r) \/ ReaderTakesMutex(r) \/ ReaderSpurious(r) \/ ReaderCancelled(r)
          PROVE wpc' \in {"waiting", "relock", "test"} \cup Writing
      BY <2>3 DEF Flags, MayRead, LockKinds, ReaderStep, ReaderTakesMutex, ReaderSpurious, ReaderCancelled, ReaderLoop,
         ReaderWait, ReaderEnter, ReaderPrint, ReaderLeave, AfterLock, WakeWriter
    <2>4. CASE UNCHANGED vars
      BY <2>4 DEF vars
    <2>5. QED
      BY <2>1, <2>2, <2>3, <2>4 DEF Next
  <1>4. QED
    BY <1>1, <1>2, <1>3 DEF WaitersHaveWakers, AnyInside

\* main starts with nothing created and nothing counted.
LEMMA InitIInv == Init => IInv
  <1> SUFFICES ASSUME Init PROVE IInv
    OBVIOUS
  <1> USE CountsAssumption, PCs DEF Init
  <1>1. Kinds
    <2>1. LockKinds
      <3>1. mutex \in Threads \cup {NoOne} /\ mutexLive \in BOOLEAN
        OBVIOUS
      <3>2. active_readers \in Int /\ writer_waiting \in {0, 1} /\ writer_active \in {0, 1}
        OBVIOUS
      <3>3. running \in {0, 1}
        OBVIOUS
      <3>4. QED
        BY <3>1, <3>2, <3>3 DEF LockKinds
    <2>2. rpc \in [Readers -> ReaderPC] /\ wpc \in WriterPC /\ mpc \in MainPC
      BY DEF ReaderPC, WriterPC, MainPC
    <2>3. i \in 1..(READER_COUNT + 1)
      OBVIOUS
    <2>4. DataKinds
      BY DEF DataKinds
    <2>5. QED
      BY <2>1, <2>2, <2>3, <2>4 DEF Kinds, ControlKinds
  <1>2. Stages /\ Joined /\ Holding /\ Flags /\ Counts /\ Raced /\ Apart /\ Data
    BY DEF Stages, Joined, Holding, Flags, Counts, Raced, RaceRange, Apart, Data, Ended, Writing
  <1>3. WaitersHaveWakers
    BY DEF WaitersHaveWakers
  <1>4. QED
    BY <1>1, <1>2, <1>3 DEF IInv

\* IInv is inductive.
LEMMA StepIInv == IInv /\ [Next]_vars => IInv'
  BY LockKindsStep, ControlKindsStep, DataKindsStep, StagesStep, JoinedStep, HoldingStep,
     FlagsStep, CountsStep, RacedStep, ApartStep, WakersStep, DataStep DEF IInv, Kinds

\* The count and the flags of IInv exclude a reader beside the writer.
LEMMA NoReaderWithWriter == IInv => ReadWriteExclusion
  <1> SUFFICES ASSUME IInv, wpc \in {"count", "format", "show"},
                      NEW r \in Readers, rpc[r] = "read"
               PROVE FALSE
    BY DEF ReadWriteExclusion
  <1>1. mutexLive /\ active_readers = 0
    BY WriterNeedsMutex DEF IInv, Flags, Writing, Apart
  <1>2. Inside = {}
    BY <1>1, InsideFinite DEF IInv, Counts
  <1>3. QED
    BY <1>2 DEF Inside, Counted

\* IInv holds in every reachable state.
LEMMA Invariance == Spec => []IInv
  BY InitIInv, StepIInv, PTL DEF Spec

-----------------------------------------------------------------------------
\* Line 43 undoes line 35 exactly once for every reader, whatever the schedule:
\* the count main, the readers and the writer act upon is the number of readers inside.
THEOREM ExactCount == Spec => []CountIsExact
  <1>1. IInv => CountIsExact
    BY DEF IInv, Counts, CountIsExact, Inside
  <1>2. QED
    BY <1>1, Invariance, PTL

\* Lines 31, 65 and 71 keep readers and the writer out of the buffer together,
\* without either holding the mutex there.
THEOREM Exclusion == Spec => []ReadWriteExclusion
  BY NoReaderWithWriter, Invariance, PTL

\* The signal of line 46 and the broadcast of line 88 are never missed by the
\* thread they are meant for.
THEOREM NoLostWakeup == Spec => []WaitersHaveWakers
  <1>1. IInv => WaitersHaveWakers
    BY DEF IInv
  <1>2. QED
    BY <1>1, Invariance, PTL

\* Lines 164-171 join every thread before lines 173-175 destroy what they use.
THEOREM JoinBeforeDestroy == Spec => []ObjectsOutliveThreads
  <1>1. IInv => ObjectsOutliveThreads
    BY DEF IInv, Joined, ObjectsOutliveThreads
  <1>2. QED
    BY <1>1, Invariance, PTL

\* Every variable keeps to its kind and its bounds.
THEOREM TypeCorrect == Spec => []TypeOK
  <1>1. IInv => active_readers \in RaceRange
    <2> SUFFICES ASSUME IInv PROVE active_readers \in RaceRange
      OBVIOUS
    <2>1. CASE mutexLive
      BY <2>1, InsideFinite, CountsAssumption DEF IInv, Counts, RaceRange
    <2>2. CASE ~mutexLive
      BY <2>2 DEF IInv, Raced
    <2>3. QED
      BY <2>1, <2>2
  <1>2. IInv => TypeOK
    BY <1>1, BufferInRange, CountsAssumption, PCs
       DEF IInv, Kinds, LockKinds, ControlKinds, DataKinds, Data, TypeOK, WriterPC
  <1>3. QED
    BY <1>2, Invariance, PTL

\* While the writer waits, line 31 lets no reader in.
THEOREM WriterNotOvertaken == Spec => NoOvertaking
  <1>1. IInv /\ [Next]_vars =>
            [(wpc \in {"waiting", "relock"}) => (active_readers' =< active_readers)]_vars
    <2> SUFFICES ASSUME IInv, Next, wpc \in {"waiting", "relock"}
                 PROVE active_readers' =< active_readers
      OBVIOUS
    <2>1. mutexLive /\ writer_waiting = 1 /\ active_readers \in Int
      BY WriterNeedsMutex DEF IInv, Flags, Kinds, LockKinds
    <2> USE <2>1 DEF lockVars, dataVars
    <2>2. ASSUME MainStep PROVE UNCHANGED active_readers
      BY <2>2 DEF MainStep, MainInit, MainCreateFails, MainCreateReader, MainStoreTid,
         MainCreateWriter, MainJoinWriter, MainCancelReader, MainJoinReader, Gone,
         MainDestroy, MainReturn, threadVars
    <2>3. ASSUME WriterStep \/ WriterTakesMutex \/ WriterSpurious PROVE UNCHANGED active_readers
      BY <2>3 DEF WriterStep, WriterTakesMutex, WriterSpurious, WriterWait, WriterEnter,
         WriterCount, WriterFormat, WriterLeave, WriterStop, WriterLock, WriterRelock, WriterLock2
    <2>4. ASSUME NEW r \in Readers,
                 ReaderStep(r) \/ ReaderTakesMutex(r) \/ ReaderSpurious(r) \/ ReaderCancelled(r)
          PROVE UNCHANGED active_readers \/ active_readers' = active_readers - 1
      <3>1. ~ReaderEnter(r)
        BY DEF ReaderEnter, MayRead
      <3>2. ReaderLeave(r) => active_readers' = active_readers - 1
        BY DEF ReaderLeave, Left, Tally
      <3>3. QED
        BY <2>4, <3>1, <3>2 DEF ReaderStep, ReaderTakesMutex, ReaderSpurious, ReaderCancelled,
           ReaderLoop, ReaderWait, ReaderPrint, AfterLock
    <2>5. CASE UNCHANGED vars
      BY <2>5 DEF vars
    <2>6. UNCHANGED active_readers \/ active_readers' = active_readers - 1
      BY <2>2, <2>3, <2>4, <2>5 DEF Next, vars
    <2>7. QED
      BY <2>1, <2>6
  <1>2. QED
    BY <1>1, Invariance, PTL DEF Spec, NoOvertaking

\* The hand-made lock implements the board: what readers print at line 39 is
\* always the whole record the writer finished last.
THEOREM ImplementsBoard == Spec => BoardSpec
  <1>1. Init => Records!BoardInit
    BY DEF Init, Records!BoardInit
  <1>2. IInv /\ [Next]_vars => [Records!BoardNext]_(Records!boardVars)
    <2> SUFFICES ASSUME IInv, [Next]_vars
                 PROVE Records!BoardNext \/ UNCHANGED Records!boardVars
      OBVIOUS
    <2> USE DEF Records!boardVars, lockVars, dataVars
    <2>1. CASE MainStep
      BY <2>1 DEF IInv, Stages, MainStep, MainInit, MainCreateFails, MainCreateReader, MainStoreTid,
         MainCreateWriter, MainJoinWriter, MainCancelReader, MainJoinReader, Gone,
         MainDestroy, MainReturn, threadVars
    <2>2. CASE WriterFormat
      <3>1. Records!Publish
        BY <2>2, CountsAssumption DEF IInv, Kinds, DataKinds, Data, WriterFormat, Records!Publish
      <3>2. QED
        BY <3>1 DEF Records!BoardNext
    <2>3. CASE WriterCount
      BY <2>3 DEF WriterCount, IInv, Kinds, DataKinds, Data
    <2>4. ASSUME WriterStep \/ WriterTakesMutex \/ WriterSpurious, ~WriterFormat, ~WriterCount
          PROVE UNCHANGED Records!boardVars
      BY <2>4 DEF WriterStep, WriterTakesMutex, WriterSpurious, WriterWait, WriterEnter,
         WriterCount, WriterFormat, WriterLeave, WriterStop, WriterLock, WriterRelock, WriterLock2
    <2>5. ASSUME NEW r \in Readers, ReaderPrint(r)
          PROVE Records!BoardNext
      <3>1. wpc # "format"
        BY NoReaderWithWriter, <2>5 DEF ReaderPrint, ReadWriteExclusion
      <3>2. Records!Look(r)
        BY <3>1, <2>5 DEF ReaderPrint, IInv, Data, Records!Look
      <3>3. QED
        BY <3>2 DEF Records!BoardNext
    <2>6. ASSUME NEW r \in Readers, ~ReaderPrint(r),
                 ReaderStep(r) \/ ReaderTakesMutex(r) \/ ReaderSpurious(r) \/ ReaderCancelled(r)
          PROVE UNCHANGED Records!boardVars
      BY <2>6 DEF ReaderStep, ReaderTakesMutex, ReaderSpurious, ReaderCancelled, ReaderLoop,
         ReaderWait, ReaderEnter, ReaderPrint, ReaderLeave, AfterLock, WakeWriter
    <2>7. CASE UNCHANGED vars
      BY <2>7 DEF vars
    <2>8. QED
      BY <2>1, <2>2, <2>3, <2>4, <2>5, <2>6, <2>7 DEF Next
  <1>3. QED
    BY <1>1, <1>2, Invariance, PTL DEF Spec, BoardSpec, Records!BoardSpec

=============================================================================
