-------------------------- MODULE RwLockBoard_proofs --------------------------
(***************************************************************************)
(* Proofs about RwLockBoard for every READER_COUNT and MAX_OPERATIONS.     *)
(*                                                                         *)
(* IInv adds to LockOwners: the writer is never beside a reader; how far   *)
(* main has come tells which threads exist, and nobody ends before the     *)
(* writer; main has joined the readers below its index; buffer, counter    *)
(* and operations agree.                                                   *)
(***************************************************************************)
EXTENDS RwLockBoard, TLAPS

LockKind == rwlock \subseteq Readers \cup {Writer}

ControlKinds ==
    /\ rpc \in [Readers -> ReaderPC]
    /\ wpc \in WriterPC
    /\ mpc \in MainPC
    /\ i \in 1..(READER_COUNT + 1)

DataKinds ==
    /\ running \in {0, 1}
    /\ write_counter \in 0..MAX_OPERATIONS
    /\ shared_buffer \in 0..MAX_OPERATIONS \cup {Torn}
    /\ operations \in 0..MAX_OPERATIONS
    /\ seen \in [Readers -> 0..MAX_OPERATIONS \cup {Torn}]

Apart == Writer \in rwlock => rwlock = {Writer}

Stages ==
    /\ mpc \in {"init", "create"} =>
        wpc = "none" /\ \A r \in Readers : r >= i => rpc[r] = "none"
    /\ mpc = "join" => wpc # "none"
    /\ mpc \in {"cancel", "joinReader", "destroy"} => wpc = "done"
    /\ mpc = "joinReader" => i \in Readers
    /\ \A r \in Readers : rpc[r] \in Ended => wpc = "done"
    /\ running = 0 => wpc = "done"

Joined ==
    /\ mpc \in {"cancel", "joinReader"} => \A r \in Readers : r < i => rpc[r] \in Ended
    /\ mpc = "destroy" => \A r \in Readers : rpc[r] \in Ended

Data ==
    /\ shared_buffer = IF wpc = "format" THEN Torn ELSE write_counter
    /\ write_counter = IF wpc \in {"format", "unlock"} THEN operations + 1 ELSE operations
    /\ wpc \in {"count", "format", "unlock"} => operations < MAX_OPERATIONS

IInv == TypeOK /\ LockOwners /\ Apart /\ Stages /\ Joined /\ Data

-----------------------------------------------------------------------------
\* The threads are numbered apart from one another.
LEMMA Numbers ==
    /\ Readers = 1..READER_COUNT
    /\ Writer = 0 /\ Torn = -1
    /\ \A r \in Readers : r \in Nat /\ r >= 1 /\ r # Writer
  BY CountsAssumption DEF Readers, Writer, Torn

\* Only readers and the writer take the lock.
LEMMA LockKindStep == IInv /\ [Next]_vars => LockKind'
  <1> SUFFICES ASSUME IInv, [Next]_vars PROVE LockKind'
    OBVIOUS
  <1> USE CountsAssumption DEF IInv, TypeOK, LockKind, mainVars, dataVars
  <1>1. ASSUME MainStep PROVE LockKind'
    BY <1>1 DEF MainStep, MainMoves, MainInit, MainCreateFails, MainCreate, MainJoinWriter,
       MainCancelReader, MainJoinReader, Gone, MainDestroy, threadVars
  <1>2. ASSUME WriterStep \/ WriterLock PROVE LockKind'
    BY <1>2 DEF WriterStep, WriterMoves, WriterLock, WriterCount, WriterFormat, WriterUnlock,
       WriterStop, MoreToWrite
  <1>3. ASSUME NEW r \in Readers, ReaderStep(r) \/ ReaderCancelled(r) PROVE LockKind'
    BY <1>3 DEF ReaderStep, ReaderMoves, ReaderLoop, ReaderLock, ReaderPrint, ReaderUnlock,
       ReaderCancelled
  <1>4. CASE UNCHANGED vars
    BY <1>4 DEF vars
  <1>5. QED
    BY <1>1, <1>2, <1>3, <1>4 DEF Next

\* Every step keeps the program counters and the index of main in their kinds.
LEMMA ControlKindsStep == IInv /\ [Next]_vars => ControlKinds'
  <1> SUFFICES ASSUME IInv, [Next]_vars PROVE ControlKinds'
    OBVIOUS
  <1> USE CountsAssumption, Numbers DEF IInv, TypeOK, ControlKinds, Stages, ReaderPC, WriterPC, MainPC, mainVars, dataVars
  <1>1. ASSUME MainStep PROVE ControlKinds'
    BY <1>1 DEF MainStep, MainMoves, MainInit, MainCreateFails, MainCreate, MainJoinWriter,
       MainCancelReader, MainJoinReader, Gone, MainDestroy, threadVars
  <1>2. ASSUME WriterStep \/ WriterLock PROVE ControlKinds'
    BY <1>2 DEF WriterStep, WriterMoves, WriterLock, WriterCount, WriterFormat, WriterUnlock,
       WriterStop, MoreToWrite
  <1>3. ASSUME NEW r \in Readers, ReaderStep(r) \/ ReaderCancelled(r) PROVE ControlKinds'
    BY <1>3 DEF ReaderStep, ReaderMoves, ReaderLoop, ReaderLock, ReaderPrint, ReaderUnlock,
       ReaderCancelled
  <1>4. CASE UNCHANGED vars
    BY <1>4 DEF vars
  <1>5. QED
    BY <1>1, <1>2, <1>3, <1>4 DEF Next

\* Every step keeps the counters and the buffer within MAX_OPERATIONS.
LEMMA DataKindsStep == IInv /\ [Next]_vars => DataKinds'
  <1> SUFFICES ASSUME IInv, [Next]_vars PROVE DataKinds'
    OBVIOUS
  <1> USE CountsAssumption, Numbers DEF IInv, TypeOK, DataKinds, Data, mainVars, dataVars
  <1>1. ASSUME MainStep PROVE DataKinds'
    BY <1>1 DEF MainStep, MainMoves, MainInit, MainCreateFails, MainCreate, MainJoinWriter,
       MainCancelReader, MainJoinReader, Gone, MainDestroy, threadVars
  <1>2. ASSUME WriterStep \/ WriterLock PROVE DataKinds'
    BY <1>2 DEF WriterStep, WriterMoves, WriterLock, WriterCount, WriterFormat, WriterUnlock,
       WriterStop, MoreToWrite
  <1>3. ASSUME NEW r \in Readers, ReaderStep(r) \/ ReaderCancelled(r) PROVE DataKinds'
    BY <1>3 DEF ReaderStep, ReaderMoves, ReaderLoop, ReaderLock, ReaderPrint, ReaderUnlock,
       ReaderCancelled
  <1>4. CASE UNCHANGED vars
    BY <1>4 DEF vars
  <1>5. QED
    BY <1>1, <1>2, <1>3, <1>4 DEF Next

\* Lines 24, 29, 43 and 51 and the cancellation keep the set of those who hold the
\* lock where the program counters say.
LEMMA OwnersStep == IInv /\ [Next]_vars => LockOwners'
  <1> SUFFICES ASSUME IInv, [Next]_vars PROVE LockOwners'
    OBVIOUS
  <1> USE CountsAssumption, Numbers DEF IInv, LockOwners, Stages, Ended, TypeOK, ReaderPC, WriterPC, MainPC, mainVars, dataVars
  <1>1. ASSUME MainStep PROVE LockOwners'
    BY <1>1 DEF MainStep, MainMoves, MainInit, MainCreateFails, MainCreate, MainJoinWriter,
       MainCancelReader, MainJoinReader, Gone, MainDestroy, threadVars
  <1>2. ASSUME WriterStep \/ WriterLock PROVE LockOwners'
    BY <1>2 DEF WriterStep, WriterMoves, WriterLock, WriterCount, WriterFormat, WriterUnlock,
       WriterStop, MoreToWrite
  <1>3. ASSUME NEW r \in Readers, ReaderStep(r) \/ ReaderCancelled(r) PROVE LockOwners'
    BY <1>3 DEF ReaderStep, ReaderMoves, ReaderLoop, ReaderLock, ReaderPrint, ReaderUnlock,
       ReaderCancelled
  <1>4. CASE UNCHANGED vars
    BY <1>4 DEF vars
  <1>5. QED
    BY <1>1, <1>2, <1>3, <1>4 DEF Next

\* pthread_rwlock lets the writer in alone, and nobody in beside it.
LEMMA ApartStep == IInv /\ [Next]_vars => Apart'
  <1> SUFFICES ASSUME IInv, [Next]_vars PROVE Apart'
    OBVIOUS
  <1> USE CountsAssumption, Numbers DEF IInv, Apart, LockOwners, ReadLockFree, WriteLockFree, TypeOK, ReaderPC, WriterPC, MainPC, mainVars, dataVars
  <1>1. ASSUME MainStep PROVE Apart'
    BY <1>1 DEF MainStep, MainMoves, MainInit, MainCreateFails, MainCreate, MainJoinWriter,
       MainCancelReader, MainJoinReader, Gone, MainDestroy, threadVars
  <1>2. ASSUME WriterStep \/ WriterLock PROVE Apart'
    BY <1>2 DEF WriterStep, WriterMoves, WriterLock, WriterCount, WriterFormat, WriterUnlock,
       WriterStop, MoreToWrite
  <1>3. ASSUME NEW r \in Readers, ReaderStep(r) \/ ReaderCancelled(r) PROVE Apart'
    BY <1>3 DEF ReaderStep, ReaderMoves, ReaderLoop, ReaderLock, ReaderPrint, ReaderUnlock,
       ReaderCancelled
  <1>4. CASE UNCHANGED vars
    BY <1>4 DEF vars
  <1>5. QED
    BY <1>1, <1>2, <1>3, <1>4 DEF Next

\* Every step keeps the threads that exist in step with how far main has come.
LEMMA StagesStep == IInv /\ [Next]_vars => Stages'
  <1> SUFFICES ASSUME IInv, [Next]_vars PROVE Stages'
    OBVIOUS
  <1> USE CountsAssumption, Numbers DEF IInv, Stages, Ended, TypeOK, ReaderPC, WriterPC, MainPC, mainVars, dataVars
  <1>1. ASSUME MainStep PROVE Stages'
    BY <1>1 DEF MainStep, MainMoves, MainInit, MainCreateFails, MainCreate, MainJoinWriter,
       MainCancelReader, MainJoinReader, Gone, MainDestroy, threadVars
  <1>2. ASSUME WriterStep \/ WriterLock PROVE Stages'
    BY <1>2 DEF WriterStep, WriterMoves, WriterLock, WriterCount, WriterFormat, WriterUnlock,
       WriterStop, MoreToWrite
  <1>3. ASSUME NEW r \in Readers, ReaderStep(r) \/ ReaderCancelled(r) PROVE Stages'
    BY <1>3 DEF ReaderStep, ReaderMoves, ReaderLoop, ReaderLock, ReaderPrint, ReaderUnlock,
       ReaderCancelled
  <1>4. CASE UNCHANGED vars
    BY <1>4 DEF vars
  <1>5. QED
    BY <1>1, <1>2, <1>3, <1>4 DEF Next

\* Lines 105-108: what main has joined stays joined.
LEMMA JoinedStep == IInv /\ [Next]_vars => Joined'
  <1> SUFFICES ASSUME IInv, [Next]_vars PROVE Joined'
    OBVIOUS
  <1> USE CountsAssumption, Numbers DEF IInv, Joined, Stages, Ended, TypeOK, ReaderPC, WriterPC, MainPC, mainVars, dataVars
  <1>1. ASSUME MainStep PROVE Joined'
    BY <1>1 DEF MainStep, MainMoves, MainInit, MainCreateFails, MainCreate, MainJoinWriter,
       MainCancelReader, MainJoinReader, Gone, MainDestroy, threadVars
  <1>2. ASSUME WriterStep \/ WriterLock PROVE Joined'
    BY <1>2 DEF WriterStep, WriterMoves, WriterLock, WriterCount, WriterFormat, WriterUnlock,
       WriterStop, MoreToWrite
  <1>3. ASSUME NEW r \in Readers, ReaderStep(r) \/ ReaderCancelled(r) PROVE Joined'
    BY <1>3 DEF ReaderStep, ReaderMoves, ReaderLoop, ReaderLock, ReaderPrint, ReaderUnlock,
       ReaderCancelled
  <1>4. CASE UNCHANGED vars
    BY <1>4 DEF vars
  <1>5. QED
    BY <1>1, <1>2, <1>3, <1>4 DEF Next

\* Lines 45, 46 and the loop of 42: buffer, counter and operations agree.
LEMMA DataStep == IInv /\ [Next]_vars => Data'
  <1> SUFFICES ASSUME IInv, [Next]_vars PROVE Data'
    OBVIOUS
  <1> USE CountsAssumption, Numbers DEF IInv, Data, Stages, TypeOK, ReaderPC, WriterPC, MainPC, mainVars, dataVars
  <1>1. ASSUME MainStep PROVE Data'
    BY <1>1 DEF MainStep, MainMoves, MainInit, MainCreateFails, MainCreate, MainJoinWriter,
       MainCancelReader, MainJoinReader, Gone, MainDestroy, threadVars
  <1>2. ASSUME WriterStep \/ WriterLock PROVE Data'
    BY <1>2 DEF WriterStep, WriterMoves, WriterLock, WriterCount, WriterFormat, WriterUnlock,
       WriterStop, MoreToWrite
  <1>3. ASSUME NEW r \in Readers, ReaderStep(r) \/ ReaderCancelled(r) PROVE Data'
    BY <1>3 DEF ReaderStep, ReaderMoves, ReaderLoop, ReaderLock, ReaderPrint, ReaderUnlock,
       ReaderCancelled
  <1>4. CASE UNCHANGED vars
    BY <1>4 DEF vars
  <1>5. QED
    BY <1>1, <1>2, <1>3, <1>4 DEF Next

\* main starts with nothing created and nothing counted.
LEMMA InitIInv == Init => IInv
  BY CountsAssumption, Numbers DEF Init, IInv, TypeOK, ReaderPC, WriterPC, MainPC, LockOwners,
     Apart, Stages, Ended, Joined, Data

\* IInv is inductive.
LEMMA StepIInv == IInv /\ [Next]_vars => IInv'
  <1>1. LockKind' /\ ControlKinds' /\ DataKinds' => TypeOK'
    BY DEF LockKind, ControlKinds, DataKinds, TypeOK
  <1>2. QED
    BY <1>1, LockKindStep, ControlKindsStep, DataKindsStep, OwnersStep, ApartStep, StagesStep,
       JoinedStep, DataStep DEF IInv

\* IInv holds in every reachable state.
LEMMA Invariance == Spec => []IInv
  BY InitIInv, StepIInv, PTL DEF Spec

-----------------------------------------------------------------------------
\* A reader that is cancelled with the read lock (line 106) keeps it for ever, but
\* never while the writer still needs it; and line 110 destroys the lock after
\* every thread was joined.
THEOREM LockIsSound == Spec => []LockInv
  <1>1. IInv => LockOutlivesThreads
    BY DEF IInv, Stages, Joined, LockOutlivesThreads
  <1>2. IInv => LockInv
    BY <1>1 DEF IInv, LockInv
  <1>3. QED
    BY <1>2, Invariance, PTL

\* The rwlock makes the buffer a board: what line 26 prints is always the whole
\* record the writer finished last.
THEOREM ImplementsBoard == Spec => BoardSpec
  <1>1. Init => Records!BoardInit
    BY DEF Init, Records!BoardInit
  <1>2. IInv /\ [Next]_vars => [Records!BoardNext]_(Records!boardVars)
    <2> SUFFICES ASSUME IInv, [Next]_vars
                 PROVE Records!BoardNext \/ UNCHANGED Records!boardVars
      OBVIOUS
    <2> USE DEF Records!boardVars, mainVars, dataVars
    <2>1. CASE MainStep
      BY <2>1 DEF IInv, Stages, MainStep, MainMoves, MainInit, MainCreateFails, MainCreate, MainJoinWriter,
         MainCancelReader, MainJoinReader, Gone, MainDestroy, threadVars
    <2>2. CASE WriterFormat
      <3>1. Records!Publish
        BY <2>2, CountsAssumption DEF IInv, TypeOK, Data, WriterFormat, WriterMoves,
           Records!Publish
      <3>2. QED
        BY <3>1 DEF Records!BoardNext
    <2>3. CASE WriterCount
      BY <2>3, CountsAssumption DEF WriterCount, WriterMoves, IInv, TypeOK
    <2>4. ASSUME WriterStep \/ WriterLock, ~WriterFormat, ~WriterCount
          PROVE UNCHANGED Records!boardVars
      BY <2>4 DEF WriterStep, WriterMoves, WriterLock, WriterUnlock, WriterStop
    <2>5. ASSUME NEW r \in Readers, ReaderPrint(r)
          PROVE Records!BoardNext
      <3>1. wpc # "format"
        BY <2>5, Numbers DEF ReaderPrint, ReaderMoves, IInv, LockOwners, Apart
      <3>2. Records!Look(r)
        BY <3>1, <2>5 DEF ReaderPrint, ReaderMoves, IInv, Data, Records!Look
      <3>3. QED
        BY <3>2 DEF Records!BoardNext
    <2>6. ASSUME NEW r \in Readers, ~ReaderPrint(r), ReaderStep(r) \/ ReaderCancelled(r)
          PROVE UNCHANGED Records!boardVars
      BY <2>6 DEF ReaderStep, ReaderMoves, ReaderLoop, ReaderLock, ReaderUnlock, ReaderCancelled
    <2>7. CASE UNCHANGED vars
      BY <2>7 DEF vars
    <2>8. QED
      BY <2>1, <2>2, <2>3, <2>4, <2>5, <2>6, <2>7 DEF Next
  <1>3. QED
    BY <1>1, <1>2, Invariance, PTL DEF Spec, BoardSpec, Records!BoardSpec

=============================================================================
