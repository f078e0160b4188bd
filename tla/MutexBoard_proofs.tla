-------------------------- MODULE MutexBoard_proofs --------------------------
(***************************************************************************)
(* Proofs about MutexBoard for every NUM_READERS and MaxWrites.            *)
(*                                                                         *)
(* IInv adds to the types: the program counters tell who holds the mutex;  *)
(* how far main has come tells which threads exist and which have ended;   *)
(* array, counter and total agree.                                         *)
(***************************************************************************)
EXTENDS MutexBoard, TLAPS

ReaderHolds == {"read", "unlock"}
WriterHolds == {"count", "format", "unlock"}

Holding ==
    /\ \A r \in Readers : mutex = r <=> rpc[r] \in ReaderHolds
    /\ mutex = Writer <=> wpc \in WriterHolds

Stages ==
    /\ mpc \in {"init", "createWriter"} => wpc = "none" /\ created = 0 /\ i = 1
    /\ mpc = "create" => i = created + 1
    /\ mpc \in {"create", "sleep", "join", "joinWriter"} => wpc # "none"
    /\ mpc \in {"destroy", "print"} => wpc \in {"none", "done"}
    /\ mpc = "print" => wpc = "done"
    /\ wpc = "none" => created = 0

Joined ==
    /\ \A r \in Readers : rpc[r] = "none" <=> r > created
    /\ mpc = "join" => \A r \in Readers : r < i /\ r <= created => rpc[r] = "done"
    /\ mpc \in {"joinWriter", "destroy", "print"} => \A r \in Readers : r <= created => rpc[r] = "done"

Data ==
    /\ shared_array = IF wpc = "format" THEN Torn ELSE write_counter
    /\ wpc \in {"lock", "count"} => write_counter < MaxWrites
    /\ total # Unprinted => mpc = "exited" /\ total = write_counter /\ wpc = "done"

IInv == TypeOK /\ Holding /\ Stages /\ Joined /\ Data

-----------------------------------------------------------------------------
\* The threads are numbered apart from one another and from NoOne.
LEMMA Numbers ==
    /\ Readers = 1..NUM_READERS
    /\ Writer = 0 /\ NoOne = -1 /\ Torn = -1 /\ Unprinted = -1
    /\ \A r \in Readers : r \in Nat /\ r >= 1 /\ r # Writer /\ r # NoOne
  BY CountsAssumption DEF Readers, Writer, NoOne, Torn, Unprinted

\* Every step keeps the variables in their kinds.
LEMMA TypeStep == IInv /\ [Next]_vars => TypeOK'
  <1> SUFFICES ASSUME IInv, [Next]_vars PROVE TypeOK'
    OBVIOUS
  <1> USE CountsAssumption, Numbers DEF IInv, TypeOK, ReaderPC, WriterPC, MainPC, Stages, Data, mainVars, dataVars
  <1>1. ASSUME MainStep PROVE TypeOK'
    BY <1>1 DEF MainStep, MainMoves, MainInit, MainCreateWriter, MainCreateReader, MainCreateFails,
       MainStop, MainJoinReader, MainJoinWriter, MainDestroy, MainPrintTotal, MoreReaders,
       AfterFailure, StopFlag, WriterGone, threadVars
  <1>2. ASSUME WriterStep \/ WriterLock PROVE TypeOK'
    BY <1>2 DEF WriterStep, WriterMoves, WriterLoop, WriterLock, WriterCount, WriterFormat,
       WriterUnlock, Acquire, Release
  <1>3. ASSUME NEW r \in Readers, ReaderStep(r) \/ ReaderLock(r) PROVE TypeOK'
    BY <1>3 DEF ReaderStep, ReaderMoves, ReaderLoop, ReaderLock, ReaderPrint, ReaderUnlock, Acquire, Release
  <1>4. CASE UNCHANGED vars
    BY <1>4 DEF vars
  <1>5. QED
    BY <1>1, <1>2, <1>3, <1>4 DEF Next

\* Lines 19, 29, 45 and 50 pass the mutex on: who has it is where the program
\* counters say.
LEMMA HoldingStep == IInv /\ [Next]_vars => Holding'
  <1> SUFFICES ASSUME IInv, [Next]_vars PROVE Holding'
    OBVIOUS
  <1> USE CountsAssumption, Numbers DEF IInv, Holding, ReaderHolds, WriterHolds, Stages, Joined, TypeOK, ReaderPC, WriterPC, MainPC, mainVars, dataVars
  <1>1. ASSUME MainStep PROVE Holding'
    BY <1>1 DEF MainStep, MainMoves, MainInit, MainCreateWriter, MainCreateReader, MainCreateFails,
       MainStop, MainJoinReader, MainJoinWriter, MainDestroy, MainPrintTotal, MoreReaders,
       AfterFailure, StopFlag, WriterGone, threadVars
  <1>2. ASSUME WriterStep \/ WriterLock PROVE Holding'
    BY <1>2 DEF WriterStep, WriterMoves, WriterLoop, WriterLock, WriterCount, WriterFormat,
       WriterUnlock, Acquire, Release
  <1>3. ASSUME NEW r \in Readers, ReaderStep(r) \/ ReaderLock(r) PROVE Holding'
    BY <1>3 DEF ReaderStep, ReaderMoves, ReaderLoop, ReaderLock, ReaderPrint, ReaderUnlock, Acquire, Release
  <1>4. CASE UNCHANGED vars
    BY <1>4 DEF vars
  <1>5. QED
    BY <1>1, <1>2, <1>3, <1>4 DEF Next

\* Every step keeps the threads that exist in step with how far main has come.
LEMMA StagesStep == IInv /\ [Next]_vars => Stages'
  <1> SUFFICES ASSUME IInv, [Next]_vars PROVE Stages'
    OBVIOUS
  <1> USE CountsAssumption, Numbers DEF IInv, Stages, TypeOK, ReaderPC, WriterPC, MainPC, mainVars, dataVars
  <1>1. ASSUME MainStep PROVE Stages'
    BY <1>1 DEF MainStep, MainMoves, MainInit, MainCreateWriter, MainCreateReader, MainCreateFails,
       MainStop, MainJoinReader, MainJoinWriter, MainDestroy, MainPrintTotal, MoreReaders,
       AfterFailure, StopFlag, WriterGone, threadVars
  <1>2. ASSUME WriterStep \/ WriterLock PROVE Stages'
    BY <1>2 DEF WriterStep, WriterMoves, WriterLoop, WriterLock, WriterCount, WriterFormat,
       WriterUnlock, Acquire, Release
  <1>3. ASSUME NEW r \in Readers, ReaderStep(r) \/ ReaderLock(r) PROVE Stages'
    BY <1>3 DEF ReaderStep, ReaderMoves, ReaderLoop, ReaderLock, ReaderPrint, ReaderUnlock, Acquire, Release
  <1>4. CASE UNCHANGED vars
    BY <1>4 DEF vars
  <1>5. QED
    BY <1>1, <1>2, <1>3, <1>4 DEF Next

\* Lines 106-109 and 86-89: what main has joined stays joined.
LEMMA JoinedStep == IInv /\ [Next]_vars => Joined'
  <1> SUFFICES ASSUME IInv, [Next]_vars PROVE Joined'
    OBVIOUS
  <1> USE CountsAssumption, Numbers DEF IInv, Joined, Stages, TypeOK, ReaderPC, WriterPC, MainPC, mainVars, dataVars
  <1>1. ASSUME MainStep PROVE Joined'
    BY <1>1 DEF MainStep, MainMoves, MainInit, MainCreateWriter, MainCreateReader, MainCreateFails,
       MainStop, MainJoinReader, MainJoinWriter, MainDestroy, MainPrintTotal, MoreReaders,
       AfterFailure, StopFlag, WriterGone, threadVars
  <1>2. ASSUME WriterStep \/ WriterLock PROVE Joined'
    BY <1>2 DEF WriterStep, WriterMoves, WriterLoop, WriterLock, WriterCount, WriterFormat,
       WriterUnlock, Acquire, Release
  <1>3. ASSUME NEW r \in Readers, ReaderStep(r) \/ ReaderLock(r) PROVE Joined'
    BY <1>3 DEF ReaderStep, ReaderMoves, ReaderLoop, ReaderLock, ReaderPrint, ReaderUnlock, Acquire, Release
  <1>4. CASE UNCHANGED vars
    BY <1>4 DEF vars
  <1>5. QED
    BY <1>1, <1>2, <1>3, <1>4 DEF Next

\* Lines 23, 24 and 123: array, counter and total agree.
LEMMA DataStep == IInv /\ [Next]_vars => Data'
  <1> SUFFICES ASSUME IInv, [Next]_vars PROVE Data'
    OBVIOUS
  <1> USE CountsAssumption, Numbers DEF IInv, Data, Joined, Stages, TypeOK, ReaderPC, WriterPC, MainPC, mainVars, dataVars
  <1>1. ASSUME MainStep PROVE Data'
    BY <1>1 DEF MainStep, MainMoves, MainInit, MainCreateWriter, MainCreateReader, MainCreateFails,
       MainStop, MainJoinReader, MainJoinWriter, MainDestroy, MainPrintTotal, MoreReaders,
       AfterFailure, StopFlag, WriterGone, threadVars
  <1>2. ASSUME WriterStep \/ WriterLock PROVE Data'
    BY <1>2 DEF WriterStep, WriterMoves, WriterLoop, WriterLock, WriterCount, WriterFormat,
       WriterUnlock, Acquire, Release
  <1>3. ASSUME NEW r \in Readers, ReaderStep(r) \/ ReaderLock(r) PROVE Data'
    BY <1>3 DEF ReaderStep, ReaderMoves, ReaderLoop, ReaderLock, ReaderPrint, ReaderUnlock, Acquire, Release
  <1>4. CASE UNCHANGED vars
    BY <1>4 DEF vars
  <1>5. QED
    BY <1>1, <1>2, <1>3, <1>4 DEF Next

\* main starts with nothing created and nothing counted.
LEMMA InitIInv == Init => IInv
  BY CountsAssumption, Numbers DEF Init, IInv, TypeOK, ReaderPC, WriterPC, MainPC, Holding,
     ReaderHolds, WriterHolds, Stages, Joined, Data

\* IInv is inductive.
LEMMA StepIInv == IInv /\ [Next]_vars => IInv'
  BY TypeStep, HoldingStep, StagesStep, JoinedStep, DataStep DEF IInv

\* IInv holds in every reachable state.
LEMMA Invariance == Spec => []IInv
  BY InitIInv, StepIInv, PTL DEF Spec

-----------------------------------------------------------------------------
\* The mutex of lines 19 and 45 keeps the array to one thread at a time, whatever
\* the schedule, and lines 86-91 and 106-115 join every thread before it is destroyed.
THEOREM MutexProtects == Spec => []MutexInv
  <1>1. IInv => OneAtATime
    BY Numbers DEF IInv, Holding, ReaderHolds, WriterHolds, OneAtATime
  <1>2. IInv => MutexOutlivesThreads
    BY Numbers DEF IInv, Stages, Joined, TypeOK, MutexOutlivesThreads
  <1>3. IInv => MutexInv
    BY <1>1, <1>2 DEF IInv, MutexInv
  <1>4. QED
    BY <1>3, Invariance, PTL

\* The unprotected read of line 123 comes after every write there will be.
THEOREM TotalIsRight == Spec => []TotalIsFinal
  <1>1. IInv => TotalIsFinal
    BY DEF IInv, Data, TotalIsFinal
  <1>2. QED
    BY <1>1, Invariance, PTL

\* The mutex makes the array a board: what line 47 prints is always the whole
\* record the writer finished last.
THEOREM ImplementsBoard == Spec => BoardSpec
  <1>1. Init => Records!BoardInit
    BY DEF Init, Records!BoardInit
  <1>2. IInv /\ [Next]_vars => [Records!BoardNext]_(Records!boardVars)
    <2> SUFFICES ASSUME IInv, [Next]_vars
                 PROVE Records!BoardNext \/ UNCHANGED Records!boardVars
      OBVIOUS
    <2> USE DEF Records!boardVars, mainVars, dataVars
    <2>1. CASE MainStep
      BY <2>1 DEF IInv, Stages, MainStep, MainMoves, MainInit, MainCreateWriter, MainCreateReader, MainCreateFails,
         MainStop, MainJoinReader, MainJoinWriter, MainDestroy, MainPrintTotal, MoreReaders,
         AfterFailure, StopFlag, WriterGone, threadVars
    <2>2. CASE WriterFormat
      <3>1. Records!Publish
        BY <2>2, CountsAssumption DEF IInv, TypeOK, Data, WriterFormat, WriterMoves,
           Records!Publish
      <3>2. QED
        BY <3>1 DEF Records!BoardNext
    <2>3. CASE WriterCount
      BY <2>3, CountsAssumption DEF WriterCount, WriterMoves, IInv, TypeOK
    <2>4. ASSUME WriterStep \/ WriterLock, ~WriterFormat, ~WriterCount
          PROVE UNCHANGED Records!boardVars
      BY <2>4 DEF WriterStep, WriterMoves, WriterLoop, WriterLock, WriterUnlock
    <2>5. ASSUME NEW r \in Readers, ReaderPrint(r)
          PROVE Records!BoardNext
      <3>1. wpc # "format"
        BY <2>5, Numbers DEF ReaderPrint, ReaderMoves, IInv, Holding, ReaderHolds, WriterHolds
      <3>2. Records!Look(r)
        BY <3>1, <2>5 DEF ReaderPrint, ReaderMoves, IInv, Data, Records!Look
      <3>3. QED
        BY <3>2 DEF Records!BoardNext
    <2>6. ASSUME NEW r \in Readers, ~ReaderPrint(r), ReaderStep(r) \/ ReaderLock(r)
          PROVE UNCHANGED Records!boardVars
      BY <2>6 DEF ReaderStep, ReaderMoves, ReaderLoop, ReaderLock, ReaderUnlock
    <2>7. CASE UNCHANGED vars
      BY <2>7 DEF vars
    <2>8. QED
      BY <2>1, <2>2, <2>3, <2>4, <2>5, <2>6, <2>7 DEF Next
  <1>3. QED
    BY <1>1, <1>2, Invariance, PTL DEF Spec, BoardSpec, Records!BoardSpec

=============================================================================
