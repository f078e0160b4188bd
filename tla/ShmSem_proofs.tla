---------------------------- MODULE ShmSem_proofs ----------------------------
(***************************************************************************)
(* Proofs about ShmSem for all sets of senders, receivers and keys.        *)
(*                                                                         *)
(* IInv: ids are given out once, at most one to a sender that got as far;  *)
(* a semaphore that is there has one token, and who uses the semaphore has *)
(* it; who made a segment or a semaphore, and under which key; a torn      *)
(* message is the work of somebody who has, or had, the token; and         *)
(* whatever is there has somebody who will remove it, or was killed.       *)
(***************************************************************************)
EXTENDS ShmSem, FiniteSetTheorems, TLAPS

AllPC == SenderPC \cup ReceiverPC \cup {Dead}

Kinds ==
    /\ keyFile \in Keys \cup {NoKey}
    /\ shmKey \in [Ids -> Keys \cup {NoKey}]
    /\ semKey \in [Ids -> Keys \cup {NoKey}]
    /\ nextShm \in Nat /\ nextSem \in Nat
    /\ pc \in [Processes -> AllPC]
    /\ \A s \in Senders : pc[s] \in SenderPC \cup {Dead}
    /\ \A r \in Receivers : pc[r] \in ReceiverPC \cup {Dead}
    /\ key \in [Processes -> Keys \cup {NoKey}]
    /\ shmId \in [Processes -> Ids] /\ semId \in [Processes -> Ids]
    /\ unstored \in [Senders -> {"nothing", "segment", "semaphore"}]
    /\ attached \in [Processes -> Ids \cup {NoId}]
    /\ \A p \in Processes :
        pc[p] \in {"semget", "storeSem", "setval", "lock", "write", "writing", "copy", "unlock"} =>
            attached[p] = shmId[p]
    /\ holders \subseteq Processes

DataKinds ==
    /\ buffer \in [Ids -> 0..MaxMessages \cup {Torn}]
    /\ value \in [Ids -> {0, 1}]
    /\ sent \in [Senders -> 0..MaxMessages]
    /\ seen \in [Receivers -> 0..MaxMessages \cup {Torn}]
    /\ \A s \in Senders : pc[s] = "write" => sent[s] < MaxMessages

BeforeSegment   == {"open", "ftok", "shmget"}
BeforeSemaphore == BeforeSegment \cup {"storeShm", "shmat", "semget"}

\* The senders that got past shmget, and past semget.
PastShmget == {s \in Senders : pc[s] \notin BeforeSegment}
PastSemget == {s \in Senders : pc[s] \notin BeforeSemaphore}

\* There was one segment at most, and one semaphore, before the first sender's.
FewIds ==
    /\ nextShm <= Cardinality(PastShmget) + 1
    /\ nextSem <= Cardinality(PastSemget) + 1

\* Nothing has the ids that have not been given out yet.
Unused ==
    \A n \in Ids :
        /\ n >= nextShm => shmKey[n] = NoKey
        /\ n >= nextSem => semKey[n] = NoKey /\ value[n] = 0

\* Who has come past semget has an id that was given out.
IdsGiven ==
    /\ \A p \in Processes :
        /\ pc[p] \in {"storeShm", "shmat", "semget"} => shmId[p] < nextShm
        /\ pc[p] \in {"storeSem", "setval", "lock", "write", "writing", "copy", "unlock"} =>
            shmId[p] < nextShm /\ semId[p] < nextSem
    /\ \A p \in holders :
        semId[p] < nextSem /\ pc[p] \notin BeforeSemaphore \cup {"storeSem", "setval", "lock"}

\* A process between Lock and Unlock holds the semaphore, if there is one.
Holding ==
    \A p \in Processes :
        pc[p] \in {"write", "writing", "copy", "unlock"} => p \in holders \/ Gone(p)

\* A semaphore has one token, none before SETVAL: it is on the table or somebody has it.
Token ==
    /\ \A p, q \in holders : semId[p] = semId[q] /\ ~Gone(p) => p = q
    /\ \A p \in holders : ~Gone(p) => value[semId[p]] = 0
    /\ \A s \in Senders : pc[s] \in {"storeSem", "setval"} /\ ~Gone(s) =>
        value[semId[s]] = 0 /\ \A p \in holders : semId[p] # semId[s]

\* The senders of which the ids tell that they have made a semaphore, or a segment.
SemMaker(s) ==
    \/ semId[s] > 0 \/ sent[s] > 0
    \/ pc[s] \in {"storeSem", "setval", "lock", "write", "writing", "unlock"}

ShmMaker(s) == shmId[s] > 0 \/ SemMaker(s) \/ pc[s] \in {"storeShm", "shmat", "semget"}

\* Ids that have not been asked for are 0.
NoIdsYet ==
    /\ \A s \in Senders :
        /\ pc[s] \in BeforeSegment => shmId[s] = 0
        /\ pc[s] \in BeforeSemaphore => semId[s] = 0 /\ sent[s] = 0
    /\ \A p \in Processes : pc[p] \in {"shmget", "storeShm", "shmat", "semget"} => key[p] # NoKey

\* A segment, and a semaphore, has one maker and the maker's key.
Makers ==
    /\ \A s \in Senders : ShmMaker(s) =>
        /\ key[s] # NoKey
        /\ shmId[s] < nextShm /\ shmKey[shmId[s]] \in {key[s], NoKey}
        /\ \A t \in Senders : ShmMaker(t) /\ shmId[s] = shmId[t] => s = t
    /\ \A s \in Senders : SemMaker(s) =>
        /\ semId[s] < nextSem /\ semKey[semId[s]] \in {key[s], NoKey}
        /\ \A t \in Senders : SemMaker(t) /\ semId[s] = semId[t] => s = t

\* A semaphore that has the key of another one was made after it.
Newer ==
    \A s \in Senders : SemMaker(s) =>
        \A n \in Ids : semKey[n] = key[s] /\ semId[s] # n => semId[s] < n

\* A receiver has a segment, and a semaphore, of its key.
SegmentOfKey ==
    \A r \in Receivers : pc[r] \in {"shmat", "semget", "lock", "copy", "unlock"} =>
        key[r] # NoKey /\ \A s \in Senders : ShmMaker(s) /\ shmId[s] = shmId[r] => key[s] = key[r]

SemaphoreOfKey ==
    \A r \in Receivers : pc[r] \in {"lock", "copy", "unlock"} => semKey[semId[r]] \in {key[r], NoKey}

\* Half a message is in a segment while its maker writes, or after it was stopped
\* in the middle, and then it never gave the token back.
TornBy(m, s) ==
    /\ shmId[s] = m /\ sent[s] > 0
    /\ s \in holders \/ Gone(s)
    /\ pc[s] \in {"writing"} \cup InHandler \cup Over

TornInv == \A m \in Ids : buffer[m] = Torn => \E s \in Senders : TornBy(m, s)

AtWork == {"storeSem", "setval", "lock", "write", "writing", "unlock", "rmShm", Dead}

\* What is there was made by somebody who has not removed it yet, or never will: it
\* was signalled before it had stored the id, which is not the id 0 it removes instead.
OwesFile(s) == pc[s] \notin {"open", "ended"}

OwesSegment(s, n) ==
    /\ shmId[s] = n
    /\ \/ pc[s] \in AtWork \cup {"storeShm", "shmat", "semget"}
       \/ n # 0 /\ unstored[s] = "segment"

OwesSemaphore(s, n) ==
    /\ semId[s] = n
    /\ \/ pc[s] \in AtWork \cup {"rmSem"}
       \/ n # 0 /\ unstored[s] = "semaphore"

Owed ==
    /\ keyFile # NoKey => \E s \in Senders : OwesFile(s)
    /\ \A n \in Ids :
        /\ shmKey[n] # NoKey => \E s \in Senders : OwesSegment(s, n)
        /\ semKey[n] # NoKey => \E s \in Senders : OwesSemaphore(s, n)

IInv ==
    /\ Kinds /\ DataKinds /\ FewIds /\ Unused /\ IdsGiven /\ Holding /\ Token
    /\ NoIdsYet /\ Makers /\ Newer /\ SegmentOfKey /\ SemaphoreOfKey /\ TornInv /\ Owed

-----------------------------------------------------------------------------
(* The steps, one for each way an action may go. *)

\* A process is killed, fails or is signalled, at whatever point.
Leaves(p) ==
    /\ pc[p] \notin Over
    /\ \E l \in {"rmShm", "ended", Dead} :
        /\ pc' = [pc EXCEPT ![p] = l]
        /\ l = "rmShm" => p \in Senders /\ pc[p] \notin InHandler
        /\ l = "ended" => p \in Receivers
    /\ attached' = [attached EXCEPT ![p] = NoId]
    /\ UNCHANGED <<ipcVars, loopVars, key, shmId, semId, unstored>>

GetsKey(p) ==
    /\ pc[p] = "ftok" /\ keyFile # NoKey
    /\ key' = [key EXCEPT ![p] = keyFile]
    /\ pc' = [pc EXCEPT ![p] = "shmget"]
    /\ UNCHANGED <<ipcVars, loopVars, shmId, semId, unstored, attached>>

NewSegment(s) ==
    /\ s \in Senders /\ pc[s] = "shmget"
    /\ shmKey' = [shmKey EXCEPT ![nextShm] = key[s]]
    /\ shmId' = [shmId EXCEPT ![s] = nextShm]
    /\ unstored' = [unstored EXCEPT ![s] = "segment"]
    /\ nextShm' = nextShm + 1
    /\ pc' = [pc EXCEPT ![s] = "storeShm"]
    /\ UNCHANGED <<keyFile, semKey, nextSem, key, semId, attached, loopVars>>

Maps(p) ==
    /\ pc[p] = "shmat"
    /\ attached' = [attached EXCEPT ![p] = shmId[p]]
    /\ pc' = [pc EXCEPT ![p] = "semget"]
    /\ UNCHANGED <<ipcVars, loopVars, key, shmId, semId, unstored>>

NewSemaphore(s) ==
    /\ s \in Senders /\ pc[s] = "semget" /\ \A n \in Ids : semKey[n] # key[s]
    /\ semKey' = [semKey EXCEPT ![nextSem] = key[s]]
    /\ semId' = [semId EXCEPT ![s] = nextSem]
    /\ unstored' = [unstored EXCEPT ![s] = "semaphore"]
    /\ nextSem' = nextSem + 1
    /\ pc' = [pc EXCEPT ![s] = "storeSem"]
    /\ UNCHANGED <<keyFile, shmKey, nextShm, key, shmId, attached, loopVars>>

Sets(s) ==
    /\ s \in Senders /\ pc[s] = "setval" /\ ~Gone(s)
    /\ value' = [value EXCEPT ![semId[s]] = 1]
    /\ pc' = [pc EXCEPT ![s] = "lock"]
    /\ UNCHANGED <<ipcVars, localVars, buffer, sent, seen, holders>>

FindsSegment(r, n) ==
    /\ r \in Receivers /\ pc[r] = "shmget"
    /\ n \in Ids /\ shmKey[n] = key[r]
    /\ shmId' = [shmId EXCEPT ![r] = n]
    /\ pc' = [pc EXCEPT ![r] = "shmat"]
    /\ UNCHANGED <<ipcVars, key, semId, unstored, attached, loopVars>>

FindsSemaphore(r, n) ==
    /\ r \in Receivers /\ pc[r] = "semget"
    /\ n \in Ids /\ semKey[n] = key[r]
    /\ semId' = [semId EXCEPT ![r] = n]
    /\ pc' = [pc EXCEPT ![r] = "lock"]
    /\ UNCHANGED <<ipcVars, key, shmId, unstored, attached, loopVars>>

OfSender(s) ==
    /\ s \in Senders
    /\ \/ OpenKeyFile(s) \/ NewSegment(s) \/ StoreSegment(s)
       \/ NewSemaphore(s) \/ StoreSemaphore(s) \/ Sets(s)
       \/ StartWriting(s) \/ FinishWriting(s)
       \/ RemoveSegment(s) \/ RemoveSemaphore(s) \/ RemoveKeyFile(s)

OfReceiver(r) ==
    /\ r \in Receivers
    /\ (\E n \in Ids : FindsSegment(r, n) \/ FindsSemaphore(r, n)) \/ Copy(r)

Steps(p) ==
    Leaves(p) \/ OfSender(p) \/ OfReceiver(p) \/ GetsKey(p) \/ Maps(p) \/ Lock(p) \/ Unlock(p)

-----------------------------------------------------------------------------
\* There are finitely many senders, and they are no receivers.
LEMMA Runs ==
    /\ IsFiniteSet(Senders) /\ Cardinality(Senders) \in Nat
    /\ Senders \subseteq Processes /\ Receivers \subseteq Processes
    /\ \A s \in Senders : s \notin Receivers
    /\ \A p \in Processes : p \in Senders \/ p \in Receivers
    /\ MaxMessages \in Nat
    /\ NoKey \notin Keys
    /\ Ids = 0..Cardinality(Senders)
    /\ Torn = -1 /\ NoId = -1
  BY FS_CardinalityType, RunsAssumption DEF Processes, Ids, Torn, NoId

\* The actions of the module are these steps.
LEMMA EveryStep == ASSUME Next, ~UNCHANGED vars PROVE \E p \in Processes : Steps(p)
  <1> USE Runs
  <1>1. ASSUME NEW p \in Processes, Dies(p) PROVE Leaves(p)
    BY <1>1 DEF Dies, Leaves, GoTo, Dead
  <1>2. ASSUME NEW s \in Senders, SenderSignalled(s) PROVE Leaves(s)
    BY <1>2 DEF SenderSignalled, Leaves, GoTo
  <1>3. ASSUME NEW r \in Receivers, ReceiverSignalled(r) PROVE Leaves(r)
    BY <1>3 DEF ReceiverSignalled, Leaves, GoTo
  <1>4. ASSUME NEW p \in Processes, CommonStep(p) PROVE Steps(p)
    <2>1. CASE Ftok(p)
      BY <1>1, <2>1 DEF Ftok, GetsKey, GoTo, Steps
    <2>2. CASE Shmat(p)
      BY <1>1, <2>2 DEF Shmat, Maps, GoTo, Steps
    <2>3. QED
      BY <1>4, <2>1, <2>2 DEF CommonStep, Steps
  <1>5. ASSUME NEW s \in Senders, SenderStep(s) PROVE Steps(s)
    <2>1. CASE MakeSegment(s)
      BY <1>1, <2>1 DEF MakeSegment, NewSegment, GoTo, Steps, OfSender
    <2>2. CASE MakeSemaphore(s)
      BY <1>1, <2>2 DEF MakeSemaphore, NewSemaphore, Found, GoTo, Steps, OfSender
    <2>3. CASE SetVal(s)
      BY <1>1, <2>3 DEF SetVal, Sets, Free, GoTo, Steps, OfSender
    <2>4. QED
      BY <1>5, <2>1, <2>2, <2>3 DEF SenderStep, Steps, OfSender
  <1>6. ASSUME NEW r \in Receivers, ReceiverStep(r) PROVE Steps(r)
    <2>1. CASE FindSegment(r)
      BY <1>1, <2>1 DEF FindSegment, FindsSegment, Found, GoTo, Steps, OfReceiver
    <2>2. CASE FindSemaphore(r)
      BY <1>1, <2>2 DEF FindSemaphore, FindsSemaphore, Found, GoTo, Steps, OfReceiver
    <2>3. QED
      BY <1>6, <2>1, <2>2 DEF ReceiverStep, Steps, OfReceiver
  <1>7. QED
    BY <1>1, <1>2, <1>3, <1>4, <1>5, <1>6 DEF Next, Steps

\* There is an id for the segment, and for the semaphore, of each sender.
LEMMA Room ==
    ASSUME IInv
    PROVE  /\ IsFiniteSet(PastShmget) /\ Cardinality(PastShmget) \in Nat
           /\ IsFiniteSet(PastSemget) /\ Cardinality(PastSemget) \in Nat
           /\ nextShm <= Cardinality(Senders) + 1 /\ nextSem <= Cardinality(Senders) + 1
           /\ \A s \in Senders :
                /\ pc[s] \in BeforeSegment => nextShm \in Ids
                /\ pc[s] \in BeforeSemaphore => nextSem \in Ids
  <1>1. PastShmget \in SUBSET Senders /\ PastSemget \in SUBSET Senders
    BY DEF PastShmget, PastSemget
  <1>2. /\ IsFiniteSet(PastShmget) /\ Cardinality(PastShmget) <= Cardinality(Senders)
        /\ IsFiniteSet(PastSemget) /\ Cardinality(PastSemget) <= Cardinality(Senders)
    BY <1>1, FS_Subset, Runs
  <1>3. Cardinality(PastShmget) \in Nat /\ Cardinality(PastSemget) \in Nat
    BY <1>2, FS_CardinalityType
  <1>4. nextShm <= Cardinality(Senders) + 1 /\ nextSem <= Cardinality(Senders) + 1
    BY <1>2, <1>3, Runs DEF IInv, Kinds, FewIds
  <1>5. ASSUME NEW s \in Senders, pc[s] \in BeforeSegment PROVE nextShm \in Ids
    <2>1. PastShmget # Senders
      BY <1>5 DEF PastShmget
    <2>2. Cardinality(PastShmget) # Cardinality(Senders)
      BY <1>1, <2>1, FS_Subset, Runs
    <2>3. QED
      BY <1>2, <1>3, <2>2, Runs DEF IInv, Kinds, FewIds
  <1>6. ASSUME NEW s \in Senders, pc[s] \in BeforeSemaphore PROVE nextSem \in Ids
    <2>1. PastSemget # Senders
      BY <1>6 DEF PastSemget
    <2>2. Cardinality(PastSemget) # Cardinality(Senders)
      BY <1>1, <2>1, FS_Subset, Runs
    <2>3. QED
      BY <1>2, <1>3, <2>2, Runs DEF IInv, Kinds, FewIds
  <1>7. QED
    BY <1>2, <1>3, <1>4, <1>5, <1>6

\* Every step keeps the variables in their kinds.
LEMMA KindsStep ==
    ASSUME IInv, NEW p \in Processes, Steps(p)
    PROVE  Kinds'
  <1> USE Runs DEF IInv, Kinds, AllPC, SenderPC, ReceiverPC, Over, Dead, InHandler, ipcVars, localVars, loopVars
  <1>1. CASE Leaves(p)
    BY <1>1 DEF Leaves
  <1>2. CASE OpenKeyFile(p) /\ p \in Senders
    <2>1. /\ keyFile' \in Keys \cup {NoKey}
          /\ UNCHANGED <<shmKey, semKey, nextShm, nextSem, key, shmId, semId, unstored, attached, holders>>
          /\ \E l \in {"ftok", "ended"} : pc' = [pc EXCEPT ![p] = l]
      BY <1>2 DEF OpenKeyFile, GoTo
    <2>2. QED
      BY <1>2, <2>1
  <1>3. CASE NewSegment(p) /\ p \in Senders
    BY <1>3, Room DEF NewSegment, BeforeSegment
  <1>4. CASE NewSemaphore(p) /\ p \in Senders
    BY <1>4, Room DEF NewSemaphore, BeforeSemaphore, BeforeSegment
  <1>5. CASE Sets(p) /\ p \in Senders
    BY <1>5 DEF Sets
  <1>6. CASE StartWriting(p) /\ p \in Senders
    BY <1>6 DEF StartWriting, GoTo
  <1>7. CASE FinishWriting(p) /\ p \in Senders
    BY <1>7 DEF FinishWriting, GoTo
  <1>8. CASE RemoveSegment(p) /\ p \in Senders
    BY <1>8 DEF RemoveSegment, ShmIdentifier, GoTo
  <1>9. CASE RemoveSemaphore(p) /\ p \in Senders
    BY <1>9 DEF RemoveSemaphore, SemaphoresLeft, SemIdentifier, GoTo
  <1>10. CASE RemoveKeyFile(p) /\ p \in Senders
    BY <1>10 DEF RemoveKeyFile, GoTo
  <1>11. ASSUME p \in Receivers, NEW n \in Ids, FindsSegment(p, n) PROVE Kinds'
    BY <1>11 DEF FindsSegment
  <1>12. ASSUME p \in Receivers, NEW n \in Ids, FindsSemaphore(p, n) PROVE Kinds'
    BY <1>12 DEF FindsSemaphore
  <1>13. CASE Copy(p) /\ p \in Receivers
    BY <1>13 DEF Copy, GoTo
  <1>14. CASE GetsKey(p)
    BY <1>14 DEF GetsKey
  <1>15. CASE Maps(p)
    BY <1>15 DEF Maps
  <1>16. CASE Lock(p)
    <2>1. pc' \in [Processes -> AllPC] /\ holders' \subseteq Processes
      BY <1>16 DEF Lock, AfterLock, GoTo
    <2>2. QED
      BY <1>16, <2>1 DEF Lock, AfterLock, GoTo
  <1>17. CASE Unlock(p)
    BY <1>17 DEF Unlock, Raise, GoTo
  <1>18. CASE (StoreSegment(p) \/ StoreSemaphore(p)) /\ p \in Senders
    <2>1. CASE StoreSegment(p)
      BY <1>18, <2>1 DEF StoreSegment, GoTo
    <2>2. CASE StoreSemaphore(p)
      BY <1>18, <2>2 DEF StoreSemaphore, GoTo
    <2>3. QED
      BY <1>18, <2>1, <2>2
  <1>19. QED
    BY <1>1, <1>2, <1>3, <1>4, <1>5, <1>6, <1>7, <1>8, <1>9, <1>10, <1>11,
       <1>12, <1>13, <1>14, <1>15, <1>16, <1>17, <1>18
       DEF Steps, OfSender, OfReceiver

\* The two ways Lock goes.
LEMMA LockSteps ==
    ASSUME IInv, NEW p \in Processes, Lock(p)
    PROVE  /\ pc[p] = "lock" /\ pc' = [pc EXCEPT ![p] = AfterLock(p)]
           /\ semId[p] \in Ids /\ semId[p] < nextSem
           /\ UNCHANGED <<keyFile, shmKey, semKey, nextShm, nextSem, key, shmId, semId, attached, buffer, sent, seen>>
           /\ \/ Gone(p) /\ UNCHANGED <<value, holders>>
              \/ /\ ~Gone(p) /\ value[semId[p]] = 1
                 /\ value' = [value EXCEPT ![semId[p]] = 0]
                 /\ holders' = holders \cup {p}
  <1> USE DEF IInv, Kinds, DataKinds, IdsGiven, Lock, GoTo, ipcVars, localVars
  <1>1. semId[p] \in Ids /\ semId[p] < nextSem
    OBVIOUS
  <1>2. CASE Gone(p)
    BY <1>1, <1>2
  <1>3. CASE ~Gone(p)
    <2>1. value[semId[p]] = 1
      BY <1>1, <1>3
    <2>2. QED
      BY <1>1, <1>3, <2>1
  <1>4. QED
    BY <1>2, <1>3

\* No semaphore counts two, and no sender writes more than it may.
LEMMA DataKindsStep ==
    ASSUME IInv, NEW p \in Processes, Steps(p)
    PROVE  DataKinds'
  <1> USE Runs DEF IInv, Kinds, DataKinds, Holding, Token, Gone, AllPC, SenderPC, ReceiverPC, Over, Dead,
          InHandler, ipcVars, localVars, loopVars
  <1>1. CASE Leaves(p)
    BY <1>1 DEF Leaves
  <1>2. CASE OpenKeyFile(p) /\ p \in Senders
    BY <1>2 DEF OpenKeyFile, GoTo
  <1>3. CASE NewSegment(p) /\ p \in Senders
    BY <1>3 DEF NewSegment
  <1>4. CASE NewSemaphore(p) /\ p \in Senders
    BY <1>4 DEF NewSemaphore
  <1>5. CASE Sets(p) /\ p \in Senders
    BY <1>5 DEF Sets
  <1>6. CASE StartWriting(p) /\ p \in Senders
    BY <1>6 DEF StartWriting, GoTo
  <1>7. CASE FinishWriting(p) /\ p \in Senders
    BY <1>7 DEF FinishWriting, GoTo
  <1>8. CASE RemoveSegment(p) /\ p \in Senders
    BY <1>8 DEF RemoveSegment, ShmIdentifier, GoTo
  <1>9. CASE RemoveSemaphore(p) /\ p \in Senders
    BY <1>9 DEF RemoveSemaphore, SemaphoresLeft, SemIdentifier, GoTo
  <1>10. CASE RemoveKeyFile(p) /\ p \in Senders
    BY <1>10 DEF RemoveKeyFile, GoTo
  <1>11. ASSUME p \in Receivers, NEW n \in Ids, FindsSegment(p, n) PROVE DataKinds'
    BY <1>11 DEF FindsSegment
  <1>12. ASSUME p \in Receivers, NEW n \in Ids, FindsSemaphore(p, n) PROVE DataKinds'
    BY <1>12 DEF FindsSemaphore
  <1>13. CASE Copy(p) /\ p \in Receivers
    BY <1>13 DEF Copy, GoTo
  <1>14. CASE GetsKey(p)
    BY <1>14 DEF GetsKey
  <1>15. CASE Maps(p)
    BY <1>15 DEF Maps
  <1>16. CASE Lock(p)
    <2>1. value' \in [Ids -> {0, 1}]
      <3>1. value' = value \/ value' = [value EXCEPT ![semId[p]] = 0]
        BY <1>16, LockSteps
      <3>2. QED
        BY <3>1
    <2>2. UNCHANGED <<buffer, sent, seen>> /\ \A s \in Senders : pc'[s] = "write" => sent[s] < MaxMessages
      BY <1>16 DEF Lock, AfterLock, GoTo
    <2>3. QED
      BY <2>1, <2>2
  <1>17. CASE Unlock(p)
    BY <1>17 DEF Unlock, Raise, GoTo
  <1>18. CASE (StoreSegment(p) \/ StoreSemaphore(p)) /\ p \in Senders
    BY <1>18 DEF StoreSegment, StoreSemaphore, GoTo
  <1>19. QED
    BY <1>1, <1>2, <1>3, <1>4, <1>5, <1>6, <1>7, <1>8, <1>9, <1>10, <1>11,
       <1>12, <1>13, <1>14, <1>15, <1>16, <1>17, <1>18
       DEF Steps, OfSender, OfReceiver

\* shmget and semget are called once by a sender.
LEMMA FewIdsStep ==
    ASSUME IInv, NEW p \in Processes, Steps(p)
    PROVE  FewIds'
  <1> USE Runs, Room DEF IInv, Kinds, FewIds
  <1> DEFINE Shm == PastShmget  Sem == PastSemget
  <1>1. /\ IsFiniteSet(Shm') /\ Cardinality(Shm') \in Nat
        /\ IsFiniteSet(Sem') /\ Cardinality(Sem') \in Nat
    <2>1. Shm' \in SUBSET Senders /\ Sem' \in SUBSET Senders
      BY DEF PastShmget, PastSemget
    <2>2. QED
      BY <2>1, FS_Subset, FS_CardinalityType
  <1>2. Shm \subseteq Shm' /\ Sem \subseteq Sem'
    <2>1. \A s \in Senders : s # p => pc'[s] = pc[s]
      BY DEF StoreSegment, StoreSemaphore,
         Steps, Leaves, OfSender, OfReceiver, GetsKey, NewSegment, Maps, NewSemaphore, Sets, FindsSegment,
         FindsSemaphore, OpenKeyFile, StartWriting, FinishWriting, RemoveSegment, RemoveSemaphore, RemoveKeyFile,
         Copy, Lock, Unlock, GoTo
    <2>2. /\ p \in Senders /\ pc[p] \notin BeforeSegment => pc'[p] \notin BeforeSegment
          /\ p \in Senders /\ pc[p] \notin BeforeSemaphore => pc'[p] \notin BeforeSemaphore
      BY DEF BeforeSegment, BeforeSemaphore, StoreSegment, StoreSemaphore,
         Steps, Leaves, OfSender, OfReceiver, GetsKey, NewSegment, Maps,
         NewSemaphore, Sets, FindsSegment, FindsSemaphore, OpenKeyFile, StartWriting, FinishWriting, RemoveSegment,
         RemoveSemaphore, RemoveKeyFile, Copy, Lock, Unlock, AfterLock, GoTo, Dead
    <2> HIDE DEF IInv, Kinds
    <2>3. QED
      BY <2>1, <2>2 DEF PastShmget, PastSemget
  <1>3. Cardinality(Shm) <= Cardinality(Shm') /\ Cardinality(Sem) <= Cardinality(Sem')
    BY <1>1, <1>2, FS_Subset
  <1>4. CASE NewSegment(p)
    <2>1. p \in Shm' /\ p \notin Shm
      BY <1>4 DEF NewSegment, PastShmget, BeforeSegment
    <2>2. Cardinality(Shm) # Cardinality(Shm')
      BY <1>1, <1>2, <2>1, FS_Subset
    <2>3. nextShm' = nextShm + 1 /\ nextSem' = nextSem
      BY <1>4 DEF NewSegment
    <2>4. QED
      BY <1>1, <1>3, <2>2, <2>3
  <1>5. CASE NewSemaphore(p)
    <2>1. p \in Sem' /\ p \notin Sem
      BY <1>5 DEF NewSemaphore, PastSemget, BeforeSemaphore, BeforeSegment
    <2>2. Cardinality(Sem) # Cardinality(Sem')
      BY <1>1, <1>2, <2>1, FS_Subset
    <2>3. nextShm' = nextShm /\ nextSem' = nextSem + 1
      BY <1>5 DEF NewSemaphore
    <2>4. QED
      BY <1>1, <1>3, <2>2, <2>3
  <1>6. CASE ~NewSegment(p) /\ ~NewSemaphore(p)
    <2>1. nextShm' = nextShm /\ nextSem' = nextSem
      BY <1>6 DEF StoreSegment, StoreSemaphore,
         Steps, Leaves, OfSender, OfReceiver, GetsKey, Maps, Sets, FindsSegment, FindsSemaphore,
         OpenKeyFile, StartWriting, FinishWriting, RemoveSegment, RemoveSemaphore, RemoveKeyFile, Copy, Lock,
         Unlock, ipcVars
    <2>2. QED
      BY <1>1, <1>3, <2>1
  <1>7. QED
    BY <1>4, <1>5, <1>6

\* An id that is new is put to use by the call that gives it out.
LEMMA UnusedStep ==
    ASSUME IInv, NEW p \in Processes, Steps(p)
    PROVE  Unused'
  <1> USE Runs DEF IInv, Kinds, Unused, IdsGiven, ipcVars, localVars, loopVars
  <1>1. CASE Leaves(p)
    BY <1>1 DEF Leaves
  <1>2. CASE OpenKeyFile(p) /\ p \in Senders
    BY <1>2 DEF OpenKeyFile, GoTo
  <1>3. CASE NewSegment(p) /\ p \in Senders
    BY <1>3 DEF NewSegment
  <1>4. CASE NewSemaphore(p) /\ p \in Senders
    BY <1>4 DEF NewSemaphore
  <1>5. CASE Sets(p) /\ p \in Senders
    BY <1>5 DEF Sets
  <1>6. CASE StartWriting(p) /\ p \in Senders
    BY <1>6 DEF StartWriting, GoTo
  <1>7. CASE FinishWriting(p) /\ p \in Senders
    BY <1>7 DEF FinishWriting, GoTo
  <1>8. CASE RemoveSegment(p) /\ p \in Senders
    BY <1>8 DEF RemoveSegment, ShmIdentifier, GoTo
  <1>9. CASE RemoveSemaphore(p) /\ p \in Senders
    BY <1>9 DEF RemoveSemaphore, SemaphoresLeft, SemIdentifier, GoTo
  <1>10. CASE RemoveKeyFile(p) /\ p \in Senders
    BY <1>10 DEF RemoveKeyFile, GoTo
  <1>11. ASSUME p \in Receivers, NEW n \in Ids, FindsSegment(p, n) PROVE Unused'
    BY <1>11 DEF FindsSegment
  <1>12. ASSUME p \in Receivers, NEW n \in Ids, FindsSemaphore(p, n) PROVE Unused'
    BY <1>12 DEF FindsSemaphore
  <1>13. CASE Copy(p) /\ p \in Receivers
    BY <1>13 DEF Copy, GoTo
  <1>14. CASE GetsKey(p)
    BY <1>14 DEF GetsKey
  <1>15. CASE Maps(p)
    BY <1>15 DEF Maps
  <1>16. CASE Lock(p)
    <2>1. \/ value' = value
          \/ value' = [value EXCEPT ![semId[p]] = 0]
      BY <1>16, LockSteps
    <2>2. value \in [Ids -> {0, 1}] /\ semId[p] \in Ids /\ semId[p] < nextSem
      BY <1>16, LockSteps DEF DataKinds
    <2>3. \A n \in Ids : n # semId[p] => value'[n] = value[n]
      BY <2>1, <2>2
    <2>4. UNCHANGED <<shmKey, semKey, nextShm, nextSem>>
      BY <1>16, LockSteps
    <2>5. QED
      BY <2>2, <2>3, <2>4
  <1>17. CASE Unlock(p)
    BY <1>17 DEF Unlock, Raise, GoTo
  <1>18. CASE (StoreSegment(p) \/ StoreSemaphore(p)) /\ p \in Senders
    BY <1>18 DEF StoreSegment, StoreSemaphore, GoTo
  <1>19. QED
    BY <1>1, <1>2, <1>3, <1>4, <1>5, <1>6, <1>7, <1>8, <1>9, <1>10, <1>11,
       <1>12, <1>13, <1>14, <1>15, <1>16, <1>17, <1>18
       DEF Steps, OfSender, OfReceiver

\* Ids are used after they have been given out.
LEMMA IdsGivenStep ==
    ASSUME IInv, NEW p \in Processes, Steps(p)
    PROVE  IdsGiven'
  <1> USE Runs DEF IInv, Kinds, Unused, IdsGiven, NoIdsYet, SenderPC, ReceiverPC, Over, Dead, InHandler,
          BeforeSegment, BeforeSemaphore, ipcVars, localVars, loopVars
  <1>1. CASE Leaves(p)
    BY <1>1 DEF Leaves
  <1>2. CASE OpenKeyFile(p) /\ p \in Senders
    BY <1>2 DEF OpenKeyFile, GoTo
  <1>3. CASE NewSegment(p) /\ p \in Senders
    BY <1>3 DEF NewSegment
  <1>4. CASE NewSemaphore(p) /\ p \in Senders
    BY <1>4 DEF NewSemaphore
  <1>5. CASE Sets(p) /\ p \in Senders
    BY <1>5 DEF Sets
  <1>6. CASE StartWriting(p) /\ p \in Senders
    BY <1>6 DEF StartWriting, GoTo
  <1>7. CASE FinishWriting(p) /\ p \in Senders
    BY <1>7 DEF FinishWriting, GoTo
  <1>8. CASE RemoveSegment(p) /\ p \in Senders
    BY <1>8 DEF RemoveSegment, ShmIdentifier, GoTo
  <1>9. CASE RemoveSemaphore(p) /\ p \in Senders
    BY <1>9 DEF RemoveSemaphore, SemaphoresLeft, SemIdentifier, GoTo
  <1>10. CASE RemoveKeyFile(p) /\ p \in Senders
    BY <1>10 DEF RemoveKeyFile, GoTo
  <1>11. ASSUME p \in Receivers, NEW n \in Ids, FindsSegment(p, n) PROVE IdsGiven'
    BY <1>11 DEF FindsSegment
  <1>12. ASSUME p \in Receivers, NEW n \in Ids, FindsSemaphore(p, n) PROVE IdsGiven'
    BY <1>12 DEF FindsSemaphore
  <1>13. CASE Copy(p) /\ p \in Receivers
    BY <1>13 DEF Copy, GoTo
  <1>14. CASE GetsKey(p)
    BY <1>14 DEF GetsKey
  <1>15. CASE Maps(p)
    BY <1>15 DEF Maps
  <1>16. CASE Lock(p)
    BY <1>16 DEF Lock, AfterLock, GoTo
  <1>17. CASE Unlock(p)
    BY <1>17 DEF Unlock, Raise, GoTo
  <1>18. CASE (StoreSegment(p) \/ StoreSemaphore(p)) /\ p \in Senders
    BY <1>18 DEF StoreSegment, StoreSemaphore, GoTo
  <1>19. QED
    BY <1>1, <1>2, <1>3, <1>4, <1>5, <1>6, <1>7, <1>8, <1>9, <1>10, <1>11,
       <1>12, <1>13, <1>14, <1>15, <1>16, <1>17, <1>18
       DEF Steps, OfSender, OfReceiver

\* Lock lowers the semaphore, and only Unlock raises it.
LEMMA HoldingStep ==
    ASSUME IInv, NEW p \in Processes, Steps(p)
    PROVE  Holding'
  <1> USE Runs DEF IInv, Kinds, IdsGiven, Holding, Gone, Dead, ipcVars, localVars, loopVars
  <1>1. CASE Leaves(p)
    BY <1>1 DEF Leaves
  <1>2. CASE OpenKeyFile(p) /\ p \in Senders
    BY <1>2 DEF OpenKeyFile, GoTo
  <1>3. CASE NewSegment(p) /\ p \in Senders
    BY <1>3 DEF NewSegment
  <1>4. CASE NewSemaphore(p) /\ p \in Senders
    BY <1>4 DEF NewSemaphore
  <1>5. CASE Sets(p) /\ p \in Senders
    BY <1>5 DEF Sets
  <1>6. CASE StartWriting(p) /\ p \in Senders
    BY <1>6 DEF StartWriting, GoTo
  <1>7. CASE FinishWriting(p) /\ p \in Senders
    BY <1>7 DEF FinishWriting, GoTo
  <1>8. CASE RemoveSegment(p) /\ p \in Senders
    BY <1>8 DEF RemoveSegment, ShmIdentifier, GoTo
  <1>9. CASE RemoveSemaphore(p) /\ p \in Senders
    BY <1>9 DEF RemoveSemaphore, SemaphoresLeft, SemIdentifier, GoTo
  <1>10. CASE RemoveKeyFile(p) /\ p \in Senders
    BY <1>10 DEF RemoveKeyFile, GoTo
  <1>11. ASSUME p \in Receivers, NEW n \in Ids, FindsSegment(p, n) PROVE Holding'
    BY <1>11 DEF FindsSegment
  <1>12. ASSUME p \in Receivers, NEW n \in Ids, FindsSemaphore(p, n) PROVE Holding'
    BY <1>12 DEF FindsSemaphore
  <1>13. CASE Copy(p) /\ p \in Receivers
    BY <1>13 DEF Copy, GoTo
  <1>14. CASE GetsKey(p)
    BY <1>14 DEF GetsKey
  <1>15. CASE Maps(p)
    BY <1>15 DEF Maps
  <1>16. CASE Lock(p)
    BY <1>16 DEF Lock, AfterLock, GoTo
  <1>17. CASE Unlock(p)
    BY <1>17 DEF Unlock, Raise, GoTo
  <1>18. CASE (StoreSegment(p) \/ StoreSemaphore(p)) /\ p \in Senders
    BY <1>18 DEF StoreSegment, StoreSemaphore, GoTo
  <1>19. QED
    BY <1>1, <1>2, <1>3, <1>4, <1>5, <1>6, <1>7, <1>8, <1>9, <1>10, <1>11,
       <1>12, <1>13, <1>14, <1>15, <1>16, <1>17, <1>18
       DEF Steps, OfSender, OfReceiver

\* No second token is made.
LEMMA TokenStep ==
    ASSUME IInv, NEW p \in Processes, Steps(p)
    PROVE  Token'
  <1> USE Runs DEF IInv, Kinds, DataKinds, Unused, IdsGiven, Holding, Token, Gone, SemMaker, Makers, SenderPC,
          ReceiverPC, Over, Dead, InHandler, BeforeSegment, BeforeSemaphore, ipcVars, localVars, loopVars
  <1>1. CASE Leaves(p)
    BY <1>1 DEF Leaves
  <1>2. CASE OpenKeyFile(p) /\ p \in Senders
    BY <1>2 DEF OpenKeyFile, GoTo
  <1>3. CASE NewSegment(p) /\ p \in Senders
    <2>1. /\ UNCHANGED <<semId, semKey, value, holders>>
          /\ \A s \in Senders : pc'[s] \in {"storeSem", "setval"} => pc'[s] = pc[s]
      BY <1>3 DEF NewSegment
    <2>2. Token
      OBVIOUS
    <2> HIDE DEF IInv, Kinds, DataKinds
    <2>3. QED
      BY <2>1, <2>2
  <1>4. CASE NewSemaphore(p) /\ p \in Senders
    <2>1. /\ semId' = [semId EXCEPT ![p] = nextSem] /\ semKey' = [semKey EXCEPT ![nextSem] = key[p]]
          /\ nextSem \in Ids /\ nextSem \in Nat /\ value' = value /\ holders' = holders
          /\ pc[p] = "semget" /\ pc' = [pc EXCEPT ![p] = "storeSem"]
      BY <1>4, Room DEF NewSemaphore
    <2>2. \A q \in holders : q # p /\ semId'[q] = semId[q] /\ semId[q] < nextSem /\ semKey'[semId[q]] = semKey[semId[q]]
      BY <2>1
    <2>3. \A s \in Senders : s # p /\ pc[s] \in {"storeSem", "setval"} =>
            semId'[s] = semId[s] /\ semId[s] < nextSem /\ semKey'[semId[s]] = semKey[semId[s]]
      BY <2>1
    <2>4. value[nextSem] = 0
      BY <2>1
    <2>5. (/\ \A o, q \in holders : semId[o] = semId[q] /\ ~Gone(o) => o = q
           /\ \A o \in holders : ~Gone(o) => value[semId[o]] = 0)'
      BY <2>1, <2>2
    <2>6. ASSUME NEW s \in Senders, pc'[s] \in {"storeSem", "setval"}, ~Gone(s)'
          PROVE  value'[semId'[s]] = 0 /\ \A q \in holders' : semId'[q] # semId'[s]
      <3>1. CASE s = p
        BY <2>1, <2>2, <2>4, <3>1
      <3>2. CASE s # p
        BY <2>1, <2>2, <2>3, <2>6, <3>2
      <3>3. QED
        BY <3>1, <3>2
    <2>7. QED
      BY <2>5, <2>6
  <1>5. CASE Sets(p) /\ p \in Senders
    BY <1>5 DEF Sets
  <1>6. CASE StartWriting(p) /\ p \in Senders
    <2>1. /\ UNCHANGED <<semId, semKey, value, holders>>
          /\ \A s \in Senders : pc'[s] \in {"storeSem", "setval"} => pc'[s] = pc[s]
      BY <1>6 DEF StartWriting, GoTo
    <2>2. Token
      OBVIOUS
    <2> HIDE DEF IInv, Kinds, DataKinds
    <2>3. QED
      BY <2>1, <2>2
  <1>7. CASE FinishWriting(p) /\ p \in Senders
    BY <1>7 DEF FinishWriting, GoTo
  <1>8. CASE RemoveSegment(p) /\ p \in Senders
    BY <1>8 DEF RemoveSegment, ShmIdentifier, GoTo
  <1>9. CASE RemoveSemaphore(p) /\ p \in Senders
    BY <1>9 DEF RemoveSemaphore, SemaphoresLeft, SemIdentifier, GoTo
  <1>10. CASE RemoveKeyFile(p) /\ p \in Senders
    BY <1>10 DEF RemoveKeyFile, GoTo
  <1>11. ASSUME p \in Receivers, NEW n \in Ids, FindsSegment(p, n) PROVE Token'
    BY <1>11 DEF FindsSegment
  <1>12. ASSUME p \in Receivers, NEW n \in Ids, FindsSemaphore(p, n) PROVE Token'
    BY <1>12 DEF FindsSemaphore
  <1>13. CASE Copy(p) /\ p \in Receivers
    BY <1>13 DEF Copy, GoTo
  <1>14. CASE GetsKey(p)
    BY <1>14 DEF GetsKey
  <1>15. CASE Maps(p)
    BY <1>15 DEF Maps
  <1>16. CASE Lock(p)
    BY <1>16 DEF Lock, AfterLock, GoTo
  <1>17. CASE Unlock(p)
    BY <1>17 DEF Unlock, Raise, GoTo
  <1>18. CASE (StoreSegment(p) \/ StoreSemaphore(p)) /\ p \in Senders
    BY <1>18 DEF StoreSegment, StoreSemaphore, GoTo
  <1>19. QED
    BY <1>1, <1>2, <1>3, <1>4, <1>5, <1>6, <1>7, <1>8, <1>9, <1>10, <1>11,
       <1>12, <1>13, <1>14, <1>15, <1>16, <1>17, <1>18
       DEF Steps, OfSender, OfReceiver

\* Ids and keys come with the calls that ask for them.
LEMMA NoIdsYetStep ==
    ASSUME IInv, NEW p \in Processes, Steps(p)
    PROVE  NoIdsYet'
  <1> USE Runs DEF IInv, Kinds, NoIdsYet, SenderPC, ReceiverPC, Over, Dead, InHandler, BeforeSegment,
          BeforeSemaphore, ipcVars, localVars, loopVars
  <1>1. CASE Leaves(p)
    BY <1>1 DEF Leaves
  <1>2. CASE OpenKeyFile(p) /\ p \in Senders
    BY <1>2 DEF OpenKeyFile, GoTo
  <1>3. CASE NewSegment(p) /\ p \in Senders
    BY <1>3 DEF NewSegment
  <1>4. CASE NewSemaphore(p) /\ p \in Senders
    BY <1>4 DEF NewSemaphore
  <1>5. CASE Sets(p) /\ p \in Senders
    BY <1>5 DEF Sets
  <1>6. CASE StartWriting(p) /\ p \in Senders
    BY <1>6 DEF StartWriting, GoTo
  <1>7. CASE FinishWriting(p) /\ p \in Senders
    BY <1>7 DEF FinishWriting, GoTo
  <1>8. CASE RemoveSegment(p) /\ p \in Senders
    BY <1>8 DEF RemoveSegment, ShmIdentifier, GoTo
  <1>9. CASE RemoveSemaphore(p) /\ p \in Senders
    BY <1>9 DEF RemoveSemaphore, SemaphoresLeft, SemIdentifier, GoTo
  <1>10. CASE RemoveKeyFile(p) /\ p \in Senders
    BY <1>10 DEF RemoveKeyFile, GoTo
  <1>11. ASSUME p \in Receivers, NEW n \in Ids, FindsSegment(p, n) PROVE NoIdsYet'
    BY <1>11 DEF FindsSegment
  <1>12. ASSUME p \in Receivers, NEW n \in Ids, FindsSemaphore(p, n) PROVE NoIdsYet'
    BY <1>12 DEF FindsSemaphore
  <1>13. CASE Copy(p) /\ p \in Receivers
    BY <1>13 DEF Copy, GoTo
  <1>14. CASE GetsKey(p)
    BY <1>14 DEF GetsKey
  <1>15. CASE Maps(p)
    BY <1>15 DEF Maps
  <1>16. CASE Lock(p)
    BY <1>16 DEF Lock, AfterLock, GoTo
  <1>17. CASE Unlock(p)
    BY <1>17 DEF Unlock, Raise, GoTo
  <1>18. CASE (StoreSegment(p) \/ StoreSemaphore(p)) /\ p \in Senders
    BY <1>18 DEF StoreSegment, StoreSemaphore, GoTo
  <1>19. QED
    BY <1>1, <1>2, <1>3, <1>4, <1>5, <1>6, <1>7, <1>8, <1>9, <1>10, <1>11,
       <1>12, <1>13, <1>14, <1>15, <1>16, <1>17, <1>18
       DEF Steps, OfSender, OfReceiver

\* A new segment, or semaphore, has an id that nobody has.
LEMMA MakersStep ==
    ASSUME IInv, NEW p \in Processes, Steps(p)
    PROVE  Makers'
  <1> USE Runs DEF IInv, Kinds, DataKinds, Unused, IdsGiven, NoIdsYet, Makers, SemMaker, ShmMaker, SenderPC,
          ReceiverPC, Over, Dead, InHandler, BeforeSegment, BeforeSemaphore, ipcVars, localVars, loopVars
  <1>1. CASE Leaves(p)
    BY <1>1 DEF Leaves
  <1>2. CASE OpenKeyFile(p) /\ p \in Senders
    BY <1>2 DEF OpenKeyFile, GoTo
  <1>3. CASE NewSegment(p) /\ p \in Senders
    BY <1>3, Room, SMTT(30) DEF NewSegment
  <1>4. CASE NewSemaphore(p) /\ p \in Senders
    <2>1. /\ semId' = [semId EXCEPT ![p] = nextSem] /\ semKey' = [semKey EXCEPT ![nextSem] = key[p]]
          /\ nextSem' = nextSem + 1 /\ nextSem \in Ids /\ nextSem \in Nat
          /\ pc[p] = "semget" /\ pc' = [pc EXCEPT ![p] = "storeSem"]
          /\ UNCHANGED <<key, shmId, nextShm, shmKey, sent>>
      BY <1>4, Room DEF NewSemaphore
    <2>2. \A s \in Senders : (SemMaker(s))' => s = p \/ SemMaker(s)
      BY <2>1
    <2>3. \A s \in Senders : s # p /\ SemMaker(s) =>
            semId'[s] = semId[s] /\ semId[s] < nextSem /\ semKey'[semId[s]] = semKey[semId[s]]
      BY <2>1
    <2>4. semId'[p] = nextSem /\ semKey'[nextSem] = key[p]
      BY <2>1
    <2>5. \A s \in Senders : (SemMaker(s))' =>
            (/\ semId[s] < nextSem /\ semKey[semId[s]] \in {key[s], NoKey}
             /\ \A t \in Senders : SemMaker(t) /\ semId[s] = semId[t] => s = t)'
      <3> HIDE DEF SemMaker
      <3>1. QED
        BY <2>1, <2>2, <2>3, <2>4
    <2>6. \A s \in Senders : (ShmMaker(s))' <=> ShmMaker(s)
      BY <2>1
    <2> HIDE DEF SemMaker, ShmMaker
    <2>7. QED
      BY <2>1, <2>5, <2>6
  <1>5. CASE Sets(p) /\ p \in Senders
    BY <1>5 DEF Sets
  <1>6. CASE StartWriting(p) /\ p \in Senders
    BY <1>6, SMTT(30) DEF StartWriting, GoTo
  <1>7. CASE FinishWriting(p) /\ p \in Senders
    BY <1>7 DEF FinishWriting, GoTo
  <1>8. CASE RemoveSegment(p) /\ p \in Senders
    BY <1>8 DEF RemoveSegment, ShmIdentifier, GoTo
  <1>9. CASE RemoveSemaphore(p) /\ p \in Senders
    BY <1>9 DEF RemoveSemaphore, SemaphoresLeft, SemIdentifier, GoTo
  <1>10. CASE RemoveKeyFile(p) /\ p \in Senders
    BY <1>10 DEF RemoveKeyFile, GoTo
  <1>11. ASSUME p \in Receivers, NEW n \in Ids, FindsSegment(p, n) PROVE Makers'
    BY <1>11 DEF FindsSegment
  <1>12. ASSUME p \in Receivers, NEW n \in Ids, FindsSemaphore(p, n) PROVE Makers'
    BY <1>12 DEF FindsSemaphore
  <1>13. CASE Copy(p) /\ p \in Receivers
    BY <1>13 DEF Copy, GoTo
  <1>14. CASE GetsKey(p)
    BY <1>14 DEF GetsKey
  <1>15. CASE Maps(p)
    BY <1>15 DEF Maps
  <1>16. CASE Lock(p)
    BY <1>16 DEF Lock, AfterLock, GoTo
  <1>17. CASE Unlock(p)
    BY <1>17 DEF Unlock, Raise, GoTo
  <1>18. CASE (StoreSegment(p) \/ StoreSemaphore(p)) /\ p \in Senders
    BY <1>18 DEF StoreSegment, StoreSemaphore, GoTo
  <1>19. QED
    BY <1>1, <1>2, <1>3, <1>4, <1>5, <1>6, <1>7, <1>8, <1>9, <1>10, <1>11,
       <1>12, <1>13, <1>14, <1>15, <1>16, <1>17, <1>18
       DEF Steps, OfSender, OfReceiver

\* semget fails as long as there is another semaphore with the key.
LEMMA NewerStep ==
    ASSUME IInv, NEW p \in Processes, Steps(p)
    PROVE  Newer'
  <1> USE Runs DEF IInv, Kinds, DataKinds, Unused, IdsGiven, NoIdsYet, Makers, Newer, SemMaker, ShmMaker,
          SenderPC, ReceiverPC, Over, Dead, InHandler, BeforeSegment, BeforeSemaphore, ipcVars, localVars,
          loopVars
  <1>1. CASE Leaves(p)
    BY <1>1 DEF Leaves
  <1>2. CASE OpenKeyFile(p) /\ p \in Senders
    BY <1>2 DEF OpenKeyFile, GoTo
  <1>3. CASE NewSegment(p) /\ p \in Senders
    BY <1>3, Room DEF NewSegment
  <1>4. CASE NewSemaphore(p) /\ p \in Senders
    BY <1>4, Room DEF NewSemaphore
  <1>5. CASE Sets(p) /\ p \in Senders
    BY <1>5 DEF Sets
  <1>6. CASE StartWriting(p) /\ p \in Senders
    BY <1>6 DEF StartWriting, GoTo
  <1>7. CASE FinishWriting(p) /\ p \in Senders
    BY <1>7 DEF FinishWriting, GoTo
  <1>8. CASE RemoveSegment(p) /\ p \in Senders
    BY <1>8 DEF RemoveSegment, ShmIdentifier, GoTo
  <1>9. CASE RemoveSemaphore(p) /\ p \in Senders
    BY <1>9 DEF RemoveSemaphore, SemaphoresLeft, SemIdentifier, GoTo
  <1>10. CASE RemoveKeyFile(p) /\ p \in Senders
    BY <1>10 DEF RemoveKeyFile, GoTo
  <1>11. ASSUME p \in Receivers, NEW n \in Ids, FindsSegment(p, n) PROVE Newer'
    BY <1>11 DEF FindsSegment
  <1>12. ASSUME p \in Receivers, NEW n \in Ids, FindsSemaphore(p, n) PROVE Newer'
    BY <1>12 DEF FindsSemaphore
  <1>13. CASE Copy(p) /\ p \in Receivers
    BY <1>13 DEF Copy, GoTo
  <1>14. CASE GetsKey(p)
    BY <1>14 DEF GetsKey
  <1>15. CASE Maps(p)
    BY <1>15 DEF Maps
  <1>16. CASE Lock(p)
    BY <1>16 DEF Lock, AfterLock, GoTo
  <1>17. CASE Unlock(p)
    BY <1>17 DEF Unlock, Raise, GoTo
  <1>18. CASE (StoreSegment(p) \/ StoreSemaphore(p)) /\ p \in Senders
    BY <1>18 DEF StoreSegment, StoreSemaphore, GoTo
  <1>19. QED
    BY <1>1, <1>2, <1>3, <1>4, <1>5, <1>6, <1>7, <1>8, <1>9, <1>10, <1>11,
       <1>12, <1>13, <1>14, <1>15, <1>16, <1>17, <1>18
       DEF Steps, OfSender, OfReceiver

\* A segment keeps its maker, and the maker its key.
LEMMA MakerStays ==
    ASSUME IInv, NEW p \in Processes, Steps(p), NEW s \in Senders, ShmMaker(s)'
    PROVE  \/ s = p /\ NewSegment(p)
           \/ ShmMaker(s) /\ shmId'[s] = shmId[s] /\ key'[s] = key[s]
  <1> USE Runs DEF IInv, Kinds, DataKinds, NoIdsYet, SemMaker, ShmMaker, BeforeSegment, BeforeSemaphore, Dead,
          ipcVars, localVars, loopVars
  <1>1. CASE Leaves(p)
    BY <1>1 DEF Leaves
  <1>2. CASE OpenKeyFile(p)
    BY <1>2 DEF OpenKeyFile, GoTo
  <1>3. CASE NewSegment(p)
    BY <1>3 DEF NewSegment
  <1>4. CASE NewSemaphore(p)
    BY <1>4 DEF NewSemaphore
  <1>5. CASE Sets(p)
    BY <1>5 DEF Sets
  <1>6. CASE StartWriting(p)
    BY <1>6 DEF StartWriting, GoTo
  <1>7. CASE FinishWriting(p)
    BY <1>7 DEF FinishWriting, GoTo
  <1>8. CASE RemoveSegment(p)
    BY <1>8 DEF RemoveSegment, ShmIdentifier, GoTo
  <1>9. CASE RemoveSemaphore(p)
    BY <1>9 DEF RemoveSemaphore, SemaphoresLeft, SemIdentifier, GoTo
  <1>10. CASE RemoveKeyFile(p)
    BY <1>10 DEF RemoveKeyFile, GoTo
  <1>11. ASSUME p \in Receivers, NEW n \in Ids, FindsSegment(p, n)
         PROVE  ShmMaker(s) /\ shmId'[s] = shmId[s] /\ key'[s] = key[s]
    BY <1>11 DEF FindsSegment
  <1>12. ASSUME p \in Receivers, NEW n \in Ids, FindsSemaphore(p, n)
         PROVE  ShmMaker(s) /\ shmId'[s] = shmId[s] /\ key'[s] = key[s]
    BY <1>12 DEF FindsSemaphore
  <1>13. CASE Copy(p) /\ p \in Receivers
    BY <1>13 DEF Copy, GoTo
  <1>14. CASE GetsKey(p)
    BY <1>14 DEF GetsKey
  <1>15. CASE Maps(p)
    BY <1>15 DEF Maps
  <1>16. CASE Lock(p)
    BY <1>16 DEF Lock, AfterLock, GoTo
  <1>17. CASE Unlock(p)
    BY <1>17 DEF Unlock, Raise, GoTo
  <1>18. CASE (StoreSegment(p) \/ StoreSemaphore(p)) /\ p \in Senders
    BY <1>18 DEF StoreSegment, StoreSemaphore, GoTo
  <1>19. QED
    BY <1>1, <1>2, <1>3, <1>4, <1>5, <1>6, <1>7, <1>8, <1>9, <1>10, <1>11, <1>12, <1>13, <1>14, <1>15, <1>16, <1>17, <1>18
       DEF Steps, OfSender, OfReceiver

\* shmget finds the segment that has the key of the receiver.
LEMMA SegmentOfKeyStep ==
    ASSUME IInv, NEW p \in Processes, Steps(p)
    PROVE  SegmentOfKey'
  <1> USE Runs DEF IInv, Kinds, IdsGiven, SegmentOfKey
  <1> DEFINE Later == {"shmat", "semget", "lock", "copy", "unlock"}
  <1> SUFFICES ASSUME NEW r \in Receivers, pc'[r] \in Later
               PROVE  /\ key'[r] # NoKey
                      /\ \A s \in Senders : ShmMaker(s)' /\ shmId'[s] = shmId'[r] => key'[s] = key'[r]
    OBVIOUS
  <1>1. CASE pc[r] \in Later /\ shmId'[r] = shmId[r] /\ key'[r] = key[r]
    <2>1. shmId[r] < nextShm /\ key[r] # NoKey
      BY <1>1
    <2>2. ASSUME NEW s \in Senders, ShmMaker(s)', shmId'[s] = shmId[r] PROVE key'[s] = key[r]
      <3>1. CASE NewSegment(p) /\ s = p
        BY <2>1, <2>2, <3>1 DEF NewSegment
      <3>2. CASE ShmMaker(s) /\ shmId'[s] = shmId[s] /\ key'[s] = key[s]
        BY <1>1, <2>2, <3>2
      <3>3. QED
        BY <2>2, <3>1, <3>2, MakerStays
    <2>3. QED
      BY <1>1, <2>1, <2>2
  <1>2. CASE \E n \in Ids : p = r /\ FindsSegment(r, n)
    <2>1. PICK n \in Ids : p = r /\ FindsSegment(r, n)
      BY <1>2
    <2>2. key'[r] = key[r] /\ key[r] # NoKey /\ shmId'[r] = n /\ shmKey[n] = key[r]
      BY <2>1 DEF FindsSegment, NoIdsYet
    <2>3. ASSUME NEW s \in Senders, ShmMaker(s)', shmId'[s] = n PROVE key'[s] = key[r]
      <3>1. ShmMaker(s) /\ shmId'[s] = shmId[s] /\ key'[s] = key[s]
        BY <2>1, <2>3, MakerStays DEF FindsSegment, NewSegment
      <3>2. QED
        BY <2>2, <2>3, <3>1 DEF Makers
    <2>4. QED
      BY <2>2, <2>3
  <1>3. \/ pc[r] \in Later /\ shmId'[r] = shmId[r] /\ key'[r] = key[r]
        \/ \E n \in Ids : p = r /\ FindsSegment(r, n)
    <2>1. CASE OfSender(p)
      BY <2>1 DEF OfSender, OpenKeyFile, NewSegment, StoreSegment, NewSemaphore, StoreSemaphore, Sets, StartWriting,
         FinishWriting, RemoveSegment, RemoveSemaphore, RemoveKeyFile, GoTo, ipcVars, localVars, loopVars
    <2>2. CASE Leaves(p)
      BY <2>2 DEF Leaves, Dead, ipcVars, loopVars
    <2>3. CASE OfReceiver(p)
      BY <2>3 DEF OfReceiver, FindsSegment, FindsSemaphore, Copy, GoTo, ipcVars, localVars, loopVars
    <2>4. CASE GetsKey(p) \/ Maps(p)
      BY <2>4 DEF GetsKey, Maps, ipcVars, loopVars
    <2>5. CASE Lock(p) \/ Unlock(p)
      BY <2>5 DEF Lock, Unlock, AfterLock, GoTo, ipcVars, localVars
    <2>6. QED
      BY <2>1, <2>2, <2>3, <2>4, <2>5 DEF Steps
  <1>4. QED
    BY <1>1, <1>2, <1>3

\* semget finds the semaphore that has the key of the receiver.
LEMMA SemaphoreOfKeyStep ==
    ASSUME IInv, NEW p \in Processes, Steps(p)
    PROVE  SemaphoreOfKey'
  <1> USE Runs DEF IInv, Kinds, IdsGiven, SemaphoreOfKey, Dead, ipcVars, localVars, loopVars
  <1>1. CASE Leaves(p)
    BY <1>1 DEF Leaves
  <1>2. CASE OpenKeyFile(p) /\ p \in Senders
    BY <1>2 DEF OpenKeyFile, GoTo
  <1>3. CASE NewSegment(p) /\ p \in Senders
    BY <1>3 DEF NewSegment
  <1>4. CASE NewSemaphore(p) /\ p \in Senders
    BY <1>4 DEF NewSemaphore
  <1>5. CASE Sets(p) /\ p \in Senders
    BY <1>5 DEF Sets
  <1>6. CASE StartWriting(p) /\ p \in Senders
    BY <1>6 DEF StartWriting, GoTo
  <1>7. CASE FinishWriting(p) /\ p \in Senders
    BY <1>7 DEF FinishWriting, GoTo
  <1>8. CASE RemoveSegment(p) /\ p \in Senders
    BY <1>8 DEF RemoveSegment, ShmIdentifier, GoTo
  <1>9. CASE RemoveSemaphore(p) /\ p \in Senders
    BY <1>9 DEF RemoveSemaphore, SemaphoresLeft, SemIdentifier, GoTo
  <1>10. CASE RemoveKeyFile(p) /\ p \in Senders
    BY <1>10 DEF RemoveKeyFile, GoTo
  <1>11. ASSUME p \in Receivers, NEW n \in Ids, FindsSegment(p, n) PROVE SemaphoreOfKey'
    BY <1>11 DEF FindsSegment
  <1>12. ASSUME p \in Receivers, NEW n \in Ids, FindsSemaphore(p, n) PROVE SemaphoreOfKey'
    BY <1>12 DEF FindsSemaphore
  <1>13. CASE Copy(p) /\ p \in Receivers
    BY <1>13 DEF Copy, GoTo
  <1>14. CASE GetsKey(p)
    BY <1>14 DEF GetsKey
  <1>15. CASE Maps(p)
    BY <1>15 DEF Maps
  <1>16. CASE Lock(p)
    BY <1>16 DEF Lock, AfterLock, GoTo
  <1>17. CASE Unlock(p)
    BY <1>17 DEF Unlock, Raise, GoTo
  <1>18. CASE (StoreSegment(p) \/ StoreSemaphore(p)) /\ p \in Senders
    BY <1>18 DEF StoreSegment, StoreSemaphore, GoTo
  <1>19. QED
    BY <1>1, <1>2, <1>3, <1>4, <1>5, <1>6, <1>7, <1>8, <1>9, <1>10, <1>11,
       <1>12, <1>13, <1>14, <1>15, <1>16, <1>17, <1>18
       DEF Steps, OfSender, OfReceiver

\* Half a message stays the work of the one who wrote it.
LEMMA TornByStep ==
    ASSUME IInv, NEW p \in Processes, Steps(p), NEW s \in Senders, NEW m \in Ids, TornBy(m, s),
           ~(p = s /\ FinishWriting(p))
    PROVE  TornBy(m, s)'
  <1> USE Runs DEF IInv, Kinds, DataKinds, IdsGiven, Makers, SemMaker, TornBy, Gone, InHandler, Over, Dead,
          BeforeSemaphore, BeforeSegment, ipcVars, localVars, loopVars
  <1>1. CASE Leaves(p)
    BY <1>1 DEF Leaves
  <1>2. CASE OpenKeyFile(p)
    BY <1>2 DEF OpenKeyFile, GoTo
  <1>3. CASE NewSegment(p)
    BY <1>3 DEF NewSegment
  <1>4. CASE NewSemaphore(p)
    BY <1>4 DEF NewSemaphore
  <1>5. CASE Sets(p)
    BY <1>5 DEF Sets
  <1>6. CASE StartWriting(p)
    BY <1>6 DEF StartWriting, GoTo
  <1>7. CASE FinishWriting(p)
    BY <1>7 DEF FinishWriting, GoTo
  <1>8. CASE RemoveSegment(p)
    BY <1>8 DEF RemoveSegment, ShmIdentifier, GoTo
  <1>9. CASE RemoveSemaphore(p)
    BY <1>9 DEF RemoveSemaphore, SemaphoresLeft, SemIdentifier, GoTo
  <1>10. CASE RemoveKeyFile(p)
    BY <1>10 DEF RemoveKeyFile, GoTo
  <1>11. ASSUME p \in Receivers, NEW n \in Ids, FindsSegment(p, n) PROVE TornBy(m, s)'
    BY <1>11 DEF FindsSegment
  <1>12. ASSUME p \in Receivers, NEW n \in Ids, FindsSemaphore(p, n) PROVE TornBy(m, s)'
    BY <1>12 DEF FindsSemaphore
  <1>13. CASE Copy(p)
    BY <1>13 DEF Copy, GoTo
  <1>14. CASE GetsKey(p)
    BY <1>14 DEF GetsKey
  <1>15. CASE Maps(p)
    BY <1>15 DEF Maps
  <1>16. CASE Lock(p)
    BY <1>16, LockSteps, SMTT(30) DEF Lock, AfterLock, GoTo
  <1>17. CASE Unlock(p)
    BY <1>17 DEF Unlock, Raise, GoTo
  <1>18. CASE (StoreSegment(p) \/ StoreSemaphore(p)) /\ p \in Senders
    BY <1>18 DEF StoreSegment, StoreSemaphore, GoTo
  <1>19. QED
    BY <1>1, <1>2, <1>3, <1>4, <1>5, <1>6, <1>7, <1>8, <1>9, <1>10, <1>11, <1>12, <1>13, <1>14, <1>15, <1>16, <1>17, <1>18
       DEF Steps, OfSender, OfReceiver

\* Whoever is stopped in the middle of a message does not come to Unlock.
LEMMA TornStep ==
    ASSUME IInv, NEW p \in Processes, Steps(p)
    PROVE  TornInv'
  <1> USE Runs DEF IInv, Kinds, DataKinds, TornInv
  <1>1. CASE p \in Senders /\ StartWriting(p)
    <2>1. attached[p] \in Ids /\ attached[p] = shmId[p] /\ \A m \in Ids : m # shmId[p] => buffer'[m] = buffer[m]
      BY <1>1 DEF StartWriting
    <2>2. TornBy(shmId[p], p)' /\ shmId'[p] = shmId[p]
      BY <1>1, <2>1 DEF StartWriting, TornBy, Holding, Gone, GoTo, ipcVars, localVars
    <2>3. ~FinishWriting(p)
      BY <1>1 DEF StartWriting, FinishWriting
    <2>4. ASSUME NEW m \in Ids, m # shmId[p], buffer'[m] = Torn PROVE \E s \in Senders : TornBy(m, s)'
      <3>1. PICK s \in Senders : TornBy(m, s)
        BY <2>1, <2>4
      <3>2. QED
        BY <2>3, <3>1, TornByStep
    <2>5. \A m \in Ids : m = shmId[p] => TornBy(m, p)'
      BY <2>2 DEF TornBy
    <2>6. \A m \in Ids : buffer'[m] = Torn => \E s \in Senders : TornBy(m, s)'
      BY <1>1, <2>4, <2>5
    <2>7. QED
      BY <2>6
  <1>2. CASE p \in Senders /\ FinishWriting(p)
    <2>1. attached[p] = shmId[p] /\ \A m \in Ids : buffer'[m] = IF m = shmId[p] THEN sent[p] ELSE buffer[m]
      BY <1>2 DEF FinishWriting
    <2>2. sent[p] # Torn
      BY <1>2
    <2>3. ASSUME NEW m \in Ids, buffer'[m] = Torn PROVE \E s \in Senders : TornBy(m, s)'
      <3>1. m # shmId[p] /\ buffer[m] = Torn
        BY <2>1, <2>2, <2>3
      <3>2. PICK s \in Senders : TornBy(m, s)
        BY <3>1
      <3>3. s # p
        BY <3>1, <3>2 DEF TornBy
      <3>4. QED
        BY <3>2, <3>3, TornByStep
    <2>4. QED
      BY <2>3
  <1>3. CASE ~(p \in Senders /\ (StartWriting(p) \/ FinishWriting(p)))
    <2>1. buffer' = buffer
      BY <1>3 DEF StoreSegment, StoreSemaphore,
         Steps, Leaves, OfSender, OfReceiver, GetsKey, NewSegment, Maps, NewSemaphore, Sets, FindsSegment,
         FindsSemaphore, OpenKeyFile, RemoveSegment, RemoveSemaphore, RemoveKeyFile, Copy, Lock, Unlock, loopVars
    <2>2. \A s \in Senders, m \in Ids : TornBy(m, s) => TornBy(m, s)'
      BY <1>3, TornByStep
    <2>3. QED
      BY <2>1, <2>2
  <1>4. QED
    BY <1>1, <1>2, <1>3

\* The handler removes the segment, the semaphore and the file in turn, and only
\* a process that is killed skips one of them.
LEMMA OwedStep ==
    ASSUME IInv, NEW p \in Processes, Steps(p)
    PROVE  Owed'
  <1> USE Runs DEF IInv, Kinds, Owed
  <1> DEFINE Kept == /\ keyFile' # NoKey =>
                        keyFile # NoKey /\ \A s \in Senders : OwesFile(s) => OwesFile(s)'
                     /\ \A n \in Ids :
                         /\ shmKey'[n] # NoKey =>
                            shmKey[n] # NoKey /\ \A s \in Senders : OwesSegment(s, n) => OwesSegment(s, n)'
                         /\ semKey'[n] # NoKey =>
                            semKey[n] # NoKey /\ \A s \in Senders : OwesSemaphore(s, n) => OwesSemaphore(s, n)'
  <1> USE DEF OwesFile, OwesSegment, OwesSemaphore, AtWork, SenderPC, ReceiverPC, Over, Dead, InHandler,
          ipcVars, localVars, loopVars
  <1>0. ASSUME Kept PROVE Owed'
    <2> HIDE DEF OwesFile, OwesSegment, OwesSemaphore
    <2>1. keyFile' # NoKey => (\E s \in Senders : OwesFile(s))'
      BY <1>0
    <2>2. ASSUME NEW n \in Ids
          PROVE  /\ shmKey'[n] # NoKey => \E s \in Senders : OwesSegment(s, n)'
                 /\ semKey'[n] # NoKey => \E s \in Senders : OwesSemaphore(s, n)'
      BY <1>0
    <2>3. QED
      BY <2>1, <2>2
  <1>1. CASE Leaves(p)
    <2>1. Kept
      BY <1>1 DEF Leaves
    <2>2. QED
      BY <2>1, <1>0
  <1>2. CASE OpenKeyFile(p) /\ p \in Senders
    <2>1. CASE keyFile = NoKey
      <3>1. OwesFile(p)' /\ UNCHANGED <<shmKey, semKey, shmId, semId, unstored>> /\ \A s \in Senders : s # p => pc'[s] = pc[s]
        BY <1>2, <2>1 DEF OpenKeyFile, GoTo
      <3>2. pc[p] = "open"
        BY <1>2 DEF OpenKeyFile
      <3>3. \A s \in Senders, n \in Ids :
              /\ OwesSegment(s, n) => OwesSegment(s, n)'
              /\ OwesSemaphore(s, n) => OwesSemaphore(s, n)'
        BY <3>1, <3>2
      <3> HIDE DEF OwesFile, OwesSegment, OwesSemaphore
      <3>4. ASSUME NEW n \in Ids
            PROVE  /\ shmKey'[n] # NoKey => \E s \in Senders : OwesSegment(s, n)'
                   /\ semKey'[n] # NoKey => \E s \in Senders : OwesSemaphore(s, n)'
        BY <3>1, <3>3
      <3>5. QED
        BY <1>2, <3>1, <3>4
    <2>2. CASE keyFile # NoKey
      <3>1. Kept
        BY <1>2, <2>2 DEF OpenKeyFile, GoTo
      <3>2. QED
        BY <3>1, <1>0
    <2>3. QED
      BY <2>1, <2>2
  <1>3. CASE NewSegment(p) /\ p \in Senders
    <2>1. /\ shmKey' = [shmKey EXCEPT ![nextShm] = key[p]] /\ shmId' = [shmId EXCEPT ![p] = nextShm] /\ nextShm \in Nat
          /\ UNCHANGED <<keyFile, semKey, semId>> /\ pc[p] = "shmget" /\ pc' = [pc EXCEPT ![p] = "storeShm"]
          /\ unstored' = [unstored EXCEPT ![p] = "segment"] /\ shmId[p] = 0 /\ semId[p] = 0
      BY <1>3 DEF NewSegment, NoIdsYet, BeforeSegment, BeforeSemaphore
    <2>2. \A s \in Senders, n \in Ids :
            /\ OwesFile(s) => OwesFile(s)'
            /\ OwesSegment(s, n) => OwesSegment(s, n)'
            /\ OwesSemaphore(s, n) => OwesSemaphore(s, n)'
      BY <2>1
    <2>3. \A n \in Ids : n = nextShm => OwesSegment(p, n)'
      BY <1>3, <2>1
    <2>4. \A n \in Ids : n # nextShm => shmKey'[n] = shmKey[n]
      BY <2>1
    <2> HIDE DEF OwesFile, OwesSegment, OwesSemaphore
    <2>5. ASSUME NEW n \in Ids
          PROVE  /\ shmKey'[n] # NoKey => \E s \in Senders : OwesSegment(s, n)'
                 /\ semKey'[n] # NoKey => \E s \in Senders : OwesSemaphore(s, n)'
      BY <1>3, <2>1, <2>2, <2>3, <2>4
    <2>6. keyFile' # NoKey => \E s \in Senders : OwesFile(s)'
      <3>1. OwesFile(p)'
        BY <1>3, <2>1 DEF OwesFile
      <3>2. QED
        BY <1>3, <3>1
    <2>7. QED
      BY <2>5, <2>6
  <1>4. CASE NewSemaphore(p) /\ p \in Senders
    <2>1. /\ semKey' = [semKey EXCEPT ![nextSem] = key[p]] /\ semId' = [semId EXCEPT ![p] = nextSem] /\ nextSem \in Nat
          /\ UNCHANGED <<keyFile, shmKey, shmId>> /\ pc[p] = "semget" /\ pc' = [pc EXCEPT ![p] = "storeSem"]
          /\ unstored' = [unstored EXCEPT ![p] = "semaphore"] /\ semId[p] = 0
      BY <1>4 DEF NewSemaphore, NoIdsYet, BeforeSemaphore
    <2>2. \A s \in Senders, n \in Ids :
            /\ OwesFile(s) => OwesFile(s)'
            /\ OwesSegment(s, n) => OwesSegment(s, n)'
            /\ OwesSemaphore(s, n) => OwesSemaphore(s, n)'
      BY <2>1
    <2>3. \A n \in Ids : n = nextSem => OwesSemaphore(p, n)'
      BY <1>4, <2>1
    <2>4. \A n \in Ids : n # nextSem => semKey'[n] = semKey[n]
      BY <2>1
    <2> HIDE DEF OwesFile, OwesSegment, OwesSemaphore
    <2>5. ASSUME NEW n \in Ids
          PROVE  /\ shmKey'[n] # NoKey => \E s \in Senders : OwesSegment(s, n)'
                 /\ semKey'[n] # NoKey => \E s \in Senders : OwesSemaphore(s, n)'
      BY <1>4, <2>1, <2>2, <2>3, <2>4
    <2>6. keyFile' # NoKey => \E s \in Senders : OwesFile(s)'
      <3>1. OwesFile(p)'
        BY <1>4, <2>1 DEF OwesFile
      <3>2. QED
        BY <1>4, <3>1
    <2>7. QED
      BY <2>5, <2>6
  <1>5. CASE Sets(p) /\ p \in Senders
    <2>1. Kept
      BY <1>5 DEF Sets
    <2>2. QED
      BY <2>1, <1>0
  <1>6. CASE StartWriting(p) /\ p \in Senders
    <2>1. Kept
      BY <1>6 DEF StartWriting, GoTo
    <2>2. QED
      BY <2>1, <1>0
  <1>7. CASE FinishWriting(p) /\ p \in Senders
    <2>1. Kept
      BY <1>7 DEF FinishWriting, GoTo
    <2>2. QED
      BY <2>1, <1>0
  <1>8. CASE RemoveSegment(p) /\ p \in Senders
    <2>1. Kept
      BY <1>8 DEF RemoveSegment, ShmIdentifier, GoTo
    <2>2. QED
      BY <2>1, <1>0
  <1>9. CASE RemoveSemaphore(p) /\ p \in Senders
    <2>1. Kept
      BY <1>9 DEF RemoveSemaphore, SemaphoresLeft, SemIdentifier, GoTo
    <2>2. QED
      BY <2>1, <1>0
  <1>10. CASE RemoveKeyFile(p) /\ p \in Senders
    <2>1. Kept
      BY <1>10 DEF RemoveKeyFile, GoTo
    <2>2. QED
      BY <2>1, <1>0
  <1>11. ASSUME p \in Receivers, NEW n \in Ids, FindsSegment(p, n) PROVE Owed'
    <2>1. Kept
      BY <1>11 DEF FindsSegment
    <2>2. QED
      BY <2>1, <1>0
  <1>12. ASSUME p \in Receivers, NEW n \in Ids, FindsSemaphore(p, n) PROVE Owed'
    <2>1. Kept
      BY <1>12 DEF FindsSemaphore
    <2>2. QED
      BY <2>1, <1>0
  <1>13. CASE Copy(p) /\ p \in Receivers
    <2>1. Kept
      BY <1>13 DEF Copy, GoTo
    <2>2. QED
      BY <2>1, <1>0
  <1>14. CASE GetsKey(p)
    <2>1. Kept
      BY <1>14 DEF GetsKey
    <2>2. QED
      BY <2>1, <1>0
  <1>15. CASE Maps(p)
    <2>1. Kept
      BY <1>15 DEF Maps
    <2>2. QED
      BY <2>1, <1>0
  <1>16. CASE Lock(p)
    <2>1. Kept
      BY <1>16, LockSteps DEF Lock, AfterLock, GoTo
    <2>2. QED
      BY <2>1, <1>0
  <1>17. CASE Unlock(p)
    <2>1. Kept
      BY <1>17 DEF Unlock, Raise, GoTo
    <2>2. QED
      BY <2>1, <1>0
  <1>18. CASE (StoreSegment(p) \/ StoreSemaphore(p)) /\ p \in Senders
    <2>1. Kept
      BY <1>18 DEF StoreSegment, StoreSemaphore, NoIdsYet, BeforeSemaphore, BeforeSegment, GoTo
    <2>2. QED
      BY <2>1, <1>0
  <1>19. QED
    BY <1>1, <1>2, <1>3, <1>4, <1>5, <1>6, <1>7, <1>8, <1>9, <1>10, <1>11, <1>12, <1>13, <1>14, <1>15, <1>16, <1>17, <1>18
       DEF Steps, OfSender, OfReceiver

\* Before anybody has started everything is as IInv says.
LEMMA InitIInv == Init => IInv
  <1> SUFFICES ASSUME Init PROVE IInv
    OBVIOUS
  <1> USE Runs DEF Init
  <1>1. Kinds
    BY DEF Kinds, AllPC, SenderPC, ReceiverPC
  <1>2. DataKinds
    BY DEF DataKinds
  <1>3. FewIds
    <2>1. PastShmget = {} /\ PastSemget = {}
      BY DEF PastShmget, PastSemget, BeforeSegment, BeforeSemaphore
    <2>2. QED
      BY <2>1, FS_EmptySet DEF FewIds
  <1>4. Unused /\ IdsGiven /\ Holding /\ Token
    BY DEF Unused, IdsGiven, Holding, Token
  <1>5. NoIdsYet
    BY DEF NoIdsYet, BeforeSegment, BeforeSemaphore
  <1>6. Makers /\ Newer
    BY DEF Makers, Newer, ShmMaker, SemMaker
  <1>7. SegmentOfKey /\ SemaphoreOfKey /\ TornInv /\ Owed
    BY DEF SegmentOfKey, SemaphoreOfKey, TornInv, Owed
  <1>8. QED
    BY <1>1, <1>2, <1>3, <1>4, <1>5, <1>6, <1>7 DEF IInv

\* IInv is inductive.
LEMMA StepIInv == IInv /\ [Next]_vars => IInv'
  <1> SUFFICES ASSUME IInv, [Next]_vars PROVE IInv'
    OBVIOUS
  <1>1. ASSUME NEW p \in Processes, Steps(p) PROVE IInv'
    BY <1>1, KindsStep, DataKindsStep, FewIdsStep, UnusedStep, IdsGivenStep, HoldingStep, TokenStep, NoIdsYetStep,
       MakersStep, NewerStep, SegmentOfKeyStep, SemaphoreOfKeyStep, TornStep, OwedStep DEF IInv
  <1>2. CASE UNCHANGED vars
    <2> USE <1>2 DEF vars, ipcVars, localVars, loopVars, IInv
    <2>1. Kinds' /\ DataKinds' /\ Unused' /\ IdsGiven'
      BY DEF Kinds, DataKinds, Unused, IdsGiven
    <2>2. FewIds'
      BY DEF FewIds, PastShmget, PastSemget
    <2>3. Holding' /\ Token'
      BY DEF Holding, Token, Gone
    <2>4. NoIdsYet' /\ Makers' /\ Newer'
      BY DEF NoIdsYet, Makers, Newer, ShmMaker, SemMaker
    <2>5. SegmentOfKey' /\ SemaphoreOfKey' /\ TornInv'
      BY DEF SegmentOfKey, SemaphoreOfKey, ShmMaker, SemMaker, TornInv, TornBy, Gone
    <2>6. Owed'
      BY DEF Owed, OwesFile, OwesSegment, OwesSemaphore
    <2>7. QED
      BY <2>1, <2>2, <2>3, <2>4, <2>5, <2>6
  <1>3. QED
    BY <1>1, <1>2, EveryStep

\* IInv holds in every reachable state.
LEMMA Invariance == Spec => []IInv
  BY InitIInv, StepIInv, PTL DEF Spec

-----------------------------------------------------------------------------
\* Whatever starts, signals and kills come together: the semaphore counts one at
\* most, and is 0 as long as a process, dead or alive, has lowered it (s:111, r:81).
THEOREM OneTokenAtMost == Spec => []TokenInv
  <1>1. ASSUME IInv PROVE TypeOK
    <2>1. nextShm \in 0..(Cardinality(Senders) + 1) /\ nextSem \in 0..(Cardinality(Senders) + 1)
      BY <1>1, Room, Runs DEF IInv, Kinds
    <2>2. QED
      BY <1>1, <2>1 DEF TypeOK, IInv, Kinds, DataKinds
  <1>2. ASSUME IInv PROVE OneToken
    <2> SUFFICES ASSUME NEW n \in Ids, semKey[n] # NoKey
                 PROVE  value[n] + Cardinality({p \in holders : semId[p] = n}) <= 1
      BY DEF OneToken
    <2> DEFINE H == {p \in holders : semId[p] = n}
    <2>1. value[n] \in {0, 1}
      BY <1>2 DEF IInv, DataKinds
    <2>2. CASE H = {}
      BY <2>1, <2>2, FS_EmptySet
    <2>3. CASE H # {}
      <3>1. PICK p : p \in H
        BY <2>3
      <3>2. value[n] = 0 /\ H = {p}
        BY <1>2, <3>1 DEF IInv, Token, Gone
      <3>3. Cardinality(H) = 1
        BY <3>2, FS_Singleton
      <3>4. QED
        BY <3>2, <3>3
    <2>4. QED
      BY <2>2, <2>3
  <1>3. QED
    BY <1>1, <1>2, Invariance, PTL DEF TokenInv

\* The token that a sender takes before strncpy (s:111-116) goes with it when it is
\* stopped there: a receiver that got through r:81 finds no half message.
THEOREM NoHalfMessage == Spec => []WholeMessages
  <1>1. ASSUME IInv PROVE WholeMessages
    <2> USE <1>1, Runs DEF IInv, Kinds
    <2> SUFFICES ASSUME NEW r \in Receivers, NEW s \in Senders, pc[r] = "copy", ~Gone(r),
                        shmId[r] = shmId[s], semId[r] = semId[s], buffer[attached[r]] = Torn
                 PROVE  FALSE
      BY DEF WholeMessages
    <2>1. attached[r] = shmId[r] /\ shmId[r] \in Ids /\ semId[r] \in Ids
      OBVIOUS
    <2>2. PICK t \in Senders : TornBy(shmId[r], t)
      BY <2>1 DEF TornInv
    <2>3. SemMaker(t) /\ ShmMaker(t) /\ shmId[t] = shmId[r]
      BY <2>2 DEF TornBy, SemMaker, ShmMaker
    <2>4. key[t] = key[r] /\ semKey[semId[r]] = key[t]
      BY <2>3 DEF SegmentOfKey, SemaphoreOfKey, Gone
    <2>5. CASE semId[t] = semId[r]
      <3>1. t \in holders /\ r \in holders
        BY <2>2, <2>5 DEF TornBy, Gone, Holding
      <3>2. QED
        BY <2>5, <3>1 DEF Token
    <2>6. CASE semId[t] # semId[r]
      <3>1. semId[t] < semId[r]
        BY <2>1, <2>3, <2>4, <2>6 DEF Newer
      <3>2. SemMaker(s) /\ ShmMaker(s)
        BY <2>1, <3>1 DEF SemMaker, ShmMaker
      <3>3. s = t
        BY <2>3, <3>2 DEF Makers
      <3>4. QED
        BY <2>6, <3>3
    <2>7. QED
      BY <2>5, <2>6
  <1>2. QED
    BY <1>1, Invariance, PTL

\* The handler (s:28-47) leaves nothing behind but what its sender had made without
\* having stored the id (s:72, s:84), though it removes by ids that may be another
\* sender's, and the file whoever made it.
THEOREM HandlersCleanUp == Spec => []CleansUp
  <1>1. IInv => CleansUp
    BY DEF IInv, Owed, OwesFile, OwesSegment, OwesSemaphore, AtWork, Dead, CleansUp
  <1>2. QED
    BY <1>1, Invariance, PTL

=============================================================================
