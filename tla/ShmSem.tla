------------------------------- MODULE ShmSem -------------------------------
(***************************************************************************)
(* lab9/sender.c and lab9/receiver.c: a sender makes the file              *)
(* ipc_shared_key and, from the key ftok() makes of it, a shared memory    *)
(* segment and a semaphore; receivers find both by the key.  A signal      *)
(* handler of the sender removes all three.  Processes may be signalled or *)
(* killed between any two steps.  s: and r: are lines of the two files.    *)
(***************************************************************************)
EXTENDS Integers, FiniteSets

CONSTANTS
    Senders, Receivers,   \* the runs of the two programs
    Keys,                 \* what ftok may return: it depends on the file's inode
    MaxMessages           \* bound: the messages one sender writes

NoKey == "none"

ASSUME RunsAssumption ==
    /\ Senders \cap Receivers = {}
    /\ IsFiniteSet(Senders) /\ IsFiniteSet(Receivers)
    /\ MaxMessages \in Nat
    /\ NoKey \notin Keys

Processes == Senders \cup Receivers

Ids   == 0..Cardinality(Senders)   \* of segments, and of semaphores
NoId  == -1
Torn  == -1

VARIABLES
    keyFile,   \* the key of the file ipc_shared_key, or NoKey if there is none
    shmKey,    \* [Ids -> the key the segment is found by, NoKey if it is not there]
    semKey,    \* [Ids -> the same of the semaphore]
    nextShm,   \* the id the next segment gets
    nextSem,
    buffer,    \* [Ids -> number of the message in the segment, 0 for none, or Torn]
    value,     \* [Ids -> the value of the semaphore]
    pc,
    key,       \* [Processes -> what ftok returned]
    shmId,     \* [Processes -> what shmget returned], 0 before
    semId,     \* [Processes -> what semget returned], 0 before
    unstored,  \* [Senders -> the one of the two that the sender has yet to store]
    attached,  \* [Processes -> the segment shared_memory_ptr points to, or NoId]
    sent,      \* [Senders -> message_count]
    seen,      \* [Receivers -> what it printed last]
    holders    \* who has lowered the semaphore semId and not raised it again

ipcVars   == <<keyFile, shmKey, semKey, nextShm, nextSem>>
localVars == <<key, shmId, semId, unstored, attached>>
loopVars  == <<buffer, value, sent, seen, holders>>
vars == <<ipcVars, localVars, loopVars, pc>>

SenderPC ==
    {"open",       \* s:57, the handlers are set
     "ftok",       \* s:64
     "shmget",     \* s:72
     "storeShm",   \* s:72, the segment is there and shm_identifier is still 0
     "shmat",      \* s:77
     "semget",     \* s:84
     "storeSem",   \* s:84, the same of the semaphore
     "setval",     \* s:89
     "lock",       \* s:111
     "write",      \* s:114
     "writing",    \* s:116, inside strncpy
     "unlock",     \* s:121
     "rmShm",      \* s:37, in the handler, detached
     "rmSem",      \* s:41
     "rmFile",     \* s:45
     "ended"}      \* by the handler, or told at s:59 that another instance runs

ReceiverPC ==
    {"ftok",       \* r:46
     "shmget",     \* r:55
     "shmat",      \* r:60
     "semget",     \* r:67
     "lock",       \* r:81
     "copy",       \* r:84
     "unlock",     \* r:93
     "ended"}      \* by the handler (r:28)

Dead == "dead"     \* killed, or ended by handle_error
Over == {"ended", Dead}

\* The segment a key leads to; the kernel allows one at a time.
Found(keys, k) == {n \in Ids : keys[n] = k}

GoTo(p, l) == pc' = [pc EXCEPT ![p] = l]

-----------------------------------------------------------------------------
(* What both programs do. *)

\* SIGKILL, or one of the calls before the loop fails and handle_error exits.
\* The kernel detaches the segment; nothing else is given back (no SEM_UNDO).
Dies(p) ==
    /\ pc[p] \notin Over
    /\ GoTo(p, Dead)
    /\ attached' = [attached EXCEPT ![p] = NoId]
    /\ UNCHANGED <<ipcVars, loopVars, key, shmId, semId, unstored>>

\* ftok fails without the file, and handle_error ends the process.
Ftok(p) ==
    /\ pc[p] = "ftok"
    /\ IF keyFile = NoKey
       THEN Dies(p)
       ELSE /\ key' = [key EXCEPT ![p] = keyFile]
            /\ GoTo(p, "shmget")
            /\ UNCHANGED <<ipcVars, loopVars, shmId, semId, unstored, attached>>

\* A segment that was removed lives on for those who have it attached.
Alive(n) == shmKey[n] # NoKey \/ \E q \in Processes : attached[q] = n

Shmat(p) ==
    /\ pc[p] = "shmat"
    /\ IF Alive(shmId[p])
       THEN /\ attached' = [attached EXCEPT ![p] = shmId[p]]
            /\ GoTo(p, "semget")
            /\ UNCHANGED <<ipcVars, loopVars, key, shmId, semId, unstored>>
       ELSE Dies(p)

\* semop on a semaphore that is gone fails, which nobody looks at.
Gone(p) == semKey[semId[p]] = NoKey

AfterLock(p) == IF p \in Senders THEN "write" ELSE "copy"

Lock(p) ==
    /\ pc[p] = "lock"
    /\ p \in Senders => sent[p] < MaxMessages
    /\ IF Gone(p)
       THEN UNCHANGED <<value, holders>>
       ELSE /\ value[semId[p]] > 0
            /\ value' = [value EXCEPT ![semId[p]] = @ - 1]
            /\ holders' = holders \cup {p}
    /\ GoTo(p, AfterLock(p))
    /\ UNCHANGED <<ipcVars, localVars, buffer, sent, seen>>

\* Slip: the semaphore is not raised again.
RaiseSlip(p) == UNCHANGED value

Raise(p) == value' = IF Gone(p) THEN value ELSE [value EXCEPT ![semId[p]] = @ + 1]

Unlock(p) ==
    /\ pc[p] = "unlock"
    /\ Raise(p)
    /\ holders' = holders \ {p}
    /\ GoTo(p, "lock")
    /\ UNCHANGED <<ipcVars, localVars, buffer, sent, seen>>

-----------------------------------------------------------------------------
(* The sender *)

\* O_CREAT | O_EXCL.  The new file's inode may be one that was used before.
OpenKeyFile(s) ==
    /\ pc[s] = "open"
    /\ IF keyFile = NoKey
       THEN GoTo(s, "ftok") /\ keyFile' \in Keys
       ELSE GoTo(s, "ended") /\ UNCHANGED keyFile
    /\ UNCHANGED <<shmKey, semKey, nextShm, nextSem, localVars, loopVars>>

\* IPC_CREAT | IPC_EXCL; the segment is filled with zeros.  The id is returned first,
\* and stored in the next step: a signal may come in between.
MakeSegment(s) ==
    /\ pc[s] = "shmget" /\ s \in Senders
    /\ IF Found(shmKey, key[s]) # {}
       THEN Dies(s)
       ELSE /\ shmKey' = [shmKey EXCEPT ![nextShm] = key[s]]
            /\ shmId' = [shmId EXCEPT ![s] = nextShm]
            /\ unstored' = [unstored EXCEPT ![s] = "segment"]
            /\ nextShm' = nextShm + 1
            /\ GoTo(s, "storeShm")
            /\ UNCHANGED <<keyFile, semKey, nextSem, key, semId, attached, loopVars>>

StoreSegment(s) ==
    /\ pc[s] = "storeShm"
    /\ unstored' = [unstored EXCEPT ![s] = "nothing"]
    /\ GoTo(s, "shmat")
    /\ UNCHANGED <<ipcVars, key, shmId, semId, attached, loopVars>>

\* The new semaphore is 0 until SETVAL.
MakeSemaphore(s) ==
    /\ pc[s] = "semget" /\ s \in Senders
    /\ IF Found(semKey, key[s]) # {}
       THEN Dies(s)
       ELSE /\ semKey' = [semKey EXCEPT ![nextSem] = key[s]]
            /\ semId' = [semId EXCEPT ![s] = nextSem]
            /\ unstored' = [unstored EXCEPT ![s] = "semaphore"]
            /\ nextSem' = nextSem + 1
            /\ GoTo(s, "storeSem")
            /\ UNCHANGED <<keyFile, shmKey, nextShm, key, shmId, attached, loopVars>>

StoreSemaphore(s) ==
    /\ pc[s] = "storeSem"
    /\ unstored' = [unstored EXCEPT ![s] = "nothing"]
    /\ GoTo(s, "setval")
    /\ UNCHANGED <<ipcVars, key, shmId, semId, attached, loopVars>>

\* Slip: the semaphore counts two.
FreeSlip == 2

Free == 1

\* SETVAL fails on a semaphore another sender's handler has removed.
SetVal(s) ==
    /\ pc[s] = "setval"
    /\ IF Gone(s)
       THEN Dies(s)
       ELSE /\ value' = [value EXCEPT ![semId[s]] = Free]
            /\ GoTo(s, "lock")
            /\ UNCHANGED <<ipcVars, localVars, buffer, sent, seen, holders>>

StartWriting(s) ==
    /\ pc[s] = "write"
    /\ sent' = [sent EXCEPT ![s] = @ + 1]
    /\ buffer' = [buffer EXCEPT ![attached[s]] = Torn]
    /\ GoTo(s, "writing")
    /\ UNCHANGED <<ipcVars, localVars, value, seen, holders>>

FinishWriting(s) ==
    /\ pc[s] = "writing"
    /\ buffer' = [buffer EXCEPT ![attached[s]] = sent[s]]
    /\ GoTo(s, "unlock")
    /\ UNCHANGED <<ipcVars, localVars, value, sent, seen, holders>>

InHandler == {"rmShm", "rmSem", "rmFile"}

\* SIGINT or SIGTERM arrives and the handler detaches the segment.
SenderSignalled(s) ==
    /\ pc[s] \notin Over \cup InHandler
    /\ attached' = [attached EXCEPT ![s] = NoId]
    /\ GoTo(s, "rmShm")
    /\ UNCHANGED <<ipcVars, key, shmId, semId, unstored, loopVars>>

\* shm_identifier and sem_identifier of a sender: 0 until the store.
ShmIdentifier(s) == IF unstored[s] = "segment" THEN 0 ELSE shmId[s]
SemIdentifier(s) == IF unstored[s] = "semaphore" THEN 0 ELSE semId[s]

\* IPC_RMID, on id 0 when the process has not got further.
RemoveSegment(s) ==
    /\ pc[s] = "rmShm"
    /\ shmKey' = [shmKey EXCEPT ![ShmIdentifier(s)] = NoKey]
    /\ GoTo(s, "rmSem")
    /\ UNCHANGED <<keyFile, semKey, nextShm, nextSem, localVars, loopVars>>

\* Slip: the semaphore is forgotten.
SemaphoresLeftSlip(s) == semKey

SemaphoresLeft(s) == [semKey EXCEPT ![SemIdentifier(s)] = NoKey]

RemoveSemaphore(s) ==
    /\ pc[s] = "rmSem"
    /\ semKey' = SemaphoresLeft(s)
    /\ GoTo(s, "rmFile")
    /\ UNCHANGED <<keyFile, shmKey, nextShm, nextSem, localVars, loopVars>>

\* Whoever made the file.
RemoveKeyFile(s) ==
    /\ pc[s] = "rmFile"
    /\ keyFile' = NoKey
    /\ GoTo(s, "ended")
    /\ UNCHANGED <<shmKey, semKey, nextShm, nextSem, localVars, loopVars>>

SenderStep(s) ==
    \/ OpenKeyFile(s) \/ MakeSegment(s) \/ StoreSegment(s)
    \/ MakeSemaphore(s) \/ StoreSemaphore(s) \/ SetVal(s)
    \/ StartWriting(s) \/ FinishWriting(s)
    \/ RemoveSegment(s) \/ RemoveSemaphore(s) \/ RemoveKeyFile(s)

-----------------------------------------------------------------------------
(* The receiver *)

FindSegment(r) ==
    /\ pc[r] = "shmget" /\ r \in Receivers
    /\ \/ /\ \E n \in Found(shmKey, key[r]) : shmId' = [shmId EXCEPT ![r] = n]
          /\ GoTo(r, "shmat")
          /\ UNCHANGED <<ipcVars, key, semId, unstored, attached, loopVars>>
       \/ Found(shmKey, key[r]) = {} /\ Dies(r)

FindSemaphore(r) ==
    /\ pc[r] = "semget" /\ r \in Receivers
    /\ \/ /\ \E n \in Found(semKey, key[r]) : semId' = [semId EXCEPT ![r] = n]
          /\ GoTo(r, "lock")
          /\ UNCHANGED <<ipcVars, key, shmId, unstored, attached, loopVars>>
       \/ Found(semKey, key[r]) = {} /\ Dies(r)

Copy(r) ==
    /\ pc[r] = "copy"
    /\ seen' = [seen EXCEPT ![r] = buffer[attached[r]]]
    /\ GoTo(r, "unlock")
    /\ UNCHANGED <<ipcVars, localVars, buffer, value, sent, holders>>

\* The handler exits on the spot, in the critical section too.
ReceiverSignalled(r) ==
    /\ pc[r] \notin Over
    /\ attached' = [attached EXCEPT ![r] = NoId]
    /\ GoTo(r, "ended")
    /\ UNCHANGED <<ipcVars, key, shmId, semId, unstored, loopVars>>

ReceiverStep(r) == FindSegment(r) \/ FindSemaphore(r) \/ Copy(r)

CommonStep(p) == Ftok(p) \/ Shmat(p) \/ Unlock(p)

-----------------------------------------------------------------------------
\* Ids count from 0 after a boot.  If an id is not free, it belongs to another
\* program, whose segment or semaphore is not shown.
Init ==
    /\ keyFile = NoKey
    /\ shmKey = [n \in Ids |-> NoKey] /\ semKey = [n \in Ids |-> NoKey]
    /\ nextShm \in {0, 1} /\ nextSem \in {0, 1}
    /\ buffer = [n \in Ids |-> 0] /\ value = [n \in Ids |-> 0]
    /\ pc = [p \in Processes |-> IF p \in Senders THEN "open" ELSE "ftok"]
    /\ key = [p \in Processes |-> NoKey]
    /\ shmId = [p \in Processes |-> 0] /\ semId = [p \in Processes |-> 0]
    /\ unstored = [s \in Senders |-> "nothing"]
    /\ attached = [p \in Processes |-> NoId]
    /\ sent = [s \in Senders |-> 0] /\ seen = [r \in Receivers |-> 0]
    /\ holders = {}

\* All are over, or wait: at the bound, or for a semaphore nobody will raise.
Quiet == \A p \in Processes : pc[p] \in Over \cup {"lock"}

Next ==
    \/ \E s \in Senders : SenderStep(s) \/ SenderSignalled(s)
    \/ \E r \in Receivers : ReceiverStep(r) \/ ReceiverSignalled(r)
    \/ \E p \in Processes : CommonStep(p) \/ Lock(p) \/ Dies(p)
    \/ Quiet /\ UNCHANGED vars

Spec == Init /\ [][Next]_vars

(* Every process runs on; the kernel serves those who wait at a semaphore  *)
(* in order.  Signals and failures are owed to nobody.                     *)
Fairness ==
    /\ \A s \in Senders : WF_vars(SenderStep(s))
    /\ \A r \in Receivers : WF_vars(ReceiverStep(r))
    /\ \A p \in Processes : WF_vars(CommonStep(p)) /\ SF_vars(Lock(p))

FairSpec == Spec /\ Fairness

-----------------------------------------------------------------------------
(* Properties *)

\* Every variable holds a value of its kind; who is in the loop has a segment.
TypeOK ==
    /\ keyFile \in Keys \cup {NoKey}
    /\ shmKey \in [Ids -> Keys \cup {NoKey}]
    /\ semKey \in [Ids -> Keys \cup {NoKey}]
    /\ nextShm \in 0..(Cardinality(Senders) + 1)
    /\ nextSem \in 0..(Cardinality(Senders) + 1)
    /\ buffer \in [Ids -> 0..MaxMessages \cup {Torn}]
    /\ value \in [Ids -> {0, 1}]
    /\ \A s \in Senders : pc[s] \in SenderPC \cup {Dead}
    /\ \A r \in Receivers : pc[r] \in ReceiverPC \cup {Dead}
    /\ key \in [Processes -> Keys \cup {NoKey}]
    /\ shmId \in [Processes -> Ids] /\ semId \in [Processes -> Ids]
    /\ unstored \in [Senders -> {"nothing", "segment", "semaphore"}]
    /\ attached \in [Processes -> Ids \cup {NoId}]
    /\ \A p \in Processes :
        pc[p] \in {"lock", "write", "writing", "copy", "unlock"} => attached[p] = shmId[p]
    /\ sent \in [Senders -> 0..MaxMessages]
    /\ seen \in [Receivers -> 0..MaxMessages \cup {Torn}]
    /\ holders \subseteq Processes

\* The semaphore and those who hold it, dead or alive, add up to one as soon as
\* SETVAL has been called: no start, no signal and no kill makes a second token.
OneToken ==
    \A n \in Ids : semKey[n] # NoKey =>
        value[n] + Cardinality({p \in holders : semId[p] = n}) <= 1

\* The semaphore and those who use it.
TokenInv == TypeOK /\ OneToken

\* A receiver that found its segment and its semaphore while one sender had both
\* never reads half a message, as long as the semaphore is there: a sender that
\* dies in strncpy (s:116) takes the token along.
WholeMessages ==
    \A r \in Receivers, s \in Senders :
        (/\ pc[r] = "copy" /\ ~Gone(r)
         /\ shmId[r] = shmId[s] /\ semId[r] = semId[s])
            => buffer[attached[r]] # Torn

\* When every sender has ended by way of its handler, or was refused, there is no
\* key file, and no segment or semaphore is left but one whose maker was signalled
\* between shmget (s:72) or semget (s:84) and the store of what it returned, however
\* the clean-ups of several senders were interleaved (s:28-47).  The handler then
\* removes id 0, so that the object is left unless that is its id.
CleansUp ==
    (\A s \in Senders : pc[s] = "ended") =>
        /\ keyFile = NoKey
        /\ \A n \in Ids :
            /\ shmKey[n] # NoKey =>
                n # 0 /\ \E s \in Senders : shmId[s] = n /\ unstored[s] = "segment"
            /\ semKey[n] # NoKey =>
                n # 0 /\ \E s \in Senders : semId[s] = n /\ unstored[s] = "semaphore"

\* Nobody will ever raise semaphore n: its token went with a process that is over, or
\* there never was one and nobody runs who could still put it there.
Orphaned(n) ==
    LET holding == {p \in holders : semId[p] = n}
    IN  /\ semKey[n] # NoKey /\ value[n] = 0
        /\ \/ \E p \in holding : pc[p] \in Over
           \/ holding = {} /\ \A s \in Senders : semId[s] = n => pc[s] \in Over

\* A receiver that waits gets to read, unless somebody was stopped while it held
\* the semaphore (r:84-92, s:112-120), or its maker before it had set it (s:84-89), be
\* it killed or signalled before it had stored the id.
ReceiversRead ==
    \A r \in Receivers :
        (pc[r] = "lock") ~> (pc[r] \in {"copy"} \cup Over \/ Orphaned(semId[r]))

\* "Another instance is running" (messages.h:30) is what a second sender is told:
\* at no time are two of them in the loop.
OneSender ==
    \A s, t \in Senders :
        pc[s] \in {"lock", "write", "writing", "unlock"}
            /\ pc[t] \in {"lock", "write", "writing", "unlock"} => s = t
=============================================================================
