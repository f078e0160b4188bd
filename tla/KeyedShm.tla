------------------------------ MODULE KeyedShm ------------------------------
(***************************************************************************)
(* lab7/sender.c, of which lab7/receiver.c is a copy: a process makes a    *)
(* key file and under its key a segment, writes MAX_OPERATIONS times into  *)
(* the segment and removes both.  The key is made of the inode of the file *)
(* (ftok), so a file that was removed and made anew may give another key.  *)
(***************************************************************************)
EXTENDS Integers, FiniteSets

CONSTANTS
    Procs,            \* processes, of either program; a segment is called by its maker
    Inodes,           \* what the file system may give to a new file
    ExitSignals,      \* the signals with the handler, SIGINT and SIGTERM
    MAX_OPERATIONS    \* messages.h, 50

NoKey == 0

ASSUME OperationsAssumption == MAX_OPERATIONS \in Nat

ASSUME InodesAssumption == NoKey \notin Inodes

VARIABLES
    ksPc,        \* [Procs -> where the process is]
    keyFile,     \* the inode of SHM_KEY_FILE, or NoKey
    key,         \* [Procs -> memory_key]
    segments,    \* [the segments that exist -> their keys]
    known,       \* processes that have stored shared_memory_id
    operations,  \* [Procs -> operations_performed, also kept in the segment]
    signals,     \* [Procs -> the signals that came]
    stray        \* whether a process has removed the file another one relied on

ksVars == <<ksPc, keyFile, key, segments, known, operations, signals, stray>>

KsMoves(p, from, to) == ksPc[p] = from /\ ksPc' = [ksPc EXCEPT ![p] = to]

-----------------------------------------------------------------------------
KsInit ==
    /\ ksPc = [p \in Procs |-> "start"]
    /\ keyFile = NoKey
    /\ key = [p \in Procs |-> NoKey]
    /\ segments = [p \in {} |-> 0]
    /\ known = {}
    /\ operations = [p \in Procs |-> 0]
    /\ signals = [p \in Procs |-> {}]
    /\ stray = FALSE

\* Lines 45-50.  A file that is there stays the same file.
MakeFile(p) ==
    /\ \/ /\ KsMoves(p, "start", "ftok")
          /\ keyFile' \in IF keyFile = NoKey THEN Inodes ELSE {keyFile}
       \/ KsMoves(p, "start", "gone") /\ UNCHANGED keyFile
    /\ UNCHANGED <<key, segments, known, operations, signals, stray>>

\* Lines 52-57.
Ftok(p) ==
    /\ IF keyFile = NoKey THEN KsMoves(p, "ftok", "giveUp") ELSE KsMoves(p, "ftok", "shmget")
    /\ key' = [key EXCEPT ![p] = keyFile]
    /\ UNCHANGED <<keyFile, segments, known, operations, signals, stray>>

\* Slip: shmget is called without IPC_EXCL.
KeyTakenSlip(k) == FALSE

KeyTaken(k) == \E q \in DOMAIN segments : segments[q] = k

\* Lines 59-69: with IPC_EXCL, a segment that is there is an error.
Shmget(p) ==
    /\ \/ /\ ~KeyTaken(key[p])
          /\ KsMoves(p, "shmget", "store")
          /\ segments' = [q \in DOMAIN segments \cup {p} |-> IF q = p THEN key[p] ELSE segments[q]]
       \/ KsMoves(p, "shmget", "giveUp") /\ UNCHANGED segments
    /\ UNCHANGED <<keyFile, key, known, operations, signals, stray>>

\* The id that shmget returned is stored.
StoreId(p) ==
    /\ KsMoves(p, "store", "attach")
    /\ known' = known \cup {p}
    /\ UNCHANGED <<keyFile, key, segments, operations, signals, stray>>

\* Lines 71-81.
Attach(p) ==
    /\ KsMoves(p, "attach", "write") \/ KsMoves(p, "attach", "rmid")
    /\ UNCHANGED <<keyFile, key, segments, known, operations, signals, stray>>

\* Lines 100-119.
WriteText(p) ==
    /\ operations[p] < MAX_OPERATIONS
    /\ KsMoves(p, "write", "write")
    /\ operations' = [operations EXCEPT ![p] = @ + 1]
    /\ UNCHANGED <<keyFile, key, segments, known, signals, stray>>

\* Lines 121-122.
WriteLast(p) ==
    /\ operations[p] = MAX_OPERATIONS
    /\ KsMoves(p, "write", "release")
    /\ UNCHANGED <<keyFile, key, segments, known, operations, signals, stray>>

\* release_resources: the segment (33-37), which line 74 removes likewise, ...
\* Slip: the segment is removed by the failure path only.
RmidSlip(p) == IF ksPc[p] = "rmid" THEN {p} ELSE {}

Rmid(p) == IF p \in known THEN {p} ELSE {}

RemoveSegment(p) ==
    /\ KsMoves(p, "release", "exit") \/ KsMoves(p, "rmid", "giveUp")
    /\ segments' = [q \in DOMAIN segments \ Rmid(p) |-> segments[q]]
    /\ UNCHANGED <<keyFile, key, known, operations, signals, stray>>

\* q has, or is about to have, a segment under the key of the file that is there.
Relies(q) == key[q] = keyFile /\ (ksPc[q] = "shmget" \/ q \in DOMAIN segments)

\* ... and the key file (39; 55, 67 and 75 when the start-up fails), whoever made it.
RemoveFile(p) ==
    /\ KsMoves(p, "exit", "gone") \/ KsMoves(p, "giveUp", "gone")
    /\ keyFile' = NoKey
    /\ stray' = (stray \/ \E q \in Procs \ {p} : Relies(q))
    /\ UNCHANGED <<key, segments, known, operations, signals>>

\* SIGINT or SIGTERM, wherever the process is, also in the handler of the other.
Interrupted(p, s) ==
    /\ ksPc[p] # "gone" /\ s \notin signals[p]
    /\ signals' = [signals EXCEPT ![p] = @ \cup {s}]
    /\ ksPc' = [ksPc EXCEPT ![p] = "release"]
    /\ UNCHANGED <<keyFile, key, segments, known, operations, stray>>

KsStep(p) ==
    \/ MakeFile(p) \/ Ftok(p) \/ Shmget(p) \/ StoreId(p) \/ Attach(p) \/ WriteText(p) \/ WriteLast(p)
    \/ RemoveSegment(p) \/ RemoveFile(p)

KsNext == \E p \in Procs : KsStep(p) \/ \E s \in ExitSignals : Interrupted(p, s)

-----------------------------------------------------------------------------
(* Properties *)

\* The processes whose segment is in use, or about to be.
Working == {p \in Procs : ksPc[p] \in {"attach", "write"}}

\* As long as nobody has removed the file that another process relies on there is one
\* sender at most; and two never write into one segment.
OneUnlessStray ==
    /\ ~stray => Cardinality(Working) <= 1
    /\ \A p \in Working : p \in DOMAIN segments
    /\ \A p, q \in Working : p # q => segments[p] # segments[q]

\* When all have ended nothing is left: no file, and no segment but one whose maker was
\* interrupted between shmget and the store of what it returned.
AllGone ==
    (\A p \in Procs : ksPc[p] = "gone") =>
        /\ DOMAIN segments \cap known = {}
        /\ keyFile = NoKey
        /\ \A p \in DOMAIN segments : signals[p] # {}
=============================================================================
