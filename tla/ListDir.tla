------------------------------- MODULE ListDir -------------------------------
(***************************************************************************)
(* lab2/demls.c: a directory is read into a growing array of copies of its *)
(* entries, sorted and printed; every exit goes through cleanupProgram.    *)
(* The heap is the set of blocks that are allocated: an entry's copy is    *)
(* called by the entry's name.                                             *)
(***************************************************************************)
EXTENDS Integers, FiniteSets, Sequences, Functions

CONSTANTS
    Names,      \* what a directory may hold
    Hidden,     \* the names that begin with a dot
    CaseRank,   \* [Names -> Nat]: the order of strcasecmp, which takes some for equal
    Directories,\* sequences of different names, in the order of readdir
    CAPACITY    \* line 180, 32 in the code

ASSUME NamesAssumption ==
    /\ Hidden \subseteq Names /\ {"path", "dir", "array"} \cap Names = {}
    /\ CaseRank \in [Names -> Nat]
ASSUME DirectoriesAssumption ==
    \A d \in Directories : d \in Seq(Names) /\ \A j, k \in 1..Len(d) : d[j] = d[k] => j = k
ASSUME CapacityAssumption == CAPACITY \in Nat \ {0}

VARIABLES
    lsPc,         \* where the program is, or how it ended
    lsAll,        \* LS_ALL
    dir,          \* the directory listed
    gone,         \* the entries that were removed since
    live,         \* the blocks that are allocated
    twice,        \* the blocks that were freed when they were not
    openDir,      \* openDir # NULL
    hasEntries,   \* entries # NULL
    entries,      \* the names in the array
    entryCount,
    capacity,
    nxt,          \* how far readdir or the loop of 346 has come
    printed

heapVars == <<live, twice>>
stateVars == <<openDir, hasEntries, entries, entryCount, capacity>>
lsVars == <<lsPc, lsAll, dir, gone, heapVars, stateVars, nxt, printed>>

LsEnded == {"ok", "failed", "failedLate", "aborted"}

-----------------------------------------------------------------------------
(* The heap *)

Free(blocks) ==
    /\ live' = live \ blocks
    /\ twice' = twice \cup (blocks \ live)

Entries(n) == {entries[k] : k \in 1..n}

\* What cleanupProgram frees (117-133).
Kept ==
    (IF "path" \in live THEN {"path"} ELSE {})
    \cup (IF openDir THEN {"dir"} ELSE {})
    \cup (IF hasEntries THEN Entries(entryCount) \cup {"array"} ELSE {})

\* cleanupProgram, then exit.  When free is given what was freed before, the C
\* library may notice and abort, or go on.
Exit(how) ==
    /\ Free(Kept)
    /\ lsPc' \in {how} \cup (IF Kept \subseteq live THEN {} ELSE {"aborted"})
    /\ openDir' = FALSE /\ hasEntries' = FALSE
    /\ UNCHANGED <<lsAll, dir, gone, entries, entryCount, capacity, nxt, printed>>

-----------------------------------------------------------------------------
(* main *)

LsInit ==
    /\ lsPc = "shell" /\ lsAll = FALSE /\ dir = <<>> /\ gone = {}
    /\ live = {} /\ twice = {}
    /\ openDir = FALSE /\ hasEntries = FALSE /\ entries = <<>> /\ entryCount = 0 /\ capacity = 0
    /\ nxt = 0 /\ printed = <<>>

\* initProgram: without its buffer the program ends at once.
LsStart ==
    /\ lsPc = "shell"
    /\ dir' \in Directories
    /\ \/ lsPc' = "options" /\ live' = {"path"}
       \/ lsPc' = "failed" /\ UNCHANGED live
    /\ UNCHANGED <<lsAll, gone, twice, stateVars, nxt, printed>>

\* Lines 73-101: help, a bad option, too many arguments, or a directory to list.
LsOptions ==
    /\ lsPc = "options"
    /\ \/ Exit("ok") \/ Exit("failed")
       \/ /\ lsAll' \in BOOLEAN
          /\ lsPc' = "open"
          /\ UNCHANGED <<dir, gone, heapVars, stateVars, nxt, printed>>

\* Lines 338-343.
LsOpen ==
    /\ lsPc = "open"
    /\ \/ Exit("failed")
       \/ /\ openDir' = TRUE /\ live' = live \cup {"dir"}
          /\ lsPc' = "allocate"
          /\ UNCHANGED <<lsAll, dir, gone, twice, hasEntries, entries, entryCount, capacity, nxt, printed>>

-----------------------------------------------------------------------------
(* collectEntries *)

LsAllocate ==
    /\ lsPc = "allocate"
    /\ \/ Exit("failed")
       \/ /\ hasEntries' = TRUE /\ live' = live \cup {"array"}
          /\ capacity' = CAPACITY /\ entryCount' = 0
          /\ lsPc' = "read"
          /\ UNCHANGED <<lsAll, dir, gone, twice, openDir, entries, nxt, printed>>

Full == entryCount >= capacity

LsGrow ==
    /\ lsPc = "read" /\ nxt < Len(dir) /\ Full
    /\ capacity' = 2 * capacity
    /\ UNCHANGED <<lsPc, lsAll, dir, gone, heapVars, openDir, hasEntries, entries, entryCount, nxt, printed>>

LsCopy ==
    /\ lsPc = "read" /\ nxt < Len(dir) /\ ~Full
    /\ nxt' = nxt + 1
    /\ entryCount' = entryCount + 1
    /\ entries' = Append(entries, dir[nxt'])
    /\ live' = live \cup {dir[nxt']}
    /\ UNCHANGED <<lsPc, lsAll, dir, gone, twice, openDir, hasEntries, capacity, printed>>

\* Slip: entries still points to the array that was freed.
ForgottenSlip == TRUE

Forgotten == FALSE

\* realloc, malloc or readdir fails (195-201, 207-213, 219-225).
LsReadFails ==
    /\ lsPc = "read"
    /\ Free(Entries(entryCount) \cup {"array"})
    /\ hasEntries' = Forgotten
    /\ lsPc' = "fail"
    /\ UNCHANGED <<lsAll, dir, gone, openDir, entries, entryCount, capacity, nxt, printed>>

LsFail ==
    /\ lsPc = "fail"
    /\ Exit("failed")

\* Slip: the comparison looks at the letters only.
ComesAfterSlip(a, b) == CaseRank[a] > CaseRank[b]

\* direntCompare(a, b) > 0
ComesAfter(a, b) ==
    \/ a \notin Hidden /\ b \in Hidden
    \/ (a \in Hidden <=> b \in Hidden) /\ CaseRank[a] > CaseRank[b]

\* qsort may put equal entries either way.
LsSort ==
    /\ lsPc = "read" /\ nxt = Len(dir)
    /\ entries' \in {f \in Bijection(1..entryCount, Entries(entryCount)) :
                        \A j, k \in 1..entryCount : j < k => ~ComesAfter(f[j], f[k])}
    /\ nxt' = 1
    /\ lsPc' = "print"
    /\ UNCHANGED <<lsAll, dir, gone, heapVars, openDir, hasEntries, entryCount, capacity, printed>>

-----------------------------------------------------------------------------
(* printEntry and the loop of listDirectory *)

Entry == entries[nxt]

Printing == lsPc = "print" /\ nxt <= entryCount

Shown(name) == lsAll \/ name \notin Hidden

\* Slip: an entry that is not shown is not freed.
LsSkipSlip ==
    /\ Printing /\ ~Shown(Entry)
    /\ nxt' = nxt + 1
    /\ UNCHANGED <<lsPc, lsAll, dir, gone, heapVars, stateVars, printed>>

\* Lines 232-235.
LsSkip ==
    /\ Printing /\ ~Shown(Entry)
    /\ Free({Entry})
    /\ nxt' = nxt + 1
    /\ UNCHANGED <<lsPc, lsAll, dir, gone, stateVars, printed>>

LsPrint ==
    /\ Printing /\ Shown(Entry) /\ Entry \notin gone
    /\ printed' = Append(printed, Entry)
    /\ Free({Entry})
    /\ nxt' = nxt + 1
    /\ UNCHANGED <<lsPc, lsAll, dir, gone, stateVars>>

\* Lines 241-244: the entry is gone, or lstat fails for another reason.
LsStatFails ==
    /\ Printing /\ Shown(Entry)
    /\ Free({Entry})
    /\ lsPc' = "failLate"
    /\ UNCHANGED <<lsAll, dir, gone, stateVars, nxt, printed>>

\* Then failWithError; or composePath finds the path too long (171-175).
LsFailLate ==
    /\ lsPc = "failLate" \/ (Printing /\ Shown(Entry))
    /\ Exit("failedLate")

\* Lines 350-352.
LsFinish ==
    /\ lsPc = "print" /\ nxt > entryCount
    /\ entryCount' = 0
    /\ Free({"array"}) /\ hasEntries' = FALSE
    /\ lsPc' = "cleanup"
    /\ UNCHANGED <<lsAll, dir, gone, openDir, entries, capacity, nxt, printed>>

\* Line 105.
LsReturn ==
    /\ lsPc = "cleanup"
    /\ Exit("ok")

\* Meanwhile somebody removes a file.
LsRemoved(name) ==
    /\ lsPc \in {"read", "print"}
    /\ gone' = gone \cup {name}
    /\ UNCHANGED <<lsPc, lsAll, dir, heapVars, stateVars, nxt, printed>>

LsNext ==
    \/ LsStart \/ LsOptions \/ LsOpen \/ LsAllocate \/ LsGrow \/ LsCopy \/ LsReadFails \/ LsFail \/ LsSort
    \/ LsSkip \/ LsPrint \/ LsStatFails \/ LsFailLate \/ LsFinish \/ LsReturn
    \/ \E name \in Range(dir) : LsRemoved(name)

-----------------------------------------------------------------------------
(* Properties *)

\* Nothing is freed twice, unless an entry cannot be printed; then all entries
\* printed before are, for the array still names them.
FreedOnce == twice # {} => lsPc \in {"failedLate", "aborted"} /\ nxt <= entryCount

\* Whatever fails, the program ends with nothing allocated, unless it is aborted.
NothingLeft == lsPc \in LsEnded \ {"aborted"} => live = {}

\* The copies fit into the array, and what is printed is in order: names with a dot
\* first, then by letter.  A listing that ends well is complete.
Listing ==
    /\ hasEntries => entryCount <= capacity
    /\ \A j, k \in DOMAIN printed : j < k =>
          /\ printed[j] # printed[k]
          /\ printed[k] \in Hidden => printed[j] \in Hidden
          /\ (printed[j] \in Hidden <=> printed[k] \in Hidden) => CaseRank[printed[j]] <= CaseRank[printed[k]]
    /\ lsPc = "ok" /\ capacity > 0 => Range(printed) = {n \in Range(dir) : Shown(n)}
=============================================================================
