------------------------------- MODULE Board -------------------------------
(***************************************************************************)
(* What the single-writer, many-readers programs (lab8/main.c,             *)
(* lab10/main.c, lab11/main.c) promise: a board that holds one numbered    *)
(* record at a time.  The writer replaces record n by record n + 1,        *)
(* readers see whole records, and always the newest one.  Record 0 is the  *)
(* text main() puts into the buffer before any thread exists.              *)
(*                                                                         *)
(* The lock that makes it true is the subject of the modules that          *)
(* implement this one: CondRW, RwLockBoard and MutexBoard.                 *)
(***************************************************************************)
EXTENDS Integers

CONSTANTS
    Readers,     \* the reader threads
    MaxRecords   \* how many records the writer ever publishes

VARIABLES
    latest,   \* number of the record on the board
    seen      \* [Readers -> number of the record the reader printed last]

boardVars == <<latest, seen>>

BoardInit ==
    /\ latest = 0
    /\ seen = [r \in Readers |-> 0]

Publish ==
    /\ latest < MaxRecords
    /\ latest' = latest + 1
    /\ UNCHANGED seen

Look(r) ==
    /\ seen' = [seen EXCEPT ![r] = latest]
    /\ UNCHANGED latest

BoardNext == Publish \/ \E r \in Readers : Look(r)

BoardSpec == BoardInit /\ [][BoardNext]_boardVars
=============================================================================
