-------------------------------- MODULE Shelf --------------------------------
(***************************************************************************)
(* What lab5/archiver.c promises (Readme.md:81-84, 120-121): an archive is *)
(* a sequence of files.  Adding a file puts a copy at the end; extracting  *)
(* a name takes every copy that bears it and leaves the others in order.   *)
(* An operation that fails changes nothing, but for one failure that the   *)
(* program does not notice: if the shelf cannot be read to its end         *)
(* (ReadsMayEnd), an extraction that has found a copy drops the rest.      *)
(***************************************************************************)
EXTENDS Picks

CONSTANTS
    Names,
    Contents,    \* what a file may hold
    ReadsMayEnd  \* whether reading may end before the shelf does

VARIABLE shelf

ShelfInit == shelf = <<>>

Put(n) == \E c \in Contents : shelf' = Append(shelf, [name |-> n, content |-> c])

\* Of the first m files, those that do not bear the name.
Others(n, m) == Picked(shelf, {i \in 1..m : shelf[i].name # n})

\* A name that the shelf does not have is not taken, and a file may be lost only from
\* behind a copy of the name.
Take(n) ==
    \E m \in 1..Len(shelf) :
        /\ \E i \in 1..m : shelf[i].name = n
        /\ m = Len(shelf) \/ ReadsMayEnd
        /\ shelf' = Others(n, m)

ShelfNext ==
    /\ shelf' # shelf
    /\ \E n \in Names : Put(n) \/ Take(n)

ShelfSpec == ShelfInit /\ [][ShelfNext]_shelf
=============================================================================
