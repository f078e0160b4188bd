------------------------------ MODULE Archiver ------------------------------
(***************************************************************************)
(* lab5/archiver.c: `archiver A -i f` appends f to the archive A, and      *)
(* `archiver A -e f` writes every f in A back to disk and replaces A by a  *)
(* copy without it, by way of a file called temp_archive.  An archive is a *)
(* sequence of cells: the header of a file, which states its size, and the *)
(* blocks of its data.  Commands run one after the other.  The calls that  *)
(* may fail are named in Faults, being killed among them; the program      *)
(* notices most failures, but takes an error in reading the archive        *)
(* ("readHeader", "readOut", "readKeep") for its end.                      *)
(***************************************************************************)
EXTENDS Picks

CONSTANTS
    Names,        \* names of files
    MaxVersion,   \* bound: version v of a file is v blocks long
    MaxCommands,  \* bound: how often the program is run
    Faults        \* which calls fail now and then

ASSUME BoundsAssumption == MaxVersion \in Nat /\ MaxCommands \in Nat

VARIABLES
    disk,      \* [Names -> the blocks of the file, or Missing]
    archive,   \* the cells of the archive, or Missing
    temp,      \* the cells of temp_archive, or Missing
    pc,        \* where the running command is, or "idle"
    name,      \* its argument
    pos,       \* the next cell or block it reads
    left,      \* the size in the last header it wrote or read, less what it copied
    found,
    commands   \* how many commands were started

files == <<disk, archive, temp>>
vars  == <<files, pc, name, pos, left, found, commands>>

Missing == <<[kind |-> "missing"]>>
Garbage == "?"   \* the name in a block of data that was read as a header

Header(n, size) == [kind |-> "header", name |-> n, size |-> size]
Block(n, v, k)  == [kind |-> "data", name |-> n, version |-> v, at |-> k]
Part(n, v, k)   == [j \in 1..k |-> Block(n, v, j)]
Version(n, v)   == Part(n, v, v)

\* What a file may hold: a version of it, or as much of one as an extraction that
\* was interrupted has written.
Kept(n)  == UNION {{Part(n, v, k) : k \in 0..v} : v \in 0..MaxVersion}
Contents == UNION {Kept(n) : n \in Names}

PC ==
    {"idle",
     "stat", "openArchive", "writeHeader", "openFile", "copyIn",                    \* add
     "openRdwr", "openTemp", "readEntry", "copyOut", "keep", "replace"}             \* extract

Fails(call) == call \in Faults

\* The command returns, with success or without.
Return == pc' = "idle" /\ UNCHANGED <<name, pos, left, found, commands>>

GoTo(l) == pc' = l

-----------------------------------------------------------------------------
(* Outside the program: a file is written anew, and a command is typed. *)

Edit(n) ==
    /\ pc = "idle"
    /\ \E v \in 0..MaxVersion : disk' = [disk EXCEPT ![n] = Version(n, v)]
    /\ UNCHANGED <<archive, temp, pc, name, pos, left, found, commands>>

\* main, lines 50-53.
Command(n) ==
    /\ pc = "idle"
    /\ commands < MaxCommands
    /\ commands' = commands + 1
    /\ name' = n
    /\ pc' \in {"stat", "openRdwr"}
    /\ UNCHANGED <<files, pos, left, found>>

-----------------------------------------------------------------------------
(* add_to_archive *)

\* Lines 112-115; the size of the header is the size found here.
AddStat ==
    /\ pc = "stat"
    /\ IF disk[name] = Missing
       THEN Return
       ELSE /\ left' = Len(disk[name])
            /\ GoTo("openArchive")
            /\ UNCHANGED <<name, pos, found, commands>>
    /\ UNCHANGED files

\* Lines 117-121, with O_CREAT.
AddOpenArchive ==
    /\ pc = "openArchive"
    /\ \/ /\ Fails("openArchive") /\ Return /\ UNCHANGED archive
       \/ /\ archive' = IF archive = Missing THEN <<>> ELSE archive
          /\ GoTo("writeHeader")
          /\ UNCHANGED <<name, pos, left, found, commands>>
    /\ UNCHANGED <<disk, temp>>

\* Lines 123-137.
AddHeader ==
    /\ pc = "writeHeader"
    /\ \/ /\ Fails("writeHeader") /\ Return /\ UNCHANGED archive
       \/ /\ archive' = Append(archive, Header(name, left))
          /\ GoTo("openFile")
          /\ UNCHANGED <<name, pos, left, found, commands>>
    /\ UNCHANGED <<disk, temp>>

\* Lines 139-144.  The header is written by now: failing here leaves it alone.
AddOpenFile ==
    /\ pc = "openFile"
    /\ \/ Fails("openFile") /\ Return
       \/ /\ pos' = 1
          /\ GoTo("copyIn")
          /\ UNCHANGED <<name, left, found, commands>>
    /\ UNCHANGED files

\* Slip: the loop of line 148 stops one block short.
CopiedAllSlip == pos >= Len(disk[name])

CopiedAll == pos > Len(disk[name])

\* Lines 148-168.
AddCopy ==
    /\ pc = "copyIn"
    /\ \/ /\ Fails("copyIn") \/ CopiedAll
          /\ Return
          /\ UNCHANGED archive
       \/ /\ ~CopiedAll
          /\ archive' = Append(archive, disk[name][pos])
          /\ pos' = pos + 1
          /\ UNCHANGED <<pc, name, left, found, commands>>
    /\ UNCHANGED <<disk, temp>>

-----------------------------------------------------------------------------
(* extract_from_archive *)

\* Lines 172-176.
ExtractOpen ==
    /\ pc = "openRdwr"
    /\ \/ (Fails("openArchive") \/ archive = Missing) /\ Return
       \/ /\ archive # Missing
          /\ GoTo("openTemp")
          /\ UNCHANGED <<name, pos, left, found, commands>>
    /\ UNCHANGED files

\* Slip: temp_archive is opened without O_TRUNC.
FreshTempSlip == IF temp = Missing THEN <<>> ELSE temp

FreshTemp == <<>>

\* Lines 178-188.
ExtractOpenTemp ==
    /\ pc = "openTemp"
    /\ \/ /\ Fails("openTemp") /\ Return /\ UNCHANGED temp
       \/ /\ temp' = FreshTemp
          /\ pos' = 1 /\ found' = FALSE
          /\ GoTo("readEntry")
          /\ UNCHANGED <<name, left, commands>>
    /\ UNCHANGED <<disk, archive>>

\* What read_entry makes of a cell; a block of data may look like any header.
EntriesAt(cell) ==
    IF cell.kind = "header" THEN {cell}
    ELSE {Header(n, s) : n \in Names \cup {Garbage}, s \in 0..MaxVersion}

\* Lines 190-203: the entry is the one sought, and its file is created anew.
ExtractEntry(entry) ==
    /\ entry.name = name
    /\ found' = TRUE
    /\ \/ /\ Fails("createOutput")
          /\ pc' = "idle"
          /\ UNCHANGED <<disk, pos, left>>
       \/ /\ disk' = [disk EXCEPT ![name] = <<>>]
          /\ pos' = pos + 1 /\ left' = entry.size
          /\ GoTo("copyOut")
    /\ UNCHANGED <<archive, temp, name, commands>>

\* Line 236: the entry is another one; that write_entry may fail is not looked at.
KeepEntry(entry) ==
    /\ entry.name # name
    /\ \/ Fails("keepHeader") /\ temp' = temp
       \/ temp' = Append(temp, entry)
    /\ pos' = pos + 1 /\ left' = entry.size
    /\ GoTo("keep")
    /\ UNCHANGED <<disk, archive, name, found, commands>>

ExtractRead ==
    /\ pc = "readEntry" /\ pos <= Len(archive)
    /\ \E entry \in EntriesAt(archive[pos]) : ExtractEntry(entry) \/ KeepEntry(entry)

\* The loop of line 190 ends when read_entry gets less than a header (line 67),
\* and that is so at the end of the archive and when the read fails.
ExtractLast ==
    /\ pc = "readEntry"
    /\ pos > Len(archive) \/ Fails("readHeader")
    /\ GoTo("replace")
    /\ UNCHANGED <<files, name, pos, left, found, commands>>

\* Lines 205-209 and 239-243: the data is copied, or the archive ends before it does.
EndOfEntry == left = 0 \/ pos > Len(archive)

\* The same lines: read gave -1, and rd <= 0 does not tell that from the end.
ReadCutShort == IF pc = "copyOut" THEN Fails("readOut") ELSE Fails("readKeep")

\* Lines 205-233, and 238-252 for an entry that stays.  Data that a failed read has
\* left over lies where line 190 then expects a header.
ExtractCopy ==
    /\ pc \in {"copyOut", "keep"}
    /\ \/ /\ EndOfEntry \/ ReadCutShort
          /\ GoTo("readEntry")
          /\ UNCHANGED <<disk, temp, pos, left>>
       \/ /\ ~EndOfEntry /\ Fails(pc)
          /\ GoTo("idle")
          /\ UNCHANGED <<disk, temp, pos, left>>
       \/ /\ ~EndOfEntry
          /\ IF pc = "copyOut"
             THEN disk' = [disk EXCEPT ![name] = Append(@, archive[pos])] /\ temp' = temp
             ELSE temp' = Append(temp, archive[pos]) /\ disk' = disk
          /\ pos' = pos + 1 /\ left' = left - 1
          /\ UNCHANGED pc
    /\ UNCHANGED <<archive, name, found, commands>>

\* Lines 258-269.
ExtractReplace ==
    /\ pc = "replace"
    /\ IF found
       THEN \/ archive' = temp /\ temp' = Missing
            \/ Fails("rename") /\ UNCHANGED <<archive, temp>>
       ELSE temp' = Missing /\ archive' = archive
    /\ Return
    /\ UNCHANGED disk

AddStep == AddStat \/ AddOpenArchive \/ AddHeader \/ AddOpenFile \/ AddCopy

ExtractStep ==
    \/ ExtractOpen \/ ExtractOpenTemp \/ ExtractRead \/ ExtractLast \/ ExtractCopy
    \/ ExtractReplace

AddStages == {"stat", "openArchive", "writeHeader", "openFile", "copyIn"}

KillOf(l) == IF l \in AddStages THEN "killAdd" ELSE "killExtract"

\* The command is killed; what it has written so far stays.
Killed ==
    /\ pc # "idle" /\ Fails(KillOf(pc))
    /\ Return
    /\ UNCHANGED files

-----------------------------------------------------------------------------
Init ==
    /\ disk = [n \in Names |-> Missing]
    /\ archive = Missing
    /\ temp = Missing
    /\ pc = "idle"
    /\ name \in Names
    /\ pos = 1 /\ left = 0 /\ found = FALSE
    /\ commands = 0

Next ==
    \/ \E n \in Names : Edit(n) \/ Command(n)
    \/ AddStep \/ ExtractStep \/ Killed

Spec == Init /\ [][Next]_vars

-----------------------------------------------------------------------------
(* Reading an archive. *)

Cells == IF archive = Missing THEN <<>> ELSE archive

\* The data that the header at k announces.
Content(cells, k) == SubSeq(cells, k + 1, k + cells[k].size)

\* Among the first m cells, the headers; and in all of them, those that are followed
\* by as much data as they announce.
Headers(cells, m) == {k \in 1..m : cells[k].kind = "header"}
Whole(cells)      == {k \in Headers(cells, Len(cells)) : k + cells[k].size <= Len(cells)}

Entry(cells, k) == [name |-> cells[k].name, content |-> Content(cells, k)]

\* The files in an archive.
Entries(cells) == Picked([k \in Whole(cells) |-> Entry(cells, k)], Whole(cells))

\* The first m cells are [header 1][data 1][header 2][data 2]..., and the data after a
\* header is a file of the name in it.
Formed(cells, m) ==
    /\ m > 0 => cells[1].kind = "header"
    /\ \A k \in Headers(cells, m) :
        /\ k + cells[k].size <= m
        /\ Content(cells, k) \in Kept(cells[k].name)
        /\ k + cells[k].size < m => cells[k + cells[k].size + 1].kind = "header"

-----------------------------------------------------------------------------
(* Properties *)

\* Every variable holds a value of its kind, a file on disk holds blocks of its
\* own, and the reads of both commands (lines 148, 190, 208, 242) stay within
\* the file they are from.
TypeOK ==
    /\ \A n \in Names : disk[n] = Missing \/ \A k \in DOMAIN disk[n] : disk[n][k].name = n
    /\ pc \in PC
    /\ name \in Names
    /\ pos \in Nat \ {0}
    /\ pc = "copyIn" => pos <= Len(disk[name]) + 1
    /\ pc \in {"readEntry", "copyOut", "keep", "replace"} => pos <= Len(Cells) + 1
    /\ left \in 0..MaxVersion
    /\ found \in BOOLEAN
    /\ commands \in 0..MaxCommands

\* "[Header 1][Data 1][Header 2][Data 2]..." (Readme.md:84): between commands the
\* archive is whole entries and nothing else, and the data after a header is a
\* file of the name in it.
ArchiveFormat == pc = "idle" => Formed(Cells, Len(Cells))

\* Of the first m cells, those of other files than n, and the headers of n.
NotOf(cells, n, m)   == {k \in 1..m : cells[k].name # n}
HeadsOf(cells, n, m) == {k \in Headers(cells, m) : cells[k].name = n}

\* When line 264 is about to replace the archive, what was read of it is in place:
\* the disk has the copy added last, and temp_archive has the cells of all other
\* entries in their order.  What was read is the archive as far as an entry's end,
\* and all of it unless reading a header may fail.
NothingLost ==
    (pc = "replace" /\ found) =>
        /\ \E k \in HeadsOf(Cells, name, pos - 1) :
            /\ disk[name] = Content(Cells, k)
            /\ \A h \in HeadsOf(Cells, name, pos - 1) : h <= k
        /\ temp = Picked(Cells, NotOf(Cells, name, pos - 1))
        /\ Formed(Cells, pos - 1)
        /\ pos > Len(Cells) \/ Fails("readHeader")

\* "A temporary archive without the file that is extracted" (Readme.md:120-121), and
\* input/output errors are handled (Readme.md:107): whatever fails, the archive is
\* not replaced by one that lacks other files as well.
OthersKept ==
    (pc = "replace" /\ found) => temp = Picked(Cells, NotOf(Cells, name, Len(Cells)))

\* A command in progress, in its own file and in temp_archive.
CommandInv == TypeOK /\ NothingLost

\* The archive is a shelf of files, and a command that fails changes nothing: an
\* entry counts as put on the shelf when its last block is written, and as taken when
\* the archive is replaced.  An extraction that stops reading at a header it cannot
\* read keeps the others that come before, and loses those behind.
Store == INSTANCE Shelf WITH shelf <- Entries(Cells), ReadsMayEnd <- Fails("readHeader")

ShelfSpec == Store!ShelfSpec
=============================================================================
