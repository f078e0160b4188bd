# Operation-systems-MireaLabs: specifications, model checks and proofs

The repository holds eleven laboratory works, each one or more small C
programs. They share no code. What makes them worth specifying is that most are
about concurrent access to one thing: a buffer shared by threads, a FIFO, a
shared memory segment, an archive that is rewritten in place. This directory
holds TLA+ modules for those programs, TLC configurations that check them on
small instances, and proofs that hold for every instance.

Run `tlc -config X.cfg MCM.tla` for a run, `tlapm M_proofs.tla` for proofs;
section 6 says which modules they are about. PROJECT.json lists the runs, maps each definition to the lines it stands
for, and lists the hazards of the code with the properties that cover them.

## 1. Inventory

| program | state it keeps | operations | meets | hard parts | module |
|---|---|---|---|---|---|
| lab11 `main.c` | mutex, 2 condition variables, 3 counters, text buffer | reader round, writer round, main: create, join, cancel, destroy | threads, through the counters | lost wakeup, exclusion without the mutex, overtaking, cancellation inside `pthread_cond_wait`, failed creation | `CondRW` |
| lab10 `main.c` | `pthread_rwlock_t`, buffer, `running` | the same | threads | starvation of the writer, readers that die with the lock | `RwLockBoard` |
| lab8 `main.c` | mutex, array, `program_running` | reader and writer rounds, stop, two ways out of main | threads | failed creation, unlocked read of the total | `MutexBoard` |
| lab9 `main.c` | mutex, buffer | producer and consumer rounds, for ever | threads | the write in place | `ProdCons` |
| lab6 `producer.c`, `consumer.c` | the name `/tmp/myfifo` and the FIFO behind it | access, mkfifo, open, write/read, close, unlink | processes, through the file system | check and use of a name, SIGPIPE, two messages in one read | `FifoIPC` |
| lab6 `pipe_program.c` | a pipe | parent writes, child sleeps and reads | parent and child | end of file, results that are ignored, kills | `PipeIPC` |
| lab5 `archiver.c` | archive file, `temp_archive`, files | `-i`, `-e`, `-s` | files on disk | failures half-way, replace by rename, duplicates, two at a time | `Archiver` |
| lab9 `sender.c`, `receiver.c` | key file, segment, semaphore | start-up, loops, signal handlers | processes, through System V IPC | kills that leave things behind, tokens lost, ids 0 in the handler | `ShmSem` |
| lab7 `sender.c` = `receiver.c` | key file, segment | start-up, write loop, handler | processes | clean-up of what another process made, a signal before an id is stored | `KeyedShm` |
| lab3 `main.c` | exit handler, signal handlers, stdio buffer | fork, wait, exit, SIGINT/SIGTERM handlers | parent and child | handlers that `exit(0)`; the child's state as reported; output copied by `fork` | `ForkWait` |
| lab1 `demcat.c`, `demgrep.c` | line counter | copy or filter lines | - | lines longer than the 4096-byte buffer, zero bytes | `CatGrep` |
| lab2 `demls.c` | array of copied entries | collect, sort, print, clean up | other processes, through the directory | entries that vanish meanwhile; who frees what | `ListDir` |
| lab4 `main.c` | mode bits of a file | octal and symbolic modes | other runs, through the file | stat, then chmod; parsing of modes | `ChangeMode` |

What makes each of them correct:

* **lab8, 10, 11**: readers see whole records and always the newest one; the
  lock is given back by everybody who lives, and nobody who lives waits for the
  dead; threads are joined before the objects they use are destroyed; the
  program ends.
* **lab6**: a message is shown at most once; two programs started in any order
  meet; the FIFO is gone afterwards.
* **lab5**: the archive is a sequence of header and data, whatever fails;
  extraction loses nothing and keeps the order of the rest.
* **lab9, lab7**: one sender at a time, whole messages, one token, nothing left
  behind.
* **lab3**: every child is waited for and its state reported as it was.
* **lab1, 2, 4**: the output is the function of the input that cat, grep, ls
  and chmod compute.

## 2. Plan

Done, in this order:

1. `Board`, `CondRW`, `CondRW_proofs` (lab11): the most intricate protocol of the
   repository, with its proofs.
2. `RwLockBoard` (lab10) and `MutexBoard` (lab8): two more implementations of
   `Board`.
3. `FifoIPC` (lab6), `Shelf` and `Archiver` (lab5), `ShmSem` (lab9).
4. `ForkWait` (lab3), `PipeIPC` (lab6), `ProdCons` (lab9's threads, a fourth
   implementation of `Board`) and `KeyedShm` (lab7).
5. `CatGrep` (lab1), `ListDir` (lab2) and `ChangeMode` (lab4), put together by `MCTools`, and
   with those of 4 and `FifoIPC` by `MCPrograms`.
6. `MutexBoard_proofs`, `RwLockBoard_proofs` and the proof about `ProdCons`: with these
   all four implementations of `Board` are proved.
7. `ShmSem_proofs` (lab9's processes), `Processes_proofs` (lab7, lab6's FIFO and pipe,
   lab9's threads and lab3) and the proofs about `ListDir` (lab2): the safety properties of
   these, for every value of the constants.
8. `Archiver_proofs` (lab5), on a formulation of archives without recursion, for which
   `Picks` has what the positions picked from a sequence leave of it, and `Picks_proofs`
   the lemmas about it: the second refinement that is proved.
9. `Tools_proofs` (lab1, lab2, lab4): what mycat, mygrep, ls and mychmod compute, for every
   text, pattern, directory and specification. Cat's and grep's outputs are stated with
   `Picks` too, as what is left of a text when some of it is passed over.

With this every safety property that a run checks is a theorem.

## 3. Modules

### Board

What lab8, lab10, lab11 and the threads of lab9 promise: one writer publishes record n + 1 after
record n, readers look at the newest. `latest` and `seen` are all its state. It
is implemented by four of the modules below, each by `INSTANCE Board WITH`: a record
is on the board once `snprintf` is done with it, and `seen[r]` is what reader r
printed last. That a reader never prints half a record, and never an older one
than the newest, is therefore one property, `BoardSpec`.

### CondRW (lab11/main.c)

The threads are `rpc[r]`, `wpc`, `mpc`: where each of them is. The shared C
variables keep their names. One action is the code between two points where
somebody can interfere: a `pthread_mutex_lock` (`ReaderTakesMutex`, `WriterLock`,
...), what is done up to the unlock (`ReaderEnter`, `ReaderLeave`, `WriterEnter`,
...), and each access without the mutex (`ReaderLoop` reads `running`,
`ReaderPrint` reads the buffer, `WriterCount` and `WriterFormat` overwrite it in two
steps, with `Torn` in between). Who sleeps on which condition variable is told by
the program counters: `Broadcast` wakes all readers in "waiting", and a woken
thread must take the mutex again ("relock") before it tests its condition.
Wakeups without a signal are `ReaderSpurious` and `WriterSpurious`.

`ReaderCancelled` is what becomes of `pthread_cancel`: in `usleep` nothing is held;
in `printf` the reader dies counted as active; in `pthread_cond_wait` it takes the
mutex first and dies with it, and from then on all who want the mutex wait
(`Abandoned`). A failed `pthread_create` (lines 143-149, 155-161) destroys the mutex
under the readers: lock and unlock then have no effect, and `Tally` lets `++` and
`--` lose updates. Unchecked results stay unchecked.

### RwLockBoard (lab10/main.c)

As above with the set of the lock's holders as the only lock state. It is
glibc's default kind: a reader is kept out by a writer that is in, not by one that
waits. A reader cancelled in `printf` (line 26) stays in the set.

### MutexBoard (lab8/main.c)

Adds `program_running`, the way out of main when a reader cannot be created
(lines 82-95), and the total printed at line 123.

### FifoIPC (lab6/producer.c, consumer.c)

`path` is the FIFO the name stands for, and every `mkfifo` that succeeds makes a
new one, so that `unlink` and `mkfifo` by others show. A process opens what the
name stands for when it comes to `open`, waits until the other end is open,
writes or reads, closes, sleeps, unlinks. Included are `open` of a name that is
gone (the producer goes on with descriptor -1), SIGPIPE, end of file, and two
messages read as one.

### Shelf and Archiver (lab5/archiver.c)

`Shelf` is an archive as the user sees it: a sequence of named files; adding puts
one at the end, extracting takes all of that name. Where reading may end early (`ReadsMayEnd`),
extracting a name may also lose the files behind some place after its first copy. `Archiver` works on cells, the
header of a file and the blocks of its data, one read or write at a time, with
`temp_archive` beside the archive. `Faults` names the calls that may fail and the
commands that may be killed. The program notices the failures but for that of line 236
("keepHeader") and those of its reads of the archive, which it does not tell from the end of
the archive: `ExtractLast` (line 67) then ends the extraction before the end of the
archive, and `ReadCutShort` (lines 209 and 243) an entry before the end of its data, so that a
header is looked for in what is left of it (`EntriesAt`). `Entries` reads the cells as entries: the headers that have
all their data behind them, in their order (`Picked`, of `Picks`). So an entry counts once
its last block is written, and each step of the program is a step of `Shelf` or
none. `Formed` says that the first cells of an archive are whole entries, each with a file
of its name; `ArchiveFormat` that between commands all of them are.

### ShmSem (lab9/sender.c, receiver.c)

A sender makes file, segment, semaphore and calls SETVAL in separate steps, and the
id that `shmget` or `semget` returns is stored in a step of its own (`StoreSegment`,
`StoreSemaphore`): `shmId` and `semId` are what was returned, `unstored` says which of them
the sender has yet to store, and the handler looks at `ShmIdentifier` and `SemIdentifier`,
which are 0 until then. A receiver finds segment and semaphore in separate steps, and between any two a
signal or SIGKILL may come. Removing a segment takes its key away and leaves it
to those attached. `semop` on a semaphore that is gone fails unnoticed (`Gone`).
The handler's steps are `SenderSignalled`, `RemoveSegment`, `RemoveSemaphore`,
`RemoveKeyFile`; ids that were not stored are 0, which is also the first id after a
boot. `handle_error` and SIGKILL are one action, `Dies`. `holders` is kept for the
properties: who has lowered the semaphore and not raised it.

### ProdCons (lab9/main.c)

A producer and a consumer with one mutex, `snprintf` in two steps, and main, any
of whose calls may fail and end the process. The consumer sleeps twice as long as
the producer, so it misses messages; what it must not do is print half of one or an old
one (`NewestMessage`).

### PipeIPC (lab6/pipe_program.c)

Which process has which end of the pipe open is the set `fds`: the end of a
process closes its descriptors, `read` returns when there is a message or nobody
who could write one. The results of `write` and `read` are ignored, so a child whose
parent was killed early prints what is on its stack ("garbage").

### ForkWait (lab3/main.c)

`caught` and `registered` are inherited by `fork`, and so is `stdoutBuf`, the
lines that `printf` has not written because stdout is not a terminal. `exit` is
three steps, the handler, the flush and the end, and a signal may come at each:
its handler prints and calls `exit(0)`, which goes on where the first `exit` was.

### KeyedShm (lab7/sender.c, of which receiver.c is a byte-for-byte copy)

Each run makes the key file, asks for a key, for a new segment under it, stores
the id, attaches, writes, and removes segment and file. `ftok` makes the key from
the file's inode, and `fopen` of a name that was removed makes a new one. `known` is
who has stored `shared_memory_id`, which the handler looks at. `stray` is kept for the
properties: somebody has removed the key file while another process relied on it.

### ListDir (lab2/demls.c)

The heap is `live`, the blocks that are allocated, and `twice`, those that were
freed when they were not. `Kept` is what `cleanupProgram` frees, by the program's own
variables and not by what is allocated: an entry printed and freed stays in the
array. The C library aborts on a double free, or does not notice (`Exit`).

### CatGrep (lab1/demcat.c, demgrep.c)

A text is a sequence of characters of which only newline and zero are special.
`offset` is how far the open file was read; `Chunk` is `fgets`, `CString` what `%s` and
`strstr` see of it. Actions read one chunk each and write to `shown`, which has one
output for each file that was tried: symbols (a character, a number, a `$`) of mycat,
numbered matches of mygrep. The reference definitions, `RefCat` and `RefGrep`, speak of
whole texts and know of no buffer and no loop. `Symbols` lays out all that cat could
write, with room for a number and a `$` before each character, and `PlacesAt` says what of
it is written with a character; cat writes all characters, with a number at the start of a
line unless `-b` is given and the line is blank. `RefNoBlanks` is the same without the blank
lines under `-b`, which is what mycat does. `CatFaithful` says so, and that it is `RefCat`
without `-b`; that mycat is not cat with `-b` is shown by the run `ToolsCatBlank`. All this is
about each file by itself, about texts without zeros (`Whole`) whose lines fit
into the buffer (`Tidy`), and under `-E` about those that end with a newline (`Ended`). grep
picks from the lines those that hold the pattern.

### ChangeMode (lab4/main.c)

Modes are sets of bits, specifications sequences of characters. `Updated`,
`Applicable` and `Mask` are computed with class and permission masks as in the code;
`BitAfter` says the same of each bit by itself, straight from the grammar
`[ugoa]*[-+=][rwx]*`, or from the digit of the bit's class, and `AsAsked` compares the
two. Two runs work on one file.

## 4. Runs

| run | instance | shows |
|---|---|---|
| `CondRW` | 3 readers, 2 records, fairness, 72 364 states | types; `ReadWriteExclusion`, `CountIsExact`, `WaitersHaveWakers`, `ObjectsOutliveThreads`; `NoOvertaking`; implements `Board`; `WriterFinishes`, `ReadersGetIn`, `Terminates` |
| `CondRWTid` | 2 readers | refutes `TidsKnown` |
| `RwLockBoard` | 3 readers, 2 records, fairness | `LockInv` (types, `LockOwners`, `LockOutlivesThreads`), implements `Board`, `Terminates` |
| `MutexBoard` | 2 readers, 3 writes, fairness | `MutexInv` (types, `OneAtATime`, `MutexOutlivesThreads`), `TotalIsFinal`, implements `Board`, `Terminates` |
| `FifoApart` | 2 + 2 processes | refutes `NeverApart` |
| `Archiver` | 2 names, files of up to 2 blocks, 4 commands, unreadable headers, 354 324 states | `ArchiveFormat`, `CommandInv` (types, `NothingLost`), implements `Shelf` |
| `ArchiverOpenFails` | 2 names, 1 block, 2 commands | refutes `ArchiveFormat` when `open` fails |
| `ArchiverHeaderRead` | 2 names, 1 block, 3 commands | refutes `OthersKept` when a header cannot be read |
| `ShmSem` | 2 senders, 1 receiver, 2 messages, 427 814 states, fairness | `TokenInv` (types, `OneToken`), `WholeMessages`, `CleansUp`, `ReceiversRead` |
| `ShmTwoSenders` | 3 senders | refutes `OneSender` |
| `Programs` | see below, 811 449 states, fairness for lab6 | lab1: `CatFaithful`, `GrepFaithful`; lab2: `FreedOnce`, `NothingLeft`, `Listing`; lab4: `AsAsked`; lab3: `ReportIsTrue`, `PrintedOnce`; lab6: `MessageShown`, `PairEnds`, `FifoInv` (types, `ShownOnce`), `NoLeftover`, `SomeoneServed`; lab7: `OneUnlessStray`, `AllGone`; lab9: `NewestMessage` |
| `ToolsCatBlank` | as in `Programs` | refutes `LikeCat` under `-b` |

`Programs` puts programs that have nothing to do with one another into one run, each to be
checked while the others have not started; so the states add up and do not multiply (474 313 of
lab1, lab2 and lab4, 5 125 of the FIFO, 332 013 of the others). It stops where its programs do
(CHECK_DEADLOCK FALSE): finished tools, processes that wait for a partner on another
FIFO, a producer that has reached its bound. `FifoApart` stops there as well.

The run `Archiver` has the failures after which the archive is still whole entries. Not in
it are "openFile", "copyIn" and "killAdd" (a header without all its data, lines 133 to 168;
`ArchiverOpenFails` shows one), "keepHeader" (line 236), "readOut" and "readKeep" (lines 209 and
243). An unreadable header ("readHeader", line 67) is in it, and `NothingLost` and `Shelf` say
what is lost by it; `ArchiverHeaderRead` shows that something is.

**Why the bounds are enough.** Three readers of lab11 and lab10 are one that is
in, one that waits and one that dies; two records are one that is overwritten
and a last one. The proofs remove the bounds for the safety properties of all programs
(section 6). In lab8 the mutex makes
all readers alike and two show that they exclude one another; `MaxWrites` bounds
what happens during the sleep of line 101, and the writer stands at its loop when
it is reached. Two producers and two consumers of lab6 are a pair and the pair
it disturbs; `FitsInOneRead` says that more would not fit into one read. Four
commands of the archiver are two additions of one name, an extraction that is
interrupted and another one. Two senders of lab9 are one that cleans up and one
that starts meanwhile; three are needed to get two into the loop.

In `Programs` the buffer of mycat and mygrep has 4 characters, with all texts up to 5
over two letters and newline, texts with zeros, a missing file and a second file:
lines that are shorter than the buffer, that just fill it, and that take two reads. A
directory has at most four entries, two of them equal to `strcasecmp`, one hidden and one
that sorts before the dot; the array starts with room for one and grows twice.
Specifications of up to three characters are all the shapes of `[ugoa]*[-+=][rwx]*`,
with the longer ones of lab4/Readme.md and octal ones around 7777. Of lab9's threads
three messages are an old, a new and a missed one; three processes of lab7 are the
sender, the one that is refused and strays, and the one that then gets in; two
inodes are an equal and a different key; one write is enough since nothing
depends on how many there are.

**Fairness.** Weak fairness for every thread and process: the kernel runs what can
run. Strong fairness for taking a mutex, the rwlock or the semaphore: no lock of
glibc is handed over in order, but each thread sleeps a tenth of a second or more
between two turns, and a thread that finds the lock free again and again gets
it. System V semaphores serve waiters in order. Nothing is assumed of spurious
wakeups, cancellation, signals, kills and failures: they may happen or not. The
writer of lab10 needs one thing more, `ReadersPause`, that all readers are out at
once again and again; without it readers who overlap keep the writer out for
ever, since this kind of lock prefers them, and `Terminates` says so by being
conditional. lab11 needs no such thing: a waiting writer holds new readers back
(`NoOvertaking`), which is the difference between the two programs. Of the programs in `Programs` only those of lab6
have liveness properties. `PipeIPC` has weak fairness for both processes, kills are owed to nobody;
`FifoIPC` for all processes once one of them was started, since the promise is about programs that
are all started, in any order. lab11's
`Terminates` ends in `Halted`: the process is gone, or a reader died in
`pthread_cond_wait` and main waits for ever for one of the others.

## 5. What the refuted properties say

* `TidsKnown` (lab11/main.c:150): the thread id a reader prints may not have been
  stored yet; main stores it after the thread has started.
* `NeverApart` (lab6/consumer.c:53, producer.c:36): each program unlinks the name
  at its end, whoever uses it by then. A process that has just opened the FIFO
  waits there for ever, and its partner makes a new one and waits there, though
  lab6/Readme.md:118 says that the processes can be started in any order.
* `ArchiveFormat` (lab5/archiver.c:139): the header is written before the file is
  opened; if that fails the archive does not have the structure of
  lab5/Readme.md:84 any more.
* `OthersKept` (lab5/archiver.c:67): an error in reading a header ends an extraction as the end
  of the archive does; if the file was found before, the archive is replaced by a copy
  that lacks all later files, though lab5/Readme.md:121 has a copy without the file that is
  extracted, and :107 input/output errors handled. `NothingLost` is worded for it: what was read
  is in the copy, all of it if headers can be read.
* `LikeCat` (lab1/demcat.c:14): `-b` leaves blank lines out, where cat prints them
  without a number; lab1/README.md:1 asks for the behaviour of cat and names `-b`.
* `OneSender` (lab9/sender.c:45): a sender that is interrupted before it has made
  anything removes the key file of the one that runs, and the segment and the
  semaphore of id 0; the check for another instance then lets a third one pass.

Two facts found on the way shape what is claimed. `WholeMessages` is restricted to
receivers whose segment and semaphore are those of one sender: between `shmget` and
`semget` of a receiver one sender may end and another start, and the receiver then
reads the old segment, possibly with half a message in it, under the new
semaphore. And an interrupted extraction truncates the file on disk, so `Kept`,
what a file may hold, includes beginnings of versions.

The modules of section 3 show more of this kind, and the properties are worded
accordingly:

* lab1/README.md:1 is also not met by what follows here of mycat, which `CatFaithful` and
  `LikeCat` leave out by their guards, or since they are about each file by itself: the numbers
  start anew with each file (demcat.c:97), where GNU cat, whose options these are, goes on
  counting. In both tools what follows a zero byte is lost up to the end of the chunk, and a line
  of 4096 characters or more counts as several, so that a pattern that lies across
  the cut is not found. `-E` puts a `$` after each such part and after a last line
  without newline, where cat puts none. Of a line of 4095 characters the newline is a part by itself, which
  `-b` takes for a blank line and leaves out: the next line follows without a break.
* archiver: an error in reading data (lines 209 and 243) ends the entry, as if the data were all
  there. In the copy it has too little data, or the rest of its data is taken for headers and
  further entries, and line 264 makes it the archive. With "readKeep" among its `Faults` the
  module violates `ArchiveFormat` in three commands, with files of one block.
* demls: when `lstat` fails (a file has vanished since `readdir`) or a path is too long,
  entries that were printed before are freed a second time, and the rest of the
  directory is not listed. That no other failure does this is `FreedOnce`.
* lab9: a signal that falls between `shmget` (72) or `semget` (84) and the store of the id finds
  0 in the handler, which leaves the new object behind and removes whatever has id 0. A
  receiver that found the semaphore then waits at 0 for ever. `CleansUp` and
  `ReceiversRead` (by `Orphaned`) say that nothing else leaves objects behind, or a receiver waiting.
* mychmod takes the empty string for mode 000 and ignores the umask when
  no class is given; a change by another run between `stat` and `chmod` is undone.
* lab3: with output to a file or pipe the line of line 51 is written by parent and
  child; a child that is sent SIGINT or SIGTERM is reported as having exited with 0.
* lab7: a refused second sender removes the first one's key file, after which a third
  gets a new key and runs beside the first (`stray`). receiver.c never receives: it
  is the sender again. A signal that falls between `shmget` and the store of its result
  leaves the segment behind (`AllGone` says that nothing else does).

## 6. Proofs

### CondRW_proofs

For every `READER_COUNT` and `MAX_OPERATIONS` in Nat, the only assumption:
`TypeCorrect`, `ExactCount`, `Exclusion`, `NoLostWakeup`, `JoinBeforeDestroy`,
`WriterNotOvertaken` and `ImplementsBoard`, that is all safety properties of the run
`CondRW`.

None of the invariants is inductive as it stands. `IInv` is the conjunction of

* `Kinds`: the types of what the other parts speak of;
* `Stages`, `Joined`: which threads exist and which have ended at each point of main;
  in particular a destroyed mutex means that there is no writer or no reader left;
* `Holding`: the mutex, as long as it exists, is held by the thread whose program
  counter says so;
* `Flags`: `writer_active` and `writer_waiting` are functions of `wpc`;
* `Counts`: `active_readers` is the number of counted readers, by a cardinality
  lemma for one reader that comes or goes;
* `Raced`: how far the count may be off once the mutex is gone;
* `Apart`: while the writer is inside the count is 0;
* `WaitersHaveWakers`, as it is;
* `Data`: counter, buffer and rounds agree with `wpc`.

There is one lemma per conjunct (`...Step`) with a step per action, then `InitIInv`, `StepIInv` and
`Invariance`; the theorems follow. `WriterNotOvertaken` is proved from `IInv` action by
action: only `ReaderEnter` raises the count, and its guard is false while the
writer waits. `ImplementsBoard` maps `WriterFormat` to `Publish`, `ReaderPrint` to `Look`
(`Apart` gives that the buffer is whole), and everything else to a stutter.

### MutexBoard_proofs, RwLockBoard_proofs, and ProdCons

For every number of readers and every bound on the writes (both in Nat, the only
assumptions): `MutexProtects` (`MutexInv`), `TotalIsRight` (`TotalIsFinal`) and
`ImplementsBoard` for lab8, `LockIsSound` (`LockInv`) and `ImplementsBoard` for lab10,
`ConsumerSeesNewest` (`NewestMessage`, in `Processes_proofs`) for lab9's threads. `MaxWrites` and `MaxMessages` stand
for when the sleep of main or the program is over, so being free of them means runs
of any length.

The argument is the one above without the counting. Who holds the lock is told by
the program counters (`Holding` of lab8, `LockOwners` and `Apart` of lab10, `Holds` of
lab9), which exclusion follows from; `Stages` and `Joined` say how far main
has come and whom it has joined; `Data` (`Buffer`) relates buffer, counters and
total to where the writer is. In lab8 they carry one thing that the code leaves to the
reader: after the failure of a creation main joins exactly the readers that exist,
since `created` is the last index for which a thread was made. In lab10 a cancelled reader
stays an owner for ever; that it never keeps the writer out is `Stages`: nobody ends before
the writer.

### Processes_proofs: FifoIPC

For every finite set of producers and of consumers, not both empty and without a
process in common, `Nothing` being no producer (`RunsAssumption`):
`MessagesShownOnce` (`FifoInv`) and `NameIsRemoved` (`NoLeftover`). The assumption
`FitsInOneRead` of the module is not used by the proofs; it tells for how many producers
the action `Read`, which takes all there is, is what one `read` does, and the theorems
speak of the program so far.

`ShownOnce` is not inductive: a message could be in a FIFO again after it was shown. `OnePlace`
says that it is in one place of one FIFO or shown by one consumer, and was written by a
producer that has left line 29. `NoLeftover` is harder, since the name is unlinked by whoever
comes to it and a process may leave without: a producer killed by SIGPIPE, a
consumer that read nothing. `Guarded` says that somebody is there who may still
unlink; to show that one who leaves without is not the last one, `ConsumersServed` says that a
consumer that is through `open` has a producer at the same FIFO or somebody who is about to
unlink, and `ProducersServed` the same of producers. `FewMade` and `NoDataYet` make
room in `Fifos` for every FIFO that is made, by counting the processes that have passed
`mkfifo`.

### ShmSem_proofs

For every finite set of senders and of receivers without a process in common, every
set of keys and every bound on the messages (`RunsAssumption`): `OneTokenAtMost`
(`TokenInv`), `NoHalfMessage` (`WholeMessages`) and `HandlersCleanUp` (`CleansUp`), with
signals and kills wherever the module has them, between a call and the store of its id as
well. The invariant `IInv` was also checked by TLC, for three senders, one receiver and two
keys (7 280 265 states up to symmetry).

* `FewIds`, `Unused`, `IdsGiven`, `NoIdsYet`: identifiers are given in order, each
  once, and there are enough of them: who has not called `shmget` (`semget`) yet still
  has one to get;
* `Holding`, `Token`: who is between the two `semop` calls holds the semaphore, unless
  it was removed; two do not hold one; it is 0 while held and while its maker stands before
  SETVAL, which is why setting it to 1 makes no second token;
* `Makers`, `Newer`: every sender has a segment and a semaphore of its own, of its key, and
  its semaphore is the newest of the key, as `semget` would have failed otherwise;
* `SegmentOfKey`, `SemaphoreOfKey`: what a receiver has found belongs to its key;
* `TornInv`: half a message lies in a segment only while its maker holds the token, or was
  stopped there and will never give it back. With `Token` this is
  `WholeMessages`;
* `Owed`: for every key file, segment and semaphore there is a sender that has not
  removed it yet, or that was signalled before it had stored the id and so never will; when all
  have ended by the handler nothing else is left.

### Processes_proofs: the others

**KeyedShm** (lab7), for every set of processes and every set of inodes without
`NoKey` (`InodesAssumption`), the set of processes being finite or not: `SendersApart`
(`OneUnlessStray`) and `NothingKept` (`AllGone`). `Keyed` says that everybody between `ftok` and
the removal has the key of the file that is there, as long as nobody's file was removed
under it, and that no two segments have one key; `Owned` who has which segment and
that somebody will remove the file.

**PipeIPC** (lab6): `ChildShowsMessage` (`MessageShown`). `PpInv` says that the parent
keeps its write end until it has written, and that what it wrote is in the pipe until
the child has read it; so `read` returns 0 only if the parent has died before.

**ForkWait** (lab3), which has no constants:
`ParentTellsTheTruth` (`ReportIsTrue`) and `NothingPrintedTwice` (`PrintedOnce`). `FwInv`
counts how often a line occurs in the two stdio buffers and on the screen together:
`FwSaid` says which line was said at which point of each process, `FwStarted` that the
line printed before `fork` is there once on a terminal and twice otherwise, and `FwEnds` how
each process came to its end: the child never dies of a signal but SIGKILL, since
both handlers were installed before `fork`. The lemmas `OccursFacts`, `SayAdds` and
`SayCounts` say what a line more in a buffer, or a buffer that is flushed, does to
the counts. That the program ends after finitely many steps is not used: the theorems
bound no run.

### Tools_proofs: ls

For every set of names with any rank for each (equal ranks are what `strcasecmp` takes
for equal), every set of directories that have no
name twice, and every initial capacity of at least one (`NamesAssumption`,
`DirectoriesAssumption`, `CapacityAssumption`): `FreedTwiceOnlyLate` (`FreedOnce`),
`NothingLeaks` (`NothingLeft`) and `ListingIsRight` (`Listing`). `LsInv`, checked by TLC
in 74 029 states, has one part for each stage: `Collecting` (the array holds what
`readdir` gave so far, each entry a block that is allocated), `Listed` (the blocks
that are allocated are those of the entries from `nxt` on), `Sorted` and
`Complete` (after `qsort` the array is in order and has what the directory has),
`PrintedSoFar` and `InOrder` (the listing is the entries before `nxt` that are not hidden),
`Winding`. `qsort` is any permutation that leaves the array in order, as in
the module.

### Tools_proofs: mycat and mygrep

For every set of characters, texts and patterns and every buffer of at least two
characters (`BufferAssumption`, `InputsAssumption`, the latter only types): `CatIsFaithful`
(`CatFaithful`) and `GrepIsFaithful` (`GrepFaithful`). Both compare the outcome of a loop with a
definition on the whole text. There is no induction in them but that of the invariant:
`TextInv`, checked by TLC in all states of the tools, says of each file what has been
shown when it was read up to a place `p`.

* `CatShows`: it is what `RefNoBlanks` picks from the text, but only the `Places` up to `p`; and if
  lines are cut, the characters shown are still those before `p`. `CatNumbers`: the
  counter is the `Rank` of the lines before `p`, without the blank ones under `-b`, plus 1.
* `GrepShows`: it is the matching lines that start at `p` or before, and each match shown
  is in the file and holds the pattern; `GrepNumbers` as above.
* `AtLine`: where all lines fit, `p` is between two lines, and so what `fgets` reads next is
  the line that starts there (`TidyChunk`).

A step then splits the places up to the new offset into the old ones and those of one line
(`LinePlaces`); `PickedConcat` says that a pick from two such sets is the one pick and then
the other, and `PickedMarked` that what is picked from the line is what
`handle_text_line` writes. `RankSame` and `RankOneMore` say when the number goes up. The theorem
about mycat is about files without zeros; its second half also about lines that fit and, with
`-E`, a last line that ends. Without `-b` it says that each file is shown as by cat; with `-b`, as
by cat but for the blank lines, which is less than lab1/README.md:1 asks for.

### Tools_proofs: mychmod

For every set of strings as specifications, any runs and any modes (`SpecsAssumption`,
`ModesAssumption`, which are types): `ModesAreAsAsked` (`AsAsked`). The invariant `ChInv` only
says which specifications are at which place; the work is in the two readings of
a string. Symbolic (`SymbolicForm`, `SymbolicBits`): the first character that is no class is
where `[ugoa]*[-+=][rwx]*` has its operator, there is only one such place, and the masks of
the code, bit by bit, are what the grammar says. Octal (`OctalRange`, `OctalBits`): `strtol`, a
recursive function, stays within 07777 just if all digits but the last four are zeros, and a bit
of its value is a bit of one digit. That it is 0 just for zeros is shown for all
prefixes of the string (`StrtolReads`) with `NumbersUpTo`, below.

### Archiver_proofs and Picks_proofs

For every set of names, every length of files and any number of commands:
`CommandsAreSafe` (`CommandInv`), `ArchiveStaysFormed` (`ArchiveFormat`) and
`ArchiveImplementsShelf` (`ShelfSpec`). Two assumptions: the bounds are in Nat, and `Careful`:
no call fails, and nothing is killed, between the header of a file and its last block (line
132 to line 168), the header of a file that stays is written (line 236, whose
result the program ignores), and the data in the archive can be read (lines 209 and 243, where an
error passes for the end). All other failures and kills of the module may happen;
the run `Archiver` has them, and the run `ArchiverOpenFails` shows what becomes of the format
without `Careful`. A header that cannot be read leaves the format alone. `NothingLost` says how
much of the archive is kept then, and `Shelf` loses files by it, of those behind a copy of the
name that is extracted; where headers can be read (`Faults` without "readHeader") `ReadsMayEnd` is
false and both say that none is lost.

`Picks` is the groundwork: `Rank` numbers a finite set of positions in order and `Nth` is its
inverse (by the pigeonhole principle of the library), so that one more position at the end
appends (`PickedMore`), and a pick of a pick is a pick (`PickedTwice`). Where something
has to be shown for one number after another, `NumbersUpTo` does it: a set with 0 in it, and
with each number whose predecessor is in it, has all of them, by `LeastNumber`, which
comes from the well-foundedness of the numbers and speaks of a set, not of a predicate. Archives are
then spoken of by what a prefix of their cells is: another whole entry keeps
the format and appends a file (`FormedMore`), what comes after does not matter
(`FormedSame`), and a header without all its data is not seen (`EntriesOf`).

The invariant `AInv` says, for each point of a command, how far it has come:

* `Kinds`, `Stages`: the types, which files exist, and that the size in the header is
  that of the file;
* `Format`: but for the two points of `add` after the header, the archive is whole entries;
* `Adding`: there it is whole entries, the header, and as many blocks of the
  file as were copied (`Partly`);
* `Extracting`: `temp_archive` has the cells read so far that are not of the name sought.
  Between two entries (`Between`) these are whole entries, the files of the others in
  their order (`TempHas`), and the disk has the last file of the name sought, if one was
  found (`LastCopy`). Within an entry that stays (`Keeping`) `temp_archive` is being added to
  as an archive is, so that `Partly` and its lemmas serve again; within one that is taken
  (`CopyingOut`) the disk has what was copied of it.

For the refinement only three actions change what the archive lists: the header of an
empty file or the last block of another one is `Put`, and the `rename` is `Take`, where
`PickedTwice` says that the files picked by the positions of their headers are the
ones `Shelf` picks from the list, and `RankUpTo` that the headers up to the place where reading
has stopped are the first ones of the list. Reading a block of data as a header (`EntriesAt`) is shown
never to happen, since a command that reads starts at `pos = 1` of an archive
that keeps the format.

### Only model-checked

Liveness (`WriterFinishes`, `ReadersGetIn`, `Terminates`, `SomeoneServed`,
`ReceiversRead`, `PairEnds`), which is out of the prover's reach here. That the code as it is
refutes the properties of section 5 is TLC's finding too.

## 7. Not modelled

Texts, times and process ids in messages; `sleep` as a duration (no property may
rely on it). In lab5 owners, modes and times, `-s` (it reads headers and skips
data), names that are cut off, short writes, a file that changes between `stat`
and `read`, and more than one command at a time: with either of the last two the
archive's format does not hold, and nothing in the program could notice. In lab8
failures of `pthread_join`, which only print; in lab9 a handler interrupted by the
other signal. In lab7 SIGKILL, the contents of the segment, and in the run a second
signal of the other kind (the module has both). In lab3 that `printf` in a handler
may meet a `printf` under way. In lab2 columns, colours and the long format, and
that `errno` may be set by other calls than `readdir` (line 219). In lab1 and lab4
unknown options and usage messages. demgrep.c has the text of a grammar after line 79, with
which it does not compile as committed; the module is of the program above it. lab5/Readme.md
names long options that `main` does not know (lines 31-60).
