--------------------------- MODULE Processes_proofs ---------------------------
(***************************************************************************)
(* Proofs about the programs whose processes and threads talk to each      *)
(* other through the system: KeyedShm, for every number of processes,      *)
(* inodes, signals and operations; PipeIPC; ProdCons for a run of any      *)
(* length; ForkWait; and FifoIPC for all sets of producers and consumers.  *)
(***************************************************************************)
EXTENDS KeyedShm, PipeIPC, ProdCons, ForkWait, FifoIPC, FiniteSetTheorems, SequenceTheorems, TLAPS

KsSpec == KsInit /\ [][KsNext]_ksVars
PpSpec == PpInit /\ [][PpNext]_ppVars
PcSpec == PcInit /\ [][PcNext]_pcVars
FwSpec == FwInit /\ [][FwNext]_fwVars

-----------------------------------------------------------------------------
(* lab7: a process that has got a key sees the file of that key until       *)
(* somebody strays; segments have different keys; a process that came past  *)
(* shmget has its segment, and knows it unless it was interrupted.          *)

KsKinds ==
    /\ ksPc \in [Procs -> {"start", "ftok", "shmget", "store", "attach", "write", "release", "rmid",
                           "exit", "giveUp", "gone"}]
    /\ keyFile \in Inodes \cup {NoKey}
    /\ key \in [Procs -> Inodes \cup {NoKey}]
    /\ DOMAIN segments \subseteq Procs
    /\ known \subseteq Procs
    /\ signals \in [Procs -> SUBSET ExitSignals]
    /\ stray \in BOOLEAN

HasKey == {p \in Procs : ksPc[p] \in {"shmget", "store", "attach", "write", "rmid"}}

Keyed ==
    /\ \A p \in HasKey : key[p] # NoKey /\ (~stray => keyFile = key[p])
    /\ \A p \in HasKey : ksPc[p] # "shmget" => p \in DOMAIN segments /\ segments[p] = key[p]
    /\ \A p, q \in DOMAIN segments : segments[p] = segments[q] => p = q

Owned ==
    /\ keyFile # NoKey => \E p \in Procs : ksPc[p] \notin {"start", "gone"}
    /\ \A p \in Procs :
        /\ ksPc[p] \in {"start", "ftok", "shmget"} => p \notin known /\ p \notin DOMAIN segments
        /\ ksPc[p] \in {"exit", "giveUp", "gone"} => p \notin known \cap DOMAIN segments
        /\ signals[p] = {} => /\ ksPc[p] \in {"attach", "write", "rmid", "release"} => p \in known
                              /\ p \in DOMAIN segments =>
                                   ksPc[p] \in {"store", "attach", "write", "rmid", "release"}

KsInv == KsKinds /\ Keyed /\ Owned

\* KsInv is inductive: MakeFile leaves a file that is there alone (lines 45-50), shmget
\* with IPC_EXCL takes no key twice (59-69), and release_resources takes what is known.
LEMMA KsStepInv == KsInv /\ [KsNext]_ksVars => KsInv'
  <1> SUFFICES ASSUME KsInv, [KsNext]_ksVars PROVE KsInv'
    OBVIOUS
  <1> USE InodesAssumption DEF KsInv, KsKinds, HasKey, Keyed, Owned, KsMoves
  <1>1. ASSUME NEW p \in Procs, MakeFile(p) PROVE KsInv'
    BY <1>1 DEF MakeFile
  <1>2. ASSUME NEW p \in Procs, Ftok(p) PROVE KsInv'
    BY <1>2 DEF Ftok
  <1>3. ASSUME NEW p \in Procs, Shmget(p) PROVE KsInv'
    BY <1>3 DEF Shmget, KeyTaken
  <1>4. ASSUME NEW p \in Procs, StoreId(p) PROVE KsInv'
    BY <1>4 DEF StoreId
  <1>5. ASSUME NEW p \in Procs, Attach(p) PROVE KsInv'
    BY <1>5 DEF Attach
  <1>6. ASSUME NEW p \in Procs, WriteText(p) PROVE KsInv'
    BY <1>6 DEF WriteText
  <1>7. ASSUME NEW p \in Procs, WriteLast(p) PROVE KsInv'
    BY <1>7 DEF WriteLast
  <1>8. ASSUME NEW p \in Procs, RemoveSegment(p) PROVE KsInv'
    BY <1>8 DEF RemoveSegment, Rmid
  <1>9. ASSUME NEW p \in Procs, RemoveFile(p) PROVE KsInv'
    <2>1. /\ ksPc[p] \in {"exit", "giveUp"} /\ ksPc' = [ksPc EXCEPT ![p] = "gone"] /\ keyFile' = NoKey
          /\ stray' = (stray \/ \E q \in Procs \ {p} : Relies(q))
          /\ UNCHANGED <<key, segments, known, signals>>
      BY <1>9 DEF RemoveFile
    <2>2. HasKey' = HasKey
      BY <2>1
    <2>3. ~stray' => ~stray /\ \A q \in HasKey : keyFile # key[q]
      BY <2>1 DEF Relies
    <2>4. KsKinds'
      BY <2>1
    <2>5. Keyed'
      BY <2>1, <2>2, <2>3
    <2>6. Owned'
      BY <2>1
    <2>7. QED
      BY <2>4, <2>5, <2>6
  <1>10. ASSUME NEW p \in Procs, NEW s \in ExitSignals, Interrupted(p, s) PROVE KsInv'
    BY <1>10 DEF Interrupted
  <1>11. CASE UNCHANGED ksVars
    BY <1>11 DEF ksVars
  <1>12. QED
    BY <1>1, <1>2, <1>3, <1>4, <1>5, <1>6, <1>7, <1>8, <1>9, <1>10, <1>11 DEF KsNext, KsStep

\* KsInv holds in every reachable state.
LEMMA KsInvariance == KsSpec => []KsInv
  <1>1. KsInit => KsInv
    BY DEF KsInit, KsInv, KsKinds, HasKey, Keyed, Owned
  <1>2. QED
    BY <1>1, KsStepInv, PTL DEF KsSpec

\* One sender at most works as long as no key file is removed under another one, and
\* no two ever work on one segment, whatever becomes of the files.
THEOREM SendersApart == KsSpec => []OneUnlessStray
  <1>1. ASSUME KsInv PROVE OneUnlessStray
    <2> USE <1>1 DEF KsInv, Keyed, HasKey
    <2>1. ASSUME ~stray PROVE Cardinality(Working) <= 1
      <3>1. \A p, q \in Working : p = q
        BY <2>1 DEF Working
      <3>2. CASE Working = {}
        BY <3>2, FS_EmptySet
      <3>3. CASE Working # {}
        <4>1. PICK p : Working = {p}
          BY <3>1, <3>3
        <4>2. QED
          BY <4>1, FS_Singleton
      <3>4. QED
        BY <3>2, <3>3
    <2>2. QED
      BY <2>1 DEF OneUnlessStray, Working
  <1>2. QED
    BY <1>1, KsInvariance, PTL

\* When all have ended, the file and all segments are gone, but for one whose id its
\* maker was not given the time to store in shared_memory_id (line 59).
THEOREM NothingKept == KsSpec => []AllGone
  <1>1. KsInv => AllGone
    BY DEF KsInv, KsKinds, Owned, AllGone
  <1>2. QED
    BY <1>1, KsInvariance, PTL

-----------------------------------------------------------------------------
(* lab6, the pipe: the parent has its write end until line 38, and what it  *)
(* wrote is in the pipe until the child reads it.                           *)

ParentPC == {"none", "closeRead", "write", "closeWrite", "wait", "ended"}
ChildPC  == {"none", "closeWrite", "read", "close", "ended"}

PpInv ==
    /\ ppPc \in [Pair -> ParentPC \cup ChildPC]
    /\ ppPc["parent"] \in ParentPC /\ ppPc["child"] \in ChildPC
    /\ ppPc["parent"] = "none" => ppPc["child"] = "none"
    /\ ppPc["parent"] \in {"closeRead", "write", "closeWrite"} => <<"parent", "write">> \in fds
    /\ inPipe \in BOOLEAN /\ wrote \in BOOLEAN
    /\ ppPc["parent"] \in {"none", "closeRead", "write"} => ~wrote
    /\ ppPc["parent"] \in {"closeWrite", "wait"} => wrote
    /\ inPipe => wrote
    /\ wrote => inPipe \/ ppPc["child"] \in {"close", "ended"}
    /\ MessageShown

\* PpInv is inductive.
LEMMA PpStepInv == PpInv /\ [PpNext]_ppVars => PpInv'
  <1> SUFFICES ASSUME PpInv, [PpNext]_ppVars PROVE PpInv'
    OBVIOUS
  <1> USE DEF PpInv, ParentPC, ChildPC, Pair, MessageShown, PpMoves
  <1>1. CASE PpStart
    BY <1>1 DEF PpStart, PipeEnds
  <1>2. CASE ParentClosesRead
    BY <1>2 DEF ParentClosesRead
  <1>3. CASE ParentWrites
    BY <1>3 DEF ParentWrites, Leave, PipeEnds
  <1>4. CASE ParentClosesWrite
    BY <1>4 DEF ParentClosesWrite
  <1>5. CASE ParentWaits
    BY <1>5 DEF ParentWaits, Leave, PipeEnds
  <1>6. CASE ChildClosesWrite
    BY <1>6 DEF ChildClosesWrite, ChildCloses
  <1>7. CASE ChildReads
    BY <1>7 DEF ChildReads, ReadReturns, EndOpen
  <1>8. CASE ChildLeaves
    BY <1>8 DEF ChildLeaves, Leave, PipeEnds
  <1>9. ASSUME NEW p \in Pair, PpKilled(p) PROVE PpInv'
    BY <1>9 DEF PpKilled, Leave, PipeEnds
  <1>10. CASE UNCHANGED ppVars
    BY <1>10 DEF ppVars
  <1>11. QED
    BY <1>1, <1>2, <1>3, <1>4, <1>5, <1>6, <1>7, <1>8, <1>9, <1>10 DEF PpNext, PpStep

\* What the child prints is the message, or garbage if the parent died before line 34.
THEOREM ChildShowsMessage == PpSpec => []MessageShown
  <1>1. PpInit => PpInv
    BY DEF PpInit, PpInv, ParentPC, ChildPC, Pair, MessageShown
  <1>2. PpInv => MessageShown
    BY DEF PpInv
  <1>3. QED
    BY <1>1, <1>2, PpStepInv, PTL DEF PpSpec

-----------------------------------------------------------------------------
(* lab9, the threads: the one in the buffer holds the mutex, which has one   *)
(* holder, and the buffer is torn exactly while snprintf is in it.           *)

PcKinds ==
    /\ pcPc \in [Threads -> {"none", "createProducer", "createConsumer", "join",
                             "lock", "use", "format", "unlock", "ended"}]
    /\ message_count \in Nat

Holds ==
    /\ \A t \in {"producer", "consumer"} :
        pcPc[t] \in {"use", "format", "unlock"} => holder = t
    /\ pcPc["main"] \in {"none", "createProducer"} => pcPc["producer"] = "none"
    /\ pcPc["main"] \in {"none", "createProducer", "createConsumer"} =>
        pcPc["consumer"] = "none"
    /\ pcPc["producer"] = "ended" => pcPc["consumer"] = "ended"
    /\ pcPc["consumer"] # "format" /\ pcPc["main"] \notin {"lock", "use", "format", "unlock"}

Buffer ==
    /\ pcPc["producer"] = "use" => message_count < MaxMessages
    /\ pcPc["producer"] = "format" => message_count - 1 < MaxMessages
    /\ pcPc["producer"] = "format" => data_buffer = Torn
    /\ \/ data_buffer = message_count
       \/ data_buffer = Torn /\ pcPc["producer"] \in {"format", "ended"}

PcInv == PcKinds /\ Holds /\ Buffer

\* Lines 21, 32, 46 and 62 keep the buffer to one thread at a time, and the count
\* of line 48 is that of the message in it.
LEMMA PcStep == PcInv /\ [PcNext]_pcVars => PcInv'
  <1> SUFFICES ASSUME PcInv, [PcNext]_pcVars PROVE PcInv'
    OBVIOUS
  <1> USE MessagesAssumption DEF PcInv, PcKinds, Holds, Buffer, Threads, Torn, PcMoves
  <1>1. CASE PcMain
    BY <1>1 DEF PcMain
  <1>2. CASE Produce
    BY <1>2 DEF Produce
  <1>3. CASE Formatted
    BY <1>3 DEF Formatted
  <1>4. CASE Consume
    BY <1>4 DEF Consume
  <1>5. ASSUME NEW t \in {"producer", "consumer"}, Lock(t) \/ Unlock(t) PROVE PcInv'
    BY <1>5 DEF Lock, Unlock, NobodyHolds
  <1>6. CASE UNCHANGED pcVars
    BY <1>6 DEF pcVars
  <1>7. QED
    BY <1>1, <1>2, <1>3, <1>4, <1>5, <1>6 DEF PcNext

\* PcInv holds in every reachable state.
LEMMA PcInvariance == PcSpec => []PcInv
  <1>1. PcInit => PcInv
    BY DEF PcInit, PcInv, PcKinds, Holds, Buffer, Threads
  <1>2. QED
    BY <1>1, PcStep, PTL DEF PcSpec

\* The mutex makes the buffer a board with one reader: what line 29 prints is always
\* the whole message the producer wrote last.
THEOREM ConsumerSeesNewest == PcSpec => NewestMessage
  <1>1. PcInit => Messages!BoardInit
    BY DEF PcInit, Torn, Messages!BoardInit
  <1>2. PcInv /\ [PcNext]_pcVars => [Messages!BoardNext]_(Messages!boardVars)
    <2> SUFFICES ASSUME PcInv, [PcNext]_pcVars
                 PROVE Messages!BoardNext \/ UNCHANGED Messages!boardVars
      OBVIOUS
    <2> USE DEF Messages!boardVars, PcInv, PcKinds, Buffer, Torn
    <2>1. CASE PcMain
      BY <2>1 DEF PcMain
    <2>2. CASE Produce
      BY <2>2 DEF Produce, PcMoves
    <2>3. CASE Formatted
      <3>1. Messages!Publish
        BY <2>3 DEF Formatted, PcMoves, Messages!Publish
      <3>2. QED
        BY <3>1 DEF Messages!BoardNext
    <2>4. CASE Consume
      <3>1. pcPc["producer"] \notin {"format", "ended"}
        BY <2>4 DEF Consume, PcMoves, Holds
      <3>2. data_buffer # Torn
        BY <3>1
      <3>3. Messages!Look("consumer")
        BY <2>4, <3>2 DEF Consume, Messages!Look
      <3>4. QED
        BY <3>3 DEF Messages!BoardNext
    <2>5. ASSUME NEW t \in {"producer", "consumer"}, Lock(t) \/ Unlock(t)
          PROVE UNCHANGED Messages!boardVars
      BY <2>5 DEF Lock, Unlock
    <2>6. CASE UNCHANGED pcVars
      BY <2>6 DEF pcVars
    <2>7. QED
      BY <2>1, <2>2, <2>3, <2>4, <2>5, <2>6 DEF PcNext
  <1>3. QED
    BY <1>1, <1>2, PcInvariance, PTL DEF PcSpec, NewestMessage, Messages!BoardSpec

-----------------------------------------------------------------------------
(* lab3: a line that a process printed is on the screen or in the process's *)
(* buffer, once; but for the line that was in the buffer when it was copied. *)

Texts == {"running", "completed", "exit"} \cup Signals
Lines == {LineOf(p, t) : p \in Family, t \in Texts \cup {"started"}}

Occurs(seq, line) == Cardinality({k \in DOMAIN seq : seq[k] = line})

Total(p, t) == Occurs(screen, LineOf(p, t)) + Occurs(stdoutBuf[p], LineOf(p, t))

Endings == {Alive} \cup {"exit"} \X Nat \cup {"signal"} \X (Signals \cup {"SIGKILL"})

FwKinds ==
    /\ fwPc \in [Family -> {"none", "atexit", "signal", "sigaction", "fork", "wait", "run", "sleep",
                            "exiting", "flush", "ended"}]
    /\ fwPc["parent"] \notin {"run", "sleep"}
    /\ fwPc["child"] \in {"none", "run", "sleep", "exiting", "flush", "ended"}
    /\ registered \in BOOLEAN /\ tty \in BOOLEAN
    /\ caught \subseteq Signals /\ blocked \in [Family -> SUBSET Signals]
    /\ stdoutBuf \in [Family -> Seq(Lines)] /\ screen \in Seq(Lines)
    /\ fwCode \in [Family -> Nat] /\ ends \in [Family -> Endings]
    /\ \A p \in Family : tty \/ fwPc[p] = "none" => stdoutBuf[p] = <<>>

BeforeFork == {"none", "atexit", "signal", "sigaction", "fork"}

\* How the processes end, and what wait returns.
FwEnds ==
    /\ fwPc["parent"] \in BeforeFork => fwPc["child"] = "none"
    /\ fwPc["child"] # "none" => registered /\ caught = Signals
    /\ fwPc["parent"] = "fork" => registered /\ caught = Signals
    /\ fwPc["parent"] = "sigaction" => registered /\ "SIGINT" \in caught
    /\ fwPc["parent"] = "signal" => registered
    /\ \A p \in Family :
        /\ fwPc[p] \notin {"exiting", "flush", "ended"} => blocked[p] = {}
        /\ fwPc[p] # "ended" => ends[p] = Alive
        /\ ends[p][1] = "exit" => ends[p] = <<"exit", fwCode[p]>> /\ stdoutBuf[p] = <<>>
    /\ ends["child"][1] = "signal" => ends["child"][2] = "SIGKILL"
    /\ report # Alive => report = ends["child"]

\* Who said what.
FwSaid ==
    /\ \A p, q \in Family, t \in Texts : p # q => Occurs(stdoutBuf[q], LineOf(p, t)) = 0
    /\ \A p \in Family :
        /\ \A t \in Texts : Total(p, t) <= 1
        /\ \A s \in Signals : Total(p, s) = IF s \in blocked[p] THEN 1 ELSE 0
        /\ fwPc[p] \notin {"flush", "ended"} => Total(p, "exit") = 0
        /\ registered /\ (fwPc[p] = "flush" \/ ends[p][1] = "exit") => Total(p, "exit") = 1
    /\ fwPc["child"] \in {"none", "run"} => Total("child", "running") = 0
    /\ fwPc["child"] \in {"none", "run", "sleep"} => Total("child", "completed") = 0
    /\ fwCode["child"] = 42 => Total("child", "completed") = 1
    /\ Total("parent", "running") = 0
    /\ fwPc["parent"] \in BeforeFork \cup {"wait"} => Total("parent", "completed") = 0

\* The line printed before fork.
FwStarted ==
    LET Started(seq) == Occurs(seq, LineOf("parent", "started")) IN
    /\ fwPc["parent"] \in BeforeFork \ {"fork"} => Started(screen) = 0 /\ Started(stdoutBuf["parent"]) = 0
    /\ fwPc["parent"] = "fork" /\ ~tty => Started(screen) = 0 /\ Started(stdoutBuf["parent"]) = 1
    /\ tty \/ fwPc["child"] = "none" => Started(screen) + Started(stdoutBuf["parent"]) <= 1
    /\ ~tty /\ fwPc["child"] # "none" =>
          Started(screen) + Started(stdoutBuf["parent"]) + Started(stdoutBuf["child"]) = 2

FwInv == FwKinds /\ FwEnds /\ FwSaid /\ FwStarted

\* Lines are told apart by who printed them and by their text.
LEMMA LineFacts ==
  /\ \A p, q, t, u : LineOf(p, t) = LineOf(q, u) <=> p = q /\ t = u
  /\ \A p \in Family, t \in Texts \cup {"started"} : LineOf(p, t) \in Lines
  BY DEF LineOf, Lines

\* How often a line occurs in what printf, fork and the flush at exit make of a text.
LEMMA OccursFacts ==
  ASSUME NEW line
  PROVE  /\ Occurs(<<>>, line) = 0
         /\ \A seq \in Seq(Lines) : Occurs(seq, line) \in Nat
         /\ \A seq \in Seq(Lines), l \in Lines :
              Occurs(Append(seq, l), line) = IF l = line THEN Occurs(seq, line) + 1 ELSE Occurs(seq, line)
         /\ \A seq, more \in Seq(Lines) : Occurs(seq \o more, line) = Occurs(seq, line) + Occurs(more, line)
  <1> DEFINE At(seq) == {k \in 1..Len(seq) : seq[k] = line}
  <1>1. ASSUME NEW seq \in Seq(Lines) PROVE Occurs(seq, line) = Cardinality(At(seq))
    <2>1. DOMAIN seq = 1..Len(seq)
      OBVIOUS
    <2>2. {k \in DOMAIN seq : seq[k] = line} = At(seq)
      BY <2>1
    <2>3. QED
      BY <2>2 DEF Occurs
  <1>2. Occurs(<<>>, line) = 0
    <2>1. {k \in DOMAIN <<>> : <<>>[k] = line} = {}
      OBVIOUS
    <2>2. QED
      BY <2>1, FS_EmptySet DEF Occurs
  <1>3. ASSUME NEW seq \in Seq(Lines) PROVE IsFiniteSet(At(seq)) /\ Cardinality(At(seq)) \in Nat
    <2>1. Len(seq) \in Int /\ At(seq) \in SUBSET (1..Len(seq))
      OBVIOUS
    <2>2. IsFiniteSet(At(seq))
      BY <2>1, FS_Interval, FS_Subset
    <2>3. QED
      BY <2>2, FS_CardinalityType
  <1>4. ASSUME NEW seq \in Seq(Lines), NEW l \in Lines
        PROVE  Occurs(Append(seq, l), line) = IF l = line THEN Occurs(seq, line) + 1 ELSE Occurs(seq, line)
    <2>1. At(Append(seq, l)) = IF l = line THEN At(seq) \cup {Len(seq) + 1} ELSE At(seq)
      OBVIOUS
    <2>2. Len(seq) + 1 \notin At(seq)
      OBVIOUS
    <2>3. Cardinality(At(seq) \cup {Len(seq) + 1}) = Cardinality(At(seq)) + 1
      BY <1>3, <2>2, FS_AddElement
    <2>4. Append(seq, l) \in Seq(Lines)
      OBVIOUS
    <2> HIDE DEF At
    <2>5. QED
      BY <1>1, <2>1, <2>3, <2>4
  <1>5. ASSUME NEW seq \in Seq(Lines), NEW more \in Seq(Lines)
        PROVE  Occurs(seq \o more, line) = Occurs(seq, line) + Occurs(more, line)
    <2> DEFINE n == Len(seq)
               moved == {n + k : k \in At(more)}
               f == [k \in At(more) |-> n + k]
    <2>1. n \in Nat /\ seq \o more \in Seq(Lines)
      OBVIOUS
    <2>2. At(seq \o more) = At(seq) \cup moved
      <3>1. /\ Len(seq \o more) = n + Len(more) /\ Len(more) \in Nat
            /\ \A k \in 1..n : (seq \o more)[k] = seq[k]
            /\ \A k \in 1..Len(more) : (seq \o more)[n + k] = more[k]
        OBVIOUS
      <3>2. ASSUME NEW k \in At(seq \o more) PROVE k \in At(seq) \cup moved
        <4>1. CASE k <= n
          BY <2>1, <3>1, <4>1
        <4>2. CASE k > n
          <5>1. k - n \in 1..Len(more) /\ k = n + (k - n)
            BY <2>1, <3>1, <4>2
          <5>2. more[k - n] = line
            BY <3>1, <5>1
          <5>3. QED
            BY <5>1, <5>2
        <4>3. QED
          BY <2>1, <4>1, <4>2
      <3>3. ASSUME NEW k \in At(seq) PROVE k \in At(seq \o more)
        BY <2>1, <3>1
      <3>4. ASSUME NEW k \in At(more) PROVE n + k \in At(seq \o more)
        BY <2>1, <3>1
      <3>5. QED
        BY <3>2, <3>3, <3>4
    <2>3. IsFiniteSet(moved) /\ Cardinality(moved) = Cardinality(At(more))
      <3>1. f \in Bijection(At(more), moved)
        <4>1. \A j, k \in At(more) : n + j = n + k => j = k
          BY <2>1
        <4>2. QED
          BY <4>1 DEF Bijection, Injection, Surjection, IsInjective
      <3>2. IsFiniteSet(At(more)) /\ ExistsBijection(At(more), moved)
        BY <1>3, <3>1 DEF ExistsBijection
      <3>3. QED
        BY <3>2, FS_Bijection
    <2>4. At(seq) \cap moved = {}
      BY <2>1
    <2>5. Cardinality(At(seq) \cup moved) = Cardinality(At(seq)) + Cardinality(moved)
      <3>1. IsFiniteSet(At(seq)) /\ Cardinality(At(seq)) \in Nat /\ Cardinality(moved) \in Nat
        BY <1>3, <2>3
      <3> HIDE DEF At, moved
      <3>2. Cardinality(At(seq) \cap moved) = 0
        BY <2>4, FS_EmptySet
      <3>3. Cardinality(At(seq) \cup moved)
              = Cardinality(At(seq)) + Cardinality(moved) - Cardinality(At(seq) \cap moved)
        BY <2>3, <3>1, FS_Union
      <3>4. QED
        BY <3>1, <3>2, <3>3
    <2> HIDE DEF At, moved
    <2>6. QED
      BY <1>1, <2>1, <2>2, <2>3, <2>5
  <1> HIDE DEF At
  <1>6. QED
    BY <1>1, <1>2, <1>3, <1>4, <1>5

\* The numbers that FwSaid and FwStarted are about.
LEMMA OccursNat ==
  ASSUME FwKinds
  PROVE  \A l : Occurs(screen, l) \in Nat /\ \A p \in Family : Occurs(stdoutBuf[p], l) \in Nat
  BY OccursFacts DEF FwKinds

\* printf adds one line, to the screen or to the buffer of the process.
LEMMA SayAdds ==
  ASSUME FwKinds, NEW p \in Family, NEW t \in Texts \cup {"started"}, Say(p, t), tty' = tty
  PROVE  /\ stdoutBuf' \in [Family -> Seq(Lines)] /\ screen' \in Seq(Lines)
         /\ \A q \in Family : q # p \/ tty => stdoutBuf'[q] = stdoutBuf[q]
         /\ ~tty => screen' = screen
         /\ \A l : l # LineOf(p, t) => /\ Occurs(screen', l) = Occurs(screen, l)
                                     /\ Occurs(stdoutBuf'[p], l) = Occurs(stdoutBuf[p], l)
         /\ tty => Occurs(screen', LineOf(p, t)) = Occurs(screen, LineOf(p, t)) + 1
         /\ ~tty => Occurs(stdoutBuf'[p], LineOf(p, t)) = Occurs(stdoutBuf[p], LineOf(p, t)) + 1
  <1>1. LineOf(p, t) \in Lines /\ screen \in Seq(Lines) /\ stdoutBuf \in [Family -> Seq(Lines)] /\ tty \in BOOLEAN
    BY LineFacts DEF FwKinds
  <1>2. CASE tty
    <2>1. screen' = Append(screen, LineOf(p, t)) /\ stdoutBuf' = stdoutBuf
      BY <1>2 DEF Say
    <2>2. screen' \in Seq(Lines)
      BY <1>1, <2>1
    <2>3. \A l : Occurs(screen', l) = IF LineOf(p, t) = l THEN Occurs(screen, l) + 1 ELSE Occurs(screen, l)
      BY <1>1, <2>1, OccursFacts
    <2>4. QED
      BY <1>1, <1>2, <2>1, <2>2, <2>3
  <1>3. CASE ~tty
    <2>1. screen' = screen /\ stdoutBuf' = [stdoutBuf EXCEPT ![p] = Append(@, LineOf(p, t))]
      BY <1>3 DEF Say
    <2>2. stdoutBuf[p] \in Seq(Lines) /\ stdoutBuf'[p] = Append(stdoutBuf[p], LineOf(p, t))
      BY <1>1, <2>1
    <2>3. stdoutBuf' \in [Family -> Seq(Lines)] /\ \A q \in Family : q # p => stdoutBuf'[q] = stdoutBuf[q]
      BY <1>1, <2>1, <2>2
    <2>4. \A l : Occurs(stdoutBuf'[p], l) =
                   IF LineOf(p, t) = l THEN Occurs(stdoutBuf[p], l) + 1 ELSE Occurs(stdoutBuf[p], l)
      <3>1. \A l, seq : seq \in Seq(Lines) => Occurs(Append(seq, LineOf(p, t)), l) =
                          IF LineOf(p, t) = l THEN Occurs(seq, l) + 1 ELSE Occurs(seq, l)
        BY <1>1, OccursFacts
      <3>2. QED
        BY <2>2, <3>1
    <2>5. QED
      BY <1>1, <1>3, <2>1, <2>3, <2>4
  <1>4. QED
    BY <1>1, <1>2, <1>3

\* So it counts for the one who printed it, once.
LEMMA SayCounts ==
  ASSUME FwKinds, NEW p \in Family, NEW t \in Texts, Say(p, t), tty' = tty
  PROVE  /\ \A q \in Family, u \in Texts : q # p \/ u # t => Total(q, u)' = Total(q, u)
         /\ Total(p, t)' = Total(p, t) + 1
         /\ \A q, r \in Family, u \in Texts :
              q # r => Occurs(stdoutBuf'[r], LineOf(q, u)) = Occurs(stdoutBuf[r], LineOf(q, u))
         /\ LET l == LineOf("parent", "started") IN
              /\ Occurs(screen', l) = Occurs(screen, l)
              /\ \A q \in Family : Occurs(stdoutBuf'[q], l) = Occurs(stdoutBuf[q], l)
  <1>1. /\ \A q \in Family : q # p \/ tty => stdoutBuf'[q] = stdoutBuf[q]
        /\ ~tty => screen' = screen
        /\ \A l : l # LineOf(p, t) => /\ Occurs(screen', l) = Occurs(screen, l)
                                    /\ Occurs(stdoutBuf'[p], l) = Occurs(stdoutBuf[p], l)
        /\ tty => Occurs(screen', LineOf(p, t)) = Occurs(screen, LineOf(p, t)) + 1
        /\ ~tty => Occurs(stdoutBuf'[p], LineOf(p, t)) = Occurs(stdoutBuf[p], LineOf(p, t)) + 1
    <2>1. t \in Texts \cup {"started"}
      OBVIOUS
    <2>2. QED
      BY <2>1, SayAdds
  <1>2. \A l : Occurs(screen, l) \in Nat /\ \A q \in Family : Occurs(stdoutBuf[q], l) \in Nat
    BY OccursNat
  <1>3. ASSUME NEW q \in Family, NEW l, l # LineOf(p, t)
        PROVE  Occurs(screen', l) = Occurs(screen, l) /\ Occurs(stdoutBuf'[q], l) = Occurs(stdoutBuf[q], l)
    BY <1>1, <1>3
  <1>4. \A q \in Family, u \in Texts : q # p \/ u # t => Total(q, u)' = Total(q, u)
    <2>1. \A q \in Family, u \in Texts : q # p \/ u # t => LineOf(q, u) # LineOf(p, t)
      BY LineFacts
    <2>2. QED
      BY <1>3, <2>1 DEF Total
  <1>5. Total(p, t)' = Total(p, t) + 1
    <2>1. CASE tty
      BY <1>1, <1>2, <2>1 DEF Total
    <2>2. CASE ~tty
      BY <1>1, <1>2, <2>2 DEF Total
    <2>3. QED
      BY <2>1, <2>2
  <1>6. ASSUME NEW q \in Family, NEW r \in Family, NEW u \in Texts, q # r
        PROVE  Occurs(stdoutBuf'[r], LineOf(q, u)) = Occurs(stdoutBuf[r], LineOf(q, u))
    <2>1. r = p => LineOf(q, u) # LineOf(p, t)
      BY <1>6, LineFacts
    <2>2. QED
      BY <1>1, <1>3, <2>1
  <1>7. LineOf("parent", "started") # LineOf(p, t)
    <2>1. t # "started"
      BY DEF Texts, Signals
    <2>2. QED
      BY <2>1, LineFacts
  <1>8. QED
    BY <1>3, <1>4, <1>5, <1>6, <1>7

\* Where nothing is printed, FwSaid and FwStarted depend on where the processes are.
LEMMA Silent ==
  ASSUME stdoutBuf' = stdoutBuf, screen' = screen
  PROVE  \A p, t : Total(p, t)' = Total(p, t)
  BY DEF Total

-----------------------------------------------------------------------------
(* The steps of ForkWait *)

LEMMA FwStartStep == FwInv /\ FwStart => FwInv'
  <1> SUFFICES ASSUME FwInv, FwStart PROVE FwInv'
    OBVIOUS
  <1>0. \A p, t : Total(p, t)' = Total(p, t)
    BY Silent DEF FwStart
  <1> USE DEF FwInv, FwStart, FwGo, Family, BeforeFork
  <1>1. FwKinds'
    BY DEF FwKinds, FwEnds
  <1>2. FwEnds'
    BY DEF FwEnds, FwKinds
  <1>3. FwSaid'
    BY <1>0 DEF FwSaid, FwKinds, FwEnds
  <1>4. FwStarted'
    BY DEF FwStarted, FwKinds, FwEnds
  <1>5. QED
    BY <1>1, <1>2, <1>3, <1>4

LEMMA SetUpStep == FwInv /\ SetUp => FwInv'
  <1> SUFFICES ASSUME FwInv, SetUp PROVE FwInv'
    OBVIOUS
  <1> USE DEF FwInv, BeforeFork
  <1>1. UNCHANGED <<blocked, tty, ends, report>>
    BY DEF SetUp
  <1>2. ASSUME NEW l \in {"signal", "sigaction", "exiting"},
               screen' = screen, stdoutBuf' = stdoutBuf, fwPc["parent"] \in BeforeFork \ {"none"},
               fwPc' = [fwPc EXCEPT !["parent"] = l], l # "exiting" => fwPc["parent"] # "fork",
               fwCode' \in [Family -> Nat], fwCode'["child"] = fwCode["child"],
               caught \subseteq caught', caught' \subseteq Signals, registered' \in BOOLEAN,
               l = "signal" => registered',
               l = "sigaction" => registered' /\ "SIGINT" \in caught',
               registered => registered'
        PROVE  FwInv'
    <2>0. \A p, t : Total(p, t)' = Total(p, t)
      BY <1>2, Silent
    <2>1. /\ fwPc["child"] = "none" /\ fwPc'["child"] = "none" /\ fwPc'["parent"] = l
          /\ ends["parent"] = Alive /\ ends["child"] = Alive
      BY <1>2 DEF FwEnds, FwKinds, Family
    <2>2. FwKinds'
      BY <1>1, <1>2 DEF FwKinds, Family
    <2>3. FwEnds'
      BY <1>1, <1>2, <2>1 DEF FwEnds, FwKinds, Family, Alive
    <2>4. FwSaid'
      BY <1>1, <1>2, <2>0, <2>1 DEF FwSaid, Family, Alive
    <2>5. FwStarted'
      BY <1>1, <1>2, <2>1 DEF FwStarted
    <2>6. QED
      BY <2>2, <2>3, <2>4, <2>5
  <1>3. CASE /\ fwPc["parent"] = "sigaction" /\ FwGo("parent", "fork")
             /\ caught' = caught \cup {"SIGTERM"}
             /\ Say("parent", "started")
             /\ UNCHANGED <<registered, fwCode>>
    <2>1. /\ fwPc["child"] = "none" /\ fwPc'["child"] = "none" /\ fwPc'["parent"] = "fork"
          /\ ends["parent"] = Alive /\ ends["child"] = Alive
      BY <1>3 DEF FwEnds, FwKinds, Family, FwGo
    <2>2. /\ stdoutBuf' \in [Family -> Seq(Lines)] /\ screen' \in Seq(Lines)
          /\ \A q \in Family : q # "parent" \/ tty => stdoutBuf'[q] = stdoutBuf[q]
          /\ ~tty => screen' = screen
          /\ \A l : l # LineOf("parent", "started") =>
                /\ Occurs(screen', l) = Occurs(screen, l)
                /\ Occurs(stdoutBuf'["parent"], l) = Occurs(stdoutBuf["parent"], l)
          /\ tty => Occurs(screen', LineOf("parent", "started")) = Occurs(screen, LineOf("parent", "started")) + 1
          /\ ~tty => Occurs(stdoutBuf'["parent"], LineOf("parent", "started"))
                       = Occurs(stdoutBuf["parent"], LineOf("parent", "started")) + 1
      BY <1>1, <1>3, SayAdds DEF Family
    <2>3. \A p \in Family, t \in Texts : LineOf(p, t) # LineOf("parent", "started")
      BY LineFacts DEF Texts, Signals
    <2>4. \A p, q \in Family, t \in Texts : /\ Occurs(screen', LineOf(p, t)) = Occurs(screen, LineOf(p, t))
                                           /\ Occurs(stdoutBuf'[q], LineOf(p, t)) = Occurs(stdoutBuf[q], LineOf(p, t))
      BY <2>2, <2>3 DEF Family
    <2>5. \A p \in Family, t \in Texts : Total(p, t)' = Total(p, t)
      BY <2>4 DEF Total
    <2>6. FwKinds'
      BY <1>1, <1>3, <2>1, <2>2 DEF FwKinds, FwGo, Family, Signals
    <2>7. FwEnds'
      <3>1. caught' = Signals /\ registered'
        BY <1>3 DEF FwKinds, FwEnds, Signals
      <3>2. \A p \in Family : ends[p] = Alive
        BY <2>1 DEF Family
      <3>3. QED
        BY <1>1, <1>3, <2>1, <3>1, <3>2 DEF FwEnds, FwKinds, FwGo, Family, Alive
    <2>8. FwSaid'
      BY <1>1, <1>3, <2>1, <2>4, <2>5 DEF FwSaid, Family, Texts, Signals, Alive
    <2>9. FwStarted'
      <3> DEFINE l == LineOf("parent", "started")
      <3>1. Occurs(screen, l) = 0 /\ Occurs(stdoutBuf["parent"], l) = 0
        BY <1>3 DEF FwStarted
      <3>2. CASE tty
        <4>1. Occurs(screen', l) = 1 /\ Occurs(stdoutBuf'["parent"], l) = 0
          BY <2>2, <3>1, <3>2 DEF Family
        <4>2. QED
          BY <1>1, <2>1, <3>2, <4>1 DEF FwStarted
      <3>3. CASE ~tty
        <4>1. Occurs(screen', l) = 0 /\ Occurs(stdoutBuf'["parent"], l) = 1
          BY <2>2, <3>1, <3>3
        <4>2. QED
          BY <1>1, <2>1, <3>3, <4>1 DEF FwStarted
      <3>4. QED
        BY <3>2, <3>3
    <2>10. QED
      BY <2>6, <2>7, <2>8, <2>9
  <1>4. CASE \/ /\ fwPc["parent"] = "atexit" /\ FwGo("parent", "signal")
                /\ registered' = TRUE
                /\ UNCHANGED <<caught, screen, stdoutBuf, fwCode>>
             \/ /\ fwPc["parent"] = "signal" /\ FwGo("parent", "sigaction")
                /\ caught' = caught \cup {"SIGINT"}
                /\ UNCHANGED <<registered, screen, stdoutBuf, fwCode>>
             \/ /\ fwPc["parent"] \in {"atexit", "signal", "sigaction", "fork"} /\ ExitWith("parent", 1)
                /\ UNCHANGED <<registered, caught, screen, stdoutBuf>>
    <2>1. caught \subseteq Signals /\ registered \in BOOLEAN /\ (fwPc["parent"] = "signal" => registered)
      BY DEF FwKinds, FwEnds
    <2>2. fwCode \in [Family -> Nat] /\ "child" # "parent"
      BY DEF FwKinds
    <2>3. CASE /\ fwPc["parent"] = "atexit" /\ FwGo("parent", "signal")
               /\ registered' = TRUE
               /\ UNCHANGED <<caught, screen, stdoutBuf, fwCode>>
      BY <1>2, <2>1, <2>2, <2>3 DEF FwGo
    <2>4. CASE /\ fwPc["parent"] = "signal" /\ FwGo("parent", "sigaction")
               /\ caught' = caught \cup {"SIGINT"}
               /\ UNCHANGED <<registered, screen, stdoutBuf, fwCode>>
      BY <1>2, <2>1, <2>2, <2>4 DEF FwGo, Signals
    <2>5. CASE /\ fwPc["parent"] \in {"atexit", "signal", "sigaction", "fork"} /\ ExitWith("parent", 1)
               /\ UNCHANGED <<registered, caught, screen, stdoutBuf>>
      <3>1. fwCode' \in [Family -> Nat] /\ fwCode'["child"] = fwCode["child"]
        BY <2>2, <2>5 DEF ExitWith, Family
      <3>2. QED
        BY <1>2, <2>1, <2>5, <3>1 DEF FwGo, ExitWith
    <2>6. QED
      BY <1>4, <2>3, <2>4, <2>5
  <1>5. QED
    BY <1>3, <1>4 DEF SetUp

\* The child begins with what its parent has not written, which is at most its first line.
LEMMA ForkStep == FwInv /\ Fork => FwInv'
  <1> SUFFICES ASSUME FwInv, Fork PROVE FwInv'
    OBVIOUS
  <1> USE DEF FwInv, BeforeFork
  <1>1. /\ fwPc["child"] = "none" /\ fwPc'["parent"] = "wait" /\ fwPc'["child"] = "run"
        /\ \A p \in Family : ends[p] = Alive /\ blocked[p] = {}
        /\ stdoutBuf["child"] = <<>>
    BY DEF FwKinds, FwEnds, Fork, Family
  <1>2. /\ UNCHANGED <<registered, caught, blocked, tty, screen, fwCode, ends, report>>
        /\ stdoutBuf' \in [Family -> Seq(Lines)]
        /\ stdoutBuf'["parent"] = stdoutBuf["parent"] /\ stdoutBuf'["child"] = stdoutBuf["parent"]
    BY DEF FwKinds, Fork, Family
  <1>3. \A l : /\ Occurs(screen', l) = Occurs(screen, l) /\ Occurs(stdoutBuf["child"], l) = 0
               /\ Occurs(stdoutBuf'["parent"], l) = Occurs(stdoutBuf["parent"], l)
               /\ Occurs(stdoutBuf'["child"], l) = Occurs(stdoutBuf["parent"], l)
    BY <1>1, <1>2, OccursFacts
  <1>4. ASSUME NEW t \in Texts
        PROVE  Occurs(stdoutBuf["parent"], LineOf("parent", t)) = 0 /\ Occurs(stdoutBuf["parent"], LineOf("child", t)) = 0
    <2>1. Total("parent", t) = 0
      BY <1>1 DEF FwSaid, Fork, Family, Texts
    <2>2. Occurs(stdoutBuf["parent"], LineOf("parent", t)) = 0
      BY <2>1, OccursNat DEF Total, Family
    <2>3. QED
      BY <2>2 DEF FwSaid, Family
  <1>5. \A p \in Family, t \in Texts : Total(p, t)' = Total(p, t)
    BY <1>3, <1>4 DEF Total, Family
  <1>6. FwKinds'
    BY <1>1, <1>2 DEF FwKinds, Fork, Family
  <1>7. FwEnds'
    BY <1>1, <1>2 DEF FwEnds, Fork, Family, Alive
  <1>8. FwSaid'
    <2>1. \A p, q \in Family, t \in Texts : p # q => Occurs(stdoutBuf'[q], LineOf(p, t)) = 0
      BY <1>3, <1>4 DEF Family
    <2>2. \A p \in Family :
            /\ \A s \in Signals : Total(p, s)' = Total(p, s)
            /\ Total(p, "exit")' = Total(p, "exit") /\ Total(p, "running")' = Total(p, "running")
            /\ Total(p, "completed")' = Total(p, "completed")
      BY <1>5 DEF Texts
    <2>3. fwPc["parent"] = "fork" /\ ends'["parent"][1] # "exit" /\ ends'["child"][1] # "exit"
      BY <1>1, <1>2 DEF Fork, Family, Alive
    <2>4. QED
      BY <1>1, <1>2, <1>5, <2>1, <2>2, <2>3 DEF FwSaid, Family
  <1>9. FwStarted'
    BY <1>1, <1>2, <1>3, OccursNat DEF FwStarted, Fork, Family
  <1>10. QED
    BY <1>6, <1>7, <1>8, <1>9

LEMMA ChildRunsStep == FwInv /\ ChildRuns => FwInv'
  <1> SUFFICES ASSUME FwInv, ChildRuns PROVE FwInv'
    OBVIOUS
  <1> USE DEF FwInv, BeforeFork
  <1>1. /\ "child" \in Family /\ "running" \in Texts
        /\ UNCHANGED <<registered, caught, blocked, tty, fwCode, ends, report>>
        /\ Say("child", "running") /\ fwPc["child"] = "run" /\ fwPc' = [fwPc EXCEPT !["child"] = "sleep"]
        /\ \A q \in Family : q # "child" => fwPc'[q] = fwPc[q]
        /\ fwPc'["child"] = "sleep" /\ fwPc["parent"] \notin BeforeFork /\ ends["child"] = Alive
    BY DEF ChildRuns, Family, Texts, Signals, FwKinds, FwEnds, FwGo, ExitWith
  <1>2. /\ stdoutBuf' \in [Family -> Seq(Lines)] /\ screen' \in Seq(Lines)
        /\ \A q \in Family : q # "child" \/ tty => stdoutBuf'[q] = stdoutBuf[q]
    BY <1>1, SayAdds
  <1>3. /\ \A q \in Family, u \in Texts : q # "child" \/ u # "running" => Total(q, u)' = Total(q, u)
        /\ Total("child", "running")' = Total("child", "running") + 1
        /\ \A q, r \in Family, u \in Texts :
             q # r => Occurs(stdoutBuf'[r], LineOf(q, u)) = Occurs(stdoutBuf[r], LineOf(q, u))
    BY <1>1, SayCounts
  <1>4. LET l == LineOf("parent", "started") IN
        /\ Occurs(screen', l) = Occurs(screen, l)
        /\ \A q \in Family : Occurs(stdoutBuf'[q], l) = Occurs(stdoutBuf[q], l)
    BY <1>1, SayCounts
  <1>5. FwKinds'
    BY <1>1, <1>2 DEF FwKinds, Family, Texts
  <1>6. FwEnds'
    BY <1>1, <1>2 DEF FwEnds, Family, Alive
  <1>7. FwSaid'
    BY <1>1, <1>3 DEF FwSaid, Family, Texts, Signals, Alive
  <1>8. FwStarted'
    BY <1>1, <1>4 DEF FwStarted, Family
  <1>9. QED
    BY <1>5, <1>6, <1>7, <1>8

LEMMA ChildCompletesStep == FwInv /\ ChildCompletes => FwInv'
  <1> SUFFICES ASSUME FwInv, ChildCompletes PROVE FwInv'
    OBVIOUS
  <1> USE DEF FwInv, BeforeFork
  <1>1. /\ "child" \in Family /\ "completed" \in Texts
        /\ UNCHANGED <<registered, caught, blocked, tty, ends, report>>
        /\ Say("child", "completed") /\ fwPc["child"] = "sleep" /\ fwPc' = [fwPc EXCEPT !["child"] = "exiting"]
        /\ \A q \in Family : q # "child" => fwPc'[q] = fwPc[q]
        /\ fwPc'["child"] = "exiting" /\ fwPc["parent"] \notin BeforeFork /\ ends["child"] = Alive
        /\ fwCode' \in [Family -> Nat] /\ fwCode'["parent"] = fwCode["parent"]
    BY DEF ChildCompletes, Family, Texts, Signals, FwKinds, FwEnds, FwGo, ExitWith
  <1>2. /\ stdoutBuf' \in [Family -> Seq(Lines)] /\ screen' \in Seq(Lines)
        /\ \A q \in Family : q # "child" \/ tty => stdoutBuf'[q] = stdoutBuf[q]
    BY <1>1, SayAdds
  <1>3. /\ \A q \in Family, u \in Texts : q # "child" \/ u # "completed" => Total(q, u)' = Total(q, u)
        /\ Total("child", "completed")' = Total("child", "completed") + 1
        /\ \A q, r \in Family, u \in Texts :
             q # r => Occurs(stdoutBuf'[r], LineOf(q, u)) = Occurs(stdoutBuf[r], LineOf(q, u))
    BY <1>1, SayCounts
  <1>4. LET l == LineOf("parent", "started") IN
        /\ Occurs(screen', l) = Occurs(screen, l)
        /\ \A q \in Family : Occurs(stdoutBuf'[q], l) = Occurs(stdoutBuf[q], l)
    BY <1>1, SayCounts
  <1>5. FwKinds'
    BY <1>1, <1>2 DEF FwKinds, Family, Texts
  <1>6. FwEnds'
    BY <1>1, <1>2 DEF FwEnds, Family, Alive
  <1>7. FwSaid'
    BY <1>1, <1>3 DEF FwSaid, Family, Texts, Signals, Alive
  <1>8. FwStarted'
    BY <1>1, <1>4 DEF FwStarted, Family
  <1>9. QED
    BY <1>5, <1>6, <1>7, <1>8

LEMMA ParentReportsStep == FwInv /\ ParentReports => FwInv'
  <1> SUFFICES ASSUME FwInv, ParentReports PROVE FwInv'
    OBVIOUS
  <1> USE DEF FwInv, BeforeFork
  <1>1. /\ "parent" \in Family /\ "completed" \in Texts
        /\ UNCHANGED <<registered, caught, blocked, tty, ends>>
        /\ Say("parent", "completed") /\ fwPc["parent"] = "wait" /\ fwPc' = [fwPc EXCEPT !["parent"] = "exiting"]
        /\ \A q \in Family : q # "parent" => fwPc'[q] = fwPc[q]
        /\ fwPc'["parent"] = "exiting" /\ ends["parent"] = Alive /\ report' = ends["child"]
        /\ fwCode' \in [Family -> Nat] /\ fwCode'["child"] = fwCode["child"]
    BY DEF ParentReports, Family, Texts, Signals, FwKinds, FwEnds, FwGo, ExitWith
  <1>2. /\ stdoutBuf' \in [Family -> Seq(Lines)] /\ screen' \in Seq(Lines)
        /\ \A q \in Family : q # "parent" \/ tty => stdoutBuf'[q] = stdoutBuf[q]
    BY <1>1, SayAdds
  <1>3. /\ \A q \in Family, u \in Texts : q # "parent" \/ u # "completed" => Total(q, u)' = Total(q, u)
        /\ Total("parent", "completed")' = Total("parent", "completed") + 1
        /\ \A q, r \in Family, u \in Texts :
             q # r => Occurs(stdoutBuf'[r], LineOf(q, u)) = Occurs(stdoutBuf[r], LineOf(q, u))
    BY <1>1, SayCounts
  <1>4. LET l == LineOf("parent", "started") IN
        /\ Occurs(screen', l) = Occurs(screen, l)
        /\ \A q \in Family : Occurs(stdoutBuf'[q], l) = Occurs(stdoutBuf[q], l)
    BY <1>1, SayCounts
  <1>5. FwKinds'
    BY <1>1, <1>2 DEF FwKinds, Family, Texts
  <1>6. FwEnds'
    BY <1>1, <1>2 DEF FwEnds, Family, Alive
  <1>7. FwSaid'
    BY <1>1, <1>3 DEF FwSaid, Family, Texts, Signals, Alive
  <1>8. FwStarted'
    BY <1>1, <1>4 DEF FwStarted, Family
  <1>9. QED
    BY <1>5, <1>6, <1>7, <1>8

\* exit runs the handler where it is registered ...
LEMMA AtExitSays ==
  ASSUME FwInv, NEW p \in Family, AtExit(p), registered
  PROVE  FwInv'
  <1> USE DEF FwInv, BeforeFork
  <1>1. /\ "exit" \in Texts
        /\ UNCHANGED <<registered, caught, blocked, tty, fwCode, ends, report>>
        /\ Say(p, "exit") /\ fwPc[p] = "exiting" /\ fwPc' = [fwPc EXCEPT ![p] = "flush"]
        /\ fwPc'[p] = "flush" /\ \A q \in Family : q # p => fwPc'[q] = fwPc[q]
        /\ ends[p] = Alive
    BY DEF AtExit, Texts, FwKinds, FwEnds, FwGo
  <1>2. /\ stdoutBuf' \in [Family -> Seq(Lines)] /\ screen' \in Seq(Lines)
        /\ \A q \in Family : q # p \/ tty => stdoutBuf'[q] = stdoutBuf[q]
    BY <1>1, SayAdds
  <1>3. /\ \A q \in Family, u \in Texts : q # p \/ u # "exit" => Total(q, u)' = Total(q, u)
        /\ Total(p, "exit")' = Total(p, "exit") + 1
        /\ \A q, r \in Family, u \in Texts :
             q # r => Occurs(stdoutBuf'[r], LineOf(q, u)) = Occurs(stdoutBuf[r], LineOf(q, u))
    BY <1>1, SayCounts
  <1>4. LET l == LineOf("parent", "started") IN
        /\ Occurs(screen', l) = Occurs(screen, l)
        /\ \A q \in Family : Occurs(stdoutBuf'[q], l) = Occurs(stdoutBuf[q], l)
    BY <1>1, SayCounts
  <1>5. FwKinds'
    BY <1>1, <1>2 DEF FwKinds, Family, Texts
  <1>6. FwEnds'
    BY <1>1, <1>2 DEF FwEnds, Family, Alive
  <1>7. FwSaid'
    BY <1>1, <1>3 DEF FwSaid, Family, Texts, Signals, Alive
  <1>8. FwStarted'
    BY <1>1, <1>4 DEF FwStarted, Family
  <1>9. QED
    BY <1>5, <1>6, <1>7, <1>8

\* ... and is silent where atexit has failed.
LEMMA AtExitSilent ==
  ASSUME FwInv, NEW p \in Family, AtExit(p), ~registered
  PROVE  FwInv'
  <1> USE DEF FwInv, BeforeFork
  <1>1. /\ UNCHANGED <<registered, caught, blocked, tty, stdoutBuf, screen, fwCode, ends, report>>
        /\ fwPc[p] = "exiting" /\ fwPc' = [fwPc EXCEPT ![p] = "flush"]
        /\ fwPc'[p] = "flush" /\ \A q \in Family : q # p => fwPc'[q] = fwPc[q]
        /\ ends[p] = Alive
    BY DEF AtExit, FwKinds, FwEnds, FwGo
  <1>2. \A q, t : Total(q, t)' = Total(q, t)
    BY <1>1, Silent
  <1>3. FwKinds' /\ FwEnds'
    BY <1>1 DEF FwKinds, FwEnds, Family, Alive
  <1>4. FwSaid'
    BY <1>1, <1>2 DEF FwSaid, Family, Alive
  <1>5. FwStarted'
    BY <1>1 DEF FwStarted, Family
  <1>6. QED
    BY <1>3, <1>4, <1>5

\* What was in the buffer is on the screen now, as often.
LEMMA FlushStep ==
  ASSUME FwInv, NEW p \in Family, Flush(p)
  PROVE  FwInv'
  <1> USE DEF FwInv, BeforeFork
  <1>1. /\ UNCHANGED <<registered, caught, blocked, tty, fwCode, report>>
        /\ fwPc[p] = "flush" /\ fwPc'[p] = "ended" /\ \A q \in Family : q # p => fwPc'[q] = fwPc[q]
        /\ fwPc' = [fwPc EXCEPT ![p] = "ended"]
        /\ ends[p] = Alive /\ ends' = [ends EXCEPT ![p] = <<"exit", fwCode[p]>>]
        /\ ends'[p] = <<"exit", fwCode[p]>> /\ \A q \in Family : q # p => ends'[q] = ends[q]
    BY DEF Flush, Ends, FwGo, FwKinds, FwEnds
  <1>2. /\ screen \in Seq(Lines) /\ stdoutBuf[p] \in Seq(Lines) /\ screen' = screen \o stdoutBuf[p]
        /\ stdoutBuf' \in [Family -> Seq(Lines)] /\ stdoutBuf'[p] = <<>>
        /\ \A q \in Family : q # p => stdoutBuf'[q] = stdoutBuf[q]
    BY DEF Flush, Flushed, FwKinds
  <1>3. \A l : Occurs(screen', l) = Occurs(screen, l) + Occurs(stdoutBuf[p], l) /\ Occurs(stdoutBuf'[p], l) = 0
    BY <1>2, OccursFacts
  <1>4. \A q, r \in Family, t \in Texts :
          q # r => Occurs(stdoutBuf[r], LineOf(q, t)) = 0 /\ Occurs(stdoutBuf'[r], LineOf(q, t)) = 0
    <2>1. \A q, r \in Family, t \in Texts : q # r => Occurs(stdoutBuf[r], LineOf(q, t)) = 0
      BY DEF FwSaid
    <2>2. \A r \in Family : r # p => \A l : Occurs(stdoutBuf'[r], l) = Occurs(stdoutBuf[r], l)
      BY <1>2
    <2>3. QED
      BY <1>3, <2>1, <2>2
  <1>5. \A q \in Family, t \in Texts : Total(q, t)' = Total(q, t)
    <2>1. ASSUME NEW q \in Family, NEW t \in Texts PROVE Total(q, t)' = Total(q, t)
      <3>1. CASE q = p
        BY <1>3, <3>1, OccursNat DEF Total
      <3>2. CASE q # p
        BY <1>2, <1>3, <1>4, <3>2, OccursNat DEF Total
      <3>3. QED
        BY <3>1, <3>2
    <2>2. QED
      BY <2>1
  <1>6. FwKinds'
    BY <1>1, <1>2 DEF FwKinds, Family, Endings
  <1>7. FwEnds'
    <2>1. ends'[p] # Alive /\ ends'[p][1] = "exit" /\ Alive[1] = "alive" /\ Alive # ends'[p]
      BY <1>1 DEF Alive
    <2>2. p = "child" => report = Alive
      BY <1>1 DEF FwEnds
    <2>3. \A q \in Family : q # p => q = "parent" \/ q = "child"
      BY DEF Family
    <2>4. p = "parent" \/ p = "child"
      BY DEF Family
    <2>5. \A q \in Family : ends'[q][1] = "exit" => ends'[q] = <<"exit", fwCode'[q]>> /\ stdoutBuf'[q] = <<>>
      BY <1>1, <1>2 DEF FwEnds
    <2>6. ends'["child"][1] = "signal" => ends'["child"][2] = "SIGKILL"
      BY <1>1, <2>1, <2>4 DEF FwEnds, Family
    <2>7. report' # Alive => report' = ends'["child"]
      BY <1>1, <2>2, <2>4 DEF FwEnds, Family
    <2>8. \A q \in Family : /\ fwPc'[q] \notin {"exiting", "flush", "ended"} => blocked'[q] = {}
                            /\ fwPc'[q] # "ended" => ends'[q] = Alive
      BY <1>1 DEF FwEnds
    <2>9. QED
      BY <1>1, <2>4, <2>5, <2>6, <2>7, <2>8 DEF FwEnds, Family
  <1>8. FwSaid'
    BY <1>1, <1>4, <1>5 DEF FwSaid, Family, Texts, Signals, Alive
  <1>9. FwStarted'
    <2> DEFINE l == LineOf("parent", "started")
    <2>1. /\ Occurs(screen, l) \in Nat
          /\ Occurs(stdoutBuf["parent"], l) \in Nat /\ Occurs(stdoutBuf["child"], l) \in Nat
          /\ "parent" \in Family /\ "child" \in Family
      BY OccursNat DEF Family
    <2>2. CASE p = "parent"
      <3>1. /\ Occurs(screen', l) = Occurs(screen, l) + Occurs(stdoutBuf["parent"], l)
            /\ Occurs(stdoutBuf'["parent"], l) = 0 /\ Occurs(stdoutBuf'["child"], l) = Occurs(stdoutBuf["child"], l)
        BY <1>2, <1>3, <2>1, <2>2
      <3>2. fwPc["parent"] = "flush" /\ fwPc'["parent"] = "ended" /\ fwPc'["child"] = fwPc["child"] /\ tty' = tty
        BY <1>1, <2>1, <2>2
      <3> HIDE DEF l
      <3>3. QED
        BY <2>1, <3>1, <3>2 DEF FwStarted, l
    <2>3. CASE p = "child"
      <3>1. /\ Occurs(screen', l) = Occurs(screen, l) + Occurs(stdoutBuf["child"], l)
            /\ Occurs(stdoutBuf'["child"], l) = 0 /\ Occurs(stdoutBuf'["parent"], l) = Occurs(stdoutBuf["parent"], l)
        BY <1>2, <1>3, <2>1, <2>3
      <3>2. /\ fwPc["child"] = "flush" /\ fwPc'["child"] = "ended" /\ fwPc'["parent"] = fwPc["parent"] /\ tty' = tty
            /\ fwPc["parent"] \notin BeforeFork
        BY <1>1, <2>1, <2>3 DEF FwEnds
      <3>3. tty => Occurs(stdoutBuf["child"], l) = 0
        BY <2>1, OccursFacts DEF FwKinds
      <3> HIDE DEF l
      <3>4. QED
        BY <2>1, <3>1, <3>2, <3>3 DEF FwStarted, l
    <2>4. QED
      BY <2>2, <2>3 DEF Family
  <1>10. QED
    BY <1>6, <1>7, <1>8, <1>9

\* A handler says which signal came, and exits with 0.
LEMMA HandlerStep ==
  ASSUME FwInv, NEW p \in Family, NEW s \in Signals, Signalled(p, s), Handled(p, s)
  PROVE  FwInv'
  <1> USE DEF FwInv, BeforeFork
  <1>1. /\ s \in Texts
        /\ UNCHANGED <<registered, caught, tty, ends, report>>
        /\ Say(p, s) /\ fwPc[p] \notin {"none", "ended"}
        /\ \A q \in Family : q # p => fwPc'[q] = fwPc[q]
        /\ fwPc' \in [Family -> {fwPc["parent"], fwPc["child"], "exiting", "flush"}]
        /\ fwPc'[p] = IF fwPc[p] = "flush" THEN "flush" ELSE "exiting"
        /\ s \notin blocked[p] /\ blocked' = [blocked EXCEPT ![p] = @ \cup {s}]
        /\ blocked'[p] = blocked[p] \cup {s} /\ \A q \in Family : q # p => blocked'[q] = blocked[q]
        /\ fwCode' \in [Family -> Nat] /\ fwCode'[p] = 0 /\ \A q \in Family : q # p => fwCode'[q] = fwCode[q]
        /\ ends[p] = Alive
    BY DEF Signalled, Running, Texts, Family, FwKinds, FwEnds, FwGo
  <1>2. /\ stdoutBuf' \in [Family -> Seq(Lines)] /\ screen' \in Seq(Lines)
        /\ \A q \in Family : q # p \/ tty => stdoutBuf'[q] = stdoutBuf[q]
    BY <1>1, SayAdds
  <1>3. /\ \A q \in Family, u \in Texts : q # p \/ u # s => Total(q, u)' = Total(q, u)
        /\ Total(p, s)' = Total(p, s) + 1
        /\ \A q, r \in Family, u \in Texts :
             q # r => Occurs(stdoutBuf'[r], LineOf(q, u)) = Occurs(stdoutBuf[r], LineOf(q, u))
    BY <1>1, SayCounts
  <1>4. LET l == LineOf("parent", "started") IN
        /\ Occurs(screen', l) = Occurs(screen, l)
        /\ \A q \in Family : Occurs(stdoutBuf'[q], l) = Occurs(stdoutBuf[q], l)
    BY <1>1, SayCounts
  <1>5. FwKinds'
    BY <1>1, <1>2 DEF FwKinds, Family, Texts
  <1>6. FwEnds'
    BY <1>1, <1>2 DEF FwEnds, Family, Alive
  <1>7. FwSaid'
    BY <1>1, <1>3 DEF FwSaid, Family, Texts, Signals, Alive
  <1>8. FwStarted'
    BY <1>1, <1>4 DEF FwStarted, Family
  <1>9. QED
    BY <1>5, <1>6, <1>7, <1>8

\* SIGKILL, or a signal that has no handler yet, ends a process where it is.
LEMMA EndsAbruptly ==
  ASSUME FwInv, NEW p \in Family, NEW s \in Signals \cup {"SIGKILL"},
         Running(p), Ends(p, <<"signal", s>>), s = "SIGKILL" \/ p = "parent",
         UNCHANGED <<registered, caught, blocked, tty, stdoutBuf, screen, fwCode, report>>
  PROVE  FwInv'
  <1> USE DEF FwInv, BeforeFork
  <1>1. /\ fwPc[p] \notin {"none", "ended"} /\ fwPc'[p] = "ended" /\ \A q \in Family : q # p => fwPc'[q] = fwPc[q]
        /\ fwPc' = [fwPc EXCEPT ![p] = "ended"]
        /\ ends[p] = Alive /\ ends' = [ends EXCEPT ![p] = <<"signal", s>>]
        /\ ends'[p] = <<"signal", s>> /\ \A q \in Family : q # p => ends'[q] = ends[q]
    BY DEF Running, Ends, FwGo, FwKinds, FwEnds
  <1>2. \A q, t : Total(q, t)' = Total(q, t)
    BY Silent
  <1>3. FwKinds'
    BY <1>1 DEF FwKinds, Family, Endings
  <1>4. FwEnds'
    BY <1>1 DEF FwEnds, Family, Alive
  <1>5. FwSaid'
    BY <1>1, <1>2 DEF FwSaid, Family, Alive
  <1>6. FwStarted'
    BY <1>1 DEF FwStarted, Family
  <1>7. QED
    BY <1>3, <1>4, <1>5, <1>6

\* FwInv is inductive.
LEMMA FwStepInv == FwInv /\ [FwNext]_fwVars => FwInv'
  <1> SUFFICES ASSUME FwInv, [FwNext]_fwVars PROVE FwInv'
    OBVIOUS
  <1>1. ASSUME NEW p \in Family, AtExit(p) PROVE FwInv'
    BY <1>1, AtExitSays, AtExitSilent
  <1>2. ASSUME NEW p \in Family, Flush(p) PROVE FwInv'
    BY <1>2, FlushStep
  <1>3. ASSUME NEW p \in Family, Killed(p) PROVE FwInv'
    BY <1>3, EndsAbruptly DEF Killed
  <1>4. ASSUME NEW p \in Family, NEW s \in Signals, Signalled(p, s) PROVE FwInv'
    <2>1. CASE Handled(p, s)
      BY <1>4, <2>1, HandlerStep
    <2>2. CASE ~Handled(p, s)
      <3>1. Running(p) /\ Ends(p, <<"signal", s>>)
        BY <1>4, <2>2 DEF Signalled
      <3>2. UNCHANGED <<registered, caught, blocked, tty, stdoutBuf, screen, fwCode, report>>
        BY <1>4, <2>2 DEF Signalled
      <3>3. p = "parent"
        BY <2>2, <3>1 DEF Handled, Running, FwInv, FwEnds, Family
      <3>4. QED
        BY <3>1, <3>2, <3>3, EndsAbruptly
    <2>3. QED
      BY <2>1, <2>2
  <1>5. CASE UNCHANGED fwVars
    <2>1. \A p, t : Total(p, t)' = Total(p, t)
      BY <1>5, Silent DEF fwVars
    <2>2. FwKinds' /\ FwEnds' /\ FwSaid' /\ FwStarted'
      BY <1>5, <2>1 DEF fwVars, FwInv, FwKinds, FwEnds, FwSaid, FwStarted
    <2>3. QED
      BY <2>2 DEF FwInv
  <1>6. QED
    BY <1>1, <1>2, <1>3, <1>4, <1>5, FwStartStep, SetUpStep, ForkStep, ChildRunsStep, ChildCompletesStep,
       ParentReportsStep DEF FwNext, FwStep

\* FwInv holds in every reachable state.
LEMMA FwInvariance == FwSpec => []FwInv
  <1>1. FwInit => FwInv
    <2> SUFFICES ASSUME FwInit PROVE FwInv
      OBVIOUS
    <2>1. /\ \A l : Occurs(screen, l) = 0 /\ \A p \in Family : Occurs(stdoutBuf[p], l) = 0
      BY OccursFacts DEF FwInit
    <2>2. \A p \in Family : \A t : Total(p, t) = 0
      BY <2>1 DEF Total
    <2>3. FwKinds
      <3>1. fwCode \in [Family -> Nat] /\ ends \in [Family -> Endings]
        BY DEF FwInit, Endings
      <3>2. screen \in Seq(Lines) /\ stdoutBuf \in [Family -> Seq(Lines)]
        BY EmptySeq DEF FwInit
      <3>3. QED
        BY <3>1, <3>2 DEF FwInit, FwKinds, Family
    <2>4. FwEnds
      BY DEF FwInit, FwEnds, Family, Alive
    <2>5. FwSaid
      BY <2>1, <2>2 DEF FwInit, FwSaid, Family, Alive
    <2>6. FwStarted
      BY <2>1 DEF FwInit, FwStarted, Family
    <2>7. QED
      BY <2>3, <2>4, <2>5, <2>6 DEF FwInv
  <1>2. QED
    BY <1>1, FwStepInv, PTL DEF FwSpec

\* Whatever signals come, the parent reports the true end of its child, which can be a
\* signal only if it is SIGKILL, and 42 only if the child has completed.
THEOREM ParentTellsTheTruth == FwSpec => []ReportIsTrue
  <1>1. ASSUME FwInv, report # Alive PROVE ReportIsTrue
    <2>1. report = ends["child"] /\ (report[1] = "signal" => report[2] = "SIGKILL")
      BY <1>1 DEF FwInv, FwEnds
    <2>2. ASSUME report = <<"exit", 42>> PROVE Count("child", "completed") = 1
      <3>0. report[1] = "exit" /\ report[2] = 42
        BY <2>2
      <3>1. ends["child"] = <<"exit", fwCode["child"]>> /\ stdoutBuf["child"] = <<>>
        BY <1>1, <2>1, <3>0 DEF FwInv, FwEnds, Family
      <3>2. fwCode["child"] = 42
        BY <2>1, <3>0, <3>1
      <3>3. Total("child", "completed") = 1
        BY <1>1, <3>2 DEF FwInv, FwSaid
      <3>4. Occurs(screen, LineOf("child", "completed")) = 1
        BY <1>1, <3>1, <3>3, OccursFacts, OccursNat DEF Total, FwInv
      <3>5. QED
        BY <3>4 DEF Count, Occurs
    <2>3. QED
      BY <2>1, <2>2 DEF ReportIsTrue
  <1>2. ASSUME report = Alive PROVE ReportIsTrue
    BY <1>2 DEF ReportIsTrue
  <1>3. FwInv => ReportIsTrue
    BY <1>1, <1>2
  <1>4. QED
    BY <1>3, FwInvariance, PTL

\* A process that ends by exit has printed its exit handler's line and those of its signal
\* handlers once, and no line comes twice but the one that was in the buffer at fork.
THEOREM NothingPrintedTwice == FwSpec => []PrintedOnce
  <1>1. ASSUME FwInv PROVE PrintedOnce
    <2> USE <1>1 DEF FwInv
    <2>1. \A p, t : Count(p, t) = Occurs(screen, LineOf(p, t))
      BY DEF Count, Occurs
    <2>2. \A l : Occurs(screen, l) \in Nat /\ \A p \in Family : Occurs(stdoutBuf[p], l) \in Nat
      BY OccursNat
    <2>3. ASSUME NEW p \in Family, Exited(p)
          PROVE  /\ stdoutBuf[p] = <<>> /\ \A t : Count(p, t) = Total(p, t)
      <3>1. stdoutBuf[p] = <<>>
        BY <2>3 DEF FwEnds, Exited
      <3>2. \A t : Occurs(stdoutBuf[p], LineOf(p, t)) = 0
        BY <3>1, OccursFacts
      <3>3. QED
        BY <2>1, <2>2, <3>1, <3>2 DEF Total
    <2>4. ASSUME NEW p \in Family, Exited(p)
          PROVE  /\ registered => Count(p, "exit") = 1
                 /\ stdoutBuf[p] = <<>>
                 /\ \A s \in blocked[p] : Count(p, s) = 1
      BY <2>3, <2>4 DEF FwSaid, Exited, FwKinds
    <2>5. ASSUME NEW p \in Family, NEW t \in Texts PROVE Count(p, t) <= 1
      BY <2>1, <2>2 DEF FwSaid, Total
    <2>6. Count("parent", "started") <= (IF tty THEN 1 ELSE 2)
      BY <2>1, <2>2 DEF FwStarted, Family, FwKinds
    <2>7. ASSUME ~tty, Exited("parent"), Exited("child") PROVE Count("parent", "started") = 2
      <3>1. stdoutBuf["parent"] = <<>> /\ stdoutBuf["child"] = <<>>
        BY <2>3, <2>7 DEF Family
      <3>2. fwPc["child"] # "none"
        BY <2>7 DEF FwEnds, Exited, Alive, Family
      <3>3. \A l : Occurs(stdoutBuf["parent"], l) = 0 /\ Occurs(stdoutBuf["child"], l) = 0
        BY <3>1, OccursFacts
      <3>4. QED
        BY <2>1, <2>2, <2>7, <3>2, <3>3 DEF FwStarted
    <2>8. QED
      BY <2>4, <2>5, <2>6, <2>7 DEF PrintedOnce, Texts
  <1>2. QED
    BY <1>1, FwInvariance, PTL

-----------------------------------------------------------------------------
(***************************************************************************)
(* lab6: the FIFO.                                                         *)
(*                                                                         *)
(* IInv: the types, with a bound on the FIFOs made by the processes that   *)
(* are past mkfifo; a message is in one place only, and its producer has   *)
(* written it; as long as the name stands for a FIFO somebody is there who *)
(* will remove it, or who is at it together with somebody who will.        *)
(***************************************************************************)

Kinds ==
    /\ path \in Nat /\ made \in Nat /\ path <= made
    /\ data \in [Fifos -> Seq(Producers)]
    /\ pc \in [Processes -> PC]
    /\ fd \in [Processes -> Nat]
    /\ \A p \in Processes : fd[p] <= made
    /\ \A p \in Processes : fd[p] # NoFd => pc[p] \in {"blocked", "io", "close"}
    /\ \A c \in Consumers : pc[c] = "io" => fd[c] # NoFd
    /\ prints \in [Consumers -> Producers \cup {Nothing}]

Passed == {p \in Processes : pc[p] \notin {"start", "mkfifo"}}

\* Every FIFO was made by another process, but for one that was there before.
FewMade == made <= Cardinality(Passed) + 1

NoDataYet == \A n \in Fifos : n > made => data[n] = <<>>

Written(p) == pc[p] \in {"close", "sleep", "done"}

\* A message is in one place of one FIFO, or shown by one consumer.
OnePlace ==
    /\ \A n \in Fifos : \A k \in 1..Len(data[n]) :
        /\ Written(data[n][k])
        /\ \A m \in Fifos : \A l \in 1..Len(data[m]) : data[n][k] = data[m][l] => n = m /\ k = l
        /\ \A c \in Consumers : prints[c] # data[n][k]
    /\ ShownOnce

At(p, n, where) == fd[p] = n /\ pc[p] \in where

\* A consumer that got through open at the FIFO of the name has, or had, a
\* producer there, which unlinks if it is not there any more.
ConsumersServed ==
    \A c \in Consumers : At(c, path, {"io", "close"}) =>
        \E p \in Producers : pc[p] = "sleep" \/ At(p, path, {"io", "close"})

\* A consumer that reads at the FIFO of the name, or has read and will unlink it.
ReadsOn(c) == At(c, path, {"io"}) \/ (At(c, path, {"close"}) /\ prints[c] # Nothing)

\* A producer that got through open at the FIFO of the name has a reader, or
\* there is somebody who unlinks.
ProducersServed ==
    \A p \in Producers : At(p, path, {"io"}) =>
        \/ \E q \in Processes : pc[q] = "sleep"
        \/ \E q \in Producers : At(q, path, {"close"})
        \/ \E c \in Consumers : ReadsOn(c)

\* The name does not outlive those who may remove it.
Guarded ==
    path # NoFifo =>
        \E p \in Processes :
            pc[p] \in {"start", "mkfifo", "open", "blocked", "sleep"} \/ At(p, path, {"io", "close"})

Cleaners == path # NoFifo => ConsumersServed /\ ProducersServed

IInv == Kinds /\ FewMade /\ NoDataYet /\ OnePlace /\ Cleaners /\ Guarded

-----------------------------------------------------------------------------
\* There are finitely many processes, and producers are no consumers.
LEMMA Runs ==
    /\ IsFiniteSet(Processes)
    /\ Cardinality(Processes) \in Nat
    /\ Producers \subseteq Processes /\ Consumers \subseteq Processes
    /\ \A p \in Producers : p \notin Consumers
    /\ \A p \in Processes : p \in Producers \/ p \in Consumers
    /\ Nothing \notin Producers
    /\ NoFifo = 0 /\ NoFd = 0
    /\ \A n \in Fifos : n \in Nat /\ n >= 1
  <1>1. IsFiniteSet(Processes)
    BY FS_Union, RunsAssumption DEF Processes
  <1>2. QED
    BY <1>1, FS_CardinalityType, RunsAssumption DEF Processes, NoFifo, NoFd, Fifos

\* Fifos has room for the FIFO of every process.
LEMMA Room ==
    ASSUME IInv
    PROVE  /\ IsFiniteSet(Passed) /\ Cardinality(Passed) \in Nat
           /\ made <= Cardinality(Processes) + 1
           /\ \A n \in 1..made : n \in Fifos
           /\ \A p \in Processes : fd[p] # NoFd => fd[p] \in Fifos
  <1>1. Passed \in SUBSET Processes
    BY DEF Passed
  <1>2. IsFiniteSet(Passed) /\ Cardinality(Passed) <= Cardinality(Processes)
    BY <1>1, FS_Subset, Runs
  <1>3. Cardinality(Passed) \in Nat
    BY <1>2, FS_CardinalityType
  <1>4. made \in Nat /\ made <= Cardinality(Processes) + 1
    BY <1>2, <1>3, Runs DEF IInv, Kinds, FewMade
  <1>5. \A n \in 1..made : n \in Fifos
    BY <1>4, Runs DEF Fifos
  <1>6. QED
    BY <1>2, <1>3, <1>4, <1>5, Runs DEF IInv, Kinds

\* What is in a FIFO are messages of producers.
LEMMA InFifo ==
    ASSUME IInv, NEW n \in Fifos
    PROVE  /\ data[n] \in Seq(Producers) /\ Len(data[n]) \in Nat
           /\ \A k \in 1..Len(data[n]) : data[n][k] \in Producers
           /\ data[n] # <<>> => 1 \in 1..Len(data[n]) /\ Head(data[n]) = data[n][1]
  <1>1. data[n] \in Seq(Producers)
    BY DEF IInv, Kinds
  <1>2. QED
    BY <1>1, ElementOfSeq, LenProperties, EmptySeq

\* What write does to a FIFO.
LEMMA Appended ==
    ASSUME IInv, NEW n \in Fifos, NEW p \in Producers
    PROVE  LET new == Append(data[n], p) IN
           /\ new \in Seq(Producers)
           /\ Len(new) = Len(data[n]) + 1
           /\ \A k \in 1..Len(data[n]) : new[k] = data[n][k]
           /\ new[Len(data[n]) + 1] = p
  BY AppendProperties, InFifo

\* A FIFO may become empty.
LEMMA Emptied == <<>> \in Seq(Producers) /\ Len(<<>>) = 0
  BY EmptySeq

\* The three ways write goes.
NotOpen(p) ==
    /\ fd[p] = NoFd
    /\ pc' = [pc EXCEPT ![p] = "close"]
    /\ UNCHANGED <<data, fd>>

NoReader(p) ==
    /\ fd[p] \in Fifos /\ \A c \in Consumers : fd[c] # fd[p]
    /\ pc' = [pc EXCEPT ![p] = "killed"]
    /\ fd' = [fd EXCEPT ![p] = NoFd]
    /\ data' = data \/ data' = [data EXCEPT ![fd[p]] = <<>>]

Passes(p) ==
    /\ fd[p] \in Fifos
    /\ pc' = [pc EXCEPT ![p] = "close"]
    /\ fd' = fd
    /\ data' = [data EXCEPT ![fd[p]] = Append(data[fd[p]], p)]

LEMMA Writes ==
    ASSUME IInv, NEW p \in Processes, Write(p)
    PROVE  /\ p \in Producers /\ pc[p] = "io"
           /\ UNCHANGED <<path, made, prints>>
           /\ NotOpen(p) \/ NoReader(p) \/ Passes(p)
  <1>1. CASE fd[p] = NoFd
    BY <1>1 DEF Write, NotOpen
  <1>2. CASE fd[p] # NoFd /\ Open(fd[p], Consumers) = {}
    <2>1. \A c \in Consumers : fd[c] # fd[p]
      BY <1>2 DEF Open
    <2>2. QED
      BY <1>2, <2>1, Room DEF Write, NoReader
  <1>3. CASE fd[p] # NoFd /\ Open(fd[p], Consumers) # {}
    BY <1>3, Room DEF Write, Passes
  <1>4. QED
    BY <1>1, <1>2, <1>3

\* The two ways read goes.
Takes(c) ==
    /\ 1 \in 1..Len(data[fd[c]])
    /\ prints' = [prints EXCEPT ![c] = data[fd[c]][1]]
    /\ data' = [data EXCEPT ![fd[c]] = <<>>]

NoWriter(c) ==
    /\ \A p \in Producers : fd[p] # fd[c]
    /\ UNCHANGED <<data, prints>>

LEMMA Reads ==
    ASSUME IInv, NEW c \in Processes, Read(c)
    PROVE  /\ c \in Consumers /\ pc[c] = "io" /\ fd[c] \in Fifos
           /\ pc' = [pc EXCEPT ![c] = "close"]
           /\ UNCHANGED <<path, made, fd>>
           /\ Takes(c) \/ NoWriter(c)
  <1>1. c \in Consumers /\ fd[c] \in Fifos
    BY Room DEF Read, IInv, Kinds
  <1>2. CASE data[fd[c]] # <<>>
    BY <1>1, <1>2, InFifo DEF Read, Left, Takes
  <1>3. CASE data[fd[c]] = <<>> /\ Open(fd[c], Producers) = {}
    <2>1. \A p \in Producers : fd[p] # fd[c]
      BY <1>3 DEF Open
    <2>2. QED
      BY <1>1, <1>3, <2>1 DEF Read, NoWriter
  <1>4. QED
    BY <1>1, <1>2, <1>3 DEF Read

\* Every call keeps the variables in their kinds.
LEMMA KindsStep ==
    ASSUME IInv, NEW p \in Processes, Step(p)
    PROVE  Kinds'
  <1> USE Runs, Room DEF IInv, Kinds, PC
  <1>1. CASE Access(p)
    BY <1>1 DEF Access
  <1>2. CASE MakeFifo(p)
    BY <1>2 DEF MakeFifo
  <1>3. CASE OpenFails(p)
    BY <1>3 DEF OpenFails
  <1>4. CASE OpenFifo(p)
    BY <1>4 DEF OpenFifo, Peers, MustWait, Open
  <1>5. CASE Write(p)
    <2>1. p \in Producers
      BY <1>5, Writes
    <2>2. CASE NotOpen(p)
      BY <1>5, <2>2, Writes DEF NotOpen
    <2>3. CASE NoReader(p)
      <3>1. data' \in [Fifos -> Seq(Producers)]
        BY <2>3, Emptied DEF NoReader
      <3>2. pc' = [pc EXCEPT ![p] = "killed"] /\ fd' = [fd EXCEPT ![p] = NoFd]
        BY <2>3 DEF NoReader
      <3>3. UNCHANGED <<path, made, prints>>
        BY <1>5, Writes
      <3>4. QED
        BY <2>1, <3>1, <3>2, <3>3
    <2>4. CASE Passes(p)
      <3>1. data' \in [Fifos -> Seq(Producers)]
        BY <2>1, <2>4, Appended DEF Passes
      <3>2. pc' = [pc EXCEPT ![p] = "close"] /\ fd' = fd
        BY <2>4 DEF Passes
      <3>3. UNCHANGED <<path, made, prints>> /\ pc[p] = "io"
        BY <1>5, Writes
      <3>4. QED
        BY <2>1, <3>1, <3>2, <3>3
    <2>5. QED
      BY <1>5, <2>2, <2>3, <2>4, Writes
  <1>6. CASE Read(p)
    <2>1. CASE Takes(p)
      <3>1. data' \in [Fifos -> Seq(Producers)]
        BY <2>1, Emptied DEF Takes
      <3>2. data[fd[p]][1] \in Producers
        BY <1>6, <2>1, Reads, InFifo DEF Takes
      <3>3. prints' \in [Consumers -> Producers \cup {Nothing}]
        BY <2>1, <3>2 DEF Takes
      <3>4. UNCHANGED <<path, made, fd>> /\ pc' = [pc EXCEPT ![p] = "close"] /\ pc[p] = "io"
        BY <1>6, Reads
      <3>5. QED
        BY <3>1, <3>3, <3>4
    <2>2. CASE NoWriter(p)
      <3>1. UNCHANGED <<path, made, fd, data, prints>> /\ pc' = [pc EXCEPT ![p] = "close"] /\ pc[p] = "io"
        BY <1>6, <2>2, Reads DEF NoWriter
      <3>2. QED
        BY <3>1
    <2>3. QED
      BY <1>6, <2>1, <2>2, Reads
  <1>7. CASE Close(p)
    BY <1>7 DEF Close, Open
  <1>8. CASE Unlink(p)
    BY <1>8 DEF Unlink, Unlinked
  <1>9. QED
    BY <1>1, <1>2, <1>3, <1>4, <1>5, <1>6, <1>7, <1>8 DEF Step

\* mkfifo is called once by a process, and makes one FIFO at most.
LEMMA FewMadeStep ==
    ASSUME IInv, NEW p \in Processes, Step(p)
    PROVE  FewMade'
  <1> USE Runs, Room DEF IInv, Kinds, FewMade
  <1>1. Passed' \in SUBSET Processes /\ IsFiniteSet(Passed') /\ Cardinality(Passed') \in Nat
    <2>1. Passed' \in SUBSET Processes
      BY DEF Passed
    <2>2. QED
      BY <2>1, FS_Subset, FS_CardinalityType
  <1>2. CASE MakeFifo(p)
    <2>1. p \notin Passed /\ Passed' = Passed \cup {p}
      BY <1>2 DEF MakeFifo, Passed
    <2>2. Cardinality(Passed') = Cardinality(Passed) + 1
      BY <2>1, FS_AddElement
    <2>3. QED
      BY <1>2, <2>2 DEF MakeFifo
  <1>3. CASE ~MakeFifo(p)
    <2>1. Passed \subseteq Passed'
      BY <1>3 DEF Passed, Step, Access, OpenFails, OpenFifo, Write, Read, Close, Unlink, PC
    <2>2. Cardinality(Passed) <= Cardinality(Passed')
      BY <1>1, <2>1, FS_Subset
    <2>3. made' = made
      BY <1>3 DEF Step, Access, OpenFails, OpenFifo, Write, Read, Close, Unlink
    <2>4. QED
      BY <1>1, <2>2, <2>3
  <1>4. QED
    BY <1>2, <1>3

\* Only a process that has the FIFO open writes into it.
LEMMA NoDataYetStep ==
    ASSUME IInv, NEW p \in Processes, Step(p)
    PROVE  NoDataYet'
  <1> USE Runs, Room DEF IInv, Kinds, NoDataYet
  <1>1. CASE Access(p)
    BY <1>1 DEF Access
  <1>2. CASE MakeFifo(p)
    BY <1>2 DEF MakeFifo
  <1>3. CASE OpenFails(p)
    BY <1>3 DEF OpenFails
  <1>4. CASE OpenFifo(p)
    BY <1>4 DEF OpenFifo, Peers, MustWait, Open
  <1>5. CASE Write(p)
    BY <1>5 DEF Write, Open
  <1>6. CASE Read(p)
    BY <1>6 DEF Read, Open, Left
  <1>7. CASE Close(p)
    BY <1>7 DEF Close, Open
  <1>8. CASE Unlink(p)
    BY <1>8 DEF Unlink, Unlinked
  <1>9. QED
    BY <1>1, <1>2, <1>3, <1>4, <1>5, <1>6, <1>7, <1>8 DEF Step

\* A message is not in two places of the FIFOs.
LEMMA OnlyThere ==
    ASSUME IInv, NEW n \in Fifos, NEW m \in Fifos,
           NEW k \in 1..Len(data[n]), NEW l \in 1..Len(data[m]), data[n][k] = data[m][l]
    PROVE  n = m /\ k = l
  BY DEF IInv, OnePlace

\* What was in one place stays there if no FIFO gets anything new.
LEMMA Untouched ==
    ASSUME IInv, \A q \in Producers : Written(q) => Written(q)',
           \A m \in Fifos : \A k \in 1..Len(data'[m]) : data'[m] = data[m], prints' = prints
    PROVE  OnePlace'
  <1>1. \A m \in Fifos : \A k \in 1..Len(data[m]) : data[m][k] \in Producers
    BY InFifo
  <1>2. ShownOnce'
    BY DEF IInv, Kinds, OnePlace, ShownOnce, Written
  <1>3. QED
    BY <1>1, <1>2 DEF IInv, OnePlace

\* Line p:29 puts a message into one FIFO, line c:34 takes it from there.
LEMMA OnePlaceStep ==
    ASSUME IInv, NEW p \in Processes, Step(p)
    PROVE  OnePlace'
  <1>0. Kinds /\ OnePlace
    BY DEF IInv
  <1> USE <1>0, Runs, Room DEF Kinds, OnePlace, ShownOnce, Written
  <1>1. CASE Access(p)
    BY <1>1, Untouched DEF Access
  <1>2. CASE MakeFifo(p)
    BY <1>2, Untouched DEF MakeFifo
  <1>3. CASE OpenFails(p)
    BY <1>3, Untouched DEF OpenFails
  <1>4. CASE OpenFifo(p)
    <2>1. \A q \in Producers : Written(q) => Written(q)'
      BY <1>4 DEF OpenFifo
    <2>2. data' = data /\ prints' = prints
      BY <1>4 DEF OpenFifo
    <2>3. QED
      BY <2>1, <2>2, Untouched
  <1>5. CASE Write(p)
    <2>1. p \in Producers /\ pc[p] = "io" /\ prints' = prints
      BY <1>5, Writes
    <2>2. CASE Passes(p)
      <3> DEFINE n == fd[p]
      <3>1. n \in Fifos
        BY <2>2 DEF Passes
      <3>2. data' = [data EXCEPT ![n] = Append(data[n], p)] /\ pc' = [pc EXCEPT ![p] = "close"]
        BY <2>2 DEF Passes
      <3>3. \A m \in Fifos \ {n} : data'[m] = data[m]
        BY <3>2
      <3>4. /\ Len(data'[n]) = Len(data[n]) + 1
            /\ \A k \in 1..Len(data[n]) : data'[n][k] = data[n][k]
            /\ data'[n][Len(data[n]) + 1] = p
        BY <2>1, <3>1, <3>2, Appended
      <3>5. \A m \in Fifos : /\ Len(data[m]) \in Nat
                            /\ \A k \in 1..Len(data[m]) : data[m][k] # p /\ data[m][k] \in Producers
        BY <2>1, InFifo
      <3>6. \A q \in Processes : Written(q) => Written(q)'
        BY <2>1, <3>2
      <3>7. \A k \in 1..Len(data'[n]) : k \in 1..Len(data[n]) \/ k = Len(data[n]) + 1
        BY <3>1, <3>4, <3>5
      <3>8. \A c \in Consumers : prints[c] # p
        BY <2>1
      <3> HIDE DEF n, Written
      <3>9. \A m \in Fifos : \A k \in 1..Len(data'[m]) :
              /\ data'[m][k] # p => k \in 1..Len(data[m]) /\ data'[m][k] = data[m][k]
              /\ data'[m][k] = p => m = n /\ k = Len(data[n]) + 1
        <4>1. ASSUME NEW m \in Fifos \ {n}, NEW k \in 1..Len(data'[m])
              PROVE  data'[m][k] # p /\ k \in 1..Len(data[m]) /\ data'[m][k] = data[m][k]
          BY <3>3, <3>5
        <4>2. ASSUME NEW k \in 1..Len(data'[n])
              PROVE  /\ data'[n][k] # p => k \in 1..Len(data[n]) /\ data'[n][k] = data[n][k]
                     /\ data'[n][k] = p => k = Len(data[n]) + 1
          BY <3>1, <3>4, <3>5, <3>7
        <4>3. QED
          BY <4>1, <4>2
      <3>10. Written(p)'
        BY <2>1, <3>2 DEF Written
      <3>11. ASSUME NEW m \in Fifos, NEW k \in 1..Len(data'[m])
             PROVE  (Written(data[m][k]))' /\ \A c \in Consumers : prints'[c] # data'[m][k]
        <4>1. CASE data'[m][k] = p
          BY <2>1, <3>8, <3>10, <4>1
        <4>2. CASE data'[m][k] # p
          <5>1. k \in 1..Len(data[m]) /\ data'[m][k] = data[m][k]
            BY <3>9, <4>2
          <5>2. Written(data[m][k]) /\ \A c \in Consumers : prints[c] # data[m][k]
            BY <5>1
          <5>3. data[m][k] \in Processes
            BY <3>5, <5>1
          <5>4. QED
            BY <2>1, <3>6, <5>1, <5>2, <5>3
        <4>3. QED
          BY <4>1, <4>2
      <3>12. ASSUME NEW i \in Fifos, NEW m \in Fifos,
                    NEW k \in 1..Len(data'[i]), NEW l \in 1..Len(data'[m]), data'[i][k] = data'[m][l]
             PROVE  i = m /\ k = l
        <4>1. CASE data'[i][k] = p
          <5>1. i = n /\ k = Len(data[n]) + 1
            BY <3>9, <4>1
          <5>2. m = n /\ l = Len(data[n]) + 1
            BY <3>9, <3>12, <4>1
          <5>3. QED
            BY <5>1, <5>2
        <4>2. CASE data'[i][k] # p
          <5>1. /\ k \in 1..Len(data[i]) /\ data'[i][k] = data[i][k]
                /\ l \in 1..Len(data[m]) /\ data'[m][l] = data[m][l]
            BY <3>9, <3>12, <4>2
          <5>2. data[i][k] = data[m][l]
            BY <3>12, <5>1
          <5>3. QED
            BY <5>1, <5>2, OnlyThere
        <4>3. QED
          BY <4>1, <4>2
      <3>14. ShownOnce'
        BY <2>1, <3>6 DEF Written
      <3>15. QED
        BY <3>11, <3>12, <3>14 DEF Written
    <2>3. CASE NotOpen(p) \/ NoReader(p)
      <3>1. \A m \in Fifos : \A k \in 1..Len(data'[m]) : data'[m] = data[m]
        BY <2>3, Emptied DEF NotOpen, NoReader
      <3>2. \A q \in Processes : Written(q) => Written(q)'
        BY <2>1, <2>3 DEF NotOpen, NoReader
      <3>3. \A m \in Fifos : \A k \in 1..Len(data[m]) : data[m][k] \in Producers
        BY InFifo
      <3>4. QED
        BY <2>1, <3>1, <3>2, <3>3, Untouched
    <2>4. QED
      BY <1>5, <2>2, <2>3, Writes
  <1>6. CASE Read(p)
    <2>1. p \in Consumers /\ fd[p] \in Fifos /\ \A q \in Processes : Written(q) => Written(q)'
      BY <1>6, Reads
    <2>2. CASE Takes(p)
      <3>1. data' = [data EXCEPT ![fd[p]] = <<>>] /\ prints' = [prints EXCEPT ![p] = data[fd[p]][1]]
        BY <2>2 DEF Takes
      <3>2. 1 \in 1..Len(data[fd[p]]) /\ data[fd[p]][1] \in Producers
        BY <2>1, <2>2, InFifo DEF Takes
      <3>3. \A m \in Fifos : \A k \in 1..Len(data'[m]) : m # fd[p] /\ data'[m] = data[m]
        BY <2>1, <3>1, Emptied
      <3>4. \A m \in Fifos : \A k \in 1..Len(data[m]) : data[m][k] \in Producers
        BY InFifo
      <3>5. \A c \in Consumers : prints'[c] = prints[c] \/ prints'[c] = data[fd[p]][1]
        BY <2>1, <3>1
      <3>6. ShownOnce'
        BY <2>1, <3>1, <3>2
      <3> HIDE DEF Written, ShownOnce
      <3>7. ASSUME NEW m \in Fifos, NEW k \in 1..Len(data'[m])
            PROVE  (Written(data[m][k]))' /\ \A c \in Consumers : prints'[c] # data'[m][k]
        <4>1. m # fd[p] /\ k \in 1..Len(data[m]) /\ data'[m][k] = data[m][k]
          BY <3>3
        <4>2. Written(data[m][k]) /\ data[m][k] \in Processes /\ \A c \in Consumers : prints[c] # data[m][k]
          BY <3>4, <4>1
        <4>3. data[m][k] # data[fd[p]][1]
          BY <2>1, <3>2, <4>1, OnlyThere
        <4>4. (Written(data[m][k]))'
          BY <2>1, <4>1, <4>2
        <4>5. QED
          BY <3>5, <4>1, <4>2, <4>3, <4>4
      <3>8. ASSUME NEW n \in Fifos, NEW m \in Fifos,
                   NEW k \in 1..Len(data'[n]), NEW l \in 1..Len(data'[m]), data'[n][k] = data'[m][l]
            PROVE  n = m /\ k = l
        <4>1. /\ k \in 1..Len(data[n]) /\ data'[n][k] = data[n][k]
              /\ l \in 1..Len(data[m]) /\ data'[m][l] = data[m][l]
          BY <3>3
        <4>2. data[n][k] = data[m][l]
          BY <3>8, <4>1
        <4>3. QED
          BY <4>1, <4>2, OnlyThere
      <3>9. \A m \in Fifos : \A k \in 1..Len(data'[m]) : (Written(data[m][k]))' /\ data'[m][k] = data[m][k]
        BY <3>3, <3>7
      <3>10. QED
        BY <3>6, <3>7, <3>8, <3>9 DEF Written
    <2>3. CASE NoWriter(p)
      BY <2>1, <2>3, Untouched DEF NoWriter
    <2>4. QED
      BY <1>6, <2>2, <2>3, Reads
  <1>7. CASE Close(p)
    <2>1. data' = data \/ (fd[p] \in Fifos /\ data' = [data EXCEPT ![fd[p]] = <<>>])
      BY <1>7 DEF Close
    <2>2. \A q \in Processes : q \in Producers /\ Written(q) => Written(q)'
      BY <1>7 DEF Close
    <2>3. \A m \in Fifos : \A k \in 1..Len(data'[m]) : data'[m] = data[m]
      BY <2>1, Emptied
    <2>4. prints' = prints
      BY <1>7 DEF Close
    <2>5. QED
      BY <2>2, <2>3, <2>4, Untouched
  <1>8. CASE Unlink(p)
    BY <1>8, Untouched DEF Unlink, Unlinked
  <1>9. QED
    BY <1>1, <1>2, <1>3, <1>4, <1>5, <1>6, <1>7, <1>8 DEF Step

\* open lets both ends go together, and unlink at the end of one of them is owed.
LEMMA CleanersStep ==
    ASSUME IInv, NEW p \in Processes, Step(p)
    PROVE  Cleaners'
  <1>0. Kinds /\ NoDataYet /\ Cleaners
    BY DEF IInv
  <1> USE <1>0, Runs, Room DEF Kinds, NoDataYet, Cleaners, ConsumersServed, ProducersServed, ReadsOn, At
  <1>1. CASE Access(p)
    BY <1>1 DEF Access
  <1>2. CASE MakeFifo(p)
    <2>1. CASE path = NoFifo
      BY <1>2, <2>1 DEF MakeFifo
    <2>2. CASE path # NoFifo
      BY <1>2, <2>2 DEF MakeFifo
    <2>3. QED
      BY <2>1, <2>2
  <1>3. CASE OpenFails(p)
    BY <1>3 DEF OpenFails
  <1>4. CASE OpenFifo(p)
    <2>1. /\ path # NoFifo /\ path' = path /\ prints' = prints /\ pc[p] = "open"
          /\ \A q \in Processes : fd'[q] = IF q = p THEN path ELSE fd[q]
      BY <1>4 DEF OpenFifo
    <2>2. pc'[p] = "blocked" \/ (pc'[p] = "io" /\ \E q \in Peers(p) : q \in Processes /\ fd[q] = path)
      BY <1>4 DEF OpenFifo, MustWait, Open, Peers
    <2>3. \A q \in Peers(p) : fd[q] = path => pc'[p] = "io" /\ pc'[q] = IF pc[q] = "blocked" THEN "io" ELSE pc[q]
      BY <1>4, <2>1 DEF OpenFifo, MustWait, Open, Peers
    <2>4. \A q \in Processes \ {p} : pc'[q] = pc[q] \/ (q \in Peers(p) /\ fd[q] = path)
      BY <1>4 DEF OpenFifo, Open
    <2>5. ConsumersServed'
      <3> SUFFICES ASSUME NEW c \in Consumers, At(c, path, {"io", "close"})'
                   PROVE  \E q \in Producers : (pc[q] = "sleep" \/ At(q, path, {"io", "close"}))'
        BY <2>1
      <3>1. CASE c = p
        <4>1. PICK q \in Peers(p) : q \in Processes /\ fd[q] = path
          BY <2>1, <2>2, <3>1
        <4>2. q \in Producers /\ q # p
          BY <3>1 DEF Peers
        <4>3. fd'[q] = path /\ pc'[q] = IF pc[q] = "blocked" THEN "io" ELSE pc[q]
          BY <2>1, <2>3, <4>1, <4>2
        <4>4. QED
          BY <2>1, <4>1, <4>2, <4>3
      <3>2. CASE c # p /\ c \in Peers(p) /\ fd[c] = path
        BY <2>1, <2>3, <3>2 DEF Peers
      <3>3. CASE c # p /\ pc'[c] = pc[c]
        <4>1. PICK q \in Producers : pc[q] = "sleep" \/ At(q, path, {"io", "close"})
          BY <2>1, <3>3
        <4>2. q # p /\ pc'[q] = pc[q]
          BY <2>1, <2>3, <2>4, <4>1
        <4>3. QED
          BY <2>1, <4>1, <4>2
      <3>4. QED
        BY <2>4, <3>1, <3>2, <3>3
    <2>6. ProducersServed'
      <3> SUFFICES ASSUME NEW q \in Producers, At(q, path, {"io"})'
                   PROVE  (\/ \E o \in Processes : pc[o] = "sleep"
                           \/ \E o \in Producers : At(o, path, {"close"})
                           \/ \E c \in Consumers : ReadsOn(c))'
        BY <2>1
      <3>1. \A o \in Processes : pc[o] \in {"sleep", "close"} => o # p /\ pc'[o] = pc[o]
        BY <2>1, <2>3, <2>4
      <3>2. \A o \in Consumers : At(o, path, {"io"}) => At(o, path, {"io"})'
        BY <2>1, <2>3, <2>4
      <3>3. ASSUME NEW o \in Producers, At(o, path, {"io"})
            PROVE  \/ \E w \in Processes : pc[w] = "sleep"
                   \/ \E w \in Producers : At(w, path, {"close"})
                   \/ \E c \in Consumers : ReadsOn(c)
        BY <2>1, <3>3
      <3>4. ASSUME NEW o \in Producers, At(o, path, {"io"})
            PROVE  (\/ \E w \in Processes : pc[w] = "sleep"
                    \/ \E w \in Producers : At(w, path, {"close"})
                    \/ \E c \in Consumers : ReadsOn(c))'
        <4>1. CASE \E w \in Processes : pc[w] = "sleep"
          BY <3>1, <4>1
        <4>2. CASE \E w \in Producers : At(w, path, {"close"})
          BY <2>1, <3>1, <4>2
        <4>3. CASE \E c \in Consumers : ReadsOn(c)
          BY <2>1, <3>1, <3>2, <4>3
        <4>4. QED
          BY <3>3, <3>4, <4>1, <4>2, <4>3
      <3>5. CASE q = p
        <4>1. PICK c \in Consumers : fd[c] = path
          BY <2>1, <2>2, <3>5 DEF Peers
        <4>2. c # p /\ fd'[c] = path /\ pc[c] \in {"blocked", "io", "close"}
          BY <2>1, <3>5, <4>1
        <4>3. CASE pc[c] \in {"blocked", "io"}
          BY <2>1, <2>3, <3>5, <4>1, <4>2, <4>3 DEF Peers
        <4>4. CASE pc[c] = "close"
          <5>1. PICK w \in Producers : pc[w] = "sleep" \/ At(w, path, {"io", "close"})
            BY <2>1, <4>1, <4>4
          <5>2. CASE At(w, path, {"io"})
            BY <3>4, <5>2
          <5>3. CASE pc[w] = "sleep"
            BY <3>1, <5>3
          <5>4. CASE At(w, path, {"close"})
            BY <2>1, <3>1, <5>4
          <5>5. QED
            BY <5>1, <5>2, <5>3, <5>4
        <4>5. QED
          BY <4>2, <4>3, <4>4
      <3>6. CASE q # p /\ q \in Peers(p) /\ fd[q] = path
        BY <2>1, <2>3, <3>6 DEF Peers
      <3>7. CASE q # p /\ pc'[q] = pc[q]
        BY <2>1, <3>4, <3>7
      <3>8. QED
        BY <2>4, <3>5, <3>6, <3>7
    <2>7. QED
      BY <2>5, <2>6
  <1>5. CASE Write(p)
    <2>1. p \in Producers /\ pc[p] = "io" /\ path' = path /\ prints' = prints
      BY <1>5, Writes
    <2>2. \A q \in Processes : q # p => pc'[q] = pc[q] /\ fd'[q] = fd[q]
      <3>1. CASE NotOpen(p) \/ Passes(p)
        BY <3>1 DEF NotOpen, Passes
      <3>2. CASE NoReader(p)
        BY <3>2 DEF NoReader
      <3>3. QED
        BY <1>5, <3>1, <3>2, Writes
    <2>3. CASE NotOpen(p) \/ Passes(p)
      <3>1. pc'[p] = "close" /\ fd'[p] = fd[p]
        BY <2>3 DEF NotOpen, Passes
      <3>2. \A q \in Producers : At(q, path, {"io", "close"}) => At(q, path, {"io", "close"})'
        BY <2>1, <2>2, <3>1
      <3>3. \A q \in Producers : At(q, path, {"close"}) => At(q, path, {"close"})'
        BY <2>1, <2>2, <3>1
      <3>4. \A q \in Producers : At(q, path, {"io"})' => At(q, path, {"io"})
        BY <2>1, <2>2, <3>1
      <3>5. \A q \in Processes : pc[q] = "sleep" => pc'[q] = "sleep"
        BY <2>1, <2>2
      <3>6. \A c \in Consumers : pc'[c] = pc[c] /\ fd'[c] = fd[c]
        BY <2>1, <2>2
      <3>7. \A c \in Consumers :
              /\ ReadsOn(c) <=> (ReadsOn(c))'
              /\ At(c, path, {"io", "close"}) <=> At(c, path, {"io", "close"})'
        BY <2>1, <3>6
      <3> HIDE DEF At, ReadsOn
      <3>8. QED
        BY <2>1, <3>2, <3>3, <3>4, <3>5, <3>7
    <2>4. CASE NoReader(p)
      <3>1. pc'[p] = "killed" /\ \A c \in Consumers : fd[c] # fd[p]
        BY <2>1, <2>4 DEF NoReader
      <3>2. \A c \in Consumers : pc'[c] = pc[c] /\ fd'[c] = fd[c]
        BY <2>1, <2>2
      <3>3. \A c \in Consumers : At(c, path, {"io", "close"})' => At(c, path, {"io", "close"}) /\ fd[p] # path
        BY <2>1, <3>1, <3>2
      <3>4. ASSUME path # NoFifo PROVE ConsumersServed'
        <4>1. ASSUME NEW c \in Consumers, At(c, path, {"io", "close"})'
              PROVE  \E q \in Producers : (pc[q] = "sleep" \/ At(q, path, {"io", "close"}))'
          <5>1. PICK q \in Producers : pc[q] = "sleep" \/ At(q, path, {"io", "close"})
            BY <3>3, <3>4, <4>1
          <5>2. q # p
            BY <2>1, <3>3, <4>1, <5>1
          <5>3. QED
            BY <2>1, <2>2, <5>1, <5>2
        <4>2. QED
          BY <2>1, <4>1
      <3>5. ASSUME path # NoFifo PROVE ProducersServed'
        <4>1. ASSUME NEW q \in Producers, At(q, path, {"io"})'
              PROVE  q # p /\ At(q, path, {"io"})
          BY <2>1, <2>2, <3>1, <4>1
        <4>2. \A o \in Processes : pc[o] \in {"sleep", "close"} => pc'[o] = pc[o] /\ fd'[o] = fd[o]
          BY <2>1, <2>2
        <4>3. \A o \in Producers : At(o, path, {"close"}) => At(o, path, {"close"})'
          BY <2>1, <4>2
        <4>4. \A c \in Consumers : ReadsOn(c) => (ReadsOn(c))'
          BY <2>1, <3>2
        <4>5. \A o \in Processes : pc[o] = "sleep" => pc'[o] = "sleep"
          BY <4>2
        <4> HIDE DEF At, ReadsOn
        <4>6. QED
          BY <2>1, <3>5, <4>1, <4>3, <4>4, <4>5
      <3>6. QED
        BY <2>1, <3>4, <3>5
    <2>5. QED
      BY <1>5, <2>3, <2>4, Writes
  <1>6. CASE Read(p)
    <2>1. /\ p \in Consumers /\ pc[p] = "io" /\ fd[p] \in Fifos /\ fd' = fd /\ path' = path
          /\ pc' = [pc EXCEPT ![p] = "close"]
      BY <1>6, Reads
    <2>2. \A c \in Consumers : c # p => prints'[c] = prints[c]
      BY <1>6, <2>1, Reads DEF Takes, NoWriter
    <2>3. prints'[p] # Nothing \/ \A q \in Producers : fd[q] # fd[p]
      <3>1. CASE Takes(p)
        <4>1. data[fd[p]][1] \in Producers
          BY <2>1, <3>1, InFifo DEF Takes
        <4>2. QED
          BY <2>1, <3>1, <4>1 DEF Takes
      <3>2. CASE NoWriter(p)
        BY <3>2 DEF NoWriter
      <3>3. QED
        BY <1>6, <3>1, <3>2, Reads
    <2>4. QED
      BY <2>1, <2>2, <2>3
  <1>7. CASE Close(p)
    <2>1. /\ pc[p] = "close" /\ path' = path /\ prints' = prints
          /\ \A q \in Processes : q # p => pc'[q] = pc[q] /\ fd'[q] = fd[q]
          /\ pc'[p] = "sleep" \/ (pc'[p] = "failed" /\ p \in Consumers /\ prints[p] = Nothing)
      BY <1>7 DEF Close
    <2>2. \A q \in Processes : pc[q] = "sleep" => pc'[q] = "sleep"
      BY <2>1
    <2>3. \A q \in Processes : q # p =>
            /\ At(q, path, {"io", "close"}) <=> At(q, path, {"io", "close"})'
            /\ At(q, path, {"close"}) <=> At(q, path, {"close"})'
            /\ At(q, path, {"io"}) <=> At(q, path, {"io"})'
      BY <2>1
    <2>4. /\ ~At(p, path, {"io", "close"})' /\ ~At(p, path, {"io"})'
          /\ ~At(p, path, {"io"}) /\ (ReadsOn(p) => pc'[p] = "sleep")
      BY <2>1
    <2>5. \A c \in Consumers : c # p /\ ReadsOn(c) => (ReadsOn(c))'
      BY <2>1
    <2>6. p \in Producers => pc'[p] = "sleep"
      BY <2>1
    <2> HIDE DEF At, ReadsOn
    <2>7. path # NoFifo => ConsumersServed'
      BY <2>1, <2>2, <2>3, <2>4, <2>6
    <2>8. path # NoFifo => ProducersServed'
      <3>1. CASE pc'[p] = "sleep"
        BY <3>1
      <3>2. CASE pc'[p] # "sleep"
        BY <2>1, <2>2, <2>3, <2>4, <2>5, <2>6, <3>2
      <3>3. QED
        BY <3>1, <3>2
    <2>9. QED
      BY <2>1, <2>7, <2>8
  <1>8. CASE Unlink(p)
    BY <1>8 DEF Unlink, Unlinked
  <1>9. QED
    BY <1>1, <1>2, <1>3, <1>4, <1>5, <1>6, <1>7, <1>8 DEF Step

\* Whoever leaves without unlink leaves somebody behind who does it.
LEMMA GuardedStep ==
    ASSUME IInv, NEW p \in Processes, Step(p)
    PROVE  Guarded'
  <1>0. Kinds /\ Cleaners /\ Guarded
    BY DEF IInv
  <1> USE <1>0, Runs, Room DEF Kinds, Guarded, Cleaners, ConsumersServed, ProducersServed, ReadsOn, At
  <1>1. CASE Access(p)
    BY <1>1 DEF Access
  <1>2. CASE MakeFifo(p)
    BY <1>2 DEF MakeFifo
  <1>3. CASE OpenFails(p)
    BY <1>3 DEF OpenFails
  <1>4. CASE OpenFifo(p)
    BY <1>4 DEF OpenFifo, Peers, MustWait, Open
  <1>5. CASE Write(p)
    <2>1. p \in Producers /\ pc[p] = "io" /\ path' = path /\ prints' = prints
      BY <1>5, Writes
    <2>2. CASE NotOpen(p)
      BY <2>1, <2>2 DEF NotOpen
    <2>3. CASE Passes(p)
      BY <2>1, <2>3 DEF Passes
    <2>4. CASE NoReader(p)
      <3>1. \A q \in Processes : q # p => pc'[q] = pc[q] /\ fd'[q] = fd[q]
        BY <2>4 DEF NoReader
      <3>2. ASSUME path # NoFifo, fd[p] = path
            PROVE  \E q \in Processes : q # p /\ (pc[q] = "sleep" \/ At(q, path, {"close"}))
        BY <2>1, <2>4, <3>2 DEF NoReader
      <3>3. CASE fd[p] = path
        <4>1. ASSUME path # NoFifo
              PROVE  \E q \in Processes : (pc[q] = "sleep" \/ At(q, path, {"close"}))'
          BY <2>1, <3>1, <3>2, <3>3, <4>1
        <4>2. QED
          BY <2>1, <4>1
      <3>4. CASE fd[p] # path
        BY <2>1, <3>1, <3>4
      <3>5. QED
        BY <3>3, <3>4
    <2>5. QED
      BY <1>5, <2>2, <2>3, <2>4, Writes
  <1>6. CASE Read(p)
    BY <1>6 DEF Read, Open, Left
  <1>7. CASE Close(p)
    <2>1. /\ path' = path /\ pc'[p] \in {"sleep", "failed"}
          /\ \A q \in Processes : q # p => pc'[q] = pc[q] /\ fd'[q] = fd[q]
      BY <1>7 DEF Close
    <2>2. CASE pc'[p] = "sleep"
      BY <2>1, <2>2
    <2>3. CASE pc'[p] = "failed"
      <3>1. pc[p] = "close" /\ p \in Consumers
        BY <1>7, <2>3 DEF Close
      <3>2. ASSUME path # NoFifo, At(p, path, {"close"})
            PROVE  \E q \in Processes : q # p /\ (pc[q] = "sleep" \/ At(q, path, {"io", "close"}))
        BY <3>1, <3>2
      <3>3. ASSUME path # NoFifo, ~At(p, path, {"close"})
            PROVE  \E q \in Processes : q # p /\ (\/ pc[q] \in {"start", "mkfifo", "open", "blocked", "sleep"}
                                                  \/ At(q, path, {"io", "close"}))
        BY <3>1, <3>3
      <3>4. QED
        BY <2>1, <3>2, <3>3
    <2>4. QED
      BY <2>1, <2>2, <2>3
  <1>8. CASE Unlink(p)
    BY <1>8 DEF Unlink, Unlinked
  <1>9. QED
    BY <1>1, <1>2, <1>3, <1>4, <1>5, <1>6, <1>7, <1>8 DEF Step

\* Before anybody has started everything is as IInv says.
LEMMA InitIInv == FfInit => IInv
  <1> SUFFICES ASSUME FfInit PROVE IInv
    OBVIOUS
  <1> USE Runs DEF FfInit
  <1>1. Kinds
    BY DEF Kinds, PC
  <1>2. FewMade
    <2>1. Passed = {}
      BY DEF Passed
    <2>2. QED
      BY <2>1, FS_EmptySet DEF FewMade
  <1>3. NoDataYet /\ OnePlace
    BY DEF NoDataYet, OnePlace, ShownOnce
  <1>4. Cleaners /\ Guarded
    BY RunsAssumption DEF Cleaners, ConsumersServed, ProducersServed, ReadsOn, Guarded, At, Processes
  <1>5. QED
    BY <1>1, <1>2, <1>3, <1>4 DEF IInv

\* IInv is inductive.
LEMMA StepIInv == IInv /\ [FfNext]_ffVars => IInv'
  <1> SUFFICES ASSUME IInv, [FfNext]_ffVars PROVE IInv'
    OBVIOUS
  <1>1. ASSUME NEW p \in Processes, Step(p) PROVE IInv'
    BY <1>1, KindsStep, FewMadeStep, NoDataYetStep, OnePlaceStep, CleanersStep, GuardedStep DEF IInv
  <1>2. CASE UNCHANGED ffVars
    BY <1>2 DEF ffVars, IInv, Kinds, FewMade, Passed, NoDataYet, OnePlace, ShownOnce, Written, Cleaners,
       ConsumersServed, ProducersServed, ReadsOn, Guarded, At
  <1>3. QED
    BY <1>1, <1>2 DEF FfNext

\* IInv holds in every reachable state.
LEMMA Invariance == FfSpec => []IInv
  BY InitIInv, StepIInv, PTL DEF FfSpec

-----------------------------------------------------------------------------
\* A message goes from the write of line p:29 to one read of line c:34 at most,
\* through whatever FIFOs are made and removed under the name meanwhile.
THEOREM MessagesShownOnce == FfSpec => []FifoInv
  <1>1. ASSUME IInv PROVE TypeOK
    <2>1. path \in {NoFifo} \cup Fifos /\ made \in 0..(Cardinality(Processes) + 1) /\ path <= made
      BY <1>1, Runs, Room DEF IInv, Kinds
    <2>2. fd \in [Processes -> 0..made]
      BY <1>1 DEF IInv, Kinds
    <2>3. \A n \in Fifos : data[n] \in Seq(Producers) /\ (n > made => data[n] = <<>>)
      BY <1>1 DEF IInv, Kinds, NoDataYet
    <2>4. QED
      BY <1>1, <2>1, <2>2, <2>3 DEF TypeOK, IInv, Kinds
  <1>2. IInv => FifoInv
    BY <1>1 DEF IInv, OnePlace, FifoInv
  <1>3. QED
    BY <1>2, Invariance, PTL

\* Lines p:36 and c:53 remove the FIFO in the end, though every process may leave
\* by a path that does not come there (c:29, c:39, SIGPIPE at p:29).
THEOREM NameIsRemoved == FfSpec => []NoLeftover
  <1>1. IInv => NoLeftover
    BY Runs DEF IInv, Guarded, At, NoLeftover, Over
  <1>2. QED
    BY <1>1, Invariance, PTL
=============================================================================
