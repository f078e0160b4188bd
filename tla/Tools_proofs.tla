----------------------------- MODULE Tools_proofs -----------------------------
(***************************************************************************)
(* Proofs about the command-line tools: mycat and mygrep (CatGrep), ls     *)
(* (ListDir) and mychmod (ChangeMode), for all texts, patterns and buffer  *)
(* sizes, all directories and capacities, all specifications and runs.     *)
(***************************************************************************)
EXTENDS CatGrep, ListDir, ChangeMode, Picks_proofs

-----------------------------------------------------------------------------
(***************************************************************************)
(* mycat and mygrep (lab1)                                                 *)
(*                                                                         *)
(* TextInv: of each file, what has been shown is what a filter of its text *)
(* shows, up to where it has been read: of the symbols cat would print the *)
(* ones whose places have been passed, of the lines grep would print the   *)
(* ones that have been read.  An iteration passes one chunk: the places    *)
(* before it stay, and those in it are the ones the iteration prints.      *)
(***************************************************************************)

TextSpec == TextInit /\ [][TextNext]_textVars

CatSymbols == [kind: {"char"}, is: Characters \cup {NL}] \cup [kind: {"number"}, is: Nat] \cup {Dollar}
GrepLines  == [number: Nat, text: Seq(Characters)]

TextKinds ==
    /\ tool \in {"none", "cat", "grep", "grepStdin"}
    /\ pattern \in Seq(Characters)
    /\ files \in Seq(Seq(Characters) \cup {Missing})
    /\ cur \in 0..Len(files)
    /\ offset \in Nat \cup {Closed} /\ counter \in Nat
    /\ offset # Closed => cur # 0 /\ Text \in Seq(Characters) /\ offset <= Len(Text)
    /\ tool = "none" => cur = 0
    /\ Len(shown) = cur /\ Len(totals) = cur
    /\ shown \in Seq(Seq(IF tool = "cat" THEN CatSymbols ELSE GrepLines))
    /\ totals \in Seq(Nat)

\* How far the j-th file was read.
ReadTo(j) == IF j = cur /\ offset # Closed THEN offset ELSE Len(files[j])

\* A text with lines that fit is read line by line.
Between(t, p) == p = 0 \/ p = Len(t) \/ t[p] = NL

AtLine == offset # Closed /\ Tidy(Text) => Between(Text, offset)

\* What cat has shown when it has come to p.
PlacesTo(t, p) == {i \in Places(t) : i <= 3 * p}

CatShows(t, p, s) ==
    /\ Whole(t) /\ "b" \notin options =>
          Picked(s, CharsOf(s)) = Plain(SubSeq(t, 1, p))
    /\ Tidy(t) /\ ("E" \in options => Ended(t)) => s = Picked(Symbols(t), PlacesTo(t, p))

CatNumbers(t, p, c) == Tidy(t) /\ Numbered => c = Rank(KeptIn(t) \cap Starts(t), p) + 1

CatInv ==
    tool = "cat" =>
        /\ \A j \in 1..cur : files[j] # Missing => CatShows(files[j], ReadTo(j), shown[j])
        /\ offset # Closed => CatNumbers(Text, offset, counter)

\* What is numbered, and what grep has shown when it has come to p.
Counted(t) == IF tool = "grep" THEN Starts(t) ELSE Found(t)

GrepSymbols(t) == [k \in 1..Len(t) |-> Match(Rank(Counted(t), k), LineAt(t, k))]

GrepShows(t, p, s) ==
    /\ \A k \in 1..Len(s) :
          /\ Holds(s[k].text, pattern)
          /\ Holds(t, s[k].text)
          /\ k > 1 => s[k - 1].number < s[k].number
    /\ Tidy(t) => s = Picked(GrepSymbols(t), {k \in Found(t) : k <= p})

GrepNumbers(t, p, c) == Tidy(t) => c = Rank(Counted(t), p) + 1

GrepInv ==
    tool \in {"grep", "grepStdin"} =>
        /\ \A j \in 1..cur :
              /\ files[j] # Missing => GrepShows(files[j], ReadTo(j), shown[j])
              /\ files[j] = Missing => shown[j] = <<>>
              /\ totals[j] = Len(shown[j])
        /\ offset # Closed =>
              /\ \A k \in 1..Len(shown[cur]) : shown[cur][k].number < counter
              /\ GrepNumbers(Text, offset, counter)

TextInv == TextKinds /\ AtLine /\ CatInv /\ GrepInv

-----------------------------------------------------------------------------
(* What fgets reads                                                        *)

LEMMA MinIsLeast ==
    ASSUME NEW S \in SUBSET Nat, S # {}
    PROVE  Min(S) \in S /\ \A k \in S : Min(S) <= k
  BY LeastNumber DEF Min

LEMMA ChunkFacts ==
    ASSUME NEW t \in Seq(Characters), NEW p \in Nat, p < Len(t)
    PROVE  /\ ChunkEnd(t, p) \in (p + 1)..Len(t) /\ ChunkEnd(t, p) <= p + BUFFER - 1
           /\ \/ t[ChunkEnd(t, p)] = NL \/ ChunkEnd(t, p) = Len(t)
              \/ ChunkEnd(t, p) = p + BUFFER - 1
           /\ \A j \in (p + 1)..(ChunkEnd(t, p) - 1) : t[j] # NL
           /\ Chunk(t, p) \in Seq(Characters) /\ Len(Chunk(t, p)) = ChunkEnd(t, p) - p
           /\ \A i \in 1..(ChunkEnd(t, p) - p) : Chunk(t, p)[i] = t[p + i]
  <1> DEFINE S == {k \in (p + 1)..Len(t) : t[k] = NL \/ k = Len(t) \/ k = p + BUFFER - 1}
  <1>1. Len(t) \in Nat /\ \A k \in 1..Len(t) : t[k] \in Characters
    BY LenProperties
  <1>2. BUFFER \in Nat /\ BUFFER >= 2
    BY BufferAssumption
  <1>3. S \in SUBSET Nat /\ Len(t) \in S
    BY <1>1
  <1> DEFINE e == Min(S)
  <1>4. e \in S /\ \A k \in S : e <= k
    BY <1>3, MinIsLeast
  <1>5. e \in Nat /\ e \in (p + 1)..Len(t)
    BY <1>1, <1>4
  <1> HIDE DEF e
  <1>6. e <= p + BUFFER - 1
    <2>1. CASE p + BUFFER - 1 <= Len(t)
      <3>1. p + BUFFER - 1 \in S
        BY <1>1, <1>2, <2>1
      <3>2. QED
        BY <1>4, <3>1
    <2>2. CASE ~(p + BUFFER - 1 <= Len(t))
      BY <1>1, <1>2, <1>5, <2>2
    <2>3. QED
      BY <2>1, <2>2
  <1>7. ASSUME NEW j \in (p + 1)..(e - 1) PROVE t[j] # NL
    <2>1. j \in (p + 1)..Len(t) /\ ~(e <= j)
      BY <1>1, <1>5
    <2>2. QED
      BY <1>4, <2>1
  <1>8. \A i \in (p + 1)..e : t[i] \in Characters
    BY <1>1, <1>5
  <1>9. /\ SubSeq(t, p + 1, e) \in Seq(Characters)
        /\ Len(SubSeq(t, p + 1, e)) = e - p
        /\ \A i \in 1..(e - p) : SubSeq(t, p + 1, e)[i] = t[p + i]
    <2>1. p + 1 \in Int /\ e \in Int /\ p + 1 <= e /\ e - (p + 1) + 1 = e - p
      BY <1>5
    <2>2. /\ SubSeq(t, p + 1, e) \in Seq(Characters)
          /\ Len(SubSeq(t, p + 1, e)) = e - (p + 1) + 1
          /\ \A i \in 1..(e - (p + 1) + 1) : SubSeq(t, p + 1, e)[i] = t[p + 1 + i - 1]
      BY <1>8, <2>1, SubSeqProperties
    <2>3. \A i \in 1..(e - p) : p + 1 + i - 1 = p + i
      BY <1>5
    <2>4. QED
      BY <2>1, <2>2, <2>3
  <1>10. ChunkEnd(t, p) = e /\ Chunk(t, p) = SubSeq(t, p + 1, e)
    BY DEF ChunkEnd, Chunk, e
  <1>11. t[e] = NL \/ e = Len(t) \/ e = p + BUFFER - 1
    BY <1>4
  <1>12. QED
    BY <1>5, <1>6, <1>7, <1>9, <1>10, <1>11

LEMMA LineFacts ==
    ASSUME NEW t \in Seq(Characters), NEW k \in 1..Len(t)
    PROVE  /\ LineEnd(t, k) \in k..Len(t)
           /\ t[LineEnd(t, k)] = NL \/ LineEnd(t, k) = Len(t)
           /\ \A j \in k..(LineEnd(t, k) - 1) : t[j] # NL /\ j # Len(t)
           /\ LineAt(t, k) \in Seq(Characters) /\ Len(LineAt(t, k)) = LineEnd(t, k) - k + 1
           /\ \A i \in 1..(LineEnd(t, k) - k + 1) : LineAt(t, k)[i] = t[k + i - 1]
  <1> DEFINE S == {j \in k..Len(t) : t[j] = NL \/ j = Len(t)}
  <1>1. Len(t) \in Nat /\ k \in Nat /\ k >= 1 /\ \A j \in 1..Len(t) : t[j] \in Characters
    BY LenProperties
  <1>2. S \in SUBSET Nat /\ Len(t) \in S
    BY <1>1
  <1> DEFINE e == Min(S)
  <1>3. e \in S /\ \A j \in S : e <= j
    BY <1>2, MinIsLeast
  <1>4. e \in Nat /\ e \in k..Len(t) /\ (t[e] = NL \/ e = Len(t))
    BY <1>1, <1>3
  <1> HIDE DEF e
  <1>5. ASSUME NEW j \in k..(e - 1) PROVE t[j] # NL /\ j # Len(t)
    <2>1. j \in k..Len(t) /\ ~(e <= j)
      BY <1>1, <1>4
    <2>2. QED
      BY <1>3, <2>1
  <1>6. \A i \in k..e : t[i] \in Characters
    BY <1>1, <1>4
  <1>7. k \in Int /\ e \in Int /\ k <= e
    BY <1>1, <1>4
  <1>8. /\ SubSeq(t, k, e) \in Seq(Characters)
        /\ Len(SubSeq(t, k, e)) = e - k + 1
        /\ \A i \in 1..(e - k + 1) : SubSeq(t, k, e)[i] = t[k + i - 1]
    BY <1>6, <1>7, SubSeqProperties
  <1>9. LineEnd(t, k) = e /\ LineAt(t, k) = SubSeq(t, k, e)
    BY DEF LineEnd, LineAt, e
  <1>10. QED
    BY <1>4, <1>5, <1>8, <1>9

\* A string is the beginning of the buffer, or all of it.
LEMMA CStringFacts ==
    ASSUME NEW s \in Seq(Characters)
    PROVE  /\ \E n \in 0..Len(s) : CString(s) = SubSeq(s, 1, n)
           /\ (\A i \in 1..Len(s) : s[i] # NUL) => CString(s) = s
           /\ CString(s) \in Seq(Characters)
  <1> DEFINE zeros == {i \in DOMAIN s : s[i] = NUL}
  <1>1. Len(s) \in Nat /\ DOMAIN s = 1..Len(s) /\ \A i \in 1..Len(s) : s[i] \in Characters
    BY LenProperties
  <1>2. CASE zeros = {}
    <2>1. CString(s) = s
      BY <1>2 DEF CString
    <2>2. s = SubSeq(s, 1, Len(s))
      BY SubSeqFull
    <2>3. Len(s) \in 0..Len(s)
      BY <1>1
    <2>4. \E n \in 0..Len(s) : CString(s) = SubSeq(s, 1, n)
      BY <2>1, <2>2, <2>3
    <2>5. QED
      BY <2>1, <2>4
  <1>3. CASE zeros # {}
    <2>1. zeros \in SUBSET Nat
      BY <1>1
    <2>2. Min(zeros) \in zeros
      BY <1>3, <2>1, MinIsLeast
    <2>3. Min(zeros) \in 1..Len(s) /\ s[Min(zeros)] = NUL
      BY <1>1, <2>2
    <2>4. PICK n : n = Min(zeros) - 1
      OBVIOUS
    <2>5. n \in 0..Len(s) /\ n \in Nat
      BY <1>1, <2>3, <2>4
    <2>6. CString(s) = SubSeq(s, 1, n)
      BY <1>3, <2>4 DEF CString
    <2>7. \A i \in 1..n : s[i] \in Characters
      BY <1>1, <2>5
    <2>8. SubSeq(s, 1, n) \in Seq(Characters)
      BY <2>5, <2>7, SubSeqProperties
    <2>9. QED
      BY <2>3, <2>5, <2>6, <2>8
  <1>4. QED
    BY <1>2, <1>3

\* In a text whose lines fit fgets reads a line, and %s shows it all.
LEMMA TidyChunk ==
    ASSUME NEW t \in Seq(Characters), NEW p \in Nat, p < Len(t), Tidy(t), Between(t, p)
    PROVE  /\ p + 1 \in Starts(t)
           /\ ChunkEnd(t, p) = LineEnd(t, p + 1)
           /\ CString(Chunk(t, p)) = LineAt(t, p + 1) /\ Chunk(t, p) = LineAt(t, p + 1)
           /\ Between(t, ChunkEnd(t, p))
           /\ \A k \in (p + 2)..ChunkEnd(t, p) : k \notin Starts(t)
  <1> DEFINE e == ChunkEnd(t, p)  l == LineEnd(t, p + 1)
  <1>1. Len(t) \in Nat /\ p + 1 \in 1..Len(t) /\ p + 1 \in Nat
    BY LenProperties
  <1>2. p + 1 \in Starts(t)
    BY <1>1 DEF Between, Starts, LineStart
  <1>3. /\ e \in (p + 1)..Len(t) /\ e <= p + BUFFER - 1
        /\ t[e] = NL \/ e = Len(t) \/ e = p + BUFFER - 1
        /\ \A j \in (p + 1)..(e - 1) : t[j] # NL
        /\ Chunk(t, p) \in Seq(Characters) /\ Len(Chunk(t, p)) = e - p
        /\ \A i \in 1..(e - p) : Chunk(t, p)[i] = t[p + i]
    BY ChunkFacts
  <1>4. /\ l \in (p + 1)..Len(t)
        /\ t[l] = NL \/ l = Len(t)
        /\ \A j \in (p + 1)..(l - 1) : t[j] # NL /\ j # Len(t)
        /\ LineAt(t, p + 1) \in Seq(Characters) /\ Len(LineAt(t, p + 1)) = l - (p + 1) + 1
        /\ \A i \in 1..(l - (p + 1) + 1) : LineAt(t, p + 1)[i] = t[p + 1 + i - 1]
    BY <1>1, LineFacts
  <1>5. Len(LineAt(t, p + 1)) < BUFFER
    BY <1>2 DEF Tidy
  <1>6. BUFFER \in Nat /\ e \in Nat /\ l \in Nat
    BY <1>1, <1>3, <1>4, BufferAssumption
  <1> HIDE DEF e, l
  <1>7. l <= p + BUFFER - 1
    BY <1>4, <1>5, <1>6
  <1>8. e = l
    <2>1. CASE e < l
      <3>1. e \in (p + 1)..(l - 1)
        BY <1>3, <1>6, <2>1
      <3>2. QED
        BY <1>3, <1>4, <1>6, <1>7, <2>1, <3>1
    <2>2. CASE l < e
      <3>1. l \in (p + 1)..(e - 1)
        BY <1>4, <1>6, <2>2
      <3>2. QED
        BY <1>1, <1>3, <1>4, <1>6, <2>2, <3>1
    <2>3. QED
      BY <1>6, <2>1, <2>2
  <1>9. Chunk(t, p) = LineAt(t, p + 1)
    <2>1. PICK c, d, n : c = Chunk(t, p) /\ d = LineAt(t, p + 1) /\ n = e - p
      OBVIOUS
    <2>2. l - (p + 1) + 1 = n /\ n \in Nat /\ \A i \in 1..n : p + 1 + i - 1 = p + i
      BY <1>3, <1>6, <1>8, <2>1
    <2>3. /\ c \in Seq(Characters) /\ Len(c) = n /\ d \in Seq(Characters) /\ Len(d) = n
          /\ \A i \in 1..n : c[i] = d[i]
      BY <1>3, <1>4, <2>1, <2>2
    <2>4. c = d
      BY <2>3, SeqEqual
    <2>5. QED
      BY <2>1, <2>4
  <1>10. CString(Chunk(t, p)) = Chunk(t, p)
    <2>1. ASSUME NEW i \in 1..(e - p) PROVE Chunk(t, p)[i] # NUL
      <3>1. p + i \in 1..Len(t)
        BY <1>1, <1>3, <1>6
      <3>2. QED
        BY <1>3, <3>1 DEF Tidy, Whole
    <2>2. QED
      BY <1>3, <2>1, CStringFacts
  <1>11. Between(t, e)
    BY <1>4, <1>8 DEF Between
  <1>12. ASSUME NEW k \in (p + 2)..e PROVE k \notin Starts(t)
    <2>1. k - 1 \in (p + 1)..(e - 1) /\ k # 1
      BY <1>6
    <2>2. QED
      BY <1>3, <2>1 DEF Starts, LineStart
  <1>13. QED
    BY <1>2, <1>8, <1>9, <1>10, <1>11, <1>12 DEF e, l

\* What the buffer holds is in the file.
LEMMA ChunkIsInFile ==
    ASSUME NEW t \in Seq(Characters), NEW p \in Nat, p < Len(t)
    PROVE  Holds(t, CString(Chunk(t, p))) /\ CString(Chunk(t, p)) \in Seq(Characters)
  <1>1. PICK c, e : c = Chunk(t, p) /\ e = ChunkEnd(t, p)
    OBVIOUS
  <1>2. /\ Len(t) \in Nat /\ \A j \in 1..Len(t) : t[j] \in Characters
        /\ e \in (p + 1)..Len(t) /\ c \in Seq(Characters) /\ Len(c) = e - p
        /\ \A i \in 1..(e - p) : c[i] = t[p + i]
    BY <1>1, ChunkFacts, LenProperties
  <1>3. PICK n \in 0..Len(c) : CString(c) = SubSeq(c, 1, n)
    BY <1>2, CStringFacts
  <1>4. n \in Nat /\ n <= e - p /\ e \in Nat
    BY <1>2
  <1>5. PICK u, v : u = SubSeq(c, 1, n) /\ v = SubSeq(t, p + 1, p + n)
    OBVIOUS
  <1>6. u \in Seq(Characters) /\ Len(u) = n /\ \A i \in 1..n : u[i] = t[p + i]
    <2>1. \A i \in 1..n : i \in 1..(e - p)
      BY <1>2, <1>4
    <2>2. \A i \in 1..n : c[i] \in Characters /\ c[i] = t[p + i]
      BY <1>2, <2>1, LenProperties
    <2>3. n - 1 + 1 = n /\ (\A i \in 1..n : 1 + i - 1 = i) /\ (1 <= n <=> n # 0)
      BY <1>4
    <2>4. /\ u \in Seq(Characters) /\ Len(u) = IF 1 <= n THEN n - 1 + 1 ELSE 0
          /\ \A i \in 1..(n - 1 + 1) : u[i] = c[1 + i - 1]
      BY <1>4, <1>5, <2>2, SubSeqProperties
    <2>5. QED
      BY <2>2, <2>3, <2>4
  <1>7. v \in Seq(Characters) /\ Len(v) = n /\ \A i \in 1..n : v[i] = t[p + i]
    <2>1. \A i \in (p + 1)..(p + n) : t[i] \in Characters
      BY <1>2, <1>4
    <2>2. p + n - (p + 1) + 1 = n /\ (\A i \in 1..n : p + 1 + i - 1 = p + i) /\ (p + 1 <= p + n <=> n # 0)
      BY <1>4
    <2>3. /\ v \in Seq(Characters) /\ Len(v) = IF p + 1 <= p + n THEN p + n - (p + 1) + 1 ELSE 0
          /\ \A i \in 1..(p + n - (p + 1) + 1) : v[i] = t[p + 1 + i - 1]
      BY <1>4, <1>5, <2>1, SubSeqProperties
    <2>4. QED
      BY <2>2, <2>3
  <1>8. u = v
    BY <1>6, <1>7, SeqEqual
  <1>9. p + 1 \in 1..(Len(t) - Len(u) + 1) /\ p + 1 + Len(u) - 1 = p + n
    BY <1>2, <1>4, <1>6
  <1>10. Holds(t, u)
    BY <1>5, <1>8, <1>9 DEF Holds
  <1>11. QED
    BY <1>1, <1>3, <1>5, <1>6, <1>10

LEMMA PlacesAreNumbers ==
    ASSUME NEW t \in Seq(Characters)
    PROVE  /\ Starts(t) \in SUBSET (1..Len(t)) /\ IsFiniteSet(Starts(t)) /\ Starts(t) \in SUBSET Nat
           /\ Found(t) \in SUBSET Starts(t) /\ IsFiniteSet(Found(t)) /\ Found(t) \in SUBSET Nat
           /\ KeptIn(t) \in SUBSET (1..Len(t))
           /\ IsFiniteSet(KeptIn(t) \cap Starts(t)) /\ KeptIn(t) \cap Starts(t) \in SUBSET Nat
  <1>1. Len(t) \in Nat /\ IsFiniteSet(1..Len(t)) /\ 1..Len(t) \in SUBSET Nat
    BY LenProperties, FS_Interval
  <1>2. /\ Starts(t) \in SUBSET (1..Len(t)) /\ Found(t) \in SUBSET Starts(t)
        /\ KeptIn(t) \in SUBSET (1..Len(t)) /\ KeptIn(t) \cap Starts(t) \in SUBSET (1..Len(t))
    BY DEF Starts, Found, KeptIn
  <1>3. Found(t) \in SUBSET (1..Len(t))
    BY <1>2
  <1>4. QED
    BY <1>1, <1>2, <1>3, FS_Subset

\* The numbers of grep: one more with every line, or with every match.
LEMMA GrepCounts ==
    ASSUME NEW t \in Seq(Characters), NEW p \in Nat, p < Len(t), Tidy(t), Between(t, p)
    PROVE  /\ p + 1 \in Found(t) <=> Holds(LineAt(t, p + 1), pattern)
           /\ \A k \in Found(t) : k <= ChunkEnd(t, p) => k <= p \/ k = p + 1
           /\ Rank(Counted(t), ChunkEnd(t, p)) =
                 IF Holds(LineAt(t, p + 1), pattern) \/ tool = "grep"
                 THEN Rank(Counted(t), p) + 1 ELSE Rank(Counted(t), p)
           /\ p + 1 \in Counted(t) => Rank(Counted(t), p + 1) = Rank(Counted(t), p) + 1
  <1> DEFINE e == ChunkEnd(t, p)
  <1>1. /\ p + 1 \in Starts(t)
        /\ \A k \in (p + 2)..e : k \notin Starts(t)
    BY TidyChunk
  <1>2. Len(t) \in Nat /\ e \in (p + 1)..Len(t)
    BY ChunkFacts, LenProperties
  <1>3. /\ Starts(t) \in SUBSET Nat /\ IsFiniteSet(Starts(t))
        /\ Found(t) \in SUBSET Starts(t) /\ Found(t) \in SUBSET Nat /\ IsFiniteSet(Found(t))
    BY PlacesAreNumbers
  <1> HIDE DEF e
  <1>4. e \in Nat /\ p + 1 <= e /\ p <= e /\ p < p + 1 /\ p + 1 \in Nat
    BY <1>2
  <1>5. \A k \in Starts(t) : k <= e => k <= p \/ k = p + 1
    <2> SUFFICES ASSUME NEW k \in Starts(t), k <= e, ~(k <= p), k # p + 1 PROVE FALSE
      OBVIOUS
    <2>1. k \in Nat
      BY <1>3
    <2>2. k \in (p + 2)..e
      BY <1>4, <2>1
    <2>3. QED
      BY <1>1, <2>2
  <1>6. PICK C : C = Counted(t)
    OBVIOUS
  <1>7. /\ C \in SUBSET Nat /\ IsFiniteSet(C)
        /\ \A k \in C : k <= e => k <= p \/ k = p + 1
    BY <1>3, <1>5, <1>6 DEF Counted
  <1>8. p + 1 \in Found(t) <=> Holds(LineAt(t, p + 1), pattern)
    BY <1>1 DEF Found
  <1>9. p + 1 \in C <=> Holds(LineAt(t, p + 1), pattern) \/ tool = "grep"
    BY <1>1, <1>6, <1>8 DEF Counted
  <1>10. CASE p + 1 \in C
    <2>1. Rank(C, e) = Rank(C, p) + 1
      BY <1>4, <1>7, <1>10, RankOneMore
    <2>2. \A k \in C : k <= p + 1 => k <= p \/ k = p + 1
      BY <1>4, <1>7
    <2>3. Rank(C, p + 1) = Rank(C, p) + 1
      <3>1. p + 1 <= p + 1
        BY <1>4
      <3>2. QED
        BY <1>4, <1>7, <1>10, <2>2, <3>1, RankOneMore
    <2>4. QED
      BY <1>3, <1>5, <1>6, <1>8, <1>9, <1>10, <2>1, <2>3 DEF e
  <1>11. CASE p + 1 \notin C
    <2>1. \A k \in C : k <= e => k <= p
      BY <1>7, <1>11
    <2>2. Rank(C, e) = Rank(C, p)
      BY <1>4, <1>7, <2>1, RankSame
    <2>3. QED
      BY <1>3, <1>5, <1>6, <1>8, <1>9, <1>11, <2>2 DEF e
  <1>12. QED
    BY <1>10, <1>11

LEMMA GrepSymbolKinds ==
    ASSUME NEW t \in Seq(Characters)
    PROVE  \A k \in 1..Len(t) : /\ GrepSymbols(t)[k] = Match(Rank(Counted(t), k), LineAt(t, k))
                                /\ GrepSymbols(t)[k] \in GrepLines
  <1> SUFFICES ASSUME NEW k \in 1..Len(t)
               PROVE  /\ GrepSymbols(t)[k] = Match(Rank(Counted(t), k), LineAt(t, k))
                      /\ GrepSymbols(t)[k] \in GrepLines
    OBVIOUS
  <1>1. k \in Nat
    BY LenProperties
  <1>2. Counted(t) \in SUBSET Nat /\ IsFiniteSet(Counted(t))
    BY PlacesAreNumbers DEF Counted
  <1>3. Rank(Counted(t), k) \in Nat
    <2>1. Cardinality(Counted(t)) \in Nat /\ Rank(Counted(t), k) \in 0..Cardinality(Counted(t))
      BY <1>1, <1>2, RankKind
    <2>2. QED
      BY <2>1
  <1>4. LineAt(t, k) \in Seq(Characters)
    BY LineFacts
  <1>5. QED
    BY <1>3, <1>4 DEF GrepSymbols, Match, GrepLines

\* After one more chunk of the file, for a line that matches and for one that does not.
LEMMA GrepShowsMatch ==
    ASSUME NEW t \in Seq(Characters), NEW p \in Nat, p < Len(t), NEW s \in Seq(GrepLines), NEW c \in Nat,
           GrepShows(t, p, s), \A k \in 1..Len(s) : s[k].number < c,
           Tidy(t) => Between(t, p) /\ c = Rank(Counted(t), p) + 1,
           Holds(CString(Chunk(t, p)), pattern)
    PROVE  LET line == CString(Chunk(t, p))
               r    == Append(s, Match(c, line))
           IN  /\ GrepShows(t, ChunkEnd(t, p), r) /\ Match(c, line) \in GrepLines
               /\ r \in Seq(GrepLines) /\ Len(r) = Len(s) + 1 /\ \A k \in 1..Len(r) : r[k].number < c + 1
  <1> DEFINE line == CString(Chunk(t, p))  m == Match(c, line)  r == Append(s, m)  e == ChunkEnd(t, p)
  <1>1. Holds(t, line) /\ line \in Seq(Characters)
    BY ChunkIsInFile
  <1>2. Holds(line, pattern)
    OBVIOUS
  <1> HIDE DEF line
  <1>3. m \in GrepLines /\ m.number = c /\ m.text = line
    BY <1>1 DEF GrepLines, Match
  <1> HIDE DEF m
  <1>4. /\ r \in Seq(GrepLines) /\ Len(r) = Len(s) + 1 /\ Len(s) \in Nat
        /\ \A k \in 1..Len(s) : r[k] = s[k]
        /\ r[Len(s) + 1] = m
    BY <1>3, AppendProperties, LenProperties
  <1> HIDE DEF r
  <1>5. \A k \in 1..Len(r) : k \in 1..Len(s) \/ k = Len(s) + 1
    BY <1>4
  <1>6. \A k \in 1..Len(s) : s[k].number \in Nat
    <2>1. \A k \in 1..Len(s) : s[k] \in GrepLines
      BY LenProperties
    <2>2. \A x \in GrepLines : x.number \in Nat
      BY DEF GrepLines
    <2>3. QED
      BY <2>1, <2>2
  <1>7. ASSUME NEW k \in 1..Len(r) PROVE r[k].number < c + 1
    <2>1. CASE k \in 1..Len(s)
      BY <1>4, <1>6, <2>1
    <2>2. CASE k = Len(s) + 1
      BY <1>3, <1>4, <2>2
    <2>3. QED
      BY <1>5, <2>1, <2>2
  <1>8. ASSUME NEW k \in 1..Len(r)
        PROVE  /\ Holds(r[k].text, pattern) /\ Holds(t, r[k].text)
               /\ k > 1 => r[k - 1].number < r[k].number
    <2>1. CASE k \in 1..Len(s)
      <3>1. Holds(s[k].text, pattern) /\ Holds(t, s[k].text) /\ (k > 1 => s[k - 1].number < s[k].number)
        BY <2>1 DEF GrepShows
      <3>2. k > 1 => k - 1 \in 1..Len(s)
        BY <1>4, <2>1
      <3>3. QED
        BY <1>4, <2>1, <3>1, <3>2
    <2>2. CASE k = Len(s) + 1
      <3>1. k > 1 => k - 1 \in 1..Len(s)
        BY <1>4, <2>2
      <3>2. k > 1 => r[k - 1].number < c
        BY <1>4, <3>1
      <3>3. QED
        BY <1>1, <1>2, <1>3, <1>4, <2>2, <3>2
    <2>3. QED
      BY <1>5, <2>1, <2>2
  <1>9. ASSUME Tidy(t) PROVE r = Picked(GrepSymbols(t), {k \in Found(t) : k <= e})
    <2> DEFINE P == {k \in Found(t) : k <= p}
    <2>1. Between(t, p) /\ c = Rank(Counted(t), p) + 1 /\ s = Picked(GrepSymbols(t), P)
      BY <1>9 DEF GrepShows
    <2>2. /\ p + 1 \in Starts(t) /\ line = LineAt(t, p + 1)
      BY <1>9, <2>1, TidyChunk DEF line
    <2>3. p + 1 \in Found(t)
      BY <1>2, <2>2 DEF Found
    <2>4. /\ \A k \in Found(t) : k <= e => k <= p \/ k = p + 1
          /\ p + 1 \in Counted(t) => Rank(Counted(t), p + 1) = Rank(Counted(t), p) + 1
      BY <1>9, <2>1, GrepCounts
    <2>5. /\ Found(t) \in SUBSET Starts(t) /\ Starts(t) \in SUBSET (1..Len(t))
          /\ Found(t) \in SUBSET Nat /\ IsFiniteSet(Found(t))
      BY PlacesAreNumbers
    <2>6. p + 1 \in 1..Len(t) /\ p + 1 \in Counted(t)
      BY <2>2, <2>3, <2>5 DEF Counted
    <2>7. GrepSymbols(t)[p + 1] = m
      BY <2>1, <2>2, <2>4, <2>6, GrepSymbolKinds DEF m
    <2>8. e \in Nat /\ p < p + 1 /\ p + 1 <= e /\ p + 1 \in Nat
      BY ChunkFacts, LenProperties
    <2>9. {k \in Found(t) : k <= e} = P \cup {p + 1}
      BY <2>3, <2>4, <2>5, <2>8, RankOneMore
    <2>10. P \in SUBSET Nat /\ IsFiniteSet(P) /\ (\A h \in P : h < p + 1)
      <3>1. P \in SUBSET Found(t)
        OBVIOUS
      <3>2. IsFiniteSet(P) /\ P \in SUBSET Nat
        BY <2>5, <3>1, FS_Subset
      <3>3. \A h \in P : h < p + 1
        BY <3>2
      <3>4. QED
        BY <3>2, <3>3
    <2>11. \A k \in P \cup {p + 1} : GrepSymbols(t)[k] \in GrepLines
      <3>1. P \cup {p + 1} \in SUBSET (1..Len(t))
        BY <2>5, <2>6
      <3>2. QED
        BY <3>1, GrepSymbolKinds
    <2> HIDE DEF P, e
    <2>12. Picked(GrepSymbols(t), P \cup {p + 1}) = Append(Picked(GrepSymbols(t), P), GrepSymbols(t)[p + 1])
      BY <2>8, <2>10, <2>11, PickedMore
    <2>13. QED
      BY <2>1, <2>7, <2>9, <2>12 DEF r
  <1>10. GrepShows(t, e, r)
    BY <1>8, <1>9 DEF GrepShows
  <1>11. QED
    BY <1>3, <1>4, <1>7, <1>10 DEF line, m, r, e

LEMMA GrepShowsOther ==
    ASSUME NEW t \in Seq(Characters), NEW p \in Nat, p < Len(t), NEW s, GrepShows(t, p, s),
           Tidy(t) => Between(t, p),
           ~Holds(CString(Chunk(t, p)), pattern)
    PROVE  GrepShows(t, ChunkEnd(t, p), s)
  <1> DEFINE e == ChunkEnd(t, p)
  <1>1. ASSUME Tidy(t) PROVE {k \in Found(t) : k <= e} = {k \in Found(t) : k <= p}
    <2>1. Between(t, p)
      BY <1>1
    <2>2. CString(Chunk(t, p)) = LineAt(t, p + 1)
      BY <1>1, <2>1, TidyChunk
    <2>3. p + 1 \notin Found(t) /\ \A k \in Found(t) : k <= e => k <= p \/ k = p + 1
      BY <1>1, <2>1, <2>2, GrepCounts
    <2>4. e \in Nat /\ p <= e
      BY ChunkFacts, LenProperties
    <2>5. Found(t) \in SUBSET Nat /\ \A k \in Found(t) : k <= e => k <= p
      BY <2>3, PlacesAreNumbers
    <2> HIDE DEF e
    <2>6. QED
      BY <2>4, <2>5, RankSame
  <1>2. QED
    BY <1>1 DEF GrepShows

-----------------------------------------------------------------------------
(* What mycat writes                                                       *)

LEMMA PickedNone ==
    ASSUME NEW f
    PROVE  Picked(f, {}) = <<>>
  <1>1. Cardinality({}) = 0
    BY FS_EmptySet
  <1>2. QED
    BY <1>1 DEF Picked

LEMMA SymbolKinds ==
    /\ \A c \in Characters \cup {NL} : Char(c) \in CatSymbols /\ Char(c).kind = "char"
    /\ \A n \in Nat : Number(n) \in CatSymbols /\ Number(n).kind = "number"
    /\ Dollar \in CatSymbols /\ Dollar.kind = "mark"
  BY DEF CatSymbols, Char, Number, Dollar

LEMMA PlainKind ==
    ASSUME NEW s \in Seq(Characters)
    PROVE  /\ Plain(s) \in Seq(CatSymbols) /\ Len(Plain(s)) = Len(s)
           /\ \A i \in 1..Len(s) : Plain(s)[i] = Char(s[i]) /\ Plain(s)[i].kind = "char"
  <1>1. Len(s) \in Nat /\ \A i \in 1..Len(s) : s[i] \in Characters
    BY LenProperties
  <1>2. \A i \in 1..Len(s) : Char(s[i]) \in CatSymbols /\ Char(s[i]).kind = "char"
    BY <1>1, SymbolKinds
  <1>3. Plain(s) = [i \in 1..Len(s) |-> Char(s[i])]
    BY DEF Plain
  <1>4. QED
    BY <1>1, <1>2, <1>3

LEMMA CharsAreNumbers ==
    ASSUME NEW s \in Seq(CatSymbols)
    PROVE  /\ CharsOf(s) \in SUBSET (1..Len(s)) /\ CharsOf(s) \in SUBSET Nat /\ IsFiniteSet(CharsOf(s))
           /\ \A i \in CharsOf(s) : s[i] \in CatSymbols
  <1>1. Len(s) \in Nat /\ IsFiniteSet(1..Len(s)) /\ 1..Len(s) \in SUBSET Nat
    BY LenProperties, FS_Interval
  <1>2. CharsOf(s) \in SUBSET (1..Len(s))
    BY DEF CharsOf
  <1>3. \A i \in 1..Len(s) : s[i] \in CatSymbols
    BY LenProperties
  <1>4. QED
    BY <1>1, <1>2, <1>3, FS_Subset

\* The characters of what is written in two goes are those of the one and of the other.
LEMMA CharsOfConcat ==
    ASSUME NEW a \in Seq(CatSymbols), NEW b \in Seq(CatSymbols)
    PROVE  Picked(a \o b, CharsOf(a \o b)) = Picked(a, CharsOf(a)) \o Picked(b, CharsOf(b))
  <1> DEFINE A == CharsOf(a)  B == CharsOf(b)  T == {Len(a) + i : i \in B}  n == Cardinality(B)
             g == [i \in 1..n |-> Len(a) + Nth(B, i)]
  <1>1. PICK c : c = a \o b
    OBVIOUS
  <1>2. /\ c \in Seq(CatSymbols) /\ Len(c) = Len(a) + Len(b) /\ Len(a) \in Nat /\ Len(b) \in Nat
        /\ \A i \in 1..(Len(a) + Len(b)) : c[i] = IF i <= Len(a) THEN a[i] ELSE b[i - Len(a)]
    BY <1>1, ConcatProperties, LenProperties
  <1>3. /\ \A i \in 1..Len(a) : c[i] = a[i] /\ i \in 1..Len(c)
        /\ \A i \in 1..Len(b) : c[Len(a) + i] = b[i] /\ Len(a) + i \in 1..Len(c)
    <2>1. \A i \in 1..Len(a) : i <= Len(a) /\ i \in 1..(Len(a) + Len(b))
      BY <1>2
    <2>2. \A i \in 1..Len(b) : /\ Len(a) + i \in 1..(Len(a) + Len(b)) /\ ~(Len(a) + i <= Len(a))
                               /\ Len(a) + i - Len(a) = i
      BY <1>2
    <2>3. \A i \in 1..Len(a) : c[i] = a[i]
      BY <1>2, <2>1
    <2>4. \A i \in 1..Len(b) : c[Len(a) + i] = b[i]
      BY <1>2, <2>2
    <2>5. QED
      BY <1>2, <2>1, <2>2, <2>3, <2>4
  <1>4. \A i \in 1..Len(c) : i \in 1..Len(a) \/ \E j \in 1..Len(b) : i = Len(a) + j
    <2> SUFFICES ASSUME NEW i \in 1..Len(c), i \notin 1..Len(a) PROVE \E j \in 1..Len(b) : i = Len(a) + j
      OBVIOUS
    <2>1. i - Len(a) \in 1..Len(b) /\ i = Len(a) + (i - Len(a))
      BY <1>2
    <2>2. QED
      BY <2>1
  <1>5. /\ A \in SUBSET (1..Len(a)) /\ A \in SUBSET Nat /\ IsFiniteSet(A)
        /\ B \in SUBSET (1..Len(b)) /\ B \in SUBSET Nat /\ IsFiniteSet(B)
        /\ \A i \in 1..Len(a) : i \in A <=> a[i].kind = "char"
        /\ \A i \in 1..Len(b) : i \in B <=> b[i].kind = "char"
    BY CharsAreNumbers DEF CharsOf
  <1> HIDE DEF A, B
  <1>6. CharsOf(c) = A \cup T
    <2>1. ASSUME NEW i \in CharsOf(c) PROVE i \in A \cup T
      <3>1. i \in 1..Len(c) /\ c[i].kind = "char"
        BY DEF CharsOf
      <3>2. CASE i \in 1..Len(a)
        BY <1>3, <1>5, <3>1, <3>2
      <3>3. CASE i \notin 1..Len(a)
        <4>1. PICK j \in 1..Len(b) : i = Len(a) + j
          BY <1>4, <3>1, <3>3
        <4>2. b[j].kind = "char"
          BY <1>3, <3>1, <4>1
        <4>3. j \in B
          BY <1>5, <4>2
        <4>4. QED
          BY <4>1, <4>3
      <3>4. QED
        BY <3>2, <3>3
    <2>2. ASSUME NEW i \in A PROVE i \in CharsOf(c)
      BY <1>3, <1>5 DEF CharsOf
    <2>3. ASSUME NEW i \in B PROVE Len(a) + i \in CharsOf(c)
      <3>1. i \in 1..Len(b) /\ b[i].kind = "char"
        BY <1>5
      <3>2. QED
        BY <1>3, <3>1 DEF CharsOf
    <2>4. QED
      BY <2>1, <2>2, <2>3
  <1>7. /\ n \in Nat /\ \A i \in 1..n : Nth(B, i) \in B
        /\ \A i, j \in 1..n : i < j => Nth(B, i) < Nth(B, j)
        /\ \A k \in B : Rank(B, k) \in 1..n /\ Nth(B, Rank(B, k)) = k
    BY <1>5, RankKind, NthOfRank, NthGrows
  <1>8. \A i \in 1..n : Nth(B, i) \in 1..Len(b) /\ Nth(B, i) \in Nat
    BY <1>5, <1>7
  <1> HIDE DEF n
  <1>9. Lists(g, n, T)
    <2>1. g \in [1..n -> Nat] /\ \A i \in 1..n : g[i] = Len(a) + Nth(B, i)
      BY <1>2, <1>8
    <2> HIDE DEF g
    <2>2. \A i, j \in 1..n : i < j => g[i] < g[j]
      <3> SUFFICES ASSUME NEW i \in 1..n, NEW j \in 1..n, i < j PROVE g[i] < g[j]
        OBVIOUS
      <3>1. Nth(B, i) < Nth(B, j) /\ Nth(B, i) \in Nat /\ Nth(B, j) \in Nat
        BY <1>7, <1>8
      <3>2. QED
        BY <1>2, <2>1, <3>1
    <2>3. \A i \in 1..n : g[i] \in T
      BY <1>7, <2>1
    <2>4. \A k \in T : \E i \in 1..n : g[i] = k
      BY <1>7, <2>1
    <2>5. QED
      BY <1>7, <2>1, <2>2, <2>3, <2>4 DEF Lists
  <1>10. /\ T \in SUBSET Nat /\ IsFiniteSet(T) /\ Cardinality(T) = n
         /\ \A i \in 1..n : Nth(T, i) = Len(a) + Nth(B, i)
    <2>1. PICK S, h : S = T /\ h = g
      OBVIOUS
    <2>2. Lists(h, n, S)
      BY <1>9, <2>1
    <2>3. /\ S \in SUBSET Nat /\ IsFiniteSet(S) /\ Cardinality(S) = n
          /\ \A i \in 1..n : Rank(S, h[i]) = i /\ Nth(S, i) = h[i]
      BY <2>2, NthInOrder
    <2>4. QED
      BY <2>1, <2>3
  <1>11. \A s \in A, t \in T : s < t
    <2> SUFFICES ASSUME NEW s \in A, NEW i \in B PROVE s < Len(a) + i
      OBVIOUS
    <2>1. s \in 1..Len(a) /\ i \in 1..Len(b)
      BY <1>5
    <2>2. QED
      BY <1>2, <2>1
  <1>12. Picked(c, T) = Picked(b, B)
    <2>1. \A i \in 1..n : c[Nth(T, i)] = b[Nth(B, i)]
      BY <1>3, <1>8, <1>10
    <2>2. Cardinality(B) = n
      BY DEF n
    <2>3. QED
      BY <1>10, <2>1, <2>2 DEF Picked
  <1> HIDE DEF T
  <1>13. Picked(c, A) = Picked(a, A)
    BY <1>3, <1>5, PickedSame
  <1>14. \A k \in A \cup T : c[k] \in CatSymbols
    BY <1>2, <1>6, CharsAreNumbers
  <1>15. Picked(c, A \cup T) = Picked(c, A) \o Picked(c, T)
    BY <1>5, <1>10, <1>11, <1>14, PickedConcat
  <1>16. QED
    BY <1>1, <1>6, <1>12, <1>13, <1>15 DEF A, B

LEMMA CharsOfPlain ==
    ASSUME NEW s \in Seq(Characters)
    PROVE  Picked(Plain(s), CharsOf(Plain(s))) = Plain(s)
  <1> DEFINE n == Len(s)  S == CharsOf(Plain(s))  g == [i \in 1..n |-> i]
  <1>1. n \in Nat
    BY LenProperties
  <1>2. /\ Plain(s) = [i \in 1..n |-> Plain(s)[i]] /\ Len(Plain(s)) = n
        /\ \A i \in 1..n : Plain(s)[i].kind = "char"
    BY PlainKind DEF Plain
  <1>3. S = 1..n
    BY <1>2 DEF CharsOf
  <1> HIDE DEF S, n
  <1>4. Lists(g, n, S)
    BY <1>1, <1>3 DEF Lists
  <1>5. Cardinality(S) = n /\ \A i \in 1..n : Nth(S, i) = g[i]
    <2>1. PICK T, h : T = S /\ h = g
      OBVIOUS
    <2>2. Lists(h, n, T)
      BY <1>4, <2>1
    <2>3. /\ T \in SUBSET Nat /\ IsFiniteSet(T) /\ Cardinality(T) = n
          /\ \A i \in 1..n : Rank(T, h[i]) = i /\ Nth(T, i) = h[i]
      BY <2>2, NthInOrder
    <2>4. QED
      BY <2>1, <2>3
  <1>6. \A i \in 1..n : Nth(S, i) = i
    BY <1>5
  <1>7. Picked(Plain(s), S) = [i \in 1..n |-> Plain(s)[i]]
    BY <1>5, <1>6 DEF Picked
  <1>8. QED
    BY <1>2, <1>7 DEF S

\* A number or a $ alone has no characters.
LEMMA CharsOfMark ==
    ASSUME NEW x \in CatSymbols, x.kind # "char"
    PROVE  <<x>> \in Seq(CatSymbols) /\ Picked(<<x>>, CharsOf(<<x>>)) = <<>>
  <1>1. PICK s : s = <<x>>
    OBVIOUS
  <1>2. s \in Seq(CatSymbols) /\ Len(s) = 1 /\ s[1] = x
    BY <1>1
  <1>3. CharsOf(s) = {}
    BY <1>2 DEF CharsOf
  <1>4. Picked(s, {}) = <<>>
    BY PickedNone
  <1>5. QED
    BY <1>1, <1>2, <1>3, <1>4

\* A text in two parts.
LEMMA PlainConcat ==
    ASSUME NEW a \in Seq(Characters), NEW b \in Seq(Characters)
    PROVE  Plain(a \o b) = Plain(a) \o Plain(b)
  <1>1. PICK c, u, v : c = a \o b /\ u = Plain(c) /\ v = Plain(a) \o Plain(b)
    OBVIOUS
  <1>2. /\ c \in Seq(Characters) /\ Len(c) = Len(a) + Len(b) /\ Len(a) \in Nat /\ Len(b) \in Nat
        /\ \A i \in 1..(Len(a) + Len(b)) : c[i] = IF i <= Len(a) THEN a[i] ELSE b[i - Len(a)]
    BY <1>1, ConcatProperties, LenProperties
  <1>3. /\ Plain(a) \in Seq(CatSymbols) /\ Len(Plain(a)) = Len(a)
        /\ \A i \in 1..Len(a) : Plain(a)[i] = Char(a[i])
        /\ Plain(b) \in Seq(CatSymbols) /\ Len(Plain(b)) = Len(b)
        /\ \A i \in 1..Len(b) : Plain(b)[i] = Char(b[i])
        /\ u \in Seq(CatSymbols) /\ Len(u) = Len(c)
        /\ \A i \in 1..Len(c) : u[i] = Char(c[i])
    BY <1>1, <1>2, PlainKind
  <1>4. /\ v \in Seq(CatSymbols) /\ Len(v) = Len(a) + Len(b)
        /\ \A i \in 1..(Len(a) + Len(b)) : v[i] = IF i <= Len(a) THEN Plain(a)[i] ELSE Plain(b)[i - Len(a)]
    BY <1>1, <1>3, ConcatProperties
  <1>5. ASSUME NEW i \in 1..Len(c) PROVE u[i] = v[i]
    <2>1. CASE i <= Len(a)
      <3>1. i \in 1..Len(a)
        BY <1>2, <2>1
      <3>2. QED
        BY <1>2, <1>3, <1>4, <2>1, <3>1
    <2>2. CASE ~(i <= Len(a))
      <3>1. i - Len(a) \in 1..Len(b)
        BY <1>2, <2>2
      <3>2. QED
        BY <1>2, <1>3, <1>4, <2>2, <3>1
    <2>3. QED
      BY <2>1, <2>2
  <1>6. u = v
    BY <1>2, <1>3, <1>4, <1>5, SeqEqual
  <1>7. QED
    BY <1>1, <1>6

\* Whatever mark_ends, the characters of a line are written as they are.
LEMMA CharsOfMarked ==
    ASSUME NEW s \in Seq(Characters)
    PROVE  /\ Marked(s) \in Seq(CatSymbols)
           /\ Picked(Marked(s), CharsOf(Marked(s))) = Plain(s)
  <1>1. Plain(s) \in Seq(CatSymbols) /\ Picked(Plain(s), CharsOf(Plain(s))) = Plain(s)
    BY PlainKind, CharsOfPlain
  <1>2. /\ Dollar \in CatSymbols /\ <<Dollar>> \in Seq(CatSymbols)
        /\ Picked(<<Dollar>>, CharsOf(<<Dollar>>)) = <<>>
    BY SymbolKinds, CharsOfMark
  <1>3. CASE "E" \notin options
    BY <1>1, <1>3 DEF Marked
  <1>4. CASE "E" \in options /\ s # <<>> /\ s[Len(s)] = NL
    <2>1. Len(s) \in Nat /\ Len(s) # 0 /\ \A i \in 1..Len(s) : s[i] \in Characters
      BY <1>4, LenProperties, EmptySeq
    <2>2. NL \in Characters
      BY <1>4, <2>1
    <2>3. PICK a, b : a = SubSeq(s, 1, Len(s) - 1) /\ b = <<NL>>
      OBVIOUS
    <2>4. b \in Seq(Characters) /\ Plain(b) = <<Char(NL)>>
      BY <2>2, <2>3 DEF Plain
    <2>5. a \in Seq(Characters) /\ s = a \o b
      <3>1. /\ a \in Seq(Characters) /\ Len(a) = Len(s) - 1
            /\ \A i \in 1..(Len(s) - 1) : a[i] = s[i]
        <4>1. \A i \in 1..(Len(s) - 1) : s[i] \in Characters
          BY <2>1
        <4>2. /\ a \in Seq(Characters) /\ Len(a) = IF 1 <= Len(s) - 1 THEN Len(s) - 1 - 1 + 1 ELSE 0
              /\ \A i \in 1..(Len(s) - 1 - 1 + 1) : a[i] = s[1 + i - 1]
          BY <2>1, <2>3, <4>1, SubSeqProperties
        <4>3. PICK n : n = Len(s) - 1
          OBVIOUS
        <4>4. n \in Nat /\ n - 1 + 1 = n /\ (1 <= n <=> n # 0) /\ \A i \in 1..n : 1 + i - 1 = i
          BY <2>1, <4>3
        <4>5. QED
          BY <4>2, <4>3, <4>4
      <3>2. PICK c : c = a \o b
        OBVIOUS
      <3>3. /\ c \in Seq(Characters) /\ Len(c) = Len(s)
            /\ \A i \in 1..Len(s) : c[i] = s[i]
        <4>1. Len(b) = 1 /\ b[1] = NL
          BY <2>3
        <4>2. /\ c \in Seq(Characters) /\ Len(c) = Len(a) + Len(b)
              /\ \A i \in 1..(Len(a) + Len(b)) : c[i] = IF i <= Len(a) THEN a[i] ELSE b[i - Len(a)]
          BY <2>4, <3>1, <3>2, ConcatProperties
        <4>3. QED
          BY <1>4, <2>1, <3>1, <4>1, <4>2
      <3>4. c = s
        BY <3>3, SeqEqual
      <3>5. QED
        BY <3>1, <3>2, <3>4
    <2>6. Plain(s) = Plain(a) \o <<Char(NL)>>
      BY <2>4, <2>5, PlainConcat
    <2>7. PICK x, y, z : x = Plain(a) /\ y = <<Dollar>> /\ z = <<Char(NL)>>
      OBVIOUS
    <2>8. /\ x \in Seq(CatSymbols) /\ Picked(x, CharsOf(x)) = x
          /\ z \in Seq(CatSymbols) /\ Picked(z, CharsOf(z)) = z
      BY <2>4, <2>5, <2>7, PlainKind, CharsOfPlain
    <2>9. y \in Seq(CatSymbols) /\ Picked(y, CharsOf(y)) = <<>>
      BY <1>2, <2>7
    <2>10. <<Dollar, Char(NL)>> = y \o z /\ y \o z \in Seq(CatSymbols)
      BY <2>7, <2>8, <2>9
    <2>11. Picked(y \o z, CharsOf(y \o z)) = z
      BY <2>8, <2>9, CharsOfConcat, ConcatEmptySeq
    <2>12. Picked(x \o (y \o z), CharsOf(x \o (y \o z))) = x \o z
      BY <2>8, <2>10, <2>11, CharsOfConcat
    <2>13. Marked(s) = x \o (y \o z)
      BY <1>4, <2>3, <2>7, <2>10 DEF Marked
    <2>14. x \o (y \o z) \in Seq(CatSymbols)
      BY <2>8, <2>10, ConcatProperties
    <2>15. QED
      BY <2>6, <2>7, <2>12, <2>13, <2>14
  <1>5. CASE "E" \in options /\ ~(s # <<>> /\ s[Len(s)] = NL)
    <2>1. Marked(s) = Append(Plain(s), Dollar)
      BY <1>5 DEF Marked
    <2>2. Append(Plain(s), Dollar) = Plain(s) \o <<Dollar>> /\ Plain(s) \o <<Dollar>> \in Seq(CatSymbols)
      BY <1>1, <1>2, AppendIsConcat, ConcatProperties
    <2>3. Picked(Plain(s) \o <<Dollar>>, CharsOf(Plain(s) \o <<Dollar>>)) = Plain(s) \o <<>>
      BY <1>1, <1>2, CharsOfConcat
    <2>4. QED
      BY <1>1, <2>1, <2>2, <2>3, ConcatEmptySeq
  <1>6. QED
    BY <1>3, <1>4, <1>5

\* What is read up to the end of the chunk.
LEMMA ReadFurther ==
    ASSUME NEW t \in Seq(Characters), NEW p \in Nat, p < Len(t)
    PROVE  /\ SubSeq(t, 1, p) \in Seq(Characters)
           /\ SubSeq(t, 1, ChunkEnd(t, p)) = SubSeq(t, 1, p) \o Chunk(t, p)
  <1>1. PICK a, b, c, e : a = SubSeq(t, 1, p) /\ b = Chunk(t, p) /\ e = ChunkEnd(t, p) /\ c = SubSeq(t, 1, e)
    OBVIOUS
  <1>2. /\ Len(t) \in Nat /\ \A j \in 1..Len(t) : t[j] \in Characters
        /\ e \in (p + 1)..Len(t) /\ b \in Seq(Characters) /\ Len(b) = e - p
        /\ \A i \in 1..(e - p) : b[i] = t[p + i]
    BY <1>1, ChunkFacts, LenProperties
  <1>3. e \in Nat /\ e - 1 + 1 = e /\ (\A i \in 1..e : 1 + i - 1 = i) /\ 1 <= e
    BY <1>2
  <1>4. p - 1 + 1 = p /\ (\A i \in 1..p : 1 + i - 1 = i) /\ (1 <= p <=> p # 0)
    OBVIOUS
  <1>5. \A i \in 1..e : t[i] \in Characters
    BY <1>2
  <1>6. \A i \in 1..p : t[i] \in Characters
    BY <1>2
  <1>7. /\ a \in Seq(Characters) /\ Len(a) = p /\ \A i \in 1..p : a[i] = t[i]
    <2>1. /\ a \in Seq(Characters) /\ Len(a) = IF 1 <= p THEN p - 1 + 1 ELSE 0
          /\ \A i \in 1..(p - 1 + 1) : a[i] = t[1 + i - 1]
      BY <1>1, <1>6, SubSeqProperties
    <2>2. QED
      BY <1>4, <2>1
  <1>8. /\ c \in Seq(Characters) /\ Len(c) = e /\ \A i \in 1..e : c[i] = t[i]
    <2>1. /\ c \in Seq(Characters) /\ Len(c) = IF 1 <= e THEN e - 1 + 1 ELSE 0
          /\ \A i \in 1..(e - 1 + 1) : c[i] = t[1 + i - 1]
      BY <1>1, <1>3, <1>5, SubSeqProperties
    <2>2. QED
      BY <1>3, <2>1
  <1>9. PICK d : d = a \o b
    OBVIOUS
  <1>10. /\ d \in Seq(Characters) /\ Len(d) = Len(a) + Len(b)
         /\ \A i \in 1..(Len(a) + Len(b)) : d[i] = IF i <= Len(a) THEN a[i] ELSE b[i - Len(a)]
    BY <1>2, <1>7, <1>9, ConcatProperties
  <1>11. Len(a) + Len(b) = e
    BY <1>2, <1>3, <1>7
  <1>12. ASSUME NEW i \in 1..e PROVE d[i] = c[i]
    <2>1. CASE i <= p
      <3>1. i \in 1..p
        BY <1>3, <2>1
      <3>2. QED
        BY <1>7, <1>8, <1>10, <1>11, <2>1, <3>1
    <2>2. CASE ~(i <= p)
      <3>1. i - p \in 1..(e - p) /\ p + (i - p) = i
        BY <1>3, <2>2
      <3>2. QED
        BY <1>2, <1>7, <1>8, <1>10, <1>11, <2>2, <3>1
    <2>3. QED
      BY <2>1, <2>2
  <1>13. d = c
    BY <1>8, <1>10, <1>11, <1>12, SeqEqual
  <1>14. QED
    BY <1>1, <1>7, <1>9, <1>13

\* Without zeros the buffer is shown as it is.
LEMMA WholeChunk ==
    ASSUME NEW t \in Seq(Characters), NEW p \in Nat, p < Len(t), Whole(t)
    PROVE  CString(Chunk(t, p)) = Chunk(t, p) /\ Chunk(t, p) \in Seq(Characters)
  <1>1. /\ Len(t) \in Nat /\ ChunkEnd(t, p) \in (p + 1)..Len(t)
        /\ Chunk(t, p) \in Seq(Characters) /\ Len(Chunk(t, p)) = ChunkEnd(t, p) - p
        /\ \A i \in 1..(ChunkEnd(t, p) - p) : Chunk(t, p)[i] = t[p + i]
    BY ChunkFacts, LenProperties
  <1>2. ASSUME NEW i \in 1..(ChunkEnd(t, p) - p) PROVE Chunk(t, p)[i] # NUL
    <2>1. p + i \in 1..Len(t)
      BY <1>1
    <2>2. QED
      BY <1>1, <2>1 DEF Whole
  <1>3. QED
    BY <1>1, <1>2, CStringFacts

\* What is written before a line.
Prefix(c) == IF Numbered THEN <<Number(c)>> ELSE <<>>

LEMMA PrefixKind ==
    ASSUME NEW c \in Nat
    PROVE  Prefix(c) \in Seq(CatSymbols) /\ Picked(Prefix(c), CharsOf(Prefix(c))) = <<>>
  <1>1. CASE Numbered
    <2>1. PICK x : x = Number(c)
      OBVIOUS
    <2>2. x \in CatSymbols /\ x.kind = "number"
      BY <2>1, SymbolKinds
    <2>3. <<x>> \in Seq(CatSymbols) /\ Picked(<<x>>, CharsOf(<<x>>)) = <<>>
      BY <2>2, CharsOfMark
    <2>4. QED
      BY <1>1, <2>1, <2>3 DEF Prefix
  <1>2. CASE ~Numbered
    <2>1. PICK s : s = <<>>
      OBVIOUS
    <2>2. s \in Seq(CatSymbols) /\ CharsOf(s) = {}
      BY <2>1 DEF CharsOf
    <2>3. Picked(s, CharsOf(s)) = <<>>
      BY <2>2, PickedNone
    <2>4. QED
      BY <1>2, <2>1, <2>2, <2>3 DEF Prefix
  <1>3. QED
    BY <1>1, <1>2

\* The characters written are those read.
LEMMA CatShowsChars ==
    ASSUME NEW t \in Seq(Characters), NEW p \in Nat, p < Len(t), NEW s \in Seq(CatSymbols), NEW c \in Nat
    PROVE  /\ s \o Prefix(c) \o Marked(CString(Chunk(t, p))) \in Seq(CatSymbols)
           /\ Whole(t) /\ Picked(s, CharsOf(s)) = Plain(SubSeq(t, 1, p)) =>
                 LET r == s \o Prefix(c) \o Marked(CString(Chunk(t, p)))
                 IN  Picked(r, CharsOf(r)) = Plain(SubSeq(t, 1, ChunkEnd(t, p)))
  <1>1. PICK line, b, a : line = CString(Chunk(t, p)) /\ b = Marked(line) /\ a = Prefix(c)
    OBVIOUS
  <1>2. line \in Seq(Characters)
    BY <1>1, ChunkIsInFile
  <1>3. b \in Seq(CatSymbols) /\ Picked(b, CharsOf(b)) = Plain(line)
    BY <1>1, <1>2, CharsOfMarked
  <1>4. a \in Seq(CatSymbols) /\ Picked(a, CharsOf(a)) = <<>>
    BY <1>1, PrefixKind
  <1>5. s \o a \in Seq(CatSymbols) /\ s \o a \o b \in Seq(CatSymbols)
    BY <1>3, <1>4, ConcatProperties
  <1>6. ASSUME Whole(t), Picked(s, CharsOf(s)) = Plain(SubSeq(t, 1, p))
        PROVE  Picked(s \o a \o b, CharsOf(s \o a \o b)) = Plain(SubSeq(t, 1, ChunkEnd(t, p)))
    <2>1. line = Chunk(t, p)
      BY <1>1, <1>6, WholeChunk
    <2>2. PICK u : u = Plain(SubSeq(t, 1, p))
      OBVIOUS
    <2>3. SubSeq(t, 1, p) \in Seq(Characters) /\ SubSeq(t, 1, ChunkEnd(t, p)) = SubSeq(t, 1, p) \o line
      BY <2>1, ReadFurther
    <2>4. u \in Seq(CatSymbols)
      BY <2>2, <2>3, PlainKind
    <2>5. Plain(SubSeq(t, 1, ChunkEnd(t, p))) = u \o Plain(line)
      BY <1>2, <2>2, <2>3, PlainConcat
    <2>6. Picked(s \o a, CharsOf(s \o a)) = u \o <<>>
      BY <1>4, <1>6, <2>2, CharsOfConcat
    <2>7. Picked(s \o a, CharsOf(s \o a)) = u
      BY <2>4, <2>6, ConcatEmptySeq
    <2>8. Picked(s \o a \o b, CharsOf(s \o a \o b)) = u \o Plain(line)
      BY <1>3, <1>5, <2>7, CharsOfConcat
    <2>9. QED
      BY <2>5, <2>8
  <1>7. QED
    BY <1>1, <1>5, <1>6

-----------------------------------------------------------------------------
(* mycat and the reference                                                 *)

LEMMA SymbolAt ==
    ASSUME NEW t \in Seq(Characters)
    PROVE  /\ \A k \in 1..Len(t) :
                 /\ Symbols(t)[3 * k - 2] = Number(Rank(KeptIn(t) \cap Starts(t), k))
                 /\ Symbols(t)[3 * k - 1] = Dollar
                 /\ Symbols(t)[3 * k] = Char(t[k])
           /\ \A i \in 1..(3 * Len(t)) : Symbols(t)[i] \in CatSymbols
  <1>1. Len(t) \in Nat /\ \A k \in 1..Len(t) : t[k] \in Characters
    BY LenProperties
  <1>2. ASSUME NEW k \in 1..Len(t)
        PROVE  /\ 3 * k - 2 \in 1..(3 * Len(t)) /\ (3 * k - 2 + 2) \div 3 = k
               /\ 3 * k - 1 \in 1..(3 * Len(t)) /\ (3 * k - 1 + 2) \div 3 = k
               /\ 3 * k \in 1..(3 * Len(t)) /\ (3 * k + 2) \div 3 = k
               /\ 3 * k - 1 # 3 * k - 2 /\ 3 * k # 3 * k - 2 /\ 3 * k # 3 * k - 1
    BY <1>1
  <1>3. ASSUME NEW k \in 1..Len(t)
        PROVE  /\ Symbols(t)[3 * k - 2] = Number(Rank(KeptIn(t) \cap Starts(t), k))
               /\ Symbols(t)[3 * k - 1] = Dollar
               /\ Symbols(t)[3 * k] = Char(t[k])
    BY <1>2 DEF Symbols
  <1>4. ASSUME NEW k \in 1..Len(t)
        PROVE  /\ Number(Rank(KeptIn(t) \cap Starts(t), k)) \in CatSymbols
               /\ Dollar \in CatSymbols /\ Char(t[k]) \in CatSymbols
    <2>1. PICK K : K = KeptIn(t) \cap Starts(t)
      OBVIOUS
    <2>2. K \in SUBSET Nat /\ IsFiniteSet(K) /\ k \in Nat
      BY <1>1, <2>1, PlacesAreNumbers
    <2>3. Rank(K, k) \in 0..Cardinality(K) /\ Cardinality(K) \in Nat
      BY <2>2, RankKind
    <2>4. Rank(K, k) \in Nat
      BY <2>3
    <2>5. QED
      BY <1>1, <2>1, <2>4, SymbolKinds
  <1>5. ASSUME NEW i \in 1..(3 * Len(t)) PROVE Symbols(t)[i] \in CatSymbols
    <2>1. PICK k : k = (i + 2) \div 3
      OBVIOUS
    <2>2. k \in 1..Len(t) /\ (i = 3 * k - 2 \/ i = 3 * k - 1 \/ i = 3 * k)
      BY <1>1, <2>1
    <2>3. QED
      BY <1>3, <1>4, <2>2
  <1>6. QED
    BY <1>3, <1>5

\* One symbol.
LEMMA PickedOne ==
    ASSUME NEW f, NEW x \in Nat, NEW X, f[x] \in X
    PROVE  Picked(f, {x}) = <<f[x]>>
  <1>1. PICK S : S = {}
    OBVIOUS
  <1>2. S \in SUBSET Nat /\ IsFiniteSet(S) /\ (\A h \in S : h < x) /\ \A k \in S \cup {x} : f[k] \in X
    BY <1>1, FS_EmptySet
  <1>3. Picked(f, S \cup {x}) = Append(Picked(f, S), f[x])
    BY <1>2, PickedMore
  <1>4. Picked(f, S) = <<>> /\ S \cup {x} = {x}
    BY <1>1, PickedNone
  <1>5. ASSUME NEW y \in X PROVE Append(<<>>, y) = <<y>>
    OBVIOUS
  <1>6. QED
    BY <1>3, <1>4, <1>5

\* The characters of a part of the text.
CharPlaces(a, b) == {3 * k : k \in (a + 1)..b}

LEMMA PickedChars ==
    ASSUME NEW t \in Seq(Characters), NEW a \in Nat, NEW b \in Nat, a <= b, b <= Len(t)
    PROVE  /\ CharPlaces(a, b) \in SUBSET Nat /\ IsFiniteSet(CharPlaces(a, b))
           /\ \A i \in CharPlaces(a, b) : 3 * a < i /\ i <= 3 * b
           /\ Picked(Symbols(t), CharPlaces(a, b)) = Plain(SubSeq(t, a + 1, b))
  <1> DEFINE n == b - a  g == [i \in 1..n |-> 3 * (a + i)]
  <1>1. Len(t) \in Nat /\ n \in Nat /\ b = a + n
    BY LenProperties
  <1>2. PICK m, S, h : m = n /\ S = CharPlaces(a, b) /\ h = g
    OBVIOUS
  <1>3. Lists(h, m, S)
    <2>1. \A i \in 1..n : a + i \in (a + 1)..b /\ 3 * (a + i) \in Nat
      BY <1>1
    <2>2. \A k \in (a + 1)..b : k - a \in 1..n /\ 3 * (a + (k - a)) = 3 * k
      BY <1>1
    <2>3. \A i, j \in 1..n : i < j => 3 * (a + i) < 3 * (a + j)
      BY <1>1
    <2>4. g \in [1..n -> Nat] /\ \A i \in 1..n : g[i] = 3 * (a + i)
      BY <2>1
    <2> HIDE DEF g
    <2>5. \A i \in 1..n : g[i] \in CharPlaces(a, b)
      BY <2>1, <2>4 DEF CharPlaces
    <2>6. \A k \in CharPlaces(a, b) : \E i \in 1..n : g[i] = k
      BY <2>2, <2>4 DEF CharPlaces
    <2>7. \A i, j \in 1..n : i < j => g[i] < g[j]
      BY <2>3, <2>4
    <2> HIDE DEF n
    <2>8. QED
      BY <1>1, <1>2, <2>4, <2>5, <2>6, <2>7 DEF Lists
  <1>4. /\ S \in SUBSET Nat /\ IsFiniteSet(S) /\ Cardinality(S) = m
        /\ \A i \in 1..m : Rank(S, h[i]) = i /\ Nth(S, i) = h[i]
    BY <1>3, NthInOrder
  <1>5. \A i \in 1..m : Nth(S, i) = 3 * (a + i)
    BY <1>2, <1>4
  <1>6. PICK u : u = SubSeq(t, a + 1, b)
    OBVIOUS
  <1>7. Len(u) = m /\ \A i \in 1..m : u[i] = t[a + i]
    <2>1. \A i \in (a + 1)..b : t[i] \in Characters
      <3>1. \A i \in (a + 1)..b : i \in 1..Len(t)
        BY <1>1
      <3>2. QED
        BY <3>1, LenProperties
    <2>2. /\ u \in Seq(Characters) /\ Len(u) = IF a + 1 <= b THEN b - (a + 1) + 1 ELSE 0
          /\ \A i \in 1..(b - (a + 1) + 1) : u[i] = t[a + 1 + i - 1]
      BY <1>6, <2>1, SubSeqProperties
    <2>3. b - (a + 1) + 1 = m /\ (a + 1 <= b <=> m # 0) /\ \A i \in 1..m : a + 1 + i - 1 = a + i
      BY <1>1, <1>2
    <2>4. QED
      BY <2>2, <2>3
  <1>8. \A i \in 1..m : Symbols(t)[3 * (a + i)] = Char(u[i])
    <2>1. \A i \in 1..m : a + i \in 1..Len(t)
      BY <1>1, <1>2
    <2>2. QED
      BY <1>7, <2>1, SymbolAt
  <1>9. Picked(Symbols(t), S) = [i \in 1..m |-> Char(u[i])]
    BY <1>4, <1>5, <1>8 DEF Picked
  <1>10. Plain(u) = [i \in 1..m |-> Char(u[i])]
    BY <1>7 DEF Plain
  <1>11. \A i \in CharPlaces(a, b) : 3 * a < i /\ i <= 3 * b
    BY DEF CharPlaces
  <1>12. QED
    BY <1>2, <1>4, <1>6, <1>9, <1>10, <1>11

\* Which symbols are shown, and which of them belong to what is read next.
LEMMA PlaceKinds ==
    ASSUME NEW t \in Seq(Characters)
    PROVE  /\ Places(t) \in SUBSET (1..(3 * Len(t)))
           /\ \A i \in Places(t) : \E k \in KeptIn(t) :
                 \/ i = 3 * k
                 \/ i = 3 * k - 1 /\ "E" \in options /\ t[k] = NL
                 \/ i = 3 * k - 2 /\ Numbered /\ LineStart(t, k)
           /\ \A k \in KeptIn(t) :
                 /\ 3 * k \in Places(t)
                 /\ "E" \in options /\ t[k] = NL => 3 * k - 1 \in Places(t)
                 /\ Numbered /\ LineStart(t, k) => 3 * k - 2 \in Places(t)
  <1>1. Len(t) \in Nat /\ KeptIn(t) \in SUBSET (1..Len(t))
    BY LenProperties, PlacesAreNumbers
  <1>2. \A i \in Places(t) : \E k \in KeptIn(t) :
           \/ i = 3 * k
           \/ i = 3 * k - 1 /\ "E" \in options /\ t[k] = NL
           \/ i = 3 * k - 2 /\ Numbered /\ LineStart(t, k)
    <2> SUFFICES ASSUME NEW i \in Places(t)
                 PROVE  \E k \in KeptIn(t) : \/ i = 3 * k
                                             \/ i = 3 * k - 1 /\ "E" \in options /\ t[k] = NL
                                             \/ i = 3 * k - 2 /\ Numbered /\ LineStart(t, k)
      OBVIOUS
    <2>1. PICK k \in KeptIn(t) :
             i \in (IF Numbered /\ k \in KeptIn(t) /\ LineStart(t, k) THEN {3 * k - 2} ELSE {})
                   \cup (IF "E" \in options /\ t[k] = NL THEN {3 * k - 1} ELSE {})
                   \cup {3 * k}
      BY DEF Places, PlacesAt
    <2>2. QED
      BY <2>1
  <1>3. ASSUME NEW k \in KeptIn(t)
        PROVE  /\ 3 * k \in Places(t)
               /\ "E" \in options /\ t[k] = NL => 3 * k - 1 \in Places(t)
               /\ Numbered /\ LineStart(t, k) => 3 * k - 2 \in Places(t)
    <2>1. PICK F : F = (IF Numbered /\ k \in KeptIn(t) /\ LineStart(t, k) THEN {3 * k - 2} ELSE {})
                       \cup (IF "E" \in options /\ t[k] = NL THEN {3 * k - 1} ELSE {})
                       \cup {3 * k}
      OBVIOUS
    <2>2. \A i \in F : i \in Places(t)
      BY <2>1, Zenon DEF Places, PlacesAt
    <2>3. /\ 3 * k \in F
          /\ "E" \in options /\ t[k] = NL => 3 * k - 1 \in F
          /\ Numbered /\ LineStart(t, k) => 3 * k - 2 \in F
      BY <2>1
    <2>4. QED
      BY <2>2, <2>3
  <1>4. \A i \in Places(t) : i \in 1..(3 * Len(t))
    <2> SUFFICES ASSUME NEW i \in Places(t) PROVE i \in 1..(3 * Len(t))
      OBVIOUS
    <2>1. PICK k \in KeptIn(t) : i = 3 * k \/ i = 3 * k - 1 \/ i = 3 * k - 2
      BY <1>2
    <2>2. QED
      BY <1>1, <2>1
  <1>5. QED
    BY <1>2, <1>3, <1>4

\* The places to come to e are those to come to p and, between 3p and 3e, those here.
LEMMA PlacesFrom ==
    ASSUME NEW t \in Seq(Characters), NEW p \in Nat, NEW e \in Nat, p <= e, e <= Len(t), NEW Q,
           \A i \in Q : i \in Places(t) /\ i <= 3 * e,
           \A k \in KeptIn(t) : p < k /\ k <= e =>
               /\ 3 * k \in Q
               /\ "E" \in options /\ t[k] = NL => 3 * k - 1 \in Q
               /\ Numbered /\ LineStart(t, k) => 3 * k - 2 \in Q
    PROVE  PlacesTo(t, e) = PlacesTo(t, p) \cup Q
  <1>1. Len(t) \in Nat /\ KeptIn(t) \in SUBSET Nat
    <2>1. Len(t) \in Nat /\ \A k \in 1..Len(t) : k \in Nat
      BY LenProperties
    <2>2. QED
      BY <2>1, PlacesAreNumbers
  <1>2. Places(t) \in SUBSET Nat
    <2>1. \A i \in 1..(3 * Len(t)) : i \in Nat
      BY <1>1
    <2>2. QED
      BY <2>1, PlaceKinds
  <1>3. ASSUME NEW i \in Places(t), i <= 3 * e, ~(i <= 3 * p) PROVE i \in Q
    <2>1. PICK k \in KeptIn(t) :
             \/ i = 3 * k
             \/ i = 3 * k - 1 /\ "E" \in options /\ t[k] = NL
             \/ i = 3 * k - 2 /\ Numbered /\ LineStart(t, k)
      BY PlaceKinds
    <2>2. k \in Nat /\ p < k /\ k <= e
      BY <1>1, <1>3, <2>1
    <2>3. QED
      BY <2>1, <2>2
  <1>4. ASSUME NEW i \in Places(t), i <= 3 * p PROVE i <= 3 * e
    <2>1. i \in Nat
      BY <1>2
    <2>2. QED
      BY <1>4, <2>1
  <1>5. QED
    BY <1>3, <1>4 DEF PlacesTo

\* In a line that is not left out nothing is.
LEMMA LineIsKept ==
    ASSUME NEW t \in Seq(Characters), NEW p \in Nat, p < Len(t), Tidy(t), Between(t, p)
    PROVE  IF "b" \in options /\ LineAt(t, p + 1) = <<NL>>
           THEN \A k \in (p + 1)..ChunkEnd(t, p) : k \notin KeptIn(t)
           ELSE \A k \in (p + 1)..ChunkEnd(t, p) : k \in KeptIn(t)
  <1>1. PICK e, u : e = ChunkEnd(t, p) /\ u = LineAt(t, p + 1)
    OBVIOUS
  <1>2. /\ p + 1 \in Starts(t) /\ e = LineEnd(t, p + 1)
        /\ \A k \in (p + 2)..e : k \notin Starts(t)
    BY <1>1, TidyChunk
  <1>3. Len(t) \in Nat /\ p + 1 \in 1..Len(t) /\ p + 1 \in Nat
    BY LenProperties
  <1>4. /\ e \in (p + 1)..Len(t) /\ e \in Nat
        /\ \A j \in (p + 1)..(e - 1) : t[j] # NL
        /\ u \in Seq(Characters) /\ Len(u) = e - p
        /\ \A i \in 1..(e - p) : u[i] = t[p + i]
    <2>1. Chunk(t, p) = u
      BY <1>1, TidyChunk
    <2>2. /\ ChunkEnd(t, p) \in (p + 1)..Len(t)
          /\ \A j \in (p + 1)..(ChunkEnd(t, p) - 1) : t[j] # NL
          /\ Chunk(t, p) \in Seq(Characters) /\ Len(Chunk(t, p)) = ChunkEnd(t, p) - p
          /\ \A i \in 1..(ChunkEnd(t, p) - p) : Chunk(t, p)[i] = t[p + i]
      BY ChunkFacts
    <2>3. e \in Nat
      BY <1>1, <1>3, <2>2
    <2>4. QED
      BY <1>1, <2>1, <2>2, <2>3
  <1>5. CASE "b" \in options /\ u = <<NL>>
    <2>1. Len(u) = 1 /\ u[1] = NL
      BY <1>5
    <2>2. e = p + 1 /\ 1 \in 1..(e - p) /\ t[p + 1] = NL
      <3>1. e - p = 1
        BY <1>4, <2>1
      <3>2. e = p + 1 /\ 1 \in 1..(e - p)
        BY <1>4, <3>1
      <3>3. QED
        BY <1>4, <2>1, <3>2
    <2>3. p + 1 \notin KeptIn(t)
      BY <1>2, <1>5, <2>2 DEF KeptIn, Starts
    <2>4. \A k \in (p + 1)..e : k = p + 1
      BY <1>3, <2>2
    <2>5. QED
      BY <1>1, <1>5, <2>3, <2>4
  <1>6. CASE ~("b" \in options /\ u = <<NL>>)
    <2>1. ASSUME "b" \in options, t[p + 1] = NL PROVE FALSE
      <3>1. e = p + 1
        <4>1. p + 1 \notin (p + 1)..(e - 1)
          BY <1>4, <2>1
        <4>2. QED
          BY <1>3, <1>4, <4>1
      <3>2. Len(u) = 1 /\ u[1] = NL
        <4>1. e - p = 1 /\ 1 \in 1..(e - p)
          BY <1>3, <3>1
        <4>2. QED
          BY <1>4, <2>1, <4>1
      <3>3. PICK w : w = <<NL>>
        OBVIOUS
      <3>4. w \in Seq(Characters) /\ Len(w) = 1 /\ w[1] = NL
        <4>1. NL \in Characters
          <5>1. 1 \in 1..Len(u)
            BY <3>2
          <5>2. QED
            BY <1>4, <3>2, <5>1, LenProperties
        <4>2. QED
          BY <3>3, <4>1
      <3>5. u = w
        BY <1>4, <3>2, <3>4, SeqEqual
      <3>6. QED
        BY <1>6, <2>1, <3>3, <3>5
    <2>2. \A k \in (p + 1)..e : k \in 1..Len(t) /\ (k = p + 1 \/ k \in (p + 2)..e)
      BY <1>3, <1>4
    <2>3. ASSUME NEW k \in (p + 1)..e PROVE k \in KeptIn(t)
      <3>1. CASE k = p + 1
        BY <2>1, <2>2, <3>1 DEF KeptIn
      <3>2. CASE k \in (p + 2)..e
        BY <1>2, <2>2, <3>2 DEF KeptIn, Starts
      <3>3. QED
        BY <2>2, <3>1, <3>2
    <2>4. QED
      BY <1>1, <1>6, <2>3
  <1>7. QED
    BY <1>1, <1>5, <1>6

\* The numbers of cat: one more with every line that is kept.
LEMMA CatCounts ==
    ASSUME NEW t \in Seq(Characters), NEW p \in Nat, p < Len(t), Tidy(t), Between(t, p)
    PROVE  LET K == KeptIn(t) \cap Starts(t)
           IN  IF "b" \in options /\ LineAt(t, p + 1) = <<NL>>
               THEN Rank(K, ChunkEnd(t, p)) = Rank(K, p)
               ELSE /\ Rank(K, ChunkEnd(t, p)) = Rank(K, p) + 1
                    /\ Rank(K, p + 1) = Rank(K, p) + 1
  <1>1. PICK e, K : e = ChunkEnd(t, p) /\ K = KeptIn(t) \cap Starts(t)
    OBVIOUS
  <1>2. /\ p + 1 \in Starts(t)
        /\ \A k \in (p + 2)..e : k \notin Starts(t)
    BY <1>1, TidyChunk
  <1>3. e \in (p + 1)..Len(t) /\ Len(t) \in Nat
    BY <1>1, ChunkFacts, LenProperties
  <1>4. K \in SUBSET Nat /\ IsFiniteSet(K) /\ e \in Nat /\ p + 1 <= e /\ p <= e /\ p < p + 1 /\ p + 1 \in Nat
        /\ p + 1 <= p + 1
    <2>1. K \in SUBSET Nat /\ IsFiniteSet(K)
      BY <1>1, PlacesAreNumbers
    <2>2. e \in Nat /\ p + 1 <= e /\ p <= e /\ p < p + 1 /\ p + 1 \in Nat /\ p + 1 <= p + 1
      BY <1>3
    <2>3. QED
      BY <2>1, <2>2
  <1>5. \A k \in K : k <= e => k <= p \/ k = p + 1
    <2> SUFFICES ASSUME NEW k \in K, k <= e, ~(k <= p), k # p + 1 PROVE FALSE
      OBVIOUS
    <2>1. k \in Nat /\ k \in Starts(t)
      BY <1>1, <1>4
    <2>2. k \in (p + 2)..e
      BY <1>4, <2>1
    <2>3. QED
      BY <1>2, <2>1, <2>2
  <1>6. CASE "b" \in options /\ LineAt(t, p + 1) = <<NL>>
    <2>1. p + 1 \notin K
      <3>1. p + 1 \in (p + 1)..e
        BY <1>4
      <3>2. QED
        BY <1>1, <1>6, <3>1, LineIsKept
    <2>2. \A k \in K : k <= e => k <= p
      BY <1>5, <2>1
    <2>3. Rank(K, e) = Rank(K, p)
      BY <1>4, <2>2, RankSame
    <2>4. QED
      BY <1>1, <1>6, <2>3
  <1>7. CASE ~("b" \in options /\ LineAt(t, p + 1) = <<NL>>)
    <2>1. p + 1 \in K
      <3>1. p + 1 \in (p + 1)..e
        BY <1>4
      <3>2. p + 1 \in KeptIn(t)
        BY <1>1, <1>7, <3>1, LineIsKept
      <3>3. QED
        BY <1>1, <1>2, <3>2
    <2>2. Rank(K, e) = Rank(K, p) + 1
      BY <1>4, <1>5, <2>1, RankOneMore
    <2>3. \A k \in K : k <= p + 1 => k <= p \/ k = p + 1
      BY <1>4, <1>5
    <2>4. Rank(K, p + 1) = Rank(K, p) + 1
      BY <1>4, <2>1, <2>3, RankOneMore
    <2>5. QED
      BY <1>1, <1>7, <2>2, <2>4
  <1>8. QED
    BY <1>6, <1>7

\* The places of the characters from p to e and of the $ at the end.
MarkedPlaces(p, e) ==
    IF "E" \in options THEN CharPlaces(p, e - 1) \cup {3 * e - 1} \cup {3 * e} ELSE CharPlaces(p, e)

LEMMA PickedMarked ==
    ASSUME NEW t \in Seq(Characters), NEW p \in Nat, NEW e \in Nat, p < e, e <= Len(t),
           "E" \in options => t[e] = NL
    PROVE  /\ MarkedPlaces(p, e) \in SUBSET Nat /\ IsFiniteSet(MarkedPlaces(p, e))
           /\ \A i \in MarkedPlaces(p, e) : 3 * p + 1 < i /\ i <= 3 * e
           /\ Picked(Symbols(t), MarkedPlaces(p, e)) = Marked(SubSeq(t, p + 1, e))
  <1>1. Len(t) \in Nat /\ \A i \in 1..Len(t) : t[i] \in Characters
    BY LenProperties
  <1>2. PICK line : line = SubSeq(t, p + 1, e)
    OBVIOUS
  <1>3. CASE "E" \notin options
    <2>1. /\ CharPlaces(p, e) \in SUBSET Nat /\ IsFiniteSet(CharPlaces(p, e))
          /\ \A i \in CharPlaces(p, e) : 3 * p < i /\ i <= 3 * e
          /\ Picked(Symbols(t), CharPlaces(p, e)) = Plain(SubSeq(t, p + 1, e))
      <3>1. p <= e
        OBVIOUS
      <3>2. QED
        BY <3>1, PickedChars
    <2>2. \A i \in CharPlaces(p, e) : 3 * p + 1 < i
      BY DEF CharPlaces
    <2>3. QED
      BY <1>3, <2>1, <2>2 DEF MarkedPlaces, Marked
  <1>4. CASE "E" \in options
    <2>1. PICK d : d = e - 1
      OBVIOUS
    <2>2. d \in Nat /\ p <= d /\ d <= Len(t) /\ e = d + 1 /\ e \in 1..Len(t)
      BY <1>1, <2>1
    <2>3. PICK S : S = CharPlaces(p, d)
      OBVIOUS
    <2>4. /\ S \in SUBSET Nat /\ IsFiniteSet(S)
          /\ \A i \in S : 3 * p < i /\ i <= 3 * d
          /\ Picked(Symbols(t), S) = Plain(SubSeq(t, p + 1, d))
      BY <2>2, <2>3, PickedChars
    <2>5. \A i \in S : 3 * p + 1 < i
      BY <2>3 DEF CharPlaces
    <2>6. PICK x, y : x = 3 * e - 1 /\ y = 3 * e
      OBVIOUS
    <2>7. x \in Nat /\ y \in Nat /\ x < y /\ (\A i \in S : i < x /\ i < y)
          /\ 3 * p + 1 < x /\ 3 * p + 1 < y /\ x <= 3 * e /\ y <= 3 * e
      BY <2>2, <2>4, <2>6
    <2>8. Symbols(t)[x] = Dollar /\ Symbols(t)[y] = Char(NL)
      BY <1>4, <2>2, <2>6, SymbolAt
    <2>9. \A k \in S \cup {x} \cup {y} : Symbols(t)[k] \in CatSymbols
      <3>1. \A k \in S \cup {x} \cup {y} : k \in 1..(3 * Len(t))
        BY <1>1, <2>2, <2>4, <2>6
      <3>2. QED
        BY <3>1, SymbolAt
    <2>10. /\ Picked(Symbols(t), S \cup {x}) = Append(Picked(Symbols(t), S), Symbols(t)[x])
           /\ IsFiniteSet(S \cup {x})
      <3>1. (\A h \in S : h < x) /\ (\A k \in S \cup {x} : Symbols(t)[k] \in CatSymbols)
        BY <2>7, <2>9
      <3>2. QED
        BY <2>4, <2>7, <3>1, PickedMore
    <2>11. PICK T : T = S \cup {x}
      OBVIOUS
    <2>12. /\ Picked(Symbols(t), T \cup {y}) = Append(Picked(Symbols(t), T), Symbols(t)[y])
           /\ IsFiniteSet(T \cup {y})
      <3>1. /\ T \in SUBSET Nat /\ IsFiniteSet(T)
            /\ (\A h \in T : h < y) /\ (\A k \in T \cup {y} : Symbols(t)[k] \in CatSymbols)
        BY <2>4, <2>7, <2>9, <2>10, <2>11
      <3>2. QED
        BY <2>7, <3>1, PickedMore
    <2>13. PICK u, front : front = SubSeq(t, p + 1, d) /\ u = Plain(front)
      OBVIOUS
    <2>14. /\ front \in Seq(Characters) /\ Len(front) = d - p /\ \A i \in 1..(d - p) : front[i] = t[p + i]
           /\ line \in Seq(Characters) /\ Len(line) = e - p /\ \A i \in 1..(e - p) : line[i] = t[p + i]
      <3>1. (\A i \in (p + 1)..d : t[i] \in Characters) /\ \A i \in (p + 1)..e : t[i] \in Characters
        BY <1>1, <2>2
      <3>2. /\ front \in Seq(Characters) /\ Len(front) = IF p + 1 <= d THEN d - (p + 1) + 1 ELSE 0
            /\ \A i \in 1..(d - (p + 1) + 1) : front[i] = t[p + 1 + i - 1]
        BY <2>2, <2>13, <3>1, SubSeqProperties
      <3>3. /\ line \in Seq(Characters) /\ Len(line) = IF p + 1 <= e THEN e - (p + 1) + 1 ELSE 0
            /\ \A i \in 1..(e - (p + 1) + 1) : line[i] = t[p + 1 + i - 1]
        BY <1>2, <2>2, <3>1, SubSeqProperties
      <3>4. /\ d - (p + 1) + 1 = d - p /\ e - (p + 1) + 1 = e - p /\ (p + 1 <= d <=> d - p # 0) /\ p + 1 <= e
            /\ \A i \in 1..(e - p) : p + 1 + i - 1 = p + i
            /\ \A i \in 1..(d - p) : p + 1 + i - 1 = p + i
        BY <2>2
      <3>5. QED
        BY <3>2, <3>3, <3>4
    <2>15. SubSeq(line, 1, Len(line) - 1) = front /\ line # <<>> /\ line[Len(line)] = NL
      <3>1. PICK n, w : n = d - p /\ w = SubSeq(line, 1, Len(line) - 1)
        OBVIOUS
      <3>2. /\ n \in Nat /\ Len(line) = n + 1 /\ Len(line) - 1 = n /\ n - 1 + 1 = n /\ (1 <= n <=> n # 0)
            /\ \A i \in 1..n : 1 + i - 1 = i /\ i \in 1..Len(line) /\ i \in 1..(e - p)
        BY <2>2, <2>14, <3>1
      <3>3. \A i \in 1..n : line[i] \in Characters
        BY <2>14, <3>2, LenProperties
      <3>4. /\ w \in Seq(Characters) /\ Len(w) = IF 1 <= n THEN n - 1 + 1 ELSE 0
            /\ \A i \in 1..(n - 1 + 1) : w[i] = line[1 + i - 1]
        BY <2>14, <3>1, <3>2, <3>3, SubSeqProperties
      <3>5. Len(w) = n /\ \A i \in 1..n : w[i] = front[i]
        BY <2>14, <3>1, <3>2, <3>4
      <3>6. Len(front) = n
        BY <2>14, <3>1
      <3>7. w = front
        BY <2>14, <3>4, <3>5, <3>6, SeqEqual
      <3>8. line # <<>>
        BY <3>2, <2>14, EmptySeq
      <3>9. e - p \in 1..(e - p) /\ p + (e - p) = e
        BY <2>2
      <3>10. line[Len(line)] = NL
        BY <1>4, <2>14, <3>9
      <3>11. QED
        BY <3>1, <3>7, <3>8, <3>10
    <2>16. Marked(line) = u \o <<Dollar, Char(NL)>>
      BY <1>4, <2>13, <2>15 DEF Marked
    <2>17. u \in Seq(CatSymbols)
      BY <2>13, <2>14, PlainKind
    <2>18. Append(Append(u, Dollar), Char(NL)) = u \o <<Dollar, Char(NL)>>
      <3>1. NL \in Characters
        BY <1>1, <1>4, <2>2
      <3>2. PICK g, h : g = Dollar /\ h = Char(NL)
        OBVIOUS
      <3>3. g \in CatSymbols /\ h \in CatSymbols
        BY <3>1, <3>2, SymbolKinds
      <3>4. Append(Append(u, g), h) = u \o <<g, h>>
        BY <2>17, <3>3
      <3>5. QED
        BY <3>2, <3>4
    <2>19. MarkedPlaces(p, e) = T \cup {y}
      BY <1>4, <2>1, <2>3, <2>6, <2>11 DEF MarkedPlaces
    <2>20. Picked(Symbols(t), T \cup {y}) = Marked(line)
      BY <2>4, <2>8, <2>10, <2>11, <2>12, <2>13, <2>16, <2>18
    <2>21. \A i \in T \cup {y} : i \in Nat /\ 3 * p + 1 < i /\ i <= 3 * e
      <3>1. \A i \in S : i \in Nat /\ 3 * p + 1 < i /\ i <= 3 * e
        BY <2>2, <2>4, <2>5
      <3>2. QED
        BY <2>7, <2>11, <3>1
    <2>22. QED
      BY <1>2, <2>12, <2>19, <2>20, <2>21
  <1>5. QED
    BY <1>3, <1>4

\* The places from p to e: the number's and those of the characters and the $.
NumberPlaces(p) == IF Numbered THEN {3 * (p + 1) - 2} ELSE {}

LEMMA LinePlaces ==
    ASSUME NEW t \in Seq(Characters), NEW p \in Nat, p < Len(t), Tidy(t), Between(t, p),
           "E" \in options => t[ChunkEnd(t, p)] = NL
    PROVE  PlacesTo(t, ChunkEnd(t, p)) =
               IF "b" \in options /\ LineAt(t, p + 1) = <<NL>> THEN PlacesTo(t, p)
               ELSE PlacesTo(t, p) \cup (NumberPlaces(p) \cup MarkedPlaces(p, ChunkEnd(t, p)))
  <1>1. PICK e, Q : e = ChunkEnd(t, p) /\ Q = NumberPlaces(p) \cup MarkedPlaces(p, e)
    OBVIOUS
  <1>2. /\ p + 1 \in Starts(t)
        /\ \A k \in (p + 2)..e : k \notin Starts(t)
    BY <1>1, TidyChunk
  <1>3. /\ e \in (p + 1)..Len(t) /\ Len(t) \in Nat
        /\ \A j \in (p + 1)..(e - 1) : t[j] # NL
    BY <1>1, ChunkFacts, LenProperties
  <1>4. e \in Nat /\ p <= e /\ p < e /\ e <= Len(t)
    BY <1>3
  <1>5. KeptIn(t) \in SUBSET (1..Len(t)) /\ KeptIn(t) \in SUBSET Nat
    <2>1. \A k \in 1..Len(t) : k \in Nat
      BY <1>3
    <2>2. QED
      BY <2>1, PlacesAreNumbers
  <1>6. CASE "b" \in options /\ LineAt(t, p + 1) = <<NL>>
    <2>1. \A k \in (p + 1)..e : k \notin KeptIn(t)
      BY <1>1, <1>6, LineIsKept
    <2>2. ASSUME NEW k \in KeptIn(t), p < k, k <= e PROVE FALSE
      <3>1. k \in (p + 1)..e
        BY <1>4, <1>5, <2>2
      <3>2. QED
        BY <2>1, <3>1
    <2>3. PICK N : N = {}
      OBVIOUS
    <2>4. /\ \A i \in N : i \in Places(t) /\ i <= 3 * e
          /\ \A k \in KeptIn(t) : p < k /\ k <= e =>
                /\ 3 * k \in N
                /\ "E" \in options /\ t[k] = NL => 3 * k - 1 \in N
                /\ Numbered /\ LineStart(t, k) => 3 * k - 2 \in N
      BY <2>2, <2>3
    <2>5. PlacesTo(t, e) = PlacesTo(t, p) \cup N
      BY <1>4, <2>4, PlacesFrom
    <2>6. QED
      BY <1>1, <1>6, <2>3, <2>5
  <1>7. CASE ~("b" \in options /\ LineAt(t, p + 1) = <<NL>>)
    <2>1. \A k \in (p + 1)..e : k \in KeptIn(t)
      BY <1>1, <1>7, LineIsKept
    <2>2. LineStart(t, p + 1) /\ \A k \in (p + 2)..e : ~LineStart(t, k)
      <3>1. \A k \in (p + 2)..e : k \in 1..Len(t)
        BY <1>3, <1>4
      <3>2. QED
        BY <1>2, <3>1 DEF Starts
    <2>3. ASSUME NEW k \in (p + 1)..e
          PROVE  /\ 3 * k \in MarkedPlaces(p, e)
                 /\ "E" \in options /\ t[k] = NL => 3 * k - 1 \in MarkedPlaces(p, e)
      <3>1. CASE "E" \notin options
        BY <3>1 DEF MarkedPlaces, CharPlaces
      <3>2. CASE "E" \in options
        <4>1. k = e \/ k \in (p + 1)..(e - 1)
          BY <1>4
        <4>2. CASE k = e
          BY <3>2, <4>2 DEF MarkedPlaces
        <4>3. CASE k \in (p + 1)..(e - 1)
          <5>1. t[k] # NL
            BY <1>3, <4>3
          <5>2. 3 * k \in CharPlaces(p, e - 1)
            BY <4>3 DEF CharPlaces
          <5>3. QED
            BY <3>2, <5>1, <5>2 DEF MarkedPlaces
        <4>4. QED
          BY <4>1, <4>2, <4>3
      <3>3. QED
        BY <3>1, <3>2
    <2>4. ASSUME NEW k \in KeptIn(t), p < k, k <= e
          PROVE  /\ 3 * k \in Q
                 /\ "E" \in options /\ t[k] = NL => 3 * k - 1 \in Q
                 /\ Numbered /\ LineStart(t, k) => 3 * k - 2 \in Q
      <3>1. k \in (p + 1)..e /\ (k = p + 1 \/ k \in (p + 2)..e)
        BY <1>4, <1>5, <2>4
      <3>2. Numbered /\ LineStart(t, k) => 3 * k - 2 \in NumberPlaces(p)
        BY <2>2, <3>1 DEF NumberPlaces
      <3>3. QED
        BY <1>1, <2>3, <3>1, <3>2
    <2>5. ASSUME NEW i \in Q PROVE i \in Places(t) /\ i <= 3 * e
      <3>1. CASE i \in NumberPlaces(p)
        <4>1. Numbered /\ i = 3 * (p + 1) - 2
          BY <3>1 DEF NumberPlaces
        <4>2. p + 1 \in KeptIn(t)
          <5>1. p + 1 \in (p + 1)..e
            BY <1>4
          <5>2. QED
            BY <2>1, <5>1
        <4>3. i <= 3 * e
          BY <1>4, <4>1
        <4>4. QED
          BY <2>2, <4>1, <4>2, <4>3, PlaceKinds
      <3>2. CASE i \in MarkedPlaces(p, e)
        <4>1. (\E k \in (p + 1)..e : i = 3 * k) \/ ("E" \in options /\ i = 3 * e - 1)
          <5>1. CASE "E" \notin options
            BY <3>2, <5>1 DEF MarkedPlaces, CharPlaces
          <5>2. CASE "E" \in options
            <6>1. i \in CharPlaces(p, e - 1) \/ i = 3 * e - 1 \/ i = 3 * e
              BY <3>2, <5>2 DEF MarkedPlaces
            <6>2. e \in (p + 1)..e /\ \A k \in (p + 1)..(e - 1) : k \in (p + 1)..e
              BY <1>4
            <6>3. i \in CharPlaces(p, e - 1) => \E k \in (p + 1)..e : i = 3 * k
              BY <6>2 DEF CharPlaces
            <6>4. QED
              BY <5>2, <6>1, <6>2, <6>3
          <5>3. QED
            BY <5>1, <5>2
        <4>2. CASE \E k \in (p + 1)..e : i = 3 * k
          <5>1. PICK k \in (p + 1)..e : i = 3 * k
            BY <4>2
          <5>2. k \in KeptIn(t) /\ 3 * k <= 3 * e
            BY <1>4, <2>1
          <5>3. QED
            BY <5>1, <5>2, PlaceKinds
        <4>3. CASE "E" \in options /\ i = 3 * e - 1
          <5>1. e \in (p + 1)..e /\ 3 * e - 1 <= 3 * e
            BY <1>4
          <5>2. e \in KeptIn(t) /\ t[e] = NL
            BY <1>1, <2>1, <4>3, <5>1
          <5>3. QED
            BY <4>3, <5>1, <5>2, PlaceKinds
        <4>4. QED
          BY <4>1, <4>2, <4>3
      <3>3. QED
        BY <1>1, <2>5, <3>1, <3>2
    <2>6. PlacesTo(t, e) = PlacesTo(t, p) \cup Q
      BY <1>4, <2>4, <2>5, PlacesFrom
    <2>7. QED
      BY <1>1, <1>7, <2>6
  <1>8. QED
    BY <1>6, <1>7

\* Where the lines fit into the buffer, what is written is what cat writes.
LEMMA CatShowsLine ==
    ASSUME NEW t \in Seq(Characters), NEW p \in Nat, p < Len(t), Tidy(t), Between(t, p),
           "E" \in options => Ended(t), NEW c \in Nat,
           Numbered => c = Rank(KeptIn(t) \cap Starts(t), p) + 1
    PROVE  Picked(Symbols(t), PlacesTo(t, ChunkEnd(t, p))) =
               IF "b" \in options /\ LineAt(t, p + 1) = <<NL>> THEN Picked(Symbols(t), PlacesTo(t, p))
               ELSE Picked(Symbols(t), PlacesTo(t, p)) \o Prefix(c) \o Marked(LineAt(t, p + 1))
  <1>1. PICK e, P : e = ChunkEnd(t, p) /\ P = PlacesTo(t, p)
    OBVIOUS
  <1>2. /\ e \in (p + 1)..Len(t) /\ Len(t) \in Nat /\ e \in Nat /\ p < e /\ e <= Len(t)
        /\ p + 1 \in 1..Len(t)
    <2>1. e \in (p + 1)..Len(t) /\ Len(t) \in Nat
      BY <1>1, ChunkFacts, LenProperties
    <2>2. QED
      BY <2>1
  <1>3. LineAt(t, p + 1) = SubSeq(t, p + 1, e) /\ (t[e] = NL \/ e = Len(t))
    <2>1. e = LineEnd(t, p + 1)
      BY <1>1, TidyChunk
    <2>2. t[LineEnd(t, p + 1)] = NL \/ LineEnd(t, p + 1) = Len(t)
      BY <1>2, LineFacts
    <2>3. QED
      BY <2>1, <2>2 DEF LineAt
  <1>4. "E" \in options => t[e] = NL
    <2>1. t # <<>>
      BY <1>2, EmptySeq
    <2>2. QED
      BY <1>3, <2>1 DEF Ended
  <1>5. CASE "b" \in options /\ LineAt(t, p + 1) = <<NL>>
    BY <1>1, <1>4, <1>5, LinePlaces
  <1>6. CASE ~("b" \in options /\ LineAt(t, p + 1) = <<NL>>)
    <2>1. PICK N, M : N = NumberPlaces(p) /\ M = MarkedPlaces(p, e)
      OBVIOUS
    <2>2. PlacesTo(t, e) = P \cup (N \cup M)
      BY <1>1, <1>4, <1>6, <2>1, LinePlaces
    <2>3. /\ M \in SUBSET Nat /\ IsFiniteSet(M)
          /\ \A i \in M : 3 * p + 1 < i /\ i <= 3 * e
          /\ Picked(Symbols(t), M) = Marked(LineAt(t, p + 1))
      <3>1. /\ MarkedPlaces(p, e) \in SUBSET Nat /\ IsFiniteSet(MarkedPlaces(p, e))
            /\ \A i \in MarkedPlaces(p, e) : 3 * p + 1 < i /\ i <= 3 * e
            /\ Picked(Symbols(t), MarkedPlaces(p, e)) = Marked(SubSeq(t, p + 1, e))
        BY <1>2, <1>4, PickedMarked
      <3>2. QED
        BY <1>3, <2>1, <3>1
    <2>4. P \in SUBSET Nat /\ IsFiniteSet(P) /\ P \in SUBSET (1..(3 * Len(t))) /\ \A i \in P : i <= 3 * p
      <3>1. P \in SUBSET Places(t) /\ Places(t) \in SUBSET (1..(3 * Len(t))) /\ \A i \in P : i <= 3 * p
        BY <1>1, PlaceKinds DEF PlacesTo
      <3>2. IsFiniteSet(1..(3 * Len(t))) /\ \A i \in 1..(3 * Len(t)) : i \in Nat
        <4>1. PICK m : m = 3 * Len(t)
          OBVIOUS
        <4>2. m \in Nat /\ 1 \in Int /\ m \in Int
          BY <1>2, <4>1
        <4>3. IsFiniteSet(1..m)
          BY <4>2, FS_Interval
        <4>4. QED
          BY <4>1, <4>3
      <3>3. P \in SUBSET (1..(3 * Len(t)))
        BY <3>1
      <3>4. QED
        BY <3>1, <3>2, <3>3, FS_Subset
    <2>5. /\ N \in SUBSET Nat /\ IsFiniteSet(N) /\ (\A i \in N : i = 3 * p + 1)
          /\ Picked(Symbols(t), N) = Prefix(c)
      <3>1. CASE Numbered
        <4>1. PICK x : x = 3 * (p + 1) - 2
          OBVIOUS
        <4>2. x \in Nat /\ x = 3 * p + 1 /\ N = {x}
          BY <2>1, <3>1, <4>1 DEF NumberPlaces
        <4>3. Symbols(t)[x] = Number(Rank(KeptIn(t) \cap Starts(t), p + 1))
          BY <1>2, <4>1, SymbolAt
        <4>4. Symbols(t)[x] = Number(c)
          BY <1>6, <3>1, <4>3, CatCounts
        <4>5. Symbols(t)[x] \in CatSymbols
          BY <4>4, SymbolKinds
        <4>6. Picked(Symbols(t), {x}) = <<Symbols(t)[x]>>
          BY <4>2, <4>5, PickedOne
        <4>7. IsFiniteSet({x})
          BY FS_Singleton
        <4>8. QED
          BY <3>1, <4>2, <4>4, <4>6, <4>7 DEF Prefix
      <3>2. CASE ~Numbered
        <4>1. N = {}
          BY <2>1, <3>2 DEF NumberPlaces
        <4>2. IsFiniteSet({}) /\ Picked(Symbols(t), {}) = <<>>
          BY FS_EmptySet, PickedNone
        <4>3. QED
          BY <3>2, <4>1, <4>2 DEF Prefix
      <3>3. QED
        BY <3>1, <3>2
    <2>6. \A k \in P \cup (N \cup M) : Symbols(t)[k] \in CatSymbols
      <3>1. \A i \in N \cup M : i \in 1..(3 * Len(t))
        <4>1. \A i \in N : i \in Nat /\ i = 3 * p + 1
          BY <2>5
        <4>2. \A i \in M : i \in Nat /\ 3 * p + 1 < i /\ i <= 3 * e
          BY <2>3
        <4>3. QED
          BY <1>2, <4>1, <4>2
      <3>2. \A i \in P : i \in 1..(3 * Len(t))
        BY <2>4
      <3>3. QED
        BY <3>1, <3>2, SymbolAt
    <2>7. \A i \in N, j \in M : i < j
      BY <2>3, <2>5
    <2>8. /\ Picked(Symbols(t), N \cup M) = Picked(Symbols(t), N) \o Picked(Symbols(t), M)
          /\ IsFiniteSet(N \cup M) /\ Cardinality(N \cup M) = Cardinality(N) + Cardinality(M)
      <3>1. \A k \in N \cup M : Symbols(t)[k] \in CatSymbols
        BY <2>6
      <3>2. QED
        BY <2>3, <2>5, <2>7, <3>1, PickedConcat
    <2>9. PICK R : R = N \cup M
      OBVIOUS
    <2>10. \A i \in P, j \in R : i < j
      <3>1. \A j \in R : j \in Nat /\ 3 * p < j
        <4>1. \A j \in N : j \in Nat /\ 3 * p < j
          BY <2>5
        <4>2. \A j \in M : j \in Nat /\ 3 * p < j
          BY <2>3
        <4>3. QED
          BY <2>9, <4>1, <4>2
      <3>2. \A i \in P : i \in Nat /\ i <= 3 * p
        BY <2>4
      <3>3. QED
        BY <3>1, <3>2
    <2>11. R \in SUBSET Nat /\ IsFiniteSet(R)
      BY <2>3, <2>5, <2>8, <2>9
    <2>12. /\ Picked(Symbols(t), P \cup R) = Picked(Symbols(t), P) \o Picked(Symbols(t), R)
           /\ IsFiniteSet(P \cup R) /\ Cardinality(P \cup R) = Cardinality(P) + Cardinality(R)
      <3>1. \A k \in P \cup R : Symbols(t)[k] \in CatSymbols
        BY <2>6, <2>9
      <3>2. QED
        BY <2>4, <2>10, <2>11, <3>1, PickedConcat
    <2>13. PICK a, b, d : a = Picked(Symbols(t), P) /\ b = Prefix(c) /\ d = Marked(LineAt(t, p + 1))
      OBVIOUS
    <2>14. a \in Seq(CatSymbols) /\ b \in Seq(CatSymbols) /\ d \in Seq(CatSymbols)
      <3>1. \A k \in P : Symbols(t)[k] \in CatSymbols
        BY <2>6
      <3>2. LineAt(t, p + 1) \in Seq(Characters)
        BY <1>2, LineFacts
      <3>3. QED
        BY <2>4, <2>13, <3>1, <3>2, PickedKind, PrefixKind, CharsOfMarked
    <2>15. (a \o b) \o d = a \o (b \o d)
      BY ONLY <2>14, ConcatAssociative
    <2>16. Picked(Symbols(t), PlacesTo(t, e)) = a \o (b \o d)
      BY <2>2, <2>3, <2>5, <2>8, <2>9, <2>12, <2>13
    <2>17. QED
      BY <1>1, <1>6, <2>13, <2>15, <2>16
  <1>7. QED
    BY <1>5, <1>6

\* What a line read makes of what was shown, and of the number.
Written(s, c, line) ==
    IF "b" \in options /\ line = <<NL>> THEN s ELSE s \o Prefix(c) \o Marked(line)

NumberAfter(c, line) ==
    IF ~("b" \in options /\ line = <<NL>>) /\ Numbered THEN c + 1 ELSE c

LEMMA CatShowsNext ==
    ASSUME NEW t \in Seq(Characters), NEW p \in Nat, p < Len(t), NEW s \in Seq(CatSymbols), NEW c \in Nat,
           CatShows(t, p, s), Tidy(t) => Between(t, p), CatNumbers(t, p, c),
           NEW r, NEW d, r = Written(s, c, CString(Chunk(t, p))), d = NumberAfter(c, CString(Chunk(t, p)))
    PROVE  /\ r \in Seq(CatSymbols) /\ d \in Nat
           /\ CatShows(t, ChunkEnd(t, p), r)
           /\ CatNumbers(t, ChunkEnd(t, p), d)
  <1>1. PICK line, e : line = CString(Chunk(t, p)) /\ e = ChunkEnd(t, p)
    OBVIOUS
  <1>2. r \in Seq(CatSymbols)
    BY <1>1, CatShowsChars DEF Written
  <1>3. d \in Nat
    BY DEF NumberAfter
  <1>4. ASSUME Whole(t), "b" \notin options PROVE Picked(r, CharsOf(r)) = Plain(SubSeq(t, 1, e))
    <2>1. Picked(s, CharsOf(s)) = Plain(SubSeq(t, 1, p))
      BY <1>4 DEF CatShows
    <2>2. r = s \o Prefix(c) \o Marked(CString(Chunk(t, p)))
      BY <1>4 DEF Written
    <2>3. QED
      BY <1>1, <1>4, <2>1, <2>2, CatShowsChars
  <1>5. ASSUME Tidy(t), "E" \in options => Ended(t) PROVE r = Picked(Symbols(t), PlacesTo(t, e))
    <2>1. s = Picked(Symbols(t), PlacesTo(t, p)) /\ Between(t, p)
      BY <1>5 DEF CatShows
    <2>2. line = LineAt(t, p + 1)
      BY <1>1, <1>5, <2>1, TidyChunk
    <2>3. Numbered => c = Rank(KeptIn(t) \cap Starts(t), p) + 1
      BY <1>5 DEF CatNumbers
    <2>4. Picked(Symbols(t), PlacesTo(t, e)) = IF "b" \in options /\ line = <<NL>> THEN s ELSE s \o Prefix(c) \o Marked(line)
      BY <1>1, <1>5, <2>1, <2>2, <2>3, CatShowsLine
    <2>5. QED
      BY <1>1, <2>4 DEF Written
  <1>6. ASSUME Tidy(t), Numbered PROVE d = Rank(KeptIn(t) \cap Starts(t), e) + 1
    <2>1. Between(t, p) /\ c = Rank(KeptIn(t) \cap Starts(t), p) + 1
      BY <1>6 DEF CatNumbers
    <2>2. line = LineAt(t, p + 1)
      BY <1>1, <1>6, <2>1, TidyChunk
    <2>3. PICK K : K = KeptIn(t) \cap Starts(t)
      OBVIOUS
    <2>4. IF "b" \in options /\ line = <<NL>> THEN Rank(K, e) = Rank(K, p)
          ELSE Rank(K, e) = Rank(K, p) + 1
      BY <1>1, <1>6, <2>1, <2>2, <2>3, CatCounts
    <2>5. QED
      BY <1>1, <1>6, <2>1, <2>3, <2>4 DEF NumberAfter
  <1>7. QED
    BY <1>1, <1>2, <1>3, <1>4, <1>5, <1>6 DEF CatShows, CatNumbers

-----------------------------------------------------------------------------
(* The steps                                                               *)

\* Before anything of a file is read.
LEMMA NothingShown ==
    ASSUME NEW t \in Seq(Characters)
    PROVE  /\ CatShows(t, 0, <<>>) /\ GrepShows(t, 0, <<>>) /\ Between(t, 0)
           /\ CatNumbers(t, 0, 1) /\ GrepNumbers(t, 0, 1)
  <1>1. ASSUME NEW S \in SUBSET (Nat \ {0}) PROVE {h \in S : h <= 0} = {}
    <2>1. \A h \in Nat \ {0} : ~(h <= 0)
      OBVIOUS
    <2>2. QED
      BY <2>1
  <1>2. ASSUME NEW S \in SUBSET (Nat \ {0}) PROVE Rank(S, 0) = 0
    BY <1>1, FS_EmptySet DEF Rank
  <1>3. \A k \in 1..Len(t) : k \in Nat \ {0}
    BY LenProperties
  <1>4. KeptIn(t) \cap Starts(t) \in SUBSET (Nat \ {0}) /\ Counted(t) \in SUBSET (Nat \ {0})
        /\ Found(t) \in SUBSET (Nat \ {0})
    BY <1>3, PlacesAreNumbers DEF Counted
  <1>5. PlacesTo(t, 0) = {}
    <2>1. \A i \in 1..(3 * Len(t)) : ~(i <= 3 * 0)
      BY LenProperties
    <2>2. \A i \in Places(t) : ~(i <= 3 * 0)
      BY <2>1, PlaceKinds
    <2>3. QED
      BY <2>2 DEF PlacesTo
  <1>6. {k \in Found(t) : k <= 0} = {}
    BY <1>1, <1>4
  <1>7. Picked(Symbols(t), {}) = <<>> /\ Picked(GrepSymbols(t), {}) = <<>>
    BY PickedNone
  <1>8. PICK s, u : s = <<>> /\ u = SubSeq(t, 1, 0)
    OBVIOUS
  <1>9. Len(s) = 0 /\ CharsOf(s) = {}
    BY <1>8 DEF CharsOf
  <1>10. Picked(s, CharsOf(s)) = <<>>
    BY <1>9, PickedNone
  <1>11. Plain(u) = <<>>
    <2>1. u = <<>>
      BY <1>8, SubSeqEmpty
    <2>2. Len(u) = 0
      BY <2>1
    <2>3. QED
      BY <2>2 DEF Plain
  <1>12. CatShows(t, 0, s)
    BY <1>5, <1>7, <1>8, <1>10, <1>11 DEF CatShows
  <1>13. GrepShows(t, 0, s)
    <2>1. \A k \in 1..Len(s) : FALSE
      BY <1>9
    <2>2. QED
      BY <1>6, <1>7, <1>8, <2>1 DEF GrepShows
  <1>14. QED
    BY <1>2, <1>4, <1>8, <1>12, <1>13 DEF Between, CatNumbers, GrepNumbers

\* When all of it is read.
LEMMA AllShown ==
    ASSUME NEW t \in Seq(Characters)
    PROVE  SubSeq(t, 1, Len(t)) = t /\ PlacesTo(t, Len(t)) = Places(t) /\ {k \in Found(t) : k <= Len(t)} = Found(t)
  <1>1. SubSeq(t, 1, Len(t)) = t
    BY SubSeqFull
  <1>2. \A i \in Places(t) : i <= 3 * Len(t)
    <2>1. \A i \in 1..(3 * Len(t)) : i <= 3 * Len(t)
      BY LenProperties
    <2>2. QED
      BY <2>1, PlaceKinds
  <1>3. \A k \in Found(t) : k <= Len(t)
    <2>1. \A k \in 1..Len(t) : k <= Len(t)
      BY LenProperties
    <2>2. QED
      BY <2>1, PlacesAreNumbers
  <1>4. QED
    BY <1>1, <1>2, <1>3 DEF PlacesTo

\* What is said of a text stays true when options, pattern and tool do.
LEMMA ShowsStay ==
    ASSUME tool' = tool, options' = options, pattern' = pattern, NEW t
    PROVE  /\ (Numbered)' <=> Numbered
           /\ \A p, c : CatNumbers(t, p, c)' <=> CatNumbers(t, p, c)
           /\ \A p, c : GrepNumbers(t, p, c)' <=> GrepNumbers(t, p, c)
           /\ \A p, s : CatShows(t, p, s)' <=> CatShows(t, p, s)
           /\ \A p, s : GrepShows(t, p, s)' <=> GrepShows(t, p, s)
  <1>1. (Numbered)' <=> Numbered
    BY DEF Numbered
  <1>2. KeptIn(t)' = KeptIn(t)
    BY DEF KeptIn
  <1>3. Found(t)' = Found(t)
    BY DEF Found
  <1>4. Counted(t)' = Counted(t)
    BY <1>3 DEF Counted
  <1>5. Symbols(t)' = Symbols(t)
    BY <1>2 DEF Symbols
  <1>6. GrepSymbols(t)' = GrepSymbols(t)
    BY <1>4 DEF GrepSymbols
  <1>7. Places(t)' = Places(t)
    BY <1>1, <1>2 DEF Places, PlacesAt
  <1>8. \A p : PlacesTo(t, p)' = PlacesTo(t, p)
    BY <1>7 DEF PlacesTo
  <1>9. \A p, s : CatShows(t, p, s)' <=> CatShows(t, p, s)
    BY <1>5, <1>8 DEF CatShows
  <1>10. \A p, s : GrepShows(t, p, s)' <=> GrepShows(t, p, s)
    BY <1>3, <1>6 DEF GrepShows
  <1>11. QED
    BY <1>1, <1>2, <1>4, <1>9, <1>10 DEF CatNumbers, GrepNumbers

LEMMA TextStarts == TextInit => TextInv
  <1> SUFFICES ASSUME TextInit PROVE TextInv
    OBVIOUS
  <1> USE DEF TextInit, Closed
  <1>1. TextKinds
    <2>1. PICK K : K = GrepLines
      OBVIOUS
    <2>2. <<>> \in Seq(Seq(K)) /\ <<>> \in Seq(Nat) /\ <<>> \in Seq(Characters)
          /\ <<>> \in Seq(Seq(Characters) \cup {Missing})
      OBVIOUS
    <2>3. QED
      BY <2>1, <2>2 DEF TextKinds
  <1>2. AtLine /\ CatInv /\ GrepInv
    BY DEF AtLine, CatInv, GrepInv
  <1>3. QED
    BY <1>1, <1>2 DEF TextInv

LEMMA StartStep == TextInv /\ TextStart => TextInv'
  <1> SUFFICES ASSUME TextInv, TextStart PROVE TextInv'
    OBVIOUS
  <1>1. /\ tool = "none" /\ tool' \in {"none", "cat", "grep", "grepStdin"}
        /\ cur' = cur /\ offset' = offset /\ counter' = counter /\ shown' = shown /\ totals' = totals
        /\ pattern' = pattern \/ pattern' \in Patterns
        /\ files' \in Inputs
    BY DEF TextStart
  <1>2. /\ cur = 0 /\ pattern \in Seq(Characters) /\ offset \in Nat \cup {Closed} /\ counter \in Nat
        /\ (offset # Closed => cur # 0) /\ Len(shown) = cur /\ Len(totals) = cur
        /\ totals \in Seq(Nat)
    BY <1>1 DEF TextInv, TextKinds
  <1>3. shown \in Seq(Seq(GrepLines))
    BY <1>1 DEF TextInv, TextKinds
  <1>4. pattern' \in Seq(Characters) /\ files' \in Seq(Seq(Characters) \cup {Missing})
    BY <1>1, <1>2, InputsAssumption
  <1>5. cur' = 0 /\ offset' = Closed
    BY <1>1, <1>2
  <1>6. shown' = <<>> /\ \A K : <<>> \in Seq(Seq(K))
    <2>1. shown = <<>>
      BY <1>2, <1>3, EmptySeq
    <2>2. QED
      BY <1>1, <2>1
  <1>7. cur' \in 0..Len(files')
    BY <1>4, <1>5, LenProperties
  <1>8. shown' \in Seq(Seq(IF tool' = "cat" THEN CatSymbols ELSE GrepLines))
    BY <1>6
  <1>9. TextKinds'
    <2>1. tool' = "none" => cur' = 0
      BY <1>5
    <2>2. QED
      BY <1>1, <1>2, <1>4, <1>5, <1>7, <1>8, <2>1 DEF TextKinds
  <1>10. \A j : j \in 1..cur' => FALSE
    BY <1>5
  <1>11. AtLine' /\ CatInv' /\ GrepInv'
    BY <1>5, <1>10 DEF AtLine, CatInv, GrepInv
  <1>12. QED
    BY <1>9, <1>11 DEF TextInv

LEMMA OpenStep == TextInv /\ TextOpen => TextInv'
  <1> SUFFICES ASSUME TextInv, TextOpen PROVE TextInv'
    OBVIOUS
  <1>1. /\ tool' = tool /\ options' = options /\ pattern' = pattern /\ files' = files
        /\ tool # "none" /\ offset = Closed /\ cur < Len(files) /\ cur' = cur + 1
        /\ shown' = Append(shown, <<>>) /\ totals' = Append(totals, 0)
        /\ files[cur + 1] = Missing => offset' = offset /\ counter' = counter
        /\ files[cur + 1] # Missing => offset' = 0 /\ counter' = 1
    BY DEF TextOpen
  <1>2. /\ tool \in {"none", "cat", "grep", "grepStdin"} /\ pattern \in Seq(Characters)
        /\ files \in Seq(Seq(Characters) \cup {Missing}) /\ cur \in 0..Len(files) /\ counter \in Nat
        /\ Len(shown) = cur /\ Len(totals) = cur
        /\ shown \in Seq(Seq(IF tool = "cat" THEN CatSymbols ELSE GrepLines)) /\ totals \in Seq(Nat)
    BY DEF TextInv, TextKinds
  <1>3. PICK n, t, K : n = cur + 1 /\ t = files[n] /\ K = IF tool = "cat" THEN CatSymbols ELSE GrepLines
    OBVIOUS
  <1>4. n \in 1..Len(files) /\ n \in Nat /\ cur \in Nat /\ t \in Seq(Characters) \cup {Missing}
    <2>1. Len(files) \in Nat
      BY <1>2, LenProperties
    <2>2. n \in 1..Len(files) /\ n \in Nat /\ cur \in Nat
      BY <1>1, <1>2, <1>3, <2>1
    <2>3. QED
      BY <1>2, <1>3, <2>2, LenProperties
  <1>5. /\ shown' \in Seq(Seq(K)) /\ Len(shown') = n
        /\ \A j \in 1..cur : shown'[j] = shown[j]
        /\ shown'[n] = <<>>
    <2>1. shown \in Seq(Seq(K)) /\ <<>> \in Seq(K)
      BY <1>2, <1>3
    <2>2. QED
      BY <1>1, <1>2, <1>3, <2>1, AppendProperties
  <1>6. /\ totals' \in Seq(Nat) /\ Len(totals') = n
        /\ \A j \in 1..cur : totals'[j] = totals[j]
        /\ totals'[n] = 0
    BY <1>1, <1>2, <1>3, AppendProperties
  <1>7. offset' \in Nat \cup {Closed} /\ counter' \in Nat
        /\ (offset' # Closed => t # Missing /\ offset' = 0 /\ counter' = 1)
        /\ (t # Missing => offset' = 0)
    BY <1>1, <1>2, <1>3 DEF Closed
  <1>8. TextKinds'
    <2>1. cur' = n /\ cur' \in 0..Len(files') /\ cur' # 0
      BY <1>1, <1>3, <1>4
    <2>2. Text' = t
      BY <1>1, <1>3, <2>1 DEF Text
    <2>3. offset' # Closed => Text' \in Seq(Characters) /\ offset' <= Len(Text')
      <3>1. \A u \in Seq(Characters) : 0 <= Len(u)
        BY LenProperties
      <3>2. QED
        BY <1>4, <1>7, <2>2, <3>1
    <2>4. shown' \in Seq(Seq(IF tool' = "cat" THEN CatSymbols ELSE GrepLines))
      BY <1>1, <1>3, <1>5
    <2>5. QED
      BY <1>1, <1>2, <1>5, <1>6, <1>7, <2>1, <2>3, <2>4 DEF TextKinds
  <1>9. Text' = t
    BY <1>1, <1>3 DEF Text
  <1>10. AtLine'
    <2>1. offset' # Closed => Between(t, offset')
      BY <1>4, <1>7, NothingShown
    <2>2. QED
      BY <1>9, <2>1 DEF AtLine
  <1>11. \A j \in 1..n : j \in 1..cur \/ j = n
    BY <1>3, <1>4
  <1>12. \A j \in 1..cur : ReadTo(j)' = ReadTo(j)
    <2>1. \A j \in 1..cur : j # n
      BY <1>3, <1>4
    <2>2. QED
      BY <1>1, <1>3, <2>1 DEF ReadTo
  <1>13. t # Missing => ReadTo(n)' = 0
    BY <1>1, <1>3, <1>7 DEF ReadTo, Closed
  <1>14. CatInv'
    <2>1. ASSUME tool = "cat", NEW j \in 1..n, files[j] # Missing PROVE CatShows(files[j], ReadTo(j), shown[j])'
      <3>1. PICK u, p, s : u = files[j] /\ p = ReadTo(j)' /\ s = shown'[j]
        OBVIOUS
      <3>2. CatShows(u, p, s)
        <4>1. CASE j \in 1..cur
          BY <1>5, <1>12, <2>1, <3>1, <4>1 DEF TextInv, CatInv
        <4>2. CASE j = n
          BY <1>3, <1>4, <1>5, <1>13, <2>1, <3>1, <4>2, NothingShown
        <4>3. QED
          BY <1>11, <4>1, <4>2
      <3>3. CatShows(u, p, s)'
        BY <1>1, <3>2, ShowsStay
      <3>4. u = files'[j]
        BY <1>1, <3>1
      <3>5. QED
        BY <3>1, <3>3, <3>4
    <2>2. ASSUME offset' # Closed PROVE CatNumbers(Text, offset, counter)'
      <3>1. t \in Seq(Characters) /\ offset' = 0 /\ counter' = 1
        BY <1>4, <1>7, <2>2
      <3>2. CatNumbers(t, 0, 1)'
        BY <1>1, <3>1, ShowsStay, NothingShown
      <3>3. QED
        BY <1>9, <3>1, <3>2
    <2>3. QED
      BY <1>1, <1>3, <2>1, <2>2 DEF CatInv
  <1>15. GrepInv'
    <2>1. ASSUME tool \in {"grep", "grepStdin"}, NEW j \in 1..n
          PROVE  /\ files[j] # Missing => GrepShows(files[j], ReadTo(j), shown[j])'
                 /\ files[j] = Missing => shown'[j] = <<>>
                 /\ totals'[j] = Len(shown'[j])
      <3>1. PICK u, p, s : u = files[j] /\ p = ReadTo(j)' /\ s = shown'[j]
        OBVIOUS
      <3>2. /\ u # Missing => GrepShows(u, p, s)
            /\ u = Missing => s = <<>>
            /\ totals'[j] = Len(s)
        <4>1. CASE j \in 1..cur
          BY <1>5, <1>6, <1>12, <2>1, <3>1, <4>1 DEF TextInv, GrepInv
        <4>2. CASE j = n
          <5>1. Len(<<>>) = 0
            OBVIOUS
          <5>2. QED
            BY <1>3, <1>4, <1>5, <1>6, <1>13, <3>1, <4>2, <5>1, NothingShown
        <4>3. QED
          BY <1>11, <4>1, <4>2
      <3>3. u # Missing => GrepShows(u, p, s)'
        BY <1>1, <3>2, ShowsStay
      <3>4. u = files'[j]
        BY <1>1, <3>1
      <3>5. QED
        BY <3>1, <3>2, <3>3, <3>4
    <2>2. ASSUME offset' # Closed
          PROVE  /\ \A k \in 1..Len(shown'[cur']) : shown'[cur'][k].number < counter'
                 /\ GrepNumbers(Text, offset, counter)'
      <3>1. t \in Seq(Characters) /\ offset' = 0 /\ counter' = 1
        BY <1>4, <1>7, <2>2
      <3>2. GrepNumbers(t, 0, 1)'
        BY <1>1, <3>1, ShowsStay, NothingShown
      <3>3. Len(shown'[cur']) = 0
        BY <1>1, <1>3, <1>5
      <3>4. \A k \in 1..Len(shown'[cur']) : FALSE
        BY <3>3
      <3>5. QED
        BY <1>9, <3>1, <3>2, <3>4
    <2>3. QED
      BY <1>1, <1>3, <2>1, <2>2 DEF GrepInv
  <1>16. QED
    BY <1>8, <1>10, <1>14, <1>15 DEF TextInv

LEMMA CloseStep == TextInv /\ TextClose => TextInv'
  <1> SUFFICES ASSUME TextInv, TextClose PROVE TextInv'
    OBVIOUS
  <1>1. /\ tool' = tool /\ options' = options /\ pattern' = pattern /\ files' = files /\ cur' = cur
        /\ counter' = counter /\ shown' = shown /\ totals' = totals
        /\ offset # Closed /\ offset = Len(Text) /\ offset' = Closed
    BY DEF TextClose
  <1>2. TextKinds'
    <2>1. (IF tool = "cat" THEN CatSymbols ELSE GrepLines)' = IF tool = "cat" THEN CatSymbols ELSE GrepLines
      BY <1>1
    <2>2. QED
      BY <1>1 DEF TextInv, TextKinds
  <1>3. AtLine'
    BY <1>1 DEF AtLine
  <1>4. \A j \in 1..cur : ReadTo(j)' = ReadTo(j)
    BY <1>1 DEF ReadTo, Text
  <1>5. CatInv'
    <2>1. ASSUME tool = "cat", NEW j \in 1..cur, files[j] # Missing PROVE CatShows(files[j], ReadTo(j), shown[j])'
      <3>1. PICK u, p, s : u = files[j] /\ p = ReadTo(j)' /\ s = shown'[j]
        OBVIOUS
      <3>2. CatShows(u, p, s)
        BY <1>1, <1>4, <2>1, <3>1 DEF TextInv, CatInv
      <3>3. CatShows(u, p, s)' /\ u = files'[j]
        BY <1>1, <3>1, <3>2, ShowsStay
      <3>4. QED
        BY <3>1, <3>3
    <2>2. QED
      BY <1>1, <2>1 DEF CatInv
  <1>6. GrepInv'
    <2>1. ASSUME tool \in {"grep", "grepStdin"}, NEW j \in 1..cur
          PROVE  /\ files[j] # Missing => GrepShows(files[j], ReadTo(j), shown[j])'
                 /\ files[j] = Missing => shown'[j] = <<>>
                 /\ totals'[j] = Len(shown'[j])
      <3>1. PICK u, p, s : u = files[j] /\ p = ReadTo(j)' /\ s = shown'[j]
        OBVIOUS
      <3>2. /\ u # Missing => GrepShows(u, p, s)
            /\ u = Missing => s = <<>>
            /\ totals'[j] = Len(s)
        BY <1>1, <1>4, <2>1, <3>1 DEF TextInv, GrepInv
      <3>3. u # Missing => GrepShows(u, p, s)'
        BY <1>1, <3>2, ShowsStay
      <3>4. u = files'[j]
        BY <1>1, <3>1
      <3>5. QED
        BY <3>1, <3>2, <3>3, <3>4
    <2>2. QED
      BY <1>1, <2>1 DEF GrepInv
  <1>7. QED
    BY <1>2, <1>3, <1>5, <1>6 DEF TextInv

\* What reading one more chunk does to kinds and places.
LEMMA ReadingFacts ==
    ASSUME TextInv, Reading
    PROVE  /\ tool \in {"cat", "grep", "grepStdin"} /\ counter \in Nat /\ offset \in Nat /\ offset # Closed
           /\ Text \in Seq(Characters) /\ offset < Len(Text) /\ Text # Missing /\ Text = files[cur]
           /\ cur \in 1..Len(files) /\ cur \in 1..cur /\ Len(shown) = cur /\ Len(totals) = cur
           /\ shown \in Seq(Seq(IF tool = "cat" THEN CatSymbols ELSE GrepLines)) /\ totals \in Seq(Nat)
           /\ (Tidy(Text) => Between(Text, offset)) /\ ReadTo(cur) = offset
           /\ ChunkEnd(Text, offset) \in Nat /\ ChunkEnd(Text, offset) # Closed
           /\ ChunkEnd(Text, offset) <= Len(Text)
           /\ Tidy(Text) => Between(Text, ChunkEnd(Text, offset))
  <1>1. /\ tool \in {"none", "cat", "grep", "grepStdin"} /\ counter \in Nat
        /\ offset \in Nat \cup {Closed} /\ offset # Closed
        /\ cur # 0 /\ Text \in Seq(Characters) /\ offset < Len(Text)
        /\ (tool = "none" => cur = 0) /\ cur \in 0..Len(files)
        /\ Len(shown) = cur /\ Len(totals) = cur
        /\ shown \in Seq(Seq(IF tool = "cat" THEN CatSymbols ELSE GrepLines)) /\ totals \in Seq(Nat)
    BY DEF TextInv, TextKinds, Reading
  <1>2. Len(files) \in Nat
    BY LenProperties DEF TextInv, TextKinds
  <1>3. cur \in 1..Len(files) /\ cur \in 1..cur
    BY <1>1, <1>2
  <1>4. Text # Missing
    BY <1>1, InputsAssumption
  <1>5. PICK t, p, e : t = Text /\ p = offset /\ e = ChunkEnd(t, p)
    OBVIOUS
  <1>6. t \in Seq(Characters) /\ p \in Nat /\ p < Len(t) /\ Len(t) \in Nat
    BY <1>1, <1>5, LenProperties
  <1>7. e \in (p + 1)..Len(t)
    BY <1>5, <1>6, ChunkFacts
  <1>8. e \in Nat /\ e # Closed /\ e <= Len(t)
    BY <1>6, <1>7 DEF Closed
  <1>9. Tidy(t) => Between(t, p)
    BY <1>1, <1>5 DEF TextInv, AtLine
  <1>10. Tidy(t) => Between(t, e)
    BY <1>5, <1>6, <1>9, TidyChunk
  <1>11. ReadTo(cur) = offset
    BY <1>1 DEF ReadTo
  <1>12. QED
    BY <1>1, <1>3, <1>4, <1>5, <1>6, <1>8, <1>9, <1>10, <1>11 DEF Text

LEMMA ReadKinds ==
    ASSUME TextInv, Reading, ReadOn, UNCHANGED <<tool, options, pattern, files, cur>>,
           counter' \in Nat, Len(shown') = cur, Len(totals') = cur, totals' \in Seq(Nat),
           shown' \in Seq(Seq(IF tool = "cat" THEN CatSymbols ELSE GrepLines))
    PROVE  /\ TextKinds' /\ AtLine' /\ ReadTo(cur)' = ChunkEnd(Text, offset) /\ Text' = Text
           /\ \A j \in 1..cur : j # cur => ReadTo(j)' = ReadTo(j)
  <1>1. /\ tool' = tool /\ options' = options /\ pattern' = pattern /\ files' = files /\ cur' = cur
        /\ offset' = ChunkEnd(Text, offset)
    BY DEF ReadOn
  <1>2. Text' = Text
    BY <1>1 DEF Text
  <1>3. /\ offset' \in Nat /\ offset' # Closed /\ offset' <= Len(Text) /\ Text \in Seq(Characters)
        /\ Tidy(Text) => Between(Text, offset')
        /\ offset # Closed
    BY <1>1, ReadingFacts
  <1>4. TextKinds'
    <2>1. (IF tool = "cat" THEN CatSymbols ELSE GrepLines)' = IF tool = "cat" THEN CatSymbols ELSE GrepLines
      BY <1>1
    <2>2. QED
      BY <1>1, <1>2, <1>3, <2>1 DEF TextInv, TextKinds
  <1>5. AtLine'
    <2>1. PICK t, p : t = Text /\ p = offset'
      OBVIOUS
    <2>2. Tidy(t) => Between(t, p)
      BY <1>3, <2>1
    <2>3. Tidy(Text') => Between(Text', offset')
      BY <1>2, <2>1, <2>2
    <2>4. QED
      BY <2>3 DEF AtLine
  <1>6. ReadTo(cur)' = ChunkEnd(Text, offset)
    BY <1>1, <1>3 DEF ReadTo
  <1>7. \A j \in 1..cur : j # cur => ReadTo(j)' = ReadTo(j)
    BY <1>1 DEF ReadTo
  <1>8. QED
    BY <1>2, <1>4, <1>5, <1>6, <1>7

LEMMA CatStep == TextInv /\ CatLine => TextInv'
  <1> SUFFICES ASSUME TextInv, CatLine PROVE TextInv'
    OBVIOUS
  <1>1. PICK t, p, s, c, line, e, m : /\ t = Text /\ p = offset /\ s = shown[cur] /\ c = counter
                                      /\ line = CString(Chunk(t, p)) /\ e = ChunkEnd(t, p) /\ m = cur
    OBVIOUS
  <1>2. /\ tool = "cat" /\ Reading /\ ReadOn
        /\ tool' = tool /\ options' = options /\ pattern' = pattern /\ files' = files /\ cur' = cur
        /\ totals' = totals
    BY DEF CatLine
  <1>3. /\ c \in Nat /\ p \in Nat /\ t \in Seq(Characters) /\ p < Len(t) /\ t # Missing /\ t = files[m]
        /\ m \in 1..m /\ m \in 1..Len(files) /\ Len(shown) = m /\ Len(totals) = m
        /\ shown \in Seq(Seq(CatSymbols)) /\ totals \in Seq(Nat)
        /\ (Tidy(t) => Between(t, p)) /\ ReadTo(m) = p /\ offset # Closed
    BY <1>1, <1>2, ReadingFacts
  <1>4. s \in Seq(CatSymbols)
    BY <1>1, <1>3, LenProperties
  <1>5. PICK r, d : r = Written(s, c, line) /\ d = NumberAfter(c, line)
    OBVIOUS
  <1>6. Line = line
    BY <1>1 DEF Line, Text
  <1>7. counter' = d
    <2>1. CASE "b" \in options /\ line = <<NL>>
      BY <1>1, <1>5, <1>6, <2>1 DEF CatLine, NumberAfter
    <2>2. CASE ~("b" \in options /\ line = <<NL>>)
      BY <1>1, <1>5, <1>6, <2>2 DEF CatLine, NumberAfter
    <2>3. QED
      BY <2>1, <2>2
  <1>8. shown' = [shown EXCEPT ![m] = r]
    <2>1. CASE "b" \in options /\ line = <<NL>>
      <3>1. shown' = shown /\ r = shown[m]
        BY <1>1, <1>5, <1>6, <2>1 DEF CatLine, Written
      <3>2. QED
        BY <1>3, <3>1
    <2>2. CASE ~("b" \in options /\ line = <<NL>>)
      <3>1. shown' = [shown EXCEPT ![cur] = @ \o (IF Numbered THEN <<Number(counter)>> ELSE <<>>) \o Marked(Line)]
        BY <1>6, <2>2 DEF CatLine
      <3>2. r = s \o (IF Numbered THEN <<Number(counter)>> ELSE <<>>) \o Marked(Line)
        BY <1>1, <1>5, <1>6, <2>2 DEF Written, Prefix
      <3>3. QED
        BY <1>1, <3>1, <3>2
    <2>3. QED
      BY <2>1, <2>2
  <1>9. CatShows(t, p, s) /\ CatNumbers(t, p, c)
    <2>1. CatShows(files[m], ReadTo(m), shown[m])
      BY <1>1, <1>2, <1>3 DEF TextInv, CatInv
    <2>2. CatNumbers(Text, offset, counter)
      BY <1>2, <1>3 DEF TextInv, CatInv
    <2>3. QED
      BY <1>1, <1>3, <2>1, <2>2
  <1>10. r \in Seq(CatSymbols) /\ d \in Nat /\ CatShows(t, e, r) /\ CatNumbers(t, e, d)
    <2>1. r = Written(s, c, CString(Chunk(t, p))) /\ d = NumberAfter(c, CString(Chunk(t, p)))
      BY <1>1, <1>5
    <2>2. /\ r \in Seq(CatSymbols) /\ d \in Nat
          /\ CatShows(t, ChunkEnd(t, p), r) /\ CatNumbers(t, ChunkEnd(t, p), d)
      BY <1>3, <1>4, <1>9, <2>1, CatShowsNext
    <2>3. QED
      BY <1>1, <2>2
  <1>11. /\ shown' \in Seq(Seq(CatSymbols)) /\ Len(shown') = m
         /\ \A j \in 1..m : shown'[j] = IF j = m THEN r ELSE shown[j]
    BY <1>3, <1>8, <1>10, ExceptSeq
  <1>12. /\ TextKinds' /\ AtLine' /\ ReadTo(cur)' = e /\ Text' = t
         /\ \A j \in 1..m : j # m => ReadTo(j)' = ReadTo(j)
    BY <1>1, <1>2, <1>3, <1>7, <1>10, <1>11, ReadKinds
  <1>13. CatInv'
    <2>1. ASSUME NEW j \in 1..m, files[j] # Missing PROVE CatShows(files[j], ReadTo(j), shown[j])'
      <3>1. PICK u, q, v : u = files[j] /\ q = ReadTo(j)' /\ v = shown'[j]
        OBVIOUS
      <3>2. CatShows(u, q, v)
        <4>1. CASE j = m
          BY <1>1, <1>2, <1>3, <1>10, <1>11, <1>12, <3>1, <4>1
        <4>2. CASE j # m
          BY <1>1, <1>2, <1>11, <1>12, <2>1, <3>1, <4>2 DEF TextInv, CatInv
        <4>3. QED
          BY <4>1, <4>2
      <3>3. CatShows(u, q, v)' /\ u = files'[j]
        BY <1>2, <3>1, <3>2, ShowsStay
      <3>4. QED
        BY <3>1, <3>3
    <2>2. CatNumbers(Text, offset, counter)'
      <3>1. CatNumbers(t, e, d)'
        BY <1>2, <1>10, ShowsStay
      <3>2. Text' = t /\ offset' = e /\ counter' = d
        BY <1>1, <1>2, <1>7, <1>12 DEF ReadOn
      <3>3. QED
        BY <3>1, <3>2
    <2>3. QED
      BY <1>1, <1>2, <2>1, <2>2 DEF CatInv
  <1>14. GrepInv'
    BY <1>2 DEF GrepInv
  <1>15. QED
    BY <1>12, <1>13, <1>14 DEF TextInv

LEMMA GrepStep == TextInv /\ GrepLine => TextInv'
  <1> SUFFICES ASSUME TextInv, GrepLine PROVE TextInv'
    OBVIOUS
  <1>1. PICK t, p, s, c, line, e, m : /\ t = Text /\ p = offset /\ s = shown[cur] /\ c = counter
                                      /\ line = CString(Chunk(t, p)) /\ e = ChunkEnd(t, p) /\ m = cur
    OBVIOUS
  <1>2. /\ tool \in {"grep", "grepStdin"} /\ tool # "cat" /\ Reading /\ ReadOn
        /\ tool' = tool /\ options' = options /\ pattern' = pattern /\ files' = files /\ cur' = cur
    BY DEF GrepLine
  <1>3. /\ c \in Nat /\ p \in Nat /\ t \in Seq(Characters) /\ p < Len(t) /\ t # Missing /\ t = files[m]
        /\ m \in 1..m /\ m \in 1..Len(files) /\ Len(shown) = m /\ Len(totals) = m
        /\ shown \in Seq(Seq(GrepLines)) /\ totals \in Seq(Nat)
        /\ (Tidy(t) => Between(t, p)) /\ ReadTo(m) = p /\ offset # Closed
    BY <1>1, <1>2, ReadingFacts
  <1>4. s \in Seq(GrepLines) /\ totals[m] \in Nat
    BY <1>1, <1>3, LenProperties
  <1>5. Line = line
    BY <1>1 DEF Line, Text
  <1>6. PICK hit \in BOOLEAN : hit = Holds(line, pattern)
    BY Zenon DEF Holds
  <1>7. /\ shown' = IF hit THEN [shown EXCEPT ![m] = Append(s, Match(c, line))] ELSE shown
        /\ totals' = IF hit THEN [totals EXCEPT ![m] = totals[m] + 1] ELSE totals
        /\ counter' = IF hit \/ tool = "grep" THEN c + 1 ELSE c
    BY <1>1, <1>5, <1>6 DEF GrepLine, LineNumber
  <1>8. /\ GrepShows(t, p, s) /\ totals[m] = Len(s)
        /\ \A k \in 1..Len(s) : s[k].number < c
        /\ GrepNumbers(t, p, c)
    BY <1>1, <1>2, <1>3 DEF TextInv, GrepInv
  <1>9. PICK r, x, d : /\ r = (IF hit THEN Append(s, Match(c, line)) ELSE s)
                       /\ x = (IF hit THEN totals[m] + 1 ELSE totals[m])
                       /\ d = (IF hit \/ tool = "grep" THEN c + 1 ELSE c)
    OBVIOUS
  <1>10. /\ r \in Seq(GrepLines) /\ x = Len(r) /\ x \in Nat /\ d \in Nat /\ GrepShows(t, e, r)
         /\ \A k \in 1..Len(r) : r[k].number < d
    <2>1. Tidy(t) => Between(t, p) /\ c = Rank(Counted(t), p) + 1
      BY <1>3, <1>8 DEF GrepNumbers
    <2>2. d \in Nat
      BY <1>3, <1>9
    <2>3. CASE hit
      <3>1. Holds(CString(Chunk(t, p)), pattern)
        BY <1>1, <1>6, <2>3
      <3>2. /\ GrepShows(t, ChunkEnd(t, p), Append(s, Match(c, CString(Chunk(t, p)))))
            /\ Append(s, Match(c, CString(Chunk(t, p)))) \in Seq(GrepLines)
            /\ Len(Append(s, Match(c, CString(Chunk(t, p))))) = Len(s) + 1
            /\ \A k \in 1..Len(Append(s, Match(c, CString(Chunk(t, p))))) :
                  Append(s, Match(c, CString(Chunk(t, p))))[k].number < c + 1
        BY <1>3, <1>4, <1>8, <2>1, <3>1, GrepShowsMatch
      <3>3. r = Append(s, Match(c, CString(Chunk(t, p)))) /\ d = c + 1 /\ x = totals[m] + 1
        BY <1>1, <1>9, <2>3
      <3>4. QED
        BY <1>1, <1>4, <1>8, <2>2, <3>2, <3>3
    <2>4. CASE ~hit
      <3>1. ~Holds(CString(Chunk(t, p)), pattern)
        BY <1>1, <1>6, <2>4
      <3>2. GrepShows(t, ChunkEnd(t, p), s)
        BY <1>3, <1>8, <3>1, GrepShowsOther
      <3>3. r = s /\ x = totals[m] /\ c <= d
        BY <1>3, <1>9, <2>4
      <3>4. \A k \in 1..Len(s) : s[k].number \in Nat
        <4>1. \A k \in 1..Len(s) : s[k] \in GrepLines
          BY <1>4, LenProperties
        <4>2. \A y \in GrepLines : y.number \in Nat
          BY DEF GrepLines
        <4>3. QED
          BY <4>1, <4>2
      <3>5. \A k \in 1..Len(s) : s[k].number < d
        BY <1>3, <1>8, <2>2, <3>3, <3>4
      <3>6. QED
        BY <1>1, <1>4, <1>8, <2>2, <3>2, <3>3, <3>5
    <2>5. QED
      BY <1>6, <2>3, <2>4
  <1>11. GrepNumbers(t, e, d)
    <2> SUFFICES ASSUME Tidy(t) PROVE d = Rank(Counted(t), e) + 1
      BY DEF GrepNumbers
    <2>1. Between(t, p) /\ c = Rank(Counted(t), p) + 1
      BY <1>3, <1>8 DEF GrepNumbers
    <2>2. line = LineAt(t, p + 1)
      BY <1>1, <1>3, <2>1, TidyChunk
    <2>3. Rank(Counted(t), e) = IF hit \/ tool = "grep" THEN Rank(Counted(t), p) + 1 ELSE Rank(Counted(t), p)
      BY <1>1, <1>3, <1>6, <2>1, <2>2, GrepCounts
    <2>4. QED
      BY <1>9, <2>1, <2>3
  <1>12. /\ shown' \in Seq(Seq(GrepLines)) /\ Len(shown') = m
         /\ \A j \in 1..m : shown'[j] = IF j = m THEN r ELSE shown[j]
    <2>1. shown' = [shown EXCEPT ![m] = r]
      <3>1. CASE hit
        BY <1>7, <1>9, <3>1
      <3>2. CASE ~hit
        BY <1>1, <1>3, <1>7, <1>9, <3>2
      <3>3. QED
        BY <3>1, <3>2
    <2>2. QED
      BY <1>3, <1>10, <2>1, ExceptSeq
  <1>13. /\ totals' \in Seq(Nat) /\ Len(totals') = m
         /\ \A j \in 1..m : totals'[j] = IF j = m THEN x ELSE totals[j]
    <2>1. totals' = [totals EXCEPT ![m] = x]
      <3>1. CASE hit
        BY <1>7, <1>9, <3>1
      <3>2. CASE ~hit
        BY <1>3, <1>7, <1>9, <3>2
      <3>3. QED
        BY <3>1, <3>2
    <2>2. QED
      BY <1>3, <1>10, <2>1, ExceptSeq
  <1>14. /\ TextKinds' /\ AtLine' /\ ReadTo(cur)' = e /\ Text' = t
         /\ \A j \in 1..m : j # m => ReadTo(j)' = ReadTo(j)
    <2>1. counter' \in Nat
      BY <1>7, <1>9, <1>10
    <2>2. QED
      BY <1>1, <1>2, <1>12, <1>13, <2>1, ReadKinds
  <1>15. CatInv'
    BY <1>2 DEF CatInv
  <1>16. GrepInv'
    <2>1. ASSUME NEW j \in 1..m
          PROVE  /\ files[j] # Missing => GrepShows(files[j], ReadTo(j), shown[j])'
                 /\ files[j] = Missing => shown'[j] = <<>>
                 /\ totals'[j] = Len(shown'[j])
      <3>1. PICK u, q, v : u = files[j] /\ q = ReadTo(j)' /\ v = shown'[j]
        OBVIOUS
      <3>2. /\ u # Missing => GrepShows(u, q, v)
            /\ u = Missing => v = <<>>
            /\ totals'[j] = Len(v)
        <4>1. CASE j = m
          BY <1>1, <1>2, <1>3, <1>10, <1>12, <1>13, <1>14, <3>1, <4>1
        <4>2. CASE j # m
          BY <1>1, <1>2, <1>12, <1>13, <1>14, <2>1, <3>1, <4>2 DEF TextInv, GrepInv
        <4>3. QED
          BY <4>1, <4>2
      <3>3. u # Missing => GrepShows(u, q, v)'
        BY <1>2, <3>2, ShowsStay
      <3>4. u = files'[j]
        BY <1>2, <3>1
      <3>5. QED
        BY <3>1, <3>2, <3>3, <3>4
    <2>2. GrepNumbers(Text, offset, counter)'
      <3>1. GrepNumbers(t, e, d)'
        BY <1>2, <1>11, ShowsStay
      <3>2. Text' = t /\ offset' = e /\ counter' = d
        BY <1>1, <1>2, <1>7, <1>9, <1>14 DEF ReadOn
      <3>3. QED
        BY <3>1, <3>2
    <2>3. \A k \in 1..Len(shown'[cur']) : shown'[cur'][k].number < counter'
      <3>1. shown'[cur'] = r /\ counter' = d
        BY <1>1, <1>2, <1>3, <1>7, <1>9, <1>12
      <3>2. QED
        BY <1>10, <3>1
    <2>4. QED
      BY <1>1, <1>2, <2>1, <2>2, <2>3 DEF GrepInv
  <1>17. QED
    BY <1>14, <1>15, <1>16 DEF TextInv

LEMMA TextStutters == TextInv /\ UNCHANGED textVars => TextInv'
  <1> SUFFICES ASSUME TextInv, UNCHANGED textVars PROVE TextInv'
    OBVIOUS
  <1>1. /\ tool' = tool /\ options' = options /\ pattern' = pattern /\ files' = files /\ cur' = cur
        /\ offset' = offset /\ counter' = counter /\ shown' = shown /\ totals' = totals
    BY DEF textVars
  <1>2. Text' = Text /\ \A j : ReadTo(j)' = ReadTo(j)
    BY <1>1 DEF ReadTo, Text
  <1>3. TextKinds'
    <2>1. (IF tool = "cat" THEN CatSymbols ELSE GrepLines)' = IF tool = "cat" THEN CatSymbols ELSE GrepLines
      BY <1>1
    <2>2. QED
      BY <1>1, <1>2, <2>1 DEF TextInv, TextKinds
  <1>4. AtLine'
    <2>1. offset # Closed /\ Tidy(Text) => Between(Text, offset)
      BY DEF TextInv, AtLine
    <2>2. QED
      BY <1>1, <1>2, <2>1 DEF AtLine
  <1>5. CatInv'
    <2>1. ASSUME tool = "cat", NEW j \in 1..cur, files[j] # Missing PROVE CatShows(files[j], ReadTo(j), shown[j])'
      <3>1. PICK u, p, s : u = files[j] /\ p = ReadTo(j)' /\ s = shown'[j]
        OBVIOUS
      <3>2. CatShows(u, p, s)
        BY <1>1, <1>2, <2>1, <3>1 DEF TextInv, CatInv
      <3>3. CatShows(u, p, s)' /\ u = files'[j]
        BY <1>1, <3>1, <3>2, ShowsStay
      <3>4. QED
        BY <3>1, <3>3
    <2>2. ASSUME tool = "cat", offset # Closed PROVE CatNumbers(Text, offset, counter)'
      <3>1. PICK t, p, c : t = Text /\ p = offset /\ c = counter
        OBVIOUS
      <3>2. CatNumbers(t, p, c)
        BY <2>2, <3>1 DEF TextInv, CatInv
      <3>3. CatNumbers(t, p, c)'
        BY <1>1, <3>2, ShowsStay
      <3>4. QED
        BY <1>1, <1>2, <3>1, <3>3
    <2>3. QED
      BY <1>1, <2>1, <2>2 DEF CatInv
  <1>6. GrepInv'
    <2>1. ASSUME tool \in {"grep", "grepStdin"}, NEW j \in 1..cur
          PROVE  /\ files[j] # Missing => GrepShows(files[j], ReadTo(j), shown[j])'
                 /\ files[j] = Missing => shown'[j] = <<>>
                 /\ totals'[j] = Len(shown'[j])
      <3>1. PICK u, p, s : u = files[j] /\ p = ReadTo(j)' /\ s = shown'[j]
        OBVIOUS
      <3>2. /\ u # Missing => GrepShows(u, p, s)
            /\ u = Missing => s = <<>>
            /\ totals'[j] = Len(s)
        BY <1>1, <1>2, <2>1, <3>1 DEF TextInv, GrepInv
      <3>3. u # Missing => GrepShows(u, p, s)'
        BY <1>1, <3>2, ShowsStay
      <3>4. u = files'[j]
        BY <1>1, <3>1
      <3>5. QED
        BY <3>1, <3>2, <3>3, <3>4
    <2>2. ASSUME tool \in {"grep", "grepStdin"}, offset # Closed
          PROVE  /\ \A k \in 1..Len(shown'[cur']) : shown'[cur'][k].number < counter'
                 /\ GrepNumbers(Text, offset, counter)'
      <3>1. PICK t, p, c : t = Text /\ p = offset /\ c = counter
        OBVIOUS
      <3>2. GrepNumbers(t, p, c) /\ \A k \in 1..Len(shown[cur]) : shown[cur][k].number < counter
        BY <2>2, <3>1 DEF TextInv, GrepInv
      <3>3. GrepNumbers(t, p, c)'
        BY <1>1, <3>2, ShowsStay
      <3>4. QED
        BY <1>1, <1>2, <3>1, <3>2, <3>3
    <2>3. QED
      BY <1>1, <2>1, <2>2 DEF GrepInv
  <1>7. QED
    BY <1>3, <1>4, <1>5, <1>6 DEF TextInv

\* TextInv holds in every reachable state.
LEMMA TextInvariance == TextSpec => []TextInv
  <1>1. TextInv /\ [TextNext]_textVars => TextInv'
    BY StartStep, OpenStep, CloseStep, CatStep, GrepStep, TextStutters DEF TextNext
  <1>2. QED
    BY <1>1, TextStarts, PTL DEF TextSpec

\* Of a file without zeros mycat, without -b, shows every character in its place,
\* whatever the length of the lines; where they fit into the buffer, and under -E the last
\* one ends, it shows what cat shows, and with -b that without the blank lines.
THEOREM CatIsFaithful == TextSpec => []CatFaithful
  <1>1. TextInv => CatFaithful
    <2> SUFFICES ASSUME TextInv, tool = "cat", NEW j \in 1..cur, IsRead(j)
                 PROVE  /\ Whole(files[j]) /\ "b" \notin options =>
                              Picked(shown[j], CharsOf(shown[j])) = Plain(files[j])
                        /\ Tidy(files[j]) /\ ("E" \in options => Ended(files[j])) =>
                              /\ shown[j] = RefNoBlanks(files[j])
                              /\ "b" \notin options => shown[j] = RefCat(files[j])
      BY DEF CatFaithful
    <2>1. PICK t, s : t = files[j] /\ s = shown[j]
      OBVIOUS
    <2>2. ReadTo(j) = Len(t) /\ t # Missing
      BY <2>1 DEF ReadTo, IsRead
    <2>3. t \in Seq(Characters)
      <3>1. files \in Seq(Seq(Characters) \cup {Missing}) /\ cur \in 0..Len(files) /\ Len(files) \in Nat
        BY LenProperties DEF TextInv, TextKinds
      <3>2. j \in 1..Len(files)
        BY <3>1
      <3>3. QED
        BY <2>1, <2>2, <3>1, <3>2, LenProperties
    <2>4. CatShows(t, Len(t), s)
      BY <2>1, <2>2 DEF TextInv, CatInv
    <2>5. SubSeq(t, 1, Len(t)) = t /\ PlacesTo(t, Len(t)) = Places(t)
      BY <2>3, AllShown
    <2>6. "b" \notin options => RefNoBlanks(t) = RefCat(t)
      BY DEF RefNoBlanks, RefCat, Places, KeptIn
    <2>7. QED
      BY <2>1, <2>4, <2>5, <2>6 DEF CatShows, RefNoBlanks
  <1>2. QED
    BY <1>1, TextInvariance, PTL

\* mygrep shows only what is in the file and holds the pattern, with growing numbers, and
\* counts it; where the lines fit into the buffer, all of them under their numbers.
THEOREM GrepIsFaithful == TextSpec => []GrepFaithful
  <1>1. TextInv => GrepFaithful
    <2> SUFFICES ASSUME TextInv, tool \in {"grep", "grepStdin"}, NEW j \in 1..cur
                 PROVE  /\ \A k \in 1..Len(shown[j]) :
                              /\ Holds(shown[j][k].text, pattern)
                              /\ Holds(files[j], shown[j][k].text)
                              /\ k > 1 => shown[j][k - 1].number < shown[j][k].number
                        /\ totals[j] = Len(shown[j])
                        /\ IsRead(j) /\ Tidy(files[j]) => shown[j] = RefGrep(files[j])
      BY DEF GrepFaithful
    <2>1. PICK t, s : t = files[j] /\ s = shown[j]
      OBVIOUS
    <2>2. totals[j] = Len(s) /\ (t # Missing => GrepShows(t, ReadTo(j), s)) /\ (t = Missing => s = <<>>)
      BY <2>1 DEF TextInv, GrepInv
    <2>3. \A k \in 1..Len(s) : /\ Holds(s[k].text, pattern)
                               /\ Holds(t, s[k].text)
                               /\ k > 1 => s[k - 1].number < s[k].number
      <3>1. CASE t # Missing
        BY <2>2, <3>1 DEF GrepShows
      <3>2. CASE t = Missing
        <4>1. Len(s) = 0
          BY <2>2, <3>2
        <4>2. QED
          BY <4>1
      <3>3. QED
        BY <3>1, <3>2
    <2>4. ASSUME IsRead(j), Tidy(t) PROVE s = RefGrep(t)
      <3>1. ReadTo(j) = Len(t) /\ t # Missing
        BY <2>1, <2>4 DEF ReadTo, IsRead
      <3>2. t \in Seq(Characters)
        <4>1. files \in Seq(Seq(Characters) \cup {Missing}) /\ cur \in 0..Len(files) /\ Len(files) \in Nat
          BY LenProperties DEF TextInv, TextKinds
        <4>2. j \in 1..Len(files)
          BY <4>1
        <4>3. QED
          BY <2>1, <3>1, <4>1, <4>2, LenProperties
      <3>3. s = Picked(GrepSymbols(t), {k \in Found(t) : k <= Len(t)})
        BY <2>2, <2>4, <3>1 DEF GrepShows
      <3>4. s = Picked(GrepSymbols(t), Found(t))
        BY <3>2, <3>3, AllShown
      <3>5. QED
        BY <3>4 DEF RefGrep, GrepSymbols, Counted
    <2>5. QED
      BY <2>1, <2>2, <2>3, <2>4
  <1>2. QED
    BY <1>1, TextInvariance, PTL

-----------------------------------------------------------------------------
(***************************************************************************)
(* ls (lab2)                                                               *)
(*                                                                         *)
(* LsInv: what is allocated at each point of the program; the array has    *)
(* the entries of the directory, once each and in the end in order; and    *)
(* what has been printed are the first of them, those that are shown.      *)
(***************************************************************************)

LsSpec == LsInit /\ [][LsNext]_lsVars

Blocks == {"path", "dir", "array"}

LsKinds ==
    /\ lsPc \in {"shell", "options", "open", "allocate", "read", "fail", "print", "failLate", "cleanup"} \cup LsEnded
    /\ dir \in Seq(Names) /\ \A j, k \in 1..Len(dir) : dir[j] = dir[k] => j = k
    /\ printed \in Seq(Names)
    /\ entryCount \in Nat /\ capacity \in Nat /\ nxt \in Nat
    /\ \A k \in 1..entryCount : entries[k] \in Names

\* Before the array is there.
AtStart ==
    lsPc \in {"shell", "options", "open", "allocate"} =>
        /\ ~hasEntries /\ entries = <<>> /\ entryCount = 0 /\ nxt = 0 /\ printed = <<>> /\ capacity = 0
        /\ openDir <=> lsPc = "allocate"
        /\ live = IF lsPc = "shell" THEN {} ELSE IF lsPc = "allocate" THEN {"path", "dir"} ELSE {"path"}

\* collectEntries has copied what readdir gave.
Collecting ==
    lsPc = "read" =>
        /\ openDir /\ hasEntries
        /\ live = Blocks \cup Entries(entryCount)
        /\ entries \in Seq(Names) /\ Len(entries) = entryCount
        /\ entryCount = nxt /\ nxt <= Len(dir) /\ entryCount <= capacity /\ capacity > 0
        /\ \A k \in 1..nxt : entries[k] = dir[k]
        /\ printed = <<>>

\* The entries from nxt on are allocated; failLate has freed one more.
Listed ==
    lsPc \in {"print", "failLate"} =>
        /\ openDir /\ hasEntries
        /\ nxt \in 1..(entryCount + 1) /\ (lsPc = "failLate" => nxt <= entryCount)
        /\ entryCount <= capacity /\ capacity > 0
        /\ Blocks \subseteq live /\ \A b \in live \ Blocks : \E k \in nxt..entryCount : entries[k] = b
        /\ lsPc = "print" => \A k \in nxt..entryCount : entries[k] \in live

Sorted ==
    lsPc \in {"print", "failLate"} =>
        \A j, k \in 1..entryCount : j < k => entries[j] # entries[k] /\ ~ComesAfter(entries[j], entries[k])

Winding ==
    /\ lsPc \in {"fail", "cleanup"} => openDir /\ ~hasEntries /\ live = {"path", "dir"}
    /\ lsPc \in LsEnded => ~hasEntries
    /\ lsPc = "cleanup" => capacity > 0

\* The array has what the directory has.
Complete ==
    lsPc = "print" =>
        /\ \A k \in 1..entryCount : \E j \in 1..Len(dir) : entries[k] = dir[j]
        /\ \A j \in 1..Len(dir) : \E k \in 1..entryCount : entries[k] = dir[j]

\* What is printed are the entries before nxt that are shown.
PrintedSoFar ==
    lsPc = "print" =>
        /\ \A i \in 1..Len(printed) : \E k \in 1..(nxt - 1) : printed[i] = entries[k] /\ Shown(entries[k])
        /\ \A k \in 1..(nxt - 1) : Shown(entries[k]) => \E i \in 1..Len(printed) : printed[i] = entries[k]

InOrder ==
    \A i, j \in 1..Len(printed) : i < j => printed[i] # printed[j] /\ ~ComesAfter(printed[i], printed[j])

AllPrinted ==
    lsPc \in {"cleanup", "ok"} /\ capacity > 0 =>
        /\ \A i \in 1..Len(printed) : Shown(printed[i]) /\ \E j \in 1..Len(dir) : printed[i] = dir[j]
        /\ \A j \in 1..Len(dir) : Shown(dir[j]) => \E i \in 1..Len(printed) : printed[i] = dir[j]

HeapInv == FreedOnce /\ NothingLeft

LsInv ==
    /\ LsKinds /\ AtStart /\ Collecting /\ Listed /\ Sorted /\ Winding /\ Complete /\ PrintedSoFar /\ InOrder
    /\ AllPrinted /\ HeapInv

-----------------------------------------------------------------------------
(* The way out *)

\* cleanupProgram that is given what is allocated, and nothing else, frees it.
LEMMA CleanExit ==
  ASSUME NEW how, Exit(how), Kept = live
  PROVE  live' = {} /\ twice' = twice /\ lsPc' = how
  BY DEF Exit, Free

\* The program may end where cleanupProgram knows what is allocated.
LEMMA ExitStep ==
  ASSUME LsInv, NEW how \in {"ok", "failed"}, Exit(how), Kept = live,
         lsPc \notin LsEnded, lsPc # "failLate", how = "ok" => lsPc = "cleanup" \/ capacity = 0
  PROVE  LsInv'
  <1>1. live' = {} /\ twice' = {} /\ lsPc' = how
    BY CleanExit DEF LsInv, HeapInv, FreedOnce, LsEnded
  <1>2. /\ UNCHANGED <<lsAll, dir, entries, entryCount, capacity, nxt, printed>>
        /\ ~hasEntries'
    BY DEF Exit
  <1>3. LsKinds' /\ InOrder'
    BY <1>1, <1>2 DEF LsInv, LsKinds, InOrder, LsEnded, ComesAfter
  <1>4. AtStart' /\ Collecting' /\ Listed' /\ Sorted' /\ Winding' /\ Complete' /\ PrintedSoFar' /\ HeapInv'
    BY <1>1, <1>2 DEF AtStart, Collecting, Listed, Sorted, Winding, Complete, PrintedSoFar, HeapInv, FreedOnce,
         NothingLeft, LsEnded
  <1>5. AllPrinted'
    <2>1. CASE capacity = 0 \/ how # "ok"
      BY <1>1, <1>2, <2>1 DEF AllPrinted
    <2>2. CASE capacity > 0 /\ how = "ok"
      <3>1. /\ \A i \in 1..Len(printed) : Shown(printed[i]) /\ \E j \in 1..Len(dir) : printed[i] = dir[j]
            /\ \A j \in 1..Len(dir) : Shown(dir[j]) => \E i \in 1..Len(printed) : printed[i] = dir[j]
        BY <2>2 DEF LsInv, AllPrinted
      <3>2. QED
        BY <1>2, <3>1 DEF AllPrinted, Shown
    <2>3. QED
      BY <2>1, <2>2 DEF LsInv, LsKinds
  <1>6. QED
    BY <1>3, <1>4, <1>5 DEF LsInv

\* Where there is no array, cleanupProgram knows what is allocated.
LEMMA KeptWithoutArray ==
  ASSUME LsInv, lsPc \in {"options", "open", "allocate", "fail", "cleanup"}
  PROVE  Kept = live
  BY DEF LsInv, AtStart, Winding, Kept

-----------------------------------------------------------------------------
(* main and collectEntries *)

LEMMA LsStartStep == LsInv /\ LsStart => LsInv'
  <1> SUFFICES ASSUME LsInv, LsStart PROVE LsInv'
    OBVIOUS
  <1> USE DEF LsInv, LsStart, stateVars
  <1>1. LsKinds'
    BY DirectoriesAssumption DEF LsKinds, LsEnded
  <1>2. AtStart' /\ Winding' /\ HeapInv'
    BY DEF AtStart, Winding, HeapInv, FreedOnce, NothingLeft, LsEnded
  <1>3. Collecting' /\ Listed' /\ Sorted' /\ Complete' /\ PrintedSoFar' /\ AllPrinted'
    BY DEF Collecting, Listed, Sorted, Complete, PrintedSoFar, AllPrinted
  <1>4. InOrder'
    BY DEF InOrder, ComesAfter
  <1>5. QED
    BY <1>1, <1>2, <1>3, <1>4

LEMMA OptionsStep == LsInv /\ LsOptions => LsInv'
  <1> SUFFICES ASSUME LsInv, LsOptions PROVE LsInv'
    OBVIOUS
  <1>1. Kept = live /\ capacity = 0 /\ lsPc = "options"
    BY KeptWithoutArray DEF LsInv, AtStart, LsOptions
  <1>2. CASE Exit("ok") \/ Exit("failed")
    BY <1>1, <1>2, ExitStep DEF LsEnded
  <1>3. CASE /\ lsPc' = "open"
             /\ UNCHANGED <<dir, gone, heapVars, stateVars, nxt, printed>>
    <2> USE <1>1, <1>3 DEF LsInv, heapVars, stateVars
    <2>1. LsKinds' /\ InOrder'
      BY DEF LsKinds, InOrder, ComesAfter
    <2>2. AtStart' /\ Winding' /\ HeapInv'
      BY DEF AtStart, Winding, HeapInv, FreedOnce, NothingLeft, LsEnded
    <2>3. Collecting' /\ Listed' /\ Sorted' /\ Complete' /\ PrintedSoFar' /\ AllPrinted'
      BY DEF Collecting, Listed, Sorted, Complete, PrintedSoFar, AllPrinted
    <2>4. QED
      BY <2>1, <2>2, <2>3
  <1>4. QED
    BY <1>2, <1>3 DEF LsOptions

LEMMA LsOpenStep == LsInv /\ LsOpen => LsInv'
  <1> SUFFICES ASSUME LsInv, LsOpen PROVE LsInv'
    OBVIOUS
  <1>1. Kept = live /\ lsPc = "open"
    BY KeptWithoutArray DEF LsOpen
  <1>2. CASE Exit("failed")
    BY <1>1, <1>2, ExitStep DEF LsEnded
  <1>3. CASE ~Exit("failed")
    <2> USE <1>1, <1>3 DEF LsInv, LsOpen
    <2>1. LsKinds' /\ InOrder'
      BY DEF LsKinds, InOrder, ComesAfter
    <2>2. AtStart' /\ Winding' /\ HeapInv'
      BY DEF AtStart, Winding, HeapInv, FreedOnce, NothingLeft, LsEnded
    <2>3. Collecting' /\ Listed' /\ Sorted' /\ Complete' /\ PrintedSoFar' /\ AllPrinted'
      BY DEF Collecting, Listed, Sorted, Complete, PrintedSoFar, AllPrinted
    <2>4. QED
      BY <2>1, <2>2, <2>3
  <1>4. QED
    BY <1>2, <1>3

LEMMA AllocateStep == LsInv /\ LsAllocate => LsInv'
  <1> SUFFICES ASSUME LsInv, LsAllocate PROVE LsInv'
    OBVIOUS
  <1>1. Kept = live /\ lsPc = "allocate"
    BY KeptWithoutArray DEF LsAllocate
  <1>2. CASE Exit("failed")
    BY <1>1, <1>2, ExitStep DEF LsEnded
  <1>3. CASE ~Exit("failed")
    <2> USE <1>1, <1>3, CapacityAssumption DEF LsInv, LsAllocate
    <2>1. LsKinds' /\ InOrder'
      BY DEF LsKinds, InOrder, ComesAfter
    <2>2. AtStart' /\ Winding' /\ HeapInv'
      BY DEF AtStart, Winding, HeapInv, FreedOnce, NothingLeft, LsEnded
    <2>3. Collecting'
      <3>1. openDir /\ live = {"path", "dir"} /\ entries = <<>> /\ nxt = 0 /\ printed = <<>> /\ Len(dir) \in Nat
        BY DEF AtStart, LsKinds
      <3>2. Entries(entryCount)' = {}
        BY DEF Entries
      <3>3. entries' \in Seq(Names) /\ Len(entries') = 0 /\ nxt' = 0
        <4>1. entries' = <<>> /\ nxt' = 0
          BY <3>1
        <4>2. QED
          BY <4>1, EmptySeq
      <3>4. openDir' /\ hasEntries' /\ live' = Blocks \cup Entries(entryCount)' /\ printed' = <<>>
        BY <3>1, <3>2 DEF Blocks
      <3>5. QED
        BY <3>1, <3>3, <3>4 DEF Collecting
    <2>4. Listed' /\ Sorted' /\ Complete' /\ PrintedSoFar' /\ AllPrinted'
      BY DEF Listed, Sorted, Complete, PrintedSoFar, AllPrinted
    <2>5. QED
      BY <2>1, <2>2, <2>3, <2>4
  <1>4. QED
    BY <1>2, <1>3

LEMMA GrowStep == LsInv /\ LsGrow => LsInv'
  <1> SUFFICES ASSUME LsInv, LsGrow PROVE LsInv'
    OBVIOUS
  <1> USE DEF LsInv, LsGrow, heapVars
  <1>1. LsKinds' /\ InOrder'
    BY DEF LsKinds, InOrder, ComesAfter
  <1>2. AtStart' /\ Winding' /\ HeapInv' /\ Listed' /\ Sorted' /\ Complete' /\ PrintedSoFar' /\ AllPrinted'
    BY DEF AtStart, Winding, HeapInv, FreedOnce, NothingLeft, LsEnded, Listed, Sorted, Complete, PrintedSoFar,
           AllPrinted
  <1>3. Collecting'
    BY DEF Collecting, LsKinds, Entries
  <1>4. QED
    BY <1>1, <1>2, <1>3

\* The next name of the directory is not among the copies yet.
LEMMA CopyStep == LsInv /\ LsCopy => LsInv'
  <1> SUFFICES ASSUME LsInv, LsCopy PROVE LsInv'
    OBVIOUS
  <1> USE DEF LsInv, LsCopy
  <1>1. /\ entries \in Seq(Names) /\ Len(entries) = entryCount /\ nxt = entryCount
        /\ \A k \in 1..nxt : entries[k] = dir[k]
        /\ live = Blocks \cup Entries(entryCount) /\ entryCount \in Nat /\ capacity \in Nat
    BY DEF Collecting, LsKinds
  <1>2. nxt' \in 1..Len(dir) /\ dir[nxt'] \in Names
    BY <1>1 DEF LsKinds
  <1>3. /\ entries' \in Seq(Names) /\ Len(entries') = entryCount' /\ entryCount' = nxt' /\ entryCount' \in Nat
        /\ \A k \in 1..nxt' : entries'[k] = dir[k]
    BY <1>1, <1>2
  <1>4. Entries(entryCount)' = Entries(entryCount) \cup {dir[nxt']}
    <2>1. \A k \in 1..entryCount : entries'[k] = entries[k]
      BY <1>1, <1>3
    <2>2. entries'[nxt'] = dir[nxt'] /\ 1..entryCount' = (1..entryCount) \cup {nxt'}
      BY <1>1, <1>2, <1>3
    <2>3. \A b : b \in Entries(entryCount)' <=> \E k \in 1..entryCount' : entries'[k] = b
      BY DEF Entries
    <2>4. \A b : b \in Entries(entryCount) <=> \E k \in 1..entryCount : entries[k] = b
      BY DEF Entries
    <2> HIDE DEF LsInv, LsCopy
    <2>5. \A b : b \in Entries(entryCount)' <=> b \in Entries(entryCount) \/ b = dir[nxt']
      BY <2>1, <2>2, <2>3, <2>4
    <2>6. QED
      BY <2>5
  <1>5. LsKinds'
    BY <1>3 DEF LsKinds
  <1>6. Collecting'
    BY <1>1, <1>2, <1>3, <1>4 DEF Collecting, Full, LsKinds
  <1>7. InOrder'
    BY DEF InOrder, ComesAfter
  <1>8. AtStart' /\ Winding' /\ HeapInv' /\ Listed' /\ Sorted' /\ Complete' /\ PrintedSoFar' /\ AllPrinted'
    BY DEF AtStart, Winding, HeapInv, FreedOnce, NothingLeft, LsEnded, Listed, Sorted, Complete, PrintedSoFar,
           AllPrinted
  <1>9. QED
    BY <1>5, <1>6, <1>7, <1>8

\* An error while the array is filled frees the copies there are and the array.
LEMMA ReadFailsStep == LsInv /\ LsReadFails => LsInv'
  <1> SUFFICES ASSUME LsInv, LsReadFails PROVE LsInv'
    OBVIOUS
  <1> USE DEF LsInv, LsReadFails
  <1>1. live' = {"path", "dir"} /\ twice' = {} /\ openDir
    <2>1. live = Blocks \cup Entries(entryCount) /\ openDir /\ twice = {}
      BY DEF Collecting, HeapInv, FreedOnce
    <2>2. Entries(entryCount) \subseteq Names
      BY DEF LsKinds, Entries
    <2>3. "path" \notin Entries(entryCount) /\ "dir" \notin Entries(entryCount)
      BY <2>2, NamesAssumption
    <2>4. QED
      BY <2>1, <2>3 DEF Free, Blocks
  <1>2. LsKinds' /\ InOrder'
    BY DEF LsKinds, InOrder, ComesAfter
  <1>3. Winding' /\ HeapInv'
    BY <1>1 DEF Winding, HeapInv, FreedOnce, NothingLeft, LsEnded, Forgotten
  <1>4. AtStart' /\ Collecting' /\ Listed' /\ Sorted' /\ Complete' /\ PrintedSoFar' /\ AllPrinted'
    BY DEF AtStart, Collecting, Listed, Sorted, Complete, PrintedSoFar, AllPrinted
  <1>5. QED
    BY <1>2, <1>3, <1>4

\* The array is freed, or was never there, wherever the program ends but in printEntry.
LEMMA FailStep == LsInv /\ (LsFail \/ LsReturn) => LsInv'
  BY KeptWithoutArray, ExitStep DEF LsFail, LsReturn, LsEnded

-----------------------------------------------------------------------------
(* The sorted array is printed *)

\* qsort loses no entry and takes none twice.
LEMMA SortStep == LsInv /\ LsSort => LsInv'
  <1> SUFFICES ASSUME LsInv, LsSort PROVE LsInv'
    OBVIOUS
  <1> DEFINE n == entryCount
  <1>1. /\ lsPc = "read" /\ lsPc' = "print" /\ nxt' = 1 /\ nxt = Len(dir)
        /\ UNCHANGED <<lsAll, dir, live, twice, openDir, hasEntries, entryCount, capacity, printed>>
        /\ entries' \in Bijection(1..n, Entries(n))
        /\ \A j, k \in 1..n : j < k => ~ComesAfter(entries'[j], entries'[k])
    BY DEF LsSort, heapVars
  <1>2. /\ n = Len(dir) /\ n \in Nat /\ \A k \in 1..n : entries[k] = dir[k] /\ entries[k] \in Names
        /\ n <= capacity /\ capacity > 0 /\ openDir /\ hasEntries /\ live = Blocks \cup Entries(n) /\ printed = <<>>
        /\ twice = {}
    BY <1>1 DEF LsInv, LsKinds, Collecting, HeapInv, FreedOnce
  <1>3. \A k \in 1..n : \E j \in 1..n : entries'[k] = entries[j]
    BY <1>1 DEF Bijection, Injection, Entries
  <1>4. \A j \in 1..n : \E k \in 1..n : entries'[k] = entries[j]
    BY <1>1 DEF Bijection, Surjection, Entries
  <1>5. \A j, k \in 1..n : j < k => entries'[j] # entries'[k]
    BY <1>1, <1>2 DEF Bijection, Injection, IsInjective
  <1>6. \A b \in Entries(n) : \E k \in 1..n : entries'[k] = b
    BY <1>1 DEF Bijection, Surjection
  <1>7. \A k \in 1..n : entries'[k] \in Entries(n)
    BY <1>1 DEF Bijection, Injection
  <1> HIDE DEF n
  <1> USE DEF LsInv
  <1>8. LsKinds'
    <2>1. \A k \in 1..n : entries'[k] \in Names
      BY <1>2, <1>3
    <2>2. QED
      BY <1>1, <2>1 DEF LsKinds, n
  <1>9. Listed'
    <2>1. \A b \in live' \ Blocks : \E k \in 1..n : entries'[k] = b
      BY <1>1, <1>2, <1>6
    <2>2. \A k \in 1..n : entries'[k] \in live'
      BY <1>1, <1>2, <1>7
    <2>3. Blocks \subseteq live' /\ 1 \in 1..(n + 1)
      BY <1>1, <1>2
    <2>4. QED
      BY <1>1, <1>2, <2>1, <2>2, <2>3 DEF Listed, n
  <1>10. Sorted'
    <2>1. \A j, k \in 1..n : j < k => entries'[j] # entries'[k] /\ ~ComesAfter(entries'[j], entries'[k])
      BY <1>1, <1>5
    <2>2. QED
      BY <1>1, <2>1 DEF Sorted, n, ComesAfter
  <1>11. Complete'
    <2>1. \A k \in 1..n : \E j \in 1..Len(dir) : entries'[k] = dir[j]
      BY <1>2, <1>3
    <2>2. \A j \in 1..Len(dir) : \E k \in 1..n : entries'[k] = dir[j]
      BY <1>2, <1>4
    <2>3. QED
      BY <1>1, <2>1, <2>2 DEF Complete, n
  <1>12. PrintedSoFar' /\ InOrder'
    BY <1>1, <1>2 DEF PrintedSoFar, InOrder
  <1>13. AtStart' /\ Collecting' /\ Winding' /\ AllPrinted' /\ HeapInv'
    BY <1>1, <1>2 DEF AtStart, Collecting, Winding, AllPrinted, HeapInv, FreedOnce, NothingLeft, LsEnded
  <1>14. QED
    BY <1>8, <1>9, <1>10, <1>11, <1>12, <1>13

\* The entry at nxt is allocated: freeing it frees no other.
LEMMA FreeEntry ==
  ASSUME LsInv, Printing, Free({Entry})
  PROVE  /\ twice' = {} /\ Blocks \subseteq live'
         /\ \A b \in live' \ Blocks : \E k \in (nxt + 1)..entryCount : entries[k] = b
         /\ \A k \in (nxt + 1)..entryCount : entries[k] \in live'
  <1> USE DEF LsInv, Printing
  <1>1. /\ nxt \in 1..entryCount /\ entryCount \in Nat /\ Entry \in Names /\ Entry \in live /\ twice = {}
        /\ Blocks \subseteq live /\ \A b \in live \ Blocks : \E k \in nxt..entryCount : entries[k] = b
        /\ \A k \in nxt..entryCount : entries[k] \in live
    BY DEF Listed, LsKinds, HeapInv, FreedOnce, Entry
  <1>2. Entry \notin Blocks
    BY <1>1, NamesAssumption DEF Blocks
  <1>3. live' = live \ {Entry} /\ twice' = {}
    BY <1>1 DEF Free
  <1>4. ASSUME NEW b \in live' \ Blocks PROVE \E k \in (nxt + 1)..entryCount : entries[k] = b
    <2>1. PICK k \in nxt..entryCount : entries[k] = b
      BY <1>1, <1>3
    <2>2. k # nxt
      BY <2>1, <1>3 DEF Entry
    <2>3. QED
      BY <1>1, <2>1, <2>2
  <1>5. ASSUME NEW k \in (nxt + 1)..entryCount PROVE entries[k] \in live'
    <2>1. entries[k] # Entry
      BY <1>1 DEF Sorted, Entry
    <2>2. QED
      BY <1>1, <1>3, <2>1
  <1>6. QED
    BY <1>1, <1>2, <1>3, <1>4, <1>5

LEMMA SkipStep == LsInv /\ LsSkip => LsInv'
  <1> SUFFICES ASSUME LsInv, LsSkip PROVE LsInv'
    OBVIOUS
  <1>1. /\ twice' = {} /\ Blocks \subseteq live'
        /\ \A b \in live' \ Blocks : \E k \in (nxt + 1)..entryCount : entries[k] = b
        /\ \A k \in (nxt + 1)..entryCount : entries[k] \in live'
    BY FreeEntry DEF LsSkip
  <1>2. /\ nxt \in 1..entryCount /\ entryCount \in Nat /\ lsPc = "print" /\ nxt' = nxt + 1
        /\ UNCHANGED <<lsPc, lsAll, dir, openDir, hasEntries, entries, entryCount, capacity, printed>>
        /\ ~Shown(entries[nxt])
    BY DEF LsInv, Listed, LsKinds, LsSkip, Printing, Entry, stateVars
  <1> USE DEF LsInv
  <1>3. LsKinds' /\ Sorted' /\ Complete' /\ InOrder'
    BY <1>2 DEF LsKinds, Sorted, Complete, InOrder, ComesAfter
  <1>4. Listed'
    BY <1>1, <1>2 DEF Listed
  <1>5. PrintedSoFar'
    <2>1. /\ \A i \in 1..Len(printed) : \E k \in 1..(nxt - 1) : printed[i] = entries[k] /\ Shown(entries[k])
          /\ \A k \in 1..(nxt - 1) : Shown(entries[k]) => \E i \in 1..Len(printed) : printed[i] = entries[k]
      BY <1>2 DEF PrintedSoFar
    <2>2. /\ \A i \in 1..Len(printed) : \E k \in 1..nxt : printed[i] = entries[k] /\ Shown(entries[k])
          /\ \A k \in 1..nxt : Shown(entries[k]) => \E i \in 1..Len(printed) : printed[i] = entries[k]
      BY <1>2, <2>1
    <2>3. nxt' - 1 = nxt /\ printed' = printed /\ entries' = entries
      BY <1>2
    <2>4. /\ \A i \in 1..Len(printed') : \E k \in 1..(nxt' - 1) : printed'[i] = entries'[k] /\ Shown(entries[k])'
          /\ \A k \in 1..(nxt' - 1) : Shown(entries[k])' => \E i \in 1..Len(printed') : printed'[i] = entries'[k]
      <3>1. \A k : Shown(entries[k])' <=> Shown(entries[k])
        BY <2>3, <1>2 DEF Shown
      <3>2. QED
        BY <2>2, <2>3, <3>1
    <2>5. QED
      BY <2>4 DEF PrintedSoFar
  <1>6. AtStart' /\ Collecting' /\ Winding' /\ AllPrinted' /\ HeapInv'
    BY <1>1, <1>2 DEF AtStart, Collecting, Winding, AllPrinted, HeapInv, FreedOnce, NothingLeft, LsEnded
  <1>7. QED
    BY <1>3, <1>4, <1>5, <1>6

\* What is printed next comes after what was printed before: it is a later entry.
LEMMA PrintStep == LsInv /\ LsPrint => LsInv'
  <1> SUFFICES ASSUME LsInv, LsPrint PROVE LsInv'
    OBVIOUS
  <1>1. /\ twice' = {} /\ Blocks \subseteq live'
        /\ \A b \in live' \ Blocks : \E k \in (nxt + 1)..entryCount : entries[k] = b
        /\ \A k \in (nxt + 1)..entryCount : entries[k] \in live'
    BY FreeEntry DEF LsPrint
  <1>2. /\ nxt \in 1..entryCount /\ entryCount \in Nat /\ lsPc = "print" /\ nxt' = nxt + 1
        /\ UNCHANGED <<lsPc, lsAll, dir, openDir, hasEntries, entries, entryCount, capacity>>
        /\ Shown(entries[nxt]) /\ entries[nxt] \in Names
        /\ printed \in Seq(Names) /\ printed' = Append(printed, entries[nxt])
    BY DEF LsInv, Listed, LsKinds, LsPrint, Printing, Entry, stateVars
  <1>3. /\ printed' \in Seq(Names) /\ Len(printed') = Len(printed) + 1 /\ Len(printed) \in Nat
        /\ \A i \in 1..Len(printed) : printed'[i] = printed[i]
        /\ printed'[Len(printed')] = entries[nxt]
    BY <1>2
  <1> USE DEF LsInv
  <1>4. LsKinds' /\ Sorted' /\ Complete'
    BY <1>2, <1>3 DEF LsKinds, Sorted, Complete, ComesAfter
  <1>5. Listed'
    BY <1>1, <1>2 DEF Listed
  <1>6. /\ \A i \in 1..Len(printed) : \E k \in 1..(nxt - 1) : printed[i] = entries[k] /\ Shown(entries[k])
        /\ \A k \in 1..(nxt - 1) : Shown(entries[k]) => \E i \in 1..Len(printed) : printed[i] = entries[k]
    BY <1>2 DEF PrintedSoFar
  <1>7. PrintedSoFar'
    <2>1. ASSUME NEW i \in 1..Len(printed')
          PROVE  \E k \in 1..nxt : printed'[i] = entries[k] /\ Shown(entries[k])
      <3>1. CASE i = Len(printed')
        BY <1>2, <1>3, <3>1
      <3>2. CASE i # Len(printed')
        <4>1. i \in 1..Len(printed) /\ printed'[i] = printed[i]
          BY <1>3, <3>2
        <4>2. QED
          BY <1>2, <1>6, <4>1
      <3>3. QED
        BY <3>1, <3>2
    <2>2. ASSUME NEW k \in 1..nxt, Shown(entries[k])
          PROVE  \E i \in 1..Len(printed') : printed'[i] = entries[k]
      <3>1. CASE k = nxt
        BY <1>3, <3>1
      <3>2. CASE k # nxt
        BY <1>2, <1>3, <1>6, <2>2, <3>2
      <3>3. QED
        BY <3>1, <3>2
    <2>3. nxt' - 1 = nxt
      BY <1>2
    <2>4. /\ \A i \in 1..Len(printed') : \E k \in 1..nxt : printed'[i] = entries'[k] /\ Shown(entries[k])
          /\ \A k \in 1..nxt : Shown(entries[k]) => \E i \in 1..Len(printed') : printed'[i] = entries'[k]
      BY <1>2, <2>1, <2>2
    <2>5. QED
      BY <1>2, <2>3, <2>4 DEF PrintedSoFar, Shown
  <1>8. InOrder'
    <2>1. ASSUME NEW i \in 1..Len(printed'), NEW j \in 1..Len(printed'), i < j
          PROVE  printed'[i] # printed'[j] /\ ~ComesAfter(printed'[i], printed'[j])
      <3>1. CASE j = Len(printed')
        <4>1. PICK k \in 1..(nxt - 1) : printed[i] = entries[k]
          BY <1>3, <1>6, <2>1, <3>1
        <4>2. entries[k] # entries[nxt] /\ ~ComesAfter(entries[k], entries[nxt])
          BY <1>2 DEF Sorted
        <4>3. printed'[i] = entries[k] /\ printed'[j] = entries[nxt]
          BY <1>3, <2>1, <3>1, <4>1
        <4>4. QED
          BY <4>2, <4>3
      <3>2. CASE j # Len(printed')
        <4>1. i \in 1..Len(printed) /\ j \in 1..Len(printed)
          BY <1>3, <2>1, <3>2
        <4>2. QED
          BY <1>3, <2>1, <4>1 DEF InOrder
      <3>3. QED
        BY <3>1, <3>2
    <2>2. QED
      BY <2>1 DEF InOrder, ComesAfter
  <1>9. AtStart' /\ Collecting' /\ Winding' /\ AllPrinted' /\ HeapInv'
    BY <1>1, <1>2 DEF AtStart, Collecting, Winding, AllPrinted, HeapInv, FreedOnce, NothingLeft, LsEnded
  <1>10. QED
    BY <1>4, <1>5, <1>7, <1>8, <1>9

\* An entry that is not printed is freed: one block less than the array names.
LEMMA StatFailsStep == LsInv /\ LsStatFails => LsInv'
  <1> SUFFICES ASSUME LsInv, LsStatFails PROVE LsInv'
    OBVIOUS
  <1>1. /\ twice' = {} /\ Blocks \subseteq live'
        /\ \A b \in live' \ Blocks : \E k \in (nxt + 1)..entryCount : entries[k] = b
    BY FreeEntry DEF LsStatFails
  <1>2. /\ nxt \in 1..entryCount /\ entryCount \in Nat /\ lsPc = "print" /\ lsPc' = "failLate"
        /\ UNCHANGED <<lsAll, dir, openDir, hasEntries, entries, entryCount, capacity, nxt, printed>>
    BY DEF LsInv, Listed, LsKinds, LsStatFails, Printing, stateVars
  <1> USE DEF LsInv
  <1>3. LsKinds' /\ Sorted' /\ InOrder'
    BY <1>2 DEF LsKinds, Sorted, InOrder, ComesAfter
  <1>4. Listed'
    <2>1. \A b \in live' \ Blocks : \E k \in nxt..entryCount : entries[k] = b
      BY <1>1, <1>2
    <2>2. QED
      BY <1>1, <1>2, <2>1 DEF Listed
  <1>5. AtStart' /\ Collecting' /\ Winding' /\ Complete' /\ PrintedSoFar' /\ AllPrinted' /\ HeapInv'
    BY <1>1, <1>2 DEF AtStart, Collecting, Winding, Complete, PrintedSoFar, AllPrinted, HeapInv, FreedOnce,
         NothingLeft, LsEnded
  <1>6. QED
    BY <1>3, <1>4, <1>5

\* cleanupProgram frees all entries of the array, those that were freed when they were
\* printed once more; nothing stays allocated.
LEMMA FailLateStep == LsInv /\ LsFailLate => LsInv'
  <1> SUFFICES ASSUME LsInv, LsFailLate PROVE LsInv'
    OBVIOUS
  <1>1. /\ nxt \in 1..entryCount /\ openDir /\ hasEntries /\ entryCount \in Nat /\ lsPc \in {"print", "failLate"}
        /\ Blocks \subseteq live /\ \A b \in live \ Blocks : \E k \in nxt..entryCount : entries[k] = b
    BY DEF LsInv, LsFailLate, Printing, Listed, LsKinds
  <1>2. live \subseteq Kept
    <2>1. \A b \in live \ Blocks : b \in Entries(entryCount)
      BY <1>1 DEF Entries
    <2>2. QED
      BY <1>1, <2>1 DEF Kept, Blocks
  <1>3. /\ live' = {} /\ lsPc' \in {"failedLate", "aborted"} /\ ~hasEntries'
        /\ UNCHANGED <<lsAll, dir, entries, entryCount, capacity, nxt, printed>>
    BY <1>2 DEF LsFailLate, Exit, Free
  <1> USE DEF LsInv
  <1>4. LsKinds' /\ InOrder'
    BY <1>3 DEF LsKinds, LsEnded, InOrder, ComesAfter
  <1>5. HeapInv' /\ Winding'
    BY <1>1, <1>3 DEF HeapInv, FreedOnce, NothingLeft, LsEnded, Winding
  <1>6. AtStart' /\ Collecting' /\ Listed' /\ Sorted' /\ Complete' /\ PrintedSoFar' /\ AllPrinted'
    BY <1>3 DEF AtStart, Collecting, Listed, Sorted, Complete, PrintedSoFar, AllPrinted
  <1>7. QED
    BY <1>4, <1>5, <1>6

\* All entries are printed, or not to be shown, and the array is the last to be freed.
LEMMA FinishStep == LsInv /\ LsFinish => LsInv'
  <1> SUFFICES ASSUME LsInv, LsFinish PROVE LsInv'
    OBVIOUS
  <1>1. /\ lsPc = "print" /\ lsPc' = "cleanup" /\ nxt = entryCount + 1 /\ entryCount \in Nat /\ ~hasEntries'
        /\ openDir /\ capacity > 0 /\ entryCount' = 0 /\ twice = {} /\ live = Blocks
        /\ UNCHANGED <<lsAll, dir, openDir, entries, capacity, nxt, printed>>
    <2>1. /\ lsPc = "print" /\ lsPc' = "cleanup" /\ entryCount \in Nat /\ nxt \in Nat /\ nxt > entryCount
          /\ ~hasEntries' /\ entryCount' = 0
          /\ UNCHANGED <<lsAll, dir, openDir, entries, capacity, nxt, printed>>
      BY DEF LsInv, LsFinish, LsKinds
    <2>2. /\ openDir /\ capacity > 0 /\ twice = {} /\ nxt \in 1..(entryCount + 1) /\ Blocks \subseteq live
          /\ \A b \in live \ Blocks : \E k \in nxt..entryCount : entries[k] = b
      BY <2>1 DEF LsInv, Listed, HeapInv, FreedOnce
    <2>3. nxt = entryCount + 1 /\ nxt..entryCount = {}
      BY <2>1, <2>2
    <2>4. live = Blocks
      BY <2>2, <2>3
    <2>5. QED
      BY <2>1, <2>2, <2>3, <2>4
  <1>2. live' = {"path", "dir"} /\ twice' = {}
    BY <1>1 DEF LsFinish, Free, Blocks
  <1>3. LsKinds' /\ InOrder'
    BY <1>1 DEF LsInv, LsKinds, InOrder, ComesAfter
  <1>4. AllPrinted'
    <2> USE DEF LsInv
    <2>0. PrintedSoFar /\ Complete /\ nxt - 1 = entryCount
      BY <1>1
    <2> HIDE DEF LsInv
    <2>1. /\ \A i \in 1..Len(printed) : \E k \in 1..entryCount : printed[i] = entries[k] /\ Shown(entries[k])
          /\ \A k \in 1..entryCount : Shown(entries[k]) => \E i \in 1..Len(printed) : printed[i] = entries[k]
      BY <1>1, <2>0 DEF PrintedSoFar
    <2>2. /\ \A k \in 1..entryCount : \E j \in 1..Len(dir) : entries[k] = dir[j]
          /\ \A j \in 1..Len(dir) : \E k \in 1..entryCount : entries[k] = dir[j]
      BY <1>1, <2>0 DEF Complete
    <2>3. ASSUME NEW i \in 1..Len(printed) PROVE Shown(printed[i]) /\ \E j \in 1..Len(dir) : printed[i] = dir[j]
      <3>1. PICK k \in 1..entryCount : printed[i] = entries[k] /\ Shown(entries[k])
        BY <2>1
      <3>2. PICK j \in 1..Len(dir) : entries[k] = dir[j]
        BY <2>2
      <3>3. Shown(printed[i]) <=> Shown(entries[k])
        BY <3>1
      <3>4. QED
        BY <3>1, <3>2, <3>3
    <2>4. ASSUME NEW j \in 1..Len(dir), Shown(dir[j]) PROVE \E i \in 1..Len(printed) : printed[i] = dir[j]
      <3>1. PICK k \in 1..entryCount : entries[k] = dir[j]
        BY <2>2
      <3>2. Shown(entries[k])
        BY <2>4, <3>1
      <3>3. QED
        BY <2>1, <3>1, <3>2
    <2>5. QED
      BY <1>1, <2>3, <2>4 DEF AllPrinted, Shown
  <1>5. AtStart' /\ Collecting' /\ Listed' /\ Sorted' /\ Winding' /\ Complete' /\ PrintedSoFar' /\ HeapInv'
    BY <1>1, <1>2 DEF AtStart, Collecting, Listed, Sorted, Winding, Complete, PrintedSoFar, HeapInv, FreedOnce,
         NothingLeft, LsEnded
  <1>6. QED
    BY <1>3, <1>4, <1>5 DEF LsInv

\* What others remove is seen by lstat only.
LEMMA StutterStep ==
  LsInv /\ UNCHANGED <<lsPc, lsAll, dir, heapVars, stateVars, nxt, printed>> => LsInv'
  <1> SUFFICES ASSUME LsInv, UNCHANGED <<lsPc, lsAll, dir, heapVars, stateVars, nxt, printed>> PROVE LsInv'
    OBVIOUS
  <1> USE DEF LsInv, heapVars, stateVars
  <1>1. LsKinds' /\ AtStart' /\ Collecting' /\ Sorted' /\ Winding' /\ Complete' /\ InOrder'
    BY DEF LsKinds, AtStart, Collecting, Sorted, Winding, Complete, InOrder, ComesAfter, Entries
  <1>2. Listed' /\ HeapInv'
    BY DEF Listed, HeapInv, FreedOnce, NothingLeft
  <1>3. PrintedSoFar'
    BY DEF PrintedSoFar, Shown
  <1>4. AllPrinted'
    BY DEF AllPrinted, Shown
  <1>5. QED
    BY <1>1, <1>2, <1>3, <1>4

-----------------------------------------------------------------------------
(* The theorems *)

\* LsInv holds in every reachable state.
LEMMA LsInvariance == LsSpec => []LsInv
  <1>1. LsInit => LsInv
    <2> SUFFICES ASSUME LsInit PROVE LsInv
      OBVIOUS
    <2> USE DEF LsInit
    <2>1. LsKinds /\ AtStart /\ Winding /\ InOrder /\ HeapInv
      BY DEF LsKinds, AtStart, Winding, InOrder, HeapInv, FreedOnce, NothingLeft, LsEnded
    <2>2. Collecting /\ Listed /\ Sorted /\ Complete /\ PrintedSoFar /\ AllPrinted
      BY DEF Collecting, Listed, Sorted, Complete, PrintedSoFar, AllPrinted
    <2>3. QED
      BY <2>1, <2>2 DEF LsInv
  <1>2. LsInv /\ [LsNext]_lsVars => LsInv'
    <2> SUFFICES ASSUME LsInv, [LsNext]_lsVars PROVE LsInv'
      OBVIOUS
    <2>1. ASSUME NEW name \in Range(dir), LsRemoved(name) PROVE LsInv'
      BY <2>1, StutterStep DEF LsRemoved
    <2>2. CASE UNCHANGED lsVars
      BY <2>2, StutterStep DEF lsVars
    <2>3. QED
      BY <2>1, <2>2, LsStartStep, OptionsStep, LsOpenStep, AllocateStep, GrowStep, CopyStep, ReadFailsStep, FailStep,
         SortStep, SkipStep, PrintStep, StatFailsStep, FailLateStep, FinishStep DEF LsNext
  <1>3. QED
    BY <1>1, <1>2, PTL DEF LsSpec

\* For every directory, a block is freed twice only where printEntry fails at one of the
\* entries of the array, whose first entries are freed by then (lines 244, 247 and 129).
THEOREM FreedTwiceOnlyLate == LsSpec => []FreedOnce
  <1>1. LsInv => FreedOnce
    BY DEF LsInv, HeapInv
  <1>2. QED
    BY <1>1, LsInvariance, PTL

\* Wherever malloc, realloc, opendir, readdir, lstat or composePath fails, ls ends with
\* nothing allocated, unless the C library aborts it.
THEOREM NothingLeaks == LsSpec => []NothingLeft
  <1>1. LsInv => NothingLeft
    BY DEF LsInv, HeapInv
  <1>2. QED
    BY <1>1, LsInvariance, PTL

\* The array never overflows, whatever CAPACITY and the directory; the listing is in the
\* order of direntCompare without a name twice, and complete when ls ends well.
THEOREM ListingIsRight == LsSpec => []Listing
  <1>1. ASSUME LsInv PROVE Listing
    <2> USE <1>1 DEF LsInv
    <2>1. hasEntries => entryCount <= capacity
      BY DEF AtStart, Collecting, Listed, Winding, LsKinds, LsEnded
    <2>2. ASSUME NEW j \in DOMAIN printed, NEW k \in DOMAIN printed, j < k
          PROVE  /\ printed[j] # printed[k]
                 /\ printed[k] \in Hidden => printed[j] \in Hidden
                 /\ (printed[j] \in Hidden <=> printed[k] \in Hidden) => CaseRank[printed[j]] <= CaseRank[printed[k]]
      <3>1. /\ j \in 1..Len(printed) /\ k \in 1..Len(printed) /\ printed[j] \in Names /\ printed[k] \in Names
        BY DEF LsKinds
      <3>2. printed[j] # printed[k] /\ ~ComesAfter(printed[j], printed[k])
        BY <2>2, <3>1 DEF InOrder
      <3>3. CaseRank[printed[j]] \in Nat /\ CaseRank[printed[k]] \in Nat
        BY <3>1, NamesAssumption
      <3>4. QED
        BY <3>2, <3>3 DEF ComesAfter
    <2>3. ASSUME lsPc = "ok", capacity > 0 PROVE Range(printed) = {n \in Range(dir) : Shown(n)}
      <3>1. Range(printed) = {printed[i] : i \in 1..Len(printed)} /\ Range(dir) = {dir[j] : j \in 1..Len(dir)}
        BY DEF LsKinds, Range
      <3>2. /\ \A i \in 1..Len(printed) : Shown(printed[i]) /\ \E j \in 1..Len(dir) : printed[i] = dir[j]
            /\ \A j \in 1..Len(dir) : Shown(dir[j]) => \E i \in 1..Len(printed) : printed[i] = dir[j]
        BY <2>3 DEF AllPrinted
      <3>3. \A n \in Range(printed) : n \in Range(dir) /\ Shown(n)
        BY <3>1, <3>2
      <3>4. \A n \in Range(dir) : Shown(n) => n \in Range(printed)
        BY <3>1, <3>2
      <3>5. QED
        BY <3>3, <3>4
    <2>4. QED
      BY <2>1, <2>2, <2>3 DEF Listing
  <1>2. QED
    BY <1>1, LsInvariance, PTL

-----------------------------------------------------------------------------
(***************************************************************************)
(* mychmod (lab4)                                                          *)
(*                                                                         *)
(* The readings of a specification by the program and by WellFormed and    *)
(* BitAfter are shown equal for every string; ChInv only says which        *)
(* specifications can be at which place.                                   *)
(***************************************************************************)

ChSpec == ChInit /\ [][ChNext]_chVars

\* What strtol makes of the first k digits.
IsReading(v, s, n) == v = [k \in 0..n |-> IF k = 0 THEN 0 ELSE 8 * v[k - 1] + Value(s[k])]

LEMMA ReadingExists ==
    ASSUME NEW s, NEW n \in Nat
    PROVE  \E v : IsReading(v, s, n)
  <1> DEFINE S == {m \in 0..n : \E v : IsReading(v, s, m)}
  <1>1. 0 \in S
    <2>1. PICK v : v = [k \in 0..0 |-> 0]
      OBVIOUS
    <2>2. IsReading(v, s, 0)
      BY <2>1 DEF IsReading
    <2>3. 0 \in 0..n
      OBVIOUS
    <2>4. QED
      BY <2>2, <2>3
  <1>2. ASSUME NEW m \in 1..n, m - 1 \in S PROVE m \in S
    <2>1. PICK v : IsReading(v, s, m - 1)
      BY <1>2
    <2>2. PICK w : w = [k \in 0..m |-> IF k = m THEN 8 * v[m - 1] + Value(s[m]) ELSE v[k]]
      OBVIOUS
    <2>3. \A k \in 0..(m - 1) : k \in 0..m /\ k # m /\ w[k] = v[k]
      BY <2>2
    <2>4. ASSUME NEW k \in 0..m PROVE w[k] = IF k = 0 THEN 0 ELSE 8 * w[k - 1] + Value(s[k])
      <3>1. CASE k = m
        <4>1. m # 0 /\ m - 1 \in 0..(m - 1)
          OBVIOUS
        <4>2. QED
          BY <2>2, <2>3, <3>1, <4>1
      <3>2. CASE k # m
        <4>1. k \in 0..(m - 1) /\ (k # 0 => k - 1 \in 0..(m - 1))
          BY <3>2
        <4>2. v[k] = IF k = 0 THEN 0 ELSE 8 * v[k - 1] + Value(s[k])
          BY <2>1, <4>1 DEF IsReading
        <4>3. QED
          BY <2>3, <4>1, <4>2
      <3>3. QED
        BY <3>1, <3>2
    <2>5. w = [k \in 0..m |-> IF k = 0 THEN 0 ELSE 8 * w[k - 1] + Value(s[k])]
      BY <2>2, <2>4
    <2>6. m \in 0..n
      OBVIOUS
    <2>7. QED
      BY <2>5, <2>6 DEF IsReading
  <1> HIDE DEF S
  <1>3. 0..n \subseteq S
    BY <1>1, <1>2, NumbersUpTo
  <1>4. n \in S
    BY <1>3
  <1>5. QED
    BY <1>4 DEF S

LEMMA DigitValues ==
    /\ \A c \in Digits : Value(c) \in 0..7
    /\ \A c \in Digits : Value(c) = 0 <=> c = "0"
  <1>1. ASSUME NEW c \in Digits PROVE \E d \in 0..7 : <<"0", "1", "2", "3", "4", "5", "6", "7">>[d + 1] = c
    <2>1. /\ <<"0", "1", "2", "3", "4", "5", "6", "7">>[0 + 1] = "0"
          /\ <<"0", "1", "2", "3", "4", "5", "6", "7">>[1 + 1] = "1"
          /\ <<"0", "1", "2", "3", "4", "5", "6", "7">>[2 + 1] = "2"
          /\ <<"0", "1", "2", "3", "4", "5", "6", "7">>[3 + 1] = "3"
          /\ <<"0", "1", "2", "3", "4", "5", "6", "7">>[4 + 1] = "4"
          /\ <<"0", "1", "2", "3", "4", "5", "6", "7">>[5 + 1] = "5"
          /\ <<"0", "1", "2", "3", "4", "5", "6", "7">>[6 + 1] = "6"
          /\ <<"0", "1", "2", "3", "4", "5", "6", "7">>[7 + 1] = "7"
      OBVIOUS
    <2>2. QED
      BY <2>1 DEF Digits
  <1>2. \A c \in Digits : Value(c) \in 0..7 /\ <<"0", "1", "2", "3", "4", "5", "6", "7">>[Value(c) + 1] = c
    BY <1>1 DEF Value
  <1>3. ASSUME NEW d \in 0..7 PROVE <<"0", "1", "2", "3", "4", "5", "6", "7">>[d + 1] = "0" <=> d = 0
    OBVIOUS
  <1>4. QED
    BY <1>2, <1>3

\* strtol reads the digits from left to right.
LEMMA StrtolReads ==
    ASSUME NEW s \in Seq(STRING), IsOctal(s)
    PROVE  \E v : /\ v[0] = 0 /\ Strtol(s) = v[Len(s)]
                  /\ \A k \in 1..Len(s) : v[k] = 8 * v[k - 1] + Value(s[k]) /\ Value(s[k]) \in 0..7
                  /\ \A k \in 0..Len(s) : v[k] \in Nat
                  /\ \A k \in 0..Len(s) : v[k] = 0 <=> \A j \in 1..k : s[j] = "0"
  <1>1. PICK n : n = Len(s)
    OBVIOUS
  <1>2. n \in Nat /\ \A k \in 1..n : s[k] \in Digits
    BY <1>1, LenProperties DEF IsOctal, Range
  <1>3. PICK v : v = CHOOSE w : w = [k \in 0..n |-> IF k = 0 THEN 0 ELSE 8 * w[k - 1] + Value(s[k])]
    OBVIOUS
  <1>4. v = [k \in 0..n |-> IF k = 0 THEN 0 ELSE 8 * v[k - 1] + Value(s[k])]
    <2>1. \E w : w = [k \in 0..n |-> IF k = 0 THEN 0 ELSE 8 * w[k - 1] + Value(s[k])]
      BY <1>2, ReadingExists DEF IsReading
    <2>2. QED
      BY <1>3, <2>1
  <1>5. Strtol(s) = v[n]
    BY <1>1, <1>3 DEF Strtol
  <1>6. \A k \in 1..n : Value(s[k]) \in 0..7 /\ (Value(s[k]) = 0 <=> s[k] = "0")
    BY <1>2, DigitValues
  <1>7. v[0] = 0 /\ \A k \in 1..n : v[k] = 8 * v[k - 1] + Value(s[k])
    <2>1. 0 \in 0..n /\ \A k \in 1..n : k \in 0..n /\ k # 0
      BY <1>2
    <2>2. QED
      BY <1>4, <2>1
  <1> DEFINE S == {k \in 0..n : v[k] \in Nat /\ (v[k] = 0 <=> \A j \in 1..k : s[j] = "0")}
  <1>8. 0 \in S
    BY <1>2, <1>7
  <1>9. ASSUME NEW k \in 1..n, k - 1 \in S PROVE k \in S
    <2>1. v[k - 1] \in Nat /\ (v[k - 1] = 0 <=> \A j \in 1..(k - 1) : s[j] = "0")
      BY <1>9
    <2>2. PICK a, b, d : a = v[k - 1] /\ b = v[k] /\ d = Value(s[k])
      OBVIOUS
    <2>3. a \in Nat /\ d \in 0..7 /\ b = 8 * a + d
      BY <1>6, <1>7, <2>1, <2>2
    <2>4. b \in Nat /\ (b = 0 <=> a = 0 /\ d = 0)
      BY <2>3
    <2>5. (\A j \in 1..k : s[j] = "0") <=> (\A j \in 1..(k - 1) : s[j] = "0") /\ s[k] = "0"
      <3>1. k \in 1..k /\ (\A j \in 1..(k - 1) : j \in 1..k) /\ \A j \in 1..k : j = k \/ j \in 1..(k - 1)
        BY <1>2
      <3>2. QED
        BY <3>1
    <2>6. k \in 0..n
      BY <1>2
    <2>7. QED
      BY <1>6, <2>1, <2>2, <2>4, <2>5, <2>6
  <1> HIDE DEF S
  <1>10. 0..n \subseteq S
    BY <1>2, <1>8, <1>9, NumbersUpTo
  <1>11. \A k \in 0..n : v[k] \in Nat /\ (v[k] = 0 <=> \A j \in 1..k : s[j] = "0")
    BY <1>10 DEF S
  <1>12. QED
    BY <1>1, <1>5, <1>6, <1>7, <1>11

\* The digit of weight 8^q, if there is one.
DigitOf(s, q) == IF q < Len(s) THEN Value(s[Len(s) - q]) ELSE 0

LEMMA OctalRange ==
    ASSUME NEW s \in Seq(STRING), IsOctal(s)
    PROVE  /\ OctalValid(s) <=> OctalDigits(s)
           /\ \A q \in 0..3 : DigitOf(s, q) \in 0..7
           /\ OctalDigits(s) => Strtol(s) = 512 * DigitOf(s, 3) + 64 * DigitOf(s, 2) + 8 * DigitOf(s, 1) + DigitOf(s, 0)
  <1>1. PICK v : /\ v[0] = 0 /\ Strtol(s) = v[Len(s)]
                 /\ \A k \in 1..Len(s) : v[k] = 8 * v[k - 1] + Value(s[k]) /\ Value(s[k]) \in 0..7
                 /\ \A k \in 0..Len(s) : v[k] \in Nat
                 /\ \A k \in 0..Len(s) : v[k] = 0 <=> \A j \in 1..k : s[j] = "0"
    BY StrtolReads
  <1>2. PICK n : n = Len(s)
    OBVIOUS
  <1>3. n \in Nat
    BY <1>2, LenProperties
  <1>4. \A q \in 0..3 : DigitOf(s, q) \in 0..7
    <2> SUFFICES ASSUME NEW q \in 0..3 PROVE DigitOf(s, q) \in 0..7
      OBVIOUS
    <2>1. CASE q < n
      <3>1. n - q \in 1..n
        BY <1>3, <2>1
      <3>2. QED
        BY <1>1, <1>2, <2>1, <3>1 DEF DigitOf
    <2>2. CASE ~(q < n)
      BY <1>2, <2>2 DEF DigitOf
    <2>3. QED
      BY <2>1, <2>2
  <1>5. PICK a, b, c, d : a = DigitOf(s, 3) /\ b = DigitOf(s, 2) /\ c = DigitOf(s, 1) /\ d = DigitOf(s, 0)
    OBVIOUS
  <1>6. a \in 0..7 /\ b \in 0..7 /\ c \in 0..7 /\ d \in 0..7
    <2>1. 0 \in 0..3 /\ 1 \in 0..3 /\ 2 \in 0..3 /\ 3 \in 0..3
      OBVIOUS
    <2>2. QED
      BY <1>4, <1>5, <2>1
  <1>7. /\ d = IF 0 < n THEN Value(s[n - 0]) ELSE 0
        /\ c = IF 1 < n THEN Value(s[n - 1]) ELSE 0
        /\ b = IF 2 < n THEN Value(s[n - 2]) ELSE 0
        /\ a = IF 3 < n THEN Value(s[n - 3]) ELSE 0
    BY <1>2, <1>5 DEF DigitOf
  <1>8. OctalDigits(s) <=> \A k \in 1..(n - 4) : s[k] = "0"
    BY <1>2 DEF OctalDigits
  <1>9. CASE n < 4
    <2>1. Strtol(s) = 512 * a + 64 * b + 8 * c + d
      <3>1. CASE n = 0
        BY <1>1, <1>2, <1>7, <3>1
      <3>2. CASE n = 1
        <4>1. 1 \in 1..n /\ 1 - 1 = 0 /\ n - 0 = 1
          BY <3>2
        <4>2. v[1] = 8 * v[0] + Value(s[1]) /\ Value(s[1]) \in 0..7
          BY <1>1, <1>2, <4>1
        <4>3. QED
          BY <1>1, <1>2, <1>7, <3>2, <4>1, <4>2
      <3>3. CASE n = 2
        <4>1. 1 \in 1..n /\ 1 - 1 = 0 /\ 2 \in 1..n /\ 2 - 1 = 1 /\ n - 0 = 2 /\ n - 1 = 1
          BY <3>3
        <4>2. /\ v[1] = 8 * v[0] + Value(s[1]) /\ Value(s[1]) \in 0..7
              /\ v[2] = 8 * v[1] + Value(s[2]) /\ Value(s[2]) \in 0..7
          BY <1>1, <1>2, <4>1
        <4>3. QED
          BY <1>1, <1>2, <1>7, <3>3, <4>1, <4>2
      <3>4. CASE n = 3
        <4>1. /\ 1 \in 1..n /\ 1 - 1 = 0 /\ 2 \in 1..n /\ 2 - 1 = 1 /\ 3 \in 1..n /\ 3 - 1 = 2
              /\ n - 0 = 3 /\ n - 1 = 2 /\ n - 2 = 1
          BY <3>4
        <4>2. /\ v[1] = 8 * v[0] + Value(s[1]) /\ Value(s[1]) \in 0..7
              /\ v[2] = 8 * v[1] + Value(s[2]) /\ Value(s[2]) \in 0..7
              /\ v[3] = 8 * v[2] + Value(s[3]) /\ Value(s[3]) \in 0..7
          BY <1>1, <1>2, <4>1
        <4>3. a = 0 /\ b = Value(s[1]) /\ c = Value(s[2]) /\ d = Value(s[3])
          BY <1>7, <3>4, <4>1
        <4>4. PICK x, y, z : x = v[1] /\ y = v[2] /\ z = v[3]
          OBVIOUS
        <4>5. x = b /\ y = 8 * x + c /\ z = 8 * y + d
          BY <1>1, <1>6, <4>2, <4>3, <4>4
        <4>6. z = 512 * a + 64 * b + 8 * c + d
          <5>1. b \in Nat /\ c \in Nat /\ d \in Nat /\ 512 * a = 0
            BY <1>6, <4>3
          <5>2. y = 8 * b + c
            BY <4>5
          <5>3. z = 64 * b + 8 * c + d
            BY <4>5, <5>1, <5>2
          <5>4. QED
            BY <5>1, <5>3
        <4>7. QED
          BY <1>1, <1>2, <3>4, <4>4, <4>6
      <3>5. QED
        BY <1>3, <1>9, <3>1, <3>2, <3>3, <3>4
    <2>2. OctalDigits(s)
      <3>1. \A k \in 1..(n - 4) : FALSE
        BY <1>3, <1>9
      <3>2. QED
        BY <1>8, <3>1
    <2>3. OctalValid(s)
      BY <1>6, <1>9, <2>1 DEF OctalValid
    <2>4. QED
      BY <1>4, <1>5, <2>1, <2>2, <2>3
  <1>10. CASE n >= 4
    <2>1. PICK h, x, y, z : h = v[n - 4] /\ x = v[n - 3] /\ y = v[n - 2] /\ z = v[n - 1]
      OBVIOUS
    <2>2. /\ n - 3 \in 1..n /\ n - 3 - 1 = n - 4 /\ n - 2 \in 1..n /\ n - 2 - 1 = n - 3
          /\ n - 1 \in 1..n /\ n - 1 - 1 = n - 2 /\ n \in 1..n /\ n - 0 = n /\ n - 4 \in 0..n
          /\ 0 < n /\ 1 < n /\ 2 < n /\ 3 < n
      BY <1>3, <1>10
    <2>3. /\ v[n - 3] = 8 * v[n - 4] + a
          /\ v[n - 2] = 8 * v[n - 3] + b
          /\ v[n - 1] = 8 * v[n - 2] + c
          /\ v[n] = 8 * v[n - 1] + d
      BY <1>1, <1>2, <1>7, <2>2
    <2>4. h \in Nat /\ (h = 0 <=> \A j \in 1..(n - 4) : s[j] = "0")
      BY <1>1, <1>2, <2>1, <2>2
    <2>5. PICK w : w = v[n]
      OBVIOUS
    <2>6. x = 8 * h + a /\ y = 8 * x + b /\ z = 8 * y + c /\ w = 8 * z + d
      BY <2>1, <2>3, <2>5
    <2>7. w = 4096 * h + 512 * a + 64 * b + 8 * c + d
      BY <1>6, <2>4, <2>6
    <2>8. w <= 4095 <=> h = 0
      BY <1>6, <2>4, <2>7
    <2>9. Strtol(s) = w
      BY <1>1, <1>2, <2>5
    <2>10. OctalValid(s) <=> OctalDigits(s)
      BY <1>8, <2>4, <2>8, <2>9 DEF OctalValid
    <2>11. OctalDigits(s) => w = 512 * a + 64 * b + 8 * c + d
      BY <1>6, <1>8, <2>4, <2>7
    <2>12. QED
      BY <1>4, <1>5, <2>9, <2>10, <2>11
  <1>11. QED
    BY <1>3, <1>9, <1>10

\* The bits of a number are those of its octal digits.
LEMMA BitsOfDigits ==
    ASSUME NEW s \in Seq(STRING), OctalDigits(s), NEW i \in Bits
    PROVE  i \in BitsOf(Strtol(s)) <=> (DigitOf(s, i \div 3) \div <<1, 2, 4>>[(i % 3) + 1]) % 2 = 1
  <1>0. PICK a, b, c, d, v, x :
           /\ a = DigitOf(s, 3) /\ b = DigitOf(s, 2) /\ c = DigitOf(s, 1) /\ d = DigitOf(s, 0)
           /\ v = Strtol(s) /\ x = DigitOf(s, i \div 3)
    OBVIOUS
  <1>1. /\ a \in 0..7 /\ b \in 0..7 /\ c \in 0..7 /\ d \in 0..7
        /\ v = 512 * a + 64 * b + 8 * c + d /\ v \in Nat
    <2>1. 0 \in 0..3 /\ 1 \in 0..3 /\ 2 \in 0..3 /\ 3 \in 0..3
      OBVIOUS
    <2>2. IsOctal(s)
      BY DEF OctalDigits
    <2>3. /\ a \in 0..7 /\ b \in 0..7 /\ c \in 0..7 /\ d \in 0..7
          /\ v = 512 * a + 64 * b + 8 * c + d
      BY <1>0, <2>1, <2>2, OctalRange
    <2>4. QED
      BY <2>3
  <1>2. /\ Weight[1] = 1 /\ Weight[2] = 2 /\ Weight[3] = 4 /\ Weight[4] = 8 /\ Weight[5] = 16 /\ Weight[6] = 32
        /\ Weight[7] = 64 /\ Weight[8] = 128 /\ Weight[9] = 256 /\ Weight[10] = 512 /\ Weight[11] = 1024
        /\ Weight[12] = 2048
    BY DEF Weight
  <1>3. <<1, 2, 4>>[1] = 1 /\ <<1, 2, 4>>[2] = 2 /\ <<1, 2, 4>>[3] = 4
    OBVIOUS
  <1>4. i \in BitsOf(v) <=> (v \div Weight[i + 1]) % 2 = 1
    BY DEF BitsOf
  <1>5. CASE i = 0
    <2>1. i \div 3 = 0 /\ i % 3 = 0 /\ i + 1 = 1 /\ (i % 3) + 1 = 1 /\ x = d
      BY <1>0, <1>5
    <2>2. (v \div 1) % 2 = (d \div 1) % 2
      BY <1>1
    <2>3. Weight[i + 1] = 1
      BY <1>2, <2>1
    <2>4. <<1, 2, 4>>[(i % 3) + 1] = 1
      BY <1>3, <2>1
    <2>5. QED
      BY <1>0, <1>4, <2>1, <2>2, <2>3, <2>4
  <1>6. CASE i = 1
    <2>1. i \div 3 = 0 /\ i % 3 = 1 /\ i + 1 = 2 /\ (i % 3) + 1 = 2 /\ x = d
      BY <1>0, <1>6
    <2>2. (v \div 2) % 2 = (d \div 2) % 2
      BY <1>1
    <2>3. Weight[i + 1] = 2
      BY <1>2, <2>1
    <2>4. <<1, 2, 4>>[(i % 3) + 1] = 2
      BY <1>3, <2>1
    <2>5. QED
      BY <1>0, <1>4, <2>1, <2>2, <2>3, <2>4
  <1>7. CASE i = 2
    <2>1. i \div 3 = 0 /\ i % 3 = 2 /\ i + 1 = 3 /\ (i % 3) + 1 = 3 /\ x = d
      BY <1>0, <1>7
    <2>2. (v \div 4) % 2 = (d \div 4) % 2
      BY <1>1
    <2>3. Weight[i + 1] = 4
      BY <1>2, <2>1
    <2>4. <<1, 2, 4>>[(i % 3) + 1] = 4
      BY <1>3, <2>1
    <2>5. QED
      BY <1>0, <1>4, <2>1, <2>2, <2>3, <2>4
  <1>8. CASE i = 3
    <2>1. i \div 3 = 1 /\ i % 3 = 0 /\ i + 1 = 4 /\ (i % 3) + 1 = 1 /\ x = c
      BY <1>0, <1>8
    <2>2. (v \div 8) % 2 = (c \div 1) % 2
      BY <1>1
    <2>3. Weight[i + 1] = 8
      BY <1>2, <2>1
    <2>4. <<1, 2, 4>>[(i % 3) + 1] = 1
      BY <1>3, <2>1
    <2>5. QED
      BY <1>0, <1>4, <2>1, <2>2, <2>3, <2>4
  <1>9. CASE i = 4
    <2>1. i \div 3 = 1 /\ i % 3 = 1 /\ i + 1 = 5 /\ (i % 3) + 1 = 2 /\ x = c
      BY <1>0, <1>9
    <2>2. (v \div 16) % 2 = (c \div 2) % 2
      BY <1>1
    <2>3. Weight[i + 1] = 16
      BY <1>2, <2>1
    <2>4. <<1, 2, 4>>[(i % 3) + 1] = 2
      BY <1>3, <2>1
    <2>5. QED
      BY <1>0, <1>4, <2>1, <2>2, <2>3, <2>4
  <1>10. CASE i = 5
    <2>1. i \div 3 = 1 /\ i % 3 = 2 /\ i + 1 = 6 /\ (i % 3) + 1 = 3 /\ x = c
      BY <1>0, <1>10
    <2>2. (v \div 32) % 2 = (c \div 4) % 2
      BY <1>1
    <2>3. Weight[i + 1] = 32
      BY <1>2, <2>1
    <2>4. <<1, 2, 4>>[(i % 3) + 1] = 4
      BY <1>3, <2>1
    <2>5. QED
      BY <1>0, <1>4, <2>1, <2>2, <2>3, <2>4
  <1>11. CASE i = 6
    <2>1. i \div 3 = 2 /\ i % 3 = 0 /\ i + 1 = 7 /\ (i % 3) + 1 = 1 /\ x = b
      BY <1>0, <1>11
    <2>2. (v \div 64) % 2 = (b \div 1) % 2
      BY <1>1
    <2>3. Weight[i + 1] = 64
      BY <1>2, <2>1
    <2>4. <<1, 2, 4>>[(i % 3) + 1] = 1
      BY <1>3, <2>1
    <2>5. QED
      BY <1>0, <1>4, <2>1, <2>2, <2>3, <2>4
  <1>12. CASE i = 7
    <2>1. i \div 3 = 2 /\ i % 3 = 1 /\ i + 1 = 8 /\ (i % 3) + 1 = 2 /\ x = b
      BY <1>0, <1>12
    <2>2. (v \div 128) % 2 = (b \div 2) % 2
      BY <1>1
    <2>3. Weight[i + 1] = 128
      BY <1>2, <2>1
    <2>4. <<1, 2, 4>>[(i % 3) + 1] = 2
      BY <1>3, <2>1
    <2>5. QED
      BY <1>0, <1>4, <2>1, <2>2, <2>3, <2>4
  <1>13. CASE i = 8
    <2>1. i \div 3 = 2 /\ i % 3 = 2 /\ i + 1 = 9 /\ (i % 3) + 1 = 3 /\ x = b
      BY <1>0, <1>13
    <2>2. (v \div 256) % 2 = (b \div 4) % 2
      BY <1>1
    <2>3. Weight[i + 1] = 256
      BY <1>2, <2>1
    <2>4. <<1, 2, 4>>[(i % 3) + 1] = 4
      BY <1>3, <2>1
    <2>5. QED
      BY <1>0, <1>4, <2>1, <2>2, <2>3, <2>4
  <1>14. CASE i = 9
    <2>1. i \div 3 = 3 /\ i % 3 = 0 /\ i + 1 = 10 /\ (i % 3) + 1 = 1 /\ x = a
      BY <1>0, <1>14
    <2>2. (v \div 512) % 2 = (a \div 1) % 2
      BY <1>1
    <2>3. Weight[i + 1] = 512
      BY <1>2, <2>1
    <2>4. <<1, 2, 4>>[(i % 3) + 1] = 1
      BY <1>3, <2>1
    <2>5. QED
      BY <1>0, <1>4, <2>1, <2>2, <2>3, <2>4
  <1>15. CASE i = 10
    <2>1. i \div 3 = 3 /\ i % 3 = 1 /\ i + 1 = 11 /\ (i % 3) + 1 = 2 /\ x = a
      BY <1>0, <1>15
    <2>2. (v \div 1024) % 2 = (a \div 2) % 2
      BY <1>1
    <2>3. Weight[i + 1] = 1024
      BY <1>2, <2>1
    <2>4. <<1, 2, 4>>[(i % 3) + 1] = 2
      BY <1>3, <2>1
    <2>5. QED
      BY <1>0, <1>4, <2>1, <2>2, <2>3, <2>4
  <1>16. CASE i = 11
    <2>1. i \div 3 = 3 /\ i % 3 = 2 /\ i + 1 = 12 /\ (i % 3) + 1 = 3 /\ x = a
      BY <1>0, <1>16
    <2>2. (v \div 2048) % 2 = (a \div 4) % 2
      BY <1>1
    <2>3. Weight[i + 1] = 2048
      BY <1>2, <2>1
    <2>4. <<1, 2, 4>>[(i % 3) + 1] = 4
      BY <1>3, <2>1
    <2>5. QED
      BY <1>0, <1>4, <2>1, <2>2, <2>3, <2>4
  <1>17. QED
    BY <1>5, <1>6, <1>7, <1>8, <1>9, <1>10, <1>11, <1>12, <1>13, <1>14, <1>15, <1>16 DEF Bits

LEMMA OctalBits ==
    ASSUME NEW s \in Seq(STRING), OctalDigits(s), NEW m
    PROVE  BitsOf(Strtol(s)) = {b \in Bits : BitAfter(s, m, b)}
  <1>1. ASSUME NEW i \in Bits PROVE i \in BitsOf(Strtol(s)) <=> BitAfter(s, m, i)
    <2>1. PICK q, w : q = i \div 3 /\ w = <<1, 2, 4>>[(i % 3) + 1]
      OBVIOUS
    <2>2. i \in BitsOf(Strtol(s)) <=> (DigitOf(s, q) \div w) % 2 = 1
      BY <2>1, BitsOfDigits
    <2>3. (0 \div w) % 2 # 1
      <3>1. <<1, 2, 4>>[0 + 1] = 1 /\ <<1, 2, 4>>[1 + 1] = 2 /\ <<1, 2, 4>>[2 + 1] = 4
        OBVIOUS
      <3>2. i % 3 = 0 \/ i % 3 = 1 \/ i % 3 = 2
        BY DEF Bits
      <3>3. w \in {1, 2, 4}
        BY <2>1, <3>1, <3>2
      <3>4. QED
        BY <3>3
    <2>4. BitAfter(s, m, i) <=> q < Len(s) /\ (Value(s[Len(s) - q]) \div w) % 2 = 1
      BY <2>1 DEF BitAfter
    <2>5. CASE q < Len(s)
      BY <2>2, <2>4, <2>5 DEF DigitOf
    <2>6. CASE ~(q < Len(s))
      BY <2>2, <2>3, <2>4, <2>6 DEF DigitOf
    <2>7. QED
      BY <2>5, <2>6
  <1>2. BitsOf(Strtol(s)) \in SUBSET Bits
    BY DEF BitsOf
  <1>3. QED
    BY <1>1, <1>2

-----------------------------------------------------------------------------
(* Symbolic specifications                                                 *)

LEMMA WhoCounted ==
    ASSUME NEW s \in Seq(STRING)
    PROVE  /\ WhoCount(s) \in 0..Len(s)
           /\ \A k \in 1..WhoCount(s) : s[k] \in Letters
           /\ WhoCount(s) = Len(s) \/ s[WhoCount(s) + 1] \notin Letters
  <1> DEFINE S == {n \in 0..Len(s) : n = Len(s) \/ s[n + 1] \notin Letters}
  <1>1. Len(s) \in Nat
    BY LenProperties
  <1>2. S \in SUBSET Nat /\ Len(s) \in S
    BY <1>1
  <1>3. PICK n \in S : \A k \in S : n <= k
    BY <1>2, LeastNumber
  <1>4. n \in 0..Len(s) /\ (n = Len(s) \/ s[n + 1] \notin Letters)
    OBVIOUS
  <1>5. ASSUME NEW k \in 1..n PROVE s[k] \in Letters
    <2>1. k - 1 \in 0..Len(s) /\ ~(n <= k - 1) /\ k - 1 + 1 = k
      BY <1>1, <1>4
    <2>2. k - 1 \notin S
      BY <1>3, <2>1
    <2>3. QED
      BY <2>1, <2>2
  <1>6. QED
    BY <1>4, <1>5 DEF WhoCount

\* The operator, if there is one, is where lines 40-48 stop.
LEMMA OperatorAt ==
    ASSUME NEW s \in Seq(STRING), NEW k \in DOMAIN s, Symbolic(s, k)
    PROVE  k = WhoCount(s) + 1
  <1>1. PICK n : n = WhoCount(s)
    OBVIOUS
  <1>2. /\ n \in 0..Len(s) /\ (\A j \in 1..n : s[j] \in Letters)
        /\ n = Len(s) \/ s[n + 1] \notin Letters
    BY <1>1, WhoCounted
  <1>3. Len(s) \in Nat /\ k \in 1..Len(s)
    BY LenProperties
  <1>4. s[k] \notin Letters /\ \A j \in 1..(k - 1) : s[j] \in Letters
    BY DEF Symbolic, Letters
  <1>5. CASE k <= n
    <2>1. k \in 1..n
      BY <1>3, <1>5
    <2>2. QED
      BY <1>2, <1>4, <2>1
  <1>6. CASE n + 1 < k
    <2>1. n + 1 \in 1..(k - 1) /\ n # Len(s)
      BY <1>2, <1>3, <1>6
    <2>2. QED
      BY <1>2, <1>4, <2>1
  <1>7. QED
    BY <1>1, <1>2, <1>3, <1>5, <1>6

LEMMA SymbolicForm ==
    ASSUME NEW s \in Seq(STRING), ~IsOctal(s)
    PROVE  /\ SymbolicValid(s) <=> WellFormed(s)
           /\ WellFormed(s) => /\ WhoCount(s) + 1 \in DOMAIN s /\ Symbolic(s, WhoCount(s) + 1)
                               /\ (CHOOSE k \in DOMAIN s : Symbolic(s, k)) = WhoCount(s) + 1
  <1>1. PICK n : n = WhoCount(s)
    OBVIOUS
  <1>2. /\ n \in 0..Len(s) /\ (\A j \in 1..n : s[j] \in Letters)
        /\ Len(s) \in Nat /\ DOMAIN s = 1..Len(s)
    BY <1>1, WhoCounted, LenProperties
  <1>3. WellFormed(s) <=> \E k \in DOMAIN s : Symbolic(s, k)
    BY DEF WellFormed, OctalDigits
  <1>4. \A k \in DOMAIN s : Symbolic(s, k) => k = n + 1
    BY <1>1, OperatorAt
  <1>5. SymbolicValid(s) <=> n + 1 \in DOMAIN s /\ Symbolic(s, n + 1)
    <2>1. n < Len(s) <=> n + 1 \in DOMAIN s
      BY <1>2
    <2>2. n + 1 - 1 = n /\ n + 1 + 1 = n + 2
      BY <1>2
    <2>3. Symbolic(s, n + 1) <=> /\ s[n + 1] \in {"+", "-", "="}
                                 /\ \A j \in (n + 2)..Len(s) : s[j] \in {"r", "w", "x"}
      BY <1>2, <2>2 DEF Symbolic
    <2>4. Tail1(s) \subseteq {"r", "w", "x"} <=> \A j \in (n + 2)..Len(s) : s[j] \in {"r", "w", "x"}
      BY <1>1 DEF Tail1
    <2>5. QED
      BY <1>1, <2>1, <2>3, <2>4 DEF SymbolicValid, Operator
  <1>6. WellFormed(s) <=> n + 1 \in DOMAIN s /\ Symbolic(s, n + 1)
    BY <1>3, <1>4
  <1>7. WellFormed(s) => (CHOOSE k \in DOMAIN s : Symbolic(s, k)) = n + 1
    BY <1>4, <1>6
  <1>8. QED
    BY <1>1, <1>5, <1>6, <1>7

\* Whose bits a specification with the operator at k is about, and which it names.
IsWhose(s, k, b) == b < 9 /\ (k = 1 \/ \E j \in 1..(k - 1) : s[j] \in {ClassOf(b), "a"})
IsGiven(s, k, b) == \E j \in (k + 1)..Len(s) : s[j] = PermissionOf(b)

LEMMA BitNames ==
    ASSUME NEW b \in Bits
    PROVE  /\ \A c \in {"u", "g", "o"} : b \in ClassBits[c] <=> b < 9 /\ c = ClassOf(b)
           /\ b < 9 => /\ ClassOf(b) \in {"u", "g", "o"}
                       /\ \A c \in {"r", "w", "x"} : b \in PermissionBits[c] <=> c = PermissionOf(b)
           /\ PermissionOf(b) \in {"r", "w", "x"}
           /\ ~(b < 9) => \A c \in {"r", "w", "x"} : b \notin PermissionBits[c]
  <1>1. /\ <<"o", "g", "u">>[1] = "o" /\ <<"o", "g", "u">>[2] = "g" /\ <<"o", "g", "u">>[3] = "u"
        /\ <<"x", "w", "r">>[1] = "x" /\ <<"x", "w", "r">>[2] = "w" /\ <<"x", "w", "r">>[3] = "r"
    OBVIOUS
  <1>2. /\ ClassBits["u"] = 6..8 /\ ClassBits["g"] = 3..5 /\ ClassBits["o"] = 0..2
        /\ PermissionBits["r"] = {2, 5, 8} /\ PermissionBits["w"] = {1, 4, 7} /\ PermissionBits["x"] = {0, 3, 6}
    BY DEF ClassBits, PermissionBits
  <1>3. b \in 0..11
    BY DEF Bits
  <1>4. PICK q, r : q = (b \div 3) + 1 /\ r = (b % 3) + 1
    OBVIOUS
  <1>5. q \in 1..4 /\ r \in 1..3 /\ b = 3 * q + r - 4
    BY <1>3, <1>4
  <1>6. ClassOf(b) = <<"o", "g", "u">>[q] /\ PermissionOf(b) = <<"x", "w", "r">>[r]
    BY <1>4 DEF ClassOf, PermissionOf
  <1>7. CASE q = 1
    <2>1. ClassOf(b) = "o" /\ b \in 0..2
      BY <1>1, <1>5, <1>6, <1>7
    <2>2. \A c \in {"u", "g", "o"} : b \in ClassBits[c] <=> b < 9 /\ c = ClassOf(b)
      BY <1>2, <2>1
    <2>3. PermissionOf(b) \in {"r", "w", "x"}
          /\ \A c \in {"r", "w", "x"} : b \in PermissionBits[c] <=> c = PermissionOf(b)
      BY <1>1, <1>2, <1>5, <1>6, <1>7
    <2>4. QED
      BY <2>1, <2>2, <2>3
  <1>8. CASE q = 2
    <2>1. ClassOf(b) = "g" /\ b \in 3..5
      BY <1>1, <1>5, <1>6, <1>8
    <2>2. \A c \in {"u", "g", "o"} : b \in ClassBits[c] <=> b < 9 /\ c = ClassOf(b)
      BY <1>2, <2>1
    <2>3. PermissionOf(b) \in {"r", "w", "x"}
          /\ \A c \in {"r", "w", "x"} : b \in PermissionBits[c] <=> c = PermissionOf(b)
      BY <1>1, <1>2, <1>5, <1>6, <1>8
    <2>4. QED
      BY <2>1, <2>2, <2>3
  <1>9. CASE q = 3
    <2>1. ClassOf(b) = "u" /\ b \in 6..8
      BY <1>1, <1>5, <1>6, <1>9
    <2>2. \A c \in {"u", "g", "o"} : b \in ClassBits[c] <=> b < 9 /\ c = ClassOf(b)
      BY <1>2, <2>1
    <2>3. PermissionOf(b) \in {"r", "w", "x"}
          /\ \A c \in {"r", "w", "x"} : b \in PermissionBits[c] <=> c = PermissionOf(b)
      BY <1>1, <1>2, <1>5, <1>6, <1>9
    <2>4. QED
      BY <2>1, <2>2, <2>3
  <1>10. CASE q = 4
    <2>1. b \in 9..11 /\ PermissionOf(b) \in {"r", "w", "x"}
      BY <1>1, <1>5, <1>6, <1>10
    <2>2. QED
      BY <1>2, <2>1
  <1>11. QED
    BY <1>5, <1>7, <1>8, <1>9, <1>10

LEMMA MaskedBits ==
    ASSUME NEW s \in Seq(STRING), NEW k, k = WhoCount(s) + 1, Symbolic(s, k), NEW b \in Bits
    PROVE  /\ b \in Mask(s) <=> IsWhose(s, k, b)
           /\ b \in Applicable(s) <=> IsWhose(s, k, b) /\ IsGiven(s, k, b)
  <1>1. PICK n, N : n = WhoCount(s) /\ N = {s[j] : j \in 1..n}
    OBVIOUS
  <1>2. n \in 0..Len(s) /\ Len(s) \in Nat /\ \A j \in 1..n : s[j] \in Letters
    BY <1>1, WhoCounted, LenProperties
  <1>3. k - 1 = n /\ k + 1 = n + 2 /\ (k = 1 <=> n = 0)
    BY <1>1, <1>2
  <1>4. Who(s) = IF N = {} \/ "a" \in N THEN {"u", "g", "o"} ELSE N
    BY <1>1 DEF Who
  <1>5. N = {} <=> n = 0
    <2>1. n # 0 => 1 \in 1..n
      BY <1>2
    <2>2. n = 0 => \A j \in 1..n : FALSE
      OBVIOUS
    <2>3. QED
      BY <1>1, <2>1, <2>2
  <1>6. N \in SUBSET Letters /\ Who(s) \in SUBSET {"u", "g", "o"}
    <2>1. N \in SUBSET Letters
      BY <1>1, <1>2
    <2>2. QED
      BY <1>4, <2>1 DEF Letters
  <1>7. /\ \A c \in {"u", "g", "o"} : b \in ClassBits[c] <=> b < 9 /\ c = ClassOf(b)
        /\ b < 9 => /\ ClassOf(b) \in {"u", "g", "o"}
                    /\ \A c \in {"r", "w", "x"} : b \in PermissionBits[c] <=> c = PermissionOf(b)
    BY BitNames
  <1>8. b \in Mask(s) <=> \E c \in Who(s) : b \in ClassBits[c]
    BY DEF Mask
  <1>9. b \in Mask(s) <=> b < 9 /\ ClassOf(b) \in Who(s)
    BY <1>6, <1>7, <1>8
  <1>10. b < 9 => (ClassOf(b) \in Who(s) <=> k = 1 \/ \E j \in 1..(k - 1) : s[j] \in {ClassOf(b), "a"})
    <2>1. (\E j \in 1..(k - 1) : s[j] \in {ClassOf(b), "a"}) <=> ClassOf(b) \in N \/ "a" \in N
      BY <1>1, <1>3
    <2>2. QED
      BY <1>3, <1>4, <1>5, <1>7, <2>1
  <1>11. b \in Mask(s) <=> IsWhose(s, k, b)
    BY <1>9, <1>10 DEF IsWhose
  <1>12. Tail1(s) = {s[j] : j \in (k + 1)..Len(s)} /\ Tail1(s) \in SUBSET {"r", "w", "x"}
    BY <1>1, <1>3 DEF Tail1, Symbolic
  <1>13. b \in Applicable(s) <=> b \in Mask(s) /\ \E c \in Tail1(s) : b \in PermissionBits[c]
    <2>1. PICK P : P = UNION {PermissionBits[c] : c \in Tail1(s)}
      OBVIOUS
    <2>2. b \in P <=> \E c \in Tail1(s) : b \in PermissionBits[c]
      BY <2>1
    <2>3. Applicable(s) = Mask(s) \cap P
      BY <2>1 DEF Applicable
    <2>4. QED
      BY <2>2, <2>3
  <1>14. b < 9 => ((\E c \in Tail1(s) : b \in PermissionBits[c]) <=> IsGiven(s, k, b))
    BY <1>7, <1>12 DEF IsGiven
  <1>15. QED
    BY <1>11, <1>13, <1>14 DEF IsWhose

LEMMA SymbolicBits ==
    ASSUME NEW s \in Seq(STRING), ~IsOctal(s), WellFormed(s), NEW m \in SUBSET Bits
    PROVE  Updated(s, m) = {b \in Bits : BitAfter(s, m, b)}
  <1>1. PICK k : k = WhoCount(s) + 1
    OBVIOUS
  <1>2. k \in DOMAIN s /\ Symbolic(s, k) /\ (CHOOSE j \in DOMAIN s : Symbolic(s, j)) = k
    BY <1>1, SymbolicForm
  <1>3. s[k] \in {"+", "-", "="} /\ Operator(s) = s[k]
    BY <1>1, <1>2 DEF Symbolic, Operator
  <1>4. \A b \in Bits : /\ b \in Mask(s) <=> IsWhose(s, k, b)
                        /\ b \in Applicable(s) <=> IsWhose(s, k, b) /\ IsGiven(s, k, b)
    BY <1>1, <1>2, MaskedBits
  <1>5. ASSUME NEW b \in Bits
        PROVE  BitAfter(s, m, b) <=>
                  IF ~IsWhose(s, k, b) THEN b \in m
                  ELSE \/ IsGiven(s, k, b) /\ s[k] \in {"+", "="}
                       \/ b \in m /\ (s[k] = "+" \/ (s[k] = "-" /\ ~IsGiven(s, k, b)))
    BY <1>2 DEF BitAfter, OctalDigits, IsWhose, IsGiven
  <1>6. Applicable(s) \in SUBSET Bits
    <2>1. \A c \in {"r", "w", "x"} : PermissionBits[c] \in SUBSET Bits
      BY DEF PermissionBits, Bits
    <2>2. Tail1(s) \in SUBSET {"r", "w", "x"}
      BY <1>1, <1>2, SymbolicForm DEF SymbolicValid
    <2>3. QED
      BY <2>1, <2>2 DEF Applicable
  <1>7. ASSUME NEW b \in Bits PROVE b \in Updated(s, m) <=> BitAfter(s, m, b)
    <2>1. CASE s[k] = "+"
      BY <1>3, <1>4, <1>5, <2>1 DEF Updated
    <2>2. CASE s[k] = "-"
      BY <1>3, <1>4, <1>5, <2>2 DEF Updated
    <2>3. CASE s[k] = "="
      BY <1>3, <1>4, <1>5, <2>3 DEF Updated
    <2>4. QED
      BY <1>3, <2>1, <2>2, <2>3
  <1>8. Updated(s, m) \in SUBSET Bits
    BY <1>3, <1>6 DEF Updated
  <1>9. QED
    BY <1>7, <1>8

-----------------------------------------------------------------------------
(* The runs                                                                *)

ChPlaces == {"shell", "octal", "stat", "symbolic", "ok", "failed", "rejected"}

ModesOrNone == (SUBSET Bits) \cup {NoFile}

ChInv ==
    /\ mode \in ModesOrNone
    /\ chPc \in [Runs -> ChPlaces] /\ spec \in [Runs -> Seq(STRING)] /\ existing \in [Runs -> SUBSET Bits]
    /\ \A p \in Runs : /\ chPc[p] = "octal" => IsOctal(spec[p])
                       /\ chPc[p] \in {"stat", "symbolic"} => ~IsOctal(spec[p])

LEMMA OctalForm ==
    ASSUME NEW s \in Seq(STRING), IsOctal(s)
    PROVE  OctalValid(s) <=> WellFormed(s)
  <1>1. ASSUME NEW k \in DOMAIN s PROVE ~Symbolic(s, k)
    <2>1. s[k] \in Digits
      BY DEF IsOctal, Range
    <2>2. QED
      BY <2>1 DEF Symbolic, Digits
  <1>2. QED
    BY <1>1, OctalRange DEF WellFormed

\* What one run does to the file and to what is known of it.
LEMMA RunStep ==
    ASSUME ChInv, NEW p \in Runs, ChStart(p) \/ ChStat(p) \/ ChOctal(p) \/ ChSymbolic(p)
    PROVE  /\ ChInv'
           /\ \A q \in Runs : q # p => chPc'[q] = chPc[q]
           /\ chPc[p] # "rejected" /\ chPc'[p] = "rejected" => ~WellFormed(spec[p])
           /\ chPc[p] # "ok" /\ chPc'[p] = "ok" =>
                 /\ WellFormed(spec[p])
                 /\ mode' = {b \in Bits : BitAfter(spec[p], IF chPc[p] = "octal" THEN mode ELSE existing[p], b)}
  <1>1. /\ mode \in ModesOrNone
        /\ chPc \in [Runs -> ChPlaces] /\ spec \in [Runs -> Seq(STRING)] /\ existing \in [Runs -> SUBSET Bits]
        /\ \A q \in Runs : /\ chPc[q] = "octal" => IsOctal(spec[q])
                           /\ chPc[q] \in {"stat", "symbolic"} => ~IsOctal(spec[q])
    BY DEF ChInv
  <1>2. PICK s, m, x : s = spec[p] /\ m = mode /\ x = existing[p]
    OBVIOUS
  <1>3. s \in Seq(STRING) /\ x \in SUBSET Bits /\ m \in ModesOrNone
    BY <1>1, <1>2
  <1>4. CASE ChStart(p)
    <2>1. PICK t \in Specs[p] : /\ chPc[p] = "shell" /\ spec' = [spec EXCEPT ![p] = t]
                                /\ chPc' = [chPc EXCEPT ![p] = IF IsOctal(t) THEN "octal" ELSE "stat"]
                                /\ mode' = mode /\ existing' = existing
      BY <1>4 DEF ChStart, Go
    <2>2. t \in Seq(STRING)
      BY SpecsAssumption
    <2>3. ChInv'
      <3>1. spec' \in [Runs -> Seq(STRING)] /\ chPc' \in [Runs -> ChPlaces]
        BY <1>1, <2>1, <2>2 DEF ChPlaces
      <3>2. \A q \in Runs : /\ chPc'[q] = IF q = p THEN IF IsOctal(t) THEN "octal" ELSE "stat" ELSE chPc[q]
                            /\ spec'[q] = IF q = p THEN t ELSE spec[q]
        BY <1>1, <2>1
      <3>3. ASSUME NEW q \in Runs
            PROVE  /\ chPc'[q] = "octal" => IsOctal(spec'[q])
                   /\ chPc'[q] \in {"stat", "symbolic"} => ~IsOctal(spec'[q])
        <4>1. CASE q = p
          BY <3>2, <4>1
        <4>2. CASE q # p
          BY <1>1, <3>2, <4>2
        <4>3. QED
          BY <4>1, <4>2
      <3>4. QED
        BY <1>1, <2>1, <3>1, <3>3 DEF ChInv
    <2>4. chPc'[p] # "ok" /\ chPc'[p] # "rejected" /\ \A q \in Runs : q # p => chPc'[q] = chPc[q]
      BY <1>1, <2>1
    <2>5. QED
      BY <2>3, <2>4
  <1>5. CASE ChStat(p)
    <2>1. PICK l \in {"failed", "symbolic"} :
             /\ chPc[p] = "stat" /\ chPc' = [chPc EXCEPT ![p] = l] /\ mode' = mode /\ spec' = spec
             /\ existing' = existing \/ (m # NoFile /\ existing' = [existing EXCEPT ![p] = m])
      BY <1>2, <1>5 DEF ChStat, Go
    <2>2. ChInv'
      <3>1. /\ chPc' \in [Runs -> ChPlaces]
            /\ existing' \in [Runs -> SUBSET Bits]
        <4>1. l \in ChPlaces
          BY DEF ChPlaces
        <4>2. chPc' \in [Runs -> ChPlaces]
          BY <1>1, <2>1, <4>1
        <4>3. CASE existing' = existing
          BY <1>1, <4>2, <4>3
        <4>4. CASE m # NoFile /\ existing' = [existing EXCEPT ![p] = m]
          <5>1. m \in SUBSET Bits
            BY <1>3, <4>4 DEF ModesOrNone
          <5>2. QED
            BY <1>1, <4>2, <4>4, <5>1
        <4>5. QED
          BY <2>1, <4>3, <4>4
      <3>2. \A q \in Runs : chPc'[q] = IF q = p THEN l ELSE chPc[q]
        BY <1>1, <2>1
      <3>3. ASSUME NEW q \in Runs
            PROVE  /\ chPc'[q] = "octal" => IsOctal(spec'[q])
                   /\ chPc'[q] \in {"stat", "symbolic"} => ~IsOctal(spec'[q])
        BY <1>1, <2>1, <3>2
      <3>4. QED
        BY <1>1, <2>1, <3>1, <3>3 DEF ChInv
    <2>3. chPc'[p] # "ok" /\ chPc'[p] # "rejected" /\ \A q \in Runs : q # p => chPc'[q] = chPc[q]
      BY <1>1, <2>1
    <2>4. QED
      BY <2>2, <2>3
  <1>6. ASSUME NEW valid \in BOOLEAN, NEW bits, valid => bits \in SUBSET Bits, SetMode(p, valid, bits)
        PROVE  /\ ChInv' /\ \A q \in Runs : q # p => chPc'[q] = chPc[q]
               /\ chPc'[p] = "rejected" => ~valid
               /\ chPc'[p] = "ok" => valid /\ mode' = bits
    <2>1. PICK l \in {"rejected", "ok", "failed"} :
             /\ chPc' = [chPc EXCEPT ![p] = l] /\ spec' = spec /\ existing' = existing
             /\ mode' = mode \/ (valid /\ mode' = bits)
             /\ l = "rejected" => ~valid
             /\ l = "ok" => valid /\ mode' = bits
      <3>1. CASE ~valid /\ Go(p, "rejected") /\ UNCHANGED mode
        BY <1>6, <3>1 DEF SetMode, Go
      <3>2. CASE valid /\ mode # NoFile /\ mode' = bits /\ Go(p, "ok")
        BY <1>6, <3>2 DEF SetMode, Go
      <3>3. CASE valid /\ Go(p, "failed") /\ UNCHANGED mode
        BY <1>6, <3>3 DEF SetMode, Go
      <3>4. QED
        BY <1>6, <3>1, <3>2, <3>3 DEF SetMode
    <2>2. \A q \in Runs : chPc'[q] = IF q = p THEN l ELSE chPc[q]
      BY <1>1, <2>1
    <2>3. ChInv'
      <3>1. chPc' \in [Runs -> ChPlaces] /\ mode' \in ModesOrNone
        <4>1. l \in ChPlaces
          BY DEF ChPlaces
        <4>2. valid => bits \in ModesOrNone
          BY <1>6 DEF ModesOrNone
        <4>3. QED
          BY <1>1, <2>1, <4>1, <4>2
      <3>2. ASSUME NEW q \in Runs
            PROVE  /\ chPc'[q] = "octal" => IsOctal(spec'[q])
                   /\ chPc'[q] \in {"stat", "symbolic"} => ~IsOctal(spec'[q])
        BY <1>1, <2>1, <2>2
      <3>3. QED
        BY <1>1, <2>1, <3>1, <3>2 DEF ChInv
    <2>4. QED
      BY <2>1, <2>2, <2>3
  <1>7. CASE ChOctal(p)
    <2>1. PICK valid \in BOOLEAN : valid = OctalValid(s)
      <3>1. CASE OctalValid(s)
        <4>1. OctalValid(s) = TRUE
          BY <3>1
        <4>2. QED
          BY <4>1
      <3>2. CASE ~OctalValid(s)
        <4>1. OctalValid(s) = FALSE
          BY <3>2 DEF OctalValid
        <4>2. QED
          BY <4>1
      <3>3. QED
        BY <3>1, <3>2
    <2>2. PICK bits : bits = BitsOf(Strtol(s))
      OBVIOUS
    <2>3. chPc[p] = "octal" /\ SetMode(p, valid, bits)
      BY <1>2, <1>7, <2>1, <2>2 DEF ChOctal
    <2>4. bits \in SUBSET Bits
      BY <2>2 DEF BitsOf
    <2>5. IsOctal(s) /\ (OctalValid(s) <=> WellFormed(s))
      BY <1>1, <1>2, <1>3, <2>3, OctalForm
    <2>6. WellFormed(s) => bits = {b \in Bits : BitAfter(s, m, b)}
      BY <1>3, <2>2, <2>5, OctalRange, OctalBits
    <2>7. QED
      BY <1>2, <1>6, <2>1, <2>3, <2>4, <2>5, <2>6
  <1>8. CASE ChSymbolic(p)
    <2>1. PICK valid \in BOOLEAN : valid = SymbolicValid(s)
      BY Zenon DEF SymbolicValid
    <2>2. PICK bits : bits = Updated(s, x)
      OBVIOUS
    <2>3. chPc[p] = "symbolic" /\ SetMode(p, valid, bits)
      BY <1>2, <1>8, <2>1, <2>2 DEF ChSymbolic
    <2>4. ~IsOctal(s)
      BY <1>1, <1>2, <2>3
    <2>5. SymbolicValid(s) <=> WellFormed(s)
      BY <1>3, <2>4, SymbolicForm
    <2>6. WellFormed(s) => bits = {b \in Bits : BitAfter(s, x, b)}
      BY <1>3, <2>2, <2>4, SymbolicBits
    <2>7. valid => bits \in SUBSET Bits
      BY <2>1, <2>5, <2>6
    <2>8. QED
      BY <1>2, <1>6, <2>1, <2>3, <2>5, <2>6, <2>7
  <1>9. QED
    BY <1>4, <1>5, <1>7, <1>8

LEMMA ChStarts == ChInit => ChInv
  <1>1. NoFile \in ModesOrNone
    BY DEF ModesOrNone
  <1>2. <<>> \in Seq(STRING) /\ {} \in SUBSET Bits /\ "shell" \in ChPlaces
    BY DEF ChPlaces
  <1>3. ASSUME ChInit PROVE ChInv
    <2>1. chPc \in [Runs -> ChPlaces] /\ spec \in [Runs -> Seq(STRING)] /\ existing \in [Runs -> SUBSET Bits]
      BY <1>2, <1>3 DEF ChInit
    <2>2. \A p \in Runs : chPc[p] = "shell"
      BY <1>3 DEF ChInit
    <2>3. mode = NoFile
      BY <1>3 DEF ChInit
    <2>4. QED
      BY <1>1, <2>1, <2>2, <2>3 DEF ChInv
  <1>4. QED
    BY <1>3

LEMMA ChStep ==
    ASSUME ChInv, ChNext
    PROVE  /\ ChInv'
           /\ \A p \in Runs :
                 /\ chPc[p] # "rejected" /\ chPc'[p] = "rejected" => ~WellFormed(spec[p])
                 /\ chPc[p] # "ok" /\ chPc'[p] = "ok" =>
                    /\ WellFormed(spec[p])
                    /\ mode' = {b \in Bits : BitAfter(spec[p], IF chPc[p] = "octal" THEN mode ELSE existing[p], b)}
  <1>1. CASE \E p \in Runs : ChStart(p) \/ ChStat(p) \/ ChOctal(p) \/ ChSymbolic(p)
    <2>1. PICK p \in Runs : ChStart(p) \/ ChStat(p) \/ ChOctal(p) \/ ChSymbolic(p)
      BY <1>1
    <2>2. /\ ChInv'
          /\ \A q \in Runs : q # p => chPc'[q] = chPc[q]
          /\ chPc[p] # "rejected" /\ chPc'[p] = "rejected" => ~WellFormed(spec[p])
          /\ chPc[p] # "ok" /\ chPc'[p] = "ok" =>
                /\ WellFormed(spec[p])
                /\ mode' = {b \in Bits : BitAfter(spec[p], IF chPc[p] = "octal" THEN mode ELSE existing[p], b)}
      BY <2>1, RunStep
    <2>3. ASSUME NEW q \in Runs
          PROVE  /\ chPc[q] # "rejected" /\ chPc'[q] = "rejected" => ~WellFormed(spec[q])
                 /\ chPc[q] # "ok" /\ chPc'[q] = "ok" =>
                    /\ WellFormed(spec[q])
                    /\ mode' = {b \in Bits : BitAfter(spec[q], IF chPc[q] = "octal" THEN mode ELSE existing[q], b)}
      <3>1. CASE q = p
        BY <2>2, <3>1
      <3>2. CASE q # p
        BY <2>2, <3>2
      <3>3. QED
        BY <3>1, <3>2
    <2>4. QED
      BY <2>2, <2>3
  <1>2. CASE FileMadeOrRemoved
    <2>1. /\ chPc' = chPc /\ spec' = spec /\ existing' = existing
          /\ mode' \in Modes \/ mode' = NoFile
      <3>1. CASE mode = NoFile
        BY <1>2, <3>1 DEF FileMadeOrRemoved
      <3>2. CASE mode # NoFile
        BY <1>2, <3>2 DEF FileMadeOrRemoved
      <3>3. QED
        BY <3>1, <3>2
    <2>2. mode' \in ModesOrNone
      BY <2>1, ModesAssumption DEF ModesOrNone
    <2>3. ChInv'
      BY <2>1, <2>2 DEF ChInv
    <2>4. QED
      BY <2>1, <2>3
  <1>3. QED
    BY <1>1, <1>2 DEF ChNext

\* mychmod refuses just the specifications that are not well-formed, and sets the bits
\* that a well-formed one asks for, whatever other runs do meanwhile: it may undo their
\* changes, and changes nothing else.
THEOREM ModesAreAsAsked == ChSpec => AsAsked
  <1> DEFINE Asked == \A p \in Runs :
                 /\ chPc[p] # "rejected" /\ chPc'[p] = "rejected" => ~WellFormed(spec[p])
                 /\ chPc[p] # "ok" /\ chPc'[p] = "ok" =>
                    /\ WellFormed(spec[p])
                    /\ mode' = {b \in Bits : BitAfter(spec[p], IF chPc[p] = "octal" THEN mode ELSE existing[p], b)}
  <1>1. ChInv /\ [ChNext]_chVars => ChInv' /\ [Asked]_chVars
    <2>1. ASSUME ChInv, ChNext PROVE ChInv' /\ Asked
      BY <2>1, ChStep
    <2>2. ASSUME ChInv, UNCHANGED chVars PROVE ChInv'
      BY <2>2 DEF ChInv, chVars
    <2>3. QED
      BY <2>1, <2>2
  <1>2. QED
    BY <1>1, ChStarts, PTL DEF ChSpec, AsAsked
=============================================================================
