--------------------------- MODULE Archiver_proofs ---------------------------
(***************************************************************************)
(* Proofs about Archiver for every set of names, every length of files and *)
(* any number of commands, with all failures but those that leave a header *)
(* without its data, or data without a header, in the archive (Careful).   *)
(***************************************************************************)
EXTENDS Archiver, Picks_proofs

-----------------------------------------------------------------------------
(* Cells and files.                                                        *)

HeaderCells == {Header(n, size) : n \in Names, size \in 0..MaxVersion}
DataCells   == {Block(n, v, k) : n \in Names, v \in 0..MaxVersion, k \in 1..MaxVersion}
CellSet     == HeaderCells \cup DataCells

LEMMA CellKinds ==
    ASSUME NEW c \in CellSet
    PROVE  /\ c.kind \in {"header", "data"} /\ c.name \in Names /\ c # [kind |-> "missing"]
           /\ c.kind = "header" => c.size \in 0..MaxVersion /\ c = Header(c.name, c.size)
           /\ c.kind = "data" => c \in DataCells
  <1>1. CASE c \in HeaderCells
    BY <1>1 DEF HeaderCells, Header
  <1>2. CASE c \in DataCells
    BY <1>2 DEF DataCells, Block
  <1>3. QED
    BY <1>1, <1>2 DEF CellSet

\* What a file holds are blocks of its name, and what comes before one of them could
\* be a file as well.
LEMMA KeptFacts ==
    ASSUME NEW n \in Names, NEW c \in Kept(n)
    PROVE  /\ c \in Seq(DataCells) /\ Len(c) \in 0..MaxVersion
           /\ \A j \in 1..Len(c) : c[j].kind = "data" /\ c[j].name = n
           /\ \A k \in 0..Len(c) : [j \in 1..k |-> c[j]] \in Kept(n)
           /\ c \in Contents
  <1>0. PICK v \in 0..MaxVersion : \E l \in 0..v : c = Part(n, v, l)
    BY DEF Kept
  <1>1. PICK l \in 0..v : c = Part(n, v, l)
    BY <1>0
  <1>2. l \in 0..MaxVersion /\ v \in Nat /\ l \in Nat
    BY <1>1, BoundsAssumption
  <1>3. c = [j \in 1..l |-> Block(n, v, j)]
    BY <1>1 DEF Part
  <1>4. \A j \in 1..l : Block(n, v, j) \in DataCells
    BY <1>1, <1>2, BoundsAssumption DEF DataCells
  <1>5. c \in Seq(DataCells) /\ Len(c) = l
    BY <1>2, <1>3, <1>4
  <1>6. \A j \in 1..l : c[j] = Block(n, v, j)
    BY <1>3
  <1>7. \A j \in 1..l : c[j].kind = "data" /\ c[j].name = n
    <2>1. \A j \in 1..l : Block(n, v, j).kind = "data" /\ Block(n, v, j).name = n
      BY DEF Block
    <2>2. QED
      BY <1>6, <2>1
  <1>8. ASSUME NEW k \in 0..l PROVE [j \in 1..k |-> c[j]] \in Kept(n)
    <2>1. k \in 0..v /\ \A j \in 1..k : j \in 1..l
      BY <1>1, <1>2
    <2>2. [j \in 1..k |-> c[j]] = Part(n, v, k)
      BY <1>6, <2>1 DEF Part
    <2>3. QED
      BY <1>1, <2>1, <2>2 DEF Kept
  <1>9. QED
    BY <1>2, <1>5, <1>7, <1>8 DEF Contents

\* The user writes a version, and creating a file leaves it empty.
LEMMA VersionIsKept ==
    ASSUME NEW n \in Names
    PROVE  <<>> \in Kept(n) /\ \A v \in 0..MaxVersion : Version(n, v) \in Kept(n)
  <1>1. ASSUME NEW v \in 0..MaxVersion PROVE Version(n, v) \in Kept(n)
    <2>1. v \in 0..v
      BY <1>1, BoundsAssumption
    <2>2. QED
      BY <1>1, <2>1 DEF Version, Kept
  <1>2. 0 \in 0..MaxVersion /\ 0 \in 0..0
    BY BoundsAssumption
  <1>3. Part(n, 0, 0) = <<>>
    BY DEF Part
  <1>4. QED
    BY <1>1, <1>2, <1>3 DEF Kept

-----------------------------------------------------------------------------
(* Archives.                                                               *)

\* The files in the first m cells.
EntriesTo(cells, m) == Picked([k \in Headers(cells, m) |-> Entry(cells, k)], Headers(cells, m))

EntrySet == [name : Names, content : Contents]

\* A header among the first m cells has its data there.
LEMMA InFormed ==
    ASSUME NEW cells \in Seq(CellSet), NEW m \in 0..Len(cells), Formed(cells, m), NEW k \in Headers(cells, m)
    PROVE  /\ k \in 1..m /\ cells[k].name \in Names /\ cells[k].size \in 0..MaxVersion
           /\ k + cells[k].size <= m
           /\ Content(cells, k) \in Kept(cells[k].name) /\ Len(Content(cells, k)) = cells[k].size
           /\ \A j \in 1..cells[k].size :
                /\ Content(cells, k)[j] = cells[k + j]
                /\ cells[k + j].kind = "data" /\ cells[k + j].name = cells[k].name
           /\ Entry(cells, k) \in EntrySet
  <1>1. k \in 1..m /\ cells[k] \in CellSet /\ cells[k].kind = "header" /\ Len(cells) \in Nat
    BY ElementOfSeq, LenProperties DEF Headers
  <1>2. cells[k].name \in Names /\ cells[k].size \in 0..MaxVersion
    BY <1>1, CellKinds
  <1>3. k + cells[k].size <= m /\ Content(cells, k) \in Kept(cells[k].name)
    BY DEF Formed
  <1> DEFINE size == cells[k].size  c == Content(cells, k)
  <1>4. \A i \in (k + 1)..(k + size) : cells[i] \in CellSet
    BY <1>1, <1>2, <1>3, BoundsAssumption, ElementOfSeq
  <1>5. size \in Nat /\ k + 1 \in Int /\ k + size \in Int
    BY <1>1, <1>2, BoundsAssumption
  <1>6. Len(c) = size /\ \A j \in 1..size : c[j] = cells[k + j]
    <2> HIDE DEF size
    <2>1. /\ Len(SubSeq(cells, k + 1, k + size)) = size
          /\ \A i \in 1..size : SubSeq(cells, k + 1, k + size)[i] = cells[k + i]
      BY <1>1, <1>4, <1>5, SubSeqProperties
    <2>2. QED
      BY <2>1 DEF Content, size
  <1>7. \A j \in 1..size : c[j].kind = "data" /\ c[j].name = cells[k].name
    BY <1>2, <1>3, <1>6, KeptFacts
  <1>8. Entry(cells, k) \in EntrySet
    BY <1>2, <1>3, KeptFacts DEF Entry, EntrySet
  <1>9. QED
    BY <1>1, <1>2, <1>3, <1>6, <1>7, <1>8

LEMMA HeadersKind ==
    ASSUME NEW cells, NEW m \in Nat
    PROVE  Headers(cells, m) \in SUBSET (1..m) /\ Headers(cells, m) \in SUBSET Nat /\ IsFiniteSet(Headers(cells, m))
  <1>1. Headers(cells, m) \in SUBSET (1..m) /\ Headers(cells, m) \in SUBSET Nat
    BY DEF Headers
  <1>2. IsFiniteSet(1..m)
    BY FS_Interval
  <1>3. QED
    BY <1>1, <1>2, FS_Subset

\* Another file at the end.
LEMMA FormedMore ==
    ASSUME NEW cells \in Seq(CellSet), NEW m \in 0..(Len(cells) - 1), Formed(cells, m),
           cells[m + 1].kind = "header", m + 1 + cells[m + 1].size <= Len(cells),
           Content(cells, m + 1) \in Kept(cells[m + 1].name)
    PROVE  LET end == m + 1 + cells[m + 1].size IN
           /\ end \in (m + 1)..Len(cells) /\ Formed(cells, end)
           /\ Headers(cells, end) = Headers(cells, m) \cup {m + 1}
           /\ EntriesTo(cells, end) = Append(EntriesTo(cells, m), Entry(cells, m + 1))
  <1> DEFINE h == m + 1  size == cells[m + 1].size  end == m + 1 + size
  <1>1. /\ Len(cells) \in Nat /\ m \in Nat /\ h \in 1..Len(cells) /\ cells[h] \in CellSet
        /\ size \in Nat /\ cells[h].name \in Names /\ end \in h..Len(cells)
    <2>1. Len(cells) \in Nat /\ m \in Nat /\ h \in 1..Len(cells)
      BY LenProperties
    <2>2. cells[h] \in CellSet
      BY <2>1, ElementOfSeq
    <2>3. size \in Nat /\ cells[h].name \in Names
      BY <2>2, CellKinds, BoundsAssumption
    <2>4. QED
      BY <2>1, <2>2, <2>3
  <1>2. \A j \in 1..size : cells[h + j].kind = "data"
    <2>1. Len(SubSeq(cells, h + 1, h + size)) = size /\ \A i \in 1..size : SubSeq(cells, h + 1, h + size)[i] = cells[h + i]
      <3>1. \A i \in (h + 1)..(h + size) : cells[i] \in CellSet
        BY <1>1, ElementOfSeq
      <3> HIDE DEF h, size
      <3>2. QED
        BY <1>1, <3>1, SubSeqProperties
    <2>2. Content(cells, h) \in Kept(cells[h].name) /\ Content(cells, h) = SubSeq(cells, h + 1, h + size)
      BY DEF Content
    <2>3. \A i \in 1..size : Content(cells, h)[i].kind = "data"
      <3>1. Len(Content(cells, h)) = size
        BY <2>1, <2>2
      <3>2. \A i \in 1..Len(Content(cells, h)) : Content(cells, h)[i].kind = "data"
        <4>1. \A n \in Names : \A c \in Kept(n) : \A i \in 1..Len(c) : c[i].kind = "data"
          BY KeptFacts
        <4> HIDE DEF h, size, end
        <4>2. QED
          BY <1>1, <2>2, <4>1
      <3>3. QED
        BY <3>1, <3>2
    <2>4. QED
      BY <2>1, <2>2, <2>3
  <1>3. Headers(cells, end) = Headers(cells, m) \cup {h}
    <2>1. ASSUME NEW k \in 1..end PROVE k \in 1..m \/ k = h \/ \E j \in 1..size : k = h + j
      <3>1. k \in 1..m \/ k = h \/ (k - h \in 1..size /\ k = h + (k - h))
        BY <1>1
      <3>2. QED
        BY <3>1
    <2>2. h \in 1..end /\ \A k \in 1..m : k \in 1..end
      BY <1>1
    <2> HIDE DEF end, h, size
    <2>3. cells[h].kind = "header"
      BY DEF h
    <2>4. QED
      BY <1>2, <2>1, <2>2, <2>3 DEF Headers
  <1>4. Formed(cells, end)
    <2>1. m > 0 => cells[1].kind = "header"
      BY DEF Formed
    <2>2. cells[1].kind = "header"
      <3>1. CASE m = 0
        BY <3>1
      <3>2. CASE m # 0
        BY <1>1, <2>1, <3>2
      <3>3. QED
        BY <3>1, <3>2
    <2>3. ASSUME NEW k \in Headers(cells, m)
          PROVE  /\ k + cells[k].size <= end
                 /\ Content(cells, k) \in Kept(cells[k].name)
                 /\ k + cells[k].size < end => cells[k + cells[k].size + 1].kind = "header"
      <3>1. /\ k + cells[k].size <= m /\ Content(cells, k) \in Kept(cells[k].name)
            /\ k + cells[k].size < m => cells[k + cells[k].size + 1].kind = "header"
        BY DEF Formed
      <3>2. k \in Nat /\ cells[k].size \in Nat
        BY <1>1, InFormed, BoundsAssumption
      <3>3. k + cells[k].size = m => cells[k + cells[k].size + 1].kind = "header"
        OBVIOUS
      <3>4. QED
        BY <1>1, <3>1, <3>2, <3>3
    <2>4. /\ h + cells[h].size <= end
          /\ Content(cells, h) \in Kept(cells[h].name)
          /\ ~(h + cells[h].size < end)
      BY <1>1
    <2> HIDE DEF end, h, size
    <2>5. QED
      BY <1>3, <2>2, <2>3, <2>4 DEF Formed
  <1>5. EntriesTo(cells, end) = Append(EntriesTo(cells, m), Entry(cells, h))
    <2> DEFINE H == Headers(cells, m)  f == [k \in H |-> Entry(cells, k)]
               g == [k \in Headers(cells, end) |-> Entry(cells, k)]
    <2>1. /\ H \in SUBSET Nat /\ IsFiniteSet(H) /\ h \in Nat /\ \A k \in H : k < h
      BY <1>1, HeadersKind
    <2>2. Entry(cells, h) \in EntrySet
      BY <1>1, KeptFacts DEF Entry, EntrySet
    <2>3. \A k \in H : Entry(cells, k) \in EntrySet
      BY <1>1, InFormed
    <2> HIDE DEF H, h
    <2>4. \A k \in H \cup {h} : g[k] = Entry(cells, k)
      BY <1>3 DEF H
    <2>5. Picked(g, H \cup {h}) = Append(Picked(g, H), g[h])
      <3>1. \A k \in H \cup {h} : g[k] \in EntrySet
        BY <2>2, <2>3, <2>4
      <3> HIDE DEF g
      <3>2. QED
        BY <2>1, <3>1, PickedMore
    <2>6. Picked(g, H) = Picked(f, H)
      <3>1. \A k \in H : g[k] = f[k]
        BY <2>4
      <3> HIDE DEF f, g
      <3>2. QED
        BY <2>1, <3>1, PickedSame
    <2>7. EntriesTo(cells, end) = Picked(g, H \cup {h}) /\ EntriesTo(cells, m) = Picked(f, H)
      BY <1>3 DEF EntriesTo, H
    <2>8. QED
      BY <2>4, <2>5, <2>6, <2>7
  <1>6. QED
    BY <1>1, <1>3, <1>4, <1>5

\* What a file, or several, says of the rest of the archive does not matter to them.
LEMMA FormedSame ==
    ASSUME NEW a \in Seq(CellSet), NEW b \in Seq(CellSet), NEW m \in 0..Len(a), m <= Len(b),
           \A k \in 1..m : a[k] = b[k], Formed(a, m)
    PROVE  /\ Formed(b, m)
           /\ Headers(b, m) = Headers(a, m)
           /\ \A k \in Headers(a, m) : Entry(b, k) = Entry(a, k) /\ Content(b, k) = Content(a, k)
           /\ EntriesTo(b, m) = EntriesTo(a, m)
  <1>0. m \in Nat /\ m \in 0..Len(b) /\ Len(a) \in Nat /\ Len(b) \in Nat
    BY LenProperties
  <1>1. Headers(b, m) = Headers(a, m)
    BY DEF Headers
  <1>2. ASSUME NEW k \in Headers(a, m)
        PROVE  /\ a[k] = b[k] /\ k + a[k].size <= m
               /\ k + a[k].size < m => a[k + a[k].size + 1] = b[k + a[k].size + 1]
               /\ Content(b, k) = Content(a, k)
    <2> DEFINE size == a[k].size
    <2>1. k \in 1..m /\ size \in Nat /\ k + size <= m
      BY InFormed, BoundsAssumption
    <2>2. a[k] = b[k] /\ (k + size < m => a[k + size + 1] = b[k + size + 1])
      BY <1>0, <2>1
    <2>3. \A i \in (k + 1)..(k + size) : a[i] = b[i] /\ a[i] \in CellSet
      BY <1>0, <2>1, ElementOfSeq
    <2> HIDE DEF size
    <2>4. SubSeq(b, k + 1, k + size) = SubSeq(a, k + 1, k + size)
      <3> DEFINE s == SubSeq(a, k + 1, k + size)  t == SubSeq(b, k + 1, k + size)
      <3>1. s \in Seq(CellSet) /\ Len(s) = size /\ \A i \in 1..size : s[i] = a[k + i]
        BY <2>1, <2>3, SubSeqProperties
      <3>2. t \in Seq(CellSet) /\ Len(t) = size /\ \A i \in 1..size : t[i] = b[k + i]
        BY <2>1, <2>3, SubSeqProperties
      <3>3. \A i \in 1..size : s[i] = t[i]
        BY <2>1, <2>3, <3>1, <3>2
      <3> HIDE DEF s, t
      <3>4. s = t
        BY <3>1, <3>2, <3>3, SeqEqual
      <3>5. QED
        BY <3>4 DEF s, t
    <2>5. QED
      BY <2>1, <2>2, <2>4 DEF Content, size
  <1>3. Formed(b, m)
    <2>1. m > 0 => b[1].kind = "header"
      BY <1>0 DEF Formed
    <2>2. QED
      BY <1>1, <1>2, <2>1 DEF Formed
  <1>4. \A k \in Headers(a, m) : Entry(b, k) = Entry(a, k) /\ Content(b, k) = Content(a, k)
    BY <1>2 DEF Entry
  <1>5. EntriesTo(b, m) = EntriesTo(a, m)
    BY <1>1, <1>4 DEF EntriesTo
  <1>6. QED
    BY <1>1, <1>3, <1>4, <1>5

\* The files of an archive that keeps the format, and of one that ends with a header
\* that has not got all its data yet.
LEMMA EntriesOf ==
    ASSUME NEW cells \in Seq(CellSet), NEW m \in 0..Len(cells), Formed(cells, m),
           \/ m = Len(cells)
           \/ /\ m < Len(cells) /\ m + 1 + cells[m + 1].size > Len(cells)
              /\ \A k \in (m + 2)..Len(cells) : cells[k].kind = "data"
    PROVE  Whole(cells) = Headers(cells, m) /\ Entries(cells) = EntriesTo(cells, m)
  <1>0. Len(cells) \in Nat /\ m \in Nat
    BY LenProperties
  <1>1. ASSUME NEW k \in Headers(cells, m) PROVE k \in Whole(cells)
    <2>1. k \in 1..m /\ cells[k].kind = "header" /\ cells[k].size \in Nat /\ k + cells[k].size <= m
      BY InFormed, BoundsAssumption DEF Headers
    <2>2. QED
      BY <1>0, <2>1 DEF Whole, Headers
  <1>2. ASSUME NEW k \in Whole(cells) PROVE k \in Headers(cells, m)
    <2>1. k \in 1..Len(cells) /\ cells[k].kind = "header" /\ k + cells[k].size <= Len(cells)
      BY DEF Whole, Headers
    <2>2. k \in 1..m \/ k = m + 1 \/ k \in (m + 2)..Len(cells)
      BY <1>0, <2>1
    <2>3. k # m + 1 \/ m = Len(cells)
      <3>1. cells[k].size \in Nat
        BY <2>1, ElementOfSeq, CellKinds, BoundsAssumption
      <3>2. QED
        BY <1>0, <2>1, <3>1
    <2>4. k \in (m + 2)..Len(cells) => m = Len(cells)
      BY <2>1
    <2>5. k \in 1..m
      BY <1>0, <2>1, <2>2, <2>3, <2>4
    <2>6. QED
      BY <2>1, <2>5 DEF Headers
  <1>3. QED
    BY <1>1, <1>2 DEF Entries, EntriesTo

\* A file of n is being put at the end of an archive, and `done` blocks of it are there.
LEMMA AddedSoFar ==
    ASSUME NEW cells \in Seq(CellSet), NEW n \in Names, NEW file \in Kept(n), NEW done \in 0..Len(file),
           NEW m \in Nat, Len(cells) = m + 1 + done, Formed(cells, m), cells[m + 1] = Header(n, Len(file)),
           \A j \in 1..done : cells[m + 1 + j] = file[j]
    PROVE  /\ done < Len(file) => Entries(cells) = EntriesTo(cells, m)
           /\ done = Len(file) =>
                /\ Formed(cells, Len(cells))
                /\ Entries(cells) = Append(EntriesTo(cells, m), [name |-> n, content |-> file])
                /\ EntriesTo(cells, Len(cells)) = Entries(cells)
  <1>1. /\ file \in Seq(DataCells) /\ Len(file) \in Nat /\ done \in Nat /\ m \in 0..(Len(cells) - 1)
        /\ \A j \in 1..Len(file) : file[j].kind = "data"
    <2>1. file \in Seq(DataCells) /\ Len(file) \in 0..MaxVersion /\ \A j \in 1..Len(file) : file[j].kind = "data"
      BY KeptFacts
    <2>2. Len(file) \in Nat
      BY <2>1, BoundsAssumption
    <2>3. QED
      BY <2>1, <2>2
  <1>2. cells[m + 1].kind = "header" /\ cells[m + 1].size = Len(file) /\ cells[m + 1].name = n
    BY DEF Header
  <1>3. ASSUME done < Len(file) PROVE Entries(cells) = EntriesTo(cells, m)
    <2>1. m + 1 + cells[m + 1].size > Len(cells)
      BY <1>1, <1>2, <1>3
    <2>2. ASSUME NEW k \in (m + 2)..Len(cells) PROVE cells[k].kind = "data"
      <3>1. k - (m + 1) \in 1..done /\ k = m + 1 + (k - (m + 1))
        BY <1>1
      <3>2. cells[k] = file[k - (m + 1)] /\ k - (m + 1) \in 1..Len(file)
        BY <1>1, <3>1
      <3>3. QED
        BY <1>1, <3>2
    <2>3. m \in 0..Len(cells) /\ m < Len(cells)
      BY <1>1
    <2>4. QED
      BY <2>1, <2>2, <2>3, EntriesOf
  <1>4. ASSUME done = Len(file)
        PROVE  /\ Formed(cells, Len(cells))
               /\ Entries(cells) = Append(EntriesTo(cells, m), [name |-> n, content |-> file])
               /\ EntriesTo(cells, Len(cells)) = Entries(cells)
    <2>1. m + 1 + cells[m + 1].size = Len(cells)
      BY <1>1, <1>2, <1>4
    <2>2. Content(cells, m + 1) = file
      <3> DEFINE l == Len(file)  s == SubSeq(cells, (m + 1) + 1, (m + 1) + l)
      <3>1. /\ l \in Nat /\ (m + 1) + 1 \in Int /\ (m + 1) + l \in Int /\ (m + 1) + l = Len(cells)
            /\ \A i \in ((m + 1) + 1)..((m + 1) + l) : cells[i] \in CellSet
        BY <1>1, <1>4, ElementOfSeq
      <3>0. Len(s) = l /\ \A i \in 1..l : s[i] = cells[m + 1 + i]
        <4> HIDE DEF l
        <4> DEFINE a == (m + 1) + 1  b == (m + 1) + l
        <4>0. l \in Nat /\ m \in Nat
          BY <3>1
        <4>1. a \in Int /\ b \in Int /\ b - a + 1 = l /\ a <= b + 1 /\ \A i \in 1..l : a + i - 1 = m + 1 + i
          BY <4>0
        <4>2. \A i \in a..b : cells[i] \in CellSet
          BY <3>1
        <4> HIDE DEF a, b
        <4>3. /\ SubSeq(cells, a, b) \in Seq(CellSet)
              /\ Len(SubSeq(cells, a, b)) = IF a <= b THEN b - a + 1 ELSE 0
              /\ \A i \in 1..(b - a + 1) : SubSeq(cells, a, b)[i] = cells[a + i - 1]
          BY <4>1, <4>2, SubSeqProperties
        <4>4. Len(SubSeq(cells, a, b)) = l
          BY <3>1, <4>1, <4>3
        <4>5. \A i \in 1..l : SubSeq(cells, a, b)[i] = cells[m + 1 + i]
          BY <4>1, <4>3
        <4>6. QED
          BY <4>4, <4>5 DEF a, b
      <3>2. /\ s \in Seq(CellSet) /\ Len(s) = Len(file)
            /\ \A i \in 1..Len(file) : s[i] = cells[m + 1 + i]
        <4>1. s \in Seq(CellSet)
          BY <3>1, SubSeqProperties
        <4>2. QED
          BY <3>0, <4>1
      <3>3. file \in Seq(CellSet)
        BY <1>1, SeqMonotonic DEF CellSet
      <3>4. \A i \in 1..Len(file) : s[i] = file[i]
        BY <1>4, <3>2
      <3>5. Content(cells, m + 1) = s
        BY <1>1, <1>2 DEF Content
      <3> HIDE DEF s
      <3>6. s = file
        BY <3>2, <3>3, <3>4, SeqEqual
      <3>7. QED
        BY <3>5, <3>6
    <2>3. /\ Formed(cells, Len(cells))
          /\ EntriesTo(cells, Len(cells)) = Append(EntriesTo(cells, m), Entry(cells, m + 1))
      <3>1. Content(cells, m + 1) \in Kept(cells[m + 1].name)
        BY <1>2, <2>2
      <3>2. m + 1 + cells[m + 1].size <= Len(cells)
        BY <1>1, <2>1
      <3>3. QED
        BY <1>1, <1>2, <2>1, <3>1, <3>2, FormedMore
    <2>4. Entry(cells, m + 1) = [name |-> n, content |-> file]
      BY <1>2, <2>2 DEF Entry
    <2>5. Entries(cells) = EntriesTo(cells, Len(cells))
      <3>1. Len(cells) \in 0..Len(cells)
        BY LenProperties
      <3>2. QED
        BY <2>3, <3>1, EntriesOf
    <2>6. QED
      BY <2>3, <2>4, <2>5
  <1>5. QED
    BY <1>3, <1>4

\* One more cell leaves what is there as it was.
LEMMA OneMoreCell ==
    ASSUME NEW cells \in Seq(CellSet), NEW c \in CellSet, NEW m \in 0..Len(cells), Formed(cells, m)
    PROVE  LET new == Append(cells, c) IN
           /\ new \in Seq(CellSet) /\ Len(new) = Len(cells) + 1 /\ new[Len(new)] = c
           /\ \A k \in 1..Len(cells) : new[k] = cells[k]
           /\ Formed(new, m) /\ EntriesTo(new, m) = EntriesTo(cells, m)
  <1> DEFINE new == Append(cells, c)
  <1>1. /\ new \in Seq(CellSet) /\ Len(new) = Len(cells) + 1 /\ new[Len(cells) + 1] = c
        /\ \A k \in 1..Len(cells) : new[k] = cells[k]
    BY AppendProperties
  <1>2. Len(cells) \in Nat /\ m <= Len(new) /\ \A k \in 1..m : cells[k] = new[k]
    BY <1>1, LenProperties
  <1> HIDE DEF new
  <1>3. Formed(new, m) /\ EntriesTo(new, m) = EntriesTo(cells, m)
    BY <1>1, <1>2, FormedSame
  <1>4. QED
    BY <1>1, <1>3 DEF new

-----------------------------------------------------------------------------
(* The invariant.  A file is being put at the end of `cells`: m cells are  *)
(* whole entries, its header follows, and `done` blocks of it.             *)
Partly(cells, m, n, file, done) ==
    /\ m \in 0..Len(cells) /\ done \in 0..Len(file) /\ Len(cells) = m + 1 + done
    /\ Formed(cells, m)
    /\ cells[m + 1] = Header(n, Len(file))
    /\ \A j \in 1..done : cells[m + 1 + j] = file[j]

\* Among the first m cells, the headers of other files than n.
HeadsNot(cells, n, m) == {k \in Headers(cells, m) : cells[k].name # n}

\* The files behind some of the headers.
Files(cells, S) == Picked([k \in S |-> Entry(cells, k)], S)

\* The first m cells are whole entries, and if there are more, another one follows.
Boundary(cells, m) ==
    /\ m \in 0..Len(cells) /\ Formed(cells, m)
    /\ m < Len(cells) => cells[m + 1].kind = "header"

Kinds ==
    /\ disk = [n \in Names |-> disk[n]]
    /\ \A n \in Names : disk[n] = Missing \/ disk[n] \in Kept(n)
    /\ archive = Missing \/ archive \in Seq(CellSet)
    /\ temp = Missing \/ temp \in Seq(CellSet)
    /\ pc \in PC /\ name \in Names /\ pos \in Nat \ {0}
    /\ left \in 0..MaxVersion /\ found \in BOOLEAN /\ commands \in 0..MaxCommands

Stages ==
    /\ pc \in {"openArchive", "writeHeader", "openFile", "copyIn"} => disk[name] # Missing
    /\ pc \in {"openArchive", "writeHeader"} => left = Len(disk[name])
    /\ pc \in {"writeHeader", "openFile", "copyIn"} => archive # Missing
    /\ pc \in {"openTemp", "readEntry", "copyOut", "keep", "replace"} => archive # Missing
    /\ pc \in {"readEntry", "copyOut", "keep", "replace"} => temp # Missing

\* The archive keeps the format but where a file is being added.
Format == pc \notin {"openFile", "copyIn"} => Formed(Cells, Len(Cells))

Adding ==
    /\ pc = "openFile" => \E m \in 0..Len(archive) : Partly(archive, m, name, disk[name], 0)
    /\ pc = "copyIn" => \E m \in 0..Len(archive) : Partly(archive, m, name, disk[name], pos - 1)

\* On disk is the last file of the name sought, if there is any among the first m cells.
LastCopy(m) ==
    IF found
    THEN \E k \in HeadsOf(archive, name, m) :
            /\ \A h \in HeadsOf(archive, name, m) : h <= k
            /\ disk[name] = Content(archive, k)
    ELSE HeadsOf(archive, name, m) = {}

\* temp_archive has the files that stay of the first m cells, and nothing else.
TempHas(m) ==
    /\ Formed(temp, Len(temp))
    /\ EntriesTo(temp, Len(temp)) = Files(archive, HeadsNot(archive, name, m))

\* The entry at e is being read.
Entered(e) ==
    /\ Boundary(archive, e - 1) /\ archive[e].kind = "header"
    /\ e < pos /\ pos + left = e + 1 + archive[e].size

Between == Boundary(archive, pos - 1) /\ TempHas(pos - 1) /\ LastCopy(pos - 1)

CopyingOut(e) ==
    /\ Entered(e) /\ archive[e].name = name
    /\ found /\ disk[name] = [j \in 1..(pos - 1 - e) |-> archive[e + j]]
    /\ TempHas(e - 1)

Keeping(e) ==
    /\ Entered(e) /\ archive[e].name # name
    /\ LastCopy(e - 1)
    /\ \E t \in 0..Len(temp) :
        /\ Partly(temp, t, archive[e].name, Content(archive, e), pos - 1 - e)
        /\ EntriesTo(temp, t) = Files(archive, HeadsNot(archive, name, e - 1))

Extracting ==
    /\ pc \in {"readEntry", "copyOut", "keep", "replace"} =>
        temp = Picked(archive, NotOf(archive, name, pos - 1))
    /\ pc \in {"readEntry", "replace"} => Between
    /\ pc = "replace" => pos = Len(archive) + 1 \/ Fails("readHeader")
    /\ pc = "copyOut" => \E e \in 1..Len(archive) : CopyingOut(e)
    /\ pc = "keep" => \E e \in 1..Len(archive) : Keeping(e)

AInv == Kinds /\ Stages /\ Format /\ Adding /\ Extracting

-----------------------------------------------------------------------------
LEMMA PartlyStart ==
    ASSUME NEW cells \in Seq(CellSet), Formed(cells, Len(cells)), NEW n \in Names, NEW file \in Kept(n)
    PROVE  LET new == Append(cells, Header(n, Len(file))) IN
           /\ new \in Seq(CellSet) /\ Len(cells) \in 0..Len(new)
           /\ Partly(new, Len(cells), n, file, 0)
           /\ EntriesTo(new, Len(cells)) = EntriesTo(cells, Len(cells))
           /\ Entries(cells) = EntriesTo(cells, Len(cells))
  <1> DEFINE c == Header(n, Len(file))  new == Append(cells, c)  m == Len(cells)
  <1>1. Len(file) \in Nat /\ c \in CellSet /\ m \in Nat /\ m \in 0..Len(cells)
    <2>1. Len(file) \in 0..MaxVersion
      BY KeptFacts
    <2>2. QED
      BY <2>1, LenProperties, BoundsAssumption DEF CellSet, HeaderCells
  <1>2. Entries(cells) = EntriesTo(cells, m)
    BY <1>1, EntriesOf
  <1> HIDE DEF c
  <1>3. /\ new \in Seq(CellSet) /\ Len(new) = m + 1 /\ new[m + 1] = c
        /\ Formed(new, m) /\ EntriesTo(new, m) = EntriesTo(cells, m)
    BY <1>1, OneMoreCell
  <1> HIDE DEF new, m
  <1>4. Partly(new, m, n, file, 0)
    BY <1>1, <1>3 DEF Partly, c
  <1>5. m \in 0..Len(new)
    BY <1>1, <1>3
  <1>6. QED
    BY <1>2, <1>3, <1>4, <1>5 DEF new, m, c

LEMMA PartlyMore ==
    ASSUME NEW cells \in Seq(CellSet), NEW n \in Names, NEW file \in Kept(n), NEW done \in Nat, done < Len(file),
           NEW m \in 0..Len(cells), Partly(cells, m, n, file, done)
    PROVE  LET new == Append(cells, file[done + 1]) IN
           /\ new \in Seq(CellSet) /\ m \in 0..Len(new)
           /\ Partly(new, m, n, file, done + 1)
           /\ EntriesTo(new, m) = EntriesTo(cells, m)
  <1> DEFINE c == file[done + 1]  new == Append(cells, c)
  <1>1. Len(file) \in Nat /\ c \in CellSet /\ m \in Nat /\ Len(cells) \in Nat
    <2>1. Len(file) \in 0..MaxVersion /\ file \in Seq(DataCells)
      BY KeptFacts
    <2>2. Len(file) \in Nat /\ done + 1 \in 1..Len(file)
      BY <2>1, BoundsAssumption
    <2>3. file[done + 1] \in DataCells
      BY <2>1, <2>2, ElementOfSeq
    <2>4. QED
      BY <2>2, <2>3, LenProperties DEF CellSet
  <1>2. /\ Len(cells) = m + 1 + done /\ Formed(cells, m) /\ cells[m + 1] = Header(n, Len(file))
        /\ \A j \in 1..done : cells[m + 1 + j] = file[j]
    BY DEF Partly
  <1> HIDE DEF c
  <1>3. /\ new \in Seq(CellSet) /\ Len(new) = Len(cells) + 1 /\ new[Len(cells) + 1] = c
        /\ \A k \in 1..Len(cells) : new[k] = cells[k]
        /\ Formed(new, m) /\ EntriesTo(new, m) = EntriesTo(cells, m)
    BY <1>1, <1>2, OneMoreCell
  <1> HIDE DEF new
  <1>4. new[m + 1] = cells[m + 1] /\ \A j \in 1..done : new[m + 1 + j] = cells[m + 1 + j]
    <2>1. m + 1 \in 1..Len(cells)
      BY <1>1, <1>2
    <2>2. \A j \in 1..done : m + 1 + j \in 1..Len(cells)
      BY <1>1, <1>2
    <2>3. QED
      BY <1>3, <2>1, <2>2
  <1>5. \A j \in 1..(done + 1) : new[m + 1 + j] = file[j]
    <2> SUFFICES ASSUME NEW j \in 1..(done + 1) PROVE new[m + 1 + j] = file[j]
      OBVIOUS
    <2>1. CASE j \in 1..done
      BY <1>2, <1>4, <2>1
    <2>2. CASE j = done + 1
      BY <1>1, <1>2, <1>3, <2>2 DEF c
    <2>3. QED
      BY <2>1, <2>2
  <1>6. m \in 0..Len(new) /\ done + 1 \in 0..Len(file) /\ Len(new) = m + 1 + (done + 1)
    BY <1>1, <1>2, <1>3
  <1>7. Partly(new, m, n, file, done + 1)
    BY <1>2, <1>3, <1>4, <1>5, <1>6 DEF Partly
  <1>8. QED
    BY <1>3, <1>6, <1>7 DEF new, c

LEMMA PartlyDone ==
    ASSUME NEW cells \in Seq(CellSet), NEW n \in Names, NEW file \in Kept(n), NEW done,
           NEW m \in 0..Len(cells), Partly(cells, m, n, file, done)
    PROVE  /\ done \in 0..Len(file) /\ Len(cells) = m + 1 + done
           /\ done # Len(file) => Entries(cells) = EntriesTo(cells, m)
           /\ done = Len(file) =>
                /\ Formed(cells, Len(cells))
                /\ Entries(cells) = Append(EntriesTo(cells, m), [name |-> n, content |-> file])
                /\ EntriesTo(cells, Len(cells)) = Entries(cells)
  <1>1. /\ m \in Nat /\ done \in 0..Len(file) /\ Len(cells) = m + 1 + done
        /\ Formed(cells, m) /\ cells[m + 1] = Header(n, Len(file))
        /\ \A j \in 1..done : cells[m + 1 + j] = file[j]
    BY DEF Partly
  <1>2. Len(file) \in Nat
    BY KeptFacts, BoundsAssumption
  <1>3. done # Len(file) => done < Len(file)
    BY <1>1, <1>2
  <1>4. QED
    BY <1>1, <1>3, AddedSoFar

LEMMA PartlyFormed ==
    ASSUME NEW cells \in Seq(CellSet), NEW n \in Names, NEW file \in Kept(n),
           NEW m \in 0..Len(cells), Partly(cells, m, n, file, Len(file))
    PROVE  Formed(cells, Len(cells))
  <1> DEFINE done == Len(file)
  <1>1. Partly(cells, m, n, file, done) /\ done = Len(file)
    OBVIOUS
  <1> HIDE DEF done
  <1>2. QED
    BY <1>1, PartlyDone, ZenonT(30)

\* The cells that stay, one more cell on.
LEMMA NotOfMore ==
    ASSUME NEW cells \in Seq(CellSet), NEW n \in Names, NEW p \in 1..Len(cells)
    PROVE  /\ cells[p].name = n => NotOf(cells, n, p) = NotOf(cells, n, p - 1)
           /\ cells[p].name # n =>
                Picked(cells, NotOf(cells, n, p)) = Append(Picked(cells, NotOf(cells, n, p - 1)), cells[p])
  <1>1. p \in Nat /\ p - 1 \in Nat /\ \A k \in 1..p : k \in 1..(p - 1) \/ k = p
    OBVIOUS
  <1>2. p \in 1..p /\ p \notin 1..(p - 1) /\ \A k \in 1..(p - 1) : k \in 1..p
    BY <1>1
  <1> DEFINE S == NotOf(cells, n, p - 1)
  <1>3. ASSUME cells[p].name = n PROVE NotOf(cells, n, p) = S
    BY <1>1, <1>2, <1>3 DEF NotOf
  <1>4. ASSUME cells[p].name # n PROVE Picked(cells, NotOf(cells, n, p)) = Append(Picked(cells, S), cells[p])
    <2>1. NotOf(cells, n, p) = S \cup {p}
      BY <1>1, <1>2, <1>4 DEF NotOf
    <2>2. S \in SUBSET (1..(p - 1)) /\ IsFiniteSet(1..(p - 1))
      BY <1>1, FS_Interval DEF NotOf
    <2>3. IsFiniteSet(S) /\ S \in SUBSET Nat /\ \A h \in S : h < p
      BY <1>1, <2>2, FS_Subset
    <2>4. \A k \in S \cup {p} : cells[k] \in CellSet
      BY <1>1, <2>2, ElementOfSeq, LenProperties
    <2> HIDE DEF S
    <2>5. QED
      BY <1>1, <2>1, <2>3, <2>4, PickedMore
  <1>5. QED
    BY <1>3, <1>4

\* One whole entry on, in an archive that keeps the format.
LEMMA EntryMore ==
    ASSUME NEW cells \in Seq(CellSet), Formed(cells, Len(cells)), NEW e \in 1..Len(cells),
           Formed(cells, e - 1), cells[e].kind = "header", NEW n \in Names
    PROVE  LET b == e + cells[e].size IN
           /\ cells[e].size \in 0..MaxVersion /\ b \in e..Len(cells)
           /\ e \in Headers(cells, Len(cells))
           /\ Boundary(cells, b)
           /\ cells[e].name = n =>
                /\ HeadsOf(cells, n, b) = HeadsOf(cells, n, e - 1) \cup {e}
                /\ Files(cells, HeadsNot(cells, n, b)) = Files(cells, HeadsNot(cells, n, e - 1))
           /\ cells[e].name # n =>
                /\ HeadsOf(cells, n, b) = HeadsOf(cells, n, e - 1)
                /\ Files(cells, HeadsNot(cells, n, b)) =
                     Append(Files(cells, HeadsNot(cells, n, e - 1)), Entry(cells, e))
  <1> DEFINE size == cells[e].size  b == e + size
  <1>1. e \in Nat /\ e - 1 \in Nat /\ Len(cells) \in Nat /\ Len(cells) \in 0..Len(cells) /\ (e - 1) + 1 = e
    BY LenProperties
  <1>2. e \in Headers(cells, Len(cells))
    BY DEF Headers
  <1>3. /\ cells[e].name \in Names /\ size \in 0..MaxVersion /\ e + size <= Len(cells)
        /\ Content(cells, e) \in Kept(cells[e].name) /\ Entry(cells, e) \in EntrySet
    BY <1>1, <1>2, InFormed
  <1>4. size \in Nat /\ b \in e..Len(cells)
    BY <1>1, <1>3, BoundsAssumption
  <1>5. Formed(cells, b) /\ Headers(cells, b) = Headers(cells, e - 1) \cup {e}
    <2>1. /\ e - 1 \in 0..(Len(cells) - 1) /\ cells[(e - 1) + 1].kind = "header"
          /\ (e - 1) + 1 + cells[(e - 1) + 1].size <= Len(cells)
          /\ Content(cells, (e - 1) + 1) \in Kept(cells[(e - 1) + 1].name)
      BY <1>1, <1>3
    <2>2. LET end == (e - 1) + 1 + cells[(e - 1) + 1].size IN
          Formed(cells, end) /\ Headers(cells, end) = Headers(cells, e - 1) \cup {(e - 1) + 1}
      BY <2>1, FormedMore
    <2>3. QED
      BY <1>1, <2>2
  <1>6. b < Len(cells) => cells[b + 1].kind = "header"
    BY <1>2 DEF Formed
  <1>7. Boundary(cells, b)
    <2> HIDE DEF b
    <2>1. b \in 0..Len(cells)
      BY <1>1, <1>4
    <2>2. QED
      BY <1>5, <1>6, <2>1 DEF Boundary
  <1> DEFINE S == HeadsNot(cells, n, e - 1)
  <1> HIDE DEF size, b
  <1>8. ASSUME cells[e].name = n
        PROVE  HeadsOf(cells, n, b) = HeadsOf(cells, n, e - 1) \cup {e} /\ HeadsNot(cells, n, b) = S
    BY <1>5, <1>8 DEF HeadsOf, HeadsNot
  <1>9. ASSUME cells[e].name # n
        PROVE  HeadsOf(cells, n, b) = HeadsOf(cells, n, e - 1) /\ HeadsNot(cells, n, b) = S \cup {e}
    BY <1>5, <1>9 DEF HeadsOf, HeadsNot
  <1>10. Files(cells, S \cup {e}) = Append(Files(cells, S), Entry(cells, e))
    <2>1. Headers(cells, e - 1) \in SUBSET (1..(e - 1)) /\ IsFiniteSet(Headers(cells, e - 1)) /\ S \in SUBSET Headers(cells, e - 1)
      BY <1>1, HeadersKind DEF HeadsNot
    <2>2. IsFiniteSet(S) /\ S \in SUBSET Nat /\ \A k \in S : k < e
      BY <1>1, <2>1, FS_Subset
    <2>3. \A k \in S : Entry(cells, k) \in EntrySet
      <3>1. e - 1 \in 0..Len(cells)
        BY <1>1
      <3>2. QED
        BY <2>1, <3>1, InFormed
    <2> DEFINE f == [k \in S |-> Entry(cells, k)]  g == [k \in S \cup {e} |-> Entry(cells, k)]
    <2> HIDE DEF S
    <2>4. (\A k \in S \cup {e} : g[k] \in EntrySet) /\ g[e] = Entry(cells, e) /\ \A k \in S : g[k] = f[k]
      BY <1>3, <2>3
    <2> HIDE DEF f, g
    <2>5. Picked(g, S \cup {e}) = Append(Picked(g, S), g[e])
      BY <1>1, <2>2, <2>4, PickedMore
    <2>6. Picked(g, S) = Picked(f, S)
      BY <2>2, <2>4, PickedSame
    <2>7. QED
      BY <2>4, <2>5, <2>6 DEF Files, f, g
  <1>11. QED
    BY <1>2, <1>3, <1>4, <1>7, <1>8, <1>9, <1>10 DEF size, b

-----------------------------------------------------------------------------
(* The calls that may fail without leaving a header without its data, or   *)
(* data without a header.  The others do break the archive (line 139).     *)

Careful == Faults \cap {"openFile", "copyIn", "killAdd", "keepHeader", "readOut", "readKeep"} = {}

LEMMA MissingIsNothing ==
    /\ Missing \notin Seq(CellSet) /\ <<>> # Missing
    /\ \A n \in Names : Missing \notin Kept(n)
  <1>1. Missing[1] = [kind |-> "missing"] /\ Len(Missing) = 1
    BY DEF Missing
  <1>2. Missing \notin Seq(CellSet)
    <2>1. ASSUME Missing \in Seq(CellSet) PROVE FALSE
      <3>1. Missing[1] \in CellSet
        BY <1>1, <2>1, ElementOfSeq
      <3>2. QED
        BY <1>1, <3>1, CellKinds
    <2>2. QED
      BY <2>1
  <1>3. ASSUME NEW n \in Names PROVE Missing \notin Kept(n)
    <2>1. Kept(n) \subseteq Seq(CellSet)
      <3>1. \A c \in Kept(n) : c \in Seq(DataCells)
        BY KeptFacts
      <3>2. DataCells \subseteq CellSet
        BY DEF CellSet
      <3>3. QED
        BY <3>1, <3>2, SeqMonotonic
    <2>2. QED
      BY <1>2, <2>1
  <1>4. <<>> # Missing
    BY <1>1
  <1>5. QED
    BY <1>2, <1>3, <1>4

\* Nothing at all keeps the format, and no files are in it.
LEMMA NothingYet ==
    ASSUME NEW cells \in Seq(CellSet), NEW n
    PROVE  /\ Formed(cells, 0) /\ Headers(cells, 0) = {} /\ EntriesTo(cells, 0) = <<>>
           /\ NotOf(cells, n, 0) = {} /\ HeadsOf(cells, n, 0) = {} /\ HeadsNot(cells, n, 0) = {}
           /\ Picked(cells, {}) = <<>> /\ Files(cells, {}) = <<>>
  <1>1. 1..0 = {} /\ Cardinality({}) = 0
    BY FS_EmptySet
  <1>2. \A f : Picked(f, {}) = <<>>
    BY <1>1 DEF Picked
  <1>3. Headers(cells, 0) = {}
    BY DEF Headers
  <1>4. Formed(cells, 0)
    BY <1>3 DEF Formed
  <1>5. NotOf(cells, n, 0) = {} /\ HeadsOf(cells, n, 0) = {} /\ HeadsNot(cells, n, 0) = {}
    BY <1>3 DEF NotOf, HeadsOf, HeadsNot
  <1>6. QED
    BY <1>2, <1>3, <1>4, <1>5 DEF EntriesTo, Files

\* Between commands only the kinds and the format matter.
LEMMA IdleKeeps ==
    ASSUME Kinds', pc' = "idle", Format'
    PROVE  AInv'
  BY DEF AInv, Stages, Adding, Extracting

LEMMA AInit ==
    ASSUME Init
    PROVE  AInv
  <1>1. Kinds
    <2>1. 0 \in 0..MaxVersion /\ 0 \in 0..MaxCommands
      BY BoundsAssumption
    <2>2. disk = [n \in Names |-> disk[n]] /\ \A n \in Names : disk[n] = Missing
      BY DEF Init
    <2>3. /\ archive = Missing /\ temp = Missing /\ pc \in PC /\ name \in Names /\ pos = 1 /\ left = 0
          /\ found = FALSE /\ commands = 0
      BY DEF Init, PC
    <2>4. pos \in Nat \ {0} /\ left \in 0..MaxVersion /\ commands \in 0..MaxCommands
      BY <2>1, <2>3
    <2>0. found \in BOOLEAN
      BY <2>3
    <2> HIDE DEF Missing
    <2>5. QED
      BY <2>0, <2>2, <2>3, <2>4 DEF Kinds
  <1>2. Format
    <2>1. <<>> \in Seq(CellSet) /\ Len(<<>>) = 0
      BY EmptySeq
    <2>2. QED
      BY <2>1, NothingYet DEF Init, Format, Cells
  <1>3. QED
    BY <1>1, <1>2 DEF Init, AInv, Stages, Adding, Extracting

LEMMA EditKeeps ==
    ASSUME AInv, NEW n \in Names, Edit(n)
    PROVE  AInv'
  <1>1. PICK v \in 0..MaxVersion : disk' = [disk EXCEPT ![n] = Version(n, v)]
    BY DEF Edit
  <1>2. /\ pc = "idle" /\ archive' = archive /\ temp' = temp /\ pc' = pc /\ name' = name /\ pos' = pos
        /\ left' = left /\ found' = found /\ commands' = commands
    BY DEF Edit
  <1>3. Version(n, v) \in Kept(n)
    BY VersionIsKept
  <1>4. Kinds'
    BY <1>1, <1>2, <1>3 DEF AInv, Kinds
  <1>5. Format'
    BY <1>2 DEF AInv, Format, Cells
  <1>6. QED
    BY <1>2, <1>4, <1>5, IdleKeeps

LEMMA CommandKeeps ==
    ASSUME AInv, NEW n \in Names, Command(n)
    PROVE  AInv'
  <1>1. /\ pc = "idle" /\ pc' \in {"stat", "openRdwr"} /\ name' = n /\ disk' = disk /\ archive' = archive
        /\ temp' = temp /\ pos' = pos /\ left' = left /\ found' = found
        /\ commands < MaxCommands /\ commands' = commands + 1
    BY DEF Command, files
  <1>2. Kinds'
    <2>1. commands' \in 0..MaxCommands
      BY <1>1, BoundsAssumption DEF AInv, Kinds
    <2>2. QED
      BY <1>1, <2>1 DEF AInv, Kinds, PC
  <1>3. Format'
    BY <1>1 DEF AInv, Format, Cells
  <1>4. QED
    BY <1>1, <1>2, <1>3 DEF AInv, Stages, Adding, Extracting

\* The actions of `add` that come before the header.
LEMMA AddStartKeeps ==
    ASSUME AInv, AddStat \/ AddOpenArchive
    PROVE  AInv'
  <1>1. Format' /\ (archive' = archive \/ archive' = <<>>) /\ disk' = disk /\ temp' = temp
        /\ name' = name /\ pos' = pos /\ found' = found /\ commands' = commands
    <2>1. CASE AddStat
      BY <2>1 DEF AddStat, Return, GoTo, files, AInv, Format, Cells
    <2>2. CASE AddOpenArchive
      BY <2>2 DEF AddOpenArchive, Return, GoTo, files, AInv, Format, Cells
    <2>3. QED
      BY <2>1, <2>2
  <1>2. CASE pc' = "idle"
    <2>1. left' = left
      BY <1>2 DEF AddStat, AddOpenArchive, Return, GoTo
    <2>2. Kinds'
      BY <1>1, <1>2, <2>1, EmptySeq DEF AInv, Kinds, PC
    <2>3. QED
      BY <1>1, <1>2, <2>2, IdleKeeps
  <1>3. CASE AddStat /\ pc' # "idle"
    <2>1. pc' = "openArchive" /\ disk[name] # Missing /\ left' = Len(disk[name]) /\ archive' = archive
      BY <1>3 DEF AddStat, Return, GoTo, files
    <2>2. Len(disk[name]) \in 0..MaxVersion
      <3>1. name \in Names /\ disk[name] \in Kept(name)
        BY <2>1 DEF AInv, Kinds
      <3>2. QED
        BY <3>1, KeptFacts
    <2>3. Kinds'
      BY <1>1, <2>1, <2>2 DEF AInv, Kinds, PC
    <2>4. Stages'
      BY <1>1, <2>1 DEF Stages
    <2>5. Adding' /\ Extracting'
      BY <2>1 DEF Adding, Extracting
    <2>6. QED
      BY <1>1, <2>3, <2>4, <2>5 DEF AInv
  <1>4. CASE AddOpenArchive /\ pc' # "idle"
    <2>1. pc = "openArchive" /\ pc' = "writeHeader" /\ archive' = Cells /\ left' = left
      BY <1>4 DEF AddOpenArchive, Return, GoTo, Cells
    <2>2. Kinds' /\ archive' # Missing
      BY <1>1, <2>1, EmptySeq, MissingIsNothing DEF AInv, Kinds, PC, Cells
    <2>3. Stages'
      BY <1>1, <2>1, <2>2 DEF AInv, Stages
    <2>4. Adding' /\ Extracting'
      BY <2>1 DEF Adding, Extracting
    <2>5. QED
      BY <1>1, <2>2, <2>3, <2>4 DEF AInv
  <1>5. QED
    BY <1>2, <1>3, <1>4

\* Lines 132-137: the header, and what the archive lists for it.
LEMMA AddHeaderKeeps ==
    ASSUME AInv, AddHeader
    PROVE  /\ AInv'
           /\ \/ Entries(Cells)' = Entries(Cells)
              \/ Entries(Cells)' = Append(Entries(Cells), [name |-> name, content |-> disk[name]])
  <1>1. /\ pc = "writeHeader" /\ name \in Names /\ disk[name] # Missing /\ left = Len(disk[name])
        /\ archive # Missing /\ archive \in Seq(CellSet) /\ disk[name] \in Kept(name)
        /\ Formed(archive, Len(archive)) /\ Cells = archive
    BY DEF AddHeader, AInv, Kinds, Stages, Format, Cells
  <1>2. disk' = disk /\ temp' = temp /\ name' = name /\ pos' = pos /\ left' = left /\ found' = found /\ commands' = commands
    BY DEF AddHeader, Return
  <1>3. CASE pc' = "idle"
    <2>1. archive' = archive
      BY <1>3 DEF AddHeader, Return, GoTo
    <2>2. Kinds' /\ Format'
      BY <1>1, <1>2, <1>3, <2>1 DEF AInv, Kinds, PC, Format, Cells
    <2>3. Entries(Cells)' = Entries(Cells)
      BY <2>1 DEF Entries, Whole, Headers, Entry, Content, Cells
    <2>4. QED
      BY <1>3, <2>2, <2>3, IdleKeeps
  <1>4. CASE pc' # "idle"
    <2> DEFINE m == Len(archive)  new == Append(archive, Header(name, Len(disk[name])))
    <2>1. pc' = "openFile" /\ archive' = new
      BY <1>1, <1>4 DEF AddHeader, Return, GoTo
    <2>2. /\ new \in Seq(CellSet) /\ m \in 0..Len(new) /\ Partly(new, m, name, disk[name], 0)
          /\ EntriesTo(new, m) = Entries(archive)
      BY <1>1, PartlyStart
    <2> HIDE DEF m, new
    <2>3. Kinds' /\ archive' # Missing
      BY <1>2, <2>1, <2>2, MissingIsNothing DEF AInv, Kinds, PC
    <2>4. Stages'
      BY <1>1, <1>2, <2>1, <2>3 DEF Stages
    <2>5. Format' /\ Extracting'
      BY <2>1 DEF Format, Extracting
    <2>6. Adding'
      BY <1>2, <2>1, <2>2 DEF Adding
    <2>7. \/ Entries(new) = Entries(archive)
          \/ Entries(new) = Append(Entries(archive), [name |-> name, content |-> disk[name]])
      BY <1>1, <2>2, PartlyDone
    <2>8. Cells' = new
      BY <2>1, <2>3 DEF Cells
    <2>9. QED
      BY <1>1, <2>3, <2>4, <2>5, <2>6, <2>7, <2>8 DEF AInv
  <1>5. QED
    BY <1>3, <1>4

LEMMA AddOpenFileKeeps ==
    ASSUME Careful, AInv, AddOpenFile
    PROVE  AInv'
  <1>1. /\ pc = "openFile" /\ pc' = "copyIn" /\ pos' = 1 /\ disk' = disk /\ archive' = archive /\ temp' = temp
        /\ name' = name /\ left' = left /\ found' = found /\ commands' = commands
    BY DEF Careful, AddOpenFile, Fails, GoTo, files
  <1>2. PICK m \in 0..Len(archive) : Partly(archive, m, name, disk[name], 0)
    BY <1>1 DEF AInv, Adding
  <1>3. Kinds'
    BY <1>1 DEF AInv, Kinds, PC
  <1>4. Stages'
    BY <1>1 DEF AInv, Stages
  <1>5. Format' /\ Extracting'
    BY <1>1 DEF Format, Extracting
  <1>6. Adding'
    <2>1. pos' - 1 = 0
      BY <1>1
    <2>2. QED
      BY <1>1, <1>2, <2>1 DEF Adding
  <1>7. QED
    BY <1>3, <1>4, <1>5, <1>6 DEF AInv

\* Lines 148-168: a block, or the end.
LEMMA AddCopyKeeps ==
    ASSUME Careful, AInv, AddCopy
    PROVE  /\ AInv'
           /\ \/ Entries(Cells)' = Entries(Cells)
              \/ Entries(Cells)' = Append(Entries(Cells), [name |-> name, content |-> disk[name]])
  <1> DEFINE file == disk[name]  done == pos - 1
  <1>1. /\ pc = "copyIn" /\ name \in Names /\ file # Missing /\ archive # Missing /\ archive \in Seq(CellSet)
        /\ file \in Kept(name) /\ done \in Nat /\ Cells = archive /\ pos \in Nat
    BY DEF AddCopy, AInv, Kinds, Stages, Cells
  <1>2. PICK m \in 0..Len(archive) : Partly(archive, m, name, file, done)
    BY <1>1 DEF AInv, Adding
  <1>3. /\ disk' = disk /\ temp' = temp /\ name' = name /\ left' = left /\ found' = found /\ commands' = commands
    BY DEF AddCopy, Return
  <1>4. Len(file) \in Nat /\ done \in 0..Len(file)
    <2>1. Len(file) \in 0..MaxVersion
      BY <1>1, KeptFacts
    <2>2. QED
      BY <1>2, <2>1, BoundsAssumption DEF Partly
  <1>5. CASE CopiedAll /\ Return /\ UNCHANGED archive
    <2>1. pc' = "idle" /\ pos' = pos /\ archive' = archive
      BY <1>5 DEF Return
    <2>2. done = Len(file)
      BY <1>1, <1>4, <1>5 DEF CopiedAll
    <2>3. Formed(archive, Len(archive))
      <3> HIDE DEF file, done
      <3>1. archive \in Seq(CellSet) /\ name \in Names /\ file \in Kept(name)
        BY <1>1
      <3>2. Partly(archive, m, name, file, Len(file))
        BY <1>2, <2>2
      <3>3. QED
        BY <3>1, <3>2, PartlyFormed
    <2>4. Kinds' /\ Format'
      BY <1>1, <1>3, <2>1, <2>3 DEF AInv, Kinds, PC, Format, Cells
    <2>5. Entries(Cells)' = Entries(Cells)
      BY <2>1 DEF Entries, Whole, Headers, Entry, Content, Cells
    <2>6. QED
      BY <2>1, <2>4, <2>5, IdleKeeps
  <1>6. CASE ~CopiedAll
    <2> DEFINE new == Append(archive, file[done + 1])
    <2>1. pc' = pc /\ pos' = pos + 1 /\ archive' = new /\ done < Len(file) /\ pos = done + 1
      <3>1. archive' = Append(archive, disk[name][pos]) /\ pos' = pos + 1 /\ pc' = pc
        BY <1>6 DEF AddCopy, Careful, Fails
      <3>2. pos = done + 1 /\ done < Len(file)
        BY <1>1, <1>4, <1>6 DEF CopiedAll
      <3>3. QED
        BY <3>1, <3>2
    <2>2. /\ new \in Seq(CellSet) /\ m \in 0..Len(new) /\ Partly(new, m, name, file, done + 1)
          /\ EntriesTo(new, m) = EntriesTo(archive, m)
      <3> HIDE DEF file, done
      <3>1. QED
        BY <1>1, <1>2, <2>1, PartlyMore
    <2>3. done # Len(file)
      BY <1>1, <1>4, <2>1
    <2>4. Entries(archive) = EntriesTo(archive, m)
      <3> HIDE DEF file, done
      <3>1. QED
        BY <1>1, <1>2, <2>3, PartlyDone
    <2>5. \/ Entries(new) = EntriesTo(new, m)
          \/ Entries(new) = Append(EntriesTo(new, m), [name |-> name, content |-> file])
      <3> DEFINE next == done + 1
      <3> HIDE DEF file, done, new, next
      <3>1. Partly(new, m, name, file, next)
        BY <2>2 DEF next
      <3>2. QED
        BY <1>1, <2>2, <3>1, PartlyDone
    <2> HIDE DEF new
    <2>6. Kinds' /\ archive' # Missing
      BY <1>1, <1>3, <2>1, <2>2, MissingIsNothing DEF AInv, Kinds
    <2>7. Stages'
      BY <1>1, <1>3, <2>1, <2>6 DEF AInv, Stages
    <2>8. Format' /\ Extracting'
      BY <1>1, <2>1 DEF Format, Extracting
    <2>9. Adding'
      <3>1. pos' - 1 = done + 1 /\ disk'[name'] = file
        BY <1>1, <1>3, <2>1
      <3> HIDE DEF done, file
      <3>2. QED
        BY <1>1, <1>3, <2>1, <2>2, <3>1 DEF Adding
    <2>10. Cells' = new
      BY <2>1, <2>6 DEF Cells
    <2>11. QED
      BY <1>1, <2>2, <2>4, <2>5, <2>6, <2>7, <2>8, <2>9, <2>10 DEF AInv
  <1>7. QED
    BY <1>5, <1>6 DEF AddCopy, Careful, Fails

LEMMA ExtractOpenKeeps ==
    ASSUME AInv, ExtractOpen
    PROVE  AInv'
  <1>1. /\ pc = "openRdwr" /\ disk' = disk /\ archive' = archive /\ temp' = temp /\ name' = name /\ pos' = pos
        /\ left' = left /\ found' = found /\ commands' = commands
    BY DEF ExtractOpen, Return, files
  <1>2. pc' = "idle" \/ (pc' = "openTemp" /\ archive # Missing)
    BY DEF ExtractOpen, Return, GoTo
  <1>3. Kinds' /\ Format'
    BY <1>1, <1>2 DEF AInv, Kinds, PC, Format, Cells
  <1>4. Stages' /\ Adding' /\ Extracting'
    BY <1>1, <1>2 DEF Stages, Adding, Extracting
  <1>5. QED
    BY <1>3, <1>4 DEF AInv

\* Lines 178-188: nothing has been read yet.
LEMMA ExtractOpenTempKeeps ==
    ASSUME AInv, ExtractOpenTemp
    PROVE  AInv'
  <1>1. /\ pc = "openTemp" /\ disk' = disk /\ archive' = archive /\ name' = name
        /\ left' = left /\ commands' = commands
    BY DEF ExtractOpenTemp, Return, files
  <1>2. CASE pc' = "idle"
    <2>1. temp' = temp /\ pos' = pos /\ found' = found
      BY <1>2 DEF ExtractOpenTemp, Return, GoTo
    <2>2. Kinds' /\ Format'
      BY <1>1, <1>2, <2>1 DEF AInv, Kinds, PC, Format, Cells
    <2>3. QED
      BY <1>2, <2>2, IdleKeeps
  <1>3. CASE pc' # "idle"
    <2>1. pc' = "readEntry" /\ temp' = <<>> /\ pos' = 1 /\ found' = FALSE
      BY <1>3 DEF ExtractOpenTemp, FreshTemp, Return, GoTo
    <2>2. archive # Missing /\ archive \in Seq(CellSet) /\ Formed(archive, Len(archive)) /\ Len(archive) \in Nat
      BY <1>1, LenProperties DEF AInv, Kinds, Stages, Format, Cells
    <2>3. Kinds' /\ Format'
      <3>1. temp' \in Seq(CellSet) /\ pos' \in Nat \ {0}
        BY <2>1, EmptySeq
      <3>2. found' \in BOOLEAN
        BY <2>1
      <3>3. QED
        BY <1>1, <2>1, <3>1, <3>2 DEF AInv, Kinds, PC, Format, Cells
    <2>4. Stages'
      BY <1>1, <2>1, <2>2, MissingIsNothing DEF Stages
    <2>5. Adding'
      BY <2>1 DEF Adding
    <2>6. Extracting'
      <3>1. pos' - 1 = 0 /\ Len(temp') = 0 /\ temp' \in Seq(CellSet)
        BY <2>1, EmptySeq
      <3>2. temp' = Picked(archive', NotOf(archive', name', pos' - 1))
        BY <1>1, <2>1, <2>2, <3>1, NothingYet
      <3>3. Boundary(archive, 0)
        BY <2>2, NothingYet DEF Boundary, Formed
      <3>4. Formed(temp', Len(temp')) /\ EntriesTo(temp', Len(temp')) = Files(archive', HeadsNot(archive', name', pos' - 1))
        BY <1>1, <2>1, <2>2, <3>1, NothingYet
      <3>5. HeadsOf(archive', name', pos' - 1) = {} /\ ~found'
        BY <1>1, <2>1, <2>2, <3>1, NothingYet
      <3>6. Between'
        BY <1>1, <3>1, <3>3, <3>4, <3>5 DEF Between, TempHas, LastCopy
      <3>7. QED
        BY <2>1, <3>2, <3>6 DEF Extracting
    <2>7. QED
      BY <2>3, <2>4, <2>5, <2>6 DEF AInv
  <1>4. QED
    BY <1>2, <1>3

\* Of the entry at e the reader has read what is before p, and `rest` blocks are left.
HalfRead(cells, e, p, rest) ==
    LET done == p - 1 - e
        file == Content(cells, e)
    IN  /\ cells[e].name \in Names /\ file \in Kept(cells[e].name)
        /\ Len(file) = cells[e].size /\ file = [j \in 1..cells[e].size |-> cells[e + j]]
        /\ done \in 0..Len(file) /\ p <= Len(cells) + 1
        /\ rest = 0 <=> done = Len(file)
        /\ rest = 0 => p - 1 = e + cells[e].size
        /\ p > Len(cells) => rest = 0
        /\ rest # 0 =>
             /\ done < Len(file) /\ p \in 1..Len(cells)
             /\ file[done + 1] = cells[p] /\ cells[p].name = cells[e].name
             /\ p = e + (done + 1)

LEMMA InEntry ==
    ASSUME NEW cells \in Seq(CellSet), Formed(cells, Len(cells)), NEW e \in 1..Len(cells), cells[e].kind = "header",
           NEW p \in Nat, e < p, NEW rest \in Nat, p + rest = e + 1 + cells[e].size
    PROVE  HalfRead(cells, e, p, rest)
  <1> DEFINE size == cells[e].size  done == p - 1 - e  file == Content(cells, e)
  <1>1. Len(cells) \in Nat /\ Len(cells) \in 0..Len(cells) /\ e \in Headers(cells, Len(cells)) /\ e \in Nat
    BY LenProperties DEF Headers
  <1>2. /\ cells[e].name \in Names /\ size \in 0..MaxVersion /\ e + size <= Len(cells)
        /\ file \in Kept(cells[e].name) /\ Len(file) = size
        /\ \A j \in 1..size : file[j] = cells[e + j] /\ cells[e + j].name = cells[e].name
    BY <1>1, InFormed
  <1>3. size \in Nat
    BY <1>2, BoundsAssumption
  <1>4. /\ done \in 0..size /\ p <= Len(cells) + 1 /\ (rest = 0 <=> done = size)
        /\ (rest = 0 => p - 1 = e + size) /\ (p > Len(cells) => rest = 0)
        /\ (rest # 0 => done + 1 \in 1..size /\ p = e + (done + 1) /\ p \in 1..Len(cells))
    <2>0. p + rest = e + 1 + size
      OBVIOUS
    <2> HIDE DEF size
    <2>1. done = size - rest /\ done >= 0 /\ rest \in Nat
      BY <1>1, <1>3, <2>0
    <2>2. QED
      BY <1>1, <1>2, <1>3, <2>1
  <1> HIDE DEF done
  <1>5. rest # 0 => done < size /\ file[done + 1] = cells[p] /\ cells[p].name = cells[e].name
    <2> SUFFICES ASSUME rest # 0
                 PROVE  done < size /\ file[done + 1] = cells[p] /\ cells[p].name = cells[e].name
      OBVIOUS
    <2> HIDE DEF size, file
    <2>1. done \in 0..size /\ done + 1 \in 1..size /\ p = e + (done + 1)
      BY <1>4
    <2>2. file[done + 1] = cells[p] /\ cells[p].name = cells[e].name
      BY <1>2, <2>1
    <2>3. done < size
      BY <1>3, <2>1
    <2>4. QED
      BY <2>2, <2>3
  <1>6. file = [j \in 1..size |-> cells[e + j]]
    <2> HIDE DEF file
    <2>1. file \in Seq(DataCells)
      BY <1>2, KeptFacts
    <2>2. file \in [1..size -> DataCells]
      BY <1>2, <2>1, LenProperties
    <2>3. \A j \in 1..size : file[j] = cells[e + j]
      BY <1>2
    <2> HIDE DEF size
    <2>4. QED
      BY <2>2, <2>3
  <1>7. QED
    BY <1>2, <1>4, <1>5, <1>6 DEF done, HalfRead

\* Lines 190-203 and 236.
LEMMA ExtractReadKeeps ==
    ASSUME Careful, AInv, ExtractRead
    PROVE  AInv'
  <1>0. PICK e : e = pos
    OBVIOUS
  <1>1. /\ pc = "readEntry" /\ name \in Names /\ archive # Missing /\ archive \in Seq(CellSet) /\ Formed(archive, Len(archive))
        /\ temp # Missing /\ temp \in Seq(CellSet) /\ e \in Nat \ {0} /\ e <= Len(archive)
        /\ temp = Picked(archive, NotOf(archive, name, e - 1))
        /\ Boundary(archive, e - 1) /\ TempHas(e - 1) /\ LastCopy(e - 1)
    BY <1>0 DEF ExtractRead, AInv, Kinds, Stages, Format, Extracting, Between, Cells
  <1>2. Len(archive) \in Nat /\ e \in 1..Len(archive) /\ e \in Nat /\ (e - 1) + 1 = e
    BY <1>1, LenProperties
  <1>3. archive[e].kind = "header" /\ Formed(archive, e - 1)
    <2>1. e - 1 < Len(archive)
      BY <1>2
    <2>2. QED
      BY <1>1, <1>2, <2>1 DEF Boundary
  <1>4. /\ archive[e] \in CellSet /\ archive[e].name \in Names /\ archive[e].size \in 0..MaxVersion
        /\ archive[e] = Header(archive[e].name, archive[e].size)
    <2>1. archive[e] \in CellSet
      BY <1>1, <1>2, ElementOfSeq
    <2>2. QED
      BY <1>3, <2>1, CellKinds
  <1>5. EntriesAt(archive[e]) = {archive[e]}
    BY <1>3 DEF EntriesAt
  <1>6. archive' = archive /\ name' = name /\ commands' = commands
    BY DEF ExtractRead, ExtractEntry, KeepEntry
  <1>7. ExtractEntry(archive[e]) \/ KeepEntry(archive[e])
    BY <1>0, <1>5 DEF ExtractRead
  <1>8. ASSUME pc' \in {"copyOut", "keep"}, pos' = e + 1, left' = archive[e].size
        PROVE  Entered(e)' /\ pos' - 1 = e /\ pos' - 1 - e = 0
    <2>1. /\ e < pos' /\ pos' + left' = e + 1 + archive[e].size /\ pos' - 1 = e /\ pos' - 1 - e = 0
      <3>1. archive[e].size \in Nat
        BY <1>4, BoundsAssumption
      <3>2. QED
        BY <1>2, <1>8, <3>1
    <2>2. Boundary(archive', e - 1)
      BY <1>1, <1>6
    <2>3. Boundary(archive', e - 1) /\ archive'[e].kind = "header"
      BY <1>3, <1>6, <2>2
    <2>4. QED
      BY <1>6, <2>1, <2>3 DEF Entered
  <1>9. CASE pc' = "idle"
    <2>1. /\ disk' = disk /\ temp' = temp /\ pos' = pos /\ left' = left /\ found' = TRUE
      BY <1>0, <1>7, <1>9 DEF ExtractEntry, KeepEntry, GoTo
    <2>2. found' \in BOOLEAN
      BY <2>1
    <2>3. Kinds' /\ Format'
      BY <1>1, <1>6, <1>9, <2>1, <2>2 DEF AInv, Kinds, PC, Format, Cells
    <2>4. QED
      BY <1>9, <2>3, IdleKeeps
  <1>10. CASE pc' = "copyOut"
    <2>1. /\ archive[e].name = name /\ disk' = [disk EXCEPT ![name] = <<>>] /\ temp' = temp
          /\ pos' = e + 1 /\ left' = archive[e].size /\ found' = TRUE
      BY <1>0, <1>7, <1>10 DEF ExtractEntry, KeepEntry, GoTo
    <2>2. Entered(e)' /\ pos' - 1 = e /\ pos' - 1 - e = 0
      BY <1>8, <1>10, <2>1
    <2>3. Kinds'
      <3>1. found' \in BOOLEAN /\ found'
        BY <2>1
      <3>2. pos' \in Nat \ {0}
        BY <1>1, <2>1
      <3>3. <<>> \in Kept(name)
        BY <1>1, VersionIsKept
      <3>4. disk' = [n \in Names |-> disk'[n]] /\ \A n \in Names : disk'[n] = Missing \/ disk'[n] \in Kept(n)
        BY <1>1, <2>1, <3>3 DEF AInv, Kinds
      <3>5. pc' \in PC /\ name' \in Names /\ left' \in 0..MaxVersion
        BY <1>1, <1>4, <1>6, <1>10, <2>1 DEF PC
      <3>6. QED
        BY <1>1, <1>6, <2>1, <3>1, <3>2, <3>4, <3>5 DEF AInv, Kinds
    <2>4. Format' /\ Stages' /\ Adding'
      BY <1>1, <1>6, <1>10, <2>1 DEF Format, Stages, Adding, Cells
    <2>5. temp' = Picked(archive', NotOf(archive', name', pos' - 1))
      <3>1. NotOf(archive, name, e) = NotOf(archive, name, e - 1)
        BY <1>1, <1>2, <2>1, NotOfMore
      <3>2. QED
        BY <1>1, <1>6, <2>1, <2>2, <3>1
    <2>6. CopyingOut(e)'
      <3>1. disk'[name'] = <<>>
        BY <1>1, <1>6, <2>1 DEF AInv, Kinds
      <3>2. [j \in 1..(pos' - 1 - e) |-> archive'[e + j]] = <<>>
        BY <2>2
      <3>3. TempHas(e - 1)'
        BY <1>1, <1>6, <2>1 DEF TempHas
      <3>4. found' /\ archive'[e].name = name'
        BY <1>6, <2>1
      <3>5. QED
        BY <1>6, <2>2, <3>1, <3>2, <3>3, <3>4 DEF CopyingOut
    <2>7. Extracting'
      BY <1>2, <1>6, <1>10, <2>5, <2>6 DEF Extracting
    <2>8. QED
      BY <2>3, <2>4, <2>7 DEF AInv
  <1>11. CASE pc' = "keep"
    <2>1. /\ archive[e].name # name /\ disk' = disk /\ temp' = Append(temp, archive[e])
          /\ pos' = e + 1 /\ left' = archive[e].size /\ found' = found
      BY <1>0, <1>7, <1>11 DEF ExtractEntry, KeepEntry, GoTo, Careful, Fails
    <2>2. Entered(e)' /\ pos' - 1 = e /\ pos' - 1 - e = 0
      BY <1>8, <1>11, <2>1
    <2> DEFINE n == archive[e].name  file == Content(archive, e)  new == Append(temp, archive[e])  t == Len(temp)
    <2>3. n \in Names /\ file \in Kept(n) /\ archive[e] = Header(n, Len(file))
      <3>1. e \in Headers(archive, Len(archive)) /\ Len(archive) \in 0..Len(archive)
        BY <1>2, <1>3 DEF Headers
      <3>2. file \in Kept(n) /\ Len(file) = archive[e].size
        BY <1>1, <3>1, InFormed
      <3>3. QED
        BY <1>4, <3>2
    <2>4. /\ new \in Seq(CellSet) /\ t \in 0..Len(new) /\ Partly(new, t, n, file, 0)
          /\ EntriesTo(new, t) = EntriesTo(temp, t)
      <3>1. Formed(temp, Len(temp))
        BY <1>1 DEF TempHas
      <3> HIDE DEF n, file
      <3>2. QED
        BY <1>1, <2>3, <3>1, PartlyStart
    <2>5. EntriesTo(temp, t) = Files(archive, HeadsNot(archive, name, e - 1))
      BY <1>1 DEF TempHas
    <2>6. Picked(archive, NotOf(archive, name, e)) = new
      BY <1>1, <1>2, <2>1, NotOfMore
    <2> HIDE DEF new, t
    <2>7. temp' = new
      BY <2>1 DEF new
    <2>8. Kinds' /\ temp' # Missing
      <3>1. pos' \in Nat \ {0} /\ left' \in 0..MaxVersion /\ pc' \in PC
        BY <1>1, <1>4, <1>11, <2>1 DEF PC
      <3>2. QED
        BY <1>1, <1>6, <2>1, <2>4, <2>7, <3>1, MissingIsNothing DEF AInv, Kinds
    <2>9. Format' /\ Stages' /\ Adding'
      BY <1>1, <1>6, <1>11, <2>8 DEF Format, Stages, Adding, Cells
    <2>10. Keeping(e)'
      <3>1. LastCopy(e - 1)'
        BY <1>1, <1>6, <2>1 DEF LastCopy
      <3>2. Partly(temp', t, archive'[e].name, Content(archive', e), pos' - 1 - e) /\ t \in 0..Len(temp')
        BY <1>6, <2>2, <2>4, <2>7
      <3>3. EntriesTo(temp', t) = Files(archive', HeadsNot(archive', name', e - 1))
        BY <1>6, <2>4, <2>5, <2>7
      <3>4. archive'[e].name # name'
        BY <1>6, <2>1
      <3>5. QED
        BY <2>2, <3>1, <3>2, <3>3, <3>4 DEF Keeping
    <2>11. Extracting'
      <3>1. temp' = Picked(archive', NotOf(archive', name', pos' - 1))
        BY <1>6, <2>2, <2>6, <2>7
      <3>2. QED
        BY <1>2, <1>6, <1>11, <2>10, <3>1 DEF Extracting
    <2>12. QED
      BY <2>8, <2>9, <2>11 DEF AInv
  <1>12. QED
    BY <1>7, <1>9, <1>10, <1>11 DEF ExtractEntry, KeepEntry, GoTo

LEMMA ExtractLastKeeps ==
    ASSUME AInv, ExtractLast
    PROVE  AInv'
  <1>1. /\ pc = "readEntry" /\ pc' = "replace" /\ (pos > Len(archive) \/ Fails("readHeader"))
        /\ disk' = disk /\ archive' = archive /\ temp' = temp /\ name' = name /\ pos' = pos /\ left' = left /\ found' = found /\ commands' = commands
    BY DEF ExtractLast, GoTo, files
  <1>2. /\ archive # Missing /\ archive \in Seq(CellSet) /\ temp # Missing /\ pos \in Nat \ {0}
        /\ temp = Picked(archive, NotOf(archive, name, pos - 1)) /\ Between
    BY <1>1 DEF AInv, Kinds, Stages, Extracting
  <1>3. Kinds' /\ Format'
    BY <1>1 DEF AInv, Kinds, PC, Format, Cells
  <1>4. Stages' /\ Adding'
    BY <1>1, <1>2 DEF Stages, Adding
  <1>5. pos' = Len(archive') + 1 \/ Fails("readHeader")
    <2>1. pos - 1 \in 0..Len(archive) /\ Len(archive) \in Nat
      BY <1>2, LenProperties DEF Between, Boundary
    <2>2. QED
      BY <1>1, <1>2, <2>1
  <1>6. temp' = Picked(archive', NotOf(archive', name', pos' - 1))
    BY <1>1, <1>2
  <1>7. Between'
    BY <1>1, <1>2 DEF Between, TempHas, LastCopy
  <1>8. Extracting'
    BY <1>1, <1>5, <1>6, <1>7 DEF Extracting
  <1>9. QED
    BY <1>3, <1>4, <1>8 DEF AInv

\* What both copying loops work on: the entry at e, of the name n, is being copied.
LEMMA Copying ==
    ASSUME AInv, pc \in {"copyOut", "keep"}, NEW e \in 1..Len(archive), Entered(e)
    PROVE  /\ name \in Names /\ archive # Missing /\ archive \in Seq(CellSet)
           /\ Formed(archive, Len(archive)) /\ Formed(archive, e - 1) /\ archive[e].kind = "header"
           /\ temp # Missing /\ temp \in Seq(CellSet)
           /\ pos \in Nat /\ left \in Nat /\ e < pos /\ pos + left = e + 1 + archive[e].size
           /\ temp = Picked(archive, NotOf(archive, name, pos - 1))
           /\ EndOfEntry <=> left = 0
           /\ pos <= Len(archive) + 1
           /\ LET done == pos - 1 - e  file == Content(archive, e) IN
              /\ archive[e].name \in Names /\ file \in Kept(archive[e].name)
              /\ file \in Seq(DataCells) /\ Len(file) \in Nat /\ done \in 0..Len(file)
              /\ Len(file) = archive[e].size /\ file = [j \in 1..archive[e].size |-> archive[e + j]]
              /\ left = 0 => pos - 1 = e + archive[e].size /\ done = Len(file)
              /\ left # 0 =>
                   /\ done < Len(file) /\ pos \in 1..Len(archive)
                   /\ file[done + 1] = archive[pos] /\ archive[pos].name = archive[e].name
                   /\ pos = e + (done + 1)
  <1>1. /\ name \in Names /\ archive # Missing /\ archive \in Seq(CellSet)
        /\ Formed(archive, Len(archive)) /\ Formed(archive, e - 1) /\ archive[e].kind = "header"
        /\ temp # Missing /\ temp \in Seq(CellSet)
        /\ temp = Picked(archive, NotOf(archive, name, pos - 1))
    BY DEF AInv, Kinds, Stages, Format, Extracting, Entered, Boundary, Cells
  <1>2. pos \in Nat /\ left \in Nat /\ e < pos /\ pos + left = e + 1 + archive[e].size
    BY BoundsAssumption DEF AInv, Kinds, Entered
  <1>0. HalfRead(archive, e, pos, left)
    BY <1>1, <1>2, InEntry
  <1>3. LET done == pos - 1 - e  file == Content(archive, e) IN
        /\ archive[e].name \in Names /\ file \in Kept(archive[e].name)
        /\ Len(file) = archive[e].size /\ file = [j \in 1..archive[e].size |-> archive[e + j]]
        /\ done \in 0..Len(file) /\ pos <= Len(archive) + 1
        /\ left = 0 <=> done = Len(file)
        /\ left = 0 => pos - 1 = e + archive[e].size
        /\ pos > Len(archive) => left = 0
        /\ left # 0 =>
             /\ done < Len(file) /\ pos \in 1..Len(archive)
             /\ file[done + 1] = archive[pos] /\ archive[pos].name = archive[e].name
             /\ pos = e + (done + 1)
    BY <1>0 DEF HalfRead
  <1>4. Content(archive, e) \in Seq(DataCells) /\ Len(Content(archive, e)) \in 0..MaxVersion
    BY <1>3, KeptFacts
  <1>5. Len(Content(archive, e)) \in Nat
    BY <1>4, BoundsAssumption
  <1>6. EndOfEntry <=> left = 0
    BY <1>3 DEF EndOfEntry
  <1>7. QED
    BY <1>1, <1>2, <1>3, <1>4, <1>5, <1>6

\* Lines 205 and 239: the loop ends.
LEMMA CopyEnds ==
    ASSUME AInv, pc \in {"copyOut", "keep"}, EndOfEntry, pc' = "readEntry",
           UNCHANGED <<disk, archive, temp, name, pos, left, found, commands>>
    PROVE  AInv'
  <1>1. /\ disk' = disk /\ archive' = archive /\ temp' = temp /\ name' = name /\ pos' = pos /\ left' = left
        /\ found' = found /\ commands' = commands
    OBVIOUS
  <1>2. PICK e \in 1..Len(archive) : Entered(e) /\ (pc = "copyOut" => CopyingOut(e)) /\ (pc = "keep" => Keeping(e))
    BY DEF AInv, Extracting, CopyingOut, Keeping
  <1>3. /\ name \in Names /\ archive # Missing /\ archive \in Seq(CellSet)
        /\ Formed(archive, Len(archive)) /\ Formed(archive, e - 1) /\ archive[e].kind = "header"
        /\ temp # Missing /\ temp \in Seq(CellSet)
        /\ pos \in Nat /\ left \in Nat /\ e < pos /\ pos + left = e + 1 + archive[e].size
        /\ temp = Picked(archive, NotOf(archive, name, pos - 1))
        /\ left = 0
    BY <1>2, Copying
  <1> DEFINE b == e + archive[e].size  n == archive[e].name  file == Content(archive, e)
  <1>4. /\ pos - 1 = b /\ n \in Names /\ file \in Kept(n) /\ Len(file) = archive[e].size
        /\ file = [j \in 1..archive[e].size |-> archive[e + j]] /\ pos - 1 - e = Len(file)
    BY <1>2, <1>3, Copying
  <1>5. /\ Boundary(archive, b)
        /\ n = name =>
             /\ HeadsOf(archive, name, b) = HeadsOf(archive, name, e - 1) \cup {e}
             /\ Files(archive, HeadsNot(archive, name, b)) = Files(archive, HeadsNot(archive, name, e - 1))
        /\ n # name =>
             /\ HeadsOf(archive, name, b) = HeadsOf(archive, name, e - 1)
             /\ Files(archive, HeadsNot(archive, name, b)) =
                  Append(Files(archive, HeadsNot(archive, name, e - 1)), Entry(archive, e))
    BY <1>3, EntryMore
  <1> HIDE DEF b
  <1>6. TempHas(b) /\ LastCopy(b)
    <2>1. CASE pc = "copyOut"
      <3>1. n = name /\ found /\ disk[name] = [j \in 1..(pos - 1 - e) |-> archive[e + j]] /\ TempHas(e - 1)
        BY <1>2, <2>1 DEF CopyingOut
      <3>2. disk[name] = file
        BY <1>4, <3>1
      <3>3. \A h \in HeadsOf(archive, name, b) : h <= e
        <4>1. e \in Nat /\ e - 1 \in Nat /\ HeadsOf(archive, name, e - 1) \in SUBSET (1..(e - 1))
          BY DEF HeadsOf, Headers
        <4>2. QED
          BY <1>5, <3>1, <4>1
      <3>4. LastCopy(b)
        BY <1>5, <3>1, <3>2, <3>3 DEF LastCopy
      <3>5. TempHas(b)
        BY <1>5, <3>1 DEF TempHas
      <3>6. QED
        BY <3>4, <3>5
    <2>2. CASE pc = "keep"
      <3>1. n # name /\ LastCopy(e - 1)
        BY <1>2, <2>2 DEF Keeping
      <3>2. PICK t \in 0..Len(temp) :
              /\ Partly(temp, t, n, file, pos - 1 - e)
              /\ EntriesTo(temp, t) = Files(archive, HeadsNot(archive, name, e - 1))
        BY <1>2, <2>2 DEF Keeping
      <3>3. /\ Formed(temp, Len(temp))
            /\ Entries(temp) = Append(EntriesTo(temp, t), [name |-> n, content |-> file])
            /\ EntriesTo(temp, Len(temp)) = Entries(temp)
        <4> HIDE DEF n, file
        <4> DEFINE done == pos - 1 - e
        <4>1. Partly(temp, t, n, file, done) /\ done = Len(file)
          BY <1>4, <3>2
        <4> HIDE DEF done
        <4>2. QED
          BY <1>3, <1>4, <4>1, PartlyDone
      <3>4. Entry(archive, e) = [name |-> n, content |-> file]
        BY DEF Entry
      <3>5. TempHas(b)
        BY <1>5, <3>1, <3>2, <3>3, <3>4 DEF TempHas
      <3>6. LastCopy(b)
        BY <1>5, <3>1 DEF LastCopy
      <3>7. QED
        BY <3>5, <3>6
    <2>3. QED
      BY <2>1, <2>2
  <1>7. Kinds' /\ Format' /\ Stages' /\ Adding'
    BY <1>1, <1>3 DEF AInv, Kinds, PC, Format, Stages, Adding, Cells
  <1>8. Between
    BY <1>4, <1>5, <1>6 DEF Between
  <1>9. Between'
    BY <1>1, <1>8 DEF Between, TempHas, LastCopy
  <1>10. temp' = Picked(archive', NotOf(archive', name', pos' - 1))
    BY <1>1, <1>3
  <1>11. Extracting'
    BY <1>9, <1>10 DEF Extracting
  <1>12. QED
    BY <1>7, <1>11 DEF AInv

\* Lines 213-221: a block of the file sought.
LEMMA CopyOutKeeps ==
    ASSUME AInv, pc = "copyOut", ~EndOfEntry,
           disk' = [disk EXCEPT ![name] = Append(@, archive[pos])], pos' = pos + 1, left' = left - 1,
           UNCHANGED <<archive, temp, pc, name, found, commands>>
    PROVE  AInv'
  <1>1. /\ archive' = archive /\ temp' = temp /\ name' = name /\ pc' = pc /\ found' = found /\ commands' = commands
    OBVIOUS
  <1>2. PICK e \in 1..Len(archive) : CopyingOut(e)
    BY DEF AInv, Extracting
  <1>3. /\ Entered(e) /\ archive[e].name = name /\ found /\ TempHas(e - 1)
        /\ disk[name] = [j \in 1..(pos - 1 - e) |-> archive[e + j]]
    BY <1>2 DEF CopyingOut
  <1>4. /\ name \in Names /\ archive # Missing /\ archive \in Seq(CellSet)
        /\ Formed(archive, Len(archive)) /\ Formed(archive, e - 1) /\ archive[e].kind = "header"
        /\ temp # Missing /\ temp \in Seq(CellSet)
        /\ pos \in Nat /\ left \in Nat /\ e < pos /\ pos + left = e + 1 + archive[e].size
        /\ temp = Picked(archive, NotOf(archive, name, pos - 1))
        /\ left # 0
    BY <1>3, Copying
  <1> DEFINE done == pos - 1 - e  file == Content(archive, e)
  <1>5. /\ file \in Kept(name) /\ file \in Seq(DataCells) /\ Len(file) \in Nat /\ Len(file) = archive[e].size /\ file = [j \in 1..archive[e].size |-> archive[e + j]]
        /\ done \in 0..Len(file) /\ done < Len(file) /\ pos \in 1..Len(archive)
        /\ file[done + 1] = archive[pos] /\ archive[pos].name = name /\ pos = e + (done + 1)
    BY <1>3, <1>4, Copying
  <1> DEFINE k == done + 1
  <1>6. disk'[name] = [j \in 1..k |-> file[j]] /\ [j \in 1..k |-> file[j]] = [j \in 1..k |-> archive[e + j]]
    <2>1. Len(file) \in Nat /\ file \in Seq(DataCells)
      BY <1>5
    <2>2. done \in Nat /\ k \in 1..Len(file) /\ \A j \in 1..k : file[j] = archive[e + j] /\ file[j] \in DataCells
      <3>1. done \in Nat /\ k \in 1..Len(file)
        BY <1>5, <2>1
      <3> HIDE DEF k, done, file
      <3>2. \A j \in 1..k : j \in 1..archive[e].size
        BY <1>5, <2>1, <3>1
      <3>3. QED
        BY <1>5, <2>1, <3>1, <3>2, ElementOfSeq
    <2>3. disk[name] = [j \in 1..done |-> file[j]]
      <3>1. \A j \in 1..done : j \in 1..k
        BY <2>2
      <3> HIDE DEF file, k
      <3>2. QED
        BY <1>3, <2>2, <3>1
    <2>4. disk'[name] = Append(disk[name], file[k])
      BY <1>4, <1>5 DEF AInv, Kinds
    <2> HIDE DEF file, done
    <2>5. Append([j \in 1..done |-> file[j]], file[done + 1]) = [j \in 1..(done + 1) |-> file[j]]
      BY <2>2
    <2>6. QED
      BY <2>2, <2>3, <2>4, <2>5
  <1>7. [j \in 1..k |-> file[j]] \in Kept(name)
    <2>1. k \in 0..Len(file)
      <3> HIDE DEF file, done
      <3>1. QED
        BY <1>5
    <2>2. \A n \in Names : \A c \in Kept(n) : \A i \in 0..Len(c) : [j \in 1..i |-> c[j]] \in Kept(n)
      BY KeptFacts
    <2> HIDE DEF file, k
    <2>3. QED
      BY <1>4, <1>5, <2>1, <2>2
  <1>8. Kinds'
    <2>1. pos' \in Nat \ {0} /\ left' \in 0..MaxVersion
      <3>1. left \in 0..MaxVersion
        BY DEF AInv, Kinds
      <3>2. QED
        BY <1>4, <3>1, BoundsAssumption
    <2>2. disk' = [n \in Names |-> disk'[n]] /\ \A n \in Names : disk'[n] = Missing \/ disk'[n] \in Kept(n)
      <3>1. disk'[name] \in Kept(name)
        BY <1>6, <1>7
      <3>2. QED
        BY <1>4, <3>1 DEF AInv, Kinds
    <2>3. QED
      BY <1>1, <2>1, <2>2 DEF AInv, Kinds
  <1>9. Format' /\ Stages' /\ Adding'
    BY <1>1, <1>4 DEF AInv, Format, Stages, Adding, Cells
  <1>10. pos' - 1 = pos /\ pos' - 1 - e = k
    BY <1>4
  <1>11. temp' = Picked(archive', NotOf(archive', name', pos' - 1))
    <2>1. NotOf(archive, name, pos) = NotOf(archive, name, pos - 1)
      BY <1>4, <1>5, NotOfMore
    <2>2. QED
      BY <1>1, <1>4, <1>10, <2>1
  <1>12. CopyingOut(e)'
    <2>1. Entered(e)'
      <3>1. e < pos' /\ pos' + left' = e + 1 + archive[e].size
        BY <1>4
      <3>2. QED
        BY <1>1, <1>3, <3>1 DEF Entered
    <2>2. disk'[name'] = [j \in 1..(pos' - 1 - e) |-> archive'[e + j]]
      <3> HIDE DEF k
      <3>1. QED
        BY <1>1, <1>6, <1>10
    <2>3. TempHas(e - 1)'
      BY <1>1, <1>3 DEF TempHas
    <2>4. QED
      BY <1>1, <1>3, <2>1, <2>2, <2>3 DEF CopyingOut
  <1>13. Extracting'
    BY <1>1, <1>11, <1>12 DEF Extracting
  <1>14. QED
    BY <1>8, <1>9, <1>13 DEF AInv

\* Lines 244-251: a block of a file that stays.
LEMMA KeepKeeps ==
    ASSUME AInv, pc = "keep", ~EndOfEntry,
           temp' = Append(temp, archive[pos]), pos' = pos + 1, left' = left - 1,
           UNCHANGED <<disk, archive, pc, name, found, commands>>
    PROVE  AInv'
  <1>1. /\ archive' = archive /\ disk' = disk /\ name' = name /\ pc' = pc /\ found' = found /\ commands' = commands
    OBVIOUS
  <1>2. PICK e \in 1..Len(archive) : Keeping(e)
    BY DEF AInv, Extracting
  <1> DEFINE n == archive[e].name  done == pos - 1 - e  file == Content(archive, e)
  <1>3. Entered(e) /\ n # name /\ LastCopy(e - 1)
    BY <1>2 DEF Keeping
  <1>4. PICK t \in 0..Len(temp) :
          /\ Partly(temp, t, n, file, done)
          /\ EntriesTo(temp, t) = Files(archive, HeadsNot(archive, name, e - 1))
    BY <1>2 DEF Keeping
  <1>5. /\ name \in Names /\ archive # Missing /\ archive \in Seq(CellSet)
        /\ Formed(archive, Len(archive)) /\ Formed(archive, e - 1) /\ archive[e].kind = "header"
        /\ temp # Missing /\ temp \in Seq(CellSet)
        /\ pos \in Nat /\ left \in Nat /\ e < pos /\ pos + left = e + 1 + archive[e].size
        /\ temp = Picked(archive, NotOf(archive, name, pos - 1))
        /\ left # 0
    BY <1>3, Copying
  <1>6. /\ n \in Names /\ file \in Kept(n) /\ done \in 0..Len(file) /\ done < Len(file) /\ pos \in 1..Len(archive)
        /\ file[done + 1] = archive[pos] /\ archive[pos].name = n /\ pos = e + (done + 1)
    BY <1>3, <1>5, Copying
  <1>7. /\ temp' \in Seq(CellSet) /\ t \in 0..Len(temp') /\ Partly(temp', t, n, file, done + 1)
        /\ EntriesTo(temp', t) = EntriesTo(temp, t)
    <2> HIDE DEF n, done, file
    <2>1. /\ temp' = Append(temp, file[done + 1]) /\ done \in Nat /\ done < Len(file)
          /\ n \in Names /\ file \in Kept(n)
      BY <1>6
    <2>2. temp \in Seq(CellSet) /\ Partly(temp, t, n, file, done)
      BY <1>4, <1>5
    <2>3. QED
      BY <2>1, <2>2, PartlyMore
  <1>8. Kinds' /\ temp' # Missing
    <2>1. pos' \in Nat \ {0} /\ left' \in 0..MaxVersion
      <3>1. left \in 0..MaxVersion
        BY DEF AInv, Kinds
      <3>2. pos \in Nat /\ left # 0
        BY <1>5
      <3>3. QED
        BY <3>1, <3>2, BoundsAssumption
    <2>2. QED
      BY <1>1, <1>7, <2>1, MissingIsNothing DEF AInv, Kinds
  <1>9. Format' /\ Stages' /\ Adding'
    BY <1>1, <1>5, <1>8 DEF AInv, Format, Stages, Adding, Cells
  <1>10. pos' - 1 = pos /\ pos' - 1 - e = done + 1
    <2>1. pos \in Nat /\ e \in Nat
      BY <1>5
    <2>2. QED
      BY <2>1
  <1>11. temp' = Picked(archive', NotOf(archive', name', pos' - 1))
    <2>1. archive[pos].name # name
      BY <1>3, <1>6
    <2>2. Picked(archive, NotOf(archive, name, pos)) = Append(Picked(archive, NotOf(archive, name, pos - 1)), archive[pos])
      BY <1>5, <1>6, <2>1, NotOfMore
    <2>3. QED
      BY <1>1, <1>5, <1>10, <2>2
  <1>12. Keeping(e)'
    <2>1. Entered(e)'
      <3>1. e < pos' /\ pos' + left' = e + 1 + archive[e].size
        BY <1>5
      <3>2. QED
        BY <1>1, <1>3, <3>1 DEF Entered
    <2>2. LastCopy(e - 1)'
      BY <1>1, <1>3 DEF LastCopy
    <2>3. Partly(temp', t, archive'[e].name, Content(archive', e), pos' - 1 - e)
      BY <1>1, <1>7, <1>10
    <2>4. EntriesTo(temp', t) = Files(archive', HeadsNot(archive', name', e - 1))
      BY <1>1, <1>4, <1>7
    <2>5. QED
      BY <1>1, <1>3, <1>7, <2>1, <2>2, <2>3, <2>4 DEF Keeping
  <1>13. Extracting'
    BY <1>1, <1>11, <1>12 DEF Extracting
  <1>14. QED
    BY <1>8, <1>9, <1>13 DEF AInv

LEMMA ExtractCopyKeeps ==
    ASSUME Careful, AInv, ExtractCopy
    PROVE  AInv'
  <1>1. pc \in {"copyOut", "keep"} /\ archive' = archive /\ name' = name /\ found' = found /\ commands' = commands
    BY DEF ExtractCopy
  <1>2. CASE EndOfEntry /\ GoTo("readEntry") /\ UNCHANGED <<disk, temp, pos, left>>
    BY <1>1, <1>2, CopyEnds DEF GoTo
  <1>3. CASE GoTo("idle") /\ UNCHANGED <<disk, temp, pos, left>>
    <2>1. /\ pc' = "idle" /\ disk' = disk /\ temp' = temp /\ pos' = pos /\ left' = left
      BY <1>3 DEF GoTo
    <2>2. Kinds' /\ Format'
      BY <1>1, <2>1 DEF AInv, Kinds, PC, Format, Cells
    <2>3. QED
      BY <2>1, <2>2, IdleKeeps
  <1>4. CASE /\ ~EndOfEntry
             /\ IF pc = "copyOut"
                THEN disk' = [disk EXCEPT ![name] = Append(@, archive[pos])] /\ temp' = temp
                ELSE temp' = Append(temp, archive[pos]) /\ disk' = disk
             /\ pos' = pos + 1 /\ left' = left - 1
             /\ UNCHANGED pc
    <2>1. CASE pc = "copyOut"
      BY <1>1, <1>4, <2>1, CopyOutKeeps
    <2>2. CASE pc = "keep"
      BY <1>1, <1>4, <2>2, KeepKeeps
    <2>3. QED
      BY <1>1, <2>1, <2>2
  <1>5. ~ReadCutShort
    BY DEF Careful, Fails, ReadCutShort
  <1>6. QED
    BY <1>2, <1>3, <1>4, <1>5 DEF ExtractCopy

\* Lines 258-269: what is there of the part of the archive that was read, the first
\* m cells.
LEMMA AtReplace ==
    ASSUME AInv, pc = "replace"
    PROVE  /\ name \in Names /\ archive # Missing /\ archive \in Seq(CellSet) /\ Len(archive) \in Nat
           /\ Cells = archive /\ Formed(archive, Len(archive))
           /\ pos - 1 \in 0..Len(archive) /\ Formed(archive, pos - 1)
           /\ pos - 1 = Len(archive) \/ Fails("readHeader")
           /\ temp # Missing /\ temp \in Seq(CellSet) /\ Formed(temp, Len(temp)) /\ Len(temp) \in Nat
           /\ temp = Picked(archive, NotOf(archive, name, pos - 1))
           /\ Entries(temp) = Files(archive, HeadsNot(archive, name, pos - 1))
           /\ LastCopy(pos - 1)
  <1>1. /\ name \in Names /\ archive # Missing /\ archive \in Seq(CellSet) /\ Cells = archive
        /\ Formed(archive, Len(archive)) /\ temp # Missing /\ temp \in Seq(CellSet)
        /\ temp = Picked(archive, NotOf(archive, name, pos - 1)) /\ Between
        /\ pos = Len(archive) + 1 \/ Fails("readHeader")
    BY DEF AInv, Kinds, Stages, Format, Extracting, Cells
  <1>2. Len(archive) \in Nat /\ Len(temp) \in Nat
    BY <1>1, LenProperties
  <1>3. pos - 1 = Len(archive) \/ Fails("readHeader")
    BY <1>1, <1>2
  <1>4. TempHas(pos - 1) /\ LastCopy(pos - 1) /\ pos - 1 \in 0..Len(archive) /\ Formed(archive, pos - 1)
    BY <1>1 DEF Between, Boundary
  <1>5. /\ Formed(temp, Len(temp))
        /\ EntriesTo(temp, Len(temp)) = Files(archive, HeadsNot(archive, name, pos - 1))
    BY <1>4 DEF TempHas
  <1>6. Entries(temp) = EntriesTo(temp, Len(temp))
    <2>1. Len(temp) \in 0..Len(temp)
      BY <1>2
    <2>2. QED
      BY <1>1, <1>5, <2>1, EntriesOf
  <1>7. QED
    BY <1>1, <1>2, <1>3, <1>4, <1>5, <1>6

LEMMA ExtractReplaceKeeps ==
    ASSUME AInv, ExtractReplace
    PROVE  AInv' /\ (archive' = archive \/ archive' = temp)
  <1>1. /\ pc = "replace" /\ pc' = "idle" /\ disk' = disk /\ name' = name /\ pos' = pos /\ left' = left
        /\ found' = found /\ commands' = commands
    BY DEF ExtractReplace, Return
  <1>2. (archive' = archive \/ archive' = temp) /\ (temp' = temp \/ temp' = Missing)
    BY DEF ExtractReplace
  <1>3. /\ archive # Missing /\ archive \in Seq(CellSet) /\ Formed(archive, Len(archive))
        /\ temp # Missing /\ temp \in Seq(CellSet) /\ Formed(temp, Len(temp))
    BY <1>1, AtReplace
  <1>4. Kinds'
    BY <1>1, <1>2, <1>3 DEF AInv, Kinds, PC
  <1>5. Cells' = archive' /\ Formed(archive', Len(archive'))
    BY <1>2, <1>3 DEF Cells
  <1>6. Format'
    BY <1>5 DEF Format
  <1>7. QED
    BY <1>1, <1>2, <1>4, <1>6, IdleKeeps

LEMMA KilledKeeps ==
    ASSUME Careful, AInv, Killed
    PROVE  AInv'
  <1>1. /\ pc' = "idle" /\ disk' = disk /\ archive' = archive /\ temp' = temp /\ name' = name /\ pos' = pos
        /\ left' = left /\ found' = found /\ commands' = commands
    BY DEF Killed, Return, files
  <1>2. pc \notin {"openFile", "copyIn"}
    BY DEF Killed, Careful, Fails, KillOf, AddStages
  <1>3. Kinds' /\ Format'
    BY <1>1, <1>2 DEF AInv, Kinds, PC, Format, Cells
  <1>4. QED
    BY <1>1, <1>3, IdleKeeps

LEMMA AStep ==
    ASSUME Careful, AInv, [Next]_vars
    PROVE  AInv'
  <1>1. ASSUME NEW n \in Names, Edit(n) PROVE AInv'
    BY <1>1, EditKeeps
  <1>2. ASSUME NEW n \in Names, Command(n) PROVE AInv'
    BY <1>2, CommandKeeps
  <1>3. CASE AddStep
    BY <1>3, AddStartKeeps, AddHeaderKeeps, AddOpenFileKeeps, AddCopyKeeps DEF AddStep
  <1>4. CASE ExtractStep
    BY <1>4, ExtractOpenKeeps, ExtractOpenTempKeeps, ExtractReadKeeps, ExtractLastKeeps, ExtractCopyKeeps,
       ExtractReplaceKeeps DEF ExtractStep
  <1>5. CASE Killed
    BY <1>5, KilledKeeps
  <1>6. CASE UNCHANGED vars
    <2>1. /\ pc' = pc /\ disk' = disk /\ archive' = archive /\ temp' = temp /\ name' = name /\ pos' = pos
          /\ left' = left /\ found' = found /\ commands' = commands
      BY <1>6 DEF vars, files
    <2>2. Kinds' /\ Stages' /\ Format'
      BY <2>1 DEF AInv, Kinds, Stages, Format, Cells
    <2>3. Adding'
      BY <2>1 DEF AInv, Adding
    <2>4. (Between' <=> Between) /\ \A e : (CopyingOut(e)' <=> CopyingOut(e)) /\ (Keeping(e)' <=> Keeping(e))
      BY <2>1 DEF Between, CopyingOut, Keeping, Entered, TempHas, LastCopy
    <2>5. Extracting'
      BY <2>1, <2>4 DEF AInv, Extracting
    <2>6. QED
      BY <2>2, <2>3, <2>5 DEF AInv
  <1>7. QED
    BY <1>1, <1>2, <1>3, <1>4, <1>5, <1>6 DEF Next

LEMMA AInvariance ==
    ASSUME Careful
    PROVE  Spec => []AInv
  <1>1. Init => AInv
    BY AInit
  <1>2. AInv /\ [Next]_vars => AInv'
    BY AStep
  <1>3. QED
    BY <1>1, <1>2, PTL DEF Spec

-----------------------------------------------------------------------------
LEMMA ATypes ==
    ASSUME AInv
    PROVE  TypeOK
  <1>1. /\ pc \in PC /\ name \in Names /\ pos \in Nat \ {0} /\ left \in 0..MaxVersion /\ found \in BOOLEAN
        /\ commands \in 0..MaxCommands
    BY DEF AInv, Kinds
  <1>2. \A n \in Names : disk[n] = Missing \/ \A k \in DOMAIN disk[n] : disk[n][k].name = n
    <2> SUFFICES ASSUME NEW n \in Names, disk[n] \in Kept(n), NEW k \in DOMAIN disk[n] PROVE disk[n][k].name = n
      BY DEF AInv, Kinds
    <2>1. disk[n] \in Seq(DataCells) /\ \A j \in 1..Len(disk[n]) : disk[n][j].name = n
      BY KeptFacts
    <2>2. QED
      BY <2>1, LenProperties
  <1>3. ASSUME pc = "copyIn" PROVE pos <= Len(disk[name]) + 1
    <2>1. disk[name] \in Kept(name)
      BY <1>1, <1>3 DEF AInv, Kinds, Stages
    <2>2. Len(disk[name]) \in Nat
      BY <1>1, <2>1, KeptFacts, BoundsAssumption
    <2>3. pos - 1 \in 0..Len(disk[name])
      BY <1>3 DEF AInv, Adding, Partly
    <2>4. QED
      BY <1>1, <2>2, <2>3
  <1>4. ASSUME pc \in {"readEntry", "copyOut", "keep", "replace"} PROVE pos <= Len(Cells) + 1
    <2>1. archive # Missing /\ archive \in Seq(CellSet) /\ Cells = archive
      BY <1>4 DEF AInv, Kinds, Stages, Cells
    <2>2. CASE pc \in {"readEntry", "replace"}
      <3>1. pos - 1 \in 0..Len(archive)
        BY <2>2 DEF AInv, Extracting, Between, Boundary
      <3>2. QED
        BY <1>1, <2>1, <3>1, LenProperties
    <2>3. CASE pc \in {"copyOut", "keep"}
      <3>1. PICK e \in 1..Len(archive) : Entered(e)
        BY <2>3 DEF AInv, Extracting, CopyingOut, Keeping
      <3>2. QED
        BY <2>1, <2>3, <3>1, Copying
    <2>4. QED
      BY <1>4, <2>2, <2>3
  <1>5. QED
    BY <1>1, <1>2, <1>3, <1>4 DEF TypeOK

LEMMA NothingIsLost ==
    ASSUME AInv
    PROVE  NothingLost
  <1> SUFFICES ASSUME pc = "replace", found
               PROVE  /\ \E k \in HeadsOf(Cells, name, pos - 1) :
                          /\ disk[name] = Content(Cells, k)
                          /\ \A h \in HeadsOf(Cells, name, pos - 1) : h <= k
                      /\ temp = Picked(Cells, NotOf(Cells, name, pos - 1))
                      /\ Formed(Cells, pos - 1)
                      /\ pos > Len(Cells) \/ Fails("readHeader")
    BY DEF NothingLost
  <1>1. /\ Cells = archive /\ Len(archive) \in Nat /\ Formed(archive, pos - 1)
        /\ temp = Picked(archive, NotOf(archive, name, pos - 1)) /\ LastCopy(pos - 1)
        /\ pos - 1 = Len(archive) \/ Fails("readHeader")
    BY AtReplace
  <1>2. \E k \in HeadsOf(archive, name, pos - 1) :
          /\ disk[name] = Content(archive, k)
          /\ \A h \in HeadsOf(archive, name, pos - 1) : h <= k
    BY <1>1 DEF LastCopy
  <1>3. pos > Len(archive) \/ Fails("readHeader")
    <2>1. pos \in Nat
      BY DEF AInv, Kinds
    <2>2. QED
      BY <1>1, <2>1
  <1>4. QED
    BY <1>1, <1>2, <1>3

\* CommandInv for every set of names, every length of files and any number of
\* commands, when no copying loop is cut short (Careful): what add and extract read is
\* there to be read, and when line 264 replaces the archive, the file extracted is on
\* disk and all the others that were read are in temp_archive.  These are all others
\* of the archive unless reading a header fails.
THEOREM CommandsAreSafe ==
    ASSUME Careful
    PROVE  Spec => []CommandInv
  <1>1. AInv => CommandInv
    BY ATypes, NothingIsLost DEF CommandInv
  <1>2. QED
    BY <1>1, AInvariance, PTL

\* ArchiveFormat: no sequence of commands leaves anything but whole entries in the
\* archive, each with the data of a file of its name, unless a call fails or the
\* program is killed after line 133 has written the header, or an extraction drops a
\* header (line 236) or fails to read the data behind one (lines 209 and 243).
THEOREM ArchiveStaysFormed ==
    ASSUME Careful
    PROVE  Spec => []ArchiveFormat
  <1>1. AInv => ArchiveFormat
    BY DEF AInv, Format, ArchiveFormat
  <1>2. QED
    BY <1>1, AInvariance, PTL

-----------------------------------------------------------------------------
(* The archive is a shelf.                                                 *)

LEMMA StoreOperators ==
    \A f, S : Store!Picked(f, S) = Picked(f, S)
  <1>1. \A S : Store!Cardinality(S) = Cardinality(S)
    BY DEF Cardinality, Store!Cardinality
  <1>2. \A S, k : Store!Rank(S, k) = Rank(S, k)
    BY <1>1 DEF Rank, Store!Rank
  <1>3. \A S, i : Store!Nth(S, i) = Nth(S, i)
    BY <1>2 DEF Nth, Store!Nth
  <1>4. QED
    BY <1>1, <1>3 DEF Picked, Store!Picked

\* Replacing the archive takes all copies of the name off the shelf, and what lies
\* behind the place where reading has stopped.
LEMMA ReplaceTakes ==
    ASSUME AInv, pc = "replace", found, Entries(Cells)' = Entries(temp)
    PROVE  Store!Take(name)
  <1> DEFINE p == pos - 1  W == Headers(archive, Len(archive))  T == HeadsNot(archive, name, p)
             f == [k \in W |-> Entry(archive, k)]  m == Rank(W, p)
             I == {i \in 1..Cardinality(W) : Nth(W, i) \in T}
  <1>1. /\ name \in Names /\ archive \in Seq(CellSet) /\ Len(archive) \in Nat
        /\ Cells = archive /\ Formed(archive, Len(archive))
        /\ p \in 0..Len(archive) /\ (p = Len(archive) \/ Fails("readHeader"))
        /\ Entries(temp) = Files(archive, T) /\ LastCopy(p)
    BY AtReplace
  <1>2. p \in Nat
    BY <1>1
  <1>3. W \in SUBSET Nat /\ IsFiniteSet(W) /\ T = {k \in W : k <= p /\ archive[k].name # name}
    <2>1. W \in SUBSET Nat /\ IsFiniteSet(W)
      BY <1>1, HeadersKind
    <2>2. QED
      BY <1>1, <2>1 DEF HeadsNot, Headers
  <1>4. T \in SUBSET W /\ IsFiniteSet(T) /\ T \in SUBSET Nat
    <2>1. T \in SUBSET W
      BY <1>3
    <2>2. QED
      BY <1>3, <2>1, FS_Subset
  <1>5. Files(archive, T) = Picked(f, T)
    <2> DEFINE g == [k \in T |-> Entry(archive, k)]
    <2>1. \A k \in T : g[k] = f[k]
      BY <1>4
    <2> HIDE DEF T, f, g
    <2>2. Picked(g, T) = Picked(f, T)
      BY <1>4, <2>1, PickedSame
    <2>3. QED
      BY <2>2 DEF Files, g
  <1>6. Picked(Picked(f, W), I) = Picked(f, T)
    <2> HIDE DEF W, T, f
    <2>1. QED
      BY <1>3, <1>4, PickedTwice
  <1>7. Entries(Cells) = Picked(f, W)
    <2>1. Len(archive) \in 0..Len(archive)
      BY <1>1
    <2>2. Whole(archive) = W
      BY <1>1, <2>1, EntriesOf
    <2>3. QED
      BY <1>1, <2>2 DEF Entries
  <1>8. Cardinality(W) \in Nat /\ m \in 0..Cardinality(W) /\ Len(Entries(Cells)) = Cardinality(W)
    <2>1. Cardinality(W) \in Nat /\ m \in 0..Cardinality(W)
      BY <1>2, <1>3, RankKind
    <2>2. QED
      BY <1>7, <2>1 DEF Picked
  <1>9. ASSUME NEW i \in 1..Cardinality(W)
        PROVE  /\ Nth(W, i) \in W /\ Rank(W, Nth(W, i)) = i
               /\ Entries(Cells)[i].name = archive[Nth(W, i)].name
    <2>1. Nth(W, i) \in W /\ Rank(W, Nth(W, i)) = i
      BY <1>3, NthOfRank
    <2>2. Entries(Cells)[i] = Entry(archive, Nth(W, i))
      BY <1>7, <2>1 DEF Picked
    <2>3. QED
      BY <2>1, <2>2 DEF Entry
  <1> HIDE DEF p, W, T, f, m
  <1>10. I = {i \in 1..m : Entries(Cells)[i].name # name}
    <2>1. ASSUME NEW i \in 1..Cardinality(W)
          PROVE  Nth(W, i) \in T <=> i <= m /\ Entries(Cells)[i].name # name
      <3>1. Nth(W, i) <= p <=> i <= m
        <4>1. Nth(W, i) \in W /\ Rank(W, Nth(W, i)) = i
          BY <1>9
        <4>2. \A k \in W : k <= p <=> Rank(W, k) <= Rank(W, p)
          BY <1>2, <1>3, RankUpTo
        <4>3. QED
          BY <4>1, <4>2 DEF m
      <3>2. QED
        BY <1>3, <1>9, <3>1
    <2>2. \A i \in 1..m : i \in 1..Cardinality(W)
      BY <1>8
    <2>3. \A i \in 1..Cardinality(W) : i <= m => i \in 1..m
      BY <1>8
    <2>4. \A i \in 1..m : i <= m
      BY <1>8
    <2>5. QED
      BY <2>1, <2>2, <2>3, <2>4
  <1>11. \E i \in 1..m : Entries(Cells)[i].name = name
    <2>1. PICK k \in HeadsOf(archive, name, p) : TRUE
      BY <1>1 DEF LastCopy
    <2>2. k \in W /\ k <= p /\ archive[k].name = name
      BY <1>1, <1>2, <2>1 DEF HeadsOf, Headers, W
    <2>3. Rank(W, k) \in 1..Cardinality(W) /\ Rank(W, k) <= m /\ Nth(W, Rank(W, k)) = k
      BY <1>2, <1>3, <2>2, RankKind, RankUpTo, NthOfRank DEF m
    <2>4. Rank(W, k) \in 1..m
      BY <1>8, <2>3
    <2>5. Entries(Cells)[Rank(W, k)].name = name
      BY <1>9, <2>2, <2>3
    <2>6. QED
      BY <2>4, <2>5
  <1>12. m \in 1..Len(Entries(Cells))
    BY <1>8, <1>11
  <1>13. m = Len(Entries(Cells)) \/ Fails("readHeader")
    <2> SUFFICES ASSUME p = Len(archive) PROVE m = Cardinality(W)
      BY <1>1, <1>8
    <2>1. W = {h \in W : h <= p}
      BY <1>1 DEF W, Headers
    <2>2. QED
      BY <2>1 DEF m, Rank
  <1>14. Entries(temp) = Store!Others(name, m)
    <2>1. Store!Others(name, m) = Picked(Entries(Cells), I)
      BY <1>10, StoreOperators DEF Store!Others
    <2>2. QED
      BY <1>1, <1>5, <1>6, <1>7, <2>1
  <1>15. QED
    BY <1>11, <1>12, <1>13, <1>14 DEF Store!Take

\* One step of the program is one of the shelf or none.
LEMMA StoreStep ==
    ASSUME Careful, AInv, [Next]_vars
    PROVE  [Store!ShelfNext]_(Entries(Cells))
  <1>1. CASE archive' = archive
    <2>1. Entries(Cells)' = Entries(Cells)
      BY <1>1 DEF Entries, Whole, Headers, Entry, Content, Cells
    <2>2. QED
      BY <2>1
  <1>2. CASE AddOpenArchive
    <2>1. Cells' = Cells
      BY <1>2 DEF AddOpenArchive, Cells
    <2>2. Entries(Cells)' = Entries(Cells)
      BY <2>1 DEF Entries, Whole, Headers, Entry, Content
    <2>3. QED
      BY <2>2
  <1>3. CASE AddHeader \/ AddCopy
    <2>1. \/ Entries(Cells)' = Entries(Cells)
          \/ Entries(Cells)' = Append(Entries(Cells), [name |-> name, content |-> disk[name]])
      BY <1>3, AddHeaderKeeps, AddCopyKeeps
    <2>2. name \in Names /\ disk[name] \in Contents
      <3>1. name \in Names /\ disk[name] \in Kept(name)
        BY <1>3 DEF AddHeader, AddCopy, AInv, Kinds, Stages
      <3>2. QED
        BY <3>1, KeptFacts
    <2>3. CASE Entries(Cells)' = Append(Entries(Cells), [name |-> name, content |-> disk[name]])
      <3>1. Store!Put(name)
        BY <2>2, <2>3 DEF Store!Put
      <3>2. QED
        BY <2>2, <3>1 DEF Store!ShelfNext
    <2>4. QED
      BY <2>1, <2>3
  <1>4. CASE ExtractReplace /\ archive' # archive
    <2>1. pc = "replace" /\ archive' = temp /\ found
      BY <1>4 DEF ExtractReplace
    <2>2. temp # Missing /\ name \in Names
      BY <2>1, AtReplace
    <2>3. Cells' = temp
      BY <2>1, <2>2 DEF Cells
    <2>4. Entries(Cells)' = Entries(temp)
      BY <2>3 DEF Entries, Whole, Headers, Entry, Content
    <2>5. Store!Take(name)
      BY <2>1, <2>4, ReplaceTakes
    <2>6. QED
      BY <2>2, <2>5 DEF Store!ShelfNext
  <1>5. archive' = archive \/ AddOpenArchive \/ AddHeader \/ AddCopy \/ (ExtractReplace /\ archive' # archive)
    <2>1. ASSUME NEW n \in Names, Edit(n) \/ Command(n) PROVE archive' = archive
      BY <2>1 DEF Edit, Command, files
    <2>2. AddStat \/ AddOpenFile \/ Killed \/ ExtractOpen => archive' = archive
      BY DEF AddStat, AddOpenFile, Killed, ExtractOpen, files
    <2>3. ExtractOpenTemp \/ ExtractRead \/ ExtractLast \/ ExtractCopy => archive' = archive
      BY DEF ExtractOpenTemp, ExtractRead, ExtractEntry, KeepEntry, ExtractLast, ExtractCopy, files
    <2>4. UNCHANGED vars => archive' = archive
      BY DEF vars, files
    <2>5. QED
      BY <2>1, <2>2, <2>3, <2>4 DEF Next, AddStep, ExtractStep
  <1>6. QED
    BY <1>1, <1>2, <1>3, <1>4, <1>5

\* ShelfSpec: whatever happens to it, the archive holds the files that were added and
\* not taken, in the order they were added, and each with all its data; a failure or a
\* kill before the header is written or during an extraction changes nothing.  Only an
\* extraction that has found its file, and then fails to read a header, loses others,
\* and those are the ones behind.
THEOREM ArchiveImplementsShelf ==
    ASSUME Careful
    PROVE  Spec => ShelfSpec
  <1>1. Init => Store!ShelfInit
    <2> SUFFICES ASSUME Init PROVE Entries(Cells) = <<>>
      BY DEF Store!ShelfInit
    <2>1. Cells = <<>> /\ <<>> \in Seq(CellSet) /\ Len(<<>>) = 0 /\ 0 \in 0..Len(<<>>)
      BY EmptySeq DEF Init, Cells
    <2>2. Formed(<<>>, 0) /\ EntriesTo(<<>>, 0) = <<>>
      BY <2>1, NothingYet
    <2>3. Entries(<<>>) = EntriesTo(<<>>, 0)
      BY <2>1, <2>2, EntriesOf
    <2>4. QED
      BY <2>1, <2>2, <2>3
  <1>2. AInv /\ [Next]_vars => [Store!ShelfNext]_(Entries(Cells))
    BY StoreStep
  <1>3. QED
    BY <1>1, <1>2, AInvariance, PTL DEF Spec, ShelfSpec, Store!ShelfSpec

=============================================================================
