------------------------------- MODULE CatGrep -------------------------------
(***************************************************************************)
(* lab1/demcat.c and lab1/demgrep.c: both read their files through fgets   *)
(* into a buffer of fixed size and treat what fgets returns as a line.  A  *)
(* text is a sequence of characters.                                       *)
(***************************************************************************)
EXTENDS Picks, FiniteSetsExt

CONSTANTS
    BUFFER,      \* MAX_BUFFER_SIZE and MAX_INPUT_SIZE
    Characters,
    Inputs,      \* sequences of texts, Missing for a file that cannot be opened
    Patterns     \* what may be searched for

NL      == "\n"
NUL     == "zero"
Missing == <<"missing">>
Closed  == -1

ASSUME BufferAssumption == BUFFER \in Nat \ {0, 1}
ASSUME InputsAssumption ==
    /\ Missing \notin Seq(Characters)
    /\ Inputs \subseteq Seq(Seq(Characters) \cup {Missing})
    /\ Patterns \subseteq Seq(Characters)

VARIABLES
    tool,      \* "none", "cat", "grep", or "grepStdin" when there are no file names
    options,   \* of mycat, a subset of {"n", "b", "E"}
    pattern,   \* search_pattern
    files,     \* the texts of the files named, or Missing
    cur,       \* how many of them were tried
    offset,    \* how far the open file is read, or Closed
    counter,   \* count_lines, line_number, or for stdin match_count + 1
    shown,     \* what was written about each file that was tried
    totals     \* file_match_count of each, match_count of stdin

textVars == <<tool, options, pattern, files, cur, offset, counter, shown, totals>>

-----------------------------------------------------------------------------
(* The library *)

\* fgets, at offset p, reads up to a newline, the end of the file or of the buffer.
ChunkEnd(text, p) ==
    Min({k \in (p + 1)..Len(text) : text[k] = NL \/ k = Len(text) \/ k = p + BUFFER - 1})

Chunk(text, p) == SubSeq(text, p + 1, ChunkEnd(text, p))

\* What strlen, strstr, fputs and %s take the buffer for: all before the first zero.
CString(s) ==
    LET zeros == {k \in DOMAIN s : s[k] = NUL}
    IN  IF zeros = {} THEN s ELSE SubSeq(s, 1, Min(zeros) - 1)

\* strstr
Holds(s, p) == \E k \in 1..(Len(s) - Len(p) + 1) : SubSeq(s, k, k + Len(p) - 1) = p

-----------------------------------------------------------------------------
(* Both programs *)

TextInit ==
    /\ tool = "none" /\ options = {} /\ pattern = <<>>
    /\ files = <<>> /\ cur = 0 /\ offset = Closed /\ counter = 1
    /\ shown = <<>> /\ totals = <<>>

\* mycat's options (lines 46-68), mygrep's arguments (9-20).
TextStart ==
    /\ tool = "none"
    /\ files' \in Inputs
    /\ \/ /\ tool' = "cat" /\ UNCHANGED pattern
          /\ options' \in SUBSET {"n", "b", "E"}
       \/ /\ tool' \in {"grep", "grepStdin"}
          /\ tool' = "grepStdin" => Len(files') = 1 /\ files'[1] # Missing
          /\ pattern' \in Patterns /\ UNCHANGED options
    /\ UNCHANGED <<cur, offset, counter, shown, totals>>

\* A file that cannot be opened is passed over; numbering starts anew in each.
TextOpen ==
    /\ tool # "none" /\ offset = Closed /\ cur < Len(files)
    /\ cur' = cur + 1
    /\ shown' = Append(shown, <<>>) /\ totals' = Append(totals, 0)
    /\ IF files[cur'] = Missing THEN UNCHANGED <<offset, counter>> ELSE offset' = 0 /\ counter' = 1
    /\ UNCHANGED <<tool, options, pattern, files>>

Text == files[cur]

TextClose ==
    /\ offset # Closed /\ offset = Len(Text)
    /\ offset' = Closed
    /\ UNCHANGED <<tool, options, pattern, files, cur, counter, shown, totals>>

Reading == offset # Closed /\ offset < Len(Text)
ReadOn  == offset' = ChunkEnd(Text, offset)
Line    == CString(Chunk(Text, offset))

-----------------------------------------------------------------------------
(* mycat: handle_text_line *)

Char(c)   == [kind |-> "char", is |-> c]
Number(n) == [kind |-> "number", is |-> n]
Dollar    == [kind |-> "mark", is |-> "$"]

Plain(s) == [k \in 1..Len(s) |-> Char(s[k])]

Numbered == options \cap {"n", "b"} # {}

\* Slip: the $ is put after what was read, be it a newline.
MarkedSlip(s) == IF "E" \in options THEN Append(Plain(s), Dollar) ELSE Plain(s)

\* Lines 24-36.
Marked(s) ==
    IF "E" \notin options THEN Plain(s)
    ELSE IF s # <<>> /\ s[Len(s)] = NL THEN Plain(SubSeq(s, 1, Len(s) - 1)) \o <<Dollar, Char(NL)>>
    ELSE Append(Plain(s), Dollar)

CatLine ==
    /\ tool = "cat" /\ Reading
    /\ ReadOn
    /\ IF "b" \in options /\ Line = <<NL>>
       THEN UNCHANGED <<shown, counter>>
       ELSE /\ shown' = [shown EXCEPT ![cur] =
                           @ \o (IF Numbered THEN <<Number(counter)>> ELSE <<>>) \o Marked(Line)]
            /\ counter' = IF Numbered THEN counter + 1 ELSE counter
    /\ UNCHANGED <<tool, options, pattern, files, cur, totals>>

-----------------------------------------------------------------------------
(* mygrep: main *)

Match(n, s) == [number |-> n, text |-> s]

\* Slip: line_number counts the lines that match.
LineNumberSlip(found) == IF found THEN counter + 1 ELSE counter

\* Line 69; for stdin the matches are numbered instead (32).
LineNumber(found) == IF found \/ tool = "grep" THEN counter + 1 ELSE counter

GrepLine ==
    LET found == Holds(Line, pattern) IN
    /\ tool \in {"grep", "grepStdin"} /\ Reading
    /\ ReadOn
    /\ shown' = IF found THEN [shown EXCEPT ![cur] = Append(@, Match(counter, Line))] ELSE shown
    /\ totals' = IF found THEN [totals EXCEPT ![cur] = @ + 1] ELSE totals
    /\ counter' = LineNumber(found)
    /\ UNCHANGED <<tool, options, pattern, files, cur>>

TextNext ==
    \/ TextStart \/ TextOpen \/ TextClose \/ CatLine \/ GrepLine

-----------------------------------------------------------------------------
(* What cat and grep do, said of whole texts *)

\* The j-th file was opened and read to its end.
IsRead(j) == files[j] # Missing /\ (j = cur => offset = Closed)

\* A line starts at k; and ends.
LineStart(t, k) == k = 1 \/ t[k - 1] = NL
LineEnd(t, k)   == Min({j \in k..Len(t) : t[j] = NL \/ j = Len(t)})
LineAt(t, k)    == SubSeq(t, k, LineEnd(t, k))

Starts(t) == {k \in 1..Len(t) : LineStart(t, k)}

\* No zeros, and every line fits into the buffer.
Whole(t) == \A k \in 1..Len(t) : t[k] # NUL
Tidy(t)  == Whole(t) /\ \A k \in Starts(t) : Len(LineAt(t, k)) < BUFFER
Ended(t) == t = <<>> \/ t[Len(t)] = NL

\* -b numbers only lines that are not blank: all characters but those of blank lines.
KeptIn(t) == {k \in 1..Len(t) : ~("b" \in options /\ LineStart(t, k) /\ t[k] = NL)}

\* What may be shown of a text: the characters, with room for two symbols before each.
Symbols(t) ==
    [i \in 1..(3 * Len(t)) |->
        LET k == (i + 2) \div 3
        IN  CASE i = 3 * k - 2 -> Number(Rank(KeptIn(t) \cap Starts(t), k))
              [] i = 3 * k - 1 -> Dollar
              [] i = 3 * k     -> Char(t[k])]

PlacesAt(t, k) ==
    (IF Numbered /\ k \in KeptIn(t) /\ LineStart(t, k) THEN {3 * k - 2} ELSE {})
    \cup (IF "E" \in options /\ t[k] = NL THEN {3 * k - 1} ELSE {})
    \cup {3 * k}

\* cat shows every line of the text, the blank ones under -b without a number.
RefCat(t) == Picked(Symbols(t), UNION {PlacesAt(t, k) : k \in 1..Len(t)})

\* mycat's -b leaves them out.
Places(t)      == UNION {PlacesAt(t, k) : k \in KeptIn(t)}
RefNoBlanks(t) == Picked(Symbols(t), Places(t))

CharsOf(s) == {i \in 1..Len(s) : s[i].kind = "char"}

\* Of each file by itself.  In a text without zeros mycat, without -b, shows all
\* characters in order, however long the lines are, and adds only numbers and $ signs.
\* Where moreover every line fits into the buffer (4094 characters and a newline do, and
\* the last line needs its newline under -E) it shows what cat does but for -b, of which
\* it makes a cat -n of the text without its blank lines.
CatFaithful ==
    tool = "cat" => \A j \in 1..cur : IsRead(j) =>
        /\ Whole(files[j]) /\ "b" \notin options =>
              Picked(shown[j], CharsOf(shown[j])) = Plain(files[j])
        /\ Tidy(files[j]) /\ ("E" \in options => Ended(files[j])) =>
              /\ shown[j] = RefNoBlanks(files[j])
              /\ "b" \notin options => shown[j] = RefCat(files[j])

\* mycat behaves like cat (lab1/README.md:1) on each file without zeros whose lines fit.
LikeCat ==
    tool = "cat" => \A j \in 1..cur :
        IsRead(j) /\ Tidy(files[j]) /\ ("E" \in options => Ended(files[j])) =>
            shown[j] = RefCat(files[j])

Found(t) == {k \in Starts(t) : Holds(LineAt(t, k), pattern)}

RefGrep(t) ==
    Picked([k \in 1..Len(t) |->
              Match(Rank(IF tool = "grep" THEN Starts(t) ELSE Found(t), k), LineAt(t, k))], Found(t))

\* mygrep shows nothing that is not in a file and does not hold the pattern, with
\* numbers that grow, and counts what it shows.  Where every line fits into the buffer
\* it shows all that do, once each, under their numbers.
GrepFaithful ==
    tool \in {"grep", "grepStdin"} => \A j \in 1..cur :
        /\ \A k \in 1..Len(shown[j]) :
              /\ Holds(shown[j][k].text, pattern)
              /\ Holds(files[j], shown[j][k].text)
              /\ k > 1 => shown[j][k - 1].number < shown[j][k].number
        /\ totals[j] = Len(shown[j])
        /\ IsRead(j) /\ Tidy(files[j]) => shown[j] = RefGrep(files[j])
=============================================================================
