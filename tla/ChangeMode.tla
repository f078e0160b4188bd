------------------------------ MODULE ChangeMode ------------------------------
(***************************************************************************)
(* lab4/main.c (mychmod): octal modes are set, symbolic ones are applied   *)
(* to the mode that stat found.  A mode is the set of its bits, 0 to 11;   *)
(* a mode specification is a sequence of characters.  Several runs of the  *)
(* program may work on the same file at once.                              *)
(***************************************************************************)
EXTENDS Integers, Sequences, Functions

CONSTANTS
    Runs,     \* runs of the program
    Specs,    \* [Runs -> what may be typed as permission_mode]
    Modes     \* modes a file may be made with

VARIABLES
    mode,     \* the bits of the file, or NoFile
    chPc,     \* [Runs -> where the run is, or how it ended]
    spec,     \* [Runs -> mode_specification]
    existing  \* [Runs -> existing_permissions]

chVars == <<mode, chPc, spec, existing>>

Bits   == 0..11
NoFile == {-1}

ASSUME SpecsAssumption == \A p \in Runs : Specs[p] \subseteq Seq(STRING)
ASSUME ModesAssumption == Modes \subseteq SUBSET Bits

Letters == {"u", "g", "o", "a"}
Digits  == {"0", "1", "2", "3", "4", "5", "6", "7"}

-----------------------------------------------------------------------------
(* process_octal_permissions *)

\* Lines 111-117.
IsOctal(s) == Range(s) \subseteq Digits

Value(c) == CHOOSE d \in 0..7 : <<"0", "1", "2", "3", "4", "5", "6", "7">>[d + 1] = c

\* strtol in base 8; of an empty string it makes 0.
Strtol(s) ==
    LET v[k \in 0..Len(s)] == IF k = 0 THEN 0 ELSE 8 * v[k - 1] + Value(s[k])
    IN  v[Len(s)]

\* Line 17, with 07777 = 4095.
OctalValid(s) == Strtol(s) <= 4095

Weight == <<1, 2, 4, 8, 16, 32, 64, 128, 256, 512, 1024, 2048>>

BitsOf(v) == {b \in Bits : (v \div Weight[b + 1]) % 2 = 1}

-----------------------------------------------------------------------------
(* process_symbolic_permissions *)

\* The letters that lines 40-48 pass over.
WhoCount(s) == CHOOSE n \in 0..Len(s) :
    /\ \A k \in 1..n : s[k] \in Letters
    /\ n = Len(s) \/ s[n + 1] \notin Letters

\* S_IRWXU, S_IRWXG and S_IRWXO
ClassBits == [c \in {"u", "g", "o"} |-> CASE c = "u" -> 6..8 [] c = "g" -> 3..5 [] c = "o" -> 0..2]

\* S_IRUSR | S_IRGRP | S_IROTH, and so for w and x
PermissionBits == [c \in {"r", "w", "x"} |->
    CASE c = "r" -> {2, 5, 8} [] c = "w" -> {1, 4, 7} [] c = "x" -> {0, 3, 6}]

Who(s) ==
    LET named == {s[k] : k \in 1..WhoCount(s)}
    IN  IF named = {} \/ "a" \in named THEN {"u", "g", "o"} ELSE named

Operator(s) == s[WhoCount(s) + 1]
Tail1(s)    == {s[k] : k \in (WhoCount(s) + 2)..Len(s)}

\* Lines 54-57 and 66-68.
SymbolicValid(s) ==
    /\ WhoCount(s) < Len(s) /\ Operator(s) \in {"+", "-", "="}
    /\ Tail1(s) \subseteq {"r", "w", "x"}

Mask(s)       == UNION {ClassBits[c] : c \in Who(s)}
Applicable(s) == Mask(s) \cap UNION {PermissionBits[c] : c \in Tail1(s)}

\* Slip: = clears everything first.
UpdatedSlip(s, m) ==
    CASE Operator(s) = "+" -> m \cup Applicable(s)
      [] Operator(s) = "-" -> m \ Applicable(s)
      [] Operator(s) = "=" -> Applicable(s)

\* Lines 83-94.
Updated(s, m) ==
    CASE Operator(s) = "+" -> m \cup Applicable(s)
      [] Operator(s) = "-" -> m \ Applicable(s)
      [] Operator(s) = "=" -> (m \ Mask(s)) \cup Applicable(s)

-----------------------------------------------------------------------------
ChInit ==
    /\ mode = NoFile
    /\ chPc = [p \in Runs |-> "shell"]
    /\ spec = [p \in Runs |-> <<>>]
    /\ existing = [p \in Runs |-> {}]

Go(p, l) == chPc' = [chPc EXCEPT ![p] = l]

\* main, lines 102-123.
ChStart(p) ==
    /\ chPc[p] = "shell"
    /\ \E s \in Specs[p] :
          /\ spec' = [spec EXCEPT ![p] = s]
          /\ Go(p, IF IsOctal(s) THEN "octal" ELSE "stat")
    /\ UNCHANGED <<mode, existing>>

\* Lines 30-34.
ChStat(p) ==
    /\ chPc[p] = "stat"
    /\ \/ Go(p, "failed") /\ UNCHANGED existing
       \/ mode # NoFile /\ Go(p, "symbolic") /\ existing' = [existing EXCEPT ![p] = mode]
    /\ UNCHANGED <<mode, spec>>

\* chmod(2) with the bits of this run, when the specification is a good one.
SetMode(p, valid, bits) ==
    /\ \/ ~valid /\ Go(p, "rejected") /\ UNCHANGED mode
       \/ valid /\ mode # NoFile /\ mode' = bits /\ Go(p, "ok")
       \/ valid /\ Go(p, "failed") /\ UNCHANGED mode
    /\ UNCHANGED <<spec, existing>>

ChOctal(p) ==
    /\ chPc[p] = "octal"
    /\ SetMode(p, OctalValid(spec[p]), BitsOf(Strtol(spec[p])))

ChSymbolic(p) ==
    /\ chPc[p] = "symbolic"
    /\ SetMode(p, SymbolicValid(spec[p]), Updated(spec[p], existing[p]))

\* The file is made, or removed.
FileMadeOrRemoved ==
    /\ mode' \in IF mode = NoFile THEN Modes ELSE {NoFile}
    /\ UNCHANGED <<chPc, spec, existing>>

ChNext ==
    \/ \E p \in Runs : ChStart(p) \/ ChStat(p) \/ ChOctal(p) \/ ChSymbolic(p)
    \/ FileMadeOrRemoved

-----------------------------------------------------------------------------
(* What chmod does, bit by bit *)

ClassOf(b)      == <<"o", "g", "u">>[(b \div 3) + 1]
PermissionOf(b) == <<"x", "w", "r">>[(b % 3) + 1]

\* [ugoa]*[-+=][rwx]*, with the operator at k.
Symbolic(s, k) ==
    /\ s[k] \in {"+", "-", "="}
    /\ \A j \in 1..(k - 1) : s[j] \in Letters
    /\ \A j \in (k + 1)..Len(s) : s[j] \in {"r", "w", "x"}

\* Up to four octal digits after as many zeros as you like; no digit at all is 0.
OctalDigits(s) == IsOctal(s) /\ \A k \in 1..(Len(s) - 4) : s[k] = "0"

WellFormed(s) == OctalDigits(s) \/ \E k \in DOMAIN s : Symbolic(s, k)

\* Whether bit b is set afterwards: the others' bits, setuid, setgid and sticky stay
\* as they are under a symbolic mode.
BitAfter(s, m, b) ==
    IF OctalDigits(s)
    THEN b \div 3 < Len(s) /\ (Value(s[Len(s) - b \div 3]) \div <<1, 2, 4>>[(b % 3) + 1]) % 2 = 1
    ELSE LET k == CHOOSE k \in DOMAIN s : Symbolic(s, k)
             Whose == b < 9 /\ (k = 1 \/ \E j \in 1..(k - 1) : s[j] \in {ClassOf(b), "a"})
             Given == \E j \in (k + 1)..Len(s) : s[j] = PermissionOf(b)
         IN  IF ~Whose THEN b \in m
             ELSE \/ Given /\ s[k] \in {"+", "="}
                  \/ b \in m /\ (s[k] = "+" \/ (s[k] = "-" /\ ~Given))

\* A specification is refused just when it is not well-formed.  A mode only changes
\* as a well-formed one asks, bit by bit; between stat (30) and chmod (96) another
\* run's change is lost, and nothing else.
AsAsked ==
    [][\A p \in Runs :
        /\ chPc[p] # "rejected" /\ chPc'[p] = "rejected" => ~WellFormed(spec[p])
        /\ chPc[p] # "ok" /\ chPc'[p] = "ok" =>
          /\ WellFormed(spec[p])
          /\ mode' = {b \in Bits : BitAfter(spec[p], IF chPc[p] = "octal" THEN mode ELSE existing[p], b)}
      ]_chVars
=============================================================================
