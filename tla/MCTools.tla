------------------------------ MODULE MCTools ------------------------------
(***************************************************************************)
(* The command-line tools of lab1, lab2 and lab4 for TLC: a shell that     *)
(* runs one of them.  (mychmod is run twice, at the same time.)            *)
(***************************************************************************)
EXTENDS CatGrep, ListDir, ChangeMode

UpTo(n, S) == UNION {[1..k -> S] : k \in 0..n}

\* Texts of lines shorter than the buffer, as long as it and longer, and some with
\* zeros; alone, before a file that cannot be opened, before a second file.
MCCharacters == {"a", "b", NL, NUL}

MCTexts  == UpTo(5, {"a", "b", NL}) \cup UpTo(3, {"a", NL, NUL})
MCInputs ==
    {<<t>> : t \in MCTexts}
    \cup {<<t, Missing, <<"a", NL>>>> : t \in UpTo(4, {"a", "b", NL})}

MCPatterns == {<<>>, <<"a">>, <<"a", "b">>}

\* Directories of up to four entries; to strcasecmp "A" and "a" are equal, and "#" is
\* less than a dot.
MCNames       == {".", "#", "a", "A"}
MCRank        == [n \in MCNames |-> CASE n = "#" -> 0 [] n = "." -> 1 [] OTHER -> 2]
MCDirectories == UNION {Bijection(1..Cardinality(S), S) : S \in SUBSET MCNames}

\* All specifications of up to three characters out of nine, and the longer ones of
\* lab4/Readme.md and at the limits of strtol's range; a few for the second run.
MCSpecs == <<
    UpTo(3, {"u", "o", "a", "+", "-", "=", "r", "w", "7"})
        \cup {<<"g", "+", "r", "w">>, <<"u", "g", "+", "r", "w">>, <<"g", "o", "-", "x">>,
              <<"u", "g", "a", "+", "r", "w", "x">>, <<"7", "6", "6">>, <<"0", "4", "7", "5", "5">>,
              <<"7", "7", "7", "7">>, <<"1", "0", "0", "0", "0">>, <<"7", "8">>},
    {<<"u", "=", "r">>, <<"o", "+", "w">>, <<"6", "4", "4">>} >>

\* With and without setuid and sticky.
MCModes == {{11, 8, 7, 5, 2}, {9, 10, 6, 4, 1, 0}}

ToolsInit == TextInit /\ LsInit /\ ChInit

TextUnused == tool = "none"
LsUnused   == lsPc = "shell"
ChUnused   == chPc = [p \in Runs |-> "shell"] /\ mode = NoFile

toolsVars == <<textVars, lsVars, chVars>>

ToolsNext ==
    \/ LsUnused /\ ChUnused /\ TextNext /\ UNCHANGED <<lsVars, chVars>>
    \/ TextUnused /\ ChUnused /\ LsNext /\ UNCHANGED <<textVars, chVars>>
    \/ TextUnused /\ LsUnused /\ ChNext /\ UNCHANGED <<textVars, lsVars>>

ToolsSpec == ToolsInit /\ [][ToolsNext]_toolsVars
=============================================================================
