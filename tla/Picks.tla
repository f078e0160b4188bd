-------------------------------- MODULE Picks --------------------------------
(***************************************************************************)
(* What is left of a sequence when some of its positions are picked and    *)
(* the others dropped.                                                     *)
(***************************************************************************)
EXTENDS Integers, FiniteSets, Sequences

Rank(S, k) == Cardinality({h \in S : h <= k})

\* The i-th of a set of numbers, in their order.
Nth(S, i) == CHOOSE k \in S : Rank(S, k) = i

Picked(f, S) == [i \in 1..Cardinality(S) |-> f[Nth(S, i)]]
=============================================================================
