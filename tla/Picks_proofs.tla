----------------------------- MODULE Picks_proofs -----------------------------
(***************************************************************************)
(* Lemmas about Picks, for all sequences and all sets of positions; and    *)
(* what they and the proofs about tools need of numbers: the least element *)
(* of a set, and induction in the form of sets.                            *)
(***************************************************************************)
EXTENDS Picks, FiniteSetTheorems, SequenceTheorems, WellFoundedInduction, TLAPS

(* Picks: Rank numbers the elements of a finite set of numbers in order.   *)

LEMMA RankKind ==
    ASSUME NEW S \in SUBSET Nat, IsFiniteSet(S)
    PROVE  /\ Cardinality(S) \in Nat
           /\ \A k \in Nat : Rank(S, k) \in 0..Cardinality(S)
           /\ \A k \in S : Rank(S, k) \in 1..Cardinality(S)
  <1>1. Cardinality(S) \in Nat
    BY FS_CardinalityType
  <1>2. ASSUME NEW k \in Nat
        PROVE  Rank(S, k) \in 0..Cardinality(S) /\ IsFiniteSet({h \in S : h <= k})
    <2>1. {h \in S : h <= k} \in SUBSET S
      OBVIOUS
    <2>2. QED
      BY <1>1, <2>1, FS_Subset, FS_CardinalityType DEF Rank
  <1>3. ASSUME NEW k \in S PROVE Rank(S, k) # 0
    <2>1. k \in {h \in S : h <= k}
      OBVIOUS
    <2>2. QED
      BY <1>2, <2>1, FS_EmptySet DEF Rank
  <1>4. ASSUME NEW k \in S PROVE Rank(S, k) \in 1..Cardinality(S)
    <2>1. Rank(S, k) \in 0..Cardinality(S) /\ Rank(S, k) # 0
      BY <1>2, <1>3
    <2>2. QED
      BY <1>1, <2>1
  <1>5. QED
    BY <1>1, <1>2, <1>4

\* It grows, so no two have one rank.
LEMMA RankGrows ==
    ASSUME NEW S \in SUBSET Nat, IsFiniteSet(S), NEW j \in S, NEW k \in S, j < k
    PROVE  Rank(S, j) < Rank(S, k)
  <1> DEFINE J == {h \in S : h <= j}  K == {h \in S : h <= k}
  <1>0. j \in Nat /\ k \in Nat
    OBVIOUS
  <1>1. J \in SUBSET K /\ K \in SUBSET S /\ k \in K /\ k \notin J
    <2>1. \A h \in S : h <= j => h <= k
      BY <1>0
    <2>2. k <= k /\ ~(k <= j)
      BY <1>0
    <2>3. QED
      BY <2>1, <2>2
  <1>2. IsFiniteSet(K)
    BY <1>1, FS_Subset
  <1>3. Cardinality(J) <= Cardinality(K) /\ Cardinality(J) # Cardinality(K)
    BY <1>1, <1>2, FS_Subset
  <1>4. Rank(S, j) = Cardinality(J) /\ Rank(S, k) = Cardinality(K)
    BY DEF Rank
  <1>5. Rank(S, j) \in Nat /\ Rank(S, k) \in Nat
    BY RankKind
  <1>6. QED
    BY <1>3, <1>4, <1>5

\* The elements up to p are those whose rank is at most that of p.
LEMMA RankUpTo ==
    ASSUME NEW S \in SUBSET Nat, IsFiniteSet(S), NEW k \in S, NEW p \in Nat
    PROVE  k <= p <=> Rank(S, k) <= Rank(S, p)
  <1> DEFINE K == {h \in S : h <= k}  P == {h \in S : h <= p}
  <1>0. k \in Nat /\ p \in Nat
    OBVIOUS
  <1>1. IsFiniteSet(K) /\ IsFiniteSet(P)
    <2>1. K \in SUBSET S /\ P \in SUBSET S
      OBVIOUS
    <2>2. QED
      BY <2>1, FS_Subset
  <1>2. Cardinality(K) = Rank(S, k) /\ Cardinality(P) = Rank(S, p)
    BY DEF Rank
  <1>3. Rank(S, k) \in Nat /\ Rank(S, p) \in Nat
    BY <1>0, RankKind
  <1>4. ASSUME k <= p PROVE Rank(S, k) <= Rank(S, p)
    <2>1. K \in SUBSET P
      <3>1. \A h \in S : h <= k => h <= p
        BY <1>0, <1>4
      <3>2. QED
        BY <3>1
    <2> HIDE DEF K, P
    <2>2. QED
      BY <1>1, <1>2, <2>1, FS_Subset
  <1>5. ASSUME p < k PROVE Rank(S, p) < Rank(S, k)
    <2>1. P \in SUBSET K /\ k \in K /\ k \notin P
      <3>1. \A h \in S : h <= p => h <= k
        BY <1>0, <1>5
      <3>2. k <= k /\ ~(k <= p)
        BY <1>0, <1>5
      <3>3. QED
        BY <3>1, <3>2
    <2> HIDE DEF K, P
    <2>2. Cardinality(P) <= Cardinality(K) /\ Cardinality(P) # Cardinality(K)
      BY <1>1, <2>1, FS_Subset
    <2>3. QED
      BY <1>2, <1>3, <2>2
  <1>6. QED
    BY <1>0, <1>3, <1>4, <1>5

\* Nth undoes Rank, and Rank undoes Nth.
LEMMA NthOfRank ==
    ASSUME NEW S \in SUBSET Nat, IsFiniteSet(S)
    PROVE  /\ \A i \in 1..Cardinality(S) : Nth(S, i) \in S /\ Rank(S, Nth(S, i)) = i
           /\ \A k \in S : Nth(S, Rank(S, k)) = k
           /\ \A j, k \in S : Rank(S, j) = Rank(S, k) => j = k
  <1> DEFINE n == Cardinality(S)  f == [k \in S |-> Rank(S, k)]
  <1>1. n \in Nat /\ \A k \in S : Rank(S, k) \in 1..n
    BY RankKind
  <1>2. ASSUME NEW j \in S, NEW k \in S, j # k PROVE Rank(S, j) # Rank(S, k)
    <2>1. CASE j < k
      BY <1>1, <2>1, RankGrows
    <2>2. CASE k < j
      BY <1>1, <2>2, RankGrows
    <2>3. QED
      BY <1>2, <2>1, <2>2
  <1>3. f \in Injection(S, 1..n)
    BY <1>1, <1>2 DEF Injection, IsInjective
  <1>4. IsFiniteSet(1..n) /\ Cardinality(1..n) = n
    BY <1>1, FS_Interval
  <1>5. f \in Surjection(S, 1..n)
    BY <1>3, <1>4, FS_Injection
  <1>6. \A i \in 1..n : \E k \in S : Rank(S, k) = i
    BY <1>5 DEF Surjection
  <1>7. \A i \in 1..n : Nth(S, i) \in S /\ Rank(S, Nth(S, i)) = i
    BY <1>6 DEF Nth
  <1>8. QED
    BY <1>1, <1>2, <1>7

\* A pick is a sequence, and it matters only what is at the positions picked.
LEMMA PickedKind ==
    ASSUME NEW S \in SUBSET Nat, IsFiniteSet(S), NEW f, NEW X, \A k \in S : f[k] \in X
    PROVE  Picked(f, S) \in Seq(X) /\ Len(Picked(f, S)) = Cardinality(S)
  <1>1. Cardinality(S) \in Nat /\ \A i \in 1..Cardinality(S) : f[Nth(S, i)] \in X
    BY RankKind, NthOfRank
  <1>2. QED
    BY <1>1 DEF Picked

LEMMA PickedSame ==
    ASSUME NEW S \in SUBSET Nat, IsFiniteSet(S), NEW f, NEW g, \A k \in S : f[k] = g[k]
    PROVE  Picked(f, S) = Picked(g, S)
  <1>1. \A i \in 1..Cardinality(S) : f[Nth(S, i)] = g[Nth(S, i)]
    BY NthOfRank
  <1>2. QED
    BY <1>1 DEF Picked

\* One more position, after the others.
LEMMA PickedMore ==
    ASSUME NEW S \in SUBSET Nat, IsFiniteSet(S), NEW p \in Nat, \A h \in S : h < p,
           NEW f, NEW X, \A k \in S \cup {p} : f[k] \in X
    PROVE  /\ Picked(f, S \cup {p}) = Append(Picked(f, S), f[p])
           /\ IsFiniteSet(S \cup {p}) /\ Cardinality(S \cup {p}) = Cardinality(S) + 1
  <1> DEFINE n == Cardinality(S)  T == S \cup {p}
  <1>1. n \in Nat /\ IsFiniteSet(T) /\ Cardinality(T) = n + 1 /\ T \in SUBSET Nat
    BY FS_AddElement, FS_CardinalityType
  <1>2. ASSUME NEW k \in S PROVE Rank(T, k) = Rank(S, k)
    <2>1. {h \in T : h <= k} = {h \in S : h <= k}
      OBVIOUS
    <2>2. QED
      BY <2>1 DEF Rank
  <1>3. Rank(T, p) = n + 1
    <2>1. \A h \in T : h <= p
      OBVIOUS
    <2>0. {h \in T : h <= p} = T
      BY <2>1
    <2>2. QED
      BY <1>1, <2>0 DEF Rank
  <1> HIDE DEF T
  <1>4. ASSUME NEW i \in 1..n PROVE Nth(T, i) = Nth(S, i)
    <2>1. Nth(S, i) \in S /\ Rank(S, Nth(S, i)) = i
      BY NthOfRank
    <2>2. Nth(S, i) \in T /\ Rank(T, Nth(S, i)) = i
      BY <1>2, <2>1 DEF T
    <2>3. QED
      BY <1>1, <2>2, NthOfRank
  <1>5. Nth(T, n + 1) = p
    <2>1. p \in T
      BY DEF T
    <2>2. QED
      BY <1>1, <1>3, <2>1, NthOfRank
  <1>6. Picked(f, S) \in Seq(X) /\ Len(Picked(f, S)) = n
    BY PickedKind DEF T
  <1>7. Picked(f, T) \in Seq(X) /\ Len(Picked(f, T)) = n + 1
    <2>1. \A k \in T : f[k] \in X
      BY DEF T
    <2>2. QED
      BY <1>1, <2>1, PickedKind
  <1>8. \A i \in 1..n : Picked(f, T)[i] = Picked(f, S)[i]
    BY <1>1, <1>4 DEF Picked
  <1>9. Picked(f, T)[n + 1] = f[p] /\ f[p] \in X
    BY <1>1, <1>5 DEF Picked
  <1>10. Picked(f, T) = Append(Picked(f, S), f[p])
    <2> DEFINE s == Picked(f, T)  t == Append(Picked(f, S), f[p])
    <2>1. t \in Seq(X) /\ Len(t) = n + 1 /\ (\A i \in 1..n : t[i] = Picked(f, S)[i]) /\ t[n + 1] = f[p]
      BY <1>6, <1>9, AppendProperties
    <2>2. \A i \in 1..(n + 1) : s[i] = t[i]
      BY <1>1, <1>8, <1>9, <2>1
    <2> HIDE DEF s, t
    <2>3. s = t
      BY <1>7, <2>1, <2>2, SeqEqual DEF s
    <2>4. QED
      BY <2>3 DEF s, t
  <1>11. QED
    BY <1>1, <1>10 DEF T

\* What a pick of a pick leaves could have been picked at once.
LEMMA PickedTwice ==
    ASSUME NEW S \in SUBSET Nat, IsFiniteSet(S), NEW T \in SUBSET S, NEW f
    PROVE  LET I == {i \in 1..Cardinality(S) : Nth(S, i) \in T}
           IN  Picked(Picked(f, S), I) = Picked(f, T)
  <1> DEFINE n == Cardinality(S)  I == {i \in 1..n : Nth(S, i) \in T}  g == [t \in T |-> Rank(S, t)]
  <1>1. n \in Nat /\ \A k \in S : Rank(S, k) \in 1..n
    BY RankKind
  <1>2. IsFiniteSet(T) /\ T \in SUBSET Nat /\ I \in SUBSET (1..n) /\ I \in SUBSET Nat /\ IsFiniteSet(I)
    <2>1. IsFiniteSet(1..n) /\ 1..n \in SUBSET Nat /\ I \in SUBSET (1..n)
      BY <1>1, FS_Interval
    <2>2. IsFiniteSet(T) /\ IsFiniteSet(I)
      BY <2>1, FS_Subset
    <2>3. QED
      BY <2>1, <2>2
  <1>3. \A t \in T : Rank(S, t) \in I /\ Nth(S, Rank(S, t)) = t
    BY <1>1, NthOfRank
  <1>4. \A i \in I : Nth(S, i) \in T /\ Rank(S, Nth(S, i)) = i
    BY NthOfRank
  <1>5. \A t, u \in T : t <= u <=> Rank(S, t) <= Rank(S, u)
    <2> SUFFICES ASSUME NEW t \in T, NEW u \in T PROVE t <= u <=> Rank(S, t) <= Rank(S, u)
      OBVIOUS
    <2>1. t \in S /\ u \in S /\ t \in Nat /\ u \in Nat /\ Rank(S, t) \in Nat /\ Rank(S, u) \in Nat
      BY <1>1
    <2>2. t < u => Rank(S, t) < Rank(S, u)
      BY <2>1, RankGrows
    <2>3. u < t => Rank(S, u) < Rank(S, t)
      BY <2>1, RankGrows
    <2>4. QED
      BY <2>1, <2>2, <2>3
  <1>6. ASSUME NEW A \in SUBSET T
        PROVE  LET B == {i \in I : Nth(S, i) \in A} IN IsFiniteSet(B) /\ Cardinality(B) = Cardinality(A)
    <2> DEFINE B == {i \in I : Nth(S, i) \in A}  h == [a \in A |-> Rank(S, a)]
    <2>1. IsFiniteSet(A)
      BY <1>2, FS_Subset
    <2>2. \A a \in A : h[a] \in B
      BY <1>3
    <2>3. \A a, b \in A : h[a] = h[b] => a = b
      BY <1>3
    <2>4. \A i \in B : Nth(S, i) \in A /\ h[Nth(S, i)] = i
      BY <1>4
    <2> HIDE DEF B
    <2>5. h \in Bijection(A, B)
      BY <2>2, <2>3, <2>4 DEF Bijection, Injection, Surjection, IsInjective
    <2>6. IsFiniteSet(B) /\ Cardinality(B) = Cardinality(A)
      BY <2>1, <2>5, FS_Bijection DEF ExistsBijection
    <2>7. QED
      BY <2>6 DEF B
  <1>7. Cardinality(I) = Cardinality(T)
    <2>1. {i \in I : Nth(S, i) \in T} = I
      OBVIOUS
    <2>2. QED
      BY <1>6, <2>1
  <1>8. ASSUME NEW t \in T PROVE Rank(I, Rank(S, t)) = Rank(T, t)
    <2> DEFINE A == {u \in T : u <= t}
    <2>1. {i \in I : Nth(S, i) \in A} = {i \in I : i <= Rank(S, t)}
      <3>1. ASSUME NEW i \in I PROVE Nth(S, i) \in A <=> i <= Rank(S, t)
        <4>1. Nth(S, i) \in T /\ Rank(S, Nth(S, i)) = i
          BY <1>4
        <4>2. Nth(S, i) <= t <=> Rank(S, Nth(S, i)) <= Rank(S, t)
          BY <1>5, <4>1
        <4>3. Rank(S, Nth(S, i)) <= Rank(S, t) <=> i <= Rank(S, t)
          BY <4>1
        <4>4. QED
          BY <4>1, <4>2, <4>3
      <3>2. QED
        BY <3>1
    <2>2. A \in SUBSET T
      OBVIOUS
    <2>3. Cardinality({i \in I : i <= Rank(S, t)}) = Cardinality(A)
      BY <1>6, <2>1, <2>2
    <2>4. QED
      BY <2>3 DEF Rank
  <1>9. ASSUME NEW i \in 1..Cardinality(T)
        PROVE  Picked(f, S)[Nth(I, i)] = f[Nth(T, i)]
    <2>1. Nth(T, i) \in T /\ Rank(T, Nth(T, i)) = i
      BY <1>2, NthOfRank
    <2>2. Rank(S, Nth(T, i)) \in I /\ Rank(I, Rank(S, Nth(T, i))) = i
      BY <1>3, <1>8, <2>1
    <2>3. Nth(I, i) = Rank(S, Nth(T, i))
      BY <1>2, <2>2, NthOfRank
    <2>4. Nth(I, i) \in 1..n /\ Nth(S, Nth(I, i)) = Nth(T, i)
      BY <1>2, <1>3, <2>1, <2>2, <2>3
    <2>5. QED
      BY <2>4 DEF Picked
  <1>10. QED
    BY <1>7, <1>9 DEF Picked

-----------------------------------------------------------------------------
(* Numbers                                                                 *)

\* A set of numbers has a least one.
LEMMA LeastNumber ==
    ASSUME NEW S \in SUBSET Nat, S # {}
    PROVE  \E m \in S : \A k \in S : m <= k
  <1>1. PICK m \in S : \A k \in S : ~(<<k, m>> \in OpToRel(<, Nat))
    BY NatLessThanWellFounded, WFMin
  <1>2. ASSUME NEW k \in S PROVE m <= k
    <2>1. <<k, m>> \in Nat \X Nat /\ ~(<<k, m>> \in OpToRel(<, Nat))
      BY <1>1
    <2>2. ~(k < m)
      BY <2>1 DEF OpToRel
    <2>3. m \in Nat /\ k \in Nat
      OBVIOUS
    <2>4. QED
      BY <2>2, <2>3
  <1>3. QED
    BY <1>2

\* Induction: a set that has 0 and, with a number, the next one up to n, has all up to n.
LEMMA NumbersUpTo ==
    ASSUME NEW n \in Nat, NEW S, 0 \in S, \A k \in 1..n : k - 1 \in S => k \in S
    PROVE  0..n \subseteq S
  <1> DEFINE T == {k \in 0..n : k \notin S}
  <1>1. SUFFICES ASSUME T # {} PROVE FALSE
    OBVIOUS
  <1>2. T \in SUBSET Nat
    OBVIOUS
  <1> HIDE DEF T
  <1>3. PICK m \in T : \A k \in T : m <= k
    BY <1>1, <1>2, LeastNumber
  <1>4. m \in 0..n /\ m \notin S /\ m # 0
    BY DEF T
  <1>5. m \in 1..n /\ m - 1 \in 0..n /\ ~(m <= m - 1)
    BY <1>4
  <1>6. m - 1 \in S
    BY <1>3, <1>5 DEF T
  <1>7. QED
    BY <1>4, <1>5, <1>6

-----------------------------------------------------------------------------
(* More about picks                                                        *)

\* The positions S in their order are g[1], ..., g[n].
Lists(g, n, S) ==
    /\ n \in Nat /\ g \in [1..n -> Nat] /\ \A i, j \in 1..n : i < j => g[i] < g[j]
    /\ \A i \in 1..n : g[i] \in S
    /\ \A k \in S : \E i \in 1..n : g[i] = k

LEMMA NthInOrder ==
    ASSUME NEW g, NEW n, NEW S, Lists(g, n, S)
    PROVE  /\ S \in SUBSET Nat /\ IsFiniteSet(S) /\ Cardinality(S) = n
           /\ \A i \in 1..n : Rank(S, g[i]) = i /\ Nth(S, i) = g[i]
  <1> USE DEF Lists
  <1>0. S = {g[i] : i \in 1..n}
    OBVIOUS
  <1>1. S \in SUBSET Nat
    BY <1>0
  <1>2. \A i, j \in 1..n : g[i] <= g[j] <=> i <= j
    <2> SUFFICES ASSUME NEW i \in 1..n, NEW j \in 1..n PROVE g[i] <= g[j] <=> i <= j
      OBVIOUS
    <2>1. g[i] \in Nat /\ g[j] \in Nat /\ (i < j => g[i] < g[j]) /\ (j < i => g[j] < g[i])
      OBVIOUS
    <2>2. QED
      BY <2>1
  <1>3. ASSUME NEW m \in 0..n
        PROVE  LET I == {g[i] : i \in 1..m} IN IsFiniteSet(I) /\ Cardinality(I) = m
    <2> DEFINE I == {g[i] : i \in 1..m}  h == [i \in 1..m |-> g[i]]
    <2>1. \A i, j \in 1..m : h[i] = h[j] => i = j
      <3> SUFFICES ASSUME NEW i \in 1..m, NEW j \in 1..m, g[i] = g[j] PROVE i = j
        OBVIOUS
      <3>1. i \in 1..n /\ j \in 1..n /\ g[i] \in Nat
        OBVIOUS
      <3>2. i <= j /\ j <= i
        BY <1>2, <3>1
      <3>3. QED
        BY <3>1, <3>2
    <2>2. h \in Bijection(1..m, I)
      <3>1. h \in [1..m -> I] /\ \A x \in I : \E i \in 1..m : h[i] = x
        OBVIOUS
      <3>2. QED
        BY <2>1, <3>1 DEF Bijection, Injection, Surjection, IsInjective
    <2>3. IsFiniteSet(1..m) /\ Cardinality(1..m) = m
      BY FS_Interval
    <2>4. QED
      BY <2>2, <2>3, FS_Bijection DEF ExistsBijection
  <1>4. IsFiniteSet(S) /\ Cardinality(S) = n
    <2>1. n \in 0..n
      OBVIOUS
    <2>2. QED
      BY <1>0, <1>3, <2>1
  <1>5. ASSUME NEW i \in 1..n PROVE Rank(S, g[i]) = i
    <2>1. {h \in S : h <= g[i]} = {g[j] : j \in 1..i}
      <3>1. \A j \in 1..n : g[j] <= g[i] <=> j \in 1..i
        BY <1>2
      <3>2. \A j \in 1..i : j \in 1..n
        OBVIOUS
      <3>3. QED
        BY <1>0, <3>1, <3>2
    <2>2. i \in 0..n
      OBVIOUS
    <2>3. QED
      BY <1>3, <2>1, <2>2 DEF Rank
  <1>6. \A i \in 1..n : Nth(S, i) = g[i]
    <2>1. \A i \in 1..n : g[i] \in S
      OBVIOUS
    <2>2. \A k \in S : Nth(S, Rank(S, k)) = k
      BY <1>1, <1>4, NthOfRank
    <2>3. QED
      BY <1>5, <2>1, <2>2
  <1>7. QED
    BY <1>1, <1>4, <1>5, <1>6

\* Nth gives the elements in their order.
LEMMA NthGrows ==
    ASSUME NEW S \in SUBSET Nat, IsFiniteSet(S)
    PROVE  \A i, j \in 1..Cardinality(S) : i < j => Nth(S, i) < Nth(S, j)
  <1> SUFFICES ASSUME NEW i \in 1..Cardinality(S), NEW j \in 1..Cardinality(S), i < j, ~(Nth(S, i) < Nth(S, j))
               PROVE  FALSE
    OBVIOUS
  <1>1. /\ Nth(S, i) \in S /\ Rank(S, Nth(S, i)) = i
        /\ Nth(S, j) \in S /\ Rank(S, Nth(S, j)) = j
    BY NthOfRank
  <1>2. Cardinality(S) \in Nat
    BY RankKind
  <1>3. Nth(S, i) \in Nat /\ Nth(S, j) \in Nat /\ i \in Nat /\ j \in Nat
    <2>1. i \in Nat /\ j \in Nat
      BY <1>2
    <2>2. QED
      BY <1>1, <2>1
  <1>4. CASE Nth(S, i) = Nth(S, j)
    BY <1>1, <1>3, <1>4
  <1>5. CASE Nth(S, j) < Nth(S, i)
    BY <1>1, <1>3, <1>5, RankGrows
  <1>6. QED
    BY <1>3, <1>4, <1>5

\* First some positions, then others that come after them.
LEMMA PickedConcat ==
    ASSUME NEW S \in SUBSET Nat, IsFiniteSet(S), NEW T \in SUBSET Nat, IsFiniteSet(T),
           \A s \in S, t \in T : s < t, NEW f, NEW X, \A k \in S \cup T : f[k] \in X
    PROVE  /\ Picked(f, S \cup T) = Picked(f, S) \o Picked(f, T)
           /\ IsFiniteSet(S \cup T) /\ Cardinality(S \cup T) = Cardinality(S) + Cardinality(T)
  <1> DEFINE m == Cardinality(S)  n == Cardinality(T)
             g == [i \in 1..(m + n) |-> IF i <= m THEN Nth(S, i) ELSE Nth(T, i - m)]
  <1>1. m \in Nat /\ n \in Nat
    BY RankKind
  <1>2. /\ \A i \in 1..m : Nth(S, i) \in S
        /\ \A i \in 1..n : Nth(T, i) \in T
        /\ \A k \in S : Rank(S, k) \in 1..m /\ Nth(S, Rank(S, k)) = k
        /\ \A k \in T : Rank(T, k) \in 1..n /\ Nth(T, Rank(T, k)) = k
    BY NthOfRank, RankKind
  <1>3. /\ \A i, j \in 1..m : i < j => Nth(S, i) < Nth(S, j)
        /\ \A i, j \in 1..n : i < j => Nth(T, i) < Nth(T, j)
    BY NthGrows
  <1> HIDE DEF m, n
  <1>4. \A i \in 1..(m + n) : (i <= m => i \in 1..m) /\ (~(i <= m) => i - m \in 1..n)
    BY <1>1
  <1>5. g \in [1..(m + n) -> Nat]
    BY <1>2, <1>4
  <1>6. ASSUME NEW i \in 1..(m + n), NEW j \in 1..(m + n), i < j PROVE g[i] < g[j]
    <2>0. i \in Nat /\ j \in Nat
      BY <1>1
    <2>1. CASE j <= m
      <3>1. i \in 1..m /\ j \in 1..m /\ i <= m
        BY <1>1, <1>6, <2>0, <2>1
      <3>2. QED
        BY <1>3, <1>6, <2>1, <3>1
    <2>2. CASE i <= m /\ ~(j <= m)
      BY <1>2, <1>4, <2>2
    <2>3. CASE ~(i <= m)
      <3>1. i - m \in 1..n /\ j - m \in 1..n /\ i - m < j - m /\ ~(j <= m)
        BY <1>1, <1>4, <1>6, <2>0, <2>3
      <3>2. QED
        BY <1>3, <2>3, <3>1
    <2>4. QED
      BY <2>1, <2>2, <2>3
  <1>7. S \cup T = {g[i] : i \in 1..(m + n)}
    <2>1. \A i \in 1..(m + n) : g[i] \in S \cup T
      BY <1>2, <1>4
    <2>2. ASSUME NEW k \in S PROVE \E i \in 1..(m + n) : g[i] = k
      <3>1. Rank(S, k) \in 1..(m + n) /\ Rank(S, k) <= m /\ Nth(S, Rank(S, k)) = k
        BY <1>1, <1>2
      <3>2. QED
        BY <3>1
    <2>3. ASSUME NEW k \in T PROVE \E i \in 1..(m + n) : g[i] = k
      <3> DEFINE i == m + Rank(T, k)
      <3>1. i \in 1..(m + n) /\ ~(i <= m) /\ i - m = Rank(T, k) /\ Nth(T, Rank(T, k)) = k
        BY <1>1, <1>2
      <3>2. QED
        BY <3>1
    <2> HIDE DEF g
    <2>4. QED
      BY <2>1, <2>2, <2>3
  <1> HIDE DEF g
  <1>8. /\ Picked(f, S \cup T) = [i \in 1..(m + n) |-> f[g[i]]]
        /\ IsFiniteSet(S \cup T) /\ Cardinality(S \cup T) = m + n
    <2>1. PICK U, l : U = S \cup T /\ l = m + n
      OBVIOUS
    <2>2. /\ l \in Nat /\ g \in [1..l -> Nat] /\ (\A i, j \in 1..l : i < j => g[i] < g[j])
          /\ (\A i \in 1..l : g[i] \in U) /\ (\A k \in U : \E i \in 1..l : g[i] = k)
      BY <1>1, <1>5, <1>6, <1>7, <2>1
    <2>3. Lists(g, l, U)
      BY <2>2 DEF Lists
    <2>4. IsFiniteSet(U) /\ Cardinality(U) = l /\ \A i \in 1..l : Nth(U, i) = g[i]
      BY <2>3, NthInOrder
    <2>5. Picked(f, U) = [i \in 1..l |-> f[g[i]]]
      BY <2>4 DEF Picked
    <2>6. QED
      BY <2>1, <2>4, <2>5
  <1>9. /\ Picked(f, S) \in Seq(X) /\ Len(Picked(f, S)) = m
        /\ Picked(f, T) \in Seq(X) /\ Len(Picked(f, T)) = n
    BY PickedKind DEF m, n
  <1>10. \A i \in 1..(m + n) : f[g[i]] = IF i <= m THEN Picked(f, S)[i] ELSE Picked(f, T)[i - m]
    <2>1. \A i \in 1..m : Picked(f, S)[i] = f[Nth(S, i)]
      BY DEF Picked, m
    <2>2. \A i \in 1..n : Picked(f, T)[i] = f[Nth(T, i)]
      BY DEF Picked, n
    <2>3. \A i \in 1..(m + n) : g[i] = IF i <= m THEN Nth(S, i) ELSE Nth(T, i - m)
      BY DEF g
    <2>4. QED
      BY <1>4, <2>1, <2>2, <2>3
  <1>11. Picked(f, S) \o Picked(f, T) = [i \in 1..(m + n) |-> f[g[i]]]
    <2> DEFINE c == Picked(f, S) \o Picked(f, T)
    <2>1. /\ c \in Seq(X) /\ Len(c) = m + n
          /\ \A i \in 1..(m + n) : c[i] = IF i <= m THEN Picked(f, S)[i] ELSE Picked(f, T)[i - m]
      BY <1>9, ConcatProperties
    <2> HIDE DEF c
    <2>2. c \in [1..(m + n) -> X] /\ \A i \in 1..(m + n) : c[i] = f[g[i]]
      BY <1>10, <2>1, LenProperties
    <2>3. c = [i \in 1..(m + n) |-> f[g[i]]]
      BY <2>2
    <2>4. QED
      BY <2>3 DEF c
  <1>12. QED
    BY <1>8, <1>11 DEF m, n

\* From p to e no more of S, or one more.
LEMMA RankSame ==
    ASSUME NEW S \in SUBSET Nat, NEW p \in Nat, NEW e \in Nat, p <= e, \A k \in S : k <= e => k <= p
    PROVE  Rank(S, e) = Rank(S, p) /\ {k \in S : k <= e} = {k \in S : k <= p}
  <1>0. \A k \in S : k <= e <=> k <= p
    <2> SUFFICES ASSUME NEW k \in S PROVE k <= p => k <= e
      OBVIOUS
    <2>1. k \in Nat
      OBVIOUS
    <2>2. QED
      BY <2>1
  <1>1. {k \in S : k <= e} = {k \in S : k <= p}
    BY <1>0
  <1>2. QED
    BY <1>1 DEF Rank

LEMMA RankOneMore ==
    ASSUME NEW S \in SUBSET Nat, IsFiniteSet(S), NEW p \in Nat, NEW e \in Nat,
           NEW x \in S, p < x, x <= e, \A k \in S : k <= e => k <= p \/ k = x
    PROVE  Rank(S, e) = Rank(S, p) + 1 /\ {k \in S : k <= e} = {k \in S : k <= p} \cup {x}
  <1> DEFINE P == {k \in S : k <= p}
  <1>0. \A k \in S : k <= e <=> k <= p \/ k = x
    <2> SUFFICES ASSUME NEW k \in S PROVE k <= p \/ k = x => k <= e
      OBVIOUS
    <2>1. k \in Nat /\ x \in Nat
      OBVIOUS
    <2>2. QED
      BY <2>1
  <1>1. {k \in S : k <= e} = P \cup {x} /\ x \notin P
    <2>1. x \in Nat /\ ~(x <= p)
      OBVIOUS
    <2>2. QED
      BY <1>0, <2>1
  <1>2. IsFiniteSet(P)
    BY FS_Subset
  <1>3. QED
    BY <1>1, <1>2, FS_AddElement DEF Rank
=============================================================================
