---- MODULE CountingLemmas ----
(***************************************************************************)
(* How many threads stand at certain points of their code, and how that    *)
(* number changes when one thread moves.  The lock, token and reader       *)
(* counts of the modules proved about are all of this form.  Then the sums *)
(* of sequences of numbers, and finite sets of numbers in their order,     *)
(* both by the least counterexample, for there is no induction.            *)
(***************************************************************************)
EXTENDS Naturals, FiniteSetTheorems, WellFoundedInduction, TLAPS

Standing(T, f, S) == {t \in T : f[t] \in S}
Tally(T, f, S) == Cardinality(Standing(T, f, S))

\* From f to g, only t moves.
OnlyMoves(T, f, g, t) == \A u \in T \ {t} : g[u] = f[u]

LEMMA TallyType ==
  ASSUME NEW T, IsFiniteSet(T), NEW f, NEW S
  PROVE  IsFiniteSet(Standing(T, f, S)) /\ Tally(T, f, S) \in Nat
<1>1. IsFiniteSet(Standing(T, f, S))
  BY FS_Subset DEF Standing
<1> QED
  BY <1>1, FS_CardinalityType DEF Tally

LEMMA TallyMoves ==
  ASSUME NEW T, IsFiniteSet(T), NEW f, NEW g, NEW t \in T, NEW S,
         OnlyMoves(T, f, g, t)
  PROVE  Tally(T, g, S)
           = IF f[t] \in S
             THEN IF g[t] \in S THEN Tally(T, f, S) ELSE Tally(T, f, S) - 1
             ELSE IF g[t] \in S THEN Tally(T, f, S) + 1 ELSE Tally(T, f, S)
<1> DEFINE A == Standing(T, f, S)
           B == Standing(T, g, S)
<1>1. IsFiniteSet(A) /\ IsFiniteSet(A \ {t})
  BY TallyType, FS_Subset
<1>2. B = IF g[t] \in S THEN A \cup {t} ELSE A \ {t}
  BY DEF Standing, OnlyMoves
<1>3. t \in A <=> f[t] \in S
  BY DEF Standing
<1>4. Cardinality(A \cup {t}) = IF f[t] \in S THEN Cardinality(A) ELSE Cardinality(A) + 1
  BY <1>1, <1>3, FS_AddElement
<1>5. Cardinality(A \ {t}) = IF f[t] \in S THEN Cardinality(A) - 1 ELSE Cardinality(A)
  BY <1>1, <1>3, FS_RemoveElement
<1> HIDE DEF A, B
<1>6. Cardinality(B)
        = IF f[t] \in S
          THEN IF g[t] \in S THEN Cardinality(A) ELSE Cardinality(A) - 1
          ELSE IF g[t] \in S THEN Cardinality(A) + 1 ELSE Cardinality(A)
  BY <1>2, <1>4, <1>5
<1> QED
  BY <1>6 DEF Tally, A, B

LEMMA TallySubset ==
  ASSUME NEW T, IsFiniteSet(T), NEW f, NEW R, NEW S, R \subseteq S
  PROVE  /\ Tally(T, f, R) <= Tally(T, f, S)
         /\ \A t \in T : f[t] \in S \ R => Tally(T, f, R) < Tally(T, f, S)
<1>1. /\ IsFiniteSet(Standing(T, f, S))
      /\ Standing(T, f, R) \subseteq Standing(T, f, S)
  BY TallyType DEF Standing
<1>2. Tally(T, f, R) <= Tally(T, f, S)
  BY <1>1, FS_Subset DEF Tally
<1>3. ASSUME NEW t \in T, f[t] \in S \ R PROVE Tally(T, f, R) < Tally(T, f, S)
  <2>1. Standing(T, f, R) # Standing(T, f, S)
    BY <1>3 DEF Standing
  <2> QED
    BY <1>1, <2>1, FS_Subset, TallyType DEF Tally
<1> QED
  BY <1>2, <1>3

LEMMA TallyNone ==
  ASSUME NEW T, IsFiniteSet(T), NEW f, NEW S
  PROVE  Tally(T, f, S) = 0 <=> \A t \in T : f[t] \notin S
<1>1. IsFiniteSet(Standing(T, f, S))
  BY TallyType
<1>2. Cardinality(Standing(T, f, S)) = 0 <=> Standing(T, f, S) = {}
  BY <1>1, FS_EmptySet
<1> QED
  BY <1>2 DEF Tally, Standing

LEMMA TallyOne ==
  ASSUME NEW T, IsFiniteSet(T), NEW f, NEW S, Tally(T, f, S) = 1,
         NEW t \in T, NEW u \in T, f[t] \in S, f[u] \in S
  PROVE  t = u
<1>1. t \in Standing(T, f, S) /\ u \in Standing(T, f, S)
  BY DEF Standing
<1> QED
  BY <1>1, TallyType, FS_Singleton DEF Tally

\* A set of numbers has a least element.
LEMMA HasLeast ==
  ASSUME NEW T \in SUBSET Nat, T # {}
  PROVE  \E x \in T : \A y \in T : x <= y
<1>1. PICK x \in T : \A y \in T : ~ (<<y, x>> \in OpToRel(<, Nat))
  BY NatLessThanWellFounded, WFMin
<1>2. \A y \in T : <<y, x>> \in Nat \X Nat
  OBVIOUS
<1>3. \A y \in T : ~ (y < x)
  BY <1>1, <1>2 DEF OpToRel
<1> QED
  BY <1>3

----
(***************************************************************************)
(* Sums: a function that adds up another is there, although it is defined  *)
(* by recursion.                                                           *)
(***************************************************************************)
\* g adds up w as far as n.
Adds(w, g, n) == g = [i \in 0 .. n |-> IF i = 0 THEN 0 ELSE g[i - 1] + w[i]]

LEMMA AddsOn ==
  ASSUME NEW w, NEW n \in Nat, n # 0, NEW g, Adds(w, g, n - 1)
  PROVE  \E h : Adds(w, h, n)
<1> DEFINE h == [i \in 0 .. n |-> IF i = n THEN g[n - 1] + w[n] ELSE g[i]]
<1>1. \A i \in 0 .. n - 1 : g[i] = IF i = 0 THEN 0 ELSE g[i - 1] + w[i]
  BY DEF Adds
<1>2. ASSUME NEW i \in 0 .. n PROVE h[i] = IF i = 0 THEN 0 ELSE h[i - 1] + w[i]
  <2>1. CASE i = n
    BY <2>1
  <2>2. CASE i # n /\ i # 0
    BY <2>2, <1>1
  <2>3. CASE i # n /\ i = 0
    BY <2>3, <1>1
  <2> QED
    BY <2>1, <2>2, <2>3
<1>3. h = [i \in 0 .. n |-> IF i = 0 THEN 0 ELSE h[i - 1] + w[i]]
  BY <1>2
<1> QED
  BY <1>3 DEF Adds

LEMMA AddsExist ==
  ASSUME NEW w, NEW n \in Nat
  PROVE  \E g : Adds(w, g, n)
<1> DEFINE T == {k \in Nat : ~ \E g : Adds(w, g, k)}
<1>1. SUFFICES ASSUME n \in T PROVE FALSE
  OBVIOUS
<1>2. PICK k \in T : \A j \in T : k <= j
  <2> HIDE DEF T
  <2>1. T \subseteq Nat
    BY DEF T
  <2> QED
    BY <1>1, <2>1, HasLeast
<1>3. CASE k = 0
  <2>1. Adds(w, [i \in 0 .. 0 |-> 0], 0)
    BY DEF Adds
  <2> QED
    BY <1>2, <1>3, <2>1
<1>4. CASE k # 0
  <2>1. k - 1 \in Nat /\ k - 1 \notin T
    BY <1>2, <1>4
  <2>2. PICK g : Adds(w, g, k - 1)
    BY <2>1
  <2> QED
    BY <1>2, <1>4, <2>2, AddsOn
<1> QED
  BY <1>3, <1>4

LEMMA AddsAgree ==
  ASSUME NEW w, NEW m \in Nat, NEW n \in Nat, m <= n, NEW g, NEW h,
         Adds(w, g, m), Adds(w, h, n), NEW i \in 0 .. m
  PROVE  g[i] = h[i]
<1> DEFINE T == {k \in 0 .. m : g[k] # h[k]}
<1>1. SUFFICES ASSUME i \in T PROVE FALSE
  OBVIOUS
<1>2. PICK k \in T : \A j \in T : k <= j
  <2> HIDE DEF T
  <2>1. T \subseteq Nat
    BY DEF T
  <2> QED
    BY <1>1, <2>1, HasLeast
<1>3. /\ g[k] = IF k = 0 THEN 0 ELSE g[k - 1] + w[k]
      /\ h[k] = IF k = 0 THEN 0 ELSE h[k - 1] + w[k]
  BY <1>2 DEF Adds
<1>4. k # 0 /\ k - 1 \in 0 .. m /\ k - 1 \notin T
  BY <1>2, <1>3
<1> QED
  BY <1>2, <1>3, <1>4

LEMMA SumsExist ==
  ASSUME NEW w
  PROVE  \E f : f = [n \in Nat |-> IF n = 0 THEN 0 ELSE f[n - 1] + w[n]]
<1> DEFINE sums(n) == CHOOSE g : Adds(w, g, n)
           f == [n \in Nat |-> sums(n)[n]]
<1>1. \A n \in Nat : Adds(w, sums(n), n)
  BY AddsExist
<1>2. ASSUME NEW n \in Nat PROVE f[n] = IF n = 0 THEN 0 ELSE f[n - 1] + w[n]
  <2> HIDE DEF sums
  <2>1. sums(n)[n] = IF n = 0 THEN 0 ELSE sums(n)[n - 1] + w[n]
    BY <1>1 DEF Adds
  <2>2. n # 0 => sums(n)[n - 1] = sums(n - 1)[n - 1]
    BY <1>1, AddsAgree
  <2> QED
    BY <2>1, <2>2
<1>3. f = [n \in Nat |-> IF n = 0 THEN 0 ELSE f[n - 1] + w[n]]
  <2> HIDE DEF sums
  <2> QED
    BY <1>2
<1> QED
  BY <1>3

----
(***************************************************************************)
(* Places: a finite set of numbers, from the least to the largest.         *)
(***************************************************************************)
\* What is named in turn, each once, is as many as the names.
LEMMA NamesCount ==
  ASSUME NEW M, IsFiniteSet(M), NEW f, \A i, j \in M : f[i] = f[j] => i = j
  PROVE  /\ IsFiniteSet({f[i] : i \in M})
         /\ Cardinality({f[i] : i \in M}) = Cardinality(M)
<1> DEFINE S == {f[i] : i \in M}
           g == [i \in M |-> f[i]]
<1>1. g \in Surjection(M, S)
  BY DEF Surjection
<1>2. g \in Injection(M, S)
  BY DEF Injection, IsInjective
<1> HIDE DEF S, g
<1>3. IsFiniteSet(S) /\ Cardinality(S) = Cardinality(M)
  BY <1>1, <1>2, FS_Surjection
<1> QED
  BY <1>3 DEF S

\* f names numbers from the least to the largest.
Names(f, n) == {f[i] : i \in 1 .. n}

Ascends(f, n) == f \in [1 .. n -> Nat] /\ \A i, j \in 1 .. n : i < j => f[i] < f[j]

LEMMA AscendingCounts ==
  ASSUME NEW n \in Nat, NEW f, Ascends(f, n)
  PROVE  /\ IsFiniteSet({f[i] : i \in 1 .. n})
         /\ Cardinality({f[i] : i \in 1 .. n}) = n
<1> DEFINE D == 1 .. n
<1>1. \A i, j \in D : f[i] = f[j] => i = j
  BY DEF Ascends
<1>2. IsFiniteSet(D) /\ Cardinality(D) = n
  BY FS_Interval
<1> HIDE DEF D
<1>3. IsFiniteSet({f[i] : i \in D}) /\ Cardinality({f[i] : i \in D}) = Cardinality(D)
  BY <1>1, <1>2, NamesCount
<1> QED
  BY <1>2, <1>3 DEF D

\* The k-th is the one up to which there are k.
LEMMA AscendingRanks ==
  ASSUME NEW n \in Nat, NEW f, Ascends(f, n), NEW k \in 1 .. n
  PROVE  Cardinality({j \in {f[i] : i \in 1 .. n} : j <= f[k]}) = k
<1> DEFINE S == {f[i] : i \in 1 .. n}
           g == [i \in 1 .. k |-> f[i]]
<1>0. k \in Nat
  OBVIOUS
<1>1. Ascends(g, k)
  BY DEF Ascends
<1>2. {j \in S : j <= f[k]} = {f[i] : i \in 1 .. k}
  <2>1. ASSUME NEW i \in 1 .. n PROVE f[i] <= f[k] <=> i <= k
    BY DEF Ascends
  <2> QED
    BY <2>1
<1>3. {g[j] : j \in 1 .. k} = {f[i] : i \in 1 .. k}
  OBVIOUS
<1> HIDE DEF g
<1>4. Cardinality({g[j] : j \in 1 .. k}) = k
  BY <1>0, <1>1, AscendingCounts
<1> QED
  BY <1>2, <1>3, <1>4

LEMMA Ascend ==
  ASSUME NEW n \in Nat, n # 0, NEW f, Ascends(f, n - 1), NEW m \in Nat,
         \A i \in 1 .. n - 1 : m < f[i]
  PROVE  \E g : /\ Ascends(g, n)
                /\ Names(g, n) = {m} \cup Names(f, n - 1)
<1> DEFINE g == [i \in 1 .. n |-> IF i = 1 THEN m ELSE f[i - 1]]
<1>1. ASSUME NEW i \in 1 .. n
      PROVE  /\ i = 1 => g[i] = m
             /\ i # 1 => g[i] = f[i - 1] /\ i - 1 \in 1 .. n - 1
             /\ g[i] \in Nat
  BY DEF Ascends
<1>2. g \in [1 .. n -> Nat]
  BY <1>1
<1>3. ASSUME NEW i \in 1 .. n, NEW j \in 1 .. n, i < j PROVE g[i] < g[j]
  <2>1. j # 1 /\ j - 1 \in 1 .. n - 1 /\ g[j] = f[j - 1]
    BY <1>1, <1>3
  <2>2. CASE i = 1
    BY <1>1, <2>1, <2>2
  <2>3. CASE i # 1
    <3>1. i - 1 \in 1 .. n - 1 /\ g[i] = f[i - 1] /\ i - 1 < j - 1
      BY <1>1, <1>3, <2>3
    <3> QED
      BY <2>1, <3>1 DEF Ascends
  <2> QED
    BY <2>2, <2>3
<1>4. {g[i] : i \in 1 .. n} = {m} \cup {f[i] : i \in 1 .. n - 1}
  <2>1. g[1] = m /\ 1 \in 1 .. n
    BY <1>1
  <2>2. \A i \in 1 .. n - 1 : i + 1 \in 1 .. n /\ g[i + 1] = f[i]
    OBVIOUS
  <2> HIDE DEF g
  <2> QED
    BY <1>1, <2>1, <2>2
<1> HIDE DEF g
<1> QED
  BY <1>2, <1>3, <1>4 DEF Ascends, Names

\* Every finite set of numbers can be named so.
LEMMA Enumerable ==
  ASSUME NEW S \in SUBSET Nat, IsFiniteSet(S)
  PROVE  \E f : Ascends(f, Cardinality(S)) /\ S = Names(f, Cardinality(S))
<1> DEFINE Named(R) == \E f : /\ Ascends(f, Cardinality(R))
                              /\ R = Names(f, Cardinality(R))
           T == {n \in Nat : \E R \in SUBSET Nat : /\ IsFiniteSet(R) /\ Cardinality(R) = n
                                                   /\ ~Named(R)}
<1>1. SUFFICES ASSUME ~Named(S) PROVE FALSE
  OBVIOUS
<1>2. Cardinality(S) \in T
  BY <1>1, FS_CardinalityType
<1>3. PICK n \in T : \A k \in T : n <= k
  <2>1. T \subseteq Nat
    OBVIOUS
  <2> HIDE DEF T
  <2> QED
    BY <1>2, <2>1, HasLeast
<1>4. PICK R \in SUBSET Nat : IsFiniteSet(R) /\ Cardinality(R) = n /\ ~Named(R)
  BY <1>3
<1>5. n \in Nat
  BY <1>3
<1>6. CASE n = 0
  <2>1. R = {}
    BY <1>4, <1>6, FS_EmptySet
  <2>2. Ascends([i \in 1 .. 0 |-> 0], 0)
    BY DEF Ascends
  <2>3. R = Names([i \in 1 .. 0 |-> 0], 0)
    BY <2>1 DEF Names
  <2> QED
    BY <1>4, <1>6, <2>2, <2>3
<1>7. CASE n # 0
  <2>1. R # {}
    BY <1>4, <1>7, FS_EmptySet
  <2>2. PICK m \in R : \A x \in R : m <= x
    BY <2>1, HasLeast
  <2> DEFINE Q == R \ {m}
  <2>3. IsFiniteSet(Q) /\ Cardinality(Q) = n - 1 /\ n - 1 \in Nat
    BY <1>4, <1>5, <1>7, <2>2, FS_RemoveElement
  <2>4. Named(Q)
    <3>1. n - 1 \notin T
      BY <1>3, <1>5, <2>3
    <3> QED
      BY <2>3, <3>1
  <2>5. PICK f : Ascends(f, n - 1) /\ Q = Names(f, n - 1)
    BY <2>3, <2>4
  <2>6. \A i \in 1 .. n - 1 : m < f[i]
    <3> SUFFICES ASSUME NEW i \in 1 .. n - 1 PROVE m < f[i]
      OBVIOUS
    <3>1. f[i] \in R /\ f[i] # m
      BY <2>5 DEF Names
    <3>2. m \in Nat /\ f[i] \in Nat /\ m <= f[i]
      BY <2>2, <3>1
    <3> QED
      BY <3>1, <3>2
  <2>7. m \in Nat
    OBVIOUS
  <2>8. Ascends(f, n - 1)
    BY <2>5
  <2> HIDE DEF Q, T, Named
  <2>9. \E g : /\ Ascends(g, n)
               /\ Names(g, n) = {m} \cup Names(f, n - 1)
    BY <1>5, <1>7, <2>6, <2>7, <2>8, Ascend
  <2>10. R = {m} \cup Names(f, n - 1)
    BY <2>2, <2>5 DEF Q
  <2> QED
    BY <1>4, <2>9, <2>10, Zenon DEF Named
<1> QED
  BY <1>6, <1>7
====
