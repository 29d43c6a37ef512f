---------------------------- MODULE FiniteLemmas ----------------------------
(***************************************************************************)
(* What the proofs need of numbers and finite sets and the library does    *)
(* not state in a form the provers can use: induction over a set of        *)
(* numbers, the existence of recursive functions, of least elements, and   *)
(* of as many members in one set as in another.                            *)
(***************************************************************************)
EXTENDS Integers, FiniteSets, FiniteSetTheorems, WellFoundedInduction, TLAPS

\* Induction over the numbers that belong to a set: were one missing, the
\* smallest interval up to a missing one would not be smallest.
LEMMA SetInduction ==
  ASSUME NEW T, 0 \in T, \A n \in Nat : n \in T => n + 1 \in T
  PROVE  \A n \in Nat : n \in T
<1> SUFFICES ASSUME \E n \in Nat : n \notin T
             PROVE  FALSE
  OBVIOUS
<1> DEFINE B == {n \in Nat : n \notin T}
           U == {1..n : n \in B}
<1>1. U # {}
  OBVIOUS
<1>2. U \subseteq FiniteSubsetsOf(Nat)
  <2>1. \A n \in Nat : IsFiniteSet(1..n)
    BY FS_Interval
  <2> QED
    BY <2>1 DEF FiniteSubsetsOf
<1>3. IsWellFoundedOn(StrictSubsetOrdering(Nat), FiniteSubsetsOf(Nat))
  BY FS_StrictSubsetOrderingWellFounded
<1>4. PICK x \in U : \A y \in U : <<y, x>> \notin StrictSubsetOrdering(Nat)
  <2> HIDE DEF U
  <2> QED
    BY <1>1, <1>2, <1>3, WFMin
<1>5. PICK n \in B : x = 1..n
  OBVIOUS
<1>6. n \in Nat \ {0} /\ n - 1 \in B
  <2>1. n # 0
    OBVIOUS
  <2>2. n - 1 \in Nat
    BY <2>1
  <2>3. n - 1 \notin T
    BY <2>2
  <2> QED
    BY <2>1, <2>2, <2>3
<1>7. 1..(n - 1) \in U
  BY <1>6
<1>8. <<1..(n - 1), 1..n>> \in StrictSubsetOrdering(Nat)
  <2>1. 1..(n - 1) \in SUBSET Nat /\ 1..n \in SUBSET Nat /\ 1..(n - 1) \subseteq 1..n
    BY <1>6
  <2>2. n \in 1..n /\ n \notin 1..(n - 1)
    BY <1>6
  <2> QED
    BY <2>1, <2>2 DEF StrictSubsetOrdering
<1> QED
  BY <1>4, <1>5, <1>7, <1>8

\* v0, what G makes of it, what G makes of that, and so on up to N.
Iterates(N, V, v0, G) ==
  \E f \in [0..N -> V] : f[0] = v0 /\ \A i \in 1..N : f[i] = G[<<f[i - 1], i>>]

\* A recursive function that goes up one number at a time, within a set V, exists.
LEMMA RecursiveFunction ==
  ASSUME NEW N \in Nat, NEW V, NEW v0 \in V, NEW G \in [V \X (1..N) -> V]
  PROVE  Iterates(N, V, v0, G)
<1> DEFINE Good(f, k) == f[0] = v0 /\ \A i \in 1..k : f[i] = G[<<f[i - 1], i>>]
           T == {k \in Nat : k <= N => \E f \in [0..k -> V] : Good(f, k)}
<1>1. 0 \in T
  <2> DEFINE f == [i \in 0..0 |-> v0]
  <2>1. f \in [0..0 -> V] /\ Good(f, 0)
    OBVIOUS
  <2> QED
    BY <2>1
<1>2. ASSUME NEW k \in Nat, k \in T
      PROVE  k + 1 \in T
  <2> SUFFICES ASSUME k + 1 <= N
               PROVE  \E f \in [0..(k + 1) -> V] : Good(f, k + 1)
    OBVIOUS
  <2>1. PICK g \in [0..k -> V] : Good(g, k)
    BY <1>2
  <2> DEFINE v == G[<<g[k], k + 1>>]
             h == [i \in 0..(k + 1) |-> IF i <= k THEN g[i] ELSE v]
  <2>2. v \in V
    BY <2>1
  <2> HIDE DEF v
  <2>3. h \in [0..(k + 1) -> V] /\ h[k + 1] = v /\ \A i \in 0..k : h[i] = g[i]
    BY <2>2
  <2> HIDE DEF h
  <2>4. h[0] = v0
    BY <2>1, <2>3
  <2>5. ASSUME NEW i \in 1..(k + 1)
        PROVE  h[i] = G[<<h[i - 1], i>>]
    <3>1. CASE i \in 1..k
      <4>1. i - 1 \in 0..k /\ i \in 0..k
        BY <3>1
      <4> QED
        BY <2>1, <2>3, <3>1, <4>1
    <3>2. CASE i = k + 1
      <4>1. i - 1 = k /\ k \in 0..k
        BY <3>2
      <4> QED
        BY <2>3, <3>2, <4>1 DEF v
    <3> QED
      BY <3>1, <3>2
  <2> QED
    BY <2>3, <2>4, <2>5
<1>3. N \in T
  <2> HIDE DEF T
  <2> QED
    BY <1>1, <1>2, SetInduction
<1> QED
  BY <1>3 DEF Iterates

-----------------------------------------------------------------------------
\* What a search for the best finds

\* Among finitely many there is one that is at least as good as every other.
LEMMA BestExists ==
  ASSUME NEW S, IsFiniteSet(S), S # {}, NEW R,
         \A x, y \in S : <<x, y>> \in R \/ <<y, x>> \in R,
         \A x, y, z \in S : <<x, y>> \in R /\ <<y, z>> \in R => <<x, z>> \in R
  PROVE  \E x \in S : \A y \in S : <<x, y>> \in R
<1> DEFINE Has(U) == \E x \in U : \A y \in U : <<x, y>> \in R
           T == {k \in Nat : \A U \in SUBSET S : U # {} /\ Cardinality(U) = k => Has(U)}
<1>1. 0 \in T
  <2>1. ASSUME NEW U \in SUBSET S, Cardinality(U) = 0
        PROVE  U = {}
    BY <2>1, FS_Subset, FS_EmptySet
  <2> QED
    BY <2>1
<1>2. ASSUME NEW k \in Nat, k \in T
      PROVE  k + 1 \in T
  <2> SUFFICES ASSUME NEW U \in SUBSET S, U # {}, Cardinality(U) = k + 1
               PROVE  Has(U)
    OBVIOUS
  <2>1. PICK u \in U : TRUE
    OBVIOUS
  <2>2. Cardinality(U \ {u}) = k /\ U \ {u} \in SUBSET S
    <3>1. IsFiniteSet(U)
      BY FS_Subset
    <3>2. Cardinality(U \ {u}) = Cardinality(U) - 1
      BY <2>1, <3>1, FS_RemoveElement
    <3> QED
      BY <3>2
  <2>3. CASE U \ {u} = {}
    BY <2>1, <2>3
  <2>4. CASE U \ {u} # {}
    <3>1. PICK x \in U \ {u} : \A y \in U \ {u} : <<x, y>> \in R
      BY <1>2, <2>2, <2>4
    <3>2. CASE <<x, u>> \in R
      BY <3>1, <3>2
    <3>3. CASE <<u, x>> \in R
      BY <3>1, <3>3
    <3> QED
      BY <3>2, <3>3
  <2> QED
    BY <2>3, <2>4
<1>3. \A k \in Nat : k \in T
  <2> HIDE DEF T
  <2> QED
    BY <1>1, <1>2, SetInduction
<1> QED
  BY <1>3, FS_CardinalityType

LEMMA SmallestExists ==
  ASSUME NEW S, IsFiniteSet(S), S # {}, NEW f, \A x \in S : f[x] \in Nat
  PROVE  \E x \in S : \A y \in S : f[x] <= f[y]
<1> DEFINE R == {p \in S \X S : f[p[1]] <= f[p[2]]}
<1>1. \A x, y \in S : <<x, y>> \in R <=> f[x] <= f[y]
  OBVIOUS
<1> HIDE DEF R
<1>2. /\ \A x, y \in S : <<x, y>> \in R \/ <<y, x>> \in R
      /\ \A x, y, z \in S : <<x, y>> \in R /\ <<y, z>> \in R => <<x, z>> \in R
  BY <1>1
<1>3. \E x \in S : \A y \in S : <<x, y>> \in R
  BY <1>2, BestExists
<1> QED
  BY <1>1, <1>3

LEMMA GreatestExists ==
  ASSUME NEW S, IsFiniteSet(S), S # {}, NEW f, \A x \in S : f[x] \in Nat
  PROVE  \E x \in S : \A y \in S : f[y] <= f[x]
<1> DEFINE R == {p \in S \X S : f[p[2]] <= f[p[1]]}
<1>1. \A x, y \in S : <<x, y>> \in R <=> f[y] <= f[x]
  OBVIOUS
<1> HIDE DEF R
<1>2. /\ \A x, y \in S : <<x, y>> \in R \/ <<y, x>> \in R
      /\ \A x, y, z \in S : <<x, y>> \in R /\ <<y, z>> \in R => <<x, z>> \in R
  BY <1>1
<1>3. \E x \in S : \A y \in S : <<x, y>> \in R
  BY <1>2, BestExists
<1> QED
  BY <1>1, <1>3

-----------------------------------------------------------------------------
\* Counting by kinds

Fibre(S, p, k) == {x \in S : p[x] = k}

\* S and T have as many members of each kind, by p and by q.
SameFibres(S, p, T, q, K) ==
  /\ p \in [S -> K] /\ q \in [T -> K]
  /\ \A k \in K : Cardinality(Fibre(S, p, k)) = Cardinality(Fibre(T, q, k))

LEMMA FibresFit ==
  ASSUME NEW S, IsFiniteSet(S), NEW T, IsFiniteSet(T), NEW K, NEW p, NEW q,
         SameFibres(S, p, T, q, K)
  PROVE  Cardinality(S) <= Cardinality(T)
<1> DEFINE b(k) == CHOOSE f : f \in Injection(Fibre(S, p, k), Fibre(T, q, k))
           h == [x \in S |-> b(p[x])[x]]
<1>1. ASSUME NEW k \in K
      PROVE  /\ b(k) \in [Fibre(S, p, k) -> Fibre(T, q, k)]
             /\ \A x, y \in Fibre(S, p, k) : b(k)[x] = b(k)[y] => x = y
  <2>1. IsFiniteSet(Fibre(S, p, k)) /\ IsFiniteSet(Fibre(T, q, k))
    <3>1. Fibre(S, p, k) \subseteq S /\ Fibre(T, q, k) \subseteq T
      BY DEF Fibre
    <3> QED
      BY <3>1, FS_Subset
  <2>2. ExistsBijection(Fibre(S, p, k), Fibre(T, q, k))
    BY <2>1, FS_SameCardinalityBij DEF SameFibres
  <2>3. \E f : f \in Injection(Fibre(S, p, k), Fibre(T, q, k))
    BY <2>2 DEF ExistsBijection, Bijection
  <2>4. b(k) \in Injection(Fibre(S, p, k), Fibre(T, q, k))
    BY <2>3
  <2> HIDE DEF b
  <2> QED
    BY <2>4 DEF Injection, IsInjective
<1> HIDE DEF b
<1>2. \A x \in S : p[x] \in K /\ x \in Fibre(S, p, p[x])
  BY DEF Fibre, SameFibres
<1>3. \A x \in S : b(p[x])[x] \in Fibre(T, q, p[x])
  BY <1>1, <1>2
<1>4. \A x \in S : b(p[x])[x] \in T /\ q[b(p[x])[x]] = p[x]
  BY <1>3 DEF Fibre
<1>5. ASSUME NEW x \in S, NEW y \in S, b(p[x])[x] = b(p[y])[y]
      PROVE  x = y
  <2>1. p[x] = p[y]
    BY <1>4, <1>5
  <2>2. x \in Fibre(S, p, p[x]) /\ y \in Fibre(S, p, p[x]) /\ p[x] \in K
    BY <1>2, <2>1
  <2>3. b(p[x])[x] = b(p[x])[y]
    BY <1>5, <2>1
  <2> QED
    BY <1>1, <2>2, <2>3
<1>6. h \in Injection(S, T)
  <2>1. h \in [S -> T]
    BY <1>4
  <2>2. \A x, y \in S : h[x] = h[y] => x = y
    BY <1>5
  <2> QED
    BY <2>1, <2>2 DEF Injection, IsInjective
<1> QED
  BY <1>6, FS_Injection

\* Two sets have as many members when they have as many of each kind.
LEMMA Fibres ==
  ASSUME NEW S, IsFiniteSet(S), NEW T, IsFiniteSet(T), NEW K, NEW p, NEW q,
         SameFibres(S, p, T, q, K)
  PROVE  Cardinality(S) = Cardinality(T)
<1>1. Cardinality(S) <= Cardinality(T)
  BY FibresFit
<1>2. SameFibres(T, q, S, p, K)
  BY DEF SameFibres
<1>3. Cardinality(T) <= Cardinality(S)
  BY <1>2, FibresFit
<1>4. Cardinality(S) \in Nat /\ Cardinality(T) \in Nat
  BY FS_CardinalityType
<1> QED
  BY <1>1, <1>3, <1>4

LEMMA RowSize ==
  ASSUME NEW k, NEW n \in Nat
  PROVE  IsFiniteSet({k} \X (1..n)) /\ Cardinality({k} \X (1..n)) = n
<1>1. IsFiniteSet({k}) /\ Cardinality({k}) = 1
  BY FS_Singleton
<1>2. IsFiniteSet(1..n) /\ Cardinality(1..n) = n
  <2>1. IsFiniteSet(1..n) /\ Cardinality(1..n) = IF 1 > n THEN 0 ELSE n - 1 + 1
    BY FS_Interval
  <2> QED
    BY <2>1
<1>3. /\ IsFiniteSet({k} \X (1..n))
      /\ Cardinality({k} \X (1..n)) = Cardinality({k}) * Cardinality(1..n)
  BY <1>1, <1>2, FS_Product
<1> QED
  BY <1>1, <1>2, <1>3
=============================================================================
