------------------------------ MODULE Counting ------------------------------
(* Lemmas about the rank of a number in a set of numbers, for the models   *)
(* that count the entries of a bounded list, and about the sum of a        *)
(* function over a finite set, for those that add up blocks and capacity.  *)
EXTENDS Integers, FiniteSetTheorems, WellFoundedInduction, TLAPS

\* The members of S among the first i numbers.
Rank(S, i) == Cardinality({j \in 1 .. i : j \in S})

LEMMA RankType ==
    ASSUME NEW S, NEW i \in Nat
    PROVE  /\ Rank(S, i) \in Nat
           /\ IsFiniteSet({j \in 1 .. i : j \in S})
           /\ i \in S /\ i > 0 => Rank(S, i) > 0
<1>1. IsFiniteSet(1 .. i)
  BY FS_Interval
<1>2. /\ IsFiniteSet({j \in 1 .. i : j \in S})
      /\ Rank(S, i) \in Nat
  BY <1>1, FS_Subset, FS_CardinalityType DEF Rank
<1>3. ASSUME i \in S, i > 0 PROVE Rank(S, i) > 0
  <2>1. {j \in 1 .. i : j \in S} # {}
    BY <1>3
  <2> QED  BY <2>1, <1>2, FS_EmptySet DEF Rank
<1> QED  BY <1>2, <1>3

LEMMA RankIncreases ==
    ASSUME NEW S, NEW i \in Nat, NEW j \in Nat, i < j, j \in S
    PROVE  Rank(S, i) < Rank(S, j)
<1> DEFINE I == {m \in 1 .. i : m \in S}
           J == {m \in 1 .. j : m \in S}
<1>1. I \in SUBSET J /\ j \in J /\ j \notin I
  OBVIOUS
<1>2. IsFiniteSet(J) /\ Cardinality(I) \in Nat /\ Cardinality(J) \in Nat
  BY RankType DEF Rank
<1>3. Cardinality(I) <= Cardinality(J) /\ Cardinality(J) # Cardinality(I)
  BY <1>1, <1>2, FS_Subset
<1> QED  BY <1>2, <1>3 DEF Rank

\* Among the members of S, at most b have a rank of at most b.
LEMMA RankBound ==
    ASSUME NEW n \in Nat, NEW b \in Nat, NEW S \in SUBSET (1 .. n)
    PROVE  LET R == {i \in S : Rank(S, i) <= b}
           IN  IsFiniteSet(R) /\ Cardinality(R) \in Nat /\ Cardinality(R) <= b
<1> DEFINE R == {i \in S : Rank(S, i) <= b}
           f == [i \in R |-> Rank(S, i)]
<1>1. IsFiniteSet(1 .. b) /\ Cardinality(1 .. b) = b
  BY FS_Interval
<1>2. ASSUME NEW i \in R PROVE i \in Nat /\ i \in S /\ Rank(S, i) \in 1 .. b
  <2>1. i \in Nat /\ i > 0 /\ i \in S /\ Rank(S, i) <= b
    OBVIOUS
  <2>2. Rank(S, i) \in Nat /\ Rank(S, i) > 0
    BY <2>1, RankType
  <2> QED  BY <2>1, <2>2
<1>3. \A i, j \in R : f[i] = f[j] => i = j
  <2> SUFFICES ASSUME NEW i \in R, NEW j \in R, i # j PROVE Rank(S, i) # Rank(S, j)
    OBVIOUS
  <2>1. /\ i \in Nat /\ i \in S /\ Rank(S, i) \in Nat
        /\ j \in Nat /\ j \in S /\ Rank(S, j) \in Nat
    BY <1>2
  <2>2. CASE i < j  BY <2>1, <2>2, RankIncreases
  <2>3. CASE j < i  BY <2>1, <2>3, RankIncreases
  <2> QED  BY <2>1, <2>2, <2>3
<1>4. f \in [R -> 1 .. b]
  BY <1>2
<1>5. f \in Injection(R, 1 .. b)
  BY <1>3, <1>4 DEF Injection, IsInjective
<1>6. IsFiniteSet(R) /\ Cardinality(R) <= b
  BY <1>1, <1>5, FS_Injection
<1> QED  BY <1>6, FS_CardinalityType

LEMMA LeastMember ==
    ASSUME NEW S \in SUBSET Nat, S # {}
    PROVE  \E i \in S : \A j \in S : i <= j
<1>1. IsWellFoundedOn(OpToRel(<, Nat), Nat)
  BY NatLessThanWellFounded
<1>2. PICK i \in S : \A j \in S : <<j, i>> \notin OpToRel(<, Nat)
  BY <1>1, WFMin
<1>3. \A j \in S : ~(j < i)
  BY <1>2 DEF OpToRel
<1>4. \A j \in S : j \in Nat /\ i \in Nat
  OBVIOUS
<1>5. \A j \in S : i <= j
  BY <1>3, <1>4
<1> QED  BY <1>5

RankedUpTo(S, b) == {i \in S : Rank(S, i) <= b}

\* If not all members of S have a rank of at most b, then b of them have.
LEMMA RankFills ==
    ASSUME NEW n \in Nat, NEW b \in Nat, NEW S \in SUBSET (1 .. n),
           RankedUpTo(S, b) # S
    PROVE  Cardinality(RankedUpTo(S, b)) = b
<1> DEFINE R == RankedUpTo(S, b)
<1> USE DEF RankedUpTo
<1>1. IsFiniteSet(R) /\ Cardinality(R) \in Nat /\ Cardinality(R) <= b
  BY RankBound
<1>2. S \ R # {} /\ S \ R \in SUBSET Nat /\ S \in SUBSET Nat
  <2>1. R \subseteq S /\ R # S /\ S \in SUBSET Nat
    OBVIOUS
  <2> HIDE DEF R
  <2>2. S \ R # {}
    BY <2>1
  <2> QED  BY <2>1, <2>2
<1>3. PICK m \in S \ R : \A j \in S \ R : m <= j
  <2> HIDE DEF R
  <2> QED  BY <1>2, LeastMember
<1> DEFINE M == {j \in 1 .. m : j \in S}
           P == M \ {m}
<1>4. m \in Nat /\ m > 0 /\ m \in S /\ m \in M
  BY <1>3
<1>5. IsFiniteSet(M) /\ Cardinality(M) \in Nat /\ Cardinality(M) > b
  BY <1>3, <1>4, RankType DEF Rank
<1>6. IsFiniteSet(P) /\ Cardinality(P) = Cardinality(M) - 1
  <2> HIDE DEF M
  <2> QED  BY <1>4, <1>5, FS_RemoveElement
<1>7. P \in SUBSET R
  <2> SUFFICES ASSUME NEW j \in P PROVE j \in R
    OBVIOUS
  <2>1. j \in Nat /\ j < m /\ j \in S
    BY <1>4
  <2>2. j \notin S \ R
    BY <1>3, <1>4, <2>1
  <2> QED  BY <2>1, <2>2
<1>8. Cardinality(P) <= Cardinality(R)
  <2> HIDE DEF P, R
  <2> QED  BY <1>1, <1>7, FS_Subset
<1> QED  BY <1>1, <1>5, <1>6, <1>8

-----------------------------------------------------------------------------
(* Sums.  Induction is by a smallest counterexample: the library's         *)
(* induction theorems take a predicate, which no prover here can fill in.  *)

LEMMA SmallestSet ==
    ASSUME NEW S, IsFiniteSet(S), NEW C, C \subseteq SUBSET S, C # {}
    PROVE  \E s \in C : \A t \in C : t \subseteq s => t = s
<1>1. C \subseteq FiniteSubsetsOf(S)
  BY FS_FiniteSubsetsOfFinite
<1>2. IsWellFoundedOn(StrictSubsetOrdering(S), FiniteSubsetsOf(S))
  BY FS_StrictSubsetOrderingWellFounded
<1>3. PICK s \in C : \A t \in C : <<t, s>> \notin StrictSubsetOrdering(S)
  BY <1>1, <1>2, WFMin
<1>4. ASSUME NEW t \in C, t \subseteq s PROVE t = s
  <2>1. <<t, s>> \notin StrictSubsetOrdering(S) /\ t \in SUBSET S /\ s \in SUBSET S
    BY <1>3
  <2>. QED
    BY <1>4, <2>1 DEF StrictSubsetOrdering
<1>. QED
  BY <1>4

\* The element of s that SumFunctionOnSet takes first.
Taken(s) == CHOOSE x \in s : TRUE

\* g is the sum of f over every subset of S.
Sums(g, f, S) ==
    g = [s \in SUBSET S |-> IF s = {} THEN 0 ELSE f[Taken(s)] + g[s \ {Taken(s)}]]

LEMMA SumIs ==
    \A f, S : SumFunctionOnSet(f, S) = (CHOOSE g : Sums(g, f, S))[S]
BY DEF SumFunctionOnSet, FoldFunctionOnSet, MapThenFoldSet, Sums, Taken

LEMMA SumsExist ==
    ASSUME NEW f, NEW S, IsFiniteSet(S)
    PROVE  \E g : Sums(g, f, S)
<1>. DEFINE Next(g, s) == IF s = {} THEN 0 ELSE f[Taken(s)] + g[s \ {Taken(s)}]
            Upto(g, n) == \A s \in SUBSET S : Cardinality(s) <= n => g[s] = Next(g, s)
            Bad == {n \in Nat : ~ \E g : Upto(g, n)}
<1>0. \A s \in SUBSET S : /\ IsFiniteSet(s) /\ Cardinality(s) \in Nat
                          /\ s # {} => /\ Taken(s) \in s /\ s \ {Taken(s)} \in SUBSET S
                                       /\ Cardinality(s \ {Taken(s)}) = Cardinality(s) - 1
  <2>. SUFFICES ASSUME NEW s \in SUBSET S
                PROVE  /\ IsFiniteSet(s) /\ Cardinality(s) \in Nat
                       /\ s # {} => /\ Taken(s) \in s /\ s \ {Taken(s)} \in SUBSET S
                                    /\ Cardinality(s \ {Taken(s)}) = Cardinality(s) - 1
    OBVIOUS
  <2>1. IsFiniteSet(s) /\ Cardinality(s) \in Nat
    BY FS_Subset, FS_CardinalityType
  <2>2. s # {} => Taken(s) \in s
    BY DEF Taken
  <2>. QED
    BY <2>1, <2>2, FS_RemoveElement
<1>1. ASSUME Bad # {} PROVE FALSE
  <2>1. PICK n \in Bad : \A m \in Bad : n <= m
    BY <1>1, LeastMember
  <2>2. n \in Nat /\ ~ \E g : Upto(g, n)
    OBVIOUS
  <2>. HIDE DEF Upto
  <2>3. CASE n = 0
    <3>. DEFINE g == [s \in SUBSET S |-> 0]
    <3>1. \A s \in SUBSET S : Cardinality(s) <= 0 => s = {}
      <4>. SUFFICES ASSUME NEW s \in SUBSET S, Cardinality(s) <= 0 PROVE s = {}
        OBVIOUS
      <4>1. IsFiniteSet(s) /\ Cardinality(s) \in Nat
        BY <1>0
      <4>2. Cardinality(s) = 0
        BY <4>1
      <4>. QED
        BY <4>1, <4>2, FS_EmptySet
    <3>2. Upto(g, 0)
      BY <3>1 DEF Upto
    <3>. HIDE DEF g
    <3>. QED
      BY <2>2, <2>3, <3>2
  <2>4. CASE n # 0
    <3>1. n - 1 \in Nat /\ n - 1 \notin Bad
      BY <2>1, <2>2, <2>4
    <3>2. PICK g : Upto(g, n - 1)
      BY <3>1
    <3>. DEFINE h == [s \in SUBSET S |-> IF Cardinality(s) <= n - 1 THEN g[s] ELSE Next(g, s)]
    <3>3. ASSUME NEW s \in SUBSET S, Cardinality(s) <= n
          PROVE  h[s] = Next(h, s)
      <4>1. h[s] = Next(g, s)
        BY <3>2 DEF Upto
      <4>2. CASE s = {}
        BY <4>1, <4>2
      <4>3. CASE s # {}
        <5>1. s \ {Taken(s)} \in SUBSET S /\ Cardinality(s \ {Taken(s)}) <= n - 1
          BY <1>0, <2>2, <3>3, <4>3
        <5>2. h[s \ {Taken(s)}] = g[s \ {Taken(s)}]
          BY <5>1
        <5>. HIDE DEF h
        <5>. QED
          BY <4>1, <4>3, <5>2
      <4>. QED
        BY <4>2, <4>3
    <3>. HIDE DEF h
    <3>4. Upto(h, n)
      BY <3>3 DEF Upto
    <3>. QED
      BY <2>2, <3>4
  <2>. QED
    BY <2>3, <2>4
<1>2. Cardinality(S) \in Nat
  BY FS_CardinalityType
<1>3. PICK g : Upto(g, Cardinality(S))
  BY <1>1, <1>2
<1>4. \A s \in SUBSET S : Cardinality(s) <= Cardinality(S)
  BY FS_Subset
<1>. DEFINE h == [s \in SUBSET S |-> g[s]]
<1>5. ASSUME NEW s \in SUBSET S PROVE h[s] = Next(h, s)
  <2>1. g[s] = Next(g, s)
    BY <1>3, <1>4
  <2>2. s # {} => s \ {Taken(s)} \in SUBSET S
    BY <1>0
  <2>. QED
    BY <2>1, <2>2
<1>6. h = [s \in SUBSET S |-> h[s]]
  OBVIOUS
<1>. HIDE DEF h
<1>7. h = [s \in SUBSET S |-> Next(h, s)]
  BY <1>5, <1>6
<1>. QED
  BY <1>7 DEF Sums

\* The equation that sums obey.
LEMMA SumStep ==
    ASSUME NEW f, NEW S, IsFiniteSet(S)
    PROVE  SumFunctionOnSet(f, S) =
               IF S = {} THEN 0 ELSE f[Taken(S)] + SumFunctionOnSet(f, S \ {Taken(S)})
<1>. DEFINE T == S \ {Taken(S)}
            g == CHOOSE g : Sums(g, f, S)
            h == CHOOSE h : Sums(h, f, T)
<1>1. IsFiniteSet(T) /\ T \in SUBSET S
  BY FS_Subset
<1>2. Sums(g, f, S) /\ Sums(h, f, T)
  <2>1. \E k : Sums(k, f, S)
    BY SumsExist
  <2>2. \E k : Sums(k, f, T)
    BY <1>1, SumsExist
  <2>. QED
    BY <2>1, <2>2
<1>3. SumFunctionOnSet(f, S) = g[S] /\ SumFunctionOnSet(f, T) = h[T]
  BY SumIs
<1>. HIDE DEF g, h, T
<1>4. \A s \in SUBSET S : g[s] = IF s = {} THEN 0 ELSE f[Taken(s)] + g[s \ {Taken(s)}]
  BY <1>2 DEF Sums
<1>5. \A s \in SUBSET T : h[s] = IF s = {} THEN 0 ELSE f[Taken(s)] + h[s \ {Taken(s)}]
  BY <1>2 DEF Sums
<1>. DEFINE C == {s \in SUBSET T : h[s] # g[s]}
<1>6. ASSUME C # {} PROVE FALSE
  <2>1. C \subseteq SUBSET T
    OBVIOUS
  <2>2. PICK s \in C : \A t \in C : t \subseteq s => t = s
    <3>. HIDE DEF C
    <3>. QED
      BY <1>1, <1>6, <2>1, SmallestSet
  <2>3. s \in SUBSET T /\ s \in SUBSET S /\ h[s] # g[s]
    BY <1>1
  <2>4. s # {}
    BY <1>4, <1>5, <2>3
  <2>5. Taken(s) \in s
    BY <2>4 DEF Taken
  <2>6. s \ {Taken(s)} \in SUBSET T /\ s \ {Taken(s)} # s
    BY <2>3, <2>5
  <2>7. h[s \ {Taken(s)}] = g[s \ {Taken(s)}]
    BY <2>2, <2>6
  <2>. QED
    BY <1>4, <1>5, <2>3, <2>4, <2>7
<1>7. h[T] = g[T]
  BY <1>6
<1>. QED
  BY <1>3, <1>4, <1>7 DEF T

LEMMA SumEmpty == ASSUME NEW f PROVE SumFunctionOnSet(f, {}) = 0
BY SumStep, FS_EmptySet

LEMMA SumType ==
    ASSUME NEW S, IsFiniteSet(S), NEW f, \A x \in S : f[x] \in Int
    PROVE  SumFunctionOnSet(f, S) \in Int
<1>. DEFINE C == {s \in SUBSET S : SumFunctionOnSet(f, s) \notin Int}
<1>1. ASSUME C # {} PROVE FALSE
  <2>1. C \subseteq SUBSET S
    OBVIOUS
  <2>2. PICK s \in C : \A t \in C : t \subseteq s => t = s
    <3>. HIDE DEF C
    <3>. QED
      BY <1>1, <2>1, SmallestSet
  <2>3. s \in SUBSET S /\ IsFiniteSet(s) /\ SumFunctionOnSet(f, s) \notin Int
    BY FS_Subset
  <2>4. s # {}
    BY <2>3, SumEmpty
  <2>5. Taken(s) \in s
    BY <2>4 DEF Taken
  <2>6. s \ {Taken(s)} \in SUBSET S /\ s \ {Taken(s)} # s
    BY <2>3, <2>5
  <2>7. SumFunctionOnSet(f, s \ {Taken(s)}) \in Int
    BY <2>2, <2>6
  <2>8. SumFunctionOnSet(f, s) = f[Taken(s)] + SumFunctionOnSet(f, s \ {Taken(s)})
    BY <2>3, <2>4, SumStep
  <2>9. f[Taken(s)] \in Int
    BY <2>3, <2>5
  <2>. QED
    BY <2>3, <2>7, <2>8, <2>9
<1>. QED
  BY <1>1

\* Any element can be taken first.
LEMMA SumRemove ==
    ASSUME NEW S, IsFiniteSet(S), NEW f, \A x \in S : f[x] \in Int, NEW e \in S
    PROVE  SumFunctionOnSet(f, S) = f[e] + SumFunctionOnSet(f, S \ {e})
<1>. DEFINE Ok(s) == \A x \in s : SumFunctionOnSet(f, s) = f[x] + SumFunctionOnSet(f, s \ {x})
            C == {s \in SUBSET S : ~ Ok(s)}
<1>1. ASSUME C # {} PROVE FALSE
  <2>1. C \subseteq SUBSET S
    OBVIOUS
  <2>2. PICK s \in C : \A t \in C : t \subseteq s => t = s
    <3>. HIDE DEF C
    <3>. QED
      BY <1>1, <2>1, SmallestSet
  <2>3. s \in SUBSET S /\ ~ Ok(s)
    OBVIOUS
  <2>4. PICK x \in s : SumFunctionOnSet(f, s) # f[x] + SumFunctionOnSet(f, s \ {x})
    BY <2>3
  <2>. HIDE DEF Ok
  <2>. DEFINE y == Taken(s)
              r == s \ {x}
              t == s \ {y}
              u == (s \ {x}) \ {y}
  <2>5. y \in s
    BY DEF Taken
  <2>. HIDE DEF y
  <2>6. IsFiniteSet(s) /\ SumFunctionOnSet(f, s) = f[y] + SumFunctionOnSet(f, t)
    BY <2>3, <2>4, FS_Subset, SumStep DEF y
  <2>7. x # y
    BY <2>4, <2>6
  <2>8. /\ r \in SUBSET S /\ r \subseteq s /\ r # s /\ y \in r
        /\ t \in SUBSET S /\ t \subseteq s /\ t # s /\ x \in t
        /\ u = t \ {x} /\ u \in SUBSET S
    BY <2>3, <2>5, <2>7
  <2>. HIDE DEF r, t, u
  <2>9. Ok(r) /\ Ok(t)
    BY <2>2, <2>8
  <2>10. SumFunctionOnSet(f, r) = f[y] + SumFunctionOnSet(f, u)
    BY <2>8, <2>9 DEF Ok, r, u
  <2>11. SumFunctionOnSet(f, t) = f[x] + SumFunctionOnSet(f, u)
    BY <2>8, <2>9 DEF Ok
  <2>12. f[x] \in Int /\ f[y] \in Int /\ IsFiniteSet(u) /\ \A z \in u : f[z] \in Int
    BY <2>3, <2>5, <2>8, FS_Subset
  <2>13. SumFunctionOnSet(f, u) \in Int
    BY <2>12, SumType
  <2>14. SumFunctionOnSet(f, s) # f[x] + SumFunctionOnSet(f, r)
    BY <2>4 DEF r
  <2>. QED
    BY <2>6, <2>10, <2>11, <2>12, <2>13, <2>14
<1>2. Ok(S)
  BY <1>1
<1>. QED
  BY <1>2

\* Sums of functions of which one is never below the other.
LEMMA SumMonotonic ==
    ASSUME NEW S, IsFiniteSet(S), NEW f, NEW g,
           \A x \in S : f[x] \in Int /\ g[x] \in Int /\ f[x] <= g[x]
    PROVE  SumFunctionOnSet(f, S) <= SumFunctionOnSet(g, S)
<1>. DEFINE C == {s \in SUBSET S : ~ (SumFunctionOnSet(f, s) <= SumFunctionOnSet(g, s))}
<1>1. ASSUME C # {} PROVE FALSE
  <2>1. C \subseteq SUBSET S
    OBVIOUS
  <2>2. PICK s \in C : \A t \in C : t \subseteq s => t = s
    <3>. HIDE DEF C
    <3>. QED
      BY <1>1, <2>1, SmallestSet
  <2>3. s \in SUBSET S /\ ~ (SumFunctionOnSet(f, s) <= SumFunctionOnSet(g, s))
    OBVIOUS
  <2>4. s # {} /\ IsFiniteSet(s)
    <3>1. SumFunctionOnSet(f, {}) = 0 /\ SumFunctionOnSet(g, {}) = 0
      BY SumEmpty
    <3>2. IsFiniteSet(s)
      BY <2>3, FS_Subset
    <3>. QED
      BY <2>3, <3>1, <3>2
  <2>. DEFINE y == Taken(s)
              t == s \ {y}
  <2>5. y \in s
    BY <2>4 DEF Taken
  <2>6. /\ SumFunctionOnSet(f, s) = f[y] + SumFunctionOnSet(f, t)
        /\ SumFunctionOnSet(g, s) = g[y] + SumFunctionOnSet(g, t)
    BY <2>4, SumStep
  <2>. HIDE DEF y
  <2>7. t \in SUBSET S /\ t \subseteq s /\ t # s /\ IsFiniteSet(t)
    BY <2>3, <2>5, FS_Subset
  <2>. HIDE DEF t
  <2>8. SumFunctionOnSet(f, t) <= SumFunctionOnSet(g, t)
    BY <2>2, <2>7
  <2>9. SumFunctionOnSet(f, t) \in Int /\ SumFunctionOnSet(g, t) \in Int
    BY <2>7, SumType
  <2>10. f[y] \in Int /\ g[y] \in Int /\ f[y] <= g[y]
    BY <2>3, <2>5
  <2>. QED
    BY <2>3, <2>6, <2>8, <2>9, <2>10
<1>. QED
  BY <1>1

LEMMA SumNat ==
    ASSUME NEW S, IsFiniteSet(S), NEW f, \A x \in S : f[x] \in Nat
    PROVE  SumFunctionOnSet(f, S) \in Nat
<1>. DEFINE z == [x \in S |-> 0]
            C == {s \in SUBSET S : SumFunctionOnSet(f, s) \notin Nat}
<1>1. ASSUME C # {} PROVE FALSE
  <2>1. C \subseteq SUBSET S
    OBVIOUS
  <2>2. PICK s \in C : \A t \in C : t \subseteq s => t = s
    <3>. HIDE DEF C
    <3>. QED
      BY <1>1, <2>1, SmallestSet
  <2>3. s \in SUBSET S /\ SumFunctionOnSet(f, s) \notin Nat
    OBVIOUS
  <2>4. s # {}
    BY <2>3, SumEmpty
  <2>5. PICK x \in s : TRUE
    BY <2>4
  <2>6. IsFiniteSet(s) /\ \A y \in s : f[y] \in Int
    BY <2>3, FS_Subset
  <2>7. SumFunctionOnSet(f, s) = f[x] + SumFunctionOnSet(f, s \ {x})
    BY <2>6, SumRemove
  <2>8. s \ {x} \in SUBSET S /\ s \ {x} # s
    BY <2>3
  <2>9. SumFunctionOnSet(f, s \ {x}) \in Nat
    BY <2>2, <2>8
  <2>10. f[x] \in Nat
    BY <2>3
  <2>. QED
    BY <2>3, <2>7, <2>9, <2>10
<1>. QED
  BY <1>1

\* A sum of numbers that are not negative is at least any part of it.
LEMMA SumPart ==
    ASSUME NEW S, IsFiniteSet(S), NEW f, \A x \in S : f[x] \in Nat, NEW T \in SUBSET S
    PROVE  /\ SumFunctionOnSet(f, T) \in Nat /\ SumFunctionOnSet(f, S) \in Nat
           /\ SumFunctionOnSet(f, T) <= SumFunctionOnSet(f, S)
<1>. DEFINE C == {s \in SUBSET S : T \subseteq s /\ ~ (SumFunctionOnSet(f, T) <= SumFunctionOnSet(f, s))}
<1>0. \A s \in SUBSET S : IsFiniteSet(s) /\ SumFunctionOnSet(f, s) \in Nat
  BY FS_Subset, SumNat
<1>1. ASSUME C # {} PROVE FALSE
  <2>1. C \subseteq SUBSET S
    OBVIOUS
  <2>2. PICK s \in C : \A t \in C : t \subseteq s => t = s
    <3>. HIDE DEF C
    <3>. QED
      BY <1>1, <2>1, SmallestSet
  <2>3. /\ s \in SUBSET S /\ T \subseteq s
        /\ ~ (SumFunctionOnSet(f, T) <= SumFunctionOnSet(f, s))
    OBVIOUS
  <2>4. s # T
    BY <1>0, <2>3
  <2>5. PICK x \in s : x \notin T
    BY <2>3, <2>4
  <2>6. s \ {x} \in SUBSET S /\ s \ {x} # s /\ T \subseteq s \ {x}
    BY <2>3, <2>5
  <2>7. SumFunctionOnSet(f, T) <= SumFunctionOnSet(f, s \ {x})
    BY <2>2, <2>6
  <2>8. IsFiniteSet(s) /\ (\A y \in s : f[y] \in Int) /\ f[x] \in Nat
    BY <1>0, <2>3
  <2>9. SumFunctionOnSet(f, s) = f[x] + SumFunctionOnSet(f, s \ {x})
    BY <2>8, SumRemove
  <2>10. SumFunctionOnSet(f, s \ {x}) \in Nat /\ SumFunctionOnSet(f, T) \in Nat
    BY <1>0, <2>6
  <2>. QED
    BY <2>3, <2>7, <2>8, <2>9, <2>10
<1>2. S \in SUBSET S /\ T \subseteq S /\ S \notin C
  BY <1>1
<1>. QED
  BY <1>0, <1>2

LEMMA SumEntry ==
    ASSUME NEW S, IsFiniteSet(S), NEW f, \A x \in S : f[x] \in Nat, NEW e \in S
    PROVE  f[e] <= SumFunctionOnSet(f, S)
<1>1. SumFunctionOnSet(f, S) = f[e] + SumFunctionOnSet(f, S \ {e})
  BY SumRemove
<1>2. SumFunctionOnSet(f, S \ {e}) \in Nat
  BY SumPart
<1>. QED
  BY <1>1, <1>2

LEMMA SumSame ==
    ASSUME NEW S, IsFiniteSet(S), NEW f, NEW g, \A x \in S : f[x] \in Int /\ f[x] = g[x]
    PROVE  SumFunctionOnSet(f, S) = SumFunctionOnSet(g, S)
<1>1. /\ SumFunctionOnSet(f, S) \in Int
      /\ SumFunctionOnSet(g, S) \in Int
  BY SumType
<1>2. SumFunctionOnSet(f, S) <= SumFunctionOnSet(g, S)
  BY SumMonotonic
<1>3. SumFunctionOnSet(g, S) <= SumFunctionOnSet(f, S)
  BY SumMonotonic
<1>. QED
  BY <1>1, <1>2, <1>3

\* g is f with one other entry.
OneChanged(f, g, S, e) ==
    /\ IsFiniteSet(S) /\ e \in S
    /\ \A x \in S : f[x] \in Int /\ g[x] \in Int
    /\ \A x \in S \ {e} : g[x] = f[x]

LEMMA SumChange ==
    ASSUME NEW f, NEW g, NEW S, NEW e, OneChanged(f, g, S, e)
    PROVE  /\ SumFunctionOnSet(f, S) \in Int /\ SumFunctionOnSet(g, S) \in Int
           /\ SumFunctionOnSet(g, S) = SumFunctionOnSet(f, S) - f[e] + g[e]
<1>. USE DEF OneChanged
<1>1. IsFiniteSet(S \ {e}) /\ SumFunctionOnSet(f, S \ {e}) \in Int
  BY FS_Subset, SumType
<1>2. SumFunctionOnSet(f, S \ {e}) = SumFunctionOnSet(g, S \ {e})
  BY <1>1, SumSame
<1>3. SumFunctionOnSet(f, S) = f[e] + SumFunctionOnSet(f, S \ {e})
  BY SumRemove
<1>4. SumFunctionOnSet(g, S) = g[e] + SumFunctionOnSet(g, S \ {e})
  BY SumRemove
<1>. QED
  BY <1>1, <1>2, <1>3, <1>4

\* g is f with two other entries.
TwoChanged(f, g, S, d, e) ==
    /\ IsFiniteSet(S) /\ d \in S /\ e \in S /\ d # e
    /\ \A x \in S : f[x] \in Int /\ g[x] \in Int
    /\ \A x \in S \ {d, e} : g[x] = f[x]

LEMMA SumChangeTwo ==
    ASSUME NEW f, NEW g, NEW S, NEW d, NEW e, TwoChanged(f, g, S, d, e)
    PROVE  /\ SumFunctionOnSet(f, S) \in Int /\ SumFunctionOnSet(g, S) \in Int
           /\ SumFunctionOnSet(g, S) =
                  SumFunctionOnSet(f, S) - f[d] - f[e] + g[d] + g[e]
<1>. USE DEF TwoChanged
<1>. DEFINE R == S \ {d}
<1>1. IsFiniteSet(R) /\ e \in R
  BY FS_Subset
<1>2. SumFunctionOnSet(f, S) = f[d] + SumFunctionOnSet(f, R)
  BY SumRemove
<1>3. SumFunctionOnSet(g, S) = g[d] + SumFunctionOnSet(g, R)
  BY SumRemove
<1>4. OneChanged(f, g, R, e)
  BY <1>1 DEF OneChanged
<1>. HIDE DEF R
<1>5. /\ SumFunctionOnSet(f, R) \in Int /\ SumFunctionOnSet(g, R) \in Int
      /\ SumFunctionOnSet(g, R) = SumFunctionOnSet(f, R) - f[e] + g[e]
  BY <1>4, SumChange
<1>6. f[d] \in Int /\ g[d] \in Int /\ f[e] \in Int /\ g[e] \in Int
  OBVIOUS
<1>. QED
  BY <1>2, <1>3, <1>5, <1>6

LEMMA SumScale ==
    ASSUME NEW S, IsFiniteSet(S), NEW f, NEW g, NEW c \in Int,
           \A x \in S : f[x] \in Int /\ g[x] = c * f[x]
    PROVE  /\ SumFunctionOnSet(f, S) \in Int
           /\ SumFunctionOnSet(g, S) = c * SumFunctionOnSet(f, S)
<1>. DEFINE C == {s \in SUBSET S : SumFunctionOnSet(g, s) # c * SumFunctionOnSet(f, s)}
<1>1. ASSUME C # {} PROVE FALSE
  <2>1. C \subseteq SUBSET S
    OBVIOUS
  <2>2. PICK s \in C : \A t \in C : t \subseteq s => t = s
    <3>. HIDE DEF C
    <3>. QED
      BY <1>1, <2>1, SmallestSet
  <2>3. s \in SUBSET S /\ SumFunctionOnSet(g, s) # c * SumFunctionOnSet(f, s)
    OBVIOUS
  <2>4. s # {} /\ IsFiniteSet(s)
    <3>1. SumFunctionOnSet(f, {}) = 0 /\ SumFunctionOnSet(g, {}) = 0
      BY SumEmpty
    <3>2. IsFiniteSet(s)
      BY <2>3, FS_Subset
    <3>3. SumFunctionOnSet(g, {}) = c * SumFunctionOnSet(f, {})
      BY <3>1
    <3>. QED
      BY <2>3, <3>2, <3>3
  <2>. DEFINE y == Taken(s)
              t == s \ {y}
  <2>5. y \in s
    BY <2>4 DEF Taken
  <2>6. /\ SumFunctionOnSet(f, s) = f[y] + SumFunctionOnSet(f, t)
        /\ SumFunctionOnSet(g, s) = g[y] + SumFunctionOnSet(g, t)
    BY <2>4, SumStep
  <2>. HIDE DEF y
  <2>7. t \in SUBSET S /\ t \subseteq s /\ t # s /\ IsFiniteSet(t)
    BY <2>3, <2>5, FS_Subset
  <2>. HIDE DEF t
  <2>8. SumFunctionOnSet(g, t) = c * SumFunctionOnSet(f, t)
    BY <2>2, <2>7
  <2>9. SumFunctionOnSet(f, t) \in Int
    BY <2>7, SumType
  <2>10. f[y] \in Int /\ g[y] = c * f[y]
    BY <2>3, <2>5
  <2>. QED
    BY <2>3, <2>6, <2>8, <2>9, <2>10
<1>2. SumFunctionOnSet(g, S) = c * SumFunctionOnSet(f, S)
  BY <1>1
<1>3. SumFunctionOnSet(f, S) \in Int
  BY SumType
<1>. QED
  BY <1>2, <1>3

\* h is the sum of f and g, entry by entry.
Added(f, g, h, S) ==
    /\ IsFiniteSet(S)
    /\ \A x \in S : f[x] \in Int /\ g[x] \in Int /\ h[x] = f[x] + g[x]

LEMMA SumAdded ==
    ASSUME NEW f, NEW g, NEW h, NEW S, Added(f, g, h, S)
    PROVE  /\ SumFunctionOnSet(f, S) \in Int /\ SumFunctionOnSet(g, S) \in Int
           /\ SumFunctionOnSet(h, S) = SumFunctionOnSet(f, S) + SumFunctionOnSet(g, S)
<1>. USE DEF Added
<1>. DEFINE C == {s \in SUBSET S : SumFunctionOnSet(h, s) #
                      SumFunctionOnSet(f, s) + SumFunctionOnSet(g, s)}
<1>1. ASSUME C # {} PROVE FALSE
  <2>1. C \subseteq SUBSET S
    OBVIOUS
  <2>2. PICK s \in C : \A t \in C : t \subseteq s => t = s
    <3>. HIDE DEF C
    <3>. QED
      BY <1>1, <2>1, SmallestSet
  <2>3. /\ s \in SUBSET S
        /\ SumFunctionOnSet(h, s) # SumFunctionOnSet(f, s) + SumFunctionOnSet(g, s)
    OBVIOUS
  <2>4. s # {} /\ IsFiniteSet(s)
    <3>1. /\ SumFunctionOnSet(f, {}) = 0 /\ SumFunctionOnSet(g, {}) = 0
          /\ SumFunctionOnSet(h, {}) = 0
      BY SumEmpty
    <3>2. IsFiniteSet(s)
      BY <2>3, FS_Subset
    <3>3. SumFunctionOnSet(h, {}) = SumFunctionOnSet(f, {}) + SumFunctionOnSet(g, {})
      BY <3>1
    <3>. QED
      BY <2>3, <3>2, <3>3
  <2>. DEFINE y == Taken(s)
              t == s \ {y}
  <2>5. y \in s
    BY <2>4 DEF Taken
  <2>6. /\ SumFunctionOnSet(f, s) = f[y] + SumFunctionOnSet(f, t)
        /\ SumFunctionOnSet(g, s) = g[y] + SumFunctionOnSet(g, t)
        /\ SumFunctionOnSet(h, s) = h[y] + SumFunctionOnSet(h, t)
    BY <2>4, SumStep
  <2>. HIDE DEF y
  <2>7. t \in SUBSET S /\ t \subseteq s /\ t # s /\ IsFiniteSet(t)
    BY <2>3, <2>5, FS_Subset
  <2>. HIDE DEF t
  <2>8. SumFunctionOnSet(h, t) = SumFunctionOnSet(f, t) + SumFunctionOnSet(g, t)
    BY <2>2, <2>7
  <2>9. SumFunctionOnSet(f, t) \in Int /\ SumFunctionOnSet(g, t) \in Int
    BY <2>7, SumType
  <2>10. f[y] \in Int /\ g[y] \in Int /\ h[y] = f[y] + g[y]
    BY <2>3, <2>5
  <2>. QED
    BY <2>3, <2>6, <2>8, <2>9, <2>10
<1>2. SumFunctionOnSet(h, S) = SumFunctionOnSet(f, S) + SumFunctionOnSet(g, S)
  BY <1>1
<1>3. SumFunctionOnSet(f, S) \in Int /\ SumFunctionOnSet(g, S) \in Int
  BY SumType
<1>. QED
  BY <1>2, <1>3

LEMMA SumNone ==
    ASSUME NEW S, IsFiniteSet(S), NEW f, \A x \in S : f[x] = 0
    PROVE  SumFunctionOnSet(f, S) = 0
<1>1. \A x \in S : f[x] \in Int /\ f[x] = 0 * f[x]
  OBVIOUS
<1>2. 0 \in Int
  OBVIOUS
<1>3. /\ SumFunctionOnSet(f, S) \in Int
      /\ SumFunctionOnSet(f, S) = 0 * SumFunctionOnSet(f, S)
  BY <1>1, <1>2, SumScale
<1>. QED
  BY <1>3

\* How many of a set of places hold each element.
CountsOf(list, P, X) == [x \in X |-> Cardinality({i \in P : list[i] = x})]

\* The places of P hold elements of X.
Placed(list, P, X) == IsFiniteSet(P) /\ IsFiniteSet(X) /\ \A i \in P : list[i] \in X

\* Every place is counted once.
LEMMA SumOfCounts ==
    ASSUME NEW list, NEW P, NEW X, Placed(list, P, X)
    PROVE  /\ SumFunctionOnSet(CountsOf(list, P, X), X) = Cardinality(P)
           /\ \A x \in X : CountsOf(list, P, X)[x] \in Nat
<1>. USE DEF Placed
<1>. DEFINE Sum(p) == SumFunctionOnSet(CountsOf(list, p, X), X)
            C == {p \in SUBSET P : Sum(p) # Cardinality(p)}
<1>0. \A p \in SUBSET P : \A x \in X :
          /\ IsFiniteSet(p) /\ IsFiniteSet({i \in p : list[i] = x})
          /\ Cardinality({i \in p : list[i] = x}) \in Nat
          /\ CountsOf(list, p, X)[x] = Cardinality({i \in p : list[i] = x})
  BY FS_Subset, FS_CardinalityType DEF CountsOf
<1>1. ASSUME C # {} PROVE FALSE
  <2>1. C \subseteq SUBSET P
    OBVIOUS
  <2>2. PICK p \in C : \A q \in C : q \subseteq p => q = p
    <3>. HIDE DEF C
    <3>. QED
      BY <1>1, <2>1, SmallestSet
  <2>3. p \in SUBSET P /\ Sum(p) # Cardinality(p)
    OBVIOUS
  <2>4. IsFiniteSet(p)
    BY <2>3, FS_Subset
  <2>5. p # {}
    <3>1. ASSUME p = {} PROVE FALSE
      <4>1. \A x \in X : {i \in p : list[i] = x} = {}
        BY <3>1
      <4>2. \A x \in X : CountsOf(list, p, X)[x] = 0
        BY <4>1, FS_EmptySet DEF CountsOf
      <4>3. Sum(p) = 0
        BY <4>2, SumNone
      <4>4. Cardinality(p) = 0
        BY <3>1, FS_EmptySet
      <4>. QED
        BY <2>3, <4>3, <4>4
    <3>. QED
      BY <3>1
  <2>6. PICK k \in p : TRUE
    BY <2>5
  <2>. DEFINE q == p \ {k}
              y == list[k]
              f == CountsOf(list, q, X)
              g == CountsOf(list, p, X)
  <2>7. q \in SUBSET P /\ q # p /\ q \subseteq p /\ IsFiniteSet(q) /\ y \in X
    BY <2>3, <2>4, <2>6, FS_Subset
  <2>8. Cardinality(q) = Cardinality(p) - 1 /\ Cardinality(p) \in Nat
    BY <2>4, <2>6, FS_RemoveElement, FS_CardinalityType
  <2>9. q \notin C
    BY <2>2, <2>7
  <2>10. Sum(q) = Cardinality(q)
    BY <2>7, <2>9
  <2>11. \A x \in X : f[x] \in Nat /\ g[x] \in Nat
    BY <1>0, <2>3, <2>7
  <2>12. \A x \in X \ {y} : g[x] = f[x]
    <3>. SUFFICES ASSUME NEW x \in X \ {y} PROVE {i \in p : list[i] = x} = {i \in q : list[i] = x}
      BY DEF CountsOf
    <3>. QED
      OBVIOUS
  <2>13. g[y] = f[y] + 1
    <3>. DEFINE A == {i \in p : list[i] = y}
                B == {i \in q : list[i] = y}
    <3>1. B = A \ {k} /\ k \in A
      BY <2>6
    <3>2. IsFiniteSet(A) /\ Cardinality(A) \in Nat
      BY <1>0, <2>3, <2>7
    <3>3. g[y] = Cardinality(A) /\ f[y] = Cardinality(B)
      BY <2>7 DEF CountsOf
    <3>. HIDE DEF A, B
    <3>4. Cardinality(A \ {k}) = Cardinality(A) - 1
      BY <3>1, <3>2, FS_RemoveElement
    <3>. QED
      BY <3>1, <3>2, <3>3, <3>4
  <2>14. OneChanged(f, g, X, y)
    <3>. HIDE DEF f, g
    <3>. QED
      BY <2>7, <2>11, <2>12 DEF OneChanged
  <2>15. Sum(q) = SumFunctionOnSet(f, X) /\ Sum(p) = SumFunctionOnSet(g, X)
    OBVIOUS
  <2>16. f[y] \in Nat
    BY <2>7, <2>11
  <2>. HIDE DEF f, g, y, q, Sum
  <2>17. /\ SumFunctionOnSet(f, X) \in Int /\ SumFunctionOnSet(g, X) \in Int
         /\ SumFunctionOnSet(g, X) = SumFunctionOnSet(f, X) - f[y] + g[y]
    BY <2>14, SumChange
  <2>. QED
    BY <2>3, <2>8, <2>10, <2>13, <2>15, <2>16, <2>17
<1>2. P \in SUBSET P /\ P \notin C
  BY <1>1
<1>3. Sum(P) = Cardinality(P)
  BY <1>2
<1>4. \A x \in X : CountsOf(list, P, X)[x] \in Nat
  BY <1>0, <1>2
<1>. QED
  BY <1>3, <1>4
=============================================================================
