----------------------------- MODULE FiniteSums -----------------------------
(***************************************************************************)
(* Sums over finite sets.  The library's folds take out one element at a   *)
(* time, in an order that CHOOSE fixes; these lemmas show that the order   *)
(* does not matter, and what a sum is after one element more or less.      *)
(***************************************************************************)
EXTENDS Integers, FiniteSetTheorems, WellFoundedInduction, TLAPS

\* The element that a sum over s takes out first.
First(s) == CHOOSE x \in s : TRUE

\* One unfolding of the sum, with g for the sums of the smaller sets.
Unfold(f, s, g) == IF s = {} THEN 0 ELSE f[First(s)] + g[s \ {First(s)}]

\* g holds the sum of every subset of T.
Sums(f, T, g) == g = [s \in SUBSET T |-> Unfold(f, s, g)]

\* Every value of f on S is a natural number.
NaturalsOn(f, S) == \A e \in S : f[e] \in Nat

\* CHOOSE takes an element of the set.
LEMMA FirstIn == ASSUME NEW s, s # {} PROVE First(s) \in s
BY Zenon DEF First

\* A nonempty collection of subsets of a finite set has a smallest member; this is the
\* induction principle of the lemmas below.
LEMMA SmallestSubset ==
  ASSUME NEW S, IsFiniteSet(S), NEW D, D \subseteq SUBSET S, D # {}
  PROVE  \E m \in D : \A y \in D : ~(y \subseteq m /\ y # m)
<1>1. IsWellFoundedOn(StrictSubsetOrdering(S), SUBSET S)
  BY FS_StrictSubsetOrderingWellFounded, FS_FiniteSubsetsOfFinite
<1>2. PICK m \in D : \A y \in D : <<y, m>> \notin StrictSubsetOrdering(S)
  BY <1>1, WFMin
<1>3. QED
  BY <1>2 DEF StrictSubsetOrdering

\* Two such functions agree where both are defined.
LEMMA SumsAgree ==
  ASSUME NEW f, NEW T, IsFiniteSet(T), NEW U \in SUBSET T, NEW g, NEW h,
         Sums(f, T, g), Sums(f, U, h), NEW s \in SUBSET U
  PROVE  g[s] = h[s]
<1> DEFINE D == {d \in SUBSET U : g[d] # h[d]}
<1>0. D \subseteq SUBSET U /\ (\A d \in SUBSET U : d \in D <=> g[d] # h[d])
  OBVIOUS
<1> HIDE DEF D
<1>1. \A d \in SUBSET U : g[d] = Unfold(f, d, g) /\ h[d] = Unfold(f, d, h)
  BY DEF Sums
<1>2. ASSUME D # {} PROVE FALSE
  <2>1. IsFiniteSet(U)
    BY FS_Subset
  <2>2. PICK m \in D : \A y \in D : ~(y \subseteq m /\ y # m)
    BY <1>0, <1>2, <2>1, SmallestSubset
  <2>3. m # {}
    BY <1>0, <1>1, <2>2 DEF Unfold
  <2> DEFINE r == m \ {First(m)}
  <2>4. r \in SUBSET U /\ r \subseteq m /\ r # m
    BY <1>0, <2>2, <2>3, FirstIn
  <2>5. g[r] = h[r]
    BY <1>0, <2>2, <2>4
  <2>6. g[m] = h[m]
    BY <1>0, <1>1, <2>2, <2>3, <2>5 DEF Unfold
  <2>7. QED
    BY <1>0, <2>2, <2>6
<1>3. QED
  BY <1>0, <1>2

\* Every finite set has such a function.
LEMMA SumsExist ==
  ASSUME NEW f, NEW S, IsFiniteSet(S)
  PROVE  \E g : Sums(f, S, g)
<1> DEFINE D == {d \in SUBSET S : ~\E g : Sums(f, d, g)}
<1>0. D \subseteq SUBSET S /\ (\A d \in SUBSET S : d \in D <=> ~\E g : Sums(f, d, g))
  OBVIOUS
<1> HIDE DEF D
<1>1. ASSUME D # {} PROVE FALSE
  <2>1. PICK m \in D : \A y \in D : ~(y \subseteq m /\ y # m)
    BY <1>0, <1>1, SmallestSubset
  <2>2. m \in SUBSET S /\ IsFiniteSet(m)
    BY <1>0, <2>1, FS_Subset
  <2> DEFINE G(s) == CHOOSE g : Sums(f, s, g)
             r == m \ {First(m)}
             h == [s \in SUBSET m |-> IF s = {} THEN 0
                                      ELSE IF s = m THEN f[First(m)] + G(r)[r]
                                      ELSE G(s)[s]]
  <2>3. \A s \in SUBSET m : s # m => Sums(f, s, G(s))
    <3> SUFFICES ASSUME NEW s \in SUBSET m, s # m PROVE Sums(f, s, G(s))
      OBVIOUS
    <3>1. s \notin D /\ s \in SUBSET S
      BY <2>1, <2>2
    <3>2. \E g : Sums(f, s, g)
      BY <1>0, <3>1
    <3>3. QED
      BY <3>2, Zenon
  <2> HIDE DEF G
  <2>4. ASSUME NEW s \in SUBSET m
        PROVE  h[s] = Unfold(f, s, h)
    <3>1. CASE s = {}
      BY <3>1 DEF Unfold
    <3>2. CASE s # {}
      <4> DEFINE x == First(s)
                 q == s \ {x}
      <4>1. x \in s /\ q \in SUBSET m /\ q # m /\ q \subseteq s
        BY <3>2, FirstIn
      <4>2. Sums(f, q, G(q))
        BY <2>3, <4>1
      <4>3. {} \in SUBSET q /\ q \in SUBSET q
        OBVIOUS
      <4>4. h[q] = G(q)[q]
        <5>1. CASE q = {}
          <6>1. G(q)[{}] = 0
            BY <4>2, <4>3 DEF Sums, Unfold
          <6>2. QED
            BY <4>1, <5>1, <6>1
        <5>2. CASE q # {}
          BY <4>1, <5>2
        <5>3. QED
          BY <5>1, <5>2
      <4>5. CASE s = m
        BY <3>2, <4>4, <4>5 DEF Unfold
      <4>6. CASE s # m
        <5>1. Sums(f, s, G(s)) /\ IsFiniteSet(s) /\ s \in SUBSET s
          BY <2>2, <2>3, <4>6, FS_Subset
        <5>2. G(s)[s] = f[x] + G(s)[q]
          BY <3>2, <5>1 DEF Sums, Unfold
        <5>3. \A u \in SUBSET s : Sums(f, u, G(u)) => G(s)[u] = G(u)[u]
          <6> SUFFICES ASSUME NEW u \in SUBSET s, Sums(f, u, G(u)) PROVE G(s)[u] = G(u)[u]
            OBVIOUS
          <6>1. u \in SUBSET u
            OBVIOUS
          <6>2. QED
            BY <5>1, <6>1, SumsAgree
        <5>4. h[s] = G(s)[s]
          BY <3>2, <4>6
        <5>5. QED
          BY <3>2, <4>1, <4>2, <4>4, <5>2, <5>3, <5>4 DEF Unfold
      <4>7. QED
        BY <4>5, <4>6
    <3>3. QED
      BY <3>1, <3>2
  <2>5. h = [s \in SUBSET m |-> h[s]]
    OBVIOUS
  <2> HIDE DEF h
  <2>6. Sums(f, m, h)
    BY <2>4, <2>5 DEF Sums
  <2>7. QED
    BY <1>0, <2>1, <2>2, <2>6
<1>2. QED
  BY <1>0, <1>1

\* The sum over a finite set is well defined: it is natural, and any element may be taken
\* out first.
LEMMA SumsTakeAny ==
  ASSUME NEW f, NEW S, IsFiniteSet(S), NaturalsOn(f, S), NEW g, Sums(f, S, g),
         NEW s \in SUBSET S
  PROVE  g[s] \in Nat /\ \A y \in s : g[s] = f[y] + g[s \ {y}]
<1> DEFINE Good(d) == g[d] \in Nat /\ \A y \in d : g[d] = f[y] + g[d \ {y}]
           D == {d \in SUBSET S : ~Good(d)}
<1>0. D \subseteq SUBSET S /\ (\A d \in SUBSET S : d \in D <=> ~Good(d))
  OBVIOUS
<1> HIDE DEF D
<1>1. \A d \in SUBSET S : g[d] = Unfold(f, d, g)
  BY DEF Sums
<1>2. ASSUME D # {} PROVE FALSE
  <2>1. PICK m \in D : \A y \in D : ~(y \subseteq m /\ y # m)
    BY <1>0, <1>2, SmallestSubset
  <2>2. m \in SUBSET S /\ ~Good(m)
    BY <1>0, <2>1
  <2>3. \A d \in SUBSET m : d # m => Good(d)
    <3> HIDE DEF Good
    <3> SUFFICES ASSUME NEW d \in SUBSET m, d # m PROVE Good(d)
      OBVIOUS
    <3>1. d \in SUBSET S /\ d \notin D
      BY <2>1, <2>2
    <3>2. QED
      BY <1>0, <3>1
  <2>4. CASE m = {}
    <3>1. g[m] = 0
      BY <1>1, <2>2, <2>4 DEF Unfold
    <3>2. QED
      BY <2>2, <2>4, <3>1
  <2>5. CASE m # {}
    <3> DEFINE x == First(m)
               r == m \ {x}
    <3>1. x \in m /\ g[m] = f[x] + g[r] /\ f[x] \in Nat
      BY <1>1, <2>2, <2>5, FirstIn DEF Unfold, NaturalsOn
    <3>2. r \in SUBSET m /\ r # m
      BY <3>1
    <3>3. Good(r)
      BY <2>3, <3>2
    <3>4. ASSUME NEW y \in m, y # x
          PROVE  g[m] = f[y] + g[m \ {y}]
      <4> DEFINE p == m \ {y}
                 q == r \ {y}
      <4>1. y \in r /\ x \in p /\ p \in SUBSET m /\ p # m /\ q = p \ {x}
        BY <3>1, <3>4
      <4>2. g[r] = f[y] + g[q]
        BY <3>3, <4>1
      <4>3. g[p] = f[x] + g[q]
        BY <2>3, <4>1
      <4>4. q \in SUBSET m /\ q # m
        BY <3>1
      <4>5. g[q] \in Nat
        BY <2>3, <4>4
      <4>6. f[y] \in Nat
        BY <2>2 DEF NaturalsOn
      <4>7. QED
        BY <3>1, <4>2, <4>3, <4>5, <4>6
    <3>5. g[m] \in Nat
      BY <3>1, <3>3
    <3>6. QED
      BY <2>2, <3>1, <3>4, <3>5
  <2>6. QED
    BY <2>4, <2>5
<1>3. Good(s)
  BY <1>0, <1>2
<1>4. QED
  BY <1>3

\* The sum of f over S.
SumOver(f, S) == (CHOOSE g : Sums(f, S, g))[S]

\* The sum over a finite set is the value of a function that holds the sums.
LEMMA SumOverValue ==
  ASSUME NEW f, NEW S, IsFiniteSet(S)
  PROVE  \E g : Sums(f, S, g) /\ SumOver(f, S) = g[S]
<1> DEFINE g == CHOOSE x : Sums(f, S, x)
<1>1. Sums(f, S, g)
  BY SumsExist, Zenon
<1>2. SumOver(f, S) = g[S]
  BY DEF SumOver
<1>3. QED
  BY <1>1, <1>2

\* Every function that holds the sums has it as its value.
LEMMA SumOverIs ==
  ASSUME NEW f, NEW S, IsFiniteSet(S), NEW g, Sums(f, S, g)
  PROVE  g[S] = SumOver(f, S)
<1>1. PICK h : Sums(f, S, h) /\ SumOver(f, S) = h[S]
  BY SumOverValue
<1>2. S \in SUBSET S
  OBVIOUS
<1>3. QED
  BY <1>1, <1>2, SumsAgree

\* Nothing sums to nothing.
LEMMA SumOverEmpty == ASSUME NEW f PROVE SumOver(f, {}) = 0
<1>1. IsFiniteSet({})
  BY FS_EmptySet
<1>2. PICK g : Sums(f, {}, g) /\ SumOver(f, {}) = g[{}]
  BY <1>1, SumOverValue
<1>3. QED
  BY <1>2 DEF Sums, Unfold

\* One more element adds its value.
LEMMA SumOverAdd ==
  ASSUME NEW f, NEW S, IsFiniteSet(S), NEW e, e \notin S, NaturalsOn(f, S \cup {e})
  PROVE  SumOver(f, S \cup {e}) = SumOver(f, S) + f[e] /\ SumOver(f, S) \in Nat
<1> DEFINE T == S \cup {e}
<1>1. IsFiniteSet(T) /\ S \in SUBSET T /\ T \ {e} = S /\ e \in T
  BY FS_AddElement
<1> HIDE DEF T
<1>2. PICK g : Sums(f, T, g) /\ SumOver(f, T) = g[T]
  BY <1>1, SumOverValue
<1>3. PICK h : Sums(f, S, h) /\ SumOver(f, S) = h[S]
  BY SumOverValue
<1>4. g[S] = h[S]
  <2>1. S \in SUBSET S
    OBVIOUS
  <2>2. QED
    BY <1>1, <1>2, <1>3, <2>1, SumsAgree
<1>5. g[T] = f[e] + g[S] /\ g[S] \in Nat
  <2>1. T \in SUBSET T /\ NaturalsOn(f, T)
    BY DEF T
  <2>2. QED
    BY <1>1, <1>2, <2>1, SumsTakeAny
<1>6. f[e] \in Nat
  BY DEF NaturalsOn
<1>7. QED
  BY <1>2, <1>3, <1>4, <1>5, <1>6 DEF T

\* Values outside the set do not matter.
LEMMA SumOverSame ==
  ASSUME NEW f, NEW k, NEW S, IsFiniteSet(S), \A e \in S : f[e] = k[e]
  PROVE  SumOver(f, S) = SumOver(k, S)
<1>1. PICK g : Sums(f, S, g) /\ SumOver(f, S) = g[S]
  BY SumOverValue
<1>2. \A s \in SUBSET S : Unfold(f, s, g) = Unfold(k, s, g)
  BY FirstIn DEF Unfold
<1>3. Sums(k, S, g)
  BY <1>1, <1>2 DEF Sums
<1>4. QED
  BY <1>1, <1>3, SumOverIs

\* A natural number with a property has a smallest one below it.
LEMMA SmallestNumber ==
  ASSUME NEW D, D \subseteq Nat, D # {}
  PROVE  \E m \in D : \A y \in D : ~(y < m)
<1>1. PICK m \in D : \A y \in D : <<y, m>> \notin OpToRel(<, Nat)
  BY NatLessThanWellFounded, WFMin
<1>2. \A y \in D : y < m => <<y, m>> \in OpToRel(<, Nat)
  BY <1>1 DEF OpToRel
<1>3. QED
  BY <1>1, <1>2

\* A sum over consecutive numbers does not depend on where they begin.
LEMMA SumOverShifted ==
  ASSUME NEW f, NEW k, NEW n \in Nat, \A i \in 1..n : f[i + 1] \in Nat /\ k[i] = f[i + 1]
  PROVE  SumOver(k, 1..n) = SumOver(f, 2..n + 1)
<1> DEFINE D == {d \in 0..n : SumOver(k, 1..d) # SumOver(f, 2..d + 1)}
<1>0. D \subseteq 0..n /\ (\A d \in 0..n : d \in D <=> SumOver(k, 1..d) # SumOver(f, 2..d + 1))
  OBVIOUS
<1> HIDE DEF D
<1>1. ASSUME D # {} PROVE FALSE
  <2>0. D \subseteq Nat
    BY <1>0
  <2>1. PICK m \in D : \A y \in D : ~(y < m)
    BY <1>1, <2>0, SmallestNumber, Zenon
  <2>2. m \in 0..n /\ SumOver(k, 1..m) # SumOver(f, 2..m + 1)
    BY <1>0, <2>1
  <2>3. CASE m = 0
    <3>1. 1..m = {} /\ 2..m + 1 = {}
      BY <2>3
    <3>2. QED
      BY <2>2, <3>1, SumOverEmpty
  <2>4. CASE m # 0
    <3> DEFINE S == 1..m - 1
               T == 2..m
    <3>1. m - 1 \in 0..n /\ m - 1 < m /\ (m - 1) + 1 = m
      BY <2>2, <2>4
    <3>2. SumOver(k, S) = SumOver(f, T)
      BY <1>0, <2>1, <3>1
    <3>3. 1..m = S \cup {m} /\ m \notin S /\ 2..m + 1 = T \cup {m + 1} /\ m + 1 \notin T
      BY <2>2, <2>4
    <3>4. IsFiniteSet(S) /\ IsFiniteSet(T)
      BY <2>2, <3>1, FS_Interval
    <3>5. NaturalsOn(k, S \cup {m})
      BY <2>2, <2>4 DEF NaturalsOn
    <3>6. NaturalsOn(f, T \cup {m + 1})
      <4> SUFFICES ASSUME NEW j \in 2..m + 1 PROVE f[j] \in Nat
        BY <3>3 DEF NaturalsOn
      <4>1. j - 1 \in 1..n /\ (j - 1) + 1 = j
        BY <2>2
      <4>2. QED
        BY <4>1
    <3>7. k[m] = f[m + 1]
      BY <2>2, <2>4
    <3> HIDE DEF S, T
    <3>8. SumOver(k, S \cup {m}) = SumOver(k, S) + k[m]
      BY <3>3, <3>4, <3>5, SumOverAdd
    <3>9. ASSUME NEW j, j = m + 1 PROVE SumOver(f, T \cup {j}) = SumOver(f, T) + f[j]
      BY <3>3, <3>4, <3>6, <3>9, SumOverAdd
    <3>10. QED
      BY <2>2, <3>2, <3>3, <3>7, <3>8, <3>9
  <2>5. QED
    BY <2>3, <2>4
<1>2. QED
  BY <1>0, <1>1
=============================================================================
