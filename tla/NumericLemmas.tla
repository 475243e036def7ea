--------------------------- MODULE NumericLemmas ---------------------------
(***************************************************************************)
(* Facts about numbers that the proofs share: multiplication by a rate and *)
(* division by a period, induction over numbers and over the subsets of a  *)
(* finite set, and what SumFunctionOnSet computes for every finite set.    *)
(***************************************************************************)
EXTENDS Integers, FiniteSetTheorems, TLAPS

LEMMA MulNat == ASSUME NEW a \in Nat, NEW b \in Nat PROVE a * b \in Nat
OBVIOUS

LEMMA MulPositive == ASSUME NEW a \in Nat \ {0}, NEW b \in Nat \ {0} PROVE a * b \in Nat \ {0}
OBVIOUS

LEMMA MulMonotone ==
  ASSUME NEW a \in Nat, NEW b \in Nat, NEW r \in Nat, a <= b
  PROVE  a * r <= b * r
OBVIOUS

LEMMA MulCancel ==
  ASSUME NEW a \in Nat, NEW b \in Nat, NEW r \in Nat \ {0}, a * r < b * r
  PROVE  a < b
OBVIOUS

LEMMA DivBounds ==
  ASSUME NEW a \in Nat, NEW b \in Nat \ {0}
  PROVE  a \div b \in Nat /\ b * (a \div b) <= a /\ a < b * (a \div b) + b
OBVIOUS

\* A division that rounds up reaches its dividend.
LEMMA RoundUpBounds ==
  ASSUME NEW a \in Nat, NEW b \in Nat \ {0}
  PROVE  (a + b - 1) \div b \in Nat /\ a <= b * ((a + b - 1) \div b)
BY DivBounds

\* The start of the period a moment lies in.
LEMMA Alignment ==
  ASSUME NEW n \in Nat, NEW b \in Nat \ {0}
  PROVE  n % b \in 0..(b - 1) /\ n - (n % b) = b * (n \div b)
OBVIOUS

LEMMA DivMonotone ==
  ASSUME NEW m \in Nat, NEW n \in Nat, NEW b \in Nat \ {0}, m <= n
  PROVE  m \div b <= n \div b
<1> DEFINE p == m \div b
           q == n \div b
<1>1. p \in Nat /\ q \in Nat /\ b * p <= m /\ n < b * q + b
  BY DivBounds
<1> HIDE DEF p, q
<1>2. p * b < (q + 1) * b
  BY <1>1
<1>3. p < q + 1
  BY <1>1, <1>2, MulCancel
<1> QED
  BY <1>1, <1>3 DEF p, q

-----------------------------------------------------------------------------
(* Induction.  The sets of numbers, or of subsets, that have the property   *)
(* take the place of a predicate.                                           *)

LEMMA SmallestOf ==
  ASSUME NEW S \in SUBSET Nat, S # {}
  PROVE  \E m \in S : \A i \in S : m <= i
<1>1. PICK m \in S : \A i \in S : ~(<<i, m>> \in OpToRel(<, Nat))
  BY NatLessThanWellFounded, WFMin
<1>2. ASSUME NEW i \in S PROVE m <= i
  <2>1. m \in Nat /\ i \in Nat /\ ~(i < m)
    BY <1>1 DEF OpToRel
  <2> QED
    BY <2>1
<1> QED
  BY <1>2

LEMMA GreatestOf ==
  ASSUME NEW n \in Nat, NEW S \in SUBSET (0..n), S # {}
  PROVE  \E m \in S : \A i \in S : i <= m
<1> DEFINE D == {n - i : i \in S}
<1>1. D \in SUBSET Nat /\ D # {}
  <2>1. \A i \in S : n - i \in Nat
    OBVIOUS
  <2> QED
    BY <2>1, Zenon
<1>2. PICK d \in D : \A e \in D : d <= e
  BY <1>1, SmallestOf
<1>3. PICK m \in S : d = n - m
  BY <1>2
<1>4. ASSUME NEW i \in S PROVE i <= m
  <2>1. n - m <= n - i
    BY <1>2, <1>3
  <2> QED
    BY <2>1
<1> QED
  BY <1>4

\* Induction over the numbers, on the set of those that have the property.
LEMMA Induction ==
  ASSUME NEW G \in SUBSET Nat, 0 \in G, \A n \in G : n + 1 \in G
  PROVE  G = Nat
<1> SUFFICES ASSUME Nat \ G # {} PROVE FALSE
  OBVIOUS
<1>1. PICK m \in Nat \ G : \A i \in Nat \ G : m <= i
  BY SmallestOf
<1>2. m - 1 \in Nat
  BY <1>1
<1>3. m - 1 \in G
  BY <1>1, <1>2
<1>4. (m - 1) + 1 = m
  BY <1>1
<1> QED
  BY <1>1, <1>3, <1>4

\* Induction over the subsets of a finite set, by removing elements.
LEMMA SubsetInduction ==
  ASSUME NEW D, IsFiniteSet(D), NEW G,
         \A S \in SUBSET D : (\A x \in S : S \ {x} \in G) => S \in G
  PROVE  \A S \in SUBSET D : S \in G
<1> DEFINE Good == {n \in Nat : \A S \in SUBSET D : Cardinality(S) <= n => S \in G}
<1>0. \A S \in SUBSET D : IsFiniteSet(S) /\ Cardinality(S) \in Nat
  BY FS_Subset, FS_CardinalityType
<1>1. 0 \in Good
  <2> SUFFICES ASSUME NEW S \in SUBSET D, Cardinality(S) <= 0 PROVE S \in G
    OBVIOUS
  <2>1. S = {}
    BY <1>0, FS_EmptySet
  <2> QED
    BY <2>1
<1>2. ASSUME NEW n \in Good PROVE n + 1 \in Good
  <2> SUFFICES ASSUME NEW S \in SUBSET D, Cardinality(S) <= n + 1 PROVE S \in G
    OBVIOUS
  <2> SUFFICES ASSUME NEW x \in S PROVE S \ {x} \in G
    OBVIOUS
  <2>1. IsFiniteSet(S) /\ Cardinality(S) \in Nat /\ n \in Nat
    BY <1>0
  <2>2. Cardinality(S \ {x}) = Cardinality(S) - 1
    BY <2>1, FS_RemoveElement
  <2>3. Cardinality(S \ {x}) <= n
    BY <2>1, <2>2
  <2>4. S \ {x} \in SUBSET D
    OBVIOUS
  <2> QED
    BY <2>3, <2>4
<1>3. Good = Nat
  <2> HIDE DEF Good
  <2>1. Good \in SUBSET Nat
    BY DEF Good
  <2> QED
    BY <1>1, <1>2, <2>1, Induction
<1> SUFFICES ASSUME NEW S \in SUBSET D PROVE S \in G
  OBVIOUS
<1>4. Cardinality(S) \in Good
  BY <1>0, <1>3
<1> QED
  BY <1>0, <1>4

\* The recursive function behind SumFunctionOnSet, which takes the elements of
\* a set in the order in which CHOOSE gives them.
Pick(s) == CHOOSE x \in s : TRUE
Rest(s) == s \ {Pick(s)}
IsSum(f, T, g) == g = [s \in T |-> IF s = {} THEN 0 ELSE f[Pick(s)] + g[Rest(s)]]
SumsOf(f, S) == CHOOSE g : IsSum(f, SUBSET S, g)

LEMMA SumUnfolds == ASSUME NEW f, NEW S PROVE SumFunctionOnSet(f, S) = SumsOf(f, S)[S]
 BY DEF SumFunctionOnSet, FoldFunctionOnSet, MapThenFoldSet, SumsOf, IsSum, Pick, Rest

LEMMA PickIn == ASSUME NEW s, s # {} PROVE Pick(s) \in s
  BY DEF Pick

\* The recursion of the fold has a solution: a function on the subsets of up
\* to n elements extends to those of n + 1.
LEMMA SumExists ==
  ASSUME NEW f, NEW S, IsFiniteSet(S)
  PROVE  IsSum(f, SUBSET S, SumsOf(f, S))
<1> DEFINE Upto(n) == {s \in SUBSET S : Cardinality(s) <= n}
           Good == {n \in Nat : \E g : IsSum(f, Upto(n), g)}
<1>0. \A s \in SUBSET S : IsFiniteSet(s) /\ Cardinality(s) \in Nat
  BY FS_Subset, FS_CardinalityType
<1>1. 0 \in Good
  <2> DEFINE g == [s \in Upto(0) |-> 0]
  <2>1. ASSUME NEW s \in Upto(0) PROVE s = {}
    BY <1>0, FS_EmptySet
  <2>2. g = [s \in Upto(0) |-> IF s = {} THEN 0 ELSE f[Pick(s)] + g[Rest(s)]]
    <3> HIDE DEF Upto
    <3> QED
      BY <2>1
  <2> HIDE DEF g
  <2>3. IsSum(f, Upto(0), g)
    BY <2>2 DEF IsSum
  <2> QED
    BY <2>3
<1>2. ASSUME NEW n \in Good PROVE n + 1 \in Good
  <2>1. PICK g : IsSum(f, Upto(n), g)
    OBVIOUS
  <2> DEFINE h == [s \in Upto(n + 1) |-> IF s = {} THEN 0 ELSE f[Pick(s)] + g[Rest(s)]]
  <2>2. ASSUME NEW s \in Upto(n + 1), s # {} PROVE Rest(s) \in Upto(n)
    <3>1. s \in SUBSET S /\ Cardinality(s) <= n + 1 /\ Pick(s) \in s
      BY <2>2, PickIn
    <3>2. Cardinality(Rest(s)) = Cardinality(s) - 1
      BY <1>0, <3>1, FS_RemoveElement DEF Rest
    <3>3. Rest(s) \in SUBSET S
      BY <3>1 DEF Rest
    <3> QED
      BY <1>0, <3>1, <3>2, <3>3
  <2>3. ASSUME NEW s \in Upto(n) PROVE s \in Upto(n + 1) /\ g[s] = h[s]
    <3>1. s \in Upto(n + 1)
      BY <1>0
    <3>2. g[s] = IF s = {} THEN 0 ELSE f[Pick(s)] + g[Rest(s)]
      <4> HIDE DEF Upto
      <4> QED
        BY <2>1, <2>3 DEF IsSum
    <3> HIDE DEF Upto
    <3> QED
      BY <3>1, <3>2
  <2>4. h = [s \in Upto(n + 1) |-> IF s = {} THEN 0 ELSE f[Pick(s)] + h[Rest(s)]]
    <3>1. ASSUME NEW s \in Upto(n + 1)
          PROVE  (IF s = {} THEN 0 ELSE f[Pick(s)] + g[Rest(s)]) = (IF s = {} THEN 0 ELSE f[Pick(s)] + h[Rest(s)])
      <4> HIDE DEF Upto, h
      <4> QED
        BY <2>2, <2>3, <3>1
    <3> HIDE DEF Upto
    <3> QED
      BY <3>1
  <2> HIDE DEF h
  <2>5. IsSum(f, Upto(n + 1), h)
    BY <2>4 DEF IsSum
  <2> QED
    BY <2>5
<1>3. Good = Nat
  <2> HIDE DEF Good
  <2>1. Good \in SUBSET Nat
    BY DEF Good
  <2> QED
    BY <1>1, <1>2, <2>1, Induction
<1>4. Cardinality(S) \in Good
  BY <1>0, <1>3
<1>5. Upto(Cardinality(S)) = SUBSET S
  BY <1>0, FS_Subset
<1>6. PICK g : IsSum(f, SUBSET S, g)
  BY <1>4, <1>5
<1> QED
  BY <1>6 DEF SumsOf

\* The sum over a subset does not depend on the set the fold started from.
LEMMA SumRestricts ==
  ASSUME NEW f, NEW S, IsFiniteSet(S)
  PROVE  \A T \in SUBSET S : SumsOf(f, S)[T] = SumsOf(f, T)[T]
<1> DEFINE g == SumsOf(f, S)
           G == {T \in SUBSET S : \A R \in SUBSET S : T \subseteq R => SumsOf(f, R)[T] = g[T]}
<1>1. ASSUME NEW R \in SUBSET S, NEW s \in SUBSET R
      PROVE  SumsOf(f, R)[s] = IF s = {} THEN 0 ELSE f[Pick(s)] + SumsOf(f, R)[Rest(s)]
  <2>1. IsSum(f, SUBSET R, SumsOf(f, R))
    BY FS_Subset, SumExists
  <2> QED
    BY <2>1 DEF IsSum
<1>2. ASSUME NEW T \in SUBSET S, \A x \in T : T \ {x} \in G PROVE T \in G
  <2> SUFFICES ASSUME NEW R \in SUBSET S, T \subseteq R PROVE SumsOf(f, R)[T] = g[T]
    OBVIOUS
  <2>1. CASE T = {}
    BY <1>1, <2>1
  <2>2. CASE T # {}
    <3>1. Rest(T) \in G
      BY <1>2, <2>2, PickIn DEF Rest
    <3>2. Rest(T) \subseteq R
      BY DEF Rest
    <3>3. SumsOf(f, R)[Rest(T)] = g[Rest(T)]
      BY <3>1, <3>2
    <3>4. SumsOf(f, R)[T] = f[Pick(T)] + SumsOf(f, R)[Rest(T)]
      BY <1>1, <2>2
    <3>5. g[T] = f[Pick(T)] + g[Rest(T)]
      BY <1>1, <2>2
    <3> QED
      BY <3>3, <3>4, <3>5
  <2> QED
    BY <2>1, <2>2
<1>3. \A T \in SUBSET S : T \in G
  <2> HIDE DEF G
  <2> QED
    BY <1>2, SubsetInduction
<1> QED
  BY <1>3

LEMMA SumEmpty == ASSUME NEW f PROVE SumFunctionOnSet(f, {}) = 0
<1>1. IsSum(f, SUBSET {}, SumsOf(f, {}))
  BY SumExists, FS_EmptySet
<1> QED
  BY <1>1, SumUnfolds DEF IsSum

LEMMA SumPick ==
  ASSUME NEW f, NEW S, IsFiniteSet(S), S # {}
  PROVE  SumFunctionOnSet(f, S) = f[Pick(S)] + SumFunctionOnSet(f, Rest(S))
<1>1. IsSum(f, SUBSET S, SumsOf(f, S))
  BY SumExists
<1>2. SumsOf(f, S)[S] = f[Pick(S)] + SumsOf(f, S)[Rest(S)]
  BY <1>1 DEF IsSum
<1>3. SumsOf(f, S)[Rest(S)] = SumsOf(f, Rest(S))[Rest(S)]
  BY SumRestricts DEF Rest
<1> QED
  BY <1>2, <1>3, SumUnfolds

LEMMA SumType ==
  ASSUME NEW D, NEW f \in [D -> Nat], IsFiniteSet(D)
  PROVE  \A S \in SUBSET D : SumFunctionOnSet(f, S) \in Nat
<1> DEFINE G == {S \in SUBSET D : SumFunctionOnSet(f, S) \in Nat}
<1>1. ASSUME NEW S \in SUBSET D, \A x \in S : S \ {x} \in G PROVE S \in G
  <2>1. CASE S = {}
    BY <2>1, SumEmpty
  <2>2. CASE S # {}
    <3>1. Pick(S) \in S /\ Rest(S) \in G
      BY <1>1, <2>2, PickIn DEF Rest
    <3>2. IsFiniteSet(S)
      BY FS_Subset
    <3>3. SumFunctionOnSet(f, S) = f[Pick(S)] + SumFunctionOnSet(f, Rest(S))
      BY <2>2, <3>2, SumPick
    <3>4. f[Pick(S)] \in Nat
      BY <3>1
    <3> QED
      BY <3>1, <3>3, <3>4
  <2> QED
    BY <2>1, <2>2
<1>2. \A S \in SUBSET D : S \in G
  <2> HIDE DEF G
  <2> QED
    BY <1>1, SubsetInduction
<1> QED
  BY <1>2

\* Any element can be taken out of a sum.
LEMMA SumRemove ==
  ASSUME NEW D, NEW f \in [D -> Nat], IsFiniteSet(D)
  PROVE  \A S \in SUBSET D : \A x \in S :
           SumFunctionOnSet(f, S) = f[x] + SumFunctionOnSet(f, S \ {x})
<1> DEFINE Sum1(S) == SumFunctionOnSet(f, S)
           G == {S \in SUBSET D : \A x \in S : Sum1(S) = f[x] + Sum1(S \ {x})}
<1>1. ASSUME NEW S \in SUBSET D, \A x \in S : S \ {x} \in G PROVE S \in G
  <2> SUFFICES ASSUME NEW x \in S PROVE Sum1(S) = f[x] + Sum1(S \ {x})
    OBVIOUS
  <2> DEFINE p == Pick(S)
  <2>1. p \in S /\ S # {} /\ IsFiniteSet(S)
    BY PickIn, FS_Subset
  <2>2. Sum1(S) = f[p] + Sum1(S \ {p})
    BY <2>1, SumPick DEF Rest
  <2> HIDE DEF p
  <2>3. CASE x = p
    BY <2>2, <2>3
  <2>4. CASE x # p
    <3>1. Sum1(S \ {p}) = f[x] + Sum1((S \ {p}) \ {x})
      <4>1. S \ {p} \in G /\ x \in S \ {p}
        BY <1>1, <2>1, <2>4
      <4> HIDE DEF Sum1
      <4> QED
        BY <4>1
    <3>2. Sum1(S \ {x}) = f[p] + Sum1((S \ {x}) \ {p})
      <4>1. S \ {x} \in G /\ p \in S \ {x}
        BY <1>1, <2>1, <2>4
      <4> HIDE DEF Sum1
      <4> QED
        BY <4>1
    <3>3. (S \ {p}) \ {x} = (S \ {x}) \ {p} /\ (S \ {x}) \ {p} \in SUBSET D
      OBVIOUS
    <3>4. f[x] \in Nat /\ f[p] \in Nat /\ Sum1((S \ {x}) \ {p}) \in Nat
      BY <2>1, <3>3, SumType
    <3> HIDE DEF Sum1
    <3>5. Sum1((S \ {p}) \ {x}) = Sum1((S \ {x}) \ {p})
      BY <3>3
    <3> QED
      BY <2>2, <3>1, <3>2, <3>4, <3>5
  <2> QED
    BY <2>3, <2>4
<1>2. \A S \in SUBSET D : S \in G
  <2> HIDE DEF G
  <2> QED
    BY <1>1, SubsetInduction
<1> QED
  BY <1>2

\* A sum depends on the values it adds up only.
LEMMA SumAgree ==
  ASSUME NEW D, IsFiniteSet(D), NEW f, NEW g, \A x \in D : f[x] = g[x]
  PROVE  SumFunctionOnSet(f, D) = SumFunctionOnSet(g, D)
<1> DEFINE G == {S \in SUBSET D : SumFunctionOnSet(f, S) = SumFunctionOnSet(g, S)}
<1>1. ASSUME NEW S \in SUBSET D, \A x \in S : S \ {x} \in G PROVE S \in G
  <2>1. CASE S = {}
    BY <2>1, SumEmpty
  <2>2. CASE S # {}
    <3>1. Pick(S) \in S /\ Rest(S) \in G /\ IsFiniteSet(S)
      BY <1>1, <2>2, PickIn, FS_Subset DEF Rest
    <3>2. SumFunctionOnSet(f, S) = f[Pick(S)] + SumFunctionOnSet(f, Rest(S))
      BY <2>2, <3>1, SumPick
    <3>3. SumFunctionOnSet(g, S) = g[Pick(S)] + SumFunctionOnSet(g, Rest(S))
      BY <2>2, <3>1, SumPick
    <3>4. f[Pick(S)] = g[Pick(S)]
      BY <3>1
    <3> QED
      BY <3>1, <3>2, <3>3, <3>4
  <2> QED
    BY <2>1, <2>2
<1>2. \A S \in SUBSET D : S \in G
  <2> HIDE DEF G
  <2> QED
    BY <1>1, SubsetInduction
<1> QED
  BY <1>2

\* The sum over two sets that share no element.
LEMMA SumSplit ==
  ASSUME NEW D, NEW f \in [D -> Nat], IsFiniteSet(D), NEW B \in SUBSET D
  PROVE  \A A \in SUBSET (D \ B) :
           SumFunctionOnSet(f, A \cup B) = SumFunctionOnSet(f, A) + SumFunctionOnSet(f, B)
<1> DEFINE Total(S) == SumFunctionOnSet(f, S)
           G == {A \in SUBSET (D \ B) : Total(A \cup B) = Total(A) + Total(B)}
<1>1. \A S \in SUBSET D : Total(S) \in Nat
  BY SumType
<1>2. ASSUME NEW A \in SUBSET (D \ B), \A x \in A : A \ {x} \in G PROVE A \in G
  <2>1. CASE A = {}
    <3>1. A \cup B = B /\ Total(A) = 0 /\ Total(B) \in Nat
      BY <1>1, <2>1, SumEmpty
    <3> HIDE DEF Total
    <3> QED
      BY <3>1
  <2>2. CASE A # {}
    <3>1. PICK x \in A : TRUE
      BY <2>2
    <3>2. (A \cup B) \ {x} = (A \ {x}) \cup B
      BY <3>1
    <3>3. Total(A) = f[x] + Total(A \ {x})
      BY <3>1, SumRemove
    <3>4. Total(A \cup B) = f[x] + Total((A \cup B) \ {x})
      BY <3>1, SumRemove
    <3>5. Total(A \ {x}) \in Nat /\ Total(B) \in Nat /\ f[x] \in Nat
      BY <1>1, <3>1
    <3> HIDE DEF Total
    <3>6. Total((A \ {x}) \cup B) = Total(A \ {x}) + Total(B)
      BY <1>2, <3>1
    <3> QED
      BY <3>2, <3>3, <3>4, <3>5, <3>6
  <2> QED
    BY <2>1, <2>2
<1>3. IsFiniteSet(D \ B)
  BY FS_Subset
<1>4. \A A \in SUBSET (D \ B) : A \in G
  <2> HIDE DEF G
  <2> QED
    BY <1>2, <1>3, SubsetInduction
<1> QED
  BY <1>4

LEMMA SumMonotone ==
  ASSUME NEW D, NEW f \in [D -> Nat], IsFiniteSet(D), NEW B \in SUBSET D, NEW A \in SUBSET B
  PROVE  SumFunctionOnSet(f, A) <= SumFunctionOnSet(f, B)
<1>1. (B \ A) \cup A = B /\ A \in SUBSET D /\ B \ A \in SUBSET (D \ A) /\ B \ A \in SUBSET D
  OBVIOUS
<1>2. SumFunctionOnSet(f, B) = SumFunctionOnSet(f, B \ A) + SumFunctionOnSet(f, A)
  BY <1>1, SumSplit
<1>3. SumFunctionOnSet(f, B \ A) \in Nat /\ SumFunctionOnSet(f, A) \in Nat
  BY <1>1, SumType
<1> QED
  BY <1>2, <1>3

\* One value grows.
LEMMA SumUpdate ==
  ASSUME NEW D, NEW f \in [D -> Nat], IsFiniteSet(D), NEW S \in SUBSET D, NEW x \in D, NEW c \in Nat,
         NEW g \in [D -> Nat], g[x] = f[x] + c, \A y \in D : y # x => g[y] = f[y]
  PROVE  SumFunctionOnSet(g, S) = SumFunctionOnSet(f, S) + (IF x \in S THEN c ELSE 0)
<1>1. f[x] \in Nat
  OBVIOUS
<1>2. IsFiniteSet(S) /\ SumFunctionOnSet(f, S) \in Nat
  BY FS_Subset, SumType
<1>3. CASE x \in S
  <2>1. SumFunctionOnSet(g, S) = g[x] + SumFunctionOnSet(g, S \ {x})
    BY <1>1, <1>3, SumRemove
  <2>2. SumFunctionOnSet(f, S) = f[x] + SumFunctionOnSet(f, S \ {x})
    BY <1>3, SumRemove
  <2>3. SumFunctionOnSet(g, S \ {x}) = SumFunctionOnSet(f, S \ {x})
    <3>1. IsFiniteSet(S \ {x}) /\ \A y \in S \ {x} : g[y] = f[y]
      BY <1>1, <1>2, FS_Subset
    <3> QED
      BY <3>1, SumAgree
  <2>4. SumFunctionOnSet(f, S \ {x}) \in Nat
    BY SumType
  <2> QED
    BY <1>1, <1>3, <2>1, <2>2, <2>3, <2>4
<1>4. CASE x \notin S
  <2>1. SumFunctionOnSet(g, S) = SumFunctionOnSet(f, S)
    <3>1. \A y \in S : g[y] = f[y]
      BY <1>1, <1>4
    <3> QED
      BY <1>2, <3>1, SumAgree
  <2> QED
    BY <1>2, <1>4, <2>1
<1> QED
  BY <1>3, <1>4

\* A sum of ones.
LEMMA CardinalityIsSum ==
  ASSUME NEW D, NEW f \in [D -> Nat], IsFiniteSet(D), \A x \in D : f[x] = 1
  PROVE  \A S \in SUBSET D : SumFunctionOnSet(f, S) = Cardinality(S)
<1> DEFINE G == {S \in SUBSET D : SumFunctionOnSet(f, S) = Cardinality(S)}
<1>1. ASSUME NEW S \in SUBSET D, \A x \in S : S \ {x} \in G PROVE S \in G
  <2>1. CASE S = {}
    BY <2>1, SumEmpty, FS_EmptySet
  <2>2. CASE S # {}
    <3>1. PICK x \in S : TRUE
      BY <2>2
    <3>2. SumFunctionOnSet(f, S) = f[x] + SumFunctionOnSet(f, S \ {x})
      <4> HIDE DEF G
      <4> QED
        BY SumRemove
    <3>3. SumFunctionOnSet(f, S \ {x}) = Cardinality(S \ {x}) /\ f[x] = 1
      BY <1>1, <3>1
    <3>4. IsFiniteSet(S) /\ Cardinality(S) \in Nat
      BY FS_Subset, FS_CardinalityType
    <3>5. Cardinality(S \ {x}) = Cardinality(S) - 1
      BY <3>1, <3>4, FS_RemoveElement
    <3> QED
      BY <3>2, <3>3, <3>4, <3>5
  <2> QED
    BY <2>1, <2>2
<1>2. \A S \in SUBSET D : S \in G
  <2> HIDE DEF G
  <2> QED
    BY <1>1, SubsetInduction
<1> QED
  BY <1>2

\* Summing group by group: k gives the group of an element, f the sum of a
\* group.
LEMMA SumByGroup ==
  ASSUME NEW R, NEW v \in [R -> Nat], IsFiniteSet(R), NEW k,
         NEW K, NEW f \in [K -> Nat], IsFiniteSet(K),
         \A x \in K : f[x] = SumFunctionOnSet(v, {r \in R : k[r] = x})
  PROVE  SumFunctionOnSet(f, K) = SumFunctionOnSet(v, {r \in R : k[r] \in K})
<1> DEFINE Of(H) == {r \in R : k[r] \in H}
           In(x) == {r \in R : k[r] = x}
           G == {H \in SUBSET K : SumFunctionOnSet(f, H) = SumFunctionOnSet(v, Of(H))}
<1>1. ASSUME NEW H \in SUBSET K, \A x \in H : H \ {x} \in G PROVE H \in G
  <2>1. CASE H = {}
    <3>1. Of(H) = {}
      BY <2>1
    <3> HIDE DEF Of
    <3> QED
      BY <2>1, <3>1, SumEmpty
  <2>2. CASE H # {}
    <3>1. PICK x \in H : TRUE
      BY <2>2
    <3>2. SumFunctionOnSet(f, H) = f[x] + SumFunctionOnSet(f, H \ {x})
      <4> HIDE DEF G
      <4> QED
        BY SumRemove
    <3>3. SumFunctionOnSet(f, H \ {x}) = SumFunctionOnSet(v, Of(H \ {x}))
      BY <1>1, <3>1
    <3>4. f[x] = SumFunctionOnSet(v, In(x))
      BY <3>1
    <3>5. /\ In(x) \cup Of(H \ {x}) = Of(H) /\ Of(H \ {x}) \in SUBSET R
          /\ In(x) \in SUBSET (R \ Of(H \ {x}))
      BY <3>1
    <3> HIDE DEF G, Of, In
    <3>6. SumFunctionOnSet(v, In(x) \cup Of(H \ {x})) = SumFunctionOnSet(v, In(x)) + SumFunctionOnSet(v, Of(H \ {x}))
      <4>1. PICK A, B : A = In(x) /\ B = Of(H \ {x})
        OBVIOUS
      <4>2. B \in SUBSET R /\ A \in SUBSET (R \ B)
        BY <3>5, <4>1
      <4>3. SumFunctionOnSet(v, A \cup B) = SumFunctionOnSet(v, A) + SumFunctionOnSet(v, B)
        BY <4>2, SumSplit
      <4> QED
        BY <4>1, <4>3
    <3>7. SumFunctionOnSet(f, H) = SumFunctionOnSet(v, Of(H))
      BY <3>2, <3>3, <3>4, <3>5, <3>6
    <3> QED
      BY <3>7 DEF G
  <2> QED
    BY <2>1, <2>2
<1>2. \A H \in SUBSET K : H \in G
  <2> HIDE DEF G
  <2> QED
    BY <1>1, SubsetInduction
<1> QED
  BY <1>2

LEMMA SumSingle ==
  ASSUME NEW D, NEW f \in [D -> Nat], IsFiniteSet(D), NEW x \in D
  PROVE  SumFunctionOnSet(f, {x}) = f[x]
<1>1. {x} \in SUBSET D /\ x \in {x} /\ {x} \ {x} = {} /\ f[x] \in Nat
  OBVIOUS
<1>2. SumFunctionOnSet(f, {x}) = f[x] + SumFunctionOnSet(f, {x} \ {x})
  BY <1>1, SumRemove
<1> QED
  BY <1>1, <1>2, SumEmpty
=============================================================================
