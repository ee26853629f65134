----------------------------- MODULE SetArithmetic -----------------------------
(***************************************************************************)
(* Facts about sums over finite sets and about ranks in finite orders,     *)
(* which the proofs about the components cite.  They are stated over       *)
(* functions and sets of pairs, and proved from the least counterexample.  *)
(***************************************************************************)
EXTENDS Integers, FiniteSetsExt, Functions, FiniteSetTheorems, TLAPS

\* A set of naturals that is not empty has a least element.
LEMMA LeastNatural ==
  ASSUME NEW T \in SUBSET Nat, T # {}
  PROVE  \E n \in T : \A m \in T : n <= m
<1> DEFINE less == {p \in Nat \X Nat : p[1] < p[2]}
<1>1. IsWellFoundedOn(less, Nat)
  BY NatLessThanWellFounded DEF OpToRel
<1> HIDE DEF less
<1>2. PICK n \in T : \A m \in T : ~(<<m, n>> \in less)
  BY <1>1, WFMin
<1>3. \A m \in T : m < n => <<m, n>> \in less
  BY DEF less
<1>4. \A m \in T : m \in Nat /\ n \in Nat
  OBVIOUS
<1>5. \A m \in T : n <= m
  <2> TAKE m \in T
  <2>1. ~(m < n)
    BY <1>2, <1>3
  <2> QED
    BY <1>4, <2>1
<1> QED
  BY <1>5

\* Induction over the subsets of a finite set: of some of them that have a property,
\* one has no smaller subset that has it.
LEMMA LeastSubset ==
  ASSUME NEW S, IsFiniteSet(S), NEW B \in SUBSET SUBSET S, B # {}
  PROVE  \E s \in B : \A t \in SUBSET s : t # s => t \notin B
<1>1. IsWellFoundedOn(StrictSubsetOrdering(S), SUBSET S)
  BY FS_StrictSubsetOrderingWellFounded, FS_FiniteSubsetsOfFinite
<1>2. PICK s \in B : \A t \in B : ~(<<t, s>> \in StrictSubsetOrdering(S))
  BY <1>1, WFMin
<1>3. \A t \in SUBSET s : t # s /\ t \in B => <<t, s>> \in StrictSubsetOrdering(S)
  BY DEF StrictSubsetOrdering
<1>4. \A t \in SUBSET s : t # s => t \notin B
  BY <1>2, <1>3
<1> QED
  BY <1>4

-----------------------------------------------------------------------------
(* Sums *)

\* What the recursive function of a fold computes for a subset
Rest(s) == s \ {CHOOSE x \in s : TRUE}

Folded(f, g, s) == IF s = {} THEN 0 ELSE f[CHOOSE x \in s : TRUE] + g[Rest(s)]

Sums(f, S) == CHOOSE g : g = [s \in SUBSET S |-> Folded(f, g, s)]

Sum(f, S) == Sums(f, S)[S]

LEMMA RestSmaller ==
  ASSUME NEW s, IsFiniteSet(s), s # {}
  PROVE  /\ Rest(s) \subseteq s /\ IsFiniteSet(Rest(s))
         /\ Cardinality(Rest(s)) \in Nat
         /\ Cardinality(s) = Cardinality(Rest(s)) + 1
         /\ (CHOOSE x \in s : TRUE) \in s
<1>1. (CHOOSE x \in s : TRUE) \in s
  OBVIOUS
<1> DEFINE x == CHOOSE x \in s : TRUE
<1>2. IsFiniteSet(s \ {x}) /\ Cardinality(s \ {x}) = Cardinality(s) - 1
  BY <1>1, FS_RemoveElement
<1>3. Cardinality(s) \in Nat /\ Cardinality(s \ {x}) \in Nat
  BY <1>2, FS_CardinalityType
<1>4. Rest(s) = s \ {x}
  BY DEF Rest
<1> HIDE DEF x
<1>5. Rest(s) \subseteq s /\ IsFiniteSet(Rest(s)) /\ Cardinality(Rest(s)) \in Nat
  BY <1>2, <1>3, <1>4
<1>6. Cardinality(s) = Cardinality(Rest(s)) + 1
  BY <1>2, <1>3, <1>4
<1> QED
  BY <1>1, <1>5, <1>6 DEF x

\* The recursive function of a sum exists.
LEMMA SumsExist ==
  ASSUME NEW f, NEW S, IsFiniteSet(S)
  PROVE  \E g : g = [s \in SUBSET S |-> Folded(f, g, s)]
<1> DEFINE small(n) == {s \in SUBSET S : Cardinality(s) <= n}
           bad == {n \in Nat : ~\E g : g = [s \in small(n) |-> Folded(f, g, s)]}
<1>0. \A s \in SUBSET S : IsFiniteSet(s) /\ Cardinality(s) \in Nat
                            /\ Cardinality(s) <= Cardinality(S)
  BY FS_Subset, FS_CardinalityType
<1>1. bad = {}
  <2> SUFFICES ASSUME bad # {}
               PROVE  FALSE
    OBVIOUS
  <2>1. PICK n \in bad : \A m \in bad : n <= m
    BY LeastNatural
  <2>2. CASE n = 0
    <3> DEFINE g == [s \in small(n) |-> 0]
    <3>1. \A s \in small(n) : s = {}
      BY <1>0, <2>2, FS_EmptySet
    <3>2. g = [s \in small(n) |-> Folded(f, g, s)]
      BY <3>1 DEF Folded
    <3> QED
      BY <2>1, <3>2
  <2>3. CASE n # 0
    <3>0. n \in Nat
      OBVIOUS
    <3> HIDE DEF bad
    <3>1. n - 1 \in Nat /\ n - 1 \notin bad
      BY <2>1, <2>3, <3>0
    <3> USE DEF bad
    <3>2. PICK h : h = [s \in small(n - 1) |-> Folded(f, h, s)]
      BY <3>1
    <3> DEFINE g == [s \in small(n) |-> Folded(f, h, s)]
    <3>3. \A s \in small(n) : s # {} => Rest(s) \in small(n - 1) /\ Rest(s) \in small(n)
      BY <1>0, <2>1, RestSmaller
    <3>4. \A s \in small(n - 1) : g[s] = h[s]
      <4> TAKE s \in small(n - 1)
      <4>1. s \in small(n)
        BY <1>0, <2>1
      <4>2. h[s] = Folded(f, h, s)
        BY <3>2
      <4> QED
        BY <4>1, <4>2
    <3>5. \A s \in small(n) : Folded(f, h, s) = Folded(f, g, s)
      <4> HIDE DEF small, g
      <4>1. \A s \in small(n) : s # {} => h[Rest(s)] = g[Rest(s)]
        BY <3>3, <3>4
      <4> QED
        BY <4>1 DEF Folded
    <3>6. g = [s \in small(n) |-> Folded(f, g, s)]
      BY <3>5
    <3> QED
      BY <2>1, <3>6
  <2> QED
    BY <2>2, <2>3
<1>2. PICK g : g = [s \in small(Cardinality(S)) |-> Folded(f, g, s)]
  BY <1>1, FS_CardinalityType
<1>3. small(Cardinality(S)) = SUBSET S
  BY <1>0
<1> QED
  BY <1>2, <1>3

LEMMA SumsUnique ==
  ASSUME NEW f, NEW S, IsFiniteSet(S),
         NEW g, \A s \in SUBSET S : g[s] = Folded(f, g, s),
         NEW h, \A s \in SUBSET S : h[s] = Folded(f, h, s)
  PROVE  \A s \in SUBSET S : g[s] = h[s]
<1> DEFINE bad == {s \in SUBSET S : g[s] # h[s]}
<1> SUFFICES ASSUME bad # {}
             PROVE  FALSE
  OBVIOUS
<1>1. PICK s \in bad : \A t \in SUBSET s : t # s => t \notin bad
  <2>1. bad \in SUBSET SUBSET S
    OBVIOUS
  <2> HIDE DEF bad
  <2> QED
    BY <2>1, LeastSubset
<1>2. IsFiniteSet(s)
  BY FS_Subset
<1>3. g[s] = Folded(f, g, s) /\ h[s] = Folded(f, h, s)
  OBVIOUS
<1>4. CASE s = {}
  BY <1>3, <1>4 DEF Folded
<1>5. CASE s # {}
  <2>1. Rest(s) \in SUBSET s /\ Rest(s) # s
    BY <1>2, <1>5 DEF Rest
  <2>2. g[Rest(s)] = h[Rest(s)]
    BY <1>1, <2>1
  <2> QED
    BY <1>3, <1>5, <2>2 DEF Folded
<1> QED
  BY <1>4, <1>5

LEMMA SumsUnfold ==
  ASSUME NEW f, NEW S, IsFiniteSet(S)
  PROVE  \A s \in SUBSET S : Sums(f, S)[s] = Folded(f, Sums(f, S), s)
<1> DEFINE g == Sums(f, S)
<1>1. g = [s \in SUBSET S |-> Folded(f, g, s)]
  BY SumsExist DEF Sums
<1> HIDE DEF g
<1>2. \A s \in SUBSET S : g[s] = Folded(f, g, s)
  BY <1>1
<1> QED
  BY <1>2 DEF g

\* The sum of a subset is in the function of the whole set.
LEMMA SumsRestrict ==
  ASSUME NEW f, NEW S, IsFiniteSet(S), NEW T \in SUBSET S
  PROVE  Sum(f, T) = Sums(f, S)[T]
<1>1. IsFiniteSet(T)
  BY FS_Subset
<1>2. \A s \in SUBSET T : Sums(f, S)[s] = Folded(f, Sums(f, S), s)
  BY SumsUnfold
<1>3. \A s \in SUBSET T : Sums(f, T)[s] = Folded(f, Sums(f, T), s)
  BY <1>1, SumsUnfold
<1>4. \A s \in SUBSET T : Sums(f, S)[s] = Sums(f, T)[s]
  BY <1>1, <1>2, <1>3, SumsUnique
<1> QED
  BY <1>4 DEF Sum

\* The sums of the community modules are these.
LEMMA FunctionSums ==
  \A f, S : /\ SumFunctionOnSet(f, S) = Sum(f, S)
            /\ SumFunction(f) = Sum(f, DOMAIN f)
<1>1. \A f, S : SumFunctionOnSet(f, S) = Sum(f, S)
  BY DEF SumFunctionOnSet, FoldFunctionOnSet, MapThenFoldSet, Sum, Sums, Folded, Rest
<1> QED
  BY <1>1 DEF SumFunction

LEMMA SumEmpty == \A f : Sum(f, {}) = 0
<1> TAKE f
<1>1. Sums(f, {})[{}] = Folded(f, Sums(f, {}), {})
  BY SumsUnfold, FS_EmptySet
<1> QED
  BY <1>1 DEF Sum, Folded

LEMMA SumRest ==
  ASSUME NEW f, NEW S, IsFiniteSet(S), S # {}
  PROVE  Sum(f, S) = f[CHOOSE x \in S : TRUE] + Sum(f, Rest(S))
<1>1. Rest(S) \in SUBSET S
  BY DEF Rest
<1>2. Sums(f, S)[S] = Folded(f, Sums(f, S), S)
  BY SumsUnfold
<1> QED
  BY <1>1, <1>2, SumsRestrict DEF Sum, Folded

LEMMA SumType ==
  ASSUME NEW f, NEW S, IsFiniteSet(S),
         NEW Numbers \in {Nat, Int}, \A x \in S : f[x] \in Numbers
  PROVE  Sum(f, S) \in Numbers
<1> DEFINE bad == {s \in SUBSET S : Sum(f, s) \notin Numbers}
<1> SUFFICES ASSUME bad # {}
             PROVE  FALSE
  OBVIOUS
<1>1. PICK s \in bad : \A t \in SUBSET s : t # s => t \notin bad
  <2>1. bad \in SUBSET SUBSET S
    OBVIOUS
  <2> HIDE DEF bad
  <2> QED
    BY <2>1, LeastSubset
<1>2. IsFiniteSet(s) /\ s # {}
  <2>1. 0 \in Numbers
    OBVIOUS
  <2> QED
    BY <2>1, FS_Subset, SumEmpty
<1>3. (CHOOSE x \in s : TRUE) \in S /\ Rest(s) \in SUBSET s /\ Rest(s) # s
  BY <1>2 DEF Rest
<1>4. Sum(f, Rest(s)) \in Numbers
  BY <1>1, <1>3
<1>5. Sum(f, s) = f[CHOOSE x \in s : TRUE] + Sum(f, Rest(s))
  BY <1>2, SumRest
<1>6. f[CHOOSE x \in s : TRUE] \in Numbers
  BY <1>3
<1>7. Sum(f, s) \in Numbers
  BY <1>4, <1>5, <1>6
<1> QED
  BY <1>7

\* A greater summand for everyone makes a sum that is no smaller.
LEMMA SumMonotone ==
  ASSUME NEW f, NEW g, NEW S, IsFiniteSet(S),
         \A x \in S : f[x] \in Int /\ g[x] \in Int /\ f[x] <= g[x]
  PROVE  Sum(f, S) <= Sum(g, S)
<1> DEFINE bad == {s \in SUBSET S : ~(Sum(f, s) <= Sum(g, s))}
<1> SUFFICES ASSUME bad # {}
             PROVE  FALSE
  OBVIOUS
<1>1. PICK s \in bad : \A t \in SUBSET s : t # s => t \notin bad
  <2>1. bad \in SUBSET SUBSET S
    OBVIOUS
  <2> HIDE DEF bad
  <2> QED
    BY <2>1, LeastSubset
<1>2. IsFiniteSet(s) /\ s # {}
  <2>1. Sum(f, {}) = 0 /\ Sum(g, {}) = 0
    BY SumEmpty
  <2>2. Sum(f, {}) <= Sum(g, {})
    BY <2>1
  <2> QED
    BY <2>2, FS_Subset
<1>3. (CHOOSE x \in s : TRUE) \in S /\ Rest(s) \in SUBSET s /\ Rest(s) # s
  BY <1>2 DEF Rest
<1>4. Sum(f, Rest(s)) <= Sum(g, Rest(s))
  BY <1>1, <1>3
<1>5. /\ Sum(f, s) = f[CHOOSE x \in s : TRUE] + Sum(f, Rest(s))
      /\ Sum(g, s) = g[CHOOSE x \in s : TRUE] + Sum(g, Rest(s))
  BY <1>2, SumRest
<1>6. \A x \in S : f[x] \in Int /\ g[x] \in Int /\ f[x] <= g[x]
  OBVIOUS
<1>7. IsFiniteSet(Rest(s)) /\ Rest(s) \subseteq S
  BY <1>2, <1>3, FS_Subset
<1>8. Sum(f, Rest(s)) \in Int /\ Sum(g, Rest(s)) \in Int
  BY <1>6, <1>7, SumType
<1>9. Sum(f, s) <= Sum(g, s)
  BY <1>3, <1>4, <1>5, <1>6, <1>8
<1> QED
  BY <1>9

\* A sum of summands up to a limit is no larger than the limit for each of them.
LEMMA SumBounded ==
  ASSUME NEW f, NEW S, IsFiniteSet(S), NEW limit \in Nat,
         \A x \in S : f[x] \in Int /\ f[x] <= limit
  PROVE  Sum(f, S) <= limit * Cardinality(S)
<1> DEFINE bad == {s \in SUBSET S : ~(Sum(f, s) <= limit * Cardinality(s))}
<1> SUFFICES ASSUME bad # {}
             PROVE  FALSE
  OBVIOUS
<1>1. PICK s \in bad : \A t \in SUBSET s : t # s => t \notin bad
  <2>1. bad \in SUBSET SUBSET S
    OBVIOUS
  <2> HIDE DEF bad
  <2> QED
    BY <2>1, LeastSubset
<1>2. IsFiniteSet(s) /\ s # {}
  BY FS_Subset, SumEmpty, FS_EmptySet
<1>3. (CHOOSE x \in s : TRUE) \in S /\ Rest(s) \in SUBSET s /\ Rest(s) # s
  BY <1>2 DEF Rest
<1>4. Sum(f, Rest(s)) <= limit * Cardinality(Rest(s))
  BY <1>1, <1>3
<1>5. Sum(f, s) = f[CHOOSE x \in s : TRUE] + Sum(f, Rest(s))
  BY <1>2, SumRest
<1>6. Sum(f, Rest(s)) \in Int
  BY <1>2, <1>3, FS_Subset, SumType
<1>7. Cardinality(s) = Cardinality(Rest(s)) + 1 /\ Cardinality(Rest(s)) \in Nat
  BY <1>2, RestSmaller
<1>8. f[CHOOSE x \in s : TRUE] \in Int /\ f[CHOOSE x \in s : TRUE] <= limit
  BY <1>3
<1>9. Sum(f, s) <= limit * Cardinality(s)
  <2>1. Sum(f, s) <= limit + limit * Cardinality(Rest(s))
    BY <1>4, <1>5, <1>6, <1>7, <1>8
  <2> QED
    BY <1>7, <2>1
<1> QED
  BY <1>9

LEMMA SumAgree ==
  ASSUME NEW f, NEW g, NEW S, IsFiniteSet(S), \A x \in S : f[x] = g[x]
  PROVE  Sum(f, S) = Sum(g, S)
<1> DEFINE bad == {s \in SUBSET S : Sum(f, s) # Sum(g, s)}
<1> SUFFICES ASSUME bad # {}
             PROVE  FALSE
  OBVIOUS
<1>1. PICK s \in bad : \A t \in SUBSET s : t # s => t \notin bad
  <2>1. bad \in SUBSET SUBSET S
    OBVIOUS
  <2> HIDE DEF bad
  <2> QED
    BY <2>1, LeastSubset
<1>2. IsFiniteSet(s) /\ s # {}
  BY FS_Subset, SumEmpty
<1>3. (CHOOSE x \in s : TRUE) \in S /\ Rest(s) \in SUBSET s /\ Rest(s) # s
  BY <1>2 DEF Rest
<1>4. Sum(f, Rest(s)) = Sum(g, Rest(s))
  BY <1>1, <1>3
<1>5. f[CHOOSE x \in s : TRUE] = g[CHOOSE x \in s : TRUE]
  BY <1>3
<1>6. Sum(f, s) = Sum(g, s)
  BY <1>2, <1>4, <1>5, SumRest
<1> QED
  BY <1>6

\* Summands may be added in any order.
LEMMA SumRemove ==
  ASSUME NEW f, NEW S, IsFiniteSet(S), \A x \in S : f[x] \in Int, NEW a \in S
  PROVE  Sum(f, S) = f[a] + Sum(f, S \ {a})
<1> DEFINE bad == {s \in SUBSET S : \E x \in s : Sum(f, s) # f[x] + Sum(f, s \ {x})}
<1> SUFFICES ASSUME bad # {}
             PROVE  FALSE
  OBVIOUS
<1>1. PICK s \in bad : \A t \in SUBSET s : t # s => t \notin bad
  <2>1. bad \in SUBSET SUBSET S
    OBVIOUS
  <2> HIDE DEF bad
  <2> QED
    BY <2>1, LeastSubset
<1>2. PICK x \in s : Sum(f, s) # f[x] + Sum(f, s \ {x})
  OBVIOUS
<1>3. IsFiniteSet(s) /\ s # {}
  BY FS_Subset
<1> DEFINE c == CHOOSE y \in s : TRUE
<1>4. c \in s /\ Rest(s) = s \ {c}
  BY <1>3 DEF Rest
<1>5. Sum(f, s) = f[c] + Sum(f, s \ {c})
  BY <1>3, <1>4, SumRest
<1> HIDE DEF c
<1>6. x # c
  BY <1>2, <1>5
<1>7. Sum(f, s \ {c}) = f[x] + Sum(f, (s \ {c}) \ {x})
  BY <1>1, <1>4, <1>6
<1>8. Sum(f, s \ {x}) = f[c] + Sum(f, (s \ {x}) \ {c})
  BY <1>1, <1>2, <1>4, <1>6
<1>9. (s \ {c}) \ {x} = (s \ {x}) \ {c}
  OBVIOUS
<1>10. f[x] \in Int /\ f[c] \in Int
  BY <1>4
<1>11. IsFiniteSet((s \ {c}) \ {x}) /\ (s \ {c}) \ {x} \subseteq S
  BY <1>3, FS_Difference
<1>12. Sum(f, (s \ {c}) \ {x}) \in Int
  <2>1. \A y \in (s \ {c}) \ {x} : f[y] \in Int
    BY <1>11
  <2> QED
    BY <1>11, <2>1, SumType
<1> QED
  BY <1>2, <1>5, <1>7, <1>8, <1>9, <1>10, <1>12

\* A summand that may be there
LEMMA SumAdd ==
  ASSUME NEW f, NEW S, IsFiniteSet(S), \A x \in S : f[x] \in Int,
         NEW a, a \notin S, f[a] \in Int, NEW T, T = {} \/ T = {a}
  PROVE  /\ IsFiniteSet(S \cup T) /\ \A x \in S \cup T : f[x] \in Int
         /\ Sum(f, S) \in Int
         /\ Sum(f, S \cup T) = Sum(f, S) + (IF T = {} THEN 0 ELSE f[a])
<1>1. IsFiniteSet(S \cup T)
  <2>1. IsFiniteSet({}) /\ IsFiniteSet({a})
    BY FS_EmptySet, FS_Singleton
  <2>2. IsFiniteSet(T)
    BY <2>1
  <2> QED
    BY <2>2, FS_Union
<1>2. \A x \in S \cup T : f[x] \in Int
  OBVIOUS
<1>3. Sum(f, S) \in Int
  BY SumType
<1>4. CASE T = {}
  <2>1. S \cup T = S
    BY <1>4
  <2> QED
    BY <1>1, <1>2, <1>3, <1>4, <2>1
<1>5. CASE T = {a}
  <2>1. a \in S \cup T /\ (S \cup T) \ {a} = S
    BY <1>5
  <2>2. Sum(f, S \cup T) = f[a] + Sum(f, S)
    BY <1>1, <1>2, <2>1, SumRemove
  <2> QED
    BY <1>1, <1>2, <1>3, <1>5, <2>2
<1> QED
  BY <1>4, <1>5

-----------------------------------------------------------------------------
(* The greatest and the least of some integers *)

LEMMA GreatestInteger ==
  ASSUME NEW S, IsFiniteSet(S), S # {}, S \in SUBSET Int
  PROVE  Max(S) \in S /\ \A y \in S : y <= Max(S)
<1> DEFINE bad == {s \in SUBSET S : s # {} /\ ~\E x \in s : \A y \in s : x >= y}
<1>1. bad = {}
  <2> SUFFICES ASSUME bad # {}
               PROVE  FALSE
    OBVIOUS
  <2>1. PICK s \in bad : \A t \in SUBSET s : t # s => t \notin bad
    <3>1. bad \in SUBSET SUBSET S
      OBVIOUS
    <3> HIDE DEF bad
    <3> QED
      BY <3>1, LeastSubset
  <2>2. PICK a \in s : TRUE
    OBVIOUS
  <2>3. CASE s \ {a} = {}
    <3>1. a \in Int /\ s = {a}
      BY <2>3
    <3> QED
      BY <2>1, <3>1
  <2>4. CASE s \ {a} # {}
    <3>1. PICK b \in s \ {a} : \A y \in s \ {a} : b >= y
      BY <2>1, <2>4
    <3>2. \A y \in s : y \in Int
      OBVIOUS
    <3>3. CASE a >= b
      <4>1. \A y \in s : a >= y
        BY <3>1, <3>2, <3>3
      <4> QED
        BY <4>1
    <3>4. CASE ~(a >= b)
      <4>1. \A y \in s : b >= y
        BY <3>1, <3>2, <3>4
      <4> QED
        BY <3>1, <4>1
    <3> QED
      BY <3>3, <3>4
  <2> QED
    BY <2>3, <2>4
<1>2. \E x \in S : \A y \in S : x >= y
  BY <1>1
<1>3. Max(S) \in S /\ \A y \in S : Max(S) >= y
  BY <1>2 DEF Max
<1>4. \A y \in S : y \in Int
  OBVIOUS
<1> QED
  BY <1>3, <1>4

LEMMA LeastInteger ==
  ASSUME NEW S, IsFiniteSet(S), S # {}, S \in SUBSET Int
  PROVE  Min(S) \in S /\ \A y \in S : Min(S) <= y
<1> DEFINE bad == {s \in SUBSET S : s # {} /\ ~\E x \in s : \A y \in s : x <= y}
<1>1. bad = {}
  <2> SUFFICES ASSUME bad # {}
               PROVE  FALSE
    OBVIOUS
  <2>1. PICK s \in bad : \A t \in SUBSET s : t # s => t \notin bad
    <3>1. bad \in SUBSET SUBSET S
      OBVIOUS
    <3> HIDE DEF bad
    <3> QED
      BY <3>1, LeastSubset
  <2>2. PICK a \in s : TRUE
    OBVIOUS
  <2>3. CASE s \ {a} = {}
    <3>1. a \in Int /\ s = {a}
      BY <2>3
    <3> QED
      BY <2>1, <3>1
  <2>4. CASE s \ {a} # {}
    <3>1. PICK b \in s \ {a} : \A y \in s \ {a} : b <= y
      BY <2>1, <2>4
    <3>2. \A y \in s : y \in Int
      OBVIOUS
    <3>3. CASE a <= b
      <4>1. \A y \in s : a <= y
        BY <3>1, <3>2, <3>3
      <4> QED
        BY <4>1
    <3>4. CASE ~(a <= b)
      <4>1. \A y \in s : b <= y
        BY <3>1, <3>2, <3>4
      <4> QED
        BY <3>1, <4>1
    <3> QED
      BY <3>3, <3>4
  <2> QED
    BY <2>3, <2>4
<1>2. \E x \in S : \A y \in S : x <= y
  BY <1>1
<1>3. Min(S) \in S /\ \A y \in S : Min(S) <= y
  BY <1>2 DEF Min
<1>4. \A y \in S : y \in Int
  OBVIOUS
<1> QED
  BY <1>3, <1>4

-----------------------------------------------------------------------------
(* Ranks *)

\* The pairs in R are a strict order of all of S.
Orders(R, S) ==
  /\ \A x \in S : <<x, x>> \notin R
  /\ \A x, y, z \in S : <<x, y>> \in R /\ <<y, z>> \in R => <<x, z>> \in R
  /\ \A x, y \in S : x = y \/ <<x, y>> \in R \/ <<y, x>> \in R

Below(R, S, x) == {y \in S \ {x} : <<y, x>> \in R}

Rank(R, S, x) == 1 + Cardinality(Below(R, S, x))

LEMMA RankType ==
  ASSUME NEW R, NEW S, IsFiniteSet(S), NEW x \in S
  PROVE  /\ IsFiniteSet(Below(R, S, x))
         /\ Cardinality(Below(R, S, x)) \in Nat
         /\ Rank(R, S, x) \in 1 .. Cardinality(S)
<1> DEFINE below == Below(R, S, x)
<1>1. below \in SUBSET S /\ below # S
  BY DEF Below
<1>2. Cardinality(S) \in Nat
  BY FS_CardinalityType
<1> HIDE DEF below
<1>3. IsFiniteSet(below) /\ Cardinality(below) <= Cardinality(S)
        /\ Cardinality(below) # Cardinality(S)
  BY <1>1, FS_Subset
<1>4. Cardinality(below) \in Nat
  BY <1>3, FS_CardinalityType
<1> QED
  BY <1>2, <1>3, <1>4 DEF below, Rank

\* What comes earlier has a smaller rank.
LEMMA RankOrder ==
  ASSUME NEW R, NEW S, IsFiniteSet(S), Orders(R, S),
         NEW x \in S, NEW y \in S, <<x, y>> \in R
  PROVE  Rank(R, S, x) < Rank(R, S, y)
<1>1. Below(R, S, x) \in SUBSET Below(R, S, y)
  BY DEF Below, Orders
<1>2. x \in Below(R, S, y) /\ x \notin Below(R, S, x)
  BY DEF Below, Orders
<1>3. /\ IsFiniteSet(Below(R, S, y))
      /\ Cardinality(Below(R, S, x)) \in Nat /\ Cardinality(Below(R, S, y)) \in Nat
  BY RankType
<1>4. /\ Cardinality(Below(R, S, x)) <= Cardinality(Below(R, S, y))
      /\ Cardinality(Below(R, S, x)) # Cardinality(Below(R, S, y))
  BY <1>1, <1>2, <1>3, FS_Subset
<1> QED
  BY <1>3, <1>4 DEF Rank

\* Every rank is taken by one element.
LEMMA RanksTaken ==
  ASSUME NEW R, NEW S, IsFiniteSet(S), Orders(R, S)
  PROVE  /\ {Rank(R, S, x) : x \in S} = 1 .. Cardinality(S)
         /\ \A x, y \in S : Rank(R, S, x) = Rank(R, S, y) => x = y
<1> DEFINE ranks == 1 .. Cardinality(S)
           rank == [x \in S |-> Rank(R, S, x)]
<1>1. rank \in [S -> ranks]
  BY RankType
<1>2. \A x, y \in S : Rank(R, S, x) = Rank(R, S, y) => x = y
  <2> SUFFICES ASSUME NEW x \in S, NEW y \in S, Rank(R, S, x) = Rank(R, S, y), x # y
               PROVE  FALSE
    OBVIOUS
  <2>1. Rank(R, S, x) < Rank(R, S, y) \/ Rank(R, S, y) < Rank(R, S, x)
    BY RankOrder DEF Orders
  <2>2. Rank(R, S, x) \in Int
    BY RankType
  <2> QED
    BY <2>1, <2>2
<1>3. rank \in Injection(S, ranks)
  BY <1>1, <1>2 DEF Injection, IsInjective
<1>4. Cardinality(S) \in Nat
  BY FS_CardinalityType
<1>5. IsFiniteSet(ranks) /\ Cardinality(ranks) = Cardinality(S)
  BY <1>4, FS_Interval
<1>6. rank \in Surjection(S, ranks)
  <2> HIDE DEF rank, ranks
  <2> QED
    BY <1>3, <1>5, FS_Injection
<1>7. \A n \in ranks : \E x \in S : rank[x] = n
  BY <1>6 DEF Surjection
<1>8. {Rank(R, S, x) : x \in S} = ranks
  BY <1>1, <1>7
<1> QED
  BY <1>2, <1>8

\* The first of all is earlier than every other one.
LEMMA FirstIsLeast ==
  ASSUME NEW R, NEW S, IsFiniteSet(S), Orders(R, S), NEW x \in S, Rank(R, S, x) = 1
  PROVE  \A y \in S : y = x \/ <<x, y>> \in R
<1> SUFFICES ASSUME NEW y \in S, y # x, <<x, y>> \notin R
             PROVE  FALSE
  OBVIOUS
<1>1. <<y, x>> \in R
  BY DEF Orders
<1>2. Rank(R, S, y) < 1 /\ Rank(R, S, y) \in 1 .. Cardinality(S)
  BY <1>1, RankOrder, RankType
<1> QED
  BY <1>2

\* The pairs in P compare the elements of S by a key.
Compares(P, S) ==
  /\ \A x, y \in S : <<x, y>> \in P => <<y, x>> \notin P
  /\ \A x, y, z \in S : <<x, z>> \in P => <<x, y>> \in P \/ <<y, z>> \in P

\* Integers are ordered by two keys and, where these are equal, by themselves.
LEMMA OrderedByKeys ==
  ASSUME NEW S \in SUBSET Int, NEW P, NEW Q, Compares(P, S), Compares(Q, S), NEW R,
         \A x, y \in S :
           <<x, y>> \in R <=>
             \/ <<x, y>> \in P
             \/ /\ <<y, x>> \notin P
                /\ \/ <<x, y>> \in Q
                   \/ <<y, x>> \notin Q /\ x < y
  PROVE  Orders(R, S)
<1>1. \A x \in S : <<x, x>> \notin R
  BY DEF Compares
<1>2. \A x, y \in S : x = y \/ <<x, y>> \in R \/ <<y, x>> \in R
  <2> SUFFICES ASSUME NEW x \in S, NEW y \in S, x # y
               PROVE  <<x, y>> \in R \/ <<y, x>> \in R
    OBVIOUS
  <2>1. x < y \/ y < x
    OBVIOUS
  <2> QED
    BY <2>1
<1>3. ASSUME NEW x \in S, NEW y \in S, NEW z \in S, <<x, y>> \in R, <<y, z>> \in R
      PROVE  <<x, z>> \in R
  <2>1. <<y, x>> \notin P /\ <<z, y>> \notin P
    BY <1>3 DEF Compares
  <2>2. <<z, x>> \notin P
    BY <2>1 DEF Compares
  <2>3. CASE <<x, z>> \in P
    BY <2>3
  <2>4. CASE <<x, z>> \notin P
    <3>1. <<x, y>> \notin P /\ <<y, z>> \notin P
      BY <2>1, <2>4 DEF Compares
    <3>2. <<y, x>> \notin Q /\ <<z, y>> \notin Q
      BY <1>3, <3>1 DEF Compares
    <3>3. <<z, x>> \notin Q
      BY <3>2 DEF Compares
    <3>4. CASE <<x, z>> \in Q
      BY <2>2, <3>4
    <3>5. CASE <<x, z>> \notin Q
      <4>1. <<x, y>> \notin Q /\ <<y, z>> \notin Q
        BY <3>2, <3>5 DEF Compares
      <4>2. x < y /\ y < z
        BY <1>3, <3>1, <4>1
      <4>3. x < z
        BY <4>2
      <4> QED
        BY <2>2, <3>3, <4>3
    <3> QED
      BY <3>4, <3>5
  <2> QED
    BY <2>3, <2>4
<1> QED
  BY <1>1, <1>2, <1>3 DEF Orders
=============================================================================
