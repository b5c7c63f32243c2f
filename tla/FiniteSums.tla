------------------------------ MODULE FiniteSums ------------------------------
(***************************************************************************)
(* Facts about the sum of a function over a finite set.  The library's     *)
(* SumFunctionOnSet takes the elements in the order in which CHOOSE gives  *)
(* them; here it is shown that any element can be taken out first.         *)
(***************************************************************************)
EXTENDS Functions, FiniteSets, FiniteSetTheorems, WellFoundedInduction, TLAPS

Pick(s) == CHOOSE x \in s : TRUE

\* The equation of the sum, as a property of a function over all subsets of S.
SumsUp(g, f, S) ==
    g = [s \in SUBSET S |-> IF s = {} THEN 0 ELSE f[Pick(s)] + g[s \ {Pick(s)}]]

\* Every non-empty set of naturals has a least element.
LEMMA LeastNatural ==
  ASSUME NEW T \in SUBSET Nat, T # {}
  PROVE  \E n \in T : \A m \in T : n <= m
<1>1. \E n \in T : \A m \in T : ~(<<m, n>> \in OpToRel(<, Nat))
  BY NatLessThanWellFounded, WFMin, Zenon
<1>2. \A m, n \in Nat : m < n => <<m, n>> \in OpToRel(<, Nat)
  BY DEF OpToRel
<1>3. PICK n \in T : \A m \in T : ~(<<m, n>> \in OpToRel(<, Nat))
  BY <1>1
<1>4. \A m \in T : ~(m < n)
  BY <1>2, <1>3
<1> QED
  BY <1>4

\* Over a finite set the equation that defines the fold has a solution.
LEMMA SumsExist ==
  ASSUME NEW f, NEW S, IsFiniteSet(S)
  PROVE  \E g : SumsUp(g, f, S)
<1> DEFINE Upto(n) == {s \in SUBSET S : Cardinality(s) <= n}
           Eq(g, n) == \A s \in Upto(n) : g[s] = IF s = {} THEN 0 ELSE f[Pick(s)] + g[s \ {Pick(s)}]
           Bad == {n \in Nat : ~ \E g : Eq(g, n)}
<1> HIDE DEF Bad
<1>0. \A s \in SUBSET S : IsFiniteSet(s) /\ Cardinality(s) \in Nat
  BY FS_Subset, FS_CardinalityType
<1>1. \A s \in SUBSET S : s # {} => Pick(s) \in s /\ s \ {Pick(s)} \in SUBSET S
                                  /\ Cardinality(s \ {Pick(s)}) = Cardinality(s) - 1
  <2> TAKE s \in SUBSET S
  <2> HAVE s # {}
  <2>1. Pick(s) \in s
    BY DEF Pick
  <2> QED BY <2>1, <1>0, FS_RemoveElement
<1>2. Bad = {}
  <2> SUFFICES ASSUME Bad # {} PROVE FALSE
    OBVIOUS
  <2>1. PICK n \in Bad : \A m \in Bad : n <= m
    BY LeastNatural DEF Bad
  <2>2. n \in Nat /\ ~ \E g : Eq(g, n)
    BY <2>1 DEF Bad
  <2>3. CASE n = 0
    <3> DEFINE g == [s \in SUBSET S |-> 0]
    <3>1. \A s \in Upto(0) : s = {}
      BY <1>0, FS_EmptySet
    <3>2. Eq(g, 0)
      BY <3>1
    <3> QED BY <3>2, <2>2, <2>3
  <2>4. CASE n # 0
    <3>1. n - 1 \in Nat /\ n - 1 \notin Bad
      BY <2>1, <2>2, <2>4
    <3>2. PICK g : Eq(g, n - 1)
      BY <3>1 DEF Bad
    <3> DEFINE h == [s \in SUBSET S |-> IF Cardinality(s) = n THEN f[Pick(s)] + g[s \ {Pick(s)}] ELSE g[s]]
    <3>3. \A s \in SUBSET S : Cardinality(s) <= n - 1 => h[s] = g[s]
      BY <1>0, <2>2
    <3>4. ASSUME NEW s \in Upto(n)
          PROVE h[s] = IF s = {} THEN 0 ELSE f[Pick(s)] + h[s \ {Pick(s)}]
      <4> HIDE DEF h
      <4>1. CASE s = {}
        <5>1. Cardinality(s) = 0
          BY <4>1, FS_EmptySet
        <5>2. s \in Upto(n - 1) /\ h[s] = g[s]
          BY <5>1, <3>1, <3>3
        <5> QED BY <5>2, <3>2, <4>1
      <4>2. CASE s # {}
        <5>1. h[s \ {Pick(s)}] = g[s \ {Pick(s)}]
          BY <1>0, <1>1, <3>3, <4>2, <2>2
        <5>2. CASE Cardinality(s) = n
          BY <5>1, <5>2, <4>2 DEF h
        <5>3. CASE Cardinality(s) # n
          <6>1. s \in Upto(n - 1) /\ h[s] = g[s]
            BY <5>3, <3>3, <1>0, <2>2
          <6> QED BY <6>1, <3>2, <4>2, <5>1
        <5> QED BY <5>2, <5>3
      <4> QED BY <4>1, <4>2
    <3>5. Eq(h, n)
      BY <3>4
    <3> QED BY <3>5, <2>2
  <2> QED BY <2>3, <2>4
<1>3. Cardinality(S) \in Nat
  BY FS_CardinalityType
<1>4. PICK g : Eq(g, Cardinality(S))
  BY <1>2, <1>3 DEF Bad
<1>5. \A s \in SUBSET S : s \in Upto(Cardinality(S))
  BY FS_Subset
<1> DEFINE h == [s \in SUBSET S |-> g[s]]
<1>6. SumsUp(h, f, S)
  <2>1. \A s \in SUBSET S : h[s] = IF s = {} THEN 0 ELSE f[Pick(s)] + h[s \ {Pick(s)}]
    BY <1>4, <1>5, <1>1
  <2> QED BY <2>1 DEF SumsUp
<1> QED BY <1>6

\* The fold of the library obeys its recursive equation.
LEMMA SumEquation ==
  ASSUME NEW f, NEW S, IsFiniteSet(S)
  PROVE  \E g : SumsUp(g, f, S) /\ SumFunctionOnSet(f, S) = g[S]
<1> DEFINE g == CHOOSE g : g = [s \in SUBSET S |-> IF s = {} THEN 0 ELSE f[Pick(s)] + g[s \ {Pick(s)}]]
<1>0. PICK h : SumsUp(h, f, S)
  BY SumsExist
<1>1. SumsUp(g, f, S)
  BY <1>0, Zenon DEF SumsUp
<1>2. SumFunctionOnSet(f, S) = g[S]
  BY Zenon DEF SumFunctionOnSet, FoldFunctionOnSet, MapThenFoldSet, Pick
<1> QED BY <1>1, <1>2

-----------------------------------------------------------------------------
(* Induction: a family of subsets of a finite set has a smallest member.   *)

\* Among some subsets of a finite set, one is minimal: no element can be taken away.
LEMMA SmallestSubset ==
  ASSUME NEW S, IsFiniteSet(S), NEW B \in SUBSET SUBSET S, B # {}
  PROVE  \E s \in B : /\ IsFiniteSet(s)
                     /\ \A x \in s : s \ {x} \notin B
<1>0. \A s \in B : IsFiniteSet(s) /\ Cardinality(s) \in Nat
  BY FS_Subset, FS_CardinalityType
<1> DEFINE C == {Cardinality(s) : s \in B}
<1>1. PICK n \in C : \A m \in C : n <= m
  <2>1. C \in SUBSET Nat /\ C # {}
    BY <1>0
  <2> QED BY <2>1, LeastNatural
<1>2. PICK s \in B : n = Cardinality(s)
  OBVIOUS
<1>3. ASSUME NEW x \in s PROVE s \ {x} \notin B
  <2>1. Cardinality(s \ {x}) = Cardinality(s) - 1
    BY <1>0, FS_RemoveElement
  <2> QED BY <2>1, <1>0, <1>1, <1>2
<1> QED BY <1>0, <1>3

\* Two functions that obey the equation of the sum agree on every subset.
LEMMA SumsUnique ==
  ASSUME NEW f, NEW e, NEW S, NEW T, IsFiniteSet(S), NEW g, NEW h,
         SumsUp(g, f, S), SumsUp(h, e, T),
         NEW s \in SUBSET S, s \in SUBSET T, \A x \in s : f[x] = e[x]
  PROVE  g[s] = h[s]
<1> DEFINE B == {t \in SUBSET s : g[t] # h[t]}
<1> SUFFICES ASSUME B # {} PROVE FALSE
  OBVIOUS
<1>1. IsFiniteSet(s)
  BY FS_Subset
<1>2. PICK t \in B : \A x \in t : t \ {x} \notin B
  BY <1>1, SmallestSubset
<1>3. t # {}
  BY DEF SumsUp
<1>4. Pick(t) \in t
  BY <1>3 DEF Pick
<1>5. g[t \ {Pick(t)}] = h[t \ {Pick(t)}]
  BY <1>2, <1>4
<1>6. g[t] = f[Pick(t)] + g[t \ {Pick(t)}] /\ h[t] = e[Pick(t)] + h[t \ {Pick(t)}]
  BY <1>3 DEF SumsUp
<1> QED BY <1>4, <1>5, <1>6

\* A set closed under addition that has 0 and every summand has the sum.
LEMMA SumsIn ==
  ASSUME NEW f, NEW S, IsFiniteSet(S), NEW g, SumsUp(g, f, S),
         NEW D, 0 \in D, \A i, j \in D : i + j \in D,
         \A x \in S : f[x] \in D, NEW s \in SUBSET S
  PROVE  g[s] \in D
<1> DEFINE B == {t \in SUBSET S : g[t] \notin D}
<1> SUFFICES ASSUME B # {} PROVE FALSE
  OBVIOUS
<1>1. PICK t \in B : \A x \in t : t \ {x} \notin B
  BY SmallestSubset
<1>2. t # {}
  BY DEF SumsUp
<1>3. Pick(t) \in t
  BY <1>2 DEF Pick
<1>4. g[t] = f[Pick(t)] + g[t \ {Pick(t)}]
  BY <1>2 DEF SumsUp
<1>5. f[Pick(t)] \in D /\ g[t \ {Pick(t)}] \in D
  BY <1>1, <1>3
<1>6. g[t] \in D
  BY <1>4, <1>5, Zenon
<1> QED BY <1>6

\* The sum does not depend on the element that is taken first.
LEMMA SumsAnyOrder ==
  ASSUME NEW f, NEW S, IsFiniteSet(S), NEW g, SumsUp(g, f, S),
         \A x \in S : f[x] \in Int, NEW s \in SUBSET S, NEW x \in s
  PROVE  g[s] = f[x] + g[s \ {x}]
<1> DEFINE Any(t) == \A y \in t : g[t] = f[y] + g[t \ {y}]
           B == {t \in SUBSET S : ~Any(t)}
<1> SUFFICES ASSUME B # {} PROVE FALSE
  OBVIOUS
<1>1. \A t \in SUBSET S : g[t] \in Int
  BY SumsIn
<1>2. PICK t \in B : \A y \in t : t \ {y} \notin B
  BY SmallestSubset
<1>3. t # {}
  OBVIOUS
<1> DEFINE p == Pick(t)
<1>4. p \in t
  BY <1>3 DEF Pick
<1>5. g[t] = f[p] + g[t \ {p}]
  BY <1>3 DEF SumsUp
<1> HIDE DEF p
<1>6. \A y \in t : Any(t \ {y})
  BY <1>2
<1>8. ASSUME NEW y \in t PROVE g[t] = f[y] + g[t \ {y}]
  <2>1. CASE y = p
    BY <2>1, <1>5
  <2>2. CASE y # p
    <3> DEFINE r == (t \ {p}) \ {y}
    <3>1. r = (t \ {y}) \ {p}
      OBVIOUS
    <3>2. g[t \ {p}] = f[y] + g[r]
      <4>1. y \in t \ {p}
        BY <2>2
      <4> QED BY <4>1, <1>4, <1>6
    <3>3. g[t \ {y}] = f[p] + g[r]
      <4>1. p \in t \ {y}
        BY <2>2, <1>4
      <4> QED BY <4>1, <1>6, <3>1
    <3>4. g[r] \in Int /\ f[p] \in Int /\ f[y] \in Int
      BY <1>1, <1>4
    <3> HIDE DEF r
    <3> QED BY <3>2, <3>3, <3>4, <1>5
  <2> QED BY <2>1, <2>2
<1> QED BY <1>2, <1>8
-----------------------------------------------------------------------------
(* What other modules use.                                                 *)

\* Nothing adds up to zero.
LEMMA SumEmpty ==
  ASSUME NEW f
  PROVE  SumFunctionOnSet(f, {}) = 0
<1>1. PICK g : SumsUp(g, f, {}) /\ SumFunctionOnSet(f, {}) = g[{}]
  BY SumEquation, FS_EmptySet
<1> QED BY <1>1 DEF SumsUp

\* A sum of zeros is zero.
LEMMA SumZero ==
  ASSUME NEW S, IsFiniteSet(S), NEW f, \A x \in S : f[x] = 0
  PROVE  SumFunctionOnSet(f, S) = 0
<1>1. PICK g : SumsUp(g, f, S) /\ SumFunctionOnSet(f, S) = g[S]
  BY SumEquation
<1>2. 0 \in {0} /\ \A i, j \in {0} : i + j \in {0}
  OBVIOUS
<1>3. \A x \in S : f[x] \in {0}
  OBVIOUS
<1>4. g[S] \in {0}
  BY <1>1, <1>2, <1>3, SumsIn
<1> QED BY <1>1, <1>4

\* A sum of naturals is a natural, and one of integers an integer.
LEMMA SumNat ==
  ASSUME NEW S, IsFiniteSet(S), NEW f, \A x \in S : f[x] \in Nat
  PROVE  SumFunctionOnSet(f, S) \in Nat
<1>1. PICK g : SumsUp(g, f, S) /\ SumFunctionOnSet(f, S) = g[S]
  BY SumEquation
<1>2. 0 \in Nat /\ \A i, j \in Nat : i + j \in Nat
  OBVIOUS
<1>3. g[S] \in Nat
  BY <1>1, <1>2, SumsIn
<1> QED BY <1>1, <1>3

\* A sum of integers is an integer.
LEMMA SumInt ==
  ASSUME NEW S, IsFiniteSet(S), NEW f, \A x \in S : f[x] \in Int
  PROVE  SumFunctionOnSet(f, S) \in Int
<1>1. PICK g : SumsUp(g, f, S) /\ SumFunctionOnSet(f, S) = g[S]
  BY SumEquation
<1>2. 0 \in Int /\ \A i, j \in Int : i + j \in Int
  OBVIOUS
<1>3. g[S] \in Int
  BY <1>1, <1>2, SumsIn
<1> QED BY <1>1, <1>3

\* The sum depends on the values in the set only.
LEMMA SumSame ==
  ASSUME NEW S, IsFiniteSet(S), NEW f, NEW e, \A x \in S : f[x] = e[x]
  PROVE  SumFunctionOnSet(f, S) = SumFunctionOnSet(e, S)
<1>1. PICK g : SumsUp(g, f, S) /\ SumFunctionOnSet(f, S) = g[S]
  BY SumEquation
<1>2. PICK h : SumsUp(h, e, S) /\ SumFunctionOnSet(e, S) = h[S]
  BY SumEquation
<1> QED BY <1>1, <1>2, SumsUnique

\* Any element may be taken out of the sum.
LEMMA SumRemove ==
  ASSUME NEW S, IsFiniteSet(S), NEW f, \A x \in S : f[x] \in Int, NEW x \in S
  PROVE  SumFunctionOnSet(f, S) = f[x] + SumFunctionOnSet(f, S \ {x})
<1>0. IsFiniteSet(S \ {x})
  BY FS_Subset
<1>1. PICK g : SumsUp(g, f, S) /\ SumFunctionOnSet(f, S) = g[S]
  BY SumEquation
<1>2. PICK h : SumsUp(h, f, S \ {x}) /\ SumFunctionOnSet(f, S \ {x}) = h[S \ {x}]
  BY <1>0, SumEquation
<1>3. g[S \ {x}] = h[S \ {x}]
  BY <1>0, <1>1, <1>2, SumsUnique
<1>4. g[S] = f[x] + g[S \ {x}]
  BY <1>1, SumsAnyOrder
<1> QED BY <1>1, <1>2, <1>3, <1>4

\* No summand of naturals is more than the sum.
LEMMA SumBounds ==
  ASSUME NEW S, IsFiniteSet(S), NEW f, \A x \in S : f[x] \in Nat, NEW x \in S
  PROVE  f[x] <= SumFunctionOnSet(f, S)
<1>1. SumFunctionOnSet(f, S) = f[x] + SumFunctionOnSet(f, S \ {x})
  BY SumRemove
<1>2. IsFiniteSet(S \ {x})
  BY FS_Subset
<1>3. SumFunctionOnSet(f, S \ {x}) \in Nat
  BY <1>2, SumNat
<1> QED BY <1>1, <1>3

\* When one value changes the sum changes by the difference.
LEMMA SumChange ==
  ASSUME NEW S, IsFiniteSet(S), NEW x \in S,
         NEW f, \A y \in S : f[y] \in Int,
         NEW e, \A y \in S : e[y] \in Int,
         \A y \in S \ {x} : e[y] = f[y]
  PROVE  SumFunctionOnSet(e, S) = SumFunctionOnSet(f, S) + e[x] - f[x]
<1>0. IsFiniteSet(S \ {x})
  BY FS_Subset
<1>1. SumFunctionOnSet(e, S) = e[x] + SumFunctionOnSet(e, S \ {x})
  BY SumRemove
<1>2. SumFunctionOnSet(f, S) = f[x] + SumFunctionOnSet(f, S \ {x})
  BY SumRemove
<1>3. SumFunctionOnSet(e, S \ {x}) = SumFunctionOnSet(f, S \ {x})
  BY <1>0, SumSame
<1>4. SumFunctionOnSet(f, S \ {x}) \in Int
  BY <1>0, SumInt
<1> QED BY <1>1, <1>2, <1>3, <1>4

\* The sum over a set with a new element.
LEMMA SumAdd ==
  ASSUME NEW S, IsFiniteSet(S), NEW x, x \notin S,
         NEW f, \A y \in S \cup {x} : f[y] \in Int
  PROVE  SumFunctionOnSet(f, S \cup {x}) = f[x] + SumFunctionOnSet(f, S)
<1>1. IsFiniteSet(S \cup {x}) /\ (S \cup {x}) \ {x} = S
  BY FS_AddElement
<1>2. SumFunctionOnSet(f, S \cup {x}) = f[x] + SumFunctionOnSet(f, (S \cup {x}) \ {x})
  BY <1>1, SumRemove
<1> QED BY <1>1, <1>2

\* The sum over a set is the sum over a part of it and over the rest.
LEMMA SumSplit ==
  ASSUME NEW S, IsFiniteSet(S), NEW T \in SUBSET S,
         NEW f, \A y \in S : f[y] \in Int
  PROVE  SumFunctionOnSet(f, S) = SumFunctionOnSet(f, T) + SumFunctionOnSet(f, S \ T)
<1> DEFINE Total(t) == SumFunctionOnSet(f, t)
           B == {t \in SUBSET S : Total(S) # Total(t) + Total(S \ t)}
<1>0. \A t \in SUBSET S : /\ IsFiniteSet(t) /\ Total(t) \in Int
                         /\ \A x \in t : Total(t) = f[x] + Total(t \ {x})
  <2> TAKE t \in SUBSET S
  <2>1. IsFiniteSet(t)
    BY FS_Subset
  <2>2. Total(t) \in Int
    BY <2>1, SumInt
  <2>3. \A x \in t : Total(t) = f[x] + Total(t \ {x})
    BY <2>1, SumRemove
  <2> QED BY <2>1, <2>2, <2>3
<1> SUFFICES ASSUME B # {} PROVE FALSE
  OBVIOUS
<1>1. PICK t \in B : \A x \in t : t \ {x} \notin B
  BY SmallestSubset
<1>2. t # {}
  <2>1. Total({}) = 0 /\ S \ {} = S
    BY SumEmpty
  <2>2. Total(S) \in Int
    BY <1>0
  <2> HIDE DEF Total
  <2>3. Total(S) = Total({}) + Total(S \ {})
    BY <2>1, <2>2
  <2>4. {} \notin B
    BY <2>3
  <2> QED BY <2>4, <1>1
<1>3. PICK x \in t : TRUE
  BY <1>2
<1> DEFINE r == S \ (t \ {x})
<1>4. r \in SUBSET S /\ x \in r /\ r \ {x} = S \ t /\ t \ {x} \in SUBSET S /\ S \ t \in SUBSET S
  BY <1>3
<1> HIDE DEF Total
<1>5. Total(r) = f[x] + Total(S \ t)
  BY <1>0, <1>4
<1>6. Total(t) = f[x] + Total(t \ {x})
  BY <1>0, <1>3
<1>7. Total(S) = Total(t \ {x}) + Total(r)
  BY <1>1, <1>3, <1>4
<1>8. Total(t \ {x}) \in Int /\ Total(S \ t) \in Int /\ f[x] \in Int
  BY <1>0, <1>3, <1>4
<1> HIDE DEF r
<1> QED BY <1>5, <1>6, <1>7, <1>8

\* The sum of a combination of two functions is the combination of their sums.
LEMMA SumLinear ==
  ASSUME NEW S, IsFiniteSet(S), NEW c \in Int,
         NEW f, \A x \in S : f[x] \in Int,
         NEW g, \A x \in S : g[x] \in Int,
         NEW h, \A x \in S : h[x] = f[x] + c * g[x]
  PROVE  SumFunctionOnSet(h, S) = SumFunctionOnSet(f, S) + c * SumFunctionOnSet(g, S)
<1> DEFINE F(t) == SumFunctionOnSet(f, t)
           G(t) == SumFunctionOnSet(g, t)
           H(t) == SumFunctionOnSet(h, t)
           B == {t \in SUBSET S : H(t) # F(t) + c * G(t)}
<1>i. \A x \in S : h[x] \in Int
  <2>1. \A a, b \in Int : a + c * b \in Int
    OBVIOUS
  <2> QED BY <2>1
<1>0. \A t \in SUBSET S : /\ IsFiniteSet(t) /\ F(t) \in Int /\ G(t) \in Int
                         /\ \A x \in t : /\ F(t) = f[x] + F(t \ {x})
                                         /\ G(t) = g[x] + G(t \ {x})
                                         /\ H(t) = h[x] + H(t \ {x})
  <2> TAKE t \in SUBSET S
  <2>1. IsFiniteSet(t)
    BY FS_Subset
  <2>2. F(t) \in Int /\ G(t) \in Int
    BY <2>1, SumInt
  <2>3. \A x \in t : /\ F(t) = f[x] + F(t \ {x})
                     /\ G(t) = g[x] + G(t \ {x})
                     /\ H(t) = h[x] + H(t \ {x})
    BY <1>i, <2>1, SumRemove
  <2> QED BY <2>1, <2>2, <2>3
<1> SUFFICES ASSUME B # {} PROVE FALSE
  OBVIOUS
<1>1. PICK t \in B : \A x \in t : t \ {x} \notin B
  BY SmallestSubset
<1>e. F({}) = 0 /\ G({}) = 0 /\ H({}) = 0
  BY SumEmpty
<1> HIDE DEF F, G, H
<1>2. t # {}
  <2>1. 0 = 0 + c * 0
    OBVIOUS
  <2>2. {} \notin B
    BY <1>e, <2>1
  <2> QED BY <2>2, <1>1
<1>3. PICK x \in t : TRUE
  BY <1>2
<1>4. t \ {x} \in SUBSET S /\ t \in SUBSET S /\ x \in S
  BY <1>3
<1>5. H(t \ {x}) = F(t \ {x}) + c * G(t \ {x})
  BY <1>1, <1>3, <1>4
<1>6. F(t \ {x}) \in Int /\ G(t \ {x}) \in Int /\ f[x] \in Int /\ g[x] \in Int
  BY <1>0, <1>4
<1>7. \A a, b, p, q \in Int : (a + c * b) + (p + c * q) = (a + p) + c * (b + q)
  OBVIOUS
<1>8. F(t) = f[x] + F(t \ {x}) /\ G(t) = g[x] + G(t \ {x}) /\ H(t) = h[x] + H(t \ {x}) /\ h[x] = f[x] + c * g[x]
  BY <1>0, <1>3, <1>4
<1>9. H(t) = F(t) + c * G(t)
  BY <1>5, <1>6, <1>7, <1>8
<1> QED BY <1>1, <1>9

\* A sum grows with its terms.
LEMMA SumGreater ==
  ASSUME NEW S, IsFiniteSet(S),
         NEW f, \A x \in S : f[x] \in Int,
         NEW h, \A x \in S : h[x] \in Int /\ f[x] <= h[x]
  PROVE  SumFunctionOnSet(f, S) <= SumFunctionOnSet(h, S)
<1>1. PICK g : g = [x \in S |-> h[x] - f[x]]
  OBVIOUS
<1>2. \A x \in S : g[x] \in Nat /\ g[x] \in Int
  BY <1>1
<1>3. \A x \in S : h[x] = f[x] + 1 * g[x]
  BY <1>1, <1>2
<1>4. 1 \in Int
  OBVIOUS
<1>5. SumFunctionOnSet(h, S) = SumFunctionOnSet(f, S) + 1 * SumFunctionOnSet(g, S)
  BY <1>2, <1>3, <1>4, SumLinear
<1>6. SumFunctionOnSet(g, S) \in Nat /\ SumFunctionOnSet(f, S) \in Int
  BY <1>2, SumNat, SumInt
<1> QED
  BY <1>5, <1>6

\* A sum over the positions of a list without repetitions is the sum over its members.
LEMMA SumReindex ==
  ASSUME NEW I, IsFiniteSet(I), NEW h, NEW f,
         \A i \in I : f[h[i]] \in Int,
         \A i, j \in I : h[i] = h[j] => i = j
  PROVE  SumFunctionOnSet([i \in I |-> f[h[i]]], I) = SumFunctionOnSet(f, {h[i] : i \in I})
<1> DEFINE g == [i \in I |-> f[h[i]]]
           Image(J) == {h[i] : i \in J}
           Total(J) == SumFunctionOnSet(g, J)
           Over(T) == SumFunctionOnSet(f, T)
           B == {J \in SUBSET I : Total(J) # Over(Image(J))}
<1> SUFFICES ASSUME B # {} PROVE FALSE
  <2>1. I \notin B
    BY Zenon
  <2> QED BY <2>1, Zenon
<1>1. PICK J \in B : IsFiniteSet(J) /\ \A x \in J : J \ {x} \notin B
  BY SmallestSubset
<1>2. J # {}
  BY SumEmpty
<1>3. PICK x \in J : TRUE
  BY <1>2
<1>4. Total(J) = g[x] + Total(J \ {x})
  BY <1>1, <1>3, SumRemove
<1>5. /\ IsFiniteSet(Image(J)) /\ h[x] \in Image(J)
      /\ \A y \in Image(J) : f[y] \in Int
      /\ Image(J) \ {h[x]} = Image(J \ {x})
  <2>1. IsFiniteSet(Image(J))
    <3>1. [i \in J |-> h[i]] \in Surjection(J, Image(J))
      BY DEF Surjection
    <3> QED BY <3>1, <1>1, FS_Surjection, Zenon
  <2> QED BY <2>1, <1>3
<1>6. Over(Image(J)) = f[h[x]] + Over(Image(J) \ {h[x]})
  BY <1>5, SumRemove
<1>7. Total(J \ {x}) = Over(Image(J \ {x}))
  BY <1>1, <1>3
<1>8. g[x] = f[h[x]]
  BY <1>3
<1> HIDE DEF Total, Over, Image, g
<1> QED BY <1>4, <1>5, <1>6, <1>7, <1>8
=============================================================================
