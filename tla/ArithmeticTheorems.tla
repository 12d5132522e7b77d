-------------------------- MODULE ArithmeticTheorems --------------------------
(***************************************************************************)
(* Facts about numbers the proofs share: the extrema of a set, which the   *)
(* models CHOOSE as the latest quote, batch or record; the sums over a     *)
(* finite set that value a portfolio; and quotients.                       *)
(*                                                                         *)
(* The library folds with a recursive function, so the equation it is      *)
(* meant to satisfy has to be proved first.  The induction is on a         *)
(* minimal counterexample among the subsets of the set.                    *)
(***************************************************************************)
EXTENDS FiniteSetTheorems, FiniteSetsExt, TLAPS

-----------------------------------------------------------------------------
(* Extrema *)

(* The lesser of two numbers.                                              *)
LEMMA MinOfTwo ==
  ASSUME NEW a \in Nat, NEW b \in Nat
  PROVE  Min({a, b}) \in {a, b} /\ Min({a, b}) <= a /\ Min({a, b}) <= b
<1> DEFINE m == CHOOSE x \in {a, b} : \A y \in {a, b} : x <= y
<1>1. \E x \in {a, b} : \A y \in {a, b} : x <= y
  OBVIOUS
<1>2. m \in {a, b} /\ \A y \in {a, b} : m <= y
  BY <1>1
<1>3. m = Min({a, b})
  BY DEF Min
<1> QED
  BY <1>2, <1>3

(* The order of the natural numbers is well-founded.                       *)
LEMMA LeastExists ==
  ASSUME NEW S \in SUBSET Nat, S # {}
  PROVE  \E x \in S : \A y \in S : x <= y
<1>1. \E x \in S : \A y \in S : ~ (<<y, x>> \in OpToRel(<, Nat))
  BY NatLessThanWellFounded, WFMin
<1>2. PICK x \in S : \A y \in S : ~ (<<y, x>> \in OpToRel(<, Nat))
  BY <1>1
<1>3. \A y \in S : ~(y < x)
  BY <1>2 DEF OpToRel
<1> QED
  BY <1>3

(* The greatest is the one whose distance from the bound is least.         *)
LEMMA GreatestExists ==
  ASSUME NEW B \in Nat, NEW S \in SUBSET (0..B), S # {}
  PROVE  \E x \in S : \A y \in S : y <= x
<1> DEFINE T == {B - x : x \in S}
<1>1. T \in SUBSET Nat /\ T # {}
  <2>1. \A x \in S : x \in Nat /\ x <= B /\ B - x \in Nat
    OBVIOUS
  <2>2. T # {}
    OBVIOUS
  <2> QED
    BY <2>1, <2>2
<1>2. PICK t \in T : \A u \in T : t <= u
  BY <1>1, LeastExists
<1>3. PICK x \in S : t = B - x
  BY <1>2
<1>4. \A y \in S : t <= B - y
  BY <1>2
<1> QED
  BY <1>3, <1>4

-----------------------------------------------------------------------------
(* Sums *)

(* The induction on a finite set: a family of its subsets has a minimal    *)
(* member.                                                                 *)
LEMMA MinimalSubsetExists ==
  ASSUME NEW S, IsFiniteSet(S), NEW F \in SUBSET (SUBSET S), F # {}
  PROVE  \E T \in F : \A U \in F : U \subseteq T => U = T
<1>1. F \subseteq FiniteSubsetsOf(S)
  BY FS_Subset DEF FiniteSubsetsOf
<1>2. \E T \in F : \A U \in F : ~ (<<U, T>> \in StrictSubsetOrdering(S))
  BY <1>1, FS_StrictSubsetOrderingWellFounded, WFMin
<1>3. PICK T \in F : \A U \in F : ~ (<<U, T>> \in StrictSubsetOrdering(S))
  BY <1>2
<1>4. ASSUME NEW U \in F, U \subseteq T, U # T
      PROVE  FALSE
  <2>1. <<U, T>> \in StrictSubsetOrdering(S)
    BY <1>4 DEF StrictSubsetOrdering
  <2> QED
    BY <2>1, <1>3
<1> QED
  BY <1>3, <1>4

(* The library takes the elements in the order CHOOSE gives them.          *)
AnElement(S) == CHOOSE x \in S : TRUE

(* g has the sum of f over every subset of S.                              *)
IsPartialSum(g, f, S) ==
  g = [s \in SUBSET S |->
         IF s = {} THEN 0 ELSE f[AnElement(s)] + g[s \ {AnElement(s)}]]

LEMMA SumIsPartialSum ==
  ASSUME NEW f, NEW S
  PROVE  SumFunctionOnSet(f, S) = (CHOOSE g : IsPartialSum(g, f, S))[S]
BY DEF SumFunctionOnSet, FoldFunctionOnSet, MapThenFoldSet, IsPartialSum, AnElement

LEMMA AnElementIsIn ==
  ASSUME NEW S, S # {}
  PROVE  AnElement(S) \in S
BY DEF AnElement

LEMMA PartialSumStep ==
  ASSUME NEW g, NEW f, NEW S, IsPartialSum(g, f, S), NEW T \in SUBSET S
  PROVE  g[T] = IF T = {} THEN 0 ELSE f[AnElement(T)] + g[T \ {AnElement(T)}]
BY DEF IsPartialSum

(* Two such functions agree on the subsets they share.                     *)
LEMMA PartialSumsAgree ==
  ASSUME NEW f, NEW S, IsFiniteSet(S), NEW T, T \subseteq S,
         NEW g, IsPartialSum(g, f, S), NEW h, IsPartialSum(h, f, T)
  PROVE  \A U \in SUBSET T : g[U] = h[U]
<1> DEFINE Bad == {U \in SUBSET T : g[U] # h[U]}
<1>1. SUFFICES ASSUME Bad # {}
              PROVE  FALSE
  OBVIOUS
<1>2. IsFiniteSet(T)
  BY FS_Subset
<1>3. PICK U \in Bad : \A V \in Bad : V \subseteq U => V = U
  <2>1. Bad \in SUBSET (SUBSET T)
    OBVIOUS
  <2> HIDE DEF Bad
  <2> QED
    BY <1>1, <1>2, <2>1, MinimalSubsetExists
<1>4. g[U] = (IF U = {} THEN 0 ELSE f[AnElement(U)] + g[U \ {AnElement(U)}])
      /\ h[U] = (IF U = {} THEN 0 ELSE f[AnElement(U)] + h[U \ {AnElement(U)}])
  BY PartialSumStep
<1>5. U # {}
  BY <1>4
<1>6. g[U \ {AnElement(U)}] = h[U \ {AnElement(U)}]
  BY <1>3, <1>5, AnElementIsIn
<1> QED
  BY <1>4, <1>6

(* There is one: that of a minimal set without would follow from those of  *)
(* its proper subsets.                                                     *)
LEMMA PartialSumExists ==
  ASSUME NEW f, NEW S, IsFiniteSet(S)
  PROVE  \E g : IsPartialSum(g, f, S)
<1> DEFINE Bad == {T \in SUBSET S : ~ \E g : IsPartialSum(g, f, T)}
<1>1. SUFFICES ASSUME Bad # {}
              PROVE  FALSE
  OBVIOUS
<1>2. PICK T \in Bad : \A V \in Bad : V \subseteq T => V = T
  <2>1. Bad \in SUBSET (SUBSET S)
    OBVIOUS
  <2> HIDE DEF Bad
  <2> QED
    BY <1>1, <2>1, MinimalSubsetExists
<1> DEFINE H(U) == CHOOSE h : IsPartialSum(h, f, U)
<1>3. \A U \in SUBSET T : U # T => IsPartialSum(H(U), f, U)
  BY <1>2
<1> DEFINE rest(U) == U \ {AnElement(U)}
           g == [U \in SUBSET T |->
                   IF U = {} THEN 0 ELSE f[AnElement(U)] + H(rest(U))[rest(U)]]
<1>4. ASSUME NEW U \in SUBSET T, U # T
      PROVE  H(U)[U] = g[U]
  <2>1. IsPartialSum(H(U), f, U)
    BY <1>3, <1>4
  <2>2. H(U)[U] = IF U = {} THEN 0 ELSE f[AnElement(U)] + H(U)[rest(U)]
    BY <2>1, PartialSumStep
  <2>3. CASE U = {}
    BY <2>2, <2>3
  <2>4. CASE U # {}
    <3>1. rest(U) \in SUBSET T /\ rest(U) # T /\ rest(U) \subseteq U
      BY <2>4, AnElementIsIn
    <3>2. IsPartialSum(H(rest(U)), f, rest(U))
      BY <3>1, <1>3
    <3>3. IsFiniteSet(U)
      BY FS_Subset
    <3>4. H(U)[rest(U)] = H(rest(U))[rest(U)]
      <4> HIDE DEF H, rest
      <4> QED
        BY <2>1, <3>1, <3>2, <3>3, PartialSumsAgree
    <3> QED
      BY <2>2, <2>4, <3>4
  <2> QED
    BY <2>3, <2>4
<1>5. IsPartialSum(g, f, T)
  <2>1. ASSUME NEW U \in SUBSET T, U # {}
        PROVE  H(rest(U))[rest(U)] = g[rest(U)]
    <3>1. rest(U) \in SUBSET T /\ rest(U) # T
      BY <2>1, AnElementIsIn
    <3> HIDE DEF H, g, rest
    <3> QED
      BY <3>1, <1>4
  <2>2. g = [U \in SUBSET T |-> IF U = {} THEN 0 ELSE f[AnElement(U)] + g[rest(U)]]
    <3> DEFINE k == [U \in SUBSET T |-> IF U = {} THEN 0 ELSE f[AnElement(U)] + g[rest(U)]]
    <3>1. ASSUME NEW U \in SUBSET T
          PROVE  g[U] = k[U]
      <4>1. g[U] = IF U = {} THEN 0 ELSE f[AnElement(U)] + H(rest(U))[rest(U)]
        OBVIOUS
      <4>2. k[U] = IF U = {} THEN 0 ELSE f[AnElement(U)] + g[rest(U)]
        OBVIOUS
      <4> HIDE DEF g, k, H, rest
      <4> QED
        BY <4>1, <4>2, <2>1
    <3> QED
      BY <3>1
  <2> HIDE DEF g
  <2> QED
    BY <2>2 DEF IsPartialSum
<1> QED
  BY <1>2, <1>5

(* So the fold of the library satisfies its equation.                      *)
LEMMA SumStep ==
  ASSUME NEW f, NEW S, IsFiniteSet(S), S # {}
  PROVE  SumFunctionOnSet(f, S) =
           f[AnElement(S)] + SumFunctionOnSet(f, S \ {AnElement(S)})
<1> DEFINE H(U) == CHOOSE h : IsPartialSum(h, f, U)
           R == S \ {AnElement(S)}
<1>1. IsFiniteSet(R) /\ R \subseteq S
  BY FS_Subset
<1>2. IsPartialSum(H(S), f, S) /\ IsPartialSum(H(R), f, R)
  BY <1>1, PartialSumExists
<1>3. H(S)[S] = f[AnElement(S)] + H(S)[R]
  BY <1>2, PartialSumStep
<1>4. H(S)[R] = H(R)[R]
  <2> HIDE DEF H, R
  <2> QED
    BY <1>1, <1>2, PartialSumsAgree
<1>5. SumFunctionOnSet(f, S) = H(S)[S] /\ SumFunctionOnSet(f, R) = H(R)[R]
  BY SumIsPartialSum
<1> QED
  BY <1>3, <1>4, <1>5

LEMMA SumEmpty ==
  ASSUME NEW f
  PROVE  SumFunctionOnSet(f, {}) = 0
<1>1. PICK g : IsPartialSum(g, f, {})
  BY PartialSumExists, FS_EmptySet
<1>2. IsPartialSum(CHOOSE h : IsPartialSum(h, f, {}), f, {})
  BY <1>1
<1> QED
  BY <1>2, SumIsPartialSum, PartialSumStep

(* The sum of integers is one, that of natural numbers too.                *)
LEMMA SumInt ==
  ASSUME NEW f, NEW S, IsFiniteSet(S), \A x \in S : f[x] \in Int
  PROVE  SumFunctionOnSet(f, S) \in Int
<1> DEFINE Bad == {T \in SUBSET S : SumFunctionOnSet(f, T) \notin Int}
<1>1. SUFFICES ASSUME Bad # {}
              PROVE  FALSE
  OBVIOUS
<1>2. PICK T \in Bad : \A V \in Bad : V \subseteq T => V = T
  <2>1. Bad \in SUBSET (SUBSET S)
    OBVIOUS
  <2> HIDE DEF Bad
  <2> QED
    BY <1>1, <2>1, MinimalSubsetExists
<1>3. T # {} /\ IsFiniteSet(T) /\ AnElement(T) \in T
  <2>1. SumFunctionOnSet(f, {}) \in Int
    BY SumEmpty
  <2> QED
    BY <2>1, FS_Subset, AnElementIsIn
<1>4. SumFunctionOnSet(f, T \ {AnElement(T)}) \in Int
  BY <1>2, <1>3
<1>5. SumFunctionOnSet(f, T) = f[AnElement(T)] + SumFunctionOnSet(f, T \ {AnElement(T)})
  BY <1>3, SumStep
<1> QED
  BY <1>3, <1>4, <1>5

LEMMA SumNat ==
  ASSUME NEW f, NEW S, IsFiniteSet(S), \A x \in S : f[x] \in Nat
  PROVE  SumFunctionOnSet(f, S) \in Nat
<1> DEFINE Bad == {T \in SUBSET S : SumFunctionOnSet(f, T) \notin Nat}
<1>1. SUFFICES ASSUME Bad # {}
              PROVE  FALSE
  OBVIOUS
<1>2. PICK T \in Bad : \A V \in Bad : V \subseteq T => V = T
  <2>1. Bad \in SUBSET (SUBSET S)
    OBVIOUS
  <2> HIDE DEF Bad
  <2> QED
    BY <1>1, <2>1, MinimalSubsetExists
<1>3. T # {} /\ IsFiniteSet(T) /\ AnElement(T) \in T
  <2>1. SumFunctionOnSet(f, {}) \in Nat
    BY SumEmpty
  <2> QED
    BY <2>1, FS_Subset, AnElementIsIn
<1>4. SumFunctionOnSet(f, T \ {AnElement(T)}) \in Nat
  BY <1>2, <1>3
<1>5. SumFunctionOnSet(f, T) = f[AnElement(T)] + SumFunctionOnSet(f, T \ {AnElement(T)})
  BY <1>3, SumStep
<1> QED
  BY <1>3, <1>4, <1>5

(* Any element can be taken out first.                                     *)
LEMMA SumWithout ==
  ASSUME NEW f, NEW S, IsFiniteSet(S), \A x \in S : f[x] \in Int, NEW x \in S
  PROVE  SumFunctionOnSet(f, S) = f[x] + SumFunctionOnSet(f, S \ {x})
<1> DEFINE IsOut(T, y) ==
             SumFunctionOnSet(f, T) = f[y] + SumFunctionOnSet(f, T \ {y})
           Bad == {T \in SUBSET S : \E y \in T : ~ IsOut(T, y)}
<1>1. SUFFICES ASSUME Bad # {}
              PROVE  FALSE
  OBVIOUS
<1>2. PICK T \in Bad : \A V \in Bad : V \subseteq T => V = T
  <2>1. Bad \in SUBSET (SUBSET S)
    OBVIOUS
  <2> HIDE DEF Bad
  <2> QED
    BY <1>1, <2>1, MinimalSubsetExists
<1>3. PICK y \in T : ~ IsOut(T, y)
  OBVIOUS
<1> DEFINE c == AnElement(T)
<1>4. IsFiniteSet(T) /\ c \in T
  BY <1>3, FS_Subset, AnElementIsIn
<1>5. IsOut(T, c)
  BY <1>4, SumStep
<1>6. y # c
  BY <1>3, <1>5
<1>7. IsOut(T \ {c}, y) /\ IsOut(T \ {y}, c)
  <2>1. \A V \in SUBSET T : V # T => \A z \in V : IsOut(V, z)
    <3> HIDE DEF IsOut
    <3> QED
      BY <1>2
  <2> HIDE DEF IsOut, c
  <2> QED
    BY <2>1, <1>3, <1>4, <1>6
<1>8. (T \ {c}) \ {y} = (T \ {y}) \ {c}
  OBVIOUS
<1> DEFINE r == SumFunctionOnSet(f, (T \ {y}) \ {c})
<1>9. r \in Int /\ f[y] \in Int /\ f[c] \in Int
  <2>1. IsFiniteSet((T \ {y}) \ {c})
    BY <1>4, FS_Subset
  <2>2. \A z \in (T \ {y}) \ {c} : f[z] \in Int
    OBVIOUS
  <2> QED
    BY <2>1, <2>2, <1>4, SumInt
<1>10. /\ SumFunctionOnSet(f, T) = f[c] + (f[y] + r)
       /\ SumFunctionOnSet(f, T \ {y}) = f[c] + r
  BY <1>5, <1>7, <1>8
<1>11. SumFunctionOnSet(f, T) = f[y] + SumFunctionOnSet(f, T \ {y})
  <2> HIDE DEF r, c
  <2> QED
    BY <1>9, <1>10
<1> QED
  BY <1>3, <1>11

(* A sum depends on its summands only.                                     *)
LEMMA SumCongruent ==
  ASSUME NEW f, NEW g, NEW S, IsFiniteSet(S), \A x \in S : f[x] = g[x]
  PROVE  SumFunctionOnSet(f, S) = SumFunctionOnSet(g, S)
<1> DEFINE Bad == {T \in SUBSET S :
                     SumFunctionOnSet(f, T) # SumFunctionOnSet(g, T)}
<1>1. SUFFICES ASSUME Bad # {}
              PROVE  FALSE
  OBVIOUS
<1>2. PICK T \in Bad : \A V \in Bad : V \subseteq T => V = T
  <2>1. Bad \in SUBSET (SUBSET S)
    OBVIOUS
  <2> HIDE DEF Bad
  <2> QED
    BY <1>1, <2>1, MinimalSubsetExists
<1>3. T # {} /\ IsFiniteSet(T) /\ AnElement(T) \in T
  BY SumEmpty, FS_Subset, AnElementIsIn
<1>4. SumFunctionOnSet(f, T \ {AnElement(T)}) = SumFunctionOnSet(g, T \ {AnElement(T)})
  BY <1>2, <1>3
<1>5. /\ SumFunctionOnSet(f, T) = f[AnElement(T)] + SumFunctionOnSet(f, T \ {AnElement(T)})
      /\ SumFunctionOnSet(g, T) = g[AnElement(T)] + SumFunctionOnSet(g, T \ {AnElement(T)})
  BY <1>3, SumStep
<1> QED
  BY <1>3, <1>4, <1>5

(* Sums add up summand by summand, and are ordered by them.                *)
LEMMA SumOfSums ==
  ASSUME NEW f, NEW g, NEW h, NEW S, IsFiniteSet(S),
         \A x \in S : f[x] \in Int /\ g[x] \in Int /\ h[x] = f[x] + g[x]
  PROVE  SumFunctionOnSet(h, S) = SumFunctionOnSet(f, S) + SumFunctionOnSet(g, S)
<1> DEFINE IsWrong(T) ==
             SumFunctionOnSet(h, T) # SumFunctionOnSet(f, T) + SumFunctionOnSet(g, T)
           Bad == {T \in SUBSET S : IsWrong(T)}
<1>1. SUFFICES ASSUME Bad # {}
              PROVE  FALSE
  OBVIOUS
<1>2. PICK T \in Bad : \A V \in Bad : V \subseteq T => V = T
  <2>1. Bad \in SUBSET (SUBSET S)
    OBVIOUS
  <2> HIDE DEF Bad
  <2> QED
    BY <1>1, <2>1, MinimalSubsetExists
<1>3. T # {} /\ IsFiniteSet(T) /\ AnElement(T) \in T
  <2>1. SumFunctionOnSet(h, {}) = SumFunctionOnSet(f, {}) + SumFunctionOnSet(g, {})
    BY SumEmpty
  <2> QED
    BY <2>1, FS_Subset, AnElementIsIn
<1> DEFINE R == T \ {AnElement(T)}
<1>4. SumFunctionOnSet(h, R) = SumFunctionOnSet(f, R) + SumFunctionOnSet(g, R)
  BY <1>2, <1>3
<1>5. /\ SumFunctionOnSet(f, T) = f[AnElement(T)] + SumFunctionOnSet(f, R)
      /\ SumFunctionOnSet(g, T) = g[AnElement(T)] + SumFunctionOnSet(g, R)
      /\ SumFunctionOnSet(h, T) = h[AnElement(T)] + SumFunctionOnSet(h, R)
  BY <1>3, SumStep
<1>6. SumFunctionOnSet(f, R) \in Int /\ SumFunctionOnSet(g, R) \in Int
  <2>1. IsFiniteSet(R)
    BY <1>3, FS_Subset
  <2> QED
    BY <2>1, SumInt
<1>7. f[AnElement(T)] \in Int /\ g[AnElement(T)] \in Int
      /\ h[AnElement(T)] = f[AnElement(T)] + g[AnElement(T)]
  BY <1>3
<1>8. SumFunctionOnSet(h, T) = SumFunctionOnSet(f, T) + SumFunctionOnSet(g, T)
  <2> HIDE DEF R
  <2> QED
    BY <1>4, <1>5, <1>6, <1>7
<1> QED
  BY <1>8

LEMMA SumMonotone ==
  ASSUME NEW f, NEW g, NEW S, IsFiniteSet(S),
         \A x \in S : f[x] \in Int /\ g[x] \in Int /\ f[x] <= g[x]
  PROVE  SumFunctionOnSet(f, S) <= SumFunctionOnSet(g, S)
<1> DEFINE d == [x \in S |-> g[x] - f[x]]
<1>1. SumFunctionOnSet(d, S) \in Nat
  <2>1. \A x \in S : d[x] \in Nat
    OBVIOUS
  <2> HIDE DEF d
  <2> QED
    BY <2>1, SumNat
<1>2. SumFunctionOnSet(g, S) = SumFunctionOnSet(f, S) + SumFunctionOnSet(d, S)
  <2>1. \A x \in S : f[x] \in Int /\ d[x] \in Int /\ g[x] = f[x] + d[x]
    OBVIOUS
  <2> HIDE DEF d
  <2> QED
    BY <2>1, SumOfSums
<1>3. SumFunctionOnSet(f, S) \in Int
  BY SumInt
<1> QED
  BY <1>1, <1>2, <1>3

(* What is zero need not be summed.                                        *)
LEMMA SumOfNonzero ==
  ASSUME NEW f, NEW S, IsFiniteSet(S), NEW T \in SUBSET S,
         \A x \in S : f[x] \in Int, \A x \in S \ T : f[x] = 0
  PROVE  SumFunctionOnSet(f, S) = SumFunctionOnSet(f, T)
<1> DEFINE Bad == {U \in SUBSET S :
                     T \subseteq U /\ SumFunctionOnSet(f, U) # SumFunctionOnSet(f, T)}
<1>1. SUFFICES ASSUME Bad # {}
              PROVE  FALSE
  OBVIOUS
<1>2. PICK U \in Bad : \A V \in Bad : V \subseteq U => V = U
  <2>1. Bad \in SUBSET (SUBSET S)
    OBVIOUS
  <2> HIDE DEF Bad
  <2> QED
    BY <1>1, <2>1, MinimalSubsetExists
<1>3. PICK x \in U : x \notin T
  OBVIOUS
<1>4. SumFunctionOnSet(f, U \ {x}) = SumFunctionOnSet(f, T)
  BY <1>2, <1>3
<1>5. IsFiniteSet(U) /\ IsFiniteSet(U \ {x})
  BY FS_Subset
<1>6. SumFunctionOnSet(f, U) = f[x] + SumFunctionOnSet(f, U \ {x})
  <2>1. \A y \in U : f[y] \in Int
    OBVIOUS
  <2> QED
    BY <2>1, <1>5, SumWithout
<1>7. SumFunctionOnSet(f, U \ {x}) \in Int
  BY <1>5, SumInt
<1>8. f[x] = 0
  BY <1>3
<1> QED
  BY <1>4, <1>6, <1>7, <1>8

-----------------------------------------------------------------------------
(* Quotients *)

LEMMA DivTimes ==
  ASSUME NEW a \in Nat, NEW d \in Nat \ {0}
  PROVE  /\ a \div d \in Nat
         /\ (a \div d) * d <= a
         /\ a < (a \div d) * d + d
OBVIOUS

LEMMA ModOfDiv ==
  ASSUME NEW a \in Nat, NEW d \in Nat \ {0}
  PROVE  a % d \in 0..(d - 1) /\ a = (a \div d) * d + (a % d)
OBVIOUS
=============================================================================
