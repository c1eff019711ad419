----------------------------- MODULE FoldLemmas -----------------------------
(***************************************************************************)
(* What SumFunction of the community modules computes, for every finite    *)
(* set of summands.  It folds a set by choosing one element after the      *)
(* other, so even that the choice does not matter is a fact to prove.      *)
(*                                                                         *)
(* The induction is by least counterexample: the sets for which a claim    *)
(* fails have a smallest one, if there is any, as cardinalities are        *)
(* natural numbers; the claim holds of the empty set and of every set      *)
(* with one element less, hence of that one too.                           *)
(***************************************************************************)
EXTENDS Functions, FiniteSets, Integers, FiniteSetTheorems, WellFoundedInduction, TLAPS

\* A set of natural numbers that is not empty has a least one.
LEMMA HasLeast ==
  ASSUME NEW S, S \subseteq Nat, S # {}
  PROVE  \E x \in S : \A y \in S : x <= y
<1>1. PICK x \in S : \A y \in S : <<y, x>> \notin OpToRel(<, Nat)
  BY NatLessThanWellFounded, WFMin
<1>2. \A y \in S : ~(y < x)
  BY <1>1 DEF OpToRel
<1>3. QED
  BY <1>2

\* Among subsets of a finite set there is a smallest.
LEMMA HasSmallest ==
  ASSUME NEW S, IsFiniteSet(S), NEW Bad, Bad \subseteq SUBSET S, Bad # {}
  PROVE  \E T \in Bad : /\ IsFiniteSet(T)
                        /\ \A x \in T : T \ {x} \notin Bad
<1> DEFINE Sizes == {Cardinality(T) : T \in Bad}
<1>1. \A T \in SUBSET S : IsFiniteSet(T) /\ Cardinality(T) \in Nat
  BY FS_Subset, FS_CardinalityType
<1>2. Sizes \subseteq Nat /\ Sizes # {}
  BY <1>1
<1>3. PICK n \in Sizes : \A m \in Sizes : n <= m
  BY <1>2, HasLeast
<1>4. PICK T \in Bad : n = Cardinality(T)
  BY <1>3
<1>5. ASSUME NEW x \in T, T \ {x} \in Bad PROVE FALSE
  <2>1. Cardinality(T \ {x}) = Cardinality(T) - 1 /\ Cardinality(T) \in Nat
    BY <1>1, FS_RemoveElement
  <2>2. n <= Cardinality(T \ {x})
    BY <1>3, <1>5
  <2>3. QED
    BY <1>4, <2>1, <2>2
<1>6. QED
  BY <1>1, <1>4, <1>5

-----------------------------------------------------------------------------
(***************************************************************************)
(* The recursion behind the fold has exactly one solution on the subsets   *)
(* of a finite set.                                                        *)
(***************************************************************************)
FoldPick(s) == CHOOSE x \in s : TRUE
FoldStep(f, s, g) == IF s = {} THEN 0 ELSE f[FoldPick(s)] + g[s \ {FoldPick(s)}]
FoldSolves(g, f, D) == g = [s \in D |-> FoldStep(f, s, g)]
FoldSmall(S, n) == {s \in SUBSET S : Cardinality(s) <= n}

\* The element the fold picks is one of the set.
LEMMA PickIsIn == ASSUME NEW s, s # {} PROVE FoldPick(s) \in s
  BY DEF FoldPick

\* It has one on the subsets of at most n elements.
LEMMA SolvableUpTo ==
  ASSUME NEW S, IsFiniteSet(S), NEW f
  PROVE  \A n \in Nat : \E g : FoldSolves(g, f, FoldSmall(S, n))
<1> DEFINE Bad == {n \in Nat : ~\E g : FoldSolves(g, f, FoldSmall(S, n))}
<1>1. SUFFICES ASSUME Bad # {} PROVE FALSE
  OBVIOUS
<1>2. PICK n \in Bad : \A m \in Bad : n <= m
  BY <1>1, HasLeast
<1>3. \A T \in SUBSET S : IsFiniteSet(T) /\ Cardinality(T) \in Nat /\ (Cardinality(T) = 0 <=> T = {})
  BY FS_Subset, FS_CardinalityType, FS_EmptySet
<1>4. CASE n = 0
  <2> DEFINE g == [s \in FoldSmall(S, 0) |-> 0]
  <2>1. \A s \in FoldSmall(S, 0) : FoldStep(f, s, g) = 0
    BY <1>3 DEF FoldSmall, FoldStep
  <2>2. FoldSolves(g, f, FoldSmall(S, 0))
    BY <2>1 DEF FoldSolves
  <2>3. QED
    BY <1>2, <1>4, <2>2
<1>5. CASE n # 0
  <2>1. n - 1 \in Nat /\ n - 1 \notin Bad /\ n \in Nat
    BY <1>2, <1>5
  <2>2. PICK g : FoldSolves(g, f, FoldSmall(S, n - 1))
    BY <2>1
  <2> DEFINE h == [s \in FoldSmall(S, n) |-> FoldStep(f, s, g)]
  <2>3. \A s \in FoldSmall(S, n - 1) : s \in FoldSmall(S, n) /\ h[s] = g[s]
    BY <1>3, <2>1, <2>2 DEF FoldSmall, FoldSolves
  <2>4. ASSUME NEW s \in FoldSmall(S, n), s # {} PROVE s \ {FoldPick(s)} \in FoldSmall(S, n - 1)
    <3>1. Cardinality(s \ {FoldPick(s)}) = Cardinality(s) - 1
      BY <1>3, <2>4, PickIsIn, FS_RemoveElement DEF FoldSmall
    <3>2. QED
      BY <1>3, <2>1, <3>1 DEF FoldSmall
  <2>5. \A s \in FoldSmall(S, n) : FoldStep(f, s, g) = FoldStep(f, s, h)
    BY <2>3, <2>4 DEF FoldStep
  <2>6. FoldSolves(h, f, FoldSmall(S, n))
    BY <2>5 DEF FoldSolves
  <2>7. QED
    BY <1>2, <2>6
<1>6. QED
  BY <1>4, <1>5

\* It has one on all the subsets of a finite set.
LEMMA Solvable ==
  ASSUME NEW S, IsFiniteSet(S), NEW f
  PROVE  \E g : FoldSolves(g, f, SUBSET S)
<1>1. Cardinality(S) \in Nat /\ FoldSmall(S, Cardinality(S)) = SUBSET S
  BY FS_Subset, FS_CardinalityType DEF FoldSmall
<1>2. \E g : FoldSolves(g, f, FoldSmall(S, Cardinality(S)))
  BY <1>1, SolvableUpTo
<1>3. QED
  BY <1>1, <1>2

FoldAlike(f, k, T) == \A x \in T : f[x] = k[x]

\* Two functions that agree on T have solutions that agree on its subsets.
LEMMA SolvedAlike ==
  \A S : IsFiniteSet(S) => \A T \in SUBSET S :
    \A f, k, g, h : FoldAlike(f, k, T) /\ FoldSolves(g, f, SUBSET S) /\ FoldSolves(h, k, SUBSET T) =>
      \A s \in SUBSET T : g[s] = h[s]
<1> SUFFICES ASSUME NEW S, IsFiniteSet(S), NEW T \in SUBSET S, NEW f, NEW k, NEW g, NEW h,
                    FoldAlike(f, k, T), FoldSolves(g, f, SUBSET S), FoldSolves(h, k, SUBSET T)
             PROVE  \A s \in SUBSET T : g[s] = h[s]
  OBVIOUS
<1> DEFINE Bad == {s \in SUBSET T : g[s] # h[s]}
<1>1. SUFFICES ASSUME Bad # {} PROVE FALSE
  OBVIOUS
<1>2. PICK s \in Bad : \A x \in s : s \ {x} \notin Bad
  <2>1. Bad \subseteq SUBSET S
    OBVIOUS
  <2> HIDE DEF Bad
  <2>2. QED
    BY <1>1, <2>1, HasSmallest
<1>3. g[s] = FoldStep(f, s, g) /\ h[s] = FoldStep(k, s, h)
  BY DEF FoldSolves
<1>4. CASE s = {}
  BY <1>2, <1>3, <1>4 DEF FoldStep
<1>5. CASE s # {}
  <2>1. FoldPick(s) \in s /\ s \ {FoldPick(s)} \in SUBSET T
    BY <1>5, PickIsIn
  <2>2. g[s \ {FoldPick(s)}] = h[s \ {FoldPick(s)}] /\ f[FoldPick(s)] = k[FoldPick(s)]
    BY <1>2, <2>1 DEF FoldAlike
  <2>3. QED
    BY <1>2, <1>3, <2>2 DEF FoldStep
<1>6. QED
  BY <1>4, <1>5

-----------------------------------------------------------------------------
\* The library's fold is the solution's value at the whole set.
LEMMA SumIsSolved ==
  ASSUME NEW S, IsFiniteSet(S), NEW f
  PROVE  \E g : FoldSolves(g, f, SUBSET S) /\ SumFunctionOnSet(f, S) = g[S]
<1> DEFINE G == CHOOSE g : FoldSolves(g, f, SUBSET S)
<1>1. FoldSolves(G, f, SUBSET S)
  BY Solvable
<1>2. SumFunctionOnSet(f, S) = G[S]
  BY DEF SumFunctionOnSet, FoldFunctionOnSet, MapThenFoldSet, FoldSolves, FoldStep, FoldPick
<1> HIDE DEF G
<1>3. QED
  BY <1>1, <1>2

\* The sum looks at nothing but the summands.
LEMMA SumAlike ==
  ASSUME NEW S, IsFiniteSet(S), NEW f, NEW k, \A x \in S : f[x] = k[x]
  PROVE  SumFunctionOnSet(f, S) = SumFunctionOnSet(k, S)
<1>1. PICK g : FoldSolves(g, f, SUBSET S) /\ SumFunctionOnSet(f, S) = g[S]
  BY SumIsSolved
<1>2. PICK h : FoldSolves(h, k, SUBSET S) /\ SumFunctionOnSet(k, S) = h[S]
  BY SumIsSolved
<1>3. \A s \in SUBSET S : g[s] = h[s]
  <2>1. S \in SUBSET S /\ FoldAlike(f, k, S)
    BY DEF FoldAlike
  <2>2. QED
    BY <1>1, <1>2, <2>1, SolvedAlike
<1>4. QED
  BY <1>1, <1>2, <1>3

\* The sum over no element at all.
LEMMA SumOfNone == ASSUME NEW f PROVE SumFunctionOnSet(f, {}) = 0
<1>1. PICK g : FoldSolves(g, f, SUBSET {}) /\ SumFunctionOnSet(f, {}) = g[{}]
  BY SumIsSolved, FS_EmptySet
<1>2. QED
  BY <1>1 DEF FoldSolves, FoldStep

\* The chosen element's summand and the sum of the others.
LEMMA SumUnfolds ==
  ASSUME NEW S, IsFiniteSet(S), S # {}, NEW f
  PROVE  SumFunctionOnSet(f, S) = f[FoldPick(S)] + SumFunctionOnSet(f, S \ {FoldPick(S)})
<1> DEFINE T == S \ {FoldPick(S)}
<1>1. PICK g : FoldSolves(g, f, SUBSET S) /\ SumFunctionOnSet(f, S) = g[S]
  BY SumIsSolved
<1>2. IsFiniteSet(T) /\ T \in SUBSET S
  BY FS_Subset
<1>3. PICK h : FoldSolves(h, f, SUBSET T) /\ SumFunctionOnSet(f, T) = h[T]
  BY <1>2, SumIsSolved
<1>4. g[T] = h[T]
  <2>1. FoldAlike(f, f, T)
    BY DEF FoldAlike
  <2> HIDE DEF T
  <2>2. \A s \in SUBSET T : g[s] = h[s]
    BY <1>1, <1>2, <1>3, <2>1, SolvedAlike
  <2>3. QED
    BY <2>2
<1>5. g[S] = f[FoldPick(S)] + g[T]
  BY <1>1 DEF FoldSolves, FoldStep
<1>6. QED
  BY <1>1, <1>3, <1>4, <1>5

\* A sum of integers is an integer.
LEMMA SumIsInt ==
  ASSUME NEW S, IsFiniteSet(S), NEW f, \A x \in S : f[x] \in Int
  PROVE  \A T \in SUBSET S : SumFunctionOnSet(f, T) \in Int
<1> DEFINE Bad == {T \in SUBSET S : SumFunctionOnSet(f, T) \notin Int}
<1>1. SUFFICES ASSUME Bad # {} PROVE FALSE
  OBVIOUS
<1>2. PICK T \in Bad : IsFiniteSet(T) /\ \A x \in T : T \ {x} \notin Bad
  <2>1. Bad \subseteq SUBSET S
    OBVIOUS
  <2> HIDE DEF Bad
  <2>2. QED
    BY <1>1, <2>1, HasSmallest
<1>3. T # {}
  BY SumOfNone
<1>4. FoldPick(T) \in T /\ T \ {FoldPick(T)} \in SUBSET S
  BY <1>3, PickIsIn
<1>5. SumFunctionOnSet(f, T \ {FoldPick(T)}) \in Int /\ f[FoldPick(T)] \in Int
  BY <1>2, <1>4
<1>6. SumFunctionOnSet(f, T) = f[FoldPick(T)] + SumFunctionOnSet(f, T \ {FoldPick(T)})
  BY <1>2, <1>3, SumUnfolds
<1>7. QED
  BY <1>2, <1>5, <1>6

\* Any element may be taken out first.
LEMMA SumTakesOut ==
  ASSUME NEW S, IsFiniteSet(S), NEW f, \A x \in S : f[x] \in Int
  PROVE  \A T \in SUBSET S : \A x \in T :
            SumFunctionOnSet(f, T) = f[x] + SumFunctionOnSet(f, T \ {x})
<1> DEFINE Sum(T) == SumFunctionOnSet(f, T)
<1> DEFINE Bad == {T \in SUBSET S : \E x \in T : Sum(T) # f[x] + Sum(T \ {x})}
<1>1. SUFFICES ASSUME Bad # {} PROVE FALSE
  OBVIOUS
<1>2. PICK T \in Bad : IsFiniteSet(T) /\ \A x \in T : T \ {x} \notin Bad
  <2>1. Bad \subseteq SUBSET S
    OBVIOUS
  <2> HIDE DEF Bad
  <2>2. QED
    BY <1>1, <2>1, HasSmallest
<1>3. PICK x \in T : Sum(T) # f[x] + Sum(T \ {x})
  BY <1>2
<1>4. PICK y : y = FoldPick(T)
  OBVIOUS
<1>5. y \in T /\ Sum(T) = f[y] + Sum(T \ {y})
  BY <1>2, <1>3, <1>4, PickIsIn, SumUnfolds
<1>6. x # y
  BY <1>3, <1>5
<1>7. PICK R : R = (T \ {x}) \ {y}
  OBVIOUS
<1>8. R = (T \ {y}) \ {x} /\ R \in SUBSET S
  BY <1>7
<1>9. Sum(T \ {x}) = f[y] + Sum(R)
  <2>1. T \ {x} \notin Bad /\ T \ {x} \in SUBSET S /\ y \in T \ {x}
    BY <1>2, <1>5, <1>6
  <2>2. QED
    BY <2>1, <1>7
<1>10. Sum(T \ {y}) = f[x] + Sum(R)
  <2>1. T \ {y} \notin Bad /\ T \ {y} \in SUBSET S /\ x \in T \ {y}
    BY <1>2, <1>5, <1>6
  <2>2. QED
    BY <2>1, <1>8
<1>11. f[x] \in Int /\ f[y] \in Int /\ Sum(R) \in Int
  BY <1>5, <1>8, SumIsInt
<1> HIDE DEF Sum
<1>12. QED
  BY <1>3, <1>5, <1>9, <1>10, <1>11

-----------------------------------------------------------------------------
(***************************************************************************)
(* The same of a function's values, the form the models use.               *)
(***************************************************************************)
\* A finite sum of integers is an integer.
THEOREM SumTyped ==
  ASSUME NEW S, IsFiniteSet(S), NEW f \in [S -> Int]
  PROVE  SumFunction(f) \in Int
  BY SumIsInt DEF SumFunction

\* The sum of a function without arguments is nothing: an empty ledger adds up to 0.
THEOREM SumEmpty == ASSUME NEW f, DOMAIN f = {} PROVE SumFunction(f) = 0
  BY SumOfNone DEF SumFunction

\* f is g, which is given on S, and a summand more at x.
OneMore(f, x, g, S) ==
    /\ IsFiniteSet(S) /\ x \notin S
    /\ f \in [S \cup {x} -> Int] /\ g \in [S -> Int]
    /\ \A y \in S : f[y] = g[y]

\* A summand more adds its amount to the sum.
THEOREM SumInsert ==
  ASSUME NEW f, NEW x, NEW g, NEW S, OneMore(f, x, g, S)
  PROVE  SumFunction(f) = f[x] + SumFunction(g)
<1> USE DEF OneMore
<1>1. IsFiniteSet(S \cup {x}) /\ (S \cup {x}) \ {x} = S
  BY FS_AddElement
<1>2. SumFunctionOnSet(f, S \cup {x}) = f[x] + SumFunctionOnSet(f, S)
  BY <1>1, SumTakesOut
<1>3. SumFunctionOnSet(f, S) = SumFunctionOnSet(g, S)
  BY SumAlike
<1>4. QED
  BY <1>2, <1>3 DEF SumFunction

\* A union of disjoint sets is as large as they are together.
THEOREM UnionCounts ==
  ASSUME NEW S, NEW F, IsFiniteSet(S),
         \A i \in S : IsFiniteSet(F[i]),
         \A i, j \in S : i # j => F[i] \cap F[j] = {}
  PROVE  Cardinality(UNION {F[i] : i \in S}) = SumFunction([i \in S |-> Cardinality(F[i])])
<1> DEFINE f == [i \in S |-> Cardinality(F[i])]
           All(T) == UNION {F[i] : i \in T}
           Bad == {T \in SUBSET S : ~(IsFiniteSet(All(T)) /\ Cardinality(All(T)) = SumFunctionOnSet(f, T))}
<1>1. \A i \in S : f[i] \in Nat /\ f[i] = Cardinality(F[i])
  BY FS_CardinalityType
<1>2. SUFFICES Bad = {}
  BY DEF SumFunction
<1>3. SUFFICES ASSUME Bad # {} PROVE FALSE
  OBVIOUS
<1>4. PICK T \in Bad : IsFiniteSet(T) /\ \A x \in T : T \ {x} \notin Bad
  <2>1. Bad \subseteq SUBSET S
    OBVIOUS
  <2> HIDE DEF Bad
  <2>2. QED
    BY <1>3, <2>1, HasSmallest
<1>5. T # {}
  BY <1>4, SumOfNone, FS_EmptySet
<1>6. PICK x : x \in T
  BY <1>5
<1>7. PICK R : R = T \ {x}
  OBVIOUS
<1>8. IsFiniteSet(All(R)) /\ Cardinality(All(R)) = SumFunctionOnSet(f, R)
  BY <1>4, <1>6, <1>7
<1>9. All(T) = F[x] \cup All(R) /\ F[x] \cap All(R) = {}
  BY <1>4, <1>6, <1>7
<1>10. SumFunctionOnSet(f, T) = f[x] + SumFunctionOnSet(f, R)
  <2>1. T \in SUBSET S /\ \A i \in S : f[i] \in Int
    BY <1>1, <1>4
  <2> HIDE DEF f, Bad
  <2>2. QED
    BY <1>6, <1>7, <2>1, SumTakesOut
<1>11. IsFiniteSet(All(T)) /\ Cardinality(All(T)) = Cardinality(F[x]) + Cardinality(All(R))
  <2>1. IsFiniteSet(F[x]) /\ Cardinality(F[x]) \in Nat /\ Cardinality(All(R)) \in Nat
    BY <1>4, <1>6, <1>8, FS_CardinalityType
  <2>2. Cardinality({}) = 0
    BY FS_EmptySet
  <2> HIDE DEF All
  <2>3. QED
    BY <1>8, <1>9, <2>1, <2>2, FS_Union
<1>12. f[x] = Cardinality(F[x])
  BY <1>1, <1>4, <1>6
<1> HIDE DEF All, f
<1>13. QED
  BY <1>4, <1>8, <1>10, <1>11, <1>12
=============================================================================
