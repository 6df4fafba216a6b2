----------------------------- MODULE SumProofs -----------------------------
(***************************************************************************)
(* What the sums of the models do: SumFunction adds the values of a        *)
(* function with a finite domain in an order of its own choosing, and the  *)
(* lemmas say that the order does not matter and what a change of one      *)
(* value, one argument more or larger values make of the sum.              *)
(*                                                                         *)
(* The community modules define the sum as a recursive function.  That     *)
(* there is such a function, and only one, is shown by looking at a least  *)
(* set for which it is not so: the induction theorems of the library take  *)
(* an operator, which no prover can instantiate, its theorems about least  *)
(* elements of sets do not.  What follows of least elements, here and in   *)
(* the other modules of proofs, is of LeastNatural and LeastSubset.        *)
(***************************************************************************)
EXTENDS Functions, FiniteSetsExt, Integers, FiniteSetTheorems, WellFoundedInduction, TLAPS

\* The argument whose value is added first.
Chosen(s) == CHOOSE x \in s : TRUE

\* What the sum of s is, when g knows the sums of smaller sets.
Added(f, g, s) == IF s = {} THEN 0 ELSE f[Chosen(s)] + g[s \ {Chosen(s)}]

\* g knows the sums of the sets in D.
Adds(f, D, g) == g = [s \in D |-> Added(f, g, s)]

TheSums(f, S) == CHOOSE g : Adds(f, SUBSET S, g)

LEMMA ChosenIn == ASSUME NEW s, s # {} PROVE Chosen(s) \in s
BY DEF Chosen

LEMMA SumDefined ==
  ASSUME NEW f, NEW S
  PROVE  SumFunctionOnSet(f, S) = TheSums(f, S)[S]
BY DEF SumFunctionOnSet, FoldFunctionOnSet, MapThenFoldSet, TheSums, Adds, Added, Chosen

LEMMA LeastNatural ==
  ASSUME NEW B, B \subseteq Nat, B # {}
  PROVE  \E n \in B : \A m \in B : n <= m
<1> DEFINE R == {p \in Nat \X Nat : p[1] < p[2]}
<1>1. IsWellFoundedOn(R, Nat)
    BY NatLessThanWellFounded DEF OpToRel
<1>2. PICK n \in B : \A m \in B : <<m, n>> \notin R
    BY <1>1, WFMin
<1>3. ASSUME NEW m \in B
      PROVE  n <= m
  <2>1. m \in Nat /\ n \in Nat
      OBVIOUS
  <2>2. <<m, n>> \in R <=> m < n
      BY <2>1
  <2> QED
      BY <1>2, <2>1, <2>2
<1> QED
    BY <1>3

LEMMA Greatest ==
  ASSUME NEW n \in Nat, NEW s \in SUBSET (1 .. n), s # {}
  PROVE  Max(s) \in s /\ \A x \in s : x <= Max(s)
<1> DEFINE B == {m \in Nat : \E x \in s : m = n - x}
<1>1. B \subseteq Nat /\ B # {}
  <2>1. PICK x \in s : TRUE
      OBVIOUS
  <2>2. n - x \in Nat
      OBVIOUS
  <2> QED
      BY <2>1, <2>2
<1>2. PICK m \in B : \A k \in B : m <= k
    BY <1>1, LeastNatural
<1>3. PICK x \in s : m = n - x
    BY <1>2
<1>4. \A y \in s : x >= y
  <2> TAKE y \in s
  <2>1. n - y \in B
      OBVIOUS
  <2>2. m <= n - y
      BY <1>2, <2>1
  <2> QED
      BY <1>3, <2>2
<1>5. Max(s) \in s /\ \A y \in s : Max(s) >= y
    BY <1>4 DEF Max
<1> QED
    BY <1>5

LEMMA LeastSubset ==
  ASSUME NEW S, IsFiniteSet(S), NEW B, B \subseteq SUBSET S, B # {}
  PROVE  \E s \in B : \A t \in B : t \subseteq s => t = s
<1>1. IsWellFoundedOn(StrictSubsetOrdering(S), FiniteSubsetsOf(S))
    BY FS_StrictSubsetOrderingWellFounded
<1>2. FiniteSubsetsOf(S) = SUBSET S
    BY FS_FiniteSubsetsOfFinite
<1>3. PICK s \in B : \A t \in B : <<t, s>> \notin StrictSubsetOrdering(S)
    BY <1>1, <1>2, WFMin
<1>4. ASSUME NEW t \in B, t \subseteq s
      PROVE  t = s
    BY <1>3, <1>4 DEF StrictSubsetOrdering
<1> QED
    BY <1>4

\* The sets with at most n elements have sums, for every n.
LEMMA SumsExist ==
  ASSUME NEW f, NEW S, IsFiniteSet(S)
  PROVE  \E g : Adds(f, SUBSET S, g)
<1> DEFINE Small(n) == {s \in SUBSET S : Cardinality(s) <= n}
           Bad == {n \in Nat : ~\E g : Adds(f, Small(n), g)}
<1>1. \A s \in SUBSET S : IsFiniteSet(s) /\ Cardinality(s) \in Nat
    BY FS_Subset, FS_CardinalityType
<1>2. Bad = {}
  <2> SUFFICES ASSUME Bad # {}
               PROVE  FALSE
      OBVIOUS
  <2>1. PICK n \in Bad : \A m \in Bad : n <= m
      BY LeastNatural
  <2>2. CASE n = 0
    <3>1. \A s \in Small(0) : s = {}
        BY <1>1, FS_EmptySet
    <3>2. Adds(f, Small(0), [s \in Small(0) |-> 0])
        BY <3>1 DEF Adds, Added
    <3> QED
        BY <2>2, <3>2
  <2>3. CASE n # 0
    <3>1. n \in Nat /\ n - 1 \in Nat /\ ~(n <= n - 1)
        BY <2>3
    <3>2. PICK h : Adds(f, Small(n - 1), h)
        BY <2>1, <3>1
    <3> DEFINE g == [s \in Small(n) |-> Added(f, h, s)]
    <3>3. ASSUME NEW s \in Small(n)
          PROVE  Added(f, h, s) = Added(f, g, s)
      <4>1. CASE s = {}
          BY <4>1 DEF Added
      <4>2. CASE s # {}
        <5> DEFINE t == s \ {Chosen(s)}
        <5>1. Chosen(s) \in s
            BY <4>2, ChosenIn
        <5>2. Cardinality(t) = Cardinality(s) - 1
            BY <1>1, <5>1, FS_RemoveElement
        <5>3. t \in Small(n - 1) /\ t \in Small(n)
            BY <1>1, <3>1, <5>2
        <5>4. h[t] = Added(f, h, t)
            BY <3>2, <5>3 DEF Adds
        <5>5. g[t] = Added(f, h, t)
            BY <5>3
        <5> QED
            BY <5>4, <5>5 DEF Added
      <4> QED
          BY <4>1, <4>2
    <3>4. Adds(f, Small(n), g)
        BY <3>3 DEF Adds
    <3> QED
        BY <3>4
  <2> QED
      BY <2>2, <2>3
<1>3. Cardinality(S) \in Nat /\ Small(Cardinality(S)) = SUBSET S
    BY <1>1, FS_Subset
<1> QED
    BY <1>2, <1>3

LEMMA SumsAdd ==
  ASSUME NEW f, NEW S, IsFiniteSet(S)
  PROVE  Adds(f, SUBSET S, TheSums(f, S))
BY SumsExist DEF TheSums

\* And the sums do not depend on what else has sums.
LEMMA SumsAgree ==
  ASSUME NEW f, NEW S, IsFiniteSet(S), NEW T \in SUBSET S
  PROVE  SumFunctionOnSet(f, T) = TheSums(f, S)[T]
<1> DEFINE g == TheSums(f, S)
           h == TheSums(f, T)
           Bad == {s \in SUBSET T : g[s] # h[s]}
<1>1. IsFiniteSet(T)
    BY FS_Subset
<1>2. Adds(f, SUBSET S, g) /\ Adds(f, SUBSET T, h)
    BY <1>1, SumsAdd
<1> HIDE DEF g, h
<1>3. Bad = {}
  <2> SUFFICES ASSUME Bad # {}
               PROVE  FALSE
      OBVIOUS
  <2>0. Bad \subseteq SUBSET T
      OBVIOUS
  <2>1. PICK s \in Bad : \A t \in Bad : t \subseteq s => t = s
    <3> HIDE DEF Bad
    <3> QED
        BY <1>1, <2>0, LeastSubset
  <2>2. g[s] = Added(f, g, s) /\ h[s] = Added(f, h, s)
      BY <1>2 DEF Adds
  <2>3. s # {}
      BY <2>2 DEF Added
  <2>4. g[s \ {Chosen(s)}] = h[s \ {Chosen(s)}]
      BY <2>1, <2>3, ChosenIn
  <2> QED
      BY <2>2, <2>4 DEF Added
<1>4. g[T] = h[T]
    BY <1>3
<1> QED
    BY <1>4, SumDefined DEF g, h

LEMMA SumUnfolds ==
  ASSUME NEW f, NEW S, IsFiniteSet(S)
  PROVE  SumFunctionOnSet(f, S) =
           IF S = {} THEN 0
           ELSE f[Chosen(S)] + SumFunctionOnSet(f, S \ {Chosen(S)})
<1>1. TheSums(f, S)[S] = Added(f, TheSums(f, S), S)
  <2> DEFINE g == TheSums(f, S)
  <2>1. Adds(f, SUBSET S, g)
      BY SumsAdd
  <2> HIDE DEF g
  <2>2. g[S] = Added(f, g, S)
      BY <2>1 DEF Adds
  <2> QED
      BY <2>2 DEF g
<1>2. SumFunctionOnSet(f, S \ {Chosen(S)}) = TheSums(f, S)[S \ {Chosen(S)}]
    BY SumsAgree
<1> QED
    BY <1>1, <1>2, SumDefined DEF Added

-----------------------------------------------------------------------------
(* What is used of sums.                                                   *)

LEMMA SumOfNone == ASSUME NEW f PROVE SumFunctionOnSet(f, {}) = 0
BY SumUnfolds, FS_EmptySet

LEMMA SumIsInt ==
  ASSUME NEW f, NEW S, IsFiniteSet(S), \A x \in S : f[x] \in Int
  PROVE  SumFunctionOnSet(f, S) \in Int
<1> DEFINE Bad == {s \in SUBSET S : SumFunctionOnSet(f, s) \notin Int}
<1>1. Bad \subseteq SUBSET S
    OBVIOUS
<1>2. Bad = {}
  <2> SUFFICES ASSUME Bad # {}
               PROVE  FALSE
      OBVIOUS
  <2>1. PICK s \in Bad : \A t \in Bad : t \subseteq s => t = s
    <3> HIDE DEF Bad
    <3> QED
        BY <1>1, LeastSubset
  <2>2. s \in SUBSET S /\ IsFiniteSet(s) /\ SumFunctionOnSet(f, s) \notin Int
      BY FS_Subset
  <2>3. SumFunctionOnSet(f, s) =
          IF s = {} THEN 0 ELSE f[Chosen(s)] + SumFunctionOnSet(f, s \ {Chosen(s)})
      BY <2>2, SumUnfolds
  <2>4. s # {} /\ Chosen(s) \in s
      BY <2>2, <2>3, ChosenIn
  <2>5. SumFunctionOnSet(f, s \ {Chosen(s)}) \in Int
      BY <2>1, <2>4
  <2> QED
      BY <2>2, <2>3, <2>4, <2>5
<1> QED
    BY <1>2

\* Any argument may be the one whose value is added last.
LEMMA SumWithout ==
  ASSUME NEW f, NEW S, IsFiniteSet(S), \A x \in S : f[x] \in Int, NEW a \in S
  PROVE  SumFunctionOnSet(f, S) = f[a] + SumFunctionOnSet(f, S \ {a})
<1> DEFINE Sum(s) == SumFunctionOnSet(f, s)
           Bad == {s \in SUBSET S : \E b \in s : Sum(s) # f[b] + Sum(s \ {b})}
<1>1. \A s \in SUBSET S : IsFiniteSet(s) /\ Sum(s) \in Int
    BY FS_Subset, SumIsInt
<1>2. Bad \subseteq SUBSET S
    OBVIOUS
<1>3. Bad = {}
  <2> SUFFICES ASSUME Bad # {}
               PROVE  FALSE
      OBVIOUS
  <2>1. PICK s \in Bad : \A t \in Bad : t \subseteq s => t = s
    <3> HIDE DEF Bad
    <3> QED
        BY <1>2, LeastSubset
  <2>2. PICK b \in s : Sum(s) # f[b] + Sum(s \ {b})
      OBVIOUS
  <2> DEFINE c == Chosen(s)
             rest == (s \ {b}) \ {c}
  <2>3. s \in SUBSET S /\ IsFiniteSet(s) /\ c \in s
      BY <1>1, ChosenIn
  <2>4. Sum(s) = f[c] + Sum(s \ {c})
      BY <2>3, SumUnfolds
  <2>5. c # b
      BY <2>2, <2>4
  <2>6. \A t \in SUBSET S : \A x \in t : t \subseteq s /\ t # s => Sum(t) = f[x] + Sum(t \ {x})
      BY <2>1
  <2> HIDE DEF c, Sum, Bad
  <2>7. Sum(s \ {b}) = f[c] + Sum(rest)
      BY <2>2, <2>3, <2>5, <2>6
  <2>8. Sum(s \ {c}) = f[b] + Sum(rest)
    <3>1. (s \ {c}) \ {b} = rest
        OBVIOUS
    <3> QED
        BY <2>2, <2>3, <2>5, <2>6, <3>1
  <2>9. rest \in SUBSET S /\ s \ {b} \in SUBSET S /\ s \ {c} \in SUBSET S
      BY <2>3
  <2>10. /\ Sum(rest) \in Int /\ Sum(s \ {b}) \in Int /\ Sum(s \ {c}) \in Int
         /\ f[b] \in Int /\ f[c] \in Int
      BY <1>1, <2>2, <2>3, <2>9
  <2> QED
      BY <2>2, <2>4, <2>7, <2>8, <2>10
<1> QED
    BY <1>3

\* A sum is of what the function says on the set.
LEMMA SumOfSame ==
  ASSUME NEW f, NEW g, NEW S, IsFiniteSet(S), \A x \in S : f[x] = g[x]
  PROVE  SumFunctionOnSet(f, S) = SumFunctionOnSet(g, S)
<1> DEFINE Bad == {s \in SUBSET S : SumFunctionOnSet(f, s) # SumFunctionOnSet(g, s)}
<1>1. Bad \subseteq SUBSET S
    OBVIOUS
<1>2. Bad = {}
  <2> SUFFICES ASSUME Bad # {}
               PROVE  FALSE
      OBVIOUS
  <2>1. PICK s \in Bad : \A t \in Bad : t \subseteq s => t = s
    <3> HIDE DEF Bad
    <3> QED
        BY <1>1, LeastSubset
  <2>2. s \in SUBSET S /\ IsFiniteSet(s)
      BY FS_Subset
  <2>3. CASE s = {}
      BY <2>3, SumOfNone
  <2>4. CASE s # {}
    <3>1. Chosen(s) \in s
        BY <2>4, ChosenIn
    <3>2. /\ SumFunctionOnSet(f, s) = f[Chosen(s)] + SumFunctionOnSet(f, s \ {Chosen(s)})
          /\ SumFunctionOnSet(g, s) = g[Chosen(s)] + SumFunctionOnSet(g, s \ {Chosen(s)})
        BY <2>2, <2>4, SumUnfolds
    <3>3. SumFunctionOnSet(f, s \ {Chosen(s)}) = SumFunctionOnSet(g, s \ {Chosen(s)})
        BY <2>1, <3>1
    <3> QED
        BY <2>2, <3>1, <3>2, <3>3
  <2> QED
      BY <2>3, <2>4
<1> QED
    BY <1>2

LEMMA SumWith ==
  ASSUME NEW f, NEW S, IsFiniteSet(S), NEW a, a \notin S,
         \A x \in S \cup {a} : f[x] \in Int
  PROVE  SumFunctionOnSet(f, S \cup {a}) = f[a] + SumFunctionOnSet(f, S)
<1>1. IsFiniteSet(S \cup {a}) /\ (S \cup {a}) \ {a} = S
    BY FS_AddElement
<1> QED
    BY <1>1, SumWithout

\* One value is another.
LEMMA SumOfChanged ==
  ASSUME NEW f, NEW g, NEW S, IsFiniteSet(S), NEW a \in S,
         \A x \in S : f[x] \in Int, g[a] \in Int,
         \A x \in S \ {a} : g[x] = f[x]
  PROVE  SumFunctionOnSet(g, S) = SumFunctionOnSet(f, S) - f[a] + g[a]
<1>1. IsFiniteSet(S \ {a})
    BY FS_RemoveElement
<1>2. SumFunctionOnSet(g, S \ {a}) = SumFunctionOnSet(f, S \ {a})
    BY <1>1, SumOfSame
<1>3. /\ SumFunctionOnSet(f, S) = f[a] + SumFunctionOnSet(f, S \ {a})
      /\ SumFunctionOnSet(g, S) = g[a] + SumFunctionOnSet(g, S \ {a})
    BY SumWithout
<1>4. SumFunctionOnSet(f, S \ {a}) \in Int
    BY <1>1, SumIsInt
<1> QED
    BY <1>2, <1>3, <1>4

\* Larger values have a larger sum.
LEMMA SumOfMore ==
  ASSUME NEW f, NEW g, NEW S, IsFiniteSet(S),
         \A x \in S : f[x] \in Int /\ g[x] \in Int /\ f[x] <= g[x]
  PROVE  SumFunctionOnSet(f, S) <= SumFunctionOnSet(g, S)
<1> DEFINE Bad == {s \in SUBSET S : ~(SumFunctionOnSet(f, s) <= SumFunctionOnSet(g, s))}
<1>1. Bad \subseteq SUBSET S
    OBVIOUS
<1>2. Bad = {}
  <2> SUFFICES ASSUME Bad # {}
               PROVE  FALSE
      OBVIOUS
  <2>1. PICK s \in Bad : \A t \in Bad : t \subseteq s => t = s
    <3> HIDE DEF Bad
    <3> QED
        BY <1>1, LeastSubset
  <2>2. s \in SUBSET S /\ IsFiniteSet(s)
      BY FS_Subset
  <2>3. CASE s = {}
      BY <2>3, SumOfNone
  <2>4. CASE s # {}
    <3> DEFINE c == Chosen(s)
    <3>1. c \in s
        BY <2>4, ChosenIn
    <3>2. /\ SumFunctionOnSet(f, s) = f[c] + SumFunctionOnSet(f, s \ {c})
          /\ SumFunctionOnSet(g, s) = g[c] + SumFunctionOnSet(g, s \ {c})
        BY <2>2, <2>4, SumUnfolds
    <3>3. SumFunctionOnSet(f, s \ {c}) <= SumFunctionOnSet(g, s \ {c})
        BY <2>1, <3>1
    <3>4. /\ f[c] \in Int /\ g[c] \in Int /\ f[c] <= g[c]
          /\ SumFunctionOnSet(f, s \ {c}) \in Int
          /\ SumFunctionOnSet(g, s \ {c}) \in Int
      <4>1. c \in S /\ IsFiniteSet(s \ {c}) /\ s \ {c} \subseteq S
          BY <2>2, <3>1, FS_RemoveElement
      <4> HIDE DEF c
      <4> QED
          BY <4>1, SumIsInt
    <3> HIDE DEF c
    <3>5. SumFunctionOnSet(f, s) <= SumFunctionOnSet(g, s)
        BY <3>2, <3>3, <3>4
    <3> QED
        BY <3>5
  <2> QED
      BY <2>3, <2>4
<1> QED
    BY <1>2

LEMMA SumIsNat ==
  ASSUME NEW f, NEW S, IsFiniteSet(S), \A x \in S : f[x] \in Nat
  PROVE  SumFunctionOnSet(f, S) \in Nat
<1> DEFINE Bad == {s \in SUBSET S : SumFunctionOnSet(f, s) \notin Nat}
<1>1. Bad \subseteq SUBSET S
    OBVIOUS
<1>2. Bad = {}
  <2> SUFFICES ASSUME Bad # {}
               PROVE  FALSE
      OBVIOUS
  <2>1. PICK s \in Bad : \A t \in Bad : t \subseteq s => t = s
    <3> HIDE DEF Bad
    <3> QED
        BY <1>1, LeastSubset
  <2>2. s \in SUBSET S /\ IsFiniteSet(s) /\ SumFunctionOnSet(f, s) \notin Nat
      BY FS_Subset
  <2>3. SumFunctionOnSet(f, s) =
          IF s = {} THEN 0 ELSE f[Chosen(s)] + SumFunctionOnSet(f, s \ {Chosen(s)})
      BY <2>2, SumUnfolds
  <2>4. s # {} /\ Chosen(s) \in s
      BY <2>2, <2>3, ChosenIn
  <2>5. SumFunctionOnSet(f, s \ {Chosen(s)}) \in Nat
      BY <2>1, <2>4
  <2> QED
      BY <2>2, <2>3, <2>4, <2>5
<1> QED
    BY <1>2

LEMMA SumOfZeros ==
  ASSUME NEW f, NEW S, IsFiniteSet(S), \A x \in S : f[x] = 0
  PROVE  SumFunctionOnSet(f, S) = 0
<1> DEFINE Bad == {s \in SUBSET S : SumFunctionOnSet(f, s) # 0}
<1>1. Bad \subseteq SUBSET S
    OBVIOUS
<1>2. Bad = {}
  <2> SUFFICES ASSUME Bad # {}
               PROVE  FALSE
      OBVIOUS
  <2>1. PICK s \in Bad : \A t \in Bad : t \subseteq s => t = s
    <3> HIDE DEF Bad
    <3> QED
        BY <1>1, LeastSubset
  <2>2. s \in SUBSET S /\ IsFiniteSet(s) /\ SumFunctionOnSet(f, s) # 0
      BY FS_Subset
  <2>3. SumFunctionOnSet(f, s) =
          IF s = {} THEN 0 ELSE f[Chosen(s)] + SumFunctionOnSet(f, s \ {Chosen(s)})
      BY <2>2, SumUnfolds
  <2>4. s # {} /\ Chosen(s) \in s
      BY <2>2, <2>3, ChosenIn
  <2>5. SumFunctionOnSet(f, s \ {Chosen(s)}) = 0
      BY <2>1, <2>4
  <2> QED
      BY <2>2, <2>3, <2>4, <2>5
<1> QED
    BY <1>2

\* Fewer arguments have a smaller sum.
LEMMA SumOfPart ==
  ASSUME NEW f, NEW S, IsFiniteSet(S), \A x \in S : f[x] \in Nat, NEW T \in SUBSET S
  PROVE  SumFunctionOnSet(f, T) <= SumFunctionOnSet(f, S)
<1> DEFINE Bad == {s \in SUBSET S : T \subseteq s /\ ~(SumFunctionOnSet(f, T) <= SumFunctionOnSet(f, s))}
<1>1. Bad \subseteq SUBSET S
    OBVIOUS
<1>2. \A s \in SUBSET S : IsFiniteSet(s) /\ SumFunctionOnSet(f, s) \in Nat
    BY FS_Subset, SumIsNat
<1>3. Bad = {}
  <2> SUFFICES ASSUME Bad # {}
               PROVE  FALSE
      OBVIOUS
  <2>1. PICK s \in Bad : \A t \in Bad : t \subseteq s => t = s
    <3> HIDE DEF Bad
    <3> QED
        BY <1>1, LeastSubset
  <2>2. T # s
      BY <1>2
  <2>3. PICK a \in s : a \notin T
      BY <2>2
  <2>4. s \ {a} \in SUBSET S /\ T \subseteq s \ {a} /\ s \ {a} # s
      BY <2>3
  <2>5. SumFunctionOnSet(f, T) <= SumFunctionOnSet(f, s \ {a})
      BY <2>1, <2>4
  <2>6. SumFunctionOnSet(f, s) = f[a] + SumFunctionOnSet(f, s \ {a})
    <3>1. IsFiniteSet(s) /\ \A x \in s : f[x] \in Int
        BY <1>2
    <3> QED
        BY <3>1, SumWithout
  <2> QED
      BY <1>2, <2>4, <2>5, <2>6
<1> QED
    BY <1>3

\* Arguments with value zero do not count.
LEMMA SumOutside ==
  ASSUME NEW f, NEW S, IsFiniteSet(S), \A x \in S : f[x] \in Int,
         NEW T \in SUBSET S, \A x \in S \ T : f[x] = 0
  PROVE  SumFunctionOnSet(f, S) = SumFunctionOnSet(f, T)
<1> DEFINE Bad == {s \in SUBSET S : T \subseteq s /\ SumFunctionOnSet(f, s) # SumFunctionOnSet(f, T)}
<1>1. Bad \subseteq SUBSET S
    OBVIOUS
<1>2. \A s \in SUBSET S : IsFiniteSet(s) /\ SumFunctionOnSet(f, s) \in Int
    BY FS_Subset, SumIsInt
<1>3. Bad = {}
  <2> SUFFICES ASSUME Bad # {}
               PROVE  FALSE
      OBVIOUS
  <2>1. PICK s \in Bad : \A t \in Bad : t \subseteq s => t = s
    <3> HIDE DEF Bad
    <3> QED
        BY <1>1, LeastSubset
  <2>2. T # s
      OBVIOUS
  <2>3. PICK a \in s : a \notin T
      BY <2>2
  <2>4. s \ {a} \in SUBSET S /\ T \subseteq s \ {a} /\ s \ {a} # s
      BY <2>3
  <2>5. SumFunctionOnSet(f, s \ {a}) = SumFunctionOnSet(f, T)
      BY <2>1, <2>4
  <2>6. SumFunctionOnSet(f, s) = f[a] + SumFunctionOnSet(f, s \ {a})
    <3>1. IsFiniteSet(s) /\ \A x \in s : f[x] \in Int
        BY <1>2
    <3> QED
        BY <3>1, SumWithout
  <2>7. f[a] = 0
      BY <2>3
  <2> QED
      BY <1>2, <2>4, <2>5, <2>6, <2>7
<1> QED
    BY <1>3

\* The sum of sums.
LEMMA SumOfBoth ==
  ASSUME NEW f, NEW g, NEW h, NEW S, IsFiniteSet(S),
         \A x \in S : f[x] \in Int /\ g[x] \in Int /\ h[x] = f[x] + g[x]
  PROVE  SumFunctionOnSet(h, S) = SumFunctionOnSet(f, S) + SumFunctionOnSet(g, S)
<1> DEFINE Bad == {s \in SUBSET S :
                     SumFunctionOnSet(h, s) # SumFunctionOnSet(f, s) + SumFunctionOnSet(g, s)}
<1>1. Bad \subseteq SUBSET S
    OBVIOUS
<1>2. Bad = {}
  <2> SUFFICES ASSUME Bad # {}
               PROVE  FALSE
      OBVIOUS
  <2>1. PICK s \in Bad : \A t \in Bad : t \subseteq s => t = s
    <3> HIDE DEF Bad
    <3> QED
        BY <1>1, LeastSubset
  <2>2. s \in SUBSET S /\ IsFiniteSet(s)
      BY FS_Subset
  <2>3. CASE s = {}
      BY <2>3, SumOfNone
  <2>4. CASE s # {}
    <3> DEFINE c == Chosen(s)
    <3>1. c \in s
        BY <2>4, ChosenIn
    <3>2. /\ SumFunctionOnSet(f, s) = f[c] + SumFunctionOnSet(f, s \ {c})
          /\ SumFunctionOnSet(g, s) = g[c] + SumFunctionOnSet(g, s \ {c})
          /\ SumFunctionOnSet(h, s) = h[c] + SumFunctionOnSet(h, s \ {c})
        BY <2>2, <2>4, SumUnfolds
    <3>3. SumFunctionOnSet(h, s \ {c}) =
            SumFunctionOnSet(f, s \ {c}) + SumFunctionOnSet(g, s \ {c})
        BY <2>1, <3>1
    <3>4. /\ f[c] \in Int /\ g[c] \in Int /\ h[c] = f[c] + g[c]
          /\ SumFunctionOnSet(f, s \ {c}) \in Int
          /\ SumFunctionOnSet(g, s \ {c}) \in Int
      <4>1. c \in S /\ IsFiniteSet(s \ {c}) /\ s \ {c} \subseteq S
          BY <2>2, <3>1, FS_RemoveElement
      <4> HIDE DEF c
      <4> QED
          BY <4>1, SumIsInt
    <3> HIDE DEF c
    <3>5. SumFunctionOnSet(h, s) = SumFunctionOnSet(f, s) + SumFunctionOnSet(g, s)
        BY <3>2, <3>3, <3>4
    <3> QED
        BY <3>5
  <2> QED
      BY <2>3, <2>4
<1> QED
    BY <1>2

\* No value exceeds the sum.
LEMMA OneOfSum ==
  ASSUME NEW f, NEW S, IsFiniteSet(S), \A x \in S : f[x] \in Nat, NEW a \in S
  PROVE  f[a] <= SumFunctionOnSet(f, S)
<1>1. SumFunctionOnSet(f, S) = f[a] + SumFunctionOnSet(f, S \ {a})
    BY SumWithout
<1>2. SumFunctionOnSet(f, S \ {a}) \in Nat
  <2>1. IsFiniteSet(S \ {a})
      BY FS_RemoveElement
  <2> QED
      BY <2>1, SumIsNat
<1> QED
    BY <1>1, <1>2

\* Arguments of two kinds.
LEMMA SumOfDisjoint ==
  ASSUME NEW f, NEW S, IsFiniteSet(S), NEW T, IsFiniteSet(T), S \cap T = {},
         \A x \in S \cup T : f[x] \in Int
  PROVE  SumFunctionOnSet(f, S \cup T) = SumFunctionOnSet(f, S) + SumFunctionOnSet(f, T)
<1> DEFINE Bad == {s \in SUBSET T :
                     SumFunctionOnSet(f, S \cup s)
                       # SumFunctionOnSet(f, S) + SumFunctionOnSet(f, s)}
<1>1. Bad \subseteq SUBSET T
    OBVIOUS
<1>2. \A s \in SUBSET T : IsFiniteSet(s) /\ IsFiniteSet(S \cup s)
    BY FS_Subset, FS_Union
<1>3. \A s \in SUBSET T : SumFunctionOnSet(f, s) \in Int
    BY <1>2, SumIsInt
<1>4. SumFunctionOnSet(f, S) \in Int
    BY SumIsInt
<1>5. Bad = {}
  <2> SUFFICES ASSUME Bad # {}
               PROVE  FALSE
      OBVIOUS
  <2>1. PICK s \in Bad : \A t \in Bad : t \subseteq s => t = s
    <3> HIDE DEF Bad
    <3> QED
        BY <1>1, LeastSubset
  <2>2. CASE s = {}
    <3>1. S \cup s = S
        BY <2>2
    <3> QED
        BY <1>4, <2>2, <3>1, SumOfNone
  <2>3. CASE s # {}
    <3>1. PICK a \in s : TRUE
        BY <2>3
    <3> DEFINE t == s \ {a}
               all == S \cup s
    <3>2. /\ t \in SUBSET T /\ t # s /\ t \subseteq s /\ s \in SUBSET T
          /\ a \in all /\ all \ {a} = S \cup t
        OBVIOUS
    <3>3. SumFunctionOnSet(f, S \cup t)
            = SumFunctionOnSet(f, S) + SumFunctionOnSet(f, t)
        BY <2>1, <3>2
    <3>4. SumFunctionOnSet(f, s) = f[a] + SumFunctionOnSet(f, t)
        BY <1>2, <3>2, SumWithout
    <3>5. SumFunctionOnSet(f, all) = f[a] + SumFunctionOnSet(f, S \cup t)
      <4>1. IsFiniteSet(all) /\ \A x \in all : f[x] \in Int
          BY <1>2, <3>2
      <4>2. SumFunctionOnSet(f, all) = f[a] + SumFunctionOnSet(f, all \ {a})
        <5> HIDE DEF all, t
        <5> QED
            BY <3>2, <4>1, SumWithout
      <4> QED
          BY <3>2, <4>2
    <3>6. SumFunctionOnSet(f, t) \in Int /\ f[a] \in Int
        BY <1>3, <3>2
    <3>7. SumFunctionOnSet(f, all)
            # SumFunctionOnSet(f, S) + SumFunctionOnSet(f, s)
        BY <2>1
    <3> HIDE DEF t, all, Bad
    <3> QED
        BY <1>4, <3>3, <3>4, <3>5, <3>6, <3>7
  <2> QED
      BY <2>2, <2>3
<1>6. T \in SUBSET T /\ T \notin Bad
    BY <1>5
<1> QED
    BY <1>6

\* A single argument.
LEMMA SumOfOne ==
  ASSUME NEW f, NEW a, f[a] \in Int
  PROVE  SumFunctionOnSet(f, {a}) = f[a]
<1>1. IsFiniteSet({a}) /\ {a} \ {a} = {}
    BY FS_Singleton
<1>2. SumFunctionOnSet(f, {a}) = f[a] + SumFunctionOnSet(f, {a} \ {a})
    BY <1>1, SumWithout
<1> QED
    BY <1>1, <1>2, SumOfNone

-----------------------------------------------------------------------------
(* Votes as sums of the powers of the voters.                              *)

\* What the sum of f over V becomes when a, and nobody else, has another value
\* in g, and is left out or put in.
TermMoved(f, g, V, a) ==
  LET rest == SumFunctionOnSet(f, V) - (IF a \in V THEN f[a] ELSE 0)
  IN  /\ SumFunctionOnSet(f, V) \in Nat
      /\ SumFunctionOnSet(g, V \ {a}) = rest
      /\ SumFunctionOnSet(g, V \cup {a}) = rest + g[a]

LEMMA BallotMoves ==
  ASSUME NEW f, NEW g, NEW S, IsFiniteSet(S),
         \A x \in S : f[x] \in Nat, \A x \in S : g[x] \in Nat,
         NEW a \in S, \A x \in S : x # a => g[x] = f[x],
         NEW V \in SUBSET S
  PROVE  TermMoved(f, g, V, a)
<1> DEFINE R == V \ {a}
           m == SumFunctionOnSet(f, V)
<1>1. /\ R \in SUBSET S /\ a \notin R /\ IsFiniteSet(R) /\ R \cup {a} = V \cup {a}
      /\ IsFiniteSet(V)
    BY FS_Subset
<1>2. m \in Nat /\ SumFunctionOnSet(f, R) \in Nat
    BY <1>1, SumIsNat
<1>3. SumFunctionOnSet(f, R) = m - (IF a \in V THEN f[a] ELSE 0)
  <2>1. CASE a \in V
    <3>1. \A x \in V : f[x] \in Int
        OBVIOUS
    <3>2. m = f[a] + SumFunctionOnSet(f, R)
        BY <1>1, <2>1, <3>1, SumWithout
    <3> HIDE DEF m, R
    <3> QED
        BY <1>2, <2>1, <3>2
  <2>2. CASE a \notin V
    <3>1. R = V
        BY <2>2
    <3> HIDE DEF R
    <3> QED
        BY <1>2, <2>2, <3>1
  <2> QED
      BY <2>1, <2>2
<1> HIDE DEF R, m
<1>4. SumFunctionOnSet(f, R) = SumFunctionOnSet(g, R)
  <2>1. \A x \in R : f[x] = g[x]
      BY <1>1
  <2> QED
      BY <1>1, <2>1, SumOfSame
<1>5. SumFunctionOnSet(g, R \cup {a}) = SumFunctionOnSet(g, R) + g[a]
  <2>1. \A x \in R \cup {a} : g[x] \in Int
      BY <1>1
  <2>2. SumFunctionOnSet(g, R \cup {a}) = g[a] + SumFunctionOnSet(g, R)
      BY <1>1, <2>1, SumWith
  <2> QED
      BY <1>2, <1>4, <2>2
<1> QED
    BY <1>1, <1>2, <1>3, <1>4, <1>5 DEF TermMoved, R, m

\* What the ballots bs say for option o.
SaidFor(bs, o) == SumFunction([b \in bs |-> IF b.vote = o THEN b.power ELSE 0])

LEMMA NothingSaid == ASSUME NEW o PROVE SaidFor({}, o) = 0
<1>1. \A g : DOMAIN g = {} => SumFunction(g) = 0
    BY SumOfNone DEF SumFunction
<1> QED
    BY <1>1 DEF SaidFor

LEMMA OneSays ==
  ASSUME NEW b, b.power \in Nat, NEW o
  PROVE  SaidFor({b}, o) = IF b.vote = o THEN b.power ELSE 0
<1> DEFINE g == [c \in {b} |-> IF c.vote = o THEN c.power ELSE 0]
<1>1. g[b] = (IF b.vote = o THEN b.power ELSE 0) /\ DOMAIN g = {b} /\ g[b] \in Int
    OBVIOUS
<1> HIDE DEF g
<1>2. SumFunction(g) = g[b]
    BY <1>1, SumOfOne DEF SumFunction
<1> QED
    BY <1>1, <1>2 DEF SaidFor, g
=============================================================================
