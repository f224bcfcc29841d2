----------------------------- MODULE DataLemmas -----------------------------
(***************************************************************************)
(* Lemmas about the data of the services: least and largest numbers, sums  *)
(* over finite sets, sorting, counting by classes and rounding.            *)
(*                                                                         *)
(* The library's induction theorems take the predicate as an operator.     *)
(* Here it is a set G, for numbers (NumberInduction: a least counter-      *)
(* example is not 0, and its predecessor is in G) and for finite sets      *)
(* (SetInduction: a counterexample with the fewest elements).  A sum is    *)
(* the fold that takes the elements out in the order CHOOSE picks them;    *)
(* SumTakeOut shows that any element may be the first, and the rest of the *)
(* lemmas about sums follow from that by SetInduction.                     *)
(***************************************************************************)
EXTENDS Builtins, FiniteSetTheorems, WellFoundedInduction, TLAPS

-----------------------------------------------------------------------------
(* Induction over numbers and finite sets, with a set for the predicate *)

\* A set of numbers that is not empty has a least element.
LEMMA LeastElement ==
  ASSUME NEW S, S \subseteq Nat, S # {}
  PROVE  Min(S) \in S /\ \A y \in S : Min(S) <= y
<1>1. \E x \in S : \A y \in S : <<y, x>> \notin OpToRel(<, Nat)
  BY WFMin, NatLessThanWellFounded
<1>2. \A x, y \in S : y < x => <<y, x>> \in OpToRel(<, Nat)
  BY DEF OpToRel
<1>3. \A x, y \in S : ~(y < x) => x <= y
  OBVIOUS
<1>4. \E x \in S : \A y \in S : x <= y
  BY <1>1, <1>2, <1>3
<1> QED BY <1>4 DEF Min

\* What holds of 0 and of every next number holds of all: G is the set of those
\* of which it holds.
LEMMA NumberInduction ==
  ASSUME NEW G, 0 \in G, \A n \in Nat : n \in G => n + 1 \in G
  PROVE  Nat \subseteq G
<1> DEFINE B == Nat \ G
<1>1. SUFFICES ASSUME B # {} PROVE FALSE
  OBVIOUS
<1>2. Min(B) \in B /\ \A m \in B : Min(B) <= m
  <2>1. B \subseteq Nat
    OBVIOUS
  <2> HIDE DEF B
  <2> QED BY <1>1, <2>1, LeastElement
<1> DEFINE n == Min(B)
<1>3. n \in Nat /\ n \notin G /\ n # 0
  BY <1>2
<1> HIDE DEF n
<1>4. n - 1 \in Nat
  BY <1>3
<1>5. CASE n - 1 \in G
  <2>1. (n - 1) + 1 \in G
    BY <1>4, <1>5
  <2> QED BY <1>3, <2>1
<1>6. CASE n - 1 \notin G
  <2>1. n - 1 \in B
    BY <1>4, <1>6
  <2>2. n <= n - 1
    BY <1>2, <2>1 DEF n
  <2> QED BY <1>3, <2>2
<1> QED BY <1>5, <1>6

\* Of finite sets one has the fewest elements.
LEMMA SmallestSet ==
  ASSUME NEW B, B # {}, \A T \in B : IsFiniteSet(T)
  PROVE  \E T \in B : \A U \in B : Cardinality(T) <= Cardinality(U)
<1> DEFINE sizes == {Cardinality(T) : T \in B}
<1>1. sizes \subseteq Nat /\ sizes # {}
  BY FS_CardinalityType
<1>2. Min(sizes) \in sizes /\ \A n \in sizes : Min(sizes) <= n
  BY <1>1, LeastElement
<1>3. PICK T \in B : Cardinality(T) = Min(sizes)
  BY <1>2
<1> QED BY <1>2, <1>3

\* What holds of the empty set, and of a set if it holds without each element of
\* it, holds of a finite set: G is the set of the subsets of which it holds.
LEMMA SetInductionAll ==
  ASSUME NEW S, IsFiniteSet(S), NEW G, {} \in G,
         \A T \in SUBSET S : \A x \in T : (\A y \in T : T \ {y} \in G) => T \in G
  PROVE  S \in G
<1>1. SUFFICES ASSUME S \notin G PROVE FALSE
  OBVIOUS
<1> DEFINE B == {T \in SUBSET S : T \notin G}
<1>2. B # {} /\ \A T \in B : IsFiniteSet(T)
  BY <1>1, FS_Subset
<1>3. PICK T \in B : \A U \in B : Cardinality(T) <= Cardinality(U)
  BY <1>2, SmallestSet
<1>4. T # {}
  OBVIOUS
<1>5. PICK x \in T : TRUE
  BY <1>4
<1>6. PICK y \in T : T \ {y} \notin G
  BY <1>5
<1>7. T \ {y} \in B
  BY <1>6
<1>8. Cardinality(T \ {y}) = Cardinality(T) - 1 /\ Cardinality(T) \in Nat
  BY <1>2, <1>6, FS_RemoveElement, FS_CardinalityType
<1> QED BY <1>3, <1>7, <1>8

\* The same, when it is enough that it holds without some element.
LEMMA SetInduction ==
  ASSUME NEW S, IsFiniteSet(S), NEW G, {} \in G,
         \A T \in SUBSET S : \A x \in T : T \ {x} \in G => T \in G
  PROVE  S \in G
BY SetInductionAll

\* A finite set of integers has a least and a largest element.
LEMMA Extremes ==
  ASSUME NEW S, IsFiniteSet(S), S \subseteq Int, S # {}
  PROVE  /\ Max(S) \in S /\ \A y \in S : y <= Max(S)
         /\ Min(S) \in S /\ \A y \in S : Min(S) <= y
<1> DEFINE G == {T \in SUBSET S : T # {} => (\E x \in T : \A y \in T : y <= x) /\ (\E x \in T : \A y \in T : x <= y)}
<1>1. ASSUME NEW T \in SUBSET S, NEW x \in T, T \ {x} \in G PROVE T \in G
  <2>1. CASE T \ {x} = {}
    <3>1. T = {x}
      BY <2>1
    <3> QED BY <3>1
  <2>2. CASE T \ {x} # {}
    <3>1. PICK hi \in T \ {x} : \A y \in T \ {x} : y <= hi
      BY <1>1, <2>2
    <3>2. PICK lo \in T \ {x} : \A y \in T \ {x} : lo <= y
      BY <1>1, <2>2
    <3>3. \E m \in T : \A y \in T : y <= m
      <4>1. CASE x <= hi
        BY <3>1, <4>1
      <4>2. CASE ~(x <= hi)
        BY <3>1, <4>2
      <4> QED BY <4>1, <4>2
    <3>4. \E m \in T : \A y \in T : m <= y
      <4>1. CASE lo <= x
        BY <3>2, <4>1
      <4>2. CASE ~(lo <= x)
        BY <3>2, <4>2
      <4> QED BY <4>1, <4>2
    <3> QED BY <3>3, <3>4
  <2> QED BY <2>1, <2>2
<1>2. S \in G
  <2>1. {} \in G
    OBVIOUS
  <2>2. \A T \in SUBSET S : \A x \in T : T \ {x} \in G => T \in G
    BY <1>1
  <2> HIDE DEF G
  <2> QED BY <2>1, <2>2, SetInduction
<1>3. (\E x \in S : \A y \in S : x >= y) /\ (\E x \in S : \A y \in S : x <= y)
  BY <1>2
<1> QED BY <1>3 DEF Max, Min

\* An element below, or above, all others is the least, or the largest.
LEMMA ExtremeIs ==
  ASSUME NEW S, S \subseteq Int, NEW x \in S
  PROVE  /\ (\A y \in S : x <= y) => Min(S) = x
         /\ (\A y \in S : y <= x) => Max(S) = x
<1>1. ASSUME \A y \in S : x <= y PROVE Min(S) = x
  <2>1. Min(S) \in S /\ \A y \in S : Min(S) <= y
    BY <1>1 DEF Min
  <2>2. Min(S) <= x /\ x <= Min(S) /\ Min(S) \in Int /\ x \in Int
    BY <1>1, <2>1
  <2> QED BY <2>2
<1>2. ASSUME \A y \in S : y <= x PROVE Max(S) = x
  <2>1. Max(S) \in S /\ \A y \in S : y <= Max(S)
    BY <1>2 DEF Max
  <2>2. Max(S) <= x /\ x <= Max(S) /\ Max(S) \in Int /\ x \in Int
    BY <1>2, <2>1
  <2> QED BY <2>2
<1> QED BY <1>1, <1>2


\* The larger and the smaller of two numbers.
LEMMA OfTwo ==
  ASSUME NEW a \in Int, NEW b \in Int
  PROVE  /\ Max({a, b}) = IF a >= b THEN a ELSE b
         /\ Min({a, b}) = IF a <= b THEN a ELSE b
<1>1. {a, b} \subseteq Int /\ {a, b} # {} /\ IsFiniteSet({a, b})
  <2>1. IsFiniteSet({a} \cup {b})
    BY FS_Singleton, FS_Union
  <2> QED BY <2>1
<1>2. /\ Max({a, b}) \in {a, b} /\ \A y \in {a, b} : y <= Max({a, b})
      /\ Min({a, b}) \in {a, b} /\ \A y \in {a, b} : Min({a, b}) <= y
  BY <1>1, Extremes
<1> QED BY <1>2

\* What a function with finitely many arguments gives.
LEMMA RangeFinite ==
  ASSUME NEW f, IsFiniteSet(DOMAIN f)
  PROVE  IsFiniteSet(Range(f)) /\ Cardinality(Range(f)) <= Cardinality(DOMAIN f)
<1> DEFINE g == [x \in DOMAIN f |-> f[x]]
<1>1. g \in [DOMAIN f -> Range(f)] /\ \A y \in Range(f) : \E x \in DOMAIN f : g[x] = y
  BY DEF Range
<1>2. g \in Surjection(DOMAIN f, Range(f))
  BY <1>1 DEF Surjection
<1> QED BY <1>2, FS_Surjection

\* Sets that have nothing in common.
LEMMA ApartUnion ==
  ASSUME NEW S, NEW T, IsFiniteSet(S), IsFiniteSet(T), S \cap T = {}
  PROVE  IsFiniteSet(S \cup T) /\ Cardinality(S \cup T) = Cardinality(S) + Cardinality(T)
<1>1. Cardinality(S \cap T) = 0
  BY FS_EmptySet
<1>2. IsFiniteSet(S \cup T) /\ Cardinality(S \cup T) = Cardinality(S) + Cardinality(T) - Cardinality(S \cap T)
  BY FS_Union
<1>3. Cardinality(S) \in Nat /\ Cardinality(T) \in Nat
  BY FS_CardinalityType
<1> QED BY <1>1, <1>2, <1>3

-----------------------------------------------------------------------------
(* Sums: the fold that takes any element out first *)

\* The sum of f over s, if g has the sums over the subsets of s.
SumStep(f, g, s) ==
  IF s = {} THEN 0 ELSE f[CHOOSE x \in s : TRUE] + g[s \ {CHOOSE x \in s : TRUE}]

SumOver(f, S) == LET iter[s \in SUBSET S] == SumStep(f, iter, s) IN iter[S]

\* FoldFunction(+, 0, f), by its definition.
LEMMA FoldIsSum ==
  ASSUME NEW f
  PROVE  FoldFunction(+, 0, f) = SumOver(f, DOMAIN f)
BY DEF FoldFunction, FoldFunctionOnSet, MapThenFoldSet, SumOver, SumStep

\* There is a function as the recursion asks for.
LEMMA SumsExist ==
  ASSUME NEW f, NEW S, IsFiniteSet(S)
  PROVE  \E g : g = [s \in SUBSET S |-> SumStep(f, g, s)]
<1> DEFINE D(n) == {s \in SUBSET S : Cardinality(s) <= n}
           Step(g, s) == SumStep(f, g, s)
           bad == {n \in Nat : ~ \E g : g = [s \in D(n) |-> Step(g, s)]}
<1>1. \A s \in SUBSET S : IsFiniteSet(s) /\ Cardinality(s) \in Nat /\ Cardinality(s) <= Cardinality(S)
  BY FS_Subset, FS_CardinalityType
<1>2. \A s \in SUBSET S : s # {} => s \ {CHOOSE x \in s : TRUE} \in SUBSET S
                              /\ Cardinality(s \ {CHOOSE x \in s : TRUE}) = Cardinality(s) - 1
  BY <1>1, FS_RemoveElement
<1>3. 0 \notin bad
  <2>1. D(0) = {{}}
    BY <1>1, FS_EmptySet
  <2>2. [s \in D(0) |-> 0] = [s \in D(0) |-> Step([t \in D(0) |-> 0], s)]
    BY <2>1 DEF SumStep
  <2> QED BY <2>2
<1>4. ASSUME NEW n \in Nat, n \notin bad PROVE n + 1 \notin bad
  <2>1. PICK g : g = [s \in D(n) |-> Step(g, s)]
    BY <1>4
  <2> DEFINE h == [s \in D(n + 1) |-> Step(g, s)]
  <2>2. \A s \in D(n) : s \in D(n + 1) /\ h[s] = g[s]
    <3>1. \A s \in D(n) : s \in D(n + 1)
      BY <1>1
    <3>2. \A s \in D(n) : g[s] = Step(g, s)
      BY <2>1
    <3> QED BY <3>1, <3>2
  <2>3. \A s \in D(n + 1) : s # {} => s \ {CHOOSE x \in s : TRUE} \in D(n)
    BY <1>1, <1>2
  <2>4. ASSUME NEW s \in D(n + 1) PROVE SumStep(f, g, s) = SumStep(f, h, s)
    <3>1. CASE s = {}
      BY <3>1 DEF SumStep
    <3>2. CASE s # {}
      <4>1. g[s \ {CHOOSE x \in s : TRUE}] = h[s \ {CHOOSE x \in s : TRUE}]
        BY <2>2, <2>3, <3>2
      <4> HIDE DEF h
      <4> QED BY <3>2, <4>1 DEF SumStep
    <3> QED BY <3>1, <3>2
  <2>5. h = [s \in D(n + 1) |-> Step(h, s)]
    BY <2>4
  <2> QED BY <2>5
<1>5. Nat \subseteq Nat \ bad
  <2>1. \A n \in Nat : n \in Nat \ bad => n + 1 \in Nat \ bad
    <3> HIDE DEF bad
    <3> QED BY <1>4
  <2>2. 0 \in Nat \ bad
    BY <1>3
  <2> HIDE DEF bad
  <2> QED BY <2>1, <2>2, NumberInduction
<1>6. Cardinality(S) \in Nat /\ D(Cardinality(S)) = SUBSET S
  BY <1>1
<1>7. PICK g : g = [s \in D(Cardinality(S)) |-> Step(g, s)]
  BY <1>5, <1>6
<1> QED BY <1>6, <1>7

\* The function is the same for a set and its subsets.
LEMMA SumRecursion ==
  ASSUME NEW f, NEW S, IsFiniteSet(S)
  PROVE  SumOver(f, S) = IF S = {} THEN 0
                         ELSE f[CHOOSE x \in S : TRUE] + SumOver(f, S \ {CHOOSE x \in S : TRUE})
<1> DEFINE Sums(T) == CHOOSE g : g = [s \in SUBSET T |-> SumStep(f, g, s)]
<1>1. \A T : SumOver(f, T) = Sums(T)[T]
  BY DEF SumOver
<1>2. ASSUME NEW T, IsFiniteSet(T)
      PROVE  \A s \in SUBSET T : Sums(T)[s] = IF s = {} THEN 0
                 ELSE f[CHOOSE x \in s : TRUE] + Sums(T)[s \ {CHOOSE x \in s : TRUE}]
  <2>1. \E g : g = [s \in SUBSET T |-> SumStep(f, g, s)]
    BY <1>2, SumsExist
  <2>2. Sums(T) = [s \in SUBSET T |-> SumStep(f, Sums(T), s)]
    BY <2>1
  <2> HIDE DEF Sums
  <2> QED BY <2>2 DEF SumStep
<1> HIDE DEF Sums
<1>3. CASE S = {}
  BY <1>1, <1>2, <1>3
<1>4. CASE S # {}
  <2> DEFINE c == CHOOSE x \in S : TRUE
             R == S \ {c}
             G == {s \in SUBSET R : Sums(R)[s] = Sums(S)[s]}
  <2>1. IsFiniteSet(R) /\ R \subseteq S
    BY FS_RemoveElement
  <2>2. {} \in G
    BY <1>2, <2>1
  <2>3. ASSUME NEW T \in SUBSET R, T # {}, T \ {CHOOSE x \in T : TRUE} \in G PROVE T \in G
    <3>1. Sums(R)[T] = f[CHOOSE x \in T : TRUE] + Sums(R)[T \ {CHOOSE x \in T : TRUE}]
      BY <1>2, <2>1, <2>3
    <3>2. Sums(S)[T] = f[CHOOSE x \in T : TRUE] + Sums(S)[T \ {CHOOSE x \in T : TRUE}]
      BY <1>2, <2>1, <2>3
    <3> QED BY <2>3, <3>1, <3>2
  <2>4. \A T \in SUBSET R : \A x \in T : (\A y \in T : T \ {y} \in G) => T \in G
    <3> HIDE DEF G
    <3> QED BY <2>3
  <2>5. R \in G
    <3> HIDE DEF G, R
    <3> QED BY <2>1, <2>2, <2>4, SetInductionAll
  <2>6. SumOver(f, S) = f[c] + Sums(S)[R]
    BY <1>1, <1>2, <1>4
  <2> QED BY <1>1, <1>4, <2>5, <2>6
<1> QED BY <1>3, <1>4

\* Any element may be taken out first.
LEMMA SumTakeOut ==
  ASSUME NEW f, NEW S, IsFiniteSet(S), \A x \in S : f[x] \in Int
  PROVE  /\ SumOver(f, {}) = 0
         /\ SumOver(f, S) \in Int
         /\ \A x \in S : SumOver(f, S) = f[x] + SumOver(f, S \ {x})
<1> DEFINE Sum(T) == SumOver(f, T)
           c(T) == CHOOSE x \in T : TRUE
<1>1. \A T \in SUBSET S : T # {} => c(T) \in T /\ Sum(T) = f[c(T)] + Sum(T \ {c(T)})
  BY FS_Subset, SumRecursion
<1>2. Sum({}) = 0
  BY FS_EmptySet, SumRecursion
<1> HIDE DEF Sum, c
<1> DEFINE Whole == {T \in SUBSET S : Sum(T) \in Int}
           G == {T \in SUBSET S : \A x \in T : Sum(T) = f[x] + Sum(T \ {x})}
<1>3. ASSUME NEW T \in SUBSET S, T # {}, T \ {c(T)} \in Whole PROVE T \in Whole
  BY <1>1, <1>3
<1>4. \A T \in SUBSET S : T \in Whole
  <2>1. SUFFICES ASSUME NEW T \in SUBSET S PROVE T \in Whole
    OBVIOUS
  <2>2. IsFiniteSet(T)
    BY FS_Subset
  <2>3. {} \in Whole
    BY <1>2
  <2>4. \A U \in SUBSET T : \A x \in U : (\A y \in U : U \ {y} \in Whole) => U \in Whole
    <3> HIDE DEF Whole
    <3> QED BY <1>1, <1>3
  <2> HIDE DEF Whole
  <2> QED BY <2>2, <2>3, <2>4, SetInductionAll
<1>5. ASSUME NEW T \in SUBSET S, T # {}, \A y \in T : T \ {y} \in G PROVE T \in G
  <2>1. SUFFICES ASSUME NEW x \in T PROVE Sum(T) = f[x] + Sum(T \ {x})
    OBVIOUS
  <2> DEFINE y == c(T)
  <2>2. y \in T /\ Sum(T) = f[y] + Sum(T \ {y})
    BY <1>1, <1>5
  <2> HIDE DEF y
  <2>3. CASE x = y
    BY <2>2, <2>3
  <2>4. CASE x # y
    <3>1. Sum(T \ {y}) = f[x] + Sum((T \ {y}) \ {x})
      BY <1>5, <2>2, <2>4
    <3>2. Sum(T \ {x}) = f[y] + Sum((T \ {x}) \ {y})
      BY <1>5, <2>2, <2>4
    <3>3. (T \ {y}) \ {x} = (T \ {x}) \ {y}
      OBVIOUS
    <3> DEFINE rest == Sum((T \ {x}) \ {y})
    <3>4. rest \in Int /\ f[x] \in Int /\ f[y] \in Int
      BY <1>4, <2>2
    <3>5. Sum(T) = f[y] + (f[x] + rest) /\ Sum(T \ {x}) = f[y] + rest
      BY <2>2, <3>1, <3>2, <3>3
    <3> HIDE DEF rest
    <3>6. f[y] + (f[x] + rest) = f[x] + (f[y] + rest)
      BY <3>4
    <3> QED BY <3>5, <3>6
  <2> QED BY <2>3, <2>4
<1>6. S \in G
  <2>1. {} \in G
    OBVIOUS
  <2>2. \A U \in SUBSET S : \A x \in U : (\A y \in U : U \ {y} \in G) => U \in G
    <3> HIDE DEF G
    <3> QED BY <1>5
  <2> HIDE DEF G
  <2> QED BY <2>1, <2>2, SetInductionAll
<1> QED BY <1>2, <1>4, <1>6 DEF Sum

\* The same of every subset.
LEMMA SumSteps ==
  ASSUME NEW f, NEW S, IsFiniteSet(S), \A x \in S : f[x] \in Int
  PROVE  /\ SumOver(f, {}) = 0
         /\ \A T \in SUBSET S : /\ SumOver(f, T) \in Int
                                /\ \A x \in T : SumOver(f, T) = f[x] + SumOver(f, T \ {x})
<1>1. ASSUME NEW T \in SUBSET S
      PROVE  /\ SumOver(f, T) \in Int
             /\ \A x \in T : SumOver(f, T) = f[x] + SumOver(f, T \ {x})
  <2>1. IsFiniteSet(T) /\ \A x \in T : f[x] \in Int
    BY FS_Subset
  <2> QED BY <2>1, SumTakeOut
<1>2. SumOver(f, {}) = 0
  BY SumTakeOut
<1> QED BY <1>1, <1>2

\* Larger numbers have a larger sum.
LEMMA SumCompare ==
  ASSUME NEW f, NEW g, NEW S, IsFiniteSet(S),
         \A x \in S : f[x] \in Int /\ g[x] \in Int /\ f[x] <= g[x]
  PROVE  SumOver(f, S) <= SumOver(g, S)
<1> DEFINE G == {T \in SUBSET S : SumOver(f, T) <= SumOver(g, T)}
<1>1. \A T \in SUBSET S : /\ SumOver(f, T) \in Int /\ SumOver(g, T) \in Int
                          /\ \A x \in T : /\ SumOver(f, T) = f[x] + SumOver(f, T \ {x})
                                          /\ SumOver(g, T) = g[x] + SumOver(g, T \ {x})
  BY SumSteps
<1>2. {} \in G
  <2>1. (\A x \in S : f[x] \in Int) /\ (\A x \in S : g[x] \in Int)
    OBVIOUS
  <2>2. SumOver(f, {}) = 0 /\ SumOver(g, {}) = 0
    BY <2>1, SumSteps
  <2> QED BY <2>2
<1>3. \A T \in SUBSET S : \A x \in T : T \ {x} \in G => T \in G
  <2>1. SUFFICES ASSUME NEW T \in SUBSET S, NEW x \in T, T \ {x} \in G PROVE T \in G
    OBVIOUS
  <2>2. SumOver(f, T \ {x}) <= SumOver(g, T \ {x}) /\ SumOver(f, T \ {x}) \in Int /\ SumOver(g, T \ {x}) \in Int
    BY <1>1, <2>1
  <2> QED BY <1>1, <2>2
<1> HIDE DEF G
<1>4. S \in G
  BY <1>2, <1>3, SetInduction
<1> QED BY <1>4 DEF G

\* Equal numbers have an equal sum.
LEMMA SumEqual ==
  ASSUME NEW f, NEW g, NEW S, IsFiniteSet(S), \A x \in S : f[x] \in Int /\ f[x] = g[x]
  PROVE  SumOver(f, S) = SumOver(g, S)
<1>1. SumOver(f, S) <= SumOver(g, S)
  BY SumCompare
<1>2. SumOver(g, S) <= SumOver(f, S)
  BY SumCompare
<1>3. SumOver(f, S) \in Int /\ SumOver(g, S) \in Int
  BY SumTakeOut
<1> QED BY <1>1, <1>2, <1>3

\* The sum lies between the number of its parts times the smallest and the largest.
LEMMA SumBounds ==
  ASSUME NEW f, NEW S, IsFiniteSet(S), NEW lo \in Int, NEW hi \in Int,
         \A x \in S : f[x] \in Int /\ lo <= f[x] /\ f[x] <= hi
  PROVE  /\ Cardinality(S) * lo <= SumOver(f, S)
         /\ SumOver(f, S) <= Cardinality(S) * hi
<1> DEFINE G == {T \in SUBSET S : /\ Cardinality(T) * lo <= SumOver(f, T)
                                  /\ SumOver(f, T) <= Cardinality(T) * hi}
<1>1. \A T \in SUBSET S : /\ SumOver(f, T) \in Int
                          /\ \A x \in T : SumOver(f, T) = f[x] + SumOver(f, T \ {x})
  BY SumSteps
<1>2. {} \in G
  <2>1. SumOver(f, {}) = 0 /\ Cardinality({}) = 0
    BY SumSteps, FS_EmptySet
  <2> QED BY <2>1
<1>3. \A T \in SUBSET S : \A x \in T : T \ {x} \in G => T \in G
  <2>1. SUFFICES ASSUME NEW T \in SUBSET S, NEW x \in T, T \ {x} \in G PROVE T \in G
    OBVIOUS
  <2> DEFINE n == Cardinality(T \ {x})
             r == SumOver(f, T \ {x})
  <2>2. Cardinality(T) = n + 1 /\ n \in Nat
    <3>1. IsFiniteSet(T) /\ x \in T
      BY FS_Subset
    <3>2. IsFiniteSet(T \ {x}) /\ Cardinality(T \ {x}) = Cardinality(T) - 1
      BY ONLY <3>1, FS_RemoveElement
    <3>3. Cardinality(T) \in Nat /\ n \in Nat
      BY ONLY <3>1, <3>2, FS_CardinalityType
    <3> QED BY <3>2, <3>3
  <2>3. SumOver(f, T) = f[x] + r /\ r \in Int /\ n * lo <= r /\ r <= n * hi
    BY <1>1, <2>1
  <2>4. f[x] \in Int /\ lo <= f[x] /\ f[x] <= hi
    OBVIOUS
  <2> HIDE DEF n, r
  <2>5. (n + 1) * lo = n * lo + lo /\ (n + 1) * hi = n * hi + hi
    BY <2>2
  <2> QED BY <2>2, <2>3, <2>4, <2>5
<1> HIDE DEF G
<1>4. S \in G
  BY <1>2, <1>3, SetInduction
<1> QED BY <1>4 DEF G

\* A sum of numbers that are not negative is not negative.
LEMMA SumNat ==
  ASSUME NEW f, NEW S, IsFiniteSet(S), \A x \in S : f[x] \in Nat
  PROVE  SumOver(f, S) \in Nat
<1> DEFINE zero == [x \in S |-> 0]
<1>1. \A x \in S : zero[x] \in Int /\ f[x] \in Int /\ zero[x] <= f[x]
  OBVIOUS
<1>2. SumOver(zero, S) <= SumOver(f, S)
  <2> HIDE DEF zero
  <2> QED BY <1>1, SumCompare
<1>3. SumOver(zero, S) = 0
  <2>1. \A x \in S : zero[x] \in Int /\ 0 <= zero[x] /\ zero[x] <= 0
    OBVIOUS
  <2> HIDE DEF zero
  <2>2. Cardinality(S) * 0 <= SumOver(zero, S) /\ SumOver(zero, S) <= Cardinality(S) * 0
    BY <2>1, SumBounds
  <2>3. Cardinality(S) \in Nat /\ SumOver(zero, S) \in Int
    BY <2>1, FS_CardinalityType, SumTakeOut
  <2> QED BY <2>2, <2>3
<1>4. SumOver(f, S) \in Int
  BY <1>1, SumTakeOut
<1> QED BY <1>2, <1>3, <1>4

\* Sums of sums.
LEMMA SumPlus ==
  ASSUME NEW f, NEW g, NEW h, NEW S, IsFiniteSet(S),
         \A x \in S : f[x] \in Int /\ g[x] \in Int /\ h[x] = f[x] + g[x]
  PROVE  SumOver(h, S) = SumOver(f, S) + SumOver(g, S)
<1> DEFINE G == {T \in SUBSET S : SumOver(h, T) = SumOver(f, T) + SumOver(g, T)}
<1>0. /\ \A x \in S : f[x] \in Int
      /\ \A x \in S : g[x] \in Int
      /\ \A x \in S : h[x] \in Int
  OBVIOUS
<1>1. \A T \in SUBSET S : /\ SumOver(f, T) \in Int /\ SumOver(g, T) \in Int
                          /\ \A x \in T : /\ SumOver(f, T) = f[x] + SumOver(f, T \ {x})
                                          /\ SumOver(g, T) = g[x] + SumOver(g, T \ {x})
  BY <1>0, SumSteps
<1>2. /\ SumOver(h, {}) = 0
      /\ \A T \in SUBSET S : /\ SumOver(h, T) \in Int
                             /\ \A x \in T : SumOver(h, T) = h[x] + SumOver(h, T \ {x})
  <2> HIDE DEF G
  <2>1. \A x \in S : h[x] \in Int
    BY <1>0
  <2>2. IsFiniteSet(S)
    OBVIOUS
  <2> QED BY ONLY <2>1, <2>2, SumSteps
<1>3. {} \in G
  <2>1. SumOver(h, {}) = 0 /\ SumOver(f, {}) = 0 /\ SumOver(g, {}) = 0
    BY <1>0, SumSteps
  <2> QED BY <2>1
<1>4. \A T \in SUBSET S : \A x \in T : T \ {x} \in G => T \in G
  <2>1. SUFFICES ASSUME NEW T \in SUBSET S, NEW x \in T, T \ {x} \in G PROVE T \in G
    OBVIOUS
  <2> DEFINE a == SumOver(f, T \ {x})
             b == SumOver(g, T \ {x})
  <2>2. SumOver(h, T) = (f[x] + g[x]) + (a + b) /\ a \in Int /\ b \in Int
    BY <1>1, <1>2, <2>1
  <2>3. SumOver(f, T) = f[x] + a /\ SumOver(g, T) = g[x] + b
    BY <1>1
  <2> HIDE DEF a, b
  <2>4. (f[x] + g[x]) + (a + b) = (f[x] + a) + (g[x] + b)
    BY <2>2
  <2> QED BY <2>2, <2>3, <2>4
<1> HIDE DEF G
<1>5. S \in G
  BY <1>3, <1>4, SetInduction
<1> QED BY <1>5 DEF G

\* The sum over two sets without a common element.
LEMMA SumSplit ==
  ASSUME NEW f, NEW A, NEW B, IsFiniteSet(A), IsFiniteSet(B), A \cap B = {},
         \A x \in A \cup B : f[x] \in Int
  PROVE  SumOver(f, A \cup B) = SumOver(f, A) + SumOver(f, B)
<1> DEFINE G == {T \in SUBSET A : SumOver(f, T \cup B) = SumOver(f, T) + SumOver(f, B)}
<1>1. IsFiniteSet(A \cup B)
  BY FS_Union
<1>2. SumOver(f, {}) = 0
      /\ \A T \in SUBSET (A \cup B) : /\ SumOver(f, T) \in Int
                                      /\ \A x \in T : SumOver(f, T) = f[x] + SumOver(f, T \ {x})
  BY <1>1, SumSteps
<1>3. {} \in G
  <2>1. {} \cup B = B /\ SumOver(f, B) \in Int
    BY <1>2
  <2> QED BY <1>2, <2>1
<1>4. \A T \in SUBSET A : \A x \in T : T \ {x} \in G => T \in G
  <2>1. SUFFICES ASSUME NEW T \in SUBSET A, NEW x \in T, T \ {x} \in G PROVE T \in G
    OBVIOUS
  <2> DEFINE a == SumOver(f, T \ {x})
             b == SumOver(f, B)
  <2>2. (T \cup B) \ {x} = (T \ {x}) \cup B
    OBVIOUS
  <2>3. SumOver(f, T \cup B) = f[x] + (a + b)
    <3>1. T \cup B \in SUBSET (A \cup B) /\ x \in T \cup B
      OBVIOUS
    <3> QED BY <1>2, <2>1, <2>2, <3>1
  <2>4. SumOver(f, T) = f[x] + a /\ a \in Int /\ b \in Int /\ f[x] \in Int
    <3>1. T \in SUBSET (A \cup B) /\ T \ {x} \in SUBSET (A \cup B) /\ B \in SUBSET (A \cup B)
      OBVIOUS
    <3> QED BY <1>2, <3>1
  <2> HIDE DEF a, b
  <2>5. f[x] + (a + b) = (f[x] + a) + b
    BY <2>4
  <2>6. SumOver(f, T \cup B) = SumOver(f, T) + b
    BY <2>3, <2>4, <2>5
  <2> QED BY <2>6 DEF b
<1> HIDE DEF G
<1>5. A \in G
  BY <1>3, <1>4, SetInduction
<1> QED BY <1>5 DEF G

\* If every element of S is in one class, the sizes of the classes add up to the
\* size of S.
LEMMA SumOfClasses ==
  ASSUME NEW S, IsFiniteSet(S), NEW K, IsFiniteSet(K), NEW class \in [S -> K], NEW size,
         \A k \in K : size[k] = Cardinality({x \in S : class[x] = k})
  PROVE  SumOver(size, K) = Cardinality(S)
<1> DEFINE In(T) == {x \in S : class[x] \in T}
           G == {T \in SUBSET K : SumOver(size, T) = Cardinality(In(T))}
<1>1. \A T : IsFiniteSet(In(T)) /\ Cardinality(In(T)) \in Nat
  BY FS_Subset, FS_CardinalityType
<1>2. \A k \in K : size[k] \in Nat
  <2>1. SUFFICES ASSUME NEW k \in K PROVE size[k] \in Nat
    OBVIOUS
  <2>2. IsFiniteSet({x \in S : class[x] = k})
    BY FS_Subset
  <2> QED BY <2>2, FS_CardinalityType
<1>3. SumOver(size, {}) = 0
      /\ \A T \in SUBSET K : \A k \in T : SumOver(size, T) = size[k] + SumOver(size, T \ {k})
  BY <1>2, SumSteps
<1>4. {} \in G
  <2>1. In({}) = {}
    OBVIOUS
  <2> QED BY <1>3, <2>1, FS_EmptySet
<1>5. \A T \in SUBSET K : \A k \in T : T \ {k} \in G => T \in G
  <2>1. SUFFICES ASSUME NEW T \in SUBSET K, NEW k \in T, T \ {k} \in G PROVE T \in G
    OBVIOUS
  <2> DEFINE Here == {x \in S : class[x] = k}
  <2>2. In(T) = In(T \ {k}) \cup Here /\ In(T \ {k}) \cap Here = {}
    OBVIOUS
  <2>3. IsFiniteSet(Here) /\ Cardinality(Here) \in Nat
    BY FS_Subset, FS_CardinalityType
  <2>4. Cardinality(In(T)) = Cardinality(In(T \ {k})) + Cardinality(Here)
    <3> HIDE DEF In, Here
    <3>1. Cardinality(In(T \ {k}) \cup Here)
             = Cardinality(In(T \ {k})) + Cardinality(Here) - Cardinality(In(T \ {k}) \cap Here)
      BY <1>1, <2>3, FS_Union
    <3>2. Cardinality(In(T \ {k}) \cap Here) = 0
      BY <2>2, FS_EmptySet
    <3> QED BY <1>1, <2>2, <2>3, <3>1, <3>2
  <2>5. SumOver(size, T) = Cardinality(Here) + Cardinality(In(T \ {k}))
    BY <1>3, <2>1
  <2>6. SumOver(size, T) = Cardinality(In(T))
    <3> HIDE DEF In, Here
    <3> QED BY <1>1, <2>3, <2>4, <2>5
  <2> QED BY <2>6
<1>6. K \in G
  <2> HIDE DEF G
  <2> QED BY <1>4, <1>5, SetInduction
<1>7. In(K) = S
  OBVIOUS
<1> QED BY <1>6, <1>7

\* A sum does not depend on the names of its parts.
LEMMA SumRenamed ==
  ASSUME NEW f, NEW S, NEW I, IsFiniteSet(I), NEW b \in Bijection(I, S), NEW g,
         \A x \in S : f[x] \in Int, \A i \in I : g[i] = f[b[i]]
  PROVE  SumOver(g, I) = SumOver(f, S)
<1> DEFINE Image(T) == {b[i] : i \in T}
           G == {T \in SUBSET I : SumOver(g, T) = SumOver(f, Image(T))}
<1>1. /\ b \in [I -> S]
      /\ \A i, j \in I : b[i] = b[j] => i = j
      /\ \A x \in S : \E i \in I : b[i] = x
  BY DEF Bijection, Injection, Surjection, IsInjective
<1>2. IsFiniteSet(S)
  <2>1. b \in Surjection(I, S)
    BY DEF Bijection
  <2> QED BY <2>1, FS_Surjection
<1>3. \A i \in I : g[i] \in Int
  BY <1>1
<1>4. SumOver(g, {}) = 0 /\ \A T \in SUBSET I : \A i \in T : SumOver(g, T) = g[i] + SumOver(g, T \ {i})
  BY <1>3, SumSteps
<1>5. SumOver(f, {}) = 0 /\ \A T \in SUBSET S : \A x \in T : SumOver(f, T) = f[x] + SumOver(f, T \ {x})
  <2> HIDE DEF G, Image
  <2>1. \A x \in S : f[x] \in Int
    OBVIOUS
  <2> QED BY ONLY <1>2, <2>1, SumSteps
<1>6. {} \in G
  <2>1. Image({}) = {}
    OBVIOUS
  <2> QED BY <1>4, <1>5, <2>1
<1>7. \A T \in SUBSET I : \A i \in T : T \ {i} \in G => T \in G
  <2>1. SUFFICES ASSUME NEW T \in SUBSET I, NEW i \in T, T \ {i} \in G PROVE T \in G
    OBVIOUS
  <2>2. Image(T) \in SUBSET S /\ b[i] \in Image(T)
    BY <1>1
  <2>3. Image(T) \ {b[i]} = Image(T \ {i})
    BY <1>1
  <2> HIDE DEF Image
  <2>4. SumOver(f, Image(T)) = f[b[i]] + SumOver(f, Image(T \ {i}))
    BY <1>5, <2>2, <2>3
  <2> QED BY <1>4, <2>1, <2>4
<1>8. I \in G
  <2> HIDE DEF G
  <2> QED BY <1>6, <1>7, SetInduction
<1>9. Image(I) = S
  BY <1>1
<1> QED BY <1>8, <1>9

-----------------------------------------------------------------------------
(* Rounding *)

\* Division with a rest.
LEMMA Division ==
  ASSUME NEW a \in Int, NEW b \in Nat \ {0}
  PROVE  /\ a \div b \in Int /\ a % b \in 0..(b - 1) /\ a = b * (a \div b) + (a % b)
OBVIOUS

\* A rounded quotient is within a half of the quotient.
LEMMA Rounded ==
  ASSUME NEW a \in Int, NEW b \in Nat \ {0}
  PROVE  /\ RoundDiv(a, b) \in Int
         /\ 2 * (b * RoundDiv(a, b)) <= 2 * a + b
         /\ 2 * a - b <= 2 * (b * RoundDiv(a, b))
<1> DEFINE q == a \div b
           r == a % b
<1>1. q \in Int /\ r \in Int /\ 0 <= r /\ r < b /\ a = b * q + r
  BY Division
<1>2. b * (q + 1) = b * q + b /\ b * q \in Int
  BY <1>1
<1>3. RoundDiv(a, b) = IF 2 * r > b \/ (2 * r = b /\ q % 2 = 1) THEN q + 1 ELSE q
  BY DEF RoundDiv
<1> HIDE DEF q, r
<1> QED BY <1>1, <1>2, <1>3

-----------------------------------------------------------------------------
(* Sorting *)

\* Where x comes among the elements of S, counted from 0.
Before(S, R, x) == {y \in S : <<y, x>> \in R}
StrictOrder(S, R) ==
  /\ \A x \in S : <<x, x>> \notin R
  /\ \A x, y, z \in S : <<x, y>> \in R /\ <<y, z>> \in R => <<x, z>> \in R
  /\ \A x, y \in S : x # y => <<x, y>> \in R \/ <<y, x>> \in R

\* Elements that come later have more elements before them.
LEMMA BeforeMonotone ==
  ASSUME NEW S, IsFiniteSet(S), NEW R, StrictOrder(S, R), NEW x \in S
  PROVE  /\ IsFiniteSet(Before(S, R, x))
         /\ Cardinality(Before(S, R, x)) \in 0..(Cardinality(S) - 1)
         /\ \A y \in S : <<y, x>> \in R => Cardinality(Before(S, R, y)) < Cardinality(Before(S, R, x))
<1>1. Before(S, R, x) \subseteq S \ {x}
  BY DEF Before, StrictOrder
<1>2. IsFiniteSet(S \ {x}) /\ Cardinality(S \ {x}) = Cardinality(S) - 1 /\ Cardinality(S) \in Nat
  BY FS_RemoveElement, FS_CardinalityType
<1>3. IsFiniteSet(Before(S, R, x)) /\ Cardinality(Before(S, R, x)) <= Cardinality(S) - 1
  BY <1>1, <1>2, FS_Subset
<1>4. Cardinality(Before(S, R, x)) \in Nat
  BY <1>3, FS_CardinalityType
<1>5. ASSUME NEW y \in S, <<y, x>> \in R
      PROVE  Cardinality(Before(S, R, y)) < Cardinality(Before(S, R, x))
  <2>1. Before(S, R, y) \subseteq Before(S, R, x)
    BY <1>5 DEF Before, StrictOrder
  <2>2. y \in Before(S, R, x) /\ y \notin Before(S, R, y)
    BY <1>5 DEF Before, StrictOrder
  <2>3. IsFiniteSet(Before(S, R, y)) /\ Cardinality(Before(S, R, y)) <= Cardinality(Before(S, R, x))
        /\ (Cardinality(Before(S, R, x)) = Cardinality(Before(S, R, y)) => Before(S, R, x) = Before(S, R, y))
    BY <1>3, <2>1, FS_Subset
  <2>4. Cardinality(Before(S, R, y)) \in Nat
    BY <2>3, FS_CardinalityType
  <2> QED BY <1>4, <2>2, <2>3, <2>4
<1> QED BY <1>2, <1>3, <1>4, <1>5

\* Ordered lists every element of S once, each after those that come before it.
LEMMA OrderedSorts ==
  ASSUME NEW S, IsFiniteSet(S), NEW R, StrictOrder(S, R)
  PROVE  /\ Cardinality(S) \in Nat
         /\ Ordered(S, R) \in [1..Cardinality(S) -> S]
         /\ \A i, j \in 1..Cardinality(S) : i < j => <<Ordered(S, R)[i], Ordered(S, R)[j]>> \in R
<1> DEFINE N == Cardinality(S)
           P == 0..(N - 1)
           place == [x \in S |-> Cardinality(Before(S, R, x))]
           f == Ordered(S, R)
<1>1. N \in Nat
  BY FS_CardinalityType
<1>2. place \in [S -> P]
  BY BeforeMonotone
<1>3. ASSUME NEW x \in S, NEW y \in S, place[x] = place[y] PROVE x = y
  <2>1. ~ <<x, y>> \in R
    <3>1. SUFFICES ASSUME <<x, y>> \in R PROVE FALSE
      OBVIOUS
    <3>2. place[x] < place[y]
      BY <3>1, BeforeMonotone
    <3> QED BY <1>1, <1>2, <1>3, <3>2
  <2>2. ~ <<y, x>> \in R
    <3>1. SUFFICES ASSUME <<y, x>> \in R PROVE FALSE
      OBVIOUS
    <3>2. place[y] < place[x]
      BY <3>1, BeforeMonotone
    <3> QED BY <1>1, <1>2, <1>3, <3>2
  <2> QED BY <2>1, <2>2 DEF StrictOrder
<1>4. place \in Injection(S, P)
  BY <1>2, <1>3 DEF Injection, IsInjective
<1>5. IsFiniteSet(P) /\ Cardinality(P) = N
  BY <1>1, FS_Interval
<1>6. place \in Surjection(S, P)
  BY <1>4, <1>5, FS_Injection
<1>7. \A n \in P : \E x \in S : place[x] = n
  BY <1>6 DEF Surjection
<1>8. \A n \in 1..N : f[n] \in S /\ place[f[n]] = n - 1
  <2>1. TAKE n \in 1..N
  <2>2. \E x \in S : Cardinality(Before(S, R, x)) = n - 1
    BY <1>1, <1>7
  <2>3. f[n] = CHOOSE x \in S : Cardinality(Before(S, R, x)) = n - 1
    BY DEF Ordered, Before
  <2>4. f[n] \in S /\ Cardinality(Before(S, R, f[n])) = n - 1
    BY <2>2, <2>3
  <2> QED BY <2>4
<1>9. f \in [1..N -> S]
  BY <1>8 DEF Ordered
<1>10. ASSUME NEW i \in 1..N, NEW j \in 1..N, i < j PROVE <<f[i], f[j]>> \in R
  <2>1. f[i] \in S /\ f[j] \in S /\ place[f[i]] < place[f[j]]
    BY <1>1, <1>8, <1>10
  <2>2. f[i] # f[j]
    BY <1>1, <1>2, <2>1
  <2>3. ~ <<f[j], f[i]>> \in R
    <3>1. SUFFICES ASSUME <<f[j], f[i]>> \in R PROVE FALSE
      OBVIOUS
    <3>2. place[f[j]] < place[f[i]]
      BY <2>1, <3>1, BeforeMonotone
    <3> QED BY <1>1, <1>2, <2>1, <3>2
  <2> QED BY <2>1, <2>2, <2>3 DEF StrictOrder
<1> QED BY <1>1, <1>9, <1>10

\* It lists every element of S, exactly once: a bijection and a sequence.
LEMMA OrderedLists ==
  ASSUME NEW S, IsFiniteSet(S), NEW R, StrictOrder(S, R)
  PROVE  /\ Cardinality(S) \in Nat
         /\ Ordered(S, R) \in Seq(S) /\ Len(Ordered(S, R)) = Cardinality(S)
         /\ DOMAIN Ordered(S, R) = 1..Cardinality(S)
         /\ Ordered(S, R) \in Bijection(1..Cardinality(S), S)
         /\ \A i, j \in 1..Cardinality(S) : i < j => <<Ordered(S, R)[i], Ordered(S, R)[j]>> \in R
<1> DEFINE N == Cardinality(S)
           f == Ordered(S, R)
<1>1. N \in Nat /\ f \in [1..N -> S] /\ \A i, j \in 1..N : i < j => <<f[i], f[j]>> \in R
  BY OrderedSorts
<1>2. f \in Seq(S) /\ Len(f) = N /\ DOMAIN f = 1..N
  BY <1>1
<1>3. ASSUME NEW i \in 1..N, NEW j \in 1..N, f[i] = f[j] PROVE i = j
  <2>1. <<f[i], f[i]>> \notin R
    BY <1>1 DEF StrictOrder
  <2>2. ~(i < j) /\ ~(j < i)
    BY <1>1, <1>3, <2>1
  <2> QED BY <1>1, <2>2
<1>4. f \in Injection(1..N, S)
  BY <1>1, <1>3 DEF Injection, IsInjective
<1>5. IsFiniteSet(1..N) /\ Cardinality(1..N) = N
  BY <1>1, FS_Interval
<1>6. f \in Bijection(1..N, S)
  BY <1>4, <1>5, FS_Injection DEF Bijection
<1> QED BY <1>1, <1>2, <1>6

\* Numbers are in a strict order.
LEMMA InOrderLists ==
  ASSUME NEW S, IsFiniteSet(S), S \subseteq Int
  PROVE  /\ Cardinality(S) \in Nat
         /\ InOrder(S) \in Seq(S) /\ Len(InOrder(S)) = Cardinality(S)
         /\ DOMAIN InOrder(S) = 1..Cardinality(S)
         /\ InOrder(S) \in Bijection(1..Cardinality(S), S)
         /\ \A i, j \in 1..Cardinality(S) : i < j => InOrder(S)[i] < InOrder(S)[j]
<1> DEFINE R == {x \in S \X S : x[1] < x[2]}
           f == Ordered(S, R)
<1>1. StrictOrder(S, R)
  BY DEF StrictOrder
<1>2. /\ Cardinality(S) \in Nat
      /\ f \in Seq(S) /\ Len(f) = Cardinality(S)
      /\ DOMAIN f = 1..Cardinality(S)
      /\ f \in Bijection(1..Cardinality(S), S)
      /\ \A i, j \in 1..Cardinality(S) : i < j => <<f[i], f[j]>> \in R
  BY <1>1, OrderedLists
<1>3. ASSUME NEW i \in 1..Cardinality(S), NEW j \in 1..Cardinality(S), i < j PROVE f[i] < f[j]
  BY <1>2, <1>3
<1>4. InOrder(S) = f
  BY DEF InOrder
<1> QED BY <1>2, <1>3, <1>4

\* What the elements of a bijection from places to S say.
LEMMA BijectionFacts ==
  ASSUME NEW I, NEW S, NEW f \in Bijection(I, S)
  PROVE  /\ f \in [I -> S]
         /\ \A x \in S : \E i \in I : f[i] = x
         /\ \A i, j \in I : f[i] = f[j] => i = j
BY DEF Bijection, Injection, Surjection, IsInjective

\* A property holds of as many places as elements.
LEMMA CountPlaces ==
  ASSUME NEW I, NEW S, NEW f \in Bijection(I, S), IsFiniteSet(I), NEW A \in SUBSET I, NEW B \in SUBSET S,
         \A i \in I : i \in A <=> f[i] \in B
  PROVE  IsFiniteSet(A) /\ Cardinality(A) = Cardinality(B)
<1> DEFINE g == [i \in A |-> f[i]]
<1>1. \A i \in A : f[i] \in B
  OBVIOUS
<1>2. g \in [A -> B]
  BY <1>1
<1>3. \A i, j \in A : g[i] = g[j] => i = j
  BY BijectionFacts
<1>4. \A x \in B : \E i \in A : g[i] = x
  BY BijectionFacts
<1>5. g \in Bijection(A, B)
  BY <1>2, <1>3, <1>4 DEF Bijection, Injection, Surjection, IsInjective
<1>7. ExistsBijection(A, B)
  BY <1>5 DEF ExistsBijection
<1>8. IsFiniteSet(A)
  BY FS_Subset
<1> QED BY <1>7, <1>8, FS_Bijection

\* sorted lists the values of a function, each as often as it occurs, the least first.
LEMMA SortedLists ==
  ASSUME NEW f, IsFiniteSet(DOMAIN f), DOMAIN f \subseteq Int, \A x \in DOMAIN f : f[x] \in Int
  PROVE  /\ Cardinality(DOMAIN f) \in Nat
         /\ Sorted(f) \in Seq(Int) /\ Len(Sorted(f)) = Cardinality(DOMAIN f)
         /\ DOMAIN Sorted(f) = 1..Cardinality(DOMAIN f)
         /\ \E b \in Bijection(1..Cardinality(DOMAIN f), DOMAIN f) :
               \A i \in 1..Cardinality(DOMAIN f) : Sorted(f)[i] = f[b[i]]
         /\ \A i, j \in 1..Cardinality(DOMAIN f) : i < j => Sorted(f)[i] <= Sorted(f)[j]
<1> DEFINE D == DOMAIN f
           N == Cardinality(D)
           R == {x \in D \X D : f[x[1]] < f[x[2]] \/ (f[x[1]] = f[x[2]] /\ x[1] < x[2])}
           order == Ordered(D, R)
<1>1. StrictOrder(D, R)
  <2>1. \A x, y \in D : <<x, y>> \in R <=> f[x] < f[y] \/ (f[x] = f[y] /\ x < y)
    OBVIOUS
  <2>2. \A x \in D : f[x] \in Int /\ x \in Int
    OBVIOUS
  <2> HIDE DEF D, R
  <2>3. \A x \in D : <<x, x>> \notin R
    BY <2>1, <2>2
  <2>4. \A x, y, z \in D : <<x, y>> \in R /\ <<y, z>> \in R => <<x, z>> \in R
    <3>1. TAKE x, y, z \in D
    <3> QED BY <2>1, <2>2
  <2>5. \A x, y \in D : x # y => <<x, y>> \in R \/ <<y, x>> \in R
    BY <2>1, <2>2
  <2> QED BY <2>3, <2>4, <2>5 DEF StrictOrder
<1>2. /\ N \in Nat /\ DOMAIN order = 1..N /\ order \in Bijection(1..N, D)
      /\ \A i, j \in 1..N : i < j => <<order[i], order[j]>> \in R
  <2> HIDE DEF R
  <2> QED BY <1>1, OrderedLists
<1>3. Sorted(f) = [i \in DOMAIN order |-> f[order[i]]]
  BY DEF Sorted
<1>4. \A i \in 1..N : order[i] \in D
  BY <1>2, BijectionFacts
<1>5. \A i \in 1..N : Sorted(f)[i] = f[order[i]]
  BY <1>2, <1>3
<1>6. Sorted(f) \in [1..N -> Int]
  BY <1>2, <1>3, <1>4
<1>7. Sorted(f) \in Seq(Int) /\ Len(Sorted(f)) = N /\ DOMAIN Sorted(f) = 1..N
  BY <1>2, <1>6
<1>8. ASSUME NEW i \in 1..N, NEW j \in 1..N, i < j PROVE Sorted(f)[i] <= Sorted(f)[j]
  <2>1. <<order[i], order[j]>> \in R
    BY <1>2, <1>8
  <2>2. f[order[i]] < f[order[j]] \/ f[order[i]] = f[order[j]]
    BY <2>1
  <2>3. f[order[i]] \in Int /\ f[order[j]] \in Int
    BY <1>4
  <2> HIDE DEF order
  <2>4. f[order[i]] <= f[order[j]]
    BY ONLY <2>2, <2>3
  <2>5. i \in DOMAIN order /\ j \in DOMAIN order
    BY <1>2
  <2> QED BY <1>5, <2>4, <2>5
<1> QED BY <1>2, <1>5, <1>7, <1>8

\* Keep lists what s has at the places, in their order.
LEMMA KeepLists ==
  ASSUME NEW s, NEW P, IsFiniteSet(P), P \subseteq Int
  PROVE  /\ Cardinality(P) \in Nat
         /\ DOMAIN Keep(s, P) = 1..Cardinality(P) /\ Len(Keep(s, P)) = Cardinality(P)
         /\ \E b \in Bijection(1..Cardinality(P), P) :
               /\ \A i \in 1..Cardinality(P) : Keep(s, P)[i] = s[b[i]]
               /\ \A i, j \in 1..Cardinality(P) : i < j => b[i] < b[j]
<1> DEFINE order == InOrder(P)
           N == Cardinality(P)
<1>1. /\ N \in Nat /\ DOMAIN order = 1..N /\ order \in Bijection(1..N, P)
      /\ \A i, j \in 1..N : i < j => order[i] < order[j]
  BY InOrderLists
<1>2. Keep(s, P) = [i \in DOMAIN order |-> s[order[i]]]
  BY DEF Keep
<1> HIDE DEF order
<1>3. DOMAIN Keep(s, P) = 1..N /\ \A i \in 1..N : Keep(s, P)[i] = s[order[i]]
  BY <1>1, <1>2
<1>4. Len(Keep(s, P)) = N
  BY <1>1, <1>2
<1> QED BY <1>1, <1>3, <1>4

\* A sum that is scaled.
LEMMA SumTimes ==
  ASSUME NEW k \in Int, NEW f, NEW g, NEW S, IsFiniteSet(S), \A x \in S : f[x] \in Int /\ g[x] = k * f[x]
  PROVE  SumOver(g, S) = k * SumOver(f, S)
<1> DEFINE G == {T \in SUBSET S : SumOver(g, T) = k * SumOver(f, T)}
<1>1. \A x \in S : g[x] \in Int
  OBVIOUS
<1>2. /\ SumOver(f, {}) = 0 /\ SumOver(g, {}) = 0
      /\ \A T \in SUBSET S : /\ SumOver(f, T) \in Int
                             /\ \A x \in T : SumOver(f, T) = f[x] + SumOver(f, T \ {x})
      /\ \A T \in SUBSET S : /\ SumOver(g, T) \in Int
                             /\ \A x \in T : SumOver(g, T) = g[x] + SumOver(g, T \ {x})
  BY <1>1, SumSteps
<1>3. {} \in G
  BY <1>2
<1>4. ASSUME NEW T \in SUBSET S, NEW x \in T, T \ {x} \in G PROVE T \in G
  <2> DEFINE a == SumOver(f, T \ {x})
  <2>1. SumOver(g, T) = k * f[x] + k * a
    BY <1>2, <1>4
  <2>2. SumOver(f, T) = f[x] + a /\ a \in Int /\ f[x] \in Int
    BY <1>2
  <2> HIDE DEF a
  <2>3. k * (f[x] + a) = k * f[x] + k * a
    BY <2>2
  <2> QED BY <2>1, <2>2, <2>3
<1>5. S \in G
  <2> HIDE DEF G
  <2> QED BY <1>3, <1>4, SetInduction
<1> QED BY <1>5

LEMMA SumOfZeros ==
  ASSUME NEW f, NEW S, IsFiniteSet(S), \A x \in S : f[x] = 0
  PROVE  SumOver(f, S) = 0
<1>1. \A x \in S : f[x] \in Int /\ 0 <= f[x] /\ f[x] <= 0
  OBVIOUS
<1>2. Cardinality(S) * 0 <= SumOver(f, S) /\ SumOver(f, S) <= Cardinality(S) * 0
  <2>1. 0 \in Int
    OBVIOUS
  <2> QED BY ONLY <1>1, <2>1, IsFiniteSet(S), SumBounds
<1>3. SumOver(f, S) \in Int /\ Cardinality(S) \in Nat
  BY <1>1, SumTakeOut, FS_CardinalityType
<1> QED BY <1>2, <1>3

\* A factor that is not zero can be left out.
LEMMA LeaveFactorOut ==
  ASSUME NEW n \in Nat \ {0}, NEW x \in Int, NEW y \in Int, n * x <= n * y
  PROVE  x <= y
<1> SUFFICES ASSUME x >= y + 1 PROVE FALSE
  OBVIOUS
<1>1. n * x >= n * (y + 1)
  OBVIOUS
<1>2. n * (y + 1) = n * y + n
  OBVIOUS
<1>3. n * y \in Int /\ n * x \in Int
  OBVIOUS
<1> QED BY <1>1, <1>2, <1>3

\* A quotient that is at most b is rounded to at most b.
LEMMA AverageBelow ==
  ASSUME NEW a \in Int, NEW b \in Int, NEW n \in Nat \ {0}, a <= n * b
  PROVE  RoundDiv(a, n) \in Int /\ RoundDiv(a, n) <= b
<1> DEFINE r == RoundDiv(a, n)
<1>1. r \in Int /\ 2 * (n * r) <= 2 * a + n
  BY Rounded
<1> HIDE DEF r
<1>2. n * (2 * r) = 2 * (n * r) /\ n * (2 * b + 1) = 2 * (n * b) + n /\ n * b \in Int /\ n * r \in Int
  BY <1>1
<1>3. n * (2 * r) <= n * (2 * b + 1)
  BY <1>1, <1>2
<1>4. 2 * r \in Int /\ 2 * b + 1 \in Int
  BY <1>1
<1>5. 2 * r <= 2 * b + 1
  BY <1>3, <1>4, LeaveFactorOut
<1> QED BY <1>1, <1>5 DEF r

\* Rounded averages that are in order are of counts that are nearly so.
LEMMA AveragesNear ==
  ASSUME NEW a \in Int, NEW b \in Int, NEW n \in Nat \ {0}, RoundDiv(10 * a, n) <= RoundDiv(10 * b, n)
  PROVE  10 * (a - b) <= n
<1> DEFINE p == RoundDiv(10 * a, n)
           q == RoundDiv(10 * b, n)
<1>1. 10 * a \in Int /\ 10 * b \in Int
  OBVIOUS
<1>2. p \in Int /\ 2 * (10 * a) - n <= 2 * (n * p)
  BY <1>1, Rounded
<1>3. q \in Int /\ 2 * (n * q) <= 2 * (10 * b) + n
  BY <1>1, Rounded
<1>4. n * p \in Int /\ n * q \in Int /\ n * p <= n * q
  <2> HIDE DEF p, q
  <2>1. p <= q
    BY DEF p, q
  <2> QED BY <1>2, <1>3, <2>1
<1> HIDE DEF p, q
<1> DEFINE np == n * p
           nq == n * q
<1>5. np \in Int /\ nq \in Int /\ np <= nq /\ 20 * a - n <= 2 * np /\ 2 * nq <= 20 * b + n
  BY <1>2, <1>3, <1>4
<1> HIDE DEF np, nq
<1> QED BY <1>5

\* Shares of a whole, each rounded: their sum is the share of the sum, but for a
\* half for each.
Shares(S, w, k, c, p) ==
  /\ IsFiniteSet(S) /\ w \in Nat \ {0} /\ k \in Int
  /\ \A x \in S : c[x] \in Int /\ p[x] = RoundDiv(k * c[x], w)

LEMMA SharesNear ==
  ASSUME NEW S, NEW w, NEW k, NEW c, NEW p, Shares(S, w, k, c, p)
  PROVE  /\ \A x \in S : p[x] \in Int
         /\ SumOver(p, S) \in Int /\ SumOver(c, S) \in Int /\ Cardinality(S) \in Nat
         /\ 2 * (w * SumOver(p, S)) <= 2 * (k * SumOver(c, S)) + w * Cardinality(S)
         /\ 2 * (k * SumOver(c, S)) - w * Cardinality(S) <= 2 * (w * SumOver(p, S))
<1>0. /\ IsFiniteSet(S) /\ w \in Nat \ {0} /\ k \in Int
      /\ \A x \in S : c[x] \in Int /\ p[x] = RoundDiv(k * c[x], w)
  BY DEF Shares
<1> USE <1>0
<1> DEFINE n == Cardinality(S)
           kc == [x \in S |-> k * c[x]]
           wp == [x \in S |-> w * p[x]]
           wp2 == [x \in S |-> 2 * wp[x]]
           kc2 == [x \in S |-> (-2) * kc[x]]
           diff == [x \in S |-> wp2[x] + kc2[x]]
<1>1. \A x \in S : /\ p[x] \in Int /\ c[x] \in Int /\ kc[x] \in Int /\ wp[x] \in Int
                   /\ 2 * wp[x] <= 2 * kc[x] + w /\ 2 * kc[x] - w <= 2 * wp[x]
  <2> SUFFICES ASSUME NEW x \in S
               PROVE  /\ p[x] \in Int /\ c[x] \in Int /\ k * c[x] \in Int /\ w * p[x] \in Int
                      /\ 2 * (w * p[x]) <= 2 * (k * c[x]) + w /\ 2 * (k * c[x]) - w <= 2 * (w * p[x])
    OBVIOUS
  <2>1. c[x] \in Int /\ p[x] = RoundDiv(k * c[x], w) /\ k * c[x] \in Int
    OBVIOUS
  <2> DEFINE a == k * c[x]
             q == p[x]
  <2>2. a \in Int /\ q = RoundDiv(a, w)
    BY <2>1
  <2> HIDE DEF a, q
  <2>3. q \in Int /\ 2 * (w * q) <= 2 * a + w /\ 2 * a - w <= 2 * (w * q)
    BY <2>2, Rounded
  <2>4. w * q \in Int
    BY <2>3
  <2> QED BY <2>1, <2>3, <2>4 DEF a, q
<1>2. SumOver(p, S) \in Int /\ SumOver(c, S) \in Int /\ n \in Nat
  BY <1>1, SumTakeOut, FS_CardinalityType
<1>3. /\ SumOver(wp, S) = w * SumOver(p, S)
      /\ SumOver(kc, S) = k * SumOver(c, S)
  <2>1. /\ w \in Int /\ \A x \in S : p[x] \in Int /\ wp[x] = w * p[x]
        /\ k \in Int /\ \A x \in S : c[x] \in Int /\ kc[x] = k * c[x]
    BY <1>1
  <2> HIDE DEF kc, wp
  <2> QED BY <2>1, SumTimes
<1>4. /\ SumOver(wp2, S) = 2 * SumOver(wp, S)
      /\ SumOver(kc2, S) = (-2) * SumOver(kc, S)
  <2> DEFINE l == -2
  <2>1. /\ \A x \in S : wp[x] \in Int /\ wp2[x] = 2 * wp[x]
        /\ l \in Int /\ \A x \in S : kc[x] \in Int /\ kc2[x] = l * kc[x]
    BY <1>1
  <2>2. 2 \in Int
    OBVIOUS
  <2> HIDE DEF kc, wp, wp2, kc2, l
  <2>3. SumOver(kc2, S) = l * SumOver(kc, S)
    BY <2>1, SumTimes
  <2>4. SumOver(wp2, S) = 2 * SumOver(wp, S)
    BY <2>1, <2>2, SumTimes
  <2> QED BY <2>3, <2>4 DEF l
<1>5. SumOver(diff, S) = SumOver(wp2, S) + SumOver(kc2, S)
  <2>1. \A x \in S : wp2[x] \in Int /\ kc2[x] \in Int /\ diff[x] = wp2[x] + kc2[x]
    BY <1>1
  <2> HIDE DEF diff, wp2, kc2
  <2> QED BY <2>1, SumPlus
<1>6. n * (-w) <= SumOver(diff, S) /\ SumOver(diff, S) <= n * w
  <2> DEFINE lo == -w
  <2>1. \A x \in S : diff[x] \in Int /\ lo <= diff[x] /\ diff[x] <= w
    BY <1>1
  <2>2. lo \in Int /\ w \in Int
    OBVIOUS
  <2> HIDE DEF diff, lo
  <2>3. n * lo <= SumOver(diff, S) /\ SumOver(diff, S) <= n * w
    BY <2>1, <2>2, SumBounds
  <2> QED BY <2>3 DEF lo
<1> DEFINE A == w * SumOver(p, S)
           B == k * SumOver(c, S)
           wn == w * n
<1>7. A \in Int /\ B \in Int /\ wn \in Int /\ n * (-w) = -wn /\ n * w = wn
  <2> DEFINE sp == SumOver(p, S)
             sc == SumOver(c, S)
  <2>1. sp \in Int /\ sc \in Int /\ n \in Nat
    BY <1>2
  <2> HIDE DEF sp, sc, n
  <2>2. w * sp \in Int /\ k * sc \in Int /\ w * n \in Int /\ n * (-w) = -(w * n) /\ n * w = w * n
    BY <2>1
  <2> QED BY <2>2 DEF sp, sc
<1>8. SumOver(diff, S) = 2 * A + (-2) * B
  BY <1>3, <1>4, <1>5
<1> HIDE DEF A, B, wn, diff, n
<1>9. 2 * A <= 2 * B + wn /\ 2 * B - wn <= 2 * A
  BY <1>6, <1>7, <1>8
<1> QED BY <1>1, <1>2, <1>9 DEF A, B, wn, n

\* A part is no larger than the sum.
LEMMA PartBelowSum ==
  ASSUME NEW f, NEW S, IsFiniteSet(S), \A x \in S : f[x] \in Nat, NEW y \in S
  PROVE  f[y] <= SumOver(f, S)
<1>1. IsFiniteSet(S \ {y}) /\ \A x \in S \ {y} : f[x] \in Nat
  BY FS_RemoveElement
<1>2. SumOver(f, S \ {y}) \in Nat
  BY <1>1, SumNat
<1>3. SumOver(f, S) = f[y] + SumOver(f, S \ {y})
  <2>1. \A x \in S : f[x] \in Int
    OBVIOUS
  <2> QED BY <2>1, SumTakeOut
<1>4. f[y] \in Nat
  OBVIOUS
<1> QED BY <1>2, <1>3, <1>4

\* The sums over the elements of each class add up to the sum over all.
LEMMA SumByClass ==
  ASSUME NEW S, IsFiniteSet(S), NEW K, IsFiniteSet(K), NEW class, \A x \in S : class[x] \in K,
         NEW f, \A x \in S : f[x] \in Int,
         NEW cell, \A k \in K : cell[k] = {x \in S : class[x] = k},
         NEW part, \A k \in K : part[k] = SumOver(f, cell[k])
  PROVE  SumOver(part, K) = SumOver(f, S)
<1> DEFINE In(T) == {x \in S : class[x] \in T}
           G == {T \in SUBSET K : SumOver(part, T) = SumOver(f, In(T))}
<1>1. \A T : IsFiniteSet(In(T)) /\ In(T) \subseteq S /\ SumOver(f, In(T)) \in Int
  <2> TAKE T
  <2>1. IsFiniteSet(In(T)) /\ \A x \in In(T) : f[x] \in Int
    BY FS_Subset
  <2> HIDE DEF In
  <2>2. SumOver(f, In(T)) \in Int
    BY <2>1, SumTakeOut
  <2> QED BY <2>1, <2>2 DEF In
<1>2. \A k \in K : part[k] = SumOver(f, In({k}))
  <2> SUFFICES ASSUME NEW k \in K PROVE part[k] = SumOver(f, In({k}))
    OBVIOUS
  <2>1. In({k}) = cell[k]
    OBVIOUS
  <2> HIDE DEF In
  <2> QED BY <2>1
<1>3. \A k \in K : part[k] \in Int
  <2> HIDE DEF In
  <2> QED BY <1>1, <1>2
<1>4. /\ SumOver(part, {}) = 0 /\ SumOver(f, {}) = 0
      /\ \A T \in SUBSET K : \A k \in T : SumOver(part, T) = part[k] + SumOver(part, T \ {k})
  BY <1>3, SumSteps
<1>5. {} \in G
  <2>1. In({}) = {}
    OBVIOUS
  <2> QED BY <1>4, <2>1
<1>6. ASSUME NEW T \in SUBSET K, NEW k \in T, T \ {k} \in G PROVE T \in G
  <2>1. In(T) = In({k}) \cup In(T \ {k}) /\ In({k}) \cap In(T \ {k}) = {}
    OBVIOUS
  <2>2. SumOver(part, T \ {k}) = SumOver(f, In(T \ {k}))
    BY <1>6
  <2>3. \A x \in In({k}) \cup In(T \ {k}) : f[x] \in Int
    OBVIOUS
  <2>4. k \in K
    OBVIOUS
  <2> HIDE DEF In
  <2>5. SumOver(f, In({k}) \cup In(T \ {k})) = SumOver(f, In({k})) + SumOver(f, In(T \ {k}))
    BY <1>1, <2>1, <2>3, SumSplit, ZenonT(20)
  <2>6. SumOver(part, T) = SumOver(f, In(T))
    BY <1>2, <1>4, <2>1, <2>2, <2>4, <2>5
  <2> QED BY <2>6
<1>7. K \in G
  <2> HIDE DEF G
  <2> QED BY <1>5, <1>6, SetInduction
<1>8. In(K) = S
  OBVIOUS
<1> QED BY <1>7, <1>8

\* The sums of the rows of a table add up to those of its columns.
Table(A, B, row, column, rows, columns) ==
  /\ IsFiniteSet(A) /\ IsFiniteSet(B)
  /\ \A x \in A : \A y \in B : row[x][y] \in Int /\ column[y][x] = row[x][y]
  /\ \A x \in A : rows[x] = SumOver(row[x], B)
  /\ \A y \in B : columns[y] = SumOver(column[y], A)

LEMMA RowsAndColumns ==
  ASSUME NEW A, NEW B, NEW row, NEW column, NEW rows, NEW columns, Table(A, B, row, column, rows, columns)
  PROVE  SumOver(rows, A) = SumOver(columns, B)
<1> USE DEF Table
<1> DEFINE Upto(T) == [y \in B |-> SumOver(column[y], T)]
           G == {T \in SUBSET A : SumOver(rows, T) = SumOver(Upto(T), B)}
<1>1. \A y \in B : /\ SumOver(column[y], {}) = 0
                   /\ \A T \in SUBSET A : /\ SumOver(column[y], T) \in Int
                                          /\ \A x \in T : SumOver(column[y], T) = column[y][x] + SumOver(column[y], T \ {x})
  <2> TAKE y \in B
  <2> DEFINE f == column[y]
  <2>1. \A x \in A : f[x] \in Int
    OBVIOUS
  <2> HIDE DEF f
  <2>2. /\ SumOver(f, {}) = 0
        /\ \A T \in SUBSET A : /\ SumOver(f, T) \in Int
                               /\ \A x \in T : SumOver(f, T) = f[x] + SumOver(f, T \ {x})
    BY ONLY <2>1, IsFiniteSet(A), SumSteps
  <2> QED BY <2>2 DEF f
<1>2. \A x \in A : rows[x] \in Int
  <2> TAKE x \in A
  <2> DEFINE f == row[x]
  <2>1. \A y \in B : f[y] \in Int
    OBVIOUS
  <2>2. rows[x] = SumOver(f, B)
    OBVIOUS
  <2> HIDE DEF f
  <2> QED BY <2>1, <2>2, SumTakeOut
<1>3. /\ SumOver(rows, {}) = 0
      /\ \A T \in SUBSET A : /\ SumOver(rows, T) \in Int
                             /\ \A x \in T : SumOver(rows, T) = rows[x] + SumOver(rows, T \ {x})
  BY <1>2, SumSteps, SMTT(20)
<1>4. {} \in G
  <2> DEFINE g == Upto({})
  <2>1. \A y \in B : g[y] = 0
    BY <1>1
  <2> HIDE DEF g
  <2>2. SumOver(g, B) = 0
    BY <2>1, SumOfZeros
  <2> QED BY <1>3, <2>2 DEF g
<1>5. ASSUME NEW T \in SUBSET A, NEW x \in T, T \ {x} \in G PROVE T \in G
  <2> DEFINE f == row[x]
             g == Upto(T \ {x})
             h == Upto(T)
  <2>1. T \ {x} \in SUBSET A /\ x \in A
    OBVIOUS
  <2>2. \A y \in B : f[y] \in Int /\ g[y] \in Int /\ h[y] = f[y] + g[y]
    BY <1>1, <2>1, ZenonT(20)
  <2>3. rows[x] = SumOver(f, B) /\ SumOver(rows, T \ {x}) = SumOver(g, B)
    BY <1>5
  <2> HIDE DEF f, g, h
  <2>4. SumOver(h, B) = SumOver(f, B) + SumOver(g, B)
    BY <2>2, SumPlus
  <2>5. SumOver(rows, T) = SumOver(h, B)
    BY <1>3, <2>3, <2>4
  <2> QED BY <2>5 DEF h
<1>6. A \in G
  <2> HIDE DEF G
  <2> QED BY <1>4, <1>5, SetInduction
<1> DEFINE h == Upto(A)
<1>7. \A y \in B : h[y] \in Int /\ h[y] = columns[y]
  BY <1>1
<1>8. SumOver(rows, A) = SumOver(h, B)
  BY <1>6
<1> HIDE DEF h
<1>9. SumOver(h, B) = SumOver(columns, B)
  BY <1>7, SumEqual
<1> QED BY <1>8, <1>9

\* What is larger is not rounded to less.
LEMMA RoundMonotone ==
  ASSUME NEW a \in Int, NEW b \in Int, NEW w \in Nat \ {0}, a <= b
  PROVE  RoundDiv(a, w) \in Int /\ RoundDiv(b, w) \in Int /\ RoundDiv(a, w) <= RoundDiv(b, w)
<1> DEFINE p == a \div w
           q == b \div w
           r == a % w
           s == b % w
<1>1. /\ p \in Int /\ q \in Int /\ r \in 0..(w - 1) /\ s \in 0..(w - 1)
      /\ a = w * p + r /\ b = w * q + s
  BY Division
<1>2. /\ RoundDiv(a, w) = IF 2 * r > w \/ (2 * r = w /\ p % 2 = 1) THEN p + 1 ELSE p
      /\ RoundDiv(b, w) = IF 2 * s > w \/ (2 * s = w /\ q % 2 = 1) THEN q + 1 ELSE q
  BY DEF RoundDiv
<1> HIDE DEF p, q, r, s
<1>3. p <= q
  <2> SUFFICES ASSUME p >= q + 1 PROVE FALSE
    BY <1>1
  <2>1. w * p >= w * (q + 1)
    BY <1>1
  <2>2. w * (q + 1) = w * q + w /\ w * p \in Int /\ w * q \in Int
    BY <1>1
  <2> QED BY <1>1, <2>1, <2>2
<1>4. RoundDiv(a, w) \in {p, p + 1} /\ RoundDiv(b, w) \in {q, q + 1}
  BY <1>2
<1>5. CASE p < q
  BY <1>1, <1>4, <1>5
<1>6. CASE p = q
  <2>1. r <= s
    <3>1. w * p = w * q /\ w * p \in Int
      BY <1>1, <1>6
    <3> QED BY <1>1, <3>1
  <2>2. CASE RoundDiv(b, w) = q + 1
    BY <1>1, <1>4, <1>6, <2>2
  <2>3. CASE RoundDiv(b, w) = q
    <3>1. ~(2 * s > w \/ (2 * s = w /\ q % 2 = 1))
      BY <1>1, <1>2, <2>3
    <3>2. ~(2 * r > w \/ (2 * r = w /\ p % 2 = 1))
      BY <1>1, <1>6, <2>1, <3>1
    <3>3. RoundDiv(a, w) = p
      BY <1>2, <3>2
    <3> QED BY <1>1, <1>6, <2>3, <3>3
  <2> QED BY <1>4, <2>2, <2>3
<1> QED BY <1>1, <1>3, <1>5, <1>6

\* A recursion along 1..n has a solution.
Recursion(n, X, first, step, f) ==
  f \in [1..n -> X] /\ \A p \in 1..n : f[p] = IF p = 1 THEN first ELSE step[p][f[p - 1]]

LEMMA RecursionSolved ==
  ASSUME NEW n \in Nat, NEW X, NEW first \in X, NEW step \in [Int -> [X -> X]]
  PROVE  \E f : Recursion(n, X, first, step, f)
<1> DEFINE Solves(f, m) == \A p \in 1..m : f[p] = IF p = 1 THEN first ELSE step[p][f[p - 1]]
           G == {m \in Nat : \E f \in [1..m -> X] : Solves(f, m)}
<1>1. 0 \in G
  <2>1. [p \in 1..0 |-> first] \in [1..0 -> X] /\ Solves([p \in 1..0 |-> first], 0)
    OBVIOUS
  <2> QED BY <2>1
<1>2. ASSUME NEW m \in Nat, m \in G PROVE m + 1 \in G
  <2>1. PICK f \in [1..m -> X] : Solves(f, m)
    BY <1>2
  <2> DEFINE new == IF m = 0 THEN first ELSE step[m + 1][f[m]]
             g == [p \in 1..(m + 1) |-> IF p <= m THEN f[p] ELSE new]
  <2>2. new \in X
    <3>1. CASE m = 0
      BY <3>1
    <3>2. CASE m # 0
      <4>1. f[m] \in X
        BY <3>2
      <4>2. step[m + 1] \in [X -> X]
        OBVIOUS
      <4> QED BY <3>2, <4>1, <4>2
    <3> QED BY <3>1, <3>2
  <2> HIDE DEF new
  <2>3. g \in [1..(m + 1) -> X]
    BY <2>2
  <2>4. \A p \in 1..(m + 1) : g[p] = IF p = 1 THEN first ELSE step[p][g[p - 1]]
    <3> SUFFICES ASSUME NEW p \in 1..(m + 1)
                 PROVE  g[p] = IF p = 1 THEN first ELSE step[p][g[p - 1]]
      OBVIOUS
    <3>1. CASE p <= m
      <4>1. p \in 1..m /\ g[p] = f[p]
        BY <3>1
      <4>2. p # 1 => g[p - 1] = f[p - 1]
        BY <3>1
      <4>3. f[p] = IF p = 1 THEN first ELSE step[p][f[p - 1]]
        BY <2>1, <4>1
      <4> HIDE DEF g
      <4> QED BY <4>1, <4>2, <4>3
    <3>2. CASE p = m + 1
      <4>1. g[p] = new
        BY <3>2
      <4>2. m # 0 => p # 1 /\ p - 1 = m /\ g[p - 1] = f[m]
        BY <3>2
      <4>3. m = 0 => p = 1
        BY <3>2
      <4> HIDE DEF g
      <4> QED BY <3>2, <4>1, <4>2, <4>3 DEF new
    <3> QED BY <3>1, <3>2
  <2>5. m + 1 \in Nat
    OBVIOUS
  <2> HIDE DEF g
  <2> QED BY <2>3, <2>4, <2>5
<1>3. Nat \subseteq G
  <2> HIDE DEF G
  <2> QED BY <1>1, <1>2, NumberInduction
<1>4. PICK f \in [1..n -> X] : Solves(f, n)
  BY <1>3
<1> QED BY <1>4 DEF Recursion

=============================================================================
