------------------------------ MODULE Builtins ------------------------------
(***************************************************************************)
(* What the services use of Python and of ORDER BY: sorting, with the      *)
(* order as a set of pairs, sums and rounding.                             *)
(***************************************************************************)
EXTENDS Integers, Sequences, FiniteSets, FiniteSetsExt, SequencesExt

\* The elements of S, each after those that come before it.
Ordered(S, Before) ==
  [n \in 1..Cardinality(S) |-> CHOOSE x \in S : Cardinality({y \in S : <<y, x>> \in Before}) = n - 1]

\* Numbers, the smallest first.
InOrder(S) == Ordered(S, {x \in S \X S : x[1] < x[2]})

\* sorted, of the values of a function on numbers: equal values stay in place.
Sorted(f) ==
  LET order == Ordered(DOMAIN f, {x \in (DOMAIN f) \X (DOMAIN f) :
                 f[x[1]] < f[x[2]] \/ (f[x[1]] = f[x[2]] /\ x[1] < x[2])})
  IN  [i \in DOMAIN order |-> f[order[i]]]

\* A comprehension with a condition: the elements of s at some of its places.
Keep(s, places) == LET order == InOrder(places) IN [i \in DOMAIN order |-> s[order[i]]]

\* sum, of the values of a function.
SumOf(f) == FoldFunction(+, 0, f)

\* round of a quotient: ties to even.
RoundDiv(a, b) ==
  LET q == a \div b
      rest == 2 * (a % b)
  IN  IF rest > b \/ (rest = b /\ q % 2 = 1) THEN q + 1 ELSE q
=============================================================================
