--------------------------- MODULE QuestionRanking ---------------------------
(***************************************************************************)
(* The ranking of recurring questions that the insights jobs               *)
(* (QuestionAnalysisService.analyze) and the weekly analysis               *)
(* (WeeklyAnalysisService._cluster_questions) share.  A text is a model    *)
(* value, Key[t] what is left of it without case and punctuation; which    *)
(* texts belong together, and which of them speaks for its cluster, is     *)
(* what the embedding model answers.                                       *)
(***************************************************************************)
EXTENDS Builtins

CONSTANTS
  Key,          \* Key[t] : the normalised form of text t
  MinSize,      \* question_min_cluster_size
  MaxClusters   \* at most so many clusters are kept

\* What the theorems assume: clusters have at least one text (max(1, ...) in the code).
RankingConstants == MinSize \in Nat \ {0} /\ MaxClusters \in Nat

\* What a clustering of n texts can be: a label for every text and, for every
\* label, the text of its cluster that is closest to the centre.
Clusterings(n) ==
  {c \in [label : [1..n -> 1..n], closest : [1..n -> 1..n]] :
     /\ \A i \in 1..n : c.label[i] <= i /\ c.label[c.label[i]] = c.label[i]
     /\ \A l \in 1..n : IF c.label[l] = l THEN c.label[c.closest[l]] = l ELSE c.closest[l] = l}

Members(c, l) == {i \in DOMAIN c.label : c.label[i] = l}
Size(c, l) == Cardinality(Members(c, l))

\* Small clusters are noise; equal sizes stay in the order of their first texts,
\* which are their labels.
Large(c) == {l \in Range(c.label) : Size(c, l) >= MinSize}
LargestFirst(c) ==
  {x \in Large(c) \X Large(c) :
     Size(c, x[1]) > Size(c, x[2]) \/ (Size(c, x[1]) = Size(c, x[2]) /\ x[1] < x[2])}

\* Of clusters whose closest texts read the same only the largest is kept.
Ranking(texts, c) ==
  LET large == Ordered(Large(c), LargestFirst(c))
      KeyAt(n) == Key[texts[c.closest[large[n]]]]
      distinct == {n \in DOMAIN large : \A m \in 1..(n - 1) : KeyAt(m) # KeyAt(n)}
      kept == Ordered(distinct, {x \in distinct \X distinct : x[1] < x[2]})
  IN  [n \in 1..Min({Len(kept), MaxClusters}) |->
         [key |-> KeyAt(kept[n]), count |-> Size(c, large[kept[n]])]]

\* A ranking of n questions: the largest clusters first, no key twice, and no
\* question in two clusters, so that the counts add up to at most n.
RankingOK(ranking, n) ==
  /\ Len(ranking) <= MaxClusters
  /\ \A i \in DOMAIN ranking : ranking[i].count >= MinSize
  /\ \A i, j \in DOMAIN ranking : i < j =>
       ranking[i].count >= ranking[j].count /\ ranking[i].key # ranking[j].key
  /\ \E sum \in [0..Len(ranking) -> 0..n] :
       sum[0] = 0 /\ \A i \in DOMAIN ranking : sum[i] = sum[i - 1] + ranking[i].count
===============================================================================
